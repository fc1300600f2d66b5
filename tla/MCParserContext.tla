--------------------------- MODULE MCParserContext ---------------------------
(***************************************************************************)
(* ParserContext with commands of each kind: their entries in              *)
(* tta/data/command_data.txt.                                              *)
(***************************************************************************)
EXTENDS ParserContext

Entry(c, fs, d, n) == [cmd |-> c, flags |-> fs, data |-> d, args |-> n]

Table == {
  Entry(CM_NONE, {}, "none", 0),
  Entry("node", {"CF_line", "CF_no_paragraph", "CF_root", "CF_contain_basic_inline"}, "LINE_line", 4),
  Entry("center", {"CF_line", "CF_no_paragraph", "CF_close_paragraph"}, "LINE_line", 1),
  Entry("cindex", {"CF_line", "CF_no_paragraph", "CF_contain_basic_inline"}, "LINE_line", 1),
  Entry("sp", {"CF_line", "CF_no_paragraph", "CF_close_paragraph"}, "LINE_specific", 1),
  Entry("end", {"CF_line", "CF_no_paragraph"}, "LINE_text", 1),
  Entry("c", {"CF_line", "CF_no_paragraph"}, "LINE_lineraw", 1),
  Entry("bye", {"CF_line", "CF_no_paragraph"}, "LINE_lineraw", 0),
  Entry("item_LINE", {"CF_line", "CF_no_paragraph", "CF_close_paragraph"}, "LINE_line", 1),
  Entry("deffnx", {"CF_line", "CF_no_paragraph", "CF_def", "CF_contain_basic_inline",
                   "CF_close_paragraph"}, "LINE_line", 1),
  Entry("deffn", {"CF_block", "CF_no_paragraph", "CF_def", "CF_contain_basic_inline",
                  "CF_close_paragraph"}, "BLOCK_def", 0),
  Entry("example", {"CF_block", "CF_no_paragraph", "CF_close_paragraph", "CF_preformatted",
                    "CF_variadic", "CF_contain_basic_inline"}, "BLOCK_preformatted", 0),
  Entry("menu", {"CF_block", "CF_no_paragraph", "CF_close_paragraph"}, "BLOCK_menu", 0),
  Entry("copying", {"CF_block", "CF_no_paragraph", "CF_close_paragraph"}, "BLOCK_region", 0),
  Entry("html", {"CF_block", "CF_no_paragraph"}, "BLOCK_format_raw", 0),
  Entry("tex", {"CF_block", "CF_no_paragraph"}, "BLOCK_format_raw", 0),
  Entry("verbatim", {"CF_block", "CF_no_paragraph", "CF_close_paragraph"}, "BLOCK_raw", 0),
  Entry("itemize", {"CF_block", "CF_no_paragraph", "CF_close_paragraph", "CF_blockitem",
                    "CF_contain_basic_inline"}, "BLOCK_item_container", 1),
  Entry("table", {"CF_block", "CF_no_paragraph", "CF_close_paragraph", "CF_blockitem",
                  "CF_contain_basic_inline"}, "BLOCK_item_line", 1),
  Entry("float", {"CF_block", "CF_no_paragraph", "CF_close_paragraph",
                  "CF_contain_basic_inline"}, "BLOCK_float", 2),
  Entry("displaymath", {"CF_block", "CF_no_paragraph", "CF_close_paragraph", "CF_math"},
        "BLOCK_math", 0),
  Entry("ifset", {"CF_block", "CF_no_paragraph"}, "BLOCK_conditional", 1),
  Entry("footnote", {"CF_brace"}, "BRACE_context", 1),
  Entry("caption", {"CF_brace", "CF_no_paragraph", "CF_close_paragraph"}, "BRACE_context", 1),
  Entry("math", {"CF_brace", "CF_math", "CF_contain_basic_inline"}, "BRACE_arguments", 1),
  Entry("email", {"CF_brace", "CF_contain_basic_inline"}, "BRACE_arguments", 2),
  Entry("inlineraw", {"CF_brace"}, "BRACE_inline", 2),
  Entry("code", {"CF_brace"}, "BRACE_style_code", 1),
  Entry("item", {"CF_nobrace", "CF_no_paragraph", "CF_close_paragraph"}, "NOBRACE_skipspace", 0),
  Entry("tab", {"CF_nobrace", "CF_no_paragraph", "CF_close_paragraph"}, "NOBRACE_skipspace", 0)}

EntryOf(c) == CHOOSE e \in Table : e.cmd = c
MCflags == [c \in AllCommands |-> EntryOf(c).flags]
MCdata == [c \in AllCommands |-> EntryOf(c).data]
MCargs_number == [c \in AllCommands |-> EntryOf(c).args]
=============================================================================
