---------------------------- MODULE InfoKeyInput ----------------------------
(***************************************************************************)
(* How Info reads keys (info/session.c): bytes of the terminal are stored  *)
(* in a ring, ahead of their use, and turned into keys by walking a tree   *)
(* of byte sequences (byte_seq_to_key), with a pause for the rest of a     *)
(* sequence that is not complete.  The terminal types while Info works.    *)
(***************************************************************************)
EXTENDS Integers, Sequences

CONSTANTS
  Bytes,        \* bytes that can be typed
  Esc, CtrlG, LetterO, Bracket,
  ParamBytes,   \* 0x30 .. 0x3f
  InterBytes,   \* 0x20 .. 0x2f
  NoByte,       \* what the ring holds before it is written
  Size,         \* MAX_INFO_INPUT_BUFFERING
  KeySeqs,      \* byte sequences of the special keys; none begins another
  MouseSeqs,    \* the one of them that reports the mouse
  KeyTimeZero,  \* answers to: is the user variable 'key-time' 0?
  MaxBacklog,   \* bound: bytes typed and not yet turned into keys
  MaxTyped      \* bound: bytes typed in all

ASSUME SizeAssumption == Size \in Nat /\ Size > 1
ASSUME BoundsAssumption == MaxBacklog \in Nat /\ MaxTyped \in Nat
ASSUME BytesAssumption ==
  /\ {Esc, CtrlG, LetterO, Bracket} \subseteq Bytes
  /\ ParamBytes \subseteq Bytes /\ InterBytes \subseteq Bytes
  /\ NoByte \notin Bytes
ASSUME KeySeqsAssumption == KeySeqs \subseteq Seq(Bytes) \ {<<>>} /\ MouseSeqs \subseteq KeySeqs
(* The sequences are the leaves of the tree that add_seq_to_byte_map makes *)
(* (terminal.c:758), and its entry for ESC is never one of them.           *)
ASSUME LeavesAssumption ==
  /\ <<Esc>> \notin KeySeqs
  /\ \A j, k \in KeySeqs: Len(j) < Len(k) => SubSeq(k, 1, Len(j)) # j
ASSUME KeyTimeAssumption == KeyTimeZero \subseteq BOOLEAN

VARIABLES
  tty,          \* bytes the input stream holds
  typed,        \* how many bytes were put there
  stream,       \* info_input_stream: a recorded session, or the terminal
  buf,          \* info_input_buffer
  pop_index, push_index,
  input,        \* input[i ..]: read from the stream, not yet in the ring
  pc, ret,      \* where the program is; where the read returns to
  path,         \* bytes walked in byte_seq_to_key since pop_start
  pop_start     \* 0 when no sequence is walked

vars == <<tty, typed, stream, buf, pop_index, push_index, input, pc, ret, path, pop_start>>
ttyVars == <<tty, typed, stream>>
keyVars == <<path, pop_start>>

-----------------------------------------------------------------------------
(* The ring. *)

(* A mutant of NextSlot: the index wraps one slot late. *)
NextSlotLate(i) == IF i >= Size THEN 0 ELSE i + 1

NextSlot(i) == IF i + 1 >= Size THEN 0 ELSE i + 1

HasByte == pop_index # push_index

(* get_byte_from_input_buffer *)
NextByte == buf[pop_index]

GetByte == pop_index' = IF HasByte THEN NextSlot(pop_index) ELSE pop_index

PutByte(b) ==
  /\ buf' = [buf EXCEPT ![push_index] = b]
  /\ push_index' = NextSlot(push_index)

SpaceAvail == IF pop_index > push_index
              THEN pop_index - push_index
              ELSE Size - (push_index - pop_index)

Distance(from, to) == IF to >= from THEN to - from ELSE Size - (from - to)

Slot(from, k) == IF from + k >= Size THEN from + k - Size ELSE from + k

(* The bytes of a ring between two indices. *)
Ring(bytes, from, to) == [k \in 1..Distance(from, to) |-> bytes[Slot(from, k - 1)]]

Contents(from, to) == Ring(buf, from, to)

Backlog == Len(tty) + Len(input) + Distance(pop_index, push_index) + Len(path)

-----------------------------------------------------------------------------
(* byte_seq_to_key: the kind of entry found by following path and then b.  *)

IsKeyPrefix(s) == \E k \in KeySeqs: Len(s) < Len(k) /\ SubSeq(k, 1, Len(s)) = s

Entry(s) ==
  CASE s = <<Esc>> -> "esc"
    [] s \in KeySeqs -> "key"
    [] s \notin KeySeqs /\ s # <<Esc>> /\ IsKeyPrefix(s) -> "map"
    [] s \notin KeySeqs /\ ~IsKeyPrefix(s) /\ s # <<Esc>> /\ Len(s) = 1 -> "key"
    [] OTHER -> "none"

-----------------------------------------------------------------------------
InitialTty == UNION {[1..n -> Bytes] : n \in 0..MaxBacklog}

(* Info starts on the terminal, or on a recorded session (--restore). *)
Init ==
  /\ \/ stream = "stdin" /\ tty = <<>>
     \/ stream = "file" /\ tty \in InitialTty
  /\ typed = Len(tty)
  /\ buf = [i \in 0..Size - 1 |-> NoByte]
  /\ pop_index = 0 /\ push_index = 0
  /\ input = <<>>
  /\ pc = "idle" /\ ret = "idle"
  /\ path = <<>> /\ pop_start = 0

(* The user types; the terminal sends. *)
Type(b) ==
  /\ stream = "stdin" /\ Backlog < MaxBacklog /\ typed < MaxTyped
  /\ tty' = Append(tty, b)
  /\ typed' = typed + 1
  /\ UNCHANGED <<stream, buf, pop_index, push_index, input, pc, ret, keyVars>>

-----------------------------------------------------------------------------
(* A command runs and, while it does, looks for typeahead ... *)
AnyBufferedInput ==
  /\ pc = "idle"
  /\ pc' = "read" /\ ret' = "idle"
  /\ UNCHANGED <<ttyVars, buf, pop_index, push_index, input, keyVars>>

(* ... or, in a search through several nodes, for a C-g ... *)
ControlGWaiting ==
  /\ pc = "idle"
  /\ pc' = "read" /\ ret' = "search"
  /\ UNCHANGED <<ttyVars, buf, pop_index, push_index, input, keyVars>>

(* ... or asks for the next key. *)
GetInputKey ==
  /\ pc = "idle"
  /\ pc' = "wait"
  /\ UNCHANGED <<ttyVars, buf, pop_index, push_index, input, ret, keyVars>>

(* fill_input_buffer (1), when a signal has come: the display is drawn     *)
(* again, which looks for typeahead, before the wait.  Before a read that  *)
(* does not wait this makes two reads in a row, which store what one does. *)
UpdateAfterSignal ==
  /\ pc = "wait"
  /\ pc' = "read" /\ ret' = "gather"
  /\ UNCHANGED <<ttyVars, buf, pop_index, push_index, input, keyVars>>

(* info_gather_typeahead (1) *)
WaitForByte ==
  /\ pc \in {"wait", "gather"}
  /\ IF HasByte
     THEN UNCHANGED <<tty, buf, push_index>>
     ELSE tty # <<>> /\ PutByte(Head(tty)) /\ tty' = Tail(tty)
  /\ pc' = "read" /\ ret' = "decode"
  /\ UNCHANGED <<typed, stream, pop_index, input, keyVars>>

(* The read fails: interrupted by a signal, and tried again ... *)
Interrupted ==
  /\ pc = "gather" /\ ~HasByte /\ tty = <<>>
  /\ pc' = "wait"
  /\ UNCHANGED <<ttyVars, buf, pop_index, push_index, input, ret, keyVars>>

(* ... or at the end of the recorded session: the display is updated, and  *)
(* that looks for typeahead; the terminal is waited for.                   *)
RestoreEnds ==
  /\ pc \in {"wait", "gather"} /\ ~HasByte /\ tty = <<>> /\ stream = "file"
  /\ stream' = "stdin"
  /\ pc' = "read" /\ ret' = "wait"
  /\ UNCHANGED <<tty, typed, buf, pop_index, push_index, input, keyVars>>

(* End of the terminal's input: Info exits. *)
TerminalEnds ==
  /\ pc \in {"wait", "gather"} /\ ~HasByte /\ tty = <<>> /\ stream = "stdin"
  /\ pc' = "exited"
  /\ UNCHANGED <<ttyVars, buf, pop_index, push_index, input, ret, keyVars>>

(* info_gather_typeahead: what is there, and no more than there is room    *)
(* for, is read at once ...                                                *)
CharsAvail == IF Len(tty) > SpaceAvail THEN SpaceAvail ELSE Len(tty)

ReadAvailable ==
  /\ pc = "read"
  /\ input' = SubSeq(tty, 1, CharsAvail)
  /\ tty' = SubSeq(tty, CharsAvail + 1, Len(tty))
  /\ pc' = "store"
  /\ UNCHANGED <<typed, stream, buf, pop_index, push_index, ret, keyVars>>

(* A mutant of StoreByte: C-g flushes by moving the other index. *)
StoreByteMovesPop ==
  /\ pc = "store" /\ input # <<>>
  /\ IF Head(input) # CtrlG
     THEN PutByte(Head(input)) /\ pop_index' = pop_index
     ELSE pop_index' = push_index /\ UNCHANGED <<buf, push_index>>
  /\ input' = Tail(input)
  /\ UNCHANGED <<ttyVars, pc, ret, keyVars>>

(* ... and stored byte by byte; C-g flushes all that waits. *)
StoreByte ==
  /\ pc = "store" /\ input # <<>>
  /\ IF Head(input) # CtrlG
     THEN PutByte(Head(input))
     ELSE push_index' = pop_index /\ buf' = buf
  /\ input' = Tail(input)
  /\ UNCHANGED <<ttyVars, pop_index, pc, ret, keyVars>>

Stored == pc = "store" /\ input = <<>>

(* A mutant of ReturnToCaller: the walk is not resumed with the new bytes. *)
ReturnToCallerGivesUp ==
  /\ Stored /\ ret \in {"idle", "wait", "gather", "more"}
  /\ pc' = IF ret = "more" THEN "giveup" ELSE ret
  /\ ret' = "idle"
  /\ UNCHANGED <<ttyVars, buf, pop_index, push_index, input, keyVars>>

ReturnToCaller ==
  /\ Stored /\ ret \in {"idle", "wait", "gather", "more"}
  /\ pc' = IF ret = "more" THEN "decode" ELSE ret
  /\ ret' = "idle"
  /\ UNCHANGED <<ttyVars, buf, pop_index, push_index, input, keyVars>>

(* control_g_waiting looks at the slot whether or not it holds a byte. *)
ReturnToSearch ==
  /\ Stored /\ ret = "search"
  /\ pc' = IF buf[pop_index] = CtrlG THEN "quit" ELSE "idle"
  /\ ret' = "idle"
  /\ UNCHANGED <<ttyVars, buf, pop_index, push_index, input, keyVars>>

(* The search is failed. *)
QuitSearch ==
  /\ pc = "quit"
  /\ pc' = "idle"
  /\ UNCHANGED <<ttyVars, buf, pop_index, push_index, input, ret, keyVars>>

-----------------------------------------------------------------------------
(* get_input_key_internal; get_input_key calls it again when it returns -1. *)

StartDecoding ==
  /\ Stored /\ ret = "decode"
  /\ IF HasByte
     THEN pc' = "decode" /\ pop_start' = pop_index
     ELSE pc' = "wait" /\ pop_start' = pop_start
  /\ ret' = "idle"
  /\ UNCHANGED <<ttyVars, buf, pop_index, push_index, input, path>>

KeyFound(s) == pc' = IF s \in MouseSeqs THEN "mouse3" ELSE "idle"

DecodeByte ==
  /\ pc = "decode"
  /\ HasByte
  /\ GetByte
  /\ LET s == Append(path, NextByte)
         kind == Entry(s)
     IN  /\ IF kind = "key"
            THEN path' = <<>> /\ pop_start' = 0
            ELSE path' = s /\ pop_start' = pop_start
         /\ \/ kind = "key" /\ KeyFound(s)
            \/ kind = "none" /\ pc' = "giveup"
            \/ kind \in {"esc", "map"}
               /\ pc' = IF pop_index' = push_index THEN "more" ELSE "decode"
  /\ UNCHANGED <<ttyVars, buf, push_index, input, ret>>

(* The select: it returns when there is input, when a signal comes, or     *)
(* after key-time.                                                         *)
MoreBytes ==
  /\ pc = "more"
  /\ \/ pc' = "read" /\ ret' = "more"
     \/ tty = <<>> /\ pc' = "decode" /\ ret' = ret
  /\ UNCHANGED <<ttyVars, buf, pop_index, push_index, input, keyVars>>

(* A mutant of IncompleteSequence: the rest is waited for again. *)
IncompleteSequenceWaits ==
  /\ pc = "decode" /\ ~HasByte
  /\ pc' = "more"
  /\ UNCHANGED <<ttyVars, buf, pop_index, push_index, input, ret, keyVars>>

IncompleteSequence ==
  /\ pc = "decode" /\ ~HasByte
  /\ pc' = "giveup"
  /\ UNCHANGED <<ttyVars, buf, pop_index, push_index, input, ret, keyVars>>

(* A mutant of StartAgain: the index is not put back. *)
StartAgainKeepsPop ==
  /\ pc = "giveup"
  /\ \E zero \in KeyTimeZero:
       pc' = IF Head(path) # Esc \/ (Len(path) >= 3 /\ zero) THEN "first" ELSE "escape"
  /\ path' = <<>> /\ pop_start' = 0
  /\ UNCHANGED <<ttyVars, buf, pop_index, push_index, input, ret>>

(* "Incomplete or unknown byte sequence. Start again with the first byte." *)
StartAgain ==
  /\ pc = "giveup"
  /\ pop_index' = pop_start
  /\ \E zero \in KeyTimeZero:
       pc' = IF Head(path) # Esc \/ (Len(path) >= 3 /\ zero) THEN "first" ELSE "escape"
  /\ path' = <<>> /\ pop_start' = 0
  /\ UNCHANGED <<ttyVars, buf, push_index, input, ret>>

(* The first byte is returned as it is. *)
FirstByte ==
  /\ pc = "first"
  /\ GetByte
  /\ pc' = "idle"
  /\ UNCHANGED <<ttyVars, buf, push_index, input, ret, path, pop_start>>

(* The first byte is ESC: alone it is the key ESC. *)
Escape ==
  /\ pc = "escape"
  /\ GetByte
  /\ pc' = IF pop_index' = push_index THEN "idle" ELSE "meta"
  /\ UNCHANGED <<ttyVars, buf, push_index, input, ret, path, pop_start>>

(* Meta and a byte, unless that byte can introduce an unrecognized key. *)
Meta ==
  /\ pc = "meta"
  /\ GetByte
  /\ \/ NextByte = LetterO /\ pc' = "read" /\ ret' = "meta_o"
     \/ NextByte = Bracket /\ pc' = "bracket" /\ ret' = ret
     \/ NextByte \notin {LetterO, Bracket} /\ pc' = "idle" /\ ret' = ret
  /\ UNCHANGED <<ttyVars, buf, push_index, input, path, pop_start>>

(* ESC O and no more is M-O; with another byte it is skipped. *)
MetaO ==
  /\ Stored /\ ret = "meta_o"
  /\ GetByte
  /\ pc' = IF HasByte THEN "wait" ELSE "idle"
  /\ ret' = "idle"
  /\ UNCHANGED <<ttyVars, buf, push_index, input, path, pop_start>>

(* ESC [ and no more is M-[; else a control sequence is skipped: bytes of  *)
(* ParamBytes, bytes of InterBytes, and the byte after them.               *)
CsiByte ==
  /\ pc \in {"bracket", "param", "inter"}
  /\ GetByte
  /\ \/ ~HasByte /\ pc' = IF pc = "bracket" THEN "idle" ELSE "wait"
     \/ /\ HasByte
        /\ \/ NextByte \in ParamBytes /\ pc # "inter" /\ pc' = "param"
           \/ NextByte \in InterBytes /\ pc' = "inter"
           \/ NextByte \notin InterBytes /\ (NextByte \in ParamBytes => pc = "inter") /\ pc' = "wait"
  /\ UNCHANGED <<ttyVars, buf, push_index, input, ret, path, pop_start>>

(* get_input_key takes the three bytes that describe the mouse event. *)
MouseByte ==
  /\ pc \in {"mouse3", "mouse2", "mouse1"}
  /\ GetByte
  /\ pc' = CASE pc = "mouse3" -> "mouse2" [] pc = "mouse2" -> "mouse1" [] pc = "mouse1" -> "idle"
  /\ UNCHANGED <<ttyVars, buf, push_index, input, ret, path, pop_start>>

-----------------------------------------------------------------------------
Read == \/ AnyBufferedInput \/ ControlGWaiting \/ GetInputKey \/ UpdateAfterSignal
        \/ WaitForByte \/ Interrupted \/ RestoreEnds \/ TerminalEnds
        \/ ReadAvailable \/ StoreByte \/ ReturnToCaller \/ ReturnToSearch
        \/ QuitSearch

Decode == \/ StartDecoding \/ DecodeByte \/ MoreBytes \/ IncompleteSequence
          \/ StartAgain \/ FirstByte \/ Escape \/ Meta \/ MetaO \/ CsiByte \/ MouseByte

Next == Read \/ Decode \/ \E b \in Bytes: Type(b)

Spec == Init /\ [][Next]_vars /\ WF_vars(Read \/ Decode)
-----------------------------------------------------------------------------
(* Properties *)

Waits == {"idle", "wait", "gather", "quit", "exited"}
Decoding == {"decode", "more", "giveup"}
HandlesKey == {"first", "escape", "meta", "bracket", "param", "inter", "mouse3", "mouse2", "mouse1"}
Returns == {"idle", "search", "wait", "gather", "decode", "more", "meta_o"}

TypeOK ==
  /\ tty \in Seq(Bytes) /\ input \in Seq(Bytes) /\ path \in Seq(Bytes \cup {NoByte})
  /\ typed \in Nat /\ stream \in {"file", "stdin"}
  /\ buf \in [0..Size - 1 -> Bytes \cup {NoByte}]
  /\ pop_index \in 0..Size - 1 /\ push_index \in 0..Size - 1 /\ pop_start \in 0..Size - 1
  /\ pc \in Waits \cup Decoding \cup HandlesKey \cup {"read", "store"}
  /\ ret \in Returns

(* The bytes that a rewind puts back are still in the ring, unchanged and  *)
(* next to those that wait: nothing read while a sequence is decoded, no   *)
(* flush by C-g and no turn of the ring has touched them.                  *)
HeldInRing ==
  path # <<>> =>
    /\ Contents(pop_start, pop_index) = path
    /\ Distance(pop_start, pop_index) + Distance(pop_index, push_index)
         = Distance(pop_start, push_index)

(* The ring implements the queue of InputQueue: no byte is lost, repeated  *)
(* or reordered between the terminal and the decoder.                      *)
Queue == INSTANCE InputQueue WITH
  unread <- input \o tty,
  live <- Contents(pop_index, push_index),
  held <- path

ImplementsQueue == Queue!QueueSpec

(* A key whose whole byte sequence has been read is not broken up: the     *)
(* decoder gives up on the bytes it holds only when they and those that    *)
(* wait in the ring do not start with the sequence of a known key.         *)
KnownKeyNotBroken ==
  pc = "giveup" =>
    LET s == path \o Contents(pop_index, push_index)
    IN  \A k \in KeySeqs: Head(k) = Esc => ~(Len(k) <= Len(s) /\ SubSeq(s, 1, Len(k)) = k)

(* A sequence that never becomes complete is given up: an ESC typed alone  *)
(* becomes a key, and Info does not hang on the first bytes of another.    *)
DecodingEnds == (path # <<>>) ~> (path = <<>>)

(* session-cmd.c: "Allow C-g to quit the search, failing it if pressed."   *)
(* A C-g typed before a search looks for it is seen by control_g_waiting.  *)
ControlGQuitsSearch ==
  (pc = "read" /\ ret = "search" /\ \E i \in DOMAIN tty: tty[i] = CtrlG)
     ~> (pc = "quit")
=============================================================================
