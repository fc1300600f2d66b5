----------------------------- MODULE InputQueue -----------------------------
(***************************************************************************)
(* What Info's input buffer (info/session.c, "Input Character Buffering")  *)
(* promises to the code that decodes keys: the bytes of the terminal come  *)
(* out once each and in the order they were typed, except that a C-g read  *)
(* ahead throws away the bytes waiting in front of it; the bytes of a key  *)
(* being decoded can be put back to be read again.                         *)
(***************************************************************************)
EXTENDS Sequences

CONSTANTS
  Bytes,    \* bytes that can be typed
  CtrlG     \* the byte of C-g

VARIABLES
  unread,   \* typed, not yet read by Info
  live,     \* read, waiting to be decoded
  held      \* taken for the key being decoded, can still be put back

queueVars == <<unread, live, held>>

QueueInit == unread \in Seq(Bytes) /\ live = <<>> /\ held = <<>>

Typed(b) == unread' = Append(unread, b) /\ UNCHANGED <<live, held>>

(* A byte read ahead; C-g is never stored. *)
ReadAhead ==
  /\ unread # <<>>
  /\ live' = IF Head(unread) = CtrlG THEN <<>> ELSE Append(live, Head(unread))
  /\ unread' = Tail(unread)
  /\ held' = held

(* The byte the program waited for: any byte, C-g too, is stored. *)
ReadWaitedFor ==
  /\ unread # <<>> /\ live = <<>> /\ held = <<>>
  /\ live' = <<Head(unread)>>
  /\ unread' = Tail(unread)
  /\ held' = held

(* The next byte is taken; it stays in hand, or it ends what was in hand. *)
Take ==
  /\ live # <<>>
  /\ live' = Tail(live)
  /\ held' \in {Append(held, Head(live)), <<>>}
  /\ unread' = unread

PutBack ==
  /\ live' = held \o live
  /\ held' = <<>>
  /\ unread' = unread

QueueNext ==
  \/ \E b \in Bytes: Typed(b)
  \/ ReadAhead \/ ReadWaitedFor \/ Take \/ PutBack

QueueSpec == QueueInit /\ [][QueueNext]_queueVars
=============================================================================
