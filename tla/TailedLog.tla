------------------------------ MODULE TailedLog ------------------------------
(***************************************************************************)
(* What the updates file and its backup promise together, whatever fails   *)
(* or is killed inside the daemon: to whoever tails them, a log that grows *)
(* at its end, an event a line, and is cut off only at its front, never    *)
(* below one full file; a cut line spoils the one that is written next.    *)
(* Clients are shown the newest event of the log, each at most once.       *)
(***************************************************************************)
EXTENDS Integers, Sequences

CONSTANTS Events,      \* numbers of events, in their order
          Enough       \* lines the log is never trimmed below

VARIABLES wrote,       \* events written so far
          kept,        \* the lines that are there: an event or Garbled
          cut,         \* the last line has no end
          published    \* events shown to clients

log == <<wrote, kept, cut, published>>

Garbled == 0
Newest(s) == s[Len(s)]

Init == wrote = <<>> /\ kept = <<>> /\ cut = FALSE /\ published = <<>>

\* A newer event is written; after a cut line it is one with that.
Write(e) ==
  /\ wrote = <<>> \/ Newest(wrote) < e
  /\ wrote' = Append(wrote, e)
  /\ kept' = Append(kept, IF cut THEN Garbled ELSE e)
  /\ cut' = FALSE
  /\ UNCHANGED published

\* A write ends in the middle of a line.
Cut ==
  /\ kept' = Append(kept, Garbled) /\ cut' = TRUE
  /\ UNCHANGED <<wrote, published>>

\* The first n lines go.
Trim(n) ==
  /\ Len(kept) - n >= Enough
  /\ kept' = SubSeq(kept, n + 1, Len(kept))
  /\ UNCHANGED <<wrote, cut, published>>

\* The newest event is shown.
Publish ==
  /\ wrote # <<>> /\ (published = <<>> \/ Newest(published) < Newest(wrote))
  /\ published' = Append(published, Newest(wrote))
  /\ UNCHANGED <<wrote, kept, cut>>

Next ==
  \/ \E e \in Events : Write(e)
  \/ Cut
  \/ \E n \in 1 .. Len(kept) : Trim(n)
  \/ Publish

Spec == Init /\ [][Next]_log
=============================================================================
