--------------------------- MODULE CommandPromise ----------------------------
(***************************************************************************)
(* What a run of any command promises a script that calls it: it changes   *)
(* things on one side only, in its own process or in the daemon; a         *)
(* destructive one only after it was agreed to; what it reports is the     *)
(* last word, unless it reports that it does not know; and a report that   *)
(* says that nothing was done is true.                                     *)
(***************************************************************************)
EXTENDS Integers

CONSTANT Sides         \* who may change something

VARIABLES asks,        \* the command has to be agreed to
          agreed,
          applied,     \* the sides that changed something
          outcome      \* "open", and then what was reported: "refused" (nothing
                       \* was done), "lost" (it does not know), "ended"

promise == <<asks, agreed, applied, outcome>>

Init == asks \in BOOLEAN /\ agreed = FALSE /\ applied = {} /\ outcome = "open"

Agree ==
  /\ outcome = "open"
  /\ agreed' = TRUE
  /\ UNCHANGED <<asks, applied, outcome>>

\* A side changes something, and may report an error about it at once.
Change(side) ==
  /\ outcome \in {"open", "lost"}
  /\ asks => agreed
  /\ applied \subseteq {side} /\ applied' = {side}
  /\ outcome' = outcome \/ (outcome = "open" /\ outcome' = "ended")
  /\ UNCHANGED <<asks, agreed>>

Report(how) ==
  /\ outcome = "open"
  /\ how = "refused" => applied = {}
  /\ outcome' = how
  /\ UNCHANGED <<asks, agreed, applied>>

Next ==
  \/ Agree
  \/ \E side \in Sides : Change(side)
  \/ \E how \in {"refused", "lost", "ended"} : Report(how)

Spec == Init /\ [][Next]_promise
=============================================================================
