----------------------------- MODULE RemoteCalls -----------------------------
(***************************************************************************)
(* What a command may rely on when it hands its operations to the daemon,  *)
(* whatever is lost between them: an operation is carried out in the       *)
(* daemon, at most once and after it was asked for, or here, and then      *)
(* nothing was asked for; a call returns the answer to its own request,    *)
(* after that was carried out; and updates come in order, without a gap,   *)
(* after a subscription.                                                   *)
(***************************************************************************)
EXTENDS Integers, Sequences

CONSTANT Ids           \* requests, by number

VARIABLES asked,       \* requests made
          subs,        \* those that subscribe
          ran,         \* requests carried out in the daemon
          got,         \* got[id]: the request whose answer the call returned, or 0
          here,        \* the command carried the operation out itself
          shown        \* updates the command was shown

calls == <<asked, subs, ran, got, here, shown>>

Init ==
  /\ asked = 0 /\ subs = {} /\ ran = {} /\ got = [id \in Ids |-> 0]
  /\ here = FALSE /\ shown = <<>>

Ask ==
  /\ ~here
  /\ asked' = asked + 1 /\ subs' \in {subs, subs \cup {asked + 1}}
  /\ UNCHANGED <<ran, got, here, shown>>

Carry(id) ==
  /\ id <= asked /\ id \notin ran
  /\ ran' = ran \cup {id}
  /\ UNCHANGED <<asked, subs, got, here, shown>>

Return(id) ==
  /\ id \in ran /\ got[id] = 0
  /\ got' = [got EXCEPT ![id] = id]
  /\ UNCHANGED <<asked, subs, ran, here, shown>>

CarryHere ==
  /\ asked = 0
  /\ here' = TRUE
  /\ UNCHANGED <<asked, subs, ran, got, shown>>

Show ==
  /\ subs \cap ran # {}
  /\ shown' = Append(shown, Len(shown) + 1)
  /\ UNCHANGED <<asked, subs, ran, got, here>>

Next ==
  \/ Ask \/ CarryHere \/ Show
  \/ \E id \in Ids : Carry(id) \/ Return(id)

Spec == Init /\ [][Next]_calls
=============================================================================
