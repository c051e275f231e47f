------------------------------ MODULE LossyFeed ------------------------------
(***************************************************************************)
(* What one subscription promises its client, whatever happens inside the  *)
(* daemon: the events that match it are numbered 1, 2, 3, ... and the      *)
(* client is shown some of them, in order, without repetition; it is told  *)
(* how many it missed; it is never told of more losses than there are; and *)
(* it is never shown an event beyond a gap it has not been told about.     *)
(***************************************************************************)
EXTENDS Integers

CONSTANT Subs           \* subscriptions

VARIABLES matched,      \* matched[s]:   events that matched s so far
          delivered,    \* delivered[s]: events shown to the client
          last,         \* last[s]:      number of the last event shown
          told          \* told[s]:      losses reported in "lag" frames

feed == <<matched, delivered, last, told>>

\* Events whose fate the client does not know yet.
Unsettled(s) == matched[s] - delivered[s] - told[s]

Init ==
  /\ matched   = [s \in Subs |-> 0]
  /\ delivered = [s \in Subs |-> 0]
  /\ last      = [s \in Subs |-> 0]
  /\ told      = [s \in Subs |-> 0]

Match(s) ==
  /\ matched' = [matched EXCEPT ![s] = @ + 1]
  /\ UNCHANGED <<delivered, last, told>>

\* Event k is shown. The k - 1 before it were shown or reported lost.
Show(s, k) ==
  /\ last[s] < k /\ k <= matched[s]
  /\ k - 1 - delivered[s] <= told[s]
  /\ Unsettled(s) > 0
  /\ delivered' = [delivered EXCEPT ![s] = @ + 1]
  /\ last' = [last EXCEPT ![s] = k]
  /\ UNCHANGED <<matched, told>>

\* n > 0 events are reported lost.
Tell(s, n) ==
  /\ 0 < n /\ n <= Unsettled(s)
  /\ told' = [told EXCEPT ![s] = @ + n]
  /\ UNCHANGED <<matched, delivered, last>>

Next ==
  \E s \in Subs :
    \/ Match(s)
    \/ \E k \in 1 .. matched[s] : Show(s, k)
    \/ \E n \in 1 .. matched[s] : Tell(s, n)

Spec == Init /\ [][Next]_feed
=============================================================================
