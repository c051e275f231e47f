------------------------ MODULE MCSubscriptionFanout ------------------------
(* Small instances of SubscriptionFanout. *)
EXTENDS SubscriptionFanout, TLC

CONSTANTS c1, c2

\* A message in chat 1 and a channel delete in chat 2.
MCEvents == {[kind |-> "message", row |-> 1, rows |-> {}],
             [kind |-> "delete", row |-> NoPeer, rows |-> {2}]}

OneEvent == {[kind |-> "message", row |-> 1, rows |-> {}]}

AllUpdates == {ZeroFilter}

\* Everything, or chat 1 only.
MCFilters == {ZeroFilter, [kinds |-> {}, peers |-> {1}]}

Symmetry == Permutations(Conns)
=============================================================================
