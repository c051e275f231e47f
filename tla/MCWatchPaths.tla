----------------------------- MODULE MCWatchPaths -----------------------------
(* Small instances of WatchPaths. *)
EXTENDS WatchPaths, TLC

\* Chat 1 is a private chat or a channel and 2 a group.
MCUpdates == {
  [kind |-> "message", chat |-> 1, from |-> NoPeer, ids |-> 1],
  [kind |-> "edit",    chat |-> 2, from |-> 2,      ids |-> 1],
  [kind |-> "delete",  chat |-> 2, from |-> NoPeer, ids |-> 2],
  [kind |-> "delete",  chat |-> NoPeer, from |-> NoPeer, ids |-> 1]}

Peer(n) == [self |-> FALSE, id |-> n]

MCQueries ==
  [kinds : {{}, {"message", "edit"}, {"delete"}},
   refs  : {{}, {Peer(1)}, {Peer(2)}, {Peer(1), Peer(2)}},
   limit : {0, 2}]
=============================================================================
