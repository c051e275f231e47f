------------------------------ MODULE WatchPaths ------------------------------
(***************************************************************************)
(* `tg watch` with the same query on its two paths: the local session of   *)
(* cli/watch (streamLocal, streamLoop over telegram.RegisterWatchHandlers) *)
(* and the daemon (streamViaDaemon over the pump and a subscription). Both *)
(* are fed the same updates of the account.                                *)
(*                                                                         *)
(* What the daemon does between the pump and the socket is the subject of  *)
(* SubscriptionFanout; here it is a queue that drops when it is full.      *)
(*                                                                         *)
(* A definition introduced by "Fault:" is not part of the specification:   *)
(* it is a bug this code could have had in the definition that follows,    *)
(* kept to confirm that a property notices it.                             *)
(***************************************************************************)
EXTENDS WatchFilter, Sequences, SequencesExt

CONSTANTS
  Updates,    \* updates Telegram may push
  Queries,    \* queries [kinds, refs, limit]; limit 0 is none
  LocalBuf,   \* capacity of the local events channel
  SubBuf,     \* capacity of the subscription's channel
  MaxUpdates  \* bound: updates pushed

ASSUME PathsAssumption ==
  /\ LocalBuf \in Nat \ {0} /\ SubBuf \in Nat \ {0} /\ MaxUpdates \in Nat

\* A delete names the messages it deletes; a peer that was resolved has an id.
ASSUME PushedAssumption ==
  /\ \A u \in Updates : u.kind \in {"message", "edit", "delete"} /\ u.ids \in Nat \ {0}
  /\ \A q \in Queries : \A r \in q.refs : r.self \in BOOLEAN /\ (r.self \/ r.id # NoPeer)

VARIABLES
  query,                          \* what the user asked for
  log,                            \* the updates pushed, in order
  localNext, localQ, localSeen,   \* handlers, events channel, output
  daemonNext, daemonQ, daemonSeen, dropped

local  == <<localNext, localQ, localSeen>>
daemon == <<daemonNext, daemonQ, daemonSeen, dropped>>
vars   == <<query, log, local, daemon>>

Init ==
  /\ query \in Queries
  /\ log = <<>>
  /\ localNext = 1 /\ localQ = <<>> /\ localSeen = <<>>
  /\ daemonNext = 1 /\ daemonQ = <<>> /\ daemonSeen = <<>> /\ dropped = 0

Filter == FilterOf(query)

\* --limit events were written: the command returns and its context ends.
Finished(seen) == query.limit > 0 /\ Len(seen) >= query.limit

Push(u) ==
  /\ Len(log) < MaxUpdates
  /\ log' = Append(log, u)
  /\ UNCHANGED <<query, local, daemon>>

-----------------------------------------------------------------------------
(* Local path                                                              *)

\* Fault: a full channel drops the event instead of blocking the dispatcher.
LocalHandleDrops ==
  /\ localNext <= Len(log) /\ ~Finished(localSeen)
  /\ localQ' = IF LocalAccepts(Filter, log[localNext]) /\ Len(localQ) < LocalBuf
               THEN Append(localQ, localNext) ELSE localQ
  /\ localNext' = localNext + 1
  /\ UNCHANGED <<query, log, localSeen, daemon>>

\* A dispatcher handler: rejected, or emitted once the channel has room.
LocalHandle ==
  /\ localNext <= Len(log) /\ ~Finished(localSeen)
  /\ \/ /\ LocalAccepts(Filter, log[localNext])
        /\ Len(localQ) < LocalBuf
        /\ localQ' = Append(localQ, localNext)
     \/ /\ ~LocalAccepts(Filter, log[localNext])
        /\ UNCHANGED localQ
  /\ localNext' = localNext + 1
  /\ UNCHANGED <<query, log, localSeen, daemon>>

\* streamLoop writes the next event.
LocalShow ==
  /\ localQ # <<>> /\ ~Finished(localSeen)
  /\ localSeen' = Append(localSeen, Head(localQ))
  /\ localQ' = Tail(localQ)
  /\ UNCHANGED <<query, log, localNext, daemon>>

-----------------------------------------------------------------------------
(* Daemon path                                                             *)

\* The pump publishes the next event to the subscription.
DaemonPublish ==
  /\ daemonNext <= Len(log) /\ ~Finished(daemonSeen)
  /\ \/ /\ DaemonAccepts(Filter, log[daemonNext])
        /\ \/ /\ Len(daemonQ) < SubBuf
              /\ daemonQ' = Append(daemonQ, daemonNext)
              /\ UNCHANGED dropped
           \/ /\ Len(daemonQ) >= SubBuf
              /\ dropped' = dropped + 1
              /\ UNCHANGED daemonQ
     \/ /\ ~DaemonAccepts(Filter, log[daemonNext])
        /\ UNCHANGED <<daemonQ, dropped>>
  /\ daemonNext' = daemonNext + 1
  /\ UNCHANGED <<query, log, local, daemonSeen>>

\* streamViaDaemon writes the next "update" frame; it skips "lag" frames.
DaemonShow ==
  /\ daemonQ # <<>> /\ ~Finished(daemonSeen)
  /\ daemonSeen' = Append(daemonSeen, Head(daemonQ))
  /\ daemonQ' = Tail(daemonQ)
  /\ UNCHANGED <<query, log, local, daemonNext, dropped>>

-----------------------------------------------------------------------------
Next ==
  \/ \E u \in Updates : Push(u)
  \/ LocalHandle
  \/ LocalShow
  \/ DaemonPublish
  \/ DaemonShow

Spec == Init /\ [][Next]_vars

-----------------------------------------------------------------------------
(* Properties                                                              *)

\* s lists the numbers in set, in order.
Lists(s, set) ==
  /\ \A i, j \in DOMAIN s : i < j => s[i] < s[j]
  /\ ToSet(s) = set

LocalAccepted(n) == {i \in 1 .. n : LocalAccepts(Filter, log[i])}

\* The local path shows every accepted update, in order: its channel blocks
\* the dispatcher where the daemon's drops (telegram/watch.go, emit).
LocalShowsAll == Lists(localSeen \o localQ, LocalAccepted(localNext - 1))

Drained ==
  /\ localNext > Len(log) /\ daemonNext > Len(log)
  /\ localQ = <<>> /\ daemonQ = <<>> /\ dropped = 0

\* An update whose row is attributed to its conversation: a channel post, an
\* incoming private message, a delete.
Unauthored(u) == u.from \in {NoPeer, u.chat}

\* The two paths show the same events, as long as every message is attributed
\* to its conversation and `me` is not among the refs.
SameWhenUnauthored ==
  (Drained /\ (\A i \in 1 .. Len(log) : Unauthored(log[i]))
           /\ (\A r \in query.refs : ~r.self))
    => localSeen = daemonSeen
=============================================================================
