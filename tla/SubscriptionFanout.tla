-------------------------- MODULE SubscriptionFanout --------------------------
(***************************************************************************)
(* The daemon's live update stream: internal/daemon/subscription.go, the   *)
(* connection and streaming goroutines of server.go and the pump and the   *)
(* shutdown order of worker.go.                                            *)
(*                                                                         *)
(* Goroutines: the pump (one), one handler per connection and one streamer *)
(* per subscription. They share the SubscriptionManager, whose RWMutex the *)
(* pump holds for reading during a whole Publish; every other access takes *)
(* it for writing and is one step. A step ends where another goroutine can *)
(* observe the difference: a lock, a channel, the socket.                  *)
(*                                                                         *)
(* An event is followed per subscription by its number among the events    *)
(* that matched it (see LossyFeed); 0 stands for none.                     *)
(*                                                                         *)
(* A definition introduced by "Fault:" is not part of the specification:   *)
(* it is a bug this code could have had in the definition that follows,    *)
(* kept to confirm that a property notices it.                             *)
(***************************************************************************)
EXTENDS WatchFilter, Sequences

CONSTANTS
  Conns,      \* client connections
  NoConn,     \* owner of a subscription that does not exist yet
  Filters,    \* filters a client may ask for
  Events,     \* events the dispatcher may produce
  BufSize,    \* capacity of a subscription's channel
  MaxSubs,    \* bound: subscriptions created
  MaxEvents   \* bound: events pumped

ASSUME FanoutAssumption ==
  /\ NoConn \notin Conns
  /\ BufSize \in Nat \ {0}
  /\ MaxSubs \in Nat
  /\ MaxEvents \in Nat

Ids == 1 .. MaxSubs

VARIABLES
  \* SubscriptionManager
  nextID, registered, mgrClosed,
  \* Subscription
  filter, C, chanClosed, dropped,
  \* streamer: program counter, event in hand, drops swapped out in hand
  stream, held, heldLag,
  \* connection handler: program counter, subscription in hand, connSubSet,
  \* what closeAll has left, whether the socket is open, owner of each sub
  pc, cur, owned, left, open, owner,
  \* worker: pump program counter, subscriptions Publish has left, counter
  \* updates_received, cancelled context, closed server
  pump, todo, updates, cancelled, srvClosed,
  \* what each client has seen: subscribe response, and the feed
  acked, matched, delivered, last, told

mgr    == <<nextID, registered, mgrClosed>>
sub    == <<filter, C, chanClosed, dropped>>
strm   == <<stream, held, heldLag>>
conn   == <<pc, cur, owned, left, open, owner>>
worker == <<pump, todo, updates, cancelled, srvClosed>>
seen   == <<acked, matched, delivered, last, told>>
vars   == <<mgr, sub, strm, conn, worker, seen>>

Init ==
  /\ nextID = 0 /\ registered = {} /\ mgrClosed = FALSE
  /\ filter = [s \in Ids |-> ZeroFilter]
  /\ C = [s \in Ids |-> <<>>]
  /\ chanClosed = [s \in Ids |-> FALSE]
  /\ dropped = [s \in Ids |-> 0]
  /\ stream = [s \in Ids |-> "none"]
  /\ held = [s \in Ids |-> 0]
  /\ heldLag = [s \in Ids |-> 0]
  /\ pc = [c \in Conns |-> "new"]
  /\ cur = [c \in Conns |-> 0]
  /\ owned = [c \in Conns |-> {}]
  /\ left = [c \in Conns |-> {}]
  /\ open = [c \in Conns |-> FALSE]
  /\ owner = [s \in Ids |-> NoConn]
  /\ pump = "select" /\ todo = {} /\ updates = 0
  /\ cancelled = FALSE /\ srvClosed = FALSE
  /\ acked = [s \in Ids |-> FALSE]
  /\ matched = [s \in Ids |-> 0]
  /\ delivered = [s \in Ids |-> 0]
  /\ last = [s \in Ids |-> 0]
  /\ told = [s \in Ids |-> 0]

\* Fault: the map is changed without the lock.
NoLock == TRUE

\* m.mu can be taken for writing.
Unlocked == pump # "publish"

\* The context handed to connection c's goroutines is done: the worker's is,
\* or handleConn returned.
CtxDone(c) == cancelled \/ pc[c] = "gone"

-----------------------------------------------------------------------------
(* The pump: pumpEvents, SubscriptionManager.Publish                       *)

\* An event was written to the sink; Publish takes the read lock, under which
\* the set of subscriptions it ranges over is fixed.
PublishBegin(ev) ==
  /\ pump = "select" /\ updates < MaxEvents
  /\ pump' = "publish"
  /\ todo' = IF mgrClosed THEN {}
             ELSE {s \in registered : Matches(filter[s], ev)}
  /\ UNCHANGED <<mgr, sub, strm, conn, updates, cancelled, srvClosed, seen>>

Queued(s) == Len(C[s])

\* Fault: a channel one larger than asked for.
HasRoomForOneMore(s) == Queued(s) <= BufSize

HasRoom(s) == Queued(s) < BufSize

\* The non-blocking send.
PublishSend(s) ==
  /\ pump = "publish" /\ s \in todo
  /\ todo' = todo \ {s}
  /\ matched' = [matched EXCEPT ![s] = @ + 1]
  /\ \/ /\ HasRoom(s)
        /\ C' = [C EXCEPT ![s] = Append(@, matched[s] + 1)]
        /\ UNCHANGED dropped
     \/ /\ ~HasRoom(s)
        /\ dropped' = [dropped EXCEPT ![s] = @ + 1]
        /\ UNCHANGED C
  /\ UNCHANGED <<mgr, filter, chanClosed, strm, conn, pump, updates,
                 cancelled, srvClosed, acked, delivered, last, told>>

\* Publish returns, the read lock is released, IncUpdates.
PublishEnd ==
  /\ pump = "publish" /\ todo = {}
  /\ pump' = "select"
  /\ updates' = updates + 1
  /\ UNCHANGED <<mgr, sub, strm, conn, todo, cancelled, srvClosed, seen>>

\* pumpEvents returns: the context is done, or the sink failed.
PumpReturn ==
  /\ pump = "select"
  /\ pump' = "returned"
  /\ UNCHANGED <<mgr, sub, strm, conn, todo, updates, cancelled, srvClosed, seen>>

-----------------------------------------------------------------------------
(* Shutdown                                                                *)

\* SIGTERM, SIGINT, or the end of the session cancels the worker's context.
Cancel ==
  /\ ~cancelled
  /\ cancelled' = TRUE
  /\ UNCHANGED <<mgr, sub, strm, conn, pump, todo, updates, srvClosed, seen>>

\* Fault: Close only stops the listener.
CloseListenerOnly ==
  /\ ~srvClosed /\ (cancelled \/ pump = "returned")
  /\ srvClosed' = TRUE
  /\ UNCHANGED <<mgr, sub, strm, conn, pump, todo, updates, cancelled, seen>>

\* Server.Close, called when the context is done (Serve) or after the pump
\* returned (Run). connMu is held while the connections are closed.
ServerClose ==
  /\ ~srvClosed /\ (cancelled \/ pump = "returned")
  /\ srvClosed' = TRUE
  /\ open' = [c \in Conns |-> FALSE]
  /\ UNCHANGED <<mgr, sub, strm, pc, cur, owned, left, owner, pump, todo,
                 updates, cancelled, seen>>

\* SubscriptionManager.Close, deferred by Run until the pump has returned and
\* the server is closed.
ManagerClose ==
  /\ pump = "returned" /\ srvClosed /\ ~mgrClosed
  /\ mgrClosed' = TRUE
  /\ chanClosed' = [s \in Ids |-> chanClosed[s] \/ s \in registered]
  /\ registered' = {}
  /\ UNCHANGED <<nextID, filter, C, dropped, strm, conn, worker, seen>>

-----------------------------------------------------------------------------
(* A connection's handler: handleConn, dispatch, connSubSet                *)

\* Accept, trackConn and the hello frame. A connection accepted while the
\* server closes is closed at once, the hello fails and the handler returns.
Accept(c) ==
  /\ pc[c] = "new"
  /\ open' = [open EXCEPT ![c] = ~srvClosed]
  /\ pc' = [pc EXCEPT ![c] = IF srvClosed THEN "gone" ELSE "scan"]
  /\ UNCHANGED <<mgr, sub, strm, cur, owned, left, owner, worker, seen>>

\* The client closes its end, at any time.
Disconnect(c) ==
  /\ open[c]
  /\ open' = [open EXCEPT ![c] = FALSE]
  /\ UNCHANGED <<mgr, sub, strm, pc, cur, owned, left, owner, worker, seen>>

\* Subscribe, and connSubs.add, which only this goroutine touches.
AddSubscription(c, f) ==
  /\ pc[c] = "scan" /\ Unlocked /\ nextID < MaxSubs
  /\ LET id == nextID + 1 IN
     /\ nextID' = id
     /\ filter' = [filter EXCEPT ![id] = f]
     /\ chanClosed' = [chanClosed EXCEPT ![id] = mgrClosed]
     /\ registered' = IF mgrClosed THEN registered ELSE registered \cup {id}
     /\ owner' = [owner EXCEPT ![id] = c]
     /\ owned' = [owned EXCEPT ![c] = @ \cup {id}]
     /\ cur' = [cur EXCEPT ![c] = id]
     /\ pc' = [pc EXCEPT ![c] = "reply"]
  /\ UNCHANGED <<mgrClosed, C, dropped, left, open, worker, seen>>

\* Fault: the streamer is started before the response is written.
SubscribeAndStream(c, f) ==
  /\ AddSubscription(c, f)
  /\ stream' = [stream EXCEPT ![nextID + 1] = "select"]
  /\ UNCHANGED <<held, heldLag>>

\* "subscribe" with a filter that resolved. The request may have been read
\* from the socket's buffer after the client left.
SubscribeRPC(c, f) == AddSubscription(c, f) /\ UNCHANGED strm

\* The response is written (a failed write is ignored) and the streamer starts.
SubscribeReply(c) ==
  /\ pc[c] = "reply"
  /\ acked' = [acked EXCEPT ![cur[c]] = open[c]]
  /\ stream' = [stream EXCEPT ![cur[c]] = "select"]
  /\ pc' = [pc EXCEPT ![c] = "scan"]
  /\ cur' = [cur EXCEPT ![c] = 0]
  /\ UNCHANGED <<mgr, sub, held, heldLag, owned, left, open, owner, worker,
                 matched, delivered, last, told>>

\* "unsubscribe" of any id the client names, its own or not. An id that is not
\* registered only leaves the set.
UnsubscribeRPC(c, id) ==
  /\ pc[c] = "scan" /\ Unlocked
  /\ \/ /\ id \in registered
        /\ registered' = registered \ {id}
        /\ cur' = [cur EXCEPT ![c] = id]
        /\ pc' = [pc EXCEPT ![c] = "close"]
        /\ UNCHANGED owned
     \/ /\ id \notin registered
        /\ owned' = [owned EXCEPT ![c] = @ \ {id}]
        /\ pc' = [pc EXCEPT ![c] = "unsubscribed"]
        /\ UNCHANGED <<registered, cur>>
  /\ UNCHANGED <<nextID, mgrClosed, sub, strm, left, open, owner, worker, seen>>

\* Unsubscribe closes the channel after it released the lock; then
\* connSubs.remove.
UnsubscribeClose(c) ==
  /\ pc[c] = "close"
  /\ chanClosed' = [chanClosed EXCEPT ![cur[c]] = TRUE]
  /\ owned' = [owned EXCEPT ![c] = @ \ {cur[c]}]
  /\ cur' = [cur EXCEPT ![c] = 0]
  /\ pc' = [pc EXCEPT ![c] = "unsubscribed"]
  /\ UNCHANGED <<mgr, filter, C, dropped, strm, left, open, owner, worker, seen>>

\* The response is written, or fails.
UnsubscribeReply(c) ==
  /\ pc[c] = "unsubscribed"
  /\ pc' = [pc EXCEPT ![c] = "scan"]
  /\ UNCHANGED <<mgr, sub, strm, cur, owned, left, open, owner, worker, seen>>

\* Fault: the connection forgets its subscriptions.
ScanEndForgets(c) ==
  /\ pc[c] = "scan"
  /\ owned' = [owned EXCEPT ![c] = {}]
  /\ pc' = [pc EXCEPT ![c] = "closeall"]
  /\ UNCHANGED <<mgr, sub, strm, cur, left, open, owner, worker, seen>>

\* The scanner stops: end of file, a closed socket, or a frame that is too
\* long. connSubs.closeAll takes the ids.
ScanEnd(c) ==
  /\ pc[c] = "scan"
  /\ left' = [left EXCEPT ![c] = owned[c]]
  /\ owned' = [owned EXCEPT ![c] = {}]
  /\ pc' = [pc EXCEPT ![c] = "closeall"]
  /\ UNCHANGED <<mgr, sub, strm, cur, open, owner, worker, seen>>

\* closeAll's next Unsubscribe.
CloseAllNext(c, id) ==
  /\ pc[c] = "closeall" /\ Unlocked /\ id \in left[c]
  /\ left' = [left EXCEPT ![c] = @ \ {id}]
  /\ \/ /\ id \in registered
        /\ registered' = registered \ {id}
        /\ cur' = [cur EXCEPT ![c] = id]
        /\ pc' = [pc EXCEPT ![c] = "closing"]
     \/ /\ id \notin registered
        /\ UNCHANGED <<registered, cur, pc>>
  /\ UNCHANGED <<nextID, mgrClosed, sub, strm, owned, open, owner, worker, seen>>

CloseAllClose(c) ==
  /\ pc[c] = "closing"
  /\ chanClosed' = [chanClosed EXCEPT ![cur[c]] = TRUE]
  /\ cur' = [cur EXCEPT ![c] = 0]
  /\ pc' = [pc EXCEPT ![c] = "closeall"]
  /\ UNCHANGED <<mgr, filter, C, dropped, strm, owned, left, open, owner,
                 worker, seen>>

\* handleConn's other deferred call, after closeAll: cancel, Close, untrack.
Hangup(c) ==
  /\ pc[c] = "closeall" /\ left[c] = {}
  /\ pc' = [pc EXCEPT ![c] = "gone"]
  /\ open' = [open EXCEPT ![c] = FALSE]
  /\ UNCHANGED <<mgr, sub, strm, cur, owned, left, owner, worker, seen>>

-----------------------------------------------------------------------------
(* A subscription's streamer: streamSubscription                           *)

\* select: an event. A closed channel still yields what it holds.
Receive(s) ==
  /\ stream[s] = "select" /\ C[s] # <<>>
  /\ held' = [held EXCEPT ![s] = Head(C[s])]
  /\ C' = [C EXCEPT ![s] = Tail(@)]
  /\ stream' = [stream EXCEPT ![s] = "received"]
  /\ UNCHANGED <<mgr, filter, chanClosed, dropped, heldLag, conn, worker, seen>>

\* Fault: a closed channel ends the streamer at once.
ReceiveClosedEarly(s) ==
  /\ stream[s] = "select" /\ chanClosed[s]
  /\ stream' = [stream EXCEPT ![s] = "done"]
  /\ UNCHANGED <<mgr, sub, held, heldLag, conn, worker, seen>>

\* select: the channel is closed and empty.
ReceiveClosed(s) ==
  /\ stream[s] = "select" /\ C[s] = <<>> /\ chanClosed[s]
  /\ stream' = [stream EXCEPT ![s] = "done"]
  /\ UNCHANGED <<mgr, sub, held, heldLag, conn, worker, seen>>

\* select: the context is done.
ReceiveDone(s) ==
  /\ stream[s] = "select" /\ CtxDone(owner[s])
  /\ stream' = [stream EXCEPT ![s] = "done"]
  /\ UNCHANGED <<mgr, sub, held, heldLag, conn, worker, seen>>

\* Fault: the counter is read and not reset.
LoadDropped(s) ==
  /\ stream[s] = "received"
  /\ heldLag' = [heldLag EXCEPT ![s] = dropped[s]]
  /\ stream' = [stream EXCEPT ![s] = IF dropped[s] > 0 THEN "lag" ELSE "update"]
  /\ UNCHANGED <<mgr, sub, held, conn, worker, seen>>

\* Fault: the counter is reset and the lag frame not written.
DiscardDropped(s) ==
  /\ stream[s] = "received"
  /\ dropped' = [dropped EXCEPT ![s] = 0]
  /\ stream' = [stream EXCEPT ![s] = "update"]
  /\ UNCHANGED <<mgr, filter, C, chanClosed, held, heldLag, conn, worker, seen>>

\* ResetDropped swaps the counter out.
ResetDropped(s) ==
  /\ stream[s] = "received"
  /\ heldLag' = [heldLag EXCEPT ![s] = dropped[s]]
  /\ dropped' = [dropped EXCEPT ![s] = 0]
  /\ stream' = [stream EXCEPT ![s] = IF dropped[s] > 0 THEN "lag" ELSE "update"]
  /\ UNCHANGED <<mgr, filter, C, chanClosed, held, conn, worker, seen>>

\* The lag frame; a failed write ends the streamer.
WriteLag(s) ==
  /\ stream[s] = "lag"
  /\ \/ /\ open[owner[s]]
        /\ told' = [told EXCEPT ![s] = @ + heldLag[s]]
        /\ heldLag' = [heldLag EXCEPT ![s] = 0]
        /\ stream' = [stream EXCEPT ![s] = "update"]
     \/ /\ ~open[owner[s]]
        /\ stream' = [stream EXCEPT ![s] = "done"]
        /\ UNCHANGED <<told, heldLag>>
  /\ UNCHANGED <<mgr, sub, held, conn, worker, acked, matched, delivered, last>>

\* The update frame.
WriteUpdate(s) ==
  /\ stream[s] = "update"
  /\ \/ /\ open[owner[s]]
        /\ delivered' = [delivered EXCEPT ![s] = @ + 1]
        /\ last' = [last EXCEPT ![s] = held[s]]
        /\ held' = [held EXCEPT ![s] = 0]
        /\ stream' = [stream EXCEPT ![s] = "select"]
     \/ /\ ~open[owner[s]]
        /\ stream' = [stream EXCEPT ![s] = "done"]
        /\ UNCHANGED <<delivered, last, held>>
  /\ UNCHANGED <<mgr, sub, heldLag, conn, worker, acked, matched, told>>

-----------------------------------------------------------------------------
PumpStep ==
  \/ \E ev \in Events : PublishBegin(ev)
  \/ \E s \in Ids : PublishSend(s)
  \/ PublishEnd
  \/ PumpReturn

ShutdownStep == Cancel \/ ServerClose \/ ManagerClose

ConnStep(c) ==
  \/ Accept(c)
  \/ Disconnect(c)
  \/ \E f \in Filters : SubscribeRPC(c, f)
  \/ SubscribeReply(c)
  \/ \E id \in Ids : UnsubscribeRPC(c, id)
  \/ UnsubscribeClose(c)
  \/ UnsubscribeReply(c)
  \/ ScanEnd(c)
  \/ \E id \in Ids : CloseAllNext(c, id)
  \/ CloseAllClose(c)
  \/ Hangup(c)

StreamStep(s) ==
  \/ Receive(s)
  \/ ReceiveClosed(s)
  \/ ReceiveDone(s)
  \/ ResetDropped(s)
  \/ WriteLag(s)
  \/ WriteUpdate(s)

Next ==
  \/ PumpStep
  \/ ShutdownStep
  \/ \E c \in Conns : ConnStep(c)
  \/ \E s \in Ids : StreamStep(s)

Spec == Init /\ [][Next]_vars

-----------------------------------------------------------------------------
(* Fairness                                                                *)

\* What the daemon does by itself: runnable goroutines run, a write to a
\* closed socket returns, the scanner's buffer of pending requests runs out
\* (strong: between two of them the handler is back at Scan), and Go's RWMutex
\* blocks new readers while a writer waits (strong: the pump releases it in
\* between), and a select with two ready cases does not starve one (strong, for
\* the pump). A write to an open socket is not in here: the client may not read.
PeerGone(s) == owner[s] \in Conns /\ ~open[owner[s]]

DaemonFairness ==
  /\ \A s \in Ids : WF_vars(PublishSend(s))
  /\ WF_vars(PublishEnd)
  /\ SF_vars(cancelled /\ PumpReturn)
  /\ WF_vars(ServerClose)
  /\ WF_vars(ManagerClose)
  /\ \A c \in Conns :
       /\ WF_vars(srvClosed /\ Accept(c))
       /\ WF_vars(~open[c] /\ SubscribeReply(c))
       /\ WF_vars(UnsubscribeClose(c))
       /\ WF_vars(~open[c] /\ UnsubscribeReply(c))
       /\ SF_vars(~open[c] /\ ScanEnd(c))
       /\ SF_vars(\E id \in Ids : CloseAllNext(c, id))
       /\ WF_vars(CloseAllClose(c))
       /\ WF_vars(Hangup(c))
  /\ \A s \in Ids :
       /\ WF_vars(Receive(s) \/ ReceiveClosed(s) \/ ReceiveDone(s))
       /\ WF_vars(ResetDropped(s))
       /\ WF_vars(PeerGone(s) /\ WriteLag(s))
       /\ WF_vars(PeerGone(s) /\ WriteUpdate(s))

\* A client that keeps reading lets every write return.
ReadingClients ==
  /\ \A c \in Conns : WF_vars(SubscribeReply(c))
  /\ \A s \in Ids : WF_vars(WriteLag(s)) /\ WF_vars(WriteUpdate(s))

FairSpec == Spec /\ DaemonFairness

-----------------------------------------------------------------------------
(* Properties                                                              *)

TypeManager ==
  /\ nextID \in 0 .. MaxSubs
  /\ registered \in SUBSET Ids
  /\ mgrClosed \in BOOLEAN

TypeSubscription ==
  /\ filter \in [Ids -> Filters \cup {ZeroFilter}]
  /\ C \in [Ids -> Seq(Nat)]
  /\ \A s \in Ids : Len(C[s]) <= BufSize
  /\ chanClosed \in [Ids -> BOOLEAN]
  /\ dropped \in [Ids -> Nat]

TypeStreamer ==
  /\ stream \in [Ids -> {"none", "select", "received", "lag", "update", "done"}]
  /\ held \in [Ids -> Nat]
  /\ heldLag \in [Ids -> Nat]

TypeConnection ==
  /\ pc \in [Conns -> {"new", "scan", "reply", "close", "unsubscribed",
                       "closeall", "closing", "gone"}]
  /\ cur \in [Conns -> Ids \cup {0}]
  /\ owned \in [Conns -> SUBSET Ids]
  /\ left \in [Conns -> SUBSET Ids]
  /\ open \in [Conns -> BOOLEAN]
  /\ owner \in [Ids -> Conns \cup {NoConn}]

TypeWorker ==
  /\ pump \in {"select", "publish", "returned"}
  /\ todo \in SUBSET Ids
  /\ updates \in Nat
  /\ cancelled \in BOOLEAN
  /\ srvClosed \in BOOLEAN

TypeSeen ==
  /\ acked \in [Ids -> BOOLEAN]
  /\ matched \in [Ids -> Nat]
  /\ delivered \in [Ids -> Nat]
  /\ last \in [Ids -> Nat]
  /\ told \in [Ids -> Nat]

\* Every variable has its type; in particular a channel never holds more than
\* its capacity.
TypeOK ==
  TypeManager /\ TypeSubscription /\ TypeStreamer /\ TypeConnection
    /\ TypeWorker /\ TypeSeen

\* Publish never sends on a closed channel, which would panic: a channel is
\* closed only after its subscription left the map, and the map only changes
\* outside Publish (subscription.go, Unsubscribe and Publish).
NoSendOnClosed == \A s \in todo : ~chanClosed[s]

InHand(s) == IF held[s] = 0 THEN 0 ELSE 1

\* Every event that matched a subscription is accounted for: shown, reported
\* lost, queued, in the streamer's hand, or counted in a counter that is going
\* to be reported (PublishSend and ResetDropped race on the same counter).
Accounted(s) ==
  matched[s] = delivered[s] + told[s] + Queued(s) + dropped[s] + heldLag[s]
               + InHand(s)

Accounting == \A s \in Ids : Accounted(s)

\* A drop is never stranded: a non-zero counter always has an event behind it
\* whose receipt makes the streamer report it.
Carried(s) == dropped[s] > 0 => C[s] # <<>> \/ stream[s] = "received"

DropHasCarrier == \A s \in Ids : Carried(s)

\* The client learns a subscription's id before anything about it is sent.
ResponseFirst == \A s \in Ids : delivered[s] + told[s] > 0 => acked[s]

\* A subscription in the map belongs to a connection whose handler still runs
\* and will unregister it, whoever else unsubscribes what meanwhile.
NoOrphan ==
  \A s \in registered :
    /\ owner[s] \in Conns
    /\ pc[owner[s]] # "gone"
    /\ s \in owned[owner[s]] \cup left[owner[s]]

\* The numbers in q increase, all beyond l and h, and at most m; whatever is
\* behind one of them also comes after it.
Ordered(q, l, h, m) ==
  \A i \in 1 .. Len(q) :
    /\ l < q[i] /\ h < q[i]
    /\ q[i] <= m - (Len(q) - i)
    /\ \A j \in 1 .. i - 1 : q[j] < q[i]

\* The queue holds later and later events, all after what the streamer holds
\* and what the client was last shown.
QueueOrder(s) == Ordered(C[s], last[s], held[s], matched[s])

\* What the streamer holds at each of its program points.
HandFits(s) ==
  /\ stream[s] \in {"none", "select"} => held[s] = 0
  /\ stream[s] \in {"received", "lag", "update"} => held[s] # 0
  /\ stream[s] \in {"none", "select", "received", "update"} => heldLag[s] = 0
  /\ stream[s] = "lag" => heldLag[s] > 0

\* Drops the client is about to be told of before it is shown what is in hand.
Pending(s) == heldLag[s] + (IF stream[s] = "received" THEN dropped[s] ELSE 0)

\* The event in the streamer's hand comes after what was last shown, and the
\* gap before it is covered by what was told or is about to be.
HandOrder(s) ==
  /\ last[s] <= matched[s]
  /\ held[s] # 0 =>
       /\ last[s] < held[s] /\ held[s] <= matched[s]
       /\ held[s] - 1 - delivered[s] <= told[s] + Pending(s)

\* Inductive together with TypeOK and Lifecycle: what makes the fanout a lossy
\* feed.
FeedInvOf(s) ==
  Accounted(s) /\ Carried(s) /\ QueueOrder(s) /\ HandFits(s) /\ HandOrder(s)

FeedInv == \A s \in Ids : FeedInvOf(s)

\* Publish ranges over subscriptions that stay in the map meanwhile, and the
\* manager is only closed once there is no more Publish.
PumpLife ==
  /\ todo \subseteq registered
  /\ pump # "publish" => todo = {}
  /\ mgrClosed => pump = "returned"

\* Ids are handed out once; a subscription in the map has an open channel; its
\* streamer starts with the response.
SubLife(s) ==
  /\ s > nextID => s \notin registered /\ stream[s] = "none"
  /\ s \in registered => ~chanClosed[s]
  /\ stream[s] = "none" => delivered[s] + told[s] = 0
  /\ stream[s] # "none" => owner[s] \in Conns /\ (acked[s] \/ ~open[owner[s]])
  /\ owner[s] \in Conns => pc[owner[s]] # "new"

\* A subscription that is being replied to has no streamer yet; one whose
\* channel is about to be closed has left the map.
ConnLife(c) ==
  /\ pc[c] = "reply" =>
       cur[c] \in 1 .. nextID /\ owner[cur[c]] = c /\ stream[cur[c]] = "none"
  /\ pc[c] \in {"close", "closing"} =>
       cur[c] \in 1 .. nextID /\ cur[c] \notin registered
  /\ pc[c] \in {"new", "closeall", "closing", "gone"} => owned[c] = {}
  /\ pc[c] \notin {"closeall", "closing"} => left[c] = {}

\* Inductive together with TypeOK: from creation to the end of its stream, a
\* subscription is the business of exactly one connection.
Lifecycle ==
  /\ PumpLife
  /\ \A s \in Ids : SubLife(s)
  /\ \A c \in Conns : ConnLife(c)
  /\ NoOrphan
  /\ ResponseFirst

\* A stream that ends because its channel was closed, while its connection
\* lives, has told the client the fate of every event that matched.
CleanEnd ==
  [][\A s \in Ids :
       (stream[s] = "select" /\ stream'[s] = "done" /\ ~CtxDone(owner[s]))
         => matched[s] = delivered[s] + told[s]]_vars

\* Each subscription is a lossy feed: in order, no repetition, no unreported
\* gap, no invented loss.
Feed == INSTANCE LossyFeed WITH Subs <- Ids
ImplementsLossyFeed == Feed!Spec

\* Once the server is closed the whole fanout winds down, whatever the clients
\* do: no handler and no streamer is left.
ShutdownDrains ==
  srvClosed ~> /\ pump = "returned" /\ mgrClosed
               /\ \A c \in Conns : pc[c] = "gone"
               /\ \A s \in Ids : stream[s] \in {"none", "done"}

\* A connection that closed is cleaned up: its handler returns, its
\* subscriptions are unregistered and closed, and their streamers have ended.
DisconnectCleansUp ==
  \A c \in Conns :
    (pc[c] # "new" /\ ~open[c]) ~>
      /\ pc[c] = "gone"
      /\ \A s \in Ids : owner[s] = c =>
           s \notin registered /\ chanClosed[s] /\ stream[s] = "done"

\* With a client that reads, every overflow reaches it: the next lag frame is
\* written, or the stream ends.
LagSurfaces ==
  ReadingClients =>
    \A s \in Ids : \A n \in 0 .. MaxEvents :
      (dropped[s] > 0 /\ told[s] = n) ~> (told[s] > n \/ stream[s] = "done")
=============================================================================
