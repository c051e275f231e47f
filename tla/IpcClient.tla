------------------------------ MODULE IpcClient ------------------------------
(***************************************************************************)
(* One connection of a command to the daemon (internal/daemon/client.go,   *)
(* internal/runtime/daemon_client.go): the dial that waits for Hello or    *)
(* falls back to the local path, the calls that wait for the response with *)
(* their id, the reader goroutine that hands responses to calls and events *)
(* to the Events channel, and Close, which both sides may run.             *)
(*                                                                         *)
(* The daemon end is what handleConn and dispatch do to one connection     *)
(* (internal/daemon/server.go); it may go away at any moment, and what it  *)
(* wrote before can still be read. A panic ends the process.               *)
(*                                                                         *)
(* A definition introduced by "Fault:" is not part of the specification:   *)
(* it is a bug this code could have had in the definition that follows,    *)
(* kept to confirm that a property notices it.                             *)
(***************************************************************************)
EXTENDS Integers, Sequences, SequencesExt

CONSTANTS
  Callers,       \* goroutines that make calls
  SharedClient,  \* the calls, the reading of Events and Close have a goroutine
                 \* each; otherwise one goroutine does all, as the commands do
  EventsCap,     \* capacity of Events
  WireCap,       \* frames the socket holds before the daemon's write blocks
  MaxCalls,      \* bound: calls made
  MaxUpdates     \* bound: updates the daemon pushes

ASSUME ClientAssumption ==
  /\ SharedClient \in BOOLEAN
  /\ EventsCap \in Nat \ {0} /\ WireCap \in Nat \ {0}
  /\ MaxCalls \in Nat /\ MaxUpdates \in Nat

VARIABLES
  main,        \* the goroutine that dials and closes
  pc, call,    \* program counter and current id of each caller
  nextID, pending, box, shut,  \* calls; box[id]: what the call's channel holds;
                               \* shut: the channels that are closed
  reader, hand,                \* the reader's program counter, frame in hand
  events, consumed,            \* Events; updates taken from it
  closeAt,     \* how far Close has come
  readFailed,  \* a line could not be read or parsed
  got,         \* got[id]: id of the response that ended the call, or 0
  subs,        \* ids of the subscribe calls
  localRan,    \* the local path ran
  cancelled,   \* the command's context is done
  panic,       \* why the process panicked, or "none"
  daemon, toServer, toClient,  \* the daemon's end, requests and frames in flight
  taken, ran, answered, pushed \* requests read, run, answered; updates pushed

callVars   == <<pc, call, nextID, pending, box, shut, got, subs>>
readerVars == <<reader, hand, readFailed>>
daemonVars == <<daemon, toServer, toClient, taken, ran, answered, pushed>>
mainVars   == <<main, consumed, localRan, cancelled>>
vars == <<callVars, readerVars, daemonVars, mainVars, events, closeAt, panic>>

Ids == 1 .. MaxCalls
Frame(kind, n) == [kind |-> kind, n |-> n]
NoFrame == Frame("none", 0)

\* Close: close(closed), then the connection, then pending, then Events.
Closed       == closeAt >= 1
ConnClosed   == closeAt >= 2
PendingNil   == closeAt >= 3
EventsClosed == closeAt = 4

Init ==
  /\ main = "dial"
  /\ pc = [c \in Callers |-> "idle"] /\ call = [c \in Callers |-> 0]
  /\ nextID = 0 /\ pending = {} /\ shut = {}
  /\ box = [i \in Ids |-> 0] /\ got = [i \in Ids |-> 0] /\ subs = {}
  /\ reader = "scan" /\ hand = NoFrame /\ readFailed = FALSE
  /\ events = <<>> /\ consumed = <<>> /\ closeAt = 0
  /\ localRan = FALSE /\ cancelled = FALSE /\ panic = "none"
  /\ daemon = "accepted" /\ toServer = <<>> /\ toClient = <<>>
  /\ taken = {} /\ ran = {} /\ answered = {} /\ pushed = 0

Panics(why) == panic' = why

\* The goroutine that reads Events and closes is not inside a call.
Free == SharedClient \/ \A c \in Callers : pc[c] = "idle"

-----------------------------------------------------------------------------
(* AttachClient and the commands around it                                 *)

\* The first event is a Hello of this schema.
HelloOK ==
  /\ main = "dial" /\ events # <<>> /\ Head(events).kind = "hello"
  /\ events' = Tail(events)
  /\ main' = "use"
  /\ UNCHANGED <<callVars, readerVars, daemonVars, consumed, localRan, cancelled,
                 closeAt, panic>>

\* The first event is a Hello of another schema, or Events is closed.
HelloRefused ==
  /\ main = "dial"
  /\ \/ events # <<>> /\ events' = Tail(events)
     \/ events = <<>> /\ EventsClosed /\ UNCHANGED events
  /\ main' = "give up"
  /\ UNCHANGED <<callVars, readerVars, daemonVars, consumed, localRan, cancelled,
                 closeAt, panic>>

\* Fault: the dial waits without a limit.
HelloAwaited == FALSE /\ UNCHANGED vars

\* Three seconds without Hello.
HelloTimeout ==
  /\ main = "dial"
  /\ main' = "give up"
  /\ UNCHANGED <<callVars, readerVars, daemonVars, consumed, localRan, cancelled,
                 events, closeAt, panic>>

\* A failed dial leaves the command its local path (MaybeDialDaemon).
FallBack ==
  /\ main = "give up" /\ EventsClosed
  /\ main' = "local"
  /\ UNCHANGED <<callVars, readerVars, daemonVars, consumed, localRan, cancelled,
                 events, closeAt, panic>>

RunLocally ==
  /\ main = "local"
  /\ localRan' = TRUE
  /\ main' = "done"
  /\ UNCHANGED <<callVars, readerVars, daemonVars, consumed, cancelled, events,
                 closeAt, panic>>

\* The consumer takes an event (streamViaDaemon).
Consume ==
  /\ main = "use" /\ Free /\ events # <<>>
  /\ consumed' = Append(consumed, Head(events).n)
  /\ events' = Tail(events)
  /\ UNCHANGED <<callVars, readerVars, daemonVars, main, localRan, cancelled,
                 closeAt, panic>>

Interrupt ==
  /\ main = "use" /\ ~cancelled
  /\ cancelled' = TRUE
  /\ UNCHANGED <<callVars, readerVars, daemonVars, main, consumed, localRan, events,
                 closeAt, panic>>

\* The deferred Close: the command has its answer, its limit, an interrupt or
\* the end of Events.
Finish ==
  /\ main = "use" /\ Free
  /\ main' = "close"
  /\ UNCHANGED <<callVars, readerVars, daemonVars, consumed, localRan, cancelled,
                 events, closeAt, panic>>

Exit ==
  /\ main = "close" /\ EventsClosed
  /\ main' = "done"
  /\ UNCHANGED <<callVars, readerVars, daemonVars, consumed, localRan, cancelled,
                 events, closeAt, panic>>

-----------------------------------------------------------------------------
(* Close                                                                   *)

Closing == main \in {"close", "give up"} \/ reader = "close"

CloseFlag ==
  /\ Closing /\ closeAt = 0
  /\ closeAt' = 1
  /\ UNCHANGED <<callVars, readerVars, daemonVars, mainVars, events, panic>>

CloseConn ==
  /\ Closing /\ closeAt = 1
  /\ closeAt' = 2
  /\ UNCHANGED <<callVars, readerVars, daemonVars, mainVars, events, panic>>

\* Fault: the calls in flight are forgotten.
ForgetPending ==
  /\ Closing /\ closeAt = 2
  /\ pending' = {}
  /\ closeAt' = 3
  /\ UNCHANGED <<pc, call, nextID, box, shut, got, subs, readerVars, daemonVars,
                 mainVars, events, panic>>

FailPending ==
  /\ Closing /\ closeAt = 2
  /\ shut' = shut \cup pending
  /\ pending' = {}
  /\ closeAt' = 3
  /\ UNCHANGED <<pc, call, nextID, box, got, subs, readerVars, daemonVars, mainVars,
                 events, panic>>

CloseEvents ==
  /\ Closing /\ closeAt = 3
  /\ closeAt' = 4
  /\ UNCHANGED <<callVars, readerVars, daemonVars, mainVars, events, panic>>

-----------------------------------------------------------------------------
(* Call                                                                    *)

\* A new id, its channel, and the entry in pending: an assignment to a nil map
\* after Close. A command subscribes last.
CallRegister(c) ==
  /\ main = "use" \/ (SharedClient /\ main = "close")
  /\ pc[c] = "idle" /\ nextID < MaxCalls /\ subs = {}
  /\ nextID' = nextID + 1
  /\ call' = [call EXCEPT ![c] = nextID + 1]
  /\ IF PendingNil
     THEN Panics("nil map") /\ UNCHANGED <<pending, pc, subs>>
     ELSE /\ pending' = pending \cup {nextID + 1}
          /\ pc' = [pc EXCEPT ![c] = "write"]
          /\ subs' \in {subs, {nextID + 1}}
          /\ UNCHANGED panic
  /\ UNCHANGED <<box, shut, got, readerVars, daemonVars, mainVars, events, closeAt>>

\* writeFrame; a write fails when either end is closed.
CallWrite(c) ==
  /\ pc[c] = "write"
  /\ IF ConnClosed \/ daemon = "gone"
     THEN pc' = [pc EXCEPT ![c] = "cleanup"] /\ UNCHANGED toServer
     ELSE pc' = [pc EXCEPT ![c] = "wait"] /\ toServer' = Append(toServer, call[c])
  /\ UNCHANGED <<call, nextID, pending, box, shut, got, subs, readerVars, mainVars,
                 daemon, toClient, taken, ran, answered, pushed, events, closeAt, panic>>

\* A response, the end of the channel or the end of the context.
CallEnds(c) ==
  /\ pc[c] = "wait"
  /\ \/ /\ box[call[c]] # 0
        /\ got' = [got EXCEPT ![call[c]] = box[call[c]]]
        /\ box' = [box EXCEPT ![call[c]] = 0]
     \/ box[call[c]] = 0 /\ call[c] \in shut /\ UNCHANGED <<got, box>>
     \/ cancelled /\ UNCHANGED <<got, box>>
  /\ pc' = [pc EXCEPT ![c] = "cleanup"]
  /\ UNCHANGED <<call, nextID, pending, shut, subs, readerVars, daemonVars,
                 mainVars, events, closeAt, panic>>

\* Fault: a command whose call failed runs its operation locally.
CallFallsBack(c) ==
  /\ pc[c] = "cleanup"
  /\ pending' = pending \ {call[c]}
  /\ pc' = [pc EXCEPT ![c] = "idle"] /\ call' = [call EXCEPT ![c] = 0]
  /\ localRan' = (got[call[c]] = 0)
  /\ UNCHANGED <<nextID, box, shut, got, subs, readerVars, daemonVars, main, consumed,
                 cancelled, events, closeAt, panic>>

\* The deferred delete. The command reports the result or the error.
CallCleanup(c) ==
  /\ pc[c] = "cleanup"
  /\ pending' = pending \ {call[c]}
  /\ pc' = [pc EXCEPT ![c] = "idle"] /\ call' = [call EXCEPT ![c] = 0]
  /\ UNCHANGED <<nextID, box, shut, got, subs, readerVars, daemonVars, mainVars,
                 events, closeAt, panic>>

-----------------------------------------------------------------------------
(* readLoop                                                                *)

\* The next line: from the socket, or, once the connection is closed, one the
\* scanner had already buffered.
ReadFrame ==
  /\ reader = "scan" /\ toClient # <<>>
  /\ hand' = Head(toClient) /\ toClient' = Tail(toClient)
  /\ reader' = IF Head(toClient).kind = "response" THEN "lookup" ELSE "push"
  /\ UNCHANGED <<callVars, readFailed, daemon, toServer, taken, ran, answered, pushed,
                 mainVars, events, closeAt, panic>>

\* The end of the stream, or of a connection closed on this side.
ReadEnds ==
  /\ reader = "scan"
  /\ ConnClosed \/ (daemon = "gone" /\ toClient = <<>>)
  /\ reader' = "close"
  /\ UNCHANGED <<callVars, hand, readFailed, daemonVars, mainVars, events, closeAt, panic>>

\* A line over the scanner's limit, or one that is not a frame.
ReadFails ==
  /\ reader = "scan" /\ toClient # <<>>
  /\ readFailed' = TRUE
  /\ reader' = "close"
  /\ UNCHANGED <<callVars, hand, daemonVars, mainVars, events, closeAt, panic>>

\* Fault: an event is dropped when Events is full.
PushOrDrop ==
  /\ reader = "push" /\ ~EventsClosed
  /\ events' = IF Len(events) < EventsCap THEN Append(events, hand) ELSE events
  /\ reader' = "scan" /\ hand' = NoFrame
  /\ UNCHANGED <<callVars, readFailed, daemonVars, mainVars, closeAt, panic>>

\* The select on closed and Events: a send on the closed Events may be chosen.
Push ==
  /\ reader = "push"
  /\ \/ Closed /\ reader' = "gone" /\ hand' = NoFrame /\ UNCHANGED <<events, panic>>
     \/ EventsClosed /\ Panics("closed Events") /\ UNCHANGED <<events, reader, hand>>
     \/ /\ ~EventsClosed /\ Len(events) < EventsCap
        /\ events' = Append(events, hand)
        /\ reader' = "scan" /\ hand' = NoFrame
        /\ UNCHANGED panic
  /\ UNCHANGED <<callVars, readFailed, daemonVars, mainVars, closeAt>>

\* Fault: the response goes to whichever call waits.
LookupAny ==
  /\ reader = "lookup"
  /\ \/ \E id \in pending : hand' = Frame("response", id) /\ reader' = "send"
     \/ pending = {} /\ hand' = NoFrame /\ reader' = "scan"
  /\ UNCHANGED <<callVars, readFailed, daemonVars, mainVars, events, closeAt, panic>>

Lookup ==
  /\ reader = "lookup"
  /\ IF hand.n \in pending THEN reader' = "send" /\ UNCHANGED hand
                           ELSE reader' = "scan" /\ hand' = NoFrame
  /\ UNCHANGED <<callVars, readFailed, daemonVars, mainVars, events, closeAt, panic>>

\* The call's channel holds one frame.
Send ==
  /\ reader = "send"
  /\ IF hand.n \in shut
     THEN Panics("closed call") /\ UNCHANGED <<box, reader, hand>>
     ELSE /\ box[hand.n] = 0
          /\ box' = [box EXCEPT ![hand.n] = hand.n]
          /\ reader' = "scan" /\ hand' = NoFrame
          /\ UNCHANGED panic
  /\ UNCHANGED <<pc, call, nextID, pending, shut, got, subs, readFailed, daemonVars,
                 mainVars, events, closeAt>>

ReaderExits ==
  /\ reader = "close" /\ EventsClosed
  /\ reader' = "gone"
  /\ UNCHANGED <<callVars, hand, readFailed, daemonVars, mainVars, events, closeAt, panic>>

-----------------------------------------------------------------------------
(* The daemon's end                                                        *)

clientVars == <<callVars, readerVars, mainVars, events, closeAt, panic>>
Room == Len(toClient) < WireCap

Greet ==
  /\ daemon = "accepted" /\ Room
  /\ daemon' = "serving"
  /\ toClient' = Append(toClient, Frame("hello", 0))
  /\ UNCHANGED <<toServer, taken, ran, answered, pushed, clientVars>>

TakeRequest ==
  /\ daemon = "serving" /\ toServer # <<>>
  /\ taken' = taken \cup {Head(toServer)}
  /\ toServer' = Tail(toServer)
  /\ UNCHANGED <<daemon, toClient, ran, answered, pushed, clientVars>>

\* Handlers run in goroutines of their own and end in any order, some after the
\* connection is gone.
RunRequest(id) ==
  /\ id \in taken \ ran
  /\ ran' = ran \cup {id}
  /\ UNCHANGED <<daemon, toServer, toClient, taken, answered, pushed, clientVars>>

\* Fault: a request is answered again.
AnswerTwice(id) ==
  /\ daemon = "serving" /\ id \in ran /\ Room
  /\ answered' = answered \cup {id}
  /\ toClient' = Append(toClient, Frame("response", id))
  /\ UNCHANGED <<daemon, toServer, taken, ran, pushed, clientVars>>

Answer(id) ==
  /\ daemon = "serving" /\ id \in ran \ answered /\ Room
  /\ answered' = answered \cup {id}
  /\ toClient' = Append(toClient, Frame("response", id))
  /\ UNCHANGED <<daemon, toServer, taken, ran, pushed, clientVars>>

\* streamSubscription, after the answer to subscribe.
PushUpdate ==
  /\ daemon = "serving" /\ subs \cap answered # {} /\ pushed < MaxUpdates /\ Room
  /\ pushed' = pushed + 1
  /\ toClient' = Append(toClient, Frame("update", pushed + 1))
  /\ UNCHANGED <<daemon, toServer, taken, ran, answered, clientVars>>

\* The daemon closes the connection, or dies.
DaemonGone ==
  /\ daemon # "gone"
  /\ daemon' = "gone"
  /\ UNCHANGED <<toServer, toClient, taken, ran, answered, pushed, clientVars>>

-----------------------------------------------------------------------------
Alive == panic = "none" /\ main # "done"

MainStep   == Alive /\ (HelloOK \/ HelloRefused \/ FallBack \/ RunLocally \/ Exit)
Timer      == Alive /\ HelloTimeout
ConsumeStep == Alive /\ Consume
CloseStep  == Alive /\ (CloseFlag \/ CloseConn \/ FailPending \/ CloseEvents)
ReaderStep == Alive /\ (ReadFrame \/ ReadEnds \/ Push \/ Lookup \/ Send \/ ReaderExits)
CallStep(c) == Alive /\ (CallWrite(c) \/ CallEnds(c) \/ CallCleanup(c))
DaemonStep ==
  \/ Greet \/ TakeRequest \/ PushUpdate \/ DaemonGone
  \/ \E id \in Ids : RunRequest(id) \/ Answer(id)

Next ==
  \/ MainStep \/ Timer \/ ConsumeStep \/ CloseStep \/ ReaderStep
  \/ \E c \in Callers : CallStep(c) \/ (Alive /\ CallRegister(c))
  \/ Alive /\ (Interrupt \/ Finish \/ ReadFails)
  \/ DaemonStep

Spec == Init /\ [][Next]_vars

\* Goroutines run and the timer fires. Nothing obliges the daemon to answer,
\* the user to interrupt or the command to finish.
FairSpec ==
  /\ Spec
  /\ WF_vars(MainStep) /\ WF_vars(Timer) /\ WF_vars(ConsumeStep)
  /\ WF_vars(CloseStep) /\ WF_vars(ReaderStep)
  /\ \A c \in Callers : WF_vars(CallStep(c))

-----------------------------------------------------------------------------
(* Properties                                                              *)

\* A call that returns a result returns that of its own request, which the
\* daemon has carried out (Call, readLoop, dispatch).
AnswerIsOwn == \A id \in Ids : got[id] # 0 => got[id] = id /\ id \in ran

\* An operation is not carried out twice: a command that fell back to the local
\* path asked the daemon for nothing (MaybeDialDaemon and the commands).
ExecutedOnce == localRan => nextID = 0

\* Step by step, calls are carried out at most once, by the daemon or by the
\* command, and return and stream what they should (MaybeDialDaemon, Call,
\* readLoop, streamViaDaemon).
Remote == INSTANCE RemoteCalls WITH asked <- nextID, here <- localRan, shown <- consumed
ImplementsRemoteCalls == Remote!Spec

\* The reader never waits to hand over a response: the channel of one slot is
\* empty, because a request is answered once (readLoop, dispatch).
ReaderNeverStuck == reader = "send" => box[hand.n] = 0

Numbered(n) == [i \in 1 .. n |-> i]

\* The updates among the frames s are those after m up to n, in this order.
Updates(s) == {i \in DOMAIN s : s[i].kind = "update"}
InOrder(s, m, n) ==
  /\ {s[i].n : i \in Updates(s)} = m + 1 .. n
  /\ \A i, j \in Updates(s) : i < j => s[i].n < s[j].n

\* The consumer sees the updates in the order of the daemon, without a hole,
\* and, unless a line could not be read or the command closed the connection,
\* every one of them is consumed or on its way: the end of the stream does not
\* overtake what was written before it (readLoop, Close).
EventsInOrder ==
  /\ IsPrefix(consumed, Numbered(pushed))
  /\ (~readFailed /\ main = "use" /\ panic = "none") =>
       InOrder(events \o <<hand>> \o toClient, Len(consumed), pushed)

\* Once the daemon is gone, every call in flight returns (readLoop, Close).
CallsEndWithConnection ==
  \A c \in Callers :
    (pc[c] = "wait" /\ daemon = "gone") ~> (pc[c] # "wait" \/ ~Alive)

\* A dial does not hang on a daemon that says nothing: the command goes on with
\* the daemon or without it (AttachClient, MaybeDialDaemon).
DialSettles == main = "dial" ~> (main \in {"use", "local", "done"} \/ ~Alive)

\* "Any in-flight Call returns 'connection closed'" (daemon/client.go, Close):
\* no call ends the process.
InFlightCallReturns == panic \notin {"nil map", "closed call"}
=============================================================================
