----------------------------- MODULE UpdatesSink -----------------------------
(***************************************************************************)
(* The daemon's tailable record of updates: the dispatcher's events        *)
(* channel, the pump that writes each event to updates.ndjson before       *)
(* publishing it, and the rotation of that file to updates.ndjson.1        *)
(* (internal/daemon/worker.go), across failing system calls, kills at any  *)
(* point and restarts.                                                     *)
(*                                                                         *)
(* A file is a sequence of pieces of size 1: an event's line, as its       *)
(* number, or Garbled. Events are numbered as the handlers receive them.   *)
(*                                                                         *)
(* A definition introduced by "Fault:" is not part of the specification:   *)
(* it is a bug this code could have had in the definition that follows,    *)
(* kept to confirm that a property notices it.                             *)
(***************************************************************************)
EXTENDS Integers, Sequences, SequencesExt

CONSTANTS
  EvBuf,       \* capacity of the events channel
  MaxSize,     \* size at which updates.ndjson is rotated
  MaxEvents,   \* bound: events the handlers receive
  MaxFaults,   \* bound: system calls that fail
  MaxRuns      \* bound: times the daemon is started

ASSUME SinkAssumption ==
  /\ EvBuf \in Nat \ {0} /\ MaxSize \in Nat \ {0}
  /\ MaxEvents \in Nat /\ MaxFaults \in Nat /\ MaxRuns \in Nat

NoFile  == <<-1>>
Garbled == 0

VARIABLES
  arrived, queue,   \* events received by the handlers; the events channel
  pump, hand,       \* the pump's program counter and the event it handles
  cancelled,        \* the worker's context is done
  cur, bak, torn,   \* updates.ndjson, updates.ndjson.1; cur's last line is cut
  written,          \* updatesSink.written
  published,        \* events published, over all runs
  wrote, merged,    \* history: events whose write succeeded, over all runs;
                    \* those of them that continued a cut line
  faults, runs,     \* counters: system calls that failed, runs,
  overruns          \* rotations given up and writes cut

vars == <<arrived, queue, pump, hand, cancelled, cur, bak, torn, written,
          published, wrote, merged, faults, runs, overruns>>

Init ==
  /\ arrived = 0 /\ queue = <<>>
  /\ pump = "down" /\ hand = 0 /\ cancelled = FALSE
  /\ cur = NoFile /\ bak = NoFile /\ torn = FALSE
  /\ written = 0 /\ published = <<>> /\ wrote = <<>> /\ merged = {}
  /\ faults = 0 /\ runs = 0 /\ overruns = 0

disk    == <<cur, bak, torn, written>>
history == <<published, wrote, merged>>

\* The steps of a rotation, in order.
Rotating == {"rot close", "rot remove", "rot rename", "rot open"}
Running  == {"select", "write", "publish"} \cup Rotating

Lines(f) == IF f = NoFile THEN <<>> ELSE f

\* A system call fails.
Fails == faults < MaxFaults /\ faults' = faults + 1

-----------------------------------------------------------------------------
(* The process                                                             *)

\* Fault: the counter starts at zero whatever the file holds.
StartAtZero ==
  /\ pump = "down" /\ runs < MaxRuns
  /\ runs' = runs + 1
  /\ cur' = Lines(cur)
  /\ written' = 0
  /\ queue' = <<>> /\ hand' = 0 /\ cancelled' = FALSE
  /\ pump' = "select"
  /\ UNCHANGED <<arrived, bak, torn, history, faults, overruns>>

\* The daemon is started, by hand or by the service manager: openUpdatesSink
\* appends to what is there and takes up its size.
Start ==
  /\ pump = "down" /\ runs < MaxRuns
  /\ runs' = runs + 1
  /\ cur' = Lines(cur)
  /\ written' = Len(Lines(cur))
  /\ queue' = <<>> /\ hand' = 0 /\ cancelled' = FALSE
  /\ pump' = "select"
  /\ UNCHANGED <<arrived, bak, torn, history, faults, overruns>>

\* SIGTERM, SIGINT or the end of the session.
Cancel ==
  /\ pump \in Running /\ ~cancelled
  /\ cancelled' = TRUE
  /\ UNCHANGED <<arrived, queue, pump, hand, disk, history, faults, runs, overruns>>

\* The process is killed between any two steps.
Kill ==
  /\ pump \in Running
  /\ pump' = "down"
  /\ overruns' = IF pump \in Rotating \ {"rot open"} THEN overruns + 1
                    ELSE overruns
  /\ UNCHANGED <<arrived, queue, hand, cancelled, disk, history, faults, runs>>

\* pumpEvents returned and so does Run.
Exit ==
  /\ pump = "returned"
  /\ pump' = "down"
  /\ UNCHANGED <<arrived, queue, hand, cancelled, disk, history, faults, runs,
                 overruns>>

\* A handler's emit: it blocks while the channel is full, and gives up when
\* the context is done.
Emit ==
  /\ pump \in Running /\ arrived < MaxEvents
  /\ arrived' = arrived + 1
  /\ \/ Len(queue) < EvBuf /\ queue' = Append(queue, arrived + 1)
     \/ cancelled /\ UNCHANGED queue
  /\ UNCHANGED <<pump, hand, cancelled, disk, history, faults, runs, overruns>>

-----------------------------------------------------------------------------
(* The pump                                                                *)

PumpDone ==
  /\ pump = "select" /\ cancelled
  /\ pump' = "returned"
  /\ UNCHANGED <<arrived, queue, hand, cancelled, disk, history, faults, runs,
                 overruns>>

PumpReceive ==
  /\ pump = "select" /\ queue # <<>>
  /\ hand' = Head(queue)
  /\ queue' = Tail(queue)
  /\ pump' = "write"
  /\ UNCHANGED <<arrived, cancelled, disk, history, faults, runs, overruns>>

\* Encode makes one Write. A line that follows a cut line is part of it.
WriteOK ==
  /\ pump = "write"
  /\ cur' = Append(cur, IF torn THEN Garbled ELSE hand)
  /\ merged' = IF torn THEN merged \cup {hand} ELSE merged
  /\ torn' = FALSE
  /\ written' = written + 1
  /\ wrote' = Append(wrote, hand)
  /\ pump' = IF written + 1 >= MaxSize THEN "rot close" ELSE "publish"
  /\ UNCHANGED <<arrived, queue, hand, cancelled, bak, published, faults, runs,
                 overruns>>

\* Fault: the error of a failed write is ignored.
WriteFailsUnseen ==
  /\ pump = "write" /\ Fails
  /\ pump' = "publish"
  /\ UNCHANGED <<arrived, queue, hand, cancelled, disk, history, runs, overruns>>

\* The write fails, perhaps after some bytes (a full disk); the pump returns.
WriteFails ==
  /\ pump = "write" /\ Fails
  /\ \/ UNCHANGED <<cur, torn, overruns>>
     \/ cur' = Append(cur, Garbled) /\ torn' = TRUE /\ overruns' = overruns + 1
  /\ pump' = "returned"
  /\ UNCHANGED <<arrived, queue, hand, cancelled, bak, written, history, runs>>

\* Publish and IncUpdates.
PublishEvent ==
  /\ pump = "publish"
  /\ published' = Append(published, hand)
  /\ pump' = "select" /\ hand' = 0
  /\ UNCHANGED <<arrived, queue, cancelled, disk, wrote, merged, faults, runs, overruns>>

-----------------------------------------------------------------------------
(* rotateLocked                                                            *)

\* The rotation fails: Write returns an error, and the pump returns.
GiveUp ==
  /\ pump' = "returned"
  /\ overruns' = overruns + 1
  /\ UNCHANGED <<arrived, queue, hand, cancelled, bak, torn, history, runs>>

RotClose ==
  /\ pump = "rot close"
  /\ pump' = "rot remove"
  /\ UNCHANGED <<arrived, queue, hand, cancelled, disk, history, faults, runs,
                 overruns>>

RotCloseFails == pump = "rot close" /\ Fails /\ GiveUp /\ UNCHANGED <<cur, written>>

\* A failure of Remove is ignored.
RotRemove ==
  /\ pump = "rot remove"
  /\ \/ bak' = NoFile /\ UNCHANGED faults
     \/ Fails /\ UNCHANGED bak
  /\ pump' = "rot rename"
  /\ UNCHANGED <<arrived, queue, hand, cancelled, cur, torn, written, history,
                 runs, overruns>>

\* Fault: the current file is removed where the backup should be.
RotRenameLoses ==
  /\ pump = "rot rename"
  /\ cur' = NoFile
  /\ pump' = "rot open"
  /\ UNCHANGED <<arrived, queue, hand, cancelled, bak, torn, written, history,
                 faults, runs, overruns>>

RotRename ==
  /\ pump = "rot rename"
  /\ bak' = cur /\ cur' = NoFile
  /\ pump' = "rot open"
  /\ UNCHANGED <<arrived, queue, hand, cancelled, torn, written, history, faults,
                 runs, overruns>>

\* The original is opened again, the counter kept.
RotRenameFails ==
  pump = "rot rename" /\ Fails /\ GiveUp /\ UNCHANGED <<cur, written>>

\* Fault: an event whose write rotated the file is not published.
RotOpenSkips ==
  /\ pump = "rot open"
  /\ cur' = <<>> /\ written' = 0
  /\ pump' = "select"
  /\ UNCHANGED <<arrived, queue, hand, cancelled, bak, torn, history, faults,
                 runs, overruns>>

RotOpen ==
  /\ pump = "rot open"
  /\ cur' = <<>> /\ written' = 0
  /\ pump' = "publish"
  /\ UNCHANGED <<arrived, queue, hand, cancelled, bak, torn, history, faults,
                 runs, overruns>>

RotOpenFails ==
  /\ pump = "rot open" /\ Fails
  /\ pump' = "returned"
  /\ UNCHANGED <<arrived, queue, hand, cancelled, disk, history, runs, overruns>>

-----------------------------------------------------------------------------
PumpStep ==
  \/ PumpDone \/ PumpReceive \/ WriteOK \/ WriteFails \/ PublishEvent
  \/ RotClose \/ RotCloseFails \/ RotRemove \/ RotRename \/ RotRenameFails
  \/ RotOpen \/ RotOpenFails

Next == Start \/ Cancel \/ Kill \/ Exit \/ Emit \/ PumpStep

Spec == Init /\ [][Next]_vars

\* The pump's goroutine runs.
FairSpec == Spec /\ WF_vars(PumpStep)

-----------------------------------------------------------------------------
(* Properties                                                              *)

Numbers == 1 .. MaxEvents

Increasing(s) == \A i, j \in DOMAIN s : i < j => s[i] < s[j]

\* The events of a file: its pieces but for those that are garbled.
EventsAt(f) == {i \in DOMAIN f : f[i] # Garbled}
EventsOf(f) == {f[i] : i \in EventsAt(f)}

Pieces  == Lines(bak) \o Lines(cur)
OnDisk  == EventsOf(Pieces)
Written == ToSet(wrote) \ merged

\* The two files together hold the last events written, in order and without
\* a hole but for those that continued a cut line, and at least as much as one
\* full file, whatever failed or was killed in between (rotateLocked never
\* leaves a moment without them). A cut write spoils one event at most.
Retention ==
  /\ Increasing(wrote)
  /\ \A i, j \in EventsAt(Pieces) : i < j => Pieces[i] < Pieces[j]
  /\ OnDisk \subseteq Written
  /\ \A e \in Written \ OnDisk, f \in OnDisk : e < f
  /\ Len(Pieces) >= MaxSize \/ OnDisk = Written
  /\ Cardinality(merged) <= overruns

\* An event a client is shown was written before.
PublishedWasWritten == ToSet(published) \subseteq ToSet(wrote) /\ Increasing(published)

\* Step by step, the two files are one log that a reader can tail and that is
\* trimmed at its front only, and clients are shown its newest event
\* (Write, rotateLocked, pumpEvents).
Tailed == INSTANCE TailedLog WITH Events <- Numbers, Enough <- MaxSize,
                                  kept <- Pieces, cut <- torn
ImplementsTailedLog == Tailed!Spec

\* The file outgrows its limit only by what a cut write left, or is written after
\* a rotation that did not happen: a restart takes up the size where it was
\* (openUpdatesSink).
SizeBound ==
  pump \in {"down", "select"} => Len(Lines(cur)) <= MaxSize - 1 + overruns

\* The pump stops only because it was told to or the sink failed: what is
\* queued is published, unless the daemon stops.
QueuedIsPublished ==
  \A k \in Numbers :
    (\E i \in 1 .. Len(queue) : queue[i] = k /\ pump \in Running) ~>
      (pump \in {"returned", "down"} \/ \E i \in 1 .. Len(published) : published[i] = k)

\* "Rotation failure should not break the daemon's main loop; the write itself
\* succeeded" (daemon/worker.go, Write).
RotationKeepsLoop ==
  [][(pump \in Rotating) => ~(pump' = "returned")]_vars
=============================================================================
