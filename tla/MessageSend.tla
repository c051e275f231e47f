----------------------------- MODULE MessageSend -----------------------------
(***************************************************************************)
(* One message, or one album or forward, that a script sends with          *)
(* `tg msg send --random-id` and sends again until the command succeeds.   *)
(* Code: SendMessage, ForwardMessages and randomIDReader in                *)
(* internal/telegram/message_ops.go, sendGif, the refresh of a file        *)
(* reference, the flood middleware, and newSend in internal/cli/msg/send.  *)
(*                                                                         *)
(* A random_id is a pair of a key and a position in the stream of ids the  *)
(* key seeds; the server stores a message unless it has the id already.    *)
(*                                                                         *)
(* A definition introduced by "Fault:" is not part of the specification:   *)
(* it is a bug this code could have had in the definition that follows,    *)
(* kept to confirm that a property notices it.                             *)
(***************************************************************************)
EXTENDS Integers, FiniteSets

CONSTANTS
  MaxRuns,    \* bound: runs of the command
  MaxFloods,  \* bound: FLOOD_WAIT answers
  MaxWait,    \* bound: seconds a FLOOD_WAIT asks for
  MaxLosses   \* bound: requests or answers lost

ASSUME SendAssumption == {MaxRuns, MaxFloods, MaxWait, MaxLosses} \subseteq Nat

VARIABLES
  send,    \* what is sent: its kind, whether it has a key
  limits,  \* the flood policy of each path; the daemon relays handles or not
  ref,     \* the file reference in the user's handle: "fresh", "expired"
  pc,      \* where the run is
  path,    \* who sends: "local", "daemon"
  drawn,   \* ids read from the reader of this run
  request, \* the request in flight: the id of each item
  media,   \* the reference in the request
  answer,  \* the server's answer
  stored,  \* the messages in the chat: their items and ids
  ran,     \* what this run stored
  result,  \* how the last run ended
  count,   \* counters of runs, floods and losses
  renewed  \* history: a reference was refreshed

vars == <<send, limits, ref, pc, path, drawn, request, media, answer, stored, ran,
          result, count, renewed>>
setting == <<send, limits>>
chat == <<stored, ran>>

\* A handle from `msg sticker list` or `msg gif`; quoted is a sticker or
\* gif taken from a message; a file comes from the disk.
Kinds == {"text", "file", "album", "quoted", "handle", "forward"}
Items == 1 .. IF send.kind \in {"album", "forward"} THEN 2 ELSE 1
Uploads == send.kind \in {"file", "album"}

\* flood_wait.mode and flood_wait.max_seconds, 0 for no limit.
Policies == {[wait |-> FALSE, cap |-> 0], [wait |-> TRUE, cap |-> 0], [wait |-> TRUE, cap |-> 1]}

Told(what) == [what |-> what, sec |-> 0]

Init ==
  /\ send \in [kind : Kinds, key : BOOLEAN]
  /\ limits \in [local : Policies, daemon : Policies, relays : BOOLEAN]
  /\ ref \in {"fresh", "expired"}
  /\ pc = "idle" /\ path = "local" /\ result = "none"
  /\ drawn = 0 /\ request = {} /\ media = "fresh" /\ answer = Told("none")
  /\ stored = {} /\ ran = {}
  /\ count = [runs |-> 0, floods |-> 0, losses |-> 0]
  /\ renewed = FALSE

End(how) == pc' = "idle" /\ result' = how

\* The command starts, or the script repeats it after a failure.
Run ==
  /\ pc = "idle" /\ result # "ok" /\ count.runs < MaxRuns
  /\ count' = [count EXCEPT !.runs = @ + 1]
  /\ pc' = "route" /\ result' = "none"
  /\ drawn' = 0 /\ ran' = {}
  /\ UNCHANGED <<setting, ref, path, request, media, answer, stored, renewed>>

\* Files never go through the socket, forwards have the same choice in
\* their own command.
Route ==
  /\ pc = "route"
  /\ \/ path' = "local" /\ pc' = "prepare" /\ UNCHANGED result
     \/ /\ ~Uploads /\ (send.kind \in {"quoted", "handle"} => limits.relays)
        /\ path' = "daemon" /\ pc' = "prepare" /\ UNCHANGED result
     \/ /\ send.kind \in {"quoted", "handle"} /\ ~limits.relays
        /\ End("busy") /\ UNCHANGED path
  /\ UNCHANGED <<setting, ref, drawn, request, media, answer, chat, count, renewed>>

\* What comes before the send: resolving, uploading, fetching the source.
Prepare ==
  /\ pc = "prepare"
  /\ \/ pc' = "draw" /\ UNCHANGED result
     \/ End("refused")
  /\ media' = IF send.kind = "handle" THEN ref ELSE "fresh"
  /\ UNCHANGED <<setting, ref, path, drawn, request, answer, chat, count, renewed>>

Key == 0

\* Fault: the reader is not made anew, so a run goes on where another ended.
IdFromRun(i) == <<IF send.key THEN Key ELSE count.runs, count.runs + drawn + i>>

\* The library reads an id for each item from the reader of the sender;
\* without a key they are random.
Id(i) == <<IF send.key THEN Key ELSE count.runs, drawn + i>>

Draw ==
  /\ pc = "draw"
  /\ request' = {<<i, Id(i)>> : i \in Items}
  /\ drawn' = drawn + Cardinality(Items)
  /\ pc' = "sent"
  /\ UNCHANGED <<setting, ref, path, media, answer, chat, result, count, renewed>>

-----------------------------------------------------------------------------
(* The server, and the way to it.                                          *)

New == {m \in request : \A s \in stored : s[2] # m[2]}

Accept ==
  /\ pc = "sent" /\ media = "fresh"
  /\ stored' = stored \cup New /\ ran' = ran \cup New
  /\ answer' = Told("stored") /\ pc' = "answered"
  /\ UNCHANGED <<setting, ref, path, drawn, request, media, result, count, renewed>>

Refuse ==
  /\ pc = "sent" /\ pc' = "answered"
  /\ \/ answer' = Told("refused") /\ UNCHANGED count
     \/ media = "expired" /\ answer' = Told("expired") /\ UNCHANGED count
     \/ /\ count.floods < MaxFloods
        /\ count' = [count EXCEPT !.floods = @ + 1]
        /\ \E sec \in 1 .. MaxWait : answer' = [Told("flood") EXCEPT !.sec = sec]
  /\ UNCHANGED <<setting, ref, path, drawn, request, media, chat, result, renewed>>

\* The connection, or the daemon, goes before the request or the answer
\* got through: the command cannot tell which.
Lose ==
  /\ pc \in {"sent", "answered"} /\ count.losses < MaxLosses
  /\ count' = [count EXCEPT !.losses = @ + 1]
  /\ End("unknown")
  /\ UNCHANGED <<setting, ref, path, drawn, request, media, answer, chat, renewed>>

\* Telegram lets the reference in the user's handle expire.
Expire ==
  /\ ref = "fresh" /\ ref' = "expired"
  /\ media' = IF send.kind = "handle" THEN "expired" ELSE media
  /\ UNCHANGED <<setting, pc, path, drawn, request, answer, chat, result, count, renewed>>

-----------------------------------------------------------------------------
(* The answer.                                                             *)

Sent ==
  /\ pc = "answered" /\ answer.what = "stored"
  /\ End("ok")
  /\ UNCHANGED <<setting, ref, path, drawn, request, media, answer, chat, count, renewed>>

Refused ==
  /\ pc = "answered" /\ answer.what = "refused"
  /\ End("refused")
  /\ UNCHANGED <<setting, ref, path, drawn, request, media, answer, chat, count, renewed>>

IsFlood == answer.what = "flood"
Policy == limits[path]
TooLong == ~Policy.wait \/ (Policy.cap > 0 /\ answer.sec > Policy.cap)

\* Fault: what cannot be waited for is reported as done.
FloodDone ==
  /\ pc = "answered" /\ IsFlood /\ TooLong
  /\ End("ok")
  /\ UNCHANGED <<setting, ref, path, drawn, request, media, answer, chat, count, renewed>>

FloodFails ==
  /\ pc = "answered" /\ IsFlood /\ TooLong
  /\ End("flood")
  /\ UNCHANGED <<setting, ref, path, drawn, request, media, answer, chat, count, renewed>>

\* The middleware sleeps and repeats the encoded call, ids and all.
FloodWaits ==
  /\ pc = "answered" /\ IsFlood /\ ~TooLong
  /\ \/ pc' = "sent" /\ UNCHANGED result
     \/ End("cancelled")
  /\ UNCHANGED <<setting, ref, path, drawn, request, media, answer, chat, count, renewed>>

\* Fault: the first call's error is returned after the second succeeded.
RefreshForgets ==
  /\ pc = "answered" /\ answer.what = "expired"
  /\ stored' = stored \cup New /\ ran' = ran \cup New
  /\ End("refused")
  /\ UNCHANGED <<setting, ref, path, drawn, request, media, answer, count, renewed>>

\* refreshStickerRef and refreshGifRef: once, then the builder sends again
\* and reads the next id of the same reader.
Refresh ==
  /\ pc = "answered" /\ answer.what = "expired"
  /\ \/ /\ drawn = Cardinality(Items)
        /\ media' = "fresh" /\ pc' = "draw" /\ renewed' = TRUE
        /\ UNCHANGED result
     \/ End("refused") /\ UNCHANGED <<media, renewed>>
  /\ UNCHANGED <<setting, ref, path, drawn, request, answer, chat, count>>

Next ==
  \/ Run \/ Route \/ Prepare \/ Draw
  \/ Accept \/ Refuse \/ Lose \/ Expire
  \/ Sent \/ Refused \/ FloodFails \/ FloodWaits \/ Refresh

Spec == Init /\ [][Next]_vars

-----------------------------------------------------------------------------
Copies(i) == Cardinality({m \in stored : m[1] = i})

\* However often the script repeats the command, every item is in the chat
\* at most once: the ids of a run are those of the run before.  A refreshed
\* reference is the exception (WireIdIsKey).
OncePerKey == (send.key /\ ~renewed) => \A i \in Items : Copies(i) <= 1

\* A command that succeeds has stored everything, by itself or before.
SuccessIsStored == result = "ok" => \A i \in Items : \E m \in stored : m[1] = i

\* A command that was told no has stored nothing, and what the chat has is
\* what runs that ended in the unknown put there.
RefusalStoresNothing == result \in {"refused", "flood", "busy", "cancelled"} => ran = {}

\* message_ops.go:34: a single message goes out under the key itself.
WireIdIsKey ==
  (send.key /\ Cardinality(Items) = 1) => \A m \in stored : m[2] = <<Key, 1>>
=============================================================================
