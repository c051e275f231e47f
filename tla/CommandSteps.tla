---------------------------- MODULE CommandSteps ----------------------------
(***************************************************************************)
(* The vocabulary in which the command modules describe what one command  *)
(* does, layer by layer: a command is a sequence of steps, and every      *)
(* operator below is a sequence of its own, so layers compose with \o     *)
(* the way the Go functions call each other.  CommandRun gives the steps  *)
(* their meaning.                                                         *)
(*                                                                         *)
(* A step is a record: op is its kind, arg the gate, method or request it *)
(* names, alt the error it ends with (or, for a request, what the one     *)
(* server error the code singles out is turned into), and hop the number  *)
(* of following steps it may pass over.                                   *)
(***************************************************************************)
EXTENDS Naturals, Sequences

Step(op, arg, alt, hop) ==
    << [op |-> op, arg |-> arg, alt |-> alt, hop |-> hop] >>

-----------------------------------------------------------------------------
(* The command line: cobra's argument count, the root's gate, the flags.  *)

Args(count) == Step("args", count, "plain", 0)

\* What a command asks of the root before its body: "open" nothing, "arg"
\* the body picks the slot itself, "account" a slot in any state, "authed"
\* a slot that is logged in.
Gate(need) == Step("gate", need, "", 0)

\* The command has a --yes flag: it announces itself as destructive.
YesFlag == Step("yes_flag", "", "", 0)

-----------------------------------------------------------------------------
(* Steps that may end the command.                                        *)

\* A test of the input or of something read; a failed one ends with err.
Check(err) == Step("check", "", err, 0)

\* ui.ConfirmDestructive.
Ask == Step("ask", "", "not_confirmed", 0)

\* The function ends here with err.
Refuse(err) == Step("refuse", "", err, 0)

\* Writing the result; the pipe may be closed.
Render == Check("plain")

\* f.Account: read the slot again.
Load == Step("load", "", "account", 0)

-----------------------------------------------------------------------------
(* Requests.                                                              *)

\* Read something from Telegram; an error ends the command.
Get(rpc) == Step("get", rpc, "", 0)

\* Read something; the server error the code singles out ends with err.
GetElse(rpc, err) == Step("get", rpc, err, 0)

\* Read something and go on without it when that fails.
Peek(rpc) == Step("peek", rpc, "", 0)

\* Change something; an error ends the command.
Put(rpc) == Step("put", rpc, "", 0)

\* Change something; the server error the code singles out ends with err.
PutElse(rpc, err) == Step("put", rpc, err, 0)

\* Change something; the server error the code singles out means that it
\* is so already.
PutOnce(rpc) == Step("put", rpc, "already", 0)

\* Change something; an error is kept for the output and the command goes on.
Try(rpc) == Step("try", rpc, "", 0)

\* Change a local file.
Save(file) == Step("save", file, "plain", 0)

\* Change a local file; an error is ignored.
Keep(file) == Step("save", file, "", 0)

-----------------------------------------------------------------------------
(* Control.                                                               *)

\* A flag that is given or not, a condition on data.
Maybe(steps) == Step("maybe", "", "", Len(steps)) \o steps

Either(steps, other) ==
    Maybe(steps \o Step("skip", "", "", Len(other))) \o other

\* A loop over one or more items: one and many, the latter as two.
Each(steps) == steps \o Maybe(steps)

\* A loop over zero or more items.
EachOf(steps) == Maybe(Each(steps))

\* One of several: a switch on the input.
Switch2(a, b, c) == Either(a, Either(b, c))

-----------------------------------------------------------------------------
(* Where the requests run.                                                *)

\* session.Run and f.WithPeers: requests after it run in this process.
Session == Step("session", "", "", 0)

\* session.Run for its own sake: whether it failed is the answer.
Probe == Step("probe", "", "", 0)

\* Hand the operation to the account's daemon when one answers, and run it
\* here otherwise.
Call(method, steps) ==
    LET here == Session \o steps
    IN  Step("call", method, "", Len(here)) \o here

\* The two closures the commands are built with.
Daemon(method, steps) == Load \o Call(method, steps)
Local(steps) == Load \o Session \o steps

-----------------------------------------------------------------------------
(* A command.  The tests "do == nil" of the action layer are left out: the *)
(* command line always passes the function.  A command that prints with   *)
(* fmt.Fprintf and drops its error cannot fail at its output.             *)

Command(count, need, body) == Args(count) \o Gate(need) \o body
Authed(count, body) == Command(count, "authed", body) \o Render
AuthedQuiet(count, body) == Command(count, "authed", body)
=============================================================================
