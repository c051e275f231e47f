----------------------------- MODULE WatchFilter -----------------------------
(***************************************************************************)
(* Which updates a filtered `tg watch` shows, on its two paths.            *)
(*                                                                         *)
(* An update, as Telegram pushes it, is a record                           *)
(*    [kind, chat, from, ids]                                              *)
(* where chat is the conversation that owns the message, from its author   *)
(* (NoPeer when the update names none: channel posts, incoming private     *)
(* messages) and ids the number of message ids (deletes batch several).    *)
(* Peers are the normalised integers of peerID(): NoPeer is the zero value.*)
(* A filter is [kinds, peers]; an empty set filters nothing.               *)
(*                                                                         *)
(* The definition introduced by "Fault:" is not part of the specification: *)
(* it is a bug this code could have had in the one that follows, kept to   *)
(* confirm that a property notices it.                                     *)
(***************************************************************************)
EXTENDS Integers

NoPeer == 0

\* The zero value of telegram.WatchFilter: everything passes.
ZeroFilter == [kinds |-> {}, peers |-> {}]

Restricts(set, x) == set # {} /\ x \notin set

\* A resolved ref is [self, id]: `me` resolves to InputPeerSelf, which carries
\* no id, whatever the account's own id is.
NormalizeInputPeerID(r) == IF r.self THEN NoPeer ELSE r.id

\* The filter of a query [kinds, refs, limit]; both paths build the same one.
FilterOf(q) ==
  [kinds |-> q.kinds, peers |-> {NormalizeInputPeerID(r) : r \in q.refs}]

-----------------------------------------------------------------------------
\* The WatchEvent the dispatcher handlers build from an update.

\* messageToRow: the row is attributed to the author when there is one, else
\* to the conversation.
RowFromID(u) == IF u.from # NoPeer THEN u.from ELSE u.chat

IsMessage(u) == u.kind \in {"message", "edit"}

\* A channel delete carries its channel; a delete outside channels carries no
\* peer at all (u.chat = NoPeer), so both put u.chat in every row.
EventOf(u) ==
  IF IsMessage(u)
  THEN [kind |-> u.kind, row |-> RowFromID(u), rows |-> {}]
  ELSE [kind |-> u.kind, row |-> NoPeer,
        rows |-> IF u.ids = 0 THEN {} ELSE {u.chat}]

-----------------------------------------------------------------------------
\* Local path: RegisterWatchHandlers is given the filter and applies it to the
\* update, before the row is built.

LocalAccepts(f, u) ==
  /\ ~Restricts(f.kinds, u.kind)
  /\ IF u.kind = "delete" /\ u.chat = NoPeer
     THEN f.peers = {}
     ELSE ~Restricts(f.peers, u.chat)

\* Daemon path: the handlers run unfiltered and SubscriptionManager.Publish
\* applies matches() to the event.

FromIDs(ev) == IF ev.rows # {} THEN ev.rows ELSE {ev.row}

\* Fault: the kinds of the filter are ignored.
MatchesAnyKind(f, ev) == f.peers # {} => FromIDs(ev) \cap f.peers # {}

Matches(f, ev) ==
  /\ ~Restricts(f.kinds, ev.kind)
  /\ f.peers # {} => FromIDs(ev) \cap f.peers # {}

DaemonAccepts(f, u) == Matches(f, EventOf(u))
=============================================================================
