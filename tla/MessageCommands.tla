--------------------------- MODULE MessageCommands ---------------------------
(***************************************************************************)
(* "tg msg" and "tg reply": the commands of internal/cli, the functions   *)
(* of internal/action/message and the closures they pass to them.         *)
(***************************************************************************)
EXTENDS MessageOps

-----------------------------------------------------------------------------
(* internal/action/message: do is the closure.                            *)

ParseMessageRef  == Check("usage")
\* All of them name messages of one peer.
ParseMessageRefs == Check("usage") \o Each(ParseMessageRef) \o Check("usage")
ParseTarget      == Check("usage")

\* The text "-" is read from stdin, which may fail; the files must be there.
ResolveText == Check("usage") \o Check("plain")
NormalizeAttachments == Each(Check("usage"))
NormalizeSticker == Check("usage") \o ParseTarget \o ParseMessageRef
NormalizeGif     == Check("usage") \o ParseTarget \o ParseMessageRef
NormalizeText ==
    Check("usage") \o ResolveText \o Check("usage")
    \o Maybe(NormalizeAttachments) \o ParseTarget
NormalizeSend ==
    Check("usage") \o Switch2(NormalizeSticker, NormalizeGif, NormalizeText)

SendAction(do)     == NormalizeSend \o do
DownloadAction(do) == ParseMessageRef \o do
EditMessageAction(do) == Check("usage") \o ParseMessageRef \o do
ForwardAction(do)  == Check("usage") \o ParseMessageRefs \o ParseTarget \o do

DeleteMessagesAction(do) == ParseMessageRefs \o Ask \o do
PinAction(do)      == ParseMessageRef \o do
ReactAction(do)    == Check("usage") \o ParseMessageRef \o do
CancelScheduled(do) == Check("usage") \o ParseTarget \o Ask \o do
ScheduledList(do)  == ParseTarget \o do
\* ErrNoLink: only messages of channels have one.
Link(do)           == ParseMessageRef \o do \o Check("unsupported")
ListAction(do)     == Check("usage") \o ParseTarget \o do

MessageInfo(do) == ParseMessageRef \o do
Vote(do)        == ParseMessageRef \o Check("usage") \o do
Poll(do)        == ParseTarget \o Check("usage") \o do

FaveAction(do)    == ParseMessageRef \o do
StickerList(do)   == Check("usage") \o do
StickerSet(do)    == Check("usage") \o do
GifList(do)       == do

-----------------------------------------------------------------------------
(* The closures.                                                          *)

\* Files never go through the daemon.  A daemon that cannot relay stickers
\* and gifs is not used, and the command is refused.
NewSend ==
    Load \o Either(Session \o Resolve \o SendAttachments,
                   Either(Call("msg.send", SendWithoutFiles), Refuse("busy")))

\* A reply has neither stickers nor gifs.
NewReply ==
    Load \o Either(Session \o Resolve \o SendAttachments,
                   Call("msg.send", Resolve \o SendText))

-----------------------------------------------------------------------------
(* internal/cli/msg.                                                      *)

ParseSchedule == Check("usage")
MsgSend    == Authed("1..", ParseSchedule \o SendAction(NewSend))
Reply      == Authed("1..", ParseMessageRef \o SendAction(NewReply))
MsgEdit    == Authed("1", EditMessageAction(Daemon("msg.edit", EditMessage)))
MsgForward == Authed("1..", ForwardAction(Daemon("msg.forward", ForwardMessages)))
MsgDelete  == AuthedQuiet("1..", YesFlag
                  \o DeleteMessagesAction(Daemon("msg.delete", DeleteMessages)))
MsgPin     == Authed("1", PinAction(Daemon("msg.pin", PinMessage)))
MsgUnpin   == MsgPin
MsgReact   == Authed("1", ReactAction(Daemon("msg.react", ReactMessage)))
MsgList    == Authed("1", ListAction(Daemon("msg.list", ListMessages)))
MsgLink    == Authed("1", Link(Daemon("msg.link", ResolveMessageLinkPeer)))
MsgScheduleList == Authed("1", ScheduledList(
                       Daemon("msg.schedule_list", ListScheduledMessages)))
MsgScheduleCancel ==
    AuthedQuiet("2..", YesFlag \o Check("usage") \o CancelScheduled(
                      Daemon("msg.schedule_cancel", CancelScheduledMessages)))

MsgDownload == Authed("1", DownloadAction(Local(DownloadMessageMedia)))
MsgInfo     == Authed("1", MessageInfo(Local(MessageDetail)))
MsgPoll     == Authed("4..", Poll(Local(SendPoll)))
ParseOptionNumbers == Check("usage")
MsgVote     == Authed("1..", ParseOptionNumbers \o Vote(Local(VotePoll)))
MsgStickerSet  == Authed("1", StickerSet(Local(InstallStickerSet)))
MsgStickerFave == Authed("1", FaveAction(Local(FaveSticker)))
StickerSource  == Check("usage")
MsgStickerList == Authed("0", StickerSource \o StickerList(Local(ListStickers)))
MsgGifList     == Authed("0", GifList(Local(ListGifs)))

-----------------------------------------------------------------------------
\* The command tree below "tg msg", with "tg reply".
MessageScripts ==
    [msg_send |-> MsgSend, reply |-> Reply, msg_edit |-> MsgEdit,
     msg_forward |-> MsgForward, msg_delete |-> MsgDelete, msg_pin |-> MsgPin,
     msg_unpin |-> MsgUnpin, msg_react |-> MsgReact, msg_list |-> MsgList,
     msg_link |-> MsgLink, msg_schedule_list |-> MsgScheduleList,
     msg_schedule_cancel |-> MsgScheduleCancel, msg_download |-> MsgDownload,
     msg_info |-> MsgInfo, msg_poll |-> MsgPoll, msg_vote |-> MsgVote,
     sticker_set |-> MsgStickerSet, sticker_fave |-> MsgStickerFave,
     sticker_list |-> MsgStickerList, gif_list |-> MsgGifList]
=============================================================================
