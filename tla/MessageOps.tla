----------------------------- MODULE MessageOps -----------------------------
(***************************************************************************)
(* internal/telegram: the requests behind the message commands.  Rows,    *)
(* entities and media details are left out; so is the list of recent      *)
(* messages a command keeps for completion, whose errors are ignored.     *)
(***************************************************************************)
EXTENDS ChatOps

-----------------------------------------------------------------------------
(* Reading.                                                               *)

\* History is read in batches of a hundred.
History == Each(Get("messages.getHistory"))

ListMessages == Resolve \o History

GetMessageByID == Get("messages.getHistory") \o Check("notfound")

\* The members of an album are left out when they cannot be read.
FetchAlbumMessages == Either(Peek("channels.getMessages"),
                             Peek("messages.getMessages"))
MessageDetail ==
    Resolve \o GetMessageByID \o Check("notfound") \o Maybe(FetchAlbumMessages)

\* "me", ids and kinds are resolved before the search starts.
SearchMessages ==
    Either(Resolve \o Maybe(Resolve) \o Each(Get("messages.search")),
           Each(Get("messages.searchGlobal")))

ListScheduledMessages == Resolve \o Get("messages.getScheduledHistory")
ResolveMessageLinkPeer == Resolve

\* ErrNoMedia; the directory is made, the file written.
DownloadMessageMedia ==
    Resolve \o GetMessageByID \o Check("unsupported") \o Check("plain")
    \o Each(Get("upload.getFile")) \o Save("media")

-----------------------------------------------------------------------------
(* Sending.                                                               *)

\* The sticker or gif of a message: there is none.
SourceMessage == Resolve \o GetMessageByID \o Check("usage")

\* A reference the server no longer accepts is read again, and the request
\* made once more; when it cannot be read, the first error stays.
Renewed(read) == Maybe(Peek(read) \o Check("rpc"))
RefreshStickerRef == Renewed("messages.getStickerSet")
RefreshGifRef     == Renewed("messages.getSavedGifs")

SendSticker == Either(RefreshStickerRef, SourceMessage) \o Put("messages.sendMedia")
SendGif     == Either(RefreshGifRef, SourceMessage) \o Put("messages.sendMedia")

\* Every file is sent to the server before the message is.
UploadAttachment == Check("usage") \o Upload
SendAttachments ==
    Each(UploadAttachment)
    \o Either(Put("messages.sendMedia"),
              Each(Get("messages.uploadMedia")) \o Put("messages.sendMultiMedia"))

SendText == Put("messages.sendMessage")

SendMessage ==
    Resolve \o Either(Switch2(SendSticker, SendGif, SendText), SendAttachments)

\* What a send without files does, in the daemon or here.
SendWithoutFiles == Resolve \o Switch2(SendSticker, SendGif, SendText)

ForwardMessages == Resolve \o Resolve \o Put("messages.forwardMessages")

-----------------------------------------------------------------------------
(* Changing what was sent.                                                *)

EditMessage    == Resolve \o Put("messages.editMessage")
DeleteMessages ==
    Either(Put("messages.deleteMessages"),
           Resolve \o Either(Put("channels.deleteMessages"),
                             Put("messages.deleteMessages")))
PinMessage     == Resolve \o Put("messages.updatePinnedMessage")
ReactMessage   == Resolve \o Put("messages.sendReaction")
CancelScheduledMessages == Resolve \o Put("messages.deleteScheduledMessages")

-----------------------------------------------------------------------------
(* Polls.                                                                 *)

SendPoll == Resolve \o Put("messages.sendMedia")

FetchPollMedia == GetMessageByID \o Check("notfound") \o Check("usage")

\* A vote is checked against the poll; taking it back is not.
VotePoll ==
    Resolve
    \o Maybe(FetchPollMedia \o Check("usage") \o Check("usage")
             \o Check("unsupported"))
    \o Put("messages.sendVote")

-----------------------------------------------------------------------------
(* Stickers and gifs.                                                     *)

RecentStickers    == Get("messages.getRecentStickers")
FavedStickers     == Get("messages.getFavedStickers")
InstalledStickers == Get("messages.getAllStickers")
AllStickers == RecentStickers \o FavedStickers \o InstalledStickers
               \o EachOf(Get("messages.getStickerSet"))
ListStickers == Either(Either(RecentStickers, FavedStickers),
                       Either(InstalledStickers, AllStickers))
ListGifs == Get("messages.getSavedGifs")

FaveSticker == Either(RefreshStickerRef, SourceMessage) \o Put("messages.faveSticker")

InstallStickerSet ==
    Get("messages.getStickerSet") \o Check("unsupported")
    \o Either(Put("messages.uninstallStickerSet"),
              Put("messages.installStickerSet"))
=============================================================================
