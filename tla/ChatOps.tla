------------------------------- MODULE ChatOps -------------------------------
(***************************************************************************)
(* internal/telegram: the requests behind the chat commands, and the      *)
(* resolver of peer references they all begin with.  A function is the    *)
(* sequence of its requests and of the tests between them; rows, titles   *)
(* and ids are left out.                                                   *)
(***************************************************************************)
EXTENDS CommandSteps

-----------------------------------------------------------------------------
(* Peer references.                                                       *)

ResolveUsername == GetElse("contacts.resolveUsername", "notfound")
ResolveID       == GetElse("peers.resolveTDLibID", "notfound")
ResolvePhone    == GetElse("contacts.resolvePhone", "notfound")

ResolveTMe      == Check("usage") \o Check("unsupported") \o Check("usage")
                   \o ResolveUsername
ResolveDeeplink == Check("unsupported") \o Check("usage") \o ResolveUsername

\* A reference without its access hash is looked for among the dialogs;
\* when it is not there the bare reference is used.
RecoverColdPeer == Each(Peek("messages.getDialogs"))
ResolveDirectPeer == Check("usage")

\* "me" needs no request; an invite link is of no kind the resolver knows.
Resolve ==
    Check("usage")
    \o Maybe(Switch2(ResolveUsername, Either(ResolveID, ResolvePhone),
                     Switch2(ResolveTMe, ResolveDeeplink,
                             ResolveDirectPeer \o Maybe(RecoverColdPeer))))

\* inputChannelFromPeer, inputUserFromPeer: the peer is of another kind.
NeedChannel == Check("unsupported")
NeedUser    == Check("usage")

ResolveChannel == Resolve \o NeedChannel
ResolveUser    == Resolve \o NeedUser

-----------------------------------------------------------------------------
(* Dialogs.                                                               *)

ListChats    == Each(Get("messages.getDialogs"))
ShowChat     == Resolve
ShowChatFull == ResolveChannel \o Get("channels.getFullChannel")
SearchChats  == Get("contacts.search")

MoveChatToFolder == Resolve \o Put("folders.editPeerFolders")
UpdateChatMute   == Resolve \o Put("account.updateNotifySettings")
MuteChat         == UpdateChatMute
UnmuteChat       == UpdateChatMute
PinChat          == Resolve \o Put("messages.toggleDialogPin")
ReadChat         == Resolve \o Either(Put("channels.readHistory"),
                                      Put("messages.readHistory"))

-----------------------------------------------------------------------------
(* Membership.                                                            *)

FillInviteTarget == Peek("messages.checkChatInvite")

\* By invite link, being a member or waiting for approval is success; by
\* reference, being a member is.
JoinChat ==
    Either(Either(PutElse("messages.importChatInvite", "invalid_invite"),
                  PutOnce("messages.importChatInvite")) \o FillInviteTarget,
           ResolveChannel \o PutOnce("channels.joinChannel"))

LeaveChat == ResolveChannel \o PutElse("channels.leaveChannel", "usage")

ListChatMembers ==
    ResolveChannel
    \o Either(Get("messages.getChatInviteImporters"),
              Check("usage") \o Each(Get("channels.getParticipants")))

ListJoinRequests == Resolve \o Get("messages.getChatInviteImporters")

\* A user who cannot be resolved or decided about is a row with an error.
DecideOne == Maybe(Peek("contacts.resolveUsername")
                   \o Maybe(Try("messages.hideChatJoinRequest")))
DecideJoinRequest ==
    Resolve \o Either(Put("messages.hideAllChatJoinRequests"), Each(DecideOne))

-----------------------------------------------------------------------------
(* The chat itself.                                                       *)

\* The chat may exist although the answer carries none.
CreateChat == Put("channels.createChannel") \o Check("plain")

DeleteChat ==
    Resolve \o Switch2(Put("channels.deleteChannel"),
                       Put("messages.deleteHistory"),
                       Refuse("unsupported"))

\* One request per setting, in this order; an error leaves the rest undone.
\* Only the about text and no-forwards can be set without a channel.
Setting(rpc) == Maybe(Put(rpc))
EditChat ==
    LET About      == Setting("messages.editChatAbout")
        NoForwards == Setting("messages.toggleNoForwards")
    IN  Resolve
        \o Either(About \o NoForwards,
                  NeedChannel
                  \o Setting("channels.editTitle") \o About
                  \o Setting("channels.updateUsername")
                  \o Setting("channels.toggleForum")
                  \o Setting("channels.toggleParticipantsHidden")
                  \o Setting("channels.togglePreHistoryHidden")
                  \o Setting("channels.toggleSlowMode")
                  \o Setting("channels.toggleSignatures")
                  \o Maybe(PutElse("channels.toggleJoinRequest", "unsupported"))
                  \o NoForwards)

\* The file is read and sent before the chat is changed.
Upload == Check("plain") \o Each(Get("upload.saveFilePart"))

SetChatPhoto == ResolveChannel \o Maybe(Upload) \o Put("channels.editPhoto")

SetChannelDiscussion ==
    ResolveChannel \o Maybe(ResolveChannel) \o Put("channels.setDiscussionGroup")
ListDiscussionCandidates == Get("channels.getGroupsForDiscussion")

-----------------------------------------------------------------------------
(* Invite links.                                                          *)

CreateInviteLink == Resolve \o Put("messages.exportChatInvite")
ListInviteLinks  == Resolve \o Maybe(ResolveUser)
                    \o Get("messages.getExportedChatInvites")
RevokeInviteLink == Resolve \o Put("messages.editExportedChatInvite")
DeleteInviteLink == Resolve \o Put("messages.deleteExportedChatInvite")

-----------------------------------------------------------------------------
(* Members and rights.                                                    *)

\* Every user is resolved before the one request that adds them.
InviteToChat ==
    ResolveChannel \o Each(ResolveUser) \o Put("channels.inviteToChannel")

SetMemberBanned == ResolveChannel \o Resolve \o Put("channels.editBanned")

\* Without --title the rank is read so that it can be written back; when
\* the reading fails an empty one is written.
CurrentAdminRank == Peek("channels.getParticipant")
SetMemberAdmin ==
    ResolveChannel \o ResolveUser \o Maybe(CurrentAdminRank)
    \o Put("channels.editAdmin")

\* NOT_MODIFIED is success.  The rights are read, changed and written back;
\* when the reading fails they are taken to be empty.
SetMemberPerms ==
    ResolveChannel \o Resolve
    \o Either(PutOnce("channels.editBanned"),
              Peek("channels.getParticipant") \o PutOnce("channels.editBanned"))

SetDefaultPerms ==
    ResolveChannel \o Peek("channels.getFullChannel")
    \o PutOnce("messages.editChatDefaultBannedRights")

-----------------------------------------------------------------------------
(* Forum topics.  mapForumErr: the group has no topics.                   *)

TopicPeer == ResolveChannel

ListForumTopics  == TopicPeer \o GetElse("messages.getForumTopics", "unsupported")
CreateForumTopic == TopicPeer \o PutElse("messages.createForumTopic", "unsupported")
                    \o Check("plain")
EditForumTopic   == TopicPeer \o PutElse("messages.editForumTopic", "unsupported")

\* One batch of messages after another, at most a hundred; here two.
DeleteForumTopic ==
    TopicPeer \o Each(PutElse("messages.deleteTopicHistory", "unsupported"))
    \o Check("plain")

PinForumTopic  == TopicPeer \o PutElse("messages.updatePinnedForumTopic", "unsupported")
GetForumTopicByID == TopicPeer \o GetElse("messages.getForumTopicsByID", "unsupported")
                     \o Check("notfound")
MuteForumTopic == TopicPeer \o PutElse("account.updateNotifySettings", "unsupported")

\* Reading a topic needs the id of its newest message.
ReadForumTopic ==
    GetForumTopicByID \o PutElse("messages.readDiscussion", "unsupported")
=============================================================================
