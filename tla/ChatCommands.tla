---------------------------- MODULE ChatCommands ----------------------------
(***************************************************************************)
(* "tg chat" and "tg channel": internal/cli builds each command from its  *)
(* flags, a function of internal/action that checks the input and asks,   *)
(* and the closure that runs the operation in the daemon or here.         *)
(***************************************************************************)
EXTENDS ChatOps

-----------------------------------------------------------------------------
(* internal/action/chat.  do is the closure.                              *)

ParseRef == Check("usage")

Show(do)      == ParseRef \o do
List(do)      == Check("usage") \o do
Members(do)   == Check("usage") \o ParseRef \o do
Join(do)      == ParseRef \o do
Leave(do)     == ParseRef \o Ask \o do
MoveFolder(do) == ParseRef \o do
Mute(do)      == Check("usage") \o ParseRef \o Check("usage") \o do
Unmute(do)    == ParseRef \o do
TogglePin(do) == ParseRef \o do
ReadHistory(do) == ParseRef \o do

CreateAction(do) == Check("usage") \o do
DeleteAction(do) == ParseRef \o Ask \o do
EditAction(do)   == Check("usage") \o ParseRef \o do
PhotoSet(do)     == ParseRef \o Check("usage") \o do
PhotoClear(do)   == ParseRef \o do

LinkDiscussion(do)   == ParseRef \o ParseRef \o do
UnlinkDiscussion(do) == ParseRef \o do
DiscussionCandidates(do) == do

\* parseExpire: the invite link's or the restriction's end is in the future.
ParseExpire == Check("usage")
InviteLinkCreate(do) == ParseRef \o Check("usage") \o ParseExpire \o do
InviteLinkList(do)   == ParseRef \o Maybe(ParseRef) \o do
InviteLinkOp(do)     == ParseRef \o Check("usage") \o do

JoinList(do)   == ParseRef \o do
DecideJoin(do) == ParseRef \o Check("usage") \o EachOf(ParseRef) \o do

Invite(do)  == Check("usage") \o ParseRef \o Each(ParseRef) \o do
Ban(do)     == ParseRef \o ParseRef \o Ask \o do
Unban(do)   == ParseRef \o ParseRef \o do
Promote(do) == ParseRef \o ParseRef \o Check("usage") \o do

SetPerms(do)   == ParseRef \o ParseRef \o Check("usage") \o ParseExpire
                  \o Check("usage") \o do
UnsetPerms(do) == ParseRef \o ParseRef \o do
Perms(do)      == ParseRef \o Check("usage") \o do

Topics(do)      == ParseRef \o do
CreateTopic(do) == Check("usage") \o ParseRef \o do
EditTopic(do)   == Check("usage") \o ParseRef \o do
DeleteTopic(do) == Check("usage") \o ParseRef \o Ask \o do
PinTopic(do)    == Check("usage") \o ParseRef \o do
InfoTopic(do)   == Check("usage") \o ParseRef \o do
MuteTopic(do)   == Check("usage") \o ParseRef \o Maybe(Check("usage")) \o do
ReadTopic(do)   == Check("usage") \o ParseRef \o do

-----------------------------------------------------------------------------
(* internal/cli/chat: what the daemon can run.                            *)

ChatInfo == Authed("1", Show(Load
                \o Either(Call("chat.full", ShowChatFull),
                          Call("chat.resolve", ShowChat))))
ChatJoin    == Authed("1", Join(Daemon("chat.join", JoinChat)))
ChatLeave   == Authed("1", YesFlag \o Leave(Daemon("chat.leave", LeaveChat)))
ChatArchive   == Authed("1", MoveFolder(Daemon("chat.folder", MoveChatToFolder)))
ChatUnarchive == Authed("1", MoveFolder(Daemon("chat.folder", MoveChatToFolder)))
ChatMute    == Authed("1", Mute(Daemon("chat.mute", MuteChat)))
ChatUnmute  == Authed("1", Unmute(Daemon("chat.unmute", UnmuteChat)))
ChatPin     == Authed("1", TogglePin(Daemon("chat.pin", PinChat)))
ChatRead    == AuthedQuiet("1", ReadHistory(Daemon("chat.mark_read", ReadChat)))

-----------------------------------------------------------------------------
(* What always runs here.                                                 *)

ChatList   == Authed("0", List(Local(ListChats)))
ChatCreate == Authed("1", CreateAction(Local(CreateChat)))
ChatDelete == Authed("1", YesFlag \o DeleteAction(Local(DeleteChat)))
\* --public and --private, and the two flags of each toggle, exclude each other.
TriBool  == Check("usage")
ChatEdit == Authed("1", Check("usage") \o TriBool \o EditAction(Local(EditChat)))
ChatPhotoSet   == Authed("2", PhotoSet(Local(SetChatPhoto)))
ChatPhotoClear == Authed("1", PhotoClear(Local(SetChatPhoto)))

ChatMemberList == Authed("1", Members(Local(ListChatMembers)))
ChatInvite  == Authed("2..", Invite(Local(InviteToChat)))
ChatBan     == Authed("2", YesFlag \o Ban(Local(SetMemberBanned)))
ChatUnban   == Authed("2", Unban(Local(SetMemberBanned)))
ChatAdmin   == Authed("2", Promote(Local(SetMemberAdmin)))
ChatSetPerms   == Authed("2", SetPerms(Local(SetMemberPerms)))
ChatUnsetPerms == Authed("2", UnsetPerms(Local(SetMemberPerms)))
ChatPerms   == Authed("1", Perms(Local(SetDefaultPerms)))

ChatInviteCreate == Authed("1", InviteLinkCreate(Local(CreateInviteLink)))
ChatInviteList   == Authed("1", InviteLinkList(Local(ListInviteLinks)))
ChatInviteManage == Authed("2", InviteLinkOp(Local(
                        Either(DeleteInviteLink, RevokeInviteLink))))
ChatJoinList   == Authed("1", JoinList(Local(ListJoinRequests)))
ChatJoinDecide == Authed("1..", DecideJoin(Local(DecideJoinRequest)))

\* The topic id is parsed before the action sees it.
TopicID == Check("usage")
ChatTopicList   == Authed("1", Topics(Local(ListForumTopics)))
ChatTopicCreate == Authed("2", CreateTopic(Local(CreateForumTopic)))
ChatTopicEdit   == Authed("2", TopicID \o Check("usage")
                               \o EditTopic(Local(EditForumTopic)))
ChatTopicDelete == Authed("2", YesFlag \o TopicID
                               \o DeleteTopic(Local(DeleteForumTopic)))
ChatTopicInfo   == Authed("2", TopicID \o InfoTopic(Local(GetForumTopicByID)))
ChatTopicPin    == Authed("2", TopicID \o PinTopic(Local(PinForumTopic)))
ChatTopicMute   == Authed("2", TopicID \o MuteTopic(Local(MuteForumTopic)))
ChatTopicRead   == Authed("2", TopicID \o ReadTopic(Local(ReadForumTopic)))

ChannelDiscussionLink   == Authed("2", LinkDiscussion(Local(SetChannelDiscussion)))
ChannelDiscussionUnlink == Authed("1", UnlinkDiscussion(Local(SetChannelDiscussion)))
ChannelDiscussionCandidates ==
    Authed("0", DiscussionCandidates(Local(ListDiscussionCandidates)))

-----------------------------------------------------------------------------
\* The command tree below "tg chat" and "tg channel".
ChatScripts ==
    [chat_info |-> ChatInfo, chat_join |-> ChatJoin, chat_leave |-> ChatLeave,
     chat_archive |-> ChatArchive, chat_unarchive |-> ChatUnarchive,
     chat_mute |-> ChatMute, chat_unmute |-> ChatUnmute, chat_pin |-> ChatPin,
     chat_read |-> ChatRead, chat_list |-> ChatList,
     chat_create |-> ChatCreate, chat_delete |-> ChatDelete,
     chat_edit |-> ChatEdit, chat_photo_set |-> ChatPhotoSet,
     chat_photo_clear |-> ChatPhotoClear, chat_member_list |-> ChatMemberList,
     chat_invite |-> ChatInvite, chat_ban |-> ChatBan, chat_unban |-> ChatUnban,
     chat_admin |-> ChatAdmin, chat_setperms |-> ChatSetPerms,
     chat_unsetperms |-> ChatUnsetPerms, chat_perms |-> ChatPerms,
     chat_invite_create |-> ChatInviteCreate,
     chat_invite_list |-> ChatInviteList,
     chat_invite_manage |-> ChatInviteManage,
     chat_join_list |-> ChatJoinList, chat_join_decide |-> ChatJoinDecide,
     topic_list |-> ChatTopicList, topic_create |-> ChatTopicCreate,
     topic_edit |-> ChatTopicEdit, topic_delete |-> ChatTopicDelete,
     topic_info |-> ChatTopicInfo, topic_pin |-> ChatTopicPin,
     topic_mute |-> ChatTopicMute, topic_read |-> ChatTopicRead,
     discussion_link |-> ChannelDiscussionLink,
     discussion_unlink |-> ChannelDiscussionUnlink,
     discussion_candidates |-> ChannelDiscussionCandidates]
=============================================================================
