--------------------------- MODULE DaemonHandlers ---------------------------
(***************************************************************************)
(* daemon/handlers.go: the methods the daemon's worker registers, each    *)
(* the operation the command would have run itself.                       *)
(***************************************************************************)
EXTENDS AccountCommands, TLC

\* A request whose parameters cannot be decoded, then the operation.
Handle(op) == Check("plain") \o op

ReadHandlers ==
    "me.show"      :> ShowMe
 @@ "chat.resolve" :> Handle(ShowChat)
 @@ "chat.full"    :> Handle(ShowChatFull)
 @@ "chat.list"    :> Handle(ListChats)
 @@ "msg.list"     :> Handle(ListMessages)

\* The client sends files itself: they do not travel over the socket.
WriteHandlers ==
    "msg.send"    :> Handle(SendMessage)
 @@ "msg.edit"    :> Handle(EditMessage)
 @@ "msg.forward" :> Handle(ForwardMessages)
 @@ "msg.delete"  :> Handle(DeleteMessages)
 @@ "msg.pin"     :> Handle(PinMessage)
 @@ "msg.react"   :> Handle(ReactMessage)

SearchHandlers ==
    "search.msg"  :> Handle(SearchMessages)
 @@ "search.chat" :> Handle(SearchChats)

ContactHandlers ==
    "contact.list"    :> Handle(ListContacts)
 @@ "contact.add"     :> Handle(AddContact)
 @@ "contact.delete"  :> Handle(DeleteContact)
 @@ "contact.block"   :> Handle(BlockContact)
 @@ "contact.unblock" :> Handle(UnblockContact)
 @@ "contact.report"  :> Handle(ReportPeer)

ProfileHandlers ==
    "profile.set_name"     :> Handle(UpdateProfileName)
 @@ "profile.set_bio"      :> Handle(UpdateProfileBio)
 @@ "profile.set_username" :> Handle(UpdateProfileUsername)
 @@ "profile.set_status"   :> Handle(UpdateProfileStatus)
 @@ "profile.delete_photo" :> DeleteProfilePhoto

ChatHandlers ==
    "chat.join"      :> Handle(JoinChat)
 @@ "chat.leave"     :> Handle(LeaveChat)
 @@ "chat.mark_read" :> Handle(ReadChat)
 @@ "chat.mute"      :> Handle(MuteChat)
 @@ "chat.unmute"    :> Handle(UnmuteChat)
 @@ "chat.folder"    :> Handle(MoveChatToFolder)
 @@ "chat.pin"       :> Handle(PinChat)

LinkHandlers ==
    "msg.link"            :> Handle(ResolveMessageLinkPeer)
 @@ "msg.schedule_list"   :> Handle(ListScheduledMessages)
 @@ "msg.schedule_cancel" :> Handle(CancelScheduledMessages)

RegisteredHandlers ==
    ReadHandlers @@ WriteHandlers @@ SearchHandlers @@ ContactHandlers
    @@ ProfileHandlers @@ ChatHandlers @@ LinkHandlers
=============================================================================
