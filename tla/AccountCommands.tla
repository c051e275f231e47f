--------------------------- MODULE AccountCommands ---------------------------
(***************************************************************************)
(* The commands about the account itself, its configuration and its       *)
(* daemon: "tg contact", "profile", "password", "session", "me", "inbox", *)
(* "digest", "search", "config", "daemon", "auth list", "auth status".    *)
(***************************************************************************)
EXTENDS AccountOps, ChatCommands, MessageCommands

-----------------------------------------------------------------------------
(* Contacts: internal/action/contact, internal/cli/contact.               *)

NormalizePeer == Check("usage")
Add(do)    == Check("usage") \o do
Block(do)  == NormalizePeer \o Ask \o do
Delete(do) == NormalizePeer \o Ask \o do
Unblock(do) == NormalizePeer \o do
Report(do) == NormalizePeer \o Check("usage") \o Ask \o do

ContactAdd     == Authed("1", Add(Daemon("contact.add", AddContact)))
ContactList    == Authed("0", Daemon("contact.list", ListContacts))
ContactBlock   == AuthedQuiet("1", YesFlag \o Block(Daemon("contact.block", BlockContact)))
ContactDelete  == AuthedQuiet("1", YesFlag \o Delete(Daemon("contact.delete", DeleteContact)))
ContactReport  == AuthedQuiet("1", YesFlag \o Report(Daemon("contact.report", ReportPeer)))
ContactUnblock == AuthedQuiet("1", Unblock(Daemon("contact.unblock", UnblockContact)))

-----------------------------------------------------------------------------
(* Profile: internal/action/profile, internal/cli/profile.                *)

SetBio(do)    == Check("plain") \o do       \* "-": the text is read from stdin
SetStatus(do) == Check("usage") \o do
SetPhoto(do)  == Check("usage") \o do
DeletePhoto(do) == Ask \o do

ProfileSetName == Authed("1..", Daemon("profile.set_name", UpdateProfileName))
ProfileSetBio  == Authed("1", SetBio(Daemon("profile.set_bio", UpdateProfileBio)))
ProfileSetUsername ==
    Authed("1", Daemon("profile.set_username", UpdateProfileUsername))
ProfileSetStatus ==
    Authed("1", SetStatus(Daemon("profile.set_status", UpdateProfileStatus)))
ProfileSetPhoto == Authed("1", SetPhoto(Local(UploadProfilePhoto)))
ProfileDeletePhoto ==
    AuthedQuiet("0", YesFlag
        \o DeletePhoto(Daemon("profile.delete_photo", DeleteProfilePhoto)))

-----------------------------------------------------------------------------
(* Password: internal/action/password, internal/cli/password.  The        *)
(* session that looks whether there is a password ends before the secrets *)
(* are read; the change is made in another.                               *)

ReadSecret == Check("precondition") \o Check("plain")
ReadCurrentPassword == ReadSecret
ReadNewPassword     == ReadSecret \o Check("usage")

Set(check, apply) ==
    check \o Either(ReadCurrentPassword, Check("usage")) \o ReadNewPassword \o apply
Disable(check, apply) ==
    check \o Check("precondition") \o ReadCurrentPassword \o Ask \o apply

PasswordSet == Authed("0", Set(Local(PasswordEnabled), Local(SetPassword)))
PasswordDisable ==
    Authed("0", YesFlag \o Disable(Local(PasswordEnabled), Local(DisablePassword)))

-----------------------------------------------------------------------------
(* Sessions: internal/action/session, internal/cli/session.  The question *)
(* is asked while the connection is open.                                 *)

ValidateRevoke == Check("usage")
RevokeSingle   == Check("usage") \o Check("usage") \o Check("current") \o Ask
                  \o ResetAuthorization
RevokeAllOthers == Check("no_results") \o Ask \o ResetAllAuthorizations
Revoke == ValidateRevoke \o FetchAuthorizations
          \o Either(RevokeAllOthers, RevokeSingle)

SessionList   == Authed("0", Local(FetchAuthorizations))
SessionRevoke == Authed("..1", YesFlag \o ValidateRevoke \o Local(Revoke))

-----------------------------------------------------------------------------
(* What is only read: internal/cli/me, inbox, digest and search.          *)

SearchChat(do)    == Check("usage") \o do
SearchMessage(do) == Check("usage") \o Maybe(Check("usage")) \o do

MeShow    == Authed("0", Daemon("me.show", ShowMe))
Inbox     == Authed("0", List(Daemon("chat.list", ListChats)))
Digest    == Authed("1", ListAction(Local(ListMessages)))
SearchChatCmd == Authed("1..", SearchChat(Daemon("search.chat", SearchChats)))
SearchMsgCmd  == Authed("1..", SearchMessage(Daemon("search.msg", SearchMessages)))

-----------------------------------------------------------------------------
(* The slots: internal/action/auth, internal/cli/auth.  One slot without  *)
(* a readable account.json fails the whole list.                          *)

AuthSlots  == Check("plain") \o Check("plain") \o EachOf(Check("plain"))
AuthHealth == Load \o Check("plain") \o Maybe(Probe)

AuthList   == Command("0", "open", AuthSlots \o Render)
AuthStatus == Command("..1", "arg", AuthHealth \o Render)

-----------------------------------------------------------------------------
(* The configuration file: internal/action/config, internal/cli/config.   *)
(* Only the shared api_hash is asked about.                               *)

GetKey   == Check("usage") \o Check("plain") \o Maybe(Check("precondition"))
SetKey   == Check("usage") \o Maybe(Check("usage") \o Ask)
            \o Check("plain") \o Save("config")
UnsetKey == Check("usage") \o Maybe(Ask)
            \o Check("plain") \o Check("no_results") \o Save("config")
ShowConfig == Maybe(Check("precondition"))

\* The editor's copy is read again until it is valid or the user gives up.
PromptReopen == Check("not_confirmed")
EditConfig ==
    Check("precondition") \o Check("plain")
    \o Check("usage") \o Maybe(PromptReopen \o Check("usage"))
    \o Check("plain") \o Save("config")

ConfigGet   == Command("1", "open", GetKey \o Render)
ConfigSet   == Command("2", "open", SetKey \o Render)
ConfigUnset == Command("1", "open", UnsetKey \o Render)
ConfigShow  == Command("0", "open", Check("plain") \o Maybe(ShowConfig \o Render))
ConfigPath  == Command("0", "open", Render)
ConfigEdit  == Command("0", "open", EditConfig)

-----------------------------------------------------------------------------
(* The daemon: internal/cli/daemon over the service managers of systemd   *)
(* and launchd.                                                           *)

\* No account was named and none is the default; no manager for this host.
NewManager == Check("usage") \o Check("plain")

\* An install that fails on its way (the directories are made first) leaves
\* the unit, or even enables it.
InstallSystemd == Check("plain") \o Save("unit") \o Save("reload")
                  \o Save("enable") \o Save("restart")
InstallLaunchd == Check("plain") \o Keep("bootout") \o Save("plist")
                  \o Save("bootstrap") \o Save("kickstart")
UninstallSystemd == Keep("disable") \o Save("remove unit") \o Keep("daemon-reload")
UninstallLaunchd == Keep("bootout") \o Save("remove plist")
StartSystemd == Save("start")
StartLaunchd == Either(Keep("kickstart") \o Save("bootstrap"), Save("kickstart"))
StopSystemd  == Save("stop")
StopLaunchd  == Save("bootout")

DaemonCommand(body) == Command("0", "account", NewManager \o body)
DaemonInstall ==
    DaemonCommand(Check("precondition") \o Check("plain")
                  \o Either(InstallSystemd, InstallLaunchd) \o Keep("meta"))
DaemonUninstall ==
    DaemonCommand(Either(UninstallSystemd, UninstallLaunchd) \o Keep("meta"))
DaemonStart ==
    DaemonCommand(Check("precondition") \o Either(StartSystemd, StartLaunchd))
DaemonStop   == DaemonCommand(Either(StopSystemd, StopLaunchd))
DaemonStatus == DaemonCommand(Check("plain") \o Render)
DaemonLogs   == Command("0", "account", Check("usage")
                  \o Check("precondition") \o Check("plain") \o Maybe(Check("plain")))

-----------------------------------------------------------------------------
\* The commands of this module.
AccountScripts ==
    [contact_add |-> ContactAdd, contact_list |-> ContactList,
     contact_block |-> ContactBlock, contact_delete |-> ContactDelete,
     contact_report |-> ContactReport, contact_unblock |-> ContactUnblock,
     profile_name |-> ProfileSetName, profile_bio |-> ProfileSetBio,
     profile_username |-> ProfileSetUsername, profile_status |-> ProfileSetStatus,
     profile_photo |-> ProfileSetPhoto,
     profile_delete_photo |-> ProfileDeletePhoto,
     password_set |-> PasswordSet, password_disable |-> PasswordDisable,
     session_list |-> SessionList, session_revoke |-> SessionRevoke,
     me |-> MeShow, inbox |-> Inbox, digest |-> Digest,
     search_chat |-> SearchChatCmd, search_msg |-> SearchMsgCmd,
     auth_list |-> AuthList, auth_status |-> AuthStatus,
     config_get |-> ConfigGet, config_set |-> ConfigSet,
     config_unset |-> ConfigUnset, config_show |-> ConfigShow,
     config_path |-> ConfigPath, config_edit |-> ConfigEdit,
     daemon_install |-> DaemonInstall, daemon_uninstall |-> DaemonUninstall,
     daemon_start |-> DaemonStart, daemon_stop |-> DaemonStop,
     daemon_status |-> DaemonStatus, daemon_logs |-> DaemonLogs]
=============================================================================
