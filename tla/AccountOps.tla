----------------------------- MODULE AccountOps -----------------------------
(***************************************************************************)
(* internal/telegram: the requests behind the commands about the account  *)
(* itself: contacts, profile, password, sessions, search.                 *)
(***************************************************************************)
EXTENDS MessageOps

-----------------------------------------------------------------------------
(* Contacts.                                                              *)

ListBlockedContacts == Each(Get("contacts.getBlocked"))
ListContacts  == Either(ListBlockedContacts, Get("contacts.getContacts"))

\* Whatever goes wrong with the number, a login that ended included, it is
\* reported as not found: the read goes on, and the test is of its outcome.
AddContact == Peek("contacts.resolvePhone") \o Check("notfound")
              \o Put("contacts.addContact")
BlockContact   == Resolve \o Put("contacts.block")
UnblockContact == Resolve \o Put("contacts.unblock")
DeleteContact  == Resolve \o NeedUser \o Put("contacts.deleteContacts")

\* The peer is blocked only once the report is made.
ReportPeer == Resolve \o Put("account.reportPeer") \o Maybe(Put("contacts.block"))

-----------------------------------------------------------------------------
(* Profile.                                                               *)

ShowMe == Get("users.getFullUser") \o Check("precondition")

UpdateProfileName     == Put("account.updateProfile")
UpdateProfileBio      == Put("account.updateProfile")
UpdateProfileUsername == Put("account.updateUsername")
UpdateProfileStatus   == Put("account.updateStatus")

UploadProfilePhoto == Upload \o Put("photos.uploadProfilePhoto")
DeleteProfilePhoto ==
    Get("users.getFullUser") \o Check("precondition") \o Put("photos.deletePhotos")

-----------------------------------------------------------------------------
(* Password and sessions.                                                 *)

PasswordEnabled == Get("account.getPassword")

\* The hashes are computed from what the server sent.
UpdatePasswordSettings == PutElse("account.updatePasswordSettings", "bad_password")
SetPassword ==
    Get("account.getPassword") \o Check("unsupported") \o Check("plain")
    \o Maybe(Check("plain")) \o UpdatePasswordSettings
DisablePassword ==
    Get("account.getPassword") \o Check("plain") \o UpdatePasswordSettings

FetchAuthorizations == Get("account.getAuthorizations")
ResetAuthorization  == Put("account.resetAuthorization")
ResetAllAuthorizations == Each(ResetAuthorization)
=============================================================================
