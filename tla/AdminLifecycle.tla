--------------------------- MODULE AdminLifecycle ---------------------------
(***************************************************************************)
(* Admin accounts: invitations, sign-in, the superadmin's changes and the  *)
(* memberships of a bot, in one process over PostgreSQL.                   *)
(*                                                                         *)
(* Every request resolves its principal first (get_admin, in a thread and  *)
(* a transaction of its own).  The handlers of admin_admins are coroutines *)
(* without an await: one runs at a time, while threads commit between its  *)
(* statements.  Those of admin_bots run in threads.  A person is a pair of *)
(* issuer and subject; their e-mail does not change.                       *)
(***************************************************************************)
EXTENDS FiniteSets, Naturals

CONSTANTS Person, Email, EmailOf,
          AllowRelink,    \* AUTH_ALLOW_EMAIL_RELINK
          Bootstrap,      \* AUTH_BOOTSTRAP_SUPERADMIN_EMAIL
          Request,        \* requests under way at a time
          MaxRequests,    \* bound: requests made
          MaxCrash,       \* bound: restarts of the process
          Nobody

AdminAssumption ==
  /\ EmailOf \in [Person -> Email] /\ Bootstrap \in Email /\ Nobody \notin Person
  /\ IsFiniteSet(Email) /\ AllowRelink \in BOOLEAN
  /\ MaxRequests \in Nat /\ MaxCrash \in Nat

VARIABLES row,      \* admin_user by e-mail: the person linked and the flags
          pending,  \* pending_admin by e-mail
          role,     \* admin_bot_membership by e-mail, for one bot
          bot,      \* the bot's row
          req,      \* requests under way
          server,   \* "up", "down", or "broken": the boot raised
          requests, crashes  \* so far

tables == <<row, pending, role, bot>>
process == <<server, requests, crashes>>
vars == <<tables, req, process>>

Roles == {"owner", "admin", "viewer"}
Absent == [link |-> Nobody, active |-> FALSE, super |-> FALSE]
Rows == [link : Person, active : BOOLEAN, super : BOOLEAN] \cup {Absent}
NoInvite == [state |-> "none", super |-> FALSE, role |-> "none"]
Invites == [state : {"none", "active", "consumed"}, super : BOOLEAN,
            role : Roles \cup {"none"}]

(* A request: who makes it, whether as a superadmin; what it is about to do *)
(* to whom; the invitation it read; and whether what it read was changed.   *)
OnLoop == {"flags", "create", "revoke"}
Requests == [pc : {"idle", "link", "email", "touch", "relink", "invite", "activate", "handle",
                   "first", "close", "member", "write"} \cup OnLoop,
             who : Person \cup {Nobody}, super : BOOLEAN, target : Email,
             role : Roles \cup {"none"}, new : BOOLEAN, seen : Invites, stale : BOOLEAN]
Idle == [pc |-> "idle", who |-> Nobody, super |-> FALSE, target |-> Bootstrap,
         role |-> "none", new |-> FALSE, seen |-> NoInvite, stale |-> FALSE]

Exists(e) == row[e] # Absent
Supers == {e \in Email : row[e].active /\ row[e].super}
Owners == {e \in Email : role[e] = "owner"}
Mail(r) == EmailOf[req[r].who]
At(r, pc) == req[r].pc = pc
Goto(r, pc) == req' = [req EXCEPT ![r].pc = pc]
End(r) == req' = [req EXCEPT ![r] = Idle]

(* The request ends, and those that read what it changed are out of date.   *)
EndOutdating(r, others) ==
  req' = [s \in Request |-> IF s = r THEN Idle
                            ELSE IF s \in others THEN [req[s] EXCEPT !.stale = TRUE]
                            ELSE req[s]]
Readers(pc, e) == {s \in Request : At(s, pc) /\ Mail(s) = e}
Writers == {s \in Request : At(s, "write")}

Init ==
  /\ row = [e \in Email |-> Absent]
  /\ pending = [e \in Email |-> NoInvite] /\ role = [e \in Email |-> "none"]
  /\ bot = "none" /\ req = [r \in Request |-> Idle]
  /\ server = "down" /\ requests = 0 /\ crashes = 0

-----------------------------------------------------------------------------
(* The process.                                                              *)

(* _bootstrap_pending_superadmin: the invitation is made unless the admin or
   an open invitation exists; a consumed one still has the e-mail.           *)
Boot ==
  /\ server = "down"
  /\ IF Exists(Bootstrap) \/ pending[Bootstrap].state = "active"
       THEN server' = "up" /\ UNCHANGED pending
     ELSE IF pending[Bootstrap].state = "consumed"
       THEN server' = "broken" /\ UNCHANGED pending
     ELSE /\ server' = "up"
          /\ pending' = [pending EXCEPT ![Bootstrap] =
                           [state |-> "active", super |-> TRUE, role |-> "none"]]
  /\ UNCHANGED <<row, role, bot, req, requests, crashes>>

Crash ==
  /\ server = "up" /\ crashes < MaxCrash
  /\ server' = "down" /\ crashes' = crashes + 1
  /\ req' = [r \in Request |-> Idle]
  /\ UNCHANGED <<tables, requests>>

-----------------------------------------------------------------------------
(* get_admin and resolve_or_create_admin.                                    *)
Begin(r, p) ==
  /\ server = "up" /\ At(r, "idle") /\ requests < MaxRequests
  /\ requests' = requests + 1
  /\ req' = [req EXCEPT ![r] = [Idle EXCEPT !.pc = "link", !.who = p]]
  /\ UNCHANGED <<tables, server, crashes>>

(* get_by_issuer_subject *)
FindLink(r) ==
  /\ At(r, "link")
  /\ Goto(r, IF row[Mail(r)].link = req[r].who THEN "touch" ELSE "email")
  /\ UNCHANGED <<tables, process>>

(* get_by_email, and the refusal to link an account to another person.       *)
MayLink(r) == AllowRelink \/ row[Mail(r)].link = req[r].who
FindEmail(r) ==
  /\ At(r, "email")
  /\ IF ~ Exists(Mail(r)) THEN Goto(r, "invite")
     ELSE IF MayLink(r) THEN Goto(r, "relink")
     ELSE End(r)
  /\ UNCHANGED <<tables, process>>

(* touch_login, after link_to_idp where the account was found by its e-mail;
   unless the row is gone.  A disabled account gets no further.              *)
SignedIn(r, super) == req' = [req EXCEPT ![r] = [Idle EXCEPT !.pc = "handle",
                                                  !.who = req[r].who, !.super = super]]
Touch(r) ==
  /\ At(r, "touch") \/ At(r, "relink")
  /\ IF Exists(Mail(r)) /\ ~ req[r].stale
       THEN /\ row' = [row EXCEPT ![Mail(r)].link = IF At(r, "relink") THEN req[r].who ELSE @]
            /\ IF row[Mail(r)].active THEN SignedIn(r, row[Mail(r)].super) ELSE End(r)
       ELSE End(r) /\ UNCHANGED row
  /\ UNCHANGED <<pending, role, bot, process>>

(* get_active_by_email *)
FindInvite(r) ==
  /\ At(r, "invite")
  /\ IF pending[Mail(r)].state = "active"
       THEN req' = [req EXCEPT ![r] = [req[r] EXCEPT !.pc = "activate",
                                                     !.seen = pending[Mail(r)]]]
       ELSE End(r)
  /\ UNCHANGED <<tables, process>>

(* The rest of the transaction: the account, its membership and the end of
   the invitation.  A second account of the e-mail rolls it back.            *)
Consumed(e) == IF pending[e].state = "active"
               THEN [pending[e] EXCEPT !.state = "consumed"] ELSE pending[e]
Activate(r) ==
  LET e == Mail(r) IN
  /\ At(r, "activate")
  /\ IF Exists(e) THEN End(r) /\ UNCHANGED <<row, pending, role>>
     ELSE /\ row' = [row EXCEPT ![e] = [link |-> req[r].who, active |-> TRUE,
                                        super |-> req[r].seen.super]]
          /\ role' = [role EXCEPT ![e] = IF bot = "none" THEN "none" ELSE req[r].seen.role]
          /\ pending' = [pending EXCEPT ![e] = Consumed(e)]
          /\ req' = [s \in Request |->
                       IF s = r THEN [Idle EXCEPT !.pc = "handle", !.who = req[r].who,
                                                  !.super = req[r].seen.super]
                       ELSE IF s \in Readers("activate", e) \cup Writers
                         THEN [req[s] EXCEPT !.stale = TRUE]
                       ELSE req[s]]
  /\ UNCHANGED <<bot, process>>

(* A route that only reads, or refuses what is asked.                        *)
Leave(r) == At(r, "handle") /\ End(r) /\ UNCHANGED <<tables, process>>

-----------------------------------------------------------------------------
(* The superadmin's routes, on the event loop.                               *)
Superadmin(r) ==
  /\ At(r, "handle") /\ req[r].super
  /\ \A s \in Request : req[s].pc \notin OnLoop

(* Mutant of LastSuperadmin: superadmins that are disabled count. *)
LastSuperadminOfAll(e) == e \in Supers /\ Cardinality({f \in Email : row[f].super}) <= 1

(* count_superadmins_active *)
LastSuperadmin(e) == e \in Supers /\ Cardinality(Supers) <= 1

(* update_admin: the check and set_active, and then set_superadmin.          *)
SetActive(r, e, active, super) ==
  /\ Superadmin(r) /\ Exists(e)
  /\ LastSuperadmin(e) => active /\ super
  /\ row' = [row EXCEPT ![e].active = active]
  /\ req' = [req EXCEPT ![r] = [req[r] EXCEPT !.pc = "flags", !.target = e, !.new = super]]
  /\ UNCHANGED <<pending, role, bot, process>>

SetSuper(r) ==
  LET e == req[r].target IN
  /\ At(r, "flags")
  /\ IF Exists(e) THEN row' = [row EXCEPT ![e].super = req[r].new] ELSE UNCHANGED row
  /\ End(r)
  /\ UNCHANGED <<pending, role, bot, process>>

(* delete_admin; the memberships go with the row.                            *)
DeleteAdmin(r, e) ==
  /\ Superadmin(r) /\ Exists(e) /\ ~ LastSuperadmin(e)
  /\ row' = [row EXCEPT ![e] = Absent]
  /\ role' = [role EXCEPT ![e] = "none"]
  /\ EndOutdating(r, Readers("touch", e) \cup Readers("relink", e) \cup Writers)
  /\ UNCHANGED <<pending, bot, process>>

(* create_pending: the two checks, and the insert.                           *)
CheckInvite(r, e) ==
  /\ Superadmin(r) /\ ~ Exists(e) /\ pending[e].state # "active"
  /\ req' = [req EXCEPT ![r] = [req[r] EXCEPT !.pc = "create", !.target = e]]
  /\ UNCHANGED <<tables, process>>

Invite(r) ==
  LET e == req[r].target IN
  /\ At(r, "create")
  /\ \/ /\ pending[e].state = "none"
        /\ \E super \in BOOLEAN, o \in {"none", "owner"} :
             pending' = [pending EXCEPT ![e] = [state |-> "active", super |-> super, role |-> o]]
     \/ pending[e].state # "none" /\ UNCHANGED pending
  /\ End(r)
  /\ UNCHANGED <<row, role, bot, process>>

(* revoke_pending: the check, and the delete.                                *)
CheckRevoke(r, e) ==
  /\ Superadmin(r) /\ pending[e].state = "active"
  /\ req' = [req EXCEPT ![r] = [req[r] EXCEPT !.pc = "revoke", !.target = e]]
  /\ UNCHANGED <<tables, process>>

Revoke(r) ==
  /\ At(r, "revoke")
  /\ pending' = [pending EXCEPT ![req[r].target] = NoInvite]
  /\ EndOutdating(r, Readers("activate", req[r].target))
  /\ UNCHANGED <<row, role, bot, process>>

-----------------------------------------------------------------------------
(* The bot and its members, in threads.                                      *)

(* create_bot: the row, and the membership of its creator.                   *)
CreateBot(r) ==
  /\ At(r, "handle") /\ bot = "none"
  /\ bot' = "live" /\ Goto(r, "first")
  /\ UNCHANGED <<row, pending, role, process>>

Set(r, e, o) == role' = [role EXCEPT ![e] = o] /\ EndOutdating(r, Writers)

GrantCreator(r) ==
  /\ At(r, "first")
  /\ IF Exists(Mail(r)) /\ role[Mail(r)] = "none"
       THEN Set(r, Mail(r), "owner") ELSE End(r) /\ UNCHANGED role
  /\ UNCHANGED <<row, pending, bot, process>>

(* require_owner *)
IsOwner(r) == req[r].super \/ role[Mail(r)] = "owner"
Authorise(r, e, o, new) ==
  /\ At(r, "handle") /\ bot = "live" /\ IsOwner(r)
  /\ req' = [req EXCEPT ![r] = [req[r] EXCEPT !.pc = "member", !.target = e,
                                              !.role = o, !.new = new]]
  /\ UNCHANGED <<tables, process>>

AuthoriseClose(r) ==
  /\ At(r, "handle") /\ bot = "live" /\ IsOwner(r)
  /\ Goto(r, "close")
  /\ UNCHANGED <<tables, process>>

(* count_owners *)
LastOwner(e) == role[e] = "owner" /\ Cardinality(Owners) <= 1

(* grant_membership, update_membership_role and revoke_membership read what
   is there, and refuse to lose the last owner.                              *)
ReadMember(r) ==
  LET e == req[r].target IN
  /\ At(r, "member")
  /\ IF \/ req[r].new /\ Exists(e) /\ role[e] = "none"
        \/ ~ req[r].new /\ role[e] # "none" /\ (LastOwner(e) => req[r].role = "owner")
       THEN Goto(r, "write") ELSE End(r)
  /\ UNCHANGED <<tables, process>>

(* The insert fails without the admin or beside another; the update and the
   delete may find no row.                                                   *)
WriteMember(r) ==
  LET e == req[r].target IN
  /\ At(r, "write")
  /\ IF \/ req[r].new /\ Exists(e) /\ role[e] = "none"
        \/ ~ req[r].new /\ role[e] # "none"
       THEN Set(r, e, req[r].role) ELSE End(r) /\ UNCHANGED role
  /\ UNCHANGED <<row, pending, bot, process>>

(* soft_delete_bot *)
CloseBot(r) ==
  /\ At(r, "close")
  /\ bot' = "deleted" /\ End(r)
  /\ UNCHANGED <<row, pending, role, process>>

-----------------------------------------------------------------------------
Members(r) ==
  \/ CreateBot(r) \/ GrantCreator(r) \/ AuthoriseClose(r) \/ CloseBot(r)
  \/ \E e \in Email : \/ \E o \in Roles, new \in BOOLEAN : Authorise(r, e, o, new)
                      \/ Authorise(r, e, "none", FALSE)
  \/ ReadMember(r) \/ WriteMember(r)

Accounts(r) ==
  \/ \E e \in Email : \/ \E active, super \in BOOLEAN : SetActive(r, e, active, super)
                      \/ DeleteAdmin(r, e) \/ CheckInvite(r, e) \/ CheckRevoke(r, e)
  \/ SetSuper(r) \/ Invite(r) \/ Revoke(r)

Resolve(r) ==
  \/ \E p \in Person : Begin(r, p)
  \/ FindLink(r) \/ FindEmail(r) \/ Touch(r) \/ FindInvite(r) \/ Activate(r) \/ Leave(r)

Next == Boot \/ Crash \/ \E r \in Request : Resolve(r) \/ Accounts(r) \/ Members(r)

Spec == Init /\ [][Next]_vars

-----------------------------------------------------------------------------
(* Types. *)
TypeOK ==
  /\ row \in [Email -> Rows] /\ pending \in [Email -> Invites]
  /\ role \in [Email -> Roles \cup {"none"}] /\ bot \in {"none", "live", "deleted"}
  /\ req \in [Request -> Requests]
  /\ server \in {"up", "down", "broken"} /\ requests \in Nat /\ crashes \in Nat

(* Once there is an active superadmin there always is one, and a bot that has
   an owner keeps one ("so two concurrent demote-owner calls can't both observe
   count == 2"), unless an admin is deleted or a change wrote although the
   members had changed since it counted them.                                *)
LastSuperadminStays == [][Supers # {} => Supers' # {}]_vars
LastOwnerStays ==
  [][Owners # {} /\ Owners' = {} =>
       \/ \E e \in Email : Exists(e) /\ ~ Exists(e)'
       \/ \E r \in Request : At(r, "write") /\ req[r].stale /\ At(r, "idle")']_vars
SomeoneInCharge == LastSuperadminStays /\ LastOwnerStays

(* An account is made for an open invitation alone and with its rights, once
   for each, unless that was revoked or used while the request read it; and an
   account stays with its person unless relinking is allowed.                *)
InvitedOnly ==
  [][\A e \in Email :
       /\ ~ Exists(e) /\ Exists(e)' =>
            \E r \in Readers("activate", e) :
              \/ req[r].stale
              \/ /\ pending[e].state = "active" /\ pending'[e].state = "consumed"
                 /\ row'[e].super = pending[e].super
       /\ Exists(e) /\ Exists(e)' => AllowRelink \/ row'[e].link = row[e].link]_vars

AccountsSound == []TypeOK /\ SomeoneInCharge /\ InvitedOnly
=============================================================================
