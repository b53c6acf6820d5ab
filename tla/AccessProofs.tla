---------------------------- MODULE AccessProofs ---------------------------
(***************************************************************************)
(* What holds of the parts of Access whatever their constants: for admins  *)
(* and people, when a superadmin and an owner stay and accounts follow     *)
(* their invitations; for sign-in, that a login gives one session, that    *)
(* sessions outlive restarts and that guesses are bounded; for installs,   *)
(* that the platform's webhook is that of the row; for deliveries, that    *)
(* tokens are refreshed once and in date; for inbound messages, which keys *)
(* verify them.                                                            *)
(***************************************************************************)
EXTENDS Access, Sequences, FiniteSetTheorems, TLAPS

-----------------------------------------------------------------------------
(* AdminLifecycle. *)

(* What a request relies on.  It knows who makes it; and unless what it read
   has changed, its account is linked to nobody else, its invitation is open
   and as it was, and it does not take the last owner away.                  *)
Fits(q) ==
  /\ q \in Requests /\ (q.pc = "idle" \/ q.who \in Person)
  /\ ~ q.stale /\ q.pc = "relink" => AllowRelink \/ row[EmailOf[q.who]].link = q.who
  /\ ~ q.stale /\ q.pc = "activate" =>
       q.seen = pending[EmailOf[q.who]] /\ q.seen.state = "active"
  /\ ~ q.stale /\ q.pc = "write" /\ ~ q.new /\ LastOwner(q.target) => q.role = "owner"

IInv == TypeOK /\ \A r \in Request : Fits(req[r])

LEMMA IdleFits == ASSUME AdminAssumption PROVE Fits(Idle)
BY DEF AdminAssumption, Fits, Idle, Requests, NoInvite, Invites

LEMMA InitIInv == ASSUME AdminAssumption, Init PROVE IInv
<1>1. TypeOK
  BY IdleFits DEF Init, TypeOK, Rows, Invites, NoInvite, Fits
<1>2. \A r \in Request : Fits(req[r])
  BY IdleFits DEF Init
<1> QED BY <1>1, <1>2 DEF IInv

-----------------------------------------------------------------------------
(* Steps that leave the tables alone: one request goes on.                   *)
Same == UNCHANGED <<row, pending, role>> /\ bot' \in {"none", "live", "deleted"}
        /\ server' \in {"up", "down", "broken"} /\ requests' \in Nat /\ crashes' \in Nat

LEMMA SameFits == ASSUME Same, NEW q, Fits(q) PROVE Fits(q)'
BY DEF Same, Fits, LastOwner, Owners

LEMMA Moves ==
  ASSUME IInv, Same, NEW r \in Request, NEW q, Fits(q), req' = [req EXCEPT ![r] = q]
  PROVE  IInv'
<1>1. req' \in [Request -> Requests]
  BY DEF IInv, TypeOK, Fits
<1>2. TypeOK'
  BY <1>1 DEF IInv, TypeOK, Same
<1>3. ASSUME NEW s \in Request PROVE Fits(req[s])'
  <2>1. Fits(q)'
    BY SameFits
  <2>2. CASE s = r
    <3>1. req'[s] = q
      BY <2>2 DEF IInv, TypeOK
    <3> QED BY <2>1, <3>1 DEF Fits
  <2>3. CASE s # r
    <3>1. req'[s] = req[s] /\ Fits(req[s])
      BY <2>3 DEF IInv, TypeOK
    <3> QED BY <3>1 DEF Fits, Same, LastOwner, Owners
  <2> QED BY <2>2, <2>3
<1> QED BY <1>2, <1>3 DEF IInv

LEMMA Ends ==
  ASSUME AdminAssumption, IInv, Same, NEW r \in Request, End(r)
  PROVE  IInv'
BY Moves, IdleFits DEF End

(* A request that goes on with what it has, to a place where it needs no more. *)
LEMMA GoesOn ==
  ASSUME IInv, Same, NEW r \in Request, Goto(r, "member") \/ Goto(r, "first") \/ Goto(r, "close") \/ Goto(r, "email") \/ Goto(r, "invite"),
         ~ At(r, "idle")
  PROVE  IInv'
<1> SUFFICES ASSUME NEW pc \in {"member", "first", "close", "email", "invite"}, Goto(r, pc) PROVE IInv'
  OBVIOUS
<1> DEFINE q == [req[r] EXCEPT !.pc = pc]
<1>1. Fits(q)
  BY DEF IInv, Fits, At, Requests
<1>2. req' = [req EXCEPT ![r] = q]
  BY DEF Goto
<1> QED BY <1>1, <1>2, Moves

LEMMA ResolveMoves ==
  ASSUME AdminAssumption, IInv, NEW r \in Request,
         (\E p \in Person : Begin(r, p)) \/ FindLink(r) \/ FindEmail(r) \/ FindInvite(r) \/ Leave(r)
  PROVE  IInv'
<1>0. req[r] \in Requests /\ Fits(req[r])
  BY DEF IInv, TypeOK
<1>1. ASSUME NEW p \in Person, Begin(r, p) PROVE IInv'
  <2> DEFINE q == [Idle EXCEPT !.pc = "link", !.who = p]
  <2>1. Fits(q)
    <3>1. Idle \in Requests
      BY IdleFits DEF Fits
    <3> QED BY <3>1 DEF Fits, Requests
  <2>2. Same
    <3>1. requests' = requests + 1 /\ UNCHANGED <<row, pending, role, bot, server, crashes>>
      BY <1>1 DEF Begin, tables
    <3> QED BY <3>1 DEF Same, IInv, TypeOK
  <2> QED BY <1>1, <2>1, <2>2, Moves DEF Begin
<1>2. CASE FindLink(r)
  <2>1. Same /\ ~ At(r, "idle")
    BY <1>2 DEF FindLink, Same, IInv, TypeOK, tables, process, At
  <2>2. CASE row[Mail(r)].link = req[r].who
    <3> DEFINE q == [req[r] EXCEPT !.pc = "touch"]
    <3>1. Fits(q)
      BY <1>0, <1>2, <2>2 DEF FindLink, At, Fits, Requests, Mail
    <3> QED BY <1>2, <2>1, <2>2, <3>1, Moves DEF FindLink, Goto
  <2>3. CASE row[Mail(r)].link # req[r].who
    BY <1>2, <2>1, <2>3, GoesOn DEF FindLink
  <2> QED BY <2>2, <2>3
<1>3. CASE FindEmail(r)
  <2>1. Same /\ ~ At(r, "idle")
    BY <1>3 DEF FindEmail, Same, IInv, TypeOK, tables, process, At
  <2>2. CASE ~ Exists(Mail(r))
    BY <1>3, <2>1, <2>2, GoesOn DEF FindEmail
  <2>3. CASE Exists(Mail(r)) /\ MayLink(r)
    <3> DEFINE q == [req[r] EXCEPT !.pc = "relink"]
    <3>1. Fits(q)
      BY <1>0, <1>3, <2>3 DEF FindEmail, MayLink, At, Fits, Requests, Mail
    <3> QED BY <1>3, <2>1, <2>3, <3>1, Moves DEF FindEmail, Goto
  <2>4. CASE Exists(Mail(r)) /\ ~ MayLink(r)
    BY <1>3, <2>1, <2>4, Ends DEF FindEmail
  <2> QED BY <2>2, <2>3, <2>4
<1>4. CASE FindInvite(r)
  <2>1. Same /\ ~ At(r, "idle")
    BY <1>4 DEF FindInvite, Same, IInv, TypeOK, tables, process, At
  <2>2. CASE pending[Mail(r)].state = "active"
    <3> DEFINE q == [req[r] EXCEPT !.pc = "activate", !.seen = pending[Mail(r)]]
    <3>1. Mail(r) \in Email /\ pending[Mail(r)] \in Invites
      BY <1>0, <1>4 DEF FindInvite, At, Fits, Mail, AdminAssumption, IInv, TypeOK
    <3>2. Fits(q)
      BY <1>0, <1>4, <2>2, <3>1 DEF FindInvite, At, Fits, Requests, Mail
    <3> QED BY <1>4, <2>1, <2>2, <3>2, Moves DEF FindInvite
  <2>3. CASE pending[Mail(r)].state # "active"
    BY <1>4, <2>1, <2>3, Ends DEF FindInvite
  <2> QED BY <2>2, <2>3
<1>5. CASE Leave(r)
  <2>1. Same
    BY <1>5 DEF Leave, Same, IInv, TypeOK, tables, process
  <2> QED BY <1>5, <2>1, Ends DEF Leave
<1> QED BY <1>1, <1>2, <1>3, <1>4, <1>5

LEMMA AdminMoves ==
  ASSUME AdminAssumption, IInv, NEW r \in Request, NEW e \in Email,
         CheckInvite(r, e) \/ CheckRevoke(r, e)
  PROVE  IInv'
<1>1. Same /\ Fits(req[r]) /\ At(r, "handle")
  BY DEF CheckInvite, CheckRevoke, Superadmin, Same, IInv, TypeOK, tables, process
<1>2. ASSUME NEW pc \in OnLoop PROVE Fits([req[r] EXCEPT !.pc = pc, !.target = e])
  BY <1>1 DEF At, Fits, Requests, OnLoop
<1> QED BY <1>1, <1>2, Moves DEF CheckInvite, CheckRevoke, OnLoop

LEMMA MemberMoves ==
  ASSUME AdminAssumption, IInv, NEW r \in Request,
         \/ \E e \in Email, o \in Roles \cup {"none"}, new \in BOOLEAN : Authorise(r, e, o, new)
         \/ AuthoriseClose(r) \/ CreateBot(r) \/ CloseBot(r) \/ ReadMember(r)
  PROVE  IInv'
<1>0. req[r] \in Requests /\ Fits(req[r])
  BY DEF IInv, TypeOK
<1>1. ASSUME NEW e \in Email, NEW o \in Roles \cup {"none"}, NEW new \in BOOLEAN,
             Authorise(r, e, o, new)
      PROVE  IInv'
  <2> DEFINE q == [req[r] EXCEPT !.pc = "member", !.target = e, !.role = o, !.new = new]
  <2>1. Fits(q)
    BY <1>0, <1>1 DEF Authorise, At, Fits, Requests
  <2>2. Same
    BY <1>1 DEF Authorise, Same, IInv, TypeOK, tables, process
  <2> QED BY <1>1, <2>1, <2>2, Moves DEF Authorise
<1>2. CASE AuthoriseClose(r) \/ CreateBot(r)
  <2>1. Same /\ ~ At(r, "idle")
    BY <1>2 DEF AuthoriseClose, CreateBot, Same, IInv, TypeOK, tables, process, At
  <2> QED BY <1>2, <2>1, GoesOn DEF AuthoriseClose, CreateBot
<1>3. CASE CloseBot(r)
  <2>1. Same
    BY <1>3 DEF CloseBot, Same, IInv, TypeOK, process
  <2> QED BY <1>3, <2>1, Ends DEF CloseBot
<1>4. CASE ReadMember(r)
  <2>1. Same
    BY <1>4 DEF ReadMember, Same, IInv, TypeOK, tables, process
  <2>2. CASE End(r)
    BY <2>1, <2>2, Ends
  <2>3. CASE ~ End(r)
    <3> DEFINE q == [req[r] EXCEPT !.pc = "write"]
    <3>1. /\ req' = [req EXCEPT ![r] = q] /\ At(r, "member")
          /\ req[r].new \/ (LastOwner(req[r].target) => req[r].role = "owner")
      BY <1>4, <2>3 DEF ReadMember, Goto
    <3>2. Fits(q)
      BY <1>0, <3>1 DEF At, Fits, Requests
    <3> QED BY <2>1, <3>1, <3>2, Moves
  <2> QED BY <2>2, <2>3
<1> QED BY <1>1, <1>2, <1>3, <1>4

-----------------------------------------------------------------------------
(* Steps that change the tables: one request goes on, those that read what it
   changed are out of date, and the others may still rely on what they read. *)
Tables ==
  /\ row \in [Email -> Rows] /\ pending \in [Email -> Invites]
  /\ role \in [Email -> Roles \cup {"none"}] /\ bot \in {"none", "live", "deleted"}
  /\ server \in {"up", "down", "broken"} /\ requests \in Nat /\ crashes \in Nat

Outdated(s) == req'[s] = [req[s] EXCEPT !.stale = TRUE]

LEMMA Changes ==
  ASSUME IInv, Tables', req' \in [Request -> Requests],
         \A s \in Request : \/ Fits(req[s])'
                            \/ Outdated(s)
                            \/ req'[s] = req[s] /\ \A q : q = req[s] /\ Fits(q) => Fits(q)'
  PROVE  IInv'
<1>1. TypeOK'
  BY DEF Tables, TypeOK
<1>2. ASSUME NEW s \in Request, Outdated(s) PROVE Fits(req[s])'
  <2>1. Fits(req[s]) /\ req[s] \in Requests
    BY DEF IInv, Fits
  <2>2. req'[s].stale /\ req'[s].pc = req[s].pc /\ req'[s].who = req[s].who
    BY <1>2, <2>1 DEF Outdated, Requests
  <2>3. req'[s] \in Requests
    OBVIOUS
  <2> QED BY <2>1, <2>2, <2>3 DEF Fits
<1>3. ASSUME NEW s \in Request, req'[s] = req[s], \A q : q = req[s] /\ Fits(q) => Fits(q)'
      PROVE  Fits(req[s])'
  <2>1. Fits(req[s])
    BY DEF IInv
  <2>2. PICK q : q = req[s]
    OBVIOUS
  <2>3. Fits(q)
    BY <2>1, <2>2 DEF Fits
  <2>4. Fits(q)'
    BY <1>3, <2>2, <2>3
  <2> QED BY <1>3, <2>2, <2>4 DEF Fits
<1>4. \A s \in Request : Fits(req[s])'
  BY <1>2, <1>3
<1> QED BY <1>1, <1>4 DEF IInv

LEMMA BootIInv == ASSUME AdminAssumption, IInv, Boot PROVE IInv'
<1>0. [state |-> "active", super |-> TRUE, role |-> "none"] \in Invites
  BY DEF Invites
<1>1. pending' \in [Email -> Invites]
  BY <1>0 DEF Boot, IInv, TypeOK
<1>2. Tables' /\ req' \in [Request -> Requests]
  BY <1>1 DEF Boot, IInv, TypeOK, Tables
<1>3. ASSUME NEW s \in Request, NEW q, q = req[s], Fits(q) PROVE Fits(q)'
  <2>1. \A e \in Email : pending[e].state = "active" => pending'[e] = pending[e]
    BY DEF Boot, IInv, TypeOK, AdminAssumption
  <2>2. q.pc = "activate" => EmailOf[q.who] \in Email
    BY <1>3 DEF Fits, AdminAssumption
  <2> QED BY <1>3, <2>1, <2>2 DEF Fits, Boot, LastOwner, Owners
<1> QED BY <1>2, <1>3, Changes DEF Boot

LEMMA CrashIInv == ASSUME AdminAssumption, IInv, Crash PROVE IInv'
<1>1. Tables'
  BY DEF Crash, IInv, TypeOK, Tables, tables
<1>2. Idle \in Requests
  BY IdleFits DEF Fits
<1>3. req' \in [Request -> Requests] /\ \A s \in Request : req'[s] = Idle
  BY <1>2 DEF Crash
<1>4. Fits(Idle)'
  BY <1>2 DEF Fits, Idle
<1>5. \A s \in Request : Fits(req[s])'
  BY <1>3, <1>4 DEF Fits
<1> QED BY <1>1, <1>3, <1>5, Changes

LEMMA TouchIInv == ASSUME AdminAssumption, IInv, NEW r \in Request, Touch(r) PROVE IInv'
<1>0. Fits(req[r]) /\ req[r] \in Requests /\ (At(r, "touch") \/ At(r, "relink"))
  BY DEF IInv, Fits, Touch
<1>1. Mail(r) \in Email /\ req[r].who \in Person
  BY <1>0 DEF Fits, At, Mail, AdminAssumption
<1>2. CASE ~ (Exists(Mail(r)) /\ ~ req[r].stale)
  <2>1. Same /\ End(r)
    BY <1>2 DEF Touch, Same, IInv, TypeOK, process
  <2> QED BY <2>1, Ends
<1>3. CASE Exists(Mail(r)) /\ ~ req[r].stale
  <2> DEFINE m == Mail(r)
             new == IF At(r, "relink") THEN req[r].who ELSE row[m].link
             to == [Idle EXCEPT !.pc = "handle", !.who = req[r].who, !.super = row[m].super]
  <2>1. /\ row' = [row EXCEPT ![m].link = new] /\ UNCHANGED <<pending, role, bot, process>>
        /\ req' = [req EXCEPT ![r] = to] \/ req' = [req EXCEPT ![r] = Idle]
    BY <1>3 DEF Touch, SignedIn, End
  <2>2. row[m] \in [link : Person, active : BOOLEAN, super : BOOLEAN]
    BY <1>1, <1>3 DEF Exists, IInv, TypeOK, Rows
  <2>3. row' \in [Email -> Rows] /\ row'[m].link = new
        /\ \A e \in Email \ {m} : row'[e] = row[e]
    BY <1>1, <2>1, <2>2 DEF IInv, TypeOK, Rows
  <2>4. Idle \in Requests
    BY IdleFits DEF Fits
  <2>5. to \in Requests /\ to.pc = "handle" /\ to.who \in Person
    BY <1>1, <2>2, <2>4 DEF Requests
  <2>6. Tables'
    BY <2>1, <2>3 DEF IInv, TypeOK, Tables, process
  <2>7. req' \in [Request -> Requests]
    BY <2>1, <2>4, <2>5 DEF IInv, TypeOK
  <2>8. Fits(req[r])'
    <3>1. req'[r] = to \/ req'[r] = Idle
      BY <2>1 DEF IInv, TypeOK
    <3>2. Idle.pc = "idle"
      BY DEF Idle
    <3> HIDE DEF to
    <3> QED BY <2>4, <2>5, <3>1, <3>2 DEF Fits
  <2>9. ASSUME NEW s \in Request \ {r}, NEW q, q = req[s], Fits(q) PROVE Fits(q)'
    <3>1. q.pc = "relink" => EmailOf[q.who] \in Email /\ q.who \in Person
      BY <2>9 DEF Fits, AdminAssumption
    <3>2. ~ q.stale /\ q.pc = "relink" => AllowRelink \/ row'[EmailOf[q.who]].link = q.who
      BY <1>0, <1>3, <2>3, <2>9, <3>1 DEF Fits, At, Mail
    <3> QED BY <2>1, <2>9, <3>2 DEF Fits, LastOwner, Owners
  <2>10. \A s \in Request \ {r} : req'[s] = req[s]
    BY <2>1 DEF IInv, TypeOK
  <2> QED BY <2>6, <2>7, <2>8, <2>9, <2>10, Changes
<1> QED BY <1>2, <1>3

LEMMA EndsOutdating ==
  ASSUME AdminAssumption, IInv, NEW r \in Request, NEW others, EndOutdating(r, others)
  PROVE  /\ req' \in [Request -> Requests] /\ Fits(req[r])'
         /\ \A s \in Request \ {r} : IF s \in others THEN Outdated(s) ELSE req'[s] = req[s]
<1>1. Idle \in Requests /\ Idle.pc = "idle"
  BY IdleFits DEF Fits, Idle
<1>2. ASSUME NEW s \in Request PROVE [req[s] EXCEPT !.stale = TRUE] \in Requests
  <2>1. req[s] \in Requests
    BY DEF IInv, TypeOK
  <2> QED BY <2>1 DEF Requests
<1>3. req' \in [Request -> Requests]
  BY <1>1, <1>2 DEF EndOutdating, IInv, TypeOK
<1>4. req'[r] = Idle
  BY DEF EndOutdating
<1>5. Fits(req[r])'
  BY <1>1, <1>4 DEF Fits
<1> QED BY <1>3, <1>5 DEF EndOutdating, Outdated

(* set_superadmin writes one flag of an account, if there is one.            *)
LEMMA SuperSet ==
  ASSUME IInv, NEW r \in Request, SetSuper(r), NEW e, e = req[r].target
  PROVE  /\ e \in Email /\ req[r].new \in BOOLEAN
         /\ \A f \in Email \ {e} : row'[f] = row[f]
         /\ row'[e] \in Rows /\ row'[e].link = row[e].link /\ row'[e].active = row[e].active
         /\ Exists(e) => row'[e].super = req[r].new
         /\ ~ Exists(e) => row'[e] = row[e]
<1>1. e \in Email /\ req[r].new \in BOOLEAN /\ row[e] \in Rows
  BY DEF IInv, TypeOK, Requests
<1>5. CASE Exists(e)
  <2>1. row[e] \in [link : Person, active : BOOLEAN, super : BOOLEAN]
        /\ row' = [row EXCEPT ![e].super = req[r].new]
    BY <1>1, <1>5 DEF SetSuper, Rows, Exists
  <2>2. row'[e] = [row[e] EXCEPT !.super = req[r].new] /\ \A f \in Email \ {e} : row'[f] = row[f]
    BY <1>1, <2>1 DEF IInv, TypeOK
  <2>3. row'[e] \in [link : Person, active : BOOLEAN, super : BOOLEAN]
    BY <1>1, <2>1, <2>2
  <2>4. row'[e].link = row[e].link /\ row'[e].active = row[e].active /\ row'[e].super = req[r].new
    BY <2>1, <2>2
  <2> QED BY <1>1, <1>5, <2>2, <2>3, <2>4 DEF Rows
<1>6. CASE ~ Exists(e)
  BY <1>1, <1>6 DEF SetSuper
<1> QED BY <1>5, <1>6

LEMMA SetFlagsIInv ==
  ASSUME AdminAssumption, IInv, NEW r \in Request,
         (\E e \in Email, active, super \in BOOLEAN : SetActive(r, e, active, super)) \/ SetSuper(r)
  PROVE  IInv'
<1>1. row' \in [Email -> Rows] /\ \A f \in Email : row'[f].link = row[f].link
  <2>1. ASSUME NEW e \in Email, NEW active \in BOOLEAN, NEW super \in BOOLEAN, SetActive(r, e, active, super)
        PROVE  row' \in [Email -> Rows] /\ \A f \in Email : row'[f].link = row[f].link
    <3>1. row[e] \in [link : Person, active : BOOLEAN, super : BOOLEAN]
      BY <2>1 DEF SetActive, Exists, IInv, TypeOK, Rows
    <3> QED BY <2>1, <3>1 DEF SetActive, IInv, TypeOK, Rows
  <2>2. CASE SetSuper(r)
    <3>1. \A f \in Email : row'[f] \in Rows /\ row'[f].link = row[f].link
      BY <2>2, SuperSet DEF IInv, TypeOK
    <3>2. row' = [f \in Email |-> row'[f]]
      BY <2>2 DEF SetSuper, IInv, TypeOK
    <3> QED BY <3>1, <3>2
  <2> QED BY <2>1, <2>2
<1>2. Idle \in Requests /\ Idle.pc = "idle" /\ req[r] \in Requests /\ Fits(req[r])
  BY IdleFits DEF Fits, Idle, IInv
<1>3. PICK q \in Requests : req' = [req EXCEPT ![r] = q] /\ (q.pc = "idle" \/ (q.pc = "flags" /\ q.who \in Person))
  <2>1. ASSUME NEW e \in Email, NEW active \in BOOLEAN, NEW super \in BOOLEAN, SetActive(r, e, active, super)
        PROVE  \E q \in Requests : req' = [req EXCEPT ![r] = q] /\ (q.pc = "idle" \/ (q.pc = "flags" /\ q.who \in Person))
    <3> DEFINE q == [req[r] EXCEPT !.pc = "flags", !.target = e, !.new = super]
    <3>1. q \in Requests /\ q.pc = "flags" /\ q.who = req[r].who
      BY <1>2 DEF Requests, OnLoop
    <3>2. req[r].who \in Person /\ req' = [req EXCEPT ![r] = q]
      BY <1>2, <2>1 DEF SetActive, Superadmin, At, Fits
    <3> QED BY <3>1, <3>2
  <2>2. CASE SetSuper(r)
    BY <1>2, <2>2 DEF SetSuper, End
  <2> QED BY <2>1, <2>2
<1>4. UNCHANGED <<pending, role, bot, process>>
  BY DEF SetActive, SetSuper
<1>5. Tables' /\ req' \in [Request -> Requests] /\ req'[r] = q
      /\ \A s \in Request \ {r} : req'[s] = req[s]
  BY <1>1, <1>3, <1>4 DEF IInv, TypeOK, Tables, process
<1>6. Fits(req[r])'
  BY <1>3, <1>5 DEF Fits
<1>7. ASSUME NEW p, Fits(p) PROVE Fits(p)'
  BY <1>1, <1>4, <1>7 DEF Fits, LastOwner, Owners, AdminAssumption
<1> QED BY <1>5, <1>6, <1>7, Changes

LEMMA DeleteIInv ==
  ASSUME AdminAssumption, IInv, NEW r \in Request, NEW e \in Email, DeleteAdmin(r, e)
  PROVE  IInv'
<1> DEFINE others == Readers("touch", e) \cup Readers("relink", e) \cup Writers
<1>1. /\ req' \in [Request -> Requests] /\ Fits(req[r])'
      /\ \A s \in Request \ {r} : IF s \in others THEN Outdated(s) ELSE req'[s] = req[s]
  BY EndsOutdating DEF DeleteAdmin
<1>2. row' \in [Email -> Rows] /\ \A f \in Email \ {e} : row'[f] = row[f]
  BY DEF DeleteAdmin, IInv, TypeOK, Rows
<1>3. Tables'
  BY <1>2 DEF DeleteAdmin, IInv, TypeOK, Tables, process
<1>4. ASSUME NEW s \in Request \ others, NEW q, q = req[s], Fits(q) PROVE Fits(q)'
  <2>1. q.pc # "write" /\ (q.pc = "relink" => EmailOf[q.who] \in Email \ {e})
    BY <1>4 DEF Readers, Writers, At, Mail, Fits, AdminAssumption
  <2> QED BY <1>2, <1>4, <2>1 DEF Fits, DeleteAdmin
<1> QED BY <1>1, <1>3, <1>4, Changes

LEMMA InviteIInv == ASSUME AdminAssumption, IInv, NEW r \in Request, Invite(r) PROVE IInv'
<1> DEFINE e == req[r].target
<1>1. \A super \in BOOLEAN, o \in {"none", "owner"} :
         [state |-> "active", super |-> super, role |-> o] \in Invites
  BY DEF Invites, Roles
<1>2. /\ pending' \in [Email -> Invites]
      /\ \A f \in Email : pending[f].state = "active" => pending'[f] = pending[f]
  <2>1. CASE UNCHANGED pending
    BY <2>1 DEF IInv, TypeOK
  <2>2. CASE ~ UNCHANGED pending
    <3>1. PICK new \in Invites : pending' = [pending EXCEPT ![e] = new]
      BY <1>1, <2>2 DEF Invite
    <3>2. pending[e].state # "active"
      BY <2>2 DEF Invite
    <3> QED BY <3>1, <3>2 DEF IInv, TypeOK
  <2> QED BY <2>1, <2>2
<1>3. Idle \in Requests /\ Idle.pc = "idle"
  BY IdleFits DEF Fits, Idle
<1>4. Tables' /\ req' \in [Request -> Requests] /\ req'[r] = Idle
      /\ \A s \in Request \ {r} : req'[s] = req[s]
  BY <1>2, <1>3 DEF Invite, End, IInv, TypeOK, Tables, process
<1>5. Fits(req[r])'
  BY <1>3, <1>4 DEF Fits
<1>6. ASSUME NEW q, Fits(q) PROVE Fits(q)'
  <2>1. q.pc = "activate" => EmailOf[q.who] \in Email
    BY <1>6 DEF Fits, AdminAssumption
  <2> QED BY <1>2, <1>6, <2>1 DEF Fits, Invite, LastOwner, Owners
<1> QED BY <1>4, <1>5, <1>6, Changes

LEMMA RevokeIInv == ASSUME AdminAssumption, IInv, NEW r \in Request, Revoke(r) PROVE IInv'
<1> DEFINE others == Readers("activate", req[r].target)
<1>1. /\ req' \in [Request -> Requests] /\ Fits(req[r])'
      /\ \A s \in Request \ {r} : IF s \in others THEN Outdated(s) ELSE req'[s] = req[s]
  BY EndsOutdating DEF Revoke
<1>2. pending' \in [Email -> Invites]
      /\ \A f \in Email \ {req[r].target} : pending'[f] = pending[f]
  BY DEF Revoke, IInv, TypeOK, Invites, NoInvite
<1>3. Tables'
  BY <1>2 DEF Revoke, IInv, TypeOK, Tables, process
<1>4. ASSUME NEW s \in Request \ others, NEW q, q = req[s], Fits(q) PROVE Fits(q)'
  <2>1. q.pc = "activate" => EmailOf[q.who] \in Email \ {req[r].target}
    BY <1>4 DEF Readers, At, Mail, Fits, AdminAssumption
  <2> QED BY <1>2, <1>4, <2>1 DEF Fits, Revoke, LastOwner, Owners
<1> QED BY <1>1, <1>3, <1>4, Changes

LEMMA SetIInv ==
  ASSUME AdminAssumption, IInv, NEW r \in Request, NEW e \in Email, NEW o \in Roles \cup {"none"},
         Set(r, e, o), UNCHANGED <<row, pending, bot, process>>
  PROVE  IInv'
<1>1. /\ req' \in [Request -> Requests] /\ Fits(req[r])'
      /\ \A s \in Request \ {r} : IF s \in Writers THEN Outdated(s) ELSE req'[s] = req[s]
  BY EndsOutdating DEF Set
<1>2. Tables'
  BY DEF Set, IInv, TypeOK, Tables, process
<1>3. ASSUME NEW s \in Request \ Writers, NEW q, q = req[s], Fits(q) PROVE Fits(q)'
  <2>1. q.pc # "write"
    BY <1>3 DEF Writers, At
  <2> QED BY <1>3, <2>1 DEF Fits
<1> QED BY <1>1, <1>2, <1>3, Changes

LEMMA MemberIInv ==
  ASSUME AdminAssumption, IInv, NEW r \in Request, GrantCreator(r) \/ WriteMember(r)
  PROVE  IInv'
<1>1. CASE End(r) /\ UNCHANGED role
  <2>1. Same
    BY <1>1 DEF GrantCreator, WriteMember, Same, IInv, TypeOK, process
  <2> QED BY <1>1, <2>1, Ends
<1>2. CASE GrantCreator(r) /\ Set(r, Mail(r), "owner")
  <2>1. Mail(r) \in Email
    BY <1>2 DEF GrantCreator, IInv, Fits, At, Mail, AdminAssumption
  <2> QED BY <1>2, <2>1, SetIInv DEF GrantCreator, Roles
<1>3. CASE WriteMember(r) /\ Set(r, req[r].target, req[r].role)
  <2>1. req[r].target \in Email /\ req[r].role \in Roles \cup {"none"}
    BY DEF IInv, TypeOK, Requests
  <2> QED BY <1>3, <2>1, SetIInv DEF WriteMember
<1> QED BY <1>1, <1>2, <1>3 DEF GrantCreator, WriteMember

LEMMA ActivateIInv == ASSUME AdminAssumption, IInv, NEW r \in Request, Activate(r) PROVE IInv'
<1> DEFINE e == Mail(r)
           to == [Idle EXCEPT !.pc = "handle", !.who = req[r].who, !.super = req[r].seen.super]
           others == Readers("activate", e) \cup Writers
<1>0. Fits(req[r]) /\ req[r] \in Requests /\ At(r, "activate")
  BY DEF IInv, Fits, Activate
<1>1. e \in Email /\ req[r].who \in Person
  BY <1>0 DEF Fits, At, Mail, AdminAssumption
<1>2. CASE Exists(e)
  <2>1. Same /\ End(r)
    BY <1>2 DEF Activate, Same, IInv, TypeOK, process
  <2> QED BY <2>1, Ends
<1>3. CASE ~ Exists(e)
  <2>1. /\ row' = [row EXCEPT ![e] = [link |-> req[r].who, active |-> TRUE,
                                      super |-> req[r].seen.super]]
        /\ role' = [role EXCEPT ![e] = IF bot = "none" THEN "none" ELSE req[r].seen.role]
        /\ pending' = [pending EXCEPT ![e] = Consumed(e)]
        /\ UNCHANGED <<bot, process>>
    BY <1>3 DEF Activate
  <2>2. req' = [s \in Request |-> IF s = r THEN to
                                  ELSE IF s \in others THEN [req[s] EXCEPT !.stale = TRUE]
                                  ELSE req[s]]
    BY <1>3 DEF Activate
  <2>3. req[r].seen.super \in BOOLEAN /\ req[r].seen.role \in Roles \cup {"none"}
    BY <1>0 DEF Requests, Invites
  <2>4. row' \in [Email -> Rows] /\ \A f \in Email \ {e} : row'[f] = row[f]
    BY <1>1, <2>1, <2>3 DEF IInv, TypeOK, Rows
  <2>5. role' \in [Email -> Roles \cup {"none"}]
    BY <2>1, <2>3 DEF IInv, TypeOK
  <2>6. Consumed(e) \in Invites
    BY <1>1 DEF Consumed, IInv, TypeOK, Invites
  <2>7. pending' \in [Email -> Invites] /\ \A f \in Email \ {e} : pending'[f] = pending[f]
    BY <2>1, <2>6 DEF IInv, TypeOK
  <2>8. Tables'
    BY <2>1, <2>4, <2>5, <2>7 DEF IInv, TypeOK, Tables, process
  <2>9. to \in Requests /\ to.pc = "handle" /\ to.who \in Person
    <3>1. Idle \in Requests
      BY IdleFits DEF Fits
    <3> QED BY <1>1, <2>3, <3>1, ZenonT(40) DEF Requests
  <2>10. \A s \in Request : req[s] \in Requests /\ [req[s] EXCEPT !.stale = TRUE] \in Requests
    BY ZenonT(40) DEF IInv, TypeOK, Requests
  <2> HIDE DEF to, others
  <2>11. req' \in [Request -> Requests]
    BY <2>2, <2>9, <2>10
  <2>12. Fits(req[r])'
    <3>1. req'[r] = to
      BY <2>2
    <3> QED BY <2>9, <3>1 DEF Fits
  <2>13. \A s \in Request \ {r} : IF s \in others THEN Outdated(s) ELSE req'[s] = req[s]
    BY <2>2 DEF Outdated
  <2>14. ASSUME NEW s \in Request \ others, NEW q, q = req[s], Fits(q) PROVE Fits(q)'
    <3>1. q.pc # "write" /\ (q.pc = "activate" => EmailOf[q.who] \in Email \ {e})
      BY <2>14 DEF others, Readers, Writers, At, Mail, Fits, AdminAssumption
    <3>2. ASSUME ~ q.stale, q.pc = "relink" PROVE AllowRelink \/ row'[EmailOf[q.who]].link = q.who
      <4>1. q.who \in Person /\ EmailOf[q.who] \in Email
        BY <2>14, <3>2 DEF Fits, AdminAssumption
      <4>2. CASE EmailOf[q.who] = e
        <5>1. row[e].link = Nobody /\ Nobody # q.who
          BY <1>3, <4>1 DEF Exists, Absent, AdminAssumption
        <5> QED BY <2>14, <3>2, <4>2, <5>1 DEF Fits
      <4>3. CASE EmailOf[q.who] # e
        BY <2>4, <2>14, <3>2, <4>1, <4>3 DEF Fits
      <4> QED BY <4>2, <4>3
    <3> QED BY <2>7, <2>14, <3>1, <3>2 DEF Fits
  <2> QED BY <2>8, <2>11, <2>12, <2>13, <2>14, Changes
<1> QED BY <1>2, <1>3

LEMMA NextIInv == ASSUME AdminAssumption, IInv, [Next]_vars PROVE IInv'
<1>1. CASE UNCHANGED vars
  BY <1>1 DEF vars, tables, process, IInv, TypeOK, Fits, LastOwner, Owners
<1>2. ASSUME NEW r \in Request, Resolve(r) PROVE IInv'
  BY <1>2, ResolveMoves, TouchIInv, ActivateIInv DEF Resolve
<1>3. ASSUME NEW r \in Request, Accounts(r) PROVE IInv'
  BY <1>3, SetFlagsIInv, DeleteIInv, AdminMoves, InviteIInv, RevokeIInv DEF Accounts
<1>4. ASSUME NEW r \in Request, Members(r) PROVE IInv'
  <2>1. \A e \in Email : Authorise(r, e, "none", FALSE) =>
           \E o \in Roles \cup {"none"}, new \in BOOLEAN : Authorise(r, e, o, new)
    OBVIOUS
  <2> QED BY <1>4, <2>1, MemberMoves, MemberIInv DEF Members
<1> QED BY <1>1, <1>2, <1>3, <1>4, BootIInv, CrashIInv DEF Next

-----------------------------------------------------------------------------
(* What the steps may never do.  Few of them write an account, and few a role. *)
LEMMA TableSteps ==
  ASSUME [Next]_vars
  PROVE  \/ UNCHANGED <<row, role>>
         \/ \E r \in Request :
              \/ Touch(r) \/ Activate(r) \/ GrantCreator(r) \/ WriteMember(r)
              \/ SetSuper(r)
              \/ \E e \in Email : \/ \E active, super \in BOOLEAN : SetActive(r, e, active, super)
                                  \/ DeleteAdmin(r, e)
BY ZenonT(40)
   DEF Next, vars, tables, process, Boot, Crash, Resolve, Accounts, Members, Begin, FindLink, FindEmail,
       FindInvite, Leave, CheckInvite, CheckRevoke, Invite, Revoke, CreateBot,
       AuthoriseClose, CloseBot, Authorise, ReadMember

(* Members are admins.                                                       *)
Known == \A e \in Email : role[e] # "none" => Exists(e)

LEMMA KnownStep == ASSUME AdminAssumption, IInv, Known, [Next]_vars PROVE Known'
<1>1. CASE UNCHANGED <<row, role>>
  BY <1>1 DEF Known, Exists
<1>2. ASSUME NEW r \in Request, Touch(r) PROVE Known'
  <2>1. req[r].who \in Person /\ UNCHANGED role
    BY <1>2 DEF Touch, IInv, Fits, At
  <2>2. \A e \in Email : Exists(e) => Exists(e)'
    <3>1. \A e \in Email : Exists(e) => row[e] \in [link : Person, active : BOOLEAN, super : BOOLEAN]
      BY DEF Exists, IInv, TypeOK, Rows
    <3>2. \A e \in Email : Exists(e) => row'[e] = row[e] \/ row'[e].link \in {req[r].who, row[e].link}
      BY <1>2, <3>1 DEF Touch, IInv, TypeOK
    <3>3. Nobody \notin Person /\ Absent.link = Nobody
      BY DEF Absent, AdminAssumption
    <3>4. ASSUME NEW e \in Email, Exists(e) PROVE row'[e] # Absent
      <4>1. CASE row'[e] = row[e]
        BY <3>4, <4>1 DEF Exists
      <4>2. CASE row'[e].link \in {req[r].who, row[e].link}
        BY <2>1, <3>1, <3>3, <3>4, <4>2
      <4> QED BY <3>2, <3>4, <4>1, <4>2
    <3> QED BY <3>4 DEF Exists
  <2> QED BY <2>1, <2>2 DEF Known
<1>3. ASSUME NEW r \in Request, Activate(r) PROVE Known'
  <2>1. req[r].who \in Person /\ Mail(r) \in Email
    BY <1>3 DEF Activate, IInv, Fits, At, Mail, AdminAssumption
  <2>2. CASE Exists(Mail(r))
    BY <1>3, <2>2 DEF Activate, Known, Exists
  <2>3. CASE ~ Exists(Mail(r))
    <3>1. row' = [row EXCEPT ![Mail(r)] = [link |-> req[r].who, active |-> TRUE,
                                           super |-> req[r].seen.super]]
          /\ \A e \in Email \ {Mail(r)} : role'[e] = role[e]
      BY <1>3, <2>1, <2>3 DEF Activate, IInv, TypeOK
    <3>2. row'[Mail(r)].link = req[r].who /\ \A e \in Email \ {Mail(r)} : row'[e] = row[e]
      BY <2>1, <3>1 DEF IInv, TypeOK
    <3>3. row'[Mail(r)] # Absent
      BY <2>1, <3>2 DEF Absent, AdminAssumption
    <3>4. \A e \in Email : role'[e] # "none" => row'[e] # Absent
      BY <3>1, <3>2, <3>3 DEF Known, Exists
    <3> QED BY <3>4 DEF Known, Exists
  <2> QED BY <2>2, <2>3
<1>4. ASSUME NEW r \in Request, GrantCreator(r) \/ WriteMember(r) PROVE Known'
  <2>1. UNCHANGED row
    BY <1>4 DEF GrantCreator, WriteMember
  <2>2. CASE UNCHANGED role
    BY <2>1, <2>2 DEF Known, Exists
  <2>3. CASE ~ UNCHANGED role
    <3>1. PICK e, o : role' = [role EXCEPT ![e] = o] /\ (Exists(e) \/ role[e] # "none")
      BY <1>4, <2>3 DEF GrantCreator, WriteMember, Set
    <3>2. \A f \in Email : row'[f] = row[f] /\ (f # e => role'[f] = role[f])
      BY <2>1, <3>1 DEF IInv, TypeOK
    <3>3. ASSUME NEW f \in Email, role'[f] # "none" PROVE row[f] # Absent
      BY <3>1, <3>2, <3>3 DEF Known, Exists
    <3> QED BY <3>2, <3>3 DEF Known, Exists
  <2> QED BY <2>2, <2>3
<1>5. ASSUME NEW r \in Request,
             (\E e \in Email, active, super \in BOOLEAN : SetActive(r, e, active, super)) \/ SetSuper(r)
      PROVE  Known'
  <2>1. UNCHANGED role
    BY <1>5 DEF SetActive, SetSuper
  <2>2. ASSUME NEW e \in Email, Exists(e) PROVE row'[e] # Absent
    <3>1. row[e] \in [link : Person, active : BOOLEAN, super : BOOLEAN] /\ row[e].link # Nobody
      BY <2>2 DEF Exists, IInv, TypeOK, Rows, AdminAssumption
    <3>2. row'[e].link = row[e].link
      <4>1. ASSUME NEW f \in Email, NEW active \in BOOLEAN, NEW super \in BOOLEAN, SetActive(r, f, active, super)
            PROVE  row'[e].link = row[e].link
        BY <3>1, <4>1 DEF SetActive, IInv, TypeOK
      <4>2. CASE SetSuper(r)
        BY <4>2, SuperSet
      <4> QED BY <1>5, <4>1, <4>2
    <3> QED BY <3>1, <3>2 DEF Absent
  <2> QED BY <2>1, <2>2 DEF Known, Exists
<1>6. ASSUME NEW r \in Request, NEW e \in Email, DeleteAdmin(r, e) PROVE Known'
  BY <1>6 DEF DeleteAdmin, Known, Exists, IInv, TypeOK
<1> QED BY <1>1, <1>2, <1>3, <1>4, <1>5, <1>6, TableSteps

LEMMA TheOnlySuper ==
  ASSUME NEW e \in Email, Supers = {e}
  PROVE  LastSuperadmin(e)
BY FS_Singleton DEF LastSuperadmin

(* Whoever acts as a superadmin was one, one handler is on the event loop, and
   between its statements an update leaves another superadmin.               *)
Charge ==
  /\ \A r \in Request : req[r].super => Supers # {}
  /\ \A r \in Request : At(r, "flags") /\ ~ req[r].new => Supers \ {req[r].target} # {}
  /\ \A r, s \in Request : req[r].pc \in OnLoop /\ req[s].pc \in OnLoop => r = s

LEMMA SuperStays ==
  ASSUME AdminAssumption, IInv, Charge, [Next]_vars, Supers # {}
  PROVE  Supers' # {}
<1>1. CASE UNCHANGED row
  BY <1>1 DEF Supers
<1>2. ASSUME NEW r \in Request, Touch(r) PROVE Supers' # {}
  <2>1. \A e \in Email : row'[e].active = row[e].active /\ row'[e].super = row[e].super
    BY <1>2 DEF Touch, IInv, TypeOK, Exists, Rows
  <2> QED BY <2>1 DEF Supers
<1>3. ASSUME NEW r \in Request, Activate(r) PROVE Supers' # {}
  <2>1. \A e \in Supers : row'[e] = row[e]
    BY <1>3 DEF Activate, IInv, TypeOK, Exists, Absent, Supers
  <2> QED BY <2>1 DEF Supers
<1>4. ASSUME NEW r \in Request, NEW e \in Email, NEW active \in BOOLEAN, NEW super \in BOOLEAN,
             SetActive(r, e, active, super)
      PROVE  Supers' # {}
  <2>1. \A f \in Email \ {e} : row'[f] = row[f]
    BY <1>4 DEF SetActive, IInv, TypeOK
  <2>2. CASE Supers = {e}
    <3>1. active /\ row'[e].active = active /\ row'[e].super = row[e].super
      BY <1>4, <2>2, TheOnlySuper DEF SetActive, IInv, TypeOK, Rows, Absent
    <3> QED BY <2>2, <3>1 DEF Supers
  <2>3. CASE Supers # {e}
    <3>1. PICK f \in Supers : f # e
      BY <2>3
    <3> QED BY <2>1, <3>1 DEF Supers
  <2> QED BY <2>2, <2>3
<1>7. ASSUME NEW r \in Request, SetSuper(r) PROVE Supers' # {}
  <2> DEFINE e == req[r].target
  <2>1. /\ e \in Email /\ req[r].new \in BOOLEAN
        /\ \A f \in Email \ {e} : row'[f] = row[f]
        /\ row'[e].active = row[e].active /\ (Exists(e) => row'[e].super = req[r].new)
    BY <1>7, SuperSet
  <2>2. CASE Supers = {e}
    <3>1. req[r].new
      BY <1>7, <2>2 DEF Charge, SetSuper
    <3>2. row[e].active /\ row[e].super
      BY <2>2 DEF Supers
    <3>3. Exists(e)
      BY <3>2 DEF Exists, Absent
    <3>4. row'[e].active /\ row'[e].super
      <4>1. row'[e].active = row[e].active /\ row'[e].super = req[r].new
        BY <2>1, <3>3
      <4>2. row[e].active = TRUE /\ req[r].new = TRUE
        <5>1. row[e] \in [link : Person, active : BOOLEAN, super : BOOLEAN]
          BY <2>1, <3>3 DEF IInv, TypeOK, Rows, Exists
        <5> QED BY <2>1, <3>1, <3>2, <5>1
      <4> QED BY <4>1, <4>2
    <3> QED BY <2>1, <3>4 DEF Supers
  <2>3. CASE Supers # {e}
    <3>1. PICK f \in Supers : f # e
      BY <2>3
    <3> QED BY <2>1, <3>1 DEF Supers
  <2> QED BY <2>2, <2>3
<1>5. ASSUME NEW r \in Request, NEW e \in Email, DeleteAdmin(r, e) PROVE Supers' # {}
  <2>1. PICK f \in Supers : f # e
    BY <1>5, TheOnlySuper DEF DeleteAdmin
  <2> QED BY <1>5, <2>1 DEF DeleteAdmin, Supers, IInv, TypeOK
<1>6. ASSUME NEW r \in Request, GrantCreator(r) \/ WriteMember(r) PROVE UNCHANGED row
  BY <1>6 DEF GrantCreator, WriteMember
<1> QED BY <1>1, <1>2, <1>3, <1>4, <1>5, <1>6, <1>7, TableSteps

(* What the steps other than these do to the requests.                       *)
Quiet ==
  \A s \in Request :
    /\ req'[s].super => req[s].super
    /\ req'[s].pc \in OnLoop => req'[s] = req[s]

LEMMA QuietSteps ==
  ASSUME AdminAssumption, IInv, [Next]_vars
  PROVE  \/ Quiet
         \/ \E r \in Request :
              \/ Touch(r) \/ Activate(r)
              \/ \E e \in Email : \/ \E active, super \in BOOLEAN : SetActive(r, e, active, super)
                                  \/ CheckInvite(r, e) \/ CheckRevoke(r, e)
<1>0. Idle.super = FALSE /\ Idle.pc = "idle" /\ "idle" \notin OnLoop
  BY DEF Idle, OnLoop
<1>1. ASSUME NEW r \in Request, End(r) PROVE Quiet
  BY <1>0, <1>1 DEF End, IInv, TypeOK, Quiet
<1>2. ASSUME NEW r \in Request, NEW others, EndOutdating(r, others),
             \A s \in others : req[s].pc \notin OnLoop
      PROVE  Quiet
  <2>1. ASSUME NEW s \in Request PROVE /\ req'[s].super => req[s].super
                                       /\ req'[s].pc \in OnLoop => req'[s] = req[s]
    <3>1. req[s] \in Requests
      BY DEF IInv, TypeOK
    <3>2. req'[s] = Idle \/ req'[s] = req[s] \/ (s \in others /\ req'[s] = [req[s] EXCEPT !.stale = TRUE])
      BY <1>2 DEF EndOutdating
    <3>3. [req[s] EXCEPT !.stale = TRUE].super = req[s].super /\ [req[s] EXCEPT !.stale = TRUE].pc = req[s].pc
      BY <3>1 DEF Requests
    <3> QED BY <1>0, <1>2, <3>2, <3>3
  <2> QED BY <2>1 DEF Quiet
<1>3. ASSUME NEW r \in Request, NEW pc, Goto(r, pc), pc \notin OnLoop PROVE Quiet
  <2>1. req[r] \in Requests /\ req' = [req EXCEPT ![r] = [req[r] EXCEPT !.pc = pc]]
    BY <1>3 DEF Goto, IInv, TypeOK
  <2> QED BY <1>3, <2>1 DEF Quiet, IInv, TypeOK, Requests
<1>4. CASE UNCHANGED vars \/ Boot
  BY <1>4 DEF Boot, vars, Quiet
<1>5. CASE Crash
  BY <1>0, <1>5 DEF Crash, Quiet
<1>6. ASSUME NEW r \in Request, NEW p \in Person, Begin(r, p) PROVE Quiet
  <2>1. req'[r] = [Idle EXCEPT !.pc = "link", !.who = p] /\ \A s \in Request \ {r} : req'[s] = req[s]
    BY <1>6 DEF Begin, IInv, TypeOK
  <2>2. req'[r].super = FALSE /\ req'[r].pc = "link"
    BY <2>1 DEF Idle
  <2> QED BY <2>1, <2>2 DEF Quiet, OnLoop
<1>7. ASSUME NEW r \in Request, FindLink(r) \/ FindEmail(r) \/ Leave(r) PROVE Quiet
  BY <1>1, <1>3, <1>7 DEF FindLink, FindEmail, Leave, OnLoop
<1>8. ASSUME NEW r \in Request, FindInvite(r) PROVE Quiet
  <2>1. CASE End(r)
    BY <1>1, <2>1
  <2>2. CASE req' = [req EXCEPT ![r] = [req[r] EXCEPT !.pc = "activate", !.seen = pending[Mail(r)]]]
    <3>1. req[r] \in Requests
      BY DEF IInv, TypeOK
    <3>2. req'[r].super = req[r].super /\ req'[r].pc = "activate" /\ \A s \in Request \ {r} : req'[s] = req[s]
      BY <2>2, <3>1 DEF IInv, TypeOK, Requests
    <3> QED BY <3>2 DEF Quiet, OnLoop
  <2> QED BY <1>8, <2>1, <2>2 DEF FindInvite
<1>9. ASSUME NEW r \in Request, NEW e \in Email, DeleteAdmin(r, e) PROVE Quiet
  BY <1>2, <1>9 DEF DeleteAdmin, Readers, Writers, At, OnLoop
<1>10. ASSUME NEW r \in Request, SetSuper(r) \/ Invite(r) PROVE Quiet
  BY <1>1, <1>10 DEF SetSuper, Invite
<1>11. ASSUME NEW r \in Request, Revoke(r) PROVE Quiet
  BY <1>2, <1>11 DEF Revoke, Readers, At, OnLoop
<1>12. ASSUME NEW r \in Request, NEW e, NEW o, Set(r, e, o) PROVE Quiet
  BY <1>2, <1>12 DEF Set, Writers, At, OnLoop
<1>13. ASSUME NEW r \in Request, GrantCreator(r) \/ WriteMember(r) PROVE Quiet
  BY <1>1, <1>12, <1>13 DEF GrantCreator, WriteMember
<1>14. ASSUME NEW r \in Request, CreateBot(r) \/ AuthoriseClose(r) \/ CloseBot(r) \/ ReadMember(r) PROVE Quiet
  BY <1>1, <1>3, <1>14 DEF CreateBot, AuthoriseClose, CloseBot, ReadMember, OnLoop
<1>15. ASSUME NEW r \in Request, NEW e, NEW o, NEW new, Authorise(r, e, o, new) PROVE Quiet
  <2>1. req[r] \in Requests
    BY DEF IInv, TypeOK
  <2>2. req'[r].super = req[r].super /\ req'[r].pc = "member" /\ \A s \in Request \ {r} : req'[s] = req[s]
    BY <1>15, <2>1 DEF Authorise, IInv, TypeOK, Requests
  <2> QED BY <2>2 DEF Quiet, OnLoop
<1> QED
  BY <1>4, <1>5, <1>6, <1>7, <1>8, <1>9, <1>10, <1>11, <1>13, <1>14, <1>15
  DEF Next, Resolve, Accounts, Members

(* A handler goes on the event loop while no other is on it.                 *)
LEMMA TakesLoop ==
  ASSUME IInv, Charge, NEW r \in Request, NEW q \in Requests, req' = [req EXCEPT ![r] = q],
         Superadmin(r), q.super = req[r].super, Supers # {} => Supers' # {},
         q.pc = "flags" /\ ~ q.new => Supers' \ {q.target} # {}
  PROVE  Charge'
<1>1. req'[r] = q /\ \A s \in Request \ {r} : req'[s] = req[s] /\ req[s].pc \notin OnLoop
  BY DEF IInv, TypeOK, Superadmin
<1>2. \A s \in Request : req'[s].super => Supers' # {}
  BY <1>1 DEF Charge
<1>3. \A s \in Request : req'[s].pc = "flags" /\ ~ req'[s].new => Supers' \ {req'[s].target} # {}
  BY <1>1 DEF OnLoop
<1>4. \A s, t \in Request : req'[s].pc \in OnLoop /\ req'[t].pc \in OnLoop => s = t
  BY <1>1
<1> QED BY <1>2, <1>3, <1>4 DEF Charge, At

LEMMA QuietCharge ==
  ASSUME IInv, Charge, Quiet, Supers # {} => Supers' # {},
         \A s \in Request : At(s, "flags") /\ req'[s] = req[s] /\ Supers \ {req[s].target} # {} =>
                             Supers' \ {req[s].target} # {}
  PROVE  Charge'
<1>1. \A s \in Request : req'[s].super => Supers' # {}
  BY DEF Charge, Quiet
<1>2. \A s \in Request : req'[s].pc = "flags" /\ ~ req'[s].new => Supers' \ {req'[s].target} # {}
  BY DEF Charge, Quiet, At, OnLoop
<1>3. \A s, t \in Request : req'[s].pc \in OnLoop /\ req'[t].pc \in OnLoop => s = t
  BY DEF Charge, Quiet
<1> QED BY <1>1, <1>2, <1>3 DEF Charge, At

LEMMA ChargeStep == ASSUME AdminAssumption, IInv, Charge, [Next]_vars PROVE Charge'
<1>0. Supers # {} => Supers' # {}
  BY SuperStays
<1>1. ASSUME NEW r \in Request, NEW e \in Email, CheckInvite(r, e) \/ CheckRevoke(r, e) PROVE Charge'
  <2>1. PICK pc \in {"create", "revoke"} :
          Superadmin(r) /\ UNCHANGED row /\ req' = [req EXCEPT ![r] = [req[r] EXCEPT !.pc = pc, !.target = e]]
    BY <1>1 DEF CheckInvite, CheckRevoke, tables
  <2> DEFINE q == [req[r] EXCEPT !.pc = pc, !.target = e]
  <2>2. req[r] \in Requests
    BY DEF IInv, TypeOK
  <2>3. q \in Requests /\ q.super = req[r].super /\ q.pc # "flags"
    BY <2>2 DEF Requests, OnLoop
  <2> QED BY <1>0, <2>1, <2>3, TakesLoop
<1>2. ASSUME NEW r \in Request, NEW e \in Email, NEW active \in BOOLEAN, NEW super \in BOOLEAN,
             SetActive(r, e, active, super)
      PROVE  Charge'
  <2> DEFINE q == [req[r] EXCEPT !.pc = "flags", !.target = e, !.new = super]
  <2>1. req[r] \in Requests
    BY DEF IInv, TypeOK
  <2>2. q \in Requests /\ q.super = req[r].super /\ q.target = e /\ q.new = super
    BY <2>1 DEF Requests, OnLoop
  <2>3. Superadmin(r) /\ req' = [req EXCEPT ![r] = q] /\ (LastSuperadmin(e) => super)
    BY <1>2 DEF SetActive
  <2>4. ASSUME ~ super PROVE Supers' \ {e} # {}
    <3>1. Supers # {} /\ Supers # {e}
      BY <2>3, <2>4, TheOnlySuper DEF Charge, Superadmin
    <3>2. PICK f \in Supers : f # e
      BY <3>1
    <3>3. row'[f] = row[f]
      BY <1>2, <3>2 DEF SetActive, IInv, TypeOK, Supers
    <3> QED BY <3>2, <3>3 DEF Supers
  <2> QED BY <1>0, <2>2, <2>3, <2>4, TakesLoop
<1>3. ASSUME NEW r \in Request, Touch(r) PROVE Charge'
  <2>1. \A e \in Email : row'[e].active = row[e].active /\ row'[e].super = row[e].super
    BY <1>3 DEF Touch, IInv, TypeOK, Exists, Rows
  <2>2. Supers' = Supers
    BY <2>1 DEF Supers
  <2>3. \A s \in Request \ {r} : req'[s] = req[s]
    BY <1>3 DEF Touch, SignedIn, End, IInv, TypeOK
  <2>4. req'[r].pc \notin OnLoop /\ (req'[r].super => Supers # {})
    <3>1. CASE End(r)
      BY <3>1 DEF End, Idle, OnLoop, IInv, TypeOK
    <3>2. CASE SignedIn(r, row[Mail(r)].super) /\ row[Mail(r)].active
      <4>1. Mail(r) \in Email
        BY <1>3 DEF Touch, IInv, Fits, At, Mail, AdminAssumption
      <4>2. req'[r] = [Idle EXCEPT !.pc = "handle", !.who = req[r].who, !.super = row[Mail(r)].super]
        BY <3>2 DEF SignedIn, IInv, TypeOK
      <4>3. req'[r].pc = "handle" /\ req'[r].super = row[Mail(r)].super
        BY <4>2 DEF Idle
      <4> QED BY <3>2, <4>1, <4>3 DEF Supers, OnLoop
    <3> QED BY <1>3, <3>1, <3>2 DEF Touch
  <2>5. \A s \in Request : req'[s].super => Supers' # {}
    BY <2>2, <2>3, <2>4 DEF Charge
  <2>6. \A s \in Request : req'[s].pc = "flags" /\ ~ req'[s].new => Supers' \ {req'[s].target} # {}
    BY <2>2, <2>3, <2>4 DEF Charge, At, OnLoop
  <2>7. \A s, t \in Request : req'[s].pc \in OnLoop /\ req'[t].pc \in OnLoop => s = t
    BY <2>3, <2>4 DEF Charge
  <2> QED BY <2>5, <2>6, <2>7 DEF Charge, At
<1>4. ASSUME NEW r \in Request, Activate(r) PROVE Charge'
  <2> DEFINE m == Mail(r)
  <2>0. m \in Email /\ At(r, "activate") /\ req[r] \in Requests
    BY <1>4 DEF Activate, IInv, TypeOK, Fits, At, Mail, AdminAssumption
  <2>1. CASE Exists(m)
    <3>1. End(r) /\ UNCHANGED row
      BY <1>4, <2>1 DEF Activate
    <3>2. Supers' = Supers
      BY <3>1 DEF Supers
    <3>3. Quiet
      BY <3>1 DEF End, Idle, OnLoop, IInv, TypeOK, Quiet
    <3> QED BY <1>0, <3>2, <3>3, QuietCharge
  <2>2. CASE ~ Exists(m)
    <3>1. row' = [row EXCEPT ![m] = [link |-> req[r].who, active |-> TRUE, super |-> req[r].seen.super]]
      BY <1>4, <2>2 DEF Activate
    <3>2. row'[m].active /\ row'[m].super = req[r].seen.super /\ \A f \in Email \ {m} : row'[f] = row[f]
      BY <2>0, <3>1 DEF IInv, TypeOK
    <3>3. Supers \subseteq Supers'
      BY <2>2, <3>2 DEF Supers, Exists, Absent
    <3>4. req'[r] = [Idle EXCEPT !.pc = "handle", !.who = req[r].who, !.super = req[r].seen.super]
      BY <1>4, <2>2 DEF Activate
    <3>5. req'[r].pc = "handle" /\ req'[r].super = req[r].seen.super
      BY <3>4 DEF Idle
    <3>6. ASSUME NEW s \in Request \ {r}
          PROVE  /\ req'[s].super = req[s].super /\ req'[s].pc = req[s].pc
                 /\ req'[s].new = req[s].new /\ req'[s].target = req[s].target
      <4>1. req'[s] = req[s] \/ req'[s] = [req[s] EXCEPT !.stale = TRUE]
        BY <1>4, <2>2 DEF Activate
      <4>2. req[s] \in Requests
        BY DEF IInv, TypeOK
      <4> QED BY <4>1, <4>2 DEF Requests
    <3>7. req'[r].super => m \in Supers'
      BY <2>0, <3>2, <3>5 DEF Supers
    <3>8. \A s \in Request : req'[s].super => Supers' # {}
      BY <3>3, <3>6, <3>7 DEF Charge
    <3>9. \A s \in Request : req'[s].pc = "flags" /\ ~ req'[s].new => Supers' \ {req'[s].target} # {}
      BY <3>3, <3>5, <3>6 DEF Charge, At
    <3>10. \A s, t \in Request : req'[s].pc \in OnLoop /\ req'[t].pc \in OnLoop => s = t
      BY <3>5, <3>6 DEF Charge, OnLoop
    <3> QED BY <3>8, <3>9, <3>10 DEF Charge, At
  <2> QED BY <2>1, <2>2
<1>5. ASSUME Quiet PROVE Charge'
  <2>1. CASE UNCHANGED row
    <3>1. Supers' = Supers
      BY <2>1 DEF Supers
    <3> QED BY <1>0, <1>5, <3>1, QuietCharge
  <2>2. ASSUME NEW r \in Request, SetSuper(r) PROVE Charge'
    <3>1. At(r, "flags") /\ req'[r] = Idle
      BY <2>2 DEF SetSuper, End, IInv, TypeOK
    <3>2. \A s \in Request : ~ (At(s, "flags") /\ req'[s] = req[s])
      BY <3>1 DEF Charge, At, OnLoop, Idle
    <3> QED BY <1>0, <1>5, <3>2, QuietCharge
  <2>3. ASSUME NEW r \in Request, NEW e \in Email, DeleteAdmin(r, e) PROVE Charge'
    <3>1. \A s \in Request : ~ At(s, "flags")
      BY <2>3 DEF DeleteAdmin, Superadmin, At, OnLoop
    <3> QED BY <1>0, <1>5, <3>1, QuietCharge
  <2>4. ASSUME NEW r \in Request, GrantCreator(r) \/ WriteMember(r) PROVE UNCHANGED row
    BY <2>4 DEF GrantCreator, WriteMember
  <2> QED BY <1>2, <1>3, <1>4, <2>1, <2>2, <2>3, <2>4, TableSteps
<1> QED BY <1>1, <1>2, <1>3, <1>4, <1>5, QuietSteps

(* A change of a member that is not out of date leaves an owner.             *)
LEMMA ChangeLeavesOwner ==
  ASSUME AdminAssumption, IInv, NEW r \in Request, WriteMember(r), ~ req[r].stale,
         Owners # {}
  PROVE  Owners' # {}
<1> DEFINE e == req[r].target
<1>1. Fits(req[r]) /\ req[r].target \in Email
  BY DEF IInv, Fits, Requests
<1>2. CASE UNCHANGED role
  BY <1>2 DEF Owners
<1>3. CASE role' = [role EXCEPT ![e] = req[r].role] /\ (req[r].new => role[e] = "none")
  <2>1. \A f \in Email \ {e} : role'[f] = role[f]
    BY <1>3 DEF IInv, TypeOK
  <2>2. CASE Owners = {e}
    <3>1. LastOwner(e) /\ ~ req[r].new
      BY <1>3, <2>2, FS_Singleton DEF LastOwner, Owners
    <3>2. req[r].role = "owner"
      BY <1>1, <3>1 DEF Fits, WriteMember, At
    <3> QED BY <1>1, <1>3, <3>2 DEF Owners, IInv, TypeOK
  <2>3. CASE Owners # {e}
    <3>1. PICK f \in Owners : f # e
      BY <2>3
    <3> QED BY <2>1, <3>1 DEF Owners
  <2> QED BY <2>2, <2>3
<1> QED BY <1>2, <1>3 DEF WriteMember, Set

LEMMA OwnerStays ==
  ASSUME AdminAssumption, IInv, Known, [Next]_vars, Owners # {}, Owners' = {}
  PROVE  \/ \E e \in Email : Exists(e) /\ ~ Exists(e)'
         \/ \E r \in Request : At(r, "write") /\ req[r].stale /\ At(r, "idle")'
<1>1. CASE UNCHANGED role
  BY <1>1 DEF Owners
<1>2. ASSUME NEW r \in Request, Activate(r) PROVE FALSE
  <2>1. \A e \in Owners : role'[e] = role[e]
    BY <1>2 DEF Activate, Known, Owners, IInv, TypeOK
  <2> QED BY <2>1 DEF Owners
<1>3. ASSUME NEW r \in Request, GrantCreator(r), ~ UNCHANGED role PROVE FALSE
  <2>1. Mail(r) \in Email /\ role[Mail(r)] = "none" /\ role' = [role EXCEPT ![Mail(r)] = "owner"]
    BY <1>3 DEF GrantCreator, Set, Exists, IInv, Fits, At, Mail, AdminAssumption
  <2>2. role'[Mail(r)] = "owner"
    BY <2>1 DEF IInv, TypeOK
  <2> QED BY <2>1, <2>2 DEF Owners
<1>4. ASSUME NEW r \in Request, WriteMember(r)
      PROVE  At(r, "write") /\ req[r].stale /\ At(r, "idle")'
  <2>1. At(r, "write") /\ req[r].stale
    BY <1>4, ChangeLeavesOwner DEF WriteMember, IInv, TypeOK, Requests
  <2>2. req'[r] = Idle
    BY <1>4 DEF WriteMember, Set, EndOutdating, End, IInv, TypeOK
  <2> QED BY <2>1, <2>2 DEF At, Idle
<1>5. ASSUME NEW r \in Request, NEW e \in Email, DeleteAdmin(r, e)
      PROVE  Exists(e) /\ ~ Exists(e)'
  BY <1>5 DEF DeleteAdmin, Superadmin, Exists, IInv, TypeOK
<1>6. ASSUME NEW r \in Request, Touch(r) \/ SetSuper(r) \/ \E e \in Email, active, super \in BOOLEAN :
                                                            SetActive(r, e, active, super)
      PROVE  UNCHANGED role
  BY <1>6 DEF Touch, SetActive, SetSuper
<1> QED BY <1>1, <1>2, <1>3, <1>4, <1>5, <1>6, TableSteps

(* How an account comes to be, and stays with its person.                    *)
Invited(e) ==
  \E r \in Readers("activate", e) :
    \/ req[r].stale
    \/ /\ pending[e].state = "active" /\ pending'[e].state = "consumed"
       /\ row'[e].super = pending[e].super

LEMMA ActivateInvited ==
  ASSUME AdminAssumption, IInv, NEW r \in Request, Activate(r), ~ Exists(Mail(r))
  PROVE  Mail(r) \in Email /\ Invited(Mail(r)) /\ \A f \in Email \ {Mail(r)} : row'[f] = row[f]
<1> DEFINE e == Mail(r)
<1>1. Fits(req[r]) /\ e \in Email
  BY DEF Activate, IInv, Fits, At, Mail, AdminAssumption
<1>2. row' = [row EXCEPT ![e] = [link |-> req[r].who, active |-> TRUE, super |-> req[r].seen.super]]
      /\ pending' = [pending EXCEPT ![e] = Consumed(e)]
  BY DEF Activate
<1>3. row'[e].super = req[r].seen.super /\ pending'[e] = Consumed(e)
      /\ \A f \in Email \ {e} : row'[f] = row[f]
  BY <1>1, <1>2 DEF IInv, TypeOK
<1>4. r \in Readers("activate", e)
  BY DEF Readers, Activate
<1>5. CASE req[r].stale
  BY <1>1, <1>3, <1>4, <1>5 DEF Invited
<1>6. CASE ~ req[r].stale
  <2>1. req[r].seen = pending[e] /\ pending[e].state = "active"
    BY <1>1, <1>6 DEF Fits, Activate, At, Mail
  <2>2. pending'[e].state = "consumed"
    BY <1>1, <1>3, <2>1 DEF Consumed, IInv, TypeOK, Invites
  <2> QED BY <1>1, <1>3, <1>4, <2>1, <2>2 DEF Invited
<1> QED BY <1>5, <1>6

LEMMA InvitedStep ==
  ASSUME AdminAssumption, IInv, [Next]_vars, NEW e \in Email
  PROVE  /\ ~ Exists(e) /\ Exists(e)' => Invited(e)
         /\ Exists(e) /\ Exists(e)' => AllowRelink \/ row'[e].link = row[e].link
<1>1. CASE row'[e] = row[e]
  BY <1>1 DEF Exists
<1>2. ASSUME NEW r \in Request, Touch(r), row'[e] # row[e]
      PROVE  Exists(e) /\ (AllowRelink \/ row'[e].link = row[e].link)
  <2>1. Fits(req[r]) /\ Mail(r) \in Email /\ ~ req[r].stale /\ Exists(Mail(r))
        /\ row' = [row EXCEPT ![Mail(r)].link = IF At(r, "relink") THEN req[r].who ELSE @]
    BY <1>2 DEF Touch, IInv, Fits, At, Mail, AdminAssumption
  <2>2. e = Mail(r)
    BY <1>2, <2>1 DEF IInv, TypeOK
  <2>3. ~ At(r, "relink") \/ AllowRelink \/ row[e].link = req[r].who
    BY <2>1, <2>2 DEF Fits, At, Mail
  <2>4. row[e] \in [link : Person, active : BOOLEAN, super : BOOLEAN]
    BY <2>1, <2>2 DEF Exists, IInv, TypeOK, Rows
  <2>5. row'[e].link = IF At(r, "relink") THEN req[r].who ELSE row[e].link
    BY <2>1, <2>2, <2>4 DEF IInv, TypeOK
  <2> QED BY <2>1, <2>2, <2>3, <2>5
<1>3. ASSUME NEW r \in Request, Activate(r), row'[e] # row[e]
      PROVE  ~ Exists(e) /\ Invited(e)
  <2>1. ~ Exists(Mail(r))
    BY <1>3 DEF Activate
  <2> QED BY <1>3, <2>1, ActivateInvited
<1>4. ASSUME NEW r \in Request, row'[e] # row[e],
             (\E f \in Email, active, super \in BOOLEAN : SetActive(r, f, active, super)) \/ SetSuper(r)
      PROVE  Exists(e) /\ row'[e].link = row[e].link
  <2>1. ASSUME NEW f \in Email, NEW active \in BOOLEAN, NEW super \in BOOLEAN, SetActive(r, f, active, super)
        PROVE  Exists(e) /\ row'[e].link = row[e].link
    <3>1. e = f /\ Exists(e)
      BY <1>4, <2>1 DEF SetActive, IInv, TypeOK
    <3>2. row[e] \in [link : Person, active : BOOLEAN, super : BOOLEAN]
      BY <3>1 DEF Exists, IInv, TypeOK, Rows
    <3> QED BY <2>1, <3>1, <3>2 DEF SetActive, IInv, TypeOK
  <2>2. CASE SetSuper(r)
    BY <1>4, <2>2, SuperSet
  <2> QED BY <1>4, <2>1, <2>2
<1>5. ASSUME NEW r \in Request, NEW f \in Email, DeleteAdmin(r, f), row'[e] # row[e]
      PROVE  ~ Exists(e)'
  BY <1>5 DEF DeleteAdmin, Exists, IInv, TypeOK
<1>6. ASSUME NEW r \in Request, GrantCreator(r) \/ WriteMember(r) PROVE UNCHANGED row
  BY <1>6 DEF GrantCreator, WriteMember
<1>7. (row[e] = row'[e]) \/ ~ UNCHANGED row
  OBVIOUS
<1> QED BY <1>1, <1>2, <1>3, <1>4, <1>5, <1>6, <1>7, TableSteps

-----------------------------------------------------------------------------
(* What the specification says of every step and every state: whatever the
   numbers of admins, people, requests and restarts, and whether or not
   relinking is allowed, the tables keep their types; there stays an active
   superadmin; the bot keeps an owner, unless an admin is deleted or a change of
   a member was made although another had been since it counted the owners; an
   account is made for an open invitation, unless that was revoked or used by
   another request in between; and it stays with its person.                 *)
THEOREM AccountsHold == ASSUME AdminAssumption PROVE Spec => AccountsSound
<1>1. Init => IInv /\ Known /\ Charge
  BY InitIInv DEF Init, Known, Charge, Idle, At, OnLoop
<1>2. IInv /\ Known /\ Charge /\ [Next]_vars => (IInv /\ Known /\ Charge)'
  BY NextIInv, KnownStep, ChargeStep
<1>3. IInv => TypeOK
  BY DEF IInv
<1>4. IInv /\ Charge /\ [Next]_vars => [Supers # {} => Supers' # {}]_vars
  BY SuperStays
<1>5. IInv /\ Known /\ [Next]_vars =>
        [Owners # {} /\ Owners' = {} =>
           \/ \E e \in Email : Exists(e) /\ ~ Exists(e)'
           \/ \E r \in Request : At(r, "write") /\ req[r].stale /\ At(r, "idle")']_vars
  BY OwnerStays
<1>6. IInv /\ [Next]_vars =>
        [\A e \in Email :
           /\ ~ Exists(e) /\ Exists(e)' =>
                \E r \in Readers("activate", e) :
                  \/ req[r].stale
                  \/ /\ pending[e].state = "active" /\ pending'[e].state = "consumed"
                     /\ row'[e].super = pending[e].super
           /\ Exists(e) /\ Exists(e)' => AllowRelink \/ row'[e].link = row[e].link]_vars
  BY InvitedStep DEF Invited
<1> QED
  BY <1>1, <1>2, <1>3, <1>4, <1>5, <1>6, PTL
  DEF Spec, AccountsSound, SomeoneInCharge, LastSuperadminStays, LastOwnerStays, InvitedOnly

-----------------------------------------------------------------------------
(* SignIn.  What is loaded is what is on disk once the process is up, and a
   session's key is on disk; the password is under the key where sign-in
   looks; a login that came back is over; and the lock follows the last wrong
   password.                                                                 *)
OnDisk ==
  /\ \A s \in sessions : [key |-> s.key, public |-> TRUE] \in disk
  /\ issuer \in {"private", "public"} => SignOn!Usable = {}
  /\ issuer = "public" => \E k \in loaded : loaded = {k} /\ [key |-> k, public |-> FALSE] \in disk
  /\ issuer \in {"account", "up"} => loaded = SignOn!Usable

HasPassword ==
  /\ activated => cred["admin"].set
  /\ issuer = "up" /\ ~ activated => cred["boot"].set

Back(c) == codes[c].pc \in {"exchange", "minted"}

CameBack ==
  /\ \A c \in Code : codes[c].pc # "none" => codes[c].login \in begun
  /\ \A s \in sessions : s.login \in begun
  /\ \A c \in Code : Back(c) =>
       /\ issuer = "up" /\ states[codes[c].login] = 0
       /\ \A d \in Code : Back(d) /\ codes[d].login = codes[c].login => d = c
       /\ \A s \in sessions : s.login # codes[c].login
  /\ \A s \in sessions : states[s.login] = 0
  /\ SignOn!OneSessionEach

LockFollows ==
  /\ SignOn!Mine.fails = Len(tries)
  /\ \A i \in 1 .. Len(tries) : tries[i] <= now /\ tries[i] <= tries[Len(tries)]
  /\ Len(tries) >= Threshold => SignOn!Mine.until = tries[Len(tries)] + LockTime
  /\ SignOn!GuessesBounded

SignInInv == SignOn!TypeOK /\ OnDisk /\ HasPassword /\ CameBack /\ LockFollows

LEMMA SignInTyped ==
  ASSUME SignOn!SignInAssumption, SignOn!TypeOK
  PROVE  /\ Threshold \in Nat \ {0} /\ LockTime \in Nat \ {0} /\ now \in Nat /\ MaxTime \in Nat /\ now <= MaxTime
         /\ StateTTL \in Nat \ {0} /\ CodeTTL \in Nat \ {0} /\ TokenTTL \in Nat \ {0}
         /\ tries \in Seq(Nat) /\ Len(tries) \in Nat /\ \A i \in 1 .. Len(tries) : tries[i] \in Nat
         /\ DOMAIN tries = 1 .. Len(tries)
         /\ SignOn!Mine \in SignOn!Creds /\ SignOn!Mine = cred[SignOn!CredKey]
         /\ SignOn!CredKey \in {"boot", "admin"}
<1>1. /\ {Threshold, LockTime, StateTTL, CodeTTL, TokenTTL} \subseteq Nat \ {0} /\ MaxTime \in Nat
      /\ now \in SignOn!Times /\ tries \in Seq(SignOn!Times)
      /\ cred \in [{"boot", "admin"} -> SignOn!Creds]
  BY DEF SignOn!SignInAssumption, SignOn!TypeOK
<1>2. now \in Nat /\ now <= MaxTime /\ tries \in Seq(Nat)
  BY <1>1 DEF SignOn!Times
<1>3. SignOn!Mine = cred[SignOn!CredKey] /\ SignOn!CredKey \in {"boot", "admin"}
  BY DEF SignOn!Mine, SignOn!CredKey
<1> QED BY <1>1, <1>2, <1>3

LEMMA NewCreds ==
  /\ SignOn!NoCred \in SignOn!Creds /\ SignOn!NewCred \in SignOn!Creds
  /\ SignOn!NoCred.fails = 0 /\ SignOn!NewCred.set /\ SignOn!NewCred.fails = 0
BY DEF SignOn!NoCred, SignOn!NewCred, SignOn!Creds

LEMMA SignInInit == ASSUME SignOn!SignInAssumption, SignOn!Init PROVE SignInInv
<1>1. SignOn!TypeOK
  <2>1. SignOn!NotIssued \in SignOn!Codes
    BY DEF SignOn!NotIssued, SignOn!Codes, SignOn!SignInAssumption
  <2>2. 0 \in SignOn!Times /\ 0 \in 0 .. MaxCrash
    BY DEF SignOn!Times, SignOn!SignInAssumption
  <2>3. cred = [boot |-> SignOn!NoCred, admin |-> SignOn!NoCred] /\ tries = <<>>
    BY DEF SignOn!Init, SignOn!NoTries
  <2>4. cred \in [{"boot", "admin"} -> SignOn!Creds] /\ tries \in Seq(SignOn!Times)
    BY <2>3, NewCreds
  <2> QED BY <2>1, <2>2, <2>4 DEF SignOn!Init, SignOn!TypeOK
<1>2. OnDisk /\ HasPassword /\ CameBack
  BY DEF SignOn!Init, OnDisk, HasPassword, CameBack, Back, SignOn!NotIssued, SignOn!OneSessionEach
<1>3. tries = <<>> /\ SignOn!Mine.fails = 0
  BY NewCreds DEF SignOn!Init, SignOn!NoTries, SignOn!Mine, SignOn!CredKey
<1>4. LockFollows
  BY <1>3, SignInTyped, <1>1 DEF LockFollows, SignOn!GuessesBounded
<1> QED BY <1>1, <1>2, <1>4 DEF SignInInv

(* What the password and its lock rest on stays when neither is touched.     *)
LEMMA LockRests ==
  ASSUME SignInInv, UNCHANGED <<cred, activated, tries, now>>
  PROVE  LockFollows'
BY DEF SignInInv, LockFollows, SignOn!Mine, SignOn!CredKey, SignOn!GuessesBounded

(* A new password is without wrong ones.                                     *)
LEMMA LockResets ==
  ASSUME SignOn!SignInAssumption, tries' = <<>>, SignOn!Mine'.fails = 0
  PROVE  LockFollows'
<1>1. Threshold \in Nat \ {0}
  BY DEF SignOn!SignInAssumption
<1> QED BY <1>1 DEF LockFollows, SignOn!GuessesBounded

LEMMA BootSignIn ==
  ASSUME SignOn!SignInAssumption, SignInInv,
         SignOn!LoadKeys \/ SignOn!WritePublic \/ \E k \in Key : SignOn!WritePrivate(k)
  PROVE  SignInInv'
<1>1. /\ UNCHANGED <<now, kills, cred, activated, tries, begun, states, codes, sessions>>
      /\ issuer # "up" /\ issuer' # "up" /\ SignOn!TypeOK
  BY DEF SignOn!LoadKeys, SignOn!WritePublic, SignOn!WritePrivate, SignOn!clock, SignOn!account,
     SignOn!flow, SignInInv
<1>2. SignOn!TypeOK'
  <2>1. /\ issuer' \in {"down", "private", "public", "account", "up"}
        /\ disk' \subseteq [key : Key, public : BOOLEAN] /\ loaded' \subseteq Key
    <3>1. CASE SignOn!LoadKeys
      BY <1>1, <3>1 DEF SignOn!LoadKeys, SignOn!Usable, SignOn!Pairs, SignOn!TypeOK
    <3>2. CASE SignOn!WritePublic
      BY <1>1, <3>2 DEF SignOn!WritePublic, SignOn!TypeOK
    <3>3. CASE \E k \in Key : SignOn!WritePrivate(k)
      <4>1. PICK k \in Key : /\ disk' = disk \cup {[key |-> k, public |-> FALSE]}
                            /\ issuer' = "public" /\ loaded' = {k}
        BY <3>3 DEF SignOn!WritePrivate
      <4>2. [key |-> k, public |-> FALSE] \in [key : Key, public : BOOLEAN]
        OBVIOUS
      <4>3. disk \subseteq [key : Key, public : BOOLEAN]
        BY <1>1 DEF SignOn!TypeOK
      <4> QED BY <4>1, <4>2, <4>3
    <3> QED BY <3>1, <3>2, <3>3
  <2> QED BY <1>1, <2>1 DEF SignOn!TypeOK
<1>3. OnDisk'
  <2>1. CASE SignOn!LoadKeys
    BY <1>1, <2>1 DEF SignInInv, OnDisk, SignOn!LoadKeys, SignOn!Usable, SignOn!Pairs
  <2>2. CASE \E k \in Key : SignOn!WritePrivate(k)
    BY <1>1, <2>2 DEF SignInInv, OnDisk, SignOn!WritePrivate, SignOn!Usable, SignOn!Pairs
  <2>3. CASE SignOn!WritePublic
    <3>1. PICK k \in loaded : loaded = {k} /\ [key |-> k, public |-> FALSE] \in disk
      BY <2>3 DEF SignInInv, OnDisk, SignOn!WritePublic
    <3>2. /\ disk' = {p \in disk : p.key \notin loaded} \cup [key : loaded, public : {TRUE}]
          /\ issuer' = "account" /\ loaded' = loaded /\ disk \subseteq [key : Key, public : BOOLEAN]
          /\ SignOn!Usable = {}
      BY <1>1, <2>3 DEF SignOn!WritePublic, SignOn!TypeOK, SignInInv, OnDisk
    <3>3. [key |-> k, public |-> TRUE] \in disk'
      BY <3>1, <3>2
    <3>4. \A l \in Key \ {k} : [key |-> l, public |-> TRUE] \notin disk'
      BY <3>1, <3>2 DEF SignOn!Usable, SignOn!Pairs
    <3>5. SignOn!Usable' = {k}
      BY <1>1, <3>1, <3>3, <3>4 DEF SignOn!Usable, SignOn!Pairs, SignOn!TypeOK
    <3>6. sessions = {}
      BY <1>1, <3>2 DEF SignInInv, OnDisk, SignOn!Usable, SignOn!Pairs, SignOn!TypeOK
    <3> QED BY <1>1, <3>1, <3>2, <3>5, <3>6 DEF OnDisk
  <2> QED BY <2>1, <2>2, <2>3
<1>4. HasPassword' /\ CameBack'
  BY <1>1 DEF SignInInv, HasPassword, CameBack, Back, SignOn!OneSessionEach
<1>5. LockFollows'
  BY <1>1, LockRests
<1> QED BY <1>2, <1>3, <1>4, <1>5 DEF SignInInv

LEMMA SeedSignIn ==
  ASSUME SignOn!SignInAssumption, SignInInv, SignOn!SeedCredential
  PROVE  SignInInv'
<1>1. /\ UNCHANGED <<now, kills, disk, loaded, activated, begun, states, codes, sessions>>
      /\ issuer = "account" /\ issuer' = "up" /\ SignOn!TypeOK
  BY DEF SignOn!SeedCredential, SignOn!clock, SignOn!flow, SignInInv
<1>2. OnDisk' /\ CameBack'
  BY <1>1 DEF SignInInv, OnDisk, SignOn!Usable, SignOn!Pairs, CameBack, Back, SignOn!OneSessionEach
<1>3. CASE ~ activated /\ (~ cred.boot.set \/ EnvPassword)
  <2>1. cred' = [cred EXCEPT !["boot"] = SignOn!NewCred] /\ tries' = <<>>
    BY <1>3 DEF SignOn!SeedCredential, SignOn!NoTries
  <2>2. cred' \in [{"boot", "admin"} -> SignOn!Creds] /\ cred'["boot"] = SignOn!NewCred
    BY <1>1, <2>1, NewCreds DEF SignOn!TypeOK
  <2>3. SignOn!TypeOK'
    BY <1>1, <2>1, <2>2 DEF SignOn!TypeOK
  <2>4. HasPassword'
    BY <1>1, <1>3, <2>2, NewCreds DEF HasPassword
  <2>5. SignOn!Mine'.fails = 0
    BY <1>1, <1>3, <2>2, NewCreds DEF SignOn!Mine, SignOn!CredKey
  <2> QED BY <1>2, <2>1, <2>3, <2>4, <2>5, LockResets DEF SignInInv
<1>4. CASE ~ (~ activated /\ (~ cred.boot.set \/ EnvPassword))
  <2>1. UNCHANGED <<cred, tries>>
    BY <1>4 DEF SignOn!SeedCredential
  <2>2. SignOn!TypeOK' /\ HasPassword'
    BY <1>1, <1>4, <2>1 DEF SignOn!TypeOK, SignInInv, HasPassword
  <2> QED BY <1>1, <1>2, <2>1, <2>2, LockRests DEF SignInInv
<1> QED BY <1>3, <1>4

LEMMA CrashSignIn ==
  ASSUME SignOn!SignInAssumption, SignInInv, SignOn!Crash
  PROVE  SignInInv'
<1>1. /\ UNCHANGED <<now, disk, cred, activated, tries, begun, sessions>>
      /\ kills' = kills + 1 /\ kills < MaxCrash /\ issuer' = "down" /\ loaded' = {}
      /\ states' = [l \in Login |-> 0] /\ SignOn!TypeOK /\ codes \in [Code -> SignOn!Codes]
      /\ codes' = [c \in Code |-> [codes[c] EXCEPT
                     !.stored = FALSE,
                     !.pc = IF codes[c].pc \in {"exchange", "minted"} THEN "over" ELSE codes[c].pc]]
  BY DEF SignOn!Crash, SignOn!account, SignInInv, SignOn!TypeOK
<1>2. ASSUME NEW c \in Code
      PROVE  /\ codes'[c] \in SignOn!Codes /\ codes'[c].login = codes[c].login
             /\ codes'[c].pc \notin {"exchange", "minted"} /\ (codes'[c].pc = "none" <=> codes[c].pc = "none")
  <2>1. PICK pc : /\ pc = IF codes[c].pc \in {"exchange", "minted"} THEN "over" ELSE codes[c].pc
                  /\ codes'[c] = [codes[c] EXCEPT !.stored = FALSE, !.pc = pc]
    BY <1>1
  <2>2. pc \in {"none", "issued", "over"} /\ (pc = "none" <=> codes[c].pc = "none")
    BY <1>1, <2>1 DEF SignOn!Codes
  <2>3. codes[c] \in SignOn!Codes /\ codes'[c] = [codes[c] EXCEPT !.stored = FALSE, !.pc = pc]
    BY <1>1, <2>1
  <2>4. codes'[c].pc = pc /\ codes'[c].login = codes[c].login /\ codes'[c] \in SignOn!Codes
    BY <2>2, <2>3 DEF SignOn!Codes
  <2> QED BY <2>2, <2>4
<1>3. SignOn!TypeOK'
  <2>1. codes' \in [Code -> SignOn!Codes] /\ states' \in [Login -> Nat]
    BY <1>1, <1>2
  <2>2. kills' \in 0 .. MaxCrash
    <3>1. MaxCrash \in Nat /\ kills \in 0 .. MaxCrash
      BY <1>1 DEF SignOn!TypeOK, SignOn!SignInAssumption
    <3>2. kills' = kills + 1 /\ kills < MaxCrash
      BY <1>1
    <3> QED BY <3>1, <3>2
  <2> QED BY <1>1, <2>1, <2>2 DEF SignOn!TypeOK
<1>4. OnDisk' /\ HasPassword'
  BY <1>1 DEF SignInInv, OnDisk, HasPassword
<1>5. CameBack'
  <2>1. \A s \in sessions : s.login \in Login
    BY <1>1 DEF SignOn!TypeOK
  <2>2. \A s \in sessions : states'[s.login] = 0
    BY <1>1, <2>1
  <2>3. \A c \in Code : ~ Back(c)'
    BY <1>2 DEF Back
  <2>4. \A c \in Code : codes'[c].pc # "none" => codes'[c].login \in begun
    BY <1>2 DEF SignInInv, CameBack
  <2> QED BY <1>1, <2>2, <2>3, <2>4 DEF SignInInv, CameBack, SignOn!OneSessionEach
<1>6. LockFollows'
  BY <1>1, LockRests
<1> QED BY <1>3, <1>4, <1>5, <1>6 DEF SignInInv

LEMMA TickSignIn ==
  ASSUME SignOn!SignInAssumption, SignInInv, SignOn!Tick
  PROVE  SignInInv'
<1>1. /\ now' = now + 1 /\ now < MaxTime /\ SignOn!TypeOK
      /\ UNCHANGED <<kills, issuer, disk, loaded, cred, activated, tries, begun, states, codes, sessions>>
  BY DEF SignOn!Tick, SignOn!keystore, SignOn!account, SignOn!flow, SignInInv
<1>2. now' \in SignOn!Times
  BY <1>1 DEF SignOn!TypeOK, SignOn!Times, SignOn!SignInAssumption
<1>3. SignOn!TypeOK'
  BY <1>1, <1>2 DEF SignOn!TypeOK
<1>4. OnDisk' /\ HasPassword' /\ CameBack'
  BY <1>1 DEF SignInInv, OnDisk, SignOn!Usable, SignOn!Pairs, HasPassword, CameBack, Back, SignOn!OneSessionEach
<1>5. SignOn!Mine' = SignOn!Mine /\ SignOn!GuessesBounded' /\ now \in Nat /\ \A i \in 1 .. Len(tries) : tries[i] \in Nat
  BY <1>1, SignInTyped DEF SignInInv, LockFollows, SignOn!Mine, SignOn!CredKey, SignOn!GuessesBounded
<1>6. LockFollows'
  BY <1>1, <1>5 DEF SignInInv, LockFollows
<1> QED BY <1>3, <1>4, <1>6 DEF SignInInv

LEMMA BeginSignIn ==
  ASSUME SignOn!SignInAssumption, SignInInv, NEW l \in Login, SignOn!Begin(l)
  PROVE  SignInInv'
<1>1. /\ UNCHANGED <<now, kills, issuer, disk, loaded, cred, activated, tries, codes, sessions>>
      /\ l \notin begun /\ begun' = begun \cup {l}
      /\ states' = [states EXCEPT ![l] = now + StateTTL]
      /\ SignOn!TypeOK /\ states \in [Login -> Nat] /\ now \in Nat /\ StateTTL \in Nat
  BY SignInTyped DEF SignOn!Begin, SignOn!clock, SignOn!keystore, SignOn!account, SignInInv, SignOn!TypeOK
<1>2. states' \in [Login -> Nat] /\ \A k \in Login \ {l} : states'[k] = states[k]
  BY <1>1
<1>3. SignOn!TypeOK'
  BY <1>1, <1>2 DEF SignOn!TypeOK
<1>4. OnDisk' /\ HasPassword'
  BY <1>1 DEF SignInInv, OnDisk, SignOn!Usable, SignOn!Pairs, HasPassword
<1>5. CameBack'
  <2>1. \A c \in Code : codes[c].login \in Login
    BY <1>1 DEF SignOn!TypeOK, SignOn!Codes
  <2>2. \A s \in sessions : s.login \in Login
    BY <1>1 DEF SignOn!TypeOK
  <2> QED BY <1>1, <1>2, <2>1, <2>2 DEF SignInInv, CameBack, Back, SignOn!OneSessionEach
<1>6. LockFollows'
  BY <1>1, LockRests
<1> QED BY <1>3, <1>4, <1>5, <1>6 DEF SignInInv

(* What a code is.                                                           *)
LEMMA CodesTyped ==
  ASSUME SignOn!TypeOK, NEW c \in Code
  PROVE  /\ codes \in [Code -> SignOn!Codes] /\ codes[c] \in SignOn!Codes
         /\ codes[c].login \in Login /\ codes[c].exp \in Nat /\ states \in [Login -> Nat]
BY DEF SignOn!TypeOK, SignOn!Codes

LEMMA WrongSignIn ==
  ASSUME SignOn!SignInAssumption, SignInInv, NEW l \in Login, SignOn!WrongPassword(l)
  PROVE  SignInInv'
<1>1. /\ UNCHANGED <<now, kills, issuer, disk, loaded, activated, begun, states, codes, sessions>>
      /\ issuer = "up" /\ tries' = Append(tries, now) /\ ~ SignOn!Locked
      /\ cred' = [cred EXCEPT ![SignOn!CredKey] = IF SignOn!Mine.set THEN SignOn!Failed(SignOn!Mine) ELSE SignOn!Mine]
      /\ SignOn!TypeOK /\ now \in SignOn!Times
  BY DEF SignOn!WrongPassword, SignOn!clock, SignOn!keystore, SignOn!flow, SignInInv, SignOn!TypeOK
<1>2. SignOn!Mine.set
  BY <1>1 DEF SignInInv, HasPassword, SignOn!Mine, SignOn!CredKey
<1>3. PICK new : new = SignOn!Failed(SignOn!Mine)
  OBVIOUS
<1>4. PICK mine : mine = SignOn!Mine /\ mine \in SignOn!Creds
  BY <1>1, SignInTyped
<1>5. PICK until : until = IF mine.fails + 1 >= Threshold THEN now + LockTime ELSE mine.until
  OBVIOUS
<1>6. new = [mine EXCEPT !.fails = mine.fails + 1, !.until = until]
  BY <1>3, <1>4, <1>5 DEF SignOn!Failed
<1>7. /\ now \in Nat /\ LockTime \in Nat \ {0} /\ Threshold \in Nat \ {0} /\ mine.fails \in Nat /\ mine.until \in Nat
      /\ Len(tries) \in Nat /\ SignOn!CredKey \in {"boot", "admin"} /\ tries \in Seq(Nat)
      /\ \A i \in 1 .. Len(tries) : tries[i] \in Nat
  BY <1>1, <1>4, SignInTyped DEF SignOn!Creds
<1>8. until \in Nat
  BY <1>5, <1>7
<1>9. new \in SignOn!Creds /\ new.set /\ new.fails = mine.fails + 1 /\ new.until = until
  <2>1. PICK n \in Nat : n = mine.fails + 1
    BY <1>7
  <2>2. /\ mine \in [set : BOOLEAN, fails : Nat, until : Nat] /\ mine.set
        /\ new = [mine EXCEPT !.fails = n, !.until = until]
    BY <1>2, <1>4, <1>6, <2>1 DEF SignOn!Creds
  <2>3. new \in [set : BOOLEAN, fails : Nat, until : Nat] /\ new.set /\ new.fails = n /\ new.until = until
    BY <1>8, <2>2
  <2> QED BY <2>1, <2>3 DEF SignOn!Creds
<1>10. PICK key \in {"boot", "admin"} : key = SignOn!CredKey
  BY <1>7
<1>11. cred' = [cred EXCEPT ![key] = new]
  BY <1>1, <1>2, <1>3, <1>10
<1>12. cred' \in [{"boot", "admin"} -> SignOn!Creds] /\ cred'[key] = new /\ SignOn!CredKey' = key
       /\ \A k \in {"boot", "admin"} \ {key} : cred'[k] = cred[k]
  BY <1>1, <1>9, <1>10, <1>11 DEF SignOn!TypeOK, SignOn!CredKey
<1>13. SignOn!TypeOK'
  BY <1>1, <1>12 DEF SignOn!TypeOK
<1>14. OnDisk' /\ CameBack'
  BY <1>1 DEF SignInInv, OnDisk, SignOn!Usable, SignOn!Pairs, CameBack, Back, SignOn!OneSessionEach
<1>15. HasPassword'
  BY <1>1, <1>2, <1>4, <1>9, <1>10, <1>12 DEF SignInInv, HasPassword, SignOn!Mine, SignOn!CredKey
<1>16. LockFollows'
  <2>1. SignOn!Mine' = new
    BY <1>12 DEF SignOn!Mine
  <2>2. /\ Len(tries') = Len(tries) + 1 /\ tries'[Len(tries) + 1] = now
        /\ \A i \in 1 .. Len(tries) : tries'[i] = tries[i]
        /\ DOMAIN tries' = 1 .. Len(tries) + 1
    BY <1>1, <1>7
  <2>3. /\ mine.fails = Len(tries) /\ \A i \in 1 .. Len(tries) : tries[i] <= now /\ tries[i] <= tries[Len(tries)]
        /\ Len(tries) >= Threshold => mine.until = tries[Len(tries)] + LockTime
        /\ mine.until <= now
    BY <1>1, <1>4, <1>7 DEF SignInInv, LockFollows, SignOn!Locked
  <2>4. SignOn!Mine'.fails = Len(tries')
    BY <1>9, <2>1, <2>2, <2>3
  <2>5. \A i \in 1 .. Len(tries') : tries'[i] <= now' /\ tries'[i] <= tries'[Len(tries')]
    BY <1>1, <1>7, <2>2, <2>3
  <2>6. Len(tries') >= Threshold => SignOn!Mine'.until = tries'[Len(tries')] + LockTime
    BY <1>5, <1>7, <1>9, <2>1, <2>2, <2>3
  <2>7. ASSUME NEW i \in DOMAIN tries', i > Threshold
        PROVE  tries'[i] >= tries'[i - Threshold] + LockTime
    <3>1. CASE i \in 1 .. Len(tries)
      <4>1. i - Threshold \in 1 .. Len(tries) /\ i \in DOMAIN tries
        BY <1>7, <2>7, <3>1
      <4>2. tries[i] >= tries[i - Threshold] + LockTime
        BY <2>7, <4>1 DEF SignInInv, LockFollows, SignOn!GuessesBounded
      <4> QED BY <2>2, <3>1, <4>1, <4>2
    <3>2. CASE i = Len(tries) + 1
      <4>1. Len(tries) >= Threshold /\ i - Threshold \in 1 .. Len(tries) /\ Len(tries) \in 1 .. Len(tries)
        BY <1>7, <2>7, <3>2
      <4>2. tries[i - Threshold] <= tries[Len(tries)] /\ tries[Len(tries)] + LockTime <= now
        BY <2>3, <4>1
      <4>3. tries'[i] = now /\ tries'[i - Threshold] = tries[i - Threshold]
        BY <2>2, <3>2, <4>1
      <4>4. tries[i - Threshold] \in Nat /\ tries[Len(tries)] \in Nat
        BY <1>7, <4>1
      <4> QED BY <1>7, <4>2, <4>3, <4>4
    <3> QED BY <1>7, <2>2, <3>1, <3>2
  <2> QED BY <2>4, <2>5, <2>6, <2>7 DEF LockFollows, SignOn!GuessesBounded
<1> QED BY <1>13, <1>14, <1>15, <1>16 DEF SignInInv

LEMMA RightSignIn ==
  ASSUME SignOn!SignInAssumption, SignInInv, NEW l \in Login, NEW c \in Code, SignOn!RightPassword(l, c)
  PROVE  SignInInv'
<1>1. /\ UNCHANGED <<now, kills, issuer, disk, loaded, activated, begun, states, sessions>>
      /\ issuer = "up" /\ l \in begun /\ tries' = <<>>
      /\ cred' = [cred EXCEPT ![SignOn!CredKey] = SignOn!NewCred]
      /\ codes' = [codes EXCEPT ![c] = SignOn!Issued(l)]
      /\ SignOn!TypeOK
  BY DEF SignOn!RightPassword, SignOn!clock, SignOn!keystore, SignInInv, SignOn!NoTries
<1>2. PICK key \in {"boot", "admin"} : key = SignOn!CredKey
  BY <1>1, SignInTyped
<1>3. cred' \in [{"boot", "admin"} -> SignOn!Creds] /\ cred'[key] = SignOn!NewCred /\ SignOn!CredKey' = key
      /\ \A k \in {"boot", "admin"} \ {key} : cred'[k] = cred[k]
  BY <1>1, <1>2, NewCreds DEF SignOn!TypeOK, SignOn!CredKey
<1>4. SignOn!Issued(l) \in SignOn!Codes /\ SignOn!Issued(l).pc = "issued" /\ SignOn!Issued(l).login = l
  BY <1>1, SignInTyped DEF SignOn!Issued, SignOn!Codes
<1>5. codes' \in [Code -> SignOn!Codes] /\ codes'[c] = SignOn!Issued(l) /\ \A d \in Code \ {c} : codes'[d] = codes[d]
  BY <1>1, <1>4, CodesTyped
<1>6. SignOn!TypeOK'
  BY <1>1, <1>3, <1>5 DEF SignOn!TypeOK
<1>7. OnDisk'
  BY <1>1 DEF SignInInv, OnDisk, SignOn!Usable, SignOn!Pairs
<1>8. HasPassword'
  BY <1>1, <1>2, <1>3, NewCreds DEF SignInInv, HasPassword, SignOn!CredKey
<1>9. CameBack'
  BY <1>1, <1>4, <1>5 DEF SignInInv, CameBack, Back, SignOn!OneSessionEach
<1>10. LockFollows'
  <2>1. SignOn!Mine'.fails = 0
    BY <1>3, NewCreds DEF SignOn!Mine
  <2> QED BY <1>1, <2>1, LockResets
<1> QED BY <1>6, <1>7, <1>8, <1>9, <1>10 DEF SignInInv

LEMMA CallbackSignIn ==
  ASSUME SignOn!SignInAssumption, SignInInv, NEW c \in Code, SignOn!Callback(c)
  PROVE  SignInInv'
<1>1. /\ UNCHANGED <<now, kills, issuer, disk, loaded, cred, activated, tries, begun, sessions>>
      /\ issuer = "up" /\ codes[c].pc \in {"issued", "over"} /\ states[codes[c].login] # 0
      /\ states' = [states EXCEPT ![codes[c].login] = 0]
      /\ SignOn!TypeOK
  BY DEF SignOn!Callback, SignOn!Popped, SignOn!clock, SignOn!keystore, SignOn!account, SignInInv
<1>2. PICK l \in Login : l = codes[c].login
  BY <1>1, CodesTyped
<1>3. PICK pc \in {"issued", "over", "exchange"} : codes' = [codes EXCEPT ![c].pc = pc]
  <2>1. PICK pc : pc = IF states[codes[c].login] >= now THEN "exchange" ELSE codes[c].pc
    OBVIOUS
  <2> QED BY <1>1, <2>1 DEF SignOn!Callback
<1>4. /\ codes' \in [Code -> SignOn!Codes] /\ codes'[c].pc = pc /\ codes'[c].login = l
      /\ \A d \in Code \ {c} : codes'[d] = codes[d]
  BY <1>1, <1>2, <1>3, CodesTyped DEF SignOn!Codes
<1>5. states' \in [Login -> Nat] /\ states'[l] = 0 /\ \A k \in Login \ {l} : states'[k] = states[k]
  BY <1>1, <1>2, CodesTyped
<1>6. SignOn!TypeOK'
  BY <1>1, <1>4, <1>5 DEF SignOn!TypeOK
<1>7. OnDisk' /\ HasPassword'
  BY <1>1 DEF SignInInv, OnDisk, SignOn!Usable, SignOn!Pairs, HasPassword
<1>8. CameBack'
  <2>1. /\ codes[c].pc # "none" /\ states[l] # 0 /\ l \in begun
        /\ \A d \in Code : Back(d) => codes[d].login # l
        /\ \A s \in sessions : s.login # l /\ s.login \in Login
        /\ \A d \in Code : codes[d].login \in Login
    BY <1>1, <1>2, CodesTyped DEF SignInInv, CameBack, SignOn!TypeOK
  <2>2. \A d \in Code : codes'[d].pc # "none" => codes'[d].login \in begun'
    BY <1>1, <1>4, <2>1 DEF SignInInv, CameBack
  <2>3. ASSUME NEW d \in Code, Back(d)'
        PROVE  /\ issuer' = "up" /\ states'[codes'[d].login] = 0
               /\ \A e \in Code : Back(e)' /\ codes'[e].login = codes'[d].login => e = d
               /\ \A s \in sessions : s.login # codes'[d].login
    BY <1>1, <1>4, <1>5, <2>1, <2>3 DEF SignInInv, CameBack, Back
  <2>4. \A s \in sessions : states'[s.login] = 0
    BY <1>5, <2>1 DEF SignInInv, CameBack
  <2> QED BY <1>1, <2>2, <2>3, <2>4 DEF SignInInv, CameBack, SignOn!OneSessionEach
<1>9. LockFollows'
  BY <1>1, LockRests
<1> QED BY <1>6, <1>7, <1>8, <1>9 DEF SignInInv

LEMMA ExchangeSignIn ==
  ASSUME SignOn!SignInAssumption, SignInInv, NEW c \in Code, SignOn!Exchange(c)
  PROVE  SignInInv'
<1>1. /\ UNCHANGED <<now, kills, issuer, disk, loaded, cred, activated, tries, begun, states, sessions>>
      /\ codes[c].pc = "exchange" /\ codes' = [codes EXCEPT ![c] = SignOn!Redeemed(c)]
      /\ SignOn!TypeOK /\ codes[c] \in SignOn!Codes
  BY CodesTyped DEF SignOn!Exchange, SignOn!clock, SignOn!keystore, SignOn!account, SignInInv
<1>2. /\ SignOn!Redeemed(c) \in SignOn!Codes /\ SignOn!Redeemed(c).login = codes[c].login
      /\ SignOn!Redeemed(c).pc \in {"minted", "over"}
  <2>1. now + TokenTTL \in Nat
    BY <1>1, SignInTyped
  <2>2. /\ SignOn!Minted(c) \in SignOn!Codes /\ SignOn!Minted(c).login = codes[c].login
        /\ SignOn!Minted(c).pc = "minted"
    BY <1>1, <2>1 DEF SignOn!Minted, SignOn!Codes
  <2>3. PICK q : q = [codes[c] EXCEPT !.pc = "over", !.stored = FALSE]
    OBVIOUS
  <2>4. q \in SignOn!Codes /\ q.login = codes[c].login /\ q.pc = "over"
    BY <1>1, <2>3 DEF SignOn!Codes
  <2>5. SignOn!Redeemed(c) = SignOn!Minted(c) \/ SignOn!Redeemed(c) = q
    BY <2>3 DEF SignOn!Redeemed
  <2> QED BY <2>2, <2>4, <2>5
<1>3. PICK q \in SignOn!Codes : q = SignOn!Redeemed(c)
  BY <1>2
<1>4. codes' \in [Code -> SignOn!Codes] /\ codes'[c] = q /\ \A d \in Code \ {c} : codes'[d] = codes[d]
  BY <1>1, <1>3, CodesTyped
<1>5. SignOn!TypeOK'
  BY <1>1, <1>4 DEF SignOn!TypeOK
<1>6. OnDisk' /\ HasPassword'
  BY <1>1 DEF SignInInv, OnDisk, SignOn!Usable, SignOn!Pairs, HasPassword
<1>7. CameBack'
  <2>1. /\ \A d \in Code : codes'[d].login = codes[d].login /\ (Back(d)' => Back(d))
        /\ \A d \in Code : codes'[d].pc # "none" => codes[d].pc # "none"
    BY <1>1, <1>2, <1>3, <1>4 DEF Back
  <2> QED BY <1>1, <2>1 DEF SignInInv, CameBack, SignOn!OneSessionEach
<1>8. LockFollows'
  BY <1>1, LockRests
<1> QED BY <1>5, <1>6, <1>7, <1>8 DEF SignInInv

LEMMA SignedSignIn ==
  ASSUME SignOn!SignInAssumption, SignInInv, NEW c \in Code, SignOn!SignedIn(c)
  PROVE  SignInInv'
<1>1. /\ UNCHANGED <<now, kills, issuer, disk, loaded, begun, states>>
      /\ codes[c].pc = "minted" /\ codes' = [codes EXCEPT ![c].pc = "over"]
      /\ SignOn!TypeOK /\ codes[c] \in SignOn!Codes /\ issuer = "up"
  BY CodesTyped DEF SignOn!SignedIn, SignOn!clock, SignOn!keystore, SignInInv, CameBack, Back
<1>2. /\ codes' \in [Code -> SignOn!Codes] /\ codes'[c].pc = "over" /\ codes'[c].login = codes[c].login
      /\ \A d \in Code \ {c} : codes'[d] = codes[d]
  BY <1>1, CodesTyped DEF SignOn!Codes
<1>3. /\ \A d \in Code : codes'[d].login = codes[d].login /\ (Back(d)' => Back(d) /\ d # c)
      /\ \A d \in Code : codes'[d].pc # "none" => codes[d].pc # "none"
  BY <1>1, <1>2 DEF Back
<1>4. CASE SignOn!Expired(c)
  <2>1. UNCHANGED <<cred, activated, tries, sessions>>
    BY <1>4 DEF SignOn!SignedIn, SignOn!account
  <2>2. SignOn!TypeOK'
    BY <1>1, <1>2, <2>1 DEF SignOn!TypeOK
  <2>3. OnDisk' /\ HasPassword'
    BY <1>1, <2>1 DEF SignInInv, OnDisk, SignOn!Usable, SignOn!Pairs, HasPassword
  <2>4. CameBack'
    BY <1>1, <1>3, <2>1 DEF SignInInv, CameBack, SignOn!OneSessionEach
  <2> QED BY <1>1, <2>1, <2>2, <2>3, <2>4, LockRests DEF SignInInv
<1>5. CASE ~ SignOn!Expired(c)
  <2>1. PICK k \in loaded : sessions' = sessions \cup {[login |-> codes[c].login, code |-> c,
                                                        key |-> k, exp |-> codes[c].exp]}
    BY <1>5 DEF SignOn!SignedIn
  <2>2. PICK s : s = [login |-> codes[c].login, code |-> c, key |-> k, exp |-> codes[c].exp]
    OBVIOUS
  <2>3. /\ s \in [login : Login, code : Code, key : Key, exp : Nat] /\ s.login = codes[c].login /\ s.key = k
        /\ sessions' = sessions \cup {s}
    BY <1>1, <2>1, <2>2, CodesTyped DEF SignOn!TypeOK
  <2>4. /\ activated' = TRUE
        /\ \/ activated /\ UNCHANGED <<cred, tries>>
           \/ ~ activated /\ cred' = SignOn!Migrated /\ tries' = <<>>
    BY <1>5 DEF SignOn!SignedIn, SignOn!NoTries
  <2>5. ~ activated => cred' = [boot |-> SignOn!NoCred, admin |-> SignOn!NewCred]
    BY <1>1, <2>4 DEF SignInInv, HasPassword, SignOn!Migrated
  <2>6. ~ activated => cred'["admin"] = SignOn!NewCred /\ cred' \in [{"boot", "admin"} -> SignOn!Creds]
    BY <2>5, NewCreds
  <2>7. SignOn!TypeOK'
    <3>1. cred' \in [{"boot", "admin"} -> SignOn!Creds]
      BY <1>1, <2>4, <2>6 DEF SignOn!TypeOK
    <3>2. tries' \in Seq(SignOn!Times) /\ activated' \in BOOLEAN
      <4>1. tries \in Seq(SignOn!Times) /\ <<>> \in Seq(SignOn!Times) /\ (tries' = tries \/ tries' = <<>>)
        BY <1>1, <2>4 DEF SignOn!TypeOK
      <4> QED BY <2>4, <4>1
    <3> QED BY <1>1, <1>2, <2>3, <3>1, <3>2 DEF SignOn!TypeOK
  <2>8. OnDisk'
    <3>1. [key |-> k, public |-> TRUE] \in disk
      BY <1>1 DEF SignInInv, OnDisk, SignOn!Usable, SignOn!Pairs
    <3> QED BY <1>1, <2>3, <3>1 DEF SignInInv, OnDisk, SignOn!Usable, SignOn!Pairs
  <2>9. HasPassword'
    BY <1>1, <2>4, <2>6, NewCreds DEF SignInInv, HasPassword
  <2>10. CameBack'
    <3>1. /\ Back(c) /\ states[s.login] = 0 /\ s.login \in begun
          /\ \A d \in Code : Back(d) /\ codes[d].login = s.login => d = c
          /\ \A t \in sessions : t.login # s.login
      BY <1>1, <2>3 DEF SignInInv, CameBack, Back
    <3>2. SignOn!OneSessionEach'
      BY <2>3, <3>1 DEF SignInInv, CameBack, SignOn!OneSessionEach
    <3> QED BY <1>1, <1>3, <2>3, <3>1, <3>2 DEF SignInInv, CameBack
  <2>11. LockFollows'
    <3>1. CASE activated
      BY <1>1, <2>4, <3>1, LockRests
    <3>2. CASE ~ activated
      <4>1. SignOn!Mine'.fails = 0
        BY <2>4, <2>6, <3>2, NewCreds DEF SignOn!Mine, SignOn!CredKey
      <4> QED BY <2>4, <3>2, <4>1, LockResets
    <3> QED BY <3>1, <3>2
  <2> QED BY <2>7, <2>8, <2>9, <2>10, <2>11 DEF SignInInv
<1> QED BY <1>4, <1>5

LEMMA SignInStep ==
  ASSUME SignOn!SignInAssumption, SignInInv, [SignOn!Next]_loginVars
  PROVE  SignInInv'
<1>1. CASE SignOn!Next
  BY <1>1, BootSignIn, SeedSignIn, CrashSignIn, TickSignIn, BeginSignIn, WrongSignIn, RightSignIn,
     CallbackSignIn, ExchangeSignIn, SignedSignIn DEF SignOn!Next
<1>2. CASE UNCHANGED loginVars
  <2>1. SignOn!TypeOK' /\ OnDisk' /\ HasPassword' /\ CameBack'
    BY <1>2 DEF loginVars, SignInInv, SignOn!TypeOK, OnDisk, SignOn!Usable, SignOn!Pairs, HasPassword,
       CameBack, Back, SignOn!OneSessionEach
  <2> QED BY <1>2, <2>1, LockRests DEF loginVars, SignInInv
<1> QED BY <1>1, <1>2

LEMMA SignInGood == SignInInv => SignInSound
<1> SUFFICES ASSUME SignInInv PROVE SignInSound
  OBVIOUS
<1>1. SignOn!SessionsSurvive
  BY DEF SignInInv, OnDisk, HasPassword, SignOn!SessionsSurvive, SignOn!Usable, SignOn!Pairs, SignOn!Mine,
     SignOn!CredKey, SignOn!TypeOK
<1> QED BY <1>1 DEF SignInSound, SignOn!SignInSound, SignInInv, CameBack, LockFollows

-----------------------------------------------------------------------------
(* ChannelInstall.  A row has a number of its own, which is not that of a row
   removed, and an account of its own.  A request works on the row it made.  *)
Linked(a) == {c \in Install!Rows : channels[c].ext = {a}}
Works(r) == installs[r].pc \in Install!Working

InstallRows ==
  /\ Install!Rows \subseteq used
  /\ \A c, d \in Install!Rows : channels[c].ext = channels[d].ext => c = d
  /\ removed \subseteq used /\ removed \cap Install!Rows = {}

InstallWork ==
  \A r \in Admin :
    /\ Works(r) \/ installs[r].pc = "asking" => installs[r].acct \in Install!One(Account)
    /\ Works(r) => installs[r].chan \in used
    /\ Works(r) /\ installs[r].chan \in Install!Rows =>
         installs[r].acct = channels[installs[r].chan].ext

(* On an account that is not marred one request works at a time; its row is
   there, and the webhook is as far as the request is.                       *)
Hooked(r, a) ==
  LET c == installs[r].chan IN
  /\ c \in Install!Rows /\ channels[c].ext = {a}
  /\ installs[r].pc = "setting" => hook[a] \in {NoChan} \cup removed
  /\ installs[r].pc = "set" => hook[a] = c
  /\ installs[r].pc = "undoing" => hook[a] \in {c, NoChan} \cup removed
  /\ installs[r].pc = "undone" => hook[a] = NoChan

Tended(a) ==
  /\ \A r, s \in Install!On(a) : r = s
  /\ \A r \in Install!On(a) : Hooked(r, a)
  /\ Install!On(a) = {} => Linked(a) = {hook[a]} \ ({NoChan} \cup removed)

InstallInv ==
  Install!TypeOK /\ InstallRows /\ InstallWork /\ \A a \in Account \ marred : Tended(a)


LEMMA InstallInit == ASSUME Install!InstallAssumption, Install!Init PROVE InstallInv
<1>1. /\ channels = [c \in Chan |-> Install!NoRow] /\ used = {} /\ removed = {} /\ marred = {}
      /\ hook = [a \in Account |-> NoChan] /\ installs = [r \in Admin |-> Install!Idle]
      /\ edits = 0 /\ halts = 0 /\ MaxEdit \in Nat /\ MaxCrash \in Nat
  BY DEF Install!Init, Install!InstallAssumption
<1>2. Install!Rows = {} /\ \A r \in Admin : installs[r].pc = "idle"
  BY <1>1 DEF Install!Rows, Install!Idle
<1>3. Install!TypeOK
  BY <1>1 DEF Install!TypeOK, Install!Idle, Install!Working
<1>4. InstallRows /\ InstallWork
  BY <1>1, <1>2 DEF InstallRows, InstallWork, Works, Install!Working
<1>5. ASSUME NEW a \in Account PROVE Tended(a)
  BY <1>1, <1>2 DEF Tended, Install!On, Install!Working, Linked
<1> QED BY <1>3, <1>4, <1>5 DEF InstallInv

(* What the types say of a row.                                              *)
LEMMA RowTyped ==
  ASSUME Install!TypeOK
  PROVE  /\ \A c \in Install!Rows :
              /\ channels[c] \in [ext : Install!One(Account), creds : Install!One(Account), active : BOOLEAN]
              /\ c \in Chan
         /\ Install!NoRow \notin [ext : Install!One(Account), creds : Install!One(Account), active : BOOLEAN]
         /\ \A S \in Install!One(Account) : \E a \in Account : S = {a}
<1>1. Install!NoRow.ext = {} /\ {} \notin Install!One(Account)
  BY DEF Install!NoRow, Install!One
<1>2. Install!NoRow \notin [ext : Install!One(Account), creds : Install!One(Account), active : BOOLEAN]
  BY <1>1
<1> QED BY <1>2 DEF Install!TypeOK, Install!Rows, Install!One

(* A request goes on and rows stay: what remains is to look after the account
   that it is about.                                                         *)
LEMMA InstallGoes ==
  ASSUME InstallInv, NEW r \in Admin, NEW pc \in Install!Working \cup {"over"},
         Works(r), installs' = [installs EXCEPT ![r].pc = pc], UNCHANGED <<channels, used, removed, edits, halts>>,
         hook' \in [Account -> Chan \cup {NoChan}], marred' \subseteq Account, marred \subseteq marred',
         pc \in {"setting", "set"} => installs[r].pc \in {"setting", "set"},
         \A a \in Account \ marred' : installs[r].acct # {a} => hook'[a] = hook[a],
         NEW b \in Account, installs[r].acct = {b},
         b \notin marred' => (pc = "over" /\ Linked(b) = {hook'[b]} \ ({NoChan} \cup removed))
                             \/ (pc # "over" /\ Hooked(r, b)')
  PROVE  InstallInv'
<1>1. /\ installs' \in [Admin -> [pc : Install!Working \cup {"idle", "asking", "over"},
                                  chan : Chan \cup {NoChan}, acct : Install!One(Account) \cup {{}}]]
      /\ installs'[r].pc = pc /\ installs'[r].chan = installs[r].chan /\ installs'[r].acct = installs[r].acct
      /\ \A s \in Admin \ {r} : installs'[s] = installs[s]
  BY DEF InstallInv, Install!TypeOK, Install!Working
<1>2. Install!TypeOK'
  BY <1>1 DEF InstallInv, Install!TypeOK
<1>3. Install!Rows' = Install!Rows
  BY DEF Install!Rows
<1>4. InstallRows'
  BY <1>3 DEF InstallInv, InstallRows
<1>5. InstallWork'
  <2> SUFFICES ASSUME NEW s \in Admin
               PROVE  /\ (Works(s) \/ installs[s].pc = "asking" => installs[s].acct \in Install!One(Account))'
                      /\ (Works(s) => installs[s].chan \in used)'
                      /\ (Works(s) /\ installs[s].chan \in Install!Rows =>
                            installs[s].acct = channels[installs[s].chan].ext)'
    BY DEF InstallWork
  <2>1. CASE s = r
    BY <1>1, <1>3, <2>1 DEF InstallInv, InstallWork, Works, Install!Working
  <2>2. CASE s # r
    BY <1>1, <1>3, <2>2 DEF InstallInv, InstallWork, Works, Install!Working
  <2> QED BY <2>1, <2>2
<1>6. ASSUME NEW a \in Account \ marred', a # b PROVE Tended(a)'
  <2>1. Install!On(a)' = Install!On(a) /\ r \notin Install!On(a) /\ Linked(a)' = Linked(a) /\ hook'[a] = hook[a]
    BY <1>1, <1>3, <1>6 DEF Install!On, Linked
  <2>2. \A s \in Install!On(a) : installs'[s] = installs[s]
    BY <1>1, <2>1 DEF Install!On
  <2> QED BY <1>3, <1>6, <2>1, <2>2 DEF InstallInv, Tended, Hooked
<1>7. ASSUME b \notin marred' PROVE Tended(b)'
  <2>1. Install!On(b) = {r} /\ Linked(b)' = Linked(b)
    <3>1. r \in Install!On(b)
      BY DEF Works, Install!On
    <3> QED BY <1>3, <1>7, <3>1 DEF InstallInv, Tended, Linked
  <2>2. Install!On(b)' = IF pc = "over" THEN {} ELSE {r}
    BY <1>1, <2>1 DEF Install!On, Install!Working
  <2> QED BY <1>7, <2>1, <2>2 DEF Tended
<1> QED BY <1>2, <1>4, <1>5, <1>6, <1>7 DEF InstallInv


(* What a request at work knows of its account.                              *)
LEMMA InstallKnows ==
  ASSUME InstallInv, NEW r \in Admin, Works(r)
  PROVE  /\ \E b \in Account : installs[r].acct = {b}
         /\ \A b \in Account \ marred : installs[r].acct = {b} =>
              Hooked(r, b) /\ Install!On(b) = {r} /\ Linked(b) = {installs[r].chan}
<1>1. \E b \in Account : installs[r].acct = {b}
  BY DEF InstallInv, InstallWork, Install!One
<1>2. ASSUME NEW b \in Account \ marred, installs[r].acct = {b}
      PROVE  Hooked(r, b) /\ Install!On(b) = {r} /\ Linked(b) = {installs[r].chan}
  <2>1. r \in Install!On(b)
    BY <1>2 DEF Works, Install!On
  <2>2. Hooked(r, b) /\ Install!On(b) = {r}
    BY <1>2, <2>1 DEF InstallInv, Tended
  <2>3. InstallRows
    BY DEF InstallInv
  <2>4. PICK c \in Install!Rows : c = installs[r].chan /\ channels[c].ext = {b}
    BY <2>2 DEF Hooked
  <2>5. Linked(b) = {c}
    BY <2>3, <2>4 DEF InstallRows, Linked
  <2> QED BY <2>2, <2>4, <2>5
<1> QED BY <1>1, <1>2

LEMMA InstallSet == ASSUME InstallInv, NEW r \in Admin, Install!SetWebhook(r) PROVE InstallInv'
<1>1. installs[r].pc = "setting" /\ Works(r) /\ installs[r].chan \in Chan
      /\ UNCHANGED <<channels, used, removed, marred, edits, halts>>
  BY DEF Install!SetWebhook, Install!Is, Works, Install!Working, InstallInv, InstallWork, Install!TypeOK
<1>2. PICK b \in Account : installs[r].acct = {b}
  BY <1>1, InstallKnows
<1>3. PICK pc \in {"set", "undoing"} :
        /\ installs' = [installs EXCEPT ![r].pc = pc]
        /\ \/ hook' = [a \in Account |-> IF {a} = installs[r].acct THEN installs[r].chan ELSE hook[a]]
           \/ hook' = hook /\ pc = "undoing"
  BY DEF Install!SetWebhook, Install!To
<1>4. /\ hook' \in [Account -> Chan \cup {NoChan}] /\ marred' \subseteq Account
      /\ \A a \in Account : installs[r].acct # {a} => hook'[a] = hook[a]
      /\ hook'[b] = installs[r].chan \/ (hook'[b] = hook[b] /\ pc = "undoing")
  BY <1>1, <1>2, <1>3 DEF InstallInv, Install!TypeOK
<1>5. installs'[r].pc = pc /\ installs'[r].chan = installs[r].chan
  BY <1>3 DEF InstallInv, Install!TypeOK
<1>6. ASSUME b \notin marred' PROVE Hooked(r, b)'
  <2>1. Hooked(r, b)
    BY <1>1, <1>2, <1>6, InstallKnows
  <2> QED BY <1>1, <1>3, <1>4, <1>5, <2>1 DEF Hooked, Install!Rows
<1> QED BY <1>1, <1>2, <1>3, <1>4, <1>6, InstallGoes DEF Install!Working

LEMMA InstallUndoes == ASSUME InstallInv, NEW r \in Admin, Install!DeleteWebhook(r) PROVE InstallInv'
<1>1. installs[r].pc = "undoing" /\ Works(r) /\ installs[r].chan \in Chan
      /\ UNCHANGED <<channels, used, removed, edits, halts>> /\ installs' = [installs EXCEPT ![r].pc = "undone"]
  BY DEF Install!DeleteWebhook, Install!Is, Install!To, Works, Install!Working, InstallInv, InstallWork,
         Install!TypeOK
<1>2. PICK b \in Account : installs[r].acct = {b}
  BY <1>1, InstallKnows
<1>3. /\ hook' \in [Account -> Chan \cup {NoChan}] /\ marred' \subseteq Account /\ marred \subseteq marred'
      /\ \A a \in Account : installs[r].acct # {a} => hook'[a] = hook[a]
      /\ hook'[b] = NoChan \/ b \in marred'
  BY <1>1, <1>2 DEF Install!DeleteWebhook, InstallInv, Install!TypeOK
<1>4. installs'[r].pc = "undone" /\ installs'[r].chan = installs[r].chan
  BY <1>1 DEF InstallInv, Install!TypeOK
<1>5. ASSUME b \notin marred' PROVE Hooked(r, b)'
  <2>1. Hooked(r, b)
    BY <1>1, <1>2, <1>3, <1>5, InstallKnows
  <2> QED BY <1>1, <1>3, <1>4, <1>5, <2>1 DEF Hooked, Install!Rows
<1>6. "undone" \in Install!Working \cup {"over"} /\ "undone" \notin {"setting", "set"} /\ "undone" # "over"
  BY DEF Install!Working
<1>7. PICK pc \in Install!Working \cup {"over"} : pc = "undone"
  BY <1>6
<1> QED BY <1>1, <1>2, <1>3, <1>5, <1>6, <1>7, InstallGoes

(* A request asks, or is refused: it works on nothing yet.                   *)
LEMMA InstallAsks ==
  ASSUME InstallInv, NEW r \in Admin, ~ Works(r), NEW q,
         q \in [pc : {"asking", "over"}, chan : Chan \cup {NoChan}, acct : Install!One(Account)],
         installs' = [installs EXCEPT ![r] = q],
         UNCHANGED <<channels, used, hook, removed, marred, edits, halts>>
  PROVE  InstallInv'
<1>1. /\ installs' \in [Admin -> [pc : Install!Working \cup {"idle", "asking", "over"},
                                  chan : Chan \cup {NoChan}, acct : Install!One(Account) \cup {{}}]]
      /\ installs'[r] = q /\ \A s \in Admin \ {r} : installs'[s] = installs[s]
      /\ ~ Works(r)'
  BY DEF InstallInv, Install!TypeOK, Install!Working, Works
<1>2. Install!TypeOK'
  BY <1>1 DEF InstallInv, Install!TypeOK
<1>3. InstallRows'
  BY DEF InstallInv, InstallRows, Install!Rows
<1>4. InstallWork'
  BY <1>1 DEF InstallInv, InstallWork, Works, Install!Rows
<1>5. ASSUME NEW a \in Account \ marred' PROVE Tended(a)'
  <2>1. Install!On(a)' = Install!On(a) /\ \A s \in Install!On(a) : installs'[s] = installs[s]
    BY <1>1 DEF Install!On, Works
  <2> QED BY <1>5, <2>1 DEF InstallInv, Tended, Hooked, Linked, Install!Rows
<1> QED BY <1>2, <1>3, <1>4, <1>5 DEF InstallInv

LEMMA InstallBegins ==
  ASSUME InstallInv, NEW r \in Admin, Install!Refuse(r) \/ \E a \in Account : Install!Create(r, a)
  PROVE  InstallInv'
<1>1. CASE Install!Refuse(r)
  <2> DEFINE q == [installs[r] EXCEPT !.pc = "over"]
  <2>1. installs[r].pc = "asking" /\ ~ Works(r) /\ installs[r].acct \in Install!One(Account)
    BY <1>1 DEF Install!Refuse, Install!Is, Works, Install!Working, InstallInv, InstallWork
  <2>2. q \in [pc : {"asking", "over"}, chan : Chan \cup {NoChan}, acct : Install!One(Account)]
    BY <2>1 DEF InstallInv, Install!TypeOK
  <2>3. installs' = [installs EXCEPT ![r] = q] /\ UNCHANGED <<channels, used, hook, removed, marred, edits, halts>>
    BY <1>1 DEF Install!Refuse, Install!To
  <2> QED BY <2>1, <2>2, <2>3, InstallAsks
<1>2. ASSUME NEW a \in Account, Install!Create(r, a) PROVE InstallInv'
  <2> DEFINE q == [pc |-> "asking", chan |-> NoChan, acct |-> {a}]
  <2>1. ~ Works(r) /\ q \in [pc : {"asking", "over"}, chan : Chan \cup {NoChan}, acct : Install!One(Account)]
    BY <1>2 DEF Install!Create, Install!Is, Works, Install!Working, Install!One
  <2>2. installs' = [installs EXCEPT ![r] = q] /\ UNCHANGED <<channels, used, hook, removed, marred, edits, halts>>
    BY <1>2 DEF Install!Create
  <2> QED BY <2>1, <2>2, InstallAsks
<1> QED BY <1>1, <1>2


(* getMe has answered: the row is new, and so is its account.                *)
LEMMA InstallInserts ==
  ASSUME InstallInv, NEW r \in Admin, NEW c \in Chan, Install!Insert(r, c)
  PROVE  InstallInv'
<1>1. /\ installs[r].pc = "asking" /\ ~ Works(r) /\ c \notin used /\ c \notin Install!Rows
      /\ used' = used \cup {c} /\ UNCHANGED <<hook, removed, marred, edits, halts>>
  BY DEF Install!Insert, Install!Is, Works, Install!Working, InstallInv, InstallRows
<1>2. PICK b \in Account : installs[r].acct = {b} /\ Linked(b) = {}
                           /\ channels' = [channels EXCEPT ![c] = Install!NewRow(b)]
  <2>1. PICK b \in installs[r].acct : ~ Install!Connected(b)
                           /\ channels' = [channels EXCEPT ![c] = Install!NewRow(b)]
    BY DEF Install!Insert
  <2>2. b \in Account /\ installs[r].acct = {b}
    BY <1>1, <2>1 DEF InstallInv, InstallWork, Install!One
  <2> QED BY <2>1, <2>2 DEF Install!Connected, Linked
<1>3. PICK pc \in {"setting", "undoing"} :
        installs' = [installs EXCEPT ![r].pc = pc, ![r].chan = c]
  BY DEF Install!Insert
<1>4. /\ installs' \in [Admin -> [pc : Install!Working \cup {"idle", "asking", "over"},
                                  chan : Chan \cup {NoChan}, acct : Install!One(Account) \cup {{}}]]
      /\ installs'[r].pc = pc /\ installs'[r].chan = c /\ installs'[r].acct = {b}
      /\ \A s \in Admin \ {r} : installs'[s] = installs[s]
  BY <1>2, <1>3 DEF InstallInv, Install!TypeOK, Install!Working
<1>5. /\ channels'[c] = Install!NewRow(b) /\ Install!NewRow(b) # Install!NoRow
      /\ Install!NewRow(b).ext = {b} /\ Install!NewRow(b).creds = {b}
      /\ Install!NewRow(b) \in [ext : Install!One(Account), creds : Install!One(Account), active : BOOLEAN]
      /\ \A d \in Chan \ {c} : channels'[d] = channels[d]
      /\ channels' \in [Chan -> {Install!NoRow} \cup
              [ext : Install!One(Account), creds : Install!One(Account), active : BOOLEAN]]
  <2>1. Install!NewRow(b).ext # Install!NoRow.ext
    BY DEF Install!NewRow, Install!NoRow
  <2>2. Install!NewRow(b) \in [ext : Install!One(Account), creds : Install!One(Account), active : BOOLEAN]
    BY DEF Install!NewRow, Install!One
  <2> QED BY <1>2, <2>1, <2>2 DEF InstallInv, Install!TypeOK, Install!NewRow
<1>6. Install!Rows' = Install!Rows \cup {c}
  BY <1>1, <1>5 DEF Install!Rows
<1>7. Install!TypeOK'
  BY <1>1, <1>4, <1>5 DEF InstallInv, Install!TypeOK
<1>8. InstallRows'
  <2>1. \A d \in Install!Rows : d \in Chan \ {c} /\ channels'[d] = channels[d] /\ channels[d].ext # {b}
    BY <1>1, <1>2, <1>5 DEF Install!Rows, Linked
  <2>2. /\ \A d \in Install!Rows : d \in used
        /\ \A d, e \in Install!Rows : channels[d].ext = channels[e].ext => d = e
        /\ removed \subseteq used /\ removed \cap Install!Rows = {}
    BY DEF InstallInv, InstallRows
  <2>3. \A d, e \in Install!Rows' : channels'[d].ext = channels'[e].ext => d = e
    BY <1>5, <1>6, <2>1, <2>2
  <2>4. removed \subseteq used' /\ removed \cap Install!Rows' = {}
    BY <1>1, <1>6, <2>2
  <2> QED BY <1>1, <1>6, <2>2, <2>3, <2>4 DEF InstallRows
<1>9. InstallWork'
  <2> SUFFICES ASSUME NEW s \in Admin
               PROVE  /\ (Works(s) \/ installs[s].pc = "asking" => installs[s].acct \in Install!One(Account))'
                      /\ (Works(s) => installs[s].chan \in used)'
                      /\ (Works(s) /\ installs[s].chan \in Install!Rows =>
                            installs[s].acct = channels[installs[s].chan].ext)'
    BY DEF InstallWork
  <2>1. CASE s = r
    BY <1>1, <1>4, <1>5, <2>1 DEF Install!One
  <2>2. CASE s # r
    <3>1. Works(s) => installs[s].chan \in used /\ installs[s].chan # c
      BY <1>1 DEF InstallInv, InstallWork
    <3>2. Works(s) /\ installs[s].chan \in Install!Rows => channels'[installs[s].chan] = channels[installs[s].chan]
      BY <1>5, <3>1 DEF Install!Rows
    <3> QED BY <1>1, <1>4, <1>6, <2>2, <3>1, <3>2 DEF InstallInv, InstallWork, Works
  <2> QED BY <2>1, <2>2
<1>10. ASSUME NEW a \in Account \ marred', a # b PROVE Tended(a)'
  <2>1. Install!On(a)' = Install!On(a) /\ \A s \in Install!On(a) : installs'[s] = installs[s] /\ Works(s)
    BY <1>1, <1>4, <1>10 DEF Install!On, Works
  <2>2. Linked(a)' = Linked(a)
    BY <1>1, <1>5, <1>6, <1>10 DEF Linked, Install!Rows
  <2>3. \A s \in Install!On(a) : installs[s].chan # c
    BY <1>1, <2>1 DEF InstallInv, InstallWork, Install!On
  <2>4. \A s \in Install!On(a) : Hooked(s, a) => Hooked(s, a)'
    BY <1>1, <1>5, <1>6, <2>1, <2>3 DEF Hooked, Install!Rows
  <2> QED BY <1>1, <1>10, <2>1, <2>2, <2>4 DEF InstallInv, Tended
<1>11. ASSUME b \notin marred' PROVE Tended(b)'
  <2>0. Tended(b)
    BY <1>1, <1>11 DEF InstallInv
  <2>1. Install!On(b) = {}
    BY <1>2, <2>0 DEF Tended, Hooked, Linked
  <2>11. hook[b] \in {NoChan} \cup removed
    BY <1>2, <2>0, <2>1 DEF Tended
  <2>2. Install!On(b)' = {r}
    BY <1>4, <2>1 DEF Install!On, Install!Working
  <2>3. Hooked(r, b)'
    BY <1>1, <1>4, <1>5, <1>6, <2>11 DEF Hooked
  <2> QED BY <2>2, <2>3 DEF Tended
<1> QED BY <1>7, <1>8, <1>9, <1>10, <1>11 DEF InstallInv

(* Rows change what is neither their account nor their number; nobody is
   disturbed.                                                                *)
LEMMA InstallEdits ==
  ASSUME InstallInv, Install!TypeOK', UNCHANGED <<used, hook, removed, marred>>,
         \A r \in Admin : installs'[r].pc = installs[r].pc /\ installs'[r].chan = installs[r].chan
                          /\ installs'[r].acct = installs[r].acct,
         Install!Rows' = Install!Rows,
         \A c \in Install!Rows : channels'[c].ext = channels[c].ext
  PROVE  InstallInv'
<1>1. InstallRows' /\ InstallWork'
  BY DEF InstallInv, InstallRows, InstallWork, Works
<1>2. ASSUME NEW a \in Account \ marred' PROVE Tended(a)'
  <2>1. Install!On(a)' = Install!On(a) /\ Linked(a)' = Linked(a)
    BY DEF Install!On, Linked
  <2>2. \A r \in Install!On(a) : Hooked(r, a) => Hooked(r, a)'
    BY DEF Hooked, Install!On
  <2> QED BY <1>2, <2>1, <2>2 DEF InstallInv, Tended
<1> QED BY <1>1, <1>2 DEF InstallInv

LEMMA InstallRowEdits ==
  ASSUME Install!InstallAssumption, InstallInv, NEW c \in Chan,
         \/ \E a \in Account : Install!PutSecrets(c, a)
         \/ \E active \in BOOLEAN : Install!SetActive(c, active)
  PROVE  InstallInv'
<1>1. /\ c \in Install!Rows /\ edits' = edits + 1 /\ edits < MaxEdit /\ edits \in Nat /\ MaxEdit \in Nat
      /\ UNCHANGED <<used, hook, installs, removed, marred, halts>>
  BY DEF Install!PutSecrets, Install!SetActive, InstallInv, Install!TypeOK, Install!InstallAssumption
<1> DEFINE row3 == [ext : Install!One(Account), creds : Install!One(Account), active : BOOLEAN]
<1>2. channels[c] \in row3 /\ Install!NoRow \notin row3 /\ channels \in [Chan -> {Install!NoRow} \cup row3]
  BY <1>1, RowTyped DEF InstallInv, Install!TypeOK
<1>3. ASSUME NEW q \in row3, q.ext = channels[c].ext, channels' = [channels EXCEPT ![c] = q]
      PROVE  InstallInv'
  <2>1. /\ channels' \in [Chan -> {Install!NoRow} \cup row3] /\ channels'[c] = q
        /\ \A d \in Chan \ {c} : channels'[d] = channels[d]
    BY <1>2, <1>3
  <2>2. Install!TypeOK'
    BY <1>1, <1>3, <2>1 DEF InstallInv, Install!TypeOK
  <2>3. Install!Rows' = Install!Rows
    BY <1>1, <1>2, <2>1 DEF Install!Rows
  <2>4. \A d \in Install!Rows : channels'[d].ext = channels[d].ext
    BY <1>3, <2>1 DEF Install!Rows
  <2> QED BY <1>1, <2>2, <2>3, <2>4, InstallEdits
<1>4. ASSUME NEW a \in Account, Install!PutSecrets(c, a) PROVE InstallInv'
  <2> DEFINE q == [channels[c] EXCEPT !.creds = {a}]
  <2>1. q \in row3 /\ q.ext = channels[c].ext /\ channels' = [channels EXCEPT ![c] = q]
    BY <1>2, <1>4 DEF Install!PutSecrets, Install!One
  <2> QED BY <1>3, <2>1
<1>5. ASSUME NEW active \in BOOLEAN, Install!SetActive(c, active) PROVE InstallInv'
  <2> DEFINE q == [channels[c] EXCEPT !.active = active]
  <2>1. q \in row3 /\ q.ext = channels[c].ext /\ channels' = [channels EXCEPT ![c] = q]
    BY <1>2, <1>5 DEF Install!SetActive
  <2> QED BY <1>3, <2>1
<1> QED BY <1>4, <1>5

(* A row is removed: its account had the webhook on it, or is marred.        *)
LEMMA InstallDeletes ==
  ASSUME Install!InstallAssumption, InstallInv, NEW c \in Chan, Install!Delete(c)
  PROVE  InstallInv'
<1> DEFINE row3 == [ext : Install!One(Account), creds : Install!One(Account), active : BOOLEAN]
<1>1. /\ c \in Install!Rows /\ edits' = edits + 1 /\ edits < MaxEdit /\ edits \in Nat /\ MaxEdit \in Nat
      /\ channels' = [channels EXCEPT ![c] = Install!NoRow] /\ removed' = removed \cup {c}
      /\ marred' = marred \cup {a \in channels[c].ext : Install!On(a) # {}}
      /\ UNCHANGED <<used, hook, installs, halts>>
  BY DEF Install!Delete, InstallInv, Install!TypeOK, Install!InstallAssumption
<1>2. /\ channels[c].ext \in Install!One(Account) /\ channels[c].ext \subseteq Account
      /\ channels \in [Chan -> {Install!NoRow} \cup row3]
  BY <1>1, RowTyped DEF InstallInv, Install!TypeOK, Install!One
<1>3. PICK b \in Account : channels[c].ext = {b}
  BY <1>2 DEF Install!One
<1>4. /\ channels' \in [Chan -> {Install!NoRow} \cup row3] /\ channels'[c] = Install!NoRow
      /\ \A d \in Chan \ {c} : channels'[d] = channels[d]
  BY <1>1, <1>2
<1>5. Install!TypeOK'
  BY <1>1, <1>2, <1>4 DEF InstallInv, Install!TypeOK
<1>6. Install!Rows' = Install!Rows \ {c} /\ \A d \in Install!Rows' : channels'[d] = channels[d]
  BY <1>4 DEF Install!Rows
<1>7. InstallRows'
  BY <1>1, <1>6 DEF InstallInv, InstallRows
<1>8. InstallWork'
  BY <1>1, <1>6 DEF InstallInv, InstallWork, Works
<1>9. ASSUME NEW a \in Account \ marred', a # b PROVE Tended(a)'
  <2>1. Install!On(a)' = Install!On(a) /\ a \notin marred /\ c \notin removed
    BY <1>1, <1>9 DEF Install!On, InstallInv, InstallRows
  <2>2. Linked(a)' = Linked(a) /\ c \notin Linked(a)
    BY <1>3, <1>6, <1>9 DEF Linked
  <2>3. Tended(a)
    BY <2>1, <1>9 DEF InstallInv
  <2>4. \A s \in Install!On(a) : Hooked(s, a) => Hooked(s, a)'
    BY <1>1, <1>3, <1>6, <1>9 DEF Hooked, Install!On
  <2>5. ASSUME Install!On(a) = {} PROVE Linked(a) = {hook[a]} \ ({NoChan} \cup removed')
    <3>1. Linked(a) = {hook[a]} \ ({NoChan} \cup removed)
      BY <2>3, <2>5 DEF Tended
    <3> QED BY <1>1, <2>1, <2>2, <3>1
  <2> QED BY <1>1, <2>1, <2>2, <2>3, <2>4, <2>5 DEF Tended
<1>10. ASSUME b \notin marred' PROVE Tended(b)'
  <2>1. b \notin marred /\ Install!On(b) = {} /\ Install!On(b)' = {}
    BY <1>1, <1>3, <1>10 DEF Install!On
  <2>2. Linked(b) = {hook[b]} \ ({NoChan} \cup removed) /\ c \in Linked(b)
    BY <1>1, <1>3, <2>1 DEF InstallInv, Tended, Linked
  <2>3. hook[b] = c /\ Linked(b)' = {}
    BY <1>6, <2>2 DEF Linked
  <2> QED BY <1>1, <2>1, <2>3 DEF Tended
<1> QED BY <1>5, <1>7, <1>8, <1>9, <1>10 DEF InstallInv


(* A request is done, with the account it worked on and with the row.        *)
LEMMA InstallEnds ==
  ASSUME InstallInv, NEW r \in Admin, Works(r), Install!TypeOK',
         installs' = [installs EXCEPT ![r].pc = "over"], UNCHANGED <<used, hook, removed, marred>>,
         \A c \in Install!Rows' : c \in Install!Rows /\ channels'[c].ext = channels[c].ext,
         \A c \in Install!Rows : c \in Install!Rows' \/ c = installs[r].chan,
         NEW b \in Account, installs[r].acct = {b},
         b \notin marred => Linked(b)' = {hook[b]} \ ({NoChan} \cup removed)
  PROVE  InstallInv'
<1>1. /\ installs'[r].pc = "over" /\ \A s \in Admin \ {r} : installs'[s] = installs[s]
  BY DEF InstallInv, Install!TypeOK
<1>2. ~ Works(r)' /\ \A s \in Admin \ {r} : Works(s)' = Works(s)
  BY <1>1 DEF Works, Install!Working
<1>3. InstallRows'
  BY DEF InstallInv, InstallRows
<1>4. InstallWork'
  <2> SUFFICES ASSUME NEW s \in Admin, s # r
               PROVE  /\ (Works(s) \/ installs[s].pc = "asking" => installs[s].acct \in Install!One(Account))'
                      /\ (Works(s) => installs[s].chan \in used)'
                      /\ (Works(s) /\ installs[s].chan \in Install!Rows =>
                            installs[s].acct = channels[installs[s].chan].ext)'
    BY <1>1, <1>2 DEF InstallWork
  <2> QED BY <1>1, <1>2 DEF InstallInv, InstallWork
<1>5. ASSUME NEW a \in Account \ marred, a # b PROVE Tended(a)'
  <2>1. Install!On(a)' = Install!On(a) /\ r \notin Install!On(a)
    BY <1>1, <1>5 DEF Install!On
  <2>2. \A s \in Install!On(a) : installs'[s] = installs[s] /\ Works(s)
    BY <1>1, <2>1 DEF Install!On, Works
  <2>3. installs[r].chan \in Install!Rows => channels[installs[r].chan].ext # {a}
    BY <1>5 DEF InstallInv, InstallWork
  <2>4. Linked(a)' = Linked(a)
    BY <2>3 DEF Linked
  <2>5. \A s \in Install!On(a) : Hooked(s, a) => Hooked(s, a)'
    BY <2>2, <2>3 DEF Hooked
  <2> QED BY <1>5, <2>1, <2>4, <2>5 DEF InstallInv, Tended
<1>6. ASSUME b \notin marred PROVE Tended(b)'
  <2>1. Install!On(b) = {r}
    BY <1>6, InstallKnows
  <2>2. Install!On(b)' = {}
    BY <1>1, <2>1 DEF Install!On, Install!Working
  <2> QED BY <1>6, <2>2 DEF Tended
<1> QED BY <1>3, <1>4, <1>5, <1>6 DEF InstallInv

LEMMA InstallCloses ==
  ASSUME Install!InstallAssumption, InstallInv, NEW r \in Admin,
         Install!Installed(r) \/ Install!DeleteRow(r)
  PROVE  InstallInv'
<1> DEFINE row3 == [ext : Install!One(Account), creds : Install!One(Account), active : BOOLEAN]
           d == installs[r].chan
<1>1. /\ Works(r) /\ installs' = [installs EXCEPT ![r].pc = "over"] /\ UNCHANGED <<used, hook, removed, marred, edits, halts>>
      /\ Install!NoRow \notin row3 /\ channels \in [Chan -> {Install!NoRow} \cup row3]
      /\ \A c \in Install!Rows : channels[c] \in row3
  BY RowTyped DEF Install!Installed, Install!DeleteRow, Install!Is, Install!To, Works, Install!Working,
                  InstallInv, Install!TypeOK
<1>2. PICK b \in Account : installs[r].acct = {b}
  BY <1>1, InstallKnows
<1>3. installs' \in [Admin -> [pc : Install!Working \cup {"idle", "asking", "over"},
                               chan : Chan \cup {NoChan}, acct : Install!One(Account) \cup {{}}]]
  BY <1>1 DEF InstallInv, Install!TypeOK
<1>4. b \notin marred => Linked(b) = {d} /\ Hooked(r, b)
  BY <1>1, <1>2, InstallKnows
<1>5. CASE Install!Installed(r)
  <2>1. installs[r].pc = "set" /\ (d \in Install!Rows => channels[d].ext = {b}) /\ {b} \in Install!One(Account)
    BY <1>1, <1>2, <1>5 DEF Install!Installed, Install!Is, InstallInv, InstallWork, Install!One
  <2>2. channels' = [c \in Chan |-> IF c = d /\ c \in Install!Rows THEN [channels[c] EXCEPT !.creds = {b}]
                                    ELSE channels[c]]
    BY <1>2, <1>5 DEF Install!Installed
  <2>3. \A c \in Chan \ {d} : channels'[c] = channels[c]
    BY <2>2
  <2>4. d \in Chan => IF d \in Install!Rows
                      THEN channels'[d] \in row3 /\ channels'[d].ext = {b} /\ channels'[d].creds = {b}
                      ELSE channels'[d] = channels[d]
    BY <1>1, <2>1, <2>2
  <2>5. channels' \in [Chan -> {Install!NoRow} \cup row3]
    BY <1>1, <2>2, <2>3, <2>4
  <2>6. Install!TypeOK'
    BY <1>1, <1>3, <2>5 DEF InstallInv, Install!TypeOK
  <2>7. Install!Rows' = Install!Rows
    BY <1>1, <2>3, <2>4 DEF Install!Rows
  <2>8. \A c \in Install!Rows : channels'[c].ext = channels[c].ext
    BY <2>1, <2>3, <2>4 DEF Install!Rows
  <2>9. ASSUME b \notin marred PROVE Linked(b)' = {hook[b]} \ ({NoChan} \cup removed)
    <3>1. Linked(b)' = Linked(b)
      BY <2>7, <2>8 DEF Linked
    <3>2. hook[b] = d /\ d \in Install!Rows /\ d \notin removed /\ Linked(b) = {d}
      BY <1>4, <2>1, <2>9 DEF Hooked, InstallInv, InstallRows
    <3> QED BY <3>1, <3>2 DEF Install!Rows, Install!InstallAssumption
  <2> QED BY <1>1, <1>2, <2>6, <2>7, <2>8, <2>9, InstallEnds
<1>6. CASE Install!DeleteRow(r)
  <2>1. installs[r].pc = "undone" /\ channels' = [channels EXCEPT ![d] = Install!NoRow]
    BY <1>6 DEF Install!DeleteRow, Install!Is
  <2>2. /\ channels' \in [Chan -> {Install!NoRow} \cup row3] /\ (d \in Chan => channels'[d] = Install!NoRow)
        /\ \A c \in Chan \ {d} : channels'[c] = channels[c]
    BY <1>1, <2>1
  <2>3. Install!TypeOK'
    BY <1>1, <1>3, <2>2 DEF InstallInv, Install!TypeOK
  <2>4. Install!Rows' = Install!Rows \ {d} /\ \A c \in Install!Rows' : channels'[c] = channels[c]
    BY <2>2 DEF Install!Rows
  <2>5. ASSUME b \notin marred PROVE Linked(b)' = {hook[b]} \ ({NoChan} \cup removed)
    <3>1. Linked(b)' = {}
      BY <1>4, <2>4, <2>5 DEF Linked
    <3> QED BY <1>4, <2>1, <2>5, <3>1 DEF Hooked
  <2> QED BY <1>1, <1>2, <2>3, <2>4, <2>5, InstallEnds
<1> QED BY <1>5, <1>6

LEMMA InstallHalts == ASSUME InstallInv, Install!Halt, MaxCrash \in Nat PROVE InstallInv'
<1>1. /\ halts' = halts + 1 /\ halts' \in 0..MaxCrash /\ UNCHANGED <<channels, used, hook, removed, edits>>
      /\ marred' = marred \cup {a \in Account : Install!On(a) # {}}
      /\ installs' = [r \in Admin |-> IF Install!Is(r, "idle") THEN Install!Idle
                                      ELSE [installs[r] EXCEPT !.pc = "over"]]
  BY DEF Install!Halt, InstallInv, Install!TypeOK
<1>2. /\ installs' \in [Admin -> [pc : Install!Working \cup {"idle", "asking", "over"},
                                  chan : Chan \cup {NoChan}, acct : Install!One(Account) \cup {{}}]]
      /\ \A r \in Admin : installs'[r].pc \in {"idle", "over"}
  BY <1>1 DEF InstallInv, Install!TypeOK, Install!Is, Install!Idle
<1>3. Install!TypeOK' /\ Install!Rows' = Install!Rows
  BY <1>1, <1>2 DEF InstallInv, Install!TypeOK, Install!Rows
<1>4. InstallRows' /\ InstallWork'
  BY <1>1, <1>2, <1>3 DEF InstallInv, InstallRows, InstallWork, Works, Install!Working
<1>5. ASSUME NEW a \in Account \ marred' PROVE Tended(a)'
  <2>1. Install!On(a) = {} /\ Install!On(a)' = {}
    BY <1>1, <1>2, <1>5 DEF Install!On, Install!Working
  <2> QED BY <1>1, <1>3, <1>5, <2>1 DEF InstallInv, Tended, Linked
<1> QED BY <1>3, <1>4, <1>5 DEF InstallInv

LEMMA InstallStep ==
  ASSUME Install!InstallAssumption, InstallInv, [Install!Next]_installVars PROVE InstallInv'
<1>1. CASE UNCHANGED installVars
  <2>1. Install!TypeOK'
    BY <1>1 DEF installVars, InstallInv, Install!TypeOK
  <2>2. Install!Rows' = Install!Rows
    BY <1>1 DEF installVars, Install!Rows
  <2> QED BY <1>1, <2>1, <2>2, InstallEdits DEF installVars
<1>2. CASE Install!Next
  BY <1>2, InstallSet, InstallUndoes, InstallBegins, InstallInserts, InstallRowEdits, InstallCloses,
     InstallDeletes, InstallHalts DEF Install!Next, Install!InstallAssumption
<1> QED BY <1>1, <1>2

LEMMA InstallGood == InstallInv => HookMatches
BY DEF InstallInv, HookMatches, Install!HookMatches, Tended, Linked

-----------------------------------------------------------------------------
(* ChannelTokens.  A refresh token that rotates is known to whoever asks with
   it, up to answers that were lost.                                         *)
Rotating == {"refresh", "rotates"} \subseteq strategy
AtWork(q) == q.pc \in {"asking", "granted"}
Old(gen, exp) == gen = saves \/ exp <= saved + Lifetime \/ late

(* What a delivery has read, and what it may rely on.                        *)
Informed(q) ==
  /\ q \in Tokens!Deliveries
  /\ q.seen.gen <= saves /\ q.seen.exp <= hour + Lifetime /\ Old(q.seen.gen, q.seen.exp)
  /\ q.pc = "waiting" => "refresh" \in strategy
  /\ AtWork(q) /\ "minted" \notin strategy => "refresh" \in strategy /\ (raced \/ q.seen = secrets)
  /\ Rotating /\ q.pc = "asking" => q.seen.ref = grant[q.seen.gen] \/ q.seen.gen \in lost
  /\ Rotating /\ q.pc = "granted" => q.seen.ref + 1 = grant[q.seen.gen] \/ q.seen.gen \in lost

OneRefreshes ==
  "refresh" \in strategy =>
    \A d, e \in Delivery : AtWork(delivery[d]) /\ AtWork(delivery[e]) => d = e

TokensKept ==
  /\ secrets.gen <= saves /\ secrets.exp <= hour + Lifetime /\ (secrets.gen = saves \/ late)
  /\ minted.gen <= saves /\ minted.exp <= hour + Lifetime /\ Old(minted.gen, minted.exp)
  /\ \A g \in Tokens!Generations : g > saves => grant[g] = 0
  /\ secrets.gen = saves \/ raced

RefreshCounts ==
  Rotating => \/ secrets.ref = grant[secrets.gen] \/ secrets.gen \in lost
              \/ \E d \in Delivery : delivery[d].pc = "granted" /\ delivery[d].seen.gen = secrets.gen

TokensInv ==
  /\ Tokens!TypeOK /\ \A d \in Delivery : Informed(delivery[d])
  /\ OneRefreshes /\ TokensKept /\ RefreshCounts


LEMMA TokensTyped ==
  ASSUME Tokens!TokensAssumption, Tokens!TypeOK
  PROVE  /\ hour \in Nat /\ saves \in Nat /\ saved \in Nat /\ Lifetime \in Nat \ {0} /\ MaxSave \in Nat
         /\ saves <= MaxSave /\ MaxHour \in Nat /\ MaxKill \in Nat /\ restarts \in 0..MaxKill
         /\ late \in BOOLEAN /\ raced \in BOOLEAN
         /\ secrets \in Tokens!Secrets
         /\ secrets.gen \in Tokens!Generations /\ secrets.ref \in Nat /\ secrets.exp \in Nat
         /\ minted.gen \in Tokens!Generations /\ minted.exp \in Nat
         /\ Tokens!Generations \subseteq Nat /\ 0 \in Tokens!Generations
         /\ "minted" \in strategy => strategy = {"minted"}
BY DEF Tokens!TokensAssumption, Tokens!TypeOK, Tokens!Generations, Tokens!Secrets, Tokens!Strategies

LEMMA DeliveryTyped ==
  ASSUME NEW q \in Tokens!Deliveries
  PROVE  /\ q.seen \in Tokens!Secrets /\ q.seen.gen \in Tokens!Generations /\ q.seen.ref \in Nat
         /\ q.seen.exp \in Nat /\ q.got.gen \in Tokens!Generations /\ q.got.exp \in Nat
BY DEF Tokens!Deliveries, Tokens!Secrets

LEMMA RestInformed ==
  ASSUME Tokens!TokensAssumption, Tokens!TypeOK
  PROVE  Informed(Tokens!Idle) /\ Tokens!Idle.pc = "idle" /\ Tokens!Idle.seen.gen = 0
<1>1. Tokens!Idle \in Tokens!Deliveries /\ Tokens!Idle.pc = "idle"
      /\ Tokens!Idle.seen.gen = 0 /\ Tokens!Idle.seen.exp = 0
  BY TokensTyped DEF Tokens!Idle, Tokens!Deliveries, Tokens!Secrets, Tokens!Nothing
<1> QED BY <1>1, TokensTyped DEF Informed, AtWork, Old

LEMMA TokensInit == ASSUME Tokens!TokensAssumption, Tokens!Init PROVE TokensInv
<1>1. /\ hour = 0 /\ saves = 0 /\ saved = 0 /\ restarts = 0 /\ late = FALSE /\ raced = FALSE /\ lost = {}
      /\ strategy \in Tokens!Strategies /\ secrets = Tokens!Written(0)
      /\ grant = [g \in Tokens!Generations |-> 0] /\ minted = Tokens!Nothing
      /\ delivery = [d \in Delivery |-> Tokens!Idle]
  BY DEF Tokens!Init
<1>2. /\ MaxSave \in Nat /\ MaxHour \in Nat /\ MaxKill \in Nat /\ Lifetime \in Nat
      /\ 0 \in Tokens!Generations /\ Tokens!Generations \subseteq Nat
  BY DEF Tokens!TokensAssumption, Tokens!Generations
<1>3. /\ secrets \in Tokens!Secrets /\ secrets.gen = 0 /\ secrets.ref = 0 /\ secrets.exp = Lifetime
      /\ minted \in [gen : Tokens!Generations, exp : Nat] /\ minted.gen = 0 /\ minted.exp = 0
  BY <1>1, <1>2 DEF Tokens!Written, Tokens!Secrets, Tokens!Nothing
<1>4. Tokens!Idle \in Tokens!Deliveries
  BY <1>2 DEF Tokens!Idle, Tokens!Deliveries, Tokens!Secrets, Tokens!Nothing
<1>5. Tokens!TypeOK
  <2>1. /\ hour \in 0..MaxHour /\ saved \in 0..MaxHour /\ restarts \in 0..MaxKill
        /\ saves \in Tokens!Generations
    BY <1>1, <1>2
  <2>3. {late, raced} \subseteq BOOLEAN
    BY <1>1
  <2>2. grant \in [Tokens!Generations -> Nat] /\ delivery \in [Delivery -> Tokens!Deliveries]
    BY <1>1, <1>4
  <2> QED BY <1>1, <1>3, <2>1, <2>2, <2>3 DEF Tokens!TypeOK
<1>6. \A d \in Delivery : Informed(delivery[d])
  BY <1>1, <1>5, RestInformed
<1>7. OneRefreshes
  BY <1>1, <1>5, RestInformed DEF OneRefreshes, AtWork
<1>8. TokensKept /\ RefreshCounts
  BY <1>1, <1>2, <1>3 DEF TokensKept, RefreshCounts, Old
<1> QED BY <1>5, <1>6, <1>7, <1>8 DEF TokensInv

(* What is known of a delivery that is under way.                            *)
LEMMA TokenKnows ==
  ASSUME TokensInv, NEW d \in Delivery
  PROVE  delivery[d] \in Tokens!Deliveries /\ Informed(delivery[d])
BY DEF TokensInv, Informed

(* A delivery goes on and changes nothing else.                              *)
LEMMA TokenMoves ==
  ASSUME TokensInv, NEW d \in Delivery, NEW q, Informed(q),
         AtWork(q) /\ "refresh" \in strategy => ~ Tokens!Locked,
         delivery[d].pc # "granted", delivery' = [delivery EXCEPT ![d] = q],
         UNCHANGED <<hour, strategy, grant, secrets, minted, saves, restarts, saved, late, raced, lost>>
  PROVE  TokensInv'
<1>1. /\ delivery' \in [Delivery -> Tokens!Deliveries] /\ delivery'[d] = q
      /\ \A e \in Delivery \ {d} : delivery'[e] = delivery[e]
  BY DEF TokensInv, Tokens!TypeOK, Informed
<1>2. Tokens!TypeOK'
  BY <1>1 DEF TokensInv, Tokens!TypeOK
<1>3. ASSUME NEW e \in Delivery PROVE Informed(delivery[e])'
  <2>1. PICK x : x = delivery'[e] /\ Informed(x)
    BY <1>1, TokenKnows
  <2>2. Informed(x)'
    BY <2>1 DEF Informed, Rotating, Old
  <2> QED BY <2>1, <2>2 DEF Informed, AtWork
<1>4. OneRefreshes'
  BY <1>1 DEF TokensInv, OneRefreshes, AtWork, Tokens!Locked, Tokens!Is
<1>5. TokensKept'
  BY DEF TokensInv, TokensKept, Old
<1>6. RefreshCounts'
  BY <1>1 DEF TokensInv, RefreshCounts, Rotating
<1> QED BY <1>2, <1>3, <1>4, <1>5, <1>6 DEF TokensInv

(* With the lock the row is read again.                                      *)
LEMMA Refreshes ==
  ASSUME Tokens!TokensAssumption, TokensInv, NEW d \in Delivery, delivery[d].pc \in {"loaded", "waiting"},
         "refresh" \in strategy, ~ Tokens!Locked, Tokens!Refresh(d),
         UNCHANGED <<hour, strategy, grant, secrets, minted, saves, restarts, saved, late, raced, lost>>
  PROVE  /\ TokensInv'
         /\ Tokens!At(d, "has")' => /\ delivery'[d].got.exp > hour
                                    /\ delivery'[d].got.gen = saves \/ late'
<1>1. /\ secrets \in Tokens!Secrets /\ secrets.gen <= saves /\ secrets.exp <= hour + Lifetime
      /\ (secrets.gen = saves \/ late) /\ delivery[d] \in Tokens!Deliveries /\ Informed(delivery[d])
      /\ secrets.gen \in Tokens!Generations /\ secrets.exp \in Nat
  BY TokensTyped, TokenKnows DEF TokensInv, TokensKept
<1>2. CASE secrets.exp > hour
  <2> DEFINE q == [delivery[d] EXCEPT !.pc = "has", !.got = [gen |-> secrets.gen, exp |-> secrets.exp]]
  <2>1. q \in Tokens!Deliveries /\ q.pc = "has" /\ q.seen = delivery[d].seen
        /\ q.got.gen = secrets.gen /\ q.got.exp = secrets.exp
    BY <1>1 DEF Tokens!Deliveries
  <2>2. Informed(q) /\ ~ AtWork(q)
    BY <1>1, <2>1 DEF Informed, AtWork
  <2>3. delivery' = [delivery EXCEPT ![d] = q] /\ delivery'[d] = q
    BY <1>2, <2>1 DEF Tokens!Refresh, Tokens!Reread, Tokens!Has, TokensInv, Tokens!TypeOK
  <2> QED BY <1>1, <1>2, <2>1, <2>2, <2>3, TokenMoves
<1>3. CASE ~ (secrets.exp > hour)
  <2> DEFINE q == [pc |-> "asking", seen |-> secrets, got |-> Tokens!Nothing]
  <2>1. q \in Tokens!Deliveries
    BY <1>1, TokensTyped DEF Tokens!Deliveries, Tokens!Nothing, TokensInv
  <2>2. Rotating => secrets.ref = grant[secrets.gen] \/ secrets.gen \in lost
    BY DEF TokensInv, RefreshCounts, Tokens!Locked, Tokens!Is
  <2>3. Informed(q)
    BY <1>1, <2>1, <2>2 DEF Informed, AtWork, Old
  <2>4. delivery' = [delivery EXCEPT ![d] = q]
    BY <1>3 DEF Tokens!Refresh, Tokens!Reread, Tokens!Become
  <2>5. ~ Tokens!At(d, "has")'
    BY <2>4 DEF Tokens!At, TokensInv, Tokens!TypeOK
  <2> QED BY <2>3, <2>4, <2>5, TokenMoves
<1> QED BY <1>2, <1>3


(* The token in the cache, or the one that was read.                         *)
LEMMA TokensTaken ==
  ASSUME Tokens!TokensAssumption, TokensInv, NEW d \in Delivery,
         Tokens!TakeMinted(d) \/ Tokens!TakeStored(d) \/ Tokens!Wake(d)
  PROVE  /\ TokensInv'
         /\ Tokens!At(d, "has")' =>
              \/ strategy \cap {"minted", "refresh"} = {}
              \/ /\ delivery'[d].got.exp > hour
                 /\ delivery'[d].got.gen = saves \/ hour < saved + Lifetime \/ late'
         /\ \A e \in Delivery \ {d} : delivery'[e] = delivery[e]
         /\ UNCHANGED <<strategy, hour>>
<1>1. /\ UNCHANGED <<hour, strategy, grant, secrets, minted, saves, restarts, saved, late, raced, lost>>
      /\ delivery[d] \in Tokens!Deliveries /\ Informed(delivery[d])
      /\ delivery[d].pc \in {"loaded", "waiting"} /\ delivery \in [Delivery -> Tokens!Deliveries]
  BY TokenKnows DEF Tokens!TakeMinted, Tokens!TakeStored, Tokens!Wake, Tokens!platform, Tokens!counts,
                    Tokens!past, Tokens!At, TokensInv, Tokens!TypeOK
<1>2. /\ delivery[d].seen \in Tokens!Secrets /\ delivery[d].seen.gen \in Tokens!Generations
      /\ delivery[d].seen.exp \in Nat /\ hour \in Nat /\ saved \in Nat /\ Lifetime \in Nat \ {0}
      /\ minted.gen \in Tokens!Generations /\ minted.exp \in Nat /\ Old(minted.gen, minted.exp)
  BY <1>1, DeliveryTyped, TokensTyped DEF TokensInv, TokensKept
<1>3. ASSUME NEW gen \in Tokens!Generations, NEW exp \in Nat, Tokens!Has(d, gen, exp)
      PROVE  /\ TokensInv' /\ delivery'[d].got.exp = exp /\ delivery'[d].got.gen = gen
             /\ \A e \in Delivery \ {d} : delivery'[e] = delivery[e]
  <2> DEFINE q == [delivery[d] EXCEPT !.pc = "has", !.got = [gen |-> gen, exp |-> exp]]
  <2>1. q \in Tokens!Deliveries /\ q.pc = "has" /\ q.seen = delivery[d].seen
        /\ q.got.gen = gen /\ q.got.exp = exp
    BY <1>1 DEF Tokens!Deliveries
  <2>2. Informed(q) /\ ~ AtWork(q)
    BY <1>1, <2>1 DEF Informed, AtWork
  <2>3. delivery' = [delivery EXCEPT ![d] = q] /\ delivery'[d] = q
    BY <1>1, <1>3, <2>1 DEF Tokens!Has
  <2> QED BY <1>1, <2>1, <2>2, <2>3, TokenMoves
<1>4. CASE Tokens!TakeMinted(d)
  <2>1. CASE minted.exp > hour
    <3>1. Tokens!Has(d, minted.gen, minted.exp)
      BY <1>4, <2>1 DEF Tokens!TakeMinted
    <3>2. minted.gen = saves \/ hour < saved + Lifetime \/ late'
      BY <1>1, <1>2, <2>1 DEF Old
    <3> QED BY <1>1, <1>2, <1>3, <2>1, <3>1, <3>2
  <2>2. CASE ~ (minted.exp > hour)
    <3> DEFINE q == [delivery[d] EXCEPT !.pc = "asking"]
    <3>1. q \in Tokens!Deliveries /\ q.pc = "asking" /\ q.seen = delivery[d].seen
      BY <1>1 DEF Tokens!Deliveries
    <3>2. "minted" \in strategy /\ strategy = {"minted"} /\ "refresh" \notin strategy
      BY <1>4, TokensTyped DEF Tokens!TakeMinted, Tokens!Is, TokensInv
    <3>3. Informed(q)
      BY <1>1, <3>1, <3>2 DEF Informed, AtWork, Rotating
    <3>4. delivery' = [delivery EXCEPT ![d] = q] /\ ~ Tokens!At(d, "has")'
          /\ \A e \in Delivery \ {d} : delivery'[e] = delivery[e]
      BY <1>1, <1>4, <2>2, <3>1 DEF Tokens!TakeMinted, Tokens!Goto, Tokens!At
    <3> QED BY <1>1, <3>2, <3>3, <3>4, TokenMoves
  <2> QED BY <2>1, <2>2
<1>5. ASSUME "refresh" \in strategy, ~ Tokens!Locked, Tokens!Refresh(d)
      PROVE  /\ TokensInv' /\ \A e \in Delivery \ {d} : delivery'[e] = delivery[e]
             /\ Tokens!At(d, "has")' => delivery'[d].got.exp > hour /\ (delivery'[d].got.gen = saves \/ late')
  <2>1. TokensInv' /\ (Tokens!At(d, "has")' => delivery'[d].got.exp > hour
                                               /\ (delivery'[d].got.gen = saves \/ late'))
    BY <1>1, <1>5, Refreshes
  <2>2. \A e \in Delivery \ {d} : delivery'[e] = delivery[e]
    BY <1>1, <1>5 DEF Tokens!Refresh, Tokens!Has, Tokens!Become
  <2> QED BY <2>1, <2>2
<1>6. CASE Tokens!TakeStored(d)
  <2>1. CASE delivery[d].seen.exp > hour \/ "refresh" \notin strategy
    <3>1. Tokens!Has(d, delivery[d].seen.gen, delivery[d].seen.exp) /\ "minted" \notin strategy
      BY <1>6, <2>1 DEF Tokens!TakeStored, Tokens!Is
    <3>2. delivery[d].seen.exp > hour =>
            delivery[d].seen.gen = saves \/ hour < saved + Lifetime \/ late'
      BY <1>1, <1>2 DEF Old, Informed
    <3>3. "refresh" \notin strategy => strategy \cap {"minted", "refresh"} = {}
      BY <3>1
    <3> QED BY <1>1, <1>2, <1>3, <2>1, <3>1, <3>2, <3>3
  <2>2. CASE ~ (delivery[d].seen.exp > hour) /\ "refresh" \in strategy /\ Tokens!Locked
    <3> DEFINE q == [delivery[d] EXCEPT !.pc = "waiting"]
    <3>1. q \in Tokens!Deliveries /\ q.pc = "waiting" /\ q.seen = delivery[d].seen
      BY <1>1 DEF Tokens!Deliveries
    <3>2. Informed(q) /\ ~ AtWork(q)
      BY <1>1, <2>2, <3>1 DEF Informed, AtWork
    <3>3. delivery' = [delivery EXCEPT ![d] = q] /\ ~ Tokens!At(d, "has")'
          /\ \A e \in Delivery \ {d} : delivery'[e] = delivery[e]
      BY <1>1, <1>6, <2>2, <3>1 DEF Tokens!TakeStored, Tokens!Is, Tokens!Goto, Tokens!At
    <3> QED BY <1>1, <3>2, <3>3, TokenMoves
  <2>3. CASE ~ (delivery[d].seen.exp > hour) /\ "refresh" \in strategy /\ ~ Tokens!Locked
    <3>1. Tokens!Refresh(d)
      BY <1>6, <2>3 DEF Tokens!TakeStored, Tokens!Is
    <3> QED BY <1>1, <1>5, <2>3, <3>1
  <2> QED BY <2>1, <2>2, <2>3
<1>7. CASE Tokens!Wake(d)
  <2>1. "refresh" \in strategy /\ ~ Tokens!Locked /\ Tokens!Refresh(d)
    BY <1>1, <1>7 DEF Tokens!Wake, Tokens!At, Informed
  <2> QED BY <1>1, <1>5, <2>1
<1> QED BY <1>4, <1>6, <1>7

(* The row is read, an answer is no, or a chunk is sent.                     *)
LEMMA TokensEasy ==
  ASSUME Tokens!TokensAssumption, TokensInv, NEW d \in Delivery,
         Tokens!Load(d) \/ Tokens!Fail(d) \/ Tokens!Send(d)
  PROVE  TokensInv' /\ \A e \in Delivery : ~ Tokens!At(e, "has")' \/ Tokens!At(e, "has")
<1>1. /\ UNCHANGED <<hour, strategy, grant, secrets, minted, saves, restarts, saved, late, raced, lost>>
      /\ delivery[d] \in Tokens!Deliveries /\ Informed(delivery[d])
      /\ delivery[d].pc \in {"idle", "asking", "has"} /\ delivery \in [Delivery -> Tokens!Deliveries]
  BY TokenKnows DEF Tokens!Load, Tokens!Fail, Tokens!Send, Tokens!platform, Tokens!counts,
                    Tokens!past, Tokens!At, TokensInv, Tokens!TypeOK
<1>2. ASSUME NEW q, Informed(q), q.pc \in {"idle", "loaded"}, delivery' = [delivery EXCEPT ![d] = q]
      PROVE  TokensInv' /\ \A e \in Delivery : ~ Tokens!At(e, "has")' \/ Tokens!At(e, "has")
  <2>1. ~ AtWork(q)
    BY <1>2 DEF AtWork
  <2> QED BY <1>1, <1>2, <2>1, TokenMoves DEF Tokens!At
<1>3. CASE Tokens!Load(d) \/ (Tokens!Send(d) /\ Tokens!Become(d, "loaded", delivery[d].seen))
  <2>1. PICK r \in {secrets, delivery[d].seen} : delivery' =
                [delivery EXCEPT ![d] = [pc |-> "loaded", seen |-> r, got |-> Tokens!Nothing]]
    BY <1>3 DEF Tokens!Load, Tokens!Become
  <2> DEFINE q == [pc |-> "loaded", seen |-> r, got |-> Tokens!Nothing]
  <2>2. r \in Tokens!Secrets /\ r.gen <= saves /\ r.exp <= hour + Lifetime /\ Old(r.gen, r.exp)
    BY <1>1, DeliveryTyped, TokensTyped DEF Informed, TokensInv, TokensKept, Old
  <2>3. q \in Tokens!Deliveries
    BY <2>2, TokensTyped DEF Tokens!Deliveries, Tokens!Nothing, TokensInv
  <2>4. Informed(q)
    BY <2>2, <2>3 DEF Informed, AtWork
  <2> QED BY <1>2, <2>1, <2>4
<1>4. CASE Tokens!Fail(d) \/ (Tokens!Send(d) /\ delivery' = [delivery EXCEPT ![d] = Tokens!Idle])
  BY <1>2, <1>4, RestInformed DEF Tokens!Fail, TokensInv
<1> QED BY <1>3, <1>4 DEF Tokens!Send


(* Who is at work with a refresh token is alone.                             *)
LEMMA TokenAlone ==
  ASSUME TokensInv, NEW d \in Delivery, AtWork(delivery[d]), "refresh" \in strategy
  PROVE  \A e \in Delivery \ {d} : ~ AtWork(delivery[e])
BY DEF TokensInv, OneRefreshes

(* The platform grants.                                                      *)
LEMMA TokensGrant ==
  ASSUME Tokens!TokensAssumption, TokensInv, NEW d \in Delivery, Tokens!Grant(d)
  PROVE  TokensInv' /\ \A e \in Delivery : ~ Tokens!At(e, "has")' \/ Tokens!At(e, "has")
<1> DEFINE q == [delivery[d] EXCEPT !.pc = "granted"]
           g == delivery[d].seen.gen
<1>1. /\ UNCHANGED <<hour, strategy, secrets, minted, saves, restarts, saved, late, raced, lost>>
      /\ delivery[d] \in Tokens!Deliveries /\ Informed(delivery[d]) /\ delivery[d].pc = "asking"
      /\ AtWork(delivery[d])
      /\ delivery \in [Delivery -> Tokens!Deliveries] /\ grant \in [Tokens!Generations -> Nat]
      /\ g \in Tokens!Generations /\ g <= saves /\ delivery' = [delivery EXCEPT ![d] = q]
  BY TokenKnows, DeliveryTyped DEF Tokens!Grant, Tokens!Goto, Tokens!counts, Tokens!past, Tokens!At,
     TokensInv, Tokens!TypeOK, Informed, AtWork
<1>2. q \in Tokens!Deliveries /\ q.pc = "granted" /\ q.seen = delivery[d].seen
  BY <1>1 DEF Tokens!Deliveries
<1>3. /\ delivery' \in [Delivery -> Tokens!Deliveries] /\ delivery'[d] = q
      /\ \A e \in Delivery \ {d} : delivery'[e] = delivery[e]
  BY <1>1, <1>2
<1>4. /\ grant' \in [Tokens!Generations -> Nat]
      /\ \A h \in Tokens!Generations \ {g} : grant'[h] = grant[h]
      /\ "rotates" \in strategy => grant'[g] = grant[g] + 1
      /\ Rotating => delivery[d].seen.ref = grant[g]
  BY <1>1 DEF Tokens!Grant, Tokens!Is, Tokens!Refused, Rotating
<1> HIDE DEF q
<1>5. Tokens!TypeOK'
  BY <1>1, <1>3, <1>4 DEF TokensInv, Tokens!TypeOK
<1>6. ASSUME NEW e \in Delivery PROVE Informed(delivery[e])'
  <2>1. CASE e = d
    <3>1. Informed(delivery[d])'
      BY <1>1, <1>2, <1>3, <1>4 DEF Informed, AtWork, Rotating, Old
    <3> QED BY <2>1, <3>1
  <2>2. CASE e # d
    <3>1. Rotating => ~ AtWork(delivery[e])
      BY <1>1, <2>2, TokenAlone DEF Rotating
    <3> QED BY <1>1, <1>3, <2>2, <3>1, TokenKnows DEF Informed, AtWork, Rotating, Old
  <2> QED BY <2>1, <2>2
<1>7. OneRefreshes'
  BY <1>1, <1>2, <1>3 DEF TokensInv, OneRefreshes, AtWork
<1>8. TokensKept'
  <2>1. \A h \in Tokens!Generations : h > saves => h # g
    BY <1>1, TokensTyped DEF TokensInv
  <2> QED BY <1>1, <1>4, <2>1 DEF TokensInv, TokensKept, Old
<1>9. RefreshCounts'
  <2> SUFFICES ASSUME Rotating, secrets.gen # g PROVE RefreshCounts'
    BY <1>1, <1>2, <1>3 DEF RefreshCounts, Rotating
  <2>1. secrets.gen \in Tokens!Generations
    BY TokensTyped DEF TokensInv
  <2>2. \A e \in Delivery : delivery[e].pc # "granted"
    BY <1>1, TokenAlone DEF AtWork, Rotating
  <2> QED BY <1>1, <1>4, <2>1, <2>2 DEF TokensInv, RefreshCounts
<1>10. \A e \in Delivery : ~ Tokens!At(e, "has")' \/ Tokens!At(e, "has")
  BY <1>2, <1>3 DEF Tokens!At
<1> QED BY <1>5, <1>6, <1>7, <1>8, <1>9, <1>10 DEF TokensInv

(* The answer has arrived, or has not.                                       *)
LEMMA TokensAnswer ==
  ASSUME Tokens!TokensAssumption, TokensInv, NEW d \in Delivery, Tokens!Answer(d)
  PROVE  /\ TokensInv' /\ \A e \in Delivery \ {d} : delivery'[e] = delivery[e]
         /\ delivery'[d].got.exp > hour /\ (delivery'[d].got.gen = saves \/ late')
         /\ UNCHANGED <<strategy, hour>>
<1> DEFINE old == delivery[d].seen
           q == [delivery[d] EXCEPT !.pc = "has", !.got = [gen |-> old.gen, exp |-> hour + Lifetime]]
<1>1. /\ UNCHANGED <<hour, strategy, grant, saves, restarts, saved, raced, lost>>
      /\ delivery[d] \in Tokens!Deliveries /\ Informed(delivery[d]) /\ delivery[d].pc = "granted"
      /\ AtWork(delivery[d]) /\ delivery \in [Delivery -> Tokens!Deliveries]
      /\ delivery' = [delivery EXCEPT ![d] = q] /\ late' = (late \/ old.gen < saves)
  BY TokenKnows DEF Tokens!Answer, Tokens!Has, Tokens!platform, Tokens!counts, Tokens!At,
     TokensInv, Tokens!TypeOK, AtWork
<1>2. /\ old \in Tokens!Secrets /\ old.gen \in Tokens!Generations /\ old.ref \in Nat /\ old.exp \in Nat
      /\ old.gen <= saves /\ old.exp <= hour + Lifetime /\ hour \in Nat /\ saves \in Nat
      /\ saved \in Nat /\ Lifetime \in Nat \ {0} /\ late \in BOOLEAN /\ Tokens!Generations \subseteq Nat
  BY <1>1, DeliveryTyped, TokensTyped DEF Informed, TokensInv
<1>3. q \in Tokens!Deliveries /\ q.pc = "has" /\ q.seen = old
      /\ q.got.gen = old.gen /\ q.got.exp = hour + Lifetime
  <2>1. hour + Lifetime \in Nat
    BY <1>2
  <2>2. [gen |-> old.gen, exp |-> hour + Lifetime] \in [gen : Tokens!Generations, exp : Nat]
    BY <1>2, <2>1
  <2> QED BY <1>1, <2>2 DEF Tokens!Deliveries
<1>4. /\ delivery' \in [Delivery -> Tokens!Deliveries] /\ delivery'[d] = q
      /\ \A e \in Delivery \ {d} : delivery'[e] = delivery[e]
  BY <1>1, <1>3
<1>5. /\ late' \in BOOLEAN /\ (late => late') /\ (old.gen = saves \/ late')
  <2>0. old.gen \in Nat /\ saves \in Nat /\ old.gen <= saves
    BY <1>2
  <2>1. old.gen = saves \/ old.gen < saves
    BY <2>0
  <2> QED BY <1>1, <2>1
<1> HIDE DEF q
<1>6. \/ /\ "minted" \in strategy /\ UNCHANGED secrets
         /\ minted' = [gen |-> old.gen, exp |-> hour + Lifetime]
      \/ /\ "minted" \notin strategy /\ UNCHANGED minted
         /\ secrets' \in Tokens!Secrets /\ secrets'.gen = old.gen /\ secrets'.exp <= hour + Lifetime
         /\ "rotates" \in strategy => secrets'.ref = old.ref + 1
  <2>1. CASE "minted" \in strategy
    BY <2>1 DEF Tokens!Answer, Tokens!Is
  <2>2. CASE "minted" \notin strategy
    <3>1. secrets' = [old EXCEPT !.ref = IF "rotates" \in strategy THEN old.ref + 1 ELSE old.ref,
                                 !.exp = IF "dates" \in strategy THEN hour + Lifetime ELSE old.exp]
          /\ UNCHANGED minted
      BY <1>2, <2>2 DEF Tokens!Answer, Tokens!Merged, Tokens!Is, Tokens!Secrets
    <3>2. PICK ref, exp \in Nat :
             /\ secrets' = [old EXCEPT !.ref = ref, !.exp = exp] /\ exp <= hour + Lifetime
             /\ "rotates" \in strategy => ref = old.ref + 1
      <4>1. old.ref + 1 \in Nat /\ hour + Lifetime \in Nat /\ hour + Lifetime <= hour + Lifetime
        BY <1>2
      <4> QED BY <1>2, <3>1, <4>1
    <3> QED BY <1>2, <2>2, <3>1, <3>2 DEF Tokens!Secrets
  <2> QED BY <2>1, <2>2
<1>7. Tokens!TypeOK'
  <2>1. {late', raced'} \subseteq BOOLEAN
    BY <1>1, <1>5, TokensTyped DEF TokensInv
  <2>2. minted' \in [gen : Tokens!Generations, exp : Nat]
    BY <1>2, <1>6 DEF TokensInv, Tokens!TypeOK
  <2>3. secrets' \in Tokens!Secrets
    BY <1>6 DEF TokensInv, Tokens!TypeOK
  <2> QED BY <1>1, <1>4, <2>1, <2>2, <2>3 DEF TokensInv, Tokens!TypeOK
<1>8. ASSUME NEW e \in Delivery PROVE Informed(delivery[e])'
  <2>1. CASE e = d
    <3>1. Informed(delivery[d])'
      BY <1>1, <1>2, <1>3, <1>4, <1>5 DEF Informed, AtWork, Rotating, Old
    <3> QED BY <2>1, <3>1
  <2>2. CASE e # d
    <3>1. "refresh" \in strategy => ~ AtWork(delivery[e])
      BY <1>1, <2>2, TokenAlone
    <3> QED BY <1>1, <1>4, <1>5, <2>2, <3>1, TokenKnows DEF Informed, AtWork, Rotating, Old
  <2> QED BY <2>1, <2>2
<1>9. OneRefreshes'
  BY <1>1, <1>3, <1>4 DEF TokensInv, OneRefreshes, AtWork
<1>10. "minted" \notin strategy => "refresh" \in strategy /\ (raced \/ old = secrets)
  BY <1>1 DEF Informed
<1>11. TokensKept'
  <2>1. TokensKept
    BY DEF TokensInv
  <2>2. (minted'.gen <= saves /\ minted'.exp <= hour + Lifetime /\ Old(minted.gen, minted.exp)')
    BY <1>1, <1>2, <1>5, <1>6, <2>1 DEF TokensKept, Old
  <2>3. secrets'.gen <= saves /\ secrets'.exp <= hour + Lifetime /\ (secrets'.gen = saves \/ late')
    BY <1>1, <1>2, <1>5, <1>6, <2>1 DEF TokensKept
  <2>4. secrets'.gen = saves \/ raced
    BY <1>6, <1>10, <2>1 DEF TokensKept
  <2> QED BY <1>1, <2>1, <2>2, <2>3, <2>4 DEF TokensKept
<1>12. RefreshCounts'
  <2> SUFFICES ASSUME Rotating PROVE secrets'.ref = grant[secrets'.gen] \/ secrets'.gen \in lost
    BY <1>1 DEF RefreshCounts, Rotating
  <2>1. old.ref + 1 = grant[old.gen] \/ old.gen \in lost
    BY <1>1 DEF Informed
  <2>2. "minted" \notin strategy /\ "rotates" \in strategy
    BY TokensTyped DEF Rotating, TokensInv
  <2> QED BY <1>6, <2>1, <2>2
<1> QED BY <1>1, <1>2, <1>3, <1>4, <1>5, <1>7, <1>8, <1>9, <1>11, <1>12 DEF TokensInv

(* Deliveries end, and those that had been granted a token lose it.          *)
LEMMA TokensEnd ==
  ASSUME Tokens!TokensAssumption, TokensInv, Tokens!TypeOK',
         UNCHANGED <<hour, strategy, grant, secrets, saves, saved, late, raced>>,
         \A e \in Delivery : delivery'[e] \in {Tokens!Idle, delivery[e]},
         \A e \in Delivery : delivery'[e] = delivery[e] \/ delivery[e].pc # "granted"
                             \/ delivery[e].seen.gen \in lost',
         minted' \in {minted, Tokens!Nothing}, lost \subseteq lost'
  PROVE  TokensInv' /\ \A e \in Delivery : ~ Tokens!At(e, "has")' \/ Tokens!At(e, "has")
<1>1. Informed(Tokens!Idle) /\ Tokens!Idle.pc = "idle" /\ \A e \in Delivery : Informed(delivery[e])
  BY RestInformed, TokenKnows DEF TokensInv
<1>2. ASSUME NEW e \in Delivery PROVE Informed(delivery[e])'
  <2>1. PICK x : x = delivery'[e] /\ Informed(x)
    BY <1>1
  <2>2. Informed(x)'
    BY <2>1 DEF Informed, Rotating, Old
  <2> QED BY <2>1, <2>2 DEF Informed, AtWork
<1>3. OneRefreshes'
  BY <1>1 DEF TokensInv, OneRefreshes, AtWork
<1>4. TokensKept'
  BY TokensTyped DEF TokensInv, TokensKept, Old, Tokens!Nothing
<1>5. RefreshCounts'
  BY <1>1 DEF TokensInv, RefreshCounts, Rotating
<1>6. \A e \in Delivery : ~ Tokens!At(e, "has")' \/ Tokens!At(e, "has")
  BY <1>1 DEF Tokens!At
<1> QED BY <1>2, <1>3, <1>4, <1>5, <1>6 DEF TokensInv


LEMMA TokensEnds ==
  ASSUME Tokens!TokensAssumption, TokensInv,
         Tokens!Kill \/ \E d \in Delivery : Tokens!Lose(d)
  PROVE  TokensInv' /\ \A e \in Delivery : ~ Tokens!At(e, "has")' \/ Tokens!At(e, "has")
<1>1. /\ delivery \in [Delivery -> Tokens!Deliveries] /\ Tokens!Idle \in Tokens!Deliveries
      /\ \A e \in Delivery : delivery[e].seen.gen \in Tokens!Generations
      /\ lost \subseteq Tokens!Generations /\ restarts \in 0..MaxKill /\ MaxKill \in Nat
      /\ Tokens!Nothing \in [gen : Tokens!Generations, exp : Nat]
  BY RestInformed, TokenKnows, DeliveryTyped, TokensTyped
  DEF TokensInv, Tokens!TypeOK, Informed, Tokens!Nothing
<1>2. CASE Tokens!Kill
  <2>1. /\ UNCHANGED <<hour, strategy, grant, secrets, saves, saved, late, raced>>
        /\ restarts' \in 0..MaxKill /\ minted' = Tokens!Nothing
        /\ delivery' = [d \in Delivery |-> Tokens!Idle]
        /\ lost' = lost \cup {delivery[d].seen.gen : d \in {e \in Delivery : Tokens!At(e, "granted")}}
    BY <1>1, <1>2 DEF Tokens!Kill, Tokens!platform
  <2>2. /\ \A e \in Delivery : delivery'[e] = Tokens!Idle
        /\ \A e \in Delivery : delivery[e].pc # "granted" \/ delivery[e].seen.gen \in lost'
        /\ lost \subseteq lost' /\ lost' \subseteq Tokens!Generations
    BY <1>1, <2>1 DEF Tokens!At
  <2>3. Tokens!TypeOK'
    BY <1>1, <2>1, <2>2 DEF TokensInv, Tokens!TypeOK
  <2> QED BY <2>1, <2>2, <2>3, TokensEnd
<1>3. ASSUME NEW d \in Delivery, Tokens!Lose(d)
      PROVE  TokensInv' /\ \A e \in Delivery : ~ Tokens!At(e, "has")' \/ Tokens!At(e, "has")
  <2>1. /\ UNCHANGED <<hour, strategy, grant, secrets, minted, saves, restarts, saved, late, raced>>
        /\ delivery' = [delivery EXCEPT ![d] = Tokens!Idle] /\ lost' = lost \cup {delivery[d].seen.gen}
    BY <1>3 DEF Tokens!Lose, Tokens!platform, Tokens!counts
  <2>2. /\ delivery' \in [Delivery -> Tokens!Deliveries]
        /\ \A e \in Delivery : delivery'[e] = IF e = d THEN Tokens!Idle ELSE delivery[e]
        /\ lost' \subseteq Tokens!Generations /\ lost \subseteq lost' /\ delivery[d].seen.gen \in lost'
    BY <1>1, <2>1
  <2>3. Tokens!TypeOK'
    BY <2>1, <2>2 DEF TokensInv, Tokens!TypeOK
  <2> QED BY <2>1, <2>2, <2>3, TokensEnd
<1> QED BY <1>2, <1>3

(* update_channel_secrets.                                                   *)
LEMMA TokensSave ==
  ASSUME Tokens!TokensAssumption, TokensInv, Tokens!Save
  PROVE  TokensInv' /\ \A e \in Delivery : ~ Tokens!At(e, "has")' \/ Tokens!At(e, "has")
<1>1. /\ UNCHANGED <<hour, strategy, grant, minted, delivery, restarts, late, lost>>
      /\ saves < MaxSave /\ saves' = saves + 1 /\ saved' = hour
      /\ secrets' = Tokens!Written(saves + 1) /\ raced' = Tokens!Locked
  BY DEF Tokens!Save, Tokens!platform
<1>2. /\ hour \in 0..MaxHour /\ hour \in Nat /\ saves \in Nat /\ saved \in Nat /\ Lifetime \in Nat \ {0}
      /\ MaxSave \in Nat /\ saves + 1 \in Tokens!Generations /\ Tokens!Generations \subseteq Nat
      /\ minted.gen \in Nat /\ minted.exp \in Nat /\ raced \in BOOLEAN
  <2>1. Tokens!TypeOK
    BY DEF TokensInv
  <2>2. /\ hour \in Nat /\ saves \in Nat /\ saved \in Nat /\ Lifetime \in Nat \ {0} /\ MaxSave \in Nat
        /\ minted.gen \in Nat /\ minted.exp \in Nat /\ raced \in BOOLEAN /\ Tokens!Generations \subseteq Nat
    BY <2>1, TokensTyped
  <2>3. hour \in 0..MaxHour
    BY <2>1 DEF Tokens!TypeOK
  <2>4. saves + 1 \in Tokens!Generations
    BY <1>1, <2>2 DEF Tokens!Generations
  <2> QED BY <2>2, <2>3, <2>4
<1>3. secrets' \in Tokens!Secrets /\ secrets'.gen = saves + 1 /\ secrets'.ref = 0
      /\ secrets'.exp = hour + Lifetime
  BY <1>1, <1>2 DEF Tokens!Written, Tokens!Secrets
<1>4. raced' \in BOOLEAN /\ (Tokens!Locked => raced')
  BY <1>1, <1>2 DEF Tokens!Locked
<1>5. Tokens!TypeOK'
  <2>1. {late', raced'} \subseteq BOOLEAN
    BY <1>1, <1>4, TokensTyped DEF TokensInv
  <2> QED BY <1>1, <1>2, <1>3, <2>1 DEF TokensInv, Tokens!TypeOK
<1>6. ASSUME NEW e \in Delivery PROVE Informed(delivery[e])'
  <2>1. Informed(delivery[e]) /\ delivery[e].seen.gen \in Nat /\ delivery[e].seen.exp \in Nat
    BY <1>2, TokenKnows, DeliveryTyped
  <2>2. AtWork(delivery[e]) /\ "refresh" \in strategy => raced'
    BY <1>4 DEF AtWork, Tokens!Locked, Tokens!Is
  <2> QED BY <1>1, <1>2, <2>1, <2>2 DEF Informed, AtWork, Rotating, Old
<1>7. OneRefreshes'
  BY <1>1 DEF TokensInv, OneRefreshes, AtWork
<1>8. TokensKept'
  BY <1>1, <1>2, <1>3 DEF TokensInv, TokensKept, Old
<1>9. RefreshCounts'
  <2>1. grant[saves + 1] = 0
    BY <1>2 DEF TokensInv, TokensKept
  <2> QED BY <1>1, <1>3, <2>1 DEF RefreshCounts, Rotating
<1> QED BY <1>1, <1>5, <1>6, <1>7, <1>8, <1>9 DEF TokensInv, Tokens!At

LEMMA TokensStrike ==
  ASSUME Tokens!TokensAssumption, TokensInv, Tokens!Strike
  PROVE  TokensInv' /\ \A e \in Delivery : ~ Tokens!At(e, "has")' \/ Tokens!At(e, "has")
<1>1. /\ hour' = hour + 1 /\ hour < MaxHour
      /\ UNCHANGED <<strategy, grant, secrets, minted, delivery, saves, restarts, saved, late, raced, lost>>
  BY DEF Tokens!Strike, Tokens!platform, Tokens!counts, Tokens!past
<1>2. hour \in Nat /\ MaxHour \in Nat /\ Lifetime \in Nat /\ secrets.exp \in Nat /\ minted.exp \in Nat
      /\ hour' \in 0..MaxHour
  BY <1>1, TokensTyped DEF TokensInv
<1>3. Tokens!TypeOK'
  BY <1>1, <1>2 DEF TokensInv, Tokens!TypeOK
<1>4. ASSUME NEW e \in Delivery PROVE Informed(delivery[e])'
  BY <1>1, <1>2, TokenKnows, DeliveryTyped DEF Informed, AtWork, Rotating, Old
<1>5. TokensKept' /\ OneRefreshes' /\ RefreshCounts'
  BY <1>1, <1>2 DEF TokensInv, TokensKept, OneRefreshes, RefreshCounts, AtWork, Rotating, Old
<1> QED BY <1>1, <1>3, <1>4, <1>5 DEF TokensInv, Tokens!At

(* A token that is handed out is in date.                                    *)
Timely(d) ==
  \/ strategy \cap {"minted", "refresh"} = {}
  \/ /\ delivery'[d].got.exp > hour
     /\ delivery'[d].got.gen = saves \/ hour < saved + Lifetime \/ late'

LEMMA TokensStep ==
  ASSUME Tokens!TokensAssumption, TokensInv, [Tokens!Next]_tokenVars
  PROVE  /\ TokensInv'
         /\ [\A d \in Delivery : ~ Tokens!At(d, "has") /\ Tokens!At(d, "has")' => Timely(d)]_tokenVars
<1>1. CASE UNCHANGED tokenVars
  <2>1. Tokens!TypeOK'
    BY <1>1 DEF tokenVars, TokensInv, Tokens!TypeOK
  <2>2. \A d \in Delivery : Informed(delivery[d])'
    BY <1>1 DEF tokenVars, TokensInv, Informed, AtWork, Rotating, Old
  <2>3. TokensKept' /\ OneRefreshes' /\ RefreshCounts'
    BY <1>1 DEF tokenVars, TokensInv, TokensKept, OneRefreshes, RefreshCounts, AtWork, Rotating, Old
  <2> QED BY <1>1, <2>1, <2>2, <2>3 DEF TokensInv
<1>2. CASE Tokens!Save \/ Tokens!Kill \/ Tokens!Strike
  BY <1>2, TokensSave, TokensEnds, TokensStrike
<1>3. ASSUME NEW d \in Delivery, Tokens!Load(d) \/ Tokens!Fail(d) \/ Tokens!Send(d) \/ Tokens!Grant(d) \/ Tokens!Lose(d)
      PROVE  TokensInv' /\ \A e \in Delivery : ~ Tokens!At(e, "has")' \/ Tokens!At(e, "has")
  BY <1>3, TokensEasy, TokensGrant, TokensEnds
<1>4. ASSUME NEW d \in Delivery, Tokens!TakeMinted(d) \/ Tokens!TakeStored(d) \/ Tokens!Wake(d) \/ Tokens!Answer(d)
      PROVE  TokensInv' /\ \A e \in Delivery : ~ Tokens!At(e, "has") /\ Tokens!At(e, "has")' => Timely(e)
  <2>1. /\ TokensInv' /\ (Tokens!At(d, "has")' => Timely(d))
        /\ \A e \in Delivery \ {d} : delivery'[e] = delivery[e]
    BY <1>4, TokensTaken, TokensAnswer DEF Timely
  <2> QED BY <2>1 DEF Tokens!At
<1> QED BY <1>1, <1>2, <1>3, <1>4 DEF Tokens!Next

LEMMA TokensGood == ASSUME TokensInv PROVE Tokens!SingleFlight /\ Tokens!SecretsStay
<1>1. Tokens!SecretsStay
  BY DEF TokensInv, TokensKept, Tokens!SecretsStay
<1>2. Tokens!SingleFlight
  BY DEF TokensInv, Informed, Rotating, Tokens!SingleFlight, Tokens!At, Tokens!Refused, Tokens!Is
<1> QED BY <1>1, <1>2

-----------------------------------------------------------------------------
(* SigningKeys.  Keys are served one after another; what is cached was served
   when it was fetched; and a refresh that was attempted is under way, has
   fetched, or has failed.                                                   *)
KeysTimed ==
  /\ \A k \in 1 .. served : Interval <= start[k] /\ start[k] <= clock
  /\ \A k, l \in 1 .. served : k <= l => start[k] <= start[l]
  /\ cached.at <= clock /\ attempt <= clock /\ lastFailure <= clock
  /\ failure <= lastFailure

KeysCached ==
  /\ (cached.keys = {} /\ cached.at = 0) \/ \E k \in 1 .. served : cached.keys = {k}
  /\ \A k \in cached.keys : k < served => cached.at <= start[k + 1]

Attempted ==
  \/ \E i \in Inbound : verify[i].pc = "forcing"
  \/ attempt <= cached.at \/ attempt <= lastFailure

KeysInv == Certs!TypeOK /\ KeysTimed /\ KeysCached /\ Attempted


LEMMA KeysTyped ==
  ASSUME Certs!KeysAssumption, Certs!TypeOK
  PROVE  /\ TTL \in Nat \ {0} /\ Cooldown \in Nat \ {0} /\ Interval \in Nat \ {0} /\ MaxKey \in Nat \ {0}
         /\ MaxClock \in Nat /\ Cooldown <= Interval /\ Interval <= TTL
         /\ clock \in Nat /\ Interval <= clock /\ clock <= MaxClock
         /\ served \in Nat /\ 1 <= served /\ served <= MaxKey
         /\ \A k \in 1 .. MaxKey : start[k] \in Nat
         /\ cached.keys \subseteq 1 .. MaxKey /\ cached.at \in Nat
         /\ failure \in Nat /\ attempt \in Nat /\ lastFailure \in Nat
         /\ DOMAIN verify = Inbound
         /\ \A i \in Inbound : verify[i].kid \in Nat
<1>1. /\ TTL \in Nat \ {0} /\ Cooldown \in Nat \ {0} /\ Interval \in Nat \ {0} /\ MaxKey \in Nat \ {0}
      /\ MaxClock \in Nat /\ Cooldown <= Interval /\ Interval <= TTL
  BY DEF Certs!KeysAssumption
<1>2. clock \in Nat /\ Interval <= clock /\ clock <= MaxClock /\ served \in Nat /\ 1 <= served /\ served <= MaxKey
  BY <1>1 DEF Certs!TypeOK, Certs!Keys, Certs!Clock
<1>3. Certs!Keys = 1 .. MaxKey /\ {0} \cup Certs!Clock \subseteq Nat
  BY <1>1 DEF Certs!Keys, Certs!Clock
<1>4. \A k \in 1 .. MaxKey : start[k] \in Nat
  BY <1>3 DEF Certs!TypeOK
<1>5. cached.keys \subseteq 1 .. MaxKey /\ cached.at \in Nat
  BY <1>3 DEF Certs!TypeOK
<1>6. failure \in Nat /\ attempt \in Nat /\ lastFailure \in Nat
  BY <1>3 DEF Certs!TypeOK
<1>7. DOMAIN verify = Inbound /\ \A i \in Inbound : verify[i].kid \in {Certs!Unknown} \cup Certs!Keys
  BY DEF Certs!TypeOK
<1>8. {Certs!Unknown} \cup Certs!Keys \subseteq Nat
  BY <1>1 DEF Certs!Keys, Certs!Unknown
<1> QED BY <1>1, <1>2, <1>4, <1>5, <1>6, <1>7, <1>8

LEMMA KeysInit == ASSUME Certs!KeysAssumption, Certs!Init PROVE KeysInv
<1>1. /\ clock = Interval /\ served = 1 /\ start = [k \in Certs!Keys |-> IF k = 1 THEN Interval ELSE 0]
      /\ cached = [keys |-> {}, at |-> 0] /\ failure = 0 /\ attempt = 0 /\ lastFailure = 0
      /\ verify = [i \in Inbound |-> [pc |-> "idle", kid |-> Certs!Unknown]]
  BY DEF Certs!Init
<1>2. /\ Interval \in Nat \ {0} /\ MaxClock \in Nat /\ Interval <= MaxClock /\ MaxKey \in Nat \ {0}
  BY DEF Certs!KeysAssumption
<1>3. Interval \in Certs!Clock /\ 1 \in Certs!Keys
  BY <1>2 DEF Certs!Clock, Certs!Keys
<1>4. start \in [Certs!Keys -> {0} \cup Certs!Clock] /\ start[1] = Interval
  BY <1>1, <1>3
<1>5. verify \in [Inbound -> [pc : {"idle", "accepted", "rejected"} \cup Certs!Fetching \cup Certs!Waiting,
                              kid : {Certs!Unknown} \cup Certs!Keys]]
  BY <1>1
<1>6. cached \in [keys : SUBSET Certs!Keys, at : {0} \cup Certs!Clock] /\ cached.keys = {} /\ cached.at = 0
  BY <1>1
<1>7. Certs!TypeOK
  BY <1>1, <1>3, <1>4, <1>5, <1>6 DEF Certs!TypeOK
<1>8. KeysTimed /\ KeysCached /\ Attempted
  BY <1>1, <1>2, <1>4, <1>6 DEF KeysTimed, KeysCached, Attempted
<1> QED BY <1>7, <1>8 DEF KeysInv

(* What _verify does with the keys it was given.                             *)
LEMMA Matches ==
  ASSUME Certs!TypeOK, NEW i \in Inbound, NEW kid \in {Certs!Unknown} \cup Certs!Keys, NEW keys,
         Certs!Match(i, kid, keys)
  PROVE  /\ verify' \in [Inbound -> [pc : {"idle", "accepted", "rejected"} \cup Certs!Fetching \cup Certs!Waiting,
                                     kid : {Certs!Unknown} \cup Certs!Keys]]
         /\ \A j \in Inbound \ {i} : verify'[j] = verify[j]
         /\ verify'[i].kid = kid
         /\ attempt' = attempt \/ (attempt' = clock /\ verify'[i].pc = "forcing")
         /\ verify'[i].pc = "accepted" => kid \in keys
         /\ verify'[i].pc = "rejected" => kid \notin keys /\ Certs!TriedLately
<1> DEFINE refresh == kid \notin keys /\ ~ Certs!TriedLately
<1>1. PICK pc : /\ pc = IF refresh THEN IF Certs!Busy(i) THEN "waitForce" ELSE "forcing"
                        ELSE IF kid \in keys THEN "accepted" ELSE "rejected"
                /\ verify' = [verify EXCEPT ![i] = [kid |-> kid, pc |-> pc]]
                /\ attempt' = IF refresh /\ ~ Certs!Busy(i) THEN clock ELSE attempt
  BY DEF Certs!Match
<1>2. pc \in {"waitForce", "forcing", "accepted", "rejected"}
  BY <1>1
<1>3. /\ verify' \in [Inbound -> [pc : {"idle", "accepted", "rejected"} \cup Certs!Fetching \cup Certs!Waiting,
                                  kid : {Certs!Unknown} \cup Certs!Keys]]
      /\ verify'[i] = [kid |-> kid, pc |-> pc] /\ \A j \in Inbound \ {i} : verify'[j] = verify[j]
  BY <1>1, <1>2 DEF Certs!TypeOK, Certs!Fetching, Certs!Waiting
<1> QED BY <1>1, <1>3

(* A verification goes on and the keys stay.                                 *)
LEMMA KeysStay ==
  ASSUME Certs!KeysAssumption, KeysInv, NEW i \in Inbound, verify[i].pc # "forcing",
         UNCHANGED <<clock, served, start, cached, failure, lastFailure>>,
         verify' \in [Inbound -> [pc : {"idle", "accepted", "rejected"} \cup Certs!Fetching \cup Certs!Waiting,
                                  kid : {Certs!Unknown} \cup Certs!Keys]],
         \A j \in Inbound \ {i} : verify'[j] = verify[j],
         attempt' = attempt \/ (attempt' = clock /\ verify'[i].pc = "forcing")
  PROVE  KeysInv'
<1>1. Certs!TypeOK'
  BY DEF KeysInv, Certs!TypeOK
<1>2. KeysTimed'
  BY KeysTyped DEF KeysInv, KeysTimed
<1>3. KeysCached'
  BY DEF KeysInv, KeysCached
<1>4. Attempted'
  <2>1. CASE \E j \in Inbound : verify[j].pc = "forcing"
    BY <2>1 DEF Attempted
  <2>2. CASE attempt <= cached.at \/ attempt <= lastFailure
    BY <2>2 DEF Attempted
  <2> QED BY <2>1, <2>2 DEF KeysInv, Attempted
<1> QED BY <1>1, <1>2, <1>3, <1>4 DEF KeysInv

(* The keys in the cache may be used while they are fresh, or a failure is
   recent, or a refresh was attempted lately and is over.                    *)
LEMMA CachedGood ==
  ASSUME Certs!KeysAssumption, KeysInv, NEW kid \in cached.keys,
         \/ Certs!Fresh \/ Certs!Cooling
         \/ Certs!TriedLately /\ \A j \in Inbound : verify[j].pc # "forcing"
  PROVE  /\ kid # 0 /\ kid \in 1 .. served
         /\ kid = served \/ clock - start[kid + 1] < TTL \/ lastFailure >= start[kid + 1]
<1>1. kid \in 1 .. served /\ (kid < served => cached.at <= start[kid + 1])
  BY DEF KeysInv, KeysCached
<1> SUFFICES ASSUME kid # served
             PROVE  clock - start[kid + 1] < TTL \/ lastFailure >= start[kid + 1]
  BY <1>1
<1>2. /\ clock \in Nat /\ served \in Nat /\ kid < served /\ kid + 1 \in 1 .. served
      /\ start[kid + 1] \in Nat /\ cached.at <= start[kid + 1]
      /\ cached.at \in Nat /\ lastFailure \in Nat /\ failure \in Nat /\ attempt \in Nat
      /\ failure <= lastFailure /\ TTL \in Nat /\ Interval \in Nat /\ Cooldown \in Nat
      /\ Cooldown <= Interval /\ Interval <= TTL
  BY <1>1, KeysTyped DEF KeysInv, KeysTimed
<1>3. CASE Certs!Fresh
  BY <1>2, <1>3 DEF Certs!Fresh
<1>4. CASE Certs!Cooling
  BY <1>2, <1>4 DEF Certs!Cooling
<1>5. CASE Certs!TriedLately /\ \A j \in Inbound : verify[j].pc # "forcing"
  <2>1. attempt <= cached.at \/ attempt <= lastFailure
    BY <1>5 DEF KeysInv, Attempted
  <2> QED BY <1>2, <1>5, <2>1 DEF Certs!TriedLately
<1> QED BY <1>3, <1>4, <1>5

(* If the key that is served is not in the cache though a refresh was tried
   lately, it is new, a fetch failed lately, or a refresh is under way.      *)
LEMMA MissingNew ==
  ASSUME Certs!KeysAssumption, KeysInv, served \notin cached.keys, Certs!TriedLately
  PROVE  \/ clock - start[served] < Interval \/ clock - lastFailure < Interval
         \/ \E j \in Inbound : verify[j].pc = "forcing"
<1>1. /\ clock \in Nat /\ served \in Nat /\ 1 <= served /\ start[served] \in Nat /\ served \in 1 .. served
      /\ cached.at \in Nat /\ lastFailure \in Nat /\ attempt \in Nat /\ Interval \in Nat
      /\ Interval <= clock /\ clock - attempt < Interval
  BY KeysTyped DEF KeysInv, Certs!TriedLately
<1> SUFFICES ASSUME attempt <= cached.at PROVE clock - start[served] < Interval
  BY <1>1 DEF KeysInv, Attempted
<1>2. cached.at # 0
  BY <1>1
<1>3. PICK k \in 1 .. served : cached.keys = {k}
  BY <1>2 DEF KeysInv, KeysCached
<1>4. k \in Nat /\ k < served /\ k + 1 \in 1 .. served /\ cached.at <= start[k + 1]
  BY <1>1, <1>3 DEF KeysInv, KeysCached
<1>5. start[k + 1] <= start[served] /\ start[k + 1] \in Nat
  BY <1>1, <1>4, KeysTyped DEF KeysInv, KeysTimed
<1> QED BY <1>1, <1>4, <1>5

(* A change of what verifies keeps the promise of KeysSound.                 *)
KeysHeld ==
  \A i \in Inbound : verify'[i].pc # verify[i].pc =>
     /\ verify'[i].pc = "accepted" => Certs!MayAccept(verify'[i].kid)
     /\ verify'[i].pc = "rejected" => Certs!MayReject(i, verify'[i].kid)

LEMMA ArriveKeys ==
  ASSUME Certs!KeysAssumption, KeysInv, NEW i \in Inbound, Certs!Arrive(i)
  PROVE  KeysInv' /\ KeysHeld
<1>1. /\ verify[i].pc = "idle" /\ UNCHANGED <<clock, served, start, cached, failure, lastFailure>>
      /\ Certs!TypeOK /\ verify \in [Inbound -> [pc : {"idle", "accepted", "rejected"} \cup Certs!Fetching \cup Certs!Waiting,
                                                 kid : {Certs!Unknown} \cup Certs!Keys]]
  BY DEF Certs!Arrive, KeysInv, Certs!TypeOK
<1>2. PICK kid \in {Certs!Unknown} \cup 1 .. served :
        IF Certs!Fresh \/ (Certs!Cooling /\ cached.keys # {}) THEN Certs!Match(i, kid, cached.keys)
        ELSE /\ verify' = [verify EXCEPT ![i] =
                  [kid |-> kid, pc |-> IF Certs!Cooling THEN "rejected"
                                       ELSE IF Certs!Busy(i) THEN "waitGet" ELSE "getting"]]
             /\ UNCHANGED attempt
  BY DEF Certs!Arrive
<1>3. kid \in {Certs!Unknown} \cup Certs!Keys
  BY KeysTyped, <1>1 DEF Certs!Keys
<1>4. CASE Certs!Fresh \/ (Certs!Cooling /\ cached.keys # {})
  <2>1. Certs!Match(i, kid, cached.keys)
    BY <1>2, <1>4
  <2>2. KeysInv'
    BY <1>1, <1>3, <2>1, Matches, KeysStay
  <2>3. /\ \A j \in Inbound \ {i} : verify'[j] = verify[j]
        /\ verify'[i].kid = kid
        /\ verify'[i].pc = "accepted" => kid \in cached.keys
        /\ verify'[i].pc = "rejected" => kid \notin cached.keys /\ Certs!TriedLately
    BY <1>1, <1>3, <2>1, Matches
  <2>4. kid \in cached.keys => Certs!MayAccept(kid)
    BY <1>1, <1>4, CachedGood DEF Certs!MayAccept, Certs!Unknown
  <2>5. kid \notin cached.keys /\ Certs!TriedLately => Certs!MayReject(i, kid)
    BY <1>1, MissingNew DEF Certs!MayReject
  <2> QED BY <2>2, <2>3, <2>4, <2>5 DEF KeysHeld
<1>5. CASE ~ (Certs!Fresh \/ (Certs!Cooling /\ cached.keys # {}))
  <2>1. PICK pc : /\ pc = IF Certs!Cooling THEN "rejected" ELSE IF Certs!Busy(i) THEN "waitGet" ELSE "getting"
                  /\ verify' = [verify EXCEPT ![i] = [kid |-> kid, pc |-> pc]]
                  /\ attempt' = attempt
    BY <1>2, <1>5
  <2>2. pc \in {"rejected", "waitGet", "getting"} /\ (pc = "rejected" => Certs!Cooling)
    BY <2>1
  <2>3. /\ verify' \in [Inbound -> [pc : {"idle", "accepted", "rejected"} \cup Certs!Fetching \cup Certs!Waiting,
                                    kid : {Certs!Unknown} \cup Certs!Keys]]
        /\ verify'[i] = [kid |-> kid, pc |-> pc] /\ \A j \in Inbound \ {i} : verify'[j] = verify[j]
    BY <1>1, <1>3, <2>1, <2>2 DEF Certs!Fetching, Certs!Waiting
  <2>4. KeysInv'
    BY <1>1, <2>1, <2>3, KeysStay
  <2>5. Certs!Cooling => clock - lastFailure' < Interval
    BY <1>1, KeysTyped DEF KeysInv, KeysTimed, Certs!Cooling
  <2> QED BY <2>2, <2>3, <2>4, <2>5 DEF KeysHeld, Certs!MayReject
<1> QED BY <1>4, <1>5

LEMMA WakeGetKeys ==
  ASSUME Certs!KeysAssumption, KeysInv, NEW i \in Inbound, Certs!WakeGet(i)
  PROVE  KeysInv' /\ KeysHeld
<1>1. /\ verify[i].pc = "waitGet" /\ UNCHANGED <<clock, served, start, cached, failure, lastFailure>>
      /\ Certs!TypeOK /\ verify \in [Inbound -> [pc : {"idle", "accepted", "rejected"} \cup Certs!Fetching \cup Certs!Waiting,
                                                 kid : {Certs!Unknown} \cup Certs!Keys]]
  BY DEF Certs!WakeGet, KeysInv, Certs!TypeOK
<1>2. PICK kid \in {Certs!Unknown} \cup Certs!Keys : kid = verify[i].kid
  BY <1>1
<1>3. CASE Certs!Fresh
  <2>1. Certs!Match(i, kid, cached.keys)
    BY <1>2, <1>3 DEF Certs!WakeGet
  <2>2. KeysInv'
    BY <1>1, <2>1, Matches, KeysStay
  <2>3. /\ \A j \in Inbound \ {i} : verify'[j] = verify[j]
        /\ verify'[i].kid = kid
        /\ verify'[i].pc = "accepted" => kid \in cached.keys
        /\ verify'[i].pc = "rejected" => kid \notin cached.keys /\ Certs!TriedLately
    BY <1>1, <2>1, Matches
  <2>4. kid \in cached.keys => Certs!MayAccept(kid)
    BY <1>1, <1>3, CachedGood DEF Certs!MayAccept, Certs!Unknown
  <2>5. kid \notin cached.keys /\ Certs!TriedLately => Certs!MayReject(i, kid)
    BY <1>1, MissingNew DEF Certs!MayReject
  <2> QED BY <2>2, <2>3, <2>4, <2>5 DEF KeysHeld
<1>4. CASE ~ Certs!Fresh
  <2>1. verify' = [verify EXCEPT ![i].pc = "getting"] /\ attempt' = attempt
    BY <1>4 DEF Certs!WakeGet, Certs!Becomes
  <2>2. /\ verify' \in [Inbound -> [pc : {"idle", "accepted", "rejected"} \cup Certs!Fetching \cup Certs!Waiting,
                                    kid : {Certs!Unknown} \cup Certs!Keys]]
        /\ verify'[i].pc = "getting" /\ \A j \in Inbound \ {i} : verify'[j] = verify[j]
    BY <1>1, <2>1 DEF Certs!Fetching
  <2>3. KeysInv'
    BY <1>1, <2>1, <2>2, KeysStay
  <2> QED BY <2>2, <2>3 DEF KeysHeld
<1> QED BY <1>3, <1>4

LEMMA WakeForceKeys ==
  ASSUME Certs!KeysAssumption, KeysInv, NEW i \in Inbound, Certs!WakeForce(i)
  PROVE  KeysInv' /\ KeysHeld
<1>1. /\ verify[i].pc = "waitForce" /\ UNCHANGED <<clock, served, start, cached, failure, lastFailure>>
      /\ \A j \in Inbound : verify[j].pc # "forcing"
      /\ Certs!TypeOK /\ verify \in [Inbound -> [pc : {"idle", "accepted", "rejected"} \cup Certs!Fetching \cup Certs!Waiting,
                                                 kid : {Certs!Unknown} \cup Certs!Keys]]
  BY DEF Certs!WakeForce, KeysInv, Certs!TypeOK, Certs!Locked, Certs!Fetching
<1>2. PICK pc : /\ pc = IF Certs!TriedLately
                        THEN IF verify[i].kid \in cached.keys THEN "accepted" ELSE "rejected"
                        ELSE "forcing"
                /\ verify' = [verify EXCEPT ![i].pc = pc]
                /\ attempt' = IF Certs!TriedLately THEN attempt ELSE clock
  BY DEF Certs!WakeForce, Certs!Becomes, Certs!Verdict
<1>3. pc \in {"forcing", "accepted", "rejected"}
  BY <1>2
<1>4. /\ verify' \in [Inbound -> [pc : {"idle", "accepted", "rejected"} \cup Certs!Fetching \cup Certs!Waiting,
                                  kid : {Certs!Unknown} \cup Certs!Keys]]
      /\ verify'[i].pc = pc /\ verify'[i].kid = verify[i].kid
      /\ \A j \in Inbound \ {i} : verify'[j] = verify[j]
  BY <1>1, <1>2, <1>3 DEF Certs!Fetching
<1>5. KeysInv'
  BY <1>1, <1>2, <1>4, KeysStay
<1>6. Certs!TriedLately /\ verify[i].kid \in cached.keys => Certs!MayAccept(verify[i].kid)
  BY <1>1, CachedGood DEF Certs!MayAccept, Certs!Unknown
<1>7. Certs!TriedLately /\ verify[i].kid \notin cached.keys => Certs!MayReject(i, verify[i].kid)
  BY <1>1, MissingNew DEF Certs!MayReject
<1> QED BY <1>2, <1>4, <1>5, <1>6, <1>7 DEF KeysHeld

(* What a fetch does to the invariant, whatever the verification goes on to. *)
LEMMA Refetched ==
  ASSUME Certs!KeysAssumption, KeysInv, NEW i \in Inbound,
         UNCHANGED <<clock, served, start>>,
         \/ cached' = [keys |-> {served}, at |-> clock] /\ failure' = 0 /\ lastFailure' = lastFailure
         \/ cached' = cached /\ failure' = clock /\ lastFailure' = clock,
         verify' \in [Inbound -> [pc : {"idle", "accepted", "rejected"} \cup Certs!Fetching \cup Certs!Waiting,
                                  kid : {Certs!Unknown} \cup Certs!Keys]],
         attempt' = attempt \/ attempt' = clock
  PROVE  KeysInv'
<1>1. /\ clock \in Certs!Clock /\ served \in Certs!Keys /\ Certs!TypeOK
      /\ clock \in Nat /\ served \in Nat /\ 1 <= served /\ attempt \in Nat /\ lastFailure \in Nat
      /\ failure \in Nat /\ cached.at \in Nat /\ attempt <= clock
  BY KeysTyped DEF KeysInv, Certs!TypeOK, KeysTimed
<1>2. Certs!TypeOK'
  <2>1. cached' \in [keys : SUBSET Certs!Keys, at : {0} \cup Certs!Clock]
    BY <1>1 DEF Certs!TypeOK
  <2>2. failure' \in {0} \cup Certs!Clock /\ lastFailure' \in {0} \cup Certs!Clock
        /\ attempt' \in {0} \cup Certs!Clock
    BY <1>1 DEF Certs!TypeOK
  <2> QED BY <1>1, <2>1, <2>2 DEF Certs!TypeOK
<1>3. KeysTimed'
  BY <1>1 DEF KeysInv, KeysTimed
<1>4. KeysCached'
  <2>1. CASE cached' = cached
    BY <2>1 DEF KeysInv, KeysCached
  <2>2. CASE cached' = [keys |-> {served}, at |-> clock]
    BY <1>1, <2>2 DEF KeysCached
  <2> QED BY <2>1, <2>2
<1>5. Attempted'
  BY <1>1 DEF Attempted
<1> QED BY <1>2, <1>3, <1>4, <1>5 DEF KeysInv

LEMMA FetchedKeys ==
  ASSUME Certs!KeysAssumption, KeysInv, NEW i \in Inbound, Certs!Fetched(i)
  PROVE  KeysInv' /\ KeysHeld
<1>1. /\ verify[i].pc \in {"getting", "forcing"} /\ UNCHANGED <<clock, served, start, lastFailure>>
      /\ cached' = [keys |-> {served}, at |-> clock] /\ failure' = 0
      /\ Certs!TypeOK /\ verify \in [Inbound -> [pc : {"idle", "accepted", "rejected"} \cup Certs!Fetching \cup Certs!Waiting,
                                                 kid : {Certs!Unknown} \cup Certs!Keys]]
  BY DEF Certs!Fetched, Certs!FetchedKeys, Certs!Fetching, KeysInv, Certs!TypeOK
<1>2. PICK kid \in {Certs!Unknown} \cup Certs!Keys : kid = verify[i].kid
  BY <1>1
<1>3. /\ verify' \in [Inbound -> [pc : {"idle", "accepted", "rejected"} \cup Certs!Fetching \cup Certs!Waiting,
                                  kid : {Certs!Unknown} \cup Certs!Keys]]
      /\ \A j \in Inbound \ {i} : verify'[j] = verify[j]
      /\ verify'[i].kid = kid /\ (attempt' = attempt \/ attempt' = clock)
      /\ verify'[i].pc = "accepted" => kid \in {served}
      /\ verify'[i].pc = "rejected" => kid \notin {served}
  <2>1. CASE verify[i].pc = "getting"
    <3>1. Certs!Match(i, kid, {served})
      BY <1>2, <2>1 DEF Certs!Fetched, Certs!FetchedKeys
    <3> QED BY <1>1, <3>1, Matches
  <2>2. CASE verify[i].pc # "getting"
    <3>1. PICK pc : /\ pc = IF kid \in {served} THEN "accepted" ELSE "rejected"
                    /\ verify' = [verify EXCEPT ![i].pc = pc] /\ attempt' = attempt
      BY <1>2, <2>2 DEF Certs!Fetched, Certs!FetchedKeys, Certs!Becomes, Certs!Verdict
    <3>2. pc \in {"accepted", "rejected"}
      BY <3>1
    <3> QED BY <1>1, <1>2, <3>1, <3>2
  <2> QED BY <2>1, <2>2
<1>4. KeysInv'
  BY <1>1, <1>3, Refetched
<1>5. served # Certs!Unknown
  BY <1>1, KeysTyped DEF Certs!Unknown
<1>6. KeysHeld
  BY <1>3, <1>5 DEF KeysHeld, Certs!MayAccept, Certs!MayReject
<1> QED BY <1>4, <1>6

LEMMA FetchFailsKeys ==
  ASSUME Certs!KeysAssumption, KeysInv, NEW i \in Inbound, Certs!FetchFails(i)
  PROVE  KeysInv' /\ KeysHeld
<1>1. /\ verify[i].pc \in {"getting", "forcing"} /\ UNCHANGED <<clock, served, start, cached>>
      /\ failure' = clock /\ lastFailure' = clock
      /\ Certs!TypeOK /\ verify \in [Inbound -> [pc : {"idle", "accepted", "rejected"} \cup Certs!Fetching \cup Certs!Waiting,
                                                 kid : {Certs!Unknown} \cup Certs!Keys]]
  BY DEF Certs!FetchFails, Certs!Fetching, KeysInv, Certs!TypeOK
<1>2. PICK kid \in {Certs!Unknown} \cup Certs!Keys : kid = verify[i].kid
  BY <1>1
<1>3. /\ verify' \in [Inbound -> [pc : {"idle", "accepted", "rejected"} \cup Certs!Fetching \cup Certs!Waiting,
                                  kid : {Certs!Unknown} \cup Certs!Keys]]
      /\ \A j \in Inbound \ {i} : verify'[j] = verify[j]
      /\ verify'[i].kid = kid /\ (attempt' = attempt \/ attempt' = clock)
      /\ verify'[i].pc = "accepted" => kid \in cached.keys
  <2>1. CASE verify[i].pc = "getting" /\ cached.keys # {}
    <3>1. Certs!Match(i, kid, cached.keys)
      BY <1>2, <2>1 DEF Certs!FetchFails
    <3> QED BY <1>1, <3>1, Matches
  <2>2. CASE ~ (verify[i].pc = "getting" /\ cached.keys # {})
    <3>1. PICK pc : /\ pc = IF kid \in cached.keys THEN "accepted" ELSE "rejected"
                    /\ verify' = [verify EXCEPT ![i].pc = pc] /\ attempt' = attempt
      BY <1>2, <2>2 DEF Certs!FetchFails, Certs!Becomes, Certs!Verdict
    <3>2. pc \in {"accepted", "rejected"}
      BY <3>1
    <3> QED BY <1>1, <1>2, <3>1, <3>2
  <2> QED BY <2>1, <2>2
<1>4. KeysInv'
  BY <1>1, <1>3, Refetched
<1>5. clock \in Nat /\ Interval \in Nat \ {0}
  BY <1>1, KeysTyped
<1>6. kid \in cached.keys => Certs!MayAccept(kid)
  <2> SUFFICES ASSUME kid \in cached.keys PROVE Certs!MayAccept(kid)
    OBVIOUS
  <2>1. kid \in 1 .. served /\ served \in Nat /\ served <= MaxKey
    BY <1>1, KeysTyped DEF KeysInv, KeysCached
  <2>2. kid # served => kid + 1 \in 1 .. served
    BY <2>1
  <2>3. kid # served => clock >= start[kid + 1]
    BY <2>2 DEF KeysInv, KeysTimed
  <2> QED BY <1>1, <2>1, <2>3 DEF Certs!MayAccept, Certs!Unknown
<1>7. Certs!MayReject(i, kid)
  BY <1>1, <1>5 DEF Certs!MayReject
<1> QED BY <1>3, <1>4, <1>6, <1>7 DEF KeysHeld

LEMMA PauseKeys ==
  ASSUME Certs!KeysAssumption, KeysInv, Certs!Pause
  PROVE  KeysInv' /\ KeysHeld
<1>1. /\ clock' = clock + 1 /\ clock < MaxClock
      /\ UNCHANGED <<served, start, cached, failure, attempt, verify, lastFailure>>
  BY DEF Certs!Pause
<1>2. Certs!TypeOK
  BY DEF KeysInv
<1>3. Interval \in Nat /\ MaxClock \in Nat /\ clock \in Nat /\ Interval <= clock
  BY <1>2, KeysTyped
<1>4. clock' \in Certs!Clock
  BY <1>1, <1>3 DEF Certs!Clock
<1>5. Certs!TypeOK'
  BY <1>1, <1>2, <1>4 DEF Certs!TypeOK
<1>6. KeysTimed'
  BY <1>1, <1>2, KeysTyped DEF KeysInv, KeysTimed
<1>7. KeysCached' /\ Attempted'
  BY <1>1 DEF KeysInv, KeysCached, Attempted
<1> QED BY <1>1, <1>5, <1>6, <1>7 DEF KeysInv, KeysHeld

LEMMA RotateKeys ==
  ASSUME Certs!KeysAssumption, KeysInv, Certs!Rotate
  PROVE  KeysInv' /\ KeysHeld
<1>1. /\ served' = served + 1 /\ served < MaxKey
      /\ start' = [start EXCEPT ![served + 1] = clock]
      /\ UNCHANGED <<clock, cached, failure, attempt, verify, lastFailure>>
  BY DEF Certs!Rotate
<1>2. Certs!TypeOK
  BY DEF KeysInv
<1>3. /\ served \in Nat /\ MaxKey \in Nat /\ 1 <= served /\ served + 1 \in 1 .. MaxKey
      /\ clock \in Nat /\ Interval \in Nat /\ Interval <= clock /\ cached.at \in Nat
      /\ \A k \in 1 .. MaxKey : start[k] \in Nat
  BY <1>1, <1>2, KeysTyped
<1>4. /\ start' \in [Certs!Keys -> {0} \cup Certs!Clock] /\ start'[served + 1] = clock
      /\ \A k \in 1 .. served : start'[k] = start[k]
  BY <1>1, <1>2, <1>3 DEF Certs!TypeOK, Certs!Keys
<1>5. served' \in Certs!Keys
  BY <1>1, <1>3 DEF Certs!Keys
<1>6. Certs!TypeOK'
  BY <1>1, <1>2, <1>4, <1>5 DEF Certs!TypeOK
<1>7. KeysTimed'
  BY <1>1, <1>3, <1>4 DEF KeysInv, KeysTimed
<1>8. KeysCached'
  <2>1. (cached.keys = {} /\ cached.at = 0) \/ \E k \in 1 .. served + 1 : cached.keys = {k}
    BY <1>3 DEF KeysInv, KeysCached
  <2>2. ASSUME NEW k \in cached.keys, k < served + 1
        PROVE  cached.at <= start'[k + 1]
    <3>1. k \in 1 .. served /\ (k < served => cached.at <= start[k + 1])
      BY <2>2 DEF KeysInv, KeysCached
    <3>2. CASE k < served
      BY <1>3, <1>4, <3>1, <3>2
    <3>3. CASE k = served
      BY <1>4, <3>3 DEF KeysInv, KeysTimed
    <3> QED BY <1>3, <3>1, <3>2, <3>3
  <2> QED BY <1>1, <2>1, <2>2 DEF KeysCached
<1>9. Attempted'
  BY <1>1 DEF KeysInv, Attempted
<1> QED BY <1>1, <1>6, <1>7, <1>8, <1>9 DEF KeysInv, KeysHeld

(* KeysInv is inductive, and every step is one that KeysSound allows.        *)
LEMMA KeysStep ==
  ASSUME Certs!KeysAssumption, KeysInv, [Certs!Next]_keysVars
  PROVE  KeysInv' /\ [KeysHeld]_keysVars
<1>1. CASE Certs!Next
  BY <1>1, PauseKeys, RotateKeys, ArriveKeys, WakeGetKeys, WakeForceKeys, FetchedKeys, FetchFailsKeys
  DEF Certs!Next
<1>2. CASE UNCHANGED keysVars
  BY <1>2 DEF keysVars, KeysInv, Certs!TypeOK, KeysTimed, KeysCached, Attempted
<1> QED BY <1>1, <1>2

-----------------------------------------------------------------------------
(* The parts side by side: a step is one of the part, or lets it rest.       *)
LEMMA AllSteps ==
  ASSUME [AllNext]_allVars
  PROVE  /\ [SignOn!Next]_loginVars /\ [Install!Next]_installVars
         /\ [Tokens!Next]_tokenVars /\ [Certs!Next]_keysVars
<1>1. CASE UNCHANGED allVars
  BY <1>1 DEF allVars
<1>2. CASE AllNext
  BY <1>2 DEF AllNext, OfPeople, OfLogin, OfInstall, OfTokens, OfKeys
<1> QED BY <1>1, <1>2

(* Theorem.  The embedded issuer and the callback (consume_code, the keystore,
   record_failure): for any numbers of logins, codes, keypairs, crashes and
   any lifetimes, a login is good for one session; a session is accepted and
   the password found after every restart; and the wrong passwords tried in
   the time of a lock are as many as the threshold says at most.             *)
THEOREM SignInHold == AllSpec => []SignInSound
<1>1. AllInit => SignInInv
  BY AccessAssumption, SignInInit DEF AllInit
<1>2. SignInInv /\ [AllNext]_allVars => SignInInv'
  BY AccessAssumption, AllSteps, SignInStep
<1> QED BY <1>1, <1>2, SignInGood, PTL DEF AllSpec

(* Theorem.  create_channel and its rollback: for any numbers of accounts,
   rows, admins, removals and crashes, a platform's webhook is that of the one
   row of its account once no request is at work on it; where there is no row
   it is unset or that of a channel somebody removed.  Excepted are accounts
   with a removal or a crash during an install or a failed deleteWebhook.    *)
THEOREM HooksHold == AllSpec => []HookMatches
<1>1. AllInit => InstallInv
  BY AccessAssumption, InstallInit DEF AllInit
<1>2. InstallInv /\ [AllNext]_allVars => InstallInv'
  BY AccessAssumption, AllSteps, InstallStep
<1> QED BY <1>1, <1>2, InstallGood, PTL DEF AllSpec

(* Theorem.  get_access_token, _refresh and _persist_rotated_token: for any
   numbers of deliveries, saves, crashes and grants, a refresh token is used
   once unless new ones were lost on their way; what an admin saved stays, but
   for a save during a refresh, which overwrites it; and a token that is handed
   out is in date, and of the secrets saved last once the lifetime of a token
   has passed, unless one of older secrets was answered since.               *)
THEOREM TokensHold == AllSpec => TokensSound
<1>1. AllInit => TokensInv
  BY AccessAssumption, TokensInit DEF AllInit
<1>2. TokensInv /\ [AllNext]_allVars =>
        /\ TokensInv'
        /\ [\A d \in Delivery : ~ Tokens!At(d, "has") /\ Tokens!At(d, "has")' => Timely(d)]_tokenVars
  BY AccessAssumption, AllSteps, TokensStep
<1>3. TokensInv => Tokens!TypeOK /\ Tokens!SingleFlight /\ Tokens!SecretsStay
  BY TokensGood DEF TokensInv
<1> QED
  BY <1>1, <1>2, <1>3, PTL
  DEF AllSpec, TokensSound, Tokens!TokensTimely, Tokens!tokenVars, tokenVars, Timely

(* Theorem.  _get_keys, _force_refresh_keys and _verify: for any numbers of
   messages and rotations and any intervals that are ordered as the code's
   are, a withdrawn key counts for the lifetime of the cache at most unless a
   fetch has failed since, and a message signed with the issuer's key is
   turned away only while the key is new, a fetch failed lately, or a refresh
   is under way.                                                             *)
THEOREM KeysHold == AllSpec => KeysSound
<1>1. AllInit => KeysInv
  BY AccessAssumption, KeysInit DEF AllInit
<1>2. KeysInv /\ [AllNext]_allVars => KeysInv' /\ [KeysHeld]_keysVars
  BY AccessAssumption, AllSteps, KeysStep
<1>3. KeysInv => Certs!TypeOK
  BY DEF KeysInv
<1> QED
  BY <1>1, <1>2, <1>3, PTL
  DEF AllSpec, KeysSound, Certs!KeysSound, Certs!keysVars, keysVars, KeysHeld
=============================================================================
