------------------------------- MODULE SignIn -------------------------------
(***************************************************************************)
(* Sign-in of one account through the embedded issuer: the states of OIDC  *)
(* logins and the codes in memory, the signing keys on disk, and the       *)
(* password with its lock, which the activation of the account moves.      *)
(*                                                                         *)
(* login, authorize_post and token are coroutines without an await, so     *)
(* each is one step; callback waits for a thread, which asks the token     *)
(* endpoint of this same process.  A code comes back with the state of its *)
(* login, so the verifier, the redirect and the nonce of it match.         *)
(***************************************************************************)
EXTENDS Naturals, Sequences

CONSTANTS Login,      \* logins begun, each with its state, verifier and nonce
          Code,       \* codes issued
          Key,        \* keypairs generated
          Threshold, LockTime,           \* of the lock
          StateTTL, CodeTTL, TokenTTL,   \* lifetimes, in steps of the clock
          EnvPassword,                   \* AUTH_LOCAL_BOOTSTRAP_PASSWORD is set
          MaxTime, MaxCrash              \* bounds

SignInAssumption ==
  /\ Login # {} /\ EnvPassword \in BOOLEAN
  /\ {Threshold, LockTime, StateTTL, CodeTTL, TokenTTL} \subseteq Nat \ {0}
  /\ MaxTime \in Nat /\ MaxCrash \in Nat

VARIABLES now, crashes,
          server,     \* how far the process has booted, or "down"
          disk,       \* keypairs on disk: with the public part or without
          loaded,     \* keypairs the process signs with
          cred,       \* local_credential under the bootstrap key and the admin's
          activated,  \* the account has its admin_user row
          begun,      \* logins whose form a browser shows
          states,     \* state store: when the state of a login expires, 0 for none
          codes,      \* codes issued: stored until when, and their callback
          sessions,   \* session tokens handed out
          tries       \* history: when wrong passwords were tried, since the last right one

clock == <<now, crashes>>
keystore == <<server, disk, loaded>>
account == <<cred, activated, tries>>
flow == <<begun, states, codes, sessions>>
vars == <<clock, keystore, account, flow>>

Times == 0 .. MaxTime
NoCred == [set |-> FALSE, fails |-> 0, until |-> 0]
NewCred == [NoCred EXCEPT !.set = TRUE]
Pairs(public) == {k \in Key : [key |-> k, public |-> public] \in disk}
NoTries == <<>>
Codes == [pc : {"none", "issued", "exchange", "minted", "over"}, login : Login,
          stored : BOOLEAN, exp : Nat]
NotIssued == [pc |-> "none", login |-> CHOOSE l \in Login : TRUE, stored |-> FALSE, exp |-> 0]

Init ==
  /\ now = 0 /\ crashes = 0
  /\ server = "down" /\ disk = {} /\ loaded = {}
  /\ cred = [boot |-> NoCred, admin |-> NoCred] /\ activated = FALSE /\ tries = NoTries
  /\ begun = {} /\ states = [l \in Login |-> 0] /\ sessions = {}
  /\ codes = [c \in Code |-> NotIssued]

-----------------------------------------------------------------------------
(* The process: main, and Keystore._load_or_generate.                       *)

(* A private key without its public part is skipped.                         *)
Usable == Pairs(TRUE)

LoadKeys ==
  /\ server = "down"
  /\ IF Usable # {}
       THEN server' = "account" /\ loaded' = Usable
       ELSE server' = "private" /\ loaded' = {}
  /\ UNCHANGED <<clock, disk, account, flow>>

(* _generate_new: two files, one after the other.                            *)
WritePrivate(k) ==
  /\ server = "private" /\ k \notin Pairs(TRUE) \cup Pairs(FALSE)
  /\ disk' = disk \cup {[key |-> k, public |-> FALSE]}
  /\ server' = "public" /\ loaded' = {k}
  /\ UNCHANGED <<clock, account, flow>>

WritePublic ==
  /\ server = "public"
  /\ disk' = {p \in disk : p.key \notin loaded} \cup [key : loaded, public : {TRUE}]
  /\ server' = "account"
  /\ UNCHANGED <<clock, loaded, account, flow>>

(* _bootstrap_pending_superadmin: the credential of an account that is not
   activated is made, or set to what the environment says.                   *)
SeedCredential ==
  /\ server = "account"
  /\ server' = "up"
  /\ IF ~ activated /\ (~ cred.boot.set \/ EnvPassword)
       THEN cred' = [cred EXCEPT !.boot = NewCred] /\ tries' = NoTries
       ELSE UNCHANGED <<cred, tries>>
  /\ UNCHANGED <<clock, disk, loaded, activated, flow>>

(* What is in memory is lost; forms and redirects stay with the browser.     *)
Crash ==
  /\ server # "down" /\ crashes < MaxCrash
  /\ crashes' = crashes + 1
  /\ server' = "down" /\ loaded' = {}
  /\ states' = [l \in Login |-> 0]
  /\ codes' = [c \in Code |-> [codes[c] EXCEPT
                 !.stored = FALSE,
                 !.pc = IF @ \in {"exchange", "minted"} THEN "over" ELSE @]]
  /\ UNCHANGED <<now, disk, account, begun, sessions>>

Tick == now < MaxTime /\ now' = now + 1 /\ UNCHANGED <<crashes, keystore, account, flow>>

-----------------------------------------------------------------------------
(* login *)
Begin(l) ==
  /\ server = "up" /\ l \notin begun
  /\ begun' = begun \cup {l}
  /\ states' = [states EXCEPT ![l] = now + StateTTL]
  /\ UNCHANGED <<clock, keystore, account, codes, sessions>>

(* authorize_post, as often as the form is sent: the credential is the
   bootstrap's until the account has its row.                                *)
CredKey == IF activated THEN "admin" ELSE "boot"
Mine == cred[CredKey]
Locked == Mine.until > now

(* record_failure *)
Failed(c) ==
  [c EXCEPT !.fails = @ + 1, !.until = IF c.fails + 1 >= Threshold THEN now + LockTime ELSE @]

WrongPassword(l) ==
  /\ server = "up" /\ l \in begun /\ ~ Locked
  /\ cred' = [cred EXCEPT ![CredKey] = IF Mine.set THEN Failed(Mine) ELSE Mine]
  /\ tries' = Append(tries, now)
  /\ UNCHANGED <<clock, keystore, activated, flow>>

(* issue_code *)
Issued(l) == [pc |-> "issued", login |-> l, stored |-> TRUE, exp |-> now + CodeTTL]

(* record_success, and the redirect with the code.                           *)
RightPassword(l, c) ==
  /\ server = "up" /\ l \in begun /\ ~ Locked /\ Mine.set
  /\ codes[c].pc = "none"
  /\ cred' = [cred EXCEPT ![CredKey] = NewCred]
  /\ tries' = NoTries
  /\ codes' = [codes EXCEPT ![c] = Issued(l)]
  /\ UNCHANGED <<clock, keystore, activated, begun, states, sessions>>

-----------------------------------------------------------------------------
(* Mutant of Popped: the state stays. *)
PoppedKeeps(l) == states

(* InMemoryStateStore.pop *)
Popped(l) == [states EXCEPT ![l] = 0]

(* callback, as often as the redirect is followed.                           *)
Callback(c) ==
  LET l == codes[c].login IN
  /\ server = "up" /\ codes[c].pc \in {"issued", "over"} /\ states[l] # 0
  /\ states' = Popped(l)
  /\ codes' = [codes EXCEPT ![c].pc = IF states[l] >= now THEN "exchange" ELSE @]
  /\ UNCHANGED <<clock, keystore, account, begun, sessions>>

(* exchange_code in its thread, up to the token endpoint: consume_code takes
   the code, and the tokens are signed.                                      *)
Redeemable(c) == codes[c].stored /\ codes[c].exp >= now
Minted(c) == [codes[c] EXCEPT !.pc = "minted", !.stored = FALSE, !.exp = now + TokenTTL]
Redeemed(c) == IF Redeemable(c) THEN Minted(c)
               ELSE [codes[c] EXCEPT !.pc = "over", !.stored = FALSE]
Exchange(c) ==
  /\ codes[c].pc = "exchange"
  /\ codes' = [codes EXCEPT ![c] = Redeemed(c)]
  /\ UNCHANGED <<clock, keystore, account, begun, states, sessions>>

(* _migrate_bootstrap_credential *)
Migrated == IF cred.boot.set THEN [boot |-> NoCred, admin |-> NewCred] ELSE cred

(* _validate_claims *)
Expired(c) == codes[c].exp < now

(* verify_token, resolve_or_create_admin, and the cookie.                    *)
SignedIn(c) ==
  /\ codes[c].pc = "minted"
  /\ codes' = [codes EXCEPT ![c].pc = "over"]
  /\ IF Expired(c) THEN UNCHANGED <<account, sessions>>
     ELSE /\ \E k \in loaded :
               sessions' = sessions \cup {[login |-> codes[c].login, code |-> c,
                                           key |-> k, exp |-> codes[c].exp]}
          /\ activated' = TRUE
          /\ IF activated THEN UNCHANGED <<cred, tries>>
             ELSE cred' = Migrated /\ tries' = NoTries
  /\ UNCHANGED <<clock, keystore, begun, states>>

-----------------------------------------------------------------------------
Next ==
  \/ LoadKeys \/ WritePublic \/ SeedCredential \/ Crash \/ Tick
  \/ \E k \in Key : WritePrivate(k)
  \/ \E l \in Login : Begin(l) \/ WrongPassword(l) \/ \E c \in Code : RightPassword(l, c)
  \/ \E c \in Code : Callback(c) \/ Exchange(c) \/ SignedIn(c)

Spec == Init /\ [][Next]_vars

-----------------------------------------------------------------------------
(* Types. *)
Creds == [set : BOOLEAN, fails : Nat, until : Nat]
TypeOK ==
  /\ now \in Times /\ crashes \in 0 .. MaxCrash
  /\ server \in {"down", "private", "public", "account", "up"}
  /\ disk \subseteq [key : Key, public : BOOLEAN] /\ loaded \subseteq Key
  /\ cred \in [{"boot", "admin"} -> Creds] /\ activated \in BOOLEAN
  /\ begun \subseteq Login /\ states \in [Login -> Nat] /\ codes \in [Code -> Codes]
  /\ sessions \subseteq [login : Login, code : Code, key : Key, exp : Nat]
  /\ tries \in Seq(Times)

(* A login is good for one session, however often its form is sent or its
   redirect is followed ("a replay attempt always fails").                   *)
OneSessionEach == \A s, t \in sessions : s.login = t.login => s = t

(* A session that has not expired is accepted after every restart, wherever
   the process stopped, and the password stays where sign-in looks for it.   *)
SessionsSurvive ==
  server = "up" => /\ Mine.set
                   /\ \A s \in sessions : s.exp >= now => s.key \in loaded

(* As many wrong passwords as the threshold says are tried in the time of a
   lock at most, unless a right one came between or the account was activated
   or the password was set again.                                            *)
GuessesBounded ==
  \A i \in DOMAIN tries : i > Threshold => tries[i] >= tries[i - Threshold] + LockTime

SignInSound == OneSessionEach /\ SessionsSurvive /\ GuessesBounded
=============================================================================
