----------------------------- MODULE BotRuntime -----------------------------
(***************************************************************************)
(* The runtime of one bot that each process caches (ConversationSession-   *)
(* Manager in agents/conversation_agent.py), and the admin routes that     *)
(* save the bot's configuration and drop the caches afterwards.            *)
(*                                                                         *)
(* A turn that needs a handler builds the runtime when there is none, puts *)
(* away the user's other sessions, and takes or creates the handler of its *)
(* session.  Turns and admin routes are threads that take no lock: each    *)
(* access to a cache or to the database is an action.  A configuration is  *)
(* its number, and so is an API key.                                       *)
(***************************************************************************)
EXTENDS Naturals, FiniteSets

CONSTANTS Process,   \* processes that serve the bot
          Turn,      \* threads that want a handler
          Admin,     \* threads of the admin routes
          Session, UserOf, \* sessions and the user of each
          Begins,    \* pairs of users: the keys of the second begin with the
                     \* prefix of the first, as those of "7_1" do with "7_"
          MaxSessions, \* max_sessions of the TTL cache
          MaxConfig, MaxKey, \* bounds on the saves
          None

RuntimeAssumption ==
  /\ None \notin Nat /\ MaxSessions \in Nat \ {0}
  /\ IsFiniteSet(Process) /\ IsFiniteSet(Session)
  /\ \A s, t, o \in Session :   \* what two prefixes begin, one of them begins
       <<UserOf[s], UserOf[o]>> \in Begins /\ <<UserOf[t], UserOf[o]>> \in Begins
       => \/ UserOf[s] = UserOf[t]
          \/ {<<UserOf[s], UserOf[t]>>, <<UserOf[t], UserOf[s]>>} \cap Begins # {}

VARIABLES row,     \* the bot's row: configuration and API key
          runtime, \* _bot_runtimes of each process, for this bot
          cache,   \* sessions of each process: handlers by session
          turn, admin,
          past     \* history, a set of: "raced" a save, an expiry or a full cache
                   \* met a turn or another save; "user" two turns met of one
                   \* user, or of two of whom one's prefix begins the other's keys;
                   \* "failed" a turn got no handler; "puts" two saves of the
                   \* configuration met; "lost" one overwrote another than it saw

vars == <<row, runtime, cache, turn, admin, past>>

Runtimes == [config : Nat, key : Nat]
Absent == [config |-> None, key |-> None]

Turns == [pc : {"idle", "config", "key", "store", "evict", "open", "create", "fetch"},
          at : Process \cup {None}, session : Session \cup {None},
          rt : [config : Nat \cup {None}, key : Nat \cup {None}],
          doomed : SUBSET Session]
Admins == [pc : {"idle", "editing", "write", "pop", "list", "purge"},
           at : Process \cup {None}, base : Nat \cup {None}, doomed : SUBSET Session]

NoTurn == [pc |-> "idle", at |-> None, session |-> None, rt |-> Absent, doomed |-> {}]
NoSave == [pc |-> "idle", at |-> None, base |-> 0, doomed |-> {}]

Building(t) == turn[t].pc # "idle"
Saving(a) == admin[a].pc \in {"pop", "list", "purge"}

Init ==
  /\ row = [config |-> 1, key |-> 1]
  /\ runtime = [p \in Process |-> Absent]
  /\ cache = [p \in Process |-> [s \in Session |-> Absent]]
  /\ turn = [t \in Turn |-> NoTurn]
  /\ admin = [a \in Admin |-> NoSave]
  /\ past = {}

Open(p) == {s \in Session : cache[p][s] # Absent}

(* The keys of o begin with the prefix of the user of s. *)
Sweeps(s, o) == UserOf[s] = UserOf[o] \/ <<UserOf[s], UserOf[o]>> \in Begins
Kin(s, o) == Sweeps(s, o) \/ Sweeps(o, s)

(* Mutant of Theirs: older sessions of the user stay. *)
TheirsNone(p, s) == {o \in Open(p) : o = s}
Theirs(p, s) == {o \in Open(p) : Sweeps(s, o) /\ o # s}

-----------------------------------------------------------------------------
(* A turn: get_handler.                                                      *)

TurnAt(t, pc) == turn[t].pc = pc
TurnTo(t, pc) == turn' = [turn EXCEPT ![t].pc = pc]

(* What was under way when the turn began: a save, another turn of its user
   or of one whose keys begin alike.                                         *)
Met(t, p, s) ==
  (IF \E a \in Admin : Saving(a) THEN {"raced"} ELSE {}) \cup
  (IF \E u \in Turn \ {t} : Building(u) /\ turn[u].at = p /\ Kin(turn[u].session, s)
   THEN {"user"} ELSE {})

Lookup(t, p, s) ==
  /\ turn[t].pc = "idle"
  /\ turn' = [turn EXCEPT ![t] =
       [pc |-> IF runtime[p] = Absent THEN "config" ELSE "evict",
        at |-> p, session |-> s, rt |-> runtime[p], doomed |-> Theirs(p, s)]]
  /\ past' = past \cup Met(t, p, s)
  /\ UNCHANGED <<row, runtime, cache, admin>>

(* create_config and get_decrypted_api_key read the row one after another.  *)
ReadConfig(t) ==
  /\ TurnAt(t, "config")
  /\ turn' = [turn EXCEPT ![t].pc = "key", ![t].rt.config = row.config]
  /\ UNCHANGED <<row, runtime, cache, admin, past>>

ReadKey(t) ==
  /\ TurnAt(t, "key")
  /\ turn' = [turn EXCEPT ![t].pc = "store", ![t].rt.key = row.key]
  /\ UNCHANGED <<row, runtime, cache, admin, past>>

StoreRuntime(t) ==
  LET p == turn[t].at IN
  /\ TurnAt(t, "store")
  /\ runtime' = [runtime EXCEPT ![p] = turn[t].rt]
  /\ turn' = [turn EXCEPT ![t].pc = "evict", ![t].doomed = Theirs(p, turn[t].session)]
  /\ UNCHANGED <<row, cache, admin, past>>

(* The keys are listed, then deleted one by one; one that is gone raises.   *)
Removed(p, s) == cache' = [cache EXCEPT ![p][s] = Absent]

Fail(t) == turn' = [turn EXCEPT ![t] = NoTurn] /\ past' = past \cup {"failed"}

EvictOne(t) ==
  LET p == turn[t].at IN
  /\ TurnAt(t, "evict")
  /\ \E s \in turn[t].doomed :
       IF s \in Open(p)
       THEN /\ Removed(p, s)
            /\ turn' = [turn EXCEPT ![t].doomed = @ \ {s}]
            /\ UNCHANGED past
       ELSE Fail(t) /\ UNCHANGED cache
  /\ UNCHANGED <<row, runtime, admin>>

Evicted(t) ==
  /\ TurnAt(t, "evict") /\ turn[t].doomed = {}
  /\ TurnTo(t, IF turn[t].session \in Open(turn[t].at) THEN "fetch" ELSE "create")
  /\ UNCHANGED <<row, runtime, cache, admin, past>>

OverFull(open) == Cardinality(open) > MaxSessions

(* The new handler has loaded its history.  A full cache drops others.      *)
CreateHandler(t) ==
  LET p == turn[t].at
      full == OverFull(Open(p) \cup {turn[t].session})
  IN
  /\ TurnAt(t, "create")
  /\ \E gone \in {{}} \cup {{s} : s \in Open(p) \ {turn[t].session}} :
       /\ full <=> gone # {}
       /\ cache' = [cache EXCEPT ![p] =
            [s \in Session |-> IF s = turn[t].session THEN turn[t].rt
                               ELSE IF s \in gone THEN Absent ELSE @[s]]]
       /\ past' = IF full THEN past \cup {"raced"} ELSE past
  /\ TurnTo(t, "fetch")
  /\ UNCHANGED <<row, runtime, admin>>

(* The handler is read from the cache again, and may be gone.               *)
Fetch(t) ==
  LET p == turn[t].at IN
  /\ TurnAt(t, "fetch")
  /\ IF turn[t].session \in Open(p)
     THEN turn' = [turn EXCEPT ![t] = NoTurn] /\ UNCHANGED past
     ELSE Fail(t)
  /\ UNCHANGED <<row, runtime, cache, admin>>

(* An hour without use.                                                     *)
Expire(p, s) ==
  /\ s \in Open(p)
  /\ Removed(p, s)
  /\ past' = past \cup {"raced" : t \in {u \in Turn : Building(u)}}
                  \cup {"raced" : a \in {b \in Admin : Saving(b)}}
  /\ UNCHANGED <<row, runtime, turn, admin>>

-----------------------------------------------------------------------------
(* An admin saves: bot_put_config or bot_put_api_key, then invalidate_bot.   *)

AdminAt(a, pc) == admin[a].pc = pc
AdminTo(a, pc) == admin' = [admin EXCEPT ![a].pc = pc]

(* The admin opens the editor: GET returns the version to send back.        *)
OpenEditor(a, p) ==
  /\ AdminAt(a, "idle")
  /\ admin' = [admin EXCEPT ![a] = [pc |-> "editing", at |-> p,
                                    base |-> row.config, doomed |-> {}]]
  /\ UNCHANGED <<row, runtime, cache, turn, past>>

(* The version is compared in one statement and counted up in another; a
   save that sends none (expected_version is optional) overwrites what it
   finds.                                                                   *)
Mismatch(sent) == sent # None /\ sent # row.config

PutConfig(a) ==
  /\ AdminAt(a, "editing")
  /\ \E sent \in {admin[a].base, None} :
       admin' = [admin EXCEPT ![a] =
                   IF Mismatch(sent) THEN NoSave
                   ELSE [admin[a] EXCEPT !.pc = "write", !.base = sent]]
  /\ past' = IF \E b \in Admin \ {a} : AdminAt(b, "write") THEN past \cup {"puts"} ELSE past
  /\ UNCHANGED <<row, runtime, cache, turn>>

(* What a save does to the history: turns that are building may have read
   the row before it.                                                       *)
SaveMeets == IF \E t \in Turn : Building(t) THEN past \cup {"raced"} ELSE past

WriteConfig(a) ==
  /\ AdminAt(a, "write") /\ row.config < MaxConfig
  /\ row' = [row EXCEPT !.config = @ + 1]
  /\ admin' = [admin EXCEPT ![a].pc = "pop", ![a].base = 0]
  /\ past' = SaveMeets \cup (IF Mismatch(admin[a].base) THEN {"lost"} ELSE {})
  /\ UNCHANGED <<runtime, cache, turn>>

PutKey(a, p) ==
  /\ AdminAt(a, "idle") /\ row.key < MaxKey
  /\ row' = [row EXCEPT !.key = @ + 1]
  /\ admin' = [admin EXCEPT ![a] = [pc |-> "pop", at |-> p, base |-> 0, doomed |-> {}]]
  /\ past' = SaveMeets
  /\ UNCHANGED <<runtime, cache, turn>>

(* Mutant of PopRuntime: the runtime stays. *)
PopNothing(a) ==
  /\ AdminAt(a, "pop") /\ AdminTo(a, "list")
  /\ UNCHANGED <<row, runtime, cache, turn, past>>

PopRuntime(a) ==
  /\ AdminAt(a, "pop")
  /\ runtime' = [runtime EXCEPT ![admin[a].at] = Absent]
  /\ AdminTo(a, "list")
  /\ UNCHANGED <<row, cache, turn, past>>

ListSessions(a) ==
  /\ AdminAt(a, "list")
  /\ admin' = [admin EXCEPT ![a].pc = "purge", ![a].doomed = Open(admin[a].at)]
  /\ past' = IF \E b \in Admin \ {a} : Saving(b) THEN past \cup {"raced"} ELSE past
  /\ UNCHANGED <<row, runtime, cache, turn>>

(* AgentService.invalidate_bot swallows the KeyError: the rest stays.       *)
PurgeOne(a) ==
  LET p == admin[a].at IN
  /\ AdminAt(a, "purge")
  /\ \E s \in admin[a].doomed :
       IF s \in Open(p)
       THEN Removed(p, s) /\ admin' = [admin EXCEPT ![a].doomed = @ \ {s}]
       ELSE admin' = [admin EXCEPT ![a] = NoSave] /\ UNCHANGED cache
  /\ UNCHANGED <<row, runtime, turn, past>>

Purged(a) ==
  /\ AdminAt(a, "purge") /\ admin[a].doomed = {}
  /\ admin' = [admin EXCEPT ![a] = NoSave]
  /\ UNCHANGED <<row, runtime, cache, turn, past>>

TurnStep(t) ==
  \/ ReadConfig(t) \/ ReadKey(t) \/ StoreRuntime(t) \/ EvictOne(t) \/ Evicted(t)
  \/ CreateHandler(t) \/ Fetch(t)

SaveStep(a) == WriteConfig(a) \/ PopRuntime(a) \/ ListSessions(a) \/ PurgeOne(a) \/ Purged(a)

Next ==
  \/ \E t \in Turn : TurnStep(t) \/ \E p \in Process, s \in Session : Lookup(t, p, s)
  \/ \E a \in Admin : SaveStep(a) \/ PutConfig(a) \/ \E p \in Process : OpenEditor(a, p) \/ PutKey(a, p)
  \/ \E p \in Process, s \in Session : Expire(p, s)

Spec == Init /\ [][Next]_vars

-----------------------------------------------------------------------------

TypeOK ==
  /\ row \in Runtimes
  /\ runtime \in [Process -> Runtimes \cup {Absent}]
  /\ cache \in [Process -> [Session -> Runtimes \cup {Absent}]]
  /\ turn \in [Turn -> Turns] /\ admin \in [Admin -> Admins]
  /\ \A p \in Process : Cardinality(Open(p)) <= MaxSessions
  /\ past \subseteq {"raced", "user", "failed", "puts", "lost"}

Current == {Absent, row}

(* Once a save has ended, its process holds no runtime and no handler with an
   older configuration or key, nor one with the configuration of one save and
   the key of another ("the next chat picks up the new config"): unless a turn
   was taking its handler meanwhile, or a session expired.                   *)
FreshUnlessRaced ==
  /\ Cardinality(Process) = 1 /\ "raced" \notin past
  /\ \A a \in Admin : ~ Saving(a)
  => \A p \in Process : /\ runtime[p] \in Current
                        /\ \A s \in Session : cache[p][s] \in Current

(* A user has "one active session per user-on-bot", unless two turns of the
   user were taking their handlers at a time; and get_handler ends in a KeyError
   only when something else took the handler away: another turn of the user (or
   of one whose keys begin alike), a save, expiry or a full cache.  And the
   version check keeps an admin who sends the version seen from overwriting what
   another saved since, unless both requests passed it together; one who sends
   none is not checked.                                                      *)
HandlersKept ==
  /\ "user" \notin past =>
       \A p \in Process : \A s, o \in Open(p) : UserOf[s] = UserOf[o] => s = o
  /\ "failed" \in past => past \cap {"raced", "user"} # {}
  /\ "lost" \in past => "puts" \in past
=============================================================================
