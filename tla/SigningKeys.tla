---------------------------- MODULE SigningKeys ----------------------------
(***************************************************************************)
(* The public keys of an issuer that jwt_verifier caches (Teams, Google    *)
(* Chat), which the issuer rotates, and the verifications of inbound       *)
(* messages that read, fetch and refresh them.  A verification is a        *)
(* coroutine: it waits for _jwks_lock and for the endpoint, and runs on    *)
(* between.  Other issuers hold the lock too, which only makes it wait.    *)
(* The endpoint's answer and its being stored are one step.  It serves one *)
(* key that can be converted; others are skipped.                          *)
(***************************************************************************)
EXTENDS FiniteSetsExt, Naturals

CONSTANTS Inbound,           \* messages
          TTL,               \* JWKS_CACHE_TTL
          Cooldown,          \* JWKS_FAILURE_COOLDOWN
          Interval,          \* JWKS_KID_REFRESH_MIN_INTERVAL
          MaxKey, MaxTime    \* bounds of the rotations and of the clock

KeysAssumption ==
  /\ {TTL, Cooldown, Interval, MaxKey} \subseteq Nat \ {0}
  /\ Cooldown <= Interval /\ Interval <= TTL
  /\ MaxTime \in Nat /\ Interval <= MaxTime

VARIABLES clock,
          served,     \* external: the key the issuer signs with and serves
          start,      \* external: since when a key is served, 0 before
          cached,     \* _jwks_cache: keys and when they were fetched
          failure,    \* _jwks_failures, 0 for none
          attempt,    \* _jwks_kid_refresh_attempts, 0 for none
          verify,     \* the verification of each message, and its kid
          lastFailure \* history: the last fetch that failed

keysVars == <<clock, served, start, cached, failure, attempt, verify, lastFailure>>

Unknown == 0               \* a kid that the issuer never has
Keys == 1 .. MaxKey
Clock == Interval .. MaxTime
Fetching == {"getting", "forcing"}
Waiting == {"waitGet", "waitForce"}

(* Times start at Interval: a failure or an attempt at 0 is long ago.         *)
Init ==
  /\ clock = Interval
  /\ served = 1 /\ start = [k \in Keys |-> IF k = 1 THEN Interval ELSE 0]
  /\ cached = [keys |-> {}, at |-> 0]
  /\ failure = 0 /\ attempt = 0 /\ lastFailure = 0
  /\ verify = [i \in Inbound |-> [pc |-> "idle", kid |-> Unknown]]

Pause ==
  /\ clock < MaxTime /\ clock' = clock + 1
  /\ UNCHANGED <<served, start, cached, failure, attempt, verify, lastFailure>>

Rotate ==
  /\ served < MaxKey
  /\ served' = served + 1
  /\ start' = [start EXCEPT ![served + 1] = clock]
  /\ UNCHANGED <<clock, cached, failure, attempt, verify, lastFailure>>

-----------------------------------------------------------------------------
Fresh == cached.keys # {} /\ clock - cached.at < TTL
Cooling == clock - failure < Cooldown
TriedLately == clock - attempt < Interval
Locked == \E j \in Inbound : verify[j].pc \in Fetching
Busy(i) == \E j \in Inbound \ {i} : verify[j].pc \in Fetching \cup Waiting
Becomes(i, pc) == verify' = [verify EXCEPT ![i].pc = pc]

(* _verify with the keys it was given: a kid that is not among them asks for
   a refresh, unless one was attempted lately.                               *)
Match(i, kid, keys) ==
  LET refresh == kid \notin keys /\ ~ TriedLately IN
  /\ attempt' = IF refresh /\ ~ Busy(i) THEN clock ELSE attempt
  /\ verify' = [verify EXCEPT ![i] =
       [kid |-> kid, pc |-> IF refresh THEN IF Busy(i) THEN "waitForce" ELSE "forcing"
                                       ELSE IF kid \in keys THEN "accepted" ELSE "rejected"]]

(* A message arrives, signed with a key that was served or with another:
   _get_keys has fresh keys, or what there is while a failure is recent, or
   goes for the lock.                                                        *)
Arrive(i) ==
  /\ verify[i].pc = "idle"
  /\ \E kid \in {Unknown} \cup 1 .. served :
       IF Fresh \/ (Cooling /\ cached.keys # {}) THEN Match(i, kid, cached.keys)
       ELSE /\ verify' = [verify EXCEPT ![i] =
                 [kid |-> kid, pc |-> IF Cooling THEN "rejected"
                                      ELSE IF Busy(i) THEN "waitGet" ELSE "getting"]]
            /\ UNCHANGED attempt
  /\ UNCHANGED <<clock, served, start, cached, failure, lastFailure>>

(* With the lock, another verification may have fetched the keys meanwhile;
   whether one has failed is not asked again.                                *)
WakeGet(i) ==
  /\ verify[i].pc = "waitGet" /\ ~ Locked
  /\ IF Fresh THEN Match(i, verify[i].kid, cached.keys)
     ELSE Becomes(i, "getting") /\ UNCHANGED attempt
  /\ UNCHANGED <<clock, served, start, cached, failure, lastFailure>>

(* _force_refresh_keys gives the keys back: the kid is among them or not.    *)
Verdict(i, keys) == IF verify[i].kid \in keys THEN "accepted" ELSE "rejected"

WakeForce(i) ==
  /\ verify[i].pc = "waitForce" /\ ~ Locked
  /\ attempt' = IF TriedLately THEN attempt ELSE clock
  /\ Becomes(i, IF TriedLately THEN Verdict(i, cached.keys) ELSE "forcing")
  /\ UNCHANGED <<clock, served, start, cached, failure, lastFailure>>

(* Mutant of FetchedKeys: new keys are added to the old ones. *)
FetchedKeysMerged == cached.keys \cup {served}

(* The keys that are stored: what the issuer serves, and nothing else.       *)
FetchedKeys == {served}

Fetched(i) ==
  /\ verify[i].pc \in Fetching
  /\ cached' = [keys |-> FetchedKeys, at |-> clock]
  /\ failure' = 0
  /\ IF verify[i].pc = "getting" THEN Match(i, verify[i].kid, FetchedKeys)
     ELSE Becomes(i, Verdict(i, FetchedKeys)) /\ UNCHANGED attempt
  /\ UNCHANGED <<clock, served, start, lastFailure>>

(* Without any keys the error goes through: fail closed.                     *)
FetchFails(i) ==
  /\ verify[i].pc \in Fetching
  /\ failure' = clock /\ lastFailure' = clock
  /\ IF verify[i].pc = "getting" /\ cached.keys # {} THEN Match(i, verify[i].kid, cached.keys)
     ELSE Becomes(i, Verdict(i, cached.keys)) /\ UNCHANGED attempt
  /\ UNCHANGED <<clock, served, start, cached>>

-----------------------------------------------------------------------------
Next ==
  \/ Pause \/ Rotate
  \/ \E i \in Inbound : Arrive(i) \/ WakeGet(i) \/ WakeForce(i) \/ Fetched(i) \/ FetchFails(i)

Spec == Init /\ [][Next]_keysVars

-----------------------------------------------------------------------------
(* Types. *)
TypeOK ==
  /\ clock \in Clock /\ served \in Keys /\ start \in [Keys -> {0} \cup Clock]
  /\ cached \in [keys : SUBSET Keys, at : {0} \cup Clock]
  /\ {failure, attempt, lastFailure} \subseteq {0} \cup Clock
  /\ verify \in [Inbound -> [pc : {"idle", "accepted", "rejected"} \cup Fetching \cup Waiting,
                             kid : {Unknown} \cup Keys]]

(* A key that the issuer has withdrawn counts for the lifetime of the cache
   at most, unless a fetch has failed since ("the rotated keys converge
   within hours").                                                           *)
MayAccept(kid) ==
  kid # Unknown /\ (kid = served \/ clock - start[kid + 1] < TTL
                                 \/ lastFailure' >= start[kid + 1])

(* A message signed with the key of the issuer is turned away only while the
   key is new, a fetch failed lately, or a refresh is under way.             *)
MayReject(i, kid) ==
  \/ kid # served
  \/ clock - start[kid] < Interval
  \/ clock - lastFailure' < Interval
  \/ \E j \in Inbound \ {i} : verify[j].pc = "forcing"

KeysSound ==
  [][\A i \in Inbound : verify'[i].pc # verify[i].pc =>
       /\ verify'[i].pc = "accepted" => MayAccept(verify'[i].kid)
       /\ verify'[i].pc = "rejected" => MayReject(i, verify'[i].kid)]_keysVars
=============================================================================
