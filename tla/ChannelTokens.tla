--------------------------- MODULE ChannelTokens ---------------------------
(***************************************************************************)
(* The access token of one channel: minted from its secrets and cached in  *)
(* the process (Teams, Google Chat), or stored with the secrets and        *)
(* refreshed under a lock of the channel (WhatsApp, and what derives from  *)
(* OAuth2AuthCodeBase).  Deliveries read the channel's row once, then ask  *)
(* for a token before each chunk; an admin saves new secrets meanwhile.    *)
(* A time is as late as the leeway of 60 seconds allows.  Deleted channels *)
(* are left to ChannelInstall.                                             *)
(***************************************************************************)
EXTENDS Naturals

CONSTANTS Delivery,          \* deliveries and health checks
          Lifetime,          \* of a token
          MaxHour, MaxSave, MaxKill,  \* bounds: clock, saves, restarts
          MaxGrant           \* bound: refresh tokens that rotate, by generation

TokensAssumption ==
  /\ Lifetime \in Nat \ {0}
  /\ MaxHour \in Nat /\ MaxSave \in Nat /\ MaxKill \in Nat /\ MaxGrant \in Nat

VARIABLES hour,
          strategy,   \* how the channel gets its tokens
          secrets,    \* the row: generation saved, refresh token, expiry
          grant,      \* external: the refresh token that counts, by generation
          minted,     \* the cache: generation and expiry
          delivery,   \* what each delivery does
          saves, kills,
          saved,      \* history: when secrets were saved last
          late,       \* history: tokens of replaced secrets were stored
          raced,      \* history: the secrets were last saved during a refresh
          lost        \* history: generations whose new tokens never arrived

tokenVars == <<hour, strategy, secrets, grant, minted, delivery, saves, kills, saved, late,
               raced, lost>>

(* A stored token may have a refresh token, which the platform may replace
   on use, and its answer may say when the new token expires.                *)
Strategies == {{"minted"}} \cup SUBSET {"refresh", "rotates", "dates"}
Is(feature) == feature \in strategy

Generations == 0 .. MaxSave
Secrets == [gen : Generations, ref : Nat, exp : Nat]
Written(gen) == [gen |-> gen, ref |-> 0, exp |-> hour + Lifetime]
Nothing == [gen |-> 0, exp |-> 0]
Idle == [pc |-> "idle", seen |-> [gen |-> 0, ref |-> 0, exp |-> 0], got |-> Nothing]
Deliveries == [pc : {"idle", "loaded", "waiting", "asking", "granted", "has"},
               seen : Secrets, got : [gen : Generations, exp : Nat]]

Init ==
  /\ hour = 0 /\ strategy \in Strategies
  /\ secrets = Written(0) /\ grant = [g \in Generations |-> 0]
  /\ minted = Nothing
  /\ delivery = [d \in Delivery |-> Idle]
  /\ saves = 0 /\ kills = 0
  /\ saved = 0 /\ late = FALSE /\ raced = FALSE /\ lost = {}

platform == <<strategy, grant>>
counts == <<saves, kills>>
past == <<saved, late, raced, lost>>

At(d, pc) == delivery[d].pc = pc
Goto(d, pc) == delivery' = [delivery EXCEPT ![d].pc = pc]
Become(d, pc, seen) ==
  delivery' = [delivery EXCEPT ![d] = [pc |-> pc, seen |-> seen, got |-> Nothing]]

(* get_access_token returns the token of a generation.                      *)
Has(d, gen, exp) ==
  delivery' = [delivery EXCEPT ![d] = [@ EXCEPT !.pc = "has",
                                                !.got = [gen |-> gen, exp |-> exp]]]

-----------------------------------------------------------------------------
(* deliver_async and the routes of health and install read the row.          *)
Load(d) ==
  /\ At(d, "idle")
  /\ Become(d, "loaded", secrets)
  /\ UNCHANGED <<hour, platform, secrets, minted, counts, past>>

(* OAuth2ClientCredentials and ServiceAccountJWT: the cached token, else one
   for the secrets that were read.                                           *)
TakeMinted(d) ==
  /\ At(d, "loaded") /\ Is("minted")
  /\ IF minted.exp > hour THEN Has(d, minted.gen, minted.exp) ELSE Goto(d, "asking")
  /\ UNCHANGED <<hour, platform, secrets, minted, counts, past>>

(* The lock of the channel, from the answer to whether it is free.           *)
Locked == Is("refresh") /\ \E d \in Delivery : delivery[d].pc \in {"asking", "granted"}

(* Mutant of Reread: what the delivery has read. *)
RereadNot(d) == delivery[d].seen

(* With the lock the row is read again.                                      *)
Reread(d) == secrets
Refresh(d) ==
  LET fresh == Reread(d) IN
  IF fresh.exp > hour THEN Has(d, fresh.gen, fresh.exp) ELSE Become(d, "asking", fresh)

(* OAuth2AuthCodeBase: the token that was read, unless it expires and there is
   a refresh token.                                                          *)
TakeStored(d) ==
  /\ At(d, "loaded") /\ ~ Is("minted")
  /\ IF delivery[d].seen.exp > hour \/ ~ Is("refresh")
       THEN Has(d, delivery[d].seen.gen, delivery[d].seen.exp)
     ELSE IF Locked THEN Goto(d, "waiting") ELSE Refresh(d)
  /\ UNCHANGED <<hour, platform, secrets, minted, counts, past>>

Wake(d) ==
  /\ At(d, "waiting") /\ ~ Locked
  /\ Refresh(d)
  /\ UNCHANGED <<hour, platform, secrets, minted, counts, past>>

-----------------------------------------------------------------------------
(* External: the token endpoint grants, and a refresh token that rotates is
   good for one use; or it answers with an error.                            *)
Refused(d) == Is("refresh") /\ Is("rotates") /\ delivery[d].seen.ref # grant[delivery[d].seen.gen]

Grant(d) ==
  /\ At(d, "asking") /\ ~ Refused(d)
  /\ Goto(d, "granted")
  /\ Is("rotates") => grant[delivery[d].seen.gen] < MaxGrant
  /\ grant' = IF Is("rotates") THEN [grant EXCEPT ![delivery[d].seen.gen] = @ + 1] ELSE grant
  /\ UNCHANGED <<hour, strategy, secrets, minted, counts, past>>

Fail(d) ==
  /\ At(d, "asking")
  /\ delivery' = [delivery EXCEPT ![d] = Idle]
  /\ UNCHANGED <<hour, platform, secrets, minted, counts, past>>

(* _persist_rotated_token: the secrets that were read with what is new.      *)
Merged(d) ==
  LET old == delivery[d].seen IN
  [old EXCEPT !.ref = IF Is("rotates") THEN @ + 1 ELSE @,
              !.exp = IF Is("dates") THEN hour + Lifetime ELSE @]

Answer(d) ==
  /\ At(d, "granted")
  /\ IF Is("minted")
       THEN /\ minted' = [gen |-> delivery[d].seen.gen, exp |-> hour + Lifetime]
            /\ UNCHANGED secrets
       ELSE secrets' = Merged(d) /\ UNCHANGED minted
  /\ Has(d, delivery[d].seen.gen, hour + Lifetime)
  /\ late' = (late \/ delivery[d].seen.gen < saves)
  /\ UNCHANGED <<hour, platform, counts, saved, raced, lost>>

(* The answer does not arrive, or cannot be read: the delivery fails.        *)
Lose(d) ==
  /\ At(d, "granted")
  /\ delivery' = [delivery EXCEPT ![d] = Idle]
  /\ lost' = lost \cup {delivery[d].seen.gen}
  /\ UNCHANGED <<hour, platform, secrets, minted, counts, saved, late, raced>>

(* The chunk is sent; the next one asks again.                               *)
Send(d) ==
  /\ At(d, "has")
  /\ Become(d, "loaded", delivery[d].seen) \/ delivery' = [delivery EXCEPT ![d] = Idle]
  /\ UNCHANGED <<hour, platform, secrets, minted, counts, past>>

-----------------------------------------------------------------------------
(* update_channel_secrets: the cache and the lock are left alone.            *)
Save ==
  /\ saves < MaxSave
  /\ saves' = saves + 1 /\ saved' = hour
  /\ secrets' = Written(saves + 1)
  /\ raced' = Locked
  /\ UNCHANGED <<hour, platform, minted, delivery, kills, late, lost>>

Kill ==
  /\ kills < MaxKill
  /\ kills' = kills + 1
  /\ minted' = Nothing
  /\ lost' = lost \cup {delivery[d].seen.gen : d \in {e \in Delivery : At(e, "granted")}}
  /\ delivery' = [d \in Delivery |-> Idle]
  /\ UNCHANGED <<hour, platform, secrets, saves, saved, late, raced>>

Strike ==
  /\ hour < MaxHour /\ hour' = hour + 1
  /\ UNCHANGED <<platform, secrets, minted, delivery, counts, past>>

Next ==
  \/ Save \/ Kill \/ Strike
  \/ \E d \in Delivery : \/ Load(d) \/ TakeMinted(d) \/ TakeStored(d) \/ Wake(d)
                         \/ Grant(d) \/ Fail(d) \/ Answer(d) \/ Lose(d) \/ Send(d)

Spec == Init /\ [][Next]_tokenVars

-----------------------------------------------------------------------------
(* Types. *)
TypeOK ==
  /\ hour \in 0 .. MaxHour /\ strategy \in Strategies
  /\ secrets \in Secrets /\ grant \in [Generations -> Nat]
  /\ minted \in [gen : Generations, exp : Nat] /\ delivery \in [Delivery -> Deliveries]
  /\ saves \in Generations /\ kills \in 0 .. MaxKill /\ saved \in 0 .. MaxHour
  /\ {late, raced} \subseteq BOOLEAN /\ lost \subseteq Generations

(* However deliveries meet at an expiry, the refresh token in use is the one
   that counts ("the second refresh invalidates the first"): the platform
   refuses it only if new tokens were lost on their way.                     *)
SingleFlight == \A d \in Delivery : At(d, "asking") /\ Refused(d) => delivery[d].seen.gen \in lost

(* The secrets an admin saved last are the ones in use, however many refreshes
   came before and after; unless that save came while a token was refreshed,
   which writes back the ones it had read.                                   *)
SecretsStay == secrets.gen = saves \/ raced

(* The token handed to a delivery has not expired, unless there is nothing to
   refresh it with, and it is of the secrets saved last once the lifetime of
   a token has passed, unless a request with the old ones was answered later. *)
TokensTimely ==
  [][\A d \in Delivery : ~ At(d, "has") /\ At(d, "has")' =>
       \/ strategy \cap {"minted", "refresh"} = {}
       \/ /\ delivery'[d].got.exp > hour
          /\ delivery'[d].got.gen = saves \/ hour < saved + Lifetime \/ late']_tokenVars
=============================================================================
