------------------------------ MODULE Access -------------------------------
(***************************************************************************)
(* AdminLifecycle and the instances of SignIn, ChannelInstall,             *)
(* ChannelTokens and SigningKeys, side by side: a behaviour is one of a    *)
(* single part, the others rest.                                           *)
(***************************************************************************)
EXTENDS AdminLifecycle

CONSTANTS Login, Code, Key, Threshold, LockTime, StateTTL, CodeTTL, TokenTTL,
          EnvPassword, MaxTime,
          Account, Chan, Admin, NoChan, MaxEdit,
          Delivery, Lifetime, MaxHour, MaxSave, MaxKill, MaxGrant,
          Inbound, TTL, Cooldown, Interval, MaxKey, MaxClock

VARIABLES part,
          now, kills, issuer, disk, loaded, cred, activated, begun, states, codes,
          sessions, tries,
          channels, used, hook, installs, removed, marred, edits, halts,
          hour, strategy, secrets, grant, minted, delivery, saves, restarts,
          saved, late, raced, lost,
          clock, served, start, cached, failure, attempt, verify, lastFailure

SignOn == INSTANCE SignIn WITH server <- issuer, crashes <- kills
Install == INSTANCE ChannelInstall WITH requests <- installs
Tokens == INSTANCE ChannelTokens WITH kills <- restarts
Certs == INSTANCE SigningKeys WITH MaxTime <- MaxClock

ASSUME AccessAssumption ==
  /\ AdminAssumption /\ SignOn!SignInAssumption /\ Install!InstallAssumption
  /\ Tokens!TokensAssumption /\ Certs!KeysAssumption

loginVars == <<now, kills, issuer, disk, loaded, cred, activated, begun, states, codes,
               sessions, tries>>
installVars == <<channels, used, hook, installs, removed, marred, edits, halts>>
tokenVars == <<hour, strategy, secrets, grant, minted, delivery, saves, restarts,
               saved, late, raced, lost>>
keysVars == <<clock, served, start, cached, failure, attempt, verify, lastFailure>>
allVars == <<part, vars, loginVars, installVars, tokenVars, keysVars>>

AllInit ==
  /\ part \in {"people", "login", "install", "tokens", "keys"}
  /\ Init /\ SignOn!Init /\ Install!Init /\ Tokens!Init /\ Certs!Init
  /\ part # "tokens" => strategy = {}

OfPeople(A) ==
  part = "people" /\ A /\ UNCHANGED <<loginVars, installVars, tokenVars, keysVars>>
OfLogin(A) ==
  part = "login" /\ A /\ UNCHANGED <<vars, installVars, tokenVars, keysVars>>
OfInstall(A) ==
  part = "install" /\ A /\ UNCHANGED <<vars, loginVars, tokenVars, keysVars>>
OfTokens(A) ==
  part = "tokens" /\ A /\ UNCHANGED <<vars, loginVars, installVars, keysVars>>
OfKeys(A) ==
  part = "keys" /\ A /\ UNCHANGED <<vars, loginVars, installVars, tokenVars>>

AllNext ==
  /\ UNCHANGED part
  /\ \/ OfPeople(Next) \/ OfLogin(SignOn!Next) \/ OfInstall(Install!Next)
     \/ OfTokens(Tokens!Next) \/ OfKeys(Certs!Next)

AllSpec == AllInit /\ [][AllNext]_allVars

-----------------------------------------------------------------------------
(* SignIn: one session for a login, sessions and password survive restarts,
   and guesses are bounded (consume_code, the keystore and record_failure). *)
SignInSound == SignOn!TypeOK /\ SignOn!SignInSound

(* ChannelInstall: the platform's webhook is that of the row, and a failed
   install leaves none (create_channel and _rollback_partial_install).      *)
HookMatches == Install!TypeOK /\ Install!HookMatches

(* ChannelTokens: refresh tokens are used once, what an admin saved stays,
   but for a save during a refresh, and a token is in date (get_access_token
   and _persist_rotated_token).                                             *)
TokensSound == [](Tokens!TypeOK /\ Tokens!SingleFlight /\ Tokens!SecretsStay) /\ Tokens!TokensTimely

(* SigningKeys: withdrawn keys fade, and the issuer's key is accepted
   (_get_keys and _force_refresh_keys).                                     *)
KeysSound == []Certs!TypeOK /\ Certs!KeysSound
=============================================================================
