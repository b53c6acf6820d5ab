--------------------------- MODULE ChannelInstall ---------------------------
(***************************************************************************)
(* Installing and removing Telegram channels: the rows of bot_channel and  *)
(* the webhook that Telegram keeps for each account.  The handlers are     *)
(* coroutines on one event loop, atomic between the calls of the platform  *)
(* that they await: getMe, setWebhook and deleteWebhook.  The platform acts *)
(* at one moment and its answer is handled at a later one.                 *)
(*                                                                         *)
(* Only a rollback takes a webhook back.  Removing a channel calls         *)
(* auth.revoke, which does nothing for a static token; nobody calls        *)
(* TelegramAdapter.revoke.                                                 *)
(***************************************************************************)
EXTENDS FiniteSets, Naturals

CONSTANTS Account,      \* Telegram accounts, each with its token
          Chan,         \* ids of channel rows, each used once
          Admin,        \* requests of admins that wait for the platform
          NoChan,       \* no row, no webhook
          MaxEdit,      \* bound of the requests that do not wait: removals, edits
          MaxCrash      \* bound of the restarts

InstallAssumption == NoChan \notin Chan /\ MaxEdit \in Nat /\ MaxCrash \in Nat

VARIABLES channels,   \* the row of a channel, if any
          used,       \* ids taken
          hook,       \* external: the channel an account's webhook points at
          requests,   \* what each waiting request does
          removed,    \* history: channels that an admin or a bot's purge removed
          marred,     \* history: accounts whose webhook the code does not answer for
          edits, halts

installVars == <<channels, used, hook, requests, removed, marred, edits, halts>>

NoRow == [ext |-> {}, creds |-> {}, active |-> FALSE]
NewRow(a) == [ext |-> {a}, creds |-> {a}, active |-> TRUE]
Rows == {c \in Chan : channels[c] # NoRow}
Idle == [pc |-> "idle", chan |-> NoChan, acct |-> {}]

(* A request the platform may still act for, on an account.                  *)
Working == {"setting", "set", "undoing", "undone"}
On(a) == {r \in Admin : requests[r].pc \in Working /\ requests[r].acct = {a}}

Init ==
  /\ channels = [c \in Chan |-> NoRow] /\ used = {}
  /\ hook = [a \in Account |-> NoChan]
  /\ requests = [r \in Admin |-> Idle]
  /\ removed = {} /\ marred = {} /\ edits = 0 /\ halts = 0

Is(r, pc) == requests[r].pc = pc
To(r, pc) == requests' = [requests EXCEPT ![r].pc = pc]

-----------------------------------------------------------------------------
(* create_channel: validated, and getMe asked.                               *)
Create(r, a) ==
  /\ Is(r, "idle")
  /\ requests' = [requests EXCEPT ![r] = [pc |-> "asking", chan |-> NoChan, acct |-> {a}]]
  /\ UNCHANGED <<channels, used, hook, removed, marred, edits, halts>>

(* BotChannels.get_by_external *)
Connected(a) == \E c \in Rows : channels[c].ext = {a}

(* getMe has answered: 409, or the row is inserted and the webhook asked for;
   unless PUBLIC_BASE_URL is not https, which post_create_install refuses.   *)
Insert(r, c) ==
  /\ Is(r, "asking") /\ c \notin used
  /\ \E a \in requests[r].acct :
       /\ ~ Connected(a)
       /\ channels' = [channels EXCEPT ![c] = NewRow(a)]
  /\ used' = used \cup {c}
  /\ \E pc \in {"setting", "undoing"} :
       requests' = [requests EXCEPT ![r].pc = pc, ![r].chan = c]
  /\ UNCHANGED <<hook, removed, marred, edits, halts>>

Refuse(r) ==
  /\ Is(r, "asking")
  /\ To(r, "over")
  /\ UNCHANGED <<channels, used, hook, removed, marred, edits, halts>>

(* setWebhook is carried out, or not; its answer may be lost.                *)
SetWebhook(r) ==
  /\ Is(r, "setting")
  /\ \/ hook' = [a \in Account |-> IF {a} = requests[r].acct THEN requests[r].chan ELSE hook[a]]
        /\ \E pc \in {"set", "undoing"} : To(r, pc)
     \/ hook' = hook /\ To(r, "undoing")
  /\ UNCHANGED <<channels, used, removed, marred, edits, halts>>

(* The secrets of the request replace what the row has, if there is a row.   *)
Installed(r) ==
  /\ Is(r, "set")
  /\ channels' = [c \in Chan |-> IF c = requests[r].chan /\ c \in Rows
                                 THEN [channels[c] EXCEPT !.creds = requests[r].acct]
                                 ELSE channels[c]]
  /\ To(r, "over")
  /\ UNCHANGED <<used, hook, removed, marred, edits, halts>>

-----------------------------------------------------------------------------
(* Mutant of DeleteWebhook: the rollback asks auth.revoke, as a removal does. *)
DeleteWebhookNot(r) ==
  /\ Is(r, "undoing")
  /\ To(r, "undone")
  /\ UNCHANGED <<channels, used, hook, removed, marred, edits, halts>>

(* rollback_install: deleteWebhook, whose failure is swallowed.               *)
DeleteWebhook(r) ==
  /\ Is(r, "undoing")
  /\ To(r, "undone")
  /\ \/ hook' = [a \in Account |-> IF {a} = requests[r].acct THEN NoChan ELSE hook[a]]
        /\ marred' = marred
     \/ hook' = hook /\ marred' = marred \cup requests[r].acct
  /\ UNCHANGED <<channels, used, removed, edits, halts>>

(* _rollback_partial_install: the row goes as well, if it is still there.    *)
DeleteRow(r) ==
  /\ Is(r, "undone")
  /\ channels' = [channels EXCEPT ![requests[r].chan] = NoRow]
  /\ To(r, "over")
  /\ UNCHANGED <<used, hook, removed, marred, edits, halts>>

-----------------------------------------------------------------------------
(* update_channel_secrets: the token may be of another account, external_id
   and the webhooks stay as they are.                                        *)
PutSecrets(c, a) ==
  /\ c \in Rows /\ edits < MaxEdit
  /\ channels' = [channels EXCEPT ![c].creds = {a}]
  /\ edits' = edits + 1
  /\ UNCHANGED <<used, hook, requests, removed, marred, halts>>

(* set_channel_active, and delete_channel without hard.                      *)
SetActive(c, active) ==
  /\ c \in Rows /\ edits < MaxEdit
  /\ channels' = [channels EXCEPT ![c].active = active]
  /\ edits' = edits + 1
  /\ UNCHANGED <<used, hook, requests, removed, marred, halts>>

(* delete_channel with hard, and purge_one, with which the rows of a bot's
   channels go: the webhook stays.  A request that works on the account is not
   waited for.                                                               *)
Delete(c) ==
  /\ c \in Rows /\ edits < MaxEdit
  /\ channels' = [channels EXCEPT ![c] = NoRow]
  /\ removed' = removed \cup {c}
  /\ marred' = marred \cup {a \in channels[c].ext : On(a) # {}}
  /\ edits' = edits + 1
  /\ UNCHANGED <<used, hook, requests, halts>>

(* The process stops, and with it the requests that wait.                    *)
Halt ==
  /\ halts < MaxCrash
  /\ halts' = halts + 1
  /\ requests' = [r \in Admin |-> IF Is(r, "idle") THEN Idle ELSE [requests[r] EXCEPT !.pc = "over"]]
  /\ marred' = marred \cup {a \in Account : On(a) # {}}
  /\ UNCHANGED <<channels, used, hook, removed, edits>>

-----------------------------------------------------------------------------
Next ==
  \/ Halt
  \/ \E r \in Admin : \/ Refuse(r) \/ SetWebhook(r) \/ Installed(r)
                      \/ DeleteWebhook(r) \/ DeleteRow(r)
                      \/ \E a \in Account : Create(r, a)
                      \/ \E c \in Chan : Insert(r, c)
  \/ \E c \in Chan : \/ Delete(c)
                     \/ \E a \in Account : PutSecrets(c, a)
                     \/ \E active \in BOOLEAN : SetActive(c, active)

Spec == Init /\ [][Next]_installVars

-----------------------------------------------------------------------------
(* Types. *)
One(S) == {{x} : x \in S}
TypeOK ==
  /\ channels \in [Chan -> {NoRow} \cup
                           [ext : One(Account), creds : One(Account), active : BOOLEAN]]
  /\ used \subseteq Chan /\ hook \in [Account -> Chan \cup {NoChan}]
  /\ requests \in [Admin -> [pc : Working \cup {"idle", "asking", "over"},
                             chan : Chan \cup {NoChan}, acct : One(Account) \cup {{}}]]
  /\ removed \subseteq Chan /\ marred \subseteq Account /\ edits \in 0 .. MaxEdit /\ halts \in 0 .. MaxCrash

(* Once nothing works on an account, its webhook points at the one channel
   that is connected to it.  Where none is, an install that failed has left
   nothing behind, "otherwise Telegram keeps retrying our defunct endpoint":
   the webhook is unset, or it is that of a channel somebody removed, which
   the code leaves.  So however installs, their rollbacks and removals met;
   short of a removal that met an install, a deleteWebhook the platform did
   not carry out, and a restart in between.                                  *)
HookMatches ==
  \A a \in Account \ marred : On(a) = {} =>
    {c \in Rows : channels[c].ext = {a}} = {hook[a]} \ ({NoChan} \cup removed)
=============================================================================
