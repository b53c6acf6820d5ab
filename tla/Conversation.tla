---------------------------- MODULE Conversation ---------------------------
(***************************************************************************)
(* SessionTurns and the instances of BotRuntime (one for each member of    *)
(* Bot) and Analytics, side by side: a behaviour is one of a single part,  *)
(* the others rest.                                                        *)
(***************************************************************************)
EXTENDS SessionTurns, Integers

CONSTANTS Bot, Process, Takers, Savers, Talks, UserOf, Begins, Room, Configs, MaxKey,
          Session, Channel, ChannelOf, Label, Kind, Day, MaxSpan, MaxHour, MaxChange,
          None

VARIABLES part,
          row, runtime, cache, rtTurn, rtAdmin, rtPast,
          hour, table, sessions, writing, req, edits, late, relabelled

Rt(b) == INSTANCE BotRuntime WITH
  Turn <- Takers[b], Admin <- Savers[b], Session <- Talks[b],
  MaxSessions <- Room[b], MaxConfig <- Configs[b],
  turn <- rtTurn, admin <- rtAdmin, past <- rtPast

Fig == INSTANCE Analytics WITH Null <- None

ASSUME ConversationAssumption ==
  /\ SessionAssumption /\ Fig!AnalyticsAssumption
  /\ Bot # {} /\ \A b \in Bot : Rt(b)!RuntimeAssumption

runtimeVars == <<row, runtime, cache, rtTurn, rtAdmin, rtPast>>
figureVars == <<hour, table, sessions, writing, req, edits, late, relabelled>>
allVars == <<part, vars, runtimeVars, figureVars>>

AllInit ==
  /\ part \in Bot \cup {"chat", "figures"}
  /\ Init /\ Fig!Init
  /\ \E b \in Bot : /\ b = IF part \in Bot THEN part ELSE CHOOSE c \in Bot : TRUE
                    /\ Rt(b)!Init

AllNext ==
  /\ UNCHANGED part
  /\ \/ part = "chat" /\ Next /\ UNCHANGED <<runtimeVars, figureVars>>
     \/ part = "figures" /\ Fig!Next /\ UNCHANGED <<vars, runtimeVars>>
     \/ \E b \in Bot : part = b /\ Rt(b)!Next /\ UNCHANGED <<vars, figureVars>>

AllSpec == AllInit /\ [][AllNext]_allVars

-----------------------------------------------------------------------------
(* BotRuntime: after a save no handler of an older configuration or key stays
   (invalidate_bot), unless a turn raced it.                                *)
FreshUnlessRaced == \A b \in Bot : part = b => Rt(b)!FreshUnlessRaced

(* BotRuntime: a user has one active session on a bot, get_handler raises only
   when its handler was taken away, and no save is overwritten unseen.  The
   types of SessionTurns come along.                                        *)
HandlersKept ==
  TypeOK /\ \A b \in Bot : part = b => Rt(b)!TypeOK /\ Rt(b)!HandlersKept

(* Analytics: the parts of a card add up, and cards of a window agree
   (bot_funnel, get_report and the other queries of the page).              *)
CardsAddUp == Fig!TypeOK /\ Fig!AnalyticsSound
=============================================================================
