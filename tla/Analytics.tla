----------------------------- MODULE Analytics -----------------------------
(***************************************************************************)
(* The analytics of one bot: what the cards of its page count in the       *)
(* messages and the sessions, over a window and for one channel or all.    *)
(* A card is a few queries, each of what is stored when it runs.  Messages *)
(* are stamped before they are inserted; admins and visitors delete, rate, *)
(* relabel and resolve meanwhile.  Impressions and tokens are left out.    *)
(***************************************************************************)
EXTENDS Integers, Sequences, FiniteSetsExt

CONSTANTS Session, Channel,
          ChannelOf,   \* channel of a session's messages
          Label,       \* names of topics and models
          Kind,        \* what else may be in a session's message when it is inserted
          Null,        \* a column that holds nothing
          Day,         \* hours of a day
          MaxSpan,     \* days of a window, at most
          MaxHour, MaxChange   \* bounds: clock, messages and edits of them

Roles == {"user", "assistant"}
Moods == {"positive", "neutral", "negative"}
Kinds == [role : Roles, topic : Label \cup {Null}, model : Label \cup {Null}, cited : BOOLEAN,
          latency : Nat \cup {Null}, deflected : BOOLEAN \cup {Null}]

AnalyticsAssumption ==
  /\ IsFiniteSet(Session) /\ IsFiniteSet(Channel) /\ Null \notin Session \cup Channel \cup Nat
  /\ ChannelOf \in [Session -> Channel \cup {Null}] /\ Kind \in [Session -> SUBSET Kinds]
  /\ {Day, MaxSpan} \subseteq Nat \ {0}
  /\ {MaxHour, MaxChange} \subseteq Nat

VARIABLES hour, table, sessions,
          writing,     \* the insert under way: at most one message
          req,         \* the card that is asked for
          edits,
          late,        \* history: a session or message came after the window closed
          relabelled   \* history: a deflection was set while the card was counted

analyticsVars == <<hour, table, sessions, writing, req, edits, late, relabelled>>

(* A message, and a session: resolved, with the labels of the worker.        *)
Sent(s, kind) == [sess |-> s, at |-> hour, kind |-> kind, rating |-> Null]
Opened(at) == [at |-> at, resolved |-> Null, enriched |-> FALSE, mood |-> Null, intent |-> Null]
Absent == [Opened(0) EXCEPT !.at = Null]

Open == {s \in Session : sessions[s].at # Null}
Cards == {"funnel", "enrichment", "citations", "report"}
NoReq == [card |-> "none", w |-> [from |-> 0, to |-> 0, channel |-> Null], got |-> <<>>]

Init ==
  /\ hour = 0 /\ table = <<>> /\ sessions = [s \in Session |-> Absent]
  /\ writing = {} /\ req = NoReq /\ edits = 0
  /\ late = FALSE /\ relabelled = FALSE

-----------------------------------------------------------------------------
(* What a window holds.                                                      *)
Within(w, at) == w.from <= at /\ at <= w.to
Through(w, s) == w.channel = Null \/ ChannelOf[s] = w.channel

Rows == {i \in DOMAIN table : table[i].sess # Null}
In(w) == {i \in Rows : Within(w, table[i].at) /\ Through(w, table[i].sess)}
Of(w, role) == {i \in In(w) : table[i].kind.role = role}
Cohort(w) == {s \in Open : Within(w, sessions[s].at) /\ Through(w, s)}
Count(S) == Cardinality(S)

(* Python's round of n / d, halves to even.                                  *)
Round(n, d) ==
  LET q == n \div d  twice == 2 * (n % d)
  IN  IF twice < d \/ (twice = d /\ q % 2 = 0) THEN q ELSE q + 1

(* The latencies in order, and the one at a percentile.                      *)
Timed(w) == {i \in Of(w, "assistant") : table[i].kind.latency # Null}
Faster(w, i) ==
  {j \in Timed(w) : \/ table[j].kind.latency < table[i].kind.latency
                    \/ table[j].kind.latency = table[i].kind.latency /\ j < i}
Latencies(w) ==
  [k \in 1 .. Count(Timed(w)) |->
     table[CHOOSE i \in Timed(w) : Count(Faster(w, i)) = k - 1].kind.latency]
Quantile(xs, percent) ==
  LET rank == Round(percent * Len(xs), 100) IN xs[IF rank > 1 THEN rank ELSE 1]
Percentiles(w) ==
  LET xs == Latencies(w)
  IN  IF xs = <<>> THEN <<>> ELSE <<Quantile(xs, 50), Quantile(xs, 95), Quantile(xs, 99)>>

-----------------------------------------------------------------------------
(* The cards: messages by topic (none and blank are one), by model, by
   channel, by day and by weekday and hour; sessions by mood and by intent.  *)
Topic(i) == IF table[i].kind.topic \in {Null, "blank"} THEN "" ELSE table[i].kind.topic
ByTopic(w) ==
  [t \in {Topic(i) : i \in Of(w, "user")} |-> Count({i \in Of(w, "user") : Topic(i) = t})]

ByModel(w) ==
  LET named == {i \in Of(w, "assistant") : table[i].kind.model # Null}
  IN  [m \in {table[i].kind.model : i \in named} |-> Count({i \in named : table[i].kind.model = m})]

ByChannel(w) ==
  LET all == In([w EXCEPT !.channel = Null])
  IN  [c \in Channel \cup {Null} |-> Count({i \in all : ChannelOf[table[i].sess] = c})]

Shown(w) == IF w.channel = Null THEN Channel \cup {Null} ELSE {w.channel}

Daily(w) ==
  [d \in (w.from \div Day) .. (w.to \div Day) |->
     [r \in Roles |-> Count({i \in Of(w, r) : table[i].at \div Day = d})]]

Heatmap(w) ==
  [c \in (0 .. 6) \X (0 .. Day - 1) |->
     Count({i \in In(w) : c = <<(table[i].at \div Day) % 7, table[i].at % Day>>})]

Mood(s) == IF sessions[s].mood \in Moods THEN sessions[s].mood ELSE "unrated"
Sentiment(w) ==
  [m \in Moods \cup {"unrated"} |-> Count({s \in Cohort(w) : Mood(s) = m})]
Intents(w) ==
  LET known == {s \in Cohort(w) : sessions[s].intent \notin {Null, "blank"}}
  IN  [n \in {sessions[s].intent : s \in known} |-> Count({s \in known : sessions[s].intent = n})]

(* The filter of the session list by the ratings of their messages.          *)
Rated(w, ratings) ==
  {s \in Cohort(w) : \E i \in Rows : table[i].sess = s /\ table[i].rating \in ratings}
Total(f) == FoldSet(LAMBDA x, sum : f[x] + sum, 0, DOMAIN f)

-----------------------------------------------------------------------------
(* What the funnel and the report are made of.                               *)
Resolved(w) == {s \in Cohort(w) : sessions[s].resolved = TRUE}
Understood(w) ==
  {s \in Cohort(w) : \E i \in Rows : table[i].sess = s /\ table[i].kind.role = "user" /\ Topic(i) # ""}
Report(w) ==
  LET answers == Of(w, "assistant")
      flagged(values) == {i \in answers : table[i].kind.deflected \in values}
      xs == Latencies(w)
  IN  [messages |-> Count(In(w)),
       conversations |-> Count({table[i].sess : i \in In(w)}),
       flagged |-> Count(flagged(BOOLEAN)), deflected |-> Count(flagged({TRUE})),
       csat |-> {i \in answers : table[i].rating \notin {Null, 0}},
       p95 |-> IF xs = <<>> THEN Null ELSE Quantile(xs, 95),
       sessions |-> Count(Cohort(w)), resolved |-> Count(Resolved(w))]

(* The queries of a card, in their order.                                    *)
Queries(card, w) ==
  CASE card = "funnel" -> <<Count(Cohort(w)), Count(Understood(w)), Count(Resolved(w))>>
    [] card = "enrichment" ->
         <<Count(Cohort(w)), Count({s \in Cohort(w) : sessions[s].enriched}),
           Total(Sentiment(w)), Total(Intents(w))>>
    [] card = "citations" ->
         <<Count(Of(w, "assistant")), Count({i \in Of(w, "assistant") : table[i].kind.cited})>>
    [] card = "report" ->
         LET all == Report(w) IN <<all.flagged, all.deflected, all.sessions, all.resolved>>

(* Mutant of Window: the end is what it is at the last query. *)
WindowSlides(w) == [w EXCEPT !.to = hour]

Window(w) == w

(* _resolve_window: the page sends times that have passed.                   *)
Ask(card) ==
  /\ req.card = "none" /\ hour < MaxHour
  /\ \E from, to \in 0 .. hour, c \in Channel \cup {Null} :
       /\ from <= to /\ to \div Day - from \div Day < MaxSpan
       /\ req' = [card |-> card, w |-> [from |-> from, to |-> to, channel |-> c], got |-> <<>>]
  /\ hour' = hour + 1
  /\ UNCHANGED <<table, sessions, writing, edits, late, relabelled>>

Query ==
  /\ req.card # "none"
  /\ LET all == Queries(req.card, Window(req.w)) IN
       /\ Len(req.got) < Len(all)
       /\ req' = [req EXCEPT !.got = Append(@, all[Len(@) + 1])]
  /\ UNCHANGED <<hour, table, sessions, writing, edits, late, relabelled>>

-----------------------------------------------------------------------------
(* insert_new_message takes the time, inserts the row, then upserts the
   session (SessionTurns has the errors).                                    *)
Stamp(s, kind) ==
  /\ writing = {} /\ Len(table) + edits < MaxChange
  /\ writing' = {[row |-> Sent(s, kind), stored |-> FALSE]}
  /\ UNCHANGED <<hour, table, sessions, req, edits, late, relabelled>>

Comes(at) == late' = (late \/ (req.card # "none" /\ at <= req.w.to))
Insert ==
  \E m \in writing :
    /\ ~ m.stored /\ writing' = {[m EXCEPT !.stored = TRUE]}
    /\ table' = Append(table, m.row)
    /\ Comes(m.row.at)
    /\ UNCHANGED <<hour, sessions, req, edits, relabelled>>

Upsert ==
  \E m \in writing :
    /\ m.stored /\ writing' = {}
    /\ sessions' = [sessions EXCEPT ![m.row.sess] = IF @.at = Null THEN Opened(m.row.at) ELSE @]
    /\ Comes(m.row.at)
    /\ UNCHANGED <<hour, table, req, edits, relabelled>>

(* widget_rate_message and the admins' overrides of a row that is there.     *)
Edit ==
  /\ Len(table) + edits < MaxChange /\ edits' = edits + 1
  /\ UNCHANGED <<hour, writing, req, late>>
EditMessage(i, row) ==
  /\ Edit /\ i \in Rows
  /\ table' = [table EXCEPT ![i] = row]
  /\ UNCHANGED sessions
Rate(i, rating) ==
  /\ table[i].kind.role = "assistant"
  /\ EditMessage(i, [table[i] EXCEPT !.rating = rating])
  /\ UNCHANGED relabelled
Override(i, rating) ==
  /\ EditMessage(i, [table[i] EXCEPT !.rating = rating])
  /\ UNCHANGED relabelled
SetDeflection(i, value) ==
  /\ EditMessage(i, [table[i] EXCEPT !.kind = [@ EXCEPT !.deflected = value]])
  /\ relabelled' = (relabelled \/ req.card # "none")
DeleteMessage(i) ==
  /\ EditMessage(i, [table[i] EXCEPT !.sess = Null])
  /\ UNCHANGED relabelled

(* mark_resolved, and set_enrichment by the worker.                          *)
EditSession(s, row) ==
  /\ Edit /\ s \in Open
  /\ sessions' = [sessions EXCEPT ![s] = row]
  /\ UNCHANGED <<table, relabelled>>
Resolve(s, value) == EditSession(s, [sessions[s] EXCEPT !.resolved = value])
Enrich(s) ==
  \E labels \in {<<"negative", "order">>, <<"mixed", "blank">>} :
    EditSession(s, [sessions[s] EXCEPT !.enriched = TRUE,
                                       !.mood = labels[1], !.intent = labels[2]])

Strike ==
  /\ hour < MaxHour /\ hour' = hour + 1
  /\ UNCHANGED <<table, sessions, writing, req, edits, late, relabelled>>

Next ==
  \/ \E card \in Cards : Ask(card)
  \/ Query \/ Insert \/ Upsert \/ Strike
  \/ \E s \in Session : \/ \E kind \in Kind[s] : Stamp(s, kind)
                        \/ \E value \in BOOLEAN : Resolve(s, value)
                        \/ Enrich(s)
  \/ \E i \in DOMAIN table : \/ \E rating \in {0, 1} : Rate(i, rating) \/ Override(i, rating)
                             \/ SetDeflection(i, TRUE) \/ DeleteMessage(i)

Spec == Init /\ [][Next]_analyticsVars

-----------------------------------------------------------------------------
(* Types. *)
TypeOK ==
  /\ hour \in 0 .. MaxHour /\ edits \in 0 .. MaxChange /\ Len(table) <= MaxChange + 1
  /\ \A i \in DOMAIN table : /\ table[i].sess \in Session \cup {Null} /\ table[i].at \in 0 .. hour
                             /\ table[i].rating \in {Null, 0, 1}
  /\ Cardinality(writing) <= 1 /\ req.card \in Cards \cup {"none"}
  /\ {late, relabelled} \subseteq BOOLEAN

(* The parts of a card add up ("each later step is a subset of started"): no
   later count exceeds the one it is a share of, and every session of the
   cohort has one mood, unless a row came with a time before the window's end
   or, for the rate of deflection, the flag was set between two queries.     *)
PartsAddUp ==
  LET got == req.got
      within(part, whole) == part \in DOMAIN got => got[part] <= got[whole]
  IN  \/ late
      \/ CASE req.card = "funnel" -> within(2, 1) /\ within(3, 1)
           [] req.card = "enrichment" ->
                within(2, 1) /\ within(4, 1) /\ (Len(got) > 2 => got[3] = got[1])
           [] req.card = "citations" -> within(2, 1)
           [] req.card = "report" -> (within(2, 1) \/ relabelled) /\ within(4, 3)
           [] OTHER -> TRUE

(* Cards of the same window agree, whatever it is: each counts every message
   or session once, the days between its ends hold them all, the ratings of
   the report belong to rated sessions, and percentiles are in order.        *)
CardsAgree ==
  LET w == req.w
      daily == Daily(w)
      said(role) == Total([d \in DOMAIN daily |-> daily[d][role]])
      all == Report(w)
      shown == Percentiles(w)
  IN  req.card # "none" /\ req.got = <<>> =>
        /\ Total(ByTopic(w)) = said("user")
        /\ Total(ByModel(w)) <= said("assistant")
        /\ all.messages = said("user") + said("assistant") /\ all.messages = Total(Heatmap(w))
        /\ all.messages = Total([c \in Shown(w) |-> ByChannel(w)[c]])
        /\ all.conversations <= all.messages
        /\ Total(Sentiment(w)) = Count(Cohort(w))
        /\ {table[i].sess : i \in all.csat} \cap Cohort(w)
             \subseteq Rated(w, {1}) \cap Rated(w, {0, 1})
        /\ shown # <<>> => shown[1] <= shown[2] /\ shown[2] = all.p95 /\ shown[2] <= shown[3]

AnalyticsSound == PartsAddUp /\ CardsAgree
=============================================================================
