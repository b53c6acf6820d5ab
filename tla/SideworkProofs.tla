--------------------------- MODULE SideworkProofs ---------------------------
(***************************************************************************)
(* What holds of the side work for any number of turns, topics, messages,  *)
(* streams, publishers, workers, forms, addresses and threads: topics that ask,    *)
(* labels that follow the conversation, the live feed and the form alerts. *)
(***************************************************************************)
EXTENDS Sidework, TLAPS, SequenceTheorems, FiniteSetTheorems

(* Nothing is in a sequence twice; x is in it.                               *)
Distinct(q) == \A i, j \in 1..Len(q) : q[i] = q[j] => i = j
In(x, q) == \E i \in 1..Len(q) : q[i] = x

LEMMA InSet == ASSUME NEW S, NEW q \in Seq(S), NEW x PROVE x \in Feed!ToSet(q) <=> In(x, q)
BY DEF Feed!ToSet, In

(* What the library's Append, Tail and RemoveAt do to such sequences.         *)
LEMMA Appended ==
  ASSUME NEW S, NEW q \in Seq(S), NEW e \in S
  PROVE  /\ Append(q, e) \in Seq(S) /\ Len(Append(q, e)) = Len(q) + 1
         /\ Append(q, e)[Len(q) + 1] = e /\ \A i \in 1..Len(q) : Append(q, e)[i] = q[i]
         /\ \A x : In(x, Append(q, e)) <=> In(x, q) \/ x = e
         /\ Distinct(q) /\ ~ In(e, q) => Distinct(Append(q, e))
BY DEF In, Distinct

LEMMA Behead ==
  ASSUME NEW S, NEW q \in Seq(S), q # <<>>
  PROVE  /\ Len(q) \in Nat \ {0} /\ Tail(q) \in Seq(S) /\ Len(Tail(q)) = Len(q) - 1
         /\ Head(q) \in S /\ Head(q) = q[1] /\ \A i \in 1..Len(Tail(q)) : Tail(q)[i] = q[i + 1]
         /\ \A x : In(x, q) <=> In(x, Tail(q)) \/ x = Head(q)
         /\ Tail(q) = <<>> <=> Len(q) = 1
         /\ Distinct(q) => Distinct(Tail(q)) /\ ~ In(Head(q), Tail(q))
<1>1. /\ Len(q) \in Nat \ {0} /\ Tail(q) \in Seq(S) /\ Len(Tail(q)) = Len(q) - 1
      /\ Head(q) \in S /\ Head(q) = q[1]
  OBVIOUS
<1>2. \A i \in 1..Len(Tail(q)) : Tail(q)[i] = q[i + 1]
  OBVIOUS
<1>3. \A x : In(x, q) <=> In(x, Tail(q)) \/ x = Head(q)
  <2>1. ASSUME NEW i \in 1..Len(q), i # 1
        PROVE  i - 1 \in 1..Len(Tail(q)) /\ Tail(q)[i - 1] = q[i]
    <3>1. i - 1 \in 1..Len(Tail(q)) /\ (i - 1) + 1 = i
      BY <1>1, <2>1
    <3> QED BY <1>2, <3>1
  <2>2. \A i \in 1..Len(Tail(q)) : i + 1 \in 1..Len(q)
    BY <1>1
  <2>3. 1 \in 1..Len(q)
    BY <1>1
  <2> QED BY <1>1, <1>2, <2>1, <2>2, <2>3 DEF In
<1>4. ASSUME Distinct(q) PROVE Distinct(Tail(q)) /\ ~ In(Head(q), Tail(q))
  <2>1. \A i \in 1..Len(Tail(q)) : i + 1 \in 1..Len(q) /\ i + 1 # 1 /\ 1 \in 1..Len(q)
    BY <1>1
  <2>2. \A i, j \in 1..Len(Tail(q)) : i + 1 = j + 1 => i = j
    BY <1>1
  <2> QED BY <1>1, <1>2, <1>4, <2>1, <2>2 DEF In, Distinct
<1>5. Tail(q) = <<>> <=> Len(q) = 1
  <2>1. Tail(q) = <<>> <=> Len(Tail(q)) = 0
    BY <1>1, EmptySeq
  <2> QED BY <1>1, <2>1
<1> QED BY <1>1, <1>2, <1>3, <1>4, <1>5

LEMMA Removed ==
  ASSUME NEW S, NEW q \in Seq(S), Distinct(q), NEW s, In(s, q)
  PROVE  LET r == Feed!RemoveAt(q, CHOOSE i \in DOMAIN q : q[i] = s) IN
         r \in Seq(S) /\ Distinct(r) /\ \A x : In(x, r) <=> In(x, q) /\ x # s
<1> DEFINE k == CHOOSE i \in DOMAIN q : q[i] = s
           r == Feed!RemoveAt(q, k)
<1>1. k \in 1..Len(q) /\ q[k] = s
  BY DEF In
<1> HIDE DEF k
<1>2. /\ SubSeq(q, 1, k - 1) \in Seq(S) /\ Len(SubSeq(q, 1, k - 1)) = k - 1
      /\ \A i \in 1..(k - 1) : SubSeq(q, 1, k - 1)[i] = q[i]
  BY <1>1, SubSeqProperties
<1>3. /\ SubSeq(q, k + 1, Len(q)) \in Seq(S) /\ Len(SubSeq(q, k + 1, Len(q))) = Len(q) - k
      /\ \A i \in 1..(Len(q) - k) : SubSeq(q, k + 1, Len(q))[i] = q[k + i]
  BY <1>1, SubSeqProperties
<1>4. /\ r \in Seq(S) /\ Len(r) = Len(q) - 1
      /\ \A i \in 1..(Len(q) - 1) : r[i] = IF i < k THEN q[i] ELSE q[i + 1]
  <2> DEFINE a == SubSeq(q, 1, k - 1)
             b == SubSeq(q, k + 1, Len(q))
  <2>0. r = a \o b
    BY DEF Feed!RemoveAt
  <2>1. a \in Seq(S) /\ b \in Seq(S) /\ Len(a) = k - 1 /\ Len(b) = Len(q) - k /\ Len(q) \in Nat
    BY <1>2, <1>3
  <2>2. /\ \A i \in 1..(k - 1) : a[i] = q[i]
        /\ \A i \in 1..(Len(q) - k) : b[i] = q[k + i]
    BY <1>2, <1>3
  <2> HIDE DEF a, b, r
  <2>3. /\ a \o b \in Seq(S) /\ Len(a \o b) = Len(a) + Len(b)
        /\ \A i \in 1..(Len(a) + Len(b)) : (a \o b)[i] = IF i <= Len(a) THEN a[i] ELSE b[i - Len(a)]
    BY <2>1, ConcatProperties
  <2>4. r \in Seq(S) /\ Len(r) = Len(q) - 1
    BY <1>1, <2>0, <2>1, <2>3
  <2>5. ASSUME NEW i \in 1..(Len(q) - 1), i < k PROVE r[i] = q[i]
    BY <1>1, <2>0, <2>1, <2>2, <2>3, <2>5
  <2>6. ASSUME NEW i \in 1..(Len(q) - 1), ~ (i < k) PROVE r[i] = q[i + 1]
    <3>1. ~ (i <= Len(a)) /\ i - Len(a) \in 1..(Len(q) - k) /\ k + (i - Len(a)) = i + 1
          /\ i \in 1..(Len(a) + Len(b))
      BY <1>1, <2>1, <2>6
    <3>2. r[i] = b[i - Len(a)]
      BY <2>0, <2>3, <3>1
    <3> QED BY <2>2, <3>1, <3>2
  <2> QED BY <2>4, <2>5, <2>6
<1> HIDE DEF r
<1>5. Distinct(r)
  <2>1. ASSUME NEW i \in 1..(Len(q) - 1), NEW j \in 1..(Len(q) - 1), r[i] = r[j] PROVE i = j
    <3> DEFINE at(n) == IF n < k THEN n ELSE n + 1
    <3>1. /\ at(i) \in 1..Len(q) /\ at(j) \in 1..Len(q) /\ (at(i) = at(j) => i = j)
          /\ r[i] = q[at(i)] /\ r[j] = q[at(j)]
      BY <1>1, <1>4
    <3> HIDE DEF at
    <3>2. at(i) = at(j)
      BY <2>1, <3>1 DEF Distinct
    <3> QED BY <3>1, <3>2
  <2> QED BY <1>4, <2>1 DEF Distinct
<1>6. ASSUME NEW x PROVE In(x, r) <=> In(x, q) /\ x # s
  <2>1. In(x, r) => In(x, q) /\ x # s
    BY <1>1, <1>4 DEF In, Distinct
  <2>2. ASSUME NEW i \in 1..Len(q), q[i] = x, x # s PROVE In(x, r)
    <3>1. CASE i < k
      BY <1>1, <1>4, <2>2, <3>1 DEF In
    <3>2. CASE i > k
      <4>1. i - 1 \in 1..Len(r) /\ r[i - 1] = x
        BY <1>1, <1>4, <2>2, <3>2
      <4> QED BY <4>1 DEF In
    <3> QED BY <1>1, <2>2, <3>1, <3>2
  <2> QED BY <2>1, <2>2 DEF In
<1> QED BY <1>4, <1>5, <1>6 DEF r, k

-----------------------------------------------------------------------------
(* LiveFeed.  A stream is registered once while it is open; a publisher holds
   an event of its own and offers it to each stream once.                    *)
Offers(p) == pub[p].left # <<>>

FeedPlaces ==
  /\ DOMAIN box = Stream /\ DOMAIN seen = Stream
  /\ Distinct(subs)
  /\ \A s \in Stream : In(s, subs) <=> stream[s] \in {"open", "loop", "wait", "unstarted"}
  /\ \A p \in Publisher : pub[p] # Feed!Quiet => Offers(p) /\ pub[p].event # 0
  /\ \A p \in Publisher : Distinct(pub[p].left)
  /\ \A p, q \in Publisher : Offers(p) /\ Offers(q) /\ pub[p].event = pub[q].event => p = q

(* f is shown before e: it is another event, which had not reached everybody
   when e was published.                                                     *)
Follows(f, e) == e # f /\ e \notin before[f]

InOrder(s) ==
  /\ \A i, j \in 1..Len(seen[s]) : i < j => Follows(seen[s][i], seen[s][j])
  /\ \A i, j \in 1..Len(box[s]) : i < j => Follows(box[s][i], box[s][j])
  /\ \A i \in 1..Len(seen[s]), j \in 1..Len(box[s]) : Follows(seen[s][i], box[s][j])

FeedOrder ==
  /\ \A p \in Publisher : \A f \in Feed!Event : Offers(p) => pub[p].event \notin before[f]
  /\ \A s \in Stream : \A p \in Publisher :
       In(s, pub[p].left) => ~ In(pub[p].event, seen[s]) /\ ~ In(pub[p].event, box[s])
  /\ \A s \in Stream : InOrder(s)

FeedKept ==
  \A s \in Stream : \A e \in due[s] :
    \/ In(e, seen[s]) \/ In(e, box[s]) \/ e \in lost[s]
    \/ \E p \in Publisher : e = pub[p].event /\ In(s, pub[p].left)

FeedInv == Feed!TypeOK /\ FeedPlaces /\ FeedOrder /\ FeedKept

LEMMA FeedInit == ASSUME Feed!FeedAssumption, Feed!Init PROVE FeedInv
<1>1. Feed!TypeOK
  BY DEF Feed!Init, Feed!TypeOK, Feed!FeedAssumption, Feed!Quiet, Feed!Published, Feed!Event
<1>2. FeedPlaces
  <2>1. Distinct(<<>>) /\ \A x : ~ In(x, <<>>)
    BY DEF Distinct, In
  <2> QED BY <2>1 DEF Feed!Init, FeedPlaces, Feed!Quiet, Offers
<1>3. FeedOrder
  BY DEF Feed!Init, FeedOrder, InOrder, Feed!Quiet, In, Offers
<1>4. FeedKept
  BY DEF Feed!Init, FeedKept
<1> QED BY <1>1, <1>2, <1>3, <1>4 DEF FeedInv

(* A step of a stream alone: it begins, waits, or gives a thread up.         *)
LEMMA FeedMoves ==
  ASSUME Feed!FeedAssumption, FeedInv, NEW s \in Stream,
         \/ Feed!Start(s) \/ Feed!NeverStarts(s) \/ Feed!Get(s) \/ Feed!Nothing(s)
         \/ Feed!Abandon(s) \/ Feed!StrayEnds(s)
  PROVE  FeedInv'
<1> DEFINE Registered == {"open", "loop", "wait", "unstarted"}
<1>0. /\ stream \in [Stream -> {"closed", "open", "loop", "wait", "gone", "unstarted"}]
      /\ stray \in [Stream -> 0..MaxStray] /\ MaxStray \in Nat
  BY DEF FeedInv, Feed!TypeOK, Feed!FeedAssumption
<1>1. /\ UNCHANGED <<subs, box, pub, events, seen, lost, due, before>>
      /\ stream' \in [Stream -> {"closed", "open", "loop", "wait", "gone", "unstarted"}]
      /\ stray' \in [Stream -> 0..MaxStray]
      /\ \A t \in Stream : stream'[t] \in Registered <=> stream[t] \in Registered
  <2>1. ASSUME NEW from \in Registered, NEW to \in Registered,
               stream[s] = from, stream' = [stream EXCEPT ![s] = to]
        PROVE  /\ stream' \in [Stream -> {"closed", "open", "loop", "wait", "gone", "unstarted"}]
               /\ \A t \in Stream : stream'[t] \in Registered <=> stream[t] \in Registered
    BY <1>0, <2>1
  <2>2. CASE Feed!Start(s) \/ Feed!NeverStarts(s) \/ Feed!Get(s) \/ Feed!Nothing(s)
    BY <1>0, <2>1, <2>2 DEF Feed!Goto, Feed!Start, Feed!NeverStarts, Feed!Get, Feed!Nothing
  <2>3. CASE Feed!Abandon(s)
    BY <1>0, <2>1, <2>3 DEF Feed!Goto, Feed!Abandon
  <2>4. CASE Feed!StrayEnds(s)
    BY <1>0, <2>4 DEF Feed!StrayEnds
  <2> QED BY <2>2, <2>3, <2>4
<1>2. Feed!TypeOK'
  BY <1>1 DEF FeedInv, Feed!TypeOK, Feed!Published, Feed!Event
<1>3. FeedPlaces'
  BY <1>1 DEF FeedInv, FeedPlaces, Offers, Feed!Quiet
<1>4. FeedOrder' /\ FeedKept'
  BY <1>1 DEF FeedInv, FeedOrder, FeedKept, InOrder, Follows, Offers, Feed!Event
<1> QED BY <1>2, <1>3, <1>4 DEF FeedInv

LEMMA FeedConnect ==
  ASSUME Feed!FeedAssumption, FeedInv, NEW s \in Stream, Feed!Connect(s) PROVE FeedInv'
<1>1. /\ UNCHANGED <<box, stray, pub, events, seen, lost, due, before>>
      /\ subs' = Append(subs, s) /\ ~ In(s, subs)
      /\ stream' = [stream EXCEPT ![s] = "open"]
      /\ subs \in Seq(Stream) /\ Distinct(subs)
  BY DEF FeedInv, Feed!TypeOK, FeedPlaces, Feed!Connect, Feed!Goto
<1>2. /\ subs' \in Seq(Stream) /\ Distinct(subs')
      /\ \A x : In(x, subs') <=> In(x, subs) \/ x = s
  BY <1>1, Appended
<1>3. Feed!TypeOK'
  BY <1>1, <1>2 DEF FeedInv, Feed!TypeOK, Feed!Published, Feed!Event
<1>4. FeedPlaces'
  BY <1>1, <1>2 DEF FeedInv, FeedPlaces, Feed!TypeOK, Offers, Feed!Quiet
<1>5. FeedOrder' /\ FeedKept'
  BY <1>1 DEF FeedInv, FeedOrder, FeedKept, InOrder, Follows, Offers, Feed!Event
<1> QED BY <1>3, <1>4, <1>5 DEF FeedInv

LEMMA FeedDisconnect ==
  ASSUME Feed!FeedAssumption, FeedInv, NEW s \in Stream, Feed!Disconnect(s) PROVE FeedInv'
<1>1. /\ UNCHANGED <<box, pub, events, seen, lost, due, before>>
      /\ subs' = Feed!Unsubscribed(s) /\ In(s, subs)
      /\ stream' = [stream EXCEPT ![s] = "gone"]
      /\ subs \in Seq(Stream) /\ Distinct(subs)
  BY DEF FeedInv, Feed!TypeOK, FeedPlaces, Feed!Disconnect, Feed!Goto
<1>2. stray' \in [Stream -> 0..MaxStray]
  <2>1. stray \in [Stream -> 0..MaxStray] /\ MaxStray \in Nat
    BY DEF FeedInv, Feed!TypeOK, Feed!FeedAssumption
  <2>2. \/ stray' = stray
        \/ stray[s] < MaxStray /\ stray' = [stray EXCEPT ![s] = @ + 1]
    BY DEF Feed!Disconnect
  <2> QED BY <2>1, <2>2
<1>3. /\ subs' \in Seq(Stream) /\ Distinct(subs')
      /\ \A x : In(x, subs') <=> In(x, subs) /\ x # s
  BY <1>1, Removed DEF Feed!Unsubscribed
<1>4. Feed!TypeOK'
  BY <1>1, <1>2, <1>3 DEF FeedInv, Feed!TypeOK, Feed!Published, Feed!Event
<1>5. FeedPlaces'
  BY <1>1, <1>3 DEF FeedInv, FeedPlaces, Feed!TypeOK, Offers, Feed!Quiet
<1>6. FeedOrder' /\ FeedKept'
  BY <1>1 DEF FeedInv, FeedOrder, FeedKept, InOrder, Follows, Offers, Feed!Event
<1> QED BY <1>4, <1>5, <1>6 DEF FeedInv

(* What is left of a queue, when its head is taken, follows what it followed. *)
LEMMA FeedTaken ==
  ASSUME Feed!FeedAssumption, FeedInv, NEW s \in Stream, box[s] # <<>>,
         box' = [box EXCEPT ![s] = Tail(@)], UNCHANGED <<events, pub, before>>
  PROVE  /\ \A t \in Stream : box'[t] \in Seq(Feed!Published)' /\ Len(box'[t]) <= Capacity
         /\ \A x : In(x, box[s]) <=> In(x, box'[s]) \/ x = Head(box[s])
         /\ \A i, j \in 1..Len(box'[s]) : i < j => Follows(box'[s][i], box'[s][j])
         /\ \A i \in 1..Len(seen[s]), j \in 1..Len(box'[s]) : Follows(seen[s][i], box'[s][j])
         /\ \A j \in 1..Len(box'[s]) : Follows(Head(box[s]), box'[s][j])
         /\ \A i \in 1..Len(seen[s]) : Follows(seen[s][i], Head(box[s]))
         /\ Head(box[s]) \in Feed!Published /\ In(Head(box[s]), box[s])
<1> DEFINE q == box[s]
<1>1. q \in Seq(Feed!Published) /\ Len(q) <= Capacity /\ box'[s] = Tail(q) /\ Feed!Published' = Feed!Published
  BY DEF FeedInv, Feed!TypeOK, FeedPlaces, Feed!Published
<1>2. /\ \A i, j \in 1..Len(q) : i < j => Follows(q[i], q[j])
      /\ \A i \in 1..Len(seen[s]), j \in 1..Len(q) : Follows(seen[s][i], q[j])
  BY DEF FeedInv, FeedOrder, InOrder
<1>3. \A t \in Stream \ {s} : box'[t] = box[t] /\ box[t] \in Seq(Feed!Published) /\ Len(box[t]) <= Capacity
  BY DEF FeedInv, Feed!TypeOK, FeedPlaces
<1> HIDE DEF q
<1>4. /\ Len(q) \in Nat \ {0} /\ Tail(q) \in Seq(Feed!Published) /\ Len(Tail(q)) = Len(q) - 1
      /\ Head(q) \in Feed!Published /\ Head(q) = q[1]
      /\ \A i \in 1..Len(Tail(q)) : Tail(q)[i] = q[i + 1]
      /\ \A x : In(x, q) <=> In(x, Tail(q)) \/ x = Head(q)
  BY <1>1, Behead DEF q
<1>5. /\ \A i, j \in 1..Len(Tail(q)) : i < j => Follows(Tail(q)[i], Tail(q)[j])
      /\ \A i \in 1..Len(seen[s]), j \in 1..Len(Tail(q)) : Follows(seen[s][i], Tail(q)[j])
      /\ \A j \in 1..Len(Tail(q)) : Follows(Head(q), Tail(q)[j])
      /\ \A i \in 1..Len(seen[s]) : Follows(seen[s][i], Head(q))
  <2>1. \A i \in 1..Len(Tail(q)) : i + 1 \in 1..Len(q) /\ 1 < i + 1 /\ 1 \in 1..Len(q)
    BY <1>4
  <2>2. 1 \in 1..Len(q) /\ \A i, j \in 1..Len(Tail(q)) : i < j => i + 1 < j + 1
    BY <1>4
  <2> QED BY <1>2, <1>4, <2>1, <2>2
<1>6. Capacity \in Nat /\ Len(Tail(q)) <= Capacity
  BY <1>1, <1>4 DEF Feed!FeedAssumption
<1> QED BY <1>1, <1>3, <1>4, <1>5, <1>6 DEF q

LEMMA FeedReceive ==
  ASSUME Feed!FeedAssumption, FeedInv, NEW s \in Stream, Feed!Receive(s) PROVE FeedInv'
<1> DEFINE h == Head(box[s])
<1>1. /\ UNCHANGED <<subs, stray, pub, events, lost, due, before>>
      /\ seen' = [seen EXCEPT ![s] = Append(@, h)] /\ box[s] # <<>>
      /\ box' = [box EXCEPT ![s] = Tail(@)]
      /\ stream[s] = "wait" /\ stream' = [stream EXCEPT ![s] = "loop"]
  BY DEF Feed!Receive, Feed!Goto
<1>2. /\ DOMAIN box = Stream /\ DOMAIN seen = Stream
      /\ \A t \in Stream \ {s} : box'[t] = box[t] /\ seen'[t] = seen[t]
      /\ seen'[s] = Append(seen[s], h) /\ DOMAIN box' = Stream /\ DOMAIN seen' = Stream
      /\ \A t \in Stream : seen[t] \in Seq(Feed!Published)
      /\ Feed!Published' = Feed!Published
  BY <1>1 DEF FeedInv, FeedPlaces, Feed!TypeOK, Feed!Published
<1>3. /\ \A t \in Stream : box'[t] \in Seq(Feed!Published)' /\ Len(box'[t]) <= Capacity
      /\ \A x : In(x, box[s]) <=> In(x, box'[s]) \/ x = h
      /\ \A i, j \in 1..Len(box'[s]) : i < j => Follows(box'[s][i], box'[s][j])
      /\ \A i \in 1..Len(seen[s]), j \in 1..Len(box'[s]) : Follows(seen[s][i], box'[s][j])
      /\ \A j \in 1..Len(box'[s]) : Follows(h, box'[s][j])
      /\ \A i \in 1..Len(seen[s]) : Follows(seen[s][i], h)
      /\ h \in Feed!Published /\ In(h, box[s])
  BY <1>1, FeedTaken, Zenon
<1> HIDE DEF h
<1>4. /\ seen'[s] \in Seq(Feed!Published) /\ Len(seen'[s]) = Len(seen[s]) + 1 /\ Len(seen[s]) \in Nat
      /\ seen'[s][Len(seen[s]) + 1] = h /\ \A i \in 1..Len(seen[s]) : seen'[s][i] = seen[s][i]
      /\ \A x : In(x, seen'[s]) <=> In(x, seen[s]) \/ x = h
  BY <1>2, <1>3, Appended
<1>5. Feed!TypeOK'
  BY <1>1, <1>2, <1>3, <1>4 DEF FeedInv, Feed!TypeOK, Feed!Event
<1>6. FeedPlaces'
  BY <1>1, <1>2 DEF FeedInv, FeedPlaces, Feed!TypeOK, Offers, Feed!Quiet
<1>7. FeedOrder'
  <2>2. \A i \in 1..Len(seen'[s]) : i \in 1..Len(seen[s]) \/ i = Len(seen[s]) + 1
    BY <1>4
  <2>3. /\ \A i, j \in 1..Len(seen[s]) : i < j => Follows(seen[s][i], seen[s][j])
        /\ \A i \in 1..Len(seen[s]) : i < Len(seen[s]) + 1
    BY <1>4 DEF FeedInv, FeedOrder, InOrder
  <2>4. \A i, j \in 1..Len(seen'[s]) : i < j => Follows(seen'[s][i], seen'[s][j])
    BY <1>3, <1>4, <2>2, <2>3
  <2>5. \A i \in 1..Len(seen'[s]), j \in 1..Len(box'[s]) : Follows(seen'[s][i], box'[s][j])
    BY <1>3, <1>4, <2>2
  <2>6. \A t \in Stream : \A p \in Publisher :
          In(t, pub[p].left) => ~ In(pub[p].event, seen'[t]) /\ ~ In(pub[p].event, box'[t])
    BY <1>2, <1>3, <1>4 DEF FeedInv, FeedOrder
  <2>7. \A t \in Stream \ {s} : InOrder(t)'
    BY <1>1, <1>2 DEF FeedInv, FeedOrder, InOrder, Follows
  <2>8. \A p \in Publisher : \A f \in Feed!Event : Offers(p)' => pub'[p].event \notin before'[f]
    BY <1>1 DEF FeedInv, FeedOrder, Offers
  <2>9. InOrder(s)'
    BY <1>1, <1>3, <2>4, <2>5 DEF InOrder, Follows
  <2> QED BY <1>1, <2>6, <2>7, <2>8, <2>9 DEF FeedOrder, Feed!Event
<1>8. FeedKept'
  BY <1>1, <1>2, <1>3, <1>4 DEF FeedInv, FeedKept
<1> QED BY <1>5, <1>6, <1>7, <1>8 DEF FeedInv

LEMMA FeedStray ==
  ASSUME Feed!FeedAssumption, FeedInv, NEW s \in Stream, Feed!StrayTakes(s) PROVE FeedInv'
<1> DEFINE h == Head(box[s])
<1>1. /\ UNCHANGED <<subs, stream, pub, events, seen, due, before>>
      /\ lost' = [lost EXCEPT ![s] = @ \cup {h}] /\ box[s] # <<>>
      /\ box' = [box EXCEPT ![s] = Tail(@)]
      /\ stray[s] > 0 /\ stray' = [stray EXCEPT ![s] = @ - 1]
  BY DEF Feed!StrayTakes
<1>2. /\ DOMAIN box = Stream /\ DOMAIN box' = Stream
      /\ \A t \in Stream \ {s} : box'[t] = box[t] /\ lost'[t] = lost[t]
      /\ lost'[s] = lost[s] \cup {h} /\ lost \in [Stream -> SUBSET Feed!Published]
      /\ Feed!Published' = Feed!Published
  BY <1>1 DEF FeedInv, FeedPlaces, Feed!TypeOK, Feed!Published
<1>3. /\ \A t \in Stream : box'[t] \in Seq(Feed!Published)' /\ Len(box'[t]) <= Capacity
      /\ \A x : In(x, box[s]) <=> In(x, box'[s]) \/ x = h
      /\ \A i, j \in 1..Len(box'[s]) : i < j => Follows(box'[s][i], box'[s][j])
      /\ \A i \in 1..Len(seen[s]), j \in 1..Len(box'[s]) : Follows(seen[s][i], box'[s][j])
      /\ h \in Feed!Published
  BY <1>1, FeedTaken, Zenon
<1> HIDE DEF h
<1>4. stray' \in [Stream -> 0..MaxStray]
  BY <1>1 DEF FeedInv, Feed!TypeOK, Feed!FeedAssumption
<1>5. lost' \in [Stream -> SUBSET Feed!Published]
  BY <1>1, <1>2, <1>3
<1>6. Feed!TypeOK'
  BY <1>1, <1>2, <1>3, <1>4, <1>5 DEF FeedInv, Feed!TypeOK, Feed!Event
<1>7. FeedPlaces'
  BY <1>1, <1>2 DEF FeedInv, FeedPlaces, Feed!TypeOK, Offers, Feed!Quiet
<1>8. FeedOrder'
  <2>1. \A t \in Stream : \A p \in Publisher :
          In(t, pub[p].left) => ~ In(pub[p].event, seen[t]) /\ ~ In(pub[p].event, box'[t])
    BY <1>2, <1>3 DEF FeedInv, FeedOrder
  <2>2. \A t \in Stream \ {s} : InOrder(t)'
    BY <1>1, <1>2 DEF FeedInv, FeedOrder, InOrder, Follows
  <2>3. InOrder(s)'
    BY <1>1, <1>3 DEF FeedInv, FeedOrder, InOrder, Follows
  <2>4. \A p \in Publisher : \A f \in Feed!Event : Offers(p)' => pub'[p].event \notin before'[f]
    BY <1>1 DEF FeedInv, FeedOrder, Offers
  <2> QED BY <1>1, <2>1, <2>2, <2>3, <2>4 DEF FeedOrder, Feed!Event
<1>9. FeedKept'
  BY <1>1, <1>2, <1>3 DEF FeedInv, FeedKept
<1> QED BY <1>6, <1>7, <1>8, <1>9 DEF FeedInv

LEMMA FeedPublish ==
  ASSUME Feed!FeedAssumption, FeedInv, NEW p \in Publisher, Feed!Publish(p) PROVE FeedInv'
<1> DEFINE n == events + 1
<1>1. /\ UNCHANGED <<subs, box, stream, stray, seen, lost>>
      /\ events < MaxEvent /\ events' = n /\ pub[p] = Feed!Quiet
      /\ pub' = [pub EXCEPT ![p] = IF subs = <<>> THEN Feed!Quiet ELSE [event |-> n, left |-> subs]]
      /\ due' = [s \in Stream |-> IF Feed!Open(s) THEN due[s] \cup {n} ELSE due[s]]
      /\ before' = [before EXCEPT ![n] = Feed!Published \ Feed!Offering]
  BY DEF Feed!Publish
<1>2. /\ events \in Nat /\ MaxEvent \in Nat /\ n \in Feed!Event /\ events' \in 0..MaxEvent
      /\ Feed!Published' = Feed!Published \cup {n} /\ n \notin Feed!Published
      /\ 0..events \subseteq 0..events' /\ n \in 0..events' /\ Feed!Published \subseteq Feed!Event
      /\ n # 0 /\ Feed!Published \subseteq Feed!Published' /\ 0 \notin Feed!Published
  <2>1. events \in 0..MaxEvent /\ MaxEvent \in Nat
    BY DEF FeedInv, Feed!TypeOK, Feed!FeedAssumption
  <2>2. n \in 1..MaxEvent /\ n \in 0..events' /\ 0..events \subseteq 0..events' /\ n # 0
        /\ events \in Nat /\ events' \in 0..MaxEvent
    BY <1>1, <2>1
  <2>3. 1..events' = 1..events \cup {n} /\ n \notin 1..events
    BY <1>1, <2>1
  <2>4. 1..events \subseteq 1..MaxEvent /\ 0 \notin 1..events
    BY <2>1
  <2> QED BY <2>1, <2>2, <2>3, <2>4 DEF Feed!Published, Feed!Event
<1>3. /\ subs \in Seq(Stream) /\ before \in [Feed!Event -> SUBSET Feed!Published]
      /\ pub \in [Publisher -> [event : 0..events, left : Seq(Stream)]]
      /\ lost \in [Stream -> SUBSET Feed!Published] /\ due \in [Stream -> SUBSET Feed!Published]
      /\ \A s \in Stream : box[s] \in Seq(Feed!Published) /\ seen[s] \in Seq(Feed!Published)
  BY DEF FeedInv, Feed!TypeOK
<1>4. /\ (pub'[p] = Feed!Quiet /\ subs = <<>>) \/ (pub'[p] = [event |-> n, left |-> subs] /\ subs # <<>>)
      /\ \A q \in Publisher \ {p} : pub'[q] = pub[q]
      /\ pub'[p].left = subs /\ Feed!Quiet.left = <<>> /\ pub[p].left = <<>>
      /\ pub'[p] \in [event : 0..events', left : Seq(Stream)]
  <2> HIDE DEF n
  <2>1. /\ pub'[p] = IF subs = <<>> THEN Feed!Quiet ELSE [event |-> n, left |-> subs]
        /\ \A q \in Publisher \ {p} : pub'[q] = pub[q]
    BY <1>1, <1>3
  <2>2. Feed!Quiet.left = <<>> /\ Feed!Quiet = [event |-> 0, left |-> <<>>] /\ 0 \in 0..events'
    BY <1>2 DEF Feed!Quiet
  <2>3. pub'[p].left = subs
    BY <2>1, <2>2
  <2>4. pub'[p] \in [event : 0..events', left : Seq(Stream)]
    BY <1>2, <1>3, <2>1, <2>2
  <2>5. (pub'[p] = Feed!Quiet /\ subs = <<>>) \/ (pub'[p] = [event |-> n, left |-> subs] /\ subs # <<>>)
    BY <2>1
  <2> QED BY <1>1, <2>1, <2>2, <2>3, <2>4, <2>5, Zenon
<1> HIDE DEF n
<1>5. /\ before'[n] = Feed!Published \ Feed!Offering
      /\ \A f \in Feed!Event \ {n} : before'[f] = before[f]
      /\ \A s \in Stream : due'[s] = due[s] \/ (In(s, subs) /\ due'[s] = due[s] \cup {n})
  <2>1. /\ before'[n] = Feed!Published \ Feed!Offering
        /\ \A f \in Feed!Event \ {n} : before'[f] = before[f]
    BY <1>1, <1>2, <1>3
  <2>2. \A s \in Stream : due'[s] = IF Feed!Open(s) THEN due[s] \cup {n} ELSE due[s]
    BY <1>1
  <2>3. \A s \in Stream : Feed!Open(s) => In(s, subs)
    BY DEF Feed!Open, FeedInv, FeedPlaces
  <2>4. \A s \in Stream : due'[s] = due[s] \/ (In(s, subs) /\ due'[s] = due[s] \cup {n})
    BY <2>2, <2>3
  <2> QED BY <2>1, <2>4, Zenon
<1>6. Feed!TypeOK'
  <2>1. pub' \in [Publisher -> [event : 0..events', left : Seq(Stream)]]
    BY <1>1, <1>2, <1>3, <1>4
  <2>2. /\ lost' \in [Stream -> SUBSET Feed!Published'] /\ due' \in [Stream -> SUBSET Feed!Published']
        /\ before' \in [Feed!Event -> SUBSET Feed!Published']
    BY <1>1, <1>2, <1>3
  <2>3. \A s \in Stream : box'[s] \in Seq(Feed!Published') /\ seen'[s] \in Seq(Feed!Published')
    BY <1>1, <1>2, <1>3
  <2> QED BY <1>1, <1>2, <1>3, <2>1, <2>2, <2>3 DEF FeedInv, Feed!TypeOK, Feed!Event
<1>7. FeedPlaces'
  <2>1. \A q \in Publisher : pub'[q] # Feed!Quiet => pub'[q].left # <<>> /\ pub'[q].event # 0
    BY <1>2, <1>4 DEF FeedInv, FeedPlaces, Offers
  <2>2. \A q \in Publisher : Distinct(pub'[q].left)
    BY <1>4 DEF FeedInv, FeedPlaces
  <2>3. \A q \in Publisher : pub[q].event # n
    BY <1>2, <1>3 DEF n
  <2>4. \A q, r \in Publisher :
          pub'[q].left # <<>> /\ pub'[r].left # <<>> /\ pub'[q].event = pub'[r].event => q = r
    BY <1>4, <2>3 DEF FeedInv, FeedPlaces, Offers
  <2> QED BY <1>1, <2>1, <2>2, <2>4 DEF FeedInv, FeedPlaces, Offers, Feed!Quiet
<1>8. \A s \in Stream : /\ \A i \in 1..Len(seen[s]) : seen[s][i] \in Feed!Published
                        /\ \A i \in 1..Len(box[s]) : box[s][i] \in Feed!Published
  BY <1>3
<1>9. FeedOrder'
  <2>1. \A q \in Publisher : \A f \in Feed!Event : pub'[q].left # <<>> => pub'[q].event \notin before'[f]
    <3>1. CASE pub'[p] = [event |-> n, left |-> subs]
      <4>1. \A f \in Feed!Event : n \notin before'[f]
        BY <1>2, <1>3, <1>5
      <4>2. \A q \in Publisher : pub[q].event \in Feed!Offering
        BY DEF Feed!Offering
      <4> QED BY <1>4, <1>5, <3>1, <4>1, <4>2 DEF FeedInv, FeedOrder, Offers
    <3>2. CASE pub'[p] = Feed!Quiet
      <4>2. \A q \in Publisher : pub[q].event \in Feed!Offering
        BY DEF Feed!Offering
      <4> QED BY <1>4, <1>5, <3>2, <4>2 DEF FeedInv, FeedOrder, Offers
    <3> QED BY <1>4, <3>1, <3>2
  <2>2. \A s \in Stream : \A q \in Publisher :
          In(s, pub'[q].left) => ~ In(pub'[q].event, seen[s]) /\ ~ In(pub'[q].event, box[s])
    <3>1. \A s \in Stream : ~ In(n, seen[s]) /\ ~ In(n, box[s])
      BY <1>2, <1>8 DEF In
    <3>2. ~ In(0, <<>>) /\ \A s : ~ In(s, <<>>)
      BY DEF In
    <3> QED BY <1>4, <3>1, <3>2 DEF FeedInv, FeedOrder
  <2>3. \A f \in Feed!Published : \A e : Follows(f, e) <=> e # f /\ e \notin before'[f]
    BY <1>2, <1>5 DEF Follows
  <2>4. \A s \in Stream : InOrder(s)'
    BY <1>1, <1>8, <2>3 DEF FeedInv, FeedOrder, InOrder, Follows
  <2> QED BY <1>1, <2>1, <2>2, <2>4 DEF FeedOrder, Offers, Feed!Event
<1>10. FeedKept'
  <2>1. ASSUME NEW s \in Stream, In(s, subs)
        PROVE  \E q \in Publisher : n = pub'[q].event /\ In(s, pub'[q].left)
    <3>1. subs # <<>>
      BY <2>1 DEF In
    <3> QED BY <1>4, <2>1, <3>1
  <2>2. \A s \in Stream : ~ In(s, pub[p].left)
    BY <1>4 DEF In
  <2>3. ASSUME NEW s \in Stream, NEW e \in due[s]
        PROVE  \/ In(e, seen[s]) \/ In(e, box[s]) \/ e \in lost[s]
               \/ \E q \in Publisher : e = pub'[q].event /\ In(s, pub'[q].left)
    BY <1>4, <2>2 DEF FeedInv, FeedKept
  <2>4. ASSUME NEW s \in Stream, NEW e \in due'[s]
        PROVE  \/ In(e, seen[s]) \/ In(e, box[s]) \/ e \in lost[s]
               \/ \E q \in Publisher : e = pub'[q].event /\ In(s, pub'[q].left)
    BY <1>5, <2>1, <2>3
  <2> QED BY <1>1, <2>4 DEF FeedKept
<1> QED BY <1>6, <1>7, <1>9, <1>10 DEF FeedInv

LEMMA FeedOffer ==
  ASSUME Feed!FeedAssumption, FeedInv, NEW p \in Publisher, Feed!Offer(p) PROVE FeedInv'
<1>0. PICK s, e : s = Head(pub[p].left) /\ e = pub[p].event
  OBVIOUS
<1>1. /\ UNCHANGED <<subs, stream, stray, events, seen, due, before>>
      /\ pub[p].left # <<>>
      /\ \/ /\ Len(box[s]) < Capacity /\ UNCHANGED lost
            /\ box' = [box EXCEPT ![s] = Append(@, e)]
         \/ UNCHANGED box /\ lost' = [lost EXCEPT ![s] = @ \cup {e}]
      /\ pub' = [pub EXCEPT ![p] = IF Len(pub[p].left) = 1 THEN Feed!Quiet
                                   ELSE [event |-> pub[p].event, left |-> Tail(pub[p].left)]]
  <2>1. /\ UNCHANGED <<subs, stream, stray, events, seen, due, before>>
        /\ pub[p].left # <<>>
        /\ IF Len(box[s]) < Capacity
             THEN box' = [box EXCEPT ![s] = Append(@, e)] /\ UNCHANGED lost
             ELSE lost' = [lost EXCEPT ![s] = @ \cup {e}] /\ UNCHANGED box
    BY <1>0, Zenon DEF Feed!Offer
  <2>2. pub' = [pub EXCEPT ![p] = IF Len(pub[p].left) = 1 THEN Feed!Quiet
                                  ELSE [event |-> pub[p].event, left |-> Tail(pub[p].left)]]
    BY DEF Feed!Offer
  <2> QED BY <2>1, <2>2
<1>2. /\ pub \in [Publisher -> [event : 0..events, left : Seq(Stream)]] /\ events \in Nat
      /\ lost \in [Stream -> SUBSET Feed!Published] /\ Capacity \in Nat /\ Feed!Published' = Feed!Published
      /\ \A t \in Stream : box[t] \in Seq(Feed!Published) /\ Len(box[t]) <= Capacity
      /\ \A t \in Stream : seen[t] \in Seq(Feed!Published)
      /\ DOMAIN box = Stream
  BY <1>1 DEF FeedInv, FeedPlaces, Feed!TypeOK, Feed!FeedAssumption, Feed!Published
<1>3. /\ pub[p].left \in Seq(Stream) /\ Tail(pub[p].left) \in Seq(Stream) /\ s \in Stream
      /\ Len(pub[p].left) \in Nat \ {0} /\ Len(Tail(pub[p].left)) = Len(pub[p].left) - 1
      /\ \A t : In(t, pub[p].left) <=> In(t, Tail(pub[p].left)) \/ t = s
      /\ Distinct(Tail(pub[p].left)) /\ ~ In(s, Tail(pub[p].left))
      /\ Tail(pub[p].left) = <<>> <=> Len(pub[p].left) = 1
  <2>1. pub[p].left \in Seq(Stream) /\ Distinct(pub[p].left)
    BY <1>2 DEF FeedInv, FeedPlaces
  <2> QED BY <1>0, <1>1, <2>1, Behead
<1>4. e \in Feed!Published /\ e # 0
  <2>1. pub[p] # Feed!Quiet
    BY <1>1 DEF Feed!Quiet
  <2> QED BY <1>0, <1>2, <2>1 DEF FeedInv, FeedPlaces, Feed!Published
<1>5. /\ pub'[p].left = Tail(pub[p].left) /\ pub'[p] \in [event : 0..events, left : Seq(Stream)]
      /\ pub'[p] = Feed!Quiet \/ (pub'[p].left # <<>> /\ pub'[p].event = e)
      /\ \A q \in Publisher \ {p} : pub'[q] = pub[q]
  <2>1. /\ pub'[p] = IF Len(pub[p].left) = 1 THEN Feed!Quiet ELSE [event |-> pub[p].event, left |-> Tail(pub[p].left)]
        /\ \A q \in Publisher \ {p} : pub'[q] = pub[q]
    BY <1>1, <1>2
  <2>2. /\ Feed!Quiet.left = <<>> /\ Feed!Quiet \in [event : 0..events, left : Seq(Stream)]
    BY <1>2 DEF Feed!Quiet
  <2>3. CASE Len(pub[p].left) = 1
    BY <1>3, <2>1, <2>2, <2>3
  <2>4. CASE Len(pub[p].left) # 1
    <3>1. pub'[p] = [event |-> pub[p].event, left |-> Tail(pub[p].left)]
      BY <2>1, <2>4
    <3>2. pub'[p] = [event |-> e, left |-> Tail(pub[p].left)]
      BY <1>0, <1>2, <3>1
    <3> QED BY <1>0, <1>2, <1>3, <2>1, <2>4, <3>2
  <2> QED BY <2>3, <2>4
<1>6. pub' \in [Publisher -> [event : 0..events', left : Seq(Stream)]]
  BY <1>1, <1>2, <1>5
<1>7. ~ In(e, seen[s]) /\ ~ In(e, box[s]) /\ In(s, pub[p].left)
  BY <1>0, <1>3 DEF FeedInv, FeedOrder
<1>8. \A q \in Publisher : pub'[q].left # <<>> => pub'[q].event = pub[q].event /\ pub[q].left # <<>>
  <2>1. pub'[p].left # <<>> => pub'[p].event = pub[p].event
    <3>1. Feed!Quiet.left = <<>>
      BY DEF Feed!Quiet
    <3> QED BY <1>0, <1>5, <3>1
  <2> QED BY <1>1, <1>5, <2>1
<1>9. FeedPlaces'
  <2>1. \A q \in Publisher : pub'[q] # Feed!Quiet => pub'[q].left # <<>> /\ pub'[q].event # 0
    BY <1>4, <1>5 DEF FeedInv, FeedPlaces, Offers
  <2>2. \A q \in Publisher : Distinct(pub'[q].left)
    BY <1>3, <1>5 DEF FeedInv, FeedPlaces
  <2>3. \A q, r \in Publisher :
          pub'[q].left # <<>> /\ pub'[r].left # <<>> /\ pub'[q].event = pub'[r].event => q = r
    BY <1>8 DEF FeedInv, FeedPlaces, Offers
  <2>4. DOMAIN box' = Stream
    BY <1>1, <1>2
  <2> QED BY <1>1, <2>1, <2>2, <2>3, <2>4 DEF FeedInv, FeedPlaces, Offers, Feed!Quiet
<1>10. \A q \in Publisher : \A t : In(t, pub'[q].left) => In(t, pub[q].left) /\ pub'[q].left # <<>>
  <2>1. \A t : ~ In(t, <<>>)
    BY DEF In
  <2> QED BY <1>3, <1>5, <2>1
<1>11. \A q \in Publisher : In(s, pub'[q].left) => pub'[q].event # e
  <2>1. ASSUME NEW q \in Publisher \ {p}, In(s, pub'[q].left) PROVE pub'[q].event # e
    <3>1. pub[q].left # <<>> /\ pub'[q].event = pub[q].event
      BY <1>8, <1>10, <2>1
    <3> QED BY <1>0, <1>1, <2>1, <3>1 DEF FeedInv, FeedPlaces, Offers
  <2> QED BY <1>3, <1>5, <2>1
<1>12. \A q \in Publisher : \A f \in Feed!Event : pub'[q].left # <<>> => pub'[q].event \notin before'[f]
  BY <1>1, <1>8 DEF FeedInv, FeedOrder, Offers
<1>13. \A t \in Stream : \A q \in Publisher :
         In(t, pub'[q].left) => ~ In(pub'[q].event, seen[t]) /\ ~ In(pub'[q].event, box[t])
  BY <1>8, <1>10 DEF FeedInv, FeedOrder
<1>14. \A t \in Stream : \A d \in due[t] :
         \/ In(d, seen[t]) \/ In(d, box[t]) \/ d \in lost[t] \/ (t = s /\ d = e)
         \/ \E q \in Publisher : d = pub'[q].event /\ In(t, pub'[q].left)
  <2>1. ASSUME NEW t \in Stream, NEW q \in Publisher, In(t, pub[q].left), ~ (t = s /\ pub[q].event = e)
        PROVE  pub'[q].event = pub[q].event /\ In(t, pub'[q].left)
    <3>1. CASE q = p
      <4>1. t # s /\ In(t, pub'[q].left)
        BY <1>0, <1>3, <1>5, <2>1, <3>1
      <4> QED BY <1>8, <1>10, <4>1
    <3>2. CASE q # p
      BY <1>5, <2>1, <3>2
    <3> QED BY <3>1, <3>2
  <2> QED BY <2>1 DEF FeedInv, FeedKept
<1>15. CASE UNCHANGED box /\ lost' = [lost EXCEPT ![s] = @ \cup {e}]
  <2>1. /\ lost' \in [Stream -> SUBSET Feed!Published] /\ e \in lost'[s]
        /\ \A t \in Stream : lost[t] \subseteq lost'[t]
    BY <1>2, <1>3, <1>4, <1>15
  <2>2. Feed!TypeOK'
    BY <1>1, <1>2, <1>6, <1>15, <2>1 DEF FeedInv, Feed!TypeOK, Feed!Event
  <2>3. \A t \in Stream : InOrder(t)'
    BY <1>1, <1>15 DEF FeedInv, FeedOrder, InOrder, Follows
  <2>4. FeedOrder'
    BY <1>1, <1>12, <1>13, <1>15, <2>3 DEF FeedOrder, Offers, Feed!Event
  <2>5. FeedKept'
    BY <1>1, <1>14, <1>15, <2>1 DEF FeedKept
  <2> QED BY <1>9, <2>2, <2>4, <2>5 DEF FeedInv
<1>16. CASE /\ Len(box[s]) < Capacity /\ UNCHANGED lost
            /\ box' = [box EXCEPT ![s] = Append(@, e)]
  <2>1. /\ box'[s] = Append(box[s], e) /\ \A t \in Stream \ {s} : box'[t] = box[t]
        /\ box[s] \in Seq(Feed!Published)
    BY <1>2, <1>3, <1>16
  <2>2. /\ box'[s] \in Seq(Feed!Published) /\ Len(box'[s]) = Len(box[s]) + 1 /\ Len(box[s]) \in Nat
        /\ box'[s][Len(box[s]) + 1] = e /\ \A i \in 1..Len(box[s]) : box'[s][i] = box[s][i]
        /\ \A x : In(x, box'[s]) <=> In(x, box[s]) \/ x = e
    BY <1>4, <2>1, Appended
  <2>3. \A t \in Stream : box'[t] \in Seq(Feed!Published) /\ Len(box'[t]) <= Capacity
    BY <1>2, <1>16, <2>1, <2>2
  <2>4. Feed!TypeOK'
    BY <1>1, <1>2, <1>6, <1>16, <2>3 DEF FeedInv, Feed!TypeOK, Feed!Event
  <2>5. \A i \in 1..Len(box'[s]) : i \in 1..Len(box[s]) \/ i = Len(box[s]) + 1
    BY <2>2
  <2>6. \A f \in Feed!Event : e \notin before[f]
    BY <1>0, <1>1 DEF FeedInv, FeedOrder, Offers
  <2>7. /\ \A i \in 1..Len(seen[s]) : seen[s][i] # e /\ seen[s][i] \in Feed!Event
        /\ \A i \in 1..Len(box[s]) : box[s][i] # e /\ box[s][i] \in Feed!Event
    <3>1. Feed!Published \subseteq Feed!Event
      BY DEF FeedInv, Feed!TypeOK, Feed!FeedAssumption, Feed!Published, Feed!Event
    <3>2. seen[s] \in Seq(Feed!Published) /\ box[s] \in Seq(Feed!Published)
      BY <1>2, <1>3
    <3>3. /\ \A i \in 1..Len(seen[s]) : seen[s][i] \in Feed!Published
          /\ \A i \in 1..Len(box[s]) : box[s][i] \in Feed!Published
      BY <3>2
    <3> QED BY <1>7, <3>1, <3>3 DEF In
  <2>8. /\ \A i \in 1..Len(seen[s]) : Follows(seen[s][i], e)
        /\ \A i \in 1..Len(box[s]) : Follows(box[s][i], e)
    BY <2>6, <2>7 DEF Follows
  <2>9. InOrder(s) /\ \A t \in Stream : InOrder(t)
    BY <1>3 DEF FeedInv, FeedOrder
  <2>10. \A i, j \in 1..Len(box'[s]) : i < j => Follows(box'[s][i], box'[s][j])
    <3> TAKE i, j \in 1..Len(box'[s])
    <3> HAVE i < j
    <3>1. CASE j \in 1..Len(box[s])
      <4>1. i \in 1..Len(box[s])
        BY <2>2, <3>1
      <4> QED BY <2>2, <2>9, <3>1, <4>1 DEF InOrder
    <3>2. CASE j = Len(box[s]) + 1
      <4>1. i \in 1..Len(box[s])
        BY <2>2, <3>2
      <4> QED BY <2>2, <2>8, <3>2, <4>1
    <3> QED BY <2>5, <3>1, <3>2
  <2>11. \A i \in 1..Len(seen[s]), j \in 1..Len(box'[s]) : Follows(seen[s][i], box'[s][j])
    BY <2>2, <2>5, <2>8, <2>9 DEF InOrder
  <2>12. \A t \in Stream : InOrder(t)'
    <3>1. InOrder(s)'
      BY <1>1, <2>9, <2>10, <2>11 DEF InOrder, Follows
    <3>2. \A t \in Stream \ {s} : InOrder(t)'
      BY <1>1, <2>1, <2>9 DEF InOrder, Follows
    <3> QED BY <3>1, <3>2
  <2>13. \A t \in Stream : \A q \in Publisher :
           In(t, pub'[q].left) => ~ In(pub'[q].event, seen[t]) /\ ~ In(pub'[q].event, box'[t])
    BY <1>11, <1>13, <2>1, <2>2
  <2>14. FeedOrder'
    BY <1>1, <1>12, <2>12, <2>13 DEF FeedOrder, Offers, Feed!Event
  <2>15. FeedKept'
    BY <1>1, <1>14, <1>16, <2>1, <2>2 DEF FeedKept
  <2> QED BY <1>9, <2>4, <2>14, <2>15 DEF FeedInv
<1> QED BY <1>1, <1>15, <1>16

LEMMA FeedStep == ASSUME Feed!FeedAssumption, FeedInv, [Feed!Next]_feedVars PROVE FeedInv'
<1>1. CASE UNCHANGED feedVars
  <2>1. Feed!TypeOK'
    BY <1>1 DEF feedVars, FeedInv, Feed!TypeOK, Feed!Published, Feed!Event
  <2>2. FeedPlaces'
    BY <1>1 DEF feedVars, FeedInv, FeedPlaces, Offers, Feed!Quiet
  <2>3. FeedOrder'
    BY <1>1 DEF feedVars, FeedInv, FeedOrder, InOrder, Follows, Offers, Feed!Event
  <2>4. FeedKept'
    BY <1>1 DEF feedVars, FeedInv, FeedKept
  <2> QED BY <2>1, <2>2, <2>3, <2>4 DEF FeedInv
<1>2. CASE Feed!Next
  BY <1>2, FeedMoves, FeedConnect, FeedDisconnect, FeedReceive, FeedStray, FeedPublish, FeedOffer
     DEF Feed!Next, Feed!Serve, Feed!Stray
<1> QED BY <1>1, <1>2

LEMMA FeedGood == FeedInv => Feed!TypeOK /\ Feed!FeedFaithful
<1> SUFFICES ASSUME FeedInv PROVE Feed!FeedFaithful
  BY DEF FeedInv
<1>1. \A s \in Stream : /\ box[s] \in Seq(Feed!Published) /\ seen[s] \in Seq(Feed!Published)
                        /\ \A p \in Publisher : pub[p].left \in Seq(Stream)
  BY DEF FeedInv, Feed!TypeOK
<1>2. ASSUME NEW s \in Stream
      PROVE  due[s] \subseteq Feed!ToSet(seen[s]) \cup Feed!ToSet(box[s]) \cup lost[s]
                                \cup Feed!OnItsWay(s)
  <2>1. \A x : /\ x \in Feed!ToSet(seen[s]) <=> In(x, seen[s])
               /\ x \in Feed!ToSet(box[s]) <=> In(x, box[s])
    BY <1>1, InSet
  <2>2. \A p \in Publisher : s \in Feed!ToSet(pub[p].left) <=> In(s, pub[p].left)
    BY <1>1, InSet
  <2> QED BY <2>1, <2>2 DEF FeedInv, FeedKept, Feed!OnItsWay
<1>3. ASSUME NEW s \in Stream
      PROVE  \A i, j \in DOMAIN seen[s] :
               i < j => seen[s][j] # seen[s][i] /\ seen[s][j] \notin before[seen[s][i]]
  BY <1>1 DEF FeedInv, FeedOrder, InOrder, Follows
<1> QED BY <1>2, <1>3 DEF Feed!FeedFaithful

-----------------------------------------------------------------------------
(* Enrichment. The threads hold messages that are in the table.                          *)
HoldsRows ==
  /\ \A t \in Turn : turn[t].pc = "put" \/ turn[t].pc = "read" => turn[t].id \in 1..rows

(* Unless two turns crossed, the numbers rise from the row over the job in
   hand and the queue to the last message accepted.                          *)
Held == worker.pc # "get"
LabelsInOrder ==
  ~ raced =>
    /\ \A f \in Field : label[f] <= latest /\ (Held => label[f] <= worker.job)
    /\ \A f \in Field : \A i \in 1..Len(queue) : label[f] <= queue[i]
    /\ Held => worker.job <= latest /\ \A i \in 1..Len(queue) : worker.job <= queue[i]
    /\ \A i \in 1..Len(queue) : queue[i] <= latest
    /\ \A i, j \in 1..Len(queue) : i <= j => queue[i] <= queue[j]

EnrichInv == Enrich!TypeOK /\ HoldsRows /\ LabelsInOrder

LEMMA EnrichInit == ASSUME Enrich!EnrichmentAssumption, Enrich!Init PROVE EnrichInv
<1>1. Enrich!Waiting \in [pc : {"get"}, job : {0}, found : SUBSET Field] /\ Enrich!Idle \in [pc : {"idle"}, id : {0}]
  BY DEF Enrich!Waiting, Enrich!Idle
<1>2. Enrich!TypeOK
  <2>1. /\ enabled \in BOOLEAN /\ raced = FALSE /\ rows = 0 /\ restarts = 0 /\ latest = 0
        /\ 0 \in 0..MaxMessage /\ 0 \in 0..MaxRestart /\ 0 \in 0..rows
    BY DEF Enrich!EnrichmentAssumption, Enrich!Init
  <2>2. turn \in [Turn -> [pc : {"idle", "read", "put"}, id : 0..rows]]
        /\ worker \in [pc : {"get", "classify", "apply"}, job : 0..rows, found : SUBSET Field]
        /\ label \in [Field -> 0..rows]
    BY <1>1, <2>1 DEF Enrich!Init
  <2>3. queue = <<>> /\ queue \in Seq(1..rows) /\ Len(queue) <= Places
    BY DEF Enrich!Init, Enrich!EnrichmentAssumption
  <2> QED BY <2>1, <2>2, <2>3 DEF Enrich!TypeOK
<1>3. HoldsRows /\ LabelsInOrder
  BY <1>1 DEF Enrich!Init, HoldsRows, LabelsInOrder, Held
<1> QED BY <1>2, <1>3 DEF EnrichInv

LEMMA EnrichTypeStep ==
  ASSUME Enrich!EnrichmentAssumption, Enrich!TypeOK, HoldsRows, [Enrich!Next]_enrichVars
  PROVE  Enrich!TypeOK' /\ HoldsRows'
<1> USE DEF Enrich!TypeOK, HoldsRows, Enrich!EnrichmentAssumption
<1>1. CASE UNCHANGED enrichVars
  BY <1>1 DEF enrichVars
<1>2. ASSUME NEW t \in Turn, Enrich!Insert(t) PROVE Enrich!TypeOK' /\ HoldsRows'
  <2>1. rows' = rows + 1 /\ rows' \in 0..MaxMessage /\ 1..rows \subseteq 1..rows' /\ 0..rows \subseteq 0..rows'
        /\ latest \in 0..rows'
    BY <1>2 DEF Enrich!Insert
  <2>2. queue \in Seq(1..rows')
    BY <2>1
  <2>3. turn' \in [Turn -> [pc : {"idle", "read", "put"}, id : 0..rows']] /\ HoldsRows'
    BY <1>2, <2>1 DEF Enrich!Insert
  <2>4. worker \in [pc : {"get", "classify", "apply"}, job : 0..rows', found : SUBSET Field]
        /\ label \in [Field -> 0..rows']
    BY <2>1
  <2> QED BY <1>2, <2>1, <2>2, <2>3, <2>4 DEF Enrich!Insert
<1>3. ASSUME NEW t \in Turn, Enrich!ReadFlag(t) PROVE Enrich!TypeOK' /\ HoldsRows'
  <2>1. rows \in Nat /\ turn' \in [Turn -> [pc : {"idle", "read", "put"}, id : 0..rows]] /\ HoldsRows'
    <3>1. CASE turn' = [turn EXCEPT ![t].pc = "put"] /\ turn[t].pc = "read"
      <4>1. turn'[t] = [turn[t] EXCEPT !.pc = "put"] /\ turn[t].id \in 1..rows
        BY <1>3, <3>1 DEF Enrich!ReadFlag
      <4>2. turn'[t] \in [pc : {"idle", "read", "put"}, id : 0..rows] /\ turn'[t].id \in 1..rows
        BY <4>1
      <4> QED BY <1>3, <3>1, <4>2 DEF Enrich!ReadFlag
    <3>2. CASE turn' = [turn EXCEPT ![t] = Enrich!Idle]
      BY <1>3, <3>2 DEF Enrich!ReadFlag, Enrich!Idle
    <3> QED BY <1>3, <3>1, <3>2 DEF Enrich!ReadFlag
  <2> QED BY <1>3, <2>1 DEF Enrich!ReadFlag
<1>4. ASSUME NEW t \in Turn, Enrich!Put(t) PROVE Enrich!TypeOK' /\ HoldsRows'
  <2>1. turn[t].id \in 1..rows /\ turn' = [turn EXCEPT ![t] = Enrich!Idle] /\ UNCHANGED <<enabled, rows, worker, label, restarts>>
    BY <1>4 DEF Enrich!Put
  <2>2. turn' \in [Turn -> [pc : {"idle", "read", "put"}, id : 0..rows']] /\ HoldsRows'
    BY <2>1 DEF Enrich!Idle
  <2>3. queue' \in Seq(1..rows) /\ Len(queue') <= Places /\ raced' \in BOOLEAN /\ latest' \in 0..rows
    <3>1. CASE Enrich!Accepts
      <4>1. queue' = Append(queue, turn[t].id) /\ latest' = turn[t].id /\ raced' \in BOOLEAN
        BY <1>4, <3>1 DEF Enrich!Put
      <4>2. queue' \in Seq(1..rows) /\ Len(queue') = Len(queue) + 1
        BY <2>1, <4>1
      <4> QED BY <2>1, <3>1, <4>1, <4>2 DEF Enrich!Accepts
    <3>2. CASE ~ Enrich!Accepts
      BY <1>4, <3>2 DEF Enrich!Put
    <3> QED BY <3>1, <3>2
  <2> QED BY <2>1, <2>2, <2>3
<1>5. CASE Enrich!Take
  BY <1>5 DEF Enrich!Take
<1>6. CASE Enrich!Classify \/ Enrich!GiveUp
  <2>1. CASE Enrich!Classify
    <3>1. PICK found \in SUBSET Field : worker' = [worker EXCEPT !.pc = "apply", !.found = found]
      BY <2>1 DEF Enrich!Classify
    <3>2. worker' \in [pc : {"get", "classify", "apply"}, job : 0..rows, found : SUBSET Field]
      BY <3>1
    <3> QED BY <2>1, <3>2 DEF Enrich!Classify
  <2>2. CASE Enrich!GiveUp
    BY <2>2 DEF Enrich!GiveUp, Enrich!Waiting
  <2> QED BY <1>6, <2>1, <2>2
<1>7. CASE Enrich!Apply
  BY <1>7 DEF Enrich!Apply, Enrich!Updated, Enrich!Waiting
<1>8. CASE Enrich!Toggle
  BY <1>8 DEF Enrich!Toggle
<1>9. CASE Enrich!Restart
  BY <1>9 DEF Enrich!Restart, Enrich!Idle, Enrich!Waiting
<1> QED BY <1>1, <1>2, <1>3, <1>4, <1>5, <1>6, <1>7, <1>8, <1>9 DEF Enrich!Next, Enrich!Work

LEMMA EnrichOrderStep ==
  ASSUME Enrich!EnrichmentAssumption, Enrich!TypeOK, HoldsRows, LabelsInOrder, [Enrich!Next]_enrichVars
  PROVE  LabelsInOrder' /\ (~ raced' => \A f \in Field : label'[f] >= label[f])
<1>0. /\ queue \in Seq(Nat) /\ Len(queue) \in Nat /\ \A i \in 1..Len(queue) : queue[i] \in Nat
      /\ latest \in Nat /\ worker.job \in Nat /\ \A f \in Field : label[f] \in Nat
  BY DEF Enrich!TypeOK, Enrich!EnrichmentAssumption
<1>1. CASE UNCHANGED <<queue, worker, label, raced, latest>>
  BY <1>0, <1>1 DEF LabelsInOrder, Held
<1>2. ASSUME NEW t \in Turn, Enrich!Put(t), ~ UNCHANGED queue
      PROVE  LabelsInOrder' /\ (~ raced' => \A f \in Field : label'[f] >= label[f])
  <2> DEFINE n == turn[t].id
  <2>1. n \in Nat /\ queue' = Append(queue, n) /\ latest' = n /\ raced' = (raced \/ n < latest)
        /\ UNCHANGED <<worker, label>>
    BY <1>2 DEF Enrich!Put, HoldsRows, Enrich!TypeOK, Enrich!EnrichmentAssumption
  <2> HIDE DEF n
  <2>2. Len(queue') = Len(queue) + 1 /\ queue'[Len(queue) + 1] = n
        /\ \A i \in 1..Len(queue) : queue'[i] = queue[i]
    BY <1>0, <2>1
  <2>3. ASSUME ~ raced' PROVE ~ raced /\ latest <= n
    <3>1. ~ raced /\ ~ (n < latest)
      BY <2>1, <2>3
    <3> QED BY <1>0, <2>1, <3>1
  <2>4. \A i \in 1..Len(queue') : i \in 1..Len(queue) \/ i = Len(queue) + 1
    BY <1>0, <2>2
  <2>5. ASSUME ~ raced' PROVE \A i \in 1..Len(queue') : queue'[i] <= latest' /\ queue'[i] \in Nat
    BY <1>0, <2>1, <2>2, <2>3, <2>4, <2>5 DEF LabelsInOrder
  <2>6. ASSUME ~ raced' PROVE \A i, j \in 1..Len(queue') : i <= j => queue'[i] <= queue'[j]
    BY <1>0, <2>1, <2>2, <2>3, <2>4, <2>5, <2>6 DEF LabelsInOrder
  <2>7. ASSUME ~ raced' PROVE \A f \in Field : label[f] <= n /\ \A i \in 1..Len(queue') : label[f] <= queue'[i]
    BY <1>0, <2>1, <2>2, <2>3, <2>4, <2>7 DEF LabelsInOrder
  <2>8. ASSUME ~ raced', Held PROVE worker.job <= n /\ \A i \in 1..Len(queue') : worker.job <= queue'[i]
    BY <1>0, <2>1, <2>2, <2>3, <2>4, <2>8 DEF LabelsInOrder
  <2>9. LabelsInOrder'
    BY <2>1, <2>3, <2>5, <2>6, <2>7, <2>8 DEF LabelsInOrder, Held
  <2> QED BY <1>0, <2>1, <2>9
<1>3. CASE Enrich!Take
  <2>1. queue # <<>> /\ worker'.job = queue[1] /\ queue' = Tail(queue) /\ UNCHANGED <<label, raced, latest>>
    BY <1>0, <1>3 DEF Enrich!Take
  <2>2. Len(queue) >= 1 /\ Len(queue') = Len(queue) - 1 /\ \A i \in 1..Len(queue') : queue'[i] = queue[i + 1]
    BY <1>0, <2>1
  <2> QED BY <1>0, <2>1, <2>2 DEF LabelsInOrder, Held
<1>4. CASE Enrich!Classify \/ Enrich!GiveUp
  <2>1. worker.pc = "classify" /\ worker'.pc \in {"apply", "get"} /\ (worker'.pc = "apply" => worker'.job = worker.job)
        /\ UNCHANGED <<queue, label, raced, latest>>
    <3>1. CASE Enrich!Classify
      <4>1. PICK found : worker' = [worker EXCEPT !.pc = "apply", !.found = found]
        BY <3>1 DEF Enrich!Classify
      <4>2. worker'.pc = "apply" /\ worker'.job = worker.job
        BY <4>1 DEF Enrich!TypeOK
      <4> QED BY <3>1, <4>2 DEF Enrich!Classify
    <3>2. CASE Enrich!GiveUp
      BY <3>2 DEF Enrich!GiveUp, Enrich!Waiting
    <3> QED BY <1>4, <3>1, <3>2
  <2> QED BY <1>0, <2>1 DEF LabelsInOrder, Held
<1>5. CASE Enrich!Apply
  <2>1. worker.pc = "apply" /\ worker'.pc = "get" /\ UNCHANGED <<queue, raced, latest>>
        /\ \A f \in Field : label'[f] = label[f] \/ label'[f] = worker.job
    BY <1>5 DEF Enrich!Apply, Enrich!Waiting, Enrich!Updated
  <2>2. worker.pc # "get" /\ ~ Held'
    BY <2>1 DEF Held
  <2>3. ASSUME ~ raced, NEW f \in Field
        PROVE  /\ label'[f] >= label[f] /\ label'[f] <= latest
               /\ \A i \in 1..Len(queue) : label'[f] <= queue[i]
    BY <1>0, <2>1, <2>2, <2>3 DEF LabelsInOrder, Held
  <2> QED BY <2>1, <2>2, <2>3 DEF LabelsInOrder
<1>6. CASE Enrich!Restart
  <2>1. queue' = <<>> /\ worker'.pc = "get" /\ UNCHANGED <<label, raced, latest>>
    BY <1>6 DEF Enrich!Restart, Enrich!Waiting
  <2> QED BY <1>0, <2>1 DEF LabelsInOrder, Held
<1> QED
  BY <1>1, <1>2, <1>3, <1>4, <1>5, <1>6
     DEF Enrich!Next, Enrich!Work, enrichVars, Enrich!Insert, Enrich!ReadFlag, Enrich!Put, Enrich!Toggle

LEMMA EnrichStep == ASSUME Enrich!EnrichmentAssumption, EnrichInv, [Enrich!Next]_enrichVars PROVE EnrichInv'
BY EnrichTypeStep, EnrichOrderStep DEF EnrichInv

-----------------------------------------------------------------------------
(* FormAlerts.  An alert is in the job store, with a scheduler or in a pool.  A
   process has the alert once its pool does, or it has mailed it.             *)
HasIt(p, a) == pool[p][a] \in {"waiting", "mailing"} \/ mails[p][a] > 0
HandedOver(a) == \E p \in Process : sched[p][a] = "handed"
Excused(a) == badTill > dueAt[a]
Cared(a) == Excused(a) \/ \E p \in Process : HasIt(p, a)

(* Until the form is submitted its alerts are nowhere.                        *)
Fresh(a) ==
  forms[a[1]] \in {"idle", "uploading"} =>
    /\ a \notin jobs /\ a \notin met
    /\ \A p \in Process : sched[p][a] = "none" /\ pool[p][a] = "none" /\ mails[p][a] = 0

(* A process takes an alert from the store once for each time it runs.        *)
Placed(p, a) ==
  /\ sched[p][a] # "none" => p \in lives
  /\ pool[p][a] # "none" => p \in up
  /\ sched[p][a] = "found" => pool[p][a] = "none"
  /\ a \in jobs /\ pool[p][a] # "none" => sched[p][a] = "handed"
  /\ \/ sched[p][a] = "found"
     \/ a \in jobs /\ sched[p][a] # "handed"
     \/ pool[p][a] \in {"waiting", "mailing"}
     => mails[p][a] <= stops
  /\ mails[p][a] <= stops + 1
  /\ \A b \in Alerts!Alert : sched[p][a] = "handed" /\ sched[p][b] = "handed" => a = b

(* Unless two schedulers met, one process at most takes it, and from the store. *)
Single(a) ==
  a \notin met =>
    /\ \A p, q \in Process : sched[p][a] # "none" /\ sched[q][a] # "none" => p = q
    /\ \A p \in Process : sched[p][a] # "none" => a \in jobs
    /\ a \in jobs /\ ~ HandedOver(a) => \A p \in Process : ~ HasIt(p, a)
    /\ \A p, q \in Process : HasIt(p, a) /\ HasIt(q, a) => p = q
    /\ \A p, q \in Process : sched[p][a] = "handed" /\ HasIt(q, a) => p = q
    /\ \A p \in Process : /\ mails[p][a] <= 1
                          /\ pool[p][a] \in {"waiting", "mailing"} => mails[p][a] = 0

(* The clock passes the time of an alert on its way only while a process or its
   scheduler is down or the threads are busy.                                 *)
OnTime(a) ==
  /\ \A p \in Process : sched[p][a] # "none" \/ pool[p][a] # "none" => dueAt[a] <= minute
  /\ \/ a \in jobs
     \/ \E p \in Process : sched[p][a] # "none" \/ pool[p][a] = "waiting"
     => minute <= dueAt[a] \/ Excused(a)

NotLost(a) ==
  /\ forms[a[1]] = "accepted" => a \in jobs \/ Cared(a)
  /\ HandedOver(a) => Cared(a)

AlertInv(a) ==
  Fresh(a) /\ (\A p \in Process : Placed(p, a)) /\ Single(a) /\ OnTime(a) /\ NotLost(a)

AlertsInv ==
  /\ Alerts!TypeOK /\ badTill <= minute + 1
  /\ \A a \in Alerts!Alert : AlertInv(a)

LEMMA AlertsTyped ==
  ASSUME Alerts!AlertsAssumption, Alerts!TypeOK
  PROVE  /\ minute \in Nat /\ stops \in Nat /\ badTill \in Nat /\ Delay \in Nat /\ Grace \in Nat
         /\ lives \subseteq up /\ up \subseteq Process /\ jobs \subseteq Alerts!Alert
         /\ talked \in BOOLEAN /\ dueAt \in [Alerts!Alert -> Nat]
         /\ forms \in [Form -> {"idle", "uploading", "accepted", "failed"}]
         /\ sched \in [Process -> [Alerts!Alert -> {"none", "found", "handed"}]]
         /\ pool \in [Process -> [Alerts!Alert -> {"none", "waiting", "mailing", "keeping"}]]
         /\ mails \in [Process -> [Alerts!Alert -> Nat]] /\ met \subseteq Alerts!Alert
         /\ \A a \in Alerts!Alert : /\ a[1] \in Form /\ dueAt[a] \in Nat
                                    /\ \A p \in Process : mails[p][a] \in Nat
<1>1. \A a \in Alerts!Alert : a[1] \in Form
  BY DEF Alerts!Alert
<1>2. /\ minute \in 0..MaxMinute /\ stops \in 0..MaxStop /\ MaxMinute \in Nat /\ MaxStop \in Nat
      /\ Delay \in Nat /\ Grace \in Nat
  BY DEF Alerts!AlertsAssumption, Alerts!TypeOK, Alerts!Minutes
<1> QED BY <1>1, <1>2 DEF Alerts!TypeOK

(* Changing one alert of one process.                                         *)
LEMMA AlertSet ==
  ASSUME NEW S, NEW F \in [Process -> [Alerts!Alert -> S]], NEW p \in Process,
         NEW b \in Alerts!Alert, NEW v \in S
  PROVE  /\ [F EXCEPT ![p][b] = v] \in [Process -> [Alerts!Alert -> S]]
         /\ \A q \in Process, a \in Alerts!Alert :
              [F EXCEPT ![p][b] = v][q][a] = IF q = p /\ a = b THEN v ELSE F[q][a]
OBVIOUS

LEMMA AlertsInit == ASSUME Alerts!AlertsAssumption, Alerts!Init PROVE AlertsInv
<1>1. /\ minute = 0 /\ stops = 0 /\ badTill = 0 /\ up = Process /\ lives = Process /\ talked = FALSE
      /\ jobs = {} /\ met = {} /\ 0 \in 0..MaxMinute /\ 0 \in 0..MaxStop
  BY DEF Alerts!Init, Alerts!AlertsAssumption
<1>2. /\ sched \in [Process -> [Alerts!Alert -> {"none", "found", "handed"}]]
      /\ pool \in [Process -> [Alerts!Alert -> {"none", "waiting", "mailing", "keeping"}]]
      /\ mails \in [Process -> [Alerts!Alert -> Nat]] /\ dueAt \in [Alerts!Alert -> Nat]
      /\ forms \in [Form -> {"idle", "uploading", "accepted", "failed"}]
  BY DEF Alerts!Init, Alerts!Nowhere
<1>3. \A a \in Alerts!Alert : /\ forms[a[1]] = "idle"
                              /\ \A p \in Process : sched[p][a] = "none" /\ pool[p][a] = "none" /\ mails[p][a] = 0
  BY DEF Alerts!Init, Alerts!Nowhere, Alerts!Alert
<1>4. Alerts!TypeOK
  BY <1>1, <1>2 DEF Alerts!TypeOK, Alerts!Minutes
<1>5. ASSUME NEW a \in Alerts!Alert PROVE AlertInv(a)
  BY <1>1, <1>3 DEF AlertInv, Fresh, Placed, Single, OnTime, NotLost, HasIt, HandedOver
<1> QED BY <1>1, <1>4, <1>5 DEF AlertsInv

(* Steps that move no alert.                                                 *)
LEMMA AlertsRest ==
  ASSUME Alerts!AlertsAssumption, AlertsInv,
         \/ Alerts!Chat \/ \E p \in Process : Alerts!Restart(p)
         \/ \E f \in Form : Alerts!Submit(f)
  PROVE  AlertsInv'
<1>1. /\ UNCHANGED <<minute, stops, jobs, dueAt, sched, pool, mails, met, badTill>>
      /\ talked' \in BOOLEAN /\ lives \subseteq lives' /\ up \subseteq up'
      /\ lives' \subseteq up' /\ up' \subseteq Process
      /\ forms' \in [Form -> {"idle", "uploading", "accepted", "failed"}]
      /\ \A f \in Form : /\ forms'[f] \in {"idle", "uploading"} => forms[f] \in {"idle", "uploading"}
                         /\ forms'[f] = "accepted" => forms[f] = "accepted"
  <2>1. /\ forms \in [Form -> {"idle", "uploading", "accepted", "failed"}]
        /\ lives \subseteq up /\ up \subseteq Process /\ talked \in BOOLEAN
    BY DEF AlertsInv, Alerts!TypeOK
  <2>2. CASE Alerts!Chat
    BY <2>1, <2>2 DEF Alerts!Chat
  <2>3. ASSUME NEW p \in Process, Alerts!Restart(p) PROVE <1>1!:
    BY <2>1, <2>3 DEF Alerts!Restart
  <2>4. ASSUME NEW f \in Form, Alerts!Submit(f) PROVE <1>1!:
    BY <2>1, <2>4 DEF Alerts!Submit
  <2> QED BY <2>2, <2>3, <2>4
<1>2. Alerts!TypeOK'
  BY <1>1 DEF AlertsInv, Alerts!TypeOK, Alerts!Minutes, Alerts!Alert
<1>3. ASSUME NEW a \in Alerts!Alert PROVE AlertInv(a)'
  <2>1. AlertInv(a) /\ a[1] \in Form
    BY DEF AlertsInv, Alerts!Alert
  <2>2. Fresh(a)' /\ Single(a)' /\ OnTime(a)' /\ NotLost(a)'
    BY <1>1, <2>1 DEF AlertInv, Fresh, Single, OnTime, NotLost, HasIt, HandedOver, Cared, Excused
  <2>3. \A p \in Process : Placed(p, a)'
    BY <1>1, <2>1 DEF AlertInv, Placed, Alerts!Alert
  <2> QED BY <2>2, <2>3 DEF AlertInv
<1> QED BY <1>1, <1>2, <1>3 DEF AlertsInv, Alerts!Alert

LEMMA AlertsSchedule ==
  ASSUME Alerts!AlertsAssumption, AlertsInv, NEW f \in Form, Alerts!Schedule(f) PROVE AlertsInv'
<1>1. PICK done \in SUBSET Listed[f], answer \in {"accepted", "failed"} :
        /\ answer = "accepted" => done = Listed[f]
        /\ forms' = [forms EXCEPT ![f] = answer]
        /\ jobs' = jobs \cup Alerts!Of(f, done)
        /\ dueAt' = [a \in Alerts!Alert |-> IF a \in Alerts!Of(f, done) THEN Alerts!DueTime ELSE dueAt[a]]
  BY DEF Alerts!Schedule
<1>0. PICK new : new = Alerts!Of(f, done)
  OBVIOUS
<1>2. /\ UNCHANGED <<minute, stops, up, lives, talked, sched, pool, mails, met, badTill>>
      /\ forms[f] = "uploading"
  BY DEF Alerts!Schedule
<1>3. /\ forms \in [Form -> {"idle", "uploading", "accepted", "failed"}] /\ minute \in Nat
      /\ jobs \subseteq Alerts!Alert /\ dueAt \in [Alerts!Alert -> Nat] /\ Delay \in Nat
  BY AlertsTyped DEF AlertsInv
<1>4. PICK at : at = Alerts!DueTime
  OBVIOUS
<1>5. at \in Nat /\ minute <= at
  BY <1>3, <1>4 DEF Alerts!DueTime
<1>6. /\ new \subseteq Alerts!Alert
      /\ \A a \in Alerts!Alert : /\ a[1] \in Form /\ (a \in new => a[1] = f)
                                 /\ a[1] = f /\ answer = "accepted" => a \in new
                                 /\ dueAt'[a] = IF a \in new THEN at ELSE dueAt[a]
  BY <1>0, <1>1, <1>4 DEF Alerts!Alert, Alerts!Of
<1>7. forms'[f] = answer /\ \A g \in Form \ {f} : forms'[g] = forms[g]
  BY <1>1, <1>3
<1>8. jobs' = jobs \cup new
  BY <1>0, <1>1
<1>9. Alerts!TypeOK'
  <2>1. /\ forms' \in [Form -> {"idle", "uploading", "accepted", "failed"}] /\ jobs' \subseteq Alerts!Alert
        /\ dueAt' \in [Alerts!Alert -> Nat]
    BY <1>0, <1>1, <1>3, <1>4, <1>5, <1>6, <1>8
  <2> QED BY <1>2, <2>1 DEF AlertsInv, Alerts!TypeOK, Alerts!Minutes, Alerts!Alert
<1>10. ASSUME NEW a \in Alerts!Alert PROVE AlertInv(a)'
  <2>1. AlertInv(a) /\ a[1] \in Form
    BY <1>6 DEF AlertsInv
  <2>2. CASE a[1] = f
    <3>1. /\ \A p \in Process : sched[p][a] = "none" /\ pool[p][a] = "none" /\ mails[p][a] = 0
          /\ a \notin jobs /\ a \notin met
      BY <1>2, <2>1, <2>2 DEF AlertInv, Fresh
    <3>2. forms'[a[1]] = answer /\ (a \in jobs' <=> a \in new) /\ (answer = "accepted" => a \in jobs')
      BY <1>6, <1>7, <1>8, <2>2, <3>1
    <3>3. Fresh(a)' /\ Single(a)' /\ NotLost(a)'
      BY <1>2, <3>1, <3>2 DEF Fresh, Single, NotLost, HasIt, HandedOver
    <3>4. OnTime(a)'
      BY <1>2, <1>5, <1>6, <3>1, <3>2 DEF OnTime
    <3>5. \A p \in Process : Placed(p, a)'
      <4>1. stops \in Nat
        BY AlertsTyped DEF AlertsInv
      <4> QED BY <1>2, <3>1, <4>1 DEF Placed
    <3> QED BY <3>3, <3>4, <3>5 DEF AlertInv
  <2>3. CASE a[1] # f
    <3>1. forms'[a[1]] = forms[a[1]] /\ (a \in jobs' <=> a \in jobs) /\ dueAt'[a] = dueAt[a]
      BY <1>6, <1>7, <1>8, <2>1, <2>3
    <3>2. Fresh(a)' /\ Single(a)' /\ OnTime(a)' /\ NotLost(a)'
      BY <1>2, <2>1, <3>1 DEF AlertInv, Fresh, Single, OnTime, NotLost, HasIt, HandedOver, Cared, Excused
    <3>3. \A p \in Process : Placed(p, a)'
      BY <1>2, <2>1, <3>1 DEF AlertInv, Placed, Alerts!Alert
    <3> QED BY <3>2, <3>3 DEF AlertInv
  <2> QED BY <2>2, <2>3
<1> QED BY <1>2, <1>9, <1>10 DEF AlertsInv, Alerts!Alert

LEMMA AlertsPoll ==
  ASSUME Alerts!AlertsAssumption, AlertsInv, NEW p \in Process, Alerts!Poll(p) PROVE AlertsInv'
<1>0. PICK ready : ready = {a \in jobs : dueAt[a] <= minute}
  OBVIOUS
<1>1. /\ UNCHANGED <<minute, stops, up, lives, forms, talked, jobs, dueAt, pool, mails, badTill>>
      /\ p \in lives
      /\ sched' = [sched EXCEPT ![p] = [a \in Alerts!Alert |-> IF a \in ready THEN "found" ELSE "none"]]
      /\ met' = met \cup {a \in ready : Alerts!OtherHas(p, a)}
  BY <1>0 DEF Alerts!Poll
<1>2. /\ jobs \subseteq Alerts!Alert /\ met \subseteq Alerts!Alert
      /\ sched \in [Process -> [Alerts!Alert -> {"none", "found", "handed"}]]
      /\ \A a \in Alerts!Alert : sched[p][a] = "none"
  BY AlertsTyped DEF AlertsInv, Alerts!Poll, Alerts!Busy
<1>3. /\ ready \subseteq jobs /\ \A a \in ready : dueAt[a] <= minute
      /\ sched' \in [Process -> [Alerts!Alert -> {"none", "found", "handed"}]]
      /\ \A q \in Process, a \in Alerts!Alert :
           sched'[q][a] = IF q = p /\ a \in ready THEN "found" ELSE sched[q][a]
  BY <1>0, <1>1, <1>2
<1>4. Alerts!TypeOK'
  <2>1. met' \subseteq Alerts!Alert
    BY <1>1, <1>2, <1>3
  <2> QED BY <1>1, <1>3, <2>1 DEF AlertsInv, Alerts!TypeOK, Alerts!Minutes, Alerts!Alert
<1>5. ASSUME NEW a \in Alerts!Alert PROVE AlertInv(a)'
  <2>1. AlertInv(a) /\ a[1] \in Form
    BY DEF AlertsInv, Alerts!Alert
  <2>2. HandedOver(a)' <=> HandedOver(a)
    BY <1>2, <1>3 DEF HandedOver
  <2>3. \A q \in Process : HasIt(q, a)' <=> HasIt(q, a)
    BY <1>1 DEF HasIt
  <2>4. NotLost(a)'
    BY <1>1, <2>1, <2>2, <2>3 DEF AlertInv, NotLost, Cared, Excused
  <2>5. Fresh(a)'
    BY <1>1, <1>3, <2>1 DEF AlertInv, Fresh
  <2>6. OnTime(a)'
    BY <1>1, <1>3, <2>1 DEF AlertInv, OnTime, Excused
  <2>7. ASSUME NEW q \in Process PROVE Placed(q, a)'
    <3>1. Placed(q, a)
      BY <2>1 DEF AlertInv
    <3>2. \A b \in Alerts!Alert : sched'[q][b] = "handed" <=> sched[q][b] = "handed"
      BY <1>2, <1>3
    <3>3. \/ sched'[q][a] = sched[q][a]
          \/ q = p /\ a \in jobs /\ sched[q][a] = "none" /\ sched'[q][a] = "found"
      <4>1. CASE q = p /\ a \in ready
        BY <1>2, <1>3, <4>1
      <4>2. CASE ~ (q = p /\ a \in ready)
        BY <1>3, <4>2
      <4> QED BY <4>1, <4>2
    <3> QED BY <1>1, <3>1, <3>2, <3>3 DEF Placed, Alerts!Alert
  <2>8. Single(a)'
    <3>1. SUFFICES ASSUME a \notin met' PROVE Single(a)'
      BY DEF Single
    <3>2. a \notin met
      BY <1>1, <3>1
    <3>3. a \in ready => \A q \in Process \ {p} : sched[q][a] = "none"
      BY <1>1, <3>1 DEF Alerts!OtherHas
    <3>4. /\ \A q, r \in Process : sched'[q][a] # "none" /\ sched'[r][a] # "none" => q = r
          /\ \A q \in Process : sched'[q][a] # "none" => a \in jobs
      BY <1>3, <2>1, <3>2, <3>3 DEF AlertInv, Single
    <3>5. \A q \in Process : sched'[q][a] = "handed" <=> sched[q][a] = "handed"
      BY <1>2, <1>3
    <3> QED BY <1>1, <2>1, <2>2, <2>3, <3>2, <3>4, <3>5 DEF AlertInv, Single
  <2> QED BY <2>4, <2>5, <2>6, <2>7, <2>8 DEF AlertInv
<1> QED BY <1>1, <1>4, <1>5 DEF AlertsInv, Alerts!Alert

LEMMA AlertsHand ==
  ASSUME Alerts!AlertsAssumption, AlertsInv, NEW p \in Process, NEW b \in Alerts!Alert, Alerts!Hand(p, b)
  PROVE  AlertsInv'
<1>1. /\ UNCHANGED <<minute, stops, up, lives, forms, talked, jobs, dueAt, mails, met, badTill>>
      /\ p \in lives /\ sched[p][b] = "found" /\ \A a \in Alerts!Alert : sched[p][a] # "handed"
      /\ sched' = [sched EXCEPT ![p][b] = "handed"]
      /\ pool' = [pool EXCEPT ![p][b] = "waiting"]
  BY DEF Alerts!Hand
<1>2. /\ lives \subseteq up /\ up \subseteq Process /\ stops \in Nat
      /\ sched \in [Process -> [Alerts!Alert -> {"none", "found", "handed"}]]
      /\ pool \in [Process -> [Alerts!Alert -> {"none", "waiting", "mailing", "keeping"}]]
      /\ \A q \in Process, a \in Alerts!Alert : mails[q][a] \in Nat
  BY AlertsTyped DEF AlertsInv
<1>3. /\ sched' \in [Process -> [Alerts!Alert -> {"none", "found", "handed"}]]
      /\ pool' \in [Process -> [Alerts!Alert -> {"none", "waiting", "mailing", "keeping"}]]
      /\ \A q \in Process, a \in Alerts!Alert :
           /\ sched'[q][a] = IF q = p /\ a = b THEN "handed" ELSE sched[q][a]
           /\ pool'[q][a] = IF q = p /\ a = b THEN "waiting" ELSE pool[q][a]
  BY <1>1, <1>2, AlertSet
<1>4. Alerts!TypeOK'
  BY <1>1, <1>3 DEF AlertsInv, Alerts!TypeOK, Alerts!Minutes, Alerts!Alert
<1>5. ASSUME NEW a \in Alerts!Alert PROVE AlertInv(a)'
  <2>1. AlertInv(a) /\ a[1] \in Form
    BY DEF AlertsInv, Alerts!Alert
  <2>2. /\ \A q \in Process : HasIt(q, a)' <=> HasIt(q, a) \/ (q = p /\ a = b)
        /\ HandedOver(a)' <=> (HandedOver(a) \/ a = b)
    BY <1>1, <1>3 DEF HasIt, HandedOver
  <2>3. NotLost(a)'
    BY <1>1, <2>1, <2>2 DEF AlertInv, NotLost, Cared, Excused
  <2>4. Fresh(a)'
    BY <1>1, <1>3, <2>1 DEF AlertInv, Fresh
  <2>5. OnTime(a)'
    BY <1>1, <1>3, <2>1 DEF AlertInv, OnTime, Excused
  <2>6. ASSUME NEW q \in Process PROVE Placed(q, a)'
    <3>1. Placed(q, a)
      BY <2>1 DEF AlertInv
    <3>2. \A c \in Alerts!Alert : sched'[q][a] = "handed" /\ sched'[q][c] = "handed" => a = c
      BY <1>1, <1>3, <3>1 DEF Placed
    <3> QED BY <1>1, <1>2, <1>3, <3>1, <3>2 DEF Placed, Alerts!Alert
  <2>7. Single(a)'
    <3>1. CASE a # b
      <4>1. /\ \A q \in Process : /\ sched'[q][a] = sched[q][a] /\ pool'[q][a] = pool[q][a]
                                  /\ HasIt(q, a)' <=> HasIt(q, a)
            /\ HandedOver(a)' <=> HandedOver(a)
        BY <1>3, <2>2, <3>1
      <4> QED BY <1>1, <2>1, <4>1 DEF AlertInv, Single
    <3>2. CASE a = b /\ a \notin met
      <4>1. /\ \A q \in Process : sched[q][a] # "none" => q = p
            /\ a \in jobs /\ ~ HandedOver(a)
        BY <1>1, <2>1, <3>2 DEF AlertInv, Single, HandedOver
      <4>2. \A q \in Process : ~ HasIt(q, a)
        BY <2>1, <3>2, <4>1 DEF AlertInv, Single
      <4>3. \A q \in Process : mails[q][a] = 0
        BY <1>2, <4>2 DEF HasIt
      <4>4. \A q \in Process : (HasIt(q, a)' => q = p) /\ (sched'[q][a] # "none" => q = p)
        BY <1>3, <2>2, <4>1, <4>2
      <4> QED BY <1>1, <2>2, <3>2, <4>1, <4>3, <4>4 DEF Single
    <3> QED BY <1>1, <3>1, <3>2 DEF Single
  <2> QED BY <2>3, <2>4, <2>5, <2>6, <2>7 DEF AlertInv
<1> QED BY <1>1, <1>4, <1>5 DEF AlertsInv, Alerts!Alert

LEMMA AlertsRemove ==
  ASSUME Alerts!AlertsAssumption, AlertsInv, NEW p \in Process, NEW b \in Alerts!Alert, Alerts!Remove(p, b)
  PROVE  AlertsInv'
<1>1. /\ UNCHANGED <<minute, stops, up, forms, talked, dueAt, pool, mails, met, badTill>>
      /\ sched[p][b] = "handed"
  BY DEF Alerts!Remove
<1>2. /\ lives \subseteq up /\ jobs \subseteq Alerts!Alert
      /\ sched \in [Process -> [Alerts!Alert -> {"none", "found", "handed"}]]
  BY AlertsTyped DEF AlertsInv
<1>3. CASE b \in jobs
  <2>1. jobs' = jobs \ {b} /\ sched' = [sched EXCEPT ![p][b] = "none"] /\ UNCHANGED lives
    BY <1>3 DEF Alerts!Remove
  <2>2. /\ sched' \in [Process -> [Alerts!Alert -> {"none", "found", "handed"}]]
        /\ \A q \in Process, a \in Alerts!Alert :
             sched'[q][a] = IF q = p /\ a = b THEN "none" ELSE sched[q][a]
    BY <1>2, <2>1, AlertSet
  <2>3. Alerts!TypeOK'
    BY <1>1, <2>1, <2>2 DEF AlertsInv, Alerts!TypeOK, Alerts!Minutes, Alerts!Alert
  <2>4. ASSUME NEW a \in Alerts!Alert PROVE AlertInv(a)'
    <3>1. AlertInv(a) /\ a[1] \in Form
      BY DEF AlertsInv, Alerts!Alert
    <3>2. /\ \A q \in Process : HasIt(q, a)' <=> HasIt(q, a)
          /\ HandedOver(a)' => HandedOver(a)
          /\ a \in jobs' => a \in jobs /\ a # b /\ (HandedOver(a)' <=> HandedOver(a))
      BY <1>1, <2>1, <2>2 DEF HasIt, HandedOver
    <3>3. NotLost(a)'
      <4>1. a = b => HandedOver(a)
        BY <1>1 DEF HandedOver
      <4>2. Cared(a)' <=> Cared(a)
        BY <1>1, <3>2 DEF Cared, Excused
      <4> QED BY <1>1, <2>1, <3>1, <3>2, <4>1, <4>2 DEF AlertInv, NotLost
    <3>4. Fresh(a)' /\ OnTime(a)'
      BY <1>1, <2>1, <2>2, <3>1 DEF AlertInv, Fresh, OnTime, Excused
    <3>5. ASSUME NEW q \in Process PROVE Placed(q, a)'
      <4>1. Placed(q, a)
        BY <3>1 DEF AlertInv
      <4>2. \A c \in Alerts!Alert : sched'[q][c] = "handed" => sched[q][c] = "handed"
        BY <2>2
      <4>3. a \in jobs' => a \in jobs /\ sched'[q][a] = sched[q][a]
        BY <2>1, <2>2
      <4>4. sched'[q][a] \in {"none", sched[q][a]}
        BY <2>2
      <4> QED BY <1>1, <2>1, <4>1, <4>2, <4>3, <4>4 DEF Placed, Alerts!Alert
    <3>6. Single(a)'
      <4>1. a \notin met => \A q \in Process : sched'[q][a] # "none" => a \in jobs'
        BY <1>1, <2>1, <2>2, <3>1 DEF AlertInv, Single
      <4>2. \A q \in Process : sched'[q][a] # "none" => sched'[q][a] = sched[q][a]
        BY <2>2
      <4> QED BY <1>1, <3>1, <3>2, <4>1, <4>2 DEF AlertInv, Single
    <3> QED BY <3>3, <3>4, <3>5, <3>6 DEF AlertInv
  <2> QED BY <1>1, <2>3, <2>4 DEF AlertsInv, Alerts!Alert
<1>4. CASE b \notin jobs
  <2>1. lives' = lives \ {p} /\ UNCHANGED jobs /\ sched' = [sched EXCEPT ![p] = Alerts!Nowhere]
    BY <1>4 DEF Alerts!Remove
  <2>2. /\ sched' \in [Process -> [Alerts!Alert -> {"none", "found", "handed"}]]
        /\ \A q \in Process, a \in Alerts!Alert :
             sched'[q][a] = IF q = p THEN "none" ELSE sched[q][a]
    BY <1>2, <2>1 DEF Alerts!Nowhere
  <2>3. Alerts!TypeOK'
    BY <1>1, <1>2, <2>1, <2>2 DEF AlertsInv, Alerts!TypeOK, Alerts!Minutes, Alerts!Alert
  <2>4. ASSUME NEW a \in Alerts!Alert PROVE AlertInv(a)'
    <3>1. AlertInv(a) /\ AlertInv(b) /\ a[1] \in Form
      BY DEF AlertsInv, Alerts!Alert
    <3>2. a # b => sched[p][a] # "handed"
      BY <1>1, <3>1 DEF AlertInv, Placed
    <3>3. /\ \A q \in Process : HasIt(q, a)' <=> HasIt(q, a)
          /\ HandedOver(a)' => HandedOver(a)
          /\ a # b => (HandedOver(a)' <=> HandedOver(a))
      BY <1>1, <2>1, <2>2, <3>2 DEF HasIt, HandedOver
    <3>4. NotLost(a)'
      BY <1>1, <2>1, <3>1, <3>3 DEF AlertInv, NotLost, Cared, Excused
    <3>5. Fresh(a)' /\ OnTime(a)'
      BY <1>1, <2>1, <2>2, <3>1 DEF AlertInv, Fresh, OnTime, Excused
    <3>6. ASSUME NEW q \in Process PROVE Placed(q, a)'
      <4>1. Placed(q, a)
        BY <3>1 DEF AlertInv
      <4>2. /\ \A c \in Alerts!Alert : sched'[q][c] = "handed" => sched[q][c] = "handed"
            /\ sched'[q][a] # "none" => sched'[q][a] = sched[q][a] /\ q # p
            /\ a \in jobs => (sched'[q][a] = "handed" <=> sched[q][a] = "handed")
        BY <1>4, <2>2, <3>2
      <4> QED BY <1>1, <2>1, <4>1, <4>2 DEF Placed, Alerts!Alert
    <3>7. Single(a)'
      <4>1. a = b => a \in met
        BY <1>1, <1>4, <3>1 DEF AlertInv, Single
      <4>2. \A q \in Process : sched'[q][a] # "none" => sched'[q][a] = sched[q][a]
        BY <2>2
      <4> QED BY <1>1, <2>1, <3>1, <3>3, <4>1, <4>2 DEF AlertInv, Single
    <3> QED BY <3>4, <3>5, <3>6, <3>7 DEF AlertInv
  <2> QED BY <1>1, <2>3, <2>4 DEF AlertsInv, Alerts!Alert
<1> QED BY <1>3, <1>4

LEMMA AlertsStart ==
  ASSUME Alerts!AlertsAssumption, AlertsInv, NEW p \in Process, NEW b \in Alerts!Alert, Alerts!Start(p, b)
  PROVE  AlertsInv'
<1>1. /\ UNCHANGED <<minute, stops, up, lives, forms, talked, jobs, dueAt, sched, mails, met, badTill>>
      /\ p \in up /\ pool[p][b] = "waiting"
  BY DEF Alerts!Start
<1>0. PICK next \in {"none", "mailing"} :
        /\ pool' = [pool EXCEPT ![p][b] = next]
        /\ next = "none" => minute > dueAt[b] + Grace
  BY DEF Alerts!Start, Alerts!TooLate
<1>2. /\ pool \in [Process -> [Alerts!Alert -> {"none", "waiting", "mailing", "keeping"}]]
      /\ minute \in Nat /\ Grace \in Nat /\ dueAt[b] \in Nat
  BY AlertsTyped DEF AlertsInv
<1>3. /\ pool' \in [Process -> [Alerts!Alert -> {"none", "waiting", "mailing", "keeping"}]]
      /\ \A q \in Process, a \in Alerts!Alert :
           pool'[q][a] = IF q = p /\ a = b THEN next ELSE pool[q][a]
  BY <1>0, <1>2, AlertSet
<1>4. Alerts!TypeOK'
  BY <1>1, <1>3 DEF AlertsInv, Alerts!TypeOK, Alerts!Minutes, Alerts!Alert
<1>5. ASSUME NEW a \in Alerts!Alert PROVE AlertInv(a)'
  <2>1. AlertInv(a) /\ a[1] \in Form
    BY DEF AlertsInv, Alerts!Alert
  <2>2. /\ \A q \in Process : HasIt(q, a)' => HasIt(q, a)
        /\ HandedOver(a)' <=> HandedOver(a)
    BY <1>1, <1>3 DEF HasIt, HandedOver
  <2>3. Cared(a) => Cared(a)'
    <3>1. a = b /\ next = "none" => Excused(a)
      BY <1>0, <1>1, <1>2, <2>1 DEF AlertInv, OnTime
    <3>2. ~ (a = b /\ next = "none") => \A q \in Process : HasIt(q, a) => HasIt(q, a)'
      BY <1>0, <1>1, <1>3 DEF HasIt
    <3> QED BY <1>1, <3>1, <3>2 DEF Cared, Excused
  <2>4. NotLost(a)'
    BY <1>1, <2>1, <2>2, <2>3 DEF AlertInv, NotLost
  <2>5. Fresh(a)' /\ OnTime(a)'
    BY <1>1, <1>3, <2>1 DEF AlertInv, Fresh, OnTime, Excused
  <2>6. ASSUME NEW q \in Process PROVE Placed(q, a)'
    <3>1. Placed(q, a)
      BY <2>1 DEF AlertInv
    <3>2. /\ pool'[q][a] # "none" => pool[q][a] # "none"
          /\ pool'[q][a] \in {"waiting", "mailing"} => pool[q][a] \in {"waiting", "mailing"}
      BY <1>1, <1>3
    <3> QED BY <1>1, <3>1, <3>2 DEF Placed, Alerts!Alert
  <2>7. Single(a)'
    <3>1. \A q \in Process : pool'[q][a] \in {"waiting", "mailing"} => pool[q][a] \in {"waiting", "mailing"}
      BY <1>1, <1>3
    <3> QED BY <1>1, <2>1, <2>2, <3>1 DEF AlertInv, Single
  <2> QED BY <2>4, <2>5, <2>6, <2>7 DEF AlertInv
<1> QED BY <1>1, <1>4, <1>5 DEF AlertsInv, Alerts!Alert

LEMMA AlertsMail ==
  ASSUME Alerts!AlertsAssumption, AlertsInv, NEW p \in Process, NEW b \in Alerts!Alert, Alerts!Mail(p, b)
  PROVE  AlertsInv'
<1>0. PICK next \in {"keeping", "none"} : pool' = [pool EXCEPT ![p][b] = next]
  BY DEF Alerts!Mail
<1>1. /\ UNCHANGED <<minute, stops, up, lives, forms, talked, jobs, dueAt, sched, met, badTill>>
      /\ pool[p][b] = "mailing" /\ mails' = [mails EXCEPT ![p][b] = @ + 1]
  BY DEF Alerts!Mail
<1>2. /\ pool \in [Process -> [Alerts!Alert -> {"none", "waiting", "mailing", "keeping"}]]
      /\ mails \in [Process -> [Alerts!Alert -> Nat]] /\ stops \in Nat
      /\ \A q \in Process, a \in Alerts!Alert : mails[q][a] \in Nat
  BY AlertsTyped DEF AlertsInv
<1>3. /\ pool' \in [Process -> [Alerts!Alert -> {"none", "waiting", "mailing", "keeping"}]]
      /\ \A q \in Process, a \in Alerts!Alert :
           pool'[q][a] = IF q = p /\ a = b THEN next ELSE pool[q][a]
  BY <1>0, <1>2, AlertSet
<1>4. /\ mails' \in [Process -> [Alerts!Alert -> Nat]]
      /\ \A q \in Process, a \in Alerts!Alert :
           mails'[q][a] = IF q = p /\ a = b THEN mails[q][a] + 1 ELSE mails[q][a]
  <2>1. mails[p][b] + 1 \in Nat /\ mails' = [mails EXCEPT ![p][b] = mails[p][b] + 1]
    BY <1>1, <1>2
  <2> QED BY <1>2, <2>1, AlertSet
<1>5. Alerts!TypeOK'
  BY <1>1, <1>3, <1>4 DEF AlertsInv, Alerts!TypeOK, Alerts!Minutes, Alerts!Alert
<1>6. ASSUME NEW a \in Alerts!Alert PROVE AlertInv(a)'
  <2>1. AlertInv(a) /\ a[1] \in Form
    BY DEF AlertsInv, Alerts!Alert
  <2>2. /\ \A q \in Process : HasIt(q, a)' <=> HasIt(q, a)
        /\ HandedOver(a)' <=> HandedOver(a)
    BY <1>1, <1>2, <1>3, <1>4 DEF HasIt, HandedOver
  <2>3. NotLost(a)'
    BY <1>1, <2>1, <2>2 DEF AlertInv, NotLost, Cared, Excused
  <2>4. Fresh(a)' /\ OnTime(a)'
    <3>1. a = b => forms[a[1]] \notin {"idle", "uploading"}
      BY <1>1, <2>1 DEF AlertInv, Fresh
    <3>2. \A q \in Process :
            /\ (pool'[q][a] # "none") => (pool[q][a] # "none")
            /\ (pool'[q][a] = "waiting") => (pool[q][a] = "waiting")
            /\ (a # b) => (pool'[q][a] = pool[q][a] /\ mails'[q][a] = mails[q][a])
      BY <1>1, <1>3, <1>4
    <3>3. Fresh(a)'
      BY <1>1, <2>1, <3>1, <3>2 DEF AlertInv, Fresh
    <3>4. OnTime(a)'
      BY <1>1, <2>1, <3>2 DEF AlertInv, OnTime, Excused
    <3> QED BY <3>3, <3>4
  <2>5. ASSUME NEW q \in Process PROVE Placed(q, a)'
    <3>1. Placed(q, a)
      BY <2>1 DEF AlertInv
    <3>2. CASE q = p /\ a = b
      <4>1. /\ mails[q][a] <= stops /\ mails'[q][a] = mails[q][a] + 1 /\ pool'[q][a] \notin {"waiting", "mailing"}
            /\ sched[q][a] # "found" /\ (a \in jobs => sched[q][a] = "handed") /\ q \in up
        BY <1>1, <1>3, <1>4, <3>1, <3>2 DEF Placed
      <4>2. mails'[q][a] <= stops + 1
        BY <1>2, <4>1
      <4> QED BY <1>1, <3>1, <4>1, <4>2 DEF Placed, Alerts!Alert
    <3>3. CASE ~ (q = p /\ a = b)
      BY <1>1, <1>3, <1>4, <3>1, <3>3 DEF Placed, Alerts!Alert
    <3> QED BY <3>2, <3>3
  <2>6. Single(a)'
    <3>1. a \notin met => \A q \in Process : /\ mails'[q][a] <= 1
                                             /\ pool'[q][a] \in {"waiting", "mailing"} => mails'[q][a] = 0
      <4>1. ASSUME a \notin met, NEW q \in Process
            PROVE  mails'[q][a] <= 1 /\ (pool'[q][a] \in {"waiting", "mailing"} => mails'[q][a] = 0)
        <5>1. mails[q][a] <= 1 /\ (pool[q][a] \in {"waiting", "mailing"} => mails[q][a] = 0)
          BY <2>1, <4>1 DEF AlertInv, Single
        <5> QED BY <1>1, <1>3, <1>4, <5>1
      <4> QED BY <4>1
    <3> QED BY <1>1, <2>1, <2>2, <3>1 DEF AlertInv, Single
  <2> QED BY <2>3, <2>4, <2>5, <2>6 DEF AlertInv
<1> QED BY <1>1, <1>5, <1>6 DEF AlertsInv, Alerts!Alert

LEMMA AlertsKeep ==
  ASSUME Alerts!AlertsAssumption, AlertsInv, NEW p \in Process, NEW b \in Alerts!Alert, Alerts!Keep(p, b)
  PROVE  AlertsInv'
<1>1. /\ UNCHANGED <<minute, stops, up, lives, forms, jobs, dueAt, sched, mails, met, badTill>>
      /\ talked' = TRUE /\ pool[p][b] = "keeping" /\ pool' = [pool EXCEPT ![p][b] = "none"]
  BY DEF Alerts!Keep
<1>2. pool \in [Process -> [Alerts!Alert -> {"none", "waiting", "mailing", "keeping"}]]
  BY AlertsTyped DEF AlertsInv
<1>3. /\ pool' \in [Process -> [Alerts!Alert -> {"none", "waiting", "mailing", "keeping"}]]
      /\ \A q \in Process, a \in Alerts!Alert :
           pool'[q][a] = IF q = p /\ a = b THEN "none" ELSE pool[q][a]
  BY <1>1, <1>2, AlertSet
<1>4. Alerts!TypeOK'
  BY <1>1, <1>3 DEF AlertsInv, Alerts!TypeOK, Alerts!Minutes, Alerts!Alert
<1>5. ASSUME NEW a \in Alerts!Alert PROVE AlertInv(a)'
  <2>1. AlertInv(a) /\ a[1] \in Form
    BY DEF AlertsInv, Alerts!Alert
  <2>2. /\ \A q \in Process : /\ HasIt(q, a)' <=> HasIt(q, a)
                              /\ pool'[q][a] # "none" => pool[q][a] # "none"
                              /\ pool'[q][a] \in {"waiting", "mailing"} <=> pool[q][a] \in {"waiting", "mailing"}
        /\ HandedOver(a)' <=> HandedOver(a)
    BY <1>1, <1>3 DEF HasIt, HandedOver
  <2>3. NotLost(a)' /\ Single(a)'
    BY <1>1, <2>1, <2>2 DEF AlertInv, NotLost, Single, Cared, Excused
  <2>4. Fresh(a)' /\ OnTime(a)'
    BY <1>1, <1>3, <2>1, <2>2 DEF AlertInv, Fresh, OnTime, Excused
  <2>5. ASSUME NEW q \in Process PROVE Placed(q, a)'
    <3>1. Placed(q, a)
      BY <2>1 DEF AlertInv
    <3> QED BY <1>1, <1>3, <2>2, <3>1 DEF Placed, Alerts!Alert
  <2> QED BY <2>3, <2>4, <2>5 DEF AlertInv
<1> QED BY <1>1, <1>4, <1>5 DEF AlertsInv, Alerts!Alert

LEMMA AlertsPass ==
  ASSUME Alerts!AlertsAssumption, AlertsInv, Alerts!Pass PROVE AlertsInv'
<1>1. /\ UNCHANGED <<stops, up, lives, forms, talked, jobs, dueAt, sched, pool, mails, met>>
      /\ minute < MaxMinute /\ minute' = minute + 1
      /\ badTill' = IF Alerts!Sound THEN badTill ELSE minute + 1
  BY DEF Alerts!Pass
<1>2. /\ minute \in 0..MaxMinute /\ MaxMinute \in Nat /\ badTill \in Nat /\ badTill <= minute + 1
      /\ minute \in Nat /\ lives \subseteq up /\ up \subseteq Process
      /\ \A a \in Alerts!Alert : dueAt[a] \in Nat /\ ServedBy[a[1]] \in Process
  BY AlertsTyped DEF AlertsInv, Alerts!TypeOK, Alerts!AlertsAssumption, Alerts!Minutes, Alerts!Alert
<1>3. badTill' \in Nat /\ badTill' <= minute' + 1 /\ badTill' >= badTill /\ minute' \in 0..MaxMinute
  BY <1>1, <1>2
<1>4. Alerts!TypeOK'
  BY <1>1, <1>3 DEF AlertsInv, Alerts!TypeOK, Alerts!Minutes, Alerts!Alert
<1>5. ASSUME NEW a \in Alerts!Alert PROVE AlertInv(a)'
  <2>1. AlertInv(a) /\ a[1] \in Form /\ dueAt[a] \in Nat
    BY <1>2 DEF AlertsInv, Alerts!Alert
  <2>2. /\ \A q \in Process : HasIt(q, a)' <=> HasIt(q, a)
        /\ HandedOver(a)' <=> HandedOver(a)
        /\ Excused(a) => Excused(a)'
    BY <1>1, <1>2, <1>3, <2>1 DEF HasIt, HandedOver, Excused
  <2>3. Fresh(a)' /\ NotLost(a)' /\ Single(a)'
    BY <1>1, <2>1, <2>2 DEF AlertInv, Fresh, NotLost, Single, Cared
  <2>4. \A q \in Process : Placed(q, a)'
    BY <1>1, <2>1 DEF AlertInv, Placed, Alerts!Alert
  <2>5. OnTime(a)'
    <3>1. \A q \in Process : sched[q][a] = "none"
      BY <2>1 DEF Alerts!Pass, Alerts!Prompt, Alerts!Busy, AlertInv, Placed
    <3>2. a \in jobs \/ (\E q \in Process : pool[q][a] = "waiting") => ~ Alerts!Sound \/ minute < dueAt[a]
      <4>1. ASSUME a \in jobs, ~ (minute < dueAt[a]) PROVE ~ Alerts!Sound
        BY <1>2, <2>1, <4>1 DEF Alerts!Pass, Alerts!Prompt, Alerts!Sound
      <4>2. ASSUME NEW q \in Process, pool[q][a] = "waiting" PROVE ~ Alerts!Sound
        BY <2>1, <4>2 DEF Alerts!Pass, Alerts!Prompt, Alerts!Sound, AlertInv, Placed
      <4> QED BY <4>1, <4>2
    <3>3. ~ Alerts!Sound => Excused(a)' \/ minute' <= dueAt[a]
      BY <1>1, <1>2, <2>1 DEF Excused
    <3>4. minute < dueAt[a] => minute' <= dueAt[a]
      BY <1>1, <1>2, <2>1
    <3>5. \A q \in Process : pool[q][a] # "none" => dueAt[a] <= minute'
      BY <1>1, <1>2, <2>1 DEF AlertInv, OnTime
    <3> QED BY <1>1, <3>1, <3>2, <3>3, <3>4, <3>5 DEF OnTime
  <2> QED BY <2>3, <2>4, <2>5 DEF AlertInv
<1> QED BY <1>3, <1>4, <1>5 DEF AlertsInv, Alerts!Alert

LEMMA AlertsStop ==
  ASSUME Alerts!AlertsAssumption, AlertsInv, NEW p \in Process, Alerts!Stop(p) PROVE AlertsInv'
<1>1. /\ UNCHANGED <<minute, talked, jobs, dueAt, mails>>
      /\ up' = up \ {p} /\ lives' = lives \ {p} /\ stops < MaxStop /\ stops' = stops + 1
      /\ forms' = [f \in Form |-> IF ServedBy[f] = p /\ forms[f] = "uploading" THEN "failed" ELSE forms[f]]
      /\ sched' = [sched EXCEPT ![p] = Alerts!Nowhere] /\ pool' = [pool EXCEPT ![p] = Alerts!Nowhere]
      /\ met' = met \cup {a \in Alerts!Alert : sched[p][a] = "handed"}
      /\ badTill' = minute + 1
  BY DEF Alerts!Stop, Alerts!Stored
<1>2. /\ minute \in Nat /\ stops \in 0..MaxStop /\ MaxStop \in Nat /\ badTill <= minute + 1 /\ badTill \in Nat
      /\ lives \subseteq up /\ up \subseteq Process /\ met \subseteq Alerts!Alert
      /\ forms \in [Form -> {"idle", "uploading", "accepted", "failed"}]
      /\ sched \in [Process -> [Alerts!Alert -> {"none", "found", "handed"}]]
      /\ pool \in [Process -> [Alerts!Alert -> {"none", "waiting", "mailing", "keeping"}]]
      /\ \A a \in Alerts!Alert : /\ a[1] \in Form /\ dueAt[a] \in Nat
                                 /\ \A q \in Process : mails[q][a] \in Nat
  BY AlertsTyped DEF AlertsInv, Alerts!TypeOK, Alerts!AlertsAssumption
<1>3. /\ sched' \in [Process -> [Alerts!Alert -> {"none", "found", "handed"}]]
      /\ pool' \in [Process -> [Alerts!Alert -> {"none", "waiting", "mailing", "keeping"}]]
      /\ \A q \in Process, a \in Alerts!Alert :
           /\ sched'[q][a] = IF q = p THEN "none" ELSE sched[q][a]
           /\ pool'[q][a] = IF q = p THEN "none" ELSE pool[q][a]
  <2>1. /\ sched' \in [Process -> [Alerts!Alert -> {"none", "found", "handed"}]]
        /\ \A q \in Process, a \in Alerts!Alert : sched'[q][a] = IF q = p THEN "none" ELSE sched[q][a]
    BY <1>1, <1>2 DEF Alerts!Nowhere
  <2>2. /\ pool' \in [Process -> [Alerts!Alert -> {"none", "waiting", "mailing", "keeping"}]]
        /\ \A q \in Process, a \in Alerts!Alert : pool'[q][a] = IF q = p THEN "none" ELSE pool[q][a]
    BY <1>1, <1>2 DEF Alerts!Nowhere
  <2> QED BY <2>1, <2>2
<1>4. /\ forms' \in [Form -> {"idle", "uploading", "accepted", "failed"}]
      /\ \A f \in Form : /\ forms'[f] \in {"idle", "uploading"} => forms[f] \in {"idle", "uploading"}
                         /\ forms'[f] = "accepted" => forms[f] = "accepted"
  BY <1>1, <1>2
<1>5. stops' \in 0..MaxStop /\ badTill' \in Nat /\ lives' \subseteq up' /\ up' \subseteq Process
      /\ met' \subseteq Alerts!Alert
  BY <1>1, <1>2
<1>6. Alerts!TypeOK'
  BY <1>1, <1>3, <1>4, <1>5 DEF AlertsInv, Alerts!TypeOK, Alerts!Minutes, Alerts!Alert
<1>7. ASSUME NEW a \in Alerts!Alert PROVE AlertInv(a)'
  <2>1. AlertInv(a) /\ a[1] \in Form /\ dueAt[a] \in Nat
    BY <1>2 DEF AlertsInv
  <2>2. /\ \A q \in Process : HasIt(q, a)' => HasIt(q, a)
        /\ HandedOver(a)' => HandedOver(a)
        /\ Excused(a) => Excused(a)'
    BY <1>1, <1>2, <1>3, <2>1 DEF HasIt, HandedOver, Excused
  <2>3. Cared(a) => Cared(a)'
    <3>1. ASSUME NEW q \in Process, HasIt(q, a) PROVE Cared(a)'
      <4>1. CASE mails[q][a] > 0
        BY <1>1, <4>1 DEF Cared, HasIt
      <4>2. CASE pool[q][a] \in {"waiting", "mailing"}
        <5>1. dueAt[a] <= minute
          BY <2>1, <4>2 DEF AlertInv, OnTime
        <5> QED BY <1>1, <1>2, <2>1, <5>1 DEF Cared, Excused
      <4> QED BY <3>1, <4>1, <4>2 DEF HasIt
    <3> QED BY <2>2, <3>1 DEF Cared
  <2>4. NotLost(a)'
    BY <1>1, <1>4, <2>1, <2>2, <2>3 DEF AlertInv, NotLost
  <2>5. Fresh(a)'
    BY <1>1, <1>3, <1>4, <2>1 DEF AlertInv, Fresh
  <2>6. OnTime(a)'
    BY <1>1, <1>3, <2>1, <2>2 DEF AlertInv, OnTime
  <2>7. ASSUME NEW q \in Process PROVE Placed(q, a)'
    <3>1. Placed(q, a) /\ mails[q][a] \in Nat
      BY <1>2, <2>1 DEF AlertInv
    <3>2. mails[q][a] <= stops'
      BY <1>1, <1>2, <3>1 DEF Placed
    <3>3. mails[q][a] <= stops' + 1
      BY <1>5, <3>1, <3>2
    <3> QED BY <1>1, <1>3, <3>1, <3>2, <3>3 DEF Placed, Alerts!Alert
  <2>8. Single(a)'
    <3>1. SUFFICES ASSUME a \notin met' PROVE Single(a)'
      BY DEF Single
    <3>2. a \notin met /\ sched[p][a] # "handed"
      BY <1>1, <3>1
    <3>3. /\ HandedOver(a)' <=> HandedOver(a)
          /\ \A q \in Process : /\ sched'[q][a] # "none" => sched'[q][a] = sched[q][a]
                                /\ pool'[q][a] # "none" => pool'[q][a] = pool[q][a]
      BY <1>3, <3>2 DEF HandedOver
    <3> QED BY <1>1, <2>1, <2>2, <3>2, <3>3 DEF AlertInv, Single
  <2> QED BY <2>4, <2>5, <2>6, <2>7, <2>8 DEF AlertInv
<1> QED
  <2>1. badTill' <= minute' + 1
    BY <1>1, <1>2
  <2> QED BY <2>1, <1>6, <1>7 DEF AlertsInv, Alerts!Alert

LEMMA AlertsStep ==
  ASSUME Alerts!AlertsAssumption, AlertsInv, [Alerts!Next]_alertVars PROVE AlertsInv'
<1>1. CASE UNCHANGED alertVars
  <2>1. Alerts!TypeOK'
    BY <1>1 DEF alertVars, AlertsInv, Alerts!TypeOK, Alerts!Minutes, Alerts!Alert
  <2>2. ASSUME NEW a \in Alerts!Alert PROVE AlertInv(a)'
    <3>1. AlertInv(a)
      BY DEF AlertsInv
    <3>2. Fresh(a)' /\ Single(a)' /\ OnTime(a)' /\ NotLost(a)'
      BY <1>1, <3>1 DEF alertVars, AlertInv, Fresh, Single, OnTime, NotLost, HasIt, HandedOver, Cared, Excused
    <3>3. \A p \in Process : Placed(p, a)'
      BY <1>1, <3>1 DEF alertVars, AlertInv, Placed, Alerts!Alert
    <3> QED BY <3>2, <3>3 DEF AlertInv
  <2> QED BY <1>1, <2>1, <2>2 DEF alertVars, AlertsInv, Alerts!Alert
<1>2. CASE Alerts!Next
  BY <1>2, AlertsRest, AlertsSchedule, AlertsPoll, AlertsHand, AlertsRemove, AlertsStart,
     AlertsMail, AlertsKeep, AlertsPass, AlertsStop DEF Alerts!Next
<1> QED BY <1>1, <1>2

LEMMA AlertsGood ==
  ASSUME Alerts!AlertsAssumption, AlertsInv PROVE Alerts!TypeOK /\ Alerts!AlertsSound
<1>1. ASSUME NEW a \in Alerts!Alert
      PROVE  /\ \A p \in Process : mails[p][a] <= stops + 1
             /\ a \notin met => \A p, q \in Process : /\ mails[p][a] <= 1
                                                      /\ mails[p][a] > 0 /\ mails[q][a] > 0 => p = q
             /\ forms[a[1]] = "accepted" /\ ~ Alerts!Pending(a) /\ ~ Alerts!Mailed(a) => badTill > dueAt[a]
  <2>1. AlertInv(a)
    BY DEF AlertsInv
  <2>2. \A p \in Process : mails[p][a] <= stops + 1
    BY <2>1 DEF AlertInv, Placed
  <2>3. a \notin met => \A p, q \in Process : /\ mails[p][a] <= 1
                                              /\ mails[p][a] > 0 /\ mails[q][a] > 0 => p = q
    BY <2>1 DEF AlertInv, Single, HasIt
  <2>4. forms[a[1]] = "accepted" /\ ~ Alerts!Pending(a) /\ ~ Alerts!Mailed(a) => badTill > dueAt[a]
    BY <2>1 DEF AlertInv, NotLost, Cared, HasIt, Excused, Alerts!Pending, Alerts!Mailed
  <2> QED BY <2>2, <2>3, <2>4
<1> QED BY <1>1 DEF AlertsInv, Alerts!AlertsSound

-----------------------------------------------------------------------------
(* TopicSlots.  Unless turns overlap, one at most is under way, and what is
   asked belongs to its topic; between turns, to the handler's.              *)
Inside(t) == slotTurn[t].pc \in {"extract", "answer", "save"}
Active == {p \in Topic : slotState[p].active}
Asked == {p \in Topic : asked[p] # 0}

Tied(S) ==
  /\ \A p \in S : p = current \/ \E t \in Turn \ Streamed : slotTurn[t].pc = "save" /\ slotTurn[t].node = p
  /\ \A t \in Turn : slotTurn[t].pc = "route" => S = {}
  /\ \A t \in Turn : Inside(t) => S \subseteq {slotTurn[t].node}

TalkTypes ==
  /\ Talk!TypeOK /\ DOMAIN filled = Topic /\ asked \in [Topic -> Nat]
  /\ ~ Talk!Single => \A t \in Turn : Inside(t) => slotTurn[t].carried = slotTurn[t].node

Alone == \A t, u \in Turn : slotTurn[t].pc # "idle" /\ slotTurn[u].pc # "idle" => t = u

(* A topic has asked once more than it has counted, in the state it keeps and
   in the copy that a turn carries along.                                    *)
Counted ==
  /\ Asked \subseteq Active
  /\ \A p \in Topic : asked[p] <= slotState[p].attempts + 1
  /\ \A t \in Turn : slotTurn[t].pc = "extract" /\ slotTurn[t].node \in Active
       => asked[slotTurn[t].node] <= slotTurn[t].attempts + 1

TalkInv ==
  /\ TalkTypes
  /\ "overlap" \notin past => Alone
  /\ "overlap" \notin past /\ ~ Talk!Single => Counted /\ Tied(Asked)
  /\ past = {} /\ ~ Talk!Single => Tied(Active)

LEMMA TalkInit == ASSUME Talk!TopicsAssumption, Talk!Init PROVE TalkInv
<1>1. /\ current = NoTopic /\ filled = [p \in Topic |-> {}] /\ past = {} /\ reliable = FALSE
      /\ slotState = [p \in Topic |-> [active |-> FALSE, attempts |-> 0]]
      /\ asked = [p \in Topic |-> 0] /\ MaxAttempts \in Nat \ {0}
      /\ slotTurn = [t \in Turn |-> Talk!Rest] /\ Talk!Rest \in Talk!Turns /\ Talk!Rest.pc = "idle"
  BY DEF Talk!Init, Talk!Fresh, Talk!TopicsAssumption, Talk!Inactive, Talk!Rest, Talk!Turns
<1>2. /\ slotTurn \in [Turn -> Talk!Turns] /\ \A t \in Turn : slotTurn[t].pc = "idle"
      /\ \A t \in Turn : ~ Inside(t)
  BY <1>1 DEF Inside
<1>3. /\ slotState \in [Topic -> [active : BOOLEAN, attempts : 0..(MaxAttempts - 1)]]
      /\ \A p \in Topic : asked[p] = 0 /\ slotState[p].attempts = 0
  BY <1>1
<1>4. TalkTypes
  BY <1>1, <1>2, <1>3 DEF TalkTypes, Talk!TypeOK, Inside
<1>5. Asked = {} /\ Active = {}
  BY <1>1, <1>3 DEF Asked, Active
<1>6. Tied({}) /\ Alone /\ Counted
  BY <1>2, <1>3, <1>5 DEF Tied, Alone, Counted
<1> QED BY <1>4, <1>5, <1>6 DEF TalkInv

(* What the types say of a turn.                                             *)
LEMMA TalkTyped ==
  ASSUME TalkTypes, NEW t \in Turn
  PROVE  /\ slotTurn \in [Turn -> Talk!Turns] /\ slotTurn[t] \in Talk!Turns
         /\ slotTurn[t].pc \in {"idle", "route", "extract", "answer", "save"}
         /\ slotTurn[t].attempts \in Nat
         /\ slotTurn[t].node \in Topic \cup {NoTopic} /\ slotTurn[t].carried \in Topic \cup {NoTopic}
         /\ Inside(t) => slotTurn[t].node \in Topic
         /\ current \in Topic \cup {NoTopic}
BY DEF TalkTypes, Talk!TypeOK, Talk!Turns, Inside

(* A turn goes on, its topic being the same.                                 *)
LEMMA Goes ==
  ASSUME TalkTypes, NEW t \in Turn, NEW pc \in {"answer", "save"}, Inside(t), Talk!Goto(t, pc)
  PROVE  /\ slotTurn' \in [Turn -> Talk!Turns]
         /\ slotTurn'[t].pc = pc /\ slotTurn'[t].node = slotTurn[t].node
         /\ slotTurn'[t].carried = slotTurn[t].carried
         /\ \A u \in Turn \ {t} : slotTurn'[u] = slotTurn[u]
<1>1. slotTurn' = [slotTurn EXCEPT ![t].pc = pc] /\ slotTurn \in [Turn -> Talk!Turns]
  BY TalkTyped DEF Talk!Goto
<1>2. slotTurn'[t] = [slotTurn[t] EXCEPT !.pc = pc] /\ \A u \in Turn \ {t} : slotTurn'[u] = slotTurn[u]
  BY <1>1
<1>3. slotTurn'[t] \in Talk!Turns
  BY <1>1, <1>2 DEF Talk!Turns
<1>4. /\ slotTurn'[t].pc = pc /\ slotTurn'[t].node = slotTurn[t].node
      /\ slotTurn'[t].carried = slotTurn[t].carried
  BY <1>1, <1>2 DEF Talk!Turns
<1> QED BY <1>1, <1>2, <1>3, <1>4

LEMMA Leaves ==
  ASSUME TalkTypes, NEW t \in Turn, Talk!Leave(t)
  PROVE  /\ slotTurn' \in [Turn -> Talk!Turns] /\ slotTurn'[t].pc = "idle"
         /\ \A u \in Turn \ {t} : slotTurn'[u] = slotTurn[u]
<1>1. Talk!Rest \in Talk!Turns /\ Talk!Rest.pc = "idle"
  BY DEF Talk!Rest, Talk!Turns
<1> QED BY <1>1, TalkTyped DEF Talk!Leave

(* The types after a step of a turn.                                         *)
LEMMA TypesAfter ==
  ASSUME TalkTypes, NEW t \in Turn, slotTurn' \in [Turn -> Talk!Turns],
         \A u \in Turn \ {t} : slotTurn'[u] = slotTurn[u],
         Inside(t)' => slotTurn'[t].node \in Topic
                       /\ (~ Talk!Single => slotTurn'[t].carried = slotTurn'[t].node),
         current' \in Topic \cup {NoTopic},
         DOMAIN filled' = Topic, \A p \in Topic : filled'[p] \subseteq Slots[p],
         slotState' \in [Topic -> [active : BOOLEAN, attempts : 0..(MaxAttempts - 1)]],
         asked' \in [Topic -> Nat], past' \subseteq {"overlap", "new"}, reliable' \in BOOLEAN
  PROVE  TalkTypes'
<1>1. \A u \in Turn : Inside(u)' => slotTurn'[u].node \in Topic
                       /\ (~ Talk!Single => slotTurn'[u].carried = slotTurn'[u].node)
  BY TalkTyped DEF TalkTypes, Inside
<1>2. Talk!TypeOK'
  BY <1>1 DEF Talk!TypeOK, Inside
<1> QED BY <1>1, <1>2 DEF TalkTypes, Talk!Single

(* A turn that was under way and stays, or leaves, does not overlap.         *)
LEMMA AloneAfter ==
  ASSUME Alone, NEW t \in Turn, slotTurn[t].pc # "idle",
         \A u \in Turn \ {t} : slotTurn'[u] = slotTurn[u]
  PROVE  Alone' /\ \A u \in Turn \ {t} : slotTurn'[u].pc = "idle"
BY DEF Alone

LEMMA TiedNothing == Tied({})'
BY DEF Tied

LEMMA TiedIdle ==
  ASSUME NEW t \in Turn, NEW S, \A u \in Turn : slotTurn'[u].pc = "idle", S \subseteq {current'}
  PROVE  Tied(S)'
BY DEF Tied, Inside

LEMMA TiedSave ==
  ASSUME NEW t \in Turn, NEW S, slotTurn'[t].pc = "save", S \subseteq {slotTurn'[t].node},
         \A u \in Turn \ {t} : slotTurn'[u].pc = "idle", t \in Streamed => S \subseteq {current'}
  PROVE  Tied(S)'
BY DEF Tied, Inside

LEMMA TiedAnswer ==
  ASSUME NEW t \in Turn, NEW S, slotTurn'[t].pc \in {"extract", "answer"}, S \subseteq {slotTurn'[t].node},
         \A u \in Turn \ {t} : slotTurn'[u].pc = "idle", S \subseteq {current'}
  PROVE  Tied(S)'
BY DEF Tied, Inside

(* What TalkInv asks of a step of a turn that leaves past alone.             *)
LEMMA TalkAfter ==
  ASSUME TalkInv, TalkTypes', UNCHANGED past, Alone => Alone',
         Alone /\ Counted /\ Tied(Asked) /\ ~ Talk!Single => Counted' /\ Tied(Asked)',
         Alone /\ Tied(Active) /\ ~ Talk!Single => Tied(Active)'
  PROVE  TalkInv'
<1>1. past = {} => "overlap" \notin past
  OBVIOUS
<1> QED BY <1>1 DEF TalkInv, Talk!Single

LEMMA TalkToTopic ==
  ASSUME Talk!TopicsAssumption, TalkInv, NEW t \in Turn, slotTurn[t].pc = "route",
         NEW p \in Topic, Talk!ToTopic(t, p)
  PROVE  TalkInv'
<1>1. /\ UNCHANGED <<filled, slotState, asked, past, reliable>>
      /\ current' = current \/ current' = p
      /\ slotTurn' = [slotTurn EXCEPT ![t].pc = "extract", ![t].node = p, ![t].carried = p]
  BY DEF Talk!ToTopic, Talk!Yielded
<1>2. TalkTypes /\ current \in Topic \cup {NoTopic}
  BY TalkTyped DEF TalkInv
<1>3. /\ slotTurn \in [Turn -> Talk!Turns] /\ slotTurn[t] \in Talk!Turns /\ slotTurn[t].attempts \in Nat
  BY <1>2, TalkTyped
<1>4. /\ slotTurn'[t] = [pc |-> "extract", attempts |-> slotTurn[t].attempts, node |-> p, carried |-> p]
      /\ \A u \in Turn \ {t} : slotTurn'[u] = slotTurn[u]
  BY <1>1, <1>3 DEF Talk!Turns
<1>5. slotTurn'[t] \in Talk!Turns /\ slotTurn' \in [Turn -> Talk!Turns]
  BY <1>1, <1>3, <1>4 DEF Talk!Turns
<1>6. TalkTypes'
  BY <1>1, <1>2, <1>4, <1>5, TypesAfter DEF TalkTypes, Talk!TypeOK
<1>7. Alone => Alone'
  BY <1>4, AloneAfter
<1>8. ASSUME Alone, Counted, Tied(Asked) PROVE Counted' /\ Tied(Asked)'
  <2>1. Asked = {} /\ Asked' = {} /\ UNCHANGED <<asked, slotState>>
    BY <1>1, <1>8 DEF Tied, Asked
  <2>2. \A q \in Topic : asked'[q] = 0
    BY <2>1 DEF Asked
  <2>3. \A u \in Turn : slotTurn'[u].attempts \in Nat
    BY <1>5 DEF Talk!Turns
  <2>4. \A u \in Turn : slotTurn'[u].node \in Active' => slotTurn'[u].node \in Topic
    BY DEF Active
  <2>5. Counted'
    BY <1>8, <2>1, <2>2, <2>3, <2>4 DEF Counted
  <2> QED BY <2>1, <2>5, TiedNothing DEF Tied
<1>9. ASSUME Tied(Active) PROVE Tied(Active)'
  <2>1. Active = {} /\ Active' = {}
    BY <1>1, <1>9 DEF Tied, Active
  <2> QED BY <2>1, TiedNothing DEF Tied
<1> QED BY <1>1, <1>6, <1>7, <1>8, <1>9, TalkAfter

(* extract_slots has all it needs, or has nothing to do.                     *)
LEMMA TalkAnswers ==
  ASSUME Talk!TopicsAssumption, TalkInv, NEW t \in Turn, slotTurn[t].pc = "extract",
         Talk!Goto(t, "answer"), UNCHANGED <<current, slotState, asked, past, reliable>>,
         DOMAIN filled' = Topic, \A p \in Topic : filled'[p] \subseteq Slots[p]
  PROVE  TalkInv'
<1>0. TalkTypes /\ Inside(t) /\ current \in Topic \cup {NoTopic}
  BY TalkTyped DEF TalkInv, Inside
<1>1. /\ slotTurn' \in [Turn -> Talk!Turns]
      /\ slotTurn'[t].pc = "answer" /\ slotTurn'[t].node = slotTurn[t].node
      /\ slotTurn'[t].carried = slotTurn[t].carried
      /\ \A u \in Turn \ {t} : slotTurn'[u] = slotTurn[u]
  BY <1>0, Goes
<1>2. TalkTypes'
  BY <1>0, <1>1, TypesAfter, TalkTyped DEF TalkTypes, Talk!TypeOK
<1>3. Alone => Alone' /\ \A u \in Turn \ {t} : slotTurn'[u].pc = "idle"
  BY <1>1, AloneAfter
<1>4. ASSUME NEW S, Alone, Tied(S) PROVE Tied(S)'
  <2>1. S \subseteq {slotTurn[t].node} /\ S \subseteq {current'}
    BY <1>0, <1>4 DEF Tied, Alone
  <2> QED BY <1>1, <1>3, <1>4, <2>1, TiedAnswer
<1>5. Asked' = Asked /\ Active' = Active
  BY DEF Asked, Active
<1>6. ASSUME Alone, Counted PROVE Counted'
  BY <1>1, <1>3, <1>5, <1>6 DEF Counted
<1>7. Alone /\ Tied(Asked) => Tied(Asked)'
  <2> PICK S : S = Asked
    OBVIOUS
  <2>1. Tied(S)' = Tied(Asked)'
    BY <1>5 DEF Tied
  <2> QED BY <1>4, <2>1
<1>8. Alone /\ Tied(Active) => Tied(Active)'
  <2> PICK S : S = Active
    OBVIOUS
  <2>1. Tied(S)' = Tied(Active)'
    BY <1>5 DEF Tied
  <2> QED BY <1>4, <2>1
<1> QED BY <1>2, <1>3, <1>6, <1>7, <1>8, TalkAfter

(* The topic stops asking: it answers, or lets the user go.                  *)
LEMMA TalkResets ==
  ASSUME Talk!TopicsAssumption, TalkInv, NEW t \in Turn, Inside(t),
         Talk!ResetSlotState(slotTurn[t].node), Talk!Goto(t, "save"),
         Talk!Yielded(t, slotTurn[t].carried), UNCHANGED <<past, reliable>>,
         DOMAIN filled' = Topic, \A p \in Topic : filled'[p] \subseteq Slots[p]
  PROVE  TalkInv'
<1> DEFINE n == slotTurn[t].node
<1>0. /\ TalkTypes /\ current \in Topic \cup {NoTopic} /\ n \in Topic
      /\ slotTurn[t].carried \in Topic \cup {NoTopic}
      /\ slotState \in [Topic -> [active : BOOLEAN, attempts : 0..(MaxAttempts - 1)]]
      /\ asked \in [Topic -> Nat] /\ MaxAttempts \in Nat \ {0}
  BY TalkTyped DEF TalkInv, TalkTypes, Talk!TypeOK, Talk!TopicsAssumption
<1>1. /\ slotTurn' \in [Turn -> Talk!Turns]
      /\ slotTurn'[t].pc = "save" /\ slotTurn'[t].node = n
      /\ slotTurn'[t].carried = slotTurn[t].carried
      /\ \A u \in Turn \ {t} : slotTurn'[u] = slotTurn[u]
  BY <1>0, Goes
<1> HIDE DEF n
<1>2. /\ slotState' = [slotState EXCEPT ![n] = [active |-> FALSE, attempts |-> 0]]
      /\ asked' = [asked EXCEPT ![n] = 0]
  BY DEF n, Talk!ResetSlotState, Talk!Inactive
<1>3. /\ slotState' \in [Topic -> [active : BOOLEAN, attempts : 0..(MaxAttempts - 1)]]
      /\ asked' \in [Topic -> Nat]
      /\ asked'[n] = 0 /\ \A p \in Topic \ {n} : asked'[p] = asked[p]
      /\ slotState'[n].active = FALSE /\ \A p \in Topic \ {n} : slotState'[p] = slotState[p]
  BY <1>0, <1>2
<1>4. current' \in Topic \cup {NoTopic}
  BY <1>0 DEF Talk!Yielded
<1>5. TalkTypes'
  BY <1>0, <1>1, <1>3, <1>4, TypesAfter DEF TalkTypes, Talk!TypeOK, n
<1>6. Alone => Alone' /\ \A u \in Turn \ {t} : slotTurn'[u].pc = "idle"
  BY <1>1, AloneAfter DEF Inside
<1>7. ASSUME Alone, Tied(Asked) PROVE Counted' /\ Tied(Asked)'
  <2>1. Asked \subseteq {n}
    BY <1>7 DEF Tied, n
  <2>2. \A p \in Topic : asked'[p] = 0
    BY <1>3, <2>1 DEF Asked
  <2>3. Asked' = {}
    BY <2>2 DEF Asked
  <2>4. \A p \in Topic : slotState'[p].attempts \in Nat
    BY <1>0, <1>3
  <2>5. \A u \in Turn : slotTurn'[u].pc # "extract"
    BY <1>1, <1>6, <1>7
  <2>6. Counted'
    BY <2>2, <2>3, <2>4, <2>5 DEF Counted
  <2> QED BY <2>3, <2>6, TiedNothing DEF Tied
<1>8. ASSUME Tied(Active) PROVE Tied(Active)'
  <2>1. Active \subseteq {n}
    BY <1>8 DEF Tied, n
  <2>2. Active' = {}
    BY <1>3, <2>1 DEF Active
  <2> QED BY <2>2, TiedNothing DEF Tied
<1> QED BY <1>5, <1>6, <1>7, <1>8, TalkAfter

LEMMA TalkAsks ==
  ASSUME Talk!TopicsAssumption, TalkInv, NEW t \in Turn, slotTurn[t].pc = "extract",
         NEW k, k = Talk!Attempts(t, slotTurn[t].node), ~ Talk!TooMany(k),
         Talk!Ask(slotTurn[t].node, k), Talk!Goto(t, "save"),
         Talk!Yielded(t, slotTurn[t].carried), UNCHANGED <<past, reliable>>,
         DOMAIN filled' = Topic, \A p \in Topic : filled'[p] \subseteq Slots[p]
  PROVE  TalkInv'
<1>0. PICK n : n = slotTurn[t].node
  OBVIOUS
<1>1. /\ TalkTypes /\ Inside(t) /\ n \in Topic /\ slotTurn[t].attempts \in Nat
      /\ slotTurn[t].carried \in Topic \cup {NoTopic} /\ current \in Topic \cup {NoTopic}
      /\ slotState \in [Topic -> [active : BOOLEAN, attempts : 0..(MaxAttempts - 1)]]
      /\ asked \in [Topic -> Nat] /\ MaxAttempts \in Nat \ {0}
      /\ ~ Talk!Single => slotTurn[t].carried = n
  <2>1. TalkTypes /\ Inside(t)
    BY DEF TalkInv, Inside
  <2> QED BY <1>0, <2>1, TalkTyped DEF TalkTypes, Talk!TypeOK, Talk!TopicsAssumption
<1>2. /\ slotTurn' \in [Turn -> Talk!Turns]
      /\ slotTurn'[t].pc = "save" /\ slotTurn'[t].node = n
      /\ slotTurn'[t].carried = slotTurn[t].carried
      /\ \A u \in Turn \ {t} : slotTurn'[u] = slotTurn[u]
  BY <1>0, <1>1, Goes
<1>3. k \in Nat /\ k <= MaxAttempts - 1 /\ k = slotTurn[t].attempts + IF slotState[n].active THEN 1 ELSE 0
  <2>1. k = slotTurn[t].attempts + IF slotState[n].active THEN 1 ELSE 0
    BY <1>0 DEF Talk!Attempts
  <2>2. ~ (k >= MaxAttempts)
    BY DEF Talk!TooMany
  <2> QED BY <1>1, <2>1, <2>2
<1>4. /\ slotState' = [slotState EXCEPT ![n] = [active |-> TRUE, attempts |-> k]]
      /\ asked' = [asked EXCEPT ![n] = IF @ > MaxAttempts THEN @ ELSE @ + 1]
  BY <1>0 DEF Talk!Ask, Talk!Asking
<1>5. /\ slotState' \in [Topic -> [active : BOOLEAN, attempts : 0..(MaxAttempts - 1)]]
      /\ asked' \in [Topic -> Nat] /\ asked'[n] <= asked[n] + 1
      /\ \A p \in Topic \ {n} : asked'[p] = asked[p] /\ slotState'[p] = slotState[p]
      /\ slotState'[n].active = TRUE /\ slotState'[n].attempts = k
  BY <1>1, <1>3, <1>4
<1>6. current' \in Topic \cup {NoTopic} /\ (t \in Streamed => current' = slotTurn[t].carried)
  BY <1>1 DEF Talk!Yielded
<1>7. TalkTypes'
  BY <1>1, <1>2, <1>5, <1>6, TypesAfter DEF TalkTypes, Talk!TypeOK
<1>8. Alone => Alone' /\ \A u \in Turn \ {t} : slotTurn'[u].pc = "idle"
  BY <1>2, AloneAfter
<1>9. ASSUME NEW S, Alone, ~ Talk!Single, S \subseteq {n} PROVE Tied(S)'
  BY <1>1, <1>2, <1>6, <1>8, <1>9, TiedSave
<1>10. ASSUME Alone, Counted, Tied(Asked), ~ Talk!Single PROVE Counted' /\ Tied(Asked)'
  <2>1. Asked \subseteq {n}
    BY <1>0, <1>1, <1>10 DEF Tied
  <2>2. \A p \in Topic \ {n} : asked'[p] = 0
    BY <1>5, <2>1 DEF Asked
  <2>3. Asked' \subseteq {n}
    BY <2>2 DEF Asked
  <2>4. n \in Active'
    BY <1>1, <1>5 DEF Active
  <2>5. asked'[n] <= k + 1
    <3>1. CASE slotState[n].active
      <4>1. asked[n] <= slotTurn[t].attempts + 1
        BY <1>0, <1>1, <1>10, <3>1 DEF Counted, Active
      <4> QED BY <1>1, <1>3, <1>5, <3>1, <4>1
    <3>2. CASE ~ slotState[n].active
      <4>1. asked[n] = 0
        BY <1>1, <1>10, <3>2 DEF Counted, Active, Asked
      <4> QED BY <1>1, <1>3, <1>5, <3>2, <4>1
    <3> QED BY <3>1, <3>2
  <2>6. \A p \in Topic : slotState'[p].attempts \in Nat
    BY <1>1, <1>5
  <2>7. \A p \in Topic : asked'[p] <= slotState'[p].attempts + 1
    BY <1>5, <2>2, <2>5, <2>6
  <2>8. \A u \in Turn : slotTurn'[u].pc # "extract"
    BY <1>2, <1>8, <1>10
  <2>9. Counted'
    BY <2>3, <2>4, <2>7, <2>8 DEF Counted
  <2> QED BY <1>9, <1>10, <2>3, <2>9 DEF Tied
<1>11. ASSUME Alone, Tied(Active), ~ Talk!Single PROVE Tied(Active)'
  <2>1. Active \subseteq {n}
    BY <1>0, <1>1, <1>11 DEF Tied
  <2>2. Active' \subseteq {n}
    BY <1>5, <2>1 DEF Active
  <2> QED BY <1>9, <1>11, <2>2 DEF Tied
<1> QED BY <1>7, <1>8, <1>10, <1>11, TalkAfter

(* The turn is over, or an apology streams: nothing was asked or taken back.  *)
LEMMA TalkEnds ==
  ASSUME Talk!TopicsAssumption, TalkInv, NEW t \in Turn, Inside(t),
         Talk!Leave(t) \/ Talk!Goto(t, "save"),
         current' \in Topic \cup {NoTopic},
         ~ Talk!Single => \/ current' = slotTurn[t].node
                          \/ current' = current /\ slotTurn[t].pc = "save" /\ t \in Streamed,
         UNCHANGED <<filled, slotState, asked, past, reliable>>
  PROVE  TalkInv'
<1>0. TalkTypes
  BY DEF TalkInv
<1>1. /\ slotTurn' \in [Turn -> Talk!Turns]
      /\ \/ slotTurn'[t].pc = "idle"
         \/ /\ slotTurn'[t].pc = "save" /\ slotTurn'[t].node = slotTurn[t].node
            /\ slotTurn'[t].carried = slotTurn[t].carried
      /\ \A u \in Turn \ {t} : slotTurn'[u] = slotTurn[u]
  BY <1>0, Goes, Leaves
<1>2. TalkTypes'
  BY <1>0, <1>1, TypesAfter, TalkTyped DEF TalkTypes, Talk!TypeOK, Inside
<1>3. Alone => Alone' /\ \A u \in Turn \ {t} : slotTurn'[u].pc = "idle"
  BY <1>1, AloneAfter DEF Inside
<1>4. ASSUME NEW S, Alone, Tied(S), ~ Talk!Single PROVE Tied(S)'
  <2>1. S \subseteq {slotTurn[t].node}
    BY <1>4 DEF Tied
  <2>2. S \subseteq {current'}
    <3>1. CASE current' = slotTurn[t].node
      BY <2>1, <3>1
    <3>2. CASE current' = current /\ slotTurn[t].pc = "save" /\ t \in Streamed
      BY <1>4, <3>2 DEF Tied, Alone
    <3> QED BY <1>4, <3>1, <3>2
  <2>3. CASE slotTurn'[t].pc = "idle"
    BY <1>3, <1>4, <2>2, <2>3, TiedIdle
  <2>4. CASE slotTurn'[t].pc = "save" /\ slotTurn'[t].node = slotTurn[t].node
    BY <1>3, <1>4, <2>1, <2>2, <2>4, TiedSave
  <2> QED BY <1>1, <2>3, <2>4
<1>5. Asked' = Asked /\ Active' = Active
  BY DEF Asked, Active
<1>6. ASSUME Alone, Counted PROVE Counted'
  <2>1. \A u \in Turn : slotTurn'[u].pc # "extract"
    BY <1>1, <1>3, <1>6
  <2> QED BY <1>5, <1>6, <2>1 DEF Counted
<1>7. /\ Alone /\ Tied(Asked) /\ ~ Talk!Single => Tied(Asked)'
      /\ Alone /\ Tied(Active) /\ ~ Talk!Single => Tied(Active)'
  BY <1>4, <1>5 DEF Tied
<1> QED BY <1>2, <1>3, <1>6, <1>7, TalkAfter

LEMMA TalkBegins ==
  ASSUME Talk!TopicsAssumption, TalkInv, NEW t \in Turn, Talk!Begin(t) PROVE TalkInv'
<1> DEFINE r == [pc |-> Talk!Entry, node |-> Talk!EntryNode, carried |-> current,
                 attempts |-> IF current = NoTopic THEN 0 ELSE slotState[current].attempts]
<1>1. /\ slotTurn[t].pc = "idle" /\ slotTurn' = [slotTurn EXCEPT ![t] = r]
      /\ past' = IF \E u \in Turn \ {t} : slotTurn[u].pc # "idle" THEN past \cup {"overlap"} ELSE past
      /\ UNCHANGED <<current, filled, slotState, asked, reliable>>
  BY DEF Talk!Begin, Talk!Busy
<1>2. /\ TalkTypes /\ current \in Topic \cup {NoTopic} /\ FirstTopic \in Topic
      /\ slotTurn \in [Turn -> Talk!Turns] /\ NoTopic \notin Topic
      /\ slotState \in [Topic -> [active : BOOLEAN, attempts : 0..(MaxAttempts - 1)]]
      /\ asked \in [Topic -> Nat] /\ MaxAttempts \in Nat \ {0}
      /\ past \subseteq {"overlap", "new"}
  BY TalkTyped DEF TalkInv, TalkTypes, Talk!TypeOK, Talk!TopicsAssumption
<1>3. /\ r.pc \in {"extract", "route"} /\ r.node \in Topic \cup {NoTopic} /\ r.carried = current
      /\ r.attempts \in Nat /\ r \in Talk!Turns
      /\ r.pc = "extract" => r.node \in Topic
      /\ ~ Talk!Single /\ r.pc = "extract" =>
           r.node = current /\ current \in Topic /\ slotState[current].active
             /\ r.attempts = slotState[current].attempts
      /\ r.pc = "route" => ~ (current \in Topic /\ slotState[current].active)
  <2>1. r.pc = Talk!Entry /\ r.node = Talk!EntryNode /\ r.carried = current
        /\ r.attempts = IF current = NoTopic THEN 0 ELSE slotState[current].attempts
    OBVIOUS
  <2>2. Talk!Entry \in {"extract", "route"} /\ Talk!EntryNode \in Topic \cup {NoTopic}
    BY <1>2 DEF Talk!Entry, Talk!EntryNode
  <2>3. r.attempts \in Nat /\ (current \in Topic => r.attempts = slotState[current].attempts)
    BY <1>2, <2>1
  <2>4. Talk!Entry = "extract" => Talk!EntryNode \in Topic
    BY <1>2 DEF Talk!Entry, Talk!EntryNode
  <2>5. ~ Talk!Single /\ Talk!Entry = "extract" =>
          Talk!EntryNode = current /\ current \in Topic /\ slotState[current].active
    BY <1>2 DEF Talk!Entry, Talk!EntryNode
  <2>6. Talk!Entry = "route" => ~ (current \in Topic /\ slotState[current].active)
    BY <1>2 DEF Talk!Entry
  <2>7. r \in Talk!Turns
    BY <1>2, <2>1, <2>2, <2>3 DEF Talk!Turns
  <2> QED BY <2>1, <2>2, <2>3, <2>4, <2>5, <2>6, <2>7
<1> HIDE DEF r
<1>4. /\ slotTurn'[t] = r /\ slotTurn' \in [Turn -> Talk!Turns]
      /\ \A u \in Turn \ {t} : slotTurn'[u] = slotTurn[u]
  BY <1>1, <1>2, <1>3
<1>5. TalkTypes'
  <2>1. past' \subseteq {"overlap", "new"}
    BY <1>1, <1>2
  <2>2. Inside(t)' => slotTurn'[t].node \in Topic
                       /\ (~ Talk!Single => slotTurn'[t].carried = slotTurn'[t].node)
    BY <1>3, <1>4 DEF Inside
  <2> QED BY <1>1, <1>2, <1>4, <2>1, <2>2, TypesAfter DEF TalkTypes, Talk!TypeOK
<1>6. /\ past' = {} => past = {}
      /\ "overlap" \notin past' => /\ "overlap" \notin past /\ Alone' 
                                   /\ \A u \in Turn \ {t} : slotTurn[u].pc = "idle" /\ slotTurn'[u].pc = "idle"
  <2>1. past \subseteq past'
    BY <1>1
  <2>2. ASSUME "overlap" \notin past' PROVE \A u \in Turn \ {t} : slotTurn[u].pc = "idle"
    BY <1>1, <2>2
  <2> QED BY <1>4, <2>1, <2>2 DEF Alone
<1>7. ASSUME NEW S, S \subseteq Active, Tied(S), ~ Talk!Single,
             \A u \in Turn \ {t} : slotTurn[u].pc = "idle" /\ slotTurn'[u].pc = "idle"
      PROVE  Tied(S)'
  <2>1. \A p \in S : p = current /\ p \in Topic /\ slotState[p].active
    BY <1>1, <1>7 DEF Tied, Active
  <2>2. CASE r.pc = "route"
    <3>1. S = {}
      BY <1>3, <2>1, <2>2
    <3> QED BY <3>1, TiedNothing
  <2>3. CASE r.pc = "extract"
    <3>1. S \subseteq {r.node} /\ S \subseteq {current'}
      BY <1>1, <1>3, <1>7, <2>1, <2>3
    <3> QED BY <1>4, <1>7, <2>3, <3>1, TiedAnswer
  <2> QED BY <1>3, <2>2, <2>3
<1>8. Asked' = Asked /\ Active' = Active
  BY <1>1 DEF Asked, Active
<1>9. ASSUME "overlap" \notin past', ~ Talk!Single PROVE Counted' /\ Tied(Asked)'
  <2>1. Counted /\ Tied(Asked) /\ Asked \subseteq Active
    BY <1>6, <1>9 DEF TalkInv, Counted
  <2>2. Tied(Asked)'
    <3>1. PICK S : S = Asked
      OBVIOUS
    <3>2. Tied(S) /\ S \subseteq Active
      BY <2>1, <3>1 DEF Tied
    <3>3. Tied(S)'
      BY <1>6, <1>7, <1>9, <3>2
    <3> QED BY <1>8, <3>1, <3>3 DEF Tied
  <2>3. ASSUME NEW u \in Turn, slotTurn'[u].pc = "extract", slotTurn'[u].node \in Active
        PROVE  asked[slotTurn'[u].node] <= slotTurn'[u].attempts + 1
    <3>1. u = t /\ slotTurn'[u] = r
      BY <1>4, <1>6, <1>9, <2>3
    <3>2. r.node = current /\ current \in Topic /\ r.attempts = slotState[current].attempts
      BY <1>3, <1>9, <2>3, <3>1
    <3> QED BY <2>1, <3>1, <3>2 DEF Counted
  <2>4. Counted'
    BY <1>1, <1>8, <2>1, <2>3 DEF Counted
  <2> QED BY <2>2, <2>4
<1>10. ASSUME past' = {}, ~ Talk!Single PROVE Tied(Active)'
  <2>1. Tied(Active) /\ "overlap" \notin past'
    BY <1>6, <1>10 DEF TalkInv
  <2>2. PICK S : S = Active
    OBVIOUS
  <2>3. Tied(S) /\ S \subseteq Active
    BY <2>1, <2>2 DEF Tied
  <2>4. Tied(S)'
    BY <1>6, <1>7, <1>10, <2>1, <2>3
  <2> QED BY <1>8, <2>2, <2>4 DEF Tied
<1> QED BY <1>5, <1>6, <1>9, <1>10 DEF TalkInv, Talk!Single

(* /new, a new handler, and steps that touch nothing of a turn.              *)
LEMMA TalkRests ==
  ASSUME Talk!TopicsAssumption, TalkInv,
         Talk!NewConversation \/ Talk!Rebuild \/ Talk!Recover \/ UNCHANGED talkVars
  PROVE  TalkInv'
<1>1. /\ slotState \in [Topic -> [active : BOOLEAN, attempts : 0..(MaxAttempts - 1)]]
      /\ MaxAttempts \in Nat \ {0} /\ TalkTypes /\ reliable \in BOOLEAN
  BY DEF TalkInv, TalkTypes, Talk!TypeOK, Talk!TopicsAssumption
<1>2. CASE Talk!NewConversation
  <2>1. /\ current' = NoTopic /\ filled' = [p \in Topic |-> {}] /\ asked' = [p \in Topic |-> 0]
        /\ past' = past \cup {"new"} /\ UNCHANGED <<slotState, slotTurn, reliable>>
    BY <1>2 DEF Talk!NewConversation
  <2>2. TalkTypes'
    BY <1>1, <2>1 DEF TalkTypes, Talk!TypeOK, Inside, Talk!Turns, Talk!Single
  <2>3. Asked' = {} /\ \A p \in Topic : asked'[p] = 0 /\ slotState'[p].attempts \in Nat
    BY <1>1, <2>1 DEF Asked
  <2>4. Counted'
    <3>1. \A t \in Turn : slotTurn[t].attempts \in Nat
      BY <1>1, TalkTyped
    <3> QED BY <2>1, <2>3, <3>1 DEF Counted, Active
  <2>5. Tied(Asked)'
    BY <2>3, TiedNothing DEF Tied
  <2>6. "overlap" \notin past' => "overlap" \notin past
    BY <2>1
  <2>7. past' # {} /\ (Alone => Alone')
    BY <2>1 DEF Alone
  <2> QED BY <2>2, <2>4, <2>5, <2>6, <2>7 DEF TalkInv
<1>3. CASE Talk!Rebuild
  <2>1. /\ current' = NoTopic /\ filled' = [p \in Topic |-> {}] /\ asked' = [p \in Topic |-> 0]
        /\ slotState' = [p \in Topic |-> [active |-> FALSE, attempts |-> 0]]
        /\ UNCHANGED <<slotTurn, past, reliable>> /\ \A t \in Turn : slotTurn[t].pc = "idle"
    BY <1>3 DEF Talk!Rebuild, Talk!Busy, Talk!Inactive
  <2>2. slotState' \in [Topic -> [active : BOOLEAN, attempts : 0..(MaxAttempts - 1)]]
    BY <1>1, <2>1
  <2>3. TalkTypes'
    BY <1>1, <2>1, <2>2 DEF TalkTypes, Talk!TypeOK, Inside, Talk!Turns, Talk!Single
  <2>4. Asked' = {} /\ Active' = {} /\ \A p \in Topic : asked'[p] = 0 /\ slotState'[p].attempts = 0
    BY <2>1 DEF Asked, Active
  <2>5. Counted' /\ Alone'
    BY <2>1, <2>4 DEF Counted, Alone
  <2>6. Tied(Asked)' /\ Tied(Active)'
    BY <2>4, TiedNothing DEF Tied
  <2> QED BY <2>3, <2>5, <2>6 DEF TalkInv
<1>4. CASE Talk!Recover \/ UNCHANGED talkVars
  <2>1. UNCHANGED <<current, filled, slotState, slotTurn, asked, past>> /\ reliable' \in BOOLEAN
    BY <1>1, <1>4 DEF Talk!Recover, talkVars
  <2>2. TalkTypes'
    BY <1>1, <2>1 DEF TalkTypes, Talk!TypeOK, Inside, Talk!Turns, Talk!Single
  <2>3. Counted' = Counted /\ Alone' = Alone /\ Tied(Asked)' = Tied(Asked) /\ Tied(Active)' = Tied(Active)
    BY <2>1 DEF Counted, Alone, Tied, Asked, Active, Inside
  <2> QED BY <2>1, <2>2, <2>3 DEF TalkInv, Talk!Single
<1> QED BY <1>2, <1>3, <1>4

LEMMA TalkTurn ==
  ASSUME Talk!TopicsAssumption, TalkInv, NEW t \in Turn, Talk!TurnStep(t) PROVE TalkInv'
<1>0. /\ TalkTypes /\ current \in Topic \cup {NoTopic} /\ FirstTopic \in Topic /\ NoTopic \notin Topic
      /\ slotTurn[t].node \in Topic \cup {NoTopic} /\ slotTurn[t].carried \in Topic \cup {NoTopic}
      /\ Inside(t) => slotTurn[t].node \in Topic
      /\ ~ Talk!Single /\ Inside(t) => slotTurn[t].carried = slotTurn[t].node
      /\ DOMAIN filled = Topic /\ \A p \in Topic : filled[p] \subseteq Slots[p]
  BY TalkTyped DEF TalkInv, TalkTypes, Talk!TypeOK, Talk!TopicsAssumption
<1>1. CASE Talk!Route(t)
  <2>1. PICK intent \in Talk!Intents \cup {Talk!Unread} :
          Talk!ToTopic(t, Talk!Routed(slotTurn[t].carried, intent))
    BY <1>1 DEF Talk!Route
  <2>2. intent.topic \in Topic
    BY <1>0 DEF Talk!Intents, Talk!Unread
  <2>3. Talk!Routed(slotTurn[t].carried, intent) \in Topic
    BY <1>0, <2>2 DEF Talk!Routed
  <2>4. slotTurn[t].pc = "route"
    BY <1>1 DEF Talk!Route, Talk!At
  <2> QED BY <2>1, <2>3, <2>4, TalkToTopic
<1>2. CASE Talk!RouterFails(t)
  BY <1>0, <1>2, TalkToTopic DEF Talk!RouterFails, Talk!At
<1>3. CASE Talk!Extract(t)
  <2> DEFINE n == slotTurn[t].node
  <2>1. slotTurn[t].pc = "extract" /\ Inside(t) /\ n \in Topic /\ UNCHANGED <<past, reliable>>
    BY <1>0, <1>3, Zenon DEF Talk!Extract, Talk!At, Inside
  <2>2. PICK found \in SUBSET Slots[n] :
          LET left == Talk!Missing(n) \ found IN
          \/ /\ left = {}
             /\ filled' = [filled EXCEPT ![n] = @ \cup found]
             /\ Talk!Goto(t, "answer")
             /\ UNCHANGED <<current, slotState, asked>>
          \/ /\ left # {} /\ Talk!TooMany(Talk!Attempts(t, n))
             /\ filled' = [filled EXCEPT ![n] = {}]
             /\ Talk!ResetSlotState(n) /\ Talk!Goto(t, "save") /\ Talk!Yielded(t, slotTurn[t].carried)
          \/ /\ left # {} /\ ~ Talk!TooMany(Talk!Attempts(t, n))
             /\ filled' = [filled EXCEPT ![n] = @ \cup found]
             /\ Talk!Ask(n, Talk!Attempts(t, n)) /\ Talk!Goto(t, "save")
             /\ Talk!Yielded(t, slotTurn[t].carried)
    BY <1>3, Zenon DEF Talk!Extract
  <2>3. DOMAIN filled' = Topic /\ \A p \in Topic : filled'[p] \subseteq Slots[p]
    <3>1. filled' = [filled EXCEPT ![n] = @ \cup found] \/ filled' = [filled EXCEPT ![n] = {}]
      BY <2>2, Zenon
    <3> QED BY <1>0, <2>1, <3>1
  <2>4. CASE Talk!Goto(t, "answer") /\ UNCHANGED <<current, slotState, asked>>
    BY <2>1, <2>3, <2>4, TalkAnswers
  <2>5. CASE Talk!ResetSlotState(n) /\ Talk!Goto(t, "save") /\ Talk!Yielded(t, slotTurn[t].carried)
    BY <2>1, <2>3, <2>5, TalkResets
  <2>6. CASE /\ ~ Talk!TooMany(Talk!Attempts(t, n)) /\ Talk!Ask(n, Talk!Attempts(t, n))
             /\ Talk!Goto(t, "save") /\ Talk!Yielded(t, slotTurn[t].carried)
    BY <2>1, <2>3, <2>6, TalkAsks
  <2> QED BY <2>2, <2>4, <2>5, <2>6, Zenon
<1>4. CASE Talk!SkipExtract(t)
  BY <1>0, <1>4, TalkAnswers DEF Talk!SkipExtract, Talk!At
<1>5. CASE Talk!Answer(t)
  <2>1. Inside(t)
    BY <1>5 DEF Talk!Answer, Talk!At, Inside
  <2> QED BY <1>0, <1>5, <2>1, TalkResets DEF Talk!Answer
<1>6. Talk!Returned(t) \in Topic \cup {NoTopic}
      /\ (~ Talk!Single /\ Inside(t) => Talk!Returned(t) = slotTurn[t].node)
  BY <1>0 DEF Talk!Returned
<1>7. CASE Talk!Apologise(t)
  <2>1. Inside(t) /\ UNCHANGED <<filled, slotState, asked, past, reliable>>
    BY <1>7 DEF Talk!Apologise, Talk!Raises, Talk!At, Inside
  <2>2. \/ Talk!Goto(t, "save") /\ current' = slotTurn[t].carried
        \/ Talk!Leave(t) /\ current' = Talk!Returned(t)
    BY <1>7 DEF Talk!Apologise, Talk!Yielded
  <2> QED BY <1>0, <1>6, <2>1, <2>2, TalkEnds
<1>8. CASE Talk!Finish(t)
  <2>1. Inside(t) /\ UNCHANGED <<filled, slotState, asked, past, reliable>> /\ Talk!Leave(t)
    BY <1>8 DEF Talk!Finish, Talk!At, Inside
  <2>2. slotTurn[t].pc = "save"
    BY <1>8 DEF Talk!Finish, Talk!At
  <2>3. CASE t \notin Streamed
    <3>1. current' = Talk!Returned(t)
      BY <1>8, <2>3 DEF Talk!Finish
    <3> QED BY <1>0, <1>6, <2>1, <3>1, TalkEnds
  <2>4. CASE t \in Streamed /\ Talk!Single
    <3>1. current' = FirstTopic /\ FirstTopic \in Topic
      BY <1>8, <2>4 DEF Talk!Finish, Talk!TopicsAssumption
    <3> QED BY <1>0, <2>1, <2>4, <3>1, TalkEnds
  <2>5. CASE t \in Streamed /\ ~ Talk!Single
    <3>1. current' = current
      BY <1>8, <2>5 DEF Talk!Finish
    <3>2. current \in Topic \cup {NoTopic}
      BY <1>0 DEF TalkTypes, Talk!TypeOK
    <3> QED BY <1>0, <2>1, <2>2, <2>5, <3>1, <3>2, TalkEnds
  <2> QED BY <2>3, <2>4, <2>5
<1>9. CASE Talk!StreamBreaks(t)
  <2>1. /\ Inside(t) /\ UNCHANGED <<current, filled, slotState, asked, past, reliable>>
        /\ Talk!Leave(t) /\ slotTurn[t].pc = "save" /\ t \in Streamed
    BY <1>9 DEF Talk!StreamBreaks, Talk!At, Inside
  <2> QED BY <1>0, <2>1, TalkEnds
<1> QED BY <1>1, <1>2, <1>3, <1>4, <1>5, <1>7, <1>8, <1>9, Zenon DEF Talk!TurnStep

LEMMA TalkStep == ASSUME Talk!TopicsAssumption, TalkInv, [Talk!Next]_talkVars PROVE TalkInv'
<1>1. CASE Talk!Next
  BY <1>1, TalkBegins, TalkTurn, TalkRests DEF Talk!Next
<1> QED BY <1>1, TalkRests

LEMMA TalkGood ==
  ASSUME Talk!TopicsAssumption, TalkInv PROVE Talk!TypeOK /\ Talk!AsksWithinLimit
<1>1. /\ Talk!TypeOK /\ TalkTypes /\ asked \in [Topic -> Nat] /\ MaxAttempts \in Nat \ {0}
      /\ slotState \in [Topic -> [active : BOOLEAN, attempts : 0..(MaxAttempts - 1)]]
  BY DEF TalkInv, TalkTypes, Talk!TypeOK, Talk!TopicsAssumption
<1>2. ASSUME "overlap" \notin past, ~ Talk!Single, NEW p \in Topic PROVE asked[p] <= MaxAttempts
  <2>1. asked[p] <= slotState[p].attempts + 1
    BY <1>2 DEF TalkInv, Counted
  <2> QED BY <1>1, <2>1
<1>3. ASSUME past = {} PROVE Talk!Cardinality(Active) <= 1
  <2>1. \E n : Active \subseteq {n}
    <3>1. CASE Talk!Single
      BY <3>1 DEF Talk!Single, Active
    <3>2. CASE ~ Talk!Single
      <4>1. Tied(Active)
        BY <1>3, <3>2 DEF TalkInv
      <4>2. CASE \A t \in Turn : slotTurn[t].pc = "idle"
        <5>1. Active \subseteq {current}
          BY <4>1, <4>2 DEF Tied
        <5> QED BY <5>1
      <4>3. ASSUME NEW t \in Turn, slotTurn[t].pc # "idle" PROVE \E n : Active \subseteq {n}
        <5>1. slotTurn[t].pc = "route" \/ Inside(t)
          BY <1>1, <4>3, TalkTyped DEF Inside
        <5>2. Active = {} \/ Active \subseteq {slotTurn[t].node}
          BY <4>1, <5>1 DEF Tied
        <5> QED BY <5>2
      <4> QED BY <4>2, <4>3
    <3> QED BY <3>1, <3>2
  <2>2. PICK n : Active \subseteq {n}
    BY <2>1
  <2>3. IsFiniteSet({n}) /\ Cardinality({n}) = 1
    BY FS_Singleton
  <2>4. Cardinality(Active) <= 1
    BY <2>2, <2>3, FS_Subset
  <2>5. Talk!Cardinality(Active) = Cardinality(Active)
    BY DEF Talk!Cardinality, Cardinality
  <2> QED BY <2>4, <2>5
<1> QED BY <1>1, <1>2, <1>3 DEF Talk!AsksWithinLimit, Active

-----------------------------------------------------------------------------
(* Side by side: a step is one of a single part.                             *)
SideInv == TalkInv /\ EnrichInv /\ FeedInv /\ AlertsInv

LEMMA InitSideInv == Init => SideInv
BY SideworkAssumption, TalkInit, EnrichInit, FeedInit, AlertsInit DEF Init, SideInv

LEMMA StepSideInv == SideInv /\ [Next]_vars => SideInv'
<1> SUFFICES ASSUME SideInv, [Next]_vars PROVE SideInv'
  OBVIOUS
<1>1. [Talk!Next]_talkVars /\ [Enrich!Next]_enrichVars /\ [Feed!Next]_feedVars /\ [Alerts!Next]_alertVars
  BY DEF Next, OfTalk, OfEnrich, OfFeed, OfAlerts, vars
<1> QED BY <1>1, SideworkAssumption, TalkStep, EnrichStep, FeedStep, AlertsStep DEF SideInv

(* A topic asks MAX_SLOT_FILLING_ATTEMPTS times in a row at most, and one
   topic at a time asks, however many topics and turns there are and whatever
   the model, the store and the readers do (TopicsConversationAgent).        *)
THEOREM AsksBounded == Spec => []AsksWithinLimit
<1>1. SideInv => AsksWithinLimit
  BY SideworkAssumption, TalkGood DEF SideInv, AsksWithinLimit
<1> QED BY InitSideInv, StepSideInv, <1>1, PTL DEF Spec

(* A session's labels follow the conversation: whatever is lost, whatever the
   worker fails at and whenever the process restarts, a field of the row never
   goes back to an earlier message, unless two turns offered theirs out of order
   (submit, _worker_loop, set_enrichment).                                   *)
THEOREM LabelsNeverBackwards == Spec => []Enrich!TypeOK /\ Enrich!NeverBackwards
<1>1. SideInv /\ [Next]_vars
        => [raced' \/ \A f \in Field : label'[f] >= label[f]]_enrichVars
  <2> SUFFICES ASSUME SideInv, [Next]_vars PROVE [raced' \/ \A f \in Field : label'[f] >= label[f]]_enrichVars
    OBVIOUS
  <2>1. [Enrich!Next]_enrichVars
    BY DEF Next, OfTalk, OfEnrich, OfFeed, OfAlerts, vars
  <2> QED BY <2>1, SideworkAssumption, EnrichOrderStep DEF SideInv, EnrichInv
<1>2. SideInv => Enrich!TypeOK
  BY DEF SideInv, EnrichInv
<1> QED BY InitSideInv, StepSideInv, <1>1, <1>2, PTL DEF Spec, Enrich!NeverBackwards, Enrich!vars, enrichVars

(* Whatever the streams, publishers and threads do, an event published while a
   stream is open reaches it, or was dropped by its full queue or taken by a
   thread it had given up on; what it shows it shows once and in an order that
   respects what had reached everybody (publish, subscribe, the generator).  *)
THEOREM FeedIsFaithful == Spec => []FeedFaithful
<1>1. SideInv => FeedFaithful
  BY FeedGood DEF SideInv, EnrichInv, FeedFaithful
<1> QED BY InitSideInv, StepSideInv, <1>1, PTL DEF Spec

(* A mail is tried for every address of an accepted form, unless a process or its
   scheduler was down or its threads busy since the alert was due; and once,
   unless two workers' schedulers had the alert at a time or a process stopped
   between handing it over and removing it (widget_action, update_user,
   send_email_with_attachments and the job store that all workers share).    *)
THEOREM AlertsReachAll == Spec => []AlertsSound
<1>1. SideInv => AlertsSound
  BY SideworkAssumption, AlertsGood DEF SideInv, AlertsSound
<1> QED BY InitSideInv, StepSideInv, <1>1, PTL DEF Spec
=============================================================================
