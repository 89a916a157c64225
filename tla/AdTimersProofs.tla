--------------------------- MODULE AdTimersProofs ---------------------------
(***************************************************************************)
(* Theorems about AdTimers for any ads and periods, as long as no snapshot *)
(* holds an ad that has not started: then an ad that its instance has been *)
(* told of is in the feed, waits for its timer or is in the store's map,   *)
(* and is never in two of these places.                                    *)
(***************************************************************************)
EXTENDS AdTimers, SequenceTheorems, TLAPS

Timed(a) == \E t \in timers : t.ad = a
Told(type, a) == [type |-> type, ad |-> a]

\* The feed holds no entry twice, and a creation before its deletion.
FeedInOrder ==
  /\ \A j, k \in DOMAIN feed : feed[j] = feed[k] => j = k
  /\ \A j, k \in DOMAIN feed : \A a \in Ads :
       feed[j] = Told("create", a) /\ feed[k] = Told("delete", a) => j < k

\* Where an ad may be.
PlacesDiffer ==
  /\ \A a \in Ads : Pending("create", a) => life[a] # "new" /\ a \notin known /\ ~Timed(a)
  /\ \A a \in Ads : Timed(a) => life[a] # "new" /\ a \notin known
  /\ \A a \in known : life[a] # "new"
  /\ \A a \in Ads : Pending("delete", a) => life[a] = "ended" /\ (Pending("create", a) \/ a \in index)
  /\ index \subseteq known
  /\ \A a \in known \ index : life[a] = "ended"

\* A timer fires when its ad starts, and no ad ends before it.
OnTime ==
  /\ \A t \in timers : t.at = StartAt[t.ad] /\ now <= t.at
  /\ \A a \in known : StartAt[a] <= now
  /\ \A a \in Ads : life[a] = "ended" => EndAt[a] <= now

\* No ad that should be served is lost.
InSomePlace ==
  running => \A a \in Ads :
    life[a] # "new" /\ ~Pending("create", a) /\ (life[a] = "created" \/ Pending("delete", a)) =>
      a \in index \/ Timed(a)

StoppedIsEmpty == ~running => feed = <<>> /\ timers = {} /\ index = {} /\ known = {}

Inv ==
  /\ TimersTypeOK
  /\ FeedInOrder
  /\ PlacesDiffer
  /\ OnTime
  /\ InSomePlace
  /\ StoppedIsEmpty

-----------------------------------------------------------------------------
LEMMA FeedAppend ==
  ASSUME Inv, NEW e \in Entries, feed' = Append(feed, e)
  PROVE  /\ feed' \in Seq(Entries)
         /\ DOMAIN feed' = DOMAIN feed \cup {Len(feed) + 1}
         /\ \A k \in DOMAIN feed : feed'[k] = feed[k] /\ k \in Nat /\ k < Len(feed) + 1
         /\ feed'[Len(feed) + 1] = e
         /\ Len(feed) \in Nat
<1>1. feed \in Seq(Entries)
  BY DEF Inv, TimersTypeOK
<1>2. /\ feed' \in Seq(Entries) /\ Len(feed') = Len(feed) + 1
      /\ \A k \in 1..Len(feed) : feed'[k] = feed[k]
      /\ feed'[Len(feed) + 1] = e
  BY <1>1, AppendProperties
<1>3. DOMAIN feed = 1..Len(feed) /\ DOMAIN feed' = 1..(Len(feed) + 1) /\ Len(feed) \in Nat
  BY <1>1, <1>2
<1>4. QED
  BY <1>2, <1>3

LEMMA FeedTail ==
  ASSUME Inv, feed # <<>>, feed' = Tail(feed)
  PROVE  /\ feed' \in Seq(Entries)
         /\ Head(feed) \in Entries
         /\ 1 \in DOMAIN feed /\ feed[1] = Head(feed)
         /\ \A k \in DOMAIN feed' : k \in Nat /\ k > 0 /\ k + 1 \in DOMAIN feed /\ feed'[k] = feed[k + 1]
         /\ \A k \in DOMAIN feed : k # 1 => k \in Nat /\ k - 1 \in DOMAIN feed' /\ feed'[k - 1] = feed[k]
<1>1. feed \in Seq(Entries)
  BY DEF Inv, TimersTypeOK
<1>2. /\ feed' \in Seq(Entries) /\ Head(feed) \in Entries /\ Len(feed') = Len(feed) - 1
      /\ \A k \in 1..Len(feed') : feed'[k] = feed[k + 1]
  BY <1>1, HeadTailProperties
<1>3. Len(feed) \in Nat \ {0} /\ feed[1] = Head(feed)
  BY <1>1
<1>4. DOMAIN feed = 1..Len(feed) /\ DOMAIN feed' = 1..(Len(feed) - 1)
  BY <1>1, <1>2
<1>5. ASSUME NEW k \in DOMAIN feed, k # 1 PROVE k \in Nat /\ k - 1 \in DOMAIN feed' /\ feed'[k - 1] = feed[k]
  <2>1. k \in Nat /\ k - 1 \in 1..(Len(feed) - 1) /\ (k - 1) + 1 = k
    BY <1>3, <1>4, <1>5
  <2>2. QED
    BY <1>2, <1>4, <2>1
<1>6. QED
  BY <1>2, <1>3, <1>4, <1>5

\* What is pending after an entry came or went.
LEMMA AppendPending ==
  ASSUME Inv, NEW e \in Entries, feed' = Append(feed, e)
  PROVE  \A type \in {"create", "delete"}, a \in Ads :
           Pending(type, a)' <=> Pending(type, a) \/ e = Told(type, a)
  BY FeedAppend DEF Pending, Told

LEMMA TailPending ==
  ASSUME Inv, feed # <<>>, feed' = Tail(feed)
  PROVE  \A type \in {"create", "delete"}, a \in Ads :
           Pending(type, a) <=> Head(feed) = Told(type, a) \/ Pending(type, a)'
<1>1. SUFFICES ASSUME NEW type \in {"create", "delete"}, NEW a \in Ads
               PROVE  Pending(type, a) <=> Head(feed) = Told(type, a) \/ Pending(type, a)'
  OBVIOUS
<1>2. ASSUME Pending(type, a) PROVE Head(feed) = Told(type, a) \/ Pending(type, a)'
  <2>1. PICK k \in DOMAIN feed : feed[k] = Told(type, a)
    BY <1>2 DEF Pending, Told
  <2>2. CASE k = 1
    BY <2>1, <2>2, FeedTail
  <2>3. CASE k # 1
    <3>1. k - 1 \in DOMAIN feed' /\ feed'[k - 1] = Told(type, a)
      BY <2>1, <2>3, FeedTail
    <3>2. QED
      BY <3>1 DEF Pending, Told
  <2>4. QED
    BY <2>2, <2>3
<1>3. ASSUME Head(feed) = Told(type, a) \/ Pending(type, a)' PROVE Pending(type, a)
  BY <1>3, FeedTail DEF Pending, Told
<1>4. QED
  BY <1>2, <1>3

\* A new entry keeps the order when it and, before a creation, its deletion are
\* not in the feed.
LEMMA AppendOrder ==
  ASSUME Inv, NEW type \in {"create", "delete"}, NEW a \in Ads, feed' = Append(feed, Told(type, a)),
         ~Pending(type, a), ~Pending("delete", a)
  PROVE  FeedInOrder'
<1>1. Told(type, a) \in Entries
  BY DEF Told, Entries
<1>2. \A k \in DOMAIN feed : feed[k] # Told(type, a) /\ feed[k] # Told("delete", a)
  BY DEF Pending, Told
<1>3. QED
  BY <1>1, <1>2, FeedAppend DEF Inv, FeedInOrder, Told

LEMMA TailOrder ==
  ASSUME Inv, feed # <<>>, feed' = Tail(feed)
  PROVE  /\ FeedInOrder'
         /\ \A type \in {"create", "delete"}, a \in Ads : Head(feed) = Told(type, a) => ~Pending(type, a)'
<1>1. FeedInOrder /\ feed \in Seq(Entries)
  BY DEF Inv, TimersTypeOK
<1>2. FeedInOrder'
  <2>1. \A j, k \in DOMAIN feed' : feed'[j] = feed'[k] => j = k
    BY <1>1, FeedTail DEF FeedInOrder
  <2>2. \A j, k \in DOMAIN feed' : \A a \in Ads :
          feed'[j] = Told("create", a) /\ feed'[k] = Told("delete", a) => j < k
    BY <1>1, FeedTail DEF FeedInOrder
  <2>3. QED
    BY <2>1, <2>2 DEF FeedInOrder
<1>3. ASSUME NEW type \in {"create", "delete"}, NEW a \in Ads, Head(feed) = Told(type, a), Pending(type, a)'
      PROVE  FALSE
  <2>1. PICK k \in DOMAIN feed' : feed'[k] = Told(type, a)
    BY <1>3 DEF Pending, Told
  <2>2. k + 1 \in DOMAIN feed /\ feed[k + 1] = feed[1] /\ k + 1 # 1 /\ 1 \in DOMAIN feed
    BY <1>3, <2>1, FeedTail
  <2>3. QED
    BY <1>1, <2>2 DEF FeedInOrder
<1>4. QED
  BY <1>2, <1>3

-----------------------------------------------------------------------------
LEMMA InitInv == Init => Inv
<1>1. SUFFICES ASSUME Init PROVE Inv
  OBVIOUS
<1>2. feed \in Seq(Entries) /\ DOMAIN feed = {}
  BY <1>1 DEF Init
<1>3. TimersTypeOK
  <2>1. 0 \in 0..MaxTime
    BY BoundAssumption
  <2>2. life \in [Ads -> {"new", "created", "ended"}]
    BY <1>1 DEF Init
  <2>3. QED
    BY <1>1, <1>2, <2>1, <2>2 DEF Init, TimersTypeOK
<1>4. \A type \in {"create", "delete"}, a \in Ads : ~Pending(type, a)
  BY <1>2 DEF Pending
<1>5. QED
  BY <1>1, <1>2, <1>3, <1>4
  DEF Init, Inv, TimersTypeOK, FeedInOrder, PlacesDiffer, OnTime, InSomePlace, StoppedIsEmpty, Timed

\* An ad whose deletion comes next is served.
LEMMA DeleteOfServed ==
  ASSUME Inv, feed # <<>>, NEW a \in Ads, Head(feed) = Told("delete", a)
  PROVE  a \in index /\ ~Pending("create", a)
<1>1. Pending("delete", a) /\ ~Pending("create", a)
  <2>1. Pending("delete", a)
    <3>1. 1 \in DOMAIN feed /\ feed[1] = Head(feed)
      BY DEF Inv, TimersTypeOK
    <3>2. QED
      BY <3>1 DEF Pending, Told
  <2>2. ~Pending("create", a)
    <3>1. SUFFICES ASSUME Pending("create", a) PROVE FALSE
      OBVIOUS
    <3>2. PICK k \in DOMAIN feed : feed[k] = Told("create", a)
      BY <3>1 DEF Pending, Told
    <3>3. 1 \in DOMAIN feed /\ feed[1] = Told("delete", a) /\ k >= 1
      BY DEF Inv, TimersTypeOK
    <3>4. QED
      BY <3>2, <3>3 DEF Inv, FeedInOrder
  <2>3. QED
    BY <2>1, <2>2
<1>2. QED
  BY <1>1 DEF Inv, PlacesDiffer

LEMMA InvStep ==
  ASSUME ~RestoreScheduled
  PROVE  Inv /\ [Next]_vars => Inv'
<1>1. SUFFICES ASSUME Inv, [Next]_vars PROVE Inv'
  OBVIOUS
<1> USE <1>1, PeriodAssumption, BoundAssumption
    DEF Inv, TimersTypeOK, PlacesDiffer, OnTime, InSomePlace, StoppedIsEmpty, Timed
<1>2. CASE Tick
  BY <1>2 DEF Tick, FeedInOrder, Pending
<1>3. ASSUME NEW a \in Ads, PublishCreate(a) PROVE Inv'
  <2>1. CASE running
    BY <1>3, <2>1, AppendOrder, AppendPending, FeedAppend DEF PublishCreate, Send, Told, Entries
  <2>2. CASE ~running
    BY <1>3, <2>2 DEF PublishCreate, Send, FeedInOrder, Pending
  <2>3. QED
    BY <2>1, <2>2
<1>4. ASSUME NEW a \in Ads, PublishDelete(a) PROVE Inv'
  <2>1. CASE running
    BY <1>4, <2>1, AppendOrder, AppendPending, FeedAppend DEF PublishDelete, Send, Told, Entries
  <2>2. CASE ~running
    BY <1>4, <2>2 DEF PublishDelete, Send, FeedInOrder, Pending
  <2>3. QED
    BY <2>1, <2>2
<1>5. CASE Restore
  <2>1. /\ ~running /\ running' = TRUE /\ UNCHANGED <<now, life, feed>>
        /\ Scheduled = {} /\ timers' = {} /\ index' = Snapshot /\ known' = Snapshot
    BY <1>5 DEF Restore
  <2>2. \A b \in Snapshot : b \in Ads /\ life[b] = "created" /\ now > StartAt[b]
    BY <2>1 DEF Scheduled, Snapshot, Started
  <2>3. \A type \in {"create", "delete"}, b \in Ads : ~Pending(type, b) /\ ~Pending(type, b)'
    BY <2>1 DEF Pending
  <2>4. FeedInOrder'
    BY <2>1 DEF FeedInOrder
  <2>5. OnTime'
    BY <2>1, <2>2
  <2>6. QED
    BY <2>1, <2>2, <2>3, <2>4, <2>5 DEF Snapshot
<1>6. CASE ReceiveCreate
  <2>1. PICK a \in Ads : Head(feed) = Told("create", a)
    BY <1>6, FeedTail DEF ReceiveCreate, Told, Entries
  <2>2. feed # <<>> /\ feed' = Tail(feed) /\ Head(feed).ad = a /\ UNCHANGED <<now, life, running>>
    BY <1>6, <2>1 DEF ReceiveCreate, Told
  <2>3. feed' \in Seq(Entries) /\ FeedInOrder'
    BY <2>2, FeedTail, TailOrder
  <2>4. /\ Pending("create", a) /\ ~Pending("create", a)'
        /\ \A b \in Ads : Pending("delete", b)' <=> Pending("delete", b)
        /\ \A b \in Ads \ {a} : Pending("create", b)' <=> Pending("create", b)
    BY <2>1, <2>2, TailPending, TailOrder DEF Told
  <2>5. a \notin known /\ ~Timed(a) /\ life[a] # "new" /\ running
    BY <2>2, <2>4
  <2>6. CASE Started(a)
    BY <1>6, <2>2, <2>3, <2>4, <2>5, <2>6 DEF ReceiveCreate, CreateAd, Started
  <2>7. CASE ~Started(a)
    <3> DEFINE t == [at |-> StartAt[a], ad |-> a]
    <3>1. timers' = timers \cup {t} /\ UNCHANGED <<index, known>>
      BY <1>6, <2>2, <2>7 DEF ReceiveCreate, CreateAd
    <3>2. now <= StartAt[a] /\ life[a] # "ended"
      BY <2>7 DEF Started
    <3>3. t.ad = a /\ t.at = StartAt[a] /\ t \in [at : Nat, ad : Ads]
      OBVIOUS
    <3> HIDE DEF t
    <3>4. Timed(a)' /\ \A b \in Ads \ {a} : Timed(b)' <=> Timed(b)
      BY <3>1, <3>3
    <3>5. TimersTypeOK' /\ OnTime'
      BY <2>2, <2>3, <3>1, <3>2, <3>3
    <3> HIDE DEF Timed
    <3>6. PlacesDiffer'
      BY <2>2, <2>4, <2>5, <3>1, <3>2, <3>4
    <3>7. InSomePlace' /\ StoppedIsEmpty'
      BY <2>2, <2>4, <2>5, <3>1, <3>4
    <3>8. QED
      BY <2>3, <3>5, <3>6, <3>7
  <2>8. QED
    BY <2>6, <2>7
<1>7. ASSUME NEW t \in timers, Fire(t) PROVE Inv'
  <2>1. t.ad \in Ads /\ Timed(t.ad) /\ StartAt[t.ad] <= now /\ running
    BY <1>7 DEF Fire
  <2>2. \A u \in timers : u.ad = t.ad => u = t
    <3>1. \A u \in timers : u = [at |-> StartAt[u.ad], ad |-> u.ad]
      OBVIOUS
    <3>2. QED
      BY <3>1
  <2>3. ~Timed(t.ad)' /\ \A b \in Ads \ {t.ad} : Timed(b)' <=> Timed(b)
    BY <1>7, <2>2 DEF Fire
  <2>4. /\ UNCHANGED <<now, life, running, feed>>
        /\ index' = index \cup {t.ad} /\ known' = known \cup {t.ad} /\ timers' \subseteq timers
    BY <1>7 DEF Fire
  <2>5. \A type \in {"create", "delete"}, b \in Ads : Pending(type, b)' <=> Pending(type, b)
    BY <2>4 DEF Pending
  <2>6. FeedInOrder' /\ TimersTypeOK' /\ OnTime'
    BY <2>1, <2>4 DEF FeedInOrder
  <2>7. PlacesDiffer' /\ InSomePlace' /\ StoppedIsEmpty'
    BY <2>1, <2>3, <2>4, <2>5
  <2>8. QED
    BY <2>6, <2>7
<1>8. CASE ReceiveDelete
  <2>1. PICK a \in Ads : Head(feed) = Told("delete", a)
    <3>1. Head(feed) \in Entries
      BY <1>8 DEF ReceiveDelete
    <3>2. QED
      BY <1>8, <3>1 DEF ReceiveDelete, Told, Entries
  <2>2. feed # <<>> /\ Head(feed).ad = a /\ running
    BY <1>8, <2>1 DEF ReceiveDelete, Told
  <2>3. a \in index /\ ~Pending("create", a)
    BY <2>1, <2>2, DeleteOfServed
  <2>4. feed' = Tail(feed) /\ index' = index \ {a} /\ UNCHANGED <<now, life, running, timers, known>>
    BY <1>8, <2>2, <2>3 DEF ReceiveDelete
  <2>5. feed' \in Seq(Entries) /\ FeedInOrder'
    BY <2>2, <2>4, FeedTail, TailOrder
  <2>6. /\ Pending("delete", a) /\ ~Pending("delete", a)'
        /\ \A b \in Ads : Pending("create", b)' <=> Pending("create", b)
        /\ \A b \in Ads \ {a} : Pending("delete", b)' <=> Pending("delete", b)
    BY <2>1, <2>2, <2>4, TailPending, TailOrder DEF Told
  <2>7. TimersTypeOK' /\ OnTime' /\ StoppedIsEmpty'
    BY <2>2, <2>4, <2>5
  <2>8. \A b \in Ads : Timed(b)' <=> Timed(b)
    BY <2>4
  <2> HIDE DEF Timed
  <2>9. PlacesDiffer'
    <3>1. life[a] = "ended"
      BY <2>6
    <3>2. QED
      BY <2>3, <2>4, <2>6, <2>8, <3>1
  <2>10. InSomePlace'
    BY <2>3, <2>4, <2>6, <2>8
  <2>11. QED
    BY <2>5, <2>7, <2>9, <2>10
<1>9. CASE Stop
  <2>1. feed' \in Seq(Entries) /\ DOMAIN feed' = {}
    BY <1>9 DEF Stop, End
  <2>2. FeedInOrder' /\ \A type \in {"create", "delete"}, a \in Ads : ~Pending(type, a)'
    BY <2>1 DEF FeedInOrder, Pending
  <2>3. QED
    BY <1>9, <2>1, <2>2 DEF Stop, End
<1>10. CASE UNCHANGED vars
  BY <1>10 DEF vars, FeedInOrder, Pending
<1>11. QED
  BY <1>2, <1>3, <1>4, <1>5, <1>6, <1>7, <1>8, <1>9, <1>10 DEF Next

\* Types hold of snapshots with scheduled ads, too.
LEMMA TypeStep == TimersTypeOK /\ [Next]_vars => TimersTypeOK'
<1>1. SUFFICES ASSUME TimersTypeOK, [Next]_vars PROVE TimersTypeOK'
  OBVIOUS
<1> USE <1>1, PeriodAssumption, BoundAssumption DEF TimersTypeOK
<1>2. \A a \in Ads : Told("create", a) \in Entries /\ Told("delete", a) \in Entries
  BY DEF Told, Entries
<1>3. /\ <<>> \in Seq(Entries)
      /\ feed # <<>> => Tail(feed) \in Seq(Entries) /\ Head(feed).ad \in Ads
  <2>1. feed # <<>> => Tail(feed) \in Seq(Entries) /\ Head(feed) \in Entries
    BY HeadTailProperties
  <2>2. \A e \in Entries : e.ad \in Ads
    BY DEF Entries
  <2>3. QED
    BY <2>1, <2>2, EmptySeq
<1>4. CASE Tick
  BY <1>4 DEF Tick
<1>5. ASSUME NEW a \in Ads, PublishCreate(a) \/ PublishDelete(a) PROVE TimersTypeOK'
  <2>1. feed' \in {feed, Append(feed, Told("create", a)), Append(feed, Told("delete", a))}
    BY <1>5 DEF PublishCreate, PublishDelete, Send, Told
  <2>2. feed' \in Seq(Entries)
    <3>1. \A e \in Entries : Append(feed, e) \in Seq(Entries)
      BY AppendProperties
    <3>2. QED
      BY <1>2, <2>1, <3>1
  <2>3. QED
    BY <1>5, <2>2 DEF PublishCreate, PublishDelete
<1>6. CASE Restore
  <2>1. PICK seen \in [Scheduled -> Snapshot] : timers' = {[at |-> StartAt[b], ad |-> seen[b]] : b \in Scheduled}
    BY <1>6 DEF Restore
  <2>2. timers' \subseteq [at : Nat, ad : Ads]
    BY <2>1 DEF Scheduled, Snapshot
  <2>3. QED
    BY <1>6, <2>2 DEF Restore, Scheduled, Snapshot
<1>7. CASE ReceiveCreate
  <2>1. feed # <<>> /\ feed' = Tail(feed) /\ CreateAd(Head(feed).ad) /\ UNCHANGED <<now, life, running>>
    BY <1>7 DEF ReceiveCreate
  <2>2. QED
    BY <1>3, <2>1 DEF CreateAd
<1>8. ASSUME NEW t \in timers, Fire(t) PROVE TimersTypeOK'
  BY <1>8 DEF Fire
<1>9. CASE ReceiveDelete
  BY <1>3, <1>9 DEF ReceiveDelete, End
<1>10. CASE Stop
  BY <1>3, <1>10 DEF Stop, End
<1>11. CASE UNCHANGED vars
  BY <1>11 DEF vars
<1>12. QED
  BY <1>4, <1>5, <1>6, <1>7, <1>8, <1>9, <1>10, <1>11 DEF Next

\* Whatever a snapshot holds, every timer is of an ad and has a time to fire at,
\* and the clock stays within its bound (request_multiplexer.go:34-71).
THEOREM TypeCorrect == Spec => []TimersTypeOK
<1>1. Init => TimersTypeOK
  BY InitInv DEF Inv
<1>2. QED
  BY <1>1, TypeStep, PTL DEF Spec

LEMMA Invariance ==
  ASSUME ~RestoreScheduled
  PROVE  Spec => []Inv
  BY InitInv, InvStep, PTL DEF Spec

\* As long as no snapshot holds an ad that has not started, no ad is served
\* before it starts ...
THEOREM ServedHasStarted ==
  ASSUME ~RestoreScheduled
  PROVE  Spec => []NeverEarly
<1>1. Inv => NeverEarly
  BY DEF Inv, PlacesDiffer, OnTime, NeverEarly
<1>2. QED
  BY <1>1, Invariance, PTL

\* ... every ad that has started is served (request_multiplexer.go:62-71), ...
THEOREM StartedAreServed ==
  ASSUME ~RestoreScheduled
  PROVE  Spec => []StartedIsServed
<1>1. Inv => StartedIsServed
  BY PeriodAssumption, BoundAssumption
  DEF Inv, TimersTypeOK, InSomePlace, OnTime, Timed, StartedIsServed, Started
<1>2. QED
  BY <1>1, Invariance, PTL

\* ... no deletion makes the dispatcher panic, ...
THEOREM DeletesFindTheirAd ==
  ASSUME ~RestoreScheduled
  PROVE  Spec => []DeletesAreKnown
<1>1. Inv => DeletesAreKnown
  <2>1. SUFFICES ASSUME Inv, feed # <<>>, Head(feed).type = "delete" PROVE Head(feed).ad \in known
    BY DEF DeletesAreKnown
  <2>2. Head(feed) \in Entries
    BY <2>1 DEF Inv, TimersTypeOK
  <2>3. PICK a \in Ads : Head(feed) = Told("delete", a)
    BY <2>1, <2>2 DEF Entries, Told
  <2>4. a \in known /\ Head(feed).ad = a
    BY <2>1, <2>3, DeleteOfServed DEF Inv, PlacesDiffer, Told
  <2>5. QED
    BY <2>4
<1>2. QED
  BY <1>1, Invariance, PTL

\* ... and no timer brings back an ad that was dropped.
THEOREM DroppedStaysAway ==
  ASSUME ~RestoreScheduled
  PROVE  Spec => NeverBack
<1>1. Inv /\ [Next]_vars => [\A a \in known \ index : a \notin index']_vars
  <2>1. SUFFICES ASSUME Inv, Next, NEW a \in known \ index PROVE a \notin index'
    OBVIOUS
  <2> USE <2>1 DEF Inv, TimersTypeOK, PlacesDiffer, StoppedIsEmpty
  <2>2. CASE Tick \/ Stop
    BY <2>2 DEF Tick, Stop, End
  <2>3. CASE Restore \/ \E b \in Ads : PublishCreate(b) \/ PublishDelete(b)
    BY <2>3 DEF PublishCreate, PublishDelete, Restore
  <2>4. CASE ReceiveCreate
    <3>1. PICK b \in Ads : Head(feed) = Told("create", b)
      BY <2>4, FeedTail DEF ReceiveCreate, Told, Entries
    <3>2. Pending("create", b)
      BY <2>4, <3>1, TailPending DEF ReceiveCreate
    <3>3. QED
      BY <2>4, <3>1, <3>2 DEF ReceiveCreate, CreateAd, Told
  <2>5. ASSUME NEW t \in timers, Fire(t) PROVE a \notin index'
    BY <2>5 DEF Fire, Timed
  <2>6. CASE ReceiveDelete
    BY <2>6 DEF ReceiveDelete, End
  <2>7. QED
    BY <2>2, <2>3, <2>4, <2>5, <2>6 DEF Next
<1>2. QED
  BY <1>1, Invariance, PTL DEF Spec, NeverBack
=============================================================================
