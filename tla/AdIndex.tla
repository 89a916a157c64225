------------------------------ MODULE AdIndex ------------------------------
(***************************************************************************)
(* The in-memory store and its index (pkg/inmem, and GetValueByKey of      *)
(* pkg/model): a tree with one level per key, in which an ad is filed      *)
(* under every value of its key and under the zero value, by which a       *)
(* request that does not name the key finds it.                            *)
(*                                                                         *)
(* The store's mutex admits one writer; inside it, AddAd starts one        *)
(* goroutine per value on every level, and each of them first looks for    *)
(* its child and then, if there is none, makes one and sets it.  A node is *)
(* named after the ad and the goroutine that made it.                      *)
(*                                                                         *)
(* Country, Platform and Gender are slices that the same code handles: one *)
(* key stands for them.  The order inside a leaf is that of CreatedAt,     *)
(* whose fraction of a second an instance knows only of the ads of its     *)
(* snapshot: the stream carries them in JSON.                              *)
(***************************************************************************)
EXTENDS Integers, Sequences, SequencesExt

CONSTANTS
  Ads,       \* the ads that clients post, with the fields that the index uses
  Ages,      \* 2^8, the number of values of the type of AgeStart and AgeEnd
  LastStart, \* 100, the highest AgeStart that the API accepts
  MaxLimit,  \* 100
  Second,    \* how many values of CreatedAt share a second
  Countries, \* the values of the second key
  Unnamed,   \* its zero value
  Nil,       \* an element of []interface{} that was never assigned
  Nobody     \* no writer

ASSUME AdsAssumption ==
  /\ Ages \in Nat \ {0, 1} /\ Second \in Nat \ {0} /\ MaxLimit \in Nat
  /\ Unnamed \notin Countries /\ Nil \notin 0 .. Ages - 1
  /\ \A a \in Ads : /\ a = [start |-> a.start, end |-> a.end, country |-> a.country,
                            created |-> a.created, id |-> a.id]
                    /\ a.start \in 0 .. Ages - 1 /\ a.end \in 0 .. Ages - 1
                    /\ a.created \in Nat /\ a.id \in Nat
  /\ \A a, b \in Ads : a.id = b.id => a = b
  /\ Nobody \notin Ads

VARIABLES
  edges,   \* the Children of all nodes
  filed,   \* which ads each leaf's sorted set holds
  tasks,   \* the goroutines of AddAd that have not returned
  writer,  \* the ad whose creation holds the store's mutex
  stored,  \* the ads created and not deleted
  crashed  \* whether a goroutine panicked

vars == <<edges, filed, tasks, writer, stored, crashed>>

Root == <<>>

\* Faulty form of Depth: GetNextIndexKey ends a key too early.
Shallow == 1

\* How many keys GetNextIndexKey names before "".
Depth == 2

IndexTypeOK ==
  /\ \A e \in edges :
       \/ e.parent = Root /\ Len(e.child) = 2
       \/ Len(e.parent) = 2 /\ Len(e.child) = 3
  /\ \A e, f \in edges : e.parent = f.parent /\ e.value = f.value => e = f
  /\ \A l \in filed : l.ad \in Ads /\ Len(l.leaf) = 3
  /\ \A t \in tasks : t.at \in {"look", "make"} /\ t.ad \in Ads
  /\ writer \in Ads \cup {Nobody}
  /\ stored \subseteq Ads
  /\ crashed \in BOOLEAN

Init ==
  /\ edges = {}
  /\ filed = {}
  /\ tasks = {}
  /\ writer = Nobody
  /\ stored = {}
  /\ crashed = FALSE

-----------------------------------------------------------------------------
\* The binding of a POST: AgeStart is compared with itself and with its limit,
\* AgeEnd is required, and a list may be empty.
Accepts(a) ==
  /\ a.start <= LastStart
  /\ a.end # 0
  /\ a.country \in Seq(Countries)

-----------------------------------------------------------------------------
\* GetValueByKey

\* make([]interface{}, AgeEnd-AgeStart+1) in the type's arithmetic, filled by a
\* loop from AgeStart to AgeEnd, and the zero value.
AgeValues(a) ==
  [k \in 1 .. (a.end - a.start + 1) % Ages |-> IF a.start <= a.end THEN a.start + k - 1 ELSE Nil]
    \o <<0>>

\* The loop's variable never exceeds the type's last value, and its index leaves
\* the slice.
AgeLoopPanics(a) == a.start <= a.end /\ a.end = Ages - 1

ValuesByKey(a, level) == IF level = 0 THEN AgeValues(a) ELSE Append(a.country, Unnamed)

-----------------------------------------------------------------------------
\* AddAd

\* One goroutine per value, also for values that are equal.
Spawn(a, node, id, level) ==
  {[ad |-> a, id |-> Append(id, k), parent |-> node, value |-> ValuesByKey(a, level)[k], at |-> "look"] :
     k \in DOMAIN ValuesByKey(a, level)}

\* child.AddAd(ad) in the goroutine t: a leaf takes the ad, an internal node
\* starts the goroutines of the next level.
Enter(t, child) ==
  IF Len(t.id) = Depth
  THEN /\ filed' = filed \cup {[leaf |-> child, ad |-> t.ad]}
       /\ tasks' = tasks \ {t}
  ELSE /\ tasks' = (tasks \ {t}) \cup Spawn(t.ad, child, t.id, Len(t.id))
       /\ UNCHANGED filed

\* Store.CreateAd takes the mutex for its whole call of AddAd.
CreateAd(a) ==
  /\ writer = Nobody /\ ~crashed
  /\ a \notin stored /\ Accepts(a)
  /\ IF AgeLoopPanics(a)
     THEN crashed' = TRUE /\ UNCHANGED <<tasks, writer, stored>>
     ELSE /\ writer' = a
          /\ stored' = stored \cup {a}
          /\ tasks' = Spawn(a, Root, <<>>, 0)
          /\ UNCHANGED crashed
  /\ UNCHANGED <<edges, filed>>

\* Children.Get
Look(t) ==
  /\ t.at = "look"
  /\ LET children == {e.child : e \in {f \in edges : f.parent = t.parent /\ f.value = t.value}}
     IN IF children = {}
        THEN tasks' = (tasks \ {t}) \cup {[t EXCEPT !.at = "make"]} /\ UNCHANGED filed
        ELSE \E c \in children : Enter(t, c)
  /\ UNCHANGED <<edges, writer, stored, crashed>>

\* Children.Set with a new node, also over a child that was set meanwhile.
Make(t) ==
  /\ t.at = "make"
  /\ LET new == <<t.ad>> \o t.id
     IN /\ edges' = {e \in edges : e.parent # t.parent \/ e.value # t.value}
                      \cup {[parent |-> t.parent, value |-> t.value, child |-> new]}
        /\ Enter(t, new)
  /\ UNCHANGED <<writer, stored, crashed>>

\* The last wg.Wait returns and the mutex is unlocked; nodes that nothing refers
\* to any more are garbage.
Unlock ==
  /\ writer # Nobody /\ tasks = {}
  /\ writer' = Nobody
  /\ LET top == {e \in edges : e.parent = Root}
         next == {e \in edges : \E f \in top : f.child = e.parent}
     IN /\ edges' = top \cup next
        /\ filed' = {l \in filed : \E e \in next : e.child = l.leaf}
  /\ UNCHANGED <<tasks, stored, crashed>>

-----------------------------------------------------------------------------
\* The leaves that are reached from the root when level k is left by a value in
\* values[k].
Reached(values) ==
  {f.child : f \in {e \in edges :
     /\ e.value \in values[2]
     /\ \E t \in edges : t.parent = Root /\ t.value \in values[1] /\ t.child = e.parent}}

ValueSet(a, level) == {ValuesByKey(a, level)[k] : k \in DOMAIN ValuesByKey(a, level)}

\* Faulty form of DeleteAd: the ad's own ages only, not the zero value.
DeleteNamed(a) ==
  /\ writer = Nobody /\ ~crashed
  /\ a \in stored
  /\ filed' = {l \in filed : l.ad # a \/ l.leaf \notin
                 Reached(<<ValueSet(a, 0) \ {0}, ValueSet(a, 1)>>)}
  /\ stored' = stored \ {a}
  /\ UNCHANGED <<edges, tasks, writer, crashed>>

\* DeleteAd of an ad that the store's map holds.
DeleteAd(a) ==
  /\ writer = Nobody /\ ~crashed
  /\ a \in stored
  /\ filed' = {l \in filed : l.ad # a \/ l.leaf \notin Reached(<<ValueSet(a, 0), ValueSet(a, 1)>>)}
  /\ stored' = stored \ {a}
  /\ UNCHANGED <<edges, tasks, writer, crashed>>

Next ==
  \/ \E a \in Ads : CreateAd(a) \/ DeleteAd(a)
  \/ \E t \in tasks : Look(t) \/ Make(t)
  \/ Unlock

Spec == Init /\ [][Next]_vars

-----------------------------------------------------------------------------
\* GetAd

Requests == [age : 0 .. Ages - 1, country : Countries \cup {Unnamed}]

\* The request's GetValueByKey: an unnamed key has its zero value.
Named(q, level) == IF level = 0 THEN q.age ELSE q.country

\* The ads of the leaf that a request leads to.
Found(q) ==
  {l.ad : l \in {m \in filed : m.leaf \in Reached(<<{Named(q, 0)}, {Named(q, 1)}>>)}}

\* The layout in which JSON writes a time has no fraction of a second.
Marshalled(time) == (time \div Second) * Second

\* What an instance knows that has read some of the ads from the stream.
Received(ads, streamed) ==
  {IF a \in streamed THEN [a EXCEPT !.created = Marshalled(@)] ELSE a : a \in ads}

\* SortedSet.GetByRankRange: ranks from 1, both ends included.
RankRange(s, start, end) ==
  SubSeq(s, IF start < 1 THEN 1 ELSE start, IF end > Len(s) THEN Len(s) ELSE end)

\* The score of an ad: its CreatedAt in a unit.
Score(a, unit) == a.created \div unit

\* The sorted set's order is that of the scores, and of the keys where they are
\* equal.
Precedes(a, b, unit) ==
  Score(a, unit) < Score(b, unit) \/ (Score(a, unit) = Score(b, unit) /\ a.id < b.id)

\* The ad of each rank is the one that so many others precede.
InOrder(ads, unit) ==
  [r \in 1 .. Cardinality(ads) |->
     CHOOSE a \in ads : Cardinality({b \in ads : Precedes(b, a, unit)}) = r - 1]

\* Faulty form of Ranked: the score is the time itself.
RankedExactly(ads) == InOrder(ads, 1)

\* Scores are whole seconds.
Ranked(ads) == InOrder(ads, Second)

\* Faulty form of Page: its ranks are counted from 0.
PageFromZero(ads, offset, limit) == RankRange(Ranked(ads), offset + 1, offset + limit - 1)

\* IndexLeafNode.GetAd
Page(ads, offset, limit) == RankRange(Ranked(ads), offset, offset + limit)

\* Store.GetAds of a request that finds these ads: the total is that of the page.
GetAds(found, offset, limit, streamed) ==
  LET ads == Page(Received(found, streamed), offset, limit)
  IN [ads |-> ads, total |-> Len(ads)]

\* The controller's GetAd: a page outside the bounds is refused, and one that
\* finds nothing is empty.
GetAd(found, offset, limit, streamed) ==
  IF offset >= 0 /\ limit \in 1 .. MaxLimit
  THEN LET page == GetAds(found, offset, limit, streamed)
       IN [status |-> 200, ads |-> page.ads, total |-> page.total]
  ELSE [status |-> 400, ads |-> <<>>, total |-> 0]

-----------------------------------------------------------------------------
\* Properties.

\* model/ad.go:110: AgeStart <= Age <= AgeEnd, for a request that names an age.
Matches(a, q) ==
  /\ q.age = 0 \/ (a.start <= q.age /\ q.age <= a.end)
  /\ q.country = Unnamed \/ \E k \in DOMAIN a.country : a.country[k] = q.country

\* Whenever the mutex is free, every request finds exactly the stored ads that
\* match it, whatever the order in which the goroutines of AddAd looked for
\* and set the nodes they share.
FindsExactlyMatches ==
  writer = Nobody /\ ~crashed => \A q \in Requests : Found(q) = {a \in stored : Matches(a, q)}

\* The ids that a client has seen that advances its offset by the limit until a
\* page is shorter than that, when its requests reach two instances in turn.
Browsed(found, limit, here, there) ==
  LET answers == [k \in 0 .. Cardinality(found) + 1 |->
                    GetAd(found, k * limit, limit, IF k % 2 = 0 THEN here ELSE there)]
      short == CHOOSE k \in DOMAIN answers :
                 /\ answers[k].total < limit
                 /\ \A m \in 0 .. k - 1 : answers[m].total >= limit
  IN {a.id : a \in UNION {ToSet(answers[k].ads) : k \in 0 .. short}}

\* A client that turns the pages sees every ad that matches, though each of its
\* requests may reach an instance that got these ads another way: index.go:117
\* orders them by whole seconds, which both time.go:24 and the table keep.
PagesCoverAll ==
  writer = Nobody => \A found \in {Found(q) : q \in Requests}, limit \in 1 .. MaxLimit :
    \A here, there \in SUBSET found :
      Browsed(found, limit, here, there) = {a.id : a \in found}
=============================================================================
