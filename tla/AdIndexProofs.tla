--------------------------- MODULE AdIndexProofs ---------------------------
(***************************************************************************)
(* The index tree finds exactly the ads that match, for any ads, ages and  *)
(* countries.  The argument is about the goroutine that found no child and *)
(* is about to set one: every other stored ad has its whole path, so none  *)
(* of them is filed below the node that this goroutine may cut off.        *)
(* And whoever turns the pages of what a request finds sees all of it:     *)
(* whole seconds rank the ads alike on every instance, each page holds the *)
(* ranks that its offset and limit name, and the first short one the last. *)
(***************************************************************************)
EXTENDS AdIndex, SequenceTheorems, FunctionTheorems, FiniteSetTheorems, WellFoundedInduction, NaturalsInduction, TLAPS

\* The values that lead to a node, from its name.
Age(n) == ValuesByKey(n[1], 0)[n[2]]
Country(n) == ValuesByKey(n[1], 1)[n[3]]

TopEdge(e) == e.parent = Root /\ Len(e.child) = 2 /\ e.value = Age(e.child)
LowEdge(e) ==
  /\ Len(e.parent) = 2 /\ Len(e.child) = 3
  /\ e.value = Country(e.child) /\ Age(e.parent) = Age(e.child)

EdgesOK ==
  \A e \in edges :
    /\ e = [parent |-> e.parent, value |-> e.value, child |-> e.child]
    /\ TopEdge(e) \/ LowEdge(e)

\* A goroutine at the root, and one below it.
AtTop(t) ==
  /\ t.parent = Root /\ Len(t.id) = 1
  /\ \E k \in DOMAIN ValuesByKey(t.ad, 0) : t.id = <<k>> /\ t.value = ValuesByKey(t.ad, 0)[k]
BelowTop(t) ==
  /\ Len(t.parent) = 2 /\ Len(t.id) = 2
  /\ \E k \in DOMAIN ValuesByKey(t.ad, 0), j \in DOMAIN ValuesByKey(t.ad, 1) :
       /\ t.id = <<k, j>>
       /\ Age(t.parent) = ValuesByKey(t.ad, 0)[k] /\ t.value = ValuesByKey(t.ad, 1)[j]

TasksOK ==
  \A t \in tasks :
    /\ t = [ad |-> t.ad, id |-> t.id, parent |-> t.parent, value |-> t.value, at |-> t.at]
    /\ t.ad = writer /\ writer \in Ads
    /\ AtTop(t) \/ BelowTop(t)

\* An ad is filed under its own values only.
FiledOK ==
  \A l \in filed :
    /\ l.ad \in stored
    /\ Age(l.leaf) \in ValueSet(l.ad, 0) /\ Country(l.leaf) \in ValueSet(l.ad, 1)

StoredOK ==
  /\ \A a \in stored : Accepts(a) /\ ~AgeLoopPanics(a)
  /\ writer \in stored \cup {Nobody}

\* Between two creations no leaf is cut off.
AtRest ==
  writer = Nobody =>
    /\ tasks = {}
    /\ \A l \in filed : \E e, f \in edges :
         e.parent = Root /\ f.parent = e.child /\ f.child = l.leaf

IsFiled(a, x, c) ==
  \E e, f \in edges :
    /\ e.parent = Root /\ e.value = x
    /\ f.parent = e.child /\ f.value = c
    /\ [leaf |-> f.child, ad |-> a] \in filed

Others == stored \ {writer}

OthersAreFiled ==
  \A a \in Others : \A x \in ValueSet(a, 0), c \in ValueSet(a, 1) : IsFiled(a, x, c)

\* Each path of the ad that is being filed is complete or has its goroutine.
LowOnItsWay(node, c) ==
  \/ \E t \in tasks : BelowTop(t) /\ t.parent = node /\ t.value = c
  \/ \E f \in edges :
       f.parent = node /\ f.value = c /\ [leaf |-> f.child, ad |-> writer] \in filed
TopOnItsWay(x) ==
  \/ \E t \in tasks : AtTop(t) /\ t.value = x
  \/ \E e \in edges :
       /\ e.parent = Root /\ e.value = x
       /\ \A c \in ValueSet(writer, 1) : LowOnItsWay(e.child, c)
WriterIsOnItsWay == writer # Nobody => \A x \in ValueSet(writer, 0) : TopOnItsWay(x)

\* A goroutine that is about to set a child shares its path with no other ad, ...
NoneHasAge(x) == \A a \in Others : x \notin ValueSet(a, 0)
NoneHas(x, c) == \A a \in Others : x \notin ValueSet(a, 0) \/ c \notin ValueSet(a, 1)
MakersAreAlone ==
  \A t \in tasks : t.at = "make" =>
    /\ AtTop(t) => NoneHasAge(t.value)
    /\ BelowTop(t) => NoneHas(Age(t.parent), t.value)

\* ... nor does one whose parent was cut off.
ParentsStand ==
  \A t \in tasks : BelowTop(t) =>
    \/ \E e \in edges : e.parent = Root /\ e.child = t.parent
    \/ NoneHasAge(Age(t.parent))

Inv ==
  /\ IndexTypeOK
  /\ EdgesOK /\ TasksOK /\ FiledOK /\ StoredOK
  /\ AtRest
  /\ OthersAreFiled
  /\ WriterIsOnItsWay
  /\ MakersAreAlone
  /\ ParentsStand

-----------------------------------------------------------------------------
(***************************************************************************)
(* Values and names.                                                       *)
(***************************************************************************)

\* An ad whose ages the type can count is filed under each of them and under 0.
LEMMA AgesOf ==
  ASSUME NEW a \in Ads, ~AgeLoopPanics(a), NEW x \in 0 .. Ages - 1
  PROVE  x \in ValueSet(a, 0) <=> x = 0 \/ (a.start <= x /\ x <= a.end)
<1> DEFINE n == (a.end - a.start + 1) % Ages
           s == [k \in 1 .. n |-> IF a.start <= a.end THEN a.start + k - 1 ELSE Nil]
<1>1. a.start \in 0 .. Ages - 1 /\ a.end \in 0 .. Ages - 1 /\ Ages \in Nat \ {0, 1} /\ Nil \notin 0 .. Ages - 1
  BY AdsAssumption
<1>2. n \in Nat /\ (a.start <= a.end => n = a.end - a.start + 1)
  <2>1. a.start <= a.end => a.end - a.start + 1 \in 0 .. Ages - 1
    BY <1>1 DEF AgeLoopPanics
  <2>2. \A y \in 0 .. Ages - 1 : y % Ages = y
    BY <1>1
  <2>3. a.end - a.start + 1 \in Int
    BY <1>1
  <2>4. QED
    BY <1>1, <2>1, <2>2, <2>3
<1>3. s \in Seq(Int \cup {Nil}) /\ Len(s) = n /\ DOMAIN s = 1 .. n
  <2>1. \A k \in 1 .. n : (IF a.start <= a.end THEN a.start + k - 1 ELSE Nil) \in Int \cup {Nil}
    BY <1>1, <1>2
  <2>2. s \in [1 .. n -> Int \cup {Nil}]
    BY <2>1
  <2>3. QED
    BY <1>2, <2>2
<1>4. ValuesByKey(a, 0) = s \o <<0>>
  BY DEF ValuesByKey, AgeValues
<1> HIDE DEF n, s
<1>5. DOMAIN (s \o <<0>>) = 1 .. n + 1 /\ (s \o <<0>>)[n + 1] = 0 /\ \A k \in 1 .. n : (s \o <<0>>)[k] = s[k]
  BY <1>2, <1>3
<1>6. ValueSet(a, 0) = {s[k] : k \in 1 .. n} \cup {0}
  BY <1>2, <1>4, <1>5 DEF ValueSet
<1>7. CASE a.start <= a.end
  <2>1. \A k \in 1 .. n : s[k] = a.start + k - 1
    BY <1>7 DEF s
  <2>2. x \in {s[k] : k \in 1 .. n} <=> a.start <= x /\ x <= a.end
    <3>1. ASSUME a.start <= x, x <= a.end PROVE x \in {s[k] : k \in 1 .. n}
      <4>1. x - a.start + 1 \in 1 .. n /\ s[x - a.start + 1] = x
        BY <1>1, <1>2, <1>7, <2>1, <3>1
      <4>2. QED
        BY <4>1
    <3>2. QED
      BY <1>1, <1>2, <1>7, <2>1, <3>1
  <2>3. QED
    BY <1>6, <2>2
<1>8. CASE ~(a.start <= a.end)
  <2>1. \A k \in 1 .. n : s[k] = Nil
    BY <1>8 DEF s
  <2>2. QED
    BY <1>1, <1>6, <1>8, <2>1
<1>9. QED
  BY <1>7, <1>8

\* It is filed under its countries and under the unnamed one.
LEMMA CountriesOf ==
  ASSUME NEW a \in Ads, Accepts(a), NEW c
  PROVE  c \in ValueSet(a, 1) <=> c = Unnamed \/ \E k \in DOMAIN a.country : a.country[k] = c
<1>1. a.country \in Seq(Countries)
  BY DEF Accepts
<1>2. ValuesByKey(a, 1) = Append(a.country, Unnamed)
  BY DEF ValuesByKey
<1>3. /\ DOMAIN Append(a.country, Unnamed) = 1 .. Len(a.country) + 1
      /\ Append(a.country, Unnamed)[Len(a.country) + 1] = Unnamed
      /\ \A k \in 1 .. Len(a.country) : Append(a.country, Unnamed)[k] = a.country[k]
      /\ DOMAIN a.country = 1 .. Len(a.country) /\ Len(a.country) \in Nat
  BY <1>1
<1>4. QED
  BY <1>2, <1>3 DEF ValueSet

LEMMA HasUnnamed ==
  ASSUME NEW a, Accepts(a)
  PROVE  Unnamed \in ValueSet(a, 1)
<1>1. a.country \in Seq(Countries) /\ ValuesByKey(a, 1) = Append(a.country, Unnamed)
  BY DEF Accepts, ValuesByKey
<1>2. /\ Len(a.country) + 1 \in DOMAIN Append(a.country, Unnamed)
      /\ Append(a.country, Unnamed)[Len(a.country) + 1] = Unnamed
  BY <1>1
<1>3. QED
  BY <1>1, <1>2 DEF ValueSet

LEMMA Tuples ==
  ASSUME NEW a, NEW k, NEW j
  PROVE  /\ LET n == <<a>> \o <<k>> IN Len(n) = 2 /\ n[1] = a /\ n[2] = k
         /\ LET n == <<a>> \o <<k, j>> IN Len(n) = 3 /\ n[1] = a /\ n[2] = k /\ n[3] = j
<1> DEFINE S == {a, k, j}
<1>1. <<a>> \in Seq(S) /\ <<k>> \in Seq(S) /\ <<k, j>> \in Seq(S)
  OBVIOUS
<1>2. Len(<<a>>) = 1 /\ Len(<<k>>) = 1 /\ Len(<<k, j>>) = 2
  OBVIOUS
<1>3. <<a>>[1] = a /\ <<k>>[1] = k /\ <<k, j>>[1] = k /\ <<k, j>>[2] = j
  OBVIOUS
<1> HIDE DEF S
<1>4. LET n == <<a>> \o <<k>> IN Len(n) = 2 /\ n[1] = a /\ n[2] = k
  BY <1>1, <1>2, <1>3, ConcatProperties
<1>5. LET n == <<a>> \o <<k, j>> IN Len(n) = 3 /\ n[1] = a /\ n[2] = k /\ n[3] = j
  BY <1>1, <1>2, <1>3, ConcatProperties
<1>6. QED
  BY <1>4, <1>5

\* The node that a goroutine makes is reached by the values that led to it.
LEMMA NewNode ==
  ASSUME NEW t
  PROVE  LET n == <<t.ad>> \o t.id
         IN /\ AtTop(t) => Len(n) = 2 /\ Age(n) = t.value
            /\ BelowTop(t) => Len(n) = 3 /\ Age(n) = Age(t.parent) /\ Country(n) = t.value
<1>1. ASSUME AtTop(t) PROVE Len(<<t.ad>> \o t.id) = 2 /\ Age(<<t.ad>> \o t.id) = t.value
  <2>1. PICK k \in DOMAIN ValuesByKey(t.ad, 0) : t.id = <<k>> /\ t.value = ValuesByKey(t.ad, 0)[k]
    BY <1>1 DEF AtTop
  <2>2. QED
    BY <2>1, Tuples DEF Age
<1>2. ASSUME BelowTop(t)
      PROVE  /\ Len(<<t.ad>> \o t.id) = 3
             /\ Age(<<t.ad>> \o t.id) = Age(t.parent) /\ Country(<<t.ad>> \o t.id) = t.value
  <2>1. PICK k \in DOMAIN ValuesByKey(t.ad, 0), j \in DOMAIN ValuesByKey(t.ad, 1) :
          /\ t.id = <<k, j>>
          /\ Age(t.parent) = ValuesByKey(t.ad, 0)[k] /\ t.value = ValuesByKey(t.ad, 1)[j]
    BY <1>2 DEF BelowTop
  <2>2. QED
    BY <2>1, Tuples DEF Age, Country
<1>3. QED
  BY <1>1, <1>2

\* No level is another one.
LEMMA Levels ==
  /\ \A e : ~(TopEdge(e) /\ LowEdge(e)) /\ (LowEdge(e) => e.parent # Root)
  /\ \A t : ~(AtTop(t) /\ BelowTop(t)) /\ (BelowTop(t) => t.parent # Root)
  /\ \A e : (TopEdge(e) => e.child # Root)
BY DEF TopEdge, LowEdge, AtTop, BelowTop, Root

\* Every value has its goroutine.
LEMMA SpawnTop ==
  ASSUME NEW a, NEW new, new = Spawn(a, Root, <<>>, 0)
  PROVE  /\ \A u \in new :
              /\ u = [ad |-> u.ad, id |-> u.id, parent |-> u.parent, value |-> u.value, at |-> u.at]
              /\ u.ad = a /\ u.at = "look" /\ AtTop(u)
         /\ \A x \in ValueSet(a, 0) : \E u \in new : u.value = x
<1> DEFINE child(k) == [ad |-> a, id |-> <<k>>, parent |-> Root, value |-> ValuesByKey(a, 0)[k], at |-> "look"]
<1>1. new = {child(k) : k \in DOMAIN ValuesByKey(a, 0)}
  BY DEF Spawn
<1>2. ASSUME NEW u \in new
      PROVE  /\ u = [ad |-> u.ad, id |-> u.id, parent |-> u.parent, value |-> u.value, at |-> u.at]
             /\ u.ad = a /\ u.at = "look" /\ AtTop(u)
  <2>1. PICK k \in DOMAIN ValuesByKey(a, 0) : u = child(k)
    BY <1>1, <1>2
  <2>2. QED
    BY <2>1 DEF AtTop
<1>3. ASSUME NEW x \in ValueSet(a, 0) PROVE \E u \in new : u.value = x
  <2>1. PICK k \in DOMAIN ValuesByKey(a, 0) : x = ValuesByKey(a, 0)[k]
    BY <1>3 DEF ValueSet
  <2>2. child(k) \in new /\ child(k).value = x
    BY <1>1, <2>1
  <2>3. QED
    BY <2>2
<1>4. QED
  BY <1>2, <1>3

LEMMA SpawnBelow ==
  ASSUME NEW t, AtTop(t), NEW c, Len(c) = 2, Age(c) = t.value,
         NEW new, new = Spawn(t.ad, c, t.id, Len(t.id))
  PROVE  /\ \A u \in new :
              /\ u = [ad |-> u.ad, id |-> u.id, parent |-> u.parent, value |-> u.value, at |-> u.at]
              /\ u.ad = t.ad /\ u.at = "look" /\ u.parent = c /\ BelowTop(u)
         /\ \A x \in ValueSet(t.ad, 1) : \E u \in new : u.value = x
<1>1. PICK k \in DOMAIN ValuesByKey(t.ad, 0) : t.id = <<k>> /\ t.value = ValuesByKey(t.ad, 0)[k] /\ Len(t.id) = 1
  BY DEF AtTop
<1> DEFINE child(j) == [ad |-> t.ad, id |-> <<k, j>>, parent |-> c, value |-> ValuesByKey(t.ad, 1)[j], at |-> "look"]
<1>2. ASSUME NEW j PROVE Append(<<k>>, j) = <<k, j>>
  <2>1. <<k>> \in Seq({k, j}) /\ <<k, j>> \in Seq({k, j}) /\ Len(<<k>>) = 1 /\ Len(<<k, j>>) = 2
    OBVIOUS
  <2>2. /\ Append(<<k>>, j) \in Seq({k, j}) /\ Len(Append(<<k>>, j)) = 2
        /\ Append(<<k>>, j)[1] = k /\ Append(<<k>>, j)[2] = j
    BY <2>1
  <2>3. \A i \in 1 .. 2 : Append(<<k>>, j)[i] = <<k, j>>[i]
    BY <2>2
  <2>4. QED
    BY <2>1, <2>2, <2>3, SeqEqual
<1>3. new = {child(j) : j \in DOMAIN ValuesByKey(t.ad, 1)}
  <2>1. \A j : child(j) = [ad |-> t.ad, id |-> Append(t.id, j), parent |-> c,
                          value |-> ValuesByKey(t.ad, 1)[j], at |-> "look"]
    BY <1>1, <1>2
  <2>2. new = {[ad |-> t.ad, id |-> Append(t.id, j), parent |-> c, value |-> ValuesByKey(t.ad, 1)[j], at |-> "look"] :
                 j \in DOMAIN ValuesByKey(t.ad, 1)}
    BY <1>1 DEF Spawn
  <2> HIDE DEF child
  <2>3. QED
    BY <2>1, <2>2
<1>4. ASSUME NEW u \in new
      PROVE  /\ u = [ad |-> u.ad, id |-> u.id, parent |-> u.parent, value |-> u.value, at |-> u.at]
             /\ u.ad = t.ad /\ u.at = "look" /\ u.parent = c /\ BelowTop(u)
  <2>1. PICK j \in DOMAIN ValuesByKey(t.ad, 1) : u = child(j)
    BY <1>3, <1>4
  <2>2. QED
    BY <1>1, <2>1 DEF BelowTop
<1>5. ASSUME NEW x \in ValueSet(t.ad, 1) PROVE \E u \in new : u.value = x
  <2>1. PICK j \in DOMAIN ValuesByKey(t.ad, 1) : x = ValuesByKey(t.ad, 1)[j]
    BY <1>5 DEF ValueSet
  <2>2. child(j) \in new /\ child(j).value = x
    BY <1>3, <2>1
  <2>3. QED
    BY <2>2
<1>6. QED
  BY <1>4, <1>5

-----------------------------------------------------------------------------
(***************************************************************************)
(* A goroutine enters the child of its parent.                             *)
(***************************************************************************)

\* The edges once c is the child of t's parent.
Leading(t, c) ==
  {e \in edges : e.parent # t.parent \/ e.value # t.value}
    \cup {[parent |-> t.parent, value |-> t.value, child |-> c]}

\* At the root, whether the child was found or set.
LEMMA EnterTop ==
  ASSUME Inv, NEW t \in tasks, AtTop(t), NEW c, Len(c) = 2, Age(c) = t.value,
         edges' = Leading(t, c), edges' = edges \/ NoneHasAge(t.value),
         tasks' = (tasks \ {t}) \cup Spawn(t.ad, c, t.id, Len(t.id)),
         UNCHANGED <<filed, writer, stored, crashed>>
  PROVE  Inv'
<1> DEFINE new == [parent |-> t.parent, value |-> t.value, child |-> c]
           born == Spawn(t.ad, c, t.id, Len(t.id))
<1>1. /\ \A u \in born :
           /\ u = [ad |-> u.ad, id |-> u.id, parent |-> u.parent, value |-> u.value, at |-> u.at]
           /\ u.ad = t.ad /\ u.at = "look" /\ u.parent = c /\ BelowTop(u)
      /\ \A x \in ValueSet(t.ad, 1) : \E u \in born : u.value = x
  BY SpawnBelow
<1>2. t.ad = writer /\ writer \in Ads /\ t.parent = Root /\ writer # Nobody
  BY AdsAssumption DEF Inv, TasksOK, AtTop
<1>3. \A e \in edges' : e = new \/ (e \in edges /\ (e.parent # Root \/ e.value # t.value))
  BY <1>2 DEF Leading
<1>4. /\ new \in edges'
      /\ \A e \in edges : e.parent # Root \/ e.value # t.value => e \in edges'
      /\ TopEdge(new)
  BY <1>2 DEF Leading, TopEdge
<1> HIDE DEF born
<1>5. tasks' = (tasks \ {t}) \cup born
  BY DEF born
<1>6. EdgesOK'
  BY <1>3, <1>4 DEF Inv, EdgesOK, TopEdge, LowEdge
<1>7. TasksOK'
  BY <1>1, <1>2, <1>5 DEF Inv, TasksOK, AtTop, BelowTop
<1>8. IndexTypeOK'
  <2>1. \A e \in edges' : (e.parent = Root /\ Len(e.child) = 2) \/ (Len(e.parent) = 2 /\ Len(e.child) = 3)
    BY <1>6 DEF EdgesOK, TopEdge, LowEdge
  <2>2. \A e, f \in edges' : e.parent = f.parent /\ e.value = f.value => e = f
    BY <1>2, <1>3 DEF Inv, IndexTypeOK
  <2>3. \A u \in tasks' : u.at \in {"look", "make"} /\ u.ad \in Ads
    BY <1>1, <1>2, <1>5 DEF Inv, IndexTypeOK
  <2>4. QED
    BY <2>1, <2>2, <2>3 DEF Inv, IndexTypeOK
<1>9. FiledOK' /\ StoredOK' /\ AtRest'
  BY <1>2 DEF Inv, FiledOK, StoredOK, AtRest, ValueSet, Age, Country
<1>10. OthersAreFiled'
  <2>1. SUFFICES ASSUME NEW a \in Others, NEW x \in ValueSet(a, 0), NEW y \in ValueSet(a, 1)
                 PROVE  IsFiled(a, x, y)'
    BY DEF OthersAreFiled, Others
  <2>2. IsFiled(a, x, y) /\ (edges' = edges \/ x # t.value)
    BY <2>1 DEF Inv, OthersAreFiled, NoneHasAge
  <2>3. PICK e \in edges, f \in edges :
          /\ e.parent = Root /\ e.value = x /\ f.parent = e.child /\ f.value = y
          /\ [leaf |-> f.child, ad |-> a] \in filed
    BY <2>2 DEF IsFiled
  <2>4. f.parent # Root
    BY <2>3, Levels DEF Inv, EdgesOK, LowEdge
  <2>5. e \in edges' /\ f \in edges'
    BY <1>4, <2>2, <2>3, <2>4
  <2>6. QED
    BY <2>3, <2>5 DEF IsFiled
<1>11. WriterIsOnItsWay'
  <2>1. SUFFICES ASSUME NEW x \in ValueSet(writer, 0) PROVE TopOnItsWay(x)'
    BY DEF WriterIsOnItsWay
  <2>2. CASE x = t.value
    <3>1. \A y \in ValueSet(writer, 1) : \E u \in tasks' : BelowTop(u) /\ u.parent = c /\ u.value = y
      BY <1>1, <1>2, <1>5
    <3>2. new \in edges' /\ new.parent = Root /\ new.value = x /\ new.child = c
      BY <1>2, <1>4, <2>2
    <3>3. \A y \in ValueSet(writer, 1) : LowOnItsWay(new.child, y)'
      BY <3>1, <3>2 DEF LowOnItsWay, BelowTop, Age
    <3>4. QED
      BY <1>2, <3>2, <3>3 DEF TopOnItsWay
  <2>3. CASE x # t.value
    <3>1. TopOnItsWay(x)
      BY <1>2, <2>1 DEF Inv, WriterIsOnItsWay
    <3>2. CASE \E u \in tasks : AtTop(u) /\ u.value = x
      BY <1>5, <2>3, <3>2 DEF TopOnItsWay, AtTop
    <3>3. CASE \E e \in edges :
                 /\ e.parent = Root /\ e.value = x
                 /\ \A y \in ValueSet(writer, 1) : LowOnItsWay(e.child, y)
      <4>1. PICK e \in edges :
              /\ e.parent = Root /\ e.value = x
              /\ \A y \in ValueSet(writer, 1) : LowOnItsWay(e.child, y)
        BY <3>3
      <4>2. e \in edges' /\ e.child # Root
        BY <1>4, <2>3, <4>1, Levels DEF Inv, EdgesOK
      <4>3. ASSUME NEW y \in ValueSet(writer, 1) PROVE LowOnItsWay(e.child, y)'
        <5>1. LowOnItsWay(e.child, y)
          BY <4>1, <4>3
        <5>2. ASSUME NEW u \in tasks, BelowTop(u) PROVE u \in tasks'
          BY <1>5, <5>2, Levels
        <5>3. ASSUME NEW f \in edges, f.parent = e.child PROVE f \in edges'
          BY <1>4, <4>2, <5>3
        <5>4. QED
          BY <5>1, <5>2, <5>3 DEF LowOnItsWay, BelowTop, Age
      <4>4. QED
        BY <4>1, <4>2, <4>3 DEF TopOnItsWay
    <3>4. QED
      BY <3>1, <3>2, <3>3 DEF TopOnItsWay
  <2>4. QED
    BY <2>2, <2>3
<1>12. MakersAreAlone'
  BY <1>1, <1>5 DEF Inv, MakersAreAlone, NoneHasAge, NoneHas, Others, AtTop, BelowTop, Age
<1>13. ParentsStand'
  <2>1. SUFFICES ASSUME NEW u \in tasks', BelowTop(u)
                 PROVE  (\E e \in edges' : e.parent = Root /\ e.child = u.parent) \/ NoneHasAge(Age(u.parent))
    BY DEF ParentsStand, BelowTop, NoneHasAge, Others, Age, ValueSet
  <2>2. CASE u \in born
    BY <1>1, <1>2, <1>4, <2>2
  <2>3. CASE u \in tasks
    <3>1. CASE \E e \in edges : e.parent = Root /\ e.child = u.parent
      <4>1. PICK e \in edges : e.parent = Root /\ e.child = u.parent
        BY <3>1
      <4>2. e.value = Age(u.parent)
        BY <4>1, Levels DEF Inv, EdgesOK, TopEdge
      <4>3. e \in edges' \/ NoneHasAge(e.value)
        BY <1>4
      <4>4. QED
        BY <4>1, <4>2, <4>3
    <3>2. QED
      BY <2>1, <2>3, <3>1 DEF Inv, ParentsStand
  <2>4. QED
    BY <1>5, <2>1, <2>2, <2>3
<1>14. QED
  BY <1>6, <1>7, <1>8, <1>9, <1>10, <1>11, <1>12, <1>13 DEF Inv

\* Below it: the leaf takes the ad.
LEMMA EnterBelow ==
  ASSUME Inv, NEW t \in tasks, BelowTop(t), NEW c,
         Len(c) = 3, Age(c) = Age(t.parent), Country(c) = t.value,
         edges' = Leading(t, c), edges' = edges \/ NoneHas(Age(t.parent), t.value),
         tasks' = tasks \ {t},
         filed' = filed \cup {[leaf |-> c, ad |-> t.ad]},
         UNCHANGED <<writer, stored, crashed>>
  PROVE  Inv'
<1> DEFINE new == [parent |-> t.parent, value |-> t.value, child |-> c]
<1>1. /\ t.ad = writer /\ writer \in Ads /\ writer # Nobody /\ writer \in stored
      /\ t.parent # Root /\ Len(t.parent) = 2
  BY AdsAssumption, Levels DEF Inv, TasksOK, StoredOK, BelowTop
<1>2. \A e \in edges' : e = new \/ (e \in edges /\ (e.parent # t.parent \/ e.value # t.value))
  BY DEF Leading
<1>3. /\ new \in edges'
      /\ \A e \in edges : e.parent # t.parent \/ e.value # t.value => e \in edges'
      /\ LowEdge(new)
  BY <1>1 DEF Leading, LowEdge
<1>4. \A e \in edges : e.parent = Root => e \in edges'
  BY <1>1, <1>3
<1>5. EdgesOK'
  BY <1>2, <1>3 DEF Inv, EdgesOK, TopEdge, LowEdge
<1>6. TasksOK'
  BY DEF Inv, TasksOK, AtTop, BelowTop
<1>7. IndexTypeOK'
  <2>1. \A e \in edges' : (e.parent = Root /\ Len(e.child) = 2) \/ (Len(e.parent) = 2 /\ Len(e.child) = 3)
    BY <1>5 DEF EdgesOK, TopEdge, LowEdge
  <2>2. \A e, f \in edges' : e.parent = f.parent /\ e.value = f.value => e = f
    BY <1>2 DEF Inv, IndexTypeOK
  <2>3. \A l \in filed' : l.ad \in Ads /\ Len(l.leaf) = 3
    BY <1>1 DEF Inv, IndexTypeOK
  <2>4. QED
    BY <2>1, <2>2, <2>3 DEF Inv, IndexTypeOK
<1>8. FiledOK'
  <2>1. Age(c) \in ValueSet(t.ad, 0) /\ Country(c) \in ValueSet(t.ad, 1)
    BY DEF BelowTop, ValueSet
  <2>2. QED
    BY <1>1, <2>1 DEF Inv, FiledOK, ValueSet, Age, Country
<1>9. StoredOK' /\ AtRest'
  BY <1>1 DEF Inv, StoredOK, AtRest
<1>10. OthersAreFiled'
  <2>1. SUFFICES ASSUME NEW a \in Others, NEW x \in ValueSet(a, 0), NEW y \in ValueSet(a, 1)
                 PROVE  IsFiled(a, x, y)'
    BY DEF OthersAreFiled, Others
  <2>2. PICK e \in edges, f \in edges :
          /\ e.parent = Root /\ e.value = x /\ f.parent = e.child /\ f.value = y
          /\ [leaf |-> f.child, ad |-> a] \in filed
    BY <2>1 DEF Inv, OthersAreFiled, IsFiled
  <2>3. e.value = Age(e.child)
    BY <2>2, Levels DEF Inv, EdgesOK, TopEdge
  <2>4. edges' = edges \/ f.parent # t.parent \/ f.value # t.value
    BY <2>1, <2>2, <2>3 DEF NoneHas
  <2>5. e \in edges' /\ f \in edges'
    BY <1>3, <1>4, <2>2, <2>4
  <2>6. QED
    BY <2>2, <2>5 DEF IsFiled
<1>11. WriterIsOnItsWay'
  <2>1. SUFFICES ASSUME NEW x \in ValueSet(writer, 0) PROVE TopOnItsWay(x)'
    BY DEF WriterIsOnItsWay
  <2>2. TopOnItsWay(x)
    BY <1>1, <2>1 DEF Inv, WriterIsOnItsWay
  <2>3. CASE \E u \in tasks : AtTop(u) /\ u.value = x
    <3>1. PICK u \in tasks : AtTop(u) /\ u.value = x
      BY <2>3
    <3>2. u \in tasks'
      BY <3>1, Levels
    <3>3. QED
      BY <3>1, <3>2 DEF TopOnItsWay, AtTop
  <2>4. CASE \E e \in edges :
               /\ e.parent = Root /\ e.value = x
               /\ \A y \in ValueSet(writer, 1) : LowOnItsWay(e.child, y)
    <3>1. PICK e \in edges :
            /\ e.parent = Root /\ e.value = x
            /\ \A y \in ValueSet(writer, 1) : LowOnItsWay(e.child, y)
      BY <2>4
    <3>2. ASSUME NEW y \in ValueSet(writer, 1) PROVE LowOnItsWay(e.child, y)'
      <4>1. CASE e.child = t.parent /\ y = t.value
        <5>1. new.parent = e.child /\ new.value = y /\ [leaf |-> new.child, ad |-> writer] \in filed'
          BY <1>1, <4>1
        <5>2. QED
          BY <1>1, <1>3, <5>1 DEF LowOnItsWay
      <4>2. CASE e.child # t.parent \/ y # t.value
        <5>1. LowOnItsWay(e.child, y)
          BY <3>1, <3>2
        <5>2. ASSUME NEW u \in tasks, u.parent = e.child, u.value = y PROVE u \in tasks'
          BY <4>2, <5>2
        <5>3. ASSUME NEW f \in edges, f.parent = e.child, f.value = y PROVE f \in edges'
          BY <1>3, <4>2, <5>3
        <5>4. QED
          BY <5>1, <5>2, <5>3 DEF LowOnItsWay, BelowTop, Age
      <4>3. QED
        BY <4>1, <4>2
    <3>3. QED
      BY <1>4, <3>1, <3>2 DEF TopOnItsWay
  <2>5. QED
    BY <2>2, <2>3, <2>4 DEF TopOnItsWay
<1>12. MakersAreAlone' /\ ParentsStand'
  BY <1>4 DEF Inv, MakersAreAlone, ParentsStand, NoneHasAge, NoneHas, Others, AtTop, BelowTop, Age
<1>13. QED
  BY <1>5, <1>6, <1>7, <1>8, <1>9, <1>10, <1>11, <1>12 DEF Inv

-----------------------------------------------------------------------------
(***************************************************************************)
(* Every step preserves Inv.                                               *)
(***************************************************************************)

\* A goroutine that finds no child is alone with its path.
LEMMA LookInVain ==
  ASSUME Inv, NEW t \in tasks, t.at = "look",
         \A e \in edges : e.parent # t.parent \/ e.value # t.value
  PROVE  /\ AtTop(t) => NoneHasAge(t.value)
         /\ BelowTop(t) => NoneHas(Age(t.parent), t.value)
<1>1. ASSUME AtTop(t), NEW a \in Others, t.value \in ValueSet(a, 0) PROVE FALSE
  <2>1. a \in stored /\ Accepts(a)
    BY <1>1 DEF Others, Inv, StoredOK
  <2>2. Unnamed \in ValueSet(a, 1)
    BY <2>1, HasUnnamed
  <2>3. IsFiled(a, t.value, Unnamed)
    BY <1>1, <2>2 DEF Inv, OthersAreFiled
  <2>4. QED
    BY <1>1, <2>3 DEF IsFiled, AtTop
<1>2. ASSUME BelowTop(t), NEW a \in Others, Age(t.parent) \in ValueSet(a, 0), t.value \in ValueSet(a, 1)
      PROVE  FALSE
  <2>1. PICK e \in edges, f \in edges :
          /\ e.parent = Root /\ e.value = Age(t.parent) /\ f.parent = e.child /\ f.value = t.value
    <3>1. IsFiled(a, Age(t.parent), t.value)
      BY <1>2 DEF Inv, OthersAreFiled
    <3>2. QED
      BY <3>1 DEF IsFiled
  <2>2. PICK g \in edges : g.parent = Root /\ g.child = t.parent
    BY <1>2 DEF Inv, ParentsStand, NoneHasAge
  <2>3. g.value = Age(t.parent)
    BY <2>2, Levels DEF Inv, EdgesOK, TopEdge
  <2>4. e = g
    BY <2>1, <2>2, <2>3 DEF Inv, IndexTypeOK
  <2>5. QED
    BY <2>1, <2>2, <2>4
<1>3. QED
  BY <1>1, <1>2 DEF NoneHasAge, NoneHas

\* The child of an edge is a node that the goroutine may enter.
LEMMA Child ==
  ASSUME Inv, NEW t \in tasks, NEW e \in edges, e.parent = t.parent, e.value = t.value
  PROVE  /\ AtTop(t) => Len(e.child) = 2 /\ Age(e.child) = t.value
         /\ BelowTop(t) => /\ Len(e.child) = 3
                           /\ Age(e.child) = Age(t.parent) /\ Country(e.child) = t.value
         /\ Leading(t, e.child) = edges
<1>1. e = [parent |-> t.parent, value |-> t.value, child |-> e.child] /\ (TopEdge(e) \/ LowEdge(e))
  BY DEF Inv, EdgesOK
<1>2. \A f \in edges : f.parent = t.parent /\ f.value = t.value => f = e
  BY DEF Inv, IndexTypeOK
<1>3. Leading(t, e.child) = edges
  BY <1>1, <1>2 DEF Leading
<1>4. QED
  BY <1>1, <1>3, Levels DEF TopEdge, LowEdge, AtTop

\* Both levels at once.
LEMMA EnterInv ==
  ASSUME Inv, NEW t \in tasks, NEW c, Enter(t, c),
         AtTop(t) => Len(c) = 2 /\ Age(c) = t.value,
         BelowTop(t) => Len(c) = 3 /\ Age(c) = Age(t.parent) /\ Country(c) = t.value,
         edges' = Leading(t, c),
         \/ edges' = edges
         \/ /\ AtTop(t) => NoneHasAge(t.value)
            /\ BelowTop(t) => NoneHas(Age(t.parent), t.value),
         UNCHANGED <<writer, stored, crashed>>
  PROVE  Inv'
<1>1. CASE AtTop(t)
  <2>1. Len(t.id) = 1
    BY <1>1 DEF AtTop
  <2>2. tasks' = (tasks \ {t}) \cup Spawn(t.ad, c, t.id, Len(t.id)) /\ UNCHANGED filed
    BY <2>1 DEF Enter, Depth
  <2>3. QED
    BY <1>1, <2>2, EnterTop
<1>2. CASE BelowTop(t)
  <2>1. Len(t.id) = 2
    BY <1>2 DEF BelowTop
  <2>2. tasks' = tasks \ {t} /\ filed' = filed \cup {[leaf |-> c, ad |-> t.ad]}
    BY <2>1 DEF Enter, Depth
  <2>3. QED
    BY <1>2, <2>2, EnterBelow
<1>3. QED
  BY <1>1, <1>2 DEF Inv, TasksOK

LEMMA InitInv == Init => Inv
BY AdsAssumption DEF Init, Inv, IndexTypeOK, EdgesOK, TasksOK, FiledOK, StoredOK, AtRest, OthersAreFiled, Others,
   WriterIsOnItsWay, MakersAreAlone, ParentsStand

\* Nor does crashed matter to any part of Inv but its type.
LEMMA SameTree ==
  ASSUME Inv, UNCHANGED <<edges, filed, tasks, writer, stored>>, crashed' \in BOOLEAN
  PROVE  Inv'
<1>1. IndexTypeOK' /\ EdgesOK' /\ TasksOK' /\ FiledOK' /\ StoredOK' /\ AtRest'
  BY DEF Inv, IndexTypeOK, EdgesOK, TopEdge, LowEdge, TasksOK, AtTop, BelowTop, FiledOK, StoredOK, AtRest,
     Age, Country, ValueSet
<1>2. OthersAreFiled'
  <2>1. SUFFICES ASSUME NEW a \in Others, NEW x \in ValueSet(a, 0), NEW y \in ValueSet(a, 1)
                 PROVE  IsFiled(a, x, y)'
    BY DEF OthersAreFiled, Others
  <2>2. IsFiled(a, x, y)
    BY <2>1 DEF Inv, OthersAreFiled
  <2>3. QED
    BY <2>2 DEF IsFiled
<1>3. WriterIsOnItsWay'
  <2>1. SUFFICES ASSUME writer # Nobody, NEW x \in ValueSet(writer, 0) PROVE TopOnItsWay(x)'
    BY DEF WriterIsOnItsWay
  <2>2. TopOnItsWay(x)
    BY <2>1 DEF Inv, WriterIsOnItsWay
  <2>3. ASSUME NEW e, NEW y, LowOnItsWay(e.child, y) PROVE LowOnItsWay(e.child, y)'
    BY <2>3 DEF LowOnItsWay, BelowTop, Age
  <2>4. QED
    BY <2>2, <2>3 DEF TopOnItsWay, AtTop
<1>4. MakersAreAlone' /\ ParentsStand'
  BY DEF Inv, MakersAreAlone, ParentsStand, NoneHasAge, NoneHas, Others, AtTop, BelowTop, Age, ValueSet
<1>5. QED
  BY <1>1, <1>2, <1>3, <1>4 DEF Inv

LEMMA CreateInv == ASSUME Inv, NEW a \in Ads, CreateAd(a) PROVE Inv'
<1>1. writer = Nobody /\ tasks = {} /\ a \notin stored /\ Accepts(a) /\ UNCHANGED <<edges, filed>>
  BY DEF CreateAd, Inv, AtRest
<1>2. CASE AgeLoopPanics(a)
  <2>1. UNCHANGED <<edges, filed, tasks, writer, stored>> /\ crashed' = TRUE
    BY <1>2 DEF CreateAd
  <2>2. QED
    BY <2>1, SameTree
<1>3. CASE ~AgeLoopPanics(a)
  <2>1. /\ writer' = a /\ stored' = stored \cup {a} /\ UNCHANGED crashed
        /\ tasks' = Spawn(a, Root, <<>>, 0)
    BY <1>3 DEF CreateAd
  <2>2. /\ \A u \in tasks' :
             /\ u = [ad |-> u.ad, id |-> u.id, parent |-> u.parent, value |-> u.value, at |-> u.at]
             /\ u.ad = a /\ u.at = "look" /\ AtTop(u)
        /\ \A x \in ValueSet(a, 0) : \E u \in tasks' : u.value = x
    BY <2>1, SpawnTop
  <2>3. a # Nobody
    BY AdsAssumption
  <2>4. IndexTypeOK' /\ EdgesOK'
    BY <1>1, <2>1, <2>2 DEF Inv, IndexTypeOK, EdgesOK, TopEdge, LowEdge, Age, Country
  <2>5. TasksOK'
    BY <2>1, <2>2 DEF TasksOK, AtTop, BelowTop
  <2>6. FiledOK' /\ StoredOK' /\ AtRest'
    BY <1>1, <1>3, <2>1, <2>3 DEF Inv, FiledOK, StoredOK, AtRest, Age, Country, ValueSet
  <2>7. Others' = Others
    BY <1>1, <2>1, <2>3, AdsAssumption DEF Others, Inv, StoredOK, IndexTypeOK
  <2>8. OthersAreFiled'
    BY <1>1, <2>7 DEF Inv, OthersAreFiled, IsFiled
  <2>9. WriterIsOnItsWay'
    BY <2>1, <2>2 DEF WriterIsOnItsWay, TopOnItsWay, AtTop, ValueSet
  <2>10. MakersAreAlone' /\ ParentsStand'
    BY <2>2, Levels DEF MakersAreAlone, ParentsStand, AtTop, BelowTop, Age
  <2>11. QED
    BY <2>4, <2>5, <2>6, <2>8, <2>9, <2>10 DEF Inv
<1>4. QED
  BY <1>2, <1>3

LEMMA LookInv == ASSUME Inv, NEW t \in tasks, Look(t) PROVE Inv'
<1> DEFINE found == {f \in edges : f.parent = t.parent /\ f.value = t.value}
           children == {e.child : e \in found}
<1>1. t.at = "look" /\ UNCHANGED <<edges, writer, stored, crashed>>
  BY DEF Look
<1>2. CASE children = {}
  <2>1. /\ tasks' = (tasks \ {t}) \cup {[t EXCEPT !.at = "make"]} /\ UNCHANGED filed
    BY <1>2 DEF Look
  <2>2. \A e \in edges : e.parent # t.parent \/ e.value # t.value
    BY <1>2
  <2>3. /\ AtTop(t) => NoneHasAge(t.value)
        /\ BelowTop(t) => NoneHas(Age(t.parent), t.value)
    BY <1>1, <2>2, LookInVain
  <2>4. PICK u : /\ u = [ad |-> t.ad, id |-> t.id, parent |-> t.parent, value |-> t.value, at |-> "make"]
                 /\ tasks' = (tasks \ {t}) \cup {u}
    <3>1. t = [ad |-> t.ad, id |-> t.id, parent |-> t.parent, value |-> t.value, at |-> t.at]
      BY DEF Inv, TasksOK
    <3>2. [t EXCEPT !.at = "make"]
            = [ad |-> t.ad, id |-> t.id, parent |-> t.parent, value |-> t.value, at |-> "make"]
      BY <3>1
    <3>3. QED
      BY <2>1, <3>2
  <2>5. (AtTop(u) <=> AtTop(t)) /\ (BelowTop(u) <=> BelowTop(t))
    BY <2>4 DEF AtTop, BelowTop
  <2>6. IndexTypeOK' /\ EdgesOK' /\ FiledOK' /\ StoredOK' /\ OthersAreFiled'
    BY <1>1, <2>1, <2>4 DEF Inv, IndexTypeOK, EdgesOK, TopEdge, LowEdge, FiledOK, StoredOK, OthersAreFiled, Others,
       IsFiled, Age, Country, ValueSet
  <2>7. TasksOK' /\ AtRest'
    BY <1>1, <2>1, <2>4, <2>5, AdsAssumption DEF Inv, TasksOK, AtRest, AtTop, BelowTop, Age
  <2>8. WriterIsOnItsWay'
    <3>1. SUFFICES ASSUME writer # Nobody, NEW x \in ValueSet(writer, 0) PROVE TopOnItsWay(x)'
      BY <1>1 DEF WriterIsOnItsWay
    <3>2. TopOnItsWay(x)
      BY <3>1 DEF Inv, WriterIsOnItsWay
    <3>3. \A v \in tasks : \E w \in tasks' :
            (AtTop(v) => AtTop(w)) /\ (BelowTop(v) => BelowTop(w)) /\ w.value = v.value /\ w.parent = v.parent
      BY <2>4, <2>5
    <3>4. ASSUME NEW e \in edges, NEW y, LowOnItsWay(e.child, y) PROVE LowOnItsWay(e.child, y)'
      <4>1. CASE \E v \in tasks : BelowTop(v) /\ v.parent = e.child /\ v.value = y
        <5>1. \E w \in tasks' : BelowTop(w) /\ w.parent = e.child /\ w.value = y
          BY <3>3, <4>1
        <5>2. QED
          BY <5>1 DEF LowOnItsWay, BelowTop, Age
      <4>2. CASE \E f \in edges : f.parent = e.child /\ f.value = y /\ [leaf |-> f.child, ad |-> writer] \in filed
        BY <1>1, <2>1, <4>2 DEF LowOnItsWay
      <4>3. QED
        BY <3>4, <4>1, <4>2 DEF LowOnItsWay
    <3>5. QED
      BY <1>1, <3>2, <3>3, <3>4 DEF TopOnItsWay, AtTop
  <2>9. MakersAreAlone'
    BY <1>1, <2>3, <2>4, <2>5 DEF Inv, MakersAreAlone, NoneHasAge, NoneHas, Others, AtTop, BelowTop, Age
  <2>10. ParentsStand'
    <3>1. SUFFICES ASSUME NEW v \in tasks', BelowTop(v)
                   PROVE  (\E e \in edges : e.parent = Root /\ e.child = v.parent) \/ NoneHasAge(Age(v.parent))
      BY <1>1 DEF ParentsStand, BelowTop, NoneHasAge, Others, Age, ValueSet
    <3>2. \E w \in tasks : BelowTop(w) /\ w.parent = v.parent
      BY <2>4, <2>5, <3>1
    <3>3. QED
      BY <3>2 DEF Inv, ParentsStand
  <2>11. QED
    BY <2>6, <2>7, <2>8, <2>9, <2>10 DEF Inv
<1>3. CASE children # {}
  <2>1. PICK e \in edges : e.parent = t.parent /\ e.value = t.value /\ Enter(t, e.child)
    BY <1>3 DEF Look
  <2>2. /\ AtTop(t) => Len(e.child) = 2 /\ Age(e.child) = t.value
        /\ BelowTop(t) => Len(e.child) = 3 /\ Age(e.child) = Age(t.parent) /\ Country(e.child) = t.value
        /\ Leading(t, e.child) = edges
    BY <2>1, Child
  <2>3. QED
    BY <1>1, <2>1, <2>2, EnterInv
<1>4. QED
  BY <1>2, <1>3

LEMMA MakeInv == ASSUME Inv, NEW t \in tasks, Make(t) PROVE Inv'
<1> DEFINE new == <<t.ad>> \o t.id
<1>1. /\ t.at = "make" /\ edges' = Leading(t, new) /\ Enter(t, new)
      /\ UNCHANGED <<writer, stored, crashed>>
  BY DEF Make, Leading
<1>2. /\ AtTop(t) => Len(new) = 2 /\ Age(new) = t.value
      /\ BelowTop(t) => Len(new) = 3 /\ Age(new) = Age(t.parent) /\ Country(new) = t.value
  BY NewNode
<1>3. /\ AtTop(t) => NoneHasAge(t.value)
      /\ BelowTop(t) => NoneHas(Age(t.parent), t.value)
  BY <1>1 DEF Inv, MakersAreAlone
<1> HIDE DEF new
<1>4. QED
  BY <1>1, <1>2, <1>3, EnterInv

\* The writer is through: every path of its ad is complete, and what the mutex
\* lets go of holds no ad that is found.
LEMMA UnlockInv == ASSUME Inv, Unlock PROVE Inv'
<1>1. /\ writer # Nobody /\ writer \in stored /\ tasks = {} /\ tasks' = {} /\ writer' = Nobody
      /\ UNCHANGED <<stored, crashed>>
  BY DEF Unlock, Inv, StoredOK
<1>2. /\ \A e \in edges' : e \in edges
      /\ \A e \in edges : e.parent = Root => e \in edges'
      /\ \A e, f \in edges : e.parent = Root /\ f.parent = e.child => f \in edges'
  BY DEF Unlock
<1>3. \A l : l \in filed' <=> l \in filed /\ \E e, f \in edges :
              e.parent = Root /\ f.parent = e.child /\ f.child = l.leaf
  BY DEF Unlock
<1>4. IndexTypeOK'
  BY <1>1, <1>2, <1>3 DEF Inv, IndexTypeOK
<1>5. EdgesOK' /\ TasksOK' /\ FiledOK' /\ StoredOK'
  BY <1>1, <1>2, <1>3 DEF Inv, EdgesOK, TopEdge, LowEdge, TasksOK, FiledOK, StoredOK, Age, Country, ValueSet
<1>6. AtRest'
  BY <1>1, <1>2, <1>3 DEF AtRest
<1>7. OthersAreFiled'
  <2>1. SUFFICES ASSUME NEW a \in stored, NEW x \in ValueSet(a, 0), NEW y \in ValueSet(a, 1)
                 PROVE  IsFiled(a, x, y)'
    BY <1>1 DEF OthersAreFiled, Others
  <2>2. IsFiled(a, x, y)
    <3>1. CASE a # writer
      BY <3>1 DEF Inv, OthersAreFiled, Others
    <3>2. CASE a = writer
      <4>1. TopOnItsWay(x)
        BY <1>1, <3>2 DEF Inv, WriterIsOnItsWay
      <4>2. PICK e \in edges : e.parent = Root /\ e.value = x /\ LowOnItsWay(e.child, y)
        BY <1>1, <3>2, <4>1 DEF TopOnItsWay
      <4>3. QED
        BY <1>1, <3>2, <4>2 DEF LowOnItsWay, IsFiled
    <3>3. QED
      BY <3>1, <3>2
  <2>3. PICK e \in edges, f \in edges :
          /\ e.parent = Root /\ e.value = x /\ f.parent = e.child /\ f.value = y
          /\ [leaf |-> f.child, ad |-> a] \in filed
    BY <2>2 DEF IsFiled
  <2>4. [leaf |-> f.child, ad |-> a] \in filed' /\ e \in edges' /\ f \in edges'
    BY <1>2, <1>3, <2>3
  <2>5. QED
    BY <2>3, <2>4 DEF IsFiled
<1>8. WriterIsOnItsWay' /\ MakersAreAlone' /\ ParentsStand'
  BY <1>1 DEF WriterIsOnItsWay, MakersAreAlone, ParentsStand
<1>9. QED
  BY <1>4, <1>5, <1>6, <1>7, <1>8 DEF Inv

\* At rest the values of an ad reach every leaf in which it is filed.
LEMMA DeleteInv == ASSUME Inv, NEW a \in Ads, DeleteAd(a) PROVE Inv'
<1>1. /\ writer = Nobody /\ tasks = {} /\ stored' = stored \ {a}
      /\ UNCHANGED <<edges, tasks, writer, crashed>>
  BY DEF DeleteAd, Inv, AtRest
<1>2. /\ \A l \in filed' : l \in filed
      /\ \A l \in filed : l.ad # a => l \in filed'
  BY DEF DeleteAd
<1>3. ASSUME NEW l \in filed', l.ad = a PROVE FALSE
  <2>1. l \in filed /\ l.leaf \notin Reached(<<ValueSet(a, 0), ValueSet(a, 1)>>)
    BY <1>3 DEF DeleteAd
  <2>2. PICK e \in edges, f \in edges : e.parent = Root /\ f.parent = e.child /\ f.child = l.leaf
    BY <1>1, <2>1 DEF Inv, AtRest
  <2>3. TopEdge(e) /\ LowEdge(f)
    BY <2>2, Levels DEF Inv, EdgesOK, TopEdge
  <2>4. e.value \in ValueSet(a, 0) /\ f.value \in ValueSet(a, 1)
    BY <1>3, <2>1, <2>2, <2>3 DEF Inv, FiledOK, TopEdge, LowEdge
  <2>5. QED
    BY <2>1, <2>2, <2>4 DEF Reached
<1>4. IndexTypeOK'
  BY <1>1, <1>2 DEF Inv, IndexTypeOK
<1>5. EdgesOK' /\ TasksOK' /\ StoredOK' /\ AtRest'
  BY <1>1, <1>2 DEF Inv, EdgesOK, TopEdge, LowEdge, TasksOK, StoredOK, AtRest, Age, Country
<1>6. FiledOK'
  BY <1>1, <1>2, <1>3 DEF Inv, FiledOK, ValueSet, Age, Country
<1>7. OthersAreFiled'
  <2>1. SUFFICES ASSUME NEW b \in Others, b # a, NEW x \in ValueSet(b, 0), NEW y \in ValueSet(b, 1)
                 PROVE  IsFiled(b, x, y)'
    BY <1>1 DEF OthersAreFiled, Others
  <2>2. PICK e \in edges, f \in edges :
          /\ e.parent = Root /\ e.value = x /\ f.parent = e.child /\ f.value = y
          /\ [leaf |-> f.child, ad |-> b] \in filed
    BY <2>1 DEF Inv, OthersAreFiled, IsFiled
  <2>3. [leaf |-> f.child, ad |-> b] \in filed'
    BY <1>2, <2>1, <2>2
  <2>4. QED
    BY <1>1, <2>2, <2>3 DEF IsFiled
<1>8. WriterIsOnItsWay' /\ MakersAreAlone' /\ ParentsStand'
  BY <1>1 DEF WriterIsOnItsWay, MakersAreAlone, ParentsStand
<1>9. QED
  BY <1>4, <1>5, <1>6, <1>7, <1>8 DEF Inv

LEMMA InvStep == Inv /\ [Next]_vars => Inv'
<1> SUFFICES ASSUME Inv, [Next]_vars PROVE Inv'
  OBVIOUS
<1>1. ASSUME NEW a \in Ads, CreateAd(a) PROVE Inv'
  BY <1>1, CreateInv
<1>2. ASSUME NEW a \in Ads, DeleteAd(a) PROVE Inv'
  BY <1>2, DeleteInv
<1>3. ASSUME NEW t \in tasks, Look(t) PROVE Inv'
  BY <1>3, LookInv
<1>4. ASSUME NEW t \in tasks, Make(t) PROVE Inv'
  BY <1>4, MakeInv
<1>5. CASE Unlock
  BY <1>5, UnlockInv
<1>6. CASE UNCHANGED vars
  <2>1. UNCHANGED <<edges, filed, tasks, writer, stored>> /\ crashed' \in BOOLEAN
    BY <1>6 DEF vars, Inv, IndexTypeOK
  <2>2. QED
    BY <2>1, SameTree
<1>7. QED
  BY <1>1, <1>2, <1>3, <1>4, <1>5, <1>6 DEF Next

LEMMA Invariance == Spec => []Inv
<1>1. QED
  BY InitInv, InvStep, PTL DEF Spec

-----------------------------------------------------------------------------
(***************************************************************************)
(* What the tree promises.                                                 *)
(***************************************************************************)

\* The nodes of the tree have their levels, and no node has two children for
\* one value (Children.Set replaces), in every state of any calls of CreateAd
\* and DeleteAd and any interleaving of AddAd's goroutines.
THEOREM IndexTypeCorrect == Spec => []IndexTypeOK
<1>1. Inv => IndexTypeOK
  BY DEF Inv
<1>2. QED
  BY <1>1, Invariance, PTL

LEMMA InvFinds == Inv => FindsExactlyMatches
<1> SUFFICES ASSUME Inv, writer = Nobody, NEW q \in Requests
             PROVE  Found(q) = {a \in stored : Matches(a, q)}
  BY DEF FindsExactlyMatches
<1>1. q.age \in 0 .. Ages - 1 /\ Named(q, 0) = q.age /\ Named(q, 1) = q.country
  BY DEF Requests, Named
<1>2. ASSUME NEW a \in stored
      PROVE  Matches(a, q) <=> q.age \in ValueSet(a, 0) /\ q.country \in ValueSet(a, 1)
  <2>1. a \in Ads /\ Accepts(a) /\ ~AgeLoopPanics(a)
    BY DEF Inv, IndexTypeOK, StoredOK
  <2>2. q.age \in ValueSet(a, 0) <=> q.age = 0 \/ (a.start <= q.age /\ q.age <= a.end)
    BY <1>1, <2>1, AgesOf
  <2>3. q.country \in ValueSet(a, 1)
          <=> q.country = Unnamed \/ \E k \in DOMAIN a.country : a.country[k] = q.country
    BY <2>1, CountriesOf
  <2>4. QED
    BY <2>2, <2>3 DEF Matches
<1>3. ASSUME NEW a \in stored, Matches(a, q) PROVE a \in Found(q)
  <2>1. a \in Others
    BY AdsAssumption DEF Others, Inv, IndexTypeOK
  <2>2. IsFiled(a, q.age, q.country)
    BY <1>2, <1>3, <2>1 DEF Inv, OthersAreFiled
  <2>3. PICK e \in edges, f \in edges :
          /\ e.parent = Root /\ e.value = q.age /\ f.parent = e.child /\ f.value = q.country
          /\ [leaf |-> f.child, ad |-> a] \in filed
    BY <2>2 DEF IsFiled
  <2>4. f.child \in Reached(<<{Named(q, 0)}, {Named(q, 1)}>>)
    BY <1>1, <2>3 DEF Reached
  <2>5. QED
    BY <2>3, <2>4 DEF Found
<1>4. ASSUME NEW a \in Found(q) PROVE a \in stored /\ Matches(a, q)
  <2>1. PICK l \in filed : l.ad = a /\ l.leaf \in Reached(<<{q.age}, {q.country}>>)
    BY <1>1, <1>4 DEF Found
  <2>2. PICK f \in edges, e \in edges :
          /\ f.child = l.leaf /\ f.value = q.country
          /\ e.parent = Root /\ e.value = q.age /\ e.child = f.parent
    BY <2>1 DEF Reached
  <2>3. TopEdge(e) /\ LowEdge(f)
    BY <2>2, Levels DEF Inv, EdgesOK, TopEdge
  <2>4. q.age \in ValueSet(a, 0) /\ q.country \in ValueSet(a, 1) /\ a \in stored
    BY <2>1, <2>2, <2>3 DEF Inv, FiledOK, TopEdge, LowEdge
  <2>5. QED
    BY <1>2, <2>4
<1>5. QED
  BY <1>3, <1>4 DEF Found

\* Whenever the store's mutex is free, every request finds exactly the stored
\* ads that match it: for any ads that the API accepts, any ages and countries
\* and any order in which the goroutines of AddAd look for and set the nodes
\* they share.
THEOREM FindsMatches == Spec => []FindsExactlyMatches
<1>1. QED
  BY InvFinds, Invariance, PTL

-----------------------------------------------------------------------------
(***************************************************************************)
(* Ranks and pages.                                                        *)
(***************************************************************************)

\* What the order of a leaf needs of its ads.
Ordered(S) ==
  /\ \A a \in S : a.created \in Nat /\ a.id \in Nat
  /\ \A a, b \in S : a.id = b.id => a = b

Below(S, a) == {b \in S : Precedes(b, a, Second)}

\* How many ads of S come before a.
Rank(S, a) == Cardinality(Below(S, a))

LEMMA Scores ==
  ASSUME NEW t \in Nat
  PROVE  /\ t \div Second \in Nat /\ Marshalled(t) \in Nat
         /\ Marshalled(t) \div Second = t \div Second
  BY AdsAssumption DEF Marshalled

LEMMA StrictOrder ==
  ASSUME NEW S, Ordered(S)
  PROVE  /\ \A a \in S : ~Precedes(a, a, Second)
         /\ \A a, b \in S : a # b => Precedes(a, b, Second) \/ Precedes(b, a, Second)
         /\ \A a, b, c \in S : Precedes(a, b, Second) /\ Precedes(b, c, Second) => Precedes(a, c, Second)
<1>1. \A a \in S : Score(a, Second) \in Nat /\ a.id \in Nat
  BY Scores DEF Ordered, Score
<1>2. QED
  BY <1>1 DEF Ordered, Precedes

LEMMA RankBounds ==
  ASSUME NEW S, IsFiniteSet(S), Ordered(S), NEW a \in S
  PROVE  IsFiniteSet(Below(S, a)) /\ Rank(S, a) \in 0 .. Cardinality(S) - 1 /\ Cardinality(S) \in Nat
<1>1. Below(S, a) \in SUBSET (S \ {a})
  BY StrictOrder DEF Below
<1>2. IsFiniteSet(S \ {a}) /\ Cardinality(S \ {a}) = Cardinality(S) - 1 /\ Cardinality(S) \in Nat
  BY FS_RemoveElement, FS_CardinalityType
<1>3. IsFiniteSet(Below(S, a)) /\ Cardinality(Below(S, a)) <= Cardinality(S \ {a})
  BY <1>1, <1>2, FS_Subset
<1>4. QED
  BY <1>2, <1>3, FS_CardinalityType DEF Rank

\* Whoever comes earlier has the lower rank.
LEMMA RankGrows ==
  ASSUME NEW S, IsFiniteSet(S), Ordered(S), NEW a \in S, NEW b \in S, Precedes(a, b, Second)
  PROVE  Rank(S, a) < Rank(S, b)
<1>1. a \notin Below(S, a) /\ Below(S, a) \cup {a} \in SUBSET Below(S, b)
  BY StrictOrder DEF Below
<1>2. IsFiniteSet(Below(S, a)) /\ IsFiniteSet(Below(S, b)) /\ Rank(S, a) \in Nat /\ Rank(S, b) \in Nat
  BY RankBounds
<1>3. Cardinality(Below(S, a) \cup {a}) = Rank(S, a) + 1
  BY <1>1, <1>2, FS_AddElement DEF Rank
<1>4. Cardinality(Below(S, a) \cup {a}) <= Rank(S, b)
  BY <1>1, <1>2, FS_Subset DEF Rank
<1>5. QED
  BY <1>2, <1>3, <1>4

LEMMA RanksDiffer ==
  ASSUME NEW S, IsFiniteSet(S), Ordered(S), NEW a \in S, NEW b \in S, Rank(S, a) = Rank(S, b)
  PROVE  a = b
<1>1. Rank(S, a) \in Nat /\ Rank(S, b) \in Nat
  BY RankBounds
<1>2. ~Precedes(a, b, Second) /\ ~Precedes(b, a, Second)
  BY <1>1, RankGrows
<1>3. QED
  BY <1>2, StrictOrder

\* Every rank is taken: there are as many ranks as ads.
LEMMA RanksTaken ==
  ASSUME NEW S, IsFiniteSet(S), Ordered(S), NEW r \in 1 .. Cardinality(S)
  PROVE  \E a \in S : Rank(S, a) = r - 1
<1> DEFINE n == Cardinality(S)
           U == 1 .. n
           f == [a \in S |-> Rank(S, a) + 1]
<1>1. n \in Nat /\ IsFiniteSet(1 .. n) /\ Cardinality(1 .. n) = n
  <2>1. n \in Nat
    BY FS_CardinalityType
  <2>2. QED
    BY <2>1, FS_Interval
<1>2. \A a \in S : Rank(S, a) \in 0 .. n - 1
  BY RankBounds
<1>3. f \in Injection(S, 1 .. n)
  <2>1. f \in [S -> 1 .. n]
    BY <1>1, <1>2
  <2>2. \A a, b \in S : f[a] = f[b] => Rank(S, a) = Rank(S, b)
    BY <1>1, <1>2
  <2>3. \A a, b \in S : f[a] = f[b] => a = b
    BY <2>2, RanksDiffer
  <2>4. QED
    BY <2>1, <2>3, Fun_IsInj
<1>4. f \in Surjection(S, U)
  <2>1. f \in Injection(S, U) /\ IsFiniteSet(U) /\ Cardinality(S) = Cardinality(U)
    BY <1>1, <1>3
  <2> HIDE DEF f, U
  <2>2. QED
    BY <2>1, FS_Injection
<1>5. PICK a \in S : f[a] = r
  <2>1. r \in U
    OBVIOUS
  <2> HIDE DEF f, U
  <2>2. QED
    BY <1>4, <2>1, Fun_SurjectionProperties
<1>6. QED
  BY <1>1, <1>2, <1>5

LEMMA RankedProperties ==
  ASSUME NEW S, IsFiniteSet(S), Ordered(S)
  PROVE  /\ Cardinality(S) \in Nat
         /\ Ranked(S) \in [1 .. Cardinality(S) -> S]
         /\ \A r \in 1 .. Cardinality(S) : Rank(S, Ranked(S)[r]) = r - 1
<1>1. Cardinality(S) \in Nat
  BY FS_CardinalityType
<1>2. Ranked(S) = [r \in 1 .. Cardinality(S) |-> CHOOSE a \in S : Rank(S, a) = r - 1]
  BY DEF Ranked, InOrder, Rank, Below
<1>3. ASSUME NEW r \in 1 .. Cardinality(S)
      PROVE  LET a == CHOOSE a \in S : Rank(S, a) = r - 1 IN a \in S /\ Rank(S, a) = r - 1
  BY RanksTaken
<1>4. QED
  BY <1>1, <1>2, <1>3

\* An ad as an instance knows it that has read those of T from the stream.
Rec(a, T) == IF a \in T THEN [a EXCEPT !.created = Marshalled(@)] ELSE a

LEMMA RecKeepsOrder ==
  ASSUME NEW a \in Ads, NEW T
  PROVE  Rec(a, T).id = a.id /\ Rec(a, T).created \in Nat /\ Score(Rec(a, T), Second) = Score(a, Second)
<1>1. a = [start |-> a.start, end |-> a.end, country |-> a.country, created |-> a.created, id |-> a.id]
      /\ a.created \in Nat
  BY AdsAssumption
<1>2. Marshalled(a.created) \in Nat /\ Marshalled(a.created) \div Second = a.created \div Second
  BY <1>1, Scores
<1>3. [a EXCEPT !.created = Marshalled(@)]
        = [start |-> a.start, end |-> a.end, country |-> a.country, created |-> Marshalled(a.created), id |-> a.id]
  BY <1>1
<1>4. QED
  BY <1>1, <1>2, <1>3 DEF Rec, Score

LEMMA RecCount ==
  ASSUME NEW S \in SUBSET Ads, IsFiniteSet(S), NEW T
  PROVE  LET R == {Rec(a, T) : a \in S} IN IsFiniteSet(R) /\ Cardinality(R) = Cardinality(S)
<1> DEFINE R == {Rec(a, T) : a \in S}
           f == [a \in S |-> Rec(a, T)]
<1>1. \A a, b \in S : Rec(a, T) = Rec(b, T) => a = b
  <2>1. ASSUME NEW a \in S, NEW b \in S, Rec(a, T) = Rec(b, T) PROVE a = b
    <3>1. Rec(a, T).id = a.id /\ Rec(b, T).id = b.id
      BY RecKeepsOrder
    <3>2. QED
      BY <2>1, <3>1, AdsAssumption
  <2>2. QED
    BY <2>1
<1>2. f \in [S -> R] /\ (\A a, b \in S : f[a] = f[b] => a = b) /\ (\A t \in R : \E a \in S : f[a] = t)
  BY <1>1
<1> HIDE DEF f, R
<1>3. f \in Bijection(S, R)
  BY <1>2, Fun_IsBij
<1>4. ExistsBijection(S, R)
  BY <1>3 DEF ExistsBijection
<1>5. IsFiniteSet(R) /\ Cardinality(R) = Cardinality(S)
  BY <1>4, FS_Bijection
<1>6. QED
  BY <1>5 DEF R

\* The stream changes no ad's rank.
LEMMA SameRanks ==
  ASSUME NEW S \in SUBSET Ads, IsFiniteSet(S), NEW T
  PROVE  /\ IsFiniteSet(Received(S, T)) /\ Ordered(Received(S, T))
         /\ Cardinality(Received(S, T)) = Cardinality(S)
         /\ \A b \in Received(S, T) : \E a \in S : b = Rec(a, T)
         /\ \A a \in S : Rec(a, T) \in Received(S, T) /\ Rank(Received(S, T), Rec(a, T)) = Rank(S, a)
<1> DEFINE R == Received(S, T)
<1>1. R = {Rec(a, T) : a \in S}
  BY DEF Received, Rec
<1>2. IsFiniteSet(R) /\ Cardinality(R) = Cardinality(S)
  BY <1>1, RecCount
<1>3. \A a \in S : /\ Rec(a, T).id = a.id /\ Rec(a, T).created \in Nat
                   /\ Score(Rec(a, T), Second) = Score(a, Second) /\ a.id \in Nat
  BY RecKeepsOrder, AdsAssumption
<1>4. Ordered(R)
  BY <1>1, <1>3, AdsAssumption DEF Ordered
<1>5. ASSUME NEW a \in S PROVE Rank(R, Rec(a, T)) = Rank(S, a)
  <2>1. \A b \in S : Precedes(Rec(b, T), Rec(a, T), Second) <=> Precedes(b, a, Second)
    BY <1>3 DEF Precedes
  <2>2. Below(R, Rec(a, T)) = {Rec(b, T) : b \in Below(S, a)}
    <3> HIDE DEF R
    <3>1. \A c : c \in Below(R, Rec(a, T)) <=> \E b \in Below(S, a) : c = Rec(b, T)
      BY <1>1, <2>1 DEF Below
    <3>2. QED
      BY <3>1
  <2>3. Below(S, a) \in SUBSET Ads /\ IsFiniteSet(Below(S, a))
    <3>1. Below(S, a) \in SUBSET S
      BY DEF Below
    <3>2. QED
      BY <3>1, FS_Subset
  <2>4. QED
    BY <2>2, <2>3, RecCount DEF Rank
<1>6. QED
  BY <1>1, <1>2, <1>4, <1>5

\* The ranks of a page, and what an answer's total is.
FirstRank(offset) == IF offset < 1 THEN 1 ELSE offset
LastRank(n, offset, limit) == IF offset + limit > n THEN n ELSE offset + limit

\* A page holds ads that were found, and all of its ranks.
LEMMA PageOf ==
  ASSUME NEW S \in SUBSET Ads, IsFiniteSet(S), NEW T, NEW offset \in Nat, NEW limit \in 1 .. MaxLimit
  PROVE  LET n == Cardinality(S)
             first == FirstRank(offset)
             last == LastRank(n, offset, limit)
             answer == GetAd(S, offset, limit, T)
         IN /\ answer.total = IF first <= last THEN last - first + 1 ELSE 0
            /\ \A b \in ToSet(answer.ads) : \E a \in S : b.id = a.id
            /\ \A a \in S : first <= Rank(S, a) + 1 /\ Rank(S, a) + 1 <= last =>
                 \E b \in ToSet(answer.ads) : b.id = a.id
<1> DEFINE n == Cardinality(S)
           R == Received(S, T)
           s == Ranked(R)
           first == FirstRank(offset)
           last == LastRank(n, offset, limit)
           page == SubSeq(s, first, last)
           answer == GetAd(S, offset, limit, T)
<1>1. /\ IsFiniteSet(R) /\ Ordered(R) /\ Cardinality(R) = n
      /\ \A b \in R : \E a \in S : b = Rec(a, T)
      /\ \A a \in S : Rec(a, T) \in R /\ Rank(R, Rec(a, T)) = Rank(S, a)
  BY SameRanks
<1>2. /\ n \in Nat
      /\ s \in [1 .. n -> R]
      /\ \A r \in 1 .. n : Rank(R, s[r]) = r - 1
  <2> HIDE DEF R
  <2>1. QED
    BY <1>1, RankedProperties
<1>3. Len(s) = n
  <2> HIDE DEF s, n
  <2>1. QED
    BY <1>2, LenProperties
<1>4. MaxLimit \in Nat /\ limit \in Nat \ {0}
  BY AdsAssumption
<1>5. first \in Nat \ {0} /\ last \in Nat /\ last <= n
  BY <1>2, <1>4 DEF FirstRank, LastRank
<1>6. answer.ads = page /\ answer.total = Len(page)
  <2>1. Page(R, offset, limit) = page
    BY <1>3 DEF Page, RankRange, FirstRank, LastRank
  <2>2. GetAd(S, offset, limit, T)
          = [status |-> 200, ads |-> Page(R, offset, limit), total |-> Len(Page(R, offset, limit))]
    BY <1>4 DEF GetAd, GetAds
  <2> HIDE DEF page
  <2>3. QED
    BY <2>1, <2>2
<1> HIDE DEF answer, s, first, last, n, R
<1>7. \A i \in first .. last : i \in 1 .. n /\ s[i] \in R
  BY <1>2, <1>5
<1>8. /\ page \in Seq(R)
      /\ Len(page) = IF first <= last THEN last - first + 1 ELSE 0
      /\ \A i \in 1 .. last - first + 1 : page[i] = s[first + i - 1]
  BY <1>5, <1>7, SubSeqProperties
<1> HIDE DEF page
<1>9. \A b : b \in ToSet(answer.ads) <=> \E i \in 1 .. Len(page) : b = page[i]
  BY <1>6, <1>8 DEF ToSet
<1>10. ASSUME NEW b \in ToSet(answer.ads) PROVE \E a \in S : b.id = a.id
  <2>1. b \in R
    BY <1>8, <1>9, <1>10
  <2>2. PICK a \in S : b = Rec(a, T)
    BY <1>1, <2>1
  <2>3. QED
    BY <2>2, RecKeepsOrder
<1>11. ASSUME NEW a \in S, first <= Rank(S, a) + 1, Rank(S, a) + 1 <= last
       PROVE  \E b \in ToSet(answer.ads) : b.id = a.id
  <2> DEFINE r == Rank(S, a) + 1
  <2>1. Rank(S, a) \in Nat
    <3>1. Ordered(S)
      BY AdsAssumption DEF Ordered
    <3>2. Rank(S, a) \in 0 .. Cardinality(S) - 1
      BY <3>1, RankBounds
    <3>3. QED
      BY <3>2
  <2>2. r \in first .. last /\ r - first + 1 \in 1 .. last - first + 1 /\ first <= last
    BY <1>5, <1>11, <2>1
  <2>3. page[r - first + 1] = s[r] /\ r - first + 1 \in 1 .. Len(page)
    <3>1. page[r - first + 1] = s[first + (r - first + 1) - 1]
      BY <1>8, <2>2
    <3>2. first + (r - first + 1) - 1 = r
      BY <1>5, <2>1
    <3>3. QED
      BY <1>8, <2>2, <3>1, <3>2
  <2>4. r \in 1 .. n /\ s[r] \in R /\ Rank(R, s[r]) = Rank(S, a)
    BY <1>2, <1>7, <2>1, <2>2
  <2>5. s[r] = Rec(a, T)
    BY <1>1, <2>4, RanksDiffer
  <2>6. s[r] \in ToSet(answer.ads) /\ s[r].id = a.id
    BY <1>9, <2>3, <2>5, RecKeepsOrder
  <2>7. QED
    BY <2>6
<1>12. answer.total = IF first <= last THEN last - first + 1 ELSE 0
  BY <1>6, <1>8
<1>13. QED
  BY <1>10, <1>11, <1>12 DEF answer, first, last, n

\* The numbers have no endless descent.
LEMMA Least ==
  ASSUME NEW T \in SUBSET Nat, T # {}
  PROVE  \E m \in T : \A k \in 0 .. m - 1 : k \notin T
<1>1. PICK m \in T : \A k \in T : ~(<<k, m>> \in OpToRel(<, Nat))
  BY NatLessThanWellFounded, WFMin
<1>2. \A k \in T : ~(k < m)
  BY <1>1 DEF OpToRel
<1>3. QED
  BY <1>2

\* A client that advances its offset by the limit until a page is shorter than
\* that meets a short page, and the pages up to it hold every rank.
LEMMA BrowsedAll ==
  ASSUME NEW S \in SUBSET Ads, IsFiniteSet(S), NEW limit \in 1 .. MaxLimit, NEW here, NEW there
  PROVE  Browsed(S, limit, here, there) = {a.id : a \in S}
<1> DEFINE n == Cardinality(S)
           D == 0 .. n + 1
           T(k) == IF k % 2 = 0 THEN here ELSE there
           answers == [k \in D |-> GetAd(S, k * limit, limit, T(k))]
           Short(k) == /\ answers[k].total < limit
                       /\ \A m \in 0 .. k - 1 : answers[m].total >= limit
           short == CHOOSE k \in D : Short(k)
<1>1. n \in Nat /\ limit \in Nat \ {0} /\ Ordered(S)
  BY FS_CardinalityType, AdsAssumption DEF Ordered
<1>2. DOMAIN answers = D
  OBVIOUS
<1>3. ASSUME NEW k \in D
      PROVE  LET first == FirstRank(k * limit)
                 last == LastRank(n, k * limit, limit)
             IN /\ answers[k].total = IF first <= last THEN last - first + 1 ELSE 0
                /\ \A b \in ToSet(answers[k].ads) : \E a \in S : b.id = a.id
                /\ \A a \in S : first <= Rank(S, a) + 1 /\ Rank(S, a) + 1 <= last =>
                     \E b \in ToSet(answers[k].ads) : b.id = a.id
  <2> DEFINE offset == k * limit
             streamed == T(k)
  <2>1. answers[k] = GetAd(S, offset, limit, streamed)
    OBVIOUS
  <2>2. offset \in Nat
    BY <1>1
  <2> HIDE DEF answers, T, offset, streamed
  <2>3. LET first == FirstRank(offset)
            last == LastRank(Cardinality(S), offset, limit)
            answer == GetAd(S, offset, limit, streamed)
        IN /\ answer.total = IF first <= last THEN last - first + 1 ELSE 0
           /\ \A b \in ToSet(answer.ads) : \E a \in S : b.id = a.id
           /\ \A a \in S : first <= Rank(S, a) + 1 /\ Rank(S, a) + 1 <= last =>
                \E b \in ToSet(answer.ads) : b.id = a.id
    BY <2>2, PageOf
  <2>4. QED
    BY <2>1, <2>3 DEF offset
<1> HIDE DEF answers, T
<1>4. \E k \in D : Short(k)
  <2> DEFINE U == {k \in D : answers[k].total < limit}
  <2>1. n + 1 \in U
    <3>1. (n + 1) * limit \in Nat /\ (n + 1) * limit >= n + 1
      BY <1>1
    <3>2. answers[n + 1].total = 0
      BY <1>1, <1>3, <3>1 DEF FirstRank, LastRank
    <3>3. QED
      BY <1>1, <3>2
  <2>2. U \in SUBSET Nat /\ U # {}
    BY <1>1, <2>1
  <2>3. PICK m \in U : \A k \in 0 .. m - 1 : k \notin U
    <3> HIDE DEF U
    <3>1. QED
      BY <2>2, Least
  <2>4. ASSUME NEW k \in 0 .. m - 1 PROVE answers[k].total >= limit
    <3>1. k \in D /\ ~(answers[k].total < limit)
      BY <1>1, <2>3
    <3>2. answers[k].total \in Int
      BY <1>1, <1>3, <3>1 DEF FirstRank, LastRank
    <3>3. QED
      BY <1>1, <3>1, <3>2
  <2>5. QED
    BY <2>3, <2>4
<1>5. short \in D /\ answers[short].total < limit
  BY <1>4
<1>6. Browsed(S, limit, here, there) = {a.id : a \in UNION {ToSet(answers[k].ads) : k \in 0 .. short}}
  BY <1>2 DEF Browsed, answers, T
<1> HIDE DEF short, Short
\* The last page that is turned reaches the last rank.
<1>7. n <= short * limit + limit
  <2> DEFINE offset == short * limit
             first == FirstRank(offset)
             last == LastRank(n, offset, limit)
  <2>1. offset \in Nat
    BY <1>1, <1>5
  <2>2. answers[short].total = IF first <= last THEN last - first + 1 ELSE 0
    BY <1>3, <1>5
  <2> HIDE DEF offset
  <2>3. first \in Int /\ last \in Int /\ (offset + limit < n => last - first + 1 >= limit /\ first <= last)
    BY <1>1, <2>1 DEF FirstRank, LastRank
  <2> HIDE DEF n, first, last
  <2>4. ~(offset + limit < n)
    BY <1>5, <2>2, <2>3
  <2>5. QED
    BY <1>1, <2>1, <2>4 DEF n, offset
<1>8. ASSUME NEW a \in S
      PROVE  \E k \in 0 .. short : \E b \in ToSet(answers[k].ads) : b.id = a.id
  <2> DEFINE r == Rank(S, a) + 1
             q == r \div limit
  <2>1. r \in 1 .. n
    BY <1>1, RankBounds
  <2>2. q \in Nat /\ q * limit <= r /\ r <= q * limit + limit
    BY <1>1, <2>1
  <2>3. PICK k \in 0 .. short : k \in D /\ k * limit \in Nat /\ k * limit <= r /\ r <= k * limit + limit
    <3>1. CASE q <= short
      <4>1. q \in 0 .. short /\ q \in D /\ q * limit \in Nat
        BY <1>1, <1>5, <2>2, <3>1
      <4>2. QED
        BY <2>2, <4>1
    <3>2. CASE ~(q <= short)
      <4>1. short * limit \in Nat /\ q * limit \in Nat /\ short * limit <= q * limit
        <5>1. short \in Nat /\ q \in Nat /\ short <= q
          BY <1>1, <1>5, <2>2, <3>2
        <5>2. \A i, j \in Nat : i <= j => i * limit <= j * limit /\ i * limit \in Nat /\ j * limit \in Nat
          BY <1>1
        <5>3. QED
          BY <5>1, <5>2
      <4>2. short * limit <= r /\ r <= short * limit + limit
        BY <1>1, <1>7, <2>1, <2>2, <4>1
      <4>3. short \in 0 .. short
        BY <1>1, <1>5
      <4>4. QED
        BY <1>5, <4>1, <4>2, <4>3
    <3>3. QED
      BY <3>1, <3>2
  <2>4. FirstRank(k * limit) <= r /\ r <= LastRank(n, k * limit, limit)
    BY <1>1, <2>1, <2>3 DEF FirstRank, LastRank
  <2>5. QED
    BY <1>3, <2>3, <2>4
<1>9. ASSUME NEW k \in 0 .. short, NEW b \in ToSet(answers[k].ads) PROVE \E a \in S : b.id = a.id
  <2>1. k \in D
    BY <1>1, <1>5
  <2>2. QED
    BY <1>3, <1>9, <2>1
<1>10. QED
  BY <1>6, <1>8, <1>9

-----------------------------------------------------------------------------
\* Only finitely many ads are stored, whatever has been created and deleted.
LEMMA StoredIsFinite == Spec => []IsFiniteSet(stored)
<1>1. Init => IsFiniteSet(stored)
  BY FS_EmptySet DEF Init
<1>2. IsFiniteSet(stored) /\ [Next]_vars => IsFiniteSet(stored)'
  <2> SUFFICES ASSUME IsFiniteSet(stored), [Next]_vars PROVE IsFiniteSet(stored')
    OBVIOUS
  <2>1. ASSUME NEW a \in Ads, CreateAd(a) PROVE IsFiniteSet(stored')
    BY <2>1, FS_AddElement DEF CreateAd
  <2>2. ASSUME NEW a \in Ads, DeleteAd(a) PROVE IsFiniteSet(stored')
    BY <2>2, FS_RemoveElement DEF DeleteAd
  <2>3. ASSUME NEW t \in tasks, Look(t) \/ Make(t) PROVE IsFiniteSet(stored')
    BY <2>3 DEF Look, Make
  <2>4. CASE Unlock \/ UNCHANGED vars
    BY <2>4 DEF Unlock, vars
  <2>5. QED
    BY <2>1, <2>2, <2>3, <2>4 DEF Next
<1>3. QED
  BY <1>1, <1>2, PTL DEF Spec

\* A client that turns the pages of any request sees every ad that it matches
\* (GetByRankRange in IndexLeafNode.GetAd), for any ads, limit and page count,
\* though its requests alternate between two instances that got these ads from
\* a snapshot or from the stream: a score in whole seconds gives both the same
\* order.
THEOREM PagesMissNothing == Spec => []PagesCoverAll
<1>1. ASSUME Inv, IsFiniteSet(stored) PROVE PagesCoverAll
  <2>1. ASSUME NEW q \in Requests PROVE Found(q) \in SUBSET Ads /\ IsFiniteSet(Found(q))
    <3>1. Found(q) \in SUBSET stored /\ stored \in SUBSET Ads
      BY <1>1 DEF Inv, IndexTypeOK, FiledOK, Found
    <3>2. QED
      BY <1>1, <3>1, FS_Subset
  <2>2. ASSUME NEW found \in {Found(q) : q \in Requests}, NEW limit \in 1 .. MaxLimit,
               NEW here \in SUBSET found, NEW there \in SUBSET found
        PROVE  Browsed(found, limit, here, there) = {a.id : a \in found}
    <3>1. found \in SUBSET Ads /\ IsFiniteSet(found)
      BY <2>1
    <3>2. QED
      BY <3>1, BrowsedAll
  <2>3. QED
    BY <2>2 DEF PagesCoverAll
<1>2. QED
  BY <1>1, Invariance, StoredIsFinite, PTL
=============================================================================
