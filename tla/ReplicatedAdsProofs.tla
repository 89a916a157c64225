------------------------- MODULE ReplicatedAdsProofs -------------------------
(***************************************************************************)
(* What every implementation of ReplicatedAds promises: a replica serves   *)
(* what a prefix of the log says, and replicas that have applied the same  *)
(* prefix agree.                                                           *)
(***************************************************************************)
EXTENDS ReplicatedAds, TLAPS

\* Entries have distinct numbers from 1, an ad is created once, and deleted only
\* after that.
LogOK ==
  /\ \A e \in log : e.id # 0
  /\ \A e, f \in log : e.id = f.id => e = f
  /\ \A e, f \in log : e.type = "create" /\ f.type = "create" /\ e.ad = f.ad => e = f
  /\ \A d \in log : d.type = "delete" =>
       \E c \in log : c.type = "create" /\ c.ad = d.ad /\ c.id < d.id

\* A replica has applied nothing or up to some entry of the log.
AppliedOK == \A r \in Replicas : applied[r] = 0 \/ \E e \in log : e.id = applied[r]

Inv == TypeOK /\ LogOK /\ AppliedOK /\ ServesPrefix

\* Inv holds at the start.
LEMMA InitInv == Init => Inv
BY DEF Init, Inv, TypeOK, LogOK, AppliedOK, ServesPrefix

\* Publishing changes nothing for a replica: the new entry's number is above all
\* that were applied.
LEMMA PublishInv ==
  ASSUME Inv, NEW type \in {"create", "delete"}, NEW a \in Ads,
         NEW n \in {0} \cup {e.id : e \in log}, Publish(type, a, n)
  PROVE  Inv'
<1> DEFINE new == [id |-> n + 1, type |-> type, ad |-> a]
<1>1. n \in Nat /\ new \in Entry /\ log' = log \cup {new} /\ UNCHANGED <<up, applied, index>>
  BY DEF Inv, TypeOK, Entry, Publish
<1>2. new.id = n + 1 /\ new.type = type /\ new.ad = a
  OBVIOUS
<1> HIDE DEF new
<1>3. \A e \in log : e \in Entry /\ e.id \in Nat /\ e.id <= n /\ e.id < new.id
  BY <1>1, <1>2 DEF Inv, TypeOK, Entry, Publish, IsLast
<1>4. TypeOK'
  BY <1>1 DEF Inv, TypeOK
<1>5. LogOK'
  <2>1. \A e \in log' : e.id # 0
    BY <1>1, <1>2 DEF Inv, LogOK
  <2>2. \A e, f \in log' : e.id = f.id => e = f
    BY <1>1, <1>2, <1>3 DEF Inv, LogOK
  <2>3. \A e, f \in log' : e.type = "create" /\ f.type = "create" /\ e.ad = f.ad => e = f
    BY <1>1, <1>2, <1>3 DEF Inv, LogOK, Publish, Creates
  <2>4. \A d \in log' : d.type = "delete" =>
          \E c \in log' : c.type = "create" /\ c.ad = d.ad /\ c.id < d.id
    BY <1>1, <1>2, <1>3 DEF Inv, LogOK, Publish, Live, Creates
  <2> QED  BY <2>1, <2>2, <2>3, <2>4 DEF LogOK
<1>6. AppliedOK'
  BY <1>1 DEF Inv, AppliedOK
<1>7. \A r \in Replicas : applied[r] \in Nat /\ applied[r] < new.id
  BY <1>1, <1>2, <1>3 DEF Inv, AppliedOK, TypeOK
<1>8. \A r \in Replicas : Live(applied[r])' = Live(applied[r])
  BY <1>1, <1>2, <1>7 DEF Live, Creates, Deletes
<1>9. ServesPrefix'
  BY <1>1, <1>8 DEF Inv, ServesPrefix, TypeOK
<1> QED  BY <1>4, <1>5, <1>6, <1>9 DEF Inv

\* A snapshot is what the whole log says.
LEMMA BootInv ==
  ASSUME Inv, NEW r \in Replicas, NEW n \in {0} \cup {e.id : e \in log}, Boot(r, n)
  PROVE  Inv'
<1>1. n \in Nat /\ Live(n) \subseteq Ads
  BY DEF Inv, TypeOK, Entry, Live
<1>2. TypeOK' /\ LogOK' /\ AppliedOK'
  BY <1>1 DEF Inv, Boot, TypeOK, LogOK, AppliedOK
<1>3. \A k : Live(k)' = Live(k)
  BY DEF Boot, Live, Creates, Deletes
<1>4. ServesPrefix'
  BY <1>3 DEF Inv, Boot, TypeOK, ServesPrefix
<1> QED  BY <1>2, <1>4 DEF Inv

\* Applying the next entry turns what one prefix says into what the next says.
LEMMA CatchUpInv ==
  ASSUME Inv, NEW r \in Replicas, NEW e \in log, CatchUp(r, e)
  PROVE  Inv'
<1> DEFINE k == applied[r]
<1>1. k \in Nat /\ e \in Entry /\ e.id = k + 1 /\ \A f \in log : f.id \in Nat
  BY DEF Inv, TypeOK, Entry, CatchUp
<1>2. \A f \in log : f.id <= e.id <=> f.id <= k \/ f = e
  BY <1>1 DEF Inv, LogOK
<1>3. ASSUME e.type = "create"  PROVE Live(e.id) = Live(k) \cup {e.ad}
  <2>1. ~Deletes(e.ad, k)
    BY <1>1, <1>3 DEF Inv, LogOK, Deletes
  <2>2. \A a : Creates(a, e.id) <=> Creates(a, k) \/ a = e.ad
    BY <1>2, <1>3 DEF Creates
  <2>3. \A a : Deletes(a, e.id) <=> Deletes(a, k)
    BY <1>2, <1>3 DEF Deletes
  <2> QED  BY <2>1, <2>2, <2>3, <1>1 DEF Live, Entry
<1>4. ASSUME e.type = "delete"  PROVE Live(e.id) = Live(k) \ {e.ad}
  <2>1. \A a : Creates(a, e.id) <=> Creates(a, k)
    BY <1>2, <1>4 DEF Creates
  <2>2. \A a : Deletes(a, e.id) <=> Deletes(a, k) \/ a = e.ad
    BY <1>2, <1>4 DEF Deletes
  <2> QED  BY <2>1, <2>2 DEF Live
<1>5. TypeOK' /\ LogOK' /\ AppliedOK'
  BY <1>1 DEF Inv, CatchUp, TypeOK, LogOK, AppliedOK, Entry
<1>6. \A n : Live(n)' = Live(n)
  BY DEF CatchUp, Live, Creates, Deletes
<1>7. index'[r] = Live(applied'[r])
  BY <1>1, <1>3, <1>4 DEF Inv, CatchUp, TypeOK, Entry, ServesPrefix
<1>8. ServesPrefix'
  BY <1>6, <1>7 DEF Inv, CatchUp, TypeOK, ServesPrefix
<1> QED  BY <1>5, <1>8 DEF Inv

\* Stopping a replica leaves the others alone.
LEMMA HaltInv ==
  ASSUME Inv, NEW r \in Replicas, Halt(r)
  PROVE  Inv'
<1>1. TypeOK' /\ LogOK' /\ AppliedOK'
  BY DEF Inv, Halt, TypeOK, LogOK, AppliedOK
<1>2. \A n : Live(n)' = Live(n)
  BY DEF Halt, Live, Creates, Deletes
<1>3. ServesPrefix'
  BY <1>2 DEF Inv, Halt, TypeOK, ServesPrefix
<1> QED  BY <1>1, <1>3 DEF Inv

\* A step that changes nothing preserves Inv.
LEMMA StutterInv == Inv /\ UNCHANGED vars => Inv'
BY DEF Inv, vars, TypeOK, LogOK, AppliedOK, ServesPrefix, Live, Creates, Deletes

\* In every reachable state a replica serves exactly what the prefix of the log
\* that it has applied says.
THEOREM PrefixServed == Spec => []ServesPrefix
<1>1. Inv /\ [Next]_vars => Inv'
  BY PublishInv, BootInv, CatchUpInv, HaltInv, StutterInv DEF Next
<1>2. Inv => ServesPrefix
  BY DEF Inv
<1> QED  BY InitInv, <1>1, <1>2, PTL DEF Spec

\* Replicas that have applied the same prefix serve the same ads.
THEOREM ReplicasAgree == Spec => []Agreement
<1>1. ServesPrefix => Agreement
  BY DEF ServesPrefix, Agreement
<1> QED  BY PrefixServed, <1>1, PTL
=============================================================================
