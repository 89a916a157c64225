---------------------------- MODULE InjectProofs ----------------------------
(***************************************************************************)
(* What clients' requests cannot do to the mocks of the command inject,    *)
(* for any sets of ads, mocks and writers and whatever fails.  Inv of      *)
(* AdLogProofs speaks of rows only by their type, so it is inductive for   *)
(* InjectSpec as well.                                                     *)
(***************************************************************************)
EXTENDS Inject, AdLogProofs, FiniteSetTheorems

\* Nobody works on a mock, and so nothing makes it a tombstone.
NobodysAd ==
  \A a \in Mocks :
    /\ outcome[a] = "unsent" /\ task[a] = "none" /\ rows[a].state # "inactive"
    /\ \A w \in Writers : ad[w] # a

InjectInv == Inv /\ NobodysAd /\ MocksStay

\* Inv stands when another well typed table takes the place of rows and a fault
\* is counted.
LEMMA ReplaceTable ==
  ASSUME Inv, rows' \in [Ads -> Rows], faults' \in Nat,
         UNCHANGED <<stream, top, lock, task, outcome, pc, op, ad, ver, err>>
  PROVE  Inv'
<1>1. TypeOK'
  BY DEF Inv, TypeOK
<1>2. LocalsOK' /\ TopIsLast' /\ WaitMeansTask' /\ DeleterHasTask'
  BY DEF Inv, LocalsOK, TopIsLast, WaitMeansTask, DeleterHasTask
<1>3. TaskMeansCreated' /\ DeletedMeansTask' /\ PublishedOK'
  BY DEF Inv, TaskMeansCreated, DeletedMeansTask, PublishedOK, Created, Deleted
<1>4. CreateBeforeDelete' /\ DoneMeansDeleted' /\ AcknowledgedIsDurable'
  BY DEF Inv, CreateBeforeDelete, DoneMeansDeleted, AcknowledgedIsDurable, Created, Deleted
<1>5. QED
  BY <1>1, <1>2, <1>3, <1>4 DEF Inv

LEMMA InjectInitInv == InjectInit => InjectInv
<1>1. SUFFICES ASSUME InjectInit PROVE InjectInv
  OBVIOUS
<1>2. NobodysAd
  BY <1>1, MocksAssumption, AdsAssumption DEF InjectInit, Init, NobodysAd, Absent
<1>3. QED
  BY <1>1, <1>2, InitInv DEF InjectInit, InjectInv, MocksStay

\* A step of the system leaves the mocks and their rows alone.
LEMMA ServeStep ==
  ASSUME InjectInv, Serve
  PROVE  NobodysAd' /\ MocksStay'
<1> USE MocksAssumption, AdsAssumption
<1>1. \A a \in Mocks : /\ a \in Ads /\ a # NoAd /\ outcome'[a] = "unsent"
                       /\ task[a] = "none" /\ \A w \in Writers : ad[w] # a
  BY DEF InjectInv, NobodysAd, Serve
<1>2. rows \in [Ads -> Rows] /\ TypeOK /\ LocalsOK
  BY DEF InjectInv, Inv, TypeOK
<1>3. ASSUME NEW a \in Mocks PROVE task'[a] = "none" /\ \A w \in Writers : ad'[w] # a
  <2>1. task[a] = "none" /\ \A w \in Writers : ad[w] # a
    BY <1>1, <1>3
  <2>2. ASSUME NEW w \in Writers, NEW b \in Ads, CreateAd(w, b) PROVE task'[a] = "none" /\ \A v \in Writers : ad'[v] # a
    <3>1. outcome'[b] = "waiting"
      BY <1>2, <2>2 DEF CreateAd, TypeOK
    <3>2. b # a
      BY <1>1, <1>3, <3>1
    <3>3. QED
      BY <1>2, <2>1, <2>2, <3>2 DEF CreateAd, Begin, TypeOK
  <2>3. ASSUME NEW w \in Writers, NEW b \in Ads, HandleDeleteAd(w, b) PROVE task'[a] = "none" /\ \A v \in Writers : ad'[v] # a
    BY <1>2, <2>1, <2>3 DEF HandleDeleteAd, Begin, TypeOK
  <2>4. ASSUME NEW w \in Writers, Step(w) \/ \E answer \in {"ok", "timeout"} : Respond(w, answer)
        PROVE  task'[a] = "none" /\ \A v \in Writers : ad'[v] # a
    <3>1. ad[w] # a
      BY <2>1
    <3>2. task'[a] = "none"
      BY <1>2, <2>1, <2>4, <3>1 DEF Step, Respond, Obtain, ObtainFails, SelectMax, SelectFails,
        Commit, CommitFails, XAdd, XAddFails, Release, CreateFails, registerAdDeleteTask, EnqueueFails,
        Ack, Retry, TypeOK
    <3>3. ad' = ad \/ ad' = [ad EXCEPT ![w] = NoAd]
      BY <2>4 DEF Step, Respond, Obtain, ObtainFails, SelectMax, SelectFails,
        Commit, CommitFails, XAdd, XAddFails, Release, CreateFails, registerAdDeleteTask, EnqueueFails,
        Ack, Retry, FailTo, SucceedTo, Goto, Finish
    <3>4. QED
      BY <1>1, <1>2, <1>3, <2>1, <3>2, <3>3 DEF TypeOK
  <2>5. CASE LockExpires \/ OrphanExpires
    BY <2>1, <2>5 DEF LockExpires, OrphanExpires
  <2>6. ASSUME NEW i \in Instances, Crash(i) PROVE task'[a] = "none" /\ \A v \in Writers : ad'[v] # a
    BY <1>1, <1>2, <1>3, <2>1, <2>6 DEF Crash, Kill, TypeOK
  <2>7. QED
    BY <2>2, <2>3, <2>4, <2>5, <2>6 DEF Serve, Next
<1>4. ASSUME NEW a \in Mocks
      PROVE  /\ rows[a].state = "active" => rows'[a] = rows[a]
             /\ rows'[a].state # "inactive"
  <2>1. rows[a].state # "inactive" /\ rows[a] \in Rows /\ \A w \in Writers : ad[w] # a
    BY <1>1, <1>2, <1>4 DEF InjectInv, NobodysAd
  <2>2. rows' = rows \/ \E w \in Writers : Write(w) /\ pc[w] = "commit"
    BY DEF Serve, Next, CreateAd, HandleDeleteAd, Begin, Step, Respond, Obtain, ObtainFails, SelectMax,
      SelectFails, Commit, CommitFails, XAdd, XAddFails, Release, CreateFails, registerAdDeleteTask,
      EnqueueFails, Ack, Retry, LockExpires, OrphanExpires, Crash, Kill
  <2>3. ASSUME NEW w \in Writers, Write(w) PROVE rows'[a] = rows[a]
    <3>1. ad[w] # a /\ a \in Ads
      BY <1>1, <1>4
    <3>2. QED
      BY <1>2, <2>1, <2>3, <3>1 DEF Write, InsertAd, DeactivateAndPurge
  <2>4. QED
    BY <2>1, <2>2, <2>3
<1>5. NobodysAd'
  BY <1>1, <1>3, <1>4 DEF NobodysAd
<1>6. MocksStay'
  BY <1>4 DEF InjectInv, MocksStay, Active, Serve
<1>7. QED
  BY <1>5, <1>6

LEMMA InjectStep == InjectInv /\ [InjectNext]_injectVars => InjectInv'
<1>1. SUFFICES ASSUME InjectInv, [InjectNext]_injectVars PROVE InjectInv'
  OBVIOUS
<1>2. CASE Serve
  <2>1. Inv'
    BY <1>1, <1>2, InvStep DEF Serve, InjectInv
  <2>2. QED
    BY <1>1, <1>2, <2>1, ServeStep DEF InjectInv
<1>3. CASE Truncate
  <2>1. rows' \in [Ads -> Rows] /\ faults' \in Nat
    BY <1>1, <1>3 DEF Truncate, Fault, Rows, InjectInv, Inv, TypeOK
  <2>2. Inv'
    BY <1>1, <1>3, <2>1, ReplaceTable DEF Truncate, InjectInv
  <2>3. NobodysAd'
    BY <1>1, <1>3, MocksAssumption DEF Truncate, InjectInv, NobodysAd, Absent
  <2>4. QED
    BY <1>3, <2>2, <2>3 DEF InjectInv, MocksStay, Truncate
<1>4. CASE InsertMocks
  <2>1. PICK number \in Bijection(Mocks, 1 .. Cardinality(Mocks)) :
          rows' = [a \in Ads |-> IF a \in Mocks THEN MockRow(number[a]) ELSE rows[a]]
    BY <1>4 DEF InsertMocks
  <2>2. /\ number \in [Mocks -> 1 .. Cardinality(Mocks)]
        /\ \A a, b \in Mocks : number[a] = number[b] => a = b
    BY <2>1 DEF Bijection, Injection, IsInjective
  <2>3. Cardinality(Mocks) \in Nat
    BY MocksAssumption, FS_CardinalityType
  <2>4. ASSUME NEW a \in Mocks PROVE rows'[a].state = "active" /\ rows'[a].version = number[a]
    <3>1. rows'[a] = MockRow(number[a])
      BY <2>1, MocksAssumption
    <3>2. QED
      BY <3>1 DEF MockRow
  <2>5. rows' \in [Ads -> Rows]
    BY <1>1, <2>1, <2>2, <2>3 DEF MockRow, Rows, InjectInv, Inv, TypeOK
  <2>6. Inv'
    BY <1>1, <1>4, <2>5, ReplaceTable DEF InsertMocks, InjectInv, Inv, TypeOK
  <2>7. NobodysAd'
    BY <1>1, <1>4, <2>4 DEF InsertMocks, InjectInv, NobodysAd
  <2>8. MocksStay'
    BY <2>2, <2>4 DEF MocksStay, Active
  <2>9. QED
    BY <2>6, <2>7, <2>8 DEF InjectInv
<1>5. CASE UNCHANGED injectVars
  <2>1. Inv'
    BY <1>1, <1>5, InvStep DEF injectVars, InjectInv
  <2>2. QED
    BY <1>1, <1>5, <2>1 DEF injectVars, vars, InjectInv, NobodysAd, MocksStay, Active
<1>6. QED
  BY <1>1, <1>2, <1>3, <1>4, <1>5 DEF InjectNext

\* Whatever fails, no deletion and no purge takes a mock that inject has put into
\* the table, though its number is below the stream's last id and writers were at
\* work while it was inserted (pkg/service/ad.go:78-88, cmd/inject/main.go:105-106).
THEOREM MocksOutlivePurges == InjectSpec => []MocksStay
<1>1. InjectInv => MocksStay
  BY DEF InjectInv
<1>2. QED
  BY <1>1, InjectInitInv, InjectStep, PTL DEF InjectSpec
=============================================================================
