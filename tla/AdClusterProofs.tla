-------------------------- MODULE AdClusterProofs --------------------------
(***************************************************************************)
(* Theorems about AdCluster for any sets of ads, writers and instances.    *)
(* The first part holds whatever fails; the second needs table and stream  *)
(* to stay in step, and ends with the refinement of ReplicatedAds.         *)
(***************************************************************************)
EXTENDS AdCluster, AdLogProofs

logVars == <<rows, stream, top, lock, task, outcome, pc, op, ad, ver, err>>

\* A step of the cluster is one of the write path, the end of a process, or
\* leaves the write path alone.
LEMMA LogStep ==
  ASSUME TypeOK, [ClusterNext]_clusterVars
  PROVE  \/ [Next]_vars
         \/ \E i \in Instances : Kill(i) /\ faults' \in Nat
         \/ UNCHANGED logVars /\ faults' \in Nat
<1>1. ASSUME NEW w \in Writers, NEW a \in Ads, CreateAdAt(w, a) \/ HandleDeleteAdAt(w, a)
      PROVE  [Next]_vars
  BY <1>1 DEF CreateAdAt, HandleDeleteAdAt, Next
<1>2. ASSUME NEW w \in Writers, StepAt(w)
      PROVE  [Next]_vars
  BY <1>2 DEF StepAt, Next
<1>3. ASSUME NEW w \in Writers, NEW answer \in {"ok", "timeout"}, RespondAt(w, answer)
      PROVE  [Next]_vars
  BY <1>3 DEF RespondAt, Next
<1>4. CASE LockExpires \/ OrphanExpires
  BY <1>4 DEF Next
<1>5. ASSUME NEW i \in Instances, Run(i) \/ Restore(i)
      PROVE  [Next]_vars
  BY <1>5 DEF Run, Restore
<1>6. ASSUME NEW i \in Instances, RestoreTimesOut(i)
      PROVE  UNCHANGED logVars /\ faults' \in Nat
  BY <1>6 DEF RestoreTimesOut, Fault, TypeOK, logVars
<1>7. ASSUME NEW i \in Instances, NEW e \in stream, ReceiveCreate(i, e) \/ ReceiveDelete(i, e)
      PROVE  [Next]_vars
  BY <1>7 DEF ReceiveCreate, ReceiveDelete
<1>8. ASSUME NEW i \in Instances, NEW e \in stream, Panic(i, e)
      PROVE  Kill(i) /\ faults' \in Nat
  BY <1>8 DEF Panic, End, TypeOK
<1>9. ASSUME NEW i \in Instances, CrashAt(i) \/ Shutdown(i)
      PROVE  Kill(i) /\ faults' \in Nat
  BY <1>9 DEF CrashAt, Shutdown, End, Fault, TypeOK
<1>10. CASE UNCHANGED clusterVars
  BY <1>10 DEF clusterVars, vars
<1>11. QED
  BY <1>1, <1>2, <1>3, <1>4, <1>5, <1>6, <1>7, <1>8, <1>9, <1>10 DEF ClusterNext

LEMMA LogInvariance == ClusterSpec => [](Inv /\ CreateInv)
<1>1. ClusterInit => Inv /\ CreateInv
  BY InitInv, CreateInitially DEF ClusterInit
<1>2. ASSUME Inv, CreateInv, [ClusterNext]_clusterVars PROVE Inv' /\ CreateInv'
  <2>1. CASE [Next]_vars
    BY <1>2, <2>1, InvStep, CreateStep
  <2>2. ASSUME NEW i \in Instances, Kill(i), faults' \in Nat PROVE Inv' /\ CreateInv'
    BY <1>2, <2>2, KillInv, KillCreate
  <2>3. CASE UNCHANGED logVars /\ faults' \in Nat
    <3>1. TypeOK' /\ LocalsOK'
      BY <1>2, <2>3 DEF Inv, TypeOK, LocalsOK, logVars
    <3>2. Inv'
      BY <1>2, <2>3, <3>1 DEF logVars, Inv, TopIsLast, TaskMeansCreated, DeletedMeansTask, DeleterHasTask,
         PublishedOK, WaitMeansTask, CreateBeforeDelete, DoneMeansDeleted, AcknowledgedIsDurable, Created, Deleted
    <3>3. CreateInv'
      BY <1>2, <2>3 DEF logVars, CreateInv, OneCreator, CreatorWaits, UnsentIsNew, CreatorIsFirst,
         PublishedIsStored, Active, Created
    <3>4. QED
      BY <3>2, <3>3
  <2>4. TypeOK
    BY <1>2 DEF Inv
  <2>5. QED
    BY <1>2, <2>1, <2>2, <2>3, <2>4, LogStep
<1>3. QED
  BY <1>1, <1>2, PTL DEF ClusterSpec

-----------------------------------------------------------------------------
(***************************************************************************)
(* What holds whatever fails.                                              *)
(***************************************************************************)

\* The store of a process that does not follow the stream has dropped nothing,
\* and one that does has dropped only ads whose deletion it has read.
DroppedIsDeleted ==
  \A i \in Instances :
    /\ phase[i] # "subscribed" => known[i] \subseteq index[i]
    /\ \A a \in known[i] \ index[i] :
         \E d \in stream : d.type = "delete" /\ d.ad = a /\ d.id <= version[i]

\* An answered ad entered the store's map, which nothing leaves.
AnsweredIsKnown == \A i \in Instances : answered[i] \subseteq known[i]

ServeInv ==
  /\ ClusterTypeOK
  /\ AnsweredIsKnown
  /\ DroppedIsDeleted

\* No step takes an entry off the stream.
LEMMA EntriesStay ==
  ASSUME TypeOK, [ClusterNext]_clusterVars
  PROVE  stream \subseteq stream'
<1>1. ASSUME NEW w \in Writers, Step(w) PROVE stream \subseteq stream'
  BY <1>1 DEF Step, Obtain, ObtainFails, SelectMax, SelectFails, Commit, CommitFails, XAdd, XAddFails, AppendEntry,
     Release, CreateFails, registerAdDeleteTask, EnqueueFails, Ack, Retry
<1>2. CASE [Next]_vars
  BY <1>1, <1>2 DEF Next, CreateAd, HandleDeleteAd, Begin, Respond, LockExpires, OrphanExpires, Crash, Kill, vars
<1>3. ASSUME NEW i \in Instances, Kill(i) PROVE stream \subseteq stream'
  BY <1>3 DEF Kill
<1>4. CASE UNCHANGED logVars
  BY <1>4 DEF logVars
<1>5. QED
  BY <1>2, <1>3, <1>4, LogStep

LEMMA ClusterTypeStep ==
  ASSUME Inv', ClusterTypeOK, [ClusterNext]_clusterVars
  PROVE  ClusterTypeOK'
<1> USE DEF ClusterTypeOK
<1>1. CASE UNCHANGED <<replicaVars, answered>>
  BY <1>1 DEF replicaVars, Inv
<1>5. ASSUME NEW i \in Instances, Run(i)
      PROVE  ClusterTypeOK'
  BY <1>5 DEF Run, Inv
<1>6. ASSUME NEW i \in Instances, Restore(i) \/ RestoreTimesOut(i)
      PROVE  ClusterTypeOK'
  <2>1. ActiveRows \subseteq Ads
    BY DEF ActiveRows
  <2>2. index' \in [Instances -> SUBSET Ads] /\ known' \in [Instances -> SUBSET Ads]
    BY <1>6, <2>1 DEF Restore, RestoreTimesOut, Load
  <2>3. version' \in [Instances -> Nat]
    BY <1>6, RowVersions DEF Restore, RestoreTimesOut
  <2>4. QED
    BY <1>6, <2>2, <2>3 DEF Restore, RestoreTimesOut, Inv
<1>7. ASSUME NEW i \in Instances, NEW e \in stream, ReceiveCreate(i, e) \/ ReceiveDelete(i, e)
      PROVE  ClusterTypeOK'
  <2>1. e.id \in Nat /\ e.ad \in Ads
    BY <1>7 DEF TypeOK, Entries
  <2>2. answered' \in [Instances -> SUBSET Ads] /\ blocked' \subseteq Instances
    BY <1>7, <2>1 DEF ReceiveCreate, ReceiveDelete
  <2>3. QED
    BY <1>7, <2>1, <2>2 DEF ReceiveCreate, ReceiveDelete, Take, Inv
<1>8. ASSUME NEW i \in Instances, End(i)
      PROVE  ClusterTypeOK'
  BY <1>8 DEF End, Inv
<1>9. CASE UNCHANGED clusterVars
  BY <1>9 DEF clusterVars, Inv
<1>10. QED
  BY <1>1, <1>5, <1>6, <1>7, <1>8, <1>9 DEF ClusterNext, CreateAdAt, HandleDeleteAdAt, StepAt, RespondAt, Panic, CrashAt,
     Shutdown

\* A batch of active rows in the store of an instance that has not subscribed.
LEMMA ServeLoad ==
  ASSUME ServeInv, ClusterTypeOK', NEW i \in Instances, phase[i] = "restoring", Load(i),
         UNCHANGED <<logVars, answered>>,
         \A j \in Instances \ {i} : phase'[j] = phase[j] /\ version'[j] = version[j]
  PROVE  ServeInv'
<1> USE DEF logVars
<1>1. /\ \A j \in Instances \ {i} : index'[j] = index[j] /\ known'[j] = known[j]
      /\ index'[i] = index[i] \cup ActiveRows /\ known'[i] = known[i] \cup ActiveRows
  BY DEF Load, ServeInv, ClusterTypeOK
<1>2. AnsweredIsKnown'
  BY <1>1 DEF ServeInv, AnsweredIsKnown
<1>3. known'[i] \subseteq index'[i]
  BY <1>1 DEF ServeInv, DroppedIsDeleted
<1>4. DroppedIsDeleted'
  BY <1>1, <1>3 DEF ServeInv, DroppedIsDeleted
<1>5. QED
  BY <1>2, <1>4 DEF ServeInv

\* No entry that an instance reads creates an ad it has dropped: the ad's one
\* creation came before its deletion.
LEMMA DroppedIsPast ==
  ASSUME Inv, CreateInv, ServeInv, NEW i \in Instances, NEW e \in stream, ReceiveCreate(i, e)
  PROVE  e.ad \notin known[i] \ index[i]
<1>1. SUFFICES ASSUME e.ad \in known[i] \ index[i] PROVE FALSE
  OBVIOUS
<1>2. PICK d \in stream : d.type = "delete" /\ d.ad = e.ad /\ d.id <= version[i]
  BY <1>1 DEF ServeInv, DroppedIsDeleted
<1>3. PICK c \in stream : c.type = "create" /\ c.ad = d.ad /\ c.id < d.id
  BY <1>2 DEF Inv, CreateBeforeDelete
<1>4. c = e
  BY <1>2, <1>3 DEF ReceiveCreate, CreateInv, PublishedIsStored
<1>5. e.id > version[i] /\ version[i] \in Nat /\ e.id \in Nat /\ d.id \in Nat
  BY <1>2 DEF ReceiveCreate, Take, IsNextEntry, ServeInv, ClusterTypeOK, Inv, TypeOK, Entries
<1>6. QED
  BY <1>2, <1>3, <1>4, <1>5

LEMMA ServeCreate ==
  ASSUME Inv, ServeInv, ClusterTypeOK', NEW i \in Instances, NEW e \in stream, ReceiveCreate(i, e)
  PROVE  ServeInv'
<1>1. /\ UNCHANGED <<logVars, phase>> /\ phase[i] = "subscribed"
      /\ version'[i] = e.id /\ version[i] \in Nat /\ e.id \in Nat /\ e.id > version[i]
      /\ \A j \in Instances \ {i} : version'[j] = version[j] /\ index'[j] = index[j] /\ known'[j] = known[j]
      /\ index'[i] = index[i] \cup {e.ad} /\ known'[i] = known[i] \cup {e.ad}
  BY DEF ReceiveCreate, Take, IsNextEntry, ServeInv, ClusterTypeOK, TypeOK, Entries, vars, logVars, Inv
<1>2. \A j \in Instances : answered'[j] \subseteq answered[j] \cup (IF j = i THEN {e.ad} ELSE {})
  BY DEF ReceiveCreate, ServeInv, ClusterTypeOK
<1> USE DEF logVars
<1>3. AnsweredIsKnown'
  BY <1>1, <1>2 DEF ServeInv, AnsweredIsKnown
<1>4. DroppedIsDeleted'
  <2>1. ASSUME NEW a \in known[i] \ index[i]
        PROVE  \E d \in stream : d.type = "delete" /\ d.ad = a /\ d.id <= e.id
    <3>1. PICK d \in stream : d.type = "delete" /\ d.ad = a /\ d.id <= version[i]
      BY DEF ServeInv, DroppedIsDeleted
    <3>2. d.id \in Nat
      BY DEF Inv, TypeOK, Entries
    <3>3. QED
      BY <1>1, <3>1, <3>2
  <2>2. QED
    BY <1>1, <2>1 DEF ServeInv, DroppedIsDeleted
<1>5. QED
  BY <1>3, <1>4 DEF ServeInv

LEMMA ServeDelete ==
  ASSUME Inv, ServeInv, ClusterTypeOK', NEW i \in Instances, NEW e \in stream, ReceiveDelete(i, e)
  PROVE  ServeInv'
<1>1. /\ UNCHANGED <<logVars, phase, known, answered>> /\ phase[i] = "subscribed"
      /\ version'[i] = e.id /\ version[i] \in Nat /\ e.id \in Nat /\ e.id > version[i]
      /\ e.type = "delete"
      /\ \A j \in Instances \ {i} : version'[j] = version[j] /\ index'[j] = index[j]
      /\ index'[i] = index[i] \ {e.ad}
  BY DEF ReceiveDelete, Take, IsNextEntry, ServeInv, ClusterTypeOK, TypeOK, Entries, vars, logVars, Inv
<1> USE DEF logVars
<1>2. AnsweredIsKnown'
  BY <1>1 DEF ServeInv, AnsweredIsKnown
<1>3. DroppedIsDeleted'
  <2>1. ASSUME NEW a \in known[i] \ index'[i]
        PROVE  \E d \in stream : d.type = "delete" /\ d.ad = a /\ d.id <= e.id
    <3>1. CASE a = e.ad
      BY <1>1, <3>1
    <3>2. CASE a # e.ad
      <4>1. PICK d \in stream : d.type = "delete" /\ d.ad = a /\ d.id <= version[i]
        BY <1>1, <3>2 DEF ServeInv, DroppedIsDeleted
      <4>2. d.id \in Nat
        BY DEF Inv, TypeOK, Entries
      <4>3. QED
        BY <1>1, <4>1, <4>2
    <3>3. QED
      BY <3>1, <3>2
  <2>2. QED
    BY <1>1, <2>1 DEF ServeInv, DroppedIsDeleted
<1>4. QED
  BY <1>2, <1>3 DEF ServeInv

LEMMA ServeEnd ==
  ASSUME ServeInv, ClusterTypeOK', NEW i \in Instances, End(i)
  PROVE  ServeInv'
<1>1. /\ stream' = stream
      /\ index'[i] = {} /\ known'[i] = {} /\ answered'[i] = {}
      /\ \A j \in Instances \ {i} : /\ phase'[j] = phase[j] /\ version'[j] = version[j]
                                      /\ index'[j] = index[j] /\ known'[j] = known[j]
                                      /\ answered'[j] = answered[j]
  BY DEF End, Kill, ServeInv, ClusterTypeOK
<1>2. AnsweredIsKnown'
  BY <1>1 DEF ServeInv, AnsweredIsKnown
<1>3. DroppedIsDeleted'
  BY <1>1 DEF ServeInv, DroppedIsDeleted
<1>4. QED
  BY <1>2, <1>3 DEF ServeInv

LEMMA ServeStep ==
  ASSUME Inv, Inv', CreateInv, ServeInv, [ClusterNext]_clusterVars
  PROVE  ServeInv'
<1>1. ClusterTypeOK' /\ stream \subseteq stream'
  <2>1. ClusterTypeOK'
    BY ClusterTypeStep DEF ServeInv
  <2>2. stream \subseteq stream'
    BY EntriesStay DEF Inv
  <2>3. QED
    BY <2>1, <2>2
<1>2. CASE UNCHANGED <<phase, version, index, known, answered>>
  BY <1>1, <1>2 DEF ServeInv, AnsweredIsKnown, DroppedIsDeleted
<1>3. ASSUME NEW i \in Instances, Run(i)
      PROVE  ServeInv'
  <2>1. /\ UNCHANGED <<version, index, known, answered>>
        /\ phase[i] = "down" /\ phase'[i] = "restoring"
        /\ \A j \in Instances \ {i} : phase'[j] = phase[j]
    BY <1>3 DEF Run, ServeInv, ClusterTypeOK
  <2>2. QED
    BY <1>1, <2>1 DEF ServeInv, AnsweredIsKnown, DroppedIsDeleted
<1>4. ASSUME NEW i \in Instances, Restore(i) \/ RestoreTimesOut(i)
      PROVE  ServeInv'
  <2>1. /\ phase[i] = "restoring" /\ Load(i) /\ UNCHANGED <<logVars, answered>>
    BY <1>4 DEF Restore, RestoreTimesOut, vars, logVars
  <2>2. \A j \in Instances \ {i} : phase'[j] = phase[j] /\ version'[j] = version[j]
    BY <1>4 DEF Restore, RestoreTimesOut, ServeInv, ClusterTypeOK
  <2>3. QED
    BY <1>1, <2>1, <2>2, ServeLoad
<1>5. ASSUME NEW i \in Instances, NEW e \in stream, ReceiveCreate(i, e) \/ ReceiveDelete(i, e)
      PROVE  ServeInv'
  BY <1>1, <1>5, ServeCreate, ServeDelete
<1>6. ASSUME NEW i \in Instances, End(i)
      PROVE  ServeInv'
  BY <1>1, <1>6, ServeEnd
<1>7. QED
  BY <1>2, <1>3, <1>4, <1>5, <1>6
  DEF ClusterNext, CreateAdAt, HandleDeleteAdAt, StepAt, RespondAt, Panic, CrashAt, Shutdown, replicaVars, clusterVars

LEMMA ServeInvariance == ClusterSpec => []ServeInv
<1>1. ClusterInit /\ Inv => ServeInv
  BY DEF ClusterInit, ServeInv, ClusterTypeOK, AnsweredIsKnown, DroppedIsDeleted, Inv
<1>2. QED
  BY <1>1, LogInvariance, ServeStep, PTL DEF ClusterSpec

\* Every reachable state of the cluster is well typed.
THEOREM ClusterTypeCorrect == ClusterSpec => []ClusterTypeOK
  BY ServeInvariance, PTL DEF ServeInv

\* Whatever fails, an instance whose dispatcher has answered the CreateAd of an ad
\* serves the ad until it has read the ad's deletion: the client, and everybody
\* who asks that process, reads it there.
THEOREM ReadsOwnAd == ClusterSpec => []AnsweredIsServed
<1>1. ServeInv => AnsweredIsServed
  BY DEF ServeInv, AnsweredIsKnown, DroppedIsDeleted, AnsweredIsServed
<1>2. QED
  BY <1>1, ServeInvariance, PTL

\* Whatever fails, a process never serves again an ad that it dropped at its
\* deletion, though Restore may run twice and the stream be trimmed.
THEOREM StaysDropped == ClusterSpec => NoResurrection
<1>1. ASSUME Inv, CreateInv, ServeInv, [ClusterNext]_clusterVars
      PROVE  \A i \in Instances : \A a \in known[i] \ index[i] : a \notin index'[i]
  <2>1. SUFFICES ASSUME NEW i \in Instances, NEW a \in known[i] \ index[i], a \in index'[i] PROVE FALSE
    OBVIOUS
  <2>2. phase[i] = "subscribed"
    BY <1>1, <2>1 DEF ServeInv, DroppedIsDeleted
  <2>3. ~UNCHANGED index
    BY <2>1
  <2>4. ASSUME NEW j \in Instances, Restore(j) \/ RestoreTimesOut(j) PROVE FALSE
    BY <1>1, <2>1, <2>2, <2>4 DEF Restore, RestoreTimesOut, Load, ServeInv, ClusterTypeOK
  <2>5. ASSUME NEW j \in Instances, NEW e \in stream, ReceiveCreate(j, e) PROVE FALSE
    <3>1. index' = [index EXCEPT ![j] = @ \cup {e.ad}]
      BY <2>5 DEF ReceiveCreate
    <3>2. j = i /\ a = e.ad
      BY <1>1, <2>1, <3>1 DEF ServeInv, ClusterTypeOK
    <3>3. QED
      BY <1>1, <2>1, <2>5, <3>2, DroppedIsPast
  <2>6. ASSUME NEW j \in Instances, NEW e \in stream, ReceiveDelete(j, e) PROVE FALSE
    BY <1>1, <2>1, <2>6 DEF ReceiveDelete, ServeInv, ClusterTypeOK
  <2>7. ASSUME NEW j \in Instances, End(j) PROVE FALSE
    BY <1>1, <2>1, <2>7 DEF End, ServeInv, ClusterTypeOK
  <2>8. QED
    BY <1>1, <2>3, <2>4, <2>5, <2>6, <2>7
    DEF ClusterNext, CreateAdAt, HandleDeleteAdAt, StepAt, RespondAt, Run, Panic, CrashAt, Shutdown, replicaVars,
        clusterVars
<1>2. QED
  BY <1>1, LogInvariance, ServeInvariance, PTL DEF ClusterSpec, NoResurrection

-----------------------------------------------------------------------------
(***************************************************************************)
(* What holds while every COMMIT is followed by its XADD (InStep), and no  *)
(* instance is more than the stream's length behind.                       *)
(***************************************************************************)

\* The stream still holds every entry that an instance has not read.
NothingMissed ==
  \A i \in Instances : phase[i] = "subscribed" =>
    \A e \in stream : e.id > version[i] => e \in Retained

\* The number of the last committed change.
Last == IF \E w \in Writers : pc[w] = "publish" THEN top + 1 ELSE top

\* The committed changes are numbered from 1 without a gap; an ad is created
\* once, and after that deleted once at most.
CommittedOK ==
  /\ \A e \in Committed : e \in Entries /\ 0 < e.id /\ e.id <= Last
  /\ \A n \in Nat : 0 < n /\ n <= Last => \E e \in Committed : e.id = n
  /\ \A d, e \in Committed : d.id = e.id \/ (d.type = e.type /\ d.ad = e.ad) => d = e
  /\ \A d \in Committed : d.type = "delete" =>
       \E c \in Committed : c.type = "create" /\ c.ad = d.ad /\ c.id < d.id

\* An instance that follows the stream serves what the changes up to its version
\* say; any other serves nothing.
Follows(i) ==
  /\ index[i] \subseteq known[i]
  /\ phase[i] = "subscribed" => version[i] <= Last /\ index[i] = Replicated!Live(version[i])
  /\ phase[i] # "subscribed" => version[i] = 0 /\ index[i] = {}

ReplicaOK == \A i \in Instances : Follows(i)

FollowInv == Known /\ ClusterTypeOK /\ CommittedOK /\ ReplicaOK

\* What an orderly stop leaves of the write path: all but the memory of idle
\* writers, and perhaps a lock that nobody holds.
QuietStop ==
  /\ UNCHANGED <<rows, stream, top, task, pc, op, err>>
  /\ \A w \in Writers : pc[w] # "idle" => ad'[w] = ad[w] /\ ver'[w] = ver[w]

LEMMA LastNat == TypeOK => Last \in Nat
BY DEF TypeOK, Last

\* The writer that publishes is the only one.
LEMMA Publisher ==
  ASSUME Known, NEW w \in Writers, pc[w] = "publish"
  PROVE  /\ Last = top + 1 /\ ver[w] = top + 1
         /\ Committed = stream \cup {[id |-> ver[w], type |-> op[w], ad |-> ad[w]]}
<1>1. Last = top + 1 /\ ver[w] = top + 1
  BY DEF Last, Known, StepInv, TrackOK
<1>2. \A v \in Writers : pc[v] = "publish" => v = w
  BY Alone
<1>3. {v \in Writers : pc[v] = "publish"} = {w}
  BY <1>2
<1>4. QED
  BY <1>1, <1>3 DEF Committed

LEMMA NoPublisher ==
  ASSUME \A w \in Writers : pc[w] # "publish"
  PROVE  Last = top /\ Committed = stream
BY DEF Last, Committed

\* A step that leaves the stream alone and takes nobody to or from publish.
LEMMA SameCommitted ==
  ASSUME UNCHANGED <<stream, top>>,
         \A w \in Writers :
           /\ pc'[w] = "publish" <=> pc[w] = "publish"
           /\ pc[w] = "publish" => ver'[w] = ver[w] /\ op'[w] = op[w] /\ ad'[w] = ad[w]
  PROVE  Committed' = Committed /\ Last' = Last
<1>1. {w \in Writers : pc'[w] = "publish"} = {w \in Writers : pc[w] = "publish"}
  OBVIOUS
<1>2. Last' = Last
  BY DEF Last
<1>3. Committed' = Committed
  BY <1>1 DEF Committed
<1>4. QED
  BY <1>2, <1>3

\* The committed changes grow by COMMIT alone.
LEMMA OnlyCommits ==
  ASSUME InStep, Known, Known', [Next]_vars
  PROVE  \/ Committed' = Committed /\ Last' = Last
         \/ \E w \in Writers : Commit(w)
<1> USE DEF Known, Base, Inv, TypeOK
<1>1. ASSUME NEW k \in {"expiry", "crash", "dbReply", "xadd", "xaddReply"} PROVE ~Fault(k)
  BY <1>1, InStep DEF InStep, Fault
<1>2. ASSUME NEW w \in Writers, NEW a \in Ads, CreateAd(w, a) \/ HandleDeleteAd(w, a)
      PROVE  Committed' = Committed /\ Last' = Last
  BY <1>2, SameCommitted DEF CreateAd, HandleDeleteAd, Begin
<1>3. ASSUME NEW w \in Writers, Step(w), ~Commit(w)
      PROVE  Committed' = Committed /\ Last' = Last
  <2>1. CASE XAdd(w)
    <3>1. /\ pc[w] = "publish" /\ pc'[w] = "release" /\ top' = ver[w]
          /\ stream' = stream \cup {[id |-> ver[w], type |-> op[w], ad |-> ad[w]]}
          /\ \A v \in Writers \ {w} : pc'[v] = pc[v]
      BY <2>1 DEF XAdd, AppendEntry, SucceedTo, Goto
    <3>2. \A v \in Writers : pc'[v] # "publish"
      BY <3>1, Alone
    <3>3. QED
      BY <3>1, <3>2, Publisher, NoPublisher DEF Last, Committed
  <2>2. CASE XAddFails(w)
    <3>1. ver[w] > top
      BY <2>2 DEF XAddFails, StepInv, TrackOK
    <3>2. QED
      BY <1>1, <2>2, <3>1 DEF XAddFails
  <2>3. CASE Obtain(w) \/ ObtainFails(w) \/ SelectFails(w) \/ Release(w)
    BY <2>3, SameCommitted DEF Obtain, ObtainFails, SelectFails, Release, SucceedTo, FailTo, Goto
  <2>4. CASE SelectMax(w)
    <3>1. /\ UNCHANGED <<stream, top, op, ad>> /\ pc[w] = "select" /\ pc' = [pc EXCEPT ![w] = "commit"]
          /\ \A v \in Writers \ {w} : ver'[v] = ver[v]
      BY <2>4 DEF SelectMax, Goto
    <3>2. QED
      BY <3>1, SameCommitted
  <2>5. CASE CommitFails(w)
    BY <2>5, SameCommitted DEF CommitFails, FailTo, Goto
  <2>6. CASE registerAdDeleteTask(w)
    BY <2>6, SameCommitted DEF registerAdDeleteTask, SucceedTo, Goto
  <2>7. CASE CreateFails(w) \/ EnqueueFails(w) \/ Ack(w) \/ Retry(w)
    BY <2>7, SameCommitted DEF CreateFails, EnqueueFails, Ack, Retry, Finish
  <2>8. QED
    BY <1>3, <2>1, <2>2, <2>3, <2>4, <2>5, <2>6, <2>7 DEF Step
<1>4. ASSUME NEW w \in Writers, NEW answer \in {"ok", "timeout"}, Respond(w, answer)
      PROVE  Committed' = Committed /\ Last' = Last
  BY <1>4, SameCommitted DEF Respond, Finish
<1>5. ASSUME NEW i \in Instances, Crash(i) PROVE FALSE
  BY <1>1, <1>5 DEF Crash
<1>6. CASE LockExpires \/ OrphanExpires \/ UNCHANGED vars
  BY <1>6, SameCommitted DEF LockExpires, OrphanExpires, vars
<1>7. QED
  BY <1>2, <1>3, <1>4, <1>5, <1>6 DEF Next

\* COMMIT adds the change with the next number: the creation of a new ad, or the
\* one deletion of an ad that was created.
LEMMA CommitAdds ==
  ASSUME Known, Known', NEW w \in Writers, Commit(w)
  PROVE  /\ op[w] \in {"create", "delete"} /\ ad[w] \in Ads
         /\ Last' = Last + 1
         /\ Committed' = Committed \cup {[id |-> Last + 1, type |-> op[w], ad |-> ad[w]]}
         /\ \A e \in Committed : e.ad = ad[w] => e.type = "create" /\ op[w] = "delete"
         /\ op[w] = "delete" => \E c \in Committed : c.type = "create" /\ c.ad = ad[w]
<1>1. /\ pc[w] = "commit" /\ pc'[w] = "publish" /\ UNCHANGED <<stream, top, op, ad, ver>>
  BY DEF Commit, SucceedTo, Goto, Known, Base, Inv, TypeOK
<1>2. op[w] \in {"create", "delete"} /\ ad[w] \in Ads
  BY <1>1, Alone
<1>3. \A v \in Writers : pc[v] # "publish"
  BY <1>1, Alone
<1>4. Last = top /\ Committed = stream
  BY <1>3, NoPublisher
<1>5. Last' = top + 1 /\ ver[w] = top + 1
  BY <1>1 DEF Last, Known, StepInv, TrackOK
<1>6. \A v \in Writers : pc'[v] = "publish" => v = w
  BY <1>1, <1>3 DEF Commit, SucceedTo, Goto, Known, Base, Inv, TypeOK
<1>7. {v \in Writers : pc'[v] = "publish"} = {w}
  BY <1>1, <1>6
<1>8. Committed' = stream \cup {[id |-> top + 1, type |-> op[w], ad |-> ad[w]]}
  BY <1>1, <1>5, <1>7 DEF Committed
<1>9. op[w] = "create" => ~Created(ad[w]) /\ ~Deleted(ad[w])
  <2>1. op[w] = "create" => ~Created(ad[w]) /\ task[ad[w]] = "none"
    BY <1>1 DEF Known, Base, StepInv, CreateInv, CreatorIsFirst, CreatorOK
  <2>2. QED
    BY <1>2, <2>1 DEF Known, Base, Inv, DeletedMeansTask
<1>10. op[w] = "delete" => Created(ad[w]) /\ ~Deleted(ad[w])
  BY <1>1, <1>2 DEF Known, Base, StepInv, DeleterOK, Inv, DeleterHasTask, TaskMeansCreated
<1>11. \A e \in stream : e.type \in {"create", "delete"}
  BY DEF Known, Base, Inv, TypeOK, Entries
<1>12. QED
  BY <1>2, <1>4, <1>5, <1>8, <1>9, <1>10, <1>11 DEF Created, Deleted

LEMMA CommittedStep ==
  ASSUME InStep, Known, Known', CommittedOK, [Next]_vars \/ QuietStop
  PROVE  CommittedOK'
<1>1. CASE Committed' = Committed /\ Last' = Last
  BY <1>1 DEF CommittedOK
<1>2. ASSUME NEW w \in Writers, Commit(w)
      PROVE  CommittedOK'
  <2> DEFINE new == [id |-> Last + 1, type |-> op[w], ad |-> ad[w]]
  <2>1. /\ new \in Entries /\ Last \in Nat
        /\ Last' = Last + 1 /\ Committed' = Committed \cup {new}
        /\ \A e \in Committed : e.ad = new.ad => e.type = "create" /\ new.type = "delete"
        /\ new.type = "delete" => \E c \in Committed : c.type = "create" /\ c.ad = new.ad
    BY <1>2, CommitAdds, LastNat DEF Known, Base, Inv, Entries
  <2>2. \A e \in Committed : e.id \in Nat /\ 0 < e.id /\ e.id <= Last
    BY DEF CommittedOK, Entries
  <2>3. new.id = Last + 1
    OBVIOUS
  <2> HIDE DEF new
  <2>4. \A e \in Committed' : e \in Entries /\ 0 < e.id /\ e.id <= Last'
    BY <2>1, <2>2, <2>3 DEF CommittedOK
  <2>5. \A n \in Nat : 0 < n /\ n <= Last' => \E e \in Committed' : e.id = n
    BY <2>1, <2>3 DEF CommittedOK
  <2>6. \A d, e \in Committed' : d.id = e.id \/ (d.type = e.type /\ d.ad = e.ad) => d = e
    BY <2>1, <2>2, <2>3 DEF CommittedOK
  <2>7. \A d \in Committed' : d.type = "delete" =>
          \E c \in Committed' : c.type = "create" /\ c.ad = d.ad /\ c.id < d.id
    BY <2>1, <2>2, <2>3 DEF CommittedOK
  <2>8. QED
    BY <2>4, <2>5, <2>6, <2>7 DEF CommittedOK
<1>3. CASE QuietStop
  BY <1>1, <1>3, SameCommitted DEF QuietStop
<1>4. QED
  BY <1>1, <1>2, <1>3, OnlyCommits

\* The entry that an instance reads next is the change after its version.
LEMMA NextFollows ==
  ASSUME FollowInv, NothingMissed, NEW i \in Instances, phase[i] = "subscribed", NEW e \in stream, IsNextEntry(i, e)
  PROVE  e \in Committed /\ e.id = version[i] + 1 /\ version[i] \in Nat
<1>1. version[i] \in Nat /\ top \in Nat /\ e.id \in Nat /\ e.id > version[i] /\ e.id <= top
  BY DEF FollowInv, ClusterTypeOK, Known, Base, Inv, TypeOK, Entries, TopIsLast, IsNextEntry
<1>2. e \in Committed
  BY DEF Committed
<1>3. top <= Last
  BY <1>1 DEF Last
<1>4. PICK f \in Committed : f.id = version[i] + 1
  BY <1>1, <1>3, LastNat DEF FollowInv, CommittedOK, Known, Base, Inv
<1>5. f \in stream
  <2>1. CASE \E w \in Writers : pc[w] = "publish"
    <3>1. PICK w \in Writers : pc[w] = "publish"
      BY <2>1
    <3>2. Committed = stream \cup {[id |-> ver[w], type |-> op[w], ad |-> ad[w]]} /\ ver[w] = top + 1
      BY <3>1, Publisher DEF FollowInv
    <3>3. QED
      BY <1>1, <1>4, <3>2
  <2>2. CASE \A w \in Writers : pc[w] # "publish"
    BY <2>2, NoPublisher
  <2>3. QED
    BY <2>1, <2>2
<1>6. f \in Retained
  BY <1>1, <1>4, <1>5 DEF NothingMissed
<1>7. e.id <= f.id
  BY <1>1, <1>4, <1>6 DEF IsNextEntry
<1>8. QED
  BY <1>1, <1>2, <1>4, <1>7

\* No instance panics: the deletion that it reads next is of an ad it serves.
LEMMA NextIsKnown ==
  ASSUME FollowInv, NothingMissed
  PROVE  DeletesAreKnown
<1>1. SUFFICES ASSUME NEW i \in Instances, NEW e \in stream, phase[i] = "subscribed", IsNextEntry(i, e),
                      e.type = "delete"
               PROVE  e.ad \in known[i]
  BY DEF DeletesAreKnown
<1>2. e \in Committed /\ e.id = version[i] + 1 /\ version[i] \in Nat
  BY <1>1, NextFollows
<1>3. \A c \in Committed : c.id \in Nat /\ c.ad \in Ads
  BY DEF FollowInv, CommittedOK, Entries
<1>4. Replicated!Creates(e.ad, version[i])
  BY <1>1, <1>2, <1>3 DEF FollowInv, CommittedOK, Replicated!Creates
<1>5. ~Replicated!Deletes(e.ad, version[i])
  BY <1>1, <1>2, <1>3 DEF FollowInv, CommittedOK, Replicated!Deletes
<1>6. e.ad \in Replicated!Live(version[i])
  BY <1>2, <1>3, <1>4, <1>5 DEF Replicated!Live
<1>7. QED
  BY <1>1, <1>6 DEF FollowInv, ReplicaOK, Follows

\* What the changes up to n + 1 say is what the last of them makes of the others.
LEMMA LiveAfter ==
  ASSUME CommittedOK, NEW e \in Committed, NEW n \in Nat, e.id = n + 1
  PROVE  /\ e.type = "create" => Replicated!Live(n + 1) = Replicated!Live(n) \cup {e.ad}
         /\ e.type = "delete" => Replicated!Live(n + 1) = Replicated!Live(n) \ {e.ad}
<1>1. \A c \in Committed : c.id \in Nat /\ c.ad \in Ads
  BY DEF CommittedOK, Entries
<1>2. \A c \in Committed : c.id <= n + 1 <=> c.id <= n \/ c = e
  BY <1>1 DEF CommittedOK
<1>3. \A a : Replicated!Creates(a, n + 1) <=> Replicated!Creates(a, n) \/ (e.type = "create" /\ e.ad = a)
  BY <1>2 DEF Replicated!Creates
<1>4. \A a : Replicated!Deletes(a, n + 1) <=> Replicated!Deletes(a, n) \/ (e.type = "delete" /\ e.ad = a)
  BY <1>2 DEF Replicated!Deletes
<1>5. e.type = "create" => ~Replicated!Deletes(e.ad, n + 1)
  <2>1. SUFFICES ASSUME e.type = "create", NEW d \in Committed, d.type = "delete", d.ad = e.ad, d.id <= n + 1
                 PROVE  FALSE
    BY DEF Replicated!Deletes
  <2>2. PICK c \in Committed : c.type = "create" /\ c.ad = d.ad /\ c.id < d.id
    BY <2>1 DEF CommittedOK
  <2>3. c = e
    BY <2>1, <2>2 DEF CommittedOK
  <2>4. QED
    BY <1>1, <2>1, <2>2, <2>3
<1>6. CASE e.type = "create"
  BY <1>1, <1>3, <1>4, <1>5, <1>6 DEF Replicated!Live
<1>7. CASE e.type = "delete"
  BY <1>1, <1>3, <1>4, <1>7 DEF Replicated!Live
<1>8. QED
  BY <1>6, <1>7

\* The number that Restore reads is that of the last change, and the active rows
\* are what all the changes say.
LEMMA SnapshotIsLive ==
  ASSUME Known, CommittedOK
  PROVE  /\ \A m \in Nat : IsMaxVersion(m) => m = Last
         /\ ActiveRows = Replicated!Live(Last)
<1>1. \A e \in Committed : e.id <= Last
  BY DEF CommittedOK
<1>2. \A a : /\ Replicated!Creates(a, Last) <=> \E e \in Committed : e.type = "create" /\ e.ad = a
             /\ Replicated!Deletes(a, Last) <=> \E e \in Committed : e.type = "delete" /\ e.ad = a
  BY <1>1 DEF Replicated!Creates, Replicated!Deletes
<1>3. \A m, n \in Nat : IsMaxVersion(m) /\ IsMaxVersion(n) => m = n
  BY RowVersions DEF IsMaxVersion, Known, Base, Inv
<1>4. CASE \A w \in Writers : pc[w] # "publish"
  <2>1. Last = top /\ Committed = stream
    BY <1>4, NoPublisher
  <2>2. top \in Nat /\ IsMaxVersion(top)
    BY <1>4 DEF Known, StepInv, TrackOK, Base, Inv, TypeOK
  <2>3. ASSUME NEW a \in Ads PROVE Active(a) <=> Created(a) /\ ~Deleted(a)
    BY <1>4 DEF Known, StepInv, SnapshotMatchesLog, InFlight
  <2>4. ActiveRows = Replicated!Live(Last)
    BY <1>2, <2>1, <2>3 DEF ActiveRows, Active, Created, Deleted, Replicated!Live
  <2>5. QED
    BY <1>3, <2>1, <2>2, <2>4
<1>5. ASSUME NEW w \in Writers, pc[w] = "publish"
      PROVE  (\A m \in Nat : IsMaxVersion(m) => m = Last) /\ ActiveRows = Replicated!Live(Last)
  <2> DEFINE new == [id |-> ver[w], type |-> op[w], ad |-> ad[w]]
  <2>1. Last = top + 1 /\ ver[w] = top + 1 /\ Committed = stream \cup {new}
    BY <1>5, Publisher
  <2>2. top \in Nat /\ IsMaxVersion(top + 1)
    BY <1>5, <2>1 DEF Known, StepInv, TrackOK, Base, Inv, TypeOK
  <2>3. /\ op[w] \in {"create", "delete"} /\ ad[w] \in Ads
        /\ \A v \in Writers : pc[v] = "publish" => v = w
    BY <1>5, Alone
  <2>4. ASSUME NEW a \in Ads, a # ad[w] PROVE Active(a) <=> Created(a) /\ ~Deleted(a)
    BY <1>5, <2>3, <2>4 DEF Known, StepInv, SnapshotMatchesLog, InFlight
  <2>5. op[w] = "create" => Active(ad[w]) /\ ~Deleted(ad[w])
    <3>1. op[w] = "create" => Active(ad[w]) /\ task[ad[w]] = "none"
      BY <1>5 DEF Known, Base, StepInv, CreateInv, CreatorIsFirst, CreatorOK
    <3>2. QED
      BY <2>3, <3>1 DEF Known, Base, Inv, DeletedMeansTask
  <2>6. op[w] = "delete" => ~Active(ad[w])
    BY <1>5 DEF Known, StepInv, DeleterOK
  <2>7. new.type = op[w] /\ new.ad = ad[w]
    OBVIOUS
  <2> HIDE DEF new
  <2>8. ASSUME NEW a \in Ads
        PROVE  Active(a) <=> Replicated!Creates(a, Last) /\ ~Replicated!Deletes(a, Last)
    <3>1. CASE a # ad[w]
      BY <1>2, <2>1, <2>4, <2>7, <3>1 DEF Created, Deleted
    <3>2. CASE a = ad[w]
      BY <1>2, <2>1, <2>3, <2>5, <2>6, <2>7, <3>2 DEF Created, Deleted
    <3>3. QED
      BY <3>1, <3>2
  <2>9. ActiveRows = Replicated!Live(Last)
    BY <2>8 DEF ActiveRows, Active, Replicated!Live
  <2>10. QED
    BY <1>3, <2>1, <2>2, <2>9
<1>6. QED
  BY <1>4, <1>5

-----------------------------------------------------------------------------
\* The locals that a dying process leaves are functions, as before.
LEMMA KillShape ==
  ASSUME NEW i \in Instances, Kill(i)
  PROVE  /\ pc' = [w \in Writers |-> pc'[w]] /\ op' = [w \in Writers |-> op'[w]]
         /\ err' = [w \in Writers |-> err'[w]] /\ task' = [a \in Ads |-> task'[a]]
BY DEF Kill

\* An orderly stop: the instance runs no method.
LEMMA ShutdownIsQuiet ==
  ASSUME InStep, Inv, LockOK, NEW i \in Instances, Shutdown(i)
  PROVE  QuietStop /\ LockOK'
<1>1. \A w \in Writers : Home[w] = i => op[w] = "none" /\ pc[w] = "idle"
  <2>1. ~Fault("exit")
    BY DEF InStep, Fault
  <2>2. \A w \in Writers : Home[w] = i => op[w] \notin {"create", "delete"}
    BY <2>1 DEF Shutdown
  <2>3. QED
    BY <2>2 DEF Inv, LocalsOK, TypeOK
<1>2. Kill(i)
  BY DEF Shutdown, End
<1>3. /\ UNCHANGED <<rows, stream, top>>
      /\ \A w \in Writers : pc'[w] = pc[w] /\ op'[w] = op[w] /\ err'[w] = err[w]
      /\ \A w \in Writers : pc[w] # "idle" => ad'[w] = ad[w] /\ ver'[w] = ver[w] /\ Home[w] # i
      /\ \A a \in Ads : task'[a] = task[a]
  <2>1. \A w \in Writers : Home[w] = i => err[w] = FALSE
    BY <1>1 DEF Inv, LocalsOK, TypeOK
  <2>2. QED
    BY <1>1, <1>2, <2>1 DEF Kill
<1>4. pc' = pc /\ op' = op /\ err' = err /\ task' = task
  BY <1>2, <1>3, KillShape DEF Inv, TypeOK
<1>5. LockOK'
  BY <1>2, <1>3 DEF Kill, LockOK, Critical
<1>6. QED
  BY <1>3, <1>4, <1>5 DEF QuietStop

\* The write path's invariants hold of the cluster, too.
LEMMA KnownStep ==
  ASSUME InStep, FollowInv, NothingMissed, [ClusterNext]_clusterVars
  PROVE  Known' /\ ([Next]_vars \/ QuietStop)
<1>1. ASSUME NEW i \in Instances, NEW e \in stream, Panic(i, e) PROVE FALSE
  BY <1>1, NextIsKnown DEF Panic, DeletesAreKnown
<1>2. ASSUME NEW i \in Instances, CrashAt(i) \/ RestoreTimesOut(i) PROVE FALSE
  BY <1>2 DEF CrashAt, RestoreTimesOut, Fault, InStep
<1>3. CASE [Next]_vars
  <2>1. "expiry" \notin Faulty
    BY DEF InStep
  <2>2. Inv' /\ CreateInv'
    BY <1>3, InvStep, CreateStep DEF FollowInv, Known, Base
  <2>3. LockOK' /\ VersionsDistinct'
    BY <1>3, <2>1, LockStep, VersionStep DEF FollowInv, Known, Base
  <2>4. Base'
    BY <2>2, <2>3 DEF Base
  <2>5. StepInv'
    BY <1>3, <2>4, StepInvStep DEF FollowInv
  <2>6. QED
    BY <1>3, <2>4, <2>5 DEF Known
<1>4. ASSUME NEW i \in Instances, Shutdown(i)
      PROVE  Known' /\ QuietStop
  <2>1. QuietStop /\ LockOK'
    BY <1>4, ShutdownIsQuiet DEF FollowInv, Known, Base
  <2>2. Kill(i) /\ faults' \in Nat
    BY <1>4 DEF Shutdown, End, Fault, FollowInv, ClusterTypeOK, TypeOK
  <2>3. Inv' /\ CreateInv'
    BY <2>2, KillInv, KillCreate DEF FollowInv, Known, Base
  <2>4. \A w \in Writers : op[w] # "none" => pc[w] # "idle"
    BY DEF FollowInv, Known, Base, Inv, LocalsOK
  <2>5. VersionsDistinct'
    BY <2>1 DEF QuietStop, FollowInv, Known, Base, VersionsDistinct
  <2>6. TrackOK' /\ SnapshotMatchesLog'
    BY <2>1 DEF QuietStop, FollowInv, Known, StepInv, TrackOK, SnapshotMatchesLog, IsMaxVersion, InFlight, Active,
       Created, Deleted
  <2>7. OneDeleter' /\ DueIsActive'
    BY <2>1, <2>4 DEF QuietStop, FollowInv, Known, StepInv, OneDeleter, DueIsActive, Active, Deleted
  <2>8. DeleterOK' /\ CreatorOK'
    BY <2>1, <2>4 DEF QuietStop, FollowInv, Known, StepInv, DeleterOK, CreatorOK, Active, Created, Deleted
  <2>9. QED
    BY <2>1, <2>3, <2>5, <2>6, <2>7, <2>8 DEF Known, Base, StepInv
<1>5. [Next]_vars \/ \E i \in Instances : Shutdown(i)
  <2>1. CASE UNCHANGED clusterVars
    BY <2>1 DEF clusterVars, vars
  <2>2. CASE ClusterNext
    BY <1>1, <1>2, <2>2
    DEF ClusterNext, CreateAdAt, HandleDeleteAdAt, StepAt, RespondAt, Run, Restore, ReceiveCreate, ReceiveDelete, Next
  <2>3. QED
    BY <2>1, <2>2
<1>6. QED
  BY <1>3, <1>4, <1>5

\* A new change is no concern of instances that have not read it.
LEMMA LiveStays ==
  ASSUME InStep, Known, Known', CommittedOK, [Next]_vars \/ QuietStop, NEW n \in Nat, n <= Last
  PROVE  n <= Last' /\ Replicated!Live(n)' = Replicated!Live(n)
<1>1. CASE Committed' = Committed /\ Last' = Last
  BY <1>1 DEF Replicated!Live, Replicated!Creates, Replicated!Deletes
<1>2. ASSUME NEW w \in Writers, Commit(w)
      PROVE  n <= Last' /\ Replicated!Live(n)' = Replicated!Live(n)
  <2> DEFINE new == [id |-> Last + 1, type |-> op[w], ad |-> ad[w]]
  <2>1. Last \in Nat /\ Last' = Last + 1 /\ Committed' = Committed \cup {new} /\ new.id = Last + 1
    BY <1>2, CommitAdds, LastNat DEF Known, Base, Inv
  <2> HIDE DEF new
  <2>2. ~(new.id <= n)
    BY <2>1
  <2>3. \A a : /\ Replicated!Creates(a, n)' <=> Replicated!Creates(a, n)
               /\ Replicated!Deletes(a, n)' <=> Replicated!Deletes(a, n)
    BY <2>1, <2>2 DEF Replicated!Creates, Replicated!Deletes
  <2>4. QED
    BY <2>1, <2>3 DEF Replicated!Live
<1>3. CASE QuietStop
  BY <1>1, <1>3, SameCommitted DEF QuietStop
<1>4. QED
  BY <1>1, <1>2, <1>3, OnlyCommits

\* An instance that a step does not touch.
LEMMA FollowStays ==
  ASSUME InStep, FollowInv, Known', [Next]_vars \/ QuietStop, NEW j \in Instances,
         phase'[j] = phase[j], version'[j] = version[j], index'[j] = index[j], known'[j] = known[j]
  PROVE  Follows(j)'
<1>1. PICK n \in Nat : n = version[j]
  BY DEF FollowInv, ClusterTypeOK
<1>2. CASE phase[j] = "subscribed"
  <2>1. n <= Last /\ index[j] = Replicated!Live(n) /\ index[j] \subseteq known[j]
    BY <1>1, <1>2 DEF FollowInv, ReplicaOK, Follows
  <2>2. n <= Last' /\ Replicated!Live(n)' = Replicated!Live(n)
    BY <2>1, LiveStays DEF FollowInv
  <2>3. version'[j] = n /\ index'[j] = Replicated!Live(n)'
    BY <1>1, <2>1, <2>2
  <2>4. QED
    BY <1>2, <2>1, <2>2, <2>3 DEF Follows
<1>3. CASE phase[j] # "subscribed"
  BY <1>3 DEF FollowInv, ReplicaOK, Follows
<1>4. QED
  BY <1>2, <1>3

\* Restore: the instance starts at the last change.
LEMMA RestoreFollows ==
  ASSUME InStep, FollowInv, Known', NEW i \in Instances, Restore(i)
  PROVE  /\ UNCHANGED vars
         /\ version'[i] = Last /\ index'[i] = Replicated!Live(Last) /\ phase'[i] = "subscribed"
         /\ Follows(i)'
         /\ \A j \in Instances \ {i} : Follows(j)'
<1>1. /\ UNCHANGED vars /\ [Next]_vars /\ Load(i)
      /\ phase[i] = "restoring" /\ phase'[i] = "subscribed" /\ index[i] = {} /\ index[i] \subseteq known[i]
      /\ \A j \in Instances \ {i} : /\ phase'[j] = phase[j] /\ version'[j] = version[j]
                                    /\ index'[j] = index[j] /\ known'[j] = known[j]
  BY DEF Restore, Load, FollowInv, ClusterTypeOK, ReplicaOK, Follows
<1>2. index'[i] = ActiveRows /\ index'[i] \subseteq known'[i]
  BY <1>1 DEF Load, FollowInv, ClusterTypeOK
<1>3. PICK m \in {rows[a].version : a \in Ads} : IsMaxVersion(m) /\ version' = [version EXCEPT ![i] = m]
  BY DEF Restore
<1>4. m \in Nat
  BY RowVersions DEF FollowInv, ClusterTypeOK
<1>5. m = Last /\ ActiveRows = Replicated!Live(Last)
  BY <1>3, <1>4, SnapshotIsLive DEF FollowInv
<1>6. m <= Last' /\ Replicated!Live(m)' = Replicated!Live(m)
  BY <1>1, <1>4, <1>5, LiveStays DEF FollowInv
<1>7. version'[i] = m
  BY <1>3 DEF FollowInv, ClusterTypeOK
<1>8. index'[i] = Replicated!Live(m)'
  BY <1>2, <1>5, <1>6
<1>9. Follows(i)'
  BY <1>1, <1>2, <1>6, <1>7, <1>8 DEF Follows
<1>10. \A j \in Instances \ {i} : Follows(j)'
  BY <1>1, FollowStays
<1>11. QED
  BY <1>1, <1>2, <1>5, <1>7, <1>9, <1>10

\* Subscribe and the dispatcher: the instance makes of its store what the next
\* change says.
LEMMA ReceiveFollows ==
  ASSUME InStep, FollowInv, NothingMissed, Known', NEW i \in Instances, NEW e \in stream,
         ReceiveCreate(i, e) \/ ReceiveDelete(i, e)
  PROVE  /\ UNCHANGED <<vars, phase>> /\ phase[i] = "subscribed"
         /\ e \in Committed /\ e.id = version[i] + 1
         /\ Follows(i)'
         /\ \A j \in Instances \ {i} : Follows(j)'
<1>1. /\ UNCHANGED <<vars, phase>> /\ [Next]_vars /\ phase[i] = "subscribed" /\ IsNextEntry(i, e)
      /\ version'[i] = e.id
      /\ \A j \in Instances \ {i} : version'[j] = version[j] /\ index'[j] = index[j] /\ known'[j] = known[j]
  BY DEF ReceiveCreate, ReceiveDelete, Take, FollowInv, ClusterTypeOK
<1>2. e \in Committed /\ e.id = version[i] + 1 /\ version[i] \in Nat
  BY <1>1, NextFollows
<1>3. PICK n \in Nat : n = version[i]
  BY <1>2
<1>4. n + 1 <= Last
  BY <1>2, <1>3 DEF FollowInv, CommittedOK
<1>5. index[i] = Replicated!Live(n) /\ index[i] \subseteq known[i]
  BY <1>1, <1>3 DEF FollowInv, ReplicaOK, Follows
<1>6. index'[i] = Replicated!Live(n + 1) /\ index'[i] \subseteq known'[i]
  <2>1. CASE ReceiveCreate(i, e)
    <3>1. /\ e.type = "create" /\ index'[i] = index[i] \cup {e.ad} /\ known'[i] = known[i] \cup {e.ad}
      BY <2>1 DEF ReceiveCreate, FollowInv, ClusterTypeOK
    <3>2. QED
      BY <1>2, <1>3, <1>5, <3>1, LiveAfter DEF FollowInv
  <2>2. CASE ReceiveDelete(i, e)
    <3>1. /\ e.type = "delete" /\ index'[i] = index[i] \ {e.ad} /\ known'[i] = known[i]
      BY <2>2 DEF ReceiveDelete, FollowInv, ClusterTypeOK
    <3>2. QED
      BY <1>2, <1>3, <1>5, <3>1, LiveAfter DEF FollowInv
  <2>3. QED
    BY <2>1, <2>2
<1>7. PICK k \in Nat : k = n + 1
  OBVIOUS
<1>8. k <= Last' /\ Replicated!Live(k)' = Replicated!Live(k)
  BY <1>1, <1>4, <1>7, LiveStays DEF FollowInv
<1>9. version'[i] = k /\ index'[i] = Replicated!Live(k)'
  BY <1>1, <1>2, <1>3, <1>6, <1>7, <1>8
<1>10. Follows(i)'
  BY <1>1, <1>6, <1>8, <1>9 DEF Follows
<1>11. \A j \in Instances \ {i} : Follows(j)'
  BY <1>1, FollowStays
<1>12. QED
  BY <1>1, <1>2, <1>10, <1>11

\* The kinds of steps that the cluster takes while table and stream are in step.
LEMMA StepKinds ==
  ASSUME InStep, FollowInv, NothingMissed, [ClusterNext]_clusterVars
  PROVE  \/ UNCHANGED replicaVars
         \/ UNCHANGED vars /\ \E i \in Instances :
              \/ Run(i)
              \/ Restore(i)
              \/ \E e \in stream : ReceiveCreate(i, e) \/ ReceiveDelete(i, e)
         \/ \E i \in Instances : End(i) /\ QuietStop
<1>1. ASSUME NEW i \in Instances, NEW e \in stream, Panic(i, e) PROVE FALSE
  BY <1>1, NextIsKnown DEF Panic, DeletesAreKnown
<1>2. ASSUME NEW i \in Instances, CrashAt(i) \/ RestoreTimesOut(i) PROVE FALSE
  BY <1>2 DEF CrashAt, RestoreTimesOut, Fault, InStep
<1>3. ASSUME NEW i \in Instances, Shutdown(i) PROVE End(i) /\ QuietStop
  BY <1>3, ShutdownIsQuiet DEF Shutdown, FollowInv, Known, Base
<1>4. CASE ClusterNext
  BY <1>1, <1>2, <1>3, <1>4
  DEF ClusterNext, CreateAdAt, HandleDeleteAdAt, StepAt, RespondAt, Run, Restore, ReceiveCreate, ReceiveDelete
<1>5. QED
  BY <1>4 DEF clusterVars, replicaVars

LEMMA FollowStep ==
  ASSUME InStep, FollowInv, NothingMissed, [ClusterNext]_clusterVars
  PROVE  FollowInv'
<1>1. Known' /\ ([Next]_vars \/ QuietStop)
  BY KnownStep
<1>2. ClusterTypeOK'
  BY <1>1, ClusterTypeStep DEF FollowInv, Known, Base
<1>3. CommittedOK'
  BY <1>1, CommittedStep DEF FollowInv
<1>4. ReplicaOK'
  <2>1. CASE UNCHANGED replicaVars
    BY <1>1, <2>1, FollowStays DEF ReplicaOK, replicaVars
  <2>2. ASSUME NEW i \in Instances, Run(i) PROVE ReplicaOK'
    <3>1. /\ phase[i] = "down" /\ phase'[i] = "restoring" /\ version' = version /\ index' = index /\ known' = known
          /\ \A j \in Instances \ {i} : phase'[j] = phase[j]
      BY <2>2 DEF Run, FollowInv, ClusterTypeOK
    <3>2. Follows(i)'
      BY <3>1 DEF FollowInv, ReplicaOK, Follows
    <3>3. QED
      BY <1>1, <3>1, <3>2, FollowStays DEF ReplicaOK
  <2>3. ASSUME NEW i \in Instances, Restore(i) PROVE ReplicaOK'
    BY <1>1, <2>3, RestoreFollows DEF ReplicaOK
  <2>4. ASSUME NEW i \in Instances, NEW e \in stream, ReceiveCreate(i, e) \/ ReceiveDelete(i, e) PROVE ReplicaOK'
    BY <1>1, <2>4, ReceiveFollows DEF ReplicaOK
  <2>5. ASSUME NEW i \in Instances, End(i) PROVE ReplicaOK'
    <3>1. /\ phase'[i] = "down" /\ version'[i] = 0 /\ index'[i] = {} /\ known'[i] = {}
          /\ \A j \in Instances \ {i} : /\ phase'[j] = phase[j] /\ version'[j] = version[j]
                                        /\ index'[j] = index[j] /\ known'[j] = known[j]
      BY <2>5 DEF End, FollowInv, ClusterTypeOK
    <3>2. Follows(i)'
      BY <3>1 DEF Follows
    <3>3. QED
      BY <1>1, <3>1, <3>2, FollowStays DEF ReplicaOK
  <2>6. QED
    BY <2>1, <2>2, <2>3, <2>4, <2>5, StepKinds
<1>5. QED
  BY <1>1, <1>2, <1>3, <1>4 DEF FollowInv

LEMMA FollowInitially == ClusterInit => FollowInv
<1>1. SUFFICES ASSUME ClusterInit PROVE FollowInv
  OBVIOUS
<1>2. Inv /\ CreateInv
  BY <1>1, InitInv, CreateInitially DEF ClusterInit
<1>3. LockOK /\ VersionsDistinct /\ StepInv
  BY <1>1, AdsAssumption
  DEF ClusterInit, Init, Absent, LockOK, Critical, VersionsDistinct, StepInv, TrackOK, OneDeleter, DueIsActive, DeleterOK,
      CreatorOK, SnapshotMatchesLog, IsMaxVersion, Active, Created, Deleted
<1>4. Last = 0 /\ Committed = {}
  BY <1>1 DEF ClusterInit, Init, Last, Committed
<1>5. CommittedOK
  BY <1>4 DEF CommittedOK
<1>6. ClusterTypeOK /\ ReplicaOK
  BY <1>1, <1>2 DEF ClusterInit, ClusterTypeOK, ReplicaOK, Follows, Inv
<1>7. QED
  BY <1>2, <1>3, <1>5, <1>6 DEF FollowInv, Known, Base

LEMMA FollowInvariance ==
  ASSUME InStep
  PROVE  ClusterSpec /\ []NothingMissed => []FollowInv
<1>1. FollowInv /\ NothingMissed /\ [ClusterNext]_clusterVars => FollowInv'
  BY FollowStep
<1>2. QED
  BY <1>1, FollowInitially, PTL DEF ClusterSpec

\* While every COMMIT is followed by its XADD and no instance is more than the
\* stream's length behind, the dispatcher is never asked to delete an ad that its
\* store does not know.
THEOREM DeletesFind ==
  ASSUME InStep
  PROVE  ClusterSpec /\ []NothingMissed => []DeletesAreKnown
  BY FollowInvariance, NextIsKnown, PTL

\* Under the same assumptions no instance serves an ad whose deletion it has
\* passed.
THEOREM ServesNothingStale ==
  ASSUME InStep
  PROVE  ClusterSpec /\ []NothingMissed => []NoStaleAds
<1>1. ASSUME FollowInv PROVE NoStaleAds
  BY <1>1 DEF FollowInv, ReplicaOK, Follows, NoStaleAds, Committed, Replicated!Live, Replicated!Deletes
<1>2. QED
  BY <1>1, FollowInvariance, PTL

\* Under the same assumptions an ad that an instance serves after Postgres has
\* deactivated it will end there: the entry with its deletion is in the part of
\* the stream that the instance has not read, or a worker is about to publish it
\* or to run its task again (DeleteAd, Subscribe).
THEOREM InactiveEnds ==
  ASSUME InStep
  PROVE  ClusterSpec /\ []NothingMissed => []InactiveWillEnd
<1>1. ASSUME FollowInv, NothingMissed PROVE InactiveWillEnd
  <2>1. SUFFICES ASSUME NEW i \in Instances, phase[i] = "subscribed", NEW a \in index[i], ~Active(a),
                        task[a] \notin {"due", "running"}
                 PROVE  \E e \in Retained : e.type = "delete" /\ e.ad = a /\ e.id > version[i]
    BY DEF InactiveWillEnd
  <2>2. a \in Ads /\ a \in Replicated!Live(version[i])
    BY <1>1, <2>1 DEF FollowInv, ReplicaOK, Follows, ClusterTypeOK
  <2>3. PICK c \in Committed : c.type = "create" /\ c.ad = a
    BY <2>2 DEF Replicated!Live, Replicated!Creates
  <2>4. ASSUME NEW w \in Writers, pc[w] = "publish", ad[w] = a
        PROVE  FALSE
    <3>1. op[w] \in {"create", "delete"}
      BY <1>1, <2>4, Alone DEF FollowInv
    <3>2. op[w] = "create" => Active(a)
      BY <1>1, <2>4 DEF FollowInv, Known, Base, StepInv, CreateInv, CreatorIsFirst, CreatorOK
    <3>3. op[w] = "delete" => task[a] = "running"
      BY <1>1, <2>4 DEF FollowInv, Known, StepInv, OneDeleter
    <3>4. QED
      BY <2>1, <3>1, <3>2, <3>3
  <2>5. c \in stream
    BY <2>3, <2>4 DEF Committed
  <2>6. Deleted(a)
    BY <1>1, <2>1, <2>2, <2>3, <2>4, <2>5 DEF FollowInv, Known, StepInv, SnapshotMatchesLog, InFlight, Created
  <2>7. PICK d \in stream : d.type = "delete" /\ d.ad = a
    BY <2>6 DEF Deleted
  <2>8. d.id \in Nat /\ version[i] \in Nat
    BY <1>1 DEF FollowInv, ClusterTypeOK, TypeOK, Entries
  <2>9. ~(d.id <= version[i])
    BY <2>2, <2>7 DEF Replicated!Live, Replicated!Deletes, Committed
  <2>10. QED
    BY <1>1, <2>1, <2>7, <2>8, <2>9 DEF NothingMissed
<1>2. QED
  BY <1>1, FollowInvariance, PTL

\* Under the same assumptions instances at the same version serve the same ads,
\* however each of them got there (Restore, Subscribe): what they serve is what
\* the committed changes up to that version say.
THEOREM InstancesServeTheSame ==
  ASSUME InStep
  PROVE  ClusterSpec /\ []NothingMissed => []InstancesAgree
<1>1. ASSUME FollowInv PROVE InstancesAgree
  BY <1>1 DEF FollowInv, ReplicaOK, Follows, InstancesAgree
<1>2. QED
  BY <1>1, FollowInvariance, PTL

\* Under the same assumptions the cluster implements the replicated state machine:
\* a COMMIT publishes, a Restore boots a replica from the whole log, an entry
\* that an instance reads is the next of its log, and the end of a process halts
\* its replica; every other step stutters.
THEOREM ClusterImplements ==
  ASSUME InStep
  PROVE  ClusterSpec /\ []NothingMissed => ImplementsReplicatedAds
<1> DEFINE up == {i \in Instances : phase[i] = "subscribed"}
<1>1. ClusterInit => Replicated!Init
  BY DEF ClusterInit, Init, Replicated!Init, Committed
<1>2. ASSUME FollowInv, NothingMissed, [ClusterNext]_clusterVars
      PROVE  [Replicated!Next]_Replicated!vars
  <2>1. Known' /\ ([Next]_vars \/ QuietStop) /\ Last \in Nat
    BY <1>2, KnownStep, LastNat DEF FollowInv, Known, Base, Inv
  <2>2. Replicated!IsLast(Last) /\ Last \in {0} \cup {e.id : e \in Committed}
    <3>1. Last = 0 \/ \E e \in Committed : e.id = Last
      BY <1>2, <2>1 DEF FollowInv, CommittedOK
    <3>2. Last = 0 => Committed = {}
      BY <1>2 DEF FollowInv, CommittedOK, Entries
    <3>3. QED
      BY <1>2, <3>1, <3>2 DEF FollowInv, CommittedOK, Replicated!IsLast
  <2>3. UNCHANGED vars => Committed' = Committed
    BY DEF vars, Committed
  <2>4. CASE UNCHANGED replicaVars
    <3>1. up' = up /\ version' = version /\ index' = index
      BY <2>4 DEF replicaVars
    <3>2. CASE Committed' = Committed
      BY <3>1, <3>2 DEF Replicated!vars
    <3>3. ASSUME NEW w \in Writers, Commit(w)
          PROVE  Replicated!Next
      <4>1. /\ op[w] \in {"create", "delete"} /\ ad[w] \in Ads
            /\ Committed' = Committed \cup {[id |-> Last + 1, type |-> op[w], ad |-> ad[w]]}
            /\ \A e \in Committed : e.ad = ad[w] => e.type = "create" /\ op[w] = "delete"
            /\ op[w] = "delete" => \E c \in Committed : c.type = "create" /\ c.ad = ad[w]
        BY <1>2, <2>1, <3>3, CommitAdds DEF FollowInv
      <4>2. op[w] = "create" => ~Replicated!Creates(ad[w], Last)
        BY <4>1 DEF Replicated!Creates
      <4>3. op[w] = "delete" => ad[w] \in Replicated!Live(Last)
        BY <1>2, <4>1 DEF FollowInv, CommittedOK, Replicated!Live, Replicated!Creates, Replicated!Deletes
      <4>4. Replicated!Publish(op[w], ad[w], Last)
        BY <2>2, <3>1, <4>1, <4>2, <4>3 DEF Replicated!Publish
      <4>5. QED
        BY <2>2, <4>1, <4>4 DEF Replicated!Next
    <3>4. CASE QuietStop
      BY <3>2, <3>4, SameCommitted DEF QuietStop
    <3>5. QED
      BY <1>2, <2>1, <3>2, <3>3, <3>4, OnlyCommits DEF FollowInv
  <2>5. ASSUME NEW i \in Instances, Run(i)
        PROVE  UNCHANGED Replicated!vars
    <3>1. up' = up
      BY <1>2, <2>5 DEF Run, FollowInv, ClusterTypeOK
    <3>2. QED
      BY <2>3, <2>5, <3>1 DEF Run, Replicated!vars
  <2>6. ASSUME NEW i \in Instances, Restore(i)
        PROVE  Replicated!Next
    <3>1. /\ UNCHANGED vars
          /\ version'[i] = Last /\ index'[i] = Replicated!Live(Last)
      BY <1>2, <2>1, <2>6, RestoreFollows
    <3>2. /\ version' = [version EXCEPT ![i] = Last]
          /\ index' = [index EXCEPT ![i] = Replicated!Live(Last)]
          /\ i \notin up /\ up' = up \cup {i}
      BY <1>2, <2>6, <3>1 DEF Restore, Load, FollowInv, ClusterTypeOK
    <3>3. PICK n \in {0} \cup {e.id : e \in Committed} : n = Last
      BY <2>2
    <3>4. Replicated!Boot(i, n)
      BY <2>2, <2>3, <3>1, <3>2, <3>3 DEF Replicated!Boot
    <3>5. QED
      BY <3>3, <3>4 DEF Replicated!Next
  <2>7. ASSUME NEW i \in Instances, NEW e \in stream, ReceiveCreate(i, e) \/ ReceiveDelete(i, e)
        PROVE  Replicated!Next
    <3>1. UNCHANGED <<vars, phase>> /\ phase[i] = "subscribed" /\ e \in Committed /\ e.id = version[i] + 1
      BY <1>2, <2>1, <2>7, ReceiveFollows
    <3>2. /\ version' = [version EXCEPT ![i] = e.id]
          /\ index' = [index EXCEPT ![i] = IF e.type = "create" THEN @ \cup {e.ad} ELSE @ \ {e.ad}]
      BY <2>7 DEF ReceiveCreate, ReceiveDelete, Take
    <3>3. Replicated!CatchUp(i, e)
      BY <2>3, <3>1, <3>2 DEF Replicated!CatchUp
    <3>4. QED
      BY <3>1, <3>3 DEF Replicated!Next
  <2>8. ASSUME NEW i \in Instances, End(i), QuietStop
        PROVE  [Replicated!Next]_Replicated!vars
    <3>1. /\ Committed' = Committed /\ up' = up \ {i}
          /\ version' = [version EXCEPT ![i] = 0] /\ index' = [index EXCEPT ![i] = {}]
      BY <1>2, <2>8, SameCommitted DEF End, QuietStop, FollowInv, ClusterTypeOK
    <3>2. CASE i \in up
      <4>1. Replicated!Halt(i)
        BY <3>1, <3>2 DEF Replicated!Halt
      <4>2. QED
        BY <4>1 DEF Replicated!Next
    <3>3. CASE i \notin up
      <4>1. version[i] = 0 /\ index[i] = {}
        BY <1>2, <3>3 DEF FollowInv, ReplicaOK, Follows
      <4>2. version' = version /\ index' = index
        BY <1>2, <3>1, <4>1 DEF FollowInv, ClusterTypeOK
      <4>3. QED
        BY <3>1, <3>3, <4>2 DEF Replicated!vars
    <3>4. QED
      BY <3>2, <3>3
  <2>9. QED
    BY <1>2, <2>4, <2>5, <2>6, <2>7, <2>8, StepKinds
<1>3. QED
  BY <1>1, <1>2, FollowInvariance, PTL DEF ClusterSpec, ImplementsReplicatedAds, Replicated!Spec
=============================================================================
