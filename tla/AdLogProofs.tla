---------------------------- MODULE AdLogProofs ----------------------------
(***************************************************************************)
(* Theorems about AdLog for any sets of ads and writers, any set of faults *)
(* and any number of them.  Inv strengthens the invariants that hold       *)
(* whatever fails into an inductive one; the second half names the faults  *)
(* that it excludes.                                                       *)
(***************************************************************************)
EXTENDS AdLog, TLAPS

\* A writer that is inside a method has its arguments, and a number once it has
\* read the maximum.
LocalsOK ==
  \A w \in Writers :
    /\ pc[w] # "idle" => op[w] \in {"create", "delete"} /\ ad[w] \in Ads
    /\ pc[w] = "idle" => op[w] = "none" /\ ~err[w]
    /\ pc[w] \in {"commit", "publish"} => ver[w] # 0
    /\ pc[w] \in {"obtain", "select", "commit", "publish"} => ~err[w]
    /\ pc[w] = "wait" => op[w] = "create" /\ ~err[w]

\* Entries have distinct ids up to the last one.
TopIsLast == \A e \in stream : e.id <= top

\* A delete task exists only for an ad whose creation is in the stream, and a
\* deletion is published only by a delete task.
TaskMeansCreated == \A a \in Ads : task[a] # "none" => Created(a)
DeletedMeansTask == \A a \in Ads : Deleted(a) => task[a] # "none"
DeleterHasTask == \A w \in Writers : op[w] = "delete" => task[ad[w]] # "none"

\* A method that is past XADD without an error has published.
PublishedOK ==
  \A w \in Writers :
    pc[w] \in {"release", "return", "wait"} /\ ~err[w] =>
      /\ op[w] = "create" => Created(ad[w])
      /\ op[w] = "delete" => Deleted(ad[w])

WaitMeansTask == \A w \in Writers : pc[w] = "wait" => task[ad[w]] # "none"

Inv ==
  /\ TypeOK
  /\ LocalsOK
  /\ TopIsLast
  /\ TaskMeansCreated
  /\ DeletedMeansTask
  /\ DeleterHasTask
  /\ PublishedOK
  /\ WaitMeansTask
  /\ CreateBeforeDelete
  /\ DoneMeansDeleted
  /\ AcknowledgedIsDurable

-----------------------------------------------------------------------------
LEMMA InitInv == Init => Inv
<1>1. SUFFICES ASSUME Init PROVE Inv
  OBVIOUS
<1>2. TypeOK
  BY <1>1, LockAssumption DEF Init, TypeOK, Rows, Absent, Entries, TaskStates, Outcomes, Labels
<1>3. QED
  BY <1>1, <1>2 DEF Init, Inv, LocalsOK, TopIsLast, TaskMeansCreated, DeletedMeansTask, DeleterHasTask,
     PublishedOK, WaitMeansTask, CreateBeforeDelete, DoneMeansDeleted, AcknowledgedIsDurable, Created, Deleted

\* The table a transaction leaves is well typed.
LEMMA WriteType ==
  ASSUME TypeOK, LocalsOK, NEW w \in Writers, pc[w] = "commit", Write(w)
  PROVE  rows' \in [Ads -> Rows]
<1>1. ad[w] \in Ads /\ ver[w] \in Nat \ {0}
  BY DEF LocalsOK, TypeOK
<1>2. CASE InsertAd(ad[w], ver[w])
  BY <1>1, <1>2 DEF InsertAd, TypeOK, Rows
<1>3. CASE DeactivateAndPurge(ad[w], ver[w])
  BY <1>1, <1>3 DEF DeactivateAndPurge, TypeOK, Rows, Absent
<1>4. QED
  BY <1>2, <1>3 DEF Write

\* The end of a process, whatever ends it.
LEMMA KillType ==
  ASSUME TypeOK, NEW i \in Instances, Kill(i), faults' \in Nat
  PROVE  TypeOK'
<1>1. task' \in [Ads -> TaskStates] /\ outcome' \in [Ads -> Outcomes]
  BY DEF Kill, TypeOK, TaskStates, Outcomes
<1>2. lock' \in Writers \cup {Free, Orphan}
  BY DEF Kill, TypeOK
<1>3. QED
  BY <1>1, <1>2 DEF Kill, TypeOK, Labels

LEMMA TypeStep == Inv /\ [Next]_vars => TypeOK'
<1>1. SUFFICES ASSUME Inv, [Next]_vars PROVE TypeOK'
  OBVIOUS
<1> USE <1>1 DEF Inv
<1>2. ASSUME NEW w \in Writers, NEW a \in Ads, CreateAd(w, a) PROVE TypeOK'
  BY <1>2 DEF CreateAd, Begin, TypeOK, Outcomes, Labels
<1>3. ASSUME NEW w \in Writers, NEW a \in Ads, HandleDeleteAd(w, a) PROVE TypeOK'
  BY <1>3 DEF HandleDeleteAd, Begin, TypeOK, TaskStates, Labels
<1>4. ASSUME NEW w \in Writers, Step(w) PROVE TypeOK'
  <2>1. CASE Obtain(w)
    BY <2>1 DEF Obtain, SucceedTo, Goto, TypeOK, Labels
  <2>2. CASE ObtainFails(w)
    BY <2>2 DEF ObtainFails, Fault, FailTo, Goto, TypeOK, Labels
  <2>3. CASE SelectMax(w)
    BY <2>3 DEF SelectMax, NextVersion, Goto, TypeOK, Labels, Rows, Absent
  <2>4. CASE SelectFails(w)
    BY <2>4 DEF SelectFails, Fault, FailTo, Goto, TypeOK, Labels
  <2>5. CASE Commit(w)
    BY <2>5, WriteType DEF Commit, SucceedTo, Goto, TypeOK, Labels
  <2>6. CASE CommitFails(w)
    BY <2>6, WriteType DEF CommitFails, Fault, FailTo, Goto, TypeOK, Labels
  <2>7. CASE XAdd(w)
    BY <2>7 DEF XAdd, AppendEntry, SucceedTo, Goto, TypeOK, Labels, Entries, LocalsOK
  <2>8. CASE XAddFails(w)
    BY <2>8 DEF XAddFails, AppendEntry, Fault, FailTo, Goto, TypeOK, Labels, Entries, LocalsOK
  <2>9. CASE Release(w)
    BY <2>9 DEF Release, Fault, SucceedTo, Goto, TypeOK, Labels
  <2>10. CASE CreateFails(w)
    BY <2>10 DEF CreateFails, Finish, TypeOK, Labels, Outcomes
  <2>11. CASE registerAdDeleteTask(w)
    BY <2>11 DEF registerAdDeleteTask, SucceedTo, Goto, TypeOK, Labels, TaskStates
  <2>12. CASE EnqueueFails(w)
    <3>1. task' \in [Ads -> TaskStates]
      BY <2>12 DEF EnqueueFails, TypeOK, TaskStates
    <3>2. outcome' \in [Ads -> Outcomes]
      BY <2>12 DEF EnqueueFails, TypeOK, Outcomes
    <3>3. faults' \in Nat
      BY <2>12 DEF EnqueueFails, Fault, TypeOK
    <3>4. UNCHANGED <<rows, stream, top, lock>> /\ Finish(w)
      BY <2>12 DEF EnqueueFails
    <3>5. QED
      BY <3>1, <3>2, <3>3, <3>4 DEF Finish, TypeOK, Labels
  <2>13. CASE Ack(w)
    BY <2>13 DEF Ack, Finish, TypeOK, Labels, TaskStates
  <2>14. CASE Retry(w)
    BY <2>14 DEF Retry, Finish, TypeOK, Labels, TaskStates
  <2>15. QED
    BY <1>4, <2>1, <2>2, <2>3, <2>4, <2>5, <2>6, <2>7, <2>8, <2>9, <2>10, <2>11, <2>12, <2>13, <2>14 DEF Step
<1>5. ASSUME NEW w \in Writers, NEW answer \in {"ok", "timeout"}, Respond(w, answer) PROVE TypeOK'
  BY <1>5 DEF Respond, Finish, TypeOK, Labels, Outcomes
<1>6. ASSUME NEW i \in Instances, Crash(i) PROVE TypeOK'
  BY <1>6, KillType DEF Crash, Fault, TypeOK
<1>7. CASE LockExpires
  BY <1>7 DEF LockExpires, Fault, TypeOK
<1>8. CASE OrphanExpires
  BY <1>8 DEF OrphanExpires, TypeOK
<1>9. CASE UNCHANGED vars
  BY <1>9 DEF vars, TypeOK
<1>10. QED
  BY <1>2, <1>3, <1>4, <1>5, <1>6, <1>7, <1>8, <1>9 DEF Next

\* Entries are never removed, so what the stream says of an ad stays said.
LEMMA StreamGrows ==
  ASSUME stream \subseteq stream', NEW a
  PROVE  (Created(a) => Created(a)') /\ (Deleted(a) => Deleted(a)')
  BY DEF Created, Deleted

\* Steps that leave the stream and the delete tasks alone.
LEMMA LocalStep ==
  ASSUME Inv, TypeOK', UNCHANGED <<stream, top, task>>,
         LocalsOK', DeleterHasTask', PublishedOK', WaitMeansTask', AcknowledgedIsDurable'
  PROVE  Inv'
  BY DEF Inv, TopIsLast, TaskMeansCreated, DeletedMeansTask, CreateBeforeDelete, DoneMeansDeleted,
         Created, Deleted

\* The step that publishes: an entry above all others, for an ad whose creation
\* is in the stream already if the entry is its deletion.
LEMMA AppendStep ==
  ASSUME Inv, TypeOK', NEW w \in Writers, pc[w] = "publish", AppendEntry(w),
         pc' = [pc EXCEPT ![w] = "release"], err'[w] \in BOOLEAN,
         \A v \in Writers \ {w} : err'[v] = err[v],
         UNCHANGED <<op, ad, ver, task, outcome>>
  PROVE  Inv'
<1>1. ad[w] \in Ads /\ op[w] \in {"create", "delete"} /\ ver[w] \in Nat
  BY DEF Inv, LocalsOK, TypeOK
<1> DEFINE new == [id |-> ver[w], type |-> op[w], ad |-> ad[w]]
<1>2. stream' = stream \cup {new} /\ top' = new.id /\ top < new.id
  BY <1>1 DEF AppendEntry, Inv, TypeOK
<1>3. \A e \in stream : e.id < new.id
  BY <1>1, <1>2 DEF Inv, TopIsLast, TypeOK, Entries
<1>4. op[w] = "delete" => \E c \in stream : c.type = "create" /\ c.ad = ad[w]
  BY <1>1 DEF Inv, DeleterHasTask, TaskMeansCreated, Created, TypeOK
<1>5. TopIsLast' /\ CreateBeforeDelete'
  BY <1>1, <1>2, <1>3, <1>4 DEF Inv, TopIsLast, CreateBeforeDelete, TypeOK, Entries
<1>6. TaskMeansCreated' /\ DoneMeansDeleted' /\ AcknowledgedIsDurable'
  BY <1>2 DEF Inv, TaskMeansCreated, DoneMeansDeleted, AcknowledgedIsDurable, Created, Deleted
<1>7. DeletedMeansTask'
  BY <1>1, <1>2 DEF Inv, DeletedMeansTask, DeleterHasTask, Deleted
<1>8. LocalsOK' /\ DeleterHasTask' /\ WaitMeansTask'
  BY DEF Inv, LocalsOK, DeleterHasTask, WaitMeansTask, TypeOK
<1>9. PublishedOK'
  <2>1. new \in stream' /\ new.type = op[w] /\ new.ad = ad[w]
    BY <1>2
  <2>2. ASSUME NEW v \in Writers, v # w PROVE pc'[v] = pc[v] /\ err'[v] = err[v]
    BY <2>2 DEF Inv, TypeOK
  <2>3. ASSUME NEW v \in Writers, v # w, pc'[v] \in {"release", "return", "wait"}, ~err'[v]
        PROVE  (op[v] = "create" => Created(ad[v])) /\ (op[v] = "delete" => Deleted(ad[v]))
    BY <2>2, <2>3 DEF Inv, PublishedOK
  <2>4. ASSUME NEW v \in Writers, pc'[v] \in {"release", "return", "wait"}, ~err'[v], op[v] \in {"create", "delete"}
        PROVE  \E f \in stream' : f.type = op[v] /\ f.ad = ad[v]
    <3>1. CASE v = w
      BY <2>1, <3>1
    <3>2. CASE v # w
      BY <1>2, <2>3, <2>4, <3>2 DEF Created, Deleted
    <3>3. QED
      BY <3>1, <3>2
  <2>5. QED
    BY <2>4 DEF PublishedOK, Created, Deleted
<1>10. QED
  BY <1>5, <1>6, <1>7, <1>8, <1>9 DEF Inv

\* A goroutine that returns leaves nothing behind that the local conjuncts speak of.
LEMMA FinishOK ==
  ASSUME Inv, TypeOK', NEW w \in Writers, Finish(w), UNCHANGED stream,
         \A a \in Ads : task[a] # "none" => task'[a] # "none"
  PROVE  LocalsOK' /\ DeleterHasTask' /\ PublishedOK' /\ WaitMeansTask'
<1>1. pc'[w] = "idle" /\ op'[w] = "none" /\ ~err'[w]
  BY DEF Inv, TypeOK, Finish
<1>2. ASSUME NEW v \in Writers, v # w
      PROVE  pc'[v] = pc[v] /\ op'[v] = op[v] /\ ad'[v] = ad[v] /\ ver'[v] = ver[v] /\ err'[v] = err[v]
  BY <1>2 DEF Inv, TypeOK, Finish
<1>3. LocalsOK'
  BY <1>1, <1>2 DEF Inv, LocalsOK
<1>4. DeleterHasTask' /\ WaitMeansTask'
  BY <1>1, <1>2 DEF Inv, LocalsOK, DeleterHasTask, WaitMeansTask
<1>5. PublishedOK'
  BY <1>1, <1>2 DEF Inv, PublishedOK, Created, Deleted
<1>6. QED
  BY <1>3, <1>4, <1>5

\* A goroutine that starts has published nothing yet.
LEMMA BeginOK ==
  ASSUME Inv, TypeOK', NEW w \in Writers, NEW kind \in {"create", "delete"}, NEW a \in Ads, Begin(w, kind, a),
         \A b \in Ads : task[b] # "none" => task'[b] # "none",
         kind = "delete" => task'[a] # "none"
  PROVE  LocalsOK' /\ DeleterHasTask' /\ PublishedOK' /\ WaitMeansTask'
<1>1. pc[w] = "idle" /\ pc'[w] = "obtain" /\ op'[w] = kind /\ ad'[w] = a /\ err'[w] = err[w]
  BY DEF Inv, TypeOK, Begin
<1>2. ASSUME NEW v \in Writers, v # w
      PROVE  pc'[v] = pc[v] /\ op'[v] = op[v] /\ ad'[v] = ad[v] /\ ver'[v] = ver[v] /\ err'[v] = err[v]
  BY <1>2 DEF Inv, TypeOK, Begin
<1>3. ~err[w]
  BY <1>1 DEF Inv, LocalsOK
<1>4. LocalsOK'
  BY <1>1, <1>2, <1>3 DEF Inv, LocalsOK
<1>5. ASSUME NEW v \in Writers
      PROVE  (op'[v] = "delete" => task'[ad'[v]] # "none") /\ (pc'[v] = "wait" => task'[ad'[v]] # "none")
  <2>1. CASE v = w
    BY <1>1, <2>1
  <2>2. CASE v # w
    <3>1. (op[v] = "delete" \/ pc[v] = "wait") => task[ad[v]] # "none" /\ ad[v] \in Ads
      BY DEF Inv, LocalsOK, DeleterHasTask, WaitMeansTask
    <3>2. QED
      BY <1>2, <2>2, <3>1
  <2>3. QED
    BY <2>1, <2>2
<1>6. PublishedOK'
  BY <1>1, <1>2 DEF Inv, PublishedOK, Created, Deleted, Begin
<1>7. QED
  BY <1>4, <1>5, <1>6 DEF DeleterHasTask, WaitMeansTask

\* Writers that die leave their entries, and their delete tasks to be run again.
LEMMA KillInv ==
  ASSUME Inv, NEW i \in Instances, Kill(i), faults' \in Nat
  PROVE  Inv'
<1>1. /\ UNCHANGED <<stream, top>>
      /\ \A w \in Writers :
           \/ pc'[w] = "idle" /\ op'[w] = "none" /\ ~err'[w]
           \/ pc'[w] = pc[w] /\ op'[w] = op[w] /\ ad'[w] = ad[w] /\ ver'[w] = ver[w] /\ err'[w] = err[w]
  BY DEF Kill
<1>2. ASSUME NEW a \in Ads
      PROVE  /\ task'[a] # "none" <=> task[a] # "none"
             /\ task'[a] = "done" => task[a] = "done"
             /\ outcome'[a] = "ok" => outcome[a] = "ok"
  BY DEF Kill, Inv, TypeOK, DeleterHasTask
<1>3. TypeOK' /\ LocalsOK'
  BY <1>1, KillType DEF Inv, LocalsOK
<1>4. DeleterHasTask' /\ WaitMeansTask'
  BY <1>1, <1>2 DEF Inv, LocalsOK, DeleterHasTask, WaitMeansTask
<1>5. PublishedOK'
  BY <1>1 DEF Inv, PublishedOK, Created, Deleted
<1>6. TopIsLast' /\ CreateBeforeDelete'
  BY <1>1 DEF Inv, TopIsLast, CreateBeforeDelete
<1>7. TaskMeansCreated' /\ DeletedMeansTask' /\ DoneMeansDeleted' /\ AcknowledgedIsDurable'
  BY <1>1, <1>2 DEF Inv, TaskMeansCreated, DeletedMeansTask, DoneMeansDeleted, AcknowledgedIsDurable, Created, Deleted
<1>8. QED
  BY <1>3, <1>4, <1>5, <1>6, <1>7 DEF Inv

LEMMA InvStep == Inv /\ [Next]_vars => Inv'
<1>1. SUFFICES ASSUME Inv, [Next]_vars PROVE Inv'
  OBVIOUS
<1> USE <1>1
<1>0. TypeOK'
  BY TypeStep
<1>2. ASSUME NEW w \in Writers, NEW a \in Ads, CreateAd(w, a) PROVE Inv'
  <2>1. Begin(w, "create", a) /\ UNCHANGED <<stream, top, task>>
    BY <1>2 DEF CreateAd, Begin
  <2>2. LocalsOK' /\ DeleterHasTask' /\ PublishedOK' /\ WaitMeansTask'
    BY <1>0, <2>1, BeginOK
  <2>3. AcknowledgedIsDurable'
    BY <1>2 DEF Inv, CreateAd, Begin, TypeOK, AcknowledgedIsDurable, Created
  <2>4. QED
    BY <1>0, <2>1, <2>2, <2>3, LocalStep
<1>3. ASSUME NEW w \in Writers, NEW a \in Ads, HandleDeleteAd(w, a) PROVE Inv'
  <2>1. Begin(w, "delete", a) /\ task' = [task EXCEPT ![a] = "running"] /\ task[a] = "due" /\ UNCHANGED outcome
    BY <1>3 DEF HandleDeleteAd
  <2>2. ASSUME NEW b \in Ads
        PROVE  /\ task'[b] # "none" <=> task[b] # "none"
               /\ task'[b] = "done" => task[b] = "done"
    BY <2>1 DEF Inv, TypeOK
  <2>3. LocalsOK' /\ DeleterHasTask' /\ PublishedOK' /\ WaitMeansTask'
    BY <1>0, <2>1, <2>2, BeginOK
  <2>4. TopIsLast' /\ CreateBeforeDelete'
    BY <2>1 DEF Inv, Begin, TopIsLast, CreateBeforeDelete
  <2>5. TaskMeansCreated' /\ DeletedMeansTask' /\ DoneMeansDeleted' /\ AcknowledgedIsDurable'
    BY <2>1, <2>2 DEF Inv, Begin, TaskMeansCreated, DeletedMeansTask, DoneMeansDeleted, AcknowledgedIsDurable,
       Created, Deleted
  <2>6. QED
    BY <1>0, <2>3, <2>4, <2>5 DEF Inv
<1>4. ASSUME NEW w \in Writers, Step(w) PROVE Inv'
  <2> USE <1>0 DEF Inv, TypeOK, LocalsOK, TopIsLast, TaskMeansCreated, DeletedMeansTask,
     DeleterHasTask, PublishedOK, WaitMeansTask, CreateBeforeDelete, DoneMeansDeleted, AcknowledgedIsDurable,
     Created, Deleted
  <2>1. CASE Obtain(w)
    BY <2>1, LocalStep DEF Obtain, SucceedTo, Goto
  <2>2. CASE ObtainFails(w)
    BY <2>2, LocalStep DEF ObtainFails, Fault, FailTo, Goto
  <2>3. CASE SelectMax(w)
    BY <2>3, LocalStep DEF SelectMax, NextVersion, Goto, Rows, Absent
  <2>4. CASE SelectFails(w)
    BY <2>4, LocalStep DEF SelectFails, Fault, FailTo, Goto
  <2>5. CASE Commit(w)
    BY <2>5, LocalStep DEF Commit, SucceedTo, Goto
  <2>6. CASE CommitFails(w)
    BY <2>6, LocalStep DEF CommitFails, Fault, FailTo, Goto
  <2>7. CASE XAdd(w)
    BY <2>7, AppendStep DEF XAdd, SucceedTo, Goto
  <2>8. CASE XAddFails(w)
    <3>1. CASE AppendEntry(w)
      BY <2>8, <3>1, AppendStep DEF XAddFails, FailTo, Goto
    <3>2. CASE UNCHANGED <<stream, top>>
      BY <2>8, <3>2, LocalStep DEF XAddFails, FailTo, Goto
    <3>3. QED
      BY <2>8, <3>1, <3>2 DEF XAddFails
  <2>9. CASE Release(w)
    BY <2>9, LocalStep DEF Release, Fault, SucceedTo, Goto
  <2>10. CASE CreateFails(w)
    BY <2>10, LocalStep DEF CreateFails, Finish
  <2>11. CASE registerAdDeleteTask(w)
    BY <2>11 DEF registerAdDeleteTask, SucceedTo, Goto
  <2>12. CASE EnqueueFails(w)
    BY <2>12 DEF EnqueueFails, Fault, Finish
  <2>13. CASE Ack(w)
    BY <2>13 DEF Ack, Finish
  <2>14. CASE Retry(w)
    BY <2>14 DEF Retry, Finish
  <2>15. QED
    BY <1>4, <2>1, <2>2, <2>3, <2>4, <2>5, <2>6, <2>7, <2>8, <2>9, <2>10, <2>11, <2>12, <2>13, <2>14 DEF Step
<1>5. ASSUME NEW w \in Writers, NEW answer \in {"ok", "timeout"}, Respond(w, answer) PROVE Inv'
  <2>1. UNCHANGED <<stream, top, task>> /\ Finish(w)
    BY <1>5 DEF Respond
  <2>2. AcknowledgedIsDurable'
    BY <1>5, <2>1 DEF Respond, Inv, TypeOK, LocalsOK, PublishedOK, WaitMeansTask, AcknowledgedIsDurable, Created
  <2>3. QED
    BY <1>0, <2>1, <2>2, FinishOK, LocalStep
<1>6. ASSUME NEW i \in Instances, Crash(i) PROVE Inv'
  BY <1>0, <1>6, KillInv DEF Crash, TypeOK
<1>7. CASE LockExpires
  BY <1>0, <1>7, LocalStep DEF LockExpires, Inv, LocalsOK, DeleterHasTask, PublishedOK, WaitMeansTask,
     AcknowledgedIsDurable, Created, Deleted
<1>8. CASE OrphanExpires
  BY <1>0, <1>8, LocalStep DEF OrphanExpires, Inv, LocalsOK, DeleterHasTask, PublishedOK, WaitMeansTask,
     AcknowledgedIsDurable, Created, Deleted
<1>9. CASE UNCHANGED vars
  BY <1>0, <1>9, LocalStep DEF vars, Inv, LocalsOK, DeleterHasTask, PublishedOK, WaitMeansTask,
     AcknowledgedIsDurable, Created, Deleted
<1>10. QED
  BY <1>2, <1>3, <1>4, <1>5, <1>6, <1>7, <1>8, <1>9 DEF Next

-----------------------------------------------------------------------------
THEOREM Invariance == Spec => []Inv
<1>1. QED
  BY InitInv, InvStep, PTL DEF Spec

\* Every reachable state is well typed.
THEOREM TypeCorrect == Spec => []TypeOK
  BY Invariance, PTL DEF Inv

\* Whatever fails, no deletion precedes its creation in the stream (DeleteAd and
\* CreateAd of pkg/service/ad.go): a replica that reads the stream from its start
\* never deletes an ad it does not know.
THEOREM NeverDeletesUnknown == Spec => []CreateBeforeDelete
  BY Invariance, PTL DEF Inv

\* Whatever fails, asynq completes a delete task only when its deletion is in the
\* stream.
THEOREM CompletedIsPublished == Spec => []DoneMeansDeleted
  BY Invariance, PTL DEF Inv

\* Whatever fails, the ad of a client that got its id is in the stream and has a
\* delete task.
THEOREM AcknowledgedStays == Spec => []AcknowledgedIsDurable
  BY Invariance, PTL DEF Inv

-----------------------------------------------------------------------------
(***************************************************************************)
(* One publication per ad, under its row's version.                        *)
(***************************************************************************)

\* The writer that creates an ad is the only one, and nothing of the ad exists
\* before its turn.
OneCreator ==
  \A v, w \in Writers : op[v] = "create" /\ op[w] = "create" /\ ad[v] = ad[w] => v = w
CreatorWaits == \A w \in Writers : op[w] = "create" => outcome[ad[w]] = "waiting"
UnsentIsNew == \A a \in Ads : outcome[a] = "unsent" => rows[a].state = "absent" /\ ~Created(a)
CreatorIsFirst ==
  \A w \in Writers : op[w] = "create" =>
    /\ pc[w] \in {"obtain", "select", "commit"} => rows[ad[w]].state = "absent" /\ ~Created(ad[w])
    /\ pc[w] = "publish" => /\ ~Created(ad[w])
                            /\ Active(ad[w]) /\ rows[ad[w]].version = ver[w]

CreateInv ==
  /\ OneCreator
  /\ CreatorWaits
  /\ UnsentIsNew
  /\ CreatorIsFirst
  /\ PublishedIsStored

\* Steps of a writer that change neither the table nor the stream, create no
\* task that was there before, and do not take their writer back in CreateAd.
LEMMA QuietStep ==
  ASSUME Inv, Inv', CreateInv, NEW w \in Writers,
         UNCHANGED <<rows, stream>>,
         \A a \in Ads : task[a] # "none" => task'[a] # "none",
         \A a \in Ads : outcome'[a] = "unsent" => outcome[a] = "unsent",
         \A v \in Writers \ {w} :
            /\ op'[v] = op[v] /\ ad'[v] = ad[v] /\ pc'[v] = pc[v] /\ ver'[v] = ver[v]
            /\ op[v] = "create" => outcome'[ad[v]] = outcome[ad[v]],
         \/ op'[w] # "create"
         \/ /\ op'[w] = op[w] /\ ad'[w] = ad[w] /\ outcome'[ad[w]] = outcome[ad[w]]
            /\ \/ pc[w] \in {"obtain", "select", "commit"} /\ pc'[w] # "publish"
               \/ pc'[w] \in {"release", "return", "wait"}
  PROVE  CreateInv'
<1>1. OneCreator' /\ CreatorWaits'
  BY DEF CreateInv, OneCreator, CreatorWaits
<1>2. UnsentIsNew'
  BY DEF CreateInv, UnsentIsNew, Created
<1>3. CreatorIsFirst'
  BY DEF CreateInv, CreatorIsFirst, Created, Active
<1>4. PublishedIsStored'
  BY DEF CreateInv, PublishedIsStored, Active, Inv, TypeOK, Entries
<1>5. QED
  BY <1>1, <1>2, <1>3, <1>4 DEF CreateInv

\* The return of a method.
LEMMA ReturnStep ==
  ASSUME Inv, Inv', CreateInv, NEW w \in Writers, Finish(w), UNCHANGED <<rows, stream>>,
         \/ UNCHANGED task
         \/ \E t \in {"due", "done"} : task' = [task EXCEPT ![ad[w]] = t],
         \/ UNCHANGED outcome
         \/ op[w] = "create" /\ \E o \in Outcomes \ {"unsent"} : outcome' = [outcome EXCEPT ![ad[w]] = o]
  PROVE  CreateInv'
<1>1. op'[w] = "none"
  BY DEF Finish, Inv, TypeOK
<1>2. \A a \in Ads : task[a] # "none" => task'[a] # "none"
  BY DEF Inv, TypeOK
<1>3. \A a \in Ads : outcome'[a] = "unsent" => outcome[a] = "unsent"
  BY DEF Inv, TypeOK
<1>4. ASSUME NEW v \in Writers \ {w}
      PROVE  /\ op'[v] = op[v] /\ ad'[v] = ad[v] /\ pc'[v] = pc[v] /\ ver'[v] = ver[v]
             /\ op[v] = "create" => outcome'[ad[v]] = outcome[ad[v]]
  <2>1. op'[v] = op[v] /\ ad'[v] = ad[v] /\ pc'[v] = pc[v] /\ ver'[v] = ver[v]
    BY DEF Finish, Inv, TypeOK
  <2>2. op[v] = "create" /\ op[w] = "create" => ad[v] # ad[w]
    BY DEF CreateInv, OneCreator
  <2>3. op[v] = "create" => ad[v] \in Ads
    BY DEF Inv, LocalsOK
  <2>4. QED
    BY <2>1, <2>2, <2>3 DEF Inv, TypeOK
<1>5. op'[w] # "create"
  BY <1>1
<1>6. QED
  BY <1>2, <1>3, <1>4, <1>5, QuietStep, Zenon

\* What a transaction does to the rows of other ads, and to its own.
LEMMA WriteRows ==
  ASSUME TypeOK, LocalsOK, NEW w \in Writers, pc[w] = "commit", Write(w)
  PROVE  /\ \A b \in Ads \ {ad[w]} : Active(b) \/ rows[b].state = "absent" => rows'[b] = rows[b]
         /\ \A b \in Ads \ {ad[w]} : rows[b].state = "inactive" => rows'[b] = rows[b] \/ rows'[b] = Absent
         /\ op[w] = "create" => rows'[ad[w]] = [state |-> "active", version |-> ver[w]]
         /\ op[w] = "delete" /\ rows[ad[w]].state = "absent" => rows'[ad[w]] = rows[ad[w]]
         /\ op[w] = "delete" /\ rows[ad[w]].state # "absent" =>
              rows'[ad[w]] = [state |-> "inactive", version |-> ver[w]]
<1>1. ad[w] \in Ads /\ rows \in [Ads -> Rows]
  BY DEF LocalsOK, TypeOK
<1>2. CASE op[w] = "create" /\ InsertAd(ad[w], ver[w])
  BY <1>1, <1>2 DEF InsertAd, Active
<1>3. CASE op[w] = "delete" /\ DeactivateAndPurge(ad[w], ver[w])
  BY <1>1, <1>3 DEF DeactivateAndPurge, Active, Rows, Absent
<1>4. QED
  BY <1>2, <1>3 DEF Write

\* A transaction followed by its writer's turn to publish or by its return.
LEMMA WriteStep ==
  ASSUME Inv, Inv', CreateInv, NEW w \in Writers, pc[w] = "commit", Write(w),
         UNCHANGED <<stream, task, outcome, op, ad, ver>>,
         \A v \in Writers \ {w} : pc'[v] = pc[v],
         pc'[w] \in {"publish", "release"}
  PROVE  CreateInv'
<1>1. op[w] \in {"create", "delete"} /\ ad[w] \in Ads
  BY DEF Inv, LocalsOK
<1>2. /\ \A b \in Ads \ {ad[w]} : Active(b) \/ rows[b].state = "absent" => rows'[b] = rows[b]
      /\ \A b \in Ads \ {ad[w]} : rows[b].state = "inactive" => rows'[b].state \in {"inactive", "absent"}
      /\ op[w] = "create" => rows'[ad[w]] = [state |-> "active", version |-> ver[w]]
      /\ op[w] = "delete" => rows'[ad[w]].state \in {"inactive", "absent"}
  <2>1. TypeOK /\ LocalsOK
    BY DEF Inv
  <2>2. /\ \A b \in Ads \ {ad[w]} : Active(b) \/ rows[b].state = "absent" => rows'[b] = rows[b]
        /\ \A b \in Ads \ {ad[w]} : rows[b].state = "inactive" => rows'[b] = rows[b] \/ rows'[b] = Absent
        /\ op[w] = "create" => rows'[ad[w]] = [state |-> "active", version |-> ver[w]]
        /\ op[w] = "delete" /\ rows[ad[w]].state = "absent" => rows'[ad[w]] = rows[ad[w]]
        /\ op[w] = "delete" /\ rows[ad[w]].state # "absent" =>
              rows'[ad[w]] = [state |-> "inactive", version |-> ver[w]]
    BY <2>1, WriteRows, Zenon
  <2>3. QED
    BY <2>2 DEF Absent
<1>3. op[w] = "delete" => Created(ad[w])
  BY <1>1 DEF Inv, DeleterHasTask, TaskMeansCreated
<1>4. OneCreator' /\ CreatorWaits'
  BY DEF CreateInv, OneCreator, CreatorWaits
<1>5. UnsentIsNew'
  <2>1. ASSUME NEW a \in Ads, outcome[a] = "unsent" PROVE rows'[a].state = "absent"
    BY <1>1, <1>2, <1>3, <2>1 DEF CreateInv, UnsentIsNew, CreatorWaits
  <2>2. QED
    BY <2>1 DEF CreateInv, UnsentIsNew, Created
<1>6. CreatorIsFirst'
  <2>1. ASSUME NEW v \in Writers, v # w, op[v] = "create", pc[v] \in {"obtain", "select", "commit", "publish"}
        PROVE  rows'[ad[v]] = rows[ad[v]]
    <3>1. ad[v] # ad[w]
      BY <1>1, <1>3, <2>1 DEF CreateInv, OneCreator, CreatorIsFirst
    <3>2. ad[v] \in Ads
      BY <2>1 DEF Inv, LocalsOK
    <3>3. QED
      BY <1>2, <2>1, <3>1, <3>2 DEF CreateInv, CreatorIsFirst
  <2>2. op[w] = "create" => ~Created(ad[w]) /\ rows'[ad[w]].state = "active" /\ rows'[ad[w]].version = ver[w]
    BY <1>2 DEF CreateInv, CreatorIsFirst
  <2>3. QED
    BY <2>1, <2>2 DEF CreateInv, CreatorIsFirst, Created, Active
<1>7. PublishedIsStored'
  <2>1. SUFFICES ASSUME NEW e \in stream, e.type = "create"
                 PROVE  /\ \A f \in stream : f.type = "create" /\ f.ad = e.ad => f = e
                        /\ rows'[e.ad].state = "active" => rows'[e.ad].version = e.id
                        /\ rows'[e.ad].state = "active" \/ task[e.ad] # "none"
    BY DEF PublishedIsStored, Active
  <2>2. e.ad \in Ads /\ Created(e.ad)
    BY <2>1 DEF Inv, TypeOK, Entries, Created
  <2>3. ad[w] = e.ad => op[w] = "delete" /\ task[e.ad] # "none"
    BY <1>1, <2>2 DEF CreateInv, CreatorIsFirst, Inv, DeleterHasTask
  <2>4. rows[e.ad].state \in {"absent", "active", "inactive"}
    BY <2>2 DEF Inv, TypeOK, Rows, Absent
  <2>5. QED
    BY <1>2, <2>1, <2>2, <2>3, <2>4 DEF CreateInv, PublishedIsStored, Active
<1>8. QED
  BY <1>4, <1>5, <1>6, <1>7 DEF CreateInv

\* The step that publishes.
LEMMA PublishStep ==
  ASSUME Inv, Inv', CreateInv, NEW w \in Writers, pc[w] = "publish", AppendEntry(w),
         UNCHANGED <<rows, task, outcome, op, ad, ver>>,
         \A v \in Writers \ {w} : pc'[v] = pc[v],
         pc'[w] = "release"
  PROVE  CreateInv'
<1> DEFINE new == [id |-> ver[w], type |-> op[w], ad |-> ad[w]]
<1>1. op[w] \in {"create", "delete"} /\ ad[w] \in Ads
  BY DEF Inv, LocalsOK
<1>2. stream' = stream \cup {new}
  BY DEF AppendEntry
<1>3. \A a \in Ads : Created(a)' => Created(a) \/ (op[w] = "create" /\ a = ad[w])
  BY <1>2 DEF Created
<1>4. OneCreator' /\ CreatorWaits'
  BY DEF CreateInv, OneCreator, CreatorWaits
<1>5. UnsentIsNew'
  BY <1>1, <1>3 DEF CreateInv, UnsentIsNew, CreatorWaits
<1>6. CreatorIsFirst'
  <2>1. ASSUME NEW v \in Writers, v # w, op[v] = "create", pc[v] \in {"obtain", "select", "commit", "publish"}
        PROVE  ~Created(ad[v])'
    BY <1>1, <1>2, <2>1 DEF CreateInv, CreatorIsFirst, OneCreator, Created
  <2>2. QED
    BY <2>1 DEF CreateInv, CreatorIsFirst, Active
<1>7. PublishedIsStored'
  <2>1. CASE op[w] = "delete"
    BY <1>2, <2>1 DEF CreateInv, PublishedIsStored, Active
  <2>2. CASE op[w] = "create"
    <3>1. ~Created(ad[w]) /\ Active(ad[w]) /\ rows[ad[w]].version = ver[w]
      BY <2>2 DEF CreateInv, CreatorIsFirst
    <3>2. \A f \in stream : f.type = "create" => f.ad # new.ad
      BY <3>1 DEF Created
    <3>3. QED
      BY <1>2, <2>2, <3>1, <3>2 DEF CreateInv, PublishedIsStored, Active
  <2>3. QED
    BY <1>1, <2>1, <2>2
<1>8. QED
  BY <1>4, <1>5, <1>6, <1>7 DEF CreateInv

\* The end of a process takes its creators with it.
LEMMA KillCreate ==
  ASSUME Inv, Inv', CreateInv, NEW i \in Instances, Kill(i)
  PROVE  CreateInv'
<1>1. /\ UNCHANGED <<rows, stream>>
      /\ \A w \in Writers :
           \/ op'[w] = "none"
           \/ pc'[w] = pc[w] /\ op'[w] = op[w] /\ ad'[w] = ad[w] /\ ver'[w] = ver[w] /\ Home[w] # i
  BY DEF Kill
<1>2. ASSUME NEW a \in Ads
      PROVE  /\ task[a] # "none" => task'[a] # "none"
             /\ outcome'[a] = "unsent" => outcome[a] = "unsent"
  BY DEF Kill, Inv, TypeOK
<1>3. ASSUME NEW w \in Writers, op'[w] = "create" PROVE outcome'[ad[w]] = outcome[ad[w]]
  <2>1. op[w] = "create" /\ Home[w] # i /\ ad[w] \in Ads
    BY <1>1, <1>3 DEF Inv, LocalsOK
  <2>2. \A v \in Writers : Home[v] = i /\ op[v] = "create" => ad[v] # ad[w]
    BY <2>1 DEF CreateInv, OneCreator
  <2>3. QED
    BY <2>1, <2>2 DEF Kill
<1>4. OneCreator' /\ CreatorWaits'
  BY <1>1, <1>3 DEF CreateInv, OneCreator, CreatorWaits
<1>5. UnsentIsNew' /\ CreatorIsFirst'
  BY <1>1, <1>2 DEF CreateInv, UnsentIsNew, CreatorIsFirst, Active, Created
<1>6. PublishedIsStored'
  BY <1>1, <1>2 DEF CreateInv, PublishedIsStored, Active, Inv, TypeOK, Entries
<1>7. QED
  BY <1>4, <1>5, <1>6 DEF CreateInv

\* The faults and the end of a method are steps of one writer, too.
LEMMA CreateStep == Inv /\ Inv' /\ CreateInv /\ [Next]_vars => CreateInv'
<1>1. SUFFICES ASSUME Inv, Inv', CreateInv, [Next]_vars PROVE CreateInv'
  OBVIOUS
<1> USE <1>1
<1>2. ASSUME NEW w \in Writers, NEW a \in Ads, CreateAd(w, a) PROVE CreateInv'
  <2>1. rows[a].state = "absent" /\ ~Created(a) /\ outcome[a] = "unsent"
    BY <1>2 DEF CreateAd, CreateInv, UnsentIsNew
  <2>2. \A v \in Writers : op[v] = "create" => ad[v] # a
    BY <2>1 DEF CreateInv, CreatorWaits
  <2>3. OneCreator' /\ CreatorWaits'
    BY <1>2, <2>2 DEF CreateAd, Begin, CreateInv, OneCreator, CreatorWaits, Inv, TypeOK
  <2>4. UnsentIsNew' /\ PublishedIsStored'
    BY <1>2 DEF CreateAd, Begin, CreateInv, UnsentIsNew, PublishedIsStored, Active, Created, Inv, TypeOK
  <2>5. CreatorIsFirst'
    BY <1>2, <2>1 DEF CreateAd, Begin, CreateInv, CreatorIsFirst, Active, Created, Inv, TypeOK
  <2>6. QED
    BY <2>3, <2>4, <2>5 DEF CreateInv
<1>3. ASSUME NEW w \in Writers, NEW a \in Ads, HandleDeleteAd(w, a) PROVE CreateInv'
  BY <1>3, QuietStep DEF HandleDeleteAd, Begin, Inv, TypeOK
<1>4. ASSUME NEW w \in Writers, Step(w) PROVE CreateInv'
  <2> USE DEF Inv, TypeOK
  <2>1. CASE Obtain(w)
    BY <2>1, QuietStep DEF Obtain, SucceedTo, Goto
  <2>2. CASE ObtainFails(w)
    BY <2>2, QuietStep DEF ObtainFails, FailTo, Goto
  <2>3. CASE SelectMax(w)
    <3>1. rows' = rows /\ stream' = stream /\ task' = task /\ outcome' = outcome /\ op' = op /\ ad' = ad
      BY <2>3 DEF SelectMax, Goto
    <3>2. pc[w] = "select" /\ pc' = [pc EXCEPT ![w] = "commit"]
      BY <2>3 DEF SelectMax, Goto
    <3>3. \A v \in Writers \ {w} : ver'[v] = ver[v]
      BY <2>3 DEF SelectMax
    <3>4. QED
      BY <3>1, <3>2, <3>3, QuietStep
  <2>4. CASE SelectFails(w)
    BY <2>4, QuietStep DEF SelectFails, FailTo, Goto
  <2>5. CASE Commit(w)
    BY <2>5, WriteStep DEF Commit, SucceedTo, Goto
  <2>6. CASE CommitFails(w)
    <3>1. CASE Write(w)
      BY <2>6, <3>1, WriteStep DEF CommitFails, FailTo, Goto
    <3>2. CASE UNCHANGED rows
      BY <2>6, <3>2, QuietStep DEF CommitFails, FailTo, Goto
    <3>3. QED
      BY <2>6, <3>1, <3>2 DEF CommitFails
  <2>7. CASE XAdd(w)
    BY <2>7, PublishStep DEF XAdd, SucceedTo, Goto
  <2>8. CASE XAddFails(w)
    <3>1. CASE AppendEntry(w)
      BY <2>8, <3>1, PublishStep DEF XAddFails, FailTo, Goto
    <3>2. CASE UNCHANGED <<stream, top>>
      BY <2>8, <3>2, QuietStep DEF XAddFails, FailTo, Goto
    <3>3. QED
      BY <2>8, <3>1, <3>2 DEF XAddFails
  <2>9. CASE Release(w)
    BY <2>9, QuietStep DEF Release, SucceedTo, Goto
  <2>10. CASE CreateFails(w)
    BY <2>10, ReturnStep DEF CreateFails
  <2>11. CASE registerAdDeleteTask(w)
    BY <2>11, QuietStep DEF registerAdDeleteTask, SucceedTo, Goto
  <2>12. CASE EnqueueFails(w)
    BY <2>12, ReturnStep DEF EnqueueFails
  <2>13. CASE Ack(w)
    BY <2>13, ReturnStep DEF Ack
  <2>14. CASE Retry(w)
    BY <2>14, ReturnStep DEF Retry
  <2>15. QED
    BY <1>4, <2>1, <2>2, <2>3, <2>4, <2>5, <2>6, <2>7, <2>8, <2>9, <2>10, <2>11, <2>12, <2>13, <2>14 DEF Step
<1>5. ASSUME NEW w \in Writers, NEW answer \in {"ok", "timeout"}, Respond(w, answer) PROVE CreateInv'
  <2>1. op[w] = "create" /\ answer \in Outcomes \ {"unsent"}
    BY <1>5 DEF Respond, Inv, LocalsOK, Outcomes
  <2>2. /\ Finish(w) /\ UNCHANGED <<rows, stream>> /\ UNCHANGED task
        /\ outcome' = [outcome EXCEPT ![ad[w]] = answer]
    BY <1>5 DEF Respond
  <2>3. QED
    BY <2>1, <2>2, ReturnStep
<1>6. ASSUME NEW i \in Instances, Crash(i) PROVE CreateInv'
  BY <1>6, KillCreate DEF Crash
<1>7. CASE LockExpires
  BY <1>7 DEF LockExpires, CreateInv, OneCreator, CreatorWaits, UnsentIsNew, CreatorIsFirst, PublishedIsStored,
     Active, Created
<1>8. CASE OrphanExpires
  BY <1>8 DEF OrphanExpires, CreateInv, OneCreator, CreatorWaits, UnsentIsNew, CreatorIsFirst, PublishedIsStored,
     Active, Created
<1>9. CASE UNCHANGED vars
  BY <1>9 DEF vars, CreateInv, OneCreator, CreatorWaits, UnsentIsNew, CreatorIsFirst, PublishedIsStored,
     Active, Created
<1>10. QED
  BY <1>2, <1>3, <1>4, <1>5, <1>6, <1>7, <1>8, <1>9 DEF Next

LEMMA CreateInitially == Init => CreateInv
BY DEF Init, Absent, CreateInv, OneCreator, CreatorWaits, UnsentIsNew, CreatorIsFirst, PublishedIsStored, Created

LEMMA CreateInvariance == Spec => []CreateInv
BY CreateInitially, CreateStep, Invariance, PTL DEF Spec

\* Whatever fails, an ad is published at most once and under its row's version,
\* and only its delete task takes the row away (storeAndPublishWithLock and
\* DeleteAd of pkg/service/ad.go).
THEOREM PublishedOnce == Spec => []PublishedIsStored
  BY CreateInvariance, PTL DEF CreateInv

-----------------------------------------------------------------------------
(***************************************************************************)
(* Under assumptions on the faults: what the redis lock gives when its TTL *)
(* outlasts every critical section, and what the table and the stream then *)
(* promise one another when every COMMIT is followed by its XADD.          *)
(***************************************************************************)

\* The owner of the key is the writer between Obtain and Release.
LockOK == \A w \in Writers : Critical(w) => lock = w

LEMMA LockStep ==
  ASSUME "expiry" \notin Faulty
  PROVE  Inv /\ LockOK /\ [Next]_vars => LockOK'
<1>1. SUFFICES ASSUME Inv, LockOK, [Next]_vars PROVE LockOK'
  OBVIOUS
<1> USE <1>1, LockAssumption DEF Inv, TypeOK, LockOK, Critical
<1>2. ASSUME NEW w \in Writers, NEW a \in Ads, CreateAd(w, a) \/ HandleDeleteAd(w, a) PROVE LockOK'
  BY <1>2 DEF CreateAd, HandleDeleteAd, Begin
<1>3. ASSUME NEW w \in Writers, Step(w) PROVE LockOK'
  <2>1. CASE Obtain(w) \/ ObtainFails(w)
    BY <2>1 DEF Obtain, ObtainFails, SucceedTo, FailTo, Goto
  <2>2. CASE SelectMax(w) \/ SelectFails(w)
    BY <2>2 DEF SelectMax, SelectFails, FailTo, Goto
  <2>3. CASE Commit(w) \/ CommitFails(w)
    BY <2>3 DEF Commit, CommitFails, SucceedTo, FailTo, Goto
  <2>4. CASE XAdd(w) \/ XAddFails(w)
    BY <2>4 DEF XAdd, XAddFails, SucceedTo, FailTo, Goto
  <2>5. CASE Release(w)
    BY <2>5 DEF Release, SucceedTo, Goto
  <2>6. CASE CreateFails(w) \/ registerAdDeleteTask(w) \/ EnqueueFails(w)
    BY <2>6 DEF CreateFails, registerAdDeleteTask, EnqueueFails, Finish, SucceedTo, Goto
  <2>7. CASE Ack(w) \/ Retry(w)
    BY <2>7 DEF Ack, Retry, Finish
  <2>8. QED
    BY <1>3, <2>1, <2>2, <2>3, <2>4, <2>5, <2>6, <2>7 DEF Step
<1>4. ASSUME NEW w \in Writers, NEW answer \in {"ok", "timeout"}, Respond(w, answer) PROVE LockOK'
  BY <1>4 DEF Respond, Finish
<1>5. ASSUME NEW i \in Instances, Crash(i) PROVE LockOK'
  BY <1>5 DEF Crash, Kill
<1>6. CASE LockExpires
  BY <1>6 DEF LockExpires, Fault
<1>7. CASE OrphanExpires
  BY <1>7 DEF OrphanExpires
<1>8. CASE UNCHANGED vars
  BY <1>8 DEF vars
<1>9. QED
  BY <1>2, <1>3, <1>4, <1>5, <1>6, <1>7, <1>8 DEF Next

LEMMA LockInvariance ==
  ASSUME "expiry" \notin Faulty
  PROVE  Spec => []LockOK
<1>1. Init => LockOK
  BY DEF Init, LockOK, Critical
<1>2. QED
  BY <1>1, LockStep, Invariance, PTL DEF Spec

\* When the lock's TTL outlasts every critical section, one writer at a time is
\* between locker.Obtain and lock.Release, whatever else fails.
THEOREM LockExcludes ==
  ASSUME "expiry" \notin Faulty
  PROVE  Spec => []MutualExclusion
<1>1. LockOK => MutualExclusion
  BY DEF LockOK, MutualExclusion
<1>2. QED
  BY <1>1, LockInvariance, PTL

-----------------------------------------------------------------------------
\* A commit gives the ad's row the writer's number, and no other row a number
\* that it did not have.
LEMMA WriteVersions ==
  ASSUME Inv, NEW w \in Writers, pc[w] = "commit", Write(w)
  PROVE  /\ rows' \in [Ads -> Rows]
         /\ rows'[ad[w]].version \in {0, ver[w]}
         /\ \A b \in Ads \ {ad[w]} : rows'[b].version \in {0, rows[b].version}
<1>1. TypeOK /\ LocalsOK /\ op[w] \in {"create", "delete"} /\ ad[w] \in Ads
  BY DEF Inv, LocalsOK
<1>2. /\ \A b \in Ads \ {ad[w]} : Active(b) \/ rows[b].state = "absent" => rows'[b] = rows[b]
      /\ \A b \in Ads \ {ad[w]} : rows[b].state = "inactive" => rows'[b] = rows[b] \/ rows'[b] = Absent
      /\ op[w] = "create" => rows'[ad[w]] = [state |-> "active", version |-> ver[w]]
      /\ op[w] = "delete" /\ rows[ad[w]].state = "absent" => rows'[ad[w]] = rows[ad[w]]
      /\ op[w] = "delete" /\ rows[ad[w]].state # "absent" =>
           rows'[ad[w]] = [state |-> "inactive", version |-> ver[w]]
  BY <1>1, WriteRows, Zenon
<1>3. \A b \in Ads : \/ rows[b] = Absent
                     \/ rows[b].state \in {"active", "inactive"}
  BY <1>1 DEF TypeOK, Rows
<1>4. rows' \in [Ads -> Rows]
  BY <1>1, WriteType
<1>5. rows'[ad[w]].version \in {0, ver[w]}
  BY <1>1, <1>2, <1>3 DEF Absent
<1>6. ASSUME NEW b \in Ads \ {ad[w]} PROVE rows'[b].version \in {0, rows[b].version}
  BY <1>2, <1>3 DEF Absent, Active
<1>7. QED
  BY <1>4, <1>5, <1>6

\* No step but Commit and CommitFails touches the table.
LEMMA OnlyWritesChangeRows ==
  ASSUME [Next]_vars
  PROVE  \/ UNCHANGED rows
         \/ \E w \in Writers : (Commit(w) \/ CommitFails(w)) /\ Write(w)
<1>1. ASSUME NEW w \in Writers, Step(w)
      PROVE  UNCHANGED rows \/ ((Commit(w) \/ CommitFails(w)) /\ Write(w))
  BY <1>1 DEF Step, Obtain, ObtainFails, SelectMax, SelectFails, Commit, CommitFails, XAdd, XAddFails, Release,
     CreateFails, registerAdDeleteTask, EnqueueFails, Ack, Retry
<1>2. QED
  BY <1>1 DEF Next, CreateAd, HandleDeleteAd, Begin, Respond, Crash, Kill, LockExpires, OrphanExpires, vars

\* A writer is about to commit only because it was, or because it read the
\* maximum in this step.
LEMMA ReachCommit ==
  ASSUME Inv, [Next]_vars, NEW w \in Writers, pc'[w] = "commit"
  PROVE  \/ pc[w] = "commit" /\ ver'[w] = ver[w]
         \/ SelectMax(w)
<1> USE DEF Inv, TypeOK
<1>1. ASSUME NEW v \in Writers, NEW a \in Ads, CreateAd(v, a) \/ HandleDeleteAd(v, a)
      PROVE  pc[w] = "commit" /\ ver'[w] = ver[w]
  BY <1>1 DEF CreateAd, HandleDeleteAd, Begin
<1>2. ASSUME NEW v \in Writers, Step(v)
      PROVE  (pc[w] = "commit" /\ ver'[w] = ver[w]) \/ SelectMax(w)
  <2>1. CASE SelectMax(v)
    BY <2>1 DEF SelectMax, Goto
  <2>2. CASE ~SelectMax(v)
    BY <1>2, <2>2 DEF Step, Obtain, ObtainFails, SelectFails, Commit, CommitFails, XAdd, XAddFails, Release,
       CreateFails, registerAdDeleteTask, EnqueueFails, Ack, Retry, Finish, SucceedTo, FailTo, Goto
  <2>3. QED
    BY <2>1, <2>2
<1>3. ASSUME NEW v \in Writers, NEW answer \in {"ok", "timeout"}, Respond(v, answer)
      PROVE  pc[w] = "commit" /\ ver'[w] = ver[w]
  BY <1>3 DEF Respond, Finish
<1>4. ASSUME NEW i \in Instances, Crash(i)
      PROVE  pc[w] = "commit" /\ ver'[w] = ver[w]
  BY <1>4 DEF Crash, Kill
<1>5. CASE LockExpires \/ OrphanExpires \/ UNCHANGED vars
  BY <1>5 DEF LockExpires, OrphanExpires, vars
<1>6. QED
  BY <1>1, <1>2, <1>3, <1>4, <1>5 DEF Next

LEMMA RowVersions ==
  ASSUME TypeOK
  PROVE  \A a \in Ads : rows[a].version \in Nat
BY DEF TypeOK, Rows, Absent

\* SELECT MAX(version) returns the maximum.
LEMMA ReadMax ==
  ASSUME TypeOK, NEW w \in Writers, SelectMax(w)
  PROVE  \E m \in Nat : IsMaxVersion(m) /\ ver' = [ver EXCEPT ![w] = NextVersion(m)]
BY RowVersions DEF SelectMax

LEMMA VersionStep ==
  ASSUME "expiry" \notin Faulty
  PROVE  Inv /\ LockOK /\ VersionsDistinct /\ [Next]_vars => VersionsDistinct'
<1>1. SUFFICES ASSUME Inv, LockOK, VersionsDistinct, [Next]_vars PROVE VersionsDistinct'
  OBVIOUS
<1> USE <1>1
<1>2. CASE UNCHANGED rows
  <2>1. ASSUME NEW w \in Writers, pc'[w] = "commit", NEW a \in Ads PROVE rows'[a].version < ver'[w]
    <3>1. CASE pc[w] = "commit" /\ ver'[w] = ver[w]
      BY <1>2, <3>1 DEF VersionsDistinct
    <3>2. CASE SelectMax(w)
      <4>1. PICK m \in Nat : IsMaxVersion(m) /\ ver' = [ver EXCEPT ![w] = NextVersion(m)]
        BY <3>2, ReadMax DEF Inv
      <4>2. ver'[w] = m + 1 /\ rows[a].version <= m /\ rows[a].version \in Nat
        BY <4>1, RowVersions DEF NextVersion, IsMaxVersion, Inv, TypeOK
      <4>3. QED
        BY <1>2, <4>2
    <3>3. QED
      BY <2>1, <3>1, <3>2, ReachCommit
  <2>2. QED
    BY <1>2, <2>1 DEF VersionsDistinct
<1>3. ASSUME NEW w \in Writers, Commit(w) \/ CommitFails(w), Write(w) PROVE VersionsDistinct'
  <2>1. pc[w] = "commit" /\ pc'[w] \in {"publish", "release"} /\ ver' = ver /\ ad[w] \in Ads
    BY <1>3 DEF Commit, CommitFails, SucceedTo, FailTo, Goto, Inv, TypeOK, LocalsOK
  <2>2. \A v \in Writers : pc'[v] # "commit"
    <3>1. ASSUME NEW v \in Writers, v # w PROVE pc'[v] = pc[v] /\ pc[v] # "commit"
      BY <1>3, <2>1, <3>1 DEF Commit, CommitFails, SucceedTo, FailTo, Goto, Inv, TypeOK, LockOK, Critical
    <3>2. QED
      BY <2>1, <3>1
  <2>3. /\ rows'[ad[w]].version \in {0, ver[w]}
        /\ \A b \in Ads \ {ad[w]} : rows'[b].version \in {0, rows[b].version}
    BY <1>3, <2>1, WriteVersions
  <2>4. \A b \in Ads : rows[b].version < ver[w] /\ rows[b].version \in Nat
    BY <2>1 DEF VersionsDistinct, Inv, TypeOK, Rows, Absent
  <2>5. ASSUME NEW a \in Ads, NEW b \in Ads, a # b, rows'[a].version = rows'[b].version
        PROVE  rows'[a].version = 0
    <3>1. CASE a # ad[w] /\ b # ad[w]
      BY <2>3, <2>5, <3>1 DEF VersionsDistinct
    <3>2. CASE a = ad[w]
      BY <2>3, <2>4, <2>5, <3>2
    <3>3. CASE b = ad[w]
      BY <2>3, <2>4, <2>5, <3>3
    <3>4. QED
      BY <3>1, <3>2, <3>3
  <2>6. QED
    BY <2>2, <2>5 DEF VersionsDistinct
<1>4. QED
  BY <1>2, <1>3, OnlyWritesChangeRows

\* When the lock's TTL outlasts every critical section, no two rows ever share a
\* version, even after a redelivered delete task took MAX(version) back.
THEOREM VersionsAreDistinct ==
  ASSUME "expiry" \notin Faulty
  PROVE  Spec => []VersionsDistinct
<1>1. Init => VersionsDistinct
  BY DEF Init, Absent, VersionsDistinct
<1>2. QED
  BY <1>1, VersionStep, LockInvariance, Invariance, PTL DEF Spec

-----------------------------------------------------------------------------
(***************************************************************************)
(* The table and the stream in step.                                       *)
(***************************************************************************)

\* Every COMMIT is followed by its XADD: only these faults happen.
InStep == Faulty \subseteq {"lock", "db", "queue", "stop"}

\* The number of a writer in its critical section follows the last id.
TrackOK ==
  /\ (\A w \in Writers : pc[w] # "publish") => IsMaxVersion(top)
  /\ \A w \in Writers : pc[w] = "publish" => ver[w] = top + 1 /\ IsMaxVersion(ver[w])
  /\ \A w \in Writers : pc[w] = "commit" => ver[w] = top + 1

\* One worker runs an ad's delete task, and until it commits the ad is active.
OneDeleter ==
  /\ \A v, w \in Writers : op[v] = "delete" /\ op[w] = "delete" /\ ad[v] = ad[w] => v = w
  /\ \A w \in Writers : op[w] = "delete" => task[ad[w]] = "running"
DueIsActive == \A a \in Ads : task[a] = "due" => Active(a) /\ ~Deleted(a)
DeleterOK ==
  \A w \in Writers : op[w] = "delete" =>
    /\ pc[w] \in {"obtain", "select", "commit"} \/ err[w] => Active(ad[w]) /\ ~Deleted(ad[w])
    /\ pc[w] = "publish" => ~Active(ad[w]) /\ ~Deleted(ad[w])

\* An ad has no delete task before its creator registers one, and a creator that
\* failed has stored nothing.
CreatorOK ==
  \A w \in Writers : op[w] = "create" =>
    /\ pc[w] # "wait" => task[ad[w]] = "none"
    /\ err[w] => ~Active(ad[w]) /\ ~Created(ad[w])

StepInv ==
  /\ TrackOK
  /\ OneDeleter
  /\ DueIsActive
  /\ DeleterOK
  /\ CreatorOK
  /\ SnapshotMatchesLog

Base == Inv /\ CreateInv /\ LockOK /\ VersionsDistinct
Known == Base /\ StepInv

\* Steps that change neither the table nor the stream, by a writer outside
\* publish.
LEMMA QuietTrack ==
  ASSUME Known, NEW w \in Writers,
         UNCHANGED <<rows, stream, top>>, pc[w] # "publish", pc'[w] # "publish",
         pc'[w] = "commit" => ver'[w] = top + 1,
         \A v \in Writers \ {w} : pc'[v] = pc[v] /\ ad'[v] = ad[v] /\ ver'[v] = ver[v]
  PROVE  TrackOK' /\ SnapshotMatchesLog'
<1>1. TrackOK'
  BY DEF Known, Base, StepInv, TrackOK, IsMaxVersion
<1>2. \A a \in Ads : InFlight(a) => InFlight(a)'
  BY DEF InFlight
<1>3. SnapshotMatchesLog'
  BY <1>2 DEF Known, Base, StepInv, SnapshotMatchesLog, Active, Created, Deleted
<1>4. QED
  BY <1>1, <1>3

\* Such steps inside a method.
LEMMA QuietMethod ==
  ASSUME Known, NEW w \in Writers,
         UNCHANGED <<rows, stream, top, task, op, ad>>, pc[w] # "publish", pc'[w] # "publish",
         pc[w] # "idle", pc[w] # "wait",
         pc'[w] = "commit" => ver'[w] = top + 1,
         pc'[w] \in {"obtain", "select", "commit"} \/ err'[w] =>
            pc[w] \in {"obtain", "select", "commit"} \/ err[w],
         \A v \in Writers \ {w} : pc'[v] = pc[v] /\ ver'[v] = ver[v] /\ err'[v] = err[v]
  PROVE  StepInv'
<1>1. TrackOK' /\ SnapshotMatchesLog'
  BY QuietTrack
<1>2. OneDeleter' /\ DueIsActive'
  BY DEF Known, Base, StepInv, OneDeleter, DueIsActive, Active, Deleted
<1>3. DeleterOK'
  BY DEF Known, Base, StepInv, DeleterOK, Active, Deleted
<1>4. CreatorOK'
  BY DEF Known, Base, StepInv, CreatorOK, CreateInv, CreatorIsFirst, Active, Created
<1>5. QED
  BY <1>1, <1>2, <1>3, <1>4 DEF StepInv

\* The end of a method whose writer has no change in flight: its delete task
\* may be finished, or due again for an ad that is still active.
LEMMA ReturnMethod ==
  ASSUME Known, NEW w \in Writers, Finish(w), UNCHANGED <<rows, stream, top>>, pc[w] \notin {"idle", "publish"},
         \/ UNCHANGED task /\ op[w] = "create"
         \/ op[w] = "delete" /\ task' = [task EXCEPT ![ad[w]] = "done"]
         \/ /\ task' = [task EXCEPT ![ad[w]] = "due"]
            /\ pc[w] = "return" /\ Active(ad[w]) /\ ~Deleted(ad[w])
  PROVE  StepInv'
<1>1. pc'[w] = "idle" /\ op'[w] = "none" /\ ~err'[w] /\ ad[w] \in Ads /\ op[w] \in {"create", "delete"}
  BY DEF Known, Base, Inv, TypeOK, LocalsOK, Finish
<1>2. \A v \in Writers \ {w} : /\ pc'[v] = pc[v] /\ ver'[v] = ver[v] /\ err'[v] = err[v]
                                /\ op'[v] = op[v] /\ ad'[v] = ad[v]
  BY DEF Known, Base, Inv, TypeOK, Finish
<1>3. TrackOK' /\ SnapshotMatchesLog'
  BY <1>1, <1>2, QuietTrack
<1>4. ASSUME NEW v \in Writers \ {w}, op[v] \in {"create", "delete"}, op[v] = "delete" \/ pc[v] # "wait"
      PROVE  task'[ad[v]] = task[ad[v]]
  <2>1. ad[v] \in Ads
    BY <1>4 DEF Known, Base, Inv, LocalsOK, TypeOK
  <2>2. CASE ad[v] # ad[w]
    BY <1>1, <2>1, <2>2 DEF Known, Base, Inv, TypeOK
  <2>3. CASE ad[v] = ad[w] /\ op[w] = "create" /\ pc[w] = "return"
    <3>1. task[ad[w]] = "none"
      BY <2>3 DEF Known, Base, StepInv, CreatorOK
    <3>2. op[v] # "delete"
      BY <2>3, <3>1 DEF Known, Base, StepInv, OneDeleter
    <3>3. op[v] # "create"
      BY <2>3 DEF Known, Base, CreateInv, OneCreator
    <3>4. QED
      BY <1>4, <3>2, <3>3
  <2>4. CASE ad[v] = ad[w] /\ op[w] = "delete"
    <3>1. op[v] # "delete" /\ task[ad[w]] = "running"
      BY <2>4 DEF Known, Base, StepInv, OneDeleter
    <3>2. QED
      BY <1>4, <2>4, <3>1 DEF Known, Base, StepInv, CreatorOK
  <2>5. QED
    BY <1>1, <2>2, <2>3, <2>4
<1>5. OneDeleter'
  BY <1>1, <1>2, <1>4 DEF Known, Base, StepInv, OneDeleter
<1>6. DueIsActive'
  BY <1>1 DEF Known, Base, StepInv, DueIsActive, Active, Deleted, Inv, TypeOK
<1>7. DeleterOK'
  BY <1>1, <1>2 DEF Known, Base, StepInv, DeleterOK, Active, Deleted
<1>8. CreatorOK'
  <2>1. ASSUME NEW v \in Writers \ {w}, op[v] = "create", pc[v] # "wait" PROVE task'[ad[v]] = "none"
    BY <1>4, <2>1 DEF Known, Base, StepInv, CreatorOK
  <2>2. QED
    BY <1>1, <1>2, <2>1 DEF Known, Base, StepInv, CreatorOK, Active, Created
<1>9. QED
  BY <1>3, <1>5, <1>6, <1>7, <1>8 DEF StepInv

\* While a writer is in its critical section nobody else is, and nobody else
\* runs a method that could still change its ad.
LEMMA Alone ==
  ASSUME Known, NEW w \in Writers, pc[w] \in {"commit", "publish"}
  PROVE  /\ \A v \in Writers \ {w} : pc[v] \notin {"select", "commit", "publish", "release"}
         /\ \A v \in Writers \ {w} : op[v] = "delete" => ad[v] # ad[w]
         /\ \A v \in Writers \ {w} : op[v] = "create" /\ pc[v] # "wait" => ad[v] # ad[w]
         /\ task[ad[w]] # "due"
         /\ op[w] \in {"create", "delete"} /\ ad[w] \in Ads /\ ~err[w]
<1>1. op[w] \in {"create", "delete"} /\ ad[w] \in Ads /\ ~err[w]
  BY DEF Known, Base, Inv, LocalsOK
<1>2. \A v \in Writers \ {w} : pc[v] \notin {"select", "commit", "publish", "release"}
  BY DEF Known, Base, LockOK, Critical
<1>3. CASE op[w] = "create"
  <2>1. task[ad[w]] = "none"
    BY <1>3 DEF Known, StepInv, CreatorOK
  <2>2. QED
    BY <1>1, <1>2, <1>3, <2>1 DEF Known, Base, StepInv, OneDeleter, CreateInv, OneCreator
<1>4. CASE op[w] = "delete"
  <2>1. task[ad[w]] = "running"
    BY <1>4 DEF Known, StepInv, OneDeleter
  <2>2. QED
    BY <1>1, <1>2, <1>4, <2>1 DEF Known, StepInv, OneDeleter, CreatorOK
<1>5. QED
  BY <1>1, <1>3, <1>4

\* COMMIT: the row takes the number after the last id, so it is the maximum.
LEMMA CommitMethod ==
  ASSUME Known, Base', NEW w \in Writers, Commit(w)
  PROVE  StepInv'
<1>1. /\ pc[w] = "commit" /\ pc'[w] = "publish" /\ Write(w)
      /\ UNCHANGED <<stream, top, task, op, ad, ver, err>>
      /\ \A v \in Writers \ {w} : pc'[v] = pc[v]
  BY DEF Commit, SucceedTo, Goto, Known, Base, Inv, TypeOK
<1>2. /\ \A v \in Writers \ {w} : pc[v] \notin {"select", "commit", "publish", "release"}
      /\ \A v \in Writers \ {w} : op[v] = "delete" => ad[v] # ad[w]
      /\ \A v \in Writers \ {w} : op[v] = "create" /\ pc[v] # "wait" => ad[v] # ad[w]
      /\ task[ad[w]] # "due"
      /\ op[w] \in {"create", "delete"} /\ ad[w] \in Ads /\ ~err[w]
  BY <1>1, Alone
<1>3. /\ op[w] = "create" => rows'[ad[w]] = [state |-> "active", version |-> ver[w]]
      /\ op[w] = "delete" => rows'[ad[w]] = [state |-> "inactive", version |-> ver[w]]
  <2>1. op[w] = "delete" => rows[ad[w]].state = "active"
    BY <1>1 DEF Known, StepInv, DeleterOK, Active
  <2>2. QED
    BY <1>1, <2>1, WriteRows DEF Known, Base, Inv
<1>4. ASSUME NEW b \in Ads \ {ad[w]} PROVE Active(b)' <=> Active(b)
  <2>1. rows[b] = Absent \/ rows[b].state \in {"active", "inactive"}
    BY DEF Known, Base, Inv, TypeOK, Rows
  <2>2. /\ Active(b) \/ rows[b].state = "absent" => rows'[b] = rows[b]
        /\ rows[b].state = "inactive" => rows'[b] = rows[b] \/ rows'[b] = Absent
    BY <1>1, WriteRows DEF Known, Base, Inv
  <2>3. QED
    BY <2>1, <2>2 DEF Active, Absent
<1>5. TrackOK'
  <2>1. ver[w] = top + 1 /\ ver[w] \in Nat /\ \A b \in Ads : rows[b].version < ver[w] /\ rows[b].version \in Nat
    BY <1>1 DEF Known, Base, StepInv, TrackOK, VersionsDistinct, Inv, TypeOK, Rows, Absent
  <2>2. \A b \in Ads \ {ad[w]} : rows'[b].version \in {0, rows[b].version}
    BY <1>1, WriteVersions DEF Known, Base
  <2>3. \A b \in Ads : rows'[b].version <= ver[w]
    BY <1>2, <1>3, <2>1, <2>2
  <2>4. IsMaxVersion(ver[w])'
    BY <1>1, <1>2, <1>3, <2>3 DEF IsMaxVersion
  <2>5. QED
    BY <1>1, <1>2, <2>1, <2>4 DEF TrackOK
<1>6. SnapshotMatchesLog'
  <2>1. InFlight(ad[w])' /\ \A a \in Ads \ {ad[w]} : ~InFlight(a)
    BY <1>1, <1>2 DEF InFlight
  <2>2. QED
    BY <1>1, <1>4, <2>1 DEF Known, StepInv, SnapshotMatchesLog, Created, Deleted
<1>7. OneDeleter' /\ DueIsActive'
  BY <1>1, <1>2, <1>4 DEF Known, StepInv, OneDeleter, DueIsActive, Deleted
<1>8. DeleterOK'
  <2>1. op[w] = "delete" => ~Active(ad[w])' /\ ~Deleted(ad[w])
    BY <1>1, <1>3 DEF Known, StepInv, DeleterOK, Active
  <2>2. ASSUME NEW v \in Writers \ {w}, op[v] = "delete" PROVE ad[v] \in Ads \ {ad[w]}
    BY <1>2, <2>2 DEF Known, Base, Inv, TypeOK, LocalsOK
  <2>3. ASSUME NEW v \in Writers \ {w}, op[v] = "delete" PROVE Active(ad[v])' <=> Active(ad[v])
    BY <1>1, <1>4, <2>2, <2>3 DEF Active
  <2>4. QED
    BY <1>1, <1>2, <2>1, <2>3 DEF Known, StepInv, DeleterOK, Deleted
<1>9. CreatorOK'
  <2>1. ASSUME NEW v \in Writers \ {w}, op[v] = "create", err[v] PROVE ad[v] \in Ads \ {ad[w]}
    BY <1>2, <2>1 DEF Known, Base, Inv, TypeOK, LocalsOK
  <2>2. ASSUME NEW v \in Writers \ {w}, op[v] = "create", err[v] PROVE Active(ad[v])' <=> Active(ad[v])
    BY <1>1, <1>4, <2>1, <2>2 DEF Active
  <2>3. QED
    BY <1>1, <1>2, <2>2 DEF Known, StepInv, CreatorOK, Created
<1>10. QED
  BY <1>5, <1>6, <1>7, <1>8, <1>9 DEF StepInv

\* XADD: the number is above the last id, so redis takes it, and the stream says
\* what the row says.
LEMMA XAddMethod ==
  ASSUME Known, Base', NEW w \in Writers, XAdd(w)
  PROVE  StepInv'
<1> DEFINE new == [id |-> ver[w], type |-> op[w], ad |-> ad[w]]
<1>1. /\ pc[w] = "publish" /\ pc'[w] = "release" /\ UNCHANGED <<rows, task, op, ad, ver, err>>
      /\ stream' = stream \cup {new} /\ top' = ver[w]
      /\ \A v \in Writers \ {w} : pc'[v] = pc[v]
  BY DEF XAdd, AppendEntry, SucceedTo, Goto, Known, Base, Inv, TypeOK
<1>2. /\ \A v \in Writers \ {w} : pc[v] \notin {"select", "commit", "publish", "release"}
      /\ \A v \in Writers \ {w} : op[v] = "delete" => ad[v] # ad[w]
      /\ \A v \in Writers \ {w} : op[v] = "create" /\ pc[v] # "wait" => ad[v] # ad[w]
      /\ task[ad[w]] # "due"
      /\ op[w] \in {"create", "delete"} /\ ad[w] \in Ads /\ ~err[w]
  BY <1>1, Alone
<1>3. new \in stream' /\ new.type = op[w] /\ new.ad = ad[w] /\ \A e \in stream' : e \in stream \/ e = new
  BY <1>1
<1>4. ASSUME NEW a
      PROVE  /\ Created(a)' <=> Created(a) \/ (op[w] = "create" /\ a = ad[w])
             /\ Deleted(a)' <=> Deleted(a) \/ (op[w] = "delete" /\ a = ad[w])
  BY <1>1, <1>3 DEF Created, Deleted
<1>5. TrackOK'
  BY <1>1, <1>2 DEF Known, StepInv, TrackOK, IsMaxVersion
<1>6. SnapshotMatchesLog'
  <2>1. \A a \in Ads \ {ad[w]} : ~InFlight(a)
    BY <1>1, <1>2 DEF InFlight
  <2>2. ASSUME NEW a \in Ads \ {ad[w]} PROVE (Active(a) <=> Created(a) /\ ~Deleted(a))'
    BY <1>1, <1>4, <2>1 DEF Known, StepInv, SnapshotMatchesLog, Active
  <2>3. CASE op[w] = "create"
    <3>1. Active(ad[w]) /\ task[ad[w]] = "none"
      BY <1>1, <2>3 DEF Known, Base, StepInv, CreateInv, CreatorIsFirst, CreatorOK
    <3>2. ~Deleted(ad[w])
      BY <1>2, <3>1 DEF Known, Base, Inv, DeletedMeansTask
    <3>3. (Active(ad[w]) <=> Created(ad[w]) /\ ~Deleted(ad[w]))'
      BY <1>1, <1>3, <2>3, <3>1, <3>2 DEF Active, Created, Deleted
    <3>4. QED
      BY <1>1, <2>2, <3>3 DEF SnapshotMatchesLog
  <2>4. CASE op[w] = "delete"
    <3>1. ~Active(ad[w])
      BY <1>1, <2>4 DEF Known, StepInv, DeleterOK
    <3>2. (Active(ad[w]) <=> Created(ad[w]) /\ ~Deleted(ad[w]))'
      BY <1>1, <1>3, <2>4, <3>1 DEF Active, Deleted
    <3>3. QED
      BY <1>1, <2>2, <3>2 DEF SnapshotMatchesLog
  <2>5. QED
    BY <1>2, <2>3, <2>4
<1>7. OneDeleter'
  BY <1>1 DEF Known, StepInv, OneDeleter
<1>8. DueIsActive'
  BY <1>1, <1>2, <1>4 DEF Known, StepInv, DueIsActive, Active
<1>9. DeleterOK'
  <2>1. ASSUME NEW v \in Writers \ {w}, op[v] = "delete" PROVE Deleted(ad[v])' <=> Deleted(ad[v])
    BY <1>1, <1>2, <1>3, <2>1 DEF Deleted
  <2>2. QED
    BY <1>1, <1>2, <2>1 DEF Known, StepInv, DeleterOK, Active
<1>10. CreatorOK'
  <2>1. ASSUME NEW v \in Writers \ {w}, op[v] = "create", err[v] PROVE Created(ad[v])' <=> Created(ad[v])
    <3>1. ad[v] # ad[w]
      BY <1>2, <2>1 DEF Known, Base, Inv, LocalsOK
    <3>2. QED
      BY <1>1, <1>3, <3>1 DEF Created
  <2>2. QED
    BY <1>1, <1>2, <2>1 DEF Known, StepInv, CreatorOK, Active
<1>11. QED
  BY <1>5, <1>6, <1>7, <1>8, <1>9, <1>10 DEF StepInv

\* When a creator is about to register the delete task, its ad is served.
LEMMA PublishedIsActive ==
  ASSUME Known, NEW w \in Writers, pc[w] = "return", op[w] = "create", ~err[w]
  PROVE  Active(ad[w]) /\ ~Deleted(ad[w])
<1>1. ad[w] \in Ads /\ Created(ad[w]) /\ task[ad[w]] = "none"
  BY DEF Known, Base, StepInv, Inv, LocalsOK, PublishedOK, CreatorOK
<1>2. Active(ad[w])
  BY <1>1 DEF Known, Base, CreateInv, PublishedIsStored, Created
<1>3. ~Deleted(ad[w])
  BY <1>1 DEF Known, Base, Inv, DeletedMeansTask
<1>4. QED
  BY <1>2, <1>3

\* registerAdDeleteTask: the task becomes due for an active ad.
LEMMA RegisterMethod ==
  ASSUME Known, NEW w \in Writers, registerAdDeleteTask(w)
  PROVE  StepInv'
<1>1. /\ pc[w] = "return" /\ op[w] = "create" /\ ~err[w] /\ pc'[w] = "wait" /\ ad[w] \in Ads
      /\ UNCHANGED <<rows, stream, top, op, ad, ver, err>> /\ task' = [task EXCEPT ![ad[w]] = "due"]
      /\ \A v \in Writers \ {w} : pc'[v] = pc[v]
  BY DEF registerAdDeleteTask, SucceedTo, Goto, Known, Base, Inv, TypeOK, LocalsOK
<1>2. Active(ad[w]) /\ ~Deleted(ad[w]) /\ task[ad[w]] = "none"
  BY <1>1, PublishedIsActive DEF Known, StepInv, CreatorOK
<1>3. TrackOK' /\ SnapshotMatchesLog'
  BY <1>1, QuietTrack
<1>4. ASSUME NEW v \in Writers \ {w}, op[v] \in {"create", "delete"}
      PROVE  ad[v] \in Ads \ {ad[w]}
  <2>1. ad[v] \in Ads
    BY <1>4 DEF Known, Base, Inv, TypeOK, LocalsOK
  <2>2. op[v] = "create" => ad[v] # ad[w]
    BY <1>1 DEF Known, Base, CreateInv, OneCreator
  <2>3. op[v] = "delete" => ad[v] # ad[w]
    BY <1>2 DEF Known, StepInv, OneDeleter
  <2>4. QED
    BY <1>4, <2>1, <2>2, <2>3
<1>5. OneDeleter'
  BY <1>1, <1>4 DEF Known, Base, Inv, TypeOK, StepInv, OneDeleter
<1>6. DueIsActive'
  BY <1>1, <1>2 DEF Known, Base, Inv, TypeOK, StepInv, DueIsActive, Active, Deleted
<1>7. DeleterOK'
  BY <1>1 DEF Known, StepInv, DeleterOK, Active, Deleted
<1>8. CreatorOK'
  <2>1. ASSUME NEW v \in Writers \ {w}, op[v] = "create" PROVE task'[ad[v]] = task[ad[v]]
    BY <1>1, <1>4, <2>1 DEF Known, Base, Inv, TypeOK
  <2>2. QED
    BY <1>1, <2>1 DEF Known, StepInv, CreatorOK, Active, Created
<1>9. QED
  BY <1>3, <1>5, <1>6, <1>7, <1>8 DEF StepInv

LEMMA StepInvStep ==
  ASSUME InStep
  PROVE  Known /\ Base' /\ [Next]_vars => StepInv'
<1>1. SUFFICES ASSUME Known, Base', [Next]_vars PROVE StepInv'
  OBVIOUS
<1> USE <1>1
<1>2. ASSUME NEW k \in {"expiry", "crash", "dbReply", "xadd", "xaddReply"} PROVE ~Fault(k)
  BY <1>2, InStep DEF InStep, Fault
<1>3. ASSUME NEW w \in Writers, NEW a \in Ads, CreateAd(w, a) PROVE StepInv'
  <2>1. /\ pc[w] = "idle" /\ pc'[w] = "obtain" /\ op'[w] = "create" /\ ad'[w] = a /\ ~err'[w]
        /\ UNCHANGED <<rows, stream, top, task>>
        /\ \A v \in Writers \ {w} : /\ pc'[v] = pc[v] /\ ver'[v] = ver[v] /\ err'[v] = err[v]
                                    /\ op'[v] = op[v] /\ ad'[v] = ad[v]
    BY <1>3 DEF CreateAd, Begin, Known, Base, Inv, TypeOK, LocalsOK
  <2>2. task[a] = "none"
    BY <1>3 DEF CreateAd, Known, Base, CreateInv, UnsentIsNew, Inv, TaskMeansCreated
  <2>3. TrackOK' /\ SnapshotMatchesLog'
    BY <2>1, QuietTrack
  <2>4. OneDeleter' /\ DueIsActive'
    BY <2>1 DEF Known, StepInv, OneDeleter, DueIsActive, Active, Deleted
  <2>5. DeleterOK' /\ CreatorOK'
    BY <2>1, <2>2 DEF Known, StepInv, DeleterOK, CreatorOK, Active, Created, Deleted
  <2>6. QED
    BY <2>3, <2>4, <2>5 DEF StepInv
<1>4. ASSUME NEW w \in Writers, NEW a \in Ads, HandleDeleteAd(w, a) PROVE StepInv'
  <2>1. /\ pc[w] = "idle" /\ pc'[w] = "obtain" /\ op'[w] = "delete" /\ ad'[w] = a /\ ~err'[w]
        /\ UNCHANGED <<rows, stream, top>> /\ task[a] = "due" /\ task' = [task EXCEPT ![a] = "running"]
        /\ \A v \in Writers \ {w} : /\ pc'[v] = pc[v] /\ ver'[v] = ver[v] /\ err'[v] = err[v]
                                    /\ op'[v] = op[v] /\ ad'[v] = ad[v]
    BY <1>4 DEF HandleDeleteAd, Begin, Known, Base, Inv, TypeOK, LocalsOK
  <2>2. Active(a) /\ ~Deleted(a)
    BY <2>1 DEF Known, StepInv, DueIsActive
  <2>3. ASSUME NEW v \in Writers \ {w}
        PROVE  /\ op[v] = "delete" => ad[v] # a
               /\ op[v] = "create" /\ pc[v] # "wait" => ad[v] # a
               /\ op[v] \in {"create", "delete"} => ad[v] \in Ads
    BY <2>1 DEF Known, StepInv, OneDeleter, CreatorOK, Base, Inv, LocalsOK
  <2>4. TrackOK' /\ SnapshotMatchesLog'
    BY <2>1, QuietTrack
  <2>5. OneDeleter'
    BY <2>1, <2>3 DEF Known, Base, Inv, TypeOK, StepInv, OneDeleter
  <2>6. DueIsActive'
    BY <2>1 DEF Known, Base, Inv, TypeOK, StepInv, DueIsActive, Active, Deleted
  <2>7. DeleterOK'
    BY <2>1, <2>2 DEF Known, StepInv, DeleterOK, Active, Deleted
  <2>8. CreatorOK'
    <3>1. ASSUME NEW v \in Writers \ {w}, op[v] = "create", pc[v] # "wait" PROVE task'[ad[v]] = task[ad[v]]
      BY <2>1, <2>3, <3>1 DEF Known, Base, Inv, TypeOK
    <3>2. QED
      BY <2>1, <3>1 DEF Known, StepInv, CreatorOK, Active, Created
  <2>9. QED
    BY <2>4, <2>5, <2>6, <2>7, <2>8 DEF StepInv
<1>5. ASSUME NEW w \in Writers, Step(w) PROVE StepInv'
  <2> USE DEF Known, Base, Inv, TypeOK
  <2>1. CASE Obtain(w)
    BY <2>1, QuietMethod DEF Obtain, SucceedTo, Goto
  <2>2. CASE ObtainFails(w)
    BY <2>2, QuietMethod DEF ObtainFails, FailTo, Goto
  <2>3. CASE SelectMax(w)
    <3>1. pc[w] = "select" /\ \A v \in Writers : pc[v] # "publish"
      BY <2>3 DEF SelectMax, LockOK, Critical
    <3>2. \A b \in Ads : rows[b].version \in Nat
      BY RowVersions
    <3>3. IsMaxVersion(top)
      BY <3>1 DEF StepInv, TrackOK
    <3>4. PICK m \in Nat : IsMaxVersion(m) /\ ver' = [ver EXCEPT ![w] = NextVersion(m)]
      BY <2>3, ReadMax
    <3>5. m = top
      BY <3>2, <3>3, <3>4 DEF IsMaxVersion
    <3>6. ver'[w] = top + 1
      BY <3>4, <3>5 DEF NextVersion
    <3>7. /\ UNCHANGED <<rows, stream, top, task, op, ad>> /\ pc'[w] = "commit" /\ err' = err
          /\ \A v \in Writers \ {w} : pc'[v] = pc[v] /\ ver'[v] = ver[v] /\ err'[v] = err[v]
      BY <2>3 DEF SelectMax, Goto
    <3>8. QED
      BY <3>1, <3>6, <3>7, QuietMethod
  <2>4. CASE SelectFails(w)
    BY <2>4, QuietMethod DEF SelectFails, FailTo, Goto
  <2>5. CASE Commit(w)
    BY <2>5, CommitMethod
  <2>6. CASE CommitFails(w)
    <3>1. UNCHANGED rows
      BY <1>2, <2>6 DEF CommitFails
    <3>2. QED
      BY <2>6, <3>1, QuietMethod DEF CommitFails, FailTo, Goto
  <2>7. CASE XAdd(w)
    BY <2>7, XAddMethod
  <2>8. CASE XAddFails(w)
    <3>1. ver[w] > top
      BY <2>8 DEF XAddFails, StepInv, TrackOK
    <3>2. QED
      BY <1>2, <2>8, <3>1 DEF XAddFails
  <2>9. CASE Release(w)
    BY <2>9, QuietMethod DEF Release, SucceedTo, Goto
  <2>10. CASE CreateFails(w)
    BY <2>10, ReturnMethod DEF CreateFails
  <2>11. CASE registerAdDeleteTask(w)
    BY <2>11, RegisterMethod
  <2>12. CASE EnqueueFails(w)
    <3>1. Active(ad[w]) /\ ~Deleted(ad[w])
      BY <2>12, PublishedIsActive DEF EnqueueFails
    <3>2. QED
      BY <2>12, <3>1, ReturnMethod DEF EnqueueFails
  <2>13. CASE Ack(w)
    BY <2>13, ReturnMethod DEF Ack
  <2>14. CASE Retry(w)
    <3>1. Active(ad[w]) /\ ~Deleted(ad[w])
      BY <2>14 DEF Retry, StepInv, DeleterOK
    <3>2. QED
      BY <2>14, <3>1, ReturnMethod DEF Retry
  <2>15. QED
    BY <1>5, <2>1, <2>2, <2>3, <2>4, <2>5, <2>6, <2>7, <2>8, <2>9, <2>10, <2>11, <2>12, <2>13, <2>14 DEF Step
<1>6. ASSUME NEW w \in Writers, NEW answer \in {"ok", "timeout"}, Respond(w, answer) PROVE StepInv'
  BY <1>6, ReturnMethod DEF Respond, Known, Base, Inv, LocalsOK
<1>7. ASSUME NEW i \in Instances, Crash(i) PROVE StepInv'
  BY <1>2, <1>7 DEF Crash
<1>8. CASE LockExpires
  BY <1>2, <1>8 DEF LockExpires
<1>9. CASE OrphanExpires \/ UNCHANGED vars
  BY <1>9 DEF OrphanExpires, vars, Known, StepInv, TrackOK, OneDeleter, DueIsActive, DeleterOK, CreatorOK,
     SnapshotMatchesLog, IsMaxVersion, InFlight, Active, Created, Deleted
<1>10. QED
  BY <1>3, <1>4, <1>5, <1>6, <1>7, <1>8, <1>9 DEF Next

LEMMA StepInvariance ==
  ASSUME InStep
  PROVE  Spec => []Known
<1>1. "expiry" \notin Faulty
  BY InStep DEF InStep
<1>2. Spec => []LockOK
  BY <1>1, LockInvariance
<1>3. Spec => []VersionsDistinct
  BY <1>1, VersionsAreDistinct
<1>4. Spec => []CreateInv
  BY CreateInvariance
<1>5. Spec => []Base
  BY <1>2, <1>3, <1>4, Invariance, PTL DEF Base
<1>6. Init => StepInv
  BY AdsAssumption DEF Init, Absent, StepInv, TrackOK, OneDeleter, DueIsActive, DeleterOK, CreatorOK,
     SnapshotMatchesLog, IsMaxVersion, Active, Created, Deleted
<1>7. Base /\ StepInv /\ Base' /\ [Next]_vars => StepInv'
  BY InStep, StepInvStep DEF Known
<1>8. Spec => []StepInv
  BY <1>5, <1>6, <1>7, PTL DEF Spec
<1>9. QED
  BY <1>5, <1>8, PTL DEF Known

\* While every COMMIT is followed by its XADD, MAX(version) of the table is the
\* last id of the stream or the one about to be published: the number that
\* Restore reads is an offset into the stream.
THEOREM VersionIsOffset ==
  ASSUME InStep
  PROVE  Spec => []VersionTracksStream
<1>1. Known => VersionTracksStream
  <2>1. SUFFICES ASSUME Known, NEW m \in {rows[a].version : a \in Ads}, IsMaxVersion(m)
                 PROVE  m = top \/ (m = top + 1 /\ \E w \in Writers : pc[w] = "publish" /\ ver[w] = m)
    BY DEF VersionTracksStream
  <2>2. \A a \in Ads : rows[a].version \in Nat
    BY <2>1, RowVersions DEF Known, Base, Inv
  <2>3. ASSUME NEW n \in Nat, IsMaxVersion(n) PROVE n = m
    BY <2>1, <2>2, <2>3 DEF IsMaxVersion
  <2>4. top \in Nat /\ \A w \in Writers : ver[w] \in Nat
    BY <2>1 DEF Known, Base, Inv, TypeOK
  <2>5. QED
    BY <2>1, <2>3, <2>4 DEF Known, StepInv, TrackOK
<1>2. QED
  BY InStep, StepInvariance, <1>1, PTL

\* While every COMMIT is followed by its XADD, the active rows are the ads that
\* the stream creates and does not delete, save for the one change in flight.
THEOREM SnapshotIsLog ==
  ASSUME InStep
  PROVE  Spec => []SnapshotMatchesLog
  BY InStep, StepInvariance, PTL DEF Known, StepInv
=============================================================================
