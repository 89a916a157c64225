-------------------------- MODULE LifecycleProofs --------------------------
(***************************************************************************)
(* Theorems about Lifecycle for any sets of calls and any waits, as long   *)
(* as the deadline after SIGTERM is longer than the wait of a call.  Inv   *)
(* follows the two countdowns that race with that deadline: the wait of    *)
(* CreateAd while srv.Shutdown drains, and XREAD while Subscribe is to     *)
(* end.                                                                    *)
(***************************************************************************)
EXTENDS Lifecycle, TLAPS

\* Where the parts of a process are in relation to each other.
NewMeansOff == run = "new" <=> at = "off"
BatchInHand == batch # {} => run = "hand"
LoadingOutlivesRestore == at = "loading" => run \in Restoring \cup {"failed"}
CreatesAwait == \A c \in Creates : call[c] # "send"
StoppingIsDrained == main = "stopping" => Drained

\* No countdown is longer than its wait.
WaitsBounded ==
  /\ main \in {"draining", "stopping"} => left["main"] <= SignalGrace
  /\ run = "read" => left["run"] <= ReadBlock
  /\ run \in {"new", "hand", "returned"} => left["run"] = 0
  /\ \A x \in Calls : call[x] = "await" => left[x] <= CallWait

\* As long as nobody is late, the deadline is later than every wait that the
\* handlers are in, ...
DrainsInTime ==
  main = "draining" /\ ~lagged /\ (\A g \in Gets : call[g] = "none") =>
    /\ left["main"] + CallWait >= SignalGrace
    /\ \A c \in Creates : call[c] = "await" => left["main"] + CallWait >= SignalGrace + left[c]

\* ... and later than the end of the XREAD that services.Shutdown met.
StopsInTime ==
  main = "stopping" /\ ~lagged /\ at # "blocked" /\ margin > ReadBlock =>
    /\ run \in Following \cup {"returned"}
    /\ left["main"] + ReadBlock >= margin + left["run"]

Inv ==
  /\ LifecycleTypeOK
  /\ NewMeansOff /\ BatchInHand /\ LoadingOutlivesRestore /\ CreatesAwait /\ StoppingIsDrained
  /\ WaitsBounded
  /\ DrainsInTime
  /\ StopsInTime
  /\ CleanExitCutsNothing
  /\ MissedDeadlineHasCause

-----------------------------------------------------------------------------
LEMMA InitInv == Init => Inv
<1>1. SUFFICES ASSUME Init PROVE Inv
  OBVIOUS
<1>2. MaxRetry \in Nat /\ SignalGrace \in Nat /\ CallWait \in Nat
  BY TimeAssumption
<1>3. LifecycleTypeOK
  <2>1. call \in [Calls -> {"none", "done"} \cup InProgress] /\ left \in [Clocks -> Nat]
    BY <1>1 DEF Init
  <2>2. tries \in 0..MaxRetry /\ margin \in 0..SignalGrace
    BY <1>1, <1>2 DEF Init
  <2>3. QED
    BY <1>1, <2>1, <2>2 DEF Init, LifecycleTypeOK
<1>4. "run" \in Clocks /\ left["run"] = 0 /\ \A x \in Calls : call[x] = "none"
  BY <1>1 DEF Init, Clocks
<1>5. QED
  BY <1>1, <1>2, <1>3, <1>4
  DEF Init, Inv, Calls, InProgress, NewMeansOff, BatchInHand, LoadingOutlivesRestore, CreatesAwait,
      StoppingIsDrained, WaitsBounded, DrainsInTime, StopsInTime, CleanExitCutsNothing,
      MissedDeadlineHasCause

LEMMA InvStep == Inv /\ [Next]_vars => Inv'
<1>1. SUFFICES ASSUME Inv, [Next]_vars PROVE Inv'
  OBVIOUS
<1> USE <1>1, CallsAssumption, TimeAssumption
    DEF Inv, LifecycleTypeOK, NewMeansOff, BatchInHand, LoadingOutlivesRestore, CreatesAwait,
        StoppingIsDrained, WaitsBounded, DrainsInTime, StopsInTime, CleanExitCutsNothing,
        MissedDeadlineHasCause, Calls, Clocks, Exits, Up, Restoring, Following, Ended, InProgress,
        Shut, Drained, Waits
<1>2. ASSUME NEW c \in Creates, CallCreateAd(c) PROVE Inv'
  BY <1>2 DEF CallCreateAd, Listening
<1>3. ASSUME NEW g \in Gets, CallGetAds(g) PROVE Inv'
  BY <1>3 DEF CallGetAds, Listening
<1>4. ASSUME NEW g \in Gets, TakeGet(g) PROVE Inv'
  BY <1>4 DEF TakeGet
<1>5. ASSUME NEW g \in Gets, AnswerGet(g) PROVE Inv'
  BY <1>5 DEF AnswerGet
<1>6. ASSUME NEW x \in Calls, TimeOut(x) PROVE Inv'
  <2>1. UNCHANGED <<main, run, tries, at, feed, batch, left, lagged, margin>> /\ call[x] = "await"
    BY <1>6 DEF TimeOut
  <2>2. call' \in [Calls -> {"none", "done"} \cup InProgress] /\ call'[x] = "done"
    BY <1>6 DEF TimeOut
  <2>3. \A y \in Calls : y # x => call'[y] = call[y]
    BY <1>6 DEF TimeOut
  <2>4. LifecycleTypeOK' /\ NewMeansOff' /\ BatchInHand' /\ LoadingOutlivesRestore'
    BY <2>1, <2>2
  <2>5. CreatesAwait' /\ StoppingIsDrained' /\ CleanExitCutsNothing'
    BY <2>1, <2>2, <2>3
  <2>6. WaitsBounded' /\ StopsInTime'
    BY <2>1, <2>2, <2>3
  <2>7. (\A g \in Gets : call'[g] = "none") <=> (\A g \in Gets : call[g] = "none") /\ x \notin Gets
    BY <2>1, <2>2, <2>3
  <2>8. DrainsInTime'
    BY <2>1, <2>2, <2>3, <2>7
  <2>9. MissedDeadlineHasCause'
    BY <2>1, <2>2, <2>3
  <2> HIDE DEF LifecycleTypeOK, NewMeansOff, BatchInHand, LoadingOutlivesRestore, CreatesAwait,
        StoppingIsDrained, WaitsBounded, DrainsInTime, StopsInTime, CleanExitCutsNothing,
        MissedDeadlineHasCause
  <2>10. QED
    BY <2>4, <2>5, <2>6, <2>8, <2>9
<1>7. CASE Start
  BY <1>7 DEF Start
<1>8. CASE Snapshot
  BY <1>8 DEF Snapshot
<1>9. CASE SnapshotFails
  BY <1>9 DEF SnapshotFails, Retry
<1>10. CASE Wake
  BY <1>10 DEF Wake
<1>11. CASE TakeBatch
  BY <1>11 DEF TakeBatch
<1>12. CASE RestoreTimesOut
  BY <1>12 DEF RestoreTimesOut, Retry
<1>13. CASE ReadEntries
  BY <1>13 DEF ReadEntries
<1>14. CASE ReadTimesOut
  BY <1>14 DEF ReadTimesOut, Loop
<1>15. ASSUME NEW c \in Creates, HandOver(c) PROVE Inv'
  BY <1>15 DEF HandOver, Loop
<1>16. ASSUME NEW c \in Creates, HandOverLate(c) PROVE Inv'
  BY <1>16 DEF HandOverLate, Loop
<1>17. CASE Load
  BY <1>17 DEF Load, Loop
<1>18. CASE ServerFails \/ RunFailed
  BY <1>18 DEF ServerFails, RunFailed, Fails
<1>19. CASE Signal
  BY <1>19 DEF Signal
<1>20. CASE StopServices
  BY <1>20 DEF StopServices
<1>21. CASE DrainMissed
  BY <1>21 DEF DrainMissed, Exit
<1>22. CASE Stopped
  BY <1>22 DEF Stopped, Exit, GroupIsEmpty
<1>23. CASE StopMissed
  BY <1>23 DEF StopMissed, Exit
<1>24. CASE Tick
  <2>1. UNCHANGED <<main, run, tries, at, call, feed, batch, margin>> /\ Up
    BY <1>24 DEF Tick
  <2>2. lagged' \in BOOLEAN /\ (~lagged' => ~lagged /\ Quiet)
    BY <1>24 DEF Tick
  <2>3. left' \in [Clocks -> Nat]
    BY <1>24 DEF Tick
  <2>4. /\ \A x \in Clocks : Counting(x) => left[x] > 0 /\ left'[x] = left[x] - 1
        /\ \A x \in Clocks : ~Counting(x) => left'[x] = 0
    BY <1>24 DEF Tick
  <2>5. LifecycleTypeOK' /\ NewMeansOff' /\ BatchInHand' /\ LoadingOutlivesRestore'
    BY <2>1, <2>2, <2>3
  <2>6. CreatesAwait' /\ StoppingIsDrained' /\ CleanExitCutsNothing' /\ MissedDeadlineHasCause'
    BY <2>1, <2>2
  <2>7. main \in {"draining", "stopping"} => left'["main"] = left["main"] - 1 /\ left["main"] > 0
    BY <2>4 DEF Counting
  <2>8. run = "read" => left'["run"] = left["run"] - 1 /\ left["run"] > 0
    BY <2>4 DEF Counting
  <2>9. run \in {"new", "hand", "returned"} => left'["run"] = 0
    BY <2>4 DEF Counting
  <2>10. \A x \in Calls : call[x] = "await" => left'[x] = left[x] - 1 /\ left[x] > 0
    BY <2>4 DEF Counting
  <2>11. WaitsBounded'
    BY <2>1, <2>3, <2>7, <2>8, <2>9, <2>10
  <2>12. DrainsInTime'
    <3>1. SUFFICES ASSUME main = "draining", ~lagged', \A g \in Gets : call[g] = "none"
                   PROVE  /\ left'["main"] + CallWait >= SignalGrace
                          /\ \A c \in Creates : call[c] = "await" =>
                               left'["main"] + CallWait >= SignalGrace + left'[c]
      BY <2>1
    <3>2. PICK x \in Calls : call[x] \in InProgress
      BY <2>2, <3>1 DEF Quiet
    <3>3. x \in Creates /\ call[x] = "await"
      BY <3>1, <3>2
    <3>4. left["main"] + CallWait >= SignalGrace + left[x]
      BY <2>2, <3>1, <3>3
    <3>5. QED
      BY <2>2, <2>7, <2>10, <3>1, <3>3, <3>4
  <2>13. StopsInTime'
    <3>1. SUFFICES ASSUME main = "stopping", ~lagged', at # "blocked", margin > ReadBlock
                   PROVE  /\ run \in Following \cup {"returned"}
                          /\ left'["main"] + ReadBlock >= margin + left'["run"]
      BY <2>1
    <3>2. run \in Following /\ left["main"] + ReadBlock >= margin + left["run"]
      BY <2>2, <3>1 DEF Quiet, GroupIsEmpty
    <3>3. run = "read"
      BY <2>2, <3>1, <3>2 DEF Quiet
    <3>4. QED
      BY <2>7, <2>8, <3>1, <3>2, <3>3
  <2>14. QED
    BY <2>5, <2>6, <2>11, <2>12, <2>13
<1>25. CASE UNCHANGED vars
  BY <1>25 DEF vars
<1>26. QED
  BY <1>2, <1>3, <1>4, <1>5, <1>6, <1>7, <1>8, <1>9, <1>10, <1>11, <1>12, <1>13, <1>14, <1>15, <1>16, <1>17,
     <1>18, <1>19, <1>20, <1>21, <1>22, <1>23, <1>24, <1>25 DEF Next, RunStep, MainStep

LEMMA Invariance == Spec => []Inv
  BY InitInv, InvStep, PTL DEF Spec

\* Run never retries more often than the backoff allows, and no countdown falls
\* below zero (ad.go:152-171, app.go:170-184).
THEOREM TypeCorrect == Spec => []LifecycleTypeOK
  BY Invariance, PTL DEF Inv

\* When main returns after SIGTERM, no handler is cut off, no entry that was
\* read is lost and Run has returned (ad.go:115-135).
THEOREM CleanExit == Spec => []CleanExitCutsNothing
  BY Invariance, PTL DEF Inv

\* A process whose goroutines are prompt misses the deadline of SIGTERM only
\* behind a read, a blocked dispatcher, a Restore or an XREAD that began too late
\* (app.go:170-184).
THEOREM DeadlineMissed == Spec => []MissedDeadlineHasCause
  BY Invariance, PTL DEF Inv
=============================================================================
