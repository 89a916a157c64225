----------------------------- MODULE Lifecycle -----------------------------
(***************************************************************************)
(* One process of the server from its start to its exit: main in           *)
(* Application.Run, the goroutine of AdService.Run (Restore, its retries,  *)
(* Subscribe), the dispatcher as far as it keeps others waiting, and the   *)
(* HTTP handlers in CreateAd and GetAds.  They meet at RequestChan, at the *)
(* wait group AdService.wg and at the shutdown flag.                       *)
(*                                                                         *)
(* Time is counted in seconds.  A wait that the code limits has a          *)
(* countdown; a statement of Postgres or redis takes no time or fails.     *)
(*                                                                         *)
(* Shutdown sets the flag before it closes the stop channels, and whoever  *)
(* looks at a stop channel has looked at the flag just before: the flag    *)
(* stands for both.                                                        *)
(***************************************************************************)
EXTENDS Naturals

CONSTANTS
  Creates, Gets,  \* the HTTP requests, each a call of CreateAd or GetAds
  CallWait,       \* 3, how long both wait for their answer
  RestoreWait,    \* 10, how long Restore waits for its own
  ReadBlock,      \* 3, how long XREAD blocks
  MaxSleep,       \* the longest sleep of the backoff
  MaxRetry,       \* 5
  SignalGrace,    \* 5, the deadline after SIGTERM
  ErrorGrace      \* 30, the deadline after an error

ASSUME CallsAssumption ==
  /\ Creates \cap Gets = {}
  /\ {"run", "main"} \cap (Creates \cup Gets) = {}   \* the names of two clocks
ASSUME TimeAssumption ==
  /\ {CallWait, RestoreWait, ReadBlock, MaxSleep, MaxRetry, SignalGrace, ErrorGrace} \subseteq Nat
  /\ CallWait < SignalGrace

VARIABLES
  main,    \* where Application.Run is
  run,     \* where AdService.Run is, Restore and Subscribe included
  tries,   \* how often backoff.Retry has called its operation in vain
  at,      \* where the dispatcher's loop is
  call,    \* where each HTTP handler is
  feed,    \* the published entries after the last one that XREAD returned
  batch,   \* the entries that Subscribe has read and not handed over
  left,    \* what is left of each wait
  lagged,  \* history: a second passed though some goroutine could go on
  margin   \* history: what was left of the deadline when services.Shutdown met Subscribe

vars == <<main, run, tries, at, call, feed, batch, left, lagged, margin>>

Calls == Creates \cup Gets
Clocks == Calls \cup {"run", "main"}

\* clean: main returns.  failed: os.Exit(1) after an error.  undrained and
\* unstopped: log.Fatalf, because a deadline has passed.
Exits == {"clean", "failed", "undrained", "unstopped"}
Up == main \notin Exits
Restoring == {"restore", "send", "load", "sleep"}
Following == {"read", "hand"}
Ended == {"returned", "failed"}
InProgress == {"send", "await"}

LifecycleTypeOK ==
  /\ main \in {"serving", "draining", "stopping", "failing"} \cup Exits
  /\ run \in {"new"} \cup Restoring \cup Following \cup Ended
  /\ tries \in 0..MaxRetry
  /\ at \in {"off", "ready", "loading", "blocked"}
  /\ call \in [Calls -> {"none", "done"} \cup InProgress]
  /\ feed \subseteq Creates /\ batch \subseteq Creates
  /\ left \in [Clocks -> Nat]
  /\ lagged \in BOOLEAN
  /\ margin \in 0..SignalGrace

Init ==
  /\ main = "serving"
  /\ run = "new"
  /\ tries = 0
  /\ at = "off"
  /\ call = [x \in Calls |-> "none"]
  /\ feed = {} /\ batch = {}
  /\ left = [x \in Clocks |-> 0]
  /\ lagged = FALSE
  /\ margin = 0

\* The flag that Shutdown sets.
Shut == main \in {"stopping", "failing"}

\* Faulty form of GroupIsEmpty: Run does not add itself to the group.
HandlersOnly == \A x \in Calls : call[x] \notin InProgress

\* Whether wg.Wait returns.
GroupIsEmpty ==
  /\ run \in {"new"} \cup Ended
  /\ \A x \in Calls : call[x] \notin InProgress

Drained == \A x \in Calls : call[x] \notin InProgress

Waits(x, seconds) == left' = [left EXCEPT ![x] = seconds]

-----------------------------------------------------------------------------
\* The HTTP handlers.  srv.Shutdown closes the listener; services.Shutdown alone,
\* after an error, does not.

Listening == main \in {"serving", "failing"}

\* CreateAd has published its ad and waits for its channel.
CallCreateAd(c) ==
  /\ Listening /\ call[c] = "none"
  /\ call' = [call EXCEPT ![c] = "await"]
  /\ Waits(c, CallWait)
  /\ feed' = feed \cup {c}
  /\ UNCHANGED <<main, run, tries, at, batch, lagged, margin>>

CallGetAds(g) ==
  /\ Listening /\ call[g] = "none"
  /\ call' = [call EXCEPT ![g] = "send"]
  /\ UNCHANGED <<main, run, tries, at, feed, batch, left, lagged, margin>>

TakeGet(g) ==
  /\ Up /\ at = "ready" /\ call[g] = "send"
  /\ call' = [call EXCEPT ![g] = "await"]
  /\ Waits(g, CallWait)
  /\ UNCHANGED <<main, run, tries, at, feed, batch, lagged, margin>>

\* The read's goroutine answers.
AnswerGet(g) ==
  /\ Up /\ call[g] = "await"
  /\ call' = [call EXCEPT ![g] = "done"]
  /\ Waits(g, 0)
  /\ UNCHANGED <<main, run, tries, at, feed, batch, lagged, margin>>

TimeOut(x) ==
  /\ Up /\ call[x] = "await" /\ left[x] = 0
  /\ call' = [call EXCEPT ![x] = "done"]
  /\ UNCHANGED <<main, run, tries, at, feed, batch, left, lagged, margin>>

-----------------------------------------------------------------------------
\* AdService.Run.

Start ==
  /\ Up /\ run = "new"
  /\ at' = "ready"
  /\ run' = IF Shut THEN "returned" ELSE "restore"
  /\ UNCHANGED <<main, tries, call, feed, batch, left, lagged, margin>>

\* The snapshot's version is above that of every entry so far.
Snapshot ==
  /\ Up /\ run = "restore"
  /\ run' = "send"
  /\ feed' = {}
  /\ UNCHANGED <<main, tries, at, call, batch, left, lagged, margin>>

\* Faulty form of Retry: it counts to the limit and once more.
RetryOnceMore ==
  IF tries > MaxRetry
  THEN run' = "failed" /\ Waits("run", 0) /\ UNCHANGED tries
  ELSE /\ run' = "sleep"
       /\ tries' = tries + 1
       /\ \E seconds \in 0..MaxSleep : Waits("run", seconds)

\* backoff.Retry sleeps, whether or not the process is being shut down, or gives
\* up.
Retry ==
  IF tries = MaxRetry
  THEN run' = "failed" /\ Waits("run", 0) /\ UNCHANGED tries
  ELSE /\ run' = "sleep"
       /\ tries' = tries + 1
       /\ \E seconds \in 0..MaxSleep : Waits("run", seconds)

SnapshotFails ==
  /\ Up /\ run = "restore"
  /\ Retry
  /\ UNCHANGED <<main, at, call, feed, batch, lagged, margin>>

Wake ==
  /\ Up /\ run = "sleep" /\ left["run"] = 0
  /\ run' = "restore"
  /\ UNCHANGED <<main, tries, at, call, feed, batch, left, lagged, margin>>

\* The send of the batch has no timeout.
TakeBatch ==
  /\ Up /\ at = "ready" /\ run = "send"
  /\ at' = "loading"
  /\ run' = "load"
  /\ Waits("run", RestoreWait)
  /\ UNCHANGED <<main, tries, call, feed, batch, lagged, margin>>

\* Faulty form of Loop: Subscribe looks at a stop channel that nobody closes.
LoopForever == run' = "read" /\ Waits("run", ReadBlock)

\* The condition of Subscribe's loop, and XREAD; when Subscribe returns nil, the
\* operation has succeeded, and Run looks at the same flag.
Loop ==
  IF Shut
  THEN run' = "returned" /\ Waits("run", 0)
  ELSE run' = "read" /\ Waits("run", ReadBlock)

\* The dispatcher has stored the batch and answers Restore, if it still waits.
Load ==
  /\ Up /\ at = "loading"
  /\ at' = "ready"
  /\ IF run = "load" THEN Loop /\ tries' = 0 ELSE UNCHANGED <<run, left, tries>>
  /\ UNCHANGED <<main, call, feed, batch, lagged, margin>>

\* Restore times out; when the dispatcher is between Exists and Load just then, it
\* sends on the nil channel.
RestoreTimesOut ==
  /\ Up /\ run = "load" /\ left["run"] = 0
  /\ Retry
  /\ at' \in {at, "blocked"}
  /\ UNCHANGED <<main, call, feed, batch, lagged, margin>>

ReadEntries ==
  /\ Up /\ run = "read" /\ feed # {}
  /\ run' = "hand"
  /\ batch' = feed /\ feed' = {}
  /\ Waits("run", 0)
  /\ UNCHANGED <<main, tries, at, call, lagged, margin>>

ReadTimesOut ==
  /\ Up /\ run = "read" /\ left["run"] = 0
  /\ Loop
  /\ UNCHANGED <<main, tries, at, call, feed, batch, lagged, margin>>

\* The dispatcher takes an entry, and answers its creator if it still waits.
HandOver(c) ==
  /\ Up /\ run = "hand" /\ c \in batch /\ at = "ready"
  /\ batch' = batch \ {c}
  /\ call' = [call EXCEPT ![c] = "done"]
  /\ IF batch' = {} THEN Loop ELSE UNCHANGED <<run, left>>
  /\ UNCHANGED <<main, tries, at, feed, lagged, margin>>

\* The creator times out just when the dispatcher is between Exists and Load.
HandOverLate(c) ==
  /\ Up /\ run = "hand" /\ c \in batch /\ at = "ready"
  /\ call[c] = "await" /\ left[c] = 0
  /\ batch' = batch \ {c}
  /\ call' = [call EXCEPT ![c] = "done"]
  /\ at' = "blocked"
  /\ IF batch' = {} THEN Loop ELSE UNCHANGED <<run, left>>
  /\ UNCHANGED <<main, tries, feed, lagged, margin>>

-----------------------------------------------------------------------------
\* Application.Run.

\* An error that main reads: from Run, from the listener or from asynq.  An error
\* that comes during a shutdown stays in its channel.
Fails ==
  /\ main = "serving"
  /\ main' = "failing"
  /\ Waits("main", ErrorGrace)
  /\ UNCHANGED <<run, tries, at, call, feed, batch, lagged, margin>>

\* Faulty form of RunFailed: the error is logged and sent nowhere.
RunFailedLogged == run = "failed" /\ main = "serving" /\ UNCHANGED vars

RunFailed == run = "failed" /\ Fails

ServerFails == run # "failed" /\ Fails

Signal ==
  /\ main = "serving"
  /\ main' = "draining"
  /\ Waits("main", SignalGrace)
  /\ UNCHANGED <<run, tries, at, call, feed, batch, lagged, margin>>

\* srv.Shutdown returns nil and services.Shutdown starts, under the same deadline.
StopServices ==
  /\ main = "draining" /\ Drained
  /\ main' = "stopping"
  /\ margin' = IF run \in Following THEN left["main"] ELSE 0
  /\ UNCHANGED <<run, tries, at, call, feed, batch, left, lagged>>

Exit(how) ==
  /\ main' = how
  /\ UNCHANGED <<run, tries, at, call, feed, batch, left, lagged, margin>>

DrainMissed == main = "draining" /\ left["main"] = 0 /\ Exit("undrained")

Stopped == Shut /\ GroupIsEmpty /\ Exit(IF main = "stopping" THEN "clean" ELSE "failed")

\* Faulty form of StopMissed: after an error, Shutdown has no deadline.
StopMissedAfterSignal == main = "stopping" /\ left["main"] = 0 /\ Exit("unstopped")

StopMissed ==
  Shut /\ left["main"] = 0 /\ Exit(IF main = "stopping" THEN "unstopped" ELSE "failed")

-----------------------------------------------------------------------------
\* Time.

Counting(x) ==
  \/ x \in Calls /\ call[x] = "await"
  \/ x = "run" /\ run \in {"sleep", "load", "read"}
  \/ x = "main" /\ main \in {"draining", "stopping", "failing"}

\* Nobody can go on before a countdown ends or the dispatcher has loaded a batch.
Quiet ==
  /\ run \notin {"new", "restore"}
  /\ run \in {"send", "hand"} => at # "ready"
  /\ run = "read" => feed = {}
  /\ run = "failed" => main # "serving"
  /\ \A g \in Gets : call[g] # "await" /\ (call[g] = "send" => at # "ready")
  /\ main = "draining" => ~Drained
  /\ Shut => ~GroupIsEmpty

\* Timers and deadlines are on time; goroutines may be late.
Tick ==
  /\ Up
  /\ \A x \in Clocks : Counting(x) => left[x] > 0
  /\ left' = [x \in Clocks |-> IF Counting(x) THEN left[x] - 1 ELSE 0]
  /\ lagged' = (lagged \/ ~Quiet)
  /\ UNCHANGED <<main, run, tries, at, call, feed, batch, margin>>

RunStep ==
  \/ Start \/ Snapshot \/ SnapshotFails \/ Wake \/ TakeBatch \/ RestoreTimesOut
  \/ ReadEntries \/ ReadTimesOut
  \/ \E c \in Creates : HandOver(c) \/ HandOverLate(c)

MainStep == RunFailed \/ StopServices \/ DrainMissed \/ Stopped \/ StopMissed

Next ==
  \/ \E c \in Creates : CallCreateAd(c)
  \/ \E g \in Gets : CallGetAds(g) \/ TakeGet(g) \/ AnswerGet(g)
  \/ \E x \in Calls : TimeOut(x)
  \/ RunStep
  \/ Load
  \/ ServerFails \/ Signal
  \/ MainStep
  \/ Tick

Spec == Init /\ [][Next]_vars

\* Go schedules every goroutine that can run, the dispatcher finishes a batch and
\* time passes.  No request, signal or failure of a server is fair.
FairSpec ==
  /\ Spec
  /\ WF_vars(RunStep) /\ WF_vars(Load) /\ WF_vars(MainStep) /\ WF_vars(Tick)
  /\ \A g \in Gets : WF_vars(TakeGet(g)) /\ WF_vars(AnswerGet(g))
  /\ \A x \in Calls : WF_vars(TimeOut(x))

-----------------------------------------------------------------------------
\* Properties.

\* When main returns after SIGTERM, no handler is cut off, Subscribe has handed
\* over every entry it read, and Run has returned: wg.Wait (ad.go:126) covers
\* every goroutine that AdService started for itself or that serves a client.
CleanExitCutsNothing ==
  main = "clean" =>
    /\ \A x \in Calls : call[x] \notin InProgress
    /\ run \in {"new"} \cup Ended
    /\ batch = {}

\* A process whose goroutines are prompt misses the deadline of SIGTERM only for
\* a reason: a read, which the dispatcher may keep waiting, a dispatcher that is blocked,
\* a Restore that was under way, or handlers that have left an XREAD (ad.go:243)
\* no time to return.
MissedDeadlineHasCause ==
  /\ main = "undrained" => lagged \/ \E g \in Gets : call[g] # "none"
  /\ main = "unstopped" => lagged \/ at = "blocked" \/ margin <= ReadBlock

\* A process that is being shut down ends, whatever is blocked.
ShutdownEnds == main # "serving" ~> ~Up

\* A process follows the stream in the end, or it ends and can be started anew;
\* only a nil channel can keep it between the two.
FollowsOrEnds == Up ~> run \in Following \/ at = "blocked" \/ ~Up
=============================================================================
