------------------------------- MODULE AdLog -------------------------------
(***************************************************************************)
(* The write path of the ad server (pkg/service/ad.go): how CreateAd and   *)
(* the asynq task that calls DeleteAd number a change, store it in         *)
(* Postgres and publish it to the redis stream "ad" under the redis lock   *)
(* "lock:ad".                                                              *)
(*                                                                         *)
(* A writer is one goroutine: an HTTP handler inside CreateAd or an asynq  *)
(* worker inside DeleteAd.  Each statement that leaves the process (redis, *)
(* Postgres, asynq) is one step, and may fail, fail after taking effect    *)
(* (a lost reply), or be the last step of a process that crashes.          *)
(*                                                                         *)
(* Abstractions: an ad is its id; the statements that write inside one     *)
(* Postgres transaction take effect together with COMMIT (READ COMMITTED:  *)
(* nobody sees them earlier, and the purge touches only rows that no       *)
(* concurrent transaction still writes); the XADD argument MaxLen is       *)
(* applied by the readers' view of the stream (AdCluster!Retained).        *)
(***************************************************************************)
EXTENDS Naturals

CONSTANTS
  Ads,      \* the ads that clients may ask to create (each gets a fresh uuid)
  Writers,  \* goroutines of all instances that run CreateAd or DeleteAd
  Instances, \* processes of the server
  Home,     \* the instance of each writer
  NoAd,     \* the ad of an idle writer
  Free,     \* value of the lock key when it does not exist
  Orphan,   \* value of the lock key when the token's owner will never release
  Faulty,   \* the kinds of faults that may happen
  MaxFaults \* how many faults may happen

\* expiry     the lock's TTL ends before its owner releases it
\* crash      a process dies
\* lock       redis fails in Obtain or Release
\* db         Postgres fails a statement, and nothing is committed
\* dbReply    the commit succeeds and its reply is lost
\* xadd       redis fails XADD, and nothing is appended
\* xaddReply  XADD succeeds and its reply is lost
\* queue      Enqueue fails, with or without effect
\* stop       a process ends while it runs no delete task (AdCluster)
\* exit       a process ends while it runs one (AdCluster)
\* slow       a replica needs over ten seconds to load its snapshot (AdCluster)
\* inject     the command inject is run (Inject)
FaultKinds == {"expiry", "crash", "lock", "db", "dbReply", "xadd", "xaddReply", "queue",
               "stop", "exit", "slow", "inject"}

ASSUME AdsAssumption == Ads # {} /\ NoAd \notin Ads
ASSUME HomeAssumption == Home \in [Writers -> Instances]
ASSUME LockAssumption == Free \notin Writers /\ Orphan \notin Writers /\ Free # Orphan
ASSUME FaultsAssumption == Faulty \subseteq FaultKinds /\ MaxFaults \in Nat

VARIABLES
  rows,     \* Postgres table ads: the state and version of each ad's row
  stream,   \* every entry that XADD appended to the redis stream
  top,      \* the sequence number of the stream's last generated id 0-top
  lock,     \* redis key lock:ad, by the writer whose token it holds
  task,     \* the asynq task event:delete-<ad>
  outcome,  \* what the client that asked for the ad has been answered
  pc, op, ad, ver, err,   \* the locals of each writer
  faults    \* how many faults have happened

dbVars == <<rows>>
redisVars == <<stream, top>>
localVars == <<pc, op, ad, ver, err>>
vars == <<rows, stream, top, lock, task, outcome, pc, op, ad, ver, err, faults>>

Absent == [state |-> "absent", version |-> 0]
Rows == {Absent} \cup [state : {"active", "inactive"}, version : Nat \ {0}]
Entries == [id : Nat, type : {"create", "delete"}, ad : Ads]
TaskStates == {"none", "due", "running", "done"}
Outcomes == {"unsent", "waiting", "ok", "error", "timeout", "lost"}
Labels == {"idle", "obtain", "select", "commit", "publish", "release", "return", "wait"}

TypeOK ==
  /\ rows \in [Ads -> Rows]
  /\ stream \in SUBSET Entries
  /\ top \in Nat
  /\ lock \in Writers \cup {Free, Orphan}
  /\ task \in [Ads -> TaskStates]
  /\ outcome \in [Ads -> Outcomes]
  /\ pc \in [Writers -> Labels]
  /\ op \in [Writers -> {"none", "create", "delete"}]
  /\ ad \in [Writers -> Ads \cup {NoAd}]
  /\ ver \in [Writers -> Nat]
  /\ err \in [Writers -> BOOLEAN]
  /\ faults \in Nat

Init ==
  /\ rows = [a \in Ads |-> Absent]
  /\ stream = {}
  /\ top = 0
  /\ lock = Free
  /\ task = [a \in Ads |-> "none"]
  /\ outcome = [a \in Ads |-> "unsent"]
  /\ pc = [w \in Writers |-> "idle"]
  /\ op = [w \in Writers |-> "none"]
  /\ ad = [w \in Writers |-> NoAd]
  /\ ver = [w \in Writers |-> 0]
  /\ err = [w \in Writers |-> FALSE]
  /\ faults = 0

-----------------------------------------------------------------------------
\* A fault of kind k happens.
Fault(k) ==
  /\ k \in Faulty
  /\ faults < MaxFaults
  /\ faults' = faults + 1

Goto(w, label) ==
  /\ pc' = [pc EXCEPT ![w] = label]
  /\ UNCHANGED <<op, ad>>

\* The goroutine returns: its locals are gone.
Finish(w) ==
  /\ pc' = [pc EXCEPT ![w] = "idle"]
  /\ op' = [op EXCEPT ![w] = "none"]
  /\ ad' = [ad EXCEPT ![w] = NoAd]
  /\ ver' = [ver EXCEPT ![w] = 0]
  /\ err' = [err EXCEPT ![w] = FALSE]

\* A statement returns an error: the method returns it, through the deferred
\* release when the lock was obtained.
FailTo(w, label) ==
  /\ Goto(w, label)
  /\ err' = [err EXCEPT ![w] = TRUE]
  /\ UNCHANGED ver

SucceedTo(w, label) ==
  /\ Goto(w, label)
  /\ UNCHANGED <<ver, err>>

Begin(w, kind, a) ==
  /\ pc[w] = "idle"
  /\ pc' = [pc EXCEPT ![w] = "obtain"]
  /\ op' = [op EXCEPT ![w] = kind]
  /\ ad' = [ad EXCEPT ![w] = a]
  /\ UNCHANGED <<rows, stream, top, lock, ver, err, faults>>

\* A client posts a new ad; BeforeCreate gives it a uuid nobody has used.
CreateAd(w, a) ==
  /\ outcome[a] = "unsent"
  /\ outcome' = [outcome EXCEPT ![a] = "waiting"]
  /\ Begin(w, "create", a)
  /\ UNCHANGED task

\* asynq hands the due delete task to a worker.
HandleDeleteAd(w, a) ==
  /\ task[a] = "due"
  /\ task' = [task EXCEPT ![a] = "running"]
  /\ Begin(w, "delete", a)
  /\ UNCHANGED outcome

-----------------------------------------------------------------------------
\* locker.Obtain sets the key if it does not exist.
Obtain(w) ==
  /\ pc[w] = "obtain"
  /\ lock = Free
  /\ lock' = w
  /\ SucceedTo(w, "select")
  /\ UNCHANGED <<rows, stream, top, task, outcome, faults>>

\* Faulty form of ObtainFails: the error is logged and not returned.
ObtainFailsIgnored(w) ==
  /\ pc[w] = "obtain"
  /\ lock # Free
  /\ SucceedTo(w, "select")
  /\ UNCHANGED <<rows, stream, top, lock, task, outcome, faults>>

\* locker.Obtain gives up: somebody held the key on all its tries, or redis
\* failed, perhaps after setting the key.
ObtainFails(w) ==
  /\ pc[w] = "obtain"
  /\ \/ lock # Free /\ UNCHANGED <<lock, faults>>
     \/ Fault("lock") /\ UNCHANGED lock
     \/ Fault("lock") /\ lock = Free /\ lock' = Orphan
  /\ FailTo(w, "return")
  /\ UNCHANGED <<rows, stream, top, task, outcome>>

\* Faulty form of IsMaxVersion: only active rows are looked at.
IsMaxActiveVersion(m) ==
  LET versions == {rows[a].version : a \in {b \in Ads : rows[b].state = "active"}} \cup {0}
  IN /\ m \in versions
     /\ \A v \in versions : v <= m

\* m = SELECT COALESCE(MAX(version), 0) FROM ads
IsMaxVersion(m) ==
  /\ \E a \in Ads : rows[a].version = m
  /\ \A a \in Ads : rows[a].version <= m

\* Faulty form of NextVersion: the maximum itself, not the number after it.
SameVersion(m) == m

\* maxVersion++ in DeleteAd, ad.Version = maxVersion + 1 for a new ad.
NextVersion(m) == m + 1

SelectMax(w) ==
  /\ pc[w] = "select"
  /\ \E m \in {rows[a].version : a \in Ads} \cup {0} :
       /\ IsMaxVersion(m)
       /\ ver' = [ver EXCEPT ![w] = NextVersion(m)]
  /\ Goto(w, "commit")
  /\ UNCHANGED <<rows, stream, top, lock, task, outcome, err, faults>>

SelectFails(w) ==
  /\ pc[w] = "select"
  /\ Fault("db")
  /\ FailTo(w, "release")
  /\ UNCHANGED <<rows, stream, top, lock, task, outcome>>

\* INSERT of the new ad with its version.
InsertAd(a, v) ==
  rows' = [rows EXCEPT ![a] = [state |-> "active", version |-> v]]

\* Faulty forms of DeactivateAndPurge: the purge forgets is_active = false, ...
PurgeActive(a, v) ==
  rows' = [b \in Ads |->
             IF b = a /\ rows[b].state # "absent"
             THEN [state |-> "inactive", version |-> v]
             ELSE IF rows[b].version < v THEN Absent ELSE rows[b]]

\* ... it compares with <= and takes the new tombstone too, ...
PurgeOwnTombstone(a, v) ==
  rows' = [b \in Ads |->
             IF b = a \/ rows[b].state = "inactive" THEN Absent ELSE rows[b]]

\* ... or the UPDATE sets the version and leaves is_active alone.
RenumberAndPurge(a, v) ==
  rows' = [b \in Ads |->
             IF b = a /\ rows[b].state # "absent"
             THEN [rows[b] EXCEPT !.version = v]
             ELSE rows[b]]

\* UPDATE of the ad's row, if it still exists, to an inactive row (a
\* tombstone) with version v, then DELETE of all older tombstones.
DeactivateAndPurge(a, v) ==
  rows' = [b \in Ads |->
             IF b = a /\ rows[b].state # "absent"
             THEN [state |-> "inactive", version |-> v]
             ELSE IF rows[b].state = "inactive" /\ rows[b].version < v
                  THEN Absent
                  ELSE rows[b]]

Write(w) ==
  \/ op[w] = "create" /\ InsertAd(ad[w], ver[w])
  \/ op[w] = "delete" /\ DeactivateAndPurge(ad[w], ver[w])

Commit(w) ==
  /\ pc[w] = "commit"
  /\ Write(w)
  /\ SucceedTo(w, "publish")
  /\ UNCHANGED <<stream, top, lock, task, outcome, faults>>

\* A statement or the commit returns an error, and the transaction is rolled
\* back or, when only the reply was lost, committed.
CommitFails(w) ==
  /\ pc[w] = "commit"
  /\ \/ Fault("db") /\ UNCHANGED rows
     \/ Fault("dbReply") /\ Write(w)
  /\ FailTo(w, "release")
  /\ UNCHANGED <<stream, top, lock, task, outcome>>

\* redis appends the entry: its id must be above the last generated one.
AppendEntry(w) ==
  /\ ver[w] > top
  /\ top' = ver[w]
  /\ stream' = stream \cup {[id |-> ver[w], type |-> op[w], ad |-> ad[w]]}

XAdd(w) ==
  /\ pc[w] = "publish"
  /\ AppendEntry(w)
  /\ SucceedTo(w, "release")
  /\ UNCHANGED <<rows, lock, task, outcome, faults>>

\* redis refuses an id at or below the last one, or the command fails, perhaps
\* after redis executed it.
XAddFails(w) ==
  /\ pc[w] = "publish"
  /\ \/ ver[w] <= top /\ UNCHANGED <<stream, top, faults>>
     \/ Fault("xadd") /\ UNCHANGED <<stream, top>>
     \/ Fault("xaddReply") /\ AppendEntry(w)
  /\ FailTo(w, "release")
  /\ UNCHANGED <<rows, lock, task, outcome>>

\* Faulty form of Release: not deferred, so an error returns without it.
ReleaseOnSuccess(w) ==
  /\ pc[w] = "release"
  /\ lock' = (IF lock = w /\ ~err[w] THEN Free ELSE lock)
  /\ SucceedTo(w, "return")
  /\ UNCHANGED <<rows, stream, top, task, outcome, faults>>

\* The deferred lock.Release deletes the key only if it still holds this
\* writer's token; its own error is only logged, and then the key stays until
\* its TTL ends.
Release(w) ==
  /\ pc[w] = "release"
  /\ \/ lock' = (IF lock = w THEN Free ELSE lock) /\ UNCHANGED faults
     \/ lock = w /\ Fault("lock") /\ lock' = Orphan
  /\ SucceedTo(w, "return")
  /\ UNCHANGED <<rows, stream, top, task, outcome>>

-----------------------------------------------------------------------------
\* CreateAd after storeAndPublishWithLock.

CreateFails(w) ==
  /\ pc[w] = "return" /\ op[w] = "create" /\ err[w]
  /\ outcome' = [outcome EXCEPT ![ad[w]] = "error"]
  /\ Finish(w)
  /\ UNCHANGED <<rows, stream, top, lock, task, faults>>

\* Faulty form of registerAdDeleteTask: it runs before the error is looked at.
RegisterFirst(w) ==
  /\ pc[w] = "return" /\ op[w] = "create"
  /\ task' = [task EXCEPT ![ad[w]] = "due"]
  /\ SucceedTo(w, "wait")
  /\ UNCHANGED <<rows, stream, top, lock, outcome, faults>>

\* registerAdDeleteTask enqueues the task that will delete the ad at EndAt;
\* EndAt may already be over when it does.
registerAdDeleteTask(w) ==
  /\ pc[w] = "return" /\ op[w] = "create" /\ ~err[w]
  /\ task' = [task EXCEPT ![ad[w]] = "due"]
  /\ SucceedTo(w, "wait")
  /\ UNCHANGED <<rows, stream, top, lock, outcome, faults>>

\* Faulty form of EnqueueFails: the error is logged and CreateAd goes on.
EnqueueFailsIgnored(w) ==
  /\ pc[w] = "return" /\ op[w] = "create" /\ ~err[w]
  /\ Fault("queue")
  /\ SucceedTo(w, "wait")
  /\ UNCHANGED <<rows, stream, top, lock, task, outcome>>

\* Enqueue returns an error, perhaps after the task was stored.
EnqueueFails(w) ==
  /\ pc[w] = "return" /\ op[w] = "create" /\ ~err[w]
  /\ Fault("queue")
  /\ UNCHANGED task \/ task' = [task EXCEPT ![ad[w]] = "due"]
  /\ outcome' = [outcome EXCEPT ![ad[w]] = "error"]
  /\ Finish(w)
  /\ UNCHANGED <<rows, stream, top, lock>>

\* Faulty form of Respond: the wait has no timeout.
RespondWithoutTimeout(w, answer) ==
  /\ pc[w] = "wait" /\ answer = "ok"
  /\ outcome' = [outcome EXCEPT ![ad[w]] = answer]
  /\ Finish(w)
  /\ UNCHANGED <<rows, stream, top, lock, task, faults>>

\* The dispatcher of the writer's instance has applied the published entry and
\* answers; or it has not within three seconds.
Respond(w, answer) ==
  /\ pc[w] = "wait"
  /\ outcome' = [outcome EXCEPT ![ad[w]] = answer]
  /\ Finish(w)
  /\ UNCHANGED <<rows, stream, top, lock, task, faults>>

-----------------------------------------------------------------------------
\* Faulty form of Ack: the handler returns nil whatever DeleteAd returned.
AckAlways(w) ==
  /\ pc[w] = "return" /\ op[w] = "delete"
  /\ task' = [task EXCEPT ![ad[w]] = "done"]
  /\ Finish(w)
  /\ UNCHANGED <<rows, stream, top, lock, outcome, faults>>

\* The asynq worker after DeleteAd: a nil error completes the task, an error
\* makes asynq run it again later.
Ack(w) ==
  /\ pc[w] = "return" /\ op[w] = "delete" /\ ~err[w]
  /\ task' = [task EXCEPT ![ad[w]] = "done"]
  /\ Finish(w)
  /\ UNCHANGED <<rows, stream, top, lock, outcome, faults>>

Retry(w) ==
  /\ pc[w] = "return" /\ op[w] = "delete" /\ err[w]
  /\ task' = [task EXCEPT ![ad[w]] = "due"]
  /\ Finish(w)
  /\ UNCHANGED <<rows, stream, top, lock, outcome, faults>>

\* The TTL of 100 ms, which nothing refreshes, ends while the owner is still
\* between Obtain and Release.
LockExpires ==
  /\ lock \in Writers
  /\ Fault("expiry")
  /\ lock' = Free
  /\ UNCHANGED <<rows, stream, top, task, outcome, pc, op, ad, ver, err>>

\* The TTL of a key that nobody will release.
OrphanExpires ==
  /\ lock = Orphan
  /\ lock' = Free
  /\ UNCHANGED <<rows, stream, top, task, outcome, pc, op, ad, ver, err, faults>>

\* A process dies, and its writers with it.  Their clients see the connection
\* break; asynq recovers the tasks they were running and will deliver them again.
Kill(i) ==
  LET dead == {w \in Writers : Home[w] = i}
      victims(kind) == {a \in Ads : \E w \in dead : op[w] = kind /\ ad[w] = a}
  IN /\ lock' = (IF lock \in dead THEN Orphan ELSE lock)
     /\ outcome' = [a \in Ads |-> IF a \in victims("create") THEN "lost" ELSE outcome[a]]
     /\ task' = [a \in Ads |-> IF a \in victims("delete") THEN "due" ELSE task[a]]
     /\ pc' = [w \in Writers |-> IF w \in dead THEN "idle" ELSE pc[w]]
     /\ op' = [w \in Writers |-> IF w \in dead THEN "none" ELSE op[w]]
     /\ ad' = [w \in Writers |-> IF w \in dead THEN NoAd ELSE ad[w]]
     /\ ver' = [w \in Writers |-> IF w \in dead THEN 0 ELSE ver[w]]
     /\ err' = [w \in Writers |-> IF w \in dead THEN FALSE ELSE err[w]]
     /\ UNCHANGED <<rows, stream, top>>

Crash(i) == Fault("crash") /\ Kill(i)

\* The steps of a writer between the call and the return of its method.
Step(w) ==
  \/ Obtain(w) \/ ObtainFails(w)
  \/ SelectMax(w) \/ SelectFails(w)
  \/ Commit(w) \/ CommitFails(w)
  \/ XAdd(w) \/ XAddFails(w)
  \/ Release(w)
  \/ CreateFails(w) \/ registerAdDeleteTask(w) \/ EnqueueFails(w)
  \/ Ack(w) \/ Retry(w)

Next ==
  \/ \E w \in Writers :
       \/ \E a \in Ads : CreateAd(w, a) \/ HandleDeleteAd(w, a)
       \/ Step(w)
       \/ \E answer \in {"ok", "timeout"} : Respond(w, answer)
  \/ LockExpires
  \/ OrphanExpires
  \/ \E i \in Instances : Crash(i)

Spec == Init /\ [][Next]_vars

\* Go schedules every runnable goroutine and each of its waits has a timeout;
\* asynq hands out every due task while a worker is free; redis drops a key
\* whose TTL has ended.
Fairness ==
  /\ \A w \in Writers : WF_vars(Step(w)) /\ WF_vars(Respond(w, "timeout"))
  /\ \A a \in Ads : WF_vars(\E w \in Writers : HandleDeleteAd(w, a))
  /\ WF_vars(OrphanExpires)

FairSpec == Spec /\ Fairness

-----------------------------------------------------------------------------
\* What the log and the table say.

Created(a) == \E e \in stream : e.type = "create" /\ e.ad = a
Deleted(a) == \E e \in stream : e.type = "delete" /\ e.ad = a
Active(a) == rows[a].state = "active"

\* Some writer has committed a change to a and not yet tried to publish it.
InFlight(a) == \E w \in Writers : pc[w] = "publish" /\ ad[w] = a

\* Properties that hold whatever fails.

\* The stream never holds the deletion of an ad without its creation at a lower
\* id, so a replica that reads it from the start never deletes an unknown ad:
\* CreateAd registers the delete task only after its XADD succeeded.
CreateBeforeDelete ==
  \A d \in stream : d.type = "delete" =>
    \E c \in stream : c.type = "create" /\ c.ad = d.ad /\ c.id < d.id

\* asynq forgets a delete task only when its deletion is in the stream: every
\* error path of DeleteAd up to XADD makes the task run again.
DoneMeansDeleted == \A a \in Ads : task[a] = "done" => Deleted(a)

\* A client that was answered with the ad's id can rely on it: the ad is in the
\* stream and asynq will end it.  (Only the answer "ok" promises this: an ad
\* whose client saw an error may be served, and for ever.)
AcknowledgedIsDurable ==
  \A a \in Ads : outcome[a] = "ok" => Created(a) /\ task[a] # "none"

\* An ad is published at most once and under the version of its row, as long
\* as the row is active; only a delete task takes that row away.  So a replica
\* that restores the row does not apply the entry again.
PublishedIsStored ==
  \A e \in stream : e.type = "create" =>
    /\ \A f \in stream : f.type = "create" /\ f.ad = e.ad => f = e
    /\ Active(e.ad) => rows[e.ad].version = e.id
    /\ Active(e.ad) \/ task[e.ad] # "none"

-----------------------------------------------------------------------------
\* Properties that need the lock's TTL to outlast every critical section
\* ("expiry" is not in Faulty).

Critical(w) == pc[w] \in {"select", "commit", "publish", "release"}

\* One writer at a time is between Obtain and Release.
MutualExclusion ==
  \A v, w \in Writers : Critical(v) /\ Critical(w) => v = w

\* No two rows share a version, and the number a writer is about to commit is
\* above every version in the table.
VersionsDistinct ==
  /\ \A a, b \in Ads : a # b /\ rows[a].version = rows[b].version
                         => rows[a].version = 0
  /\ \A w \in Writers : pc[w] = "commit" => \A a \in Ads : rows[a].version < ver[w]

\* Properties that also need every COMMIT to be followed by its XADD (nor is any
\* of crash, dbReply, xadd and xaddReply in Faulty).

\* MAX(version) is the stream's last id, or the one above it that the lock's
\* owner is about to publish; so XADD refuses nothing, and Subscribe may use
\* MAX(version) of its snapshot as an offset into the stream.
VersionTracksStream ==
  \A m \in {rows[a].version : a \in Ads} : IsMaxVersion(m) =>
    \/ m = top
    \/ m = top + 1 /\ \E w \in Writers : pc[w] = "publish" /\ ver[w] = m

\* The active rows are the ads that the whole stream creates and does not
\* delete, save for the change in flight: the snapshot that Restore takes and
\* the log that Subscribe reads agree.
SnapshotMatchesLog ==
  \A a \in Ads : InFlight(a) \/ (Active(a) <=> Created(a) /\ ~Deleted(a))
=============================================================================
