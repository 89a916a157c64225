----------------------------- MODULE AdCluster -----------------------------
(***************************************************************************)
(* The instances of the ad server as replicas.  Each one restores its      *)
(* in-memory index from a snapshot of Postgres (Restore), then reads the   *)
(* redis stream after the snapshot's MAX(version) (Subscribe) and applies  *)
(* each entry to the index (the dispatcher and the store); it also runs    *)
(* writers of AdLog, whose clients are answered when their own instance    *)
(* has applied the entry they published.                                   *)
(*                                                                         *)
(* Abstractions: an instance's index is the set of ads it serves, and every *)
(* ad has started.  Subscribe, the unbuffered RequestChan                  *)
(* and the dispatcher handle one entry at a time, so reading an entry and  *)
(* applying it are one step: AdService.Version, which runs ahead by one    *)
(* entry, is read by nobody else.                                          *)
(***************************************************************************)
EXTENDS AdLog, FiniteSets

CONSTANTS
  MaxLen,  \* how many entries XADD leaves in the stream (100000)
  MaxRuns  \* how many processes may be started (a bound of the model)

ASSUME MaxLenAssumption == MaxLen \in Nat \ {0}
ASSUME MaxRunsAssumption == MaxRuns \in Nat

VARIABLES
  phase,    \* of each instance: down, restoring or subscribed
  version,  \* AdService.Version
  index,    \* the ads in the index of the instance's store
  known,    \* the keys of the store's map ads, which nothing removes
  answered, \* the ads whose creators the instance's dispatcher has answered
  blocked,  \* the instances whose dispatcher sends on a nil channel, for ever
  runs      \* how many processes were started

replicaVars == <<phase, version, index, known, blocked, runs>>
clusterVars == <<rows, stream, top, lock, task, outcome, pc, op, ad, ver, err, faults,
                 phase, version, index, known, answered, blocked, runs>>

ClusterTypeOK ==
  /\ TypeOK
  /\ phase \in [Instances -> {"down", "restoring", "subscribed"}]
  /\ version \in [Instances -> Nat]
  /\ index \in [Instances -> SUBSET Ads]
  /\ known \in [Instances -> SUBSET Ads]
  /\ answered \in [Instances -> SUBSET Ads]
  /\ blocked \subseteq Instances
  /\ runs \in Nat

ClusterInit ==
  /\ Init
  /\ phase = [i \in Instances |-> "down"]
  /\ version = [i \in Instances |-> 0]
  /\ index = [i \in Instances |-> {}]
  /\ known = [i \in Instances |-> {}]
  /\ answered = [i \in Instances |-> {}]
  /\ blocked = {}
  /\ runs = 0

Up(i) == phase[i] # "down"

-----------------------------------------------------------------------------
\* The writers of AdLog run in instances that are up.

CreateAdAt(w, a) ==
  /\ Up(Home[w])
  /\ CreateAd(w, a)
  /\ UNCHANGED <<replicaVars, answered>>

HandleDeleteAdAt(w, a) ==
  /\ Up(Home[w])
  /\ HandleDeleteAd(w, a)
  /\ UNCHANGED <<replicaVars, answered>>

StepAt(w) ==
  /\ Step(w)
  /\ UNCHANGED <<replicaVars, answered>>

\* CreateAd answers with what its channel holds, or after three seconds.
RespondAt(w, answer) ==
  /\ answer = "ok" => ad[w] \in answered[Home[w]]
  /\ Respond(w, answer)
  /\ UNCHANGED <<replicaVars, answered>>

\* The ads whose CreateAd has its channel in the instance's ResponseChan: it
\* stores it first and deletes it when it returns.
Waiting(i) == {ad[w] : w \in {v \in Writers : Home[v] = i /\ op[v] = "create"}}

-----------------------------------------------------------------------------
\* AdService.Run starts the dispatcher and calls Restore.
Run(i) ==
  /\ phase[i] = "down"
  /\ runs < MaxRuns
  /\ runs' = runs + 1
  /\ phase' = [phase EXCEPT ![i] = "restoring"]
  /\ UNCHANGED <<vars, version, index, known, answered, blocked>>

\* The active rows and MAX(version) of one REPEATABLE READ snapshot.
ActiveRows == {a \in Ads : rows[a].state = "active"}

\* Faulty forms of Load: the store's map is forgotten, ...
LoadIndexOnly(i) ==
  /\ index' = [index EXCEPT ![i] = @ \cup ActiveRows]
  /\ UNCHANGED known

\* ... or the rows are not filtered by is_active.
LoadAllRows(i) ==
  LET stored == {a \in Ads : rows[a].state # "absent"}
  IN /\ index' = [index EXCEPT ![i] = @ \cup stored]
     /\ known' = [known EXCEPT ![i] = @ \cup stored]

\* The batch goes into the store, beside what an earlier Restore of the same
\* process has put there.
Load(i) ==
  /\ index' = [index EXCEPT ![i] = @ \cup ActiveRows]
  /\ known' = [known EXCEPT ![i] = @ \cup ActiveRows]

Restore(i) ==
  /\ phase[i] = "restoring"
  /\ i \notin blocked
  /\ \E m \in {rows[a].version : a \in Ads} :
       IsMaxVersion(m) /\ version' = [version EXCEPT ![i] = m]
  /\ Load(i)
  /\ phase' = [phase EXCEPT ![i] = "subscribed"]
  /\ UNCHANGED <<vars, answered, blocked, runs>>

\* The dispatcher answers after the ten seconds that Restore waits: Run calls
\* Restore again, and the batch is in the store all the same.  When Restore's
\* deferred Delete comes between Exists and Load, the dispatcher is stuck.
RestoreTimesOut(i) ==
  /\ phase[i] = "restoring"
  /\ i \notin blocked
  /\ Fault("slow")
  /\ Load(i)
  /\ blocked' \in {blocked, blocked \cup {i}}
  /\ UNCHANGED <<rows, stream, top, lock, task, outcome, pc, op, ad, ver, err,
                 phase, version, answered, runs>>

-----------------------------------------------------------------------------
\* XADD with MAXLEN keeps the entries with the highest ids.
Retained == {e \in stream : Cardinality({f \in stream : f.id > e.id}) < MaxLen}

\* Faulty form of IsNextEntry: any entry, whatever AdService.Version is.
IsAnyEntry(i, e) == e \in Retained

\* The entry that XREAD returns first after AdService.Version.
IsNextEntry(i, e) ==
  /\ e \in Retained
  /\ e.id > version[i]
  /\ \A f \in Retained : f.id > version[i] => e.id <= f.id

\* The dispatcher takes the entry, which Subscribe has sent it.
Take(i, e) ==
  /\ phase[i] = "subscribed"
  /\ i \notin blocked
  /\ IsNextEntry(i, e)
  /\ version' = [version EXCEPT ![i] = e.id]

\* Faulty forms of ReceiveCreate: an answer goes to every waiting CreateAd, ...
AnswerEveryone(i, e) ==
  /\ e.type = "create"
  /\ Take(i, e)
  /\ index' = [index EXCEPT ![i] = @ \cup {e.ad}]
  /\ known' = [known EXCEPT ![i] = @ \cup {e.ad}]
  /\ answered' = [answered EXCEPT ![i] = @ \cup Waiting(i)]
  /\ UNCHANGED <<vars, phase, blocked, runs>>

\* ... or the ad enters the store's map and not the index.
KnowOnly(i, e) ==
  /\ e.type = "create"
  /\ Take(i, e)
  /\ known' = [known EXCEPT ![i] = @ \cup {e.ad}]
  /\ answered' = [answered EXCEPT ![i] = @ \cup ({e.ad} \cap Waiting(i))]
  /\ UNCHANGED <<vars, phase, index, blocked, runs>>

\* The dispatcher adds the ad and answers the CreateAd of its own instance that
\* waits for it, or is stuck when CreateAd returns, for another reason, between
\* Exists and Load (Dispatcher).
ReceiveCreate(i, e) ==
  /\ e.type = "create"
  /\ Take(i, e)
  /\ index' = [index EXCEPT ![i] = @ \cup {e.ad}]
  /\ known' = [known EXCEPT ![i] = @ \cup {e.ad}]
  /\ \/ /\ answered' = [answered EXCEPT ![i] = @ \cup ({e.ad} \cap Waiting(i))]
        /\ UNCHANGED blocked
     \/ /\ e.ad \in Waiting(i)
        /\ blocked' = blocked \cup {i}
        /\ UNCHANGED answered
  /\ UNCHANGED <<vars, phase, runs>>

\* Faulty form of ReceiveDelete: the map forgets the ad and the index keeps it.
DeleteFromMap(i, e) ==
  /\ e.type = "delete" /\ e.ad \in known[i]
  /\ Take(i, e)
  /\ known' = [known EXCEPT ![i] = @ \ {e.ad}]
  /\ UNCHANGED <<vars, phase, index, answered, blocked, runs>>

\* The dispatcher removes an ad that the store's map knows, now or formerly.
ReceiveDelete(i, e) ==
  /\ e.type = "delete" /\ e.ad \in known[i]
  /\ Take(i, e)
  /\ index' = [index EXCEPT ![i] = @ \ {e.ad}]
  /\ UNCHANGED <<vars, phase, known, answered, blocked, runs>>

-----------------------------------------------------------------------------
\* An instance ends, with its memory and its writers.
End(i) ==
  /\ Kill(i)
  /\ phase' = [phase EXCEPT ![i] = "down"]
  /\ version' = [version EXCEPT ![i] = 0]
  /\ index' = [index EXCEPT ![i] = {}]
  /\ known' = [known EXCEPT ![i] = {}]
  /\ answered' = [answered EXCEPT ![i] = {}]
  /\ blocked' = blocked \ {i}
  /\ UNCHANGED runs

\* The dispatcher dereferences the nil that the map returns for an unknown ad,
\* and the panic ends the process.
Panic(i, e) ==
  /\ phase[i] = "subscribed"
  /\ i \notin blocked
  /\ IsNextEntry(i, e)
  /\ e.type = "delete" /\ e.ad \notin known[i]
  /\ End(i)
  /\ UNCHANGED faults

CrashAt(i) ==
  /\ Up(i)
  /\ Fault("crash")
  /\ End(i)

\* SIGTERM, or the end of Run after its last retry of Restore: the process
\* waits for its clients' requests, and for no delete task.
Shutdown(i) ==
  /\ Up(i)
  /\ \A w \in Writers : Home[w] = i => op[w] # "create"
  /\ IF \E w \in Writers : Home[w] = i /\ op[w] = "delete" THEN Fault("exit") ELSE Fault("stop")
  /\ End(i)

ClusterNext ==
  \/ \E w \in Writers :
       \/ \E a \in Ads : CreateAdAt(w, a) \/ HandleDeleteAdAt(w, a)
       \/ StepAt(w)
       \/ \E answer \in {"ok", "timeout"} : RespondAt(w, answer)
  \/ LockExpires /\ UNCHANGED <<replicaVars, answered>>
  \/ OrphanExpires /\ UNCHANGED <<replicaVars, answered>>
  \/ \E i \in Instances :
       \/ Run(i) \/ Restore(i) \/ RestoreTimesOut(i)
       \/ \E e \in stream : ReceiveCreate(i, e) \/ ReceiveDelete(i, e) \/ Panic(i, e)
       \/ CrashAt(i) \/ Shutdown(i)

ClusterSpec == ClusterInit /\ [][ClusterNext]_clusterVars

\* Go schedules every runnable goroutine: Subscribe reads again after every
\* XREAD and the dispatcher takes what it sends, unless it is blocked on a nil
\* channel, and a writer that stays up goes on.  asynq hands out every due task
\* while a worker is free.
FairClusterSpec ==
  /\ ClusterSpec
  /\ \A w \in Writers : WF_clusterVars(StepAt(w) \/ RespondAt(w, "timeout"))
  /\ \A a \in Ads : WF_clusterVars(\E w \in Writers : HandleDeleteAdAt(w, a))
  /\ WF_clusterVars(OrphanExpires /\ UNCHANGED <<replicaVars, answered>>)
  /\ \A i \in Instances :
       WF_clusterVars(\E e \in stream : ReceiveCreate(i, e) \/ ReceiveDelete(i, e) \/ Panic(i, e))

-----------------------------------------------------------------------------
\* Properties.

\* When the dispatcher has answered the CreateAd of an ad, the process serves the
\* ad until it has read its deletion in the stream, and a retry of Restore or the
\* trimming of the stream does not take the ad away: the client, answered or about
\* to be, reads its own write there.
AnsweredIsServed ==
  \A i \in Instances : \A a \in answered[i] :
    /\ a \in known[i]
    /\ \/ a \in index[i]
       \/ \E e \in stream : e.type = "delete" /\ e.ad = a /\ e.id <= version[i]

\* An ad that an instance serves and that is not active in Postgres any more
\* will end there: its deletion is still to come to the instance, or its delete
\* task will run again until it is published.
InactiveWillEnd ==
  \A i \in Instances : phase[i] = "subscribed" =>
    \A a \in index[i] :
      \/ Active(a)
      \/ task[a] \in {"due", "running"}
      \/ \E e \in Retained : e.type = "delete" /\ e.ad = a /\ e.id > version[i]

\* An ad that an instance dropped at its deletion is not served again by the same
\* process, though Restore may run again and the map ads still knows the ad.
NoResurrection ==
  [][\A i \in Instances : \A a \in known[i] \ index[i] : a \notin index'[i]]_clusterVars

\* The deletion an instance reads next is of an ad its store knows: the
\* dispatcher does not panic (README.md:137: after workers race for a delete
\* task, the state machine can also handle the delete operation).
DeletesAreKnown ==
  \A i \in Instances : \A e \in stream :
    phase[i] = "subscribed" /\ IsNextEntry(i, e) /\ e.type = "delete" => e.ad \in known[i]

\* An instance that follows the stream serves no ad whose deletion it has passed,
\* by a snapshot or by an entry (README.md:137: the delete log prevents the
\* Restore operation from reading and serving stale data).  It fails with "slow",
\* where the retry of Restore keeps what the older snapshot brought, and with
\* "expiry" or after several lost changes, where a deletion may get a number at or below
\* the MAX(version) of a snapshot taken before it.
NoStaleAds ==
  \A i \in Instances : \A e \in stream :
    phase[i] = "subscribed" /\ e.type = "delete" /\ e.id <= version[i] => e.ad \notin index[i]

\* Instances that have got to the same version serve the same ads, whether they
\* restored a snapshot of it or read the stream up to it (README.md:129: a state
\* machine is recovered by the snapshot and the log instead of the whole log).
InstancesAgree ==
  \A i, j \in Instances :
    phase[i] = "subscribed" /\ phase[j] = "subscribed" /\ version[i] = version[j] => index[i] = index[j]

\* The cluster implements the replicated state machine: the log is the stream
\* with the change that is committed and not yet published, and an instance
\* that has restored is a replica.
Committed ==
  stream \cup {[id |-> ver[w], type |-> op[w], ad |-> ad[w]] :
                  w \in {v \in Writers : pc[v] = "publish"}}

Replicated == INSTANCE ReplicatedAds WITH
  Replicas <- Instances,
  log <- Committed,
  up <- {i \in Instances : phase[i] = "subscribed"},
  applied <- version

ImplementsReplicatedAds == Replicated!Spec

\* An instance that stays up, and whose dispatcher is not blocked, comes to serve
\* every published ad that is active, though its deletion may follow at once, and
\* drops every ad whose deletion is published.
EventuallyServed ==
  \A i \in Instances, a \in Ads :
    phase[i] = "subscribed" /\ Created(a) /\ Active(a) ~>
      a \in index[i] \/ phase[i] # "subscribed" \/ i \in blocked

EventuallyDropped ==
  \A i \in Instances, a \in Ads :
    phase[i] = "subscribed" /\ Deleted(a) ~> a \notin index[i] \/ i \in blocked
=============================================================================
