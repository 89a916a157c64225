----------------------------- MODULE Dispatcher -----------------------------
(***************************************************************************)
(* The requests of one instance (pkg/dispatcher, and CreateAd, GetAds,     *)
(* Restore and Subscribe as its callers): goroutines that store a response *)
(* channel under a request id, hand a request to the dispatcher over the   *)
(* unbuffered RequestChan or publish it to the stream, and wait for the    *)
(* answer with a timeout; and the dispatcher, which loads the batch of     *)
(* Restore, applies stream entries one by one and starts a goroutine for   *)
(* every read.  The listener does not wait for Restore, so calls come      *)
(* before it, too.                                                         *)
(*                                                                         *)
(* Every caller makes one call.  A creator creates one ad and stands for   *)
(* it.  The store is the set of ads it serves; its RWMutex makes each of   *)
(* its operations one step.  COMMIT and XADD of a change are one step      *)
(* (AdLog has them apart).  Restore succeeds at once and all its ads have  *)
(* started: its failures are in AdCluster and Lifecycle, its timers in     *)
(* AdTimers.                                                               *)
(***************************************************************************)
EXTENDS Sequences, SequencesExt

CONSTANTS
  Readers,   \* calls of GetAds
  Creators   \* calls of CreateAd, each for an ad of the same name

ASSUME CallersAssumption == Readers \cap Creators = {}

VARIABLES
  caller,   \* where each caller is
  channel,  \* the caller's entry in ResponseChan: none, empty or full
  rows,     \* the active rows of the table
  registered, \* the ads whose delete task asynq has
  feed,     \* the stream entries that Subscribe has not handed over
  ending,   \* the ads whose deletion was published
  boot,     \* Restore: new, its snapshot is taken (sent), or done
  batch,    \* the ads of the snapshot that are not in the store yet
  at,       \* where the dispatcher's loop is
  entry,    \* the entry it is handling
  get,      \* where the goroutine of each read is
  store,    \* the ads that the store serves
  timers,   \* the ads that a timer will store when they start
  result,   \* what each read found
  seen,     \* history: the started ads whose creators had their answer at each read's call
  skipped   \* history: the ads whose entry came before Restore's snapshot

callVars == <<caller, channel>>
logVars == <<rows, registered, feed, ending, skipped>>
bootVars == <<boot, batch>>
loopVars == <<at, entry, store, timers>>
readVars == <<get, result, seen>>
vars == <<caller, channel, rows, registered, feed, ending, boot, batch, at, entry, get, store, timers, result,
          seen, skipped>>

Callers == Readers \cup Creators
Entries == [type : {"create", "delete"}, ad : Creators]
NoEntry == [type |-> "none"]
Returned == {"ok", "error", "timeout"}

DispatcherTypeOK ==
  /\ caller \in [Callers -> {"idle", "send", "publish", "register", "await"} \cup Returned]
  /\ channel \in [Callers -> {"none", "empty", "full"}]
  /\ rows \subseteq Creators /\ registered \subseteq Creators
  /\ feed \in Seq(Entries)
  /\ ending \subseteq Creators
  /\ boot \in {"new", "sent", "done"}
  /\ batch \subseteq Creators
  /\ at \in {"ready", "batch", "write", "exists", "load", "blocked"}
  /\ entry \in Entries \cup {NoEntry}
  /\ get \in [Readers -> {"none", "read", "exists", "load", "blocked", "gone"}]
  /\ store \subseteq Creators
  /\ timers \subseteq Creators
  /\ result \in [Readers -> SUBSET Creators]
  /\ seen \in [Readers -> SUBSET Creators]
  /\ skipped \subseteq Creators

Init ==
  /\ caller = [x \in Callers |-> "idle"]
  /\ channel = [x \in Callers |-> "none"]
  /\ rows = {} /\ registered = {}
  /\ feed = <<>>
  /\ ending = {}
  /\ boot = "new"
  /\ batch = {}
  /\ at = "ready"
  /\ entry = NoEntry
  /\ get = [r \in Readers |-> "none"]
  /\ store = {}
  /\ timers = {}
  /\ result = [r \in Readers |-> {}]
  /\ seen = [r \in Readers |-> {}]
  /\ skipped = {}

-----------------------------------------------------------------------------
\* The callers.

Goto(x, label) == caller' = [caller EXCEPT ![x] = label]

\* The method returns, and its deferred Delete drops the channel.
Return(x, how) ==
  /\ Goto(x, how)
  /\ channel' = [channel EXCEPT ![x] = "none"]

\* Faulty form of CallCreateAd: the channel is stored after the publication.
CallUnregistered(c) ==
  /\ caller[c] = "idle"
  /\ Goto(c, "publish")
  /\ UNCHANGED <<channel, logVars, bootVars, loopVars, readVars>>

CallCreateAd(c) ==
  /\ caller[c] = "idle"
  /\ channel' = [channel EXCEPT ![c] = "empty"]
  /\ Goto(c, "publish")
  /\ UNCHANGED <<logVars, bootVars, loopVars, readVars>>

\* XADD: what comes before the snapshot of Restore Subscribe does not read.
XAdd(type, c) ==
  feed' = IF boot = "new" THEN feed ELSE Append(feed, [type |-> type, ad |-> c])

\* Faulty form of StoreAndPublish: the type is one that Subscribe does not know.
PublishMistyped(c) ==
  /\ caller[c] = "publish"
  /\ rows' = rows \cup {c}
  /\ XAdd("created", c)
  /\ skipped' = IF boot = "new" THEN skipped \cup {c} ELSE skipped
  /\ Goto(c, "register")
  /\ UNCHANGED <<channel, registered, ending, bootVars, loopVars, readVars>>

\* storeAndPublishWithLock.
StoreAndPublish(c) ==
  /\ caller[c] = "publish"
  /\ rows' = rows \cup {c}
  /\ XAdd("create", c)
  /\ skipped' = IF boot = "new" THEN skipped \cup {c} ELSE skipped
  /\ Goto(c, "register")
  /\ UNCHANGED <<channel, registered, ending, bootVars, loopVars, readVars>>

\* It fails, and perhaps the row is in the table and the entry in the stream all
\* the same.
PublishFails(c) ==
  /\ caller[c] = "publish"
  /\ \/ UNCHANGED <<rows, feed>>
     \/ rows' = rows \cup {c} /\ UNCHANGED feed
     \/ rows' = rows \cup {c} /\ XAdd("create", c)
  /\ Return(c, "error")
  /\ UNCHANGED <<registered, ending, skipped, bootVars, loopVars, readVars>>

\* registerAdDeleteTask.
Register(c) ==
  /\ caller[c] = "register"
  /\ registered' = registered \cup {c}
  /\ Goto(c, "await")
  /\ UNCHANGED <<channel, rows, feed, ending, skipped, bootVars, loopVars, readVars>>

\* It fails, and perhaps asynq has the task all the same.
RegisterFails(c) ==
  /\ caller[c] = "register"
  /\ registered' \in {registered, registered \cup {c}}
  /\ Return(c, "error")
  /\ UNCHANGED <<rows, feed, ending, skipped, bootVars, loopVars, readVars>>

\* The dispatcher has this entry to apply, now or later.
Pending(e) == (at = "write" /\ entry = e) \/ \E k \in DOMAIN feed : feed[k] = e

\* A worker of some instance runs the delete task, at EndAt: the ad has started,
\* and a timer has fired before its end (AdTimers).
PublishDelete(c) ==
  /\ c \in registered \ ending
  /\ c \notin timers
  /\ ending' = ending \cup {c}
  /\ rows' = rows \ {c}
  /\ XAdd("delete", c)
  /\ UNCHANGED <<registered, skipped, callVars, bootVars, loopVars, readVars>>

CallGetAds(r) ==
  /\ caller[r] = "idle"
  /\ channel' = [channel EXCEPT ![r] = "empty"]
  /\ seen' = [seen EXCEPT ![r] = {c \in Creators : caller[c] = "ok"} \ timers]
  /\ Goto(r, "send")
  /\ UNCHANGED <<get, result, logVars, bootVars, loopVars>>

\* The answer comes first in the select ...
Receive(x) ==
  /\ caller[x] = "await" /\ channel[x] = "full"
  /\ Return(x, "ok")
  /\ UNCHANGED <<logVars, bootVars, loopVars, readVars>>

\* ... or the timer of three seconds does.
TimeOut(x) ==
  /\ caller[x] = "await"
  /\ Return(x, "timeout")
  /\ UNCHANGED <<logVars, bootVars, loopVars, readVars>>

-----------------------------------------------------------------------------
\* Restore, with its batch.

\* The transaction reads MAX(version), behind which Subscribe will start, and the
\* active rows, and Restore goes on to send them.
Snapshot ==
  /\ boot = "new"
  /\ boot' = "sent"
  /\ batch' = rows
  /\ UNCHANGED <<callVars, logVars, loopVars, readVars>>

\* The dispatcher takes the batch, ...
TakeBatch ==
  /\ at = "ready" /\ boot = "sent"
  /\ at' = "batch"
  /\ UNCHANGED <<entry, store, timers, callVars, logVars, bootVars, readVars>>

\* ... stores its ads, while reads go on, ...
LoadAd(c) ==
  /\ at = "batch" /\ c \in batch
  /\ store' = store \cup {c}
  /\ batch' = batch \ {c}
  /\ UNCHANGED <<boot, at, entry, timers, callVars, logVars, readVars>>

\* ... and answers Restore, which returns to Run and to Subscribe.
FinishBatch ==
  /\ at = "batch" /\ batch = {}
  /\ at' = "ready"
  /\ boot' = "done"
  /\ UNCHANGED <<batch, entry, store, timers, callVars, logVars, readVars>>

-----------------------------------------------------------------------------
\* The dispatcher.

\* Dispatcher.Start meets GetAds at RequestChan and starts the read's goroutine.
TakeGet(r) ==
  /\ at = "ready" /\ caller[r] = "send"
  /\ Goto(r, "await")
  /\ get' = [get EXCEPT ![r] = "read"]
  /\ UNCHANGED <<channel, result, seen, logVars, bootVars, loopVars>>

\* Faulty form of TakeEntry: the newest entry comes first.
TakeNewest ==
  /\ at = "ready" /\ boot = "done" /\ feed # <<>>
  /\ entry' = Last(feed)
  /\ feed' = Front(feed)
  /\ at' = "write"
  /\ UNCHANGED <<store, timers, rows, registered, ending, skipped, callVars, bootVars, readVars>>

\* It meets Subscribe there.
TakeEntry ==
  /\ at = "ready" /\ boot = "done" /\ feed # <<>>
  /\ entry' = Head(feed)
  /\ feed' = Tail(feed)
  /\ at' = "write"
  /\ UNCHANGED <<store, timers, rows, registered, ending, skipped, callVars, bootVars, readVars>>

HandleDelete ==
  /\ at = "write" /\ entry.type = "delete"
  /\ store' = store \ {entry.ad}
  /\ at' = "ready" /\ entry' = NoEntry
  /\ UNCHANGED <<timers, callVars, logVars, bootVars, readVars>>

\* Faulty form of HandleCreate: an ad that has not started gets no timer.
DropUnstarted ==
  /\ at = "write" /\ entry.type = "create"
  /\ store' \in {store, store \cup {entry.ad}}
  /\ at' = "exists"
  /\ UNCHANGED <<entry, timers, callVars, logVars, bootVars, readVars>>

\* An ad that has started is stored; another one gets a timer, and its creator is
\* answered all the same.  An ad whose deletion is published has started.
HandleCreate ==
  /\ at = "write" /\ entry.type = "create"
  /\ \/ store' = store \cup {entry.ad} /\ UNCHANGED timers
     \/ entry.ad \notin ending /\ timers' = timers \cup {entry.ad} /\ UNCHANGED store
  /\ at' = "exists"
  /\ UNCHANGED <<entry, callVars, logVars, bootVars, readVars>>

\* The timer's goroutine stores the ad.
FireTimer(c) ==
  /\ c \in timers
  /\ timers' = timers \ {c}
  /\ store' = store \cup {c}
  /\ UNCHANGED <<at, entry, callVars, logVars, bootVars, readVars>>

\* Faulty form of CheckCreator: the channel is loaded without a look at Exists.
LoadUnchecked ==
  /\ at = "exists"
  /\ at' = "load"
  /\ UNCHANGED <<entry, store, timers, callVars, logVars, bootVars, readVars>>

\* ResponseChan.Exists: another instance's ad, or a caller that is gone, has no
\* channel here.
CheckCreator ==
  /\ at = "exists"
  /\ IF channel[entry.ad] # "none"
     THEN at' = "load" /\ UNCHANGED entry
     ELSE at' = "ready" /\ entry' = NoEntry
  /\ UNCHANGED <<store, timers, callVars, logVars, bootVars, readVars>>

\* Faulty form of AnswerCreator: the channel has no buffer, so the send waits for
\* its receiver.
AnswerReceiver ==
  /\ at = "load"
  /\ caller[entry.ad] = "await"
  /\ at' = "ready" /\ entry' = NoEntry
  /\ channel' = [channel EXCEPT ![entry.ad] = "full"]
  /\ UNCHANGED <<caller, store, timers, logVars, bootVars, readVars>>

\* ResponseChan.Load and the send: on the nil that Load returns for a missing
\* key a send blocks for ever.
AnswerCreator ==
  /\ at = "load"
  /\ IF channel[entry.ad] = "none"
     THEN at' = "blocked" /\ UNCHANGED <<entry, channel>>
     ELSE /\ at' = "ready" /\ entry' = NoEntry
          /\ channel' = [channel EXCEPT ![entry.ad] = "full"]
  /\ UNCHANGED <<caller, store, timers, logVars, bootVars, readVars>>

\* The read's own goroutine, handleGetAdRequest.
Read(r) ==
  /\ get[r] = "read"
  /\ result' = [result EXCEPT ![r] = store]
  /\ get' = [get EXCEPT ![r] = "exists"]
  /\ UNCHANGED <<seen, callVars, logVars, bootVars, loopVars>>

CheckReader(r) ==
  /\ get[r] = "exists"
  /\ get' = [get EXCEPT ![r] = IF channel[r] # "none" THEN "load" ELSE "gone"]
  /\ UNCHANGED <<result, seen, callVars, logVars, bootVars, loopVars>>

AnswerReader(r) ==
  /\ get[r] = "load"
  /\ IF channel[r] = "none"
     THEN get' = [get EXCEPT ![r] = "blocked"] /\ UNCHANGED channel
     ELSE /\ get' = [get EXCEPT ![r] = "gone"]
          /\ channel' = [channel EXCEPT ![r] = "full"]
  /\ UNCHANGED <<caller, result, seen, logVars, bootVars, loopVars>>

BatchStep == TakeBatch \/ (\E c \in Creators : LoadAd(c)) \/ FinishBatch

DispatcherStep ==
  \/ BatchStep \/ TakeEntry \/ HandleDelete \/ HandleCreate \/ CheckCreator \/ AnswerCreator

GetStep(r) == Read(r) \/ CheckReader(r) \/ AnswerReader(r)

CreatorStep(c) ==
  \/ StoreAndPublish(c) \/ PublishFails(c)
  \/ Register(c) \/ RegisterFails(c)

Next ==
  \/ \E c \in Creators : CallCreateAd(c) \/ CreatorStep(c) \/ PublishDelete(c) \/ FireTimer(c)
  \/ \E r \in Readers : CallGetAds(r) \/ TakeGet(r) \/ GetStep(r)
  \/ \E x \in Callers : Receive(x) \/ TimeOut(x)
  \/ Snapshot \/ DispatcherStep

Spec == Init /\ [][Next]_vars

\* Go schedules every goroutine that can run, and a timer of a waiting select
\* fires.  RequestChan queues its blocked senders, so none waits for ever while
\* the dispatcher receives.
FairSpec ==
  /\ Spec
  /\ WF_vars(Snapshot) /\ WF_vars(DispatcherStep)
  /\ \A r \in Readers : WF_vars(TakeGet(r)) /\ WF_vars(GetStep(r))
  /\ \A c \in Creators : WF_vars(CreatorStep(c))
  /\ \A x \in Callers : WF_vars(TimeOut(x))

-----------------------------------------------------------------------------
\* Properties.

\* A caller that waits on an empty channel has its answer on the way: its read's
\* goroutine, the dispatcher or the stream holds its request, since the channel
\* is in ResponseChan before anybody can look for it.  The exception is a creator
\* whose entry came before the snapshot of Restore: Subscribe starts behind the
\* entry, the batch names no request, and CreateAd waits in vain for its timeout.
AnswerOnItsWay ==
  \A x \in Callers : caller[x] = "await" /\ channel[x] # "full" =>
    \/ x \in skipped
    \/ x \in Readers /\ get[x] \in {"read", "exists", "load"}
    \/ at \in {"write", "exists", "load"} /\ entry = [type |-> "create", ad |-> x]
    \/ \E k \in DOMAIN feed : feed[k] = [type |-> "create", ad |-> x]

\* A read finds every ad whose creator had its answer from this instance when the
\* read was called, unless the ad had to start yet (a timer had it) or its
\* deletion is published.
ReadYourWrites ==
  \A r \in Readers : get[r] \notin {"none", "read"} => seen[r] \subseteq result[r] \cup ending

\* An ad whose deletion is published is served only while the dispatcher has the
\* deletion to apply: the entries stay in their order from XADD over XREAD and
\* RequestChan to the handlers, so no creation comes after it, and the batch of
\* Restore is loaded before any of them.
DeletionOnItsWay ==
  \A c \in ending : c \in store => Pending([type |-> "delete", ad |-> c])

AboutToAnswer(c) == channel[c] = "empty" /\ at \in {"exists", "load"} /\ entry.ad = c

\* To whom looks from outside, Restore serves its snapshot at once, and the loop
\* applies an entry and answers its creator at once, when HandleCreate has stored
\* or scheduled the ad: a creator with a channel is then as good as answered,
\* though Exists, Load and the send are yet to come.
Implemented == INSTANCE AdInstance WITH
  booted <- (boot # "new"),
  unread <- (IF at = "write" THEN <<entry>> ELSE <<>>) \o feed,
  store <- store \cup batch,
  scheduled <- timers,
  outcome <- [c \in Creators |-> IF caller[c] = "idle" THEN "none"
                                 ELSE IF caller[c] \in Returned THEN caller[c] ELSE "waiting"],
  answered <- {c \in Creators : channel[c] = "full" \/ AboutToAnswer(c)}

ImplementsAdInstance == Implemented!Spec

\* Every call returns (README.md:119: each instance is a state machine that can
\* handle the CRUD and the range query operation).
EveryCallReturns ==
  \A x \in Callers : caller[x] # "idle" ~> caller[x] \in Returned

\* Nothing but the nil channel of a caller that gave up between Exists and Load
\* keeps a call from returning ...
CallsReturnOrBlock ==
  \A x \in Callers : caller[x] # "idle" ~> caller[x] \in Returned \/ at = "blocked"

\* ... or an ad from being dropped when the stream deletes it.
DeletionsApplyOrBlock ==
  \A c \in Creators : c \in ending ~> c \notin store \/ at = "blocked"
=============================================================================
