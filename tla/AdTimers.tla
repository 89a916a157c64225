------------------------------ MODULE AdTimers ------------------------------
(***************************************************************************)
(* How one instance lets ads start.  An ad whose StartAt has passed goes   *)
(* into the store at once; for any other the dispatcher sets a timer       *)
(* (time.AfterFunc) whose function stores the ad later, in a goroutine of  *)
(* its own.  The timers of a restored snapshot are set in a loop whose     *)
(* variable is one for all iterations (go.mod: go 1.21), so each function  *)
(* stores the ad that the variable holds when the timer fires.             *)
(*                                                                         *)
(* Time is counted in units longer than the delay of a timer, the same for *)
(* every instance.  The stream keeps every entry, and carries only the     *)
(* first deletion of an ad.                                                *)
(***************************************************************************)
EXTENDS Integers, Sequences, FiniteSets, Functions

CONSTANTS
  Ads,
  StartAt, EndAt,    \* the period of each ad
  MaxTime,           \* a bound of the model
  RestoreScheduled   \* whether a snapshot may hold ads that have not started

ASSUME PeriodAssumption ==
  /\ StartAt \in [Ads -> Nat] /\ EndAt \in [Ads -> Nat]
  /\ \A a \in Ads : StartAt[a] < EndAt[a]   \* model/ad.go:164, gtfield=StartAt
ASSUME BoundAssumption == MaxTime \in Nat /\ RestoreScheduled \in BOOLEAN

VARIABLES
  now,     \* the clock
  life,    \* what is published of each ad: nothing, its creation, its deletion
  running, \* whether the instance has restored
  feed,    \* the entries it has not read since
  timers,  \* its pending timers: when they fire and which ad they store
  index,   \* the ads it serves
  known    \* the keys of the store's map ads

vars == <<now, life, running, feed, timers, index, known>>

Entries == [type : {"create", "delete"}, ad : Ads]

TimersTypeOK ==
  /\ now \in 0..MaxTime
  /\ life \in [Ads -> {"new", "created", "ended"}]
  /\ running \in BOOLEAN
  /\ feed \in Seq(Entries)
  /\ timers \subseteq [at : Nat, ad : Ads]
  /\ index \subseteq Ads
  /\ known \subseteq Ads

Init ==
  /\ now = 0
  /\ life = [a \in Ads |-> "new"]
  /\ running = FALSE
  /\ feed = <<>>
  /\ timers = {}
  /\ index = {}
  /\ known = {}

-----------------------------------------------------------------------------
\* The rest of the system.

\* Time passes when every timer that is due has fired.
Tick ==
  /\ now < MaxTime
  /\ \A t \in timers : t.at > now
  /\ now' = now + 1
  /\ UNCHANGED <<life, running, feed, timers, index, known>>

Send(type, a) ==
  feed' = IF running THEN Append(feed, [type |-> type, ad |-> a]) ELSE feed

PublishCreate(a) ==
  /\ life[a] = "new"
  /\ life' = [life EXCEPT ![a] = "created"]
  /\ Send("create", a)
  /\ UNCHANGED <<now, running, timers, index, known>>

\* asynq runs the delete task at EndAt or later.
PublishDelete(a) ==
  /\ life[a] = "created"
  /\ now >= EndAt[a]
  /\ life' = [life EXCEPT ![a] = "ended"]
  /\ Send("delete", a)
  /\ UNCHANGED <<now, running, timers, index, known>>

-----------------------------------------------------------------------------
\* time.Now().After(ad.StartAt)
Started(a) == now > StartAt[a]

\* Faulty forms of CreateAd and of its timer: StartAt is not looked at, ...
CreateAtOnce(a) ==
  /\ index' = index \cup {a} /\ known' = known \cup {a}
  /\ UNCHANGED timers

\* ... an ad that starts right now is forgotten, ...
CreateOrForget(a) ==
  /\ IF Started(a)
     THEN index' = index \cup {a} /\ known' = known \cup {a}
     ELSE UNCHANGED <<index, known>>
  /\ timers' = IF now < StartAt[a] THEN timers \cup {[at |-> StartAt[a], ad |-> a]} ELSE timers

\* ... or the difference of the times is the wrong way round.
CreateSince(a) ==
  IF Started(a)
  THEN index' = index \cup {a} /\ known' = known \cup {a} /\ UNCHANGED timers
  ELSE timers' = timers \cup {[at |-> now - StartAt[a], ad |-> a]} /\ UNCHANGED <<index, known>>

\* handleCreateAdRequest stores the ad or sets its timer.
CreateAd(a) ==
  IF Started(a)
  THEN index' = index \cup {a} /\ known' = known \cup {a} /\ UNCHANGED timers
  ELSE timers' = timers \cup {[at |-> StartAt[a], ad |-> a]} /\ UNCHANGED <<index, known>>

ReceiveCreate ==
  /\ feed # <<>> /\ Head(feed).type = "create"
  /\ CreateAd(Head(feed).ad)
  /\ feed' = Tail(feed)
  /\ UNCHANGED <<now, life, running>>

\* The ads of a snapshot's rows, which come in any order.
Snapshot == {a \in Ads : life[a] = "created"}
Scheduled == {a \in Snapshot : ~Started(a)}

\* Faulty form of Restore: the store's map is forgotten.
RestoreIndexOnly ==
  /\ ~running
  /\ running' = TRUE
  /\ RestoreScheduled \/ Scheduled = {}
  /\ index' = Snapshot \ Scheduled
  /\ UNCHANGED <<now, life, feed, timers, known>>

\* handleCreateBatchAdRequest: started ads are stored, and the timers of all
\* others share the loop's variable, which moves through the batch and stays on
\* its last ad.  A timer that is due at once may read it anywhere between its own
\* ad and the last one, a later timer reads the last one.
Restore ==
  /\ ~running
  /\ running' = TRUE
  /\ RestoreScheduled \/ Scheduled = {}
  /\ \E rank \in Bijection(Snapshot, 1 .. Cardinality(Snapshot)), seen \in [Scheduled -> Snapshot] :
       /\ \A a \in Scheduled : rank[seen[a]] >= rank[a]
       /\ \A a \in Scheduled : StartAt[a] > now => rank[seen[a]] = Cardinality(Snapshot)
       /\ timers' = {[at |-> StartAt[a], ad |-> seen[a]] : a \in Scheduled}
  /\ index' = Snapshot \ Scheduled
  /\ known' = Snapshot \ Scheduled
  /\ UNCHANGED <<now, life, feed>>

\* Faulty form of Fire: the timer fires again and again.
FireAgain(t) ==
  /\ t.at <= now
  /\ index' = index \cup {t.ad}
  /\ known' = known \cup {t.ad}
  /\ timers' = (timers \ {t}) \cup {[t EXCEPT !.at = now + 1]}
  /\ UNCHANGED <<now, life, running, feed>>

\* The timer's function stores the ad.
Fire(t) ==
  /\ t.at <= now
  /\ index' = index \cup {t.ad}
  /\ known' = known \cup {t.ad}
  /\ timers' = timers \ {t}
  /\ UNCHANGED <<now, life, running, feed>>

\* The process ends, with its memory.
End ==
  /\ running' = FALSE
  /\ feed' = <<>>
  /\ timers' = {} /\ index' = {} /\ known' = {}

\* The dispatcher deletes an ad that the map knows; the panic over any other ad
\* ends the process.
ReceiveDelete ==
  /\ feed # <<>> /\ Head(feed).type = "delete"
  /\ IF Head(feed).ad \in known
     THEN /\ index' = index \ {Head(feed).ad}
          /\ feed' = Tail(feed)
          /\ UNCHANGED <<running, timers, known>>
     ELSE End
  /\ UNCHANGED <<now, life>>

Stop ==
  /\ running
  /\ End
  /\ UNCHANGED <<now, life>>

Next ==
  \/ \E a \in Ads : PublishCreate(a) \/ PublishDelete(a)
  \/ Restore
  \/ ReceiveCreate
  \/ \E t \in timers : Fire(t)
  \/ ReceiveDelete
  \/ Stop
  \/ Tick

Spec == Init /\ [][Next]_vars

-----------------------------------------------------------------------------
\* Properties.

Pending(type, a) == \E k \in DOMAIN feed : feed[k] = [type |-> type, ad |-> a]

\* No ad is served before it starts (model/ad.go:108: StartAt < Now() < EndAt).
NeverEarly == \A a \in index : StartAt[a] <= now

\* An ad that the instance dropped does not come back when a timer fires.
NeverBack == [][\A a \in known \ index : a \notin index']_vars

\* An instance serves every ad that has started and that the entries and the
\* snapshot it has read create and do not delete (README.md:129: the state
\* machine can be recovered from the snapshot).
StartedIsServed ==
  running => \A a \in Ads :
    /\ Started(a)
    /\ life[a] # "new" /\ ~Pending("create", a)
    /\ life[a] = "created" \/ Pending("delete", a)
    => a \in index

\* The deletion that the dispatcher handles next is of an ad that the map knows:
\* the ad's timer has fired.
DeletesAreKnown ==
  feed # <<>> /\ Head(feed).type = "delete" => Head(feed).ad \in known
=============================================================================
