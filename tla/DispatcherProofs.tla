-------------------------- MODULE DispatcherProofs --------------------------
(***************************************************************************)
(* Theorems about Dispatcher for any sets of callers.  Inv follows a       *)
(* request from the caller's channel over the stream or the read's         *)
(* goroutine to its answer, and an ad from its entry into the store or to  *)
(* its timer; OrderInv follows a deletion behind its creation, past the    *)
(* table's rows and the batch of Restore.  With them the loop and its      *)
(* channels are shown to implement AdInstance.                             *)
(***************************************************************************)
EXTENDS Dispatcher, SequenceTheorems, TLAPS

Holds(s, e) == \E k \in DOMAIN s : s[k] = e

\* The dispatcher holds an entry as long as it handles one, and after a create
\* has stored its ad it looks for the creator.
EntryInHand ==
  /\ at \in {"write", "exists", "load", "blocked"} => entry \in Entries
  /\ at \in {"exists", "load", "blocked"} => entry.type = "create"

\* Before the snapshot there is nothing to apply, and the batch is in the store
\* before the first entry is.
BootOK ==
  /\ boot = "new" => feed = <<>> /\ store = {} /\ timers = {}
  /\ boot # "sent" => batch = {}
  /\ at = "batch" => boot = "sent"
  /\ at \in {"write", "exists", "load", "blocked"} => boot = "done"

\* A call that has not returned has its channel in ResponseChan.
CallHasChannel ==
  \A x \in Callers : caller[x] \in {"publish", "register", "send", "await"} => channel[x] # "none"

\* A read has no goroutine before the dispatcher takes it.
UntakenIsIdle == \A r \in Readers : caller[r] \in {"idle", "send"} => get[r] = "none"

\* The two ways to an answer.
CreatesOnTheirWay ==
  \A c \in Creators : caller[c] \in {"register", "await"} /\ channel[c] # "full" =>
    \/ c \in skipped
    \/ at \in {"write", "exists", "load"} /\ entry = [type |-> "create", ad |-> c]
    \/ Holds(feed, [type |-> "create", ad |-> c])

ReadsOnTheirWay ==
  \A r \in Readers : caller[r] = "await" /\ channel[r] # "full" =>
    get[r] \in {"read", "exists", "load"}

\* A deletion in the stream or in hand is one that was published.
DeletesArePublished ==
  /\ \A c \in Creators : Holds(feed, [type |-> "delete", ad |-> c]) => c \in ending
  /\ at = "write" /\ entry.type = "delete" => entry.ad \in ending

\* Whose creator is or will be answered is served or has a timer, until its
\* deletion is published.
Lasts(c) == c \in store \cup ending \cup timers

AnsweredLasts ==
  /\ at \in {"exists", "load", "blocked"} => Lasts(entry.ad)
  /\ \A c \in Creators : channel[c] = "full" \/ caller[c] = "ok" => Lasts(c)

SeenLasts ==
  \A r \in Readers : get[r] \in {"none", "read"} => seen[r] \subseteq store \cup ending

Inv ==
  /\ DispatcherTypeOK
  /\ EntryInHand /\ BootOK
  /\ CallHasChannel /\ UntakenIsIdle
  /\ CreatesOnTheirWay /\ ReadsOnTheirWay
  /\ DeletesArePublished
  /\ AnsweredLasts /\ SeenLasts
  /\ ReadYourWrites

\* A deletion is published for a creator that is through with its publication, of
\* an ad that no timer holds; a creation that is still to be applied has its ad's
\* deletion behind it.
DeletesComeLate ==
  /\ \A c \in registered : caller[c] \in {"await"} \cup Returned
  /\ ending \subseteq registered
  /\ \A c \in ending : c \notin rows /\ c \notin timers
  /\ \A c \in ending : Pending([type |-> "create", ad |-> c]) => Holds(feed, [type |-> "delete", ad |-> c])
  /\ \A k, l \in DOMAIN feed :
       feed[k].type = "create" /\ feed[l] = [type |-> "delete", ad |-> feed[k].ad] => k < l

\* The batch is as good as stored.
DropsOnTheirWay ==
  \A c \in ending : c \in store \cup batch => Pending([type |-> "delete", ad |-> c])

OrderInv == DeletesComeLate /\ DropsOnTheirWay

-----------------------------------------------------------------------------
LEMMA HoldsAppend ==
  ASSUME NEW S, NEW s \in Seq(S), NEW e \in S
  PROVE  /\ Append(s, e) \in Seq(S)
         /\ \A f : Holds(Append(s, e), f) <=> Holds(s, f) \/ f = e
<1>1. /\ Append(s, e) \in Seq(S) /\ Len(Append(s, e)) = Len(s) + 1
      /\ \A k \in 1..Len(s) : Append(s, e)[k] = s[k]
      /\ Append(s, e)[Len(s) + 1] = e
  BY AppendProperties
<1>2. DOMAIN s = 1..Len(s) /\ DOMAIN Append(s, e) = 1..(Len(s) + 1) /\ Len(s) \in Nat
  BY <1>1
<1>3. DOMAIN Append(s, e) = DOMAIN s \cup {Len(s) + 1}
  BY <1>2
<1>4. QED
  BY <1>1, <1>2, <1>3 DEF Holds

LEMMA HoldsTail ==
  ASSUME NEW S, NEW s \in Seq(S), s # <<>>
  PROVE  /\ Head(s) \in S /\ Tail(s) \in Seq(S)
         /\ \A f : Holds(s, f) <=> f = Head(s) \/ Holds(Tail(s), f)
<1>1. /\ Head(s) \in S /\ Tail(s) \in Seq(S) /\ Len(Tail(s)) = Len(s) - 1
      /\ \A k \in 1..Len(Tail(s)) : Tail(s)[k] = s[k + 1]
  BY HeadTailProperties
<1>2. Head(s) = s[1] /\ Len(s) \in Nat \ {0}
  OBVIOUS
<1>3. DOMAIN s = 1..Len(s) /\ DOMAIN Tail(s) = 1..(Len(s) - 1)
  BY <1>1
<1>4. ASSUME NEW f, Holds(s, f) PROVE f = Head(s) \/ Holds(Tail(s), f)
  <2>1. PICK k \in 1..Len(s) : s[k] = f
    BY <1>3, <1>4 DEF Holds
  <2>2. CASE k = 1
    BY <1>2, <2>1, <2>2
  <2>3. CASE k # 1
    <3>1. k - 1 \in 1..(Len(s) - 1) /\ Tail(s)[k - 1] = s[k]
      BY <1>1, <1>2, <2>1, <2>3
    <3>2. QED
      BY <1>3, <2>1, <3>1 DEF Holds
  <2>4. QED
    BY <2>2, <2>3
<1>5. ASSUME NEW f, f = Head(s) \/ Holds(Tail(s), f) PROVE Holds(s, f)
  <2>1. CASE f = Head(s)
    BY <1>2, <1>3, <2>1 DEF Holds
  <2>2. CASE Holds(Tail(s), f)
    <3>1. PICK k \in 1..(Len(s) - 1) : Tail(s)[k] = f
      BY <1>3, <2>2 DEF Holds
    <3>2. k + 1 \in 1..Len(s) /\ s[k + 1] = f
      BY <1>1, <1>2, <3>1
    <3>3. QED
      BY <1>3, <3>2 DEF Holds
  <2>3. QED
    BY <1>5, <2>1, <2>2
<1>6. QED
  BY <1>1, <1>4, <1>5

-----------------------------------------------------------------------------
LEMMA EntriesOf == \A t \in {"create", "delete"}, c \in Creators : [type |-> t, ad |-> c] \in Entries
  BY DEF Entries

\* What XADD makes of the entries that Subscribe has to read.
LEMMA FeedGrows ==
  ASSUME Inv, NEW t \in {"create", "delete"}, NEW c \in Creators, XAdd(t, c)
  PROVE  /\ feed' \in Seq(Entries)
         /\ boot = "new" => feed' = feed
         /\ boot # "new" => feed' = Append(feed, [type |-> t, ad |-> c])
         /\ \A f : Holds(feed', f) <=> Holds(feed, f) \/ (boot # "new" /\ f = [type |-> t, ad |-> c])
<1>1. CASE boot = "new"
  BY <1>1 DEF XAdd, Inv, DispatcherTypeOK, Holds
<1>2. CASE boot # "new"
  BY <1>2, HoldsAppend, EntriesOf DEF XAdd, Inv, DispatcherTypeOK
<1>3. QED
  BY <1>1, <1>2

LEMMA FeedTail ==
  ASSUME Inv, feed # <<>>
  PROVE  /\ Head(feed) \in Entries /\ Tail(feed) \in Seq(Entries)
         /\ \A f : Holds(feed, f) <=> f = Head(feed) \/ Holds(Tail(feed), f)
  BY HoldsTail DEF Inv, DispatcherTypeOK

LEMMA InitInv == Init => Inv
<1>1. SUFFICES ASSUME Init PROVE Inv
  OBVIOUS
<1>2. \A f : ~Holds(feed, f)
  BY <1>1 DEF Init, Holds
<1>3. DispatcherTypeOK
  BY <1>1 DEF Init, DispatcherTypeOK
<1>4. QED
  BY <1>1, <1>2, <1>3
  DEF Init, Inv, Callers, EntryInHand, BootOK, CallHasChannel, UntakenIsIdle, CreatesOnTheirWay, ReadsOnTheirWay,
      DeletesArePublished, AnsweredLasts, SeenLasts, ReadYourWrites

LEMMA InvStep == Inv /\ [Next]_vars => Inv'
<1>1. SUFFICES ASSUME Inv, [Next]_vars PROVE Inv'
  OBVIOUS
<1> USE <1>1, CallersAssumption
    DEF Inv, DispatcherTypeOK, EntryInHand, BootOK, CallHasChannel, UntakenIsIdle, CreatesOnTheirWay, ReadsOnTheirWay,
        DeletesArePublished, AnsweredLasts, SeenLasts, ReadYourWrites, Lasts, Callers, Entries,
        Returned, Goto, Return, callVars, logVars, bootVars, loopVars, readVars
<1>2. ASSUME NEW c \in Creators, CallCreateAd(c) PROVE Inv'
  BY <1>2 DEF CallCreateAd
<1>3. ASSUME NEW c \in Creators, StoreAndPublish(c) PROVE Inv'
  <2>1. /\ feed' \in Seq(Entries) /\ (boot = "new" => feed' = feed)
        /\ \A f : Holds(feed', f) <=> Holds(feed, f) \/ (boot # "new" /\ f = [type |-> "create", ad |-> c])
    BY <1>3, FeedGrows DEF StoreAndPublish
  <2>2. DispatcherTypeOK' /\ BootOK'
    BY <1>3, <2>1 DEF StoreAndPublish
  <2>3. CreatesOnTheirWay'
    BY <1>3, <2>1 DEF StoreAndPublish
  <2>4. QED
    BY <1>3, <2>1, <2>2, <2>3 DEF StoreAndPublish
<1>4. ASSUME NEW c \in Creators, PublishFails(c) PROVE Inv'
  <2>1. /\ feed' \in Seq(Entries) /\ (boot = "new" => feed' = feed)
        /\ \A f : /\ Holds(feed, f) => Holds(feed', f)
                  /\ Holds(feed', f) => Holds(feed, f) \/ f = [type |-> "create", ad |-> c]
    BY <1>4, FeedGrows DEF PublishFails, Holds
  <2>2. DispatcherTypeOK' /\ BootOK'
    BY <1>4, <2>1 DEF PublishFails
  <2>3. QED
    BY <1>4, <2>1, <2>2 DEF PublishFails
<1>5. ASSUME NEW c \in Creators, Register(c) PROVE Inv'
  BY <1>5 DEF Register
<1>6. ASSUME NEW c \in Creators, RegisterFails(c) PROVE Inv'
  BY <1>6 DEF RegisterFails
<1>7. ASSUME NEW c \in Creators, PublishDelete(c) PROVE Inv'
  <2>1. /\ feed' \in Seq(Entries) /\ (boot = "new" => feed' = feed)
        /\ \A f : Holds(feed', f) <=> Holds(feed, f) \/ (boot # "new" /\ f = [type |-> "delete", ad |-> c])
    BY <1>7, FeedGrows DEF PublishDelete
  <2>2. DispatcherTypeOK' /\ BootOK'
    BY <1>7, <2>1 DEF PublishDelete
  <2>3. QED
    BY <1>7, <2>1, <2>2 DEF PublishDelete
<1>8. ASSUME NEW r \in Readers, CallGetAds(r) PROVE Inv'
  BY <1>8 DEF CallGetAds
<1>9. ASSUME NEW x \in Callers, Receive(x) PROVE Inv'
  BY <1>9 DEF Receive
<1>10. ASSUME NEW x \in Callers, TimeOut(x) PROVE Inv'
  BY <1>10 DEF TimeOut
<1>11. ASSUME NEW r \in Readers, TakeGet(r) PROVE Inv'
  BY <1>11 DEF TakeGet
<1>12. CASE TakeEntry
  <2>1. feed' \in Seq(Entries) /\ entry' \in Entries
    BY <1>12, FeedTail DEF TakeEntry
  <2>2. \A f : Holds(feed, f) <=> f = entry' \/ Holds(feed', f)
    BY <1>12, FeedTail DEF TakeEntry
  <2>3. QED
    BY <1>12, <2>1, <2>2 DEF TakeEntry
<1>13. CASE HandleDelete
  BY <1>13 DEF HandleDelete
<1>14. CASE HandleCreate
  BY <1>14 DEF HandleCreate
<1>15. CASE CheckCreator
  BY <1>15 DEF CheckCreator
<1>16. CASE AnswerCreator
  BY <1>16 DEF AnswerCreator
<1>17. ASSUME NEW r \in Readers, Read(r) PROVE Inv'
  BY <1>17 DEF Read
<1>18. ASSUME NEW r \in Readers, CheckReader(r) PROVE Inv'
  BY <1>18 DEF CheckReader
<1>19. ASSUME NEW r \in Readers, AnswerReader(r) PROVE Inv'
  BY <1>19 DEF AnswerReader
<1>20. CASE UNCHANGED vars
  BY <1>20 DEF vars
<1>21. CASE Snapshot \/ TakeBatch \/ FinishBatch
  BY <1>21 DEF Snapshot, TakeBatch, FinishBatch
<1>22. ASSUME NEW c \in Creators, LoadAd(c) \/ FireTimer(c) PROVE Inv'
  BY <1>22 DEF LoadAd, FireTimer
<1>23. QED
  BY <1>2, <1>3, <1>4, <1>5, <1>6, <1>7, <1>8, <1>9, <1>10, <1>11, <1>12, <1>13, <1>14, <1>15,
     <1>16, <1>17, <1>18, <1>19, <1>20, <1>21, <1>22 DEF Next, DispatcherStep, BatchStep, GetStep, CreatorStep

\* Steps that neither publish nor apply an entry, and serve nothing that is ending.
LEMMA SameOrder ==
  ASSUME OrderInv, UNCHANGED <<feed, ending>>, ending \subseteq Creators, registered \subseteq registered',
         \A e \in Entries : Pending(e)' <=> Pending(e),
         \A c \in registered' : caller'[c] \in {"await"} \cup Returned,
         \A c \in ending : /\ c \in rows' => c \in rows
                           /\ c \in timers' => c \in timers
                           /\ c \in store' \cup batch' => c \in store \cup batch
  PROVE  OrderInv'
BY EntriesOf DEF OrderInv, DeletesComeLate, DropsOnTheirWay, Holds

LEMMA OrderStep == Inv /\ OrderInv /\ [Next]_vars => OrderInv'
<1> SUFFICES ASSUME Inv, OrderInv, [Next]_vars PROVE OrderInv'
  OBVIOUS
<1> DEFINE create(c) == [type |-> "create", ad |-> c]
           delete(c) == [type |-> "delete", ad |-> c]
<1>1. /\ feed \in Seq(Entries) /\ DOMAIN feed = 1 .. Len(feed) /\ Len(feed) \in Nat
      /\ ending \subseteq Creators /\ registered \subseteq Creators
      /\ caller \in [Callers -> {"idle", "send", "publish", "register", "await"} \cup Returned]
      /\ \A c \in Creators : Holds(feed, delete(c)) => c \in ending
  BY DEF Inv, DispatcherTypeOK, DeletesArePublished
<1>2. \A e : Pending(e) <=> (at = "write" /\ entry = e) \/ Holds(feed, e)
  BY DEF Pending, Holds
<1>3. \A e : Pending(e)' <=> (at' = "write" /\ entry' = e) \/ Holds(feed', e)
  BY DEF Pending, Holds
<1>4. \A k, l \in DOMAIN feed : feed[k].type = "create" /\ feed[l] = delete(feed[k].ad) => k < l
  BY DEF OrderInv, DeletesComeLate
<1>5. /\ \A c \in registered : caller[c] \in {"await"} \cup Returned
      /\ \A c \in ending : c \in registered /\ c \notin rows /\ c \notin timers
  BY DEF OrderInv, DeletesComeLate
\* An entry is published.
<1>6. ASSUME NEW c \in Creators, StoreAndPublish(c) \/ PublishFails(c), rows' = rows \cup {c},
             feed' = Append(feed, create(c))
      PROVE  OrderInv'
  <2>1. /\ caller[c] = "publish" /\ rows' = rows \cup {c}
        /\ UNCHANGED <<registered, ending, at, entry, store, batch, timers>>
        /\ \A d \in Callers \ {c} : caller'[d] = caller[d]
    BY <1>1, <1>6 DEF StoreAndPublish, PublishFails, Return, Goto, bootVars, loopVars
  <2>2. c \notin registered /\ c \notin ending /\ ~Holds(feed, delete(c))
    BY <1>1, <1>5, <2>1 DEF Returned
  <2>3. /\ \A f : Holds(feed', f) <=> Holds(feed, f) \/ f = create(c)
        /\ DOMAIN feed' = 1 .. Len(feed) + 1 /\ feed'[Len(feed) + 1] = create(c)
        /\ \A k \in 1 .. Len(feed) : feed'[k] = feed[k]
    BY <1>1, <1>6, HoldsAppend, AppendProperties, EntriesOf
  <2>4. \A k, l \in DOMAIN feed' : feed'[k].type = "create" /\ feed'[l] = delete(feed'[k].ad) => k < l
    <3>1. SUFFICES ASSUME NEW k \in DOMAIN feed', NEW l \in DOMAIN feed',
                          feed'[k].type = "create", feed'[l] = delete(feed'[k].ad)
                   PROVE  k < l
      OBVIOUS
    <3>2. l \in 1 .. Len(feed)
      BY <1>1, <2>3, <3>1
    <3>3. k \in 1 .. Len(feed)
      BY <1>1, <2>2, <2>3, <3>1, <3>2 DEF Holds
    <3>4. QED
      BY <1>1, <1>4, <2>3, <3>1, <3>2, <3>3
  <2>5. \A d \in registered' : caller'[d] \in {"await"} \cup Returned
    BY <1>1, <1>5, <2>1, <2>2 DEF Callers
  <2>6. QED
    BY <1>1, <1>2, <1>3, <1>5, <2>1, <2>2, <2>3, <2>4, <2>5 DEF OrderInv, DeletesComeLate, DropsOnTheirWay
<1>7. ASSUME NEW c \in Creators, PublishDelete(c) PROVE OrderInv'
  <2>1. /\ c \in registered /\ c \notin ending /\ c \notin timers /\ ending' = ending \cup {c} /\ rows' = rows \ {c}
        /\ XAdd("delete", c) /\ UNCHANGED <<registered, caller, at, entry, store, batch, timers>>
    BY <1>7 DEF PublishDelete, callVars, bootVars, loopVars
  <2>2. CASE boot = "new"
    <3>1. /\ feed' = feed /\ feed = <<>> /\ at # "write" /\ store = {} /\ batch = {}
      BY <2>1, <2>2 DEF XAdd, Inv, BootOK
    <3>2. \A e : ~Pending(e)'
      BY <1>3, <2>1, <3>1 DEF Holds
    <3>3. QED
      BY <1>5, <2>1, <3>1, <3>2 DEF OrderInv, DeletesComeLate, DropsOnTheirWay
  <2>3. CASE boot # "new"
    <3>1. /\ \A f : Holds(feed', f) <=> Holds(feed, f) \/ f = delete(c)
          /\ DOMAIN feed' = 1 .. Len(feed) + 1 /\ feed'[Len(feed) + 1] = delete(c)
          /\ \A k \in 1 .. Len(feed) : feed'[k] = feed[k]
      BY <1>1, <2>1, <2>3, HoldsAppend, AppendProperties, EntriesOf DEF XAdd
    <3>2. \A k, l \in DOMAIN feed' : feed'[k].type = "create" /\ feed'[l] = delete(feed'[k].ad) => k < l
      BY <1>1, <1>4, <3>1
    <3>3. QED
      BY <1>1, <1>2, <1>3, <1>5, <2>1, <3>1, <3>2 DEF OrderInv, DeletesComeLate, DropsOnTheirWay
  <2>4. QED
    BY <2>2, <2>3
\* An entry is taken or applied.
<1>8. CASE TakeEntry
  <2>1. /\ at = "ready" /\ at' = "write" /\ entry' = Head(feed) /\ feed' = Tail(feed) /\ feed # <<>>
        /\ UNCHANGED <<caller, rows, registered, ending, store, batch, timers>>
    BY <1>8 DEF TakeEntry, callVars, bootVars
  <2>2. /\ \A f : Holds(feed, f) <=> f = entry' \/ Holds(feed', f)
        /\ entry' \in Entries /\ entry' = feed[1] /\ 1 \in DOMAIN feed
        /\ DOMAIN feed' = 1 .. Len(feed) - 1 /\ \A k \in 1 .. Len(feed) - 1 : feed'[k] = feed[k + 1]
    BY <1>1, <2>1, FeedTail, HeadTailProperties
  <2>3. \A e : Pending(e)' <=> Pending(e)
    BY <1>2, <1>3, <2>1, <2>2
  <2>4. \A k, l \in DOMAIN feed' : feed'[k].type = "create" /\ feed'[l] = delete(feed'[k].ad) => k < l
    <3>1. SUFFICES ASSUME NEW k \in DOMAIN feed', NEW l \in DOMAIN feed',
                          feed'[k].type = "create", feed'[l] = delete(feed'[k].ad)
                   PROVE  k < l
      OBVIOUS
    <3>2. k + 1 \in DOMAIN feed /\ l + 1 \in DOMAIN feed /\ feed'[k] = feed[k + 1] /\ feed'[l] = feed[l + 1]
      BY <1>1, <2>2
    <3>3. QED
      BY <1>1, <1>4, <2>2, <3>1, <3>2
  <2>5. ASSUME NEW c \in ending, Pending(create(c))' PROVE Holds(feed', delete(c))
    <3>1. Holds(feed, delete(c))
      BY <2>3, <2>5 DEF OrderInv, DeletesComeLate
    <3>2. CASE entry' = delete(c)
      <4>1. Holds(feed', create(c))
        BY <1>3, <2>5, <3>2
      <4>2. PICK k \in DOMAIN feed : k > 1 /\ feed[k] = create(c)
        <5>1. PICK j \in DOMAIN feed' : feed'[j] = create(c)
          BY <4>1 DEF Holds
        <5>2. j + 1 \in DOMAIN feed /\ j + 1 > 1 /\ feed[j + 1] = create(c)
          BY <1>1, <2>2, <5>1
        <5>3. QED
          BY <5>2
      <4>3. feed[k].type = "create" /\ feed[1] = delete(feed[k].ad)
        BY <2>2, <3>2, <4>2
      <4>4. k < 1
        BY <1>4, <2>2, <4>3
      <4>5. QED
        BY <1>1, <4>2, <4>4
    <3>3. QED
      BY <2>2, <3>1, <3>2
  <2>6. QED
    BY <2>1, <2>3, <2>4, <2>5 DEF OrderInv, DeletesComeLate, DropsOnTheirWay
<1>9. CASE HandleDelete
  <2>1. /\ at = "write" /\ entry.type = "delete" /\ store' = store \ {entry.ad} /\ at' = "ready"
        /\ UNCHANGED <<caller, rows, registered, feed, ending, batch, timers>> /\ entry \in Entries /\ batch = {}
    BY <1>9 DEF HandleDelete, callVars, logVars, bootVars, Inv, EntryInHand, BootOK
  <2>2. entry = delete(entry.ad)
    BY <2>1 DEF Entries
  <2>3. \A e : e # entry => (Pending(e)' <=> Pending(e))
    BY <1>2, <1>3, <2>1
  <2>4. \A c : create(c) # entry /\ (c # entry.ad => delete(c) # entry)
    BY <2>1
  <2>5. QED
    BY <2>1, <2>3, <2>4 DEF OrderInv, DeletesComeLate, DropsOnTheirWay, Holds
<1>10. CASE HandleCreate
  <2>1. /\ at = "write" /\ entry.type = "create" /\ at' = "exists"
        /\ UNCHANGED <<caller, rows, registered, feed, ending, batch, entry>> /\ entry \in Entries
    BY <1>10 DEF HandleCreate, callVars, logVars, bootVars, Inv, EntryInHand
  <2>2. entry = create(entry.ad) /\ Pending(entry)
    BY <1>2, <2>1 DEF Entries
  <2>3. \A e : /\ Pending(e)' => Pending(e)
               /\ Pending(e) => Pending(e)' \/ e = entry
    BY <1>2, <1>3, <2>1
  <2>4. \A c : delete(c) # entry
    BY <2>1
  <2>5. entry.ad \in ending => Pending(delete(entry.ad))'
    BY <1>3, <2>1, <2>2 DEF OrderInv, DeletesComeLate
  <2>6. /\ \A c \in store' : c \in store \/ c = entry.ad
        /\ \A c \in ending : c \notin timers'
    BY <1>5, <1>10 DEF HandleCreate
  <2>7. DropsOnTheirWay'
    BY <2>1, <2>3, <2>4, <2>5, <2>6 DEF OrderInv, DropsOnTheirWay
  <2>8. QED
    BY <2>1, <2>3, <2>6, <2>7 DEF OrderInv, DeletesComeLate, Holds
\* The others leave the stream and what the loop has of it alone.
<1>11. ASSUME UNCHANGED <<feed, ending, at, entry>>, registered \subseteq registered',
              \A c \in registered' : caller'[c] \in {"await"} \cup Returned,
              \A c \in ending : /\ c \in rows' => c \in rows
                                /\ c \in timers' => c \in timers
                                /\ c \in store' \cup batch' => c \in store \cup batch
       PROVE  OrderInv'
  BY <1>1, <1>2, <1>3, <1>11, SameOrder
<1>12. ASSUME NEW c \in Creators, feed' = feed,
              CallCreateAd(c) \/ Register(c) \/ RegisterFails(c) \/ StoreAndPublish(c) \/ PublishFails(c)
       PROVE  OrderInv'
  <2>1. /\ caller[c] \notin {"await"} \cup Returned /\ \A d \in Callers \ {c} : caller'[d] = caller[d]
        /\ registered' = registered \/ (registered' = registered \cup {c} /\ caller'[c] \in {"await"} \cup Returned)
        /\ rows' \subseteq rows \cup {c} /\ UNCHANGED <<ending, at, entry, store, batch, timers>>
    BY <1>1, <1>12 DEF Returned, CallCreateAd, Register, RegisterFails, StoreAndPublish, PublishFails, Goto,
       Return, logVars, bootVars, loopVars, Callers
  <2>2. c \notin registered /\ c \notin ending
    BY <1>5, <2>1
  <2>3. \A d \in registered' : caller'[d] \in {"await"} \cup Returned
    BY <1>1, <1>5, <2>1, <2>2 DEF Callers
  <2>4. QED
    BY <1>11, <1>12, <2>1, <2>2, <2>3
<1>13. ASSUME UNCHANGED <<feed, rows, registered, ending, at, entry, store, batch, timers>>,
              \A d \in Creators : caller'[d] = caller[d] \/ caller'[d] \in Returned
       PROVE  OrderInv'
  BY <1>1, <1>5, <1>11, <1>13
<1>14. ASSUME NEW r \in Readers, CallGetAds(r) \/ TakeGet(r) \/ GetStep(r) PROVE OrderInv'
  <2>1. \A d \in Creators : caller'[d] = caller[d]
    BY <1>1, <1>14, CallersAssumption DEF Callers, CallGetAds, TakeGet, GetStep, Read, CheckReader, AnswerReader, Goto,
       callVars
  <2>2. UNCHANGED <<feed, rows, registered, ending, at, entry, store, batch, timers>>
    BY <1>14 DEF CallGetAds, TakeGet, GetStep, Read, CheckReader, AnswerReader, logVars, bootVars, loopVars
  <2>3. QED
    BY <1>13, <2>1, <2>2
<1>15. ASSUME NEW x \in Callers, Receive(x) \/ TimeOut(x) PROVE OrderInv'
  <2>1. /\ \A d \in Callers : caller'[d] = caller[d] \/ caller'[d] \in Returned
        /\ UNCHANGED <<feed, rows, registered, ending, at, entry, store, batch, timers>>
    BY <1>1, <1>15 DEF Receive, TimeOut, Return, Goto, Returned, logVars, bootVars, loopVars
  <2>2. QED
    BY <1>13, <2>1 DEF Callers
<1>16. CASE CheckCreator \/ AnswerCreator \/ TakeBatch \/ FinishBatch
  <2>1. /\ at # "write" /\ at' # "write"
        /\ UNCHANGED <<caller, feed, rows, registered, ending, store, batch, timers>>
    BY <1>16 DEF CheckCreator, AnswerCreator, TakeBatch, FinishBatch, callVars, logVars, bootVars
  <2>2. QED
    BY <1>1, <1>2, <1>3, <1>5, <2>1, SameOrder
<1>17. CASE Snapshot
  <2>1. batch' = rows /\ UNCHANGED <<caller, feed, rows, registered, ending, at, entry, store, timers>>
    BY <1>17 DEF Snapshot, callVars, logVars, loopVars
  <2>2. QED
    BY <1>5, <1>11, <2>1
<1>18. ASSUME NEW c \in Creators, LoadAd(c) \/ FireTimer(c) PROVE OrderInv'
  <2>1. /\ c \in batch \cup timers /\ timers' \subseteq timers /\ batch' \subseteq batch /\ store' = store \cup {c}
        /\ UNCHANGED <<caller, feed, rows, registered, ending, at, entry>>
    BY <1>18 DEF LoadAd, FireTimer, callVars, logVars, bootVars
  <2>2. QED
    BY <1>5, <1>11, <2>1
<1>19. CASE UNCHANGED vars
  BY <1>13, <1>19 DEF vars
<1>20. ASSUME NEW c \in Creators, StoreAndPublish(c) \/ PublishFails(c) PROVE OrderInv'
  BY <1>6, <1>12, <1>20 DEF StoreAndPublish, PublishFails, XAdd
<1>21. QED
  BY <1>7, <1>8, <1>9, <1>10, <1>12, <1>14, <1>15, <1>16, <1>17, <1>18, <1>19, <1>20
  DEF Next, CreatorStep, DispatcherStep, BatchStep, CallCreateAd, Register, RegisterFails, logVars

LEMMA Invariance == Spec => []Inv
  BY InitInv, InvStep, PTL DEF Spec

\* Whoever calls, times out or is answered, the dispatcher's loop, the feed and
\* every channel stay in their ranges: a channel holds one answer at most
\* (request_multiplexer.go:79, ad.go:371).
THEOREM TypeCorrect == Spec => []DispatcherTypeOK
  BY Invariance, PTL DEF Inv

\* A caller that waits on an empty channel has its answer on the way, however
\* many callers there are, except a creator whose entry came before the snapshot
\* of Restore: nothing answers it (ad.go:226, ad.go:371, request_multiplexer.go:79).
THEOREM AnswerNotLost == Spec => []AnswerOnItsWay
<1>1. Inv => AnswerOnItsWay
  BY DEF Inv, AnswerOnItsWay, CreatesOnTheirWay, ReadsOnTheirWay, Holds, Callers
<1>2. QED
  BY <1>1, Invariance, PTL

\* A read finds every started ad whose creator had its answer when the read was
\* called, unless its deletion is published (request_multiplexer.go:60-76, 124).
THEOREM ReadsFindWrites == Spec => []ReadYourWrites
  BY Invariance, PTL DEF Inv

\* An ad whose deletion is published is served only while the deletion is in the
\* stream or in the dispatcher's hand: once it is applied the ad does not come back
\* (request_multiplexer.go:100).
THEOREM DroppedByDeletion == Spec => []DeletionOnItsWay
<1>1. Init => OrderInv
  BY DEF Init, OrderInv, DeletesComeLate, DropsOnTheirWay
<1>2. OrderInv => DeletionOnItsWay
  BY DEF OrderInv, DropsOnTheirWay, DeletionOnItsWay
<1>3. QED
  BY <1>1, <1>2, OrderStep, Invariance, PTL DEF Spec

-----------------------------------------------------------------------------
(***************************************************************************)
(* The loop and its channels implement AdInstance: the snapshot serves the *)
(* rows at once, the step that stores or schedules an ad answers its       *)
(* creator, if that has a channel, a timer that fires serves its ad, and   *)
(* every other step of the dispatcher and of a read's goroutine stutters.  *)
(***************************************************************************)

\* A creator's channel is in ResponseChan during its call only, and no entry of
\* its ad is in the stream before.
CallsAreOpen ==
  /\ \A c \in Creators : channel[c] # "none" => caller[c] \in {"publish", "register", "await"}
  /\ \A c \in Creators, type \in {"create", "delete"} :
       Holds(feed, [type |-> type, ad |-> c]) => caller[c] # "idle"
  /\ at \in {"write", "exists", "load", "blocked"} => caller[entry.ad] # "idle"

\* The abstract instance's variables.
Unread == (IF at = "write" THEN <<entry>> ELSE <<>>) \o feed
Outcome == [c \in Creators |-> IF caller[c] = "idle" THEN "none"
                              ELSE IF caller[c] \in Returned THEN caller[c] ELSE "waiting"]
Answers == {c \in Creators : channel[c] = "full" \/ AboutToAnswer(c)}
Booted == boot # "new"
Stored == store \cup batch

LEMMA HeadAndTail ==
  ASSUME NEW S, NEW s \in Seq(S), s # <<>>
  PROVE  <<Head(s)>> \o Tail(s) = s
<1>1. Len(s) \in Nat \ {0} /\ 1 \in 1 .. Len(s) /\ Len(s) \in 1 .. Len(s)
  BY EmptySeq
<1>2. SubSeq(s, 1, Len(s)) = <<s[1]>> \o SubSeq(s, 1 + 1, Len(s))
  BY <1>1, SubSeqRecursiveFirst
<1>3. SubSeq(s, 1, Len(s)) = s /\ Tail(s) = SubSeq(s, 2, Len(s)) /\ Head(s) = s[1]
  BY SubSeqFull, TailIsSubSeq
<1>4. QED
  BY <1>2, <1>3

LEMMA InFront ==
  ASSUME NEW S, NEW s \in Seq(S), NEW e \in S
  PROVE  <<e>> \o s # <<>> /\ Head(<<e>> \o s) = e /\ Tail(<<e>> \o s) = s
<1>1. <<e>> \in Seq(S) /\ Len(<<e>>) = 1 /\ <<e>>[1] = e /\ Len(s) \in Nat
  OBVIOUS
<1> DEFINE t == <<e>> \o s
<1>2. /\ t \in Seq(S) /\ Len(t) = 1 + Len(s)
      /\ \A i \in 1 .. 1 + Len(s) : t[i] = IF i <= 1 THEN <<e>>[i] ELSE s[i - 1]
  BY <1>1, ConcatProperties
<1> HIDE DEF t
<1>3. t # <<>> /\ Head(t) = t[1] /\ t[1] = e
  BY <1>1, <1>2
<1>4. /\ Tail(t) \in Seq(S) /\ Len(Tail(t)) = Len(s)
      /\ \A i \in 1 .. Len(s) : Tail(t)[i] = s[i]
  BY <1>1, <1>2, <1>3, HeadTailProperties
<1>5. Tail(t) = s
  BY <1>4, SeqEqual
<1>6. QED
  BY <1>3, <1>5 DEF t

LEMMA UnreadIs ==
  ASSUME Inv
  PROVE  /\ Unread \in Seq(Entries)
         /\ at # "write" => Unread = feed
         /\ at = "write" => Unread # <<>> /\ Head(Unread) = entry /\ Tail(Unread) = feed
<1>1. feed \in Seq(Entries) /\ (at = "write" => entry \in Entries)
  BY DEF Inv, DispatcherTypeOK, EntryInHand
<1>2. CASE at # "write"
  BY <1>1, <1>2, ConcatEmptySeq DEF Unread
<1>3. CASE at = "write"
  <2>1. Unread = <<entry>> \o feed /\ <<entry>> \in Seq(Entries)
    BY <1>1, <1>3 DEF Unread
  <2>2. QED
    BY <1>1, <1>3, <2>1, InFront, ConcatProperties
<1>4. QED
  BY <1>2, <1>3

LEMMA UnreadGrows ==
  ASSUME Inv, NEW e \in Entries, feed' = Append(feed, e), UNCHANGED <<at, entry>>
  PROVE  Unread' = Append(Unread, e)
<1> DEFINE q == IF at = "write" THEN <<entry>> ELSE <<>>
<1>1. feed \in Seq(Entries) /\ q \in Seq(Entries) /\ <<e>> \in Seq(Entries)
  BY DEF Inv, DispatcherTypeOK, EntryInHand
<1>2. Unread = q \o feed /\ Unread' = q \o Append(feed, e)
  BY DEF Unread
<1> HIDE DEF q
<1>3. Append(feed, e) = feed \o <<e>> /\ q \o (feed \o <<e>>) = (q \o feed) \o <<e>>
  BY <1>1, AppendIsConcat, ConcatAssociative
<1>4. Append(q \o feed, e) = (q \o feed) \o <<e>>
  BY <1>1, ConcatProperties, AppendIsConcat
<1>5. QED
  BY <1>2, <1>3, <1>4

LEMMA UnreadEnters ==
  ASSUME Inv, NEW t \in {"create", "delete"}, NEW c \in Creators, XAdd(t, c), UNCHANGED <<at, entry>>
  PROVE  Unread' = IF boot # "new" THEN Append(Unread, [type |-> t, ad |-> c]) ELSE Unread
<1>1. CASE boot = "new"
  BY <1>1 DEF XAdd, Unread
<1>2. CASE boot # "new"
  BY <1>2, UnreadGrows, EntriesOf DEF XAdd
<1>3. QED
  BY <1>1, <1>2

LEMMA CallsAreOpenStep == Inv /\ OrderInv /\ CallsAreOpen /\ [Next]_vars => CallsAreOpen'
<1> SUFFICES ASSUME Inv, OrderInv, CallsAreOpen, [Next]_vars PROVE CallsAreOpen'
  OBVIOUS
<1>1. /\ \A c \in Creators : c \in Callers
      /\ caller \in [Callers -> {"idle", "send", "publish", "register", "await"} \cup Returned]
      /\ channel \in [Callers -> {"none", "empty", "full"}]
      /\ at \in {"write", "exists", "load", "blocked"} => entry.ad \in Creators
      /\ at \in {"ready", "batch", "write", "exists", "load", "blocked"}
      /\ feed \in Seq(Entries)
  BY DEF Callers, Inv, DispatcherTypeOK, EntryInHand, Entries
<1> USE <1>1, CallersAssumption DEF CallsAreOpen, Goto, Return, Returned, callVars, logVars, bootVars, loopVars, readVars
<1>2. ASSUME NEW c \in Creators, CallCreateAd(c) PROVE CallsAreOpen'
  BY <1>2 DEF CallCreateAd, Holds
<1>3. ASSUME NEW c \in Creators, StoreAndPublish(c) \/ PublishFails(c) PROVE CallsAreOpen'
  <2>1. \A f : Holds(feed', f) => Holds(feed, f) \/ f = [type |-> "create", ad |-> c]
    BY <1>3, FeedGrows DEF StoreAndPublish, PublishFails, Holds
  <2>2. QED
    BY <1>3, <2>1 DEF StoreAndPublish, PublishFails
<1>4. ASSUME NEW c \in Creators, Register(c) \/ RegisterFails(c) PROVE CallsAreOpen'
  BY <1>4 DEF Register, RegisterFails, Holds
<1>5. ASSUME NEW c \in Creators, PublishDelete(c) PROVE CallsAreOpen'
  <2>1. \A f : Holds(feed', f) => Holds(feed, f) \/ f = [type |-> "delete", ad |-> c]
    BY <1>5, FeedGrows DEF PublishDelete
  <2>2. caller[c] # "idle"
    BY <1>5 DEF PublishDelete, OrderInv, DeletesComeLate
  <2>3. QED
    BY <1>5, <2>1, <2>2 DEF PublishDelete
<1>6. ASSUME NEW r \in Readers, CallGetAds(r) PROVE CallsAreOpen'
  BY <1>6 DEF CallGetAds, Holds
<1>7. ASSUME NEW r \in Readers, TakeGet(r) \/ GetStep(r) PROVE CallsAreOpen'
  BY <1>7 DEF TakeGet, GetStep, Read, CheckReader, AnswerReader, Holds
<1>8. ASSUME NEW x \in Callers, Receive(x) \/ TimeOut(x) PROVE CallsAreOpen'
  BY <1>8 DEF Receive, TimeOut, Holds
<1>9. CASE TakeEntry
  <2>1. /\ \A f : Holds(feed, f) <=> f = entry' \/ Holds(feed', f)
        /\ entry' \in Entries
    BY <1>9, FeedTail DEF TakeEntry
  <2>2. caller[entry'.ad] # "idle"
    BY <2>1 DEF Entries
  <2>3. QED
    BY <1>9, <2>1, <2>2 DEF TakeEntry
<1>10. CASE HandleDelete \/ HandleCreate \/ CheckCreator \/ AnswerCreator
  <2>1. /\ feed' = feed /\ caller' = caller /\ at \in {"write", "exists", "load"}
        /\ \A c \in Creators : channel[c] = "none" => channel'[c] = "none"
        /\ at' = "ready" \/ entry' = entry
    BY <1>10 DEF HandleDelete, HandleCreate, CheckCreator, AnswerCreator
  <2>2. QED
    BY <2>1 DEF Holds
<1>11. CASE UNCHANGED vars
  BY <1>11 DEF vars, Holds
<1>12. CASE Snapshot \/ TakeBatch \/ FinishBatch
  BY <1>12 DEF Snapshot, TakeBatch, FinishBatch, Holds
<1>13. ASSUME NEW c \in Creators, LoadAd(c) \/ FireTimer(c) PROVE CallsAreOpen'
  BY <1>13 DEF LoadAd, FireTimer, Holds
<1>14. QED
  BY <1>2, <1>3, <1>4, <1>5, <1>6, <1>7, <1>8, <1>9, <1>10, <1>11, <1>12, <1>13
  DEF Next, CreatorStep, DispatcherStep, BatchStep

LEMMA InstanceStep ==
  ASSUME Inv, OrderInv, CallsAreOpen, [Next]_vars
  PROVE  [Implemented!Next]_Implemented!vars
<1>1. /\ \A c \in Creators : c \in Callers /\ c \notin Readers
      /\ caller \in [Callers -> {"idle", "send", "publish", "register", "await"} \cup Returned]
      /\ channel \in [Callers -> {"none", "empty", "full"}]
      /\ at \in {"write", "exists", "load", "blocked"} => entry \in Entries
      /\ at \in {"ready", "batch", "write", "exists", "load", "blocked"}
      /\ feed \in Seq(Entries) /\ ending \subseteq Creators
  BY CallersAssumption DEF Callers, Inv, DispatcherTypeOK, EntryInHand
<1>2. /\ \A c \in Creators : Outcome[c] = IF caller[c] = "idle" THEN "none"
                                        ELSE IF caller[c] \in Returned THEN caller[c] ELSE "waiting"
      /\ \A c : c \in Answers <=> c \in Creators /\ (channel[c] = "full" \/ AboutToAnswer(c))
  BY DEF Outcome, Answers
<1>3. \A c \in Creators : /\ channel[c] # "none" <=> caller[c] \in {"publish", "register", "await"}
                         /\ caller[c] # "send"
  BY <1>1 DEF Inv, CallHasChannel, CallsAreOpen
\* What the abstract steps are.
<1>4. ASSUME NEW c \in Creators, Outcome[c] = "none", Outcome' = [Outcome EXCEPT ![c] = "waiting"],
             UNCHANGED <<rows, Booted, Unread, Stored, timers, Answers>>
      PROVE  Implemented!Next
  <2>1. Implemented!Call(c)
    BY <1>4 DEF Implemented!Call, Outcome, Unread, Answers, Booted, Stored
  <2>2. QED
    BY <2>1 DEF Implemented!Next
<1>5. ASSUME NEW type \in {"create", "delete"}, NEW c \in Creators,
             Outcome[c] = "waiting" \/ (type = "delete" /\ Outcome[c] # "none"), type = "delete" => c \notin timers,
             rows' = IF type = "create" THEN rows \cup {c} ELSE rows \ {c},
             Unread' = IF Booted THEN Append(Unread, [type |-> type, ad |-> c]) ELSE Unread,
             UNCHANGED <<Booted, Stored, timers, Outcome, Answers>>
      PROVE  Implemented!Next
  <2>1. Implemented!Enter(type, c)
    BY <1>5 DEF Implemented!Enter, Implemented!Entry, Unread, Booted
  <2>2. Implemented!Publish(type, c)
    BY <1>5, <2>1 DEF Implemented!Publish, Outcome, Answers, Booted, Stored
  <2>3. QED
    BY <2>2 DEF Implemented!Next
<1>6. ASSUME NEW c \in Creators, NEW how \in {"ok", "error", "timeout"},
             Outcome[c] = "waiting", how = "ok" => c \in Answers,
             Outcome' = [Outcome EXCEPT ![c] = how], Answers' = Answers \ {c}, UNCHANGED <<Booted, Stored, timers>>,
             \/ UNCHANGED <<rows, Unread>>
             \/ /\ how = "error" /\ rows' = rows \cup {c}
                /\ Unread' \in {Unread, IF Booted THEN Append(Unread, [type |-> "create", ad |-> c]) ELSE Unread}
      PROVE  Implemented!Next
  <2>1. Implemented!Return(c, how)
    BY <1>6 DEF Implemented!Return, Outcome, Answers, Booted, Stored
  <2>2. CASE UNCHANGED <<rows, Unread>>
    BY <2>1, <2>2 DEF Implemented!Next, Unread
  <2>3. CASE /\ how = "error" /\ rows' = rows \cup {c}
             /\ Unread' \in {Unread, IF Booted THEN Append(Unread, [type |-> "create", ad |-> c]) ELSE Unread}
    <3>1. Implemented!Enter("create", c) \/ (rows' = rows \cup {c} /\ Unread' = Unread)
      BY <2>3 DEF Implemented!Enter, Implemented!Entry, Unread, Booted
    <3>2. Implemented!ReturnStored(c)
      BY <2>1, <2>3, <3>1 DEF Implemented!ReturnStored, Unread
    <3>3. QED
      BY <3>2 DEF Implemented!Next
  <2>4. QED
    BY <1>6, <2>2, <2>3
<1>7. ASSUME NEW e \in Entries, Unread # <<>>, e = Head(Unread), Unread' = Tail(Unread),
             UNCHANGED <<rows, Booted, Outcome>>,
             \/ /\ e.type = "create"
                /\ \/ Stored' = Stored \cup {e.ad} /\ timers' = timers
                   \/ timers' = timers \cup {e.ad} /\ Stored' = Stored
                /\ Answers' = Answers \cup {c \in {e.ad} : Outcome[c] = "waiting"}
             \/ e.type = "delete" /\ Stored' = Stored \ {e.ad} /\ timers' = timers /\ Answers' = Answers
      PROVE  Implemented!Next
  <2>1. PICK type \in {"create", "delete"}, c \in Creators : e = [type |-> type, ad |-> c]
    BY DEF Entries
  <2>2. Implemented!Apply(e)
    BY <1>7 DEF Implemented!Apply, Outcome, Unread, Answers, Booted, Stored
  <2>3. Implemented!Apply(Implemented!Entry(type, c))
    BY <2>1, <2>2 DEF Implemented!Entry
  <2>4. QED
    BY <2>3 DEF Implemented!Next
<1>8. ASSUME ~Booted, Booted', Stored' = rows, UNCHANGED <<rows, Unread, timers, Outcome, Answers>>
      PROVE  Implemented!Next
  <2>1. Implemented!Boot
    BY <1>8 DEF Implemented!Boot, Outcome, Unread, Answers, Booted, Stored
  <2>2. QED
    BY <2>1 DEF Implemented!Next
<1>9. ASSUME NEW c \in Creators, c \in timers, timers' = timers \ {c}, Stored' = Stored \cup {c},
             UNCHANGED <<rows, Booted, Unread, Outcome, Answers>>
      PROVE  Implemented!Next
  <2>1. Implemented!Start(c)
    BY <1>9 DEF Implemented!Start, Outcome, Unread, Answers, Booted, Stored
  <2>2. QED
    BY <2>1 DEF Implemented!Next
<1>10. ASSUME UNCHANGED <<rows, Booted, Unread, Stored, timers, Outcome, Answers>>
       PROVE  UNCHANGED Implemented!vars
  BY <1>10 DEF Implemented!vars, Unread, Outcome, Answers, Booted, Stored
\* Who leaves what alone.
<1>11. ASSUME NEW c \in Creators, caller' = [caller EXCEPT ![c] = caller'[c]], caller'[c] # "idle"
       PROVE  Outcome' = [Outcome EXCEPT ![c] = IF caller'[c] \in Returned THEN caller'[c] ELSE "waiting"]
  BY <1>1, <1>11 DEF Outcome
<1>12. ASSUME UNCHANGED <<at, entry, feed>> PROVE Unread' = Unread
  BY <1>12 DEF Unread
<1>13. ASSUME UNCHANGED <<bootVars, loopVars>> PROVE UNCHANGED <<at, entry, timers, Booted, Stored>>
  BY <1>13 DEF bootVars, loopVars, Booted, Stored
<1>14. ASSUME UNCHANGED <<callVars, at, entry>> PROVE UNCHANGED <<Outcome, Answers>>
  BY <1>14 DEF callVars, Outcome, Answers, AboutToAnswer
\* A call that begins, goes on or ends.
<1>15. ASSUME NEW c \in Creators, CallCreateAd(c) PROVE Implemented!Next
  <2>1. /\ caller[c] = "idle" /\ caller' = [caller EXCEPT ![c] = "publish"] /\ caller'[c] = "publish"
        /\ channel' = [channel EXCEPT ![c] = "empty"] /\ UNCHANGED <<rows, feed, bootVars, loopVars>>
    BY <1>1, <1>15 DEF CallCreateAd, Goto, logVars
  <2>2. Outcome[c] = "none" /\ Outcome' = [Outcome EXCEPT ![c] = "waiting"]
    BY <1>2, <1>11, <2>1 DEF Returned
  <2>3. ~AboutToAnswer(c) /\ ~AboutToAnswer(c)'
    BY <1>13, <2>1 DEF CallsAreOpen, AboutToAnswer
  <2>4. Answers' = Answers
    BY <1>1, <1>3, <1>13, <2>1, <2>3 DEF Answers, AboutToAnswer
  <2>5. QED
    BY <1>4, <1>12, <1>13, <2>1, <2>2, <2>4
<1>16. ASSUME NEW c \in Creators, StoreAndPublish(c) PROVE Implemented!Next
  <2>1. /\ caller[c] = "publish" /\ caller' = [caller EXCEPT ![c] = "register"] /\ caller'[c] = "register"
        /\ rows' = rows \cup {c} /\ XAdd("create", c) /\ UNCHANGED <<channel, bootVars, loopVars>>
    BY <1>1, <1>16 DEF StoreAndPublish, Goto
  <2>2. Outcome[c] = "waiting" /\ Outcome' = Outcome /\ Answers' = Answers
    BY <1>1, <1>13, <2>1 DEF Outcome, Answers, AboutToAnswer, Returned
  <2>3. Unread' = IF Booted THEN Append(Unread, [type |-> "create", ad |-> c]) ELSE Unread
    BY <1>13, <2>1, UnreadEnters DEF Booted
  <2>4. QED
    BY <1>5, <1>13, <2>1, <2>2, <2>3
<1>17. ASSUME NEW c \in Creators, PublishDelete(c) PROVE Implemented!Next
  <2>1. /\ c \in registered /\ c \notin timers /\ rows' = rows \ {c} /\ XAdd("delete", c)
        /\ UNCHANGED <<callVars, bootVars, loopVars>>
    BY <1>17 DEF PublishDelete
  <2>2. Outcome[c] # "none" /\ UNCHANGED <<Outcome, Answers>>
    BY <1>2, <1>13, <1>14, <2>1 DEF OrderInv, DeletesComeLate, Returned
  <2>3. Unread' = IF Booted THEN Append(Unread, [type |-> "delete", ad |-> c]) ELSE Unread
    BY <1>13, <2>1, UnreadEnters DEF Booted
  <2>4. QED
    BY <1>5, <1>13, <2>1, <2>2, <2>3
\* A call returns: its channel goes, and its answer with it.
<1>18. ASSUME NEW c \in Creators, NEW how \in Returned, caller[c] \in {"publish", "register", "await"}, Return(c, how),
              how = "ok" => channel[c] = "full", UNCHANGED <<bootVars, loopVars>>,
              \/ UNCHANGED <<rows, feed>>
              \/ how = "error" /\ rows' = rows \cup {c} /\ (feed' = feed \/ XAdd("create", c))
       PROVE  Implemented!Next
  <2>1. /\ caller' = [caller EXCEPT ![c] = how] /\ caller'[c] = how /\ how # "idle"
        /\ channel' = [channel EXCEPT ![c] = "none"] /\ channel'[c] = "none"
    BY <1>1, <1>18 DEF Return, Goto, Returned
  <2>2. Outcome[c] = "waiting" /\ Outcome' = [Outcome EXCEPT ![c] = how]
    BY <1>2, <1>11, <1>18, <2>1 DEF Returned
  <2>3. Answers' = Answers \ {c}
    BY <1>1, <1>13, <1>18, <2>1 DEF Answers, AboutToAnswer
  <2>4. how = "ok" => c \in Answers
    BY <1>2, <1>18
  <2>5. \/ UNCHANGED <<rows, Unread>>
        \/ /\ how = "error" /\ rows' = rows \cup {c}
           /\ Unread' \in {Unread, IF Booted THEN Append(Unread, [type |-> "create", ad |-> c]) ELSE Unread}
    BY <1>12, <1>13, <1>18, UnreadEnters DEF Booted
  <2>6. QED
    BY <1>6, <1>13, <1>18, <2>2, <2>3, <2>4, <2>5 DEF Returned
<1>19. ASSUME NEW c \in Creators, Register(c) PROVE UNCHANGED Implemented!vars
  <2>1. /\ caller[c] = "register" /\ caller' = [caller EXCEPT ![c] = "await"]
        /\ UNCHANGED <<channel, rows, feed, bootVars, loopVars>>
    BY <1>19 DEF Register, Goto
  <2>2. Outcome' = Outcome /\ Answers' = Answers
    BY <1>1, <1>13, <2>1 DEF Outcome, Answers, AboutToAnswer, Returned
  <2>3. QED
    BY <1>10, <1>12, <1>13, <2>1, <2>2
<1>20. ASSUME NEW c \in Creators, PublishFails(c) \/ RegisterFails(c) \/ Receive(c) \/ TimeOut(c)
       PROVE  Implemented!Next
  BY <1>18, <1>20 DEF PublishFails, RegisterFails, Receive, TimeOut, Returned, logVars
\* The steps of reads stutter.
<1>21. ASSUME NEW r \in Readers, CallGetAds(r) \/ TakeGet(r) \/ GetStep(r) \/ Receive(r) \/ TimeOut(r)
       PROVE  UNCHANGED Implemented!vars
  <2>1. /\ \A c \in Creators : caller'[c] = caller[c] /\ channel'[c] = channel[c]
        /\ UNCHANGED <<rows, feed, bootVars, loopVars>>
    BY <1>1, <1>21 DEF CallGetAds, TakeGet, GetStep, Read, CheckReader, AnswerReader, Receive, TimeOut, Return, Goto,
       callVars, logVars
  <2>2. Outcome' = Outcome /\ Answers' = Answers
    BY <1>13, <2>1 DEF Outcome, Answers, AboutToAnswer
  <2>3. QED
    BY <1>10, <1>12, <1>13, <2>1, <2>2
\* Restore and the timers.
<1>22. CASE Snapshot
  <2>1. /\ boot = "new" /\ boot' = "sent" /\ batch' = rows /\ store = {}
        /\ UNCHANGED <<callVars, rows, feed, at, entry, store, timers>>
    BY <1>22 DEF Snapshot, logVars, loopVars, Inv, BootOK
  <2>2. ~Booted /\ Booted' /\ Stored' = rows
    BY <2>1 DEF Booted, Stored
  <2>3. QED
    BY <1>8, <1>12, <1>14, <2>1, <2>2
<1>23. ASSUME NEW c \in Creators, FireTimer(c) PROVE Implemented!Next
  <2>1. /\ c \in timers /\ timers' = timers \ {c} /\ store' = store \cup {c}
        /\ UNCHANGED <<callVars, bootVars, rows, feed, at, entry>>
    BY <1>23 DEF FireTimer, logVars
  <2>2. UNCHANGED Booted /\ Stored' = Stored \cup {c}
    BY <2>1 DEF Booted, Stored, bootVars
  <2>3. QED
    BY <1>9, <1>12, <1>14, <2>1, <2>2
<1>24. ASSUME NEW c \in Creators, LoadAd(c) PROVE UNCHANGED Implemented!vars
  <2>1. /\ c \in batch /\ store' = store \cup {c} /\ batch' = batch \ {c}
        /\ UNCHANGED <<callVars, rows, feed, boot, at, entry, timers>>
    BY <1>24 DEF LoadAd, logVars
  <2>2. UNCHANGED <<Booted, Stored>>
    BY <2>1 DEF Booted, Stored
  <2>3. QED
    BY <1>10, <1>12, <1>14, <2>1, <2>2
<1>25. CASE TakeBatch \/ FinishBatch
  <2>1. /\ at \in {"ready", "batch"} /\ at' \in {"ready", "batch"} /\ (boot # "new" <=> boot' # "new")
        /\ UNCHANGED <<callVars, rows, feed, store, batch, timers, entry>>
    BY <1>25 DEF TakeBatch, FinishBatch, logVars, bootVars, Inv, BootOK
  <2>2. UNCHANGED <<Booted, Stored, Unread, Outcome, Answers>>
    BY <2>1 DEF Booted, Stored, Unread, Outcome, Answers, AboutToAnswer, callVars
  <2>3. QED
    BY <1>10, <2>1, <2>2
\* The dispatcher.
<1>26. CASE TakeEntry
  <2>1. /\ at = "ready" /\ at' = "write" /\ feed # <<>> /\ entry' = Head(feed) /\ feed' = Tail(feed)
        /\ UNCHANGED <<callVars, bootVars, rows, store, timers>>
    BY <1>26 DEF TakeEntry
  <2>2. Unread = feed /\ Unread' = <<Head(feed)>> \o Tail(feed)
    BY <2>1, UnreadIs DEF Unread
  <2>3. Unread' = Unread
    BY <1>1, <2>1, <2>2, HeadAndTail
  <2>4. UNCHANGED <<Booted, Stored, Outcome, Answers>>
    BY <2>1 DEF Booted, Stored, Outcome, Answers, AboutToAnswer, callVars, bootVars
  <2>5. QED
    BY <1>10, <2>1, <2>3, <2>4
<1>27. CASE HandleDelete \/ HandleCreate
  <2>1. /\ at = "write" /\ at' # "write" /\ batch = {} /\ entry \in Entries
        /\ UNCHANGED <<callVars, rows, feed, bootVars>>
    BY <1>1, <1>27 DEF HandleDelete, HandleCreate, logVars, Inv, BootOK
  <2>2. Unread # <<>> /\ entry = Head(Unread) /\ Unread' = Tail(Unread)
    <3>1. Unread' = <<>> \o feed
      BY <2>1 DEF Unread
    <3>2. QED
      BY <1>1, <2>1, <3>1, UnreadIs, ConcatEmptySeq
  <2>3. UNCHANGED <<Booted, Outcome>> /\ Stored = store /\ Stored' = store'
    BY <2>1 DEF Outcome, Booted, Stored, callVars, bootVars
  <2>4. CASE HandleDelete
    <3>1. entry.type = "delete" /\ store' = store \ {entry.ad} /\ at' = "ready" /\ timers' = timers
      BY <2>4 DEF HandleDelete
    <3>2. Answers' = Answers
      BY <2>1, <3>1 DEF Answers, AboutToAnswer, callVars
    <3>3. QED
      BY <1>7, <2>1, <2>2, <2>3, <3>1, <3>2
  <2>5. CASE HandleCreate
    <3>1. /\ entry.type = "create" /\ at' = "exists" /\ entry' = entry
          /\ \/ store' = store \cup {entry.ad} /\ timers' = timers
             \/ timers' = timers \cup {entry.ad} /\ store' = store
      BY <2>5 DEF HandleCreate
    <3>2. entry.ad \in Creators /\ (Outcome[entry.ad] = "waiting" <=> channel[entry.ad] # "none")
      <4>1. entry.ad \in Creators
        BY <2>1 DEF Entries
      <4>2. QED
        BY <1>1, <1>2, <1>3, <4>1 DEF Returned
    <3>3. Answers' = Answers \cup {c \in {entry.ad} : Outcome[c] = "waiting"}
      BY <1>1, <2>1, <3>1, <3>2 DEF Answers, AboutToAnswer, callVars
    <3>4. QED
      BY <1>7, <2>1, <2>2, <2>3, <3>1, <3>3
  <2>6. QED
    BY <1>27, <2>4, <2>5
<1>28. CASE CheckCreator \/ AnswerCreator
  <2>1. /\ at \in {"exists", "load"} /\ at' # "write" /\ entry.ad \in Creators
        /\ UNCHANGED <<caller, rows, feed, bootVars, store, timers>>
    BY <1>1, <1>28 DEF CheckCreator, AnswerCreator, Entries, callVars, logVars
  <2>2. UNCHANGED <<Unread, Outcome, Booted, Stored>>
    BY <2>1 DEF Unread, Outcome, Booted, Stored, bootVars
  <2>3. ASSUME NEW c \in Creators PROVE c \in Answers' <=> c \in Answers
    <3>1. CASE c # entry.ad
      <4>1. channel'[c] = channel[c] /\ (at' \in {"exists", "load"} => entry' = entry)
        BY <1>1, <1>28, <3>1 DEF CheckCreator, AnswerCreator, callVars
      <4>2. QED
        BY <3>1, <4>1 DEF Answers, AboutToAnswer
    <3>2. CASE c = entry.ad
      BY <1>1, <1>28, <2>1, <3>2 DEF CheckCreator, AnswerCreator, Answers, AboutToAnswer, callVars
    <3>3. QED
      BY <3>1, <3>2
  <2>4. Answers' = Answers
    BY <2>3 DEF Answers
  <2>5. QED
    BY <1>10, <2>1, <2>2, <2>4
<1>29. CASE UNCHANGED vars
  <2>1. UNCHANGED <<callVars, bootVars, loopVars, rows, feed>>
    BY <1>29 DEF vars, callVars, bootVars, loopVars
  <2>2. QED
    BY <1>10, <1>12, <1>13, <1>14, <2>1
<1>30. ASSUME NEW x \in Callers, Receive(x) \/ TimeOut(x) PROVE [Implemented!Next]_Implemented!vars
  BY <1>20, <1>21, <1>30 DEF Callers
<1>31. QED
  BY <1>15, <1>16, <1>17, <1>19, <1>20, <1>21, <1>22, <1>23, <1>24, <1>25, <1>26, <1>27, <1>28, <1>29, <1>30
  DEF Next, CreatorStep, DispatcherStep, BatchStep

\* Whoever creates, reads, times out or fails, the instance does what AdInstance
\* does in one step: it boots with the active rows of one moment (request_multiplexer.go:30-58),
\* applies the entries behind them in the order of the stream, and a creator that
\* waits when its ad is stored or scheduled has its answer (60-82).
THEOREM DispatcherImplements == Spec => ImplementsAdInstance
<1>1. Init => Implemented!Init /\ OrderInv /\ CallsAreOpen
  <2> SUFFICES ASSUME Init PROVE Implemented!Init /\ OrderInv /\ CallsAreOpen
    OBVIOUS
  <2>1. \A f : ~Holds(feed, f)
    BY DEF Init, Holds
  <2>2. OrderInv /\ CallsAreOpen
    BY <2>1 DEF Init, OrderInv, DeletesComeLate, DropsOnTheirWay, CallsAreOpen, Callers
  <2>3. <<>> \o feed = <<>> /\ feed = <<>>
    BY ConcatEmptySeq DEF Init
  <2>4. Implemented!Init
    BY <2>3 DEF Init, Implemented!Init, AboutToAnswer, Callers
  <2>5. QED
    BY <2>2, <2>4
<1>2. QED
  BY <1>1, Invariance, OrderStep, CallsAreOpenStep, InstanceStep, PTL DEF Spec, ImplementsAdInstance, Implemented!Spec
=============================================================================
