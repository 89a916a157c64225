--------------------------- MODULE ReplicatedAds ---------------------------
(***************************************************************************)
(* What the server promises as a replicated state machine: there is one    *)
(* log of creations and deletions of ads; a replica starts from a snapshot *)
(* of the whole log and then applies the entries after it one by one, so   *)
(* that what it serves is always what a prefix of the log says.  Nothing   *)
(* here says how an entry gets into the log or a snapshot is taken:        *)
(* AdCluster implements both with Postgres, redis and the lock.            *)
(***************************************************************************)
EXTENDS Naturals

CONSTANTS Ads, Replicas

VARIABLES
  log,      \* the entries, numbered from 1
  up,       \* the replicas that have restored and follow the log
  applied,  \* the number of the last entry each replica has applied
  index     \* the ads that each replica serves

vars == <<log, up, applied, index>>

Entry == [id : Nat, type : {"create", "delete"}, ad : Ads]

Creates(a, n) == \E e \in log : e.type = "create" /\ e.ad = a /\ e.id <= n
Deletes(a, n) == \E e \in log : e.type = "delete" /\ e.ad = a /\ e.id <= n

\* The ads that the entries up to n create and do not delete.
Live(n) == {a \in Ads : Creates(a, n) /\ ~Deletes(a, n)}

\* n is the number of the log's last entry.
IsLast(n) ==
  /\ (n = 0 /\ log = {}) \/ (\E e \in log : e.id = n)
  /\ \A e \in log : e.id <= n

Init ==
  /\ log = {}
  /\ up = {}
  /\ applied = [r \in Replicas |-> 0]
  /\ index = [r \in Replicas |-> {}]

\* A new ad, or the end of a live one, is numbered and enters the log.
Publish(type, a, n) ==
  /\ IsLast(n)
  /\ \/ type = "create" /\ ~Creates(a, n)
     \/ type = "delete" /\ a \in Live(n)
  /\ log' = log \cup {[id |-> n + 1, type |-> type, ad |-> a]}
  /\ UNCHANGED <<up, applied, index>>

\* A replica starts from a snapshot of the log.
Boot(r, n) ==
  /\ r \notin up
  /\ IsLast(n)
  /\ up' = up \cup {r}
  /\ applied' = [applied EXCEPT ![r] = n]
  /\ index' = [index EXCEPT ![r] = Live(n)]
  /\ UNCHANGED log

\* A replica applies the next entry of the log.
CatchUp(r, e) ==
  /\ r \in up
  /\ e \in log
  /\ e.id = applied[r] + 1
  /\ applied' = [applied EXCEPT ![r] = e.id]
  /\ index' = [index EXCEPT ![r] =
                 IF e.type = "create" THEN @ \cup {e.ad} ELSE @ \ {e.ad}]
  /\ UNCHANGED <<log, up>>

\* A replica stops: what it served is gone.
Halt(r) ==
  /\ r \in up
  /\ up' = up \ {r}
  /\ applied' = [applied EXCEPT ![r] = 0]
  /\ index' = [index EXCEPT ![r] = {}]
  /\ UNCHANGED log

Next ==
  \/ \E type \in {"create", "delete"}, a \in Ads, n \in {0} \cup {e.id : e \in log} :
       Publish(type, a, n)
  \/ \E r \in Replicas :
       \/ \E n \in {0} \cup {e.id : e \in log} : Boot(r, n)
       \/ \E e \in log : CatchUp(r, e)
       \/ Halt(r)

Spec == Init /\ [][Next]_vars

-----------------------------------------------------------------------------
TypeOK ==
  /\ log \subseteq Entry
  /\ up \subseteq Replicas
  /\ applied \in [Replicas -> Nat]
  /\ index \in [Replicas -> SUBSET Ads]

\* A replica serves exactly the ads that the prefix of the log it has applied
\* says, whether it got there from a snapshot or entry by entry.
ServesPrefix == \A r \in up : index[r] = Live(applied[r])

\* Two replicas that have applied the same entries serve the same ads.
Agreement == \A r, s \in up : applied[r] = applied[s] => index[r] = index[s]

=============================================================================
