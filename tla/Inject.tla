------------------------------- MODULE Inject -------------------------------
(***************************************************************************)
(* cmd/inject beside a running system: a process of its own that replaces  *)
(* the rows of Postgres by mock ads and tells nobody.  The stream, its     *)
(* last id and the delete tasks of the old ads stay.                       *)
(*                                                                         *)
(* The mocks are ads that no client posts.  The command is run once.       *)
(***************************************************************************)
EXTENDS AdLog, FiniteSets, Functions

CONSTANT Mocks  \* the 1000 ads of a batch

ASSUME MocksAssumption == Mocks \subseteq Ads /\ IsFiniteSet(Mocks)

VARIABLE injection  \* how far the command has come

injectVars == <<vars, injection>>

InjectInit == Init /\ injection = "before"

-----------------------------------------------------------------------------
\* A transaction that has read the table keeps it from being truncated until it
\* ends.  Nobody looks at the statement's error: after a deadlock or a broken
\* connection the command goes on over the old rows.
Truncate ==
  /\ injection = "before"
  /\ Fault("inject")
  /\ injection' = "truncated"
  /\ \/ (\A w \in Writers : pc[w] # "commit") /\ rows' = [a \in Ads |-> Absent]
     \/ UNCHANGED rows
  /\ UNCHANGED <<stream, top, lock, task, outcome, pc, op, ad, ver, err>>

\* A mock has a new uuid and the column's default, which is active.
MockRow(number) == [state |-> "active", version |-> number]

\* The mocks are numbered from 1, without the lock and without an entry.  An error
\* of the INSERT, which nobody looks at either, ends the command like a kill.
InsertMocks ==
  /\ injection = "truncated"
  /\ injection' = "done"
  /\ \E number \in Bijection(Mocks, 1 .. Cardinality(Mocks)) :
       rows' = [a \in Ads |-> IF a \in Mocks THEN MockRow(number[a]) ELSE rows[a]]
  /\ UNCHANGED <<stream, top, lock, task, outcome, pc, op, ad, ver, err, faults>>

Serve ==
  /\ Next
  /\ \A a \in Mocks : outcome'[a] = "unsent"
  /\ UNCHANGED injection

InjectNext == Serve \/ Truncate \/ InsertMocks

InjectSpec == InjectInit /\ [][InjectNext]_injectVars

\* The command may be killed between its two statements.
FairInjectSpec == InjectSpec /\ Fairness

-----------------------------------------------------------------------------
\* Properties.

\* A mock that is in the table stays active under its own number: no client's
\* deletion and no purge takes it, although the mocks' numbers are lower than the
\* stream's and other writers work between inject's statements (ad.go:78-88).
MocksStay ==
  injection = "done" =>
    /\ \A a \in Mocks : Active(a) /\ rows[a].version \in 1 .. Cardinality(Mocks)
    /\ \A a, b \in Mocks : rows[a].version = rows[b].version => a = b

Posts == Ads \ Mocks

\* Every request is answered, whatever inject does to the table meanwhile.
EventuallyAnswered == \A a \in Posts : outcome[a] = "waiting" ~> outcome[a] # "waiting"

\* The next number is one that XADD refuses.
Behind == \A a \in Ads : rows[a].version < top

\* Every ad whose delete task is registered is deleted from the stream's state,
\* unless the table stays behind the stream for ever.  inject can leave it there,
\* and so can two faults: a deletion fails after its COMMIT, runs again when another
\* deletion has purged its tombstone, purges that one's in turn, and fails after its
\* COMMIT again (ad.go:78-110).  From then on ad.go:78 finds no row to give a higher
\* number, so a deletion that redis refuses does not catch up by itself.
EventuallyDeleted == \A a \in Posts : task[a] # "none" ~> Deleted(a) \/ []Behind
=============================================================================
