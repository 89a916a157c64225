----------------------------- MODULE AdInstance -----------------------------
(***************************************************************************)
(* One instance as AdCluster takes it: it boots with the active rows, in   *)
(* one step, and applies the entries of the stream that come after that in *)
(* their order, each in one step in which the creator that waits here for  *)
(* its ad is answered too.  Nothing here says how an entry reaches the     *)
(* store or an answer its caller: Dispatcher implements it with the        *)
(* request channel, the response channels and one loop.                    *)
(***************************************************************************)
EXTENDS Sequences

CONSTANT Creators  \* calls of CreateAd, each for an ad of the same name

VARIABLES
  rows,      \* the active rows of the table
  booted,    \* whether the instance has taken its snapshot
  unread,    \* the entries after the snapshot that it has not applied
  store,     \* the ads that the store serves
  scheduled, \* the ads that it will serve when they start
  outcome,   \* what became of each call
  answered   \* the creators that are answered and have not returned

vars == <<rows, booted, unread, store, scheduled, outcome, answered>>

Entry(type, c) == [type |-> type, ad |-> c]

Init ==
  /\ rows = {}
  /\ booted = FALSE
  /\ unread = <<>>
  /\ store = {}
  /\ scheduled = {}
  /\ outcome = [c \in Creators |-> "none"]
  /\ answered = {}

Boot ==
  /\ ~booted
  /\ booted' = TRUE
  /\ store' = rows
  /\ UNCHANGED <<rows, unread, scheduled, outcome, answered>>

Call(c) ==
  /\ outcome[c] = "none"
  /\ outcome' = [outcome EXCEPT ![c] = "waiting"]
  /\ UNCHANGED <<rows, booted, unread, store, scheduled, answered>>

\* A change is committed, and published to who has booted.
Enter(type, c) ==
  /\ rows' = IF type = "create" THEN rows \cup {c} ELSE rows \ {c}
  /\ unread' = IF booted THEN Append(unread, Entry(type, c)) ELSE unread

\* A creation is published for a caller that waits; a deletion after that, of an
\* ad that has started.
Publish(type, c) ==
  /\ outcome[c] = "waiting" \/ (type = "delete" /\ outcome[c] # "none")
  /\ type = "delete" => c \notin scheduled
  /\ Enter(type, c)
  /\ UNCHANGED <<booted, store, scheduled, outcome, answered>>

\* The call returns its ad only with an answer.
Return(c, how) ==
  /\ outcome[c] = "waiting"
  /\ how = "ok" => c \in answered
  /\ outcome' = [outcome EXCEPT ![c] = how]
  /\ answered' = answered \ {c}
  /\ UNCHANGED <<booted, store, scheduled>>

\* What was stored or published of a call that returns an error stays.
ReturnStored(c) ==
  /\ Return(c, "error")
  /\ Enter("create", c) \/ (rows' = rows \cup {c} /\ UNCHANGED unread)

Apply(e) ==
  /\ unread # <<>> /\ e = Head(unread)
  /\ unread' = Tail(unread)
  /\ \/ /\ e.type = "create"
        /\ \/ store' = store \cup {e.ad} /\ UNCHANGED scheduled
           \/ scheduled' = scheduled \cup {e.ad} /\ UNCHANGED store
        /\ answered' = answered \cup {c \in {e.ad} : outcome[c] = "waiting"}
     \/ /\ e.type = "delete"
        /\ store' = store \ {e.ad}
        /\ UNCHANGED <<scheduled, answered>>
  /\ UNCHANGED <<rows, booted, outcome>>

Start(c) ==
  /\ c \in scheduled
  /\ scheduled' = scheduled \ {c}
  /\ store' = store \cup {c}
  /\ UNCHANGED <<rows, booted, unread, outcome, answered>>

Next ==
  \/ Boot
  \/ \E c \in Creators :
       \/ Call(c) \/ ReturnStored(c) \/ Start(c)
       \/ \E type \in {"create", "delete"} : Publish(type, c) \/ Apply(Entry(type, c))
       \/ \E how \in {"ok", "error", "timeout"} : Return(c, how) /\ UNCHANGED <<rows, unread>>

Spec == Init /\ [][Next]_vars
=============================================================================
