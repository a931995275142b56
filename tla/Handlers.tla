------------------------------ MODULE Handlers ------------------------------
(***************************************************************************)
(* What the account services share: the handlers of the adapter's requests *)
(* (Slack commands, OAuth callbacks, scheduled jobs), which run at once in *)
(* one process or several, and the leases of the synchronisations.  A      *)
(* place is where a handler waits; an action is what it does up to the     *)
(* next await.  Any call to Slack, GitHub or Google may fail, and a        *)
(* handler may die at any place, within the bound MaxMishaps.              *)
(***************************************************************************)
EXTENDS Naturals, Sequences

CONSTANTS
  Handlers, Users, Accounts, Urls, Subjects,
  Channel,      \* the shared channel: the state key of its unscoped List
  Shared,       \* the state key of the channel's List of one repository
  None,
  MaxMishaps    \* bound on failed calls, deaths and overrun leases

VARIABLES
  at,        \* where each handler is
  job,       \* what it has in hand
  lease,     \* the holder of each state key's unexpired lease, or Dead
  mishaps

Dead == "dead"

Keys == Users \cup {Channel, Shared}

\* The keys of the personal Canvases and of the Lists have leases of their own.
Leases == {"canvas", "list"} \X Keys

\* doc and ids are what was read of a projection or a Google identity; goal and
\* then are the places to go when a part that several paths share is over.
NoJob == [user |-> None, key |-> None, url |-> None, login |-> None, previous |-> None,
          goal |-> None, then |-> "idle", doc |-> None, ids |-> <<>>]

Work(user) == [NoJob EXCEPT !.user = user]

Go(h, place, j) == at' = [at EXCEPT ![h] = place] /\ job' = [job EXCEPT ![h] = j]

Goto(h, place) == Go(h, place, job[h])

Rest(h) == Go(h, "idle", NoJob)

\* A handler that ends leaves nothing in hand.
Leave(h, place) == IF place = "idle" THEN Rest(h) ELSE Goto(h, place)

Mishap == mishaps < MaxMishaps /\ mishaps' = mishaps + 1

InitHandlers ==
  /\ at = [h \in Handlers |-> "idle"]
  /\ job = [h \in Handlers |-> NoJob]
  /\ lease = [l \in Leases |-> None]
  /\ mishaps = 0

-----------------------------------------------------------------------------
(* The lease of a projection's state key, for fifteen minutes. *)

\* acquireLease: nobody has it, or what is stored has expired.
Acquired(h, l) == lease[l] = None /\ lease' = [lease EXCEPT ![l] = h]

Refused(l) == lease[l] # None

\* releaseLease: nothing, when another owner is stored.
Released(h, l) ==
  lease' = [lease EXCEPT ![l] = IF @ = h THEN None ELSE @]

\* The leases of a handler that died stay until they expire.
Orphaned(h) == lease' = [l \in Leases |-> IF lease[l] = h THEN Dead ELSE lease[l]]

Expire(l) ==
  /\ lease[l] = Dead
  /\ lease' = [lease EXCEPT ![l] = None]
  /\ UNCHANGED <<at, job, mishaps>>

\* Fifteen minutes pass under a handler that still works.
Overrun(l) ==
  /\ lease[l] \in Handlers
  /\ Mishap
  /\ lease' = [lease EXCEPT ![l] = None]
  /\ UNCHANGED <<at, job>>
=============================================================================
