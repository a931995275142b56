--------------------------- MODULE WebhookDelivery ---------------------------
(***************************************************************************)
(* One GitHub webhook delivery, from the Cloud Tasks queue (job-queue.ts)  *)
(* through the worker endpoint (start.ts) and GitHubWebhookProcessor       *)
(* (github-webhook-processor.ts).                                          *)
(*                                                                         *)
(* The queue runs a task until it is answered with a 2xx, at least once:   *)
(* now and then again while an earlier attempt is still running.  Workers  *)
(* share one document per delivery in the state store.  An action is the   *)
(* code between two awaits; a read followed by a compare-and-set on the    *)
(* revision it read is one action where a mismatch of either ends the same *)
(* way.  What the effects do is WorkThread's business: here they end with  *)
(* "ok", with a RetryableWorkError or with another error.                  *)
(*                                                                         *)
(* The owner of a lease, a fresh UUID in the code, is the revision at which*)
(* it was taken.  Everything that goes wrong draws on one budget of        *)
(* mishaps, so that only finitely many things do.                          *)
(***************************************************************************)
EXTENDS Naturals

CONSTANTS
  Deliveries,   \* GitHub delivery ids
  Workers,      \* request handlers of the worker endpoint
  None,         \* no delivery
  Overlaps,     \* whether the queue may run a task that is still running
  MaxMishaps    \* bound on crashes, failures, overlaps, late expiries and redeliveries

ASSUME DeliveryAssumption ==
  /\ None \notin Deliveries
  /\ Overlaps \in BOOLEAN
  /\ MaxMishaps \in Nat

VARIABLES
  task,       \* the queue: "none", "queued" or "done" (answered with a 2xx)
  delivery,   \* the stored document of each delivery
  at,         \* where each worker is
  held,       \* what it holds: the job, and the revision and owner it works with
  runs,       \* runs[d]: how often the effects of d have begun
  outcome,    \* how the last run of the effects ended; "none" while it is not known
  mishaps

vars == <<task, delivery, at, held, runs, outcome, mishaps>>

Settled == {"effects_started", "completed", "failed"}

Status == Settled \cup {"none", "processing", "retryable"}

Doc == [revision : Nat, status : Status, owner : Nat, live : BOOLEAN]

NoDoc == [revision |-> 0, status |-> "none", owner |-> 0, live |-> FALSE]

Hold == [job : Deliveries \cup {None}, revision : Nat, owner : Nat, tries : 0..2]

NoHold == [job |-> None, revision |-> 0, owner |-> 0, tries |-> 0]

Places == {"idle", "load", "take", "sync", "release", "effects", "complete",
           "retryable", "failed"}

Init ==
  /\ task = [d \in Deliveries |-> "none"]
  /\ delivery = [d \in Deliveries |-> NoDoc]
  /\ at = [w \in Workers |-> "idle"]
  /\ held = [w \in Workers |-> NoHold]
  /\ runs = [d \in Deliveries |-> 0]
  /\ outcome = [d \in Deliveries |-> "none"]
  /\ mishaps = 0

-----------------------------------------------------------------------------
(* The states a worker moves between. *)

Job(w) == held[w].job

Goto(w, place) == at' = [at EXCEPT ![w] = place] /\ UNCHANGED held

\* The answer to the queue: only a 2xx ends the task (429 and 500 do not).
Answer(w, ok) ==
  /\ at' = [at EXCEPT ![w] = "idle"]
  /\ held' = [held EXCEPT ![w] = NoHold]
  /\ task' = IF ok THEN [task EXCEPT ![Job(w)] = "done"] ELSE task

Hazard == mishaps < MaxMishaps /\ mishaps' = mishaps + 1

\* The lease a worker writes, on top of revision r.
Leased(r) == [revision |-> r + 1, status |-> "processing", owner |-> r + 1, live |-> TRUE]

Lease(w, d, r) ==
  /\ delivery' = [delivery EXCEPT ![d] = Leased(r)]
  /\ held' = [held EXCEPT ![w] = [job |-> d, revision |-> r + 1, owner |-> r + 1, tries |-> 0]]
  /\ at' = [at EXCEPT ![w] = "sync"]

\* Mutant: a status the type does not know.
Moved_BadStatus(d, status) == [delivery[d] EXCEPT !.revision = @ + 1, !.status = "done"]

\* The next document of the owner's own transition, whose lease is over.
Moved(d, status) == [delivery[d] EXCEPT !.revision = @ + 1, !.status = status, !.live = FALSE]

Move(w, status) == delivery' = [delivery EXCEPT ![Job(w)] = Moved(Job(w), status)]

Owns(w, status) == /\ delivery[Job(w)].status = status
                   /\ delivery[Job(w)].owner = held[w].owner

-----------------------------------------------------------------------------
(* The queue. *)

\* GitHub delivers; a task of that name that still exists is not added twice.
Enqueue(d) ==
  /\ task[d] = "none"
  /\ task' = [task EXCEPT ![d] = "queued"]
  /\ UNCHANGED <<delivery, at, held, runs, outcome, mishaps>>

\* The same delivery id is sent again after its task is gone.
Redeliver(d) ==
  /\ task[d] = "done"
  /\ Hazard
  /\ task' = [task EXCEPT ![d] = "queued"]
  /\ UNCHANGED <<delivery, at, held, runs, outcome>>

Running(d) == \E w \in Workers : Job(w) = d

\* A worker is given the job and tries to create its document.
Dispatch(w, d) ==
  /\ at[w] = "idle"
  /\ task[d] = "queued"
  /\ IF Running(d) THEN Overlaps /\ Hazard ELSE UNCHANGED mishaps
  /\ \/ /\ delivery[d].status = "none"
        /\ Lease(w, d, 0)
     \/ /\ delivery[d].status # "none"
        /\ at' = [at EXCEPT ![w] = "load"]
        /\ held' = [held EXCEPT ![w] = [NoHold EXCEPT !.job = d]]
        /\ UNCHANGED delivery
  /\ UNCHANGED <<task, runs, outcome>>

-----------------------------------------------------------------------------
(* acquireDelivery: the document exists already. *)

\* Mutant: a lease that ran out still counts.
Load_NoTakeover(w) ==
  /\ at[w] = "load"
  /\ LET doc == delivery[Job(w)]
     IN  \/ doc.status \in Settled /\ Answer(w, TRUE)
         \/ doc.status = "processing" /\ Answer(w, FALSE)
         \/ /\ doc.status = "retryable"
            /\ at' = [at EXCEPT ![w] = "take"]
            /\ held' = [held EXCEPT ![w].revision = doc.revision]
            /\ UNCHANGED task
  /\ UNCHANGED <<delivery, runs, outcome, mishaps>>

Load(w) ==
  /\ at[w] = "load"
  /\ LET doc == delivery[Job(w)]
     IN  \/ doc.status \in Settled /\ Answer(w, TRUE)
         \/ doc.status = "processing" /\ doc.live /\ Answer(w, FALSE)
         \/ /\ doc.status \in {"retryable", "processing"} /\ ~doc.live
            /\ at' = [at EXCEPT ![w] = "take"]
            /\ held' = [held EXCEPT ![w].revision = doc.revision]
            /\ UNCHANGED task
  /\ UNCHANGED <<delivery, runs, outcome, mishaps>>

\* The compare-and-set that takes the lease over; three tries in all.
Take(w) ==
  /\ at[w] = "take"
  /\ \/ /\ delivery[Job(w)].revision = held[w].revision
        /\ Lease(w, Job(w), held[w].revision)
        /\ UNCHANGED task
     \/ /\ delivery[Job(w)].revision # held[w].revision
        /\ held[w].tries < 2
        /\ at' = [at EXCEPT ![w] = "load"]
        /\ held' = [held EXCEPT ![w].tries = @ + 1]
        /\ UNCHANGED <<task, delivery>>
     \/ /\ delivery[Job(w)].revision # held[w].revision
        /\ held[w].tries = 2
        /\ Answer(w, FALSE)
        /\ UNCHANGED delivery
  /\ UNCHANGED <<runs, outcome, mishaps>>

-----------------------------------------------------------------------------
(* process: the List synchronisation, the effects and their record. *)

SyncFails(w) ==
  /\ at[w] = "sync"
  /\ Hazard
  /\ Goto(w, "release")
  /\ UNCHANGED <<task, delivery, runs, outcome>>

\* Mutant: the effects begin without looking at the lease again.
BeginEffects_Unchecked(w) ==
  /\ at[w] = "sync"
  /\ Move(w, "effects_started")
  /\ at' = [at EXCEPT ![w] = "effects"]
  /\ held' = [held EXCEPT ![w].revision = @ + 1]
  /\ runs' = [runs EXCEPT ![Job(w)] = @ + 1]
  /\ outcome' = [outcome EXCEPT ![Job(w)] = "none"]
  /\ UNCHANGED <<task, mishaps>>

\* beginEffects still finds the lease it holds.
BeginEffects(w) ==
  /\ at[w] = "sync"
  /\ Owns(w, "processing")
  /\ delivery[Job(w)].revision = held[w].revision
  /\ Move(w, "effects_started")
  /\ at' = [at EXCEPT ![w] = "effects"]
  /\ held' = [held EXCEPT ![w].revision = @ + 1]
  /\ runs' = [runs EXCEPT ![Job(w)] = @ + 1]
  /\ outcome' = [outcome EXCEPT ![Job(w)] = "none"]
  /\ UNCHANGED <<task, mishaps>>

LosesLease(w) ==
  /\ at[w] = "sync"
  /\ ~(Owns(w, "processing") /\ delivery[Job(w)].revision = held[w].revision)
  /\ Goto(w, "release")
  /\ UNCHANGED <<task, delivery, runs, outcome, mishaps>>

\* releaseDelivery, and the error answered.
Release(w) ==
  /\ at[w] = "release"
  /\ IF Owns(w, "processing") THEN Move(w, "retryable") ELSE UNCHANGED delivery
  /\ Answer(w, FALSE)
  /\ UNCHANGED <<runs, outcome, mishaps>>

\* Mutant: an error that will not be retried is swallowed.
EffectsEnd_Swallow(w, how) ==
  /\ at[w] = "effects"
  /\ Goto(w, IF how = "retryable" THEN how ELSE "complete")
  /\ outcome' = [outcome EXCEPT ![Job(w)] = how]
  /\ UNCHANGED <<task, delivery, runs>>

\* The reviews, the lifecycle and the work notifications end in one of three ways.
EffectsEnd(w, how) ==
  /\ at[w] = "effects"
  /\ Goto(w, IF how = "ok" THEN "complete" ELSE how)
  /\ outcome' = [outcome EXCEPT ![Job(w)] = how]
  /\ UNCHANGED <<task, delivery, runs>>

EffectsReturn(w) == EffectsEnd(w, "ok") /\ UNCHANGED mishaps

EffectsThrow(w, how) == EffectsEnd(w, how) /\ Hazard

\* completeDelivery; its conflict is a RetryableWorkError of its own.
Complete(w) ==
  /\ at[w] = "complete"
  /\ \/ /\ delivery[Job(w)].revision = held[w].revision
        /\ Move(w, "completed")
        /\ Answer(w, TRUE)
     \/ /\ delivery[Job(w)].revision # held[w].revision
        /\ Goto(w, "retryable")
        /\ UNCHANGED <<task, delivery>>
  /\ UNCHANGED <<runs, outcome, mishaps>>

\* The store fails while it records the completion, which may have been written.
CompleteFails(w) ==
  /\ at[w] = "complete"
  /\ Hazard
  /\ \/ delivery[Job(w)].revision = held[w].revision /\ Move(w, "completed")
     \/ UNCHANGED delivery
  /\ Goto(w, "failed")
  /\ UNCHANGED <<task, runs, outcome>>

\* Mutant: every error releases the delivery for a retry.
FailDelivery_AlwaysRetry(w) ==
  /\ at[w] \in {"retryable", "failed"}
  /\ IF Owns(w, "effects_started") THEN Move(w, "retryable") ELSE UNCHANGED delivery
  /\ Answer(w, FALSE)
  /\ UNCHANGED <<runs, outcome, mishaps>>

\* failDelivery, and the error answered.
FailDelivery(w) ==
  /\ at[w] \in {"retryable", "failed"}
  /\ IF Owns(w, "effects_started") THEN Move(w, at[w]) ELSE UNCHANGED delivery
  /\ Answer(w, FALSE)
  /\ UNCHANGED <<runs, outcome, mishaps>>

-----------------------------------------------------------------------------
(* Process deaths and the fifteen minutes of a lease. *)

Crash(w) ==
  /\ at[w] # "idle"
  /\ Hazard
  /\ Answer(w, FALSE)
  /\ UNCHANGED <<delivery, runs, outcome>>

\* A lease runs out, by mishap while its owner is still at work.
Expire(d) ==
  /\ delivery[d].status = "processing"
  /\ delivery[d].live
  /\ IF \E w \in Workers : Job(w) = d /\ held[w].owner = delivery[d].owner
     THEN Hazard
     ELSE UNCHANGED mishaps
  /\ delivery' = [delivery EXCEPT ![d].live = FALSE]
  /\ UNCHANGED <<task, at, held, runs, outcome>>

Step(w) ==
  \/ Load(w) \/ Take(w) \/ BeginEffects(w) \/ LosesLease(w) \/ Release(w)
  \/ EffectsReturn(w) \/ Complete(w) \/ FailDelivery(w)

Fault(w) ==
  \/ SyncFails(w) \/ CompleteFails(w) \/ Crash(w)
  \/ \E how \in {"retryable", "failed"} : EffectsThrow(w, how)

Next ==
  \/ \E d \in Deliveries : \/ Enqueue(d) \/ Redeliver(d) \/ Expire(d)
                          \/ \E w \in Workers : Dispatch(w, d)
  \/ \E w \in Workers : Step(w) \/ Fault(w)

\* A worker that is not dead goes on, time passes, and the queue runs every
\* task that waits again and again.
Fairness ==
  /\ \A w \in Workers : WF_vars(Step(w))
  /\ \A d \in Deliveries : /\ WF_vars(Expire(d))
                           /\ SF_vars(\E w \in Workers : Dispatch(w, d))

Spec == Init /\ [][Next]_vars

FairSpec == Spec /\ Fairness

-----------------------------------------------------------------------------
(* Properties. *)

TypeOK ==
  /\ task \in [Deliveries -> {"none", "queued", "done"}]
  /\ delivery \in [Deliveries -> Doc]
  /\ at \in [Workers -> Places]
  /\ held \in [Workers -> Hold]
  /\ \A w \in Workers : at[w] # "idle" => Job(w) \in Deliveries
  /\ runs \in [Deliveries -> Nat]
  /\ outcome \in [Deliveries -> {"none", "ok", "retryable", "failed"}]
  /\ mishaps \in Nat

InEffects(w) == at[w] \in {"effects", "complete", "retryable", "failed"}

\* The effects of one delivery never run in two workers at once, whatever
\* leases expire under their owners and whatever the queue runs twice.
EffectsExclusive ==
  \A v, w \in Workers : InEffects(v) /\ InEffects(w) /\ Job(v) = Job(w) => v = w

\* The effects begin again only after a run known to have ended with a
\* RetryableWorkError: never after one that succeeded, that failed otherwise,
\* or that died with its worker and may have posted anything.
RerunOnlyAfterRetryable ==
  [][\A d \in Deliveries :
       runs'[d] # runs[d] => runs[d] = 0 \/ outcome[d] = "retryable"]_vars

\* What the document says of the effects is how they ended.
RecordIsTrue ==
  \A d \in Deliveries :
    /\ delivery[d].status = "completed" => outcome[d] = "ok"
    /\ delivery[d].status = "failed" => outcome[d] \in {"ok", "failed"}
    /\ delivery[d].status = "retryable" => outcome[d] \in {"none", "retryable"}

\* A task is answered with success only when nothing is left to be done for
\* its delivery by the queue: while the queue never overlaps attempts, no
\* delivery waits for a retry that will not come.
RetryIsQueued ==
  \A d \in Deliveries : delivery[d].status = "retryable" => task[d] = "queued"

\* Every delivery that reached the queue is answered in the end, although
\* workers die, leases run out under them and errors are retried.
Answered == \A d \in Deliveries : task[d] = "queued" ~> task[d] = "done"
=============================================================================
