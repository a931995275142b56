--------------------------- MODULE WebhookPipeline ---------------------------
(***************************************************************************)
(* WebhookDelivery and WorkThread put together: a worker that begins the   *)
(* effects of a delivery handles its event in the lifecycle service, and   *)
(* how that ends decides what becomes of the delivery.  A delivery is      *)
(* named by the event it brings, and comes when GitHub has come to the     *)
(* state it tells of.                                                      *)
(***************************************************************************)
EXTENDS Naturals, Sequences

CONSTANTS
  Work, Tasks, Requester, Scenarios, Events, Workers, None, MaxLeases,
  Overlaps, MaxMishaps

VARIABLES
  task, delivery, at, held, runs, outcome, mishaps,
  scene, now, thread, intents, channel, notified, setup, step, job, claim

queue == <<task, delivery, at, held, runs, outcome, mishaps>>
slack == <<scene, now, thread, intents, channel, notified, setup, step, job, claim>>
vars == <<queue, slack>>

D == INSTANCE WebhookDelivery WITH Deliveries <- Events

T == INSTANCE WorkThread

ASSUME PipelineAssumption == T!ThreadAssumption /\ Overlaps \in BOOLEAN /\ MaxMishaps \in Nat

Init == D!Init /\ T!Init

Hooks == Scenarios[scene].hooks

\* The queue and the processor, outside the effects.
Process(w) ==
  /\ \/ \E e \in Events : D!Dispatch(w, e)
     \/ D!Load(w) \/ D!Take(w) \/ D!SyncFails(w) \/ D!LosesLease(w) \/ D!Release(w)
     \/ D!Complete(w) \/ D!CompleteFails(w) \/ D!FailDelivery(w)
  /\ UNCHANGED slack

Queue ==
  /\ \/ \E e \in DOMAIN Hooks : Hooks[e].at <= now /\ D!Enqueue(e)
     \/ \E e \in Events : D!Redeliver(e) \/ D!Expire(e)
  /\ UNCHANGED slack

Begin(w) == D!BeginEffects(w) /\ T!Start(w, D!Job(w))

Effects(w) == T!Act(w) /\ UNCHANGED queue

\* A call to Slack that goes wrong is a mishap; an error that only follows from
\* what the outbox says is none.
Fault(w) == T!Fault(w) /\ D!Hazard /\ UNCHANGED <<task, delivery, at, held, runs, outcome>>

Return(w) == T!End(w, "ok") /\ D!EffectsReturn(w)

Throw(w) ==
  \/ T!End(w, "retryable") /\ D!EffectsThrow(w, "retryable")
  \/ T!End(w, "failed") /\ D!EffectsEnd(w, "failed") /\ UNCHANGED mishaps

Crash(w) ==
  /\ D!Crash(w)
  /\ IF at[w] = "effects" THEN T!Die(w) ELSE UNCHANGED slack

Outside == T!Around /\ UNCHANGED queue

Next ==
  \/ \E w \in Workers : \/ Process(w) \/ Begin(w) \/ Effects(w) \/ Fault(w)
                       \/ Return(w) \/ Throw(w) \/ Crash(w)
  \/ Queue
  \/ Outside

Spec == Init /\ [][Next]_vars

-----------------------------------------------------------------------------
(* Properties. *)

\* The types of both parts.
TypeOK == D!TypeOK /\ T!TypeOK

\* WorkThread's properties hold of the thread while the processor hands its
\* workers the events (RepliesShareRoot, NoticeOnce, OverviewFirst and
\* RootIsFinal are stated there).
RepliesShareRoot == T!RepliesShareRoot

\* No retry, redelivery or replay posts a notice twice.
NoticeOnce == T!NoticeOnce

\* The overview of a Task precedes what is said of it.
OverviewFirst == T!OverviewFirst

\* A recorded root stays.
RootIsFinal == T!RootIsFinal

\* The overview of an Issue, or the root another event created for the Work's.
Opened(i) ==
  T!InChannel(T!OverviewId(i)) \/ (i = Work /\ \E ts \in DOMAIN channel : channel[ts].under = 0)

\* Notice n of event e has been said: its message is in the channel; an
\* assignment, where the overview named the assignee, or where the Work's
\* overview came after the root (and then, of who was assigned since, wrongly).
SaidOf(e, n) ==
  \/ T!InChannel(T!Id(n))
  \/ n.kind = "issue-opened" /\ Opened(n.issue)
  \/ /\ n.kind = "issue-assignment-changed" /\ Hooks[e].kind = "assigned"
     /\ Opened(n.issue) /\ (n.issue # Work => Hooks[e].login \in T!Named(n.issue))

\* All that event e asks to be said of a subject, as it was at some time since the
\* event, has been said; of a Task that had no thread then, nothing.
SaidAll(e, subject) ==
  \E k \in Hooks[e].at..now, codes \in T!Readable(Hooks[e]) :
    LET owed == T!Owed(Hooks[e], subject, T!Course[k], codes)
    IN  \A m \in DOMAIN owed : T!Adrift(owed[m]) \/ SaidOf(e, owed[m])

\* A delivery recorded as completed has said what it had to, through whatever
\* retries, deaths, races and changes it went.
CompletedIsSaid ==
  \A e \in DOMAIN Hooks :
    delivery[e].status = "completed" =>
      \A m \in DOMAIN Hooks[e].about : SaidAll(e, Hooks[e].about[m])

\* The runbook's single parent post, under the processor's leases.
SingleRoot == T!SingleRoot

\* The runbook's silent initial assignment, under the processor's leases.
InitialAssigneeSilent == T!InitialAssigneeSilent
=============================================================================
