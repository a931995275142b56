----------------------- MODULE WebhookPipeline_proofs -----------------------
(***************************************************************************)
(* Theorems about WebhookPipeline, for any Issues, scenarios, events,      *)
(* workers, leases and mishaps.  The inductive invariant follows a notice  *)
(* through send: past the check its overview is in the channel; a worker   *)
(* that waits for Slack is the only one with its intent, which has posted  *)
(* nothing; a lease on the root whose revision is still stored is the one  *)
(* the thread waits for; and an intent under a root bears the root that is *)
(* recorded.  On top of it, SaidInv follows what a worker in the effects   *)
(* still has to load and to say: all the rest of what its event asks for   *)
(* has been said.  What WebhookDelivery_proofs shows of the queue alone is *)
(* carried over to the composition.                                        *)
(***************************************************************************)
EXTENDS WebhookPipeline, SequenceTheorems, TLAPS

Elements(q) == {q[i] : i \in DOMAIN q}

\* An overview is known by its fingerprint, and names the assignees it was made of.
NoticeOK(n) ==
  /\ n.issue \in T!Issues
  /\ n.kind = "issue-opened" => n.print = <<"opened">> /\ n.says[2] = n.seen.assignees

TodoOK(q) == q \in Seq(Elements(q)) /\ \A n \in Elements(q) : NoticeOK(n)

\* The notice a job is at, the one its root is made for and the one at the outbox.
Now(j) == LET n == Head(j.todo) IN IF j.opening THEN T!Overview(n.issue, n.seen) ELSE n

Opens(j) == Now(j).kind = "issue-opened"

OwnsRoot(j) == Opens(j) /\ Now(j).issue = Work

RootOf(j) == IF OwnsRoot(j) THEN Now(j) ELSE T!RootNotice(j.parent)

OnRoot(s) == s \in {"call_root", "wait_root"}

Called(s, j) == T!Id(IF OnRoot(s) THEN RootOf(j) ELSE Now(j))

Waits(s) == s \in {"wait_root", "wait"}

\* Where a worker is at a notice, and where the notice has passed its check.
Past == {"root", "call_root", "wait_root", "save_root", "reply", "wait", "mark"}

Busy == Past \cup {"check", "setup", "consume"}

\* What a worker has in hand.
JobOK(s, j) ==
  /\ DOMAIN j = {"event", "rest", "todo", "opening", "parent"}
  /\ j.opening \in BOOLEAN /\ TodoOK(j.todo)
  /\ j.event \in DOMAIN Hooks \cup {None}
  /\ s # "rest" => j.event \in DOMAIN Hooks /\ j.rest \in Seq(Elements(Hooks[j.event].about))
  /\ s \in Busy => j.todo # <<>>
  /\ s \in {"load", "consume"} => ~j.opening
  /\ s \in Busy /\ j.opening => Head(j.todo).issue # Work /\ ~T!Adrift(Head(j.todo))

\* How far it has come with the notice.
PlaceOK(s, j, c) ==
  /\ s \in Past => \/ Now(j).issue = Work \/ Opens(j)
                   \/ T!InChannel(T!OverviewId(Now(j).issue))
  /\ s \in {"reply", "wait"} => thread.status = "ready"
  /\ s \in {"call_root", "wait_root", "save_root"} =>
       c <= thread.revision /\ (c = thread.revision => thread.status = "creating")
  /\ s = "save_root" => LET n == T!Id(RootOf(j))
                        IN  /\ n \in DOMAIN intents
                            /\ intents[n].status = "sent" /\ intents[n].under = 0
  /\ s = "mark" => OwnsRoot(j) \/ T!InChannel(T!Id(Now(j)))
  /\ s = "setup" => Opens(j) /\ (Now(j).issue = Work \/ T!InChannel(T!Id(Now(j))))
  /\ Waits(s) => LET n == Called(s, j)
                 IN  /\ n \in DOMAIN intents /\ intents[n].status = "sending"
                     /\ ~T!InChannel(n)
                     /\ s = "wait_root" => intents[n].under = 0

WorkerOK(w) == JobOK(step[w], job[w]) /\ PlaceOK(step[w], job[w], claim[w])

\* No two workers wait for one intent.
WaitersDiffer ==
  \A v, w \in Workers : Waits(step[v]) /\ Waits(step[w])
                        /\ Called(step[v], job[v]) = Called(step[w], job[w]) => v = w

ThreadOK == thread.status = "ready" =>
  thread.root \in DOMAIN channel /\ channel[thread.root].under = 0

IntentOK(n) == LET x == intents[n] IN
  /\ DOMAIN x = {"status", "under", "ts", "says"}
  /\ n.issue \in T!Issues /\ x.under \in Nat /\ x.ts \in Nat
  /\ x.status \in {"sending", "sent", "needs_review", "failed"}
  /\ x.under # 0 => thread.status = "ready" /\ x.under = thread.root
  /\ x.ts # 0 => x.ts \in DOMAIN channel
  /\ x.status = "sent" => x.ts \in DOMAIN channel /\ channel[x.ts].notice = n
  /\ n.issue \in Tasks /\ n # T!OverviewId(n.issue) => T!InChannel(T!OverviewId(n.issue))

ChannelOK ==
  /\ channel \in Seq([notice : DOMAIN intents, under : Nat])
  /\ \A ts \in DOMAIN channel : channel[ts].under = intents[channel[ts].notice].under

NotifiedOK ==
  /\ \A n \in notified \ {T!OverviewId(Work)} : T!InChannel(n)
  /\ \A m, n \in notified : m.issue = n.issue /\ m.kind = n.kind => m = n

\* The thread, the outbox and the channel.
StoreOK ==
  /\ thread \in T!Thread /\ ThreadOK
  /\ \A n \in DOMAIN intents : IntentOK(n)
  /\ ChannelOK /\ NotifiedOK
  /\ RepliesShareRoot /\ NoticeOnce /\ OverviewFirst

ScenesOK ==
  /\ scene \in DOMAIN Scenarios
  /\ now \in 1..Len(T!Course)

ServiceOK ==
  /\ step \in [Workers -> T!Steps] /\ DOMAIN job = Workers /\ claim \in [Workers -> Nat]
  /\ DOMAIN setup = T!Issues

\* The queue has the webhooks of the scenario.
HooksKnown ==
  /\ \A e \in Events : task[e] # "none" => e \in DOMAIN Hooks
  /\ \A w \in Workers : at[w] # "idle" => D!Job(w) \in DOMAIN Hooks

IInv ==
  /\ D!TypeOK /\ HooksKnown
  /\ ScenesOK /\ ServiceOK /\ StoreOK
  /\ \A w \in Workers : WorkerOK(w)
  /\ WaitersDiffer
-----------------------------------------------------------------------------
(* The queue and the processor: types, and which webhooks they have. *)

QueueOK == D!TypeOK /\ HooksKnown

\* A worker that holds something of an event.
LEMMA WorkerHolds ==
  ASSUME QueueOK, NEW w \in Workers, NEW e \in DOMAIN Hooks \cap Events, NEW p \in D!Places,
         NEW h \in D!Hold, h.job = e,
         at' = [at EXCEPT ![w] = p], held' = [held EXCEPT ![w] = h], UNCHANGED <<task, scene>>,
         delivery' \in [Events -> D!Doc], runs' \in [Events -> Nat],
         outcome' \in [Events -> {"none", "ok", "retryable", "failed"}], mishaps' \in Nat
  PROVE  QueueOK'
<1>1. /\ at' \in [Workers -> D!Places] /\ held' \in [Workers -> D!Hold]
      /\ at'[w] = p /\ held'[w] = h
      /\ \A v \in Workers \ {w} : at'[v] = at[v] /\ held'[v] = held[v]
  BY DEF QueueOK, D!TypeOK
<1>2. \A v \in Workers : at'[v] # "idle" => held'[v].job \in DOMAIN Hooks \cap Events
  BY <1>1 DEF QueueOK, D!TypeOK, D!Job, HooksKnown
<1>3. Hooks' = Hooks
  BY DEF Hooks
<1> QED
  BY <1>1, <1>2, <1>3 DEF QueueOK, D!TypeOK, D!Job, HooksKnown

\* A worker that is done with it.
LEMMA WorkerRests ==
  ASSUME QueueOK, NEW w \in Workers, at[w] # "idle", NEW ok \in BOOLEAN, D!Answer(w, ok),
         UNCHANGED scene,
         delivery' \in [Events -> D!Doc], runs' \in [Events -> Nat],
         outcome' \in [Events -> {"none", "ok", "retryable", "failed"}], mishaps' \in Nat
  PROVE  QueueOK'
<1>1. D!NoHold \in D!Hold
  BY DEF D!NoHold, D!Hold
<1>2. /\ at' \in [Workers -> D!Places] /\ held' \in [Workers -> D!Hold] /\ at'[w] = "idle"
      /\ \A v \in Workers \ {w} : at'[v] = at[v] /\ held'[v] = held[v]
  BY <1>1 DEF QueueOK, D!TypeOK, D!Answer, D!Places
<1>3. held[w].job \in DOMAIN Hooks \cap Events
  BY DEF QueueOK, D!TypeOK, D!Job, HooksKnown
<1>4. /\ task' \in [Events -> {"none", "queued", "done"}]
      /\ \A e \in Events : task'[e] # "none" => e \in DOMAIN Hooks
  BY <1>3 DEF QueueOK, D!TypeOK, D!Answer, D!Job, HooksKnown
<1>5. Hooks' = Hooks
  BY DEF Hooks
<1> QED
  BY <1>2, <1>4, <1>5 DEF QueueOK, D!TypeOK, D!Job, HooksKnown

LEMMA LeasedType ==
  ASSUME NEW r \in Nat
  PROVE  D!Leased(r) \in D!Doc
  BY DEF D!Leased, D!Doc, D!Status, D!Settled

LEMMA MovedType ==
  ASSUME QueueOK, NEW e \in Events, NEW status \in D!Status
  PROVE  D!Moved(e, status) \in D!Doc
<1> DEFINE d == delivery[e]
           d1 == [d EXCEPT !.revision = d.revision + 1]
           d2 == [d1 EXCEPT !.status = status]
           d3 == [d2 EXCEPT !.live = FALSE]
<1>1. d \in D!Doc
  BY DEF QueueOK, D!TypeOK
<1>2. D!Moved(e, status) = d3
  BY DEF D!Moved
<1>3. d1 \in D!Doc
  BY <1>1 DEF D!Doc
<1> HIDE DEF d1
<1>4. d2 \in D!Doc
  BY <1>3 DEF D!Doc
<1> HIDE DEF d2
<1> QED
  BY <1>2, <1>4 DEF D!Doc

\* What a worker holds.
LEMMA HeldType ==
  ASSUME QueueOK, NEW w \in Workers
  PROVE  /\ held[w] \in D!Hold /\ held[w].revision \in Nat /\ held[w].owner \in Nat
         /\ held[w].tries \in 0..2 /\ D!Job(w) = held[w].job
         /\ at[w] # "idle" => D!Job(w) \in DOMAIN Hooks \cap Events
  BY DEF QueueOK, D!TypeOK, D!Hold, D!Job, HooksKnown

\* The other variables as they are.
LEMMA QueueTypes ==
  ASSUME QueueOK
  PROVE  /\ delivery \in [Events -> D!Doc] /\ runs \in [Events -> Nat] /\ mishaps \in Nat
         /\ outcome \in [Events -> {"none", "ok", "retryable", "failed"}]
         /\ mishaps' = mishaps \/ D!Hazard => mishaps' \in Nat
  BY PipelineAssumption DEF QueueOK, D!TypeOK, D!Hazard

LEMMA MovesType ==
  ASSUME QueueOK, NEW w \in Workers, at[w] # "idle", NEW status \in D!Status,
         D!Move(w, status) \/ UNCHANGED delivery
  PROVE  delivery' \in [Events -> D!Doc]
  BY MovedType, HeldType, QueueTypes DEF D!Move

\* A worker that changes nothing of what it holds but the revision or the tries.
LEMMA RevisionHeld ==
  ASSUME QueueOK, NEW w \in Workers, NEW r \in Nat
  PROVE  LET h == [held[w] EXCEPT !.revision = r] IN h \in D!Hold /\ h.job = D!Job(w)
  BY HeldType DEF D!Hold

LEMMA TriesHeld ==
  ASSUME QueueOK, NEW w \in Workers, NEW n \in 0..2
  PROVE  LET h == [held[w] EXCEPT !.tries = n] IN h \in D!Hold /\ h.job = D!Job(w)
  BY HeldType DEF D!Hold

\* A worker that only goes elsewhere.
LEMMA WorkerGoes ==
  ASSUME QueueOK, NEW w \in Workers, at[w] # "idle", NEW p \in D!Places, D!Goto(w, p),
         UNCHANGED <<task, scene>>,
         delivery' \in [Events -> D!Doc], runs' \in [Events -> Nat],
         outcome' \in [Events -> {"none", "ok", "retryable", "failed"}], mishaps' \in Nat
  PROVE  QueueOK'
<1>1. held' = [held EXCEPT ![w] = held[w]]
  BY DEF D!Goto, QueueOK, D!TypeOK
<1>2. at' = [at EXCEPT ![w] = p]
  BY DEF D!Goto
<1> QED
  BY <1>1, <1>2, HeldType, WorkerHolds

LEMMA LeaseQueue ==
  ASSUME QueueOK, NEW w \in Workers, NEW e \in DOMAIN Hooks \cap Events, NEW r \in Nat,
         D!Lease(w, e, r), UNCHANGED <<task, runs, outcome, scene>>, mishaps' \in Nat
  PROVE  QueueOK'
<1> DEFINE h == [job |-> e, revision |-> r + 1, owner |-> r + 1, tries |-> 0]
<1>1. h \in D!Hold /\ h.job = e
  BY DEF D!Hold
<1>2. delivery' \in [Events -> D!Doc]
  BY LeasedType, QueueTypes DEF D!Lease
<1>3. at' = [at EXCEPT ![w] = "sync"] /\ held' = [held EXCEPT ![w] = h] /\ "sync" \in D!Places
  BY DEF D!Lease, D!Places
<1> HIDE DEF h
<1> QED
  BY <1>1, <1>2, <1>3, QueueTypes, WorkerHolds

LEMMA DispatchQueue ==
  ASSUME QueueOK, NEW w \in Workers, NEW e \in Events, D!Dispatch(w, e), UNCHANGED scene
  PROVE  QueueOK'
<1>1. e \in DOMAIN Hooks \cap Events
  BY DEF D!Dispatch, QueueOK, HooksKnown
<1>2. UNCHANGED <<task, runs, outcome>> /\ mishaps' \in Nat
  BY QueueTypes DEF D!Dispatch
<1>3. CASE D!Lease(w, e, 0)
  BY <1>1, <1>2, <1>3, LeaseQueue
<1>4. CASE /\ at' = [at EXCEPT ![w] = "load"]
           /\ held' = [held EXCEPT ![w] = [D!NoHold EXCEPT !.job = e]]
           /\ UNCHANGED delivery
  <2> DEFINE h == [D!NoHold EXCEPT !.job = e]
  <2>1. h \in D!Hold /\ h.job = e /\ "load" \in D!Places
    BY DEF D!NoHold, D!Hold, D!Places
  <2> HIDE DEF h
  <2> QED
    BY <1>1, <1>2, <1>4, <2>1, QueueTypes, WorkerHolds DEF h
<1> QED
  BY <1>3, <1>4 DEF D!Dispatch

LEMMA LoadQueue ==
  ASSUME QueueOK, NEW w \in Workers, D!Load(w), UNCHANGED scene
  PROVE  QueueOK'
<1>1. at[w] # "idle" /\ UNCHANGED <<delivery, runs, outcome, mishaps>>
  BY DEF D!Load
<1>2. CASE \E ok \in BOOLEAN : D!Answer(w, ok)
  BY <1>1, <1>2, QueueTypes, WorkerRests
<1>3. CASE /\ at' = [at EXCEPT ![w] = "take"]
           /\ held' = [held EXCEPT ![w].revision = delivery[D!Job(w)].revision]
           /\ UNCHANGED task
  <2>1. PICK r \in Nat : r = delivery[D!Job(w)].revision
    BY <1>1, HeldType, QueueTypes DEF D!Doc
  <2> DEFINE h == [held[w] EXCEPT !.revision = r]
  <2>2. held' = [held EXCEPT ![w] = h]
    BY <1>3, <2>1
  <2>3. h \in D!Hold /\ h.job = D!Job(w) /\ "take" \in D!Places
    BY RevisionHeld DEF D!Places
  <2> HIDE DEF h
  <2>4. D!Job(w) \in DOMAIN Hooks \cap Events
    BY <1>1, HeldType
  <2>5. /\ delivery' \in [Events -> D!Doc] /\ runs' \in [Events -> Nat] /\ mishaps' \in Nat
        /\ outcome' \in [Events -> {"none", "ok", "retryable", "failed"}]
    BY <1>1, <1>3, QueueTypes
  <2> QED
    BY <1>3, <2>2, <2>3, <2>4, <2>5, WorkerHolds
<1> QED
  BY <1>2, <1>3 DEF D!Load

LEMMA TakeQueue ==
  ASSUME QueueOK, NEW w \in Workers, D!Take(w), UNCHANGED scene
  PROVE  QueueOK'
<1>1. at[w] # "idle" /\ UNCHANGED <<runs, outcome, mishaps>>
  BY DEF D!Take
<1>2. CASE D!Lease(w, D!Job(w), held[w].revision) /\ UNCHANGED task
  BY <1>1, <1>2, HeldType, QueueTypes, LeaseQueue
<1>3. CASE /\ held[w].tries < 2
           /\ at' = [at EXCEPT ![w] = "load"]
           /\ held' = [held EXCEPT ![w].tries = held[w].tries + 1]
           /\ UNCHANGED <<task, delivery>>
  <2>1. PICK n \in 0..2 : n = held[w].tries + 1
    BY <1>3, HeldType
  <2> DEFINE h == [held[w] EXCEPT !.tries = n]
  <2>2. held' = [held EXCEPT ![w] = h]
    BY <1>3, <2>1
  <2>3. h \in D!Hold /\ h.job = D!Job(w) /\ "load" \in D!Places
    BY TriesHeld DEF D!Places
  <2> HIDE DEF h
  <2>4. D!Job(w) \in DOMAIN Hooks \cap Events
    BY <1>1, HeldType
  <2>5. /\ delivery' \in [Events -> D!Doc] /\ runs' \in [Events -> Nat] /\ mishaps' \in Nat
        /\ outcome' \in [Events -> {"none", "ok", "retryable", "failed"}]
    BY <1>1, <1>3, QueueTypes
  <2> QED
    BY <1>3, <2>2, <2>3, <2>4, <2>5, WorkerHolds
<1>4. CASE D!Answer(w, FALSE) /\ UNCHANGED delivery
  BY <1>1, <1>4, QueueTypes, WorkerRests
<1> QED
  BY <1>2, <1>3, <1>4 DEF D!Take

LEMMA BeginQueue ==
  ASSUME QueueOK, NEW w \in Workers, D!BeginEffects(w), UNCHANGED scene
  PROVE  QueueOK'
<1>1. at[w] # "idle" /\ UNCHANGED <<task, mishaps>>
  BY DEF D!BeginEffects
<1>2. PICK r \in Nat : r = held[w].revision + 1
  BY HeldType
<1> DEFINE h == [held[w] EXCEPT !.revision = r]
<1>3. held' = [held EXCEPT ![w] = h] /\ at' = [at EXCEPT ![w] = "effects"]
  BY <1>2 DEF D!BeginEffects
<1>4. h \in D!Hold /\ h.job = D!Job(w) /\ "effects" \in D!Places
  BY RevisionHeld DEF D!Places
<1> HIDE DEF h
<1>5. delivery' \in [Events -> D!Doc]
  BY <1>1, MovesType DEF D!BeginEffects, D!Status, D!Settled
<1>6. /\ runs' \in [Events -> Nat]
      /\ outcome' \in [Events -> {"none", "ok", "retryable", "failed"}]
  BY <1>1, HeldType, QueueTypes DEF D!BeginEffects
<1> QED
  BY <1>1, <1>3, <1>4, <1>5, <1>6, HeldType, QueueTypes, WorkerHolds

LEMMA EffectsEndQueue ==
  ASSUME QueueOK, NEW w \in Workers, NEW how \in {"ok", "retryable", "failed"},
         D!EffectsEnd(w, how), mishaps' \in Nat, UNCHANGED scene
  PROVE  QueueOK'
<1>1. /\ at[w] # "idle" /\ UNCHANGED <<task, delivery, runs>>
      /\ \E p \in D!Places : D!Goto(w, p)
  BY DEF D!EffectsEnd, D!Places
<1>2. outcome' \in [Events -> {"none", "ok", "retryable", "failed"}]
  BY <1>1, HeldType, QueueTypes DEF D!EffectsEnd
<1> QED
  BY <1>1, <1>2, QueueTypes, WorkerGoes

\* The rest of what a worker does for a delivery.
LEMMA ProcessQueue ==
  ASSUME QueueOK, NEW w \in Workers, UNCHANGED scene,
         \/ D!SyncFails(w) \/ D!LosesLease(w) \/ D!Release(w) \/ D!Complete(w)
         \/ D!CompleteFails(w) \/ D!FailDelivery(w) \/ D!Crash(w)
  PROVE  QueueOK'
<1>1. /\ at[w] # "idle" /\ UNCHANGED <<runs, outcome>>
      /\ mishaps' = mishaps \/ D!Hazard
      /\ \/ \E ok \in BOOLEAN : D!Answer(w, ok)
         \/ UNCHANGED task /\ \E p \in D!Places : D!Goto(w, p)
  BY DEF D!SyncFails, D!LosesLease, D!Release, D!Complete, D!CompleteFails, D!FailDelivery,
         D!Crash, D!Places
<1>2. \/ UNCHANGED delivery
      \/ \E status \in D!Status : D!Move(w, status)
  <2>1. "retryable" \in D!Status /\ "completed" \in D!Status /\ "failed" \in D!Status
    BY DEF D!Status, D!Settled
  <2> QED
    BY <2>1 DEF D!SyncFails, D!LosesLease, D!Release, D!Complete, D!CompleteFails,
         D!FailDelivery, D!Crash
<1>3. delivery' \in [Events -> D!Doc]
  BY <1>1, <1>2, MovesType, QueueTypes
<1>4. mishaps' \in Nat
  BY <1>1, QueueTypes
<1> QED
  BY <1>1, <1>3, <1>4, QueueTypes, WorkerRests, WorkerGoes

\* Steps of the queue and of time.
LEMMA TaskQueue ==
  ASSUME QueueOK, UNCHANGED scene, NEW e \in Events,
         \/ e \in DOMAIN Hooks /\ D!Enqueue(e)
         \/ D!Redeliver(e) \/ D!Expire(e)
  PROVE  QueueOK'
<1>1. Hooks' = Hooks
  BY DEF Hooks
<1>2. UNCHANGED <<at, held, runs, outcome>> /\ (mishaps' = mishaps \/ D!Hazard)
  BY DEF D!Enqueue, D!Redeliver, D!Expire
<1>3. mishaps' \in Nat
  BY <1>2, QueueTypes
<1>4. CASE D!Expire(e)
  <2> DEFINE doc == [delivery[e] EXCEPT !.live = FALSE]
  <2>1. doc \in D!Doc
    BY QueueTypes DEF D!Doc
  <2>2. delivery' = [delivery EXCEPT ![e] = doc] /\ UNCHANGED task
    BY <1>4 DEF D!Expire
  <2> HIDE DEF doc
  <2>3. delivery' \in [Events -> D!Doc]
    BY <2>1, <2>2, QueueTypes
  <2> QED
    BY <1>1, <1>2, <1>3, <2>2, <2>3 DEF QueueOK, D!TypeOK, D!Job, HooksKnown
<1>5. CASE ~D!Expire(e)
  <2>1. e \in DOMAIN Hooks /\ task' = [task EXCEPT ![e] = "queued"] /\ UNCHANGED delivery
    BY <1>5 DEF D!Enqueue, D!Redeliver, QueueOK, HooksKnown
  <2> QED
    BY <1>1, <1>2, <1>3, <2>1 DEF QueueOK, D!TypeOK, D!Job, HooksKnown
<1> QED
  BY <1>4, <1>5

\* Without the queue, nothing of it changes.
LEMMA SlackQueue ==
  ASSUME QueueOK, UNCHANGED <<task, delivery, at, held, runs, outcome, scene>>,
         mishaps' = mishaps \/ D!Hazard
  PROVE  QueueOK'
  BY QueueTypes DEF QueueOK, D!TypeOK, D!Job, HooksKnown, Hooks
-----------------------------------------------------------------------------
(* The notices a webhook asks for. *)

\* A sequence over a set is one over its own elements.
LEMMA OwnElements ==
  ASSUME NEW S, NEW q \in Seq(S)
  PROVE  q \in Seq(Elements(q)) /\ \A n \in Elements(q) : n \in S
<1>1. DOMAIN q = 1..Len(q) /\ Len(q) \in Nat /\ \A i \in 1..Len(q) : q[i] \in S
  BY LenProperties
<1>2. \A i \in 1..Len(q) : q[i] \in Elements(q)
  BY <1>1 DEF Elements
<1>3. q = [i \in 1..Len(q) |-> q[i]]
  BY <1>1, LenProperties
<1>4. [i \in 1..Len(q) |-> q[i]] \in Seq(Elements(q))
  BY <1>1, <1>2
<1> QED
  BY <1>1, <1>3, <1>4 DEF Elements

LEMMA SeqTodo ==
  ASSUME NEW S, NEW q \in Seq(S), \A n \in S : NoticeOK(n)
  PROVE  TodoOK(q)
<1>1. \A n \in Elements(q) : NoticeOK(n)
  BY OwnElements
<1> QED
  BY <1>1, OwnElements DEF TodoOK

\* The first of a sequence and what is left of it.
LEMMA Lefts ==
  ASSUME NEW q, TodoOK(q), q # <<>>
  PROVE  NoticeOK(Head(q)) /\ TodoOK(Tail(q))
<1>1. q \in Seq(Elements(q)) /\ \A n \in Elements(q) : NoticeOK(n)
  BY DEF TodoOK
<1>2. Head(q) \in Elements(q) /\ Tail(q) \in Seq(Elements(q))
  BY <1>1, HeadTailProperties
<1> QED
  BY <1>1, <1>2, SeqTodo

\* The fields of an overview, of a root and of any other notice.
LEMMA Overviews ==
  ASSUME NEW i, NEW issue
  PROVE  LET n == T!Overview(i, issue)
         IN  /\ n.issue = i /\ n.kind = "issue-opened" /\ n.print = <<"opened">>
             /\ n.seen = issue /\ T!Id(n) = T!OverviewId(i)
             /\ n.says[2] = issue.assignees
  BY DEF T!Overview, T!Id, T!OverviewId

LEMMA Roots ==
  ASSUME NEW work
  PROVE  T!RootNotice(work).issue = Work
  BY DEF T!RootNotice, T!Overview

LEMMA Ids ==
  ASSUME NEW n
  PROVE  T!Id(n).issue = n.issue /\ T!Id(n).kind = n.kind /\ T!Id(n).print = n.print
  BY DEF T!Id

LEMMA Plain ==
  ASSUME NEW i \in T!Issues, NEW issue, NEW kind, NEW print, NEW says, kind # "issue-opened"
  PROVE  NoticeOK(T!Notice(i, issue, kind, print, says))
  BY DEF NoticeOK, T!Notice

LEMMA OneTodo ==
  ASSUME NEW n, NoticeOK(n)
  PROVE  TodoOK(<<n>>)
<1> DEFINE q == <<n>>
<1>1. q \in Seq({n})
  OBVIOUS
<1> HIDE DEF q
<1>2. TodoOK(q)
  BY <1>1, SeqTodo
<1> QED
  BY <1>2 DEF q

LEMMA NoTodo == TodoOK(<<>>)
<1> DEFINE q == <<>>
<1>1. q \in Seq({})
  OBVIOUS
<1> HIDE DEF q
<1>2. TodoOK(q)
  BY <1>1, SeqTodo
<1> QED
  BY <1>2 DEF q

LEMMA TwoTodo ==
  ASSUME NEW m, NEW n, NoticeOK(m), NoticeOK(n)
  PROVE  TodoOK(<<m, n>>)
<1> DEFINE q == <<m, n>>
<1>1. q \in Seq({m, n})
  OBVIOUS
<1> HIDE DEF q
<1>2. TodoOK(q)
  BY <1>1, SeqTodo
<1> QED
  BY <1>2 DEF q

LEMMA OverviewTodo ==
  ASSUME NEW i \in T!Issues, NEW issue
  PROVE  NoticeOK(T!Overview(i, issue))
  BY Overviews DEF NoticeOK

LEMMA SelfMergeTodo ==
  ASSUME NEW i \in T!Issues, NEW issue, NEW actor
  PROVE  LET q == T!SelfMergeScheduled(i, issue, actor)
         IN  q = <<>> \/ \E n : NoticeOK(n) /\ q = <<n>>
<1> DEFINE n == T!Notice(i, issue, "self-merge-scheduled", <<"self">>, <<actor, issue.assignees>>)
<1>1. NoticeOK(n)
  BY Plain
<1>2. T!SelfMergeScheduled(i, issue, actor) \in {<<>>, <<n>>}
  BY DEF T!SelfMergeScheduled
<1> HIDE DEF n
<1> QED
  BY <1>1, <1>2

\* What is said of an Issue.
LEMMA IssueTodo ==
  ASSUME NEW hook, hook.kind \in T!IssueKinds, NEW i \in T!Issues, NEW issue
  PROVE  TodoOK(T!OfIssue(hook, i, issue))
<1> DEFINE Say(kind, print) == T!Notice(i, issue, kind, print, <<hook.actor, issue.assignees>>)
           first == T!Overview(i, issue)
           assignment == Say("issue-assignment-changed", <<hook.kind, issue.assignees>>)
<1>1. NoticeOK(first) /\ NoticeOK(assignment)
  BY OverviewTodo, Plain
<1>2. CASE hook.kind = "opened"
  <2>1. T!OfIssue(hook, i, issue) = <<first>> \o T!SelfMergeScheduled(i, issue, Requester)
    BY <1>2 DEF T!OfIssue
  <2> HIDE DEF first
  <2>2. CASE T!SelfMergeScheduled(i, issue, Requester) = <<>>
    BY <1>1, <2>1, <2>2, OneTodo
  <2>3. CASE \E n : NoticeOK(n) /\ T!SelfMergeScheduled(i, issue, Requester) = <<n>>
    <3>1. PICK n : NoticeOK(n) /\ T!SelfMergeScheduled(i, issue, Requester) = <<n>>
      BY <2>3
    <3>2. <<first>> \in Seq({first, n}) /\ <<n>> \in Seq({first, n})
      OBVIOUS
    <3> DEFINE one == <<first>>
               two == <<n>>
    <3>3. one \in Seq({first, n}) /\ two \in Seq({first, n})
      BY <3>2
    <3>4. T!OfIssue(hook, i, issue) = one \o two
      BY <2>1, <3>1
    <3> HIDE DEF one, two
    <3> DEFINE S == {first, n}
    <3>5. \A x \in S : NoticeOK(x)
      BY <1>1, <3>1
    <3>6. one \in Seq(S) /\ two \in Seq(S)
      BY <3>3
    <3> HIDE DEF S
    <3>7. one \o two \in Seq(S)
      BY <3>6, ConcatProperties
    <3>8. TodoOK(one \o two)
      BY <3>5, <3>7, SeqTodo
    <3> QED
      BY <3>4, <3>8
  <2> QED
    BY <2>2, <2>3, SelfMergeTodo
<1>3. CASE hook.kind \in {"assigned", "unassigned"}
  <2>1. T!OfIssue(hook, i, issue) = <<first, assignment>>
    BY <1>3 DEF T!OfIssue
  <2> HIDE DEF first, assignment
  <2> QED
    BY <1>1, <2>1, TwoTodo
<1>4. CASE hook.kind = "labeled"
  <2>1. T!OfIssue(hook, i, issue) = T!SelfMergeScheduled(i, issue, hook.actor)
    BY <1>4 DEF T!OfIssue
  <2> QED
    BY <2>1, SelfMergeTodo, NoTodo, OneTodo
<1>5. CASE hook.kind \in {"reopened", "closed", "comment"}
  <2>1. PICK kind, print : /\ T!OfIssue(hook, i, issue) = <<Say(kind, print)>>
                           /\ kind # "issue-opened"
    BY <1>5 DEF T!OfIssue
  <2>2. NoticeOK(Say(kind, print))
    BY <2>1, Plain
  <2> HIDE DEF Say
  <2> QED
    BY <2>1, <2>2, OneTodo
<1> QED
  BY <1>2, <1>3, <1>4, <1>5 DEF T!IssueKinds

\* What is said of a pull request that closes an Issue.
LEMMA PullTodo ==
  ASSUME NEW hook, hook.kind \in T!PullKinds, NEW pull, pull.issue \in T!Issues, NEW issue,
         NEW codes
  PROVE  TodoOK(IF hook.kind \in {"failure", "success"}
                THEN T!OfCheck(hook, pull, issue, codes) ELSE T!OfPull(hook, pull, issue))
<1> DEFINE q == IF hook.kind \in {"failure", "success"}
                THEN T!OfCheck(hook, pull, issue, codes) ELSE T!OfPull(hook, pull, issue)
           unreviewed == codes = {"AR-PR-004"}
           failed == T!Notice(pull.issue, issue, "ci-failed", <<pull.head, codes>>,
                       <<hook.actor, IF unreviewed THEN {} ELSE issue.assignees, hook.id>>)
           ready == T!Notice(pull.issue, issue, "self-merge-ready", <<pull.head>>,
                      <<hook.actor, issue.assignees>>)
           pushed == T!Notice(pull.issue, issue, "revision-pushed", <<pull.head>>,
                       <<hook.actor, {}>>)
           merged == T!Notice(pull.issue, issue, "pr-merged", <<hook.id, pull.head>>,
                       <<hook.actor, issue.assignees>>)
<1>0. NoticeOK(failed) /\ NoticeOK(ready) /\ NoticeOK(pushed) /\ NoticeOK(merged)
  BY Plain
<1>1. CASE hook.kind \in {"failure", "success"}
  <2>1. T!OfCheck(hook, pull, issue, codes) \in {<<>>, <<failed>>, <<ready>>}
    <3>1. CASE pull.draft \/ ~pull.open \/ (unreviewed /\ pull.requested)
      BY <3>1 DEF T!OfCheck
    <3>2. CASE /\ ~(pull.draft \/ ~pull.open \/ (unreviewed /\ pull.requested))
               /\ hook.kind = "failure"
      BY <3>2 DEF T!OfCheck
    <3>3. CASE /\ ~(pull.draft \/ ~pull.open \/ (unreviewed /\ pull.requested))
               /\ hook.kind # "failure"
      BY <3>3 DEF T!OfCheck
    <3> QED
      BY <3>1, <3>2, <3>3
  <2> HIDE DEF failed, ready
  <2> QED
    BY <1>0, <1>1, <2>1, NoTodo, OneTodo
<1>2. CASE hook.kind \in {"synchronize", "merged"}
  <2>1. T!OfPull(hook, pull, issue) \in {<<>>, <<pushed>>, <<merged>>}
    <3>1. CASE hook.kind = "synchronize"
      <4>1. T!OfPull(hook, pull, issue) = IF pull.returned THEN <<pushed>> ELSE <<>>
        BY <3>1 DEF T!OfPull, T!Said
      <4> HIDE DEF pushed
      <4> QED
        BY <4>1
    <3>2. CASE hook.kind = "merged"
      <4>1. T!OfPull(hook, pull, issue) = <<merged>>
        BY <3>2 DEF T!OfPull, T!Said
      <4> HIDE DEF merged
      <4> QED
        BY <4>1
    <3> QED
      BY <1>2, <3>1, <3>2
  <2> HIDE DEF pushed, merged
  <2> QED
    BY <1>0, <1>2, <2>1, NoTodo, OneTodo
<1>3. CASE hook.kind \in DOMAIN T!Said
  <2>1. /\ T!Said[hook.kind] # "issue-opened"
        /\ hook.kind \notin {"failure", "success", "synchronize", "merged"}
    BY <1>3 DEF T!Said
  <2>2. \E print, says :
          q = <<T!Notice(pull.issue, issue, T!Said[hook.kind], print, says)>>
    BY <1>3, <2>1 DEF T!OfPull
  <2> QED
    BY <2>1, <2>2, Plain, OneTodo
<1> QED
  BY <1>1, <1>2, <1>3 DEF T!PullKinds

LEMMA OwedTodo ==
  ASSUME NEW hook, NEW subject, NEW world, NEW codes, T!Fits(hook, subject, world)
  PROVE  TodoOK(T!Owed(hook, subject, world, codes))
<1>1. CASE subject \in T!Issues
  BY <1>1, IssueTodo DEF T!Owed, T!Fits
<1>2. CASE subject \notin T!Issues /\ world[subject].issue = None
  BY <1>2, NoTodo DEF T!Owed
<1>3. CASE subject \notin T!Issues /\ world[subject].issue # None
  <2> DEFINE pull == world[subject]
  <2>1. hook.kind \in T!PullKinds /\ pull.issue \in T!Issues
    BY <1>3 DEF T!Fits, T!Issues
  <2>2. T!Owed(hook, subject, world, codes)
          = IF hook.kind \in {"failure", "success"}
            THEN T!OfCheck(hook, pull, world[pull.issue], codes)
            ELSE T!OfPull(hook, pull, world[pull.issue])
    BY <1>3 DEF T!Owed
  <2> HIDE DEF pull
  <2> QED
    BY <2>1, <2>2, PullTodo
<1> QED
  BY <1>1, <1>2, <1>3
-----------------------------------------------------------------------------
(* What a step of one worker, or of the outside, leaves to the others. *)

\* Messages, intents and the root stay; the thread's revision tells its status.
Extends ==
  /\ UNCHANGED scene
  /\ \A ts \in DOMAIN channel : ts \in DOMAIN channel' /\ channel'[ts] = channel[ts]
  /\ thread.revision <= thread'.revision
  /\ thread.status = "ready" => thread' = thread
  /\ thread.revision = thread'.revision => thread'.status = thread.status
  /\ \A n \in DOMAIN intents :
       /\ n \in DOMAIN intents' /\ intents'[n].under = intents[n].under
       /\ intents[n].status = "sent" => intents'[n] = intents[n]

\* Nobody else settles or posts what a worker waits for.
Spared(n) == intents'[n] = intents[n] /\ \A ts \in DOMAIN channel' : channel'[ts].notice # n

Apart(w) ==
  \A v \in Workers \ {w} :
    Waits(step[v]) => \A n \in DOMAIN intents : n = Called(step[v], job[v]) => Spared(n)

Others(w) ==
  \A v \in Workers \ {w} : step'[v] = step[v] /\ job'[v] = job[v] /\ claim'[v] = claim[v]

WorkersOK == (\A w \in Workers : WorkerOK(w)) /\ WaitersDiffer

LEMMA ChannelStays ==
  ASSUME Extends, NEW n, T!InChannel(n)
  PROVE  T!InChannel(n)'
  BY DEF Extends, T!InChannel

\* A worker's job is no matter of the store.
LEMMA JobStays ==
  ASSUME UNCHANGED scene, NEW s, NEW j, JobOK(s, j)
  PROVE  JobOK(s, j)'
  BY DEF JobOK, Hooks

\* Nor is its place, but for what the store may not take back.
LEMMA PlaceStays ==
  ASSUME Extends, thread \in T!Thread, thread' \in T!Thread,
         NEW s, NEW j, NEW c \in Nat, PlaceOK(s, j, c),
         Waits(s) => \A n \in DOMAIN intents : n = Called(s, j) => Spared(n)
  PROVE  PlaceOK(s, j, c)'
<1>1. ASSUME s \in Past
      PROVE  \/ Now(j).issue = Work \/ Opens(j)
             \/ T!InChannel(T!OverviewId(Now(j).issue))'
  BY <1>1, ChannelStays DEF PlaceOK
<1>2. s \in {"reply", "wait"} => thread'.status = "ready"
  BY DEF PlaceOK, Extends
<1>3. s \in {"call_root", "wait_root", "save_root"} =>
        c <= thread'.revision /\ (c = thread'.revision => thread'.status = "creating")
  BY DEF PlaceOK, Extends, T!Thread
<1>4. ASSUME s = "save_root"
      PROVE  /\ T!Id(RootOf(j)) \in DOMAIN intents'
             /\ intents'[T!Id(RootOf(j))].status = "sent"
             /\ intents'[T!Id(RootOf(j))].under = 0
  BY <1>4 DEF PlaceOK, Extends
<1>5. ASSUME s = "mark"
      PROVE  OwnsRoot(j) \/ T!InChannel(T!Id(Now(j)))'
  BY <1>5, ChannelStays DEF PlaceOK
<1>6. ASSUME s = "setup"
      PROVE  Opens(j) /\ (Now(j).issue = Work \/ T!InChannel(T!Id(Now(j)))')
  BY <1>6, ChannelStays DEF PlaceOK
<1>7. ASSUME Waits(s)
      PROVE  /\ Called(s, j) \in DOMAIN intents'
             /\ intents'[Called(s, j)].status = "sending"
             /\ ~T!InChannel(Called(s, j))'
             /\ s = "wait_root" => intents'[Called(s, j)].under = 0
  <2> DEFINE n == Called(s, j)
  <2>1. /\ n \in DOMAIN intents /\ intents[n].status = "sending"
        /\ s = "wait_root" => intents[n].under = 0
    BY <1>7 DEF PlaceOK
  <2>2. Spared(n)
    BY <1>7, <2>1
  <2>3. n \in DOMAIN intents'
    BY <2>1 DEF Extends
  <2> HIDE DEF n
  <2>4. ~T!InChannel(n)'
    BY <2>2 DEF Spared, T!InChannel
  <2> QED
    BY <2>1, <2>2, <2>3, <2>4 DEF Spared, n
<1> QED
  BY <1>1, <1>2, <1>3, <1>4, <1>5, <1>6, <1>7 DEF PlaceOK

\* The worker that steps has found its place, and waits for nothing another waits
\* for: all are in theirs.
LEMMA WorkersStay ==
  ASSUME IInv, Extends, thread' \in T!Thread, NEW w \in Workers, Others(w), Apart(w),
         NEW s, NEW j, NEW c \in Nat, s = step'[w], j = job'[w], c = claim'[w],
         JobOK(s, j), PlaceOK(s, j, c)',
         Waits(s) => \A v \in Workers \ {w} : Waits(step[v]) => Called(step[v], job[v]) # Called(s, j)
  PROVE  WorkersOK'
<1>1. ASSUME NEW v \in Workers \ {w}
      PROVE  WorkerOK(v)'
  <2>0. PICK cv \in Nat : cv = claim[v]
    BY DEF IInv, ServiceOK
  <2>1. PICK sv, jv : sv = step[v] /\ jv = job[v] /\ cv = claim[v]
    BY <2>0
  <2>2. sv = step'[v] /\ jv = job'[v] /\ cv = claim'[v]
    BY <2>1 DEF Others
  <2>3. JobOK(sv, jv) /\ PlaceOK(sv, jv, cv)
    BY <2>1 DEF IInv, WorkerOK
  <2>4. Waits(sv) => \A n \in DOMAIN intents : n = Called(sv, jv) => Spared(n)
    BY <2>1 DEF Apart
  <2>5. JobOK(sv, jv)' /\ PlaceOK(sv, jv, cv)'
    BY <2>3, <2>4, JobStays, PlaceStays DEF IInv, StoreOK, Extends
  <2> QED
    BY <2>2, <2>5 DEF WorkerOK
<1>2. JobOK(s, j)'
  BY JobStays DEF Extends
<1>3. WorkerOK(w)'
  BY <1>2 DEF WorkerOK
<1>4. WaitersDiffer'
  <2> SUFFICES ASSUME NEW v \in Workers, NEW u \in Workers, v # u,
                      Waits(step'[v]), Waits(step'[u]),
                      Called(step'[v], job'[v]) = Called(step'[u], job'[u])
               PROVE  FALSE
    BY DEF WaitersDiffer
  <2>1. CASE v = w
    BY <2>1 DEF Others
  <2>2. CASE u = w
    BY <2>2 DEF Others
  <2>3. CASE v # w /\ u # w
    BY <2>3 DEF Others, IInv, WaitersDiffer
  <2> QED
    BY <2>1, <2>2, <2>3
<1> QED
  BY <1>1, <1>3, <1>4 DEF WorkersOK

\* A step of nobody.
LEMMA AllStay ==
  ASSUME IInv, Extends, thread' \in T!Thread, UNCHANGED <<step, job, claim>>,
         \A v \in Workers : Waits(step[v]) =>
           \A n \in DOMAIN intents : n = Called(step[v], job[v]) => Spared(n)
  PROVE  WorkersOK'
<1>1. ASSUME NEW v \in Workers
      PROVE  WorkerOK(v)'
  <2>0. PICK cv \in Nat : cv = claim[v]
    BY DEF IInv, ServiceOK
  <2>1. PICK sv, jv : sv = step[v] /\ jv = job[v] /\ cv = claim[v]
    BY <2>0
  <2>2. sv = step'[v] /\ jv = job'[v] /\ cv = claim'[v]
    BY <2>1
  <2>3. JobOK(sv, jv) /\ PlaceOK(sv, jv, cv)
    BY <2>1 DEF IInv, WorkerOK
  <2>4. Waits(sv) => \A n \in DOMAIN intents : n = Called(sv, jv) => Spared(n)
    BY <2>1
  <2>5. JobOK(sv, jv)' /\ PlaceOK(sv, jv, cv)'
    BY <2>3, <2>4, JobStays, PlaceStays DEF IInv, StoreOK, Extends
  <2> QED
    BY <2>2, <2>5 DEF WorkerOK
<1>2. WaitersDiffer'
  BY DEF IInv, WaitersDiffer
<1> QED
  BY <1>1, <1>2 DEF WorkersOK
-----------------------------------------------------------------------------
(* The way of a worker. *)

LEMMA Sight ==
  ASSUME NEW w
  PROVE  /\ T!Current(w) = Now(job[w]) /\ T!OnOverview(w) = Opens(job[w])
         /\ T!OwnRoot(w) = OwnsRoot(job[w]) /\ T!RootFor(w) = RootOf(job[w])
         /\ T!ForRoot(w) = OnRoot(step[w]) /\ T!Intent(w) = Called(step[w], job[w])
         /\ T!Waiting(w) = Waits(step[w])
  BY DEF T!Current, Now, T!OnOverview, Opens, T!OwnRoot, OwnsRoot, T!RootFor, RootOf,
         T!ForRoot, OnRoot, T!Intent, T!Delivering, Called, T!Waiting, Waits

\* The notice a job is at.
LEMMA NowFacts ==
  ASSUME NEW j, TodoOK(j.todo), j.todo # <<>>, j.opening \in BOOLEAN
  PROVE  /\ NoticeOK(Head(j.todo)) /\ TodoOK(Tail(j.todo)) /\ NoticeOK(Now(j))
         /\ Now(j).issue = Head(j.todo).issue
         /\ j.opening => /\ Opens(j) /\ T!Id(Now(j)) = T!OverviewId(Head(j.todo).issue)
                         /\ T!Adrift(Now(j)) = T!Adrift(Head(j.todo))
         /\ ~j.opening => Now(j) = Head(j.todo)
         /\ Opens(j) => T!Id(Now(j)) = T!OverviewId(Now(j).issue)
<1> DEFINE n == Head(j.todo)
<1>1. NoticeOK(n) /\ TodoOK(Tail(j.todo))
  BY Lefts
<1> HIDE DEF n
<1>2. CASE j.opening
  <2>1. Now(j) = T!Overview(n.issue, n.seen)
    BY <1>2 DEF Now, n
  <2>2. /\ T!Overview(n.issue, n.seen).issue = n.issue
        /\ T!Overview(n.issue, n.seen).kind = "issue-opened"
        /\ T!Overview(n.issue, n.seen).print = <<"opened">>
        /\ T!Overview(n.issue, n.seen).seen = n.seen
        /\ T!Overview(n.issue, n.seen).says[2] = n.seen.assignees
        /\ T!Id(T!Overview(n.issue, n.seen)) = T!OverviewId(n.issue)
    BY Overviews
  <2> QED
    BY <1>1, <1>2, <2>1, <2>2 DEF NoticeOK, Opens, T!Adrift, n
<1>3. CASE ~j.opening
  <2>1. Now(j) = n
    BY <1>3 DEF Now, n
  <2>2. Opens(j) => T!Id(n) = T!OverviewId(n.issue)
    BY <1>1, <2>1 DEF NoticeOK, Opens, T!Id, T!OverviewId
  <2> QED
    BY <1>1, <1>3, <2>1, <2>2 DEF n
<1> QED
  BY <1>2, <1>3

LEMMA BusyFacts ==
  ASSUME NEW s \in Busy, NEW j, JobOK(s, j)
  PROVE  /\ j.opening \in BOOLEAN /\ TodoOK(j.todo) /\ j.todo # <<>>
         /\ j.event \in DOMAIN Hooks /\ j.rest \in Seq(Elements(Hooks[j.event].about))
         /\ DOMAIN j = {"event", "rest", "todo", "opening", "parent"}
         /\ j.opening => Head(j.todo).issue # Work /\ ~T!Adrift(Head(j.todo))
  BY DEF JobOK, Busy, Past

\* The called notice is one of a known Issue, and its overview is in the channel.
LEMMA CalledFacts ==
  ASSUME NEW s \in Past, NEW j, NEW c, JobOK(s, j), PlaceOK(s, j, c)
  PROVE  LET n == Called(s, j)
         IN  /\ n.issue \in T!Issues
             /\ n.issue \in Tasks /\ n # T!OverviewId(n.issue) => T!InChannel(T!OverviewId(n.issue))
<1>1. s \in Busy
  BY DEF Busy
<1>2. NoticeOK(Now(j)) /\ (Opens(j) => T!Id(Now(j)) = T!OverviewId(Now(j).issue))
  BY <1>1, BusyFacts, NowFacts
<1>3. CASE OnRoot(s)
  <2>1. Called(s, j).issue = Work
    BY <1>3, Roots, Ids DEF Called, RootOf, OwnsRoot
  <2> QED
    BY <2>1, PipelineAssumption DEF T!ThreadAssumption, T!Issues
<1>4. CASE ~OnRoot(s)
  <2>1. Called(s, j) = T!Id(Now(j)) /\ T!Id(Now(j)).issue = Now(j).issue
    BY <1>4, Ids DEF Called
  <2>2. Now(j).issue \in T!Issues
    BY <1>2 DEF NoticeOK
  <2>3. Now(j).issue = Work \/ Opens(j) \/ T!InChannel(T!OverviewId(Now(j).issue))
    BY DEF PlaceOK
  <2> QED
    BY <1>2, <2>1, <2>2, <2>3, PipelineAssumption DEF T!ThreadAssumption
<1> QED
  BY <1>3, <1>4

\* A worker that goes somewhere, and has its place there.
LEMMA Arrives ==
  ASSUME IInv, Extends, thread' \in T!Thread, NEW w \in Workers, NEW s \in T!Steps, NEW j,
         T!Go(w, s, j), Apart(w), DOMAIN setup' = T!Issues,
         NEW c \in Nat, c = claim[w], JobOK(s, j), PlaceOK(s, j, c)',
         Waits(s) => \A v \in Workers \ {w} : Waits(step[v]) => Called(step[v], job[v]) # Called(s, j)
  PROVE  WorkersOK' /\ ServiceOK'
<1>1. /\ step' = [step EXCEPT ![w] = s] /\ job' = [job EXCEPT ![w] = j] /\ claim' = claim
      /\ step \in [Workers -> T!Steps] /\ DOMAIN job = Workers /\ claim \in [Workers -> Nat]
  BY DEF T!Go, IInv, ServiceOK
<1>2. step'[w] = s /\ job'[w] = j /\ claim'[w] = c /\ Others(w)
  BY <1>1 DEF Others
<1>3. WorkersOK'
  BY <1>2, WorkersStay
<1>4. ServiceOK'
  BY <1>1 DEF ServiceOK
<1> QED
  BY <1>3, <1>4

\* One that has its place in the store as it is.
LEMMA Goes ==
  ASSUME IInv, Extends, thread' \in T!Thread, NEW w \in Workers, NEW s \in T!Steps, NEW j,
         T!Go(w, s, j), Apart(w), DOMAIN setup' = T!Issues, ~Waits(s),
         JobOK(s, j), PlaceOK(s, j, claim[w])
  PROVE  WorkersOK' /\ ServiceOK'
<1>1. PICK c \in Nat : c = claim[w]
  BY DEF IInv, ServiceOK
<1>2. thread \in T!Thread
  BY DEF IInv, StoreOK
<1>3. PlaceOK(s, j, c)'
  BY <1>1, <1>2, PlaceStays
<1> QED
  BY <1>1, <1>3, Arrives

\* One that stops.
LEMMA Leaves ==
  ASSUME IInv, Extends, thread' \in T!Thread, NEW w \in Workers, T!Leave(w), Apart(w),
         UNCHANGED setup
  PROVE  WorkersOK' /\ ServiceOK'
<1>1. /\ step' = [step EXCEPT ![w] = "rest"] /\ job' = [job EXCEPT ![w] = T!NoJob]
      /\ claim' = [claim EXCEPT ![w] = 0]
      /\ step \in [Workers -> T!Steps] /\ DOMAIN job = Workers /\ claim \in [Workers -> Nat]
      /\ DOMAIN setup = T!Issues
  BY DEF T!Leave, IInv, ServiceOK
<1>2. step'[w] = "rest" /\ job'[w] = T!NoJob /\ claim'[w] = 0 /\ Others(w)
  BY <1>1 DEF Others
<1>3. JobOK("rest", T!NoJob)
  BY NoTodo DEF JobOK, T!NoJob, Busy, Past
<1>4. PlaceOK("rest", T!NoJob, 0)'
  BY DEF PlaceOK, Past, Waits
<1>5. WorkersOK'
  <2> DEFINE j == T!NoJob
  <2>1. PICK k : k = j
    OBVIOUS
  <2>2. JobOK("rest", k) /\ PlaceOK("rest", k, 0)'
    BY <1>3, <1>4, <2>1
  <2>3. ~Waits("rest")
    BY DEF Waits
  <2> QED
    BY <1>2, <2>1, <2>2, <2>3, WorkersStay
<1>6. ServiceOK'
  <2>1. "rest" \in T!Steps
    BY DEF T!Steps
  <2> QED
    BY <1>1, <2>1 DEF ServiceOK
<1> QED
  BY <1>5, <1>6

\* A worker that goes to some step with what it has in hand.
Sent(w) ==
  \E j : \E s \in T!Steps : /\ T!Go(w, s, j) /\ ~Waits(s)
                            /\ JobOK(s, j) /\ PlaceOK(s, j, claim[w])

LEMMA SentGoes ==
  ASSUME IInv, Extends, thread' \in T!Thread, NEW w \in Workers, Sent(w), Apart(w),
         DOMAIN setup' = T!Issues
  PROVE  WorkersOK' /\ ServiceOK'
  BY Goes DEF Sent

\* To the root, with the notice unless its overview is missing.
LEMMA ToRootSent ==
  ASSUME IInv, NEW w \in Workers, NEW s \in Busy, NEW j, JobOK(s, j), T!ToRoot(w, j),
         Now(j).issue = Work \/ Opens(j) \/ T!InChannel(T!OverviewId(Now(j).issue))
  PROVE  Sent(w)
<1> DEFINE n == Head(j.todo)
           p == IF n.issue = Work THEN n.seen ELSE T!Course[now][Work]
           k == [j EXCEPT !.parent = p]
<1>1. T!Go(w, "root", k)
  BY DEF T!ToRoot
<1>2. /\ k.event = j.event /\ k.rest = j.rest /\ k.todo = j.todo /\ k.opening = j.opening
      /\ DOMAIN k = {"event", "rest", "todo", "opening", "parent"}
  BY BusyFacts
<1> HIDE DEF k
<1>3. Now(k) = Now(j) /\ Opens(k) = Opens(j)
  BY <1>2 DEF Now, Opens
<1>4. JobOK("root", k)
  BY <1>2, BusyFacts DEF JobOK
<1>5. PlaceOK("root", k, claim[w])
  BY <1>3 DEF PlaceOK, Waits
<1>6. "root" \in T!Steps /\ ~Waits("root")
  BY DEF T!Steps, Waits
<1> QED
  BY <1>1, <1>4, <1>5, <1>6 DEF Sent

\* On to the next notice, or to the one whose overview it was.
LEMMA OnwardSent ==
  ASSUME IInv, NEW w \in Workers, step[w] \in Busy, T!Onward(w),
         job[w].opening => T!InChannel(T!OverviewId(Now(job[w]).issue))
  PROVE  Sent(w)
<1>1. PICK s \in Busy : s = step[w]
  OBVIOUS
<1>2. PICK j : j = job[w]
  OBVIOUS
<1>3. JobOK(s, j)
  BY <1>1, <1>2 DEF IInv, WorkerOK
<1>4. /\ j.opening \in BOOLEAN /\ TodoOK(j.todo) /\ j.todo # <<>>
      /\ j.event \in DOMAIN Hooks /\ j.rest \in Seq(Elements(Hooks[j.event].about))
      /\ DOMAIN j = {"event", "rest", "todo", "opening", "parent"}
      /\ j.opening => Head(j.todo).issue # Work /\ ~T!Adrift(Head(j.todo))
  BY <1>3, BusyFacts
<1>5. CASE j.opening
  <2> DEFINE k == [j EXCEPT !.opening = FALSE]
  <2>1. T!ToRoot(w, k)
    BY <1>2, <1>5 DEF T!Onward
  <2>2. /\ k.event = j.event /\ k.rest = j.rest /\ k.todo = j.todo /\ k.opening = FALSE
        /\ DOMAIN k = {"event", "rest", "todo", "opening", "parent"}
    BY <1>4
  <2> HIDE DEF k
  <2>3. JobOK("root", k)
    BY <1>4, <2>2 DEF JobOK
  <2>4. Now(k).issue = Now(j).issue
    BY <1>4, <2>2, NowFacts
  <2>5. "root" \in Busy
    BY DEF Busy, Past
  <2> QED
    BY <1>2, <1>5, <2>1, <2>3, <2>4, <2>5, ToRootSent
<1>6. CASE ~j.opening
  <2> DEFINE left == Tail(j.todo)
             k1 == [j EXCEPT !.todo = left]
             k == [k1 EXCEPT !.parent = None]
  <2>1. /\ k1.event = j.event /\ k1.rest = j.rest /\ k1.todo = left /\ k1.opening = FALSE
        /\ DOMAIN k1 = {"event", "rest", "todo", "opening", "parent"}
    BY <1>4, <1>6
  <2>2. \E s1 \in {"load", "consume", "check"} :
          T!Go(w, s1, k) /\ (s1 # "load" => left # <<>>)
    <3>1. k = [j EXCEPT !.todo = left, !.parent = None]
      OBVIOUS
    <3> HIDE DEF k
    <3> QED
      BY <1>2, <1>6, <3>1 DEF T!Onward
  <2>3. TodoOK(left)
    BY <1>4, Lefts
  <2> HIDE DEF k1, left
  <2>4. /\ k.event = j.event /\ k.rest = j.rest /\ k.todo = left /\ k.opening = FALSE
        /\ DOMAIN k = {"event", "rest", "todo", "opening", "parent"}
    BY <2>1
  <2> HIDE DEF k
  <2>5. PICK s1 \in {"load", "consume", "check"} :
          T!Go(w, s1, k) /\ (s1 # "load" => left # <<>>)
    BY <2>2
  <2>6. JobOK(s1, k)
    BY <1>4, <2>3, <2>4, <2>5 DEF JobOK, Busy, Past
  <2>7. PlaceOK(s1, k, claim[w])
    BY DEF PlaceOK, Past, Waits
  <2>8. s1 \in T!Steps /\ ~Waits(s1)
    BY DEF T!Steps, Waits
  <2> QED
    BY <2>5, <2>6, <2>7, <2>8 DEF Sent
<1> QED
  BY <1>4, <1>5, <1>6
-----------------------------------------------------------------------------
(* The store: the thread, the intents, the channel and what is remembered. *)

LEMMA ChannelFacts ==
  ASSUME StoreOK
  PROVE  /\ Len(channel) \in Nat /\ DOMAIN channel = 1..Len(channel)
         /\ \A ts \in DOMAIN channel : /\ channel[ts] \in [notice : DOMAIN intents, under : Nat]
                                       /\ channel[ts].notice \in DOMAIN intents
                                       /\ channel[ts].under \in Nat
         /\ 0 \notin DOMAIN channel
<1> DEFINE S == [notice : DOMAIN intents, under : Nat]
<1>1. channel \in Seq(S)
  BY DEF StoreOK, ChannelOK
<1> HIDE DEF S
<1>2. /\ Len(channel) \in Nat /\ DOMAIN channel = 1..Len(channel)
      /\ \A ts \in DOMAIN channel : channel[ts] \in S
  BY <1>1, LenProperties
<1> QED
  BY <1>2 DEF S

\* A step that leaves the store alone.
LEMMA StoreSame ==
  ASSUME StoreOK, UNCHANGED <<scene, thread, intents, channel, notified>>
  PROVE  StoreOK' /\ Extends /\ thread' \in T!Thread
<1>1. \A n \in DOMAIN intents : IntentOK(n)'
  BY DEF StoreOK, IntentOK, T!InChannel
<1>2. ThreadOK' /\ ChannelOK'
  BY DEF StoreOK, ThreadOK, ChannelOK
<1>3. NotifiedOK'
  BY DEF StoreOK, NotifiedOK, T!InChannel
<1>4. RepliesShareRoot' /\ NoticeOnce'
  BY DEF StoreOK, RepliesShareRoot, NoticeOnce, T!RepliesShareRoot, T!NoticeOnce
<1>5. OverviewFirst'
  BY DEF StoreOK, OverviewFirst, T!OverviewFirst, T!InChannel
<1>6. Extends
  BY DEF Extends, StoreOK, T!Thread
<1> QED
  BY <1>1, <1>2, <1>3, <1>4, <1>5, <1>6 DEF StoreOK

\* One that only moves the thread, which has no root yet.
LEMMA StoreRoot ==
  ASSUME StoreOK, UNCHANGED <<scene, intents, channel, notified>>, thread.status # "ready",
         thread' \in T!Thread, thread.revision <= thread'.revision,
         thread.revision = thread'.revision => thread'.status = thread.status,
         thread'.status = "ready" =>
           thread'.root \in DOMAIN channel /\ channel[thread'.root].under = 0
  PROVE  StoreOK' /\ Extends
<1>1. ASSUME NEW n \in DOMAIN intents
      PROVE  IntentOK(n)'
  <2>1. IntentOK(n) /\ intents[n].under = 0
    BY DEF StoreOK, IntentOK
  <2> QED
    BY <2>1 DEF IntentOK, T!InChannel
<1>2. ThreadOK' /\ ChannelOK'
  BY DEF StoreOK, ThreadOK, ChannelOK
<1>3. NotifiedOK'
  BY DEF StoreOK, NotifiedOK, T!InChannel
<1>4. RepliesShareRoot' /\ NoticeOnce'
  BY DEF StoreOK, RepliesShareRoot, NoticeOnce, T!RepliesShareRoot, T!NoticeOnce
<1>5. OverviewFirst'
  BY DEF StoreOK, OverviewFirst, T!OverviewFirst, T!InChannel
<1>6. Extends
  BY DEF Extends
<1> QED
  BY <1>1, <1>2, <1>3, <1>4, <1>5, <1>6 DEF StoreOK

\* An intent that was not known is called for.
LEMMA StoreCall ==
  ASSUME StoreOK, UNCHANGED <<scene, thread, channel, notified>>, NEW n, n \notin DOMAIN intents,
         NEW under \in Nat, NEW says,
         intents' = [m \in DOMAIN intents \cup {n} |->
                       IF m = n THEN [status |-> "sending", under |-> under, ts |-> 0,
                                      says |-> says]
                       ELSE intents[m]],
         n.issue \in T!Issues,
         n.issue \in Tasks /\ n # T!OverviewId(n.issue) => T!InChannel(T!OverviewId(n.issue)),
         under # 0 => thread.status = "ready" /\ under = thread.root
  PROVE  /\ StoreOK' /\ Extends /\ thread' \in T!Thread
         /\ DOMAIN intents' = DOMAIN intents \cup {n}
         /\ intents'[n].status = "sending" /\ intents'[n].under = under
         /\ \A m \in DOMAIN intents : Spared(m) \/ T!InChannel(m)
         /\ ~T!InChannel(n)'
<1> DEFINE x == [status |-> "sending", under |-> under, ts |-> 0, says |-> says]
<1>1. /\ DOMAIN intents' = DOMAIN intents \cup {n} /\ intents'[n] = x
      /\ \A m \in DOMAIN intents : intents'[m] = intents[m]
  OBVIOUS
<1>2. /\ DOMAIN x = {"status", "under", "ts", "says"}
      /\ x.status = "sending" /\ x.under = under /\ x.ts = 0
  OBVIOUS
<1> HIDE DEF x
<1>3. \A m \in DOMAIN intents : IntentOK(m)'
  BY <1>1 DEF StoreOK, IntentOK, T!InChannel
<1>4. IntentOK(n)'
  BY <1>1, <1>2 DEF IntentOK, T!InChannel
<1>5. ThreadOK'
  BY DEF StoreOK, ThreadOK
<1>6. ChannelOK'
  <2>1. channel' \in Seq([notice : DOMAIN intents', under : Nat])
    <3>1. [notice : DOMAIN intents, under : Nat] \subseteq [notice : DOMAIN intents', under : Nat]
      BY <1>1
    <3> DEFINE S == [notice : DOMAIN intents, under : Nat]
               U == [notice : DOMAIN intents', under : Nat]
    <3>2. channel \in Seq(S) /\ S \subseteq U
      BY <3>1 DEF StoreOK, ChannelOK
    <3> HIDE DEF S, U
    <3>3. channel \in Seq(U)
      BY <3>2
    <3> QED
      BY <3>3 DEF U
  <2>2. \A ts \in DOMAIN channel : channel[ts].under = intents'[channel[ts].notice].under
    BY <1>1, ChannelFacts DEF StoreOK, ChannelOK
  <2> QED
    BY <2>1, <2>2 DEF ChannelOK
<1>7. NotifiedOK'
  BY DEF StoreOK, NotifiedOK, T!InChannel
<1>8. RepliesShareRoot' /\ NoticeOnce'
  BY DEF StoreOK, RepliesShareRoot, NoticeOnce, T!RepliesShareRoot, T!NoticeOnce
<1>9. OverviewFirst'
  BY DEF StoreOK, OverviewFirst, T!OverviewFirst, T!InChannel
<1>10. Extends
  BY <1>1 DEF Extends, StoreOK, T!Thread
<1>11. ~T!InChannel(n)'
  BY ChannelFacts DEF T!InChannel
<1>12. \A m \in DOMAIN intents : Spared(m) \/ T!InChannel(m)
  BY <1>1 DEF Spared, T!InChannel
<1> QED
  BY <1>1, <1>2, <1>3, <1>4, <1>5, <1>6, <1>7, <1>8, <1>9, <1>10, <1>11, <1>12 DEF StoreOK

\* A message is posted.
LEMMA PostFacts ==
  ASSUME StoreOK, NEW n \in DOMAIN intents, T!Post(n)
  PROVE  LET ts == Len(channel) + 1
         IN  /\ Len(channel) \in Nat /\ DOMAIN channel = 1..Len(channel)
             /\ DOMAIN channel' = 1..ts
             /\ \A t \in DOMAIN channel : channel'[t] = channel[t]
             /\ channel'[ts].notice = n /\ channel'[ts].under = intents[n].under
             /\ channel' \in Seq([notice : DOMAIN intents, under : Nat])
<1> DEFINE S == [notice : DOMAIN intents, under : Nat]
           x == [notice |-> n, under |-> intents[n].under]
<1>1. channel \in Seq(S)
  BY DEF StoreOK, ChannelOK
<1>2. x \in S /\ x.notice = n /\ x.under = intents[n].under
  BY DEF StoreOK, IntentOK
<1>3. channel' = Append(channel, x)
  BY DEF T!Post
<1> HIDE DEF x, S
<1>4. /\ channel' \in Seq(S) /\ Len(channel') = Len(channel) + 1
      /\ \A t \in 1..Len(channel) : channel'[t] = channel[t]
      /\ channel'[Len(channel) + 1] = x
  BY <1>1, <1>2, <1>3, AppendProperties
<1>5. /\ Len(channel) \in Nat /\ DOMAIN channel = 1..Len(channel)
      /\ DOMAIN channel' = 1..Len(channel')
  BY <1>1, <1>4, LenProperties
<1> QED
  BY <1>2, <1>4, <1>5 DEF S

\* An intent is settled, with or without its message.
SettledTo(n) ==
  LET x == intents'[n]
  IN  /\ DOMAIN intents' = DOMAIN intents
      /\ \A m \in DOMAIN intents \ {n} : intents'[m] = intents[m]
      /\ DOMAIN x = {"status", "under", "ts", "says"}
      /\ x.under = intents[n].under
      /\ x.status \in {"sending", "sent", "needs_review", "failed"}
      /\ x.ts \in Nat /\ (x.ts # 0 => x.ts \in DOMAIN channel')
      /\ x.status = "sent" => x.ts \in DOMAIN channel' /\ channel'[x.ts].notice = n

LEMMA StoreMoves ==
  ASSUME StoreOK, UNCHANGED <<scene, thread, notified>>, NEW n \in DOMAIN intents,
         SettledTo(n), channel' = channel \/ (T!Post(n) /\ ~T!InChannel(n)),
         intents[n].status = "sent" => intents' = intents
  PROVE  /\ StoreOK' /\ Extends /\ thread' \in T!Thread
         /\ \A m \in DOMAIN intents \ {n} : Spared(m) \/ T!InChannel(m)
<1> DEFINE x == intents'[n]
           last == Len(channel) + 1
<1>1. /\ Len(channel) \in Nat /\ DOMAIN channel = 1..Len(channel)
      /\ \A t \in DOMAIN channel : t \in DOMAIN channel' /\ channel'[t] = channel[t]
      /\ channel' \in Seq([notice : DOMAIN intents, under : Nat])
      /\ \A t \in DOMAIN channel' \ DOMAIN channel :
           /\ t = last /\ channel'[t].notice = n /\ channel'[t].under = intents[n].under
           /\ ~T!InChannel(n)
  <2>1. CASE channel' = channel
    BY <2>1, ChannelFacts DEF StoreOK, ChannelOK
  <2>2. CASE T!Post(n) /\ ~T!InChannel(n)
    <3>1. /\ Len(channel) \in Nat /\ DOMAIN channel = 1..Len(channel)
          /\ DOMAIN channel' = 1..last
          /\ \A t \in DOMAIN channel : channel'[t] = channel[t]
          /\ channel'[last].notice = n /\ channel'[last].under = intents[n].under
          /\ channel' \in Seq([notice : DOMAIN intents, under : Nat])
      BY <2>2, PostFacts
    <3>2. \A t \in DOMAIN channel' \ DOMAIN channel : t = last
      BY <3>1
    <3>3. \A t \in DOMAIN channel : t \in DOMAIN channel'
      BY <3>1
    <3> QED
      BY <2>2, <3>1, <3>2, <3>3
  <2> QED
    BY <2>1, <2>2
<1>2. ASSUME NEW m, T!InChannel(m)
      PROVE  T!InChannel(m)'
  BY <1>1, <1>2 DEF T!InChannel
<1>3. \A m \in DOMAIN intents : IntentOK(m)
  BY DEF StoreOK
<1>4. ASSUME NEW m \in DOMAIN intents
      PROVE  IntentOK(m)'
  <2>1. /\ m.issue \in T!Issues /\ intents[m].under \in Nat
        /\ intents[m].under # 0 => thread.status = "ready" /\ intents[m].under = thread.root
        /\ m.issue \in Tasks /\ m # T!OverviewId(m.issue) => T!InChannel(T!OverviewId(m.issue))'
    BY <1>2, <1>3 DEF IntentOK
  <2>2. CASE m = n
    BY <2>1, <2>2 DEF SettledTo, IntentOK
  <2>3. CASE m # n
    <3>1. intents'[m] = intents[m]
      BY <2>3 DEF SettledTo
    <3>2. /\ DOMAIN intents[m] = {"status", "under", "ts", "says"}
          /\ intents[m].ts \in Nat
          /\ intents[m].status \in {"sending", "sent", "needs_review", "failed"}
          /\ intents[m].ts # 0 => intents[m].ts \in DOMAIN channel'
          /\ intents[m].status = "sent" =>
               intents[m].ts \in DOMAIN channel' /\ channel'[intents[m].ts].notice = m
      BY <1>1, <1>3 DEF IntentOK
    <3> QED
      BY <2>1, <3>1, <3>2 DEF IntentOK
  <2> QED
    BY <2>2, <2>3
<1>5. ThreadOK'
  BY <1>1 DEF StoreOK, ThreadOK
<1>6. \A m \in DOMAIN intents : intents'[m].under = intents[m].under
  BY DEF SettledTo
<1>7. ChannelOK'
  <2>1. \A t \in DOMAIN channel' : channel'[t].under = intents'[channel'[t].notice].under
    BY <1>1, <1>6, ChannelFacts DEF StoreOK, ChannelOK
  <2> QED
    BY <1>1, <2>1 DEF ChannelOK, SettledTo
<1>8. NotifiedOK'
  BY <1>2 DEF StoreOK, NotifiedOK
<1>9. RepliesShareRoot'
  <2>1. ASSUME NEW t \in DOMAIN channel', channel'[t].under # 0
        PROVE  /\ thread.status = "ready" /\ channel'[t].under = thread.root
               /\ thread.root < t /\ channel'[thread.root].under = 0
    <3>1. CASE t \in DOMAIN channel
      BY <1>1, <2>1, <3>1 DEF StoreOK, RepliesShareRoot, T!RepliesShareRoot, ThreadOK
    <3>2. CASE t \notin DOMAIN channel
      <4>1. t = last /\ intents[n].under # 0 /\ channel'[t].under = intents[n].under
        BY <1>1, <2>1, <3>2
      <4>2. thread.status = "ready" /\ intents[n].under = thread.root
        BY <1>3, <4>1 DEF IntentOK
      <4>3. thread.root \in DOMAIN channel /\ channel[thread.root].under = 0
        BY <4>2 DEF StoreOK, ThreadOK
      <4> QED
        BY <1>1, <4>1, <4>2, <4>3
    <3> QED
      BY <3>1, <3>2
  <2> QED
    BY <2>1 DEF RepliesShareRoot, T!RepliesShareRoot
<1>10. NoticeOnce'
  <2>1. ASSUME NEW s \in DOMAIN channel', NEW t \in DOMAIN channel',
               channel'[s].notice = channel'[t].notice, s # t
        PROVE  FALSE
    <3>1. CASE s \in DOMAIN channel /\ t \in DOMAIN channel
      BY <1>1, <2>1, <3>1 DEF StoreOK, NoticeOnce, T!NoticeOnce
    <3>2. CASE s \notin DOMAIN channel \/ t \notin DOMAIN channel
      BY <1>1, <2>1, <3>2 DEF T!InChannel
    <3> QED
      BY <3>1, <3>2
  <2> QED
    BY <2>1 DEF NoticeOnce, T!NoticeOnce
<1>11. OverviewFirst'
  <2>1. ASSUME NEW t \in DOMAIN channel', NEW m, m = channel'[t].notice,
               m.issue \in Tasks, m # T!OverviewId(m.issue)
        PROVE  \E first \in 1..(t - 1) : channel'[first].notice = T!OverviewId(m.issue)
    <3>1. CASE t \in DOMAIN channel
      <4>1. PICK first \in 1..(t - 1) : channel[first].notice = T!OverviewId(m.issue)
        BY <1>1, <2>1, <3>1 DEF StoreOK, OverviewFirst, T!OverviewFirst
      <4>2. first \in DOMAIN channel
        BY <1>1, <3>1
      <4> QED
        BY <1>1, <4>1, <4>2
    <3>2. CASE t \notin DOMAIN channel
      <4>1. m = n /\ t = last
        BY <1>1, <2>1, <3>2
      <4>2. PICK first \in DOMAIN channel : channel[first].notice = T!OverviewId(m.issue)
        BY <1>3, <2>1, <4>1 DEF IntentOK, T!InChannel
      <4> QED
        BY <1>1, <4>1, <4>2
    <3> QED
      BY <3>1, <3>2
  <2>2. \A m \in notified' \ {T!OverviewId(Work)} : T!InChannel(m)'
    BY <1>8 DEF NotifiedOK
  <2> QED
    BY <2>1, <2>2 DEF OverviewFirst, T!OverviewFirst
<1>12. Extends
  <2>1. thread.revision <= thread'.revision
    BY DEF StoreOK, T!Thread
  <2>2. \A m \in DOMAIN intents :
          /\ m \in DOMAIN intents' /\ intents'[m].under = intents[m].under
          /\ intents[m].status = "sent" => intents'[m] = intents[m]
    BY DEF SettledTo
  <2> QED
    BY <1>1, <2>1, <2>2 DEF Extends
<1>13. \A m \in DOMAIN intents \ {n} : Spared(m) \/ T!InChannel(m)
  <2>1. ASSUME NEW m \in DOMAIN intents \ {n}, ~T!InChannel(m)
        PROVE  Spared(m)
    BY <1>1, <2>1 DEF Spared, SettledTo, T!InChannel
  <2> QED
    BY <2>1
<1>14. \A m \in DOMAIN intents' : IntentOK(m)'
  BY <1>4 DEF SettledTo
<1> QED
  BY <1>5, <1>7, <1>8, <1>9, <1>10, <1>11, <1>12, <1>13, <1>14 DEF StoreOK

\* A notice that was posted is remembered.
LEMMA StoreMark ==
  ASSUME StoreOK, UNCHANGED <<scene, thread, intents, channel>>, NEW n,
         notified' = {m \in notified : m.issue # n.issue \/ m.kind # n.kind} \cup {n},
         n = T!OverviewId(Work) \/ T!InChannel(n)
  PROVE  StoreOK' /\ Extends /\ thread' \in T!Thread
<1>1. NotifiedOK'
  <2>1. \A m \in notified' \ {T!OverviewId(Work)} : T!InChannel(m)'
    BY DEF StoreOK, NotifiedOK, T!InChannel
  <2>2. ASSUME NEW m \in notified', NEW k \in notified', m.issue = k.issue, m.kind = k.kind
        PROVE  m = k
    BY <2>2 DEF StoreOK, NotifiedOK
  <2> QED
    BY <2>1, <2>2 DEF NotifiedOK
<1>2. \A m \in DOMAIN intents : IntentOK(m)'
  BY DEF StoreOK, IntentOK, T!InChannel
<1>3. ThreadOK' /\ ChannelOK'
  BY DEF StoreOK, ThreadOK, ChannelOK
<1>4. RepliesShareRoot' /\ NoticeOnce'
  BY DEF StoreOK, RepliesShareRoot, NoticeOnce, T!RepliesShareRoot, T!NoticeOnce
<1>5. OverviewFirst'
  <2>1. \A m \in notified' \ {T!OverviewId(Work)} : T!InChannel(m)'
    BY <1>1 DEF NotifiedOK
  <2> QED
    BY <2>1 DEF StoreOK, OverviewFirst, T!OverviewFirst
<1>6. Extends
  BY DEF Extends, StoreOK, T!Thread
<1> QED
  BY <1>1, <1>2, <1>3, <1>4, <1>5, <1>6 DEF StoreOK
-----------------------------------------------------------------------------
(* The steps of a worker, of a call and of the outside. *)

Kept == WorkersOK' /\ ServiceOK' /\ ScenesOK' /\ StoreOK' /\ Extends

\* What is waited for is not in the channel.
LEMMA WaitFacts ==
  ASSUME IInv, NEW v \in Workers, Waits(step[v])
  PROVE  /\ Called(step[v], job[v]) \in DOMAIN intents
         /\ intents[Called(step[v], job[v])].status = "sending"
         /\ ~T!InChannel(Called(step[v], job[v]))
  BY DEF IInv, WorkerOK, PlaceOK

LEMMA QuietApart ==
  ASSUME IInv, UNCHANGED <<intents, channel>>, NEW w
  PROVE  Apart(w)
<1> SUFFICES ASSUME NEW v \in Workers, Waits(step[v]), NEW n, n = Called(step[v], job[v])
             PROVE  Spared(n)
  BY DEF Apart
<1>1. ~T!InChannel(n)
  BY WaitFacts
<1> QED
  BY <1>1 DEF Spared, T!InChannel

LEMMA ScenesSame ==
  ASSUME IInv, UNCHANGED <<scene, now>>
  PROVE  ScenesOK'
  BY DEF IInv, ScenesOK, T!Course

LEMMA SetupSame ==
  ASSUME IInv, UNCHANGED setup
  PROVE  DOMAIN setup' = T!Issues
  BY DEF IInv, ServiceOK

\* A worker goes on and leaves the store alone.
LEMMA SentKept ==
  ASSUME IInv, NEW w \in Workers, Sent(w), DOMAIN setup' = T!Issues,
         UNCHANGED <<scene, now, thread, intents, channel, notified>>
  PROVE  Kept
<1>1. StoreOK' /\ Extends /\ thread' \in T!Thread
  BY StoreSame DEF IInv
<1>2. Apart(w) /\ ScenesOK'
  BY QuietApart, ScenesSame
<1> QED
  BY <1>1, <1>2, SentGoes DEF Kept

LEMMA GotoGo ==
  ASSUME NEW w, NEW s, T!Goto(w, s)
  PROVE  T!Go(w, s, job[w])
  BY DEF T!Goto

\* What the invariant says of a worker.
LEMMA Worker ==
  ASSUME IInv, NEW w \in Workers
  PROVE  JobOK(step[w], job[w]) /\ PlaceOK(step[w], job[w], claim[w])
  BY DEF IInv, WorkerOK

LEMMA StartKept ==
  ASSUME IInv, NEW w \in Workers, NEW e \in DOMAIN Hooks, T!Start(w, e)
  PROVE  Kept
<1> DEFINE k1 == [T!NoJob EXCEPT !.event = e]
           k == [k1 EXCEPT !.rest = Hooks[e].about]
<1>1. /\ k.event = e /\ k.rest = Hooks[e].about /\ k.todo = <<>> /\ k.opening = FALSE
      /\ DOMAIN k = {"event", "rest", "todo", "opening", "parent"}
  BY DEF T!NoJob
<1>2. T!Go(w, "load", k)
  <2>1. k = [T!NoJob EXCEPT !.event = e, !.rest = Hooks[e].about]
    BY DEF T!NoJob
  <2>2. T!Hooks = Hooks
    BY DEF T!Hooks, Hooks
  <2> HIDE DEF k
  <2> QED
    BY <2>1, <2>2 DEF T!Start
<1>3. Hooks[e].about \in Seq(Elements(Hooks[e].about))
  BY PipelineAssumption DEF T!ThreadAssumption, IInv, ScenesOK, Hooks, Elements
<1> HIDE DEF k
<1>4. JobOK("load", k)
  BY <1>1, <1>3, NoTodo DEF JobOK, Busy, Past
<1>5. PlaceOK("load", k, claim[w])
  BY DEF PlaceOK, Past, Waits
<1>6. Sent(w)
  BY <1>2, <1>4, <1>5 DEF Sent, T!Steps, Waits
<1> QED
  BY <1>6, SentKept, SetupSame DEF T!Start, T!world

\* A webhook fits what it is about, whatever becomes of the world.
LEMMA HookFits ==
  ASSUME NEW s \in DOMAIN Scenarios, NEW e \in DOMAIN Scenarios[s].hooks,
         NEW m \in DOMAIN Scenarios[s].hooks[e].about, NEW k \in 1..Len(Scenarios[s].course)
  PROVE  T!Fits(Scenarios[s].hooks[e], Scenarios[s].hooks[e].about[m], Scenarios[s].course[k])
  BY PipelineAssumption DEF T!ThreadAssumption

LEMMA LoadKept ==
  ASSUME IInv, NEW w \in Workers, T!Load(w)
  PROVE  Kept
<1>1. PICK j : j = job[w]
  OBVIOUS
<1>2. step[w] = "load" /\ UNCHANGED <<scene, now, thread, intents, channel, notified, setup>>
  BY DEF T!Load, T!world
<1>3. /\ DOMAIN j = {"event", "rest", "todo", "opening", "parent"}
      /\ j.opening = FALSE /\ TodoOK(j.todo)
      /\ j.event \in DOMAIN Hooks /\ j.rest \in Seq(Elements(Hooks[j.event].about))
  BY <1>1, <1>2, Worker DEF JobOK
<1>4. CASE j.rest = <<>> /\ T!Goto(w, "ok")
  <2>1. T!Go(w, "ok", j)
    BY <1>1, <1>4, GotoGo
  <2>2. JobOK("ok", j)
    BY <1>3 DEF JobOK, Busy, Past
  <2>3. PlaceOK("ok", j, claim[w])
    BY DEF PlaceOK, Past, Waits
  <2> QED
    BY <1>2, <2>1, <2>2, <2>3, SentKept, SetupSame DEF Sent, T!Steps, Waits
<1>5. CASE j.rest # <<>>
  <2>1. T!Hook(w) = Hooks[j.event] /\ T!Course = Scenarios[scene].course
    BY <1>1 DEF T!Hook, T!Hooks, Hooks, T!Course
  <2>2. PICK codes, todo :
          /\ todo = T!Owed(Hooks[j.event], Head(j.rest), T!Course[now], codes)
          /\ T!Go(w, IF todo = <<>> THEN "load" ELSE "check",
                  [j EXCEPT !.rest = Tail(j.rest), !.todo = todo])
    BY <1>1, <1>5, <2>1 DEF T!Load
  <2> DEFINE k1 == [j EXCEPT !.rest = Tail(j.rest)]
             k == [k1 EXCEPT !.todo = todo]
             s == IF todo = <<>> THEN "load" ELSE "check"
  <2>3. T!Go(w, s, k)
    BY <2>2
  <2>4. Head(j.rest) \in Elements(Hooks[j.event].about)
        /\ Tail(j.rest) \in Seq(Elements(Hooks[j.event].about))
    BY <1>3, <1>5, HeadTailProperties
  <2>5. T!Fits(Hooks[j.event], Head(j.rest), T!Course[now])
    <3>1. /\ scene \in DOMAIN Scenarios /\ now \in 1..Len(T!Course)
          /\ j.event \in DOMAIN Scenarios[scene].hooks
      BY <1>3 DEF IInv, ScenesOK, Hooks
    <3>2. PICK m \in DOMAIN Hooks[j.event].about : Head(j.rest) = Hooks[j.event].about[m]
      BY <2>4 DEF Elements
    <3>3. T!Fits(Scenarios[scene].hooks[j.event], Scenarios[scene].hooks[j.event].about[m],
                 Scenarios[scene].course[now])
      BY <2>1, <3>1, <3>2, HookFits DEF Hooks
    <3> QED
      BY <2>1, <3>2, <3>3 DEF Hooks
  <2>6. TodoOK(todo)
    BY <2>2, <2>5, OwedTodo
  <2>7. /\ k1.event = j.event /\ k1.rest = Tail(j.rest) /\ k1.opening = FALSE
        /\ DOMAIN k1 = {"event", "rest", "todo", "opening", "parent"}
    BY <1>3
  <2> HIDE DEF k1
  <2>8. /\ k.event = j.event /\ k.rest = Tail(j.rest) /\ k.opening = FALSE /\ k.todo = todo
        /\ DOMAIN k = {"event", "rest", "todo", "opening", "parent"}
    BY <2>7
  <2> HIDE DEF k
  <2>9. JobOK(s, k)
    BY <1>3, <2>4, <2>6, <2>8 DEF JobOK, Busy, Past
  <2>10. PlaceOK(s, k, claim[w])
    BY DEF PlaceOK, Past, Waits
  <2>11. s \in T!Steps /\ ~Waits(s)
    BY DEF T!Steps, Waits
  <2> QED
    BY <1>2, <2>3, <2>9, <2>10, <2>11, SentKept, SetupSame DEF Sent
<1> QED
  BY <1>1, <1>4, <1>5 DEF T!Load

\* An overview that is remembered is in the channel, but for the Work's.
LEMMA Remembered ==
  ASSUME IInv, NEW i, i # Work, T!OverviewId(i) \in notified
  PROVE  T!InChannel(T!OverviewId(i))
  BY DEF IInv, StoreOK, NotifiedOK, T!OverviewId

LEMMA CheckKept ==
  ASSUME IInv, NEW w \in Workers, T!Check(w)
  PROVE  Kept
<1>1. PICK j : j = job[w]
  OBVIOUS
<1>2. step[w] = "check" /\ UNCHANGED <<scene, now, thread, intents, channel, notified, setup>>
  BY DEF T!Check, T!world
<1>3. JobOK("check", j) /\ "check" \in Busy
  BY <1>1, <1>2, Worker DEF Busy
<1>4. /\ j.opening \in BOOLEAN /\ TodoOK(j.todo) /\ j.todo # <<>>
      /\ j.event \in DOMAIN Hooks /\ j.rest \in Seq(Elements(Hooks[j.event].about))
      /\ DOMAIN j = {"event", "rest", "todo", "opening", "parent"}
      /\ j.opening => Head(j.todo).issue # Work /\ ~T!Adrift(Head(j.todo))
  BY <1>3, BusyFacts
<1> DEFINE n == Now(j)
<1>5. /\ NoticeOK(n) /\ n.issue = Head(j.todo).issue
      /\ j.opening => /\ Opens(j) /\ T!Id(n) = T!OverviewId(n.issue) /\ ~T!Adrift(n)
                      /\ n.issue # Work
      /\ ~j.opening => n = Head(j.todo)
  BY <1>4, NowFacts
<1>6. T!Current(w) = n /\ T!OnOverview(w) = Opens(j)
  BY <1>1, Sight
<1> HIDE DEF n
<1>7. CASE (T!Adrift(n) \/ T!Id(n) \in notified) /\ T!Onward(w)
  <2>1. j.opening => T!InChannel(T!OverviewId(n.issue))
    BY <1>5, <1>7, Remembered
  <2>2. Sent(w)
    BY <1>1, <1>2, <1>3, <1>7, <2>1, OnwardSent DEF n
  <2> QED
    BY <1>2, <2>2, SentKept, SetupSame
<1>8. CASE /\ ~T!Adrift(n)
           /\ n.issue = Work \/ Opens(j) \/ T!OverviewId(n.issue) \in notified
           /\ T!ToRoot(w, j)
  <2>1. n.issue = Work \/ Opens(j) \/ T!InChannel(T!OverviewId(n.issue))
    BY <1>8, Remembered
  <2>2. Sent(w)
    BY <1>3, <1>8, <2>1, ToRootSent DEF n
  <2> QED
    BY <1>2, <2>2, SentKept, SetupSame
<1>9. CASE /\ ~T!Adrift(n)
           /\ n.issue # Work /\ ~Opens(j)
           /\ T!Go(w, "check", [j EXCEPT !.opening = TRUE])
  <2> DEFINE k == [j EXCEPT !.opening = TRUE]
  <2>1. /\ k.event = j.event /\ k.rest = j.rest /\ k.todo = j.todo /\ k.opening = TRUE
        /\ DOMAIN k = {"event", "rest", "todo", "opening", "parent"}
    BY <1>4
  <2>2. T!Go(w, "check", k)
    BY <1>9
  <2> HIDE DEF k
  <2>3. Head(j.todo).issue # Work /\ ~T!Adrift(Head(j.todo))
    BY <1>4, <1>5, <1>9
  <2>4. JobOK("check", k)
    BY <1>4, <2>1, <2>3 DEF JobOK
  <2>5. PlaceOK("check", k, claim[w])
    BY DEF PlaceOK, Past, Waits
  <2> QED
    BY <1>2, <2>2, <2>4, <2>5, SentKept, SetupSame DEF Sent, T!Steps, Waits
<1> QED
  BY <1>1, <1>6, <1>7, <1>8, <1>9 DEF T!Check
-----------------------------------------------------------------------------
(* The root. *)

LEMMA JobGoes ==
  ASSUME NEW r \in Busy, NEW s, s \notin {"load", "consume"}, NEW j, JobOK(r, j)
  PROVE  JobOK(s, j)
  BY BusyFacts DEF JobOK

\* A worker that gives up has no place to keep.
LEMMA NoPlace ==
  ASSUME NEW s \in {"ok", "retryable", "failed", "check", "load", "consume"}, NEW j, NEW c
  PROVE  PlaceOK(s, j, c) /\ s \in T!Steps /\ ~Waits(s)
  BY DEF PlaceOK, Past, Waits, T!Steps

\* With a root, a worker marks the Work's overview or replies.
LEMMA RootedPlace ==
  ASSUME NEW r \in Past, NEW s, NEW j, NEW c, s = IF OwnsRoot(j) THEN "mark" ELSE "reply",
         JobOK(r, j), PlaceOK(r, j, c), thread.status = "ready"
  PROVE  JobOK(s, j) /\ PlaceOK(s, j, c) /\ s \in T!Steps /\ ~Waits(s)
<1>1. s \in {"mark", "reply"}
  OBVIOUS
<1>2. JobOK(s, j)
  BY <1>1, JobGoes DEF Busy
<1>3. PlaceOK(s, j, c)
  BY <1>1 DEF PlaceOK, Past, Waits
<1> QED
  BY <1>1, <1>2, <1>3 DEF T!Steps, Waits

LEMMA HasRootKept ==
  ASSUME IInv, NEW w \in Workers, T!HasRoot(w)
  PROVE  Kept
<1>1. PICK j : j = job[w]
  OBVIOUS
<1>2. /\ step[w] = "root" /\ thread.status = "ready"
      /\ UNCHANGED <<scene, now, thread, intents, channel, notified, setup>>
  BY DEF T!HasRoot, T!world
<1>3. PICK s : s = IF OwnsRoot(j) THEN "mark" ELSE "reply"
  OBVIOUS
<1>4. T!Go(w, s, j)
  BY <1>1, <1>3, Sight DEF T!HasRoot, T!WithRootAt, T!Goto
<1>5. JobOK("root", j) /\ PlaceOK("root", j, claim[w]) /\ "root" \in Past
  BY <1>1, <1>2, Worker DEF Past
<1>6. JobOK(s, j) /\ PlaceOK(s, j, claim[w]) /\ s \in T!Steps /\ ~Waits(s)
  BY <1>2, <1>3, <1>5, RootedPlace
<1> QED
  BY <1>2, <1>4, <1>6, SentKept, SetupSame DEF Sent

LEMMA ClaimRootKept ==
  ASSUME IInv, NEW w \in Workers, T!ClaimRoot(w)
  PROVE  Kept
<1>1. PICK j : j = job[w]
  OBVIOUS
<1>2. /\ step[w] = "root" /\ thread.status # "ready"
      /\ UNCHANGED <<scene, now, intents, channel, notified, setup, job>>
      /\ step' = [step EXCEPT ![w] = "call_root"]
      /\ claim' = [claim EXCEPT ![w] = thread.revision + 1]
  BY DEF T!ClaimRoot, T!world
<1>3. thread \in T!Thread /\ thread.revision \in Nat
  BY DEF IInv, StoreOK, T!Thread
<1>4. /\ thread' \in T!Thread /\ thread'.revision = thread.revision + 1
      /\ thread'.status = "creating"
  BY <1>3 DEF T!ClaimRoot, T!Thread
<1>5. StoreOK' /\ Extends
  BY <1>2, <1>3, <1>4, StoreRoot DEF IInv
<1>6. Apart(w) /\ ScenesOK'
  BY <1>2, QuietApart, ScenesSame
<1>7. PICK c \in Nat : c = thread.revision + 1
  BY <1>3
<1>8. /\ step \in [Workers -> T!Steps] /\ claim \in [Workers -> Nat] /\ DOMAIN job = Workers
      /\ DOMAIN setup = T!Issues
  BY DEF IInv, ServiceOK
<1>9. step'[w] = "call_root" /\ job'[w] = j /\ claim'[w] = c /\ Others(w)
  BY <1>1, <1>2, <1>7, <1>8 DEF Others
<1>10. JobOK("root", j) /\ PlaceOK("root", j, claim[w]) /\ "root" \in Past
  BY <1>1, <1>2, Worker DEF Past
<1>11. JobOK("call_root", j)
  BY <1>10, JobGoes DEF Busy
<1>12. PlaceOK("call_root", j, c)'
  <2>1. Now(j).issue = Work \/ Opens(j) \/ T!InChannel(T!OverviewId(Now(j).issue))'
    BY <1>5, <1>10, ChannelStays DEF PlaceOK
  <2> QED
    BY <1>3, <1>4, <1>7, <2>1 DEF PlaceOK, Past, Waits
<1>13. WorkersOK'
  BY <1>4, <1>5, <1>6, <1>9, <1>11, <1>12, WorkersStay DEF Waits
<1>14. ServiceOK'
  BY <1>2, <1>7, <1>8 DEF ServiceOK, T!Steps
<1> QED
  BY <1>5, <1>6, <1>13, <1>14 DEF Kept

LEMMA RootInProgressKept ==
  ASSUME IInv, NEW w \in Workers, T!RootInProgress(w)
  PROVE  Kept
<1>1. PICK j : j = job[w]
  OBVIOUS
<1>2. /\ step[w] = "root" /\ T!Go(w, "retryable", j)
      /\ UNCHANGED <<scene, now, thread, intents, channel, notified, setup>>
  BY <1>1 DEF T!RootInProgress, T!Goto, T!world
<1>3. JobOK("retryable", j)
  BY <1>1, <1>2, Worker, JobGoes DEF Busy, Past
<1> QED
  BY <1>2, <1>3, NoPlace, SentKept, SetupSame DEF Sent

LEMMA SaveRootKept ==
  ASSUME IInv, NEW w \in Workers, T!SaveRoot(w)
  PROVE  Kept
<1>1. PICK j : j = job[w]
  OBVIOUS
<1>2. PICK c \in Nat : c = claim[w]
  BY DEF IInv, ServiceOK
<1>3. /\ step[w] = "save_root"
      /\ UNCHANGED <<scene, now, intents, channel, notified, setup>>
  BY DEF T!SaveRoot, T!world
<1>4. JobOK("save_root", j) /\ PlaceOK("save_root", j, c) /\ "save_root" \in Past
  BY <1>1, <1>2, <1>3, Worker DEF Past
<1>5. PICK s : s = IF OwnsRoot(j) THEN "mark" ELSE "reply"
  OBVIOUS
<1>6. T!WithRootAt(w) => T!Go(w, s, j)
  BY <1>1, <1>5, Sight DEF T!WithRootAt, T!Goto
<1>7. CASE /\ thread.revision = c
           /\ thread' = [revision |-> c + 1, status |-> "ready",
                         root |-> intents[T!Id(T!RootFor(w))].ts, live |-> FALSE]
           /\ T!WithRootAt(w)
  <2> DEFINE n == T!Id(RootOf(j))
  <2>1. /\ thread.status = "creating" /\ n \in DOMAIN intents
        /\ intents[n].status = "sent" /\ intents[n].under = 0
    BY <1>4, <1>7 DEF PlaceOK
  <2>2. T!RootFor(w) = RootOf(j)
    BY <1>1, Sight
  <2> HIDE DEF n
  <2>3. /\ intents[n].ts \in Nat /\ intents[n].ts \in DOMAIN channel
        /\ channel[intents[n].ts].notice = n
    BY <2>1 DEF IInv, StoreOK, IntentOK
  <2>4. channel[intents[n].ts].under = 0
    BY <2>1, <2>3 DEF IInv, StoreOK, ChannelOK
  <2>5. thread' = [revision |-> c + 1, status |-> "ready", root |-> intents[n].ts, live |-> FALSE]
    BY <1>7, <2>2 DEF n
  <2>6. /\ thread' \in T!Thread /\ thread'.status = "ready" /\ thread'.revision = c + 1
        /\ thread'.root = intents[n].ts
    BY <2>3, <2>5 DEF T!Thread
  <2>7. StoreOK' /\ Extends
    BY <1>3, <1>7, <2>1, <2>3, <2>4, <2>6, StoreRoot DEF IInv
  <2>8. Apart(w) /\ ScenesOK'
    BY <1>3, QuietApart, ScenesSame
  <2>9. JobOK(s, j) /\ PlaceOK(s, j, c)' /\ s \in T!Steps /\ ~Waits(s)
    <3>1. s \in {"mark", "reply"}
      BY <1>5
    <3>2. JobOK(s, j)
      BY <1>4, <3>1, JobGoes DEF Busy
    <3>3. Now(j).issue = Work \/ Opens(j) \/ T!InChannel(T!OverviewId(Now(j).issue))'
      BY <1>4, <2>7, ChannelStays DEF PlaceOK
    <3>4. s = "mark" => OwnsRoot(j)
      BY <1>5
    <3>5. PlaceOK(s, j, c)'
      BY <2>6, <3>1, <3>3, <3>4 DEF PlaceOK, Past, Waits
    <3> QED
      BY <3>1, <3>2, <3>5 DEF T!Steps, Waits
  <2>10. DOMAIN setup' = T!Issues
    BY <1>3, SetupSame
  <2>11. WorkersOK' /\ ServiceOK'
    BY <1>2, <1>6, <1>7, <2>6, <2>7, <2>8, <2>9, <2>10, Arrives
  <2> QED
    BY <2>7, <2>8, <2>11 DEF Kept
<1>8. CASE thread.status = "ready" /\ T!WithRootAt(w) /\ UNCHANGED thread
  <2>1. JobOK(s, j) /\ PlaceOK(s, j, c) /\ s \in T!Steps /\ ~Waits(s)
    BY <1>4, <1>5, <1>8, RootedPlace
  <2> QED
    BY <1>2, <1>3, <1>6, <1>8, <2>1, SentKept, SetupSame DEF Sent
<1>9. CASE T!Goto(w, "retryable") /\ UNCHANGED thread
  <2>1. T!Go(w, "retryable", j)
    BY <1>1, <1>9, GotoGo
  <2>2. JobOK("retryable", j)
    BY <1>4, JobGoes DEF Busy
  <2> QED
    BY <1>3, <1>9, <2>1, <2>2, NoPlace, SentKept, SetupSame DEF Sent
<1> QED
  BY <1>2, <1>7, <1>8, <1>9 DEF T!SaveRoot

LEMMA LeaseEndsKept ==
  ASSUME IInv, T!LeaseEnds
  PROVE  Kept
<1>1. /\ thread.status = "creating" /\ thread' = [thread EXCEPT !.live = FALSE]
      /\ UNCHANGED <<scene, now, intents, channel, notified, setup, step, job, claim>>
  BY DEF T!LeaseEnds, T!world, T!place
<1>2. /\ thread' \in T!Thread /\ thread'.revision = thread.revision
      /\ thread'.status = thread.status /\ thread.revision \in Nat
  BY <1>1 DEF IInv, StoreOK, T!Thread
<1>3. StoreOK' /\ Extends
  BY <1>1, <1>2, StoreRoot DEF IInv
<1>4. \A v \in Workers : Waits(step[v]) =>
        \A n \in DOMAIN intents : n = Called(step[v], job[v]) => Spared(n)
  BY <1>1, WaitFacts DEF Spared, T!InChannel
<1>5. WorkersOK'
  BY <1>1, <1>2, <1>3, <1>4, AllStay
<1>6. ServiceOK' /\ ScenesOK'
  BY <1>1, ScenesSame DEF IInv, ServiceOK
<1> QED
  BY <1>3, <1>5, <1>6 DEF Kept

\* Time goes on.
LEMMA ChangeKept ==
  ASSUME IInv, T!Change
  PROVE  Kept
<1>1. /\ now < Len(T!Course) /\ now' = now + 1
      /\ UNCHANGED <<scene, thread, intents, channel, notified, setup, step, job, claim>>
  BY DEF T!Change, T!place
<1>2. StoreOK' /\ Extends /\ thread' \in T!Thread
  BY <1>1, StoreSame DEF IInv
<1>3. \A v \in Workers : Waits(step[v]) =>
        \A n \in DOMAIN intents : n = Called(step[v], job[v]) => Spared(n)
  BY <1>1, WaitFacts DEF Spared, T!InChannel
<1>4. WorkersOK'
  BY <1>1, <1>2, <1>3, AllStay
<1>5. ServiceOK'
  BY <1>1 DEF IInv, ServiceOK
<1>6. ScenesOK'
  <2>1. Len(T!Course) \in Nat
    BY PipelineAssumption DEF T!ThreadAssumption, IInv, ScenesOK, T!Course
  <2> QED
    BY <1>1, <2>1 DEF IInv, ScenesOK, T!Course
<1> QED
  BY <1>2, <1>4, <1>5, <1>6 DEF Kept

LEMMA EndKept ==
  ASSUME IInv, NEW w \in Workers, NEW how, T!End(w, how)
  PROVE  Kept
<1>1. T!Leave(w) /\ UNCHANGED <<scene, now, thread, intents, channel, notified, setup>>
  BY DEF T!End, T!world
<1>2. StoreOK' /\ Extends /\ thread' \in T!Thread
  BY <1>1, StoreSame DEF IInv
<1> QED
  BY <1>1, <1>2, QuietApart, ScenesSame, Leaves DEF Kept
-----------------------------------------------------------------------------
(* The outbox. *)

\* The intent a worker calls for, or waits for, and the other waiters.
LEMMA CallKept ==
  ASSUME IInv, NEW w \in Workers, step[w] \in {"call_root", "reply"}, ~T!Known(w), T!Call(w),
         UNCHANGED <<scene, now, thread, channel, notified, setup>>
  PROVE  Kept
<1>1. PICK j : j = job[w]
  OBVIOUS
<1>2. PICK r \in {"call_root", "reply"} : r = step[w]
  OBVIOUS
<1>3. PICK c \in Nat : c = claim[w]
  BY DEF IInv, ServiceOK
<1>4. JobOK(r, j) /\ PlaceOK(r, j, c) /\ r \in Past /\ r \in Busy
  BY <1>1, <1>2, <1>3, Worker DEF Past, Busy
<1>5. PICK s : s = IF OnRoot(r) THEN "wait_root" ELSE "wait"
  OBVIOUS
<1>6. PICK n : n = Called(r, j)
  OBVIOUS
<1>7. PICK under : under = IF OnRoot(r) THEN 0 ELSE thread.root
  OBVIOUS
<1>8. PICK says : says = T!Delivering(w).says
  OBVIOUS
<1>9. T!Intent(w) = n /\ T!ForRoot(w) = OnRoot(r) /\ T!Under(w) = under
  BY <1>1, <1>2, <1>6, <1>7, Sight DEF T!Under
<1>10. /\ n \notin DOMAIN intents /\ T!Go(w, s, j)
       /\ intents' = [m \in DOMAIN intents \cup {n} |->
                        IF m = n THEN [status |-> "sending", under |-> under, ts |-> 0,
                                       says |-> says]
                        ELSE intents[m]]
  BY <1>1, <1>5, <1>8, <1>9 DEF T!Known, T!Call, T!Goto
<1>11. /\ n.issue \in T!Issues
       /\ n.issue \in Tasks /\ n # T!OverviewId(n.issue) => T!InChannel(T!OverviewId(n.issue))
  BY <1>4, <1>6, CalledFacts
<1>12. under \in Nat /\ (under # 0 => thread.status = "ready" /\ under = thread.root)
  BY <1>2, <1>4, <1>7 DEF PlaceOK, OnRoot, IInv, StoreOK, T!Thread
<1>13. /\ StoreOK' /\ Extends /\ thread' \in T!Thread
       /\ DOMAIN intents' = DOMAIN intents \cup {n}
       /\ intents'[n].status = "sending" /\ intents'[n].under = under
       /\ \A m \in DOMAIN intents : Spared(m) \/ T!InChannel(m)
       /\ ~T!InChannel(n)'
  BY <1>10, <1>11, <1>12, StoreCall DEF IInv
<1>14. Apart(w)
  BY <1>13, WaitFacts DEF Apart
<1>15. \A v \in Workers \ {w} : Waits(step[v]) => Called(step[v], job[v]) # n
  BY <1>10, WaitFacts
<1>16. OnRoot(s) = OnRoot(r) /\ s \in {"wait_root", "wait"} /\ s \in T!Steps
       /\ (s = "wait_root") = OnRoot(r) /\ (r = "call_root") = OnRoot(r)
  BY <1>2, <1>5 DEF OnRoot, T!Steps
<1>17. Called(s, j) = n
  BY <1>6, <1>16 DEF Called
<1>18. JobOK(s, j)
  BY <1>4, <1>16, JobGoes
<1>19. PlaceOK(s, j, c)'
  <2>1. Now(j).issue = Work \/ Opens(j) \/ T!InChannel(T!OverviewId(Now(j).issue))'
    BY <1>4, <1>13, ChannelStays DEF PlaceOK
  <2>2. s = "wait" => thread'.status = "ready"
    BY <1>4, <1>13, <1>16 DEF PlaceOK
  <2>3. s = "wait_root" =>
          c <= thread'.revision /\ (c = thread'.revision => thread'.status = "creating")
    BY <1>4, <1>16 DEF PlaceOK
  <2>4. /\ n \in DOMAIN intents' /\ intents'[n].status = "sending"
        /\ s = "wait_root" => intents'[n].under = 0
    BY <1>7, <1>13, <1>16
  <2> QED
    BY <1>13, <1>16, <1>17, <2>1, <2>2, <2>3, <2>4 DEF PlaceOK
<1>20. ScenesOK' /\ DOMAIN setup' = T!Issues
  BY ScenesSame, SetupSame
<1>21. WorkersOK' /\ ServiceOK'
  BY <1>3, <1>10, <1>13, <1>14, <1>15, <1>16, <1>17, <1>18, <1>19, <1>20, Arrives
<1> QED
  BY <1>13, <1>20, <1>21 DEF Kept

\* Where a notice that was delivered leads.
LEMMA DeliveredPlace ==
  ASSUME NEW r \in {"call_root", "wait_root", "reply", "wait"}, NEW j, NEW c, NEW s, NEW n,
         JobOK(r, j), PlaceOK(r, j, c), s = IF OnRoot(r) THEN "save_root" ELSE "mark",
         n = Called(r, j), n \in DOMAIN intents', intents'[n].status = "sent",
         OnRoot(r) => intents'[n].under = 0, T!InChannel(n)',
         Extends, UNCHANGED thread
  PROVE  JobOK(s, j) /\ PlaceOK(s, j, c)' /\ s \in T!Steps /\ ~Waits(s)
<1>1. r \in Past /\ r \in Busy
  BY DEF Past, Busy
<1>2. JobOK(s, j)
  BY <1>1, JobGoes
<1>3. Now(j).issue = Work \/ Opens(j) \/ T!InChannel(T!OverviewId(Now(j).issue))'
  BY <1>1, ChannelStays DEF PlaceOK
<1>4. CASE OnRoot(r)
  <2>1. /\ n = T!Id(RootOf(j)) /\ s = "save_root"
        /\ c <= thread.revision /\ (c = thread.revision => thread.status = "creating")
    BY <1>4 DEF Called, OnRoot, PlaceOK
  <2>2. PlaceOK("save_root", j, c)'
    BY <1>3, <1>4, <2>1 DEF PlaceOK, Waits
  <2> QED
    BY <1>2, <2>1, <2>2 DEF T!Steps, Waits
<1>5. CASE ~OnRoot(r)
  <2>1. n = T!Id(Now(j)) /\ s = "mark"
    BY <1>5 DEF Called
  <2>2. PlaceOK("mark", j, c)'
    BY <1>3, <2>1 DEF PlaceOK, Waits
  <2> QED
    BY <1>2, <2>1, <2>2 DEF T!Steps, Waits
<1> QED
  BY <1>4, <1>5

LEMMA DeliverKept ==
  ASSUME IInv, NEW w \in Workers, T!Deliver(w)
  PROVE  Kept
<1>1. PICK j : j = job[w]
  OBVIOUS
<1>2. /\ step[w] \in {"call_root", "reply"}
      /\ UNCHANGED <<scene, now, thread, channel, notified, setup>>
  BY DEF T!Deliver, T!world
<1>3. PICK r \in {"call_root", "reply"} : r = step[w]
  BY <1>2
<1>4. PICK c \in Nat : c = claim[w]
  BY DEF IInv, ServiceOK
<1>5. JobOK(r, j) /\ PlaceOK(r, j, c) /\ r \in Busy
  BY <1>1, <1>3, <1>4, Worker DEF Past, Busy
<1>6. CASE ~T!Known(w) /\ T!Call(w)
  BY <1>2, <1>6, CallKept
<1>7. CASE T!Known(w) /\ UNCHANGED intents /\ \E s \in {"failed", "retryable"} : T!Goto(w, s)
  <2>1. PICK s \in {"failed", "retryable"} : T!Go(w, s, j)
    BY <1>1, <1>7, GotoGo
  <2>2. JobOK(s, j)
    BY <1>5, JobGoes
  <2> QED
    BY <1>2, <1>7, <2>1, <2>2, NoPlace, SentKept, SetupSame DEF Sent
<1>8. CASE /\ T!Known(w) /\ UNCHANGED intents /\ T!Delivered(w) /\ T!Same(w)
           /\ intents[T!Intent(w)].status = "sent"
  <2>1. PICK n : n = Called(r, j)
    OBVIOUS
  <2>2. PICK s : s = IF OnRoot(r) THEN "save_root" ELSE "mark"
    OBVIOUS
  <2>3. T!Intent(w) = n /\ T!ForRoot(w) = OnRoot(r)
    BY <1>1, <1>3, <2>1, Sight
  <2>4. /\ n \in DOMAIN intents /\ intents[n].status = "sent"
        /\ OnRoot(r) => intents[n].under = 0
    BY <1>8, <2>3 DEF T!Known, T!Same, T!Under
  <2>5. T!InChannel(n)
    BY <2>4 DEF IInv, StoreOK, IntentOK, T!InChannel
  <2>6. StoreOK' /\ Extends /\ thread' \in T!Thread
    BY <1>2, <1>8, StoreSame DEF IInv
  <2>7. T!InChannel(n)'
    BY <2>5, <2>6, ChannelStays
  <2>8. JobOK(s, j) /\ PlaceOK(s, j, c)' /\ s \in T!Steps /\ ~Waits(s)
    BY <1>2, <1>5, <1>8, <2>1, <2>2, <2>4, <2>6, <2>7, DeliveredPlace
  <2>9. T!Go(w, s, j)
    BY <1>1, <1>8, <2>2, <2>3 DEF T!Delivered, T!Goto
  <2>10. Apart(w) /\ ScenesOK' /\ DOMAIN setup' = T!Issues
    BY <1>2, <1>8, QuietApart, ScenesSame, SetupSame
  <2>11. WorkersOK' /\ ServiceOK'
    BY <1>4, <2>6, <2>8, <2>9, <2>10, Arrives
  <2> QED
    BY <2>6, <2>10, <2>11 DEF Kept
<1>9. T!Known(w) => intents[T!Intent(w)].status \in {"sending", "sent", "needs_review", "failed"}
  BY DEF T!Known, IInv, StoreOK, IntentOK
<1> QED
  BY <1>6, <1>7, <1>8, <1>9 DEF T!Deliver

\* Of those that wait, each has an intent of its own.
LEMMA OnlyWaiter ==
  ASSUME IInv, NEW w \in Workers, Waits(step[w]), NEW n, n = Called(step[w], job[w]),
         \A m \in DOMAIN intents \ {n} : Spared(m) \/ T!InChannel(m)
  PROVE  Apart(w)
<1> SUFFICES ASSUME NEW v \in Workers \ {w}, Waits(step[v]), NEW m, m = Called(step[v], job[v])
             PROVE  Spared(m)
  BY DEF Apart
<1>1. m # n
  BY DEF IInv, WaitersDiffer
<1>2. m \in DOMAIN intents /\ ~T!InChannel(m)
  BY WaitFacts
<1> QED
  BY <1>1, <1>2

\* An intent as SetIntent leaves it.
LEMMA SetFacts ==
  ASSUME IInv, NEW n \in DOMAIN intents, NEW status, NEW ts \in Nat, T!SetIntent(n, status, ts),
         status \in {"sending", "sent", "needs_review", "failed"},
         ts # 0 => ts \in DOMAIN channel',
         status = "sent" => ts \in DOMAIN channel' /\ channel'[ts].notice = n
  PROVE  SettledTo(n) /\ intents'[n].status = status
<1> DEFINE x == intents[n]
           x1 == [x EXCEPT !.status = status]
           x2 == [x1 EXCEPT !.ts = ts]
<1>1. DOMAIN x = {"status", "under", "ts", "says"}
  BY DEF IInv, StoreOK, IntentOK
<1>2. intents' = [intents EXCEPT ![n] = x2]
  BY <1>1 DEF T!SetIntent
<1>3. /\ DOMAIN x1 = {"status", "under", "ts", "says"}
      /\ x1.status = status /\ x1.under = intents[n].under
  BY <1>1
<1> HIDE DEF x1
<1>4. /\ DOMAIN x2 = {"status", "under", "ts", "says"}
      /\ x2.status = status /\ x2.under = intents[n].under /\ x2.ts = ts
  BY <1>3
<1> HIDE DEF x2
<1>5. /\ DOMAIN intents' = DOMAIN intents /\ intents'[n] = x2
      /\ \A m \in DOMAIN intents \ {n} : intents'[m] = intents[m]
  BY <1>2
<1> QED
  BY <1>4, <1>5 DEF SettledTo
-----------------------------------------------------------------------------
LEMMA PostedKept ==
  ASSUME IInv, NEW w \in Workers, T!Posted(w)
  PROVE  Kept
<1>1. PICK j : j = job[w]
  OBVIOUS
<1>2. PICK r : r = step[w]
  OBVIOUS
<1>3. PICK c \in Nat : c = claim[w]
  BY DEF IInv, ServiceOK
<1>4. PICK n : n = Called(r, j)
  OBVIOUS
<1>5. /\ T!Waiting(w) = Waits(r) /\ T!Intent(w) = n /\ T!ForRoot(w) = OnRoot(r)
  BY <1>1, <1>2, <1>4, Sight
<1>6. /\ Waits(r) /\ T!Post(n) /\ T!SetIntent(n, "sent", Len(channel) + 1)
      /\ UNCHANGED <<scene, now, thread, notified, setup>>
  BY <1>5 DEF T!Posted, T!world
<1>7. JobOK(r, j) /\ PlaceOK(r, j, c)
  BY <1>1, <1>2, <1>3, Worker
<1>8. /\ n \in DOMAIN intents /\ intents[n].status = "sending" /\ ~T!InChannel(n)
      /\ r = "wait_root" => intents[n].under = 0
  BY <1>4, <1>6, <1>7 DEF PlaceOK
<1>9. PICK ts \in Nat : ts = Len(channel) + 1
  BY ChannelFacts DEF IInv
<1>10. ts \in DOMAIN channel' /\ channel'[ts].notice = n
  BY <1>6, <1>8, <1>9, PostFacts DEF IInv
<1>11. SettledTo(n) /\ intents'[n].status = "sent"
  BY <1>6, <1>8, <1>9, <1>10, SetFacts
<1>12. /\ StoreOK' /\ Extends /\ thread' \in T!Thread
       /\ \A m \in DOMAIN intents \ {n} : Spared(m) \/ T!InChannel(m)
  BY <1>6, <1>8, <1>11, StoreMoves DEF IInv
<1>13. Apart(w)
  BY <1>1, <1>2, <1>4, <1>6, <1>12, OnlyWaiter
<1>14. PICK s : s = IF OnRoot(r) THEN "save_root" ELSE "mark"
  OBVIOUS
<1>15. T!Go(w, s, j)
  BY <1>1, <1>5, <1>14 DEF T!Posted, T!Delivered, T!Goto
<1>16. JobOK(s, j) /\ PlaceOK(s, j, c)' /\ s \in T!Steps /\ ~Waits(s)
  <2>1. r \in {"call_root", "wait_root", "reply", "wait"} /\ (OnRoot(r) => r = "wait_root")
    BY <1>6 DEF Waits, OnRoot
  <2>2. n \in DOMAIN intents' /\ (OnRoot(r) => intents'[n].under = 0)
    BY <1>8, <1>11, <2>1 DEF SettledTo
  <2>3. T!InChannel(n)'
    BY <1>10 DEF T!InChannel
  <2> QED
    BY <1>4, <1>6, <1>7, <1>11, <1>12, <1>14, <2>1, <2>2, <2>3, DeliveredPlace
<1>17. ScenesOK' /\ DOMAIN setup' = T!Issues
  BY <1>6, ScenesSame, SetupSame
<1>18. WorkersOK' /\ ServiceOK'
  BY <1>3, <1>12, <1>13, <1>15, <1>16, <1>17, Arrives
<1> QED
  BY <1>12, <1>17, <1>18 DEF Kept

\* A call that goes wrong, whether its message was posted or not.
LEMMA FaultKept ==
  ASSUME IInv, NEW w \in Workers, T!Fault(w)
  PROVE  Kept
<1>1. PICK j : j = job[w]
  OBVIOUS
<1>2. PICK r : r = step[w]
  OBVIOUS
<1>3. PICK n : n = Called(r, j)
  OBVIOUS
<1>4. T!Waiting(w) = Waits(r) /\ T!Intent(w) = n
  BY <1>1, <1>2, <1>3, Sight
<1>5. PICK status \in {"needs_review", "failed"} : T!SetIntent(n, status, 0)
  BY <1>4 DEF T!Fault, T!Uncertain, T!Refused
<1>6. /\ Waits(r) /\ T!Goto(w, "failed") /\ (channel' = channel \/ T!Post(n))
      /\ UNCHANGED <<scene, now, thread, notified, setup>>
  BY <1>4 DEF T!Fault, T!Uncertain, T!Refused, T!world
<1>7. n \in DOMAIN intents /\ intents[n].status = "sending" /\ ~T!InChannel(n)
  BY <1>1, <1>2, <1>3, <1>6, WaitFacts
<1>8. SettledTo(n)
  BY <1>5, <1>7, SetFacts
<1>9. /\ StoreOK' /\ Extends /\ thread' \in T!Thread
      /\ \A m \in DOMAIN intents \ {n} : Spared(m) \/ T!InChannel(m)
  BY <1>6, <1>7, <1>8, StoreMoves DEF IInv
<1>10. Apart(w)
  BY <1>1, <1>2, <1>3, <1>6, <1>9, OnlyWaiter
<1>11. JobOK("failed", j)
  BY <1>1, <1>2, <1>6, Worker, JobGoes DEF Busy, Past, Waits
<1>12. Sent(w)
  BY <1>1, <1>6, <1>11, GotoGo, NoPlace DEF Sent
<1>13. ScenesOK' /\ DOMAIN setup' = T!Issues
  BY <1>6, ScenesSame, SetupSame
<1>14. WorkersOK' /\ ServiceOK'
  BY <1>9, <1>10, <1>12, <1>13, SentGoes
<1> QED
  BY <1>9, <1>13, <1>14 DEF Kept

\* A process that dies, and the call it waited for.
LEMMA DieKept ==
  ASSUME IInv, NEW w \in Workers, T!Die(w)
  PROVE  Kept
<1>1. T!Leave(w) /\ UNCHANGED <<scene, now, thread, intents, notified, setup>>
  BY DEF T!Die, T!world
<1>2. CASE UNCHANGED channel
  <2>1. StoreOK' /\ Extends /\ thread' \in T!Thread
    BY <1>1, <1>2, StoreSame DEF IInv
  <2> QED
    BY <1>1, <1>2, <2>1, QuietApart, ScenesSame, Leaves DEF Kept
<1>3. CASE T!Waiting(w) /\ T!Post(T!Intent(w))
  <2>1. PICK n : n = Called(step[w], job[w])
    OBVIOUS
  <2>2. Waits(step[w]) /\ T!Post(n)
    BY <1>3, <2>1, Sight
  <2>3. n \in DOMAIN intents /\ intents[n].status = "sending" /\ ~T!InChannel(n)
    BY <2>1, <2>2, WaitFacts
  <2>4. \A ts \in DOMAIN channel : ts \in DOMAIN channel' /\ channel'[ts] = channel[ts]
    BY <2>2, <2>3, PostFacts DEF IInv
  <2>5. SettledTo(n)
    BY <1>1, <2>3, <2>4 DEF SettledTo, IInv, StoreOK, IntentOK
  <2>6. /\ StoreOK' /\ Extends /\ thread' \in T!Thread
        /\ \A m \in DOMAIN intents \ {n} : Spared(m) \/ T!InChannel(m)
    BY <1>1, <2>2, <2>3, <2>5, StoreMoves DEF IInv
  <2>7. Apart(w)
    BY <2>1, <2>2, <2>6, OnlyWaiter
  <2> QED
    BY <1>1, <2>6, <2>7, ScenesSame, Leaves DEF Kept
<1> QED
  BY <1>2, <1>3 DEF T!Die

\* An operator settles what no worker waits for.
LEMMA ReplayKept ==
  ASSUME IInv, NEW n \in DOMAIN intents, T!Replay(n)
  PROVE  Kept
<1>1. /\ UNCHANGED <<scene, now, thread, notified, setup, step, job, claim>>
      /\ intents[n].status # "sent"
  BY DEF T!Replay, T!world, T!place
<1>2. \A v \in Workers : ~(Waits(step[v]) /\ Called(step[v], job[v]) = n)
  BY Sight DEF T!Replay
<1>3. SettledTo(n) /\ (channel' = channel \/ (T!Post(n) /\ ~T!InChannel(n)))
  <2>1. CASE \E ts \in DOMAIN channel : /\ channel[ts].notice = n
                                        /\ T!SetIntent(n, "sent", ts)
                                        /\ UNCHANGED channel
    <3>1. PICK ts \in DOMAIN channel : /\ channel[ts].notice = n
                                       /\ T!SetIntent(n, "sent", ts)
                                       /\ UNCHANGED channel
      BY <2>1
    <3>2. ts \in Nat
      BY ChannelFacts DEF IInv
    <3> QED
      BY <3>1, <3>2, SetFacts
  <2>2. CASE /\ \A ts \in DOMAIN channel : channel[ts].notice # n
             /\ T!Post(n) /\ T!SetIntent(n, "sent", Len(channel) + 1)
    <3>1. PICK ts \in Nat : ts = Len(channel) + 1
      BY ChannelFacts DEF IInv
    <3>2. ts \in DOMAIN channel' /\ channel'[ts].notice = n
      BY <2>2, <3>1, PostFacts DEF IInv
    <3>3. SettledTo(n)
      BY <2>2, <3>1, <3>2, SetFacts
    <3> QED
      BY <2>2, <3>3 DEF T!InChannel
  <2> QED
    BY <2>1, <2>2 DEF T!Replay
<1>4. /\ StoreOK' /\ Extends /\ thread' \in T!Thread
      /\ \A m \in DOMAIN intents \ {n} : Spared(m) \/ T!InChannel(m)
  BY <1>1, <1>3, StoreMoves DEF IInv
<1>5. \A v \in Workers : Waits(step[v]) =>
        \A m \in DOMAIN intents : m = Called(step[v], job[v]) => Spared(m)
  BY <1>2, <1>4, WaitFacts
<1>6. WorkersOK'
  BY <1>1, <1>4, <1>5, AllStay
<1>7. ServiceOK' /\ ScenesOK'
  BY <1>1, ScenesSame DEF IInv, ServiceOK
<1> QED
  BY <1>4, <1>6, <1>7 DEF Kept
-----------------------------------------------------------------------------
(* What follows a notice. *)

LEMMA MarkKept ==
  ASSUME IInv, NEW w \in Workers, T!Mark(w)
  PROVE  Kept
<1>1. PICK j : j = job[w]
  OBVIOUS
<1>2. PICK n : n = T!Id(Now(j))
  OBVIOUS
<1>3. T!Current(w) = Now(j) /\ T!OnOverview(w) = Opens(j)
  BY <1>1, Sight
<1>4. /\ step[w] = "mark" /\ UNCHANGED <<scene, now, thread, intents, channel, setup>>
      /\ notified' = {m \in notified : m.issue # n.issue \/ m.kind # n.kind} \cup {n}
  BY <1>2, <1>3 DEF T!Mark, T!world
<1>5. JobOK("mark", j) /\ PlaceOK("mark", j, claim[w]) /\ "mark" \in Busy
  BY <1>1, <1>4, Worker DEF Busy, Past
<1>6. OwnsRoot(j) \/ T!InChannel(n)
  BY <1>2, <1>5 DEF PlaceOK
<1>7. /\ Opens(j) => n = T!OverviewId(Now(j).issue)
      /\ j.opening => Opens(j)
  BY <1>2, <1>5, BusyFacts, NowFacts
<1>8. n = T!OverviewId(Work) \/ T!InChannel(n)
  BY <1>6, <1>7 DEF OwnsRoot
<1>9. StoreOK' /\ Extends /\ thread' \in T!Thread
  BY <1>4, <1>8, StoreMark DEF IInv
<1>10. Apart(w) /\ ScenesOK' /\ DOMAIN setup' = T!Issues
  BY <1>4, QuietApart, ScenesSame, SetupSame
<1>11. Sent(w)
  <2>1. CASE Opens(j) /\ T!Goto(w, "setup")
    <3>1. JobOK("setup", j)
      BY <1>5, JobGoes
    <3>2. PlaceOK("setup", j, claim[w])
      BY <1>2, <1>6, <2>1 DEF PlaceOK, OwnsRoot, Past, Waits
    <3> QED
      BY <1>1, <2>1, <3>1, <3>2, GotoGo DEF Sent, T!Steps, Waits
  <2>2. CASE ~Opens(j) /\ T!Onward(w)
    <3>1. ~job[w].opening
      BY <1>1, <1>7, <2>2
    <3> QED
      BY <1>4, <1>5, <2>2, <3>1, OnwardSent
  <2> QED
    BY <1>3, <2>1, <2>2 DEF T!Mark
<1>12. WorkersOK' /\ ServiceOK'
  BY <1>9, <1>10, <1>11, SentGoes
<1> QED
  BY <1>9, <1>10, <1>12 DEF Kept

LEMMA SetUpKept ==
  ASSUME IInv, NEW w \in Workers, T!SetUp(w)
  PROVE  Kept
<1>1. PICK j : j = job[w]
  OBVIOUS
<1>2. /\ step[w] = "setup" /\ UNCHANGED <<scene, now, thread, intents, channel, notified>>
      /\ T!Onward(w)
  BY DEF T!SetUp, T!world
<1>3. DOMAIN setup' = T!Issues
  BY DEF T!SetUp, IInv, ServiceOK
<1>4. JobOK("setup", j) /\ PlaceOK("setup", j, claim[w]) /\ "setup" \in Busy
  BY <1>1, <1>2, Worker DEF Busy
<1>5. ASSUME j.opening
      PROVE  T!InChannel(T!OverviewId(Now(j).issue))
  <2>1. /\ Now(j).issue # Work /\ T!Id(Now(j)) = T!OverviewId(Now(j).issue)
    BY <1>4, <1>5, BusyFacts, NowFacts
  <2> QED
    BY <1>4, <2>1 DEF PlaceOK
<1>6. Sent(w)
  BY <1>1, <1>2, <1>4, <1>5, OnwardSent
<1> QED
  BY <1>2, <1>3, <1>6, SentKept

LEMMA ConsumeKept ==
  ASSUME IInv, NEW w \in Workers, T!Consume(w)
  PROVE  Kept
<1>1. PICK j : j = job[w]
  OBVIOUS
<1>2. step[w] = "consume" /\ UNCHANGED <<scene, now, thread, intents, channel, notified>>
  BY DEF T!Consume, T!world
<1>3. DOMAIN setup' = T!Issues
  BY DEF T!Consume, IInv, ServiceOK
<1>4. JobOK("consume", j) /\ "consume" \in Busy
  BY <1>1, <1>2, Worker DEF Busy
<1>5. Sent(w)
  <2>1. CASE T!Onward(w)
    <3>1. ~job[w].opening
      BY <1>1, <1>4 DEF JobOK
    <3> QED
      BY <1>2, <1>4, <2>1, <3>1, OnwardSent
  <2>2. CASE T!Goto(w, "check")
    <3>1. JobOK("check", j)
      BY <1>4, JobGoes
    <3> QED
      BY <1>1, <2>2, <3>1, GotoGo, NoPlace DEF Sent
  <2> QED
    BY <2>1, <2>2 DEF T!Consume
<1> QED
  BY <1>2, <1>3, <1>5, SentKept
-----------------------------------------------------------------------------
(* The pipeline. *)

LEMMA SlackKept ==
  ASSUME IInv, UNCHANGED slack
  PROVE  Kept
<1>1. UNCHANGED <<scene, now, thread, intents, channel, notified, setup, step, job, claim>>
  BY DEF slack
<1>2. StoreOK' /\ Extends /\ thread' \in T!Thread
  BY <1>1, StoreSame DEF IInv
<1>3. \A v \in Workers : Waits(step[v]) =>
        \A n \in DOMAIN intents : n = Called(step[v], job[v]) => Spared(n)
  BY <1>1, WaitFacts DEF Spared, T!InChannel
<1>4. WorkersOK'
  BY <1>1, <1>2, <1>3, AllStay
<1>5. ServiceOK' /\ ScenesOK'
  BY <1>1, ScenesSame DEF IInv, ServiceOK
<1> QED
  BY <1>2, <1>4, <1>5 DEF Kept

LEMMA ActKept ==
  ASSUME IInv, NEW w \in Workers, T!Act(w)
  PROVE  Kept
  BY LoadKept, CheckKept, HasRootKept, ClaimRootKept, RootInProgressKept, SaveRootKept,
     DeliverKept, PostedKept, MarkKept, SetUpKept, ConsumeKept DEF T!Act

\* The steps of the pipeline keep the thread's part.
LEMMA NextKept ==
  ASSUME IInv, [Next]_vars
  PROVE  Kept
<1>1. CASE UNCHANGED slack
  BY <1>1, SlackKept
<1>2. ASSUME NEW w \in Workers, Begin(w)
      PROVE  Kept
  <2>1. at[w] # "idle" /\ T!Start(w, D!Job(w))
    BY <1>2 DEF Begin, D!BeginEffects
  <2>2. PICK e : e = D!Job(w)
    OBVIOUS
  <2>3. e \in DOMAIN Hooks
    BY <2>1, <2>2 DEF IInv, HooksKnown
  <2> QED
    BY <2>1, <2>2, <2>3, StartKept
<1>3. ASSUME NEW w \in Workers, Effects(w) \/ Fault(w)
      PROVE  Kept
  BY <1>3, ActKept, FaultKept DEF Effects, Fault
<1>4. ASSUME NEW w \in Workers, Return(w) \/ Throw(w)
      PROVE  Kept
  BY <1>4, EndKept DEF Return, Throw
<1>5. ASSUME NEW w \in Workers, Crash(w)
      PROVE  Kept
  BY <1>5, DieKept, SlackKept DEF Crash
<1>6. CASE Outside
  BY <1>6, LeaseEndsKept, ChangeKept, ReplayKept DEF Outside, T!Around
<1> QED
  BY <1>1, <1>2, <1>3, <1>4, <1>5, <1>6 DEF Next, vars, Process, Queue

\* They keep the queue's.
LEMMA NextQueue ==
  ASSUME IInv, [Next]_vars, UNCHANGED scene
  PROVE  QueueOK'
<1>1. QueueOK
  BY DEF IInv, QueueOK
<1>2. ASSUME NEW w \in Workers, Process(w)
      PROVE  QueueOK'
  BY <1>1, <1>2, DispatchQueue, LoadQueue, TakeQueue, ProcessQueue DEF Process
<1>3. ASSUME NEW w \in Workers, Begin(w)
      PROVE  QueueOK'
  BY <1>1, <1>3, BeginQueue DEF Begin
<1>4. ASSUME NEW w \in Workers, Effects(w)
      PROVE  QueueOK'
  BY <1>1, <1>4, SlackQueue DEF Effects, queue
<1>5. ASSUME NEW w \in Workers, Fault(w)
      PROVE  QueueOK'
  BY <1>1, <1>5, SlackQueue DEF Fault
<1>6. ASSUME NEW w \in Workers, Return(w) \/ Throw(w)
      PROVE  QueueOK'
  <2>1. PICK how \in {"ok", "retryable", "failed"} :
          D!EffectsEnd(w, how) /\ (mishaps' = mishaps \/ D!Hazard)
    BY <1>6 DEF Return, Throw, D!EffectsReturn, D!EffectsThrow
  <2>2. mishaps' \in Nat
    BY <1>1, <2>1, QueueTypes
  <2> QED
    BY <1>1, <2>1, <2>2, EffectsEndQueue
<1>7. ASSUME NEW w \in Workers, Crash(w)
      PROVE  QueueOK'
  BY <1>1, <1>7, ProcessQueue DEF Crash
<1>8. CASE Queue
  <2>1. DOMAIN Hooks \subseteq Events
    BY PipelineAssumption DEF T!ThreadAssumption, IInv, ScenesOK, Hooks
  <2> QED
    BY <1>1, <1>8, <2>1, TaskQueue DEF Queue
<1>9. CASE Outside \/ UNCHANGED vars
  BY <1>1, <1>9, SlackQueue DEF Outside, queue, vars
<1> QED
  BY <1>2, <1>3, <1>4, <1>5, <1>6, <1>7, <1>8, <1>9 DEF Next

LEMMA NextInv ==
  ASSUME IInv, [Next]_vars
  PROVE  IInv'
<1>1. Kept
  BY NextKept
<1>2. QueueOK'
  BY <1>1, NextQueue DEF Kept, Extends
<1> QED
  BY <1>1, <1>2 DEF Kept, QueueOK, WorkersOK, IInv

\* A thread that is there, with its root, or none.
LEMMA InitStore ==
  ASSUME Init
  PROVE  StoreOK
<1>1. /\ scene \in DOMAIN Scenarios /\ now = 1 /\ notified = {}
      /\ T!WithRoot(Scenarios[scene].rooted) /\ Scenarios[scene].rooted \in BOOLEAN
  BY PipelineAssumption DEF Init, T!Init, T!ThreadAssumption
<1>2. CASE ~Scenarios[scene].rooted
  <2>1. thread = T!NoThread /\ intents = <<>> /\ channel = <<>>
    BY <1>1, <1>2 DEF T!WithRoot
  <2>2. thread \in T!Thread /\ thread.status = "none"
    BY <2>1 DEF T!NoThread, T!Thread
  <2>3. DOMAIN intents = {} /\ DOMAIN channel = {}
    BY <2>1
  <2>4. ChannelOK
    BY <2>1, <2>3 DEF ChannelOK
  <2> QED
    BY <1>1, <2>2, <2>3, <2>4
    DEF StoreOK, ThreadOK, NotifiedOK, RepliesShareRoot, NoticeOnce, OverviewFirst,
        T!RepliesShareRoot, T!NoticeOnce, T!OverviewFirst
<1>3. CASE Scenarios[scene].rooted
  <2> DEFINE root == T!RootNotice(T!Course[1][Work])
  <2>1. PICK n : n = T!Id(root)
    OBVIOUS
  <2>2. PICK says : says = root.says
    OBVIOUS
  <2>3. n.issue = Work
    BY <2>1, Roots, Ids
  <2>4. /\ thread = [revision |-> 2, status |-> "ready", root |-> 1, live |-> FALSE]
        /\ intents = [m \in {n} |-> [status |-> "sent", under |-> 0, ts |-> 1, says |-> says]]
        /\ channel = <<[notice |-> n, under |-> 0]>>
    BY <1>1, <1>3, <2>1, <2>2 DEF T!WithRoot
  <2> HIDE DEF root
  <2>5. thread \in T!Thread /\ thread.root = 1
    BY <2>4 DEF T!Thread
  <2>6. /\ DOMAIN channel = {1} /\ channel[1].notice = n /\ channel[1].under = 0
    BY <2>4
  <2>7. /\ DOMAIN intents = {n} /\ intents[n].status = "sent" /\ intents[n].under = 0
        /\ intents[n].ts = 1 /\ DOMAIN intents[n] = {"status", "under", "ts", "says"}
    BY <2>4
  <2>8. Work \in T!Issues /\ Work \notin Tasks
    BY PipelineAssumption DEF T!ThreadAssumption, T!Issues
  <2>9. IntentOK(n)
    BY <2>3, <2>6, <2>7, <2>8 DEF IntentOK
  <2>10. ChannelOK
    <3> DEFINE S == [notice : DOMAIN intents, under : Nat]
               x == [notice |-> n, under |-> 0]
    <3>1. x \in S
      BY <2>7
    <3>2. channel = <<x>>
      BY <2>4
    <3> HIDE DEF S, x
    <3>3. channel \in Seq(S)
      BY <3>1, <3>2
    <3> QED
      BY <2>6, <2>7, <3>3 DEF ChannelOK, S
  <2>11. NotifiedOK /\ ThreadOK
    BY <1>1, <2>5, <2>6 DEF NotifiedOK, ThreadOK
  <2>12. RepliesShareRoot /\ NoticeOnce /\ OverviewFirst
    BY <1>1, <2>3, <2>6, <2>8 DEF RepliesShareRoot, NoticeOnce, OverviewFirst,
       T!RepliesShareRoot, T!NoticeOnce, T!OverviewFirst
  <2> QED
    BY <2>5, <2>7, <2>9, <2>10, <2>11, <2>12 DEF StoreOK
<1> QED
  BY <1>1, <1>2, <1>3

LEMMA InitInv == Init => IInv
<1> SUFFICES ASSUME Init
             PROVE  IInv
  OBVIOUS
<1>1. /\ scene \in DOMAIN Scenarios /\ now = 1
      /\ setup = [i \in T!Issues |-> [made |-> FALSE, pending |-> {}]]
      /\ step = [w \in Workers |-> "rest"] /\ job = [w \in Workers |-> T!NoJob]
      /\ claim = [w \in Workers |-> 0]
  BY DEF Init, T!Init
<1>2. ScenesOK
  BY <1>1, PipelineAssumption DEF ScenesOK, T!Course, T!ThreadAssumption
<1>3. ServiceOK
  BY <1>1 DEF ServiceOK, T!Steps
<1>4. D!TypeOK
  <2>1. D!NoHold \in D!Hold /\ D!NoDoc \in D!Doc
    BY DEF D!NoHold, D!Hold, D!NoDoc, D!Doc, D!Status, D!Settled
  <2> QED
    BY <2>1 DEF Init, D!Init, D!TypeOK, D!Places
<1>5. HooksKnown
  BY DEF Init, D!Init, HooksKnown
<1>6. ASSUME NEW w \in Workers
      PROVE  WorkerOK(w)
  <2>1. PICK j : j = T!NoJob
    OBVIOUS
  <2>2. JobOK("rest", j)
    BY <2>1, NoTodo DEF JobOK, T!NoJob, Busy, Past
  <2>3. PlaceOK("rest", j, 0)
    BY DEF PlaceOK, Past, Waits
  <2> QED
    BY <1>1, <2>1, <2>2, <2>3 DEF WorkerOK
<1>7. WaitersDiffer
  BY <1>1 DEF WaitersDiffer, Waits
<1> QED
  BY <1>2, <1>3, <1>4, <1>5, <1>6, <1>7, InitStore DEF IInv
-----------------------------------------------------------------------------
(* What has been said of a webhook.                                        *)

\* Nothing is said of a notice without a thread; any other has been said.
Passed(e, n) == T!Adrift(n) \/ SaidOf(e, n)

\* What event e asks to be said of a subject has been, but for what is to do.
SaidBut(e, subject, todo) ==
  \E k \in Hooks[e].at..now, codes \in T!Readable(Hooks[e]) :
    LET owed == T!Owed(Hooks[e], subject, T!Course[k], codes)
    IN  \A m \in DOMAIN owed : Passed(e, owed[m]) \/ owed[m] \in Elements(todo)

AllSaid(e) == \A m \in DOMAIN Hooks[e].about : SaidAll(e, Hooks[e].about[m])

\* A worker in the effects has said all but what it has still to load or to say.
CoversOK(s, j) == s \in Busy \cup {"load", "ok"} =>
  \A m \in DOMAIN Hooks[j.event].about :
    LET subject == Hooks[j.event].about[m]
    IN  subject \in Elements(j.rest) \/ SaidBut(j.event, subject, j.todo)

\* Where it is says what is left to do, and what an overview it has just called
\* for names.
GoingOK(s, j) ==
  /\ s \in {"load", "ok"} => j.todo = <<>>
  /\ s = "ok" => j.rest = <<>>
  /\ s = "consume" => Head(j.todo).kind = "issue-assignment-changed"
  /\ s \in {"reply", "wait"} => ~OwnsRoot(j)
  /\ s \in {"mark", "setup"} /\ OwnsRoot(j) => Opened(Work)
  /\ s \in {"wait", "mark", "setup"} /\ Opens(j) /\ Now(j).issue # Work =>
       Now(j).seen.assignees \subseteq T!Named(Now(j).issue)

EffectsOK(w) ==
  /\ at[w] = "effects" <=> step[w] # "rest"
  /\ at[w] = "effects" => job[w].event = D!Job(w)
  /\ CoversOK(step[w], job[w]) /\ GoingOK(step[w], job[w])

\* The Work's overview was made, and who is still to be consumed is named.
SetupOK ==
  /\ T!OverviewId(Work) \in notified => Opened(Work)
  /\ \A i \in T!Issues :
       /\ DOMAIN setup[i] = {"made", "pending"}
       /\ setup[i].pending # {} => Opened(i)
       /\ i # Work => setup[i].pending \subseteq T!Named(i)

\* A webhook is delivered after what it tells of; a completed one has said it.
HooksSaid ==
  /\ \A e \in Events : task[e] # "none" => Hooks[e].at <= now
  /\ \A w \in Workers : at[w] # "idle" => Hooks[D!Job(w)].at <= now
  /\ \A w \in Workers : at[w] = "complete" => AllSaid(D!Job(w))
  /\ CompletedIsSaid

SaidInv == HooksSaid /\ SetupOK /\ \A w \in Workers : EffectsOK(w)

\* What a step leaves of what has been said.
Grows ==
  /\ UNCHANGED scene
  /\ now \in Nat /\ now' \in Nat /\ now <= now'
  /\ \A ts \in DOMAIN channel : ts \in DOMAIN channel' /\ channel'[ts] = channel[ts]
  /\ \A n \in DOMAIN intents : n \in DOMAIN intents' /\ intents'[n].says = intents[n].says

LEMMA OpenedStays ==
  ASSUME Grows, NEW i, Opened(i)
  PROVE  Opened(i)'
  BY DEF Grows, Opened, T!InChannel

LEMMA NamedStays ==
  ASSUME Grows, NEW i
  PROVE  T!Named(i) \subseteq T!Named(i)'
  BY DEF Grows, T!Named

LEMMA PassedStays ==
  ASSUME Grows, NEW e, NEW n, Passed(e, n)
  PROVE  Passed(e, n)'
<1>1. Hooks' = Hooks
  BY DEF Grows, Hooks
<1>2. T!InChannel(T!Id(n)) => T!InChannel(T!Id(n))'
  BY DEF Grows, T!InChannel
<1>3. Opened(n.issue) => Opened(n.issue)'
  BY OpenedStays
<1>4. T!Named(n.issue) \subseteq T!Named(n.issue)'
  BY NamedStays
<1> QED
  BY <1>1, <1>2, <1>3, <1>4 DEF Passed, SaidOf

\* What was said at a time stays said, whatever is to do besides.
LEMMA SaidButStays ==
  ASSUME Grows, NEW e, Hooks[e].at \in Nat, NEW subject, NEW todo, SaidBut(e, subject, todo)
  PROVE  SaidBut(e, subject, todo)'
<1>1. Hooks' = Hooks /\ T!Course' = T!Course
  BY DEF Grows, Hooks, T!Course
<1>2. PICK hook, course : hook = Hooks[e] /\ course = T!Course
  OBVIOUS
<1>3. PICK k \in hook.at..now, codes \in T!Readable(hook) :
        LET owed == T!Owed(hook, subject, course[k], codes)
        IN  \A m \in DOMAIN owed : Passed(e, owed[m]) \/ owed[m] \in Elements(todo)
  BY <1>2 DEF SaidBut
<1>4. k \in hook.at..now'
  BY <1>2 DEF Grows
<1> DEFINE owed == T!Owed(hook, subject, course[k], codes)
<1>5. \A m \in DOMAIN owed : Passed(e, owed[m])' \/ owed[m] \in Elements(todo)
  BY <1>3, PassedStays
<1>6. hook = Hooks'[e] /\ course = T!Course'
  BY <1>1, <1>2
<1> QED
  BY <1>4, <1>5, <1>6 DEF SaidBut

LEMMA SaidAllIs ==
  ASSUME NEW e, NEW subject
  PROVE  /\ SaidAll(e, subject) <=> SaidBut(e, subject, <<>>)
         /\ SaidAll(e, subject)' <=> SaidBut(e, subject, <<>>)'
<1>1. Elements(<<>>) = {}
  BY DEF Elements
<1> QED
  BY <1>1 DEF SaidAll, SaidBut, Passed

LEMMA AllSaidStays ==
  ASSUME Grows, NEW e, Hooks[e].at \in Nat, AllSaid(e)
  PROVE  AllSaid(e)'
<1>1. Hooks' = Hooks
  BY DEF Grows, Hooks
<1>2. ASSUME NEW m \in DOMAIN Hooks[e].about
      PROVE  SaidAll(e, Hooks[e].about[m])'
  <2>1. PICK subject : subject = Hooks[e].about[m]
    OBVIOUS
  <2>2. SaidBut(e, subject, <<>>)
    BY <2>1, SaidAllIs DEF AllSaid
  <2>3. SaidBut(e, subject, <<>>)'
    BY <2>2, SaidButStays
  <2>4. SaidAll(e, subject)'
    BY <2>3, SaidAllIs
  <2> QED
    BY <1>1, <2>1, <2>4
<1> QED
  BY <1>1, <1>2 DEF AllSaid

\* Every webhook of the scenario comes at a time of its course.
LEMMA HookComes ==
  ASSUME IInv, NEW e \in DOMAIN Hooks
  PROVE  Hooks[e].at \in Nat /\ e \in Events
<1>1. PICK s \in DOMAIN Scenarios : s = scene
  BY DEF IInv, ScenesOK
<1>2. e \in DOMAIN Scenarios[s].hooks
  BY <1>1 DEF Hooks
<1>3. /\ DOMAIN Scenarios[s].hooks \subseteq Events
      /\ Len(Scenarios[s].course) \in Nat
      /\ Scenarios[s].hooks[e].at \in 1..Len(Scenarios[s].course)
  BY <1>2, PipelineAssumption DEF T!ThreadAssumption
<1> QED
  BY <1>1, <1>2, <1>3 DEF Hooks

LEMMA CoversStay ==
  ASSUME IInv, Grows, NEW s, NEW j, s # "rest" => j.event \in DOMAIN Hooks, CoversOK(s, j)
  PROVE  CoversOK(s, j)'
<1>1. Hooks' = Hooks
  BY DEF Grows, Hooks
<1> SUFFICES ASSUME s \in Busy \cup {"load", "ok"}, NEW m \in DOMAIN Hooks[j.event].about,
                    Hooks[j.event].about[m] \notin Elements(j.rest)
             PROVE  SaidBut(j.event, Hooks[j.event].about[m], j.todo)'
  BY <1>1 DEF CoversOK
<1>2. j.event \in DOMAIN Hooks
  BY DEF Busy, Past
<1>3. PICK subject : subject = Hooks[j.event].about[m]
  OBVIOUS
<1>4. SaidBut(j.event, subject, j.todo)
  BY <1>3 DEF CoversOK
<1>5. SaidBut(j.event, subject, j.todo)'
  BY <1>2, <1>4, HookComes, SaidButStays
<1> QED
  BY <1>1, <1>3, <1>5

LEMMA GoingStays ==
  ASSUME Grows, NEW s, NEW j, GoingOK(s, j)
  PROVE  GoingOK(s, j)'
<1>1. Opened(Work) => Opened(Work)'
  BY OpenedStays
<1>2. T!Named(Now(j).issue) \subseteq T!Named(Now(j).issue)'
  BY NamedStays
<1> QED
  BY <1>1, <1>2 DEF GoingOK

\* What event e tells of has come.
Due(e) == e \in DOMAIN Hooks /\ Hooks[e].at <= now

\* The queue after a step, by what has been said before it.
QueueGoes ==
  /\ \A e \in Events : task'[e] # "none" => Due(e)
  /\ \A w \in Workers : at'[w] # "idle" => Due(held'[w].job)
  /\ \A w \in Workers : at'[w] = "complete" => AllSaid(held'[w].job)
  /\ \A e \in Events : delivery'[e].status = "completed" /\ e \in DOMAIN Hooks => AllSaid(e)

LEMMA DueStays ==
  ASSUME IInv, Grows, NEW e, Due(e)
  PROVE  Due(e)'
<1>1. Hooks' = Hooks
  BY DEF Grows, Hooks
<1>2. Hooks[e].at \in Nat
  BY HookComes DEF Due
<1> QED
  BY <1>1, <1>2 DEF Grows, Due

LEMMA HooksTold ==
  ASSUME IInv, SaidInv, Grows, QueueGoes
  PROVE  HooksSaid'
<1>1. Hooks' = Hooks
  BY DEF Grows, Hooks
<1>2. \A e \in Events : task'[e] # "none" => Hooks'[e].at <= now'
  BY DueStays DEF QueueGoes, Due
<1>3. ASSUME NEW w \in Workers, at'[w] # "idle", NEW e, e = held'[w].job
      PROVE  /\ Hooks'[e].at <= now'
             /\ at'[w] = "complete" => AllSaid(e)'
  <2>1. Due(e)
    BY <1>3 DEF QueueGoes
  <2>2. Hooks[e].at \in Nat /\ Due(e)'
    BY <2>1, HookComes, DueStays DEF Due
  <2>3. at'[w] = "complete" => AllSaid(e)
    BY <1>3 DEF QueueGoes
  <2> QED
    BY <2>2, <2>3, AllSaidStays DEF Due
<1>4. \A w \in Workers : at'[w] # "idle" => Hooks'[D!Job(w)'].at <= now'
  BY <1>3 DEF D!Job
<1>5. \A w \in Workers : at'[w] = "complete" => AllSaid(D!Job(w))'
  <2> SUFFICES ASSUME NEW w \in Workers, at'[w] = "complete"
               PROVE  AllSaid(D!Job(w))'
    OBVIOUS
  <2>1. PICK e : e = held'[w].job
    OBVIOUS
  <2>2. AllSaid(e)' /\ e = D!Job(w)'
    BY <1>3, <2>1 DEF D!Job
  <2> QED
    BY <2>2
<1>6. CompletedIsSaid'
  <2> SUFFICES ASSUME NEW e \in DOMAIN Hooks, delivery'[e].status = "completed"
               PROVE  AllSaid(e)'
    BY <1>1 DEF CompletedIsSaid, AllSaid
  <2>1. AllSaid(e)
    BY HookComes DEF QueueGoes
  <2> QED
    BY <2>1, HookComes, AllSaidStays
<1> QED
  BY <1>2, <1>4, <1>5, <1>6 DEF HooksSaid

\* Before a step.
LEMMA QueueNow ==
  ASSUME IInv, SaidInv
  PROVE  /\ \A e \in Events : task[e] # "none" => Due(e)
         /\ \A w \in Workers : at[w] # "idle" => Due(held[w].job) /\ held[w].job \in Events
         /\ \A w \in Workers : at[w] = "complete" => AllSaid(held[w].job)
         /\ \A e \in DOMAIN Hooks : delivery[e].status = "completed" => AllSaid(e)
         /\ QueueOK
<1>1. QueueOK
  BY DEF IInv, QueueOK
<1> QED
  BY <1>1, HeldType
  DEF SaidInv, HooksSaid, IInv, HooksKnown, Due, CompletedIsSaid, AllSaid, D!Job

\* A step that leaves the queue alone.
LEMMA SameGoes ==
  ASSUME IInv, SaidInv, UNCHANGED <<task, delivery, at, held>>
  PROVE  QueueGoes
  BY QueueNow DEF QueueGoes

LEMMA SetupStays ==
  ASSUME SetupOK, Grows, UNCHANGED <<notified, setup>>
  PROVE  SetupOK'
<1>1. Opened(Work) => Opened(Work)'
  BY OpenedStays
<1>2. ASSUME NEW i \in T!Issues
      PROVE  (Opened(i) => Opened(i)') /\ T!Named(i) \subseteq T!Named(i)'
  BY OpenedStays, NamedStays
<1> QED
  BY <1>1, <1>2 DEF SetupOK

\* Another worker, or all of them, stay where they are.
LEMMA EffectsStay ==
  ASSUME IInv, SaidInv, Grows, NEW v \in Workers, step'[v] = step[v], job'[v] = job[v],
         at'[v] = "effects" <=> at[v] = "effects", held'[v] = held[v]
  PROVE  EffectsOK(v)'
<1>1. PICK s, j : s = step[v] /\ j = job[v]
  OBVIOUS
<1>2. (s # "rest" => j.event \in DOMAIN Hooks) /\ CoversOK(s, j) /\ GoingOK(s, j)
  BY <1>1, Worker DEF SaidInv, EffectsOK, JobOK
<1>3. CoversOK(s, j)' /\ GoingOK(s, j)'
  BY <1>2, CoversStay, GoingStays
<1>4. /\ at'[v] = "effects" <=> step'[v] # "rest"
      /\ at'[v] = "effects" => job'[v].event = D!Job(v)'
  BY DEF SaidInv, EffectsOK, D!Job
<1> QED
  BY <1>1, <1>3, <1>4 DEF EffectsOK

\* A worker goes somewhere, with what it has in hand then.
Moves(w, s, j) ==
  /\ step'[w] = s /\ job'[w] = j
  /\ \A v \in Workers \ {w} : step'[v] = step[v] /\ job'[v] = job[v]

LEMMA GoMoves ==
  ASSUME IInv, NEW w \in Workers, NEW s, NEW j, T!Go(w, s, j)
  PROVE  Moves(w, s, j)
  BY DEF IInv, ServiceOK, T!Go, Moves

\* A worker that goes on in the effects.
LEMMA Tells ==
  ASSUME IInv, SaidInv, Grows, UNCHANGED <<task, delivery, at, held>>, SetupOK',
         NEW w \in Workers, NEW s, NEW j,
         Moves(w, s, j), step[w] # "rest", s # "rest", j.event = job[w].event,
         CoversOK(s, j), GoingOK(s, j)'
  PROVE  SaidInv'
<1>1. HooksSaid'
  BY HooksTold, SameGoes
<1>2. ASSUME NEW v \in Workers \ {w}
      PROVE  EffectsOK(v)'
  BY EffectsStay DEF Moves
<1>3. EffectsOK(w)'
  <2>0. j.event \in DOMAIN Hooks
    BY Worker DEF JobOK
  <2>1. CoversOK(s, j)'
    BY <2>0, CoversStay
  <2>2. step'[w] = s /\ job'[w] = j
    BY DEF Moves
  <2>3. /\ at[w] = "effects" /\ job[w].event = D!Job(w) /\ D!Job(w)' = D!Job(w)
    BY DEF SaidInv, EffectsOK, D!Job
  <2> QED
    BY <2>1, <2>2, <2>3 DEF EffectsOK
<1> QED
  BY <1>1, <1>2, <1>3 DEF SaidInv

\* One that has the same to say as before.
LEMMA SameCovers ==
  ASSUME NEW r \in Busy \cup {"load", "ok"}, NEW j, CoversOK(r, j), NEW s, NEW k,
         k.event = j.event, k.rest = j.rest, k.todo = j.todo
  PROVE  CoversOK(s, k)
  BY DEF CoversOK

\* What a sequence has is its head, or in its tail.
LEMMA Splits ==
  ASSUME NEW S, NEW q \in Seq(S), q # <<>>, NEW x \in Elements(q)
  PROVE  x = Head(q) \/ x \in Elements(Tail(q))
<1>1. /\ Len(q) \in Nat /\ DOMAIN q = 1..Len(q) /\ Head(q) = q[1]
      /\ DOMAIN Tail(q) = 1..(Len(q) - 1)
      /\ \A i \in 1..(Len(q) - 1) : Tail(q)[i] = q[i + 1]
  BY LenProperties, HeadTailProperties
<1>2. ASSUME NEW i \in DOMAIN q, i # 1
      PROVE  q[i] \in Elements(Tail(q))
  <2>1. i - 1 \in 1..(Len(q) - 1)
    BY <1>1, <1>2
  <2>2. Tail(q)[i - 1] = q[i]
    BY <1>1, <1>2, <2>1
  <2> QED
    BY <1>1, <2>1, <2>2 DEF Elements
<1> QED
  BY <1>1, <1>2 DEF Elements

\* One that has said what it was at.
LEMMA LeftCovers ==
  ASSUME NEW r \in Busy, NEW j, TodoOK(j.todo), j.todo # <<>>, CoversOK(r, j),
         Passed(j.event, Head(j.todo)), NEW s, NEW k,
         k.event = j.event, k.rest = j.rest, k.todo = Tail(j.todo)
  PROVE  CoversOK(s, k)
<1>1. PICK e : e = j.event
  OBVIOUS
<1>2. \A n \in Elements(j.todo) : n = Head(j.todo) \/ n \in Elements(Tail(j.todo))
  BY Splits DEF TodoOK
<1>3. ASSUME NEW subject, SaidBut(e, subject, j.todo)
      PROVE  SaidBut(e, subject, Tail(j.todo))
  BY <1>1, <1>2, <1>3 DEF SaidBut
<1> QED
  BY <1>1, <1>3 DEF CoversOK

\* A worker that goes on with what it has said, of which the store says as much.
Speaks(w) ==
  \E s, j : /\ T!Go(w, s, j) /\ s # "rest" /\ j.event = job[w].event
            /\ CoversOK(s, j) /\ GoingOK(s, j)

LEMMA SpeaksTells ==
  ASSUME IInv, SaidInv, Grows, UNCHANGED <<task, delivery, at, held>>, SetupOK',
         NEW w \in Workers, step[w] # "rest", Speaks(w)
  PROVE  SaidInv'
<1>1. PICK s, j : /\ T!Go(w, s, j) /\ s # "rest" /\ j.event = job[w].event
                  /\ CoversOK(s, j) /\ GoingOK(s, j)
  BY DEF Speaks
<1>2. GoingOK(s, j)'
  BY <1>1, GoingStays
<1> QED
  BY <1>1, <1>2, GoMoves, Tells

LEMMA GotoSpeaks ==
  ASSUME SaidInv, NEW w \in Workers, step[w] \in Busy, NEW s, T!Goto(w, s), s # "rest",
         GoingOK(s, job[w])
  PROVE  Speaks(w)
<1>1. PICK r, j : r \in Busy /\ r = step[w] /\ j = job[w]
  OBVIOUS
<1>2. CoversOK(s, j)
  BY <1>1, SameCovers DEF SaidInv, EffectsOK
<1> QED
  BY <1>1, <1>2, GotoGo DEF Speaks

LEMMA ToRootSpeaks ==
  ASSUME SaidInv, NEW w \in Workers, step[w] \in Busy, NEW j, T!ToRoot(w, j),
         JobOK(step[w], job[w]),
         DOMAIN j = {"event", "rest", "todo", "opening", "parent"},
         j.event = job[w].event, j.rest = job[w].rest, j.todo = job[w].todo
  PROVE  Speaks(w)
<1> DEFINE n == Head(j.todo)
           p == IF n.issue = Work THEN n.seen ELSE T!Course[now][Work]
           k == [j EXCEPT !.parent = p]
<1>1. T!Go(w, "root", k)
  BY DEF T!ToRoot
<1>2. k.event = j.event /\ k.rest = j.rest /\ k.todo = j.todo
  OBVIOUS
<1> HIDE DEF k
<1>3. PICK r, i : r \in Busy /\ r = step[w] /\ i = job[w]
  OBVIOUS
<1>4. CoversOK("root", k)
  BY <1>2, <1>3, SameCovers DEF SaidInv, EffectsOK
<1>5. GoingOK("root", k)
  BY DEF GoingOK
<1> QED
  BY <1>1, <1>2, <1>4, <1>5 DEF Speaks

\* On to the next notice, when the one it was at has been said.
LEMMA OnwardSpeaks ==
  ASSUME IInv, SaidInv, NEW w \in Workers, step[w] \in Busy, T!Onward(w),
         ~job[w].opening => Passed(job[w].event, Head(job[w].todo))
  PROVE  Speaks(w)
<1>1. PICK r, j : r \in Busy /\ r = step[w] /\ j = job[w]
  OBVIOUS
<1>2. JobOK(r, j) /\ CoversOK(r, j)
  BY <1>1, Worker DEF SaidInv, EffectsOK
<1>3. /\ j.opening \in BOOLEAN /\ TodoOK(j.todo) /\ j.todo # <<>>
      /\ DOMAIN j = {"event", "rest", "todo", "opening", "parent"}
  BY <1>1, <1>2, BusyFacts
<1>4. CASE j.opening
  <2> DEFINE k == [j EXCEPT !.opening = FALSE]
  <2>1. T!ToRoot(w, k)
    BY <1>1, <1>4 DEF T!Onward
  <2>2. /\ k.event = j.event /\ k.rest = j.rest /\ k.todo = j.todo
        /\ DOMAIN k = {"event", "rest", "todo", "opening", "parent"}
    BY <1>3
  <2> HIDE DEF k
  <2> QED
    BY <1>1, <1>2, <2>1, <2>2, ToRootSpeaks
<1>5. CASE ~j.opening
  <2> DEFINE left == Tail(j.todo)
             k1 == [j EXCEPT !.todo = left]
             k == [k1 EXCEPT !.parent = None]
  <2>1. k1.event = j.event /\ k1.rest = j.rest /\ k1.todo = left
        /\ DOMAIN k1 = {"event", "rest", "todo", "opening", "parent"}
    BY <1>3
  <2>2. \E s \in {"load", "consume", "check"} :
          /\ T!Go(w, s, k)
          /\ s = "load" => left = <<>>
          /\ s = "consume" => Head(left).kind = "issue-assignment-changed"
    <3>1. k = [j EXCEPT !.todo = left, !.parent = None]
      OBVIOUS
    <3> HIDE DEF k, left
    <3>2. left = Tail(job[w].todo)
      BY <1>1 DEF left
    <3> QED
      BY <1>1, <1>5, <3>1, <3>2 DEF T!Onward
  <2> HIDE DEF k1
  <2>3. k.event = j.event /\ k.rest = j.rest /\ k.todo = left
    BY <2>1
  <2> HIDE DEF k
  <2>4. PICK s \in {"load", "consume", "check"} :
          /\ T!Go(w, s, k)
          /\ s = "load" => left = <<>>
          /\ s = "consume" => Head(left).kind = "issue-assignment-changed"
    BY <2>2
  <2>5. CoversOK(s, k)
    BY <1>1, <1>2, <1>3, <1>5, <2>3, LeftCovers
  <2>6. GoingOK(s, k)
    BY <2>3, <2>4 DEF GoingOK
  <2> QED
    BY <1>1, <2>3, <2>4, <2>5, <2>6 DEF Speaks
<1> QED
  BY <1>3, <1>4, <1>5
-----------------------------------------------------------------------------
(* The steps of a worker in the effects, and what they say.                *)

\* A step in the effects: the queue waits.
Telling == IInv /\ SaidInv /\ Grows /\ UNCHANGED <<task, delivery, at, held>>

\* One that neither remembers nor sets up anything.
LEMMA QuietTells ==
  ASSUME Telling, NEW w \in Workers, step[w] # "rest", Speaks(w), UNCHANGED <<notified, setup>>
  PROVE  SaidInv'
<1>1. SetupOK'
  BY SetupStays DEF Telling, SaidInv
<1> QED
  BY <1>1, SpeaksTells DEF Telling

LEMMA LoadTells ==
  ASSUME Telling, NEW w \in Workers, T!Load(w)
  PROVE  SaidInv'
<1>1. PICK j : j = job[w]
  OBVIOUS
<1>2. step[w] = "load" /\ UNCHANGED <<notified, setup>>
  BY DEF T!Load
<1>3. /\ DOMAIN j = {"event", "rest", "todo", "opening", "parent"}
      /\ j.event \in DOMAIN Hooks /\ j.rest \in Seq(Elements(Hooks[j.event].about))
  BY <1>1, <1>2, Worker DEF Telling, JobOK
<1>4. CoversOK("load", j) /\ GoingOK("load", j)
  BY <1>1, <1>2 DEF Telling, SaidInv, EffectsOK
<1>5. at[w] = "effects" /\ j.event = D!Job(w)
  BY <1>1, <1>2 DEF Telling, SaidInv, EffectsOK
<1>6. CASE j.rest = <<>> /\ T!Goto(w, "ok")
  <2>1. T!Go(w, "ok", j)
    BY <1>1, <1>6, GotoGo
  <2>2. CoversOK("ok", j)
    BY <1>4, SameCovers
  <2>3. GoingOK("ok", j)
    BY <1>4, <1>6 DEF GoingOK
  <2> QED
    BY <1>1, <1>2, <2>1, <2>2, <2>3, QuietTells DEF Speaks
<1>7. CASE j.rest # <<>>
  <2>1. PICK hook, course : hook = Hooks[j.event] /\ course = T!Course
    OBVIOUS
  <2>2. T!Hook(w) = hook
    BY <1>1, <2>1 DEF T!Hook, T!Hooks, Hooks
  <2>3. PICK codes \in T!Readable(hook) : \E todo :
          /\ todo = T!Owed(hook, Head(j.rest), course[now], codes)
          /\ T!Go(w, IF todo = <<>> THEN "load" ELSE "check",
                  [j EXCEPT !.rest = Tail(j.rest), !.todo = todo])
    BY <1>1, <1>7, <2>1, <2>2 DEF T!Load
  <2>4. PICK todo :
          /\ todo = T!Owed(hook, Head(j.rest), course[now], codes)
          /\ T!Go(w, IF todo = <<>> THEN "load" ELSE "check",
                  [j EXCEPT !.rest = Tail(j.rest), !.todo = todo])
    BY <2>3
  <2> DEFINE k1 == [j EXCEPT !.rest = Tail(j.rest)]
             k == [k1 EXCEPT !.todo = todo]
             s == IF todo = <<>> THEN "load" ELSE "check"
  <2>5. T!Go(w, s, k)
    BY <2>4
  <2>6. k.event = j.event /\ k.rest = Tail(j.rest) /\ k.todo = todo
    BY <1>3
  <2> HIDE DEF k, k1
  <2>7. GoingOK(s, k)
    BY <2>6 DEF GoingOK
  <2>8. SaidBut(j.event, Head(j.rest), todo)
    <3>1. now \in hook.at..now
      <4>1. hook.at \in Nat /\ hook.at <= now
        BY <1>3, <1>5, <2>1, HookComes DEF Telling, SaidInv, HooksSaid
      <4>2. now \in Nat
        BY DEF Telling, Grows
      <4> QED
        BY <4>1, <4>2
    <3>2. \A m \in DOMAIN todo : todo[m] \in Elements(todo)
      BY DEF Elements
    <3> QED
      BY <2>1, <2>4, <3>1, <3>2 DEF SaidBut
  <2>9. ASSUME NEW subject, SaidBut(j.event, subject, <<>>)
        PROVE  SaidBut(j.event, subject, todo)
    <3>1. Elements(<<>>) = {}
      BY DEF Elements
    <3> QED
      BY <2>9, <3>1 DEF SaidBut
  <2>10. \A x \in Elements(j.rest) : x = Head(j.rest) \/ x \in Elements(Tail(j.rest))
    BY <1>3, <1>7, Splits
  <2>11. j.todo = <<>>
    BY <1>4 DEF GoingOK
  <2>12. CoversOK(s, k)
    <3> SUFFICES ASSUME NEW m \in DOMAIN Hooks[k.event].about
                 PROVE  \/ Hooks[k.event].about[m] \in Elements(k.rest)
                        \/ SaidBut(k.event, Hooks[k.event].about[m], k.todo)
      BY DEF CoversOK
    <3>1. PICK x : x = Hooks[k.event].about[m]
      OBVIOUS
    <3>2. x \in Elements(j.rest) \/ SaidBut(j.event, x, <<>>)
      BY <1>4, <2>6, <2>11, <3>1 DEF CoversOK
    <3>3. x \in Elements(k.rest) \/ SaidBut(j.event, x, todo)
      BY <2>6, <2>8, <2>9, <2>10, <3>2
    <3> QED
      BY <2>6, <3>1, <3>3
  <2> QED
    BY <1>1, <1>2, <2>5, <2>6, <2>7, <2>12, QuietTells DEF Speaks
<1> QED
  BY <1>1, <1>6, <1>7 DEF T!Load

LEMMA CheckTells ==
  ASSUME Telling, NEW w \in Workers, T!Check(w)
  PROVE  SaidInv'
<1>1. PICK j : j = job[w]
  OBVIOUS
<1>2. step[w] = "check" /\ UNCHANGED <<notified, setup>>
  BY DEF T!Check
<1>3. JobOK("check", j) /\ "check" \in Busy
  BY <1>1, <1>2, Worker DEF Telling, Busy
<1>4. /\ j.opening \in BOOLEAN /\ TodoOK(j.todo) /\ j.todo # <<>>
      /\ DOMAIN j = {"event", "rest", "todo", "opening", "parent"}
  BY <1>3, BusyFacts
<1>5. CoversOK("check", j)
  BY <1>1, <1>2 DEF Telling, SaidInv, EffectsOK
<1> DEFINE n == Now(j)
<1>6. /\ NoticeOK(n)
      /\ ~j.opening => n = Head(j.todo)
      /\ Opens(j) => T!Id(n) = T!OverviewId(n.issue)
  BY <1>4, NowFacts
<1>7. T!Current(w) = n
  BY <1>1, Sight
<1> HIDE DEF n
<1>8. Speaks(w)
  <2>1. CASE (T!Adrift(n) \/ T!Id(n) \in notified) /\ T!Onward(w)
    <3>1. ASSUME ~j.opening, T!Id(n) \in notified
          PROVE  Passed(j.event, n)
      <4>1. CASE T!Id(n) = T!OverviewId(Work)
        <5>1. n.issue = Work /\ n.kind = "issue-opened"
          BY <4>1, Ids DEF T!OverviewId
        <5>2. Opened(Work)
          BY <3>1, <4>1 DEF Telling, SaidInv, SetupOK
        <5> QED
          BY <5>1, <5>2 DEF Passed, SaidOf
      <4>2. CASE T!Id(n) # T!OverviewId(Work)
        <5>1. T!InChannel(T!Id(n))
          BY <3>1, <4>2 DEF Telling, IInv, StoreOK, NotifiedOK
        <5> QED
          BY <5>1 DEF Passed, SaidOf
      <4> QED
        BY <4>1, <4>2
    <3>2. ~j.opening => Passed(j.event, Head(j.todo))
      BY <1>6, <2>1, <3>1 DEF Passed
    <3> QED
      BY <1>1, <1>2, <1>3, <2>1, <3>2, OnwardSpeaks DEF Telling
  <2>2. CASE T!ToRoot(w, j)
    BY <1>1, <1>2, <1>3, <1>4, <2>2, ToRootSpeaks DEF Telling
  <2>3. CASE T!Go(w, "check", [j EXCEPT !.opening = TRUE])
    <3> DEFINE k == [j EXCEPT !.opening = TRUE]
    <3>1. k.event = j.event /\ k.rest = j.rest /\ k.todo = j.todo
      BY <1>4
    <3>2. T!Go(w, "check", k)
      BY <2>3
    <3> HIDE DEF k
    <3>3. CoversOK("check", k)
      BY <1>3, <1>5, <3>1, SameCovers
    <3>4. GoingOK("check", k)
      BY DEF GoingOK
    <3> QED
      BY <1>1, <3>1, <3>2, <3>3, <3>4 DEF Speaks
  <2> QED
    BY <1>1, <1>7, <2>1, <2>2, <2>3 DEF T!Check
<1> QED
  BY <1>2, <1>8, QuietTells

\* The thread's recorded root is a message under nothing.
LEMMA RootOpens ==
  /\ StoreOK /\ thread.status = "ready" => Opened(Work)
  /\ StoreOK' /\ thread'.status = "ready" => Opened(Work)'
  BY DEF StoreOK, ThreadOK, Opened

\* A worker that gives up the notice, or is at one that is not called for yet.
LEMMA IdleGoing ==
  ASSUME NEW s \in {"check", "root", "call_root", "wait_root", "save_root", "retryable",
                    "failed"}, NEW j
  PROVE  GoingOK(s, j) /\ s # "rest"
  BY DEF GoingOK

LEMMA GoneTells ==
  ASSUME Telling, NEW w \in Workers, step[w] \in Busy, UNCHANGED <<notified, setup>>,
         NEW s \in {"check", "root", "call_root", "wait_root", "save_root", "retryable",
                    "failed"}, T!Goto(w, s)
  PROVE  SaidInv'
<1>1. PICK j : j = job[w]
  OBVIOUS
<1>2. Speaks(w)
  BY <1>1, IdleGoing, GotoSpeaks DEF Telling
<1> QED
  BY <1>2, QuietTells DEF Busy, Past

\* With a root, it has the Work's overview, or replies with another notice.
LEMMA RootedTells ==
  ASSUME Telling, NEW w \in Workers, step[w] \in Busy, UNCHANGED <<notified, setup>>,
         T!WithRootAt(w), StoreOK', thread'.status = "ready"
  PROVE  SaidInv'
<1>1. PICK r, j : r = step[w] /\ j = job[w]
  OBVIOUS
<1>2. PICK s \in {"mark", "reply"} : s = IF OwnsRoot(j) THEN "mark" ELSE "reply"
  OBVIOUS
<1>3. T!Go(w, s, j)
  BY <1>1, <1>2, Sight DEF T!WithRootAt, T!Goto
<1>4. CoversOK(r, j)
  BY <1>1 DEF Telling, SaidInv, EffectsOK
<1>5. CoversOK(s, j)
  BY <1>1, <1>4, SameCovers
<1>6. Opened(Work)'
  BY RootOpens DEF Opened
<1>7. GoingOK(s, j)'
  BY <1>2, <1>6 DEF GoingOK, OwnsRoot
<1>8. step[w] # "rest" /\ s # "rest"
  BY DEF Busy, Past
<1>9. SetupOK'
  BY SetupStays DEF Telling, SaidInv
<1> QED
  BY <1>1, <1>3, <1>5, <1>7, <1>8, <1>9, GoMoves, Tells DEF Telling

LEMMA HasRootTells ==
  ASSUME Telling, NEW w \in Workers, T!HasRoot(w)
  PROVE  SaidInv'
<1>1. /\ step[w] \in Busy /\ T!WithRootAt(w) /\ thread.status = "ready"
      /\ UNCHANGED <<scene, thread, intents, channel, notified, setup>>
  BY DEF T!HasRoot, Busy, Past, T!world
<1>2. StoreOK'
  BY <1>1, StoreSame DEF Telling, IInv
<1> QED
  BY <1>1, <1>2, RootedTells

LEMMA ClaimRootTells ==
  ASSUME Telling, NEW w \in Workers, T!ClaimRoot(w)
  PROVE  SaidInv'
<1>1. PICK r, j : r = step[w] /\ j = job[w]
  OBVIOUS
<1>2. /\ r = "root" /\ UNCHANGED <<notified, setup, job>>
      /\ step' = [step EXCEPT ![w] = "call_root"]
  BY <1>1 DEF T!ClaimRoot
<1>3. Moves(w, "call_root", j)
  BY <1>1, <1>2 DEF Telling, IInv, ServiceOK, Moves
<1>4. CoversOK(r, j)
  BY <1>1 DEF Telling, SaidInv, EffectsOK
<1>5. CoversOK("call_root", j)
  BY <1>2, <1>4, SameCovers DEF Busy, Past
<1>6. GoingOK("call_root", j)'
  BY DEF GoingOK
<1>7. SetupOK'
  BY <1>2, SetupStays DEF Telling, SaidInv
<1> QED
  BY <1>1, <1>2, <1>3, <1>5, <1>6, <1>7, Tells DEF Telling

LEMMA RootInProgressTells ==
  ASSUME Telling, NEW w \in Workers, T!RootInProgress(w)
  PROVE  SaidInv'
<1>1. /\ step[w] \in Busy /\ T!Goto(w, "retryable") /\ UNCHANGED <<notified, setup>>
  BY DEF T!RootInProgress, Busy, Past
<1> QED
  BY <1>1, GoneTells

LEMMA SaveRootTells ==
  ASSUME Telling, StoreOK', NEW w \in Workers, T!SaveRoot(w)
  PROVE  SaidInv'
<1>1. /\ step[w] \in Busy /\ UNCHANGED <<notified, setup>>
      /\ \/ T!WithRootAt(w) /\ thread'.status = "ready"
         \/ T!Goto(w, "retryable")
  BY DEF T!SaveRoot, Busy, Past
<1> QED
  BY <1>1, GoneTells, RootedTells

\* A worker outside of ensureRoot calls for the notice it is at.
LEMMA CallsFor ==
  ASSUME NEW w, step[w] \in {"reply", "wait"}, NEW j, j = job[w],
         JobOK(step[w], j), Opens(j)
  PROVE  /\ T!Delivering(w) = Now(j) /\ T!Intent(w) = T!OverviewId(Now(j).issue)
         /\ Now(j).says[2] = Now(j).seen.assignees
<1>1. PICK r \in {"reply", "wait"} : r = step[w]
  OBVIOUS
<1>2. r \in Busy /\ ~OnRoot(r)
  BY DEF Busy, Past, OnRoot
<1>3. NoticeOK(Now(j)) /\ T!Id(Now(j)) = T!OverviewId(Now(j).issue)
  BY <1>1, <1>2, BusyFacts, NowFacts
<1>4. T!Delivering(w) = Now(j)
  BY <1>1, <1>2, Sight DEF T!Delivering
<1> QED
  BY <1>3, <1>4 DEF NoticeOK, Opens, T!Intent

LEMMA CallTells ==
  ASSUME Telling, NEW w \in Workers, step[w] = "reply", T!Call(w), UNCHANGED <<notified, setup>>
  PROVE  SaidInv'
<1>1. PICK j : j = job[w]
  OBVIOUS
<1>2. JobOK("reply", j) /\ CoversOK("reply", j) /\ GoingOK("reply", j)
  BY <1>1, Worker DEF Telling, SaidInv, EffectsOK
<1>3. T!Go(w, "wait", j)
  BY <1>1 DEF T!Call, T!Goto, T!ForRoot
<1>4. CoversOK("wait", j)
  BY <1>2, SameCovers DEF Busy, Past
<1>5. ASSUME Opens(j)
      PROVE  Now(j).seen.assignees \subseteq T!Named(Now(j).issue)'
  <2>1. PICK i, says : i = T!Intent(w) /\ says = T!Delivering(w).says
    OBVIOUS
  <2>2. i = T!OverviewId(Now(j).issue) /\ says = Now(j).says
        /\ Now(j).says[2] = Now(j).seen.assignees
    BY <1>1, <1>2, <1>5, <2>1, CallsFor
  <2>3. i \in DOMAIN intents' /\ intents'[i].says = says
    BY <2>1 DEF T!Call
  <2> QED
    BY <2>2, <2>3 DEF T!Named
<1>6. GoingOK("wait", j)'
  BY <1>2, <1>5 DEF GoingOK
<1>7. SetupOK'
  BY SetupStays DEF Telling, SaidInv
<1> QED
  BY <1>1, <1>3, <1>4, <1>6, <1>7, GoMoves, Tells DEF Telling

LEMMA DeliverTells ==
  ASSUME Telling, NEW w \in Workers, T!Deliver(w)
  PROVE  SaidInv'
<1>1. PICK r, j : r \in {"call_root", "reply"} /\ r = step[w] /\ j = job[w]
  BY DEF T!Deliver
<1>2. UNCHANGED <<notified, setup>> /\ r \in Busy
  BY <1>1 DEF T!Deliver, Busy, Past
<1>3. JobOK(r, j) /\ CoversOK(r, j) /\ GoingOK(r, j)
  BY <1>1, Worker DEF Telling, SaidInv, EffectsOK
<1>4. CASE T!Call(w)
  <2>1. CASE r = "call_root"
    <3>1. T!Goto(w, "wait_root")
      BY <1>1, <1>4, <2>1 DEF T!Call, T!ForRoot
    <3> QED
      BY <1>1, <1>2, <3>1, GoneTells
  <2>2. CASE r = "reply"
    BY <1>1, <1>2, <1>4, <2>2, CallTells
  <2> QED
    BY <1>1, <2>1, <2>2
<1>5. CASE \E s \in {"failed", "retryable"} : T!Goto(w, s)
  BY <1>1, <1>2, <1>5, GoneTells
<1>6. CASE T!Known(w) /\ T!Same(w) /\ T!Delivered(w)
  <2>1. CASE r = "call_root"
    <3>1. T!Goto(w, "save_root")
      BY <1>1, <1>6, <2>1 DEF T!Delivered, T!ForRoot
    <3> QED
      BY <1>1, <1>2, <3>1, GoneTells
  <2>2. CASE r = "reply"
    <3>1. T!Goto(w, "mark")
      BY <1>1, <1>6, <2>2 DEF T!Delivered, T!ForRoot
    <3>2. ASSUME Opens(j)
          PROVE  Now(j).seen.assignees \subseteq T!Named(Now(j).issue)
      <4>1. step[w] = "reply" /\ JobOK(step[w], j)
        BY <1>1, <1>3, <2>2
      <4>2. /\ T!Delivering(w) = Now(j) /\ T!Intent(w) = T!OverviewId(Now(j).issue)
            /\ Now(j).says[2] = Now(j).seen.assignees
        BY <1>1, <3>2, <4>1, CallsFor
      <4> QED
        BY <1>6, <4>2 DEF T!Known, T!Same, T!Named
    <3>3. GoingOK("mark", j)
      BY <1>3, <2>2, <3>2 DEF GoingOK
    <3>4. Speaks(w)
      BY <1>1, <1>2, <3>1, <3>3, GotoSpeaks DEF Telling
    <3> QED
      BY <1>1, <1>2, <3>4, QuietTells
  <2> QED
    BY <1>1, <2>1, <2>2
<1>7. T!Known(w) => intents[T!Intent(w)].status \in {"sending", "sent", "needs_review", "failed"}
  BY DEF T!Known, Telling, IInv, StoreOK, IntentOK
<1> QED
  BY <1>4, <1>5, <1>6, <1>7 DEF T!Deliver

LEMMA AnswerTells ==
  ASSUME Telling, NEW w \in Workers, T!Posted(w) \/ T!Uncertain(w) \/ T!Refused(w)
  PROVE  SaidInv'
<1>1. PICK r, j : r = step[w] /\ j = job[w]
  OBVIOUS
<1>2. r \in {"wait_root", "wait"} /\ r \in Busy /\ UNCHANGED <<notified, setup>>
  BY <1>1 DEF T!Posted, T!Uncertain, T!Refused, T!Waiting, Busy, Past
<1>3. CASE T!Goto(w, "failed")
  BY <1>1, <1>2, <1>3, GoneTells
<1>4. CASE T!Delivered(w) /\ r = "wait_root"
  <2>1. T!Goto(w, "save_root")
    BY <1>1, <1>4 DEF T!Delivered, T!ForRoot
  <2> QED
    BY <1>1, <1>2, <2>1, GoneTells
<1>5. CASE T!Delivered(w) /\ r = "wait"
  <2>1. T!Goto(w, "mark")
    BY <1>1, <1>5 DEF T!Delivered, T!ForRoot
  <2>2. GoingOK("wait", j)
    BY <1>1, <1>5 DEF Telling, SaidInv, EffectsOK
  <2>3. GoingOK("mark", j)
    BY <2>2 DEF GoingOK
  <2>4. Speaks(w)
    BY <1>1, <1>2, <2>1, <2>3, GotoSpeaks DEF Telling
  <2> QED
    BY <1>1, <1>2, <2>4, QuietTells DEF Busy, Past
<1> QED
  BY <1>2, <1>3, <1>4, <1>5 DEF T!Posted, T!Uncertain, T!Refused

LEMMA MarkTells ==
  ASSUME Telling, NEW w \in Workers, T!Mark(w)
  PROVE  SaidInv'
<1>1. PICK j : j = job[w]
  OBVIOUS
<1>2. PICK n : n = T!Id(Now(j))
  OBVIOUS
<1>3. T!Current(w) = Now(j) /\ T!OnOverview(w) = Opens(j)
  BY <1>1, Sight
<1>4. /\ step[w] = "mark" /\ UNCHANGED setup
      /\ notified' = {m \in notified : m.issue # n.issue \/ m.kind # n.kind} \cup {n}
  BY <1>2, <1>3 DEF T!Mark
<1>5. /\ JobOK("mark", j) /\ PlaceOK("mark", j, claim[w]) /\ "mark" \in Busy
      /\ CoversOK("mark", j) /\ GoingOK("mark", j)
  BY <1>1, <1>4, Worker DEF Busy, Past, Telling, SaidInv, EffectsOK
<1>6. /\ j.opening => Opens(j)
      /\ ~j.opening => Now(j) = Head(j.todo)
  BY <1>5, BusyFacts, NowFacts
<1>7. SetupOK'
  <2>1. n = T!OverviewId(Work) => OwnsRoot(j)
    BY <1>2, Ids DEF T!OverviewId, OwnsRoot, Opens
  <2>2. T!OverviewId(Work) \in notified' => Opened(Work)
    BY <1>4, <1>5, <2>1 DEF GoingOK, Telling, SaidInv, SetupOK
  <2>3. Opened(Work) => Opened(Work)'
    BY OpenedStays DEF Telling
  <2>4. ASSUME NEW i \in T!Issues
        PROVE  (Opened(i) => Opened(i)') /\ T!Named(i) \subseteq T!Named(i)'
    BY OpenedStays, NamedStays DEF Telling
  <2> QED
    BY <1>4, <2>2, <2>3, <2>4 DEF Telling, SaidInv, SetupOK
<1>8. Speaks(w)
  <2>1. CASE Opens(j) /\ T!Goto(w, "setup")
    <3>1. GoingOK("setup", j)
      BY <1>5 DEF GoingOK
    <3> QED
      BY <1>1, <1>4, <1>5, <2>1, <3>1, GotoSpeaks DEF Telling
  <2>2. CASE ~Opens(j) /\ T!Onward(w)
    <3>1. T!InChannel(n)
      BY <1>2, <1>5, <2>2 DEF PlaceOK, OwnsRoot
    <3>2. Passed(j.event, Now(j))
      BY <1>2, <3>1 DEF Passed, SaidOf
    <3> QED
      BY <1>1, <1>4, <1>5, <1>6, <2>2, <3>2, OnwardSpeaks DEF Telling
  <2> QED
    BY <1>3, <2>1, <2>2 DEF T!Mark
<1> QED
  BY <1>4, <1>7, <1>8, SpeaksTells DEF Telling

LEMMA SetUpTells ==
  ASSUME Telling, NEW w \in Workers, T!SetUp(w)
  PROVE  SaidInv'
<1>1. PICK j : j = job[w]
  OBVIOUS
<1>2. PICK n : n = Now(j)
  OBVIOUS
<1>3. T!Current(w) = n
  BY <1>1, <1>2, Sight
<1>4. /\ step[w] = "setup" /\ T!Onward(w) /\ UNCHANGED notified
      /\ setup' = IF setup[n.issue].made THEN setup
                  ELSE [setup EXCEPT ![n.issue] = [made |-> TRUE, pending |-> n.seen.assignees]]
  BY <1>3 DEF T!SetUp
<1>5. /\ JobOK("setup", j) /\ PlaceOK("setup", j, claim[w]) /\ "setup" \in Busy
      /\ CoversOK("setup", j) /\ GoingOK("setup", j)
  BY <1>1, <1>4, Worker DEF Busy, Telling, SaidInv, EffectsOK
<1>6. Opens(j) /\ (n.issue = Work \/ T!InChannel(T!Id(n)))
  BY <1>2, <1>5 DEF PlaceOK
<1>7. /\ NoticeOK(n) /\ T!Id(n) = T!OverviewId(n.issue)
      /\ ~j.opening => n = Head(j.todo)
  BY <1>2, <1>5, <1>6, BusyFacts, NowFacts
<1>8. Opened(n.issue)
  BY <1>2, <1>5, <1>6, <1>7 DEF GoingOK, OwnsRoot, Opened
<1>9. n.issue # Work => n.seen.assignees \subseteq T!Named(n.issue)
  BY <1>2, <1>5, <1>6 DEF GoingOK
<1>10. SetupOK'
  <2>1. ASSUME NEW i \in T!Issues
        PROVE  (Opened(i) => Opened(i)') /\ T!Named(i) \subseteq T!Named(i)'
    BY OpenedStays, NamedStays DEF Telling
  <2>2. Opened(Work) => Opened(Work)'
    BY OpenedStays DEF Telling
  <2>3. n.issue \in T!Issues
    BY <1>7 DEF NoticeOK
  <2>4. PICK p : p = [made |-> TRUE, pending |-> n.seen.assignees]
    OBVIOUS
  <2>5. DOMAIN p = {"made", "pending"} /\ p.pending = n.seen.assignees
    BY <2>4
  <2>6. DOMAIN setup = T!Issues
    BY DEF Telling, IInv, ServiceOK
  <2>7. ASSUME NEW i \in T!Issues
        PROVE  setup'[i] = setup[i] \/ (i = n.issue /\ setup'[i] = p)
    BY <1>4, <2>4, <2>6
  <2>8. ASSUME NEW i \in T!Issues
        PROVE  /\ DOMAIN setup'[i] = {"made", "pending"}
               /\ setup'[i].pending # {} => Opened(i)'
               /\ i # Work => setup'[i].pending \subseteq T!Named(i)'
    <3>1. CASE setup'[i] = setup[i]
      BY <2>1, <3>1 DEF Telling, SaidInv, SetupOK
    <3>2. CASE i = n.issue /\ setup'[i] = p
      BY <1>8, <1>9, <2>1, <2>5, <3>2
    <3> QED
      BY <2>7, <3>1, <3>2
  <2> QED
    BY <1>4, <2>2, <2>8 DEF Telling, SaidInv, SetupOK
<1>11. Speaks(w)
  <2>1. Passed(j.event, n)
    BY <1>6, <1>8, <1>2 DEF Passed, SaidOf, Opens
  <2> QED
    BY <1>1, <1>4, <1>5, <1>7, <2>1, OnwardSpeaks DEF Telling
<1> QED
  BY <1>4, <1>10, <1>11, SpeaksTells DEF Telling

LEMMA ConsumeTells ==
  ASSUME Telling, NEW w \in Workers, T!Consume(w)
  PROVE  SaidInv'
<1>1. PICK j : j = job[w]
  OBVIOUS
<1>2. PICK n : n = Now(j)
  OBVIOUS
<1>3. PICK hook : hook = Hooks[j.event]
  OBVIOUS
<1>4. T!Current(w) = n /\ T!Hook(w) = hook
  BY <1>1, <1>2, <1>3, Sight DEF T!Hook, T!Hooks, Hooks
<1>5. /\ step[w] = "consume" /\ UNCHANGED notified
      /\ setup' = [setup EXCEPT ![n.issue].pending = setup[n.issue].pending \ {hook.login}]
  BY <1>4 DEF T!Consume
<1>6. /\ JobOK("consume", j) /\ "consume" \in Busy
      /\ CoversOK("consume", j) /\ GoingOK("consume", j)
  BY <1>1, <1>5, Worker DEF Busy, Telling, SaidInv, EffectsOK
<1>7. j.opening = FALSE
  BY <1>6 DEF JobOK
<1>8. NoticeOK(n) /\ n = Head(j.todo) /\ n.kind = "issue-assignment-changed"
  BY <1>2, <1>6, <1>7, BusyFacts, NowFacts DEF GoingOK
<1>9. SetupOK'
  <2>1. ASSUME NEW i \in T!Issues
        PROVE  (Opened(i) => Opened(i)') /\ T!Named(i) \subseteq T!Named(i)'
    BY OpenedStays, NamedStays DEF Telling
  <2>2. Opened(Work) => Opened(Work)'
    BY OpenedStays DEF Telling
  <2>3. n.issue \in T!Issues
    BY <1>8 DEF NoticeOK
  <2>4. DOMAIN setup = T!Issues
    BY DEF Telling, IInv, ServiceOK
  <2>5. ASSUME NEW i \in T!Issues
        PROVE  /\ DOMAIN setup'[i] = {"made", "pending"}
               /\ setup'[i].pending \subseteq setup[i].pending
    BY <1>5, <2>3, <2>4 DEF Telling, SaidInv, SetupOK
  <2>6. ASSUME NEW i \in T!Issues
        PROVE  /\ DOMAIN setup'[i] = {"made", "pending"}
               /\ setup'[i].pending # {} => Opened(i)'
               /\ i # Work => setup'[i].pending \subseteq T!Named(i)'
    <3>1. /\ setup[i].pending # {} => Opened(i)
          /\ i # Work => setup[i].pending \subseteq T!Named(i)
      BY DEF Telling, SaidInv, SetupOK
    <3> QED
      BY <2>1, <2>5, <3>1
  <2> QED
    BY <1>5, <2>2, <2>6 DEF Telling, SaidInv, SetupOK
<1>10. Speaks(w)
  <2>1. CASE T!Goto(w, "check")
    BY <1>1, <1>5, <1>6, <2>1, IdleGoing, GotoSpeaks DEF Telling
  <2>2. CASE hook.kind = "assigned" /\ hook.login \in setup[n.issue].pending /\ T!Onward(w)
    <3>1. n.issue \in T!Issues
      BY <1>8 DEF NoticeOK
    <3>2. Opened(n.issue) /\ (n.issue # Work => hook.login \in T!Named(n.issue))
      BY <2>2, <3>1 DEF Telling, SaidInv, SetupOK
    <3>3. Passed(j.event, n)
      BY <1>3, <1>8, <2>2, <3>2 DEF Passed, SaidOf
    <3> QED
      BY <1>1, <1>5, <1>6, <1>8, <2>2, <3>3, OnwardSpeaks DEF Telling
  <2> QED
    BY <1>4, <2>1, <2>2 DEF T!Consume
<1> QED
  BY <1>5, <1>9, <1>10, SpeaksTells DEF Telling
-----------------------------------------------------------------------------
(* What every step leaves of what has been said.                           *)

SaysStay ==
  \A n \in DOMAIN intents : n \in DOMAIN intents' /\ intents'[n].says = intents[n].says

LEMMA SetSays ==
  ASSUME IInv, NEW n \in DOMAIN intents, NEW status, NEW ts, T!SetIntent(n, status, ts)
  PROVE  SaysStay
<1> DEFINE x == intents[n]
           x1 == [x EXCEPT !.status = status]
           x2 == [x1 EXCEPT !.ts = ts]
<1>1. DOMAIN x = {"status", "under", "ts", "says"}
  BY DEF IInv, StoreOK, IntentOK
<1>2. intents' = [intents EXCEPT ![n] = x2]
  BY <1>1 DEF T!SetIntent
<1>3. DOMAIN x1 = {"status", "under", "ts", "says"} /\ x1.says = x.says
  BY <1>1
<1> HIDE DEF x1
<1>4. x2.says = intents[n].says
  BY <1>3
<1> HIDE DEF x2
<1> QED
  BY <1>2, <1>4 DEF SaysStay

\* What an intent says is said for good.
LEMMA NextSays ==
  ASSUME IInv, [Next]_vars
  PROVE  SaysStay
<1>1. CASE UNCHANGED intents
  BY <1>1 DEF SaysStay
<1>2. ASSUME NEW w \in Workers, T!Deliver(w)
      PROVE  SaysStay
  <2>1. CASE ~T!Known(w) /\ T!Call(w)
    <3>1. PICK n : n = T!Intent(w)
      OBVIOUS
    <3>2. n \notin DOMAIN intents
      BY <2>1, <3>1 DEF T!Known
    <3>3. \A m \in DOMAIN intents : m \in DOMAIN intents' /\ intents'[m] = intents[m]
      BY <2>1, <3>1, <3>2 DEF T!Call
    <3> QED
      BY <3>3 DEF SaysStay
  <2> QED
    BY <1>1, <1>2, <2>1 DEF T!Deliver
<1>3. ASSUME NEW w \in Workers, T!Posted(w) \/ T!Fault(w)
      PROVE  SaysStay
  <2>1. PICK n : n = T!Intent(w)
    OBVIOUS
  <2>2. n \in DOMAIN intents
    BY <1>3, <2>1, Sight, WaitFacts DEF T!Posted, T!Fault, T!Uncertain, T!Refused
  <2>3. \E status, ts : T!SetIntent(n, status, ts)
    BY <1>3, <2>1 DEF T!Posted, T!Fault, T!Uncertain, T!Refused
  <2> QED
    BY <2>2, <2>3, SetSays
<1>4. ASSUME NEW w \in Workers, T!Act(w)
      PROVE  SaysStay
  BY <1>1, <1>2, <1>3, <1>4
  DEF T!Act, T!Load, T!Check, T!HasRoot, T!ClaimRoot, T!RootInProgress, T!SaveRoot, T!Mark,
      T!SetUp, T!Consume
<1>5. ASSUME NEW n \in DOMAIN intents, T!Replay(n)
      PROVE  SaysStay
  <2>1. \E status, ts : T!SetIntent(n, status, ts)
    BY <1>5 DEF T!Replay
  <2> QED
    BY <2>1, SetSays
<1>6. CASE Outside
  BY <1>1, <1>5, <1>6 DEF Outside, T!Around, T!LeaseEnds, T!Change
<1>7. ASSUME NEW w \in Workers, Begin(w) \/ Return(w) \/ Throw(w) \/ Crash(w)
      PROVE  SaysStay
  BY <1>1, <1>7 DEF Begin, Return, Throw, Crash, T!Start, T!End, T!Die, slack
<1>8. CASE UNCHANGED slack
  BY <1>1, <1>8 DEF slack
<1> QED
  BY <1>3, <1>4, <1>6, <1>7, <1>8 DEF Next, vars, Process, Queue, Effects, Fault

LEMMA NextTime ==
  ASSUME IInv, [Next]_vars
  PROVE  now' = now \/ now' = now + 1
<1>1. ASSUME NEW w \in Workers, T!Act(w) \/ T!Fault(w)
      PROVE  now' = now
  BY <1>1
  DEF T!Act, T!Load, T!Check, T!HasRoot, T!ClaimRoot, T!RootInProgress, T!SaveRoot, T!Mark,
      T!SetUp, T!Consume, T!Deliver, T!Posted, T!Fault, T!Uncertain, T!Refused, T!world
<1>2. CASE Outside
  BY <1>2 DEF Outside, T!Around, T!LeaseEnds, T!Change, T!Replay, T!world
<1>3. ASSUME NEW w \in Workers, Begin(w) \/ Return(w) \/ Throw(w) \/ Crash(w)
      PROVE  now' = now
  BY <1>3 DEF Begin, Return, Throw, Crash, T!Start, T!End, T!Die, T!world, slack
<1>4. CASE UNCHANGED slack
  BY <1>4 DEF slack
<1> QED
  BY <1>1, <1>2, <1>3, <1>4 DEF Next, vars, Process, Queue, Effects, Fault

LEMMA NextGrows ==
  ASSUME IInv, [Next]_vars
  PROVE  Grows
<1>1. Kept
  BY NextKept
<1>2. now \in Nat
  BY PipelineAssumption DEF T!ThreadAssumption, IInv, ScenesOK, T!Course
<1>3. now' \in Nat /\ now <= now'
  BY <1>2, NextTime
<1> QED
  BY <1>1, <1>2, <1>3, NextSays DEF Kept, Extends, Grows, SaysStay
-----------------------------------------------------------------------------
(* The queue and the processor, which change what is on record.            *)

\* A worker that keeps its job, rests or takes one from the queue.
Passes(w) ==
  /\ at'[w] # "complete"
  /\ at'[w] # "idle" =>
       \/ at[w] # "idle" /\ held'[w].job = held[w].job
       \/ held'[w].job \in Events /\ task[held'[w].job] # "none"
  /\ \A v \in Workers \ {w} : at'[v] = at[v] /\ held'[v] = held[v]
  /\ \A e \in Events : task'[e] # "none" =>
       task[e] # "none" \/ (at[w] # "idle" /\ e = held[w].job)
  /\ \A e \in Events : delivery'[e].status = "completed" =>
       delivery[e].status = "completed" \/ (at[w] = "complete" /\ e = held[w].job)

LEMMA PassesGoes ==
  ASSUME IInv, SaidInv, NEW w \in Workers, Passes(w)
  PROVE  QueueGoes
<1>1. \A e \in Events : task'[e] # "none" => Due(e)
  BY QueueNow DEF Passes
<1>2. ASSUME NEW v \in Workers
      PROVE  /\ at'[v] # "idle" => Due(held'[v].job)
             /\ at'[v] = "complete" => AllSaid(held'[v].job)
  <2>1. CASE v # w
    BY <2>1, QueueNow DEF Passes
  <2>2. CASE v = w
    BY <2>2, QueueNow DEF Passes
  <2> QED
    BY <2>1, <2>2
<1>3. ASSUME NEW e \in Events, delivery'[e].status = "completed", e \in DOMAIN Hooks
      PROVE  AllSaid(e)
  BY <1>3, QueueNow DEF Passes
<1> QED
  BY <1>1, <1>2, <1>3 DEF QueueGoes

\* The answer to the queue, and a worker that goes elsewhere with its job.
LEMMA AnswerPasses ==
  ASSUME QueueOK, NEW w \in Workers, at[w] # "idle", NEW ok, D!Answer(w, ok)
  PROVE  /\ at'[w] = "idle"
         /\ \A v \in Workers \ {w} : at'[v] = at[v] /\ held'[v] = held[v]
         /\ \A e \in Events : task'[e] # "none" => task[e] # "none" \/ e = held[w].job
  BY DEF D!Answer, D!Job, QueueOK, D!TypeOK

LEMMA HeldPasses ==
  ASSUME QueueOK, NEW w \in Workers, NEW p, NEW h,
         at' = [at EXCEPT ![w] = p], held' = [held EXCEPT ![w] = h]
  PROVE  /\ at'[w] = p /\ held'[w] = h
         /\ \A v \in Workers \ {w} : at'[v] = at[v] /\ held'[v] = held[v]
  BY DEF QueueOK, D!TypeOK

LEMMA GotoPasses ==
  ASSUME QueueOK, NEW w \in Workers, NEW p, D!Goto(w, p)
  PROVE  /\ at'[w] = p /\ held'[w] = held[w]
         /\ \A v \in Workers \ {w} : at'[v] = at[v] /\ held'[v] = held[v]
  BY DEF D!Goto, QueueOK, D!TypeOK

LEMMA MovePasses ==
  ASSUME QueueOK, NEW w \in Workers, at[w] # "idle", NEW status \in D!Status,
         D!Move(w, status)
  PROVE  \A e \in Events : \/ delivery'[e] = delivery[e]
                           \/ e = held[w].job /\ delivery'[e].status = status
<1> DEFINE d == delivery[D!Job(w)]
           d1 == [d EXCEPT !.revision = d.revision + 1]
           d2 == [d1 EXCEPT !.status = status]
           d3 == [d2 EXCEPT !.live = FALSE]
<1>1. d \in D!Doc /\ D!Job(w) \in Events /\ D!Job(w) = held[w].job
  BY HeldType, QueueTypes
<1>2. delivery' = [delivery EXCEPT ![D!Job(w)] = d3]
  BY DEF D!Move, D!Moved
<1>3. d1 \in D!Doc
  BY <1>1 DEF D!Doc
<1> HIDE DEF d1
<1>4. d2 \in D!Doc /\ d2.status = status
  BY <1>3 DEF D!Doc
<1> HIDE DEF d2
<1>5. d3.status = status
  BY <1>4 DEF D!Doc
<1> HIDE DEF d3
<1> QED
  BY <1>1, <1>2, <1>5, QueueTypes

LEMMA LeasePasses ==
  ASSUME QueueOK, NEW w \in Workers, NEW e \in Events, NEW r \in Nat, D!Lease(w, e, r)
  PROVE  /\ at'[w] = "sync" /\ held'[w].job = e
         /\ \A v \in Workers \ {w} : at'[v] = at[v] /\ held'[v] = held[v]
         /\ \A d \in Events : delivery'[d] = delivery[d] \/ delivery'[d].status = "processing"
<1> DEFINE h == [job |-> e, revision |-> r + 1, owner |-> r + 1, tries |-> 0]
<1>1. at' = [at EXCEPT ![w] = "sync"] /\ held' = [held EXCEPT ![w] = h] /\ h.job = e
  BY DEF D!Lease
<1> HIDE DEF h
<1>2. D!Leased(r).status = "processing"
  BY DEF D!Leased
<1>3. \A d \in Events : delivery'[d] = delivery[d] \/ delivery'[d].status = "processing"
  BY <1>2, QueueTypes DEF D!Lease
<1>4. /\ at'[w] = "sync" /\ held'[w] = h
      /\ \A v \in Workers \ {w} : at'[v] = at[v] /\ held'[v] = held[v]
  BY <1>1, HeldPasses
<1> QED
  BY <1>1, <1>3, <1>4

\* What a worker does for a delivery before and after the effects.
LEMMA ProcessPasses ==
  ASSUME IInv, SaidInv, NEW w \in Workers, Process(w)
  PROVE  Passes(w) /\ at[w] # "effects" /\ at'[w] # "effects"
<1>1. QueueOK
  BY QueueNow
<1>2. ASSUME NEW e \in Events, D!Dispatch(w, e)
      PROVE  Passes(w) /\ at[w] # "effects" /\ at'[w] # "effects"
  <2>1. at[w] = "idle" /\ task[e] # "none" /\ UNCHANGED task
    BY <1>2 DEF D!Dispatch
  <2>2. CASE D!Lease(w, e, 0)
    BY <1>1, <2>1, <2>2, LeasePasses DEF Passes
  <2>3. CASE /\ at' = [at EXCEPT ![w] = "load"]
             /\ held' = [held EXCEPT ![w] = [D!NoHold EXCEPT !.job = e]]
             /\ UNCHANGED delivery
    <3> DEFINE h == [D!NoHold EXCEPT !.job = e]
    <3>1. h.job = e
      BY DEF D!NoHold
    <3> HIDE DEF h
    <3>2. /\ at'[w] = "load" /\ held'[w] = h
          /\ \A v \in Workers \ {w} : at'[v] = at[v] /\ held'[v] = held[v]
      BY <1>1, <2>3, HeldPasses DEF h
    <3> QED
      BY <2>1, <2>3, <3>1, <3>2 DEF Passes
  <2> QED
    BY <1>2, <2>2, <2>3 DEF D!Dispatch
<1>3. CASE D!Load(w)
  <2>1. at[w] = "load" /\ UNCHANGED delivery
    BY <1>3 DEF D!Load
  <2>2. CASE \E ok \in BOOLEAN : D!Answer(w, ok)
    BY <1>1, <2>1, <2>2, AnswerPasses DEF Passes
  <2>3. CASE /\ at' = [at EXCEPT ![w] = "take"]
             /\ held' = [held EXCEPT ![w].revision = delivery[D!Job(w)].revision]
             /\ UNCHANGED task
    <3>1. PICK r \in Nat : r = delivery[D!Job(w)].revision
      BY <1>1, <2>1, HeldType, QueueTypes DEF D!Doc
    <3> DEFINE h == [held[w] EXCEPT !.revision = r]
    <3>2. held' = [held EXCEPT ![w] = h] /\ h.job = held[w].job
      BY <1>1, <2>3, <3>1, HeldType, RevisionHeld
    <3> HIDE DEF h
    <3>3. /\ at'[w] = "take" /\ held'[w] = h
          /\ \A v \in Workers \ {w} : at'[v] = at[v] /\ held'[v] = held[v]
      BY <1>1, <2>3, <3>2, HeldPasses
    <3> QED
      BY <2>1, <2>3, <3>2, <3>3 DEF Passes
  <2> QED
    BY <1>3, <2>2, <2>3 DEF D!Load
<1>4. CASE D!Take(w)
  <2>1. at[w] = "take"
    BY <1>4 DEF D!Take
  <2>2. CASE D!Lease(w, D!Job(w), held[w].revision) /\ UNCHANGED task
    <3>1. D!Job(w) \in Events /\ D!Job(w) = held[w].job /\ held[w].revision \in Nat
      BY <1>1, <2>1, HeldType
    <3>2. PICK e \in Events, r \in Nat : e = held[w].job /\ r = held[w].revision
      BY <3>1
    <3>3. D!Lease(w, e, r)
      BY <2>2, <3>1, <3>2
    <3> QED
      BY <1>1, <2>1, <2>2, <3>2, <3>3, LeasePasses DEF Passes
  <2>3. CASE /\ held[w].tries < 2
             /\ at' = [at EXCEPT ![w] = "load"]
             /\ held' = [held EXCEPT ![w].tries = held[w].tries + 1]
             /\ UNCHANGED <<task, delivery>>
    <3>1. PICK n \in 0..2 : n = held[w].tries + 1
      BY <1>1, <2>3, HeldType
    <3> DEFINE h == [held[w] EXCEPT !.tries = n]
    <3>2. held' = [held EXCEPT ![w] = h] /\ h.job = held[w].job
      BY <1>1, <2>3, <3>1, HeldType, TriesHeld
    <3> HIDE DEF h
    <3>3. /\ at'[w] = "load" /\ held'[w] = h
          /\ \A v \in Workers \ {w} : at'[v] = at[v] /\ held'[v] = held[v]
      BY <1>1, <2>3, <3>2, HeldPasses
    <3> QED
      BY <2>1, <2>3, <3>2, <3>3 DEF Passes
  <2>4. CASE D!Answer(w, FALSE) /\ UNCHANGED delivery
    BY <1>1, <2>1, <2>4, AnswerPasses DEF Passes
  <2> QED
    BY <1>4, <2>2, <2>3, <2>4 DEF D!Take
<1>5. CASE D!SyncFails(w) \/ D!LosesLease(w)
  <2>1. at[w] = "sync" /\ D!Goto(w, "release") /\ UNCHANGED <<task, delivery>>
    BY <1>5 DEF D!SyncFails, D!LosesLease
  <2> QED
    BY <1>1, <2>1, GotoPasses DEF Passes
<1>6. CASE D!Release(w) \/ D!FailDelivery(w)
  <2>1. /\ at[w] \in {"release", "retryable", "failed"} /\ D!Answer(w, FALSE)
        /\ UNCHANGED delivery \/ \E status \in {"retryable", "failed"} : D!Move(w, status)
    BY <1>6 DEF D!Release, D!FailDelivery
  <2>2. \A e \in Events : delivery'[e].status = "completed" => delivery[e].status = "completed"
    <3>1. ASSUME NEW status \in {"retryable", "failed"}, D!Move(w, status), NEW e \in Events
          PROVE  delivery'[e] = delivery[e] \/ delivery'[e].status = status
      BY <1>1, <2>1, <3>1, MovePasses DEF D!Status, D!Settled
    <3> QED
      BY <2>1, <3>1
  <2> QED
    BY <1>1, <2>1, <2>2, AnswerPasses DEF Passes
<1>7. CASE D!Complete(w) \/ D!CompleteFails(w)
  <2>1. /\ at[w] = "complete" /\ (UNCHANGED delivery \/ D!Move(w, "completed"))
        /\ \/ D!Answer(w, TRUE)
           \/ UNCHANGED task /\ \E p \in {"retryable", "failed"} : D!Goto(w, p)
    BY <1>7 DEF D!Complete, D!CompleteFails
  <2>2. \A e \in Events : delivery'[e] = delivery[e] \/ e = held[w].job
    BY <1>1, <2>1, MovePasses DEF D!Status, D!Settled
  <2>3. /\ at'[w] \notin {"effects", "complete"}
        /\ at'[w] # "idle" => held'[w] = held[w]
        /\ \A v \in Workers \ {w} : at'[v] = at[v] /\ held'[v] = held[v]
        /\ \A e \in Events : task'[e] # "none" => task[e] # "none" \/ e = held[w].job
    BY <1>1, <2>1, AnswerPasses, GotoPasses
  <2> QED
    BY <2>1, <2>2, <2>3 DEF Passes
<1> QED
  BY <1>2, <1>3, <1>4, <1>5, <1>6, <1>7 DEF Process

\* The webhook comes, or comes again.
LEMMA ComesGoes ==
  ASSUME IInv, SaidInv, Queue
  PROVE  QueueGoes /\ UNCHANGED <<at, held>>
<1>1. QueueOK
  BY QueueNow
<1>2. UNCHANGED <<at, held>>
  BY DEF Queue, D!Enqueue, D!Redeliver, D!Expire
<1>3. \A e \in Events : task'[e] # "none" => Due(e)
  <2>1. CASE UNCHANGED task
    BY <2>1, QueueNow
  <2>2. CASE \E e \in Events : Due(e) /\ task' = [task EXCEPT ![e] = "queued"]
    BY <1>1, <2>2, QueueNow DEF QueueOK, D!TypeOK
  <2>3. \A e \in DOMAIN Hooks : e \in Events
    BY HookComes
  <2> QED
    BY <2>1, <2>2, <2>3, QueueNow DEF Queue, D!Enqueue, D!Redeliver, D!Expire, Due
<1>4. \A e \in Events : delivery'[e].status = delivery[e].status
  <2>1. ASSUME NEW d \in Events, delivery' = [delivery EXCEPT ![d].live = FALSE],
               NEW e \in Events
        PROVE  delivery'[e].status = delivery[e].status
    <3> DEFINE doc == [delivery[d] EXCEPT !.live = FALSE]
    <3>1. doc.status = delivery[d].status
      BY <1>1, QueueTypes DEF D!Doc
    <3>2. delivery' = [delivery EXCEPT ![d] = doc]
      BY <2>1
    <3> HIDE DEF doc
    <3> QED
      BY <1>1, <3>1, <3>2, QueueTypes
  <2> QED
    BY <2>1 DEF Queue, D!Enqueue, D!Redeliver, D!Expire
<1> QED
  BY <1>2, <1>3, <1>4, QueueNow DEF QueueGoes

\* The effects begin; they end with nothing left to say, with an error, or die.
LEMMA BeginPasses ==
  ASSUME IInv, SaidInv, NEW w \in Workers, D!BeginEffects(w)
  PROVE  /\ Passes(w) /\ at[w] = "sync" /\ at'[w] = "effects" /\ held'[w].job = held[w].job
<1>1. QueueOK /\ at[w] = "sync" /\ UNCHANGED task /\ D!Move(w, "effects_started")
  BY QueueNow DEF D!BeginEffects
<1>2. PICK r \in Nat : r = held[w].revision + 1
  BY <1>1, HeldType
<1> DEFINE h == [held[w] EXCEPT !.revision = r]
<1>3. /\ held' = [held EXCEPT ![w] = h] /\ at' = [at EXCEPT ![w] = "effects"]
      /\ h.job = held[w].job
  BY <1>1, <1>2, HeldType, RevisionHeld DEF D!BeginEffects
<1> HIDE DEF h
<1>4. /\ at'[w] = "effects" /\ held'[w] = h
      /\ \A v \in Workers \ {w} : at'[v] = at[v] /\ held'[v] = held[v]
  BY <1>1, <1>3, HeldPasses
<1>5. ASSUME NEW e \in Events
      PROVE  delivery'[e] = delivery[e] \/ delivery'[e].status = "effects_started"
  BY <1>1, MovePasses DEF D!Status, D!Settled
<1> QED
  BY <1>1, <1>3, <1>4, <1>5 DEF Passes

LEMMA EndPasses ==
  ASSUME IInv, SaidInv, NEW w \in Workers, NEW how, D!EffectsEnd(w, how)
  PROVE  /\ at[w] = "effects" /\ at'[w] = (IF how = "ok" THEN "complete" ELSE how)
         /\ held'[w] = held[w] /\ UNCHANGED <<task, delivery>>
         /\ \A v \in Workers \ {w} : at'[v] = at[v] /\ held'[v] = held[v]
  BY QueueNow, GotoPasses DEF D!EffectsEnd

LEMMA CrashPasses ==
  ASSUME IInv, SaidInv, NEW w \in Workers, D!Crash(w)
  PROVE  Passes(w) /\ at'[w] = "idle"
  BY QueueNow, AnswerPasses DEF D!Crash, Passes

\* A worker that is not in the effects has nothing to say.
LEMMA RestSays ==
  ASSUME NEW w \in Workers, step'[w] = "rest", at'[w] # "effects"
  PROVE  EffectsOK(w)'
  BY DEF EffectsOK, CoversOK, GoingOK, Busy, Past

\* The queue goes on beside the effects, which one worker may leave.
LEMMA BesideTells ==
  ASSUME IInv, SaidInv, Grows, QueueGoes, UNCHANGED <<notified, setup>>, NEW w \in Workers,
         step'[w] = "rest", at'[w] # "effects",
         \A v \in Workers \ {w} : /\ step'[v] = step[v] /\ job'[v] = job[v]
                                  /\ at'[v] = at[v] /\ held'[v] = held[v]
  PROVE  SaidInv'
<1>1. HooksSaid' /\ SetupOK'
  BY HooksTold, SetupStays DEF SaidInv
<1>2. EffectsOK(w)'
  BY RestSays
<1>3. ASSUME NEW v \in Workers \ {w}
      PROVE  EffectsOK(v)'
  BY EffectsStay
<1> QED
  BY <1>1, <1>2, <1>3 DEF SaidInv

LEMMA LeaveRests ==
  ASSUME IInv, NEW w \in Workers, T!Leave(w)
  PROVE  /\ step'[w] = "rest"
         /\ \A v \in Workers \ {w} : step'[v] = step[v] /\ job'[v] = job[v]
  BY DEF IInv, ServiceOK, T!Leave

\* Nobody moves in the effects.
LEMMA AllTells ==
  ASSUME IInv, SaidInv, Grows, QueueGoes, UNCHANGED <<at, held, step, job, notified, setup>>
  PROVE  SaidInv'
  BY HooksTold, SetupStays, EffectsStay DEF SaidInv

LEMMA BeginTells ==
  ASSUME IInv, SaidInv, Grows, NEW w \in Workers, Begin(w)
  PROVE  SaidInv'
<1>1. PICK e : e = D!Job(w)
  OBVIOUS
<1>2. D!BeginEffects(w) /\ T!Start(w, e) /\ UNCHANGED <<notified, setup>>
  BY <1>1 DEF Begin, T!Start
<1>3. /\ Passes(w) /\ at[w] = "sync" /\ at'[w] = "effects" /\ held'[w].job = e
  BY <1>1, <1>2, BeginPasses DEF D!Job
<1> DEFINE k1 == [T!NoJob EXCEPT !.event = e]
           k == [k1 EXCEPT !.rest = Hooks[e].about]
<1>4. T!Go(w, "load", k)
  BY <1>2 DEF T!Start, T!Hooks, Hooks
<1>5. /\ DOMAIN k1 = {"event", "rest", "todo", "opening", "parent"}
      /\ k1.event = e /\ k1.todo = <<>>
  BY DEF T!NoJob
<1> HIDE DEF k1
<1>6. PICK j : /\ j.event = e /\ j.rest = Hooks[e].about /\ j.todo = <<>>
               /\ T!Go(w, "load", j)
  BY <1>4, <1>5
<1>7. HooksSaid' /\ SetupOK'
  BY <1>2, <1>3, PassesGoes, HooksTold, SetupStays DEF SaidInv
<1>8. Moves(w, "load", j)
  BY <1>6, GoMoves
<1>9. EffectsOK(w)'
  <2>1. Hooks' = Hooks
    BY DEF Grows, Hooks
  <2>2. CoversOK("load", j)'
    BY <1>6, <2>1 DEF CoversOK, Elements
  <2>3. GoingOK("load", j)'
    BY <1>6 DEF GoingOK
  <2> QED
    BY <1>3, <1>6, <1>8, <2>2, <2>3 DEF EffectsOK, Moves, D!Job
<1>10. ASSUME NEW v \in Workers \ {w}
       PROVE  EffectsOK(v)'
  BY <1>3, <1>8, EffectsStay DEF Moves, Passes
<1> QED
  BY <1>7, <1>9, <1>10 DEF SaidInv

\* Who returns has loaded everything and said it.
LEMMA ReturnTells ==
  ASSUME IInv, SaidInv, Grows, NEW w \in Workers, Return(w)
  PROVE  SaidInv'
<1>1. PICK j : j = job[w]
  OBVIOUS
<1>2. PICK e : e = held[w].job
  OBVIOUS
<1>3. step[w] = "ok" /\ T!Leave(w) /\ UNCHANGED <<notified, setup>>
  BY DEF Return, T!End
<1>4. /\ at[w] = "effects" /\ at'[w] = "complete" /\ held'[w] = held[w]
      /\ UNCHANGED <<task, delivery>>
      /\ \A v \in Workers \ {w} : at'[v] = at[v] /\ held'[v] = held[v]
  BY EndPasses DEF Return, D!EffectsReturn
<1>5. j.event = e /\ CoversOK("ok", j) /\ j.rest = <<>> /\ j.todo = <<>>
  BY <1>1, <1>2, <1>3, <1>4 DEF SaidInv, EffectsOK, GoingOK, D!Job
<1>6. AllSaid(e)
  <2>1. Elements(<<>>) = {}
    BY DEF Elements
  <2>2. ASSUME NEW m \in DOMAIN Hooks[e].about
        PROVE  SaidAll(e, Hooks[e].about[m])
    <3>1. PICK subject : subject = Hooks[e].about[m]
      OBVIOUS
    <3>2. SaidBut(e, subject, <<>>)
      BY <1>5, <2>1, <3>1 DEF CoversOK
    <3> QED
      BY <3>1, <3>2, SaidAllIs
  <2> QED
    BY <2>2 DEF AllSaid
<1>7. QueueGoes
  <2>1. ASSUME NEW v \in Workers
        PROVE  /\ at'[v] # "idle" => Due(held'[v].job)
               /\ at'[v] = "complete" => AllSaid(held'[v].job)
    BY <1>2, <1>4, <1>6, QueueNow
  <2> QED
    BY <1>4, <2>1, QueueNow DEF QueueGoes
<1>8. /\ step'[w] = "rest"
      /\ \A v \in Workers \ {w} : step'[v] = step[v] /\ job'[v] = job[v]
  BY <1>3, LeaveRests
<1> QED
  BY <1>3, <1>4, <1>7, <1>8, BesideTells

LEMMA ThrowTells ==
  ASSUME IInv, SaidInv, Grows, NEW w \in Workers, Throw(w)
  PROVE  SaidInv'
<1>1. T!Leave(w) /\ UNCHANGED <<notified, setup>>
  BY DEF Throw, T!End
<1>2. PICK how \in {"retryable", "failed"} : D!EffectsEnd(w, how)
  BY DEF Throw, D!EffectsThrow
<1>3. /\ at[w] = "effects" /\ at'[w] = how /\ held'[w] = held[w] /\ UNCHANGED <<task, delivery>>
      /\ \A v \in Workers \ {w} : at'[v] = at[v] /\ held'[v] = held[v]
  BY <1>2, EndPasses
<1>4. Passes(w)
  BY <1>3 DEF Passes
<1>5. /\ step'[w] = "rest"
      /\ \A v \in Workers \ {w} : step'[v] = step[v] /\ job'[v] = job[v]
  BY <1>1, LeaveRests
<1> QED
  BY <1>1, <1>3, <1>4, <1>5, PassesGoes, BesideTells

LEMMA CrashTells ==
  ASSUME IInv, SaidInv, Grows, NEW w \in Workers, Crash(w)
  PROVE  SaidInv'
<1>1. /\ Passes(w) /\ at'[w] = "idle"
      /\ \A v \in Workers \ {w} : at'[v] = at[v] /\ held'[v] = held[v]
  BY CrashPasses DEF Crash, Passes
<1>2. /\ step'[w] = "rest" /\ UNCHANGED <<notified, setup>>
      /\ \A v \in Workers \ {w} : step'[v] = step[v] /\ job'[v] = job[v]
  <2>1. CASE at[w] = "effects"
    BY <2>1, LeaveRests DEF Crash, T!Die
  <2>2. CASE at[w] # "effects"
    BY <2>2 DEF Crash, slack, SaidInv, EffectsOK
  <2> QED
    BY <2>1, <2>2
<1> QED
  BY <1>1, <1>2, PassesGoes, BesideTells

LEMMA ProcessTells ==
  ASSUME IInv, SaidInv, Grows, NEW w \in Workers, Process(w)
  PROVE  SaidInv'
<1>1. /\ Passes(w) /\ at[w] # "effects" /\ at'[w] # "effects"
      /\ \A v \in Workers \ {w} : at'[v] = at[v] /\ held'[v] = held[v]
  BY ProcessPasses DEF Passes
<1>2. UNCHANGED <<step, job, notified, setup>>
  BY DEF Process, slack
<1>3. step'[w] = "rest"
  BY <1>1, <1>2 DEF SaidInv, EffectsOK
<1> QED
  BY <1>1, <1>2, <1>3, PassesGoes, BesideTells

LEMMA SaidNext ==
  ASSUME IInv, SaidInv, [Next]_vars
  PROVE  SaidInv'
<1>1. Grows /\ StoreOK'
  BY NextGrows, NextKept DEF Kept
<1>2. ASSUME NEW w \in Workers, Effects(w) \/ Fault(w)
      PROVE  SaidInv'
  <2>1. Telling
    BY <1>1, <1>2 DEF Telling, Effects, Fault, queue
  <2> QED
    BY <1>1, <1>2, <2>1, LoadTells, CheckTells, HasRootTells, ClaimRootTells,
       RootInProgressTells, SaveRootTells, DeliverTells, AnswerTells, MarkTells, SetUpTells,
       ConsumeTells
    DEF Effects, Fault, T!Act, T!Fault
<1>3. CASE Queue
  BY <1>1, <1>3, ComesGoes, AllTells DEF Queue, slack
<1>4. CASE Outside \/ UNCHANGED vars
  <2>1. UNCHANGED <<task, delivery, at, held, step, job, notified, setup>>
    BY <1>4 DEF Outside, T!Around, T!LeaseEnds, T!Change, T!Replay, T!place, queue, slack, vars
  <2> QED
    BY <1>1, <2>1, SameGoes, AllTells
<1> QED
  BY <1>1, <1>2, <1>3, <1>4, ProcessTells, BeginTells, ReturnTells, ThrowTells, CrashTells
  DEF Next

LEMMA SaidInit == Init => SaidInv
<1> SUFFICES ASSUME Init
             PROVE  SaidInv
  OBVIOUS
<1>1. /\ notified = {} /\ setup = [i \in T!Issues |-> [made |-> FALSE, pending |-> {}]]
      /\ step = [w \in Workers |-> "rest"]
      /\ task = [e \in Events |-> "none"] /\ delivery = [e \in Events |-> D!NoDoc]
      /\ at = [w \in Workers |-> "idle"]
  BY DEF Init, T!Init, D!Init
<1>2. HooksSaid
  <2>1. D!NoDoc.status = "none"
    BY DEF D!NoDoc
  <2>2. \A e \in DOMAIN Hooks : e \in Events
    BY InitInv, HookComes
  <2> QED
    BY <1>1, <2>1, <2>2 DEF HooksSaid, CompletedIsSaid
<1>3. SetupOK
  BY <1>1 DEF SetupOK
<1>4. ASSUME NEW w \in Workers
      PROVE  EffectsOK(w)
  BY <1>1 DEF EffectsOK, CoversOK, GoingOK, Busy, Past
<1> QED
  BY <1>2, <1>3, <1>4 DEF SaidInv
-----------------------------------------------------------------------------
(* What WebhookDelivery promises of the queue, kept here. *)

\* The module that proves it of the queue and the processor alone.
Q == INSTANCE WebhookDelivery_proofs WITH Deliveries <- Events

LEMMA QueueAssumption == Q!DeliveryAssumption
<1>1. None \notin Events /\ MaxMishaps \in Nat /\ Overlaps \in BOOLEAN
  BY PipelineAssumption DEF T!ThreadAssumption
<1> QED
  BY <1>1 DEF Q!DeliveryAssumption

LEMMA QueueInit == Init => Q!IInv
<1>1. D!Init => Q!Init
  BY DEF D!Init, Q!Init, D!NoDoc, Q!NoDoc, D!NoHold, Q!NoHold
<1>2. Q!Init => Q!IInv
  BY QueueAssumption, Q!InitInv
<1> QED
  BY <1>1, <1>2 DEF Init

\* An error of the effects that is not worth a retry is no mishap here; a call to
\* Slack that goes wrong is one, and the queue learns of it when the effects end.
QuietFailure == (\E w \in Workers : Q!EffectsEnd(w, "failed")) /\ UNCHANGED mishaps

MishapOnly == UNCHANGED <<task, delivery, at, held, runs, outcome>> /\ mishaps' = mishaps + 1

LEMMA ProcessIsQueue ==
  ASSUME NEW w \in Workers, Process(w)
  PROVE  Q!Next
<1>1. CASE \E e \in Events : D!Dispatch(w, e)
  <2>1. PICK e \in Events : D!Dispatch(w, e)
    BY <1>1
  <2>2. Q!Dispatch(w, e)
    BY <2>1 DEF D!Dispatch, D!Running, D!Job, D!Hazard, D!Lease, D!Leased, D!NoHold,
                Q!Dispatch, Q!Running, Q!Job, Q!Hazard, Q!Lease, Q!Leased, Q!NoHold
  <2> QED
    BY <2>2 DEF Q!Next
<1>2. CASE D!Load(w)
  <2>1. Q!Load(w)
    BY <1>2 DEF D!Load, D!Job, D!Answer, D!NoHold, D!Settled,
                Q!Load, Q!Job, Q!Answer, Q!NoHold, Q!Settled
  <2> QED
    BY <2>1 DEF Q!Next, Q!Step
<1>3. CASE D!Take(w)
  <2>1. Q!Take(w)
    BY <1>3 DEF D!Take, D!Job, D!Answer, D!NoHold, D!Lease, D!Leased,
                Q!Take, Q!Job, Q!Answer, Q!NoHold, Q!Lease, Q!Leased
  <2> QED
    BY <2>1 DEF Q!Next, Q!Step
<1>4. CASE D!SyncFails(w)
  <2>1. Q!SyncFails(w)
    BY <1>4 DEF D!SyncFails, D!Hazard, D!Goto, Q!SyncFails, Q!Hazard, Q!Goto
  <2> QED
    BY <2>1 DEF Q!Next, Q!Fault
<1>5. CASE D!LosesLease(w)
  <2>1. Q!LosesLease(w)
    BY <1>5 DEF D!LosesLease, D!Owns, D!Job, D!Goto, Q!LosesLease, Q!Owns, Q!Job, Q!Goto
  <2> QED
    BY <2>1 DEF Q!Next, Q!Step
<1>6. CASE D!Release(w)
  <2>1. Q!Release(w)
    BY <1>6 DEF D!Release, D!Owns, D!Job, D!Move, D!Moved, D!Answer, D!NoHold,
                Q!Release, Q!Owns, Q!Job, Q!Move, Q!Moved, Q!Answer, Q!NoHold
  <2> QED
    BY <2>1 DEF Q!Next, Q!Step
<1>7. CASE D!Complete(w)
  <2>1. Q!Complete(w)
    BY <1>7 DEF D!Complete, D!Goto, D!Job, D!Move, D!Moved, D!Answer, D!NoHold,
                Q!Complete, Q!Goto, Q!Job, Q!Move, Q!Moved, Q!Answer, Q!NoHold
  <2> QED
    BY <2>1 DEF Q!Next, Q!Step
<1>8. CASE D!CompleteFails(w)
  <2>1. Q!CompleteFails(w)
    BY <1>8 DEF D!CompleteFails, D!Goto, D!Job, D!Move, D!Moved, D!Hazard,
                Q!CompleteFails, Q!Goto, Q!Job, Q!Move, Q!Moved, Q!Hazard
  <2> QED
    BY <2>1 DEF Q!Next, Q!Fault
<1>9. CASE D!FailDelivery(w)
  <2>1. Q!FailDelivery(w)
    BY <1>9 DEF D!FailDelivery, D!Owns, D!Job, D!Move, D!Moved, D!Answer, D!NoHold,
                Q!FailDelivery, Q!Owns, Q!Job, Q!Move, Q!Moved, Q!Answer, Q!NoHold
  <2> QED
    BY <2>1 DEF Q!Next, Q!Step
<1> QED
  BY <1>1, <1>2, <1>3, <1>4, <1>5, <1>6, <1>7, <1>8, <1>9 DEF Process

LEMMA QueueIsQueue ==
  ASSUME IInv, Queue
  PROVE  Q!Next
<1>1. DOMAIN Hooks \subseteq Events
  BY PipelineAssumption DEF T!ThreadAssumption, IInv, ScenesOK, Hooks
<1>2. PICK e \in Events : D!Enqueue(e) \/ D!Redeliver(e) \/ D!Expire(e)
  BY <1>1 DEF Queue
<1>3. Q!Enqueue(e) \/ Q!Redeliver(e) \/ Q!Expire(e)
  BY <1>2 DEF D!Enqueue, D!Redeliver, D!Hazard, D!Expire, D!Job,
              Q!Enqueue, Q!Redeliver, Q!Hazard, Q!Expire, Q!Job
<1> QED
  BY <1>3 DEF Q!Next

\* What a worker does, in the queue's terms.
LEMMA WorkerIsQueue ==
  ASSUME NEW w \in Workers,
         Process(w) \/ Begin(w) \/ Effects(w) \/ Fault(w) \/ Return(w) \/ Throw(w) \/ Crash(w)
  PROVE  [Q!Next]_(Q!vars) \/ QuietFailure \/ MishapOnly
<1>1. CASE Process(w)
  BY <1>1, ProcessIsQueue
<1>2. CASE Begin(w)
  <2>1. Q!BeginEffects(w)
    BY <1>2 DEF Begin, D!BeginEffects, D!Owns, D!Job, D!Move, D!Moved,
                Q!BeginEffects, Q!Owns, Q!Job, Q!Move, Q!Moved
  <2> QED
    BY <2>1 DEF Q!Next, Q!Step
<1>3. CASE Effects(w)
  BY <1>3 DEF Effects, queue, Q!vars
<1>4. CASE Fault(w)
  BY <1>4 DEF Fault, D!Hazard, MishapOnly
<1>5. CASE Return(w)
  <2>1. Q!EffectsReturn(w)
    BY <1>5 DEF Return, D!EffectsReturn, D!EffectsEnd, D!Goto, D!Job,
                Q!EffectsReturn, Q!EffectsEnd, Q!Goto, Q!Job
  <2> QED
    BY <2>1 DEF Q!Next, Q!Step
<1>6. CASE D!EffectsThrow(w, "retryable")
  <2>1. Q!EffectsThrow(w, "retryable")
    BY <1>6 DEF D!EffectsThrow, D!EffectsEnd, D!Goto, D!Job, D!Hazard,
                Q!EffectsThrow, Q!EffectsEnd, Q!Goto, Q!Job, Q!Hazard
  <2> QED
    BY <2>1 DEF Q!Next, Q!Fault
<1>7. CASE D!EffectsEnd(w, "failed") /\ UNCHANGED mishaps
  <2>1. Q!EffectsEnd(w, "failed")
    BY <1>7 DEF D!EffectsEnd, D!Goto, D!Job, Q!EffectsEnd, Q!Goto, Q!Job
  <2> QED
    BY <1>7, <2>1 DEF QuietFailure
<1>8. CASE Crash(w)
  <2>1. Q!Crash(w)
    BY <1>8 DEF Crash, D!Crash, D!Hazard, D!Answer, D!Job, D!NoHold,
                Q!Crash, Q!Hazard, Q!Answer, Q!Job, Q!NoHold
  <2> QED
    BY <2>1 DEF Q!Next, Q!Fault
<1> QED
  BY <1>1, <1>2, <1>3, <1>4, <1>5, <1>6, <1>7, <1>8 DEF Throw

LEMMA StepIsQueue ==
  ASSUME IInv, [Next]_vars
  PROVE  [Q!Next]_(Q!vars) \/ QuietFailure \/ MishapOnly
<1>1. CASE Queue
  BY <1>1, QueueIsQueue
<1>2. CASE Outside \/ UNCHANGED vars
  BY <1>2 DEF Outside, vars, queue, Q!vars
<1> QED
  BY <1>1, <1>2, WorkerIsQueue DEF Next

LEMMA QueueNext ==
  ASSUME IInv, Q!IInv, [Next]_vars
  PROVE  Q!IInv'
<1>1. mishaps \in Nat
  BY DEF Q!IInv, Q!TypeOK
<1>2. CASE [Q!Next]_(Q!vars)
  BY <1>2, QueueAssumption, Q!NextInv
<1>3. CASE QuietFailure
  <2>1. PICK w \in Workers : Q!EffectsEnd(w, "failed")
    BY <1>3 DEF QuietFailure
  <2>2. mishaps' \in Nat
    BY <1>1, <1>3 DEF QuietFailure
  <2> QED
    BY <2>1, <2>2, QueueAssumption, Q!EffectsEndInv
<1>4. CASE MishapOnly
  <2>1. mishaps' \in Nat /\ UNCHANGED <<task, delivery, at, held, runs, outcome>>
    BY <1>1, <1>4 DEF MishapOnly
  <2>2. Q!TypeOK'
    BY <2>1 DEF Q!IInv, Q!TypeOK, Q!Job
  <2> QED
    BY <2>1, <2>2 DEF Q!IInv, Q!DocOK, Q!RunOK, Q!WorkerOK, Q!SeekerOK, Q!LeaserOK, Q!RunnerOK,
                      Q!InEffects, Q!OwnersDiffer, Q!RecordIsTrue, Q!Job
<1> QED
  BY <1>2, <1>3, <1>4, StepIsQueue

LEMMA RerunNext ==
  ASSUME IInv, Q!IInv, [Next]_vars
  PROVE  Q!RerunRight
<1>1. CASE [Q!Next]_(Q!vars)
  BY <1>1, QueueAssumption, Q!RerunStep DEF Q!RerunRight, Q!vars
<1>2. CASE UNCHANGED runs
  BY <1>2 DEF Q!RerunRight
<1> QED
  BY <1>1, <1>2, StepIsQueue DEF QuietFailure, MishapOnly, Q!EffectsEnd
-----------------------------------------------------------------------------
(* Theorems. *)

\* The inductive invariant holds of every behaviour.
THEOREM Invariance == Spec => []IInv
<1>1. Init => IInv
  BY InitInv
<1>2. IInv /\ [Next]_vars => IInv'
  BY NextInv
<1> QED
  BY <1>1, <1>2, PTL DEF Spec

\* The queue, the thread, the intents, the channel and the workers are what they
\* are said to be.
THEOREM TypeCorrect == Spec => []TypeOK
<1>1. IInv => TypeOK
  <2> SUFFICES ASSUME IInv
               PROVE  T!TypeOK
    BY DEF IInv, TypeOK
  <2>1. \A n \in DOMAIN intents : IntentOK(n)
    BY DEF IInv, StoreOK
  <2>2. /\ Len(channel) \in Nat /\ DOMAIN channel = 1..Len(channel)
        /\ \A ts \in DOMAIN channel : /\ channel[ts].notice \in DOMAIN intents
                                      /\ channel[ts].under \in Nat
    BY ChannelFacts DEF IInv
  <2>3. \A n \in DOMAIN intents :
          /\ n.issue \in T!Issues
          /\ intents[n].status \in {"sending", "sent", "needs_review", "failed"}
          /\ intents[n].under \in Nat /\ intents[n].ts \in 0..Len(channel)
    BY <2>1, <2>2 DEF IntentOK
  <2>4. notified \subseteq DOMAIN intents \cup {T!OverviewId(Work)}
    BY <2>2 DEF IInv, StoreOK, NotifiedOK, T!InChannel
  <2>5. \A w \in Workers : job[w].event \in DOMAIN Hooks \cup {None}
    BY DEF IInv, WorkerOK, JobOK
  <2>6. T!Hooks = Hooks
    BY DEF T!Hooks, Hooks
  <2> QED
    BY <2>2, <2>3, <2>4, <2>5, <2>6 DEF IInv, StoreOK, NotifiedOK, ServiceOK, T!TypeOK
<1> QED
  BY <1>1, Invariance, PTL

\* Every reply is under the one root the thread records, however many workers
\* raced to create it and however their leases ended (ensureRoot).
THEOREM OneRoot == Spec => []RepliesShareRoot
<1>1. IInv => RepliesShareRoot
  BY DEF IInv, StoreOK
<1> QED
  BY <1>1, Invariance, PTL

\* No notice is in the channel twice, whatever is retried, redelivered, handled
\* by two workers, lost in an answer or replayed (deliver, replay).
THEOREM PostedOnce == Spec => []NoticeOnce
<1>1. IInv => NoticeOnce
  BY DEF IInv, StoreOK
<1> QED
  BY <1>1, Invariance, PTL

\* What is said of a Task comes after its overview, and what is remembered as
\* said was posted (send, ensureIssueOpened).
THEOREM OverviewComesFirst == Spec => []OverviewFirst
<1>1. IInv => OverviewFirst
  BY DEF IInv, StoreOK
<1> QED
  BY <1>1, Invariance, PTL

\* A recorded root stays, though others hold leases they took before.
THEOREM RootStands == Spec => RootIsFinal
<1>1. IInv /\ [Next]_vars => [thread.status = "ready" => thread' = thread]_(T!vars)
  BY NextKept DEF Kept, Extends
<1> QED
  BY <1>1, Invariance, PTL DEF Spec, RootIsFinal, T!RootIsFinal

\* What an event asks for has been said, but for what its worker has still to load
\* or to send.
THEOREM Said == Spec => []SaidInv
<1>1. Init => SaidInv
  BY SaidInit
<1>2. IInv /\ SaidInv /\ [Next]_vars => SaidInv'
  BY SaidNext
<1> QED
  BY <1>1, <1>2, Invariance, PTL DEF Spec

\* A delivery recorded as completed has said all its event asked for, whatever was
\* retried, died, raced or changed meanwhile (process, completeDelivery; send and
\* ensureIssueOpened in the lifecycle service).
THEOREM AllIsSaid == Spec => []CompletedIsSaid
<1>1. SaidInv => CompletedIsSaid
  BY DEF SaidInv, HooksSaid
<1> QED
  BY <1>1, Said, PTL

\* The invariant of the queue and the processor holds in the pipeline.
LEMMA QueueInvariance == Spec => []Q!IInv
  BY QueueInit, QueueNext, Invariance, PTL DEF Spec

\* No two workers handle one event at a time in the lifecycle service, whatever
\* leases expire under their owners and whatever the queue runs twice.
OneHandler ==
  \A v, w \in Workers :
    step[v] # "rest" /\ step[w] # "rest" /\ job[v].event = job[w].event => v = w

\* The lease a worker took of its delivery (beginEffects) is what keeps others out
\* of the lifecycle service while it handles the event there.
THEOREM HandledAlone == Spec => []OneHandler
<1>1. Q!IInv /\ SaidInv => OneHandler
  <2> SUFFICES ASSUME Q!IInv, SaidInv, NEW v \in Workers, NEW w \in Workers,
                      step[v] # "rest", step[w] # "rest", job[v].event = job[w].event
               PROVE  v = w
    BY DEF OneHandler
  <2>1. at[v] = "effects" /\ at[w] = "effects" /\ Q!Job(v) = Q!Job(w)
    BY DEF SaidInv, EffectsOK, D!Job, Q!Job
  <2>2. Q!EffectsExclusive
    BY QueueAssumption, Q!ExclusiveInv
  <2> QED
    BY <2>1, <2>2 DEF Q!EffectsExclusive, Q!InEffects
<1> QED
  BY <1>1, QueueInvariance, Said, PTL

\* What the record of a delivery says of its effects is how they ended in the
\* lifecycle service (completeDelivery, failDelivery, releaseDelivery).
THEOREM RecordStaysTrue == Spec => []D!RecordIsTrue
<1>1. Q!IInv => D!RecordIsTrue
  BY DEF Q!IInv, Q!RecordIsTrue, D!RecordIsTrue
<1> QED
  BY <1>1, QueueInvariance, PTL

\* The lifecycle service is given an event only for the first time, or after a run
\* of it that ended with a RetryableWorkError: not after one that died there or that
\* failed otherwise, and that may have said anything.
RestartRight ==
  \A w \in Workers :
    step[w] = "rest" /\ step'[w] # "rest" =>
      runs[job'[w].event] = 0 \/ outcome[job'[w].event] = "retryable"

RestartsOnlyAfterRetryable == [][RestartRight]_vars

LEMMA RestartNext ==
  ASSUME IInv, Q!IInv, SaidInv, SaidInv', [Next]_vars
  PROVE  [RestartRight]_vars
<1> SUFFICES ASSUME NEW w \in Workers, step[w] = "rest", step'[w] # "rest", Next
             PROVE  runs[job'[w].event] = 0 \/ outcome[job'[w].event] = "retryable"
  BY DEF RestartRight
<1>1. /\ at[w] # "effects" /\ at'[w] = "effects"
      /\ job'[w].event = held'[w].job
  BY DEF SaidInv, EffectsOK, D!Job
<1>2. at \in [Workers -> D!Places]
  BY DEF IInv, D!TypeOK
<1>3. ~UNCHANGED slack /\ ~UNCHANGED at
  BY <1>1 DEF slack
<1>4. ASSUME NEW v \in Workers, Return(v) \/ Throw(v) \/ Crash(v)
      PROVE  FALSE
  <2>1. PICK p \in D!Places \ {"effects"} : at' = [at EXCEPT ![v] = p]
    BY <1>4 DEF Return, Throw, Crash, D!EffectsReturn, D!EffectsThrow, D!EffectsEnd, D!Goto,
                D!Crash, D!Answer, D!Places
  <2> QED
    BY <1>1, <1>2, <2>1
<1>5. \E v \in Workers : Begin(v)
  BY <1>3, <1>4 DEF Next, Process, Queue, Effects, queue, Fault, Outside
<1>6. Begin(w)
  BY <1>1, <1>2, <1>5 DEF Begin, D!BeginEffects
<1>7. /\ held'[w].job = D!Job(w) /\ runs' = [runs EXCEPT ![D!Job(w)] = @ + 1]
      /\ at[w] = "sync"
  BY <1>6 DEF Begin, D!BeginEffects, D!Job, IInv, D!TypeOK, D!Hold
<1>8. D!Job(w) \in Events /\ runs \in [Events -> Nat]
  BY <1>7 DEF IInv, D!TypeOK
<1>9. runs'[D!Job(w)] # runs[D!Job(w)]
  BY <1>7, <1>8
<1> QED
  BY <1>1, <1>7, <1>8, <1>9, RerunNext DEF Q!RerunRight

\* The document of a delivery remembers that its effects began (beginEffects), and
\* only the error they ended with (failDelivery) lets them begin once more.
THEOREM Restarts == Spec => RestartsOnlyAfterRetryable
<1>1. IInv /\ Q!IInv /\ SaidInv /\ SaidInv' /\ [Next]_vars => [RestartRight]_vars
  BY RestartNext
<1> QED
  BY <1>1, QueueInvariance, Invariance, Said, PTL DEF Spec, RestartsOnlyAfterRetryable
=============================================================================
