------------------------ MODULE WebhookDelivery_proofs ------------------------
(***************************************************************************)
(* Theorems about WebhookDelivery, for any number of deliveries, workers   *)
(* and mishaps, with or without overlapping attempts.  The inductive       *)
(* invariant says what an owner is good for: an owner is the revision its  *)
(* lease was written at, so no two holders ever share one, and a holder    *)
(* whose owner the document still names is the only one who can have moved *)
(* it since.                                                               *)
(***************************************************************************)
EXTENDS WebhookDelivery, TLAPS

\* An owner is the revision its lease was written at; what follows a lease
\* has a later one.
DocOK(d) == LET doc == delivery[d] IN
  /\ doc.status = "none" <=> doc.revision = 0
  /\ doc.status # "none" => doc.owner # 0
  /\ doc.owner <= doc.revision
  /\ doc.status = "processing" => doc.owner = doc.revision

\* A delivery that may be run has not been run, or its last run may be repeated.
RunOK(d) ==
  delivery[d].status \in {"none", "processing", "retryable"} =>
    \/ runs[d] = 0 /\ outcome[d] = "none"
    \/ outcome[d] = "retryable"

\* Before it has the lease, a worker knows at most a revision.
SeekerOK(w) == at[w] \in {"load", "take"} =>
  /\ held[w].owner = 0
  /\ at[w] = "take" => /\ held[w].revision <= delivery[Job(w)].revision
                       /\ held[w].revision = delivery[Job(w)].revision =>
                            delivery[Job(w)].status \in {"processing", "retryable"}

\* With the lease but not in the effects yet, a worker whose owner the document
\* names still finds the document as it wrote it.
LeaserOK(w) == at[w] \in {"sync", "release"} =>
  /\ held[w].owner # 0
  /\ held[w].revision = held[w].owner
  /\ held[w].owner = delivery[Job(w)].owner => delivery[Job(w)].status = "processing"

\* In the effects it is the owner, and the document says how far it came.
RunnerOK(w) == LET doc == delivery[Job(w)] IN
  /\ InEffects(w) => held[w].owner # 0 /\ held[w].owner = doc.owner
  /\ at[w] \in {"effects", "complete", "retryable"} =>
       doc.status = "effects_started" /\ doc.revision = held[w].revision
  /\ at[w] = "failed" => doc.status \in {"effects_started", "completed"}
  /\ at[w] = "complete" => outcome[Job(w)] = "ok"
  /\ at[w] = "retryable" => outcome[Job(w)] = "retryable"
  /\ at[w] = "failed" => outcome[Job(w)] \in {"ok", "failed"}

WorkerOK(w) ==
  /\ at[w] = "idle" => held[w] = NoHold
  /\ at[w] # "idle" => /\ held[w].owner <= delivery[Job(w)].owner
                       /\ delivery[Job(w)].status # "none"
  /\ SeekerOK(w) /\ LeaserOK(w) /\ RunnerOK(w)

\* No two workers hold the same lease.
OwnersDiffer ==
  \A v, w \in Workers :
    Job(v) = Job(w) /\ held[v].owner = held[w].owner /\ held[w].owner # 0 => v = w

IInv ==
  /\ TypeOK
  /\ \A d \in Deliveries : DocOK(d) /\ RunOK(d)
  /\ \A w \in Workers : WorkerOK(w)
  /\ OwnersDiffer
  /\ RecordIsTrue
-----------------------------------------------------------------------------
(* Lemmas about the helpers. *)

LEMMA NoHoldType == /\ NoHold \in Hold /\ NoHold.job = None
                    /\ NoHold.owner = 0 /\ NoHold.revision = 0
  BY DEF NoHold, Hold

LEMMA NoDocType == NoDoc \in Doc
  BY DEF NoDoc, Doc, Status, Settled

\* The document of a lease.
LEMMA LeasedFields ==
  ASSUME NEW r \in Nat
  PROVE  /\ Leased(r) \in Doc
         /\ Leased(r).revision = r + 1 /\ Leased(r).owner = r + 1
         /\ Leased(r).status = "processing"
  BY DEF Leased, Doc, Status, Settled

\* What the owner writes next keeps the owner.
LEMMA MovedFields ==
  ASSUME TypeOK, NEW d \in Deliveries, NEW s \in Status
  PROVE  /\ Moved(d, s) \in Doc
         /\ Moved(d, s).revision = delivery[d].revision + 1
         /\ Moved(d, s).owner = delivery[d].owner
         /\ Moved(d, s).status = s
<1> DEFINE d0 == delivery[d]
           d1 == [d0 EXCEPT !.revision = d0.revision + 1]
           d2 == [d1 EXCEPT !.status = s]
           d3 == [d2 EXCEPT !.live = FALSE]
<1>1. d0 \in Doc
  BY DEF TypeOK
<1>2. d0.revision \in Nat
  BY <1>1 DEF Doc
<1>3. Moved(d, s) = d3
  BY DEF Moved
<1> HIDE DEF d0
<1>4. d1 \in Doc
  BY <1>1, <1>2 DEF Doc
<1>5. d1.revision = d0.revision + 1 /\ d1.owner = d0.owner
  BY <1>1 DEF Doc
<1> HIDE DEF d1
<1>6. d2 \in Doc
  BY <1>4 DEF Doc
<1>7. d2.revision = d1.revision /\ d2.owner = d1.owner /\ d2.status = s
  BY <1>4 DEF Doc
<1> HIDE DEF d2
<1>8. d3 \in Doc /\ d3.revision = d2.revision /\ d3.owner = d2.owner /\ d3.status = d2.status
  BY <1>6 DEF Doc
<1> HIDE DEF d3
<1> QED
  BY <1>3, <1>5, <1>7, <1>8 DEF d0

\* What a worker holds, where it holds something.
LEMMA HeldType ==
  ASSUME TypeOK, NEW w \in Workers
  PROVE  /\ held[w] \in Hold /\ at[w] \in Places
         /\ held[w].revision \in Nat /\ held[w].owner \in Nat
         /\ at[w] # "idle" => Job(w) \in Deliveries
  BY DEF TypeOK, Hold

\* A document's fields.
LEMMA DocType ==
  ASSUME TypeOK, NEW d \in Deliveries
  PROVE  /\ delivery[d] \in Doc /\ delivery[d].status \in Status
         /\ delivery[d].revision \in Nat /\ delivery[d].owner \in Nat
  BY DEF TypeOK, Doc
-----------------------------------------------------------------------------
(* What a step of one worker leaves alone. *)

\* A worker that writes nothing and takes no lease disturbs nobody.
LEMMA Stays ==
  ASSUME IInv, NEW w \in Workers, NEW p \in Places, NEW h \in Hold,
         at' = [at EXCEPT ![w] = p], held' = [held EXCEPT ![w] = h],
         UNCHANGED <<delivery, runs, outcome>>,
         task' \in [Deliveries -> {"none", "queued", "done"}], mishaps' \in Nat,
         p # "idle" => h.job \in Deliveries,
         h.owner = 0 \/ (h.owner = held[w].owner /\ h.job = Job(w)),
         WorkerOK(w)'
  PROVE  IInv'
<1>1. TypeOK'
  BY DEF IInv, TypeOK, Job
<1>2. \A v \in Workers \ {w} : at'[v] = at[v] /\ held'[v] = held[v]
  BY DEF IInv, TypeOK
<1>3. held'[w] = h
  BY DEF IInv, TypeOK
<1>4. \A d \in Deliveries : DocOK(d)' /\ RunOK(d)'
  BY DEF IInv, DocOK, RunOK
<1>5. ASSUME NEW v \in Workers PROVE WorkerOK(v)'
  <2>1. CASE v = w
    BY <2>1
  <2>2. CASE v # w
    BY <2>2, <1>2 DEF IInv, WorkerOK, SeekerOK, LeaserOK, RunnerOK, InEffects, Job
  <2> QED
    BY <2>1, <2>2
<1>6. OwnersDiffer'
  BY <1>2, <1>3 DEF IInv, OwnersDiffer, Job
<1>7. RecordIsTrue'
  BY DEF IInv, RecordIsTrue
<1> QED
  BY <1>1, <1>4, <1>5, <1>6, <1>7 DEF IInv

\* A write to the document of d keeps what the other workers know, when none
\* of them is in its effects and none has the owner it names.
LEMMA OthersKeep ==
  ASSUME IInv, TypeOK', NEW w \in Workers, NEW d \in Deliveries,
         \A v \in Workers \ {w} : at'[v] = at[v] /\ held'[v] = held[v],
         \A e \in Deliveries \ {d} : delivery'[e] = delivery[e] /\ outcome'[e] = outcome[e],
         \A v \in Workers \ {w} : Job(v) = d =>
           ~InEffects(v) /\ (held[v].owner # 0 => held[v].owner # delivery'[d].owner),
         delivery'[d].status # "none",
         delivery[d].owner <= delivery'[d].owner,
         \/ delivery[d].revision < delivery'[d].revision
         \/ delivery'[d] = delivery[d]
  PROVE  \A v \in Workers \ {w} : WorkerOK(v)'
<1> SUFFICES ASSUME NEW v \in Workers \ {w} PROVE WorkerOK(v)'
  OBVIOUS
<1>1. WorkerOK(v) /\ at'[v] = at[v] /\ held'[v] = held[v] /\ Job(v)' = Job(v)
  BY DEF IInv, Job
<1>2. CASE Job(v) # d
  <2>1. at[v] # "idle" => delivery'[Job(v)] = delivery[Job(v)] /\ outcome'[Job(v)] = outcome[Job(v)]
    BY <1>2 DEF IInv, TypeOK
  <2> QED
    BY <1>1, <2>1 DEF WorkerOK, SeekerOK, LeaserOK, RunnerOK, InEffects
<1>3. CASE Job(v) = d
  <2>1. /\ ~InEffects(v)
        /\ held[v].owner # 0 => held[v].owner # delivery'[d].owner
    BY <1>3
  <2>2. /\ held[v].revision \in Nat /\ held[v].owner \in Nat
        /\ delivery[d].revision \in Nat /\ delivery'[d].revision \in Nat
        /\ delivery[d].owner \in Nat /\ delivery'[d].owner \in Nat
    BY DEF IInv, TypeOK, Doc, Hold
  <2>3. at'[v] = "idle" => held'[v] = NoHold
    BY <1>1 DEF WorkerOK
  <2>4. at'[v] # "idle" => held'[v].owner <= delivery'[d].owner
    BY <1>1, <1>3, <2>2 DEF WorkerOK
  <2>5. SeekerOK(v)'
    BY <1>1, <1>3, <2>2 DEF WorkerOK, SeekerOK
  <2>6. LeaserOK(v)'
    BY <1>1, <1>3, <2>1, <2>2 DEF WorkerOK, LeaserOK
  <2>7. RunnerOK(v)'
    BY <1>1, <2>1 DEF RunnerOK, InEffects
  <2> QED
    BY <1>1, <1>3, <2>3, <2>4, <2>5, <2>6, <2>7 DEF WorkerOK
<1> QED
  BY <1>2, <1>3

\* A lease is written over a document that may be run: nobody is in its
\* effects, and the lease's owner is later than any there was.
LEMMA LeaseKeeps ==
  ASSUME IInv, NEW w \in Workers, NEW d \in Deliveries,
         Lease(w, d, delivery[d].revision),
         delivery[d].status \in {"none", "processing", "retryable"},
         UNCHANGED <<task, runs, outcome>>, mishaps' \in Nat
  PROVE  IInv'
<1> DEFINE r == delivery[d].revision
           h == [job |-> d, revision |-> r + 1, owner |-> r + 1, tries |-> 0]
<1>1. /\ r \in Nat /\ delivery[d].owner \in Nat /\ delivery[d].owner <= r
  BY DocType DEF IInv, DocOK
<1>2. h \in Hold
  BY <1>1 DEF Hold
<1>3. /\ delivery' = [delivery EXCEPT ![d] = Leased(r)]
      /\ held' = [held EXCEPT ![w] = h]
      /\ at' = [at EXCEPT ![w] = "sync"]
  BY DEF Lease
<1>4. /\ Leased(r) \in Doc /\ Leased(r).revision = r + 1 /\ Leased(r).owner = r + 1
      /\ Leased(r).status = "processing"
  BY <1>1, LeasedFields
<1>5. /\ delivery'[d] = Leased(r) /\ held'[w] = h /\ at'[w] = "sync" /\ Job(w)' = d
      /\ \A v \in Workers \ {w} : at'[v] = at[v] /\ held'[v] = held[v]
      /\ \A e \in Deliveries \ {d} : delivery'[e] = delivery[e] /\ outcome'[e] = outcome[e]
  BY <1>3 DEF IInv, TypeOK, Job
<1> HIDE DEF h
<1>6. TypeOK'
  <2>1. at' \in [Workers -> Places] /\ held' \in [Workers -> Hold] /\ delivery' \in [Deliveries -> Doc]
    BY <1>2, <1>3, <1>4 DEF IInv, TypeOK, Places
  <2>2. \A v \in Workers : at'[v] # "idle" => Job(v)' \in Deliveries
    BY <1>5 DEF IInv, TypeOK, Job
  <2> QED
    BY <2>1, <2>2 DEF IInv, TypeOK
<1>7. \A v \in Workers : Job(v) = d => held[v].owner \in Nat /\ held[v].owner <= r /\ ~InEffects(v)
  <2> SUFFICES ASSUME NEW v \in Workers, Job(v) = d
               PROVE  held[v].owner \in Nat /\ held[v].owner <= r /\ ~InEffects(v)
    OBVIOUS
  <2>1. at[v] # "idle"
    BY NoHoldType, DeliveryAssumption DEF IInv, WorkerOK, Job
  <2> QED
    BY <2>1, <1>1, HeldType DEF IInv, WorkerOK, RunnerOK, InEffects
<1>8. \A v \in Workers \ {w} : WorkerOK(v)'
  BY <1>1, <1>4, <1>5, <1>6, <1>7, OthersKeep
<1>9. \A e \in Deliveries : DocOK(e)' /\ RunOK(e)'
  BY <1>1, <1>4, <1>5 DEF IInv, DocOK, RunOK
<1>10. WorkerOK(w)'
  BY <1>1, <1>4, <1>5 DEF WorkerOK, SeekerOK, LeaserOK, RunnerOK, InEffects, h, Job
<1>11. OwnersDiffer'
  <2>1. \A v \in Workers \ {w} : Job(v)' = d => held'[v].owner # held'[w].owner
    BY <1>1, <1>5, <1>7 DEF h, Job
  <2> QED
    BY <2>1, <1>5 DEF IInv, OwnersDiffer, Job
<1>12. RecordIsTrue'
  BY <1>4, <1>5 DEF IInv, RecordIsTrue
<1> QED
  BY <1>6, <1>8, <1>9, <1>10, <1>11, <1>12 DEF IInv

\* The others with the job of a worker that the document names as its owner
\* have other owners, and none of them is in the effects.
LEMMA OwnerAlone ==
  ASSUME IInv, NEW w \in Workers, Job(w) \in Deliveries, held[w].owner # 0,
         delivery[Job(w)].owner = held[w].owner
  PROVE  \A v \in Workers \ {w} : Job(v) = Job(w) =>
           ~InEffects(v) /\ held[v].owner # delivery[Job(w)].owner
<1> SUFFICES ASSUME NEW v \in Workers \ {w}, Job(v) = Job(w)
             PROVE  ~InEffects(v) /\ held[v].owner # delivery[Job(w)].owner
  OBVIOUS
<1>1. held[v].owner # held[w].owner
  BY DEF IInv, OwnersDiffer
<1> QED
  BY <1>1 DEF IInv, WorkerOK, RunnerOK

\* The owner moves its document on.
LEMMA MoveKeeps ==
  ASSUME IInv, NEW w \in Workers, NEW s \in Status \ {"none", "processing"},
         NEW p \in Places, NEW h \in Hold,
         at[w] # "idle", held[w].owner # 0, delivery[Job(w)].owner = held[w].owner,
         Move(w, s), at' = [at EXCEPT ![w] = p], held' = [held EXCEPT ![w] = h],
         \A e \in Deliveries \ {Job(w)} : runs'[e] = runs[e] /\ outcome'[e] = outcome[e],
         task' \in [Deliveries -> {"none", "queued", "done"}], mishaps' \in Nat,
         runs' \in [Deliveries -> Nat],
         outcome' \in [Deliveries -> {"none", "ok", "retryable", "failed"}],
         \/ h = NoHold /\ p = "idle"
         \/ h.job = Job(w) /\ h.owner = held[w].owner /\ p # "idle",
         WorkerOK(w)',
         s = "retryable" => \/ runs'[Job(w)] = 0 /\ outcome'[Job(w)] = "none"
                            \/ outcome'[Job(w)] = "retryable",
         s = "completed" => outcome'[Job(w)] = "ok",
         s = "failed" => outcome'[Job(w)] \in {"ok", "failed"}
  PROVE  IInv'
<1>1. PICK d \in Deliveries : d = Job(w)
  BY HeldType DEF IInv
<1>2. /\ Moved(d, s) \in Doc
      /\ Moved(d, s).revision = delivery[d].revision + 1
      /\ Moved(d, s).owner = delivery[d].owner
      /\ Moved(d, s).status = s
  BY <1>1, MovedFields DEF IInv
<1>3. delivery' = [delivery EXCEPT ![d] = Moved(d, s)]
  BY <1>1 DEF Move
<1>4. /\ delivery[d].revision \in Nat /\ delivery[d].owner \in Nat
      /\ delivery[d].owner <= delivery[d].revision
  BY <1>1, DocType DEF IInv, DocOK
<1>5. /\ delivery'[d] = Moved(d, s) /\ held'[w] = h /\ at'[w] = p
      /\ \A v \in Workers \ {w} : at'[v] = at[v] /\ held'[v] = held[v]
      /\ \A e \in Deliveries \ {d} : delivery'[e] = delivery[e] /\ outcome'[e] = outcome[e]
  BY <1>1, <1>3 DEF IInv, TypeOK
<1>6. TypeOK'
  <2>1. at' \in [Workers -> Places] /\ held' \in [Workers -> Hold] /\ delivery' \in [Deliveries -> Doc]
    BY <1>1, <1>2, <1>3 DEF IInv, TypeOK
  <2>2. \A v \in Workers : at'[v] # "idle" => Job(v)' \in Deliveries
    BY <1>1, <1>5 DEF IInv, TypeOK, Job
  <2> QED
    BY <2>1, <2>2 DEF IInv, TypeOK
<1>7. \A v \in Workers \ {w} : Job(v) = d => ~InEffects(v) /\ held[v].owner # delivery[d].owner
  BY <1>1, OwnerAlone
<1>8. \A v \in Workers \ {w} : WorkerOK(v)'
  BY <1>1, <1>2, <1>4, <1>5, <1>6, <1>7, OthersKeep
<1>9. \A e \in Deliveries : DocOK(e)' /\ RunOK(e)'
  <2>1. DocOK(d)'
    BY <1>1, <1>2, <1>4, <1>5 DEF DocOK
  <2>2. RunOK(d)'
    BY <1>1, <1>2, <1>5 DEF RunOK
  <2>3. \A e \in Deliveries \ {d} : DocOK(e)' /\ RunOK(e)'
    BY <1>1, <1>5 DEF IInv, DocOK, RunOK
  <2> QED
    BY <2>1, <2>2, <2>3
<1>10. OwnersDiffer'
  BY <1>1, <1>5, NoHoldType DEF IInv, OwnersDiffer, Job
<1>11. RecordIsTrue'
  BY <1>1, <1>2, <1>5 DEF IInv, RecordIsTrue
<1> QED
  BY <1>6, <1>8, <1>9, <1>10, <1>11 DEF IInv
-----------------------------------------------------------------------------
(* One lemma per step. *)

\* A worker that only goes to another place.
LEMMA GotoKeeps ==
  ASSUME IInv, NEW w \in Workers, NEW p \in Places \ {"idle"}, at[w] # "idle",
         Goto(w, p), UNCHANGED <<task, delivery, runs, outcome>>, mishaps' \in Nat,
         WorkerOK(w)'
  PROVE  IInv'
<1>1. held[w] \in Hold /\ Job(w) \in Deliveries
  BY HeldType DEF IInv
<1>2. held' = [held EXCEPT ![w] = held[w]] /\ at' = [at EXCEPT ![w] = p]
  BY DEF Goto, IInv, TypeOK
<1>3. task' \in [Deliveries -> {"none", "queued", "done"}]
  BY DEF IInv, TypeOK
<1> QED
  BY <1>1, <1>2, <1>3, Stays DEF Job

\* What an answer does to the variables.
LEMMA AnswerSteps ==
  ASSUME IInv, NEW w \in Workers, at[w] # "idle", NEW ok \in BOOLEAN, Answer(w, ok)
  PROVE  /\ at' = [at EXCEPT ![w] = "idle"] /\ held' = [held EXCEPT ![w] = NoHold]
         /\ task' \in [Deliveries -> {"none", "queued", "done"}]
         /\ WorkerOK(w)'
<1>1. task' \in [Deliveries -> {"none", "queued", "done"}]
  BY DEF Answer, IInv, TypeOK
<1>2. at'[w] = "idle" /\ held'[w] = NoHold
  BY DEF Answer, IInv, TypeOK
<1>3. WorkerOK(w)'
  BY <1>2 DEF WorkerOK, SeekerOK, LeaserOK, RunnerOK, InEffects
<1> QED
  BY <1>1, <1>3 DEF Answer

\* A worker that answers the queue and nothing else.
LEMMA AnswerKeeps ==
  ASSUME IInv, NEW w \in Workers, at[w] # "idle", NEW ok \in BOOLEAN, Answer(w, ok),
         UNCHANGED <<delivery, runs, outcome>>, mishaps' \in Nat
  PROVE  IInv'
  BY AnswerSteps, NoHoldType, Stays DEF Places

LEMMA QueueInv ==
  ASSUME IInv, NEW d \in Deliveries, Enqueue(d) \/ Redeliver(d)
  PROVE  IInv'
<1>1. /\ UNCHANGED <<delivery, at, held, runs, outcome>>
      /\ mishaps' \in Nat /\ task' \in [Deliveries -> {"none", "queued", "done"}]
  BY DEF Enqueue, Redeliver, Hazard, IInv, TypeOK
<1> QED
  BY <1>1 DEF IInv, TypeOK, DocOK, RunOK, WorkerOK, SeekerOK, LeaserOK, RunnerOK, InEffects,
       OwnersDiffer, RecordIsTrue, Job

\* A lease that runs out keeps the revision.
LEMMA ExpireInv ==
  ASSUME IInv, NEW d \in Deliveries, Expire(d)
  PROVE  IInv'
<1> DEFINE doc == [delivery[d] EXCEPT !.live = FALSE]
<1>1. delivery[d] \in Doc
  BY DEF IInv, TypeOK
<1>2. /\ doc \in Doc /\ doc.revision = delivery[d].revision
      /\ doc.owner = delivery[d].owner /\ doc.status = delivery[d].status
  BY <1>1 DEF Doc
<1>3. delivery' = [delivery EXCEPT ![d] = doc] /\ UNCHANGED <<task, at, held, runs, outcome>>
  BY DEF Expire
<1> HIDE DEF doc
<1>4. mishaps' \in Nat
  BY DEF Expire, Hazard, IInv, TypeOK
<1>5. \A e \in Deliveries : /\ delivery'[e].revision = delivery[e].revision
                            /\ delivery'[e].owner = delivery[e].owner
                            /\ delivery'[e].status = delivery[e].status
  BY <1>2, <1>3 DEF IInv, TypeOK
<1>6. TypeOK'
  BY <1>2, <1>3, <1>4 DEF IInv, TypeOK, Job
<1>7. ASSUME NEW w \in Workers PROVE WorkerOK(w)'
  <2>1. CASE at[w] = "idle"
    BY <2>1, <1>3 DEF IInv, WorkerOK, SeekerOK, LeaserOK, RunnerOK, InEffects
  <2>2. CASE at[w] # "idle"
    <3>1. Job(w) \in Deliveries /\ Job(w)' = Job(w)
      BY <2>2, <1>3, HeldType DEF IInv, Job
    <3> QED
      BY <3>1, <1>3, <1>5 DEF IInv, WorkerOK, SeekerOK, LeaserOK, RunnerOK, InEffects
  <2> QED
    BY <2>1, <2>2
<1> QED
  BY <1>3, <1>5, <1>6, <1>7 DEF IInv, DocOK, RunOK, OwnersDiffer, RecordIsTrue, Job

LEMMA DispatchInv ==
  ASSUME IInv, NEW w \in Workers, NEW d \in Deliveries, Dispatch(w, d)
  PROVE  IInv'
<1>1. mishaps' \in Nat /\ UNCHANGED <<task, runs, outcome>>
  BY DEF Dispatch, Hazard, IInv, TypeOK
<1>2. CASE delivery[d].status = "none" /\ Lease(w, d, 0)
  BY <1>1, <1>2, LeaseKeeps DEF IInv, DocOK
<1>3. CASE /\ delivery[d].status # "none"
           /\ at' = [at EXCEPT ![w] = "load"]
           /\ held' = [held EXCEPT ![w] = [NoHold EXCEPT !.job = d]]
           /\ UNCHANGED delivery
  <2> DEFINE h == [NoHold EXCEPT !.job = d]
  <2>1. h \in Hold /\ h.job = d /\ h.owner = 0
    BY DEF NoHold, Hold
  <2> HIDE DEF h
  <2>2. at'[w] = "load" /\ held'[w] = h /\ Job(w)' = d
    BY <1>3, <2>1 DEF IInv, TypeOK, Job, h
  <2>3. WorkerOK(w)'
    <3>1. delivery[d].owner \in Nat
      BY DocType DEF IInv
    <3>2. UNCHANGED delivery /\ delivery[d].status # "none"
      BY <1>3
    <3> QED
      BY <2>1, <2>2, <3>1, <3>2 DEF WorkerOK, SeekerOK, LeaserOK, RunnerOK, InEffects
  <2>4. task' \in [Deliveries -> {"none", "queued", "done"}]
    BY <1>1 DEF IInv, TypeOK
  <2> QED
    BY <1>1, <1>3, <2>1, <2>3, <2>4, Stays DEF Places, h
<1> QED
  BY <1>2, <1>3 DEF Dispatch

LEMMA LoadInv ==
  ASSUME IInv, NEW w \in Workers, Load(w)
  PROVE  IInv'
<1>1. UNCHANGED <<delivery, runs, outcome, mishaps>> /\ mishaps' \in Nat /\ at[w] = "load"
  BY DEF Load, IInv, TypeOK
<1>2. CASE Answer(w, TRUE) \/ Answer(w, FALSE)
  BY <1>1, <1>2, AnswerKeeps
<1>3. CASE /\ delivery[Job(w)].status \in {"retryable", "processing"}
           /\ at' = [at EXCEPT ![w] = "take"]
           /\ held' = [held EXCEPT ![w].revision = delivery[Job(w)].revision]
           /\ UNCHANGED task
  <2> DEFINE h == [held[w] EXCEPT !.revision = delivery[Job(w)].revision]
  <2>1. held[w] \in Hold /\ Job(w) \in Deliveries /\ held[w].owner = 0
    BY <1>1, HeldType DEF IInv, WorkerOK, SeekerOK
  <2>2. /\ h \in Hold /\ h.job = Job(w) /\ h.owner = 0
        /\ h.revision = delivery[Job(w)].revision
    BY <2>1, DocType DEF IInv, Hold, Job
  <2>3. held' = [held EXCEPT ![w] = h]
    BY <1>3
  <2> HIDE DEF h
  <2>4. at'[w] = "take" /\ held'[w] = h /\ Job(w)' = Job(w)
    BY <1>3, <2>2, <2>3 DEF IInv, TypeOK, Job
  <2>5. WorkerOK(w)'
    BY <1>1, <1>3, <2>1, <2>2, <2>4, DocType
    DEF IInv, WorkerOK, SeekerOK, LeaserOK, RunnerOK, InEffects
  <2>6. task' \in [Deliveries -> {"none", "queued", "done"}]
    BY <1>3 DEF IInv, TypeOK
  <2> QED
    BY <1>1, <1>3, <2>1, <2>2, <2>3, <2>5, <2>6, Stays, ZenonT(60) DEF Places
<1> QED
  BY <1>2, <1>3 DEF Load

LEMMA TakeInv ==
  ASSUME IInv, NEW w \in Workers, Take(w)
  PROVE  IInv'
<1>1. UNCHANGED <<runs, outcome, mishaps>> /\ mishaps' \in Nat /\ at[w] = "take"
  BY DEF Take, IInv, TypeOK
<1>2. held[w] \in Hold /\ Job(w) \in Deliveries /\ held[w].owner = 0
  BY <1>1, HeldType DEF IInv, WorkerOK, SeekerOK
<1>3. CASE /\ delivery[Job(w)].revision = held[w].revision
           /\ Lease(w, Job(w), held[w].revision) /\ UNCHANGED task
  <2>1. delivery[Job(w)].status \in {"processing", "retryable"}
    BY <1>1, <1>3 DEF IInv, WorkerOK, SeekerOK
  <2> QED
    BY <1>1, <1>2, <1>3, <2>1, LeaseKeeps
<1>4. CASE /\ held[w].tries < 2 /\ at' = [at EXCEPT ![w] = "load"]
           /\ held' = [held EXCEPT ![w].tries = @ + 1] /\ UNCHANGED <<task, delivery>>
  <2> DEFINE h == [held[w] EXCEPT !.tries = held[w].tries + 1]
  <2>1. h \in Hold /\ h.job = Job(w) /\ h.owner = 0
    BY <1>2, <1>4 DEF Hold, Job
  <2>2. held' = [held EXCEPT ![w] = h]
    BY <1>4
  <2> HIDE DEF h
  <2>3. at'[w] = "load" /\ held'[w] = h /\ Job(w)' = Job(w)
    BY <1>4, <2>1, <2>2 DEF IInv, TypeOK, Job
  <2>4. WorkerOK(w)'
    BY <1>1, <1>2, <1>4, <2>1, <2>3, DocType
    DEF IInv, WorkerOK, SeekerOK, LeaserOK, RunnerOK, InEffects
  <2>5. task' \in [Deliveries -> {"none", "queued", "done"}]
    BY <1>4 DEF IInv, TypeOK
  <2> QED
    BY <1>1, <1>2, <1>4, <2>1, <2>2, <2>4, <2>5, Stays, ZenonT(60) DEF Places
<1>5. CASE Answer(w, FALSE) /\ UNCHANGED delivery
  BY <1>1, <1>5, AnswerKeeps
<1> QED
  BY <1>3, <1>4, <1>5 DEF Take

LEMMA SyncFailsInv ==
  ASSUME IInv, NEW w \in Workers, SyncFails(w) \/ LosesLease(w)
  PROVE  IInv'
<1>1. /\ at[w] = "sync" /\ Goto(w, "release") /\ UNCHANGED <<task, delivery, runs, outcome>>
      /\ mishaps' \in Nat
  BY DEF SyncFails, LosesLease, Hazard, IInv, TypeOK
<1>2. at'[w] = "release" /\ UNCHANGED held
  BY <1>1 DEF Goto, IInv, TypeOK
<1>3. WorkerOK(w)'
  BY <1>1, <1>2 DEF IInv, WorkerOK, SeekerOK, LeaserOK, RunnerOK, InEffects, Job
<1> QED
  BY <1>1, <1>3, GotoKeeps DEF Places

LEMMA BeginEffectsInv ==
  ASSUME IInv, NEW w \in Workers, BeginEffects(w)
  PROVE  IInv'
<1> DEFINE h == [held[w] EXCEPT !.revision = held[w].revision + 1]
<1>1. /\ at[w] = "sync" /\ Move(w, "effects_started") /\ UNCHANGED <<task, mishaps>>
      /\ delivery[Job(w)].owner = held[w].owner
      /\ delivery[Job(w)].revision = held[w].revision
      /\ at' = [at EXCEPT ![w] = "effects"] /\ held' = [held EXCEPT ![w] = h]
      /\ runs' = [runs EXCEPT ![Job(w)] = @ + 1]
      /\ outcome' = [outcome EXCEPT ![Job(w)] = "none"]
  BY DEF BeginEffects, Owns
<1>2. PICK d \in Deliveries : d = Job(w)
  BY <1>1, HeldType DEF IInv
<1>3. held[w] \in Hold /\ held[w].revision \in Nat /\ held[w].owner # 0
  BY <1>1, HeldType DEF IInv, WorkerOK, LeaserOK
<1>4. /\ h \in Hold /\ h.job = d /\ h.owner = held[w].owner
      /\ h.revision = held[w].revision + 1
  BY <1>2, <1>3 DEF Hold, Job
<1> HIDE DEF h
<1>5. at'[w] = "effects" /\ held'[w] = h /\ Job(w)' = d
  BY <1>1, <1>2, <1>4 DEF IInv, TypeOK, Job
<1>6. /\ runs' \in [Deliveries -> Nat]
      /\ outcome' \in [Deliveries -> {"none", "ok", "retryable", "failed"}]
      /\ \A e \in Deliveries \ {d} : runs'[e] = runs[e] /\ outcome'[e] = outcome[e]
  BY <1>1, <1>2 DEF IInv, TypeOK
<1>7. /\ Moved(d, "effects_started").revision = delivery[d].revision + 1
      /\ Moved(d, "effects_started").owner = delivery[d].owner
      /\ Moved(d, "effects_started").status = "effects_started"
  BY MovedFields DEF IInv, Status, Settled
<1>8. delivery'[d] = Moved(d, "effects_started")
  BY <1>1, <1>2 DEF Move, IInv, TypeOK
<1>9. WorkerOK(w)'
  <2>1. held[w].owner <= delivery[d].owner
    BY <1>1, <1>2 DEF IInv, WorkerOK
  <2> QED
    BY <1>1, <1>2, <1>3, <1>4, <1>5, <1>7, <1>8, <2>1
    DEF WorkerOK, SeekerOK, LeaserOK, RunnerOK, InEffects
<1>10. task' \in [Deliveries -> {"none", "queued", "done"}] /\ mishaps' \in Nat
  BY <1>1 DEF IInv, TypeOK
<1> QED
  BY <1>1, <1>2, <1>3, <1>4, <1>6, <1>9, <1>10, MoveKeeps DEF Places, Status, Settled

LEMMA ReleaseInv ==
  ASSUME IInv, NEW w \in Workers, Release(w)
  PROVE  IInv'
<1>1. /\ at[w] = "release" /\ Answer(w, FALSE)
      /\ UNCHANGED <<runs, outcome, mishaps>> /\ mishaps' \in Nat
  BY DEF Release, IInv, TypeOK
<1>2. CASE UNCHANGED delivery
  BY <1>1, <1>2, AnswerKeeps
<1>3. CASE Owns(w, "processing") /\ Move(w, "retryable")
  <2>1. /\ Job(w) \in Deliveries /\ held[w].owner # 0
        /\ delivery[Job(w)].owner = held[w].owner
    BY <1>1, <1>3, HeldType DEF IInv, WorkerOK, LeaserOK, Owns
  <2>2. \/ runs[Job(w)] = 0 /\ outcome[Job(w)] = "none"
        \/ outcome[Job(w)] = "retryable"
    BY <1>3, <2>1 DEF IInv, RunOK, Owns
  <2>3. /\ runs' \in [Deliveries -> Nat]
        /\ outcome' \in [Deliveries -> {"none", "ok", "retryable", "failed"}]
    BY <1>1 DEF IInv, TypeOK
  <2> QED
    BY <1>1, <1>3, <2>1, <2>2, <2>3, AnswerSteps, NoHoldType, MoveKeeps
    DEF Places, Status, Settled
<1> QED
  BY <1>2, <1>3 DEF Release

\* The outcome of a run is told of a delivery whose other workers are not in it.
LEMMA EffectsEndInv ==
  ASSUME IInv, NEW w \in Workers, NEW how \in {"ok", "retryable", "failed"},
         EffectsEnd(w, how), mishaps' \in Nat
  PROVE  IInv'
<1> DEFINE p == IF how = "ok" THEN "complete" ELSE how
<1>1. /\ at[w] = "effects" /\ UNCHANGED <<task, delivery, runs, held>>
      /\ at' = [at EXCEPT ![w] = p]
      /\ outcome' = [outcome EXCEPT ![Job(w)] = how]
  BY DEF EffectsEnd, Goto
<1>2. PICK d \in Deliveries : d = Job(w)
  BY <1>1, HeldType DEF IInv
<1>3. /\ held[w].owner # 0 /\ held[w].owner = delivery[d].owner
      /\ delivery[d].status = "effects_started" /\ delivery[d].revision = held[w].revision
      /\ delivery[d].owner \in Nat
  BY <1>1, <1>2, DocType DEF IInv, WorkerOK, RunnerOK, InEffects
<1>4. /\ at'[w] = p /\ outcome'[d] = how
      /\ \A v \in Workers \ {w} : at'[v] = at[v] /\ held'[v] = held[v]
      /\ \A e \in Deliveries \ {d} : delivery'[e] = delivery[e] /\ outcome'[e] = outcome[e]
  BY <1>1, <1>2 DEF IInv, TypeOK
<1>5. TypeOK'
  BY <1>1, <1>2 DEF IInv, TypeOK, Places, Job
<1>6. \A v \in Workers \ {w} : Job(v) = d => ~InEffects(v) /\ held[v].owner # delivery[d].owner
  BY <1>2, <1>3, OwnerAlone
<1>7. \A v \in Workers \ {w} : WorkerOK(v)'
  BY <1>1, <1>3, <1>4, <1>5, <1>6, OthersKeep
<1>8. WorkerOK(w)'
  BY <1>1, <1>2, <1>3, <1>4 DEF WorkerOK, SeekerOK, LeaserOK, RunnerOK, InEffects, Job
<1>9. \A e \in Deliveries : DocOK(e)' /\ RunOK(e)'
  BY <1>1, <1>3, <1>4 DEF IInv, DocOK, RunOK
<1>10. OwnersDiffer' /\ RecordIsTrue'
  BY <1>1, <1>3, <1>4 DEF IInv, OwnersDiffer, RecordIsTrue, Job
<1> QED
  BY <1>5, <1>7, <1>8, <1>9, <1>10 DEF IInv

\* A worker at "complete" always finds the revision it wrote.
LEMMA CompleteInv ==
  ASSUME IInv, NEW w \in Workers, Complete(w)
  PROVE  IInv'
<1>1. at[w] = "complete" /\ UNCHANGED <<runs, outcome, mishaps>>
  BY DEF Complete
<1>2. /\ Job(w) \in Deliveries /\ held[w].owner # 0
      /\ delivery[Job(w)].owner = held[w].owner
      /\ delivery[Job(w)].revision = held[w].revision
      /\ outcome[Job(w)] = "ok"
  BY <1>1, HeldType DEF IInv, WorkerOK, RunnerOK, InEffects
<1>3. Move(w, "completed") /\ Answer(w, TRUE)
  BY <1>2 DEF Complete
<1>4. /\ runs' \in [Deliveries -> Nat] /\ mishaps' \in Nat
      /\ outcome' \in [Deliveries -> {"none", "ok", "retryable", "failed"}]
  BY <1>1 DEF IInv, TypeOK
<1> QED
  BY <1>1, <1>2, <1>3, <1>4, AnswerSteps, NoHoldType, MoveKeeps DEF Places, Status, Settled

LEMMA CompleteFailsInv ==
  ASSUME IInv, NEW w \in Workers, CompleteFails(w)
  PROVE  IInv'
<1>1. /\ at[w] = "complete" /\ UNCHANGED <<task, runs, outcome>> /\ mishaps' \in Nat
      /\ at' = [at EXCEPT ![w] = "failed"] /\ UNCHANGED held /\ Goto(w, "failed")
  BY DEF CompleteFails, Hazard, Goto, IInv, TypeOK
<1>2. PICK d \in Deliveries : d = Job(w)
  BY <1>1, HeldType DEF IInv
<1>3. /\ held[w].owner # 0 /\ delivery[d].owner = held[w].owner
      /\ delivery[d].status = "effects_started"
      /\ outcome[d] = "ok" /\ held[w] \in Hold /\ delivery[d].owner \in Nat
  BY <1>1, <1>2, HeldType, DocType DEF IInv, WorkerOK, RunnerOK, InEffects
<1>4. at'[w] = "failed" /\ Job(w)' = d
  BY <1>1, <1>2 DEF IInv, TypeOK, Job
<1>5. CASE UNCHANGED delivery
  <2>1. WorkerOK(w)'
    BY <1>1, <1>3, <1>4, <1>5 DEF WorkerOK, SeekerOK, LeaserOK, RunnerOK, InEffects
  <2> QED
    BY <1>1, <1>5, <2>1, GotoKeeps DEF Places
<1>6. CASE Move(w, "completed")
  <2>1. /\ Moved(d, "completed").owner = delivery[d].owner
        /\ Moved(d, "completed").status = "completed"
    BY MovedFields DEF IInv, Status, Settled
  <2>2. delivery'[d] = Moved(d, "completed")
    BY <1>2, <1>6 DEF Move, IInv, TypeOK
  <2>3. WorkerOK(w)'
    BY <1>1, <1>3, <1>4, <2>1, <2>2 DEF WorkerOK, SeekerOK, LeaserOK, RunnerOK, InEffects
  <2>4. held' = [held EXCEPT ![w] = held[w]]
    BY <1>1 DEF IInv, TypeOK
  <2>5. /\ runs' \in [Deliveries -> Nat] /\ task' \in [Deliveries -> {"none", "queued", "done"}]
        /\ outcome' \in [Deliveries -> {"none", "ok", "retryable", "failed"}]
    BY <1>1 DEF IInv, TypeOK
  <2> QED
    BY <1>1, <1>2, <1>3, <1>6, <2>3, <2>4, <2>5, MoveKeeps DEF Places, Status, Settled, Job
<1> QED
  BY <1>5, <1>6 DEF CompleteFails

LEMMA FailDeliveryInv ==
  ASSUME IInv, NEW w \in Workers, FailDelivery(w)
  PROVE  IInv'
<1>1. /\ at[w] \in {"retryable", "failed"} /\ Answer(w, FALSE)
      /\ UNCHANGED <<runs, outcome, mishaps>> /\ mishaps' \in Nat
  BY DEF FailDelivery, IInv, TypeOK
<1>2. CASE UNCHANGED delivery
  BY <1>1, <1>2, AnswerKeeps
<1>3. CASE Move(w, at[w])
  <2>1. /\ Job(w) \in Deliveries /\ held[w].owner # 0
        /\ delivery[Job(w)].owner = held[w].owner
        /\ at[w] = "retryable" => outcome[Job(w)] = "retryable"
        /\ at[w] = "failed" => outcome[Job(w)] \in {"ok", "failed"}
    BY <1>1, HeldType DEF IInv, WorkerOK, RunnerOK, InEffects
  <2>2. /\ runs' \in [Deliveries -> Nat]
        /\ outcome' \in [Deliveries -> {"none", "ok", "retryable", "failed"}]
    BY <1>1 DEF IInv, TypeOK
  <2> QED
    BY <1>1, <1>3, <2>1, <2>2, AnswerSteps, NoHoldType, MoveKeeps DEF Places, Status, Settled
<1> QED
  BY <1>2, <1>3 DEF FailDelivery

LEMMA CrashInv ==
  ASSUME IInv, NEW w \in Workers, Crash(w)
  PROVE  IInv'
<1>1. at[w] # "idle" /\ Answer(w, FALSE) /\ UNCHANGED <<delivery, runs, outcome>>
  BY DEF Crash
<1>2. mishaps' \in Nat
  BY DEF Crash, Hazard, IInv, TypeOK
<1> QED
  BY <1>1, <1>2, AnswerKeeps
-----------------------------------------------------------------------------
(* The theorems. *)

LEMMA InitInv == Init => IInv
<1> SUFFICES ASSUME Init PROVE IInv
  OBVIOUS
<1>1. TypeOK
  BY NoHoldType, NoDocType DEF Init, TypeOK, Places
<1> QED
  BY <1>1 DEF Init, IInv, DocOK, RunOK, WorkerOK, SeekerOK, LeaserOK, RunnerOK, InEffects,
       OwnersDiffer, RecordIsTrue, NoDoc, NoHold

LEMMA NextInv == IInv /\ [Next]_vars => IInv'
<1> SUFFICES ASSUME IInv, [Next]_vars PROVE IInv'
  OBVIOUS
<1>1. CASE UNCHANGED vars
  BY <1>1 DEF vars, IInv, TypeOK, DocOK, RunOK, WorkerOK, SeekerOK, LeaserOK, RunnerOK,
       InEffects, OwnersDiffer, RecordIsTrue, Job
<1>2. ASSUME NEW d \in Deliveries,
             Enqueue(d) \/ Redeliver(d) \/ Expire(d) \/ \E w \in Workers : Dispatch(w, d)
      PROVE  IInv'
  BY <1>2, QueueInv, ExpireInv, DispatchInv
<1>3. ASSUME NEW w \in Workers, Step(w)
      PROVE  IInv'
  <2>1. CASE EffectsReturn(w)
    <3>1. EffectsEnd(w, "ok") /\ mishaps' \in Nat
      BY <2>1 DEF EffectsReturn, IInv, TypeOK
    <3> QED
      BY <3>1, EffectsEndInv
  <2> QED
    BY <1>3, <2>1, LoadInv, TakeInv, BeginEffectsInv, SyncFailsInv, ReleaseInv, CompleteInv,
       FailDeliveryInv DEF Step
<1>4. ASSUME NEW w \in Workers, Fault(w)
      PROVE  IInv'
  <2>1. ASSUME NEW how \in {"retryable", "failed"}, EffectsThrow(w, how)
        PROVE  IInv'
    <3>1. EffectsEnd(w, how) /\ mishaps' \in Nat
      BY <2>1 DEF EffectsThrow, Hazard, IInv, TypeOK
    <3> QED
      BY <3>1, EffectsEndInv
  <2> QED
    BY <1>4, <2>1, SyncFailsInv, CompleteFailsInv, CrashInv DEF Fault
<1> QED
  BY <1>1, <1>2, <1>3, <1>4 DEF Next

\* Both would be the owner their document names, and owners differ.
LEMMA ExclusiveInv == IInv => EffectsExclusive
  BY DEF IInv, EffectsExclusive, WorkerOK, RunnerOK, OwnersDiffer, InEffects

\* Only the owner of a "processing" document begins the effects.
RerunRight == \A d \in Deliveries : runs'[d] # runs[d] => runs[d] = 0 \/ outcome[d] = "retryable"

LEMMA RerunStep == IInv /\ [Next]_vars => [RerunRight]_vars
<1> SUFFICES ASSUME IInv, Next PROVE RerunRight
  OBVIOUS
<1>1. ASSUME NEW w \in Workers, BeginEffects(w)
      PROVE  RerunRight
  <2>1. /\ Job(w) \in Deliveries /\ delivery[Job(w)].status = "processing"
        /\ runs' = [runs EXCEPT ![Job(w)] = @ + 1]
    BY <1>1, HeldType DEF BeginEffects, Owns, IInv
  <2> QED
    BY <2>1 DEF IInv, RunOK, TypeOK, RerunRight
<1>2. (\E w \in Workers : BeginEffects(w)) \/ UNCHANGED runs
  BY DEF Next, Step, Fault, Enqueue, Redeliver, Expire, Dispatch, Load, Take, LosesLease,
       Release, EffectsReturn, EffectsThrow, EffectsEnd, Complete, CompleteFails, FailDelivery,
       SyncFails, Crash
<1> QED
  BY <1>1, <1>2 DEF RerunRight

\* The inductive invariant holds throughout.
THEOREM Invariance == Spec => []IInv
<1>1. Init => IInv
  BY InitInv
<1>2. IInv /\ [Next]_vars => IInv'
  BY NextInv
<1> QED
  BY <1>1, <1>2, PTL DEF Spec

\* Every variable has its type.
THEOREM TypeCorrect == Spec => []TypeOK
<1>1. IInv => TypeOK
  BY DEF IInv
<1> QED
  BY <1>1, Invariance, PTL

\* The effects of a delivery never run in two workers at once: both would
\* be the owner its document names, and owners differ.
THEOREM Exclusive == Spec => []EffectsExclusive
  BY ExclusiveInv, Invariance, PTL

\* What the document records of the effects is how they ended.
THEOREM RecordTrue == Spec => []RecordIsTrue
<1>1. IInv => RecordIsTrue
  BY DEF IInv
<1> QED
  BY <1>1, Invariance, PTL

\* The effects begin again only after a run that ended with a
\* RetryableWorkError, because only the owner of a "processing" document
\* begins them.
THEOREM RerunRetryable == Spec => RerunOnlyAfterRetryable
  BY RerunStep, Invariance, PTL DEF Spec, RerunOnlyAfterRetryable, RerunRight
=============================================================================
