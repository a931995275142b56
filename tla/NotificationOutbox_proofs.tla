---------------------- MODULE NotificationOutbox_proofs ----------------------
(***************************************************************************)
(* Theorems about NotificationOutbox, for any number of intents, workers,  *)
(* operators and attempts and any clock.  The inductive invariant says     *)
(* what a revision stands for: an actor whose revision still matches holds *)
(* the stored document itself, so what it knew when it read or scanned is  *)
(* true when its compare-and-set succeeds.  A first group of lemmas says   *)
(* what one step does to a document, to an actor and to Slack (Moves); the *)
(* rest of the argument follows from that alone, without the actions.      *)
(***************************************************************************)
EXTENDS NotificationOutbox, FiniteSetTheorems, TLAPS

\* A document that has been claimed carries its claim's time; the counters
\* tell the automatic claim from the ordered ones.
DocOK(i) == LET d == outbox[i] IN
  /\ d.revision = 0 => d = NoDoc
  /\ d.revision # 0 => d.status # "none"
  /\ d.status \in {"none", "intent"} => d.attempts = 0
  /\ d.status \notin {"none", "intent"} => d.attempts # 0
  /\ d.status = "sending" => d.startedAt = d.updatedAt
  /\ d.replays <= d.attempts /\ d.attempts <= d.replays + 1
  /\ d.updatedAt <= now

\* Calls bear the number of a claim, and each lands at most once.
CallOK(i) ==
  /\ \A n \in Called(i) : n # 0 /\ n <= outbox[i].attempts
  /\ \A m \in posted[i] : m.attempt \notin wire[i]
  /\ \A m1, m2 \in posted[i] : m1.attempt = m2.attempt => m1 = m2

\* The revision an actor holds is the document's, or an older one.
SeenOK(a) == pc[a] # "idle" =>
  /\ 0 < seen[a].revision
  /\ seen[a].revision <= outbox[job[a]].revision
  /\ seen[a].attempts <= outbox[job[a]].attempts
  /\ seen[a].revision = outbox[job[a]].revision => seen[a] = outbox[job[a]]

\* What an actor at each step knows of the document it holds.
StepOK(a) ==
  /\ a \in Workers /\ pc[a] = "claim" => seen[a].status = "intent"
  /\ pc[a] = "awaiting" => seen[a].status = "sending"
  /\ pc[a] = "append" => seen[a].status \in {"sending", "sent", "failed", "needs_review"}
  /\ pc[a] = "reconcile" => a \in Operators
  /\ a \in Operators /\ pc[a] \in {"reconcile", "claim"} => Eligible(seen[a])

\* An operator's claim waits for its audit entry before the call, alone.
Ordering(a) == pc[a] = "append" /\ seen[a].status = "sending"

OrderOK(a) == Ordering(a) => /\ a \in Operators
                             /\ seen[a].attempts # 0
                             /\ seen[a].attempts \notin Called(job[a])

OrderAlone(a, b) ==
  /\ Ordering(a) /\ Ordering(b)
  /\ job[a] = job[b] /\ seen[a].attempts = seen[b].attempts
  => a = b

\* A message that came in time belongs to the latest claim, within the time
\* the outbox waits for it.
PromptOK(i) == \A m \in posted[i] :
  ~m.late => /\ m.attempt = outbox[i].attempts
             /\ outbox[i].startedAt <= m.at
             /\ m.at < outbox[i].startedAt + StaleAfter

\* An operator about to claim has ruled such a message out.
ScanOK(o) == pc[o] = "claim" /\ Matches(o) => \A m \in posted[job[o]] : m.late

IntentsInv == \A i \in Intents : DocOK(i) /\ CallOK(i) /\ PromptOK(i)

ActorsInv == /\ \A a \in Actors : SeenOK(a) /\ StepOK(a) /\ OrderOK(a)
             /\ \A a, b \in Actors : OrderAlone(a, b)
             /\ \A o \in Operators : ScanOK(o)

IInv == TypeOK /\ IntentsInv /\ ActorsInv /\ SentIsTrue /\ ReplayAuditedFirst
-----------------------------------------------------------------------------
(* Lemmas about the helpers. *)

\* The states of the actors, which Work, Rest, Write and GiveUp preserve.
ActorsOK ==
  /\ pc \in [Actors -> Steps]
  /\ job \in [Actors -> Intents \cup {None}]
  /\ \A a \in Actors : pc[a] # "idle" => job[a] \in Intents
  /\ seen \in [Actors -> Doc]

LEMMA NoDocType == NoDoc \in Doc
  BY DEF NoDoc, Doc, Status

LEMMA NewIntentType == now \in Nat => NewIntent \in Doc
  BY DEF NewIntent, NoDoc, Doc, Status

\* The three documents a transition writes: their fields, and their type.
LEMMA ClaimedFields ==
  ASSUME NEW d \in Doc, NEW r \in BOOLEAN, now \in Nat
  PROVE  /\ ClaimedDoc(d, r) \in Doc
         /\ ClaimedDoc(d, r).revision = d.revision + 1
         /\ ClaimedDoc(d, r).status = "sending"
         /\ ClaimedDoc(d, r).attempts = d.attempts + 1
         /\ ClaimedDoc(d, r).replays = IF r THEN d.replays + 1 ELSE d.replays
         /\ ClaimedDoc(d, r).updatedAt = now
         /\ ClaimedDoc(d, r).startedAt = now
<1> DEFINE d1 == [d EXCEPT !.revision = d.revision + 1]
           d2 == [d1 EXCEPT !.status = "sending"]
           d3 == [d2 EXCEPT !.attempts = d.attempts + 1]
           d4 == [d3 EXCEPT !.replays = IF r THEN d.replays + 1 ELSE d.replays]
           d5 == [d4 EXCEPT !.updatedAt = now]
           d6 == [d5 EXCEPT !.startedAt = now]
<1>1. /\ d.revision \in Nat /\ d.status \in Status /\ d.attempts \in Nat
      /\ d.replays \in Nat /\ d.updatedAt \in Nat /\ d.startedAt \in Nat /\ d.ts \in Nat
  BY DEF Doc
<1>2. d1 \in Doc
  BY <1>1 DEF Doc, Status
<1> HIDE DEF d1
<1>3. d2 \in Doc
  BY <1>1, <1>2 DEF Doc, Status
<1> HIDE DEF d2
<1>4. d3 \in Doc
  BY <1>1, <1>3 DEF Doc, Status
<1> HIDE DEF d3
<1>5. d4 \in Doc
  BY <1>1, <1>4 DEF Doc, Status
<1> HIDE DEF d4
<1>6. d5 \in Doc
  BY <1>1, <1>5 DEF Doc, Status
<1> HIDE DEF d5
<1>7. d6 \in Doc
  BY <1>1, <1>6 DEF Doc, Status
<1> HIDE DEF d6
<1>8. ClaimedDoc(d, r) = d6
  BY DEF ClaimedDoc, d1, d2, d3, d4, d5, d6
<1> QED
  BY <1>1, <1>7, <1>8 DEF ClaimedDoc, Doc

LEMMA SentFields ==
  ASSUME NEW d \in Doc, NEW n \in Nat, now \in Nat
  PROVE  /\ SentDoc(d, n) \in Doc
         /\ SentDoc(d, n).revision = d.revision + 1
         /\ SentDoc(d, n).status = "sent"
         /\ SentDoc(d, n).attempts = d.attempts
         /\ SentDoc(d, n).replays = d.replays
         /\ SentDoc(d, n).updatedAt = now
         /\ SentDoc(d, n).startedAt = d.startedAt
         /\ SentDoc(d, n).ts = n
<1> DEFINE d1 == [d EXCEPT !.revision = d.revision + 1]
           d2 == [d1 EXCEPT !.status = "sent"]
           d3 == [d2 EXCEPT !.updatedAt = now]
           d4 == [d3 EXCEPT !.ts = n]
<1>1. /\ d.revision \in Nat /\ d.status \in Status /\ d.attempts \in Nat
      /\ d.replays \in Nat /\ d.updatedAt \in Nat /\ d.startedAt \in Nat /\ d.ts \in Nat
  BY DEF Doc
<1>2. d1 \in Doc
  BY <1>1 DEF Doc, Status
<1> HIDE DEF d1
<1>3. d2 \in Doc
  BY <1>1, <1>2 DEF Doc, Status
<1> HIDE DEF d2
<1>4. d3 \in Doc
  BY <1>1, <1>3 DEF Doc, Status
<1> HIDE DEF d3
<1>5. d4 \in Doc
  BY <1>1, <1>4 DEF Doc, Status
<1> HIDE DEF d4
<1>6. SentDoc(d, n) = d4
  BY DEF SentDoc, d1, d2, d3, d4
<1> QED
  BY <1>1, <1>5, <1>6 DEF SentDoc, Doc

LEMMA FailedFields ==
  ASSUME NEW d \in Doc, NEW s \in Status, now \in Nat
  PROVE  /\ FailedDoc(d, s) \in Doc
         /\ FailedDoc(d, s).revision = d.revision + 1
         /\ FailedDoc(d, s).status = s
         /\ FailedDoc(d, s).attempts = d.attempts
         /\ FailedDoc(d, s).replays = d.replays
         /\ FailedDoc(d, s).updatedAt = now
         /\ FailedDoc(d, s).startedAt = d.startedAt
<1> DEFINE d1 == [d EXCEPT !.revision = d.revision + 1]
           d2 == [d1 EXCEPT !.status = s]
           d3 == [d2 EXCEPT !.updatedAt = now]
<1>1. /\ d.revision \in Nat /\ d.status \in Status /\ d.attempts \in Nat
      /\ d.replays \in Nat /\ d.updatedAt \in Nat /\ d.startedAt \in Nat /\ d.ts \in Nat
  BY DEF Doc
<1>2. d1 \in Doc
  BY <1>1 DEF Doc, Status
<1> HIDE DEF d1
<1>3. d2 \in Doc
  BY <1>1, <1>2 DEF Doc, Status
<1> HIDE DEF d2
<1>4. d3 \in Doc
  BY <1>1, <1>3 DEF Doc, Status
<1> HIDE DEF d3
<1>5. FailedDoc(d, s) = d3
  BY DEF FailedDoc, d1, d2, d3
<1> QED
  BY <1>1, <1>4, <1>5 DEF FailedDoc, Doc

LEMMA WorkType ==
  ASSUME ActorsOK, NEW a \in Actors, NEW i \in Intents, NEW d \in Doc,
         NEW step \in Steps, Work(a, i, d, step)
  PROVE  ActorsOK'
  BY DEF ActorsOK, Work

LEMMA RestType == ASSUME ActorsOK, NEW a \in Actors, Rest(a) PROVE ActorsOK'
  BY NoDocType DEF ActorsOK, Rest, Work, Steps

LEMMA WriteType ==
  ASSUME ActorsOK, outbox \in [Intents -> Doc], NEW a \in Actors, pc[a] # "idle",
         NEW d \in Doc, NEW step \in Steps, Write(a, d, step) \/ GiveUp(a)
  PROVE  ActorsOK' /\ outbox' \in [Intents -> Doc]
<1>1. job[a] \in Intents
  BY DEF ActorsOK
<1>2. outbox' \in [Intents -> Doc]
  BY DEF Write, GiveUp
<1>3. CASE Work(a, job[a], d, step)
  BY <1>1, <1>2, <1>3, WorkType
<1>4. CASE Rest(a)
  BY <1>2, <1>4, RestType
<1> QED
  BY <1>3, <1>4 DEF Write, GiveUp

LEMMA CallType ==
  ASSUME wire \in [Intents -> SUBSET Nat], NEW i \in Intents, NEW n \in Nat, Call(i, n)
  PROVE  wire' \in [Intents -> SUBSET Nat]
  BY DEF Call

-----------------------------------------------------------------------------
(* Type correctness. *)

LEMMA TypeStep == TypeOK /\ [Next]_vars => TypeOK'
<1> SUFFICES ASSUME TypeOK, [Next]_vars PROVE TypeOK'
  OBVIOUS
<1>0. ActorsOK /\ now \in Nat /\ outbox \in [Intents -> Doc]
  BY DEF TypeOK, ActorsOK
<1> USE <1>0
<1> DEFINE Rested == ActorsOK /\ now \in Nat /\ outbox \in [Intents -> Doc]
           Calls == /\ wire \in [Intents -> SUBSET Nat]
                    /\ posted \in [Intents -> SUBSET Message]
           Audited == audit \subseteq [intent : Intents, status : Status, attempt : Nat]
<1>a. Calls /\ Audited
  BY DEF TypeOK
<1>b. SUFFICES Rested' /\ Calls' /\ Audited'
  BY DEF TypeOK, ActorsOK
<1>c. \A a \in Actors : /\ seen[a] \in Doc
                        /\ seen[a].attempts \in Nat
                        /\ seen[a].status \in Status
                        /\ pc[a] # "idle" => job[a] \in Intents
  BY DEF ActorsOK, Doc
<1>d. Workers \subseteq Actors /\ Operators \subseteq Actors
  BY DEF Actors
<1>e. \A s \in {"claim", "append", "awaiting", "reconcile", "idle"} : s \in Steps
  BY DEF Steps
<1>1. ASSUME NEW w \in Workers, NEW i \in Intents, CreateOrLoad(w, i)
      PROVE  Rested' /\ Calls' /\ Audited'
  <2> DEFINE d == IF outbox[i].revision = 0 THEN NewIntent ELSE outbox[i]
  <2>1. d \in Doc
    BY NewIntentType
  <2>2. outbox' \in [Intents -> Doc] /\ Work(w, i, d, "claim")
    BY <1>1, <2>1 DEF CreateOrLoad
  <2>3. ActorsOK'
    BY <2>1, <2>2, <1>d, <1>e, WorkType
  <2> QED
    BY <1>1, <2>2, <2>3, <1>a DEF CreateOrLoad
<1>2. ASSUME NEW w \in Workers, ClaimAndSend(w)
      PROVE  Rested' /\ Calls' /\ Audited'
  <2> DEFINE d == ClaimedDoc(seen[w], FALSE)
  <2>0. pc[w] # "idle" /\ job[w] \in Intents /\ seen[w] \in Doc /\ seen[w].attempts \in Nat
    BY <1>2, <1>c, <1>d DEF ClaimAndSend
  <2>a. d \in Doc
    BY <2>0, ClaimedFields
  <2> HIDE DEF d
  <2>1. d \in Doc /\ d.attempts \in Nat
    BY <2>a DEF Doc
  <2>2. Write(w, d, "awaiting") \/ GiveUp(w)
    BY <1>2 DEF ClaimAndSend, d
  <2>3. ActorsOK' /\ outbox' \in [Intents -> Doc]
    BY <2>0, <2>1, <2>2, <1>d, <1>e, WriteType
  <2>4. Call(job[w], d.attempts) \/ UNCHANGED wire
    BY <1>2 DEF ClaimAndSend, d
  <2>5. wire' \in [Intents -> SUBSET Nat]
    BY <2>4, <1>a, <2>0, <2>1, CallType
  <2> QED
    BY <1>2, <1>a, <2>3, <2>5 DEF ClaimAndSend
<1>3. ASSUME NEW o \in Operators, NEW i \in Intents, Assess(o, i)
      PROVE  Rested' /\ Calls' /\ Audited'
  <2>1. ActorsOK'
    BY <1>3, <1>d, <1>e, WorkType DEF Assess
  <2> QED
    BY <1>3, <1>a, <2>1 DEF Assess
<1>4. ASSUME NEW o \in Operators, RecordExisting(o)
      PROVE  Rested' /\ Calls' /\ Audited'
  <2>1. PICK m \in Visible(job[o], seen[o]) :
          Write(o, SentDoc(seen[o], m.attempt), "append") \/ GiveUp(o)
    BY <1>4 DEF RecordExisting
  <2>2. job[o] \in Intents /\ pc[o] # "idle"
    BY <1>4, <1>c, <1>d DEF RecordExisting
  <2>3. m.attempt \in Nat
    BY <2>1, <2>2, <1>a DEF Visible, Message
  <2>4. SentDoc(seen[o], m.attempt) \in Doc
    BY <2>3, <1>c, <1>d, SentFields
  <2>5. ActorsOK' /\ outbox' \in [Intents -> Doc]
    BY <2>1, <2>2, <2>4, <1>d, <1>e, WriteType
  <2> QED
    BY <1>4, <1>a, <2>5 DEF RecordExisting
<1>5. ASSUME NEW o \in Operators, ScanFindsNothing(o)
      PROVE  Rested' /\ Calls' /\ Audited'
  <2>1. ActorsOK'
    BY <1>5, <1>c, <1>d, <1>e, WorkType DEF ScanFindsNothing
  <2> QED
    BY <1>5, <1>a, <2>1 DEF ScanFindsNothing
<1>6. ASSUME NEW o \in Operators, ScanBlocked(o)
      PROVE  Rested' /\ Calls' /\ Audited'
  BY <1>6, <1>a, <1>d, RestType DEF ScanBlocked
<1>7. ASSUME NEW o \in Operators, ReplayClaim(o)
      PROVE  Rested' /\ Calls' /\ Audited'
  <2>1. ClaimedDoc(seen[o], TRUE) \in Doc /\ pc[o] # "idle"
    BY <1>7, <1>c, <1>d, ClaimedFields DEF ReplayClaim
  <2>2. ActorsOK' /\ outbox' \in [Intents -> Doc]
    BY <1>7, <2>1, <1>d, <1>e, WriteType DEF ReplayClaim
  <2> QED
    BY <1>7, <1>a, <2>2 DEF ReplayClaim
<1>8. ASSUME NEW a \in Actors, RecordSent(a)
      PROVE  Rested' /\ Calls' /\ Audited'
  <2>1. SentDoc(seen[a], seen[a].attempts) \in Doc /\ pc[a] # "idle"
    BY <1>8, <1>c, SentFields DEF RecordSent
  <2>2. ActorsOK' /\ outbox' \in [Intents -> Doc]
    BY <1>8, <2>1, <1>e, WriteType DEF RecordSent
  <2> QED
    BY <1>8, <1>a, <2>2 DEF RecordSent
<1>9. ASSUME NEW a \in Actors, RecordRefused(a)
      PROVE  Rested' /\ Calls' /\ Audited'
  <2>1. FailedDoc(seen[a], "failed") \in Doc /\ pc[a] # "idle"
    BY <1>9, <1>c, FailedFields DEF RecordRefused, Status
  <2>2. ActorsOK' /\ outbox' \in [Intents -> Doc]
    BY <1>9, <2>1, <1>e, WriteType DEF RecordRefused
  <2> QED
    BY <1>9, <1>a, <2>2 DEF RecordRefused
<1>10. ASSUME NEW a \in Actors, RecordUncertain(a)
       PROVE  Rested' /\ Calls' /\ Audited'
  <2>1. FailedDoc(seen[a], "needs_review") \in Doc /\ pc[a] # "idle"
    BY <1>10, <1>c, FailedFields DEF RecordUncertain, Status
  <2>2. ActorsOK' /\ outbox' \in [Intents -> Doc]
    BY <1>10, <2>1, <1>e, WriteType DEF RecordUncertain
  <2> QED
    BY <1>10, <1>a, <2>2 DEF RecordUncertain
<1>11. ASSUME NEW a \in Actors, Append(a)
       PROVE  Rested' /\ Calls' /\ Audited'
  <2>1. job[a] \in Intents
    BY <1>11, <1>c DEF Append
  <2>2. ActorsOK'
    BY <1>11, <2>1, <1>c, <1>e, WorkType, RestType DEF Append
  <2>3. wire' \in [Intents -> SUBSET Nat]
    BY <1>11, <1>a, <1>c, <2>1, CallType DEF Append
  <2>4. Audited'
    BY <1>11, <2>1, <1>a, <1>c DEF Append
  <2> QED
    BY <1>11, <1>a, <2>2, <2>3, <2>4 DEF Append
<1>12. ASSUME NEW a \in Actors, Crash(a)
       PROVE  Rested' /\ Calls' /\ Audited'
  BY <1>12, <1>a, RestType DEF Crash
<1>13. ASSUME NEW i \in Intents, NEW n \in wire[i], Post(i, n) \/ Lose(i, n)
       PROVE  Rested' /\ Calls' /\ Audited'
  <2>1. n \in Nat /\ [attempt |-> n, at |-> now, late |-> ~Current(i, n)] \in Message
    BY <1>a DEF Message
  <2>2. Calls'
    BY <1>13, <1>a, <2>1 DEF Post, Lose
  <2> QED
    BY <1>13, <1>a, <2>2 DEF Post, Lose, local, ActorsOK
<1>14. CASE Tick
  BY <1>14, <1>a DEF Tick, local, ActorsOK
<1>15. CASE UNCHANGED vars
  BY <1>15, <1>a DEF vars, ActorsOK
<1> QED
  BY <1>1, <1>2, <1>3, <1>4, <1>5, <1>6, <1>7, <1>8, <1>9, <1>10, <1>11,
     <1>12, <1>13, <1>14, <1>15 DEF Next

LEMMA TypeInit == Init => TypeOK
  BY NoDocType DEF Init, TypeOK, Steps

\* Every state of the outbox has its type.
THEOREM TypeCorrect == Spec => []TypeOK
  BY TypeInit, TypeStep, PTL DEF Spec
-----------------------------------------------------------------------------
(* What one step does to a document, to an actor and to Slack. *)

Kept(a) == pc'[a] = pc[a] /\ job'[a] = job[a] /\ seen'[a] = seen[a]

Still(i) == outbox'[i] = outbox[i] /\ posted'[i] = posted[i]

DocMove(i) ==
  \/ outbox'[i] = outbox[i]
  \/ outbox[i].revision = 0 /\ outbox'[i] = NewIntent
  \/ outbox[i].status = "intent" /\ outbox'[i] = ClaimedDoc(outbox[i], FALSE)
  \/ /\ Eligible(outbox[i])
     /\ \A m \in posted[i] : m.late
     /\ outbox'[i] = ClaimedDoc(outbox[i], TRUE)
  \/ /\ outbox[i].status \notin {"none", "intent", "sent"} \/ Eligible(outbox[i])
     /\ \E m \in posted[i] : outbox'[i] = SentDoc(outbox[i], m.attempt)
  \/ /\ outbox[i].status = "sending"
     /\ \E s \in {"failed", "needs_review"} : outbox'[i] = FailedDoc(outbox[i], s)

\* A call is on the wire: a worker's own claim put it there, or the audit of
\* an operator's.
CallMove(i) ==
  \/ wire'[i] \subseteq wire[i] /\ posted'[i] = posted[i]
  \/ /\ outbox[i].status = "intent" /\ outbox'[i] = ClaimedDoc(outbox[i], FALSE)
     /\ wire'[i] = wire[i] \cup {outbox'[i].attempts}
     /\ posted'[i] = posted[i]
  \/ /\ outbox'[i] = outbox[i] /\ posted'[i] = posted[i]
     /\ \E a \in Actors :
          /\ Ordering(a) /\ job[a] = i /\ pc'[a] = "awaiting"
          /\ wire'[i] = wire[i] \cup {seen[a].attempts}
          /\ [intent |-> i, status |-> "sending", attempt |-> seen[a].attempts] \in audit'
  \/ /\ outbox'[i] = outbox[i] /\ now' = now
     /\ \E n \in wire[i] :
          /\ wire'[i] = wire[i] \ {n}
          /\ posted'[i] = posted[i] \cup
               {[attempt |-> n, at |-> now, late |-> ~Current(i, n)]}

\* The actor holds the document as it now is stored.
Holds(a) == job'[a] \in Intents /\ seen'[a] = outbox'[job'[a]] /\ seen'[a].revision # 0

ActorMove(a) ==
  \/ pc'[a] = "idle"
  \/ Kept(a)
  \/ /\ Holds(a)
     /\ \/ a \in Workers /\ pc'[a] = "claim" /\ seen'[a].status = "intent"
        \/ a \in Operators /\ pc'[a] = "reconcile" /\ Eligible(seen'[a])
        \/ a \in Workers /\ pc'[a] = "awaiting" /\ seen'[a].status = "sending"
        \/ pc'[a] = "append" /\ seen'[a].status \in {"sent", "failed", "needs_review"}
        \/ /\ a \in Operators /\ pc'[a] = "append" /\ seen'[a].status = "sending"
           /\ seen'[a].attempts = outbox[job'[a]].attempts + 1
           /\ wire' = wire /\ posted' = posted
  \/ /\ job'[a] = job[a] /\ seen'[a] = seen[a]
     /\ outbox' = outbox /\ now' = now
     /\ \/ pc[a] = "append" /\ seen[a].status = "sending" /\ pc'[a] = "awaiting"
        \/ /\ a \in Operators /\ pc[a] = "reconcile" /\ pc'[a] = "claim"
           /\ Visible(job[a], seen[a]) = {}
           /\ wire' = wire /\ posted' = posted

Moves ==
  /\ \A i \in Intents : DocMove(i) /\ CallMove(i)
  /\ \A a \in Actors : ActorMove(a)
  /\ \A a, b \in Actors : Kept(a) \/ Kept(b) \/ a = b
  /\ \A i, j \in Intents : Still(i) \/ Still(j) \/ i = j
  /\ audit \subseteq audit'
  /\ now' \in Nat /\ now <= now'
  /\ now' = now \/ outbox' = outbox

\* At most one actor moves in a step.
LEMMA WorkMoves ==
  ASSUME TypeOK, NEW a \in Actors, NEW i, NEW d, NEW step, Work(a, i, d, step)
  PROVE  /\ pc'[a] = step /\ job'[a] = i /\ seen'[a] = d
         /\ \A b \in Actors : b # a => Kept(b)
  BY DEF Work, TypeOK, Kept

LEMMA RestMoves ==
  ASSUME TypeOK, NEW a \in Actors, Rest(a)
  PROVE  /\ pc'[a] = "idle"
         /\ \A b \in Actors : b # a => Kept(b)
  BY WorkMoves DEF Rest

\* An actor whose revision matches holds the document itself.
LEMMA HeldDoc ==
  ASSUME IInv, NEW a \in Actors, pc[a] # "idle"
  PROVE  /\ job[a] \in Intents /\ outbox[job[a]] \in Doc /\ seen[a] \in Doc
         /\ seen[a].revision \in Nat \ {0}
         /\ Matches(a) => seen[a] = outbox[job[a]]
<1>1. job[a] \in Intents /\ outbox[job[a]] \in Doc /\ seen[a] \in Doc
  BY DEF IInv, TypeOK
<1>2. SeenOK(a)
  BY DEF IInv, ActorsInv
<1>3. seen[a].revision \in Nat /\ 0 < seen[a].revision
  BY <1>1, <1>2 DEF SeenOK, Doc
<1>4. Matches(a) => seen[a] = outbox[job[a]]
  BY <1>2 DEF SeenOK, Matches
<1> QED
  BY <1>1, <1>3, <1>4

\* A compare-and-set writes over the document the actor holds, or nothing.
LEMMA WriteMoves ==
  ASSUME IInv, NEW a \in Actors, pc[a] # "idle", NEW d, NEW step,
         Write(a, d, step) \/ GiveUp(a)
  PROVE  /\ \A b \in Actors : b # a => Kept(b)
         /\ \A i \in Intents : i # job[a] => outbox'[i] = outbox[i]
         /\ \/ GiveUp(a) /\ pc'[a] = "idle" /\ outbox' = outbox
            \/ /\ seen[a] = outbox[job[a]] /\ outbox'[job[a]] = d
               /\ pc'[a] = step
               /\ step # "idle" => job'[a] = job[a] /\ seen'[a] = d
<1>0. TypeOK /\ outbox \in [Intents -> Doc]
  BY DEF IInv, TypeOK
<1>1. CASE GiveUp(a)
  BY <1>0, <1>1, RestMoves DEF GiveUp
<1>2. CASE Write(a, d, step)
  <2>1. /\ seen[a] = outbox[job[a]] /\ job[a] \in Intents
        /\ outbox' = [outbox EXCEPT ![job[a]] = d]
    BY <1>2, HeldDoc DEF Write
  <2>2. /\ outbox'[job[a]] = d
        /\ \A i \in Intents : i # job[a] => outbox'[i] = outbox[i]
    BY <2>1, <1>0
  <2>3. CASE step = "idle"
    <3>1. Rest(a)
      BY <1>2, <2>3 DEF Write
    <3> QED
      BY <1>0, <2>1, <2>2, <2>3, <3>1, RestMoves
  <2>4. CASE step # "idle"
    <3>1. Work(a, job[a], d, step)
      BY <1>2, <2>4 DEF Write
    <3> QED
      BY <1>0, <2>1, <2>2, <2>4, <3>1, WorkMoves
  <2> QED
    BY <2>3, <2>4
<1> QED
  BY <1>1, <1>2

LEMMA CreateOrLoadMoves ==
  ASSUME IInv, NEW w \in Workers, NEW i \in Intents, CreateOrLoad(w, i) PROVE Moves
<1> DEFINE d == IF outbox[i].revision = 0 THEN NewIntent ELSE outbox[i]
<1>0. TypeOK /\ now \in Nat /\ outbox \in [Intents -> Doc] /\ w \in Actors
  BY DEF IInv, TypeOK, Actors
<1>1. /\ outbox' = [outbox EXCEPT ![i] = d] /\ d.status = "intent"
      /\ UNCHANGED <<now, wire, posted, audit>>
      /\ Work(w, i, d, "claim")
  BY DEF CreateOrLoad
<1>2. d.revision # 0
  BY DEF NewIntent, NoDoc
<1>3. /\ pc'[w] = "claim" /\ job'[w] = i /\ seen'[w] = d
      /\ \A b \in Actors : b # w => Kept(b)
  BY <1>0, <1>1, WorkMoves
<1>4. outbox'[i] = d /\ \A j \in Intents : j # i => outbox'[j] = outbox[j]
  BY <1>0, <1>1
<1>5. \A j \in Intents : DocMove(j)
  BY <1>4 DEF DocMove
<1>6. \A j \in Intents : CallMove(j)
  BY <1>1 DEF CallMove
<1>7. ActorMove(w)
  BY <1>1, <1>2, <1>3, <1>4 DEF ActorMove, Holds
<1> QED
  BY <1>0, <1>1, <1>3, <1>5, <1>6, <1>7 DEF Moves, Still, ActorMove

LEMMA ClaimAndSendMoves ==
  ASSUME IInv, NEW w \in Workers, ClaimAndSend(w) PROVE Moves
<1> DEFINE d == ClaimedDoc(seen[w], FALSE)
<1>0. /\ TypeOK /\ now \in Nat /\ w \in Actors /\ StepOK(w) /\ pc[w] = "claim"
      /\ wire \in [Intents -> SUBSET Nat]
  BY DEF IInv, TypeOK, Actors, ClaimAndSend, ActorsInv
<1>1. /\ \/ Write(w, d, "awaiting") /\ Call(job[w], d.attempts)
         \/ GiveUp(w) /\ UNCHANGED wire
      /\ UNCHANGED <<now, posted, audit>>
  BY DEF ClaimAndSend
<1>2. job[w] \in Intents /\ seen[w] \in Doc
  BY <1>0, HeldDoc
<1>3. d \in Doc /\ d.status = "sending" /\ d.revision = seen[w].revision + 1
  BY <1>0, <1>2, ClaimedFields
<1>4. seen[w].status = "intent"
  BY <1>0 DEF StepOK
<1> HIDE DEF d
<1>a. d.revision # 0
  BY <1>2, <1>3 DEF Doc
<1>5. /\ \A b \in Actors : b # w => Kept(b)
      /\ \A i \in Intents : i # job[w] => outbox'[i] = outbox[i]
      /\ \/ GiveUp(w) /\ pc'[w] = "idle" /\ outbox' = outbox
         \/ /\ seen[w] = outbox[job[w]] /\ outbox'[job[w]] = d
            /\ pc'[w] = "awaiting" /\ job'[w] = job[w] /\ seen'[w] = d
  <2>1. Write(w, d, "awaiting") \/ GiveUp(w)
    BY <1>1
  <2> QED
    BY <1>0, <2>1, WriteMoves, "idle" # "awaiting"
<1>6. ASSUME GiveUp(w) /\ UNCHANGED wire PROVE Moves
  <2>1. pc'[w] = "idle" /\ outbox' = outbox
    BY <1>0, <1>6 DEF GiveUp, Rest, Work, TypeOK
  <2> QED
    BY <1>0, <1>1, <1>5, <1>6, <2>1 DEF Moves, Still, DocMove, CallMove, ActorMove
<1>7. ASSUME Write(w, d, "awaiting"), Call(job[w], d.attempts) PROVE Moves
  <2>1. /\ seen[w] = outbox[job[w]] /\ outbox'[job[w]] = d
        /\ pc'[w] = "awaiting" /\ job'[w] = job[w] /\ seen'[w] = d
    BY <1>5, <1>7 DEF Write, GiveUp
  <2>2. \A i \in Intents : DocMove(i)
    BY <1>4, <1>5, <2>1 DEF DocMove, d
  <2>3. /\ wire'[job[w]] = wire[job[w]] \cup {d.attempts}
        /\ \A i \in Intents : i # job[w] => wire'[i] = wire[i]
    BY <1>0, <1>2, <1>7 DEF Call
  <2>4. \A i \in Intents : CallMove(i)
    <3>1. CallMove(job[w])
      BY <1>1, <1>4, <2>1, <2>3 DEF CallMove, d
    <3>2. \A i \in Intents : i # job[w] => CallMove(i)
      BY <1>1, <2>3 DEF CallMove
    <3> QED
      BY <3>1, <3>2
  <2>5. ActorMove(w)
    BY <1>2, <1>3, <1>a, <2>1 DEF ActorMove, Holds
  <2> QED
    BY <1>0, <1>1, <1>5, <2>2, <2>4, <2>5 DEF Moves, Still, ActorMove
<1> QED
  BY <1>1, <1>6, <1>7

LEMMA AssessMoves ==
  ASSUME IInv, NEW o \in Operators, NEW i \in Intents, Assess(o, i) PROVE Moves
<1>0. TypeOK /\ now \in Nat /\ o \in Actors /\ outbox[i] \in Doc /\ DocOK(i)
  BY DEF IInv, TypeOK, Actors, IntentsInv
<1>1. /\ Eligible(outbox[i]) /\ Work(o, i, outbox[i], "reconcile")
      /\ UNCHANGED <<now, outbox, wire, posted, audit>>
  BY DEF Assess
<1>2. outbox[i].revision # 0
  BY <1>0, <1>1 DEF Eligible, DocOK, NoDoc
<1>3. /\ pc'[o] = "reconcile" /\ job'[o] = i /\ seen'[o] = outbox[i]
      /\ \A b \in Actors : b # o => Kept(b)
  BY <1>0, <1>1, WorkMoves
<1>4. Eligible(seen'[o])
  BY <1>1, <1>3
<1>5. ActorMove(o)
  BY <1>1, <1>2, <1>3, <1>4 DEF ActorMove, Holds
<1> QED
  BY <1>0, <1>1, <1>3, <1>5 DEF Moves, Still, DocMove, CallMove, ActorMove

\* A step that changes only documents, by a compare-and-set of an actor who
\* comes to rest or to the audit of a result.
LEMMA ResultMoves ==
  ASSUME IInv, NEW a \in Actors, pc[a] # "idle", NEW d \in Doc, NEW step,
         Write(a, d, step) \/ GiveUp(a),
         step \in {"idle", "append"},
         step = "append" => d.status \in {"sent", "failed", "needs_review"},
         d.revision # 0,
         seen[a] = outbox[job[a]] /\ outbox'[job[a]] = d => DocMove(job[a]),
         now' = now, audit' = audit,
         \A i \in Intents : wire'[i] \subseteq wire[i] /\ posted'[i] = posted[i]
  PROVE  Moves
<1>0. TypeOK /\ now \in Nat /\ job[a] \in Intents
  BY HeldDoc DEF IInv, TypeOK
<1>1. /\ \A b \in Actors : b # a => Kept(b)
      /\ \A i \in Intents : i # job[a] => outbox'[i] = outbox[i]
      /\ \/ pc'[a] = "idle" /\ outbox' = outbox
         \/ /\ seen[a] = outbox[job[a]] /\ outbox'[job[a]] = d
            /\ pc'[a] = step
            /\ step # "idle" => job'[a] = job[a] /\ seen'[a] = d
  BY WriteMoves
<1>2. \A i \in Intents : DocMove(i)
  <2>1. DocMove(job[a])
    BY <1>0, <1>1 DEF DocMove
  <2>2. \A i \in Intents : i # job[a] => DocMove(i)
    BY <1>1 DEF DocMove
  <2> QED
    BY <2>1, <2>2
<1>3. ActorMove(a)
  BY <1>0, <1>1 DEF ActorMove, Holds
<1>4. \A i \in Intents : CallMove(i)
  BY DEF CallMove
<1> QED
  BY <1>0, <1>1, <1>2, <1>3, <1>4 DEF Moves, Still, ActorMove

LEMMA RecordExistingMoves ==
  ASSUME IInv, NEW o \in Operators, RecordExisting(o) PROVE Moves
<1>0. /\ o \in Actors /\ pc[o] = "reconcile" /\ now \in Nat /\ StepOK(o)
      /\ posted \in [Intents -> SUBSET Message]
  BY DEF IInv, TypeOK, Actors, RecordExisting, ActorsInv
<1>1. PICK m \in Visible(job[o], seen[o]) :
        Write(o, SentDoc(seen[o], m.attempt), "append") \/ GiveUp(o)
  BY DEF RecordExisting
<1>2. /\ job[o] \in Intents /\ seen[o] \in Doc /\ Eligible(seen[o])
      /\ m \in posted[job[o]] /\ m.attempt \in Nat
  BY <1>0, <1>1, HeldDoc DEF StepOK, Visible, Message
<1> DEFINE d == SentDoc(seen[o], m.attempt)
<1>3. d \in Doc /\ d.status = "sent" /\ d.revision = seen[o].revision + 1
  BY <1>0, <1>2, SentFields
<1>4. seen[o] = outbox[job[o]] /\ outbox'[job[o]] = d => DocMove(job[o])
  BY <1>2 DEF DocMove
<1>5. Write(o, d, "append") \/ GiveUp(o)
  BY <1>1
<1>6. UNCHANGED <<now, wire, posted, audit>>
  BY DEF RecordExisting
<1> HIDE DEF d
<1>7. d.revision # 0
  BY <1>2, <1>3 DEF Doc
<1> QED
  BY <1>0, <1>3, <1>4, <1>5, <1>6, <1>7, ResultMoves

LEMMA ScanFindsNothingMoves ==
  ASSUME IInv, NEW o \in Operators, ScanFindsNothing(o) PROVE Moves
<1>0. TypeOK /\ now \in Nat /\ o \in Actors
  BY DEF IInv, TypeOK, Actors
<1>1. /\ pc[o] = "reconcile" /\ Visible(job[o], seen[o]) = {}
      /\ Work(o, job[o], seen[o], "claim")
      /\ UNCHANGED <<now, outbox, wire, posted, audit>>
  BY DEF ScanFindsNothing
<1>2. /\ pc'[o] = "claim" /\ job'[o] = job[o] /\ seen'[o] = seen[o]
      /\ \A b \in Actors : b # o => Kept(b)
  BY <1>0, <1>1, WorkMoves
<1>3. ActorMove(o)
  BY <1>1, <1>2 DEF ActorMove
<1> QED
  BY <1>0, <1>1, <1>2, <1>3 DEF Moves, Still, DocMove, CallMove, ActorMove

\* A step in which an actor drops what it was doing.
LEMMA RestingMoves ==
  ASSUME IInv, NEW a \in Actors, Rest(a), UNCHANGED <<now, outbox, wire, posted, audit>>
  PROVE  Moves
<1>1. TypeOK /\ now \in Nat
  BY DEF IInv, TypeOK
<1>2. pc'[a] = "idle" /\ \A b \in Actors : b # a => Kept(b)
  BY <1>1, RestMoves
<1> QED
  BY <1>1, <1>2 DEF Moves, Still, DocMove, CallMove, ActorMove

LEMMA ReplayClaimMoves ==
  ASSUME IInv, NEW o \in Operators, ReplayClaim(o) PROVE Moves
<1> DEFINE d == ClaimedDoc(seen[o], TRUE)
<1>0. /\ o \in Actors /\ pc[o] = "claim" /\ now \in Nat /\ StepOK(o) /\ ScanOK(o)
      /\ Write(o, d, "append") \/ GiveUp(o)
      /\ UNCHANGED <<now, wire, posted, audit>>
  BY DEF IInv, TypeOK, Actors, ReplayClaim, ActorsInv
<1>1. job[o] \in Intents /\ seen[o] \in Doc /\ Eligible(seen[o])
  BY <1>0, HeldDoc DEF StepOK
<1>2. /\ d \in Doc /\ d.status = "sending" /\ d.revision = seen[o].revision + 1
      /\ d.attempts = seen[o].attempts + 1
  BY <1>0, <1>1, ClaimedFields
<1>3. seen[o] = outbox[job[o]] => \A m \in posted[job[o]] : m.late
  BY <1>0 DEF ScanOK, Matches
<1>4. seen[o] = outbox[job[o]] /\ outbox'[job[o]] = d => DocMove(job[o])
  BY <1>1, <1>3 DEF DocMove
<1> HIDE DEF d
<1>5. d.revision # 0
  BY <1>1, <1>2 DEF Doc
<1>6. /\ \A b \in Actors : b # o => Kept(b)
      /\ \A i \in Intents : i # job[o] => outbox'[i] = outbox[i]
      /\ \/ pc'[o] = "idle" /\ outbox' = outbox
         \/ /\ seen[o] = outbox[job[o]] /\ outbox'[job[o]] = d
            /\ pc'[o] = "append" /\ job'[o] = job[o] /\ seen'[o] = d
  BY <1>0, WriteMoves, "idle" # "append"
<1>7. \A i \in Intents : DocMove(i)
  <2>1. DocMove(job[o])
    BY <1>1, <1>4, <1>6 DEF DocMove
  <2>2. \A i \in Intents : i # job[o] => DocMove(i)
    BY <1>6 DEF DocMove
  <2> QED
    BY <2>1, <2>2
<1>8. ActorMove(o)
  BY <1>0, <1>1, <1>2, <1>5, <1>6 DEF ActorMove, Holds
<1> QED
  BY <1>0, <1>6, <1>7, <1>8 DEF Moves, Still, CallMove, ActorMove

LEMMA RecordSentMoves ==
  ASSUME IInv, NEW a \in Actors, RecordSent(a) PROVE Moves
<1> DEFINE d == SentDoc(seen[a], seen[a].attempts)
           step == IF a \in Operators THEN "append" ELSE "idle"
<1>0. /\ pc[a] = "awaiting" /\ now \in Nat /\ StepOK(a)
      /\ Write(a, d, step) \/ GiveUp(a)
      /\ UNCHANGED <<now, wire, posted, audit>>
  BY DEF IInv, TypeOK, RecordSent, ActorsInv
<1>1. PICK m \in posted[job[a]] : m.attempt = seen[a].attempts
  BY DEF RecordSent
<1>2. seen[a] \in Doc /\ seen[a].attempts \in Nat /\ seen[a].status = "sending"
  BY <1>0, HeldDoc DEF StepOK, Doc
<1>3. d \in Doc /\ d.status = "sent" /\ d.revision = seen[a].revision + 1
  BY <1>0, <1>2, SentFields
<1>4. seen[a] = outbox[job[a]] /\ outbox'[job[a]] = d => DocMove(job[a])
  BY <1>1, <1>2 DEF DocMove
<1> HIDE DEF d
<1>5. d.revision # 0
  BY <1>2, <1>3 DEF Doc
<1> QED
  BY <1>0, <1>3, <1>4, <1>5, ResultMoves

LEMMA RecordFailureMoves ==
  ASSUME IInv, NEW a \in Actors, RecordRefused(a) \/ RecordUncertain(a) PROVE Moves
<1>0. /\ pc[a] = "awaiting" /\ now \in Nat /\ StepOK(a) /\ job[a] \in Intents
      /\ wire \in [Intents -> SUBSET Nat]
  BY HeldDoc DEF IInv, TypeOK, RecordRefused, RecordUncertain, ActorsInv
<1>1. PICK s \in {"failed", "needs_review"} :
        Write(a, FailedDoc(seen[a], s), "append") \/ GiveUp(a)
  BY DEF RecordRefused, RecordUncertain
<1> DEFINE d == FailedDoc(seen[a], s)
<1>2. /\ now' = now /\ audit' = audit
      /\ \A i \in Intents : wire'[i] \subseteq wire[i] /\ posted'[i] = posted[i]
  BY <1>0 DEF RecordRefused, RecordUncertain
<1>3. seen[a] \in Doc /\ seen[a].status = "sending"
  BY <1>0, HeldDoc DEF StepOK
<1>4. d \in Doc /\ d.status = s /\ d.revision = seen[a].revision + 1
  BY <1>0, <1>3, FailedFields DEF Status
<1>5. seen[a] = outbox[job[a]] /\ outbox'[job[a]] = d => DocMove(job[a])
  BY <1>3 DEF DocMove
<1>6. Write(a, d, "append") \/ GiveUp(a)
  BY <1>1
<1> HIDE DEF d
<1>7. d.revision # 0
  BY <1>3, <1>4 DEF Doc
<1> QED
  BY <1>0, <1>2, <1>4, <1>5, <1>6, <1>7, ResultMoves

LEMMA AppendMoves ==
  ASSUME IInv, NEW a \in Actors, Append(a) PROVE Moves
<1>0. /\ TypeOK /\ now \in Nat /\ pc[a] = "append" /\ job[a] \in Intents
      /\ UNCHANGED <<now, outbox, posted>>
      /\ wire \in [Intents -> SUBSET Nat]
  BY HeldDoc DEF IInv, TypeOK, Append
<1>1. /\ audit \subseteq audit'
      /\ [intent |-> job[a], status |-> seen[a].status, attempt |-> seen[a].attempts]
           \in audit'
  BY DEF Append
<1>2. CASE seen[a].status = "sending"
  <2>1. Call(job[a], seen[a].attempts) /\ Work(a, job[a], seen[a], "awaiting")
    BY <1>2 DEF Append
  <2>2. /\ pc'[a] = "awaiting" /\ job'[a] = job[a] /\ seen'[a] = seen[a]
        /\ \A b \in Actors : b # a => Kept(b)
    BY <1>0, <2>1, WorkMoves
  <2>3. /\ wire'[job[a]] = wire[job[a]] \cup {seen[a].attempts}
        /\ \A i \in Intents : i # job[a] => wire'[i] = wire[i]
    BY <1>0, <2>1 DEF Call
  <2>4. Ordering(a)
    BY <1>0, <1>2 DEF Ordering
  <2>5. CallMove(job[a])
    BY <1>0, <1>1, <1>2, <2>2, <2>3, <2>4 DEF CallMove
  <2>6. \A i \in Intents : i # job[a] => CallMove(i)
    BY <1>0, <2>3 DEF CallMove
  <2>7. ActorMove(a)
    BY <1>0, <1>2, <2>2 DEF ActorMove
  <2> QED
    BY <1>0, <1>1, <2>2, <2>5, <2>6, <2>7 DEF Moves, Still, DocMove, ActorMove
<1>3. CASE seen[a].status # "sending"
  <2>1. Rest(a) /\ wire' = wire
    BY <1>3 DEF Append
  <2>2. pc'[a] = "idle" /\ \A b \in Actors : b # a => Kept(b)
    BY <1>0, <2>1, RestMoves
  <2> QED
    BY <1>0, <1>1, <2>1, <2>2 DEF Moves, Still, DocMove, CallMove, ActorMove
<1> QED
  BY <1>2, <1>3

LEMMA SlackMoves ==
  ASSUME IInv, NEW i \in Intents, NEW n \in wire[i], Post(i, n) \/ Lose(i, n)
  PROVE  Moves
<1>0. /\ now \in Nat /\ UNCHANGED <<now, outbox, audit, pc, job, seen>>
      /\ wire \in [Intents -> SUBSET Nat] /\ posted \in [Intents -> SUBSET Message]
  BY DEF IInv, TypeOK, Post, Lose, local
<1>1. CallMove(i)
  BY <1>0 DEF CallMove, Post, Lose
<1>2. \A j \in Intents : j # i => CallMove(j) /\ Still(j)
  BY <1>0 DEF CallMove, Post, Lose, Still
<1> QED
  BY <1>0, <1>1, <1>2 DEF Moves, Still, DocMove, ActorMove, Kept

LEMMA MovesStep == ASSUME IInv, [Next]_vars PROVE Moves
<1>1. now \in Nat
  BY DEF IInv, TypeOK
<1>2. CASE Tick
  BY <1>1, <1>2 DEF Tick, local, Moves, Still, DocMove, CallMove, ActorMove, Kept
<1>3. CASE UNCHANGED vars
  BY <1>1, <1>3 DEF vars, Moves, Still, DocMove, CallMove, ActorMove, Kept
<1>4. ASSUME NEW a \in Actors, Crash(a) PROVE Moves
  BY <1>4, RestingMoves DEF Crash
<1>5. ASSUME NEW o \in Operators, ScanBlocked(o) PROVE Moves
  BY <1>5, RestingMoves DEF ScanBlocked, Actors
<1> QED
  BY <1>2, <1>3, <1>4, <1>5, CreateOrLoadMoves, ClaimAndSendMoves, AssessMoves,
     RecordExistingMoves, ScanFindsNothingMoves, ReplayClaimMoves, RecordSentMoves,
     RecordFailureMoves, AppendMoves, SlackMoves DEF Next

-----------------------------------------------------------------------------
(* Every move preserves the invariant. *)

\* The fields of a document after a step, by the way it was written.
Written(i) == LET d == outbox[i]  e == outbox'[i] IN
  /\ e.revision = d.revision + 1 /\ e.updatedAt = now
  /\ \/ /\ d.revision = 0 /\ e.status = "intent"
        /\ e.attempts = 0 /\ e.replays = 0 /\ e.startedAt = 0
     \/ /\ e.status = "sending" /\ e.attempts = d.attempts + 1 /\ e.startedAt = now
        /\ \/ d.status = "intent" /\ e.replays = d.replays
           \/ /\ Eligible(d) /\ e.replays = d.replays + 1
              /\ \A m \in posted[i] : m.late
     \/ /\ d.status \notin {"none", "sent"}
        /\ d.status = "intent" => posted[i] # {}
        /\ e.attempts = d.attempts /\ e.replays = d.replays /\ e.startedAt = d.startedAt
        /\ \/ e.status \in {"failed", "needs_review"}
           \/ e.status = "sent" /\ \E m \in posted[i] : m.attempt = e.ts

LEMMA DocGrows ==
  ASSUME IInv, Moves, NEW i \in Intents
  PROVE  /\ outbox[i] \in Doc /\ outbox'[i] \in Doc
         /\ \/ outbox'[i] = outbox[i]
            \/ Written(i) /\ now' = now
<1> DEFINE d == outbox[i]
<1>0. /\ d \in Doc /\ now \in Nat /\ DocMove(i) /\ DocOK(i)
      /\ posted \in [Intents -> SUBSET Message]
      /\ outbox'[i] = outbox[i] \/ now' = now
  BY DEF IInv, TypeOK, Moves, IntentsInv
<1>1. CASE outbox'[i] = d
  BY <1>0, <1>1
<1>2. CASE d.revision = 0 /\ outbox'[i] = NewIntent
  <2>1. NewIntent \in Doc
    BY <1>0, NewIntentType
  <2> QED
    BY <1>0, <1>2, <2>1 DEF Written, NewIntent, NoDoc, Doc
<1>3. CASE d.status = "intent" /\ outbox'[i] = ClaimedDoc(d, FALSE)
  <2>1. /\ ClaimedDoc(d, FALSE) \in Doc
        /\ ClaimedDoc(d, FALSE).revision = d.revision + 1
        /\ ClaimedDoc(d, FALSE).status = "sending"
        /\ ClaimedDoc(d, FALSE).attempts = d.attempts + 1
        /\ ClaimedDoc(d, FALSE).replays = d.replays
        /\ ClaimedDoc(d, FALSE).updatedAt = now
        /\ ClaimedDoc(d, FALSE).startedAt = now
    BY <1>0, ClaimedFields
  <2> QED
    BY <1>0, <1>3, <2>1 DEF Written
<1>4. CASE /\ Eligible(d) /\ \A m \in posted[i] : m.late
           /\ outbox'[i] = ClaimedDoc(d, TRUE)
  <2>1. /\ ClaimedDoc(d, TRUE) \in Doc
        /\ ClaimedDoc(d, TRUE).revision = d.revision + 1
        /\ ClaimedDoc(d, TRUE).status = "sending"
        /\ ClaimedDoc(d, TRUE).attempts = d.attempts + 1
        /\ ClaimedDoc(d, TRUE).replays = d.replays + 1
        /\ ClaimedDoc(d, TRUE).updatedAt = now
        /\ ClaimedDoc(d, TRUE).startedAt = now
    BY <1>0, ClaimedFields
  <2> QED
    BY <1>0, <1>4, <2>1 DEF Written
<1>5. ASSUME d.status \notin {"none", "intent", "sent"} \/ Eligible(d),
             NEW m \in posted[i], outbox'[i] = SentDoc(d, m.attempt)
      PROVE  outbox'[i] \in Doc /\ Written(i)
  <2>0. m.attempt \in Nat
    BY <1>0 DEF Message
  <2>1. /\ SentDoc(d, m.attempt) \in Doc
        /\ SentDoc(d, m.attempt).revision = d.revision + 1
        /\ SentDoc(d, m.attempt).status = "sent"
        /\ SentDoc(d, m.attempt).attempts = d.attempts
        /\ SentDoc(d, m.attempt).replays = d.replays
        /\ SentDoc(d, m.attempt).updatedAt = now
        /\ SentDoc(d, m.attempt).startedAt = d.startedAt
        /\ SentDoc(d, m.attempt).ts = m.attempt
    BY <1>0, <2>0, SentFields
  <2>2. d.status # "sent" /\ d.status # "none"
    BY <1>5 DEF Eligible
  <2> QED
    BY <1>0, <1>5, <2>1, <2>2 DEF Written
<1>6. ASSUME d.status = "sending", NEW s \in {"failed", "needs_review"},
             outbox'[i] = FailedDoc(d, s)
      PROVE  outbox'[i] \in Doc /\ Written(i)
  <2>1. /\ FailedDoc(d, s) \in Doc
        /\ FailedDoc(d, s).revision = d.revision + 1
        /\ FailedDoc(d, s).status = s
        /\ FailedDoc(d, s).attempts = d.attempts
        /\ FailedDoc(d, s).replays = d.replays
        /\ FailedDoc(d, s).updatedAt = now
        /\ FailedDoc(d, s).startedAt = d.startedAt
    BY <1>0, FailedFields DEF Status
  <2> QED
    BY <1>0, <1>6, <2>1 DEF Written
<1> QED
  BY <1>0, <1>1, <1>2, <1>3, <1>4, <1>5, <1>6 DEF DocMove

\* An intent with no claim has no message, so an unclaimed document is never
\* recorded as sent.
LEMMA Unclaimed ==
  ASSUME IInv, NEW i \in Intents, outbox[i].attempts = 0
  PROVE  Called(i) = {}
<1>1. CallOK(i) /\ outbox[i] \in Doc
  BY DEF IInv, IntentsInv, TypeOK
<1>2. ASSUME NEW n \in Called(i) PROVE FALSE
  <2>1. n # 0 /\ n <= 0
    BY <1>1 DEF CallOK
  <2>2. n \in Nat
    BY DEF Called, IInv, TypeOK, Message
  <2> QED
    BY <2>1, <2>2
<1> QED
  BY <1>2

LEMMA AttemptsGrow ==
  ASSUME IInv, Moves, NEW i \in Intents
  PROVE  /\ outbox[i].attempts \in Nat /\ outbox'[i].attempts \in Nat
         /\ outbox[i].attempts <= outbox'[i].attempts
<1>1. outbox[i].attempts \in Nat /\ outbox'[i].attempts \in Nat /\ DocOK(i)
  BY DocGrows DEF IInv, IntentsInv, Doc
<1> QED
  BY <1>1, DocGrows DEF Written, DocOK, NoDoc

LEMMA DocOKStep == ASSUME IInv, Moves, NEW i \in Intents PROVE DocOK(i)'
<1> DEFINE d == outbox[i]
           e == outbox'[i]
<1>0. d \in Doc /\ e \in Doc /\ DocOK(i) /\ now \in Nat /\ now' \in Nat /\ now <= now'
  BY DocGrows DEF IInv, IntentsInv, TypeOK, Moves
<1>a. /\ d.revision \in Nat /\ d.attempts \in Nat /\ d.replays \in Nat
      /\ d.updatedAt \in Nat /\ d.startedAt \in Nat
      /\ e.revision \in Nat /\ e.attempts \in Nat /\ e.replays \in Nat
      /\ e.updatedAt \in Nat /\ e.startedAt \in Nat
  BY <1>0 DEF Doc
<1>1. CASE e = d
  BY <1>0, <1>a, <1>1 DEF DocOK
<1>2. CASE Written(i) /\ now' = now
  <2>1. posted[i] # {} => d.attempts # 0
    BY Unclaimed DEF Called
  <2> QED
    BY <1>0, <1>a, <1>2, <2>1 DEF DocOK, Written
<1> QED
  BY <1>1, <1>2, DocGrows

\* A call's number is that of a claim already made or made in this step.
LEMMA CalledStep ==
  ASSUME IInv, Moves, NEW i \in Intents
  PROVE  /\ \A n \in Called(i)' :
              \/ n \in Called(i)
              \/ /\ n = outbox[i].attempts + 1 /\ n = outbox'[i].attempts
                 /\ outbox[i].status = "intent" /\ outbox'[i].replays = outbox[i].replays
              \/ \E a \in Actors : /\ Ordering(a) /\ job[a] = i /\ pc'[a] = "awaiting"
                                   /\ n = seen[a].attempts
                                   /\ [intent |-> i, status |-> "sending", attempt |-> n] \in audit'
         /\ \A m \in posted[i] : m \in posted'[i]
<1>0. CallMove(i) /\ wire \in [Intents -> SUBSET Nat] /\ outbox[i] \in Doc /\ now \in Nat
  BY DEF Moves, Still, IInv, TypeOK
<1>1. CASE wire'[i] \subseteq wire[i] /\ posted'[i] = posted[i]
  BY <1>1 DEF Called
<1>2. CASE /\ outbox[i].status = "intent" /\ outbox'[i] = ClaimedDoc(outbox[i], FALSE)
           /\ wire'[i] = wire[i] \cup {outbox'[i].attempts}
           /\ posted'[i] = posted[i]
  <2>1. /\ outbox'[i].attempts = outbox[i].attempts + 1
        /\ outbox'[i].replays = outbox[i].replays
    BY <1>0, <1>2, ClaimedFields
  <2> QED
    BY <1>2, <2>1 DEF Called
<1>3. ASSUME posted'[i] = posted[i],
             NEW a \in Actors, Ordering(a), job[a] = i, pc'[a] = "awaiting",
             wire'[i] = wire[i] \cup {seen[a].attempts},
             [intent |-> i, status |-> "sending", attempt |-> seen[a].attempts] \in audit'
      PROVE  /\ \A n \in Called(i)' :
                  n \in Called(i) \/ n = seen[a].attempts
             /\ \A m \in posted[i] : m \in posted'[i]
  BY <1>3 DEF Called
<1>4. ASSUME NEW n \in wire[i], wire'[i] = wire[i] \ {n},
             posted'[i] = posted[i] \cup
               {[attempt |-> n, at |-> now, late |-> ~Current(i, n)]}
      PROVE  /\ \A k \in Called(i)' : k \in Called(i)
             /\ \A m \in posted[i] : m \in posted'[i]
  BY <1>4 DEF Called
<1> QED
  BY <1>0, <1>1, <1>2, <1>3, <1>4 DEF CallMove

LEMMA SeenOKStep ==
  ASSUME IInv, Moves, TypeOK', NEW a \in Actors PROVE SeenOK(a)'
<1>1. ActorMove(a) /\ SeenOK(a)
  BY DEF IInv, ActorsInv, Moves
<1>2. CASE pc'[a] = "idle"
  BY <1>2 DEF SeenOK
<1>3. CASE Holds(a)
  <2>1. seen'[a] = outbox'[job'[a]] /\ seen'[a] \in Doc /\ seen'[a].revision # 0
    BY <1>3 DEF Holds, TypeOK
  <2>2. seen'[a].revision \in Nat /\ seen'[a].attempts \in Nat
    BY <2>1 DEF Doc
  <2> QED
    BY <2>1, <2>2 DEF SeenOK
<1>4. CASE pc[a] # "idle" /\ job'[a] = job[a] /\ seen'[a] = seen[a]
  <2>1. /\ job[a] \in Intents /\ seen[a] \in Doc
        /\ outbox[job[a]] \in Doc /\ outbox'[job[a]] \in Doc
        /\ \/ outbox'[job[a]] = outbox[job[a]]
           \/ Written(job[a])
    BY <1>4, HeldDoc, DocGrows
  <2>2. /\ seen[a].revision \in Nat /\ seen[a].attempts \in Nat
        /\ outbox[job[a]].revision \in Nat /\ outbox[job[a]].attempts \in Nat
        /\ outbox'[job[a]].revision \in Nat /\ outbox'[job[a]].attempts \in Nat
    BY <2>1 DEF Doc
  <2>3. CASE outbox'[job[a]] = outbox[job[a]]
    BY <1>1, <1>4, <2>3 DEF SeenOK
  <2>4. CASE Written(job[a])
    <3>1. outbox'[job[a]].revision = outbox[job[a]].revision + 1
      BY <2>4 DEF Written
    <3>2. outbox[job[a]].attempts <= outbox'[job[a]].attempts
      BY <2>1, AttemptsGrow
    <3> QED
      BY <1>1, <1>4, <2>2, <3>1, <3>2 DEF SeenOK
  <2> QED
    BY <2>1, <2>3, <2>4
<1> QED
  BY <1>1, <1>2, <1>3, <1>4 DEF ActorMove, Kept

LEMMA StepOKStep ==
  ASSUME IInv, Moves, NEW a \in Actors PROVE StepOK(a)'
<1>0. /\ ActorMove(a) /\ StepOK(a) /\ Workers \cap Operators = {}
      /\ now \in Nat /\ now' \in Nat /\ now <= now' /\ StaleAfter \in Nat
  BY OutboxAssumption DEF IInv, ActorsInv, Moves, TypeOK
<1>1. CASE pc'[a] = "idle"
  BY <1>1 DEF StepOK
<1>2. ASSUME pc[a] # "idle", seen'[a] = seen[a], Eligible(seen[a]) PROVE Eligible(seen[a])'
  <2>1. seen[a].updatedAt \in Nat
    BY <1>2, HeldDoc DEF Doc
  <2> QED
    BY <1>0, <1>2, <2>1 DEF Eligible, Stale
<1>3. CASE Kept(a)
  BY <1>0, <1>2, <1>3 DEF Kept, StepOK
<1>4. CASE Holds(a)
  <2>1. Eligible(seen'[a]) => Eligible(seen[a])'
    <3>1. seen'[a] = outbox'[job'[a]] /\ job'[a] \in Intents
      BY <1>4 DEF Holds
    <3>2. seen'[a].updatedAt \in Nat
      BY <3>1, DocGrows DEF Doc
    <3> QED
      BY <1>0, <3>2 DEF Eligible, Stale
  <2> QED
    BY <1>0, <1>1, <1>3, <1>4, <2>1 DEF ActorMove, StepOK
<1>5. CASE /\ job'[a] = job[a] /\ seen'[a] = seen[a]
           /\ \/ pc[a] = "append" /\ seen[a].status = "sending" /\ pc'[a] = "awaiting"
              \/ a \in Operators /\ pc[a] = "reconcile" /\ pc'[a] = "claim"
  BY <1>0, <1>2, <1>5 DEF StepOK
<1> QED
  BY <1>0, <1>1, <1>3, <1>4, <1>5 DEF ActorMove

\* A claim that waits for its audit, after a step: it waited before it, or an
\* operator has just made it, with a number no call and no other claim has.
LEMMA OrderingStep ==
  ASSUME IInv, Moves, NEW a \in Actors, Ordering(a)'
  PROVE  /\ job'[a] \in Intents
         /\ \/ Kept(a) /\ Ordering(a)
            \/ /\ ~Kept(a) /\ a \in Operators
               /\ seen'[a].attempts = outbox[job'[a]].attempts + 1
               /\ wire' = wire /\ posted' = posted
<1>1. ActorMove(a) /\ pc'[a] = "append" /\ seen'[a].status = "sending"
  BY DEF Moves, Still, Ordering
<1>2. CASE Kept(a)
  <2>1. pc[a] # "idle" /\ Ordering(a) /\ job'[a] = job[a]
    BY <1>1, <1>2 DEF Kept, Ordering
  <2> QED
    BY <1>2, <2>1, HeldDoc
<1>3. CASE ~Kept(a)
  BY <1>1, <1>3 DEF ActorMove, Holds
<1> QED
  BY <1>2, <1>3

LEMMA OrderOKStep ==
  ASSUME IInv, Moves, NEW a \in Actors PROVE OrderOK(a)'
<1> SUFFICES ASSUME Ordering(a)'
             PROVE  /\ a \in Operators
                    /\ seen'[a].attempts # 0
                    /\ seen'[a].attempts \notin Called(job[a])'
  BY DEF OrderOK
<1>1. job'[a] \in Intents
  BY OrderingStep
<1>2. CASE Kept(a) /\ Ordering(a)
  <2>0. PICK i \in Intents, n \in Nat : i = job[a] /\ n = seen[a].attempts
    BY <1>2, HeldDoc DEF Ordering, Doc
  <2>1. /\ a \in Operators /\ n # 0 /\ n \notin Called(i)
        /\ SeenOK(a) /\ \A b \in Actors : OrderAlone(b, a)
    BY <1>2, <2>0 DEF IInv, ActorsInv, OrderOK
  <2>2. /\ pc[a] = "append" /\ pc'[a] = "append" /\ job'[a] = i /\ seen'[a].attempts = n
    BY <1>2, <2>0 DEF Kept, Ordering
  <2>3. outbox[i].attempts \in Nat /\ n <= outbox[i].attempts
    BY <2>0, <2>1, <2>2, HeldDoc DEF SeenOK, Doc
  <2>4. n \notin Called(i)'
    <3> SUFFICES ASSUME n \in Called(i)' PROVE FALSE
      OBVIOUS
    <3>1. \E b \in Actors : /\ Ordering(b) /\ job[b] = i /\ pc'[b] = "awaiting"
                            /\ n = seen[b].attempts
      <4>1. n # outbox[i].attempts + 1
        BY <2>3
      <4> QED
        BY <2>1, <4>1, CalledStep
    <3>2. \E b \in Actors : b = a /\ pc'[b] = "awaiting"
      BY <1>2, <2>0, <2>1, <3>1 DEF OrderAlone
    <3> QED
      BY <2>2, <3>2
  <2> QED
    BY <2>1, <2>2, <2>4 DEF Called
<1>3. CASE /\ a \in Operators
           /\ seen'[a].attempts = outbox[job'[a]].attempts + 1
           /\ wire' = wire /\ posted' = posted
  <2>1. outbox[job'[a]].attempts \in Nat /\ CallOK(job'[a])
    BY <1>1 DEF IInv, TypeOK, IntentsInv, Doc
  <2>2. \A n \in Called(job'[a]) : n \in Nat /\ n <= outbox[job'[a]].attempts
    BY <1>1, <2>1 DEF CallOK, Called, IInv, TypeOK, Message
  <2>3. Called(job[a])' = Called(job'[a])
    BY <1>3 DEF Called
  <2> QED
    BY <1>3, <2>1, <2>2, <2>3
<1> QED
  BY <1>2, <1>3, OrderingStep

LEMMA OrderAloneStep ==
  ASSUME IInv, Moves, NEW a \in Actors, NEW b \in Actors PROVE OrderAlone(a, b)'
<1> SUFFICES ASSUME Ordering(a)', Ordering(b)',
                    job'[a] = job'[b], seen'[a].attempts = seen'[b].attempts
             PROVE  a = b
  BY DEF OrderAlone
<1>1. ASSUME NEW x \in Actors, NEW y \in Actors, Kept(x), Ordering(x), ~Kept(y),
             job'[x] = job'[y], seen'[x].attempts = seen'[y].attempts,
             seen'[y].attempts = outbox[job'[y]].attempts + 1
      PROVE  FALSE
  <2>1. pc[x] # "idle" /\ job'[y] = job[x] /\ seen'[y].attempts = seen[x].attempts
    BY <1>1 DEF Ordering, Kept
  <2>2. /\ seen[x].attempts \in Nat /\ outbox[job[x]].attempts \in Nat /\ SeenOK(x)
    BY <2>1, HeldDoc DEF Doc, IInv, ActorsInv
  <2> QED
    BY <1>1, <2>1, <2>2 DEF SeenOK
<1>2. CASE Kept(a) /\ Ordering(a) /\ Kept(b) /\ Ordering(b)
  <2>1. OrderAlone(a, b)
    BY DEF IInv, ActorsInv
  <2> QED
    BY <1>2, <2>1 DEF OrderAlone, Kept
<1>3. Kept(a) \/ Kept(b) \/ a = b
  BY DEF Moves
<1> QED
  BY <1>1, <1>2, <1>3, OrderingStep

LEMMA CallOKStep ==
  ASSUME IInv, Moves, NEW i \in Intents PROVE CallOK(i)'
<1>0. /\ CallOK(i) /\ CallMove(i)
      /\ wire[i] \subseteq Nat /\ posted[i] \subseteq Message
  BY DEF IInv, TypeOK, IntentsInv, Moves
<1>1. outbox[i].attempts \in Nat /\ outbox'[i].attempts \in Nat
      /\ outbox[i].attempts <= outbox'[i].attempts
  BY AttemptsGrow
<1>2. \A n \in Called(i) : n \in Nat /\ n # 0 /\ n <= outbox[i].attempts
  BY <1>0 DEF CallOK, Called, Message
<1>3. ASSUME NEW a \in Actors, Ordering(a), job[a] = i
      PROVE  /\ seen[a].attempts \in Nat \ {0} /\ seen[a].attempts <= outbox[i].attempts
             /\ seen[a].attempts \notin Called(i)
  <2>1. pc[a] # "idle"
    BY <1>3 DEF Ordering
  <2>2. SeenOK(a) /\ OrderOK(a) /\ seen[a].attempts \in Nat
    BY <2>1, HeldDoc DEF Doc, IInv, ActorsInv
  <2> QED
    BY <1>3, <2>1, <2>2 DEF SeenOK, OrderOK
<1>4. ASSUME NEW n \in Called(i)' PROVE n # 0 /\ n <= outbox'[i].attempts
  <2>1. CASE n \in Called(i)
    BY <1>1, <1>2, <2>1
  <2>2. CASE n = outbox[i].attempts + 1 /\ n = outbox'[i].attempts
    BY <1>1, <2>2
  <2>3. ASSUME NEW a \in Actors, Ordering(a), job[a] = i, n = seen[a].attempts
        PROVE  n # 0 /\ n <= outbox'[i].attempts
    BY <1>1, <1>3, <2>3
  <2> QED
    BY <2>1, <2>2, <2>3, CalledStep
<1>5. CASE wire'[i] \subseteq wire[i] /\ posted'[i] = posted[i]
  BY <1>0, <1>4, <1>5 DEF CallOK
<1>6. ASSUME NEW n, n \notin Called(i), wire'[i] = wire[i] \cup {n}, posted'[i] = posted[i]
      PROVE  CallOK(i)'
  BY <1>0, <1>4, <1>6 DEF CallOK, Called
<1>7. CASE /\ outbox[i].status = "intent" /\ outbox'[i] = ClaimedDoc(outbox[i], FALSE)
           /\ wire'[i] = wire[i] \cup {outbox'[i].attempts}
           /\ posted'[i] = posted[i]
  <2>1. outbox'[i].attempts = outbox[i].attempts + 1
    BY <1>7, ClaimedFields DEF IInv, TypeOK
  <2>2. outbox'[i].attempts \notin Called(i)
    BY <1>1, <1>2, <2>1
  <2> QED
    BY <1>6, <1>7, <2>2
<1>8. ASSUME NEW n \in wire[i], wire'[i] = wire[i] \ {n},
             posted'[i] = posted[i] \cup
               {[attempt |-> n, at |-> now, late |-> ~Current(i, n)]}
      PROVE  CallOK(i)'
  <2> DEFINE p == [attempt |-> n, at |-> now, late |-> ~Current(i, n)]
  <2>1. p.attempt = n
    OBVIOUS
  <2> HIDE DEF p
  <2>2. \A m \in posted[i] : m.attempt # n
    BY <1>0 DEF CallOK
  <2>3. posted'[i] = posted[i] \cup {p}
    BY <1>8 DEF p
  <2> QED
    BY <1>0, <1>4, <1>8, <2>1, <2>2, <2>3 DEF CallOK
<1> QED
  BY <1>0, <1>3, <1>5, <1>6, <1>7, <1>8 DEF CallMove

\* The messages of an intent after a step: those before it, or one more, of a
\* call that was on the wire, in time only if its claim still stands.
LEMMA PostedStep ==
  ASSUME IInv, Moves, NEW i \in Intents
  PROVE  \/ posted'[i] = posted[i]
         \/ /\ outbox'[i] = outbox[i] /\ now' = now
            /\ \E p : /\ posted'[i] = posted[i] \cup {p}
                      /\ p.attempt \in wire[i] /\ p.at = now
                      /\ ~p.late => Current(i, p.attempt)
<1>1. CallMove(i)
  BY DEF Moves
<1>2. ASSUME NEW n \in wire[i],
             posted'[i] = posted[i] \cup
               {[attempt |-> n, at |-> now, late |-> ~Current(i, n)]}
      PROVE  \E p : /\ posted'[i] = posted[i] \cup {p}
                    /\ p.attempt \in wire[i] /\ p.at = now
                    /\ ~p.late => Current(i, p.attempt)
  <2> DEFINE p == [attempt |-> n, at |-> now, late |-> ~Current(i, n)]
  <2>1. p.attempt = n /\ p.at = now /\ p.late = ~Current(i, n)
    BY Zenon
  <2>2. ~p.late => Current(i, n)
    <3>1. p.late = ~Current(i, n)
      BY <2>1
    <3> QED
      BY <3>1, Zenon
  <2> HIDE DEF p
  <2>3. posted'[i] = posted[i] \cup {p}
    BY <1>2 DEF p
  <2> QED
    BY <2>1, <2>2, <2>3
<1> QED
  BY <1>1, <1>2 DEF CallMove

LEMMA PromptOKStep ==
  ASSUME IInv, Moves, NEW i \in Intents PROVE PromptOK(i)'
<1> DEFINE d == outbox[i]
           e == outbox'[i]
<1>0. PromptOK(i) /\ DocOK(i) /\ d \in Doc /\ e \in Doc /\ now \in Nat
  BY DocGrows DEF IInv, TypeOK, IntentsInv
<1>a. /\ StaleAfter \in Nat /\ d.startedAt \in Nat /\ d.updatedAt \in Nat
      /\ d.attempts \in Nat /\ d.revision \in Nat
  BY <1>0, OutboxAssumption DEF Doc
<1>1. CASE posted'[i] = posted[i] /\ e = d
  BY <1>0, <1>1 DEF PromptOK
<1>2. CASE posted'[i] = posted[i] /\ Written(i)
  <2>1. CASE d.attempts = 0
    <3>1. posted[i] = {}
      BY <2>1, Unclaimed DEF Called
    <3> QED
      BY <1>2, <3>1 DEF PromptOK
  <2>2. CASE \A m \in posted[i] : m.late
    BY <1>2, <2>2 DEF PromptOK
  <2>3. CASE e.attempts = d.attempts /\ e.startedAt = d.startedAt
    BY <1>0, <1>2, <2>3 DEF PromptOK
  <2> QED
    BY <1>0, <1>2, <2>1, <2>2, <2>3 DEF Written, DocOK, NoDoc
<1>3. ASSUME e = d, NEW p, posted'[i] = posted[i] \cup {p}, p.at = now,
             ~p.late => Current(i, p.attempt)
      PROVE  PromptOK(i)'
  <2>1. ~p.late => /\ p.attempt = d.attempts /\ d.startedAt <= p.at
                   /\ p.at < d.startedAt + StaleAfter
    BY <1>0, <1>a, <1>3 DEF Current, Stale, DocOK
  <2> QED
    BY <1>0, <1>3, <2>1 DEF PromptOK
<1>4. CASE posted'[i] = posted[i]
  BY <1>1, <1>2, <1>4, DocGrows
<1>5. CASE e = d /\ posted'[i] # posted[i]
  <2>1. PICK p : /\ posted'[i] = posted[i] \cup {p} /\ p.at = now
                 /\ ~p.late => Current(i, p.attempt)
    BY <1>5, PostedStep
  <2> QED
    BY <1>3, <1>5, <2>1
<1> QED
  BY <1>4, <1>5, PostedStep

\* A scan that reads the claim's window finds a message that came in time.
LEMMA ScanFinds ==
  ASSUME IInv, NEW i \in Intents, NEW m \in posted[i], ~m.late
  PROVE  m \in Visible(i, outbox[i])
<1> DEFINE d == outbox[i]
<1>1. /\ m.attempt = d.attempts /\ d.startedAt <= m.at /\ m.at < d.startedAt + StaleAfter
      /\ m.attempt # 0
  BY DEF IInv, IntentsInv, PromptOK, CallOK, Called
<1>2. m.at \in Nat /\ d.startedAt \in Nat
  BY DEF IInv, TypeOK, Message, Doc
<1>3. SearchFrom(d) = d.startedAt
  BY <1>1 DEF SearchFrom
<1>4. InWindow(d, m)
  BY <1>1, <1>2, <1>3, OutboxAssumption DEF InWindow
<1> QED
  BY <1>4 DEF Visible

LEMMA ScanOKStep ==
  ASSUME IInv, Moves, NEW o \in Operators PROVE ScanOK(o)'
<1> SUFFICES ASSUME pc'[o] = "claim", Matches(o)'
             PROVE  \A m \in posted'[job'[o]] : m.late
  BY DEF ScanOK
<1>0. o \in Actors /\ o \notin Workers /\ ActorMove(o) /\ SeenOK(o) /\ StepOK(o) /\ ScanOK(o)
  BY OutboxAssumption DEF Actors, IInv, ActorsInv, Moves
<1>1. CASE Kept(o)
  <2>1. pc[o] = "claim" /\ job'[o] = job[o] /\ seen'[o] = seen[o]
    BY <1>1 DEF Kept
  <2>2. PICK i \in Intents : i = job[o]
    BY <1>0, <2>1, HeldDoc
  <2>3. /\ outbox'[i].revision = seen[o].revision /\ seen[o].revision \in Nat
        /\ outbox[i].revision \in Nat
    BY <1>0, <2>1, <2>2, HeldDoc DEF Matches, Doc
  <2>4. outbox'[i] = outbox[i]
    BY <1>0, <2>1, <2>2, <2>3, DocGrows DEF Written, SeenOK
  <2>5. Matches(o) /\ outbox[i] = seen[o] /\ Eligible(outbox[i])
    BY <1>0, <2>1, <2>2, <2>3, <2>4, HeldDoc DEF Matches, StepOK
  <2>6. \A m \in posted[i] : m.late
    BY <1>0, <2>1, <2>2, <2>5 DEF ScanOK
  <2>7. \A n : ~Current(i, n)
    BY <2>5 DEF Eligible, Current
  <2>8. \A m \in posted'[i] : m.late
    <3>1. CASE posted'[i] = posted[i]
      BY <2>6, <3>1
    <3>2. ASSUME NEW p, posted'[i] = posted[i] \cup {p}, ~p.late => Current(i, p.attempt)
          PROVE  \A m \in posted'[i] : m.late
      BY <2>6, <2>7, <3>2
    <3> QED
      BY <3>1, <3>2, PostedStep
  <2> QED
    BY <2>1, <2>2, <2>8
<1>2. CASE /\ pc[o] = "reconcile" /\ job'[o] = job[o] /\ seen'[o] = seen[o]
           /\ outbox' = outbox /\ posted' = posted
           /\ Visible(job[o], seen[o]) = {}
  <2>1. PICK i \in Intents : i = job[o]
    BY <1>0, <1>2, HeldDoc
  <2>2. Matches(o)
    BY <1>2 DEF Matches
  <2>3. seen[o] = outbox[i]
    BY <1>0, <1>2, <2>1, <2>2, HeldDoc
  <2> QED
    BY <1>2, <2>1, <2>3, ScanFinds
<1> QED
  BY <1>0, <1>1, <1>2 DEF ActorMove

LEMMA SentIsTrueStep == ASSUME IInv, Moves PROVE SentIsTrue'
<1> SUFFICES ASSUME NEW i \in Intents, outbox'[i].status = "sent"
             PROVE  \E m \in posted'[i] : m.attempt = outbox'[i].ts
  BY DEF SentIsTrue
<1>1. \E m \in posted[i] : m.attempt = outbox'[i].ts
  BY DocGrows DEF IInv, SentIsTrue, Written
<1> QED
  BY <1>1, CalledStep

LEMMA ReplayAuditedFirstStep == ASSUME IInv, Moves PROVE ReplayAuditedFirst'
<1> DEFINE Entry(i, n) == [intent |-> i, status |-> "sending", attempt |-> n]
<1> SUFFICES ASSUME NEW i \in Intents, NEW n \in Called(i)'
             PROVE  \/ n = 1 /\ outbox'[i].replays < outbox'[i].attempts
                    \/ Entry(i, n) \in audit'
  BY DEF ReplayAuditedFirst
<1> DEFINE d == outbox[i]
           e == outbox'[i]
<1>0. audit \subseteq audit' /\ d \in Doc /\ e \in Doc /\ DocOK(i) /\ CallOK(i)
  BY DocGrows DEF Moves, Still, IInv, IntentsInv
<1>a. d.replays \in Nat /\ d.attempts \in Nat /\ d.revision \in Nat
  BY <1>0 DEF Doc
<1>1. CASE n \in Called(i)
  <2>1. CASE Entry(i, n) \in audit
    BY <1>0, <2>1
  <2>2. CASE n = 1 /\ d.replays < d.attempts
    <3>1. d.revision # 0
      BY <1>0, <1>a, <2>2 DEF DocOK, NoDoc
    <3> QED
      BY <1>a, <2>2, <3>1, DocGrows DEF Written
  <2> QED
    BY <1>1, <2>1, <2>2 DEF IInv, ReplayAuditedFirst
<1>2. CASE /\ n = d.attempts + 1 /\ n = e.attempts /\ d.status = "intent"
           /\ e.replays = d.replays
  BY <1>0, <1>a, <1>2 DEF DocOK
<1> QED
  BY <1>1, <1>2, CalledStep

LEMMA InvStep == IInv /\ [Next]_vars => IInv'
<1> SUFFICES ASSUME IInv, [Next]_vars PROVE IInv'
  OBVIOUS
<1>1. Moves
  BY MovesStep
<1>2. TypeOK'
  BY TypeStep DEF IInv
<1>3. IntentsInv'
  BY <1>1, DocOKStep, CallOKStep, PromptOKStep DEF IntentsInv
<1>4. ActorsInv'
  BY <1>1, <1>2, SeenOKStep, StepOKStep, OrderOKStep, OrderAloneStep, ScanOKStep
     DEF ActorsInv
<1> QED
  BY <1>1, <1>2, <1>3, <1>4, SentIsTrueStep, ReplayAuditedFirstStep DEF IInv

LEMMA InvInit == Init => IInv
<1> SUFFICES ASSUME Init PROVE IInv
  OBVIOUS
<1>1. /\ now = 0 /\ audit = {}
      /\ \A i \in Intents : outbox[i] = NoDoc /\ wire[i] = {} /\ posted[i] = {}
      /\ \A a \in Actors : pc[a] = "idle"
  BY DEF Init
<1>2. TypeOK
  BY TypeInit
<1>3. ASSUME NEW i \in Intents PROVE DocOK(i) /\ CallOK(i) /\ PromptOK(i)
  BY <1>1 DEF DocOK, NoDoc, CallOK, Called, PromptOK
<1>4. ActorsInv
  BY <1>1 DEF ActorsInv, Actors, SeenOK, StepOK, OrderOK, OrderAlone, Ordering, ScanOK
<1> QED
  BY <1>1, <1>2, <1>3, <1>4 DEF IInv, IntentsInv, SentIsTrue, ReplayAuditedFirst,
     NoDoc, Called

\* The invariant holds in every state of the outbox.
THEOREM Invariance == Spec => []IInv
  BY InvInit, InvStep, PTL DEF Spec

-----------------------------------------------------------------------------
(* The properties. *)

\* However many workers deliver the same intent, Slack is called at most once
\* before an operator orders a replay.
THEOREM SendsOnce == Spec => []AutomaticSendsOnce
<1>1. IInv => AutomaticSendsOnce
  <2> SUFFICES ASSUME IInv, NEW i \in Intents, outbox[i].replays = 0
               PROVE  Cardinality(Called(i)) <= 1
    BY DEF AutomaticSendsOnce
  <2>1. /\ outbox[i].attempts \in Nat /\ outbox[i].attempts <= 1
        /\ Called(i) \subseteq Nat /\ CallOK(i)
    BY DEF IInv, TypeOK, IntentsInv, DocOK, Doc, Called, Message
  <2>2. Called(i) \subseteq {1}
    BY <2>1 DEF CallOK
  <2>3. Called(i) = {} \/ Called(i) = {1}
    BY <2>2
  <2>4. Cardinality({}) = 0 /\ Cardinality({1}) = 1
    BY FS_EmptySet, FS_Singleton
  <2> QED
    BY <2>3, <2>4
<1> QED
  BY <1>1, Invariance, PTL

\* Replay never duplicates a message that came in time.
THEOREM NoDuplicateInTime == Spec => []NoPromptDuplicate
<1>1. IInv => NoPromptDuplicate
  BY DEF IInv, IntentsInv, PromptOK, CallOK, NoPromptDuplicate
<1> QED
  BY <1>1, Invariance, PTL

\* An intent recorded as sent names a message that is in Slack.
THEOREM SentIsInSlack == Spec => []SentIsTrue
<1>1. IInv => SentIsTrue
  BY DEF IInv
<1> QED
  BY <1>1, Invariance, PTL

\* No call that an operator ordered precedes its entry in the audit log.
THEOREM AuditedFirst == Spec => []ReplayAuditedFirst
<1>1. IInv => ReplayAuditedFirst
  BY DEF IInv
<1> QED
  BY <1>1, Invariance, PTL

\* Nothing changes an intent recorded as sent.
THEOREM SentStays == Spec => SentIsFinal
<1>1. IInv /\ [Next]_vars =>
        [\A i \in Intents : outbox[i].status = "sent" => outbox'[i] = outbox[i]]_outbox
  <2> SUFFICES ASSUME IInv, [Next]_vars, NEW i \in Intents, outbox[i].status = "sent"
               PROVE  outbox'[i] = outbox[i]
    OBVIOUS
  <2>1. outbox'[i] = outbox[i] \/ Written(i)
    BY MovesStep, DocGrows
  <2>2. outbox[i].revision # 0
    BY DEF IInv, IntentsInv, DocOK, NoDoc
  <2> QED
    BY <2>1, <2>2 DEF Written, Eligible
<1> QED
  BY <1>1, Invariance, PTL DEF Spec, SentIsFinal

-----------------------------------------------------------------------------
(* The outbox implements its promise. *)

\* The promise's view of one intent after a step.
LEMMA PromiseMove ==
  ASSUME IInv, Moves, NEW i \in Intents
  PROVE  \/ /\ outbox'[i].attempts = outbox[i].attempts
            /\ outbox'[i].replays = outbox[i].replays
            /\ outbox'[i].status = "sent" <=> outbox[i].status = "sent"
            /\ posted'[i] = posted[i]
         \/ /\ outbox'[i] = outbox[i]
            /\ \E p : /\ posted'[i] = posted[i] \cup {p} /\ p.attempt \in wire[i]
                      /\ ~p.late => p.attempt = outbox[i].attempts
         \/ /\ outbox[i].status # "sent" /\ outbox'[i].status # "sent"
            /\ outbox'[i].attempts = outbox[i].attempts + 1
            /\ \/ outbox[i].attempts = 0 /\ outbox'[i].replays = outbox[i].replays
               \/ /\ outbox'[i].replays = outbox[i].replays + 1
                  /\ \A m \in posted[i] : m.late
            /\ posted'[i] = posted[i]
         \/ /\ outbox'[i].attempts = outbox[i].attempts
            /\ outbox'[i].replays = outbox[i].replays
            /\ outbox[i].status # "sent" /\ outbox'[i].status = "sent"
            /\ posted[i] # {} /\ posted'[i] = posted[i]
<1>1. DocOK(i) /\ outbox[i] \in Doc /\ outbox[i].revision \in Nat
  BY DocGrows DEF IInv, IntentsInv, Doc
<1>2. CASE outbox'[i] = outbox[i]
  <2>1. \A n : Current(i, n) => n = outbox[i].attempts
    BY DEF Current
  <2> QED
    BY <1>2, <2>1, PostedStep
<1>3. CASE Written(i)
  <2>1. posted'[i] = posted[i]
    BY <1>1, <1>3, PostedStep DEF Written
  <2>2. CASE outbox[i].revision = 0 /\ outbox'[i].status = "intent"
             /\ outbox'[i].attempts = 0 /\ outbox'[i].replays = 0
    BY <1>1, <2>1, <2>2 DEF DocOK, NoDoc
  <2> QED
    BY <1>1, <1>3, <2>1, <2>2 DEF Written, DocOK, Eligible
<1> QED
  BY <1>2, <1>3, DocGrows

LEMMA PromiseInit == Init => Promise!Init
  BY DEF Init, Promise!Init, NoDoc

LEMMA PromiseStep == IInv /\ [Next]_vars => [Promise!Next]_(Promise!vars)
<1> SUFFICES ASSUME IInv, [Next]_vars
             PROVE  Promise!Next \/ UNCHANGED Promise!vars
  OBVIOUS
<1>0. Moves /\ TypeOK /\ TypeOK'
  BY MovesStep, TypeStep DEF IInv
<1> DEFINE calls == [i \in Intents |-> outbox[i].attempts]
           ordered == [i \in Intents |-> outbox[i].replays]
           Landed(i) == {[call |-> m.attempt, late |-> m.late] : m \in posted[i]}
           landed == [i \in Intents |-> Landed(i)]
           settled == {i \in Intents : outbox[i].status = "sent"}
<1>1. CASE \A i \in Intents : Still(i)
  BY <1>1 DEF Still, Promise!vars
<1>2. ASSUME NEW k \in Intents, ~Still(k)
      PROVE  Promise!Next \/ UNCHANGED Promise!vars
  <2>0. \A i \in Intents : i # k => /\ calls'[i] = calls[i] /\ ordered'[i] = ordered[i]
                                    /\ landed'[i] = landed[i]
                                    /\ i \in settled' <=> i \in settled
    BY <1>0, <1>2 DEF Moves, Still
  <2>1. CASE /\ outbox'[k].attempts = outbox[k].attempts
             /\ outbox'[k].replays = outbox[k].replays
             /\ outbox'[k].status = "sent" <=> outbox[k].status = "sent"
             /\ posted'[k] = posted[k]
    <3>1. calls' = calls /\ ordered' = ordered /\ landed' = landed /\ settled' = settled
      BY <2>0, <2>1
    <3> QED
      BY <3>1 DEF Promise!vars
  <2>2. ASSUME outbox'[k] = outbox[k], NEW p, posted'[k] = posted[k] \cup {p},
               p.attempt \in wire[k], ~p.late => p.attempt = outbox[k].attempts
        PROVE  Promise!Next
    <3>1. /\ p \in Message /\ p.late \in BOOLEAN
          /\ p.attempt \in 1..calls[k] /\ \A m \in posted[k] : m.attempt # p.attempt
      BY <1>0, <2>2 DEF TypeOK, Message, IInv, IntentsInv, CallOK, Called, Doc
    <3>2. calls' = calls /\ ordered' = ordered /\ settled' = settled
      BY <2>0, <2>2
    <3>3. landed' = [landed EXCEPT ![k] = @ \cup {[call |-> p.attempt, late |-> p.late]}]
      <4>1. Landed(k)' = Landed(k) \cup {[call |-> p.attempt, late |-> p.late]}
        BY <2>2
      <4> HIDE DEF Landed
      <4> QED
        BY <2>0, <4>1
    <3>4. \A m \in landed[k] : m.call # p.attempt
      BY <3>1
    <3>5. p.late \/ p.attempt = calls[k]
      BY <2>2, <3>1
    <3> HIDE DEF calls, ordered, landed, settled
    <3>6. Promise!Land(k, p.attempt, p.late)
      BY <3>2, <3>3, <3>4, <3>5 DEF Promise!Land, calls, ordered, landed, settled
    <3> QED
      BY <3>1, <3>6 DEF Promise!Next, calls
  <2>3. CASE /\ outbox[k].status # "sent" /\ outbox'[k].status # "sent"
             /\ outbox'[k].attempts = outbox[k].attempts + 1
             /\ \/ outbox[k].attempts = 0 /\ outbox'[k].replays = outbox[k].replays
                \/ /\ outbox'[k].replays = outbox[k].replays + 1
                   /\ \A m \in posted[k] : m.late
             /\ posted'[k] = posted[k]
    <3>1. settled' = settled /\ landed' = landed /\ k \notin settled
      BY <2>0, <2>3
    <3>2. calls' = [calls EXCEPT ![k] = @ + 1]
      BY <2>0, <2>3
    <3>3. CASE outbox[k].attempts = 0 /\ outbox'[k].replays = outbox[k].replays
      <4>1. ordered' = ordered
        BY <2>0, <3>3
      <4>2. calls[k] = 0
        BY <3>3
      <4>3. calls' = [calls EXCEPT ![k] = 1]
        <5> HIDE DEF calls
        <5> QED
          BY <3>2, <4>2
      <4>4. Promise!FirstCall(k)
        BY <3>1, <4>1, <4>2, <4>3 DEF Promise!FirstCall
      <4> QED
        BY <4>4 DEF Promise!Next
    <3>4. CASE outbox'[k].replays = outbox[k].replays + 1 /\ \A m \in posted[k] : m.late
      <4>1. ordered' = [ordered EXCEPT ![k] = @ + 1]
        BY <2>0, <3>4
      <4>2. Promise!InTime(k) = {}
        BY <3>4 DEF Promise!InTime
      <4>3. Promise!OrderedCall(k)
        BY <3>1, <3>2, <4>1, <4>2 DEF Promise!OrderedCall
      <4> QED
        BY <4>3 DEF Promise!Next
    <3> QED
      BY <2>3, <3>3, <3>4
  <2>4. CASE /\ outbox'[k].attempts = outbox[k].attempts
             /\ outbox'[k].replays = outbox[k].replays
             /\ outbox[k].status # "sent" /\ outbox'[k].status = "sent"
             /\ posted[k] # {} /\ posted'[k] = posted[k]
    <3>1. calls' = calls /\ ordered' = ordered /\ landed' = landed
      BY <2>0, <2>4
    <3>2. settled' = settled \cup {k} /\ k \notin settled
      BY <2>0, <2>4
    <3>3. landed[k] # {}
      BY <2>4
    <3>4. Promise!Settle(k)
      BY <3>1, <3>2, <3>3 DEF Promise!Settle
    <3> QED
      BY <3>4 DEF Promise!Next
  <2> QED
    BY <1>0, <2>1, <2>2, <2>3, <2>4, PromiseMove
<1> QED
  BY <1>1, <1>2

\* The outbox keeps its promise.
THEOREM Implements == Spec => KeepsPromise
  BY PromiseInit, PromiseStep, Invariance, PTL DEF Spec, KeepsPromise, Promise!Spec

=============================================================================
