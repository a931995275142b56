-------------------------- MODULE NotificationOutbox --------------------------
(***************************************************************************)
(* The Slack notification outbox (notification-outbox.ts) with the Slack   *)
(* reconciliation it replays from (slack-notification-reconciler.ts).      *)
(*                                                                         *)
(* An intent is one logical notification.  Workers deliver it              *)
(* automatically, operators replay it by hand; both go through one         *)
(* document per intent in the state store, changed only by creation and by *)
(* compare-and-set on its revision.  An action is the code between two     *)
(* awaits.  Slack is a set of calls on the wire that may land at any later *)
(* time, or never, whatever their caller was told, and a process may die   *)
(* between any two steps.                                                  *)
(*                                                                         *)
(* Time is a counter of ticks.  The payload is abstracted (a delivery whose*)
(* payload differs from the stored one ends without effect, as one that    *)
(* finds a status other than "intent" does), the owner is never read, and  *)
(* Slack's message ts is the number of the attempt that posted it.         *)
(***************************************************************************)
EXTENDS Naturals, FiniteSets

CONSTANTS
  Intents,       \* intent ids
  Threaded,      \* intents whose payload names a thread: the scan reads all of it
  Workers,       \* webhook and schedule workers, calling deliver
  Operators,     \* replay operators, calling replay with confirmation
  None,          \* no intent
  StaleAfter,    \* ticks until a "sending" or "intent" document is stale
  SearchBefore,  \* ticks of channel history read before sendingStartedAt
  SearchAfter,   \* ticks of channel history read after sendingStartedAt
  MaxTime,       \* bound on the clock
  MaxAttempts    \* bound on the claims of one intent

ASSUME OutboxAssumption ==
  /\ Threaded \subseteq Intents
  /\ None \notin Intents
  /\ Workers \cap Operators = {}
  /\ StaleAfter \in Nat \ {0}
  /\ SearchBefore \in Nat
  /\ SearchAfter \in Nat
  /\ StaleAfter <= SearchAfter
  /\ MaxTime \in Nat
  /\ MaxAttempts \in Nat

VARIABLES
  now,     \* the clock
  outbox,  \* the stored document of each intent; revision 0: not there
  wire,    \* wire[i]: attempts whose Slack call has not been processed
  posted,  \* posted[i]: the Slack messages that carry intent i
  audit,   \* the append-only replay audit log
  pc,      \* where each actor is
  job,     \* the intent an actor works on
  seen     \* the document an actor read or wrote last

vars == <<now, outbox, wire, posted, audit, pc, job, seen>>
local == <<pc, job, seen>>

Actors == Workers \cup Operators

Status == {"none", "intent", "sending", "sent", "needs_review", "failed"}

Doc == [revision : Nat, status : Status, attempts : Nat, replays : Nat,
        updatedAt : Nat, startedAt : Nat, ts : Nat]

Message == [attempt : Nat, at : Nat, late : BOOLEAN]

NoDoc == [revision |-> 0, status |-> "none", attempts |-> 0, replays |-> 0,
          updatedAt |-> 0, startedAt |-> 0, ts |-> 0]

Steps == {"idle", "claim", "append", "awaiting", "reconcile"}

Init ==
  /\ now = 0
  /\ outbox = [i \in Intents |-> NoDoc]
  /\ wire = [i \in Intents |-> {}]
  /\ posted = [i \in Intents |-> {}]
  /\ audit = {}
  /\ pc = [a \in Actors |-> "idle"]
  /\ job = [a \in Actors |-> None]
  /\ seen = [a \in Actors |-> NoDoc]

-----------------------------------------------------------------------------
(* The states an actor moves between. *)

Work(a, i, d, step) ==
  /\ pc' = [pc EXCEPT ![a] = step]
  /\ job' = [job EXCEPT ![a] = i]
  /\ seen' = [seen EXCEPT ![a] = d]

Rest(a) == Work(a, None, NoDoc, "idle")

\* Mutant: a blind set instead of the compare-and-set.
Matches_Blind(a) == outbox[job[a]].revision >= seen[a].revision

\* StateStore.compareAndSet on the revision the actor holds.
Matches(a) == outbox[job[a]].revision = seen[a].revision

\* The compare-and-set succeeds, and the actor goes on with the new document.
Write(a, d, step) ==
  /\ Matches(a)
  /\ outbox' = [outbox EXCEPT ![job[a]] = d]
  /\ IF step = "idle" THEN Rest(a) ELSE Work(a, job[a], d, step)

\* It fails, and the call ends with an error that changes nothing.
GiveUp(a) == ~Matches(a) /\ Rest(a) /\ UNCHANGED outbox

-----------------------------------------------------------------------------
(* deliver: create the intent or load it, and claim it. *)

NewIntent == [NoDoc EXCEPT !.revision = 1, !.status = "intent", !.updatedAt = now]

\* Only a document still in "intent" goes on to the claim: for the others
\* deliver returns the recorded message or throws.
CreateOrLoad(w, i) ==
  LET d == IF outbox[i].revision = 0 THEN NewIntent ELSE outbox[i]
  IN  /\ pc[w] = "idle"
      /\ d.status = "intent"
      /\ outbox' = [outbox EXCEPT ![i] = d]
      /\ Work(w, i, d, "claim")
      /\ UNCHANGED <<now, wire, posted, audit>>

\* Mutant: the claim writes a status the type does not know.
ClaimedDoc_BadStatus(d, replay) ==
  [d EXCEPT !.revision = @ + 1, !.status = "claimed", !.attempts = @ + 1,
            !.updatedAt = now, !.startedAt = now]

ClaimedDoc(d, replay) ==
  [d EXCEPT !.revision = @ + 1, !.status = "sending", !.attempts = @ + 1,
            !.replays = IF replay THEN @ + 1 ELSE @,
            !.updatedAt = now, !.startedAt = now]

Call(i, n) == wire' = [wire EXCEPT ![i] = @ \cup {n}]

\* claim, and the call to Slack that follows it with no await between.
ClaimAndSend(w) ==
  /\ pc[w] = "claim"
  /\ seen[w].attempts < MaxAttempts
  /\ LET d == ClaimedDoc(seen[w], FALSE)
     IN  \/ Write(w, d, "awaiting") /\ Call(job[w], d.attempts)
         \/ GiveUp(w) /\ UNCHANGED wire
  /\ UNCHANGED <<now, posted, audit>>

-----------------------------------------------------------------------------
(* sendClaimed and recordSendFailure, common to delivery and replay. *)

\* Mutant: the number of the attempt after is recorded as the message.
SentDoc_WrongTs(d, n) == [d EXCEPT !.revision = @ + 1, !.status = "sent",
                                   !.updatedAt = now, !.ts = n + 1]

SentDoc(d, n) == [d EXCEPT !.revision = @ + 1, !.status = "sent",
                           !.updatedAt = now, !.ts = n]

\* Mutant: an uncertain send goes back to "intent", for a worker to retry.
FailedDoc_Retry(d, status) ==
  [d EXCEPT !.revision = @ + 1, !.updatedAt = now,
            !.status = IF status = "needs_review" THEN "intent" ELSE status]

FailedDoc(d, status) == [d EXCEPT !.revision = @ + 1, !.status = status,
                                  !.updatedAt = now]

\* Slack answered with a message ts; an operator's success is audited.  When
\* the document moved on, the sender reports it and writes nothing.
RecordSent(a) ==
  /\ pc[a] = "awaiting"
  /\ \E m \in posted[job[a]] : m.attempt = seen[a].attempts
  /\ \/ Write(a, SentDoc(seen[a], seen[a].attempts),
              IF a \in Operators THEN "append" ELSE "idle")
     \/ GiveUp(a)
  /\ UNCHANGED <<now, wire, posted, audit>>

\* One of the errors failureIsConclusive lists: Slack rejected the call.
RecordRefused(a) ==
  /\ pc[a] = "awaiting"
  /\ seen[a].attempts \in wire[job[a]]
  /\ wire' = [wire EXCEPT ![job[a]] = @ \ {seen[a].attempts}]
  /\ Write(a, FailedDoc(seen[a], "failed"), "append") \/ GiveUp(a)
  /\ UNCHANGED <<now, posted, audit>>

\* Any other error: a timeout or a lost answer says nothing of the message.
RecordUncertain(a) ==
  /\ pc[a] = "awaiting"
  /\ Write(a, FailedDoc(seen[a], "needs_review"), "append") \/ GiveUp(a)
  /\ UNCHANGED <<now, wire, posted, audit>>

\* appendAudit of the transition just written; a replay's call follows it.
Append(a) ==
  /\ pc[a] = "append"
  /\ audit' = audit \cup {[intent |-> job[a], status |-> seen[a].status,
                           attempt |-> seen[a].attempts]}
  /\ \/ /\ seen[a].status = "sending"
        /\ Call(job[a], seen[a].attempts)
        /\ Work(a, job[a], seen[a], "awaiting")
     \/ /\ seen[a].status # "sending"
        /\ Rest(a)
        /\ UNCHANGED wire
  /\ UNCHANGED <<now, outbox, posted>>

-----------------------------------------------------------------------------
(* replay: assess, reconcile with Slack, then record or claim and send. *)

Stale(d) == d.updatedAt + StaleAfter <= now

\* Mutant: a claim in progress can be replayed at once.
Eligible_Hasty(d) == d.status \in {"needs_review", "failed", "intent", "sending"}

Eligible(d) == \/ d.status \in {"needs_review", "failed"}
               \/ d.status \in {"intent", "sending"} /\ Stale(d)

\* The expected revision of the command is the revision loaded here.
Assess(o, i) ==
  /\ pc[o] = "idle"
  /\ Eligible(outbox[i])
  /\ Work(o, i, outbox[i], "reconcile")
  /\ UNCHANGED <<now, outbox, wire, posted, audit>>

\* historyArguments: the part of the channel that is read.
\* Mutant: the scan looks around the last update instead of the claim.
SearchFrom_Updated(d) == d.updatedAt

SearchFrom(d) == IF d.attempts = 0 THEN d.updatedAt ELSE d.startedAt

InWindow(d, m) == /\ SearchFrom(d) <= m.at + SearchBefore
                  /\ m.at <= SearchFrom(d) + SearchAfter

Visible(i, d) == {m \in posted[i] : i \in Threaded \/ InWindow(d, m)}

\* A message is found and recorded; a message never leaves the channel.
RecordExisting(o) ==
  /\ pc[o] = "reconcile"
  /\ \E m \in Visible(job[o], seen[o]) :
       Write(o, SentDoc(seen[o], m.attempt), "append") \/ GiveUp(o)
  /\ UNCHANGED <<now, wire, posted, audit>>

ScanFindsNothing(o) ==
  /\ pc[o] = "reconcile"
  /\ Visible(job[o], seen[o]) = {}
  /\ Work(o, job[o], seen[o], "claim")
  /\ UNCHANGED <<now, outbox, wire, posted, audit>>

\* Ten pages were not enough or Slack failed (inconclusive), or a dry run.
ScanBlocked(o) ==
  /\ pc[o] = "reconcile"
  /\ Rest(o)
  /\ UNCHANGED <<now, outbox, wire, posted, audit>>

\* Mutant: the call is made with the claim, before its audit entry.
ReplayClaim_CallFirst(o) ==
  /\ pc[o] = "claim"
  /\ seen[o].attempts < MaxAttempts
  /\ \/ /\ Write(o, ClaimedDoc(seen[o], TRUE), "append")
        /\ Call(job[o], seen[o].attempts + 1)
     \/ GiveUp(o) /\ UNCHANGED wire
  /\ UNCHANGED <<now, posted, audit>>

\* The claim of a replay, made on the document that was reconciled.
ReplayClaim(o) ==
  /\ pc[o] = "claim"
  /\ seen[o].attempts < MaxAttempts
  /\ Write(o, ClaimedDoc(seen[o], TRUE), "append") \/ GiveUp(o)
  /\ UNCHANGED <<now, wire, posted, audit>>

-----------------------------------------------------------------------------
(* Slack, the clock and process deaths. *)

\* The claim of attempt n still stands and is not yet stale.
Current(i, n) == /\ outbox[i].status = "sending"
                 /\ outbox[i].attempts = n
                 /\ ~Stale(outbox[i])

Post(i, n) ==
  /\ n \in wire[i]
  /\ wire' = [wire EXCEPT ![i] = @ \ {n}]
  /\ posted' = [posted EXCEPT ![i] = @ \cup
                  {[attempt |-> n, at |-> now, late |-> ~Current(i, n)]}]
  /\ UNCHANGED <<now, outbox, audit, local>>

Lose(i, n) ==
  /\ n \in wire[i]
  /\ wire' = [wire EXCEPT ![i] = @ \ {n}]
  /\ UNCHANGED <<now, outbox, posted, audit, local>>

Tick == now < MaxTime /\ now' = now + 1 /\ UNCHANGED <<outbox, wire, posted, audit, local>>

Crash(a) == pc[a] # "idle" /\ Rest(a) /\ UNCHANGED <<now, outbox, wire, posted, audit>>

Next ==
  \/ \E w \in Workers : \/ \E i \in Intents : CreateOrLoad(w, i)
                       \/ ClaimAndSend(w)
  \/ \E o \in Operators : \/ \E i \in Intents : Assess(o, i)
                         \/ RecordExisting(o) \/ ScanFindsNothing(o)
                         \/ ScanBlocked(o) \/ ReplayClaim(o)
  \/ \E a \in Actors : \/ RecordSent(a) \/ RecordRefused(a)
                       \/ RecordUncertain(a) \/ Append(a) \/ Crash(a)
  \/ \E i \in Intents : \E n \in wire[i] : Post(i, n) \/ Lose(i, n)
  \/ Tick

Spec == Init /\ [][Next]_vars

-----------------------------------------------------------------------------
(* Properties. *)

TypeOK ==
  /\ now \in Nat
  /\ outbox \in [Intents -> Doc]
  /\ wire \in [Intents -> SUBSET Nat]
  /\ posted \in [Intents -> SUBSET Message]
  /\ audit \subseteq [intent : Intents, status : Status, attempt : Nat]
  /\ pc \in [Actors -> Steps]
  /\ job \in [Actors -> Intents \cup {None}]
  /\ \A a \in Actors : pc[a] # "idle" => job[a] \in Intents
  /\ seen \in [Actors -> Doc]

\* The attempts of intent i that reached Slack's side.
Called(i) == wire[i] \cup {m.attempt : m \in posted[i]}

\* However many workers deliver the same intent, and whatever each of them
\* was told or when it died, Slack is called at most once before an operator
\* orders a replay (deliver: only the winner of the claim sends, nothing
\* uncertain is resent).
AutomaticSendsOnce ==
  \A i \in Intents : outbox[i].replays = 0 => Cardinality(Called(i)) <= 1

\* Two messages of one intent are in Slack only if one of them landed after
\* its claim had been given up: replay (staleness, reconciliation window and
\* compare-and-set together) never duplicates a message that came in time.
NoPromptDuplicate ==
  \A i \in Intents : \A m1, m2 \in posted[i] :
    ~m1.late /\ ~m2.late => m1 = m2

\* An intent recorded as sent names a message that is in Slack, whether the
\* sender or an operator's reconciliation recorded it.
SentIsTrue ==
  \A i \in Intents :
    outbox[i].status = "sent" => \E m \in posted[i] : m.attempt = outbox[i].ts

\* No call to Slack that an operator ordered precedes its entry in the audit
\* log (replay: the claim is audited before the sender is called).
ReplayAuditedFirst ==
  \A i \in Intents : \A n \in Called(i) :
    \/ n = 1 /\ outbox[i].replays < outbox[i].attempts
    \/ [intent |-> i, status |-> "sending", attempt |-> n] \in audit

\* Nothing, not even a sender that answers after the operator settled the
\* intent, changes an intent recorded as sent.
SentIsFinal ==
  [][\A i \in Intents : outbox[i].status = "sent" => outbox'[i] = outbox[i]]_outbox

\* The outbox keeps the promise of NotificationPromise.
Promise == INSTANCE NotificationPromise WITH
  calls <- [i \in Intents |-> outbox[i].attempts],
  ordered <- [i \in Intents |-> outbox[i].replays],
  landed <- [i \in Intents |-> {[call |-> m.attempt, late |-> m.late] : m \in posted[i]}],
  settled <- {i \in Intents : outbox[i].status = "sent"}

KeepsPromise == Promise!Spec
=============================================================================
