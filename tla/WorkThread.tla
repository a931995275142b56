------------------------------ MODULE WorkThread ------------------------------
(***************************************************************************)
(* The Slack thread of one Work and what LifecycleNotificationService      *)
(* posts into it (lifecycle-notification-service.ts), with the lease on    *)
(* the thread's root (notification-thread-service.ts).  The outbox appears *)
(* as NotificationPromise describes it to a caller: an intent is called    *)
(* for once, its message may land whatever the caller is told, and an      *)
(* intent that did not succeed waits for an operator.                      *)
(*                                                                         *)
(* A worker handles one webhook at a time: it loads what the webhook is    *)
(* about and sends the notices LifecycleEvents derives from it, each       *)
(* through its memory, the overview of its Task, the root of the thread    *)
(* and the outbox.  The world, which is what GitHub shows, goes through    *)
(* the course of a scenario meanwhile.                                     *)
(*                                                                         *)
(* An action is the code between two awaits; a lease that is read and then *)
(* taken by a compare-and-set is one action (a compare-and-set that fails  *)
(* reads again), and so are two reads of which nothing undoes the first.   *)
(***************************************************************************)
EXTENDS LifecycleEvents, Naturals

CONSTANTS
  Scenarios,  \* a sequence of [hooks, course, rooted]: the webhooks, by event,
              \* the states of the world, and whether the thread is there at first
  Events,
  Workers,
  MaxLeases   \* bound on the leases taken on the root

VARIABLES
  scene,     \* the scenario
  now,       \* how far its course has come
  thread,    \* the stored thread document: "none", "creating" or "ready"
  intents,   \* the outbox: a document per notice called for
  channel,   \* the messages posted, in order; a message's ts is its place
  notified,  \* the notices remembered, the last one of each kind and Issue
  setup,     \* setup[i]: the initial assignees of i still to be consumed, once recorded
  step,      \* where each worker is
  job,       \* what it has in hand
  claim      \* the revision of its root lease

world == <<scene, now>>
place == <<step, job, claim>>
vars == <<world, thread, intents, channel, notified, setup, place>>

Hooks == Scenarios[scene].hooks

Course == Scenarios[scene].course

\* What the constants are assumed to be, by the module that composes this one.
ThreadAssumption ==
  /\ Work \notin Tasks
  /\ None \notin Issues \cup Events
  /\ MaxLeases \in Nat
  /\ \A s \in DOMAIN Scenarios :
       /\ DOMAIN Scenarios[s].hooks \subseteq Events
       /\ Scenarios[s].rooted \in BOOLEAN
       /\ Len(Scenarios[s].course) \in Nat \ {0}
       /\ \A e \in DOMAIN Scenarios[s].hooks :
            LET hook == Scenarios[s].hooks[e]
            IN  /\ hook.at \in 1..Len(Scenarios[s].course)
                /\ hook.about \in Seq({hook.about[m] : m \in DOMAIN hook.about})
                /\ \A m \in DOMAIN hook.about, k \in 1..Len(Scenarios[s].course) :
                     Fits(hook, hook.about[m], Scenarios[s].course[k])

NoThread == [revision |-> 0, status |-> "none", root |-> 0, live |-> FALSE]

\* rest: what the event is about and has not been loaded yet; todo: the notices
\* left; opening: the overview goes before the first of them; parent: the Work,
\* read for the root's sake.
NoJob == [event |-> None, rest |-> <<>>, todo |-> <<>>, opening |-> FALSE, parent |-> None]

Steps == {"rest", "load", "check", "root", "call_root", "wait_root", "save_root", "reply",
          "wait", "mark", "setup", "consume", "ok", "retryable", "failed"}

\* With a root, it was posted before.
WithRoot(rooted) ==
  IF rooted
  THEN LET root == RootNotice(Course[1][Work])
       IN  /\ thread = [revision |-> 2, status |-> "ready", root |-> 1, live |-> FALSE]
           /\ intents = [n \in {Id(root)} |-> [status |-> "sent", under |-> 0, ts |-> 1,
                                              says |-> root.says]]
           /\ channel = <<[notice |-> Id(root), under |-> 0]>>
  ELSE thread = NoThread /\ intents = <<>> /\ channel = <<>>

Init ==
  /\ scene \in DOMAIN Scenarios
  /\ now = 1
  /\ WithRoot(Scenarios[scene].rooted)
  /\ notified = {}
  /\ setup = [i \in Issues |-> [made |-> FALSE, pending |-> {}]]
  /\ step = [w \in Workers |-> "rest"]
  /\ job = [w \in Workers |-> NoJob]
  /\ claim = [w \in Workers |-> 0]

-----------------------------------------------------------------------------

Go(w, s, j) ==
  /\ step' = [step EXCEPT ![w] = s]
  /\ job' = [job EXCEPT ![w] = j]
  /\ UNCHANGED claim

Goto(w, s) == Go(w, s, job[w])

Hook(w) == Hooks[job[w].event]

\* The notice a worker is at: the first one left, or the overview before it.
Current(w) ==
  LET n == Head(job[w].todo)
  IN  IF job[w].opening THEN Overview(n.issue, n.seen) ELSE n

OnOverview(w) == Current(w).kind = "issue-opened"

\* GitHub changes.
Change ==
  /\ now < Len(Course)
  /\ now' = now + 1
  /\ UNCHANGED <<scene, thread, intents, channel, notified, setup, place>>

\* The event is handed to the lifecycle service.
Start(w, e) ==
  /\ step[w] = "rest"
  /\ Go(w, "load", [NoJob EXCEPT !.event = e, !.rest = Hooks[e].about])
  /\ UNCHANGED <<world, thread, intents, channel, notified, setup>>

\* What the event is about is loaded, one after the other.
Load(w) ==
  LET rest == job[w].rest
  IN  /\ step[w] = "load"
      /\ \/ rest = <<>> /\ Goto(w, "ok")
         \/ /\ rest # <<>>
            /\ \E codes \in Readable(Hook(w)) :
                 LET todo == Owed(Hook(w), Head(rest), Course[now], codes)
                 IN  Go(w, IF todo = <<>> THEN "load" ELSE "check",
                        [job[w] EXCEPT !.rest = Tail(rest), !.todo = todo])
      /\ UNCHANGED <<world, thread, intents, channel, notified, setup>>

\* The notice needs its root, whose Work is read when it is not itself that Work.
ToRoot(w, j) ==
  LET n == Head(j.todo)
  IN  Go(w, "root", [j EXCEPT !.parent = IF n.issue = Work THEN n.seen ELSE Course[now][Work]])

\* What comes when the current notice is done.
Onward(w) ==
  LET left == Tail(job[w].todo)
      j == [job[w] EXCEPT !.todo = left, !.parent = None]
  IN  IF job[w].opening THEN ToRoot(w, [job[w] EXCEPT !.opening = FALSE])
      ELSE IF left = <<>> THEN Go(w, "load", j)
      ELSE IF Head(left).kind = "issue-assignment-changed" THEN Go(w, "consume", j)
      ELSE Go(w, "check", j)

\* Mutant: an event does not wait for its Task's overview.
Check_NoOverview(w) ==
  LET n == Current(w)
  IN  /\ step[w] = "check"
      /\ IF Adrift(n) \/ Id(n) \in notified
         THEN Onward(w) ELSE ToRoot(w, job[w])
      /\ UNCHANGED <<world, thread, intents, channel, notified, setup>>

\* send: a notice remembered is skipped, and so is one of a Task without a
\* thread; a Task's overview goes first.
Check(w) ==
  LET n == Current(w)
  IN  /\ step[w] = "check"
      /\ \/ (Adrift(n) \/ Id(n) \in notified) /\ Onward(w)
         \/ /\ ~Adrift(n) /\ Id(n) \notin notified
            /\ IF n.issue = Work \/ OnOverview(w) \/ OverviewId(n.issue) \in notified
               THEN ToRoot(w, job[w])
               ELSE Go(w, "check", [job[w] EXCEPT !.opening = TRUE])
      /\ UNCHANGED <<world, thread, intents, channel, notified, setup>>

-----------------------------------------------------------------------------
(* ensureRoot. *)

OwnRoot(w) == OnOverview(w) /\ Current(w).issue = Work

\* The notice that creates the root on behalf of the one worked on.
RootFor(w) == IF OwnRoot(w) THEN Current(w) ELSE RootNotice(job[w].parent)

\* With a root, the Work's overview is done and any other notice replies.
WithRootAt(w) == Goto(w, IF OwnRoot(w) THEN "mark" ELSE "reply")

HasRoot(w) ==
  /\ step[w] = "root"
  /\ thread.status = "ready"
  /\ WithRootAt(w)
  /\ UNCHANGED <<world, thread, intents, channel, notified, setup>>

\* Mutant: the lease is taken with a status the type does not know.
ClaimRoot_BadStatus(w) ==
  /\ step[w] = "root"
  /\ thread.status # "ready" /\ ~thread.live
  /\ thread' = [thread EXCEPT !.status = "claimed"]
  /\ Goto(w, "call_root")
  /\ UNCHANGED <<world, intents, channel, notified, setup>>

\* Mutant: a lease is taken on a thread that already has its root.
ClaimRoot_Again(w) ==
  /\ step[w] = "root"
  /\ ~thread.live
  /\ thread' = [revision |-> thread.revision + 1, status |-> "creating",
                root |-> 0, live |-> TRUE]
  /\ step' = [step EXCEPT ![w] = "call_root"]
  /\ claim' = [claim EXCEPT ![w] = thread.revision + 1]
  /\ UNCHANGED <<world, intents, channel, notified, setup, job>>

ClaimRoot(w) ==
  /\ step[w] = "root"
  /\ thread.status # "ready"
  /\ ~thread.live
  /\ thread' = [revision |-> thread.revision + 1, status |-> "creating",
                root |-> 0, live |-> TRUE]
  /\ step' = [step EXCEPT ![w] = "call_root"]
  /\ claim' = [claim EXCEPT ![w] = thread.revision + 1]
  /\ UNCHANGED <<world, intents, channel, notified, setup, job>>

\* Another worker's lease is alive, or it won the lease three times over.
RootInProgress(w) ==
  /\ step[w] = "root"
  /\ thread.status = "creating" /\ thread.live
  /\ Goto(w, "retryable")
  /\ UNCHANGED <<world, thread, intents, channel, notified, setup>>

\* Mutant: the root is saved without comparing the revision.
SaveRoot_Blind(w) ==
  /\ step[w] = "save_root"
  /\ thread' = [revision |-> claim[w] + 1, status |-> "ready",
                root |-> intents[Id(RootFor(w))].ts, live |-> FALSE]
  /\ WithRootAt(w)
  /\ UNCHANGED <<world, intents, channel, notified, setup>>

\* The root is posted: it is recorded unless the lease was taken over.
SaveRoot(w) ==
  /\ step[w] = "save_root"
  /\ \/ /\ thread.revision = claim[w]
        /\ thread' = [revision |-> claim[w] + 1, status |-> "ready",
                      root |-> intents[Id(RootFor(w))].ts, live |-> FALSE]
        /\ WithRootAt(w)
     \/ /\ thread.revision # claim[w]
        /\ IF thread.status = "ready" THEN WithRootAt(w) ELSE Goto(w, "retryable")
        /\ UNCHANGED thread
  /\ UNCHANGED <<world, intents, channel, notified, setup>>

LeaseEnds ==
  /\ thread.status = "creating"
  /\ thread.live
  /\ thread.revision < MaxLeases
  /\ thread' = [thread EXCEPT !.live = FALSE]
  /\ UNCHANGED <<world, intents, channel, notified, setup, place>>

-----------------------------------------------------------------------------
(* The outbox, as a caller sees it. *)

\* The notice a worker delivers and the thread it goes under.
ForRoot(w) == step[w] \in {"call_root", "wait_root"}

Delivering(w) == IF ForRoot(w) THEN RootFor(w) ELSE Current(w)

Intent(w) == Id(Delivering(w))

Under(w) == IF ForRoot(w) THEN 0 ELSE thread.root

Delivered(w) == Goto(w, IF ForRoot(w) THEN "save_root" ELSE "mark")

Known(w) == Intent(w) \in DOMAIN intents

\* The intent was made with the same payload.
Same(w) == /\ intents[Intent(w)].under = Under(w)
           /\ intents[Intent(w)].says = Delivering(w).says

Call(w) ==
  /\ intents' = [n \in DOMAIN intents \cup {Intent(w)} |->
                   IF n = Intent(w)
                   THEN [status |-> "sending", under |-> Under(w), ts |-> 0,
                         says |-> Delivering(w).says]
                   ELSE intents[n]]
  /\ Goto(w, IF ForRoot(w) THEN "wait_root" ELSE "wait")

SetIntent(n, status, ts) ==
  intents' = [intents EXCEPT ![n].status = status, ![n].ts = ts]

\* Mutant: an intent that waits for review is sent again by itself.
Deliver_Resend(w) ==
  /\ step[w] \in {"call_root", "reply"}
  /\ IF Known(w) /\ intents[Intent(w)].status = "sent" THEN Delivered(w) /\ UNCHANGED intents
     ELSE IF Known(w) /\ intents[Intent(w)].status = "sending"
     THEN Goto(w, "retryable") /\ UNCHANGED intents
     ELSE Call(w)
  /\ UNCHANGED <<world, thread, channel, notified, setup>>

\* The intent is created and claimed, or the call ends as its document says;
\* an intent called for with another payload is refused.
Deliver(w) ==
  LET status == intents[Intent(w)].status
  IN  /\ step[w] \in {"call_root", "reply"}
      /\ \/ ~Known(w) /\ Call(w)
         \/ /\ Known(w)
            /\ CASE ~Same(w) \/ status \in {"needs_review", "failed"} -> Goto(w, "failed")
                 [] Same(w) /\ status = "sent" -> Delivered(w)
                 [] Same(w) /\ status = "sending" -> Goto(w, "retryable")
            /\ UNCHANGED intents
      /\ UNCHANGED <<world, thread, channel, notified, setup>>

Waiting(w) == step[w] \in {"wait_root", "wait"}

Post(n) == channel' = Append(channel, [notice |-> n, under |-> intents[n].under])

\* Slack answers, and the intent is recorded as sent.
Posted(w) ==
  /\ Waiting(w)
  /\ Post(Intent(w))
  /\ SetIntent(Intent(w), "sent", Len(channel) + 1)
  /\ Delivered(w)
  /\ UNCHANGED <<world, thread, notified, setup>>

\* The message may have been posted: nothing sends it again by itself.
Uncertain(w) ==
  /\ Waiting(w)
  /\ Post(Intent(w)) \/ UNCHANGED channel
  /\ SetIntent(Intent(w), "needs_review", 0)
  /\ Goto(w, "failed")
  /\ UNCHANGED <<world, thread, notified, setup>>

\* Mutant: the rejection is swallowed.
Refused_Swallowed(w) ==
  /\ Waiting(w)
  /\ SetIntent(Intent(w), "failed", 0)
  /\ Delivered(w)
  /\ UNCHANGED <<world, thread, channel, notified, setup>>

Refused(w) ==
  /\ Waiting(w)
  /\ SetIntent(Intent(w), "failed", 0)
  /\ Goto(w, "failed")
  /\ UNCHANGED <<world, thread, channel, notified, setup>>

\* An operator settles an intent nobody is sending: the message is found in
\* the channel and recorded, or it is sent.
Replay(n) ==
  /\ intents[n].status \in {"sending", "needs_review", "failed"}
  /\ \A w \in Workers : ~(Waiting(w) /\ Intent(w) = n)
  /\ \/ \E ts \in DOMAIN channel : /\ channel[ts].notice = n
                                  /\ SetIntent(n, "sent", ts)
                                  /\ UNCHANGED channel
     \/ /\ \A ts \in DOMAIN channel : channel[ts].notice # n
        /\ Post(n)
        /\ SetIntent(n, "sent", Len(channel) + 1)
  /\ UNCHANGED <<world, thread, notified, setup, place>>

-----------------------------------------------------------------------------
(* What follows a notice. *)

\* It is remembered in the place of the last one of its kind; after the
\* overview of an Issue come its initial assignees.
Mark(w) ==
  LET n == Id(Current(w))
  IN  /\ step[w] = "mark"
      /\ notified' = {m \in notified : m.issue # n.issue \/ m.kind # n.kind} \cup {n}
      /\ IF OnOverview(w) THEN Goto(w, "setup") ELSE Onward(w)
      /\ UNCHANGED <<world, thread, intents, channel, setup>>

\* ensureIssueOpened remembers whom the overview already named.
SetUp(w) ==
  LET n == Current(w)
  IN  /\ step[w] = "setup"
      /\ setup' = IF setup[n.issue].made THEN setup
                  ELSE [setup EXCEPT ![n.issue] = [made |-> TRUE, pending |-> n.seen.assignees]]
      /\ Onward(w)
      /\ UNCHANGED <<world, thread, intents, channel, notified>>

\* An assignment the overview named is consumed and said no more of; an
\* unassignment only forgets it.
Consume(w) ==
  LET i == Current(w).issue
      login == Hook(w).login
  IN  /\ step[w] = "consume"
      /\ setup' = [setup EXCEPT ![i].pending = @ \ {login}]
      /\ IF Hook(w).kind = "assigned" /\ login \in setup[i].pending
         THEN Onward(w) ELSE Goto(w, "check")
      /\ UNCHANGED <<world, thread, intents, channel, notified>>

Ends == {"ok", "retryable", "failed"}

Leave(w) ==
  /\ step' = [step EXCEPT ![w] = "rest"]
  /\ job' = [job EXCEPT ![w] = NoJob]
  /\ claim' = [claim EXCEPT ![w] = 0]

\* The service returns or throws.
End(w, how) ==
  /\ step[w] = how
  /\ Leave(w)
  /\ UNCHANGED <<world, thread, intents, channel, notified, setup>>

\* The process dies; a call to Slack it was waiting for may have gone through.
Die(w) ==
  /\ step[w] # "rest"
  /\ Leave(w)
  /\ (Waiting(w) /\ Post(Intent(w))) \/ UNCHANGED channel
  /\ UNCHANGED <<world, thread, intents, notified, setup>>

Act(w) ==
  \/ Load(w) \/ Check(w) \/ HasRoot(w) \/ ClaimRoot(w) \/ RootInProgress(w) \/ SaveRoot(w)
  \/ Deliver(w) \/ Posted(w) \/ Mark(w) \/ SetUp(w) \/ Consume(w)

\* What Slack does not answer well.
Fault(w) == Uncertain(w) \/ Refused(w)

Around == LeaseEnds \/ Change \/ \E n \in DOMAIN intents : Replay(n)

-----------------------------------------------------------------------------
(* Properties. *)

Thread == [revision : Nat, status : {"none", "creating", "ready"}, root : Nat,
           live : BOOLEAN]

TypeOK ==
  /\ thread \in Thread
  /\ \A n \in DOMAIN intents :
       /\ n.issue \in Issues
       /\ intents[n].status \in {"sending", "sent", "needs_review", "failed"}
       /\ intents[n].under \in Nat /\ intents[n].ts \in 0..Len(channel)
  /\ \A ts \in DOMAIN channel : channel[ts].notice \in DOMAIN intents /\ channel[ts].under \in Nat
  /\ notified \subseteq DOMAIN intents \cup {OverviewId(Work)}
  /\ \A m, n \in notified : m.issue = n.issue /\ m.kind = n.kind => m = n
  /\ DOMAIN setup = Issues
  /\ step \in [Workers -> Steps]
  /\ \A w \in Workers : job[w].event \in DOMAIN Hooks \cup {None}
  /\ claim \in [Workers -> Nat]

\* Every reply is under one and the same root, the one the thread document
\* records, however many workers raced to create it: a worker that lost its
\* lease adopts the root that was saved or retries (ensureRoot).
RepliesShareRoot ==
  \A ts \in DOMAIN channel :
    channel[ts].under # 0 => /\ thread.status = "ready"
                            /\ channel[ts].under = thread.root
                            /\ thread.root < ts
                            /\ channel[thread.root].under = 0

\* No notice is in the channel twice, though its event is handled again after
\* a retry, a death or a lost answer, though the same is read of GitHub for
\* another event, and though operators replay what is left over.
NoticeOnce ==
  \A s, t \in DOMAIN channel : channel[s].notice = channel[t].notice => s = t

InChannel(n) == \E ts \in DOMAIN channel : channel[ts].notice = n

\* Before anything is said of a Task its overview is in the channel, and what
\* is remembered as said really was posted (send, ensureIssueOpened); the
\* Work's overview may be the root another event created for it.
OverviewFirst ==
  /\ \A ts \in DOMAIN channel :
       LET n == channel[ts].notice
       IN  n.issue \in Tasks /\ n # OverviewId(n.issue) =>
             \E first \in 1..(ts - 1) : channel[first].notice = OverviewId(n.issue)
  /\ \A n \in notified \ {OverviewId(Work)} : InChannel(n)

\* The root of a thread, once recorded, is never replaced.
RootIsFinal == [][thread.status = "ready" => thread' = thread]_vars

\* The runbook: the thread has one parent post, though several workers handle
\* its first events at once.
SingleRoot ==
  \A s, t \in DOMAIN channel : channel[s].under = 0 /\ channel[t].under = 0 => s = t

\* Whom the overview of an Issue names, once it has been called for.
Named(i) == IF OverviewId(i) \in DOMAIN intents THEN intents[OverviewId(i)].says[2] ELSE {}

\* The runbook: an assignee the overview names is not announced again by the
\* assignment event of the opening (where nobody was unassigned since).
InitialAssigneeSilent ==
  \A ts \in DOMAIN channel :
    LET n == channel[ts].notice
    IN  n.kind = "issue-assignment-changed" => ~(n.print[2] \subseteq Named(n.issue))
=============================================================================
