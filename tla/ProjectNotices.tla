---------------------------- MODULE ProjectNotices ----------------------------
(***************************************************************************)
(* The notices of work items and of review requests put together, as       *)
(* start.ts wires them: one store, one outbox, one channel, one thread of  *)
(* the Work they all concern, and handlers that run at once.  A scenario   *)
(* is a course of the world (the items and the pull request, step by step) *)
(* with the bounds of its run: how often each command is given, the last   *)
(* day, and the number of mishaps.                                         *)
(***************************************************************************)
EXTENDS WorkNotices, ReviewRequests

CONSTANTS
  Tasks,      \* the commands
  Actors,     \* who may have caused a webhook: users, or None
  Scenarios

VARIABLES
  course,     \* what is still to come of the world
  left,       \* left[task]: how often a command will still be given
  last,       \* the last day and the number of mishaps there may be
  disturbed   \* history: two review requests were handled at once, or reviewers were
              \* remembered untold after a message

world == <<day, course, left, last>>
vars == <<delivery, work, review, world, disturbed>>

\* The world as a scenario has it at a time.
Moment == [item : [Items -> [state : States, target : Nat]],
           pr : [open : BOOLEAN, placed : BOOLEAN, approved : SUBSET Users,
                 changes : SUBSET Users]]

ASSUME NoticesAssumption ==
  /\ None \notin Handlers \cup Users \cup Items \cup {"review"} \X Nat
  /\ RootOf \in [Items -> Items \cup {None}] /\ Owner \in [Items -> Users \cup {None}]
  /\ Order \in Seq(Items) \ {<<>>} /\ \A i \in Items : \E n \in DOMAIN Order : Order[n] = i
  /\ Linked \subseteq Users /\ Planned \subseteq Users /\ Actors \subseteq Users \cup {None}
  /\ LeadDays \in Nat /\ Reminder \in Nat \ {0}
  /\ \A s \in Scenarios : s.course \in Seq(Moment) \ {<<>>} /\ s.first \in Nat

\* With a root, it was posted before.
WithRoot(rooted) ==
  IF rooted
  THEN /\ thread = Ready(1)
       /\ intents = [n \in {RootNotice} |->
                       [status |-> "sent", ts |-> 1,
                        payload |-> [what |-> "root", under |-> 0, dms |-> {}]]]
       /\ posts = <<[notice |-> RootNotice, under |-> 0, day |-> 0]>>
  ELSE thread = NoThread /\ intents = <<>> /\ posts = <<>>

Init ==
  \E s \in Scenarios :
    /\ WithRoot(s.rooted)
    /\ lost = {}
    /\ at = [h \in Handlers |-> "idle"]
    /\ job = [h \in Handlers |-> NoJob]
    /\ mishaps = 0
    /\ InitWork(Head(s.course).item)
    /\ InitReview(Head(s.course).pr)
    /\ course = Tail(s.course)
    /\ left = s.left
    /\ day = s.first
    /\ last = s.last
    /\ disturbed = FALSE

-----------------------------------------------------------------------------

\* The items or the pull request change; who reviews is no longer requested.
Change ==
  /\ course # <<>>
  /\ item' = Head(course).item
  /\ pr' = Head(course).pr
  /\ requested' = requested \ ((pr'.approved \ pr.approved) \cup (pr'.changes \ pr.changes))
  /\ course' = Tail(course)
  /\ UNCHANGED <<delivery, memory, reviewed, recorded, stamps, day, left, last, disturbed>>

NextDay ==
  /\ day < last.day
  /\ day' = day + 1
  /\ UNCHANGED <<delivery, work, review, course, left, last, disturbed>>

Reviewing(h) == job[h].task \in {"pull request", "push", "remind"}

Command(h, task, actor) ==
  \/ task = "state" /\ Begin(h, "state", actor) /\ UNCHANGED review
  \/ task = "deadlines" /\ actor = None /\ Begin(h, "deadline", None) /\ UNCHANGED review
  \/ task = "digest" /\ actor = None /\ Digest(h) /\ UNCHANGED review
  \/ task \in {"pull request", "push"} /\ Examine(h, task, IF actor = None THEN Author ELSE actor)
     /\ UNCHANGED work
  \/ task = "remind" /\ actor = None /\ Examine(h, task, Author) /\ UNCHANGED work

\* Handlers are alike: an idle one stands for all.
First(h) == at[h] = "idle" /\ h = CHOOSE g \in Handlers : at[g] = "idle"

Give(h, task, actor) ==
  /\ First(h)
  /\ left[task] > 0
  /\ left' = [left EXCEPT ![task] = @ - 1]
  /\ Command(h, task, actor)
  /\ UNCHANGED <<day, course, last>>

\* The deadline job, day after day.
Schedule(h) ==
  /\ First(h)
  /\ left["every day"] > 0
  /\ Command(h, "deadlines", None)
  /\ UNCHANGED world

Handle(h) ==
  /\ \/ DeliveryStep(h) /\ UNCHANGED <<work, review>>
     \/ WorkStep(h) /\ UNCHANGED review
     \/ ReviewStep(h) /\ UNCHANGED work
  /\ UNCHANGED world

Break(h) == DeliveryFault(h) /\ mishaps' <= last.mishaps /\ UNCHANGED <<work, review, world>>

\* The messages that ask for reviews.
Asked == {ts \in DOMAIN posts : posts[ts].notice[1] = "review"}

Untold(h) == at[h] = "rest" /\ job[h].notice = None

Record ==
  disturbed' = (disturbed \/ (\E g, h \in Handlers : g # h /\ Reviewing(g)' /\ Reviewing(h)')
                          \/ (Asked # {} /\ \E h \in Handlers : Untold(h)))

Outside ==
  /\ (LeaseEnds /\ mishaps' <= last.mishaps) \/ \E n \in DOMAIN intents : Replay(n)
  /\ UNCHANGED <<work, review, world>>

Next ==
  \/ \E h \in Handlers :
       /\ \/ \E task \in Tasks, actor \in Actors \cup {None} : Give(h, task, actor)
          \/ Schedule(h) \/ Handle(h) \/ Break(h)
       /\ Record
  \/ Outside /\ Record
  \/ Change
  \/ NextDay

Spec == Init /\ [][Next]_vars

\* Handlers that live go on, and the deadline job is run every day.
FairSpec ==
  /\ Spec
  /\ \A h \in Handlers : WF_vars(Handle(h) /\ Record)
  /\ WF_vars(\E h \in Handlers : Schedule(h) /\ Record)

-----------------------------------------------------------------------------
(* Properties. *)

\* Every variable has its type, and a handler is where there is something to do.
TypeOK ==
  /\ DeliveryOK /\ WorkOK /\ ReviewOK
  /\ at \in [Handlers -> DeliveryPlaces \cup WorkPlaces \cup ReviewPlaces]

\* What a message tells whom: an item's state or stage of its deadline, or a
\* review request's content, to the channel or to one user.
Content(n) ==
  IF n[1] = "dm" THEN <<n[1], n[2], n[3]>>
  ELSE IF n[1] = "state" THEN <<n[1], n[2], n[3]>>
  ELSE n

\* The state of an item, and a stage of its deadline, is told once to the channel
\* and once to whom it may concern: though runs with stale items remove and
\* replace each other's memory, webhooks of several actors come, and a run that
\* died is made up for (work-notification-service.ts, the intents' names).
ToldOnce ==
  \A s, t \in DOMAIN posts :
    Content(posts[s].notice) = Content(posts[t].notice) => s = t

\* Everything under a root is under the recorded one, which is a message of its
\* own; and what is said of a Task is never said outside its thread, though
\* publish and ensureRoot race to make the root.
RepliesShareRoot ==
  \A ts \in DOMAIN posts :
    LET p == posts[ts]
    IN  /\ p.under # 0 => thread.root = p.under /\ posts[p.under].under = 0
        /\ p.notice[1] \in {"review", "overview"} => p.under # 0
        /\ p.notice[1] \in {"state", "deadline"} /\ RootOf[p.notice[2]] # p.notice[2] => p.under # 0

\* The reviewers and reasons of a message.
Why(ts) == intents[posts[ts].notice].payload.what

Remembered ==
  ({memory[kind][i] : kind \in {"state", "deadline"}, i \in Items}
   \cup {reviewed.notice}) \ {None}

\* What is remembered as told really is in the channel; but for reviewers of a
\* Task without a Work, of whom no notice is made.
RememberedIsPosted ==
  \A n \in Remembered : \E ts \in DOMAIN posts : posts[ts].notice = n

\* Whoever has to act on what is remembered as told has the direct message, or
\* an operator finds it in the outbox: whatever died between the two and
\* wherever Slack failed, only an outbox that could not store it loses one.
DirectsAreKept ==
  \A n \in Remembered : \A u \in intents[n].payload.dms :
    Direct(n, u) \in DOMAIN intents \cup lost

\* When the reviewers and the reasons are those of the message before, they are
\* asked again after a day only, unless a call failed, a process died, two workers
\* handled the pull request at once, or its Task was without a Work meanwhile.
ReviewRests ==
  mishaps = 0 /\ ~disturbed =>
    \A t \in Asked :
      LET earlier == {s \in Asked : s < t}
      IN  earlier # {} => LET s == Max(earlier)
                          IN  Why(s) = Why(t) => posts[t].day - posts[s].day >= Reminder

-----------------------------------------------------------------------------

Overdue(i) ==
  left["every day"] > 0 /\ item[i].state \notin {"silent", "done"} /\ Owner[i] # None
  /\ item[i].target > 0 /\ day > item[i].target

\* The intent of an item's deadline waits for an operator, or was made with
\* another payload; then a run ends there.
Refuses(i) ==
  LET n == DeadlineNotice(i, item[i], day)
  IN  /\ n \in DOMAIN intents
      /\ intents[n].status # "sent" \/ intents[n].payload.under # thread.root
         \/ intents[n].payload.what # <<item[i], None>>

Before(i) == {Order[n] : n \in {k \in DOMAIN Order : \E m \in DOMAIN Order : k <= m /\ Order[m] = i}}

\* An item that stays overdue is told in the end, unless there is no thread for
\* it, or the intent of an item up to it waits for an operator: a direct message
\* that failed holds nothing up.
OverdueIsTold ==
  \A i \in Items :
    \/ <>(\E ts \in DOMAIN posts : posts[ts].notice = <<"deadline", i, item[i].target, "overdue">>)
    \/ []<>(~Overdue(i) \/ thread.status = "creating" \/ RootOf[i] = None
            \/ (RootOf[i] # i /\ thread.status = "none")
            \/ \E j \in Before(i) : Refuses(j))

\* The test of the state notices: a state that was left and is found again is
\* told again; a run that is about to remember it has posted it.
ToldAgain ==
  \A h \in Handlers :
    at[h] = "remember" /\ job[h].task = "state" => job[h].ts > job[h].since
=============================================================================
