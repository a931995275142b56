----------------------------- MODULE WorkNotices -----------------------------
(***************************************************************************)
(* What is said of the work items of the shared repository                 *)
(* (work-notification-service.ts): that an item needs somebody at once,    *)
(* that its target date comes near, and the digest of a day.  Each run     *)
(* loads all items and goes through them in their order; the first thing   *)
(* thrown ends it.                                                         *)
(***************************************************************************)
EXTENDS NoticeDelivery

CONSTANTS
  Items,
  Order,      \* the sequence in which the items are loaded
  RootOf,     \* RootOf[i]: the Work whose thread i belongs to, None if unresolved
  Owner,      \* Owner[i]: the user an item is assigned to, or None
  LeadDays    \* how many days ahead a target date is near

VARIABLES
  item,       \* the items: their state and target day, 0 if there is none
  memory      \* memory[kind][i]: the notice remembered of i, of either kind

work == <<item, memory>>

\* "blocked" and "retitled" are one state under two titles: what is hashed is
\* the same, the payload is not.
States == {"blocked", "retitled", "conflict", "active", "silent", "done"}

Fingerprint(f) == [f EXCEPT !.state = IF @ = "retitled" THEN "blocked" ELSE @]

\* Failing checks are left to the lifecycle notices, and count as "active" here.
Immediate(f) == f.state \in {"blocked", "retitled", "conflict"}

InitWork(items) ==
  /\ item = items
  /\ memory = [kind \in {"state", "deadline"} |-> [i \in Items |-> None]]

-----------------------------------------------------------------------------

\* Mutant: the intent is named by who acted, too.
StateNotice_Actor(i, f, actor) ==
  IF Immediate(f) THEN <<"state", i, Fingerprint(f), actor>> ELSE None

\* notifyImmediate: the intent is named by the item and its fingerprint.
StateNotice(i, f, actor) == IF Immediate(f) THEN <<"state", i, Fingerprint(f)>> ELSE None

Stage(f, today) ==
  IF today > f.target THEN "overdue" ELSE IF today = f.target THEN "due-today" ELSE "due-soon"

\* deadlineStage: an item with an owner and a target day that is near or past.
DeadlineNotice(i, f, today) ==
  IF f.state \in {"silent", "done"} \/ Owner[i] = None \/ f.target = 0
     \/ f.target > today + LeadDays
  THEN None
  ELSE <<"deadline", i, f.target, Stage(f, today)>>

Wanted(j, i) == IF j.task = "state" THEN StateNotice(i, j.seen[i], j.actor)
                                    ELSE DeadlineNotice(i, j.seen[i], j.day)

\* notifyThreaded: a blocker or an overdue item is its owner's to act on.
Required(n) == IF n[1] = "state" THEN n[3].state = "blocked" ELSE n[4] = "overdue"

Told(j, i, n) == IF Required(n) THEN Recipients({Owner[i]} \ {None}, j.actor) ELSE {}

\* What else the message says: the item as it was loaded, and who acted.
Said(j, i) == <<j.seen[i], j.actor>>

-----------------------------------------------------------------------------
(* A run. *)

Begin(h, task, actor) ==
  /\ at[h] = "idle"
  /\ Go(h, "item", [NoJob EXCEPT !.task = task, !.rest = Order, !.seen = item, !.actor = actor,
                                 !.day = day, !.since = Len(posts)])
  /\ UNCHANGED <<thread, intents, posts, lost, mishaps, work>>

Advance(h) ==
  IF Tail(job[h].rest) = <<>> THEN Rest(h)
  ELSE Go(h, "item", [job[h] EXCEPT !.rest = Tail(@), !.notice = None, !.payload = None,
                                    !.then = "idle", !.ts = 0])

\* An item that wants no notice is forgotten; one whose notice is remembered is
\* passed over.
Consider(h) ==
  LET j == job[h]
      i == Head(j.rest)
      n == Wanted(j, i)
  IN  /\ at[h] = "item"
      /\ \/ n = None /\ Advance(h) /\ memory' = [memory EXCEPT ![j.task][i] = None]
         \/ n # None /\ memory[j.task][i] = n /\ Advance(h) /\ UNCHANGED memory
         \/ n # None /\ memory[j.task][i] # n /\ Goto(h, "thread") /\ UNCHANGED memory
      /\ UNCHANGED <<thread, intents, posts, lost, mishaps, item>>

\* Mutant: a Task without a root to reply to counts as told.
ReadThread_Counts(h) ==
  LET j == job[h]
      i == Head(j.rest)
      n == Wanted(j, i)
  IN  /\ at[h] = "thread"
      /\ IF RootOf[i] = None THEN Advance(h)
         ELSE IF thread.status = "creating" THEN Rest(h)
         ELSE IF RootOf[i] # i /\ thread.status = "none"
              THEN Go(h, "remember", [j EXCEPT !.notice = n])
         ELSE Send(h, n, Said(j, i), thread.root, Told(j, i, n),
                   IF thread.status = "none" THEN "publish" ELSE "remember")
      /\ UNCHANGED <<thread, intents, posts, lost, mishaps, work>>

\* A Task is left untold where there is no thread; nothing is said while
\* another creates the root, even if its lease has run out.
ReadThread(h) ==
  LET j == job[h]
      i == Head(j.rest)
      n == Wanted(j, i)
  IN  /\ at[h] = "thread"
      /\ IF RootOf[i] = None THEN Advance(h)
         ELSE IF thread.status = "creating" THEN Rest(h)
         ELSE IF RootOf[i] # i /\ thread.status = "none" THEN Advance(h)
         ELSE Send(h, n, Said(j, i), thread.root, Told(j, i, n),
                   IF thread.status = "none" THEN "publish" ELSE "remember")
      /\ UNCHANGED <<thread, intents, posts, lost, mishaps, work>>

\* Mutant: a deadline's notice is remembered as a state's.
Remember_State(h) ==
  LET j == job[h]
  IN  /\ at[h] = "remember"
      /\ memory' = [memory EXCEPT !["state"][Head(j.rest)] = j.notice]
      /\ Advance(h)
      /\ UNCHANGED <<thread, intents, posts, lost, mishaps, item>>

\* Whatever another run has stored or removed by now is replaced.
Remember(h) ==
  LET j == job[h]
  IN  /\ at[h] = "remember"
      /\ memory' = [memory EXCEPT ![j.task][Head(j.rest)] = j.notice]
      /\ Advance(h)
      /\ UNCHANGED <<thread, intents, posts, lost, mishaps, item>>

\* sendDigest: the items that are not silent, in a message of their own.
Digest(h) ==
  LET listed == {i \in Items : item[i].state # "silent"}
  IN  /\ at[h] = "idle"
      /\ listed # {}
      /\ Send(h, <<"digest", day, [i \in listed |-> Fingerprint(item[i]).state]>>,
              [i \in listed |-> item[i]], 0, {}, "digested")
      /\ UNCHANGED <<thread, intents, posts, lost, mishaps, work>>

Digested(h) ==
  /\ at[h] = "digested"
  /\ Rest(h)
  /\ UNCHANGED <<thread, intents, posts, lost, mishaps, work>>

WorkStep(h) == Consider(h) \/ ReadThread(h) \/ Remember(h) \/ Digested(h)

WorkPlaces == {"item", "thread", "digested"}

WorkOK ==
  /\ \A i \in Items : item[i].state \in States /\ item[i].target \in Nat
  /\ \A kind \in {"state", "deadline"}, i \in Items :
       LET n == memory[kind][i] IN n # None => n[1] = kind /\ n[2] = i
=============================================================================
