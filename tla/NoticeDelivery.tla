---------------------------- MODULE NoticeDelivery ----------------------------
(***************************************************************************)
(* What the services that announce things share: the thread of one Work    *)
(* (notification-thread-service.ts), the outbox as a caller sees it        *)
(* (NotificationPromise), and the direct messages that follow a notice     *)
(* somebody must act on (required-action-dm-service.ts).                   *)
(*                                                                         *)
(* A handler is a webhook's worker or a scheduled job; an action is what   *)
(* it does between two awaits.  A notice is named as its intent is: by     *)
(* what the code hashes into the intent's id.  What else the message says  *)
(* is its payload: an intent called for again with another is refused.     *)
(***************************************************************************)
EXTENDS Naturals, Sequences

CONSTANTS
  Handlers,
  Users,       \* the people, each with a GitHub login
  Linked,      \* those of them with a Slack identity
  None

VARIABLES
  day,
  thread,    \* the thread document of the Work
  intents,   \* the outbox: a document per notice called for
  posts,     \* the messages posted, in order; a message's ts is its place
  lost,      \* history: the direct messages the outbox could not store
  at,        \* where each handler is
  job,       \* what it has in hand
  mishaps    \* failed calls, deaths and overrun leases so far

delivery == <<thread, intents, posts, lost, at, job, mishaps>>

\* owner: who took the lease on the root last; live: it has not run out.
NoThread == [status |-> "none", root |-> 0, owner |-> None, live |-> FALSE]

Ready(root) == [status |-> "ready", root |-> root, owner |-> None, live |-> FALSE]

\* rest, seen: the items left and the items as they were loaded; to, dms: the
\* direct message sent and those left; then: where to go when all are; ts: of
\* the channel's message; since: the number of messages when the handler began;
\* active, print, stamp: of a review request, the reviewers, why, and when.
NoJob == [task |-> "none", rest |-> <<>>, seen |-> None, actor |-> None, day |-> 0, since |-> 0,
          notice |-> None, payload |-> None, to |-> None, dms |-> {}, then |-> "idle", ts |-> 0,
          active |-> {}, print |-> None, stamp |-> 0]

Go(h, place, j) == at' = [at EXCEPT ![h] = place] /\ job' = [job EXCEPT ![h] = j]

Goto(h, place) == Go(h, place, job[h])

\* The handler is done, or something it does not catch was thrown.
Rest(h) == Go(h, "idle", NoJob)

Mishap == mishaps' = mishaps + 1

\* A handler that goes to deliver a notice.
Send(h, notice, what, under, dms, then) ==
  Go(h, "deliver", [job[h] EXCEPT !.notice = notice, !.dms = dms, !.then = then,
                                  !.payload = [what |-> what, under |-> under, dms |-> dms]])

-----------------------------------------------------------------------------
(* The outbox, and the direct messages. *)

Direct(notice, u) == <<"dm", notice, u>>

Intent(h) == IF job[h].to = None THEN job[h].notice ELSE Direct(job[h].notice, job[h].to)

\* A direct message is in no thread.
Payload(h) == IF job[h].to = None THEN job[h].payload ELSE [job[h].payload EXCEPT !.under = 0]

\* directRecipients: the one who acted is not told.
Recipients(people, actor) == (people \cap Linked) \ {actor}

\* Mutant: the first direct message is the last.
Onward_First(h, j) ==
  IF j.dms = {} \/ j.to # None
  THEN Go(h, j.then, [j EXCEPT !.to = None, !.dms = {}])
  ELSE LET u == CHOOSE v \in j.dms : TRUE
       IN  Go(h, "deliver", [j EXCEPT !.to = u, !.dms = @ \ {u}])

\* After the channel's message the direct ones, one by one, and then the
\* handler goes on; a message that was posted before is no exception.
Onward(h, j) ==
  IF j.dms = {} THEN Go(h, j.then, [j EXCEPT !.to = None])
  ELSE LET u == CHOOSE v \in j.dms : TRUE
       IN  Go(h, "deliver", [j EXCEPT !.to = u, !.dms = @ \ {u}])

Accepted(h, ts) ==
  Onward(h, IF job[h].to = None THEN [job[h] EXCEPT !.ts = ts] ELSE job[h])

\* Mutant: a direct message that fails fails its handler.
Rejected_Throws(h) == Rest(h)

\* A direct message that fails is reported and passed over; the channel's
\* message that fails ends the handler.
Rejected(h) == IF job[h].to = None THEN Rest(h) ELSE Onward(h, job[h])

\* The intent is created and claimed, or the call ends as its document says.
Deliver(h) ==
  LET n == Intent(h)
  IN  /\ at[h] = "deliver"
      /\ \/ /\ n \notin DOMAIN intents
            /\ intents' = [m \in DOMAIN intents \cup {n} |->
                             IF m = n THEN [status |-> "sending", payload |-> Payload(h), ts |-> 0]
                                      ELSE intents[m]]
            /\ Goto(h, "wait")
         \/ /\ n \in DOMAIN intents
            /\ IF intents[n].status = "sent" /\ intents[n].payload = Payload(h)
               THEN Accepted(h, intents[n].ts)
               ELSE Rejected(h)
            /\ UNCHANGED intents
      /\ UNCHANGED <<thread, posts, lost, mishaps>>

Post(n) ==
  posts' = Append(posts, [notice |-> n, under |-> intents[n].payload.under, day |-> day])

Settle(n, status, ts) ==
  intents' = [intents EXCEPT ![n].status = status, ![n].ts = ts]

\* Slack answers, and the intent is recorded as sent.
Posted(h) ==
  /\ at[h] = "wait"
  /\ Post(Intent(h))
  /\ Settle(Intent(h), "sent", Len(posts) + 1)
  /\ Accepted(h, Len(posts) + 1)
  /\ UNCHANGED <<thread, lost, mishaps>>

\* Slack rejects, or does not answer and may have posted: from then on the
\* intent waits for an operator ("failed" or "needs_review").
Uncertain(h) ==
  /\ at[h] = "wait"
  /\ Mishap
  /\ Post(Intent(h)) \/ UNCHANGED posts
  /\ Settle(Intent(h), "stuck", 0)
  /\ Rejected(h)
  /\ UNCHANGED <<thread, lost>>

\* An operator finds the message of an intent nobody sends, or has it sent.
Replay(n) ==
  /\ intents[n].status \in {"sending", "stuck"}
  /\ \A h \in Handlers : ~(at[h] = "wait" /\ Intent(h) = n)
  /\ \/ \E ts \in DOMAIN posts : posts[ts].notice = n /\ Settle(n, "sent", ts) /\ UNCHANGED posts
     \/ /\ \A ts \in DOMAIN posts : posts[ts].notice # n
        /\ Post(n)
        /\ Settle(n, "sent", Len(posts) + 1)
  /\ UNCHANGED <<thread, lost, at, job, mishaps>>

-----------------------------------------------------------------------------
(* ensureRoot: who needs a root creates it, under a lease of a minute. *)

RootNotice == <<"root">>

\* The handler goes on at the place "overview".
HasRoot(h) ==
  /\ at[h] = "ensure"
  /\ thread.status = "ready"
  /\ Goto(h, "overview")
  /\ UNCHANGED <<thread, intents, posts, lost, mishaps>>

\* Nobody has the lease, or it ran out.
ClaimRoot(h) ==
  /\ at[h] = "ensure"
  /\ thread.status # "ready" /\ ~thread.live
  /\ thread' = [status |-> "creating", root |-> 0, owner |-> h, live |-> TRUE]
  /\ Send(h, RootNotice, "root", 0, {}, "save root")
  /\ UNCHANGED <<intents, posts, lost, mishaps>>

RootInProgress(h) ==
  /\ at[h] = "ensure"
  /\ thread.status = "creating" /\ thread.live
  /\ Rest(h)
  /\ UNCHANGED <<thread, intents, posts, lost, mishaps>>

\* The root is recorded unless the lease was taken over; then another's root
\* serves as well, if it is there already.
SaveRoot(h) ==
  /\ at[h] = "save root"
  /\ IF thread.owner = h
     THEN /\ thread' = Ready(job[h].ts)
          /\ Goto(h, "overview")
     ELSE /\ IF thread.status = "ready" THEN Goto(h, "overview") ELSE Rest(h)
          /\ UNCHANGED thread
  /\ UNCHANGED <<intents, posts, lost, mishaps>>

Creating(h) == job[h].then = "save root"

\* A lease of a handler that is gone runs out; that of one at work, by mishap.
LeaseEnds ==
  /\ thread.live
  /\ IF Creating(thread.owner) THEN Mishap ELSE UNCHANGED mishaps
  /\ thread' = [thread EXCEPT !.live = FALSE]
  /\ UNCHANGED <<intents, posts, lost, at, job>>

-----------------------------------------------------------------------------
(* publish and rootTs: who has something to say of the Work itself makes its *)
(* own message the root, and of a Task says nothing before there is one.     *)

\* Mutant: the message becomes the root whatever root there is.
SaveThread_Blind(h) ==
  /\ at[h] = "publish"
  /\ thread' = Ready(job[h].ts)
  /\ Goto(h, "remember")
  /\ UNCHANGED <<intents, posts, lost, mishaps>>

\* The document is created, unless there is one by now.
SaveThread(h) ==
  /\ at[h] = "publish"
  /\ thread' = IF thread.status = "none"
               THEN Ready(job[h].ts) ELSE thread
  /\ Goto(h, "remember")
  /\ UNCHANGED <<intents, posts, lost, mishaps>>

-----------------------------------------------------------------------------
(* What goes wrong anywhere. *)

\* A call that fails outside Slack: a direct message the outbox cannot store is
\* passed over like any other that fails.
Fails(h) ==
  /\ at[h] \notin {"idle", "wait"}
  /\ Mishap
  /\ IF job[h].to # None /\ at[h] = "deliver"
     THEN Rejected(h) /\ lost' = lost \cup {Intent(h)}
     ELSE Rest(h) /\ UNCHANGED lost
  /\ UNCHANGED <<thread, intents, posts>>

\* The process dies; a call to Slack it was waiting for may have gone through.
Die(h) ==
  /\ at[h] # "idle"
  /\ Mishap
  /\ Rest(h)
  /\ (at[h] = "wait" /\ Post(Intent(h))) \/ UNCHANGED posts
  /\ UNCHANGED <<thread, intents, lost>>

DeliveryStep(h) ==
  \/ Deliver(h) \/ Posted(h)
  \/ HasRoot(h) \/ ClaimRoot(h) \/ RootInProgress(h) \/ SaveRoot(h) \/ SaveThread(h)

DeliveryFault(h) == Uncertain(h) \/ Fails(h) \/ Die(h)

DeliveryPlaces == {"idle", "deliver", "wait", "ensure", "save root", "overview", "publish",
                   "remember"}

DeliveryOK ==
  /\ thread.status \in {"none", "creating", "ready"}
  /\ thread.root \in 0..Len(posts)
  /\ thread.owner \in Handlers \cup {None} /\ thread.live \in BOOLEAN
  /\ \A n \in DOMAIN intents : /\ intents[n].status \in {"sending", "sent", "stuck"}
                               /\ intents[n].ts \in 0..Len(posts)
  /\ \A ts \in DOMAIN posts : posts[ts].notice \in DOMAIN intents /\ posts[ts].under \in 0..(ts - 1)
  /\ DOMAIN job = Handlers
  /\ mishaps \in Nat
=============================================================================
