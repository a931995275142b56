---------------------------- MODULE ReviewRequests ----------------------------
(***************************************************************************)
(* The review requests of one pull request that closes a Task              *)
(* (review-service.ts, slack-review-notifier.ts): who is asked, on GitHub  *)
(* and in the thread of the Task's Work, and when they are asked again.    *)
(***************************************************************************)
EXTENDS NoticeDelivery, SequencesExt

CONSTANTS
  Author,
  Planned,     \* the reviewers the Task's body plans
  Rules,       \* CODEOWNERS: a sequence of the files a rule matches and its owners
  Files,       \* the files the pull request changes
  Reminder     \* days after which the same reviewers are asked again

VARIABLES
  pr,         \* the pull request: whether it is open and its Task has a Work, who
              \* approved and who wants changes
  requested,  \* the reviewers GitHub has as requested
  reviewed,   \* the document "review-notification"
  recorded,   \* whether the read model is stored, which the reminders list
  stamps      \* how many models were built: each is named by its time

review == <<pr, requested, reviewed, recorded, stamps>>

NoReview == [status |-> "none", print |-> None, day |-> 0, notice |-> None]

InitReview(pull) ==
  /\ pr = pull
  /\ requested = {}
  /\ reviewed = NoReview
  /\ recorded = FALSE
  /\ stamps = 0

-----------------------------------------------------------------------------
(* Who is asked. *)

\* matchingOwners: those of the last rule that matches.
Owners(file) ==
  LET n == SelectLastInSeq(Rules, LAMBDA rule : file \in rule.files)
  IN  IF n = 0 THEN {} ELSE Rules[n].owners

\* collectReviewerCandidates: each with the reasons for it.
Reasons(u) ==
  (IF u \in requested THEN {<<"requested">>} ELSE {}) \cup (IF u \in Planned THEN {<<"planned">>} ELSE {})
  \cup {<<"owner", file>> : file \in {f \in Files : u \in Owners(f)}}

Candidates == {u \in Users : Reasons(u) # {}}

\* Those who want changes are asked again only when something was pushed.
Active(again) ==
  Candidates \ ({Author} \cup pr.approved \cup (IF again THEN {} ELSE pr.changes))

-----------------------------------------------------------------------------
(* process *)

\* The pull request is read; a reminder does so for one with a read model.
Examine(h, task, actor) ==
  LET active == Active(task = "push")
  IN  /\ at[h] = "idle"
      /\ pr.open
      /\ task = "remind" => recorded
      /\ Go(h, "request", [NoJob EXCEPT !.task = task, !.actor = actor, !.active = active,
                                        !.seen = requested, !.since = Len(posts),
                                        !.print = [u \in active |-> Reasons(u)]])
      /\ UNCHANGED <<thread, intents, posts, lost, mishaps, review>>

\* requestPullRequestReviewers: those not requested yet are; then the model is built.
Request(h) ==
  /\ at[h] = "request"
  /\ requested' = requested \cup (job[h].active \ job[h].seen)
  /\ stamps' = stamps + 1
  /\ Go(h, "compare", [job[h] EXCEPT !.stamp = stamps + 1])
  /\ UNCHANGED <<thread, intents, posts, lost, mishaps, pr, reviewed, recorded>>

\* Mutant: the time of the last request does not matter.
ShouldNotify_Always(h) == TRUE

\* shouldNotify: other reviewers or reasons, or a day has passed.
ShouldNotify(h) ==
  reviewed.status = "none" \/ reviewed.print # job[h].print \/ day - reviewed.day >= Reminder

\* The reviewers of a Task without a Work are not told, yet remembered as told.
Compare(h) ==
  /\ at[h] = "compare"
  /\ Goto(h, IF ~ShouldNotify(h) THEN "record" ELSE IF pr.placed THEN "ensure" ELSE "rest")
  /\ UNCHANGED <<thread, intents, posts, lost, mishaps, review>>

\* The Task's overview goes first, the same intent as the lifecycle's.
Overview(h) ==
  /\ at[h] = "overview"
  /\ Send(h, <<"overview">>, "overview", thread.root, {}, "ask")
  /\ UNCHANGED <<thread, intents, posts, lost, mishaps, review>>

\* The reviewers are told directly, too.
Ask(h) ==
  /\ at[h] = "ask"
  /\ Send(h, <<"review", job[h].stamp>>, job[h].print, thread.root,
          Recipients(job[h].active, job[h].actor), "rest")
  /\ UNCHANGED <<thread, intents, posts, lost, mishaps, review>>

\* rememberNotification: whatever is there by now is replaced.
RememberReview(h) ==
  /\ at[h] = "rest"
  /\ reviewed' = [status |-> "told", print |-> job[h].print, day |-> day,
                  notice |-> job[h].notice]
  /\ Goto(h, "record")
  /\ UNCHANGED <<thread, intents, posts, lost, mishaps, pr, requested, recorded, stamps>>

RecordModel(h) ==
  /\ at[h] = "record"
  /\ recorded' = TRUE
  /\ Rest(h)
  /\ UNCHANGED <<thread, intents, posts, lost, mishaps, pr, requested, reviewed, stamps>>

ReviewStep(h) ==
  \/ Request(h) \/ Compare(h) \/ Overview(h) \/ Ask(h) \/ RememberReview(h) \/ RecordModel(h)

ReviewPlaces == {"request", "compare", "ask", "rest", "record"}

ReviewOK ==
  /\ requested \subseteq Users \ {Author}
  /\ reviewed.status \in {"none", "told"} /\ reviewed.day \in Nat
  /\ reviewed.status = "told" => DOMAIN reviewed.print \subseteq Users
  /\ recorded \in BOOLEAN
=============================================================================
