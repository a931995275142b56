--------------------------- MODULE LifecycleEvents ---------------------------
(***************************************************************************)
(* What a webhook asks LifecycleNotificationService to say                 *)
(* (lifecycle-notification-service.ts, from process down to send): for     *)
(* each Issue or pull request it is about, as GitHub shows it when it is   *)
(* loaded, a sequence of notices.                                          *)
(*                                                                         *)
(* A hook is [kind, about, id, login, actor, codes, at]: kind names the    *)
(* event with its action, or the result of a check or of a review; about,  *)
(* the Issues or pull requests in their order; id, the comment, review or  *)
(* check, or the time of the change; login, who was assigned; codes, the   *)
(* policies a check found broken; at, the state of the world it came with. *)
(* Webhooks that ask for nothing by their kind alone are left out.         *)
(*                                                                         *)
(* A notice is [issue, kind, print, says, seen]: issue, kind and print (the*)
(* event's fingerprint) name its intent; says is what else of its payload  *)
(* varies; seen is the Issue as it was loaded: [placed, assignees,         *)
(* selfMerge, open], placed for a Task whose parent is the Work.           *)
(***************************************************************************)
EXTENDS Sequences

CONSTANTS
  Work,       \* the Work whose thread this is
  Tasks,      \* Issues of type Task
  Requester,  \* who asked for the Issues to be opened
  None

Issues == {Work} \cup Tasks

\* A Task whose parent is not the Work has no thread.
Adrift(n) == n.issue \in Tasks /\ ~n.seen.placed

Id(n) == [issue |-> n.issue, kind |-> n.kind, print |-> n.print]

\* The overview of an Issue names its assignees and its merge policy.
Overview(i, issue) ==
  [issue |-> i, kind |-> "issue-opened", print |-> <<"opened">>, seen |-> issue,
   says |-> <<Requester, issue.assignees, issue.selfMerge>>]

OverviewId(i) == [issue |-> i, kind |-> "issue-opened", print |-> <<"opened">>]

\* The root that another event of a thread creates for it, of the Work as loaded.
RootNotice(work) == [Overview(Work, work) EXCEPT !.print = <<"issue-root-v1">>]

Notice(i, issue, kind, print, says) ==
  [issue |-> i, kind |-> kind, print |-> print, says |-> says, seen |-> issue]

-----------------------------------------------------------------------------

\* notifySelfMergeScheduled: once for an Issue, whoever sets the label.
SelfMergeScheduled(i, issue, actor) ==
  IF i \in Tasks /\ issue.selfMerge
  THEN <<Notice(i, issue, "self-merge-scheduled", <<"self">>, <<actor, issue.assignees>>)>>
  ELSE <<>>

\* processIssue and, of an Issue, processIssueComment.  An assignment waits for
\* the overview, which may have said it.
OfIssue(hook, i, issue) ==
  LET Say(kind, print) == Notice(i, issue, kind, print, <<hook.actor, issue.assignees>>)
  IN  CASE hook.kind = "opened" ->
             <<Overview(i, issue)>> \o SelfMergeScheduled(i, issue, Requester)
        [] hook.kind \in {"assigned", "unassigned"} ->
             <<Overview(i, issue),
               Say("issue-assignment-changed", <<hook.kind, issue.assignees>>)>>
        [] hook.kind = "labeled" -> SelfMergeScheduled(i, issue, hook.actor)
        [] hook.kind = "reopened" -> <<Say("issue-reopened", <<hook.id, issue.open>>)>>
        [] hook.kind = "closed" -> <<Say("issue-completed", <<hook.id, issue.open>>)>>
        [] hook.kind = "comment" -> <<Say("comment-created", <<hook.id>>)>>

\* processCheck.  Who is to review has been told: a check that only misses a
\* reviewer says nothing when there is one.  The codes may not be readable.
OfCheck(hook, pull, issue, codes) ==
  LET unreviewed == codes = {"AR-PR-004"}
      people == IF unreviewed THEN {} ELSE issue.assignees
  IN  CASE pull.draft \/ ~pull.open \/ (unreviewed /\ pull.requested) -> <<>>
        [] hook.kind = "failure" ->
             <<Notice(pull.issue, issue, "ci-failed", <<pull.head, codes>>,
                      <<hook.actor, people, hook.id>>)>>
        [] hook.kind = "success" /\ pull.clean /\ issue.selfMerge ->
             <<Notice(pull.issue, issue, "self-merge-ready", <<pull.head>>,
                      <<hook.actor, issue.assignees>>)>>
        [] OTHER -> <<>>

\* What is said of a comment on a pull request and of a review's result.
Said ==
  [pull_comment |-> "comment-created", review_comment |-> "review-commented",
   commented |-> "review-commented", approved |-> "review-approved",
   changes_requested |-> "review-changes-requested", dismissed |-> "review-dismissed"]

\* processPullRequest, processReview, processReviewComment and, of a pull
\* request, processIssueComment.
OfPull(hook, pull, issue) ==
  LET Say(kind, print, people) ==
        <<Notice(pull.issue, issue, kind, print, <<hook.actor, people>>)>>
  IN  CASE hook.kind = "synchronize" ->
             IF pull.returned THEN Say("revision-pushed", <<pull.head>>, {}) ELSE <<>>
        [] hook.kind = "merged" ->
             Say("pr-merged", <<hook.id, pull.head>>, issue.assignees)
        [] hook.kind \in DOMAIN Said -> Say(Said[hook.kind], <<hook.kind, hook.id>>, {})

\* The webhooks of Issues and those of pull requests.
IssueKinds == {"opened", "assigned", "unassigned", "labeled", "reopened", "closed", "comment"}

PullKinds == {"failure", "success", "synchronize", "merged"} \cup DOMAIN Said

\* A hook is about what its kind says, and a pull request closes a Task or nothing.
Fits(hook, subject, world) ==
  IF subject \in Issues THEN hook.kind \in IssueKinds
  ELSE hook.kind \in PullKinds /\ world[subject].issue \in Tasks \cup {None}

\* What hook asks to be said of subject, loaded from the world.  A pull request
\* that does not close exactly one Issue, a Task, has nothing said of it.
Owed(hook, subject, world, codes) ==
  IF subject \in Issues THEN OfIssue(hook, subject, world[subject])
  ELSE LET pull == world[subject]
       IN  IF pull.issue = None THEN <<>>
           ELSE IF hook.kind \in {"failure", "success"}
                THEN OfCheck(hook, pull, world[pull.issue], codes)
                ELSE OfPull(hook, pull, world[pull.issue])

\* The codes a handler may come to know.
Readable(hook) == {hook.codes, {}}
=============================================================================
