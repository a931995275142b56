-------------------------- MODULE MCWebhookPipeline --------------------------
(***************************************************************************)
(* Small scenarios of WebhookPipeline for TLC: a Work, its Task, a Task    *)
(* without a Work, and some of their webhooks.                             *)
(***************************************************************************)
EXTENDS WebhookPipeline, TLC

CONSTANTS work, issue, stray, pr, other, ann, bob, boss, h1, h2, x1, x2

Hook(kind, about, when) ==
  [kind |-> kind, about |-> about, id |-> x1, login |-> None, actor |-> boss, codes |-> {},
   at |-> when]

Assigned(kind, i, login, when) == [Hook(kind, <<i>>, when) EXCEPT !.login = login]

Issue(assignees) ==
  [assignees |-> assignees, selfMerge |-> FALSE, open |-> TRUE, placed |-> TRUE]

Stray == [Issue({ann}) EXCEPT !.placed = FALSE]

NoPull == [issue |-> None, open |-> TRUE, draft |-> FALSE, head |-> h1, clean |-> TRUE,
           requested |-> FALSE, returned |-> FALSE]

\* The state of the world in which the Work and the Task are such.
World(ofWork, ofTask) ==
  work :> ofWork @@ issue :> ofTask @@ stray :> Stray
  @@ pr :> [NoPull EXCEPT !.issue = issue] @@ other :> [NoPull EXCEPT !.issue = stray]

Still(assignees) == World(Issue({}), Issue(assignees))

Opening(hooks) == [hooks |-> hooks, course |-> <<Still({ann})>>, rooted |-> FALSE]

Comment == Hook("comment", <<issue>>, 1)

OpeningOfWork == Opening("e1" :> Hook("opened", <<work>>, 1) @@ "e2" :> Comment)

\* A Task opened with an assignee.
OpeningOfTask == Opening("e1" :> Assigned("assigned", issue, ann, 1) @@ "e2" :> Comment)

OpeningOfBoth ==
  Opening("e1" :> Hook("opened", <<work>>, 1) @@ "e2" :> Assigned("assigned", issue, ann, 1)
          @@ "e3" :> Comment)

\* A Task made from Slack, whose parent comes after it.
OpeningFromSlack ==
  [Opening("e1" :> Hook("opened", <<issue>>, 1) @@ "e2" :> Assigned("assigned", issue, ann, 1))
     EXCEPT !.course = <<World(Issue({}), Stray), Still({ann})>>]

\* A Work is assigned while its Task makes the thread.
WorkAssigned ==
  [Opening("e1" :> Comment @@ "e2" :> Assigned("assigned", work, ann, 2))
     EXCEPT !.course = <<Still({ann}), World(Issue({ann}), Issue({ann}))>>]

\* Of a Work or of a Task in a thread that is there.
Thread(hooks, course) == [hooks |-> hooks, course |-> course, rooted |-> TRUE]

\* A Task's second assignee comes, goes and comes again.
Reassigned ==
  Thread("e1" :> Assigned("assigned", issue, bob, 2)
         @@ "e2" :> Assigned("unassigned", issue, bob, 3)
         @@ "e3" :> [Assigned("assigned", issue, bob, 4) EXCEPT !.actor = bob],
         <<Still({ann}), Still({ann, bob}), Still({ann}), Still({ann, bob})>>)

Pulled(p) == [Still({ann}) EXCEPT ![pr] = [p EXCEPT !.issue = issue]]

\* A check of two pull requests fails for want of a reviewer, the head changes, and
\* another check fails.
CheckFails ==
  Thread("e1" :> [Hook("failure", <<other, pr>>, 1) EXCEPT !.codes = {"AR-PR-004"}]
         @@ "e2" :> [Hook("failure", <<pr>>, 2) EXCEPT !.id = x2]
         @@ "e3" :> Hook("synchronize", <<pr>>, 2),
         <<Pulled(NoPull), Pulled([NoPull EXCEPT !.head = h2, !.returned = TRUE])>>)

\* A Task opened to be merged by its author, and its check.
SelfMerge ==
  Thread("e1" :> Hook("opened", <<issue>>, 1) @@ "e2" :> Hook("labeled", <<issue>>, 1)
         @@ "e3" :> Hook("success", <<pr>>, 1),
         <<World(Issue({}), [Issue({ann}) EXCEPT !.selfMerge = TRUE])>>)

\* A review, a comment on it, and the merge.
Reviewed ==
  Thread("e1" :> Hook("commented", <<pr>>, 1) @@ "e2" :> Hook("review_comment", <<pr>>, 1)
         @@ "e3" :> Hook("merged", <<pr>>, 1), <<Still({ann})>>)

\* A Task is closed and opened again.
ClosedAndReopened ==
  Thread("e1" :> Hook("closed", <<issue>>, 2) @@ "e2" :> Hook("reopened", <<issue>>, 3),
         <<Still({ann}), World(Issue({}), [Issue({ann}) EXCEPT !.open = FALSE]), Still({ann})>>)

WorkScenario == <<OpeningOfWork>>
TaskScenario == <<OpeningOfTask>>
AllScenarios == <<OpeningOfBoth, OpeningFromSlack, WorkAssigned, Reassigned, CheckFails, SelfMerge, Reviewed,
                  ClosedAndReopened>>

Symmetry == Permutations(Workers)
=============================================================================
