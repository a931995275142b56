--------------------------- MODULE MCProjectNotices ---------------------------
(***************************************************************************)
(* Small scenarios of ProjectNotices for TLC: a Work w with a Task t, and  *)
(* a pull request of the Task with three reviewers.                        *)
(***************************************************************************)
EXTENDS ProjectNotices

CONSTANTS w, t, alice, bob, carol, dave, f1, f2

MCOrder == <<w, t>>
MCRootOf == w :> w @@ t :> w
MCOwner == w :> bob @@ t :> alice
\* The last rule that matches f1 gives it to nobody but bob.
MCRules == <<[files |-> {f1, f2}, owners |-> {alice, dave}],
             [files |-> {f1}, owners |-> {bob}]>>

MCTasks == {"state", "deadlines", "digest", "pull request", "push", "remind"}

Item(state, target) == [state |-> state, target |-> target]
Pull(approved, changes) ==
  [open |-> TRUE, placed |-> TRUE, approved |-> approved, changes |-> changes]
NoPull == [Pull({}, {}) EXCEPT !.open = FALSE]
NoPlace == [Pull({bob, carol}, {}) EXCEPT !.placed = FALSE]
At(ofWork, ofTask, pull) == [item |-> w :> ofWork @@ t :> ofTask, pr |-> pull]

Rest0 == Item("active", 0)

Scenario(steps, given, from, to, faults, rooted) ==
  [course |-> steps, first |-> from, last |-> [day |-> to, mishaps |-> faults],
   rooted |-> rooted,
   left |-> [c \in MCTasks \cup {"every day"} |-> IF c \in DOMAIN given THEN given[c] ELSE 0]]

MCScenarios ==
  { \* states: the Work's own message makes the thread, and the Task's follows
    Scenario(<<At(Item("blocked", 0), Item("conflict", 0), NoPull),
               At(Item("active", 0), Item("blocked", 0), NoPull)>>,
             "state" :> 2, 0, 0, 1, FALSE),
    Scenario(<<At(Rest0, Item("blocked", 0), NoPull), At(Rest0, Rest0, NoPull),
               At(Rest0, Item("retitled", 0), NoPull)>>,
             "state" :> 3, 0, 0, 0, TRUE),
    \* a review request makes the root while a state is told
    Scenario(<<At(Item("blocked", 0), Rest0, Pull({bob, carol}, {}))>>,
             "state" :> 1 @@ "pull request" :> 1, 0, 0, 1, FALSE),
    \* reviews: as the days pass, and when something fails
    Scenario(<<At(Rest0, Rest0, Pull({bob}, {})), At(Rest0, Rest0, Pull({bob}, {carol}))>>,
             "push" :> 1 @@ "remind" :> 2, 0, 1, 0, TRUE),
    Scenario(<<At(Rest0, Rest0, Pull({}, {}))>>, "pull request" :> 2, 0, 0, 1, TRUE),
    Scenario(<<At(Rest0, Rest0, NoPlace), At(Rest0, Rest0, Pull({bob, carol}, {}))>>,
             "pull request" :> 1 @@ "remind" :> 2, 0, 1, 0, TRUE),
    \* deadlines: as the days pass, and when something fails
    Scenario(<<At(Item("active", 1), Item("active", 2), NoPull)>>,
             "deadlines" :> 2, 0, 2, 0, FALSE),
    Scenario(<<At(Item("active", 1), Rest0, NoPull)>>,
             "deadlines" :> 2 @@ "state" :> 1, 0, 1, 1, FALSE),
    Scenario(<<At(Item("active", 1), Item("active", 1), NoPull)>>,
             "every day" :> 1, 2, 2, 1, TRUE),
    \* digests
    Scenario(<<At(Rest0, Item("silent", 0), NoPull), At(Item("blocked", 0), Rest0, NoPull),
               At(Item("retitled", 0), Rest0, NoPull)>>,
             "digest" :> 2, 0, 1, 1, FALSE) }

\* A Task is blocked, goes on, and is blocked again.
MCAgain ==
  { Scenario(<<At(Rest0, Item("blocked", 0), NoPull), At(Rest0, Rest0, NoPull),
               At(Rest0, Item("blocked", 0), NoPull)>>,
             "state" :> 3, 0, 0, 0, TRUE) }
=============================================================================
