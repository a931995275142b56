----------------------------- MODULE IssueCreation -----------------------------
(***************************************************************************)
(* The creation of an Issue on GitHub (createIssue in github-app.ts), with *)
(* its native relationships and its Project fields (project-field-sync.ts):*)
(* the POST, then one call per relationship, then the Project's state read,*)
(* the Issue's item added, one call per field and the state read back.     *)
(*                                                                         *)
(* Once the POST has answered, nothing throws: what fails is noted in the  *)
(* answer, and the rest goes on.  A call may take effect whatever its      *)
(* caller is told, GitHub may drop an assignee, and people and workflows   *)
(* set the fields of a Project's items too.  An Issue is named by whoever  *)
(* composes this module; several makers work at once.                      *)
(***************************************************************************)
EXTENDS Sequences, Functions

CONSTANTS
  Makers,
  Relations,  \* the relationships asked for, in the order they are attached
  Fields,     \* the Project fields asked for, in the order they are set
  None

VARIABLES
  github,     \* the Issues there are
  making      \* what each maker has in hand

Value == {"unset", "asked", "other"}

\* What may be reported as failed.
Parts == Range(Relations) \cup Range(Fields) \cup {"assignees"}

Fresh(by, assigned) ==
  [by |-> by, related |-> {}, assigned |-> assigned, item |-> FALSE,
   values |-> [f \in Range(Fields) |-> "unset"]]

\* step: the next call; left: the parts it is still to be made for; failed: what
\* the answer will report; seen: the values of the item as first read.
Idle == [issue |-> None, step |-> "none", left |-> <<>>, failed |-> {},
         seen |-> [f \in Range(Fields) |-> "unset"]]

Init == github = <<>> /\ making = [h \in Makers |-> Idle]

-----------------------------------------------------------------------------
\* What comes when nothing is left for a step.
Settled(m) ==
  IF m.left # <<>> THEN m
  ELSE [m EXCEPT !.step = CASE @ = "relate" -> "read" [] @ = "update" -> "verify"
                            [] OTHER -> @]

Go(h, m) == making' = [making EXCEPT ![h] = Settled(m)]

Of(h) == making[h].issue

At(h, step) == making[h].step = step

Asked(h) == Head(making[h].left)

\* The call for the part at hand is over.
NextCall(h) == [making[h] EXCEPT !.left = Tail(@)]

NextFailed(h) == [NextCall(h) EXCEPT !.failed = @ \cup {Asked(h)}]

\* The answer reports what has failed.
Answer(h, failed) ==
  making' = [making EXCEPT ![h].step = "done", ![h].left = <<>>, ![h].failed = @ \cup failed]

Drop(h) == making' = [making EXCEPT ![h] = Idle]

Create(x, by, assigned) ==
  github' = [y \in DOMAIN github \cup {x} |-> IF y = x THEN Fresh(by, assigned) ELSE github[y]]

\* The POST is answered; GitHub drops an assignee it does not accept.
Post(h, x, by, assigned) ==
  /\ At(h, "none")
  /\ Create(x, by, assigned)
  /\ Go(h, [Idle EXCEPT !.issue = x, !.step = "relate", !.left = Relations])

\* A check before it throws, or the POST does, though the Issue may be there.
PostFails(h, x, by) ==
  /\ At(h, "none")
  /\ Create(x, by, TRUE) \/ UNCHANGED github
  /\ UNCHANGED making

\* attachIssueRelationships
Relate(h) == github' = [github EXCEPT ![Of(h)].related = @ \cup {Asked(h)}]

Attach(h) == At(h, "relate") /\ Relate(h) /\ Go(h, NextCall(h))

AttachFails(h) == At(h, "relate") /\ (Relate(h) \/ UNCHANGED github) /\ Go(h, NextFailed(h))

-----------------------------------------------------------------------------
(* syncProjectFields *)

Unassigned(h) == IF github[Of(h)].assigned THEN {} ELSE {"assignees"}

Read(h) ==
  LET issue == github[Of(h)]
  IN  /\ At(h, "read")
      /\ Go(h, [making[h] EXCEPT !.step = IF issue.item THEN "update" ELSE "add",
                                 !.left = Fields, !.seen = issue.values,
                                 !.failed = @ \cup Unassigned(h)])
      /\ UNCHANGED github

\* Without the state, or the item, every part of it has failed.
SyncFails(h) == Answer(h, Range(Fields) \cup {"assignees"})

ReadFails(h) == At(h, "read") /\ SyncFails(h) /\ UNCHANGED github

Place(h) == github' = [github EXCEPT ![Of(h)].item = TRUE]

Add(h) == At(h, "add") /\ Place(h) /\ Go(h, [making[h] EXCEPT !.step = "update"])

AddFails(h) == At(h, "add") /\ SyncFails(h) /\ (Place(h) \/ UNCHANGED github)

Set(h) == github' = [github EXCEPT ![Of(h)].values[Asked(h)] = "asked"]

\* A field that was read as asked for is left alone.
Update(h) ==
  /\ At(h, "update")
  /\ IF making[h].seen[Asked(h)] = "asked" THEN UNCHANGED github ELSE Set(h)
  /\ Go(h, NextCall(h))

UpdateFails(h) ==
  /\ At(h, "update") /\ making[h].seen[Asked(h)] # "asked"
  /\ Set(h) \/ UNCHANGED github
  /\ Go(h, NextFailed(h))

\* Mutant: what was set is taken to be there.
Verify_Trusting(h) == At(h, "verify") /\ Answer(h, Unassigned(h)) /\ UNCHANGED github

\* The state is read back: what is not as asked for has failed.
Verify(h) ==
  /\ At(h, "verify")
  /\ Answer(h, {f \in Range(Fields) : github[Of(h)].values[f] # "asked"} \cup Unassigned(h))
  /\ UNCHANGED github

VerifyFails(h) == At(h, "verify") /\ Answer(h, Range(Fields)) /\ UNCHANGED github

-----------------------------------------------------------------------------

\* Somebody else, or a workflow of the Project, sets a field of an Issue.
Meddle(x, f, value) ==
  /\ github[x].values[f] # value
  /\ github' = [github EXCEPT ![x].item = TRUE, ![x].values[f] = value]
  /\ UNCHANGED making

Work(h) == Attach(h) \/ Read(h) \/ Add(h) \/ Update(h) \/ Verify(h)

Fault(h) == AttachFails(h) \/ ReadFails(h) \/ AddFails(h) \/ UpdateFails(h) \/ VerifyFails(h)

-----------------------------------------------------------------------------
(* Properties. *)

TypeOK ==
  /\ \A x \in DOMAIN github :
       /\ github[x].related \subseteq Range(Relations)
       /\ github[x].assigned \in BOOLEAN /\ github[x].item \in BOOLEAN
       /\ github[x].values \in [Range(Fields) -> Value]
  /\ \A h \in Makers :
       /\ Of(h) \in DOMAIN github \cup {None}
       /\ making[h].step \in {"none", "relate", "read", "add", "update", "verify", "done"}
       /\ making[h].failed \subseteq Parts
       /\ At(h, "none") <=> Of(h) = None

\* What the answer does not report as failed was there, all at once, when it was
\* given: every relationship, the assignees, and every field as asked for, though
\* a workflow or a person may have set it between its own call and the read-back.
ReportIsTrue ==
  [][\A h \in Makers :
       At(h, "done")' /\ ~At(h, "done") =>
         LET issue == github'[making'[h].issue]
             told == Parts \ making'[h].failed
         IN  /\ told \cap Range(Relations) \subseteq issue.related
             /\ "assignees" \in told => issue.assigned
             /\ \A f \in told \cap Range(Fields) : issue.values[f] = "asked"]_<<github, making>>
=============================================================================
