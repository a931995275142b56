---------------------------- MODULE IssueApproval ----------------------------
(***************************************************************************)
(* The approval of an Issue that may be merged in an emergency             *)
(* (approval.ts), from the modal that asks for it to the buttons that      *)
(* decide on it (app.ts) and the creation of the Issue, which              *)
(* IssueCreation models.  Who may do without an approval has the Issue     *)
(* created at once.                                                        *)
(*                                                                         *)
(* Handlers run concurrently, in one process or several; they share one    *)
(* document per request, changed by creation and by compare-and-set on its *)
(* revision.  An action is the code between two awaits.  An append to the  *)
(* audit log and the last compare-and-set may fail or have been made after *)
(* all, and a handler may die anywhere.  An Issue is named by the claim,   *)
(* the revision of the document, under which it was created; 0 is none.    *)
(***************************************************************************)
EXTENDS Naturals, Sequences, Functions

CONSTANTS
  Requests,      \* approval ids
  Users,         \* Slack users
  Requester,     \* Requester[r]: who asked for the Issue
  Approvers,     \* AR_SLACK_APPROVER_IDS
  SelfApprovers, \* AR_SLACK_SELF_APPROVER_IDS
  Handlers,
  Relations, Fields,  \* what is asked for with each Issue, as in IssueCreation
  None,
  MaxMishaps     \* bound on lost answers, failed calls, deaths and others' changes

ASSUME ApprovalAssumption ==
  /\ Requester \in [Requests -> Users]
  /\ Approvers \cup SelfApprovers \subseteq Users
  /\ None \notin Requests \cup Users \cup [request : Requests, claim : Nat]
  /\ Relations \in Seq(Range(Relations)) /\ Fields \in Seq(Range(Fields))
  /\ MaxMishaps \in Nat

VARIABLES
  approval,  \* the stored document of each request; revision 0: not there
  expired,   \* the requests whose time to live has passed
  github,    \* the Issues created, each for a request under a claim
  making,    \* the creation each handler is at
  audit,     \* the append-only audit log
  at,        \* where each handler is
  held,      \* its request, its user, its command and the document it holds
  mishaps

creation == <<github, making>>
vars == <<approval, expired, creation, audit, at, held, mishaps>>

C == INSTANCE IssueCreation WITH Makers <- Handlers

Status == {"none", "pending", "processing", "approved", "rejected", "expired"}

Decided == {"approved", "rejected", "expired"}

\* failed: what the record of its Issue reports as not done.
Doc == [revision : Nat, status : Status, by : Users \cup {None}, issue : Nat,
        failed : SUBSET C!Parts]

NoDoc == [revision |-> 0, status |-> "none", by |-> None, issue |-> 0, failed |-> {}]

Commands == {"request", "status", "approve", "reject"}

Hold == [job : Requests \cup {None}, user : Users \cup {None},
         command : Commands \cup {"none"}, doc : Doc]

NoHold == [job |-> None, user |-> None, command |-> "none", doc |-> NoDoc]

Places == {"idle", "expire", "reread", "decide", "append", "create", "recover",
           "append_failed"}

Init ==
  /\ approval = [r \in Requests |-> NoDoc]
  /\ expired = {}
  /\ C!Init
  /\ audit = {}
  /\ at = [h \in Handlers |-> "idle"]
  /\ held = [h \in Handlers |-> NoHold]
  /\ mishaps = 0

-----------------------------------------------------------------------------
(* Helpers. *)

Job(h) == held[h].job

Goto(h, place) == at' = [at EXCEPT ![h] = place] /\ UNCHANGED held

Rest(h) == at' = [at EXCEPT ![h] = "idle"] /\ held' = [held EXCEPT ![h] = NoHold]

Mishap == mishaps < MaxMishaps /\ mishaps' = mishaps + 1

\* Mutant: somebody who may approve may approve an own request.
CanDecide_Own(r, u) == u \in Approvers \cup SelfApprovers

\* canApproveIssue
CanDecide(r, u) == u \in Approvers \cup SelfApprovers /\ u # Requester[r]

\* Mutant: a blind set instead of the compare-and-set.
Matches_Blind(h) == approval[Job(h)].revision >= held[h].doc.revision

\* StateStore.compareAndSet on the revision the handler holds.
Matches(h) == approval[Job(h)].revision = held[h].doc.revision

Store(h, doc) == approval' = [approval EXCEPT ![Job(h)] = doc]

\* The handler goes on with the document it wrote.
With(h, doc, place) ==
  /\ at' = [at EXCEPT ![h] = place]
  /\ held' = [held EXCEPT ![h].doc = doc]

\* Mutant: the status is written where the user belongs.
Moved_Swapped(h, status, user) ==
  [held[h].doc EXCEPT !.revision = @ + 1, !.status = status, !.by = status]

\* The next document, whatever it becomes.
Moved(h, status, user) ==
  [held[h].doc EXCEPT !.revision = @ + 1, !.status = status, !.by = user]

\* Mutant: the approval does not record its own Issue.
ApprovedDoc_NoIssue(h) == Moved(h, "approved", held[h].user)

ApprovedDoc(h) ==
  [Moved(h, "approved", held[h].user) EXCEPT !.issue = held[h].doc.revision,
                                             !.failed = making[h].failed]

IssueOf(h) == [request |-> Job(h), claim |-> held[h].doc.revision]

\* An Issue is created without an approval.
Direct(h) == held[h].doc.revision = 0

\* The entry a document's transition leaves in the audit log.
Entry(h, action) == [request |-> Job(h), action |-> action,
                     actor |-> held[h].user, revision |-> held[h].doc.revision]

Action(h) == IF held[h].doc.status = "pending" THEN "requested" ELSE held[h].doc.status

\* The request is known by its buttons, sent once it has been audited.
Announced(r) == [request |-> r, action |-> "requested",
                 actor |-> Requester[r], revision |-> 1] \in audit

-----------------------------------------------------------------------------
(* request *)

\* The modal of r has not been submitted.
Unasked(r) ==
  /\ approval[r].revision = 0
  /\ \A h \in Handlers : Job(h) # r
  /\ \A x \in DOMAIN github : x.request # r

\* One who may merge alone, and whose rights on GitHub are confirmed.
Submit(h, r) ==
  /\ at[h] = "idle"
  /\ Unasked(r)
  /\ Requester[r] \in SelfApprovers
  /\ at' = [at EXCEPT ![h] = "create"]
  /\ held' = [held EXCEPT ![h] = [job |-> r, user |-> Requester[r],
                                  command |-> "request", doc |-> NoDoc]]
  /\ UNCHANGED <<approval, expired, creation, audit, mishaps>>

\* An approval is asked for, where somebody may give it.
Request(h, r) ==
  LET doc == [NoDoc EXCEPT !.revision = 1, !.status = "pending"]
  IN  /\ at[h] = "idle"
      /\ Unasked(r)
      /\ Approvers # {}
      /\ approval' = [approval EXCEPT ![r] = doc]
      /\ at' = [at EXCEPT ![h] = "append"]
      /\ held' = [held EXCEPT ![h] = [job |-> r, user |-> Requester[r],
                                      command |-> "request", doc |-> doc]]
      /\ UNCHANGED <<expired, creation, audit, mishaps>>

-----------------------------------------------------------------------------
(* status, and pending and assertCanDecide on top of it *)

\* Whether a handler goes on from a document that reads "pending".
MayDecide(r, u, command) == command \in {"approve", "reject"} /\ CanDecide(r, u)

\* A button is pressed, or a status asked for, and the document read: one
\* that is not pending ends the handler, and so does a lack of rights.
Press(h, r, u, command) ==
  /\ at[h] = "idle"
  /\ Announced(r)
  /\ approval[r].status = "pending"
  /\ r \in expired \/ MayDecide(r, u, command)
  /\ at' = [at EXCEPT ![h] = IF r \in expired THEN "expire" ELSE "decide"]
  /\ held' = [held EXCEPT ![h] = [job |-> r, user |-> u, command |-> command,
                                  doc |-> approval[r]]]
  /\ UNCHANGED <<approval, expired, creation, audit, mishaps>>

\* The audit entry of an expiry names the system.
Expire(h) ==
  /\ at[h] = "expire"
  /\ IF Matches(h)
     THEN /\ Store(h, Moved(h, "expired", None))
          /\ at' = [at EXCEPT ![h] = "append"]
          /\ held' = [held EXCEPT ![h].doc = Moved(h, "expired", None), ![h].user = None]
     ELSE Goto(h, "reread") /\ UNCHANGED approval
  /\ UNCHANGED <<expired, creation, audit, mishaps>>

\* The document as it is now, whose expiry is not looked at again.
Reread(h) ==
  LET doc == approval[Job(h)]
  IN  /\ at[h] = "reread"
      /\ IF doc.status = "pending" /\ MayDecide(Job(h), held[h].user, held[h].command)
         THEN With(h, doc, "decide")
         ELSE Rest(h)
      /\ UNCHANGED <<approval, expired, creation, audit, mishaps>>

-----------------------------------------------------------------------------
(* reject and approve *)

Reject(h) ==
  /\ at[h] = "decide"
  /\ held[h].command = "reject"
  /\ IF Matches(h)
     THEN LET doc == Moved(h, "rejected", held[h].user)
          IN  Store(h, doc) /\ With(h, doc, "append")
     ELSE Rest(h) /\ UNCHANGED approval
  /\ UNCHANGED <<expired, creation, audit, mishaps>>

\* The rights of the requester, and the Issue, do not pass revalidation.
RevalidationFails(h) ==
  /\ at[h] = "decide"
  /\ held[h].command = "approve"
  /\ Rest(h)
  /\ UNCHANGED <<approval, expired, creation, audit, mishaps>>

\* They do, and the request is claimed.
Claim(h) ==
  /\ at[h] = "decide"
  /\ held[h].command = "approve"
  /\ IF Matches(h)
     THEN LET doc == Moved(h, "processing", held[h].user)
          IN  Store(h, doc) /\ With(h, doc, "append")
     ELSE Rest(h) /\ UNCHANGED approval
  /\ UNCHANGED <<expired, creation, audit, mishaps>>

\* The transition just made is audited; the creation follows a claim.
AppendAudit(h) ==
  /\ at[h] = "append"
  /\ audit' = audit \cup {Entry(h, Action(h))}
  /\ IF Action(h) = "processing" THEN Goto(h, "create") ELSE Rest(h)
  /\ UNCHANGED <<approval, expired, creation, mishaps>>

\* The append fails; after an approval, into the handler of the creation.
AppendFails(h) ==
  /\ at[h] = "append"
  /\ Mishap
  /\ audit' = audit \/ audit' = audit \cup {Entry(h, Action(h))}
  /\ IF Action(h) = "approved" THEN Goto(h, "recover") ELSE Rest(h)
  /\ UNCHANGED <<approval, expired, creation>>

\* createIssue, from the POST on.
CreateIssue(h) ==
  /\ at[h] = "create"
  /\ \/ C!Post(h, IssueOf(h), held[h].user, TRUE) /\ UNCHANGED mishaps
     \/ C!Post(h, IssueOf(h), held[h].user, FALSE) /\ Mishap
     \/ C!Work(h) /\ UNCHANGED mishaps
     \/ C!Fault(h) /\ Mishap
  /\ UNCHANGED <<approval, expired, audit, at, held>>

\* It throws, which only a check before the POST or the POST itself does.
CreationFails(h) ==
  /\ at[h] = "create"
  /\ Mishap
  /\ C!PostFails(h, IssueOf(h), held[h].user)
  /\ IF Direct(h) THEN Rest(h) ELSE Goto(h, "recover")
  /\ UNCHANGED <<approval, expired, audit>>

\* It returns: the approval is recorded with its Issue.
Settle(h) ==
  /\ at[h] = "create" /\ C!At(h, "done")
  /\ C!Drop(h)
  /\ \/ Direct(h) /\ Rest(h) /\ UNCHANGED approval
     \/ /\ ~Direct(h) /\ Matches(h)
        /\ Store(h, ApprovedDoc(h)) /\ With(h, ApprovedDoc(h), "append")
     \/ ~Direct(h) /\ ~Matches(h) /\ Goto(h, "recover") /\ UNCHANGED approval
  /\ UNCHANGED <<expired, github, audit, mishaps>>

\* The store fails, and may have recorded it.
SettleFails(h) ==
  /\ at[h] = "create" /\ C!At(h, "done") /\ ~Direct(h)
  /\ Mishap
  /\ C!Drop(h)
  /\ \/ Matches(h) /\ Store(h, ApprovedDoc(h))
     \/ UNCHANGED approval
  /\ Goto(h, "recover")
  /\ UNCHANGED <<expired, github, audit>>

\* The claim as it was taken, which an error gives back.
ClaimDoc(h) == IF held[h].doc.status = "approved"
               THEN [held[h].doc EXCEPT !.revision = @ - 1, !.status = "processing", !.issue = 0,
                                             !.failed = {}]
               ELSE held[h].doc

\* Mutant: the request is given back whatever it has become.
Recover_Blind(h) ==
  LET doc == [ClaimDoc(h) EXCEPT !.revision = @ + 1, !.status = "pending", !.by = None]
  IN  /\ at[h] = "recover"
      /\ Store(h, doc)
      /\ With(h, doc, "append_failed")
      /\ UNCHANGED <<expired, creation, audit, mishaps>>

\* The request is pending again, unless the approval was recorded.
Recover(h) ==
  LET doc == [ClaimDoc(h) EXCEPT !.revision = @ + 1, !.status = "pending", !.by = None]
  IN  /\ at[h] = "recover"
      /\ IF approval[Job(h)].revision = ClaimDoc(h).revision
         THEN Store(h, doc)
         ELSE UNCHANGED approval
      /\ With(h, doc, "append_failed")
      /\ UNCHANGED <<expired, creation, audit, mishaps>>

\* The failure is audited, and the error thrown on.
AppendFailed(h) ==
  /\ at[h] = "append_failed"
  /\ audit' = audit \cup {Entry(h, "failed")}
  /\ Rest(h)
  /\ UNCHANGED <<approval, expired, creation, mishaps>>

-----------------------------------------------------------------------------
(* Time and deaths. *)

\* It is only looked at where the request is pending.
Elapse(r) ==
  /\ r \notin expired
  /\ approval[r].status = "pending"
  /\ expired' = expired \cup {r}
  /\ UNCHANGED <<approval, creation, audit, at, held, mishaps>>

Crash(h) ==
  /\ at[h] # "idle"
  /\ Mishap
  /\ Rest(h)
  /\ C!Drop(h)
  /\ UNCHANGED <<approval, expired, github, audit>>

\* Others set the fields of an Issue, while it matters here.
Meddle(h, f, value) ==
  /\ at[h] = "create" /\ ~C!At(h, "none")
  /\ Mishap
  /\ C!Meddle(C!Of(h), f, value)
  /\ UNCHANGED <<approval, expired, audit, at, held>>

Step(h) ==
  \/ Expire(h) \/ Reread(h) \/ Reject(h) \/ RevalidationFails(h) \/ Claim(h)
  \/ AppendAudit(h) \/ CreateIssue(h) \/ Settle(h) \/ Recover(h) \/ AppendFailed(h)

Fault(h) == AppendFails(h) \/ CreationFails(h) \/ SettleFails(h) \/ Crash(h)

Next ==
  \/ \E h \in Handlers :
       \/ \E r \in Requests : \/ Request(h, r) \/ Submit(h, r)
                              \/ \E u \in Users, c \in Commands \ {"request"} :
                                   Press(h, r, u, c)
       \/ Step(h) \/ Fault(h)
  \/ \E r \in Requests : Elapse(r)
  \/ \E h \in Handlers, f \in Range(Fields), value \in {"asked", "other"} : Meddle(h, f, value)

Spec == Init /\ [][Next]_vars

-----------------------------------------------------------------------------
(* Properties. *)

TypeOK ==
  /\ approval \in [Requests -> Doc]
  /\ expired \subseteq Requests
  /\ C!TypeOK
  /\ DOMAIN github \subseteq [request : Requests, claim : Nat]
  /\ \A x \in DOMAIN github : github[x].by \in Users
  /\ audit \subseteq [request : Requests, action : Status \cup {"requested", "failed"},
                      actor : Users \cup {None}, revision : Nat]
  /\ at \in [Handlers -> Places]
  /\ held \in [Handlers -> Hold]
  /\ \A h \in Handlers : at[h] # "idle" => Job(h) \in Requests
  /\ mishaps \in Nat

Creating(h) == at[h] = "create" /\ ~Direct(h)

\* However often and by however many the button is pressed, one handler at a
\* time creates the Issue of a request, and as long as it does the request is
\* claimed by its user: no rejection, expiry or approval comes in between
\* (approve: the claim's compare-and-set).
OneCreator ==
  \A h \in Handlers : Creating(h) =>
    /\ held[h].doc.status = "processing" /\ held[h].doc.by = held[h].user
    /\ approval[Job(h)] = held[h].doc
    /\ \A g \in Handlers : Creating(g) /\ Job(g) = Job(h) => g = h

\* Every Issue was created for somebody with the right to decide on the
\* request, never its requester, and after the audit log said so; or at once
\* for a requester with the right to do without.
CreatedByRight ==
  \A x \in DOMAIN github : LET by == github[x].by IN
    IF x.claim = 0 THEN by = Requester[x.request] /\ by \in SelfApprovers
    ELSE /\ by \in (Approvers \cup SelfApprovers) \ {Requester[x.request]}
         /\ [request |-> x.request, action |-> "processing",
             actor |-> by, revision |-> x.claim] \in audit

\* An approved request names the Issue its approver created, with every
\* relationship but those it reports as failed, and no Issue was created for it
\* after that one.
ApprovedIsTrue ==
  \A r \in Requests : LET doc == approval[r]
                         x == [request |-> r, claim |-> doc.issue]
                     IN  doc.status = "approved" =>
    /\ x \in DOMAIN github
    /\ github[x].by = doc.by
    /\ Range(Relations) \ doc.failed \subseteq github[x].related
    /\ \A y \in DOMAIN github : y.request = r => y.claim <= doc.issue

\* A request that was approved, rejected or found expired stays so, although
\* other handlers still hold the document they read before.
DecisionIsFinal ==
  [][\A r \in Requests :
       approval[r].status \in Decided => approval'[r] = approval[r]]_approval

\* What is answered of the relationships and fields of an Issue is true of it
\* (stated in IssueCreation).
ReportIsTrue == C!ReportIsTrue

\* The README: the Issue is created once though the button is pressed twice.
IssueOnce ==
  \A x, y \in DOMAIN github : x.request = y.request => x = y
=============================================================================
