# A verification of the ART-TRA Git workflow

The repository holds two programs: `git ar`, a Rust command line for branches,
presence and Project upkeep (`src/`), and the Slack adapter (`apps/slack-adapter`), a
TypeScript service that turns GitHub webhooks into Slack notifications, creates Issues
from Slack and mirrors Projects into Slack Lists and Canvases. This directory models
the parts in which several workers, operators and users act on shared state and on
services that may lose a call, and states what must hold there. TLC checks the models
on small instances; TLAPS proves every safety property of them for every instance.

## The system

| Part | State | Operations | Interacts with | Hard about it |
| --- | --- | --- | --- | --- |
| Notification outbox (`notification-outbox.ts`) | a document per intent, an audit log | `deliver`, `replay`, `audit` | state store, Slack, reconciler | two workers or operators at once, calls whose outcome is unknown, deaths |
| Reconciler (`slack-notification-reconciler.ts`) | none | `reconcile` | Slack history | it sees a window of the channel |
| State store (`state-store.ts`) | documents with revisions | `create`, `compareAndSet`, `set`, `append` | everything | `set` and `remove` compare nothing |
| Webhook queue and processor (`job-queue.ts`, `github-webhook-processor.ts`, `start.ts`) | the queue, a document per delivery | `enqueue`, `process` | lifecycle, reviews, work notifications | at-least-once attempts that overlap, leases that expire, deaths after the effects began |
| Lifecycle notifications (`lifecycle-notification-service.ts`) | fingerprints, initial assignees | `process` | threads, outbox | events of one Issue in any order, each step stored on its own |
| Threads (`notification-thread-service.ts`) | a root and its lease per Work | `ensureRoot`, `publishReply`, `publish` | outbox | a lease shorter than a slow call |
| Issue approval (`approval.ts`, `app.ts`) | a document per request, an audit log | `request`, `status`, `approve`, `reject` | Slack buttons, GitHub | concurrent presses, a creation that succeeds and fails at once |
| Issue creation (`github-app.ts`, `project-field-sync.ts`) | the Issue on GitHub | `createIssue`, `syncProjectFields` | approval, lifecycle | a POST and a dozen calls after it, each of which may fail alone |
| Work notifications (`work-notification-service.ts`) | fingerprints of states and deadlines | `notifyImmediate`, `notifyDeadlines`, `sendDigest` | Project, threads, outbox | fingerprints without revisions, runs that overlap |
| Required-action messages (`required-action-dm-service.ts`) | an intent per person | `send` | outbox, every announcer | failures that are swallowed |
| Reviews (`review-service.ts`) | what was asked last, per pull request | `process`, `remindPending` | threads, outbox, GitHub | one memory, many events and a daily reminder |
| GitHub identity (`identity-service.ts`) | identities, reverse entries, nonces | `connectUrl`, `complete`, `disconnect` | OAuth, Lists and Canvases | two documents per link, checked and stored apart |
| Google Calendar (`google-calendar-service.ts`) | links with their calendar | `connectUrl`, `complete`, `disconnect`, `syncUser`, `syncAll` | OAuth, identity, Project | a synchronisation that stores the link it read |
| Lists (`project-list-service.ts`) | a state and a lease per List, the mark `scoped-only` | `sync`, `revokeViewerAccess`, migration | Slack, Project, identity | revocation and migration beside synchronisation |
| Canvases (`canvas-service.ts`) | a state and a lease per Canvas | `sync`, `revokeViewerAccess` | Slack, Project, identity | revocation beside synchronisation |
| `git ar` | the repository, refs, stash, Project fields | see `src/main.rs` | Git, GitHub | partial failures of multi-step commands |
| Scripts | none | policies, release | GitHub, Cloud Run | a release that fails between its steps |

What makes each correct: a notice is posted once and in its thread; what is recorded
of it is true; a webhook's effects run once and are retried only where that is safe; an
Issue is created once, by right, and audited, and what is answered of it is true; one
GitHub account belongs to one Slack user; nobody reads another account's work, at any
moment of a relink; what was revoked stays revoked; an overdue item is told of in the
end; a failed command leaves the user's work intact.

## The modules

An action is the code between two awaits: what a handler reads, decides and writes
with no other handler in between. A read whose only use is a compare-and-set that
follows is one action with it where both ways of failing end alike.

A module `M_proofs` extends the module `M` it is about and holds its theorems;
`LinkedAccounts` has three, each on top of the one before: `LinkedAccounts_proofs` (types),
`LinkedOwners_proofs` (links) and `LinkedViews_proofs` (Canvases and Lists).

### `NotificationOutbox` and `NotificationPromise`

`outbox[i]` is the stored document of intent `i` (status, revision, attempts, replays
and the two timestamps the code compares); the audit log, the messages in Slack
(`posted`) and the calls that Slack has not processed yet (`wire`) stand beside it. Workers
run `deliver` (`CreateOrLoad`, `ClaimAndSend`), operators run a confirmed `replay`
(`Assess`, then the reconciliation's `RecordExisting`, `ScanFindsNothing` or
`ScanBlocked`, then `ReplayClaim`); both share the record of the answer (`RecordSent`,
`RecordRefused`, `RecordUncertain`) and the audit (`Append`). A call lands (`Post`) or
is lost (`Lose`) at any time, whatever its caller concluded, and an actor may `Crash`
at any step. Time is a counter; `StaleAfter`, `SearchBefore` and `SearchAfter` stand
for the fifteen, five and fifteen minutes of the code, of which it matters that the
outbox waits no longer for a claim than the reconciler searches after it.

A call whose payload or direct delivery differs from the stored one, a dry run and a
replay that is not eligible change nothing and are left out, as is the document's
owner, which nothing reads. Slack acceptance and the record of the message are merged
(the message's `ts` is the attempt that posted it). One call posts at most one message.

`NotificationPromise` says what callers rely on, with no store, workers or clock: the
automatic path makes at most the first call, every later one is ordered by an operator
and only while no message that came in time is there, an intent is settled only by a
message and stays settled. `NotificationOutbox` implements it (`KeepsPromise`).

### `WebhookDelivery`

`task` is the Cloud Tasks queue, `delivery` the `github-delivery` document with its
lease. A worker is dispatched, creates or loads the document (`Dispatch`, `Load`,
`Take` are `acquireDelivery`), synchronises the List (`SyncFails` or not), begins the
effects, and completes, releases or fails the delivery. A lease's owner, a UUID in the
code, is the revision at which it was taken. Overlapping attempts, redeliveries,
failures, deaths and leases that expire under their owner draw on one budget
`MaxMishaps`.

### `LifecycleEvents`, `WorkThread`

`LifecycleEvents` has no state: `Owed` says which notices a webhook asks for, given the
Issues and pull requests as GitHub shows them when the service loads them (`OfIssue`,
`OfCheck`, `OfPull`, one per `process...` of `lifecycle-notification-service.ts`). A
notice is named by its Issue, kind and fingerprint, which name its intent; what else of
its payload varies (`says`) decides whether a second call for the intent is refused.

`WorkThread` is one Work, its Tasks, and the events about them. `thread` is the
`work-thread` document, `intents` the outbox as its callers see it (what
`NotificationPromise` allows: called for once, then an operator's), `channel` the
messages in order, `notified` the stored fingerprints, of which a later one replaces the
earlier one of its kind and Issue, `setup` the initial assignees to be consumed. The
world (`Course`, `now`) goes on while workers are between two awaits. A worker loads what
its webhook is about (`Load`), and takes each notice through `send` (`Check`, where a
Task without a Work is dropped and an overview is put first), `ensureRoot` (`HasRoot`,
`ClaimRoot`, `RootInProgress`, `SaveRoot`), `deliver` (`Deliver`, `Posted`, `Uncertain`,
`Refused`), and what follows (`Mark`, `SetUp`, `Consume`). `Replay` is the operator.

### `WebhookPipeline`

`WebhookDelivery` and `WorkThread` composed: `Begin` starts the event in the lifecycle
service, its return or throw is the end of the effects, and a crash takes the worker out
of both. `MCWebhookPipeline` has the scenarios: both openings with the assignment of the
opening, an opening from Slack, an assignment of the Work, an assignee who comes, goes
and comes again, checks that fail, a self-merge, reviews, a closing and a reopening.

### `IssueCreation`, `IssueApproval`

`IssueCreation` is `createIssue` one call to GitHub at a time: the POST (`Post`,
`PostFails`), the relationships (`Attach`, `AttachFails`), and `syncProjectFields`
(`Read`, `Add`, `Update`, `Verify` and their failures). A call that fails may have taken
effect. After the POST has answered nothing throws: failures are collected and
reported. `Meddle` is a person or a workflow of the Project that sets the same fields.

`IssueApproval` composes it. `approval` is the document of each request, `audit` the
log. `Submit` is the direct path of who may do without an approval; `Press` is a button
or `/ar approval`; `Expire` and `Reread` are the rest of `status`; `Reject`, `Claim`,
`AppendAudit`, `CreateIssue`, `Settle`, `Recover` and `AppendFailed` are `reject` and
`approve`, and `CreationFails`, `SettleFails` and `AppendFails` the errors they handle,
each of which may have taken effect after all.

### `Handlers`, `IdentityLink`, `CalendarLink`, `CanvasProjection`, `ListProjection`, `LinkedAccounts`

The accounts and what is shown of them. `Handlers` holds what the services share: a
place and a job per handler, and the leases of the synchronisations with their expiry.
`IdentityLink` and `CalendarLink` are the two OAuth links, from the one-time URL to the
documents stored one after the other; `CanvasProjection` and `ListProjection` are the
synchronisations under a lease, with the provisional state stored before access is
given, and the revocations that take none. The Lists include the channel's: the scoped
one, the unscoped upgrade of an older one, the migration with its mark `scoped-only`.

`LinkedAccounts` composes them as `start.ts` and `app.ts` wire them: a relink and a
disconnection revoke the Canvas, then the List, before the identity changes (`revoke`
...), a synchronisation resolves the account first and revokes when it may no longer
read the repository (`Resolve`, `Load`), and the schedules synchronise each recorded
Canvas and each linked calendar. `Record` keeps, for the properties alone, which users'
handlers crossed (two of the links, revocations and synchronisations of one user at a
time, a relink beside a revocation included, or a link that died between its documents)
and which leases ran out under their holders.

### `NoticeDelivery`, `WorkNotices`, `ReviewRequests`, `ProjectNotices`

What the adapter says of its own accord. `NoticeDelivery` is the thread with its three
ways in (`publish`, `publishReply`, `ensureRoot`), the outbox as its callers see it, and
the direct messages that follow a notice somebody must act on. `WorkNotices` has the
three runs over the items (state, deadline, digest) with their memories, stored and
removed without a revision; `ReviewRequests` has `process` and `remindPending` for one
pull request, whose reviewers come from the rules, the plan and GitHub.
`ProjectNotices` composes them over one store, one outbox and one Work, under a course of
the world and of the days. `disturbed` keeps, for `ReviewRests` alone, whether two handlers
were at the pull request at once or its reviewers were asked while its Task had no Work.

## The runs

| Run | Instance | What it shows |
| --- | --- | --- |
| `outbox` | 1 intent, 2 workers, 2 operators, 2 attempts, 3 ticks | `AutomaticSendsOnce`, `NoPromptDuplicate`, `SentIsTrue`, `ReplayAuditedFirst`, `SentIsFinal`, and that the outbox implements `NotificationPromise` |
| `delivery` | 1 delivery, 3 workers, 5 mishaps | `EffectsExclusive`, `RecordIsTrue`, `RerunOnlyAfterRetryable`, and that every queued task is answered (`Answered`) |
| `pipeline` | 8 scenarios of 2 or 3 webhooks, 2 workers, 2 leases, 1 mishap | `RepliesShareRoot`, `NoticeOnce`, `OverviewFirst`, `CompletedIsSaid`, `RootIsFinal` |
| `approval` | 1 request with a relationship and a field, 3 users, 3 handlers, 2 mishaps | `OneCreator`, `CreatedByRight`, `ApprovedIsTrue`, `DecisionIsFinal`, `ReportIsTrue` |
| `accounts` | 15 scenarios: 2 users, 2 accounts, 2 handlers, up to 3 commands, 1 mishap | `UrlOnce`, `OwnersAgree`, `ShowsOwnAccount`, `NothingUntracked`, `GuardHolds`, `OneCalendar`, and in the end `LosesSight` and `CalendarConverges` |
| `work` | 10 scenarios: a Work, a Task, a pull request, 2 handlers, up to 3 days | `ToldOnce`, `RepliesShareRoot`, `RememberedIsPosted`, `DirectsAreKept`, `ReviewRests`, and in the end `OverdueIsTold` |
| `lost_retry` | 1 delivery, 2 workers | a counterexample to `RetryIsQueued` |
| `single_root` | the opening of a Work and a comment, nothing fails | a counterexample to `SingleRoot` |
| `initial_assignee` | an assignment and a comment, nothing fails | a counterexample to `InitialAssigneeSilent` |
| `issue_once` | 1 request, 2 handlers, 1 lost answer | a counterexample to `IssueOnce` |
| `relink` | the scenarios of `accounts`, nothing fails | a counterexample to `RelinkRevokes` |
| `recurrence` | a Task blocked twice, 1 handler, nothing fails | a counterexample to `ToldAgain` |

Why the bounds are enough. Intents, deliveries and requests do not interact, so one of
each is modelled, and the proofs cover any number. Two workers and two operators make
every pair of roles race; a third worker lets a delivery be taken over while an
overlapping attempt watches, and a third handler lets a decision be read, made and
missed. Two attempts make an automatic call and an ordered one; three ticks let a claim
become stale and a message fall outside the search window. The mishaps of `delivery`
are more than its longest recorded cascade needs (an expiry, an overlap, an error and a
death); in `pipeline` one call to Slack goes wrong, or a worker dies, or a lease ends, per
story, and the end of the root's lease is counted apart (`MaxLeases`). One relationship and
one field in `approval` suffice for each call of `createIssue` to succeed, fail and be
overwritten: the calls for several of a kind follow each other and share nothing but the
list of failures. The people with the right to decide are alike, and so are the handlers.

The two larger compositions run scenarios rather than every command at once: a scenario
gives the documents there are at first and how often each command is given, and TLC
explores every interleaving of what they start. The scenarios pair each command with those
that write the same documents; commands of which no document is shared (a calendar's and a
List's) are not multiplied. Mutants of the code are found within these bounds for every
property. Every run stops where the system does: with nothing left to handle and no budget
the state is final, so deadlock is not checked.

The exceptions a property makes are named in it. `Calm` leaves out of `ShowsOwnAccount` and
`NothingUntracked` the users of whom two handlers crossed or a lease ran out under its
holder: there the code gives no guarantee, and `relink` shows what happens. `OwnersAgree`
and `OneCalendar` leave out users whose handlers crossed or whose link broke off halfway;
that a link broken off has to be left out was found by the proof of `OwnersAgree`.
`ReviewRests` leaves out what `disturbed` and `mishaps` record.
`GuardHolds` leaves out a List that a complete unscoped upgrade renamed: the code forgets
it, with its access and rows (`apps/slack-adapter/README.md:73` says it is removed).
`CompletedIsSaid` leaves out what is said of a Task that has no Work when it is loaded.

The six counterexamples are where the code does not do what the repository says of it;
`PROJECT.json` quotes the lines.

- `lost_retry`: an attempt that overlaps running effects is answered 200, which ends
  the task that was to retry them.
- `single_root`: a root lease of a minute that ends while Slack is slow gives the
  channel two parent messages (replies still share one of them: `RepliesShareRoot`).
- `initial_assignee`: an assignment handled between an overview's fingerprint and the
  record of its assignees is announced separately.
- `issue_once`: when the POST took effect and its answer was lost the request is pending
  again, and the next approval creates another Issue.
- `relink`: a synchronisation that resolved the old account goes on after the
  revocation, and the user, linked to the new account, reads the old one's work.
- `recurrence`: an item that is blocked, goes on and is blocked again is remembered as
  told of, though the second notice is the first one's intent and nothing is posted.

### What the models show beside the properties

Behaviour the runs reach that a reader of the code may not expect; nothing in the
repository promises otherwise in so many words, or the properties say what is excepted.

- A Task opened from Slack gets its parent by a call after the POST. If its `opened`
  webhook is handled before, it has no thread, nothing is said and the delivery
  completes; the Task's next event says its overview.
- An assignment of the Work that is consumed by a setup recorded late is never said,
  though the root does not name the assignee.
- A, then B, then A again as assignees have the first assignment's fingerprint: the
  repetition is silent, or refused where its payload differs. The fingerprints come from
  GitHub at the time of the load, so a late event is said of the newer state.
- Two checks, or two people, that ask for the same intent with other words make the second
  delivery fail.
- `publish` and `rootTs` throw on a thread that is "creating" even when the lease has
  expired; a process that dies between the thread's creation and the memory leaves an
  intent whose payload collides; and an intent that is stuck ends every later run at its
  item, so that later items wait (`OverdueIsTold` names this).
- What is asked of the reviewers of a Task that has no Work at the time is remembered as
  asked though nothing is posted. When the Work is back the reviewers of the message before
  may be asked again within the day (found by the proof of `ReviewRests`).
- A direct message the store could not take is logged and lost (`lost`).
- The adapter's own request of a reviewer comes back as a webhook with the reason
  "requested" and is announced at once; a review's retry is a new intent, so an uncertain
  send or a death is followed by a second message.
- A death between an identity and its reverse entry leaves a link that blocks nobody.
- The `recovery` text of a failed field synchronisation names a command to run again that
  the program does not have (`apps/slack-adapter/README.md:248`).

## Fairness

Four properties need any.

- `Answered`: a worker that is not dead goes on (weak fairness of its next step), time
  passes (weak fairness of a lease's expiry), and Cloud Tasks attempts a task that waits
  again and again (strong fairness of its dispatch: a worker may be busy between
  attempts, and the queue retries until it is answered).
- `LosesSight`, `CalendarConverges`: a handler that is not dead goes on, leases expire, and
  the scheduled jobs are started again whenever they can be (weak fairness of `Schedule`:
  the Canvas job and the calendar job of `start.ts` run on timers). Commands get none: a
  user may never come back.
- `OverdueIsTold`: a handler that is not dead goes on, and the deadline job runs day after
  day.

Failures and deaths get no fairness; they are finitely many because the budget is.

## What is proved

Every invariant and every action property that a passing run checks, and the
implementation of `NotificationPromise`, for every value of the constants: intents,
deliveries, requests, Issues, users, accounts, handlers, commands, webhooks and scenarios are
any sets, and the counters of mishaps, leases, attempts and days have any bound. Each
`M_proofs` states `Invariance` (or `Typed`, `Viewed`, `Said`), the inductive invariant of its
module, and derives the others from it. TLC checked each of these invariants on the instance
of its run. The assumptions are the named `ASSUME` of the model: which
elements are not members of which sets, that bounds are numbers, and what a scenario is.

None of the properties is inductive alone, for one reason throughout: a handler acts on
what it read several steps ago. The invariants therefore say, at each place of a handler,
what of its memory is still so, and who else could have made it untrue.

### `NotificationOutbox_proofs` (from `OutboxAssumption`)

| theorem | statement |
|---|---|
| `TypeCorrect` | `Spec => []TypeOK` |
| `Invariance` | `Spec => []IInv`, the inductive invariant |
| `SendsOnce` | `Spec => []AutomaticSendsOnce` |
| `NoDuplicateInTime` | `Spec => []NoPromptDuplicate` |
| `SentIsInSlack` | `Spec => []SentIsTrue` |
| `AuditedFirst` | `Spec => []ReplayAuditedFirst` |
| `SentStays` | `Spec => SentIsFinal` |
| `Implements` | `Spec => KeepsPromise`: the outbox implements `NotificationPromise` |

That a message in time is never doubled rests on what an operator learned several steps
before it claims, and that is worth something at the claim only because the revision still
matches. `IInv` says so, in four parts:

- of a document (`DocOK`): its counters tell the automatic claim from the ordered ones;
- of the calls of an intent (`CallOK`, `PromptOK`): each bears the number of a claim,
  lands once, and if it came in time belongs to the latest claim, inside the window that
  the reconciliation searches (here `StaleAfter <= SearchAfter` is used);
- of an actor (`SeenOK`, `StepOK`, `ScanOK`): it holds the stored document or an older
  revision of it, and what its step requires of that document is true of it; an operator
  about to claim a document that is still stored has ruled out a message in time;
- of claims that wait for their audit (`OrderOK`, `OrderAlone`): no call bears their
  number yet and no other actor holds the same one.

`Moves` says what one step can do to a document, to an actor and to an intent's calls;
one lemma per action shows it (`CreateOrLoadMoves`, ..., `SlackMoves`), and every
conjunct of `IInv`, `SentIsFinal` and the step simulation (`PromiseStep`) follow from
`Moves` alone.

### `WebhookDelivery_proofs` (from `DeliveryAssumption`)

| theorem | statement |
|---|---|
| `TypeCorrect`, `Invariance` | `Spec => []TypeOK`, `Spec => []IInv` |
| `Exclusive` | `Spec => []EffectsExclusive` |
| `RecordTrue` | `Spec => []RecordIsTrue` |
| `RerunRetryable` | `Spec => RerunOnlyAfterRetryable` |

The argument is what an owner is good for. `DocOK`: an owner is the revision its lease was
written at, so two leases have two owners (`OwnersDiffer`). `WorkerOK`: what a worker
knows before it has the lease (`SeekerOK`); that with the lease, as long as the document
names it, the document is as it wrote it (`LeaserOK`); and that in the effects it is the
owner, at the revision it holds until it is done (`RunnerOK`), so that the conflict of
`completeDelivery` never arises. `RunOK`: a delivery that may be run never ran, or its last
run may be repeated.

### `IssueApproval_proofs` (from `ApprovalAssumption`)

| theorem | statement |
|---|---|
| `TypeCorrect`, `Invariance` | `Spec => []TypeOK`, `Spec => []IInv` |
| `SingleCreator` | `Spec => []OneCreator` |
| `RightfullyCreated` | `Spec => []CreatedByRight` |
| `ApprovalTrue` | `Spec => []ApprovedIsTrue` |
| `DecisionStands` | `Spec => DecisionIsFinal` |
| `AnswerTrue` | `Spec => ReportIsTrue` |

A handler whose revision is still stored holds the stored document (`ReaderOK`), a document
that is "processing" belongs to one handler until it gives it back (`ClaimOK`, `Alone`,
`RecoverOK`), a creator has created nothing but the Issue of its claim (`CreatorOK`), and a
maker has attached, reported or still to attach each relationship (`MakerOK`). From the
invariant follows, too, that the conflict at the end of `approve` never arises: who creates
holds the claim, and nobody moves a claimed document.

### `WebhookPipeline_proofs` (from `PipelineAssumption`)

| theorem | statement |
|---|---|
| `TypeCorrect`, `Invariance` | `Spec => []TypeOK`, `Spec => []IInv` |
| `OneRoot` | `Spec => []RepliesShareRoot` |
| `PostedOnce` | `Spec => []NoticeOnce` |
| `OverviewComesFirst` | `Spec => []OverviewFirst` |
| `RootStands` | `Spec => RootIsFinal` |
| `Said`, `AllIsSaid` | `Spec => []SaidInv`, `Spec => []CompletedIsSaid` |
| `HandledAlone` | `Spec => []OneHandler` |
| `Restarts` | `Spec => RestartsOnlyAfterRetryable` |
| `RecordStaysTrue` | `Spec => []RecordIsTrue`, WebhookDelivery's, of the composition |

`IInv` follows a notice through `send`: what a worker has in hand (`JobOK`) and how far it
has come with it (`PlaceOK`: past the check the overview is in the channel, a root lease
whose revision is still stored is the one the thread waits for, and an intent that is waited
for has posted nothing), that no two workers wait for one intent (`WaitersDiffer`), and what
intents, channel and memory say of each other (`IntentOK`, `ChannelOK`, `NotifiedOK`). A
step of one worker leaves to the others what they rely on (`Extends`, `Apart`, `Others`).

`SaidInv` stands on top of it. `CoversOK`: what a worker's event asks of each of its
subjects, as it was at some time since the event, has been said, but for the subjects it has
still to load and the notices it has still to send; so a return has nothing left, and
`completeDelivery` records the truth. What makes a notice count as said must stay so under
every other worker, replay and change (`Grows`, `PassedStays`), and a silent assignment
counts only because whoever is to be consumed was named by an overview that was posted
(`SetupOK`).

What is proved of the queue and the processor alone is used here through
`Q == INSTANCE WebhookDelivery_proofs`. The composition does not implement
`WebhookDelivery` step by step: there every error of the effects is a mishap, here a call
to Slack that goes wrong is one (`MishapOnly`), and the effects may later fail without
another (`QuietFailure`). Every other step is a step of the queue or leaves it alone
(`StepIsQueue`), and these two preserve its invariant too (`QueueNext`). With `SaidInv`,
which ties being in the effects to having an event in the lifecycle service (`EffectsOK`),
the exclusion of two runs becomes the exclusion of two handlers of one event
(`OneHandler`), and what may run again becomes what the service may be given again
(`RestartsOnlyAfterRetryable`). No run lists these two; TLC found them true of the
instance of `pipeline`.

### `LinkedAccounts_proofs`, `LinkedOwners_proofs`, `LinkedViews_proofs` (from `AccountsAssumption`)

| theorem | statement |
|---|---|
| `Typed`, `TypeCorrect` | `Spec => []TypeInv`, `Spec => []TypeOK` |
| `UrlIsGoodOnce` | `Spec => []UrlOnce` |
| `OwnersOfAccounts` | `Spec => []OwnersAgree` |
| `CalendarIsOne` | `Spec => []OneCalendar` |
| `Viewed` | `Spec => []ViewsInv` |
| `AllIsTracked` | `Spec => []NothingUntracked` |
| `OwnAccountShown` | `Spec => []ShowsOwnAccount` |
| `GuardIsKept` | `Spec => []GuardHolds` |

`TypeInv` also says what a handler has in hand at each place of its command. The links rest
on a classification of all steps (`NextKinds`, `LinkKinds`) and on `Apart`: of a user that
is not in `crossed`, one handler at a time is at a link, a revocation or a synchronisation,
so what it read of the identity is still so (`UrlInv`, `IdentityInv`, `OwnersInv`,
`CalendarInv`). The views rest on `Mutex`: whoever is past the acquisition of a lease holds
it, unless it ran out, and then the lease is in `overrun`. `ViewsInv` puts together whose a
projection is (`RefsInv`, `KeysInv`) and what its holder has read of a Canvas
(`CanvasInv`), of a List (`ListInv`) and of the channel's Lists with the mark `scoped-only`
(`ChannelInv`).

### `ProjectNotices_proofs` (from `NoticesAssumption`)

| theorem | statement |
|---|---|
| `TypeCorrect`, `Invariance` | `Spec => []TypeOK`, `Spec => []IInv` |
| `ToldOnlyOnce` | `Spec => []ToldOnce` |
| `OneRoot` | `Spec => []RepliesShareRoot` |
| `RememberedPosted` | `Spec => []RememberedIsPosted` |
| `DirectsKept` | `Spec => []DirectsAreKept` |
| `ReviewsRest` | `Spec => []ReviewRests` |

Messages, payloads and a ready root stay (`Grown`); a handler that comes to remember a
notice has it in the channel and has handed on its direct messages (`SendOK`,
`HasHanded`); who waits is alone with its intent. For `ReviewRests`, the last message to the
reviewers is either being remembered by its handler or is what the memory holds, with the
day it was sent (`Resting`); that there is a last message is carried by the invariant,
since it cannot be had by induction over the channel.

### What stays with TLC

Liveness under fairness (`Answered`, `LosesSight`, `CalendarConverges`, `OverdueIsTold`), which
needs `ENABLED`: the prover has no rules for it. What `IssueCreation` and `LifecycleEvents`
do with sequences is proved only as far as the invariants need it (`OwedTodo`, `MakerOK`):
induction over data is beyond the prover, and no module here declares a recursive operator.
The six statements that the code violates are counterexamples of TLC.

## Not modelled

`PROJECT.json` lists every part with its status. Left out for good: formatting, parsing
and wording, the terminal interface, one-time setup and governance files, and the
command guard's patterns. The local store's files and the local queue (development
only: it never retries) are left out too. Within the parts that are modelled:

- outbox: the document's owner, which nothing reads; dry runs and refused replays;
- lifecycle: the list of allowed repositories, the marker of an old migration, the
  broadcast copy; failures of GitHub or the store inside the effects, which end a worker
  as a death does. Its required-action messages take the path `NoticeDelivery` models;
- work notices: failing checks, which the lifecycle announces; a handler's second
  `ensureRoot` in `publishReply` is one with the first;
- reviews: one pull request (`remindPending` ends at the first that fails); teams;
- approval: the requester's rights on GitHub; the messages about a decision. A Project or
  a field that cannot be read counts as a failed call;
- accounts: the expiry of a URL and the audit entries. The unscoped synchronisation of the
  channel's List is an operation of the service that no command of `app.ts` reaches today;
- `stopSelfMerge`: two calls to GitHub and a notice. Where its PATCH succeeds and the
  comment fails, the retry is refused (the label is gone) and nobody is told;
- the reading of a Project and its scopes, which the models are given as what GitHub shows.

The command line (`src/`) and the scripts are not modelled yet. They run on one machine for
one user; what is hard in them is the order of steps against Git and GitHub.

## The plan

1. Outbox, delivery, threads and their composition, approval (done).
2. `LinkedAccounts`: links, projections, calendar (done).
3. `ProjectNotices`: work notices, reviews, direct messages (done).
4. `LifecycleEvents` for every webhook, `IssueCreation` call by call (done).
5. Theorems: the invariants and action properties of every passing run, and the
   implementation of `NotificationPromise` (done).
6. The command line: the transfer of changes over the stash, presence by pushed refs.
