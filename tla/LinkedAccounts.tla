--------------------------- MODULE LinkedAccounts ---------------------------
(***************************************************************************)
(* The account services put together as start.ts and app.ts do: commands,  *)
(* callbacks and scheduled jobs of a user link and unlink a GitHub and a   *)
(* Google account, and synchronise the Canvas, the Lists and the calendar  *)
(* that show what the GitHub account may see.  A scenario names the links  *)
(* and the channel's List there are at first and how often each command is *)
(* still given, so that unrelated commands need not be multiplied.         *)
(***************************************************************************)
EXTENDS CalendarLink

CONSTANTS All, Commands, Scenarios

VARIABLES
  canvas, canvasDoc, list, listDoc, guard,
  left,      \* how often each command will still be given to each user
  blind,     \* the accounts that may no longer read the repository
  crossed,   \* history: the users whose links, revocations and synchronisations overlapped
  overrun    \* history: the leases that ran out under a handler at work

C == INSTANCE CanvasProjection
L == INSTANCE ListProjection

handlers == <<at, job, lease, mishaps>>
views == <<canvas, canvasDoc, list, listDoc, guard>>
scene == <<left, blind, crossed, overrun>>
vars == <<handlers, links, calendars, views, scene>>

ASSUME AccountsAssumption ==
  /\ None \notin Keys \cup Accounts \cup Subjects \cup Urls \cup Handlers
  /\ Dead \notin Handlers
  /\ Channel \notin Users /\ Shared \notin Users \cup {Channel}
  /\ All \notin Accounts \cup {Shared}
  /\ Subjects # {}
  /\ MaxMishaps \in Nat
  /\ \A s \in Scenarios : /\ s.left \in [Commands -> [Users -> Nat]]
                          /\ s.linked \in [Users -> Accounts \cup {None}]
                          /\ \A u, v \in Users : s.linked[u] = s.linked[v]
                                                => u = v \/ s.linked[u] = None
                          /\ s.calendar \in Users \cup {None}
                          /\ s.list \in {"none", "older", "current"}

Init ==
  \E s \in Scenarios :
    /\ InitHandlers
    /\ InitLinks(s.linked)
    /\ InitCalendars(s.calendar)
    /\ C!InitCanvases
    /\ L!InitLists(s.list)
    /\ left = s.left
    /\ blind = {}
    /\ crossed = {}
    /\ overrun = {}

-----------------------------------------------------------------------------
(* syncProjectProjection *)

\* A user whose link is gone has the projections revoked.
Resolve(h) ==
  LET login == identity[job[h].user]
  IN  /\ at[h] = "resolve"
      /\ IF login = None THEN Go(h, "revoke", [Work(job[h].user) EXCEPT !.then = "idle"])
                         ELSE Go(h, "load", [job[h] EXCEPT !.login = login])

\* Mutant: the loss of the repository ends the synchronisation, and no more.
Load_NoRevoke(h) ==
  /\ at[h] = "load"
  /\ IF job[h].login \in blind THEN Rest(h) ELSE Goto(h, job[h].goal)

\* So has one whose account may no longer read the repository.
Load(h) ==
  /\ at[h] = "load"
  /\ IF job[h].login \in blind THEN Go(h, "revoke", [Work(job[h].user) EXCEPT !.then = "idle"])
                               ELSE Goto(h, job[h].goal)

Project(h, u, what, then) ==
  Go(h, "resolve", [Work(u) EXCEPT !.key = u, !.goal = what, !.then = then])

-----------------------------------------------------------------------------
(* What starts a handler. *)

Use(c, u) ==
  /\ left[c][u] > 0
  /\ left' = [left EXCEPT ![c][u] = @ - 1]

Give(h, c, u) ==
  /\ at[h] = "idle"
  /\ Use(c, u)
  /\ \/ /\ \/ c = "connect github" /\ Connect(h, u, "github")
           \/ c = "connect google" /\ Connect(h, u, "google")
           \/ c = "disconnect github" /\ Disconnect(h, u)
        /\ UNCHANGED calendars
     \/ /\ \/ c = "disconnect google" /\ Go(h, "unlink google", Work(u))
           \/ c = "calendar" /\ Go(h, "calendar", Work(u))
           \/ c = "canvas" /\ Project(h, u, "acquire canvas", "idle")
           \/ c = "list" /\ Project(h, u, "acquire list", "idle")
           \/ c = "shared list" /\ Go(h, "acquire list", [NoJob EXCEPT !.key = Shared,
                                                          !.then = "release list"])
           \/ c = "unscoped list" /\ Go(h, "acquire list", [Work(u) EXCEPT !.key = Channel])
           \/ c = "start" /\ Go(h, "acquire channel", NoJob)
        /\ UNCHANGED <<links, calendars>>
  /\ UNCHANGED <<lease, mishaps, views>>

\* syncExistingPersonalCanvases: each recorded Canvas, over and over.
ScheduleCanvas(h, u) ==
  /\ at[h] = "idle"
  /\ left["every canvas"][u] > 0
  /\ canvasDoc[u].id # 0
  /\ Project(h, u, "acquire canvas", "scheduled")
  /\ UNCHANGED <<lease, mishaps, links, calendars, views, left>>

\* syncAll: each linked calendar, over and over.
ScheduleCalendar(h, u) ==
  /\ at[h] = "idle"
  /\ left["every calendar"][u] > 0
  /\ google[u] # NoGoogle
  /\ Go(h, "calendar", Work(u))
  /\ UNCHANGED <<lease, mishaps, links, calendars, views, left>>

\* The repository is taken away from an account.
Lose(a) ==
  /\ a \notin blind
  /\ \E u \in Users : Use("lose", u)
  /\ blind' = blind \cup {a}
  /\ UNCHANGED <<handlers, links, calendars, views>>

-----------------------------------------------------------------------------
(* A step of a handler, and what goes wrong. *)

Step(h) ==
  /\ \/ LinkStep(h) /\ UNCHANGED <<lease, calendars, views>>
     \/ CalendarStep(h) /\ UNCHANGED <<lease, links, views>>
     \/ C!CanvasStep(h) /\ UNCHANGED <<links, calendars, list, listDoc, guard>>
     \/ L!ListStep(h) /\ UNCHANGED <<links, calendars, canvas, canvasDoc>>
     \/ (Resolve(h) \/ Load(h)) /\ UNCHANGED <<lease, links, calendars, views>>
  /\ UNCHANGED mishaps

\* A call fails where no lease is held, and ends the handler.
Unleased == LinkPlaces \cup CalendarPlaces
            \cup {"resolve", "load", "revoke", "close canvas", "forget canvas", "revoke list",
                  "close list", "forget list"}

Fails(h) ==
  /\ at[h] \in Unleased
  /\ Mishap
  /\ Rest(h)
  /\ UNCHANGED <<lease, links, calendars, views>>

Die(h) ==
  /\ at[h] # "idle"
  /\ Mishap
  /\ Rest(h)
  /\ Orphaned(h)
  /\ UNCHANGED <<links, calendars, views>>

Fault(h) ==
  \/ Fails(h)
  \/ C!CanvasFails(h) /\ UNCHANGED <<links, calendars, list, listDoc, guard>>
  \/ L!ListFails(h) /\ UNCHANGED <<links, calendars, canvas, canvasDoc>>
  \/ L!MigrationFails(h) /\ UNCHANGED <<links, calendars, canvas, canvasDoc>>
  \/ Die(h)

-----------------------------------------------------------------------------
(* Where handlers cross. *)

\* A handler that changes a user's links, or revokes the projections.
Changing(h) ==
  at[h] \in LinkPlaces \cup {"revoke", "close canvas", "forget canvas", "revoke list",
                             "close list", "forget list"}

\* One that changes the Google link, or may write its copy of it back.
Linking(h) == at[h] \in CalendarPlaces \ {"put events", "delete events"}

\* Two handlers at once on the links of one user or of one account (a relink
\* that still revokes has looked at the entry of its account), or one of them
\* on a user's links while the other synchronises.
Cross(g, h) ==
  /\ g # h
  /\ \/ job[g].user = job[h].user /\ (Changing(g) \/ (Linking(g) /\ Linking(h)))
     \/ /\ Changing(g) /\ Changing(h)
        /\ job[g].login \in {job[h].login, job[h].previous} \ {None}

\* Those whose handlers cross, or whose links are left half changed: written
\* in an order of which a part is done.
Crossing ==
  {u \in Users : \E g, h \in Handlers : Cross(g, h) /\ u \in {job[g].user, job[h].user}}

Broken(h) == {job[h].user} \cap Users

Record ==
  /\ crossed' = crossed \cup Crossing'
                \cup UNION {Broken(h) : h \in {g \in Handlers :
                              at[g] # "idle" /\ at'[g] = "idle" /\ mishaps' # mishaps
                              /\ (Linking(g) \/ at[g] \in LinkPlaces)}}
  /\ overrun' = overrun \cup {l \in Leases : lease[l] \in Handlers /\ lease'[l] = None
                                             /\ at' = at}

Places == {"idle", "resolve", "load"} \cup LinkPlaces \cup CalendarPlaces \cup C!CanvasPlaces
          \cup L!ListPlaces

Order(h) == (\E u \in Users, c \in Commands : Give(h, c, u)) /\ UNCHANGED blind /\ Record

Open(h) ==
  /\ \E n \in Urls : Callback(h, n)
  /\ UNCHANGED <<lease, mishaps, calendars, views, left, blind>>
  /\ Record

Schedule(u) ==
  /\ \E h \in Handlers : ScheduleCanvas(h, u) \/ ScheduleCalendar(h, u)
  /\ UNCHANGED blind
  /\ Record

Handle(h) == Step(h) /\ UNCHANGED <<left, blind>> /\ Record

Break(h) == Fault(h) /\ UNCHANGED <<left, blind>> /\ Record

Lapse(l) == Expire(l) /\ UNCHANGED <<links, calendars, views, left, blind>> /\ Record

Outlast(l) == Overrun(l) /\ UNCHANGED <<links, calendars, views, left, blind>> /\ Record

Next ==
  \/ \E h \in Handlers : Order(h) \/ Open(h) \/ Handle(h) \/ Break(h)
  \/ \E u \in Users : Schedule(u)
  \/ \E a \in Accounts : Lose(a) /\ Record
  \/ \E l \in Leases : Lapse(l) \/ Outlast(l)

\* Handlers that live go on, leases expire, and the schedules are kept; but for
\* them, a user may come back or not.
Fairness ==
  /\ \A h \in Handlers : WF_vars(Handle(h))
  /\ \A u \in Users : WF_vars(Schedule(u))
  /\ WF_vars(\E l \in Leases : Lapse(l))

Spec == Init /\ [][Next]_vars

FairSpec == Spec /\ Fairness

-----------------------------------------------------------------------------
(* Properties. *)

\* Every variable has its type, and a handler is where there is something to do.
TypeOK ==
  /\ LinksOK /\ CalendarsOK /\ C!CanvasesOK /\ L!ListsOK
  /\ at \in [Handlers -> Places]
  /\ DOMAIN job = Handlers
  /\ lease \in [Leases -> Handlers \cup {None, Dead}]
  /\ left \in [Commands -> [Users -> Nat]]
  /\ blind \subseteq Accounts /\ crossed \subseteq Users /\ overrun \subseteq Leases
  /\ mishaps \in 0..MaxMishaps

\* However many callbacks bring the same authorisation URL at once, one of them
\* goes on from it (complete: the nonce's compare-and-set).
UrlOnce ==
  \A g, h \in Handlers :
    Authorised(g) /\ Authorised(h) /\ job[g].url = job[h].url => g = h

\* Between the links of users that never crossed, and none of which broke off
\* halfway, the identities and the reverse entries agree: nobody is refused an
\* account that is free, and no account has two users.
OwnersAgree ==
  crossed = {} /\ (\A h \in Handlers : at[h] \notin LinkPlaces) => Paired

\* The users and projections of which no two handlers crossed and no lease ran
\* out under its holder.
Calm(what) == {u \in Users : u \notin crossed /\ <<what, u>> \notin overrun}

ShowsOwn(u) ==
  /\ \A i \in DOMAIN canvas : u \in canvas[i].readers => canvas[i].shows = identity[u]
  /\ \A i \in DOMAIN list : u \in list[i].readers /\ list[i].key = u
                            => list[i].rows \subseteq {identity[u]} \ {None}

\* A user reads no work but that of the account linked now: at no moment of a
\* relink or a disconnection, and wherever a revocation or a synchronisation
\* fails or dies, does a Canvas or a List show another's.
ShowsOwnAccount == \A u \in Calm("canvas") \cap Calm("list") : ShowsOwn(u)

\* What a user can read is recorded, so that a revocation finds it, wherever the
\* synchronisation that made it ended.
NothingUntracked ==
  /\ \A u \in Calm("canvas"), i \in DOMAIN canvas :
       u \in canvas[i].readers => canvasDoc[u].id = i
  /\ \A u \in Calm("list"), i \in DOMAIN list :
       u \in list[i].readers /\ list[i].key = u => listDoc[u].id = i

\* Once the mark "scoped-only" is there, the channel reads no List with every
\* repository's work, whatever unscoped synchronisation was under way; but for
\* an old List that a complete unscoped upgrade has renamed and forgotten.
GuardHolds ==
  guard /\ <<"list", Channel>> \notin overrun
  => \A i \in DOMAIN list :
       Channel \in list[i].readers /\ All \in list[i].rows => list[i].renamed

\* A link to a Google account has one calendar, however often the account is
\* authorised again and synchronised, unless synchronisations and changes of
\* the link crossed or broke off.
OneCalendar == \A u \in Users \ crossed : made[u] <= 1

\* The adapter's README: before another account is linked, the access of the
\* old one's Canvas and List is revoked.
RelinkRevokes ==
  mishaps = 0 /\ (\A h \in Handlers : at[h] = "idle")
  => \A u \in Users : identity[u] # None => ShowsOwn(u)

\* A Canvas of a user whose account may no longer read the repository is taken
\* away by the scheduled synchronisation.
LosesSight ==
  \A u \in Users :
    (\E i \in DOMAIN canvas : u \in canvas[i].readers /\ canvas[i].shows \in blind)
    ~> (u \notin Calm("canvas")
        \/ \A i \in DOMAIN canvas : u \in canvas[i].readers => canvas[i].shows \notin blind)

\* In the end the calendar holds the items of the account linked on GitHub, and
\* no others, whatever synchronisations crossed before.
CalendarConverges ==
  \A u \in Users :
    <>[](left["every calendar"][u] > 0 /\ google[u].calendar # 0 /\ identity[u] # None
         => calendar[google[u].calendar].events = {identity[u]})
=============================================================================
