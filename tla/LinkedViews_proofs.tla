--------------------------- MODULE LinkedViews_proofs ---------------------------
(***************************************************************************)
(* Theorems about what the Canvases and Lists of LinkedAccounts show, for  *)
(* any users, accounts, handlers, commands and scenarios: the leases keep  *)
(* the synchronisations of one projection apart until one runs out; a user *)
(* whose handlers never crossed reads the work of the account linked now,  *)
(* and nothing that is not recorded.                                       *)
(***************************************************************************)
EXTENDS LinkedOwners_proofs

-----------------------------------------------------------------------------
(* What a step does to the views.                                          *)

\* Where the steps lead that neither change a link nor synchronise or revoke.
Plain == {"idle", "resolve", "load", "revoke", "acquire canvas", "acquire list",
          "acquire channel", "consume", "release canvas", "release list"} \cup CalendarPlaces

Leads(h) == \E p \in Plain : \E j : Go(h, p, j)

ViewKinds ==
  \/ UNCHANGED <<at, job, identity, views>>
  \/ \E h \in Handlers : Leads(h) /\ UNCHANGED <<identity, views>>
  \/ \E h \in Handlers : LinkStep(h) /\ UNCHANGED views
  \/ \E h \in Handlers : C!CanvasStep(h) /\ UNCHANGED <<identity, list, listDoc, guard>>
  \/ \E h \in Handlers : L!ListStep(h) /\ UNCHANGED <<identity, canvas, canvasDoc>>

LEMMA PlainPlaces ==
  ASSUME NEW p \in {"idle", "resolve", "load", "revoke", "acquire canvas", "acquire list",
                    "acquire channel", "consume", "release canvas", "release list",
                    "unlink google", "calendar"}
  PROVE  p \in Plain
  BY DEF Plain, CalendarPlaces

LEMMA OrderViews ==
  ASSUME NEW h \in Handlers, Order(h)
  PROVE  ViewKinds
<1>1. PICK u \in Users : \E c \in Commands : Give(h, c, u)
  BY DEF Order
<1>2. PICK c \in Commands : Give(h, c, u)
  BY <1>1
<1>3. CASE \E s : Connect(h, u, s)
  BY <1>2, <1>3 DEF Give, Connect, ViewKinds
<1>4. CASE ~\E s : Connect(h, u, s)
  <2>1. UNCHANGED <<identity, views>>
    BY <1>2, <1>4 DEF Give, Disconnect, links
  <2>2. PICK p \in {"unlink google", "calendar", "revoke", "resolve", "acquire list",
                    "acquire channel"} : \E j : Go(h, p, j)
    BY <1>2, <1>4, Zenon DEF Give, Disconnect, Project
  <2>3. Leads(h)
    BY <2>2, PlainPlaces DEF Leads
  <2> QED
    BY <2>1, <2>3 DEF ViewKinds
<1> QED
  BY <1>3, <1>4

LEMMA ResolveLeads ==
  ASSUME TypeInv, NEW h \in Handlers, Resolve(h) \/ Load(h)
  PROVE  \E p \in {"revoke", "load", "acquire canvas", "acquire list"} : \E j : Go(h, p, j)
<1>1. at[h] = "load" => job[h].goal \in {"acquire canvas", "acquire list"}
  BY InHand DEF JobOK, CanvasJob
<1> QED
  BY <1>1 DEF Resolve, Load, Goto

LEMMA ResolveViews ==
  ASSUME TypeInv, NEW h \in Handlers, Resolve(h) \/ Load(h)
  PROVE  Leads(h)
  BY ResolveLeads, PlainPlaces DEF Leads

LEMMA FaultViews ==
  ASSUME TypeInv, NEW h \in Handlers, Fault(h)
  PROVE  Leads(h) /\ UNCHANGED <<identity, views>>
<1>1. CASE Fails(h) \/ Die(h)
  BY <1>1, PlainPlaces DEF Fails, Die, Leads, Rest, links
<1>2. CASE C!CanvasFails(h) /\ UNCHANGED <<links, calendars, list, listDoc, guard>>
  BY <1>2, SameGoes, PlainPlaces DEF C!CanvasFails, Leads, links, views
<1>3. CASE L!ListFails(h) /\ UNCHANGED <<links, calendars, canvas, canvasDoc>>
  BY <1>3, SameGoes, PlainPlaces DEF L!ListFails, Leads, links, views
<1>4. CASE L!MigrationFails(h) /\ UNCHANGED <<links, calendars, canvas, canvasDoc>>
  <2>1. at[h] \in Migrating
    BY <1>4 DEF L!MigrationFails, Migrating
  <2>2. job[h].then \in {"idle", "release list"}
    BY <2>1, InHand DEF JobOK, ListJob, ForShared
  <2>3. Go(h, "idle", NoJob) \/ Go(h, "release list", job[h])
    BY <1>4, <2>2, SameGoes DEF L!MigrationFails
  <2> QED
    BY <1>4, <2>3, PlainPlaces DEF L!MigrationFails, L!lists, Leads, links, views
<1> QED
  BY <1>1, <1>2, <1>3, <1>4 DEF Fault

LEMMA NextViews ==
  ASSUME TypeInv, [Next]_vars
  PROVE  ViewKinds
<1>1. ASSUME NEW h \in Handlers, Open(h) PROVE ViewKinds
  BY <1>1, PlainPlaces DEF Open, Callback, Leads, links, ViewKinds
<1>2. ASSUME NEW h \in Handlers, Step(h) PROVE ViewKinds
  <2>1. CASE LinkStep(h) /\ UNCHANGED views
    BY <2>1 DEF ViewKinds
  <2>2. CASE CalendarStep(h) /\ UNCHANGED <<links, views>>
    <3>1. PICK p \in CalendarPlaces \cup {"idle"} : \E j : Go(h, p, j)
      BY <2>2, CalendarLeads
    <3>2. p \in Plain
      BY DEF Plain
    <3> QED
      BY <2>2, <3>1, <3>2 DEF Leads, links, ViewKinds
  <2>3. CASE C!CanvasStep(h) /\ UNCHANGED <<links, list, listDoc, guard>>
    BY <2>3 DEF ViewKinds, links
  <2>4. CASE L!ListStep(h) /\ UNCHANGED <<links, canvas, canvasDoc>>
    BY <2>4 DEF ViewKinds, links
  <2>5. CASE (Resolve(h) \/ Load(h)) /\ UNCHANGED <<links, views>>
    BY <2>5, ResolveViews DEF ViewKinds, links
  <2> QED
    BY <1>2, <2>1, <2>2, <2>3, <2>4, <2>5 DEF Step
<1>3. ASSUME NEW h \in Handlers, Break(h) PROVE ViewKinds
  BY <1>3, FaultViews DEF Break, ViewKinds
<1>4. ASSUME NEW h \in Handlers, NEW u \in Users, ScheduleCanvas(h, u) \/ ScheduleCalendar(h, u)
      PROVE  ViewKinds
  BY <1>4, PlainPlaces DEF ScheduleCanvas, ScheduleCalendar, Project, Leads, links, ViewKinds
<1>5. CASE UNCHANGED vars
  BY <1>5 DEF vars, handlers, links, ViewKinds
<1>6. CASE \E a \in Accounts : Lose(a)
  BY <1>6 DEF Lose, handlers, links, ViewKinds
<1>7. CASE \E l \in Leases : Lapse(l) \/ Outlast(l)
  BY <1>7 DEF Lapse, Outlast, Expire, Overrun, links, ViewKinds
<1> QED
  BY <1>1, <1>2, <1>3, <1>4, <1>5, <1>6, <1>7, OrderViews DEF Next, Handle, Schedule

-----------------------------------------------------------------------------
(* The leases.                                                             *)

\* Whoever is past the acquisition holds the lease; what a synchronisation of
\* the shared List holds beside the channel's is not needed here.
Holds(p, j, l) ==
  \/ p \in CanvasSync \ {"acquire canvas"} /\ l = <<"canvas", j.key>>
  \/ p \in ListSync \ {"acquire list"} /\ j.key # Shared /\ l = <<"list", j.key>>
  \/ p \in Migrating \ {"acquire channel"} /\ l = <<"list", Channel>>

Mutex ==
  \A h \in Handlers, l \in Leases :
    Holds(at[h], job[h], l) /\ l \notin overrun => lease[l] = h

\* What a handler's step does to the leases and to its own need of them.
LeaseStep(h) ==
  \E p : \E j : /\ Go(h, p, j)
                /\ \A l \in Leases :
                     Holds(p, j, l) => \/ lease'[l] = h
                                       \/ Holds(at[h], job[h], l) /\ lease'[l] = lease[l]

LEMMA LeasesStay ==
  ASSUME AccountsAssumption, TypeInv, NEW h \in Handlers, LeaseMove(h), NEW l \in Leases,
         lease[l] \in Handlers \ {h}
  PROVE  lease'[l] = lease[l]
<1>1. lease \in [Leases -> Handlers \cup {None, Dead}] /\ lease[l] # None
  BY DEF TypeInv, SceneOK, AccountsAssumption
<1>2. PICK g : g = lease[l] /\ g # h /\ g # None
  BY <1>1
<1>3. CASE UNCHANGED lease
  BY <1>3
<1>4. ASSUME NEW m, lease[m] = None, lease' = [lease EXCEPT ![m] = h] PROVE lease'[l] = g
  BY <1>1, <1>2, <1>4
<1>5. ASSUME NEW m, lease' = [lease EXCEPT ![m] = IF lease[m] = h THEN None ELSE lease[m]]
      PROVE  lease'[l] = g
  BY <1>1, <1>2, <1>5
<1>6. CASE lease' = [m \in Leases |-> IF lease[m] = h THEN Dead ELSE lease[m]]
  BY <1>2, <1>6
<1> QED
  BY <1>2, <1>3, <1>4, <1>5, <1>6 DEF LeaseMove

LEMMA MutexStep ==
  ASSUME AccountsAssumption, TypeInv, Mutex, overrun \subseteq overrun', NEW h \in Handlers,
         LeaseMove(h), LeaseStep(h)
  PROVE  Mutex'
<1>1. PICK p, j : /\ Go(h, p, j)
                  /\ \A l \in Leases :
                       Holds(p, j, l) => \/ lease'[l] = h
                                         \/ Holds(at[h], job[h], l) /\ lease'[l] = lease[l]
  BY DEF LeaseStep
<1>2. /\ at'[h] = p /\ job'[h] = j
      /\ \A g \in Handlers : g # h => at'[g] = at[g] /\ job'[g] = job[g]
  BY <1>1, MoveFields
<1>3. ASSUME NEW g \in Handlers, NEW l \in Leases, Holds(at'[g], job'[g], l), l \notin overrun'
      PROVE  lease'[l] = g
  <2>1. CASE g = h
    <3>1. Holds(p, j, l)
      BY <1>2, <1>3, <2>1
    <3> QED
      BY <1>1, <1>3, <2>1, <3>1 DEF Mutex
  <2>2. CASE g # h
    <3>1. Holds(at[g], job[g], l)
      BY <1>2, <1>3, <2>2
    <3>2. lease[l] = g
      BY <1>3, <3>1 DEF Mutex
    <3> QED
      BY <2>2, <3>2, LeasesStay
  <2> QED
    BY <2>1, <2>2
<1>4. ASSUME NEW g \in Handlers, NEW l \in Leases PROVE Holds(at[g], job[g], l)' <=> Holds(at'[g], job'[g], l)
  BY DEF Holds
<1> QED
  BY <1>3, <1>4 DEF Mutex

LEMMA HoldsNothing ==
  ASSUME NEW p, p \notin CanvasSync \ {"acquire canvas"}, p \notin ListSync \ {"acquire list"},
         p \notin Migrating \ {"acquire channel"}, NEW j, NEW l
  PROVE  ~Holds(p, j, l)
  BY DEF Holds

Outside == {"idle", "resolve", "load", "revoke", "acquire canvas", "acquire list",
            "acquire channel"} \cup LinkPlaces \cup CalendarPlaces \cup Revoking

LEMMA OutsideHolds ==
  ASSUME NEW p \in Outside, NEW j, NEW l
  PROVE  ~Holds(p, j, l)
<1>1. /\ p \notin CanvasSync \ {"acquire canvas"} /\ p \notin ListSync \ {"acquire list"}
      /\ p \notin Migrating \ {"acquire channel"}
  BY DEF Outside, LinkPlaces, CalendarPlaces, Revoking, CanvasSync, C!CanvasPlaces, ListSync,
     Migrating, L!MigrationPlaces
<1> QED
  BY <1>1, HoldsNothing

\* A handler that goes on with a lease has it.
LEMMA HoldsOn ==
  ASSUME NEW p, NEW j, NEW q, NEW k, Alike(k, j), NEW l,
         Holds(q, k, l),
         \/ p \in CanvasSync \ {"acquire canvas"} /\ q \in CanvasSync
         \/ p \in ListSync \ {"acquire list"} /\ q \in ListSync
         \/ p \in Migrating \ {"acquire channel"} /\ q \in Migrating
  PROVE  Holds(p, j, l)
<1>1. /\ q \in CanvasSync => q \notin ListSync /\ q \notin Migrating
      /\ q \in ListSync => q \notin Migrating
  BY DEF CanvasSync, C!CanvasPlaces, Revoking, ListSync, Migrating, L!MigrationPlaces
<1>2. k.key = j.key
  BY DEF Alike
<1> QED
  BY <1>1, <1>2, Zenon DEF Holds

LEMMA OutsideLease ==
  ASSUME NEW h, NEW p \in Outside, NEW j, Go(h, p, j)
  PROVE  LeaseStep(h)
  BY OutsideHolds DEF LeaseStep

LEMMA CanvasLease ==
  ASSUME AccountsAssumption, TypeInv, NEW h \in Handlers, C!CanvasStep(h)
  PROVE  LeaseStep(h)
<1>0. PICK j : j = job[h]
  OBVIOUS
<1>1. /\ j \in Job /\ JobOK(at[h], j) /\ "idle" \in Outside
      /\ lease \in [Leases -> Handlers \cup {None, Dead}]
  BY <1>0, InHand DEF Outside, TypeInv, SceneOK
<1>2. CASE C!AcquireCanvas(h)
  <2>1. PICK l : l = <<"canvas", j.key>>
    OBVIOUS
  <2>2. \/ Go(h, "idle", NoJob)
        \/ lease' = [lease EXCEPT ![l] = h] /\ Go(h, "read canvas", j)
    BY <1>0, <1>2, <2>1, SameGoes DEF C!AcquireCanvas, C!Acquired
  <2>3. \A m : Holds("read canvas", j, m) => m = l
    BY <2>1 DEF Holds, ListSync, Migrating, L!MigrationPlaces
  <2>4. ASSUME lease' = [lease EXCEPT ![l] = h], NEW m \in Leases, Holds("read canvas", j, m)
        PROVE  lease'[m] = h
    BY <1>1, <2>3, <2>4
  <2>5. ASSUME lease' = [lease EXCEPT ![l] = h], Go(h, "read canvas", j) PROVE LeaseStep(h)
    BY <2>4, <2>5 DEF LeaseStep
  <2> QED
    BY <1>1, <2>2, <2>5, OutsideLease
<1>3. CASE at[h] \in CanvasSync /\ ~C!AcquireCanvas(h)
  <2>1. \/ Go(h, "idle", NoJob)
        \/ \E p \in CanvasSync : \E k : Go(h, p, k) /\ Alike(k, j)
    BY <1>0, <1>3, CanvasPaths
  <2>2. C!ReleaseCanvas(h) => Go(h, "idle", NoJob)
    BY SameGoes DEF C!ReleaseCanvas
  <2>3. at[h] # "acquire canvas" /\ (~C!ReleaseCanvas(h) => UNCHANGED lease)
    BY <1>3 DEF C!CanvasStep, C!AcquireCanvas, C!ReadCanvas, C!CreateCanvas, C!NoteCanvas,
       C!EditCanvas, C!ShareCanvas, C!RecordCanvas, C!ReleaseCanvas, C!FindCanvas,
       C!CloseCanvas, C!ForgetCanvas
  <2>4. ASSUME NEW p \in CanvasSync, NEW k, Go(h, p, k), Alike(k, j), UNCHANGED lease
        PROVE  LeaseStep(h)
    <3>1. \A l : Holds(p, k, l) => Holds(at[h], j, l)
      BY <1>3, <2>3, <2>4, HoldsOn
    <3> QED
      BY <1>0, <2>4, <3>1 DEF LeaseStep
  <2> QED
    BY <1>1, <2>1, <2>2, <2>3, <2>4, OutsideLease
<1>4. CASE at[h] \notin CanvasSync
  <2>1. PICK p \in Revoking : \E k : Go(h, p, k)
    <3>1. C!FindCanvas(h) \/ C!CloseCanvas(h) \/ C!ForgetCanvas(h)
      BY <1>4 DEF C!CanvasStep, C!AcquireCanvas, C!ReadCanvas, C!CreateCanvas, C!NoteCanvas,
         C!EditCanvas, C!ShareCanvas, C!RecordCanvas, C!ReleaseCanvas, CanvasSync,
         C!CanvasPlaces, Revoking
    <3> QED
      BY <3>1, SameGoes DEF C!FindCanvas, C!CloseCanvas, C!ForgetCanvas, Revoking
  <2>2. p \in Outside
    BY DEF Outside
  <2> QED
    BY <2>1, <2>2, OutsideLease
<1> QED
  BY <1>2, <1>3, <1>4

LEMMA ListLease ==
  ASSUME AccountsAssumption, TypeInv, NEW h \in Handlers, at[h] \in ListSync,
         L!ListStep(h)
  PROVE  LeaseStep(h)
<1>0. PICK j : j = job[h]
  OBVIOUS
<1>1. /\ j \in Job /\ JobOK(at[h], j) /\ "idle" \in Outside /\ "acquire channel" \in Outside
      /\ lease \in [Leases -> Handlers \cup {None, Dead}]
  BY <1>0, InHand DEF Outside, TypeInv, SceneOK
<1>2. \/ Go(h, "idle", NoJob)
      \/ \E p \in ListSync : \E k : Go(h, p, k) /\ Alike(k, j)
      \/ Go(h, "acquire channel", j)
  BY <1>0, ListPaths
<1>3. CASE L!AcquireList(h)
  <2>1. PICK l : l = <<"list", j.key>>
    OBVIOUS
  <2>2. Go(h, "idle", NoJob) \/ lease' = [lease EXCEPT ![l] = h]
    BY <1>0, <1>3, <2>1, SameGoes DEF L!AcquireList, L!Acquired
  <2>3. ASSUME NEW p \in ListSync, NEW k, Go(h, p, k), Alike(k, j), lease' = [lease EXCEPT ![l] = h]
        PROVE  LeaseStep(h)
    <3>1. \A m : Holds(p, k, m) => m = l
      <4>1. p \notin CanvasSync /\ p \notin Migrating
        BY <2>3 DEF ListSync, CanvasSync, C!CanvasPlaces, Revoking, Migrating, L!MigrationPlaces
      <4> QED
        BY <2>1, <2>3, <4>1, Zenon DEF Holds, Alike
    <3>2. \A m \in Leases : m = l => lease'[m] = h
      BY <1>1, <2>3
    <3> QED
      BY <2>3, <3>1, <3>2 DEF LeaseStep
  <2> QED
    BY <1>1, <1>2, <2>2, <2>3, OutsideLease
<1>4. CASE ~L!AcquireList(h)
  <2>1. L!ReleaseList(h) => Go(h, "idle", NoJob)
    BY SameGoes DEF L!ReleaseList
  <2>2. at[h] # "acquire list" /\ (~L!ReleaseList(h) => UNCHANGED lease)
    BY <1>4 DEF L!ListStep, ListSync, L!AcquireList, L!CheckGuard, L!ReadList, L!CreateList,
       L!NoteList, L!ShareList, L!RecordList, L!ShareWithRequester, L!RenameLegacy,
       L!DropLegacy, L!AddRows, L!DeleteRows, L!ReleaseList, L!AcquireChannel, L!ReadLegacy,
       L!CloseLegacy, L!ClearLegacy, L!MarkLegacy, L!SetGuard, L!ForgetLegacy,
       L!ReleaseChannel, L!FindList, L!CloseList, L!ForgetList
  <2>3. ASSUME NEW p \in ListSync, NEW k, Go(h, p, k), Alike(k, j), UNCHANGED lease
        PROVE  LeaseStep(h)
    <3>1. at[h] \in ListSync \ {"acquire list"}
      BY <2>2
    <3>2. \A l : Holds(p, k, l) => Holds(at[h], j, l)
      BY <2>3, <3>1, HoldsOn
    <3> QED
      BY <1>0, <2>3, <3>2 DEF LeaseStep
  <2> QED
    BY <1>1, <1>2, <2>1, <2>2, <2>3, OutsideLease
<1> QED
  BY <1>3, <1>4

LEMMA MigrationLease ==
  ASSUME AccountsAssumption, TypeInv, NEW h \in Handlers, at[h] \in Migrating,
         L!ListStep(h) \/ L!MigrationFails(h)
  PROVE  LeaseStep(h)
<1>0. PICK j : j = job[h]
  OBVIOUS
<1>1. /\ "idle" \in Outside /\ lease \in [Leases -> Handlers \cup {None, Dead}]
      /\ <<"list", Channel>> \in Leases
  BY DEF Outside, TypeInv, SceneOK, Leases, Keys
<1>2. \/ Go(h, "idle", NoJob)
      \/ \E p \in Migrating : \E k : Go(h, p, k) /\ Alike(k, j)
      \/ \E p \in {"release list", "read list"} : \E k : Go(h, p, k) /\ Alike(k, j) /\ j.key = Shared
  BY <1>0, MigrationPaths
<1>3. ASSUME NEW p \in {"release list", "read list"}, NEW k, Go(h, p, k), Alike(k, j),
             j.key = Shared
      PROVE  LeaseStep(h)
  <2>1. k.key = Shared
    BY <1>3 DEF Alike
  <2>2. \A l : ~Holds(p, k, l)
    BY <2>1 DEF Holds, CanvasSync, C!CanvasPlaces, Revoking, Migrating, L!MigrationPlaces
  <2> QED
    BY <1>3, <2>2 DEF LeaseStep
<1>4. ASSUME NEW p \in Migrating, NEW k, Go(h, p, k), Alike(k, j) PROVE LeaseStep(h)
  <2>1. CASE at[h] = "acquire channel"
    <3>1. L!AcquireChannel(h)
      BY <2>1 DEF L!ListStep, L!MigrationFails, L!MigrationPlaces, L!AcquireList, L!CheckGuard,
         L!ReadList, L!CreateList, L!NoteList, L!ShareList, L!RecordList,
         L!ShareWithRequester, L!RenameLegacy, L!DropLegacy, L!AddRows, L!DeleteRows,
         L!ReleaseList, L!ReadLegacy, L!CloseLegacy, L!ClearLegacy, L!MarkLegacy, L!SetGuard,
         L!ForgetLegacy, L!ReleaseChannel, L!FindList, L!CloseList, L!ForgetList
    <3>2. job[h].then \in {"idle", "release list"}
      BY <2>1, InHand DEF JobOK, ListJob, ForShared, Migrating
    <3>3. \/ Go(h, "idle", NoJob) \/ Go(h, "release list", j)
          \/ lease' = [lease EXCEPT ![<<"list", Channel>>] = h]
      BY <1>0, <3>1, <3>2, SameGoes DEF L!AcquireChannel, L!Acquired
    <3>4. CASE lease' = [lease EXCEPT ![<<"list", Channel>>] = h]
      <4>1. \A l : Holds(p, k, l) => l = <<"list", Channel>>
        BY <1>4 DEF Holds, CanvasSync, C!CanvasPlaces, Revoking, ListSync, Migrating,
           L!MigrationPlaces
      <4> QED
        BY <1>1, <1>4, <3>4, <4>1 DEF LeaseStep
    <3>5. CASE Go(h, "release list", j)
      <4>1. at'[h] = "release list" /\ at'[h] = p
        BY <1>4, <3>5, MoveFields
      <4> QED
        BY <1>4, <4>1 DEF Migrating, L!MigrationPlaces
    <3> QED
      BY <1>1, <3>3, <3>4, <3>5, OutsideLease
  <2>2. CASE at[h] # "acquire channel"
    <3>1. at[h] \in Migrating \ {"acquire channel"}
      BY <2>2
    <3>2. \A l : Holds(p, k, l) => Holds(at[h], j, l)
      BY <1>4, <3>1, HoldsOn
    <3>3. CASE UNCHANGED lease
      BY <1>0, <1>4, <3>2, <3>3 DEF LeaseStep
    <3>4. CASE ~UNCHANGED lease
      <4>1. L!ReleaseChannel(h) \/ L!MigrationFails(h)
        BY <3>1, <3>4 DEF L!ListStep, Migrating, L!MigrationPlaces, L!AcquireList, L!CheckGuard,
           L!ReadList, L!CreateList, L!NoteList, L!ShareList, L!RecordList,
           L!ShareWithRequester, L!RenameLegacy, L!DropLegacy, L!AddRows, L!DeleteRows,
           L!ReleaseList, L!AcquireChannel, L!ReadLegacy, L!CloseLegacy, L!ClearLegacy,
           L!MarkLegacy, L!SetGuard, L!ForgetLegacy, L!FindList, L!CloseList, L!ForgetList
      <4>2. job[h].then \in {"idle", "release list"}
        BY <3>1, InHand DEF JobOK, ListJob, ForShared
      <4>3. PICK q \in {"idle", "release list", "read list"} : \E i : Go(h, q, i)
        BY <4>1, <4>2, SameGoes DEF L!ReleaseChannel, L!MigrationFails
      <4>4. at'[h] = q /\ at'[h] = p
        BY <1>4, <4>3, MoveFields
      <4> QED
        BY <1>4, <4>4 DEF Migrating, L!MigrationPlaces
    <3> QED
      BY <3>3, <3>4
  <2> QED
    BY <2>1, <2>2
<1> QED
  BY <1>1, <1>2, <1>3, <1>4, OutsideLease

\* Every other step of a handler.
LEMMA OtherLease ==
  ASSUME TypeInv, NEW h \in Handlers,
         \/ Leads(h) /\ ~(\E p \in {"release canvas", "release list"} : \E j : Go(h, p, j))
         \/ LinkStep(h)
         \/ L!FindList(h) \/ L!CloseList(h) \/ L!ForgetList(h)
  PROVE  LeaseStep(h)
<1>1. CASE Leads(h) /\ ~(\E p \in {"release canvas", "release list"} : \E j : Go(h, p, j))
  <2>1. PICK p \in Plain : \E j : Go(h, p, j)
    BY <1>1 DEF Leads
  <2>2. p \notin {"release canvas", "release list"}
    BY <1>1, <2>1
  <2>3. p \in Outside
    BY <2>2 DEF Plain, Outside, LinkPlaces
  <2> QED
    BY <2>1, <2>3, OutsideLease
<1>2. CASE LinkStep(h)
  <2>1. PICK p \in LinkPlaces \cup {"idle", "google", "revoke"} : \E j : Go(h, p, j)
    <3>1. CASE Consume(h)
      <4>1. job[h].url \in Urls /\ url[job[h].url].status # "none"
        BY <3>1, InHand DEF Consume, JobOK, LinkJob
      <4>2. PICK p : p = url[job[h].url].service /\ p \in {"github", "google"}
        BY <4>1 DEF TypeInv, UrlsOK
      <4>3. Go(h, "idle", NoJob) \/ Go(h, p, job[h])
        BY <3>1, <4>2 DEF Consume, Goto, Rest
      <4> QED
        BY <4>2, <4>3 DEF LinkPlaces
    <3>2. CASE Exchange(h) \/ Claim(h) \/ Unlink(h)
      BY <3>2 DEF Exchange, Claim, Unlink, Goto, Rest, LinkPlaces
    <3>3. CASE Save(h) \/ SaveReverse(h) \/ DropReverse(h) \/ Remove(h) \/ RemoveReverse(h)
      BY <3>3 DEF Save, SaveReverse, DropReverse, Remove, RemoveReverse, Goto, Leave, Rest,
         LinkPlaces
    <3> QED
      BY <1>2, <3>1, <3>2, <3>3 DEF LinkStep
  <2>2. p \in Outside
    BY DEF Outside, CalendarPlaces
  <2> QED
    BY <2>1, <2>2, OutsideLease
<1>3. CASE L!FindList(h) \/ L!CloseList(h) \/ L!ForgetList(h)
  <2>1. at[h] \in Revoking
    BY <1>3 DEF L!FindList, L!CloseList, L!ForgetList, Revoking
  <2>2. PICK t \in {"idle", "save", "unlink"} : t = job[h].then
    BY <2>1, InHand DEF JobOK, LinkJob
  <2>3. PICK p \in Revoking \cup {"idle", "save", "unlink"} : \E j : Go(h, p, j)
    <3>1. CASE L!FindList(h)
      <4>1. L!Leave(h, t) \/ \E j : Go(h, "close list", j)
        BY <2>2, <3>1, SameGoes DEF L!FindList
      <4>2. Go(h, "idle", NoJob) \/ Go(h, t, job[h]) \/ \E j : Go(h, "close list", j)
        BY <4>1, SameGoes
      <4> QED
        BY <4>2 DEF Revoking
    <3>2. CASE L!CloseList(h)
      BY <3>2, SameGoes DEF L!CloseList, Revoking
    <3>3. CASE L!ForgetList(h)
      <4>1. Go(h, "idle", NoJob) \/ \E j : Go(h, t, j)
        BY <2>2, <3>3, SameGoes DEF L!ForgetList
      <4> QED
        BY <4>1
    <3> QED
      BY <1>3, <3>1, <3>2, <3>3
  <2>4. p \in Outside
    BY DEF Outside, LinkPlaces
  <2> QED
    BY <2>3, <2>4, OutsideLease
<1> QED
  BY <1>1, <1>2, <1>3

LEMMA FailLease ==
  ASSUME AccountsAssumption, TypeInv, NEW h \in Handlers, Fault(h)
  PROVE  LeaseMove(h) /\ LeaseStep(h)
<1>0. job[h] \in Job
  BY InHand
<1>1. Alike(job[h], job[h])
  BY <1>0, JobFields
<1>2. CASE Fails(h) \/ Die(h)
  <2>1. Go(h, "idle", NoJob) /\ LeaseMove(h)
    BY <1>2 DEF Fails, Die, Rest, Orphaned, LeaseMove
  <2> QED
    BY <2>1, OutsideLease DEF Outside
<1>3. CASE C!CanvasFails(h)
  <2>1. /\ at[h] \in CanvasSync \ {"acquire canvas"} /\ "release canvas" \in CanvasSync
        /\ Go(h, "release canvas", job[h]) /\ UNCHANGED lease
    BY <1>3, SameGoes DEF C!CanvasFails, CanvasSync, C!CanvasPlaces, Revoking
  <2>2. \A l : Holds("release canvas", job[h], l) => Holds(at[h], job[h], l)
    BY <1>1, <2>1, HoldsOn
  <2> QED
    BY <2>1, <2>2 DEF LeaseStep, LeaseMove
<1>4. CASE L!ListFails(h)
  <2>1. /\ at[h] \in ListSync \ {"acquire list"} /\ "release list" \in ListSync
        /\ Go(h, "release list", job[h]) /\ UNCHANGED lease
    BY <1>4, SameGoes DEF L!ListFails, ListSync
  <2>2. \A l : Holds("release list", job[h], l) => Holds(at[h], job[h], l)
    BY <1>1, <2>1, HoldsOn
  <2> QED
    BY <2>1, <2>2 DEF LeaseStep, LeaseMove
<1>5. CASE L!MigrationFails(h)
  <2>1. at[h] \in Migrating
    BY <1>5 DEF L!MigrationFails, Migrating
  <2> QED
    BY <1>5, <2>1, MigrationLease, ListLeases
<1> QED
  BY <1>2, <1>3, <1>4, <1>5 DEF Fault

LEMMA ListStepLease ==
  ASSUME AccountsAssumption, TypeInv, NEW h \in Handlers, L!ListStep(h)
  PROVE  LeaseStep(h)
<1>1. at[h] \in ListSync \/ at[h] \in Migrating \/ L!FindList(h) \/ L!CloseList(h) \/ L!ForgetList(h)
  BY DEF L!ListStep, ListSync, Migrating, L!MigrationPlaces, L!AcquireList, L!CheckGuard,
     L!ReadList, L!CreateList, L!NoteList, L!ShareList, L!RecordList, L!ShareWithRequester,
     L!RenameLegacy, L!DropLegacy, L!AddRows, L!DeleteRows, L!ReleaseList, L!AcquireChannel,
     L!ReadLegacy, L!CloseLegacy, L!ClearLegacy, L!MarkLegacy, L!SetGuard, L!ForgetLegacy,
     L!ReleaseChannel
<1> QED
  BY <1>1, ListLease, MigrationLease, OtherLease

\* A lease that runs out is recorded, and one that is left behind belongs to
\* nobody.
LEMMA MutexExpires ==
  ASSUME AccountsAssumption, TypeInv, Mutex, NEW l \in Leases, Lapse(l) \/ Outlast(l)
  PROVE  Mutex'
<1>1. /\ at' = at /\ job' = job /\ overrun \subseteq overrun'
      /\ lease' = [lease EXCEPT ![l] = None]
      /\ lease[l] = Dead \/ lease[l] \in Handlers
      /\ lease \in [Leases -> Handlers \cup {None, Dead}] /\ Dead \notin Handlers
  BY DEF Lapse, Outlast, Expire, Overrun, Record, TypeInv, SceneOK, AccountsAssumption
<1>2. lease[l] \in Handlers => l \in overrun'
  <2>1. lease'[l] = None
    BY <1>1
  <2> QED
    BY <1>1, <2>1 DEF Lapse, Outlast, Record
<1>3. ASSUME NEW g \in Handlers, NEW m \in Leases, Holds(at[g], job[g], m), m \notin overrun'
      PROVE  lease'[m] = g
  <2>1. lease[m] = g
    BY <1>1, <1>3 DEF Mutex
  <2> QED
    BY <1>1, <1>2, <1>3, <2>1
<1>4. \A g \in Handlers, m \in Leases : Holds(at[g], job[g], m)' <=> Holds(at[g], job[g], m)
  BY <1>1 DEF Holds
<1> QED
  BY <1>3, <1>4 DEF Mutex

LEMMA MutexNext ==
  ASSUME AccountsAssumption, TypeInv, Mutex, [Next]_vars
  PROVE  Mutex'
<1>1. overrun \subseteq overrun'
  <2>1. CASE Next
    <3>1. Record
      BY <2>1 DEF Next, Order, Open, Handle, Break, Schedule, Lapse, Outlast
    <3> QED
      BY <3>1 DEF Record
  <2>2. CASE UNCHANGED vars
    BY <2>2 DEF vars, scene
  <2> QED
    BY <2>1, <2>2
<1>2. ASSUME UNCHANGED <<at, job, lease>> PROVE Mutex'
  BY <1>1, <1>2 DEF Mutex, Holds
<1>3. ASSUME NEW h \in Handlers, LeaseMove(h), LeaseStep(h) PROVE Mutex'
  BY <1>1, <1>3, MutexStep
<1>4. ASSUME NEW h \in Handlers, UNCHANGED lease, NEW p \in Outside, NEW j, Go(h, p, j) PROVE Mutex'
  BY <1>3, <1>4, OutsideLease DEF LeaseMove
<1>5. ASSUME NEW h \in Handlers, Order(h) PROVE Mutex'
  <2>1. PICK u \in Users : \E c \in Commands : Give(h, c, u)
    BY <1>5 DEF Order
  <2>2. PICK c \in Commands : Give(h, c, u)
    BY <2>1
  <2>3. CASE \E s : Connect(h, u, s)
    BY <1>2, <2>2, <2>3 DEF Give, Connect
  <2>4. CASE ~\E s : Connect(h, u, s)
    <3>1. PICK p \in {"unlink google", "calendar", "revoke", "resolve", "acquire list",
                      "acquire channel"} : \E j : Go(h, p, j)
      BY <2>2, <2>4, Zenon DEF Give, Disconnect, Project
    <3>2. p \in Outside /\ UNCHANGED lease
      BY <2>2 DEF Give, Outside, CalendarPlaces
    <3> QED
      BY <1>4, <3>1, <3>2
  <2> QED
    BY <2>3, <2>4
<1>6. ASSUME NEW h \in Handlers, Open(h) PROVE Mutex'
  <2>1. PICK j : Go(h, "consume", j) /\ UNCHANGED lease
    BY <1>6 DEF Open, Callback
  <2> QED
    BY <1>4, <2>1 DEF Outside, LinkPlaces
<1>7. ASSUME NEW h \in Handlers, Step(h) PROVE Mutex'
  <2>1. CASE LinkStep(h) /\ UNCHANGED lease
    BY <1>3, <2>1, OtherLease DEF LeaseMove
  <2>2. CASE CalendarStep(h) /\ UNCHANGED lease
    <3>1. PICK p \in CalendarPlaces \cup {"idle"} : \E j : Go(h, p, j)
      BY <2>2, CalendarLeads
    <3>2. p \in Outside
      BY DEF Outside
    <3> QED
      BY <1>4, <2>2, <3>1, <3>2
  <2>3. CASE C!CanvasStep(h)
    BY <1>3, <2>3, CanvasLease, CanvasLeases
  <2>4. CASE L!ListStep(h)
    BY <1>3, <2>4, ListStepLease, ListLeases
  <2>5. CASE (Resolve(h) \/ Load(h)) /\ UNCHANGED lease
    <3>1. PICK p \in {"revoke", "load", "acquire canvas", "acquire list"} : \E j : Go(h, p, j)
      BY <2>5, ResolveLeads
    <3>2. p \in Outside
      BY DEF Outside
    <3> QED
      BY <1>4, <2>5, <3>1, <3>2
  <2> QED
    BY <1>7, <2>1, <2>2, <2>3, <2>4, <2>5 DEF Step
<1>8. ASSUME NEW h \in Handlers, Break(h) PROVE Mutex'
  BY <1>3, <1>8, FailLease DEF Break
<1>9. ASSUME NEW h \in Handlers, NEW u \in Users, ScheduleCanvas(h, u) \/ ScheduleCalendar(h, u)
      PROVE  Mutex'
  <2>1. PICK p \in {"resolve", "calendar"} : \E j : Go(h, p, j) /\ UNCHANGED lease
    BY <1>9 DEF ScheduleCanvas, ScheduleCalendar, Project
  <2>2. p \in Outside
    BY DEF Outside, CalendarPlaces
  <2> QED
    BY <1>4, <2>1, <2>2
<1>10. CASE UNCHANGED vars
  BY <1>2, <1>10 DEF vars, handlers
<1>11. CASE \E a \in Accounts : Lose(a)
  BY <1>2, <1>11 DEF Lose, handlers
<1> QED
  BY <1>5, <1>6, <1>7, <1>8, <1>9, <1>10, <1>11, MutexExpires DEF Next, Handle, Schedule

LEMMA MutexInit ==
  ASSUME Init
  PROVE  Mutex
<1>1. \A h \in Handlers : at[h] = "idle"
  BY DEF Init, InitHandlers
<1> QED
  BY <1>1, OutsideHolds DEF Mutex, Outside

\* Two of them never meet under one lease that did not run out.
LEMMA OneHolder ==
  ASSUME Mutex, NEW g \in Handlers, NEW h \in Handlers, NEW l \in Leases, l \notin overrun,
         Holds(at[g], job[g], l), Holds(at[h], job[h], l)
  PROVE  g = h
  BY DEF Mutex

-----------------------------------------------------------------------------
(* The personal Canvases. *)

\* The Canvases that a user's document, or a handler of hers, may have in hand
\* by their ids.
Uses(p) == p \in {"note canvas", "edit canvas", "share canvas", "record canvas",
                  "close canvas", "forget canvas"}

Ref(u, i) ==
  /\ i # 0
  /\ \/ canvasDoc[u].id = i
     \/ \E h \in Handlers : Uses(at[h]) /\ job[h].user = u /\ job[h].doc.id = i

\* A Canvas is one user's.
RefsInv == \A u, v \in Users, i \in Nat : Ref(u, i) /\ Ref(v, i) => u = v

\* On its way to another link, or to none, a handler has revoked the Canvas.
Forgotten(p, j) == p \in {"unlink", "remove"} \/ (p = "save" /\ j.previous # j.login)

\* What a handler knows of its user's Canvas.
CanvasCalmJob(p, j) ==
  /\ p \in {"create canvas", "note canvas"} => canvasDoc[j.user].id = 0
  /\ p = "note canvas" => canvas[j.doc.id].shows = j.login
  /\ p \in {"edit canvas", "share canvas", "record canvas", "close canvas"} =>
       j.doc.id = canvasDoc[j.user].id
  /\ p = "forget canvas" => \A i \in DOMAIN canvas : j.user \notin canvas[i].readers
  /\ p \in {"revoke list", "close list", "forget list"} \/ Forgotten(p, j) =>
       canvasDoc[j.user].id = 0

\* A user reads the recorded Canvas alone, and it shows the linked account's work.
Reached(u) == \A i \in DOMAIN canvas : u \in canvas[i].readers => canvasDoc[u].id = i
Shown(u) == canvasDoc[u].id # 0 => canvas[canvasDoc[u].id].shows = identity[u]

CanvasOf(u) ==
  /\ Reached(u) /\ Shown(u)
  /\ \A h \in Handlers : job[h].user = u => CanvasCalmJob(at[h], job[h])

CanvasInv == RefsInv /\ \A u \in Calm("canvas") : CanvasOf(u)

\* Where a handler relies on the Canvas of its user.
OnCanvas == (CanvasSync \ {"acquire canvas"}) \cup LinkPlaces \cup Revoking

LEMMA NoCanvasJob ==
  ASSUME NEW p, p \notin OnCanvas, NEW j
  PROVE  CanvasCalmJob(p, j) /\ ~Uses(p)
  BY DEF CanvasCalmJob, Forgotten, Uses, OnCanvas, CanvasSync, Revoking, C!CanvasPlaces, LinkPlaces

LEMMA PlainCanvas ==
  ASSUME NEW p \in Plain, NEW j
  PROVE  CanvasCalmJob(p, j) /\ ~Uses(p)
  BY DEF CanvasCalmJob, Forgotten, Uses, Plain, CalendarPlaces

LEMMA AloneOnCanvas ==
  ASSUME AccountsAssumption, TypeInv, Apart, Mutex, NEW u \in Calm("canvas"),
         NEW g \in Handlers, NEW h \in Handlers, g # h, job[g].user = u, job[h].user = u,
         at[h] \in OnCanvas
  PROVE  at[g] \notin OnCanvas
<1>1. u \in Users \ crossed /\ <<"canvas", u>> \notin overrun /\ <<"canvas", u>> \in Leases
  BY DEF Calm, Leases, Keys
<1>2. ~Changing(g) /\ ~Changing(h)
  BY <1>1, Alone
<1>3. at[g] \notin LinkPlaces \cup Revoking /\ at[h] \notin LinkPlaces \cup Revoking
  BY <1>2 DEF Changing, Revoking
<1>4. ASSUME NEW k \in {g, h}, at[k] \in CanvasSync \ {"acquire canvas"}
      PROVE  lease[<<"canvas", u>>] = k
  <2>1. k \in Handlers /\ job[k].user = u
    BY <1>4
  <2>2. job[k].key = u
    BY <1>4, <2>1, InHand DEF JobOK, CanvasJob, Personal
  <2> QED
    BY <1>1, <1>4, <2>1, <2>2 DEF Mutex, Holds
<1> QED
  BY <1>3, <1>4 DEF OnCanvas

LEMMA RefKnown ==
  ASSUME TypeInv, NEW u \in Users, NEW i, Ref(u, i)
  PROVE  i \in 1..Len(canvas)
<1>1. CASE canvasDoc[u].id = i
  <2>1. i # 0 /\ i \in Nat /\ i <= Len(canvas) /\ Len(canvas) \in Nat
    BY <1>1, Lengths, CanvasFields DEF Ref, TypeInv, CanvasOK
  <2> QED
    BY <2>1
<1>2. CASE canvasDoc[u].id # i
  <2>1. PICK g \in Handlers : Uses(at[g]) /\ job[g].doc.id = i
    BY <1>2 DEF Ref
  <2> QED
    BY <2>1, InHand DEF JobOK, CanvasJob, Uses
<1> QED
  BY <1>1, <1>2

\* A handler moves, and the Canvases and the link stay.
LEMMA CanvasMove ==
  ASSUME TypeInv, CanvasInv, crossed \subseteq crossed', overrun \subseteq overrun',
         NEW h \in Handlers, NEW p, NEW j, Go(h, p, j), UNCHANGED <<identity, canvas, canvasDoc>>,
         j.user \in Calm("canvas") => CanvasCalmJob(p, j),
         Uses(p) => Ref(j.user, j.doc.id)
  PROVE  CanvasInv'
<1>1. /\ at'[h] = p /\ job'[h] = j
      /\ \A g \in Handlers : g # h => at'[g] = at[g] /\ job'[g] = job[g]
  BY MoveFields
<1>2. ASSUME NEW u \in Users, NEW i \in Nat, Ref(u, i)' PROVE Ref(u, i)
  <2>1. CASE canvasDoc[u].id = i
    BY <1>2, <2>1 DEF Ref
  <2>2. CASE canvasDoc[u].id # i
    <3>1. i # 0
      BY <1>2 DEF Ref
    <3>2. PICK g \in Handlers : Uses(at'[g]) /\ job'[g].user = u /\ job'[g].doc.id = i
      BY <1>2, <2>2 DEF Ref, Uses
    <3>3. CASE g = h
      BY <1>1, <3>2, <3>3
    <3>4. CASE g # h
      BY <1>1, <3>1, <3>2, <3>4 DEF Ref
    <3> QED
      BY <3>3, <3>4
  <2> QED
    BY <2>1, <2>2
<1>3. RefsInv'
  BY <1>2 DEF CanvasInv, RefsInv
<1>4. ASSUME NEW u \in Calm("canvas")' PROVE CanvasOf(u)'
  <2>1. u \in Calm("canvas")
    BY <1>4 DEF Calm
  <2>2. CanvasOf(u)
    BY <2>1 DEF CanvasInv
  <2>3. Reached(u)' /\ Shown(u)'
    BY <2>2 DEF CanvasOf, Reached, Shown
  <2>4. ASSUME NEW g \in Handlers, job'[g].user = u PROVE CanvasCalmJob(at[g], job[g])'
    <3>1. PICK q, i : q = at'[g] /\ i = job'[g]
      OBVIOUS
    <3>2. CanvasCalmJob(q, i)
      <4>1. CASE g = h
        BY <1>1, <2>1, <2>4, <3>1, <4>1
      <4>2. CASE g # h
        BY <1>1, <2>2, <2>4, <3>1, <4>2 DEF CanvasOf
      <4> QED
        BY <4>1, <4>2
    <3>3. CanvasCalmJob(q, i)'
      BY <3>2 DEF CanvasCalmJob, Forgotten
    <3> QED
      BY <3>1, <3>3
  <2> QED
    BY <2>3, <2>4 DEF CanvasOf
<1> QED
  BY <1>3, <1>4 DEF CanvasInv

\* A handler changes the Canvas or the link of its user, alone.
LEMMA CanvasChange ==
  ASSUME AccountsAssumption, TypeInv, Apart, Mutex, CanvasInv,
         crossed \subseteq crossed', overrun \subseteq overrun',
         NEW h \in Handlers, NEW p, NEW j, Go(h, p, j), at[h] \in OnCanvas,
         NEW u \in Users, job[h].user = u, j.user = u,
         \A v \in Users \ {u} : canvasDoc'[v] = canvasDoc[v] /\ identity'[v] = identity[v],
         \A v \in Users \ {u}, i \in DOMAIN canvas' :
           v \in canvas'[i].readers => i \in DOMAIN canvas /\ v \in canvas[i].readers,
         \A v \in Users \ {u}, i \in Nat : Ref(v, i) => canvas'[i].shows = canvas[i].shows,
         canvasDoc'[u].id # 0 => Ref(u, canvasDoc'[u].id),
         Uses(p) => Ref(u, j.doc.id) \/ j.doc.id = Len(canvas) + 1,
         u \in Calm("canvas") => Reached(u)' /\ Shown(u)' /\ CanvasCalmJob(p, j)'
  PROVE  CanvasInv'
<1>1. /\ at'[h] = p /\ job'[h] = j
      /\ \A g \in Handlers : g # h => at'[g] = at[g] /\ job'[g] = job[g]
  BY MoveFields
<1>2. ASSUME NEW v \in Users, NEW i \in Nat, Ref(v, i)'
      PROVE  Ref(v, i) \/ (v = u /\ i = Len(canvas) + 1)
  <2>1. CASE canvasDoc'[v].id = i
    <3>1. i # 0
      BY <1>2 DEF Ref
    <3> QED
      BY <2>1, <3>1 DEF Ref
  <2>2. CASE canvasDoc'[v].id # i
    <3>1. i # 0
      BY <1>2 DEF Ref
    <3>2. PICK g \in Handlers : Uses(at'[g]) /\ job'[g].user = v /\ job'[g].doc.id = i
      BY <1>2, <2>2 DEF Ref, Uses
    <3>3. CASE g = h
      BY <1>1, <3>2, <3>3
    <3>4. CASE g # h
      BY <1>1, <3>1, <3>2, <3>4 DEF Ref
    <3> QED
      BY <3>3, <3>4
  <2> QED
    BY <2>1, <2>2
<1>3. ASSUME NEW v \in Users, Ref(v, Len(canvas) + 1) PROVE FALSE
  <2>1. Len(canvas) + 1 \in 1..Len(canvas) /\ Len(canvas) \in Nat
    BY <1>3, RefKnown, Lengths
  <2> QED
    BY <2>1
<1>4. RefsInv'
  BY <1>2, <1>3 DEF CanvasInv, RefsInv
<1>5. ASSUME NEW v \in Calm("canvas")' PROVE CanvasOf(v)'
  <2>1. v \in Calm("canvas") /\ v \in Users
    BY <1>5 DEF Calm
  <2>2. CanvasOf(v)
    BY <2>1 DEF CanvasInv
  <2>3. CASE v = u
    <3>1. ASSUME NEW g \in Handlers, job'[g].user = v PROVE CanvasCalmJob(at[g], job[g])'
      <4>1. CASE g = h
        <5>1. CanvasCalmJob(p, j)'
          BY <2>1, <2>3
        <5> QED
          BY <1>1, <4>1, <5>1
      <4>2. CASE g # h
        <5>1. PICK q, i : q = at[g] /\ i = job[g]
          OBVIOUS
        <5>2. at'[g] = q /\ job'[g] = i /\ q \notin OnCanvas
          BY <1>1, <2>1, <2>3, <3>1, <4>2, <5>1, AloneOnCanvas
        <5>3. CanvasCalmJob(q, i)'
          BY <5>2 DEF CanvasCalmJob, Forgotten, OnCanvas, CanvasSync, Revoking, C!CanvasPlaces,
             LinkPlaces
        <5> QED
          BY <5>2, <5>3
      <4> QED
        BY <4>1, <4>2
    <3> QED
      BY <2>1, <2>3, <3>1 DEF CanvasOf
  <2>4. CASE v # u
    <3>1. /\ canvasDoc'[v] = canvasDoc[v] /\ identity'[v] = identity[v]
          /\ \A i \in DOMAIN canvas' :
               v \in canvas'[i].readers => i \in DOMAIN canvas /\ v \in canvas[i].readers
          /\ \A i \in Nat : Ref(v, i) => canvas'[i].shows = canvas[i].shows
      BY <2>1, <2>4
    <3>2. Reached(v)'
      BY <2>2, <3>1 DEF CanvasOf, Reached
    <3>3. Shown(v)'
      <4>1. canvasDoc[v].id \in Nat
        BY <2>1, CanvasFields DEF TypeInv, CanvasOK
      <4>2. canvasDoc[v].id # 0 => canvas'[canvasDoc[v].id].shows = canvas[canvasDoc[v].id].shows
        BY <3>1, <4>1 DEF Ref
      <4> QED
        BY <2>2, <3>1, <4>2 DEF CanvasOf, Shown
    <3>4. ASSUME NEW g \in Handlers, job'[g].user = v PROVE CanvasCalmJob(at[g], job[g])'
      <4>1. g # h
        BY <1>1, <2>4, <3>4
      <4>2. PICK q, i : q = at[g] /\ i = job[g]
        OBVIOUS
      <4>3. at'[g] = q /\ job'[g] = i /\ CanvasCalmJob(q, i) /\ i.user = v
        BY <1>1, <2>2, <3>4, <4>1, <4>2 DEF CanvasOf
      <4>4. q = "note canvas" => canvas'[i.doc.id].shows = canvas[i.doc.id].shows
        <5>1. SUFFICES ASSUME q = "note canvas" PROVE canvas'[i.doc.id].shows = canvas[i.doc.id].shows
          OBVIOUS
        <5>2. i.doc.id \in 1..Len(canvas) /\ Len(canvas) \in Nat
          BY <4>2, <5>1, InHand, Lengths DEF JobOK, CanvasJob
        <5>3. Uses(at[g]) /\ job[g].user = v /\ i.doc.id = job[g].doc.id /\ i.doc.id # 0
          <6>1. Uses(q)
            BY <5>1 DEF Uses
          <6>2. i.doc.id # 0
            BY <5>2
          <6> QED
            BY <4>2, <4>3, <6>1, <6>2
        <5>4. Ref(v, i.doc.id)
          BY <5>3 DEF Ref
        <5> QED
          BY <3>1, <5>2, <5>4
      <4>5. CanvasCalmJob(q, i)'
        BY <3>1, <4>3, <4>4, Zenon DEF CanvasCalmJob, Forgotten
      <4> QED
        BY <4>3, <4>5
    <3> QED
      BY <3>2, <3>3, <3>4 DEF CanvasOf
  <2> QED
    BY <2>3, <2>4
<1> QED
  BY <1>4, <1>5 DEF CanvasInv

\* Where the steps of a link lead that keep the identity, but for what goes on
\* to a change of it.
QuietPlaces == (LinkPlaces \ {"save", "unlink", "remove"}) \cup CalendarPlaces \cup {"idle", "revoke"}

\* What a step of a link does to the identity.
LEMMA LinkShapes ==
  ASSUME AccountsAssumption, TypeInv, NEW h \in Handlers, LinkStep(h)
  PROVE  LET j == job[h]
         IN  /\ j.user \in Users /\ at[h] \in LinkPlaces
             /\ \/ UNCHANGED identity /\ \E p \in QuietPlaces : \E k : Go(h, p, k)
                \/ /\ at[h] = "claim" /\ Go(h, "save", j) /\ UNCHANGED identity
                   /\ j.previous \in {None, j.login}
                \/ /\ at[h] = "unlink" /\ UNCHANGED identity
                   /\ \E k : Go(h, "remove", k) /\ k.user = j.user
                \/ /\ at[h] = "save" /\ Go(h, "save reverse", j)
                   /\ identity' = [identity EXCEPT ![j.user] = j.login]
                \/ /\ at[h] = "remove" /\ Go(h, "remove reverse", j)
                   /\ identity' = [identity EXCEPT ![j.user] = None]
<1>0. PICK j : j = job[h]
  OBVIOUS
<1>1. j \in Job /\ JobOK(at[h], j)
  BY <1>0, InHand
<1>3. at[h] \in LinkPlaces
  BY DEF LinkStep, Consume, Exchange, Claim, Save, SaveReverse, DropReverse, Unlink, Remove,
     RemoveReverse, LinkPlaces
<1>4. j.user \in Users
  BY <1>0, <1>3, LinkUser
<1>q. {"github", "google", "claim", "drop reverse", "idle", "revoke"} \subseteq QuietPlaces
  BY DEF QuietPlaces, LinkPlaces, CalendarPlaces
<1>5. CASE Consume(h)
  <2>1. j.url \in Urls /\ url[j.url].status # "none"
    BY <1>0, <1>1, <1>5 DEF Consume, JobOK, LinkJob
  <2>2. PICK p : p = url[j.url].service /\ p \in {"github", "google"}
    BY <2>1 DEF TypeInv, UrlsOK
  <2>3. (Go(h, "idle", NoJob) \/ Go(h, p, j)) /\ UNCHANGED identity
    BY <1>0, <1>5, <2>2 DEF Consume, Goto, Rest
  <2>4. p \in QuietPlaces /\ "idle" \in QuietPlaces
    BY <1>q, <2>2
  <2> QED
    BY <1>0, <1>3, <1>4, <2>3, <2>4
<1>6. CASE Exchange(h)
  <2>1. \E k : Go(h, "claim", k) /\ UNCHANGED identity
    BY <1>6 DEF Exchange, links
  <2> QED
    BY <1>0, <1>3, <1>4, <1>q, <2>1
<1>7. CASE Claim(h)
  <2>1. at[h] = "claim" /\ UNCHANGED identity
    BY <1>7 DEF Claim, links
  <2>2. CASE reverse[j.login] \notin {None, j.user}
    BY <1>0, <1>3, <1>4, <1>7, <1>q, <2>1, <2>2 DEF Claim, Rest
  <2>3. CASE reverse[j.login] \in {None, j.user} /\ Replaces(h)
    BY <1>0, <1>3, <1>4, <1>7, <1>q, <2>1, <2>3 DEF Claim
  <2>4. CASE reverse[j.login] \in {None, j.user} /\ ~Replaces(h)
    <3>1. Go(h, "save", j)
      BY <1>0, <1>7, <2>4 DEF Claim, Goto
    <3>2. j.previous \in {None, j.login}
      BY <1>0, <2>4 DEF Replaces
    <3> QED
      BY <1>0, <1>3, <1>4, <2>1, <3>1, <3>2
  <2> QED
    BY <2>2, <2>3, <2>4
<1>8. CASE Save(h) \/ Remove(h)
  BY <1>0, <1>3, <1>4, <1>8 DEF Save, Remove, Goto
<1>9. CASE SaveReverse(h) \/ DropReverse(h) \/ RemoveReverse(h)
  <2>1. /\ Go(h, "idle", NoJob) \/ Go(h, "drop reverse", j)
        /\ UNCHANGED identity
    BY <1>0, <1>9 DEF SaveReverse, DropReverse, RemoveReverse, Leave, Rest, Goto
  <2> QED
    BY <1>0, <1>3, <1>4, <1>q, <2>1
<1>10. CASE Unlink(h)
  <2>1. PICK k : k = [j EXCEPT !.previous = identity[j.user]]
    OBVIOUS
  <2>2. k.user = j.user
    BY <1>1, <2>1 DEF Job
  <2>3. (Go(h, "idle", NoJob) \/ Go(h, "remove", k)) /\ UNCHANGED identity /\ at[h] = "unlink"
    BY <1>0, <1>10, <2>1 DEF Unlink, Rest, links
  <2> QED
    BY <1>0, <1>3, <1>4, <1>q, <2>2, <2>3
<1> QED
  BY <1>5, <1>6, <1>7, <1>8, <1>9, <1>10 DEF LinkStep

LEMMA QuietCanvas ==
  ASSUME NEW p \in QuietPlaces, NEW j
  PROVE  CanvasCalmJob(p, j) /\ ~Uses(p)
  BY DEF CanvasCalmJob, Forgotten, Uses, QuietPlaces, LinkPlaces, CalendarPlaces

\* An account that may see work is no absence of one.
LEMMA NothingShown ==
  ASSUME AccountsAssumption, TypeInv, NEW u \in Users, Shown(u), identity[u] = None
  PROVE  canvasDoc[u].id = 0
<1>1. SUFFICES ASSUME canvasDoc[u].id # 0 PROVE FALSE
  OBVIOUS
<1>2. Len(canvas) \in Nat /\ canvasDoc[u].id \in Nat /\ canvasDoc[u].id <= Len(canvas)
  BY Lengths, CanvasFields DEF TypeInv, CanvasOK
<1>3. PICK i \in 1..Len(canvas) : i = canvasDoc[u].id
  BY <1>1, <1>2
<1>4. canvas[i] \in Canvas
  BY <1>3, ElementOfSeq DEF TypeInv, CanvasOK
<1>5. canvas[i].shows \in Accounts
  BY <1>4 DEF Canvas
<1> QED
  BY <1>1, <1>3, <1>5 DEF Shown, AccountsAssumption

LEMMA CanvasLink ==
  ASSUME AccountsAssumption, TypeInv, Apart, Mutex, IdentityInv, CanvasInv,
         crossed \subseteq crossed', overrun \subseteq overrun',
         NEW h \in Handlers, LinkStep(h), UNCHANGED views
  PROVE  CanvasInv'
<1>0. UNCHANGED <<canvas, canvasDoc>>
  BY DEF views
<1>1. PICK j, u : j = job[h] /\ u = j.user
  OBVIOUS
<1>2. u \in Users /\ at[h] \in OnCanvas
  BY <1>1, LinkShapes DEF OnCanvas
<1>3. u \in Calm("canvas") => CanvasOf(u) /\ CanvasCalmJob(at[h], j) /\ u \in Users \ crossed
  BY <1>1, <1>2 DEF CanvasInv, CanvasOf, Calm
<1>4. CASE UNCHANGED identity /\ \E p \in QuietPlaces : \E k : Go(h, p, k)
  BY <1>0, <1>4, QuietCanvas, CanvasMove
<1>5. CASE at[h] = "claim" /\ Go(h, "save", j) /\ UNCHANGED identity /\ j.previous \in {None, j.login}
  <2>1. ASSUME u \in Calm("canvas"), j.previous # j.login PROVE canvasDoc[u].id = 0
    <3>1. identity[u] = None
      BY <1>1, <1>3, <1>5, <2>1 DEF IdentityInv, IdentityJob, Relinks
    <3> QED
      BY <1>2, <1>3, <2>1, <3>1, NothingShown DEF CanvasOf
  <2>2. u \in Calm("canvas") => CanvasCalmJob("save", j)
    BY <1>1, <2>1 DEF CanvasCalmJob, Forgotten
  <2> QED
    BY <1>0, <1>1, <1>5, <2>2, CanvasMove DEF Uses
<1>6. ASSUME at[h] = "unlink", UNCHANGED identity, NEW k, Go(h, "remove", k), k.user = u
      PROVE  CanvasInv'
  <2>1. u \in Calm("canvas") => CanvasCalmJob("remove", k)
    BY <1>1, <1>3, <1>6 DEF CanvasCalmJob, Forgotten
  <2> QED
    BY <1>0, <1>6, <2>1, CanvasMove DEF Uses
<1>7. ASSUME NEW p, NEW a, Go(h, p, j), identity' = [identity EXCEPT ![u] = a],
             \/ at[h] = "save" /\ p = "save reverse" /\ a = j.login
             \/ at[h] = "remove" /\ p = "remove reverse" /\ a = None
      PROVE  CanvasInv'
  <2>1. ~Uses(p) /\ CanvasCalmJob(p, j)'
    BY <1>7 DEF Uses, CanvasCalmJob, Forgotten
  <2>2. canvasDoc'[u].id # 0 => Ref(u, canvasDoc'[u].id)
    BY <1>0 DEF Ref
  <2>3. identity'[u] = a /\ \A v \in Users \ {u} : identity'[v] = identity[v]
    BY <1>2, <1>7 DEF TypeInv
  <2>4. ASSUME u \in Calm("canvas") PROVE Reached(u)' /\ Shown(u)'
    <3>1. Reached(u)'
      BY <1>0, <1>3, <2>4 DEF CanvasOf, Reached
    <3>2. canvasDoc[u].id = 0 \/ a = identity[u]
      <4>1. CASE at[h] = "save" /\ j.previous = j.login /\ a = j.login
        BY <1>1, <1>3, <2>4, <4>1 DEF IdentityInv, IdentityJob, Relinks
      <4>2. CASE at[h] = "remove" \/ (at[h] = "save" /\ j.previous # j.login)
        BY <1>1, <1>3, <2>4, <4>2 DEF CanvasCalmJob, Forgotten
      <4> QED
        BY <1>7, <4>1, <4>2
    <3>3. Shown(u)'
      BY <1>0, <1>3, <2>3, <2>4, <3>2 DEF CanvasOf, Shown
    <3> QED
      BY <3>1, <3>3
  <2> QED
    BY <1>0, <1>1, <1>2, <1>7, <2>1, <2>2, <2>3, <2>4, CanvasChange, ZenonT(60)
<1> QED
  BY <1>1, <1>4, <1>5, <1>6, <1>7, LinkShapes

\* The steps of a synchronisation and of the revocation of a Canvas.
LEMMA CanvasStepShown ==
  ASSUME AccountsAssumption, TypeInv, Apart, Mutex, IdentityInv, CanvasInv, CanvasOK',
         crossed \subseteq crossed', overrun \subseteq overrun',
         NEW h \in Handlers, C!CanvasStep(h), UNCHANGED identity
  PROVE  CanvasInv'
<1>0. PICK j, u, n : j = job[h] /\ u = j.user /\ n = Len(canvas)
  OBVIOUS
<1>1. JobOK(at[h], j) /\ j \in Job /\ n \in Nat /\ CanvasOK
  BY <1>0, InHand, Lengths DEF TypeInv
<1>2. at[h] \in CanvasSync \/ at[h] \in {"revoke", "close canvas", "forget canvas"}
  BY DEF C!CanvasStep, C!AcquireCanvas, C!ReadCanvas, C!CreateCanvas, C!NoteCanvas, C!EditCanvas,
     C!ShareCanvas, C!RecordCanvas, C!ReleaseCanvas, C!FindCanvas, C!CloseCanvas, C!ForgetCanvas,
     CanvasSync, C!CanvasPlaces, Revoking
<1>3. u \in Users /\ (at[h] \in CanvasSync => j.key = u /\ j.login \in Accounts)
  BY <1>0, <1>1, <1>2 DEF JobOK, CanvasJob, Personal, LinkJob, Revoking
<1>4. u \in Calm("canvas") => /\ CanvasOf(u) /\ CanvasCalmJob(at[h], j)
                              /\ at[h] \in CanvasSync => j.login = identity[u]
  BY <1>0, <1>3 DEF CanvasInv, CanvasOf, Calm, IdentityInv, IdentityJob, Synced
<1>5. at[h] # "acquire canvas" => at[h] \in OnCanvas
  BY <1>2 DEF OnCanvas, Revoking
<1>6. Uses(at[h]) => Ref(u, j.doc.id) /\ j.doc.id \in 1..n
  <2>1. Uses(at[h]) => j.doc.id \in 1..n
    BY <1>0, <1>1 DEF JobOK, CanvasJob, Uses
  <2> QED
    BY <1>0, <1>1, <2>1 DEF Ref
<1>7. canvasDoc[u].id # 0 => Ref(u, canvasDoc[u].id)
  BY DEF Ref
<1>8. canvas \in Seq(Canvas) /\ DOMAIN canvas = 1..n /\ \A i \in 1..n : canvas[i] \in Canvas
  BY <1>0, <1>1, ElementOfSeq DEF CanvasOK
\* Where nothing is changed.
<1>10. CASE C!AcquireCanvas(h) \/ C!ReleaseCanvas(h)
  <2>1. /\ Go(h, "idle", NoJob) \/ Go(h, "read canvas", j)
        /\ UNCHANGED <<canvas, canvasDoc>>
    BY <1>0, <1>10, SameGoes DEF C!AcquireCanvas, C!ReleaseCanvas, C!canvases
  <2>2. CanvasCalmJob("read canvas", j) /\ ~Uses("read canvas")
    BY DEF CanvasCalmJob, Forgotten, Uses
  <2>3. CanvasCalmJob("idle", NoJob) /\ ~Uses("idle")
    BY PlainPlaces, PlainCanvas
  <2> QED
    BY <2>1, <2>2, <2>3, CanvasMove
<1>11. CASE C!ReadCanvas(h)
  <2>1. at[h] = "read canvas" /\ UNCHANGED <<canvas, canvasDoc>> /\ j.key = u
    BY <1>0, <1>3, <1>11 DEF C!ReadCanvas, CanvasSync, C!CanvasPlaces, Revoking
  <2>2. PICK d : d = canvasDoc[u]
    OBVIOUS
  <2>3. PICK k : k = [j EXCEPT !.doc = d]
    OBVIOUS
  <2>4. k.user = u /\ k.doc = d
    BY <1>0, <1>1, <2>3, JobFields DEF Alike
  <2>5. PICK p : /\ Go(h, p, k)
                 /\ p = CASE d.id = 0 /\ j.then = "scheduled" -> "release canvas"
                          [] d.id = 0 /\ j.then # "scheduled" -> "create canvas"
                          [] d.id # 0 /\ d.shows # j.login -> "edit canvas"
                          [] d.id # 0 /\ d.shows = j.login /\ ~d.granted -> "share canvas"
                          [] OTHER -> "record canvas"
    BY <1>0, <1>11, <2>1, <2>2, <2>3, SameGoes DEF C!ReadCanvas
  <2>6. \/ d.id = 0 /\ p \in {"release canvas", "create canvas"}
        \/ d.id # 0 /\ p \in {"edit canvas", "share canvas", "record canvas"}
    <3>1. CASE d.id = 0
      BY <2>5, <3>1
    <3>2. CASE d.id # 0
      BY <2>5, <3>2
    <3> QED
      BY <3>1, <3>2
  <2>7. CanvasCalmJob(p, k)
    BY <2>2, <2>4, <2>6 DEF CanvasCalmJob, Forgotten
  <2>8. Uses(p) => Ref(k.user, k.doc.id)
    BY <1>7, <2>2, <2>4, <2>6 DEF Uses
  <2> QED
    BY <2>1, <2>5, <2>7, <2>8, CanvasMove
<1>12. CASE C!FindCanvas(h)
  <2>1. at[h] = "revoke" /\ UNCHANGED <<canvas, canvasDoc>>
    BY <1>12 DEF C!FindCanvas
  <2>2. PICK d : d = canvasDoc[u]
    OBVIOUS
  <2>3. PICK k : k = [j EXCEPT !.doc = d]
    OBVIOUS
  <2>4. k.user = u /\ k.doc = d
    BY <1>0, <1>1, <2>3, JobFields DEF Alike
  <2>5. \/ d.id = 0 /\ Go(h, "revoke list", j)
        \/ d.id # 0 /\ Go(h, "close canvas", k)
    BY <1>0, <1>12, <2>2, <2>3, SameGoes DEF C!FindCanvas
  <2>6. d.id = 0 => CanvasCalmJob("revoke list", j) /\ ~Uses("revoke list")
    BY <1>0, <2>2 DEF CanvasCalmJob, Forgotten, Uses
  <2>7. d.id # 0 => CanvasCalmJob("close canvas", k) /\ Ref(k.user, k.doc.id)
    BY <1>7, <2>2, <2>4 DEF CanvasCalmJob, Forgotten
  <2> QED
    BY <2>1, <2>5, <2>6, <2>7, CanvasMove
\* A Canvas more.
<1>13. CASE C!CreateCanvas(h)
  <2>1. at[h] = "create canvas" /\ UNCHANGED canvasDoc
    BY <1>13 DEF C!CreateCanvas
  <2>2. PICK c : c = [shows |-> j.login, readers |-> {}]
    OBVIOUS
  <2>3. canvas' = Append(canvas, c) /\ c.shows = j.login /\ c.readers = {}
    BY <1>0, <1>13, <2>2 DEF C!CreateCanvas
  <2>4. /\ DOMAIN canvas' = 1..(n + 1) /\ canvas'[n + 1] = c
        /\ \A i \in 1..n : canvas'[i] = canvas[i]
    <3>1. c \in Canvas
      BY <1>3, <2>1, <2>2 DEF Canvas, CanvasSync, C!CanvasPlaces, Revoking
    <3>2. canvas' \in Seq(Canvas) /\ Len(canvas') = n + 1
      BY <1>0, <1>8, <2>3, <3>1, AppendProperties
    <3>3. \A i \in 1..n : canvas'[i] = canvas[i]
      BY <1>0, <1>8, <2>3, <3>1, AppendProperties
    <3>4. canvas'[n + 1] = c
      BY <1>0, <1>8, <2>3, <3>1, AppendProperties
    <3> QED
      BY <3>2, <3>3, <3>4, LenProperties
  <2>5. PICK m : m = n + 1 /\ m \in Nat /\ m \notin 1..n /\ DOMAIN canvas' = 1..m /\ m \in 1..m
                 /\ \A i \in 1..m : i = m \/ i \in 1..n
    BY <1>1, <2>4
  <2>6. PICK e : e = C!NoCanvas
    OBVIOUS
  <2>7. PICK d : d = [e EXCEPT !.id = m] /\ d.id = m
    <3>1. [e EXCEPT !.id = m].id = m
      BY <2>6 DEF C!NoCanvas
    <3> QED
      BY <3>1
  <2>8. PICK k : k = [j EXCEPT !.doc = d]
    OBVIOUS
  <2>9. k.user = u /\ k.doc = d /\ k.login = j.login
    BY <1>0, <1>1, <2>8, JobFields DEF Alike
  <2>10. Go(h, "note canvas", k)
    BY <1>0, <1>13, <2>5, <2>6, <2>7, <2>8, SameGoes DEF C!CreateCanvas
  <2>11. \A v \in Users, i \in DOMAIN canvas' :
           v \in canvas'[i].readers => i \in DOMAIN canvas /\ v \in canvas[i].readers
    BY <1>8, <2>3, <2>4, <2>5
  <2>12. ASSUME NEW v \in Users, NEW i \in Nat, Ref(v, i) PROVE canvas'[i].shows = canvas[i].shows
    <3>1. i \in 1..n
      BY <1>0, <2>12, RefKnown
    <3> QED
      BY <2>4, <3>1
  <2>13. ASSUME u \in Calm("canvas") PROVE Reached(u)' /\ Shown(u)' /\ CanvasCalmJob("note canvas", k)'
    <3>1. CanvasOf(u) /\ canvasDoc[u].id = 0
      BY <1>0, <1>4, <2>1, <2>13 DEF CanvasCalmJob
    <3>2. Reached(u)'
      BY <1>3, <2>1, <2>11, <3>1 DEF CanvasOf, Reached
    <3>3. Shown(u)'
      BY <2>1, <3>1 DEF Shown
    <3>4. canvas'[k.doc.id].shows = k.login
      BY <2>3, <2>4, <2>5, <2>7, <2>9
    <3>5. CanvasCalmJob("note canvas", k)'
      BY <2>1, <2>9, <3>1, <3>4 DEF CanvasCalmJob, Forgotten
    <3> QED
      BY <3>2, <3>3, <3>5
  <2>14. Uses("note canvas") => Ref(u, k.doc.id) \/ k.doc.id = Len(canvas) + 1
    BY <1>0, <2>5, <2>7, <2>9
  <2> QED
    BY <1>0, <1>3, <1>5, <1>7, <2>1, <2>9, <2>10, <2>11, <2>12, <2>13, <2>14, CanvasChange
\* A document that is written.
<1>14. ASSUME NEW p, NEW k, NEW d, Go(h, p, k), k.user = u, UNCHANGED canvas, at[h] \in OnCanvas,
              canvasDoc' = [canvasDoc EXCEPT ![u] = d], d.id # 0 => Ref(u, d.id),
              Uses(p) => Ref(u, k.doc.id),
              u \in Calm("canvas") => Reached(u)' /\ Shown(u)' /\ CanvasCalmJob(p, k)'
       PROVE  CanvasInv'
  <2>1. canvasDoc'[u] = d /\ \A v \in Users \ {u} : canvasDoc'[v] = canvasDoc[v]
    BY <1>1, <1>3, <1>14 DEF CanvasOK
  <2> QED
    BY <1>0, <1>3, <1>14, <2>1, CanvasChange
<1>15. CASE C!NoteCanvas(h) \/ C!RecordCanvas(h)
  <2>1. /\ at[h] \in {"note canvas", "record canvas"} /\ UNCHANGED canvas
        /\ \/ at[h] = "note canvas" /\ Go(h, "share canvas", j)
           \/ at[h] = "record canvas" /\ Go(h, "release canvas", j)
    BY <1>0, <1>15, SameGoes DEF C!NoteCanvas, C!RecordCanvas
  <2>2. at[h] \in CanvasSync /\ Uses(at[h]) /\ j.key = u
    BY <1>3, <2>1 DEF CanvasSync, C!CanvasPlaces, Revoking, Uses
  <2>3. PICK i, a : i = j.doc.id /\ a = j.login
    OBVIOUS
  <2>4. PICK d : d.id = i /\ canvasDoc' = [canvasDoc EXCEPT ![u] = d]
    <3>1. \/ canvasDoc' = [canvasDoc EXCEPT ![u] = [id |-> i, shows |-> a, granted |-> FALSE]]
          \/ canvasDoc' = [canvasDoc EXCEPT ![u] = [id |-> i, shows |-> a, granted |-> TRUE]]
      BY <1>0, <1>15, <2>2, <2>3 DEF C!NoteCanvas, C!RecordCanvas, C!Projected
    <3> QED
      BY <3>1
  <2>5. canvasDoc'[u].id = i
    BY <1>1, <1>3, <2>4 DEF CanvasOK
  <2>6. ASSUME u \in Calm("canvas") PROVE Reached(u)' /\ Shown(u)'
    <3>1. CanvasOf(u) /\ CanvasCalmJob(at[h], j) /\ j.login = identity[u]
      BY <1>4, <2>2, <2>6
    <3>2. Reached(u)'
      <4>1. CASE at[h] = "note canvas"
        <5>1. canvasDoc[u].id = 0
          BY <1>0, <3>1, <4>1 DEF CanvasCalmJob
        <5>2. \A x \in DOMAIN canvas : u \notin canvas[x].readers
          BY <1>8, <3>1, <5>1 DEF CanvasOf, Reached
        <5> QED
          BY <2>1, <5>2 DEF Reached
      <4>2. CASE at[h] = "record canvas"
        <5>1. canvasDoc[u].id = i
          BY <1>0, <2>3, <3>1, <4>2 DEF CanvasCalmJob
        <5> QED
          BY <2>1, <2>5, <3>1, <5>1 DEF CanvasOf, Reached
      <4> QED
        BY <2>1, <4>1, <4>2
    <3>3. canvas[i].shows = identity[u]
      <4>1. CASE at[h] = "note canvas"
        BY <2>3, <3>1, <4>1 DEF CanvasCalmJob
      <4>2. CASE at[h] = "record canvas"
        <5>1. canvasDoc[u].id = i
          BY <1>0, <2>3, <3>1, <4>2 DEF CanvasCalmJob
        <5>2. i # 0
          BY <1>1, <1>6, <2>2, <2>3
        <5> QED
          BY <3>1, <5>1, <5>2 DEF CanvasOf, Shown
      <4> QED
        BY <2>1, <4>1, <4>2
    <3>4. Shown(u)'
      BY <2>1, <2>5, <3>3 DEF Shown
    <3> QED
      BY <3>2, <3>4
  <2>7. /\ CanvasCalmJob("share canvas", j)' /\ CanvasCalmJob("release canvas", j)'
        /\ Ref(u, i) /\ ~Uses("release canvas")
    BY <1>0, <1>6, <2>2, <2>3, <2>5 DEF CanvasCalmJob, Forgotten, Uses
  <2> QED
    BY <1>0, <1>5, <1>14, <2>1, <2>3, <2>4, <2>6, <2>7
<1>16. CASE C!ForgetCanvas(h)
  <2>1. /\ at[h] = "forget canvas" /\ UNCHANGED canvas
        /\ canvasDoc' = [canvasDoc EXCEPT ![u] = C!NoCanvas]
    BY <1>0, <1>16 DEF C!ForgetCanvas
  <2>2. PICK k : k = [j EXCEPT !.doc = None]
    OBVIOUS
  <2>3. k.user = u /\ Go(h, "revoke list", k)
    <3>1. k.user = u
      BY <1>0, <1>1, <2>2, JobFields DEF Alike
    <3> QED
      BY <1>0, <1>16, <2>2, <3>1, SameGoes DEF C!ForgetCanvas
  <2>4. C!NoCanvas.id = 0
    BY DEF C!NoCanvas
  <2>5. canvasDoc'[u].id = 0
    BY <1>1, <1>3, <2>1, <2>4 DEF CanvasOK
  <2>6. u \in Calm("canvas") => Reached(u)' /\ Shown(u)'
    <3>1. u \in Calm("canvas") => \A x \in DOMAIN canvas : u \notin canvas[x].readers
      BY <1>0, <1>4, <2>1 DEF CanvasCalmJob
    <3> QED
      BY <2>1, <2>5, <3>1 DEF Reached, Shown
  <2>7. CanvasCalmJob("revoke list", k)' /\ ~Uses("revoke list")
    BY <2>3, <2>5 DEF CanvasCalmJob, Forgotten, Uses
  <2> QED
    BY <1>5, <1>14, <2>1, <2>3, <2>4, <2>6, <2>7
\* A Canvas that is changed.
<1>17. CASE C!EditCanvas(h) \/ C!ShareCanvas(h) \/ C!CloseCanvas(h)
  <2>1. /\ at[h] \in {"edit canvas", "share canvas", "close canvas"} /\ UNCHANGED canvasDoc
        /\ \/ at[h] = "edit canvas" /\ \/ Go(h, "record canvas", j) \/ Go(h, "share canvas", j)
           \/ at[h] = "share canvas" /\ Go(h, "record canvas", j)
           \/ at[h] = "close canvas" /\ Go(h, "forget canvas", j)
    BY <1>0, <1>17, SameGoes DEF C!EditCanvas, C!ShareCanvas, C!CloseCanvas
  <2>2. Uses(at[h]) /\ (at[h] # "close canvas" => at[h] \in CanvasSync /\ j.key = u)
    BY <1>3, <2>1 DEF CanvasSync, C!CanvasPlaces, Revoking, Uses
  <2>3. PICK i \in 1..n : i = j.doc.id /\ Ref(u, i)
    BY <1>6, <2>2
  <2>4. PICK c : c = canvas[i] /\ c \in Canvas
    BY <1>8, <2>3
  <2>5. PICK d : /\ canvas' = [canvas EXCEPT ![i] = d]
                 /\ \A v \in Users \ {u} : v \in d.readers => v \in c.readers
                 /\ at[h] = "edit canvas" => d.shows = j.login /\ d.readers = c.readers
                 /\ at[h] # "edit canvas" => d.shows = c.shows
                 /\ at[h] = "close canvas" => u \notin d.readers
    <3>1. CASE C!EditCanvas(h)
      <4>1. at[h] = "edit canvas" /\ canvas' = [canvas EXCEPT ![i].shows = j.login]
        BY <1>0, <2>3, <3>1 DEF C!EditCanvas
      <4>2. canvas' = [canvas EXCEPT ![i] = [c EXCEPT !.shows = j.login]]
        BY <2>4, <4>1
      <4>3. /\ [c EXCEPT !.shows = j.login].readers = c.readers
            /\ [c EXCEPT !.shows = j.login].shows = j.login
        BY <2>4 DEF Canvas
      <4> QED
        BY <4>1, <4>2, <4>3
    <3>2. CASE C!ShareCanvas(h)
      <4>1. /\ at[h] = "share canvas"
            /\ canvas' = [canvas EXCEPT ![i].readers = @ \cup {u}]
        BY <1>0, <2>2, <2>3, <3>2 DEF C!ShareCanvas
      <4>2. canvas' = [canvas EXCEPT ![i] = [c EXCEPT !.readers = c.readers \cup {u}]]
        BY <2>4, <4>1
      <4>3. /\ [c EXCEPT !.readers = c.readers \cup {u}].readers = c.readers \cup {u}
            /\ [c EXCEPT !.readers = c.readers \cup {u}].shows = c.shows
        BY <2>4 DEF Canvas
      <4> QED
        BY <4>1, <4>2, <4>3
    <3>3. CASE C!CloseCanvas(h)
      <4>1. /\ at[h] = "close canvas"
            /\ canvas' = [canvas EXCEPT ![i].readers = @ \ {u}]
        BY <1>0, <2>3, <3>3 DEF C!CloseCanvas
      <4>2. canvas' = [canvas EXCEPT ![i] = [c EXCEPT !.readers = c.readers \ {u}]]
        BY <2>4, <4>1
      <4>3. /\ [c EXCEPT !.readers = c.readers \ {u}].readers = c.readers \ {u}
            /\ [c EXCEPT !.readers = c.readers \ {u}].shows = c.shows
        BY <2>4 DEF Canvas
      <4> QED
        BY <4>1, <4>2, <4>3
    <3> QED
      BY <1>17, <3>1, <3>2, <3>3
  <2>6. /\ DOMAIN canvas' = 1..n /\ canvas'[i] = d
        /\ \A x \in 1..n : x # i => canvas'[x] = canvas[x]
    BY <1>8, <2>3, <2>5
  <2>7. \A v \in Users \ {u}, x \in DOMAIN canvas' :
          v \in canvas'[x].readers => x \in DOMAIN canvas /\ v \in canvas[x].readers
    BY <1>8, <2>4, <2>5, <2>6
  <2>8. ASSUME NEW v \in Users \ {u}, NEW x \in Nat, Ref(v, x) PROVE canvas'[x].shows = canvas[x].shows
    <3>1. x # i /\ x \in 1..n
      BY <1>0, <1>3, <2>3, <2>8, RefKnown DEF CanvasInv, RefsInv
    <3> QED
      BY <2>6, <3>1
  <2>9. ASSUME u \in Calm("canvas")
        PROVE  Reached(u)' /\ Shown(u)' /\ (at[h] = "close canvas" => CanvasCalmJob("forget canvas", j)')
    <3>1. CanvasOf(u) /\ canvasDoc[u].id = i /\ (at[h] # "close canvas" => j.login = identity[u])
      BY <1>0, <1>4, <2>1, <2>2, <2>3, <2>9 DEF CanvasCalmJob
    <3>2. Reached(u)'
      <4>1. ASSUME NEW x \in 1..n, u \in canvas'[x].readers PROVE canvasDoc[u].id = x
        <5>1. CASE x = i
          BY <3>1, <5>1
        <5>2. CASE x # i
          BY <1>8, <2>6, <3>1, <4>1, <5>2 DEF CanvasOf, Reached
        <5> QED
          BY <5>1, <5>2
      <4> QED
        BY <2>1, <2>6, <4>1 DEF Reached
    <3>3. d.shows = identity[u]
      <4>1. CASE at[h] = "edit canvas"
        BY <2>5, <3>1, <4>1
      <4>2. CASE at[h] # "edit canvas"
        <5>1. c.shows = identity[u]
          <6>1. i # 0
            BY <1>1, <2>3
          <6> QED
            BY <2>4, <3>1, <6>1 DEF CanvasOf, Shown
        <5> QED
          BY <2>5, <4>2, <5>1
      <4> QED
        BY <4>1, <4>2
    <3>4. Shown(u)'
      BY <2>1, <2>6, <3>1, <3>3 DEF Shown
    <3>5. ASSUME at[h] = "close canvas" PROVE CanvasCalmJob("forget canvas", j)'
      <4>1. \A x \in 1..n : u \notin canvas'[x].readers
        <5>1. ASSUME NEW x \in 1..n, u \in canvas'[x].readers PROVE FALSE
          <6>1. x = i
            BY <2>1, <2>6, <3>1, <3>2, <5>1 DEF Reached
          <6> QED
            BY <2>5, <2>6, <3>5, <5>1, <6>1
        <5> QED
          BY <5>1
      <4> QED
        BY <1>0, <2>6, <4>1 DEF CanvasCalmJob, Forgotten
    <3> QED
      BY <3>2, <3>4, <3>5
  <2>10. ASSUME u \in Calm("canvas"), at[h] # "close canvas"
         PROVE  CanvasCalmJob("record canvas", j)' /\ CanvasCalmJob("share canvas", j)'
    <3>1. canvasDoc[u].id = j.doc.id
      BY <1>0, <1>4, <2>1, <2>10 DEF CanvasCalmJob
    <3> QED
      BY <1>0, <2>1, <3>1 DEF CanvasCalmJob, Forgotten
  <2>11. PICK p : /\ Go(h, p, j)
                  /\ u \in Calm("canvas") => Reached(u)' /\ Shown(u)' /\ CanvasCalmJob(p, j)'
    BY <2>1, <2>9, <2>10
  <2> QED
    BY <1>0, <1>3, <1>5, <1>7, <2>1, <2>3, <2>7, <2>8, <2>11, CanvasChange
<1> QED
  BY <1>10, <1>11, <1>12, <1>13, <1>15, <1>16, <1>17 DEF C!CanvasStep

\* The steps of the Lists leave the Canvases alone.
LEMMA CanvasListStep ==
  ASSUME AccountsAssumption, TypeInv, CanvasInv, crossed \subseteq crossed', overrun \subseteq overrun',
         NEW h \in Handlers, L!ListStep(h), UNCHANGED <<identity, canvas, canvasDoc>>
  PROVE  CanvasInv'
<1>1. ASSUME NEW p, NEW k, Go(h, p, k), p \in ListSync \cup Migrating \cup {"idle"}
      PROVE  CanvasInv'
  <2>1. CanvasCalmJob(p, k) /\ ~Uses(p)
    BY <1>1 DEF CanvasCalmJob, Forgotten, Uses, ListSync, Migrating, L!MigrationPlaces
  <2> QED
    BY <1>1, <2>1, CanvasMove
<1>2. CASE at[h] \in ListSync
  <2>1. "acquire channel" \in Migrating
    BY DEF Migrating
  <2> QED
    BY <1>1, <1>2, <2>1, ListPaths
<1>3. CASE at[h] \in Migrating
  <2>1. {"release list", "read list"} \subseteq ListSync
    BY DEF ListSync
  <2> QED
    BY <1>1, <1>3, <2>1, MigrationPaths
<1>4. CASE L!FindList(h) \/ L!CloseList(h) \/ L!ForgetList(h)
  <2>1. CASE Go(h, "idle", NoJob)
    BY <1>1, <2>1
  <2>2. ASSUME NEW p, NEW k, Go(h, p, k), k.user = job[h].user,
               p \in {"close list", "forget list", "idle", "save", "unlink"}
        PROVE  CanvasInv'
    <3>1. at[h] \in {"revoke list", "close list", "forget list"} /\ job[h].user \in Users
      BY <1>4, RevocationPaths, LinkUser DEF Revoking
    <3>2. k.user \in Calm("canvas") => canvasDoc[k.user].id = 0
      BY <2>2, <3>1 DEF CanvasInv, CanvasOf, CanvasCalmJob
    <3>3. ~Uses(p) /\ (k.user \in Calm("canvas") => CanvasCalmJob(p, k))
      BY <2>2, <3>2 DEF CanvasCalmJob, Uses
    <3> QED
      BY <2>2, <3>3, CanvasMove
  <2> QED
    BY <1>4, <2>1, <2>2, RevocationPaths DEF Alike
<1>5. at[h] \in ListSync \/ at[h] \in Migrating \/ L!FindList(h) \/ L!CloseList(h) \/ L!ForgetList(h)
  BY DEF L!ListStep, ListSync, Migrating, L!MigrationPlaces, L!AcquireList, L!CheckGuard,
     L!ReadList, L!CreateList, L!NoteList, L!ShareList, L!RecordList, L!ShareWithRequester,
     L!RenameLegacy, L!DropLegacy, L!AddRows, L!DeleteRows, L!ReleaseList, L!AcquireChannel,
     L!ReadLegacy, L!CloseLegacy, L!ClearLegacy, L!MarkLegacy, L!SetGuard, L!ForgetLegacy,
     L!ReleaseChannel
<1> QED
  BY <1>2, <1>3, <1>4, <1>5

LEMMA CanvasStill ==
  ASSUME CanvasInv, crossed \subseteq crossed', overrun \subseteq overrun',
         UNCHANGED <<at, job, identity, canvas, canvasDoc>>
  PROVE  CanvasInv'
<1>1. RefsInv'
  <2>1. ASSUME NEW u \in Users, NEW i \in Nat PROVE Ref(u, i)' <=> Ref(u, i)
    BY DEF Ref, Uses
  <2> QED
    BY <2>1 DEF CanvasInv, RefsInv
<1>2. ASSUME NEW u \in Calm("canvas")' PROVE CanvasOf(u)'
  <2>1. CanvasOf(u)
    BY <1>2 DEF Calm, CanvasInv
  <2> QED
    BY <2>1 DEF CanvasOf, Reached, Shown, CanvasCalmJob, Forgotten
<1> QED
  BY <1>1, <1>2 DEF CanvasInv

LEMMA RecordGrows ==
  ASSUME [Next]_vars
  PROVE  crossed \subseteq crossed' /\ overrun \subseteq overrun'
<1>1. CASE Next
  <2>1. Record
    BY <1>1 DEF Next, Order, Open, Handle, Break, Schedule, Lapse, Outlast
  <2> QED
    BY <2>1 DEF Record
<1>2. CASE UNCHANGED vars
  BY <1>2 DEF vars, scene
<1> QED
  BY <1>1, <1>2

LEMMA CanvasNext ==
  ASSUME AccountsAssumption, TypeInv, TypeInv', Apart, Mutex, IdentityInv, CanvasInv, [Next]_vars
  PROVE  CanvasInv'
<1>0. crossed \subseteq crossed' /\ overrun \subseteq overrun' /\ CanvasOK'
  BY RecordGrows DEF TypeInv
<1>1. CASE UNCHANGED <<at, job, identity, views>>
  BY <1>0, <1>1, CanvasStill DEF views
<1>2. ASSUME NEW h \in Handlers, Leads(h), UNCHANGED <<identity, views>> PROVE CanvasInv'
  <2>1. PICK p \in Plain : \E j : Go(h, p, j)
    BY <1>2 DEF Leads
  <2>2. UNCHANGED <<identity, canvas, canvasDoc>>
    BY <1>2 DEF views
  <2> QED
    BY <1>0, <2>1, <2>2, PlainCanvas, CanvasMove
<1>3. ASSUME NEW h \in Handlers, LinkStep(h), UNCHANGED views PROVE CanvasInv'
  BY <1>0, <1>3, CanvasLink
<1>4. ASSUME NEW h \in Handlers, C!CanvasStep(h), UNCHANGED <<identity, list, listDoc, guard>>
      PROVE  CanvasInv'
  BY <1>0, <1>4, CanvasStepShown
<1>5. ASSUME NEW h \in Handlers, L!ListStep(h), UNCHANGED <<identity, canvas, canvasDoc>>
      PROVE  CanvasInv'
  BY <1>0, <1>5, CanvasListStep
<1> QED
  BY <1>1, <1>2, <1>3, <1>4, <1>5, NextViews DEF ViewKinds

LEMMA CanvasInit ==
  ASSUME Init
  PROVE  CanvasInv
<1>1. /\ canvas = <<>> /\ canvasDoc = [u \in Users |-> C!NoCanvas]
      /\ at = [h \in Handlers |-> "idle"]
  BY DEF Init, C!InitCanvases, InitHandlers
<1>2. \A u \in Users : canvasDoc[u].id = 0
  BY <1>1 DEF C!NoCanvas
<1>3. \A u \in Users, i \in Nat : ~Ref(u, i)
  BY <1>1, <1>2 DEF Ref, Uses
<1>4. \A h \in Handlers : CanvasCalmJob(at[h], job[h])
  BY <1>1 DEF CanvasCalmJob, Forgotten
<1>5. DOMAIN canvas = {}
  BY <1>1
<1> QED
  BY <1>2, <1>3, <1>4, <1>5 DEF CanvasInv, RefsInv, CanvasOf, Reached, Shown, Calm

-----------------------------------------------------------------------------
(* What the steps of a List do to the Lists.                               *)

Kept == UNCHANGED <<list, listDoc, guard>>

Stored(k, d) == listDoc' = [listDoc EXCEPT ![k] = d] /\ UNCHANGED <<list, guard>>

Edited(i, c) ==
  /\ i \in 1..Len(list) /\ c \in List /\ c.key = list[i].key
  /\ list' = [list EXCEPT ![i] = c] /\ UNCHANGED <<listDoc, guard>>

SameDoc(j, k) ==
  j.doc.id = k.doc.id /\ j.doc.legacy = k.doc.legacy /\ j.doc.current = k.doc.current

ListGoes(h) ==
  /\ Kept
  /\ \/ Go(h, "idle", NoJob)
     \/ \E p \in {"check guard", "read list", "release list", "acquire channel"} :
          /\ Go(h, p, job[h])
          /\ p = "read list" /\ job[h].key = Channel => ~guard

ListRead(h) ==
  /\ at[h] = "read list" /\ Kept
  /\ \E p, k : /\ Go(h, p, k) /\ Alike(k, job[h]) /\ k.doc = listDoc[job[h].key]
               /\ \/ p = "create list" /\ ~k.doc.current
                  \/ p \in {"share list", "share with requester"} /\ k.doc.current

ListMade(h) ==
  /\ at[h] = "create list" /\ UNCHANGED <<listDoc, guard>>
  /\ \E c \in List : \E k : /\ c.key = job[h].key /\ c.readers = {} /\ c.rows = {}
                            /\ list' = Append(list, c)
                            /\ Go(h, "note list", k) /\ Alike(k, job[h])
                            /\ k.doc.id = Len(list) + 1 /\ k.doc.legacy = job[h].doc.id
                            /\ k.doc.current

ListWritten(h) ==
  /\ Stored(job[h].key, job[h].doc)
  /\ \/ at[h] = "note list" /\ Go(h, "share list", job[h])
     \/ at[h] = "record list" /\ Go(h, "share with requester", job[h])
     \/ at[h] = "drop legacy" /\ Go(h, "add rows", job[h])

ListShared(h) ==
  /\ at[h] = "share list"
  /\ \E c, k : LET b == list[job[h].doc.id]
               IN  /\ Edited(job[h].doc.id, c)
                   /\ c.readers = b.readers \cup {L!Target(job[h].key)}
                   /\ c.rows = b.rows /\ c.renamed = b.renamed
                   /\ Go(h, "record list", k) /\ Alike(k, job[h]) /\ SameDoc(k, job[h])

ListAsked(h) ==
  /\ at[h] = "share with requester"
  /\ \E c : LET b == list[job[h].doc.id]
            IN  /\ Edited(job[h].doc.id, c)
                /\ c.readers = b.readers \cup L!Requester(h)
                /\ c.rows = b.rows /\ c.renamed = b.renamed
                /\ Go(h, "rename legacy", job[h]) \/ Go(h, "add rows", job[h])

ListRenamed(h) ==
  /\ at[h] = "rename legacy"
  /\ \E c, k : LET b == list[job[h].doc.legacy]
               IN  /\ Edited(job[h].doc.legacy, c)
                   /\ c.readers = b.readers /\ c.rows = b.rows /\ c.renamed
                   /\ Go(h, "drop legacy", k) /\ Alike(k, job[h])
                   /\ k.doc.id = job[h].doc.id /\ k.doc.legacy = 0
                   /\ k.doc.current = job[h].doc.current

ListFilled(h) ==
  /\ \E c : LET b == list[job[h].doc.id]
            IN  /\ Edited(job[h].doc.id, c)
                /\ c.readers = b.readers /\ c.renamed = b.renamed
                /\ c.rows \subseteq b.rows \cup L!Wanted(h)
  /\ \/ at[h] = "add rows" /\ Go(h, "delete rows", job[h])
     \/ at[h] = "delete rows" /\ Go(h, "release list", job[h])

SyncShape(h) ==
  \/ ListGoes(h) \/ ListRead(h) \/ ListMade(h) \/ ListWritten(h) \/ ListShared(h)
  \/ ListAsked(h) \/ ListRenamed(h) \/ ListFilled(h)

LEMMA EditedReaders ==
  ASSUME ListOK, NEW i \in 1..Len(list), NEW r \in SUBSET (Users \cup {Channel}),
         list' = [list EXCEPT ![i].readers = r], UNCHANGED <<listDoc, guard>>
  PROVE  \E c : /\ Edited(i, c) /\ c.readers = r /\ c.rows = list[i].rows
                /\ c.renamed = list[i].renamed
<1>1. PICK b : b = list[i]
  OBVIOUS
<1>2. b \in List
  BY <1>1, ListAt
<1>3. PICK c : c = [b EXCEPT !.readers = r]
  OBVIOUS
<1>4. /\ c \in List /\ c.key = b.key /\ c.readers = r /\ c.rows = b.rows
      /\ c.renamed = b.renamed
  BY <1>2, <1>3 DEF List
<1>5. list' = [list EXCEPT ![i] = c]
  BY <1>1, <1>3
<1> QED
  BY <1>1, <1>4, <1>5 DEF Edited

LEMMA EditedRows ==
  ASSUME ListOK, NEW i \in 1..Len(list), NEW r \in SUBSET (Accounts \cup {All, Shared}),
         list' = [list EXCEPT ![i].rows = r], UNCHANGED <<listDoc, guard>>
  PROVE  \E c : /\ Edited(i, c) /\ c.readers = list[i].readers /\ c.rows = r
                /\ c.renamed = list[i].renamed
<1>1. PICK b : b = list[i]
  OBVIOUS
<1>2. b \in List
  BY <1>1, ListAt
<1>3. PICK c : c = [b EXCEPT !.rows = r]
  OBVIOUS
<1>4. /\ c \in List /\ c.key = b.key /\ c.readers = b.readers /\ c.rows = r
      /\ c.renamed = b.renamed
  BY <1>2, <1>3 DEF List
<1>5. list' = [list EXCEPT ![i] = c]
  BY <1>1, <1>3
<1> QED
  BY <1>1, <1>4, <1>5 DEF Edited

LEMMA EditedName ==
  ASSUME ListOK, NEW i \in 1..Len(list),
         list' = [list EXCEPT ![i].renamed = TRUE], UNCHANGED <<listDoc, guard>>
  PROVE  \E c : /\ Edited(i, c) /\ c.readers = list[i].readers /\ c.rows = list[i].rows
                /\ c.renamed
<1>1. PICK b : b = list[i]
  OBVIOUS
<1>2. b \in List
  BY <1>1, ListAt
<1>3. PICK c : c = [b EXCEPT !.renamed = TRUE]
  OBVIOUS
<1>4. /\ c \in List /\ c.key = b.key /\ c.readers = b.readers /\ c.rows = b.rows /\ c.renamed
  BY <1>2, <1>3 DEF List
<1>5. list' = [list EXCEPT ![i] = c]
  BY <1>1, <1>3
<1> QED
  BY <1>1, <1>4, <1>5 DEF Edited

LEMMA SyncShapes ==
  ASSUME AccountsAssumption, TypeInv, NEW h \in Handlers, at[h] \in ListSync, L!ListStep(h)
  PROVE  SyncShape(h)
<1>0. PICK j, n : j = job[h] /\ n = Len(list)
  OBVIOUS
<1>1. JobOK(at[h], j) /\ j \in Job /\ ListOK /\ n \in Nat
  BY <1>0, InHand, Lengths DEF TypeInv
<1>2. /\ j.key \in Keys /\ L!Target(j.key) \in Users \cup {Channel}
      /\ L!Requester(h) \subseteq Users
      /\ L!Wanted(h) \subseteq Accounts \cup {All, Shared}
  BY <1>0, ListJobs
<1>3. PICK d : d = j.doc /\ L!Doc(h) = d
  BY <1>0 DEF L!Doc
<1>4. at[h] \in {"create list"} \cup ListUse =>
        d \in ListState /\ d.id <= n /\ d.legacy <= n
  BY <1>0, <1>1, <1>3 DEF JobOK, ListJob, ListUse
<1>5. /\ at[h] \in ListUse => d.id \in 1..n
      /\ at[h] = "rename legacy" => d.legacy \in 1..n
  <2>1. /\ at[h] \in ListUse => d.id # 0 /\ d.id \in Nat /\ d.id <= n
        /\ at[h] = "rename legacy" => d.legacy # 0 /\ d.legacy \in Nat /\ d.legacy <= n
    <3>1. at[h] \in ListUse => d.id # 0
      BY <1>1, <1>3 DEF JobOK, ListJob, ListUse
    <3>2. at[h] = "rename legacy" => d.legacy # 0 /\ at[h] \in ListUse
      BY <1>1, <1>3 DEF JobOK, ListJob, ListUse
    <3> QED
      BY <1>4, <3>1, <3>2, ListFields
  <2>2. \A i \in Nat : i # 0 /\ i <= n => i \in 1..n
    BY <1>1
  <2> QED
    BY <2>1, <2>2
<1>6. Alike(j, j)
  BY <1>1, JobFields
<1>7. \A i \in 1..n : /\ list[i].readers \in SUBSET (Users \cup {Channel})
                      /\ list[i].rows \in SUBSET (Accounts \cup {All, Shared})
  BY <1>0, <1>1, ListAt
<1>10. CASE L!AcquireList(h)
  <2>1. Kept
    BY <1>10 DEF L!AcquireList, L!lists, Kept
  <2>2. \/ Go(h, "idle", NoJob)
        \/ \E p : /\ p = CASE j.key = Channel -> "check guard"
                           [] j.key = Shared -> "acquire channel" [] OTHER -> "read list"
                  /\ Go(h, p, j)
    BY <1>0, <1>10, SameGoes DEF L!AcquireList
  <2>3. Channel # Shared
    BY DEF AccountsAssumption
  <2>4. \/ Go(h, "idle", NoJob) \/ Go(h, "check guard", j) \/ Go(h, "acquire channel", j)
        \/ j.key # Channel /\ Go(h, "read list", j)
    <3>1. CASE j.key = Channel
      BY <2>2, <2>3, <3>1
    <3>2. CASE j.key = Shared
      BY <2>2, <2>3, <3>2
    <3>3. CASE j.key \notin {Channel, Shared}
      BY <2>2, <3>3
    <3> QED
      BY <3>1, <3>2, <3>3
  <2> QED
    BY <1>0, <2>1, <2>4 DEF SyncShape, ListGoes
<1>11. CASE L!CheckGuard(h) \/ L!ReleaseList(h)
  <2>1. Kept
    BY <1>11 DEF L!CheckGuard, L!ReleaseList, L!lists, Kept
  <2>2. \/ Go(h, "idle", NoJob) \/ Go(h, "release list", j)
        \/ ~guard /\ Go(h, "read list", j)
    BY <1>0, <1>11, SameGoes DEF L!CheckGuard, L!ReleaseList
  <2> QED
    BY <1>0, <2>1, <2>2 DEF SyncShape, ListGoes
<1>12. CASE L!ReadList(h)
  <2>1. at[h] = "read list" /\ Kept
    BY <1>12 DEF L!ReadList, Kept
  <2>2. PICK e : e = listDoc[j.key]
    OBVIOUS
  <2>3. PICK k : k = [j EXCEPT !.doc = e]
    OBVIOUS
  <2>4. Alike(k, j) /\ k.doc = e
    <3>1. Alike(k, j)
      BY <1>1, <2>3, JobFields
    <3>2. k.doc = e
      BY <1>1, <2>3 DEF Job
    <3> QED
      BY <3>1, <3>2
  <2>5. PICK p : /\ Go(h, p, k)
                 /\ p = CASE ~e.current -> "create list"
                          [] e.current /\ e.pending -> "share list"
                          [] OTHER -> "share with requester"
    BY <1>0, <1>12, <2>2, <2>3, SameGoes DEF L!ReadList
  <2>6. \/ p = "create list" /\ ~e.current
        \/ p \in {"share list", "share with requester"} /\ e.current
    <3>1. CASE ~e.current
      BY <2>5, <3>1
    <3>2. CASE e.current
      BY <2>5, <3>2
    <3> QED
      BY <3>1, <3>2
  <2> QED
    BY <1>0, <2>1, <2>2, <2>4, <2>5, <2>6 DEF SyncShape, ListRead
<1>13. CASE L!CreateList(h)
  <2>1. at[h] = "create list" /\ UNCHANGED <<listDoc, guard>>
    BY <1>13 DEF L!CreateList
  <2>2. PICK c : c = L!NewList(j.key)
    OBVIOUS
  <2>3. c \in List /\ c.key = j.key /\ c.readers = {} /\ c.rows = {}
    BY <1>2, <2>2 DEF List, L!NewList
  <2>4. list' = Append(list, c)
    BY <1>0, <1>13, <2>2 DEF L!CreateList
  <2>5. PICK m, i : m = n + 1 /\ i = d.id
    OBVIOUS
  <2>6. PICK e : e = [id |-> m, current |-> TRUE, pending |-> TRUE, legacy |-> i]
    OBVIOUS
  <2>7. e.id = m /\ e.current /\ e.legacy = i
    BY <2>6
  <2>8. PICK k : k = [j EXCEPT !.doc = e]
    OBVIOUS
  <2>9. Alike(k, j) /\ k.doc = e
    <3>1. Alike(k, j)
      BY <1>1, <2>8, JobFields
    <3>2. k.doc = e
      BY <1>1, <2>8 DEF Job
    <3> QED
      BY <3>1, <3>2
  <2>10. Go(h, "note list", k)
    BY <1>0, <1>3, <1>13, <2>5, <2>6, <2>8, SameGoes DEF L!CreateList
  <2>11. k.doc.id = Len(list) + 1 /\ k.doc.legacy = job[h].doc.id /\ k.doc.current
    BY <1>0, <1>3, <2>5, <2>7, <2>9
  <2> QED
    BY <1>0, <2>1, <2>3, <2>4, <2>9, <2>10, <2>11 DEF SyncShape, ListMade
<1>14. CASE L!NoteList(h) \/ L!RecordList(h) \/ L!DropLegacy(h)
  <2>1. /\ UNCHANGED <<list, guard>> /\ listDoc' = [listDoc EXCEPT ![j.key] = d]
        /\ \/ at[h] = "note list" /\ Go(h, "share list", j)
           \/ at[h] = "record list" /\ Go(h, "share with requester", j)
           \/ at[h] = "drop legacy" /\ Go(h, "add rows", j)
    BY <1>0, <1>3, <1>14, SameGoes DEF L!NoteList, L!RecordList, L!DropLegacy, L!StoreList
  <2> QED
    BY <1>0, <1>3, <2>1 DEF SyncShape, ListWritten, Stored
<1>15. CASE L!ShareList(h)
  <2>1. /\ at[h] = "share list" /\ at[h] \in ListUse /\ UNCHANGED <<listDoc, guard>>
        /\ list' = [list EXCEPT ![d.id].readers = @ \cup {L!Target(j.key)}]
    BY <1>0, <1>3, <1>15 DEF L!ShareList, ListUse
  <2>2. PICK i \in 1..n : i = d.id
    BY <1>5, <2>1
  <2>3. PICK r : r = list[i].readers \cup {L!Target(j.key)}
    OBVIOUS
  <2>4. r \in SUBSET (Users \cup {Channel}) /\ list' = [list EXCEPT ![i].readers = r]
    BY <1>2, <1>7, <2>1, <2>2, <2>3
  <2>5. PICK c : /\ Edited(i, c) /\ c.readers = r /\ c.rows = list[i].rows
                 /\ c.renamed = list[i].renamed
    BY <1>0, <1>1, <2>1, <2>4, EditedReaders
  <2>6. PICK e : e = [d EXCEPT !.pending = FALSE]
    OBVIOUS
  <2>7. e.id = d.id /\ e.legacy = d.legacy /\ e.current = d.current
    BY <1>4, <2>1, <2>6, ListStateChanged
  <2>8. PICK k : k = [j EXCEPT !.doc = e]
    OBVIOUS
  <2>9. Alike(k, j) /\ k.doc = e
    <3>1. Alike(k, j)
      BY <1>1, <2>8, JobFields
    <3>2. k.doc = e
      BY <1>1, <2>8 DEF Job
    <3> QED
      BY <3>1, <3>2
  <2>10. Go(h, "record list", k)
    <3>1. k = [j EXCEPT !.doc.pending = FALSE]
      BY <1>3, <2>6, <2>8
    <3> QED
      BY <1>0, <1>15, <3>1, SameGoes DEF L!ShareList
  <2>11. SameDoc(k, j)
    BY <1>3, <2>7, <2>9 DEF SameDoc
  <2>12. ListShared(h)
    BY <1>0, <1>3, <2>1, <2>2, <2>3, <2>5, <2>9, <2>10, <2>11 DEF ListShared
  <2> QED
    BY <2>12 DEF SyncShape
<1>16. CASE L!ShareWithRequester(h)
  <2>1. /\ at[h] = "share with requester" /\ at[h] \in ListUse /\ UNCHANGED <<listDoc, guard>>
        /\ list' = [list EXCEPT ![d.id].readers = @ \cup L!Requester(h)]
        /\ Go(h, "rename legacy", j) \/ Go(h, "add rows", j)
    BY <1>0, <1>3, <1>16, SameGoes DEF L!ShareWithRequester, ListUse
  <2>2. PICK i \in 1..n : i = d.id
    BY <1>5, <2>1
  <2>3. PICK r : r = list[i].readers \cup L!Requester(h)
    OBVIOUS
  <2>4. r \in SUBSET (Users \cup {Channel}) /\ list' = [list EXCEPT ![i].readers = r]
    BY <1>2, <1>7, <2>1, <2>2, <2>3
  <2>5. PICK c : /\ Edited(i, c) /\ c.readers = r /\ c.rows = list[i].rows
                 /\ c.renamed = list[i].renamed
    BY <1>0, <1>1, <2>1, <2>4, EditedReaders
  <2>6. ListAsked(h)
    BY <1>0, <1>3, <2>1, <2>2, <2>3, <2>5 DEF ListAsked
  <2> QED
    BY <2>6 DEF SyncShape
<1>17. CASE L!RenameLegacy(h)
  <2>1. /\ at[h] = "rename legacy" /\ at[h] \in ListUse /\ UNCHANGED <<listDoc, guard>>
        /\ list' = [list EXCEPT ![d.legacy].renamed = TRUE]
    BY <1>0, <1>3, <1>17 DEF L!RenameLegacy, ListUse
  <2>2. PICK i \in 1..n : i = d.legacy
    BY <1>5, <2>1
  <2>3. PICK c : /\ Edited(i, c) /\ c.readers = list[i].readers /\ c.rows = list[i].rows
                 /\ c.renamed
    BY <1>0, <1>1, <2>1, <2>2, EditedName
  <2>6. PICK e : e = [d EXCEPT !.legacy = 0]
    OBVIOUS
  <2>7. e.id = d.id /\ e.legacy = 0 /\ e.current = d.current
    BY <1>4, <2>1, <2>6, ListStateChanged
  <2>8. PICK k : k = [j EXCEPT !.doc = e]
    OBVIOUS
  <2>9. Alike(k, j) /\ k.doc = e
    <3>1. Alike(k, j)
      BY <1>1, <2>8, JobFields
    <3>2. k.doc = e
      BY <1>1, <2>8 DEF Job
    <3> QED
      BY <3>1, <3>2
  <2>10. Go(h, "drop legacy", k)
    <3>1. k = [j EXCEPT !.doc.legacy = 0]
      BY <1>3, <2>6, <2>8
    <3> QED
      BY <1>0, <1>17, <3>1, SameGoes DEF L!RenameLegacy
  <2>11. k.doc.id = j.doc.id /\ k.doc.legacy = 0 /\ k.doc.current = j.doc.current
    BY <1>3, <2>7, <2>9
  <2>12. Edited(j.doc.legacy, c)
    BY <1>3, <2>2, <2>3
  <2>13. /\ c.readers = list[j.doc.legacy].readers /\ c.rows = list[j.doc.legacy].rows
         /\ c.renamed
    BY <1>3, <2>2, <2>3
  <2>14. ListRenamed(h)
    BY <1>0, <2>1, <2>9, <2>10, <2>11, <2>12, <2>13, Zenon DEF ListRenamed
  <2> QED
    BY <2>14 DEF SyncShape
<1>18. CASE L!AddRows(h) \/ L!DeleteRows(h)
  <2>1. /\ at[h] \in ListUse /\ UNCHANGED <<listDoc, guard>>
        /\ \/ list' = [list EXCEPT ![d.id].rows = @ \cup L!Wanted(h)]
           \/ list' = [list EXCEPT ![d.id].rows = @ \cap L!Wanted(h)]
        /\ \/ at[h] = "add rows" /\ Go(h, "delete rows", j)
           \/ at[h] = "delete rows" /\ Go(h, "release list", j)
    BY <1>0, <1>3, <1>18, SameGoes DEF L!AddRows, L!DeleteRows, ListUse
  <2>2. PICK i \in 1..n : i = d.id
    BY <1>5, <2>1
  <2>3. PICK r \in {list[i].rows \cup L!Wanted(h), list[i].rows \cap L!Wanted(h)} :
          list' = [list EXCEPT ![i].rows = r]
    BY <2>1, <2>2
  <2>4. r \in SUBSET (Accounts \cup {All, Shared}) /\ r \subseteq list[i].rows \cup L!Wanted(h)
    BY <1>2, <1>7, <2>3
  <2>5. PICK c : /\ Edited(i, c) /\ c.readers = list[i].readers /\ c.rows = r
                 /\ c.renamed = list[i].renamed
    BY <1>0, <1>1, <2>1, <2>3, <2>4, EditedRows
  <2>6. ListFilled(h)
    BY <1>0, <1>3, <2>1, <2>2, <2>4, <2>5 DEF ListFilled
  <2> QED
    BY <2>6 DEF SyncShape
<1> QED
  BY <1>10, <1>11, <1>12, <1>13, <1>14, <1>15, <1>16, <1>17, <1>18
     DEF L!ListStep, ListSync, L!AcquireChannel, L!ReadLegacy, L!CloseLegacy, L!ClearLegacy,
         L!MarkLegacy, L!SetGuard, L!ForgetLegacy, L!ReleaseChannel, L!FindList, L!CloseList,
         L!ForgetList

\* What the steps of the migration and of a revocation do to the Lists.
ChannelGoes(h) ==
  /\ Kept
  /\ \/ Go(h, "idle", NoJob)
     \/ at[h] = "acquire channel" /\ Go(h, "read legacy", job[h])
     \/ \E p \in {"release list", "read list"} : \E k :
          Go(h, p, k) /\ k.user = None /\ k.key = Shared

ChannelRead(h) ==
  /\ at[h] = "read legacy" /\ Kept
  /\ \E p, k : /\ Go(h, p, k) /\ k.user = None /\ k.doc = listDoc[Channel]
               /\ \/ p = "set guard" /\ k.doc.id = 0
                  \/ p = "close legacy" /\ k.ids = L!Legacies(k.doc)

ChannelClosed(h) ==
  \E c : LET b == list[Head(job[h].ids)]
         IN  /\ Edited(Head(job[h].ids), c)
             /\ c.readers \subseteq b.readers /\ c.rows \subseteq b.rows /\ c.renamed = b.renamed
             /\ \/ at[h] = "close legacy" /\ Go(h, "clear legacy", job[h])
                \/ at[h] = "clear legacy" /\ Go(h, "mark legacy", job[h])

ChannelMarked(h) ==
  /\ at[h] = "mark legacy"
  /\ \E c, p, k : LET b == list[Head(job[h].ids)]
                  IN  /\ Edited(Head(job[h].ids), c)
                      /\ c.readers = b.readers /\ c.rows = b.rows /\ c.renamed
                      /\ Go(h, p, k) /\ k.user = None /\ k.doc = job[h].doc
                      /\ k.ids = Tail(job[h].ids)
                      /\ \/ p = "set guard" /\ Len(job[h].ids) = 1
                         \/ p = "close legacy" /\ Len(job[h].ids) # 1

ChannelGuarded(h) ==
  /\ at[h] = "set guard" /\ guard' = TRUE /\ UNCHANGED <<list, listDoc>>
  /\ \E p \in {"release channel", "forget legacy"} : Go(h, p, job[h])

ChannelForgotten(h) ==
  /\ at[h] = "forget legacy" /\ Stored(Channel, L!NoList) /\ Go(h, "release channel", job[h])

ChannelShape(h) ==
  \/ ChannelGoes(h) \/ ChannelRead(h) \/ ChannelClosed(h) \/ ChannelMarked(h)
  \/ ChannelGuarded(h) \/ ChannelForgotten(h)

LEMMA ChannelShapes ==
  ASSUME AccountsAssumption, TypeInv, NEW h \in Handlers, at[h] \in Migrating, L!ListStep(h)
  PROVE  ChannelShape(h)
<1>0. PICK j, n : j = job[h] /\ n = Len(list)
  OBVIOUS
<1>1. JobOK(at[h], j) /\ j \in Job /\ ListOK /\ n \in Nat
  BY <1>0, InHand, Lengths DEF TypeInv
<1>2. j.user = None /\ ((j.key = None /\ j.then = "idle") \/ (j.key = Shared /\ j.then = "release list"))
  BY <1>0, <1>1 DEF JobOK, ListJob, ForShared
<1>3. at[h] \in {"close legacy", "clear legacy", "mark legacy"} => Head(j.ids) \in 1..n
  <2>1. SUFFICES ASSUME at[h] \in {"close legacy", "clear legacy", "mark legacy"}
                 PROVE  Head(j.ids) \in 1..n
    OBVIOUS
  <2>2. PICK s : s = j.ids
    OBVIOUS
  <2>3. s # <<>> /\ s \in Seq(Nat) /\ \A i \in DOMAIN s : s[i] \in 1..n
    BY <1>0, <1>1, <2>1, <2>2 DEF JobOK, ListJob, Job, L!MigrationPlaces
  <2> QED
    BY <1>1, <2>2, <2>3, TailRanges
<1>4. CASE L!AcquireChannel(h)
  <2>1. /\ Kept /\ at[h] = "acquire channel"
        /\ Go(h, "read legacy", j) \/ L!Leave(h, j.then)
    BY <1>0, <1>4, SameGoes DEF L!AcquireChannel, L!lists, Kept
  <2>2. \/ Go(h, "read legacy", j) \/ Go(h, "idle", NoJob)
        \/ j.key = Shared /\ Go(h, "release list", j)
    BY <1>0, <1>2, <2>1, SameGoes
  <2> QED
    BY <1>0, <1>2, <2>1, <2>2 DEF ChannelShape, ChannelGoes
<1>5. CASE L!ReadLegacy(h)
  <2>1. at[h] = "read legacy" /\ Kept
    BY <1>5 DEF L!ReadLegacy, Kept
  <2>2. PICK d, s : /\ d = listDoc[Channel]
                    /\ s = IF d.id = 0 THEN <<>> ELSE L!Legacies(d)
    OBVIOUS
  <2>3. PICK k : k = [j EXCEPT !.doc = d, !.ids = s]
    OBVIOUS
  <2>4. k.user = j.user /\ k.doc = d /\ k.ids = s
    BY <1>1, <2>3 DEF Job
  <2>5. Go(h, IF d.id = 0 THEN "set guard" ELSE "close legacy", k)
    BY <1>0, <1>5, <2>2, <2>3, SameGoes DEF L!ReadLegacy
  <2>6. \/ Go(h, "set guard", k) /\ k.doc.id = 0
        \/ Go(h, "close legacy", k) /\ k.ids = L!Legacies(k.doc)
    BY <2>2, <2>4, <2>5
  <2> QED
    BY <1>2, <2>1, <2>2, <2>4, <2>6 DEF ChannelShape, ChannelRead
<1>6. CASE L!CloseLegacy(h) \/ L!ClearLegacy(h)
  <2>1. /\ at[h] \in {"close legacy", "clear legacy"} /\ UNCHANGED <<listDoc, guard>>
        /\ \/ list' = [list EXCEPT ![Head(j.ids)].readers = @ \ {Channel}]
           \/ list' = [list EXCEPT ![Head(j.ids)].rows = {}]
        /\ \/ at[h] = "close legacy" /\ Go(h, "clear legacy", j)
           \/ at[h] = "clear legacy" /\ Go(h, "mark legacy", j)
    BY <1>0, <1>6, SameGoes DEF L!CloseLegacy, L!ClearLegacy
  <2>2. PICK i \in 1..n : i = Head(j.ids)
    BY <1>3, <2>1
  <2>3. PICK b : b = list[i]
    OBVIOUS
  <2>4. b.readers \in SUBSET (Users \cup {Channel}) /\ b.rows \in SUBSET (Accounts \cup {All, Shared})
    BY <1>0, <1>1, <2>3, ListAt
  <2>5. \E c : /\ Edited(i, c) /\ c.readers \subseteq b.readers /\ c.rows \subseteq b.rows
               /\ c.renamed = b.renamed
    <3>1. CASE list' = [list EXCEPT ![Head(j.ids)].readers = @ \ {Channel}]
      <4>1. PICK r : r = b.readers \ {Channel}
        OBVIOUS
      <4>2. list' = [list EXCEPT ![i].readers = r] /\ r \in SUBSET (Users \cup {Channel})
        BY <2>2, <2>3, <2>4, <3>1, <4>1
      <4>3. PICK c : /\ Edited(i, c) /\ c.readers = r /\ c.rows = list[i].rows
                     /\ c.renamed = list[i].renamed
        BY <1>0, <1>1, <2>1, <4>2, EditedReaders
      <4> QED
        BY <2>3, <4>1, <4>3
    <3>2. CASE list' = [list EXCEPT ![Head(j.ids)].rows = {}]
      <4>1. PICK r \in SUBSET (Accounts \cup {All, Shared}) : r = {}
        OBVIOUS
      <4>2. list' = [list EXCEPT ![i].rows = r]
        BY <2>2, <3>2, <4>1
      <4>3. PICK c : /\ Edited(i, c) /\ c.readers = list[i].readers /\ c.rows = r
                     /\ c.renamed = list[i].renamed
        BY <1>0, <1>1, <2>1, <4>2, EditedRows
      <4> QED
        BY <2>3, <4>1, <4>3
    <3> QED
      BY <2>1, <3>1, <3>2
  <2>6. ChannelClosed(h)
    BY <1>0, <2>1, <2>2, <2>3, <2>5 DEF ChannelClosed
  <2> QED
    BY <2>6 DEF ChannelShape
<1>7. CASE L!MarkLegacy(h)
  <2>1. /\ at[h] = "mark legacy" /\ UNCHANGED <<listDoc, guard>>
        /\ list' = [list EXCEPT ![Head(j.ids)].renamed = TRUE]
    BY <1>0, <1>7 DEF L!MarkLegacy
  <2>2. PICK i \in 1..n : i = Head(j.ids)
    BY <1>3, <2>1
  <2>3. PICK c : /\ Edited(i, c) /\ c.readers = list[i].readers /\ c.rows = list[i].rows
                 /\ c.renamed
    BY <1>0, <1>1, <2>1, <2>2, EditedName
  <2>4. PICK s, t : s = j.ids /\ t = Tail(s)
    OBVIOUS
  <2>5. PICK k : k = [j EXCEPT !.ids = t]
    OBVIOUS
  <2>6. k.user = j.user /\ k.doc = j.doc /\ k.ids = t
    BY <1>1, <2>5 DEF Job
  <2>7. PICK p : /\ Go(h, p, k)
                 /\ p = IF Len(s) = 1 THEN "set guard" ELSE "close legacy"
    BY <1>0, <1>7, <2>4, <2>5, SameGoes DEF L!MarkLegacy
  <2>8. \/ p = "set guard" /\ Len(s) = 1
        \/ p = "close legacy" /\ Len(s) # 1
    BY <2>7
  <2>9. ChannelMarked(h)
    BY <1>0, <1>2, <2>1, <2>2, <2>3, <2>4, <2>6, <2>7, <2>8 DEF ChannelMarked
  <2> QED
    BY <2>9 DEF ChannelShape
<1>8. CASE L!SetGuard(h)
  <2>1. /\ at[h] = "set guard" /\ guard' = TRUE /\ UNCHANGED <<list, listDoc>>
        /\ Go(h, "release channel", j) \/ Go(h, "forget legacy", j)
    BY <1>0, <1>8, SameGoes DEF L!SetGuard
  <2> QED
    BY <1>0, <2>1 DEF ChannelShape, ChannelGuarded
<1>9. CASE L!ForgetLegacy(h)
  BY <1>0, <1>9, SameGoes DEF L!ForgetLegacy, L!StoreList, Stored, ChannelShape, ChannelForgotten
<1>10. CASE L!ReleaseChannel(h)
  <2>1. Kept
    BY <1>10 DEF L!ReleaseChannel, L!lists, Kept
  <2>2. PICK k : k = [j EXCEPT !.doc = None]
    OBVIOUS
  <2>3. k.user = j.user /\ k.key = j.key
    BY <1>1, <2>2 DEF Job
  <2>4. Go(h, "idle", NoJob) \/ (j.key = Shared /\ Go(h, "read list", k))
    BY <1>0, <1>10, <2>2, SameGoes DEF L!ReleaseChannel
  <2> QED
    BY <1>2, <2>1, <2>3, <2>4 DEF ChannelShape, ChannelGoes
<1> QED
  BY <1>4, <1>5, <1>6, <1>7, <1>8, <1>9, <1>10
     DEF L!ListStep, Migrating, L!MigrationPlaces, L!AcquireList, L!CheckGuard, L!ReadList,
         L!CreateList, L!NoteList, L!ShareList, L!RecordList, L!ShareWithRequester,
         L!RenameLegacy, L!DropLegacy, L!AddRows, L!DeleteRows, L!ReleaseList, L!FindList,
         L!CloseList, L!ForgetList

RevokeGoes(h) ==
  /\ at[h] = "revoke list" /\ Kept /\ listDoc[job[h].user].id = 0
  /\ \/ Go(h, "idle", NoJob)
     \/ \E p \in {"save", "unlink"} : Go(h, p, job[h])

RevokeFound(h) ==
  /\ at[h] = "revoke list" /\ Kept
  /\ \E k : Go(h, "close list", k) /\ Alike(k, job[h]) /\ k.doc = listDoc[job[h].user]

RevokeClosed(h) ==
  /\ at[h] = "close list" /\ Go(h, "forget list", job[h])
  /\ \E c : LET b == list[job[h].doc.id]
            IN  /\ Edited(job[h].doc.id, c)
                /\ c.readers = b.readers \ {job[h].user}
                /\ c.rows = b.rows /\ c.renamed = b.renamed

RevokeForgot(h) ==
  /\ at[h] = "forget list" /\ Stored(job[h].user, L!NoList)
  /\ \/ Go(h, "idle", NoJob)
     \/ \E p \in {"save", "unlink"} : \E k : Go(h, p, k) /\ Alike(k, job[h])

RevokeShape(h) == RevokeGoes(h) \/ RevokeFound(h) \/ RevokeClosed(h) \/ RevokeForgot(h)

LEMMA RevokeShapes ==
  ASSUME AccountsAssumption, TypeInv, NEW h \in Handlers,
         L!FindList(h) \/ L!CloseList(h) \/ L!ForgetList(h)
  PROVE  job[h].user \in Users /\ RevokeShape(h)
<1>0. PICK j, n : j = job[h] /\ n = Len(list)
  OBVIOUS
<1>1. JobOK(at[h], j) /\ j \in Job /\ ListOK /\ n \in Nat
  BY <1>0, InHand, Lengths DEF TypeInv
<1>2. at[h] \in {"revoke list", "close list", "forget list"}
  BY DEF L!FindList, L!CloseList, L!ForgetList
<1>3. j.then \in {"idle", "save", "unlink"} /\ j.user \in Users
  BY <1>1, <1>2 DEF JobOK, LinkJob, Revoking
<1>4. CASE L!FindList(h)
  <2>1. at[h] = "revoke list" /\ Kept
    BY <1>4 DEF L!FindList, Kept
  <2>2. PICK d : d = listDoc[j.user]
    OBVIOUS
  <2>3. PICK k : k = [j EXCEPT !.doc = d]
    OBVIOUS
  <2>4. Alike(k, j)
    BY <1>1, <2>3, JobFields
  <2>5. k.doc = d
    BY <1>1, <2>3 DEF Job
  <2>6. \/ d.id = 0 /\ L!Leave(h, j.then)
        \/ d.id # 0 /\ Go(h, "close list", k)
    BY <1>0, <1>4, <2>2, <2>3, SameGoes DEF L!FindList
  <2>7. L!Leave(h, j.then) => Go(h, "idle", NoJob) \/ \E p \in {"save", "unlink"} : Go(h, p, j)
    BY <1>0, <1>3, SameGoes
  <2> QED
    BY <1>0, <1>3, <2>1, <2>2, <2>4, <2>5, <2>6, <2>7 DEF RevokeShape, RevokeGoes, RevokeFound
<1>5. CASE L!CloseList(h)
  <2>1. /\ at[h] = "close list" /\ UNCHANGED <<listDoc, guard>>
        /\ list' = [list EXCEPT ![j.doc.id].readers = @ \ {j.user}]
        /\ Go(h, "forget list", j)
    BY <1>0, <1>5, SameGoes DEF L!CloseList, L!Doc
  <2>2. PICK i \in 1..n : i = j.doc.id
    <3>1. j.doc \in ListState /\ j.doc.id <= n /\ j.doc.id # 0
      BY <1>0, <1>1, <2>1 DEF JobOK, ListJob
    <3>2. PICK i : i = j.doc.id
      OBVIOUS
    <3>3. i \in Nat /\ i <= n /\ i # 0
      BY <3>1, <3>2, ListFields
    <3> QED
      BY <1>1, <3>2, <3>3
  <2>3. PICK r : r = list[i].readers \ {j.user}
    OBVIOUS
  <2>4. r \in SUBSET (Users \cup {Channel}) /\ list' = [list EXCEPT ![i].readers = r]
    BY <1>0, <1>1, <2>1, <2>2, <2>3, ListAt
  <2>5. PICK c : /\ Edited(i, c) /\ c.readers = r /\ c.rows = list[i].rows
                 /\ c.renamed = list[i].renamed
    BY <1>0, <1>1, <2>1, <2>4, EditedReaders
  <2>6. RevokeClosed(h)
    BY <1>0, <2>1, <2>2, <2>3, <2>5 DEF RevokeClosed
  <2> QED
    BY <1>0, <1>3, <2>6 DEF RevokeShape
<1>6. CASE L!ForgetList(h)
  <2>1. at[h] = "forget list" /\ Stored(j.user, L!NoList)
    BY <1>0, <1>6 DEF L!ForgetList, L!StoreList, Stored
  <2>2. PICK k : k = [j EXCEPT !.doc = None]
    OBVIOUS
  <2>3. Alike(k, j)
    BY <1>1, <2>2, JobFields
  <2>4. Go(h, "idle", NoJob) \/ \E p \in {"save", "unlink"} : Go(h, p, k)
    BY <1>0, <1>3, <1>6, <2>2, SameGoes DEF L!ForgetList
  <2> QED
    BY <1>0, <1>3, <2>1, <2>3, <2>4 DEF RevokeShape, RevokeForgot
<1> QED
  BY <1>4, <1>5, <1>6

-----------------------------------------------------------------------------
(* Whose a List is. *)

\* Where a handler knows nothing of the Lists.
OffLists == Plain \cup CanvasSync \cup (LinkPlaces \ {"save", "unlink", "remove"})
            \cup {"close canvas", "forget canvas", "revoke list"}

LEMMA CanvasLeads ==
  ASSUME TypeInv, NEW h \in Handlers, C!CanvasStep(h)
  PROVE  \E p \in OffLists : \E j : Go(h, p, j)
<1>1. CASE at[h] \in CanvasSync
  <2>1. "idle" \in OffLists /\ CanvasSync \subseteq OffLists
    BY DEF OffLists, Plain
  <2> QED
    BY <1>1, <2>1, CanvasPaths
<1>2. CASE C!FindCanvas(h) \/ C!CloseCanvas(h) \/ C!ForgetCanvas(h)
  <2>1. \E p \in {"revoke list", "close canvas", "forget canvas"} : \E j : Go(h, p, j)
    BY <1>2, SameGoes DEF C!FindCanvas, C!CloseCanvas, C!ForgetCanvas
  <2> QED
    BY <2>1 DEF OffLists
<1>3. at[h] \in CanvasSync \/ C!FindCanvas(h) \/ C!CloseCanvas(h) \/ C!ForgetCanvas(h)
  BY DEF C!CanvasStep, CanvasSync, C!CanvasPlaces, Revoking, C!AcquireCanvas, C!ReadCanvas,
     C!CreateCanvas, C!NoteCanvas, C!EditCanvas, C!ShareCanvas, C!RecordCanvas, C!ReleaseCanvas
<1> QED
  BY <1>1, <1>2, <1>3

\* What a step is to the Lists.
LEMMA ListViews ==
  ASSUME TypeInv, [Next]_vars
  PROVE  \/ UNCHANGED <<at, job, identity, list, listDoc, guard>>
         \/ \E h \in Handlers : /\ \E p \in OffLists : \E j : Go(h, p, j)
                                /\ UNCHANGED <<identity, list, listDoc, guard>>
         \/ \E h \in Handlers : LinkStep(h) /\ UNCHANGED <<list, listDoc, guard>>
         \/ \E h \in Handlers : L!ListStep(h) /\ UNCHANGED identity
<1>1. CASE UNCHANGED <<at, job, identity, views>>
  BY <1>1 DEF views
<1>2. ASSUME NEW h \in Handlers, Leads(h), UNCHANGED <<identity, views>>
      PROVE  /\ \E p \in OffLists : \E j : Go(h, p, j)
             /\ UNCHANGED <<identity, list, listDoc, guard>>
  BY <1>2 DEF Leads, OffLists, views
<1>3. ASSUME NEW h \in Handlers, C!CanvasStep(h), UNCHANGED <<identity, list, listDoc, guard>>
      PROVE  /\ \E p \in OffLists : \E j : Go(h, p, j)
             /\ UNCHANGED <<identity, list, listDoc, guard>>
  BY <1>3, CanvasLeads
<1> QED
  BY <1>1, <1>2, <1>3, NextViews DEF ViewKinds, views

\* A List, or none, of a key, and a document that names only such.
Keyed(i, k) == i = 0 \/ (i \in 1..Len(list) /\ list[i].key = k)

KeyedDoc(d, k) ==
  /\ Keyed(d.id, k) /\ Keyed(d.legacy, k)
  /\ k # Channel => d.legacy = 0
  /\ ~d.current => d.legacy = 0 /\ (k # Channel => d.id = 0)

KeyJob(p, j) ==
  /\ p \in ListUse \/ p = "create list" => KeyedDoc(j.doc, j.key)
  /\ p \in ListUse => j.doc.current
  /\ p = "create list" => ~j.doc.current
  /\ p \in {"close list", "forget list"} => Keyed(j.doc.id, j.user)
  /\ p \in {"close legacy", "clear legacy", "mark legacy"} =>
       \A n \in 1..Len(j.ids) : Keyed(j.ids[n], Channel)

Audience(c) == /\ All \in c.rows => c.key = Channel
               /\ Channel \in c.readers => c.key \in {Channel, Shared}

KeysInv ==
  /\ \A k \in Keys : KeyedDoc(listDoc[k], k)
  /\ \A i \in 1..Len(list) : Audience(list[i])
  /\ \A h \in Handlers : KeyJob(at[h], job[h])

\* Lists are created and changed; none changes hands.
KeysKept ==
  /\ 1..Len(list) \subseteq 1..Len(list')
  /\ \A i \in 1..Len(list) : list'[i].key = list[i].key

LEMMA KeyedStays ==
  ASSUME KeysKept
  PROVE  /\ \A i, k : Keyed(i, k) => Keyed(i, k)'
         /\ \A d, k : KeyedDoc(d, k) => KeyedDoc(d, k)'
         /\ \A p, j : KeyJob(p, j) => KeyJob(p, j)'
<1>1. ASSUME NEW i, NEW k, Keyed(i, k) PROVE Keyed(i, k)'
  BY <1>1 DEF KeysKept, Keyed
<1>2. ASSUME NEW d, NEW k, KeyedDoc(d, k) PROVE KeyedDoc(d, k)'
  BY <1>1, <1>2 DEF KeyedDoc
<1>3. ASSUME NEW p, NEW j, KeyJob(p, j) PROVE KeyJob(p, j)'
  BY <1>1, <1>2, <1>3, Zenon DEF KeyJob
<1> QED
  BY <1>1, <1>2, <1>3

LEMMA KeysChange ==
  ASSUME KeysInv, KeysKept, NEW h \in Handlers, NEW p, NEW j, Go(h, p, j), TypeInv,
         \A k \in Keys : \E d : listDoc'[k] = d /\ (d = listDoc[k] \/ KeyedDoc(d, k)'),
         \A i \in 1..Len(list') : Audience(list'[i]),
         KeyJob(p, j)'
  PROVE  KeysInv'
<1>1. /\ at'[h] = p /\ job'[h] = j
      /\ \A g \in Handlers : g # h => at'[g] = at[g] /\ job'[g] = job[g]
  BY MoveFields
<1>2. ASSUME NEW k \in Keys PROVE KeyedDoc(listDoc[k], k)'
  <2>1. PICK d : listDoc'[k] = d /\ (d = listDoc[k] \/ KeyedDoc(d, k)')
    OBVIOUS
  <2>2. d = listDoc[k] => KeyedDoc(d, k)
    BY DEF KeysInv
  <2>3. KeyedDoc(d, k)'
    BY <2>1, <2>2, KeyedStays
  <2> QED
    BY <2>1, <2>3
<1>3. ASSUME NEW g \in Handlers PROVE KeyJob(at[g], job[g])'
  <2>1. CASE g = h
    BY <1>1, <2>1
  <2>2. CASE g # h
    <3>1. PICK q, i : q = at[g] /\ i = job[g]
      OBVIOUS
    <3>2. at'[g] = q /\ job'[g] = i /\ KeyJob(q, i)
      BY <1>1, <2>2, <3>1 DEF KeysInv
    <3>3. KeyJob(q, i)'
      BY <3>2, KeyedStays
    <3> QED
      BY <3>2, <3>3
  <2> QED
    BY <2>1, <2>2
<1>4. ASSUME NEW i \in (1..Len(list))' PROVE Audience(list[i])'
  <2>1. PICK c : c = list'[i] /\ Audience(c)
    OBVIOUS
  <2>2. Audience(c)'
    BY <2>1 DEF Audience
  <2> QED
    BY <2>1, <2>2
<1> QED
  BY <1>2, <1>3, <1>4 DEF KeysInv

\* What is left of the Lists by a change of one, and by another one.
LEMMA EditedLists ==
  ASSUME ListOK, NEW i, NEW c, Edited(i, c)
  PROVE  /\ Len(list') = Len(list) /\ KeysKept /\ list'[i] = c
         /\ \A x \in 1..Len(list) : x # i => list'[x] = list[x]
         /\ DOMAIN list = 1..Len(list) /\ DOMAIN list' = 1..Len(list)
<1>1. /\ i \in 1..Len(list) /\ c \in List /\ c.key = list[i].key
      /\ list' = [list EXCEPT ![i] = c] /\ list \in Seq(List)
  BY DEF Edited, ListOK
<1>2. Len(list') = Len(list) /\ list' \in Seq(List)
  BY <1>1, ExceptSeq
<1>3. /\ DOMAIN list = 1..Len(list) /\ DOMAIN list' = 1..Len(list)
  BY <1>1, <1>2, LenProperties
<1>4. list'[i] = c /\ \A x \in 1..Len(list) : x # i => list'[x] = list[x]
  BY <1>1, <1>3
<1>5. KeysKept
  <2>1. \A x \in 1..Len(list) : list'[x].key = list[x].key
    BY <1>1, <1>4
  <2> QED
    BY <1>2, <2>1 DEF KeysKept
<1> QED
  BY <1>2, <1>3, <1>4, <1>5

LEMMA AppendedLists ==
  ASSUME ListOK, NEW c \in List, list' = Append(list, c)
  PROVE  /\ Len(list') = Len(list) + 1 /\ KeysKept /\ list'[Len(list) + 1] = c
         /\ Len(list) + 1 \in 1..Len(list') /\ Len(list) + 1 \notin 1..Len(list)
         /\ Len(list) + 1 # 0
         /\ \A x \in 1..Len(list') : x # Len(list) + 1 => x \in 1..Len(list)
         /\ \A x \in 1..Len(list) : x # Len(list) + 1 /\ list'[x] = list[x]
         /\ DOMAIN list = 1..Len(list) /\ DOMAIN list' = 1..Len(list')
<1>1. PICK n : n = Len(list)
  OBVIOUS
<1>2. list \in Seq(List) /\ n \in Nat /\ DOMAIN list = 1..n
  BY <1>1, LenProperties DEF ListOK
<1>3. /\ Len(list') = n + 1 /\ list'[n + 1] = c
      /\ \A x \in 1..n : list'[x] = list[x]
      /\ list' \in Seq(List)
  BY <1>1, <1>2, AppendProperties
<1>4. /\ \A x \in 1..(n + 1) : x # n + 1 => x \in 1..n
      /\ \A x \in 1..n : x # n + 1 /\ x \in 1..(n + 1)
      /\ n + 1 \in 1..(n + 1) /\ n + 1 # 0
  BY <1>2
<1>5. DOMAIN list' = 1..(n + 1)
  BY <1>3, LenProperties
<1>6. KeysKept
  BY <1>1, <1>3, <1>4 DEF KeysKept
<1> QED
  BY <1>1, <1>2, <1>3, <1>4, <1>5, <1>6

LEMMA OffKeys ==
  ASSUME NEW p \in OffLists, NEW j
  PROVE  KeyJob(p, j)
<1>1. /\ p \notin ListUse /\ p \notin {"create list", "close list", "forget list"}
      /\ p \notin {"close legacy", "clear legacy", "mark legacy"}
  BY DEF OffLists, Plain, CanvasSync, C!CanvasPlaces, Revoking, LinkPlaces, CalendarPlaces,
     ListUse
<1> QED
  BY <1>1 DEF KeyJob

\* The Lists stay, and a handler moves with what is keyed.
LEMMA KeysMove ==
  ASSUME KeysInv, TypeInv, NEW h \in Handlers, NEW p, NEW j, Go(h, p, j),
         UNCHANGED <<list, listDoc>>, KeyJob(p, j)
  PROVE  KeysInv'
<1>1. KeysKept
  BY DEF KeysKept
<1>2. KeyJob(p, j)'
  BY <1>1, KeyedStays
<1> QED
  BY <1>1, <1>2, KeysChange DEF KeysInv

\* One List is changed, for an audience that fits it.
LEMMA KeysEdit ==
  ASSUME KeysInv, TypeInv, NEW h \in Handlers, NEW p, NEW j, Go(h, p, j),
         NEW i, NEW c, Edited(i, c), Audience(c), KeyJob(p, j)
  PROVE  KeysInv'
<1>1. ListOK
  BY DEF TypeInv
<1>2. KeysKept /\ \A x \in 1..Len(list') : Audience(list'[x])
  BY <1>1, EditedLists DEF KeysInv, Edited
<1>3. KeyJob(p, j)'
  BY <1>2, KeyedStays
<1> QED
  BY <1>2, <1>3, KeysChange DEF Edited

\* A document of its key is stored.
LEMMA KeysStore ==
  ASSUME KeysInv, TypeInv, NEW h \in Handlers, NEW p, NEW j, Go(h, p, j),
         NEW k \in Keys, NEW d, Stored(k, d), KeyedDoc(d, k), KeyJob(p, j)
  PROVE  KeysInv'
<1>1. UNCHANGED list /\ listDoc' = [listDoc EXCEPT ![k] = d] /\ DOMAIN listDoc = Keys
  BY DEF Stored, TypeInv, ListOK
<1>2. KeysKept
  BY <1>1 DEF KeysKept
<1>3. KeyJob(p, j)' /\ KeyedDoc(d, k)'
  BY <1>2, KeyedStays
<1>4. ASSUME NEW m \in Keys
      PROVE  \E e : listDoc'[m] = e /\ (e = listDoc[m] \/ KeyedDoc(e, m)')
  <2>1. CASE m = k
    BY <1>1, <1>3, <2>1
  <2>2. CASE m # k
    BY <1>1, <2>2
  <2> QED
    BY <2>1, <2>2
<1>5. \A i \in 1..Len(list') : Audience(list'[i])
  BY <1>1 DEF KeysInv
<1> QED
  BY <1>2, <1>3, <1>4, <1>5, KeysChange

LEMMA KeyedSame ==
  ASSUME NEW j, NEW k, Alike(j, k), SameDoc(j, k)
  PROVE  \A p \in ListUse : KeyedDoc(k.doc, k.key) /\ k.doc.current => KeyJob(p, j)
<1>1. \A p \in ListUse : /\ p \notin {"create list", "close list", "forget list"}
                         /\ p \notin {"close legacy", "clear legacy", "mark legacy"}
  BY DEF ListUse
<1>2. KeyedDoc(k.doc, k.key) => KeyedDoc(j.doc, j.key)
  BY DEF KeyedDoc, Alike, SameDoc
<1> QED
  BY <1>1, <1>2, Zenon DEF KeyJob, SameDoc

LEMMA KeysSync ==
  ASSUME AccountsAssumption, TypeInv, KeysInv, NEW h \in Handlers, at[h] \in ListSync,
         L!ListStep(h)
  PROVE  KeysInv'
<1>0. PICK j, n : j = job[h] /\ n = Len(list)
  OBVIOUS
<1>1. JobOK(at[h], j) /\ j \in Job /\ ListOK /\ n \in Nat /\ KeyJob(at[h], j)
  BY <1>0, InHand, Lengths DEF TypeInv, KeysInv
<1>2. j.key \in Keys /\ (Personal(j) \/ ForChannel(j) \/ ForShared(j))
  BY <1>0, <1>1, ListJobs DEF JobOK, ListJob
<1>3. SameDoc(j, j) /\ Alike(j, j)
  BY <1>1, JobFields DEF SameDoc
<1>4. at[h] \in ListUse => KeyedDoc(j.doc, j.key) /\ j.doc.current /\ j.doc.id # 0
  BY <1>1 DEF KeyJob, JobOK, ListJob, ListUse
<1>5. at[h] \in ListUse => /\ j.doc.id \in 1..n /\ list[j.doc.id].key = j.key
                           /\ Audience(list[j.doc.id])
  BY <1>0, <1>4 DEF KeyedDoc, Keyed, KeysInv
<1>6. ASSUME NEW p \in ListUse, at[h] \in ListUse PROVE KeyJob(p, j)
  BY <1>3, <1>4, <1>6, KeyedSame
<1>7. {"note list", "share list", "record list", "share with requester", "rename legacy",
       "drop legacy", "add rows", "delete rows"} = ListUse
  BY DEF ListUse
<1>8. \A p \in {"idle", "check guard", "read list", "release list", "acquire channel"} : \A k : KeyJob(p, k)
  BY DEF KeyJob, ListUse
<1>10. CASE ListGoes(h)
  <2>1. PICK p \in {"idle", "check guard", "read list", "release list", "acquire channel"} :
          \E k : Go(h, p, k)
    BY <1>10 DEF ListGoes
  <2>2. PICK k : Go(h, p, k)
    BY <2>1
  <2>3. KeyJob(p, k)
    BY <1>8
  <2> QED
    BY <1>10, <2>2, <2>3, KeysMove DEF ListGoes, Kept
<1>11. CASE ListRead(h)
  <2>1. PICK p, k : /\ Kept /\ Go(h, p, k) /\ Alike(k, j) /\ k.doc = listDoc[j.key]
                    /\ \/ p = "create list" /\ ~k.doc.current
                       \/ p \in {"share list", "share with requester"} /\ k.doc.current
    BY <1>0, <1>11 DEF ListRead
  <2>2. KeyedDoc(k.doc, k.key)
    BY <1>2, <2>1 DEF KeysInv, Alike
  <2>3. KeyJob(p, k)
    BY <2>1, <2>2 DEF KeyJob, ListUse
  <2> QED
    BY <2>1, <2>3, KeysMove DEF Kept
<1>12. CASE ListMade(h)
  <2>1. PICK c, k : /\ c \in List /\ c.key = j.key /\ c.readers = {} /\ c.rows = {}
                    /\ list' = Append(list, c)
                    /\ Go(h, "note list", k) /\ Alike(k, j)
                    /\ k.doc.id = n + 1 /\ k.doc.legacy = j.doc.id
                    /\ k.doc.current
    BY <1>0, <1>12 DEF ListMade
  <2>2. at[h] = "create list" /\ UNCHANGED listDoc
    BY <1>12 DEF ListMade
  <2>3. /\ KeysKept /\ list'[n + 1] = c /\ n + 1 \in 1..Len(list')
        /\ \A x \in 1..Len(list') : x # n + 1 => x \in 1..n
        /\ \A x \in 1..n : list'[x] = list[x]
    BY <1>0, <1>1, <2>1, AppendedLists
  <2>4. \A x \in 1..Len(list') : Audience(list'[x])
    <3>1. Audience(c)
      BY <2>1 DEF Audience
    <3>2. ASSUME NEW x \in 1..Len(list') PROVE Audience(list'[x])
      BY <1>0, <2>3, <3>1 DEF KeysInv
    <3> QED
      BY <3>2
  <2>5. PICK d, m : d = k.doc /\ m = n + 1
    OBVIOUS
  <2>6. d.id = m /\ d.legacy = j.doc.id /\ d.current /\ k.key = j.key
    BY <2>1, <2>5 DEF Alike
  <2>7. KeyedDoc(d, j.key)'
    <3>1. KeyedDoc(j.doc, j.key) /\ ~j.doc.current
      BY <1>1, <2>2 DEF KeyJob
    <3>2. KeyedDoc(j.doc, j.key)'
      BY <2>3, <3>1, KeyedStays
    <3>3. Keyed(m, j.key)'
      BY <2>1, <2>3, <2>5 DEF Keyed
    <3>4. Keyed(d.legacy, j.key)'
      BY <2>6, <3>2 DEF KeyedDoc
    <3>5. j.key # Channel => d.legacy = 0
      BY <2>6, <3>1 DEF KeyedDoc
    <3> QED
      BY <2>6, <3>3, <3>4, <3>5 DEF KeyedDoc
  <2>8. KeyJob("note list", k)'
    BY <2>5, <2>6, <2>7 DEF KeyJob
  <2> QED
    BY <2>1, <2>2, <2>3, <2>4, <2>8, KeysChange
<1>13. CASE ListWritten(h)
  <2>1. at[h] \in ListUse /\ Stored(j.key, j.doc)
    BY <1>0, <1>7, <1>13 DEF ListWritten
  <2>2. PICK p \in ListUse : Go(h, p, j)
    BY <1>0, <1>7, <1>13 DEF ListWritten
  <2> QED
    BY <1>2, <1>4, <1>6, <2>1, <2>2, KeysStore
<1>14. CASE ListShared(h)
  <2>1. PICK c, k : LET b == list[j.doc.id]
                    IN  /\ Edited(j.doc.id, c)
                        /\ c.readers = b.readers \cup {L!Target(j.key)}
                        /\ c.rows = b.rows
                        /\ Go(h, "record list", k) /\ Alike(k, j) /\ SameDoc(k, j)
    BY <1>0, <1>14 DEF ListShared
  <2>2. at[h] \in ListUse
    BY <1>7, <1>14 DEF ListShared
  <2>3. KeyJob("record list", k)
    BY <1>4, <1>7, <2>1, <2>2, KeyedSame
  <2>4. L!Target(j.key) = Channel => j.key \in {Channel, Shared}
    BY DEF L!Target
  <2>5. c.key = j.key
    BY <1>5, <2>1, <2>2 DEF Edited
  <2>6. Audience(c)
    BY <1>5, <2>1, <2>2, <2>4, <2>5 DEF Audience
  <2> QED
    BY <2>1, <2>3, <2>6, KeysEdit
<1>15. CASE ListAsked(h)
  <2>1. PICK c : LET b == list[j.doc.id]
                 IN  /\ Edited(j.doc.id, c)
                     /\ c.readers = b.readers \cup L!Requester(h)
                     /\ c.rows = b.rows
    BY <1>0, <1>15 DEF ListAsked
  <2>2. PICK p \in ListUse : Go(h, p, j)
    BY <1>0, <1>7, <1>15 DEF ListAsked
  <2>3. at[h] \in ListUse
    BY <1>7, <1>15 DEF ListAsked
  <2>4. Channel \notin L!Requester(h)
    BY <1>0, ListJobs DEF AccountsAssumption
  <2>5. c.key = list[j.doc.id].key
    BY <2>1 DEF Edited
  <2>6. Audience(c)
    BY <1>5, <2>1, <2>3, <2>4, <2>5 DEF Audience
  <2> QED
    BY <1>6, <2>1, <2>2, <2>3, <2>6, KeysEdit
<1>16. CASE ListRenamed(h)
  <2>1. PICK c, k : LET b == list[j.doc.legacy]
                    IN  /\ Edited(j.doc.legacy, c)
                        /\ c.readers = b.readers /\ c.rows = b.rows
                        /\ Go(h, "drop legacy", k) /\ Alike(k, j)
                        /\ k.doc.id = j.doc.id /\ k.doc.legacy = 0
                        /\ k.doc.current = j.doc.current
    BY <1>0, <1>16 DEF ListRenamed
  <2>2. at[h] \in ListUse
    BY <1>7, <1>16 DEF ListRenamed
  <2>3. KeyedDoc(k.doc, k.key) /\ k.doc.current
    BY <1>4, <2>1, <2>2 DEF KeyedDoc, Keyed, Alike
  <2>4. KeyJob("drop legacy", k)
    BY <2>3 DEF KeyJob, ListUse
  <2>5. c.key = list[j.doc.legacy].key /\ Audience(list[j.doc.legacy])
    BY <2>1 DEF Edited, KeysInv
  <2>6. Audience(c)
    BY <2>1, <2>5 DEF Audience
  <2> QED
    BY <2>1, <2>4, <2>6, KeysEdit
<1>17. CASE ListFilled(h)
  <2>1. PICK c : LET b == list[j.doc.id]
                 IN  /\ Edited(j.doc.id, c)
                     /\ c.readers = b.readers
                     /\ c.rows \subseteq b.rows \cup L!Wanted(h)
    BY <1>0, <1>17 DEF ListFilled
  <2>2. at[h] \in ListUse
    BY <1>7, <1>17 DEF ListFilled
  <2>3. All \in L!Wanted(h) => j.key = Channel
    <3>1. CASE j.key = Shared
      BY <1>0, <3>1 DEF L!Wanted, AccountsAssumption
    <3>2. CASE j.key \notin {Channel, Shared}
      <4>1. j.login \in Accounts
        BY <1>2, <3>2 DEF Personal, ForChannel, ForShared
      <4> QED
        BY <1>0, <3>2, <4>1 DEF L!Wanted, AccountsAssumption
    <3> QED
      BY <3>1, <3>2
  <2>4. c.key = j.key
    BY <1>5, <2>1, <2>2 DEF Edited
  <2>5. Audience(c)
    BY <1>5, <2>1, <2>2, <2>3, <2>4 DEF Audience
  <2>6. Go(h, "delete rows", j) \/ Go(h, "release list", j)
    BY <1>0, <1>17 DEF ListFilled
  <2>7. KeyJob("delete rows", j) /\ KeyJob("release list", j)
    BY <1>6, <1>7, <1>8, <2>2
  <2> QED
    BY <2>1, <2>5, <2>6, <2>7, KeysEdit
<1> QED
  BY <1>10, <1>11, <1>12, <1>13, <1>14, <1>15, <1>16, <1>17, SyncShapes DEF SyncShape

LEMMA KeysChannel ==
  ASSUME AccountsAssumption, TypeInv, KeysInv, NEW h \in Handlers, at[h] \in Migrating,
         L!ListStep(h)
  PROVE  KeysInv'
<1>0. PICK j, n : j = job[h] /\ n = Len(list)
  OBVIOUS
<1>1. JobOK(at[h], j) /\ j \in Job /\ ListOK /\ n \in Nat /\ KeyJob(at[h], j)
  BY <1>0, InHand, Lengths DEF TypeInv, KeysInv
<1>2. \A p \in {"idle", "read legacy", "release list", "read list", "set guard", "forget legacy",
                "release channel"} : \A k : KeyJob(p, k)
  BY DEF KeyJob, ListUse
<1>3. ASSUME NEW p \in {"close legacy", "clear legacy", "mark legacy"}, NEW k,
             \A m \in 1..Len(k.ids) : Keyed(k.ids[m], Channel)
      PROVE  KeyJob(p, k)
  BY <1>3 DEF KeyJob, ListUse
<1>4. at[h] \in {"close legacy", "clear legacy", "mark legacy"} =>
        /\ \A m \in 1..Len(j.ids) : Keyed(j.ids[m], Channel)
        /\ j.ids # <<>> /\ j.ids \in Seq(Nat)
  BY <1>1 DEF KeyJob, JobOK, ListJob, Job
<1>5. CASE ChannelGoes(h)
  <2>1. PICK p \in {"idle", "read legacy", "release list", "read list"} : \E k : Go(h, p, k)
    BY <1>5 DEF ChannelGoes
  <2>2. PICK k : Go(h, p, k)
    BY <2>1
  <2>3. KeyJob(p, k)
    BY <1>2
  <2> QED
    BY <1>5, <2>2, <2>3, KeysMove DEF ChannelGoes, Kept
<1>6. CASE ChannelRead(h)
  <2>1. PICK p, k : /\ Kept /\ Go(h, p, k) /\ k.doc = listDoc[Channel]
                    /\ \/ p = "set guard"
                       \/ p = "close legacy" /\ k.ids = L!Legacies(k.doc)
    BY <1>6 DEF ChannelRead
  <2>2. CASE p = "close legacy"
    <3>1. PICK d : d = k.doc
      OBVIOUS
    <3>2. Keyed(d.id, Channel) /\ Keyed(d.legacy, Channel)
      BY <2>1, <3>1 DEF KeysInv, KeyedDoc, Keys
    <3>3. PICK s : s = L!Legacies(d)
      OBVIOUS
    <3>4. \A m \in 1..Len(s) : Keyed(s[m], Channel)
      <4>1. CASE d.legacy = 0
        BY <3>2, <3>3, <4>1 DEF L!Legacies
      <4>2. CASE d.legacy # 0
        BY <3>2, <3>3, <4>2 DEF L!Legacies
      <4> QED
        BY <4>1, <4>2
    <3>5. KeyJob(p, k)
      BY <1>3, <2>1, <2>2, <3>1, <3>3, <3>4
    <3> QED
      BY <2>1, <3>5, KeysMove DEF Kept
  <2>3. CASE p = "set guard"
    <3>1. KeyJob(p, k)
      BY <1>2, <2>3
    <3> QED
      BY <2>1, <3>1, KeysMove DEF Kept
  <2> QED
    BY <2>1, <2>2, <2>3
<1>7. CASE ChannelClosed(h)
  <2>1. PICK i : i = Head(j.ids)
    OBVIOUS
  <2>2. PICK c : /\ Edited(i, c) /\ c.readers \subseteq list[i].readers
                 /\ c.rows \subseteq list[i].rows
                 /\ \/ at[h] = "close legacy" /\ Go(h, "clear legacy", j)
                    \/ at[h] = "clear legacy" /\ Go(h, "mark legacy", j)
    BY <1>0, <1>7, <2>1 DEF ChannelClosed
  <2>3. Audience(c)
    BY <2>2 DEF Edited, KeysInv, Audience
  <2>4. PICK p \in {"clear legacy", "mark legacy"} : Go(h, p, j)
    BY <2>2
  <2>5. KeyJob(p, j)
    BY <1>3, <1>4, <2>2
  <2> QED
    BY <2>2, <2>3, <2>4, <2>5, KeysEdit
<1>8. CASE ChannelMarked(h)
  <2>1. PICK i, s, t : i = Head(j.ids) /\ s = j.ids /\ t = Tail(s)
    OBVIOUS
  <2>2. PICK c, p, k : /\ Edited(i, c) /\ c.readers = list[i].readers /\ c.rows = list[i].rows
                       /\ Go(h, p, k) /\ k.ids = t /\ p \in {"set guard", "close legacy"}
    BY <1>0, <1>8, <2>1 DEF ChannelMarked
  <2>3. Audience(c)
    BY <2>2 DEF Edited, KeysInv, Audience
  <2>4. /\ s \in Seq(Nat) /\ s # <<>> /\ \A m \in 1..Len(s) : Keyed(s[m], Channel)
    BY <1>4, <1>8, <2>1 DEF ChannelMarked
  <2>5. \A m \in 1..Len(t) : Keyed(t[m], Channel)
    <3>1. /\ Len(s) \in Nat /\ Len(t) = Len(s) - 1
          /\ \A m \in 1..Len(t) : t[m] = s[m + 1]
      BY <2>1, <2>4, HeadTailProperties, LenProperties
    <3>2. \A m \in 1..Len(t) : m + 1 \in 1..Len(s)
      BY <3>1
    <3> QED
      BY <2>4, <3>1, <3>2
  <2>6. KeyJob(p, k)
    BY <1>2, <1>3, <2>2, <2>5
  <2> QED
    BY <2>2, <2>3, <2>6, KeysEdit
<1>9. CASE ChannelGuarded(h)
  <2>1. PICK p \in {"release channel", "forget legacy"} : Go(h, p, j)
    BY <1>0, <1>9 DEF ChannelGuarded
  <2>2. KeyJob(p, j)
    BY <1>2
  <2> QED
    BY <1>9, <2>1, <2>2, KeysMove DEF ChannelGuarded
<1>10. CASE ChannelForgotten(h)
  <2>1. KeyedDoc(L!NoList, Channel)
    BY NoListFields DEF KeyedDoc, Keyed
  <2> QED
    BY <1>0, <1>2, <1>10, <2>1, KeysStore DEF ChannelForgotten, Keys
<1> QED
  BY <1>5, <1>6, <1>7, <1>8, <1>9, <1>10, ChannelShapes DEF ChannelShape

LEMMA KeysRevoke ==
  ASSUME AccountsAssumption, TypeInv, KeysInv, NEW h \in Handlers,
         L!FindList(h) \/ L!CloseList(h) \/ L!ForgetList(h)
  PROVE  KeysInv'
<1>0. PICK j, u : j = job[h] /\ u = j.user
  OBVIOUS
<1>1. KeyJob(at[h], j) /\ u \in Keys
  BY <1>0, RevokeShapes DEF KeysInv, Keys
<1>2. \A p \in {"idle", "save", "unlink"} : \A k : KeyJob(p, k)
  BY DEF KeyJob, ListUse
<1>3. ASSUME NEW p \in {"close list", "forget list"}, NEW k, Keyed(k.doc.id, k.user)
      PROVE  KeyJob(p, k)
  BY <1>3 DEF KeyJob, ListUse
<1>4. CASE RevokeGoes(h)
  <2>1. PICK p \in {"idle", "save", "unlink"} : \E k : Go(h, p, k)
    BY <1>4, ZenonT(60) DEF RevokeGoes
  <2>2. PICK k : Go(h, p, k)
    BY <2>1
  <2>3. KeyJob(p, k)
    BY <1>2
  <2> QED
    BY <1>4, <2>2, <2>3, KeysMove DEF RevokeGoes, Kept
<1>5. CASE RevokeFound(h)
  <2>1. PICK k : Kept /\ Go(h, "close list", k) /\ k.user = u /\ k.doc = listDoc[u]
    BY <1>0, <1>5 DEF RevokeFound, Alike
  <2>2. Keyed(k.doc.id, k.user)
    BY <1>1, <2>1 DEF KeysInv, KeyedDoc
  <2> QED
    BY <1>3, <2>1, <2>2, KeysMove DEF Kept
<1>6. CASE RevokeClosed(h)
  <2>1. PICK i, c : /\ i = j.doc.id /\ Edited(i, c)
                    /\ c.readers = list[i].readers \ {u} /\ c.rows = list[i].rows
                    /\ Go(h, "forget list", j)
    BY <1>0, <1>6 DEF RevokeClosed
  <2>2. Audience(c)
    BY <2>1 DEF Edited, KeysInv, Audience
  <2>3. KeyJob("forget list", j)
    BY <1>1, <1>3, <1>6 DEF RevokeClosed, KeyJob
  <2> QED
    BY <2>1, <2>2, <2>3, KeysEdit
<1>7. CASE RevokeForgot(h)
  <2>1. KeyedDoc(L!NoList, u)
    BY NoListFields DEF KeyedDoc, Keyed
  <2>2. PICK p \in {"idle", "save", "unlink"} : \E k : Go(h, p, k)
    BY <1>7, ZenonT(60) DEF RevokeForgot
  <2>3. PICK k : Go(h, p, k)
    BY <2>2
  <2>4. KeyJob(p, k)
    BY <1>2
  <2>5. Stored(u, L!NoList)
    BY <1>0, <1>7 DEF RevokeForgot
  <2> QED
    BY <1>1, <2>1, <2>3, <2>4, <2>5, KeysStore
<1> QED
  BY <1>4, <1>5, <1>6, <1>7, RevokeShapes DEF RevokeShape

\* The steps of the Lists are those of their synchronisations, of the migration
\* and of the revocations.
LEMMA ListStepKinds ==
  ASSUME NEW h, L!ListStep(h)
  PROVE  \/ at[h] \in ListSync \/ at[h] \in Migrating
         \/ L!FindList(h) \/ L!CloseList(h) \/ L!ForgetList(h)
  BY DEF L!ListStep, ListSync, Migrating, L!MigrationPlaces, L!AcquireList, L!CheckGuard,
     L!ReadList, L!CreateList, L!NoteList, L!ShareList, L!RecordList, L!ShareWithRequester,
     L!RenameLegacy, L!DropLegacy, L!AddRows, L!DeleteRows, L!ReleaseList, L!AcquireChannel,
     L!ReadLegacy, L!CloseLegacy, L!ClearLegacy, L!MarkLegacy, L!SetGuard, L!ForgetLegacy,
     L!ReleaseChannel

LEMMA KeysNext ==
  ASSUME AccountsAssumption, TypeInv, KeysInv, [Next]_vars
  PROVE  KeysInv'
<1>1. CASE UNCHANGED <<at, job, list, listDoc>>
  BY <1>1, ZenonT(60) DEF KeysInv, KeyedDoc, Keyed, KeyJob
<1>2. ASSUME NEW h \in Handlers, NEW p \in OffLists, NEW j, Go(h, p, j),
             UNCHANGED <<list, listDoc>>
      PROVE  KeysInv'
  BY <1>2, OffKeys, KeysMove
<1>3. ASSUME NEW h \in Handlers, LinkStep(h), UNCHANGED <<list, listDoc>> PROVE KeysInv'
  <2>1. PICK p \in QuietPlaces \cup {"save", "remove", "save reverse", "remove reverse"} :
          \E j : Go(h, p, j)
    BY <1>3, LinkShapes
  <2>2. \A j : KeyJob(p, j)
    BY DEF KeyJob, ListUse, QuietPlaces, LinkPlaces, CalendarPlaces
  <2> QED
    BY <1>3, <2>1, <2>2, KeysMove
<1>4. ASSUME NEW h \in Handlers, L!ListStep(h) PROVE KeysInv'
  BY <1>4, ListStepKinds, KeysSync, KeysChannel, KeysRevoke
<1> QED
  BY <1>1, <1>2, <1>3, <1>4, ListViews

LEMMA KeysInit ==
  ASSUME AccountsAssumption, Init
  PROVE  KeysInv
<1>1. at = [h \in Handlers |-> "idle"]
  BY DEF Init, InitHandlers
<1>2. \A h \in Handlers : KeyJob(at[h], job[h])
  BY <1>1 DEF KeyJob, ListUse
<1>3. PICK s \in Scenarios : L!InitLists(s.list)
  BY DEF Init
<1>4. CASE s.list = "none"
  <2>1. list = <<>> /\ listDoc = [k \in Keys |-> L!NoList]
    BY <1>3, <1>4 DEF L!InitLists, L!Keys, Keys
  <2>2. 1..Len(list) = {}
    BY <2>1
  <2> QED
    BY <1>2, <2>1, <2>2, NoListFields DEF KeysInv, KeyedDoc, Keyed
<1>5. CASE s.list # "none"
  <2>1. PICK c : c = [L!NewList(Channel) EXCEPT !.readers = {Channel}, !.rows = {All}]
    OBVIOUS
  <2>2. c.key = Channel
    BY <2>1 DEF L!NewList
  <2>3. PICK b, d : b = (s.list = "current") /\ d = [L!NoList EXCEPT !.id = 1, !.current = b]
    OBVIOUS
  <2>4. d.id = 1 /\ d.legacy = 0
    BY <2>3 DEF L!NoList
  <2>5. /\ list = <<c>>
        /\ listDoc = [k \in Keys |-> IF k = Channel THEN d ELSE L!NoList]
    BY <1>3, <1>5, <2>1, <2>3 DEF L!InitLists, L!Keys, Keys
  <2>6. Len(list) = 1 /\ list[1] = c
    BY <2>5
  <2>7. ASSUME NEW k \in Keys PROVE KeyedDoc(listDoc[k], k)
    <3>1. CASE k = Channel
      BY <2>2, <2>4, <2>5, <2>6, <3>1 DEF KeyedDoc, Keyed
    <3>2. CASE k # Channel
      BY <2>5, <3>2, NoListFields DEF KeyedDoc, Keyed
    <3> QED
      BY <3>1, <3>2
  <2>8. \A i \in 1..Len(list) : Audience(list[i])
    BY <2>2, <2>6 DEF Audience
  <2> QED
    BY <1>2, <2>7, <2>8 DEF KeysInv
<1> QED
  BY <1>4, <1>5

-----------------------------------------------------------------------------
(* The personal Lists. *)

\* What a handler knows of its user's List.
ListCalmJob(p, j) ==
  /\ p \in {"create list", "note list"} /\ j.key = j.user => listDoc[j.user].id = 0
  /\ p = "note list" /\ j.key = j.user => list[j.doc.id].rows = {}
  /\ p \in ListUse \ {"note list"} /\ j.key = j.user => j.doc.id = listDoc[j.user].id
  /\ p = "close list" => j.doc.id = listDoc[j.user].id
  /\ p = "forget list" =>
       \A i \in 1..Len(list) : list[i].key = j.user => j.user \notin list[i].readers
  /\ Forgotten(p, j) => listDoc[j.user].id = 0

\* A user reads no personal List but the recorded one, and it shows the linked
\* account's work alone.
ListReached(u) ==
  \A i \in 1..Len(list) : u \in list[i].readers /\ list[i].key = u => listDoc[u].id = i

ListShown(u) ==
  listDoc[u].id # 0 => /\ list[listDoc[u].id].rows \subseteq {identity[u]}
                       /\ identity[u] # None

ListOf(u) ==
  /\ ListReached(u) /\ ListShown(u)
  /\ \A h \in Handlers : job[h].user = u => ListCalmJob(at[h], job[h])

ListInv == \A u \in Calm("list") : ListOf(u)

\* Where a handler relies on the List of its user.
OnList(p, j) ==
  \/ p \in ListSync \ {"acquire list"} /\ j.key = j.user
  \/ p \in LinkPlaces \cup Revoking

LEMMA NoListJob ==
  ASSUME NEW p, NEW j, ~OnList(p, j)
  PROVE  ListCalmJob(p, j) /\ ListCalmJob(p, j)'
<1>1. /\ p \in ListUse \cup {"create list"} => j.key # j.user
      /\ p \notin {"close list", "forget list"} /\ ~Forgotten(p, j)
  <2>1. ListUse \cup {"create list"} \subseteq ListSync \ {"acquire list"}
    BY DEF ListUse, ListSync
  <2>2. p \notin {"close list", "forget list"} /\ ~Forgotten(p, j)
    BY DEF OnList, Forgotten, LinkPlaces, Revoking
  <2> QED
    BY <2>1, <2>2 DEF OnList
<1>2. {"create list", "note list"} \subseteq ListUse \cup {"create list"}
  BY DEF ListUse
<1>3. /\ ~(p \in {"create list", "note list"} /\ j.key = j.user)
      /\ ~(p = "note list" /\ j.key = j.user)
      /\ ~(p \in ListUse \ {"note list"} /\ j.key = j.user)
      /\ p # "close list" /\ p # "forget list"
  BY <1>1, <1>2
<1> QED
  BY <1>1, <1>3, Zenon DEF ListCalmJob

LEMMA OffListJob ==
  ASSUME NEW p \in OffLists, NEW j
  PROVE  ListCalmJob(p, j) /\ ListCalmJob(p, j)'
<1>1. /\ p \notin {"create list", "note list"} /\ p \notin ListUse
      /\ p # "close list" /\ p # "forget list" /\ p \notin {"unlink", "remove", "save"}
  BY DEF OffLists, Plain, CanvasSync, C!CanvasPlaces, Revoking, LinkPlaces, CalendarPlaces, ListUse
<1> QED
  BY <1>1, Zenon DEF ListCalmJob, Forgotten

LEMMA AloneOnList ==
  ASSUME AccountsAssumption, TypeInv, Apart, Mutex, NEW u \in Calm("list"),
         NEW g \in Handlers, NEW h \in Handlers, g # h, job[g].user = u, job[h].user = u,
         OnList(at[h], job[h])
  PROVE  ~OnList(at[g], job[g])
<1>1. u \in Users \ crossed /\ <<"list", u>> \notin overrun /\ <<"list", u>> \in Leases
  BY DEF Calm, Leases, Keys
<1>2. ~Changing(g) /\ ~Changing(h)
  BY <1>1, Alone
<1>3. at[g] \notin LinkPlaces \cup Revoking /\ at[h] \notin LinkPlaces \cup Revoking
  BY <1>2 DEF Changing, Revoking
<1>4. u # Shared
  BY <1>1 DEF AccountsAssumption
<1>5. ASSUME NEW k \in {g, h}, at[k] \in ListSync \ {"acquire list"}, job[k].key = u
      PROVE  lease[<<"list", u>>] = k
  BY <1>1, <1>4, <1>5, ZenonT(60) DEF Mutex, Holds
<1> QED
  BY <1>3, <1>5 DEF OnList

\* But for those of one key, the Lists and their documents stay; and with them
\* the links, but for one user's.
ListsOnly(w) ==
  \A v \in Keys \ {w} :
    /\ listDoc'[v] = listDoc[v]
    /\ \A i \in 1..Len(list') : list'[i].key = v => i \in 1..Len(list) /\ list'[i] = list[i]

ListOnly(w) == ListsOnly(w) /\ \A v \in Users \ {w} : identity'[v] = identity[v]

LEMMA ListChange ==
  ASSUME AccountsAssumption, TypeInv, Apart, Mutex, KeysInv, ListInv,
         crossed \subseteq crossed', overrun \subseteq overrun', KeysKept,
         NEW h \in Handlers, NEW p, NEW j, Go(h, p, j), NEW w, ListOnly(w),
         w \in Users => job[h].user = w /\ OnList(at[h], job[h]),
         w \in Calm("list") => ListReached(w)' /\ ListShown(w)',
         j.user \in Calm("list") => ListCalmJob(p, j)'
  PROVE  ListInv'
<1>1. /\ at'[h] = p /\ job'[h] = j
      /\ \A g \in Handlers : g # h => at'[g] = at[g] /\ job'[g] = job[g]
  BY MoveFields
<1>2. ASSUME NEW v \in Calm("list")' PROVE ListOf(v)'
  <2>1. v \in Calm("list") /\ v \in Users /\ v \in Keys
    BY <1>2 DEF Calm, Keys
  <2>2. ListOf(v)
    BY <2>1 DEF ListInv
  <2>3. CASE v = w
    <3>1. ASSUME NEW g \in Handlers, job'[g].user = v PROVE ListCalmJob(at[g], job[g])'
      <4>1. CASE g = h
        <5>1. ListCalmJob(p, j)'
          BY <1>1, <2>1, <3>1, <4>1
        <5> QED
          BY <1>1, <4>1, <5>1
      <4>2. CASE g # h
        <5>1. PICK q, i : q = at[g] /\ i = job[g]
          OBVIOUS
        <5>2. at'[g] = q /\ job'[g] = i /\ ~OnList(q, i)
          BY <1>1, <2>1, <2>3, <3>1, <4>2, <5>1, AloneOnList
        <5>3. ListCalmJob(q, i)'
          BY <5>2, NoListJob
        <5> QED
          BY <5>2, <5>3
      <4> QED
        BY <4>1, <4>2
    <3> QED
      BY <2>1, <2>3, <3>1 DEF ListOf
  <2>4. CASE v # w
    <3>1. /\ listDoc'[v] = listDoc[v] /\ identity'[v] = identity[v]
          /\ \A i \in 1..Len(list') :
               list'[i].key = v => i \in 1..Len(list) /\ list'[i] = list[i]
      BY <2>1, <2>4 DEF ListOnly, ListsOnly
    <3>2. \A i : Keyed(i, v) /\ i # 0 => list'[i] = list[i]
      <4>1. ASSUME NEW i, Keyed(i, v), i # 0 PROVE list'[i] = list[i]
        <5>1. i \in 1..Len(list) /\ list[i].key = v
          BY <4>1 DEF Keyed
        <5>2. i \in 1..Len(list') /\ list'[i].key = v
          BY <5>1 DEF KeysKept
        <5> QED
          BY <3>1, <5>2
      <4> QED
        BY <4>1
    <3>3. ListReached(v)'
      BY <2>2, <3>1 DEF ListOf, ListReached
    <3>4. ListShown(v)'
      <4>1. PICK x : x = listDoc[v].id
        OBVIOUS
      <4>2. Keyed(x, v)
        BY <2>1, <4>1 DEF KeysInv, KeyedDoc
      <4>3. x # 0 => list'[x] = list[x]
        BY <3>2, <4>2
      <4> QED
        BY <2>2, <3>1, <4>1, <4>3 DEF ListOf, ListShown
    <3>5. ASSUME NEW g \in Handlers, job'[g].user = v PROVE ListCalmJob(at[g], job[g])'
      <4>1. CASE g = h
        <5>1. ListCalmJob(p, j)'
          BY <1>1, <2>1, <3>5, <4>1
        <5> QED
          BY <1>1, <4>1, <5>1
      <4>2. CASE g # h
        <5>1. PICK q, i : q = at[g] /\ i = job[g]
          OBVIOUS
        <5>2. at'[g] = q /\ job'[g] = i /\ ListCalmJob(q, i) /\ i.user = v
          BY <1>1, <2>2, <3>5, <4>2, <5>1 DEF ListOf
        <5>3. q = "note list" /\ i.key = i.user => list'[i.doc.id] = list[i.doc.id]
          <6>1. SUFFICES ASSUME q = "note list", i.key = v PROVE list'[i.doc.id] = list[i.doc.id]
            BY <5>2
          <6>2. q \in ListUse
            BY <6>1 DEF ListUse
          <6>3. KeyJob(q, i)
            BY <5>1 DEF KeysInv
          <6>4. Keyed(i.doc.id, v)
            BY <6>1, <6>2, <6>3 DEF KeyJob, KeyedDoc
          <6>5. i.doc.id # 0
            BY <5>1, <6>1, InHand DEF JobOK, ListJob
          <6> QED
            BY <3>2, <6>4, <6>5
        <5>4. ListCalmJob(q, i)'
          <6>1. \A x \in 1..Len(list') : list'[x].key = v => x \in 1..Len(list) /\ list'[x] = list[x]
            BY <3>1
          <6>2. q = "forget list" =>
                  \A x \in 1..Len(list') : list'[x].key = i.user => i.user \notin list'[x].readers
            BY <5>2, <6>1 DEF ListCalmJob
          <6>3. /\ q \in {"create list", "note list"} /\ i.key = i.user => listDoc[v].id = 0
                /\ q = "note list" /\ i.key = i.user => list[i.doc.id].rows = {}
                /\ q \in ListUse \ {"note list"} /\ i.key = i.user => i.doc.id = listDoc[v].id
                /\ q = "close list" => i.doc.id = listDoc[v].id
                /\ Forgotten(q, i) => listDoc[v].id = 0
            BY <5>2, Zenon DEF ListCalmJob
          <6>4. listDoc'[i.user].id = listDoc[v].id
            BY <3>1, <5>2
          <6>5. Forgotten(q, i)' <=> Forgotten(q, i)
            BY DEF Forgotten
          <6> QED
            BY <5>3, <6>2, <6>3, <6>4, <6>5 DEF ListCalmJob
        <5> QED
          BY <5>2, <5>4
      <4> QED
        BY <4>1, <4>2
    <3> QED
      BY <3>3, <3>4, <3>5 DEF ListOf
  <2> QED
    BY <2>3, <2>4
<1> QED
  BY <1>2 DEF ListInv

\* A handler moves, and the Lists and the link stay.
LEMMA ListMove ==
  ASSUME AccountsAssumption, TypeInv, Apart, Mutex, KeysInv, ListInv,
         crossed \subseteq crossed', overrun \subseteq overrun',
         NEW h \in Handlers, NEW p, NEW j, Go(h, p, j), UNCHANGED <<identity, list, listDoc>>,
         j.user \in Calm("list") => ListCalmJob(p, j)
  PROVE  ListInv'
<1>1. KeysKept /\ ListOnly(None)
  BY DEF KeysKept, ListOnly, ListsOnly
<1>2. j.user \in Calm("list") => ListCalmJob(p, j)'
  BY DEF ListCalmJob, Forgotten
<1>3. None \notin Users
  BY DEF AccountsAssumption, Keys
<1>4. None \notin Calm("list")
  BY <1>3 DEF Calm
<1> QED
  BY <1>1, <1>2, <1>3, <1>4, ListChange

LEMMA NothingListed ==
  ASSUME NEW u \in Users, ListShown(u), identity[u] = None
  PROVE  listDoc[u].id = 0
  BY DEF ListShown

LEMMA ListLink ==
  ASSUME AccountsAssumption, TypeInv, Apart, Mutex, IdentityInv, KeysInv, ListInv,
         crossed \subseteq crossed', overrun \subseteq overrun',
         NEW h \in Handlers, LinkStep(h), UNCHANGED <<list, listDoc>>
  PROVE  ListInv'
<1>1. PICK j, u : j = job[h] /\ u = j.user
  OBVIOUS
<1>2. u \in Users /\ at[h] \in LinkPlaces /\ OnList(at[h], j)
  BY <1>1, LinkShapes DEF OnList
<1>3. u \in Calm("list") => ListOf(u) /\ ListCalmJob(at[h], j) /\ u \in Users \ crossed
  BY <1>1, <1>2 DEF ListInv, ListOf, Calm
<1>4. CASE UNCHANGED identity /\ \E p \in QuietPlaces : \E k : Go(h, p, k)
  <2>1. PICK p \in QuietPlaces : \E k : Go(h, p, k)
    BY <1>4
  <2>2. PICK k : Go(h, p, k)
    BY <2>1
  <2>3. p \in OffLists
    BY DEF QuietPlaces, OffLists, Plain
  <2> QED
    BY <1>4, <2>2, <2>3, OffListJob, ListMove
<1>5. CASE at[h] = "claim" /\ Go(h, "save", j) /\ UNCHANGED identity /\ j.previous \in {None, j.login}
  <2>1. ASSUME u \in Calm("list"), j.previous # j.login PROVE listDoc[u].id = 0
    <3>1. identity[u] = None
      BY <1>1, <1>3, <1>5, <2>1 DEF IdentityInv, IdentityJob, Relinks
    <3> QED
      BY <1>2, <1>3, <2>1, <3>1, NothingListed DEF ListOf
  <2>2. u \in Calm("list") => ListCalmJob("save", j)
    BY <1>1, <2>1 DEF ListCalmJob, Forgotten, ListUse
  <2> QED
    BY <1>1, <1>5, <2>2, ListMove
<1>6. ASSUME at[h] = "unlink", UNCHANGED identity, NEW k, Go(h, "remove", k), k.user = u
      PROVE  ListInv'
  <2>1. u \in Calm("list") => listDoc[u].id = 0
    BY <1>1, <1>3, <1>6 DEF ListCalmJob, Forgotten
  <2>2. u \in Calm("list") => ListCalmJob("remove", k)
    BY <1>6, <2>1 DEF ListCalmJob, Forgotten, ListUse
  <2> QED
    BY <1>6, <2>2, ListMove
<1>7. ASSUME NEW p, NEW a, Go(h, p, j), identity' = [identity EXCEPT ![u] = a],
             \/ at[h] = "save" /\ p = "save reverse" /\ a = j.login
             \/ at[h] = "remove" /\ p = "remove reverse" /\ a = None
      PROVE  ListInv'
  <2>1. ListCalmJob(p, j)'
    BY <1>7 DEF ListCalmJob, Forgotten, ListUse
  <2>2. KeysKept
    BY DEF KeysKept
  <2>3. identity'[u] = a /\ \A v \in Users \ {u} : identity'[v] = identity[v]
    BY <1>2, <1>7 DEF TypeInv
  <2>4. ListOnly(u)
    BY <2>3 DEF ListOnly, ListsOnly
  <2>5. ASSUME u \in Calm("list") PROVE ListReached(u)' /\ ListShown(u)'
    <3>1. ListReached(u)'
      BY <1>3, <2>5 DEF ListOf, ListReached
    <3>2. listDoc[u].id = 0 \/ a = identity[u]
      <4>1. CASE at[h] = "save" /\ j.previous = j.login /\ a = j.login
        BY <1>1, <1>3, <2>5, <4>1 DEF IdentityInv, IdentityJob, Relinks
      <4>2. CASE at[h] = "remove" \/ (at[h] = "save" /\ j.previous # j.login)
        BY <1>1, <1>3, <2>5, <4>2 DEF ListCalmJob, Forgotten
      <4> QED
        BY <1>7, <4>1, <4>2
    <3>3. ListShown(u)'
      BY <1>3, <2>3, <2>5, <3>2 DEF ListOf, ListShown
    <3> QED
      BY <3>1, <3>3
  <2> QED
    BY <1>1, <1>2, <1>7, <2>1, <2>2, <2>4, <2>5, ListChange
<1> QED
  BY <1>1, <1>4, <1>5, <1>6, <1>7, LinkShapes

\* A change of a List is one of its key's.
LEMMA EditOnly ==
  ASSUME TypeInv, NEW i, NEW c, Edited(i, c), UNCHANGED identity
  PROVE  KeysKept /\ ListOnly(list[i].key)
<1>1. ListOK
  BY DEF TypeInv
<1>2. /\ KeysKept /\ Len(list') = Len(list) /\ list'[i] = c /\ c.key = list[i].key
      /\ UNCHANGED listDoc
      /\ \A x \in 1..Len(list) : x # i => list'[x] = list[x]
  BY <1>1, EditedLists DEF Edited
<1> QED
  BY <1>2 DEF ListOnly, ListsOnly

LEMMA AppendOnly ==
  ASSUME TypeInv, NEW c \in List, list' = Append(list, c), UNCHANGED <<identity, listDoc>>
  PROVE  KeysKept /\ ListOnly(c.key)
<1>1. PICK m : m = Len(list) + 1
  OBVIOUS
<1>2. /\ KeysKept /\ list'[m] = c
      /\ \A x \in 1..Len(list') : x # m => x \in 1..Len(list)
      /\ \A x \in 1..Len(list) : list'[x] = list[x]
  BY <1>1, AppendedLists DEF TypeInv
<1>3. ASSUME NEW v \in Keys \ {c.key}, NEW x \in 1..Len(list'), list'[x].key = v
      PROVE  x \in 1..Len(list) /\ list'[x] = list[x]
  BY <1>2, <1>3
<1> QED
  BY <1>2, <1>3 DEF ListOnly, ListsOnly

LEMMA StoreOnly ==
  ASSUME TypeInv, NEW k, NEW d, Stored(k, d), UNCHANGED identity
  PROVE  KeysKept /\ ListOnly(k)
<1>1. DOMAIN listDoc = Keys
  BY DEF TypeInv, ListOK
<1> QED
  BY <1>1 DEF ListOnly, ListsOnly, Stored, KeysKept

LEMMA SyncOnly ==
  ASSUME AccountsAssumption, TypeInv, KeysInv, NEW h \in Handlers, at[h] \in ListSync,
         L!ListStep(h), UNCHANGED identity
  PROVE  KeysKept /\ ListOnly(job[h].key)
<1>0. PICK j : j = job[h]
  OBVIOUS
<1>1. KeyJob(at[h], j)
  BY <1>0 DEF KeysInv
<1>2. ASSUME NEW i, NEW c, Edited(i, c), at[h] \in ListUse, i \in {j.doc.id, j.doc.legacy}
      PROVE  KeysKept /\ ListOnly(j.key)
  <2>1. i \in 1..Len(list)
    BY <1>2 DEF Edited
  <2>2. i # 0
    BY <2>1
  <2>3. list[i].key = j.key
    <3>1. Keyed(j.doc.id, j.key) /\ Keyed(j.doc.legacy, j.key)
      BY <1>1, <1>2 DEF KeyJob, KeyedDoc
    <3>2. Keyed(i, j.key)
      BY <1>2, <3>1
    <3> QED
      BY <2>2, <3>2 DEF Keyed
  <2> QED
    BY <1>2, <2>3, EditOnly
<1>3. {"share list", "share with requester", "rename legacy", "add rows", "delete rows"} \subseteq ListUse
  BY DEF ListUse
<1>4. CASE ListGoes(h) \/ ListRead(h)
  BY <1>4 DEF ListGoes, ListRead, Kept, KeysKept, ListOnly, ListsOnly
<1>5. CASE ListMade(h)
  BY <1>5, AppendOnly DEF ListMade
<1>6. CASE ListWritten(h)
  BY <1>6, StoreOnly DEF ListWritten
<1>7. CASE ListShared(h) \/ ListAsked(h) \/ ListFilled(h)
  <2>1. PICK c : Edited(j.doc.id, c)
    BY <1>0, <1>7 DEF ListShared, ListAsked, ListFilled
  <2>2. at[h] \in ListUse
    BY <1>3, <1>7 DEF ListShared, ListAsked, ListFilled
  <2> QED
    BY <1>0, <1>2, <2>1, <2>2
<1>8. CASE ListRenamed(h)
  <2>1. PICK c : Edited(j.doc.legacy, c)
    BY <1>0, <1>8 DEF ListRenamed
  <2>2. at[h] \in ListUse
    BY <1>3, <1>8 DEF ListRenamed
  <2> QED
    BY <1>0, <1>2, <2>1, <2>2
<1> QED
  BY <1>4, <1>5, <1>6, <1>7, <1>8, SyncShapes DEF SyncShape

\* The channel's Lists are nobody's personal List.
LEMMA ListForeign ==
  ASSUME AccountsAssumption, TypeInv, Apart, Mutex, KeysInv, ListInv,
         crossed \subseteq crossed', overrun \subseteq overrun',
         NEW h \in Handlers, at[h] \in ListSync, job[h].key \notin Users, L!ListStep(h),
         UNCHANGED identity
  PROVE  ListInv'
<1>0. PICK w : w = job[h].key
  OBVIOUS
<1>1. KeysKept /\ ListOnly(w) /\ w \notin Users /\ w \notin Calm("list")
  BY <1>0, SyncOnly DEF Calm
<1>2. w \in Keys /\ job[h].user \in Users \cup {None} /\ None \notin Keys
  BY <1>0, ListJobs, InHand DEF AccountsAssumption
<1>3. ASSUME NEW p, NEW k, Go(h, p, k), p \in OffLists \/ ~OnList(p, k) PROVE ListInv'
  <2>1. ListCalmJob(p, k)'
    BY <1>3, OffListJob, NoListJob
  <2> QED
    BY <1>1, <1>3, <2>1, ListChange
<1>4. ASSUME NEW p \in ListSync, NEW k, Go(h, p, k), Alike(k, job[h]) PROVE ListInv'
  <2>1. k.key # k.user
    BY <1>0, <1>1, <1>2, <1>4 DEF Alike
  <2>2. p \notin LinkPlaces \cup Revoking
    BY DEF ListSync, LinkPlaces, Revoking
  <2>3. ~OnList(p, k)
    BY <2>1, <2>2 DEF OnList
  <2> QED
    BY <1>3, <1>4, <2>3
<1>5. {"idle", "acquire channel"} \subseteq OffLists
  BY DEF OffLists, Plain
<1> QED
  BY <1>3, <1>4, <1>5, ListPaths

LEMMA Positive ==
  ASSUME NEW n \in Nat, NEW x \in 1..n
  PROVE  x # 0
OBVIOUS

LEMMA ListPersonal ==
  ASSUME AccountsAssumption, TypeInv, Apart, Mutex, IdentityInv, KeysInv, ListInv,
         crossed \subseteq crossed', overrun \subseteq overrun',
         NEW h \in Handlers, at[h] \in ListSync, Personal(job[h]), L!ListStep(h),
         UNCHANGED identity
  PROVE  ListInv'
<1>0. PICK j, u, n : j = job[h] /\ u = j.user /\ n = Len(list)
  OBVIOUS
<1>1. /\ JobOK(at[h], j) /\ j \in Job /\ ListOK /\ n \in Nat /\ KeyJob(at[h], j)
      /\ u \in Users /\ u \in Keys /\ j.key = u /\ j.login \in Accounts /\ u \notin {Channel, Shared}
  BY <1>0, InHand, Lengths DEF TypeInv, KeysInv, Personal, Keys, AccountsAssumption
<1>2. KeysKept /\ ListOnly(u)
  BY <1>0, <1>1, SyncOnly
<1>3. u \in Calm("list") => /\ ListReached(u) /\ ListShown(u) /\ ListCalmJob(at[h], j)
                            /\ j.login = identity[u]
  <2>1. Synced(at[h], j)
    BY <1>1 DEF Synced
  <2> QED
    BY <1>0, <1>1, <2>1 DEF ListInv, ListOf, IdentityInv, IdentityJob, Calm
<1>4. ListUse = {"note list", "share list", "record list", "share with requester",
                 "rename legacy", "drop legacy", "add rows", "delete rows"}
  BY DEF ListUse
<1>5. at[h] \in ListUse => /\ j.doc.id \in 1..n /\ list[j.doc.id].key = u
                           /\ j.doc.legacy = 0 /\ j.doc.id # 0
  <2>1. at[h] \in ListUse => j.doc.id # 0
    BY <1>1, <1>4 DEF JobOK, ListJob
  <2> QED
    BY <1>0, <1>1, <2>1 DEF KeyJob, KeyedDoc, Keyed
<1>6. ASSUME NEW p, NEW k, Go(h, p, k), k.user = u, at[h] \in ListUse \cup {"create list"},
             u \in Calm("list") => ListReached(u)' /\ ListShown(u)' /\ ListCalmJob(p, k)'
      PROVE  ListInv'
  <2>1. OnList(at[h], j)
    <3>1. at[h] \in ListSync \ {"acquire list"}
      BY <1>6 DEF ListSync, ListUse
    <3> QED
      BY <1>0, <1>1, <3>1 DEF OnList
  <2>2. job[h].user = u /\ OnList(at[h], job[h])
    BY <1>0, <2>1
  <2>3. k.user \in Calm("list") => ListCalmJob(p, k)'
    BY <1>6
  <2> QED
    BY <1>1, <1>2, <1>6, <2>2, <2>3, ListChange
\* Past the provisional document, what the handler knows of its List is its id.
<1>7. ASSUME NEW p \in (ListUse \ {"note list"}) \cup {"release list"}, NEW k, k.user = u,
             k.doc.id = listDoc'[u].id
      PROVE  ListCalmJob(p, k)'
  <2>1. /\ p \notin {"create list", "note list"} /\ p # "close list" /\ p # "forget list"
        /\ ~Forgotten(p, k)'
    BY <1>4 DEF Forgotten
  <2> QED
    BY <1>7, <2>1, Zenon DEF ListCalmJob
<1>8. at[h] \in ListUse \ {"note list"} /\ u \in Calm("list") => j.doc.id = listDoc[u].id
  BY <1>0, <1>1, <1>3 DEF ListCalmJob
\* The List that is written is the recorded one.
<1>9. ASSUME at[h] \in ListUse \ {"note list"}, NEW c, Edited(j.doc.id, c), u \in Calm("list"),
             c.rows \subseteq list[j.doc.id].rows \cup {j.login}
      PROVE  ListReached(u)' /\ ListShown(u)'
  <2>1. PICK i \in 1..n : i = j.doc.id /\ i = listDoc[u].id /\ i # 0
    BY <1>5, <1>8, <1>9
  <2>2. /\ Len(list') = n /\ list'[i] = c /\ UNCHANGED listDoc
        /\ \A x \in 1..n : x # i => list'[x] = list[x]
    BY <1>0, <1>1, <1>9, <2>1, EditedLists DEF Edited
  <2>3. ListReached(u)'
    <3>1. ASSUME NEW x \in 1..n, u \in list'[x].readers, list'[x].key = u
          PROVE  listDoc[u].id = x
      BY <1>0, <1>3, <1>9, <2>1, <2>2, <3>1 DEF ListReached
    <3> QED
      BY <2>2, <3>1 DEF ListReached
  <2>4. ListShown(u)'
    <3>1. list[i].rows \subseteq {identity[u]} /\ identity[u] # None /\ j.login = identity[u]
      BY <1>3, <1>9, <2>1 DEF ListShown
    <3>2. c.rows \subseteq {identity[u]}
      BY <1>9, <2>1, <3>1
    <3> QED
      BY <2>1, <2>2, <3>1, <3>2 DEF ListShown
  <2> QED
    BY <2>3, <2>4
<1>10. CASE ListGoes(h)
  <2>1. PICK p \in {"idle", "check guard", "read list", "release list", "acquire channel"} :
          \E k : Go(h, p, k)
    BY <1>10 DEF ListGoes
  <2>2. PICK k : Go(h, p, k)
    BY <2>1
  <2>3. ListCalmJob(p, k)
    BY <1>4 DEF ListCalmJob, Forgotten
  <2> QED
    BY <1>10, <2>2, <2>3, ListMove DEF ListGoes, Kept
<1>11. CASE ListRead(h)
  <2>1. PICK p, k : /\ Kept /\ Go(h, p, k) /\ Alike(k, j) /\ k.doc = listDoc[u]
                    /\ \/ p = "create list" /\ ~k.doc.current
                       \/ p \in {"share list", "share with requester"}
    BY <1>0, <1>1, <1>11 DEF ListRead
  <2>2. k.user = u /\ k.key = u
    BY <1>0, <1>1, <2>1 DEF Alike
  <2>3. p = "create list" => listDoc[u].id = 0
    BY <1>1, <2>1 DEF KeysInv, KeyedDoc
  <2>4. ListCalmJob(p, k)
    BY <1>4, <2>1, <2>2, <2>3 DEF ListCalmJob, Forgotten
  <2> QED
    BY <2>1, <2>4, ListMove DEF Kept
<1>12. CASE ListMade(h)
  <2>0. PICK c \in List : \E k : /\ c.key = j.key /\ c.readers = {} /\ c.rows = {}
                                 /\ list' = Append(list, c) /\ UNCHANGED listDoc
                                 /\ Go(h, "note list", k) /\ Alike(k, j)
                                 /\ k.doc.id = n + 1
    BY <1>0, <1>12 DEF ListMade
  <2>1. PICK k : /\ c.key = u /\ c.readers = {} /\ c.rows = {}
                 /\ list' = Append(list, c) /\ UNCHANGED listDoc
                 /\ Go(h, "note list", k) /\ Alike(k, j)
                 /\ k.doc.id = n + 1
    BY <1>1, <2>0
  <2>2. PICK m : m = n + 1
    OBVIOUS
  <2>3. /\ list'[m] = c /\ k.doc.id = m
        /\ \A x \in 1..Len(list') : x # m => x \in 1..n
        /\ \A x \in 1..n : list'[x] = list[x]
    BY <1>0, <1>1, <2>1, <2>2, AppendedLists
  <2>4. k.user = u /\ k.key = u /\ at[h] = "create list"
    BY <1>0, <1>1, <1>12, <2>1 DEF Alike, ListMade
  <2>5. ASSUME u \in Calm("list")
        PROVE  ListReached(u)' /\ ListShown(u)' /\ ListCalmJob("note list", k)'
    <3>1. listDoc[u].id = 0 /\ ListReached(u)
      BY <1>0, <1>1, <1>3, <2>4, <2>5 DEF ListCalmJob
    <3>2. ListReached(u)'
      BY <1>0, <2>1, <2>3, <3>1 DEF ListReached
    <3>3. ListShown(u)'
      BY <2>1, <3>1 DEF ListShown
    <3>4. list'[k.doc.id].rows = {}
      BY <2>1, <2>3
    <3>5. ListCalmJob("note list", k)'
      BY <2>1, <2>4, <3>1, <3>4 DEF ListCalmJob, Forgotten
    <3> QED
      BY <3>2, <3>3, <3>5
  <2> QED
    BY <1>6, <2>1, <2>4, <2>5
<1>13. CASE ListWritten(h)
  <2>1. PICK p \in {"share list", "share with requester", "add rows"} : Go(h, p, j)
    BY <1>0, <1>13 DEF ListWritten
  <2>2. /\ at[h] \in ListUse /\ UNCHANGED list
        /\ listDoc' = [listDoc EXCEPT ![u] = j.doc]
    BY <1>0, <1>1, <1>4, <1>13 DEF ListWritten, Stored
  <2>3. listDoc'[u] = j.doc
    BY <1>1, <2>2 DEF ListOK
  <2>4. ASSUME u \in Calm("list")
        PROVE  ListReached(u)' /\ ListShown(u)'
    <3>1. CASE at[h] = "note list"
      <4>1. listDoc[u].id = 0 /\ list[j.doc.id].rows = {} /\ ListReached(u)
        BY <1>0, <1>1, <1>3, <2>4, <3>1 DEF ListCalmJob
      <4>2. ASSUME NEW x \in 1..Len(list), u \in list[x].readers, list[x].key = u PROVE FALSE
        <5>1. x = 0
          BY <4>1, <4>2 DEF ListReached
        <5>2. x \in 1..n /\ n \in Nat
          BY <1>0, <1>1, <4>2
        <5>3. x # 0
          BY <5>2, Positive
        <5> QED
          BY <5>1, <5>3
      <4>3. identity[u] # None
        BY <1>1, <1>3, <2>4 DEF AccountsAssumption
      <4> QED
        BY <2>2, <2>3, <4>1, <4>2, <4>3 DEF ListReached, ListShown
    <3>2. CASE at[h] # "note list"
      <4>1. j.doc.id = listDoc[u].id
        BY <1>8, <2>2, <2>4, <3>2
      <4> QED
        BY <1>3, <2>2, <2>3, <2>4, <4>1 DEF ListReached, ListShown
    <3> QED
      BY <3>1, <3>2
  <2>5. p \in (ListUse \ {"note list"}) \cup {"release list"}
    BY <1>4
  <2>6. ListCalmJob(p, j)'
    BY <1>0, <1>7, <2>3, <2>5
  <2> QED
    BY <1>0, <1>6, <2>1, <2>2, <2>4, <2>6
<1>14. CASE ListShared(h) \/ ListAsked(h) \/ ListFilled(h)
  <2>1. at[h] \in ListUse \ {"note list"}
    BY <1>4, <1>14 DEF ListShared, ListAsked, ListFilled
  <2>2. L!Wanted(h) = {j.login}
    BY <1>0, <1>1 DEF L!Wanted
  <2>3. PICK c : Edited(j.doc.id, c) /\ c.rows \subseteq list[j.doc.id].rows \cup {j.login}
    BY <1>0, <1>14, <2>2 DEF ListShared, ListAsked, ListFilled
  <2>4. PICK p, k : /\ Go(h, p, k) /\ k.user = u /\ k.doc.id = j.doc.id
                    /\ p \in {"record list", "rename legacy", "add rows", "delete rows", "release list"}
    <3>1. CASE ListShared(h)
      BY <1>0, <3>1 DEF ListShared, Alike, SameDoc
    <3>2. CASE ListAsked(h) \/ ListFilled(h)
      BY <1>0, <3>2 DEF ListAsked, ListFilled
    <3> QED
      BY <1>14, <3>1, <3>2
  <2>5. p \in (ListUse \ {"note list"}) \cup {"release list"}
    BY <1>4, <2>4
  <2>6. u \in Calm("list") => ListReached(u)' /\ ListShown(u)'
    BY <1>9, <2>1, <2>3
  <2>7. u \in Calm("list") => ListCalmJob(p, k)'
    <3>1. UNCHANGED listDoc
      BY <2>3 DEF Edited
    <3>2. u \in Calm("list") => k.doc.id = listDoc'[u].id
      BY <1>8, <2>1, <2>4, <3>1
    <3> QED
      BY <1>7, <2>4, <2>5, <3>2
  <2> QED
    BY <1>6, <2>1, <2>4, <2>6, <2>7
<1>15. CASE ListRenamed(h)
  <2>1. at[h] \in ListUse
    BY <1>4, <1>15 DEF ListRenamed
  <2>2. PICK c : Edited(j.doc.legacy, c)
    BY <1>0, <1>15 DEF ListRenamed
  <2>3. 0 \in 1..n
    BY <1>0, <1>5, <2>1, <2>2 DEF Edited
  <2> QED
    BY <2>3
<1> QED
  BY <1>10, <1>11, <1>12, <1>13, <1>14, <1>15, SyncShapes DEF SyncShape

\* The migration writes the channel's Lists, and is nobody's.
LEMMA ListChannel ==
  ASSUME AccountsAssumption, TypeInv, Apart, Mutex, KeysInv, ListInv,
         crossed \subseteq crossed', overrun \subseteq overrun',
         NEW h \in Handlers, at[h] \in Migrating, L!ListStep(h), UNCHANGED identity
  PROVE  ListInv'
<1>0. PICK j : j = job[h]
  OBVIOUS
<1>1. JobOK(at[h], j) /\ KeyJob(at[h], j) /\ j.user = None /\ NoJob.user = None
  BY <1>0, InHand, NoJobFields DEF KeysInv, JobOK, ListJob
<1>2. Channel \notin Users /\ None \notin Calm("list") /\ Channel \notin Calm("list")
  BY DEF Calm, AccountsAssumption, Keys
<1>3. ASSUME NEW p, NEW k, Go(h, p, k), k.user = None, KeysKept, ListOnly(Channel)
      PROVE  ListInv'
  BY <1>2, <1>3, ListChange
<1>4. ASSUME at[h] \in {"close legacy", "clear legacy", "mark legacy"},
             NEW i, NEW c, i = Head(j.ids), Edited(i, c)
      PROVE  KeysKept /\ ListOnly(Channel)
  <2>1. PICK s : s = j.ids
    OBVIOUS
  <2>2. s \in Seq(Nat) /\ s # <<>> /\ \A m \in 1..Len(s) : Keyed(s[m], Channel)
    BY <1>1, <1>4, <2>1 DEF KeyJob, JobOK, ListJob, Job
  <2>3. 1 \in 1..Len(s) /\ i = s[1]
    <3>1. Len(s) \in Nat /\ Len(s) # 0 /\ Head(s) = s[1]
      BY <2>2, HeadTailProperties, LenProperties, EmptySeq
    <3>2. 1 \in 1..Len(s)
      BY <3>1
    <3> QED
      BY <1>4, <2>1, <3>1, <3>2
  <2>4. i \in 1..Len(list)
    BY <1>4 DEF Edited
  <2>5. i # 0
    BY <2>4
  <2>6. list[i].key = Channel
    BY <2>2, <2>3, <2>5 DEF Keyed
  <2> QED
    BY <1>4, <2>6, EditOnly
<1>5. CASE ChannelGoes(h)
  <2>1. PICK p, k : Go(h, p, k) /\ k.user = None
    BY <1>0, <1>1, <1>5 DEF ChannelGoes
  <2>2. KeysKept /\ ListOnly(Channel)
    BY <1>5 DEF ChannelGoes, Kept, KeysKept, ListOnly, ListsOnly
  <2> QED
    BY <1>3, <2>1, <2>2
<1>6. CASE ChannelRead(h)
  <2>1. PICK p, k : Go(h, p, k) /\ k.user = None
    BY <1>6 DEF ChannelRead
  <2>2. KeysKept /\ ListOnly(Channel)
    BY <1>6 DEF ChannelRead, Kept, KeysKept, ListOnly, ListsOnly
  <2> QED
    BY <1>3, <2>1, <2>2
<1>7. CASE ChannelClosed(h)
  <2>1. PICK i, c : i = Head(j.ids) /\ Edited(i, c)
    BY <1>0, <1>7 DEF ChannelClosed
  <2>2. /\ at[h] \in {"close legacy", "clear legacy", "mark legacy"}
        /\ Go(h, "clear legacy", j) \/ Go(h, "mark legacy", j)
    BY <1>0, <1>7 DEF ChannelClosed
  <2>3. KeysKept /\ ListOnly(Channel)
    BY <1>4, <2>1, <2>2
  <2> QED
    BY <1>1, <1>3, <2>2, <2>3
<1>8. CASE ChannelMarked(h)
  <2>0. PICK i : i = Head(j.ids)
    OBVIOUS
  <2>1. PICK c, p, k : Edited(i, c) /\ Go(h, p, k) /\ k.user = None
    BY <1>0, <1>8, <2>0 DEF ChannelMarked
  <2>2. at[h] \in {"close legacy", "clear legacy", "mark legacy"}
    BY <1>8 DEF ChannelMarked
  <2>3. KeysKept /\ ListOnly(Channel)
    BY <1>4, <2>0, <2>1, <2>2
  <2> QED
    BY <1>3, <2>1, <2>3
<1>9. CASE ChannelGuarded(h)
  <2>1. PICK p : Go(h, p, j)
    BY <1>0, <1>9 DEF ChannelGuarded
  <2>2. KeysKept /\ ListOnly(Channel)
    BY <1>9 DEF ChannelGuarded, KeysKept, ListOnly, ListsOnly
  <2> QED
    BY <1>1, <1>3, <2>1, <2>2
<1>10. CASE ChannelForgotten(h)
  <2>1. KeysKept /\ ListOnly(Channel) /\ Go(h, "release channel", j)
    BY <1>0, <1>10, StoreOnly DEF ChannelForgotten
  <2> QED
    BY <1>1, <1>3, <2>1
<1> QED
  BY <1>5, <1>6, <1>7, <1>8, <1>9, <1>10, ChannelShapes DEF ChannelShape

\* A revocation takes the access away before it forgets the List.
LEMMA ListRevoke ==
  ASSUME AccountsAssumption, TypeInv, Apart, Mutex, KeysInv, ListInv,
         crossed \subseteq crossed', overrun \subseteq overrun',
         NEW h \in Handlers, L!FindList(h) \/ L!CloseList(h) \/ L!ForgetList(h),
         UNCHANGED identity
  PROVE  ListInv'
<1>0. PICK j, u : j = job[h] /\ u = j.user
  OBVIOUS
<1>1. /\ JobOK(at[h], j) /\ KeyJob(at[h], j) /\ u \in Users /\ u \in Keys
      /\ NoJob.user = None /\ None \notin Calm("list") /\ ListOK
  BY <1>0, InHand, NoJobFields, RevokeShapes DEF KeysInv, AccountsAssumption, Keys, Calm, TypeInv
<1>2. OnList(at[h], j)
  BY RevocationPaths DEF OnList, Revoking
<1>3. u \in Calm("list") => ListReached(u) /\ ListShown(u) /\ ListCalmJob(at[h], j)
  BY <1>0 DEF ListInv, ListOf
<1>4. \A p \in {"save", "unlink"} : \A k : k.user = u /\ listDoc[u].id = 0 => ListCalmJob(p, k)
  BY DEF ListCalmJob, ListUse
<1>5. CASE RevokeGoes(h)
  <2>1. PICK p, k : /\ Go(h, p, k) /\ Kept /\ listDoc[u].id = 0
                    /\ (k.user = None \/ (k.user = u /\ p \in {"save", "unlink"}))
    BY <1>0, <1>1, <1>5 DEF RevokeGoes
  <2>2. k.user \in Calm("list") => ListCalmJob(p, k)
    BY <1>1, <1>4, <2>1
  <2> QED
    BY <2>1, <2>2, ListMove DEF Kept
<1>6. CASE RevokeFound(h)
  <2>1. PICK k : Kept /\ Go(h, "close list", k) /\ k.user = u /\ k.doc = listDoc[u]
    BY <1>0, <1>6 DEF RevokeFound, Alike
  <2>2. ListCalmJob("close list", k)
    BY <2>1 DEF ListCalmJob, Forgotten, ListUse
  <2> QED
    BY <2>1, <2>2, ListMove DEF Kept
<1>7. CASE RevokeClosed(h)
  <2>1. PICK i, c : /\ i = j.doc.id /\ Edited(i, c)
                    /\ c.readers = list[i].readers \ {u} /\ c.rows = list[i].rows
                    /\ Go(h, "forget list", j) /\ at[h] = "close list"
    BY <1>0, <1>7 DEF RevokeClosed
  <2>2. /\ Len(list') = Len(list) /\ list'[i] = c /\ UNCHANGED listDoc
        /\ \A x \in 1..Len(list) : x # i => list'[x] = list[x]
        /\ i \in 1..Len(list) /\ c.key = list[i].key
    BY <1>1, <2>1, EditedLists DEF Edited
  <2>3. i # 0
    BY <2>2
  <2>4. list[i].key = u
    BY <1>0, <1>1, <2>1, <2>3 DEF KeyJob, Keyed
  <2>5. KeysKept /\ ListOnly(u)
    BY <2>1, <2>4, EditOnly
  <2>6. ASSUME u \in Calm("list")
        PROVE  ListReached(u)' /\ ListShown(u)' /\ ListCalmJob("forget list", j)'
    <3>1. /\ i = listDoc[u].id
          /\ \A x \in 1..Len(list) : u \in list[x].readers /\ list[x].key = u => x = i
      BY <1>0, <1>3, <2>1, <2>6 DEF ListCalmJob, ListReached
    <3>2. \A x \in 1..Len(list') : list'[x].key = u => u \notin list'[x].readers
      BY <2>1, <2>2, <3>1
    <3>3. ListShown(u)'
      BY <1>3, <2>1, <2>2, <2>6, <3>1 DEF ListShown
    <3>4. ListCalmJob("forget list", j)'
      BY <1>0, <3>2 DEF ListCalmJob, Forgotten, ListUse
    <3> QED
      BY <3>2, <3>3, <3>4 DEF ListReached
  <2> QED
    BY <1>0, <1>1, <1>2, <2>1, <2>5, <2>6, ListChange
<1>8. CASE RevokeForgot(h)
  <2>1. PICK p, k : /\ Go(h, p, k)
                    /\ (k.user = None \/ (k.user = u /\ p \in {"save", "unlink"}))
    BY <1>0, <1>1, <1>8 DEF RevokeForgot, Alike
  <2>2. /\ at[h] = "forget list" /\ Stored(u, L!NoList)
        /\ UNCHANGED list /\ listDoc'[u] = L!NoList
    BY <1>0, <1>1, <1>8 DEF RevokeForgot, Stored, ListOK
  <2>3. KeysKept /\ ListOnly(u)
    BY <2>2, StoreOnly
  <2>4. listDoc'[u].id = 0
    BY <2>2, NoListFields
  <2>5. ASSUME u \in Calm("list") PROVE ListReached(u)' /\ ListShown(u)'
    <3>1. \A i \in 1..Len(list) : list[i].key = u => u \notin list[i].readers
      BY <1>0, <1>3, <2>2, <2>5 DEF ListCalmJob
    <3> QED
      BY <2>2, <2>4, <3>1 DEF ListReached, ListShown
  <2>6. k.user \in Calm("list") => ListCalmJob(p, k)'
    <3>1. SUFFICES ASSUME k.user = u, p \in {"save", "unlink"} PROVE ListCalmJob(p, k)'
      BY <1>1, <2>1
    <3> QED
      BY <2>4, <3>1 DEF ListCalmJob, ListUse
  <2> QED
    BY <1>0, <1>1, <1>2, <2>1, <2>3, <2>5, <2>6, ListChange
<1> QED
  BY <1>5, <1>6, <1>7, <1>8, RevokeShapes DEF RevokeShape

LEMMA ListNext ==
  ASSUME AccountsAssumption, TypeInv, Apart, Mutex, IdentityInv, KeysInv, ListInv, [Next]_vars
  PROVE  ListInv'
<1>0. crossed \subseteq crossed' /\ overrun \subseteq overrun'
  BY RecordGrows
<1>1. CASE UNCHANGED <<at, job, identity, list, listDoc, guard>>
  <2>1. ASSUME NEW u \in Calm("list")' PROVE ListOf(u)'
    <3>1. ListOf(u)
      BY <1>0, <2>1 DEF Calm, ListInv
    <3> QED
      BY <1>1, <3>1 DEF ListOf, ListReached, ListShown, ListCalmJob, Forgotten
  <2> QED
    BY <2>1 DEF ListInv
<1>2. ASSUME NEW h \in Handlers, NEW p \in OffLists, NEW j, Go(h, p, j),
             UNCHANGED <<identity, list, listDoc, guard>>
      PROVE  ListInv'
  BY <1>0, <1>2, OffListJob, ListMove
<1>3. ASSUME NEW h \in Handlers, LinkStep(h), UNCHANGED <<list, listDoc, guard>> PROVE ListInv'
  BY <1>0, <1>3, ListLink
<1>4. ASSUME NEW h \in Handlers, L!ListStep(h), UNCHANGED identity PROVE ListInv'
  <2>1. CASE at[h] \in ListSync
    <3>1. Personal(job[h]) \/ job[h].key \notin Users
      <4>1. Personal(job[h]) \/ ForChannel(job[h]) \/ ForShared(job[h])
        BY <2>1, InHand DEF JobOK, ListJob
      <4> QED
        BY <4>1 DEF ForChannel, ForShared, AccountsAssumption
    <3> QED
      BY <1>0, <1>4, <2>1, <3>1, ListPersonal, ListForeign
  <2> QED
    BY <1>0, <1>4, <2>1, ListStepKinds, ListChannel, ListRevoke
<1> QED
  BY <1>1, <1>2, <1>3, <1>4, ListViews

LEMMA ListInit ==
  ASSUME AccountsAssumption, Init
  PROVE  ListInv
<1>1. at = [h \in Handlers |-> "idle"]
  BY DEF Init, InitHandlers
<1>2. \A h \in Handlers : ListCalmJob(at[h], job[h])
  BY <1>1 DEF ListCalmJob, Forgotten, ListUse
<1>3. PICK s \in Scenarios : L!InitLists(s.list)
  BY DEF Init
<1>4. Channel \notin Users /\ Users \subseteq Keys
  BY DEF AccountsAssumption, Keys
<1>5. \A u \in Users : listDoc[u].id = 0
  BY <1>3, <1>4, NoListFields DEF L!InitLists, L!Keys, Keys
<1>6. \A i \in 1..Len(list) : list[i].key = Channel
  <2>1. CASE s.list = "none"
    <3>1. list = <<>>
      BY <1>3, <2>1 DEF L!InitLists
    <3>2. 1..Len(list) = {}
      BY <3>1
    <3> QED
      BY <3>2
  <2>2. CASE s.list # "none"
    <3>1. PICK c : c = [L!NewList(Channel) EXCEPT !.readers = {Channel}, !.rows = {All}]
      OBVIOUS
    <3>2. c.key = Channel
      BY <3>1 DEF L!NewList
    <3>3. list = <<c>>
      BY <1>3, <2>2, <3>1 DEF L!InitLists
    <3> QED
      BY <3>2, <3>3
  <2> QED
    BY <2>1, <2>2
<1> QED
  BY <1>2, <1>4, <1>5, <1>6 DEF ListInv, ListOf, ListReached, ListShown, Calm

-----------------------------------------------------------------------------
(* The channel's Lists, and the guard.                                     *)

\* Where a synchronisation of a List is past the check of the guard.
PastGuard == {"read list", "create list"} \cup ListUse

\* No List, or one that bears the mark of a closed one.
Gone(i) == i = 0 \/ list[i].renamed

\* What a handler knows of the channel's Lists, whose document is d.
ChanKnown(p, j, d) ==
  /\ p \in PastGuard /\ j.key = Channel => ~guard
  /\ p = "create list" /\ j.key = Channel => j.doc = d
  /\ p = "note list" /\ j.key = Channel => j.doc.legacy = d.id /\ d.legacy = 0
  /\ p \in ListUse \ {"note list", "drop legacy"} /\ j.key = Channel =>
       j.doc.id = d.id /\ j.doc.legacy = d.legacy
  /\ p = "drop legacy" /\ j.key = Channel => j.doc.id = d.id /\ Gone(d.legacy)
  /\ p \in {"close legacy", "clear legacy", "mark legacy"} =>
       \A i \in {d.id, d.legacy} : Gone(i) \/ \E n \in 1..Len(j.ids) : j.ids[n] = i
  /\ p \in {"set guard", "forget legacy"} => Gone(d.id) /\ Gone(d.legacy)

ChanJob(p, j) == ChanKnown(p, j, listDoc[Channel])

\* The channel reads no unscoped List but the recorded one, the one it replaces
\* and those marked; and none but those marked once the guard is set.
ChanReached ==
  \A i \in 1..Len(list) : Channel \in list[i].readers /\ list[i].key = Channel =>
    list[i].renamed \/ i \in {listDoc[Channel].id, listDoc[Channel].legacy}

Closed ==
  \A i \in 1..Len(list) : Channel \in list[i].readers /\ list[i].key = Channel => list[i].renamed

ChannelInv ==
  <<"list", Channel>> \notin overrun =>
    /\ ChanReached /\ (guard => Closed)
    /\ \A h \in Handlers : ChanJob(at[h], job[h])

\* Where a handler relies on the channel's Lists.
OnChannel(p, j) ==
  \/ p \in ListSync \ {"acquire list"} /\ j.key = Channel
  \/ p \in Migrating \ {"acquire channel"}

LEMMA IdleChanJob ==
  ASSUME NEW p, NEW j, p \notin PastGuard,
         p \notin {"close legacy", "clear legacy", "mark legacy", "set guard", "forget legacy"}
  PROVE  ChanJob(p, j) /\ ChanJob(p, j)'
<1>1. /\ p \notin ListUse
      /\ p # "create list" /\ p # "note list" /\ p # "drop legacy"
  BY DEF PastGuard, ListUse
<1> QED
  BY <1>1, Zenon DEF ChanJob, ChanKnown

LEMMA OffChanJob ==
  ASSUME NEW p \in OffLists \cup LinkPlaces \cup Revoking, NEW j
  PROVE  ChanJob(p, j) /\ ChanJob(p, j)'
<1>1. /\ p \notin PastGuard
      /\ p \notin {"close legacy", "clear legacy", "mark legacy", "set guard", "forget legacy"}
  BY DEF OffLists, Plain, CanvasSync, C!CanvasPlaces, Revoking, LinkPlaces, CalendarPlaces,
     ListUse, PastGuard
<1> QED
  BY <1>1, IdleChanJob

LEMMA NoChanJob ==
  ASSUME NEW p, NEW j, ~OnChannel(p, j)
  PROVE  ChanJob(p, j) /\ ChanJob(p, j)'
<1>1. /\ PastGuard \subseteq ListSync \ {"acquire list"}
      /\ ListUse \subseteq PastGuard /\ {"create list", "note list", "drop legacy"} \subseteq PastGuard
      /\ {"close legacy", "clear legacy", "mark legacy", "set guard", "forget legacy"}
           \subseteq Migrating \ {"acquire channel"}
  BY DEF PastGuard, ListUse, ListSync, Migrating, L!MigrationPlaces
<1>2. /\ p \in PastGuard => j.key # Channel
      /\ p \notin {"close legacy", "clear legacy", "mark legacy", "set guard", "forget legacy"}
  BY <1>1 DEF OnChannel
<1>3. /\ p \in ListUse => p \in PastGuard
      /\ p \in {"create list", "note list", "drop legacy"} => p \in PastGuard
  BY <1>1
<1> QED
  BY <1>2, <1>3, Zenon DEF ChanJob, ChanKnown

\* What a handler knows stays true with the document, the guard and the marks.
LEMMA ChanJobStays ==
  ASSUME listDoc'[Channel] = listDoc[Channel], guard' => guard,
         \A i \in {listDoc[Channel].id, listDoc[Channel].legacy} : Gone(i) => Gone(i)',
         NEW p, NEW j, ChanJob(p, j)
  PROVE  ChanJob(p, j)'
<1>0. PICK d : d = listDoc[Channel]
  OBVIOUS
<1>1. listDoc'[Channel] = d
  BY <1>0
<1>2. p = "drop legacy" /\ j.key = Channel => j.doc.id = d.id /\ Gone(d.legacy)'
  BY <1>0, Zenon DEF ChanJob, ChanKnown
<1>3. p \in {"close legacy", "clear legacy", "mark legacy"} =>
        \A i \in {d.id, d.legacy} : Gone(i)' \/ \E n \in 1..Len(j.ids) : j.ids[n] = i
  BY <1>0, Zenon DEF ChanJob, ChanKnown
<1>4. p \in {"set guard", "forget legacy"} => Gone(d.id)' /\ Gone(d.legacy)'
  BY <1>0, Zenon DEF ChanJob, ChanKnown
<1>5. /\ p \in PastGuard /\ j.key = Channel => ~guard
      /\ p = "create list" /\ j.key = Channel => j.doc = d
      /\ p = "note list" /\ j.key = Channel => j.doc.legacy = d.id /\ d.legacy = 0
      /\ p \in ListUse \ {"note list", "drop legacy"} /\ j.key = Channel =>
           j.doc.id = d.id /\ j.doc.legacy = d.legacy
  BY <1>0, Zenon DEF ChanJob, ChanKnown
<1> QED
  <2>1. ChanKnown(p, j, d)'
    <3>1. p \in PastGuard /\ j.key = Channel => ~guard'
      BY <1>5, Zenon
    <3> QED
      BY <1>2, <1>3, <1>4, <1>5, <3>1, Zenon DEF ChanKnown
  <2> QED
    BY <1>1, <2>1 DEF ChanJob

LEMMA AloneOnChannel ==
  ASSUME AccountsAssumption, Mutex, <<"list", Channel>> \notin overrun,
         NEW g \in Handlers, NEW h \in Handlers, g # h, OnChannel(at[h], job[h])
  PROVE  ~OnChannel(at[g], job[g])
<1>1. <<"list", Channel>> \in Leases /\ Channel # Shared
  BY DEF Leases, Keys, AccountsAssumption
<1>2. ASSUME NEW k \in Handlers, OnChannel(at[k], job[k])
      PROVE  Holds(at[k], job[k], <<"list", Channel>>)
  BY <1>1, <1>2 DEF OnChannel, Holds
<1> QED
  BY <1>1, <1>2, OneHolder

\* The Lists, the document and the guard of the channel stay.
LEMMA ChannelStays ==
  ASSUME AccountsAssumption, TypeInv, KeysInv, ChannelInv, overrun \subseteq overrun',
         KeysKept, NEW w, ListsOnly(w), w # Channel, UNCHANGED guard,
         NEW h \in Handlers, NEW p, NEW j, Go(h, p, j),
         <<"list", Channel>> \notin overrun => ChanJob(p, j)
  PROVE  ChannelInv'
<1>0. SUFFICES ASSUME <<"list", Channel>> \notin overrun'
               PROVE  /\ ChanReached' /\ (guard => Closed)'
                      /\ (\A g \in Handlers : ChanJob(at[g], job[g]))'
  BY DEF ChannelInv
<1>1. /\ ChanReached /\ (guard => Closed)
      /\ \A g \in Handlers : ChanJob(at[g], job[g])
  BY <1>0 DEF ChannelInv
<1>2. /\ at'[h] = p /\ job'[h] = j
      /\ \A g \in Handlers : g # h => at'[g] = at[g] /\ job'[g] = job[g]
  BY MoveFields
<1>3. Channel \in Keys \ {w}
  BY DEF AccountsAssumption, Keys
<1>4. /\ listDoc'[Channel] = listDoc[Channel]
      /\ \A i \in 1..Len(list') : list'[i].key = Channel => i \in 1..Len(list) /\ list'[i] = list[i]
  BY <1>3 DEF ListsOnly
<1>5. ASSUME NEW i \in {listDoc[Channel].id, listDoc[Channel].legacy}, Gone(i) PROVE Gone(i)'
  <2>1. Keyed(i, Channel)
    BY <1>3 DEF KeysInv, KeyedDoc
  <2>2. CASE i = 0
    BY <2>2 DEF Gone
  <2>3. CASE i # 0
    <3>1. i \in 1..Len(list) /\ list[i].key = Channel
      BY <2>1, <2>3 DEF Keyed
    <3>2. i \in 1..Len(list') /\ list'[i].key = Channel
      BY <3>1 DEF KeysKept
    <3>3. list'[i] = list[i]
      BY <1>4, <3>2
    <3> QED
      BY <1>5, <2>3, <3>3 DEF Gone
  <2> QED
    BY <2>2, <2>3
<1>6. ChanReached' /\ (guard => Closed)'
  BY <1>1, <1>4 DEF ChanReached, Closed
<1>7. guard' => guard
  OBVIOUS
<1>8. ASSUME NEW g \in Handlers PROVE ChanJob(at[g], job[g])'
  <2>1. PICK q, i : q = at'[g] /\ i = job'[g]
    OBVIOUS
  <2>2. ChanJob(q, i)
    BY <1>0, <1>1, <1>2, <2>1
  <2>3. ChanJob(q, i)'
    BY <1>4, <1>5, <1>7, <2>2, ChanJobStays
  <2> QED
    BY <2>1, <2>3
<1> QED
  BY <1>6, <1>8

\* Who holds the channel's lease changes them alone.
LEMMA ChannelChange ==
  ASSUME AccountsAssumption, TypeInv, Mutex, ChannelInv, overrun \subseteq overrun',
         NEW h \in Handlers, OnChannel(at[h], job[h]), NEW p, NEW j, Go(h, p, j),
         <<"list", Channel>> \notin overrun =>
           ChanReached' /\ (guard => Closed)' /\ ChanJob(p, j)'
  PROVE  ChannelInv'
<1>1. /\ at'[h] = p /\ job'[h] = j
      /\ \A g \in Handlers : g # h => at'[g] = at[g] /\ job'[g] = job[g]
  BY MoveFields
<1>2. SUFFICES ASSUME <<"list", Channel>> \notin overrun, NEW g \in Handlers
               PROVE  ChanJob(at[g], job[g])'
  BY DEF ChannelInv
<1>3. CASE g = h
  <2>1. ChanJob(p, j)'
    BY <1>2
  <2> QED
    BY <1>1, <1>3, <2>1
<1>4. CASE g # h
  <2>1. PICK q, i : q = at[g] /\ i = job[g]
    OBVIOUS
  <2>2. at'[g] = q /\ job'[g] = i /\ ~OnChannel(q, i)
    BY <1>1, <1>2, <1>4, <2>1, AloneOnChannel
  <2>3. ChanJob(q, i)'
    BY <2>2, NoChanJob
  <2> QED
    BY <2>2, <2>3
<1> QED
  BY <1>3, <1>4

\* A change of a List of the channel that adds no reader, or the channel to the
\* recorded List before the guard is set.
LEMMA ChannelEdited ==
  ASSUME TypeInv, KeysInv, ChanReached, guard => Closed,
         NEW x, NEW c, Edited(x, c), list[x].renamed => c.renamed,
         Channel \in c.readers => \/ Channel \in list[x].readers
                                  \/ x = listDoc[Channel].id /\ ~guard
  PROVE  /\ ChanReached' /\ (guard => Closed)'
         /\ \A i : Keyed(i, Channel) /\ Gone(i) => Gone(i)'
<1>1. ListOK
  BY DEF TypeInv
<1>2. /\ Len(list') = Len(list) /\ list'[x] = c /\ c.key = list[x].key /\ x \in 1..Len(list)
      /\ \A i \in 1..Len(list) : i # x => list'[i] = list[i]
      /\ UNCHANGED <<listDoc, guard>>
  BY <1>1, EditedLists DEF Edited
<1>3. ChanReached'
  BY <1>2 DEF ChanReached
<1>4. (guard => Closed)'
  BY <1>2 DEF Closed
<1>5. ASSUME NEW i, Keyed(i, Channel), Gone(i) PROVE Gone(i)'
  <2>1. i = 0 \/ (i \in 1..Len(list) /\ list[i].renamed)
    BY <1>5 DEF Keyed, Gone
  <2> QED
    BY <1>2, <2>1 DEF Gone
<1> QED
  BY <1>3, <1>4, <1>5

\* A handler moves with what it knows.
LEMMA ChannelMove ==
  ASSUME AccountsAssumption, TypeInv, KeysInv, ChannelInv, overrun \subseteq overrun',
         Kept, NEW h \in Handlers, NEW p, NEW j, Go(h, p, j),
         <<"list", Channel>> \notin overrun => ChanJob(p, j)
  PROVE  ChannelInv'
<1>1. KeysKept /\ ListsOnly(None) /\ UNCHANGED guard
  BY DEF KeysKept, ListsOnly, Kept
<1>2. None # Channel
  BY DEF AccountsAssumption, Keys
<1> QED
  BY <1>1, <1>2, ChannelStays

\* An unscoped synchronisation of the channel's List.
LEMMA ChannelSync ==
  ASSUME AccountsAssumption, TypeInv, Mutex, KeysInv, ChannelInv, overrun \subseteq overrun',
         NEW h \in Handlers, at[h] \in ListSync, job[h].key = Channel, L!ListStep(h)
  PROVE  ChannelInv'
<1>0. PICK j, d, n : j = job[h] /\ d = listDoc[Channel] /\ n = Len(list)
  OBVIOUS
<1>1. /\ JobOK(at[h], j) /\ KeyJob(at[h], j) /\ ListOK /\ j.key = Channel /\ j.user \in Users
      /\ Channel \in Keys /\ Channel # Shared /\ Channel \notin Users /\ n \in Nat
  <2>1. Personal(j) \/ ForChannel(j) \/ ForShared(j)
    BY <1>0, InHand DEF JobOK, ListJob
  <2>2. j.user \in Users
    BY <1>0, <2>1 DEF Personal, ForChannel, ForShared, AccountsAssumption
  <2> QED
    BY <1>0, <2>2, InHand, Lengths DEF KeysInv, TypeInv, AccountsAssumption, Keys
<1>2. KeyedDoc(d, Channel)
  BY <1>0, <1>1 DEF KeysInv
<1>3. <<"list", Channel>> \notin overrun =>
        /\ ChanReached /\ (guard => Closed) /\ ChanKnown(at[h], j, d)
  BY <1>0 DEF ChannelInv, ChanJob
<1>4. SyncShape(h)
  BY SyncShapes
<1>5. CASE ListGoes(h)
  <2>1. CASE Go(h, "idle", NoJob)
    <3>1. ChanJob("idle", NoJob)
      <4>1. "idle" \notin PastGuard
        BY DEF PastGuard, ListUse
      <4> QED
        BY <4>1, IdleChanJob
    <3> QED
      BY <1>5, <2>1, <3>1, ChannelMove DEF ListGoes
  <2>2. CASE \E p \in {"check guard", "read list", "release list", "acquire channel"} :
               /\ Go(h, p, job[h])
               /\ p = "read list" /\ job[h].key = Channel => ~guard
    <3>1. PICK p \in {"check guard", "read list", "release list", "acquire channel"} :
            Go(h, p, j) /\ (p = "read list" => ~guard)
      BY <1>0, <1>1, <2>2
    <3>2. ChanJob(p, j)
      BY <3>1, Zenon DEF ChanJob, ChanKnown, PastGuard, ListUse
    <3> QED
      BY <1>5, <3>1, <3>2, ChannelMove DEF ListGoes
  <2> QED
    BY <1>5, <2>1, <2>2 DEF ListGoes
<1>6. CASE ListRead(h)
  <2>1. PICK p, k : /\ at[h] = "read list" /\ Kept
                    /\ Go(h, p, k) /\ Alike(k, j) /\ k.doc = d
                    /\ p \in {"create list", "share list", "share with requester"}
    BY <1>0, <1>1, <1>6 DEF ListRead
  <2>2. <<"list", Channel>> \notin overrun => ~guard
    BY <1>1, <1>3, <2>1 DEF ChanKnown, PastGuard
  <2>3. <<"list", Channel>> \notin overrun => ChanJob(p, k)
    BY <1>0, <2>1, <2>2 DEF ChanJob, ChanKnown, ListUse
  <2> QED
    BY <2>1, <2>3, ChannelMove
<1>7. ASSUME at[h] \in PastGuard, NEW p, NEW k, Go(h, p, k),
             <<"list", Channel>> \notin overrun =>
               ChanReached' /\ (guard => Closed)' /\ ChanJob(p, k)'
      PROVE  ChannelInv'
  <2>1. PastGuard \subseteq ListSync \ {"acquire list"}
    BY DEF PastGuard, ListUse, ListSync
  <2>2. OnChannel(at[h], job[h])
    BY <1>7, <2>1 DEF OnChannel
  <2> QED
    BY <1>7, <2>2, ChannelChange
<1>8. CASE ListMade(h)
  <2>0. PICK c \in List : \E k : /\ c.readers = {} /\ list' = Append(list, c)
                                 /\ Go(h, "note list", k) /\ Alike(k, j)
                                 /\ k.doc.legacy = j.doc.id
    BY <1>0, <1>8 DEF ListMade
  <2>1. PICK k : /\ at[h] = "create list" /\ UNCHANGED <<listDoc, guard>>
                 /\ c.readers = {} /\ list' = Append(list, c)
                 /\ Go(h, "note list", k) /\ Alike(k, j)
                 /\ k.doc.legacy = j.doc.id
    BY <1>8, <2>0 DEF ListMade
  <2>2. PICK m : m = Len(list) + 1
    OBVIOUS
  <2>3. /\ list'[m] = c
        /\ \A x \in 1..Len(list') : x # m => x \in 1..Len(list)
        /\ \A x \in 1..Len(list) : list'[x] = list[x]
    BY <1>1, <2>1, <2>2, AppendedLists
  <2>4. ASSUME <<"list", Channel>> \notin overrun
        PROVE  ChanReached' /\ (guard => Closed)' /\ ChanJob("note list", k)'
    <3>1. ChanReached'
      BY <1>3, <2>1, <2>3, <2>4 DEF ChanReached
    <3>2. (guard => Closed)'
      BY <1>3, <2>1, <2>3, <2>4 DEF Closed
    <3>3. j.doc = d /\ ~guard
      BY <1>1, <1>3, <2>1, <2>4 DEF ChanKnown, PastGuard
    <3>4. d.legacy = 0
      BY <1>1, <2>1, <3>3 DEF KeyJob, KeyedDoc
    <3>5. ChanJob("note list", k)'
      BY <1>0, <2>1, <3>3, <3>4 DEF ChanJob, ChanKnown, ListUse
    <3> QED
      BY <3>1, <3>2, <3>5
  <2>5. at[h] \in PastGuard
    BY <2>1 DEF PastGuard
  <2> QED
    BY <1>7, <2>1, <2>4, <2>5
<1>9. CASE ListWritten(h)
  <2>1. PICK p \in {"share list", "share with requester", "add rows"} : Go(h, p, j)
    BY <1>0, <1>9 DEF ListWritten
  <2>2. /\ at[h] \in {"note list", "record list", "drop legacy"} /\ UNCHANGED <<list, guard>>
        /\ listDoc' = [listDoc EXCEPT ![Channel] = j.doc]
    BY <1>0, <1>1, <1>9 DEF ListWritten, Stored
  <2>3. PICK e : e = j.doc /\ listDoc'[Channel] = e
    BY <1>1, <2>2 DEF ListOK
  <2>4. at[h] \in PastGuard
    BY <2>2 DEF PastGuard, ListUse
  <2>5. ASSUME <<"list", Channel>> \notin overrun
        PROVE  ChanReached' /\ (guard => Closed)' /\ ChanJob(p, j)'
    <3>1. ~guard
      BY <1>1, <1>3, <2>4, <2>5 DEF ChanKnown
    <3>2. ASSUME NEW i \in 1..Len(list), Channel \in list[i].readers, list[i].key = Channel
          PROVE  list[i].renamed \/ i \in {e.id, e.legacy}
      <4>1. i # 0
        <5>1. i \in 1..n
          BY <1>0, <3>2
        <5> QED
          BY <1>1, <5>1, Positive
      <4>2. list[i].renamed \/ i \in {d.id, d.legacy}
        BY <1>0, <1>3, <2>5, <3>2 DEF ChanReached
      <4>3. CASE at[h] = "note list"
        <5>1. e.legacy = d.id /\ d.legacy = 0
          BY <1>1, <1>3, <2>3, <2>5, <4>3 DEF ChanKnown
        <5> QED
          BY <4>1, <4>2, <5>1
      <4>4. CASE at[h] = "record list"
        <5>1. e.id = d.id /\ e.legacy = d.legacy
          BY <1>1, <1>3, <2>3, <2>5, <4>4 DEF ChanKnown, ListUse
        <5> QED
          BY <4>2, <5>1
      <4>5. CASE at[h] = "drop legacy"
        <5>1. e.id = d.id /\ Gone(d.legacy)
          BY <1>1, <1>3, <2>3, <2>5, <4>5 DEF ChanKnown
        <5> QED
          BY <4>1, <4>2, <5>1 DEF Gone
      <4> QED
        BY <2>2, <4>3, <4>4, <4>5
    <3>3. ChanReached'
      BY <2>2, <2>3, <3>2 DEF ChanReached
    <3>4. ~guard'
      BY <2>2, <3>1
    <3>5. ChanJob(p, j)'
      BY <2>1, <2>3, <3>4 DEF ChanJob, ChanKnown, ListUse
    <3> QED
      BY <3>3, <3>4, <3>5
  <2> QED
    BY <1>7, <2>1, <2>4, <2>5
<1>10. ASSUME at[h] \in ListUse, NEW x, NEW c, Edited(x, c), list[x].renamed => c.renamed,
              Channel \in c.readers => \/ Channel \in list[x].readers
                                       \/ x = j.doc.id /\ at[h] = "share list",
              NEW p, NEW k, Go(h, p, k),
              <<"list", Channel>> \notin overrun /\ ~guard => ChanKnown(p, k, d)'
       PROVE  ChannelInv'
  <2>1. at[h] \in PastGuard /\ listDoc'[Channel] = d
    BY <1>0, <1>10 DEF PastGuard, Edited
  <2>2. ASSUME <<"list", Channel>> \notin overrun
        PROVE  ChanReached' /\ (guard => Closed)' /\ ChanJob(p, k)'
    <3>1. ~guard
      BY <1>1, <1>3, <2>1, <2>2 DEF ChanKnown
    <3>2. at[h] = "share list" => j.doc.id = d.id
      BY <1>1, <1>3, <2>2 DEF ChanKnown, ListUse
    <3>3. ChanReached' /\ (guard => Closed)'
      BY <1>0, <1>3, <1>10, <2>2, <3>1, <3>2, ChannelEdited
    <3>4. ChanJob(p, k)'
      BY <1>10, <2>1, <2>2, <3>1 DEF ChanJob
    <3> QED
      BY <3>3, <3>4
  <2> QED
    BY <1>7, <1>10, <2>1, <2>2
<1>11. ASSUME at[h] \in ListUse \ {"note list", "drop legacy"}, UNCHANGED guard,
              <<"list", Channel>> \notin overrun /\ ~guard,
              NEW p \in (ListUse \ {"note list", "drop legacy"}) \cup {"release list"},
              NEW k, Alike(k, j), SameDoc(k, j)
       PROVE  ChanKnown(p, k, d)'
  <2>1. j.doc.id = d.id /\ j.doc.legacy = d.legacy
    BY <1>1, <1>3, <1>11 DEF ChanKnown
  <2>2. k.doc.id = d.id /\ k.doc.legacy = d.legacy /\ ~guard'
    BY <1>11, <2>1 DEF SameDoc
  <2> QED
    BY <1>11, <2>2, Zenon DEF ChanKnown, ListUse
<1>12. Alike(j, j) /\ SameDoc(j, j)
  BY <1>1, JobFields DEF SameDoc, JobOK
<1>13. CASE ListShared(h) \/ ListAsked(h) \/ ListFilled(h)
  <2>1. at[h] \in ListUse \ {"note list", "drop legacy"}
    BY <1>13 DEF ListShared, ListAsked, ListFilled, ListUse
  <2>2. L!Target(Channel) = Channel
    BY <1>1 DEF L!Target
  <2>3. Channel \notin L!Requester(h)
    BY <1>0, <1>1 DEF L!Requester
  <2>4. PICK c : /\ Edited(j.doc.id, c) /\ c.renamed = list[j.doc.id].renamed
                 /\ Channel \in c.readers => Channel \in list[j.doc.id].readers \/ at[h] = "share list"
    BY <1>0, <1>1, <1>13, <2>2, <2>3 DEF ListShared, ListAsked, ListFilled
  <2>5. PICK p, k : /\ Go(h, p, k) /\ Alike(k, j) /\ SameDoc(k, j)
                    /\ p \in {"record list", "rename legacy", "add rows", "delete rows", "release list"}
    BY <1>0, <1>12, <1>13 DEF ListShared, ListAsked, ListFilled
  <2>6. p \in (ListUse \ {"note list", "drop legacy"}) \cup {"release list"}
    BY <2>5 DEF ListUse
  <2>7. <<"list", Channel>> \notin overrun /\ ~guard => ChanKnown(p, k, d)'
    BY <1>11, <2>1, <2>4, <2>5, <2>6 DEF Edited
  <2> QED
    BY <1>10, <2>1, <2>4, <2>5, <2>7
<1>14. CASE ListRenamed(h)
  <2>1. PICK c, k : /\ Edited(j.doc.legacy, c) /\ c.readers = list[j.doc.legacy].readers
                    /\ c.renamed /\ at[h] = "rename legacy"
                    /\ Go(h, "drop legacy", k) /\ Alike(k, j) /\ k.doc.id = j.doc.id
    BY <1>0, <1>14 DEF ListRenamed
  <2>2. at[h] \in ListUse
    BY <2>1 DEF ListUse
  <2>3. ASSUME <<"list", Channel>> \notin overrun, ~guard
        PROVE  ChanKnown("drop legacy", k, d)'
    <3>1. j.doc.id = d.id /\ j.doc.legacy = d.legacy
      BY <1>1, <1>3, <2>1, <2>3 DEF ChanKnown, ListUse
    <3>2. list'[d.legacy] = c
      BY <1>1, <2>1, <3>1, EditedLists, ZenonT(60)
    <3>3. Gone(d.legacy)' /\ ~guard'
      BY <2>1, <2>3, <3>2 DEF Gone, Edited
    <3> QED
      BY <2>1, <3>1, <3>3, Zenon DEF ChanKnown, ListUse
  <2> QED
    BY <1>10, <2>1, <2>2, <2>3
<1> QED
  BY <1>4, <1>5, <1>6, <1>8, <1>9, <1>13, <1>14 DEF SyncShape

\* Another synchronisation.
LEMMA ChannelOther ==
  ASSUME AccountsAssumption, TypeInv, KeysInv, ChannelInv, overrun \subseteq overrun',
         NEW h \in Handlers, at[h] \in ListSync, job[h].key # Channel, L!ListStep(h),
         UNCHANGED identity
  PROVE  ChannelInv'
<1>1. KeysKept /\ ListsOnly(job[h].key)
  BY SyncOnly DEF ListOnly
<1>2. UNCHANGED guard
  BY SyncShapes DEF SyncShape, ListGoes, ListRead, ListMade, ListWritten, ListShared, ListAsked,
     ListRenamed, ListFilled, Kept, Stored, Edited
<1>3. ASSUME NEW p, NEW k, Go(h, p, k), ~OnChannel(p, k) PROVE ChannelInv'
  BY <1>1, <1>2, <1>3, NoChanJob, ChannelStays
<1>4. CASE Go(h, "idle", NoJob)
  <2>1. ~OnChannel("idle", NoJob)
    BY DEF OnChannel, ListSync, Migrating, L!MigrationPlaces
  <2> QED
    BY <1>3, <1>4, <2>1
<1>5. ASSUME NEW p \in ListSync, NEW k, Go(h, p, k), Alike(k, job[h]) PROVE ChannelInv'
  <2>1. ~OnChannel(p, k)
    BY <1>5 DEF OnChannel, ListSync, Migrating, L!MigrationPlaces, Alike
  <2> QED
    BY <1>3, <1>5, <2>1
<1>6. CASE Go(h, "acquire channel", job[h])
  <2>1. ~OnChannel("acquire channel", job[h])
    BY DEF OnChannel, ListSync
  <2> QED
    BY <1>3, <1>6, <2>1
<1> QED
  BY <1>4, <1>5, <1>6, ListPaths

\* What is left to close when the first of them is closed.
LEMMA Remaining ==
  ASSUME NEW s \in Seq(Nat), s # <<>>, NEW n \in 1..Len(s), s[n] # Head(s)
  PROVE  Len(s) # 1 /\ \E m \in 1..Len(Tail(s)) : Tail(s)[m] = s[n]
<1>1. /\ Len(s) \in Nat /\ Head(s) = s[1] /\ Len(Tail(s)) = Len(s) - 1
      /\ \A m \in 1..Len(Tail(s)) : Tail(s)[m] = s[m + 1]
  BY HeadTailProperties, LenProperties, EmptySeq
<1>2. n # 1
  BY <1>1
<1>3. PICK m : m = n - 1
  OBVIOUS
<1>4. m \in 1..Len(Tail(s)) /\ m + 1 = n /\ Len(s) # 1
  BY <1>1, <1>2, <1>3
<1> QED
  BY <1>1, <1>4

LEMMA LegacyIds ==
  ASSUME NEW d \in ListState, NEW i \in {d.id, d.legacy}, i # 0
  PROVE  \E n \in 1..Len(L!Legacies(d)) : L!Legacies(d)[n] = i
<1>1. PICK a, b : a = d.id /\ b = d.legacy
  OBVIOUS
<1>2. CASE b = 0
  <2>1. L!Legacies(d) = <<a>> /\ i = a
    BY <1>1, <1>2 DEF L!Legacies
  <2>2. Len(<<a>>) = 1 /\ <<a>>[1] = a /\ 1 \in 1..1
    OBVIOUS
  <2> QED
    BY <2>1, <2>2
<1>3. CASE b # 0
  <2>1. L!Legacies(d) = <<b, a>> /\ i \in {a, b}
    BY <1>1, <1>3 DEF L!Legacies
  <2>2. Len(<<b, a>>) = 2 /\ <<b, a>>[1] = b /\ <<b, a>>[2] = a /\ 1 \in 1..2 /\ 2 \in 1..2
    OBVIOUS
  <2> QED
    BY <2>1, <2>2
<1> QED
  BY <1>2, <1>3

\* The migration.
LEMMA ChannelMigration ==
  ASSUME AccountsAssumption, TypeInv, Mutex, KeysInv, ChannelInv, overrun \subseteq overrun',
         NEW h \in Handlers, at[h] \in Migrating, L!ListStep(h)
  PROVE  ChannelInv'
<1>0. PICK j, d, s : j = job[h] /\ d = listDoc[Channel] /\ s = j.ids
  OBVIOUS
<1>1. /\ JobOK(at[h], j) /\ ListOK /\ Channel \in Keys /\ j.user = None /\ j.key # Channel
      /\ s \in Seq(Nat) /\ d \in ListState
  <2>1. j.user = None /\ (j.key = None \/ ForShared(j)) /\ j \in Job
    BY <1>0, InHand DEF JobOK, ListJob
  <2>2. j.key # Channel
    BY <2>1 DEF ForShared, AccountsAssumption, Keys
  <2>3. s \in Seq(Nat)
    BY <1>0, <2>1 DEF Job
  <2> QED
    BY <1>0, <2>1, <2>2, <2>3, InHand DEF TypeInv, ListOK, Keys
<1>2. /\ Keyed(d.id, Channel) /\ Keyed(d.legacy, Channel)
      /\ d.id = 0 => d.legacy = 0
  BY <1>0, <1>1 DEF KeysInv, KeyedDoc, ListOK
<1>3. <<"list", Channel>> \notin overrun =>
        /\ ChanReached /\ (guard => Closed) /\ ChanKnown(at[h], j, d)
  BY <1>0 DEF ChannelInv, ChanJob
<1>4. ChannelShape(h)
  BY ChannelShapes
<1>5. CASE ChannelGoes(h)
  <2>1. CASE \/ Go(h, "idle", NoJob)
             \/ Go(h, "read legacy", j)
    <3>1. PICK p \in {"idle", "read legacy"} : \E k : Go(h, p, k)
      BY <2>1
    <3>2. PICK k : Go(h, p, k)
      BY <3>1
    <3>3. p \notin PastGuard
      BY DEF PastGuard, ListUse
    <3>4. ChanJob(p, k)
      BY <3>3, IdleChanJob
    <3> QED
      BY <1>5, <3>2, <3>4, ChannelMove DEF ChannelGoes
  <2>2. CASE \E p \in {"release list", "read list"} : \E k :
               Go(h, p, k) /\ k.user = None /\ k.key = Shared
    <3>1. PICK p, k : /\ p \in {"release list", "read list"} /\ Go(h, p, k)
                    /\ k.key = Shared
      BY <2>2
    <3>2. ~OnChannel(p, k)
      BY <3>1 DEF OnChannel, Migrating, L!MigrationPlaces, AccountsAssumption
    <3> QED
      BY <1>5, <3>1, <3>2, NoChanJob, ChannelMove DEF ChannelGoes
  <2> QED
    BY <1>0, <1>5, <2>1, <2>2 DEF ChannelGoes
<1>6. CASE ChannelRead(h)
  <2>1. PICK p, k : /\ Go(h, p, k) /\ k.doc = d /\ Kept
                    /\ \/ p = "set guard" /\ d.id = 0
                       \/ p = "close legacy" /\ k.ids = L!Legacies(d)
    BY <1>0, <1>6 DEF ChannelRead
  <2>2. CASE p = "set guard"
    <3>1. Gone(d.id) /\ Gone(d.legacy)
      BY <1>2, <2>1, <2>2 DEF Gone
    <3>2. ChanJob(p, k)
      BY <1>0, <2>2, <3>1, Zenon DEF ChanJob, ChanKnown, PastGuard, ListUse
    <3> QED
      BY <2>1, <3>2, ChannelMove
  <2>3. CASE p = "close legacy"
    <3>1. ASSUME NEW i \in {d.id, d.legacy}
          PROVE  Gone(i) \/ \E n \in 1..Len(k.ids) : k.ids[n] = i
      <4>1. CASE i = 0
        BY <4>1 DEF Gone
      <4>2. CASE i # 0
        <5>1. k.ids = L!Legacies(d)
          BY <2>1, <2>3
        <5>2. \E n \in 1..Len(L!Legacies(d)) : L!Legacies(d)[n] = i
          BY <1>1, <4>2, LegacyIds
        <5> QED
          BY <5>1, <5>2
      <4> QED
        BY <4>1, <4>2
    <3>2. ChanJob(p, k)
      BY <1>0, <2>3, <3>1, Zenon DEF ChanJob, ChanKnown, PastGuard, ListUse
    <3> QED
      BY <2>1, <3>2, ChannelMove
  <2> QED
    BY <2>1, <2>2, <2>3
<1>7. ASSUME at[h] \in L!MigrationPlaces, NEW p, NEW k, Go(h, p, k),
             <<"list", Channel>> \notin overrun =>
               ChanReached' /\ (guard => Closed)' /\ ChanJob(p, k)'
      PROVE  ChannelInv'
  <2>1. OnChannel(at[h], job[h])
    BY <1>7 DEF OnChannel, Migrating, L!MigrationPlaces
  <2> QED
    BY <1>7, <2>1, ChannelChange
<1>8. ASSUME at[h] \in {"close legacy", "clear legacy", "mark legacy"}
      PROVE  /\ at[h] \in L!MigrationPlaces /\ s # <<>>
             /\ <<"list", Channel>> \notin overrun =>
                  \A i \in {d.id, d.legacy} : Gone(i) \/ \E n \in 1..Len(s) : s[n] = i
  <2>1. at[h] \in L!MigrationPlaces
    BY <1>8 DEF L!MigrationPlaces
  <2>2. s # <<>>
    BY <1>0, <1>1, <1>8 DEF JobOK, ListJob
  <2> QED
    BY <1>0, <1>3, <1>8, <2>1, <2>2, ZenonT(60) DEF ChanKnown
<1>9. ASSUME NEW x, NEW c, Edited(x, c), list[x].renamed => c.renamed,
             c.readers \subseteq list[x].readers, <<"list", Channel>> \notin overrun
      PROVE  /\ ChanReached' /\ (guard => Closed)' /\ listDoc'[Channel] = d
             /\ \A i \in {d.id, d.legacy} : Gone(i) => Gone(i)'
  <2>1. /\ ChanReached' /\ (guard => Closed)'
        /\ \A i : Keyed(i, Channel) /\ Gone(i) => Gone(i)'
    BY <1>3, <1>9, ChannelEdited
  <2>2. listDoc'[Channel] = d
    BY <1>0, <1>9 DEF Edited
  <2> QED
    BY <1>2, <2>1, <2>2
<1>10. CASE ChannelClosed(h)
  <2>0. PICK x : x = Head(s)
    OBVIOUS
  <2>1. PICK c : Edited(x, c) /\ c.readers \subseteq list[x].readers /\ c.renamed = list[x].renamed
    BY <1>0, <1>10, <2>0 DEF ChannelClosed
  <2>2. PICK p \in {"clear legacy", "mark legacy"} : Go(h, p, j)
    BY <1>0, <1>10 DEF ChannelClosed
  <2>3. at[h] \in {"close legacy", "clear legacy", "mark legacy"}
    BY <1>10 DEF ChannelClosed
  <2>4. ASSUME <<"list", Channel>> \notin overrun
        PROVE  ChanReached' /\ (guard => Closed)' /\ ChanJob(p, j)'
    <3>1. /\ ChanReached' /\ (guard => Closed)' /\ listDoc'[Channel] = d
          /\ \A i \in {d.id, d.legacy} : Gone(i) => Gone(i)'
      BY <1>9, <2>1, <2>4
    <3>2. \A i \in {d.id, d.legacy} : Gone(i)' \/ \E n \in 1..Len(j.ids) : j.ids[n] = i
      BY <1>0, <1>8, <2>3, <2>4, <3>1
    <3>3. ChanJob(p, j)'
      BY <3>1, <3>2, Zenon DEF ChanJob, ChanKnown, PastGuard, ListUse
    <3> QED
      BY <3>1, <3>3
  <2> QED
    BY <1>7, <1>8, <2>2, <2>3, <2>4
<1>11. CASE ChannelMarked(h)
  <2>0. PICK x : x = Head(s)
    OBVIOUS
  <2>1. PICK c, p, k : /\ Edited(x, c) /\ c.readers = list[x].readers /\ c.renamed
                       /\ Go(h, p, k) /\ k.ids = Tail(s)
                       /\ \/ p = "set guard" /\ Len(s) = 1
                          \/ p = "close legacy" /\ Len(s) # 1
    BY <1>0, <1>11, <2>0 DEF ChannelMarked
  <2>2. at[h] \in {"close legacy", "clear legacy", "mark legacy"}
    BY <1>11 DEF ChannelMarked
  <2>3. ASSUME <<"list", Channel>> \notin overrun
        PROVE  ChanReached' /\ (guard => Closed)' /\ ChanJob(p, k)'
    <3>1. /\ ChanReached' /\ (guard => Closed)' /\ listDoc'[Channel] = d
          /\ \A i \in {d.id, d.legacy} : Gone(i) => Gone(i)'
      BY <1>9, <2>1, <2>3
    <3>2. Gone(x)'
      <4>1. list'[x] = c
        BY <1>1, <2>1, EditedLists
      <4> QED
        BY <2>1, <4>1 DEF Gone
    <3>3. ASSUME NEW i \in {d.id, d.legacy}
          PROVE  Gone(i)' \/ (Len(s) # 1 /\ \E n \in 1..Len(Tail(s)) : Tail(s)[n] = i)
      <4>1. CASE Gone(i)
        BY <3>1, <4>1
      <4>2. CASE i = x
        BY <3>2, <4>2
      <4>3. CASE ~Gone(i) /\ i # x
        <5>1. s # <<>> /\ \E n \in 1..Len(s) : s[n] = i
          BY <1>8, <2>2, <2>3, <4>3
        <5> QED
          <6>1. PICK n \in 1..Len(s) : s[n] = i
            BY <5>1
          <6>2. s \in Seq(Nat) /\ s[n] # Head(s)
            BY <1>1, <2>0, <4>3, <6>1
          <6>3. Len(s) # 1 /\ \E m \in 1..Len(Tail(s)) : Tail(s)[m] = s[n]
            BY <5>1, <6>2, Remaining
          <6> QED
            BY <6>1, <6>3
      <4> QED
        BY <4>1, <4>2, <4>3
    <3>4. CASE p = "set guard"
      <4>1. Gone(d.id)' /\ Gone(d.legacy)'
        BY <2>1, <3>3, <3>4
      <4>2. ChanJob(p, k)'
        BY <3>1, <3>4, <4>1, Zenon DEF ChanJob, ChanKnown, PastGuard, ListUse
      <4> QED
        BY <3>1, <4>2
    <3>5. CASE p = "close legacy"
      <4>1. \A i \in {d.id, d.legacy} : Gone(i)' \/ \E n \in 1..Len(k.ids) : k.ids[n] = i
        BY <2>1, <3>3
      <4>2. ChanJob(p, k)'
        BY <3>1, <3>5, <4>1, Zenon DEF ChanJob, ChanKnown, PastGuard, ListUse
      <4> QED
        BY <3>1, <4>2
    <3> QED
      BY <2>1, <3>4, <3>5
  <2> QED
    BY <1>7, <1>8, <2>1, <2>2, <2>3
<1>12. ASSUME at[h] \in {"set guard", "forget legacy"}, <<"list", Channel>> \notin overrun
       PROVE  Closed /\ Gone(d.id) /\ Gone(d.legacy)
  <2>1. Gone(d.id) /\ Gone(d.legacy)
    BY <1>3, <1>12 DEF ChanKnown
  <2>2. ASSUME NEW i \in 1..Len(list), Channel \in list[i].readers, list[i].key = Channel
        PROVE  list[i].renamed
    <3>1. list[i].renamed \/ i \in {d.id, d.legacy}
      BY <1>0, <1>3, <1>12, <2>2 DEF ChanReached
    <3>2. PICK n : n = Len(list) /\ n \in Nat
      BY Lengths, <1>1 DEF TypeInv
    <3>3. i \in 1..n
      BY <3>2
    <3>4. i # 0
      BY <3>2, <3>3, Positive
    <3> QED
      BY <2>1, <3>1, <3>4 DEF Gone
  <2> QED
    BY <2>1, <2>2 DEF Closed
<1>13. CASE ChannelGuarded(h)
  <2>1. PICK p \in {"release channel", "forget legacy"} : Go(h, p, j)
    BY <1>0, <1>13 DEF ChannelGuarded
  <2>2. at[h] = "set guard" /\ UNCHANGED <<list, listDoc>>
    BY <1>13 DEF ChannelGuarded
  <2>3. at[h] \in L!MigrationPlaces
    BY <2>2 DEF L!MigrationPlaces
  <2>4. ASSUME <<"list", Channel>> \notin overrun
        PROVE  ChanReached' /\ (guard => Closed)' /\ ChanJob(p, j)'
    <3>1. ChanReached /\ Closed /\ Gone(d.id) /\ Gone(d.legacy)
      BY <1>3, <1>12, <2>2, <2>4
    <3>2. ChanReached' /\ Closed'
      BY <2>2, <3>1 DEF ChanReached, Closed
    <3>3. listDoc'[Channel] = d /\ Gone(d.id)' /\ Gone(d.legacy)'
      BY <1>0, <2>2, <3>1 DEF Gone
    <3>4. ChanJob(p, j)'
      BY <2>1, <3>3, Zenon DEF ChanJob, ChanKnown, PastGuard, ListUse
    <3> QED
      BY <3>2, <3>4
  <2> QED
    BY <1>7, <2>1, <2>3, <2>4
<1>14. CASE ChannelForgotten(h)
  <2>1. /\ at[h] = "forget legacy" /\ UNCHANGED <<list, guard>> /\ Go(h, "release channel", j)
    BY <1>0, <1>14 DEF ChannelForgotten, Stored
  <2>2. at[h] \in L!MigrationPlaces
    BY <2>1 DEF L!MigrationPlaces
  <2>3. ASSUME <<"list", Channel>> \notin overrun
        PROVE  ChanReached' /\ (guard => Closed)' /\ ChanJob("release channel", j)'
    <3>1. Closed
      BY <1>12, <2>1, <2>3
    <3>2. Closed'
      BY <2>1, <3>1 DEF Closed
    <3>3. ChanReached'
      BY <3>2 DEF ChanReached, Closed
    <3>4. ChanJob("release channel", j)'
      <4>1. "release channel" \notin PastGuard
        BY DEF PastGuard, ListUse
      <4> QED
        BY <4>1, IdleChanJob
    <3> QED
      BY <3>2, <3>3, <3>4
  <2> QED
    BY <1>7, <2>1, <2>2, <2>3
<1> QED
  BY <1>4, <1>5, <1>6, <1>10, <1>11, <1>13, <1>14 DEF ChannelShape

\* A revocation is of a user's List.
LEMMA RevokeOnly ==
  ASSUME AccountsAssumption, TypeInv, KeysInv, NEW h \in Handlers,
         L!FindList(h) \/ L!CloseList(h) \/ L!ForgetList(h), UNCHANGED identity
  PROVE  KeysKept /\ ListOnly(job[h].user) /\ UNCHANGED guard
<1>0. PICK j, u : j = job[h] /\ u = j.user
  OBVIOUS
<1>1. KeyJob(at[h], j) /\ RevokeShape(h)
  BY <1>0, RevokeShapes DEF KeysInv
<1>2. CASE RevokeGoes(h) \/ RevokeFound(h)
  BY <1>2 DEF RevokeGoes, RevokeFound, Kept, KeysKept, ListOnly, ListsOnly
<1>3. CASE RevokeClosed(h)
  <2>1. PICK i, c : i = j.doc.id /\ Edited(i, c) /\ at[h] = "close list"
    BY <1>0, <1>3 DEF RevokeClosed
  <2>2. i # 0
    <3>1. PICK n : n = Len(list) /\ n \in Nat
      BY Lengths DEF TypeInv
    <3>2. i \in 1..n
      BY <2>1, <3>1 DEF Edited
    <3> QED
      BY <3>1, <3>2, Positive
  <2>3. list[i].key = u
    BY <1>0, <1>1, <2>1, <2>2 DEF KeyJob, Keyed
  <2> QED
    BY <1>0, <2>1, <2>3, EditOnly DEF Edited
<1>4. CASE RevokeForgot(h)
  BY <1>4, StoreOnly DEF RevokeForgot, Stored
<1> QED
  BY <1>1, <1>2, <1>3, <1>4 DEF RevokeShape

LEMMA ChannelRevoke ==
  ASSUME AccountsAssumption, TypeInv, KeysInv, ChannelInv, overrun \subseteq overrun',
         NEW h \in Handlers, L!FindList(h) \/ L!CloseList(h) \/ L!ForgetList(h),
         UNCHANGED identity
  PROVE  ChannelInv'
<1>1. /\ KeysKept /\ ListsOnly(job[h].user) /\ UNCHANGED guard /\ job[h].user # Channel
  BY RevokeOnly, RevokeShapes DEF AccountsAssumption, ListOnly
<1>2. PICK p \in {"idle", "save", "unlink", "close list", "forget list"} : \E k : Go(h, p, k)
  <2>1. CASE RevokeGoes(h)
    BY <2>1, ZenonT(60) DEF RevokeGoes
  <2>2. CASE RevokeFound(h)
    BY <2>2 DEF RevokeFound
  <2>3. CASE RevokeClosed(h)
    BY <2>3 DEF RevokeClosed
  <2>4. CASE RevokeForgot(h)
    BY <2>4, ZenonT(60) DEF RevokeForgot
  <2> QED
    BY <2>1, <2>2, <2>3, <2>4, RevokeShapes DEF RevokeShape
<1>3. PICK k : Go(h, p, k)
  BY <1>2
<1>4. p \notin PastGuard
  BY DEF PastGuard, ListUse
<1> QED
  BY <1>1, <1>3, <1>4, IdleChanJob, ChannelStays

LEMMA ChannelNext ==
  ASSUME AccountsAssumption, TypeInv, Mutex, KeysInv, ChannelInv, [Next]_vars
  PROVE  ChannelInv'
<1>0. overrun \subseteq overrun'
  BY RecordGrows
<1>1. CASE UNCHANGED <<at, job, list, listDoc, guard>>
  <2>1. SUFFICES ASSUME <<"list", Channel>> \notin overrun PROVE ChannelInv'
    BY <1>0 DEF ChannelInv
  <2>2. ChanReached' /\ (guard => Closed)'
    BY <1>1, <2>1 DEF ChannelInv, ChanReached, Closed
  <2>3. ASSUME NEW h \in Handlers PROVE ChanJob(at[h], job[h])'
    BY <1>1, <2>1, ZenonT(60) DEF ChannelInv, ChanJob, ChanKnown, Gone
  <2> QED
    BY <2>2, <2>3 DEF ChannelInv
<1>2. ASSUME NEW h \in Handlers, NEW p \in OffLists \cup LinkPlaces, NEW j, Go(h, p, j),
             UNCHANGED <<list, listDoc, guard>>
      PROVE  ChannelInv'
  BY <1>0, <1>2, OffChanJob, ChannelMove DEF Kept
<1>3. ASSUME NEW h \in Handlers, LinkStep(h), UNCHANGED <<list, listDoc, guard>> PROVE ChannelInv'
  <2>1. PICK p \in QuietPlaces \cup {"save", "remove", "save reverse", "remove reverse"} :
          \E j : Go(h, p, j)
    BY <1>3, LinkShapes
  <2>2. p \in OffLists \cup LinkPlaces
    BY DEF QuietPlaces, LinkPlaces, OffLists, Plain
  <2> QED
    BY <1>2, <1>3, <2>1, <2>2
<1>4. ASSUME NEW h \in Handlers, L!ListStep(h), UNCHANGED identity PROVE ChannelInv'
  BY <1>0, <1>4, ListStepKinds, ChannelSync, ChannelOther, ChannelMigration, ChannelRevoke
<1> QED
  BY <1>1, <1>2, <1>3, <1>4, ListViews

LEMMA ChannelInit ==
  ASSUME AccountsAssumption, Init
  PROVE  ChannelInv
<1>1. at = [h \in Handlers |-> "idle"]
  BY DEF Init, InitHandlers
<1>2. \A h \in Handlers : ChanJob(at[h], job[h])
  <2>1. "idle" \notin PastGuard
    BY DEF PastGuard, ListUse
  <2> QED
    BY <1>1, <2>1, IdleChanJob
<1>3. PICK s \in Scenarios : L!InitLists(s.list)
  BY DEF Init
<1>4. guard = FALSE
  BY <1>3 DEF L!InitLists
<1>5. ChanReached
  <2>1. CASE s.list = "none"
    <3>1. list = <<>>
      BY <1>3, <2>1 DEF L!InitLists
    <3>2. 1..Len(list) = {}
      BY <3>1
    <3> QED
      BY <3>2 DEF ChanReached
  <2>2. CASE s.list # "none"
    <3>1. PICK c : c = [L!NewList(Channel) EXCEPT !.readers = {Channel}, !.rows = {All}]
      OBVIOUS
    <3>2. list = <<c>>
      BY <1>3, <2>2, <3>1 DEF L!InitLists
    <3>3. \A i \in 1..Len(list) : i = 1
      BY <3>2
    <3>4. Channel \in Keys /\ Channel \in L!Keys
      BY DEF Keys, L!Keys
    <3>5. PICK d : d = [L!NoList EXCEPT !.id = 1, !.current = s.list = "current"]
      OBVIOUS
    <3>6. d.id = 1
      BY <3>5 DEF L!NoList
    <3>7. listDoc[Channel] = d
      BY <1>3, <2>2, <3>4, <3>5 DEF L!InitLists
    <3> QED
      BY <3>3, <3>6, <3>7 DEF ChanReached
  <2> QED
    BY <2>1, <2>2
<1> QED
  BY <1>2, <1>4, <1>5 DEF ChannelInv

-----------------------------------------------------------------------------
(* The theorems.                                                           *)

ViewsInv ==
  Apart /\ IdentityInv /\ Mutex /\ CanvasInv /\ KeysInv /\ ListInv /\ ChannelInv

\* What the handlers, the leases, the Canvases and the Lists know of one another
\* is kept by every step (identity-service.ts, canvas-service.ts and
\* project-list-service.ts together).
THEOREM Viewed == Spec => []ViewsInv
<1>1. AccountsAssumption
  BY AccountsAssumption
<1>2. Init => ViewsInv
  BY <1>1, InitApart, IdentityInit, MutexInit, CanvasInit, KeysInit, ListInit, ChannelInit
     DEF ViewsInv
<1>3. TypeInv /\ TypeInv' /\ ViewsInv /\ [Next]_vars => ViewsInv'
  <2>1. SUFFICES ASSUME TypeInv, TypeInv', ViewsInv, [Next]_vars PROVE ViewsInv'
    OBVIOUS
  <2>2. Apart /\ IdentityInv /\ Mutex /\ CanvasInv /\ KeysInv /\ ListInv /\ ChannelInv
    BY <2>1 DEF ViewsInv
  <2>3. Apart' /\ IdentityInv'
    BY <1>1, <2>1, <2>2, Recorded, NextKinds, IdentityNext
  <2>4. Mutex' /\ CanvasInv'
    BY <1>1, <2>1, <2>2, MutexNext, CanvasNext
  <2>5. KeysInv' /\ ListInv' /\ ChannelInv'
    BY <1>1, <2>1, <2>2, KeysNext, ListNext, ChannelNext
  <2> QED
    BY <2>3, <2>4, <2>5 DEF ViewsInv
<1> QED
  BY <1>2, <1>3, Typed, PTL DEF Spec

\* A Canvas or List that is there is not number 0.
LEMMA CountedFromOne ==
  ASSUME TypeInv
  PROVE  /\ DOMAIN list = 1..Len(list)
         /\ 0 \notin DOMAIN canvas /\ 0 \notin DOMAIN list
<1>1. PICK m, n : m = Len(canvas) /\ n = Len(list) /\ m \in Nat /\ n \in Nat
  BY Lengths
<1>2. DOMAIN canvas = 1..m /\ DOMAIN list = 1..n
  BY <1>1, LenProperties DEF TypeInv, CanvasOK, ListOK
<1>3. 0 \notin 1..m /\ 0 \notin 1..n
  BY <1>1
<1> QED
  BY <1>1, <1>2, <1>3

\* What a user of whom nothing crossed or ran out can read is recorded, so that a
\* revocation finds it: the Canvas and the personal List
\* (canvas-service.ts and project-list-service.ts, revokeViewerAccess).
THEOREM AllIsTracked == Spec => []NothingUntracked
<1>1. TypeInv /\ ViewsInv => NothingUntracked
  <2>1. SUFFICES ASSUME TypeInv, ViewsInv PROVE NothingUntracked
    OBVIOUS
  <2>2. \A u \in Calm("canvas") : Reached(u)
    BY <2>1 DEF ViewsInv, CanvasInv, CanvasOf
  <2>3. \A u \in Calm("list") : ListReached(u)
    BY <2>1 DEF ViewsInv, ListInv, ListOf
  <2> QED
    BY <2>1, <2>2, <2>3, CountedFromOne DEF NothingUntracked, Reached, ListReached
<1> QED
  BY <1>1, Typed, Viewed, PTL

\* A user of whom nothing crossed or ran out reads no work but that of the account
\* linked at the time, in every state of a relink, a disconnection or a
\* synchronisation, finished or not (identity-service.ts, revokeProjection).
THEOREM OwnAccountShown == Spec => []ShowsOwnAccount
<1>1. TypeInv /\ ViewsInv => ShowsOwnAccount
  <2>1. SUFFICES ASSUME TypeInv, ViewsInv, NEW u \in Calm("canvas") \cap Calm("list")
                 PROVE  ShowsOwn(u)
    BY DEF ShowsOwnAccount
  <2>2. Reached(u) /\ Shown(u) /\ ListReached(u) /\ ListShown(u)
    BY <2>1 DEF ViewsInv, CanvasInv, CanvasOf, ListInv, ListOf
  <2>3. ASSUME NEW i \in DOMAIN canvas, u \in canvas[i].readers
        PROVE  canvas[i].shows = identity[u]
    <3>1. canvasDoc[u].id = i
      BY <2>2, <2>3 DEF Reached
    <3>2. i # 0
      <4>1. 0 \notin DOMAIN canvas
        BY <2>1, CountedFromOne
      <4> QED
        BY <2>3, <4>1
    <3> QED
      BY <2>2, <3>1, <3>2 DEF Shown
  <2>4. ASSUME NEW i \in DOMAIN list, u \in list[i].readers, list[i].key = u
        PROVE  list[i].rows \subseteq {identity[u]} \ {None}
    <3>1. i # 0 /\ i \in 1..Len(list)
      BY <2>1, <2>4, CountedFromOne
    <3>2. listDoc[u].id = i
      BY <2>2, <2>4, <3>1 DEF ListReached
    <3> QED
      BY <2>2, <3>1, <3>2 DEF ListShown
  <2> QED
    BY <2>3, <2>4 DEF ShowsOwn
<1> QED
  BY <1>1, Typed, Viewed, PTL

\* While the channel's lease never ran out under its holder, the mark
\* "scoped-only" means that the channel reads no List with every repository's
\* work, but for those marked (project-list-service.ts, migrate and
\* assertUnscopedProjectionAllowed).
THEOREM GuardIsKept == Spec => []GuardHolds
<1>1. TypeInv /\ ViewsInv => GuardHolds
  <2>1. SUFFICES ASSUME TypeInv, ViewsInv, guard, <<"list", Channel>> \notin overrun,
                        NEW i \in DOMAIN list, Channel \in list[i].readers,
                        All \in list[i].rows
                 PROVE  list[i].renamed
    BY DEF GuardHolds
  <2>2. i \in 1..Len(list)
    BY <2>1, CountedFromOne
  <2>3. list[i].key = Channel
    BY <2>1, <2>2 DEF ViewsInv, KeysInv, Audience
  <2>4. Closed
    BY <2>1 DEF ViewsInv, ChannelInv
  <2> QED
    BY <2>1, <2>2, <2>3, <2>4 DEF Closed
<1> QED
  BY <1>1, Typed, Viewed, PTL
=============================================================================
