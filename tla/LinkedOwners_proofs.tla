-------------------------- MODULE LinkedOwners_proofs --------------------------
(***************************************************************************)
(* Theorems about the links of LinkedAccounts for any users, accounts,     *)
(* handlers, commands and scenarios: an authorisation URL is good once; a  *)
(* Google link of a user whose handlers never crossed has one calendar;    *)
(* and while none crossed, the identities and their reverse entries agree. *)
(***************************************************************************)
EXTENDS LinkedAccounts_proofs

\* A link or a relink that has read the identity it takes the place of.
Relinks(p, j) == p \in {"claim", "save"} \/ (p \in Revoking /\ j.then = "save")

\* A synchronisation of what a user may see, from the resolved account on.
Synced(p, j) == p = "load" \/ p \in CanvasSync \/ (p \in ListSync /\ j.key \in Users)

\* All but what a handler has read of a projection.
Alike(j, k) ==
  /\ j.user = k.user /\ j.key = k.key /\ j.url = k.url /\ j.login = k.login
  /\ j.previous = k.previous /\ j.goal = k.goal /\ j.then = k.then

\* Where only the steps of a link lead.
LinkOnly == (LinkPlaces \ {"save", "unlink"}) \cup (CalendarPlaces \ {"unlink google", "calendar"})

\* What a handler goes on with outside of the links: with its URL or none, and
\* with what it has in hand of the identities, or the identity just read.
Aside(h, p, j) ==
  /\ p \notin LinkOnly
  /\ j.url \in {None, job[h].url}
  /\ Relinks(p, j) => /\ Relinks(at[h], job[h]) /\ at[h] \in Revoking
                      /\ j.user = job[h].user /\ j.login = job[h].login
                      /\ j.previous = job[h].previous
  /\ Synced(p, j) => /\ j.user = job[h].user
                     /\ \/ j.login = identity[j.user]
                        \/ Synced(at[h], job[h]) /\ j.login = job[h].login

Elsewhere(h) == \E p : \E j : Go(h, p, j) /\ Aside(h, p, j)

LEMMA JobFields ==
  ASSUME NEW k \in Job
  PROVE  /\ \A d : LET j == [k EXCEPT !.doc = d] IN Alike(j, k) /\ j.doc = d
         /\ \A s : Alike([k EXCEPT !.ids = s], k)
         /\ \A d, s : Alike([k EXCEPT !.doc = d, !.ids = s], k)
         /\ \A a : LET j == [k EXCEPT !.login = a]
                   IN  /\ j.user = k.user /\ j.key = k.key /\ j.url = k.url /\ j.login = a
                       /\ j.previous = k.previous /\ j.then = k.then /\ j.doc = k.doc
         /\ \A b : LET j == [k EXCEPT !.previous = b]
                   IN  /\ j.user = k.user /\ j.key = k.key /\ j.url = k.url /\ j.login = k.login
                       /\ j.previous = b /\ j.then = k.then /\ j.doc = k.doc
         /\ \A a, b : LET j == [k EXCEPT !.login = a, !.previous = b]
                      IN  /\ j.user = k.user /\ j.key = k.key /\ j.url = k.url /\ j.login = a
                          /\ j.previous = b /\ j.then = k.then
         /\ \A t : LET j == [k EXCEPT !.then = t]
                   IN  /\ j.user = k.user /\ j.key = k.key /\ j.url = k.url
                       /\ j.login = k.login /\ j.previous = k.previous /\ j.then = t
         /\ Alike(k, k)
  BY DEF Job, Alike

LEMMA InHand ==
  ASSUME TypeInv, NEW h \in Handlers
  PROVE  /\ JobOK(at[h], job[h]) /\ job[h] \in Job /\ at[h] \in Places
         /\ job[h].user \in Users \cup {None}
         /\ at[h] = "idle" => job[h] = NoJob
<1>1. JobOK(at[h], job[h])
  BY DEF TypeInv, HandlersOK
<1>2. job[h] \in Job
  BY <1>1 DEF JobOK
<1>3. PICK k \in Job : k = job[h]
  BY <1>2
<1>4. k.user \in Users \cup {None}
  BY DEF Job
<1> QED
  BY <1>1, <1>3, <1>4 DEF JobOK

LEMMA NoJobFields ==
  /\ NoJob.user = None /\ NoJob.key = None /\ NoJob.url = None /\ NoJob.login = None
  /\ NoJob.previous = None /\ NoJob.then = "idle" /\ NoJob.doc = None
  BY DEF NoJob

\* A handler that ends, and one that goes on within a synchronisation, a
\* migration or a revocation.
LEMMA AsideIdle ==
  ASSUME NEW h \in Handlers
  PROVE  Aside(h, "idle", NoJob)
<1>1. /\ "idle" \notin LinkOnly /\ ~Relinks("idle", NoJob) /\ ~Synced("idle", NoJob)
  BY DEF LinkOnly, LinkPlaces, CalendarPlaces, Relinks, Synced, Revoking, CanvasSync,
         C!CanvasPlaces, ListSync
<1> QED
  BY <1>1, NoJobFields DEF Aside

LEMMA AsideCanvas ==
  ASSUME NEW h \in Handlers, at[h] \in CanvasSync, NEW p \in CanvasSync, NEW j,
         Alike(j, job[h])
  PROVE  Aside(h, p, j)
  BY DEF Aside, Alike, LinkOnly, LinkPlaces, CalendarPlaces, Relinks, Synced, CanvasSync,
         C!CanvasPlaces, Revoking, ListSync

LEMMA AsideList ==
  ASSUME NEW h \in Handlers, at[h] \in ListSync, NEW p \in ListSync, NEW j,
         Alike(j, job[h])
  PROVE  Aside(h, p, j)
<1>1. p \notin LinkOnly /\ ~Relinks(p, j) /\ p # "load" /\ p \notin CanvasSync
  BY DEF LinkOnly, LinkPlaces, CalendarPlaces, Relinks, CanvasSync, C!CanvasPlaces, Revoking,
         ListSync
<1>2. Synced(p, j) => Synced(at[h], job[h])
  BY <1>1 DEF Synced, Alike
<1> HIDE DEF ListSync
<1> QED
  BY <1>1, <1>2 DEF Aside, Alike

LEMMA AsideMigration ==
  ASSUME NEW h \in Handlers, NEW p, NEW j, p \in Migrating \/ (p \in ListSync /\ j.key \notin Users),
         j.url \in {None, job[h].url}
  PROVE  Aside(h, p, j)
<1>1. p \notin LinkOnly /\ ~Relinks(p, j) /\ p # "load" /\ p \notin CanvasSync
  BY DEF LinkOnly, LinkPlaces, CalendarPlaces, Relinks, CanvasSync, C!CanvasPlaces, Revoking,
         ListSync, Migrating, L!MigrationPlaces
<1>2. p \in Migrating => p \notin ListSync
  BY DEF ListSync, Migrating, L!MigrationPlaces
<1>3. ~Synced(p, j)
  BY <1>1, <1>2, Zenon DEF Synced
<1> QED
  BY <1>1, <1>3, Zenon DEF Aside

LEMMA AsideRevocation ==
  ASSUME NEW h \in Handlers, at[h] \in Revoking, NEW p, NEW j, Alike(j, job[h]),
         \/ p \in Revoking
         \/ p = job[h].then /\ p \in {"idle", "save", "unlink"}
  PROVE  Aside(h, p, j)
<1>1. p \notin LinkOnly /\ p \notin CanvasSync /\ p \notin ListSync /\ p # "load"
  BY DEF LinkOnly, LinkPlaces, CalendarPlaces, CanvasSync, C!CanvasPlaces, Revoking, ListSync
<1>2. ~Synced(p, j)
  BY <1>1 DEF Synced
<1>3. Relinks(p, j) => Relinks(at[h], job[h])
  BY DEF Relinks, Revoking, Alike
<1> QED
  BY <1>1, <1>2, <1>3 DEF Aside, Alike

-----------------------------------------------------------------------------
(* The steps outside of the links. *)

\* Where a synchronisation of a Canvas, of a List and a migration lead.
LEMMA CanvasPaths ==
  ASSUME TypeInv, NEW h \in Handlers, at[h] \in CanvasSync, C!CanvasStep(h)
  PROVE  \/ Go(h, "idle", NoJob)
         \/ \E p \in CanvasSync : \E k : Go(h, p, k) /\ Alike(k, job[h])
<1> DEFINE j == job[h]
<1>a. j \in Job
  BY InHand
<1>b. Alike(j, j)
  BY <1>a, JobFields
<1>c. SUFFICES \/ C!Go(h, "idle", NoJob)
               \/ \E p \in CanvasSync : \E k : C!Go(h, p, k) /\ Alike(k, j)
  BY SameGoes
<1>1. CASE C!AcquireCanvas(h)
  BY <1>b, <1>1 DEF C!AcquireCanvas, C!Goto, C!Rest, C!NoJob, NoJob, CanvasSync, C!CanvasPlaces, Revoking
<1>2. CASE C!ReadCanvas(h)
  <2>1. PICK d : d = canvasDoc[j.key]
    OBVIOUS
  <2>2. PICK k : k = [j EXCEPT !.doc = d]
    OBVIOUS
  <2>3. Alike(k, j)
    BY <1>a, <2>2, JobFields
  <2>4. PICK p : /\ C!Go(h, p, k)
                 /\ p = CASE d.id = 0 /\ j.then = "scheduled" -> "release canvas"
                          [] d.id = 0 /\ j.then # "scheduled" -> "create canvas"
                          [] d.id # 0 /\ d.shows # j.login -> "edit canvas"
                          [] d.id # 0 /\ d.shows = j.login /\ ~d.granted -> "share canvas"
                          [] OTHER -> "record canvas"
    BY <1>2, <2>1, <2>2 DEF C!ReadCanvas
  <2>5. p \in CanvasSync
    <3>1. CASE d.id = 0
      BY <2>4, <3>1 DEF CanvasSync, C!CanvasPlaces, Revoking
    <3>2. CASE d.id # 0
      BY <2>4, <3>2 DEF CanvasSync, C!CanvasPlaces, Revoking
    <3> QED
      BY <3>1, <3>2
  <2> QED
    BY <2>3, <2>4, <2>5
<1>3. CASE C!CreateCanvas(h)
  <2>1. PICK d : d = [C!NoCanvas EXCEPT !.id = Len(canvas) + 1]
    OBVIOUS
  <2>2. PICK k : k = [j EXCEPT !.doc = d]
    OBVIOUS
  <2>3. Alike(k, j)
    BY <1>a, <2>2, JobFields
  <2>4. C!Go(h, "note canvas", k)
    BY <1>3, <2>1, <2>2 DEF C!CreateCanvas
  <2> QED
    BY <2>3, <2>4 DEF CanvasSync, C!CanvasPlaces, Revoking
<1>4. CASE C!NoteCanvas(h) \/ C!EditCanvas(h) \/ C!ShareCanvas(h) \/ C!RecordCanvas(h)
  BY <1>b, <1>4 DEF C!NoteCanvas, C!EditCanvas, C!ShareCanvas, C!RecordCanvas, C!Goto,
     CanvasSync, C!CanvasPlaces, Revoking
<1>5. CASE C!ReleaseCanvas(h)
  BY <1>5 DEF C!ReleaseCanvas, C!Rest, C!NoJob, NoJob
<1> QED
  BY <1>1, <1>2, <1>3, <1>4, <1>5
     DEF C!CanvasStep, C!FindCanvas, C!CloseCanvas, C!ForgetCanvas, CanvasSync, Revoking

LEMMA CanvasElsewhere ==
  ASSUME TypeInv, NEW h \in Handlers, C!CanvasStep(h)
  PROVE  Elsewhere(h) /\ at[h] \notin LinkPlaces \cup CalendarPlaces
<1> DEFINE j == job[h]
<1>0. j \in Job
  BY InHand
<1>1. Alike(j, j)
  BY <1>0, JobFields
<1>2. CASE at[h] \in CanvasSync
  <2>1. \/ Go(h, "idle", NoJob)
        \/ \E p \in CanvasSync : \E k : Go(h, p, k) /\ Alike(k, j)
    BY <1>2, CanvasPaths
  <2>2. Elsewhere(h)
    BY <1>2, <2>1, AsideIdle, AsideCanvas DEF Elsewhere
  <2> QED
    BY <1>2, <2>2 DEF CanvasSync, C!CanvasPlaces, LinkPlaces, CalendarPlaces
<1>3. CASE at[h] \notin CanvasSync
  <2>1. /\ at[h] \in {"revoke", "close canvas", "forget canvas"}
        /\ \E p \in Revoking : \E k : C!Go(h, p, k) /\ Alike(k, j)
    <3>1. CASE C!FindCanvas(h)
      <4>1. PICK d : d = canvasDoc[j.user]
        OBVIOUS
      <4>2. PICK k : k = [j EXCEPT !.doc = d]
        OBVIOUS
      <4>3. Alike(k, j)
        BY <1>0, <4>2, JobFields
      <4>4. C!Go(h, "revoke list", j) \/ C!Go(h, "close canvas", k)
        BY <3>1, <4>1, <4>2 DEF C!FindCanvas, C!Goto
      <4> QED
        BY <1>1, <3>1, <4>3, <4>4 DEF C!FindCanvas, Revoking
    <3>2. CASE C!CloseCanvas(h)
      BY <1>1, <3>2 DEF C!CloseCanvas, C!Goto, Revoking
    <3>3. CASE C!ForgetCanvas(h)
      <4>1. PICK k : k = [j EXCEPT !.doc = None]
        OBVIOUS
      <4>2. Alike(k, j)
        BY <1>0, <4>1, JobFields
      <4> QED
        BY <3>3, <4>1, <4>2 DEF C!ForgetCanvas, Revoking
    <3> QED
      BY <1>3, <3>1, <3>2, <3>3
         DEF C!CanvasStep, C!AcquireCanvas, C!ReadCanvas, C!CreateCanvas, C!NoteCanvas, C!EditCanvas,
             C!ShareCanvas, C!RecordCanvas, C!ReleaseCanvas, CanvasSync, C!CanvasPlaces, Revoking
  <2>2. Elsewhere(h)
    BY <2>1, AsideRevocation, SameGoes DEF Elsewhere, Revoking
  <2> QED
    BY <2>1, <2>2 DEF LinkPlaces, CalendarPlaces
<1> QED
  BY <1>2, <1>3

LEMMA ListPaths ==
  ASSUME AccountsAssumption, TypeInv, NEW h \in Handlers, at[h] \in ListSync, L!ListStep(h)
  PROVE  \/ Go(h, "idle", NoJob)
         \/ \E p \in ListSync : \E k : Go(h, p, k) /\ Alike(k, job[h])
         \/ job[h].key = Shared /\ Go(h, "acquire channel", job[h])
<1> DEFINE j == job[h]
<1>0. j \in Job
  BY InHand
<1>1. Alike(j, j)
  BY <1>0, JobFields
<1>3. CASE L!AcquireList(h)
  <2>1. \/ Go(h, "idle", NoJob)
        \/ Go(h, "check guard", j) \/ Go(h, "read list", j)
        \/ j.key = Shared /\ Go(h, "acquire channel", j)
    <3>1. CASE L!Refused(<<"list", j.key>>) /\ L!Rest(h)
      BY <3>1, SameGoes
    <3>2. CASE ~(L!Refused(<<"list", j.key>>) /\ L!Rest(h))
      <4>1. PICK p : /\ Go(h, p, j)
                     /\ p = CASE j.key = Channel -> "check guard"
                              [] j.key = Shared -> "acquire channel" [] OTHER -> "read list"
        BY <1>3, <3>2, SameGoes DEF L!AcquireList
      <4>2. CASE j.key = Channel
        <5>1. j.key # Shared
          BY <4>2 DEF AccountsAssumption
        <5> QED
          BY <4>1, <4>2, <5>1
      <4>3. CASE j.key = Shared
        <5>1. j.key # Channel
          BY <4>3 DEF AccountsAssumption
        <5> QED
          BY <4>1, <4>3, <5>1
      <4>4. CASE j.key \notin {Channel, Shared}
        BY <4>1, <4>4
      <4> QED
        BY <4>2, <4>3, <4>4
    <3> QED
      BY <3>1, <3>2
  <2> QED
    BY <1>1, <2>1 DEF ListSync
<1>4. CASE L!ReadList(h)
  <2>1. PICK d : d = listDoc[j.key]
    OBVIOUS
  <2>2. PICK k : k = [j EXCEPT !.doc = d]
    OBVIOUS
  <2>3. Alike(k, j)
    BY <1>0, <2>2, JobFields
  <2>4. PICK p : /\ Go(h, p, k)
                 /\ p = CASE ~d.current -> "create list"
                          [] d.current /\ d.pending -> "share list"
                          [] OTHER -> "share with requester"
    BY <1>4, <2>1, <2>2, SameGoes DEF L!ReadList
  <2>5. p \in ListSync
    <3>1. CASE ~d.current
      BY <2>4, <3>1 DEF ListSync
    <3>2. CASE d.current
      BY <2>4, <3>2 DEF ListSync
    <3> QED
      BY <3>1, <3>2
  <2> QED
    BY <2>3, <2>4, <2>5
<1>5. CASE L!CreateList(h)
  <2>1. PICK d : d = [id |-> Len(list) + 1, current |-> TRUE, pending |-> TRUE, legacy |-> L!Doc(h).id]
    OBVIOUS
  <2>2. PICK k : k = [j EXCEPT !.doc = d]
    OBVIOUS
  <2>3. Alike(k, j)
    BY <1>0, <2>2, JobFields
  <2>4. Go(h, "note list", k)
    BY <1>5, <2>1, <2>2, SameGoes DEF L!CreateList
  <2> QED
    BY <2>3, <2>4 DEF ListSync
<1>6. CASE L!ShareList(h) \/ L!RenameLegacy(h)
  <2>1. PICK e, f : e = [j.doc EXCEPT !.pending = FALSE] /\ f = [j.doc EXCEPT !.legacy = 0]
    OBVIOUS
  <2>2. PICK k, i : k = [j EXCEPT !.doc = e] /\ i = [j EXCEPT !.doc = f]
    OBVIOUS
  <2>3. Alike(k, j) /\ Alike(i, j)
    BY <1>0, <2>2, JobFields
  <2>4. k = [j EXCEPT !.doc.pending = FALSE] /\ i = [j EXCEPT !.doc.legacy = 0]
    BY <2>1, <2>2
  <2>5. Go(h, "record list", k) \/ Go(h, "drop legacy", i)
    BY <1>6, <2>4, SameGoes DEF L!ShareList, L!RenameLegacy
  <2> QED
    BY <2>3, <2>5 DEF ListSync
<1>7. CASE \/ L!CheckGuard(h) \/ L!NoteList(h) \/ L!RecordList(h) \/ L!ShareWithRequester(h)
           \/ L!DropLegacy(h) \/ L!AddRows(h) \/ L!DeleteRows(h)
  <2>1. PICK p \in {"release list", "read list", "share list", "share with requester",
                   "rename legacy", "add rows", "delete rows"} : Go(h, p, j)
    BY <1>7, SameGoes DEF L!CheckGuard, L!NoteList, L!RecordList, L!ShareWithRequester,
       L!DropLegacy, L!AddRows, L!DeleteRows
  <2>2. p \in ListSync
    BY DEF ListSync
  <2> QED
    BY <1>1, <2>1, <2>2
<1>8. CASE L!ReleaseList(h)
  BY <1>8, SameGoes DEF L!ReleaseList
<1> QED
  BY <1>3, <1>4, <1>5, <1>6, <1>7, <1>8
     DEF L!ListStep, ListSync, L!AcquireChannel, L!ReadLegacy, L!CloseLegacy, L!ClearLegacy,
         L!MarkLegacy, L!SetGuard, L!ForgetLegacy, L!ReleaseChannel, L!FindList, L!CloseList,
         L!ForgetList

LEMMA ListElsewhere ==
  ASSUME AccountsAssumption, TypeInv, NEW h \in Handlers, at[h] \in ListSync, L!ListStep(h)
  PROVE  Elsewhere(h)
<1>1. ASSUME NEW p \in ListSync, NEW k, Go(h, p, k), Alike(k, job[h]) PROVE Elsewhere(h)
  BY <1>1, AsideList DEF Elsewhere
<1>2. ASSUME Go(h, "acquire channel", job[h]) PROVE Elsewhere(h)
  BY <1>2, AsideMigration DEF Migrating, Elsewhere
<1> QED
  BY <1>1, <1>2, ListPaths, AsideIdle DEF Elsewhere

\* The channel's migration: its handler has no URL and no user's key.
LEMMA MigrationPaths ==
  ASSUME AccountsAssumption, TypeInv, NEW h \in Handlers, at[h] \in Migrating,
         L!ListStep(h) \/ L!MigrationFails(h)
  PROVE  \/ Go(h, "idle", NoJob)
         \/ \E p \in Migrating : \E k : Go(h, p, k) /\ Alike(k, job[h])
         \/ \E p \in {"release list", "read list"} : \E k : /\ Go(h, p, k) /\ Alike(k, job[h])
                                                          /\ job[h].key = Shared
<1> DEFINE j == job[h]
<1>a. j \in Job /\ JobOK(at[h], j)
  BY InHand
<1>b. Alike(j, j)
  BY <1>a, JobFields
<1>c. (j.key = None /\ j.then = "idle") \/ (j.key = Shared /\ j.then = "release list")
  BY <1>a DEF JobOK, ListJob, ForShared
<1>1. CASE L!AcquireChannel(h) \/ L!MigrationFails(h)
  <2>1. L!Leave(h, j.then) \/ Go(h, "read legacy", j)
    BY <1>1, SameGoes DEF L!AcquireChannel, L!MigrationFails
  <2>2. \/ Go(h, "idle", NoJob) \/ Go(h, "read legacy", j)
        \/ j.key = Shared /\ Go(h, "release list", j)
    BY <1>c, <2>1, SameGoes
  <2> QED
    BY <1>b, <2>2 DEF Migrating, L!MigrationPlaces
<1>2. CASE L!ReadLegacy(h)
  <2>1. PICK d, s : /\ d = listDoc[Channel]
                    /\ s = IF d.id = 0 THEN <<>> ELSE L!Legacies(d)
    OBVIOUS
  <2>2. PICK k : k = [j EXCEPT !.doc = d, !.ids = s]
    OBVIOUS
  <2>3. Alike(k, j)
    BY <1>a, <2>2, JobFields
  <2>4. Go(h, IF d.id = 0 THEN "set guard" ELSE "close legacy", k)
    BY <1>2, <2>1, <2>2, SameGoes DEF L!ReadLegacy
  <2>5. Go(h, "set guard", k) \/ Go(h, "close legacy", k)
    BY <2>4
  <2> QED
    BY <2>3, <2>5 DEF Migrating, L!MigrationPlaces
<1>3. CASE L!MarkLegacy(h)
  <2>1. PICK s : s = Tail(j.ids)
    OBVIOUS
  <2>2. PICK k : k = [j EXCEPT !.ids = s]
    OBVIOUS
  <2>3. Alike(k, j)
    BY <1>a, <2>2, JobFields
  <2>4. k = [j EXCEPT !.ids = Tail(@)]
    BY <2>1, <2>2
  <2>5. Go(h, "set guard", k) \/ Go(h, "close legacy", k)
    BY <1>3, <2>4, SameGoes DEF L!MarkLegacy
  <2> QED
    BY <2>3, <2>5 DEF Migrating, L!MigrationPlaces
<1>4. CASE L!CloseLegacy(h) \/ L!ClearLegacy(h) \/ L!SetGuard(h) \/ L!ForgetLegacy(h)
  <2>1. \E p \in {"clear legacy", "mark legacy", "release channel", "forget legacy"} : Go(h, p, j)
    BY <1>4, SameGoes DEF L!CloseLegacy, L!ClearLegacy, L!SetGuard, L!ForgetLegacy
  <2> QED
    BY <1>b, <2>1 DEF Migrating, L!MigrationPlaces
<1>5. CASE L!ReleaseChannel(h)
  <2>1. PICK k : k = [j EXCEPT !.doc = None]
    OBVIOUS
  <2>2. Alike(k, j)
    BY <1>a, <2>1, JobFields
  <2>3. (j.key = Shared /\ Go(h, "read list", k)) \/ Go(h, "idle", NoJob)
    BY <1>5, <2>1, SameGoes DEF L!ReleaseChannel
  <2> QED
    BY <2>2, <2>3
<1> QED
  BY <1>1, <1>2, <1>3, <1>4, <1>5
     DEF L!ListStep, Migrating, L!MigrationPlaces, L!AcquireList, L!CheckGuard, L!ReadList,
         L!CreateList, L!NoteList, L!ShareList, L!RecordList, L!ShareWithRequester,
         L!RenameLegacy, L!DropLegacy, L!AddRows, L!DeleteRows, L!ReleaseList, L!FindList,
         L!CloseList, L!ForgetList
LEMMA MigrationElsewhere ==
  ASSUME AccountsAssumption, TypeInv, NEW h \in Handlers, at[h] \in Migrating,
         L!ListStep(h) \/ L!MigrationFails(h)
  PROVE  Elsewhere(h)
<1> DEFINE j == job[h]
<1>0. j \in Job /\ JobOK(at[h], j)
  BY InHand
<1>1. Alike(j, j)
  BY <1>0, JobFields
<1>2. /\ j.user = None
      /\ (j.key = None /\ j.then = "idle") \/ (j.key = Shared /\ j.then = "release list")
  BY <1>0 DEF JobOK, ListJob, ForShared
<1>3. j.key \notin Users
  BY <1>2 DEF AccountsAssumption, Keys
<1>4. \/ Go(h, "idle", NoJob)
      \/ \E p \in Migrating : \E k : Go(h, p, k) /\ Alike(k, j)
      \/ \E p \in {"release list", "read list"} : \E k : Go(h, p, k) /\ Alike(k, j)
  BY MigrationPaths
<1>5. ASSUME NEW p \in Migrating, NEW k, Go(h, p, k), Alike(k, j) PROVE Elsewhere(h)
  BY <1>5, AsideMigration DEF Elsewhere, Alike
<1>6. ASSUME NEW p \in {"release list", "read list"}, NEW k, Go(h, p, k), Alike(k, j)
      PROVE  Elsewhere(h)
  <2>1. k.key \notin Users /\ k.url = job[h].url
    BY <1>3, <1>6 DEF Alike
  <2>2. p \in ListSync
    BY DEF ListSync
  <2> HIDE DEF ListSync
  <2> QED
    BY <1>6, <2>1, <2>2, AsideMigration DEF Elsewhere
<1> QED
  BY <1>4, <1>5, <1>6, AsideIdle DEF Elsewhere

\* Where the revocation of a List leads.
LEMMA RevocationPaths ==
  ASSUME TypeInv, NEW h \in Handlers,
         L!FindList(h) \/ L!CloseList(h) \/ L!ForgetList(h)
  PROVE  /\ at[h] \in {"revoke list", "close list", "forget list"}
         /\ \/ Go(h, "idle", NoJob)
            \/ \E p : \E k : /\ Go(h, p, k) /\ Alike(k, job[h])
                             /\ \/ p \in {"close list", "forget list"}
                                \/ p = job[h].then /\ p \in {"idle", "save", "unlink"}
<1> DEFINE j == job[h]
<1>0. j \in Job /\ JobOK(at[h], j)
  BY InHand
<1>1. Alike(j, j)
  BY <1>0, JobFields
<1>2. at[h] \in {"revoke list", "close list", "forget list"}
  BY DEF L!FindList, L!CloseList, L!ForgetList
<1>3. j.then \in {"idle", "save", "unlink"}
  BY <1>0, <1>2 DEF JobOK, LinkJob, Revoking
<1>5. CASE L!FindList(h)
  <2>1. PICK k : k = [j EXCEPT !.doc = listDoc[j.user]]
    OBVIOUS
  <2>2. Alike(k, j)
    BY <1>0, <2>1, JobFields
  <2>3. L!Leave(h, j.then) \/ Go(h, "close list", k)
    BY <1>5, <2>1, SameGoes DEF L!FindList
  <2>4. \/ Go(h, "idle", NoJob) \/ Go(h, j.then, j) \/ Go(h, "close list", k)
    BY <2>3, SameGoes
  <2> QED
    BY <1>1, <1>2, <1>3, <2>2, <2>4
<1>6. CASE L!CloseList(h)
  BY <1>1, <1>2, <1>6, SameGoes DEF L!CloseList
<1>7. CASE L!ForgetList(h)
  <2>1. PICK k : k = [j EXCEPT !.doc = None]
    OBVIOUS
  <2>2. Alike(k, j)
    BY <1>0, <2>1, JobFields
  <2>3. Go(h, "idle", NoJob) \/ Go(h, j.then, k)
    BY <1>7, <2>1, SameGoes DEF L!ForgetList
  <2> QED
    BY <1>2, <1>3, <2>2, <2>3
<1> QED
  BY <1>2, <1>5, <1>6, <1>7

LEMMA RevocationElsewhere ==
  ASSUME TypeInv, NEW h \in Handlers,
         L!FindList(h) \/ L!CloseList(h) \/ L!ForgetList(h)
  PROVE  Elsewhere(h) /\ at[h] \in Revoking
<1>1. at[h] \in Revoking
  BY RevocationPaths DEF Revoking
<1>2. \/ Go(h, "idle", NoJob)
      \/ \E p : \E k : /\ Go(h, p, k) /\ Alike(k, job[h])
                       /\ p \in Revoking \/ (p = job[h].then /\ p \in {"idle", "save", "unlink"})
  BY RevocationPaths DEF Revoking
<1> QED
  BY <1>1, <1>2, AsideIdle, AsideRevocation DEF Elsewhere
\* A handler that begins, with nothing in hand but its user.
LEMMA AsideFresh ==
  ASSUME NEW h \in Handlers, NEW p, NEW j, p \notin LinkOnly, j.url = None, ~Relinks(p, j),
         ~Synced(p, j)
  PROVE  Aside(h, p, j)
  BY DEF Aside

LEMMA FreshPlaces ==
  ASSUME NEW p \in {"revoke", "unlink google", "calendar", "resolve", "acquire list",
                    "acquire channel"}, NEW j
  PROVE  /\ p \notin LinkOnly
         /\ Relinks(p, j) => p = "revoke" /\ j.then = "save"
         /\ Synced(p, j) => p = "acquire list" /\ j.key \in Users
  BY DEF LinkOnly, LinkPlaces, CalendarPlaces, Relinks, Synced, Revoking, CanvasSync,
         C!CanvasPlaces, ListSync

LEMMA BeginElsewhere ==
  ASSUME AccountsAssumption, NEW h \in Handlers, NEW u \in Users,
         \/ Go(h, "unlink google", Work(u)) \/ Go(h, "calendar", Work(u))
         \/ Go(h, "revoke", [Work(u) EXCEPT !.then = "idle"])
         \/ Go(h, "revoke", [Work(u) EXCEPT !.then = "unlink"])
         \/ \E what, then : Project(h, u, what, then)
         \/ Go(h, "acquire list", [NoJob EXCEPT !.key = Shared, !.then = "release list"])
         \/ Go(h, "acquire list", [Work(u) EXCEPT !.key = Channel])
         \/ Go(h, "acquire channel", NoJob)
  PROVE  Elsewhere(h)
<1>1. PICK w : w = Work(u)
  OBVIOUS
<1>2. w \in Job /\ w.url = None
  BY <1>1, WorkFields
<1>3. Shared \notin Users /\ Channel \notin Users
  BY DEF AccountsAssumption
<1>4. CASE Go(h, "unlink google", w) \/ Go(h, "calendar", w)
  BY <1>2, <1>4, AsideFresh, FreshPlaces DEF Elsewhere
<1>5. CASE Go(h, "revoke", [w EXCEPT !.then = "idle"]) \/ Go(h, "revoke", [w EXCEPT !.then = "unlink"])
  <2>1. PICK t \in {"idle", "unlink"} : Go(h, "revoke", [w EXCEPT !.then = t])
    BY <1>5
  <2>2. PICK j : j = [w EXCEPT !.then = t]
    OBVIOUS
  <2>3. j.url = None /\ j.then = t
    BY <1>2, <2>2 DEF Job
  <2> QED
    BY <2>1, <2>2, <2>3, AsideFresh, FreshPlaces DEF Elsewhere
<1>6. CASE \E what, then : Project(h, u, what, then)
  <2>1. PICK what, then : Go(h, "resolve", [w EXCEPT !.key = u, !.goal = what, !.then = then])
    BY <1>1, <1>6 DEF Project
  <2>2. PICK j : j = [w EXCEPT !.key = u, !.goal = what, !.then = then]
    OBVIOUS
  <2>3. j.url = None
    BY <1>2, <2>2 DEF Job
  <2>4. Aside(h, "resolve", j)
    BY <2>3, AsideFresh, FreshPlaces
  <2> QED
    BY <2>1, <2>2, <2>4 DEF Elsewhere
<1>7. CASE Go(h, "acquire list", [NoJob EXCEPT !.key = Shared, !.then = "release list"])
  <2>1. PICK j : j = [NoJob EXCEPT !.key = Shared, !.then = "release list"]
    OBVIOUS
  <2>2. j.url = None /\ j.key = Shared
    BY <2>1 DEF NoJob
  <2>3. Aside(h, "acquire list", j)
    BY <1>3, <2>2, AsideFresh, FreshPlaces
  <2> QED
    BY <1>7, <2>1, <2>3 DEF Elsewhere
<1>8. CASE Go(h, "acquire list", [w EXCEPT !.key = Channel])
  <2>1. PICK j : j = [w EXCEPT !.key = Channel]
    OBVIOUS
  <2>2. j.url = None /\ j.key = Channel
    BY <1>2, <2>1 DEF Job
  <2>3. Aside(h, "acquire list", j)
    BY <1>3, <2>2, AsideFresh, FreshPlaces
  <2> QED
    BY <1>8, <2>1, <2>3 DEF Elsewhere
<1>9. CASE Go(h, "acquire channel", NoJob)
  BY <1>9, NoJobFields, AsideFresh, FreshPlaces DEF Elsewhere
<1> QED
  BY <1>1, <1>4, <1>5, <1>6, <1>7, <1>8, <1>9

LEMMA ResolveElsewhere ==
  ASSUME AccountsAssumption, TypeInv, NEW h \in Handlers, Resolve(h) \/ Load(h)
  PROVE  Elsewhere(h)
<1> DEFINE j == job[h]
<1>0. j \in Job /\ JobOK(at[h], j) /\ at[h] \in {"resolve", "load"}
  BY InHand DEF Resolve, Load
<1>1. PICK u \in Users : u = j.user
  BY <1>0 DEF JobOK, CanvasJob
<1>2. Alike(j, j)
  BY <1>0, JobFields
<1>3. Go(h, "revoke", [Work(u) EXCEPT !.then = "idle"]) => Elsewhere(h)
  BY BeginElsewhere
<1>4. CASE Resolve(h)
  <2>1. PICK a : a = identity[u]
    OBVIOUS
  <2>2. PICK k : k = [j EXCEPT !.login = a]
    OBVIOUS
  <2>3. k.user = u /\ k.login = identity[k.user] /\ k.url = j.url
    <3>1. k.user = j.user /\ k.login = a /\ k.url = j.url
      BY <1>0, <2>2 DEF Job
    <3> QED
      BY <1>1, <2>1, <3>1
  <2>4. Go(h, "revoke", [Work(u) EXCEPT !.then = "idle"]) \/ Go(h, "load", k)
    BY <1>1, <1>4, <2>1, <2>2 DEF Resolve
  <2>5. "load" \notin LinkOnly /\ ~Relinks("load", k)
    BY DEF LinkOnly, LinkPlaces, CalendarPlaces, Relinks, Revoking
  <2>6. Aside(h, "load", k)
    BY <1>1, <2>3, <2>5 DEF Aside
  <2> QED
    BY <1>3, <2>4, <2>6 DEF Elsewhere
<1>5. CASE Load(h)
  <2>1. Go(h, "revoke", [Work(u) EXCEPT !.then = "idle"]) \/ Go(h, j.goal, j)
    BY <1>1, <1>5 DEF Load, Goto
  <2>2. j.goal \in {"acquire canvas", "acquire list"} /\ at[h] = "load"
    BY <1>0, <1>5 DEF Load, JobOK, CanvasJob
  <2>3. j.goal \notin LinkOnly /\ ~Relinks(j.goal, j) /\ Synced(at[h], j)
    BY <2>2 DEF LinkOnly, LinkPlaces, CalendarPlaces, Relinks, Revoking, Synced
  <2>4. Aside(h, j.goal, j)
    BY <2>3 DEF Aside
  <2> QED
    BY <1>3, <2>1, <2>4 DEF Elsewhere
<1> QED
  BY <1>4, <1>5

-----------------------------------------------------------------------------
(* What a step does to the links. *)

\* A handler that gives up in the midst of a link.
Quits(h) ==
  /\ at[h] \in LinkPlaces \cup CalendarPlaces /\ Rest(h)
  /\ at[h] \in LinkPlaces \/ Linking(h) => {job[h].user} \cap Users \subseteq crossed'

Out(h) == at[h] \notin LinkPlaces \cup CalendarPlaces

LEMMA FaultKinds ==
  ASSUME AccountsAssumption, TypeInv, NEW h \in Handlers, Fault(h), Record
  PROVE  (Out(h) /\ Elsewhere(h)) \/ Quits(h)
<1>0. Alike(job[h], job[h])
  BY InHand, JobFields
<1>1. CASE Fails(h) \/ Die(h)
  <2>1. Go(h, "idle", NoJob) /\ at[h] # "idle" /\ mishaps' = mishaps + 1
    BY <1>1 DEF Fails, Die, Rest, Mishap, Unleased, LinkPlaces, CalendarPlaces
  <2>2. at'[h] = "idle" /\ mishaps' # mishaps
    BY <2>1 DEF Go, TypeInv, HandlersOK, SceneOK
  <2>3. CASE Out(h)
    BY <2>1, <2>3, AsideIdle DEF Elsewhere
  <2>4. CASE ~Out(h)
    <3>1. at[h] \in LinkPlaces \/ Linking(h) => {job[h].user} \cap Users \subseteq crossed'
      BY <2>1, <2>2, ZenonT(60) DEF Record, Broken
    <3> QED
      BY <2>1, <2>4, <3>1 DEF Quits, Out, Rest
  <2> QED
    BY <2>3, <2>4
<1>2. CASE C!CanvasFails(h)
  <2>1. Go(h, "release canvas", job[h]) /\ at[h] \in CanvasSync
    BY <1>2, SameGoes DEF C!CanvasFails, CanvasSync, C!CanvasPlaces, Revoking
  <2>2. "release canvas" \in CanvasSync
    BY DEF CanvasSync, C!CanvasPlaces, Revoking
  <2>3. Out(h)
    BY <2>1 DEF Out, CanvasSync, C!CanvasPlaces, LinkPlaces, CalendarPlaces
  <2> QED
    BY <1>0, <2>1, <2>2, <2>3, AsideCanvas DEF Elsewhere
<1>3. CASE L!ListFails(h)
  <2>1. Go(h, "release list", job[h]) /\ at[h] \in ListSync /\ "release list" \in ListSync
    BY <1>3, SameGoes DEF L!ListFails, ListSync
  <2>2. Out(h)
    BY <2>1 DEF Out, ListSync, LinkPlaces, CalendarPlaces
  <2> QED
    BY <1>0, <2>1, <2>2, AsideList DEF Elsewhere
<1>4. CASE L!MigrationFails(h)
  <2>1. at[h] \in Migrating
    BY <1>4 DEF L!MigrationFails, Migrating
  <2>2. Out(h)
    BY <2>1 DEF Out, Migrating, L!MigrationPlaces, LinkPlaces, CalendarPlaces
  <2> QED
    BY <1>4, <2>1, <2>2, MigrationElsewhere
<1> QED
  BY <1>1, <1>2, <1>3, <1>4 DEF Fault

LEMMA ListKinds ==
  ASSUME AccountsAssumption, TypeInv, NEW h \in Handlers, L!ListStep(h)
  PROVE  Out(h) /\ Elsewhere(h)
<1>1. CASE at[h] \in ListSync
  <2>1. Out(h)
    BY <1>1 DEF Out, ListSync, LinkPlaces, CalendarPlaces
  <2> QED
    BY <1>1, <2>1, ListElsewhere
<1>2. CASE at[h] \in Migrating
  <2>1. Out(h)
    BY <1>2 DEF Out, Migrating, L!MigrationPlaces, LinkPlaces, CalendarPlaces
  <2> QED
    BY <1>2, <2>1, MigrationElsewhere
<1>3. CASE L!FindList(h) \/ L!CloseList(h) \/ L!ForgetList(h)
  <2>1. Elsewhere(h) /\ at[h] \in Revoking
    BY <1>3, RevocationElsewhere
  <2> QED
    BY <2>1 DEF Out, Revoking, LinkPlaces, CalendarPlaces
<1>4. at[h] \in ListSync \/ at[h] \in Migrating \/ L!FindList(h) \/ L!CloseList(h) \/ L!ForgetList(h)
  BY DEF L!ListStep, ListSync, Migrating, L!MigrationPlaces, L!AcquireList, L!CheckGuard,
     L!ReadList, L!CreateList, L!NoteList, L!ShareList, L!RecordList, L!ShareWithRequester,
     L!RenameLegacy, L!DropLegacy, L!AddRows, L!DeleteRows, L!ReleaseList, L!AcquireChannel,
     L!ReadLegacy, L!CloseLegacy, L!ClearLegacy, L!MarkLegacy, L!SetGuard, L!ForgetLegacy,
     L!ReleaseChannel
<1> QED
  BY <1>1, <1>2, <1>3, <1>4

LinkKinds ==
  \/ UNCHANGED <<at, job, links, calendars>>
  \/ \E h \in Handlers : \E u \in Users, s \in {"github", "google"} :
       Connect(h, u, s) /\ UNCHANGED calendars
  \/ \E h \in Handlers : \E n \in Urls : Callback(h, n) /\ UNCHANGED calendars
  \/ \E h \in Handlers : LinkStep(h) /\ UNCHANGED calendars
  \/ \E h \in Handlers : CalendarStep(h) /\ UNCHANGED links
  \/ \E h \in Handlers : Out(h) /\ Elsewhere(h) /\ UNCHANGED <<links, calendars>>
  \/ \E h \in Handlers : Quits(h) /\ UNCHANGED <<links, calendars>>

LEMMA OrderKinds ==
  ASSUME AccountsAssumption, TypeInv, NEW h \in Handlers, Order(h)
  PROVE  LinkKinds
<1>1. PICK u \in Users : \E c \in Commands : Give(h, c, u)
  BY DEF Order
<1>2. PICK c \in Commands : Give(h, c, u)
  BY <1>1
<1>3. Out(h)
  BY <1>2 DEF Give, Out, LinkPlaces, CalendarPlaces
<1>4. CASE \E s \in {"github", "google"} : Connect(h, u, s) /\ UNCHANGED calendars
  BY <1>4 DEF LinkKinds
<1>5. CASE ~\E s \in {"github", "google"} : Connect(h, u, s) /\ UNCHANGED calendars
  <2>1. /\ UNCHANGED <<links, calendars>>
        /\ \/ Go(h, "unlink google", Work(u)) \/ Go(h, "calendar", Work(u))
           \/ Go(h, "revoke", [Work(u) EXCEPT !.then = "unlink"])
           \/ Project(h, u, "acquire canvas", "idle") \/ Project(h, u, "acquire list", "idle")
           \/ Go(h, "acquire list", [NoJob EXCEPT !.key = Shared, !.then = "release list"])
           \/ Go(h, "acquire list", [Work(u) EXCEPT !.key = Channel])
           \/ Go(h, "acquire channel", NoJob)
    BY <1>2, <1>5, Zenon DEF Give, Disconnect
  <2>2. Elsewhere(h)
    BY <2>1, BeginElsewhere
  <2> QED
    BY <1>3, <2>1, <2>2 DEF LinkKinds
<1> QED
  BY <1>4, <1>5

LEMMA StepKinds ==
  ASSUME AccountsAssumption, TypeInv, NEW h \in Handlers, Step(h)
  PROVE  LinkKinds
<1>1. CASE LinkStep(h) /\ UNCHANGED calendars
  BY <1>1 DEF LinkKinds
<1>2. CASE CalendarStep(h) /\ UNCHANGED links
  BY <1>2 DEF LinkKinds
<1>3. CASE C!CanvasStep(h) /\ UNCHANGED <<links, calendars>>
  BY <1>3, CanvasElsewhere DEF LinkKinds, Out
<1>4. CASE L!ListStep(h) /\ UNCHANGED <<links, calendars>>
  BY <1>4, ListKinds DEF LinkKinds
<1>5. CASE (Resolve(h) \/ Load(h)) /\ UNCHANGED <<links, calendars>>
  <2>1. Out(h)
    BY <1>5 DEF Resolve, Load, Out, LinkPlaces, CalendarPlaces
  <2> QED
    BY <1>5, <2>1, ResolveElsewhere DEF LinkKinds
<1> QED
  BY <1>1, <1>2, <1>3, <1>4, <1>5 DEF Step

\* Every step is one of a link or a calendar, or leaves the links alone.
LEMMA NextKinds ==
  ASSUME AccountsAssumption, TypeInv, [Next]_vars
  PROVE  LinkKinds
<1>1. ASSUME NEW h \in Handlers, Open(h) PROVE LinkKinds
  BY <1>1 DEF Open, LinkKinds
<1>2. ASSUME NEW h \in Handlers, Break(h) PROVE LinkKinds
  <2>1. UNCHANGED <<links, calendars>>
    BY <1>2 DEF Break, Fault, Fails, Die
  <2> QED
    BY <1>2, <2>1, FaultKinds DEF Break, LinkKinds
<1>3. ASSUME NEW h \in Handlers, NEW u \in Users, ScheduleCanvas(h, u) \/ ScheduleCalendar(h, u)
      PROVE  LinkKinds
  <2>1. Out(h) /\ UNCHANGED <<links, calendars>>
    BY <1>3 DEF ScheduleCanvas, ScheduleCalendar, Out, LinkPlaces, CalendarPlaces
  <2>2. Elsewhere(h)
    BY <1>3, BeginElsewhere DEF ScheduleCanvas, ScheduleCalendar
  <2> QED
    BY <2>1, <2>2 DEF LinkKinds
<1>4. CASE UNCHANGED vars
  BY <1>4 DEF vars, handlers, LinkKinds
<1>5. CASE \E a \in Accounts : Lose(a)
  BY <1>5 DEF Lose, handlers, LinkKinds
<1>6. CASE \E l \in Leases : Lapse(l) \/ Outlast(l)
  BY <1>6 DEF Lapse, Outlast, Expire, Overrun, LinkKinds
<1> QED
  BY <1>1, <1>2, <1>3, <1>4, <1>5, <1>6, OrderKinds, StepKinds DEF Next, Handle, Schedule

-----------------------------------------------------------------------------
(* The record of the handlers that crossed. *)

Apart == Crossing \subseteq crossed

LEMMA Recorded ==
  ASSUME [Next]_vars
  PROVE  crossed \subseteq crossed' /\ (Apart => Apart')
<1>1. CASE Next
  <2>1. Record
    BY <1>1 DEF Next, Order, Open, Handle, Break, Schedule, Lapse, Outlast
  <2> QED
    BY <2>1, Zenon DEF Record, Apart
<1>2. CASE UNCHANGED vars
  <2>1. UNCHANGED <<at, job, crossed>>
    BY <1>2 DEF vars, handlers, scene
  <2> QED
    BY <2>1 DEF Apart, Crossing, Cross, Changing, Linking
<1> QED
  BY <1>1, <1>2

LEMMA InitApart ==
  ASSUME Init
  PROVE  Apart
<1>1. \A h \in Handlers : at[h] = "idle" /\ job[h] = NoJob
  BY DEF Init, InitHandlers
<1>2. \A g, h \in Handlers : ~Cross(g, h)
  <2>1. \A h \in Handlers : ~Changing(h) /\ ~Linking(h)
    BY <1>1 DEF Changing, Linking, LinkPlaces, CalendarPlaces
  <2> QED
    BY <2>1, Zenon DEF Cross
<1> QED
  BY <1>2 DEF Apart, Crossing

\* Nobody else is at work for a user whose link is changed, unless they crossed.
LEMMA Alone ==
  ASSUME Apart, NEW g \in Handlers, NEW h \in Handlers, g # h, NEW u \in Users \ crossed,
         job[g].user = u, job[h].user = u
  PROVE  ~Changing(g) /\ ~Changing(h) /\ ~(Linking(g) /\ Linking(h))
<1>1. ~Cross(g, h) /\ ~Cross(h, g)
  BY DEF Apart, Crossing
<1> QED
  BY <1>1, Zenon DEF Cross

\* Nor is the account of one the other's.
LEMMA OtherAccounts ==
  ASSUME Apart, crossed = {}, NEW g \in Handlers, NEW h \in Handlers, g # h,
         Changing(g), Changing(h), job[g].user \in Users
  PROVE  /\ job[g].login # None => job[g].login \notin {job[h].login, job[h].previous}
         /\ job[h].login # None => job[h].login \notin {job[g].login, job[g].previous}
         /\ job[g].user # job[h].user
<1>1. ~Cross(g, h) /\ ~Cross(h, g)
  BY DEF Apart, Crossing
<1> QED
  BY <1>1, Zenon DEF Cross

-----------------------------------------------------------------------------
(* An authorisation URL is good once. *)

UrlInv ==
  /\ \A h \in Handlers : Authorised(h) => url[job[h].url].status = "consumed"
  /\ UrlOnce

KeepsUrl(h) ==
  /\ at[h] # "consume"
  /\ \E p : \E j : Go(h, p, j) /\ j.url \in {None, job[h].url}

LEMMA AuthorisedBefore ==
  ASSUME TypeInv, NEW h \in Handlers, KeepsUrl(h), NEW g \in Handlers, Authorised(g)'
  PROVE  Authorised(g) /\ job'[g].url = job[g].url
<1>1. PICK p, j : Go(h, p, j) /\ j.url \in {None, job[h].url}
  BY DEF KeepsUrl
<1>2. CASE g = h
  <2>1. job'[h] = j
    BY <1>1 DEF Go, TypeInv, HandlersOK
  <2>2. j.url # None /\ j.url = job[h].url
    BY <1>1, <1>2, <2>1 DEF Authorised
  <2>3. at[h] # "idle"
    BY <2>2, InHand, NoJobFields
  <2> QED
    BY <1>2, <2>1, <2>2, <2>3 DEF Authorised, KeepsUrl
<1>3. CASE g # h
  <2>1. at'[g] = at[g] /\ job'[g] = job[g]
    BY <1>1, <1>3 DEF Go, TypeInv, HandlersOK
  <2> QED
    BY <2>1 DEF Authorised
<1> QED
  BY <1>2, <1>3

LEMMA UrlKept ==
  ASSUME TypeInv, UrlInv, NEW h \in Handlers, KeepsUrl(h), UNCHANGED url
  PROVE  UrlInv'
  BY AuthorisedBefore DEF UrlInv, UrlOnce

LEMMA LinkUrls ==
  ASSUME TypeInv, NEW h \in Handlers, LinkStep(h), ~Consume(h)
  PROVE  KeepsUrl(h) /\ UNCHANGED url
<1> DEFINE j == job[h]
<1>0. j \in Job
  BY InHand
<1>1. at[h] # "consume" /\ UNCHANGED url
  BY DEF LinkStep, Exchange, Claim, Save, SaveReverse, DropReverse, Unlink, Remove, RemoveReverse,
     links
<1>2. \/ Go(h, "idle", NoJob)
      \/ \E p : \E k : Go(h, p, k) /\ k.url = j.url
  <2>1. CASE Exchange(h)
    <3>1. PICK a : Go(h, "claim", [j EXCEPT !.login = a, !.previous = identity[j.user]])
      BY <2>1 DEF Exchange
    <3>2. PICK b : b = identity[j.user]
      OBVIOUS
    <3>3. PICK k : k = [j EXCEPT !.login = a, !.previous = b]
      OBVIOUS
    <3>4. k.url = j.url
      BY <1>0, <3>3 DEF Job
    <3> QED
      BY <3>1, <3>2, <3>3, <3>4
  <2>2. CASE Claim(h)
    <3>1. PICK k : k = [j EXCEPT !.then = "save"]
      OBVIOUS
    <3>2. k.url = j.url
      BY <1>0, <3>1 DEF Job
    <3>3. Go(h, "idle", NoJob) \/ Go(h, "revoke", k) \/ Go(h, "save", j)
      <4>1. CASE reverse[j.login] \notin {None, j.user}
        BY <2>2, <4>1 DEF Claim, Rest
      <4>2. CASE reverse[j.login] \in {None, j.user} /\ Replaces(h)
        BY <2>2, <3>1, <4>2 DEF Claim
      <4>3. CASE reverse[j.login] \in {None, j.user} /\ ~Replaces(h)
        BY <2>2, <4>3 DEF Claim, Goto
      <4> QED
        BY <4>1, <4>2, <4>3
    <3> QED
      BY <3>2, <3>3
  <2>3. CASE Unlink(h)
    <3>1. PICK b : b = identity[j.user]
      OBVIOUS
    <3>2. PICK k : k = [j EXCEPT !.previous = b]
      OBVIOUS
    <3>3. k.url = j.url
      BY <1>0, <3>2 DEF Job
    <3>4. Go(h, "idle", NoJob) \/ Go(h, "remove", k)
      BY <2>3, <3>1, <3>2 DEF Unlink, Rest
    <3> QED
      BY <3>3, <3>4
  <2>4. CASE Save(h) \/ SaveReverse(h) \/ DropReverse(h) \/ Remove(h) \/ RemoveReverse(h)
    BY <2>4 DEF Save, SaveReverse, DropReverse, Remove, RemoveReverse, Goto, Leave, Rest
  <2> QED
    BY <2>1, <2>2, <2>3, <2>4 DEF LinkStep
<1> QED
  BY <1>1, <1>2, NoJobFields DEF KeepsUrl

LEMMA CalendarUrls ==
  ASSUME TypeInv, NEW h \in Handlers, CalendarStep(h)
  PROVE  KeepsUrl(h)
<1> DEFINE j == job[h]
<1>0. j \in Job /\ JobOK(at[h], j)
  BY InHand
<1>1. at[h] \in CalendarPlaces
  BY DEF CalendarStep, ExchangeGoogle, ClaimGoogle, SaveGoogle, SaveGoogleReverse,
     DropGoogleReverse, UnlinkGoogle, RemoveGoogle, RemoveGoogleReverse, ReadGoogle, ReadLogin,
     CreateCalendar, SaveCalendar, SaveCalendarReverse, PutEvents, DeleteEvents, CalendarPlaces
<1>2. \/ Go(h, "idle", NoJob)
      \/ \E p : \E k : Go(h, p, k) /\ k.url \in {None, j.url}
  <2>1. CASE ExchangeGoogle(h)
    <3>1. PICK a : Go(h, "claim google", [j EXCEPT !.login = a, !.previous = Linked(h)])
      BY <2>1 DEF ExchangeGoogle
    <3>2. PICK b : b = Linked(h)
      OBVIOUS
    <3>3. PICK k : k = [j EXCEPT !.login = a, !.previous = b]
      OBVIOUS
    <3>4. k.url = j.url
      BY <1>0, <3>3 DEF Job
    <3> QED
      BY <3>1, <3>2, <3>3, <3>4
  <2>2. CASE UnlinkGoogle(h)
    <3>1. PICK b : b = Linked(h)
      OBVIOUS
    <3>2. PICK k : k = [j EXCEPT !.previous = b]
      OBVIOUS
    <3>3. k.url = j.url
      BY <1>0, <3>2 DEF Job
    <3>4. Go(h, "idle", NoJob) \/ Go(h, "remove google", k)
      BY <2>2, <3>1, <3>2 DEF UnlinkGoogle, Rest
    <3> QED
      BY <3>3, <3>4
  <2>3. CASE ReadGoogle(h)
    <3>1. PICK u \in Users : u = j.user
      BY <1>0, <1>1 DEF JobOK, LinkJob
    <3>2. PICK w, d : w = Work(u) /\ d = Linked(h)
      OBVIOUS
    <3>3. w \in Job /\ w.url = None
      BY <3>2, WorkFields
    <3>4. PICK k : k = [w EXCEPT !.doc = d]
      OBVIOUS
    <3>5. k.url = None
      BY <3>3, <3>4 DEF Job
    <3>6. Go(h, "idle", NoJob) \/ Go(h, "calendar login", k)
      BY <2>3, <3>1, <3>2, <3>4 DEF ReadGoogle, Rest
    <3> QED
      BY <3>5, <3>6
  <2>4. CASE ReadLogin(h)
    <3>1. PICK a : a = identity[j.user]
      OBVIOUS
    <3>2. PICK k : k = [j EXCEPT !.login = a]
      OBVIOUS
    <3>3. k.url = j.url
      BY <1>0, <3>2 DEF Job
    <3>4. \/ Go(h, "idle", NoJob) \/ Go(h, "create calendar", k) \/ Go(h, "put events", k)
      BY <2>4, <3>1, <3>2 DEF ReadLogin, Rest
    <3> QED
      BY <3>3, <3>4
  <2>5. CASE CreateCalendar(h)
    <3>1. PICK d : d = [j.doc EXCEPT !.calendar = Len(calendar) + 1]
      OBVIOUS
    <3>2. PICK k : k = [j EXCEPT !.doc = d]
      OBVIOUS
    <3>3. k.url = j.url
      BY <1>0, <3>2 DEF Job
    <3>4. k = [j EXCEPT !.doc.calendar = Len(calendar) + 1]
      BY <3>1, <3>2
    <3> QED
      BY <2>5, <3>3, <3>4 DEF CreateCalendar
  <2>6. CASE \/ ClaimGoogle(h) \/ SaveGoogle(h) \/ SaveGoogleReverse(h) \/ DropGoogleReverse(h)
             \/ RemoveGoogle(h) \/ RemoveGoogleReverse(h) \/ SaveCalendar(h)
             \/ SaveCalendarReverse(h) \/ PutEvents(h) \/ DeleteEvents(h)
    <3>1. Go(h, "idle", NoJob) \/ \E p : Go(h, p, j)
      BY <2>6 DEF ClaimGoogle, SaveGoogle, SaveGoogleReverse, DropGoogleReverse,
         RemoveGoogle, RemoveGoogleReverse, SaveCalendar, SaveCalendarReverse, PutEvents,
         DeleteEvents, Goto, Rest
    <3> QED
      BY <3>1
  <2> QED
    BY <2>1, <2>2, <2>3, <2>4, <2>5, <2>6 DEF CalendarStep
<1> QED
  BY <1>1, <1>2, NoJobFields DEF KeepsUrl, CalendarPlaces

LEMMA UrlNext ==
  ASSUME AccountsAssumption, TypeInv, UrlInv, LinkKinds
  PROVE  UrlInv'
<1>1. CASE UNCHANGED <<at, job, links, calendars>>
  BY <1>1 DEF links, UrlInv, UrlOnce, Authorised
<1>2. ASSUME NEW h \in Handlers, NEW u \in Users, NEW s, Connect(h, u, s) PROVE UrlInv'
  <2>1. PICK n \in Urls : /\ url[n].status = "none"
                          /\ url' = [url EXCEPT ![n] = [status |-> "pending", user |-> u, service |-> s]]
    BY <1>2 DEF Connect
  <2>2. UNCHANGED <<at, job>>
    BY <1>2 DEF Connect
  <2>3. \A g \in Handlers : Authorised(g)' <=> Authorised(g)
    BY <2>2 DEF Authorised
  <2>4. ASSUME NEW g \in Handlers, Authorised(g) PROVE url'[job[g].url].status = "consumed"
    <3>1. url[job[g].url].status = "consumed"
      BY <2>4 DEF UrlInv
    <3>2. job[g].url # n
      BY <2>1, <3>1
    <3>3. job[g].url \in Urls \cup {None}
      BY InHand DEF Job
    <3>4. job[g].url \in Urls
      BY <2>4, <3>3 DEF Authorised
    <3> QED
      BY <2>1, <3>1, <3>2, <3>4 DEF TypeInv, UrlsOK
  <2> QED
    BY <2>2, <2>3, <2>4 DEF UrlInv, UrlOnce
<1>3. ASSUME NEW h \in Handlers, NEW n \in Urls, Callback(h, n) PROVE UrlInv'
  <2>1. PICK j : Go(h, "consume", j) /\ UNCHANGED url
    BY <1>3 DEF Callback, links
  <2>2. at'[h] = "consume"
    BY <2>1 DEF Go, TypeInv, HandlersOK
  <2>3. \A g \in Handlers : g # h => at'[g] = at[g] /\ job'[g] = job[g]
    BY <2>1 DEF Go, TypeInv, HandlersOK
  <2>4. \A g \in Handlers : Authorised(g)' => Authorised(g) /\ job'[g].url = job[g].url
    BY <2>2, <2>3 DEF Authorised
  <2> QED
    BY <2>1, <2>4 DEF UrlInv, UrlOnce
<1>4. ASSUME NEW h \in Handlers, Consume(h) PROVE UrlInv'
  <2> DEFINE n == job[h].url
  <2>1. n \in Urls /\ n # None /\ at[h] = "consume"
    <3>1. n \in Urls
      BY <1>4, InHand DEF Consume, JobOK, LinkJob
    <3> QED
      BY <1>4, <3>1 DEF AccountsAssumption, Consume
  <2>2. CASE url[n].status = "pending"
    <3>1. /\ url' = [url EXCEPT ![n].status = "consumed"]
          /\ Go(h, url[n].service, job[h])
      BY <1>4, <2>2 DEF Consume, Goto
    <3>2. \A g \in Handlers : /\ job'[g] = job[g]
                              /\ g # h => at'[g] = at[g]
      BY <3>1 DEF Go, TypeInv, HandlersOK
    <3>3. \A g \in Handlers : g # h /\ Authorised(g)' => Authorised(g) /\ job[g].url # n
      BY <2>2, <3>2, Zenon DEF Authorised, UrlInv
    <3>4. ASSUME NEW g \in Handlers, Authorised(g)' PROVE url'[job'[g].url].status = "consumed"
      <4>1. url \in [Urls -> UrlState]
        BY DEF TypeInv, UrlsOK
      <4>2. PICK s : s = url[n] /\ s \in UrlState
        BY <2>1, <4>1
      <4>3. url' = [url EXCEPT ![n] = [s EXCEPT !.status = "consumed"]]
        BY <3>1, <4>2
      <4>4. CASE g = h
        <5>1. [s EXCEPT !.status = "consumed"].status = "consumed"
          BY <4>2 DEF UrlState
        <5> QED
          BY <2>1, <3>2, <4>1, <4>3, <4>4, <5>1
      <4>5. CASE g # h
        <5>1. Authorised(g) /\ job[g].url # n /\ job'[g] = job[g]
          BY <3>2, <3>3, <3>4, <4>5
        <5>2. url[job[g].url].status = "consumed"
          BY <5>1 DEF UrlInv
        <5>3. job[g].url \in Urls \cup {None}
          BY InHand DEF Job
        <5>4. job[g].url \in Urls
          BY <5>1, <5>3 DEF Authorised
        <5> QED
          BY <4>1, <4>3, <5>1, <5>2, <5>4
      <4> QED
        BY <4>4, <4>5
    <3>5. UrlOnce'
      BY <3>2, <3>3, Zenon DEF UrlInv, UrlOnce
    <3> QED
      BY <3>4, <3>5 DEF UrlInv
  <2>3. CASE url[n].status # "pending"
    <3>1. Go(h, "idle", NoJob) /\ UNCHANGED url
      BY <1>4, <2>3 DEF Consume, Rest
    <3>2. at'[h] = "idle" /\ \A g \in Handlers : g # h => at'[g] = at[g] /\ job'[g] = job[g]
      BY <3>1 DEF Go, TypeInv, HandlersOK
    <3>3. \A g \in Handlers : Authorised(g)' => Authorised(g) /\ job'[g].url = job[g].url
      BY <3>2 DEF Authorised
    <3> QED
      BY <3>1, <3>3 DEF UrlInv, UrlOnce
  <2> QED
    BY <2>2, <2>3
<1>5. ASSUME NEW h \in Handlers, LinkStep(h) PROVE UrlInv'
  BY <1>4, <1>5, LinkUrls, UrlKept
<1>6. ASSUME NEW h \in Handlers, CalendarStep(h) /\ UNCHANGED links PROVE UrlInv'
  BY <1>6, CalendarUrls, UrlKept DEF links
<1>7. ASSUME NEW h \in Handlers, Out(h), Elsewhere(h), UNCHANGED <<links, calendars>> PROVE UrlInv'
  <2>1. KeepsUrl(h)
    BY <1>7 DEF KeepsUrl, Out, Elsewhere, Aside, LinkPlaces
  <2> QED
    BY <1>7, <2>1, UrlKept DEF links
<1>8. ASSUME NEW h \in Handlers, Quits(h), UNCHANGED <<links, calendars>> PROVE UrlInv'
  <2>1. Go(h, "idle", NoJob) /\ UNCHANGED url
    BY <1>8 DEF Quits, Rest, links
  <2>2. at'[h] = "idle" /\ \A g \in Handlers : g # h => at'[g] = at[g] /\ job'[g] = job[g]
    BY <2>1 DEF Go, TypeInv, HandlersOK
  <2>3. \A g \in Handlers : Authorised(g)' => Authorised(g) /\ job'[g].url = job[g].url
    BY <2>2 DEF Authorised
  <2> QED
    BY <2>1, <2>3 DEF UrlInv, UrlOnce
<1> QED
  BY <1>1, <1>2, <1>3, <1>5, <1>6, <1>7, <1>8 DEF LinkKinds

LEMMA UrlInit ==
  ASSUME Init
  PROVE  UrlInv
<1>1. \A h \in Handlers : ~Authorised(h)
  BY DEF Init, InitHandlers, Authorised
<1> QED
  BY <1>1 DEF UrlInv, UrlOnce

\* However many callbacks bring the same authorisation URL at once, at most one
\* goes on from it (identity-service.ts and google-calendar-service.ts: the
\* nonce is consumed by a compare-and-set).
THEOREM UrlIsGoodOnce == Spec => []UrlOnce
<1>1. AccountsAssumption
  BY AccountsAssumption
<1>2. Init => UrlInv
  BY UrlInit
<1>3. TypeInv /\ UrlInv /\ [Next]_vars => UrlInv'
  BY <1>1, NextKinds, UrlNext
<1>4. UrlInv => UrlOnce
  BY DEF UrlInv
<1> QED
  BY <1>2, <1>3, <1>4, Typed, PTL DEF Spec

-----------------------------------------------------------------------------
(* What a handler has in hand of the identities stays true, while nobody    *)
(* else changes its user's link.                                           *)

IdentityJob(p, j) ==
  /\ Relinks(p, j) \/ p = "remove" => j.previous = identity[j.user]
  /\ Synced(p, j) => j.login = identity[j.user]

IdentityInv ==
  \A h \in Handlers : job[h].user \in Users \ crossed => IdentityJob(at[h], job[h])

LEMMA MoveFields ==
  ASSUME TypeInv, NEW h \in Handlers, NEW p, NEW j, Go(h, p, j)
  PROVE  /\ at'[h] = p /\ job'[h] = j
         /\ \A g \in Handlers : g # h => at'[g] = at[g] /\ job'[g] = job[g]
  BY DEF Go, TypeInv, HandlersOK

LEMMA IdentityMove ==
  ASSUME TypeInv, Apart, IdentityInv, crossed \subseteq crossed', NEW h \in Handlers, NEW p, NEW j,
         Go(h, p, j), j.user \in Users \ crossed' => IdentityJob(p, j)',
         \/ UNCHANGED identity
         \/ Changing(h) /\ \E x : identity' = [identity EXCEPT ![job[h].user] = x]
  PROVE  IdentityInv'
<1>1. /\ at'[h] = p /\ job'[h] = j
      /\ \A g \in Handlers : g # h => at'[g] = at[g] /\ job'[g] = job[g]
  BY MoveFields
<1>2. ASSUME NEW g \in Handlers, job'[g].user \in Users \ crossed'
      PROVE  IdentityJob(at[g], job[g])'
  <2>1. CASE g = h
    <3>1. PICK q, k : q = p /\ k = j
      OBVIOUS
    <3> QED
      BY <1>1, <1>2, <2>1, <3>1
  <2>2. CASE g # h
    <3>1. PICK q, k : q = at[g] /\ k = job[g]
      OBVIOUS
    <3>2. at'[g] = q /\ job'[g] = k /\ k.user \in Users \ crossed
      BY <1>1, <1>2, <2>2, <3>1
    <3>3. IdentityJob(q, k)
      BY <3>1, <3>2 DEF IdentityInv
    <3>4. identity'[k.user] = identity[k.user]
      <4>1. CASE UNCHANGED identity
        BY <4>1
      <4>2. CASE Changing(h)
        <5>1. job[h].user # k.user
          BY <2>2, <3>1, <3>2, <4>2, Alone
        <5> QED
          BY <3>2, <5>1 DEF TypeInv
      <4> QED
        BY <4>1, <4>2
    <3>5. IdentityJob(q, k)'
      BY <3>3, <3>4, Zenon DEF IdentityJob
    <3> QED
      BY <3>2, <3>5
  <2> QED
    BY <2>1, <2>2
<1> QED
  BY <1>2 DEF IdentityInv

LEMMA NoIdentity ==
  ASSUME NEW p \in (LinkPlaces \cup CalendarPlaces \cup {"idle"}) \ {"claim", "save", "remove"},
         NEW j
  PROVE  ~Relinks(p, j) /\ ~Synced(p, j) /\ p # "remove"
  BY DEF Relinks, Synced, Revoking, CanvasSync, C!CanvasPlaces, ListSync, LinkPlaces,
         CalendarPlaces

LEMMA CalendarLeads ==
  ASSUME NEW h \in Handlers, CalendarStep(h)
  PROVE  /\ at[h] \in CalendarPlaces
         /\ \E p \in CalendarPlaces \cup {"idle"} : \E j : Go(h, p, j)
<1>1. CASE \/ ExchangeGoogle(h) \/ ClaimGoogle(h) \/ SaveGoogle(h) \/ SaveGoogleReverse(h)
           \/ DropGoogleReverse(h)
  BY <1>1 DEF ExchangeGoogle, ClaimGoogle, SaveGoogle, SaveGoogleReverse, DropGoogleReverse,
     Goto, Rest, CalendarPlaces
<1>2. CASE \/ UnlinkGoogle(h) \/ RemoveGoogle(h) \/ RemoveGoogleReverse(h) \/ ReadGoogle(h)
  BY <1>2 DEF UnlinkGoogle, RemoveGoogle, RemoveGoogleReverse, ReadGoogle, Goto, Rest,
     CalendarPlaces
<1>3. CASE ReadLogin(h) \/ CreateCalendar(h)
  BY <1>3 DEF ReadLogin, CreateCalendar, Goto, Rest, CalendarPlaces
<1>4. CASE \/ SaveCalendar(h) \/ SaveCalendarReverse(h) \/ PutEvents(h) \/ DeleteEvents(h)
  BY <1>4 DEF SaveCalendar, SaveCalendarReverse, PutEvents, DeleteEvents, Goto, Rest,
     CalendarPlaces
<1> QED
  BY <1>1, <1>2, <1>3, <1>4 DEF CalendarStep

\* The user of a handler at a link stays the same.
LEMMA LinkUser ==
  ASSUME TypeInv, NEW h \in Handlers, at[h] \in LinkPlaces \cup CalendarPlaces \cup Revoking
  PROVE  job[h].user \in Users
  BY InHand DEF JobOK, LinkJob

LEMMA IdentityLinkStep ==
  ASSUME AccountsAssumption, TypeInv, Apart, IdentityInv, crossed \subseteq crossed',
         NEW h \in Handlers, LinkStep(h)
  PROVE  IdentityInv'
<1>0. PICK j : j = job[h]
  OBVIOUS
<1>1. j \in Job /\ JobOK(at[h], j) /\ IdentityJob("idle", NoJob)'
  BY <1>0, InHand, NoIdentity DEF IdentityJob
<1>2. Go(h, "idle", NoJob) /\ UNCHANGED identity => IdentityInv'
  BY <1>1, IdentityMove
<1>3. at[h] \in LinkPlaces /\ Changing(h)
  BY DEF LinkStep, Consume, Exchange, Claim, Save, SaveReverse, DropReverse, Unlink, Remove,
     RemoveReverse, LinkPlaces, Changing
<1>4. j.user \in Users
  BY <1>0, <1>3, LinkUser
<1>5. CASE Consume(h)
  <2>1. j.url \in Urls /\ url[j.url].status # "none"
    BY <1>0, <1>1, <1>5 DEF Consume, JobOK, LinkJob
  <2>2. PICK p : p = url[j.url].service /\ p \in {"github", "google"}
    BY <2>1 DEF TypeInv, UrlsOK
  <2>3. (Go(h, "idle", NoJob) \/ Go(h, p, j)) /\ UNCHANGED identity
    BY <1>0, <1>5, <2>2 DEF Consume, Goto, Rest
  <2>4. IdentityJob(p, j)'
    BY <2>2, NoIdentity DEF IdentityJob, LinkPlaces, CalendarPlaces
  <2> QED
    BY <1>2, <2>3, <2>4, IdentityMove
<1>6. CASE Exchange(h)
  <2>1. PICK a : Go(h, "claim", [j EXCEPT !.login = a, !.previous = identity[j.user]])
    BY <1>0, <1>6 DEF Exchange
  <2>2. PICK b, u : b = identity[u] /\ u = j.user
    OBVIOUS
  <2>3. PICK k : k = [j EXCEPT !.login = a, !.previous = b]
    OBVIOUS
  <2>4. k.user = u /\ k.previous = b
    BY <1>1, <2>2, <2>3 DEF Job
  <2>5. UNCHANGED identity
    BY <1>6 DEF Exchange, links
  <2>6. ~Synced("claim", k)
    BY DEF Synced, CanvasSync, C!CanvasPlaces, ListSync
  <2>7. IdentityJob("claim", k)'
    BY <2>2, <2>4, <2>5, <2>6 DEF IdentityJob
  <2>8. Go(h, "claim", k)
    BY <2>1, <2>2, <2>3
  <2> QED
    BY <2>5, <2>7, <2>8, IdentityMove
<1>7. CASE Claim(h)
  <2>1. PICK k : k = [j EXCEPT !.then = "save"]
    OBVIOUS
  <2>2. k.user = j.user /\ k.previous = j.previous
    BY <1>1, <2>1 DEF Job
  <2>3. Go(h, "idle", NoJob) \/ Go(h, "revoke", k) \/ Go(h, "save", j)
    <3>1. CASE reverse[j.login] \notin {None, j.user}
      BY <1>0, <1>7, <3>1 DEF Claim, Rest
    <3>2. CASE reverse[j.login] \in {None, j.user} /\ Replaces(h)
      BY <1>0, <1>7, <2>1, <3>2 DEF Claim
    <3>3. CASE reverse[j.login] \in {None, j.user} /\ ~Replaces(h)
      BY <1>0, <1>7, <3>3 DEF Claim, Goto
    <3> QED
      BY <3>1, <3>2, <3>3
  <2>4. UNCHANGED identity
    BY <1>7 DEF Claim, links
  <2>5. ~Synced("revoke", k) /\ ~Synced("save", j)
    BY DEF Synced, CanvasSync, C!CanvasPlaces, ListSync, Revoking
  <2>6. j.user \in Users \ crossed' => j.previous = identity[j.user]
    BY <1>0, <1>7 DEF IdentityInv, IdentityJob, Relinks, Claim
  <2>7. ASSUME j.user \in Users \ crossed'
        PROVE  IdentityJob("revoke", k)' /\ IdentityJob("save", j)'
    <3>1. j.previous = identity'[j.user]
      BY <2>4, <2>6, <2>7
    <3> QED
      BY <2>2, <2>5, <3>1, Zenon DEF IdentityJob
  <2>8. /\ k.user \in Users \ crossed' => IdentityJob("revoke", k)'
        /\ j.user \in Users \ crossed' => IdentityJob("save", j)'
    BY <2>2, <2>7
  <2> QED
    BY <1>2, <2>3, <2>4, <2>8, IdentityMove
<1>8. CASE Save(h) \/ Remove(h)
  <2>1. PICK p \in {"save reverse", "remove reverse"} : Go(h, p, j)
    BY <1>0, <1>8 DEF Save, Remove, Goto
  <2>2. \E x : identity' = [identity EXCEPT ![job[h].user] = x]
    BY <1>8 DEF Save, Remove
  <2>3. IdentityJob(p, j)'
    BY NoIdentity DEF IdentityJob, LinkPlaces
  <2> QED
    BY <1>3, <2>1, <2>2, <2>3, IdentityMove
<1>9. CASE SaveReverse(h) \/ DropReverse(h) \/ RemoveReverse(h)
  <2>1. /\ Go(h, "idle", NoJob) \/ Go(h, "drop reverse", j)
        /\ UNCHANGED identity
    BY <1>0, <1>9 DEF SaveReverse, DropReverse, RemoveReverse, Leave, Rest, Goto
  <2>2. IdentityJob("drop reverse", j)'
    BY NoIdentity DEF IdentityJob, LinkPlaces
  <2> QED
    BY <1>2, <2>1, <2>2, IdentityMove
<1>10. CASE Unlink(h)
  <2>1. PICK b, u : b = identity[u] /\ u = j.user
    OBVIOUS
  <2>2. PICK k : k = [j EXCEPT !.previous = b]
    OBVIOUS
  <2>3. k.user = u /\ k.previous = b
    BY <1>1, <2>1, <2>2 DEF Job
  <2>4. (Go(h, "idle", NoJob) \/ Go(h, "remove", k)) /\ UNCHANGED identity
    BY <1>0, <1>10, <2>1, <2>2 DEF Unlink, Rest, links
  <2>5. ~Synced("remove", k)
    BY DEF Synced, CanvasSync, C!CanvasPlaces, ListSync
  <2>6. IdentityJob("remove", k)'
    BY <2>1, <2>3, <2>4, <2>5 DEF IdentityJob
  <2> QED
    BY <1>2, <2>4, <2>6, IdentityMove
<1> QED
  BY <1>5, <1>6, <1>7, <1>8, <1>9, <1>10 DEF LinkStep

LEMMA IdentityNext ==
  ASSUME AccountsAssumption, TypeInv, Apart, IdentityInv, crossed \subseteq crossed', LinkKinds
  PROVE  IdentityInv'
<1>1. CASE UNCHANGED <<at, job, links, calendars>>
  BY <1>1 DEF links, IdentityInv, IdentityJob, Synced, Relinks
<1>2. ASSUME NEW h \in Handlers, NEW u \in Users, NEW s, Connect(h, u, s) PROVE IdentityInv'
  BY <1>2 DEF Connect, IdentityInv, IdentityJob, Synced, Relinks
<1>3. ASSUME NEW h \in Handlers, NEW n \in Urls, Callback(h, n) PROVE IdentityInv'
  <2>1. PICK j : Go(h, "consume", j) /\ UNCHANGED identity
    BY <1>3 DEF Callback, links
  <2>2. IdentityJob("consume", j)'
    BY NoIdentity DEF IdentityJob, LinkPlaces
  <2> QED
    BY <2>1, <2>2, IdentityMove
<1>4. ASSUME NEW h \in Handlers, CalendarStep(h), UNCHANGED links PROVE IdentityInv'
  <2>1. PICK p \in CalendarPlaces \cup {"idle"} : \E j : Go(h, p, j)
    BY <1>4, CalendarLeads
  <2>2. PICK j : Go(h, p, j)
    BY <2>1
  <2>3. p \in (LinkPlaces \cup CalendarPlaces \cup {"idle"}) \ {"claim", "save", "remove"}
    BY DEF LinkPlaces, CalendarPlaces
  <2>4. IdentityJob(p, j)'
    BY <2>3, NoIdentity DEF IdentityJob
  <2>5. UNCHANGED identity
    BY <1>4 DEF links
  <2> QED
    BY <2>2, <2>4, <2>5, IdentityMove
<1>5. ASSUME NEW h \in Handlers, Elsewhere(h), UNCHANGED <<links, calendars>> PROVE IdentityInv'
  <2>1. PICK p, j : Go(h, p, j) /\ Aside(h, p, j)
    BY <1>5 DEF Elsewhere
  <2>2. UNCHANGED identity
    BY <1>5 DEF links
  <2>3. ASSUME j.user \in Users \ crossed' PROVE IdentityJob(p, j)'
    <3>1. p # "remove"
      BY <2>1 DEF Aside, LinkOnly, LinkPlaces
    <3>2. j.user = job[h].user => IdentityJob(at[h], job[h])
      BY <2>3 DEF IdentityInv
    <3>3. Relinks(p, j) => j.previous = identity[j.user]
      BY <2>1, <3>2, Zenon DEF Aside, IdentityJob
    <3>4. Synced(p, j) => j.login = identity[j.user]
      BY <2>1, <3>2, Zenon DEF Aside, IdentityJob
    <3>5. (Relinks(p, j) => j.previous = identity'[j.user]) /\ (Synced(p, j) => j.login = identity'[j.user])
      BY <2>2, <3>3, <3>4
    <3> QED
      BY <3>1, <3>5, Zenon DEF IdentityJob
  <2> QED
    BY <2>1, <2>2, <2>3, IdentityMove
<1>6. ASSUME NEW h \in Handlers, Quits(h), UNCHANGED <<links, calendars>> PROVE IdentityInv'
  <2>1. IdentityJob("idle", NoJob)'
    BY NoIdentity DEF IdentityJob
  <2> QED
    BY <1>6, <2>1, IdentityMove DEF Quits, Rest, links
<1> QED
  BY <1>1, <1>2, <1>3, <1>4, <1>5, <1>6, IdentityLinkStep DEF LinkKinds

LEMMA IdentityInit ==
  ASSUME Init
  PROVE  IdentityInv
<1>1. \A h \in Handlers : at[h] = "idle" /\ job[h] = NoJob
  BY DEF Init, InitHandlers
<1> QED
  BY <1>1, NoIdentity DEF IdentityInv, IdentityJob

-----------------------------------------------------------------------------
(* The identities and the reverse entries. *)

\* What a handler knows of the two while it changes them.
OwnerJob(p, j) ==
  /\ Relinks(p, j) /\ p # "claim" => reverse[j.login] \in {None, j.user}
  /\ p = "save reverse" =>
       /\ identity[j.user] = j.login /\ reverse[j.login] \in {None, j.user}
       /\ j.previous \notin {None, j.login} => reverse[j.previous] = j.user
  /\ p = "drop reverse" => identity[j.user] = j.login /\ reverse[j.previous] = j.user
  /\ p = "remove reverse" => identity[j.user] = None /\ reverse[j.previous] = j.user

\* An identity whose entry is still to be written, and an entry to be removed.
Unwritten(u, a) ==
  \E h \in Handlers : at[h] = "save reverse" /\ job[h].user = u /\ job[h].login = a

Dropping == {"save reverse", "drop reverse", "remove reverse"}

Undropped(u, a) ==
  \E h \in Handlers : at[h] \in Dropping /\ job[h].user = u /\ job[h].previous = a

PairsAgree ==
  \A u \in Users, a \in Accounts :
    /\ identity[u] = a => reverse[a] = u \/ Unwritten(u, a)
    /\ reverse[a] = u => identity[u] = a \/ Undropped(u, a)

OwnersInv == crossed = {} => (\A h \in Handlers : OwnerJob(at[h], job[h])) /\ PairsAgree

LEMMA NoOwner ==
  ASSUME NEW p, NEW j, p \notin Dropping, Relinks(p, j) => p = "claim"
  PROVE  OwnerJob(p, j)
  BY DEF OwnerJob, Dropping

\* A handler that is not about to write an entry goes on.
LEMMA OwnersQuiet ==
  ASSUME TypeInv, OwnersInv, crossed = {}, NEW h \in Handlers, NEW p, NEW j, Go(h, p, j),
         UNCHANGED <<identity, reverse>>, at[h] \notin Dropping, OwnerJob(p, j)
  PROVE  OwnersInv'
<1>1. /\ at'[h] = p /\ job'[h] = j
      /\ \A g \in Handlers : g # h => at'[g] = at[g] /\ job'[g] = job[g]
  BY MoveFields
<1>2. ASSUME NEW g \in Handlers PROVE OwnerJob(at[g], job[g])'
  <2>1. PICK q, k : q = at'[g] /\ k = job'[g]
    OBVIOUS
  <2>2. OwnerJob(q, k)
    BY <1>1, <2>1 DEF OwnersInv
  <2>3. OwnerJob(q, k)'
    BY <2>2 DEF OwnerJob
  <2> QED
    BY <2>1, <2>3
<1>3. ASSUME NEW u, NEW a PROVE Unwritten(u, a) => Unwritten(u, a)'
  <2>1. ASSUME NEW g \in Handlers, at[g] = "save reverse", job[g].user = u, job[g].login = a
        PROVE  at'[g] = "save reverse" /\ job'[g].user = u /\ job'[g].login = a
    <3>1. g # h
      BY <2>1 DEF Dropping
    <3> QED
      BY <1>1, <2>1, <3>1
  <2> QED
    BY <2>1 DEF Unwritten
<1>4. ASSUME NEW u, NEW a PROVE Undropped(u, a) => Undropped(u, a)'
  <2>1. ASSUME NEW g \in Handlers, at[g] \in Dropping, job[g].user = u, job[g].previous = a
        PROVE  at'[g] \in Dropping /\ job'[g].user = u /\ job'[g].previous = a
    <3>1. g # h
      BY <2>1
    <3> QED
      BY <1>1, <2>1, <3>1
  <2> QED
    BY <2>1 DEF Undropped
<1>5. PairsAgree'
  BY <1>3, <1>4, Zenon DEF OwnersInv, PairsAgree
<1> QED
  BY <1>2, <1>5 DEF OwnersInv

\* A handler that writes leaves what the others know true.
LEMMA OwnersOthers ==
  ASSUME AccountsAssumption, TypeInv, Apart, OwnersInv, crossed = {}, NEW h \in Handlers,
         Changing(h), NEW p, NEW j, Go(h, p, j),
         \/ UNCHANGED identity
         \/ \E x : identity' = [identity EXCEPT ![job[h].user] = x],
         \/ UNCHANGED reverse
         \/ \E x : /\ job[h].login \in Accounts
                   /\ reverse' = [reverse EXCEPT ![job[h].login] = x]
         \/ \E x : /\ reverse[job[h].previous] = job[h].user
                   /\ reverse' = [reverse EXCEPT ![job[h].previous] = x],
         NEW g \in Handlers, g # h
  PROVE  OwnerJob(at[g], job[g])'
<1>1. PICK q, k : q = at[g] /\ k = job[g]
  OBVIOUS
<1>2. at'[g] = q /\ job'[g] = k
  BY <1>1, MoveFields
<1>3. OwnerJob(q, k) /\ JobOK(q, k)
  BY <1>1, InHand DEF OwnersInv
<1>4. CASE q \notin LinkPlaces \cup Revoking
  <2>1. ~Relinks(q, k) /\ q \notin Dropping
    BY <1>4 DEF Relinks, LinkPlaces, Dropping
  <2>2. OwnerJob(q, k)'
    BY <2>1 DEF OwnerJob, Dropping
  <2> QED
    BY <1>2, <2>2
<1>5. CASE q \in LinkPlaces \cup Revoking
  <2>1. k.user \in Users /\ Changing(g)
    BY <1>1, <1>5, LinkUser DEF Changing, Revoking
  <2>2. /\ k.login # None => k.login \notin {job[h].login, job[h].previous}
        /\ job[h].login # None => job[h].login \notin {k.login, k.previous}
        /\ k.user # job[h].user
    BY <1>1, <2>1, OtherAccounts
  <2>3. identity'[k.user] = identity[k.user]
    BY <2>1, <2>2 DEF TypeInv
  <2>4. k.login \in Accounts => reverse'[k.login] = reverse[k.login]
    <3>1. None \notin Accounts
      BY DEF AccountsAssumption
    <3> QED
      BY <2>2, <3>1 DEF TypeInv
  <2>5. k.previous \in Accounts /\ reverse[k.previous] = k.user => reverse'[k.previous] = k.user
    <3>1. None \notin Accounts
      BY DEF AccountsAssumption
    <3> QED
      BY <2>2, <3>1 DEF TypeInv
  <2>6. /\ Relinks(q, k) => k.login \in Accounts
        /\ q = "save reverse" => k.login \in Accounts /\ k.previous \in Accounts \cup {None}
        /\ q \in {"drop reverse", "remove reverse"} => k.previous \in Accounts
    BY <1>3 DEF JobOK, LinkJob, Relinks, Relinking
  <2>7. OwnerJob(q, k)'
    <3>1. Relinks(q, k) /\ q # "claim" => reverse'[k.login] \in {None, k.user}
      BY <1>3, <2>4, <2>6 DEF OwnerJob
    <3>2. q = "save reverse" =>
            /\ identity'[k.user] = k.login /\ reverse'[k.login] \in {None, k.user}
            /\ k.previous \notin {None, k.login} => reverse'[k.previous] = k.user
      BY <1>3, <2>3, <2>4, <2>5, <2>6 DEF OwnerJob
    <3>3. q = "drop reverse" => identity'[k.user] = k.login /\ reverse'[k.previous] = k.user
      BY <1>3, <2>3, <2>5, <2>6 DEF OwnerJob
    <3>4. q = "remove reverse" => identity'[k.user] = None /\ reverse'[k.previous] = k.user
      BY <1>3, <2>3, <2>5, <2>6 DEF OwnerJob
    <3> QED
      BY <3>1, <3>2, <3>3, <3>4, Zenon DEF OwnerJob
  <2> QED
    BY <1>2, <2>7
<1> QED
  BY <1>4, <1>5

\* The entry of a linked account is there, once no other handler is at work.
LEMMA EntryThere ==
  ASSUME AccountsAssumption, TypeInv, Apart, OwnersInv, crossed = {}, NEW h \in Handlers,
         Changing(h), at[h] # "save reverse", job[h].user \in Users,
         identity[job[h].user] \in Accounts
  PROVE  reverse[identity[job[h].user]] = job[h].user
<1> DEFINE u == job[h].user
           a == identity[u]
<1>1. reverse[a] = u \/ Unwritten(u, a)
  BY DEF OwnersInv, PairsAgree
<1>2. ASSUME NEW g \in Handlers, at[g] = "save reverse", job[g].user = u PROVE FALSE
  BY <1>2, Alone DEF Changing
<1> QED
  BY <1>1, <1>2 DEF Unwritten

\* The others' intents to write or to remove an entry stay.
LEMMA IntentsStay ==
  ASSUME TypeInv, NEW h \in Handlers, NEW p, NEW j, Go(h, p, j), NEW u, NEW a,
         NEW g \in Handlers, g # h
  PROVE  /\ at[g] = "save reverse" /\ job[g].user = u /\ job[g].login = a => Unwritten(u, a)'
         /\ at[g] \in Dropping /\ job[g].user = u /\ job[g].previous = a => Undropped(u, a)'
<1>1. at'[g] = at[g] /\ job'[g] = job[g]
  BY MoveFields
<1> QED
  BY <1>1 DEF Unwritten, Undropped

LEMMA OwnersStill ==
  ASSUME OwnersInv, crossed = {}, UNCHANGED <<at, job, identity, reverse>>
  PROVE  OwnersInv'
<1>1. \A h \in Handlers : OwnerJob(at[h], job[h])'
  BY DEF OwnersInv, OwnerJob, Relinks
<1>2. \A u, a : (Unwritten(u, a)' <=> Unwritten(u, a)) /\ (Undropped(u, a)' <=> Undropped(u, a))
  BY DEF Unwritten, Undropped
<1>3. PairsAgree'
  BY <1>2 DEF OwnersInv, PairsAgree
<1> QED
  BY <1>1, <1>3 DEF OwnersInv

LEMMA OwnersSave ==
  ASSUME AccountsAssumption, TypeInv, Apart, IdentityInv, OwnersInv, crossed = {},
         NEW h \in Handlers, Save(h)
  PROVE  OwnersInv'
<1>0. PICK j, u, a : j = job[h] /\ u = j.user /\ a = j.login
  OBVIOUS
<1>1. at[h] = "save" /\ Changing(h) /\ u \in Users
  BY <1>0, LinkUser DEF Save, Changing, LinkPlaces
<1>2. a \in Accounts /\ j.previous = identity[u] /\ reverse[a] \in {None, u}
      /\ j.previous \in Accounts \cup {None}
  <2>1. JobOK("save", j) /\ IdentityJob("save", j) /\ OwnerJob("save", j)
    BY <1>0, <1>1, InHand DEF IdentityInv, OwnersInv
  <2> QED
    BY <1>0, <2>1 DEF JobOK, LinkJob, Relinking, IdentityJob, Relinks, OwnerJob
<1>3. /\ identity' = [identity EXCEPT ![u] = a] /\ UNCHANGED reverse
      /\ Go(h, "save reverse", j)
  BY <1>0 DEF Save, Goto
<1>4. at'[h] = "save reverse" /\ job'[h] = j
  BY <1>3, MoveFields, ZenonT(60)
<1>5. identity'[u] = a /\ \A v \in Users : v # u => identity'[v] = identity[v]
  BY <1>1, <1>3 DEF TypeInv
<1>6. OwnerJob("save reverse", j)'
  <2>1. j.previous \notin {None, a} => reverse[j.previous] = u
    BY <1>0, <1>1, <1>2, EntryThere
  <2>2. identity'[j.user] = j.login /\ reverse'[j.login] \in {None, j.user}
    BY <1>0, <1>2, <1>3, <1>5
  <2>3. j.previous \notin {None, j.login} => reverse'[j.previous] = j.user
    BY <1>0, <1>3, <2>1
  <2>4. ~Relinks("save reverse", j)
    BY NoIdentity DEF LinkPlaces
  <2> QED
    BY <2>2, <2>3, <2>4 DEF OwnerJob
<1>7. ASSUME NEW g \in Handlers PROVE OwnerJob(at[g], job[g])'
  <2>1. CASE g = h
    BY <1>4, <1>6, <2>1
  <2>2. CASE g # h
    BY <1>0, <1>1, <1>3, <2>2, OwnersOthers
  <2> QED
    BY <2>1, <2>2
<1>8. ASSUME NEW v \in Users, NEW b \in Accounts, identity'[v] = b
      PROVE  reverse'[b] = v \/ Unwritten(v, b)'
  <2>1. CASE v = u
    <3>1. b = a
      BY <1>5, <1>8, <2>1
    <3> QED
      BY <1>0, <1>4, <2>1, <3>1 DEF Unwritten
  <2>2. CASE v # u
    <3>1. identity[v] = b
      BY <1>5, <1>8, <2>2
    <3>2. reverse[b] = v \/ Unwritten(v, b)
      BY <3>1 DEF OwnersInv, PairsAgree
    <3>3. CASE Unwritten(v, b)
      <4>1. PICK g \in Handlers : at[g] = "save reverse" /\ job[g].user = v /\ job[g].login = b
        BY <3>3 DEF Unwritten
      <4> QED
        BY <1>1, <1>3, <4>1, IntentsStay
    <3> QED
      BY <1>3, <3>2, <3>3
  <2> QED
    BY <2>1, <2>2
<1>9. ASSUME NEW v \in Users, NEW b \in Accounts, reverse'[b] = v
      PROVE  identity'[v] = b \/ Undropped(v, b)'
  <2>1. identity[v] = b \/ Undropped(v, b)
    BY <1>3, <1>9 DEF OwnersInv, PairsAgree
  <2>2. CASE identity[v] = b
    <3>1. CASE v = u
      <4>1. j.previous = b
        BY <1>2, <2>2, <3>1
      <4> QED
        BY <1>0, <1>4, <3>1, <4>1 DEF Undropped, Dropping
    <3>2. CASE v # u
      BY <1>5, <2>2, <3>2
    <3> QED
      BY <3>1, <3>2
  <2>3. CASE Undropped(v, b)
    <3>1. PICK g \in Handlers : at[g] \in Dropping /\ job[g].user = v /\ job[g].previous = b
      BY <2>3 DEF Undropped
    <3>2. g # h
      BY <1>1, <3>1 DEF Dropping
    <3> QED
      BY <1>3, <3>1, <3>2, IntentsStay
  <2> QED
    BY <2>1, <2>2, <2>3
<1> QED
  BY <1>7, <1>8, <1>9 DEF OwnersInv, PairsAgree

LEMMA OwnersSaveReverse ==
  ASSUME AccountsAssumption, TypeInv, Apart, OwnersInv, crossed = {},
         NEW h \in Handlers, SaveReverse(h)
  PROVE  OwnersInv'
<1>0. PICK j, u, a : j = job[h] /\ u = j.user /\ a = j.login
  OBVIOUS
<1>1. at[h] = "save reverse" /\ Changing(h) /\ u \in Users /\ u # None
  BY <1>0, LinkUser DEF SaveReverse, Changing, LinkPlaces, AccountsAssumption, Keys
<1>2. /\ a \in Accounts /\ identity[u] = a /\ reverse[a] \in {None, u}
      /\ j.previous \in Accounts \cup {None}
      /\ j.previous \notin {None, a} => reverse[j.previous] = u
  <2>1. JobOK("save reverse", j) /\ OwnerJob("save reverse", j)
    BY <1>0, <1>1, InHand DEF OwnersInv
  <2> QED
    BY <1>0, <2>1 DEF JobOK, LinkJob, Relinking, OwnerJob
<1>3. /\ reverse' = [reverse EXCEPT ![a] = u] /\ UNCHANGED identity
      /\ IF j.previous \notin {None, a} THEN Go(h, "drop reverse", j) ELSE Go(h, "idle", NoJob)
  BY <1>0 DEF SaveReverse, Leave, Goto, Rest, Replaces
<1>4. reverse'[a] = u /\ \A b \in Accounts : b # a => reverse'[b] = reverse[b]
  BY <1>2, <1>3 DEF TypeInv
<1>5. \E p : \E k : /\ Go(h, p, k) /\ OwnerJob(p, k)'
                    /\ j.previous \notin {None, a} => p = "drop reverse" /\ k = j
  <2>1. CASE j.previous \notin {None, a}
    <3>1. identity'[j.user] = j.login /\ reverse'[j.previous] = j.user
      BY <1>0, <1>2, <1>3, <1>4, <2>1
    <3>2. ~Relinks("drop reverse", j)
      BY NoIdentity DEF LinkPlaces
    <3>3. OwnerJob("drop reverse", j)'
      BY <3>1, <3>2 DEF OwnerJob
    <3> QED
      BY <1>3, <2>1, <3>3
  <2>2. CASE j.previous \in {None, a}
    <3>1. ~Relinks("idle", NoJob)
      BY NoIdentity
    <3>2. OwnerJob("idle", NoJob)'
      BY <3>1 DEF OwnerJob
    <3> QED
      BY <1>3, <2>2, <3>2
  <2> QED
    BY <2>1, <2>2
<1>6. PICK p, k : /\ Go(h, p, k) /\ OwnerJob(p, k)'
                  /\ j.previous \notin {None, a} => p = "drop reverse" /\ k = j
  BY <1>5
<1>7. ASSUME NEW g \in Handlers PROVE OwnerJob(at[g], job[g])'
  <2>1. CASE g = h
    BY <1>6, <2>1, MoveFields
  <2>2. CASE g # h
    BY <1>0, <1>1, <1>2, <1>3, <1>6, <2>2, OwnersOthers
  <2> QED
    BY <2>1, <2>2
<1>8. ASSUME NEW v \in Users, NEW b \in Accounts, identity'[v] = b
      PROVE  reverse'[b] = v \/ Unwritten(v, b)'
  <2>1. reverse[b] = v \/ Unwritten(v, b)
    BY <1>3, <1>8 DEF OwnersInv, PairsAgree
  <2>2. CASE b = a
    <3>1. CASE v = u
      BY <1>4, <2>2, <3>1
    <3>2. CASE v # u
      <4>1. v # None
        BY DEF AccountsAssumption, Keys
      <4>2. PICK g \in Handlers : at[g] = "save reverse" /\ job[g].user = v /\ job[g].login = a
        BY <1>2, <2>1, <2>2, <3>2, <4>1 DEF Unwritten
      <4>3. g # h /\ Changing(g) /\ a # None
        BY <1>0, <1>2, <3>2, <4>2 DEF Changing, LinkPlaces, AccountsAssumption
      <4> QED
        BY <1>0, <1>1, <4>2, <4>3, OtherAccounts
    <3> QED
      BY <3>1, <3>2
  <2>3. CASE b # a
    <3>1. CASE Unwritten(v, b)
      <4>1. PICK g \in Handlers : at[g] = "save reverse" /\ job[g].user = v /\ job[g].login = b
        BY <3>1 DEF Unwritten
      <4>2. g # h
        BY <1>0, <2>3, <4>1
      <4> QED
        BY <1>6, <4>1, <4>2, IntentsStay
    <3> QED
      BY <1>4, <2>1, <2>3, <3>1
  <2> QED
    BY <2>2, <2>3
<1>9. ASSUME NEW v \in Users, NEW b \in Accounts, reverse'[b] = v
      PROVE  identity'[v] = b \/ Undropped(v, b)'
  <2>1. CASE b = a
    <3>1. v = u
      BY <1>4, <1>9, <2>1
    <3> QED
      BY <1>2, <1>3, <2>1, <3>1
  <2>2. CASE b # a
    <3>1. reverse[b] = v
      BY <1>4, <1>9, <2>2
    <3>2. identity[v] = b \/ Undropped(v, b)
      BY <3>1 DEF OwnersInv, PairsAgree
    <3>3. CASE Undropped(v, b)
      <4>1. PICK g \in Handlers : at[g] \in Dropping /\ job[g].user = v /\ job[g].previous = b
        BY <3>3 DEF Undropped
      <4>2. CASE g = h
        <5>1. b # None
          BY DEF AccountsAssumption
        <5>2. p = "drop reverse" /\ k = j
          BY <1>0, <1>6, <2>2, <4>1, <4>2, <5>1
        <5>3. at'[h] = "drop reverse" /\ job'[h] = j
          <6>1. Go(h, p, k)
            BY <1>6
          <6>2. at'[h] = p /\ job'[h] = k
            BY <6>1, MoveFields
          <6> QED
            BY <5>2, <6>2
        <5> QED
          BY <1>0, <4>1, <4>2, <5>3 DEF Undropped, Dropping
      <4>3. CASE g # h
        BY <1>6, <4>1, <4>3, IntentsStay
      <4> QED
        BY <4>2, <4>3
    <3> QED
      BY <1>3, <3>2, <3>3
  <2> QED
    BY <2>1, <2>2
<1> QED
  BY <1>7, <1>8, <1>9 DEF OwnersInv, PairsAgree

\* The entry of the account that was replaced or unlinked.
LEMMA OwnersDropped ==
  ASSUME AccountsAssumption, TypeInv, Apart, OwnersInv, crossed = {},
         NEW h \in Handlers, DropReverse(h) \/ RemoveReverse(h)
  PROVE  OwnersInv'
<1>0. PICK j, u, a : j = job[h] /\ u = j.user /\ a = j.previous
  OBVIOUS
<1>1. /\ at[h] \in {"drop reverse", "remove reverse"} /\ Changing(h)
      /\ u \in Users /\ u # None
  BY <1>0, LinkUser DEF DropReverse, RemoveReverse, Changing, LinkPlaces, AccountsAssumption, Keys
<1>2. a \in Accounts /\ reverse[a] = u /\ identity[u] # a
  <2>1. JobOK(at[h], j) /\ OwnerJob(at[h], j)
    BY <1>0, InHand DEF OwnersInv
  <2>2. a \in Accounts /\ reverse[a] = u /\ identity[u] \in {None, j.login}
    BY <1>0, <1>1, <2>1 DEF JobOK, LinkJob, OwnerJob
  <2>3. CASE at[h] = "drop reverse"
    BY <1>0, <2>1, <2>3 DEF JobOK, LinkJob, OwnerJob
  <2>4. CASE at[h] = "remove reverse"
    <3>1. identity[u] = None
      BY <1>0, <2>1, <2>4 DEF OwnerJob
    <3>2. None \notin Accounts
      BY DEF AccountsAssumption
    <3> QED
      BY <2>2, <3>1, <3>2
  <2> QED
    BY <1>1, <2>2, <2>3, <2>4
<1>3. /\ reverse' = [reverse EXCEPT ![a] = None] /\ UNCHANGED identity
      /\ Go(h, "idle", NoJob)
  BY <1>0 DEF DropReverse, RemoveReverse, Rest
<1>4. reverse'[a] = None /\ \A b \in Accounts : b # a => reverse'[b] = reverse[b]
  BY <1>2, <1>3 DEF TypeInv
<1>5. OwnerJob("idle", NoJob)'
  <2>1. ~Relinks("idle", NoJob)
    BY NoIdentity
  <2> QED
    BY <2>1 DEF OwnerJob
<1>6. ASSUME NEW g \in Handlers PROVE OwnerJob(at[g], job[g])'
  <2>1. CASE g = h
    BY <1>3, <1>5, <2>1, MoveFields
  <2>2. CASE g # h
    BY <1>0, <1>1, <1>2, <1>3, <2>2, OwnersOthers
  <2> QED
    BY <2>1, <2>2
<1>7. ASSUME NEW v \in Users, NEW b \in Accounts, identity'[v] = b
      PROVE  reverse'[b] = v \/ Unwritten(v, b)'
  <2>1. reverse[b] = v \/ Unwritten(v, b)
    BY <1>3, <1>7 DEF OwnersInv, PairsAgree
  <2>2. CASE Unwritten(v, b)
    <3>1. PICK g \in Handlers : at[g] = "save reverse" /\ job[g].user = v /\ job[g].login = b
      BY <2>2 DEF Unwritten
    <3>2. g # h
      BY <1>1, <3>1
    <3> QED
      BY <1>3, <3>1, <3>2, IntentsStay, ZenonT(60)
  <2>3. CASE reverse[b] = v /\ b = a
    BY <1>2, <1>3, <1>7, <2>3
  <2> QED
    BY <1>4, <2>1, <2>2, <2>3
<1>8. ASSUME NEW v \in Users, NEW b \in Accounts, reverse'[b] = v
      PROVE  identity'[v] = b \/ Undropped(v, b)'
  <2>1. v # None
    BY DEF AccountsAssumption, Keys
  <2>2. b # a /\ reverse[b] = v
    BY <1>4, <1>8, <2>1
  <2>3. identity[v] = b \/ Undropped(v, b)
    BY <2>2 DEF OwnersInv, PairsAgree
  <2>4. CASE Undropped(v, b)
    <3>1. PICK g \in Handlers : at[g] \in Dropping /\ job[g].user = v /\ job[g].previous = b
      BY <2>4 DEF Undropped
    <3>2. g # h
      BY <1>0, <2>2, <3>1
    <3> QED
      BY <1>3, <3>1, <3>2, IntentsStay
  <2> QED
    BY <1>3, <2>3, <2>4
<1> QED
  BY <1>6, <1>7, <1>8 DEF OwnersInv, PairsAgree

LEMMA OwnersRemove ==
  ASSUME AccountsAssumption, TypeInv, Apart, IdentityInv, OwnersInv, crossed = {},
         NEW h \in Handlers, Remove(h)
  PROVE  OwnersInv'
<1>0. PICK j, u, a : j = job[h] /\ u = j.user /\ a = j.previous
  OBVIOUS
<1>1. at[h] = "remove" /\ Changing(h) /\ u \in Users
  BY <1>0, LinkUser DEF Remove, Changing, LinkPlaces
<1>2. a \in Accounts /\ identity[u] = a
  <2>1. JobOK("remove", j) /\ IdentityJob("remove", j)
    BY <1>0, <1>1, InHand DEF IdentityInv
  <2> QED
    BY <1>0, <2>1 DEF JobOK, LinkJob, IdentityJob
<1>3. /\ identity' = [identity EXCEPT ![u] = None] /\ UNCHANGED reverse
      /\ Go(h, "remove reverse", j)
  BY <1>0 DEF Remove, Goto
<1>4. at'[h] = "remove reverse" /\ job'[h] = j
  BY <1>3, MoveFields, ZenonT(60)
<1>5. identity'[u] = None /\ \A v \in Users : v # u => identity'[v] = identity[v]
  BY <1>1, <1>3 DEF TypeInv
<1>6. OwnerJob("remove reverse", j)'
  <2>1. reverse[a] = u
    BY <1>0, <1>1, <1>2, EntryThere
  <2>2. identity'[j.user] = None /\ reverse'[j.previous] = j.user
    BY <1>0, <1>3, <1>5, <2>1
  <2>3. ~Relinks("remove reverse", j)
    BY NoIdentity DEF LinkPlaces
  <2> QED
    BY <2>2, <2>3 DEF OwnerJob
<1>7. ASSUME NEW g \in Handlers PROVE OwnerJob(at[g], job[g])'
  <2>1. CASE g = h
    BY <1>4, <1>6, <2>1
  <2>2. CASE g # h
    BY <1>0, <1>1, <1>3, <2>2, OwnersOthers
  <2> QED
    BY <2>1, <2>2
<1>8. ASSUME NEW v \in Users, NEW b \in Accounts, identity'[v] = b
      PROVE  reverse'[b] = v \/ Unwritten(v, b)'
  <2>1. v # u /\ identity[v] = b
    BY <1>5, <1>8 DEF AccountsAssumption
  <2>2. reverse[b] = v \/ Unwritten(v, b)
    BY <2>1 DEF OwnersInv, PairsAgree
  <2>3. CASE Unwritten(v, b)
    <3>1. PICK g \in Handlers : at[g] = "save reverse" /\ job[g].user = v /\ job[g].login = b
      BY <2>3 DEF Unwritten
    <3> QED
      BY <1>1, <1>3, <3>1, IntentsStay
  <2> QED
    BY <1>3, <2>2, <2>3
<1>9. ASSUME NEW v \in Users, NEW b \in Accounts, reverse'[b] = v
      PROVE  identity'[v] = b \/ Undropped(v, b)'
  <2>1. identity[v] = b \/ Undropped(v, b)
    BY <1>3, <1>9 DEF OwnersInv, PairsAgree
  <2>2. CASE identity[v] = b
    <3>1. CASE v = u
      BY <1>0, <1>2, <1>4, <2>2, <3>1 DEF Undropped, Dropping
    <3>2. CASE v # u
      BY <1>5, <2>2, <3>2
    <3> QED
      BY <3>1, <3>2
  <2>3. CASE Undropped(v, b)
    <3>1. PICK g \in Handlers : at[g] \in Dropping /\ job[g].user = v /\ job[g].previous = b
      BY <2>3 DEF Undropped
    <3>2. g # h
      BY <1>1, <3>1 DEF Dropping
    <3> QED
      BY <1>3, <3>1, <3>2, IntentsStay
  <2> QED
    BY <2>1, <2>2, <2>3
<1> QED
  BY <1>7, <1>8, <1>9 DEF OwnersInv, PairsAgree

LEMMA OwnersRead ==
  ASSUME AccountsAssumption, TypeInv, OwnersInv, crossed = {},
         NEW h \in Handlers, Consume(h) \/ Exchange(h) \/ Claim(h) \/ Unlink(h)
  PROVE  OwnersInv'
<1>0. PICK j : j = job[h]
  OBVIOUS
<1>1. j \in Job /\ JobOK(at[h], j) /\ ~Relinks("idle", NoJob) /\ at[h] \notin Dropping
  BY <1>0, InHand, NoIdentity DEF Consume, Exchange, Claim, Unlink, Dropping
<1>2. UNCHANGED <<identity, reverse>>
  BY DEF Consume, Exchange, Claim, Unlink, links
<1>3. OwnerJob("idle", NoJob)
  BY <1>1, NoOwner DEF Dropping
<1>4. Go(h, "idle", NoJob) => OwnersInv'
  BY <1>1, <1>2, <1>3, OwnersQuiet
<1>5. CASE Consume(h)
  <2>1. j.url \in Urls /\ url[j.url].status # "none"
    BY <1>0, <1>1, <1>5 DEF Consume, JobOK, LinkJob
  <2>2. PICK p : p = url[j.url].service /\ p \in {"github", "google"}
    BY <2>1 DEF TypeInv, UrlsOK
  <2>3. Go(h, "idle", NoJob) \/ Go(h, p, j)
    BY <1>0, <1>5, <2>2 DEF Consume, Goto, Rest
  <2>4. ~Relinks(p, j)
    BY <2>2, NoIdentity DEF LinkPlaces, CalendarPlaces
  <2>5. OwnerJob(p, j)
    BY <2>2, <2>4, NoOwner DEF Dropping
  <2> QED
    BY <1>1, <1>2, <1>4, <2>3, <2>5, OwnersQuiet
<1>6. CASE Exchange(h)
  <2>1. PICK k : Go(h, "claim", k)
    BY <1>6 DEF Exchange
  <2>2. OwnerJob("claim", k)
    BY NoOwner DEF Dropping
  <2> QED
    BY <1>1, <1>2, <2>1, <2>2, OwnersQuiet
<1>7. CASE Unlink(h)
  <2>1. PICK k : Go(h, "idle", NoJob) \/ Go(h, "remove", k)
    BY <1>7 DEF Unlink, Rest
  <2>2. ~Relinks("remove", k)
    BY DEF Relinks, Revoking
  <2>3. OwnerJob("remove", k)
    BY <2>2, NoOwner DEF Dropping
  <2> QED
    BY <1>1, <1>2, <1>4, <2>1, <2>3, OwnersQuiet
<1>8. CASE Claim(h)
  <2>1. PICK k : k = [j EXCEPT !.then = "save"]
    OBVIOUS
  <2>2. k.user = j.user /\ k.login = j.login
    BY <1>1, <2>1 DEF Job
  <2>3. \/ Go(h, "idle", NoJob)
        \/ reverse[j.login] \in {None, j.user} /\ (Go(h, "revoke", k) \/ Go(h, "save", j))
    <3>1. CASE reverse[j.login] \notin {None, j.user}
      BY <1>0, <1>8, <3>1 DEF Claim, Rest
    <3>2. CASE reverse[j.login] \in {None, j.user} /\ Replaces(h)
      BY <1>0, <1>8, <2>1, <3>2 DEF Claim
    <3>3. CASE reverse[j.login] \in {None, j.user} /\ ~Replaces(h)
      BY <1>0, <1>8, <3>3 DEF Claim, Goto
    <3> QED
      BY <3>1, <3>2, <3>3
  <2>4. reverse[j.login] \in {None, j.user} => OwnerJob("revoke", k) /\ OwnerJob("save", j)
    BY <2>2 DEF OwnerJob
  <2> QED
    BY <1>1, <1>2, <1>4, <2>3, <2>4, OwnersQuiet
<1> QED
  BY <1>5, <1>6, <1>7, <1>8

LEMMA OwnersNext ==
  ASSUME AccountsAssumption, TypeInv, Apart, IdentityInv, OwnersInv, crossed \subseteq crossed',
         LinkKinds
  PROVE  OwnersInv'
<1> SUFFICES ASSUME crossed' = {} PROVE OwnersInv'
  BY DEF OwnersInv
<1>0. crossed = {}
  OBVIOUS
<1>1. CASE UNCHANGED <<at, job, links, calendars>>
  BY <1>0, <1>1, OwnersStill DEF links
<1>2. ASSUME NEW h \in Handlers, NEW u \in Users, NEW s, Connect(h, u, s) PROVE OwnersInv'
  <2>1. UNCHANGED <<at, job, identity, reverse>>
    BY <1>2 DEF Connect
  <2> QED
    BY <1>0, <2>1, OwnersStill
<1>3. ASSUME NEW h \in Handlers, NEW n \in Urls, Callback(h, n) PROVE OwnersInv'
  <2>1. PICK j : Go(h, "consume", j) /\ UNCHANGED <<identity, reverse>>
    BY <1>3 DEF Callback, links
  <2>2. ~Relinks("consume", j)
    BY NoIdentity DEF LinkPlaces
  <2>3. OwnerJob("consume", j) /\ at[h] \notin Dropping
    BY <1>3, <2>2, NoOwner DEF Callback, Dropping
  <2> QED
    BY <1>0, <2>1, <2>3, OwnersQuiet
<1>4. ASSUME NEW h \in Handlers, CalendarStep(h), UNCHANGED links PROVE OwnersInv'
  <2>1. PICK p \in CalendarPlaces \cup {"idle"} : \E j : Go(h, p, j)
    BY <1>4, CalendarLeads
  <2>2. PICK j : Go(h, p, j)
    BY <2>1
  <2>3. at[h] \notin Dropping /\ p \notin Dropping
    BY <1>4, CalendarLeads DEF CalendarPlaces, Dropping
  <2>4. ~Relinks(p, j)
    BY DEF CalendarPlaces, Relinks, Revoking
  <2>5. OwnerJob(p, j)
    BY <2>3, <2>4, NoOwner
  <2>6. UNCHANGED <<identity, reverse>>
    BY <1>4 DEF links
  <2> QED
    BY <1>0, <2>2, <2>3, <2>5, <2>6, OwnersQuiet
<1>5. ASSUME NEW h \in Handlers, Out(h), Elsewhere(h), UNCHANGED <<links, calendars>>
      PROVE  OwnersInv'
  <2>1. PICK p, j : Go(h, p, j) /\ Aside(h, p, j)
    BY <1>5 DEF Elsewhere
  <2>2. UNCHANGED <<identity, reverse>>
    BY <1>5 DEF links
  <2>3. at[h] \notin Dropping /\ p \notin Dropping
    BY <1>5, <2>1 DEF Out, Aside, LinkOnly, LinkPlaces, Dropping
  <2>4. OwnerJob(at[h], job[h])
    BY <1>0 DEF OwnersInv
  <2>5. OwnerJob(p, j)
    <3>1. CASE Relinks(p, j)
      <4>1. /\ Relinks(at[h], job[h]) /\ at[h] # "claim"
            /\ j.user = job[h].user /\ j.login = job[h].login
        BY <2>1, <3>1 DEF Aside, Revoking
      <4>2. reverse[j.login] \in {None, j.user}
        BY <2>4, <4>1, Zenon DEF OwnerJob
      <4> QED
        BY <2>3, <4>2 DEF OwnerJob, Dropping
    <3>2. CASE ~Relinks(p, j)
      BY <2>3, <3>2, NoOwner
    <3> QED
      BY <3>1, <3>2
  <2> QED
    BY <1>0, <2>1, <2>2, <2>3, <2>5, OwnersQuiet
<1>6. ASSUME NEW h \in Handlers, Quits(h), UNCHANGED <<links, calendars>> PROVE OwnersInv'
  <2>1. at[h] \notin LinkPlaces
    <3>1. SUFFICES ASSUME at[h] \in LinkPlaces PROVE FALSE
      OBVIOUS
    <3>2. job[h].user \in Users
      BY <3>1, LinkUser
    <3> QED
      BY <1>6, <3>1, <3>2 DEF Quits
  <2>2. Go(h, "idle", NoJob) /\ at[h] \notin Dropping /\ UNCHANGED <<identity, reverse>>
    BY <1>6, <2>1 DEF Quits, Rest, Dropping, LinkPlaces, links
  <2>3. ~Relinks("idle", NoJob)
    BY NoIdentity
  <2>4. OwnerJob("idle", NoJob)
    BY <2>3, NoOwner DEF Dropping
  <2> QED
    BY <1>0, <2>2, <2>4, OwnersQuiet
<1>7. ASSUME NEW h \in Handlers, LinkStep(h) PROVE OwnersInv'
  BY <1>0, <1>7, OwnersRead, OwnersSave, OwnersSaveReverse, OwnersDropped, OwnersRemove DEF LinkStep
<1> QED
  BY <1>1, <1>2, <1>3, <1>4, <1>5, <1>6, <1>7 DEF LinkKinds

LEMMA OwnersInit ==
  ASSUME AccountsAssumption, Init
  PROVE  OwnersInv
<1>1. PICK s \in Scenarios : InitHandlers /\ InitLinks(s.linked)
  BY DEF Init
<1>2. PICK linked : linked = s.linked
  OBVIOUS
<1>3. /\ linked \in [Users -> Accounts \cup {None}]
      /\ \A u, v \in Users : linked[u] = linked[v] => u = v \/ linked[u] = None
  BY <1>2 DEF AccountsAssumption
<1>4. /\ identity = linked
      /\ \A a \in Accounts : reverse[a] = IF \E u \in Users : linked[u] = a
                                          THEN CHOOSE u \in Users : linked[u] = a ELSE None
  BY <1>1, <1>2 DEF InitLinks
<1>5. ASSUME NEW u \in Users, NEW a \in Accounts PROVE identity[u] = a <=> reverse[a] = u
  <2>1. a # None /\ u # None
    BY DEF AccountsAssumption, Keys
  <2>2. CASE \E v \in Users : linked[v] = a
    <3>1. PICK v \in Users : v = reverse[a] /\ linked[v] = a
      BY <1>4, <2>2
    <3> QED
      BY <1>3, <1>4, <2>1, <3>1
  <2>3. CASE ~\E v \in Users : linked[v] = a
    BY <1>4, <2>1, <2>3
  <2> QED
    BY <2>2, <2>3
<1>6. ASSUME NEW h \in Handlers PROVE OwnerJob(at[h], job[h])
  <2>1. at[h] = "idle" /\ job[h] = NoJob
    BY <1>1 DEF InitHandlers
  <2>2. OwnerJob("idle", NoJob)
    BY NoOwner, NoIdentity DEF Dropping
  <2> QED
    BY <2>1, <2>2
<1> QED
  BY <1>5, <1>6 DEF OwnersInv, PairsAgree

\* While no handlers crossed and no link was left half written, identities and
\* reverse entries agree whenever no handler is at a link: nobody is refused
\* an account that is free, and no account has two users (identity-service.ts
\* writes the two one after the other, without a revision).
THEOREM OwnersOfAccounts == Spec => []OwnersAgree
<1>1. AccountsAssumption
  BY AccountsAssumption
<1>2. Init => Apart /\ IdentityInv /\ OwnersInv
  BY <1>1, InitApart, IdentityInit, OwnersInit
<1>3. TypeInv /\ Apart /\ IdentityInv /\ OwnersInv /\ [Next]_vars
      => Apart' /\ IdentityInv' /\ OwnersInv'
  BY <1>1, Recorded, NextKinds, IdentityNext, OwnersNext
<1>4. OwnersInv => OwnersAgree
  <2>1. SUFFICES ASSUME OwnersInv, crossed = {}, \A h \in Handlers : at[h] \notin LinkPlaces
                 PROVE  Paired
    BY DEF OwnersAgree
  <2>2. \A u \in Users, a \in Accounts : ~Unwritten(u, a) /\ ~Undropped(u, a)
    BY <2>1 DEF Unwritten, Undropped, Dropping, LinkPlaces
  <2> QED
    BY <2>1, <2>2 DEF OwnersInv, PairsAgree, Paired
<1> QED
  BY <1>2, <1>3, <1>4, Typed, PTL DEF Spec


-----------------------------------------------------------------------------
(* One calendar to a link.                                                 *)

\* What a handler has read of its user's Google link is what is stored.
CalJob(p, j) ==
  /\ p \in {"claim google", "save google"} => j.previous = google[j.user]
  /\ p \in {"calendar login", "create calendar"} => j.doc = google[j.user]

Reads == {"claim google", "save google", "calendar login", "create calendar"}

\* A link without a calendar has none, but for the one about to be written down.
Saver(u) == \E h \in Handlers : at[h] = "save calendar" /\ job[h].user = u

CalOf(u) ==
  /\ made[u] <= 1
  /\ google[u].calendar = 0 => made[u] = 0 \/ Saver(u)
  /\ \A h \in Handlers : job[h].user = u => CalJob(at[h], job[h])

CalendarInv == \A u \in Users \ crossed : CalOf(u)

LEMMA ReadsNothing ==
  ASSUME NEW p, NEW j, p \notin Reads
  PROVE  CalJob(p, j) /\ CalJob(p, j)'
  BY DEF CalJob, Reads

\* A handler goes on and the user's link stays as it is.
LEMMA CalendarMove ==
  ASSUME TypeInv, NEW u \in Users, CalOf(u), NEW h \in Handlers, NEW p, NEW j, Go(h, p, j),
         google'[u] = google[u], made'[u] = made[u],
         ~(at[h] = "save calendar" /\ job[h].user = u), j.user = u => CalJob(p, j)
  PROVE  CalOf(u)'
<1>1. /\ at'[h] = p /\ job'[h] = j
      /\ \A g \in Handlers : g # h => at'[g] = at[g] /\ job'[g] = job[g]
  BY MoveFields
<1>2. Saver(u) => Saver(u)'
  BY <1>1 DEF Saver
<1>3. ASSUME NEW g \in Handlers, job'[g].user = u PROVE CalJob(at[g], job[g])'
  <2>1. PICK q, k : q = at'[g] /\ k = job'[g]
    OBVIOUS
  <2>2. CalJob(q, k)
    BY <1>1, <1>3, <2>1 DEF CalOf
  <2>3. k.user = u
    BY <1>3, <2>1
  <2>4. CalJob(q, k)'
    BY <2>2, <2>3 DEF CalJob
  <2> QED
    BY <2>1, <2>4
<1> QED
  BY <1>2, <1>3 DEF CalOf

\* A handler changes its user's link, or makes a calendar for it, alone.
LEMMA CalendarChange ==
  ASSUME TypeInv, Apart, NEW h \in Handlers, Linking(h), NEW u \in Users \ crossed,
         job[h].user = u, NEW p, NEW j, Go(h, p, j), p \notin Reads, j.user = u,
         made'[u] <= 1,
         google'[u].calendar = 0 => made'[u] = 0 \/ p = "save calendar"
  PROVE  CalOf(u)'
<1>1. /\ at'[h] = p /\ job'[h] = j
      /\ \A g \in Handlers : g # h => at'[g] = at[g] /\ job'[g] = job[g]
  BY MoveFields
<1>2. ASSUME NEW g \in Handlers, job'[g].user = u PROVE CalJob(at[g], job[g])'
  <2>1. PICK q, k : q = at'[g] /\ k = job'[g]
    OBVIOUS
  <2>2. q \notin Reads
    <3>1. CASE g = h
      BY <1>1, <2>1, <3>1
    <3>2. CASE g # h
      <4>1. ~Linking(g)
        BY <1>1, <1>2, <3>2, Alone
      <4> QED
        BY <1>1, <2>1, <3>2, <4>1 DEF Linking, CalendarPlaces, Reads
    <3> QED
      BY <3>1, <3>2
  <2>3. CalJob(q, k)'
    BY <2>2, ReadsNothing
  <2> QED
    BY <2>1, <2>3
<1>3. p = "save calendar" => Saver(u)'
  BY <1>1 DEF Saver
<1> QED
  BY <1>2, <1>3 DEF CalOf

\* Nobody else is about to write down a calendar.
LEMMA NoSaver ==
  ASSUME Apart, NEW h \in Handlers, Linking(h), at[h] # "save calendar",
         NEW u \in Users \ crossed, job[h].user = u
  PROVE  ~Saver(u)
<1> SUFFICES ASSUME NEW g \in Handlers, at[g] = "save calendar", job[g].user = u PROVE FALSE
  BY DEF Saver
<1>1. Linking(g) /\ g # h
  BY DEF Linking, CalendarPlaces
<1> QED
  BY <1>1, Alone

LEMMA CalendarSaved ==
  ASSUME AccountsAssumption, TypeInv, Apart, CalendarInv, NEW h \in Handlers,
         SaveGoogle(h) \/ RemoveGoogle(h) \/ CreateCalendar(h) \/ SaveCalendar(h),
         NEW u \in Users \ crossed
  PROVE  CalOf(u)'
<1>0. PICK j, v : j = job[h] /\ v = j.user
  OBVIOUS
<1>1. /\ Linking(h) /\ v \in Users /\ j \in Job /\ JobOK(at[h], j)
      /\ google \in [Users -> GoogleState] /\ made \in [Users -> Nat]
  BY <1>0, InHand, LinkUser
     DEF SaveGoogle, RemoveGoogle, CreateCalendar, SaveCalendar, Linking, CalendarPlaces, TypeInv,
         GoogleOK
<1>2. PICK p, k : Go(h, p, k) /\ k.user = v /\ p \notin Reads /\ (CreateCalendar(h) => p = "save calendar")
  <2>1. CASE CreateCalendar(h)
    <3>1. PICK d : d = [j.doc EXCEPT !.calendar = Len(calendar) + 1]
      OBVIOUS
    <3>2. PICK k : k = [j EXCEPT !.doc = d]
      OBVIOUS
    <3>3. k.user = v
      BY <1>0, <1>1, <3>2 DEF Job
    <3>4. k = [j EXCEPT !.doc.calendar = Len(calendar) + 1]
      BY <3>1, <3>2
    <3>5. Go(h, "save calendar", k)
      BY <1>0, <2>1, <3>4 DEF CreateCalendar
    <3> QED
      BY <3>3, <3>5 DEF Reads
  <2>2. CASE SaveGoogle(h) \/ RemoveGoogle(h) \/ SaveCalendar(h)
    <3>1. PICK p \in {"save google reverse", "remove google reverse", "save calendar reverse"} :
            Go(h, p, j)
      BY <1>0, <2>2 DEF SaveGoogle, RemoveGoogle, SaveCalendar, Goto
    <3>2. at[h] # "create calendar"
      BY <2>2 DEF SaveGoogle, RemoveGoogle, SaveCalendar
    <3> QED
      BY <1>0, <3>1, <3>2 DEF Reads, CreateCalendar
  <2> QED
    BY <2>1, <2>2
<1>3. CASE v # u
  <2>1. google'[u] = google[u] /\ made'[u] = made[u]
    BY <1>0, <1>1, <1>3 DEF SaveGoogle, RemoveGoogle, CreateCalendar, SaveCalendar
  <2>2. CalOf(u) /\ job[h].user # u
    BY <1>0, <1>3 DEF CalendarInv
  <2> QED
    BY <1>2, <1>3, <2>1, <2>2, CalendarMove
<1>4. CASE v = u
  <2>1. CalOf(u) /\ CalJob(at[h], j)
    BY <1>0, <1>4 DEF CalendarInv, CalOf
  <2>2. made'[u] <= 1 /\ (google'[u].calendar = 0 => made'[u] = 0 \/ p = "save calendar")
    <3>1. CASE SaveGoogle(h)
      <4>1. /\ google'[u] = [subject |-> j.login,
                             calendar |-> IF j.previous.subject = j.login
                                          THEN j.previous.calendar ELSE 0]
            /\ made'[u] = IF j.previous.subject = j.login THEN made[u] ELSE 0
        BY <1>0, <1>1, <1>4, <3>1 DEF SaveGoogle, Authorisation
      <4>2. j.previous = google[u] /\ ~Saver(u)
        BY <1>0, <1>1, <1>4, <2>1, <3>1, NoSaver DEF SaveGoogle, CalJob
      <4>3. CASE j.previous.subject = j.login
        <5>1. google'[u].calendar = google[u].calendar /\ made'[u] = made[u]
          BY <4>1, <4>2, <4>3
        <5> QED
          BY <2>1, <4>2, <5>1 DEF CalOf
      <4>4. CASE j.previous.subject # j.login
        BY <4>1, <4>4
      <4> QED
        BY <4>3, <4>4
    <3>2. CASE RemoveGoogle(h)
      <4>1. made' = [made EXCEPT ![u] = 0]
        BY <1>0, <1>4, <3>2 DEF RemoveGoogle
      <4>2. made'[u] = 0
        BY <1>1, <1>4, <4>1
      <4> QED
        BY <4>2
    <3>3. CASE CreateCalendar(h)
      <4>1. j.doc = google[u] /\ j.doc.calendar = 0 /\ ~Saver(u)
        BY <1>0, <1>1, <1>4, <2>1, <3>3, NoSaver DEF CreateCalendar, CalJob, JobOK, CalendarJob
      <4>2. made[u] = 0 /\ made'[u] = made[u] + 1
        BY <1>0, <1>1, <1>4, <2>1, <3>3, <4>1 DEF CalOf, CreateCalendar
      <4> QED
        <5>1. p = "save calendar"
          BY <1>2, <3>3, Zenon
        <5>2. made'[u] <= 1
          <6>1. PICK m, n : m = made[u] /\ n = made'[u]
            OBVIOUS
          <6> QED
            BY <4>2, <6>1
        <5> QED
          BY <5>1, <5>2, Zenon
    <3>4. CASE SaveCalendar(h)
      <4>1. j.doc.calendar # 0
        BY <1>0, <1>1, <3>4 DEF SaveCalendar, JobOK, CalendarJob
      <4>2. google'[u] = j.doc /\ made'[u] = made[u]
        BY <1>0, <1>1, <1>4, <3>4 DEF SaveCalendar
      <4> QED
        BY <2>1, <4>1, <4>2 DEF CalOf
    <3> QED
      BY <3>1, <3>2, <3>3, <3>4
  <2> QED
    BY <1>0, <1>1, <1>2, <1>4, <2>2, CalendarChange
<1> QED
  BY <1>3, <1>4

\* The other steps of a link to Google, and of a calendar's synchronisation.
LEMMA CalendarRead ==
  ASSUME AccountsAssumption, TypeInv, CalendarInv, NEW h \in Handlers, CalendarStep(h),
         ~(SaveGoogle(h) \/ RemoveGoogle(h) \/ CreateCalendar(h) \/ SaveCalendar(h)),
         NEW u \in Users \ crossed
  PROVE  CalOf(u)'
<1>0. PICK j, v : j = job[h] /\ v = j.user
  OBVIOUS
<1>1. at[h] \in CalendarPlaces /\ v \in Users /\ j \in Job
  BY <1>0, CalendarLeads, InHand, LinkUser
<1>2. /\ UNCHANGED <<google, made>> /\ at[h] # "save calendar"
      /\ CalOf(u)
  BY DEF CalendarStep, ExchangeGoogle, ClaimGoogle, SaveGoogleReverse, DropGoogleReverse,
     UnlinkGoogle, RemoveGoogleReverse, ReadGoogle, ReadLogin, SaveCalendarReverse, PutEvents,
     DeleteEvents, calendars, CalendarInv
<1>3. v = u => CalJob(at[h], j)
  BY <1>0 DEF CalendarInv, CalOf
<1>4. ASSUME NEW p, NEW k, Go(h, p, k), k.user = u => CalJob(p, k) PROVE CalOf(u)'
  BY <1>2, <1>4, CalendarMove
<1>5. ASSUME NEW p, p \notin Reads, NEW k, Go(h, p, k) PROVE CalOf(u)'
  BY <1>4, <1>5, ReadsNothing
<1>6. Go(h, "idle", NoJob) => CalOf(u)'
  BY <1>5 DEF Reads
<1>7. CASE ExchangeGoogle(h)
  <2>1. PICK a : Go(h, "claim google", [j EXCEPT !.login = a, !.previous = Linked(h)])
    BY <1>0, <1>7 DEF ExchangeGoogle
  <2>2. PICK b : b = google[v]
    OBVIOUS
  <2>3. PICK k : k = [j EXCEPT !.login = a, !.previous = b]
    OBVIOUS
  <2>4. k.user = v /\ k.previous = b
    BY <1>0, <1>1, <2>3 DEF Job
  <2>5. Go(h, "claim google", k)
    BY <1>0, <2>1, <2>2, <2>3 DEF Linked
  <2>6. CalJob("claim google", k)
    BY <2>2, <2>4 DEF CalJob
  <2> QED
    BY <1>4, <2>5, <2>6
<1>8. CASE ClaimGoogle(h)
  <2>1. Go(h, "idle", NoJob) \/ Go(h, "save google", j)
    BY <1>0, <1>8 DEF ClaimGoogle, Goto, Rest
  <2>2. v = u => CalJob("save google", j)
    BY <1>3, <1>8 DEF ClaimGoogle, CalJob
  <2> QED
    BY <1>0, <1>4, <1>6, <2>1, <2>2
<1>9. CASE UnlinkGoogle(h)
  BY <1>5, <1>9 DEF UnlinkGoogle, Rest, Reads
<1>10. CASE ReadGoogle(h)
  <2>1. PICK w, d : w = Work(v) /\ d = google[v]
    OBVIOUS
  <2>2. w \in Job /\ w.user = v
    BY <1>1, <2>1, WorkFields
  <2>3. PICK k : k = [w EXCEPT !.doc = d]
    OBVIOUS
  <2>4. k.user = v /\ k.doc = d
    BY <2>2, <2>3 DEF Job
  <2>5. Go(h, "idle", NoJob) \/ Go(h, "calendar login", k)
    BY <1>0, <1>10, <2>1, <2>3 DEF ReadGoogle, Rest, Linked
  <2>6. CalJob("calendar login", k)
    BY <2>1, <2>4 DEF CalJob
  <2> QED
    BY <1>4, <1>6, <2>5, <2>6
<1>11. CASE ReadLogin(h)
  <2>1. PICK a : a = identity[v]
    OBVIOUS
  <2>2. PICK k : k = [j EXCEPT !.login = a]
    OBVIOUS
  <2>3. k.user = v /\ k.doc = j.doc
    BY <1>0, <1>1, <2>2 DEF Job
  <2>4. \/ Go(h, "idle", NoJob) \/ Go(h, "create calendar", k) \/ Go(h, "put events", k)
    BY <1>0, <1>11, <2>1, <2>2 DEF ReadLogin, Rest
  <2>5. v = u => CalJob("create calendar", k)
    BY <1>0, <1>3, <1>11, <2>3 DEF ReadLogin, CalJob
  <2>6. "put events" \notin Reads
    BY DEF Reads
  <2> QED
    BY <1>4, <1>5, <1>6, <2>3, <2>4, <2>5, <2>6
<1>12. CASE \/ SaveGoogleReverse(h) \/ DropGoogleReverse(h) \/ RemoveGoogleReverse(h)
            \/ SaveCalendarReverse(h) \/ PutEvents(h) \/ DeleteEvents(h)
  <2>1. PICK p \in {"idle", "calendar", "drop google reverse", "put events", "delete events"} :
          \E k : Go(h, p, k)
    BY <1>12 DEF SaveGoogleReverse, DropGoogleReverse, RemoveGoogleReverse, SaveCalendarReverse,
       PutEvents, DeleteEvents, Goto, Rest
  <2>2. p \notin Reads
    BY DEF Reads
  <2> QED
    BY <1>5, <2>1, <2>2
<1> QED
  BY <1>7, <1>8, <1>9, <1>10, <1>11, <1>12 DEF CalendarStep

LEMMA LinkLeads ==
  ASSUME TypeInv, NEW h \in Handlers, LinkStep(h)
  PROVE  at[h] \in LinkPlaces /\ \E p : \E j : Go(h, p, j) /\ p \notin Reads
<1>1. CASE Consume(h)
  <2>1. job[h].url \in Urls /\ url[job[h].url].status # "none"
    BY <1>1, InHand DEF Consume, JobOK, LinkJob
  <2>2. PICK p : p = url[job[h].url].service /\ p \in {"github", "google"}
    BY <2>1 DEF TypeInv, UrlsOK
  <2>3. Go(h, "idle", NoJob) \/ Go(h, p, job[h])
    BY <1>1, <2>2 DEF Consume, Goto, Rest
  <2>4. p \notin Reads /\ "idle" \notin Reads /\ at[h] \in LinkPlaces
    BY <1>1, <2>2 DEF Consume, LinkPlaces, Reads
  <2> QED
    BY <2>3, <2>4
<1>2. CASE ~Consume(h)
  <2>1. PICK p \in {"idle", "claim", "revoke", "save", "remove", "save reverse", "drop reverse",
                   "remove reverse"} : \E j : Go(h, p, j)
    <3>1. CASE Exchange(h)
      BY <3>1 DEF Exchange
    <3>2. CASE Claim(h) \/ Unlink(h)
      BY <3>2 DEF Claim, Unlink, Goto, Rest
    <3>3. CASE Save(h) \/ SaveReverse(h) \/ DropReverse(h) \/ Remove(h) \/ RemoveReverse(h)
      BY <3>3 DEF Save, SaveReverse, DropReverse, Remove, RemoveReverse, Goto, Leave, Rest
    <3> QED
      BY <1>2, <3>1, <3>2, <3>3 DEF LinkStep
  <2>2. at[h] \in LinkPlaces
    BY <1>2 DEF LinkStep, Exchange, Claim, Save, SaveReverse, DropReverse, Unlink, Remove,
       RemoveReverse, LinkPlaces
  <2>3. p \notin Reads
    BY DEF Reads
  <2> QED
    BY <2>1, <2>2, <2>3
<1> QED
  BY <1>1, <1>2

LEMMA CalendarNext ==
  ASSUME AccountsAssumption, TypeInv, Apart, CalendarInv, crossed \subseteq crossed', LinkKinds
  PROVE  CalendarInv'
<1> SUFFICES ASSUME NEW u \in Users \ crossed' PROVE CalOf(u)'
  BY DEF CalendarInv
<1>0. u \in Users \ crossed /\ CalOf(u)
  BY DEF CalendarInv
<1>1. ASSUME UNCHANGED <<at, job, google, made>> PROVE CalOf(u)'
  BY <1>0, <1>1 DEF CalOf, Saver, CalJob
<1>2. ASSUME NEW h \in Handlers, NEW p, NEW j, Go(h, p, j), p \notin Reads,
             UNCHANGED <<google, made>>, ~(at[h] = "save calendar" /\ job[h].user = u)
      PROVE  CalOf(u)'
  BY <1>0, <1>2, CalendarMove, ReadsNothing
<1>3. ASSUME NEW h \in Handlers, NEW v \in Users, NEW s, Connect(h, v, s), UNCHANGED calendars
      PROVE  CalOf(u)'
  BY <1>1, <1>3 DEF Connect, calendars
<1>4. ASSUME NEW h \in Handlers, NEW n \in Urls, Callback(h, n), UNCHANGED calendars
      PROVE  CalOf(u)'
  <2>1. PICK j : Go(h, "consume", j) /\ UNCHANGED <<google, made>> /\ at[h] = "idle"
    BY <1>4 DEF Callback, calendars
  <2>2. "consume" \notin Reads
    BY DEF Reads
  <2> QED
    BY <1>2, <2>1, <2>2
<1>5. ASSUME NEW h \in Handlers, LinkStep(h), UNCHANGED calendars PROVE CalOf(u)'
  <2>1. at[h] # "save calendar"
    BY <1>5, LinkLeads DEF LinkPlaces
  <2> QED
    BY <1>2, <1>5, <2>1, LinkLeads DEF calendars
<1>6. ASSUME NEW h \in Handlers, CalendarStep(h) PROVE CalOf(u)'
  BY <1>0, <1>6, CalendarSaved, CalendarRead
<1>7. ASSUME NEW h \in Handlers, Out(h), Elsewhere(h), UNCHANGED calendars PROVE CalOf(u)'
  <2>1. PICK p, j : Go(h, p, j) /\ p \notin LinkOnly
    BY <1>7 DEF Elsewhere, Aside
  <2>2. p \notin Reads /\ at[h] # "save calendar"
    BY <1>7, <2>1 DEF LinkOnly, CalendarPlaces, Reads, Out
  <2> QED
    BY <1>2, <1>7, <2>1, <2>2 DEF calendars
<1>8. ASSUME NEW h \in Handlers, Quits(h), UNCHANGED calendars PROVE CalOf(u)'
  <2>1. ~(at[h] = "save calendar" /\ job[h].user = u)
    BY <1>8 DEF Quits, Linking, CalendarPlaces
  <2> QED
    BY <1>2, <1>8, <2>1 DEF calendars, Quits, Rest, Reads
<1> QED
  BY <1>1, <1>3, <1>4, <1>5, <1>6, <1>7, <1>8 DEF LinkKinds, calendars

LEMMA CalendarInit ==
  ASSUME AccountsAssumption, Init
  PROVE  CalendarInv
<1>1. PICK s \in Scenarios : InitHandlers /\ InitCalendars(s.calendar)
  BY DEF Init
<1>2. ASSUME NEW u \in Users PROVE CalOf(u)
  <2>1. made[u] <= 1 /\ (google[u].calendar = 0 => made[u] = 0)
    BY <1>1 DEF InitCalendars, NoGoogle
  <2>2. ASSUME NEW h \in Handlers PROVE CalJob(at[h], job[h])
    BY <1>1 DEF InitHandlers, CalJob
  <2> QED
    BY <2>1, <2>2 DEF CalOf
<1> QED
  BY <1>2 DEF CalendarInv

\* However often a Google account is authorised again and its calendar
\* synchronised, the link has one calendar, for a user whose handlers neither
\* crossed nor broke off at a link (google-calendar-service.ts: what complete and
\* syncUser write back is the identity they read).
THEOREM CalendarIsOne == Spec => []OneCalendar
<1>1. AccountsAssumption
  BY AccountsAssumption
<1>2. Init => Apart /\ CalendarInv
  BY <1>1, InitApart, CalendarInit
<1>3. TypeInv /\ Apart /\ CalendarInv /\ [Next]_vars => Apart' /\ CalendarInv'
  BY <1>1, Recorded, NextKinds, CalendarNext
<1>4. CalendarInv => OneCalendar
  BY DEF CalendarInv, CalOf, OneCalendar
<1> QED
  BY <1>2, <1>3, <1>4, Typed, PTL DEF Spec
=============================================================================
