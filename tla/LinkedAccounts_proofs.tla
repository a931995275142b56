------------------------ MODULE LinkedAccounts_proofs ------------------------
(***************************************************************************)
(* Theorems about LinkedAccounts for any users, accounts, handlers,        *)
(* commands and scenarios: the types, which also say what a handler has in *)
(* hand at each place of its command.  LinkedOwners_proofs and             *)
(* LinkedViews_proofs rest on them.                                        *)
(***************************************************************************)
EXTENDS LinkedAccounts, SequenceTheorems, TLAPS

CanvasState == [id : Nat, shows : Accounts \cup {None}, granted : BOOLEAN]
ListState == [id : Nat, current : BOOLEAN, pending : BOOLEAN, legacy : Nat]
GoogleLink == [subject : Subjects, calendar : Nat]
GoogleState == GoogleLink \cup {NoGoogle}

Job == [user : Users \cup {None}, key : Keys \cup {None}, url : Urls \cup {None},
        login : Accounts \cup Subjects \cup {None},
        previous : Accounts \cup GoogleState \cup {None},
        goal : {"acquire canvas", "acquire list", None},
        then : {"idle", "scheduled", "save", "unlink", "release list"},
        doc : CanvasState \cup ListState \cup GoogleState \cup {None},
        ids : Seq(Nat)]

\* The places of a revocation, of a Canvas's synchronisation, of a List's and
\* of the channel's migration.
Revoking == {"revoke", "close canvas", "forget canvas", "revoke list", "close list",
             "forget list"}
CanvasSync == C!CanvasPlaces \ Revoking
ListSync == {"acquire list", "check guard", "read list", "create list", "note list",
             "share list", "record list", "share with requester", "rename legacy",
             "drop legacy", "add rows", "delete rows", "release list"}
Migrating == {"acquire channel", "release channel"} \cup L!MigrationPlaces

Personal(j) == j.user \in Users /\ j.key = j.user /\ j.login \in Accounts
ForChannel(j) == j.user \in Users /\ j.key = Channel
ForShared(j) == j.user = None /\ j.key = Shared /\ j.then = "release list"

\* A link to another account, or a change of account, that is under way.
Relinking(p, j) == p \in {"save", "save reverse", "drop reverse"}
                   \/ (p \in Revoking /\ j.then = "save")

LinkJob(p, j) ==
  /\ p \in LinkPlaces \cup CalendarPlaces \cup Revoking => j.user \in Users
  /\ p = "consume" => /\ j.url \in Urls /\ j.login = None
                      /\ url[j.url].status # "none" /\ url[j.url].user = j.user
  /\ p = "claim" \/ Relinking(p, j) => /\ j.login \in Accounts
                                       /\ j.previous \in Accounts \cup {None}
  /\ p \in {"drop reverse", "remove", "remove reverse"} => j.previous \in Accounts
  /\ p \in Revoking => j.then \in {"idle", "save", "unlink"}
  /\ p = "drop reverse" \/ (p \in Revoking /\ j.then = "save") =>
       j.previous \notin {None, j.login}

CalendarJob(p, j) ==
  /\ p \in {"claim google", "save google", "save google reverse", "drop google reverse"} =>
       /\ j.login \in Subjects
       /\ j.previous \in GoogleState /\ j.previous.calendar <= Len(calendar)
  /\ p \in {"drop google reverse", "remove google", "remove google reverse"} =>
       j.previous \in GoogleLink
  /\ p \in {"calendar login", "create calendar", "save calendar", "save calendar reverse",
            "put events", "delete events"} =>
       j.doc \in GoogleLink /\ j.doc.calendar <= Len(calendar)
  /\ p \in {"create calendar", "save calendar", "save calendar reverse", "put events",
            "delete events"} => j.login \in Accounts
  /\ p = "create calendar" => j.doc.calendar = 0
  /\ p \in {"save calendar", "save calendar reverse", "put events", "delete events"} =>
       j.doc.calendar # 0

CanvasJob(p, j) ==
  /\ p \in CanvasSync => Personal(j)
  /\ p \in {"note canvas", "edit canvas", "share canvas", "record canvas",
            "close canvas", "forget canvas"} =>
       j.doc \in CanvasState /\ j.doc.id \in 1..Len(canvas)
  /\ p \in {"resolve", "load"} =>
       j.user \in Users /\ j.key = j.user /\ j.then \in {"idle", "scheduled"}
       /\ j.goal \in {"acquire canvas", "acquire list"}
  /\ p = "load" => j.login \in Accounts

ListJob(p, j) ==
  /\ p \in ListSync => Personal(j) \/ ForChannel(j) \/ ForShared(j)
  /\ p = "check guard" => ForChannel(j)
  /\ p \in {"create list", "note list", "share list", "record list", "share with requester",
            "rename legacy", "drop legacy", "add rows", "delete rows", "close list",
            "forget list"} =>
       /\ j.doc \in ListState
       /\ j.doc.id <= Len(list) /\ j.doc.legacy <= Len(list)
       /\ p # "create list" => j.doc.id # 0
  /\ p = "rename legacy" => j.doc.legacy # 0
  /\ p \in Migrating => /\ j.user = None
                        /\ (j.key = None /\ j.then = "idle") \/ ForShared(j)
  /\ p \in L!MigrationPlaces \ {"read legacy"} =>
       /\ j.doc \in ListState
       /\ \A i \in DOMAIN j.ids : j.ids[i] \in 1..Len(list)
  /\ p \in {"close legacy", "clear legacy", "mark legacy"} => j.ids # <<>>

\* What a handler has in hand.
JobOK(p, j) ==
  /\ p \in Places /\ j \in Job
  /\ p = "idle" => j = NoJob
  /\ LinkJob(p, j) /\ CalendarJob(p, j) /\ CanvasJob(p, j) /\ ListJob(p, j)

UrlState == [status : {"none", "pending", "consumed"}, user : Users \cup {None},
             service : {"github", "google", None}]

UrlsOK == /\ url \in [Urls -> UrlState]
          /\ \A n \in Urls : url[n].status # "none" => /\ url[n].user \in Users
                                                       /\ url[n].service \in {"github", "google"}

Calendar == [owner : Users, events : SUBSET Accounts]

GoogleOK ==
  /\ calendar \in Seq(Calendar)
  /\ google \in [Users -> GoogleState]
  /\ \A u \in Users : google[u].calendar <= Len(calendar)
  /\ googleReverse \in [Subjects -> Users \cup {None}]
  /\ made \in [Users -> Nat]

Canvas == [shows : Accounts, readers : SUBSET Users]

CanvasOK ==
  /\ canvas \in Seq(Canvas)
  /\ canvasDoc \in [Users -> CanvasState]
  /\ \A u \in Users : canvasDoc[u].id <= Len(canvas)

List == [key : Keys, readers : SUBSET (Users \cup {Channel}),
         rows : SUBSET (Accounts \cup {All, Shared}), renamed : BOOLEAN]

ListOK ==
  /\ list \in Seq(List)
  /\ listDoc \in [Keys -> ListState]
  /\ \A k \in Keys : /\ listDoc[k].id <= Len(list) /\ listDoc[k].legacy <= Len(list)
                     /\ listDoc[k].current => listDoc[k].id # 0
  /\ guard \in BOOLEAN

HandlersOK ==
  /\ at \in [Handlers -> Places] /\ job \in [Handlers -> Job]
  /\ \A h \in Handlers : JobOK(at[h], job[h])

SceneOK ==
  /\ lease \in [Leases -> Handlers \cup {None, Dead}]
  /\ left \in [Commands -> [Users -> Nat]]
  /\ blind \subseteq Accounts /\ crossed \subseteq Users /\ overrun \subseteq Leases
  /\ mishaps \in 0..MaxMishaps

TypeInv ==
  /\ UrlsOK
  /\ identity \in [Users -> Accounts \cup {None}]
  /\ reverse \in [Accounts -> Users \cup {None}]
  /\ GoogleOK /\ CanvasOK /\ ListOK /\ HandlersOK /\ SceneOK

-----------------------------------------------------------------------------
(* What a handler has in hand stays good while the store and the services  *)
(* grow.                                                                   *)

Grows ==
  /\ Len(canvas) <= Len(canvas') /\ Len(list) <= Len(list') /\ Len(calendar) <= Len(calendar')
  /\ \A n \in Urls : url[n].status # "none" => /\ url'[n].status # "none"
                                               /\ url'[n].user = url[n].user

LEMMA Lengths ==
  ASSUME TypeInv
  PROVE  Len(canvas) \in Nat /\ Len(list) \in Nat /\ Len(calendar) \in Nat
  BY LenProperties DEF TypeInv, GoogleOK, CanvasOK, ListOK

LEMMA JobStays ==
  ASSUME TypeInv, Grows, GoogleOK', CanvasOK', ListOK', NEW p, NEW j, JobOK(p, j)
  PROVE  JobOK(p, j)'
<1> Len(canvas) \in Nat /\ Len(list) \in Nat /\ Len(calendar) \in Nat
  BY Lengths
<1> Len(canvas') \in Nat /\ Len(list') \in Nat /\ Len(calendar') \in Nat
  BY LenProperties DEF GoogleOK, CanvasOK, ListOK
<1>0. /\ \A i \in Nat : i <= Len(canvas) => i <= Len(canvas')
      /\ \A i \in Nat : i <= Len(list) => i <= Len(list')
      /\ \A i \in Nat : i <= Len(calendar) => i <= Len(calendar')
      /\ \A i : i \in 1..Len(canvas) => i \in 1..Len(canvas')
      /\ \A i : i \in 1..Len(list) => i \in 1..Len(list')
  BY DEF Grows
<1>1. LinkJob(p, j)'
  BY DEF JobOK, LinkJob, Grows
<1>2. CalendarJob(p, j)'
  <2>1. j.previous \in GoogleState => j.previous.calendar \in Nat
    BY DEF GoogleState, GoogleLink, NoGoogle
  <2>2. j.doc \in GoogleLink => j.doc.calendar \in Nat
    BY DEF GoogleLink
  <2>3. CalendarJob(p, j)
    BY DEF JobOK
  <2> QED
    BY <1>0, <2>1, <2>2, <2>3, Zenon DEF CalendarJob
<1>3. CanvasJob(p, j)'
  <2>1. CanvasJob(p, j)
    BY DEF JobOK
  <2> QED
    BY <1>0, <2>1, Zenon DEF CanvasJob
<1>4. ListJob(p, j)'
  <2>1. j.doc \in ListState => j.doc.id \in Nat /\ j.doc.legacy \in Nat
    BY DEF ListState
  <2>2. ListJob(p, j)
    BY DEF JobOK
  <2> QED
    BY <1>0, <2>1, <2>2, Zenon DEF ListJob
<1> QED
  BY <1>1, <1>2, <1>3, <1>4 DEF JobOK

\* A handler that moves, and the others stay.
LEMMA Moves ==
  ASSUME TypeInv, Grows, GoogleOK', CanvasOK', ListOK',
         NEW h \in Handlers, NEW p, NEW j, Go(h, p, j), JobOK(p, j)'
  PROVE  HandlersOK'
<1>1. p \in Places /\ j \in Job
  BY DEF JobOK
<1>2. at' \in [Handlers -> Places] /\ job' \in [Handlers -> Job]
  BY <1>1 DEF Go, TypeInv, HandlersOK
<1>3. at'[h] = p /\ job'[h] = j
  BY DEF Go, TypeInv, HandlersOK
<1>4. ASSUME NEW g \in Handlers PROVE JobOK(at[g], job[g])'
  <2>1. CASE g = h
    BY <1>3, <2>1
  <2>2. CASE g # h
    <3>1. PICK q, i : q = at[g] /\ i = job[g]
      OBVIOUS
    <3>2. at'[g] = q /\ job'[g] = i
      BY <2>2, <3>1 DEF Go, TypeInv, HandlersOK
    <3>3. JobOK(q, i)
      BY <3>1 DEF TypeInv, HandlersOK
    <3>4. JobOK(q, i)'
      BY <3>3, JobStays
    <3> QED
      BY <3>2, <3>4
  <2> QED
    BY <2>1, <2>2
<1> QED
  BY <1>2, <1>4 DEF HandlersOK

\* What it goes on with is already good.
LEMMA GoesOn ==
  ASSUME TypeInv, Grows, GoogleOK', CanvasOK', ListOK',
         NEW h \in Handlers, NEW p, NEW j, Go(h, p, j), JobOK(p, j)
  PROVE  HandlersOK'
  BY JobStays, Moves

LEMMA Unmoved ==
  ASSUME TypeInv, Grows, GoogleOK', CanvasOK', ListOK', UNCHANGED <<at, job>>
  PROVE  HandlersOK'
<1>1. ASSUME NEW g \in Handlers PROVE JobOK(at[g], job[g])'
  <2>1. PICK q, i : q = at[g] /\ i = job[g]
    OBVIOUS
  <2>2. JobOK(q, i)
    BY <2>1 DEF TypeInv, HandlersOK
  <2> QED
    BY <2>1, <2>2, JobStays
<1> QED
  BY <1>1 DEF TypeInv, HandlersOK

-----------------------------------------------------------------------------
(* The types: the links. *)

USE DEF Places, LinkPlaces, CalendarPlaces, Revoking, Relinking, CanvasSync, ListSync,
        Migrating, C!CanvasPlaces, L!MigrationPlaces, L!ListPlaces

LEMMA SameCanvases ==
  ASSUME CanvasOK, UNCHANGED <<canvas, canvasDoc>>
  PROVE  CanvasOK'
  BY DEF CanvasOK

LEMMA SameLists ==
  ASSUME ListOK, UNCHANGED <<list, listDoc, guard>>
  PROVE  ListOK'
  BY DEF ListOK

LEMMA SameCalendars ==
  ASSUME GoogleOK, UNCHANGED calendars
  PROVE  GoogleOK'
  BY DEF GoogleOK, calendars

LinksTyped == /\ UrlsOK
              /\ identity \in [Users -> Accounts \cup {None}]
              /\ reverse \in [Accounts -> Users \cup {None}]

\* The places that jobs are good for whatever they hold.
LEMMA NoJobOK == JobOK("idle", NoJob)
<1>1. NoJob \in Job
  BY EmptySeq DEF NoJob, Job
<1> QED
  BY <1>1 DEF JobOK, LinkJob, CalendarJob, CanvasJob, ListJob, NoJob

LEMMA LinkStepTyped ==
  ASSUME AccountsAssumption, TypeInv, NEW h \in Handlers, LinkStep(h),
         UNCHANGED <<calendars, views>>
  PROVE  LinksTyped' /\ HandlersOK'
<1> USE DEF LinksTyped
<1> DEFINE j == job[h]
<1>0. /\ GoogleOK' /\ CanvasOK' /\ ListOK'
      /\ Len(canvas) <= Len(canvas') /\ Len(list) <= Len(list')
      /\ Len(calendar) <= Len(calendar')
  BY SameCanvases, SameLists, SameCalendars, Lengths DEF TypeInv, views, calendars
<1>1. JobOK(at[h], j) /\ j \in Job
  BY DEF TypeInv, HandlersOK
<1>2. UNCHANGED url => Grows
  BY <1>0 DEF Grows
<1>3. ASSUME Consume(h) PROVE LinksTyped' /\ HandlersOK'
  <2>1. at[h] = "consume" /\ j.url \in Urls /\ j.user \in Users /\ url[j.url].user = j.user
    BY <1>1, <1>3 DEF Consume, JobOK, LinkJob
  <2>2. CASE url[j.url].status = "pending"
    <3>1. PICK p : p = url[j.url].service
      OBVIOUS
    <3>2. p \in {"github", "google"} /\ Go(h, p, j)
      BY <1>3, <2>1, <2>2, <3>1 DEF Consume, Goto, TypeInv, UrlsOK
    <3>3. JobOK(p, j)
      BY <1>1, <2>1, <3>2 DEF JobOK, LinkJob, CalendarJob, CanvasJob, ListJob
    <3>4. LinksTyped'
      BY <1>3, <2>1, <2>2 DEF Consume, TypeInv, UrlsOK, UrlState
    <3>5. Grows
      BY <1>3, <2>1, <2>2, <1>0 DEF Consume, TypeInv, UrlsOK, UrlState, Grows
    <3> QED
      BY <1>0, <3>2, <3>3, <3>4, <3>5, GoesOn
  <2>3. CASE url[j.url].status # "pending"
    <3>1. Go(h, "idle", NoJob) /\ UNCHANGED <<url, identity, reverse>>
      BY <1>3, <2>3 DEF Consume, Rest
    <3>2. LinksTyped'
      BY <3>1 DEF TypeInv, UrlsOK
    <3> QED
      BY <1>0, <1>2, <3>1, <3>2, NoJobOK, GoesOn
  <2> QED
    BY <2>2, <2>3
<1>4. ASSUME Exchange(h) PROVE LinksTyped' /\ HandlersOK'
  <2>1. at[h] = "github" /\ UNCHANGED <<url, identity, reverse>> /\ j.user \in Users
    BY <1>1, <1>4 DEF Exchange, links, JobOK, LinkJob
  <2>2. PICK a \in Accounts : Go(h, "claim", [j EXCEPT !.login = a, !.previous = identity[j.user]])
    BY <1>4 DEF Exchange
  <2> DEFINE k == [j EXCEPT !.login = a, !.previous = identity[j.user]]
  <2>3. identity[j.user] \in Accounts \cup {None}
    BY <2>1 DEF TypeInv
  <2>4. /\ k \in Job /\ k.user = j.user /\ k.login = a /\ k.previous = identity[j.user]
    BY <1>1, <2>3 DEF Job
  <2>5. JobOK("claim", k)
    <3> HIDE DEF k
    <3> QED
      BY <2>1, <2>3, <2>4 DEF JobOK, LinkJob, CalendarJob, CanvasJob, ListJob
  <2>6. LinksTyped'
    BY <2>1 DEF TypeInv, UrlsOK
  <2> QED
    BY <1>0, <1>2, <2>1, <2>2, <2>5, <2>6, GoesOn
<1>5. ASSUME Claim(h) PROVE LinksTyped' /\ HandlersOK'
  <2>1. /\ at[h] = "claim" /\ UNCHANGED <<url, identity, reverse>>
        /\ j.user \in Users /\ j.login \in Accounts /\ j.previous \in Accounts \cup {None}
    BY <1>1, <1>5 DEF Claim, links, JobOK, LinkJob
  <2> DEFINE k == [j EXCEPT !.then = "save"]
  <2>2. \/ Go(h, "idle", NoJob) \/ Go(h, "save", j)
        \/ j.previous \notin {None, j.login} /\ Go(h, "revoke", k)
    BY <1>5 DEF Claim, Rest, Goto, Replaces
  <2>3. /\ k \in Job /\ k.user = j.user /\ k.login = j.login /\ k.previous = j.previous
        /\ k.then = "save"
    BY <1>1, ZenonT(60) DEF Job
  <2>4. JobOK("save", j)
    BY <1>1, <2>1 DEF JobOK, LinkJob, CalendarJob, CanvasJob, ListJob
  <2>5. j.previous \notin {None, j.login} => JobOK("revoke", k)
    <3> HIDE DEF k
    <3> QED
      BY <2>1, <2>3 DEF JobOK, LinkJob, CalendarJob, CanvasJob, ListJob
  <2>6. LinksTyped'
    BY <2>1 DEF TypeInv, UrlsOK
  <2> QED
    BY <1>0, <1>2, <2>1, <2>2, <2>4, <2>5, <2>6, NoJobOK, GoesOn
<1>6. ASSUME Save(h) PROVE LinksTyped' /\ HandlersOK'
  <2>1. /\ at[h] = "save" /\ UNCHANGED <<url, reverse>> /\ Go(h, "save reverse", j)
        /\ j.user \in Users /\ j.login \in Accounts
        /\ identity' = [identity EXCEPT ![j.user] = j.login]
    BY <1>1, <1>6 DEF Save, Goto, JobOK, LinkJob
  <2>2. JobOK("save reverse", j)
    BY <1>1, <2>1 DEF JobOK, LinkJob, CalendarJob, CanvasJob, ListJob
  <2>3. LinksTyped'
    BY <2>1 DEF TypeInv, UrlsOK
  <2> QED
    BY <1>0, <1>2, <2>1, <2>2, <2>3, GoesOn
<1>7. ASSUME SaveReverse(h) PROVE LinksTyped' /\ HandlersOK'
  <2>1. /\ at[h] = "save reverse" /\ UNCHANGED <<url, identity>>
        /\ j.user \in Users /\ j.login \in Accounts /\ j.previous \in Accounts \cup {None}
        /\ reverse' = [reverse EXCEPT ![j.login] = j.user]
        /\ \/ Go(h, "idle", NoJob)
           \/ j.previous \notin {None, j.login} /\ Go(h, "drop reverse", j)
    BY <1>1, <1>7 DEF SaveReverse, Leave, Rest, Goto, Replaces, JobOK, LinkJob
  <2>2. j.previous \notin {None, j.login} => JobOK("drop reverse", j)
    BY <1>1, <2>1 DEF JobOK, LinkJob, CalendarJob, CanvasJob, ListJob
  <2>3. LinksTyped'
    BY <2>1 DEF TypeInv, UrlsOK
  <2> QED
    BY <1>0, <1>2, <2>1, <2>2, <2>3, NoJobOK, GoesOn
<1>8. ASSUME DropReverse(h) \/ RemoveReverse(h) PROVE LinksTyped' /\ HandlersOK'
  <2>1. UNCHANGED <<url, identity>> /\ Go(h, "idle", NoJob)
        /\ reverse' = [reverse EXCEPT ![j.previous] = None]
    BY <1>8 DEF DropReverse, RemoveReverse, Rest
  <2>2. LinksTyped'
    BY <2>1 DEF TypeInv, UrlsOK
  <2> QED
    BY <1>0, <1>2, <2>1, <2>2, NoJobOK, GoesOn
<1>9. ASSUME Unlink(h) PROVE LinksTyped' /\ HandlersOK'
  <2>1. at[h] = "unlink" /\ UNCHANGED <<url, identity, reverse>> /\ j.user \in Users
    BY <1>1, <1>9 DEF Unlink, links, JobOK, LinkJob
  <2>2. PICK a : a = identity[j.user]
    OBVIOUS
  <2> DEFINE k == [j EXCEPT !.previous = a]
  <2>3. Go(h, "idle", NoJob) \/ (a \in Accounts /\ Go(h, "remove", k))
    BY <1>9, <2>1, <2>2 DEF Unlink, Rest, TypeInv
  <2>4. a \in Accounts => JobOK("remove", k)
    <3> SUFFICES ASSUME a \in Accounts PROVE JobOK("remove", k)
      OBVIOUS
    <3>1. k \in Job /\ k.user = j.user /\ k.previous = a
      BY <1>1, ZenonT(60) DEF Job
    <3> HIDE DEF k
    <3> QED
      BY <2>1, <3>1 DEF JobOK, LinkJob, CalendarJob, CanvasJob, ListJob
  <2>5. LinksTyped'
    BY <2>1 DEF TypeInv, UrlsOK
  <2> QED
    BY <1>0, <1>2, <2>1, <2>3, <2>4, <2>5, NoJobOK, GoesOn
<1>10. ASSUME Remove(h) PROVE LinksTyped' /\ HandlersOK'
  <2>1. /\ at[h] = "remove" /\ UNCHANGED <<url, reverse>> /\ Go(h, "remove reverse", j)
        /\ identity' = [identity EXCEPT ![j.user] = None]
    BY <1>10 DEF Remove, Goto
  <2>2. JobOK("remove reverse", j)
    BY <1>1, <2>1 DEF JobOK, LinkJob, CalendarJob, CanvasJob, ListJob
  <2>3. LinksTyped'
    BY <2>1 DEF TypeInv, UrlsOK
  <2> QED
    BY <1>0, <1>2, <2>1, <2>2, <2>3, GoesOn
<1> QED
  BY <1>3, <1>4, <1>5, <1>6, <1>7, <1>8, <1>9, <1>10 DEF LinkStep

-----------------------------------------------------------------------------
(* The types: the calendars. *)

LEMMA NoGoogleFields == NoGoogle.subject = None /\ NoGoogle.calendar = 0
  BY DEF NoGoogle

LEMMA GoogleFields ==
  ASSUME NEW g \in GoogleState
  PROVE  /\ g.calendar \in Nat /\ g.subject \in Subjects \cup {None}
         /\ g # NoGoogle => g \in GoogleLink
         /\ g.subject # None => g \in GoogleLink
  BY DEF GoogleState, GoogleLink, NoGoogle

LEMMA Numbered ==
  ASSUME NEW g \in GoogleLink, NEW i \in Nat
  PROVE  LET f == [g EXCEPT !.calendar = i]
         IN  f \in GoogleLink /\ f.subject = g.subject /\ f.calendar = i
  BY DEF GoogleLink

LEMMA CalendarStepTyped ==
  ASSUME AccountsAssumption, TypeInv, NEW h \in Handlers, CalendarStep(h),
         UNCHANGED <<links, views>>
  PROVE  GoogleOK' /\ HandlersOK'
<1> DEFINE j == job[h]
           n == Len(calendar)
<1>0. /\ CanvasOK' /\ ListOK' /\ n \in Nat
      /\ Len(canvas) <= Len(canvas') /\ Len(list) <= Len(list')
      /\ UNCHANGED <<url, identity, reverse>>
  BY SameCanvases, SameLists, Lengths DEF TypeInv, views, links
<1>1. JobOK(at[h], j) /\ j \in Job /\ GoogleOK
  BY DEF TypeInv, HandlersOK
<1>2. UNCHANGED calendar => Grows
  BY <1>0 DEF Grows
<1>3. UNCHANGED calendars => GoogleOK' /\ Grows
  BY <1>1, <1>2, SameCalendars DEF calendars
<1>4. ASSUME ExchangeGoogle(h) PROVE GoogleOK' /\ HandlersOK'
  <2>1. at[h] = "google" /\ UNCHANGED calendars /\ j.user \in Users
    BY <1>1, <1>4 DEF ExchangeGoogle, JobOK, LinkJob
  <2>2. PICK g : g = google[j.user]
    OBVIOUS
  <2>3. g \in GoogleState /\ g.calendar <= Len(calendar)
    BY <1>1, <2>1, <2>2 DEF GoogleOK
  <2>4. PICK s \in Subjects : Go(h, "claim google", [j EXCEPT !.login = s, !.previous = g])
    BY <1>4, <2>2 DEF ExchangeGoogle, Linked
  <2> DEFINE k == [j EXCEPT !.login = s, !.previous = g]
  <2>5. k \in Job /\ k.user = j.user /\ k.login = s /\ k.previous = g
    BY <1>1, <2>3, ZenonT(60) DEF Job
  <2>6. JobOK("claim google", k)
    <3> HIDE DEF k
    <3> QED
      BY <2>1, <2>3, <2>5 DEF JobOK, LinkJob, CalendarJob, CanvasJob, ListJob
  <2> QED
    BY <1>0, <1>3, <2>1, <2>4, <2>6, GoesOn
<1>5. ASSUME ClaimGoogle(h) PROVE GoogleOK' /\ HandlersOK'
  <2>1. /\ at[h] = "claim google" /\ UNCHANGED calendars
        /\ Go(h, "idle", NoJob) \/ Go(h, "save google", j)
    BY <1>5 DEF ClaimGoogle, Goto, Rest
  <2>2. JobOK("save google", j)
    BY <1>1, <2>1 DEF JobOK, LinkJob, CalendarJob, CanvasJob, ListJob
  <2> QED
    BY <1>0, <1>3, <2>1, <2>2, NoJobOK, GoesOn
<1>6. ASSUME SaveGoogle(h) PROVE GoogleOK' /\ HandlersOK'
  <2>1. /\ at[h] = "save google" /\ UNCHANGED <<googleReverse, calendar>>
        /\ Go(h, "save google reverse", j)
        /\ google' = [google EXCEPT ![j.user] = Authorisation(h)]
        /\ made' = [made EXCEPT ![j.user] = IF j.previous.subject = j.login THEN @ ELSE 0]
    BY <1>6 DEF SaveGoogle, Goto
  <2>2. /\ j.user \in Users /\ j.login \in Subjects /\ j.previous \in GoogleState
        /\ j.previous.calendar <= n
    BY <1>1, <2>1 DEF JobOK, LinkJob, CalendarJob
  <2>3. Authorisation(h) \in GoogleLink /\ Authorisation(h).calendar <= n
    BY <1>0, <2>2, GoogleFields DEF Authorisation, GoogleLink
  <2>4. GoogleOK'
    <3> HIDE DEF j
    <3>1. made' \in [Users -> Nat]
      BY <1>1, <2>1 DEF GoogleOK
    <3>2. google' \in [Users -> GoogleState]
      BY <1>1, <2>1, <2>3 DEF GoogleOK, GoogleState
    <3>3. \A u \in Users : google'[u].calendar <= n
      BY <1>1, <2>1, <2>3 DEF GoogleOK
    <3> QED
      BY <1>1, <2>1, <3>1, <3>2, <3>3 DEF GoogleOK
  <2>5. JobOK("save google reverse", j)
    BY <1>1, <2>1 DEF JobOK, LinkJob, CalendarJob, CanvasJob, ListJob
  <2> QED
    BY <1>0, <1>2, <2>1, <2>4, <2>5, GoesOn
<1>7. ASSUME SaveGoogleReverse(h) PROVE GoogleOK' /\ HandlersOK'
  <2>1. /\ at[h] = "save google reverse" /\ UNCHANGED <<google, calendar, made>>
        /\ googleReverse' = [googleReverse EXCEPT ![j.login] = j.user]
        /\ \/ Go(h, "calendar", j)
           \/ j.previous.subject \notin {None, j.login} /\ Go(h, "drop google reverse", j)
    BY <1>7 DEF SaveGoogleReverse, Goto
  <2>2. j.user \in Users /\ j.login \in Subjects /\ j.previous \in GoogleState
    BY <1>1, <2>1 DEF JobOK, LinkJob, CalendarJob
  <2>3. GoogleOK'
    BY <1>1, <2>1, <2>2 DEF GoogleOK
  <2>4. JobOK("calendar", j)
    BY <1>1, <2>1 DEF JobOK, LinkJob, CalendarJob, CanvasJob, ListJob
  <2>5. j.previous.subject # None => JobOK("drop google reverse", j)
    <3>1. j.previous.subject # None => j.previous \in GoogleLink
      BY <2>2, GoogleFields
    <3> QED
      BY <1>1, <2>1, <3>1 DEF JobOK, LinkJob, CalendarJob, CanvasJob, ListJob
  <2> QED
    BY <1>0, <1>2, <2>1, <2>3, <2>4, <2>5, GoesOn
<1>8. ASSUME DropGoogleReverse(h) PROVE GoogleOK' /\ HandlersOK'
  <2>1. /\ at[h] = "drop google reverse" /\ UNCHANGED <<google, calendar, made>>
        /\ googleReverse' = [googleReverse EXCEPT ![j.previous.subject] = None]
        /\ Go(h, "calendar", j)
    BY <1>8 DEF DropGoogleReverse, Goto
  <2>2. GoogleOK'
    BY <1>1, <2>1 DEF GoogleOK
  <2>3. JobOK("calendar", j)
    BY <1>1, <2>1 DEF JobOK, LinkJob, CalendarJob, CanvasJob, ListJob
  <2> QED
    BY <1>0, <1>2, <2>1, <2>2, <2>3, GoesOn
<1>9. ASSUME UnlinkGoogle(h) PROVE GoogleOK' /\ HandlersOK'
  <2>1. at[h] = "unlink google" /\ UNCHANGED calendars /\ j.user \in Users
    BY <1>1, <1>9 DEF UnlinkGoogle, JobOK, LinkJob
  <2>2. PICK g : g = google[j.user]
    OBVIOUS
  <2> DEFINE k == [j EXCEPT !.previous = g]
  <2>3. Go(h, "idle", NoJob) \/ (g # NoGoogle /\ Go(h, "remove google", k))
    BY <1>9, <2>2 DEF UnlinkGoogle, Rest, Linked
  <2>4. ASSUME g # NoGoogle PROVE JobOK("remove google", k)
    <3>1. g \in GoogleState /\ g \in GoogleLink
      BY <1>1, <2>1, <2>2, <2>4, GoogleFields DEF GoogleOK
    <3>2. k \in Job /\ k.user = j.user /\ k.previous = g
      BY <1>1, <3>1 DEF Job
    <3> HIDE DEF k
    <3> QED
      BY <2>1, <3>1, <3>2 DEF JobOK, LinkJob, CalendarJob, CanvasJob, ListJob
  <2> QED
    BY <1>0, <1>3, <2>1, <2>3, <2>4, NoJobOK, GoesOn
<1>10. ASSUME RemoveGoogle(h) PROVE GoogleOK' /\ HandlersOK'
  <2>1. /\ at[h] = "remove google" /\ UNCHANGED <<googleReverse, calendar>>
        /\ google' = [google EXCEPT ![j.user] = NoGoogle]
        /\ made' = [made EXCEPT ![j.user] = 0]
        /\ Go(h, "remove google reverse", j)
    BY <1>10 DEF RemoveGoogle, Goto
  <2>2. GoogleOK'
    <3> HIDE DEF j
    <3>1. \A u \in Users : google'[u].calendar <= n
      <4> SUFFICES ASSUME NEW u \in Users PROVE google'[u].calendar <= n
        OBVIOUS
      <4>1. google[u].calendar <= n /\ google'[u] \in {google[u], NoGoogle}
        BY <1>1, <2>1 DEF GoogleOK
      <4>2. 0 <= n
        BY <1>0
      <4> QED
        BY <4>1, <4>2, NoGoogleFields
    <3> QED
      BY <1>1, <2>1, <3>1 DEF GoogleOK, GoogleState
  <2>3. JobOK("remove google reverse", j)
    BY <1>1, <2>1 DEF JobOK, LinkJob, CalendarJob, CanvasJob, ListJob
  <2> QED
    BY <1>0, <1>2, <2>1, <2>2, <2>3, GoesOn
<1>11. ASSUME RemoveGoogleReverse(h) PROVE GoogleOK' /\ HandlersOK'
  <2>1. /\ UNCHANGED <<google, calendar, made>> /\ Go(h, "idle", NoJob)
        /\ googleReverse' = [googleReverse EXCEPT ![j.previous.subject] = None]
    BY <1>11 DEF RemoveGoogleReverse, Rest
  <2>2. GoogleOK'
    BY <1>1, <2>1 DEF GoogleOK
  <2> QED
    BY <1>0, <1>2, <2>1, <2>2, NoJobOK, GoesOn
<1>12. ASSUME ReadGoogle(h) PROVE GoogleOK' /\ HandlersOK'
  <2>1. at[h] = "calendar" /\ UNCHANGED calendars /\ j.user \in Users
    BY <1>1, <1>12 DEF ReadGoogle, JobOK, LinkJob
  <2>2. PICK g : g = google[j.user]
    OBVIOUS
  <2> DEFINE k == [Work(j.user) EXCEPT !.doc = g]
  <2>3. Go(h, "idle", NoJob) \/ (g # NoGoogle /\ Go(h, "calendar login", k))
    BY <1>12, <2>2 DEF ReadGoogle, Rest, Linked
  <2>4. ASSUME g # NoGoogle PROVE JobOK("calendar login", k)
    <3>1. g \in GoogleState /\ g \in GoogleLink /\ g.calendar <= n
      BY <1>1, <2>1, <2>2, <2>4, GoogleFields DEF GoogleOK
    <3>2. k \in Job /\ k.user = j.user /\ k.doc = g
      BY <2>1, <3>1, EmptySeq DEF Job, Work, NoJob
    <3> HIDE DEF k
    <3> QED
      BY <2>1, <3>1, <3>2 DEF JobOK, LinkJob, CalendarJob, CanvasJob, ListJob
  <2> QED
    BY <1>0, <1>3, <2>1, <2>3, <2>4, NoJobOK, GoesOn
<1>13. ASSUME ReadLogin(h) PROVE GoogleOK' /\ HandlersOK'
  <2>1. /\ at[h] = "calendar login" /\ UNCHANGED calendars /\ j.user \in Users
        /\ j.doc \in GoogleLink /\ j.doc.calendar <= n
    BY <1>1, <1>13 DEF ReadLogin, JobOK, LinkJob, CalendarJob
  <2>2. PICK a : a = identity[j.user]
    OBVIOUS
  <2> DEFINE k == [j EXCEPT !.login = a]
  <2>3. \/ Go(h, "idle", NoJob)
        \/ a \in Accounts /\ j.doc.calendar = 0 /\ Go(h, "create calendar", k)
        \/ a \in Accounts /\ j.doc.calendar # 0 /\ Go(h, "put events", k)
    BY <1>13, <2>1, <2>2 DEF ReadLogin, Rest, TypeInv
  <2>4. ASSUME a \in Accounts
        PROVE  /\ j.doc.calendar = 0 => JobOK("create calendar", k)
               /\ j.doc.calendar # 0 => JobOK("put events", k)
    <3>1. k \in Job /\ k.user = j.user /\ k.doc = j.doc /\ k.login = a
      BY <1>1, <2>4, ZenonT(60) DEF Job
    <3> HIDE DEF k
    <3> QED
      BY <2>1, <2>4, <3>1 DEF JobOK, LinkJob, CalendarJob, CanvasJob, ListJob
  <2> QED
    BY <1>0, <1>3, <2>1, <2>3, <2>4, NoJobOK, GoesOn
<1>14. ASSUME CreateCalendar(h) PROVE GoogleOK' /\ HandlersOK'
  <2>1. /\ at[h] = "create calendar" /\ UNCHANGED <<google, googleReverse>>
        /\ j.user \in Users /\ j.doc \in GoogleLink /\ j.login \in Accounts
        /\ made' = [made EXCEPT ![j.user] = @ + 1]
    BY <1>1, <1>14 DEF CreateCalendar, JobOK, LinkJob, CalendarJob
  <2>2. PICK c \in Calendar : calendar' = Append(calendar, c)
    BY <1>14, <2>1 DEF CreateCalendar, Calendar
  <2>3. calendar' \in Seq(Calendar) /\ Len(calendar') = n + 1
    BY <1>1, <2>2, AppendProperties DEF GoogleOK
  <2>4. GoogleOK'
    <3> HIDE DEF j
    <3>1. \A u \in Users : google'[u].calendar <= Len(calendar')
      <4> SUFFICES ASSUME NEW u \in Users PROVE google'[u].calendar <= n + 1
        BY <2>3
      <4>1. google[u] \in GoogleState /\ google[u].calendar <= n /\ google'[u] = google[u]
        BY <1>1, <2>1 DEF GoogleOK
      <4>2. google[u].calendar \in Nat
        BY <4>1, GoogleFields
      <4> QED
        BY <1>0, <4>1, <4>2
    <3>2. made' \in [Users -> Nat]
      <4>1. made \in [Users -> Nat] /\ j.user \in Users
        BY <1>1, <2>1 DEF GoogleOK
      <4>2. PICK m : m = made[j.user]
        OBVIOUS
      <4>3. m \in Nat
        BY <4>1, <4>2
      <4>4. m + 1 \in Nat
        BY <4>3
      <4>5. made' = [made EXCEPT ![j.user] = m + 1]
        BY <2>1, <4>2
      <4> QED
        BY <4>1, <4>4, <4>5
    <3> QED
      BY <1>1, <2>1, <2>3, <3>1, <3>2 DEF GoogleOK
  <2>5. PICK k : k = [j EXCEPT !.doc.calendar = n + 1]
    OBVIOUS
  <2>6. Go(h, "save calendar", k)
    BY <1>14, <2>5 DEF CreateCalendar
  <2>7. PICK d : d = [j.doc EXCEPT !.calendar = n + 1]
    OBVIOUS
  <2>8. d \in GoogleLink /\ d.calendar = n + 1
    <3>1. PICK g, i : g = j.doc /\ i = n + 1
      OBVIOUS
    <3>2. i \in Nat
      BY <1>0, <3>1
    <3>3. g \in GoogleLink
      BY <2>1, <3>1
    <3>4. d = [g EXCEPT !.calendar = i]
      BY <2>7, <3>1
    <3> QED
      BY <3>1, <3>2, <3>3, <3>4, Numbered, ZenonT(60)
  <2>9. k = [j EXCEPT !.doc = d]
    BY <2>5, <2>7
  <2>10. k \in Job /\ k.user = j.user /\ k.doc = d /\ k.login = j.login
    BY <1>1, <2>8, <2>9 DEF Job, GoogleState
  <2>11. JobOK("save calendar", k)'
    <3>1. d.calendar <= Len(calendar') /\ d.calendar # 0
      BY <1>0, <2>3, <2>8
    <3> QED
      BY <2>1, <2>8, <2>10, <3>1 DEF JobOK, LinkJob, CalendarJob, CanvasJob, ListJob
  <2>12. Grows
    BY <1>0, <2>3 DEF Grows
  <2> QED
    BY <1>0, <2>4, <2>6, <2>11, <2>12, Moves
<1>15. ASSUME SaveCalendar(h) PROVE GoogleOK' /\ HandlersOK'
  <2>1. /\ at[h] = "save calendar" /\ UNCHANGED <<googleReverse, calendar, made>>
        /\ google' = [google EXCEPT ![j.user] = j.doc]
        /\ Go(h, "save calendar reverse", j)
    BY <1>15 DEF SaveCalendar, Goto
  <2>2. j.user \in Users /\ j.doc \in GoogleLink /\ j.doc.calendar <= n
    BY <1>1, <2>1 DEF JobOK, LinkJob, CalendarJob
  <2>3. GoogleOK'
    <3> HIDE DEF j
    <3>1. \A u \in Users : google'[u].calendar <= n
      BY <1>1, <2>1, <2>2 DEF GoogleOK
    <3> QED
      BY <1>1, <2>1, <2>2, <3>1 DEF GoogleOK, GoogleState
  <2>4. JobOK("save calendar reverse", j)
    BY <1>1, <2>1 DEF JobOK, LinkJob, CalendarJob, CanvasJob, ListJob
  <2> QED
    BY <1>0, <1>2, <2>1, <2>3, <2>4, GoesOn
<1>16. ASSUME SaveCalendarReverse(h) PROVE GoogleOK' /\ HandlersOK'
  <2>1. /\ at[h] = "save calendar reverse" /\ UNCHANGED <<google, calendar, made>>
        /\ googleReverse' = [googleReverse EXCEPT ![j.doc.subject] = j.user]
        /\ Go(h, "put events", j)
    BY <1>16 DEF SaveCalendarReverse, Goto
  <2>2. j.user \in Users
    BY <1>1, <2>1 DEF JobOK, LinkJob
  <2>3. GoogleOK'
    BY <1>1, <2>1, <2>2 DEF GoogleOK
  <2>4. JobOK("put events", j)
    BY <1>1, <2>1 DEF JobOK, LinkJob, CalendarJob, CanvasJob, ListJob
  <2> QED
    BY <1>0, <1>2, <2>1, <2>3, <2>4, GoesOn
<1>17. ASSUME PutEvents(h) \/ DeleteEvents(h) PROVE GoogleOK' /\ HandlersOK'
  <2>1. /\ at[h] \in {"put events", "delete events"} /\ UNCHANGED <<google, googleReverse, made>>
        /\ \/ Go(h, "delete events", j) /\ at[h] = "put events"
           \/ Go(h, "idle", NoJob)
    BY <1>17 DEF PutEvents, DeleteEvents, Goto, Rest
  <2>2. j.login \in Accounts /\ j.doc.calendar \in 1..n
    <3>1. /\ j.login \in Accounts /\ j.doc \in GoogleLink
          /\ j.doc.calendar <= n /\ j.doc.calendar # 0
      BY <1>1, <2>1 DEF JobOK, CalendarJob
    <3>2. j.doc.calendar \in Nat
      BY <3>1 DEF GoogleLink
    <3> QED
      BY <1>0, <3>1, <3>2
  <2>3. PICK i \in 1..n : i = j.doc.calendar
    BY <2>2
  <2>4. PICK c : c = calendar[i]
    OBVIOUS
  <2>5. c \in Calendar
    BY <1>1, <2>3, <2>4, ElementOfSeq DEF GoogleOK
  <2>6. PICK e : e \in {c.events \cup {j.login}, c.events \cap {j.login}}
                 /\ calendar' = [calendar EXCEPT ![i].events = e]
    BY <1>17, <2>3, <2>4 DEF PutEvents, DeleteEvents
  <2>7. PICK d : d = [c EXCEPT !.events = e]
    OBVIOUS
  <2>8. calendar' = [calendar EXCEPT ![i] = d]
    BY <2>4, <2>6, <2>7
  <2>9. d \in Calendar
    <3>1. e \in SUBSET Accounts
      BY <2>2, <2>5, <2>6 DEF Calendar
    <3> QED
      BY <2>5, <2>7, <3>1 DEF Calendar
  <2>10. calendar' \in Seq(Calendar) /\ Len(calendar') = n
    BY <1>1, <2>3, <2>8, <2>9, ExceptSeq DEF GoogleOK
  <2>11. GoogleOK'
    BY <1>1, <2>1, <2>10 DEF GoogleOK
  <2>12. Grows
    BY <1>0, <2>10 DEF Grows
  <2>13. at[h] = "put events" => JobOK("delete events", j)
    BY <1>1, <2>1 DEF JobOK, LinkJob, CalendarJob, CanvasJob, ListJob
  <2> QED
    BY <1>0, <2>1, <2>11, <2>12, <2>13, NoJobOK, GoesOn
<1> QED
  BY <1>4, <1>5, <1>6, <1>7, <1>8, <1>9, <1>10, <1>11, <1>12, <1>13, <1>14, <1>15, <1>16,
     <1>17 DEF CalendarStep

-----------------------------------------------------------------------------
(* The types: the Canvases. *)

LEMMA SameGoes ==
  ASSUME NEW h, NEW p, NEW j
  PROVE  /\ C!Go(h, p, j) <=> Go(h, p, j)
         /\ L!Go(h, p, j) <=> Go(h, p, j)
         /\ C!Goto(h, p) <=> Go(h, p, job[h])
         /\ L!Goto(h, p) <=> Go(h, p, job[h])
         /\ C!Rest(h) <=> Go(h, "idle", NoJob)
         /\ L!Rest(h) <=> Go(h, "idle", NoJob)
         /\ L!Leave(h, p) <=> (IF p = "idle" THEN Go(h, "idle", NoJob) ELSE Go(h, p, job[h]))
  BY DEF C!Go, L!Go, Go, C!Goto, L!Goto, C!Rest, L!Rest, C!NoJob, L!NoJob, NoJob, L!Leave

LEMMA CanvasFields ==
  ASSUME NEW d \in CanvasState
  PROVE  d.id \in Nat /\ d.shows \in Accounts \cup {None} /\ d.granted \in BOOLEAN
  BY DEF CanvasState

\* A Canvas that is changed in place.
LEMMA CanvasChanged ==
  ASSUME CanvasOK, NEW i \in 1..Len(canvas), NEW c \in Canvas,
         canvas' = [canvas EXCEPT ![i] = c], UNCHANGED canvasDoc
  PROVE  CanvasOK' /\ Len(canvas') = Len(canvas)
  BY ExceptSeq DEF CanvasOK

LEMMA CanvasStored ==
  ASSUME CanvasOK, NEW u, NEW d \in CanvasState, d.id <= Len(canvas),
         canvasDoc' = [canvasDoc EXCEPT ![u] = d], UNCHANGED canvas
  PROVE  CanvasOK'
<1>1. ASSUME NEW v \in Users PROVE canvasDoc'[v].id <= Len(canvas)
  BY DEF CanvasOK
<1>2. canvasDoc' \in [Users -> CanvasState]
  BY DEF CanvasOK
<1> QED
  BY <1>1, <1>2 DEF CanvasOK

LEMMA CanvasStepTyped ==
  ASSUME AccountsAssumption, TypeInv, NEW h \in Handlers, C!CanvasStep(h),
         UNCHANGED <<links, calendars, list, listDoc, guard>>
  PROVE  CanvasOK' /\ HandlersOK'
<1> DEFINE j == job[h]
           n == Len(canvas)
<1>0. /\ GoogleOK' /\ ListOK' /\ n \in Nat
      /\ Len(calendar) <= Len(calendar') /\ Len(list) <= Len(list')
      /\ UNCHANGED <<url, identity, reverse>>
  BY SameCalendars, SameLists, Lengths DEF TypeInv, links, calendars
<1>1. JobOK(at[h], j) /\ j \in Job /\ CanvasOK
  BY DEF TypeInv, HandlersOK
<1>2. Len(canvas') >= n /\ CanvasOK' => Grows
  BY <1>0, LenProperties DEF Grows, CanvasOK
<1>3. /\ UNCHANGED <<canvas, canvasDoc>> => CanvasOK' /\ Grows
      /\ UNCHANGED canvas /\ CanvasOK' => Grows
  <2>1. UNCHANGED canvas => Len(canvas') >= n
    BY <1>0
  <2> QED
    BY <1>1, <1>2, <2>1, SameCanvases
<1>4. ASSUME C!AcquireCanvas(h) PROVE CanvasOK' /\ HandlersOK'
  <2>1. /\ at[h] = "acquire canvas" /\ UNCHANGED <<canvas, canvasDoc>>
        /\ Go(h, "idle", NoJob) \/ Go(h, "read canvas", j)
    BY <1>4, SameGoes DEF C!AcquireCanvas, C!canvases
  <2>2. JobOK("read canvas", j)
    BY <1>1, <2>1 DEF JobOK, LinkJob, CalendarJob, CanvasJob, ListJob
  <2> QED
    BY <1>0, <1>3, <2>1, <2>2, NoJobOK, GoesOn
<1>5. ASSUME C!ReadCanvas(h) PROVE CanvasOK' /\ HandlersOK'
  <2>1. at[h] = "read canvas" /\ UNCHANGED <<canvas, canvasDoc>> /\ Personal(j)
    BY <1>1, <1>5 DEF C!ReadCanvas, JobOK, CanvasJob
  <2>2. PICK d : d = canvasDoc[j.key]
    OBVIOUS
  <2>3. d \in CanvasState /\ d.id \in Nat /\ d.id <= n
    BY <1>1, <2>1, <2>2 DEF CanvasOK, Personal, CanvasState
  <2> DEFINE k == [j EXCEPT !.doc = d]
  <2>4. /\ k \in Job /\ k.user = j.user /\ k.key = j.key /\ k.login = j.login /\ k.doc = d
    BY <1>1, <2>3, ZenonT(60) DEF Job
  <2>5. \/ Go(h, "release canvas", k) \/ Go(h, "create canvas", k)
        \/ d.id # 0 /\ \/ Go(h, "edit canvas", k) \/ Go(h, "share canvas", k)
                       \/ Go(h, "record canvas", k)
    <3>1. PICK p : /\ Go(h, p, k)
                   /\ p = CASE d.id = 0 /\ j.then = "scheduled" -> "release canvas"
                            [] d.id = 0 /\ j.then # "scheduled" -> "create canvas"
                            [] d.id # 0 /\ d.shows # j.login -> "edit canvas"
                            [] d.id # 0 /\ d.shows = j.login /\ ~d.granted -> "share canvas"
                            [] OTHER -> "record canvas"
      BY <1>5, <2>2, SameGoes DEF C!ReadCanvas
    <3> HIDE DEF k
    <3>2. CASE d.id = 0
      BY <3>1, <3>2
    <3>3. CASE d.id # 0
      BY <3>1, <3>3
    <3> QED
      BY <3>2, <3>3
  <2>6. /\ JobOK("release canvas", k) /\ JobOK("create canvas", k)
        /\ d.id # 0 => /\ JobOK("edit canvas", k) /\ JobOK("share canvas", k)
                       /\ JobOK("record canvas", k)
    <3>1. d.id # 0 => d.id \in 1..n
      BY <1>0, <2>3
    <3> HIDE DEF k
    <3> QED
      BY <2>1, <2>3, <2>4, <3>1 DEF JobOK, LinkJob, CalendarJob, CanvasJob, ListJob, Personal
  <2> HIDE DEF k
  <2> QED
    BY <1>0, <1>3, <2>1, <2>5, <2>6, GoesOn
<1>6. ASSUME C!CreateCanvas(h) PROVE CanvasOK' /\ HandlersOK'
  <2>1. at[h] = "create canvas" /\ UNCHANGED canvasDoc /\ Personal(j)
    BY <1>1, <1>6 DEF C!CreateCanvas, JobOK, CanvasJob
  <2>2. PICK c \in Canvas : canvas' = Append(canvas, c)
    BY <1>6, <2>1 DEF C!CreateCanvas, Canvas, Personal
  <2>3. canvas' \in Seq(Canvas) /\ Len(canvas') = n + 1
    BY <1>1, <2>2, AppendProperties DEF CanvasOK
  <2>4. CanvasOK'
    <3>1. ASSUME NEW u \in Users PROVE canvasDoc'[u].id <= Len(canvas')
      <4>1. PICK i : i = canvasDoc[u].id
        OBVIOUS
      <4>2. i \in Nat /\ i <= n
        BY <1>1, <4>1 DEF CanvasOK, CanvasState
      <4>3. i <= n + 1
        BY <1>0, <4>2
      <4> QED
        BY <2>1, <2>3, <4>1, <4>3
    <3> QED
      BY <1>1, <2>1, <2>3, <3>1 DEF CanvasOK
  <2>5. PICK i, e : i = n + 1 /\ e = C!NoCanvas
    OBVIOUS
  <2>6. PICK d : d = [e EXCEPT !.id = i] /\ d \in CanvasState /\ d.id = n + 1
    <3>1. e \in CanvasState
      BY <2>5 DEF C!NoCanvas, CanvasState
    <3>2. i \in Nat
      BY <1>0, <2>5
    <3>3. /\ [e EXCEPT !.id = i] \in CanvasState
          /\ [e EXCEPT !.id = i].id = i
      BY <3>1, <3>2 DEF CanvasState
    <3> QED
      BY <2>5, <3>3
  <2>7. PICK k : k = [j EXCEPT !.doc = d]
    OBVIOUS
  <2>8. Go(h, "note canvas", k)
    BY <1>6, <2>5, <2>6, <2>7, SameGoes DEF C!CreateCanvas
  <2>9. k \in Job /\ k.user = j.user /\ k.key = j.key /\ k.login = j.login /\ k.doc = d
    BY <1>1, <2>6, <2>7, ZenonT(60) DEF Job
  <2>10. JobOK("note canvas", k)'
    <3>1. d.id \in 1..Len(canvas')
      BY <1>0, <2>3, <2>6
    <3> QED
      BY <2>1, <2>6, <2>9, <3>1 DEF JobOK, LinkJob, CalendarJob, CanvasJob, ListJob, Personal
  <2>11. Grows
    BY <1>0, <1>2, <2>3, <2>4
  <2> QED
    BY <1>0, <2>4, <2>8, <2>10, <2>11, Moves
<1>7. ASSUME C!NoteCanvas(h) \/ C!RecordCanvas(h) PROVE CanvasOK' /\ HandlersOK'
  <2>1. /\ at[h] \in {"note canvas", "record canvas"} /\ UNCHANGED canvas
        /\ \/ at[h] = "note canvas" /\ Go(h, "share canvas", j)
           \/ at[h] = "record canvas" /\ Go(h, "release canvas", j)
    BY <1>7, SameGoes DEF C!NoteCanvas, C!RecordCanvas
  <2>2. Personal(j) /\ j.doc \in CanvasState /\ j.doc.id \in 1..n
    BY <1>1, <2>1 DEF JobOK, CanvasJob
  <2>3. PICK i, a : i = j.doc.id /\ a = j.login
    OBVIOUS
  <2>4. PICK d : /\ \E b \in BOOLEAN : d = [id |-> i, shows |-> a, granted |-> b]
                 /\ canvasDoc' = [canvasDoc EXCEPT ![j.key] = d]
    <3>1. \/ canvasDoc' = [canvasDoc EXCEPT ![j.key] = [id |-> i, shows |-> a, granted |-> FALSE]]
          \/ canvasDoc' = [canvasDoc EXCEPT ![j.key] = [id |-> i, shows |-> a, granted |-> TRUE]]
      BY <1>7, <2>3 DEF C!NoteCanvas, C!RecordCanvas, C!Projected
    <3> QED
      BY <3>1
  <2>5. d \in CanvasState /\ d.id = i
    BY <2>2, <2>3, <2>4 DEF CanvasState, Personal
  <2>6. CanvasOK'
    <3>1. i <= Len(canvas)
      BY <1>0, <2>2, <2>3
    <3> QED
      BY <1>1, <2>1, <2>4, <2>5, <3>1, CanvasStored
  <2>7. Grows
    BY <1>3, <2>1, <2>6
  <2>8. /\ at[h] = "note canvas" => JobOK("share canvas", j)
        /\ at[h] = "record canvas" => JobOK("release canvas", j)
    BY <1>1, <2>1, <2>2 DEF JobOK, LinkJob, CalendarJob, CanvasJob, ListJob
  <2> QED
    BY <1>0, <2>1, <2>6, <2>7, <2>8, GoesOn
<1>8. ASSUME C!EditCanvas(h) \/ C!ShareCanvas(h) \/ C!CloseCanvas(h)
      PROVE  CanvasOK' /\ HandlersOK'
  <2>1. /\ at[h] \in {"edit canvas", "share canvas", "close canvas"} /\ UNCHANGED canvasDoc
        /\ \/ at[h] = "edit canvas" /\ \/ Go(h, "record canvas", j) \/ Go(h, "share canvas", j)
           \/ at[h] = "share canvas" /\ Go(h, "record canvas", j)
           \/ at[h] = "close canvas" /\ Go(h, "forget canvas", j)
    BY <1>8, SameGoes DEF C!EditCanvas, C!ShareCanvas, C!CloseCanvas
  <2>2. /\ j.doc \in CanvasState /\ j.doc.id \in 1..n
        /\ at[h] # "close canvas" => Personal(j)
    BY <1>1, <2>1 DEF JobOK, CanvasJob
  <2>3. PICK i \in 1..n : i = j.doc.id
    BY <2>2
  <2>4. PICK c : c = canvas[i]
    OBVIOUS
  <2>5. c \in Canvas
    BY <1>1, <2>3, <2>4, ElementOfSeq DEF CanvasOK
  <2>6. PICK d : d \in Canvas /\ canvas' = [canvas EXCEPT ![i] = d]
    <3>1. CASE C!EditCanvas(h)
      <4>1. at[h] = "edit canvas" /\ canvas' = [canvas EXCEPT ![i].shows = j.login]
        BY <2>3, <3>1 DEF C!EditCanvas
      <4>2. canvas' = [canvas EXCEPT ![i] = [c EXCEPT !.shows = j.login]]
        BY <2>4, <4>1
      <4>3. [c EXCEPT !.shows = j.login] \in Canvas
        BY <2>2, <2>5, <4>1 DEF Canvas, Personal
      <4> QED
        BY <4>2, <4>3
    <3>2. CASE C!ShareCanvas(h)
      <4>1. /\ at[h] = "share canvas"
            /\ canvas' = [canvas EXCEPT ![i].readers = @ \cup {j.key}]
        BY <2>3, <3>2 DEF C!ShareCanvas
      <4>2. canvas' = [canvas EXCEPT ![i] = [c EXCEPT !.readers = c.readers \cup {j.key}]]
        BY <2>4, <4>1
      <4>3. [c EXCEPT !.readers = c.readers \cup {j.key}] \in Canvas
        BY <2>2, <2>5, <4>1 DEF Canvas, Personal
      <4> QED
        BY <4>2, <4>3
    <3>3. CASE C!CloseCanvas(h)
      <4>1. canvas' = [canvas EXCEPT ![i].readers = @ \ {j.user}]
        BY <2>3, <3>3 DEF C!CloseCanvas
      <4>2. canvas' = [canvas EXCEPT ![i] = [c EXCEPT !.readers = c.readers \ {j.user}]]
        BY <2>4, <4>1
      <4>3. [c EXCEPT !.readers = c.readers \ {j.user}] \in Canvas
        BY <2>5 DEF Canvas
      <4> QED
        BY <4>2, <4>3
    <3> QED
      BY <1>8, <3>1, <3>2, <3>3
  <2>7. CanvasOK' /\ Len(canvas') = n
    BY <1>1, <2>1, <2>6, CanvasChanged
  <2>8. Grows
    BY <1>0, <1>2, <2>7
  <2>9. /\ at[h] = "edit canvas" => JobOK("record canvas", j) /\ JobOK("share canvas", j)
        /\ at[h] = "share canvas" => JobOK("record canvas", j)
        /\ at[h] = "close canvas" => JobOK("forget canvas", j)
    BY <1>1, <2>1, <2>2, ZenonT(60) DEF JobOK, LinkJob, CalendarJob, CanvasJob, ListJob
  <2> QED
    BY <1>0, <2>1, <2>7, <2>8, <2>9, GoesOn
<1>9. ASSUME C!ReleaseCanvas(h) PROVE CanvasOK' /\ HandlersOK'
  <2>1. UNCHANGED <<canvas, canvasDoc>> /\ Go(h, "idle", NoJob)
    BY <1>9, SameGoes DEF C!ReleaseCanvas, C!canvases
  <2> QED
    BY <1>0, <1>3, <2>1, NoJobOK, GoesOn
<1>10. ASSUME C!FindCanvas(h) PROVE CanvasOK' /\ HandlersOK'
  <2>1. at[h] = "revoke" /\ UNCHANGED <<canvas, canvasDoc>> /\ j.user \in Users
    BY <1>1, <1>10 DEF C!FindCanvas, JobOK, LinkJob
  <2>2. PICK d : d = canvasDoc[j.user]
    OBVIOUS
  <2>3. d \in CanvasState /\ d.id \in Nat /\ d.id <= n
    BY <1>1, <2>1, <2>2 DEF CanvasOK, CanvasState
  <2>4. PICK k : k = [j EXCEPT !.doc = d]
    OBVIOUS
  <2>5. Go(h, "revoke list", j) \/ (d.id # 0 /\ Go(h, "close canvas", k))
    BY <1>10, <2>2, <2>4, SameGoes DEF C!FindCanvas
  <2>6. /\ k \in Job /\ k.user = j.user /\ k.login = j.login /\ k.previous = j.previous
        /\ k.then = j.then /\ k.doc = d
    BY <1>1, <2>3, <2>4 DEF Job
  <2>7. JobOK("revoke list", j)
    BY <1>1, <2>1 DEF JobOK, LinkJob, CalendarJob, CanvasJob, ListJob
  <2>8. d.id # 0 => JobOK("close canvas", k)
    <3>1. d.id # 0 => d.id \in 1..n
      BY <1>0, <2>3
    <3> QED
      BY <1>1, <2>1, <2>3, <2>6, <3>1 DEF JobOK, LinkJob, CalendarJob, CanvasJob, ListJob
  <2> QED
    BY <1>0, <1>3, <2>1, <2>5, <2>7, <2>8, GoesOn
<1>11. ASSUME C!ForgetCanvas(h) PROVE CanvasOK' /\ HandlersOK'
  <2>1. /\ at[h] = "forget canvas" /\ UNCHANGED canvas /\ j.user \in Users
        /\ canvasDoc' = [canvasDoc EXCEPT ![j.user] = C!NoCanvas]
    BY <1>1, <1>11 DEF C!ForgetCanvas, JobOK, LinkJob
  <2>2. PICK k : k = [j EXCEPT !.doc = None]
    OBVIOUS
  <2>3. Go(h, "revoke list", k)
    BY <1>11, <2>2, SameGoes DEF C!ForgetCanvas
  <2>4. CanvasOK'
    <3>1. C!NoCanvas \in CanvasState /\ C!NoCanvas.id = 0
      BY DEF C!NoCanvas, CanvasState
    <3>2. C!NoCanvas.id <= Len(canvas)
      BY <1>0, <3>1
    <3> QED
      BY <1>1, <2>1, <3>1, <3>2, CanvasStored
  <2>5. Grows
    BY <1>3, <2>1, <2>4
  <2>6. /\ k \in Job /\ k.user = j.user /\ k.login = j.login /\ k.previous = j.previous
        /\ k.then = j.then
    BY <1>1, <2>2 DEF Job
  <2>7. JobOK("revoke list", k)
    BY <1>1, <2>1, <2>6 DEF JobOK, LinkJob, CalendarJob, CanvasJob, ListJob
  <2> QED
    BY <1>0, <2>3, <2>4, <2>5, <2>7, GoesOn
<1> QED
  BY <1>4, <1>5, <1>6, <1>7, <1>8, <1>9, <1>10, <1>11 DEF C!CanvasStep

-----------------------------------------------------------------------------
(* The types: the Lists. *)

HIDE DEF ListSync

LEMMA ListAt ==
  ASSUME ListOK, NEW i \in 1..Len(list)
  PROVE  /\ list[i] \in List
         /\ list[i].readers \in SUBSET (Users \cup {Channel})
         /\ list[i].rows \in SUBSET (Accounts \cup {All, Shared})
<1>1. list[i] \in List
  BY ElementOfSeq DEF ListOK
<1>2. \A c \in List : /\ c.readers \in SUBSET (Users \cup {Channel})
                      /\ c.rows \in SUBSET (Accounts \cup {All, Shared})
  BY DEF List
<1> QED
  BY <1>1, <1>2

LEMMA ListChanged ==
  ASSUME ListOK, NEW i \in 1..Len(list), NEW c \in List,
         list' = [list EXCEPT ![i] = c], UNCHANGED <<listDoc, guard>>
  PROVE  ListOK' /\ Len(list') = Len(list)
  BY ExceptSeq DEF ListOK

\* The readers of a List, its rows and its name.
LEMMA ListFieldChanged ==
  ASSUME ListOK, NEW i \in 1..Len(list), UNCHANGED <<listDoc, guard>>,
         \/ \E r \in SUBSET (Users \cup {Channel}) : list' = [list EXCEPT ![i].readers = r]
         \/ \E r \in SUBSET (Accounts \cup {All, Shared}) : list' = [list EXCEPT ![i].rows = r]
         \/ list' = [list EXCEPT ![i].renamed = TRUE]
  PROVE  ListOK' /\ Len(list') = Len(list)
<1>1. PICK c : c = list[i]
  OBVIOUS
<1>2. c \in List
  BY <1>1, ElementOfSeq DEF ListOK
<1>3. CASE \E r \in SUBSET (Users \cup {Channel}) : list' = [list EXCEPT ![i].readers = r]
  <2>1. PICK r \in SUBSET (Users \cup {Channel}) : list' = [list EXCEPT ![i] = [c EXCEPT !.readers = r]]
    BY <1>1, <1>3
  <2>2. [c EXCEPT !.readers = r] \in List
    BY <1>2 DEF List
  <2> QED
    BY <2>1, <2>2, ListChanged
<1>4. CASE \E r \in SUBSET (Accounts \cup {All, Shared}) : list' = [list EXCEPT ![i].rows = r]
  <2>1. PICK r \in SUBSET (Accounts \cup {All, Shared}) : list' = [list EXCEPT ![i] = [c EXCEPT !.rows = r]]
    BY <1>1, <1>4
  <2>2. [c EXCEPT !.rows = r] \in List
    BY <1>2 DEF List
  <2> QED
    BY <2>1, <2>2, ListChanged
<1>5. CASE list' = [list EXCEPT ![i].renamed = TRUE]
  <2>1. list' = [list EXCEPT ![i] = [c EXCEPT !.renamed = TRUE]]
    BY <1>1, <1>5
  <2>2. [c EXCEPT !.renamed = TRUE] \in List
    BY <1>2 DEF List
  <2> QED
    BY <2>1, <2>2, ListChanged
<1> QED
  BY <1>3, <1>4, <1>5

LEMMA ListStored ==
  ASSUME ListOK, NEW k, NEW d \in ListState, d.id <= Len(list), d.legacy <= Len(list),
         d.current => d.id # 0, L!StoreList(k, d), UNCHANGED <<list, guard>>
  PROVE  ListOK'
<1>0. listDoc' = [listDoc EXCEPT ![k] = d]
  BY DEF L!StoreList
<1>1. ASSUME NEW i \in Keys
      PROVE  /\ listDoc'[i].id <= Len(list) /\ listDoc'[i].legacy <= Len(list)
             /\ listDoc'[i].current => listDoc'[i].id # 0
  BY <1>0 DEF ListOK
<1>2. listDoc' \in [Keys -> ListState]
  BY <1>0 DEF ListOK
<1> QED
  BY <1>1, <1>2 DEF ListOK

LEMMA ListFields ==
  ASSUME NEW d \in ListState
  PROVE  d.id \in Nat /\ d.legacy \in Nat /\ d.current \in BOOLEAN /\ d.pending \in BOOLEAN
  BY DEF ListState

LEMMA NoListFields ==
  L!NoList \in ListState /\ L!NoList.id = 0 /\ L!NoList.legacy = 0 /\ L!NoList.current = FALSE
  BY DEF L!NoList, ListState

LEMMA ListStateChanged ==
  ASSUME NEW d \in ListState
  PROVE  /\ LET e == [d EXCEPT !.pending = FALSE]
            IN  e \in ListState /\ e.id = d.id /\ e.legacy = d.legacy /\ e.current = d.current
         /\ LET e == [d EXCEPT !.legacy = 0]
            IN  e \in ListState /\ e.id = d.id /\ e.legacy = 0 /\ e.current = d.current
  BY DEF ListState

\* What a synchronisation of a List has in hand, and where it writes.
ListUse == {"note list", "share list", "record list", "share with requester", "rename legacy",
            "drop legacy", "add rows", "delete rows"}

LEMMA ListJobs ==
  ASSUME AccountsAssumption, TypeInv, NEW h \in Handlers
  PROVE  LET j == job[h]
         IN  /\ at[h] \in ListSync => j.key \in Keys /\ L!Target(j.key) \in Users \cup {Channel}
             /\ at[h] \in ListSync => L!Requester(h) \subseteq Users
             /\ at[h] \in ListSync => L!Wanted(h) \subseteq Accounts \cup {All, Shared}
<1> DEFINE j == job[h]
<1> SUFFICES ASSUME at[h] \in ListSync
             PROVE  /\ j.key \in Keys /\ L!Target(j.key) \in Users \cup {Channel}
                    /\ L!Requester(h) \subseteq Users
                    /\ L!Wanted(h) \subseteq Accounts \cup {All, Shared}
  OBVIOUS
<1>1. Personal(j) \/ ForChannel(j) \/ ForShared(j)
  BY DEF TypeInv, HandlersOK, JobOK, ListJob
<1>2. /\ Channel \notin Users /\ Shared \notin Users \cup {Channel} /\ None \notin Keys
      /\ None \notin Users
  BY DEF AccountsAssumption, Keys
<1>3. j.user \in Users \cup {None}
  BY DEF TypeInv, HandlersOK, JobOK, Job
<1>4. CASE Personal(j)
  BY <1>2, <1>3, <1>4 DEF Personal, L!Target, L!Requester, L!Wanted, Keys
<1>5. CASE ForChannel(j)
  BY <1>2, <1>3, <1>5 DEF ForChannel, L!Target, L!Requester, L!Wanted, Keys
<1>6. CASE ForShared(j)
  BY <1>2, <1>3, <1>6 DEF ForShared, L!Target, L!Requester, L!Wanted, Keys
<1> QED
  BY <1>1, <1>4, <1>5, <1>6

LEMMA ListSyncTyped ==
  ASSUME AccountsAssumption, TypeInv, NEW h \in Handlers, at[h] \in ListSync, L!ListStep(h),
         UNCHANGED <<links, calendars, canvas, canvasDoc>>
  PROVE  ListOK' /\ HandlersOK'
<1> DEFINE j == job[h]
           n == Len(list)
<1>0. /\ GoogleOK' /\ CanvasOK' /\ n \in Nat
      /\ Len(calendar) <= Len(calendar') /\ Len(canvas) <= Len(canvas')
      /\ UNCHANGED <<url, identity, reverse>>
  BY SameCalendars, SameCanvases, Lengths DEF TypeInv, links, calendars
<1>1. JobOK(at[h], j) /\ j \in Job /\ ListOK
  BY DEF TypeInv, HandlersOK
<1>2. Len(list') >= n /\ ListOK' => Grows
  BY <1>0, LenProperties DEF Grows, ListOK
<1>3. /\ UNCHANGED <<list, listDoc, guard>> => ListOK' /\ Grows
      /\ UNCHANGED list /\ ListOK' => Grows
      /\ Len(list') = n /\ ListOK' => Grows
  <2>1. (UNCHANGED list => Len(list') >= n) /\ (Len(list') = n => Len(list') >= n)
    BY <1>0
  <2> QED
    BY <1>1, <1>2, <2>1, SameLists
<1>4. /\ Personal(j) \/ ForChannel(j) \/ ForShared(j)
      /\ j.key \in Keys /\ L!Target(j.key) \in Users \cup {Channel}
      /\ L!Requester(h) \subseteq Users
      /\ L!Wanted(h) \subseteq Accounts \cup {All, Shared}
  BY <1>1, ListJobs DEF JobOK, ListJob
<1>5. /\ at[h] \in {"create list"} \cup ListUse =>
           /\ j.doc \in ListState /\ j.doc.id \in Nat /\ j.doc.legacy \in Nat
           /\ j.doc.id <= n /\ j.doc.legacy <= n
      /\ at[h] \in ListUse => j.doc.id \in 1..n /\ j.doc.id # 0
      /\ at[h] = "rename legacy" => j.doc.legacy \in 1..n
  <2>1. /\ at[h] \in {"create list"} \cup ListUse => /\ j.doc \in ListState
                                                    /\ j.doc.id <= n /\ j.doc.legacy <= n
        /\ at[h] \in ListUse => j.doc.id # 0
        /\ at[h] = "rename legacy" => j.doc.legacy # 0 /\ at[h] \in ListUse
    BY <1>1 DEF JobOK, ListJob, ListUse
  <2>2. j.doc \in ListState => j.doc.id \in Nat /\ j.doc.legacy \in Nat
    BY ListFields
  <2>3. \A i \in Nat : i # 0 /\ i <= n => i \in 1..n
    BY <1>0
  <2> QED
    BY <2>1, <2>2, <2>3
<1>6. /\ L!Doc(h) = j.doc
  BY DEF L!Doc
\* Going on with the same job within a synchronisation under way.
<1>7. /\ JobOK("release list", j)
      /\ at[h] \in ListUse => /\ JobOK("share list", j) /\ JobOK("share with requester", j)
                              /\ JobOK("add rows", j) /\ JobOK("delete rows", j)
                              /\ j.doc.legacy # 0 => JobOK("rename legacy", j)
  <2>1. at[h] \in ListUse =>
          j.doc \in ListState /\ j.doc.id # 0 /\ j.doc.id <= n /\ j.doc.legacy <= n
    BY <1>1 DEF JobOK, ListJob, ListUse
  <2>2. j \in Job
    BY <1>1
  <2>3. JobOK("release list", j)
    BY <1>4, <2>2 DEF JobOK, LinkJob, CalendarJob, CanvasJob, ListJob, ListSync
  <2>4. ASSUME at[h] \in ListUse
        PROVE  /\ JobOK("share list", j) /\ JobOK("share with requester", j)
               /\ JobOK("add rows", j) /\ JobOK("delete rows", j)
               /\ j.doc.legacy # 0 => JobOK("rename legacy", j)
    <3>1. j.doc \in ListState /\ j.doc.id # 0 /\ j.doc.id <= n /\ j.doc.legacy <= n
      BY <2>1, <2>4
    <3> QED
      BY <1>4, <2>2, <3>1 DEF JobOK, LinkJob, CalendarJob, CanvasJob, ListJob, ListSync
  <2> QED
    BY <2>3, <2>4
<1>8. ASSUME L!AcquireList(h) PROVE ListOK' /\ HandlersOK'
  <2>1. /\ UNCHANGED <<list, listDoc, guard>>
        /\ \/ Go(h, "idle", NoJob)
           \/ j.key = Channel /\ Go(h, "check guard", j)
           \/ j.key = Shared /\ Go(h, "acquire channel", j)
           \/ j.key \notin {Channel, Shared} /\ Go(h, "read list", j)
    <3>1. UNCHANGED <<list, listDoc, guard>>
      BY <1>8 DEF L!AcquireList, L!lists
    <3>2. \/ Go(h, "idle", NoJob)
          \/ \E p : /\ p = CASE j.key = Channel -> "check guard"
                             [] j.key = Shared -> "acquire channel" [] OTHER -> "read list"
                    /\ Go(h, p, j)
      BY <1>8, SameGoes DEF L!AcquireList
    <3>3. Channel # Shared
      BY DEF AccountsAssumption
    <3>4. CASE j.key = Channel
      BY <3>1, <3>2, <3>3, <3>4
    <3>5. CASE j.key = Shared
      BY <3>1, <3>2, <3>3, <3>5
    <3>6. CASE j.key \notin {Channel, Shared}
      BY <3>1, <3>2, <3>6
    <3> QED
      BY <3>4, <3>5, <3>6
  <2>2. /\ j.key = Channel => ForChannel(j)
        /\ j.key = Shared => ForShared(j)
    BY <1>4 DEF ForChannel, ForShared, Personal, AccountsAssumption
  <2>3. /\ j.key = Channel => JobOK("check guard", j)
        /\ j.key = Shared => JobOK("acquire channel", j)
        /\ JobOK("read list", j)
    BY <1>1, <1>4, <2>2, ZenonT(60)
    DEF JobOK, LinkJob, CalendarJob, CanvasJob, ListJob, ForShared
  <2> QED
    BY <1>0, <1>3, <2>1, <2>3, NoJobOK, GoesOn
<1>9. ASSUME L!CheckGuard(h) PROVE ListOK' /\ HandlersOK'
  <2>1. /\ at[h] = "check guard" /\ UNCHANGED <<list, listDoc, guard>>
        /\ Go(h, "release list", j) \/ Go(h, "read list", j)
    BY <1>9, SameGoes DEF L!CheckGuard
  <2>2. JobOK("read list", j)
    BY <1>1, <1>4, <2>1, Zenon DEF JobOK, LinkJob, CalendarJob, CanvasJob, ListJob, ListSync
  <2> QED
    BY <1>0, <1>3, <1>7, <2>1, <2>2, GoesOn
<1>10. ASSUME L!ReadList(h) PROVE ListOK' /\ HandlersOK'
  <2>1. at[h] = "read list" /\ UNCHANGED <<list, listDoc, guard>>
    BY <1>10 DEF L!ReadList
  <2>2. PICK d : d = listDoc[j.key]
    OBVIOUS
  <2>3. d \in ListState /\ d.id <= n /\ d.legacy <= n
    BY <1>1, <1>4, <2>2 DEF ListOK
  <2>4. PICK k : k = [j EXCEPT !.doc = d]
    OBVIOUS
  <2>5. /\ k \in Job /\ k.user = j.user /\ k.key = j.key /\ k.login = j.login /\ k.doc = d
        /\ k.then = j.then
    BY <1>1, <2>3, <2>4 DEF Job
  <2>6. \/ ~d.current /\ Go(h, "create list", k)
        \/ d.current /\ \/ Go(h, "share list", k) \/ Go(h, "share with requester", k)
    <3>1. PICK p : /\ Go(h, p, k)
                   /\ p = CASE ~d.current -> "create list"
                            [] d.current /\ d.pending -> "share list"
                            [] OTHER -> "share with requester"
      BY <1>10, <2>2, <2>4, SameGoes DEF L!ReadList
    <3>2. CASE ~d.current
      BY <3>1, <3>2
    <3>3. CASE d.current
      BY <3>1, <3>3
    <3> QED
      BY <3>2, <3>3
  <2>7. Personal(k) \/ ForChannel(k) \/ ForShared(k)
    BY <1>4, <2>5 DEF Personal, ForChannel, ForShared
  <2>8. /\ JobOK("create list", k)
        /\ d.id # 0 => JobOK("share list", k) /\ JobOK("share with requester", k)
    BY <2>3, <2>5, <2>7, Zenon DEF JobOK, LinkJob, CalendarJob, CanvasJob, ListJob, ListSync
  <2>9. d.current => d.id # 0
    BY <1>1, <1>4, <2>2 DEF ListOK
  <2> QED
    BY <1>0, <1>3, <2>1, <2>6, <2>8, <2>9, GoesOn
<1>11. ASSUME L!CreateList(h) PROVE ListOK' /\ HandlersOK'
  <2>1. at[h] = "create list" /\ UNCHANGED <<listDoc, guard>>
    BY <1>11 DEF L!CreateList
  <2>2. PICK c : c = L!NewList(j.key)
    OBVIOUS
  <2>3. c \in List
    BY <1>4, <2>2 DEF List, L!NewList
  <2>4. list' = Append(list, c)
    BY <1>11, <2>2 DEF L!CreateList
  <2>5. list' \in Seq(List) /\ Len(list') = n + 1
    BY <1>1, <2>3, <2>4, AppendProperties DEF ListOK
  <2>6. PICK m : m = n + 1
    OBVIOUS
  <2>7. m \in Nat /\ m # 0 /\ m <= Len(list') /\ \A i \in Nat : i <= n => i <= Len(list')
    BY <1>0, <2>5, <2>6
  <2>8. ListOK'
    <3>1. ASSUME NEW k \in Keys
          PROVE  /\ listDoc'[k].id <= Len(list') /\ listDoc'[k].legacy <= Len(list')
                 /\ listDoc'[k].current => listDoc'[k].id # 0
      <4>1. /\ listDoc[k].id \in Nat /\ listDoc[k].id <= n
            /\ listDoc[k].legacy \in Nat /\ listDoc[k].legacy <= n
            /\ listDoc[k].current => listDoc[k].id # 0
        BY <1>1, ListFields DEF ListOK
      <4> QED
        BY <2>1, <2>7, <4>1
    <3> QED
      BY <1>1, <2>1, <2>5, <3>1 DEF ListOK
  <2>9. PICK d : d = [id |-> m, current |-> TRUE, pending |-> TRUE, legacy |-> j.doc.id]
    OBVIOUS
  <2>10. d \in ListState /\ d.id = m /\ d.legacy = j.doc.id
    BY <1>5, <2>1, <2>7, <2>9 DEF ListState
  <2>11. PICK k : k = [j EXCEPT !.doc = d]
    OBVIOUS
  <2>12. Go(h, "note list", k)
    BY <1>6, <1>11, <2>6, <2>9, <2>11, SameGoes DEF L!CreateList
  <2>13. /\ k \in Job /\ k.user = j.user /\ k.key = j.key /\ k.login = j.login /\ k.doc = d
         /\ k.then = j.then
    BY <1>1, <2>10, <2>11 DEF Job
  <2>14. Personal(k) \/ ForChannel(k) \/ ForShared(k)
    BY <1>4, <2>13 DEF Personal, ForChannel, ForShared
  <2>15. JobOK("note list", k)'
    <3>1. d.id <= Len(list') /\ d.legacy <= Len(list') /\ d.id # 0
      BY <1>5, <2>1, <2>7, <2>10
    <3> QED
      BY <2>10, <2>13, <2>14, <3>1, Zenon
         DEF JobOK, LinkJob, CalendarJob, CanvasJob, ListJob, ListSync
  <2>16. Grows
    BY <1>0, <1>2, <2>5, <2>8
  <2> QED
    BY <1>0, <2>8, <2>12, <2>15, <2>16, Moves
<1>12. ASSUME L!NoteList(h) \/ L!RecordList(h) \/ L!DropLegacy(h) PROVE ListOK' /\ HandlersOK'
  <2>1. /\ at[h] \in ListUse /\ UNCHANGED <<list, guard>> /\ L!StoreList(j.key, j.doc)
        /\ \/ Go(h, "share list", j) \/ Go(h, "share with requester", j)
           \/ Go(h, "add rows", j)
    BY <1>6, <1>12, SameGoes DEF L!NoteList, L!RecordList, L!DropLegacy, ListUse
  <2>2. ListOK'
    <3> HIDE DEF j
    <3> QED
      BY <1>1, <1>5, <2>1, ListStored
  <2> QED
    BY <1>0, <1>3, <1>7, <2>1, <2>2, GoesOn
<1>13. ASSUME L!ShareList(h) PROVE ListOK' /\ HandlersOK'
  <2>1. /\ at[h] = "share list" /\ at[h] \in ListUse /\ UNCHANGED <<listDoc, guard>>
        /\ list' = [list EXCEPT ![j.doc.id].readers = @ \cup {L!Target(j.key)}]
    BY <1>6, <1>13 DEF L!ShareList, ListUse
  <2>2. PICK i \in 1..n : i = j.doc.id
    BY <1>5, <2>1
  <2>3. list[i].readers \in SUBSET (Users \cup {Channel})
    BY <1>1, ListAt
  <2>4. PICK r \in SUBSET (Users \cup {Channel}) : list' = [list EXCEPT ![i].readers = r]
    BY <1>4, <2>1, <2>2, <2>3, ZenonT(60)
  <2>5. ListOK' /\ Len(list') = n
    BY <1>1, <2>1, <2>4, ListFieldChanged
  <2>6. PICK d, e : d = j.doc /\ e = [d EXCEPT !.pending = FALSE]
    OBVIOUS
  <2>7. e \in ListState /\ e.id = d.id /\ e.legacy = d.legacy
    BY <1>5, <2>1, <2>6, ListStateChanged
  <2>8. PICK k : k = [j EXCEPT !.doc = e]
    OBVIOUS
  <2>9. Go(h, "record list", k)
    <3>1. k = [j EXCEPT !.doc.pending = FALSE]
      BY <2>6, <2>8
    <3> QED
      BY <1>13, <3>1, SameGoes DEF L!ShareList
  <2>10. JobOK("record list", k)
    <3>1. /\ k \in Job /\ k.user = j.user /\ k.key = j.key /\ k.login = j.login /\ k.doc = e
          /\ k.then = j.then
      BY <1>1, <2>7, <2>8 DEF Job
    <3>2. Personal(k) \/ ForChannel(k) \/ ForShared(k)
      BY <1>4, <3>1 DEF Personal, ForChannel, ForShared
    <3>3. e.id <= n /\ e.legacy <= n /\ e.id # 0
      <4> HIDE DEF j, n
      <4> QED
        BY <1>5, <2>1, <2>6, <2>7
    <3> QED
      BY <2>7, <3>1, <3>2, <3>3, Zenon
         DEF JobOK, LinkJob, CalendarJob, CanvasJob, ListJob, ListSync
  <2> QED
    BY <1>0, <1>3, <2>5, <2>9, <2>10, GoesOn
<1>14. ASSUME L!ShareWithRequester(h) PROVE ListOK' /\ HandlersOK'
  <2>1. /\ at[h] \in ListUse /\ UNCHANGED <<listDoc, guard>>
        /\ list' = [list EXCEPT ![j.doc.id].readers = @ \cup L!Requester(h)]
        /\ \/ j.doc.legacy # 0 /\ Go(h, "rename legacy", j)
           \/ Go(h, "add rows", j)
    BY <1>6, <1>14, SameGoes DEF L!ShareWithRequester, ListUse
  <2>2. PICK i \in 1..n : i = j.doc.id
    BY <1>5, <2>1
  <2>3. list[i].readers \in SUBSET (Users \cup {Channel})
    BY <1>1, ListAt
  <2>4. PICK r \in SUBSET (Users \cup {Channel}) : list' = [list EXCEPT ![i].readers = r]
    BY <1>4, <2>1, <2>2, <2>3
  <2>5. ListOK' /\ Len(list') = n
    BY <1>1, <2>1, <2>4, ListFieldChanged
  <2> QED
    BY <1>0, <1>3, <1>7, <2>1, <2>5, GoesOn
<1>15. ASSUME L!RenameLegacy(h) PROVE ListOK' /\ HandlersOK'
  <2>1. /\ at[h] = "rename legacy" /\ at[h] \in ListUse /\ UNCHANGED <<listDoc, guard>>
        /\ list' = [list EXCEPT ![j.doc.legacy].renamed = TRUE]
    BY <1>6, <1>15 DEF L!RenameLegacy, ListUse
  <2>2. PICK i \in 1..n : i = j.doc.legacy
    BY <1>5, <2>1
  <2>3. ListOK' /\ Len(list') = n
    BY <1>1, <2>1, <2>2, ListFieldChanged
  <2>4. PICK d, e : d = j.doc /\ e = [d EXCEPT !.legacy = 0]
    OBVIOUS
  <2>5. e \in ListState /\ e.id = d.id /\ e.legacy = 0
    BY <1>5, <2>1, <2>4, ListStateChanged
  <2>6. PICK k : k = [j EXCEPT !.doc = e]
    OBVIOUS
  <2>7. Go(h, "drop legacy", k)
    <3>1. k = [j EXCEPT !.doc.legacy = 0]
      BY <2>4, <2>6
    <3> QED
      BY <1>15, <3>1, SameGoes DEF L!RenameLegacy
  <2>8. JobOK("drop legacy", k)
    <3>1. /\ k \in Job /\ k.user = j.user /\ k.key = j.key /\ k.login = j.login /\ k.doc = e
          /\ k.then = j.then
      BY <1>1, <2>5, <2>6 DEF Job
    <3>2. Personal(k) \/ ForChannel(k) \/ ForShared(k)
      BY <1>4, <3>1 DEF Personal, ForChannel, ForShared
    <3>3. e.id <= n /\ e.legacy <= n /\ e.id # 0
      <4>1. 0 <= n
        BY <1>0
      <4> HIDE DEF j, n
      <4> QED
        BY <1>5, <2>1, <2>4, <2>5, <4>1
    <3> QED
      BY <2>5, <3>1, <3>2, <3>3, Zenon
         DEF JobOK, LinkJob, CalendarJob, CanvasJob, ListJob, ListSync
  <2> QED
    BY <1>0, <1>3, <2>3, <2>7, <2>8, GoesOn
<1>16. ASSUME L!AddRows(h) \/ L!DeleteRows(h) PROVE ListOK' /\ HandlersOK'
  <2>1. /\ at[h] \in ListUse /\ UNCHANGED <<listDoc, guard>>
        /\ \/ list' = [list EXCEPT ![j.doc.id].rows = @ \cup L!Wanted(h)]
           \/ list' = [list EXCEPT ![j.doc.id].rows = @ \cap L!Wanted(h)]
        /\ Go(h, "delete rows", j) \/ Go(h, "release list", j)
    BY <1>6, <1>16, SameGoes DEF L!AddRows, L!DeleteRows, ListUse
  <2>2. PICK i \in 1..n : i = j.doc.id
    BY <1>5, <2>1
  <2>3. list[i].rows \in SUBSET (Accounts \cup {All, Shared})
    BY <1>1, ListAt
  <2>4. PICK r \in SUBSET (Accounts \cup {All, Shared}) : list' = [list EXCEPT ![i].rows = r]
    <3>1. /\ list[i].rows \cup L!Wanted(h) \in SUBSET (Accounts \cup {All, Shared})
          /\ list[i].rows \cap L!Wanted(h) \in SUBSET (Accounts \cup {All, Shared})
      BY <1>4, <2>3
    <3>2. \/ list' = [list EXCEPT ![i].rows = list[i].rows \cup L!Wanted(h)]
          \/ list' = [list EXCEPT ![i].rows = list[i].rows \cap L!Wanted(h)]
      BY <2>1, <2>2
    <3> QED
      BY <3>1, <3>2
  <2>5. ListOK' /\ Len(list') = n
    BY <1>1, <2>1, <2>4, ListFieldChanged
  <2> QED
    BY <1>0, <1>3, <1>7, <2>1, <2>5, GoesOn
<1>17. ASSUME L!ReleaseList(h) PROVE ListOK' /\ HandlersOK'
  <2>1. UNCHANGED <<list, listDoc, guard>> /\ Go(h, "idle", NoJob)
    BY <1>17, SameGoes DEF L!ReleaseList, L!lists
  <2> QED
    BY <1>0, <1>3, <2>1, NoJobOK, GoesOn
<1> QED
  BY <1>8, <1>9, <1>10, <1>11, <1>12, <1>13, <1>14, <1>15, <1>16, <1>17
     DEF L!ListStep, ListSync, L!AcquireChannel, L!ReadLegacy, L!CloseLegacy, L!ClearLegacy,
         L!MarkLegacy, L!SetGuard, L!ForgetLegacy, L!ReleaseChannel, L!FindList, L!CloseList,
         L!ForgetList

-----------------------------------------------------------------------------
(* The types: the channel's migration and the revocation of a List. *)

LEMMA LegaciesFields ==
  ASSUME NEW d \in ListState, NEW n \in Nat, d.id <= n, d.legacy <= n, d.id # 0
  PROVE  LET s == L!Legacies(d)
         IN  s \in Seq(Nat) /\ s # <<>> /\ \A i \in DOMAIN s : s[i] \in 1..n
<1>1. d.id \in 1..n /\ d.legacy \in Nat /\ (d.legacy # 0 => d.legacy \in 1..n)
  BY ListFields
<1>2. CASE d.legacy = 0
  <2>1. L!Legacies(d) = <<d.id>>
    BY <1>2 DEF L!Legacies
  <2> QED
    BY <1>1, <2>1
<1>3. CASE d.legacy # 0
  <2>1. L!Legacies(d) = <<d.legacy, d.id>>
    BY <1>3 DEF L!Legacies
  <2>2. d.legacy \in 1..n
    BY <1>1, <1>3
  <2> QED
    BY <1>1, <2>1, <2>2
<1> QED
  BY <1>2, <1>3

LEMMA TailRanges ==
  ASSUME NEW s \in Seq(Nat), s # <<>>, NEW n \in Nat, \A i \in DOMAIN s : s[i] \in 1..n
  PROVE  /\ Head(s) \in 1..n
         /\ Tail(s) \in Seq(Nat)
         /\ \A i \in DOMAIN Tail(s) : Tail(s)[i] \in 1..n
         /\ Len(s) # 1 => Tail(s) # <<>>
<1>1. /\ Len(s) \in Nat /\ Len(s) # 0 /\ DOMAIN s = 1..Len(s) /\ Head(s) = s[1]
      /\ Tail(s) \in Seq(Nat) /\ Len(Tail(s)) = Len(s) - 1
      /\ \A i \in 1..Len(Tail(s)) : Tail(s)[i] = s[i + 1]
  BY HeadTailProperties, LenProperties, EmptySeq
<1>2. DOMAIN Tail(s) = 1..Len(Tail(s))
  BY <1>1, LenProperties
<1>3. \A i \in DOMAIN Tail(s) : i + 1 \in DOMAIN s /\ Tail(s)[i] = s[i + 1]
  BY <1>1, <1>2
<1>4. 1 \in DOMAIN s
  BY <1>1
<1>5. Len(s) # 1 => Len(Tail(s)) # 0
  BY <1>1
<1>6. Len(<<>>) = 0
  BY EmptySeq
<1> QED
  BY <1>1, <1>3, <1>4, <1>5, <1>6

LEMMA MigrationTyped ==
  ASSUME AccountsAssumption, TypeInv, NEW h \in Handlers,
         L!ListStep(h) \/ L!MigrationFails(h), at[h] \notin ListSync,
         UNCHANGED <<links, calendars, canvas, canvasDoc>>
  PROVE  ListOK' /\ HandlersOK'
<1> DEFINE j == job[h]
           n == Len(list)
<1>0. /\ GoogleOK' /\ CanvasOK' /\ n \in Nat
      /\ Len(calendar) <= Len(calendar') /\ Len(canvas) <= Len(canvas')
      /\ UNCHANGED <<url, identity, reverse>>
  BY SameCalendars, SameCanvases, Lengths DEF TypeInv, links, calendars
<1>1. JobOK(at[h], j) /\ j \in Job /\ ListOK
  BY DEF TypeInv, HandlersOK
<1>2. Len(list') >= n /\ ListOK' => Grows
  BY <1>0, LenProperties DEF Grows, ListOK
<1>3. /\ UNCHANGED <<list, listDoc, guard>> => ListOK' /\ Grows
      /\ UNCHANGED list /\ ListOK' => Grows
      /\ Len(list') = n /\ ListOK' => Grows
  <2>1. (UNCHANGED list => Len(list') >= n) /\ (Len(list') = n => Len(list') >= n)
    BY <1>0
  <2> QED
    BY <1>1, <1>2, <2>1, SameLists
\* The migration.
<1>4. at[h] \in Migrating => /\ j.user = None
                             /\ (j.key = None /\ j.then = "idle") \/ ForShared(j)
  BY <1>1 DEF JobOK, ListJob
<1>5. at[h] \in Migrating /\ j.then # "idle" => j.then = "release list" /\ ForShared(j)
  BY <1>4 DEF ForShared
<1>6. at[h] \in {"close legacy", "clear legacy", "mark legacy"} =>
        j.ids # <<>> /\ j.ids \in Seq(Nat) /\ \A i \in DOMAIN j.ids : j.ids[i] \in 1..n
  BY <1>1 DEF JobOK, ListJob, Job
<1>7. L!Doc(h) = j.doc
  BY DEF L!Doc
<1>8. ASSUME NEW p \in {"acquire channel", "read legacy", "release channel"}, at[h] \in Migrating
      PROVE  JobOK(p, j)
  BY <1>1, <1>4, <1>8, ZenonT(60) DEF JobOK, LinkJob, CalendarJob, CanvasJob, ListJob, ListSync
<1>9. ASSUME at[h] \in Migrating, L!Leave(h, j.then), UNCHANGED <<list, listDoc, guard>>
      PROVE  ListOK' /\ HandlersOK'
  <2>1. CASE j.then = "idle"
    <3>1. Go(h, "idle", NoJob)
      BY <1>9, <2>1, SameGoes
    <3> QED
      BY <1>0, <1>3, <1>9, <3>1, NoJobOK, GoesOn
  <2>2. CASE j.then # "idle"
    <3>1. Go(h, "release list", j) /\ ForShared(j)
      BY <1>5, <1>9, <2>2, SameGoes
    <3>2. JobOK("release list", j)
      BY <1>1, <3>1 DEF JobOK, LinkJob, CalendarJob, CanvasJob, ListJob, ListSync
    <3> QED
      BY <1>0, <1>3, <1>9, <3>1, <3>2, GoesOn
  <2> QED
    BY <2>1, <2>2
<1>10. ASSUME L!MigrationFails(h) PROVE ListOK' /\ HandlersOK'
  BY <1>9, <1>10 DEF L!MigrationFails, L!lists
<1>11. ASSUME L!AcquireChannel(h) PROVE ListOK' /\ HandlersOK'
  <2>1. /\ at[h] \in Migrating /\ UNCHANGED <<list, listDoc, guard>>
        /\ Go(h, "read legacy", j) \/ L!Leave(h, j.then)
    BY <1>11, SameGoes DEF L!AcquireChannel, L!lists
  <2>2. JobOK("read legacy", j)
    BY <1>8, <2>1
  <2> QED
    BY <1>0, <1>3, <1>9, <2>1, <2>2, GoesOn
<1>12. ASSUME L!ReadLegacy(h) PROVE ListOK' /\ HandlersOK'
  <2>1. at[h] = "read legacy" /\ at[h] \in Migrating /\ UNCHANGED <<list, listDoc, guard>>
    BY <1>12 DEF L!ReadLegacy
  <2>2. PICK d, s : d = listDoc[Channel] /\ s = IF d.id = 0 THEN <<>> ELSE L!Legacies(d)
    OBVIOUS
  <2>3. d \in ListState /\ d.id <= n /\ d.legacy <= n
    BY <1>1, <2>2 DEF ListOK, Keys
  <2>4. /\ s \in Seq(Nat) /\ \A i \in DOMAIN s : s[i] \in 1..n
        /\ d.id # 0 => s # <<>>
    <3>1. CASE d.id = 0
      BY <2>2, <3>1, EmptySeq
    <3>2. CASE d.id # 0
      BY <1>0, <2>2, <2>3, <3>2, LegaciesFields
    <3> QED
      BY <3>1, <3>2
  <2>5. PICK k : k = [j EXCEPT !.doc = d, !.ids = s]
    OBVIOUS
  <2>6. /\ k \in Job /\ k.user = j.user /\ k.key = j.key /\ k.then = j.then /\ k.doc = d
        /\ k.ids = s
    BY <1>1, <2>3, <2>4, <2>5 DEF Job
  <2>7. Go(h, "set guard", k) \/ (d.id # 0 /\ Go(h, "close legacy", k))
    BY <1>12, <2>2, <2>5, SameGoes DEF L!ReadLegacy
  <2>8. k.user = None /\ ((k.key = None /\ k.then = "idle") \/ ForShared(k))
    BY <1>4, <2>1, <2>6 DEF ForShared
  <2>9. JobOK("set guard", k) /\ (d.id # 0 => JobOK("close legacy", k))
    BY <2>3, <2>4, <2>6, <2>8 DEF JobOK, LinkJob, CalendarJob, CanvasJob, ListJob, ListSync
  <2> QED
    BY <1>0, <1>3, <2>1, <2>7, <2>9, GoesOn
<1>13. ASSUME L!CloseLegacy(h) \/ L!ClearLegacy(h) PROVE ListOK' /\ HandlersOK'
  <2>1. /\ at[h] \in {"close legacy", "clear legacy"} /\ at[h] \in Migrating
        /\ UNCHANGED <<listDoc, guard>>
        /\ \/ list' = [list EXCEPT ![Head(j.ids)].readers = @ \ {Channel}]
           \/ list' = [list EXCEPT ![Head(j.ids)].rows = {}]
        /\ Go(h, "clear legacy", j) \/ Go(h, "mark legacy", j)
    BY <1>13, SameGoes DEF L!CloseLegacy, L!ClearLegacy
  <2>2. PICK i \in 1..n : i = Head(j.ids)
    <3>1. PICK s : s = j.ids
      OBVIOUS
    <3>2. s # <<>> /\ s \in Seq(Nat) /\ \A i \in DOMAIN s : s[i] \in 1..n
      BY <1>6, <2>1, <3>1
    <3> QED
      BY <1>0, <3>1, <3>2, TailRanges
  <2>3. ListOK' /\ Len(list') = n
    <3>1. /\ list[i].readers \ {Channel} \in SUBSET (Users \cup {Channel})
          /\ {} \in SUBSET (Accounts \cup {All, Shared})
      BY <1>1, ListAt
    <3>2. \/ list' = [list EXCEPT ![i].readers = list[i].readers \ {Channel}]
          \/ list' = [list EXCEPT ![i].rows = {}]
      BY <2>1, <2>2
    <3> QED
      BY <1>1, <2>1, <3>1, <3>2, ListFieldChanged
  <2>4. JobOK("clear legacy", j) /\ JobOK("mark legacy", j)
    BY <1>1, <1>4, <2>1 DEF JobOK, LinkJob, CalendarJob, CanvasJob, ListJob, ListSync
  <2> QED
    BY <1>0, <1>3, <2>1, <2>3, <2>4, GoesOn
<1>14. ASSUME L!MarkLegacy(h) PROVE ListOK' /\ HandlersOK'
  <2>1. /\ at[h] = "mark legacy" /\ at[h] \in Migrating /\ UNCHANGED <<listDoc, guard>>
    BY <1>14 DEF L!MarkLegacy
  <2>2. PICK s, t : s = j.ids /\ t = Tail(s)
    OBVIOUS
  <2>3. s # <<>> /\ s \in Seq(Nat) /\ \A i \in DOMAIN s : s[i] \in 1..n
    BY <1>6, <2>1, <2>2
  <2>4. /\ Head(s) \in 1..n /\ t \in Seq(Nat) /\ \A i \in DOMAIN t : t[i] \in 1..n
        /\ Len(s) # 1 => t # <<>>
    BY <1>0, <2>2, <2>3, TailRanges
  <2>5. ListOK' /\ Len(list') = n
    <3>1. list' = [list EXCEPT ![Head(s)].renamed = TRUE]
      BY <1>14, <2>2 DEF L!MarkLegacy
    <3> QED
      BY <1>1, <2>1, <2>4, <3>1, ListFieldChanged
  <2>6. PICK k : k = [j EXCEPT !.ids = t]
    OBVIOUS
  <2>7. Go(h, "set guard", k) \/ (Len(s) # 1 /\ Go(h, "close legacy", k))
    BY <1>14, <2>2, <2>6, SameGoes DEF L!MarkLegacy
  <2>8. /\ k \in Job /\ k.user = j.user /\ k.key = j.key /\ k.then = j.then /\ k.doc = j.doc
        /\ k.ids = t
    BY <1>1, <2>4, <2>6 DEF Job
  <2>9. k.user = None /\ ((k.key = None /\ k.then = "idle") \/ ForShared(k))
    BY <1>4, <2>1, <2>8 DEF ForShared
  <2>10. j.doc \in ListState
    BY <1>1, <2>1 DEF JobOK, ListJob
  <2>11. JobOK("set guard", k) /\ (Len(s) # 1 => JobOK("close legacy", k))
    BY <2>4, <2>8, <2>9, <2>10 DEF JobOK, LinkJob, CalendarJob, CanvasJob, ListJob, ListSync
  <2> QED
    BY <1>0, <1>3, <2>5, <2>7, <2>11, GoesOn
<1>15. ASSUME L!SetGuard(h) PROVE ListOK' /\ HandlersOK'
  <2>1. /\ at[h] = "set guard" /\ at[h] \in Migrating /\ UNCHANGED <<list, listDoc>>
        /\ guard' = TRUE
        /\ Go(h, "release channel", j) \/ Go(h, "forget legacy", j)
    BY <1>15, SameGoes DEF L!SetGuard
  <2>2. ListOK'
    BY <1>1, <2>1 DEF ListOK
  <2>3. JobOK("forget legacy", j) /\ JobOK("release channel", j)
    BY <1>1, <1>4, <2>1, ZenonT(60) DEF JobOK, LinkJob, CalendarJob, CanvasJob, ListJob, ListSync
  <2> QED
    BY <1>0, <1>3, <2>1, <2>2, <2>3, GoesOn
<1>16. ASSUME L!ForgetLegacy(h) PROVE ListOK' /\ HandlersOK'
  <2>1. /\ at[h] \in Migrating /\ UNCHANGED <<list, guard>>
        /\ L!StoreList(Channel, L!NoList) /\ Go(h, "release channel", j)
    BY <1>16, SameGoes DEF L!ForgetLegacy
  <2>2. ListOK'
    <3>1. L!NoList.id <= Len(list) /\ L!NoList.legacy <= Len(list)
      BY <1>0, NoListFields
    <3> QED
      BY <1>1, <2>1, <3>1, NoListFields, ListStored
  <2> QED
    BY <1>0, <1>3, <1>8, <2>1, <2>2, GoesOn
<1>17. ASSUME L!ReleaseChannel(h) PROVE ListOK' /\ HandlersOK'
  <2>1. at[h] = "release channel" /\ at[h] \in Migrating /\ UNCHANGED <<list, listDoc, guard>>
    BY <1>17 DEF L!ReleaseChannel, L!lists
  <2>2. PICK k : k = [j EXCEPT !.doc = None]
    OBVIOUS
  <2>3. Go(h, "idle", NoJob) \/ (j.key = Shared /\ Go(h, "read list", k))
    BY <1>17, <2>2, SameGoes DEF L!ReleaseChannel
  <2>4. k \in Job /\ k.user = j.user /\ k.key = j.key /\ k.then = j.then
    BY <1>1, <2>2 DEF Job
  <2>5. j.key = Shared => ForShared(k)
    BY <1>4, <2>1, <2>4 DEF ForShared, AccountsAssumption, Keys
  <2>6. j.key = Shared => JobOK("read list", k)
    BY <2>4, <2>5 DEF JobOK, LinkJob, CalendarJob, CanvasJob, ListJob, ListSync
  <2> QED
    BY <1>0, <1>3, <2>1, <2>3, <2>6, NoJobOK, GoesOn
\* The revocation of a List.
<1>18. ASSUME L!FindList(h) PROVE ListOK' /\ HandlersOK'
  <2>1. /\ at[h] = "revoke list" /\ UNCHANGED <<list, listDoc, guard>> /\ j.user \in Users
        /\ j.then \in {"idle", "save", "unlink"}
    BY <1>1, <1>18 DEF L!FindList, JobOK, LinkJob
  <2>2. PICK d : d = listDoc[j.user]
    OBVIOUS
  <2>3. d \in ListState /\ d.id <= n /\ d.legacy <= n
    BY <1>1, <2>1, <2>2 DEF ListOK, Keys
  <2>4. PICK k : k = [j EXCEPT !.doc = d]
    OBVIOUS
  <2>5. \/ Go(h, "idle", NoJob)
        \/ j.then # "idle" /\ Go(h, j.then, j)
        \/ d.id # 0 /\ Go(h, "close list", k)
    BY <1>18, <2>2, <2>4, SameGoes DEF L!FindList
  <2>6. /\ k \in Job /\ k.user = j.user /\ k.login = j.login /\ k.previous = j.previous
        /\ k.then = j.then /\ k.doc = d
    BY <1>1, <2>3, <2>4 DEF Job
  <2>7. j.then # "idle" => JobOK(j.then, j)
    BY <1>1, <2>1 DEF JobOK, LinkJob, CalendarJob, CanvasJob, ListJob, ListSync
  <2>8. d.id # 0 => JobOK("close list", k)
    BY <1>1, <2>1, <2>3, <2>6 DEF JobOK, LinkJob, CalendarJob, CanvasJob, ListJob, ListSync
  <2> QED
    BY <1>0, <1>3, <2>1, <2>5, <2>7, <2>8, NoJobOK, GoesOn
<1>19. ASSUME L!CloseList(h) PROVE ListOK' /\ HandlersOK'
  <2>1. /\ at[h] = "close list" /\ UNCHANGED <<listDoc, guard>>
        /\ list' = [list EXCEPT ![j.doc.id].readers = @ \ {j.user}]
        /\ Go(h, "forget list", j)
    BY <1>7, <1>19, SameGoes DEF L!CloseList
  <2>2. PICK i \in 1..n : i = j.doc.id
    <3>1. j.doc \in ListState /\ j.doc.id <= n /\ j.doc.id # 0
      BY <1>1, <2>1 DEF JobOK, ListJob
    <3>2. PICK i : i = j.doc.id
      OBVIOUS
    <3>3. i \in Nat /\ i <= n /\ i # 0
      BY <3>1, <3>2, ListFields
    <3> QED
      BY <1>0, <3>2, <3>3
  <2>3. ListOK' /\ Len(list') = n
    <3>1. list[i].readers \ {j.user} \in SUBSET (Users \cup {Channel})
      BY <1>1, ListAt
    <3>2. list' = [list EXCEPT ![i].readers = list[i].readers \ {j.user}]
      BY <2>1, <2>2
    <3> QED
      BY <1>1, <2>1, <3>1, <3>2, ListFieldChanged
  <2>4. JobOK("forget list", j)
    BY <1>1, <2>1 DEF JobOK, LinkJob, CalendarJob, CanvasJob, ListJob, ListSync
  <2> QED
    BY <1>0, <1>3, <2>1, <2>3, <2>4, GoesOn
<1>20. ASSUME L!ForgetList(h) PROVE ListOK' /\ HandlersOK'
  <2>1. /\ at[h] = "forget list" /\ UNCHANGED <<list, guard>>
        /\ L!StoreList(j.user, L!NoList) /\ j.then \in {"idle", "save", "unlink"}
    BY <1>1, <1>20 DEF L!ForgetList, JobOK, LinkJob
  <2>2. PICK k : k = [j EXCEPT !.doc = None]
    OBVIOUS
  <2>3. Go(h, "idle", NoJob) \/ (j.then # "idle" /\ Go(h, j.then, k))
    BY <1>20, <2>2, SameGoes DEF L!ForgetList
  <2>4. ListOK'
    <3>1. L!NoList.id <= Len(list) /\ L!NoList.legacy <= Len(list)
      BY <1>0, NoListFields
    <3> QED
      BY <1>1, <2>1, <3>1, NoListFields, ListStored
  <2>5. /\ k \in Job /\ k.user = j.user /\ k.login = j.login /\ k.previous = j.previous
        /\ k.then = j.then
    BY <1>1, <2>2 DEF Job
  <2>6. j.then # "idle" => JobOK(j.then, k)
    BY <1>1, <2>1, <2>5 DEF JobOK, LinkJob, CalendarJob, CanvasJob, ListJob, ListSync
  <2> QED
    BY <1>0, <1>3, <2>1, <2>3, <2>4, <2>6, NoJobOK, GoesOn
<1>21. at[h] \in ListSync => FALSE
  OBVIOUS
<1>22. \/ L!MigrationFails(h) \/ L!AcquireChannel(h) \/ L!ReadLegacy(h) \/ L!CloseLegacy(h)
       \/ L!ClearLegacy(h) \/ L!MarkLegacy(h) \/ L!SetGuard(h) \/ L!ForgetLegacy(h)
       \/ L!ReleaseChannel(h) \/ L!FindList(h) \/ L!CloseList(h) \/ L!ForgetList(h)
  BY <1>21 DEF L!ListStep, ListSync, L!AcquireList, L!CheckGuard, L!ReadList, L!CreateList,
       L!NoteList, L!ShareList, L!RecordList, L!ShareWithRequester, L!RenameLegacy,
       L!DropLegacy, L!AddRows, L!DeleteRows, L!ReleaseList
<1> QED
  BY <1>10, <1>11, <1>12, <1>13, <1>14, <1>15, <1>16, <1>17, <1>18, <1>19, <1>20, <1>22

-----------------------------------------------------------------------------
(* The types: leases, commands, and what goes wrong. *)

\* What a handler does to the leases.
LeaseMove(h) ==
  \/ UNCHANGED lease
  \/ \E l : lease[l] = None /\ lease' = [lease EXCEPT ![l] = h]
  \/ \E l : lease' = [lease EXCEPT ![l] = IF lease[l] = h THEN None ELSE lease[l]]
  \/ lease' = [l \in Leases |-> IF lease[l] = h THEN Dead ELSE lease[l]]

LEMMA CanvasLeases ==
  ASSUME NEW h, C!CanvasStep(h)
  PROVE  LeaseMove(h)
<1>1. CASE C!AcquireCanvas(h)
  BY <1>1 DEF C!AcquireCanvas, C!Acquired, LeaseMove
<1>2. CASE C!ReleaseCanvas(h)
  BY <1>2 DEF C!ReleaseCanvas, C!Released, LeaseMove
<1>3. CASE ~C!AcquireCanvas(h) /\ ~C!ReleaseCanvas(h)
  BY <1>3 DEF C!CanvasStep, LeaseMove, C!ReadCanvas, C!CreateCanvas, C!NoteCanvas, C!EditCanvas,
     C!ShareCanvas, C!RecordCanvas, C!FindCanvas, C!CloseCanvas, C!ForgetCanvas
<1> QED
  BY <1>1, <1>2, <1>3

LEMMA ListLeases ==
  ASSUME NEW h, L!ListStep(h) \/ L!MigrationFails(h)
  PROVE  LeaseMove(h)
<1>1. CASE L!AcquireList(h)
  BY <1>1 DEF L!AcquireList, L!Acquired, LeaseMove
<1>2. CASE L!ReleaseList(h)
  BY <1>2 DEF L!ReleaseList, L!Released, LeaseMove
<1>3. CASE L!AcquireChannel(h)
  BY <1>3 DEF L!AcquireChannel, L!Acquired, LeaseMove
<1>4. CASE L!ReleaseChannel(h)
  BY <1>4 DEF L!ReleaseChannel, L!Released, LeaseMove
<1>5. CASE L!MigrationFails(h)
  BY <1>5 DEF L!MigrationFails, L!Released, LeaseMove
<1>6. CASE ~L!AcquireList(h) /\ ~L!ReleaseList(h) /\ ~L!AcquireChannel(h) /\ ~L!ReleaseChannel(h)
           /\ ~L!MigrationFails(h)
  BY <1>6 DEF L!ListStep, LeaseMove, L!CheckGuard, L!ReadList, L!CreateList, L!NoteList,
     L!ShareList, L!RecordList, L!ShareWithRequester, L!RenameLegacy, L!DropLegacy, L!AddRows,
     L!DeleteRows, L!ReadLegacy, L!CloseLegacy, L!ClearLegacy, L!MarkLegacy, L!SetGuard,
     L!ForgetLegacy, L!FindList, L!CloseList, L!ForgetList
<1> QED
  BY <1>1, <1>2, <1>3, <1>4, <1>5, <1>6

LEMMA LeaseMoveTyped ==
  ASSUME TypeInv, NEW h \in Handlers, LeaseMove(h)
  PROVE  lease' \in [Leases -> Handlers \cup {None, Dead}]
<1> HIDE DEF Places, LinkPlaces, CalendarPlaces, Revoking, CanvasSync, Migrating
<1>1. lease \in [Leases -> Handlers \cup {None, Dead}]
  BY DEF TypeInv, SceneOK
<1> QED
  BY <1>1 DEF LeaseMove

\* Handlers that begin.
LEMMA WorkFields ==
  ASSUME NEW u \in Users
  PROVE  LET j == Work(u)
         IN  /\ j \in Job /\ j.user = u /\ j.key = None /\ j.url = None /\ j.login = None
             /\ j.goal = None /\ j.then = "idle" /\ j.doc = None /\ j.ids = <<>>
             /\ j.previous = None
  BY EmptySeq DEF Work, NoJob, Job

LEMMA ProjectTyped ==
  ASSUME NEW u \in Users, NEW what \in {"acquire canvas", "acquire list"},
         NEW then \in {"idle", "scheduled"}
  PROVE  JobOK("resolve", [Work(u) EXCEPT !.key = u, !.goal = what, !.then = then])
<1>1. PICK w : w = Work(u)
  OBVIOUS
<1>2. PICK j : j = [w EXCEPT !.key = u, !.goal = what, !.then = then]
  OBVIOUS
<1>3. j \in Job /\ j.user = u /\ j.key = u /\ j.goal = what /\ j.then = then
  <2>1. w \in Job /\ w.user = u /\ u \in Keys
    BY <1>1, WorkFields DEF Keys
  <2>2. PICK k : k = [w EXCEPT !.key = u]
    OBVIOUS
  <2>3. k \in Job /\ k.user = u /\ k.key = u
    BY <2>1, <2>2 DEF Job
  <2>4. PICK g : g = [k EXCEPT !.goal = what]
    OBVIOUS
  <2>5. g \in Job /\ g.user = u /\ g.key = u /\ g.goal = what
    BY <2>3, <2>4 DEF Job
  <2>6. j = [g EXCEPT !.then = then]
    BY <1>2, <2>2, <2>4
  <2> QED
    BY <2>5, <2>6 DEF Job
<1>4. JobOK("resolve", j)
  BY <1>3 DEF JobOK, LinkJob, CalendarJob, CanvasJob, ListJob, ListSync
<1> QED
  BY <1>1, <1>2, <1>4

\* The places a command brings a handler to, with the user in hand.
LEMMA BeginTyped ==
  ASSUME NEW u \in Users
  PROVE  /\ JobOK("unlink google", Work(u)) /\ JobOK("calendar", Work(u))
         /\ JobOK("revoke", [Work(u) EXCEPT !.then = "idle"])
         /\ JobOK("revoke", [Work(u) EXCEPT !.then = "unlink"])
         /\ JobOK("acquire list", [Work(u) EXCEPT !.key = Channel])
<1>1. PICK w : w = Work(u)
  OBVIOUS
<1>2. /\ w \in Job /\ w.user = u /\ w.then = "idle"
  BY <1>1, WorkFields
<1>3. JobOK("unlink google", w) /\ JobOK("calendar", w)
  BY <1>2 DEF JobOK, LinkJob, CalendarJob, CanvasJob, ListJob, ListSync
<1>4. ASSUME NEW then \in {"idle", "unlink"} PROVE JobOK("revoke", [w EXCEPT !.then = then])
  <2>1. PICK j : j = [w EXCEPT !.then = then]
    OBVIOUS
  <2>2. j \in Job /\ j.user = u /\ j.then = then
    BY <1>2, <2>1 DEF Job
  <2>3. JobOK("revoke", j)
    BY <2>2 DEF JobOK, LinkJob, CalendarJob, CanvasJob, ListJob, ListSync
  <2> QED
    BY <2>1, <2>3
<1>5. JobOK("acquire list", [w EXCEPT !.key = Channel])
  <2>1. PICK j : j = [w EXCEPT !.key = Channel]
    OBVIOUS
  <2>2. j \in Job /\ j.user = u /\ j.key = Channel
    BY <1>2, <2>1 DEF Job, Keys
  <2>3. JobOK("acquire list", j)
    BY <2>2 DEF JobOK, LinkJob, CalendarJob, CanvasJob, ListJob, ListSync, ForChannel
  <2> QED
    BY <2>1, <2>3
<1> QED
  BY <1>1, <1>3, <1>4, <1>5

LEMMA ChannelTyped ==
  /\ JobOK("acquire list", [NoJob EXCEPT !.key = Shared, !.then = "release list"])
  /\ JobOK("acquire channel", NoJob)
<1>1. PICK j : j = [NoJob EXCEPT !.key = Shared, !.then = "release list"]
  OBVIOUS
<1>2. j \in Job /\ j.user = None /\ j.key = Shared /\ j.then = "release list"
  BY <1>1, EmptySeq DEF NoJob, Job, Keys
<1>3. JobOK("acquire list", j)
  BY <1>2 DEF JobOK, LinkJob, CalendarJob, CanvasJob, ListJob, ListSync, ForShared
<1>4. NoJob \in Job /\ NoJob.user = None /\ NoJob.key = None /\ NoJob.then = "idle"
  BY EmptySeq DEF NoJob, Job
<1>5. JobOK("acquire channel", NoJob)
  <2>1. PICK k : k = NoJob
    OBVIOUS
  <2>2. JobOK("acquire channel", k)
    BY <1>4, <2>1 DEF JobOK, LinkJob, CalendarJob, CanvasJob, ListJob, ListSync
  <2> QED
    BY <2>1, <2>2
<1> QED
  BY <1>1, <1>3, <1>5

\* A handler goes on with something good, and nothing else that is typed changes.
Begins(h) == \E p : \E j : Go(h, p, j) /\ JobOK(p, j)

LEMMA BeginsTyped ==
  ASSUME TypeInv, NEW h \in Handlers, Begins(h), UNCHANGED <<url, calendars, views>>
  PROVE  HandlersOK'
<1>1. /\ GoogleOK' /\ CanvasOK' /\ ListOK'
      /\ UNCHANGED <<canvas, list, calendar, url>>
  BY SameCanvases, SameLists, SameCalendars DEF TypeInv, views, calendars
<1>2. Grows
  <2>1. Len(canvas) \in Nat /\ Len(list) \in Nat /\ Len(calendar) \in Nat
    BY Lengths
  <2> QED
    BY <1>1, <2>1 DEF Grows
<1> QED
  BY <1>1, <1>2, GoesOn DEF Begins

-----------------------------------------------------------------------------
(* The types: every step. *)

LEMMA GiveTyped ==
  ASSUME AccountsAssumption, TypeInv, NEW h \in Handlers, NEW c \in Commands, NEW u \in Users,
         Give(h, c, u)
  PROVE  /\ LinksTyped' /\ GoogleOK' /\ CanvasOK' /\ ListOK' /\ HandlersOK'
         /\ left' \in [Commands -> [Users -> Nat]]
<1>1. /\ UNCHANGED <<calendars, identity, reverse, views>> /\ at[h] = "idle"
      /\ left' = [left EXCEPT ![c][u] = left[c][u] - 1] /\ left[c][u] > 0
  BY DEF Give, Use, Connect, Disconnect, links
<1>2. left' \in [Commands -> [Users -> Nat]]
  <2>1. left \in [Commands -> [Users -> Nat]]
    BY DEF TypeInv, SceneOK
  <2>2. PICK l, i : l = left[c] /\ i = l[u]
    OBVIOUS
  <2>3. l \in [Users -> Nat] /\ i \in Nat /\ i > 0
    BY <1>1, <2>1, <2>2
  <2>4. i - 1 \in Nat
    BY <2>3
  <2>5. left' = [left EXCEPT ![c] = [l EXCEPT ![u] = i - 1]]
    BY <1>1, <2>2
  <2>6. [l EXCEPT ![u] = i - 1] \in [Users -> Nat]
    BY <2>3, <2>4
  <2> QED
    BY <2>1, <2>5, <2>6
<1>3. GoogleOK' /\ CanvasOK' /\ ListOK'
  BY <1>1, SameCanvases, SameLists, SameCalendars DEF TypeInv, views
<1>4. UNCHANGED url => LinksTyped'
  BY <1>1 DEF TypeInv, LinksTyped, UrlsOK
<1>5. CASE \E service \in {"github", "google"} : Connect(h, u, service)
  <2>1. PICK service \in {"github", "google"} : Connect(h, u, service)
    BY <1>5
  <2>2. PICK n \in Urls :
          /\ url[n].status = "none"
          /\ url' = [url EXCEPT ![n] = [status |-> "pending", user |-> u, service |-> service]]
    BY <2>1 DEF Connect
  <2>3. UNCHANGED <<at, job>>
    BY <2>1 DEF Connect
  <2>4. PICK r : r = [status |-> "pending", user |-> u, service |-> service]
    OBVIOUS
  <2>5. r \in UrlState /\ r.status = "pending" /\ r.user = u /\ r.service = service
    BY <2>4 DEF UrlState
  <2>6. LinksTyped'
    BY <1>1, <2>2, <2>4, <2>5 DEF TypeInv, LinksTyped, UrlsOK
  <2>7. Grows
    <3>1. Len(canvas) \in Nat /\ Len(list) \in Nat /\ Len(calendar) \in Nat
      BY Lengths
    <3>2. Len(canvas') = Len(canvas) /\ Len(list') = Len(list) /\ Len(calendar') = Len(calendar)
      BY <1>1 DEF views, calendars
    <3>3. \A m \in Urls : url[m].status # "none" => url'[m] = url[m]
      BY <2>2 DEF TypeInv, UrlsOK
    <3> QED
      BY <3>1, <3>2, <3>3 DEF Grows
  <2> QED
    BY <1>2, <1>3, <2>3, <2>6, <2>7, Unmoved
<1>6. CASE ~\E service \in {"github", "google"} : Connect(h, u, service)
  <2>1. Begins(h) /\ UNCHANGED url
    <3>1. \/ Disconnect(h, u) \/ Go(h, "unlink google", Work(u)) \/ Go(h, "calendar", Work(u))
          \/ Project(h, u, "acquire canvas", "idle") \/ Project(h, u, "acquire list", "idle")
          \/ Go(h, "acquire list", [NoJob EXCEPT !.key = Shared, !.then = "release list"])
          \/ Go(h, "acquire list", [Work(u) EXCEPT !.key = Channel])
          \/ Go(h, "acquire channel", NoJob)
      BY <1>6 DEF Give
    <3>2. UNCHANGED url
      BY <1>6 DEF Give, Disconnect, links
    <3>3. Disconnect(h, u) => Begins(h)
      BY BeginTyped DEF Disconnect, Begins
    <3>4. ASSUME NEW w \in {"acquire canvas", "acquire list"}, Project(h, u, w, "idle")
          PROVE  Begins(h)
      BY <3>4, ProjectTyped DEF Project, Begins
    <3> QED
      BY <3>1, <3>2, <3>3, <3>4, BeginTyped, ChannelTyped DEF Begins
  <2> QED
    BY <1>1, <1>2, <1>3, <1>4, <2>1, BeginsTyped
<1> QED
  BY <1>5, <1>6

LEMMA CallbackTyped ==
  ASSUME AccountsAssumption, TypeInv, NEW h \in Handlers, NEW n \in Urls, Callback(h, n)
  PROVE  Begins(h)
<1>1. PICK u : u = url[n].user
  OBVIOUS
<1>2. url[n].status = "pending" /\ u \in Users
  BY <1>1 DEF Callback, TypeInv, UrlsOK
<1>3. PICK w : w = Work(u)
  OBVIOUS
<1>4. w \in Job /\ w.user = u /\ w.login = None
  BY <1>2, <1>3, WorkFields
<1>5. PICK j : j = [w EXCEPT !.url = n]
  OBVIOUS
<1>6. j \in Job /\ j.user = u /\ j.url = n /\ j.login = None
  BY <1>4, <1>5, ZenonT(60) DEF Job
<1>7. JobOK("consume", j)
  BY <1>1, <1>2, <1>6 DEF JobOK, LinkJob, CalendarJob, CanvasJob, ListJob, ListSync
<1> QED
  BY <1>1, <1>3, <1>5, <1>7 DEF Callback, Begins

LEMMA ResolveTyped ==
  ASSUME AccountsAssumption, TypeInv, NEW h \in Handlers, Resolve(h) \/ Load(h)
  PROVE  Begins(h)
<1> DEFINE j == job[h]
<1>1. JobOK(at[h], j) /\ j \in Job /\ at[h] \in {"resolve", "load"}
  BY DEF TypeInv, HandlersOK, Resolve, Load
<1>2. /\ j.user \in Users /\ j.key = j.user /\ j.then \in {"idle", "scheduled"}
      /\ j.goal \in {"acquire canvas", "acquire list"}
      /\ at[h] = "load" => j.login \in Accounts
  BY <1>1 DEF JobOK, CanvasJob
<1>3. JobOK("revoke", [Work(j.user) EXCEPT !.then = "idle"])
  BY <1>2, BeginTyped
<1>4. CASE Resolve(h)
  <2>1. PICK a : a = identity[j.user]
    OBVIOUS
  <2>2. a \in Accounts \cup {None}
    BY <1>2, <2>1 DEF TypeInv
  <2>3. PICK k : k = [j EXCEPT !.login = a]
    OBVIOUS
  <2>4. \/ Go(h, "revoke", [Work(j.user) EXCEPT !.then = "idle"])
        \/ a \in Accounts /\ Go(h, "load", k)
    BY <1>4, <2>1, <2>2, <2>3 DEF Resolve
  <2>5. /\ k \in Job /\ k.user = j.user /\ k.key = j.key /\ k.login = a /\ k.then = j.then
        /\ k.goal = j.goal
    BY <1>1, <2>2, <2>3 DEF Job
  <2>6. a \in Accounts => JobOK("load", k)
    BY <1>2, <2>5 DEF JobOK, LinkJob, CalendarJob, CanvasJob, ListJob, ListSync
  <2> QED
    BY <1>3, <2>4, <2>6 DEF Begins
<1>5. CASE Load(h)
  <2>1. \/ Go(h, "revoke", [Work(j.user) EXCEPT !.then = "idle"])
        \/ Go(h, j.goal, j)
    BY <1>5 DEF Load, Goto
  <2>2. Personal(j)
    BY <1>2, <1>5 DEF Personal, Load
  <2>3. JobOK(j.goal, j)
    BY <1>1, <1>2, <2>2 DEF JobOK, LinkJob, CalendarJob, CanvasJob, ListJob, ListSync
  <2> QED
    BY <1>3, <2>1, <2>3 DEF Begins
<1> QED
  BY <1>4, <1>5

LEMMA ScheduleTyped ==
  ASSUME AccountsAssumption, TypeInv, NEW h \in Handlers, NEW u \in Users,
         ScheduleCanvas(h, u) \/ ScheduleCalendar(h, u)
  PROVE  Begins(h)
BY ProjectTyped, BeginTyped DEF ScheduleCanvas, ScheduleCalendar, Project, Begins

LEMMA FaultTyped ==
  ASSUME AccountsAssumption, TypeInv, NEW h \in Handlers, Fault(h)
  PROVE  /\ LinksTyped' /\ GoogleOK' /\ CanvasOK' /\ ListOK' /\ HandlersOK'
         /\ lease' \in [Leases -> Handlers \cup {None, Dead}]
         /\ mishaps < MaxMishaps /\ mishaps' = mishaps + 1
<1> DEFINE j == job[h]
<1>0. UNCHANGED <<links, calendars, views>> /\ mishaps < MaxMishaps /\ mishaps' = mishaps + 1
  BY DEF Fault, Fails, Die, C!CanvasFails, L!ListFails, L!MigrationFails, Mishap, C!Mishap,
         L!Mishap, views, L!lists
<1>1. LinksTyped' /\ GoogleOK' /\ CanvasOK' /\ ListOK'
  BY <1>0, SameCanvases, SameLists, SameCalendars
     DEF TypeInv, views, links, LinksTyped, UrlsOK
<1>2. JobOK(at[h], j) /\ j \in Job
  BY DEF TypeInv, HandlersOK
<1>3. UNCHANGED lease => LeaseMove(h)
  BY DEF LeaseMove
<1>4. CASE Fails(h) \/ Die(h)
  <2>1. Begins(h)
    BY <1>4, NoJobOK DEF Fails, Die, Rest, Begins
  <2>2. LeaseMove(h)
    BY <1>3, <1>4 DEF Fails, Die, Orphaned, LeaseMove
  <2> QED
    BY <1>0, <1>1, <2>1, <2>2, BeginsTyped, LeaseMoveTyped DEF links
<1>5. CASE C!CanvasFails(h)
  <2>1. /\ Go(h, "release canvas", j) /\ at[h] \in CanvasSync /\ UNCHANGED lease
    BY <1>5, SameGoes DEF C!CanvasFails
  <2>2. JobOK("release canvas", j)
    BY <1>2, <2>1 DEF JobOK, LinkJob, CalendarJob, CanvasJob, ListJob, ListSync
  <2> QED
    BY <1>0, <1>1, <1>3, <2>1, <2>2, BeginsTyped, LeaseMoveTyped DEF links, Begins
<1>6. CASE L!ListFails(h)
  <2>1. /\ Go(h, "release list", j) /\ at[h] \in ListSync /\ UNCHANGED lease
    BY <1>6, SameGoes DEF L!ListFails, ListSync
  <2>2. JobOK("release list", j)
    BY <1>2, <2>1, ZenonT(60) DEF JobOK, LinkJob, CalendarJob, CanvasJob, ListJob, ListSync
  <2> QED
    BY <1>0, <1>1, <1>3, <2>1, <2>2, BeginsTyped, LeaseMoveTyped DEF links, Begins
<1>7. CASE L!MigrationFails(h)
  <2>1. at[h] \notin ListSync
    BY <1>7 DEF L!MigrationFails, ListSync
  <2>2. HandlersOK'
    BY <1>0, <1>7, <2>1, MigrationTyped DEF views
  <2> QED
    BY <1>0, <1>1, <1>7, <2>2, ListLeases, LeaseMoveTyped
<1> QED
  BY <1>4, <1>5, <1>6, <1>7 DEF Fault

LEMMA StepTyped ==
  ASSUME AccountsAssumption, TypeInv, NEW h \in Handlers, Step(h)
  PROVE  /\ LinksTyped' /\ GoogleOK' /\ CanvasOK' /\ ListOK' /\ HandlersOK'
         /\ lease' \in [Leases -> Handlers \cup {None, Dead}]
         /\ UNCHANGED mishaps
<1>0. UNCHANGED mishaps
  BY DEF Step
<1>1. UNCHANGED lease => LeaseMove(h)
  BY DEF LeaseMove
<1>2. /\ UNCHANGED links => LinksTyped'
      /\ UNCHANGED calendars => GoogleOK'
      /\ UNCHANGED <<canvas, canvasDoc>> => CanvasOK'
      /\ UNCHANGED <<list, listDoc, guard>> => ListOK'
  BY SameCanvases, SameLists, SameCalendars DEF TypeInv, links, LinksTyped, UrlsOK
<1>3. CASE LinkStep(h) /\ UNCHANGED <<lease, calendars, views>>
  BY <1>0, <1>1, <1>2, <1>3, LinkStepTyped, LeaseMoveTyped DEF views
<1>4. CASE CalendarStep(h) /\ UNCHANGED <<lease, links, views>>
  BY <1>0, <1>1, <1>2, <1>4, CalendarStepTyped, LeaseMoveTyped DEF views
<1>5. CASE C!CanvasStep(h) /\ UNCHANGED <<links, calendars, list, listDoc, guard>>
  BY <1>0, <1>2, <1>5, CanvasStepTyped, CanvasLeases, LeaseMoveTyped
<1>6. CASE L!ListStep(h) /\ UNCHANGED <<links, calendars, canvas, canvasDoc>>
  BY <1>0, <1>2, <1>6, ListSyncTyped, MigrationTyped, ListLeases, LeaseMoveTyped
<1>7. CASE (Resolve(h) \/ Load(h)) /\ UNCHANGED <<lease, links, calendars, views>>
  BY <1>0, <1>1, <1>2, <1>7, ResolveTyped, BeginsTyped, LeaseMoveTyped DEF views, links
<1> QED
  BY <1>3, <1>4, <1>5, <1>6, <1>7 DEF Step

LEMMA RecordTyped ==
  ASSUME TypeInv, Record
  PROVE  crossed' \subseteq Users /\ overrun' \subseteq Leases
BY DEF TypeInv, SceneOK, Record, Crossing, Broken

LEMMA InitTyped ==
  ASSUME AccountsAssumption, Init
  PROVE  TypeInv
<1>1. PICK s \in Scenarios :
        /\ InitHandlers /\ InitLinks(s.linked) /\ InitCalendars(s.calendar)
        /\ C!InitCanvases /\ L!InitLists(s.list) /\ left = s.left
        /\ blind = {} /\ crossed = {} /\ overrun = {}
  BY DEF Init
<1>2. PICK linked, owner, which : linked = s.linked /\ owner = s.calendar /\ which = s.list
  OBVIOUS
<1>3. /\ linked \in [Users -> Accounts \cup {None}] /\ owner \in Users \cup {None}
      /\ s.left \in [Commands -> [Users -> Nat]]
      /\ which \in {"none", "older", "current"} /\ MaxMishaps \in Nat
  BY <1>1, <1>2 DEF AccountsAssumption
<1>4. UrlsOK /\ identity \in [Users -> Accounts \cup {None}]
      /\ reverse \in [Accounts -> Users \cup {None}]
  <2>1. InitLinks(linked)
    BY <1>1, <1>2
  <2>2. url = [n \in Urls |-> NoUrl] /\ identity = linked
    BY <2>1 DEF InitLinks
  <2>3. NoUrl \in UrlState /\ NoUrl.status = "none"
    BY DEF NoUrl, UrlState
  <2>4. UrlsOK
    BY <2>2, <2>3 DEF UrlsOK
  <2>5. ASSUME NEW a \in Accounts
        PROVE  reverse[a] \in Users \cup {None}
    BY <2>1 DEF InitLinks
  <2>6. reverse = [a \in Accounts |-> reverse[a]]
    BY <2>1 DEF InitLinks
  <2> QED
    BY <1>3, <2>2, <2>4, <2>5, <2>6
<1>5. GoogleOK
  <2>1. InitCalendars(owner) /\ identity = linked
    BY <1>1, <1>2 DEF InitLinks
  <2>2. PICK subject \in Subjects : subject = CHOOSE x \in Subjects : TRUE
    BY DEF AccountsAssumption
  <2>3. /\ google = [u \in Users |-> IF u = owner THEN [subject |-> subject, calendar |-> 1]
                                               ELSE NoGoogle]
        /\ googleReverse = [x \in Subjects |-> IF x = subject THEN owner ELSE None]
        /\ calendar = IF owner = None THEN <<>>
                      ELSE <<[owner |-> owner, events |-> {identity[owner]} \ {None}]>>
        /\ made = [u \in Users |-> IF u = owner THEN 1 ELSE 0]
    BY <2>1, <2>2 DEF InitCalendars
  <2>4. made \in [Users -> Nat] /\ googleReverse \in [Subjects -> Users \cup {None}]
    BY <1>3, <2>3
  <2>5. [subject |-> subject, calendar |-> 1] \in GoogleState /\ NoGoogle \in GoogleState
    BY DEF GoogleState, GoogleLink
  <2>6. google \in [Users -> GoogleState]
    BY <2>3, <2>5
  <2>7. calendar \in Seq(Calendar) /\ Len(calendar) = IF owner = None THEN 0 ELSE 1
    <3>1. CASE owner = None
      BY <2>3, <3>1, EmptySeq
    <3>2. CASE owner # None
      <4>1. [owner |-> owner, events |-> {identity[owner]} \ {None}] \in Calendar
        BY <1>3, <2>1, <3>2 DEF Calendar
      <4> QED
        BY <2>3, <3>2, <4>1
    <3> QED
      BY <3>1, <3>2
  <2>8. ASSUME NEW u \in Users PROVE google[u].calendar <= Len(calendar)
    <3>1. CASE u = owner
      <4>1. owner # None
        BY <3>1 DEF AccountsAssumption, Keys
      <4>2. google[u].calendar = 1
        BY <2>3, <3>1
      <4> QED
        BY <2>7, <4>1, <4>2
    <3>2. CASE u # owner
      BY <2>3, <2>7, <3>2, NoGoogleFields
    <3> QED
      BY <3>1, <3>2
  <2> QED
    BY <2>4, <2>6, <2>7, <2>8 DEF GoogleOK
<1>6. CanvasOK
  <2>1. canvas = <<>> /\ canvasDoc = [u \in Users |-> C!NoCanvas]
    BY <1>1 DEF C!InitCanvases
  <2>2. C!NoCanvas \in CanvasState /\ C!NoCanvas.id = 0
    BY DEF C!NoCanvas, CanvasState
  <2>3. canvas \in Seq(Canvas) /\ Len(canvas) = 0
    BY <2>1, EmptySeq
  <2> QED
    BY <2>1, <2>2, <2>3 DEF CanvasOK
<1>7. ListOK
  <2>1. L!InitLists(which)
    BY <1>1, <1>2
  <2>2. PICK c, d : /\ c = [L!NewList(Channel) EXCEPT !.readers = {Channel}, !.rows = {All}]
                    /\ d = [L!NoList EXCEPT !.id = 1, !.current = (which = "current")]
    OBVIOUS
  <2>3. c \in List
    BY <2>2 DEF L!NewList, List, Keys
  <2>4. d \in ListState /\ d.id = 1 /\ d.legacy = 0
    <3>1. PICK b, e : b = (which = "current") /\ b \in BOOLEAN /\ e = L!NoList
      OBVIOUS
    <3>2. e \in ListState /\ e.legacy = 0
      BY <3>1, NoListFields
    <3>3. d = [e EXCEPT !.id = 1, !.current = b]
      BY <2>2, <3>1
    <3> QED
      BY <3>1, <3>2, <3>3 DEF ListState
  <2>5. /\ list = IF which = "none" THEN <<>> ELSE <<c>>
        /\ guard = FALSE
        /\ listDoc = [k \in Keys |-> IF k = Channel /\ which # "none" THEN d ELSE L!NoList]
    <3>1. guard = FALSE /\ list = IF which = "none" THEN <<>> ELSE <<c>>
      BY <2>1, <2>2 DEF L!InitLists
    <3>2. PICK e : e = [L!NoList EXCEPT !.id = 1, !.current = which = "current"]
      OBVIOUS
    <3>3. e = d
      BY <2>2, <3>2
    <3>4. listDoc = [k \in Keys |-> IF k = Channel /\ which # "none" THEN e ELSE L!NoList]
      BY <2>1, <3>2 DEF L!InitLists, L!Keys, Keys
    <3> QED
      BY <3>1, <3>3, <3>4
  <2>6. list \in Seq(List) /\ Len(list) = IF which = "none" THEN 0 ELSE 1
    BY <2>3, <2>5, EmptySeq
  <2>7. listDoc \in [Keys -> ListState]
    BY <2>4, <2>5, NoListFields
  <2>8. ASSUME NEW k \in Keys
        PROVE  /\ listDoc[k].id <= Len(list) /\ listDoc[k].legacy <= Len(list)
               /\ listDoc[k].current => listDoc[k].id # 0
    <3>1. CASE listDoc[k] = d /\ which # "none"
      BY <2>4, <2>6, <3>1
    <3>2. CASE listDoc[k] = L!NoList
      BY <2>6, <3>2, NoListFields
    <3> QED
      BY <2>5, <3>1, <3>2
  <2> QED
    BY <2>5, <2>6, <2>7, <2>8 DEF ListOK
<1>8. HandlersOK
  <2>1. at = [h \in Handlers |-> "idle"] /\ job = [h \in Handlers |-> NoJob]
    BY <1>1 DEF InitHandlers
  <2>2. NoJob \in Job
    BY NoJobOK DEF JobOK
  <2> QED
    BY <2>1, <2>2, NoJobOK DEF HandlersOK
<1>9. SceneOK
  BY <1>1, <1>3 DEF SceneOK, InitHandlers
<1> QED
  BY <1>4, <1>5, <1>6, <1>7, <1>8, <1>9 DEF TypeInv

LEMMA NextTyped ==
  ASSUME AccountsAssumption, TypeInv, [Next]_vars
  PROVE  TypeInv'
<1> DEFINE Data == LinksTyped /\ GoogleOK /\ CanvasOK /\ ListOK /\ HandlersOK
<1>0. TypeInv <=> Data /\ SceneOK
  BY DEF TypeInv, LinksTyped
<1>00. (TypeInv <=> Data /\ SceneOK)'
  BY DEF TypeInv, LinksTyped
<1>1. UNCHANGED <<links, calendars, views>> => LinksTyped' /\ GoogleOK' /\ CanvasOK' /\ ListOK'
  BY <1>0, SameCanvases, SameLists, SameCalendars DEF LinksTyped, UrlsOK, links, views
<1>2. UNCHANGED <<links, calendars, views, at, job>> => Data'
  <2> SUFFICES ASSUME UNCHANGED <<links, calendars, views, at, job>> PROVE HandlersOK'
    BY <1>1
  <2>1. UNCHANGED <<canvas, list, calendar, url>> /\ GoogleOK' /\ CanvasOK' /\ ListOK'
    BY <1>1 DEF links, views, calendars
  <2>2. Grows
    BY <2>1, Lengths DEF Grows
  <2> QED
    BY <2>1, <2>2, Unmoved
<1>3. SceneOK /\ MaxMishaps \in Nat
  BY DEF TypeInv, AccountsAssumption
<1>4. ASSUME NEW h \in Handlers, Order(h) PROVE TypeInv'
  <2>1. PICK u \in Users, c \in Commands : Give(h, c, u)
    BY <1>4 DEF Order
  <2>2. UNCHANGED <<lease, mishaps, blind>>
    BY <1>4, <2>1 DEF Order, Give
  <2>3. Data' /\ left' \in [Commands -> [Users -> Nat]]
    BY <2>1, GiveTyped
  <2>4. crossed' \subseteq Users /\ overrun' \subseteq Leases
    BY <1>4, RecordTyped DEF Order
  <2> QED
    BY <1>00, <1>3, <2>2, <2>3, <2>4 DEF SceneOK
<1>5. ASSUME NEW h \in Handlers, Open(h) PROVE TypeInv'
  <2>1. PICK n \in Urls : Callback(h, n)
    BY <1>5 DEF Open
  <2>2. UNCHANGED <<links, calendars, views, lease, mishaps, left, blind>>
    BY <1>5, <2>1 DEF Open, Callback
  <2>3. Data'
    BY <1>1, <2>1, <2>2, CallbackTyped, BeginsTyped DEF links
  <2>4. crossed' \subseteq Users /\ overrun' \subseteq Leases
    BY <1>5, RecordTyped DEF Open
  <2> QED
    BY <1>00, <1>3, <2>2, <2>3, <2>4 DEF SceneOK
<1>6. ASSUME NEW h \in Handlers, Handle(h) PROVE TypeInv'
  <2>1. Data' /\ lease' \in [Leases -> Handlers \cup {None, Dead}] /\ UNCHANGED mishaps
    BY <1>6, StepTyped DEF Handle
  <2>2. UNCHANGED <<left, blind>> /\ crossed' \subseteq Users /\ overrun' \subseteq Leases
    BY <1>6, RecordTyped DEF Handle
  <2> QED
    BY <1>00, <1>3, <2>1, <2>2 DEF SceneOK
<1>7. ASSUME NEW h \in Handlers, Break(h) PROVE TypeInv'
  <2>1. /\ Data' /\ lease' \in [Leases -> Handlers \cup {None, Dead}]
        /\ mishaps < MaxMishaps /\ mishaps' = mishaps + 1
    BY <1>7, FaultTyped DEF Break
  <2>2. UNCHANGED <<left, blind>> /\ crossed' \subseteq Users /\ overrun' \subseteq Leases
    BY <1>7, RecordTyped DEF Break
  <2>3. mishaps' \in 0..MaxMishaps
    BY <1>3, <2>1 DEF SceneOK
  <2> QED
    BY <1>00, <1>3, <2>1, <2>2, <2>3 DEF SceneOK
<1>8. ASSUME NEW u \in Users, Schedule(u) PROVE TypeInv'
  <2>1. PICK h \in Handlers : ScheduleCanvas(h, u) \/ ScheduleCalendar(h, u)
    BY <1>8 DEF Schedule
  <2>2. UNCHANGED <<links, calendars, views, lease, mishaps, left, blind>>
    BY <1>8, <2>1 DEF Schedule, ScheduleCanvas, ScheduleCalendar
  <2>3. Data'
    BY <1>1, <2>1, <2>2, ScheduleTyped, BeginsTyped DEF links
  <2>4. crossed' \subseteq Users /\ overrun' \subseteq Leases
    BY <1>8, RecordTyped DEF Schedule
  <2> QED
    BY <1>00, <1>3, <2>2, <2>3, <2>4 DEF SceneOK
<1>9. ASSUME NEW a \in Accounts, Lose(a), Record PROVE TypeInv'
  <2>1. PICK u \in Users : Use("lose", u)
    BY <1>9 DEF Lose
  <2>2. UNCHANGED <<links, calendars, views, at, job, lease, mishaps>> /\ blind' \subseteq Accounts
    BY <1>3, <1>9 DEF Lose, handlers, SceneOK
  <2>3. left' \in [Commands -> [Users -> Nat]]
    <3>1. PICK c : c = "lose"
      OBVIOUS
    <3>2. left[c][u] > 0 /\ left' = [left EXCEPT ![c][u] = left[c][u] - 1]
      BY <2>1, <3>1 DEF Use
    <3>3. left \in [Commands -> [Users -> Nat]]
      BY <1>3 DEF SceneOK
    <3>4. CASE c \in Commands
      <4>1. PICK l, i : l = left[c] /\ i = l[u]
        OBVIOUS
      <4>2. l \in [Users -> Nat] /\ i \in Nat /\ i > 0
        BY <3>2, <3>3, <3>4, <4>1
      <4>3. i - 1 \in Nat
        BY <4>2
      <4>4. left' = [left EXCEPT ![c] = [l EXCEPT ![u] = i - 1]]
        BY <3>2, <4>1
      <4>5. [l EXCEPT ![u] = i - 1] \in [Users -> Nat]
        BY <4>2, <4>3
      <4> QED
        BY <3>3, <4>4, <4>5
    <3>5. CASE c \notin Commands
      <4>1. left' = left
        BY <3>2, <3>3, <3>5
      <4> QED
        BY <3>3, <4>1
    <3> QED
      BY <3>4, <3>5
  <2>4. crossed' \subseteq Users /\ overrun' \subseteq Leases
    BY <1>9, RecordTyped
  <2> QED
    BY <1>00, <1>2, <1>3, <2>2, <2>3, <2>4 DEF SceneOK
<1>10. ASSUME NEW l \in Leases, Lapse(l) \/ Outlast(l) PROVE TypeInv'
  <2>1. /\ UNCHANGED <<links, calendars, views, at, job, left, blind>>
        /\ lease' = [lease EXCEPT ![l] = None]
        /\ mishaps' = mishaps \/ (mishaps < MaxMishaps /\ mishaps' = mishaps + 1)
    BY <1>10 DEF Lapse, Outlast, Expire, Overrun, Mishap
  <2>2. mishaps' \in 0..MaxMishaps
    BY <1>3, <2>1 DEF SceneOK
  <2>3. lease' \in [Leases -> Handlers \cup {None, Dead}]
    BY <1>3, <2>1 DEF SceneOK
  <2>4. crossed' \subseteq Users /\ overrun' \subseteq Leases
    BY <1>10, RecordTyped DEF Lapse, Outlast
  <2> QED
    BY <1>00, <1>2, <1>3, <2>1, <2>2, <2>3, <2>4 DEF SceneOK
<1>11. CASE UNCHANGED vars
  <2>1. UNCHANGED <<links, calendars, views, at, job, lease, mishaps, left, blind, crossed, overrun>>
    BY <1>11 DEF vars, handlers, scene
  <2> QED
    BY <1>00, <1>2, <1>3, <2>1 DEF SceneOK
<1> QED
  BY <1>4, <1>5, <1>6, <1>7, <1>8, <1>9, <1>10, <1>11 DEF Next

LEMMA TypeInvImplies ==
  ASSUME TypeInv
  PROVE  TypeOK
<1>1. LinksOK
  BY DEF TypeInv, UrlsOK, UrlState, LinksOK
<1>2. CalendarsOK
  <2>1. /\ calendar \in Seq(Calendar) /\ google \in [Users -> GoogleState]
        /\ \A u \in Users : google[u].calendar <= Len(calendar)
        /\ googleReverse \in [Subjects -> Users \cup {None}] /\ made \in [Users -> Nat]
    BY DEF TypeInv, GoogleOK
  <2>2. \A i \in DOMAIN calendar : calendar[i] \in [owner : Users, events : SUBSET Accounts]
    BY <2>1, ElementOfSeq, LenProperties DEF Calendar
  <2>3. ASSUME NEW u \in Users
        PROVE  google[u] \in [subject : Subjects \cup {None}, calendar : 0..Len(calendar)]
    <3>1. PICK g, n : g = google[u] /\ n = Len(calendar)
      OBVIOUS
    <3>2. g \in GoogleState /\ n \in Nat /\ g.calendar <= n
      BY <2>1, <3>1, Lengths
    <3>3. g.calendar \in 0..n
      BY <3>2, GoogleFields
    <3>4. g \in [subject : Subjects \cup {None}, calendar : 0..n]
      <4>1. CASE g \in GoogleLink
        BY <3>3, <4>1 DEF GoogleLink
      <4>2. CASE g = NoGoogle
        BY <3>2, <4>2 DEF NoGoogle
      <4> QED
        BY <3>2, <4>1, <4>2 DEF GoogleState
    <3> QED
      BY <3>1, <3>4
  <2> QED
    BY <2>1, <2>2, <2>3 DEF CalendarsOK
<1>3. C!CanvasesOK
  <2>1. /\ canvas \in Seq(Canvas) /\ canvasDoc \in [Users -> CanvasState]
        /\ \A u \in Users : canvasDoc[u].id <= Len(canvas)
    BY DEF TypeInv, CanvasOK
  <2>2. \A i \in DOMAIN canvas : canvas[i] \in [shows : Accounts, readers : SUBSET Users]
    BY <2>1, ElementOfSeq, LenProperties DEF Canvas
  <2>3. ASSUME NEW u \in Users
        PROVE  canvasDoc[u] \in [id : 0..Len(canvas), shows : Accounts \cup {None},
                                 granted : BOOLEAN]
    <3>1. PICK d, n : d = canvasDoc[u] /\ n = Len(canvas)
      OBVIOUS
    <3>2. d \in CanvasState /\ n \in Nat /\ d.id <= n
      BY <2>1, <3>1, Lengths
    <3>3. d.id \in 0..n
      BY <3>2, CanvasFields
    <3>4. d \in [id : 0..n, shows : Accounts \cup {None}, granted : BOOLEAN]
      BY <3>2, <3>3 DEF CanvasState
    <3> QED
      BY <3>1, <3>4
  <2> QED
    BY <2>1, <2>2, <2>3 DEF C!CanvasesOK
<1>4. L!ListsOK
  <2>1. /\ list \in Seq(List) /\ listDoc \in [Keys -> ListState] /\ guard \in BOOLEAN
        /\ \A k \in Keys : listDoc[k].id <= Len(list) /\ listDoc[k].legacy <= Len(list)
    BY DEF TypeInv, ListOK
  <2>2. \A i \in DOMAIN list : list[i] \in List
    BY <2>1, ElementOfSeq, LenProperties
  <2>3. ASSUME NEW k \in Keys
        PROVE  listDoc[k] \in [id : 0..Len(list), current : BOOLEAN, pending : BOOLEAN,
                               legacy : 0..Len(list)]
    <3>1. PICK d, n : d = listDoc[k] /\ n = Len(list)
      OBVIOUS
    <3>2. d \in ListState /\ n \in Nat /\ d.id <= n /\ d.legacy <= n
      BY <2>1, <3>1, Lengths
    <3>3. d.id \in 0..n /\ d.legacy \in 0..n
      BY <3>2, ListFields
    <3>4. d \in [id : 0..n, current : BOOLEAN, pending : BOOLEAN, legacy : 0..n]
      BY <3>2, <3>3 DEF ListState
    <3> QED
      BY <3>1, <3>4
  <2> QED
    BY <2>1, <2>2, <2>3 DEF L!ListsOK, L!Keys, Keys, List
<1> QED
  BY <1>1, <1>2, <1>3, <1>4 DEF TypeOK, TypeInv, HandlersOK, SceneOK

THEOREM Typed == Spec => []TypeInv
<1>1. Init => TypeInv
  BY AccountsAssumption, InitTyped
<1>2. TypeInv /\ [Next]_vars => TypeInv'
  BY AccountsAssumption, NextTyped
<1> QED
  BY <1>1, <1>2, PTL DEF Spec

\* In every reachable state, of any scenario, the variables have their types and
\* each handler is at a place where what it has in hand lets it go on.
THEOREM TypeCorrect == Spec => []TypeOK
<1>1. TypeInv => TypeOK
  BY TypeInvImplies
<1> QED
  BY <1>1, Typed, PTL

=============================================================================
