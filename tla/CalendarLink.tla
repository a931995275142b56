---------------------------- MODULE CalendarLink ----------------------------
(***************************************************************************)
(* The link of a Slack user to a Google account and the calendar kept up   *)
(* to date for it (google-calendar-service.ts).  The link is authorised by *)
(* the same kind of one-time URL as IdentityLink's, stored blindly like    *)
(* it, and read by a synchronisation that writes its copy back once it has *)
(* created the calendar.  No lease keeps two synchronisations apart.       *)
(***************************************************************************)
EXTENDS IdentityLink

VARIABLES
  google,         \* the Google identity of each user
  googleReverse,  \* the user of each Google account
  calendar,       \* the calendars Google has: whose they are, and their events
  made            \* history: the calendars created since the user's link began

calendars == <<google, googleReverse, calendar, made>>

NoGoogle == [subject |-> None, calendar |-> 0]

\* At first one user, or None, has a Google account and a calendar with the
\* items of the GitHub account.
InitCalendars(owner) ==
  LET subject == CHOOSE s \in Subjects : TRUE
  IN  /\ google = [u \in Users |-> IF u = owner THEN [subject |-> subject, calendar |-> 1]
                                               ELSE NoGoogle]
      /\ googleReverse = [s \in Subjects |-> IF s = subject THEN owner ELSE None]
      /\ calendar = IF owner = None THEN <<>>
                    ELSE <<[owner |-> owner, events |-> {identity[owner]} \ {None}]>>
      /\ made = [u \in Users |-> IF u = owner THEN 1 ELSE 0]

Linked(h) == google[job[h].user]

-----------------------------------------------------------------------------
(* complete, from the exchange of the code on; then the callback's first   *)
(* synchronisation. *)

ExchangeGoogle(h) ==
  /\ at[h] = "google"
  /\ \E s \in Subjects :
       Go(h, "claim google", [job[h] EXCEPT !.login = s, !.previous = Linked(h)])
  /\ UNCHANGED calendars

ClaimGoogle(h) ==
  /\ at[h] = "claim google"
  /\ IF googleReverse[job[h].login] \in {None, job[h].user} THEN Goto(h, "save google")
                                                           ELSE Rest(h)
  /\ UNCHANGED calendars

\* Mutant: a new authorisation forgets the calendar.
Authorisation_Afresh(h) == [subject |-> job[h].login, calendar |-> 0]

\* The same Google account keeps its calendar.
Authorisation(h) ==
  [subject |-> job[h].login,
   calendar |-> IF job[h].previous.subject = job[h].login THEN job[h].previous.calendar ELSE 0]

SaveGoogle(h) ==
  /\ at[h] = "save google"
  /\ google' = [google EXCEPT ![job[h].user] = Authorisation(h)]
  /\ made' = [made EXCEPT ![job[h].user] = IF job[h].previous.subject = job[h].login
                                           THEN @ ELSE 0]
  /\ Goto(h, "save google reverse")
  /\ UNCHANGED <<googleReverse, calendar>>

\* Mutant: the entry names the account, not the user.
SaveGoogleReverse_Swapped(h) ==
  /\ at[h] = "save google reverse"
  /\ googleReverse' = [googleReverse EXCEPT ![job[h].login] = job[h].login]
  /\ Goto(h, IF job[h].previous.subject \in {None, job[h].login}
             THEN "calendar" ELSE "drop google reverse")
  /\ UNCHANGED <<google, calendar, made>>

SaveGoogleReverse(h) ==
  /\ at[h] = "save google reverse"
  /\ googleReverse' = [googleReverse EXCEPT ![job[h].login] = job[h].user]
  /\ Goto(h, IF job[h].previous.subject \in {None, job[h].login}
             THEN "calendar" ELSE "drop google reverse")
  /\ UNCHANGED <<google, calendar, made>>

DropGoogleReverse(h) ==
  /\ at[h] = "drop google reverse"
  /\ googleReverse' = [googleReverse EXCEPT ![job[h].previous.subject] = None]
  /\ Goto(h, "calendar")
  /\ UNCHANGED <<google, calendar, made>>

-----------------------------------------------------------------------------
(* disconnect *)

UnlinkGoogle(h) ==
  /\ at[h] = "unlink google"
  /\ IF Linked(h) = NoGoogle THEN Rest(h)
                             ELSE Go(h, "remove google", [job[h] EXCEPT !.previous = Linked(h)])
  /\ UNCHANGED calendars

RemoveGoogle(h) ==
  /\ at[h] = "remove google"
  /\ google' = [google EXCEPT ![job[h].user] = NoGoogle]
  /\ made' = [made EXCEPT ![job[h].user] = 0]
  /\ Goto(h, "remove google reverse")
  /\ UNCHANGED <<googleReverse, calendar>>

RemoveGoogleReverse(h) ==
  /\ at[h] = "remove google reverse"
  /\ googleReverse' = [googleReverse EXCEPT ![job[h].previous.subject] = None]
  /\ Rest(h)
  /\ UNCHANGED <<google, calendar, made>>

-----------------------------------------------------------------------------
(* syncUser *)

\* Without a Google identity there is nothing to do.
ReadGoogle(h) ==
  /\ at[h] = "calendar"
  /\ IF Linked(h) = NoGoogle
     THEN Rest(h)
     ELSE Go(h, "calendar login", [Work(job[h].user) EXCEPT !.doc = Linked(h)])
  /\ UNCHANGED calendars

\* Nor without a GitHub identity, whose login owns the items.
ReadLogin(h) ==
  LET login == identity[job[h].user]
  IN  /\ at[h] = "calendar login"
      /\ IF login = None
         THEN Rest(h)
         ELSE Go(h, IF job[h].doc.calendar = 0 THEN "create calendar" ELSE "put events",
                 [job[h] EXCEPT !.login = login])
      /\ UNCHANGED calendars

CreateCalendar(h) ==
  /\ at[h] = "create calendar"
  /\ calendar' = Append(calendar, [owner |-> job[h].user, events |-> {}])
  /\ made' = [made EXCEPT ![job[h].user] = @ + 1]
  /\ Go(h, "save calendar", [job[h] EXCEPT !.doc.calendar = Len(calendar) + 1])
  /\ UNCHANGED <<google, googleReverse>>

\* The identity read at the start, with its calendar, whatever is stored now.
SaveCalendar(h) ==
  /\ at[h] = "save calendar"
  /\ google' = [google EXCEPT ![job[h].user] = job[h].doc]
  /\ Goto(h, "save calendar reverse")
  /\ UNCHANGED <<googleReverse, calendar, made>>

SaveCalendarReverse(h) ==
  /\ at[h] = "save calendar reverse"
  /\ googleReverse' = [googleReverse EXCEPT ![job[h].doc.subject] = job[h].user]
  /\ Goto(h, "put events")
  /\ UNCHANGED <<google, calendar, made>>

\* The events have ids of their own, so that an event put again is the same.
PutEvents(h) ==
  /\ at[h] = "put events"
  /\ calendar' = [calendar EXCEPT ![job[h].doc.calendar].events = @ \cup {job[h].login}]
  /\ Goto(h, "delete events")
  /\ UNCHANGED <<google, googleReverse, made>>

\* Mutant: events that are no longer wanted stay.
DeleteEvents_Kept(h) ==
  /\ at[h] = "delete events"
  /\ Rest(h)
  /\ UNCHANGED calendars

DeleteEvents(h) ==
  /\ at[h] = "delete events"
  /\ calendar' = [calendar EXCEPT ![job[h].doc.calendar].events = @ \cap {job[h].login}]
  /\ Rest(h)
  /\ UNCHANGED <<google, googleReverse, made>>

CalendarStep(h) ==
  \/ ExchangeGoogle(h) \/ ClaimGoogle(h) \/ SaveGoogle(h) \/ SaveGoogleReverse(h)
  \/ DropGoogleReverse(h) \/ UnlinkGoogle(h) \/ RemoveGoogle(h) \/ RemoveGoogleReverse(h)
  \/ ReadGoogle(h) \/ ReadLogin(h) \/ CreateCalendar(h) \/ SaveCalendar(h)
  \/ SaveCalendarReverse(h) \/ PutEvents(h) \/ DeleteEvents(h)

-----------------------------------------------------------------------------

CalendarPlaces == {"google", "claim google", "save google", "save google reverse",
                   "drop google reverse", "unlink google", "remove google",
                   "remove google reverse", "calendar", "calendar login", "create calendar",
                   "save calendar", "save calendar reverse", "put events", "delete events"}

CalendarsOK ==
  /\ google \in [Users -> [subject : Subjects \cup {None}, calendar : 0..Len(calendar)]]
  /\ googleReverse \in [Subjects -> Users \cup {None}]
  /\ \A i \in DOMAIN calendar : calendar[i] \in [owner : Users, events : SUBSET Accounts]
  /\ made \in [Users -> Nat]
=============================================================================
