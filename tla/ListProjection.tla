--------------------------- MODULE ListProjection ---------------------------
(***************************************************************************)
(* The Project Lists (project-list-service.ts, project-list.ts): a user's  *)
(* personal List, and the shared channel's List, which used to hold every  *)
(* repository's work and is migrated to one that holds a single one's.  A  *)
(* synchronisation runs under the lease of its state key; the scoped one   *)
(* of the channel also takes the channel's lease for the migration.  The   *)
(* rows of a List are told apart by whose they are: what an account may    *)
(* see, every repository's (All) or the shared repository's (Shared).      *)
(***************************************************************************)
EXTENDS Handlers

CONSTANT All

VARIABLES
  list,      \* the Lists Slack has, in the order of their creation
  listDoc,   \* the state document of each key
  guard      \* the channel's durable mark "scoped-only"

lists == <<list, listDoc, guard>>

\* current: of schema version 3; legacy: the id of the List it replaces.
NoList == [id |-> 0, current |-> FALSE, pending |-> FALSE, legacy |-> 0]

\* key: of the state for which the List was created.
NewList(k) == [key |-> k, readers |-> {}, rows |-> {}, renamed |-> FALSE]

\* The channel may have a List from before the scopes, of an older schema
\* version or not.
InitLists(channelList) ==
  /\ list = IF channelList = "none"
            THEN <<>> ELSE <<[NewList(Channel) EXCEPT !.readers = {Channel}, !.rows = {All}]>>
  /\ listDoc = [k \in Keys |->
                  IF k = Channel /\ channelList # "none"
                  THEN [NoList EXCEPT !.id = 1, !.current = channelList = "current"]
                  ELSE NoList]
  /\ guard = FALSE

\* The audience of the List of a key.
Target(k) == IF k = Shared THEN Channel ELSE k

\* The rows a synchronisation wants, by its scope and its viewer's access.
Wanted(h) == CASE job[h].key = Channel -> {All}
               [] job[h].key = Shared -> {Shared}
               [] OTHER -> {job[h].login}

Doc(h) == job[h].doc

StoreList(k, doc) == listDoc' = [listDoc EXCEPT ![k] = doc]

-----------------------------------------------------------------------------
(* sync *)

AcquireList(h) ==
  LET l == <<"list", job[h].key>>
  IN  /\ at[h] = "acquire list"
      /\ \/ /\ Acquired(h, l)
            /\ Goto(h, CASE job[h].key = Channel -> "check guard"
                         [] job[h].key = Shared -> "acquire channel"
                         [] OTHER -> "read list")
         \/ Refused(l) /\ Rest(h) /\ UNCHANGED lease
      /\ UNCHANGED lists

\* assertUnscopedProjectionAllowed, after the lease has been taken.
CheckGuard(h) ==
  /\ at[h] = "check guard"
  /\ Goto(h, IF guard THEN "release list" ELSE "read list")
  /\ UNCHANGED <<list, listDoc, guard, lease>>

ReadList(h) ==
  LET doc == listDoc[job[h].key]
  IN  /\ at[h] = "read list"
      /\ Go(h, CASE ~doc.current -> "create list"
                 [] doc.current /\ doc.pending -> "share list"
                 [] OTHER -> "share with requester",
              [job[h] EXCEPT !.doc = doc])
      /\ UNCHANGED <<list, listDoc, guard, lease>>

\* What the new List replaces stays in hand.
CreateList(h) ==
  /\ at[h] = "create list"
  /\ list' = Append(list, NewList(job[h].key))
  /\ Go(h, "note list", [job[h] EXCEPT !.doc = [id |-> Len(list) + 1, current |-> TRUE,
                                                pending |-> TRUE, legacy |-> Doc(h).id]])
  /\ UNCHANGED <<listDoc, guard, lease>>

\* onCreated: the id is recorded before the access is granted.
NoteList(h) ==
  /\ at[h] = "note list"
  /\ StoreList(job[h].key, Doc(h))
  /\ Goto(h, "share list")
  /\ UNCHANGED <<list, guard, lease>>

ShareList(h) ==
  /\ at[h] = "share list"
  /\ list' = [list EXCEPT ![Doc(h).id].readers = @ \cup {Target(job[h].key)}]
  /\ Go(h, "record list", [job[h] EXCEPT !.doc.pending = FALSE])
  /\ UNCHANGED <<listDoc, guard, lease>>

RecordList(h) ==
  /\ at[h] = "record list"
  /\ StoreList(job[h].key, Doc(h))
  /\ Goto(h, "share with requester")
  /\ UNCHANGED <<list, guard, lease>>

\* Who asks for a channel's List by name may read it too, here and when it is
\* created; a personal List has no other reader.
Requester(h) == IF job[h].key \in Users THEN {} ELSE {job[h].user} \ {None}

ShareWithRequester(h) ==
  /\ at[h] = "share with requester"
  /\ list' = [list EXCEPT ![Doc(h).id].readers = @ \cup Requester(h)]
  /\ Goto(h, IF Doc(h).legacy # 0 THEN "rename legacy" ELSE "add rows")
  /\ UNCHANGED <<listDoc, guard, lease>>

RenameLegacy(h) ==
  /\ at[h] = "rename legacy"
  /\ list' = [list EXCEPT ![Doc(h).legacy].renamed = TRUE]
  /\ Go(h, "drop legacy", [job[h] EXCEPT !.doc.legacy = 0])
  /\ UNCHANGED <<listDoc, guard, lease>>

DropLegacy(h) ==
  /\ at[h] = "drop legacy"
  /\ StoreList(job[h].key, Doc(h))
  /\ Goto(h, "add rows")
  /\ UNCHANGED <<list, guard, lease>>

\* Rows are created and updated before the others are deleted.
AddRows(h) ==
  /\ at[h] = "add rows"
  /\ list' = [list EXCEPT ![Doc(h).id].rows = @ \cup Wanted(h)]
  /\ Goto(h, "delete rows")
  /\ UNCHANGED <<listDoc, guard, lease>>

DeleteRows(h) ==
  /\ at[h] = "delete rows"
  /\ list' = [list EXCEPT ![Doc(h).id].rows = @ \cap Wanted(h)]
  /\ Goto(h, "release list")
  /\ UNCHANGED <<listDoc, guard, lease>>

ReleaseList(h) ==
  /\ at[h] = "release list"
  /\ Released(h, <<"list", job[h].key>>)
  /\ Rest(h)
  /\ UNCHANGED lists

ListFails(h) ==
  /\ at[h] \in {"check guard", "read list", "create list", "note list", "share list",
                "record list", "share with requester", "rename legacy", "drop legacy",
                "add rows", "delete rows"}
  /\ Mishap
  /\ Goto(h, "release list")
  /\ UNCHANGED <<list, listDoc, guard, lease>>

-----------------------------------------------------------------------------
(* The migration of the channel, within a scoped sync or when the adapter  *)
(* starts (then has no key of its own).                                    *)

AcquireChannel(h) ==
  LET l == <<"list", Channel>>
  IN  /\ at[h] = "acquire channel"
      /\ \/ Acquired(h, l) /\ Goto(h, "read legacy")
         \/ Refused(l) /\ Leave(h, job[h].then) /\ UNCHANGED lease
      /\ UNCHANGED lists

\* Mutant: the old List an upgrade has not finished with is left out.
Legacies_Current(doc) == <<doc.id>>

\* The Lists to close, an old one of an unfinished upgrade first.
Legacies(doc) == IF doc.legacy = 0 THEN <<doc.id>> ELSE <<doc.legacy, doc.id>>

ReadLegacy(h) ==
  LET doc == listDoc[Channel]
  IN  /\ at[h] = "read legacy"
      /\ Go(h, IF doc.id = 0 THEN "set guard" ELSE "close legacy",
              [job[h] EXCEPT !.doc = doc, !.ids = IF doc.id = 0 THEN <<>> ELSE Legacies(doc)])
      /\ UNCHANGED <<list, listDoc, guard, lease>>

CloseLegacy(h) ==
  /\ at[h] = "close legacy"
  /\ list' = [list EXCEPT ![Head(job[h].ids)].readers = @ \ {Channel}]
  /\ Goto(h, "clear legacy")
  /\ UNCHANGED <<listDoc, guard, lease>>

ClearLegacy(h) ==
  /\ at[h] = "clear legacy"
  /\ list' = [list EXCEPT ![Head(job[h].ids)].rows = {}]
  /\ Goto(h, "mark legacy")
  /\ UNCHANGED <<listDoc, guard, lease>>

MarkLegacy(h) ==
  /\ at[h] = "mark legacy"
  /\ list' = [list EXCEPT ![Head(job[h].ids)].renamed = TRUE]
  /\ Go(h, IF Len(job[h].ids) = 1 THEN "set guard" ELSE "close legacy",
          [job[h] EXCEPT !.ids = Tail(@)])
  /\ UNCHANGED <<listDoc, guard, lease>>

\* ensureScopedOnlyGuard, when every List has been closed.
SetGuard(h) ==
  /\ at[h] = "set guard"
  /\ guard' = TRUE
  /\ Goto(h, IF Doc(h).id = 0 THEN "release channel" ELSE "forget legacy")
  /\ UNCHANGED <<list, listDoc, lease>>

ForgetLegacy(h) ==
  /\ at[h] = "forget legacy"
  /\ StoreList(Channel, NoList)
  /\ Goto(h, "release channel")
  /\ UNCHANGED <<list, guard, lease>>

ReleaseChannel(h) ==
  /\ at[h] = "release channel"
  /\ Released(h, <<"list", Channel>>)
  /\ IF job[h].key = Shared THEN Go(h, "read list", [job[h] EXCEPT !.doc = None])
                            ELSE Rest(h)
  /\ UNCHANGED lists

MigrationPlaces == {"read legacy", "close legacy", "clear legacy", "mark legacy", "set guard",
                    "forget legacy"}

\* The lease of the channel is given back, and that of a scoped sync after it.
MigrationFails(h) ==
  /\ at[h] \in MigrationPlaces
  /\ Mishap
  /\ Released(h, <<"list", Channel>>)
  /\ Leave(h, job[h].then)
  /\ UNCHANGED lists

-----------------------------------------------------------------------------
(* revokeViewerAccess *)

FindList(h) ==
  LET doc == listDoc[job[h].user]
  IN  /\ at[h] = "revoke list"
      /\ IF doc.id = 0 THEN Leave(h, job[h].then)
                       ELSE Go(h, "close list", [job[h] EXCEPT !.doc = doc])
      /\ UNCHANGED <<list, listDoc, guard, lease>>

CloseList(h) ==
  /\ at[h] = "close list"
  /\ list' = [list EXCEPT ![Doc(h).id].readers = @ \ {job[h].user}]
  /\ Goto(h, "forget list")
  /\ UNCHANGED <<listDoc, guard, lease>>

ForgetList(h) ==
  /\ at[h] = "forget list"
  /\ StoreList(job[h].user, NoList)
  /\ IF job[h].then = "idle" THEN Rest(h) ELSE Go(h, job[h].then, [job[h] EXCEPT !.doc = None])
  /\ UNCHANGED <<list, guard, lease>>

ListStep(h) ==
  \/ AcquireList(h) \/ CheckGuard(h) \/ ReadList(h) \/ CreateList(h) \/ NoteList(h)
  \/ ShareList(h) \/ RecordList(h) \/ ShareWithRequester(h) \/ RenameLegacy(h)
  \/ DropLegacy(h) \/ AddRows(h) \/ DeleteRows(h) \/ ReleaseList(h)
  \/ AcquireChannel(h) \/ ReadLegacy(h) \/ CloseLegacy(h) \/ ClearLegacy(h)
  \/ MarkLegacy(h) \/ SetGuard(h) \/ ForgetLegacy(h) \/ ReleaseChannel(h)
  \/ FindList(h) \/ CloseList(h) \/ ForgetList(h)

-----------------------------------------------------------------------------

ListPlaces == MigrationPlaces \cup
  {"acquire list", "check guard", "read list", "create list", "note list", "share list",
   "record list", "share with requester", "rename legacy", "drop legacy", "add rows",
   "delete rows", "release list", "acquire channel", "release channel",
   "revoke list", "close list", "forget list"}

ListsOK ==
  /\ \A i \in DOMAIN list :
       list[i] \in [key : Keys, readers : SUBSET (Users \cup {Channel}),
                    rows : SUBSET (Accounts \cup {All, Shared}), renamed : BOOLEAN]
  /\ listDoc \in [Keys -> [id : 0..Len(list), current : BOOLEAN, pending : BOOLEAN,
                           legacy : 0..Len(list)]]
  /\ guard \in BOOLEAN
=============================================================================
