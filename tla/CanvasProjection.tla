-------------------------- MODULE CanvasProjection --------------------------
(***************************************************************************)
(* The personal Canvases (canvas-service.ts): one per user, synchronised   *)
(* under a lease and recorded in a state document that is set blindly, and *)
(* revoked without the lease.  What a Canvas shows is the work that one    *)
(* GitHub account may see; the hash of its content stands for the account. *)
(***************************************************************************)
EXTENDS Handlers

VARIABLES
  canvas,     \* the Canvases Slack has, in the order of their creation
  canvasDoc   \* the state document of each user's Canvas

canvases == <<canvas, canvasDoc>>

NoCanvas == [id |-> 0, shows |-> None, granted |-> FALSE]

InitCanvases ==
  /\ canvas = <<>>
  /\ canvasDoc = [u \in Users |-> NoCanvas]

\* What a synchronisation records, once the access has been granted.
Projected(h) == [id |-> job[h].doc.id, shows |-> job[h].login, granted |-> TRUE]

-----------------------------------------------------------------------------
(* sync *)

\* A synchronisation under way refuses another one, to be retried.
AcquireCanvas(h) ==
  LET l == <<"canvas", job[h].key>>
  IN  /\ at[h] = "acquire canvas"
      /\ \/ Acquired(h, l) /\ Goto(h, "read canvas")
         \/ Refused(l) /\ Rest(h) /\ UNCHANGED lease
      /\ UNCHANGED canvases

\* The state document decides: a Canvas is created (never by the schedule),
\* edited when its content has changed, and shared when it was not.
ReadCanvas(h) ==
  LET doc == canvasDoc[job[h].key]
  IN  /\ at[h] = "read canvas"
      /\ Go(h, CASE doc.id = 0 /\ job[h].then = "scheduled" -> "release canvas"
                 [] doc.id = 0 /\ job[h].then # "scheduled" -> "create canvas"
                 [] doc.id # 0 /\ doc.shows # job[h].login -> "edit canvas"
                 [] doc.id # 0 /\ doc.shows = job[h].login /\ ~doc.granted -> "share canvas"
                 [] OTHER -> "record canvas",
              [job[h] EXCEPT !.doc = doc])
      /\ UNCHANGED <<canvas, canvasDoc, lease>>

CreateCanvas(h) ==
  /\ at[h] = "create canvas"
  /\ canvas' = Append(canvas, [shows |-> job[h].login, readers |-> {}])
  /\ Go(h, "note canvas", [job[h] EXCEPT !.doc = [NoCanvas EXCEPT !.id = Len(canvas) + 1]])
  /\ UNCHANGED <<canvasDoc, lease>>

\* Mutant: the Canvas is recorded only when everything else is done.
NoteCanvas_Later(h) ==
  /\ at[h] = "note canvas"
  /\ Goto(h, "share canvas")
  /\ UNCHANGED <<canvas, canvasDoc, lease>>

\* The provisional state, so that a retry creates no second Canvas.
NoteCanvas(h) ==
  /\ at[h] = "note canvas"
  /\ canvasDoc' = [canvasDoc EXCEPT ![job[h].key] = [Projected(h) EXCEPT !.granted = FALSE]]
  /\ Goto(h, "share canvas")
  /\ UNCHANGED <<canvas, lease>>

EditCanvas(h) ==
  /\ at[h] = "edit canvas"
  /\ canvas' = [canvas EXCEPT ![job[h].doc.id].shows = job[h].login]
  /\ Goto(h, IF job[h].doc.granted THEN "record canvas" ELSE "share canvas")
  /\ UNCHANGED <<canvasDoc, lease>>

ShareCanvas(h) ==
  /\ at[h] = "share canvas"
  /\ canvas' = [canvas EXCEPT ![job[h].doc.id].readers = @ \cup {job[h].key}]
  /\ Goto(h, "record canvas")
  /\ UNCHANGED <<canvasDoc, lease>>

\* The final state, whatever is stored by now.
RecordCanvas(h) ==
  /\ at[h] = "record canvas"
  /\ canvasDoc' = [canvasDoc EXCEPT ![job[h].key] = Projected(h)]
  /\ Goto(h, "release canvas")
  /\ UNCHANGED <<canvas, lease>>

ReleaseCanvas(h) ==
  /\ at[h] = "release canvas"
  /\ Released(h, <<"canvas", job[h].key>>)
  /\ Rest(h)
  /\ UNCHANGED canvases

\* A call to Slack or the store throws; the lease is given back.
CanvasFails(h) ==
  /\ at[h] \in {"read canvas", "create canvas", "note canvas", "edit canvas",
                "share canvas", "record canvas"}
  /\ Mishap
  /\ Goto(h, "release canvas")
  /\ UNCHANGED <<canvas, canvasDoc, lease>>

-----------------------------------------------------------------------------
(* revokeViewerAccess *)

\* The documents of the user are listed.
FindCanvas(h) ==
  LET doc == canvasDoc[job[h].user]
  IN  /\ at[h] = "revoke"
      /\ IF doc.id = 0 THEN Goto(h, "revoke list")
                       ELSE Go(h, "close canvas", [job[h] EXCEPT !.doc = doc])
      /\ UNCHANGED <<canvas, canvasDoc, lease>>

CloseCanvas(h) ==
  /\ at[h] = "close canvas"
  /\ canvas' = [canvas EXCEPT ![job[h].doc.id].readers = @ \ {job[h].user}]
  /\ Goto(h, "forget canvas")
  /\ UNCHANGED <<canvasDoc, lease>>

ForgetCanvas(h) ==
  /\ at[h] = "forget canvas"
  /\ canvasDoc' = [canvasDoc EXCEPT ![job[h].user] = NoCanvas]
  /\ Go(h, "revoke list", [job[h] EXCEPT !.doc = None])
  /\ UNCHANGED <<canvas, lease>>

CanvasStep(h) ==
  \/ AcquireCanvas(h) \/ ReadCanvas(h) \/ CreateCanvas(h) \/ NoteCanvas(h) \/ EditCanvas(h)
  \/ ShareCanvas(h) \/ RecordCanvas(h) \/ ReleaseCanvas(h)
  \/ FindCanvas(h) \/ CloseCanvas(h) \/ ForgetCanvas(h)

-----------------------------------------------------------------------------

CanvasPlaces == {"acquire canvas", "read canvas", "create canvas", "note canvas", "edit canvas",
                 "share canvas", "record canvas", "release canvas",
                 "revoke", "close canvas", "forget canvas"}

CanvasesOK ==
  /\ \A i \in DOMAIN canvas : canvas[i] \in [shows : Accounts, readers : SUBSET Users]
  /\ canvasDoc \in [Users -> [id : 0..Len(canvas), shows : Accounts \cup {None},
                              granted : BOOLEAN]]
=============================================================================
