------------------------- MODULE IssueApproval_proofs -------------------------
(***************************************************************************)
(* Theorems about IssueApproval and the IssueCreation it instantiates, for *)
(* any requests, users, handlers, relationships, fields and mishaps.  The  *)
(* inductive invariant says who may still write a document: a handler with *)
(* the revision that is stored holds the stored document, a document that  *)
(* is "processing" belongs to one handler until it gives it back, and one  *)
(* that is decided on belongs to nobody.                                   *)
(***************************************************************************)
EXTENDS IssueApproval, SequenceTheorems, TLAPS

\* What a maker has in hand.
Making == [issue : [request : Requests, claim : Nat] \cup {None},
           step : {"none", "relate", "read", "add", "update", "verify", "done"},
           left : Seq(Range(Relations) \cup Range(Fields)),
           failed : SUBSET C!Parts,
           seen : [Range(Fields) -> C!Value]]

Issue == [by : Users, related : SUBSET Range(Relations), assigned : BOOLEAN, item : BOOLEAN,
          values : [Range(Fields) -> C!Value]]

CreationTypes == /\ making \in [Handlers -> Making]
                 /\ github \in [DOMAIN github -> Issue]
                 /\ DOMAIN github \subseteq [request : Requests, claim : Nat]

\* How far a maker has come: each relationship is attached, reported as failed
\* or left to attach, and a lost assignee has been reported after the first read.
MakerOK(h) == LET m == making[h] IN
  /\ m.step = "none" <=> m.issue = None
  /\ m.step = "none" => m = C!Idle
  /\ m.step # "none" =>
       /\ m.issue \in DOMAIN github
       /\ Range(Relations) \subseteq github[m.issue].related \cup m.failed \cup
                                     (IF m.step = "relate" THEN Range(m.left) ELSE {})
  /\ m.step = "relate" => m.left # <<>> /\ m.left \in Seq(Range(Relations))
  /\ m.step = "add" => m.left \in Seq(Range(Fields))
  /\ m.step = "update" => m.left # <<>> /\ m.left \in Seq(Range(Fields))
  /\ m.step \in {"add", "update", "verify", "done"} =>
       github[m.issue].assigned \/ "assignees" \in m.failed

\* The revision a handler holds is the document's, or an older one.
Knows(h) == LET d == held[h].doc
                a == approval[Job(h)]
            IN  /\ 0 < d.revision /\ d.revision <= a.revision
                /\ d.revision = a.revision => d = a

\* The document is claimed by the handler.
Claims(h) == /\ held[h].doc.status = "processing"
             /\ \/ at[h] = "append" \/ Creating(h)
                \/ at[h] = "recover" /\ approval[Job(h)] = held[h].doc

ClaimOK(h) == Claims(h) =>
  /\ approval[Job(h)] = held[h].doc
  /\ held[h].doc.by = held[h].user
  /\ CanDecide(Job(h), held[h].user)

ReaderOK(h) ==
  /\ at[h] = "idle" => held[h] = NoHold
  /\ at[h] \in {"expire", "decide"} => held[h].doc.status = "pending"
  /\ at[h] \in {"expire", "decide", "append"} => Knows(h)
  /\ at[h] = "decide" => MayDecide(Job(h), held[h].user, held[h].command)
  /\ at[h] = "append" => held[h].doc.status \in {"pending", "processing"} \cup Decided
  /\ at[h] \in {"append", "recover"} /\ held[h].doc.status = "approved" =>
       approval[Job(h)] = held[h].doc

\* A handler that gives up its claim finds it as it took it, or the approval it
\* was told had failed.
RecoverOK(h) == LET d == held[h].doc
                    a == approval[Job(h)]
                IN  at[h] = "recover" =>
  /\ d.status \in {"processing", "approved"} /\ 0 < d.revision
  /\ d.status = "processing" => a = d \/ (a.status = "approved" /\ d.revision < a.revision)

\* The creator has the right to create, and has created nothing else.
CreatorOK(h) == at[h] = "create" =>
  /\ IF Direct(h)
     THEN /\ held[h].user = Requester[Job(h)] /\ held[h].user \in SelfApprovers
          /\ approval[Job(h)].revision = 0
     ELSE /\ held[h].doc.status = "processing"
          /\ Entry(h, "processing") \in audit
  /\ ~C!At(h, "none") => C!Of(h) = IssueOf(h) /\ github[IssueOf(h)].by = held[h].user

HandlerOK(h) ==
  /\ at[h] # "create" => C!At(h, "none")
  /\ MakerOK(h) /\ ClaimOK(h) /\ ReaderOK(h) /\ RecoverOK(h) /\ CreatorOK(h)

\* Nobody else has the request in hand.
Alone == \A g, h \in Handlers :
  /\ Claims(g) /\ Claims(h) /\ Job(g) = Job(h) => g = h
  /\ at[h] = "create" /\ Direct(h) /\ Job(g) = Job(h) => g = h

RequestOK(r) ==
  /\ approval[r].revision = 0 => approval[r] = NoDoc
  /\ approval[r].status = "none" => approval[r].revision = 0

ClaimsPast == \A x \in DOMAIN github : x.claim <= approval[x.request].revision

IInv ==
  /\ TypeOK /\ CreationTypes
  /\ \A r \in Requests : RequestOK(r)
  /\ \A h \in Handlers : HandlerOK(h)
  /\ Alone /\ ClaimsPast /\ CreatedByRight /\ ApprovedIsTrue
-----------------------------------------------------------------------------
(* Lemmas about IssueCreation's helpers. *)

\* What does not change of an Issue, and what only grows.
Grown(x) == /\ github'[x].by = github[x].by
            /\ github'[x].assigned = github[x].assigned
            /\ github[x].related \subseteq github'[x].related

Kept == /\ DOMAIN github' = DOMAIN github
        /\ github' \in [DOMAIN github -> Issue]
        /\ \A x \in DOMAIN github : Grown(x)

LEMMA PartsAre == C!Parts = Range(Relations) \cup Range(Fields) \cup {"assignees"}
  BY DEF C!Parts, C!Range, Range

LEMMA IdleFields ==
  /\ C!Idle \in Making
  /\ C!Idle.issue = None /\ C!Idle.step = "none" /\ C!Idle.left = <<>> /\ C!Idle.failed = {}
<1> DEFINE unset == [f \in Range(Fields) |-> "unset"]
<1>1. <<>> \in Seq(Range(Relations) \cup Range(Fields))
  OBVIOUS
<1>2. unset \in [Range(Fields) -> C!Value]
  BY DEF C!Value
<1>3. C!Idle = [issue |-> None, step |-> "none", left |-> <<>>, failed |-> {}, seen |-> unset]
  BY DEF C!Idle, C!Range, Range
<1> HIDE DEF unset
<1> QED
  BY <1>1, <1>2, <1>3 DEF Making

\* What comes next keeps all but the step.
LEMMA SettledFields ==
  ASSUME NEW m \in Making
  PROVE  /\ C!Settled(m) \in Making
         /\ C!Settled(m).issue = m.issue /\ C!Settled(m).left = m.left
         /\ C!Settled(m).failed = m.failed /\ C!Settled(m).seen = m.seen
         /\ C!Settled(m).step = IF m.left = <<>> /\ m.step = "relate" THEN "read"
                                ELSE IF m.left = <<>> /\ m.step = "update" THEN "verify"
                                ELSE m.step
<1>1. CASE m.left # <<>>
  BY <1>1 DEF C!Settled
<1>2. CASE m.left = <<>>
  <2> DEFINE s == CASE m.step = "relate" -> "read" [] m.step = "update" -> "verify"
                    [] OTHER -> m.step
  <2>1. s \in {"none", "relate", "read", "add", "update", "verify", "done"}
    BY DEF Making
  <2>2. s = IF m.step = "relate" THEN "read" ELSE IF m.step = "update" THEN "verify" ELSE m.step
    OBVIOUS
  <2>3. C!Settled(m) = [m EXCEPT !.step = s]
    BY <1>2 DEF C!Settled
  <2> HIDE DEF s
  <2> QED
    BY <1>2, <2>1, <2>2, <2>3 DEF Making
<1> QED
  BY <1>1, <1>2

\* The first part left and those after it are all there are.
LEMMA Lefts ==
  ASSUME NEW S, NEW q \in Seq(S), q # <<>>
  PROVE  /\ Tail(q) \in Seq(S) /\ Head(q) \in Range(q) /\ Head(q) \in S
         /\ Range(q) = {Head(q)} \cup Range(Tail(q))
<1>1. Len(q) \in Nat /\ Len(q) # 0 /\ DOMAIN q = 1..Len(q)
  BY EmptySeq
<1>2. /\ Tail(q) \in Seq(S) /\ Len(Tail(q)) = Len(q) - 1
      /\ \A i \in 1..(Len(q) - 1) : Tail(q)[i] = q[i + 1]
  BY <1>1
<1>3. DOMAIN Tail(q) = 1..(Len(q) - 1)
  BY <1>2
<1>4. Head(q) = q[1] /\ q[1] \in S
  BY <1>1
<1>5. ASSUME NEW i \in 1..Len(q) PROVE q[i] \in {Head(q)} \cup Range(Tail(q))
  <2>1. CASE i = 1
    BY <2>1, <1>4
  <2>2. CASE i # 1
    <3>1. i - 1 \in 1..(Len(q) - 1) /\ q[i] = q[(i - 1) + 1]
      BY <1>1, <2>2
    <3> QED
      BY <3>1, <1>2, <1>3 DEF Range
  <2> QED
    BY <2>1, <2>2
<1>6. \A i \in 1..(Len(q) - 1) : Tail(q)[i] \in Range(q)
  BY <1>1, <1>2 DEF Range
<1> QED
  BY <1>1, <1>2, <1>3, <1>4, <1>5, <1>6 DEF Range

\* What a maker in the middle of a creation has in hand.
LEMMA MakerType ==
  ASSUME IInv, NEW h \in Handlers, ~C!At(h, "none")
  PROVE  /\ making[h] \in Making /\ C!Of(h) \in DOMAIN github
         /\ C!Of(h) = making[h].issue /\ github[C!Of(h)] \in Issue
  BY DEF IInv, CreationTypes, HandlerOK, MakerOK, C!Of, C!At

LEMMA RelateKeeps ==
  ASSUME IInv, NEW h \in Handlers, C!At(h, "relate"), C!Relate(h)
  PROVE  /\ Kept /\ C!Asked(h) \in github'[C!Of(h)].related
<1> DEFINE i == C!Of(h)
           v == [github[i] EXCEPT !.related = github[i].related \cup {C!Asked(h)}]
<1>1. i \in DOMAIN github /\ github[i] \in Issue
  BY MakerType DEF C!At
<1>2. C!Asked(h) \in Range(Relations)
  BY Lefts DEF IInv, HandlerOK, MakerOK, C!At, C!Asked
<1>3. github' = [github EXCEPT ![i] = v]
  BY DEF C!Relate
<1>4. /\ v \in Issue /\ v.by = github[i].by /\ v.assigned = github[i].assigned
      /\ v.related = github[i].related \cup {C!Asked(h)}
  BY <1>1, <1>2 DEF Issue
<1> HIDE DEF v, i
<1>5. github'[i] = v /\ \A x \in DOMAIN github \ {i} : github'[x] = github[x]
  BY <1>1, <1>3 DEF IInv, CreationTypes
<1> QED
  BY <1>1, <1>3, <1>4, <1>5 DEF Kept, Grown, IInv, CreationTypes, i

LEMMA PlaceKeeps ==
  ASSUME IInv, NEW h \in Handlers, ~C!At(h, "none"), C!Place(h)
  PROVE  Kept
<1> DEFINE i == C!Of(h)
           v == [github[i] EXCEPT !.item = TRUE]
<1>1. i \in DOMAIN github /\ github[i] \in Issue
  BY MakerType
<1>2. github' = [github EXCEPT ![i] = v]
  BY DEF C!Place
<1>3. /\ v \in Issue /\ v.by = github[i].by /\ v.assigned = github[i].assigned
      /\ v.related = github[i].related
  BY <1>1 DEF Issue
<1> HIDE DEF v, i
<1>4. github'[i] = v /\ \A x \in DOMAIN github \ {i} : github'[x] = github[x]
  BY <1>1, <1>2 DEF IInv, CreationTypes
<1> QED
  BY <1>1, <1>2, <1>3, <1>4 DEF Kept, Grown, IInv, CreationTypes

LEMMA ValueKeeps ==
  ASSUME IInv, NEW x \in DOMAIN github, NEW f \in Range(Fields), NEW value \in C!Value,
         NEW placed \in BOOLEAN,
         github' = [github EXCEPT ![x].item = placed, ![x].values[f] = value]
  PROVE  Kept
<1> DEFINE vals == [github[x].values EXCEPT ![f] = value]
           v1 == [github[x] EXCEPT !.item = placed]
           v == [v1 EXCEPT !.values = vals]
<1>1. github[x] \in Issue
  BY DEF IInv, CreationTypes
<1>2. vals \in [Range(Fields) -> C!Value]
  BY <1>1 DEF Issue
<1> HIDE DEF vals
<1>3. /\ v1 \in Issue /\ v1.by = github[x].by /\ v1.assigned = github[x].assigned
      /\ v1.related = github[x].related /\ v1.values = github[x].values
  BY <1>1 DEF Issue
<1> HIDE DEF v1
<1>4. /\ v \in Issue /\ v.by = github[x].by /\ v.assigned = github[x].assigned
      /\ v.related = github[x].related
  BY <1>2, <1>3 DEF Issue
<1>5. github' = [github EXCEPT ![x] = v]
  BY <1>3 DEF v, v1, vals
<1> HIDE DEF v
<1>6. github'[x] = v /\ \A y \in DOMAIN github \ {x} : github'[y] = github[y]
  BY <1>5 DEF IInv, CreationTypes
<1> QED
  BY <1>4, <1>5, <1>6 DEF Kept, Grown, IInv, CreationTypes

LEMMA SetKeeps ==
  ASSUME IInv, NEW h \in Handlers, C!At(h, "update"), C!Set(h)
  PROVE  Kept
<1> DEFINE i == C!Of(h)
           f == C!Asked(h)
           vals == [github[i].values EXCEPT ![f] = "asked"]
           v == [github[i] EXCEPT !.values = vals]
<1>1. i \in DOMAIN github /\ github[i] \in Issue
  BY MakerType DEF C!At
<1>2. vals \in [Range(Fields) -> C!Value]
  BY <1>1 DEF Issue, C!Value
<1>3. github' = [github EXCEPT ![i] = v]
  BY DEF C!Set
<1> HIDE DEF vals
<1>4. /\ v \in Issue /\ v.by = github[i].by /\ v.assigned = github[i].assigned
      /\ v.related = github[i].related
  BY <1>1, <1>2 DEF Issue
<1> HIDE DEF v, i
<1>5. github'[i] = v /\ \A x \in DOMAIN github \ {i} : github'[x] = github[x]
  BY <1>1, <1>3 DEF IInv, CreationTypes
<1> QED
  BY <1>1, <1>3, <1>4, <1>5 DEF Kept, Grown, IInv, CreationTypes

LEMMA SameKeeps ==
  ASSUME IInv, UNCHANGED github
  PROVE  Kept
  BY DEF Kept, Grown, IInv, CreationTypes

\* A call of a maker keeps what there is on GitHub, and its step goes on.
Called(h) ==
  /\ Kept
  /\ making' \in [Handlers -> Making]
  /\ \A g \in Handlers \ {h} : making'[g] = making[g]
  /\ C!Of(h)' = C!Of(h) /\ ~C!At(h, "none") /\ ~C!At(h, "none")'
  /\ MakerOK(h)'

\* The call for the part at hand, made or failed.
LEMMA NextCallFields ==
  ASSUME IInv, NEW h \in Handlers, making[h].left # <<>>
  PROVE  /\ C!NextCall(h) \in Making /\ C!NextCall(h).issue = making[h].issue
         /\ C!NextCall(h).step = making[h].step /\ C!NextCall(h).left = Tail(making[h].left)
         /\ C!NextCall(h).failed = making[h].failed
<1>1. making[h] \in Making
  BY DEF IInv, CreationTypes
<1>2. Tail(making[h].left) \in Seq(Range(Relations) \cup Range(Fields))
  BY <1>1, Lefts DEF Making
<1> QED
  BY <1>1, <1>2 DEF C!NextCall, Making

LEMMA NextFailedFields ==
  ASSUME IInv, NEW h \in Handlers, making[h].left # <<>>
  PROVE  /\ C!NextFailed(h) \in Making /\ C!NextFailed(h).issue = making[h].issue
         /\ C!NextFailed(h).step = making[h].step /\ C!NextFailed(h).left = Tail(making[h].left)
         /\ C!NextFailed(h).failed = making[h].failed \cup {C!Asked(h)}
<1>1. making[h].left \in Seq(Range(Relations) \cup Range(Fields))
  BY DEF IInv, CreationTypes, Making
<1>2. C!Asked(h) \in C!Parts
  BY <1>1, Lefts, PartsAre DEF C!Asked
<1> QED
  BY <1>2, NextCallFields DEF C!NextFailed, Making

\* A maker that goes on to what comes next.
LEMMA GoesOn ==
  ASSUME IInv, NEW h \in Handlers, NEW m \in Making, C!Go(h, m)
  PROVE  /\ making'[h] = C!Settled(m) /\ making' \in [Handlers -> Making]
         /\ \A g \in Handlers \ {h} : making'[g] = making[g]
  BY SettledFields DEF C!Go, IInv, CreationTypes

\* A maker between the calls for its parts.
LEMMA PartDone ==
  ASSUME IInv, NEW h \in Handlers, NEW step \in {"relate", "update"}, C!At(h, step), Kept,
         C!Go(h, C!NextCall(h)) \/ C!Go(h, C!NextFailed(h)),
         step = "relate" => \/ C!Go(h, C!NextFailed(h))
                            \/ C!Asked(h) \in github'[C!Of(h)].related
  PROVE  Called(h)
<1> DEFINE m == making[h]
<1>1. /\ m \in Making /\ m.left # <<>> /\ m.issue \in DOMAIN github
      /\ step = "relate" => m.left \in Seq(Range(Relations))
      /\ step = "update" => m.left \in Seq(Range(Fields))
      /\ step = "update" => github[m.issue].assigned \/ "assignees" \in m.failed
      /\ Range(Relations) \subseteq github[m.issue].related \cup m.failed \cup
                                    (IF m.step = "relate" THEN Range(m.left) ELSE {})
      /\ m.step = step /\ m.issue # None
  BY DEF IInv, CreationTypes, HandlerOK, MakerOK, C!At
<1>2. PICK n \in Making :
        /\ C!Go(h, n) /\ n.issue = m.issue /\ n.step = m.step /\ n.left = Tail(m.left)
        /\ n.failed = m.failed \/ n.failed = m.failed \cup {C!Asked(h)}
        /\ step = "relate" => \/ C!Asked(h) \in n.failed
                              \/ C!Asked(h) \in github'[C!Of(h)].related
  <2>1. CASE C!Go(h, C!NextFailed(h))
    BY <1>1, <2>1, NextFailedFields
  <2>2. CASE ~C!Go(h, C!NextFailed(h))
    BY <1>1, <2>2, NextCallFields
  <2> QED
    BY <2>1, <2>2
<1> DEFINE t == Tail(m.left)
<1>3. /\ Range(m.left) = {C!Asked(h)} \cup Range(t)
      /\ step = "relate" => t \in Seq(Range(Relations))
      /\ step = "update" => t \in Seq(Range(Fields))
  BY <1>1, Lefts DEF C!Asked
<1>4. /\ making'[h] = C!Settled(n) /\ making' \in [Handlers -> Making]
      /\ \A g \in Handlers \ {h} : making'[g] = making[g]
  BY <1>2, GoesOn
<1>5. /\ making'[h].issue = m.issue /\ making'[h].left = t /\ making'[h].failed = n.failed
      /\ making'[h].step = IF t = <<>> /\ step = "relate" THEN "read"
                           ELSE IF t = <<>> /\ step = "update" THEN "verify" ELSE step
  BY <1>1, <1>2, <1>4, SettledFields
<1>6. /\ m.issue \in DOMAIN github' /\ github'[m.issue].assigned = github[m.issue].assigned
      /\ github[m.issue].related \subseteq github'[m.issue].related
      /\ C!Of(h) = m.issue /\ C!Of(h)' = making'[h].issue
  BY <1>1 DEF Kept, Grown, C!Of
<1>7. t = <<>> => Range(t) = {}
  BY DEF Range
<1> HIDE DEF m, t
<1>8. MakerOK(h)'
  <2>1. (making'[h].step = "none" <=> making'[h].issue = None) /\ making'[h].step # "none"
    BY <1>1, <1>5
  <2>2. Range(Relations) \subseteq github'[m.issue].related \cup n.failed \cup
                                   (IF making'[h].step = "relate" THEN Range(t) ELSE {})
    BY <1>1, <1>2, <1>3, <1>5, <1>6, <1>7
  <2>3. making'[h].step = "relate" => t # <<>> /\ t \in Seq(Range(Relations))
    BY <1>3, <1>5
  <2>4. making'[h].step = "update" => t # <<>> /\ t \in Seq(Range(Fields))
    BY <1>3, <1>5
  <2>5. making'[h].step \in {"add", "update", "verify", "done"} =>
          github'[m.issue].assigned \/ "assignees" \in n.failed
    BY <1>1, <1>2, <1>5, <1>6
  <2> QED
    BY <1>5, <1>6, <2>1, <2>2, <2>3, <2>4, <2>5 DEF MakerOK
<1> QED
  BY <1>1, <1>4, <1>5, <1>6, <1>8 DEF Called, C!At, m

\* What a maker past the relationships has reported.
LEMMA MakerKnows ==
  ASSUME IInv, NEW h \in Handlers, making[h].step \in {"read", "add", "update", "verify", "done"}
  PROVE  /\ making[h] \in Making /\ making[h].issue \in DOMAIN github /\ making[h].issue # None
         /\ C!Of(h) = making[h].issue /\ ~C!At(h, "none")
         /\ Range(Relations) \subseteq github[making[h].issue].related \cup making[h].failed
         /\ making[h].step # "read" =>
              github[making[h].issue].assigned \/ "assignees" \in making[h].failed
  BY DEF IInv, CreationTypes, HandlerOK, MakerOK, C!At, C!Of

\* A maker that goes on from the relationships with more reported.
LEMMA FurtherOn ==
  ASSUME IInv, NEW h \in Handlers, making[h].step \in {"read", "add", "update", "verify"},
         Kept, NEW n \in Making, making'[h] = n, making' \in [Handlers -> Making],
         \A g \in Handlers \ {h} : making'[g] = making[g],
         n.issue = making[h].issue, making[h].failed \subseteq n.failed,
         n.step \in {"add", "update", "verify", "done"},
         n.step = "add" => n.left \in Seq(Range(Fields)),
         n.step = "update" => n.left # <<>> /\ n.left \in Seq(Range(Fields)),
         making[h].step = "read" =>
           github[making[h].issue].assigned \/ "assignees" \in n.failed
  PROVE  Called(h)
<1>1. /\ n.issue \in DOMAIN github' /\ n.issue # None
      /\ github'[n.issue].assigned = github[n.issue].assigned
      /\ github[n.issue].related \subseteq github'[n.issue].related
      /\ C!Of(h) = n.issue /\ C!Of(h)' = n.issue
  BY MakerKnows DEF Kept, Grown, C!Of
<1>2. Range(Relations) \subseteq github'[n.issue].related \cup n.failed
  BY <1>1, MakerKnows
<1>3. github'[n.issue].assigned \/ "assignees" \in n.failed
  BY <1>1, MakerKnows
<1>4. MakerOK(h)'
  BY <1>1, <1>2, <1>3 DEF MakerOK
<1> QED
  BY <1>1, <1>4, MakerKnows DEF Called, C!At

\* Of a creation that has been answered, the answer.
Reported(h) ==
  C!At(h, "done")' /\ ~C!At(h, "done") =>
    LET issue == github'[making'[h].issue]
        told == C!Parts \ making'[h].failed
    IN  /\ told \cap Range(Relations) \subseteq issue.related
        /\ "assignees" \in told => issue.assigned
        /\ \A f \in told \cap Range(Fields) : issue.values[f] = "asked"

\* An answer that reports every field that is not as asked for.
LEMMA Answers ==
  ASSUME IInv, NEW h \in Handlers, making[h].step \in {"read", "add", "verify"}, Kept,
         NEW failed \in SUBSET C!Parts, C!Answer(h, failed),
         \A f \in Range(Fields) \ failed : github'[C!Of(h)].values[f] = "asked",
         making[h].step = "read" => "assignees" \in failed
  PROVE  Called(h) /\ Reported(h)
<1> DEFINE n == [making[h] EXCEPT !.step = "done", !.left = <<>>,
                                  !.failed = making[h].failed \cup failed]
           n1 == [making[h] EXCEPT !.step = "done"]
           n2 == [n1 EXCEPT !.left = <<>>]
           n3 == [n2 EXCEPT !.failed = making[h].failed \cup failed]
<1>1. making[h] \in Making
  BY DEF IInv, CreationTypes
<1>2. n1 \in Making /\ n1.issue = making[h].issue /\ n1.failed = making[h].failed /\ n1.step = "done"
  BY <1>1 DEF Making
<1> HIDE DEF n1
<1>3. <<>> \in Seq(Range(Relations) \cup Range(Fields))
  OBVIOUS
<1>4. n2 \in Making /\ n2.issue = n1.issue /\ n2.step = n1.step
  BY <1>2, <1>3 DEF Making
<1> HIDE DEF n2
<1>5. making[h].failed \cup failed \in SUBSET C!Parts
  BY <1>1 DEF Making
<1>6. /\ n3 \in Making /\ n3.issue = making[h].issue /\ n3.step = "done"
      /\ n3.failed = making[h].failed \cup failed
  BY <1>2, <1>4, <1>5 DEF Making
<1>7. n = n3
  BY DEF n3, n2, n1
<1>8. making' = [making EXCEPT ![h] = n]
  BY DEF C!Answer
<1> HIDE DEF n, n3
<1>9. /\ making'[h] = n3 /\ making' \in [Handlers -> Making]
      /\ \A g \in Handlers \ {h} : making'[g] = making[g]
  BY <1>6, <1>7, <1>8 DEF IInv, CreationTypes
<1>10. Called(h)
  BY <1>6, <1>9, FurtherOn
<1>11. Range(Relations) \subseteq github'[n3.issue].related \cup n3.failed
  BY <1>6, <1>9, <1>10 DEF Called, MakerOK
<1>12. github'[n3.issue].assigned \/ "assignees" \in n3.failed
  BY <1>6, <1>9, <1>10 DEF Called, MakerOK
<1>13. n3.issue = C!Of(h)
  BY <1>6 DEF C!Of
<1> QED
  BY <1>6, <1>9, <1>10, <1>11, <1>12, <1>13 DEF Reported

LEMMA AttachCalled ==
  ASSUME IInv, NEW h \in Handlers, C!Attach(h) \/ C!AttachFails(h)
  PROVE  Called(h) /\ Reported(h)
<1>1. C!At(h, "relate") /\ (C!Relate(h) \/ UNCHANGED github)
  BY DEF C!Attach, C!AttachFails
<1>2. Kept /\ (C!Relate(h) => C!Asked(h) \in github'[C!Of(h)].related)
  BY <1>1, RelateKeeps, SameKeeps
<1>3. \/ C!Relate(h) /\ C!Go(h, C!NextCall(h))
      \/ C!Go(h, C!NextFailed(h))
  BY DEF C!Attach, C!AttachFails
<1>4. Called(h)
  BY <1>1, <1>2, <1>3, PartDone
<1>5. ~C!At(h, "done")'
  <2>1. /\ making[h].left # <<>> /\ making[h].step = "relate"
    BY <1>1 DEF IInv, HandlerOK, MakerOK, C!At
  <2>2. PICK n \in Making : C!Go(h, n) /\ n.step = "relate"
    BY <1>3, <2>1, NextCallFields, NextFailedFields
  <2> QED
    BY <2>2, GoesOn, SettledFields DEF C!At
<1> QED
  BY <1>4, <1>5 DEF Reported

LEMMA UpdateCalled ==
  ASSUME IInv, NEW h \in Handlers, C!Update(h) \/ C!UpdateFails(h)
  PROVE  Called(h) /\ Reported(h)
<1>1. C!At(h, "update") /\ (C!Set(h) \/ UNCHANGED github)
  BY DEF C!Update, C!UpdateFails
<1>2. Kept
  BY <1>1, SetKeeps, SameKeeps
<1>3. C!Go(h, C!NextCall(h)) \/ C!Go(h, C!NextFailed(h))
  BY DEF C!Update, C!UpdateFails
<1>4. Called(h)
  BY <1>1, <1>2, <1>3, PartDone
<1>5. ~C!At(h, "done")'
  <2>1. /\ making[h].left # <<>> /\ making[h].step = "update"
    BY <1>1 DEF IInv, HandlerOK, MakerOK, C!At
  <2>2. PICK n \in Making : C!Go(h, n) /\ n.step = "update"
    BY <1>3, <2>1, NextCallFields, NextFailedFields
  <2> QED
    BY <2>2, GoesOn, SettledFields DEF C!At
<1> QED
  BY <1>4, <1>5 DEF Reported

LEMMA ReadCalled ==
  ASSUME IInv, NEW h \in Handlers, C!Read(h)
  PROVE  Called(h) /\ Reported(h)
<1> DEFINE issue == github[C!Of(h)]
           s == IF issue.item THEN "update" ELSE "add"
           failed == making[h].failed \cup C!Unassigned(h)
           n1 == [making[h] EXCEPT !.step = s]
           n2 == [n1 EXCEPT !.left = Fields]
           n3 == [n2 EXCEPT !.seen = issue.values]
           n4 == [n3 EXCEPT !.failed = failed]
           n == [making[h] EXCEPT !.step = IF issue.item THEN "update" ELSE "add",
                                  !.left = Fields, !.seen = issue.values,
                                  !.failed = making[h].failed \cup C!Unassigned(h)]
<1>1. making[h].step = "read" /\ UNCHANGED github /\ C!Go(h, n)
  BY DEF C!Read, C!At
<1>2. /\ making[h] \in Making /\ issue \in Issue /\ C!Of(h) = making[h].issue
      /\ C!Unassigned(h) = IF github[making[h].issue].assigned THEN {} ELSE {"assignees"}
  BY <1>1, MakerType DEF C!At, C!Unassigned
<1>3. n = n4
  OBVIOUS
<1>4. n1 \in Making /\ n1.issue = making[h].issue /\ n1.step = s
  BY <1>2 DEF Making
<1> HIDE DEF n, n1
<1>5. Fields \in Seq(Range(Relations) \cup Range(Fields)) /\ Fields \in Seq(Range(Fields))
  <2>1. Fields \in Seq(Range(Fields))
    BY ApprovalAssumption
  <2> QED
    BY <2>1
<1>6. n2 \in Making /\ n2.issue = making[h].issue /\ n2.step = s /\ n2.left = Fields
  BY <1>4, <1>5 DEF Making
<1> HIDE DEF n2
<1>7. n3 \in Making /\ n3.issue = making[h].issue /\ n3.step = s /\ n3.left = Fields
  BY <1>2, <1>6 DEF Making, Issue
<1> HIDE DEF n3
<1>8. failed \in SUBSET C!Parts
  BY <1>2, PartsAre DEF Making
<1>9. failed = making[h].failed \cup C!Unassigned(h) /\ s \in {"update", "add"}
  OBVIOUS
<1> HIDE DEF failed, s
<1>10. /\ n4 \in Making /\ n4.issue = making[h].issue /\ n4.step = s /\ n4.left = Fields
       /\ n4.failed = failed
  BY <1>7, <1>8 DEF Making
<1> HIDE DEF n4
<1>11. /\ making'[h] = C!Settled(n4) /\ making' \in [Handlers -> Making]
       /\ \A g \in Handlers \ {h} : making'[g] = making[g]
  BY <1>1, <1>3, <1>10, GoesOn
<1>12. /\ making'[h] \in Making /\ making'[h].issue = making[h].issue /\ making'[h].left = Fields
       /\ making'[h].failed = failed
       /\ making'[h].step = IF Fields = <<>> /\ s = "update" THEN "verify" ELSE s
  BY <1>9, <1>10, <1>11, SettledFields
<1>13. Kept
  BY <1>1, SameKeeps
<1>14. Called(h)
  BY <1>1, <1>2, <1>5, <1>9, <1>11, <1>12, <1>13, FurtherOn
<1>15. ~C!At(h, "done")'
  BY <1>9, <1>12 DEF C!At
<1> QED
  BY <1>14, <1>15 DEF Reported

LEMMA AddCalled ==
  ASSUME IInv, NEW h \in Handlers, C!Add(h)
  PROVE  Called(h) /\ Reported(h)
<1> DEFINE n == [making[h] EXCEPT !.step = "update"]
<1>1. making[h].step = "add" /\ C!Place(h) /\ C!Go(h, n)
  BY DEF C!Add, C!At
<1>2. making[h] \in Making /\ making[h].left \in Seq(Range(Fields))
  BY <1>1 DEF IInv, CreationTypes, HandlerOK, MakerOK
<1>3. /\ n \in Making /\ n.issue = making[h].issue /\ n.step = "update"
      /\ n.left = making[h].left /\ n.failed = making[h].failed
  BY <1>2 DEF Making
<1> HIDE DEF n
<1>4. /\ making'[h] = C!Settled(n) /\ making' \in [Handlers -> Making]
      /\ \A g \in Handlers \ {h} : making'[g] = making[g]
  BY <1>1, <1>3, GoesOn
<1>5. /\ making'[h] \in Making /\ making'[h].issue = making[h].issue
      /\ making'[h].left = making[h].left /\ making'[h].failed = making[h].failed
      /\ making'[h].step = IF making[h].left = <<>> THEN "verify" ELSE "update"
  BY <1>3, <1>4, SettledFields
<1>6. Kept
  BY <1>1, PlaceKeeps DEF C!At
<1>7. Called(h)
  BY <1>1, <1>2, <1>4, <1>5, <1>6, FurtherOn
<1>8. ~C!At(h, "done")'
  BY <1>5 DEF C!At
<1> QED
  BY <1>7, <1>8 DEF Reported

LEMMA SyncFailsCalled ==
  ASSUME IInv, NEW h \in Handlers, C!ReadFails(h) \/ C!AddFails(h)
  PROVE  Called(h) /\ Reported(h)
<1>1. /\ making[h].step \in {"read", "add"} /\ C!SyncFails(h)
      /\ C!Place(h) \/ UNCHANGED github
  BY DEF C!ReadFails, C!AddFails, C!At
<1>2. C!Answer(h, Range(Fields) \cup {"assignees"})
  BY <1>1 DEF C!SyncFails, C!Range, Range
<1>3. Kept
  BY <1>1, PlaceKeeps, SameKeeps DEF C!At
<1> QED
  BY <1>1, <1>2, <1>3, PartsAre, Answers

LEMMA VerifyCalled ==
  ASSUME IInv, NEW h \in Handlers, C!Verify(h) \/ C!VerifyFails(h)
  PROVE  Called(h) /\ Reported(h)
<1> DEFINE all == {f \in Range(Fields) : github[C!Of(h)].values[f] # "asked"} \cup C!Unassigned(h)
<1>1. making[h].step = "verify" /\ UNCHANGED github
  BY DEF C!Verify, C!VerifyFails, C!At
<1>2. C!Answer(h, all) \/ C!Answer(h, Range(Fields))
  BY DEF C!Verify, C!VerifyFails, C!Range, Range
<1>3. all \in SUBSET C!Parts /\ Range(Fields) \in SUBSET C!Parts
  BY PartsAre DEF C!Unassigned
<1>4. \A f \in Range(Fields) \ all : github'[C!Of(h)].values[f] = "asked"
  BY <1>1
<1>5. Kept
  BY <1>1, SameKeeps
<1> HIDE DEF all
<1> QED
  BY <1>1, <1>2, <1>3, <1>4, <1>5, Answers

LEMMA CreationSteps ==
  ASSUME IInv, NEW h \in Handlers, C!Work(h) \/ C!Fault(h)
  PROVE  Called(h) /\ Reported(h)
  BY AttachCalled, UpdateCalled, ReadCalled, AddCalled, SyncFailsCalled, VerifyCalled
  DEF C!Work, C!Fault
-----------------------------------------------------------------------------
(* What a step of one handler leaves to the others. *)

\* The types of everything but the creations.
Typed(h) ==
  /\ approval \in [Requests -> Doc]
  /\ expired \subseteq Requests
  /\ audit \subseteq [request : Requests, action : Status \cup {"requested", "failed"},
                      actor : Users \cup {None}, revision : Nat]
  /\ at \in [Handlers -> Places]
  /\ held \in [Handlers -> Hold]
  /\ at[h] # "idle" => Job(h) \in Requests
  /\ mishaps \in Nat

Others(h) == \A g \in Handlers \ {h} :
  at'[g] = at[g] /\ held'[g] = held[g] /\ making'[g] = making[g]

LEMMA TypeParts == TypeOK => \A h \in Handlers : Typed(h)
  BY DEF TypeOK, Typed

MakersOK == \A h \in Handlers : MakerOK(h)

LEMMA CreationTypeOK == CreationTypes /\ MakersOK => C!TypeOK
<1> SUFFICES ASSUME CreationTypes, MakersOK PROVE C!TypeOK
  OBVIOUS
<1>1. /\ C!Parts = Range(Relations) \cup Range(Fields) \cup {"assignees"}
      /\ C!Range(Relations) = Range(Relations) /\ C!Range(Fields) = Range(Fields)
  BY PartsAre DEF C!Range, Range
<1>2. ASSUME NEW x \in DOMAIN github
      PROVE  /\ github[x].related \subseteq Range(Relations)
             /\ github[x].assigned \in BOOLEAN /\ github[x].item \in BOOLEAN
             /\ github[x].values \in [Range(Fields) -> C!Value]
  BY DEF CreationTypes, Issue
<1>3. ASSUME NEW h \in Handlers
      PROVE  /\ C!Of(h) \in DOMAIN github \cup {None}
             /\ making[h].step \in {"none", "relate", "read", "add", "update", "verify", "done"}
             /\ making[h].failed \subseteq C!Parts
             /\ C!At(h, "none") <=> C!Of(h) = None
  BY DEF CreationTypes, Making, MakersOK, MakerOK, C!Of, C!At
<1> QED
  BY <1>1, <1>2, <1>3 DEF C!TypeOK

LEMMA TypesKept ==
  ASSUME IInv, NEW h \in Handlers, Typed(h)', Others(h), CreationTypes', MakersOK'
  PROVE  TypeOK'
<1>1. C!TypeOK'
  BY CreationTypeOK, PTL
<1>2. \A g \in Handlers : at'[g] # "idle" => Job(g)' \in Requests
  BY DEF Typed, Others, IInv, TypeOK, Job
<1>3. \A x \in DOMAIN github' : github'[x].by \in Users
  BY DEF CreationTypes, Issue
<1> QED
  BY <1>1, <1>2, <1>3 DEF TypeOK, Typed, CreationTypes

\* The document of r stays or is moved on, by a handler that may.
Written(h, r) ==
  \/ approval'[r] = approval[r]
  \/ /\ approval[r].revision < approval'[r].revision
     /\ approval[r].status # "approved" /\ approval'[r].status # "none"
     /\ \A g \in Handlers \ {h} :
          Job(g) = r => ~Claims(g) /\ ~(at[g] = "create" /\ Direct(g))

LEMMA OthersKeep ==
  ASSUME IInv, NEW h \in Handlers, NEW r \in Requests, Others(h), Typed(h)', audit \subseteq audit',
         \A q \in Requests \ {r} : approval'[q] = approval[q],
         Written(h, r),
         \A g \in Handlers \ {h} : ~C!At(g, "none") =>
           C!Of(g) \in DOMAIN github' /\ Grown(C!Of(g))
  PROVE  \A g \in Handlers \ {h} : HandlerOK(g)' /\ (Claims(g)' => Claims(g))
<1> SUFFICES ASSUME NEW g \in Handlers \ {h} PROVE HandlerOK(g)' /\ (Claims(g)' => Claims(g))
  OBVIOUS
<1>1. /\ at'[g] = at[g] /\ held'[g] = held[g] /\ making'[g] = making[g]
      /\ Job(g)' = Job(g) /\ Direct(g)' = Direct(g) /\ Creating(g)' = Creating(g)
      /\ C!Of(g)' = C!Of(g) /\ IssueOf(g)' = IssueOf(g)
      /\ \A s : C!At(g, s)' <=> C!At(g, s)
  BY DEF Others, Job, Direct, Creating, C!Of, C!At, IssueOf
<1>2. HandlerOK(g) /\ (at[g] # "idle" => Job(g) \in Requests) /\ held[g] \in Hold
  BY DEF IInv, TypeOK
<1> DEFINE a == approval[Job(g)]
           b == approval'[Job(g)]
           d == held[g].doc
<1>3. at[g] # "idle" => /\ a.revision \in Nat /\ b.revision \in Nat /\ d.revision \in Nat
                        /\ \/ b = a
                           \/ /\ a.revision < b.revision /\ a.status # "approved"
                              /\ ~Claims(g) /\ ~(at[g] = "create" /\ Direct(g))
  BY <1>2 DEF IInv, TypeOK, Typed, Doc, Hold, Written
<1>4. MakerOK(g)'
  <2>1. MakerOK(g)
    BY <1>2 DEF HandlerOK
  <2>2. CASE making[g].step = "none"
    BY <1>1, <2>1, <2>2 DEF MakerOK, C!Idle
  <2>3. CASE making[g].step # "none"
    <3>1. /\ making[g].issue \in DOMAIN github' /\ Grown(making[g].issue)
      BY <2>3 DEF C!At, C!Of
    <3> QED
      BY <1>1, <2>1, <2>3, <3>1 DEF MakerOK, Grown
  <2> QED
    BY <2>2, <2>3
<1>5. Claims(g)' => Claims(g) /\ b = a
  <2> SUFFICES ASSUME Claims(g)' PROVE Claims(g) /\ b = a
    OBVIOUS
  <2>1. /\ d.status = "processing" /\ at[g] # "idle"
        /\ at[g] = "append" \/ Creating(g) \/ (at[g] = "recover" /\ b = d)
    BY <1>1 DEF Claims, Creating
  <2>2. CASE at[g] = "append" \/ Creating(g)
    BY <1>3, <2>1, <2>2 DEF Claims
  <2>3. CASE at[g] = "recover" /\ b = d
    <3>1. d.revision <= a.revision
      BY <1>2, <1>3, <2>1, <2>3 DEF HandlerOK, RecoverOK
    <3>2. b = a
      BY <1>3, <2>1, <2>3, <3>1
    <3> QED
      BY <2>1, <2>3, <3>2 DEF Claims
  <2> QED
    BY <2>1, <2>2, <2>3
<1>6. ClaimOK(g)'
  BY <1>1, <1>2, <1>5 DEF HandlerOK, ClaimOK
<1>7. ReaderOK(g)'
  <2>1. at[g] # "idle" /\ Knows(g) => Knows(g)'
    BY <1>1, <1>3 DEF Knows
  <2> QED
    BY <1>1, <1>2, <1>3, <2>1 DEF HandlerOK, ReaderOK
<1>8. RecoverOK(g)'
  <2> SUFFICES ASSUME at[g] = "recover"
               PROVE  /\ d.status \in {"processing", "approved"} /\ 0 < d.revision
                      /\ d.status = "processing" =>
                           b = d \/ (b.status = "approved" /\ d.revision < b.revision)
    BY <1>1 DEF RecoverOK
  <2>1. d.status = "processing" /\ a = d => b = a
    BY <1>3 DEF Claims
  <2> QED
    BY <1>2, <1>3, <2>1 DEF HandlerOK, RecoverOK
<1>9. CreatorOK(g)'
  <2> SUFFICES ASSUME at[g] = "create" PROVE CreatorOK(g)'
    BY <1>1 DEF CreatorOK
  <2>1. CreatorOK(g) /\ Entry(g, "processing")' = Entry(g, "processing")
    BY <1>1, <1>2 DEF HandlerOK, Entry
  <2>2. Direct(g) => b.revision = 0
    BY <1>3, <2>1 DEF CreatorOK
  <2>3. Entry(g, "processing") \in audit => Entry(g, "processing") \in audit'
    OBVIOUS
  <2>4. ~C!At(g, "none") => C!Of(g) = IssueOf(g) /\ github'[IssueOf(g)].by = held[g].user
    BY <2>1 DEF CreatorOK, Grown
  <2> QED
    BY <1>1, <2>1, <2>2, <2>3, <2>4 DEF CreatorOK
<1> QED
  BY <1>1, <1>2, <1>4, <1>5, <1>6, <1>7, <1>8, <1>9 DEF HandlerOK

\* A handler comes to a claim, to a creation without one and to a request as
\* nobody else has it.
Joins(h) ==
  /\ Claims(h)' => \/ Claims(h) /\ Job(h)' = Job(h)
                   \/ \A g \in Handlers \ {h} : Job(g) = Job(h)' => ~Claims(g)
  /\ (at[h] = "create" /\ Direct(h))' =>
       \/ at[h] = "create" /\ Direct(h) /\ Job(h)' = Job(h)
       \/ \A g \in Handlers \ {h} : Job(g) # Job(h)'
  /\ \/ Job(h)' \in {Job(h), None}
     \/ \A g \in Handlers \ {h} : Job(g) = Job(h)' => ~(at[g] = "create" /\ Direct(g))

LEMMA AloneKept ==
  ASSUME IInv, NEW h \in Handlers, Others(h), Typed(h)', Joins(h),
         \A g \in Handlers \ {h} : Claims(g)' => Claims(g)
  PROVE  Alone'
<1>1. \A g \in Handlers \ {h} : /\ at'[g] = at[g] /\ held'[g] = held[g]
                                /\ Job(g)' = Job(g) /\ Direct(g)' = Direct(g)
  BY DEF Others, Job, Direct
<1>2. \A g \in Handlers : at[g] # "idle" => Job(g) # None
  BY ApprovalAssumption DEF IInv, TypeOK
<1>3. at'[h] # "idle" => Job(h)' # None
  BY ApprovalAssumption DEF Typed
<1>4. \A g \in Handlers : Claims(g) => at[g] # "idle"
  BY DEF Claims, Creating
<1>5. ASSUME NEW g \in Handlers, NEW k \in Handlers, Claims(g)', Claims(k)', Job(g)' = Job(k)'
      PROVE  g = k
  <2>1. CASE g # h /\ k # h
    BY <1>1, <1>5, <2>1 DEF IInv, Alone
  <2>2. \A f \in Handlers \ {h} : Claims(f)' /\ Claims(h)' /\ Job(f)' = Job(h)' => FALSE
    <3> SUFFICES ASSUME NEW f \in Handlers \ {h}, Claims(f)', Claims(h)', Job(f)' = Job(h)'
                 PROVE  FALSE
      OBVIOUS
    <3>1. Claims(f) /\ Job(f) = Job(h)'
      BY <1>1
    <3>2. Claims(h) /\ Job(h) = Job(f)
      BY <3>1 DEF Joins
    <3> QED
      BY <3>1, <3>2 DEF IInv, Alone
  <2> QED
    BY <1>5, <2>1, <2>2
<1>6. ASSUME NEW g \in Handlers, NEW k \in Handlers,
             (at[k] = "create" /\ Direct(k))', Job(g)' = Job(k)'
      PROVE  g = k
  <2>1. CASE g # h /\ k # h
    BY <1>1, <1>6, <2>1 DEF IInv, Alone
  <2>2. CASE k = h /\ g # h
    <3>1. Job(g) = Job(h)'
      BY <1>1, <1>6, <2>2
    <3>2. at[h] = "create" /\ Direct(h) /\ Job(h)' = Job(h)
      BY <1>6, <2>2, <3>1 DEF Joins
    <3> QED
      BY <2>2, <3>1, <3>2 DEF IInv, Alone
  <2>3. CASE k # h /\ g = h
    <3>1. at[k] = "create" /\ Direct(k) /\ Job(k) = Job(h)' /\ Job(k) # None
      BY <1>1, <1>2, <1>6, <2>3
    <3>2. Job(h) = Job(k)
      BY <2>3, <3>1 DEF Joins
    <3> QED
      BY <2>3, <3>1, <3>2 DEF IInv, Alone
  <2> QED
    BY <2>1, <2>2, <2>3
<1> QED
  BY <1>5, <1>6 DEF Alone

\* An approved request says the truth of its Issue.
ApprovedTrue(r) == LET doc == approval[r]
                       x == [request |-> r, claim |-> doc.issue]
                   IN  doc.status = "approved" =>
  /\ x \in DOMAIN github
  /\ github[x].by = doc.by
  /\ Range(Relations) \ doc.failed \subseteq github[x].related
  /\ \A y \in DOMAIN github : y.request = r => y.claim <= doc.issue

\* A step of one handler that leaves GitHub alone.
LEMMA HandlerStep ==
  ASSUME IInv, NEW h \in Handlers, NEW r \in Requests, Others(h), Typed(h)',
         UNCHANGED github, making' \in [Handlers -> Making], audit \subseteq audit',
         \A q \in Requests \ {r} : approval'[q] = approval[q],
         Written(h, r), HandlerOK(h)', Joins(h),
         ApprovedTrue(r)'
  PROVE  IInv'
<1>1. CreationTypes'
  BY DEF IInv, CreationTypes
<1>2. \A g \in Handlers \ {h} : ~C!At(g, "none") =>
        C!Of(g) \in DOMAIN github' /\ Grown(C!Of(g))
  BY MakerType DEF Grown
<1>3. \A g \in Handlers \ {h} : HandlerOK(g)' /\ (Claims(g)' => Claims(g))
  BY <1>2, OthersKeep
<1>4. \A g \in Handlers : HandlerOK(g)'
  BY <1>3
<1>5. TypeOK'
  BY <1>1, <1>4, TypesKept DEF HandlerOK, MakersOK
<1>6. Alone'
  BY <1>3, AloneKept
<1>7. \A q \in Requests : approval[q].revision \in Nat /\ approval'[q].revision \in Nat
  BY DEF IInv, TypeOK, Typed, Doc
<1>8. \A q \in Requests : RequestOK(q)'
  BY <1>7 DEF IInv, RequestOK, Written
<1>9. ClaimsPast'
  <2> SUFFICES ASSUME NEW x \in DOMAIN github
               PROVE  x.claim <= approval'[x.request].revision
    BY DEF ClaimsPast
  <2>1. x.request \in Requests /\ x.claim \in Nat /\ x.claim <= approval[x.request].revision
    BY DEF IInv, CreationTypes, ClaimsPast
  <2> QED
    BY <1>7, <2>1 DEF Written
<1>10. CreatedByRight'
  BY DEF IInv, CreatedByRight
<1>11. ApprovedIsTrue'
  <2>1. \A q \in Requests : ApprovedTrue(q)'
    BY DEF IInv, ApprovedIsTrue, ApprovedTrue
  <2> QED
    BY <2>1 DEF ApprovedIsTrue, ApprovedTrue
<1> QED
  BY <1>1, <1>4, <1>5, <1>6, <1>8, <1>9, <1>10, <1>11 DEF IInv

\* A step that leaves the documents alone too.
LEMMA QuietStep ==
  ASSUME IInv, NEW h \in Handlers, Others(h), Typed(h)',
         UNCHANGED <<github, approval>>, making' \in [Handlers -> Making], audit \subseteq audit',
         HandlerOK(h)', Joins(h), Job(h) \in Requests \/ Job(h)' \in Requests
  PROVE  IInv'
<1>1. PICK r \in Requests : TRUE
  OBVIOUS
<1>2. ApprovedTrue(r)'
  BY DEF ApprovedTrue, IInv, ApprovedIsTrue
<1> QED
  BY <1>2, HandlerStep DEF Written
-----------------------------------------------------------------------------
(* Lemmas about IssueApproval's helpers. *)

LEMMA NoHoldFields ==
  /\ NoDoc \in Doc /\ NoDoc.revision = 0 /\ NoDoc.status = "none" /\ NoDoc.by = None
  /\ NoHold \in Hold /\ NoHold.job = None /\ NoHold.doc = NoDoc
<1>1. NoDoc \in Doc
  BY DEF NoDoc, Doc, Status
<1> QED
  BY <1>1 DEF NoHold, Hold, NoDoc

\* What a handler has in hand.
LEMMA HeldFields ==
  ASSUME IInv, NEW h \in Handlers
  PROVE  /\ held[h] \in Hold /\ Job(h) = held[h].job /\ held[h].doc \in Doc
         /\ held[h].user \in Users \cup {None}
         /\ held[h].doc.revision \in Nat /\ held[h].doc.status \in Status
         /\ at[h] \in Places
         /\ at[h] # "idle" => Job(h) \in Requests
  BY DEF IInv, TypeOK, Hold, Doc, Job

LEMMA StoredFields ==
  ASSUME IInv, NEW r \in Requests
  PROVE  /\ approval[r] \in Doc /\ approval[r].revision \in Nat
         /\ approval[r].status \in Status
         /\ approval[r].revision = 0 <=> approval[r].status = "none"
  BY NoHoldFields DEF IInv, TypeOK, Doc, RequestOK

LEMMA MovedFields ==
  ASSUME IInv, NEW h \in Handlers, NEW s \in Status, NEW u \in Users \cup {None}
  PROVE  /\ Moved(h, s, u) \in Doc
         /\ Moved(h, s, u).revision = held[h].doc.revision + 1
         /\ Moved(h, s, u).status = s /\ Moved(h, s, u).by = u
<1> DEFINE d == held[h].doc
           d1 == [d EXCEPT !.revision = d.revision + 1]
           d2 == [d1 EXCEPT !.status = s]
           d3 == [d2 EXCEPT !.by = u]
<1>1. d \in Doc /\ d.revision \in Nat
  BY HeldFields
<1>2. Moved(h, s, u) = d3
  BY DEF Moved
<1>3. d1 \in Doc /\ d1.revision = d.revision + 1
  BY <1>1 DEF Doc
<1> HIDE DEF d1
<1>4. d2 \in Doc /\ d2.revision = d1.revision /\ d2.status = s
  BY <1>3 DEF Doc
<1> HIDE DEF d2
<1>5. d3 \in Doc /\ d3.revision = d2.revision /\ d3.status = d2.status /\ d3.by = u
  BY <1>4 DEF Doc
<1> HIDE DEF d3
<1> QED
  BY <1>2, <1>3, <1>4, <1>5

LEMMA ApprovedFields ==
  ASSUME IInv, NEW h \in Handlers
  PROVE  /\ ApprovedDoc(h) \in Doc
         /\ ApprovedDoc(h).revision = held[h].doc.revision + 1
         /\ ApprovedDoc(h).status = "approved" /\ ApprovedDoc(h).by = held[h].user
         /\ ApprovedDoc(h).issue = held[h].doc.revision
         /\ ApprovedDoc(h).failed = making[h].failed
<1> DEFINE d == Moved(h, "approved", held[h].user)
           d1 == [d EXCEPT !.issue = held[h].doc.revision]
           d2 == [d1 EXCEPT !.failed = making[h].failed]
<1>1. /\ d \in Doc /\ d.revision = held[h].doc.revision + 1 /\ d.status = "approved"
      /\ d.by = held[h].user
  BY HeldFields, MovedFields DEF Status
<1>2. making[h].failed \in SUBSET C!Parts
  BY DEF IInv, CreationTypes, Making
<1>3. ApprovedDoc(h) = d2
  BY DEF ApprovedDoc
<1> HIDE DEF d
<1>4. /\ d1 \in Doc /\ d1.revision = d.revision /\ d1.status = d.status /\ d1.by = d.by
      /\ d1.issue = held[h].doc.revision
  BY <1>1, HeldFields DEF Doc
<1> HIDE DEF d1
<1>5. /\ d2 \in Doc /\ d2.revision = d1.revision /\ d2.status = d1.status /\ d2.by = d1.by
      /\ d2.issue = d1.issue /\ d2.failed = making[h].failed
  BY <1>2, <1>4 DEF Doc
<1> HIDE DEF d2
<1> QED
  BY <1>1, <1>3, <1>4, <1>5

\* The document of a request given back.
GivenBack(h) == [ClaimDoc(h) EXCEPT !.revision = @ + 1, !.status = "pending", !.by = None]

LEMMA GivenBackFields ==
  ASSUME IInv, NEW h \in Handlers, 0 < held[h].doc.revision
  PROVE  /\ GivenBack(h) \in Doc /\ GivenBack(h).status = "pending"
         /\ GivenBack(h).revision = ClaimDoc(h).revision + 1
         /\ ClaimDoc(h).revision = IF held[h].doc.status = "approved"
                                   THEN held[h].doc.revision - 1 ELSE held[h].doc.revision
<1> DEFINE d == held[h].doc
           c == ClaimDoc(h)
           c1 == [d EXCEPT !.revision = d.revision - 1]
           c2 == [c1 EXCEPT !.status = "processing"]
           c3 == [c2 EXCEPT !.issue = 0]
           c4 == [c3 EXCEPT !.failed = {}]
           d1 == [c EXCEPT !.revision = c.revision + 1]
           d2 == [d1 EXCEPT !.status = "pending"]
           d3 == [d2 EXCEPT !.by = None]
<1>1. d \in Doc /\ d.revision \in Nat /\ d.revision - 1 \in Nat
  BY HeldFields
<1>2. c = IF d.status = "approved" THEN c4 ELSE d
  BY DEF ClaimDoc
<1>3. GivenBack(h) = d3
  BY DEF GivenBack
<1> HIDE DEF c
<1>4. c1 \in Doc /\ c1.revision = d.revision - 1
  BY <1>1 DEF Doc
<1> HIDE DEF c1
<1>5. c2 \in Doc /\ c2.revision = c1.revision
  BY <1>4 DEF Doc, Status
<1> HIDE DEF c2
<1>6. c3 \in Doc /\ c3.revision = c2.revision
  BY <1>5 DEF Doc
<1> HIDE DEF c3
<1>7. c4 \in Doc /\ c4.revision = c3.revision
  BY <1>6 DEF Doc
<1> HIDE DEF c4
<1>8. /\ c \in Doc /\ c.revision \in Nat
      /\ c.revision = IF d.status = "approved" THEN d.revision - 1 ELSE d.revision
  BY <1>1, <1>2, <1>4, <1>5, <1>6, <1>7
<1>9. d1 \in Doc /\ d1.revision = c.revision + 1
  BY <1>8 DEF Doc
<1> HIDE DEF d1
<1>10. d2 \in Doc /\ d2.revision = d1.revision /\ d2.status = "pending"
  BY <1>9 DEF Doc, Status
<1> HIDE DEF d2
<1>11. d3 \in Doc /\ d3.revision = d2.revision /\ d3.status = "pending"
  BY <1>10 DEF Doc
<1> HIDE DEF d3
<1> QED
  BY <1>3, <1>8, <1>9, <1>10, <1>11 DEF c

LEMMA EntryType ==
  ASSUME IInv, NEW h \in Handlers, Job(h) \in Requests,
         NEW action \in Status \cup {"requested", "failed"}
  PROVE  Entry(h, action) \in [request : Requests, action : Status \cup {"requested", "failed"},
                               actor : Users \cup {None}, revision : Nat]
  BY HeldFields DEF Entry

\* What a handler's moves do to the variables.
LEMMA GotoFields ==
  ASSUME IInv, NEW h \in Handlers, NEW place \in Places, Goto(h, place)
  PROVE  /\ at' \in [Handlers -> Places] /\ held' \in [Handlers -> Hold]
         /\ at'[h] = place /\ held' = held /\ Job(h)' = Job(h) /\ Direct(h)' = Direct(h)
         /\ \A g \in Handlers \ {h} : at'[g] = at[g] /\ held'[g] = held[g]
  BY DEF Goto, IInv, TypeOK, Job, Direct

LEMMA WithFields ==
  ASSUME IInv, NEW h \in Handlers, NEW doc \in Doc, NEW place \in Places, With(h, doc, place)
  PROVE  /\ at' \in [Handlers -> Places] /\ held' \in [Handlers -> Hold]
         /\ at'[h] = place /\ held'[h].doc = doc /\ held'[h].user = held[h].user
         /\ held'[h].command = held[h].command /\ Job(h)' = Job(h)
         /\ \A g \in Handlers \ {h} : at'[g] = at[g] /\ held'[g] = held[g]
<1> DEFINE n == [held[h] EXCEPT !.doc = doc]
<1>1. held[h] \in Hold
  BY HeldFields
<1>2. /\ n \in Hold /\ n.doc = doc /\ n.user = held[h].user
      /\ n.command = held[h].command /\ n.job = held[h].job
  BY <1>1 DEF Hold
<1>3. held' = [held EXCEPT ![h] = n] /\ at' = [at EXCEPT ![h] = place]
  BY DEF With
<1> HIDE DEF n
<1> QED
  BY <1>2, <1>3 DEF IInv, TypeOK, Job

\* A handler that rests has nothing in hand and disturbs nobody.
LEMMA RestFields ==
  ASSUME IInv, NEW h \in Handlers, Rest(h),
         making'[h] = C!Idle \/ (UNCHANGED making /\ at[h] # "create")
  PROVE  /\ at' \in [Handlers -> Places] /\ held' \in [Handlers -> Hold]
         /\ at'[h] = "idle"
         /\ \A g \in Handlers \ {h} : at'[g] = at[g] /\ held'[g] = held[g]
         /\ HandlerOK(h)' /\ Joins(h)
<1>1. /\ at' = [at EXCEPT ![h] = "idle"] /\ held' = [held EXCEPT ![h] = NoHold]
  BY DEF Rest
<1>2. /\ at' \in [Handlers -> Places] /\ held' \in [Handlers -> Hold]
      /\ at'[h] = "idle" /\ held'[h] = NoHold
      /\ \A g \in Handlers \ {h} : at'[g] = at[g] /\ held'[g] = held[g]
  BY <1>1, NoHoldFields DEF IInv, TypeOK, Places
<1>3. making'[h] = C!Idle
  BY DEF IInv, HandlerOK, MakerOK, C!At
<1>4. MakerOK(h)' /\ C!At(h, "none")'
  BY <1>3, IdleFields DEF MakerOK, C!At, C!Idle
<1>5. ~Claims(h)' /\ Job(h)' = None
  BY <1>2, NoHoldFields DEF Claims, Creating, Job
<1>6. HandlerOK(h)'
  BY <1>2, <1>4, <1>5 DEF HandlerOK, ClaimOK, ReaderOK, RecoverOK, CreatorOK
<1>7. Joins(h)
  BY <1>2, <1>5 DEF Joins
<1> QED
  BY <1>2, <1>6, <1>7

\* Nobody has claimed a request that is pending.
LEMMA NobodyClaims ==
  ASSUME IInv, NEW r \in Requests, approval[r].status = "pending"
  PROVE  \A g \in Handlers : Job(g) = r => ~Claims(g) /\ ~(at[g] = "create" /\ Direct(g))
<1> SUFFICES ASSUME NEW g \in Handlers, Job(g) = r
             PROVE  ~Claims(g) /\ ~(at[g] = "create" /\ Direct(g))
  OBVIOUS
<1>1. ~Claims(g)
  BY DEF IInv, HandlerOK, ClaimOK, Claims
<1>2. ~(at[g] = "create" /\ Direct(g))
  BY NoHoldFields DEF IInv, HandlerOK, CreatorOK, RequestOK
<1> QED
  BY <1>1, <1>2

\* Nobody else has claimed a request that one handler has.
LEMMA NobodyElse ==
  ASSUME IInv, NEW h \in Handlers, Claims(h), Job(h) \in Requests
  PROVE  \A g \in Handlers \ {h} :
           Job(g) = Job(h) => ~Claims(g) /\ ~(at[g] = "create" /\ Direct(g))
<1> SUFFICES ASSUME NEW g \in Handlers \ {h}, Job(g) = Job(h)
             PROVE  ~Claims(g) /\ ~(at[g] = "create" /\ Direct(g))
  OBVIOUS
<1>1. ~Claims(g)
  BY DEF IInv, Alone
<1>2. approval[Job(h)].status = "processing"
  BY DEF IInv, HandlerOK, ClaimOK, Claims
<1>3. ~(at[g] = "create" /\ Direct(g))
  BY <1>2, NoHoldFields DEF IInv, HandlerOK, CreatorOK, RequestOK
<1> QED
  BY <1>1, <1>3
-----------------------------------------------------------------------------
(* One lemma per step. *)

Audits == [request : Requests, action : Status \cup {"requested", "failed"},
           actor : Users \cup {None}, revision : Nat]

\* A handler that rests and writes at most to the audit log.
LEMMA RestInv ==
  ASSUME IInv, NEW h \in Handlers, at[h] # "idle", Rest(h), UNCHANGED <<approval, expired, github>>,
         making' \in [Handlers -> Making],
         \A g \in Handlers \ {h} : making'[g] = making[g],
         making'[h] = C!Idle \/ (UNCHANGED making /\ at[h] # "create"),
         audit \subseteq audit', audit' \subseteq Audits, mishaps' \in Nat
  PROVE  IInv'
<1>1. Others(h) /\ HandlerOK(h)' /\ Joins(h)
  BY RestFields DEF Others
<1>2. Typed(h)'
  <2>1. /\ at' \in [Handlers -> Places] /\ held' \in [Handlers -> Hold] /\ at'[h] = "idle"
    BY RestFields
  <2> QED
    BY <2>1 DEF Typed, IInv, TypeOK, Audits
<1>3. Job(h) \in Requests
  BY HeldFields
<1> QED
  BY <1>1, <1>2, <1>3, QuietStep

LEMMA AuditsKept == IInv => audit \subseteq Audits /\ mishaps \in Nat /\ making \in [Handlers -> Making]
  BY DEF IInv, TypeOK, CreationTypes, Audits

LEMMA SubmitInv ==
  ASSUME IInv, NEW h \in Handlers, NEW r \in Requests, Submit(h, r)
  PROVE  IInv'
<1> DEFINE n == [job |-> r, user |-> Requester[r], command |-> "request", doc |-> NoDoc]
<1>1. /\ at[h] = "idle" /\ Unasked(r) /\ Requester[r] \in SelfApprovers
      /\ at' = [at EXCEPT ![h] = "create"] /\ held' = [held EXCEPT ![h] = n]
      /\ UNCHANGED <<approval, expired, github, making, audit, mishaps>>
  BY DEF Submit, creation
<1>2. n \in Hold /\ Requester[r] \in Users
  BY NoHoldFields, ApprovalAssumption DEF Hold, Commands
<1>3. n.job = r /\ n.user = Requester[r] /\ n.doc = NoDoc
  OBVIOUS
<1> HIDE DEF n
<1>4. /\ at' \in [Handlers -> Places] /\ held' \in [Handlers -> Hold]
      /\ at'[h] = "create" /\ held'[h] = n
      /\ \A g \in Handlers \ {h} : at'[g] = at[g] /\ held'[g] = held[g]
  BY <1>1, <1>2 DEF IInv, TypeOK, Places
<1>5. Job(h)' = r /\ Direct(h)' /\ ~Creating(h)'
  BY <1>3, <1>4, NoHoldFields DEF Job, Direct, Creating
<1>6. Others(h) /\ Typed(h)'
  BY <1>1, <1>4, <1>5 DEF Others, Typed, IInv, TypeOK
<1>7. making'[h] = C!Idle
  BY <1>1 DEF IInv, HandlerOK, MakerOK, C!At
<1>8. MakerOK(h)' /\ C!At(h, "none")'
  BY <1>7, IdleFields DEF MakerOK, C!At, C!Idle
<1>9. ~Claims(h)'
  BY <1>4, <1>5 DEF Claims
<1>10. HandlerOK(h)'
  <2>1. CreatorOK(h)'
    BY <1>1, <1>3, <1>4, <1>5, <1>8 DEF CreatorOK, Unasked
  <2> QED
    BY <1>4, <1>8, <1>9, <2>1 DEF HandlerOK, ClaimOK, ReaderOK, RecoverOK
<1>11. Joins(h)
  BY <1>1, <1>5, <1>9 DEF Joins, Unasked
<1> QED
  BY <1>1, <1>5, <1>6, <1>10, <1>11, AuditsKept, QuietStep

LEMMA RequestInv ==
  ASSUME IInv, NEW h \in Handlers, NEW r \in Requests, Request(h, r)
  PROVE  IInv'
<1> DEFINE d1 == [NoDoc EXCEPT !.revision = 1]
           doc == [d1 EXCEPT !.status = "pending"]
           n == [job |-> r, user |-> Requester[r], command |-> "request", doc |-> doc]
<1>1. /\ at[h] = "idle" /\ Unasked(r)
      /\ approval' = [approval EXCEPT ![r] = doc]
      /\ at' = [at EXCEPT ![h] = "append"] /\ held' = [held EXCEPT ![h] = n]
      /\ UNCHANGED <<expired, github, making, audit, mishaps>>
  BY DEF Request, creation
<1>2. d1 \in Doc /\ d1.revision = 1
  BY NoHoldFields DEF Doc
<1> HIDE DEF d1
<1>3. doc \in Doc /\ doc.revision = 1 /\ doc.status = "pending"
  BY <1>2 DEF Doc, Status
<1> HIDE DEF doc
<1>4. n \in Hold /\ n.job = r /\ n.doc = doc
  BY <1>3, ApprovalAssumption DEF Hold, Commands
<1> HIDE DEF n
<1>5. /\ at' \in [Handlers -> Places] /\ held' \in [Handlers -> Hold]
      /\ approval' \in [Requests -> Doc]
      /\ at'[h] = "append" /\ held'[h] = n /\ approval'[r] = doc
      /\ \A g \in Handlers \ {h} : at'[g] = at[g] /\ held'[g] = held[g]
      /\ \A q \in Requests \ {r} : approval'[q] = approval[q]
  BY <1>1, <1>3, <1>4 DEF IInv, TypeOK, Places
<1>6. Job(h)' = r /\ ~Claims(h)'
  BY <1>3, <1>4, <1>5 DEF Job, Claims
<1>7. Others(h) /\ Typed(h)'
  BY <1>1, <1>5, <1>6 DEF Others, Typed, IInv, TypeOK
<1>8. Written(h, r)
  BY <1>1, <1>3, <1>5, StoredFields DEF Written, Unasked
<1>9. MakerOK(h)' /\ C!At(h, "none")'
  BY <1>1 DEF IInv, HandlerOK, MakerOK, C!At
<1>10. HandlerOK(h)'
  <2>1. ReaderOK(h)'
    BY <1>3, <1>4, <1>5, <1>6 DEF ReaderOK, Knows
  <2> QED
    BY <1>5, <1>6, <1>9, <2>1 DEF HandlerOK, ClaimOK, RecoverOK, CreatorOK
<1>11. Joins(h)
  BY <1>1, <1>5, <1>6 DEF Joins, Unasked
<1>12. ApprovedTrue(r)'
  BY <1>3, <1>5 DEF ApprovedTrue
<1> QED
  BY <1>1, <1>5, <1>7, <1>8, <1>10, <1>11, <1>12, AuditsKept, HandlerStep

LEMMA PressInv ==
  ASSUME IInv, NEW h \in Handlers, NEW r \in Requests, NEW u \in Users,
         NEW c \in Commands \ {"request"}, Press(h, r, u, c)
  PROVE  IInv'
<1> DEFINE n == [job |-> r, user |-> u, command |-> c, doc |-> approval[r]]
           place == IF r \in expired THEN "expire" ELSE "decide"
<1>1. /\ at[h] = "idle" /\ approval[r].status = "pending"
      /\ r \in expired \/ MayDecide(r, u, c)
      /\ at' = [at EXCEPT ![h] = place] /\ held' = [held EXCEPT ![h] = n]
      /\ UNCHANGED <<approval, expired, github, making, audit, mishaps>>
  BY DEF Press, creation
<1>2. approval[r] \in Doc /\ approval[r].revision \in Nat /\ approval[r].revision # 0
  BY <1>1, StoredFields
<1>3. /\ n \in Hold /\ n.job = r /\ n.user = u /\ n.command = c /\ n.doc = approval[r]
  BY <1>2 DEF Hold
<1>4. place \in {"expire", "decide"} /\ (place = "decide" => MayDecide(r, u, c))
  BY <1>1
<1> HIDE DEF n, place
<1>5. /\ at' \in [Handlers -> Places] /\ held' \in [Handlers -> Hold]
      /\ at'[h] = place /\ held'[h] = n
      /\ \A g \in Handlers \ {h} : at'[g] = at[g] /\ held'[g] = held[g]
  BY <1>1, <1>3, <1>4 DEF IInv, TypeOK, Places
<1>6. Job(h)' = r /\ ~Claims(h)'
  BY <1>1, <1>3, <1>4, <1>5 DEF Job, Claims, Creating
<1>7. Others(h) /\ Typed(h)'
  BY <1>1, <1>5, <1>6 DEF Others, Typed, IInv, TypeOK
<1>8. MakerOK(h)' /\ C!At(h, "none")'
  BY <1>1 DEF IInv, HandlerOK, MakerOK, C!At
<1>9. HandlerOK(h)'
  <2>1. ReaderOK(h)'
    BY <1>1, <1>2, <1>3, <1>4, <1>5, <1>6 DEF ReaderOK, Knows
  <2> QED
    BY <1>4, <1>5, <1>6, <1>8, <2>1 DEF HandlerOK, ClaimOK, RecoverOK, CreatorOK
<1>10. Joins(h)
  BY <1>1, <1>4, <1>5, <1>6, NobodyClaims DEF Joins
<1> QED
  BY <1>1, <1>6, <1>7, <1>9, <1>10, AuditsKept, QuietStep

\* A handler writes the next document over the one it holds, which is pending.
LEMMA DecideStep ==
  ASSUME IInv, NEW h \in Handlers, at[h] \in {"expire", "decide"}, Matches(h),
         NEW s \in {"expired", "rejected", "processing"}, NEW u \in Users \cup {None},
         Store(h, Moved(h, s, u)),
         at' = [at EXCEPT ![h] = "append"], held' \in [Handlers -> Hold],
         held'[h].doc = Moved(h, s, u), Job(h)' = Job(h), held'[h].user = u,
         \A g \in Handlers \ {h} : held'[g] = held[g],
         s = "processing" => CanDecide(Job(h), u),
         UNCHANGED <<expired, github, making, audit, mishaps>>
  PROVE  IInv'
<1> DEFINE doc == Moved(h, s, u)
<1>1. PICK r \in Requests : r = Job(h)
  BY HeldFields
<1>2. /\ approval[r] = held[h].doc /\ approval[r].status = "pending"
      /\ approval[r].revision \in Nat /\ 0 < approval[r].revision
  BY <1>1, HeldFields DEF IInv, HandlerOK, ReaderOK, Knows, Matches
<1>3. /\ doc \in Doc /\ doc.revision = approval[r].revision + 1 /\ doc.status = s /\ doc.by = u
  BY <1>2, MovedFields DEF Status
<1> HIDE DEF doc
<1>4. approval' = [approval EXCEPT ![r] = doc]
  BY <1>1 DEF Store, doc
<1>5. held'[h].doc = doc
  BY DEF doc
<1>6. /\ at' \in [Handlers -> Places] /\ approval' \in [Requests -> Doc]
      /\ at'[h] = "append" /\ approval'[r] = doc
      /\ \A g \in Handlers \ {h} : at'[g] = at[g]
      /\ \A q \in Requests \ {r} : approval'[q] = approval[q]
  BY <1>3, <1>4 DEF IInv, TypeOK, Places
<1>7. Others(h) /\ Typed(h)'
  BY <1>1, <1>6 DEF Others, Typed, IInv, TypeOK
<1>8. Written(h, r)
  BY <1>2, <1>3, <1>6, NobodyClaims DEF Written
<1>9. MakerOK(h)' /\ C!At(h, "none")'
  BY DEF IInv, HandlerOK, MakerOK, C!At
<1>10. HandlerOK(h)'
  <2>1. ReaderOK(h)'
    BY <1>1, <1>2, <1>3, <1>5, <1>6 DEF ReaderOK, Knows, Decided
  <2>2. ClaimOK(h)'
    BY <1>1, <1>3, <1>5, <1>6 DEF ClaimOK, Claims, CanDecide
  <2> QED
    BY <1>6, <1>9, <2>1, <2>2 DEF HandlerOK, RecoverOK, CreatorOK
<1>11. Joins(h)
  BY <1>1, <1>2, <1>6, NobodyClaims DEF Joins
<1>12. ApprovedTrue(r)'
  BY <1>3, <1>6 DEF ApprovedTrue
<1> QED
  BY <1>6, <1>7, <1>8, <1>10, <1>11, <1>12, AuditsKept, HandlerStep

\* A handler that goes elsewhere with what it holds, to no claim of its own.
LEMMA GotoInv ==
  ASSUME IInv, NEW h \in Handlers, at[h] # "idle", NEW place \in Places, Goto(h, place),
         UNCHANGED <<approval, expired, github>>, making' \in [Handlers -> Making],
         \A g \in Handlers \ {h} : making'[g] = making[g],
         audit \subseteq audit', audit' \subseteq Audits, mishaps' \in Nat,
         HandlerOK(h)', Claims(h)' => Claims(h),
         place = "create" => at[h] = "create" \/ ~Direct(h)
  PROVE  IInv'
<1>1. /\ at' \in [Handlers -> Places] /\ held' \in [Handlers -> Hold] /\ at'[h] = place
      /\ Job(h)' = Job(h) /\ Direct(h)' = Direct(h)
      /\ \A g \in Handlers \ {h} : at'[g] = at[g] /\ held'[g] = held[g]
  BY GotoFields
<1>2. Job(h) \in Requests
  BY HeldFields
<1>3. Others(h) /\ Typed(h)'
  BY <1>1, <1>2 DEF Others, Typed, IInv, TypeOK, Audits
<1>4. Joins(h)
  BY <1>1 DEF Joins
<1> QED
  BY <1>2, <1>3, <1>4, QuietStep

LEMMA ExpireInv ==
  ASSUME IInv, NEW h \in Handlers, Expire(h)
  PROVE  IInv'
<1>1. at[h] = "expire" /\ UNCHANGED <<expired, github, making, audit, mishaps>>
  BY DEF Expire, creation
<1>2. CASE ~Matches(h)
  <2>1. Goto(h, "reread") /\ UNCHANGED approval
    BY <1>2 DEF Expire
  <2>2. at'[h] = "reread" /\ held' = held /\ Job(h)' = Job(h)
    BY <2>1, GotoFields DEF Places
  <2>3. ~Claims(h)' /\ MakerOK(h)' /\ C!At(h, "none")'
    BY <1>1, <2>2 DEF Claims, Creating, IInv, HandlerOK, MakerOK, C!At
  <2>4. HandlerOK(h)'
    BY <2>2, <2>3 DEF HandlerOK, ClaimOK, ReaderOK, RecoverOK, CreatorOK
  <2> QED
    BY <1>1, <2>1, <2>3, <2>4, AuditsKept, GotoInv DEF Places
<1>3. CASE Matches(h)
  <2> DEFINE doc == Moved(h, "expired", None)
             n1 == [held[h] EXCEPT !.doc = doc]
             n == [n1 EXCEPT !.user = None]
  <2>1. /\ Store(h, doc) /\ at' = [at EXCEPT ![h] = "append"]
        /\ held' = [held EXCEPT ![h].doc = doc, ![h].user = None]
    BY <1>3 DEF Expire
  <2>2. doc \in Doc
    BY MovedFields DEF Status
  <2>3. held[h] \in Hold
    BY HeldFields
  <2> HIDE DEF doc
  <2>4. n1 \in Hold /\ n1.doc = doc /\ n1.job = held[h].job
    BY <2>2, <2>3 DEF Hold
  <2>5. held' = [held EXCEPT ![h] = n]
    BY <2>1, <2>3 DEF IInv, TypeOK
  <2> HIDE DEF n1
  <2>6. n \in Hold /\ n.doc = doc /\ n.job = held[h].job /\ n.user = None
    BY <2>4 DEF Hold
  <2> HIDE DEF n
  <2>7. /\ held' \in [Handlers -> Hold] /\ held'[h].doc = doc /\ held'[h].user = None
        /\ Job(h)' = Job(h) /\ \A g \in Handlers \ {h} : held'[g] = held[g]
    BY <2>5, <2>6 DEF IInv, TypeOK, Job
  <2> QED
    BY <1>1, <1>3, <2>1, <2>7, DecideStep DEF doc
<1> QED
  BY <1>2, <1>3

LEMMA RereadInv ==
  ASSUME IInv, NEW h \in Handlers, Reread(h)
  PROVE  IInv'
<1>1. at[h] = "reread" /\ UNCHANGED <<approval, expired, github, making, audit, mishaps>>
  BY DEF Reread, creation
<1>2. PICK r \in Requests : r = Job(h)
  BY <1>1, HeldFields
<1>3. CASE Rest(h)
  BY <1>1, <1>3, AuditsKept, RestInv
<1>4. CASE /\ approval[r].status = "pending"
           /\ MayDecide(r, held[h].user, held[h].command)
           /\ With(h, approval[r], "decide")
  <2>1. approval[r] \in Doc /\ approval[r].revision \in Nat /\ approval[r].revision # 0
    BY <1>4, StoredFields
  <2>2. /\ at' \in [Handlers -> Places] /\ held' \in [Handlers -> Hold]
        /\ at'[h] = "decide" /\ held'[h].doc = approval[r] /\ held'[h].user = held[h].user
        /\ held'[h].command = held[h].command /\ Job(h)' = r
        /\ \A g \in Handlers \ {h} : at'[g] = at[g] /\ held'[g] = held[g]
    BY <1>2, <1>4, <2>1, WithFields DEF Places
  <2>3. ~Claims(h)' /\ MakerOK(h)' /\ C!At(h, "none")'
    BY <1>1, <2>2 DEF Claims, Creating, IInv, HandlerOK, MakerOK, C!At
  <2>4. HandlerOK(h)'
    <3>1. ReaderOK(h)'
      BY <1>1, <1>4, <2>1, <2>2 DEF ReaderOK, Knows
    <3> QED
      BY <2>2, <2>3, <3>1 DEF HandlerOK, ClaimOK, RecoverOK, CreatorOK
  <2>5. Others(h) /\ Typed(h)' /\ Joins(h)
    BY <1>1, <1>2, <2>2, <2>3 DEF Others, Typed, Joins, IInv, TypeOK
  <2> QED
    BY <1>1, <1>2, <2>4, <2>5, AuditsKept, QuietStep
<1> QED
  BY <1>2, <1>3, <1>4 DEF Reread

\* A rejection or a claim.
LEMMA DecisionInv ==
  ASSUME IInv, NEW h \in Handlers, Reject(h) \/ Claim(h)
  PROVE  IInv'
<1>1. at[h] = "decide" /\ UNCHANGED <<expired, github, making, audit, mishaps>>
  BY DEF Reject, Claim, creation
<1>2. CASE ~Matches(h)
  BY <1>1, <1>2, AuditsKept, RestInv DEF Reject, Claim
<1>3. CASE Matches(h)
  <2>1. PICK s \in {"rejected", "processing"} :
          LET doc == Moved(h, s, held[h].user)
          IN  Store(h, doc) /\ With(h, doc, "append")
    BY <1>3 DEF Reject, Claim
  <2> DEFINE doc == Moved(h, s, held[h].user)
  <2>2. doc \in Doc
    BY MovedFields, HeldFields DEF Status
  <2>3. Store(h, doc) /\ With(h, doc, "append")
    BY <2>1
  <2>4. at' = [at EXCEPT ![h] = "append"]
    BY <2>3 DEF With
  <2>5. CanDecide(Job(h), held[h].user)
    BY <1>1 DEF IInv, HandlerOK, ReaderOK, MayDecide
  <2>6. held[h].user \in Users \cup {None}
    BY HeldFields
  <2> HIDE DEF doc
  <2>7. /\ held' \in [Handlers -> Hold] /\ held'[h].doc = doc /\ Job(h)' = Job(h)
        /\ held'[h].user = held[h].user /\ \A g \in Handlers \ {h} : held'[g] = held[g]
    BY <2>2, <2>3, WithFields DEF Places
  <2> QED
    BY <1>1, <1>3, <2>3, <2>4, <2>5, <2>6, <2>7, DecideStep DEF doc
<1> QED
  BY <1>2, <1>3

\* What a handler's entry in the audit log leaves there.
LEMMA AppendAudits ==
  ASSUME IInv, NEW h \in Handlers, at[h] # "idle",
         NEW action \in Status \cup {"requested", "failed"},
         audit' = audit \cup {Entry(h, action)}
  PROVE  audit \subseteq audit' /\ audit' \subseteq Audits
  BY AuditsKept, EntryType, HeldFields DEF Audits

LEMMA ActionType ==
  ASSUME IInv, NEW h \in Handlers
  PROVE  Action(h) \in Status \cup {"requested", "failed"}
  BY HeldFields DEF Action

LEMMA AppendAuditInv ==
  ASSUME IInv, NEW h \in Handlers, AppendAudit(h)
  PROVE  IInv'
<1>1. /\ at[h] = "append" /\ UNCHANGED <<approval, expired, github, making, mishaps>>
      /\ audit' = audit \cup {Entry(h, Action(h))}
  BY DEF AppendAudit, creation
<1>2. audit \subseteq audit' /\ audit' \subseteq Audits
  BY <1>1, ActionType, AppendAudits
<1>3. CASE Action(h) # "processing"
  <2>1. Rest(h)
    BY <1>3 DEF AppendAudit
  <2> QED
    BY <1>1, <1>2, <2>1, AuditsKept, RestInv
<1>4. CASE Action(h) = "processing"
  <2>1. Goto(h, "create") /\ held[h].doc.status = "processing"
    BY <1>4 DEF AppendAudit, Action
  <2>2. at'[h] = "create" /\ held' = held /\ Job(h)' = Job(h) /\ Direct(h)' = Direct(h)
    BY <2>1, GotoFields DEF Places
  <2>3. ~Direct(h) /\ Claims(h)
    BY <1>1, <2>1, HeldFields DEF IInv, HandlerOK, ReaderOK, Knows, Direct, Claims
  <2>4. MakerOK(h)' /\ C!At(h, "none")'
    BY <1>1 DEF IInv, HandlerOK, MakerOK, C!At
  <2>5. HandlerOK(h)'
    <3>1. Entry(h, "processing")' \in audit'
      BY <1>1, <1>4, <2>2 DEF Entry
    <3>2. CreatorOK(h)'
      BY <2>1, <2>2, <2>3, <2>4, <3>1 DEF CreatorOK
    <3>3. ClaimOK(h)'
      BY <1>1, <2>2, <2>3 DEF IInv, HandlerOK, ClaimOK
    <3> QED
      BY <2>2, <2>4, <3>2, <3>3 DEF HandlerOK, ReaderOK, RecoverOK
  <2> QED
    BY <1>1, <1>2, <2>1, <2>3, <2>5, AuditsKept, GotoInv DEF Places
<1> QED
  BY <1>3, <1>4

LEMMA AppendFailsInv ==
  ASSUME IInv, NEW h \in Handlers, AppendFails(h)
  PROVE  IInv'
<1>1. /\ at[h] = "append" /\ UNCHANGED <<approval, expired, github, making>> /\ mishaps' \in Nat
      /\ audit' = audit \/ audit' = audit \cup {Entry(h, Action(h))}
  BY AuditsKept DEF AppendFails, Mishap, creation
<1>2. audit \subseteq audit' /\ audit' \subseteq Audits
  BY <1>1, ActionType, AppendAudits, AuditsKept
<1>3. CASE Action(h) # "approved"
  <2>1. Rest(h)
    BY <1>3 DEF AppendFails
  <2> QED
    BY <1>1, <1>2, <2>1, AuditsKept, RestInv
<1>4. CASE Action(h) = "approved"
  <2>1. Goto(h, "recover") /\ held[h].doc.status = "approved"
    BY <1>4 DEF AppendFails, Action
  <2>2. at'[h] = "recover" /\ held' = held /\ Job(h)' = Job(h)
    BY <2>1, GotoFields DEF Places
  <2>3. ~Claims(h)' /\ MakerOK(h)' /\ C!At(h, "none")'
    BY <1>1, <2>1, <2>2 DEF Claims, IInv, HandlerOK, MakerOK, C!At
  <2>4. HandlerOK(h)'
    <3>1. ReaderOK(h)' /\ RecoverOK(h)'
      BY <1>1, <2>1, <2>2 DEF IInv, HandlerOK, ReaderOK, RecoverOK, Knows
    <3> QED
      BY <2>2, <2>3, <3>1 DEF HandlerOK, ClaimOK, CreatorOK
  <2> QED
    BY <1>1, <1>2, <2>1, <2>3, <2>4, AuditsKept, GotoInv DEF Places
<1> QED
  BY <1>3, <1>4

LEMMA RecoverInv ==
  ASSUME IInv, NEW h \in Handlers, Recover(h)
  PROVE  IInv'
<1> DEFINE d == held[h].doc
           doc == GivenBack(h)
<1>1. /\ at[h] = "recover" /\ UNCHANGED <<expired, github, making, audit, mishaps>>
      /\ IF approval[Job(h)].revision = ClaimDoc(h).revision
         THEN Store(h, doc) ELSE UNCHANGED approval
      /\ With(h, doc, "append_failed")
  BY DEF Recover, GivenBack, creation
<1>2. PICK r \in Requests : r = Job(h)
  BY <1>1, HeldFields
<1>3. /\ d.status \in {"processing", "approved"} /\ 0 < d.revision /\ d.revision \in Nat
      /\ d.status = "processing" =>
           approval[r] = d \/ (approval[r].status = "approved" /\ d.revision < approval[r].revision)
      /\ d.status = "approved" => approval[r] = d
      /\ approval[r].revision \in Nat
  BY <1>1, <1>2, HeldFields, StoredFields DEF IInv, HandlerOK, RecoverOK, ReaderOK
<1>4. /\ doc \in Doc /\ doc.status = "pending" /\ doc.revision = ClaimDoc(h).revision + 1
      /\ ClaimDoc(h).revision = IF d.status = "approved" THEN d.revision - 1 ELSE d.revision
  BY <1>3, GivenBackFields
<1> HIDE DEF doc
<1>5. /\ at' \in [Handlers -> Places] /\ held' \in [Handlers -> Hold]
      /\ at'[h] = "append_failed" /\ Job(h)' = r
      /\ \A g \in Handlers \ {h} : at'[g] = at[g] /\ held'[g] = held[g]
  BY <1>1, <1>2, <1>4, WithFields DEF Places
<1>6. ~Claims(h)' /\ MakerOK(h)' /\ C!At(h, "none")'
  BY <1>1, <1>5 DEF Claims, Creating, IInv, HandlerOK, MakerOK, C!At
<1>7. HandlerOK(h)'
  BY <1>5, <1>6 DEF HandlerOK, ClaimOK, ReaderOK, RecoverOK, CreatorOK
<1>8. Others(h) /\ Joins(h)
  BY <1>1, <1>2, <1>5, <1>6 DEF Others, Joins
<1>9. CASE approval[r].revision = ClaimDoc(h).revision
  <2>1. d.status = "processing" /\ approval[r] = d /\ Claims(h)
    BY <1>1, <1>2, <1>3, <1>4, <1>9 DEF Claims
  <2>2. approval' = [approval EXCEPT ![r] = doc]
    BY <1>1, <1>2, <1>9 DEF Store
  <2>3. /\ approval' \in [Requests -> Doc] /\ approval'[r] = doc
        /\ \A q \in Requests \ {r} : approval'[q] = approval[q]
    BY <1>4, <2>2 DEF IInv, TypeOK
  <2>4. Written(h, r)
    BY <1>2, <1>3, <1>4, <2>1, <2>3, NobodyElse DEF Written
  <2>5. Typed(h)'
    BY <1>1, <1>5, <2>3 DEF Typed, IInv, TypeOK
  <2>6. ApprovedTrue(r)'
    BY <1>4, <2>3 DEF ApprovedTrue
  <2> QED
    BY <1>1, <1>7, <1>8, <2>3, <2>4, <2>5, <2>6, AuditsKept, HandlerStep
<1>10. CASE approval[r].revision # ClaimDoc(h).revision
  <2>1. UNCHANGED approval
    BY <1>1, <1>2, <1>10
  <2>2. Typed(h)'
    BY <1>1, <1>5, <2>1 DEF Typed, IInv, TypeOK
  <2> QED
    BY <1>1, <1>2, <1>7, <1>8, <2>1, <2>2, AuditsKept, QuietStep
<1> QED
  BY <1>9, <1>10

LEMMA AppendFailedInv ==
  ASSUME IInv, NEW h \in Handlers, AppendFailed(h)
  PROVE  IInv'
<1>1. /\ at[h] = "append_failed" /\ Rest(h) /\ audit' = audit \cup {Entry(h, "failed")}
      /\ UNCHANGED <<approval, expired, github, making, mishaps>>
  BY DEF AppendFailed, creation
<1>2. audit \subseteq audit' /\ audit' \subseteq Audits
  BY <1>1, AppendAudits
<1> QED
  BY <1>1, <1>2, AuditsKept, RestInv

LEMMA RevalidationFailsInv ==
  ASSUME IInv, NEW h \in Handlers, RevalidationFails(h)
  PROVE  IInv'
<1>1. /\ at[h] = "decide" /\ Rest(h)
      /\ UNCHANGED <<approval, expired, github, making, audit, mishaps>>
  BY DEF RevalidationFails, creation
<1> QED
  BY <1>1, AuditsKept, RestInv

LEMMA CrashInv ==
  ASSUME IInv, NEW h \in Handlers, Crash(h)
  PROVE  IInv'
<1>1. /\ at[h] # "idle" /\ Rest(h) /\ UNCHANGED <<approval, expired, github, audit>>
      /\ making' = [making EXCEPT ![h] = C!Idle]
  BY DEF Crash, C!Drop
<1>2. /\ mishaps' \in Nat /\ making' \in [Handlers -> Making] /\ making'[h] = C!Idle
      /\ \A g \in Handlers \ {h} : making'[g] = making[g]
  BY <1>1, AuditsKept, IdleFields DEF Crash, Mishap
<1> QED
  BY <1>1, <1>2, AuditsKept, RestInv

\* While nothing a handler reads or writes changes, what is known of it stays.
LEMMA HandlerStays ==
  ASSUME IInv, UNCHANGED <<approval, github, making, audit, at, held>>, NEW h \in Handlers
  PROVE  HandlerOK(h)'
<1>1. /\ UNCHANGED <<Job(h), Direct(h), Creating(h), IssueOf(h), C!At(h, "none"), C!Of(h)>>
      /\ Entry(h, "processing")' = Entry(h, "processing")
  BY DEF Job, Direct, Creating, IssueOf, Entry, C!At, C!Of
<1>2. HandlerOK(h)
  BY DEF IInv
<1>3. MakerOK(h)'
  BY <1>1, <1>2 DEF HandlerOK, MakerOK, IssueOf, Job, C!At, C!Of, Direct
<1>4. ClaimOK(h)'
  BY <1>1, <1>2 DEF HandlerOK, ClaimOK, Claims
<1>5. ReaderOK(h)'
  BY <1>1, <1>2 DEF HandlerOK, ReaderOK, Knows
<1>6. RecoverOK(h)'
  BY <1>1, <1>2 DEF HandlerOK, RecoverOK
<1>7. CreatorOK(h)'
  BY <1>1, <1>2 DEF HandlerOK, CreatorOK
<1> QED
  BY <1>1, <1>2, <1>3, <1>4, <1>5, <1>6, <1>7 DEF HandlerOK

LEMMA ElapseInv ==
  ASSUME IInv, NEW r \in Requests, Elapse(r)
  PROVE  IInv'
<1>1. UNCHANGED <<approval, github, making, audit, at, held, mishaps>> /\ expired' \subseteq Requests
  BY DEF Elapse, creation, IInv, TypeOK
<1>2. C!TypeOK'
  BY <1>1 DEF IInv, TypeOK, C!TypeOK, C!Of, C!At
<1>3. TypeOK'
  BY <1>1, <1>2 DEF IInv, TypeOK, Job
<1>4. \A h \in Handlers : HandlerOK(h)'
  BY <1>1, HandlerStays
<1> QED
  BY <1>1, <1>3, <1>4 DEF IInv, CreationTypes, RequestOK, Alone, Claims, Creating, Direct, Job,
       ClaimsPast, CreatedByRight, ApprovedIsTrue
-----------------------------------------------------------------------------
(* The steps of a creation. *)

\* A creator's document is claimed by it, or there is none.
LEMMA CreatorFields ==
  ASSUME IInv, NEW h \in Handlers, at[h] = "create"
  PROVE  /\ Job(h) \in Requests /\ IssueOf(h) \in [request : Requests, claim : Nat]
         /\ IssueOf(h).request = Job(h) /\ IssueOf(h).claim = held[h].doc.revision
         /\ IssueOf(h) # None /\ held[h].user \in Users
         /\ approval[Job(h)].status # "approved"
         /\ held[h].doc.revision <= approval[Job(h)].revision
         /\ ~Direct(h) => /\ Claims(h) /\ approval[Job(h)] = held[h].doc
                          /\ held[h].doc.by = held[h].user /\ held[h].doc.status = "processing"
                          /\ CanDecide(Job(h), held[h].user) /\ Entry(h, "processing") \in audit
         /\ Direct(h) => held[h].user = Requester[Job(h)] /\ held[h].user \in SelfApprovers
<1>1. Job(h) \in Requests /\ held[h].doc.revision \in Nat
  BY HeldFields
<1>2. /\ IssueOf(h) \in [request : Requests, claim : Nat] /\ IssueOf(h).request = Job(h)
      /\ IssueOf(h).claim = held[h].doc.revision
  BY <1>1 DEF IssueOf
<1>3. IssueOf(h) # None
  BY <1>2, ApprovalAssumption
<1>4. CASE Direct(h)
  <2>1. /\ held[h].user = Requester[Job(h)] /\ held[h].user \in SelfApprovers
        /\ approval[Job(h)].revision = 0 /\ held[h].doc.revision = 0
    BY <1>4 DEF IInv, HandlerOK, CreatorOK, Direct
  <2>2. approval[Job(h)].status # "approved"
    BY <1>1, <2>1, StoredFields
  <2> QED
    BY <1>1, <1>2, <1>3, <1>4, <2>1, <2>2, ApprovalAssumption
<1>5. CASE ~Direct(h)
  <2>1. held[h].doc.status = "processing" /\ Entry(h, "processing") \in audit
    BY <1>5 DEF IInv, HandlerOK, CreatorOK
  <2>2. Claims(h)
    BY <1>5, <2>1 DEF Claims, Creating
  <2>3. /\ approval[Job(h)] = held[h].doc /\ held[h].doc.by = held[h].user
        /\ CanDecide(Job(h), held[h].user)
    BY <2>2 DEF IInv, HandlerOK, ClaimOK
  <2>4. held[h].user \in Users
    BY <2>3, ApprovalAssumption DEF CanDecide
  <2> QED
    BY <1>1, <1>2, <1>3, <1>5, <2>1, <2>2, <2>3, <2>4
<1> QED
  BY <1>4, <1>5

\* Two creators are at different Issues.
LEMMA CreatorsApart ==
  ASSUME IInv, NEW g \in Handlers, NEW h \in Handlers, g # h, at[h] = "create", ~C!At(g, "none")
  PROVE  C!Of(g) # IssueOf(h)
<1>1. at[g] = "create" /\ C!Of(g) = IssueOf(g)
  BY DEF IInv, HandlerOK, CreatorOK
<1> SUFFICES ASSUME IssueOf(g) = IssueOf(h) PROVE FALSE
  BY <1>1
<1>2. Job(g) = Job(h) /\ (Direct(g) <=> Direct(h))
  BY <1>1, CreatorFields DEF Direct
<1>3. CASE Direct(h)
  BY <1>1, <1>2, <1>3 DEF IInv, Alone
<1>4. CASE ~Direct(h)
  BY <1>1, <1>2, <1>4, CreatorFields DEF IInv, Alone
<1> QED
  BY <1>3, <1>4

\* What a creator may do to GitHub: the Issues there were keep what they had,
\* but its own may be made anew.
LEMMA GithubStep ==
  ASSUME IInv, NEW h \in Handlers, at[h] = "create", UNCHANGED <<approval, expired, audit>>,
         Others(h), at' \in [Handlers -> Places], held' \in [Handlers -> Hold],
         at'[h] # "idle" => Job(h)' \in Requests, mishaps' \in Nat,
         making' \in [Handlers -> Making],
         github' \in [DOMAIN github' -> Issue], DOMAIN github' \subseteq DOMAIN github \cup {IssueOf(h)},
         \A x \in DOMAIN github \ {IssueOf(h)} : x \in DOMAIN github' /\ Grown(x),
         IssueOf(h) \in DOMAIN github' => github'[IssueOf(h)].by = held[h].user,
         HandlerOK(h)', Joins(h)
  PROVE  IInv'
<1> DEFINE own == IssueOf(h)
<1>1. PICK r \in Requests : r = Job(h)
  BY CreatorFields
<1>2. PICK i \in [request : Requests, claim : Nat] : i = own
  BY CreatorFields
<1>3. /\ i.request = r /\ i.claim = held[h].doc.revision
      /\ approval[r].status # "approved" /\ i.claim <= approval[r].revision
  BY <1>1, <1>2, CreatorFields
<1>4. CreationTypes'
  BY <1>2 DEF IInv, CreationTypes
<1>5. Typed(h)'
  BY DEF Typed, IInv, TypeOK
<1>6. \A g \in Handlers \ {h} : ~C!At(g, "none") =>
        C!Of(g) \in DOMAIN github' /\ Grown(C!Of(g))
  BY MakerType, CreatorsApart
<1>7. \A g \in Handlers \ {h} : HandlerOK(g)' /\ (Claims(g)' => Claims(g))
  BY <1>1, <1>5, <1>6, OthersKeep DEF Written
<1>8. \A g \in Handlers : HandlerOK(g)'
  BY <1>7
<1>9. TypeOK'
  BY <1>4, <1>5, <1>8, TypesKept DEF HandlerOK, MakersOK
<1>10. Alone'
  BY <1>5, <1>7, AloneKept
<1>11. \A q \in Requests : RequestOK(q)'
  BY DEF IInv, RequestOK
<1>12. \A x \in DOMAIN github' : x = i \/ (x \in DOMAIN github /\ x # i /\ Grown(x))
  BY <1>2
<1>13. ClaimsPast'
  BY <1>1, <1>3, <1>12 DEF IInv, ClaimsPast
<1>14. CreatedByRight'
  <2> SUFFICES ASSUME NEW x \in DOMAIN github'
               PROVE  LET by == github'[x].by IN
                        IF x.claim = 0 THEN by = Requester[x.request] /\ by \in SelfApprovers
                        ELSE /\ by \in (Approvers \cup SelfApprovers) \ {Requester[x.request]}
                             /\ [request |-> x.request, action |-> "processing",
                                 actor |-> by, revision |-> x.claim] \in audit
    BY DEF CreatedByRight
  <2>1. CASE x # i
    BY <1>12, <2>1 DEF IInv, CreatedByRight, Grown
  <2>2. CASE x = i
    <3>1. github'[x].by = held[h].user
      BY <1>2, <2>2
    <3>2. CASE Direct(h)
      <4>1. x.claim = 0
        BY <1>3, <2>2, <3>2 DEF Direct
      <4> QED
        BY <1>1, <1>3, <2>2, <3>1, <3>2, <4>1, CreatorFields
    <3>3. CASE ~Direct(h)
      <4>1. x.claim # 0 /\ CanDecide(r, held[h].user) /\ Entry(h, "processing") \in audit
        BY <1>1, <1>3, <2>2, <3>3, CreatorFields DEF Direct
      <4>2. Entry(h, "processing") = [request |-> x.request, action |-> "processing",
                                      actor |-> held[h].user, revision |-> x.claim]
        BY <1>1, <1>3, <2>2 DEF Entry
      <4> QED
        BY <1>3, <2>2, <3>1, <4>1, <4>2 DEF CanDecide
    <3> QED
      BY <3>2, <3>3
  <2> QED
    BY <2>1, <2>2
<1>15. ApprovedIsTrue'
  <2> SUFFICES ASSUME NEW q \in Requests, approval[q].status = "approved"
               PROVE  LET x == [request |-> q, claim |-> approval[q].issue]
                      IN  /\ x \in DOMAIN github'
                          /\ github'[x].by = approval[q].by
                          /\ Range(Relations) \ approval[q].failed \subseteq github'[x].related
                          /\ \A y \in DOMAIN github' : y.request = q => y.claim <= approval[q].issue
    BY DEF ApprovedIsTrue
  <2> DEFINE x == [request |-> q, claim |-> approval[q].issue]
  <2>1. /\ x \in DOMAIN github /\ github[x].by = approval[q].by
        /\ Range(Relations) \ approval[q].failed \subseteq github[x].related
        /\ \A y \in DOMAIN github : y.request = q => y.claim <= approval[q].issue
    BY DEF IInv, ApprovedIsTrue
  <2>2. q # r /\ x.request = q
    BY <1>3
  <2>3. x # i
    BY <1>3, <2>2
  <2>4. x \in DOMAIN github' /\ Grown(x)
    BY <1>2, <2>1, <2>3
  <2>5. \A y \in DOMAIN github' : y.request = q => y.claim <= approval[q].issue
    BY <1>3, <1>12, <2>1, <2>2
  <2> QED
    BY <2>1, <2>4, <2>5 DEF Grown
<1> QED
  BY <1>4, <1>8, <1>9, <1>10, <1>11, <1>13, <1>14, <1>15 DEF IInv

\* A creator that stays where it is, with the maker gone on.
LEMMA StaysCreator ==
  ASSUME IInv, NEW h \in Handlers, at[h] = "create",
         UNCHANGED <<approval, expired, audit, at, held>>, mishaps' \in Nat,
         making' \in [Handlers -> Making],
         \A g \in Handlers \ {h} : making'[g] = making[g],
         github' \in [DOMAIN github' -> Issue], DOMAIN github' \subseteq DOMAIN github \cup {IssueOf(h)},
         \A x \in DOMAIN github \ {IssueOf(h)} : x \in DOMAIN github' /\ Grown(x),
         IssueOf(h) \in DOMAIN github' => github'[IssueOf(h)].by = held[h].user,
         MakerOK(h)', ~C!At(h, "none")' => C!Of(h)' = IssueOf(h)
  PROVE  IInv'
<1>1. Others(h) /\ Job(h)' = Job(h) /\ Direct(h)' = Direct(h) /\ (Claims(h)' <=> Claims(h))
  BY DEF Others, Job, Direct, Claims, Creating
<1>2. /\ IssueOf(h)' = IssueOf(h) /\ Entry(h, "processing")' = Entry(h, "processing")
      /\ C!At(h, "none")' => MakerOK(h)'
  BY DEF IssueOf, Entry, Job
<1>3. CreatorOK(h)'
  <2>1. ~C!At(h, "none")' => IssueOf(h) \in DOMAIN github'
    BY DEF MakerOK, C!At, C!Of
  <2> QED
    BY <1>1, <1>2, <2>1 DEF IInv, HandlerOK, CreatorOK
<1>4. HandlerOK(h)'
  BY <1>1, <1>3 DEF IInv, HandlerOK, ClaimOK, ReaderOK, RecoverOK
<1>5. Joins(h)
  BY <1>1 DEF Joins
<1>6. at' \in [Handlers -> Places] /\ held' \in [Handlers -> Hold] /\ Job(h)' \in Requests
  BY <1>1, CreatorFields DEF IInv, TypeOK
<1> QED
  BY <1>1, <1>4, <1>5, <1>6, GithubStep

\* The Issue made anew.
LEMMA CreateKeeps ==
  ASSUME IInv, NEW h \in Handlers, at[h] = "create", NEW assigned \in BOOLEAN,
         C!Create(IssueOf(h), held[h].user, assigned)
  PROVE  /\ DOMAIN github' = DOMAIN github \cup {IssueOf(h)}
         /\ github' \in [DOMAIN github' -> Issue]
         /\ \A x \in DOMAIN github \ {IssueOf(h)} : Grown(x)
         /\ github'[IssueOf(h)].by = held[h].user
<1> DEFINE f == C!Fresh(held[h].user, assigned)
           i == IssueOf(h)
<1>1. f \in Issue /\ f.by = held[h].user
  <2>1. [p \in Range(Fields) |-> "unset"] \in [Range(Fields) -> C!Value]
    BY DEF C!Value
  <2>2. held[h].user \in Users
    BY CreatorFields
  <2>3. f = [by |-> held[h].user, related |-> {}, assigned |-> assigned, item |-> FALSE,
             values |-> [p \in Range(Fields) |-> "unset"]]
    BY DEF C!Fresh, C!Range, Range
  <2> QED
    BY <2>1, <2>2, <2>3 DEF Issue
<1> HIDE DEF f
<1>2. github' = [y \in DOMAIN github \cup {i} |-> IF y = i THEN f ELSE github[y]]
  BY DEF C!Create, f
<1>3. DOMAIN github' = DOMAIN github \cup {i}
  BY <1>2
<1>4. \A y \in DOMAIN github \cup {i} : github'[y] = IF y = i THEN f ELSE github[y]
  BY <1>2
<1>5. \A y \in DOMAIN github : github[y] \in Issue
  BY DEF IInv, CreationTypes
<1>6. github' \in [DOMAIN github' -> Issue]
  BY <1>1, <1>2, <1>5
<1> QED
  BY <1>1, <1>3, <1>4, <1>6 DEF Grown

\* A maker of an Issue just made.
LEMMA PostMakes ==
  ASSUME IInv, NEW h \in Handlers, at[h] = "create", NEW assigned \in BOOLEAN,
         C!Post(h, IssueOf(h), held[h].user, assigned)
  PROVE  /\ making' \in [Handlers -> Making]
         /\ \A g \in Handlers \ {h} : making'[g] = making[g]
         /\ making'[h].issue = IssueOf(h) /\ making'[h].left = Relations
         /\ making'[h].step = IF Relations = <<>> THEN "read" ELSE "relate"
<1> DEFINE i == IssueOf(h)
           n == [C!Idle EXCEPT !.issue = i, !.step = "relate", !.left = Relations]
           n1 == [C!Idle EXCEPT !.issue = i]
           n2 == [n1 EXCEPT !.step = "relate"]
           n3 == [n2 EXCEPT !.left = Relations]
<1>1. C!Go(h, n)
  BY DEF C!Post
<1>2. i \in [request : Requests, claim : Nat]
  BY CreatorFields
<1>3. Relations \in Seq(Range(Relations))
  BY ApprovalAssumption
<1>4. Relations \in Seq(Range(Relations) \cup Range(Fields))
  BY <1>3
<1> HIDE DEF i
<1>5. n = n3
  OBVIOUS
<1>6. n1 \in Making /\ n1.issue = i
  BY <1>2, IdleFields DEF Making
<1> HIDE DEF n, n1
<1>7. n2 \in Making /\ n2.issue = i /\ n2.step = "relate"
  BY <1>6 DEF Making
<1> HIDE DEF n2
<1>8. n3 \in Making /\ n3.issue = i /\ n3.step = "relate" /\ n3.left = Relations
  BY <1>4, <1>7 DEF Making
<1> HIDE DEF n3
<1>9. /\ making'[h] = C!Settled(n3) /\ making' \in [Handlers -> Making]
      /\ \A g \in Handlers \ {h} : making'[g] = making[g]
  BY <1>1, <1>5, <1>8, GoesOn
<1> QED
  BY <1>8, <1>9, SettledFields DEF i

LEMMA PostInv ==
  ASSUME IInv, NEW h \in Handlers, at[h] = "create", NEW assigned \in BOOLEAN,
         C!Post(h, IssueOf(h), held[h].user, assigned),
         UNCHANGED <<approval, expired, audit, at, held>>, mishaps' \in Nat
  PROVE  IInv'
<1> DEFINE i == IssueOf(h)
<1>1. i # None
  BY CreatorFields
<1>2. /\ DOMAIN github' = DOMAIN github \cup {i} /\ github' \in [DOMAIN github' -> Issue]
      /\ \A x \in DOMAIN github \ {i} : Grown(x)
      /\ github'[i].by = held[h].user
  BY CreateKeeps DEF C!Post
<1>3. /\ making' \in [Handlers -> Making]
      /\ \A g \in Handlers \ {h} : making'[g] = making[g]
      /\ making'[h].issue = i /\ making'[h].left = Relations
      /\ making'[h].step = IF Relations = <<>> THEN "read" ELSE "relate"
  BY PostMakes
<1> HIDE DEF i
<1>4. Relations \in Seq(Range(Relations)) /\ (Relations = <<>> => Range(Relations) = {})
  BY ApprovalAssumption DEF Range
<1>5. MakerOK(h)'
  BY <1>1, <1>2, <1>3, <1>4 DEF MakerOK
<1> QED
  BY <1>2, <1>3, <1>5, StaysCreator DEF C!Of, i

LEMMA CreateIssueInv ==
  ASSUME IInv, NEW h \in Handlers, CreateIssue(h)
  PROVE  IInv'
<1>1. at[h] = "create" /\ UNCHANGED <<approval, expired, audit, at, held>>
  BY DEF CreateIssue
<1>2. mishaps' \in Nat
  <2>1. mishaps' = mishaps \/ mishaps' = mishaps + 1
    BY DEF CreateIssue, Mishap
  <2> QED
    BY <2>1, AuditsKept
<1>3. CASE \E assigned \in BOOLEAN : C!Post(h, IssueOf(h), held[h].user, assigned)
  BY <1>1, <1>2, <1>3, PostInv
<1>4. CASE C!Work(h) \/ C!Fault(h)
  <2>1. Called(h)
    BY <1>4, CreationSteps
  <2>2. C!Of(h) = IssueOf(h) /\ github[IssueOf(h)].by = held[h].user /\ IssueOf(h) \in DOMAIN github
    BY <1>1, <2>1, MakerType DEF IInv, HandlerOK, CreatorOK, Called
  <2> QED
    BY <1>1, <1>2, <2>1, <2>2, StaysCreator DEF Called, Kept, Grown
<1>5. \/ \E assigned \in BOOLEAN : C!Post(h, IssueOf(h), held[h].user, assigned)
      \/ C!Work(h) \/ C!Fault(h)
  BY DEF CreateIssue
<1> QED
  BY <1>3, <1>4, <1>5

\* A creator that gives up, its claim as it took it or the approval recorded.
LEMMA GivesUp ==
  ASSUME IInv, NEW h \in Handlers, at[h] = "create", ~Direct(h), Goto(h, "recover"),
         making'[h] = C!Idle,
         \/ approval'[Job(h)] = approval[Job(h)]
         \/ /\ approval'[Job(h)].status = "approved"
            /\ held[h].doc.revision < approval'[Job(h)].revision
  PROVE  /\ HandlerOK(h)' /\ Joins(h) /\ (Claims(h)' => Claims(h)) /\ Job(h)' = Job(h)
         /\ at' \in [Handlers -> Places] /\ held' \in [Handlers -> Hold] /\ at'[h] = "recover"
         /\ \A g \in Handlers \ {h} : at'[g] = at[g] /\ held'[g] = held[g]
<1>1. /\ at' \in [Handlers -> Places] /\ held' \in [Handlers -> Hold]
      /\ at'[h] = "recover" /\ held' = held /\ Job(h)' = Job(h) /\ Direct(h)' = Direct(h)
      /\ \A g \in Handlers \ {h} : at'[g] = at[g] /\ held'[g] = held[g]
  BY GotoFields DEF Places
<1>2. /\ Claims(h) /\ approval[Job(h)] = held[h].doc /\ held[h].doc.by = held[h].user
      /\ held[h].doc.status = "processing" /\ CanDecide(Job(h), held[h].user)
      /\ 0 < held[h].doc.revision
  BY CreatorFields, HeldFields DEF Direct
<1>3. MakerOK(h)' /\ C!At(h, "none")'
  BY IdleFields DEF MakerOK, C!At, C!Idle
<1>4. ClaimOK(h)'
  BY <1>1, <1>2 DEF ClaimOK, Claims, Creating, CanDecide
<1>5. RecoverOK(h)'
  BY <1>1, <1>2 DEF RecoverOK
<1>6. HandlerOK(h)'
  BY <1>1, <1>2, <1>3, <1>4, <1>5 DEF HandlerOK, ReaderOK, CreatorOK
<1>7. Joins(h)
  BY <1>1, <1>2 DEF Joins
<1> QED
  BY <1>1, <1>2, <1>6, <1>7

LEMMA CreationFailsInv ==
  ASSUME IInv, NEW h \in Handlers, CreationFails(h)
  PROVE  IInv'
<1>1. /\ at[h] = "create" /\ C!At(h, "none") /\ UNCHANGED <<approval, expired, audit, making>>
      /\ C!Create(IssueOf(h), held[h].user, TRUE) \/ UNCHANGED github
      /\ IF Direct(h) THEN Rest(h) ELSE Goto(h, "recover")
  BY DEF CreationFails, C!PostFails
<1>2. mishaps' \in Nat /\ making' \in [Handlers -> Making]
  BY <1>1, AuditsKept DEF CreationFails, Mishap
<1>3. making'[h] = C!Idle
  BY <1>1 DEF IInv, HandlerOK, MakerOK, C!At
<1>4. ~Direct(h) => HandlerOK(h)' /\ Joins(h) /\ (Claims(h)' => Claims(h))
  BY <1>1, <1>3, GivesUp
<1>5. /\ HandlerOK(h)' /\ Joins(h)
      /\ at' \in [Handlers -> Places] /\ held' \in [Handlers -> Hold]
      /\ \A g \in Handlers \ {h} : at'[g] = at[g] /\ held'[g] = held[g]
      /\ at'[h] = "idle" \/ Job(h)' = Job(h)
  <2>1. CASE Direct(h)
    BY <1>1, <1>3, <2>1, RestFields
  <2>2. CASE ~Direct(h)
    BY <1>1, <1>3, <2>2, GivesUp
  <2> QED
    BY <2>1, <2>2
<1>6. CASE UNCHANGED github
  <2>1. CASE Direct(h)
    BY <1>1, <1>2, <1>3, <1>6, <2>1, AuditsKept, RestInv
  <2>2. CASE ~Direct(h)
    BY <1>1, <1>2, <1>4, <1>6, <2>2, AuditsKept, GotoInv DEF Places
  <2> QED
    BY <2>1, <2>2
<1>7. CASE C!Create(IssueOf(h), held[h].user, TRUE)
  <2>1. /\ DOMAIN github' = DOMAIN github \cup {IssueOf(h)}
        /\ github' \in [DOMAIN github' -> Issue]
        /\ \A x \in DOMAIN github \ {IssueOf(h)} : Grown(x)
        /\ github'[IssueOf(h)].by = held[h].user
    BY <1>1, <1>7, CreateKeeps
  <2>2. Others(h)
    BY <1>1, <1>5 DEF Others
  <2>3. at'[h] # "idle" => Job(h)' \in Requests
    BY <1>1, <1>5, CreatorFields
  <2> QED
    BY <1>1, <1>2, <1>5, <2>1, <2>2, <2>3, GithubStep
<1> QED
  BY <1>1, <1>6, <1>7

\* The approval that is recorded says the truth of the Issue created for it.
LEMMA ApprovalTold ==
  ASSUME IInv, NEW h \in Handlers, at[h] = "create", C!At(h, "done"), ~Direct(h),
         NEW r \in Requests, r = Job(h),
         UNCHANGED github, approval' = [approval EXCEPT ![r] = ApprovedDoc(h)]
  PROVE  /\ approval' \in [Requests -> Doc] /\ approval'[r] = ApprovedDoc(h)
         /\ \A q \in Requests \ {r} : approval'[q] = approval[q]
         /\ ApprovedDoc(h).status = "approved"
         /\ ApprovedDoc(h).revision = held[h].doc.revision + 1
         /\ held[h].doc.revision \in Nat
         /\ Written(h, r) /\ ApprovedTrue(r)'
<1>2. PICK doc \in Doc : doc = ApprovedDoc(h)
  BY ApprovedFields
<1>3. /\ doc.status = "approved" /\ doc.by = held[h].user /\ doc.issue = held[h].doc.revision
      /\ doc.failed = making[h].failed /\ doc.revision = held[h].doc.revision + 1
  BY <1>2, ApprovedFields
<1>4. /\ approval[r] = held[h].doc /\ Claims(h) /\ held[h].doc.revision \in Nat
      /\ approval[r].status = "processing"
  BY CreatorFields, HeldFields
<1>5. /\ approval' \in [Requests -> Doc] /\ approval'[r] = doc
      /\ \A q \in Requests \ {r} : approval'[q] = approval[q]
  BY <1>2 DEF IInv, TypeOK
<1>6. Written(h, r)
  BY <1>3, <1>4, <1>5, NobodyElse DEF Written
<1>7. PICK x \in DOMAIN github : x = IssueOf(h)
  BY MakerType DEF IInv, HandlerOK, CreatorOK, C!At
<1>8. /\ making[h].issue = x /\ github[x].by = held[h].user
      /\ Range(Relations) \subseteq github[x].related \cup making[h].failed
  BY <1>7, MakerKnows DEF IInv, HandlerOK, CreatorOK, C!At
<1>9. x = [request |-> r, claim |-> doc.issue]
  BY <1>3, <1>7 DEF IssueOf
<1>10. \A y \in DOMAIN github : y.request = r => y.claim <= doc.issue
  BY <1>3, <1>4 DEF IInv, ClaimsPast
<1>11. ApprovedTrue(r)'
  BY <1>3, <1>5, <1>8, <1>9, <1>10 DEF ApprovedTrue
<1> QED
  BY <1>2, <1>3, <1>4, <1>5, <1>6, <1>11

LEMMA SettleInv ==
  ASSUME IInv, NEW h \in Handlers, Settle(h)
  PROVE  IInv'
<1>1. /\ at[h] = "create" /\ C!At(h, "done") /\ UNCHANGED <<expired, github, audit, mishaps>>
      /\ making' = [making EXCEPT ![h] = C!Idle]
  BY DEF Settle, C!Drop
<1>2. /\ making' \in [Handlers -> Making] /\ making'[h] = C!Idle
      /\ \A g \in Handlers \ {h} : making'[g] = making[g]
  BY <1>1, AuditsKept, IdleFields
<1>3. CASE Direct(h)
  <2>1. Rest(h) /\ UNCHANGED approval
    BY <1>3 DEF Settle
  <2> QED
    BY <1>1, <1>2, <2>1, AuditsKept, RestInv
<1>4. CASE ~Direct(h)
  <2>1. PICK doc \in Doc : doc = ApprovedDoc(h)
    BY ApprovedFields
  <2>2. Matches(h)
    BY <1>1, <1>4, CreatorFields DEF Matches
  <2>3. approval' = [approval EXCEPT ![Job(h)] = ApprovedDoc(h)] /\ With(h, doc, "append")
    BY <1>4, <2>1, <2>2 DEF Settle, Store
  <2>4. PICK r \in Requests : r = Job(h)
    BY <1>1, CreatorFields
  <2>5. /\ approval' \in [Requests -> Doc] /\ approval'[r] = doc
        /\ \A q \in Requests \ {r} : approval'[q] = approval[q]
        /\ doc.status = "approved" /\ doc.revision = held[h].doc.revision + 1
        /\ held[h].doc.revision \in Nat
        /\ Written(h, r) /\ ApprovedTrue(r)'
    BY <1>1, <1>4, <2>1, <2>3, <2>4, ApprovalTold
  <2>6. /\ at' \in [Handlers -> Places] /\ held' \in [Handlers -> Hold]
        /\ at'[h] = "append" /\ held'[h].doc = doc /\ Job(h)' = r
        /\ \A g \in Handlers \ {h} : at'[g] = at[g] /\ held'[g] = held[g]
    BY <2>3, <2>4, WithFields DEF Places
  <2>7. Others(h) /\ Typed(h)'
    BY <1>1, <1>2, <2>4, <2>5, <2>6 DEF Others, Typed, IInv, TypeOK
  <2>8. ~Claims(h)' /\ Joins(h)
    BY <2>4, <2>5, <2>6 DEF Claims, Joins
  <2>9. MakerOK(h)' /\ C!At(h, "none")'
    BY <1>2, IdleFields DEF MakerOK, C!At, C!Idle
  <2>10. HandlerOK(h)'
    <3>1. ReaderOK(h)'
      BY <2>5, <2>6 DEF ReaderOK, Knows, Decided
    <3> QED
      BY <2>6, <2>8, <2>9, <3>1 DEF HandlerOK, ClaimOK, RecoverOK, CreatorOK
  <2> QED
    BY <1>1, <1>2, <2>5, <2>7, <2>8, <2>10, HandlerStep
<1> QED
  BY <1>3, <1>4

LEMMA SettleFailsInv ==
  ASSUME IInv, NEW h \in Handlers, SettleFails(h)
  PROVE  IInv'
<1>1. /\ at[h] = "create" /\ C!At(h, "done") /\ ~Direct(h) /\ UNCHANGED <<expired, github, audit>>
      /\ making' = [making EXCEPT ![h] = C!Idle] /\ Goto(h, "recover")
      /\ approval' = [approval EXCEPT ![Job(h)] = ApprovedDoc(h)] \/ UNCHANGED approval
  BY DEF SettleFails, C!Drop, Store
<1>2. /\ making' \in [Handlers -> Making] /\ making'[h] = C!Idle /\ mishaps' \in Nat
      /\ \A g \in Handlers \ {h} : making'[g] = making[g]
  BY <1>1, AuditsKept, IdleFields DEF SettleFails, Mishap
<1>3. CASE UNCHANGED approval
  <2>1. HandlerOK(h)' /\ (Claims(h)' => Claims(h))
    BY <1>1, <1>2, <1>3, GivesUp
  <2> QED
    BY <1>1, <1>2, <1>3, <2>1, AuditsKept, GotoInv DEF Places
<1>4. CASE approval' = [approval EXCEPT ![Job(h)] = ApprovedDoc(h)]
  <2>1. PICK r \in Requests : r = Job(h)
    BY <1>1, CreatorFields
  <2>2. PICK doc \in Doc : doc = ApprovedDoc(h)
    BY ApprovedFields
  <2>3. /\ approval' \in [Requests -> Doc] /\ approval'[r] = doc
        /\ \A q \in Requests \ {r} : approval'[q] = approval[q]
        /\ doc.status = "approved" /\ doc.revision = held[h].doc.revision + 1
        /\ held[h].doc.revision \in Nat
        /\ Written(h, r) /\ ApprovedTrue(r)'
    BY <1>1, <1>4, <2>1, <2>2, ApprovalTold
  <2>4. approval'[r].status = "approved" /\ held[h].doc.revision < approval'[r].revision
    BY <2>3
  <2>5. /\ HandlerOK(h)' /\ Joins(h) /\ Job(h)' = r
        /\ at' \in [Handlers -> Places] /\ held' \in [Handlers -> Hold]
        /\ \A g \in Handlers \ {h} : at'[g] = at[g] /\ held'[g] = held[g]
    BY <1>1, <1>2, <2>1, <2>4, GivesUp
  <2>6. Others(h) /\ Typed(h)'
    BY <1>1, <1>2, <2>3, <2>5 DEF Others, Typed, IInv, TypeOK
  <2> QED
    BY <1>1, <1>2, <2>3, <2>5, <2>6, HandlerStep
<1> QED
  BY <1>1, <1>3, <1>4

LEMMA MeddleInv ==
  ASSUME IInv, NEW h \in Handlers, NEW f \in Range(Fields), NEW value \in {"asked", "other"},
         Meddle(h, f, value)
  PROVE  IInv'
<1>1. /\ at[h] = "create" /\ ~C!At(h, "none")
      /\ github' = [github EXCEPT ![C!Of(h)].item = TRUE, ![C!Of(h)].values[f] = value]
      /\ UNCHANGED <<approval, expired, audit, at, held, making>>
  BY DEF Meddle, C!Meddle
<1>2. mishaps' \in Nat
  BY AuditsKept DEF Meddle, Mishap
<1>3. value \in C!Value
  BY DEF C!Value
<1>4. PICK i \in DOMAIN github : i = C!Of(h)
  BY <1>1, MakerType
<1>5. Kept
  BY <1>1, <1>3, <1>4, ValueKeeps
<1>6. C!Of(h) = IssueOf(h) /\ github[IssueOf(h)].by = held[h].user
  BY <1>1 DEF IInv, HandlerOK, CreatorOK
<1>7. C!Of(h)' = C!Of(h) /\ making[h].issue = i
  BY <1>1, <1>4 DEF C!Of
<1>8. MakerOK(h)'
  <2>1. MakerOK(h) /\ making'[h] = making[h] /\ making[h].step # "none"
    BY <1>1 DEF IInv, HandlerOK, C!At
  <2> QED
    BY <1>5, <1>7, <2>1 DEF MakerOK, Kept, Grown
<1> QED
  BY <1>1, <1>2, <1>4, <1>5, <1>6, <1>7, <1>8, AuditsKept, StaysCreator DEF Kept, Grown

LEMMA InitInv == Init => IInv
<1> SUFFICES ASSUME Init PROVE IInv
  OBVIOUS
<1>1. /\ approval = [r \in Requests |-> NoDoc] /\ expired = {} /\ audit = {} /\ mishaps = 0
      /\ at = [h \in Handlers |-> "idle"] /\ held = [h \in Handlers |-> NoHold]
      /\ github = <<>> /\ making = [h \in Handlers |-> C!Idle]
  BY DEF Init, C!Init
<1>2. DOMAIN github = {} /\ github \in [DOMAIN github -> Issue]
  BY <1>1
<1>3. CreationTypes
  BY <1>1, <1>2, IdleFields DEF CreationTypes
<1>4. ASSUME NEW h \in Handlers PROVE HandlerOK(h)
  <2>1. at[h] = "idle" /\ held[h] = NoHold /\ making[h] = C!Idle
    BY <1>1
  <2>2. MakerOK(h) /\ C!At(h, "none")
    BY <2>1, IdleFields DEF MakerOK, C!At, C!Idle
  <2> QED
    BY <2>1, <2>2 DEF HandlerOK, ClaimOK, Claims, Creating, ReaderOK, RecoverOK, CreatorOK
<1>5. C!TypeOK
  BY <1>3, <1>4, CreationTypeOK DEF MakersOK, HandlerOK
<1>6. TypeOK
  BY <1>1, <1>2, <1>5, NoHoldFields DEF TypeOK, Places
<1>7. Alone
  BY <1>1 DEF Alone, Claims, Creating
<1>8. ASSUME NEW r \in Requests PROVE RequestOK(r) /\ approval[r].status # "approved"
  BY <1>1, NoHoldFields DEF RequestOK
<1> QED
  BY <1>2, <1>3, <1>4, <1>6, <1>7, <1>8 DEF IInv, ClaimsPast, CreatedByRight, ApprovedIsTrue

LEMMA NextInv == IInv /\ [Next]_vars => IInv'
<1> SUFFICES ASSUME IInv, [Next]_vars PROVE IInv'
  OBVIOUS
<1>1. CASE \E h \in Handlers, r \in Requests :
             \/ Request(h, r) \/ Submit(h, r)
             \/ \E u \in Users, c \in Commands \ {"request"} : Press(h, r, u, c)
  BY <1>1, RequestInv, SubmitInv, PressInv
<1>2. CASE \E h \in Handlers : Step(h)
  BY <1>2, ExpireInv, RereadInv, DecisionInv, RevalidationFailsInv, AppendAuditInv,
     CreateIssueInv, SettleInv, RecoverInv, AppendFailedInv
  DEF Step
<1>3. CASE \E h \in Handlers : Fault(h)
  BY <1>3, AppendFailsInv, CreationFailsInv, SettleFailsInv, CrashInv DEF Fault
<1>4. CASE \E r \in Requests : Elapse(r)
  BY <1>4, ElapseInv
<1>5. CASE \E h \in Handlers, f \in Range(Fields), value \in {"asked", "other"} :
             Meddle(h, f, value)
  BY <1>5, MeddleInv
<1>6. CASE UNCHANGED vars
  <2>1. UNCHANGED <<approval, expired, github, making, audit, at, held, mishaps>>
    BY <1>6 DEF vars, creation
  <2>2. \A h \in Handlers : HandlerOK(h)'
    BY <2>1, HandlerStays
  <2>3. C!TypeOK'
    BY <2>1 DEF IInv, TypeOK, C!TypeOK, C!Of, C!At
  <2>4. TypeOK' /\ CreationTypes'
    BY <2>1, <2>3 DEF IInv, TypeOK, CreationTypes, Job
  <2>5. Alone'
    BY <2>1 DEF IInv, Alone, Claims, Creating, Direct, Job
  <2> QED
    BY <2>1, <2>2, <2>4, <2>5 DEF IInv, RequestOK, ClaimsPast, CreatedByRight, ApprovedIsTrue
<1> QED
  BY <1>1, <1>2, <1>3, <1>4, <1>5, <1>6 DEF Next
-----------------------------------------------------------------------------
(* What steps do that the invariant alone does not say. *)

\* A request that was decided on is written by nobody.
LEMMA DecidedKept ==
  ASSUME IInv, Next, NEW r \in Requests, approval[r].status \in Decided
  PROVE  approval'[r] = approval[r]
<1>1. CASE \E h \in Handlers, q \in Requests : Request(h, q)
  <2>1. PICK h \in Handlers, q \in Requests : Request(h, q)
    BY <1>1
  <2>2. approval[q].revision = 0 /\ \E doc : approval' = [approval EXCEPT ![q] = doc]
    BY <2>1 DEF Request, Unasked
  <2>3. q # r
    BY <2>2, StoredFields DEF Decided
  <2> QED
    BY <2>2, <2>3
<1>2. CASE \E h \in Handlers : Expire(h) \/ Reject(h) \/ Claim(h)
  <2>1. PICK h \in Handlers : Expire(h) \/ Reject(h) \/ Claim(h)
    BY <1>2
  <2>2. /\ at[h] \in {"expire", "decide"}
        /\ (Matches(h) /\ \E doc : Store(h, doc)) \/ UNCHANGED approval
    BY <2>1 DEF Expire, Reject, Claim
  <2>3. Matches(h) => approval[Job(h)].status = "pending"
    BY <2>2 DEF IInv, HandlerOK, ReaderOK, Knows, Matches
  <2> QED
    BY <2>2, <2>3, StoredFields DEF Store, Decided, IInv, TypeOK
<1>3. CASE \E h \in Handlers : Settle(h) \/ SettleFails(h)
  <2>1. PICK h \in Handlers : Settle(h) \/ SettleFails(h)
    BY <1>3
  <2>2. /\ at[h] = "create"
        /\ (~Direct(h) /\ \E doc : Store(h, doc)) \/ UNCHANGED approval
    BY <2>1 DEF Settle, SettleFails
  <2>3. ~Direct(h) => approval[Job(h)].status = "processing"
    BY <2>2, CreatorFields
  <2> QED
    BY <2>2, <2>3, StoredFields DEF Store, Decided, IInv, TypeOK
<1>4. CASE \E h \in Handlers : Recover(h)
  <2>1. PICK h \in Handlers : Recover(h)
    BY <1>4
  <2>2. /\ at[h] = "recover"
        /\ \/ /\ approval[Job(h)].revision = ClaimDoc(h).revision
              /\ \E doc : Store(h, doc)
           \/ UNCHANGED approval
    BY <2>1 DEF Recover
  <2>3. ASSUME approval[Job(h)].revision = ClaimDoc(h).revision
        PROVE  approval[Job(h)].status = "processing"
    <3>1. held[h].doc.revision \in Nat /\ 0 < held[h].doc.revision
      BY <2>2, HeldFields DEF IInv, HandlerOK, RecoverOK
    <3>2. ClaimDoc(h).revision = IF held[h].doc.status = "approved"
                                 THEN held[h].doc.revision - 1 ELSE held[h].doc.revision
      BY <3>1, GivenBackFields
    <3>3. /\ held[h].doc.status \in {"processing", "approved"}
          /\ held[h].doc.status = "approved" => approval[Job(h)] = held[h].doc
          /\ held[h].doc.status = "processing" =>
               \/ approval[Job(h)] = held[h].doc
               \/ held[h].doc.revision < approval[Job(h)].revision
      BY <2>2 DEF IInv, HandlerOK, RecoverOK, ReaderOK
    <3> QED
      BY <2>3, <3>1, <3>2, <3>3
  <2> QED
    BY <2>2, <2>3, StoredFields DEF Store, Decided, IInv, TypeOK
<1>5. CASE UNCHANGED approval
  BY <1>5
<1>6. \/ \E h \in Handlers :
           \/ \E q \in Requests : Request(h, q)
           \/ Expire(h) \/ Reject(h) \/ Claim(h) \/ Settle(h) \/ SettleFails(h) \/ Recover(h)
      \/ UNCHANGED approval
  BY ZenonT(60)
  DEF Next, Step, Fault, Submit, Press, Reread, RevalidationFails, AppendAudit, CreateIssue,
      AppendFailed, AppendFails, CreationFails, Crash, Elapse, Meddle
<1> QED
  BY <1>1, <1>2, <1>3, <1>4, <1>5, <1>6

\* A step that is no call of a creation ends it, or leaves it where it is.
LEMMA MakingKept ==
  ASSUME IInv, Next, NEW h \in Handlers, ~\E g \in Handlers : CreateIssue(g)
  PROVE  making'[h] \in {making[h], C!Idle}
<1>1. \/ UNCHANGED making
      \/ \E g \in Handlers : making' = [making EXCEPT ![g] = C!Idle]
  <2>1. ASSUME NEW g \in Handlers, NEW r \in Requests,
               \/ Request(g, r) \/ Submit(g, r)
               \/ \E u \in Users, c \in Commands \ {"request"} : Press(g, r, u, c)
        PROVE  UNCHANGED making
    BY <2>1 DEF Request, Submit, Press, creation
  <2>2. ASSUME NEW g \in Handlers, Step(g)
        PROVE  \/ UNCHANGED making
               \/ making' = [making EXCEPT ![g] = C!Idle]
    <3>1. \/ Expire(g) \/ Reread(g) \/ Reject(g) \/ RevalidationFails(g) \/ Claim(g)
          \/ AppendAudit(g) \/ Settle(g) \/ Recover(g) \/ AppendFailed(g)
      BY <2>2 DEF Step
    <3> QED
      BY <3>1 DEF Expire, Reread, Reject, RevalidationFails, Claim, AppendAudit, Settle, Recover,
                  AppendFailed, creation, C!Drop
  <2>3. ASSUME NEW g \in Handlers, Fault(g)
        PROVE  \/ UNCHANGED making
               \/ making' = [making EXCEPT ![g] = C!Idle]
    BY <2>3 DEF Fault, AppendFails, CreationFails, SettleFails, Crash, creation, C!Drop, C!PostFails
  <2>4. ASSUME NEW r \in Requests, Elapse(r)
        PROVE  UNCHANGED making
    BY <2>4 DEF Elapse, creation
  <2>5. ASSUME NEW g \in Handlers, NEW f \in Range(Fields), NEW value \in {"asked", "other"},
               Meddle(g, f, value)
        PROVE  UNCHANGED making
    BY <2>5 DEF Meddle, C!Meddle
  <2> QED
    BY <2>1, <2>2, <2>3, <2>4, <2>5 DEF Next
<1> QED
  BY <1>1, AuditsKept

LEMMA Reports ==
  ASSUME IInv, Next, NEW h \in Handlers
  PROVE  Reported(h)
<1>1. CASE ~\E g \in Handlers : CreateIssue(g)
  <2>1. C!At(h, "done")' => C!At(h, "done")
    BY <1>1, MakingKept, IdleFields DEF C!At
  <2> QED
    BY <2>1 DEF Reported
<1>2. CASE \E g \in Handlers : CreateIssue(g)
  <2>1. PICK g \in Handlers : CreateIssue(g)
    BY <1>2
  <2>2. CASE \E assigned \in BOOLEAN : C!Post(g, IssueOf(g), held[g].user, assigned)
    <3>1. at[g] = "create"
      BY <2>1 DEF CreateIssue
    <3>2. /\ making'[g].step # "done"
          /\ \A k \in Handlers \ {g} : making'[k] = making[k]
      BY <2>2, <3>1, PostMakes
    <3> QED
      BY <3>2 DEF Reported, C!At
  <2>3. CASE C!Work(g) \/ C!Fault(g)
    <3>1. Called(g) /\ Reported(g)
      BY <2>3, CreationSteps
    <3>2. h # g => making'[h] = making[h]
      BY <3>1 DEF Called
    <3> QED
      BY <3>1, <3>2 DEF Reported, C!At
  <2>4. \/ \E assigned \in BOOLEAN : C!Post(g, IssueOf(g), held[g].user, assigned)
        \/ C!Work(g) \/ C!Fault(g)
    BY <2>1 DEF CreateIssue
  <2> QED
    BY <2>2, <2>3, <2>4
<1> QED
  BY <1>1, <1>2
-----------------------------------------------------------------------------
(* Theorems. *)

\* The inductive invariant holds of every behaviour.
THEOREM Invariance == Spec => []IInv
<1>1. Init => IInv
  BY InitInv
<1>2. IInv /\ [Next]_vars => IInv'
  BY NextInv
<1> QED
  BY <1>1, <1>2, PTL DEF Spec

\* Documents, handlers, Issues and makers are what they are said to be.
THEOREM TypeCorrect == Spec => []TypeOK
<1>1. IInv => TypeOK
  BY DEF IInv
<1> QED
  BY <1>1, Invariance, PTL

\* One handler at a time creates the Issue of a request, under a claim that
\* nobody decides on meanwhile (approve in approval.ts).
THEOREM SingleCreator == Spec => []OneCreator
<1>1. IInv => OneCreator
  <2> SUFFICES ASSUME IInv, NEW h \in Handlers, Creating(h)
               PROVE  /\ held[h].doc.status = "processing" /\ held[h].doc.by = held[h].user
                      /\ approval[Job(h)] = held[h].doc
                      /\ \A g \in Handlers : Creating(g) /\ Job(g) = Job(h) => g = h
    BY DEF OneCreator
  <2>1. \A g \in Handlers : Creating(g) => Claims(g)
    BY CreatorFields DEF Creating
  <2>2. \A g \in Handlers : Creating(g) /\ Job(g) = Job(h) => g = h
    BY <2>1 DEF IInv, Alone
  <2> QED
    BY <2>2, CreatorFields DEF Creating
<1> QED
  BY <1>1, Invariance, PTL

\* Every Issue was created for somebody with the right to decide, after the
\* audit log said so (canApproveIssue, and the order of claim, audit and POST).
THEOREM RightfullyCreated == Spec => []CreatedByRight
<1>1. IInv => CreatedByRight
  BY DEF IInv
<1> QED
  BY <1>1, Invariance, PTL

\* An approval that was recorded tells the truth of its Issue, the last one of
\* the request.
THEOREM ApprovalTrue == Spec => []ApprovedIsTrue
<1>1. IInv => ApprovedIsTrue
  BY DEF IInv
<1> QED
  BY <1>1, Invariance, PTL

\* No handler, whatever document it holds, writes over a decision.
THEOREM DecisionStands == Spec => DecisionIsFinal
<1>1. IInv /\ [Next]_vars =>
        [\A r \in Requests :
           approval[r].status \in Decided => approval'[r] = approval[r]]_approval
  <2> SUFFICES ASSUME IInv, [Next]_vars, ~UNCHANGED approval,
                      NEW r \in Requests, approval[r].status \in Decided
               PROVE  approval'[r] = approval[r]
    OBVIOUS
  <2>1. Next
    BY DEF vars
  <2> QED
    BY <2>1, DecidedKept
<1> QED
  BY <1>1, Invariance, PTL DEF Spec, DecisionIsFinal

\* What createIssue answers of relationships, assignees and fields is so when it
\* answers.
THEOREM AnswerTrue == Spec => ReportIsTrue
<1>1. IInv /\ [Next]_vars =>
        [\A h \in Handlers :
           C!At(h, "done")' /\ ~C!At(h, "done") =>
             LET issue == github'[making'[h].issue]
                 told == C!Parts \ making'[h].failed
             IN  /\ told \cap C!Range(Relations) \subseteq issue.related
                 /\ "assignees" \in told => issue.assigned
                 /\ \A f \in told \cap C!Range(Fields) : issue.values[f] = "asked"]_<<github, making>>
  <2> SUFFICES ASSUME IInv, [Next]_vars, ~UNCHANGED <<github, making>>, NEW h \in Handlers,
                      C!At(h, "done")' /\ ~C!At(h, "done")
               PROVE  LET issue == github'[making'[h].issue]
                          told == C!Parts \ making'[h].failed
                      IN  /\ told \cap C!Range(Relations) \subseteq issue.related
                          /\ "assignees" \in told => issue.assigned
                          /\ \A f \in told \cap C!Range(Fields) : issue.values[f] = "asked"
    OBVIOUS
  <2>1. Next
    BY DEF vars, creation
  <2>2. Reported(h)
    BY <2>1, Reports
  <2>3. C!Range(Relations) = Range(Relations) /\ C!Range(Fields) = Range(Fields)
    BY DEF C!Range, Range
  <2> QED
    BY <2>2, <2>3 DEF Reported
<1> QED
  BY <1>1, Invariance, PTL DEF Spec, ReportIsTrue, C!ReportIsTrue
=============================================================================
