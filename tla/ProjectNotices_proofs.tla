------------------------ MODULE ProjectNotices_proofs ------------------------
(***************************************************************************)
(* Theorems about ProjectNotices, for any items, people, handlers, rules,  *)
(* scenarios and days.  The inductive invariant follows a notice from its  *)
(* item or pull request to the message: who waits for Slack is the only    *)
(* one with its intent, which has posted nothing; what is under a root     *)
(* is under the recorded one; a handler that comes to remember a notice    *)
(* has it in the channel and handed its direct messages on; and who asks   *)
(* for reviews has found the last request to differ or a day old.          *)
(***************************************************************************)
EXTENDS ProjectNotices, SequenceTheorems, TLAPS

Fields == {"task", "rest", "seen", "actor", "day", "since", "notice", "payload", "to", "dms",
           "then", "ts", "active", "print", "stamp"}

Sending == {"deliver", "wait"}

ItemTasks == {"state", "deadline"}
ReviewTasks == {"pull request", "push", "remind"}

InChannel(n) == \E ts \in DOMAIN posts : posts[ts].notice = n

Handed(n, u) == Direct(n, u) \in DOMAIN intents \cup lost

\* The intent and the payload of a handler with a job.
IntentOf(j) == IF j.to = None THEN j.notice ELSE Direct(j.notice, j.to)
PayloadOf(j) == IF j.to = None THEN j.payload ELSE [j.payload EXCEPT !.under = 0]

\* What is under a root is under the recorded one.
PayloadOK(c) ==
  /\ DOMAIN c = {"what", "under", "dms"}
  /\ c.dms \subseteq Users
  /\ c.under \in Nat
  /\ c.under # 0 => c.under = thread.root

\* A notice is of one of the kinds, and with a payload that fits its kind.
Named(n, c) ==
  /\ n[1] \in {"root", "overview", "review", "state", "deadline", "digest", "dm"}
  /\ n[1] \in {"state", "dm"} => n = <<n[1], n[2], n[3]>>
  /\ n[1] = "root" => c.under = 0
  /\ n[1] \in {"overview", "review"} => c.under # 0
  /\ n[1] = "review" => n[2] \in 1..stamps
  /\ n[1] \in ItemTasks /\ RootOf[n[2]] # n[2] => c.under # 0

\* The channel has the message of a job, and its direct messages are sent or
\* lost.
HasTold(j) ==
  /\ j.ts \in DOMAIN posts /\ posts[j.ts].notice = j.notice
  /\ j.notice \in DOMAIN intents /\ intents[j.notice].payload = j.payload

HasHanded(j) == HasTold(j) /\ \A u \in j.payload.dms : Handed(j.notice, u)

\* Where the handlers of each task are.
PlaceOK(p, j) ==
  /\ j.task \in ItemTasks =>
       /\ p \in {"item", "thread", "publish", "remember"} \cup Sending
       /\ p \in Sending => j.then \in {"publish", "remember"}
  /\ j.task \in ReviewTasks =>
       /\ p \in {"request", "compare", "ensure", "save root", "overview", "ask", "rest", "record"}
                \cup Sending
       /\ p \in Sending => j.then \in {"save root", "ask", "rest"}
  /\ j.task = "none" =>
       /\ p \in {"idle", "digested"} \cup Sending
       /\ p \in Sending => j.then = "digested"

\* What a handler has to send, and has sent.
SendOK(p, j) ==
  /\ p \notin Sending => j.to = None
  /\ p \in Sending =>
       /\ PayloadOK(j.payload) /\ Named(j.notice, j.payload)
       /\ j.notice[1] # "dm"
       /\ j.to = None => j.dms = j.payload.dms
       /\ j.to # None => /\ j.to \in j.payload.dms /\ j.dms \subseteq j.payload.dms
                         /\ HasTold(j)
                         /\ \A u \in j.payload.dms \ (j.dms \cup {j.to}) : Handed(j.notice, u)
  /\ p \in {"publish", "remember", "save root"} => HasHanded(j)
  /\ p = "rest" /\ j.notice # None => HasHanded(j)

\* A run through the items.
ItemJob(p, j) ==
  LET i == Head(j.rest)
  IN  /\ j.rest \in Seq(Items) /\ j.rest # <<>>
      /\ p # "item" => Wanted(j, i) # None
      /\ p \notin {"item", "thread"} => j.notice = Wanted(j, i)
      /\ p = "publish" \/ (p \in Sending /\ j.then = "publish") => j.payload.under = 0

\* A review request.
ReviewJob(p, j) ==
  /\ j.active \subseteq Users \ {Author} /\ DOMAIN j.print \subseteq Users
  /\ p \in {"request", "compare"} => j.notice = None
  /\ p # "request" => j.stamp \in 1..stamps
  /\ p \in {"overview", "ask"} => thread.status = "ready"
  /\ p = "save root" \/ (p \in Sending /\ j.then = "save root") => j.payload.under = 0
  /\ p \in Sending /\ j.then = "save root" => j.notice = RootNotice
  /\ p \in Sending /\ j.then = "ask" => j.notice = <<"overview">> /\ thread.status = "ready"
  /\ (p \in Sending /\ j.then = "rest") \/ (p = "rest" /\ j.notice # None) =>
       j.notice = <<"review", j.stamp>> /\ j.payload.what = j.print

JobOK(p, j) ==
  /\ DOMAIN j = Fields
  /\ j.task \in ItemTasks \cup ReviewTasks \cup {"none"}
  /\ PlaceOK(p, j) /\ SendOK(p, j)
  /\ j.task \in ItemTasks => ItemJob(p, j)
  /\ j.task \in ReviewTasks => ReviewJob(p, j)
  /\ p \in Sending /\ j.task = "none" => j.notice[1] = "digest"

\* Who waits for Slack has an intent that is sent by nobody else.
WaitOK(p, j) == p = "wait" =>
  /\ IntentOf(j) \in DOMAIN intents
  /\ intents[IntentOf(j)].status = "sending"
  /\ intents[IntentOf(j)].payload = PayloadOf(j)
  /\ ~InChannel(IntentOf(j))

WaitersDiffer ==
  \A g, h \in Handlers :
    at[g] = "wait" /\ at[h] = "wait" /\ IntentOf(job[g]) = IntentOf(job[h]) => g = h

HandlersOK ==
  /\ DOMAIN at = Handlers /\ DOMAIN job = Handlers
  /\ \A h \in Handlers : JobOK(at[h], job[h]) /\ WaitOK(at[h], job[h])
  /\ WaitersDiffer

-----------------------------------------------------------------------------

ThreadOK ==
  /\ thread \in [status : {"none", "creating", "ready"}, root : Nat,
                 owner : Handlers \cup {None}, live : BOOLEAN]
  /\ thread.root # 0 <=> thread.status = "ready"
  /\ thread.owner # None \/ thread.live => thread.status = "creating"
  /\ thread.root # 0 => thread.root \in DOMAIN posts /\ posts[thread.root].under = 0

IntentOK(n) == LET x == intents[n] IN
  /\ DOMAIN x = {"status", "payload", "ts"}
  /\ x.status \in {"sending", "sent", "stuck"} /\ x.ts \in 0..Len(posts)
  /\ PayloadOK(x.payload) /\ Named(n, x.payload)
  /\ x.status = "sent" => x.ts \in DOMAIN posts /\ posts[x.ts].notice = n

Message == [notice : DOMAIN intents, under : Nat, day : Nat]

PostsOK ==
  /\ posts \in Seq(Message)
  /\ \A ts \in DOMAIN posts :
       /\ posts[ts].under = intents[posts[ts].notice].payload.under
       /\ posts[ts].under < ts /\ posts[ts].day <= day
  /\ \A s, t \in DOMAIN posts : posts[s].notice = posts[t].notice => s = t

\* What is remembered is in the channel, and its direct messages are handed on.
Keeps(n) == InChannel(n) /\ \A u \in intents[n].payload.dms : Handed(n, u)

MemoryOK ==
  /\ DOMAIN memory = ItemTasks
  /\ \A kind \in ItemTasks : DOMAIN memory[kind] = Items
  /\ \A kind \in ItemTasks, i \in Items :
       LET n == memory[kind][i] IN n # None => n[1] = kind /\ n[2] = i /\ Keeps(n)

ReviewedOK ==
  /\ reviewed.status \in {"none", "told"} /\ reviewed.day \in 0..day
  /\ reviewed.status = "told" => DOMAIN reviewed.print \subseteq Users
  /\ reviewed.notice # None => Keeps(reviewed.notice)

WorldOK ==
  /\ item \in [Items -> [state : States, target : Nat]]
  /\ course \in Seq(Moment)
  /\ day \in Nat /\ stamps \in Nat /\ mishaps \in Nat
  /\ requested \subseteq Users \ {Author} /\ recorded \in BOOLEAN /\ disturbed \in BOOLEAN

StoreOK == ThreadOK /\ (\A n \in DOMAIN intents : IntentOK(n)) /\ PostsOK /\ MemoryOK
           /\ ReviewedOK

-----------------------------------------------------------------------------
(* The rest between two requests for review. *)

\* With no mishap an intent is sent, or waited for.
ClearOK == mishaps = 0 =>
  \A n \in DOMAIN intents :
    intents[n].status = "sent"
    \/ \E h \in Handlers : at[h] = "wait" /\ IntentOf(job[h]) = n

\* The message is posted, and is being remembered.
HasAsked(p, j) ==
  /\ j.task \in ReviewTasks
  /\ \/ p = "rest" /\ j.notice # None
     \/ p \in Sending /\ j.then = "rest" /\ j.to # None

\* On the way to the message.
Asks(p, j) ==
  /\ j.task \in ReviewTasks
  /\ p \in {"ensure", "save root", "overview", "ask"} \cup Sending
  /\ p \in Sending /\ j.then = "rest" => j.to = None

\* It found other reviewers or reasons remembered, or a day passed since.
FreshOK(p, j) == Asks(p, j) =>
  reviewed.status = "none" \/ reviewed.print # j.print \/ day - reviewed.day >= Reminder

\* Its message is not posted or called for yet.
UnaskedOK(p, j) ==
  (Asks(p, j) \/ (j.task \in ReviewTasks /\ p = "compare")) /\ ~(p = "wait" /\ j.then = "rest") =>
    <<"review", j.stamp>> \notin DOMAIN intents

Latest(t) == t \in Asked /\ \A s \in Asked : s <= t

\* The last message is being remembered, or what is remembered.
LatestOK == \A t \in Asked : Latest(t) =>
  \/ \E h \in Handlers : HasAsked(at[h], job[h])
  \/ reviewed.status = "told" /\ reviewed.print = Why(t) /\ posts[t].day <= reviewed.day

\* Of the messages there are, and of those before one, there is a last.
Ordered ==
  /\ Asked # {} => \E t \in Asked : Latest(t)
  /\ \A t \in Asked : LET earlier == {s \in Asked : s < t}
                      IN  earlier # {} => Max(earlier) \in earlier

Resting ==
  /\ \A g, h \in Handlers : Reviewing(g) /\ Reviewing(h) => g = h
  /\ \A h \in Handlers :
       /\ FreshOK(at[h], job[h]) /\ UnaskedOK(at[h], job[h])
       /\ HasAsked(at[h], job[h]) => \A t \in Asked : Latest(t) => Why(t) = job[h].print
  /\ LatestOK /\ Ordered
  /\ ReviewRests

RestsOK == mishaps = 0 /\ ~disturbed => Resting

\* A handler is somewhere.
Located == at = [h \in Handlers |-> at[h]]

IInv == WorldOK /\ StoreOK /\ HandlersOK /\ Located /\ ClearOK /\ RestsOK

-----------------------------------------------------------------------------
(* Jobs and payloads. *)

LEMMA JobFields ==
  ASSUME NEW k, DOMAIN k = Fields, NEW a, NEW b, NEW c, NEW d
  PROVE  /\ LET j == [k EXCEPT !.notice = a, !.dms = b, !.then = c, !.payload = d]
            IN  /\ DOMAIN j = Fields
                /\ j.notice = a /\ j.dms = b /\ j.then = c /\ j.payload = d
                /\ j.task = k.task /\ j.rest = k.rest /\ j.seen = k.seen /\ j.actor = k.actor
                /\ j.day = k.day /\ j.to = k.to /\ j.active = k.active /\ j.print = k.print
                /\ j.stamp = k.stamp
         /\ LET j == [k EXCEPT !.to = a, !.dms = b]
            IN  /\ DOMAIN j = Fields
                /\ j.to = a /\ j.dms = b
                /\ j.notice = k.notice /\ j.payload = k.payload /\ j.then = k.then
                /\ j.ts = k.ts /\ j.task = k.task /\ j.rest = k.rest /\ j.seen = k.seen
                /\ j.actor = k.actor /\ j.day = k.day /\ j.active = k.active
                /\ j.print = k.print /\ j.stamp = k.stamp
         /\ LET j == [k EXCEPT !.to = a]
            IN  /\ DOMAIN j = Fields
                /\ j.to = a /\ j.dms = k.dms
                /\ j.notice = k.notice /\ j.payload = k.payload /\ j.then = k.then
                /\ j.ts = k.ts /\ j.task = k.task /\ j.rest = k.rest /\ j.seen = k.seen
                /\ j.actor = k.actor /\ j.day = k.day /\ j.active = k.active
                /\ j.print = k.print /\ j.stamp = k.stamp
         /\ LET j == [k EXCEPT !.ts = a]
            IN  /\ DOMAIN j = Fields
                /\ j.ts = a /\ j.to = k.to /\ j.dms = k.dms
                /\ j.notice = k.notice /\ j.payload = k.payload /\ j.then = k.then
                /\ j.task = k.task /\ j.rest = k.rest /\ j.seen = k.seen
                /\ j.actor = k.actor /\ j.day = k.day /\ j.active = k.active
                /\ j.print = k.print /\ j.stamp = k.stamp
         /\ LET j == [k EXCEPT !.stamp = a]
            IN  /\ DOMAIN j = Fields
                /\ j.stamp = a /\ j.ts = k.ts /\ j.to = k.to /\ j.dms = k.dms
                /\ j.notice = k.notice /\ j.payload = k.payload /\ j.then = k.then
                /\ j.task = k.task /\ j.active = k.active /\ j.print = k.print
         /\ LET j == [k EXCEPT !.rest = a, !.notice = b, !.payload = c, !.then = "idle", !.ts = d]
            IN  /\ DOMAIN j = Fields
                /\ j.rest = a /\ j.task = k.task /\ j.to = k.to
  BY DEF Fields

LEMMA NoJobFields ==
  /\ DOMAIN NoJob = Fields
  /\ NoJob.task = "none" /\ NoJob.to = None /\ NoJob.notice = None
  BY DEF NoJob, Fields

LEMMA Idles == JobOK("idle", NoJob) /\ WaitOK("idle", NoJob)
<1>1. PlaceOK("idle", NoJob)
  BY NoJobFields DEF PlaceOK, Sending, ItemTasks, ReviewTasks
<1>2. SendOK("idle", NoJob)
  BY NoJobFields DEF SendOK, Sending
<1> QED
  BY <1>1, <1>2, NoJobFields DEF JobOK, WaitOK, ItemTasks, ReviewTasks, Sending

-----------------------------------------------------------------------------
(* What a step leaves standing. *)

DataOK == ThreadOK /\ (\A n \in DOMAIN intents : IntentOK(n)) /\ PostsOK /\ stamps \in Nat
          /\ day \in Nat

\* Messages and payloads stay, and a root that is there.
Grown ==
  /\ \A ts \in DOMAIN posts : ts \in DOMAIN posts' /\ posts'[ts] = posts[ts]
  /\ \A n \in DOMAIN intents : n \in DOMAIN intents' /\ intents'[n].payload = intents[n].payload
  /\ lost \subseteq lost'
  /\ thread.status = "ready" => thread' = thread
  /\ stamps \in Nat /\ stamps' \in Nat /\ stamps <= stamps'

LEMMA StampsGrow ==
  ASSUME Grown, NEW n \in 1..stamps
  PROVE  n \in 1..stamps'
  BY DEF Grown

LEMMA PayloadKept ==
  ASSUME ThreadOK, Grown, NEW c, PayloadOK(c)
  PROVE  PayloadOK(c)'
<1>1. c.under # 0 => thread'.root = thread.root
  BY DEF PayloadOK, ThreadOK, Grown
<1> QED
  BY <1>1 DEF PayloadOK

LEMMA NamedKept ==
  ASSUME Grown, NEW n, NEW c, Named(n, c)
  PROVE  Named(n, c)'
<1>1. n[1] = "review" => n[2] \in 1..stamps'
  BY StampsGrow DEF Named
<1> QED
  BY <1>1 DEF Named

LEMMA HandedKept ==
  ASSUME Grown, NEW n, NEW u, Handed(n, u)
  PROVE  Handed(n, u)'
  BY DEF Grown, Handed

LEMMA ChannelKept ==
  ASSUME Grown, NEW n, InChannel(n)
  PROVE  InChannel(n)'
  BY DEF Grown, InChannel

LEMMA HasToldKept ==
  ASSUME Grown, NEW j, HasTold(j)
  PROVE  HasTold(j)'
  BY DEF Grown, HasTold

LEMMA HasHandedKept ==
  ASSUME Grown, NEW j, HasHanded(j)
  PROVE  HasHanded(j)'
<1>1. HasTold(j)'
  BY HasToldKept DEF HasHanded
<1>2. \A u \in j.payload.dms : Handed(j.notice, u)'
  BY HandedKept DEF HasHanded
<1> QED
  BY <1>1, <1>2 DEF HasHanded

LEMMA SendKept ==
  ASSUME ThreadOK, Grown, NEW p, NEW j, SendOK(p, j)
  PROVE  SendOK(p, j)'
<1>1. p \in Sending => PayloadOK(j.payload)' /\ Named(j.notice, j.payload)'
  BY PayloadKept, NamedKept DEF SendOK
<1>2. p \in Sending /\ j.to # None =>
        /\ HasTold(j)'
        /\ \A u \in j.payload.dms \ (j.dms \cup {j.to}) : Handed(j.notice, u)'
  BY HasToldKept, HandedKept DEF SendOK
<1>3. /\ p \in {"publish", "remember", "save root"} => HasHanded(j)'
      /\ p = "rest" /\ j.notice # None => HasHanded(j)'
  BY HasHandedKept DEF SendOK
<1> QED
  BY <1>1, <1>2, <1>3 DEF SendOK

LEMMA ReviewJobKept ==
  ASSUME ThreadOK, Grown, NEW p, NEW j, ReviewJob(p, j)
  PROVE  ReviewJob(p, j)'
<1>1. p # "request" => j.stamp \in 1..stamps'
  BY StampsGrow DEF ReviewJob
<1>2. thread.status = "ready" => thread'.status = "ready"
  BY DEF Grown
<1> QED
  BY <1>1, <1>2, Zenon DEF ReviewJob

LEMMA JobKept ==
  ASSUME ThreadOK, Grown, NEW p, NEW j, JobOK(p, j)
  PROVE  JobOK(p, j)'
<1>1. SendOK(p, j)'
  BY SendKept DEF JobOK
<1>2. j.task \in ReviewTasks => ReviewJob(p, j)'
  BY ReviewJobKept DEF JobOK
<1>3. PlaceOK(p, j)' /\ (j.task \in ItemTasks => ItemJob(p, j)')
  BY DEF JobOK, PlaceOK, ItemJob, Wanted, StateNotice, DeadlineNotice, Stage, Immediate,
         Fingerprint
<1> QED
  BY <1>1, <1>2, <1>3 DEF JobOK

\* What others wait for is left alone.
Spares(h) == \A n \in DOMAIN intents : (\E g \in Handlers \ {h} : at[g] = "wait" /\ IntentOf(job[g]) = n) =>
  intents'[n] = intents[n] /\ (InChannel(n)' => InChannel(n))

LEMMA HandlersMove ==
  ASSUME ThreadOK, HandlersOK, Grown, NEW h \in Handlers, Spares(h), NEW p, NEW j, Go(h, p, j),
         JobOK(p, j)', WaitOK(p, j)',
         p = "wait" => \A g \in Handlers \ {h} :
                         at[g] = "wait" => IntentOf(job[g]) # IntentOf(j)
  PROVE  HandlersOK'
<1>1. /\ DOMAIN at' = Handlers /\ DOMAIN job' = Handlers
      /\ at'[h] = p /\ job'[h] = j
      /\ \A g \in Handlers \ {h} : at'[g] = at[g] /\ job'[g] = job[g]
  BY DEF HandlersOK, Go
<1>2. ASSUME NEW g \in Handlers \ {h}
      PROVE  (JobOK(at[g], job[g]) /\ WaitOK(at[g], job[g]))'
  <2>1. PICK q, k : q = at[g] /\ k = job[g]
    OBVIOUS
  <2>2. JobOK(q, k) /\ WaitOK(q, k)
    BY <2>1 DEF HandlersOK
  <2>3. JobOK(q, k)'
    BY <2>2, JobKept
  <2>4. WaitOK(q, k)'
    <3>1. q = "wait" => /\ intents'[IntentOf(k)] = intents[IntentOf(k)]
                        /\ InChannel(IntentOf(k))' => InChannel(IntentOf(k))
      BY <2>1, <2>2 DEF Spares, WaitOK
    <3>2. q = "wait" => IntentOf(k) \in DOMAIN intents'
      BY <2>2 DEF WaitOK, Grown
    <3> QED
      BY <3>1, <3>2, <2>2 DEF WaitOK, IntentOf, PayloadOf
  <2>5. at'[g] = q /\ job'[g] = k
    BY <1>1, <2>1
  <2> QED
    BY <2>3, <2>4, <2>5
<1>3. (JobOK(at[h], job[h]) /\ WaitOK(at[h], job[h]))'
  BY <1>1
<1>4. WaitersDiffer'
  <2> SUFFICES ASSUME NEW f \in Handlers, NEW g \in Handlers, at'[f] = "wait", at'[g] = "wait",
                      IntentOf(job'[f]) = IntentOf(job'[g])
               PROVE  f = g
    BY DEF WaitersDiffer, IntentOf, Direct
  <2>1. CASE f # h /\ g # h
    BY <2>1, <1>1 DEF HandlersOK, WaitersDiffer
  <2>2. CASE f = h \/ g = h
    BY <2>2, <1>1
  <2> QED
    BY <2>1, <2>2
<1> QED
  BY <1>1, <1>2, <1>3, <1>4 DEF HandlersOK

-----------------------------------------------------------------------------
(* What the steps do to the thread, the outbox and the channel. *)

LEMMA IntentsKept ==
  ASSUME DataOK, Grown, NEW n \in DOMAIN intents, intents'[n] = intents[n],
         Len(posts) <= Len(posts')
  PROVE  IntentOK(n)'
<1>1. PICK x : x = intents[n]
  OBVIOUS
<1>2. /\ DOMAIN x = {"status", "payload", "ts"}
      /\ x.status \in {"sending", "sent", "stuck"} /\ x.ts \in 0..Len(posts)
      /\ PayloadOK(x.payload) /\ Named(n, x.payload)
      /\ x.status = "sent" => x.ts \in DOMAIN posts /\ posts[x.ts].notice = n
  BY <1>1 DEF DataOK, IntentOK
<1>3. PayloadOK(x.payload)' /\ Named(n, x.payload)'
  BY <1>2, PayloadKept, NamedKept DEF DataOK
<1>4. x.status = "sent" => x.ts \in DOMAIN posts' /\ posts'[x.ts].notice = n
  BY <1>2 DEF Grown
<1>5. x.ts \in 0..Len(posts')
  <2>1. Len(posts) \in Nat /\ Len(posts') \in Nat
    BY LenProperties DEF DataOK, PostsOK
  <2> QED
    BY <2>1, <1>2
<1>6. intents'[n] = x
  BY <1>1
<1> QED
  BY <1>2, <1>3, <1>4, <1>5, <1>6 DEF IntentOK

LEMMA PostsAre ==
  ASSUME PostsOK
  PROVE  /\ Len(posts) \in Nat /\ DOMAIN posts = 1..Len(posts)
         /\ \A ts \in DOMAIN posts : /\ posts[ts].notice \in DOMAIN intents
                                     /\ posts[ts].under \in Nat /\ posts[ts].day \in Nat
<1>1. posts \in Seq(Message)
  BY DEF PostsOK
<1>2. Len(posts) \in Nat /\ DOMAIN posts = 1..Len(posts)
  BY <1>1, LenProperties
<1>3. \A ts \in DOMAIN posts : posts[ts] \in Message
  BY <1>1, <1>2, ElementOfSeq
<1> QED
  BY <1>2, <1>3 DEF Message

LEMMA MoreMessages ==
  ASSUME DOMAIN intents \subseteq DOMAIN intents'
  PROVE  posts \in Seq(Message) => posts \in Seq(Message)'
<1>1. Message \subseteq Message'
  BY DEF Message
<1>2. \A S, T : S \subseteq T /\ posts \in Seq(S) => posts \in Seq(T)
  BY LenProperties, SMT
<1> QED
  BY <1>1, <1>2

LEMMA StandsStill ==
  ASSUME DataOK, UNCHANGED <<thread, intents, posts>>, lost \subseteq lost',
         stamps' \in Nat, stamps <= stamps', day' \in Nat, day <= day'
  PROVE  Grown /\ DataOK'
<1>1. Grown
  BY DEF Grown, DataOK
<1>2. \A n \in DOMAIN intents' : IntentOK(n)'
  BY <1>1, IntentsKept, PostsAre DEF DataOK
<1>3. PostsOK'
  <2>1. posts' \in Seq(Message')
    BY MoreMessages DEF DataOK, PostsOK
  <2>2. \A ts \in DOMAIN posts' : posts'[ts].day <= day'
    BY PostsAre DEF DataOK, PostsOK
  <2> QED
    BY <2>1, <2>2 DEF DataOK, PostsOK
<1>4. ThreadOK'
  BY DEF DataOK, ThreadOK
<1> QED
  BY <1>1, <1>2, <1>3, <1>4 DEF DataOK

LEMMA CallsFor ==
  ASSUME DataOK, NEW n, n \notin DOMAIN intents, NEW c, PayloadOK(c), Named(n, c),
         intents' = [m \in DOMAIN intents \cup {n} |->
                       IF m = n THEN [status |-> "sending", payload |-> c, ts |-> 0]
                                ELSE intents[m]],
         UNCHANGED <<thread, posts, lost, stamps, day>>
  PROVE  /\ Grown /\ DataOK' /\ ~InChannel(n)
         /\ n \in DOMAIN intents' /\ intents'[n].status = "sending" /\ intents'[n].payload = c
<1>1. Grown
  BY DEF Grown, DataOK
<1>2. ~InChannel(n)
  BY PostsAre DEF DataOK, InChannel
<1>3. \A m \in DOMAIN intents' : IntentOK(m)'
  <2>1. \A m \in DOMAIN intents : intents'[m] = intents[m]
    OBVIOUS
  <2>2. \A m \in DOMAIN intents : IntentOK(m)'
    BY <1>1, <2>1, IntentsKept, PostsAre DEF DataOK
  <2>3. IntentOK(n)'
    <3>1. PayloadOK(c)' /\ Named(n, c)'
      BY <1>1, PayloadKept, NamedKept DEF DataOK
    <3>2. 0 \in 0..Len(posts')
      BY PostsAre DEF DataOK
    <3>3. PICK x : x = [status |-> "sending", payload |-> c, ts |-> 0]
      OBVIOUS
    <3>4. /\ DOMAIN x = {"status", "payload", "ts"}
          /\ x.status = "sending" /\ x.payload = c /\ x.ts = 0
      BY <3>3
    <3>5. intents'[n] = x
      BY <3>3
    <3> QED
      BY <3>1, <3>2, <3>4, <3>5 DEF IntentOK
  <2> QED
    BY <2>2, <2>3
<1>4. PostsOK'
  <2>1. posts' \in Seq(Message')
    BY MoreMessages DEF DataOK, PostsOK
  <2>2. \A ts \in DOMAIN posts : intents'[posts[ts].notice] = intents[posts[ts].notice]
    BY PostsAre DEF DataOK
  <2> QED
    BY <2>1, <2>2, ZenonT(60) DEF DataOK, PostsOK
<1>5. ThreadOK'
  BY DEF DataOK, ThreadOK
<1> QED
  BY <1>1, <1>2, <1>3, <1>4, <1>5 DEF DataOK

\* A message is posted, or none; and its intent is settled, or not.
LEMMA Posts ==
  ASSUME DataOK, NEW n \in DOMAIN intents, ~InChannel(n),
         posts' = Append(posts, [notice |-> n, under |-> intents[n].payload.under, day |-> day]),
         \/ UNCHANGED intents
         \/ \E s \in {"stuck", "sent"} : Settle(n, s, IF s = "sent" THEN Len(posts) + 1 ELSE 0),
         UNCHANGED <<thread, lost, stamps, day>>
  PROVE  /\ Grown /\ DataOK'
         /\ DOMAIN posts' = DOMAIN posts \cup {Len(posts) + 1}
         /\ posts'[Len(posts) + 1] =
              [notice |-> n, under |-> intents[n].payload.under, day |-> day]
         /\ \A m \in DOMAIN intents \ {n} :
              intents'[m] = intents[m] /\ (InChannel(m)' => InChannel(m))
<1> DEFINE x == [notice |-> n, under |-> intents[n].payload.under, day |-> day]
           ts1 == Len(posts) + 1
<1>1. posts \in Seq(Message) /\ Len(posts) \in Nat /\ DOMAIN posts = 1..Len(posts)
  BY PostsAre DEF DataOK, PostsOK
<1>2. intents[n].payload.under \in Nat /\ day \in Nat
  BY DEF DataOK, IntentOK, PayloadOK
<1>3. x \in Message
  BY <1>2 DEF Message
<1>4. /\ posts' \in Seq(Message) /\ Len(posts') = Len(posts) + 1
      /\ \A i \in 1..Len(posts) : posts'[i] = posts[i]
      /\ posts'[Len(posts) + 1] = x
  BY <1>1, <1>3, AppendProperties
<1>5. DOMAIN posts' = 1..ts1 /\ DOMAIN posts' = DOMAIN posts \cup {ts1}
  BY <1>1, <1>4, LenProperties
<1>6. /\ DOMAIN intents' = DOMAIN intents
      /\ \A m \in DOMAIN intents \ {n} : intents'[m] = intents[m]
      /\ \A m \in DOMAIN intents : intents'[m].payload = intents[m].payload
      /\ \/ intents'[n] = intents[n]
         \/ /\ DOMAIN intents'[n] = DOMAIN intents[n]
            /\ intents'[n].status \in {"stuck", "sent"}
            /\ intents'[n].ts = IF intents'[n].status = "sent" THEN ts1 ELSE 0
  <2>0. DOMAIN intents[n] = {"status", "payload", "ts"}
    BY DEF DataOK, IntentOK
  <2>1. CASE UNCHANGED intents
    BY <2>1
  <2>2. CASE \E s \in {"stuck", "sent"} : Settle(n, s, IF s = "sent" THEN Len(posts) + 1 ELSE 0)
    <3>1. PICK s \in {"stuck", "sent"} : Settle(n, s, IF s = "sent" THEN Len(posts) + 1 ELSE 0)
      BY <2>2
    <3>2. PICK ts : ts = IF s = "sent" THEN Len(posts) + 1 ELSE 0
      OBVIOUS
    <3>3. intents' = [intents EXCEPT ![n].status = s, ![n].ts = ts]
      BY <3>1, <3>2 DEF Settle
    <3>4. /\ DOMAIN intents' = DOMAIN intents /\ DOMAIN intents'[n] = DOMAIN intents[n]
          /\ intents'[n].status = s /\ intents'[n].ts = ts
          /\ intents'[n].payload = intents[n].payload
          /\ \A m \in DOMAIN intents \ {n} : intents'[m] = intents[m]
      BY <3>3, <2>0
    <3> QED
      BY <3>2, <3>4
  <2> QED
    BY <2>1, <2>2
<1>7. Grown
  <2>1. \A ts \in DOMAIN posts : ts \in DOMAIN posts' /\ posts'[ts] = posts[ts]
    BY <1>1, <1>4, <1>5
  <2> QED
    BY <2>1, <1>6 DEF Grown, DataOK
<1>8. \A m : m # n => (InChannel(m)' => InChannel(m))
  <2>1. x.notice = n
    OBVIOUS
  <2> QED
    BY <1>1, <1>4, <1>5, <2>1 DEF InChannel
<1>9. \A m \in DOMAIN intents' : IntentOK(m)'
  <2>1. \A m \in DOMAIN intents \ {n} : IntentOK(m)'
    BY <1>1, <1>4, <1>6, <1>7, IntentsKept
  <2>2. CASE intents'[n] = intents[n]
    BY <1>1, <1>4, <1>6, <1>7, <2>1, <2>2, IntentsKept
  <2>3. CASE /\ DOMAIN intents'[n] = DOMAIN intents[n]
             /\ intents'[n].status \in {"stuck", "sent"}
             /\ intents'[n].ts = IF intents'[n].status = "sent" THEN ts1 ELSE 0
    <3>1. DOMAIN intents[n] = {"status", "payload", "ts"} /\ PayloadOK(intents[n].payload)
          /\ Named(n, intents[n].payload)
      BY DEF DataOK, IntentOK
    <3>2. PICK c : c = intents[n].payload
      OBVIOUS
    <3>3. PayloadOK(c)' /\ Named(n, c)'
      BY <1>7, <3>1, <3>2, PayloadKept, NamedKept DEF DataOK
    <3>4. intents'[n].payload = c
      BY <1>6, <3>2
    <3>5. intents'[n].ts \in 0..Len(posts')
      BY <2>3, <1>1, <1>4
    <3>6. intents'[n].status = "sent" =>
            intents'[n].ts \in DOMAIN posts' /\ posts'[intents'[n].ts].notice = n
      BY <2>3, <1>4, <1>5
    <3>7. IntentOK(n)'
      BY <2>3, <3>1, <3>3, <3>4, <3>5, <3>6 DEF IntentOK
    <3> QED
      BY <3>7, <2>1, <1>6
  <2> QED
    BY <2>2, <2>3, <1>6
<1>10. PostsOK'
  <2>1. Message' = Message
    BY <1>6 DEF Message
  <2>2. \A ts \in DOMAIN posts' :
          /\ posts'[ts].under = intents'[posts'[ts].notice].payload.under
          /\ posts'[ts].under < ts /\ posts'[ts].day <= day'
    <3>1. intents[n].payload.under < ts1
      <4>1. intents[n].payload.under # 0 => intents[n].payload.under = thread.root
        BY DEF DataOK, IntentOK, PayloadOK
      <4>2. thread.root # 0 => thread.root \in 1..Len(posts)
        BY <1>1 DEF DataOK, ThreadOK
      <4> QED
        BY <1>1, <1>2, <4>1, <4>2
    <3>2. /\ posts'[ts1].notice = n /\ posts'[ts1].under = intents[n].payload.under
          /\ posts'[ts1].day = day
      BY <1>4
    <3>3. /\ posts'[ts1].under = intents'[posts'[ts1].notice].payload.under
          /\ posts'[ts1].under < ts1 /\ posts'[ts1].day <= day'
      BY <1>2, <1>6, <3>1, <3>2
    <3>4. ASSUME NEW ts \in DOMAIN posts
          PROVE  /\ posts'[ts].under = intents'[posts'[ts].notice].payload.under
                 /\ posts'[ts].under < ts /\ posts'[ts].day <= day'
      <4>1. posts'[ts] = posts[ts] /\ posts[ts].notice \in DOMAIN intents
        BY <1>1, <1>4, PostsAre DEF DataOK
      <4> QED
        BY <4>1, <1>6 DEF DataOK, PostsOK
    <3> QED
      BY <1>5, <3>3, <3>4
  <2>3. \A s, t \in DOMAIN posts' : posts'[s].notice = posts'[t].notice => s = t
    <3>1. posts'[ts1].notice = n /\ \A t \in DOMAIN posts : posts'[t] = posts[t]
      BY <1>1, <1>4
    <3>2. \A t \in DOMAIN posts : posts[t].notice # n
      BY DEF InChannel
    <3> QED
      BY <1>5, <3>1, <3>2 DEF DataOK, PostsOK
  <2> QED
    BY <1>4, <2>1, <2>2, <2>3 DEF PostsOK
<1>11. ThreadOK'
  BY <1>1, <1>4, <1>5 DEF DataOK, ThreadOK
<1> QED
  BY <1>4, <1>5, <1>6, <1>7, <1>8, <1>9, <1>10, <1>11 DEF DataOK

LEMMA Settles ==
  ASSUME DataOK, NEW n \in DOMAIN intents, NEW s \in {"stuck", "sent"}, NEW ts \in 0..Len(posts),
         Settle(n, s, ts), s = "sent" => ts \in DOMAIN posts /\ posts[ts].notice = n,
         UNCHANGED <<thread, posts, lost, stamps, day>>
  PROVE  /\ Grown /\ DataOK'
         /\ DOMAIN intents' = DOMAIN intents
         /\ \A m \in DOMAIN intents \ {n} : intents'[m] = intents[m]
         /\ intents'[n].status = s
<1>1. DOMAIN intents[n] = {"status", "payload", "ts"} /\ PayloadOK(intents[n].payload)
      /\ Named(n, intents[n].payload)
  BY DEF DataOK, IntentOK
<1>2. intents' = [intents EXCEPT ![n].status = s, ![n].ts = ts]
  BY DEF Settle
<1>3. /\ DOMAIN intents' = DOMAIN intents /\ DOMAIN intents'[n] = DOMAIN intents[n]
      /\ intents'[n].status = s /\ intents'[n].ts = ts
      /\ intents'[n].payload = intents[n].payload
      /\ \A m \in DOMAIN intents \ {n} : intents'[m] = intents[m]
  BY <1>1, <1>2
<1>4. Grown
  BY <1>3 DEF Grown, DataOK
<1>5. \A m \in DOMAIN intents' : IntentOK(m)'
  <2>1. \A m \in DOMAIN intents \ {n} : IntentOK(m)'
    BY <1>3, <1>4, IntentsKept, PostsAre DEF DataOK
  <2>2. PICK c : c = intents[n].payload
    OBVIOUS
  <2>3. PayloadOK(c)' /\ Named(n, c)'
    BY <1>1, <1>4, <2>2, PayloadKept, NamedKept DEF DataOK
  <2>4. IntentOK(n)'
    BY <1>1, <1>3, <2>2, <2>3 DEF IntentOK
  <2> QED
    BY <2>1, <2>4, <1>3
<1>6. PostsOK'
  <2>1. Message' = Message
    BY <1>3 DEF Message
  <2>2. \A m \in DOMAIN posts : intents'[posts[m].notice].payload = intents[posts[m].notice].payload
    BY <1>3, PostsAre DEF DataOK
  <2> QED
    BY <2>1, <2>2 DEF DataOK, PostsOK
<1>7. ThreadOK'
  BY DEF DataOK, ThreadOK
<1> QED
  BY <1>3, <1>4, <1>5, <1>6, <1>7 DEF DataOK

LEMMA ThreadMoves ==
  ASSUME DataOK, thread.status = "ready" => thread' = thread, ThreadOK',
         UNCHANGED <<intents, posts, lost, stamps, day>>
  PROVE  Grown /\ DataOK'
<1>1. Grown
  BY DEF Grown, DataOK
<1>2. \A n \in DOMAIN intents' : IntentOK(n)'
  BY <1>1, IntentsKept, PostsAre DEF DataOK
<1>3. PostsOK'
  BY DEF DataOK, PostsOK, Message
<1> QED
  BY <1>1, <1>2, <1>3 DEF DataOK

-----------------------------------------------------------------------------
(* Sending a notice, and what comes after its message. *)

\* All but what a handler is sending.
SameRun(j, k) ==
  /\ j.task = k.task /\ j.rest = k.rest /\ j.seen = k.seen /\ j.actor = k.actor
  /\ j.day = k.day /\ j.active = k.active /\ j.print = k.print /\ j.stamp = k.stamp

SameNotice(j, k) == j.notice = k.notice /\ j.payload = k.payload /\ j.then = k.then

LEMMA HasJob ==
  ASSUME HandlersOK, NEW h \in Handlers
  PROVE  /\ JobOK(at[h], job[h]) /\ WaitOK(at[h], job[h])
         /\ DOMAIN job[h] = Fields
         /\ PlaceOK(at[h], job[h]) /\ SendOK(at[h], job[h])
         /\ job[h].task \in ItemTasks \cup ReviewTasks \cup {"none"}
         /\ job[h].task \in ItemTasks => ItemJob(at[h], job[h])
         /\ job[h].task \in ReviewTasks => ReviewJob(at[h], job[h])
         /\ at[h] \in Sending /\ job[h].task = "none" => job[h].notice[1] = "digest"
  BY DEF HandlersOK, JobOK

LEMMA SendFields ==
  ASSUME NEW k, DOMAIN k = Fields, NEW h \in Handlers, k = job[h],
         NEW n, NEW w, NEW u, NEW d, NEW p, Send(h, n, w, u, d, p)
  PROVE  \E j, c : /\ Go(h, "deliver", j) /\ DOMAIN j = Fields
                   /\ j.notice = n /\ j.payload = c /\ j.dms = d /\ j.then = p /\ j.to = k.to
                   /\ SameRun(j, k)
                   /\ DOMAIN c = {"what", "under", "dms"}
                   /\ c.what = w /\ c.under = u /\ c.dms = d
<1>1. PICK c : c = [what |-> w, under |-> u, dms |-> d]
  OBVIOUS
<1>2. PICK j : j = [k EXCEPT !.notice = n, !.dms = d, !.then = p, !.payload = c]
  OBVIOUS
<1>3. Go(h, "deliver", j)
  BY <1>1, <1>2 DEF Send
<1>4. /\ DOMAIN j = Fields
      /\ j.notice = n /\ j.payload = c /\ j.dms = d /\ j.then = p /\ j.to = k.to
      /\ SameRun(j, k)
  BY <1>2, JobFields DEF SameRun
<1>5. DOMAIN c = {"what", "under", "dms"} /\ c.what = w /\ c.under = u /\ c.dms = d
  BY <1>1
<1> QED
  BY <1>3, <1>4, <1>5

\* A handler whose message is in the channel.
AfterOK(j) ==
  /\ DOMAIN j = Fields
  /\ j.task \in ItemTasks \cup ReviewTasks \cup {"none"}
  /\ PlaceOK("deliver", j)
  /\ PayloadOK(j.payload) /\ Named(j.notice, j.payload) /\ j.notice[1] # "dm"
  /\ HasTold(j)
  /\ j.dms \subseteq j.payload.dms
  /\ \A u \in j.payload.dms \ j.dms : Handed(j.notice, u)
  /\ j.task \in ItemTasks => ItemJob("deliver", j)
  /\ j.task \in ReviewTasks => ReviewJob("deliver", j)
  /\ j.task = "none" => j.notice[1] = "digest"

\* It goes on with a direct message, or where it was to go.
GoesOn(p, k, j) ==
  /\ SameRun(k, j) /\ SameNotice(k, j)
  /\ \/ p = "deliver" /\ k.to # None
     \/ p = j.then /\ k.to = None

LEMMA OnwardGoes ==
  ASSUME NEW h \in Handlers, NEW j, AfterOK(j)', Onward(h, j)
  PROVE  \E p, k : Go(h, p, k) /\ JobOK(p, k)' /\ p # "wait" /\ GoesOn(p, k, j)
<1>1. DOMAIN j = Fields /\ PlaceOK("deliver", j)
  BY DEF AfterOK, PlaceOK
<1>2. CASE j.dms = {}
  <2>1. PICK k : k = [j EXCEPT !.to = None]
    OBVIOUS
  <2>2. Go(h, j.then, k)
    BY <1>2, <2>1 DEF Onward
  <2>3. DOMAIN k = Fields /\ SameRun(k, j) /\ SameNotice(k, j) /\ k.to = None /\ k.ts = j.ts
    BY <1>1, <2>1, JobFields DEF SameRun, SameNotice
  <2>4. HasHanded(j)'
    BY <1>2 DEF AfterOK, HasHanded
  <2>5. HasHanded(k)'
    BY <2>3, <2>4 DEF HasHanded, HasTold, SameNotice
  <2>6. /\ j.then \in {"publish", "remember", "save root", "ask", "rest", "digested"}
        /\ PlaceOK(j.then, k)
    BY <1>1, <2>3 DEF PlaceOK, SameRun, AfterOK, Sending, ItemTasks, ReviewTasks
  <2>7. SendOK(j.then, k)'
    BY <2>3, <2>5, <2>6 DEF SendOK, Sending
  <2>8. k.task \in ItemTasks => ItemJob(j.then, k)'
    <3>1. j.task \in ItemTasks => ItemJob("deliver", j)'
      BY DEF AfterOK
    <3> QED
      BY <3>1, <2>3, <2>6
         DEF ItemJob, SameRun, SameNotice, Wanted, StateNotice, DeadlineNotice, Stage,
             Immediate, Fingerprint, Sending
  <2>9. k.task \in ReviewTasks => ReviewJob(j.then, k)'
    <3>1. j.task \in ReviewTasks => ReviewJob("deliver", j)'
      BY DEF AfterOK
    <3>2. j.task \in ReviewTasks => j.then \in {"save root", "ask", "rest"}
      BY <1>1 DEF PlaceOK, Sending
    <3> QED
      BY <3>1, <3>2, <2>3 DEF ReviewJob, SameRun, SameNotice, Sending
  <2>10. k.task \in ItemTasks \cup ReviewTasks \cup {"none"}
    BY <2>3 DEF AfterOK, SameRun
  <2>11. JobOK(j.then, k)'
    BY <2>3, <2>6, <2>7, <2>8, <2>9, <2>10 DEF JobOK, PlaceOK, Sending
  <2> QED
    BY <2>2, <2>3, <2>6, <2>11 DEF GoesOn
<1>3. CASE j.dms # {}
  <2>1. PICK u : u = CHOOSE v \in j.dms : TRUE
    OBVIOUS
  <2>2. u \in j.dms
    BY <1>3, <2>1
  <2>3. PICK k : k = [j EXCEPT !.to = u, !.dms = j.dms \ {u}]
    OBVIOUS
  <2>4. Go(h, "deliver", k)
    BY <1>1, <1>3, <2>1, <2>3 DEF Onward, Fields
  <2>5. /\ DOMAIN k = Fields /\ SameRun(k, j) /\ SameNotice(k, j) /\ k.to = u /\ k.ts = j.ts
        /\ k.dms = j.dms \ {u}
    BY <1>1, <2>3, JobFields DEF SameRun, SameNotice
  <2>6. u # None
    BY <2>2, NoticesAssumption DEF AfterOK, PayloadOK
  <2>7. HasTold(k)'
    BY <2>5 DEF AfterOK, HasTold, SameNotice
  <2>8. SendOK("deliver", k)'
    <3>1. PayloadOK(k.payload)' /\ Named(k.notice, k.payload)' /\ k.notice[1] # "dm"
      BY <2>5 DEF AfterOK, SameNotice
    <3>2. k.to \in k.payload.dms /\ k.dms \subseteq k.payload.dms
      BY <2>2, <2>5 DEF AfterOK, SameNotice
    <3>3. \A v \in k.payload.dms \ (k.dms \cup {k.to}) : Handed(k.notice, v)'
      BY <2>2, <2>5 DEF AfterOK, SameNotice
    <3> QED
      BY <2>5, <2>6, <2>7, <3>1, <3>2, <3>3 DEF SendOK, Sending
  <2>9. PlaceOK("deliver", k)
    BY <1>1, <2>5 DEF PlaceOK, SameRun, SameNotice
  <2>10. k.task \in ItemTasks => ItemJob("deliver", k)'
    <3>1. j.task \in ItemTasks => ItemJob("deliver", j)'
      BY DEF AfterOK
    <3> QED
      BY <3>1, <2>5
         DEF ItemJob, SameRun, SameNotice, Wanted, StateNotice, DeadlineNotice, Stage,
             Immediate, Fingerprint, Sending
  <2>11. k.task \in ReviewTasks => ReviewJob("deliver", k)'
    <3>1. j.task \in ReviewTasks => ReviewJob("deliver", j)'
      BY DEF AfterOK
    <3> QED
      BY <3>1, <2>5 DEF ReviewJob, SameRun, SameNotice, Sending
  <2>12. /\ k.task \in ItemTasks \cup ReviewTasks \cup {"none"}
         /\ k.task = "none" => k.notice[1] = "digest"
    BY <2>5 DEF AfterOK, SameRun, SameNotice
  <2>13. JobOK("deliver", k)'
    BY <2>5, <2>8, <2>9, <2>10, <2>11, <2>12 DEF JobOK, PlaceOK, Sending
  <2> QED
    BY <2>4, <2>5, <2>6, <2>13 DEF GoesOn
<1> QED
  BY <1>2, <1>3

\* A handler in whose place a message was sent, or given up.
LEMMA AfterMessage ==
  ASSUME DataOK, HandlersOK, Grown, NEW h \in Handlers, at[h] \in Sending,
         NEW j, DOMAIN j = Fields, SameRun(j, job[h]), SameNotice(j, job[h]),
         j.dms = job[h].dms, HasTold(j)',
         NEW i, i = job[h], i.to # None => Handed(i.notice, i.to)'
  PROVE  AfterOK(j)'
<1>1. PICK q, k : q = at[h] /\ k = i
  OBVIOUS
<1>2. /\ PlaceOK(q, k) /\ SendOK(q, k) /\ JobOK(q, k)
      /\ q \in Sending
      /\ k.task \in ItemTasks \cup ReviewTasks \cup {"none"}
  BY <1>1, HasJob
<1>3. SendOK(q, k)' /\ JobOK(q, k)'
  BY <1>2, SendKept, JobKept DEF DataOK
<1>4. /\ j.task = k.task /\ j.notice = k.notice /\ j.payload = k.payload /\ j.then = k.then
      /\ j.dms = k.dms
      /\ j.rest = k.rest /\ j.seen = k.seen /\ j.actor = k.actor /\ j.day = k.day
      /\ j.active = k.active /\ j.print = k.print /\ j.stamp = k.stamp
  BY <1>1 DEF SameRun, SameNotice
<1>5. /\ PayloadOK(j.payload)' /\ Named(j.notice, j.payload)' /\ j.notice[1] # "dm"
  BY <1>2, <1>3, <1>4 DEF SendOK
<1>6. j.dms \subseteq j.payload.dms
  BY <1>2, <1>4 DEF SendOK
<1>7. \A u \in j.payload.dms \ j.dms : Handed(j.notice, u)'
  <2>1. CASE k.to = None
    BY <2>1, <1>2, <1>4 DEF SendOK
  <2>2. CASE k.to # None
    <3>1. \A u \in k.payload.dms \ (k.dms \cup {k.to}) : Handed(k.notice, u)'
      BY <2>2, <1>2, <1>3 DEF SendOK
    <3>2. Handed(k.notice, k.to)'
      BY <2>2, <1>1
    <3> QED
      BY <3>1, <3>2, <1>4
  <2> QED
    BY <2>1, <2>2
<1>8. PlaceOK("deliver", j)
  BY <1>2, <1>4 DEF PlaceOK, Sending
<1>9. j.task \in ItemTasks => ItemJob("deliver", j)'
  <2>1. k.task \in ItemTasks => ItemJob(q, k)'
    BY <1>3 DEF JobOK
  <2> QED
    BY <2>1, <1>2, <1>4
       DEF ItemJob, Wanted, StateNotice, DeadlineNotice, Stage, Immediate,
           Fingerprint, Sending
<1>10. j.task \in ReviewTasks => ReviewJob("deliver", j)'
  <2>1. k.task \in ReviewTasks => ReviewJob(q, k)'
    BY <1>3 DEF JobOK
  <2> QED
    BY <2>1, <1>2, <1>4 DEF ReviewJob, Sending
<1>11. j.task = "none" => j.notice[1] = "digest"
  BY <1>2, <1>4 DEF JobOK
<1> QED
  BY <1>2, <1>4, <1>5, <1>6, <1>7, <1>8, <1>9, <1>10, <1>11 DEF AfterOK

\* How a handler comes out of a call.
Concluded(p, k, j) ==
  \/ p = "idle" /\ k = NoJob /\ j.to = None
  \/ GoesOn(p, k, j)

Concludes(h) ==
  \E p, k : Go(h, p, k) /\ JobOK(p, k)' /\ p # "wait" /\ Concluded(p, k, job[h])

LEMMA GoesOnAs ==
  ASSUME NEW p, NEW k, NEW j, NEW i, SameRun(j, i), SameNotice(j, i), GoesOn(p, k, j)
  PROVE  GoesOn(p, k, i)
  BY DEF GoesOn, SameRun, SameNotice

LEMMA RestsIdle ==
  ASSUME DataOK, Grown, NEW h \in Handlers, Rest(h)
  PROVE  Go(h, "idle", NoJob) /\ JobOK("idle", NoJob)'
  BY Idles, JobKept DEF Rest, DataOK

LEMMA AcceptedConcludes ==
  ASSUME DataOK, HandlersOK, Grown, NEW h \in Handlers, at[h] \in Sending,
         NEW ts, Accepted(h, ts),
         NEW i, i = job[h], i.to # None => Handed(i.notice, i.to)',
         job[h].to = None =>
           /\ ts \in DOMAIN posts' /\ posts'[ts].notice = job[h].notice
           /\ job[h].notice \in DOMAIN intents'
           /\ intents'[job[h].notice].payload = job[h].payload
  PROVE  \E p, k : Go(h, p, k) /\ JobOK(p, k)' /\ p # "wait" /\ GoesOn(p, k, job[h])
<1>2. DOMAIN i = Fields /\ SendOK(at[h], i)
  BY HasJob
<1>3. PICK j : j = IF i.to = None THEN [i EXCEPT !.ts = ts] ELSE i
  OBVIOUS
<1>4. Onward(h, j)
  BY <1>3 DEF Accepted
<1>5. /\ DOMAIN j = Fields /\ SameRun(j, i) /\ SameNotice(j, i) /\ j.dms = i.dms
      /\ i.to = None => j.ts = ts
  BY <1>2, <1>3, JobFields DEF SameRun, SameNotice
<1>6. HasTold(j)'
  <2>1. CASE i.to = None
    BY <2>1, <1>5 DEF HasTold, SameNotice
  <2>2. CASE i.to # None
    BY <2>2, <1>2, <1>3, HasToldKept DEF SendOK
  <2> QED
    BY <2>1, <2>2
<1>7. AfterOK(j)'
  BY <1>5, <1>6, AfterMessage
<1>8. PICK p, k : Go(h, p, k) /\ JobOK(p, k)' /\ p # "wait" /\ GoesOn(p, k, j)
  BY <1>4, <1>7, OnwardGoes
<1>9. GoesOn(p, k, i)
  BY <1>5, <1>8, GoesOnAs
<1> QED
  BY <1>8, <1>9

LEMMA RejectedConcludes ==
  ASSUME DataOK, HandlersOK, Grown, NEW h \in Handlers, at[h] \in Sending, Rejected(h),
         NEW i, i = job[h], i.to # None => Handed(i.notice, i.to)'
  PROVE  Concludes(h)
<1>2. DOMAIN i = Fields /\ SendOK(at[h], i)
  BY HasJob
<1>3. CASE i.to = None
  <2>1. Rest(h)
    BY <1>3 DEF Rejected
  <2> QED
    BY <2>1, <1>3, RestsIdle DEF Concludes, Concluded
<1>4. CASE i.to # None
  <2>1. Onward(h, i)
    BY <1>4 DEF Rejected
  <2>2. HasTold(i)'
    BY <1>2, <1>4, HasToldKept DEF SendOK
  <2>3. SameRun(i, i) /\ SameNotice(i, i)
    BY DEF SameRun, SameNotice
  <2>4. AfterOK(i)'
    BY <1>2, <1>4, <2>2, <2>3, AfterMessage
  <2>5. PICK p, k : Go(h, p, k) /\ JobOK(p, k)' /\ p # "wait" /\ GoesOn(p, k, i)
    BY <2>1, <2>4, OnwardGoes
  <2> QED
    BY <2>5 DEF Concludes, Concluded
<1> QED
  BY <1>3, <1>4

-----------------------------------------------------------------------------
(* The steps of the delivery. *)

Safe == Grown /\ DataOK' /\ HandlersOK'

LEMMA NobodyWaits ==
  ASSUME DataOK, HandlersOK, Grown, DataOK', NEW h \in Handlers, Spares(h), Concludes(h)
  PROVE  Safe
<1>1. PICK p, k : Go(h, p, k) /\ JobOK(p, k)' /\ p # "wait"
  BY DEF Concludes
<1>2. WaitOK(p, k)'
  BY <1>1 DEF WaitOK
<1> QED
  BY <1>1, <1>2, HandlersMove DEF Safe, DataOK

LEMMA AllSpared ==
  ASSUME NEW h \in Handlers, UNCHANGED <<intents, posts>>
  PROVE  Spares(h)
  BY DEF Spares, InChannel

\* A handler that goes somewhere, and leaves the outbox and the channel.
LEMMA GoesSafely ==
  ASSUME DataOK, HandlersOK, Grown, DataOK', UNCHANGED <<intents, posts>>,
         NEW h \in Handlers, NEW p, NEW k, Go(h, p, k), JobOK(p, k)', p # "wait"
  PROVE  Safe
<1>1. WaitOK(p, k)'
  BY DEF WaitOK
<1>2. Spares(h)
  BY AllSpared
<1> QED
  BY <1>1, <1>2, HandlersMove DEF Safe, DataOK

LEMMA RestsSafely ==
  ASSUME DataOK, HandlersOK, Grown, DataOK', UNCHANGED <<intents, posts>>,
         NEW h \in Handlers, Rest(h)
  PROVE  Safe
  BY RestsIdle, GoesSafely

\* The intent of a handler about to send, or sending.
LEMMA IntentNamed ==
  ASSUME DataOK, NEW p \in Sending, NEW j, SendOK(p, j), DOMAIN j = Fields
  PROVE  /\ PayloadOK(PayloadOf(j)) /\ Named(IntentOf(j), PayloadOf(j))
         /\ j.to = None => IntentOf(j) = j.notice /\ PayloadOf(j) = j.payload
         /\ j.to # None => IntentOf(j) = Direct(j.notice, j.to) /\ IntentOf(j)[1] = "dm"
<1>1. PayloadOK(j.payload) /\ Named(j.notice, j.payload)
  BY DEF SendOK
<1>2. CASE j.to = None
  BY <1>1, <1>2 DEF IntentOf, PayloadOf
<1>3. CASE j.to # None
  <2>1. PICK c, d, n : c = j.payload /\ d = [c EXCEPT !.under = 0] /\ n = <<"dm", j.notice, j.to>>
    OBVIOUS
  <2>2. PayloadOf(j) = d /\ IntentOf(j) = n
    BY <1>3, <2>1 DEF PayloadOf, IntentOf, Direct
  <2>3. DOMAIN d = DOMAIN c /\ d.under = 0 /\ d.dms = c.dms
    BY <1>1, <2>1 DEF PayloadOK
  <2>4. PayloadOK(d)
    BY <1>1, <2>1, <2>3 DEF PayloadOK
  <2>5. n[1] = "dm" /\ n = <<n[1], n[2], n[3]>>
    BY <2>1
  <2>6. Named(n, d)
    BY <2>5 DEF Named, ItemTasks
  <2> QED
    BY <1>3, <2>1, <2>2, <2>4, <2>5, <2>6 DEF Direct
<1> QED
  BY <1>2, <1>3

LEMMA DeliverCreates ==
  ASSUME DataOK, HandlersOK, NEW h \in Handlers, Deliver(h), NEW i, i = job[h],
         IntentOf(i) \notin DOMAIN intents, UNCHANGED <<stamps, day>>
  PROVE  /\ Safe /\ Go(h, "wait", i)
         /\ UNCHANGED <<posts, lost>>
         /\ DOMAIN intents' = DOMAIN intents \cup {IntentOf(i)}
         /\ \A m \in DOMAIN intents : intents'[m] = intents[m]
<1> DEFINE n == IntentOf(i)
<1>1. at[h] = "deliver" /\ DOMAIN i = Fields /\ SendOK("deliver", i) /\ JobOK("deliver", i)
  BY HasJob DEF Deliver
<1>2. PICK c : c = PayloadOf(i)
  OBVIOUS
<1>3. PayloadOK(c) /\ Named(n, c)
  BY <1>1, <1>2, IntentNamed DEF Sending
<1>4. /\ intents' = [m \in DOMAIN intents \cup {n} |->
                       IF m = n THEN [status |-> "sending", payload |-> c, ts |-> 0]
                                ELSE intents[m]]
      /\ Goto(h, "wait") /\ UNCHANGED <<thread, posts, lost>>
  BY <1>2 DEF Deliver, Intent, IntentOf, Payload, PayloadOf
<1>5. /\ Grown /\ DataOK' /\ ~InChannel(n)
      /\ n \in DOMAIN intents' /\ intents'[n].status = "sending" /\ intents'[n].payload = c
  BY <1>3, <1>4, CallsFor
<1>6. /\ DOMAIN intents' = DOMAIN intents \cup {n}
      /\ \A m \in DOMAIN intents : intents'[m] = intents[m]
  BY <1>4
<1>7. Go(h, "wait", i)
  BY <1>4 DEF Goto
<1>8. JobOK("wait", i)'
  <2>1. JobOK("deliver", i)'
    BY <1>1, <1>5, JobKept DEF DataOK
  <2> QED
    BY <2>1 DEF JobOK, PlaceOK, SendOK, ItemJob, ReviewJob, Sending
<1>9. WaitOK("wait", i)'
  BY <1>2, <1>4, <1>5 DEF WaitOK, InChannel, IntentOf, PayloadOf
<1>10. \A g \in Handlers \ {h} : at[g] = "wait" => IntentOf(job[g]) # n
  BY DEF HandlersOK, WaitOK
<1>11. Spares(h)
  BY <1>4, <1>6 DEF Spares, InChannel
<1>12. HandlersOK'
  BY <1>5, <1>7, <1>8, <1>9, <1>10, <1>11, HandlersMove DEF DataOK
<1> QED
  BY <1>4, <1>5, <1>6, <1>7, <1>12 DEF Safe

LEMMA DeliverSeen ==
  ASSUME DataOK, HandlersOK, NEW h \in Handlers, Deliver(h), NEW i, i = job[h],
         IntentOf(i) \in DOMAIN intents, UNCHANGED <<stamps, day>>
  PROVE  Safe /\ Concludes(h) /\ UNCHANGED <<intents, posts, lost>>
<1> DEFINE n == IntentOf(i)
<1>1. at[h] = "deliver" /\ DOMAIN i = Fields /\ SendOK("deliver", i)
  BY HasJob DEF Deliver
<1>2. /\ IF intents[n].status = "sent" /\ intents[n].payload = PayloadOf(i)
         THEN Accepted(h, intents[n].ts) ELSE Rejected(h)
      /\ UNCHANGED <<intents, thread, posts, lost>>
  BY DEF Deliver, Intent, IntentOf, Payload, PayloadOf
<1>3. Grown /\ DataOK'
  BY <1>2, StandsStill DEF DataOK
<1>4. i.to # None => Handed(i.notice, i.to)'
  BY <1>2 DEF Handed, IntentOf, Direct
<1>5. Concludes(h)
  <2>1. CASE Rejected(h)
    BY <1>1, <1>3, <1>4, <2>1, RejectedConcludes DEF Sending
  <2>2. CASE Accepted(h, intents[n].ts) /\ intents[n].status = "sent"
             /\ intents[n].payload = PayloadOf(i)
    <3>1. PICK ts : ts = intents[n].ts
      OBVIOUS
    <3>2. ts \in DOMAIN posts' /\ posts'[ts].notice = n
      BY <1>2, <2>2, <3>1 DEF DataOK, IntentOK
    <3>3. i.to = None => n = i.notice /\ PayloadOf(i) = i.payload
      BY DEF IntentOf, PayloadOf
    <3>4. i.to = None => /\ ts \in DOMAIN posts' /\ posts'[ts].notice = i.notice
                         /\ i.notice \in DOMAIN intents' /\ intents'[i.notice].payload = i.payload
      BY <1>2, <2>2, <3>2, <3>3
    <3>5. \E p, k : Go(h, p, k) /\ JobOK(p, k)' /\ p # "wait" /\ GoesOn(p, k, i)
      BY <1>1, <1>3, <1>4, <2>2, <3>1, <3>4, AcceptedConcludes DEF Sending
    <3> QED
      BY <3>5 DEF Concludes, Concluded
  <2> QED
    BY <1>2, <2>1, <2>2
<1>6. Spares(h)
  BY <1>2, AllSpared
<1> QED
  BY <1>2, <1>3, <1>5, <1>6, NobodyWaits

\* A handler that waits for Slack is alone with its intent.
LEMMA SparesOthers ==
  ASSUME HandlersOK, NEW h \in Handlers, at[h] = "wait", NEW n, n = IntentOf(job[h]),
         \A m \in DOMAIN intents \ {n} :
           intents'[m] = intents[m] /\ (InChannel(m)' => InChannel(m))
  PROVE  Spares(h)
  BY DEF Spares, HandlersOK, WaitersDiffer

LEMMA WaiterHas ==
  ASSUME HandlersOK, NEW h \in Handlers, at[h] = "wait", NEW i, i = job[h]
  PROVE  /\ DOMAIN i = Fields /\ SendOK("wait", i) /\ at[h] \in Sending
         /\ Intent(h) = IntentOf(i) /\ IntentOf(i) \in DOMAIN intents
         /\ intents[IntentOf(i)].status = "sending"
         /\ intents[IntentOf(i)].payload = PayloadOf(i)
         /\ ~InChannel(IntentOf(i))
         /\ i.to = None => IntentOf(i) = i.notice /\ PayloadOf(i) = i.payload
         /\ i.to # None => IntentOf(i) = Direct(i.notice, i.to)
<1>1. /\ DOMAIN i = Fields /\ SendOK("wait", i) /\ WaitOK("wait", i)
  BY HasJob
<1> QED
  BY <1>1 DEF WaitOK, Intent, IntentOf, PayloadOf, Sending

LEMMA PostedSafe ==
  ASSUME DataOK, HandlersOK, NEW h \in Handlers, Posted(h), NEW i, i = job[h],
         UNCHANGED <<stamps, day>>
  PROVE  /\ Safe
         /\ \E p, k : Go(h, p, k) /\ p # "wait" /\ GoesOn(p, k, i)
         /\ DOMAIN posts' = DOMAIN posts \cup {Len(posts) + 1}
         /\ posts'[Len(posts) + 1] =
              [notice |-> IntentOf(i), under |-> intents[IntentOf(i)].payload.under, day |-> day]
         /\ IntentOf(i) \in DOMAIN intents
         /\ DOMAIN intents' = DOMAIN intents /\ intents'[IntentOf(i)].status = "sent"
         /\ \A m \in DOMAIN intents \ {IntentOf(i)} : intents'[m] = intents[m]
<1>1. PICK n : n = IntentOf(i)
  OBVIOUS
<1>2. at[h] = "wait"
  BY DEF Posted
<1>3. PICK ts : ts = Len(posts) + 1
  OBVIOUS
<1>4. /\ Post(n) /\ Settle(n, "sent", ts) /\ Accepted(h, ts) /\ UNCHANGED <<thread, lost>>
      /\ n \in DOMAIN intents /\ ~InChannel(n)
  BY <1>1, <1>2, <1>3, WaiterHas DEF Posted
<1>5. /\ posts' = Append(posts, [notice |-> n, under |-> intents[n].payload.under, day |-> day])
      /\ \E s \in {"stuck", "sent"} : Settle(n, s, IF s = "sent" THEN Len(posts) + 1 ELSE 0)
  BY <1>3, <1>4 DEF Post
<1>6. /\ Grown /\ DataOK'
      /\ DOMAIN posts' = DOMAIN posts \cup {ts}
      /\ posts'[ts] = [notice |-> n, under |-> intents[n].payload.under, day |-> day]
      /\ \A m \in DOMAIN intents \ {n} :
           intents'[m] = intents[m] /\ (InChannel(m)' => InChannel(m))
  BY <1>3, <1>4, <1>5, Posts
<1>7. Spares(h)
  BY <1>1, <1>2, <1>6, SparesOthers
<1>8. i.to # None => Handed(i.notice, i.to)'
  BY <1>1, <1>2, <1>4, <1>6, WaiterHas DEF Handed, Grown
<1>9. i.to = None => /\ ts \in DOMAIN posts' /\ posts'[ts].notice = i.notice
                     /\ i.notice \in DOMAIN intents' /\ intents'[i.notice].payload = i.payload
  <2>1. i.to = None => i.notice = n /\ intents[n].payload = i.payload
    BY <1>1, <1>2, WaiterHas
  <2>2. posts'[ts].notice = n
    BY <1>6
  <2> QED
    BY <1>4, <1>6, <2>1, <2>2 DEF Grown
<1>10. PICK p, k : Go(h, p, k) /\ JobOK(p, k)' /\ p # "wait" /\ GoesOn(p, k, i)
  BY <1>2, <1>4, <1>6, <1>8, <1>9, AcceptedConcludes DEF Sending
<1>11. Concludes(h)
  BY <1>10 DEF Concludes, Concluded
<1>12. /\ DOMAIN intents' = DOMAIN intents /\ intents'[n].status = "sent"
  <2>1. DOMAIN intents[n] = {"status", "payload", "ts"}
    BY <1>4 DEF DataOK, IntentOK
  <2> QED
    BY <1>4, <2>1 DEF Settle
<1> QED
  BY <1>1, <1>3, <1>4, <1>6, <1>7, <1>10, <1>11, <1>12, NobodyWaits

LEMMA UncertainSafe ==
  ASSUME DataOK, HandlersOK, NEW h \in Handlers, Uncertain(h), UNCHANGED <<stamps, day>>
  PROVE  Safe
<1>1. PICK i, n : i = job[h] /\ n = IntentOf(i)
  OBVIOUS
<1>2. at[h] = "wait"
  BY DEF Uncertain
<1>3. /\ Post(n) \/ UNCHANGED posts
      /\ Settle(n, "stuck", 0) /\ Rejected(h) /\ UNCHANGED <<thread, lost>>
      /\ n \in DOMAIN intents /\ ~InChannel(n)
  BY <1>1, <1>2, WaiterHas DEF Uncertain
<1>4. /\ Grown /\ DataOK'
      /\ \A m \in DOMAIN intents \ {n} :
           intents'[m] = intents[m] /\ (InChannel(m)' => InChannel(m))
  <2>1. CASE Post(n)
    <3>1. \E s \in {"stuck", "sent"} : Settle(n, s, IF s = "sent" THEN Len(posts) + 1 ELSE 0)
      BY <1>3
    <3>2. posts' = Append(posts, [notice |-> n, under |-> intents[n].payload.under, day |-> day])
      BY <2>1 DEF Post
    <3> QED
      BY <1>3, <3>1, <3>2, Posts
  <2>2. CASE UNCHANGED posts
    <3>1. 0 \in 0..Len(posts)
      BY PostsAre DEF DataOK
    <3>2. /\ Grown /\ DataOK' /\ \A m \in DOMAIN intents \ {n} : intents'[m] = intents[m]
      BY <1>3, <2>2, <3>1, Settles
    <3> QED
      BY <2>2, <3>2 DEF InChannel
  <2> QED
    BY <1>3, <2>1, <2>2
<1>5. Spares(h)
  BY <1>1, <1>2, <1>4, SparesOthers
<1>6. i.to # None => Handed(i.notice, i.to)'
  BY <1>1, <1>2, <1>3, <1>4, WaiterHas DEF Handed, Grown
<1>7. Concludes(h)
  BY <1>1, <1>2, <1>3, <1>4, <1>6, RejectedConcludes DEF Sending
<1> QED
  BY <1>4, <1>5, <1>7, NobodyWaits

LEMMA FailsSafe ==
  ASSUME DataOK, HandlersOK, NEW h \in Handlers, Fails(h), UNCHANGED <<stamps, day>>
  PROVE  Safe
<1>1. PICK i : i = job[h]
  OBVIOUS
<1>2. UNCHANGED <<thread, intents, posts>> /\ lost \subseteq lost'
  BY DEF Fails
<1>3. Grown /\ DataOK'
  BY <1>2, StandsStill DEF DataOK
<1>4. Spares(h)
  BY <1>2, AllSpared
<1>5. CASE i.to # None /\ at[h] = "deliver"
  <2>1. Rejected(h) /\ lost' = lost \cup {Direct(i.notice, i.to)}
    BY <1>1, <1>5 DEF Fails, Intent
  <2>2. Handed(i.notice, i.to)'
    BY <2>1 DEF Handed, Direct
  <2>3. Concludes(h)
    BY <1>1, <1>3, <1>5, <2>1, <2>2, RejectedConcludes DEF Sending
  <2> QED
    BY <1>3, <1>4, <2>3, NobodyWaits
<1>6. CASE ~(i.to # None /\ at[h] = "deliver")
  <2>1. Rest(h)
    BY <1>1, <1>6 DEF Fails
  <2> QED
    BY <1>2, <1>3, <2>1, RestsSafely
<1> QED
  BY <1>5, <1>6

LEMMA DieSafe ==
  ASSUME DataOK, HandlersOK, NEW h \in Handlers, Die(h), UNCHANGED <<stamps, day>>
  PROVE  Safe
<1>1. PICK i, n : i = job[h] /\ n = IntentOf(i)
  OBVIOUS
<1>2. Rest(h) /\ UNCHANGED <<thread, intents, lost>>
  BY DEF Die
<1>3. CASE UNCHANGED posts
  <2>1. Grown /\ DataOK'
    BY <1>2, <1>3, StandsStill DEF DataOK
  <2> QED
    BY <1>2, <1>3, <2>1, RestsSafely
<1>4. CASE at[h] = "wait" /\ Post(Intent(h))
  <2>1. Post(n) /\ n \in DOMAIN intents /\ ~InChannel(n)
    BY <1>1, <1>4, WaiterHas
  <2>2. posts' = Append(posts, [notice |-> n, under |-> intents[n].payload.under, day |-> day])
    BY <2>1 DEF Post
  <2>3. /\ Grown /\ DataOK'
        /\ \A m \in DOMAIN intents \ {n} :
             intents'[m] = intents[m] /\ (InChannel(m)' => InChannel(m))
    BY <1>2, <2>1, <2>2, Posts
  <2>4. Spares(h)
    BY <1>1, <1>4, <2>3, SparesOthers
  <2>5. Go(h, "idle", NoJob) /\ JobOK("idle", NoJob)'
    BY <1>2, <2>3, RestsIdle
  <2>6. WaitOK("idle", NoJob)'
    BY DEF WaitOK
  <2> QED
    BY <2>3, <2>4, <2>5, <2>6, HandlersMove DEF Safe, DataOK
<1> QED
  BY <1>3, <1>4 DEF Die

LEMMA HandlersStay ==
  ASSUME DataOK, HandlersOK, Grown, UNCHANGED <<at, job>>,
         \A n \in DOMAIN intents : (\E g \in Handlers : at[g] = "wait" /\ IntentOf(job[g]) = n) =>
           intents'[n] = intents[n] /\ (InChannel(n)' => InChannel(n))
  PROVE  HandlersOK'
<1>1. ASSUME NEW g \in Handlers
      PROVE  (JobOK(at[g], job[g]) /\ WaitOK(at[g], job[g]))'
  <2>1. PICK q, k : q = at[g] /\ k = job[g]
    OBVIOUS
  <2>2. JobOK(q, k) /\ WaitOK(q, k)
    BY <2>1 DEF HandlersOK
  <2>3. JobOK(q, k)'
    BY <2>2, JobKept DEF DataOK
  <2>4. q = "wait" => /\ intents'[IntentOf(k)] = intents[IntentOf(k)]
                      /\ InChannel(IntentOf(k))' => InChannel(IntentOf(k))
    BY <2>1, <2>2 DEF WaitOK
  <2>5. q = "wait" => IntentOf(k) \in DOMAIN intents'
    BY <2>2 DEF WaitOK, Grown
  <2>6. WaitOK(q, k)'
    BY <2>2, <2>4, <2>5 DEF WaitOK, IntentOf, PayloadOf
  <2> QED
    BY <2>1, <2>3, <2>6
<1>2. WaitersDiffer'
  BY DEF HandlersOK, WaitersDiffer, IntentOf, Direct
<1> QED
  BY <1>1, <1>2 DEF HandlersOK

LEMMA ReplaySafe ==
  ASSUME DataOK, HandlersOK, NEW n \in DOMAIN intents, Replay(n), UNCHANGED <<stamps, day>>
  PROVE  Safe
<1>1. UNCHANGED <<thread, lost, at, job>>
  BY DEF Replay
<1>2. /\ Grown /\ DataOK'
      /\ \A m \in DOMAIN intents \ {n} :
           intents'[m] = intents[m] /\ (InChannel(m)' => InChannel(m))
  <2>1. CASE \E ts \in DOMAIN posts :
               posts[ts].notice = n /\ Settle(n, "sent", ts) /\ UNCHANGED posts
    <3>1. PICK ts \in DOMAIN posts :
                 posts[ts].notice = n /\ Settle(n, "sent", ts) /\ UNCHANGED posts
      BY <2>1
    <3>2. ts \in 0..Len(posts)
      BY PostsAre DEF DataOK
    <3>3. /\ Grown /\ DataOK' /\ \A m \in DOMAIN intents \ {n} : intents'[m] = intents[m]
      BY <1>1, <3>1, <3>2, Settles
    <3> QED
      BY <3>1, <3>3 DEF InChannel
  <2>2. CASE /\ \A ts \in DOMAIN posts : posts[ts].notice # n
             /\ Post(n)
             /\ Settle(n, "sent", Len(posts) + 1)
    <3>1. ~InChannel(n)
      BY <2>2 DEF InChannel
    <3>2. \E s \in {"stuck", "sent"} : Settle(n, s, IF s = "sent" THEN Len(posts) + 1 ELSE 0)
      BY <2>2
    <3>3. posts' = Append(posts, [notice |-> n, under |-> intents[n].payload.under, day |-> day])
      BY <2>2 DEF Post
    <3> QED
      BY <1>1, <3>1, <3>2, <3>3, Posts
  <2> QED
    BY <2>1, <2>2 DEF Replay
<1>3. \A h \in Handlers : ~(at[h] = "wait" /\ IntentOf(job[h]) = n)
  BY DEF Replay, Intent, IntentOf
<1>4. HandlersOK'
  BY <1>1, <1>2, <1>3, HandlersStay
<1> QED
  BY <1>2, <1>4 DEF Safe

LEMMA LeaseEndsSafe ==
  ASSUME DataOK, HandlersOK, LeaseEnds, UNCHANGED <<stamps, day>>
  PROVE  Safe
<1>1. /\ thread' = [thread EXCEPT !.live = FALSE]
      /\ UNCHANGED <<intents, posts, lost, at, job>>
  BY DEF LeaseEnds
<1>2. thread.status = "creating"
  BY DEF LeaseEnds, DataOK, ThreadOK
<1>3. ThreadOK'
  <2>1. thread'.status = thread.status /\ thread'.root = thread.root /\ thread'.owner = thread.owner
        /\ thread' \in [status : {"none", "creating", "ready"}, root : Nat,
                        owner : Handlers \cup {None}, live : BOOLEAN]
    BY <1>1 DEF DataOK, ThreadOK
  <2> QED
    BY <1>1, <1>2, <2>1 DEF DataOK, ThreadOK
<1>4. Grown /\ DataOK'
  BY <1>1, <1>2, <1>3, ThreadMoves
<1>5. HandlersOK'
  BY <1>1, <1>4, HandlersStay DEF InChannel
<1> QED
  BY <1>4, <1>5 DEF Safe

LEMMA ReadyThread ==
  ASSUME DataOK, NEW r \in DOMAIN posts, posts[r].under = 0, thread' = Ready(r),
         UNCHANGED <<intents, posts, lost, stamps, day>>, thread.status # "ready"
  PROVE  Grown /\ DataOK' /\ thread'.status = "ready"
<1>1. r \in Nat /\ r # 0
  BY PostsAre DEF DataOK
<1>2. /\ thread'.status = "ready" /\ thread'.root = r /\ thread'.owner = None
      /\ thread'.live = FALSE
      /\ thread' \in [status : {"none", "creating", "ready"}, root : Nat,
                      owner : Handlers \cup {None}, live : BOOLEAN]
  BY <1>1 DEF Ready
<1>3. ThreadOK'
  BY <1>1, <1>2 DEF ThreadOK
<1> QED
  BY <1>2, <1>3, ThreadMoves

\* Where a handler has told of something outside of a thread, its message can
\* be the root.
LEMMA ToldAside ==
  ASSUME DataOK, HandlersOK, NEW h \in Handlers, at[h] \in {"save root", "publish"}
  PROVE  job[h].ts \in DOMAIN posts /\ posts[job[h].ts].under = 0
<1>1. PICK i : i = job[h]
  OBVIOUS
<1>2. HasHanded(i) /\ i.payload.under = 0
  BY <1>1, HasJob DEF SendOK, PlaceOK, ItemJob, ReviewJob, ItemTasks, ReviewTasks, Sending
<1>3. /\ i.ts \in DOMAIN posts /\ posts[i.ts].notice = i.notice
      /\ intents[i.notice].payload = i.payload
  BY <1>2 DEF HasHanded, HasTold
<1>4. posts[i.ts].under = intents[posts[i.ts].notice].payload.under
  BY <1>3 DEF DataOK, PostsOK
<1> QED
  BY <1>1, <1>2, <1>3, <1>4

LEMMA SaveRootSafe ==
  ASSUME DataOK, HandlersOK, NEW h \in Handlers, SaveRoot(h), UNCHANGED <<stamps, day>>
  PROVE  /\ Safe /\ UNCHANGED <<intents, posts, lost>>
         /\ Goto(h, "overview") \/ Rest(h)
<1>1. PICK i : i = job[h]
  OBVIOUS
<1>2. at[h] = "save root" /\ UNCHANGED <<intents, posts, lost>>
  BY DEF SaveRoot
<1>3. /\ JobOK("save root", i) /\ i.task \in ReviewTasks
      /\ i.ts \in DOMAIN posts /\ posts[i.ts].under = 0
  BY <1>1, <1>2, HasJob, ToldAside DEF PlaceOK, Sending
<1>4. CASE thread.owner = h
  <2>1. thread' = Ready(i.ts) /\ Goto(h, "overview")
    BY <1>1, <1>4 DEF SaveRoot
  <2>2. thread.status # "ready"
    BY <1>4, NoticesAssumption DEF DataOK, ThreadOK
  <2>3. Grown /\ DataOK' /\ thread'.status = "ready"
    BY <1>2, <1>3, <2>1, <2>2, ReadyThread
  <2>4. JobOK("overview", i)'
    <3>1. JobOK("save root", i)'
      BY <1>3, <2>3, JobKept DEF DataOK
    <3> QED
      BY <1>3, <2>3, <3>1 DEF JobOK, PlaceOK, SendOK, ReviewJob, Sending, ItemTasks, ReviewTasks
  <2> QED
    BY <1>1, <1>2, <2>1, <2>3, <2>4, GoesSafely DEF Goto
<1>5. CASE thread.owner # h
  <2>1. /\ IF thread.status = "ready" THEN Goto(h, "overview") ELSE Rest(h)
        /\ UNCHANGED thread
    BY <1>5 DEF SaveRoot
  <2>2. Grown /\ DataOK'
    <3>1. UNCHANGED <<thread, intents, posts>> /\ lost \subseteq lost'
      BY <1>2, <2>1
    <3>2. stamps' \in Nat /\ stamps <= stamps' /\ day' \in Nat /\ day <= day'
      BY DEF DataOK
    <3> QED
      BY <3>1, <3>2, StandsStill
  <2>3. CASE Rest(h)
    BY <1>2, <2>2, <2>3, RestsSafely
  <2>4. CASE thread.status = "ready" /\ Goto(h, "overview")
    <3>1. JobOK("save root", i)'
      BY <1>3, <2>2, JobKept DEF DataOK
    <3>2. JobOK("overview", i)'
      BY <1>3, <2>1, <2>4, <3>1 DEF JobOK, PlaceOK, SendOK, ReviewJob, Sending, ItemTasks, ReviewTasks
    <3> QED
      BY <1>1, <1>2, <2>2, <2>4, <3>2, GoesSafely DEF Goto
  <2> QED
    BY <2>1, <2>3, <2>4
<1> QED
  BY <1>4, <1>5

LEMMA SaveThreadSafe ==
  ASSUME DataOK, HandlersOK, NEW h \in Handlers, SaveThread(h), UNCHANGED <<stamps, day>>
  PROVE  Safe
<1>1. PICK i : i = job[h]
  OBVIOUS
<1>2. /\ at[h] = "publish" /\ UNCHANGED <<intents, posts, lost>> /\ Go(h, "remember", i)
  BY <1>1 DEF SaveThread, Goto
<1>3. /\ JobOK("publish", i) /\ i.task \in ItemTasks
      /\ i.ts \in DOMAIN posts /\ posts[i.ts].under = 0
  BY <1>1, <1>2, HasJob, ToldAside DEF PlaceOK, Sending
<1>4. Grown /\ DataOK'
  <2>1. CASE thread.status = "none"
    <3>1. thread' = Ready(i.ts)
      BY <1>1, <2>1 DEF SaveThread
    <3> QED
      BY <1>2, <1>3, <2>1, <3>1, ReadyThread
  <2>2. CASE thread.status # "none"
    <3>1. UNCHANGED thread
      BY <2>2 DEF SaveThread
    <3> QED
      BY <1>2, <3>1, StandsStill DEF DataOK
  <2> QED
    BY <2>1, <2>2
<1>5. JobOK("remember", i)'
  <2>1. JobOK("publish", i)'
    BY <1>3, <1>4, JobKept DEF DataOK
  <2> QED
    BY <1>3, <2>1 DEF JobOK, PlaceOK, SendOK, ItemJob, Sending, ItemTasks, ReviewTasks
<1> QED
  BY <1>2, <1>4, <1>5, GoesSafely

LEMMA EnsureSafe ==
  ASSUME DataOK, HandlersOK, NEW h \in Handlers, HasRoot(h) \/ RootInProgress(h),
         UNCHANGED <<stamps, day>>
  PROVE  Safe
<1>1. PICK i : i = job[h]
  OBVIOUS
<1>2. at[h] = "ensure" /\ UNCHANGED <<thread, intents, posts, lost>>
  BY DEF HasRoot, RootInProgress
<1>3. Grown /\ DataOK'
  BY <1>2, StandsStill DEF DataOK
<1>4. CASE RootInProgress(h)
  BY <1>2, <1>3, <1>4, RestsSafely DEF RootInProgress
<1>5. CASE HasRoot(h)
  <2>1. JobOK("ensure", i) /\ i.task \in ReviewTasks
    BY <1>1, <1>2, HasJob DEF PlaceOK, Sending
  <2>2. JobOK("ensure", i)'
    BY <1>3, <2>1, JobKept DEF DataOK
  <2>3. Go(h, "overview", i) /\ thread'.status = "ready"
    BY <1>1, <1>2, <1>5 DEF HasRoot, Goto
  <2>4. JobOK("overview", i)'
    BY <2>1, <2>2, <2>3 DEF JobOK, PlaceOK, SendOK, ReviewJob, Sending, ItemTasks, ReviewTasks
  <2> QED
    BY <1>2, <1>3, <2>3, <2>4, GoesSafely
<1> QED
  BY <1>4, <1>5

LEMMA ClaimRootSafe ==
  ASSUME DataOK, HandlersOK, NEW h \in Handlers, ClaimRoot(h), UNCHANGED <<stamps, day>>
  PROVE  Safe
<1>1. PICK i : i = job[h]
  OBVIOUS
<1>2. /\ at[h] = "ensure" /\ UNCHANGED <<intents, posts, lost>> /\ thread.status # "ready"
      /\ thread' = [status |-> "creating", root |-> 0, owner |-> h, live |-> TRUE]
      /\ Send(h, RootNotice, "root", 0, {}, "save root")
  BY DEF ClaimRoot
<1>3. JobOK("ensure", i) /\ i.task \in ReviewTasks /\ DOMAIN i = Fields
  BY <1>1, <1>2, HasJob DEF PlaceOK, Sending
<1>4. ThreadOK'
  BY <1>2 DEF ThreadOK
<1>5. Grown /\ DataOK'
  BY <1>2, <1>4, ThreadMoves
<1>6. PICK j, c : /\ Go(h, "deliver", j) /\ DOMAIN j = Fields
                  /\ j.notice = RootNotice /\ j.payload = c /\ j.dms = {}
                  /\ j.then = "save root" /\ j.to = i.to
                  /\ SameRun(j, i)
                  /\ DOMAIN c = {"what", "under", "dms"}
                  /\ c.under = 0 /\ c.dms = {}
  <2>1. PICK n, w, u, d, p : /\ n = RootNotice /\ w = "root" /\ u = 0 /\ d = {}
                             /\ p = "save root"
    OBVIOUS
  <2>2. Send(h, n, w, u, d, p)
    BY <1>2, <2>1
  <2>3. DOMAIN i = Fields /\ i = job[h]
    BY <1>1, <1>3
  <2>4. \E j, c : /\ Go(h, "deliver", j) /\ DOMAIN j = Fields
                  /\ j.notice = n /\ j.payload = c /\ j.dms = d /\ j.then = p /\ j.to = i.to
                  /\ SameRun(j, i)
                  /\ DOMAIN c = {"what", "under", "dms"}
                  /\ c.what = w /\ c.under = u /\ c.dms = d
    BY <2>2, <2>3, SendFields
  <2>5. PICK j, c : /\ Go(h, "deliver", j) /\ DOMAIN j = Fields
                    /\ j.notice = n /\ j.payload = c /\ j.dms = d /\ j.then = p /\ j.to = i.to
                    /\ SameRun(j, i)
                    /\ DOMAIN c = {"what", "under", "dms"}
                    /\ c.what = w /\ c.under = u /\ c.dms = d
    BY <2>4
  <2> QED
    BY <2>1, <2>5
<1>7. JobOK("ensure", i)'
  BY <1>3, <1>5, JobKept DEF DataOK
<1>11. RootNotice[1] = "root"
  BY DEF RootNotice
<1>12. PayloadOK(c)'
  <2>1. DOMAIN c = {"what", "under", "dms"} /\ c.under = 0 /\ c.dms = {}
    BY <1>6
  <2> QED
    BY <2>1 DEF PayloadOK
<1>13. Named(RootNotice, c)'
  BY <1>6, <1>11 DEF Named, ItemTasks
<1>8. PayloadOK(c)' /\ Named(RootNotice, c)'
  BY <1>12, <1>13
<1>9. SendOK("deliver", j)'
  <2>1. i.to = None
    BY <1>3 DEF JobOK, SendOK, Sending
  <2> QED
    BY <1>6, <1>8, <1>11, <2>1 DEF SendOK, Sending
<1>10. JobOK("deliver", j)'
  BY <1>3, <1>6, <1>7, <1>9
     DEF JobOK, PlaceOK, ReviewJob, SameRun, Sending, ItemTasks, ReviewTasks
<1> QED
  BY <1>2, <1>5, <1>6, <1>10, GoesSafely

-----------------------------------------------------------------------------
(* The steps of a run through the items. *)

LEMMA SendsSafely ==
  ASSUME DataOK, HandlersOK, Grown, DataOK', UNCHANGED <<intents, posts>>,
         NEW h \in Handlers, NEW i, DOMAIN i = Fields, i = job[h], i.to = None,
         i.task \in ItemTasks \cup ReviewTasks \cup {"none"},
         NEW n, NEW w, NEW u, NEW d, NEW s, Send(h, n, w, u, d, s),
         d \subseteq Users, u \in Nat, u # 0 => u = thread'.root, n[1] # "dm",
         \A c : c.under = u => Named(n, c)',
         \A j : SameRun(j, i) /\ j.notice = n /\ j.then = s /\ j.payload.what = w
                /\ j.payload.under = u =>
                  /\ PlaceOK("deliver", j)
                  /\ j.task \in ItemTasks => ItemJob("deliver", j)'
                  /\ j.task \in ReviewTasks => ReviewJob("deliver", j)'
                  /\ j.task = "none" => j.notice[1] = "digest"
  PROVE  Safe /\ \E j : /\ Go(h, "deliver", j) /\ SameRun(j, i) /\ j.to = None
                        /\ j.notice = n /\ j.then = s
<1>1. PICK j, c : /\ Go(h, "deliver", j) /\ DOMAIN j = Fields
                  /\ j.notice = n /\ j.payload = c /\ j.dms = d /\ j.then = s /\ j.to = i.to
                  /\ SameRun(j, i)
                  /\ DOMAIN c = {"what", "under", "dms"}
                  /\ c.what = w /\ c.under = u /\ c.dms = d
  BY SendFields
<1>2. PayloadOK(c)' /\ Named(n, c)'
  BY <1>1 DEF PayloadOK
<1>3. SendOK("deliver", j)'
  BY <1>1, <1>2 DEF SendOK, Sending
<1>4. /\ PlaceOK("deliver", j)
      /\ j.task \in ItemTasks => ItemJob("deliver", j)'
      /\ j.task \in ReviewTasks => ReviewJob("deliver", j)'
      /\ j.task = "none" => j.notice[1] = "digest"
  BY <1>1
<1>5. JobOK("deliver", j)'
  BY <1>1, <1>3, <1>4 DEF JobOK, SameRun, PlaceOK, Sending
<1>6. Safe
  BY <1>1, <1>5, GoesSafely
<1> QED
  BY <1>1, <1>6

LEMMA WantedIs ==
  ASSUME NEW j, j.task \in ItemTasks, NEW i, NEW n, n = Wanted(j, i), n # None
  PROVE  /\ n[1] = j.task /\ n[2] = i
         /\ n[1] = "state" => n = <<n[1], n[2], n[3]>>
<1>1. CASE j.task = "state"
  <2>1. n = <<"state", i, Fingerprint(j.seen[i])>>
    BY <1>1 DEF Wanted, StateNotice
  <2> QED
    BY <1>1, <2>1
<1>2. CASE j.task = "deadline"
  <2>1. n = <<"deadline", i, j.seen[i].target, Stage(j.seen[i], j.day)>>
    BY <1>2 DEF Wanted, DeadlineNotice
  <2> QED
    BY <1>2, <2>1
<1> QED
  BY <1>1, <1>2 DEF ItemTasks

LEMMA AtItem ==
  ASSUME HandlersOK, NEW h \in Handlers, at[h] \in {"item", "thread", "remember"},
         NEW j, j = job[h]
  PROVE  /\ j.task \in ItemTasks /\ JobOK(at[h], j) /\ DOMAIN j = Fields /\ j.to = None
         /\ j.rest \in Seq(Items) /\ j.rest # <<>> /\ Head(j.rest) \in Items
         /\ at[h] # "item" => Wanted(j, Head(j.rest)) # None
         /\ at[h] = "remember" => j.notice = Wanted(j, Head(j.rest)) /\ HasHanded(j)
<1>1. JobOK(at[h], j) /\ DOMAIN j = Fields
  BY HasJob
<1>2. j.task \in ItemTasks
  BY <1>1 DEF JobOK, PlaceOK, Sending
<1>3. /\ j.rest \in Seq(Items) /\ j.rest # <<>>
      /\ at[h] # "item" => Wanted(j, Head(j.rest)) # None
      /\ at[h] = "remember" => j.notice = Wanted(j, Head(j.rest))
  BY <1>1, <1>2 DEF JobOK, ItemJob
<1>4. j.to = None /\ (at[h] = "remember" => HasHanded(j))
  BY <1>1 DEF JobOK, SendOK, Sending
<1> QED
  BY <1>1, <1>2, <1>3, <1>4, HeadTailProperties

LEMMA AdvanceSafe ==
  ASSUME DataOK, HandlersOK, Grown, DataOK', UNCHANGED <<intents, posts>>, NEW h \in Handlers,
         at[h] \in {"item", "thread", "remember"}, Advance(h)
  PROVE  Safe /\ \E p, k : Go(h, p, k) /\ k.task \notin ReviewTasks
<1>1. PICK j : j = job[h]
  OBVIOUS
<1>2. /\ j.task \in ItemTasks /\ DOMAIN j = Fields /\ j.to = None
      /\ j.rest \in Seq(Items) /\ j.rest # <<>>
  BY <1>1, AtItem
<1>3. CASE Tail(j.rest) = <<>>
  <2>1. Rest(h)
    BY <1>1, <1>3 DEF Advance
  <2>2. Go(h, "idle", NoJob)
    BY <2>1 DEF Rest
  <2> QED
    BY <2>1, <2>2, RestsSafely, NoJobFields DEF ReviewTasks
<1>4. CASE Tail(j.rest) # <<>>
  <2>1. PICK r, k : r = Tail(j.rest)
                    /\ k = [j EXCEPT !.rest = r, !.notice = None, !.payload = None,
                                     !.then = "idle", !.ts = 0]
    OBVIOUS
  <2>2. Go(h, "item", k)
    BY <1>1, <1>2, <1>4, <2>1 DEF Advance, Fields
  <2>3. DOMAIN k = Fields /\ k.rest = r /\ k.task = j.task /\ k.to = None
    BY <1>2, <2>1, JobFields
  <2>4. r \in Seq(Items) /\ r # <<>>
    BY <1>2, <1>4, <2>1, HeadTailProperties
  <2>5. JobOK("item", k)'
    BY <1>2, <2>3, <2>4
       DEF JobOK, PlaceOK, SendOK, ItemJob, Sending, ItemTasks, ReviewTasks
  <2>6. k.task \notin ReviewTasks
    BY <1>2, <2>3 DEF ItemTasks, ReviewTasks
  <2> QED
    BY <2>2, <2>5, <2>6, GoesSafely
<1> QED
  BY <1>3, <1>4

LEMMA BeginSafe ==
  ASSUME DataOK, HandlersOK, NEW h \in Handlers, NEW t \in ItemTasks, NEW a, Begin(h, t, a),
         UNCHANGED <<stamps, day>>
  PROVE  /\ Safe /\ UNCHANGED <<intents, posts>>
         /\ \E p, k : Go(h, p, k) /\ k.task \notin ReviewTasks
<1>1. PICK k : k = [NoJob EXCEPT !.task = t, !.rest = Order, !.seen = item, !.actor = a,
                                 !.day = day, !.since = Len(posts)]
  OBVIOUS
<1>2. Go(h, "item", k) /\ UNCHANGED <<thread, intents, posts, lost>>
  BY <1>1 DEF Begin
<1>3. DOMAIN k = Fields /\ k.task = t /\ k.rest = Order /\ k.to = None
  BY <1>1 DEF NoJob, Fields
<1>4. Order \in Seq(Items) /\ Order # <<>>
  BY NoticesAssumption
<1>5. Grown /\ DataOK'
  BY <1>2, StandsStill DEF DataOK
<1>6. JobOK("item", k)'
  BY <1>3, <1>4 DEF JobOK, PlaceOK, SendOK, ItemJob, Sending, ItemTasks, ReviewTasks
<1>7. k.task \notin ReviewTasks
  BY <1>3 DEF ItemTasks, ReviewTasks
<1> QED
  BY <1>2, <1>5, <1>6, <1>7, GoesSafely

LEMMA ConsiderSafe ==
  ASSUME DataOK, HandlersOK, NEW h \in Handlers, Consider(h), UNCHANGED <<stamps, day>>
  PROVE  /\ Safe /\ UNCHANGED <<intents, posts>>
         /\ \E p, k : Go(h, p, k) /\ k.task \notin ReviewTasks
<1>1. PICK j : j = job[h]
  OBVIOUS
<1>2. at[h] = "item" /\ UNCHANGED <<thread, intents, posts, lost>>
  BY DEF Consider
<1>3. Grown /\ DataOK'
  BY <1>2, StandsStill DEF DataOK
<1>4. CASE Advance(h)
  BY <1>2, <1>3, <1>4, AdvanceSafe
<1>5. CASE Wanted(j, Head(j.rest)) # None /\ Goto(h, "thread")
  <2>1. Go(h, "thread", j)
    BY <1>1, <1>5 DEF Goto
  <2>2. JobOK("item", j) /\ j.task \in ItemTasks
    BY <1>1, <1>2, AtItem
  <2>3. JobOK("item", j)'
    BY <1>3, <2>2, JobKept DEF DataOK
  <2>4. JobOK("thread", j)'
    BY <1>5, <2>2, <2>3
       DEF JobOK, PlaceOK, SendOK, ItemJob, Sending, ItemTasks, ReviewTasks, Wanted,
           StateNotice, DeadlineNotice, Stage, Immediate, Fingerprint
  <2>5. j.task \notin ReviewTasks
    BY <2>2 DEF ItemTasks, ReviewTasks
  <2> QED
    BY <1>2, <1>3, <2>1, <2>4, <2>5, GoesSafely
<1>6. Advance(h) \/ (Wanted(j, Head(j.rest)) # None /\ Goto(h, "thread"))
  BY <1>1 DEF Consider
<1> QED
  BY <1>2, <1>4, <1>5, <1>6

LEMMA ReadThreadSafe ==
  ASSUME DataOK, HandlersOK, NEW h \in Handlers, ReadThread(h), UNCHANGED <<stamps, day>>
  PROVE  /\ Safe /\ UNCHANGED <<intents, posts>>
         /\ \E p, k : Go(h, p, k) /\ k.task \notin ReviewTasks
<1>1. PICK j : j = job[h]
  OBVIOUS
<1>2. at[h] = "thread" /\ UNCHANGED <<thread, intents, posts, lost>>
  BY DEF ReadThread
<1>3. Grown /\ DataOK'
  BY <1>2, StandsStill DEF DataOK
<1>4. PICK i, n : i = Head(j.rest) /\ n = Wanted(j, i)
  OBVIOUS
<1>5. /\ j.task \in ItemTasks /\ DOMAIN j = Fields /\ j.to = None /\ n # None
      /\ j.rest \in Seq(Items) /\ j.rest # <<>>
  BY <1>1, <1>2, <1>4, AtItem
<1>6. CASE Advance(h)
  BY <1>2, <1>3, <1>6, AdvanceSafe
<1>7. CASE Rest(h)
  <2>1. Go(h, "idle", NoJob)
    BY <1>7 DEF Rest
  <2> QED
    BY <1>2, <1>3, <1>7, <2>1, RestsSafely, NoJobFields DEF ReviewTasks
<1>8. CASE /\ thread.status # "creating" /\ ~(RootOf[i] # i /\ thread.status = "none")
           /\ Send(h, n, Said(j, i), thread.root, Told(j, i, n),
                   IF thread.status = "none" THEN "publish" ELSE "remember")
  <2>1. PICK w, u, d, s : /\ w = Said(j, i) /\ u = thread.root /\ d = Told(j, i, n)
                          /\ s = IF thread.status = "none" THEN "publish" ELSE "remember"
    OBVIOUS
  <2>2. /\ u \in Nat /\ (u # 0 => u = thread'.root)
        /\ (s = "publish" => u = 0) /\ (RootOf[i] # i => u # 0)
        /\ s \in {"publish", "remember"}
    BY <1>2, <1>8, <2>1 DEF DataOK, ThreadOK
  <2>3. d \subseteq Users
    BY <2>1, NoticesAssumption DEF Told, Recipients
  <2>4. n[1] = j.task /\ n[2] = i /\ (n[1] = "state" => n = <<n[1], n[2], n[3]>>)
    BY <1>4, <1>5, WantedIs
  <2>5. \A c : c.under = u => Named(n, c)'
    BY <1>5, <2>2, <2>4 DEF Named, ItemTasks
  <2>6. \A k : SameRun(k, j) /\ k.notice = n /\ k.then = s /\ k.payload.what = w
               /\ k.payload.under = u =>
                  /\ PlaceOK("deliver", k)
                  /\ k.task \in ItemTasks => ItemJob("deliver", k)'
                  /\ k.task \in ReviewTasks => ReviewJob("deliver", k)'
                  /\ k.task = "none" => k.notice[1] = "digest"
    <3> SUFFICES ASSUME NEW k, SameRun(k, j), k.notice = n, k.then = s, k.payload.under = u
                 PROVE  /\ PlaceOK("deliver", k)
                        /\ k.task \in ItemTasks => ItemJob("deliver", k)'
                        /\ k.task \in ReviewTasks => ReviewJob("deliver", k)'
                        /\ k.task = "none" => k.notice[1] = "digest"
      OBVIOUS
    <3>1. k.task \in ItemTasks /\ k.task \notin ReviewTasks /\ k.task # "none"
      BY <1>5 DEF SameRun, ItemTasks, ReviewTasks
    <3>2. Wanted(k, Head(k.rest)) = n
      BY <1>4 DEF SameRun, Wanted
    <3>3. ItemJob("deliver", k)'
      BY <1>5, <2>2, <3>2
         DEF ItemJob, SameRun, Sending, Wanted, StateNotice, DeadlineNotice, Stage,
             Immediate, Fingerprint
    <3> QED
      BY <2>2, <3>1, <3>3 DEF PlaceOK, Sending
  <2>7. Send(h, n, w, u, d, s)
    BY <1>8, <2>1
  <2>8. n[1] # "dm" /\ j.task \in ItemTasks \cup ReviewTasks \cup {"none"}
    BY <1>5, <2>4 DEF ItemTasks
  <2>9. Safe /\ \E k : Go(h, "deliver", k) /\ SameRun(k, j)
    BY <1>1, <1>2, <1>3, <1>5, <2>2, <2>3, <2>5, <2>6, <2>7, <2>8, SendsSafely
  <2>10. \A k : SameRun(k, j) => k.task \notin ReviewTasks
    BY <1>5 DEF SameRun, ItemTasks, ReviewTasks
  <2> QED
    BY <1>2, <2>9, <2>10
<1>9. \/ Advance(h) \/ Rest(h)
      \/ /\ thread.status # "creating" /\ ~(RootOf[i] # i /\ thread.status = "none")
         /\ Send(h, n, Said(j, i), thread.root, Told(j, i, n),
                 IF thread.status = "none" THEN "publish" ELSE "remember")
  BY <1>1, <1>4 DEF ReadThread
<1> QED
  BY <1>6, <1>7, <1>8, <1>9

LEMMA RememberSafe ==
  ASSUME DataOK, HandlersOK, NEW h \in Handlers, Remember(h), UNCHANGED <<stamps, day>>
  PROVE  /\ Safe /\ UNCHANGED <<intents, posts>>
         /\ \E p, k : Go(h, p, k) /\ k.task \notin ReviewTasks
<1>1. at[h] = "remember" /\ UNCHANGED <<thread, intents, posts, lost>> /\ Advance(h)
  BY DEF Remember
<1>2. Grown /\ DataOK'
  BY <1>1, StandsStill DEF DataOK
<1> QED
  BY <1>1, <1>2, AdvanceSafe

LEMMA DigestSafe ==
  ASSUME DataOK, HandlersOK, NEW h \in Handlers, Digest(h) \/ Digested(h), UNCHANGED <<stamps, day>>
  PROVE  /\ Safe /\ UNCHANGED <<intents, posts>>
         /\ \E p, k : Go(h, p, k) /\ k.task \notin ReviewTasks
<1>1. PICK i : i = job[h]
  OBVIOUS
<1>2. at[h] \in {"idle", "digested"} /\ UNCHANGED <<thread, intents, posts, lost>>
  BY DEF Digest, Digested
<1>3. Grown /\ DataOK'
  BY <1>2, StandsStill DEF DataOK
<1>4. DOMAIN i = Fields /\ i.to = None /\ i.task = "none"
  BY <1>1, <1>2, HasJob DEF SendOK, PlaceOK, Sending, ItemTasks, ReviewTasks
<1>5. CASE Digested(h)
  <2>1. Rest(h) /\ Go(h, "idle", NoJob)
    BY <1>5 DEF Digested, Rest
  <2> QED
    BY <1>2, <1>3, <2>1, RestsSafely, NoJobFields DEF ReviewTasks
<1>6. CASE Digest(h)
  <2>1. PICK q, w : Send(h, <<"digest", day, q>>, w, 0, {}, "digested")
    BY <1>6 DEF Digest
  <2>2. PICK n, u, d, s : n = <<"digest", day, q>> /\ u = 0 /\ d = {} /\ s = "digested"
    OBVIOUS
  <2>3. Send(h, n, w, u, d, s) /\ n[1] = "digest" /\ d \subseteq Users /\ u \in Nat
    BY <2>1, <2>2
  <2>4. \A c : c.under = u => Named(n, c)'
    BY <2>3 DEF Named, ItemTasks
  <2>5. \A j : SameRun(j, i) /\ j.notice = n /\ j.then = s /\ j.payload.what = w
                /\ j.payload.under = u =>
                  /\ PlaceOK("deliver", j)
                  /\ j.task \in ItemTasks => ItemJob("deliver", j)'
                  /\ j.task \in ReviewTasks => ReviewJob("deliver", j)'
                  /\ j.task = "none" => j.notice[1] = "digest"
    BY <1>4, <2>2, <2>3 DEF SameRun, PlaceOK, Sending, ItemTasks, ReviewTasks
  <2>6. u # 0 => u = thread'.root
    BY <2>2
  <2>7. Safe /\ \E j : Go(h, "deliver", j) /\ SameRun(j, i)
    BY <1>1, <1>2, <1>3, <1>4, <2>3, <2>4, <2>5, <2>6, SendsSafely
  <2>8. \A j : SameRun(j, i) => j.task \notin ReviewTasks
    BY <1>4 DEF SameRun, ReviewTasks
  <2> QED
    BY <1>2, <2>7, <2>8
<1> QED
  BY <1>5, <1>6

-----------------------------------------------------------------------------
(* The steps of a review request. *)

LEMMA AtReview ==
  ASSUME HandlersOK, NEW h \in Handlers, NEW j, j = job[h],
         at[h] \in {"request", "compare", "ensure", "overview", "ask", "rest", "record"}
  PROVE  /\ j.task \in ReviewTasks /\ JobOK(at[h], j) /\ DOMAIN j = Fields /\ j.to = None
         /\ ReviewJob(at[h], j)
<1>1. JobOK(at[h], j) /\ DOMAIN j = Fields /\ PlaceOK(at[h], j) /\ SendOK(at[h], j)
  BY HasJob
<1>2. j.task \in ReviewTasks /\ j.to = None
  BY <1>1 DEF JobOK, PlaceOK, SendOK, Sending
<1> QED
  BY <1>1, <1>2 DEF JobOK

LEMMA ExamineSafe ==
  ASSUME DataOK, HandlersOK, NEW h \in Handlers, NEW t \in ReviewTasks, NEW a, Examine(h, t, a),
         UNCHANGED <<stamps, day>>
  PROVE  /\ Safe /\ UNCHANGED <<intents, posts>>
         /\ \E k : Go(h, "request", k) /\ k.task = t
<1>1. PICK d, p : d = Active(t = "push") /\ p = [u \in d |-> Reasons(u)]
  OBVIOUS
<1>2. PICK k : k = [NoJob EXCEPT !.task = t, !.actor = a, !.active = d, !.seen = requested,
                                 !.since = Len(posts), !.print = p]
  OBVIOUS
<1>3. Go(h, "request", k) /\ UNCHANGED <<thread, intents, posts, lost>>
  BY <1>1, <1>2 DEF Examine
<1>4. /\ DOMAIN k = Fields /\ k.task = t /\ k.to = None /\ k.notice = None
      /\ k.active = d /\ k.print = p
  BY <1>2 DEF NoJob, Fields
<1>5. d \subseteq Users \ {Author} /\ DOMAIN p = d
  BY <1>1 DEF Active, Candidates
<1>6. Grown /\ DataOK'
  BY <1>3, StandsStill DEF DataOK
<1>7. ReviewJob("request", k)'
  BY <1>4, <1>5 DEF ReviewJob, Sending
<1>8. JobOK("request", k)'
  BY <1>4, <1>7 DEF JobOK, PlaceOK, SendOK, Sending, ItemTasks, ReviewTasks
<1> QED
  BY <1>3, <1>4, <1>6, <1>8, GoesSafely

LEMMA RequestSafe ==
  ASSUME DataOK, HandlersOK, NEW h \in Handlers, Request(h), UNCHANGED day
  PROVE  /\ Safe /\ UNCHANGED <<intents, posts>>
         /\ \E k : Go(h, "compare", k) /\ k.task = job[h].task /\ k.stamp = stamps + 1
<1>1. PICK j : j = job[h]
  OBVIOUS
<1>2. at[h] = "request" /\ stamps' = stamps + 1 /\ UNCHANGED <<thread, intents, posts, lost>>
  BY DEF Request
<1>3. PICK k : k = [j EXCEPT !.stamp = stamps + 1]
  OBVIOUS
<1>4. Go(h, "compare", k)
  BY <1>1, <1>3 DEF Request
<1>5. /\ j.task \in ReviewTasks /\ JobOK("request", j) /\ DOMAIN j = Fields /\ j.to = None
      /\ ReviewJob("request", j)
  BY <1>1, <1>2, AtReview
<1>6. /\ DOMAIN k = Fields /\ k.task = j.task /\ k.to = None /\ k.notice = j.notice
      /\ k.active = j.active /\ k.print = j.print /\ k.stamp = stamps + 1
  BY <1>3, <1>5, JobFields
<1>7. stamps' \in Nat /\ stamps <= stamps' /\ day' \in Nat /\ day <= day' /\ k.stamp \in 1..stamps'
  BY <1>2, <1>6 DEF DataOK
<1>8. Grown /\ DataOK'
  <2>1. UNCHANGED <<thread, intents, posts>> /\ lost \subseteq lost'
    BY <1>2
  <2> QED
    BY <1>7, <2>1, StandsStill
<1>9. ReviewJob("compare", k)'
  BY <1>5, <1>6, <1>7 DEF ReviewJob, Sending
<1>10. JobOK("compare", k)'
  BY <1>5, <1>6, <1>9 DEF JobOK, PlaceOK, SendOK, Sending, ItemTasks, ReviewTasks
<1> QED
  BY <1>1, <1>2, <1>4, <1>6, <1>8, <1>10, GoesSafely

LEMMA GoesToSafely ==
  ASSUME DataOK, HandlersOK, NEW h \in Handlers, NEW j, j = job[h],
         \/ at[h] = "compare" /\ \E p \in {"record", "ensure", "rest"} : Go(h, p, j)
         \/ at[h] = "rest" /\ Go(h, "record", j),
         UNCHANGED <<thread, intents, posts, lost, stamps, day>>
  PROVE  Safe
<1>1. Grown /\ DataOK'
  BY StandsStill DEF DataOK
<1>2. /\ j.task \in ReviewTasks /\ JobOK(at[h], j) /\ DOMAIN j = Fields /\ j.to = None
      /\ ReviewJob(at[h], j)
  BY AtReview
<1>3. at[h] = "compare" => j.notice = None
  BY <1>2 DEF ReviewJob
<1>4. \A p : /\ p \in {"record", "ensure"} => JobOK(p, j)'
             /\ p = "rest" /\ at[h] = "compare" => JobOK(p, j)'
  <2>1. PICK q : q = at[h]
    OBVIOUS
  <2>2. JobOK(q, j)' /\ q \in {"compare", "rest"}
    BY <1>1, <1>2, <2>1, JobKept DEF DataOK
  <2>3. ReviewJob(q, j)'
    BY <1>2, <2>2 DEF JobOK
  <2>4. ASSUME NEW p, p \in {"record", "ensure"} \/ (p = "rest" /\ q = "compare")
        PROVE  JobOK(p, j)'
    <3>1. ReviewJob(p, j)'
      BY <1>3, <2>1, <2>2, <2>3, <2>4 DEF ReviewJob, Sending
    <3>2. SendOK(p, j)'
      BY <1>2, <1>3, <2>1, <2>4 DEF SendOK, Sending
    <3> QED
      BY <1>2, <2>4, <3>1, <3>2 DEF JobOK, PlaceOK, Sending, ItemTasks, ReviewTasks
  <2> QED
    BY <2>1, <2>4
<1> QED
  BY <1>1, <1>4, GoesSafely

LEMMA CompareSafe ==
  ASSUME DataOK, HandlersOK, NEW h \in Handlers, Compare(h), UNCHANGED day
  PROVE  /\ Safe /\ UNCHANGED <<intents, posts>>
         /\ \E p \in {"record", "ensure", "rest"} : Go(h, p, job[h])
  BY GoesToSafely DEF Compare, Goto, review

LEMMA RememberReviewSafe ==
  ASSUME DataOK, HandlersOK, NEW h \in Handlers, RememberReview(h), UNCHANGED day
  PROVE  Safe /\ UNCHANGED <<intents, posts>> /\ Go(h, "record", job[h])
  BY GoesToSafely DEF RememberReview, Goto

LEMMA RecordModelSafe ==
  ASSUME DataOK, HandlersOK, NEW h \in Handlers, RecordModel(h), UNCHANGED day
  PROVE  Safe /\ UNCHANGED <<intents, posts>> /\ Go(h, "idle", NoJob)
<1>1. Rest(h) /\ UNCHANGED <<thread, intents, posts, lost, stamps>>
  BY DEF RecordModel
<1>2. Grown /\ DataOK'
  BY <1>1, StandsStill DEF DataOK
<1> QED
  BY <1>1, <1>2, RestsSafely DEF Rest

LEMMA OverviewSafe ==
  ASSUME DataOK, HandlersOK, NEW h \in Handlers, Overview(h) \/ Ask(h), UNCHANGED day
  PROVE  /\ Safe /\ UNCHANGED <<intents, posts>>
         /\ \E k : Go(h, "deliver", k) /\ SameRun(k, job[h]) /\ k.to = None
<1>1. PICK j : j = job[h]
  OBVIOUS
<1>2. at[h] \in {"overview", "ask"} /\ UNCHANGED <<thread, intents, posts, lost, stamps>>
  BY DEF Overview, Ask, review
<1>3. Grown /\ DataOK'
  BY <1>2, StandsStill DEF DataOK
<1>4. /\ j.task \in ReviewTasks /\ DOMAIN j = Fields /\ j.to = None /\ ReviewJob(at[h], j)
  BY <1>1, <1>2, AtReview
<1>5. PICK u : u = thread.root
  OBVIOUS
<1>6. thread.status = "ready" /\ u \in Nat /\ u # 0 /\ u = thread'.root /\ thread'.status = "ready"
  BY <1>2, <1>4, <1>5 DEF ReviewJob, DataOK, ThreadOK
<1>7. CASE Overview(h)
  <2>1. PICK n, w, d, s : n = <<"overview">> /\ w = "overview" /\ d = {} /\ s = "ask"
    OBVIOUS
  <2>2. Send(h, n, w, u, d, s) /\ n[1] = "overview" /\ d \subseteq Users
    BY <1>5, <1>7, <2>1 DEF Overview
  <2>3. \A c : c.under = u => Named(n, c)'
    BY <1>6, <2>2 DEF Named, ItemTasks
  <2>4. \A k : SameRun(k, j) /\ k.notice = n /\ k.then = s /\ k.payload.what = w
                /\ k.payload.under = u =>
                  /\ PlaceOK("deliver", k)
                  /\ k.task \in ItemTasks => ItemJob("deliver", k)'
                  /\ k.task \in ReviewTasks => ReviewJob("deliver", k)'
                  /\ k.task = "none" => k.notice[1] = "digest"
    <3> SUFFICES ASSUME NEW k, SameRun(k, j), k.notice = n, k.then = s
                 PROVE  /\ PlaceOK("deliver", k)
                        /\ k.task \in ItemTasks => ItemJob("deliver", k)'
                        /\ k.task \in ReviewTasks => ReviewJob("deliver", k)'
                        /\ k.task = "none" => k.notice[1] = "digest"
      OBVIOUS
    <3>1. k.task \in ReviewTasks /\ k.task \notin ItemTasks /\ k.task # "none"
      BY <1>4 DEF SameRun, ItemTasks, ReviewTasks
    <3>2. ReviewJob("deliver", k)'
      BY <1>2, <1>3, <1>4, <1>6, <2>1 DEF ReviewJob, SameRun, Sending
    <3> QED
      BY <2>1, <3>1, <3>2 DEF PlaceOK, Sending
  <2>5. u # 0 => u = thread'.root
    BY <1>6
  <2>6. n[1] # "dm"
    BY <2>2
  <2>7. Safe /\ \E k : Go(h, "deliver", k) /\ SameRun(k, j) /\ k.to = None
    BY <1>1, <1>2, <1>3, <1>4, <1>6, <2>2, <2>3, <2>4, <2>5, <2>6, SendsSafely
  <2> QED
    BY <1>1, <1>2, <2>7
<1>8. CASE Ask(h)
  <2>1. PICK n, w, d, s : /\ n = <<"review", j.stamp>> /\ w = j.print
                          /\ d = Recipients(j.active, j.actor) /\ s = "rest"
    OBVIOUS
  <2>2. Send(h, n, w, u, d, s) /\ n[1] = "review" /\ n[2] = j.stamp
    BY <1>1, <1>5, <1>8, <2>1 DEF Ask
  <2>3. d \subseteq Users
    BY <2>1, NoticesAssumption DEF Recipients
  <2>4. j.stamp \in 1..stamps'
    BY <1>2, <1>4 DEF ReviewJob
  <2>5. \A c : c.under = u => Named(n, c)'
    BY <1>6, <2>2, <2>4 DEF Named, ItemTasks
  <2>6. \A k : SameRun(k, j) /\ k.notice = n /\ k.then = s /\ k.payload.what = w
                /\ k.payload.under = u =>
                  /\ PlaceOK("deliver", k)
                  /\ k.task \in ItemTasks => ItemJob("deliver", k)'
                  /\ k.task \in ReviewTasks => ReviewJob("deliver", k)'
                  /\ k.task = "none" => k.notice[1] = "digest"
    <3> SUFFICES ASSUME NEW k, SameRun(k, j), k.notice = n, k.then = s, k.payload.what = w
                 PROVE  /\ PlaceOK("deliver", k)
                        /\ k.task \in ItemTasks => ItemJob("deliver", k)'
                        /\ k.task \in ReviewTasks => ReviewJob("deliver", k)'
                        /\ k.task = "none" => k.notice[1] = "digest"
      OBVIOUS
    <3>1. k.task \in ReviewTasks /\ k.task \notin ItemTasks /\ k.task # "none"
      BY <1>4 DEF SameRun, ItemTasks, ReviewTasks
    <3>2. ReviewJob("deliver", k)'
      BY <1>2, <1>3, <1>4, <1>6, <2>1, <2>4 DEF ReviewJob, SameRun, Sending
    <3> QED
      BY <2>1, <3>1, <3>2 DEF PlaceOK, Sending
  <2>7. u # 0 => u = thread'.root
    BY <1>6
  <2>8. n[1] # "dm"
    BY <2>2
  <2>9. Safe /\ \E k : Go(h, "deliver", k) /\ SameRun(k, j) /\ k.to = None
    BY <1>1, <1>2, <1>3, <1>4, <1>6, <2>2, <2>3, <2>5, <2>6, <2>7, <2>8, SendsSafely
  <2> QED
    BY <1>1, <1>2, <2>9
<1> QED
  BY <1>7, <1>8

-----------------------------------------------------------------------------
(* The steps, sorted by what they leave alone. *)

WorkAction(h) ==
  WorkStep(h) \/ Digest(h) \/ \E kind \in ItemTasks : \E actor : Begin(h, kind, actor)

ReviewAction(h) ==
  ReviewStep(h) \/ \E task \in ReviewTasks : \E actor : Examine(h, task, actor)

LEMMA CommandKinds ==
  ASSUME NEW h \in Handlers, NEW task, NEW actor, Command(h, task, actor)
  PROVE  (WorkAction(h) /\ UNCHANGED review) \/ (ReviewAction(h) /\ UNCHANGED work)
<1>1. CASE task = "state" /\ Begin(h, "state", actor) /\ UNCHANGED review
  BY <1>1 DEF WorkAction, ItemTasks
<1>2. CASE task = "deadlines" /\ actor = None /\ Begin(h, "deadline", None) /\ UNCHANGED review
  BY <1>2 DEF WorkAction, ItemTasks
<1>3. CASE task = "digest" /\ actor = None /\ Digest(h) /\ UNCHANGED review
  BY <1>3 DEF WorkAction
<1>4. CASE /\ task \in {"pull request", "push"}
           /\ Examine(h, task, IF actor = None THEN Author ELSE actor)
           /\ UNCHANGED work
  <2>1. PICK a : a = IF actor = None THEN Author ELSE actor
    OBVIOUS
  <2> QED
    BY <1>4, <2>1 DEF ReviewAction, ReviewTasks
<1>5. CASE task = "remind" /\ actor = None /\ Examine(h, task, Author) /\ UNCHANGED work
  BY <1>5 DEF ReviewAction, ReviewTasks
<1> QED
  BY <1>1, <1>2, <1>3, <1>4, <1>5 DEF Command

LEMMA HandlerKinds ==
  ASSUME NEW h \in Handlers,
         \/ \E task \in Tasks, actor \in Actors \cup {None} : Give(h, task, actor)
         \/ Schedule(h) \/ Handle(h) \/ Break(h)
  PROVE  /\ UNCHANGED <<day, course>>
         /\ \/ (DeliveryStep(h) \/ DeliveryFault(h)) /\ UNCHANGED <<work, review>>
            \/ WorkAction(h) /\ UNCHANGED review
            \/ ReviewAction(h) /\ UNCHANGED work
<1>1. ASSUME NEW task, NEW actor, Give(h, task, actor)
      PROVE  UNCHANGED <<day, course>> /\ Command(h, task, actor)
  BY <1>1 DEF Give
<1>2. CASE Schedule(h)
  <2>1. UNCHANGED <<day, course>> /\ Command(h, "deadlines", None)
    BY <1>2 DEF Schedule, world
  <2> QED
    BY <2>1, CommandKinds
<1>3. CASE Handle(h)
  BY <1>3 DEF Handle, world, WorkAction, ReviewAction
<1>4. CASE Break(h)
  BY <1>4 DEF Break, world
<1> QED
  BY <1>1, <1>2, <1>3, <1>4, CommandKinds

LEMMA NextKinds ==
  ASSUME Next
  PROVE  \/ \E h \in Handlers :
              /\ UNCHANGED <<day, course>>
              /\ \/ (DeliveryStep(h) \/ DeliveryFault(h)) /\ UNCHANGED <<work, review>>
                 \/ WorkAction(h) /\ UNCHANGED review
                 \/ ReviewAction(h) /\ UNCHANGED work
              /\ Record
         \/ Outside /\ Record
         \/ Change
         \/ NextDay
<1>1. ASSUME NEW h \in Handlers,
             \/ \E task \in Tasks, actor \in Actors \cup {None} : Give(h, task, actor)
             \/ Schedule(h) \/ Handle(h) \/ Break(h)
      PROVE  /\ UNCHANGED <<day, course>>
             /\ \/ (DeliveryStep(h) \/ DeliveryFault(h)) /\ UNCHANGED <<work, review>>
                \/ WorkAction(h) /\ UNCHANGED review
                \/ ReviewAction(h) /\ UNCHANGED work
  BY <1>1, HandlerKinds
<1> QED
  BY <1>1 DEF Next

LEMMA DeliverySafe ==
  ASSUME DataOK, HandlersOK, NEW h \in Handlers, DeliveryStep(h) \/ DeliveryFault(h),
         UNCHANGED <<stamps, day>>
  PROVE  Safe
<1>1. CASE Deliver(h)
  <2>1. PICK i : i = job[h]
    OBVIOUS
  <2> QED
    BY <1>1, <2>1, DeliverCreates, DeliverSeen
<1>2. CASE Posted(h)
  <2>1. PICK i : i = job[h]
    OBVIOUS
  <2> QED
    BY <1>2, <2>1, PostedSafe
<1>3. CASE HasRoot(h) \/ ClaimRoot(h) \/ RootInProgress(h) \/ SaveRoot(h) \/ SaveThread(h)
  BY <1>3, EnsureSafe, ClaimRootSafe, SaveRootSafe, SaveThreadSafe
<1>4. CASE DeliveryFault(h)
  BY <1>4, UncertainSafe, FailsSafe, DieSafe DEF DeliveryFault
<1> QED
  BY <1>1, <1>2, <1>3, <1>4 DEF DeliveryStep

LEMMA WorkActionSafe ==
  ASSUME DataOK, HandlersOK, NEW h \in Handlers, WorkAction(h), UNCHANGED <<stamps, day>>
  PROVE  /\ Safe /\ UNCHANGED <<intents, posts>>
         /\ \E p, k : Go(h, p, k) /\ k.task \notin ReviewTasks
  BY ConsiderSafe, ReadThreadSafe, RememberSafe, DigestSafe, BeginSafe DEF WorkAction, WorkStep

LEMMA ReviewActionSafe ==
  ASSUME DataOK, HandlersOK, NEW h \in Handlers, ReviewAction(h), UNCHANGED day
  PROVE  Safe
<1>1. ASSUME NEW task \in ReviewTasks, NEW actor, Examine(h, task, actor)
      PROVE  Safe
  <2>1. UNCHANGED <<stamps, day>>
    BY <1>1 DEF Examine, review
  <2> QED
    BY <1>1, <2>1, ExamineSafe
<1> QED
  BY <1>1, RequestSafe, CompareSafe, OverviewSafe, RememberReviewSafe, RecordModelSafe
     DEF ReviewAction, ReviewStep

LEMMA NextSafe ==
  ASSUME DataOK, HandlersOK, mishaps \in Nat, Next
  PROVE  Safe
<1>1. ASSUME NEW h \in Handlers, UNCHANGED <<day, course>>,
             \/ (DeliveryStep(h) \/ DeliveryFault(h)) /\ UNCHANGED <<work, review>>
             \/ WorkAction(h) /\ UNCHANGED review
             \/ ReviewAction(h) /\ UNCHANGED work
      PROVE  Safe
  <2>1. CASE (DeliveryStep(h) \/ DeliveryFault(h)) /\ UNCHANGED <<work, review>>
    <3>1. UNCHANGED <<stamps, day>>
      BY <1>1, <2>1 DEF review
    <3> QED
      BY <2>1, <3>1, DeliverySafe
  <2>2. CASE WorkAction(h) /\ UNCHANGED review
    <3>1. UNCHANGED <<stamps, day>>
      BY <1>1, <2>2 DEF review
    <3> QED
      BY <2>2, <3>1, WorkActionSafe
  <2> QED
    BY <1>1, <2>1, <2>2, ReviewActionSafe
<1>2. CASE Outside
  <2>1. UNCHANGED <<stamps, day>>
    BY <1>2 DEF Outside, review, world
  <2> QED
    BY <1>2, <2>1, LeaseEndsSafe, ReplaySafe DEF Outside
<1>3. CASE Change \/ NextDay
  <2>1. UNCHANGED <<thread, intents, posts, lost, at, job, stamps>>
    BY <1>3 DEF Change, NextDay, delivery, review
  <2>2. day' \in Nat /\ day <= day'
    BY <1>3 DEF Change, NextDay, DataOK
  <2>3. Grown /\ DataOK'
    BY <2>1, <2>2, StandsStill DEF DataOK
  <2>4. HandlersOK'
    BY <2>1, <2>3, HandlersStay DEF InChannel
  <2> QED
    BY <2>3, <2>4 DEF Safe
<1> QED
  BY <1>1, <1>2, <1>3, NextKinds

-----------------------------------------------------------------------------
(* The world and the mishaps. *)

LEMMA Mishaps ==
  ASSUME NEW h \in Handlers
  PROVE  /\ DeliveryStep(h) => UNCHANGED mishaps
         /\ DeliveryFault(h) => mishaps' = mishaps + 1
         /\ WorkAction(h) => UNCHANGED <<item, mishaps>>
         /\ ReviewAction(h) => UNCHANGED mishaps
<1>1. DeliveryStep(h) => UNCHANGED mishaps
  BY DEF DeliveryStep, Deliver, Posted, HasRoot, ClaimRoot, RootInProgress, SaveRoot, SaveThread
<1>2. DeliveryFault(h) => mishaps' = mishaps + 1
  BY DEF DeliveryFault, Uncertain, Fails, Die, Mishap
<1>3. WorkAction(h) => UNCHANGED <<item, mishaps>>
  BY DEF WorkAction, WorkStep, Consider, ReadThread, Remember, Digested, Digest, Begin, work
<1>4. ReviewAction(h) => UNCHANGED mishaps
  BY DEF ReviewAction, ReviewStep, Request, Compare, Overview, Ask, RememberReview, RecordModel,
         Examine
<1> QED
  BY <1>1, <1>2, <1>3, <1>4

LEMMA MishapsGrow ==
  ASSUME mishaps \in Nat, Next
  PROVE  mishaps' \in Nat /\ mishaps <= mishaps'
<1>1. CASE Outside
  BY <1>1 DEF Outside, LeaseEnds, Replay, Mishap
<1>2. CASE Change \/ NextDay
  BY <1>2 DEF Change, NextDay, delivery
<1> QED
  BY <1>1, <1>2, NextKinds, Mishaps

LEMMA RequestedKept ==
  ASSUME WorldOK, HandlersOK, NEW h \in Handlers, ReviewAction(h)
  PROVE  /\ requested' \subseteq Users \ {Author} /\ recorded' \in BOOLEAN /\ stamps' \in Nat
<1>1. CASE Request(h)
  <2>1. PICK j : j = job[h]
    OBVIOUS
  <2>2. ReviewJob("request", j)
    BY <1>1, <2>1, AtReview DEF Request
  <2>3. requested' = requested \cup (j.active \ j.seen) /\ stamps' = stamps + 1
        /\ recorded' = recorded
    BY <1>1, <2>1 DEF Request
  <2>4. j.active \subseteq Users \ {Author}
    BY <2>2 DEF ReviewJob
  <2>5. requested' \subseteq Users \ {Author}
    BY <2>3, <2>4 DEF WorldOK
  <2>6. stamps' \in Nat
    BY <2>3 DEF WorldOK
  <2> QED
    BY <2>3, <2>5, <2>6 DEF WorldOK
<1>2. CASE RecordModel(h)
  BY <1>2 DEF RecordModel, WorldOK
<1>3. CASE Compare(h) \/ Overview(h) \/ Ask(h) \/ RememberReview(h)
           \/ \E task \in ReviewTasks : \E actor : Examine(h, task, actor)
  <2>1. UNCHANGED <<requested, recorded, stamps>>
    BY <1>3 DEF Compare, Overview, Ask, RememberReview, Examine, review
  <2> QED
    BY <2>1 DEF WorldOK
<1> QED
  BY <1>1, <1>2, <1>3 DEF ReviewAction, ReviewStep

LEMMA WorldKept ==
  ASSUME WorldOK, HandlersOK, Next
  PROVE  WorldOK'
<1>1. mishaps' \in Nat
  BY MishapsGrow DEF WorldOK
<1>2. disturbed' \in BOOLEAN
  BY DEF Next, Record, Change, NextDay, WorldOK
<1>3. ASSUME NEW h \in Handlers, UNCHANGED <<day, course>>,
             \/ (DeliveryStep(h) \/ DeliveryFault(h)) /\ UNCHANGED <<work, review>>
             \/ WorkAction(h) /\ UNCHANGED review
             \/ ReviewAction(h) /\ UNCHANGED work
      PROVE  WorldOK'
  <2>1. item' = item
    BY <1>3, Mishaps DEF work
  <2>2. requested' \subseteq Users \ {Author} /\ recorded' \in BOOLEAN /\ stamps' \in Nat
    BY <1>3, RequestedKept DEF review, WorldOK
  <2> QED
    BY <1>1, <1>2, <1>3, <2>1, <2>2 DEF WorldOK
<1>4. CASE Outside
  BY <1>1, <1>2, <1>4 DEF Outside, work, review, world, WorldOK
<1>5. CASE Change
  <2>1. Head(course) \in Moment /\ Tail(course) \in Seq(Moment)
    BY <1>5 DEF Change, WorldOK
  <2>2. item' \in [Items -> [state : States, target : Nat]] /\ course' \in Seq(Moment)
    BY <1>5, <2>1 DEF Change, Moment
  <2>3. requested' \subseteq Users \ {Author}
    BY <1>5 DEF Change, WorldOK
  <2>4. UNCHANGED <<recorded, stamps, day>>
    BY <1>5 DEF Change
  <2> QED
    BY <1>1, <1>2, <2>2, <2>3, <2>4 DEF WorldOK
<1>6. CASE NextDay
  BY <1>1, <1>2, <1>6 DEF NextDay, work, review, WorldOK
<1> QED
  BY <1>3, <1>4, <1>5, <1>6, NextKinds

-----------------------------------------------------------------------------
(* What is remembered. *)

LEMMA KeepsKept ==
  ASSUME DataOK, Grown, NEW n, Keeps(n)
  PROVE  Keeps(n)'
<1>1. InChannel(n)'
  BY ChannelKept DEF Keeps
<1>2. n \in DOMAIN intents
  BY PostsAre DEF DataOK, Keeps, InChannel
<1>3. \A u \in intents'[n].payload.dms : Handed(n, u)'
  BY <1>2, HandedKept DEF Keeps, Grown
<1> QED
  BY <1>1, <1>3 DEF Keeps

LEMMA HasHandedKeeps ==
  ASSUME NEW j, HasHanded(j)
  PROVE  Keeps(j.notice)
  BY DEF HasHanded, HasTold, Keeps, InChannel

LEMMA MemoryStays ==
  ASSUME DataOK, Grown, MemoryOK, UNCHANGED memory
  PROVE  MemoryOK'
  BY KeepsKept DEF MemoryOK

LEMMA MemoryMoves ==
  ASSUME DataOK, Grown, MemoryOK, NEW kind \in ItemTasks, NEW i \in Items, NEW n,
         n # None => n[1] = kind /\ n[2] = i /\ Keeps(n),
         memory' = [memory EXCEPT ![kind][i] = n]
  PROVE  MemoryOK'
<1>1. /\ DOMAIN memory' = ItemTasks
      /\ \A k \in ItemTasks : DOMAIN memory'[k] = Items
      /\ memory'[kind][i] = n
      /\ \A k \in ItemTasks, m \in Items : k # kind \/ m # i => memory'[k][m] = memory[k][m]
  BY DEF MemoryOK
<1>2. n # None => Keeps(n)'
  BY KeepsKept
<1>3. ASSUME NEW k \in ItemTasks, NEW m \in Items, NEW x, x = memory'[k][m], x # None
      PROVE  x[1] = k /\ x[2] = m /\ Keeps(x)'
  <2>1. CASE k = kind /\ m = i
    <3>1. x = n
      BY <1>1, <1>3, <2>1
    <3>2. x[1] = k /\ x[2] = m
      BY <1>3, <2>1, <3>1
    <3> QED
      BY <1>2, <1>3, <3>1, <3>2
  <2>2. CASE k # kind \/ m # i
    <3>1. x = memory[k][m]
      BY <1>1, <1>3, <2>2
    <3>2. x[1] = k /\ x[2] = m /\ Keeps(x)
      BY <1>3, <3>1 DEF MemoryOK
    <3> QED
      BY <3>2, KeepsKept
  <2> QED
    BY <2>1, <2>2
<1>4. ASSUME NEW k \in ItemTasks, NEW m \in Items, memory'[k][m] # None
      PROVE  memory'[k][m][1] = k /\ memory'[k][m][2] = m /\ Keeps(memory[k][m])'
  <2>1. PICK x : x = memory'[k][m]
    OBVIOUS
  <2>2. x[1] = k /\ x[2] = m /\ Keeps(x)'
    BY <1>3, <1>4, <2>1
  <2> QED
    BY <2>1, <2>2 DEF Keeps, InChannel, Handed, Direct
<1> QED
  BY <1>1, <1>4 DEF MemoryOK

LEMMA MemoryKept ==
  ASSUME DataOK, HandlersOK, MemoryOK, mishaps \in Nat, Next
  PROVE  MemoryOK'
<1>1. Grown
  BY NextSafe DEF Safe
<1>2. ASSUME NEW h \in Handlers, Consider(h)
      PROVE  MemoryOK'
  <2>1. PICK j, i, n : j = job[h] /\ i = Head(j.rest) /\ n = None
    OBVIOUS
  <2>2. j.task \in ItemTasks /\ i \in Items
    BY <1>2, <2>1, AtItem DEF Consider
  <2>3. memory' = [memory EXCEPT ![j.task][i] = n] \/ UNCHANGED memory
    BY <1>2, <2>1 DEF Consider
  <2> QED
    BY <1>1, <2>1, <2>2, <2>3, MemoryMoves, MemoryStays
<1>3. ASSUME NEW h \in Handlers, Remember(h)
      PROVE  MemoryOK'
  <2>1. PICK j, i, n : j = job[h] /\ i = Head(j.rest) /\ n = j.notice
    OBVIOUS
  <2>2. j.task \in ItemTasks /\ i \in Items /\ n = Wanted(j, i) /\ n # None /\ HasHanded(j)
    BY <1>3, <2>1, AtItem DEF Remember
  <2>3. n[1] = j.task /\ n[2] = i
    BY <2>2, WantedIs
  <2>5. Keeps(j.notice)
    BY <2>2, HasHandedKeeps
  <2>4. memory' = [memory EXCEPT ![j.task][i] = n]
    BY <1>3, <2>1 DEF Remember
  <2> QED
    BY <1>1, <2>1, <2>2, <2>3, <2>4, <2>5, MemoryMoves
<1>4. CASE UNCHANGED memory
  BY <1>1, <1>4, MemoryStays
<1>5. ASSUME NEW h \in Handlers, WorkAction(h)
      PROVE  Consider(h) \/ Remember(h) \/ UNCHANGED memory
  BY <1>5 DEF WorkAction, WorkStep, ReadThread, Digested, Digest, Begin, work
<1>6. CASE Outside \/ Change \/ NextDay
  BY <1>4, <1>6 DEF Outside, Change, NextDay, work
<1>7. ASSUME NEW h \in Handlers, WorkAction(h) \/ UNCHANGED work
      PROVE  MemoryOK'
  BY <1>2, <1>3, <1>4, <1>5, <1>7 DEF work
<1> QED
  BY <1>6, <1>7, NextKinds DEF work

LEMMA ReviewedStays ==
  ASSUME DataOK, Grown, ReviewedOK, UNCHANGED reviewed, day' \in Nat, day <= day'
  PROVE  ReviewedOK'
<1>1. reviewed.notice # None => Keeps(reviewed.notice)'
  BY KeepsKept DEF ReviewedOK
<1>2. reviewed'.day \in 0..day'
  BY DEF ReviewedOK, DataOK
<1> QED
  BY <1>1, <1>2 DEF ReviewedOK

LEMMA ReviewedKept ==
  ASSUME DataOK, HandlersOK, ReviewedOK, mishaps \in Nat, Next
  PROVE  ReviewedOK'
<1>1. Grown /\ day' \in Nat
  BY NextSafe DEF Safe, DataOK
<1>2. ASSUME NEW h \in Handlers, RememberReview(h), day' = day
      PROVE  ReviewedOK'
  <2>1. PICK j : j = job[h]
    OBVIOUS
  <2>2. ReviewJob("rest", j) /\ JobOK("rest", j)
    BY <1>2, <2>1, AtReview DEF RememberReview
  <2>3. j.notice # None => Keeps(j.notice)
    BY <2>2, HasHandedKeeps DEF JobOK, SendOK
  <2>4. j.notice # None => Keeps(j.notice)'
    BY <1>1, <2>3, KeepsKept
  <2>5. reviewed' = [status |-> "told", print |-> j.print, day |-> day, notice |-> j.notice]
    BY <1>2, <2>1 DEF RememberReview
  <2>6. /\ reviewed'.status = "told" /\ reviewed'.print = j.print /\ reviewed'.day = day
        /\ reviewed'.notice = j.notice
    BY <2>5
  <2>7. reviewed'.day \in 0..day'
    BY <1>1, <1>2, <2>6
  <2>8. reviewed'.notice # None => Keeps(reviewed.notice)'
    BY <2>4, <2>6 DEF Keeps, InChannel, Handed, Direct
  <2>9. DOMAIN reviewed'.print \subseteq Users
    BY <2>2, <2>6 DEF ReviewJob
  <2> QED
    BY <2>6, <2>7, <2>8, <2>9 DEF ReviewedOK
<1>3. ASSUME UNCHANGED reviewed, day <= day'
      PROVE  ReviewedOK'
  BY <1>1, <1>3, ReviewedStays
<1>4. ASSUME NEW h \in Handlers, ReviewAction(h)
      PROVE  RememberReview(h) \/ UNCHANGED reviewed
  BY <1>4 DEF ReviewAction, ReviewStep, Request, Compare, Overview, Ask, RecordModel, Examine, review
<1>5. CASE Outside \/ Change \/ NextDay
  <2>1. UNCHANGED reviewed /\ day <= day'
    BY <1>5 DEF Outside, Change, NextDay, review, world, DataOK
  <2> QED
    BY <1>3, <2>1
<1>6. ASSUME NEW h \in Handlers, ReviewAction(h) \/ UNCHANGED review, UNCHANGED day
      PROVE  ReviewedOK'
  <2>1. UNCHANGED reviewed => ReviewedOK'
    BY <1>1, <1>3, <1>6
  <2> QED
    BY <1>2, <1>4, <1>6, <2>1 DEF review
<1> QED
  BY <1>5, <1>6, NextKinds DEF review

-----------------------------------------------------------------------------
(* With no mishap, who sends a notice is heard of. *)

LEMMA QuietSteps ==
  ASSUME NEW h \in Handlers,
         \/ HasRoot(h) \/ ClaimRoot(h) \/ RootInProgress(h) \/ SaveRoot(h) \/ SaveThread(h)
         \/ WorkAction(h) \/ ReviewAction(h)
  PROVE  at[h] # "wait" /\ UNCHANGED <<intents, posts>> /\ \E p, k : Go(h, p, k)
<1>1. CASE HasRoot(h) \/ ClaimRoot(h) \/ RootInProgress(h) \/ SaveRoot(h) \/ SaveThread(h)
  <2>1. \E p, k : Go(h, p, k)
    BY <1>1 DEF HasRoot, ClaimRoot, RootInProgress, SaveRoot, SaveThread, Goto, Rest, Send
  <2> QED
    BY <1>1, <2>1 DEF HasRoot, ClaimRoot, RootInProgress, SaveRoot, SaveThread
<1>2. CASE WorkAction(h)
  <2>1. \E p, k : Go(h, p, k)
    BY <1>2 DEF WorkAction, WorkStep, Consider, ReadThread, Remember, Digested, Digest, Begin,
                Advance, Goto, Rest, Send
  <2> QED
    BY <1>2, <2>1 DEF WorkAction, WorkStep, Consider, ReadThread, Remember, Digested, Digest, Begin
<1>3. CASE ReviewAction(h)
  <2>1. \E p, k : Go(h, p, k)
    BY <1>3 DEF ReviewAction, ReviewStep, Request, Compare, Overview, Ask, RememberReview,
                RecordModel, Examine, Goto, Rest, Send
  <2> QED
    BY <1>3, <2>1 DEF ReviewAction, ReviewStep, Request, Compare, Overview, Ask, RememberReview,
                      RecordModel, Examine
<1> QED
  BY <1>1, <1>2, <1>3

LEMMA ClearMoves ==
  ASSUME HandlersOK, ClearOK, mishaps = 0, NEW h \in Handlers, NEW p, NEW k, Go(h, p, k),
         \A n \in DOMAIN intents' :
           \/ intents'[n].status = "sent"
           \/ p = "wait" /\ n = IntentOf(k)
           \/ /\ n \in DOMAIN intents /\ intents'[n] = intents[n]
              /\ ~(at[h] = "wait" /\ IntentOf(job[h]) = n)
  PROVE  ClearOK'
<1>1. /\ at'[h] = p /\ job'[h] = k
      /\ \A g \in Handlers \ {h} : at'[g] = at[g] /\ job'[g] = job[g]
  BY DEF Go, HandlersOK
<1>2. ASSUME NEW n \in DOMAIN intents', intents'[n].status # "sent"
      PROVE  \E g \in Handlers : at'[g] = "wait" /\ IntentOf(job'[g]) = n
  <2>1. CASE p = "wait" /\ n = IntentOf(k)
    BY <1>1, <2>1
  <2>2. CASE /\ n \in DOMAIN intents /\ intents'[n] = intents[n]
             /\ ~(at[h] = "wait" /\ IntentOf(job[h]) = n)
    <3>1. PICK g \in Handlers : at[g] = "wait" /\ IntentOf(job[g]) = n
      BY <1>2, <2>2 DEF ClearOK
    <3>2. g # h
      BY <2>2, <3>1
    <3> QED
      BY <1>1, <3>1, <3>2
  <2> QED
    BY <1>2, <2>1, <2>2
<1> QED
  BY <1>2 DEF ClearOK, IntentOf, Direct

LEMMA ClearKept ==
  ASSUME DataOK, HandlersOK, ClearOK, mishaps \in Nat, Next
  PROVE  ClearOK'
<1> SUFFICES ASSUME mishaps' = 0
             PROVE  ClearOK'
  BY DEF ClearOK
<1>1. mishaps = 0
  BY MishapsGrow
<1>2. ASSUME NEW h \in Handlers, Deliver(h), UNCHANGED <<stamps, day>>
      PROVE  ClearOK'
  <2>1. PICK i : i = job[h]
    OBVIOUS
  <2>2. at[h] # "wait"
    BY <1>2 DEF Deliver
  <2>3. CASE IntentOf(i) \notin DOMAIN intents
    <3>1. /\ Go(h, "wait", i)
          /\ DOMAIN intents' = DOMAIN intents \cup {IntentOf(i)}
          /\ \A m \in DOMAIN intents : intents'[m] = intents[m]
      BY <1>2, <2>1, <2>3, DeliverCreates
    <3> QED
      BY <1>1, <2>2, <3>1, ClearMoves
  <2>4. CASE IntentOf(i) \in DOMAIN intents
    <3>1. Concludes(h) /\ UNCHANGED intents
      BY <1>2, <2>1, <2>4, DeliverSeen
    <3>2. PICK p, k : Go(h, p, k)
      BY <3>1 DEF Concludes
    <3> QED
      BY <1>1, <2>2, <3>1, <3>2, ClearMoves
  <2> QED
    BY <2>3, <2>4
<1>3. ASSUME NEW h \in Handlers, Posted(h), UNCHANGED <<stamps, day>>
      PROVE  ClearOK'
  <2>1. PICK i : i = job[h]
    OBVIOUS
  <2>2. /\ \E p, k : Go(h, p, k)
        /\ DOMAIN intents' = DOMAIN intents /\ intents'[IntentOf(i)].status = "sent"
        /\ \A m \in DOMAIN intents \ {IntentOf(i)} : intents'[m] = intents[m]
    BY <1>3, <2>1, PostedSafe
  <2>3. PICK p, k : Go(h, p, k)
    BY <2>2
  <2> QED
    BY <1>1, <2>1, <2>2, <2>3, ClearMoves
<1>4. ASSUME NEW h \in Handlers, at[h] # "wait", UNCHANGED intents, \E p, k : Go(h, p, k)
      PROVE  ClearOK'
  <2>1. PICK p, k : Go(h, p, k)
    BY <1>4
  <2> QED
    BY <1>1, <1>4, <2>1, ClearMoves
<1>5. ASSUME UNCHANGED <<intents, at, job>>
      PROVE  ClearOK'
  BY <1>1, <1>5 DEF ClearOK, IntentOf, Direct
<1>6. CASE Outside
  <2>1. ASSUME NEW n \in DOMAIN intents, Replay(n)
        PROVE  FALSE
    <3>1. intents[n].status # "sent"
      BY <2>1 DEF Replay
    <3>2. PICK h \in Handlers : at[h] = "wait" /\ IntentOf(job[h]) = n
      BY <1>1, <3>1 DEF ClearOK
    <3> QED
      BY <2>1, <3>2 DEF Replay, Intent, IntentOf
  <2>2. UNCHANGED <<intents, at, job>>
    BY <1>6, <2>1 DEF Outside, LeaseEnds
  <2> QED
    BY <1>5, <2>2
<1>7. CASE Change \/ NextDay
  BY <1>5, <1>7 DEF Change, NextDay, delivery
<1>8. ASSUME NEW h \in Handlers, UNCHANGED day,
             \/ (DeliveryStep(h) \/ DeliveryFault(h)) /\ UNCHANGED <<work, review>>
             \/ WorkAction(h) /\ UNCHANGED review
             \/ ReviewAction(h) /\ UNCHANGED work
      PROVE  ClearOK'
  <2>1. ~DeliveryFault(h)
    BY <1>1, Mishaps
  <2>2. CASE WorkAction(h) \/ ReviewAction(h)
    BY <1>4, <2>2, QuietSteps
  <2>3. CASE DeliveryStep(h) /\ UNCHANGED <<work, review>>
    <3>1. UNCHANGED <<stamps, day>>
      BY <1>8, <2>3 DEF review
    <3> QED
      BY <1>2, <1>3, <1>4, <2>3, <3>1, QuietSteps DEF DeliveryStep
  <2> QED
    BY <1>8, <2>1, <2>2, <2>3
<1> QED
  BY <1>6, <1>7, <1>8, NextKinds

-----------------------------------------------------------------------------
(* The rest between two requests for review: what a step does to it. *)

HandlerRests(p, j) ==
  /\ FreshOK(p, j) /\ UnaskedOK(p, j)
  /\ HasAsked(p, j) => \A t \in Asked : Latest(t) => Why(t) = j.print

\* The others do not review.
Single(h) == \A g \in Handlers \ {h} : job[g].task \notin ReviewTasks

NoneAsked == \A ts \in DOMAIN posts' : ts \in DOMAIN posts \/ posts'[ts].notice[1] # "review"

LEMMA WhyKept ==
  ASSUME DataOK, Grown, NEW t \in DOMAIN posts
  PROVE  posts'[t] = posts[t] /\ Why(t)' = Why(t)
<1>1. posts'[t] = posts[t] /\ posts[t].notice \in DOMAIN intents
  BY PostsAre DEF Grown, DataOK
<1>2. intents'[posts'[t].notice].payload.what = intents[posts[t].notice].payload.what
  BY <1>1 DEF Grown
<1> QED
  BY <1>1, <1>2 DEF Why

LEMMA AskedKept ==
  ASSUME DataOK, Grown, NoneAsked
  PROVE  /\ Asked' = Asked
         /\ \A t \in Asked : posts'[t] = posts[t] /\ Why(t)' = Why(t) /\ (Latest(t)' <=> Latest(t))
<1>1. Asked' = Asked
  BY DEF Asked, NoneAsked, Grown
<1>2. \A t \in Asked : posts'[t] = posts[t] /\ Why(t)' = Why(t)
  BY WhyKept DEF Asked
<1>3. \A t \in Asked : Latest(t)' <=> Latest(t)
  BY <1>1 DEF Latest
<1> QED
  BY <1>1, <1>2, <1>3

\* Two messages as they were.
LEMMA ApartKept ==
  ASSUME DataOK, Grown, NEW t \in Asked, NEW S, S = {s \in Asked : s < t}, S # {},
         Ordered, ReviewRests, mishaps = 0, ~disturbed
  PROVE  Max(S) \in S /\ (Why(Max(S))' = Why(t)' => posts'[t].day - posts'[Max(S)].day >= Reminder)
<1>1. Max(S) \in S
  BY DEF Ordered
<1>2. Why(Max(S)) = Why(t) => posts[t].day - posts[Max(S)].day >= Reminder
  BY DEF ReviewRests
<1>3. PICK m : m = Max(S)
  OBVIOUS
<1>4. m \in DOMAIN posts /\ t \in DOMAIN posts
  BY <1>1, <1>3 DEF Asked
<1>5. posts'[t] = posts[t] /\ Why(t)' = Why(t) /\ posts'[m] = posts[m] /\ Why(m)' = Why(m)
  BY <1>4, WhyKept
<1>6. Why(m)' = Why(t)' => posts'[t].day - posts'[m].day >= Reminder
  BY <1>2, <1>3, <1>5
<1>7. Why(Max(S))' = Why(m)'
  BY <1>3 DEF Why
<1> QED
  BY <1>1, <1>3, <1>6, <1>7

LEMMA PastKept ==
  ASSUME DataOK, Grown, NoneAsked, Ordered, ReviewRests, mishaps = 0, ~disturbed
  PROVE  Ordered' /\ ReviewRests'
<1>1. Asked' = Asked /\ \A t \in Asked : Latest(t)' <=> Latest(t)
  BY AskedKept
<1>2. Ordered'
  BY <1>1 DEF Ordered
<1>3. ASSUME NEW t \in Asked', {s \in Asked : s < t} # {}
      PROVE  Why(Max({s \in Asked : s < t}))' = Why(t)' =>
               posts'[t].day - posts'[Max({s \in Asked : s < t})].day >= Reminder
  BY <1>1, <1>3, ApartKept
<1>4. ReviewRests'
  BY <1>1, <1>3 DEF ReviewRests, Why
<1> QED
  BY <1>2, <1>4

\* No message asks for reviews, and no reviewer moves.
LEMMA OthersRest ==
  ASSUME DataOK, HandlersOK, ReviewedOK, Grown, Resting, mishaps = 0, ~disturbed, NoneAsked,
         UNCHANGED reviewed, day' \in Nat, day <= day',
         \A n \in DOMAIN intents' : n \in DOMAIN intents \/ n[1] # "review",
         \A g \in Handlers :
           \/ at'[g] = at[g] /\ job'[g] = job[g]
           \/ job[g].task \notin ReviewTasks /\ job'[g].task \notin ReviewTasks
  PROVE  Resting'
<1>1. /\ Asked' = Asked
      /\ \A t \in Asked : posts'[t] = posts[t] /\ Why(t)' = Why(t) /\ (Latest(t)' <=> Latest(t))
  BY AskedKept DEF Resting
<1>2. \A g, h \in Handlers : Reviewing(g)' /\ Reviewing(h)' => g = h
  BY DEF Resting, Reviewing, ReviewTasks
<1>3. ASSUME NEW q, NEW k, HandlerRests(q, k)
      PROVE  HandlerRests(q, k)'
  <2>1. FreshOK(q, k)'
    <3>1. day - reviewed.day >= Reminder => day' - reviewed'.day >= Reminder
      BY NoticesAssumption DEF ReviewedOK, DataOK
    <3>2. Asks(q, k)' <=> Asks(q, k)
      BY DEF Asks
    <3> QED
      BY <1>3, <3>1, <3>2 DEF HandlerRests, FreshOK
  <2>2. UnaskedOK(q, k)'
    BY <1>3 DEF HandlerRests, UnaskedOK, Asks
  <2>3. HasAsked(q, k)' => \A t \in Asked' : Latest(t)' => Why(t)' = k.print
    BY <1>1, <1>3 DEF HandlerRests, HasAsked
  <2> QED
    BY <2>1, <2>2, <2>3 DEF HandlerRests
<1>4. ASSUME NEW g \in Handlers
      PROVE  HandlerRests(at[g], job[g])'
  <2>1. CASE at'[g] = at[g] /\ job'[g] = job[g]
    <3>1. PICK q, k : q = at[g] /\ k = job[g]
      OBVIOUS
    <3>2. HandlerRests(q, k)
      BY <3>1 DEF Resting, HandlerRests
    <3>3. HandlerRests(q, k)'
      BY <1>3, <3>2
    <3> QED
      BY <2>1, <3>1, <3>3
  <2>2. CASE job'[g].task \notin ReviewTasks
    BY <2>2 DEF HandlerRests, FreshOK, UnaskedOK, Asks, HasAsked
  <2> QED
    BY <2>1, <2>2
<1>5. LatestOK'
  <2> SUFFICES ASSUME NEW t \in Asked, Latest(t)
               PROVE  \/ \E h \in Handlers : HasAsked(at'[h], job'[h])
                      \/ /\ reviewed'.status = "told" /\ reviewed'.print = Why(t)
                         /\ posts[t].day <= reviewed'.day
    BY <1>1 DEF LatestOK, HasAsked
  <2>1. CASE \E h \in Handlers : HasAsked(at[h], job[h])
    <3>1. PICK h \in Handlers : HasAsked(at[h], job[h])
      BY <2>1
    <3>2. at'[h] = at[h] /\ job'[h] = job[h]
      BY <3>1 DEF HasAsked
    <3> QED
      BY <3>1, <3>2
  <2> QED
    BY <2>1 DEF Resting, LatestOK
<1>6. Ordered' /\ ReviewRests'
  BY PastKept DEF Resting
<1> QED
  BY <1>2, <1>4, <1>5, <1>6 DEF Resting, HandlerRests

\* Who reviews goes on, and nobody else reviews.
LEMMA ReviewerGoes ==
  ASSUME HandlersOK, NEW h \in Handlers, NEW p, NEW k, Go(h, p, k), Single(h),
         HandlerRests(p, k)', LatestOK', Ordered', ReviewRests'
  PROVE  Resting'
<1>1. /\ at'[h] = p /\ job'[h] = k
      /\ \A g \in Handlers \ {h} : at'[g] = at[g] /\ job'[g] = job[g]
  BY DEF Go, HandlersOK
<1>2. \A g \in Handlers \ {h} : job'[g].task \notin ReviewTasks
  BY <1>1 DEF Single
<1>3. \A f, g \in Handlers : Reviewing(f)' /\ Reviewing(g)' => f = g
  BY <1>2 DEF Reviewing, ReviewTasks
<1>4. ASSUME NEW g \in Handlers
      PROVE  HandlerRests(at[g], job[g])'
  <2>1. CASE g = h
    BY <1>1, <2>1
  <2>2. CASE g # h
    BY <1>2, <2>2 DEF HandlerRests, FreshOK, UnaskedOK, Asks, HasAsked
  <2> QED
    BY <2>1, <2>2
<1> QED
  BY <1>3, <1>4 DEF Resting, HandlerRests

\* It asks nobody, and is as far as before, or farther but for the message.
LEMMA ReviewerRests ==
  ASSUME DataOK, HandlersOK, Grown, Resting, mishaps = 0, ~disturbed, NoneAsked,
         UNCHANGED <<reviewed, day>>,
         NEW h \in Handlers, NEW i, i = job[h], NEW p, NEW k, Go(h, p, k), Single(h),
         HasAsked(at[h], i) <=> HasAsked(p, k), HasAsked(p, k) => k.print = i.print,
         FreshOK(p, k),
         (Asks(p, k) \/ (k.task \in ReviewTasks /\ p = "compare")) /\ ~(p = "wait" /\ k.then = "rest")
           => <<"review", k.stamp>> \notin DOMAIN intents'
  PROVE  Resting'
<1>1. /\ Asked' = Asked
      /\ \A t \in Asked : posts'[t] = posts[t] /\ Why(t)' = Why(t) /\ (Latest(t)' <=> Latest(t))
  BY AskedKept DEF Resting
<1>2. HandlerRests(p, k)'
  <2>1. FreshOK(p, k)'
    BY DEF FreshOK, Asks
  <2>2. UnaskedOK(p, k)'
    BY DEF UnaskedOK, Asks
  <2>3. HasAsked(p, k) => \A t \in Asked : Latest(t) => Why(t) = k.print
    BY DEF Resting
  <2>4. HasAsked(p, k)' => \A t \in Asked' : Latest(t)' => Why(t)' = k.print
    BY <1>1, <2>3 DEF HasAsked
  <2> QED
    BY <2>1, <2>2, <2>4 DEF HandlerRests
<1>3. LatestOK'
  <2> SUFFICES ASSUME NEW t \in Asked, Latest(t)
               PROVE  \/ \E g \in Handlers : HasAsked(at'[g], job'[g])
                      \/ /\ reviewed'.status = "told" /\ reviewed'.print = Why(t)
                         /\ posts[t].day <= reviewed'.day
    BY <1>1 DEF LatestOK, HasAsked
  <2>1. CASE \E g \in Handlers : HasAsked(at[g], job[g])
    <3>1. PICK g \in Handlers : HasAsked(at[g], job[g])
      BY <2>1
    <3>2. g = h
      BY <3>1 DEF HasAsked, Single
    <3>3. HasAsked(p, k) /\ at'[h] = p /\ job'[h] = k
      BY <3>1, <3>2 DEF Go, HandlersOK
    <3> QED
      BY <3>3
  <2> QED
    BY <2>1 DEF Resting, LatestOK
<1>4. Ordered' /\ ReviewRests'
  BY PastKept DEF Resting
<1> QED
  BY <1>2, <1>3, <1>4, ReviewerGoes

LEMMA ReviewerHas ==
  ASSUME HandlersOK, NEW h \in Handlers, NEW i, i = job[h], i.task \in ReviewTasks,
         at[h] \in Sending
  PROVE  /\ i.then \in {"save root", "ask", "rest"}
         /\ i.then = "save root" => i.notice = RootNotice
         /\ i.then = "ask" => i.notice = <<"overview">>
         /\ i.then = "rest" => i.notice = <<"review", i.stamp>> /\ i.payload.what = i.print
                               /\ i.stamp \in 1..stamps
<1>1. PlaceOK(at[h], i) /\ ReviewJob(at[h], i)
  BY HasJob
<1>2. at[h] # "request"
  BY DEF Sending
<1> QED
  BY <1>1, <1>2 DEF PlaceOK, ReviewJob

LEMMA ReviewNoticeIs ==
  ASSUME NEW s \in Nat
  PROVE  <<"review", s>> # None /\ <<"review", s>>[1] = "review"
<1>1. <<"review", s>> \in {"review"} \X Nat
  OBVIOUS
<1> QED
  BY <1>1, NoticesAssumption

LEMMA ConcludedRests ==
  ASSUME DataOK, HandlersOK, Grown, Resting, mishaps = 0, ~disturbed, NoneAsked,
         UNCHANGED <<reviewed, day>>, DOMAIN intents' = DOMAIN intents,
         NEW h \in Handlers, Single(h), NEW i, i = job[h], at[h] \in Sending,
         i.task \in ReviewTasks, ~(i.to = None /\ i.then = "rest"),
         NEW p, NEW k, Go(h, p, k), Concluded(p, k, i)
  PROVE  Resting'
<1>1. /\ i.then \in {"save root", "ask", "rest"}
      /\ i.then = "rest" => i.notice = <<"review", i.stamp>> /\ i.stamp \in 1..stamps
  BY ReviewerHas
<1>2. i.then = "rest" => i.notice # None
  BY <1>1, ReviewNoticeIs DEF DataOK
<1>3. PICK q : q = at[h]
  OBVIOUS
<1>4. FreshOK(q, i) /\ UnaskedOK(q, i)
  BY <1>3 DEF Resting
<1>5. CASE p = "idle" /\ k = NoJob /\ i.to = None
  <2>1. ~HasAsked(q, i) /\ i.then # "rest"
    BY <1>3, <1>5 DEF HasAsked, Sending
  <2>2. k.task \notin ReviewTasks
    BY <1>5, NoJobFields DEF ReviewTasks
  <2>3. ~HasAsked(p, k) /\ ~Asks(p, k)
    BY <2>2 DEF HasAsked, Asks
  <2>4. FreshOK(p, k)
    BY <2>3 DEF FreshOK
  <2> QED
    BY <1>3, <2>1, <2>2, <2>3, <2>4, ReviewerRests
<1>6. CASE GoesOn(p, k, i)
  <2>1. /\ k.task = i.task /\ k.print = i.print /\ k.stamp = i.stamp /\ k.notice = i.notice
        /\ k.then = i.then
        /\ (p = "deliver" /\ k.to # None) \/ (p = i.then /\ k.to = None)
    BY <1>6 DEF GoesOn, SameRun, SameNotice
  <2>2. CASE i.then = "rest"
    <3>1. HasAsked(q, i) /\ HasAsked(p, k) /\ ~Asks(p, k) /\ p # "compare"
      BY <1>2, <1>3, <2>1, <2>2 DEF HasAsked, Asks, Sending
    <3>2. FreshOK(p, k)
      BY <3>1 DEF FreshOK
    <3> QED
      BY <1>3, <2>1, <3>1, <3>2, ReviewerRests
  <2>3. CASE i.then # "rest"
    <3>1. ~HasAsked(q, i) /\ ~HasAsked(p, k) /\ Asks(q, i)
      BY <1>1, <1>3, <2>1, <2>3 DEF HasAsked, Asks, Sending
    <3>2. FreshOK(p, k)
      BY <1>4, <2>1, <3>1 DEF FreshOK
    <3>3. <<"review", k.stamp>> \notin DOMAIN intents'
      BY <1>4, <2>1, <2>3, <3>1 DEF UnaskedOK
    <3> QED
      BY <1>3, <3>1, <3>2, <3>3, ReviewerRests
  <2> QED
    BY <2>2, <2>3
<1> QED
  BY <1>5, <1>6 DEF Concluded

LEMMA DeliverRests ==
  ASSUME DataOK, HandlersOK, Resting, mishaps = 0, ~disturbed, UNCHANGED <<stamps, reviewed, day>>,
         NEW h \in Handlers, Single(h), NEW i, i = job[h], Deliver(h), i.task \in ReviewTasks
  PROVE  Resting'
<1>1. at[h] = "deliver" /\ at[h] \in Sending
  BY DEF Deliver, Sending
<1>2. /\ i.then \in {"save root", "ask", "rest"}
      /\ i.then = "save root" => i.notice = RootNotice
      /\ i.then = "ask" => i.notice = <<"overview">>
      /\ i.then = "rest" => i.notice = <<"review", i.stamp>>
  BY <1>1, ReviewerHas
<1>3. PICK q : q = at[h]
  OBVIOUS
<1>4. FreshOK(q, i) /\ UnaskedOK(q, i)
  BY <1>3 DEF Resting
<1>5. CASE IntentOf(i) \notin DOMAIN intents
  <2>1. /\ Grown /\ Go(h, "wait", i) /\ UNCHANGED posts
        /\ DOMAIN intents' = DOMAIN intents \cup {IntentOf(i)}
    BY <1>5, DeliverCreates DEF Safe
  <2>2. NoneAsked
    BY <2>1 DEF NoneAsked
  <2>3. HasAsked(q, i) <=> HasAsked("wait", i)
    BY <1>1, <1>3 DEF HasAsked, Sending
  <2>4. Asks(q, i) <=> Asks("wait", i)
    BY <1>1, <1>3 DEF Asks, Sending
  <2>5. FreshOK("wait", i)
    BY <1>4, <2>4 DEF FreshOK
  <2>6. ASSUME i.then # "rest"
        PROVE  <<"review", i.stamp>> \notin DOMAIN intents'
    <3>1. <<"review", i.stamp>> \notin DOMAIN intents
      BY <1>1, <1>3, <1>4, <2>6 DEF UnaskedOK, Asks, Sending
    <3>2. PICK n : n = IntentOf(i)
      OBVIOUS
    <3>3. n = <<"root">> \/ n = <<"overview">> \/ n = <<"dm", i.notice, i.to>>
      BY <1>2, <2>6, <3>2 DEF IntentOf, RootNotice, Direct
    <3>4. n # <<"review", i.stamp>>
      BY <3>3
    <3> QED
      BY <2>1, <3>1, <3>2, <3>4
  <2>7. (Asks("wait", i) \/ (i.task \in ReviewTasks /\ "wait" = "compare"))
          /\ ~("wait" = "wait" /\ i.then = "rest") => <<"review", i.stamp>> \notin DOMAIN intents'
    BY <2>6
  <2>8. PICK p : p = "wait"
    OBVIOUS
  <2> QED
    BY <1>3, <2>1, <2>2, <2>3, <2>5, <2>7, <2>8, ReviewerRests
<1>6. CASE IntentOf(i) \in DOMAIN intents
  <2>1. Grown /\ Concludes(h) /\ UNCHANGED <<intents, posts>>
    BY <1>6, DeliverSeen DEF Safe
  <2>2. PICK p, k : Go(h, p, k) /\ Concluded(p, k, i)
    BY <2>1 DEF Concludes
  <2>3. NoneAsked
    BY <2>1 DEF NoneAsked
  <2>4. ~(i.to = None /\ i.then = "rest")
    <3> SUFFICES ASSUME i.to = None, i.then = "rest"
                 PROVE  FALSE
      OBVIOUS
    <3>1. Asks(q, i) /\ q # "wait"
      BY <1>1, <1>3 DEF Asks
    <3>2. <<"review", i.stamp>> \notin DOMAIN intents
      BY <1>4, <3>1 DEF UnaskedOK
    <3> QED
      BY <1>2, <1>6, <3>2 DEF IntentOf
  <2> QED
    BY <1>1, <2>1, <2>2, <2>3, <2>4, ConcludedRests
<1> QED
  BY <1>5, <1>6

LEMMA LastIs ==
  ASSUME NEW S, NEW m \in S, S \subseteq Nat, \A s \in S : s <= m
  PROVE  Max(S) \in S /\ \A s \in S : s <= Max(S)
<1>1. \A s \in S : m >= s
  OBVIOUS
<1>2. Max(S) \in S /\ \A s \in S : Max(S) >= s
  BY <1>1 DEF Max
<1> QED
  BY <1>2

\* The message that asks is posted.
LEMMA PostedAsks ==
  ASSUME DataOK, HandlersOK, ReviewedOK, Resting, mishaps = 0, ~disturbed,
         UNCHANGED <<stamps, reviewed, day>>,
         NEW h \in Handlers, Single(h), NEW i, i = job[h], Posted(h), i.task \in ReviewTasks,
         i.to = None, i.then = "rest"
  PROVE  Resting'
<1>1. at[h] = "wait" /\ at[h] \in Sending
  BY DEF Posted, Sending
<1>2. /\ i.notice = <<"review", i.stamp>> /\ i.payload.what = i.print
      /\ i.stamp \in Nat
  <2>1. /\ i.notice = <<"review", i.stamp>> /\ i.payload.what = i.print
        /\ i.stamp \in 1..stamps
    BY <1>1, ReviewerHas
  <2>2. i.stamp \in Nat
    BY <2>1 DEF DataOK
  <2> QED
    BY <2>1, <2>2
<1>3. PICK n : n = i.notice
  OBVIOUS
<1>4. n[1] = "review" /\ n # None
  BY <1>2, <1>3, ReviewNoticeIs
<1>5. IntentOf(i) = n /\ n \in DOMAIN intents /\ intents[n].payload = i.payload
  BY <1>1, <1>3, WaiterHas
<1>6. PICK t1 : t1 = Len(posts) + 1
  OBVIOUS
<1>7. /\ Grown
      /\ \E p, k : Go(h, p, k) /\ GoesOn(p, k, i)
      /\ DOMAIN posts' = DOMAIN posts \cup {t1}
      /\ posts'[t1] = [notice |-> n, under |-> intents[n].payload.under, day |-> day]
      /\ DOMAIN intents' = DOMAIN intents
  BY <1>5, <1>6, PostedSafe DEF Safe
<1>8. PICK p, k : Go(h, p, k) /\ GoesOn(p, k, i)
  BY <1>7
<1>9. posts'[t1].notice = n /\ posts'[t1].day = day
  BY <1>7
<1>10. t1 \in Nat /\ Asked \subseteq Nat /\ \A s \in Asked : s < t1
  BY <1>6, PostsAre DEF DataOK, Asked
<1>11. Asked' = Asked \cup {t1}
  BY <1>4, <1>7, <1>9 DEF Asked, Grown
<1>12. \A t \in Asked' : Latest(t)' <=> t = t1
  <2>1. Latest(t1)'
    <3>1. t1 \in Asked' /\ \A s \in Asked' : s <= t1
      BY <1>10, <1>11
    <3> QED
      BY <3>1 DEF Latest
  <2>2. ASSUME NEW t \in Asked, \A s \in Asked' : s <= t
        PROVE  FALSE
    <3>1. t1 <= t /\ t < t1 /\ t \in Nat
      BY <1>10, <1>11, <2>2
    <3> QED
      BY <1>10, <3>1
  <2> QED
    BY <1>11, <2>1, <2>2 DEF Latest
<1>13. Why(t1)' = i.print
  <2>1. intents'[n].payload.what = i.print
    BY <1>2, <1>5, <1>7 DEF Grown
  <2> QED
    BY <1>9, <2>1 DEF Why
<1>14. \A t \in Asked : posts'[t] = posts[t] /\ Why(t)' = Why(t)
  BY <1>7, WhyKept DEF Asked
<1>15. /\ k.task = i.task /\ k.print = i.print /\ k.notice = n /\ k.then = "rest"
       /\ (p = "deliver" /\ k.to # None) \/ (p = "rest" /\ k.to = None)
  BY <1>3, <1>8 DEF GoesOn, SameRun, SameNotice
<1>16. HasAsked(p, k) /\ ~Asks(p, k) /\ p # "compare"
  BY <1>4, <1>15 DEF HasAsked, Asks, Sending
<1>17. HandlerRests(p, k)'
  <2>1. FreshOK(p, k)' /\ UnaskedOK(p, k)'
    BY <1>16 DEF FreshOK, UnaskedOK, Asks
  <2>2. \A t \in Asked' : Latest(t)' => Why(t)' = k.print
    BY <1>12, <1>13, <1>15
  <2> QED
    BY <2>1, <2>2 DEF HandlerRests
<1>18. LatestOK'
  <2>1. at'[h] = p /\ job'[h] = k
    BY <1>8 DEF Go, HandlersOK
  <2> QED
    BY <1>16, <2>1 DEF LatestOK, HasAsked
<1>19. \A t \in Asked : {s \in Asked' : s < t} = {s \in Asked : s < t}
  <2> SUFFICES ASSUME NEW t \in Asked
               PROVE  \A s \in Asked' : s < t => s \in Asked
    BY <1>11
  <2>1. t \in Nat /\ t < t1 /\ ~(t1 < t)
    BY <1>10
  <2> QED
    BY <1>11, <2>1
<1>20. {s \in Asked' : s < t1} = Asked
  <2>1. ~(t1 < t1)
    BY <1>10
  <2> QED
    BY <1>10, <1>11, <2>1
<1>21. Asked # {} => Max(Asked) \in Asked /\ Latest(Max(Asked))
  <2> SUFFICES ASSUME Asked # {}
               PROVE  Max(Asked) \in Asked /\ Latest(Max(Asked))
    OBVIOUS
  <2>1. PICK m \in Asked : Latest(m)
    BY DEF Resting, Ordered
  <2> QED
    BY <1>10, <2>1, LastIs DEF Latest
<1>22. Ordered'
  <2>1. \E t \in Asked' : Latest(t)'
    BY <1>11, <1>12
  <2>2. \A t \in Asked : {s \in Asked' : s < t} # {} =>
          Max({s \in Asked' : s < t}) \in {s \in Asked' : s < t}
    BY <1>19 DEF Resting, Ordered
  <2>3. {s \in Asked' : s < t1} # {} => Max({s \in Asked' : s < t1}) \in {s \in Asked' : s < t1}
    BY <1>20, <1>21
  <2>4. \A t \in Asked' : {s \in Asked' : s < t} # {} =>
          Max({s \in Asked' : s < t}) \in {s \in Asked' : s < t}
    BY <1>11, <2>2, <2>3
  <2> QED
    BY <2>1, <2>4 DEF Ordered
<1>23. ASSUME NEW m \in Asked, Latest(m), Why(m) = i.print
       PROVE  day - posts[m].day >= Reminder
  <2>1. ~HasAsked(at[h], i)
    BY <1>1 DEF HasAsked, Sending
  <2>2. \A g \in Handlers \ {h} : ~HasAsked(at[g], job[g])
    BY DEF Single, HasAsked
  <2>3. reviewed.status = "told" /\ reviewed.print = i.print /\ posts[m].day <= reviewed.day
    BY <1>23, <2>1, <2>2 DEF Resting, LatestOK
  <2>4. Asks(at[h], i)
    BY <1>1 DEF Asks
  <2>5. FreshOK(at[h], i)
    BY DEF Resting
  <2>6. day - reviewed.day >= Reminder
    BY <2>3, <2>4, <2>5 DEF FreshOK
  <2>7. posts[m].day \in Nat /\ reviewed.day \in Nat /\ Reminder \in Nat /\ day \in Nat
    BY PostsAre, NoticesAssumption DEF DataOK, Asked, ReviewedOK
  <2> QED
    BY <2>3, <2>6, <2>7
<1>24. ReviewRests'
  <2>1. ASSUME NEW t \in Asked, NEW S, S = {s \in Asked : s < t}, S # {}
        PROVE  Why(Max(S))' = Why(t)' => posts'[t].day - posts'[Max(S)].day >= Reminder
    BY <1>7, <2>1, ApartKept DEF Resting
  <2>2. ASSUME NEW S, S = Asked, S # {}
        PROVE  Why(Max(S))' = Why(t1)' => posts'[t1].day - posts'[Max(S)].day >= Reminder
    <3>1. PICK m : m = Max(S)
      OBVIOUS
    <3>2. m \in Asked /\ Latest(m)
      BY <1>21, <2>2, <3>1
    <3>3. Why(m) = i.print => posts'[t1].day - posts'[m].day >= Reminder
      BY <1>9, <1>14, <1>23, <3>2
    <3>4. Why(m)' = Why(t1)' => posts'[t1].day - posts'[m].day >= Reminder
      BY <1>13, <1>14, <3>2, <3>3
    <3> QED
      BY <3>1, <3>4 DEF Why
  <2>3. ASSUME NEW t \in Asked', NEW S, S = {s \in Asked' : s < t}, S # {}
        PROVE  Why(Max(S))' = Why(t)' => posts'[t].day - posts'[Max(S)].day >= Reminder
    <3>1. CASE t \in Asked
      BY <1>19, <2>1, <2>3, <3>1
    <3>2. CASE t = t1
      <4>1. Why(Max(S))' = Why(t1)' => posts'[t1].day - posts'[Max(S)].day >= Reminder
        BY <1>20, <2>2, <2>3, <3>2
      <4> QED
        BY <3>2, <4>1 DEF Why
    <3> QED
      BY <1>11, <3>1, <3>2
  <2> QED
    BY <2>3 DEF ReviewRests, Why
<1> QED
  BY <1>8, <1>17, <1>18, <1>22, <1>24, ReviewerGoes

LEMMA PostedRests ==
  ASSUME DataOK, HandlersOK, ReviewedOK, Resting, mishaps = 0, ~disturbed,
         UNCHANGED <<stamps, reviewed, day>>,
         NEW h \in Handlers, Single(h), NEW i, i = job[h], Posted(h), i.task \in ReviewTasks
  PROVE  Resting'
<1>1. at[h] = "wait" /\ at[h] \in Sending
  BY DEF Posted, Sending
<1>2. CASE ~(i.to = None /\ i.then = "rest")
  <2>1. /\ i.then \in {"save root", "ask", "rest"}
        /\ i.then = "save root" => i.notice = RootNotice
        /\ i.then = "ask" => i.notice = <<"overview">>
    BY <1>1, ReviewerHas
  <2>2. PICK n : n = IntentOf(i)
    OBVIOUS
  <2>3. n = <<"root">> \/ n = <<"overview">> \/ n = <<"dm", i.notice, i.to>>
    BY <1>2, <2>1, <2>2 DEF IntentOf, RootNotice, Direct
  <2>4. n[1] # "review"
    BY <2>3
  <2>5. /\ Grown
        /\ \E p, k : Go(h, p, k) /\ GoesOn(p, k, i)
        /\ DOMAIN posts' = DOMAIN posts \cup {Len(posts) + 1}
        /\ posts'[Len(posts) + 1] =
             [notice |-> n, under |-> intents[n].payload.under, day |-> day]
        /\ DOMAIN intents' = DOMAIN intents
    BY <2>2, PostedSafe DEF Safe
  <2>6. PICK p, k : Go(h, p, k) /\ Concluded(p, k, i)
    BY <2>5 DEF Concluded
  <2>7. posts'[Len(posts) + 1].notice = n
    BY <2>5
  <2>8. NoneAsked
    BY <2>4, <2>5, <2>7 DEF NoneAsked
  <2> QED
    BY <1>1, <1>2, <2>5, <2>6, <2>8, ConcludedRests
<1>3. CASE i.to = None /\ i.then = "rest"
  BY <1>3, PostedAsks
<1> QED
  BY <1>2, <1>3

\* The rest of the delivery: the root.
LEMMA RootRests ==
  ASSUME DataOK, HandlersOK, Resting, mishaps = 0, ~disturbed, UNCHANGED <<stamps, reviewed, day>>,
         NEW h \in Handlers, Single(h), NEW i, i = job[h], i.task \in ReviewTasks,
         HasRoot(h) \/ ClaimRoot(h) \/ RootInProgress(h) \/ SaveRoot(h) \/ SaveThread(h)
  PROVE  Resting'
<1>1. Grown
  BY DeliverySafe DEF Safe, DeliveryStep
<1>2. UNCHANGED <<intents, posts>>
  BY QuietSteps
<1>3. NoneAsked
  BY <1>2 DEF NoneAsked
<1>4. PICK q : q = at[h]
  OBVIOUS
<1>5. q \in {"ensure", "save root"}
  <2>1. PlaceOK(q, i)
    BY <1>4, HasJob
  <2> QED
    BY <1>4, <2>1 DEF HasRoot, ClaimRoot, RootInProgress, SaveRoot, SaveThread, PlaceOK, Sending,
                      ReviewTasks
<1>6. /\ Asks(q, i) /\ ~HasAsked(q, i) /\ FreshOK(q, i)
      /\ <<"review", i.stamp>> \notin DOMAIN intents
  <2>1. Asks(q, i) /\ ~HasAsked(q, i) /\ q # "wait"
    BY <1>5 DEF Asks, HasAsked, Sending
  <2>2. FreshOK(q, i) /\ UnaskedOK(q, i)
    BY <1>4 DEF Resting
  <2> QED
    BY <2>1, <2>2 DEF UnaskedOK
<1>7. ASSUME NEW p, NEW k, Go(h, p, k), k.task = i.task, k.print = i.print, k.stamp = i.stamp,
             p = "overview" \/ (p = "deliver" /\ k.to = None)
      PROVE  Resting'
  <2>1. ~HasAsked(p, k)
    BY <1>7 DEF HasAsked, Sending
  <2>2. FreshOK(p, k)
    BY <1>6, <1>7 DEF FreshOK
  <2> QED
    BY <1>1, <1>2, <1>3, <1>4, <1>6, <1>7, <2>1, <2>2, ReviewerRests
<1>8. CASE Rest(h)
  <2>1. PICK p, k : p = "idle" /\ k = NoJob
    OBVIOUS
  <2>2. Go(h, p, k) /\ k.task \notin ReviewTasks
    BY <1>8, <2>1, NoJobFields DEF Rest, ReviewTasks
  <2>3. ~HasAsked(p, k) /\ FreshOK(p, k) /\ ~Asks(p, k)
    BY <2>2 DEF HasAsked, FreshOK, Asks
  <2> QED
    BY <1>1, <1>2, <1>3, <1>4, <1>6, <2>2, <2>3, ReviewerRests
<1>9. CASE Goto(h, "overview")
  <2>1. PICK p : p = "overview"
    OBVIOUS
  <2>2. Go(h, p, i)
    BY <1>9, <2>1 DEF Goto
  <2> QED
    BY <1>7, <2>1, <2>2
<1>10. CASE ClaimRoot(h)
  <2>1. DOMAIN i = Fields /\ i.to = None
    BY <1>10, AtReview DEF ClaimRoot
  <2>2. PICK n, w, u, d, s : n = RootNotice /\ w = "root" /\ u = 0 /\ d = {} /\ s = "save root"
    OBVIOUS
  <2>3. Send(h, n, w, u, d, s)
    BY <1>10, <2>2 DEF ClaimRoot
  <2>4. PICK k, c : Go(h, "deliver", k) /\ k.to = i.to /\ SameRun(k, i)
    BY <2>1, <2>3, SendFields
  <2>5. PICK p : p = "deliver"
    OBVIOUS
  <2> QED
    BY <1>7, <2>1, <2>4, <2>5 DEF SameRun
<1>11. CASE SaveThread(h)
  BY <1>4, <1>5, <1>11 DEF SaveThread
<1> QED
  BY <1>8, <1>9, <1>10, <1>11 DEF HasRoot, RootInProgress, SaveRoot

LEMMA ExamineRests ==
  ASSUME DataOK, HandlersOK, Resting, mishaps = 0, ~disturbed,
         NEW h \in Handlers, Single(h), NEW t \in ReviewTasks, NEW a, Examine(h, t, a), UNCHANGED day
  PROVE  Resting'
<1>1. UNCHANGED <<stamps, reviewed>>
  BY DEF Examine, review
<1>2. Grown /\ UNCHANGED <<intents, posts>> /\ \E k : Go(h, "request", k) /\ k.task = t
  BY <1>1, ExamineSafe DEF Safe
<1>3. PICK p, k : p = "request" /\ Go(h, p, k) /\ k.task = t
  BY <1>2
<1>4. PICK i : i = job[h]
  OBVIOUS
<1>5. ~HasAsked(at[h], i)
  BY DEF Examine, HasAsked, Sending
<1>6. ~HasAsked(p, k) /\ ~Asks(p, k) /\ FreshOK(p, k) /\ p # "compare"
  BY <1>3 DEF HasAsked, Asks, FreshOK, Sending
<1>7. NoneAsked
  BY <1>2 DEF NoneAsked
<1> QED
  BY <1>1, <1>2, <1>3, <1>4, <1>5, <1>6, <1>7, ReviewerRests

LEMMA RequestRests ==
  ASSUME DataOK, HandlersOK, Resting, mishaps = 0, ~disturbed,
         NEW h \in Handlers, Single(h), Request(h), UNCHANGED day
  PROVE  Resting'
<1>1. UNCHANGED reviewed /\ at[h] = "request"
  BY DEF Request
<1>2. /\ Grown /\ UNCHANGED <<intents, posts>>
      /\ \E k : Go(h, "compare", k) /\ k.stamp = stamps + 1
  BY RequestSafe DEF Safe
<1>3. PICK p, k : p = "compare" /\ Go(h, p, k) /\ k.stamp = stamps + 1
  BY <1>2
<1>4. PICK i : i = job[h]
  OBVIOUS
<1>5. ~HasAsked(at[h], i)
  BY <1>1 DEF HasAsked, Sending
<1>6. ~HasAsked(p, k) /\ FreshOK(p, k)
  BY <1>3 DEF HasAsked, Asks, FreshOK, Sending
<1>7. <<"review", k.stamp>> \notin DOMAIN intents'
  <2>1. PICK n : n = <<"review", k.stamp>>
    OBVIOUS
  <2>2. n[1] = "review" /\ n[2] = k.stamp
    BY <2>1
  <2>3. n \in DOMAIN intents => Named(n, intents[n].payload)
    BY DEF DataOK, IntentOK
  <2>4. n \in DOMAIN intents => k.stamp \in 1..stamps
    BY <2>2, <2>3 DEF Named
  <2>5. k.stamp \notin 1..stamps
    BY <1>3 DEF DataOK
  <2> QED
    BY <1>2, <2>1, <2>4, <2>5
<1>8. NoneAsked
  BY <1>2 DEF NoneAsked
<1> QED
  BY <1>1, <1>2, <1>3, <1>4, <1>5, <1>6, <1>7, <1>8, ReviewerRests

LEMMA CompareRests ==
  ASSUME DataOK, HandlersOK, Resting, mishaps = 0, ~disturbed,
         NEW h \in Handlers, Single(h), Compare(h), UNCHANGED day
  PROVE  Resting'
<1>1. at[h] = "compare" /\ UNCHANGED <<stamps, reviewed>>
  BY DEF Compare, review
<1>2. Grown /\ UNCHANGED <<intents, posts>>
  BY CompareSafe DEF Safe
<1>3. PICK i, p : i = job[h] /\ p = IF ~ShouldNotify(h) THEN "record"
                                    ELSE IF pr.placed THEN "ensure" ELSE "rest"
  OBVIOUS
<1>4. Go(h, p, i)
  BY <1>3 DEF Compare, Goto
<1>5. i.task \in ReviewTasks /\ i.notice = None
  <2>1. i.task \in ReviewTasks /\ ReviewJob(at[h], i)
    BY <1>1, <1>3, AtReview
  <2> QED
    BY <1>1, <2>1 DEF ReviewJob
<1>6. ~HasAsked(at[h], i) /\ ~HasAsked(p, i)
  BY <1>1, <1>3, <1>5 DEF HasAsked, Sending
<1>7. FreshOK(p, i)
  BY <1>3 DEF FreshOK, Asks, ShouldNotify, Sending
<1>8. <<"review", i.stamp>> \notin DOMAIN intents'
  <2>1. UnaskedOK(at[h], i)
    BY <1>3 DEF Resting
  <2> QED
    BY <1>1, <1>2, <1>5, <2>1 DEF UnaskedOK
<1>9. NoneAsked
  BY <1>2 DEF NoneAsked
<1> QED
  BY <1>1, <1>2, <1>3, <1>4, <1>6, <1>7, <1>8, <1>9, ReviewerRests

LEMMA OverviewRests ==
  ASSUME DataOK, HandlersOK, Resting, mishaps = 0, ~disturbed,
         NEW h \in Handlers, Single(h), Overview(h) \/ Ask(h), UNCHANGED day
  PROVE  Resting'
<1>1. at[h] \in {"overview", "ask"} /\ UNCHANGED <<stamps, reviewed>>
  BY DEF Overview, Ask, review
<1>2. PICK i, p : i = job[h] /\ p = "deliver"
  OBVIOUS
<1>3. /\ Grown /\ UNCHANGED <<intents, posts>>
      /\ \E k : Go(h, p, k) /\ SameRun(k, i) /\ k.to = None
  BY <1>2, OverviewSafe DEF Safe
<1>4. PICK k : Go(h, p, k) /\ SameRun(k, i) /\ k.to = None
  BY <1>3
<1>5. i.task \in ReviewTasks
  BY <1>1, <1>2, AtReview
<1>6. Asks(at[h], i) /\ ~HasAsked(at[h], i) /\ ~HasAsked(p, k) /\ at[h] # "wait"
  BY <1>1, <1>2, <1>4, <1>5 DEF Asks, HasAsked, Sending
<1>7. FreshOK(at[h], i) /\ UnaskedOK(at[h], i)
  BY <1>2 DEF Resting
<1>8. FreshOK(p, k)
  BY <1>4, <1>6, <1>7 DEF FreshOK, SameRun
<1>9. <<"review", k.stamp>> \notin DOMAIN intents'
  BY <1>3, <1>4, <1>6, <1>7 DEF UnaskedOK, SameRun
<1>10. NoneAsked
  BY <1>3 DEF NoneAsked
<1> QED
  BY <1>1, <1>2, <1>3, <1>4, <1>6, <1>8, <1>9, <1>10, ReviewerRests

LEMMA RecordRests ==
  ASSUME DataOK, HandlersOK, Resting, mishaps = 0, ~disturbed,
         NEW h \in Handlers, Single(h), RecordModel(h), UNCHANGED day
  PROVE  Resting'
<1>1. at[h] = "record" /\ UNCHANGED <<stamps, reviewed>>
  BY DEF RecordModel
<1>2. Grown /\ UNCHANGED <<intents, posts>> /\ Go(h, "idle", NoJob)
  BY RecordModelSafe DEF Safe
<1>3. PICK i, p, k : i = job[h] /\ p = "idle" /\ k = NoJob
  OBVIOUS
<1>4. ~HasAsked(at[h], i)
  BY <1>1 DEF HasAsked, Sending
<1>5. k.task \notin ReviewTasks
  BY <1>3, NoJobFields DEF ReviewTasks
<1>6. ~HasAsked(p, k) /\ ~Asks(p, k) /\ FreshOK(p, k)
  BY <1>5 DEF HasAsked, Asks, FreshOK
<1>7. NoneAsked
  BY <1>2 DEF NoneAsked
<1> QED
  BY <1>1, <1>2, <1>3, <1>4, <1>5, <1>6, <1>7, ReviewerRests

\* What is remembered is the last message, or there was none.
LEMMA RememberRests ==
  ASSUME DataOK, HandlersOK, Resting, mishaps = 0, ~disturbed,
         NEW h \in Handlers, Single(h), RememberReview(h), Asked # {} => ~Untold(h), UNCHANGED day
  PROVE  Resting'
<1>1. at[h] = "rest"
  BY DEF RememberReview
<1>2. PICK i, p : i = job[h] /\ p = "record"
  OBVIOUS
<1>3. Grown /\ UNCHANGED <<intents, posts>> /\ Go(h, p, i)
  BY <1>2, RememberReviewSafe DEF Safe
<1>4. NoneAsked
  BY <1>3 DEF NoneAsked
<1>5. reviewed'.status = "told" /\ reviewed'.print = i.print /\ reviewed'.day = day
  BY <1>2 DEF RememberReview
<1>6. ~HasAsked(p, i) /\ ~Asks(p, i) /\ p # "compare"
  BY <1>2 DEF HasAsked, Asks, Sending
<1>7. HandlerRests(p, i)'
  BY <1>6 DEF HandlerRests, FreshOK, UnaskedOK, HasAsked, Asks
<1>8. /\ Asked' = Asked
      /\ \A t \in Asked : posts'[t] = posts[t] /\ Why(t)' = Why(t) /\ (Latest(t)' <=> Latest(t))
  BY <1>3, <1>4, AskedKept
<1>9. LatestOK'
  <2> SUFFICES ASSUME NEW t \in Asked, Latest(t)
               PROVE  Why(t) = i.print /\ posts[t].day <= day
    BY <1>5, <1>8 DEF LatestOK
  <2>1. i.notice # None
    BY <1>1, <1>2 DEF Untold
  <2>2. HasAsked(at[h], i)
    <3>1. i.task \in ReviewTasks
      BY <1>1, <1>2, AtReview
    <3> QED
      BY <1>1, <2>1, <3>1 DEF HasAsked
  <2>3. Why(t) = i.print
    BY <1>2, <2>2 DEF Resting
  <2>4. posts[t].day <= day
    BY DEF DataOK, PostsOK, Asked
  <2> QED
    BY <2>3, <2>4
<1>10. Ordered' /\ ReviewRests'
  BY <1>3, <1>4, PastKept DEF Resting
<1> QED
  BY <1>3, <1>7, <1>9, <1>10, ReviewerGoes

-----------------------------------------------------------------------------
(* The rest between two requests for review, step by step. *)

\* Who does not review sends no request for one.
LEMMA OtherIntent ==
  ASSUME DataOK, HandlersOK, NEW h \in Handlers, at[h] \in Sending, NEW i, i = job[h],
         i.task \notin ReviewTasks
  PROVE  IntentOf(i)[1] # "review"
<1>1. i.task \in ItemTasks => i.notice[1] = i.task
  <2> SUFFICES ASSUME i.task \in ItemTasks
               PROVE  i.notice[1] = i.task
    OBVIOUS
  <2>1. PICK m, n : m = Head(i.rest) /\ n = Wanted(i, m)
    OBVIOUS
  <2>2. n # None /\ i.notice = n
    BY <2>1, HasJob DEF ItemJob, Sending
  <2> QED
    BY <2>1, <2>2, WantedIs
<1>2. i.task = "none" => i.notice[1] = "digest"
  BY HasJob
<1>3. i.notice[1] \in {"state", "deadline", "digest"}
  BY <1>1, <1>2, HasJob DEF ItemTasks
<1>4. Direct(i.notice, i.to)[1] = "dm"
  BY DEF Direct
<1> QED
  BY <1>3, <1>4 DEF IntentOf

LEMMA OtherDelivers ==
  ASSUME DataOK, HandlersOK, NEW h \in Handlers, DeliveryStep(h), UNCHANGED <<stamps, day>>,
         job[h].task \notin ReviewTasks
  PROVE  /\ NoneAsked
         /\ \A n \in DOMAIN intents' : n \in DOMAIN intents \/ n[1] # "review"
         /\ \E p, k : Go(h, p, k) /\ k.task \notin ReviewTasks
<1>1. PICK i : i = job[h]
  OBVIOUS
<1>2. NoJob.task \notin ReviewTasks
  BY NoJobFields DEF ReviewTasks
<1>3. ASSUME NEW p, NEW k, Concluded(p, k, i)
      PROVE  k.task \notin ReviewTasks
  BY <1>1, <1>2, <1>3 DEF Concluded, GoesOn, SameRun
<1>4. CASE Deliver(h)
  <2>1. at[h] \in Sending
    BY <1>4 DEF Deliver, Sending
  <2>2. CASE IntentOf(i) \notin DOMAIN intents
    <3>1. /\ Go(h, "wait", i) /\ UNCHANGED posts
          /\ DOMAIN intents' = DOMAIN intents \cup {IntentOf(i)}
      BY <1>1, <1>4, <2>2, DeliverCreates
    <3>2. IntentOf(i)[1] # "review"
      BY <1>1, <2>1, OtherIntent
    <3> QED
      BY <1>1, <3>1, <3>2 DEF NoneAsked
  <2>3. CASE IntentOf(i) \in DOMAIN intents
    <3>1. Concludes(h) /\ UNCHANGED <<intents, posts>>
      BY <1>1, <1>4, <2>3, DeliverSeen
    <3>2. \E p, k : Go(h, p, k) /\ k.task \notin ReviewTasks
      BY <1>1, <1>3, <3>1 DEF Concludes
    <3> QED
      BY <3>1, <3>2 DEF NoneAsked
  <2> QED
    BY <2>2, <2>3
<1>5. CASE Posted(h)
  <2>1. at[h] \in Sending
    BY <1>5 DEF Posted, Sending
  <2>2. PICK n : n = IntentOf(i)
    OBVIOUS
  <2>3. /\ \E p, k : Go(h, p, k) /\ GoesOn(p, k, i)
        /\ DOMAIN posts' = DOMAIN posts \cup {Len(posts) + 1}
        /\ posts'[Len(posts) + 1] =
             [notice |-> n, under |-> intents[n].payload.under, day |-> day]
        /\ DOMAIN intents' = DOMAIN intents
    BY <1>1, <1>5, <2>2, PostedSafe
  <2>4. n[1] # "review" /\ posts'[Len(posts) + 1].notice = n
    BY <1>1, <2>1, <2>2, <2>3, OtherIntent
  <2>5. NoneAsked
    BY <2>3, <2>4 DEF NoneAsked
  <2>6. \E p, k : Go(h, p, k) /\ k.task \notin ReviewTasks
    BY <1>3, <2>3 DEF Concluded
  <2> QED
    BY <2>3, <2>5, <2>6
<1>6. CASE HasRoot(h) \/ ClaimRoot(h) \/ RootInProgress(h) \/ SaveRoot(h)
  <2>1. PlaceOK(at[h], job[h]) /\ job[h].task \in ItemTasks \cup ReviewTasks \cup {"none"}
    BY HasJob
  <2>2. at[h] \in {"ensure", "save root"}
    BY <1>6 DEF HasRoot, ClaimRoot, RootInProgress, SaveRoot
  <2> QED
    BY <2>1, <2>2 DEF PlaceOK, Sending
<1>7. CASE SaveThread(h)
  <2>1. Go(h, "remember", i) /\ UNCHANGED <<intents, posts>>
    BY <1>1, <1>7 DEF SaveThread, Goto
  <2> QED
    BY <1>1, <2>1 DEF NoneAsked
<1> QED
  BY <1>4, <1>5, <1>6, <1>7 DEF DeliveryStep

LEMMA WorksNotReviewing ==
  ASSUME HandlersOK, NEW h \in Handlers, WorkAction(h)
  PROVE  job[h].task \notin ReviewTasks
<1>1. PlaceOK(at[h], job[h])
  BY HasJob
<1>2. at[h] \in {"item", "thread", "remember", "digested", "idle"}
  BY DEF WorkAction, WorkStep, Consider, ReadThread, Remember, Digested, Digest, Begin
<1> QED
  BY <1>1, <1>2 DEF PlaceOK, Sending

LEMMA ReviewsReviewing ==
  ASSUME HandlersOK, NEW h \in Handlers, ReviewStep(h)
  PROVE  job[h].task \in ReviewTasks
<1>1. PICK j : j = job[h]
  OBVIOUS
<1>2. at[h] \in {"request", "compare", "overview", "ask", "rest", "record"}
  BY DEF ReviewStep, Request, Compare, Overview, Ask, RememberReview, RecordModel
<1> QED
  BY <1>1, <1>2, AtReview

LEMMA ReviewActionRests ==
  ASSUME DataOK, HandlersOK, Resting, mishaps = 0, ~disturbed, UNCHANGED day,
         NEW h \in Handlers, ReviewAction(h), Asked # {} => ~Untold(h),
         \A f, g \in Handlers : f # g => ~(Reviewing(f)' /\ Reviewing(g)')
  PROVE  Resting'
<1>1. CASE ReviewStep(h)
  <2>1. job[h].task \in ReviewTasks
    BY <1>1, ReviewsReviewing
  <2>2. Single(h)
    BY <2>1 DEF Single, Resting, Reviewing, ReviewTasks
  <2> QED
    BY <1>1, <2>2, RequestRests, CompareRests, OverviewRests, RecordRests, RememberRests
       DEF ReviewStep
<1>2. ASSUME NEW t \in ReviewTasks, NEW a, Examine(h, t, a)
      PROVE  Resting'
  <2>1. UNCHANGED stamps
    BY <1>2 DEF Examine, review
  <2>2. PICK k : Go(h, "request", k) /\ k.task = t
    BY <1>2, <2>1, ExamineSafe
  <2>3. job'[h].task \in ReviewTasks /\ \A g \in Handlers \ {h} : job'[g] = job[g]
    BY <2>2 DEF Go, HandlersOK
  <2>4. Single(h)
    BY <2>3 DEF Single, Reviewing, ReviewTasks
  <2> QED
    BY <1>2, <2>4, ExamineRests
<1> QED
  BY <1>1, <1>2 DEF ReviewAction

LEMMA RestsKept ==
  ASSUME DataOK, HandlersOK, ReviewedOK, ClearOK, RestsOK, mishaps \in Nat, disturbed \in BOOLEAN,
         Next
  PROVE  RestsOK'
<1> SUFFICES ASSUME mishaps' = 0, ~disturbed'
             PROVE  Resting'
  BY DEF RestsOK
<1>1. mishaps = 0
  BY MishapsGrow
<1>2. ~disturbed
  BY DEF Next, Record, Change, NextDay
<1>3. Resting
  BY <1>1, <1>2 DEF RestsOK
<1>4. Grown /\ day' \in Nat
  BY NextSafe DEF Safe, DataOK
<1>5. ASSUME NEW h \in Handlers, UNCHANGED <<day, course>>, Record,
             \/ (DeliveryStep(h) \/ DeliveryFault(h)) /\ UNCHANGED <<work, review>>
             \/ WorkAction(h) /\ UNCHANGED review
             \/ ReviewAction(h) /\ UNCHANGED work
      PROVE  Resting'
  <2>1. \A f, g \in Handlers : f # g => ~(Reviewing(f)' /\ Reviewing(g)')
    BY <1>5 DEF Record
  <2>2. Asked # {} => ~Untold(h)
    BY <1>5 DEF Record
  <2>3. ~DeliveryFault(h)
    BY <1>1, Mishaps
  <2>4. CASE ReviewAction(h)
    BY <1>1, <1>2, <1>3, <1>5, <2>1, <2>2, <2>4, ReviewActionRests
  <2>5. ASSUME UNCHANGED review, NEW p, NEW k, Go(h, p, k), k.task \notin ReviewTasks,
               job[h].task \notin ReviewTasks, NoneAsked,
               \A n \in DOMAIN intents' : n \in DOMAIN intents \/ n[1] # "review"
        PROVE  Resting'
    <3>1. \A g \in Handlers :
            \/ at'[g] = at[g] /\ job'[g] = job[g]
            \/ job[g].task \notin ReviewTasks /\ job'[g].task \notin ReviewTasks
      BY <2>5 DEF Go, HandlersOK
    <3>2. UNCHANGED reviewed /\ day <= day'
      BY <1>4, <1>5, <2>5 DEF review
    <3> QED
      BY <1>1, <1>2, <1>3, <1>4, <2>5, <3>1, <3>2, OthersRest
  <2>6. CASE WorkAction(h) /\ UNCHANGED review
    <3>1. UNCHANGED <<stamps, day>>
      BY <1>5, <2>6 DEF review
    <3>2. UNCHANGED <<intents, posts>> /\ \E p, k : Go(h, p, k) /\ k.task \notin ReviewTasks
      BY <2>6, <3>1, WorkActionSafe
    <3>3. NoneAsked /\ job[h].task \notin ReviewTasks
      BY <2>6, <3>2, WorksNotReviewing DEF NoneAsked
    <3> QED
      BY <2>5, <2>6, <3>2, <3>3
  <2>7. CASE DeliveryStep(h) /\ UNCHANGED <<work, review>>
    <3>1. UNCHANGED <<stamps, reviewed, day>>
      BY <1>5, <2>7 DEF review
    <3>2. CASE job[h].task \in ReviewTasks
      <4>1. Single(h)
        BY <1>3, <3>2 DEF Single, Resting, Reviewing, ReviewTasks
      <4>2. PICK i : i = job[h] /\ i.task \in ReviewTasks
        BY <3>2
      <4> QED
        BY <1>1, <1>2, <1>3, <2>7, <3>1, <4>1, <4>2, DeliverRests, PostedRests, RootRests
           DEF DeliveryStep
    <3>3. CASE job[h].task \notin ReviewTasks
      <4>1. UNCHANGED <<stamps, day>>
        BY <3>1
      <4> QED
        BY <2>5, <2>7, <3>3, <4>1, OtherDelivers
    <3> QED
      BY <3>2, <3>3
  <2> QED
    BY <1>5, <2>3, <2>4, <2>6, <2>7
<1>6. ASSUME UNCHANGED <<intents, posts, at, job, reviewed>>, day <= day'
      PROVE  Resting'
  <2>1. NoneAsked
    BY <1>6 DEF NoneAsked
  <2> QED
    BY <1>1, <1>2, <1>3, <1>4, <1>6, <2>1, OthersRest
<1>7. CASE Outside
  <2>1. ASSUME NEW n \in DOMAIN intents, Replay(n)
        PROVE  FALSE
    <3>1. intents[n].status # "sent"
      BY <2>1 DEF Replay
    <3>2. PICK h \in Handlers : at[h] = "wait" /\ IntentOf(job[h]) = n
      BY <1>1, <3>1 DEF ClearOK
    <3> QED
      BY <2>1, <3>2 DEF Replay, Intent, IntentOf
  <2>2. UNCHANGED <<intents, posts, at, job, reviewed>> /\ day <= day'
    BY <1>7, <2>1 DEF Outside, LeaseEnds, review, world, DataOK
  <2> QED
    BY <1>6, <2>2
<1>8. CASE Change \/ NextDay
  <2>1. UNCHANGED <<intents, posts, at, job, reviewed>>
    BY <1>8 DEF Change, NextDay, delivery, review
  <2>2. day <= day'
    BY <1>8 DEF Change, NextDay, DataOK
  <2> QED
    BY <1>6, <2>1, <2>2
<1> QED
  BY <1>5, <1>7, <1>8, NextKinds

-----------------------------------------------------------------------------
(* The invariant. *)

LEMMA LocatedKept ==
  ASSUME Located, HandlersOK, Next
  PROVE  Located'
<1>1. ASSUME NEW h \in Handlers, NEW p, NEW k, Go(h, p, k)
      PROVE  Located'
  BY <1>1 DEF Located, Go
<1>2. ASSUME UNCHANGED at
      PROVE  Located'
  BY <1>2 DEF Located
<1>3. ASSUME NEW h \in Handlers, Deliver(h) \/ Posted(h) \/ DeliveryFault(h)
      PROVE  \E p, k : Go(h, p, k)
  <2>1. ASSUME NEW j, Onward(h, j)
        PROVE  \E p, k : Go(h, p, k)
    BY <2>1 DEF Onward
  <2>2. ASSUME NEW ts, Accepted(h, ts)
        PROVE  \E p, k : Go(h, p, k)
    <3>1. PICK j : j = IF job[h].to = None THEN [job[h] EXCEPT !.ts = ts] ELSE job[h]
      OBVIOUS
    <3> QED
      BY <2>1, <2>2, <3>1 DEF Accepted
  <2>3. ASSUME Rejected(h)
        PROVE  \E p, k : Go(h, p, k)
    <3>1. PICK j : j = job[h]
      OBVIOUS
    <3> QED
      BY <2>1, <2>3, <3>1 DEF Rejected, Rest
  <2>4. CASE Deliver(h)
    <3>1. PICK ts : ts = intents[Intent(h)].ts
      OBVIOUS
    <3> QED
      BY <2>2, <2>3, <2>4, <3>1 DEF Deliver, Goto
  <2>5. CASE Posted(h)
    <3>1. PICK ts : ts = Len(posts) + 1
      OBVIOUS
    <3> QED
      BY <2>2, <2>5, <3>1 DEF Posted
  <2>6. CASE DeliveryFault(h)
    BY <2>3, <2>6 DEF DeliveryFault, Uncertain, Fails, Die, Rest
  <2> QED
    BY <1>3, <2>4, <2>5, <2>6
<1>4. CASE Outside \/ Change \/ NextDay
  BY <1>2, <1>4 DEF Outside, LeaseEnds, Replay, Change, NextDay, delivery
<1>5. ASSUME NEW h \in Handlers,
             DeliveryStep(h) \/ DeliveryFault(h) \/ WorkAction(h) \/ ReviewAction(h)
      PROVE  Located'
  <2>1. \E p, k : Go(h, p, k)
    BY <1>3, <1>5, QuietSteps DEF DeliveryStep
  <2> QED
    BY <1>1, <2>1
<1> QED
  BY <1>4, <1>5, NextKinds

LEMMA StepInvariant ==
  ASSUME IInv, Next
  PROVE  IInv'
<1>1. WorldOK /\ ThreadOK /\ (\A n \in DOMAIN intents : IntentOK(n)) /\ PostsOK /\ MemoryOK
      /\ ReviewedOK /\ HandlersOK /\ Located /\ ClearOK /\ RestsOK
  BY DEF IInv, StoreOK
<1>2. DataOK /\ mishaps \in Nat /\ disturbed \in BOOLEAN
  BY <1>1 DEF DataOK, WorldOK
<1>3. DataOK' /\ HandlersOK'
  BY <1>1, <1>2, NextSafe DEF Safe
<1>4. WorldOK' /\ MemoryOK' /\ ReviewedOK'
  BY <1>1, <1>2, WorldKept, MemoryKept, ReviewedKept
<1>5. Located' /\ ClearOK' /\ RestsOK'
  BY <1>1, <1>2, LocatedKept, ClearKept, RestsKept
<1> QED
  BY <1>3, <1>4, <1>5 DEF IInv, StoreOK, DataOK

LEMMA StutterInvariant ==
  ASSUME IInv, UNCHANGED vars
  PROVE  IInv'
<1>1. UNCHANGED <<thread, intents, posts, lost, at, job, mishaps, item, memory, pr, requested,
                  reviewed, recorded, stamps, day, course, left, last, disturbed>>
  BY DEF vars, delivery, work, review, world
<1>2. WorldOK'
  BY <1>1 DEF IInv, WorldOK
<1>3. DataOK /\ WorldOK /\ MemoryOK /\ ReviewedOK /\ HandlersOK /\ Located /\ ClearOK /\ RestsOK
  BY DEF IInv, StoreOK, DataOK, WorldOK
<1>4. day' \in Nat /\ day <= day' /\ stamps' \in Nat /\ stamps <= stamps' /\ lost \subseteq lost'
  BY <1>1, <1>3 DEF WorldOK
<1>5. UNCHANGED <<thread, intents, posts>>
  BY <1>1
<1>6. Grown /\ DataOK'
  BY <1>3, <1>4, <1>5, StandsStill
<1>7. HandlersOK'
  BY <1>1, <1>3, <1>6, HandlersStay DEF InChannel
<1>8. MemoryOK' /\ ReviewedOK'
  BY <1>1, <1>3, <1>4, <1>6, MemoryStays, ReviewedStays
<1>9. Located' /\ ClearOK'
  BY <1>1, <1>3 DEF Located, ClearOK, IntentOf, Direct
<1>10. RestsOK'
  <2> SUFFICES ASSUME mishaps' = 0, ~disturbed'
               PROVE  Resting'
    BY DEF RestsOK
  <2>1. Resting /\ mishaps = 0 /\ ~disturbed
    BY <1>1, <1>3 DEF RestsOK
  <2>2. NoneAsked
    BY <1>1 DEF NoneAsked
  <2> QED
    BY <1>1, <1>3, <1>4, <1>6, <2>1, <2>2, OthersRest
<1> QED
  BY <1>2, <1>6, <1>7, <1>8, <1>9, <1>10 DEF IInv, StoreOK, DataOK

\* With a root or without.
LEMMA InitData ==
  ASSUME NEW r, WithRoot(r), day \in Nat, stamps = 0
  PROVE  /\ DataOK
         /\ \A n \in DOMAIN intents : intents[n].status = "sent"
         /\ \A ts \in DOMAIN posts : posts[ts].notice = RootNotice
<1>1. CASE r
  <2>1. PICK c : c = [what |-> "root", under |-> 0, dms |-> {}]
    OBVIOUS
  <2>2. PICK x : x = [status |-> "sent", ts |-> 1, payload |-> c]
    OBVIOUS
  <2>3. PICK m : m = [notice |-> RootNotice, under |-> 0, day |-> 0]
    OBVIOUS
  <2>4. thread = Ready(1) /\ intents = [n \in {RootNotice} |-> x] /\ posts = <<m>>
    BY <1>1, <2>1, <2>2, <2>3 DEF WithRoot
  <2>5. DOMAIN posts = {1} /\ posts[1] = m /\ Len(posts) = 1
    BY <2>4
  <2>6. DOMAIN intents = {RootNotice} /\ intents[RootNotice] = x
    BY <2>4
  <2>7. ThreadOK
    <3>1. thread = [status |-> "ready", root |-> 1, owner |-> None, live |-> FALSE]
      BY <2>4 DEF Ready
    <3>2. posts[1].under = 0
      BY <2>3, <2>5
    <3> QED
      BY <2>5, <3>1, <3>2 DEF ThreadOK
  <2>8. IntentOK(RootNotice)
    <3>1. /\ DOMAIN x = {"status", "payload", "ts"} /\ x.status = "sent" /\ x.ts = 1
          /\ x.payload = c
      BY <2>2
    <3>2. PayloadOK(c)
      BY <2>1 DEF PayloadOK
    <3>3. RootNotice[1] = "root"
      BY DEF RootNotice
    <3>4. Named(RootNotice, c)
      BY <2>1, <3>3 DEF Named, ItemTasks
    <3>5. posts[1].notice = RootNotice
      BY <2>3, <2>5
    <3> QED
      BY <2>5, <2>6, <3>1, <3>2, <3>4, <3>5 DEF IntentOK
  <2>9. PostsOK
    <3>1. m \in Message
      BY <2>3, <2>6 DEF Message
    <3>2. posts \in Seq(Message)
      BY <2>4, <3>1
    <3>3. posts[1].under = intents[posts[1].notice].payload.under /\ posts[1].under < 1
          /\ posts[1].day <= day
      BY <2>1, <2>2, <2>3, <2>5, <2>6
    <3> QED
      BY <2>5, <3>2, <3>3 DEF PostsOK
  <2> QED
    BY <2>2, <2>3, <2>5, <2>6, <2>7, <2>8, <2>9 DEF DataOK
<1>2. CASE ~r
  <2>1. thread = NoThread /\ intents = <<>> /\ posts = <<>>
    BY <1>2 DEF WithRoot
  <2>2. DOMAIN intents = {} /\ DOMAIN posts = {} /\ posts \in Seq(Message)
    BY <2>1
  <2> QED
    BY <2>1, <2>2 DEF DataOK, ThreadOK, NoThread, PostsOK
<1> QED
  BY <1>1, <1>2

LEMMA InitInvariant ==
  ASSUME Init
  PROVE  IInv
<1>1. PICK s \in Scenarios :
        /\ WithRoot(s.rooted)
        /\ lost = {}
        /\ at = [h \in Handlers |-> "idle"]
        /\ job = [h \in Handlers |-> NoJob]
        /\ mishaps = 0
        /\ InitWork(Head(s.course).item)
        /\ InitReview(Head(s.course).pr)
        /\ course = Tail(s.course)
        /\ left = s.left
        /\ day = s.first
        /\ last = s.last
        /\ disturbed = FALSE
  BY DEF Init
<1>2. s.course \in Seq(Moment) \ {<<>>} /\ s.first \in Nat
  BY NoticesAssumption
<1>3. day \in Nat /\ stamps = 0 /\ requested = {} /\ recorded = FALSE /\ reviewed = NoReview
  BY <1>1, <1>2 DEF InitReview
<1>4. /\ DataOK
      /\ \A n \in DOMAIN intents : intents[n].status = "sent"
      /\ \A ts \in DOMAIN posts : posts[ts].notice = RootNotice
  BY <1>1, <1>3, InitData
<1>5. WorldOK
  <2>1. Head(s.course) \in Moment /\ Tail(s.course) \in Seq(Moment)
    BY <1>2
  <2>2. item \in [Items -> [state : States, target : Nat]]
    BY <1>1, <2>1 DEF InitWork, Moment
  <2> QED
    BY <1>1, <1>3, <2>1, <2>2 DEF WorldOK
<1>6. MemoryOK
  BY <1>1 DEF InitWork, MemoryOK, ItemTasks
<1>7. ReviewedOK
  BY <1>3 DEF ReviewedOK, NoReview
<1>8. \A h \in Handlers : at[h] = "idle" /\ job[h] = NoJob
  BY <1>1
<1>9. HandlersOK
  <2>1. \A h \in Handlers : JobOK(at[h], job[h]) /\ WaitOK(at[h], job[h])
    BY <1>8, Idles
  <2>2. WaitersDiffer
    BY <1>8 DEF WaitersDiffer
  <2> QED
    BY <1>1, <2>1, <2>2 DEF HandlersOK
<1>10. Located
  BY <1>1 DEF Located
<1>11. ClearOK
  BY <1>4 DEF ClearOK
<1>12. Resting
  <2>1. Asked = {}
    BY <1>4 DEF Asked, RootNotice
  <2>2. NoJob.task \notin ReviewTasks
    BY NoJobFields DEF ReviewTasks
  <2>3. \A h \in Handlers : ~Reviewing(h)
    BY <1>8, <2>2 DEF Reviewing, ReviewTasks
  <2>4. ASSUME NEW h \in Handlers
        PROVE  FreshOK(at[h], job[h]) /\ UnaskedOK(at[h], job[h]) /\ ~HasAsked(at[h], job[h])
    BY <1>8, <2>2 DEF FreshOK, UnaskedOK, Asks, HasAsked
  <2>5. LatestOK /\ Ordered /\ ReviewRests
    BY <2>1 DEF LatestOK, Ordered, ReviewRests
  <2> QED
    BY <2>3, <2>4, <2>5 DEF Resting
<1> QED
  BY <1>4, <1>5, <1>6, <1>7, <1>9, <1>10, <1>11, <1>12 DEF IInv, StoreOK, DataOK, RestsOK

\* The inductive invariant holds in every state the handlers reach.
THEOREM Invariance == Spec => []IInv
<1>1. Init => IInv
  BY InitInvariant
<1>2. IInv /\ [Next]_vars => IInv'
  BY StepInvariant, StutterInvariant
<1> QED
  BY <1>1, <1>2, PTL DEF Spec

-----------------------------------------------------------------------------
(* What follows from it. *)

LEMMA Typed ==
  ASSUME IInv
  PROVE  TypeOK
<1>1. WorldOK /\ ThreadOK /\ (\A n \in DOMAIN intents : IntentOK(n)) /\ PostsOK /\ MemoryOK
      /\ ReviewedOK /\ HandlersOK /\ Located
  BY DEF IInv, StoreOK
<1>2. Len(posts) \in Nat /\ DOMAIN posts = 1..Len(posts)
  BY <1>1, PostsAre
<1>3. DeliveryOK
  <2>1. /\ thread.status \in {"none", "creating", "ready"}
        /\ thread.root \in 0..Len(posts)
        /\ thread.owner \in Handlers \cup {None} /\ thread.live \in BOOLEAN
    <3>1. /\ thread.status \in {"none", "creating", "ready"}
          /\ thread.owner \in Handlers \cup {None} /\ thread.live \in BOOLEAN
      BY <1>1 DEF ThreadOK
    <3>2. thread.root \in Nat /\ (thread.root # 0 => thread.root \in 1..Len(posts))
      BY <1>1, <1>2 DEF ThreadOK
    <3>3. thread.root \in 0..Len(posts)
      BY <1>2, <3>2
    <3> QED
      BY <3>1, <3>3
  <2>2. \A n \in DOMAIN intents : /\ intents[n].status \in {"sending", "sent", "stuck"}
                                  /\ intents[n].ts \in 0..Len(posts)
    BY <1>1 DEF IntentOK
  <2>3. ASSUME NEW ts \in DOMAIN posts
        PROVE  posts[ts].notice \in DOMAIN intents /\ posts[ts].under \in 0..(ts - 1)
    <3>1. posts[ts].notice \in DOMAIN intents /\ posts[ts].under \in Nat /\ posts[ts].under < ts
      BY <1>1, PostsAre DEF PostsOK
    <3> QED
      BY <1>2, <3>1
  <2> QED
    BY <1>1, <2>1, <2>2, <2>3 DEF DeliveryOK, HandlersOK, WorldOK
<1>4. WorkOK
  BY <1>1 DEF WorkOK, WorldOK, MemoryOK, ItemTasks
<1>5. ReviewOK
  BY <1>1 DEF ReviewOK, WorldOK, ReviewedOK
<1>6. at \in [Handlers -> DeliveryPlaces \cup WorkPlaces \cup ReviewPlaces]
  <2>1. \A h \in Handlers : at[h] \in DeliveryPlaces \cup WorkPlaces \cup ReviewPlaces
    <3> SUFFICES ASSUME NEW h \in Handlers
                 PROVE  at[h] \in DeliveryPlaces \cup WorkPlaces \cup ReviewPlaces
      OBVIOUS
    <3>1. PlaceOK(at[h], job[h]) /\ job[h].task \in ItemTasks \cup ReviewTasks \cup {"none"}
      BY <1>1, HasJob
    <3> QED
      BY <3>1 DEF PlaceOK, Sending, DeliveryPlaces, WorkPlaces, ReviewPlaces
  <2> QED
    BY <1>1, <2>1 DEF Located
<1> QED
  BY <1>3, <1>4, <1>5, <1>6 DEF TypeOK

\* Every variable has its type, and a handler is where there is something to do.
THEOREM TypeCorrect == Spec => []TypeOK
  BY Invariance, Typed, PTL

LEMMA ContentIs ==
  ASSUME PostsOK, \A n \in DOMAIN intents : IntentOK(n), NEW s \in DOMAIN posts
  PROVE  Content(posts[s].notice) = posts[s].notice
<1>1. PICK n : n = posts[s].notice
  OBVIOUS
<1>2. n \in DOMAIN intents
  BY <1>1, PostsAre
<1>3. n[1] \in {"state", "dm"} => n = <<n[1], n[2], n[3]>>
  BY <1>2 DEF IntentOK, Named
<1> QED
  BY <1>1, <1>3 DEF Content

\* What a message tells is told once to the channel and once to each it concerns,
\* whatever runs remove each other's memory, and whoever acts or dies
\* (work-notification-service.ts): what it tells is its intent's name, and an
\* intent has no second message.
THEOREM ToldOnlyOnce == Spec => []ToldOnce
<1>1. IInv => ToldOnce
  <2> SUFFICES ASSUME IInv, NEW s \in DOMAIN posts, NEW t \in DOMAIN posts,
                      Content(posts[s].notice) = Content(posts[t].notice)
               PROVE  s = t
    BY DEF ToldOnce
  <2>1. PostsOK /\ \A n \in DOMAIN intents : IntentOK(n)
    BY DEF IInv, StoreOK
  <2>2. posts[s].notice = posts[t].notice
    BY <2>1, ContentIs
  <2> QED
    BY <2>1, <2>2 DEF PostsOK
<1> QED
  BY <1>1, Invariance, PTL

\* Everything under a root is under the recorded one, and what is said of a Task is
\* said in its thread, though publish and ensureRoot race
\* (notification-thread-service.ts).
THEOREM OneRoot == Spec => []RepliesShareRoot
<1>1. IInv => RepliesShareRoot
  <2> SUFFICES ASSUME IInv, NEW ts \in DOMAIN posts, NEW p, p = posts[ts]
               PROVE  /\ p.under # 0 => thread.root = p.under /\ posts[p.under].under = 0
                      /\ p.notice[1] \in {"review", "overview"} => p.under # 0
                      /\ p.notice[1] \in {"state", "deadline"} /\ RootOf[p.notice[2]] # p.notice[2]
                           => p.under # 0
    BY DEF RepliesShareRoot
  <2>1. PostsOK /\ ThreadOK /\ \A n \in DOMAIN intents : IntentOK(n)
    BY DEF IInv, StoreOK
  <2>2. PICK n, c : n = p.notice /\ c = intents[n].payload
    OBVIOUS
  <2>3. n \in DOMAIN intents /\ p.under = c.under
    BY <2>1, <2>2, PostsAre DEF PostsOK
  <2>4. PayloadOK(c) /\ Named(n, c)
    BY <2>1, <2>2, <2>3 DEF IntentOK
  <2>5. p.under # 0 => thread.root = p.under /\ posts[p.under].under = 0
    BY <2>1, <2>3, <2>4 DEF PayloadOK, ThreadOK
  <2> QED
    BY <2>2, <2>3, <2>4, <2>5 DEF Named, ItemTasks
<1> QED
  BY <1>1, Invariance, PTL

LEMMA RememberedKeeps ==
  ASSUME IInv, NEW n \in Remembered
  PROVE  Keeps(n)
<1>1. MemoryOK /\ ReviewedOK
  BY DEF IInv, StoreOK
<1>2. n # None
  BY DEF Remembered
<1>3. CASE n = reviewed.notice
  BY <1>1, <1>2, <1>3 DEF ReviewedOK
<1>4. CASE \E kind \in {"state", "deadline"}, i \in Items : n = memory[kind][i]
  BY <1>1, <1>2, <1>4 DEF MemoryOK, ItemTasks
<1> QED
  BY <1>3, <1>4 DEF Remembered

\* What is remembered as told is in the channel (work-notification-service.ts,
\* review-service.ts: the memory is written when the delivery has returned).
THEOREM RememberedPosted == Spec => []RememberedIsPosted
<1>1. IInv => RememberedIsPosted
  BY RememberedKeeps DEF RememberedIsPosted, Keeps, InChannel
<1> QED
  BY <1>1, Invariance, PTL

\* Whoever has to act on what is remembered as told has the direct message in the
\* outbox, but for those the outbox could not store (required-action-dm-service.ts).
THEOREM DirectsKept == Spec => []DirectsAreKept
<1>1. IInv => DirectsAreKept
  BY RememberedKeeps DEF DirectsAreKept, Keeps, Handed
<1> QED
  BY <1>1, Invariance, PTL

\* The same reviewers are asked again for the same reasons after a day only, when
\* nothing went wrong and nothing disturbed it (review-service.ts shouldNotify).
THEOREM ReviewsRest == Spec => []ReviewRests
<1>1. IInv => ReviewRests
  <2>1. IInv /\ mishaps = 0 /\ ~disturbed => ReviewRests
    BY DEF IInv, RestsOK, Resting
  <2>2. ~(mishaps = 0 /\ ~disturbed) => ReviewRests
    BY DEF ReviewRests
  <2> QED
    BY <2>1, <2>2
<1> QED
  BY <1>1, Invariance, PTL
=============================================================================
