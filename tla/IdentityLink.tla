---------------------------- MODULE IdentityLink ----------------------------
(***************************************************************************)
(* The link of a Slack user to a GitHub account (identity-service.ts): an  *)
(* authorisation URL good for one use, the callback that stores the        *)
(* identity and its reverse entry one after the other, and the command     *)
(* that removes both.  None of these writes looks at a revision.  Before   *)
(* another account replaces the linked one, and before the command unlinks *)
(* it, the user's projections are revoked, which the composing module      *)
(* supplies as the places from "revoke".                                   *)
(***************************************************************************)
EXTENDS Handlers

VARIABLES
  url,       \* the one-time URLs: what service they link whom to, and whether used
  identity,  \* the account of each user
  reverse    \* the user of each account

links == <<url, identity, reverse>>

NoUrl == [status |-> "none", user |-> None, service |-> None]

\* The states before the first command: some users are linked.
InitLinks(linked) ==
  /\ url = [n \in Urls |-> NoUrl]
  /\ identity = linked
  /\ reverse = [a \in Accounts |->
                  IF \E u \in Users : linked[u] = a THEN CHOOSE u \in Users : linked[u] = a
                                                    ELSE None]

-----------------------------------------------------------------------------
(* The authorisation URL. *)

\* connectUrl: a fresh nonce, whose URL only its user gets.
Connect(h, u, service) ==
  /\ at[h] = "idle"
  /\ \E n \in Urls :
       /\ url[n].status = "none"
       /\ url' = [url EXCEPT ![n] = [status |-> "pending", user |-> u, service |-> service]]
  /\ UNCHANGED <<at, job, identity, reverse>>

\* complete: the signed state is verified and its nonce read; one that is
\* used or past its ten minutes ends the callback.
Callback(h, n) ==
  /\ at[h] = "idle"
  /\ url[n].status = "pending"
  /\ Go(h, "consume", [Work(url[n].user) EXCEPT !.url = n])
  /\ UNCHANGED links

\* Mutant: the nonce is marked as used without the compare-and-set.
Consume_Blind(h) ==
  LET n == job[h].url
  IN  /\ at[h] = "consume"
      /\ url' = [url EXCEPT ![n].status = "consumed"]
      /\ Goto(h, url[n].service)
      /\ UNCHANGED <<identity, reverse>>

\* The nonce is marked as used, by one callback.
Consume(h) ==
  LET n == job[h].url
  IN  /\ at[h] = "consume"
      /\ IF url[n].status = "pending"
         THEN /\ url' = [url EXCEPT ![n].status = "consumed"]
              /\ Goto(h, url[n].service)
         ELSE Rest(h) /\ UNCHANGED url
      /\ UNCHANGED <<identity, reverse>>

-----------------------------------------------------------------------------
(* complete, from the exchange of the code on. *)

\* GitHub says which account the user signed in with; the identity so far is
\* read.
Exchange(h) ==
  /\ at[h] = "github"
  /\ \E a \in Accounts :
       Go(h, "claim", [job[h] EXCEPT !.login = a, !.previous = identity[job[h].user]])
  /\ UNCHANGED links

\* Does another account take the place of the one linked so far?
Replaces(h) == job[h].previous \notin {None, job[h].login}

\* Mutant: the projections of the account that is replaced are left alone.
Claim_NoRevoke(h) ==
  /\ at[h] = "claim"
  /\ IF reverse[job[h].login] \in {None, job[h].user} THEN Goto(h, "save") ELSE Rest(h)
  /\ UNCHANGED links

\* An account linked by another Slack user is refused; the projections of an
\* account that is replaced are revoked first.
Claim(h) ==
  /\ at[h] = "claim"
  /\ CASE reverse[job[h].login] \notin {None, job[h].user} -> Rest(h)
       [] reverse[job[h].login] \in {None, job[h].user} /\ Replaces(h) ->
            Go(h, "revoke", [job[h] EXCEPT !.then = "save"])
       [] OTHER -> Goto(h, "save")
  /\ UNCHANGED links

Save(h) ==
  /\ at[h] = "save"
  /\ identity' = [identity EXCEPT ![job[h].user] = job[h].login]
  /\ Goto(h, "save reverse")
  /\ UNCHANGED <<url, reverse>>

SaveReverse(h) ==
  /\ at[h] = "save reverse"
  /\ reverse' = [reverse EXCEPT ![job[h].login] = job[h].user]
  /\ Leave(h, IF Replaces(h) THEN "drop reverse" ELSE "idle")
  /\ UNCHANGED <<url, identity>>

\* Mutant: the entry of the account that was replaced stays.
DropReverse_Kept(h) ==
  /\ at[h] = "drop reverse"
  /\ Rest(h)
  /\ UNCHANGED links

DropReverse(h) ==
  /\ at[h] = "drop reverse"
  /\ reverse' = [reverse EXCEPT ![job[h].previous] = None]
  /\ Rest(h)
  /\ UNCHANGED <<url, identity>>

-----------------------------------------------------------------------------
(* /ar disconnect github: the projections are revoked, and the link removed. *)

Disconnect(h, u) ==
  /\ at[h] = "idle"
  /\ Go(h, "revoke", [Work(u) EXCEPT !.then = "unlink"])
  /\ UNCHANGED links

Unlink(h) ==
  LET account == identity[job[h].user]
  IN  /\ at[h] = "unlink"
      /\ IF account = None THEN Rest(h)
                           ELSE Go(h, "remove", [job[h] EXCEPT !.previous = account])
      /\ UNCHANGED links

Remove(h) ==
  /\ at[h] = "remove"
  /\ identity' = [identity EXCEPT ![job[h].user] = None]
  /\ Goto(h, "remove reverse")
  /\ UNCHANGED <<url, reverse>>

RemoveReverse(h) ==
  /\ at[h] = "remove reverse"
  /\ reverse' = [reverse EXCEPT ![job[h].previous] = None]
  /\ Rest(h)
  /\ UNCHANGED <<url, identity>>

LinkStep(h) ==
  \/ Consume(h) \/ Exchange(h) \/ Claim(h) \/ Save(h) \/ SaveReverse(h) \/ DropReverse(h)
  \/ Unlink(h) \/ Remove(h) \/ RemoveReverse(h)

-----------------------------------------------------------------------------

LinkPlaces == {"consume", "github", "claim", "save", "save reverse", "drop reverse",
               "unlink", "remove", "remove reverse"}

\* Past the compare-and-set of its URL.
Authorised(h) == at[h] \notin {"idle", "consume"} /\ job[h].url # None

LinksOK ==
  /\ url \in [Urls -> [status : {"none", "pending", "consumed"}, user : Users \cup {None},
                       service : {"github", "google", None}]]
  /\ identity \in [Users -> Accounts \cup {None}]
  /\ reverse \in [Accounts -> Users \cup {None}]

\* The identities and the reverse entries tell the same.
Paired == \A u \in Users, a \in Accounts : identity[u] = a <=> reverse[a] = u
=============================================================================
