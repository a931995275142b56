------------------------- MODULE NotificationPromise -------------------------
(***************************************************************************)
(* What the notification outbox promises its callers, with no store, no    *)
(* revisions, no workers and no clock.                                     *)
(*                                                                         *)
(* Per intent: the automatic path makes at most the first call to Slack;   *)
(* every later call was ordered by an operator, and never while a message  *)
(* that arrived in time is in the channel; one call posts at most one      *)
(* message; an intent is settled only by a message that is really there,   *)
(* and once settled it is never called for again.  A message is late when  *)
(* it lands after its call was given up (the sender answered otherwise, or *)
(* the claim is older than the outbox waits for it): only a late message   *)
(* can make a duplicate.                                                   *)
(***************************************************************************)
EXTENDS Naturals

CONSTANT Intents

VARIABLES calls,    \* calls[i]: how many calls to Slack were authorised
          ordered,  \* ordered[i]: how many of them by an operator
          landed,   \* landed[i]: the messages, by call number and lateness
          settled   \* the intents recorded as sent

vars == <<calls, ordered, landed, settled>>

Init == /\ calls = [i \in Intents |-> 0]
        /\ ordered = [i \in Intents |-> 0]
        /\ landed = [i \in Intents |-> {}]
        /\ settled = {}

InTime(i) == {m \in landed[i] : ~m.late}

FirstCall(i) == /\ calls[i] = 0
                /\ i \notin settled
                /\ calls' = [calls EXCEPT ![i] = 1]
                /\ UNCHANGED <<ordered, landed, settled>>

OrderedCall(i) == /\ i \notin settled
                  /\ InTime(i) = {}
                  /\ calls' = [calls EXCEPT ![i] = @ + 1]
                  /\ ordered' = [ordered EXCEPT ![i] = @ + 1]
                  /\ UNCHANGED <<landed, settled>>

\* Only the latest call can still land in time.
Land(i, n, late) ==
  /\ \A m \in landed[i] : m.call # n
  /\ late \/ n = calls[i]
  /\ landed' = [landed EXCEPT ![i] = @ \cup {[call |-> n, late |-> late]}]
  /\ UNCHANGED <<calls, ordered, settled>>

Settle(i) == /\ i \notin settled
             /\ landed[i] # {}
             /\ settled' = settled \cup {i}
             /\ UNCHANGED <<calls, ordered, landed>>

Next == \E i \in Intents : \/ FirstCall(i)
                           \/ OrderedCall(i)
                           \/ \E n \in 1..calls[i], late \in BOOLEAN : Land(i, n, late)
                           \/ Settle(i)

Spec == Init /\ [][Next]_vars
==============================================================================
