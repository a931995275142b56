-------------------------- MODULE MCLinkedAccounts --------------------------
(***************************************************************************)
(* Small scenarios of LinkedAccounts for TLC, each about what may cross.   *)
(***************************************************************************)
EXTENDS LinkedAccounts, TLC

CONSTANTS u1, u2, a1, a2

MCCommands ==
  {"connect github", "disconnect github", "connect google", "disconnect google", "calendar",
   "canvas", "list", "shared list", "unscoped list", "start", "lose",
   "every canvas", "every calendar"}

\* The commands of a scenario: given is a function from pairs to numbers.
Scenario(given, linked, owner, channelList) ==
  [left |-> [c \in MCCommands |-> [u \in {u1, u2} |->
               IF <<c, u>> \in DOMAIN given THEN given[<<c, u>>] ELSE 0]],
   linked |-> linked, calendar |-> owner, list |-> channelList]

Nobody == u1 :> None @@ u2 :> None
One == u1 :> a1 @@ u2 :> None
Two == u1 :> a1 @@ u2 :> a2

MCScenarios ==
  { \* links: two users, one of them twice, and an unlinking
    Scenario(<<"connect github", u1>> :> 1 @@ <<"connect github", u2>> :> 1
             @@ <<"disconnect github", u1>> :> 1, Nobody, None, "none"),
    Scenario(<<"connect github", u1>> :> 2, Two, None, "none"),
    Scenario(<<"connect github", u1>> :> 1 @@ <<"connect github", u2>> :> 1, One, None, "none"),
    \* views: a relink, an unlinking, and the synchronisations
    Scenario(<<"connect github", u1>> :> 1 @@ <<"list", u1>> :> 1
             @@ <<"every canvas", u1>> :> 1, One, None, "none"),
    Scenario(<<"connect github", u1>> :> 1 @@ <<"canvas", u1>> :> 1, One, None, "none"),
    Scenario(<<"disconnect github", u1>> :> 1 @@ <<"list", u1>> :> 2, One, None, "none"),
    Scenario(<<"canvas", u1>> :> 2 @@ <<"every canvas", u1>> :> 1 @@ <<"lose", u1>> :> 1,
             One, None, "none"),
    Scenario(<<"canvas", u1>> :> 1 @@ <<"every canvas", u1>> :> 1
             @@ <<"disconnect github", u1>> :> 1, One, None, "none"),
    \* the channel
    Scenario(<<"shared list", u1>> :> 1 @@ <<"unscoped list", u1>> :> 1, Nobody, None, "older"),
    Scenario(<<"start", u1>> :> 1 @@ <<"unscoped list", u1>> :> 1, Nobody, None, "older"),
    Scenario(<<"shared list", u1>> :> 2 @@ <<"unscoped list", u1>> :> 1, Nobody, None,
             "current"),
    Scenario(<<"shared list", u1>> :> 1 @@ <<"unscoped list", u1>> :> 2, Nobody, None, "none"),
    \* the calendar
    Scenario(<<"connect google", u1>> :> 2, One, None, "none"),
    Scenario(<<"connect google", u1>> :> 1 @@ <<"calendar", u1>> :> 1
             @@ <<"disconnect google", u1>> :> 1, One, None, "none"),
    Scenario(<<"connect github", u1>> :> 1 @@ <<"every calendar", u1>> :> 1, One, u1,
             "none") }
=============================================================================
