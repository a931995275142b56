--------------------------- MODULE MCIssueApproval ---------------------------
(***************************************************************************)
(* A small instance of IssueApproval for TLC: alice asks for every Issue,  *)
(* under a parent and with a Status.                                       *)
(***************************************************************************)
EXTENDS IssueApproval, TLC

CONSTANTS alice, bob, carol

MCRequester == [r \in Requests |-> alice]
MCRelations == <<"parent">>
MCFields == <<"Status">>
Symmetry == Permutations(Handlers) \cup Permutations({bob, carol})
=============================================================================
