------------------------ MODULE MCNotificationOutbox ------------------------
(***************************************************************************)
(* A small instance of NotificationOutbox for TLC.                         *)
(***************************************************************************)
EXTENDS NotificationOutbox, TLC

Symmetry == Permutations(Workers) \cup Permutations(Operators)
=============================================================================
