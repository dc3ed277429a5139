------------------------------- MODULE Mishaps -------------------------------
(***************************************************************************)
(* History of what should be rare.  Much of the code keeps its promises    *)
(* only while certain things do not happen: two requests that meet, a      *)
(* process that dies, a query that fails.  The modules of the drive, the   *)
(* orders, the codes and the scheduler record each kind of those things in *)
(* a set that no action reads except to bound it, and their properties say *)
(* which kinds they do not survive: they hold whatever else has happened.  *)
(***************************************************************************)
EXTENDS Naturals, FiniteSets

\* To be recorded if the condition holds.
IfSo(kind, condition) == IF condition THEN {kind} ELSE {}

\* One of the kinds is among what happened.
Among(kinds, happened) == kinds \cap happened # {}

\* What is recorded now may happen, and all that happened keeps the bound.
Recordable(now, happened, allowed, bound) ==
    now \subseteq allowed /\ Cardinality(happened \cup now) <= bound
=============================================================================
