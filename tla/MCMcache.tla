------------------------------ MODULE MCMcache ------------------------------
(* Small instances of Mcache for TLC: class "m" holds the managers, class   *)
(* "s" small objects.                                                      *)
EXTENDS Mcache

TwoCells == [c \in Classes |-> 2]
=============================================================================
