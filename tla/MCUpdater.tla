------------------------------ MODULE MCUpdater ------------------------------
(***************************************************************************)
(* Two instances and one cache, for TLC.                                   *)
(***************************************************************************)
EXTENDS Updater, TLC

OneFile  == [c \in Caches |-> <<"f">>]
TwoFiles == [c \in Caches |-> <<"f", "g">>]

\* instances are alike
Alike == Permutations(Procs)
===============================================================================
