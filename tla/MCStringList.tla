----------------------------- MODULE MCStringList -----------------------------
(***************************************************************************)
(* Bounded instances of the string table for TLC.                          *)
(***************************************************************************)
EXTENDS StringListOwners, FiniteSetsExt, TLC

CONSTANTS upper, lower

\* Of the two strings the lower case one counts as long, so that both branches
\* of SL_ConvertToLowercase are reached: nothing else looks at a length.
LowerCase == [s \in Strings |-> IF s = upper THEN lower ELSE s]
OwnerSymmetry == Permutations(Threads) \cup Permutations(Users)

\* Steps are taken from states with at most two references in all, and in
\* which no uncounted reference or wrong id excuses what comes next
Explored == ~borrowed /\ ~misled /\ MapThenSumSet(Owed, Ids) <= 2
===============================================================================
