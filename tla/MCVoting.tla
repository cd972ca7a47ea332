------------------------------- MODULE MCVoting -------------------------------
(***************************************************************************)
(* A bounded instance of the votes for TLC.                                *)
(***************************************************************************)
EXTENDS Voting

OfEach(n) == [y \in Types |-> n]
One  == OfEach(1)
Two  == OfEach(2)
Zero == OfEach(0)
SixTenths == OfEach(<<6, 10>>)
===============================================================================
