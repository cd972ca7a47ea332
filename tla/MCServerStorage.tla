---------------------------- MODULE MCServerStorage ----------------------------
(***************************************************************************)
(* Bounded instances of the stored server list for TLC.                    *)
(***************************************************************************)
EXTENDS ServerStorage, TLC

NoLimit == -1
ServerSymmetry == Permutations(Servers)
===============================================================================
