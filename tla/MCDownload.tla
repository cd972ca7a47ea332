------------------------------ MODULE MCDownload ------------------------------
(***************************************************************************)
(* A client and two servers, one of them with mods, for TLC.  The client   *)
(* has another version of the one, the others it lacks.                    *)
(***************************************************************************)
EXTENDS Download

MCRequired == [s \in Servers |-> IF s = "A" THEN <<"f", "old", "g">> ELSE <<>>]
MCDisks == {[f \in Files |-> IF f = "old" THEN "other" ELSE "none"]}
===============================================================================
