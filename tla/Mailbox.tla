------------------------------- MODULE Mailbox -------------------------------
(***************************************************************************)
(* What Steam's call results and callbacks promise to the game: every      *)
(* result is handed out, once, in the order in which the calls were made;  *)
(* with the exception this program makes of it, that a post which does not *)
(* fit into a delivery under way may cost the game what is still pending.  *)
(***************************************************************************)
EXTENDS Integers, Sequences

VARIABLES pending, delivered, overrun

vars == <<pending, delivered, overrun>>

Init == pending = <<>> /\ delivered = <<>> /\ overrun = FALSE

Post ==
  /\ Len(pending') > Len(pending)
  /\ \A i \in 1..Len(pending) : pending'[i] = pending[i]
  /\ overrun => overrun'
  /\ UNCHANGED delivered

Deliver ==
  /\ pending # <<>>
  /\ delivered' = Append(delivered, Head(pending))
  /\ pending' = Tail(pending)
  /\ UNCHANGED overrun

Lose ==
  /\ overrun
  /\ pending' = <<>> /\ overrun' = FALSE
  /\ UNCHANGED delivered

Spec == Init /\ [][Post \/ Deliver \/ Lose]_vars
===============================================================================
