----------------------------- MODULE MCNotifiable -----------------------------
(***************************************************************************)
(* A bounded instance of Notifiable for TLC: notifications in full while   *)
(* there are no timers, and timers with little else.                       *)
(***************************************************************************)
EXTENDS Notifiable

SomeIntervals == {-1, 0, 2}
SomeDelays == {0, 2}

\* Neither a timer was added nor has the clock moved.
Untimed == made = <<>> /\ clock = 0

\* At most one notification, and one handler of a type; nobody hears Notified.
Quiet == Len(queued) <= 1 /\ ~listened /\ \A t \in Types : handlers[t] <= 1

Explored == Untimed \/ Quiet
===============================================================================
