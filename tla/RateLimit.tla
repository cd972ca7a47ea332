------------------------------ MODULE RateLimit -------------------------------
(***************************************************************************)
(* How often the server answers getstatus (steam_api/PatchMW2Status.cpp):  *)
(* each address has a leaky bucket, in a table of fixed size from which    *)
(* the first expired bucket is reclaimed.  Here the bucket of an address   *)
(* is simply looked up; BucketChains has the hash chains.                  *)
(*                                                                         *)
(* Time is GetTickCount read as a signed number of limited width, so it    *)
(* may turn negative in the middle of a run.  Only IP addresses send       *)
(* getstatus.                                                              *)
(***************************************************************************)
EXTENDS Integers

CONSTANTS
  Addresses,
  MaxBuckets,     \* MAX_BUCKETS
  Burst, Period,  \* of getstatus
  Half,           \* times are numbers from -Half to Half - 1
  Starts,         \* when the server may start
  Duration,       \* bound on how long it runs
  Watched         \* an address whose answers are remembered

None == "none"
Never == -1
Buckets == 1..MaxBuckets
Time == -Half .. Half - 1
Answers == 1..Burst + 2

ASSUME RateLimitAssumption ==
  /\ None \notin Addresses /\ Watched \in Addresses
  /\ MaxBuckets \in Nat \ {0} /\ Burst \in Nat \ {0} /\ Period \in Nat \ {0}
  /\ Half \in Nat /\ Starts \subseteq Time
  /\ Duration \in Nat /\ Duration < Half

VARIABLES
  buckets,  \* adr None stands for the type that is not set
  start, elapsed,
  sent      \* history: when Watched was answered, the latest first

vars == <<buckets, start, elapsed, sent>>

\* the signed number of that width
Signed(n) == ((n + Half) % (2 * Half)) - Half
Now == Signed(start + elapsed)

Bucket(adr, lastTime, burst) == [adr |-> adr, lastTime |-> lastTime, burst |-> burst]

Init ==
  /\ buckets = [b \in Buckets |-> Bucket(None, 0, 0)]
  /\ start \in Starts /\ elapsed = 0
  /\ sent = [n \in Answers |-> Never]

Tick == elapsed < Duration /\ elapsed' = elapsed + 1 /\ UNCHANGED <<buckets, start, sent>>

Interval(b) == Signed(Now - buckets[b].lastTime)

-------------------------------------------------------------------------------
(* SVC_BucketForAddress.                                                     *)

Of(adr) == {b \in Buckets : buckets[b].adr = adr}

\* Mutant: a bucket is given away as soon as it has been quiet for a period.
QuietFor(b) == buckets[b].lastTime > 0 /\ Interval(b) > Period

Expired(b) == buckets[b].lastTime > 0 /\ Interval(b) > Burst * Period

\* the first bucket that is free or expired
Usable(b) ==
  /\ buckets[b].adr = None \/ Expired(b)
  /\ \A c \in Buckets : c < b => buckets[c].adr # None /\ ~Expired(c)

-------------------------------------------------------------------------------
(* SVC_RateLimit.                                                            *)

\* Mutant: the part of a period that is over is lost with every request.
LosesRemainder(b) ==
  IF Interval(b) \div Period > buckets[b].burst THEN [burst |-> 0, lastTime |-> Now]
  ELSE [burst |-> buckets[b].burst - Interval(b) \div Period, lastTime |-> Now]

\* what is left in a bucket, and since when
Leaked(b) ==
  IF Interval(b) \div Period > buckets[b].burst THEN [burst |-> 0, lastTime |-> Now]
  ELSE [burst |-> buckets[b].burst - (Interval(b) \div Period), lastTime |-> Signed(Now - (Interval(b) % Period))]

Refuses(b) == Leaked(b).burst >= Burst

Remember(adr) == sent' = IF adr = Watched THEN [n \in Answers |-> IF n = 1 THEN elapsed ELSE sent[n - 1]] ELSE sent

\* a request from the address of a bucket
Known(b) ==
  /\ buckets' = [buckets EXCEPT ![b] = Bucket(@.adr, Leaked(b).lastTime, Leaked(b).burst + (IF Refuses(b) THEN 0 ELSE 1))]
  /\ IF Refuses(b) THEN sent' = sent ELSE Remember(buckets[b].adr)
  /\ UNCHANGED <<start, elapsed>>

\* from another, which gets a bucket; if there is none for it, it is refused
\* and nothing changes
New(adr, b) ==
  /\ Usable(b)
  /\ buckets' = [buckets EXCEPT ![b] = Bucket(adr, Now, 1)]
  /\ Remember(adr)
  /\ UNCHANGED <<start, elapsed>>

Next ==
  \/ Tick
  \/ \E adr \in Addresses :
       \/ \E b \in Of(adr) : Known(b)
       \/ Of(adr) = {} /\ \E b \in Buckets : New(adr, b)

Spec == Init /\ [][Next]_vars

-------------------------------------------------------------------------------
TypeOK ==
  /\ buckets \in [Buckets -> [adr : Addresses \cup {None}, lastTime : Time, burst : 0..Burst]]
  /\ start \in Starts /\ elapsed \in 0..Duration
  /\ sent \in [Answers -> 0..Duration \cup {Never}]

\* An address gets Burst + k answers only in more than k - 1 periods, also when
\* its bucket is given to others in between and the clock turns negative.
RateKept ==
  \A k \in {1, 2} : sent[Burst + k] # Never => sent[1] - sent[Burst + k] > (k - 1) * Period

\* An address that has a bucket and had no answer for a period is not refused,
\* however often it asked meanwhile.
PatientIsHeard ==
  \A b \in Of(Watched) : elapsed - sent[1] >= Period => ~Refuses(b)
===============================================================================
