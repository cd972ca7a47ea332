--------------------------- MODULE RateLimit_proofs ---------------------------
(***************************************************************************)
(* What RateLimit promises, for every table, burst, period and width, and  *)
(* that the hash chains of BucketChains find what the table has.           *)
(***************************************************************************)
EXTENDS BucketChains, TLAPS

\* Adding multiples of the modulus does not change the remainder.
LEMMA ModSmall ==
  ASSUME NEW a \in Int, NEW m \in Nat, m > 0, 0 <= a, a < m, NEW k \in Int
  PROVE  (a + m * k) % m = a
  OBVIOUS

\* A number is its remainder and a multiple of the modulus.
LEMMA ModIs ==
  ASSUME NEW a \in Int, NEW m \in Nat, m > 0
  PROVE  /\ a % m \in Int /\ 0 <= a % m /\ a % m < m
         /\ a \div m \in Int
         /\ a = (m * (a \div m)) + (a % m)
  OBVIOUS

\* A signed number has its width and differs from the number by a multiple of
\* the range.
LEMMA SignedIs ==
  ASSUME NEW n \in Int
  PROVE  /\ Signed(n) \in Time
         /\ \E k \in Int : Signed(n) = n + (2 * Half) * k
<1>1. Half \in Nat /\ Half > 0
  BY RateLimitAssumption
<1> DEFINE m == 2 * Half
           r == (n + Half) % m
           q == (n + Half) \div m
<1>2. m \in Nat /\ m > 0
  BY <1>1
<1>3. r \in Int /\ 0 <= r /\ r < m /\ q \in Int /\ n + Half = (m * q) + r
  BY <1>1, <1>2, ModIs
<1>4. Signed(n) = r - Half
  BY DEF Signed
<1>5. Signed(n) \in Time
  <2> HIDE DEF r, q
  <2> QED BY <1>1, <1>3, <1>4 DEF Time
<1>6. Signed(n) = n + m * (-q)
  <2>1. m * (-q) = -(m * q)
    <3> HIDE DEF m, q
    <3> QED BY <1>2, <1>3
  <2> HIDE DEF r, q
  <2> QED BY <1>1, <1>3, <1>4, <2>1
<1> QED
  <2>1. -q \in Int
    <3> HIDE DEF q
    <3> QED BY <1>3
  <2> QED BY <1>5, <1>6, <2>1

\* Two times less than half the range apart have the right difference.
LEMMA SignedDifference ==
  ASSUME NEW x \in Int, NEW y \in Int, y <= x, x - y < Half
  PROVE  Signed(Signed(x) - Signed(y)) = x - y
<1>1. Half \in Nat /\ Half > 0
  BY RateLimitAssumption
<1>2. PICK i \in Int : Signed(x) = x + (2 * Half) * i
  BY SignedIs
<1>3. PICK j \in Int : Signed(y) = y + (2 * Half) * j
  BY SignedIs
<1> DEFINE m == 2 * Half
<1>4. m \in Nat /\ m > 0 /\ m = Half + Half
  BY <1>1
<1>5. Signed(x) - Signed(y) + Half = (x - y + Half) + m * (i - j)
  <2>1. m * (i - j) = m * i - m * j
    <3> HIDE DEF m
    <3> QED BY <1>4
  <2>2. m * i \in Int /\ m * j \in Int
    BY <1>4
  <2>3. Signed(x) = x + m * i /\ Signed(y) = y + m * j
    BY <1>2, <1>3
  <2> HIDE DEF m
  <2> QED BY <1>1, <2>1, <2>2, <2>3
<1>6. ((x - y + Half) + m * (i - j)) % m = x - y + Half
  <2>1. x - y + Half \in Int /\ 0 <= x - y + Half /\ x - y + Half < m /\ i - j \in Int
    BY <1>1, <1>4
  <2> HIDE DEF m
  <2> QED BY <1>4, <2>1, ModSmall
<1>7. Signed(Signed(x) - Signed(y)) = ((Signed(x) - Signed(y) + Half) % m) - Half
  BY DEF Signed
<1> QED
  BY <1>1, <1>5, <1>6, <1>7

\* What is taken from a signed time may be taken from the time it stands for.
LEMMA SignedShift ==
  ASSUME NEW x \in Int, NEW r \in Int
  PROVE  Signed(Signed(x) - r) = Signed(x - r)
<1>1. Half \in Nat /\ Half > 0
  BY RateLimitAssumption
<1>2. PICK i \in Int : Signed(x) = x + (2 * Half) * i
  BY SignedIs
<1> DEFINE m == 2 * Half
           a == x - r + Half
           q == a \div m
           s == a % m
<1>3. m \in Nat /\ m > 0 /\ a \in Int
  BY <1>1
<1>4. s \in Int /\ 0 <= s /\ s < m /\ q \in Int /\ a = (m * q) + s
  <2> HIDE DEF m, a
  <2> QED BY <1>3, ModIs
<1>5. Signed(x) - r + Half = s + m * (q + i)
  <2>1. m * (q + i) = m * q + m * i
    <3> HIDE DEF m, q
    <3> QED BY <1>3, <1>4
  <2>2. m * i \in Int /\ m * q \in Int
    <3> HIDE DEF m, q
    <3> QED BY <1>3, <1>4
  <2>3. Signed(x) - r + Half = a + m * i
    <3>1. Signed(x) = x + m * i
      BY <1>2
    <3> HIDE DEF m
    <3> QED BY <1>1, <2>2, <3>1
  <2> HIDE DEF m, a, q, s
  <2> QED BY <1>4, <2>1, <2>2, <2>3
<1>6. (s + m * (q + i)) % m = s
  <2>1. q + i \in Int
    <3> HIDE DEF q
    <3> QED BY <1>4
  <2> HIDE DEF m, s, q
  <2> QED BY <1>3, <1>4, <2>1, ModSmall
<1>7. Signed(Signed(x) - r) = ((Signed(x) - r + Half) % m) - Half
  BY DEF Signed
<1>8. Signed(x - r) = s - Half
  BY DEF Signed
<1> QED
  BY <1>5, <1>6, <1>7, <1>8

-------------------------------------------------------------------------------
(* The inductive invariant.                                                  *)

\* the time a bucket has, on the scale of elapsed
Since(b) == elapsed - Interval(b)

\* No address has two buckets.
OneEach == \A b, c \in Buckets : buckets[b].adr = buckets[c].adr /\ buckets[b].adr # None => b = c

\* The time of a bucket in use is one of this run.
InTime ==
  \A b \in Buckets : buckets[b].adr # None =>
    Interval(b) \in 0..elapsed /\ buckets[b].lastTime = Signed(start + Since(b))

\* What the n-th last answer put into a bucket of that burst and time has not leaked
\* before n - 1 periods are over.
Held(n, burst, since) == sent[n] # Never => sent[n] + (n - 1) * Period < burst * Period + since

\* Each answer is still held by the bucket of the address, or by an empty one
\* of now if it has none.
AllHeld ==
  /\ \A b \in Of(Watched) : \A n \in Answers : Held(n, buckets[b].burst, Since(b))
  /\ Of(Watched) = {} => \A n \in Answers : Held(n, 0, elapsed)

\* The last answer came since a full bucket leaked.
FullSince == \A b \in Of(Watched) : buckets[b].burst = Burst => Since(b) <= sent[1]

IInv == TypeOK /\ OneEach /\ InTime /\ AllHeld /\ FullSince /\ RateKept

LEMMA Numbers ==
  /\ Half \in Nat /\ Half > 0 /\ Duration \in Nat /\ Duration < Half
  /\ MaxBuckets \in Nat /\ Burst \in Nat /\ Burst > 0 /\ Period \in Nat /\ Period > 0
  /\ Starts \subseteq Int /\ 0 \in Time
  BY RateLimitAssumption DEF Time

\* The interval of a bucket with a time of this run.
LEMMA IntervalIs ==
  ASSUME NEW x \in Int, NEW t \in Int, t <= x, x - t < Half,
         NEW s \in Int
  PROVE  Signed(Signed(s + x) - Signed(s + t)) = x - t
<1>1. s + x \in Int /\ s + t \in Int /\ s + t <= s + x /\ (s + x) - (s + t) = x - t
  OBVIOUS
<1> QED
  BY <1>1, SignedDifference

\* What leaks from a bucket is what its time moves on, or all of it.
LEMMA LeakedIs ==
  ASSUME TypeOK, InTime, NEW b \in Buckets, buckets[b].adr # None
  PROVE  \E t \in Int :
           /\ 0 <= t /\ t <= elapsed /\ elapsed - t < Period
           /\ Leaked(b).lastTime = Signed(start + t)
           /\ Leaked(b).burst \in 0..Burst
           /\ buckets[b].burst * Period + Since(b) <= Leaked(b).burst * Period + t
           /\ Leaked(b).burst = Burst => t = Since(b) /\ buckets[b].burst = Burst
<1> DEFINE i == Interval(b)
           c == buckets[b].burst
           e == i \div Period
           r == i % Period
<1>1. /\ i \in Int /\ 0 <= i /\ i <= elapsed /\ c \in Int /\ 0 <= c /\ c <= Burst /\ elapsed \in Int /\ start \in Int
      /\ Since(b) = elapsed - i
  BY Numbers DEF TypeOK, InTime, Since
<1>2. e \in Int /\ r \in Int /\ 0 <= r /\ r < Period /\ i = (Period * e) + r
  <2> HIDE DEF i
  <2> QED BY <1>1, Numbers, ModIs
<1>3. Period * e \in Int /\ Period * c \in Int
  <2> HIDE DEF e, c
  <2> QED BY <1>1, <1>2, Numbers
<1>4. 0 <= e
  <2>1. SUFFICES ASSUME e <= -1 PROVE FALSE
    <3> HIDE DEF e
    <3> QED BY <1>2, <2>1
  <2>2. Period * e <= Period * (-1)
    <3> HIDE DEF e
    <3> QED BY <1>2, <2>1, Numbers
  <2> HIDE DEF e, r, i
  <2> QED BY <1>1, <1>2, <1>3, <2>2, Numbers
<1>5. CASE e > c
  <2>1. Leaked(b) = [burst |-> 0, lastTime |-> Now]
    BY <1>5 DEF Leaked
  <2>2. Period * c <= Period * e
    <3> HIDE DEF e, c
    <3> QED BY <1>1, <1>2, <1>5, Numbers
  <2>3. c * Period = Period * c
    <3> HIDE DEF c
    <3> QED BY <1>1, Numbers
  <2>4. c * Period + Since(b) <= 0 * Period + elapsed
    <3> HIDE DEF c, e, r, i
    <3> QED BY <1>1, <1>2, <1>3, <2>2, <2>3, Numbers
  <2> elapsed \in Int
    BY <1>1
  <2> WITNESS elapsed \in Int
  <2> QED
    BY <1>1, <2>1, <2>4, Numbers DEF Now
<1>6. CASE ~(e > c)
  <2> DEFINE t == elapsed - r
  <2>1. /\ Leaked(b) = [burst |-> c - e, lastTime |-> Signed(Now - r)]
        /\ Leaked(b).burst = c - e /\ Leaked(b).lastTime = Signed(Now - r)
    BY <1>6 DEF Leaked
  <2>2. Signed(Now - r) = Signed(start + t)
    <3>1. start + elapsed \in Int /\ (start + elapsed) - r = start + t
      <4> HIDE DEF r
      <4> QED BY <1>1, <1>2
    <3>2. Signed(Signed(start + elapsed) - r) = Signed((start + elapsed) - r)
      <4> HIDE DEF r
      <4> QED BY <1>2, <3>1, SignedShift
    <3> QED BY <3>1, <3>2 DEF Now
  <2>3. t = Since(b) + Period * e /\ t \in Int
    <3> HIDE DEF e, r, i
    <3> QED BY <1>1, <1>2, <1>3
  <2>4. 0 <= Period * e
    <3> HIDE DEF e
    <3> QED BY <1>2, <1>4, Numbers
  <2>5. 0 <= t /\ t <= elapsed /\ elapsed - t < Period
    <3> HIDE DEF e, r, i
    <3> QED BY <1>1, <1>2, <1>3, <2>3, <2>4, Numbers
  <2>6. c - e \in 0..Burst
    <3> HIDE DEF e, c
    <3> QED BY <1>1, <1>2, <1>4, <1>6, Numbers
  <2>7. c * Period + Since(b) = (c - e) * Period + t
    <3>1. (c - e) * Period = c * Period - Period * e
      <4> HIDE DEF e, c
      <4> QED BY <1>1, <1>2, Numbers
    <3>2. c * Period \in Int
      <4> HIDE DEF c
      <4> QED BY <1>1, Numbers
    <3> HIDE DEF e, c, t, r, i
    <3> QED BY <1>1, <1>3, <2>3, <3>1, <3>2
  <2>8. c - e = Burst => t = Since(b) /\ c = Burst
    <3>1. SUFFICES ASSUME c - e = Burst PROVE t = Since(b) /\ c = Burst
      OBVIOUS
    <3>2. e = 0 /\ c = Burst
      <4> HIDE DEF e, c
      <4> QED BY <1>1, <1>2, <1>4, <3>1, Numbers
    <3>3. Period * e = 0
      <4> HIDE DEF e
      <4> QED BY <3>2, Numbers
    <3>4. Since(b) \in Int
      BY <1>1
    <3> HIDE DEF e, c, t
    <3> QED BY <2>3, <3>2, <3>3, <3>4
  <2>9. t \in Int /\ (c - e) * Period + t \in Int /\ c * Period + Since(b) <= (c - e) * Period + t
    <3>1. (c - e) * Period \in Int
      <4> HIDE DEF e, c
      <4> QED BY <1>1, <1>2, Numbers
    <3> HIDE DEF e, c, t
    <3> QED BY <2>3, <2>7, <3>1
  <2> HIDE DEF c, e, t, r, i
  <2> t \in Int
    BY <2>9
  <2> WITNESS t \in Int
  <2> QED
    BY <1>1, <2>1, <2>2, <2>5, <2>6, <2>8, <2>9 DEF c
<1> QED
  BY <1>5, <1>6

-------------------------------------------------------------------------------
(* The initial states and the passage of time.                               *)

LEMMA InitIInv == Init => IInv
<1> SUFFICES ASSUME Init PROVE IInv
  OBVIOUS
<1> USE Numbers, RateLimitAssumption
<1>1. /\ buckets = [b \in Buckets |-> Bucket(None, 0, 0)]
      /\ \A b \in Buckets : buckets[b].adr = None
      /\ \A n \in Answers : sent[n] = Never
      /\ Burst + 1 \in Answers /\ Burst + 2 \in Answers
  BY DEF Init, Bucket, Answers
<1>2. TypeOK
  <2>1. \A b \in Buckets : Bucket(None, 0, 0) \in [adr : Addresses \cup {None}, lastTime : Time, burst : 0..Burst]
    BY DEF Bucket
  <2> QED BY <2>1 DEF Init, TypeOK
<1>3. Of(Watched) = {}
  BY <1>1 DEF Of
<1> QED
  BY <1>1, <1>2, <1>3 DEF IInv, OneEach, InTime, AllHeld, Held, FullSince, RateKept

\* The times of the buckets stand still.
LEMMA TickInterval ==
  ASSUME TypeOK, InTime, Tick, NEW b \in Buckets, buckets[b].adr # None
  PROVE  /\ Interval(b)' = Interval(b) + 1 /\ Interval(b)' \in 0..elapsed'
         /\ Since(b)' = Since(b)
         /\ buckets'[b].lastTime = Signed(start' + Since(b)')
<1>1. /\ elapsed \in Int /\ start \in Int /\ elapsed' = elapsed + 1 /\ start' = start /\ buckets' = buckets
      /\ elapsed' <= Duration
  BY Numbers DEF TypeOK, Tick
<1>2. /\ Interval(b) \in Int /\ 0 <= Interval(b) /\ Interval(b) <= elapsed
      /\ buckets[b].lastTime = Signed(start + Since(b)) /\ Since(b) = elapsed - Interval(b)
  BY <1>1 DEF InTime, Since
<1> DEFINE t == elapsed - Interval(b)
<1>3. t \in Int /\ t <= elapsed + 1 /\ (elapsed + 1) - t < Half /\ (elapsed + 1) - t = Interval(b) + 1
  BY <1>1, <1>2, Numbers
<1>4. Signed(Signed(start + (elapsed + 1)) - Signed(start + t)) = (elapsed + 1) - t
  <2> DEFINE x == elapsed + 1
  <2>1. x \in Int /\ t \in Int /\ t <= x /\ x - t < Half /\ start \in Int
    BY <1>1, <1>3
  <2> HIDE DEF t, x
  <2>2. Signed(Signed(start + x) - Signed(start + t)) = x - t
    BY <2>1, IntervalIs
  <2> QED BY <2>2 DEF x
<1>5. Interval(b)' = Signed(Signed(start + (elapsed + 1)) - Signed(start + t))
  BY <1>1, <1>2 DEF Interval, Now
<1>6. Interval(b)' = Interval(b) + 1
  BY <1>3, <1>4, <1>5
<1>7. Since(b)' = Since(b)
  BY <1>1, <1>2, <1>6 DEF Since
<1> QED
  BY <1>1, <1>2, <1>6, <1>7

LEMMA TickIInv == IInv /\ Tick => IInv'
<1> SUFFICES ASSUME IInv, Tick PROVE IInv'
  OBVIOUS
<1>1. TypeOK /\ OneEach /\ InTime /\ AllHeld /\ FullSince /\ RateKept
  BY DEF IInv
<1>2. /\ elapsed \in Int /\ elapsed' = elapsed + 1 /\ buckets' = buckets /\ sent' = sent /\ Of(Watched)' = Of(Watched)
  BY <1>1, Numbers DEF TypeOK, Tick, Of
<1>3. \A b \in Buckets : buckets[b].adr # None =>
        /\ Interval(b)' \in 0..elapsed'
        /\ Since(b)' = Since(b)
        /\ buckets'[b].lastTime = Signed(start' + Since(b)')
  BY <1>1, TickInterval
<1>4. \A b \in Of(Watched) : b \in Buckets /\ buckets[b].adr # None
  BY RateLimitAssumption DEF Of
<1>5. TypeOK'
  BY <1>1, Numbers DEF TypeOK, Tick
<1>6. InTime'
  BY <1>2, <1>3 DEF InTime
<1>7. AllHeld'
  <2>1. \A b \in Of(Watched) : Since(b)' = Since(b)
    BY <1>3, <1>4
  <2>2. \A n \in Answers : Held(n, 0, elapsed) => Held(n, 0, elapsed)'
    <3> SUFFICES ASSUME NEW n \in Answers, Held(n, 0, elapsed), sent[n] # Never
                 PROVE  sent[n] + (n - 1) * Period < 0 * Period + (elapsed + 1)
      BY <1>2 DEF Held
    <3>1. sent[n] \in Int /\ (n - 1) * Period \in Int
      BY <1>1, Numbers DEF TypeOK, Answers
    <3> QED BY <1>2, <3>1, Numbers DEF Held
  <2> QED BY <1>1, <1>2, <2>1, <2>2 DEF AllHeld, Held
<1>8. FullSince'
  BY <1>1, <1>2, <1>3, <1>4 DEF FullSince
<1> QED
  BY <1>1, <1>2, <1>5, <1>6, <1>7, <1>8 DEF IInv, OneEach, RateKept

-------------------------------------------------------------------------------
(* Answers and what is held of them.                                         *)

\* One bucket gets another time of this run.
LEMMA Changed ==
  ASSUME TypeOK, InTime, NEW b \in Buckets, NEW adr \in Addresses, NEW burst \in 0..Burst,
         NEW t \in Int, 0 <= t, t <= elapsed,
         buckets' = [buckets EXCEPT ![b] = Bucket(adr, Signed(start + t), burst)],
         start' = start, elapsed' = elapsed
  PROVE  /\ buckets'[b].adr = adr /\ buckets'[b].burst = burst /\ Since(b)' = t
         /\ \A c \in Buckets \ {b} : buckets'[c] = buckets[c] /\ Since(c)' = Since(c)
         /\ InTime'
         /\ buckets' \in [Buckets -> [adr : Addresses \cup {None}, lastTime : Time, burst : 0..Burst]]
<1> DEFINE new == Bucket(adr, Signed(start + t), burst)
<1>1. /\ elapsed \in Int /\ start \in Int /\ elapsed - t < Half
      /\ buckets \in [Buckets -> [adr : Addresses \cup {None}, lastTime : Time, burst : 0..Burst]]
  BY Numbers DEF TypeOK
<1>2. new.adr = adr /\ new.burst = burst /\ new.lastTime = Signed(start + t)
  BY DEF Bucket
<1>3. new \in [adr : Addresses \cup {None}, lastTime : Time, burst : 0..Burst]
  <2>1. Signed(start + t) \in Time
    BY <1>1, SignedIs
  <2> QED BY <2>1 DEF Bucket
<1>4. buckets'[b] = new /\ \A c \in Buckets \ {b} : buckets'[c] = buckets[c]
  BY <1>1
<1>5. buckets' \in [Buckets -> [adr : Addresses \cup {None}, lastTime : Time, burst : 0..Burst]]
  <2>1. buckets' = [buckets EXCEPT ![b] = new]
    OBVIOUS
  <2> HIDE DEF new
  <2> QED BY <1>1, <1>3, <2>1
<1>6. Interval(b)' = elapsed - t
  <2>1. Interval(b)' = Signed(Signed(start + elapsed) - Signed(start + t))
    BY <1>2, <1>4 DEF Interval, Now
  <2> QED BY <1>1, <2>1, IntervalIs
<1>7. Since(b)' = t
  BY <1>1, <1>6 DEF Since
<1>8. \A c \in Buckets \ {b} : Interval(c)' = Interval(c) /\ Since(c)' = Since(c)
  BY <1>4 DEF Interval, Now, Since
<1>9. InTime'
  <2> SUFFICES ASSUME NEW c \in Buckets, buckets'[c].adr # None
               PROVE  Interval(c)' \in 0..elapsed' /\ buckets'[c].lastTime = Signed(start' + Since(c)')
    BY DEF InTime
  <2>1. CASE c = b
    BY <1>1, <1>2, <1>4, <1>6, <1>7, <2>1
  <2>2. CASE c # b
    BY <1>4, <1>8, <2>2 DEF InTime
  <2> QED BY <2>1, <2>2
<1> QED
  BY <1>2, <1>4, <1>5, <1>7, <1>8, <1>9

LEMMA Products ==
  ASSUME NEW m \in Int, NEW n \in Int
  PROVE  /\ m * Period \in Int
         /\ m <= n => m * Period <= n * Period
         /\ (m + n) * Period = m * Period + n * Period
         /\ 0 * Period = 0 /\ 1 * Period = Period
  BY Numbers

LEMMA SentIs == TypeOK => elapsed \in Int /\ \A n \in Answers : sent[n] \in Int
  BY Numbers DEF TypeOK, Never

\* A bucket that holds as much as another holds its answers.
LEMMA HeldLater ==
  ASSUME TypeOK, NEW n \in Answers, NEW c \in Int, NEW s \in Int, NEW d \in Int, NEW t \in Int,
         Held(n, c, s), c * Period + s <= d * Period + t
  PROVE  Held(n, d, t)
<1>1. c * Period \in Int /\ d * Period \in Int /\ n - 1 \in Int
  <2>1. n - 1 \in Int
    BY Numbers DEF Answers
  <2>2. c * Period \in Int /\ d * Period \in Int
    BY Products
  <2> QED BY <2>1, <2>2
<1>2. (n - 1) * Period \in Int
  BY <1>1, Products
<1>3. sent[n] \in Int
  BY SentIs
<1> QED
  BY <1>1, <1>2, <1>3 DEF Held

\* One more answer is one more in the bucket.
LEMMA HeldAnswer ==
  ASSUME TypeOK, NEW c \in Int, 0 <= c, NEW t \in Int, elapsed - t < Period,
         \A n \in Answers : Held(n, c, t), Remember(Watched),
         NEW n \in Answers
  PROVE  sent'[n] # Never => sent'[n] + (n - 1) * Period < (c + 1) * Period + t
<1>1. /\ n \in Int /\ elapsed \in Int /\ c * Period \in Int /\ (n - 1) * Period \in Int
      /\ (c + 1) * Period = c * Period + Period /\ 0 * Period <= c * Period /\ 0 * Period = 0
  <2>1. n \in Int /\ n - 1 \in Int /\ elapsed \in Int
    BY Numbers DEF Answers, TypeOK
  <2>2. c * Period \in Int /\ (n - 1) * Period \in Int /\ 0 * Period = 0 /\ 1 * Period = Period
    BY <2>1, Products
  <2>3. (c + 1) * Period = c * Period + 1 * Period
    BY Products
  <2>4. 0 * Period <= c * Period
    BY Products
  <2> QED BY <2>1, <2>2, <2>3, <2>4
<1>2. sent' = [m \in Answers |-> IF m = 1 THEN elapsed ELSE sent[m - 1]]
  BY DEF Remember
<1>3. CASE n = 1
  <2>1. sent'[n] = elapsed /\ (n - 1) * Period = 0
    BY <1>1, <1>2, <1>3
  <2> QED BY <1>1, <2>1, Numbers DEF Held
<1>4. CASE n # 1
  <2>1. n - 1 \in Answers /\ sent'[n] = sent[n - 1]
    BY <1>1, <1>2, <1>4, Numbers DEF Answers
  <2>2. Held(n - 1, c, t) /\ sent[n - 1] \in Int
    BY <2>1, SentIs
  <2>3. ((n - 1) - 1) * Period = (n - 1) * Period - Period
    <3>1. n - 1 = ((n - 1) - 1) + 1 /\ (n - 1) - 1 \in Int
      BY <1>1
    <3>2. (((n - 1) - 1) + 1) * Period = ((n - 1) - 1) * Period + 1 * Period /\ ((n - 1) - 1) * Period \in Int
      BY <3>1, Products
    <3> QED BY <1>1, <3>1, <3>2, Numbers
  <2> QED BY <1>1, <2>1, <2>2, <2>3, Numbers DEF Held
<1> QED
  BY <1>3, <1>4

\* An answer out of a bucket that is not full keeps the rate.
LEMMA HeldRate ==
  ASSUME TypeOK, NEW c \in Int, c < Burst, NEW t \in Int, t <= elapsed,
         \A n \in Answers : Held(n, c, t), Remember(Watched)
  PROVE  RateKept'
<1> SUFFICES ASSUME NEW k \in {1, 2}, sent'[Burst + k] # Never
             PROVE  sent'[1] - sent'[Burst + k] > (k - 1) * Period
  BY DEF RateKept
<1> DEFINE n == Burst + k - 1
<1>1. /\ k \in Int /\ Burst + k \in Answers /\ Burst + k # 1 /\ 1 \in Answers
      /\ n \in Answers /\ n \in Int /\ n = (Burst + k) - 1 /\ n - 1 = (Burst - 1) + (k - 1)
  BY Numbers DEF Answers
<1>2. sent' = [m \in Answers |-> IF m = 1 THEN elapsed ELSE sent[m - 1]]
  BY DEF Remember
<1>3. sent'[1] = elapsed /\ sent'[Burst + k] = sent[n]
  <2> HIDE DEF n
  <2> QED BY <1>1, <1>2
<1>4. elapsed \in Int /\ sent[n] \in Int /\ Held(n, c, t)
  <2> HIDE DEF n
  <2> QED BY <1>1, SentIs
<1>5. (n - 1) * Period = (Burst - 1) * Period + (k - 1) * Period
  <2>1. Burst - 1 \in Int /\ k - 1 \in Int
    BY <1>1, Numbers
  <2>2. ((Burst - 1) + (k - 1)) * Period = (Burst - 1) * Period + (k - 1) * Period
    BY <2>1, Products
  <2> HIDE DEF n
  <2> QED BY <1>1, <2>2
<1>6. c * Period <= (Burst - 1) * Period /\ c * Period \in Int /\ (Burst - 1) * Period \in Int /\ (k - 1) * Period \in Int
  BY <1>1, Numbers, Products
<1> HIDE DEF n
<1>7. sent[n] + (n - 1) * Period < c * Period + t
  BY <1>3, <1>4 DEF Held
<1> QED
  BY <1>3, <1>4, <1>5, <1>6, <1>7

LEMMA RememberType == ASSUME TypeOK, NEW adr PROVE Remember(adr) => sent' \in [Answers -> 0..Duration \cup {Never}]
<1> SUFFICES ASSUME Remember(adr) PROVE sent' \in [Answers -> 0..Duration \cup {Never}]
  OBVIOUS
<1>1. \A n \in Answers : n # 1 => n - 1 \in Answers
  BY Numbers DEF Answers
<1>2. elapsed \in 0..Duration /\ sent \in [Answers -> 0..Duration \cup {Never}]
  BY DEF TypeOK
<1>3. CASE adr = Watched
  <2>1. sent' = [n \in Answers |-> IF n = 1 THEN elapsed ELSE sent[n - 1]]
    BY <1>3 DEF Remember
  <2>2. \A n \in Answers : (IF n = 1 THEN elapsed ELSE sent[n - 1]) \in 0..Duration \cup {Never}
    BY <1>1, <1>2
  <2> QED BY <2>1, <2>2
<1>4. CASE adr # Watched
  BY <1>2, <1>4 DEF Remember
<1> QED
  BY <1>3, <1>4

-------------------------------------------------------------------------------
(* A request from the address of a bucket.                                   *)

LEMMA KnownIInv ==
  ASSUME IInv, NEW adr \in Addresses, NEW b \in Of(adr), Known(b)
  PROVE  IInv'
<1>1. TypeOK /\ OneEach /\ InTime /\ AllHeld /\ FullSince /\ RateKept
  BY DEF IInv
<1>2. b \in Buckets /\ buckets[b].adr = adr /\ adr # None /\ Watched # None
  BY RateLimitAssumption DEF Of
<1> DEFINE lb == Leaked(b).burst
           nb == lb + (IF Refuses(b) THEN 0 ELSE 1)
<1>3. PICK t \in Int :
        /\ 0 <= t /\ t <= elapsed /\ elapsed - t < Period
        /\ Leaked(b).lastTime = Signed(start + t)
        /\ lb \in 0..Burst
        /\ buckets[b].burst * Period + Since(b) <= lb * Period + t
        /\ lb = Burst => t = Since(b) /\ buckets[b].burst = Burst
  BY <1>1, <1>2, LeakedIs
<1>4. /\ start' = start /\ elapsed' = elapsed /\ elapsed \in Int
      /\ buckets' = [buckets EXCEPT ![b] = Bucket(adr, Signed(start + t), nb)]
      /\ buckets[b].burst \in Int /\ Since(b) \in Int
  BY <1>1, <1>2, <1>3, Numbers DEF Known, TypeOK, InTime, Since
<1>5. /\ nb \in 0..Burst /\ nb \in Int /\ lb \in Int /\ 0 <= lb
      /\ Refuses(b) => nb = lb /\ sent' = sent
      /\ ~Refuses(b) => nb = lb + 1 /\ lb < Burst /\ Remember(adr)
  <2>1. Refuses(b) <=> lb >= Burst
    BY DEF Refuses
  <2>2. Refuses(b) => sent' = sent
    BY DEF Known
  <2>3. ~Refuses(b) => Remember(adr)
    BY <1>2 DEF Known
  <2> HIDE DEF lb
  <2> QED BY <1>3, <2>1, <2>2, <2>3, Numbers
<1> HIDE DEF lb, nb
<1>6. /\ buckets'[b].adr = adr /\ buckets'[b].burst = nb /\ Since(b)' = t
      /\ \A c \in Buckets \ {b} : buckets'[c] = buckets[c] /\ Since(c)' = Since(c)
      /\ InTime'
      /\ buckets' \in [Buckets -> [adr : Addresses \cup {None}, lastTime : Time, burst : 0..Burst]]
  BY <1>1, <1>2, <1>3, <1>4, <1>5, Changed
<1>7. \A c \in Buckets : buckets'[c].adr = buckets[c].adr
  BY <1>2, <1>6
<1>8. Of(Watched)' = Of(Watched)
  BY <1>7 DEF Of
<1>9. TypeOK'
  <2>1. sent' \in [Answers -> 0..Duration \cup {Never}]
    BY <1>1, <1>5, RememberType DEF TypeOK
  <2> QED BY <1>1, <1>4, <1>6, <2>1 DEF TypeOK
<1>10. OneEach'
  BY <1>1, <1>7 DEF OneEach
<1>11. CASE adr # Watched
  <2>1. sent' = sent
    BY <1>5, <1>11 DEF Remember
  <2>2. \A c \in Of(Watched) : c \in Buckets \ {b}
    BY <1>2, <1>11 DEF Of
  <2>3. AllHeld'
    BY <1>1, <1>4, <1>6, <1>8, <2>1, <2>2 DEF AllHeld, Held
  <2>4. FullSince'
    BY <1>1, <1>6, <1>8, <2>1, <2>2 DEF FullSince
  <2> QED BY <1>1, <1>6, <1>9, <1>10, <2>1, <2>3, <2>4 DEF IInv, RateKept
<1>12. CASE adr = Watched
  <2>1. Of(Watched) = {b}
    BY <1>1, <1>2, <1>12 DEF OneEach, Of
  <2>2. \A n \in Answers : Held(n, lb, t)
    <3>1. \A n \in Answers : Held(n, buckets[b].burst, Since(b))
      BY <1>1, <2>1 DEF AllHeld
    <3> QED BY <1>1, <1>3, <1>4, <1>5, <3>1, HeldLater
  <2>3. CASE Refuses(b)
    <3>1. AllHeld'
      BY <1>5, <1>6, <1>8, <2>1, <2>2, <2>3 DEF AllHeld, Held
    <3>2. FullSince'
      BY <1>1, <1>3, <1>5, <1>6, <1>8, <2>1, <2>3 DEF FullSince
    <3>3. RateKept'
      BY <1>1, <1>5, <2>3 DEF RateKept
    <3> QED BY <1>6, <1>9, <1>10, <3>1, <3>2, <3>3 DEF IInv
  <2>4. CASE ~Refuses(b)
    <3>1. nb = lb + 1 /\ lb < Burst /\ Remember(Watched)
      BY <1>5, <1>12, <2>4
    <3>2. \A n \in Answers : sent'[n] # Never => sent'[n] + (n - 1) * Period < (lb + 1) * Period + t
      BY <1>1, <1>3, <1>5, <2>2, <3>1, HeldAnswer
    <3>4. \A n \in Answers : sent'[n] # Never => sent'[n] + (n - 1) * Period < nb * Period + t
      BY <3>1, <3>2
    <3>5. AllHeld'
      BY <1>6, <1>8, <2>1, <3>4 DEF AllHeld, Held
    <3>6. RateKept'
      BY <1>1, <1>3, <1>5, <2>2, <3>1, HeldRate
    <3>7. sent'[1] = elapsed
      BY <3>1, Numbers DEF Remember, Answers
    <3>8. FullSince'
      BY <1>3, <1>6, <1>8, <2>1, <3>7 DEF FullSince
    <3> QED BY <1>6, <1>9, <1>10, <3>5, <3>6, <3>8 DEF IInv
  <2> QED BY <2>3, <2>4
<1> QED
  BY <1>11, <1>12

-------------------------------------------------------------------------------
(* A request that gets a new bucket.                                         *)

\* An expired bucket holds nothing any more.
LEMMA NothingHeld ==
  ASSUME TypeOK, InTime, NEW b \in Buckets, buckets[b].adr # None, Expired(b),
         NEW n \in Answers, Held(n, buckets[b].burst, Since(b))
  PROVE  Held(n, 0, elapsed)
<1> DEFINE c == buckets[b].burst
<1>1. /\ c \in Int /\ c <= Burst /\ elapsed \in Int /\ Since(b) \in Int
      /\ Interval(b) \in Int /\ Interval(b) > Burst * Period /\ Since(b) = elapsed - Interval(b)
  BY Numbers DEF TypeOK, InTime, Since, Expired
<1>2. c * Period <= Burst * Period /\ c * Period \in Int /\ Burst * Period \in Int /\ 0 * Period = 0
  <2> HIDE DEF c
  <2> QED BY <1>1, Numbers, Products
<1>3. c * Period + Since(b) <= 0 * Period + elapsed
  <2> HIDE DEF c
  <2> QED BY <1>1, <1>2
<1> QED
  BY <1>1, <1>3, HeldLater

LEMMA NewIInv ==
  ASSUME IInv, NEW adr \in Addresses, Of(adr) = {}, NEW b \in Buckets, New(adr, b)
  PROVE  IInv'
<1>1. TypeOK /\ OneEach /\ InTime /\ AllHeld /\ FullSince /\ RateKept
  BY DEF IInv
<1>2. /\ start' = start /\ elapsed' = elapsed /\ elapsed \in Int /\ 0 <= elapsed
      /\ buckets' = [buckets EXCEPT ![b] = Bucket(adr, Signed(start + elapsed), 1)]
      /\ 1 \in 0..Burst /\ Remember(adr)
      /\ adr # None /\ Watched # None
  BY <1>1, Numbers, RateLimitAssumption DEF New, TypeOK, Now
<1>3. /\ buckets'[b].adr = adr /\ buckets'[b].burst = 1 /\ Since(b)' = elapsed
      /\ \A c \in Buckets \ {b} : buckets'[c] = buckets[c] /\ Since(c)' = Since(c)
      /\ InTime'
      /\ buckets' \in [Buckets -> [adr : Addresses \cup {None}, lastTime : Time, burst : 0..Burst]]
  <2>1. PICK t \in Int, one \in 0..Burst : t = elapsed /\ one = 1
    BY <1>2
  <2>2. /\ 0 <= t /\ t <= elapsed
        /\ buckets' = [buckets EXCEPT ![b] = Bucket(adr, Signed(start + t), one)]
    BY <1>2, <2>1
  <2>3. /\ buckets'[b].adr = adr /\ buckets'[b].burst = one /\ Since(b)' = t
        /\ \A c \in Buckets \ {b} : buckets'[c] = buckets[c] /\ Since(c)' = Since(c)
        /\ InTime'
        /\ buckets' \in [Buckets -> [adr : Addresses \cup {None}, lastTime : Time, burst : 0..Burst]]
    BY <1>1, <1>2, <2>2, Changed
  <2> QED BY <2>1, <2>3
<1>4. TypeOK'
  <2>1. sent' \in [Answers -> 0..Duration \cup {Never}]
    BY <1>1, <1>2, RememberType
  <2> QED BY <1>1, <1>2, <1>3, <2>1 DEF TypeOK
<1>5. OneEach'
  <2>1. \A c \in Buckets : buckets[c].adr # adr
    BY DEF Of
  <2> QED BY <1>1, <1>3, <2>1 DEF OneEach
<1>6. CASE adr # Watched
  <2>1. sent' = sent
    BY <1>2, <1>6 DEF Remember
  <2>2. Of(Watched)' = Of(Watched) \ {b} /\ Of(Watched) \subseteq Buckets
    BY <1>3, <1>6 DEF Of
  <2>3. \A c \in Of(Watched)' : buckets'[c] = buckets[c] /\ Since(c)' = Since(c) /\ c \in Of(Watched)
    BY <1>3, <2>2
  <2>4. ASSUME Of(Watched)' = {} PROVE \A n \in Answers : Held(n, 0, elapsed)
    <3>1. CASE Of(Watched) = {}
      BY <1>1, <3>1 DEF AllHeld
    <3>2. CASE b \in Of(Watched)
      <4>1. buckets[b].adr # None /\ Expired(b)
        BY <1>2, <3>2 DEF New, Usable, Of
      <4>2. \A n \in Answers : Held(n, buckets[b].burst, Since(b))
        BY <1>1, <3>2 DEF AllHeld
      <4> QED BY <1>1, <4>1, <4>2, NothingHeld
    <3> QED BY <2>2, <2>4, <3>1, <3>2
  <2>5. AllHeld'
    <3>1. \A c \in Of(Watched)' : \A n \in Answers : Held(n, buckets[c].burst, Since(c))'
      BY <1>1, <2>1, <2>3 DEF AllHeld, Held
    <3>2. Of(Watched)' = {} => \A n \in Answers : Held(n, 0, elapsed)'
      BY <1>2, <2>1, <2>4 DEF Held
    <3> QED BY <3>1, <3>2 DEF AllHeld
  <2>6. FullSince'
    BY <1>1, <2>1, <2>3 DEF FullSince
  <2> QED BY <1>1, <1>3, <1>4, <1>5, <2>1, <2>5, <2>6 DEF IInv, RateKept
<1>7. CASE adr = Watched
  <2>1. Of(Watched)' = {b} /\ Remember(Watched)
    BY <1>2, <1>3, <1>7 DEF Of
  <2>2. \A n \in Answers : Held(n, 0, elapsed)
    BY <1>1, <1>7 DEF AllHeld
  <2>3. \A n \in Answers : sent'[n] # Never => sent'[n] + (n - 1) * Period < (0 + 1) * Period + elapsed
    BY <1>1, <1>2, <2>1, <2>2, Numbers, HeldAnswer
  <2>4. AllHeld'
    BY <1>3, <2>1, <2>3 DEF AllHeld, Held
  <2>5. RateKept'
    BY <1>1, <1>2, <2>1, <2>2, Numbers, HeldRate
  <2>6. sent'[1] = elapsed
    BY <2>1, Numbers DEF Remember, Answers
  <2>7. FullSince'
    BY <1>2, <1>3, <2>1, <2>6 DEF FullSince
  <2> QED BY <1>3, <1>4, <1>5, <2>4, <2>5, <2>7 DEF IInv
<1> QED
  BY <1>6, <1>7

-------------------------------------------------------------------------------
LEMMA NextIInv == IInv /\ [Next]_vars => IInv'
<1> SUFFICES ASSUME IInv, [Next]_vars PROVE IInv'
  OBVIOUS
<1>1. CASE Tick
  BY <1>1, TickIInv
<1>2. ASSUME NEW adr \in Addresses, NEW b \in Of(adr), Known(b) PROVE IInv'
  BY <1>2, KnownIInv
<1>3. ASSUME NEW adr \in Addresses, Of(adr) = {}, NEW b \in Buckets, New(adr, b) PROVE IInv'
  BY <1>3, NewIInv
<1>4. CASE UNCHANGED vars
  BY <1>4 DEF vars, IInv, TypeOK, OneEach, InTime, AllHeld, FullSince, RateKept, Of, Held, Since, Interval, Now
<1> QED
  BY <1>1, <1>2, <1>3, <1>4 DEF Next

LEMMA IInvAlways == Spec => []IInv
  BY InitIInv, NextIInv, PTL DEF Spec

\* Bursts stay within the limit and times within their width.
THEOREM RateTypeCorrect == Spec => []TypeOK
<1>1. IInv => TypeOK
  BY DEF IInv
<1> QED
  BY <1>1, IInvAlways, PTL

\* No address is answered more often than its burst and period allow, whatever
\* happens to its bucket.
THEOREM RateIsKept == Spec => []RateKept
<1>1. IInv => RateKept
  BY DEF IInv
<1> QED
  BY <1>1, IInvAlways, PTL

\* An address that had no answer for a period gets one, however often it asks.
THEOREM PatienceIsRewarded == Spec => []PatientIsHeard
<1>1. IInv => PatientIsHeard
  <2> SUFFICES ASSUME IInv, NEW b \in Of(Watched), elapsed - sent[1] >= Period, Refuses(b) PROVE FALSE
    BY DEF PatientIsHeard
  <2>1. TypeOK /\ InTime /\ b \in Buckets /\ buckets[b].adr # None
    BY RateLimitAssumption DEF IInv, Of
  <2>2. PICK t \in Int :
          /\ elapsed - t < Period
          /\ Leaked(b).burst \in 0..Burst
          /\ Leaked(b).burst = Burst => t = Since(b) /\ buckets[b].burst = Burst
    BY <2>1, LeakedIs
  <2>3. Leaked(b).burst = Burst
    BY <2>2, Numbers DEF Refuses
  <2>4. t = Since(b) /\ t <= sent[1]
    BY <2>2, <2>3 DEF IInv, FullSince
  <2>5. elapsed \in Int /\ sent[1] \in Int
    BY <2>1, SentIs, Numbers DEF Answers
  <2> QED BY <2>2, <2>4, <2>5, Numbers
<1> QED
  BY <1>1, IInvAlways, PTL

-------------------------------------------------------------------------------
(* Double links, for the buckets U with hashes H.                            *)

Follow(S, L, head) == head \in S \cup {Null} /\ \A c \in S : L[c].next \in S \cup {Null}

\* A chain's head comes first in it.
HeadsFirst(U, H, L, heads) ==
  \A h \in Hashes : heads[h] # Null => /\ heads[h] \in U /\ H[heads[h]] = h
                                       /\ L[heads[h]].prev = Null

\* Neighbours have the same hash and name each other; the first is the head.
NextsBack(U, H, L) ==
  \A c \in U : L[c].next # Null => L[c].next \in U /\ H[L[c].next] = H[c] /\ L[L[c].next].prev = c
PrevsOn(U, H, L) ==
  \A c \in U : L[c].prev # Null => L[c].prev \in U /\ H[L[c].prev] = H[c] /\ L[L[c].prev].next = c
FirstsHead(U, H, L, heads) ==
  \A c \in U : L[c].prev = Null => heads[H[c]] = c

\* A walk from the head passes every bucket with the hash.
Passed(U, H, L, heads) ==
  \A c \in U, S \in SUBSET Buckets : Follow(S, L, heads[H[c]]) => c \in S

WellLinked(U, H, L, heads) ==
  /\ U \subseteq Buckets
  /\ \A c \in U : H[c] \in Hashes
  /\ \A c \in Buckets \ U : L[c] = Link(Null, Null)
  /\ HeadsFirst(U, H, L, heads) /\ NextsBack(U, H, L) /\ PrevsOn(U, H, L)
  /\ FirstsHead(U, H, L, heads) /\ Passed(U, H, L, heads)

\* L without b, and the heads
Out(L, b, c) ==
  CASE c = b -> Link(Null, Null)
    [] c # b /\ c = L[b].prev -> Link(L[c].prev, L[b].next)
    [] c # b /\ c = L[b].next -> Link(L[b].prev, L[c].next)
    [] OTHER -> L[c]

LEMMA NullNoBucket == Null \notin Buckets
  BY RateLimitAssumption DEF Null, Buckets

LEMMA Fields == \A p, n : Link(p, n).prev = p /\ Link(p, n).next = n
  BY DEF Link

\* Taking a bucket out of its chain.
LEMMA TakeOut ==
  ASSUME NEW U, NEW H, NEW L, NEW heads, NEW b \in U, WellLinked(U, H, L, heads),
         NEW M, NEW hd,
         \A c \in Buckets : M[c] = Out(L, b, c),
         \A h \in Hashes : hd[h] = IF L[b].prev = Null /\ h = H[b] THEN L[b].next ELSE heads[h]
  PROVE  WellLinked(U \ {b}, H, M, hd)
  <1> DEFINE p == L[b].prev
             n == L[b].next
  <1>0. /\ Null \notin Buckets /\ U \subseteq Buckets /\ \A c \in U : H[c] \in Hashes
        /\ \A c \in Buckets \ U : L[c].next = Null /\ L[c].prev = Null
    BY NullNoBucket, Fields DEF WellLinked
  <1>a. HeadsFirst(U, H, L, heads) /\ NextsBack(U, H, L) /\ PrevsOn(U, H, L)
        /\ FirstsHead(U, H, L, heads) /\ Passed(U, H, L, heads)
    BY DEF WellLinked
  <1>1. /\ p # Null => p \in U /\ H[p] = H[b] /\ L[p].next = b
        /\ n # Null => n \in U /\ H[n] = H[b] /\ L[n].prev = b
    BY <1>a DEF NextsBack, PrevsOn
  <1>2. n # b /\ p # b
    <2> SUFFICES ASSUME n = b PROVE FALSE
      BY <1>0, <1>1
    <2>1. p = b
      BY <1>0, <1>1
    <2>2. \A c \in Buckets \ {b} : L[c].next # b
      BY <1>0, <1>a, <2>1 DEF NextsBack
    <2>3. heads[H[b]] # b
      BY <1>0, <1>a, <2>1 DEF HeadsFirst
    <2>4. Follow(Buckets \ {b}, L, heads[H[b]])
      BY <1>0, <1>a, <2>2, <2>3 DEF Follow, HeadsFirst, NextsBack
    <2> QED
      BY <1>a, <2>4 DEF Passed
  <1>3. p # Null => p # n
    <2> SUFFICES ASSUME p # Null, p = n PROVE FALSE
      OBVIOUS
    <2>1. \A c \in Buckets \ {b, p} : L[c].next # b /\ L[c].next # p
      BY <1>0, <1>1, <1>a DEF NextsBack
    <2>2. heads[H[b]] # b /\ heads[H[b]] # p
      BY <1>0, <1>1, <1>a DEF HeadsFirst
    <2>3. Follow(Buckets \ {b, p}, L, heads[H[b]])
      BY <1>0, <1>a, <2>1, <2>2 DEF Follow, HeadsFirst, NextsBack
    <2> QED
      BY <1>a, <2>3 DEF Passed
  <1>4. /\ M[b] = Link(Null, Null)
        /\ p # Null => M[p] = Link(L[p].prev, n)
        /\ n # Null => M[n] = Link(p, L[n].next)
        /\ \A c \in Buckets \ {b, p, n} : M[c] = L[c]
    <2>1. p # Null => M[p] = Link(L[p].prev, n)
      BY <1>0, <1>1, <1>2, <1>3 DEF Out
    <2>2. n # Null => M[n] = Link(p, L[n].next)
      BY <1>0, <1>1, <1>2, <1>3 DEF Out
    <2>3. M[b] = Link(Null, Null) /\ \A c \in Buckets \ {b, p, n} : M[c] = L[c]
      BY <1>0 DEF Out
    <2> QED
      BY <2>1, <2>2, <2>3
  <1>5. /\ M[b].prev = Null /\ M[b].next = Null
        /\ p # Null => M[p].prev = L[p].prev /\ M[p].next = n
        /\ n # Null => M[n].prev = p /\ M[n].next = L[n].next
        /\ \A c \in Buckets \ {b, p, n} : M[c].prev = L[c].prev /\ M[c].next = L[c].next
    BY <1>4, Fields
  <1>6. \A h \in Hashes : hd[h] = IF p = Null /\ h = H[b] THEN n ELSE heads[h]
    OBVIOUS
  <1>7. \A c \in Buckets \ (U \ {b}) : M[c] = Link(Null, Null)
    BY <1>0, <1>1, <1>4 DEF WellLinked
  <1> HIDE DEF p, n
  <1>8. HeadsFirst(U \ {b}, H, M, hd)
    <2> SUFFICES ASSUME NEW h \in Hashes, hd[h] # Null
                 PROVE  hd[h] \in U \ {b} /\ H[hd[h]] = h /\ M[hd[h]].prev = Null
      BY DEF HeadsFirst
    <2>1. CASE p = Null /\ h = H[b]
      BY <1>1, <1>2, <1>5, <1>6, <2>1
    <2>2. CASE ~(p = Null /\ h = H[b])
      <3>1. hd[h] = heads[h] /\ heads[h] \in U /\ H[heads[h]] = h /\ L[heads[h]].prev = Null
        BY <1>6, <1>a, <2>2 DEF HeadsFirst
      <3>2. heads[h] # b
        BY <2>2, <3>1 DEF p
      <3>3. heads[h] # n
        BY <1>0, <1>1, <3>1
      <3> QED
        BY <1>0, <1>5, <3>1, <3>2, <3>3
    <2> QED
      BY <2>1, <2>2
  <1>9. NextsBack(U \ {b}, H, M)
    <2> SUFFICES ASSUME NEW c \in U \ {b}, M[c].next # Null
                 PROVE  M[c].next \in U \ {b} /\ H[M[c].next] = H[c] /\ M[M[c].next].prev = c
      BY DEF NextsBack
    <2>1. CASE c = p
      BY <1>0, <1>1, <1>2, <1>5, <2>1
    <2>2. CASE c # p
      <3> DEFINE d == L[c].next
      <3>1. M[c].next = d
        BY <1>0, <1>5, <2>2
      <3>2. d \in U /\ H[d] = H[c] /\ L[d].prev = c
        BY <1>a, <3>1 DEF NextsBack
      <3>3. d # b /\ d # n
        BY <1>0, <1>1, <2>2, <3>2 DEF p
      <3>4. M[d].prev = L[d].prev
        BY <1>0, <1>5, <3>2, <3>3
      <3> QED
        BY <3>1, <3>2, <3>3, <3>4
    <2> QED
      BY <2>1, <2>2
  <1>10. PrevsOn(U \ {b}, H, M)
    <2> SUFFICES ASSUME NEW c \in U \ {b}, M[c].prev # Null
                 PROVE  M[c].prev \in U \ {b} /\ H[M[c].prev] = H[c] /\ M[M[c].prev].next = c
      BY DEF PrevsOn
    <2>1. CASE c = n
      BY <1>0, <1>1, <1>2, <1>5, <2>1
    <2>2. CASE c # n
      <3> DEFINE d == L[c].prev
      <3>1. M[c].prev = d
        BY <1>0, <1>5, <2>2
      <3>2. d \in U /\ H[d] = H[c] /\ L[d].next = c
        BY <1>a, <3>1 DEF PrevsOn
      <3>3. d # b /\ d # p
        BY <1>0, <1>1, <2>2, <3>2 DEF n
      <3>4. M[d].next = L[d].next
        BY <1>0, <1>5, <3>2, <3>3
      <3> QED
        BY <3>1, <3>2, <3>3, <3>4
    <2> QED
      BY <2>1, <2>2
  <1>11. FirstsHead(U \ {b}, H, M, hd)
    <2> SUFFICES ASSUME NEW c \in U \ {b}, M[c].prev = Null PROVE hd[H[c]] = c
      BY DEF FirstsHead
    <2>1. CASE c = n
      BY <1>0, <1>1, <1>5, <1>6, <2>1
    <2>2. CASE c # n
      <3>1. L[c].prev = Null
        BY <1>0, <1>5, <2>2
      <3>2. heads[H[c]] = c
        BY <1>a, <3>1 DEF FirstsHead
      <3>3. p = Null => heads[H[b]] = b
        BY <1>a DEF FirstsHead, p
      <3> QED
        BY <1>0, <1>6, <3>2, <3>3
    <2> QED
      BY <2>1, <2>2
  <1>12. Passed(U \ {b}, H, M, hd)
    <2> SUFFICES ASSUME NEW c \in U \ {b}, NEW S \in SUBSET Buckets, Follow(S, M, hd[H[c]])
                 PROVE  c \in S
      BY DEF Passed
    <2>1. /\ hd[H[c]] \in S \cup {Null}
          /\ \A d \in S : M[d].next \in S \cup {Null}
      BY DEF Follow
    <2>2. \A d \in Buckets \ {b, p} : L[d].next = M[d].next /\ L[d].next # b
      <3>1. ASSUME NEW d \in Buckets, L[d].next = b PROVE d = p
        BY <1>0, <1>a, <3>1 DEF NextsBack, p
      <3> QED
        BY <1>0, <1>5, <3>1
    <2>3. CASE n \in S \cup {Null}
      <3> DEFINE T == S \cup {b}
      <3>1. heads[H[c]] \in T \cup {Null}
        BY <1>0, <1>6, <1>a, <2>1 DEF FirstsHead, p
      <3>2. \A d \in T : L[d].next \in T \cup {Null}
        BY <1>0, <1>1, <2>1, <2>2, <2>3 DEF n
      <3>3. Follow(T, L, heads[H[c]]) /\ T \in SUBSET Buckets
        BY <1>0, <3>1, <3>2 DEF Follow
      <3>4. c \in T
        BY <1>a, <3>3 DEF Passed
      <3> QED
        BY <3>4
    <2>4. CASE n \notin S \cup {Null}
      <3> DEFINE T == S \ {b}
      <3>1. heads[H[c]] \in T \cup {Null}
        <4>1. heads[H[c]] = hd[H[c]]
          BY <1>0, <1>6, <2>1, <2>4
        <4>2. ASSUME heads[H[c]] = b PROVE FALSE
          <5>1. H[b] = H[c] /\ p = Null
            BY <1>0, <1>a, <4>2 DEF HeadsFirst, p
          <5> QED
            BY <1>0, <1>6, <2>1, <2>4, <5>1
        <4> QED
          BY <2>1, <4>1, <4>2
      <3>2. p \notin S
        BY <1>0, <1>5, <2>1, <2>4
      <3>3. \A d \in T : L[d].next \in T \cup {Null}
        BY <2>1, <2>2, <3>2
      <3>4. c \in T
        BY <1>a, <3>1, <3>3 DEF Passed, Follow
      <3> QED
        BY <3>4
    <2> QED
      BY <2>3, <2>4
  <1> QED
    BY <1>0, <1>7, <1>8, <1>9, <1>10, <1>11, <1>12 DEF WellLinked

\* Putting a free bucket before the head of a chain.
LEMMA PutIn ==
  ASSUME NEW U, NEW H, NEW L, NEW heads, NEW b \in Buckets \ U, WellLinked(U, H, L, heads),
         NEW h \in Hashes, NEW G, NEW M, NEW hd,
         \A c \in U : G[c] = H[c], G[b] = h,
         \A c \in Buckets : M[c] = CASE c = b -> Link(Null, heads[h])
                                     [] c # b /\ c = heads[h] -> Link(b, L[c].next)
                                     [] OTHER -> L[c],
         \A k \in Hashes : hd[k] = IF k = h THEN b ELSE heads[k]
  PROVE  WellLinked(U \cup {b}, G, M, hd)
  <1> DEFINE n == heads[h]
  <1>0. /\ Null \notin Buckets /\ U \subseteq Buckets /\ \A c \in U : H[c] \in Hashes
        /\ \A c \in Buckets \ U : L[c].next = Null /\ L[c].prev = Null
    BY NullNoBucket, Fields DEF WellLinked
  <1>a. HeadsFirst(U, H, L, heads) /\ NextsBack(U, H, L) /\ PrevsOn(U, H, L)
        /\ FirstsHead(U, H, L, heads) /\ Passed(U, H, L, heads)
    BY DEF WellLinked
  <1>1. n # Null => n \in U /\ H[n] = h /\ L[n].prev = Null
    BY <1>a DEF HeadsFirst
  <1>2. /\ M[b] = Link(Null, n)
        /\ n # Null => M[n] = Link(b, L[n].next)
        /\ \A c \in Buckets \ {b, n} : M[c] = L[c]
    BY <1>0, <1>1
  <1>3. /\ M[b].prev = Null /\ M[b].next = n
        /\ n # Null => M[n].prev = b /\ M[n].next = L[n].next
        /\ \A c \in Buckets \ {b, n} : M[c].prev = L[c].prev /\ M[c].next = L[c].next
    BY <1>2, Fields
  <1>4. \A k \in Hashes : hd[k] = IF k = h THEN b ELSE heads[k]
    OBVIOUS
  <1>5. \A c \in Buckets \ (U \cup {b}) : M[c] = Link(Null, Null)
    BY <1>0, <1>1, <1>2 DEF WellLinked
  <1> HIDE DEF n
  <1>6. HeadsFirst(U \cup {b}, G, M, hd)
    <2> SUFFICES ASSUME NEW k \in Hashes, hd[k] # Null
                 PROVE  hd[k] \in U \cup {b} /\ G[hd[k]] = k /\ M[hd[k]].prev = Null
      BY DEF HeadsFirst
    <2>1. CASE k = h
      BY <1>3, <1>4, <2>1
    <2>2. CASE k # h
      <3>1. hd[k] = heads[k] /\ heads[k] \in U /\ H[heads[k]] = k /\ L[heads[k]].prev = Null
        BY <1>4, <1>a, <2>2 DEF HeadsFirst
      <3>2. heads[k] # n
        BY <1>0, <1>1, <2>2, <3>1
      <3> QED
        BY <1>0, <1>3, <3>1, <3>2
    <2> QED
      BY <2>1, <2>2
  <1>7. NextsBack(U \cup {b}, G, M)
    <2> SUFFICES ASSUME NEW c \in U \cup {b}, M[c].next # Null
                 PROVE  /\ M[c].next \in U \cup {b} /\ G[M[c].next] = G[c]
                        /\ M[M[c].next].prev = c
      BY DEF NextsBack
    <2>1. CASE c = b
      BY <1>1, <1>3, <2>1
    <2>2. CASE c # b
      <3> DEFINE d == L[c].next
      <3>1. M[c].next = d
        BY <1>0, <1>3, <2>2
      <3>2. d \in U /\ H[d] = H[c] /\ L[d].prev = c
        BY <1>a, <2>2, <3>1 DEF NextsBack
      <3>3. d # n /\ d # b
        BY <1>0, <1>1, <2>2, <3>2
      <3>4. M[d].prev = c
        BY <1>0, <1>3, <3>2, <3>3
      <3> QED
        BY <2>2, <3>1, <3>2, <3>4
    <2> QED
      BY <2>1, <2>2
  <1>8. PrevsOn(U \cup {b}, G, M)
    <2> SUFFICES ASSUME NEW c \in U \cup {b}, M[c].prev # Null
                 PROVE  /\ M[c].prev \in U \cup {b} /\ G[M[c].prev] = G[c]
                        /\ M[M[c].prev].next = c
      BY DEF PrevsOn
    <2>1. CASE c = b
      BY <1>3, <2>1
    <2>2. CASE c = n
      BY <1>0, <1>1, <1>3, <2>2
    <2>3. CASE c # b /\ c # n
      <3> DEFINE d == L[c].prev
      <3>1. M[c].prev = d
        BY <1>0, <1>3, <2>3
      <3>2. d \in U /\ H[d] = H[c] /\ L[d].next = c
        BY <1>a, <2>3, <3>1 DEF PrevsOn
      <3>3. M[d].next = c
        BY <1>0, <1>3, <3>2
      <3> QED
        BY <2>3, <3>1, <3>2, <3>3
    <2> QED
      BY <2>1, <2>2, <2>3
  <1>9. FirstsHead(U \cup {b}, G, M, hd)
    <2> SUFFICES ASSUME NEW c \in U \cup {b}, M[c].prev = Null PROVE hd[G[c]] = c
      BY DEF FirstsHead
    <2>1. CASE c = b
      BY <1>4, <2>1
    <2>2. CASE c # b
      <3>1. c # n /\ L[c].prev = Null
        BY <1>0, <1>1, <1>3, <2>2
      <3>2. heads[H[c]] = c
        BY <1>a, <2>2, <3>1 DEF FirstsHead
      <3> QED
        BY <1>0, <1>4, <2>2, <3>1, <3>2 DEF n
    <2> QED
      BY <2>1, <2>2
  <1>10. Passed(U \cup {b}, G, M, hd)
    <2> SUFFICES ASSUME NEW c \in U \cup {b}, NEW S \in SUBSET Buckets, Follow(S, M, hd[G[c]])
                 PROVE  c \in S
      BY DEF Passed
    <2>1. /\ hd[G[c]] \in S \cup {Null}
          /\ \A d \in S : M[d].next \in S \cup {Null}
      BY DEF Follow
    <2> DEFINE T == S \ {b}
    <2>2. \A d \in T : L[d].next \in T \cup {Null}
      <3> SUFFICES ASSUME NEW d \in T PROVE L[d].next \in T \cup {Null}
        OBVIOUS
      <3>1. L[d].next = M[d].next
        BY <1>0, <1>3
      <3>2. L[d].next # b
        BY <1>0, <1>a DEF NextsBack
      <3> QED
        BY <2>1, <3>1, <3>2
    <2>3. CASE G[c] = h
      <3>1. b \in S
        BY <1>0, <1>4, <2>1, <2>3
      <3>2. n \in T \cup {Null}
        BY <1>0, <1>1, <1>3, <2>1, <3>1
      <3>3. Follow(T, L, heads[h]) /\ T \in SUBSET Buckets
        BY <2>2, <3>2 DEF Follow, n
      <3>4. ASSUME c # b PROVE c \in T
        <4>1. c \in U /\ H[c] = h
          BY <2>3, <3>4
        <4> QED
          BY <1>a, <3>3, <4>1 DEF Passed
      <3> QED
        BY <3>1, <3>4
    <2>4. CASE G[c] # h
      <3>1. c \in U /\ H[c] = G[c] /\ H[c] \in Hashes
        BY <1>0, <2>4
      <3>2. heads[H[c]] \in S \cup {Null}
        BY <1>4, <2>1, <2>4, <3>1
      <3>3. heads[H[c]] # b
        BY <1>0, <1>a, <3>1 DEF HeadsFirst
      <3>4. c \in T
        BY <1>a, <2>2, <3>1, <3>2, <3>3 DEF Passed, Follow
      <3> QED
        BY <3>4
    <2> QED
      BY <2>3, <2>4
  <1>11. \A c \in U \cup {b} : G[c] \in Hashes
    BY <1>0
  <1> QED
    BY <1>0, <1>5, <1>6, <1>7, <1>8, <1>9, <1>10, <1>11 DEF WellLinked

-------------------------------------------------------------------------------
(* The chains of the program.                                                *)

Taken == {b \in Buckets : buckets[b].adr # None}
HashIn == [b \in Buckets |-> HashOf[buckets[b].adr]]

ChainsInv == WellLinked(Taken, HashIn, links, bucketHashes)

ChainsType ==
  /\ DOMAIN links = Buckets /\ DOMAIN bucketHashes = Hashes

\* Every bucket of an address is in the chain of its hash: the loop of
\* SVC_BucketForAddress finds what the table has.
LEMMA FoundIsOf ==
  ASSUME TypeOK, ChainsInv, NEW adr \in Addresses
  PROVE  Found(adr) = Of(adr)
  <1>1. None \notin Addresses
    BY RateLimitAssumption
  <1>2. Found(adr) \subseteq Of(adr)
    BY DEF Found, Of, Chain
  <1>3. ASSUME NEW b \in Of(adr) PROVE b \in Found(adr)
    <2>1. b \in Taken /\ HashIn[b] = HashOf[adr] /\ b \in Buckets /\ buckets[b].adr = adr
      BY <1>1 DEF Of, Taken, HashIn
    <2>2. ASSUME NEW S \in SUBSET Buckets, Follows(S, HashOf[adr]) PROVE b \in S
      BY <2>1, <2>2 DEF ChainsInv, WellLinked, Passed, Follow, Follows
    <2> QED
      BY <2>1, <2>2 DEF Found, Chain
  <1> QED
    BY <1>2, <1>3

LEMMA InitChains == ChainInit => ChainsInv /\ ChainsType
  <1> SUFFICES ASSUME ChainInit PROVE ChainsInv /\ ChainsType
    OBVIOUS
  <1>1. Taken = {}
    BY DEF ChainInit, Init, Taken, Bucket
  <1>2. /\ \A b \in Buckets : links[b] = Link(Null, Null)
        /\ \A h \in Hashes : bucketHashes[h] = Null
        /\ ChainsType
    BY DEF ChainInit, ChainsType
  <1> QED
    BY <1>1, <1>2 DEF ChainsInv, WellLinked, HeadsFirst, NextsBack, PrevsOn, FirstsHead, Passed

\* Reclaiming a bucket and putting it at the head of another chain.
LEMMA NewChains ==
  ASSUME TypeOK, ChainsInv, ChainsType, NEW adr \in Addresses, NEW b \in Buckets, New(adr, b),
         Relinked(adr, b)
  PROVE  ChainsInv' /\ ChainsType'
  <1> DEFINE U == Taken \ {b}
             L == [c \in Buckets |-> Unlinked(b, c)]
             H == HashIn
             heads == Heads(b)
             h == HashOf[adr]
  <1>0. /\ h \in Hashes /\ None \notin Addresses
        /\ HashOf \in [Addresses -> Hashes]
    BY BucketChainsAssumption, RateLimitAssumption
  <1>1. \A c \in Buckets : buckets[c].adr \in Addresses \cup {None}
    BY DEF TypeOK
  <1>2. WellLinked(U, H, L, heads) /\ DOMAIN heads = Hashes
    <2>1. CASE buckets[b].adr # None
      <3>1. b \in Taken /\ H[b] = HashOf[buckets[b].adr] /\ H[b] \in Hashes
        BY <1>0, <1>1, <2>1 DEF Taken, HashIn
      <3>2. \A c \in Buckets : L[c] = Out(links, b, c)
        BY DEF Out, Unlinked
      <3>3. /\ \A k \in Hashes : heads[k] = IF links[b].prev = Null /\ k = H[b] THEN links[b].next
                                            ELSE bucketHashes[k]
            /\ DOMAIN heads = Hashes
        BY <2>1, <3>1 DEF Heads, WithoutHead, ChainsType
      <3> HIDE DEF L, H, heads
      <3>4. WellLinked(Taken, H, links, bucketHashes)
        BY DEF ChainsInv, H
      <3> QED
        BY <3>1, <3>2, <3>3, <3>4, TakeOut
    <2>2. CASE buckets[b].adr = None
      <3>1. b \notin Taken /\ U = Taken
        BY <2>2 DEF Taken
      <3>2. links[b] = Link(Null, Null)
        BY <3>1 DEF ChainsInv, WellLinked
      <3>3. \A c \in Buckets : L[c] = links[c]
        BY <3>2, NullNoBucket, Fields DEF Unlinked
      <3>4. heads = bucketHashes /\ DOMAIN heads = Hashes
        BY <2>2 DEF Heads, ChainsType
      <3> HIDE DEF L, H, heads, U
      <3>5. WellLinked(U, H, links, bucketHashes) /\ U \subseteq Buckets
        BY <3>1 DEF ChainsInv, H, WellLinked
      <3>6. WellLinked(U, H, L, heads)
        <4>1. /\ \A c \in Buckets \ U : L[c] = Link(Null, Null)
              /\ \A c \in U : H[c] \in Hashes
          BY <3>3, <3>5 DEF WellLinked
        <4>2. HeadsFirst(U, H, L, heads)
          BY <3>3, <3>4, <3>5 DEF WellLinked, HeadsFirst
        <4>3. NextsBack(U, H, L)
          BY <3>3, <3>5 DEF WellLinked, NextsBack
        <4>4. PrevsOn(U, H, L)
          BY <3>3, <3>5 DEF WellLinked, PrevsOn
        <4>5. FirstsHead(U, H, L, heads)
          BY <3>3, <3>4, <3>5 DEF WellLinked, FirstsHead
        <4>6. Passed(U, H, L, heads)
          BY <3>3, <3>4, <3>5 DEF WellLinked, Passed, Follow
        <4> QED
          BY <3>5, <4>1, <4>2, <4>3, <4>4, <4>5, <4>6 DEF WellLinked
      <3> QED
        BY <3>4, <3>6
    <2> QED
      BY <2>1, <2>2
  <1>3. buckets' = [buckets EXCEPT ![b] = Bucket(adr, Now, 1)]
    BY DEF New
  <1>4. /\ Taken' = U \cup {b}
        /\ \A c \in U : HashIn'[c] = H[c]
        /\ HashIn'[b] = h
    BY <1>0, <1>3 DEF Taken, HashIn, Bucket, TypeOK
  <1>5. /\ \A c \in Buckets : links'[c] = CASE c = b -> Link(Null, heads[h])
                                            [] c # b /\ c = heads[h] -> Link(b, L[c].next)
                                            [] OTHER -> L[c]
        /\ DOMAIN links' = Buckets
    BY DEF Relinked
  <1>6. /\ \A k \in Hashes : bucketHashes'[k] = IF k = h THEN b ELSE heads[k]
        /\ DOMAIN bucketHashes' = Hashes
    BY <1>2 DEF Relinked
  <1>7. b \in Buckets \ U
    OBVIOUS
  <1>8. WellLinked(U \cup {b}, HashIn', links', bucketHashes')
    <2> HIDE DEF U, L, H, heads, h
    <2> QED
      BY <1>0, <1>2, <1>4, <1>5, <1>6, <1>7, PutIn
  <1> QED
    BY <1>4, <1>5, <1>6, <1>8 DEF ChainsInv, ChainsType

\* Nothing else touches a link or an address.
LEMMA SameChains ==
  ASSUME ChainsInv, ChainsType, UNCHANGED chains, \A b \in Buckets : buckets'[b].adr = buckets[b].adr
  PROVE  ChainsInv' /\ ChainsType'
  <1>1. Taken' = Taken /\ HashIn' = HashIn /\ links' = links /\ bucketHashes' = bucketHashes
    BY DEF Taken, HashIn, chains
  <1> QED
    BY <1>1 DEF ChainsInv, ChainsType

LEMMA StepChains ==
  ASSUME TypeOK, ChainsInv, ChainsType, [ChainNext]_<<vars, chains>>
  PROVE  [Next]_vars /\ ChainsInv' /\ ChainsType'
  <1>1. CASE Tick /\ UNCHANGED chains
    BY <1>1, SameChains DEF Tick, Next
  <1>2. ASSUME NEW adr \in Addresses, NEW b \in Found(adr), Known(b), UNCHANGED chains
        PROVE  [Next]_vars /\ ChainsInv' /\ ChainsType'
    <2>1. b \in Of(adr)
      BY FoundIsOf
    <2>2. \A c \in Buckets : buckets'[c].adr = buckets[c].adr
      BY <1>2 DEF Known, Bucket, TypeOK
    <2> QED
      BY <1>2, <2>1, <2>2, SameChains DEF Next
  <1>3. ASSUME NEW adr \in Addresses, Found(adr) = {}, NEW b \in Buckets, New(adr, b), Relinked(adr, b)
        PROVE  [Next]_vars /\ ChainsInv' /\ ChainsType'
    <2>1. Of(adr) = {}
      BY <1>3, FoundIsOf
    <2> QED
      BY <1>3, <2>1, NewChains DEF Next
  <1>4. CASE UNCHANGED <<vars, chains>>
    BY <1>4, SameChains DEF vars
  <1> QED
    BY <1>1, <1>2, <1>3, <1>4 DEF ChainNext

LEMMA ChainsAlways == ChainSpec => Spec /\ [](TypeOK /\ ChainsInv /\ ChainsType)
  <1>1. ChainInit => Init /\ IInv /\ ChainsInv /\ ChainsType
    BY InitIInv, InitChains DEF ChainInit
  <1>2. (IInv /\ ChainsInv /\ ChainsType) /\ [ChainNext]_<<vars, chains>>
          => [Next]_vars /\ (IInv /\ ChainsInv /\ ChainsType)'
    BY NextIInv, StepChains DEF IInv
  <1>3. IInv => TypeOK
    BY DEF IInv
  <1> QED
    BY <1>1, <1>2, <1>3, PTL DEF ChainSpec, Spec

\* Reclaiming buckets out of the middle of hash chains and putting them at the
\* head of others never loses a bucket or gives an address a second one: what
\* SVC_BucketForAddress finds is what the table has, for any hash and any order
\* of addresses.
THEOREM ChainsFindAll == ChainSpec => FindsAll
  BY ChainsAlways, PTL DEF FindsAll

\* So the rate of RateIsKept holds of the buckets as they are found.
THEOREM ChainsKeepTheRate == ChainSpec => [](RateKept /\ PatientIsHeard)
  BY ChainsAlways, RateIsKept, PatienceIsRewarded, PTL
===============================================================================
