-------------------------- MODULE ServerLists_proofs --------------------------
(***************************************************************************)
(* What the lists of servers promise: a stored one for every limit, every  *)
(* number of servers and sessions, and any number of calls under way or    *)
(* lost; that of the browser for all addresses, slots, limits, packets and *)
(* refreshes.                                                              *)
(***************************************************************************)
EXTENDS ServerStorage, ServerList, SequenceTheorems, FiniteSetTheorems, NaturalsInduction, WellFoundedInduction, TLAPS

-------------------------------------------------------------------------------
(* Lists.                                                                    *)

\* No entry twice, and no more than the limit.
Kept(s) == Distinct(s) /\ Len(s) <= Limit

LEMMA LimitIs == Limit \in Nat /\ Limit > 0 /\ MaxStored \in Nat
  BY ServerStorageAssumption DEF Limit

LEMMA EmptyKept == Kept(<<>>) /\ Entries(<<>>) = {}
  BY LimitIs DEF Kept, Distinct, Entries

LEMMA TailKept ==
  ASSUME NEW s \in Seq(Servers), s # <<>>
  PROVE  /\ Tail(s) \in Seq(Servers) /\ Len(Tail(s)) = Len(s) - 1
         /\ Distinct(s) => Distinct(Tail(s))
         /\ Entries(Tail(s)) \subseteq Entries(s)
<1>1. /\ Tail(s) \in Seq(Servers) /\ Len(Tail(s)) = Len(s) - 1 /\ Len(s) \in Nat
      /\ \A i \in 1..Len(Tail(s)) : Tail(s)[i] = s[i + 1] /\ i + 1 \in 1..Len(s)
  BY HeadTailProperties, LenProperties
<1>2. Distinct(s) => Distinct(Tail(s))
  <2> SUFFICES ASSUME Distinct(s), NEW i \in 1..Len(Tail(s)), NEW j \in 1..Len(Tail(s)), Tail(s)[i] = Tail(s)[j]
               PROVE  i = j
    BY DEF Distinct
  <2>1. s[i + 1] = s[j + 1] /\ i + 1 \in 1..Len(s) /\ j + 1 \in 1..Len(s)
    BY <1>1
  <2>2. i + 1 = j + 1
    BY <2>1 DEF Distinct
  <2> QED BY <2>2
<1>3. Entries(Tail(s)) \subseteq Entries(s)
  BY <1>1 DEF Entries
<1> QED
  BY <1>1, <1>2, <1>3

LEMMA AppendKept ==
  ASSUME NEW s \in Seq(Servers), NEW a \in Servers
  PROVE  /\ Append(s, a) \in Seq(Servers) /\ Len(Append(s, a)) = Len(s) + 1
         /\ Entries(Append(s, a)) = Entries(s) \cup {a}
         /\ Distinct(s) /\ a \notin Entries(s) => Distinct(Append(s, a))
<1>1. /\ Append(s, a) \in Seq(Servers) /\ Len(Append(s, a)) = Len(s) + 1 /\ Len(s) \in Nat
      /\ \A i \in 1..Len(s) : Append(s, a)[i] = s[i]
      /\ Append(s, a)[Len(s) + 1] = a
  BY AppendProperties, LenProperties
<1>2. 1..Len(Append(s, a)) = 1..Len(s) \cup {Len(s) + 1}
  BY <1>1
<1>3. Entries(Append(s, a)) = Entries(s) \cup {a}
  BY <1>1, <1>2 DEF Entries
<1>4. Distinct(s) /\ a \notin Entries(s) => Distinct(Append(s, a))
  BY <1>1, <1>2 DEF Entries, Distinct
<1> QED
  BY <1>1, <1>3, <1>4

LEMMA WithoutKept ==
  ASSUME NEW s \in Seq(Servers), NEW i \in 1..Len(s)
  PROVE  /\ Without(s, i) \in Seq(Servers) /\ Len(Without(s, i)) = Len(s) - 1
         /\ Entries(Without(s, i)) \subseteq Entries(s)
         /\ Distinct(s) => Distinct(Without(s, i)) /\ Entries(Without(s, i)) = Entries(s) \ {s[i]}
<1> DEFINE n == Len(s)
           a == SubSeq(s, 1, i - 1)
           b == SubSeq(s, i + 1, n)
           w == Without(s, i)
<1>1. n \in Nat /\ i \in 1..n /\ \A k \in 1..n : s[k] \in Servers
  BY LenProperties, ElementOfSeq
<1>2. a \in Seq(Servers) /\ Len(a) = i - 1 /\ \A k \in 1..(i - 1) : a[k] = s[k]
  BY <1>1
<1>3. b \in Seq(Servers) /\ Len(b) = n - i /\ \A k \in 1..(n - i) : b[k] = s[i + k]
  BY <1>1
<1>4. /\ w \in Seq(Servers) /\ Len(w) = n - 1
      /\ \A k \in 1..(n - 1) : w[k] = IF k < i THEN s[k] ELSE s[k + 1]
  <2> HIDE DEF a, b
  <2>1. w = a \o b
    BY DEF Without, a, b
  <2> HIDE DEF w
  <2>2. /\ w \in Seq(Servers) /\ Len(w) = Len(a) + Len(b)
        /\ \A k \in 1..(Len(a) + Len(b)) : w[k] = IF k <= Len(a) THEN a[k] ELSE b[k - Len(a)]
    BY <1>2, <1>3, <2>1, ConcatProperties
  <2>3. Len(a) + Len(b) = n - 1
    BY <1>1, <1>2, <1>3
  <2>4. ASSUME NEW k \in 1..(n - 1) PROVE w[k] = IF k < i THEN s[k] ELSE s[k + 1]
    <3>1. CASE k < i
      BY <1>1, <1>2, <2>2, <2>3, <3>1
    <3>2. CASE ~(k < i)
      <4>1. k - (i - 1) \in 1..(n - i) /\ i + (k - (i - 1)) = k + 1 /\ ~(k <= i - 1)
        BY <1>1, <3>2
      <4> QED BY <1>2, <1>3, <2>2, <2>3, <3>2, <4>1
    <3> QED BY <3>1, <3>2
  <2> QED BY <2>2, <2>3, <2>4
<1> HIDE DEF w, n
<1>5. Entries(w) = {s[k] : k \in 1..n \ {i}}
  <2>1. \A k \in 1..(n - 1) : \E m \in 1..n \ {i} : w[k] = s[m]
    <3> SUFFICES ASSUME NEW k \in 1..(n - 1) PROVE \E m \in 1..n \ {i} : w[k] = s[m]
      OBVIOUS
    <3>1. CASE k < i
      BY <1>1, <1>4, <3>1
    <3>2. CASE ~(k < i)
      <4>1. k + 1 \in 1..n \ {i}
        BY <1>1, <3>2
      <4> QED BY <1>4, <3>2, <4>1
    <3> QED BY <3>1, <3>2
  <2>2. \A m \in 1..n \ {i} : \E k \in 1..(n - 1) : w[k] = s[m]
    <3> SUFFICES ASSUME NEW m \in 1..n \ {i} PROVE \E k \in 1..(n - 1) : w[k] = s[m]
      OBVIOUS
    <3>1. CASE m < i
      BY <1>1, <1>4, <3>1
    <3>2. CASE ~(m < i)
      <4>1. m - 1 \in 1..(n - 1) /\ ~(m - 1 < i) /\ (m - 1) + 1 = m
        BY <1>1, <3>2
      <4>2. w[m - 1] = s[m]
        BY <1>4, <4>1
      <4> QED BY <4>1, <4>2
    <3> QED BY <3>1, <3>2
  <2>3. Entries(w) = {w[k] : k \in 1..(n - 1)}
    BY <1>4 DEF Entries
  <2> QED BY <2>1, <2>2, <2>3
<1>6. ASSUME Distinct(s) PROVE Distinct(w) /\ Entries(w) = Entries(s) \ {s[i]}
  <2>1. \A j, k \in 1..n : s[j] = s[k] => j = k
    BY <1>6 DEF Distinct, n
  <2>2. Distinct(w)
    <3> SUFFICES ASSUME NEW j \in 1..(n - 1), NEW k \in 1..(n - 1), w[j] = w[k]
                 PROVE  j = k
      BY <1>4 DEF Distinct
    <3>1. j \in 1..n /\ k \in 1..n /\ j + 1 \in 1..n /\ k + 1 \in 1..n
      BY <1>1
    <3>2. w[j] = (IF j < i THEN s[j] ELSE s[j + 1]) /\ w[k] = (IF k < i THEN s[k] ELSE s[k + 1])
      BY <1>4
    <3>3. CASE j < i /\ k < i
      BY <2>1, <3>1, <3>2, <3>3
    <3>4. CASE j < i /\ ~(k < i)
      <4>1. j = k + 1
        BY <2>1, <3>1, <3>2, <3>4
      <4> QED BY <1>1, <3>4, <4>1
    <3>5. CASE ~(j < i) /\ k < i
      <4>1. j + 1 = k
        BY <2>1, <3>1, <3>2, <3>5
      <4> QED BY <1>1, <3>5, <4>1
    <3>6. CASE ~(j < i) /\ ~(k < i)
      <4>1. j + 1 = k + 1
        BY <2>1, <3>1, <3>2, <3>6
      <4> QED BY <4>1
    <3> QED BY <3>3, <3>4, <3>5, <3>6
  <2>3. Entries(s) = {s[k] : k \in 1..n}
    BY DEF Entries, n
  <2> QED BY <1>1, <1>5, <2>1, <2>2, <2>3
<1>7. Entries(w) \subseteq Entries(s)
  BY <1>5 DEF Entries, n
<1> QED
  BY <1>4, <1>6, <1>7 DEF w, n

LEMMA FirstIs ==
  ASSUME NEW s \in Seq(Servers), NEW a \in Entries(s)
  PROVE  First(s, a) \in 1..Len(s) /\ s[First(s, a)] = a
<1> DEFINE S == {i \in 1..Len(s) : s[i] = a}
<1>1. S \subseteq Nat /\ S # {} /\ Len(s) \in Nat
  BY LenProperties DEF Entries
<1>2. IsWellFoundedOn(OpToRel(<, Nat), Nat)
  BY NatLessThanWellFounded
<1>3. PICK i \in S : \A j \in S : ~(<<j, i>> \in OpToRel(<, Nat))
  <2> HIDE DEF S
  <2>1. \E i \in S : \A j \in S : ~(<<j, i>> \in OpToRel(<, Nat))
    BY <1>1, <1>2, WFMin, Zenon
  <2> QED BY <2>1
<1>4. ASSUME NEW j \in 1..(i - 1) PROVE s[j] # a
  <2> SUFFICES ASSUME s[j] = a PROVE FALSE
    OBVIOUS
  <2>1. j \in S /\ j < i /\ i \in Nat /\ j \in Nat
    BY <1>1
  <2>2. <<j, i>> \in OpToRel(<, Nat)
    BY <2>1 DEF OpToRel
  <2> QED BY <1>3, <2>1, <2>2
<1> QED
  BY <1>4 DEF First

\* A write is under way, and no later one.
LastWrite(q, i) == i \in 1..Len(q) /\ q[i].kind = "write" /\ \A j \in (i + 1)..Len(q) : q[j].kind # "write"
NoWrite(q) == \A i \in 1..Len(q) : q[i].kind # "write"

LEMMA NoWriteIs == Writes = {} <=> NoWrite(requests)
  BY DEF Writes, Of, NoWrite

LEMMA QueueAppend ==
  ASSUME NEW q \in Seq(Requests), NEW r \in Requests
  PROVE  /\ Append(q, r) \in Seq(Requests)
         /\ \A i \in 1..Len(Append(q, r)) : Append(q, r)[i] = r \/ (i \in 1..Len(q) /\ Append(q, r)[i] = q[i])
         /\ r.kind # "write" => (NoWrite(Append(q, r)) <=> NoWrite(q)) /\ \A i : LastWrite(Append(q, r), i) => LastWrite(q, i) /\ Append(q, r)[i] = q[i]
         /\ r.kind = "write" => ~NoWrite(Append(q, r)) /\ \A i : LastWrite(Append(q, r), i) => Append(q, r)[i] = r
<1> DEFINE p == Append(q, r)
<1>1. /\ p \in Seq(Requests) /\ Len(p) = Len(q) + 1 /\ Len(q) \in Nat
      /\ \A i \in 1..Len(q) : p[i] = q[i]
      /\ p[Len(q) + 1] = r
  BY AppendProperties, LenProperties
<1> HIDE DEF p
<1>2. 1..Len(p) = 1..Len(q) \cup {Len(q) + 1}
  BY <1>1
<1>3. \A i \in 1..Len(p) : p[i] = r \/ (i \in 1..Len(q) /\ p[i] = q[i])
  BY <1>1, <1>2
<1>4. ASSUME r.kind # "write"
      PROVE  (NoWrite(p) <=> NoWrite(q)) /\ \A i : LastWrite(p, i) => LastWrite(q, i) /\ p[i] = q[i]
  <2>1. NoWrite(p) <=> NoWrite(q)
    BY <1>1, <1>2, <1>4 DEF NoWrite
  <2>2. ASSUME NEW i, LastWrite(p, i) PROVE LastWrite(q, i) /\ p[i] = q[i]
    <3>1. i \in 1..Len(q) /\ p[i] = q[i] /\ q[i].kind = "write"
      BY <1>1, <1>2, <1>4, <2>2 DEF LastWrite
    <3>2. \A j \in (i + 1)..Len(q) : j \in (i + 1)..Len(p) /\ j \in 1..Len(q)
      BY <1>1, <3>1
    <3> QED BY <1>1, <2>2, <3>1, <3>2 DEF LastWrite
  <2> QED BY <2>1, <2>2
<1>5. ASSUME r.kind = "write"
      PROVE  ~NoWrite(p) /\ \A i : LastWrite(p, i) => p[i] = r
  <2>1. ~NoWrite(p)
    BY <1>1, <1>2, <1>5 DEF NoWrite
  <2>2. ASSUME NEW i, LastWrite(p, i) PROVE p[i] = r
    <3>1. i \in 1..Len(q) => Len(q) + 1 \in (i + 1)..Len(p)
      BY <1>1
    <3> QED BY <1>1, <1>2, <1>5, <2>2, <3>1 DEF LastWrite
  <2> QED BY <2>1, <2>2
<1> QED
  BY <1>1, <1>3, <1>4, <1>5 DEF p

LEMMA QueueTail ==
  ASSUME NEW q \in Seq(Requests), q # <<>>
  PROVE  /\ Tail(q) \in Seq(Requests) /\ Head(q) = q[1] /\ 1 \in 1..Len(q) /\ Head(q) \in Requests
         /\ \A i \in 1..Len(Tail(q)) : i + 1 \in 1..Len(q) /\ Tail(q)[i] = q[i + 1]
         /\ \A i : LastWrite(Tail(q), i) => LastWrite(q, i + 1) /\ Tail(q)[i] = q[i + 1]
         /\ NoWrite(Tail(q)) => NoWrite(q) \/ LastWrite(q, 1)
<1> DEFINE p == Tail(q)
<1>1. /\ p \in Seq(Requests) /\ Len(p) = Len(q) - 1 /\ Len(q) \in Nat /\ Len(q) > 0
      /\ \A i \in 1..Len(p) : p[i] = q[i + 1]
      /\ Head(q) = q[1] /\ Head(q) \in Requests
  BY HeadTailProperties, LenProperties, EmptySeq
<1> HIDE DEF p
<1>2. \A i \in 1..Len(p) : i + 1 \in 1..Len(q) /\ p[i] = q[i + 1]
  BY <1>1
<1>3. ASSUME NEW i, LastWrite(p, i) PROVE LastWrite(q, i + 1) /\ p[i] = q[i + 1]
  <2>1. i \in 1..Len(p) /\ p[i] = q[i + 1] /\ i + 1 \in 1..Len(q)
    BY <1>1, <1>3 DEF LastWrite
  <2>2. ASSUME NEW j \in ((i + 1) + 1)..Len(q) PROVE q[j].kind # "write"
    <3>1. j - 1 \in (i + 1)..Len(p) /\ j - 1 \in 1..Len(p) /\ (j - 1) + 1 = j
      BY <1>1, <2>1
    <3> QED BY <1>1, <1>3, <3>1 DEF LastWrite
  <2> QED BY <1>3, <2>1, <2>2 DEF LastWrite
<1>4. ASSUME NoWrite(p), ~NoWrite(q) PROVE LastWrite(q, 1)
  <2>1. \A j \in 2..Len(q) : j - 1 \in 1..Len(p) /\ (j - 1) + 1 = j
    BY <1>1
  <2>2. \A j \in 2..Len(q) : q[j].kind # "write"
    BY <1>1, <1>4, <2>1 DEF NoWrite
  <2>3. \A j \in 1..Len(q) : j = 1 \/ j \in 2..Len(q)
    BY <1>1
  <2> QED BY <1>1, <1>4, <2>2, <2>3 DEF NoWrite, LastWrite
<1>5. 1 \in 1..Len(q)
  BY <1>1
<1>6. NoWrite(p) => NoWrite(q) \/ LastWrite(q, 1)
  BY <1>4
<1>7. \A i : LastWrite(p, i) => LastWrite(q, i + 1) /\ p[i] = q[i + 1]
  BY <1>3
<1> QED
  <2>1. p = Tail(q)
    BY DEF p
  <2> QED BY <1>1, <1>2, <1>5, <1>6, <1>7, <2>1

-------------------------------------------------------------------------------
(* Types.                                                                    *)

Replies == [ok : BOOLEAN, list : Seq(Servers)]

LEMMA GetIs == Get \in Requests /\ Get.kind # "write"
  BY EmptySeq DEF Get, Requests

LEMMA WriteIs == ASSUME NEW s \in Seq(Servers) PROVE Write(s) \in Requests /\ Write(s).kind = "write" /\ Write(s).list = s
  BY DEF Write, Requests

\* What Edit assigns.
LEMMA EditTypeOK ==
  ASSUME TypeOK, NEW s \in Seq(Servers), NEW wanted \in SUBSET Servers, Edit(s, wanted)
  PROVE  TypeOK'
<1>1. requests' \in Seq(Requests)
  BY WriteIs, QueueAppend DEF Edit, TypeOK
<1> QED
  BY <1>1 DEF Edit, TypeOK, bounds

LEMMA EvictIs ==
  ASSUME NEW s \in Seq(Servers)
  PROVE  /\ Evict(s) \in Seq(Servers) /\ Entries(Evict(s)) \subseteq Entries(s)
         /\ Kept(s) => Distinct(Evict(s)) /\ Len(Evict(s)) < Limit
<1>1. Len(s) \in Nat /\ Limit \in Nat /\ Limit > 0
  BY LenProperties, LimitIs
<1>2. CASE Len(s) >= Limit
  <2>1. s # <<>>
    BY <1>1, <1>2
  <2>2. Evict(s) = Tail(s)
    BY <1>2 DEF Evict
  <2> QED BY <1>1, <2>1, <2>2, TailKept DEF Kept
<1>3. CASE ~(Len(s) >= Limit)
  BY <1>1, <1>3 DEF Evict, Kept
<1> QED
  BY <1>2, <1>3

\* A server is added as a well-kept list's last entry.
LEMMA AddEntryIs ==
  ASSUME TypeOK, NEW a \in Servers \cup {Loopback}, AddEntry(a)
  PROVE  \E s \in Seq(Servers), wanted \in SUBSET Servers :
           /\ Edit(s, wanted)
           /\ Kept(data) => Kept(s)
           /\ Entries(data) = expected => Entries(s) = wanted
<1>1. a \in Servers /\ a \notin Entries(data) /\ Edit(Append(Evict(data), a), Wanted(Evict(data), a))
  BY DEF AddEntry
<1> DEFINE e == Evict(data)
           s == Append(e, a)
<1>2. data \in Seq(Servers) /\ expected \subseteq Servers
  BY DEF TypeOK
<1>3. e \in Seq(Servers) /\ Entries(e) \subseteq Entries(data) /\ (Kept(data) => Distinct(e) /\ Len(e) < Limit)
  BY <1>2, EvictIs
<1>4. /\ s \in Seq(Servers) /\ Len(s) = Len(e) + 1 /\ Entries(s) = Entries(e) \cup {a}
      /\ Distinct(e) /\ a \notin Entries(e) => Distinct(s)
  <2> HIDE DEF e
  <2> QED BY <1>1, <1>3, AppendKept
<1>5. Wanted(e, a) \in SUBSET Servers /\ (Entries(data) = expected => Entries(s) = Wanted(e, a))
  <2> HIDE DEF e, s
  <2> QED BY <1>1, <1>2, <1>3, <1>4 DEF Wanted
<1>6. Kept(data) => Kept(s)
  <2>1. Len(e) \in Nat
    BY <1>3, LenProperties
  <2> HIDE DEF e, s
  <2> QED BY <1>1, <1>3, <1>4, <2>1, LimitIs DEF Kept
<1> HIDE DEF s
<1> QED
  BY <1>1, <1>4, <1>5, <1>6 DEF s

\* A server is removed from the list, and nothing else is.
LEMMA RemoveEntryIs ==
  ASSUME TypeOK, NEW a \in Servers, RemoveEntry(a)
  PROVE  \E s \in Seq(Servers), wanted \in SUBSET Servers :
           /\ Edit(s, wanted)
           /\ Kept(data) => Kept(s)
           /\ Kept(data) /\ Entries(data) = expected => Entries(s) = wanted
<1> DEFINE i == First(data, a)
           s == Without(data, i)
<1>1. a \in Entries(data) /\ Edit(s, expected \ {a})
  BY DEF RemoveEntry
<1>2. data \in Seq(Servers) /\ expected \subseteq Servers /\ Len(data) \in Nat
  BY LenProperties DEF TypeOK
<1>3. i \in 1..Len(data) /\ data[i] = a
  BY <1>1, <1>2, FirstIs
<1>4. /\ s \in Seq(Servers) /\ Len(s) = Len(data) - 1
      /\ Distinct(data) => Distinct(s) /\ Entries(s) = Entries(data) \ {a}
  <2> HIDE DEF i
  <2> QED BY <1>2, <1>3, WithoutKept
<1> HIDE DEF i, s
<1>5. Kept(data) => Kept(s)
  BY <1>2, <1>4, LimitIs DEF Kept
<1> QED
  BY <1>1, <1>2, <1>4, <1>5 DEF Kept

\* What is answered is taken off the replies.
LEMMA ReplyIs ==
  ASSUME TypeOK, replies # <<>>
  PROVE  /\ Head(replies) \in Replies /\ Tail(replies) \in Seq(Replies)
         /\ 1 \in 1..Len(replies) /\ Head(replies) = replies[1]
         /\ \A i \in 1..Len(Tail(replies)) : i + 1 \in 1..Len(replies) /\ Tail(replies)[i] = replies[i + 1]
<1>1. replies \in Seq(Replies)
  BY DEF TypeOK, Replies
<1>2. /\ Tail(replies) \in Seq(Replies) /\ Len(Tail(replies)) = Len(replies) - 1 /\ Len(replies) \in Nat /\ Len(replies) > 0
      /\ Head(replies) \in Replies /\ Head(replies) = replies[1]
      /\ \A i \in 1..Len(Tail(replies)) : Tail(replies)[i] = replies[i + 1]
  BY <1>1, HeadTailProperties, LenProperties, EmptySeq
<1>3. 1 \in 1..Len(replies) /\ \A i \in 1..Len(Tail(replies)) : i + 1 \in 1..Len(replies)
  BY <1>2
<1> QED
  BY <1>2, <1>3

LEMMA AnswerIs == TypeOK => Got(file) \in Replies /\ Failed \in Replies
  BY EmptySeq DEF Got, Failed, Replies, TypeOK

LEMMA InitTypeOK == Init => TypeOK
<1> SUFFICES ASSUME Init PROVE TypeOK
  OBVIOUS
<1>1. file \in Seq(Servers)
  <2>1. \A n \in 0..Limit : [1..n -> Servers] \subseteq Seq(Servers)
    BY LimitIs
  <2> QED BY <2>1 DEF Init, Stored
<1>2. expected \subseteq Servers
  <2>1. \A k \in 1..Len(file) : file[k] \in Servers
    BY <1>1, ElementOfSeq
  <2> QED BY <2>1 DEF Init, Entries
<1>3. requests \in Seq(Requests) /\ replies \in Seq(Replies) /\ data \in Seq(Servers)
  BY EmptySeq DEF Init
<1>4. losses \in 0..MaxLosses /\ session \in Nat
  BY ServerStorageAssumption DEF Init
<1> QED
  BY <1>1, <1>2, <1>3, <1>4 DEF Init, TypeOK, Replies

LEMMA NextTypeOK == TypeOK /\ [Next]_vars => TypeOK'
<1> SUFFICES ASSUME TypeOK, [Next]_vars PROVE TypeOK'
  OBVIOUS
<1>1. CASE EnsureSafeListRetrieval
  <2>1. requests' \in Seq(Requests)
    BY <1>1, GetIs, QueueAppend DEF EnsureSafeListRetrieval, TypeOK
  <2> QED BY <1>1, <2>1 DEF EnsureSafeListRetrieval, TypeOK, memory, history, bounds
<1>2. CASE DeserializeListFromNP
  <2>1. Head(replies) \in Replies /\ Tail(replies) \in Seq(Replies)
    BY <1>2, ReplyIs DEF DeserializeListFromNP
  <2>2. data' \in Seq(Servers)
    <3>1. data \in Seq(Servers) /\ Head(replies).list \in Seq(Servers)
      BY <2>1 DEF TypeOK, Replies
    <3>2. data \o Head(replies).list \in Seq(Servers)
      BY <3>1, ConcatProperties
    <3> QED BY <1>2, <3>1, <3>2 DEF DeserializeListFromNP
  <2>3. mixed' \in BOOLEAN /\ known' \in BOOLEAN
    BY <1>2 DEF DeserializeListFromNP, TypeOK
  <2> QED BY <1>2, <2>1, <2>2, <2>3 DEF DeserializeListFromNP, TypeOK, bounds, Replies
<1>3. ASSUME NEW a \in Servers \cup {Loopback}, AddEntry(a) PROVE TypeOK'
  BY <1>3, AddEntryIs, EditTypeOK
<1>4. ASSUME NEW a \in Servers, RemoveEntry(a) PROVE TypeOK'
  BY <1>4, RemoveEntryIs, EditTypeOK
<1>5. CASE Restart
  <2>1. requests' \in Seq(Requests) /\ replies' \in Seq(Replies) /\ data' \in Seq(Servers)
    BY <1>5, EmptySeq DEF Restart
  <2>2. unsaved' \in BOOLEAN /\ session' \in Nat
    BY <1>5 DEF Restart, TypeOK
  <2> QED BY <1>5, <2>1, <2>2 DEF Restart, TypeOK, Replies
<1>6. CASE ServeGet
  <2>1. requests' \in Seq(Requests)
    BY <1>6, QueueTail DEF ServeGet, TypeOK
  <2>2. Got(file) \in Replies /\ Failed \in Replies
    BY AnswerIs
  <2>3. replies' \in Seq(Replies)
    <3>1. replies \in Seq(Replies)
      BY DEF TypeOK, Replies
    <3>2. PICK answer \in {Got(file), Failed} : replies' = Append(replies, answer)
      BY <1>6 DEF ServeGet
    <3> QED BY <2>2, <3>1, <3>2, AppendProperties
  <2> QED BY <1>6, <2>1, <2>3 DEF ServeGet, TypeOK, memory, history, bounds, Replies
<1>7. CASE ServeWrite
  <2>1. requests' \in Seq(Requests) /\ Head(requests) \in Requests
    BY <1>7, QueueTail DEF ServeWrite, TypeOK
  <2>2. file' \in Seq(Servers) /\ unsaved' \in BOOLEAN
    BY <1>7, <2>1 DEF ServeWrite, TypeOK, Requests
  <2> QED BY <1>7, <2>1, <2>2 DEF ServeWrite, TypeOK, memory, bounds
<1>8. CASE Lose
  <2>1. requests' \in Seq(Requests)
    BY <1>8, QueueTail DEF Lose, TypeOK
  <2>2. losses' \in 0..MaxLosses /\ unsaved' \in BOOLEAN
    BY <1>8, ServerStorageAssumption DEF Lose, TypeOK
  <2> QED BY <1>8, <2>1, <2>2 DEF Lose, TypeOK, memory
<1>9. CASE UNCHANGED vars
  BY <1>9 DEF vars, memory, network, history, bounds, TypeOK
<1> QED
  BY <1>1, <1>2, <1>3, <1>4, <1>5, <1>6, <1>7, <1>8, <1>9 DEF Next

\* The list, the calls under way and the service's file keep their types.
THEOREM StorageTypeCorrect == Spec => []TypeOK
  BY InitTypeOK, NextTypeOK, PTL DEF Spec

-------------------------------------------------------------------------------
(* The list is well kept.                                                    *)

\* Nothing on its way is worse than the list itself.
AllKept ==
  ~mixed =>
    /\ Kept(data) /\ Kept(file)
    /\ \A i \in 1..Len(replies) : replies[i].ok => Kept(replies[i].list)
    /\ \A i \in 1..Len(requests) : requests[i].kind = "write" => Kept(requests[i].list)

LEMMA InitAllKept == Init => AllKept
<1> SUFFICES ASSUME Init PROVE AllKept
  OBVIOUS
<1>1. Kept(file)
  <2>1. PICK n \in 0..Limit : file \in [1..n -> Servers]
    BY DEF Init, Stored
  <2>2. Len(file) = n
    BY <2>1, LimitIs
  <2> QED BY <2>2, LimitIs DEF Init, Stored, Kept
<1> QED
  BY <1>1, EmptyKept DEF Init, AllKept

LEMMA EditKept ==
  ASSUME TypeOK, AllKept, NEW s \in Seq(Servers), NEW wanted, Edit(s, wanted), Kept(data) => Kept(s)
  PROVE  AllKept'
<1> SUFFICES ASSUME ~mixed PROVE AllKept'
  BY DEF AllKept, Edit
<1>1. /\ data' = s /\ Kept(s) /\ Kept(file)
      /\ \A i \in 1..Len(replies) : replies[i].ok => Kept(replies[i].list)
      /\ UNCHANGED <<file, replies, mixed>>
  BY DEF AllKept, Edit
<1>2. \A i \in 1..Len(requests') : requests'[i].kind = "write" => Kept(requests'[i].list)
  BY <1>1, WriteIs, QueueAppend DEF AllKept, Edit, TypeOK
<1> QED
  BY <1>1, <1>2 DEF AllKept, Kept

LEMMA NextAllKept == TypeOK /\ AllKept /\ [Next]_vars => AllKept'
<1> SUFFICES ASSUME TypeOK, AllKept, [Next]_vars PROVE AllKept'
  OBVIOUS
<1>1. CASE EnsureSafeListRetrieval
  <2>1. \A i \in 1..Len(requests') : requests'[i].kind = "write" => i \in 1..Len(requests) /\ requests'[i] = requests[i]
    BY <1>1, GetIs, QueueAppend DEF EnsureSafeListRetrieval, TypeOK
  <2> QED BY <1>1, <2>1 DEF AllKept, EnsureSafeListRetrieval, memory, history, Kept
<1>2. CASE DeserializeListFromNP
  <2> SUFFICES ASSUME ~mixed' PROVE AllKept'
    BY DEF AllKept
  <2>1. ~mixed /\ UNCHANGED <<file, requests>> /\ replies' = Tail(replies)
    BY <1>2 DEF DeserializeListFromNP, TypeOK
  <2>2. /\ \A i \in 1..Len(replies') : i + 1 \in 1..Len(replies) /\ replies'[i] = replies[i + 1]
        /\ Head(replies) = replies[1] /\ 1 \in 1..Len(replies) /\ Head(replies) \in Replies
    BY <1>2, <2>1, ReplyIs DEF DeserializeListFromNP
  <2>3. \A i \in 1..Len(replies') : replies'[i].ok => Kept(replies'[i].list)
    BY <2>1, <2>2 DEF AllKept
  <2>4. Kept(data')
    <3>1. CASE Usable(Head(replies))
      <4>1. Kept(Head(replies).list) /\ Kept(data)
        BY <2>1, <2>2, <3>1 DEF AllKept, Usable
      <4>2. data' = data \o Head(replies).list /\ (Head(replies).list = <<>> \/ data = <<>>)
        BY <1>2, <2>1, <3>1 DEF DeserializeListFromNP
      <4>3. data \in Seq(Servers) /\ Head(replies).list \in Seq(Servers)
        BY <2>2 DEF TypeOK, Replies
      <4>4. data' = data \/ data' = Head(replies).list
        BY <4>2, <4>3, ConcatEmptySeq
      <4> QED BY <4>1, <4>4
    <3>2. CASE ~Usable(Head(replies))
      BY <1>2, <2>1, <3>2 DEF DeserializeListFromNP, AllKept
    <3> QED BY <3>1, <3>2
  <2> QED BY <2>1, <2>3, <2>4 DEF AllKept, Kept
<1>3. ASSUME NEW a \in Servers \cup {Loopback}, AddEntry(a) PROVE AllKept'
  BY <1>3, AddEntryIs, EditKept
<1>4. ASSUME NEW a \in Servers, RemoveEntry(a) PROVE AllKept'
  BY <1>4, RemoveEntryIs, EditKept
<1>5. CASE Restart
  BY <1>5, EmptyKept DEF Restart, AllKept, Kept
<1>6. CASE ServeGet
  <2> SUFFICES ASSUME ~mixed PROVE AllKept'
    BY <1>6 DEF AllKept, ServeGet, history
  <2>1. /\ UNCHANGED <<data, file, mixed>> /\ Kept(data) /\ Kept(file)
        /\ \A i \in 1..Len(requests) : requests[i].kind = "write" => Kept(requests[i].list)
        /\ \A i \in 1..Len(replies) : replies[i].ok => Kept(replies[i].list)
    BY <1>6 DEF AllKept, ServeGet, history, memory
  <2>2. \A i \in 1..Len(requests') : requests'[i].kind = "write" => Kept(requests'[i].list)
    BY <1>6, <2>1, QueueTail DEF ServeGet, TypeOK
  <2>3. PICK answer \in {Got(file), Failed} : replies' = Append(replies, answer)
    BY <1>6 DEF ServeGet
  <2>4. answer.ok => Kept(answer.list)
    BY <2>1, EmptyKept DEF Got, Failed
  <2>5. \A i \in 1..Len(replies') : replies'[i].ok => Kept(replies'[i].list)
    <3>1. replies \in Seq(Replies)
      BY DEF TypeOK, Replies
    <3>2. answer \in Replies
      BY <2>3, AnswerIs
    <3>3. /\ Len(replies') = Len(replies) + 1 /\ replies'[Len(replies) + 1] = answer
          /\ \A i \in 1..Len(replies) : replies'[i] = replies[i] /\ Len(replies) \in Nat
      BY <2>3, <3>1, <3>2, AppendProperties, LenProperties
    <3>4. \A i \in 1..Len(replies') : i \in 1..Len(replies) \/ i = Len(replies) + 1
      BY <3>1, <3>3, LenProperties
    <3> QED BY <2>1, <2>4, <3>3, <3>4
  <2> QED BY <2>1, <2>2, <2>5 DEF AllKept, Kept
<1>7. CASE ServeWrite
  <2> SUFFICES ASSUME ~mixed PROVE AllKept'
    BY <1>7 DEF AllKept, ServeWrite
  <2>1. /\ UNCHANGED <<data, replies, mixed>> /\ Kept(data) /\ Kept(file)
        /\ \A i \in 1..Len(requests) : requests[i].kind = "write" => Kept(requests[i].list)
        /\ \A i \in 1..Len(replies) : replies[i].ok => Kept(replies[i].list)
    BY <1>7 DEF AllKept, ServeWrite, memory
  <2>2. \A i \in 1..Len(requests') : requests'[i].kind = "write" => Kept(requests'[i].list)
    BY <1>7, <2>1, QueueTail DEF ServeWrite, TypeOK
  <2>3. file' = file \/ file' = Head(requests).list
    BY <1>7 DEF ServeWrite
  <2>4. Kept(Head(requests).list)
    BY <1>7, <2>1, QueueTail DEF ServeWrite, TypeOK
  <2> QED BY <2>1, <2>2, <2>3, <2>4 DEF AllKept, Kept
<1>8. CASE Lose
  <2>1. \A i \in 1..Len(requests') : i + 1 \in 1..Len(requests) /\ requests'[i] = requests[i + 1]
    BY <1>8, QueueTail DEF Lose, TypeOK
  <2> QED BY <1>8, <2>1 DEF AllKept, Lose, memory, Kept
<1>9. CASE UNCHANGED vars
  BY <1>9 DEF vars, memory, network, history, AllKept, Kept
<1> QED
  BY <1>1, <1>2, <1>3, <1>4, <1>5, <1>6, <1>7, <1>8, <1>9 DEF Next

\* No list of a player, favorites or history, has a server twice or more of
\* them than the limit, until an answer comes on top of another one.
THEOREM ListWellKept == Spec => []WellKept
<1>1. TypeOK /\ AllKept /\ [Next]_vars => TypeOK' /\ AllKept'
  BY NextTypeOK, NextAllKept
<1>2. AllKept => WellKept
  BY DEF AllKept, Kept, WellKept
<1> QED
  BY <1>1, <1>2, InitTypeOK, InitAllKept, PTL DEF Spec

-------------------------------------------------------------------------------
(* The service stores what the player expects.                               *)

Undisturbed == ~blind /\ ~mixed /\ ~unsaved

\* A session that has the list has what the player expects, one that has not has
\* nothing but answers that say so, and the last write under way, or the file,
\* is the list he expects.
Agreed ==
  Undisturbed =>
    /\ known => Entries(data) = expected
    /\ ~known => /\ data = <<>> /\ NoWrite(requests)
                 /\ \A i \in 1..Len(replies) : replies[i].ok => Entries(replies[i].list) = expected
    /\ \A i : LastWrite(requests, i) => Entries(requests[i].list) = expected
    /\ NoWrite(requests) => Entries(file) = expected

LEMMA InitAgreed == Init => Agreed
<1> SUFFICES ASSUME Init PROVE Agreed
  OBVIOUS
<1>1. NoWrite(<<>>) /\ \A i : ~LastWrite(<<>>, i)
  BY DEF NoWrite, LastWrite
<1> QED
  BY <1>1 DEF Init, Agreed

\* An edit in a session that has the list: it is what the player expects then.
LEMMA EditAgreed ==
  ASSUME TypeOK, Agreed, NEW s \in Seq(Servers), NEW wanted, Edit(s, wanted),
         ~mixed /\ Entries(data) = expected => Entries(s) = wanted
  PROVE  Agreed'
<1> SUFFICES ASSUME Undisturbed' PROVE Agreed'
  BY DEF Agreed
<1>1. Undisturbed /\ known /\ known' /\ data' = s /\ expected' = wanted /\ requests' = Append(requests, Write(s))
  BY DEF Undisturbed, Edit, TypeOK
<1>2. Entries(s) = wanted
  BY <1>1 DEF Agreed, Undisturbed
<1>3. ~NoWrite(requests') /\ \A i : LastWrite(requests', i) => requests'[i] = Write(s)
  BY <1>1, WriteIs, QueueAppend DEF TypeOK
<1>4. \A i : LastWrite(requests', i) => Entries(requests'[i].list) = wanted
  <2>1. Write(s).list = s
    BY WriteIs
  <2> QED BY <1>2, <1>3, <2>1
<1>5. Entries(data') = wanted
  BY <1>1, <1>2
<1> QED
  BY <1>1, <1>3, <1>4, <1>5 DEF Agreed, Entries

LEMMA NextAgreed == TypeOK /\ AllKept /\ Agreed /\ [Next]_vars => Agreed'
<1> SUFFICES ASSUME TypeOK, AllKept, Agreed, [Next]_vars, Undisturbed' PROVE Agreed'
  BY DEF Agreed
<1>1. CASE EnsureSafeListRetrieval
  <2>1. UNCHANGED <<data, known, replies, file, expected, blind, mixed, unsaved>>
    BY <1>1 DEF EnsureSafeListRetrieval, memory, history
  <2>2. /\ NoWrite(requests') <=> NoWrite(requests)
        /\ \A i : LastWrite(requests', i) => LastWrite(requests, i) /\ requests'[i] = requests[i]
    BY <1>1, GetIs, QueueAppend DEF EnsureSafeListRetrieval, TypeOK
  <2> QED BY <2>1, <2>2 DEF Agreed, Undisturbed, Entries
<1>2. CASE DeserializeListFromNP
  <2>1. /\ Undisturbed /\ UNCHANGED <<requests, file, expected, blind, unsaved>> /\ replies' = Tail(replies)
    BY <1>2 DEF DeserializeListFromNP, Undisturbed, TypeOK
  <2>2. /\ \A i \in 1..Len(replies') : i + 1 \in 1..Len(replies) /\ replies'[i] = replies[i + 1]
        /\ Head(replies) = replies[1] /\ 1 \in 1..Len(replies) /\ Head(replies) \in Replies
    BY <1>2, <2>1, ReplyIs DEF DeserializeListFromNP
  <2>3. CASE Usable(Head(replies))
    <3>1. known' /\ data' = data \o Head(replies).list /\ (Head(replies).list = <<>> \/ (~known /\ data = <<>>))
      BY <1>2, <2>3 DEF DeserializeListFromNP, Undisturbed
    <3>2. data \in Seq(Servers) /\ Head(replies).list \in Seq(Servers)
      BY <2>2 DEF TypeOK, Replies
    <3>3. Entries(data') = expected
      <4>1. CASE known
        <5>1. data' = data
          BY <3>1, <3>2, <4>1, ConcatEmptySeq
        <5> QED BY <2>1, <4>1, <5>1 DEF Agreed
      <4>2. CASE ~known
        <5>1. data = <<>> /\ Entries(Head(replies).list) = expected
          BY <2>1, <2>2, <2>3, <4>2 DEF Agreed, Usable
        <5>2. data' = Head(replies).list
          BY <3>1, <3>2, <5>1, ConcatEmptySeq
        <5> QED BY <5>1, <5>2
      <4> QED BY <4>1, <4>2
    <3>4. Entries(data)' = Entries(data')
      BY DEF Entries
    <3> QED BY <2>1, <3>1, <3>3, <3>4 DEF Agreed, Entries
  <2>4. CASE ~Usable(Head(replies))
    <3>1. UNCHANGED <<data, known>>
      BY <1>2, <2>4 DEF DeserializeListFromNP
    <3> QED BY <2>1, <2>2, <3>1 DEF Agreed, Entries
  <2> QED BY <2>3, <2>4
<1>3. ASSUME NEW a \in Servers \cup {Loopback}, AddEntry(a) PROVE Agreed'
  BY <1>3, AddEntryIs, EditAgreed
<1>4. ASSUME NEW a \in Servers, RemoveEntry(a) PROVE Agreed'
  BY <1>4, RemoveEntryIs, EditAgreed DEF AllKept
<1>5. CASE Restart
  <2>1. Undisturbed /\ NoWrite(requests) /\ UNCHANGED <<file, expected>> /\ ~known' /\ data' = <<>> /\ requests' = <<>> /\ replies' = <<>>
    BY <1>5, NoWriteIs DEF Restart, Undisturbed, TypeOK
  <2>2. NoWrite(<<>>) /\ \A i : ~LastWrite(<<>>, i)
    BY DEF NoWrite, LastWrite
  <2> QED BY <2>1, <2>2 DEF Agreed, Entries
<1>6. CASE ServeGet
  <2>1. UNCHANGED <<data, known, file, expected, blind, mixed, unsaved>> /\ Undisturbed
    BY <1>6 DEF ServeGet, memory, history, Undisturbed
  <2>2. /\ \A i : LastWrite(requests', i) => LastWrite(requests, i + 1) /\ requests'[i] = requests[i + 1]
        /\ NoWrite(requests') => NoWrite(requests)
    <3>1. requests # <<>> /\ requests' = Tail(requests) /\ requests[1].kind = "get"
      BY <1>6, QueueTail DEF ServeGet, TypeOK
    <3>2. ~LastWrite(requests, 1)
      BY <3>1 DEF LastWrite
    <3> QED BY <3>1, <3>2, QueueTail DEF TypeOK
  <2>3. PICK answer \in {Got(file), Failed} : replies' = Append(replies, answer)
    BY <1>6 DEF ServeGet
  <2>4. ASSUME ~known
        PROVE  NoWrite(requests') /\ \A i \in 1..Len(replies') : replies'[i].ok => Entries(replies'[i].list) = expected
    <3>1. NoWrite(requests) /\ Entries(file) = expected
      BY <2>1, <2>4 DEF Agreed
    <3>2. answer.ok => Entries(answer.list) = expected
      BY <3>1 DEF Got, Failed
    <3>3. replies \in Seq(Replies) /\ answer \in Replies
      BY <2>3, AnswerIs DEF TypeOK, Replies
    <3>4. /\ Len(replies') = Len(replies) + 1 /\ replies'[Len(replies) + 1] = answer
          /\ \A i \in 1..Len(replies) : replies'[i] = replies[i]
          /\ Len(replies) \in Nat
      BY <2>3, <3>3, AppendProperties, LenProperties
    <3>5. \A i \in 1..Len(replies') : i \in 1..Len(replies) \/ i = Len(replies) + 1
      BY <3>4
    <3>6. \A i \in 1..Len(replies) : replies[i].ok => Entries(replies[i].list) = expected
      BY <2>1, <2>4 DEF Agreed
    <3>7. NoWrite(requests')
      <4>1. \A i \in 1..Len(requests') : i + 1 \in 1..Len(requests) /\ requests'[i] = requests[i + 1]
        BY <1>6, QueueTail DEF ServeGet, TypeOK
      <4> QED BY <3>1, <4>1 DEF NoWrite
    <3> QED BY <3>2, <3>4, <3>5, <3>6, <3>7
  <2> QED BY <2>1, <2>2, <2>4 DEF Agreed, Entries
<1>7. CASE ServeWrite
  <2>1. /\ Undisturbed /\ UNCHANGED <<data, known, replies, expected>> /\ file' = Head(requests).list
        /\ requests' = Tail(requests) /\ Head(requests).kind = "write" /\ requests # <<>>
    BY <1>7 DEF ServeWrite, memory, Undisturbed
  <2>2. /\ \A i : LastWrite(requests', i) => LastWrite(requests, i + 1) /\ requests'[i] = requests[i + 1]
        /\ NoWrite(requests') => NoWrite(requests) \/ LastWrite(requests, 1)
        /\ Head(requests) = requests[1] /\ 1 \in 1..Len(requests)
    BY <2>1, QueueTail DEF TypeOK
  <2>3. ~NoWrite(requests)
    BY <2>1, <2>2 DEF NoWrite
  <2>4. known
    BY <2>1, <2>3 DEF Agreed
  <2>5. NoWrite(requests') => Entries(file') = expected
    BY <2>1, <2>2, <2>3 DEF Agreed
  <2>6. \A i : LastWrite(requests', i) => Entries(requests'[i].list) = expected
    BY <2>1, <2>2 DEF Agreed
  <2>7. Entries(data) = expected
    BY <2>1, <2>4 DEF Agreed
  <2> QED BY <2>1, <2>4, <2>5, <2>6, <2>7 DEF Agreed
<1>8. CASE Lose
  <2>1. /\ Undisturbed /\ UNCHANGED <<data, known, replies, file, expected>>
        /\ requests' = Tail(requests) /\ Head(requests).kind # "write" /\ requests # <<>>
    BY <1>8 DEF Lose, memory, Undisturbed, TypeOK
  <2>2. /\ \A i : LastWrite(requests', i) => LastWrite(requests, i + 1) /\ requests'[i] = requests[i + 1]
        /\ NoWrite(requests') => NoWrite(requests) \/ LastWrite(requests, 1)
        /\ Head(requests) = requests[1]
        /\ \A i \in 1..Len(requests') : i + 1 \in 1..Len(requests) /\ requests'[i] = requests[i + 1]
    BY <2>1, QueueTail DEF TypeOK
  <2>3. ~LastWrite(requests, 1)
    BY <2>1, <2>2 DEF LastWrite
  <2>4. NoWrite(requests) => NoWrite(requests')
    BY <2>2 DEF NoWrite
  <2>5. \A i : LastWrite(requests', i) => Entries(requests'[i].list) = expected
    BY <2>1, <2>2 DEF Agreed
  <2>6. NoWrite(requests') => Entries(file) = expected
    BY <2>1, <2>2, <2>3 DEF Agreed
  <2>7. known => Entries(data) = expected
    BY <2>1 DEF Agreed
  <2>8. ~known => /\ data = <<>> /\ NoWrite(requests')
                  /\ \A i \in 1..Len(replies) : replies[i].ok => Entries(replies[i].list) = expected
    BY <2>1, <2>4 DEF Agreed
  <2> QED BY <2>1, <2>5, <2>6, <2>7, <2>8 DEF Agreed
<1>9. CASE UNCHANGED vars
  BY <1>9 DEF vars, memory, network, history, Agreed, Undisturbed, Entries
<1> QED
  BY <1>1, <1>2, <1>3, <1>4, <1>5, <1>6, <1>7, <1>8, <1>9 DEF Next

\* What a player added and removed is what the service has in the end, however
\* many sessions, retrievals and writes it took, as long as none was lost and he
\* changed nothing before he had the list.
THEOREM NothingForgotten == Spec => []StoredAsExpected
<1>1. TypeOK /\ AllKept /\ Agreed /\ [Next]_vars => TypeOK' /\ AllKept' /\ Agreed'
  BY NextTypeOK, NextAllKept, NextAgreed
<1>2. Agreed => StoredAsExpected
  BY NoWriteIs DEF Agreed, StoredAsExpected, Undisturbed
<1> QED
  BY <1>1, <1>2, InitTypeOK, InitAllKept, InitAgreed, PTL DEF Spec

-------------------------------------------------------------------------------
(* The browser.  While nothing came out of the overflow its list and its     *)
(* display agree with the slots.                                             *)

Entry == [adr : Addresses, ping : Int, info : Addresses \cup {None}]
PingSlot == [adr : Addresses \cup {None}, time : Nat, info : Addresses \cup {None}]

\* no address is asked through two slots, and what has answered says so
SlotsTrue(slots) ==
  /\ \A j, k \in Used(slots) : slots[j].adr = slots[k].adr => j = k
  /\ \A j \in Used(slots) : slots[j].time > 0 => slots[j].info = slots[j].adr

\* entries of one address are one
Alike(list) == \A i, j \in DOMAIN list : list[i].adr = list[j].adr => list[i] = list[j]
Once(list) == \A i, j \in DOMAIN list : list[i].adr = list[j].adr => i = j

Informative(list) == \A i \in DOMAIN list : list[i].ping > 0 => list[i].info = list[i].adr

\* A slot of a server with a ping has the same.
Agree(list, slots) ==
  \A i \in DOMAIN list, j \in Slots : list[i].ping > 0 /\ slots[j].adr = list[i].adr => slots[j].time = list[i].ping

Silent(list) == \A i \in DOMAIN list : list[i].ping <= 0

Ordered(list, display) ==
  \A k, l \in DOMAIN display : k < l => list[display[k]].ping <= list[display[l]].ping

Shows(display, i) == \E k \in DOMAIN display : display[k] = i

\* In order, with a ping, and all that are not visible any more and pass the
\* filters, unless the number of those on display was overwritten.
Displayed(list, st) ==
  /\ st.display \in Seq(DOMAIN list)
  /\ \A k \in DOMAIN st.display : list[st.display[k]].ping > 0
  /\ Ordered(list, st.display)
  /\ \A i \in 1..MaxGlobal :
       ~st.visible[i] => /\ i \in DOMAIN list /\ list[i].ping > 0
                         /\ list[i].adr \notin Filtered => st.overrun \/ Shows(st.display, i)

\* None with a ping is still to be put there.
BuiltNow(list, st) == \A i \in DOMAIN list : list[i].ping > 0 => ~st.visible[i]

Now == View(displayServers, visible, overrun)

\* the entries of the array a list is in
Capacity(s) == IF s = 1 THEN MaxGlobal ELSE MaxStoredServers

BrowserTypeOK ==
  /\ servers \in [{0, 1} -> Seq(Entry)] /\ \A s \in {0, 1} : Len(servers[s]) <= Capacity(s)
  /\ waiting \in BOOLEAN /\ overflow \in Seq(Addresses) /\ visible \in [1..MaxGlobal -> BOOLEAN]
  /\ cl_pinglist \in [Slots -> PingSlot]
  /\ pingUpdateSource \in {0, 1} /\ source \in {0, 1}
  /\ refreshActive \in BOOLEAN /\ asked \subseteq Addresses
  /\ masters \in Nat /\ refreshes \in Nat /\ late \in BOOLEAN /\ full \in BOOLEAN /\ repeated \in BOOLEAN

Wait == waiting => servers[1] = <<>>

\* While nothing came out of the overflow: what is known of a server is its
\* slot's, and what an answer may still change is not on display.
Calm ==
  LET list == servers[source] IN
  /\ (repeated \/ Once(servers[1])) /\ (waiting \/ overflow = <<>>)
  /\ Alike(list) /\ Informative(list) /\ Agree(list, cl_pinglist)
  /\ pingUpdateSource = source \/ Silent(list)
  /\ Displayed(list, Now)

\* After a refresh nobody is asked any more.
Over ==
  LET list == servers[source] IN
  ~refreshActive /\ refreshes > 0 =>
    /\ Used(cl_pinglist) = {}
    /\ late \/ (BuiltNow(list, Now) /\ \A i \in DOMAIN list : list[i].ping # -1)

\* The inductive invariant.
BrowserInv == BrowserTypeOK /\ SlotsTrue(cl_pinglist) /\ Wait /\ (full \/ (Calm /\ Over))

-------------------------------------------------------------------------------
(* Numbers.                                                                  *)

\* Induction over a set of good numbers.
LEMMA UpTo ==
  ASSUME NEW N \in Nat, NEW G, 0 \in G, \A n \in 1..N : n - 1 \in G => n \in G
  PROVE  \A n \in 0..N : n \in G
<1> DEFINE Bad == (0..N) \ G
<1> SUFFICES ASSUME Bad # {} PROVE FALSE
  OBVIOUS
<1>1. PICK n \in Bad : \A k \in Bad : ~(<<k, n>> \in OpToRel(<, Nat))
  <2>1. IsWellFoundedOn(OpToRel(<, Nat), Nat)
    BY NatLessThanWellFounded
  <2>2. Bad \subseteq Nat
    OBVIOUS
  <2> HIDE DEF Bad
  <2> QED BY <2>1, <2>2, WFMin, Zenon
<1>2. n \in 0..N /\ n \notin G /\ n # 0
  OBVIOUS
<1>3. n \in 1..N /\ n - 1 \in 0..N /\ n - 1 \in Nat /\ n \in Nat /\ n - 1 < n
  BY <1>2
<1>4. n - 1 \notin Bad
  BY <1>1, <1>3 DEF OpToRel
<1>5. n - 1 \in G
  BY <1>3, <1>4
<1> QED BY <1>2, <1>3, <1>5

\* The least of some numbers.
LEMMA MinIs ==
  ASSUME NEW S \in SUBSET Nat, S # {}
  PROVE  Min(S) \in S /\ \A i \in S : Min(S) <= i
<1>1. PICK n \in S : \A k \in S : ~(<<k, n>> \in OpToRel(<, Nat))
  <2>1. IsWellFoundedOn(OpToRel(<, Nat), Nat)
    BY NatLessThanWellFounded
  <2> QED BY <2>1, WFMin, Zenon
<1>2. \A k \in S : n <= k
  <2> SUFFICES ASSUME NEW k \in S PROVE n <= k
    OBVIOUS
  <2>1. ~(k < n)
    BY <1>1 DEF OpToRel
  <2> QED BY <2>1
<1> QED BY <1>2 DEF Min

-------------------------------------------------------------------------------
(* The binary search.                                                        *)

\* what the search among n elements from the offset o on finds, for up to N
Search(list, display, x, place, N) ==
  place = [n \in 0..N |->
            [o \in 0..(Len(display) - n) |->
               IF n = 0 THEN o
               ELSE LET mid   == n \div 2
                        other == list[display[o + mid + 1]].ping
                    IN  CASE x = other -> o + mid
                          [] x > other -> IF mid = 0 THEN o + 1 ELSE place[n - mid][o + mid]
                          [] OTHER     -> IF mid = 0 THEN o ELSE place[n - mid][o]]]

LEMMA Halves ==
  ASSUME NEW n \in Nat \ {0}
  PROVE  /\ n \div 2 \in Nat /\ n - n \div 2 \in 1..n /\ n \div 2 < n
         /\ n \div 2 # 0 => n - n \div 2 < n
         /\ n \div 2 <= n - n \div 2 /\ n - n \div 2 <= n \div 2 + 1
         /\ n \div 2 = 0 => n = 1
  OBVIOUS

LEMMA SearchEnds ==
  ASSUME NEW list, NEW display, Len(display) \in Nat, NEW x
  PROVE  \E place : Search(list, display, x, place, Len(display))
<1> DEFINE L == Len(display)
           G == {n \in 0..L : \E place : Search(list, display, x, place, n)}
<1>1. 0 \in G
  <2>1. Search(list, display, x, [n \in 0..0 |-> [o \in 0..(L - n) |-> o]], 0)
    BY DEF Search
  <2> QED BY <2>1
<1>2. ASSUME NEW n \in 1..L, n - 1 \in G PROVE n \in G
  <2>1. PICK before : Search(list, display, x, before, n - 1)
    BY <1>2
  <2> DEFINE mid == n \div 2
             other(o) == list[display[o + mid + 1]].ping
             last == [o \in 0..(L - n) |->
                        CASE x = other(o) -> o + mid
                          [] x > other(o) -> IF mid = 0 THEN o + 1 ELSE before[n - mid][o + mid]
                          [] OTHER        -> IF mid = 0 THEN o ELSE before[n - mid][o]]
             place == [m \in 0..n |-> IF m = n THEN last ELSE before[m]]
             Row(p, m) == [o \in 0..(L - m) |->
                           IF m = 0 THEN o
                           ELSE LET half == m \div 2
                                    that == list[display[o + half + 1]].ping
                                IN  CASE x = that -> o + half
                                      [] x > that -> IF half = 0 THEN o + 1 ELSE p[m - half][o + half]
                                      [] OTHER    -> IF half = 0 THEN o ELSE p[m - half][o]]
  <2>2. ASSUME NEW m \in 0..n PROVE place[m] = Row(place, m)
    <3>1. CASE m = n
      <4>1. mid = 0 \/ n - mid \in 0..(n - 1)
        BY Halves
      <4>2. mid # 0 => place[n - mid] = before[n - mid]
        BY <4>1
      <4>3. place[n] = last /\ n # 0
        OBVIOUS
      <4>4. last = Row(place, n)
        BY <4>2, <4>3
      <4> QED BY <3>1, <4>3, <4>4
    <3>2. CASE m # n
      <4>1. m \in 0..(n - 1) /\ place[m] = before[m]
        BY <3>2
      <4>2. before[m] = Row(before, m)
        BY <2>1, <4>1 DEF Search
      <4>3. m # 0 /\ m \div 2 # 0 => m - m \div 2 \in 0..n /\ m - m \div 2 # n
        BY <4>1, Halves
      <4>4. m # 0 /\ m \div 2 # 0 => place[m - m \div 2] = before[m - m \div 2]
        BY <4>3
      <4>5. Row(before, m) = Row(place, m)
        BY <4>4
      <4> QED BY <4>1, <4>2, <4>5
    <3> QED BY <3>1, <3>2
  <2>3. place = [m \in 0..n |-> Row(place, m)]
    BY <2>2
  <2>4. Search(list, display, x, place, n)
    BY <2>3 DEF Search
  <2> QED BY <2>4
<1>3. \A n \in 0..L : n \in G
  <2> HIDE DEF G
  <2> QED BY <1>1, <1>2, UpTo
<1>4. L \in G
  BY <1>3
<1> QED BY <1>4

\* Entries up to a place are no larger than x, those after it no smaller.
Fits(list, display, x, p) ==
  \A k \in DOMAIN display : /\ k <= p => list[display[k]].ping <= x
                            /\ k > p => x <= list[display[k]].ping

\* The place found among n from the offset o on is there, ...
LEMMA SearchStays ==
  ASSUME NEW list, NEW display, Len(display) \in Nat, DOMAIN display = 1..Len(display), NEW x \in Int, NEW place,
         Search(list, display, x, place, Len(display)),
         \A k \in DOMAIN display : list[display[k]].ping \in Int
  PROVE  \A n \in 0..Len(display) : \A o \in 0..(Len(display) - n) : place[n][o] \in o..(o + n)
<1> DEFINE L == Len(display)
           G == {n \in 0..L : \A m \in 0..n : \A o \in 0..(L - m) : place[m][o] \in o..(o + m)}
<1>1. ASSUME NEW n \in 0..L, NEW o \in 0..(L - n), n # 0
      PROVE  LET mid   == n \div 2
                 other == list[display[o + mid + 1]].ping
             IN  place[n][o] = CASE x = other -> o + mid
                                 [] x > other -> IF mid = 0 THEN o + 1 ELSE place[n - mid][o + mid]
                                 [] OTHER     -> IF mid = 0 THEN o ELSE place[n - mid][o]
  BY <1>1 DEF Search
<1>2. ASSUME NEW o \in 0..L PROVE place[0][o] = o
  BY <1>2 DEF Search
<1>3. 0 \in G
  BY <1>2
<1>4. ASSUME NEW n \in 1..L, n - 1 \in G PROVE n \in G
  <2> SUFFICES ASSUME NEW o \in 0..(L - n) PROVE place[n][o] \in o..(o + n)
    <3>1. \A m \in 0..(n - 1) : \A p \in 0..(L - m) : place[m][p] \in p..(p + m)
      BY <1>4
    <3>2. \A m \in 0..n : m = n \/ m \in 0..(n - 1)
      OBVIOUS
    <3> QED BY <3>1, <3>2
  <2> DEFINE mid == n \div 2
             other == list[display[o + mid + 1]].ping
  <2>1. /\ mid \in Nat /\ mid < n /\ n - mid \in 1..n
        /\ mid # 0 => n - mid < n
    BY Halves
  <2>2. mid # 0 => /\ n - mid \in 0..(n - 1)
                   /\ o + mid \in 0..(L - (n - mid)) /\ o \in 0..(L - (n - mid))
    BY <2>1
  <2>3. mid # 0 => /\ place[n - mid][o + mid] \in (o + mid)..(o + n)
                   /\ place[n - mid][o] \in o..(o + (n - mid))
    <3>1. \A m \in 0..(n - 1) : \A p \in 0..(L - m) : place[m][p] \in p..(p + m)
      BY <1>4
    <3> HIDE DEF mid
    <3>2. mid # 0 => /\ place[n - mid][o + mid] \in (o + mid)..((o + mid) + (n - mid))
                     /\ place[n - mid][o] \in o..(o + (n - mid))
      BY <2>2, <3>1
    <3>3. (o + mid) + (n - mid) = o + n
      BY <2>1
    <3> QED BY <3>2, <3>3
  <2>4. place[n][o] = CASE x = other -> o + mid
                        [] x > other -> IF mid = 0 THEN o + 1 ELSE place[n - mid][o + mid]
                        [] OTHER     -> IF mid = 0 THEN o ELSE place[n - mid][o]
    <3>1. n \in 0..L /\ n # 0
      OBVIOUS
    <3> QED BY <1>1, <3>1, Zenon
  <2>8. other \in Int
    <3>1. o + mid + 1 \in 1..L
      BY <2>1
    <3> HIDE DEF mid
    <3> QED BY <3>1
  <2> HIDE DEF mid, other
  <2>5. CASE x = other
    <3>1. place[n][o] = o + mid
      BY <2>4, <2>5, <2>8
    <3> QED BY <2>1, <3>1
  <2>6. CASE x # other /\ x > other
    <3>1. place[n][o] = IF mid = 0 THEN o + 1 ELSE place[n - mid][o + mid]
      BY <2>4, <2>6, <2>8
    <3> QED BY <2>1, <2>3, <3>1
  <2>7. CASE x # other /\ ~(x > other)
    <3>1. place[n][o] = IF mid = 0 THEN o ELSE place[n - mid][o]
      BY <2>4, <2>7, <2>8
    <3> QED BY <2>1, <2>3, <3>1
  <2> QED BY <2>5, <2>6, <2>7
<1>5. \A n \in 0..L : n \in G
  <2> HIDE DEF G
  <2> QED BY <1>3, <1>4, UpTo
<1> QED BY <1>5

\* ... and x fits there, if it fits nowhere before them and nowhere behind.
LEMMA SearchFits ==
  ASSUME NEW list, NEW display, Len(display) \in Nat, DOMAIN display = 1..Len(display), NEW x \in Int, NEW place,
         Search(list, display, x, place, Len(display)),
         \A k \in DOMAIN display : list[display[k]].ping \in Int,
         Ordered(list, display)
  PROVE  Fits(list, display, x, place[Len(display)][0])
<1> DEFINE L == Len(display)
           P(k) == list[display[k]].ping
           Among(o, n) == \A k \in 1..L : (k <= o => P(k) <= x) /\ (k > o + n => x <= P(k))
           Right(p) == \A k \in 1..L : (k <= p => P(k) <= x) /\ (k > p => x <= P(k))
           G == {n \in 0..L : \A m \in 0..n : \A o \in 0..(L - m) : Among(o, m) => Right(place[m][o])}
<1>0. /\ \A k \in 1..L : P(k) \in Int
      /\ \A k, l \in 1..L : k <= l => P(k) <= P(l)
  BY DEF Ordered
<1>1. ASSUME NEW n \in 0..L, NEW o \in 0..(L - n), n # 0
      PROVE  LET mid == n \div 2
             IN  place[n][o] = CASE x = P(o + mid + 1) -> o + mid
                                 [] x > P(o + mid + 1) -> IF mid = 0 THEN o + 1 ELSE place[n - mid][o + mid]
                                 [] OTHER              -> IF mid = 0 THEN o ELSE place[n - mid][o]
  BY <1>1 DEF Search
<1>2. ASSUME NEW o \in 0..L PROVE place[0][o] = o
  BY <1>2 DEF Search
<1>3. 0 \in G
  BY <1>2
<1>4. ASSUME NEW n \in 1..L, n - 1 \in G PROVE n \in G
  <2> SUFFICES ASSUME NEW o \in 0..(L - n), Among(o, n) PROVE Right(place[n][o])
    <3>1. \A m \in 0..(n - 1) : \A p \in 0..(L - m) : Among(p, m) => Right(place[m][p])
      BY <1>4
    <3>2. \A m \in 0..n : m = n \/ m \in 0..(n - 1)
      OBVIOUS
    <3> HIDE DEF Among, Right
    <3> QED BY <3>1, <3>2
  <2> DEFINE mid == n \div 2
  <2>1. /\ mid \in Nat /\ mid < n /\ n - mid \in 1..n
        /\ mid # 0 => n - mid < n
        /\ mid <= n - mid /\ n - mid <= mid + 1
        /\ mid = 0 => n = 1
    BY Halves
  <2>2. mid # 0 => /\ n - mid \in 0..(n - 1)
                   /\ o + mid \in 0..(L - (n - mid)) /\ o \in 0..(L - (n - mid))
    BY <2>1
  <2>3. place[n][o] = CASE x = P(o + mid + 1) -> o + mid
                        [] x > P(o + mid + 1) -> IF mid = 0 THEN o + 1 ELSE place[n - mid][o + mid]
                        [] OTHER              -> IF mid = 0 THEN o ELSE place[n - mid][o]
    <3>1. n \in 0..L /\ n # 0
      OBVIOUS
    <3> QED BY <1>1, <3>1, Zenon
  <2>4. mid # 0 => /\ Among(o + mid, n - mid) => Right(place[n - mid][o + mid])
                   /\ Among(o, n - mid) => Right(place[n - mid][o])
    <3>1. \A m \in 0..(n - 1) : \A p \in 0..(L - m) : Among(p, m) => Right(place[m][p])
      BY <1>4
    <3> HIDE DEF mid, Among, Right
    <3> QED BY <2>2, <3>1
  <2> HIDE DEF mid
  <2>5. o + mid + 1 \in 1..L
    BY <2>1
  <2>6. P(o + mid + 1) \in Int
    BY <1>0, <2>5
  <2>7. /\ \A k \in 1..L : k <= o + mid + 1 => P(k) <= P(o + mid + 1)
        /\ \A k \in 1..L : o + mid + 1 <= k => P(o + mid + 1) <= P(k)
    BY <1>0, <2>5
  <2>8. CASE x = P(o + mid + 1)
    <3>1. Right(o + mid)
      <4> SUFFICES ASSUME NEW k \in 1..L PROVE (k <= o + mid => P(k) <= x) /\ (k > o + mid => x <= P(k))
        OBVIOUS
      <4> HIDE DEF P
      <4> QED BY <2>1, <2>7, <2>8
    <3>2. place[n][o] = o + mid
      BY <2>3, <2>8
    <3> QED BY <3>1, <3>2
  <2>9. CASE x # P(o + mid + 1) /\ x > P(o + mid + 1)
    <3>1. place[n][o] = IF mid = 0 THEN o + 1 ELSE place[n - mid][o + mid]
      BY <2>3, <2>9
    <3>2. \A k \in 1..L : k <= o + mid + 1 => P(k) <= x
      <4> HIDE DEF P
      <4> QED BY <1>0, <2>6, <2>7, <2>9
    <3>3. Among(o + mid, n - mid)
      <4>1. (o + mid) + (n - mid) = o + n
        BY <2>1
      <4> HIDE DEF P
      <4> QED BY <2>1, <3>2, <4>1
    <3>4. mid = 0 => Right(o + 1)
      <4> HIDE DEF P
      <4> QED BY <2>1, <3>2
    <3> HIDE DEF Among, Right
    <3> QED BY <2>4, <3>1, <3>3, <3>4
  <2>10. CASE x # P(o + mid + 1) /\ ~(x > P(o + mid + 1))
    <3>1. place[n][o] = IF mid = 0 THEN o ELSE place[n - mid][o]
      BY <2>3, <2>10
    <3>2. \A k \in 1..L : o + mid + 1 <= k => x <= P(k)
      <4> HIDE DEF P
      <4> QED BY <1>0, <2>6, <2>7, <2>10
    <3>3. Among(o, n - mid)
      <4>1. \A k \in 1..L : k > o + (n - mid) => o + mid + 1 <= k
        BY <2>1
      <4> HIDE DEF P
      <4> QED BY <2>1, <3>2, <4>1
    <3>4. mid = 0 => Right(o)
      <4> HIDE DEF P
      <4> QED BY <2>1, <3>2
    <3> HIDE DEF Among, Right
    <3> QED BY <2>4, <3>1, <3>3, <3>4
  <2> HIDE DEF Right
  <2> QED BY <2>8, <2>9, <2>10
<1>5. \A n \in 0..L : n \in G
  <2> HIDE DEF G
  <2> QED BY <1>3, <1>4, UpTo
<1>6. Right(place[L][0])
  <2>1. L \in 0..L /\ 0 \in 0..(L - L) /\ Among(0, L)
    OBVIOUS
  <2>2. \A m \in 0..L : \A o \in 0..(L - m) : Among(o, m) => Right(place[m][o])
    BY <1>5, <2>1
  <2> HIDE DEF Among, Right
  <2> QED BY <2>1, <2>2
<1> QED BY <1>6 DEF Fits

\* So the position found is one of the display, and the right one.
LEMMA PositionIs ==
  ASSUME NEW list, NEW display, Len(display) \in Nat, DOMAIN display = 1..Len(display), NEW i,
         list[i].ping \in Int, \A k \in DOMAIN display : list[display[k]].ping \in Int
  PROVE  /\ Position(list, display, i) \in 0..Len(display)
         /\ Ordered(list, display) => Fits(list, display, list[i].ping, Position(list, display, i))
<1> DEFINE place == CHOOSE g : Search(list, display, list[i].ping, g, Len(display))
<1>1. Search(list, display, list[i].ping, place, Len(display))
  BY SearchEnds
<1>2. Position(list, display, i) = place[Len(display)][0]
  BY DEF Position, Search
<1> HIDE DEF place
<1>3. place[Len(display)][0] \in 0..Len(display)
  <2>1. Len(display) \in 0..Len(display) /\ 0 \in 0..(Len(display) - Len(display)) /\ 0 + Len(display) = Len(display)
    OBVIOUS
  <2>2. place[Len(display)][0] \in 0..(0 + Len(display))
    BY <1>1, <2>1, SearchStays
  <2> QED BY <2>1, <2>2
<1> QED BY <1>1, <1>2, <1>3, SearchFits

-------------------------------------------------------------------------------
(* The display list.                                                         *)

LEMMA InsertIs ==
  ASSUME NEW S, NEW s \in Seq(S), NEW e \in S, NEW p \in 0..Len(s)
  PROVE  /\ InsertAt(s, p + 1, e) \in Seq(S) /\ Len(InsertAt(s, p + 1, e)) = Len(s) + 1
         /\ \A k \in 1..(Len(s) + 1) :
              InsertAt(s, p + 1, e)[k] = IF k <= p THEN s[k] ELSE IF k = p + 1 THEN e ELSE s[k - 1]
<1> DEFINE front == SubSeq(s, 1, p)
           back == SubSeq(s, p + 1, Len(s))
           most == front \o <<e>>
<1>0. Len(s) \in Nat /\ p \in Nat /\ (p + 1) - 1 = p
  OBVIOUS
<1>1. front \in Seq(S) /\ Len(front) = p /\ \A k \in 1..p : front[k] = s[k]
  <2>1. \A k \in 1..p : s[k] \in S
    OBVIOUS
  <2> QED BY <1>0, <2>1, SubSeqProperties
<1>2. /\ back \in Seq(S) /\ Len(back) = Len(s) - p
      /\ \A k \in 1..(Len(s) - p) : back[k] = s[p + k]
  <2>1. \A k \in (p + 1)..Len(s) : s[k] \in S
    OBVIOUS
  <2> QED BY <1>0, <2>1, SubSeqProperties
<1>3. <<e>> \in Seq(S) /\ Len(<<e>>) = 1 /\ <<e>>[1] = e
  OBVIOUS
<1>4. /\ most \in Seq(S) /\ Len(most) = p + 1
      /\ \A k \in 1..p : most[k] = s[k]
      /\ most[p + 1] = e
  <2> HIDE DEF front
  <2>1. /\ most \in Seq(S) /\ Len(most) = p + 1
        /\ \A k \in 1..(p + 1) : most[k] = IF k <= p THEN front[k] ELSE <<e>>[k - p]
    BY <1>0, <1>1, <1>3, ConcatProperties
  <2>2. p + 1 \in 1..(p + 1) /\ ~(p + 1 <= p) /\ (p + 1) - p = 1
    BY <1>0
  <2>3. most[p + 1] = <<e>>[1]
    BY <2>1, <2>2
  <2>4. \A k \in 1..p : k \in 1..(p + 1) /\ k <= p
    BY <1>0
  <2> QED BY <1>1, <1>3, <2>1, <2>3, <2>4
<1>5. InsertAt(s, p + 1, e) = most \o back
  BY <1>0 DEF InsertAt
<1> HIDE DEF most, back
<1>6. /\ most \o back \in Seq(S) /\ Len(most \o back) = (p + 1) + (Len(s) - p)
      /\ \A k \in 1..((p + 1) + (Len(s) - p)) :
           (most \o back)[k] = IF k <= p + 1 THEN most[k] ELSE back[k - (p + 1)]
  BY <1>2, <1>4, ConcatProperties
<1>7. (p + 1) + (Len(s) - p) = Len(s) + 1
  BY <1>0
<1>8. ASSUME NEW k \in 1..(Len(s) + 1)
      PROVE  (most \o back)[k] = IF k <= p THEN s[k] ELSE IF k = p + 1 THEN e ELSE s[k - 1]
  <2>1. CASE k <= p + 1
    <3>1. (most \o back)[k] = most[k]
      BY <1>6, <1>7, <2>1
    <3> QED BY <1>0, <1>4, <2>1, <3>1
  <2>2. CASE ~(k <= p + 1)
    <3>1. (most \o back)[k] = back[k - (p + 1)]
      BY <1>6, <1>7, <2>2
    <3>2. k - (p + 1) \in 1..(Len(s) - p) /\ p + (k - (p + 1)) = k - 1
      BY <1>0, <2>2
    <3>3. back[k - (p + 1)] = s[k - 1]
      BY <1>2, <3>2
    <3> QED BY <1>0, <2>2, <3>1, <3>3
  <2> QED BY <2>1, <2>2
<1> QED BY <1>5, <1>6, <1>7, <1>8

\* Putting a server where it fits keeps the display in order, and all on it.
LEMMA InsertFits ==
  ASSUME NEW list, NEW display \in Seq(DOMAIN list), NEW i \in DOMAIN list, NEW p \in 0..Len(display),
         \A k \in DOMAIN list : list[k].ping \in Int,
         Ordered(list, display), Fits(list, display, list[i].ping, p)
  PROVE  /\ InsertAt(display, p + 1, i) \in Seq(DOMAIN list)
         /\ Ordered(list, InsertAt(display, p + 1, i))
         /\ \A j : Shows(InsertAt(display, p + 1, i), j) <=> j = i \/ Shows(display, j)
<1> DEFINE r == InsertAt(display, p + 1, i)
           L == Len(display)
<1>0. L \in Nat /\ DOMAIN display = 1..L /\ (\A k \in 1..L : display[k] \in DOMAIN list) /\ p \in Nat /\ p <= L
  OBVIOUS
<1>1. r \in Seq(DOMAIN list) /\ Len(r) = L + 1
  BY InsertIs
<1>2. \A k \in 1..(L + 1) : r[k] = IF k <= p THEN display[k] ELSE IF k = p + 1 THEN i ELSE display[k - 1]
  BY InsertIs
<1> HIDE DEF r, L
<1>3. DOMAIN r = 1..(L + 1)
  BY <1>1
<1>4. /\ \A k \in 1..p : k \in 1..(L + 1) /\ k \in 1..L /\ r[k] = display[k]
      /\ p + 1 \in 1..(L + 1) /\ r[p + 1] = i
      /\ \A k \in (p + 2)..(L + 1) : k \in 1..(L + 1) /\ k - 1 \in 1..L /\ r[k] = display[k - 1]
      /\ \A k \in 1..(L + 1) : k \in 1..p \/ k = p + 1 \/ k \in (p + 2)..(L + 1)
  BY <1>0, <1>2
<1>5. Ordered(list, r)
  <2> SUFFICES ASSUME NEW k \in 1..(L + 1), NEW l \in 1..(L + 1), k < l PROVE list[r[k]].ping <= list[r[l]].ping
    BY <1>3 DEF Ordered
  <2>1. \A a, b \in 1..L : a < b => list[display[a]].ping <= list[display[b]].ping
    BY <1>0 DEF Ordered
  <2>2. \A a \in 1..L : /\ a <= p => list[display[a]].ping <= list[i].ping
                        /\ a > p => list[i].ping <= list[display[a]].ping
    BY <1>0 DEF Fits
  <2>3. CASE l \in 1..p
    <3>1. k \in 1..p
      BY <1>0, <2>3
    <3> QED BY <1>4, <2>1, <2>3, <3>1
  <2>4. CASE l = p + 1
    <3>1. k \in 1..p /\ k <= p
      BY <1>0, <2>4
    <3> QED BY <1>4, <2>2, <2>4, <3>1
  <2>5. CASE l \in (p + 2)..(L + 1)
    <3>1. l - 1 \in 1..L /\ l - 1 > p /\ r[l] = display[l - 1]
      BY <1>0, <1>4, <2>5
    <3>2. CASE k \in 1..p
      <4>1. k < l - 1
        BY <1>0, <2>5, <3>2
      <4> QED BY <1>4, <2>1, <3>1, <3>2, <4>1
    <3>3. CASE k = p + 1
      BY <1>4, <2>2, <3>1, <3>3
    <3>4. CASE k \in (p + 2)..(L + 1)
      <4>1. k - 1 < l - 1
        BY <1>0, <2>5, <3>4
      <4> QED BY <1>4, <2>1, <3>1, <3>4, <4>1
    <3> QED BY <1>4, <3>2, <3>3, <3>4
  <2> QED BY <1>4, <2>3, <2>4, <2>5
<1>6. ASSUME NEW j
      PROVE  (\E k \in 1..(L + 1) : r[k] = j) <=> j = i \/ \E k \in 1..L : display[k] = j
  <2>1. ASSUME NEW k \in 1..(L + 1), r[k] = j PROVE j = i \/ \E l \in 1..L : display[l] = j
    BY <1>4, <2>1
  <2>2. ASSUME NEW l \in 1..L, display[l] = j PROVE \E k \in 1..(L + 1) : r[k] = j
    <3>1. CASE l <= p
      <4>1. l \in 1..p
        BY <3>1, <1>0
      <4> QED BY <1>4, <2>2, <4>1
    <3>2. CASE ~(l <= p)
      <4>1. l + 1 \in (p + 2)..(L + 1) /\ (l + 1) - 1 = l
        BY <3>2, <1>0
      <4> QED BY <1>4, <2>2, <4>1
    <3> QED BY <3>1, <3>2
  <2> QED BY <1>4, <2>1, <2>2
<1>7. DOMAIN display = 1..L
  BY <1>0
<1>8. \A j : Shows(r, j) <=> j = i \/ Shows(display, j)
  BY <1>3, <1>6, <1>7 DEF Shows
<1> QED BY <1>1, <1>5, <1>8 DEF r

LEMMA ViewIs == \A d, f, o : View(d, f, o).display = d /\ View(d, f, o).visible = f /\ View(d, f, o).overrun = o
  BY DEF View

LEMMA EmptyIs ==
  \A f : /\ View(<<>>, f, FALSE).display = <<>> /\ View(<<>>, f, FALSE).visible = f
         /\ View(<<>>, f, FALSE).overrun = FALSE
  BY DEF View

\* The first few of a display are in order.
LEMMA FirstFew ==
  ASSUME NEW list, NEW display \in Seq(DOMAIN list), Ordered(list, display),
         \A k \in DOMAIN display : list[display[k]].ping > 0, NEW n \in 0..Len(display)
  PROVE  /\ SubSeq(display, 1, n) \in Seq(DOMAIN list) /\ Ordered(list, SubSeq(display, 1, n))
         /\ \A k \in DOMAIN SubSeq(display, 1, n) : list[SubSeq(display, 1, n)[k]].ping > 0
<1> DEFINE few == SubSeq(display, 1, n)
<1>1. Len(display) \in Nat /\ DOMAIN display = 1..Len(display) /\ n \in Nat /\ n <= Len(display)
  OBVIOUS
<1>2. few \in Seq(DOMAIN list) /\ DOMAIN few = 1..n /\ \A k \in 1..n : few[k] = display[k]
  BY <1>1
<1>3. \A k \in 1..n : k \in DOMAIN display
  BY <1>1
<1> HIDE DEF few
<1>4. Ordered(list, few)
  BY <1>2, <1>3 DEF Ordered
<1> QED BY <1>2, <1>3, <1>4 DEF few

\* Putting a server on display keeps it in order; all are there, or their
\* number was overwritten.
LEMMA InsertedIs ==
  ASSUME NEW list, NEW display \in Seq(DOMAIN list), NEW i \in DOMAIN list, \A k \in DOMAIN list : list[k].ping \in Int,
         Ordered(list, display), \A k \in DOMAIN display : list[display[k]].ping > 0, list[i].ping > 0,
         NEW now \in Inserted(display, Position(list, display, i), i)
  PROVE  /\ now \in Seq(DOMAIN list) /\ Ordered(list, now)
         /\ \A k \in DOMAIN now : list[now[k]].ping > 0
         /\ Len(display) + 1 >= MaxGlobal \/ \A j : Shows(now, j) <=> j = i \/ Shows(display, j)
<1> DEFINE p == Position(list, display, i)
           longer == InsertAt(display, p + 1, i)
<1>1. Len(display) \in Nat /\ DOMAIN display = 1..Len(display) /\ \A k \in DOMAIN display : display[k] \in DOMAIN list
  OBVIOUS
<1>2. p \in 0..Len(display) /\ Fits(list, display, list[i].ping, p)
  BY <1>1, PositionIs
<1>3. now \in IF Len(longer) < MaxGlobal THEN {longer} ELSE {SubSeq(longer, 1, n) : n \in 0..(MaxGlobal - 1)}
  BY DEF Inserted
<1> HIDE DEF p
<1>4. /\ longer \in Seq(DOMAIN list) /\ Ordered(list, longer)
      /\ \A j : Shows(longer, j) <=> j = i \/ Shows(display, j)
  BY <1>2, InsertFits
<1>5. Len(longer) = Len(display) + 1
  BY <1>2, InsertIs
<1> HIDE DEF longer
<1>6. \A k \in DOMAIN longer : list[longer[k]].ping > 0
  <2> SUFFICES ASSUME NEW k \in DOMAIN longer PROVE list[longer[k]].ping > 0
    OBVIOUS
  <2>1. longer[k] = i \/ \E l \in DOMAIN display : display[l] = longer[k]
    BY <1>4 DEF Shows
  <2> QED BY <2>1
<1>7. CASE Len(longer) < MaxGlobal
  BY <1>3, <1>4, <1>6, <1>7
<1>8. CASE ~(Len(longer) < MaxGlobal)
  <2>1. PICK n \in 0..(MaxGlobal - 1) : now = SubSeq(longer, 1, n)
    BY <1>3, <1>8
  <2>2. MaxGlobal \in Nat \ {0}
    BY ServerListAssumption
  <2>3. n \in 0..Len(longer) /\ Len(display) + 1 >= MaxGlobal
    BY <1>1, <1>5, <1>8, <2>1, <2>2
  <2> QED BY <1>4, <1>6, <2>1, <2>3, FirstFew
<1> QED BY <1>7, <1>8

\* Showing one server keeps what the display should be.
LEMMA ShownIs ==
  ASSUME NEW list, DOMAIN list \subseteq 1..MaxGlobal, \A k \in DOMAIN list : list[k].ping \in Int,
         NEW st, st.visible \in [1..MaxGlobal -> BOOLEAN], Displayed(list, st), NEW i \in DOMAIN list,
         NEW now \in Shown(list, st, i)
  PROVE  /\ now.visible \in [1..MaxGlobal -> BOOLEAN] /\ Displayed(list, now)
         /\ \A k \in 1..MaxGlobal : ~st.visible[k] => ~now.visible[k]
         /\ list[i].ping > 0 => ~now.visible[i]
<1>1. CASE ~st.visible[i] \/ list[i].ping <= 0
  <2>1. now = st
    BY <1>1 DEF Shown
  <2> QED BY <1>1, <2>1
<1>2. CASE ~(~st.visible[i] \/ list[i].ping <= 0)
  <2> DEFINE flags == [st.visible EXCEPT ![i] = FALSE]
  <2>1. /\ flags \in [1..MaxGlobal -> BOOLEAN] /\ flags[i] = FALSE
        /\ \A k \in 1..MaxGlobal : k # i => flags[k] = st.visible[k]
    OBVIOUS
  <2>2. /\ st.display \in Seq(DOMAIN list)
        /\ \A k \in DOMAIN st.display : list[st.display[k]].ping > 0
        /\ Ordered(list, st.display)
        /\ \A k \in 1..MaxGlobal :
             ~st.visible[k] => /\ k \in DOMAIN list /\ list[k].ping > 0
                               /\ list[k].adr \notin Filtered => st.overrun \/ Shows(st.display, k)
    BY DEF Displayed
  <2>3. list[i].ping > 0
    BY <1>2
  <2>4. /\ now.visible = flags /\ now.display \in Seq(DOMAIN list) /\ Ordered(list, now.display)
        /\ \A k \in DOMAIN now.display : list[now.display[k]].ping > 0
        /\ now.overrun \/ (~st.overrun /\ \A j : Shows(now.display, j) <=> (j = i /\ list[i].adr \notin Filtered) \/ Shows(st.display, j))
    <3>1. CASE list[i].adr \in Filtered
      <4>1. now = View(st.display, flags, st.overrun)
        BY <1>2, <3>1 DEF Shown
      <4> HIDE DEF flags
      <4>2. now.visible = flags /\ now.display = st.display /\ now.overrun = st.overrun
        BY <4>1, ViewIs
      <4> QED BY <2>2, <3>1, <4>2
    <3>2. CASE list[i].adr \notin Filtered
      <4> DEFINE over == st.overrun \/ Len(st.display) + 1 >= MaxGlobal
      <4>1. PICK display \in Inserted(st.display, Position(list, st.display, i), i) : now = View(display, flags, over)
        BY <1>2, <3>2 DEF Shown
      <4> HIDE DEF flags, over
      <4>2. now.visible = flags /\ now.display = display /\ now.overrun = over
        BY <4>1, ViewIs
      <4> DEFINE d == st.display
      <4>3. d \in Seq(DOMAIN list) /\ Ordered(list, d) /\ \A k \in DOMAIN d : list[d[k]].ping > 0
        BY <2>2
      <4>4. display \in Inserted(d, Position(list, d, i), i)
        BY <4>1
      <4> HIDE DEF d
      <4>5. /\ display \in Seq(DOMAIN list) /\ Ordered(list, display)
            /\ \A k \in DOMAIN display : list[display[k]].ping > 0
            /\ Len(d) + 1 >= MaxGlobal \/ \A j : Shows(display, j) <=> j = i \/ Shows(d, j)
        BY <2>3, <4>3, <4>4, InsertedIs
      <4> QED BY <3>2, <4>2, <4>5 DEF d, over
    <3> QED BY <3>1, <3>2
  <2> HIDE DEF flags
  <2>5. \A k \in 1..MaxGlobal :
          ~flags[k] => /\ k \in DOMAIN list /\ list[k].ping > 0
                       /\ list[k].adr \notin Filtered => now.overrun \/ Shows(now.display, k)
    <3> SUFFICES ASSUME NEW k \in 1..MaxGlobal, ~flags[k]
                 PROVE  /\ k \in DOMAIN list /\ list[k].ping > 0
                        /\ list[k].adr \notin Filtered => now.overrun \/ Shows(now.display, k)
      OBVIOUS
    <3>1. CASE k = i
      BY <2>3, <2>4, <3>1
    <3>2. CASE k # i
      <4>1. ~st.visible[k]
        BY <2>1, <3>2
      <4> QED BY <2>2, <2>4, <4>1
    <3> QED BY <3>1, <3>2
  <2>6. Displayed(list, now)
    BY <2>4, <2>5 DEF Displayed
  <2>7. \A k \in 1..MaxGlobal : ~st.visible[k] => ~flags[k]
    BY <2>1
  <2> QED BY <2>1, <2>4, <2>6, <2>7
<1> QED BY <1>1, <1>2

\* the states of the loop over the list
Showing(list, st, until, N) ==
  until = [i \in 0..N |-> IF i = 0 THEN {st} ELSE UNION {Shown(list, upto, i) : upto \in until[i - 1]}]

LEMMA ShowingEnds ==
  ASSUME NEW list, NEW st, NEW N \in Nat
  PROVE  \E until : Showing(list, st, until, N)
<1> DEFINE G == {n \in 0..N : \E until : Showing(list, st, until, n)}
<1>1. 0 \in G
  <2>1. Showing(list, st, [i \in 0..0 |-> {st}], 0)
    BY DEF Showing
  <2> QED BY <2>1
<1>2. ASSUME NEW n \in 1..N, n - 1 \in G PROVE n \in G
  <2>1. PICK before : Showing(list, st, before, n - 1)
    BY <1>2
  <2> DEFINE last == UNION {Shown(list, upto, n) : upto \in before[n - 1]}
             until == [i \in 0..n |-> IF i = n THEN last ELSE before[i]]
  <2>2. ASSUME NEW i \in 0..n
        PROVE  until[i] = IF i = 0 THEN {st} ELSE UNION {Shown(list, upto, i) : upto \in until[i - 1]}
    <3>1. CASE i = n
      <4>1. until[n] = last /\ until[n - 1] = before[n - 1]
        OBVIOUS
      <4> QED BY <3>1, <4>1
    <3>2. CASE i # n
      <4>1. i \in 0..(n - 1) /\ until[i] = before[i] /\ (i # 0 => i - 1 \in 0..n /\ i - 1 # n)
        BY <3>2
      <4>2. i # 0 => until[i - 1] = before[i - 1]
        BY <4>1
      <4> QED BY <2>1, <4>1, <4>2 DEF Showing
    <3> QED BY <3>1, <3>2
  <2>3. Showing(list, st, until, n)
    BY <2>2 DEF Showing
  <2> QED BY <2>3
<1>3. \A n \in 0..N : n \in G
  <2> HIDE DEF G
  <2> QED BY <1>1, <1>2, UpTo
<1>4. N \in G
  BY <1>3
<1> QED BY <1>4

\* The display is built of all that have a ping.
LEMMA BuiltIs ==
  ASSUME NEW list, NEW S, list \in Seq(S), Len(list) <= MaxGlobal, \A k \in DOMAIN list : list[k].ping \in Int,
         NEW st, st.visible \in [1..MaxGlobal -> BOOLEAN], Displayed(list, st),
         NEW none \in BOOLEAN, none => list = <<>>, NEW shown \in Built(list, none, st)
  PROVE  shown.visible \in [1..MaxGlobal -> BOOLEAN] /\ Displayed(list, shown) /\ BuiltNow(list, shown)
<1> USE ServerListAssumption
<1> DEFINE N == Len(list)
<1>0. N \in Nat /\ DOMAIN list = 1..N /\ DOMAIN list \subseteq 1..MaxGlobal
  OBVIOUS
<1>1. CASE none
  <2>1. shown = View(<<>>, st.visible, FALSE)
    BY <1>1 DEF Built
  <2>2. shown.display = <<>> /\ shown.visible = st.visible
    BY <2>1, EmptyIs
  <2>3. DOMAIN list = {}
    BY <1>1
  <2>4. Displayed(list, shown)
    BY <2>2, <2>3 DEF Displayed, Ordered
  <2> QED BY <2>2, <2>3, <2>4 DEF BuiltNow
<1>2. CASE ~none
  <2> DEFINE until == CHOOSE g : Showing(list, st, g, N)
  <2>1. Showing(list, st, until, N)
    BY <1>0, ShowingEnds
  <2>2. shown \in until[N]
    BY <1>2 DEF Built, Showing
  <2> HIDE DEF until
  <2> DEFINE Good(s, n) == /\ s.visible \in [1..MaxGlobal -> BOOLEAN] /\ Displayed(list, s)
                           /\ \A k \in 1..n : list[k].ping > 0 => ~s.visible[k]
             G == {n \in 0..N : \A s \in until[n] : Good(s, n)}
  <2>3. 0 \in G
    <3>1. until[0] = {st}
      BY <1>0, <2>1 DEF Showing
    <3> QED BY <1>0, <3>1
  <2>4. ASSUME NEW n \in 1..N, n - 1 \in G PROVE n \in G
    <3> SUFFICES ASSUME NEW s \in until[n] PROVE Good(s, n)
      OBVIOUS
    <3>1. until[n] = UNION {Shown(list, upto, n) : upto \in until[n - 1]}
      <4>1. n \in 0..N /\ n # 0
        BY <1>0
      <4>2. until[n] = IF n = 0 THEN {st} ELSE UNION {Shown(list, upto, n) : upto \in until[n - 1]}
        BY <2>1, <4>1, Zenon DEF Showing
      <4> QED BY <4>1, <4>2
    <3>2. PICK upto \in until[n - 1] : s \in Shown(list, upto, n)
      BY <3>1
    <3>3. Good(upto, n - 1)
      BY <2>4
    <3>4. n \in DOMAIN list
      BY <1>0
    <3>5. /\ s.visible \in [1..MaxGlobal -> BOOLEAN] /\ Displayed(list, s)
          /\ \A k \in 1..MaxGlobal : ~upto.visible[k] => ~s.visible[k]
          /\ list[n].ping > 0 => ~s.visible[n]
      BY <1>0, <3>2, <3>3, <3>4, ShownIs
    <3>6. \A k \in 1..n : k \in 1..MaxGlobal /\ (k = n \/ k \in 1..(n - 1))
      BY <1>0
    <3> QED BY <3>3, <3>5, <3>6
  <2>5. \A n \in 0..N : n \in G
    <3> HIDE DEF G
    <3> QED BY <1>0, <2>3, <2>4, UpTo
  <2>6. Good(shown, N)
    <3>1. N \in G
      BY <1>0, <2>5
    <3> HIDE DEF Good
    <3> QED BY <2>2, <3>1
  <2> QED BY <1>0, <2>6 DEF BuiltNow
<1> QED BY <1>1, <1>2

-------------------------------------------------------------------------------
(* The loop over the servers.                                                *)

LEMMA Constants ==
  /\ None \notin Addresses /\ MaxGlobal \in Nat \ {0} /\ MaxSlots \in Nat \ {0} /\ 1 \in Slots
  /\ StoredList \in Seq(Addresses) /\ Len(StoredList) <= Capacity(0) /\ Capacity(1) = MaxGlobal
  /\ \A s \in {0, 1} : Capacity(s) \in Nat \ {0} /\ Capacity(s) <= MaxGlobal
  BY ServerListAssumption DEF Slots, Capacity

LEMMA SlotIs == \A a, t, f : Slot(a, t, f).adr = a /\ Slot(a, t, f).time = t /\ Slot(a, t, f).info = f
  BY DEF Slot
LEMMA ServerIs == \A a, p, f : Server(a, p, f).adr = a /\ Server(a, p, f).ping = p /\ Server(a, p, f).info = f
  BY DEF Server
LEMMA AtIs ==
  ASSUME NEW l, NEW s, NEW x, NEW b
  PROVE  At(l, s, x, b).list = l /\ At(l, s, x, b).slots = s /\ At(l, s, x, b).extra = x
  BY DEF At
LEMMA SlotType ==
  \A a \in Addresses \cup {None}, t \in Nat, f \in Addresses \cup {None} : Slot(a, t, f) \in PingSlot
  BY DEF Slot, PingSlot
LEMMA ServerType ==
  \A a \in Addresses, p \in Int, f \in Addresses \cup {None} : Server(a, p, f) \in Entry
  BY DEF Server, Entry
LEMMA EntryType ==
  \A e \in Entry : e.adr \in Addresses /\ e.ping \in Int /\ e.info \in Addresses \cup {None}
  BY DEF Entry
LEMMA PingSlotType ==
  \A e \in PingSlot : e.adr \in Addresses \cup {None} /\ e.time \in Nat /\ e.info \in Addresses \cup {None}
  BY DEF PingSlot
LEMMA NewType == \A a \in Addresses : CL_InitServerInfo(a) \in Entry /\ CL_InitServerInfo(a) = Server(a, -1, None)
  BY ServerType DEF CL_InitServerInfo

AtOK(st, N) ==
  /\ st.list \in Seq(Entry) /\ Len(st.list) = N
  /\ st.slots \in [Slots -> PingSlot] /\ SlotsTrue(st.slots)
  /\ st.extra \in Seq(Addresses)

Given(slots, adr) == [slots EXCEPT ![Min(Free(slots))] = Slot(adr, 0, @.info)]

\* A slot that is given to an address that has none keeps the slots true.
LEMMA GivenIs ==
  ASSUME NEW slots \in [Slots -> PingSlot], SlotsTrue(slots), NEW adr \in Addresses, ~OnList(slots, adr),
         Free(slots) # {}
  PROVE  /\ Given(slots, adr) \in [Slots -> PingSlot] /\ SlotsTrue(Given(slots, adr)) /\ Used(Given(slots, adr)) # {}
         /\ \A j \in Slots : \/ Given(slots, adr)[j] = slots[j]
                             \/ (Given(slots, adr)[j].adr = adr /\ Given(slots, adr)[j].time = 0)
<1> DEFINE m == Min(Free(slots))
           given == Given(slots, adr)
<1>1. m \in Free(slots) /\ m \in Slots /\ slots[m].adr = None
  <2>1. Free(slots) \in SUBSET Nat
    BY DEF Free, Slots
  <2>2. m \in Free(slots)
    BY <2>1, MinIs
  <2> HIDE DEF m
  <2> QED BY <2>2 DEF Free, Used
<1> HIDE DEF m
<1>2. given = [slots EXCEPT ![m] = Slot(adr, 0, slots[m].info)]
  BY DEF m, Given
<1> HIDE DEF given
<1>3. given[m] = Slot(adr, 0, slots[m].info) /\ \A j \in Slots : j # m => given[j] = slots[j]
  BY <1>1, <1>2
<1>4. given[m].adr = adr /\ given[m].time = 0
  BY <1>3, SlotIs
<1>5. given \in [Slots -> PingSlot]
  <2>1. slots[m].info \in Addresses \cup {None}
    BY <1>1, PingSlotType
  <2>2. Slot(adr, 0, slots[m].info) \in PingSlot
    BY <2>1, SlotType
  <2> QED BY <1>2, <2>2
<1>6. adr # None /\ \A j \in Slots : slots[j].adr # adr
  BY Constants DEF OnList
<1>7. SlotsTrue(given)
  <2>1. ASSUME NEW j \in Slots, NEW k \in Slots, given[j].adr # None, given[j].adr = given[k].adr PROVE j = k
    <3>1. CASE j # m /\ k # m
      BY <1>3, <2>1, <3>1 DEF SlotsTrue, Used
    <3>2. CASE j = m /\ k # m
      BY <1>3, <1>4, <1>6, <2>1, <3>2
    <3>3. CASE k = m /\ j # m
      BY <1>3, <1>4, <1>6, <2>1, <3>3
    <3> QED BY <3>1, <3>2, <3>3
  <2>2. ASSUME NEW j \in Slots, given[j].adr # None, given[j].time > 0 PROVE given[j].info = given[j].adr
    <3>1. j # m
      BY <1>4, <2>2
    <3> QED BY <1>3, <2>2, <3>1 DEF SlotsTrue, Used
  <2> QED BY <2>1, <2>2 DEF SlotsTrue, Used
<1>8. m \in Used(given)
  BY <1>1, <1>4, <1>6 DEF Used
<1>9. \A j \in Slots : given[j] = slots[j] \/ (given[j].adr = adr /\ given[j].time = 0)
  BY <1>3, <1>4
<1>10. Used(given) # {}
  BY <1>8
<1> QED BY <1>5, <1>7, <1>9, <1>10 DEF given

\* Each visit leaves a list, slots and an overflow.
LEMMA VisitIs ==
  ASSUME NEW N \in Nat, NEW st, AtOK(st, N), NEW i \in 1..N
  PROVE  AtOK(Visit(st, i), N)
<1> DEFINE server == st.list[i]
           free == Free(st.slots)
           given == Given(st.slots, server.adr)
           next == [st.list EXCEPT ![i] = CL_InitServerInfo(Last(st.extra))]
           stops == At(st.list, st.slots, st.extra, TRUE)
           gives == At(st.list, given, st.extra, FALSE)
           takes == At(next, st.slots, Front(st.extra), FALSE)
<1>1. server \in Entry /\ server.adr \in Addresses
  BY EntryType DEF AtOK
<1>2. CASE st.stop \/ ~visible[i]
  BY <1>2 DEF Visit
<1>3. CASE ~(st.stop \/ ~visible[i])
  <2>1. Visit(st, i) = CASE server.ping = -1 /\ free = {} -> stops
                           [] server.ping = -1 /\ free # {} /\ ~OnList(st.slots, server.adr) -> gives
                           [] server.ping = 0 /\ source = 1 /\ st.extra # <<>> -> takes
                           [] OTHER -> st
    BY <1>3, Zenon DEF Visit, Given
  <2>2. /\ stops.list = st.list /\ stops.slots = st.slots /\ stops.extra = st.extra
        /\ gives.list = st.list /\ gives.slots = given /\ gives.extra = st.extra
        /\ takes.list = next /\ takes.slots = st.slots /\ takes.extra = Front(st.extra)
    <3> HIDE DEF server, free, given, next
    <3>1. stops.list = st.list /\ stops.slots = st.slots /\ stops.extra = st.extra
      BY DEF At
    <3>2. gives.list = st.list /\ gives.slots = given /\ gives.extra = st.extra
      BY DEF At
    <3>3. takes.list = next /\ takes.slots = st.slots /\ takes.extra = Front(st.extra)
      BY DEF At
    <3> QED BY <3>1, <3>2, <3>3
  <2> HIDE DEF server, free, given, next, stops, gives, takes
  <2>3. CASE server.ping = -1 /\ free = {}
    <3>1. Visit(st, i) = stops
      BY <2>1, <2>3
    <3> QED BY <3>1, <2>2 DEF AtOK
  <2>4. CASE server.ping = -1 /\ free # {} /\ ~OnList(st.slots, server.adr)
    <3>1. Visit(st, i) = gives
      BY <2>1, <2>4
    <3>2. given \in [Slots -> PingSlot] /\ SlotsTrue(given)
      <4>1. st.slots \in [Slots -> PingSlot] /\ SlotsTrue(st.slots)
        BY DEF AtOK
      <4>2. given = Given(st.slots, server.adr) /\ Free(st.slots) # {}
        BY <2>4 DEF given, free
      <4>3. ~OnList(st.slots, server.adr) /\ server.adr \in Addresses
        BY <1>1, <2>4 DEF server
      <4> QED BY <4>1, <4>2, <4>3, GivenIs
    <3> QED BY <3>1, <3>2, <2>2 DEF AtOK
  <2>5. CASE server.ping = 0 /\ source = 1 /\ st.extra # <<>>
    <3>1. Visit(st, i) = takes
      BY <2>1, <2>5
    <3>2. Last(st.extra) \in Addresses /\ Front(st.extra) \in Seq(Addresses)
      <4>1. st.extra \in Seq(Addresses) /\ Len(st.extra) \in Nat /\ Len(st.extra) # 0
        BY <2>5 DEF AtOK
      <4>2. Last(st.extra) \in Addresses
        BY <4>1 DEF Last
      <4>3. \A k \in 1..(Len(st.extra) - 1) : st.extra[k] \in Addresses
        BY <4>1
      <4>4. Front(st.extra) \in Seq(Addresses)
        BY <4>1, <4>3, SubSeqProperties DEF Front
      <4> QED BY <4>2, <4>4
    <3>3. next \in Seq(Entry) /\ Len(next) = N
      <4>1. CL_InitServerInfo(Last(st.extra)) \in Entry
        BY <3>2, NewType
      <4>2. st.list \in Seq(Entry) /\ Len(st.list) = N
        BY DEF AtOK
      <4> QED BY <4>1, <4>2, ExceptSeq DEF next
    <3> QED BY <3>1, <3>2, <3>3, <2>2 DEF AtOK
  <2>6. CASE /\ ~(server.ping = -1 /\ free = {}) /\ ~(server.ping = 0 /\ source = 1 /\ st.extra # <<>>)
             /\ ~(server.ping = -1 /\ free # {} /\ ~OnList(st.slots, server.adr))
    <3>1. Visit(st, i) = st
      BY <2>1, <2>6
    <3> QED BY <3>1
  <2> QED BY <2>3, <2>4, <2>5, <2>6
<1> QED BY <1>2, <1>3

\* Of a list that takes nothing from the overflow, a visit may give a slot to a
\* server without a ping; if no slot is used then it found none.
From(list, slots, st, n) ==
  /\ st.list = list
  /\ \A j \in Slots : st.slots[j] = slots[j]
                      \/ (st.slots[j].time = 0 /\ \E i \in DOMAIN list : list[i].ping = -1 /\ st.slots[j].adr = list[i].adr)
  /\ Used(st.slots) = {} => ~st.stop /\ \A i \in 1..n : visible[i] => list[i].ping # -1

LEMMA VisitFrom ==
  ASSUME NEW N \in Nat, NEW st, AtOK(st, N), NEW n \in 1..N, NEW list, NEW slots, visible[n] \in BOOLEAN,
         source = 1 => st.extra = <<>>, From(list, slots, st, n - 1)
  PROVE  From(list, slots, Visit(st, n), n) /\ Visit(st, n).extra = st.extra
<1> DEFINE server == st.list[n]
           free == Free(st.slots)
           given == Given(st.slots, server.adr)
           next == [st.list EXCEPT ![n] = CL_InitServerInfo(Last(st.extra))]
           stops == At(st.list, st.slots, st.extra, TRUE)
           gives == At(st.list, given, st.extra, FALSE)
           takes == At(next, st.slots, Front(st.extra), FALSE)
<1>0. /\ server \in Entry /\ server.adr \in Addresses /\ server = list[n] /\ n \in DOMAIN list
      /\ st.list = list
  BY EntryType DEF AtOK, From
<1>1. \A i \in 1..n : i = n \/ i \in 1..(n - 1)
  OBVIOUS
<1>2. CASE st.stop \/ ~visible[n]
  <2>1. Visit(st, n) = st
    BY <1>2 DEF Visit
  <2> QED BY <1>1, <1>2, <2>1 DEF From
<1>3. CASE ~(st.stop \/ ~visible[n])
  <2>1. Visit(st, n) = CASE server.ping = -1 /\ free = {} -> stops
                           [] server.ping = -1 /\ free # {} /\ ~OnList(st.slots, server.adr) -> gives
                           [] server.ping = 0 /\ source = 1 /\ st.extra # <<>> -> takes
                           [] OTHER -> st
    BY <1>3, Zenon DEF Visit, Given
  <2>2. /\ stops.list = st.list /\ stops.slots = st.slots /\ stops.extra = st.extra
        /\ gives.list = st.list /\ gives.slots = given /\ gives.extra = st.extra
        /\ takes.list = next /\ takes.slots = st.slots /\ takes.extra = Front(st.extra)
    <3> HIDE DEF server, free, given, next
    <3>1. stops.list = st.list /\ stops.slots = st.slots /\ stops.extra = st.extra
      BY DEF At
    <3>2. gives.list = st.list /\ gives.slots = given /\ gives.extra = st.extra
      BY DEF At
    <3>3. takes.list = next /\ takes.slots = st.slots /\ takes.extra = Front(st.extra)
      BY DEF At
    <3> QED BY <3>1, <3>2, <3>3
  <2> HIDE DEF server, free, given, next, stops, gives, takes
  <2>3. CASE server.ping = -1 /\ free = {}
    <3>1. Visit(st, n) = stops
      BY <2>1, <2>3
    <3>2. 1 \in Used(st.slots)
      BY <2>3, Constants DEF free, Free, Used
    <3> QED BY <3>1, <3>2, <2>2 DEF From
  <2>4. CASE server.ping = -1 /\ free # {} /\ ~OnList(st.slots, server.adr)
    <3>1. Visit(st, n) = gives
      BY <2>1, <2>4
    <3>2. /\ Used(given) # {}
          /\ \A j \in Slots : given[j] = st.slots[j] \/ (given[j].adr = server.adr /\ given[j].time = 0)
      <4>1. st.slots \in [Slots -> PingSlot] /\ SlotsTrue(st.slots)
        BY DEF AtOK
      <4>2. given = Given(st.slots, server.adr) /\ Free(st.slots) # {}
        BY <2>4 DEF given, free
      <4>3. ~OnList(st.slots, server.adr) /\ server.adr \in Addresses
        BY <1>0, <2>4 DEF server
      <4> QED BY <4>1, <4>2, <4>3, GivenIs
    <3>3. \A j \in Slots : given[j] = slots[j]
             \/ (given[j].time = 0 /\ \E i \in DOMAIN list : list[i].ping = -1 /\ given[j].adr = list[i].adr)
      BY <1>0, <2>4, <3>2 DEF From, server
    <3> QED BY <1>0, <3>1, <3>2, <3>3, <2>2 DEF From
  <2>5. ~(server.ping = 0 /\ source = 1 /\ st.extra # <<>>)
    OBVIOUS
  <2>6. CASE ~(server.ping = -1 /\ free = {}) /\ ~(server.ping = -1 /\ free # {} /\ ~OnList(st.slots, server.adr))
    <3>1. Visit(st, n) = st
      BY <2>1, <2>5, <2>6
    <3>2. Used(st.slots) = {} => ~OnList(st.slots, server.adr)
      BY <1>0, Constants DEF OnList, Used
    <3>3. Used(st.slots) = {} => server.ping # -1
      BY <2>6, <3>2
    <3> QED BY <1>0, <1>1, <3>1, <3>3 DEF From
  <2> QED BY <2>3, <2>4, <2>6
<1> QED BY <1>2, <1>3

\* the states of the loop
Visiting(st, until, N) ==
  until = [i \in 0..N |-> IF i = 0 THEN {st} ELSE {Visit(upto, i) : upto \in until[i - 1]}]

LEMMA VisitingEnds ==
  ASSUME NEW st, NEW N \in Nat
  PROVE  \E until : Visiting(st, until, N)
<1> DEFINE G == {n \in 0..N : \E until : Visiting(st, until, n)}
<1>1. 0 \in G
  <2>1. Visiting(st, [i \in 0..0 |-> {st}], 0)
    BY DEF Visiting
  <2> QED BY <2>1
<1>2. ASSUME NEW n \in 1..N, n - 1 \in G PROVE n \in G
  <2>1. PICK before : Visiting(st, before, n - 1)
    BY <1>2
  <2> DEFINE last == {Visit(upto, n) : upto \in before[n - 1]}
             until == [i \in 0..n |-> IF i = n THEN last ELSE before[i]]
  <2>2. ASSUME NEW i \in 0..n
        PROVE  until[i] = IF i = 0 THEN {st} ELSE {Visit(upto, i) : upto \in until[i - 1]}
    <3>1. CASE i = n
      <4>1. until[n] = last /\ until[n - 1] = before[n - 1]
        OBVIOUS
      <4> QED BY <3>1, <4>1
    <3>2. CASE i # n
      <4>1. i \in 0..(n - 1) /\ until[i] = before[i] /\ (i # 0 => i - 1 \in 0..n /\ i - 1 # n)
        BY <3>2
      <4>2. i # 0 => until[i - 1] = before[i - 1]
        BY <4>1
      <4> QED BY <2>1, <4>1, <4>2 DEF Visiting
    <3> QED BY <3>1, <3>2
  <2>3. Visiting(st, until, n)
    BY <2>2 DEF Visiting
  <2> QED BY <2>3
<1>3. \A n \in 0..N : n \in G
  <2> HIDE DEF G
  <2> QED BY <1>1, <1>2, UpTo
<1>4. N \in G
  BY <1>3
<1> QED BY <1>4

Begun == At(servers[source], cl_pinglist, overflow, Free(cl_pinglist) = {})

LEMMA BegunIs ==
  /\ Begun.list = servers[source] /\ Begun.slots = cl_pinglist /\ Begun.extra = overflow
  /\ Begun.stop <=> Free(cl_pinglist) = {}
  BY DEF Begun, At

\* Visited is where the loop ends.
LEMMA VisitedIs ==
  ASSUME Len(servers[source]) \in Nat
  PROVE  \E until : /\ until[0] = {Begun} /\ Visited = until[Len(servers[source])]
                    /\ \A n \in 1..Len(servers[source]) : until[n] = {Visit(upto, n) : upto \in until[n - 1]}
<1> DEFINE N == Len(servers[source])
           until == CHOOSE g : Visiting(Begun, g, N)
<1>1. Visiting(Begun, until, N)
  BY VisitingEnds
<1>2. Visited = until[N]
  BY Zenon DEF Visited, Visiting, Begun
<1> HIDE DEF until
<1>3. until[0] = {Begun}
  BY <1>1 DEF Visiting
<1>4. ASSUME NEW n \in 1..N PROVE until[n] = {Visit(upto, n) : upto \in until[n - 1]}
  <2>1. n \in 0..N /\ n # 0
    OBVIOUS
  <2>2. until[n] = IF n = 0 THEN {Begun} ELSE {Visit(upto, n) : upto \in until[n - 1]}
    BY <1>1, <2>1, Zenon DEF Visiting
  <2> QED BY <2>1, <2>2
<1> QED BY <1>2, <1>3, <1>4

LEMMA Lengths ==
  ASSUME BrowserTypeOK
  PROVE  /\ \A s \in {0, 1} : /\ servers[s] \in Seq(Entry) /\ Len(servers[s]) \in Nat /\ Len(servers[s]) <= MaxGlobal
                              /\ DOMAIN servers[s] = 1..Len(servers[s]) /\ DOMAIN servers[s] \subseteq 1..MaxGlobal
                              /\ \A i \in DOMAIN servers[s] : servers[s][i] \in Entry
         /\ source \in {0, 1} /\ pingUpdateSource \in {0, 1}
<1>1. servers \in [{0, 1} -> Seq(Entry)] /\ source \in {0, 1} /\ pingUpdateSource \in {0, 1}
  BY DEF BrowserTypeOK
<1>2. ASSUME NEW s \in {0, 1}
      PROVE  /\ servers[s] \in Seq(Entry) /\ Len(servers[s]) \in Nat /\ Len(servers[s]) <= MaxGlobal
             /\ DOMAIN servers[s] = 1..Len(servers[s]) /\ DOMAIN servers[s] \subseteq 1..MaxGlobal
             /\ \A i \in DOMAIN servers[s] : servers[s][i] \in Entry
  <2>1. servers[s] \in Seq(Entry) /\ Len(servers[s]) <= Capacity(s)
    BY <1>1 DEF BrowserTypeOK
  <2>2. Len(servers[s]) \in Nat /\ Len(servers[s]) <= MaxGlobal
    BY <2>1, Constants
  <2> QED BY <2>1, <2>2, Constants
<1> QED BY <1>1, <1>2

LEMMA VisitedTypes ==
  ASSUME BrowserTypeOK, SlotsTrue(cl_pinglist), NEW st \in Visited
  PROVE  AtOK(st, Len(servers[source]))
<1> DEFINE N == Len(servers[source])
<1>1. N \in Nat /\ servers[source] \in Seq(Entry)
  BY Lengths
<1>2. PICK until : /\ until[0] = {Begun} /\ Visited = until[N]
                   /\ \A n \in 1..N : until[n] = {Visit(upto, n) : upto \in until[n - 1]}
  BY <1>1, VisitedIs
<1> DEFINE G == {n \in 0..N : \A s \in until[n] : AtOK(s, N)}
<1>3. 0 \in G
  <2>1. AtOK(Begun, N)
    BY <1>1, BegunIs DEF AtOK, BrowserTypeOK
  <2> QED BY <1>1, <1>2, <2>1
<1>4. ASSUME NEW n \in 1..N, n - 1 \in G PROVE n \in G
  <2> SUFFICES ASSUME NEW s \in until[n] PROVE AtOK(s, N)
    OBVIOUS
  <2>1. PICK upto \in until[n - 1] : s = Visit(upto, n)
    BY <1>2
  <2>2. AtOK(upto, N)
    BY <1>4
  <2> HIDE DEF N
  <2> QED BY <1>1, <2>1, <2>2, VisitIs
<1>5. \A n \in 0..N : n \in G
  <2> HIDE DEF G, N
  <2> QED BY <1>1, <1>3, <1>4, UpTo
<1>6. N \in G
  BY <1>1, <1>5
<1> QED BY <1>2, <1>6

\* While nothing is taken from the overflow.
LEMMA VisitedFrom ==
  ASSUME BrowserTypeOK, SlotsTrue(cl_pinglist), source = 1 => overflow = <<>> \/ servers[1] = <<>>, NEW st \in Visited
  PROVE  From(servers[source], cl_pinglist, st, Len(servers[source])) /\ st.extra = overflow
<1> DEFINE N == Len(servers[source])
           F(s, n) == AtOK(s, N) /\ From(servers[source], cl_pinglist, s, n) /\ s.extra = overflow
<1>1. N \in Nat /\ servers[source] \in Seq(Entry) /\ N <= MaxGlobal /\ source \in {0, 1}
  BY Lengths DEF BrowserTypeOK
<1>2. PICK until : /\ until[0] = {Begun} /\ Visited = until[N]
                   /\ \A n \in 1..N : until[n] = {Visit(upto, n) : upto \in until[n - 1]}
  BY <1>1, VisitedIs
<1> DEFINE G == {n \in 0..N : \A s \in until[n] : F(s, n)}
<1>3. 0 \in G
  <2>1. AtOK(Begun, N)
    BY <1>1, BegunIs DEF AtOK, BrowserTypeOK
  <2>2. Begun.stop => Used(Begun.slots) # {}
    <3>1. ASSUME Free(cl_pinglist) = {} PROVE 1 \in Used(cl_pinglist)
      BY <3>1, Constants DEF Free
    <3> QED BY <3>1, BegunIs
  <2>3. From(servers[source], cl_pinglist, Begun, 0)
    BY <2>2, BegunIs DEF From
  <2> QED BY <1>1, <1>2, <2>1, <2>3, BegunIs
<1>4. ASSUME NEW n \in 1..N, n - 1 \in G PROVE n \in G
  <2> SUFFICES ASSUME NEW s \in until[n] PROVE F(s, n)
    OBVIOUS
  <2>1. PICK upto \in until[n - 1] : s = Visit(upto, n)
    BY <1>2
  <2>2. F(upto, n - 1)
    BY <1>4
  <2>3. visible[n] \in BOOLEAN
    <3>1. n \in 1..MaxGlobal
      BY <1>1, Constants
    <3> QED BY <3>1 DEF BrowserTypeOK
  <2>4. source = 1 => upto.extra = <<>>
    <3>1. servers[source] # <<>>
      BY <1>1
    <3> QED BY <2>2, <3>1
  <2> HIDE DEF N
  <2>5. AtOK(s, N)
    BY <1>1, <2>1, <2>2, VisitIs
  <2>6. From(servers[source], cl_pinglist, s, n) /\ s.extra = upto.extra
    <3> DEFINE list == servers[source]
               slots == cl_pinglist
    <3>0. AtOK(upto, N)
      BY <2>2
    <3> HIDE DEF list, slots, F
    <3>1. From(list, slots, upto, n - 1)
      BY <2>2 DEF list, slots, F
    <3>2. From(list, slots, Visit(upto, n), n) /\ Visit(upto, n).extra = upto.extra
      BY <1>1, <2>3, <2>4, <3>0, <3>1, VisitFrom
    <3> QED BY <2>1, <3>2 DEF list, slots
  <2> QED BY <2>2, <2>5, <2>6
<1>5. \A n \in 0..N : n \in G
  <2> HIDE DEF G, N
  <2> QED BY <1>1, <1>3, <1>4, UpTo
<1>6. N \in G
  BY <1>1, <1>5
<1> QED BY <1>2, <1>6

\* What a list becomes when the slots' pings are put in.
LEMMA PingedIs ==
  ASSUME NEW list \in Seq(Entry), NEW slots \in [Slots -> PingSlot], SlotsTrue(slots)
  PROVE  /\ Pinged(list, slots) \in Seq(Entry) /\ Len(Pinged(list, slots)) = Len(list)
         /\ \A i \in DOMAIN list :
              /\ Pinged(list, slots)[i].adr = list[i].adr
              /\ \A j \in Slots : slots[j].adr = list[i].adr
                                    => Pinged(list, slots)[i] = Server(list[i].adr, slots[j].time, slots[j].info)
              /\ (\A j \in Slots : slots[j].adr # list[i].adr) => Pinged(list, slots)[i] = list[i]
<1> DEFINE p == Pinged(list, slots)
           of(i) == {j \in Slots : slots[j].adr = list[i].adr}
<1>0. Len(list) \in Nat /\ DOMAIN list = 1..Len(list) /\ \A i \in DOMAIN list : list[i] \in Entry /\ list[i].adr \in Addresses
  BY EntryType
<1>1. ASSUME NEW i \in DOMAIN list
      PROVE  p[i] = IF of(i) = {} THEN list[i] ELSE Server(list[i].adr, slots[Max(of(i))].time, slots[Max(of(i))].info)
  BY DEF Pinged
<1>2. p = [i \in 1..Len(list) |-> p[i]]
  BY <1>0 DEF Pinged
<1> HIDE DEF p
<1>3. ASSUME NEW i \in DOMAIN list, NEW j \in Slots, slots[j].adr = list[i].adr
      PROVE  p[i] = Server(list[i].adr, slots[j].time, slots[j].info)
  <2>1. of(i) = {j}
    <3>1. ASSUME NEW k \in Slots, slots[k].adr = list[i].adr PROVE k = j
      BY <1>0, <1>3, <3>1, Constants DEF SlotsTrue, Used
    <3> QED BY <1>3, <3>1
  <2>2. Max({j}) = j
    <3>1. j \in Int
      BY DEF Slots
    <3> QED BY <3>1 DEF Max
  <2>3. of(i) # {} /\ Max(of(i)) = j
    BY <2>1, <2>2
  <2> HIDE DEF of
  <2> QED BY <1>1, <2>3
<1>4. ASSUME NEW i \in DOMAIN list, \A j \in Slots : slots[j].adr # list[i].adr PROVE p[i] = list[i]
  BY <1>1, <1>4
<1>5. ASSUME NEW i \in DOMAIN list PROVE p[i] \in Entry /\ p[i].adr = list[i].adr
  <2>1. CASE \E j \in Slots : slots[j].adr = list[i].adr
    <3>1. PICK j \in Slots : slots[j].adr = list[i].adr
      BY <2>1
    <3>2. slots[j].time \in Int /\ slots[j].info \in Addresses \cup {None}
      BY PingSlotType
    <3> QED BY <1>0, <1>3, <3>1, <3>2, ServerType, ServerIs
  <2>2. CASE \A j \in Slots : slots[j].adr # list[i].adr
    BY <1>0, <1>4, <2>2
  <2> QED BY <2>1, <2>2
<1>6. p \in Seq(Entry) /\ Len(p) = Len(list)
  BY <1>0, <1>2, <1>5
<1> QED BY <1>3, <1>4, <1>5, <1>6 DEF p

LEMMA InformedIs ==
  ASSUME NEW list \in Seq(Entry), NEW adr \in Addresses, NEW time \in Nat
  PROVE  /\ Informed(list, adr, adr, time) \in Seq(Entry) /\ Len(Informed(list, adr, adr, time)) = Len(list)
         /\ \A i \in DOMAIN list :
              Informed(list, adr, adr, time)[i] = IF list[i].adr = adr THEN Server(adr, time, adr) ELSE list[i]
<1>1. Len(list) \in Nat /\ DOMAIN list = 1..Len(list) /\ \A i \in DOMAIN list : list[i] \in Entry
  OBVIOUS
<1>2. Server(adr, time, adr) \in Entry
  BY ServerType
<1> QED BY <1>1, <1>2 DEF Informed

-------------------------------------------------------------------------------
(* Packets.                                                                  *)

\* Places have ranks.
LEMMA RankIs ==
  ASSUME NEW L \in Nat, NEW S \in SUBSET (1..L)
  PROVE  /\ IsFiniteSet(S) /\ Cardinality(S) \in Nat
         /\ \A k \in 1..Cardinality(S) : \E i \in S : Cardinality({j \in S : j <= i}) = k
<1> DEFINE N == Cardinality(S)
           Lowest(T) == T \subseteq S /\ \A a \in T, b \in S \ T : a < b
           Ranked(k) == \E i \in S : Cardinality({j \in S : j <= i}) = k
           G == {k \in 0..N : (\E T : Lowest(T) /\ Cardinality(T) = k) /\ (k # 0 => Ranked(k))}
<1>0. IsFiniteSet(S) /\ N \in Nat
  <2>1. IsFiniteSet(1..L)
    BY FS_Interval
  <2>2. IsFiniteSet(S)
    BY <2>1, FS_Subset
  <2> QED BY <2>2, FS_CardinalityType
<1>1. 0 \in G
  <2>1. Lowest({}) /\ Cardinality({}) = 0
    BY FS_EmptySet
  <2> QED BY <1>0, <2>1
<1>2. ASSUME NEW n \in 1..N, n - 1 \in G PROVE n \in G
  <2>1. PICK T : Lowest(T) /\ Cardinality(T) = n - 1
    BY <1>2
  <2> DEFINE m == Min(S \ T)
             U == {j \in S : j <= m}
  <2>2. IsFiniteSet(T)
    BY <1>0, <2>1, FS_Subset
  <2>3. S \ T # {}
    <3> SUFFICES ASSUME S \subseteq T PROVE FALSE
      OBVIOUS
    <3>1. S = T
      BY <2>1
    <3> QED BY <1>0, <2>1, <3>1
  <2>4. m \in S \ T /\ (\A i \in S \ T : m <= i) /\ m \in Nat
    <3> DEFINE R == S \ T
    <3>1. R \in SUBSET Nat /\ R # {}
      <4>1. \A i \in S : i \in Nat
        OBVIOUS
      <4> QED BY <2>3, <4>1, Zenon
    <3> HIDE DEF R
    <3>2. Min(R) \in R /\ \A i \in R : Min(R) <= i
      BY <3>1, MinIs
    <3> QED BY <3>1, <3>2 DEF R
  <2> HIDE DEF m
  <2>5. U = T \cup {m}
    <3>1. ASSUME NEW j \in S, j <= m PROVE j \in T \cup {m}
      <4>1. j \in S \ T => m <= j /\ j \in Nat
        BY <2>4
      <4> QED BY <2>4, <3>1, <4>1
    <3>2. ASSUME NEW j \in T PROVE j \in S /\ j <= m
      <4>1. j \in S /\ j < m /\ j \in Nat
        BY <2>1, <2>4
      <4> QED BY <2>4, <4>1
    <3>3. m \in S /\ m <= m
      BY <2>4
    <3> QED BY <3>1, <3>2, <3>3
  <2>6. Cardinality(U) = n
    <3>1. m \notin T
      BY <2>4
    <3>2. Cardinality(T \cup {m}) = Cardinality(T) + 1
      BY <2>2, <3>1, FS_AddElement
    <3> QED BY <1>0, <2>1, <2>5, <3>2
  <2>7. Ranked(n)
    BY <2>4, <2>6
  <2>8. Lowest(U)
    <3> SUFFICES ASSUME NEW a \in U, NEW b \in S \ U PROVE a < b
      OBVIOUS
    <3>1. a \in Nat /\ b \in Nat /\ a <= m /\ ~(b <= m)
      OBVIOUS
    <3> QED BY <2>4, <3>1
  <2>9. n \in 0..N
    BY <1>0
  <2> HIDE DEF Lowest, Ranked, U, N
  <2> QED BY <2>6, <2>7, <2>8, <2>9
<1>3. \A n \in 0..N : n \in G
  <2> HIDE DEF G, N
  <2> QED BY <1>0, <1>1, <1>2, UpTo
<1>4. ASSUME NEW k \in 1..N PROVE Ranked(k)
  <2>1. k \in G /\ k # 0
    BY <1>0, <1>3
  <2> QED BY <2>1
<1> QED BY <1>0, <1>4

\* The addresses of some places are theirs.
LEMMA ThoseIs ==
  ASSUME NEW packet \in Seq(Addresses), NEW places \in SUBSET DOMAIN packet
  PROVE  /\ Those(packet, places) \in Seq(Addresses) /\ Len(Those(packet, places)) = Cardinality(places)
         /\ Cardinality(places) \in Nat
         /\ \A k \in DOMAIN Those(packet, places) : \E i \in places : Those(packet, places)[k] = packet[i]
         /\ places = {} => Those(packet, places) = <<>>
<1> DEFINE N == Cardinality(places)
           at(k) == CHOOSE i \in places : Cardinality({j \in places : j <= i}) = k
           those == Those(packet, places)
<1>1. Len(packet) \in Nat /\ DOMAIN packet = 1..Len(packet)
  OBVIOUS
<1>2. N \in Nat /\ \A k \in 1..N : \E i \in places : Cardinality({j \in places : j <= i}) = k
  BY <1>1, RankIs
<1>3. \A k \in 1..N : at(k) \in places /\ Cardinality({j \in places : j <= at(k)}) = k
  BY <1>2
<1>4. those = [k \in 1..N |-> packet[at(k)]]
  BY Zenon DEF Those
<1> HIDE DEF at, those, N
<1>5. ASSUME NEW k \in 1..N PROVE those[k] = packet[at(k)] /\ at(k) \in DOMAIN packet /\ packet[at(k)] \in Addresses
  <2>1. at(k) \in DOMAIN packet
    BY <1>3
  <2>2. those[k] = packet[at(k)]
    BY <1>4
  <2> QED BY <2>1, <2>2
<1>6. those \in Seq(Addresses) /\ Len(those) = N /\ DOMAIN those = 1..N
  BY <1>2, <1>4, <1>5
<1>8. places = {} => those = <<>>
  <2> SUFFICES ASSUME places = {} PROVE those = <<>>
    OBVIOUS
  <2>1. N = 0
    BY FS_EmptySet DEF N
  <2> QED BY <1>6, <2>1
<1>9. \A k \in DOMAIN those : \E i \in places : those[k] = packet[i]
  BY <1>3, <1>5, <1>6
<1> QED BY <1>2, <1>6, <1>8, <1>9 DEF those, N

\* No more are taken than there is room for.
LEMMA TakenFit ==
  ASSUME NEW L \in Nat, NEW fresh \in SUBSET (1..L), NEW room \in Nat, NEW taken,
         taken = {i \in fresh : Cardinality({j \in fresh : j <= i}) <= room}
  PROVE  Cardinality(taken) <= room
<1>1. taken \in SUBSET (1..L)
  OBVIOUS
<1>2. Cardinality(taken) \in Nat /\ \A k \in 1..Cardinality(taken) : \E i \in taken : Cardinality({j \in taken : j <= i}) = k
  BY <1>1, RankIs
<1> SUFFICES ASSUME Cardinality(taken) > room PROVE FALSE
  BY <1>2
<1>3. room + 1 \in 1..Cardinality(taken)
  BY <1>2
<1>4. PICK i \in taken : Cardinality({j \in taken : j <= i}) = room + 1
  BY <1>2, <1>3
<1> DEFINE T == {j \in taken : j <= i}
           F == {j \in fresh : j <= i}
<1>5. Cardinality(F) <= room /\ T \subseteq F /\ F \in SUBSET (1..L)
  OBVIOUS
<1>6. IsFiniteSet(F) /\ Cardinality(F) \in Nat
  BY <1>5, RankIs
<1>7. Cardinality(T) <= Cardinality(F) /\ IsFiniteSet(T)
  BY <1>5, <1>6, FS_Subset
<1>8. Cardinality(T) = room + 1
  BY <1>4
<1> HIDE DEF T, F
<1> QED BY <1>5, <1>6, <1>7, <1>8

\* The list with servers added to it.
Longer(list, added) == list \o [k \in DOMAIN added |-> CL_InitServerInfo(added[k])]

LEMMA LongerIs ==
  ASSUME NEW list \in Seq(Entry), NEW added \in Seq(Addresses)
  PROVE  /\ Longer(list, added) \in Seq(Entry) /\ Len(Longer(list, added)) = Len(list) + Len(added)
         /\ \A i \in DOMAIN list : i \in DOMAIN Longer(list, added) /\ Longer(list, added)[i] = list[i]
         /\ \A i \in DOMAIN Longer(list, added) \ DOMAIN list :
              /\ i - Len(list) \in DOMAIN added /\ Longer(list, added)[i] = Server(added[i - Len(list)], -1, None)
<1> DEFINE more == Longer(list, added)
           new == [k \in DOMAIN added |-> CL_InitServerInfo(added[k])]
<1>1. new \in Seq(Entry) /\ Len(new) = Len(added)
  <2>1. Len(added) \in Nat /\ DOMAIN added = 1..Len(added) /\ \A k \in 1..Len(added) : added[k] \in Addresses
    OBVIOUS
  <2>2. \A k \in 1..Len(added) : CL_InitServerInfo(added[k]) \in Entry
    BY <2>1, NewType
  <2> QED BY <2>1, <2>2
<1>2. \A k \in DOMAIN added : new[k] = Server(added[k], -1, None)
  BY DEF CL_InitServerInfo
<1>3. more = list \o new
  BY DEF Longer
<1> HIDE DEF new, more
<1>4. /\ more \in Seq(Entry) /\ Len(more) = Len(list) + Len(new)
      /\ \A i \in 1..(Len(list) + Len(new)) : more[i] = IF i <= Len(list) THEN list[i] ELSE new[i - Len(list)]
  <2>1. new \in Seq(Entry) /\ list \in Seq(Entry)
    BY <1>1
  <2>2. /\ list \o new \in Seq(Entry) /\ Len(list \o new) = Len(list) + Len(new)
        /\ \A i \in 1..(Len(list) + Len(new)) : (list \o new)[i] = IF i <= Len(list) THEN list[i] ELSE new[i - Len(list)]
    BY <2>1, ConcatProperties
  <2> QED BY <1>3, <2>2
<1>5. /\ Len(list) \in Nat /\ Len(added) \in Nat /\ DOMAIN list = 1..Len(list) /\ DOMAIN added = 1..Len(added)
      /\ DOMAIN more = 1..(Len(list) + Len(added))
  BY <1>1, <1>4
<1>6. ASSUME NEW i \in DOMAIN more \ DOMAIN list
      PROVE  i - Len(list) \in DOMAIN added /\ more[i] = new[i - Len(list)]
  BY <1>1, <1>4, <1>5
<1>7. \A i \in DOMAIN list : i \in DOMAIN more /\ more[i] = list[i]
  BY <1>1, <1>4, <1>5
<1> QED BY <1>1, <1>2, <1>4, <1>6, <1>7 DEF more

-------------------------------------------------------------------------------
(* The steps.                                                                *)

\* What is on display stays there while the pings of those with one stay.
LEMMA DisplayStays ==
  ASSUME NEW list, NEW more, NEW st, Displayed(list, st), DOMAIN list \subseteq DOMAIN more,
         \A i \in DOMAIN list : list[i].ping > 0 => more[i].ping = list[i].ping /\ more[i].adr = list[i].adr
  PROVE  Displayed(more, st)
<1>1. /\ st.display \in Seq(DOMAIN list)
      /\ \A k \in DOMAIN st.display : list[st.display[k]].ping > 0
      /\ \A k, l \in DOMAIN st.display : k < l => list[st.display[k]].ping <= list[st.display[l]].ping
      /\ \A i \in 1..MaxGlobal :
           ~st.visible[i] => /\ i \in DOMAIN list /\ list[i].ping > 0
                             /\ list[i].adr \notin Filtered => st.overrun \/ Shows(st.display, i)
  BY DEF Displayed, Ordered
<1>2. \A k \in DOMAIN st.display : st.display[k] \in DOMAIN list
  BY <1>1
<1>3. st.display \in Seq(DOMAIN more)
  <2>1. \A k \in DOMAIN st.display : st.display[k] \in DOMAIN more
    BY <1>2
  <2> QED BY <1>1, <2>1
<1>4. \A k \in DOMAIN st.display : more[st.display[k]].ping = list[st.display[k]].ping
  BY <1>1, <1>2
<1>5. \A i \in 1..MaxGlobal :
        ~st.visible[i] => /\ i \in DOMAIN more /\ more[i].ping > 0
                          /\ more[i].adr \notin Filtered => st.overrun \/ Shows(st.display, i)
  BY <1>1
<1> QED BY <1>1, <1>3, <1>4, <1>5 DEF Displayed, Ordered

LEMMA ClearedShows ==
  ASSUME NEW list
  PROVE  /\ Displayed(list, Cleared) /\ Cleared.display = <<>> /\ Cleared.visible = AllVisible /\ Cleared.overrun = FALSE
         /\ Cleared.visible \in [1..MaxGlobal -> BOOLEAN]
<1>1. Cleared.display = <<>> /\ Cleared.visible = AllVisible /\ Cleared.overrun = FALSE
  BY EmptyIs, Zenon DEF Cleared
<1>2. AllVisible \in [1..MaxGlobal -> BOOLEAN] /\ \A i \in 1..MaxGlobal : AllVisible[i]
  BY DEF AllVisible
<1>3. <<>> \in Seq(DOMAIN list) /\ DOMAIN <<>> = {}
  OBVIOUS
<1> QED BY <1>1, <1>2, <1>3 DEF Displayed, Ordered

\* Whatever is on display, the flags stay flags.
LEMMA BuiltType ==
  ASSUME NEW list, Len(list) \in Nat, Len(list) <= MaxGlobal,
         NEW st, st.visible \in [1..MaxGlobal -> BOOLEAN], NEW none \in BOOLEAN, NEW shown \in Built(list, none, st)
  PROVE  shown.visible \in [1..MaxGlobal -> BOOLEAN]
<1> DEFINE N == Len(list)
           Flags == [1..MaxGlobal -> BOOLEAN]
<1>1. CASE none
  <2>1. shown = View(<<>>, st.visible, FALSE)
    BY <1>1 DEF Built
  <2> QED BY <2>1, EmptyIs
<1>2. CASE ~none
  <2> DEFINE until == CHOOSE g : Showing(list, st, g, N)
  <2>1. Showing(list, st, until, N)
    BY ShowingEnds
  <2>2. shown \in until[N]
    BY <1>2 DEF Built, Showing
  <2> HIDE DEF until
  <2> DEFINE G == {n \in 0..N : \A s \in until[n] : s.visible \in Flags}
  <2>3. 0 \in G
    BY <2>1 DEF Showing
  <2>4. ASSUME NEW n \in 1..N, n - 1 \in G PROVE n \in G
    <3> SUFFICES ASSUME NEW s \in until[n] PROVE s.visible \in Flags
      OBVIOUS
    <3>1. n \in 0..N /\ n # 0
      OBVIOUS
    <3>2. until[n] = IF n = 0 THEN {st} ELSE UNION {Shown(list, upto, n) : upto \in until[n - 1]}
      BY <2>1, <3>1, Zenon DEF Showing
    <3>3. PICK upto \in until[n - 1] : s \in Shown(list, upto, n)
      BY <3>1, <3>2
    <3>4. upto.visible \in Flags
      BY <2>4
    <3>5. s = upto \/ s.visible = [upto.visible EXCEPT ![n] = FALSE]
      <4> DEFINE flags == [upto.visible EXCEPT ![n] = FALSE]
      <4>1. s = upto \/ \E display, o : s = View(display, flags, o)
        BY <3>3 DEF Shown
      <4> HIDE DEF flags
      <4>2. s = upto \/ s.visible = flags
        BY <4>1, ViewIs
      <4> QED BY <4>2 DEF flags
    <3> QED BY <3>4, <3>5
  <2>5. \A n \in 0..N : n \in G
    <3> HIDE DEF G, N
    <3> QED BY <2>3, <2>4, UpTo DEF N
  <2>6. N \in G
    BY <2>5
  <2> QED BY <2>2, <2>6
<1> QED BY <1>1, <1>2

\* The state after a display is built of all servers.
LEMMA RebuiltIs ==
  ASSUME NEW list \in Seq(Entry), Len(list) <= MaxGlobal, NEW none \in BOOLEAN, none => list = <<>>,
         NEW st, st.visible \in [1..MaxGlobal -> BOOLEAN], Displayed(list, st),
         NEW shown \in Built(list, none, st), Displays(shown)
  PROVE  visible' \in [1..MaxGlobal -> BOOLEAN] /\ Displayed(list, Now') /\ BuiltNow(list, Now')
<1>1. \A k \in DOMAIN list : list[k].ping \in Int
  BY EntryType
<1>2. shown.visible \in [1..MaxGlobal -> BOOLEAN] /\ Displayed(list, shown) /\ BuiltNow(list, shown)
  BY <1>1, BuiltIs
<1>3. /\ Now'.display = shown.display /\ Now'.visible = shown.visible /\ visible' = shown.visible
      /\ Now'.overrun = shown.overrun
  BY ViewIs DEF Displays, Now
<1> QED BY <1>2, <1>3 DEF Displayed, BuiltNow

\* The pings of the masters' servers are gone.
LEMMA ResetIs ==
  ASSUME BrowserTypeOK
  PROVE  /\ LAN_ResetPings \in [{0, 1} -> Seq(Entry)] /\ LAN_ResetPings[0] = servers[0]
         /\ Len(LAN_ResetPings[1]) = Len(servers[1])
         /\ \A i \in DOMAIN servers[1] : LAN_ResetPings[1][i] = Server(servers[1][i].adr, -1, servers[1][i].info)
<1> DEFINE list == servers[1]
           reset == [i \in DOMAIN list |-> Server(list[i].adr, -1, list[i].info)]
<1>1. servers \in [{0, 1} -> Seq(Entry)] /\ list \in Seq(Entry) /\ Len(list) \in Nat /\ DOMAIN list = 1..Len(list)
  BY Lengths DEF BrowserTypeOK
<1>2. \A i \in DOMAIN list : Server(list[i].adr, -1, list[i].info) \in Entry
  <2> SUFFICES ASSUME NEW i \in DOMAIN list PROVE Server(list[i].adr, -1, list[i].info) \in Entry
    OBVIOUS
  <2>1. list[i] \in Entry
    BY <1>1
  <2>2. list[i].adr \in Addresses /\ list[i].info \in Addresses \cup {None} /\ -1 \in Int
    BY <2>1, EntryType
  <2> QED BY <2>2, ServerType
<1>3. reset \in Seq(Entry) /\ Len(reset) = Len(list) /\ \A i \in DOMAIN list : reset[i] = Server(list[i].adr, -1, list[i].info)
  BY <1>1, <1>2
<1>4. LAN_ResetPings = [servers EXCEPT ![1] = reset]
  BY DEF LAN_ResetPings
<1> HIDE DEF reset
<1>5. LAN_ResetPings \in [{0, 1} -> Seq(Entry)] /\ LAN_ResetPings[0] = servers[0] /\ LAN_ResetPings[1] = reset
  BY <1>1, <1>3, <1>4
<1> QED BY <1>3, <1>5

LEMMA InitKeeps == BrowserInit => BrowserInv
<1> SUFFICES ASSUME BrowserInit PROVE BrowserInv
  OBVIOUS
<1>1. servers \in [{0, 1} -> Seq(Entry)] /\ servers[0] = <<>> /\ servers[1] = <<>> /\ Len(<<>>) = 0 /\ servers[source] = <<>>
  BY DEF BrowserInit
<1>2. cl_pinglist \in [Slots -> PingSlot] /\ \A j \in Slots : cl_pinglist[j].adr = None
  <2>1. Slot(None, 0, None) \in PingSlot /\ Slot(None, 0, None).adr = None
    BY SlotType, SlotIs
  <2> QED BY <2>1 DEF BrowserInit
<1>3. Used(cl_pinglist) = {}
  BY <1>2 DEF Used
<1>4. BrowserTypeOK
  <2>1. visible \in [1..MaxGlobal -> BOOLEAN]
    BY DEF BrowserInit, AllVisible
  <2>2. \A s \in {0, 1} : Len(servers[s]) <= Capacity(s)
    BY <1>1, Constants
  <2>3. /\ waiting \in BOOLEAN /\ overflow \in Seq(Addresses) /\ pingUpdateSource \in {0, 1} /\ source \in {0, 1}
        /\ refreshActive \in BOOLEAN /\ asked \subseteq Addresses /\ masters \in Nat /\ refreshes \in Nat
        /\ late \in BOOLEAN /\ full \in BOOLEAN /\ repeated \in BOOLEAN
    <3>1. /\ waiting = FALSE /\ overflow = <<>> /\ pingUpdateSource = 0 /\ source = 1
          /\ refreshActive = FALSE /\ asked = {} /\ masters = 0 /\ refreshes = 0 /\ late = FALSE /\ full = FALSE
          /\ repeated = FALSE
      BY Zenon DEF BrowserInit
    <3>2. waiting \in BOOLEAN /\ refreshActive \in BOOLEAN /\ late \in BOOLEAN /\ full \in BOOLEAN /\ repeated \in BOOLEAN
      BY <3>1, Zenon
    <3>3. overflow \in Seq(Addresses) /\ asked \subseteq Addresses
      BY <3>1
    <3>4. pingUpdateSource \in {0, 1} /\ source \in {0, 1} /\ masters \in Nat /\ refreshes \in Nat
      BY <3>1
    <3> QED BY <3>2, <3>3, <3>4
  <2> QED BY <1>1, <1>2, <2>1, <2>2, <2>3 DEF BrowserTypeOK
<1>5. Calm
  <2>1. DOMAIN <<>> = {}
    OBVIOUS
  <2>2. Now = Cleared
    BY DEF BrowserInit, Now, Cleared
  <2>3. Displayed(servers[source], Now)
    BY <2>2, ClearedShows
  <2> QED BY <1>1, <2>1, <2>3 DEF Calm, BrowserInit, Once, Alike, Informative, Agree, Silent
<1> QED BY <1>1, <1>3, <1>4, <1>5 DEF BrowserInv, SlotsTrue, Wait, Over, BrowserInit

\* A list of servers without a ping is as good as new.
LEMMA SilentIs ==
  ASSUME NEW list, NEW slots, \A i \in DOMAIN list : list[i].ping = -1
  PROVE  Silent(list) /\ Informative(list) /\ Agree(list, slots) /\ \A st : BuiltNow(list, st)
BY DEF Silent, Informative, Agree, BuiltNow

LEMMA StartKeeps ==
  ASSUME BrowserInv, NEW s \in {0, 1}, StartServerRefresh(s)
  PROVE  BrowserInv'
<1>0. BrowserTypeOK /\ SlotsTrue(cl_pinglist) /\ Wait /\ (full \/ (Calm /\ Over))
  BY DEF BrowserInv
<1>1. /\ refreshes \in Nat /\ refreshes' = refreshes + 1 /\ source' = s /\ refreshActive' = TRUE /\ late' = FALSE
      /\ overflow' = overflow /\ cl_pinglist' = cl_pinglist /\ asked' = asked /\ masters \in Nat
      /\ Displays(Cleared)
  BY <1>0 DEF StartServerRefresh, BrowserTypeOK
<1>2. visible' \in [1..MaxGlobal -> BOOLEAN] /\ \A list : Displayed(list, Now')
  <2>1. displayServers' = <<>> /\ visible' = AllVisible /\ overrun' = FALSE
    BY <1>1, ClearedShows DEF Displays
  <2>2. Now' = Cleared
    BY <2>1 DEF Now, Cleared
  <2> QED BY <2>1, <2>2, ClearedShows
<1>3. SlotsTrue(cl_pinglist)'
  BY <1>0, <1>1 DEF SlotsTrue, Used
<1>4. Over'
  BY <1>1 DEF Over
<1>5. CASE s = 1
  <2>1. /\ servers' = [servers EXCEPT ![1] = <<>>] /\ waiting' = TRUE /\ pingUpdateSource' = 0 /\ masters' = masters + 2
        /\ full' = FALSE /\ repeated' = FALSE
    BY <1>5, Zenon DEF StartServerRefresh
  <2>2. servers' \in [{0, 1} -> Seq(Entry)] /\ servers'[1] = <<>> /\ servers'[0] = servers[0]
    BY <1>0, <2>1 DEF BrowserTypeOK
  <2>3. \A t \in {0, 1} : Len(servers'[t]) <= Capacity(t)
    BY <1>0, <2>2, Constants DEF BrowserTypeOK
  <2>4. BrowserTypeOK'
    <3>1. waiting' \in BOOLEAN /\ refreshActive' \in BOOLEAN /\ late' \in BOOLEAN /\ full' \in BOOLEAN /\ repeated' \in BOOLEAN
      BY <1>1, <2>1, Zenon
    <3>2. refreshes' \in Nat /\ masters' \in Nat /\ pingUpdateSource' \in {0, 1} /\ source' \in {0, 1}
      BY <1>1, <1>5, <2>1
    <3>3. cl_pinglist' \in [Slots -> PingSlot] /\ asked' \subseteq Addresses /\ overflow' \in Seq(Addresses)
      BY <1>0, <1>1 DEF BrowserTypeOK
    <3> QED BY <1>2, <2>2, <2>3, <3>1, <3>2, <3>3 DEF BrowserTypeOK
  <2>5. Calm'
    <3>1. servers'[source'] = <<>> /\ DOMAIN <<>> = {}
      BY <1>1, <1>5, <2>2
    <3>2. Displayed(servers'[source'], Now')
      BY <1>2
    <3>3. waiting' \/ overflow' = <<>>
      BY <2>1
    <3> HIDE DEF Now
    <3> QED BY <2>2, <3>1, <3>2, <3>3 DEF Calm, Once, Alike, Informative, Agree, Silent
  <2>6. Wait'
    BY <2>2 DEF Wait
  <2> QED BY <1>3, <1>4, <2>4, <2>5, <2>6 DEF BrowserInv
<1>6. CASE s = 0
  <2> DEFINE new == Loaded
  <2>1. /\ servers' = [LAN_ResetPings EXCEPT ![0] = new] /\ waiting' = waiting /\ pingUpdateSource' = pingUpdateSource
        /\ masters' = masters /\ full' = full /\ repeated' = repeated
    BY <1>6 DEF StartServerRefresh
  <2>2. Len(StoredList) \in Nat /\ DOMAIN StoredList = 1..Len(StoredList) /\ \A i \in DOMAIN StoredList : StoredList[i] \in Addresses
    BY Constants
  <2>3. \A i \in DOMAIN StoredList : new[i] = Server(StoredList[i], -1, None) /\ new[i] \in Entry
    <3>1. \A i \in DOMAIN StoredList : new[i] = CL_InitServerInfo(StoredList[i])
      BY DEF Loaded
    <3> HIDE DEF new
    <3> QED BY <2>2, <3>1, NewType
  <2>4. new \in Seq(Entry) /\ Len(new) = Len(StoredList) /\ DOMAIN new = DOMAIN StoredList
    <3>1. \A i \in DOMAIN StoredList : CL_InitServerInfo(StoredList[i]) \in Entry
      BY <2>2, NewType
    <3> QED BY <2>2, <3>1 DEF Loaded
  <2> HIDE DEF new
  <2>5. /\ servers' \in [{0, 1} -> Seq(Entry)] /\ servers'[0] = new /\ servers'[1] = LAN_ResetPings[1]
        /\ Len(servers'[1]) = Len(servers[1])
        /\ \A i \in DOMAIN servers[1] : servers'[1][i] = Server(servers[1][i].adr, -1, servers[1][i].info)
    <3>1. /\ LAN_ResetPings \in [{0, 1} -> Seq(Entry)]
          /\ Len(LAN_ResetPings[1]) = Len(servers[1])
          /\ \A i \in DOMAIN servers[1] : LAN_ResetPings[1][i] = Server(servers[1][i].adr, -1, servers[1][i].info)
      BY <1>0, ResetIs
    <3>2. servers' \in [{0, 1} -> Seq(Entry)] /\ servers'[0] = new /\ servers'[1] = LAN_ResetPings[1]
      BY <2>1, <2>4, <3>1
    <3> QED BY <3>1, <3>2
  <2>6. \A t \in {0, 1} : Len(servers'[t]) <= Capacity(t)
    BY <1>0, <2>4, <2>5, Constants DEF BrowserTypeOK
  <2>7. BrowserTypeOK'
    <3>1. waiting' \in BOOLEAN /\ refreshActive' \in BOOLEAN /\ late' \in BOOLEAN /\ full' \in BOOLEAN /\ repeated' \in BOOLEAN
      BY <1>0, <1>1, <2>1, Zenon DEF BrowserTypeOK
    <3>2. refreshes' \in Nat /\ masters' \in Nat /\ pingUpdateSource' \in {0, 1} /\ source' \in {0, 1}
      BY <1>0, <1>1, <1>6, <2>1 DEF BrowserTypeOK
    <3>3. cl_pinglist' \in [Slots -> PingSlot] /\ asked' \subseteq Addresses /\ overflow' \in Seq(Addresses)
      BY <1>0, <1>1 DEF BrowserTypeOK
    <3> QED BY <1>2, <2>5, <2>6, <3>1, <3>2, <3>3 DEF BrowserTypeOK
  <2>8. DOMAIN servers'[1] = DOMAIN servers[1] /\ \A i \in DOMAIN servers[1] : servers'[1][i].adr = servers[1][i].adr
    <3>1. servers'[1] \in Seq(Entry) /\ servers[1] \in Seq(Entry) /\ DOMAIN servers[1] = 1..Len(servers[1])
      BY <1>0, <2>5, Lengths
    <3>2. DOMAIN servers'[1] = 1..Len(servers'[1])
      BY <3>1
    <3> QED BY <2>5, <3>1, <3>2, ServerIs
  <2>9. Wait'
    <3>1. servers[1] = <<>> => servers'[1] = <<>>
      <4>1. servers[1] \in Seq(Entry) /\ servers'[1] \in Seq(Entry)
        BY <1>0, <2>5, Lengths
      <4> QED BY <2>5, <4>1
    <3> QED BY <1>0, <2>1, <3>1 DEF Wait
  <2>10. ASSUME ~full PROVE Calm'
    <3>1. (repeated \/ Once(servers[1])) /\ (waiting \/ overflow = <<>>)
      BY <1>0, <2>10 DEF Calm
    <3>2. repeated' \/ Once(servers'[1])
      BY <2>1, <2>8, <3>1 DEF Once
    <3>3. servers'[source'] = new
      BY <1>1, <1>6, <2>5
    <3>4. Alike(new)
      BY <2>3, <2>4, ServerIs DEF Alike
    <3>5. \A i \in DOMAIN new : new[i].ping = -1
      BY <2>3, <2>4, ServerIs
    <3>6. Silent(new) /\ Informative(new) /\ Agree(new, cl_pinglist')
      BY <3>5, SilentIs
    <3>7. Displayed(new, Now')
      BY <1>2
    <3>8. waiting' \/ overflow' = <<>>
      BY <1>1, <2>1, <3>1
    <3> HIDE DEF Now
    <3> QED BY <3>2, <3>3, <3>4, <3>6, <3>7, <3>8 DEF Calm
  <2> QED BY <1>0, <1>3, <1>4, <2>1, <2>7, <2>9, <2>10 DEF BrowserInv
<1> QED BY <1>5, <1>6

LEMMA RefreshFilterKeeps ==
  ASSUME BrowserInv, RefreshFilter
  PROVE  BrowserInv'
<1>0. BrowserTypeOK /\ SlotsTrue(cl_pinglist) /\ Wait /\ (full \/ (Calm /\ Over))
  BY DEF BrowserInv
<1>1. /\ refreshes' = refreshes + 1 /\ refreshActive' = TRUE /\ late' = FALSE /\ servers' = LAN_ResetPings
      /\ waiting' = waiting /\ overflow' = overflow /\ cl_pinglist' = cl_pinglist /\ source' = source
      /\ pingUpdateSource' = pingUpdateSource /\ masters' = masters /\ asked' = asked /\ full' = full
      /\ repeated' = repeated
  BY DEF RefreshFilter, net
<1> DEFINE none == source = 1 /\ waiting
           list == servers'[source]
<1>2. PICK shown \in Built(list, none, Cleared) : Displays(shown)
  BY DEF RefreshFilter, Rebuilt
<1>3. /\ servers' \in [{0, 1} -> Seq(Entry)] /\ servers'[0] = servers[0] /\ Len(servers'[1]) = Len(servers[1])
      /\ \A i \in DOMAIN servers[1] : servers'[1][i] = Server(servers[1][i].adr, -1, servers[1][i].info)
  BY <1>0, <1>1, ResetIs
<1>4. /\ DOMAIN servers'[1] = DOMAIN servers[1] /\ servers[1] \in Seq(Entry) /\ servers'[1] \in Seq(Entry)
      /\ \A i \in DOMAIN servers[1] : servers'[1][i].adr = servers[1][i].adr /\ servers'[1][i].ping = -1
  <2>1. servers'[1] \in Seq(Entry) /\ servers[1] \in Seq(Entry) /\ DOMAIN servers[1] = 1..Len(servers[1])
    BY <1>0, <1>3, Lengths
  <2>2. DOMAIN servers'[1] = 1..Len(servers'[1])
    BY <2>1
  <2> QED BY <1>3, <2>1, <2>2, ServerIs
<1>5. \A t \in {0, 1} : Len(servers'[t]) <= Capacity(t)
  BY <1>0, <1>3 DEF BrowserTypeOK
<1>6. source \in {0, 1} /\ list \in Seq(Entry) /\ Len(list) <= MaxGlobal
  BY <1>0, <1>3, <1>5, Lengths
<1>7. Wait'
  <2>1. servers[1] = <<>> => servers'[1] = <<>>
    BY <1>3, <1>4
  <2> QED BY <1>0, <1>1, <2>1 DEF Wait
<1>8. visible' \in [1..MaxGlobal -> BOOLEAN] /\ Displayed(list, Now') /\ BuiltNow(list, Now')
  <2>1. none \in BOOLEAN
    OBVIOUS
  <2>2. none => list = <<>>
    BY <1>1, <1>7 DEF Wait
  <2>3. Displayed(list, Cleared) /\ Cleared.visible \in [1..MaxGlobal -> BOOLEAN]
    BY ClearedShows
  <2> HIDE DEF list, none, Cleared
  <2> QED BY <1>2, <1>6, <2>1, <2>2, <2>3, RebuiltIs
<1>9. BrowserTypeOK'
  <2>1. waiting' \in BOOLEAN /\ refreshActive' \in BOOLEAN /\ late' \in BOOLEAN /\ full' \in BOOLEAN /\ repeated' \in BOOLEAN
    BY <1>0, <1>1, Zenon DEF BrowserTypeOK
  <2>2. refreshes' \in Nat /\ masters' \in Nat /\ pingUpdateSource' \in {0, 1} /\ source' \in {0, 1}
    BY <1>0, <1>1 DEF BrowserTypeOK
  <2>3. cl_pinglist' \in [Slots -> PingSlot] /\ asked' \subseteq Addresses /\ overflow' \in Seq(Addresses)
    BY <1>0, <1>1 DEF BrowserTypeOK
  <2> QED BY <1>3, <1>5, <1>8, <2>1, <2>2, <2>3 DEF BrowserTypeOK
<1>10. ASSUME ~full PROVE Calm'
  <2>1. /\ (repeated \/ Once(servers[1])) /\ (waiting \/ overflow = <<>>)
        /\ Alike(servers[source]) /\ Informative(servers[source]) /\ Agree(servers[source], cl_pinglist)
        /\ pingUpdateSource = source \/ Silent(servers[source])
    BY <1>0, <1>10 DEF Calm
  <2>2. repeated' \/ Once(servers'[1])
    BY <1>1, <1>4, <2>1 DEF Once
  <2>3. /\ Alike(list) /\ Informative(list) /\ Agree(list, cl_pinglist')
        /\ pingUpdateSource = source \/ Silent(list)
    <3>1. CASE source = 0
      <4>1. list = servers[source]
        BY <1>3, <3>1
      <4> HIDE DEF list
      <4> QED BY <1>1, <2>1, <4>1
    <3>2. CASE source = 1
      <4>1. \A i \in DOMAIN list : list[i].ping = -1
        BY <1>4, <3>2
      <4>2. Alike(list)
        <5>1. /\ servers'[source] = list /\ DOMAIN list = DOMAIN servers[source] /\ Alike(servers[source])
              /\ \A i \in DOMAIN list : list[i] = Server(servers[source][i].adr, -1, servers[source][i].info)
          BY <1>3, <1>4, <2>1, <3>2
        <5> HIDE DEF list
        <5> QED BY <5>1, ServerIs DEF Alike
      <4> HIDE DEF list
      <4> QED BY <4>1, <4>2, SilentIs
    <3> QED BY <1>6, <3>1, <3>2
  <2>4. waiting' \/ overflow' = <<>>
    BY <1>1, <2>1
  <2>5. servers'[source'] = list
    BY <1>1
  <2> HIDE DEF list, Now
  <2> QED BY <1>1, <1>8, <2>2, <2>3, <2>4, <2>5 DEF Calm
<1>11. SlotsTrue(cl_pinglist)'
  BY <1>0, <1>1 DEF SlotsTrue, Used
<1>12. Over'
  BY <1>1 DEF Over
<1> QED BY <1>0, <1>1, <1>7, <1>9, <1>10, <1>11, <1>12 DEF BrowserInv

LEMMA UpdateFilterKeeps ==
  ASSUME BrowserInv, UpdateFilter
  PROVE  BrowserInv'
<1>0. BrowserTypeOK /\ SlotsTrue(cl_pinglist) /\ Wait /\ (full \/ (Calm /\ Over))
  BY DEF BrowserInv
<1>1. /\ servers' = servers /\ waiting' = waiting /\ overflow' = overflow /\ cl_pinglist' = cl_pinglist
      /\ pingUpdateSource' = pingUpdateSource /\ source' = source /\ refreshActive' = refreshActive
      /\ masters' = masters /\ asked' = asked /\ refreshes' = refreshes /\ late' = late /\ full' = full
      /\ repeated' = repeated
  BY DEF UpdateFilter, net
<1> DEFINE none == source = 1 /\ waiting
           list == servers[source]
<1>2. PICK shown \in Built(list, none, Cleared) : Displays(shown)
  BY DEF UpdateFilter, Rebuilt
<1>3. list \in Seq(Entry) /\ Len(list) <= MaxGlobal
  BY <1>0, Lengths DEF BrowserTypeOK
<1>4. visible' \in [1..MaxGlobal -> BOOLEAN] /\ Displayed(list, Now') /\ BuiltNow(list, Now')
  <2>1. none \in BOOLEAN
    OBVIOUS
  <2>2. none => list = <<>>
    BY <1>0 DEF Wait
  <2>3. Displayed(list, Cleared) /\ Cleared.visible \in [1..MaxGlobal -> BOOLEAN]
    BY ClearedShows
  <2> HIDE DEF list, none, Cleared
  <2> QED BY <1>2, <1>3, <2>1, <2>2, <2>3, RebuiltIs
<1>5. BrowserTypeOK'
  BY <1>0, <1>1, <1>4 DEF BrowserTypeOK
<1>6. SlotsTrue(cl_pinglist)' /\ Wait'
  BY <1>0, <1>1 DEF SlotsTrue, Used, Wait
<1>7. ASSUME Calm PROVE Calm'
  <2> HIDE DEF Now
  <2> QED BY <1>1, <1>4, <1>7 DEF Calm
<1>8. ASSUME Over PROVE Over'
  <2> HIDE DEF Now
  <2> QED BY <1>1, <1>4, <1>8 DEF Over, Used
<1> QED BY <1>0, <1>1, <1>5, <1>6, <1>7, <1>8 DEF BrowserInv

LEMMA LostKeeps ==
  ASSUME BrowserInv, Lost \/ UNCHANGED browserVars
  PROVE  BrowserInv'
<1>0. BrowserTypeOK /\ SlotsTrue(cl_pinglist) /\ Wait /\ (full \/ (Calm /\ Over))
  BY DEF BrowserInv
<1>1. /\ servers' = servers /\ waiting' = waiting /\ overflow' = overflow /\ cl_pinglist' = cl_pinglist
      /\ pingUpdateSource' = pingUpdateSource /\ source' = source /\ refreshActive' = refreshActive
      /\ refreshes' = refreshes /\ late' = late /\ full' = full /\ visible' = visible /\ displayServers' = displayServers
      /\ repeated' = repeated /\ overrun' = overrun
  BY DEF Lost, lists, net, browserVars
<1>2. asked' \subseteq asked /\ (masters' = masters \/ (masters > 0 /\ masters' = masters - 1))
  BY DEF Lost, browserVars, net
<1>3. masters' \in Nat /\ asked' \subseteq Addresses
  BY <1>0, <1>2 DEF BrowserTypeOK
<1>4. BrowserTypeOK'
  BY <1>0, <1>1, <1>3 DEF BrowserTypeOK
<1>5. Now' = Now
  BY <1>1 DEF Now
<1>6. SlotsTrue(cl_pinglist)' /\ Wait' /\ (Calm => Calm') /\ (Over => Over')
  <2> HIDE DEF Now
  <2> QED BY <1>0, <1>1, <1>5 DEF SlotsTrue, Used, Wait, Calm, Over
<1> QED BY <1>0, <1>1, <1>4, <1>6 DEF BrowserInv

LEMMA InfoKeeps ==
  ASSUME BrowserInv, NEW adr \in Addresses, NEW time \in Latencies, ServerInfoPacket(adr, time)
  PROVE  BrowserInv'
<1>0. BrowserTypeOK /\ SlotsTrue(cl_pinglist) /\ Wait /\ (full \/ (Calm /\ Over))
  BY DEF BrowserInv
<1>1. /\ waiting' = waiting /\ overflow' = overflow /\ visible' = visible /\ pingUpdateSource' = pingUpdateSource
      /\ source' = source /\ displayServers' = displayServers /\ refreshActive' = refreshActive /\ masters' = masters
      /\ refreshes' = refreshes /\ late' = late /\ full' = full /\ asked' \subseteq asked
      /\ repeated' = repeated /\ overrun' = overrun
  BY DEF ServerInfoPacket
<1>2. time \in Nat /\ time > 0 /\ adr # None
  BY ServerListAssumption
<1>3. Now' = Now
  BY <1>1 DEF Now
<1> DEFINE of == {j \in Slots : cl_pinglist[j].adr = adr /\ cl_pinglist[j].time = 0}
<1>4. CASE of = {}
  <2>1. cl_pinglist' = cl_pinglist /\ servers' = servers
    BY <1>4 DEF ServerInfoPacket
  <2>2. BrowserTypeOK'
    <3>1. asked' \subseteq Addresses
      BY <1>0, <1>1 DEF BrowserTypeOK
    <3> QED BY <1>0, <1>1, <2>1, <3>1 DEF BrowserTypeOK
  <2>3. SlotsTrue(cl_pinglist)' /\ Wait' /\ (Calm => Calm') /\ (Over => Over')
    <3> HIDE DEF Now
    <3> QED BY <1>0, <1>1, <1>3, <2>1 DEF SlotsTrue, Used, Wait, Calm, Over
  <2> QED BY <1>0, <1>1, <2>2, <2>3 DEF BrowserInv
<1>5. CASE of # {}
  <2> DEFINE m == Min(of)
             p == pingUpdateSource
  <2>1. m \in of
    <3>1. of \in SUBSET Nat
      BY DEF Slots
    <3> HIDE DEF of
    <3> QED BY <1>5, <3>1, MinIs
  <2>2. m \in Slots /\ cl_pinglist[m].adr = adr /\ cl_pinglist[m].time = 0
    BY <2>1
  <2>3. /\ cl_pinglist' = [cl_pinglist EXCEPT ![m] = Slot(adr, time, adr)]
        /\ servers' = [servers EXCEPT ![p] = Informed(servers[p], adr, adr, time)]
    BY <1>5 DEF ServerInfoPacket
  <2> HIDE DEF m, of
  <2>4. cl_pinglist \in [Slots -> PingSlot] /\ servers \in [{0, 1} -> Seq(Entry)] /\ p \in {0, 1} /\ source \in {0, 1}
    BY <1>0 DEF BrowserTypeOK
  <2>5. /\ cl_pinglist' \in [Slots -> PingSlot] /\ cl_pinglist'[m] = Slot(adr, time, adr)
        /\ \A j \in Slots : j # m => cl_pinglist'[j] = cl_pinglist[j]
        /\ cl_pinglist'[m].adr = adr /\ cl_pinglist'[m].time = time /\ cl_pinglist'[m].info = adr
    <3>1. Slot(adr, time, adr) \in PingSlot
      BY <1>2, SlotType
    <3> QED BY <2>2, <2>3, <2>4, <3>1, SlotIs
  <2>6. SlotsTrue(cl_pinglist)'
    <3>1. \A j \in Slots : cl_pinglist'[j].adr = cl_pinglist[j].adr
      BY <2>2, <2>5
    <3> QED BY <1>0, <2>5, <3>1 DEF SlotsTrue, Used
  <2>7. /\ servers'[p] \in Seq(Entry) /\ Len(servers'[p]) = Len(servers[p])
        /\ \A i \in DOMAIN servers[p] :
             servers'[p][i] = IF servers[p][i].adr = adr THEN Server(adr, time, adr) ELSE servers[p][i]
        /\ \A s \in {0, 1} : s # p => servers'[s] = servers[s]
        /\ servers' \in [{0, 1} -> Seq(Entry)]
    <3> DEFINE list == servers[p]
               new == Informed(list, adr, adr, time)
    <3>1. list \in Seq(Entry)
      BY <2>4
    <3>2. servers' = [servers EXCEPT ![p] = new]
      BY <2>3
    <3> HIDE DEF list, p
    <3>3. /\ new \in Seq(Entry) /\ Len(new) = Len(list)
          /\ \A i \in DOMAIN list : new[i] = IF list[i].adr = adr THEN Server(adr, time, adr) ELSE list[i]
      BY <1>2, <3>1, InformedIs
    <3> HIDE DEF new
    <3> QED BY <2>4, <3>2, <3>3 DEF list
  <2>8. /\ \A s \in {0, 1} : Len(servers'[s]) = Len(servers[s]) /\ DOMAIN servers'[s] = DOMAIN servers[s]
        /\ \A s \in {0, 1} : \A i \in DOMAIN servers[s] : servers'[s][i].adr = servers[s][i].adr
    <3> SUFFICES ASSUME NEW s \in {0, 1}
                 PROVE  /\ Len(servers'[s]) = Len(servers[s]) /\ DOMAIN servers'[s] = DOMAIN servers[s]
                        /\ \A i \in DOMAIN servers[s] : servers'[s][i].adr = servers[s][i].adr
      OBVIOUS
    <3>1. servers[s] \in Seq(Entry) /\ servers'[s] \in Seq(Entry)
      BY <2>4, <2>7
    <3>2. Len(servers'[s]) = Len(servers[s])
      BY <2>7
    <3>3. DOMAIN servers'[s] = DOMAIN servers[s]
      BY <3>1, <3>2
    <3> QED BY <2>7, <3>2, <3>3, ServerIs
  <2>9. BrowserTypeOK'
    <3>1. \A s \in {0, 1} : Len(servers'[s]) <= Capacity(s)
      BY <1>0, <2>8 DEF BrowserTypeOK
    <3>2. asked' \subseteq Addresses
      BY <1>0, <1>1 DEF BrowserTypeOK
    <3> QED BY <1>0, <1>1, <2>5, <2>7, <3>1, <3>2 DEF BrowserTypeOK
  <2>10. Wait'
    <3>1. servers[1] = <<>> => servers'[1] = <<>>
      <4>1. servers[1] \in Seq(Entry) /\ servers'[1] \in Seq(Entry)
        BY <2>4, <2>7
      <4> QED BY <2>8, <4>1
    <3> QED BY <1>0, <1>1, <3>1 DEF Wait
  <2>11. ASSUME Over PROVE Over'
    <3>1. Used(cl_pinglist) # {}
      BY <1>2, <2>2 DEF Used
    <3> QED BY <1>1, <2>11, <3>1 DEF Over
  <2>12. ASSUME Calm PROVE Calm'
    <3> DEFINE list == servers[source]
               more == servers'[source]
    <3>1. /\ (repeated \/ Once(servers[1])) /\ (waiting \/ overflow = <<>>)
          /\ Alike(list) /\ Informative(list) /\ Agree(list, cl_pinglist)
          /\ p = source \/ Silent(list)
      BY <2>12 DEF Calm
    <3>1b. Displayed(list, Now)
      BY <2>12 DEF Calm
    <3>2. repeated' \/ Once(servers'[1])
      BY <1>1, <2>8, <3>1 DEF Once
    <3>3. /\ Alike(more) /\ Informative(more) /\ Agree(more, cl_pinglist')
          /\ (p = source \/ Silent(more)) /\ Displayed(more, Now)
      <4>1. CASE p # source
        <5>1. more = list /\ Silent(list)
          BY <2>4, <2>7, <3>1, <4>1
        <5>2. \A i \in DOMAIN list : list[i].ping \in Int
          BY <1>0, Lengths, EntryType
        <5>3. Agree(list, cl_pinglist')
          BY <5>1, <5>2 DEF Silent, Agree
        <5> HIDE DEF list, more, Now
        <5> QED BY <3>1, <3>1b, <5>1, <5>3
      <4>2. CASE p = source
        <5>1. /\ DOMAIN more = DOMAIN list
              /\ \A i \in DOMAIN list :
                   more[i] = IF list[i].adr = adr THEN Server(adr, time, adr) ELSE list[i]
          BY <2>4, <2>7, <2>8, <4>2
        <5>2. \A i \in DOMAIN list : list[i].adr = adr => ~(list[i].ping > 0)
          <6> SUFFICES ASSUME NEW i \in DOMAIN list, list[i].adr = adr, list[i].ping > 0 PROVE FALSE
            OBVIOUS
          <6>1. cl_pinglist[m].time = list[i].ping
            BY <2>2, <3>1 DEF Agree
          <6> QED BY <2>2, <6>1
        <5> HIDE DEF list, more, Now
        <5>3. Alike(more)
          BY <3>1, <5>1, ServerIs DEF Alike
        <5>4. Informative(more)
          BY <3>1, <5>1, ServerIs DEF Informative
        <5>5. Agree(more, cl_pinglist')
          <6> SUFFICES ASSUME NEW i \in DOMAIN list, NEW j \in Slots, more[i].ping > 0, cl_pinglist'[j].adr = more[i].adr
                       PROVE  cl_pinglist'[j].time = more[i].ping
            BY <5>1 DEF Agree
          <6>1. CASE list[i].adr = adr
            <7>1. more[i].adr = adr /\ more[i].ping = time
              BY <5>1, <6>1, ServerIs
            <7>2. j = m
              <8>1. cl_pinglist[j].adr = adr
                BY <2>2, <2>5, <7>1
              <8> QED BY <1>0, <1>2, <2>2, <8>1 DEF SlotsTrue, Used
            <7> QED BY <2>5, <7>1, <7>2
          <6>2. CASE list[i].adr # adr
            <7>1. more[i] = list[i] /\ j # m
              BY <2>5, <5>1, <6>2
            <7> QED BY <2>5, <3>1, <7>1 DEF Agree
          <6> QED BY <6>1, <6>2
        <5>6. Displayed(more, Now)
          <6>1. \A i \in DOMAIN list : list[i].ping > 0 => more[i].ping = list[i].ping /\ more[i].adr = list[i].adr
            BY <5>1, <5>2
          <6>2. DOMAIN list \subseteq DOMAIN more
            BY <5>1
          <6> QED BY <3>1b, <6>1, <6>2, DisplayStays
        <5> QED BY <4>2, <5>3, <5>4, <5>5, <5>6
      <4> QED BY <4>1, <4>2
    <3>4. servers'[source'] = more /\ (waiting' \/ overflow' = <<>>)
      BY <1>1, <3>1
    <3> HIDE DEF list, more, Now
    <3> QED BY <1>1, <1>3, <3>2, <3>3, <3>4 DEF Calm
  <2> QED BY <1>0, <1>1, <2>6, <2>9, <2>10, <2>11, <2>12 DEF BrowserInv
<1> QED BY <1>4, <1>5

LEMMA ResponseKeeps ==
  ASSUME BrowserInv, NEW packet \in Packets, ServersResponsePacket(packet)
  PROVE  BrowserInv'
<1>0. BrowserTypeOK /\ SlotsTrue(cl_pinglist) /\ Wait /\ (full \/ (Calm /\ Over))
  BY DEF BrowserInv
<1>1. /\ masters > 0 /\ masters' = masters - 1 /\ waiting' = FALSE
      /\ visible' = visible /\ cl_pinglist' = cl_pinglist /\ pingUpdateSource' = pingUpdateSource
      /\ source' = source /\ displayServers' = displayServers /\ refreshActive' = refreshActive
      /\ asked' = asked /\ refreshes' = refreshes /\ overrun' = overrun
  BY DEF ServersResponsePacket
<1> DEFINE list  == servers[1]
           room  == MaxGlobal - Len(list)
           fresh == {i \in DOMAIN packet : IsNew(packet[i])}
           taken == {i \in fresh : Cardinality({j \in fresh : j <= i}) <= room}
           rest  == IF Cardinality(fresh) < room THEN {} ELSE {i \in DOMAIN packet : \A j \in taken : j < i}
           extra == IF waiting THEN <<>> ELSE overflow
           added == Those(packet, taken)
           more  == Longer(list, added)
<1>2. /\ servers' = [servers EXCEPT ![1] = more]
      /\ overflow' = IF Len(extra) < MaxGlobal THEN extra \o Those(packet, rest) ELSE extra
      /\ late' = (late \/ (~refreshActive /\ added # <<>>))
      /\ full' = (full \/ rest # {})
      /\ repeated' = (repeated \/ ~IsInjective(added))
  BY DEF ServersResponsePacket, Longer
<1>3. packet \in Seq(Addresses) /\ Len(packet) \in Nat /\ DOMAIN packet = 1..Len(packet)
  BY ServerListAssumption
<1>4. list \in Seq(Entry) /\ Len(list) \in Nat /\ Len(list) <= MaxGlobal /\ room \in Nat /\ DOMAIN list = 1..Len(list)
  BY <1>0, Lengths, Constants DEF BrowserTypeOK
<1>5. fresh \in SUBSET (1..Len(packet)) /\ taken \in SUBSET DOMAIN packet /\ rest \in SUBSET DOMAIN packet
  BY <1>3
<1>6. Cardinality(taken) <= room
  <2>1. taken = {i \in fresh : Cardinality({j \in fresh : j <= i}) <= room}
    OBVIOUS
  <2> HIDE DEF taken, fresh, room
  <2> QED BY <1>3, <1>4, <1>5, <2>1, TakenFit
<1>7. \A i \in taken : ~Has(list, packet[i])
  BY DEF IsNew
<1>8. extra \in Seq(Addresses) /\ (waiting \/ overflow = <<>> => extra = <<>>)
  BY <1>0 DEF BrowserTypeOK
<1> HIDE DEF room, fresh, taken, rest, extra
<1>9. /\ added \in Seq(Addresses) /\ Len(added) = Cardinality(taken) /\ Cardinality(taken) \in Nat
      /\ \A k \in DOMAIN added : \E i \in taken : added[k] = packet[i]
  BY <1>3, <1>5, ThoseIs
<1>10. Those(packet, rest) \in Seq(Addresses) /\ (rest = {} => Those(packet, rest) = <<>>)
  BY <1>3, <1>5, ThoseIs
<1> HIDE DEF added, list
<1>11. /\ more \in Seq(Entry) /\ Len(more) = Len(list) + Len(added)
       /\ \A i \in DOMAIN list : i \in DOMAIN more /\ more[i] = list[i]
       /\ \A i \in DOMAIN more \ DOMAIN list :
            /\ i - Len(list) \in DOMAIN added /\ more[i] = Server(added[i - Len(list)], -1, None)
            /\ more[i].adr = added[i - Len(list)] /\ more[i].ping = -1
  <2>1. /\ more \in Seq(Entry) /\ Len(more) = Len(list) + Len(added)
        /\ \A i \in DOMAIN list : i \in DOMAIN more /\ more[i] = list[i]
        /\ \A i \in DOMAIN more \ DOMAIN list :
             i - Len(list) \in DOMAIN added /\ more[i] = Server(added[i - Len(list)], -1, None)
    BY <1>4, <1>9, LongerIs
  <2> HIDE DEF more
  <2> QED BY <2>1, ServerIs
<1>12. added = <<>> => more = list
  <2> SUFFICES ASSUME added = <<>> PROVE more = list
    OBVIOUS
  <2>1. Longer(list, <<>>) = list
    BY <1>4 DEF Longer
  <2> QED BY <2>1
<1> HIDE DEF more
<1>13. Len(more) <= MaxGlobal
  BY <1>4, <1>6, <1>9, <1>11, Constants DEF room
<1>14. /\ servers' \in [{0, 1} -> Seq(Entry)] /\ servers'[1] = more /\ servers'[0] = servers[0]
       /\ source \in {0, 1}
  BY <1>0, <1>2, <1>11 DEF BrowserTypeOK
<1>15. overflow' \in Seq(Addresses)
  <2>1. extra \o Those(packet, rest) \in Seq(Addresses)
    BY <1>8, <1>10, ConcatProperties
  <2> QED BY <1>2, <1>8, <2>1
<1>16. BrowserTypeOK'
  <2>1. \A s \in {0, 1} : Len(servers'[s]) <= Capacity(s)
    BY <1>0, <1>13, <1>14, Constants DEF BrowserTypeOK
  <2>2. masters' \in Nat
    BY <1>0, <1>1 DEF BrowserTypeOK
  <2>3. waiting' \in BOOLEAN /\ late' \in BOOLEAN /\ full' \in BOOLEAN /\ repeated' \in BOOLEAN
    BY <1>1, <1>2, Zenon
  <2>4. /\ visible' \in [1..MaxGlobal -> BOOLEAN] /\ cl_pinglist' \in [Slots -> PingSlot]
        /\ pingUpdateSource' \in {0, 1} /\ source' \in {0, 1} /\ asked' \subseteq Addresses /\ refreshes' \in Nat
    BY <1>0, <1>1 DEF BrowserTypeOK
  <2>5. refreshActive' \in BOOLEAN
    BY <1>0, <1>1, Zenon DEF BrowserTypeOK
  <2> QED BY <1>14, <1>15, <2>1, <2>2, <2>3, <2>4, <2>5 DEF BrowserTypeOK
<1>17. SlotsTrue(cl_pinglist)' /\ Wait'
  BY <1>0, <1>1 DEF SlotsTrue, Used, Wait
<1>18. Now' = Now
  BY <1>1 DEF Now
<1>19. ASSUME ~full, ~full' PROVE Calm'
  <2>1. /\ (repeated \/ Once(list)) /\ (waiting \/ overflow = <<>>)
        /\ Alike(servers[source]) /\ Informative(servers[source]) /\ Agree(servers[source], cl_pinglist)
        /\ pingUpdateSource = source \/ Silent(servers[source])
    BY <1>0, <1>19 DEF Calm, list
  <2>2. Displayed(servers[source], Now)
    BY <1>0, <1>19 DEF Calm
  <2>3. rest = {}
    BY <1>2, <1>19
  <2>4. overflow' = <<>>
    BY <1>2, <1>8, <1>10, <2>1, <2>3
  <2>0. ASSUME NEW a \in DOMAIN more \ DOMAIN list, NEW b \in DOMAIN list, more[a].adr = more[b].adr PROVE FALSE
    <3>1. a - Len(list) \in DOMAIN added /\ more[a].adr = added[a - Len(list)]
      BY <1>11
    <3>2. PICK k \in taken : added[a - Len(list)] = packet[k]
      BY <1>9, <3>1
    <3>3. list[b].adr = packet[k]
      BY <1>11, <2>0, <3>1, <3>2
    <3> QED BY <1>7, <3>3 DEF Has
  <2>5. repeated' \/ Once(more)
    <3> SUFFICES ASSUME Once(list), IsInjective(added),
                        NEW i \in DOMAIN more, NEW j \in DOMAIN more, more[i].adr = more[j].adr
                 PROVE  i = j
      BY <1>2, <2>1 DEF Once
    <3>1. CASE i \in DOMAIN list /\ j \in DOMAIN list
      BY <1>11, <3>1 DEF Once
    <3>2. CASE i \notin DOMAIN list /\ j \notin DOMAIN list
      <4>1. i - Len(list) = j - Len(list)
        BY <1>11, <3>2 DEF IsInjective
      <4>2. i \in Int /\ j \in Int
        BY <1>11
      <4> QED BY <1>4, <4>1, <4>2
    <3> QED BY <2>0, <3>1, <3>2
  <2>6. /\ Alike(servers'[source]) /\ Informative(servers'[source]) /\ Agree(servers'[source], cl_pinglist)
        /\ (pingUpdateSource = source \/ Silent(servers'[source])) /\ Displayed(servers'[source], Now)
    <3> HIDE DEF Now
    <3>1. CASE source = 0
      BY <1>14, <2>1, <2>2, <3>1
    <3>2. CASE source = 1
      <4>1. servers[source] = list /\ servers'[source] = more
        BY <1>14, <3>2 DEF list
      <4>2. Alike(more)
        <5> SUFFICES ASSUME NEW i \in DOMAIN more, NEW j \in DOMAIN more, more[i].adr = more[j].adr PROVE more[i] = more[j]
          BY DEF Alike
        <5>1. CASE i \in DOMAIN list /\ j \in DOMAIN list
          BY <1>11, <2>1, <4>1, <5>1 DEF Alike
        <5>2. CASE i \notin DOMAIN list /\ j \notin DOMAIN list
          BY <1>11, <5>2
        <5> QED BY <2>0, <5>1, <5>2
      <4>3. \A i \in DOMAIN more : more[i].ping = -1 \/ (i \in DOMAIN list /\ more[i] = list[i])
        BY <1>11
      <4>4. Informative(more) /\ Agree(more, cl_pinglist) /\ (pingUpdateSource = source \/ Silent(more))
        BY <2>1, <4>1, <4>3 DEF Informative, Agree, Silent
      <4>5. Displayed(more, Now)
        <5>1. \A i \in DOMAIN list : list[i].ping > 0 => more[i].ping = list[i].ping /\ more[i].adr = list[i].adr
          BY <1>11
        <5>2. DOMAIN list \subseteq DOMAIN more /\ Displayed(list, Now)
          BY <1>11, <2>2, <4>1
        <5> QED BY <5>1, <5>2, DisplayStays
      <4> QED BY <4>1, <4>2, <4>4, <4>5
    <3> QED BY <1>14, <3>1, <3>2
  <2> HIDE DEF Now
  <2> QED BY <1>1, <1>14, <1>18, <2>4, <2>5, <2>6 DEF Calm
<1>20. ASSUME Over PROVE Over'
  <2> SUFFICES ASSUME ~refreshActive, refreshes > 0
               PROVE  /\ Used(cl_pinglist') = {}
                      /\ late' \/ (BuiltNow(servers'[source'], Now') /\ \A i \in DOMAIN servers'[source'] : servers'[source'][i].ping # -1)
    BY <1>1 DEF Over, Used
  <2>1. Used(cl_pinglist') = {}
    BY <1>1, <1>20 DEF Over, Used
  <2>2. CASE late'
    BY <2>1, <2>2
  <2>3. CASE ~late'
    <3>1. ~late /\ added = <<>>
      BY <1>2, <2>3
    <3>2. servers'[source'] = servers[source]
      BY <1>1, <1>12, <1>14, <3>1 DEF list
    <3> HIDE DEF Now
    <3> QED BY <1>18, <1>20, <2>1, <3>1, <3>2 DEF Over
  <2> QED BY <2>2, <2>3
<1>21. full => full'
  BY <1>2
<1> QED BY <1>0, <1>16, <1>17, <1>19, <1>20, <1>21 DEF BrowserInv

\* What a frame leaves of a slot.
Left(slots, over) == [j \in Slots |-> IF Done(slots[j], j \in over) THEN Slot(None, 0, slots[j].info) ELSE slots[j]]

LEMMA LeftIs ==
  ASSUME NEW slots \in [Slots -> PingSlot], SlotsTrue(slots), NEW over
  PROVE  /\ Left(slots, over) \in [Slots -> PingSlot] /\ SlotsTrue(Left(slots, over))
         /\ \A j \in Slots : Left(slots, over)[j].adr # None => Left(slots, over)[j] = slots[j]
<1> DEFINE left == Left(slots, over)
<1>1. \A j \in Slots : left[j] = IF Done(slots[j], j \in over) THEN Slot(None, 0, slots[j].info) ELSE slots[j]
  BY DEF Left
<1>2. left = [j \in Slots |-> left[j]]
  BY DEF Left
<1> HIDE DEF left
<1>3. \A j \in Slots : left[j].adr # None => left[j] = slots[j]
  BY <1>1, SlotIs
<1>4. ASSUME NEW j \in Slots PROVE left[j] \in PingSlot
  <2>1. slots[j] \in PingSlot /\ slots[j].info \in Addresses \cup {None}
    BY PingSlotType
  <2>2. Slot(None, 0, slots[j].info) \in PingSlot
    BY <2>1, SlotType
  <2> QED BY <1>1, <2>1, <2>2
<1>5. left \in [Slots -> PingSlot]
  BY <1>2, <1>4
<1>6. SlotsTrue(left)
  BY <1>3 DEF SlotsTrue, Used
<1> QED BY <1>3, <1>5, <1>6 DEF left

\* What a frame makes of the list on display.
LEMMA FrameCalm ==
  ASSUME NEW list \in Seq(Entry), NEW before \in [Slots -> PingSlot],
         Alike(list), Informative(list), Agree(list, before),
         NEW slots \in [Slots -> PingSlot], SlotsTrue(slots),
         \A j \in Slots : slots[j] = before[j]
                          \/ (slots[j].time = 0 /\ \E i \in DOMAIN list : list[i].ping = -1 /\ slots[j].adr = list[i].adr),
         NEW over
  PROVE  /\ Alike(Pinged(list, slots)) /\ Informative(Pinged(list, slots)) /\ Agree(Pinged(list, slots), Left(slots, over))
         /\ \A i \in DOMAIN list : list[i].ping > 0 => Pinged(list, slots)[i].ping = list[i].ping
<1> DEFINE p == Pinged(list, slots)
           left == Left(slots, over)
<1>1. /\ p \in Seq(Entry) /\ Len(p) = Len(list)
      /\ \A i \in DOMAIN list :
           /\ p[i].adr = list[i].adr
           /\ \A j \in Slots : slots[j].adr = list[i].adr => p[i] = Server(list[i].adr, slots[j].time, slots[j].info)
           /\ (\A j \in Slots : slots[j].adr # list[i].adr) => p[i] = list[i]
  BY PingedIs
<1>2. left \in [Slots -> PingSlot] /\ \A j \in Slots : left[j].adr # None => left[j] = slots[j]
  BY LeftIs
<1> HIDE DEF p, left
<1>3. DOMAIN p = DOMAIN list /\ \A i \in DOMAIN list : list[i].adr \in Addresses /\ list[i].adr # None
  <2>1. DOMAIN p = DOMAIN list
    BY <1>1
  <2>2. \A i \in DOMAIN list : list[i] \in Entry
    OBVIOUS
  <2> QED BY <2>1, <2>2, EntryType, Constants
<1>4. Alike(p)
  <2> SUFFICES ASSUME NEW i \in DOMAIN list, NEW k \in DOMAIN list, list[i].adr = list[k].adr PROVE p[i] = p[k]
    BY <1>1, <1>3 DEF Alike
  <2>1. CASE \E j \in Slots : slots[j].adr = list[i].adr
    BY <1>1, <2>1
  <2>2. CASE \A j \in Slots : slots[j].adr # list[i].adr
    <3>1. p[i] = list[i] /\ p[k] = list[k]
      BY <1>1, <2>2
    <3> QED BY <3>1 DEF Alike
  <2> QED BY <2>1, <2>2
<1>5. Informative(p)
  <2> SUFFICES ASSUME NEW i \in DOMAIN list, p[i].ping > 0 PROVE p[i].info = p[i].adr
    BY <1>3 DEF Informative
  <2>1. CASE \E j \in Slots : slots[j].adr = list[i].adr
    <3>1. PICK j \in Slots : slots[j].adr = list[i].adr
      BY <2>1
    <3>2. p[i].ping = slots[j].time /\ p[i].info = slots[j].info /\ p[i].adr = slots[j].adr
      BY <1>1, <3>1, ServerIs
    <3>3. j \in Used(slots) /\ slots[j].time > 0
      BY <1>3, <3>1, <3>2 DEF Used
    <3> QED BY <3>2, <3>3 DEF SlotsTrue
  <2>2. CASE \A j \in Slots : slots[j].adr # list[i].adr
    <3>1. p[i] = list[i]
      BY <1>1, <2>2
    <3> QED BY <3>1 DEF Informative
  <2> QED BY <2>1, <2>2
<1>6. Agree(p, left)
  <2> SUFFICES ASSUME NEW i \in DOMAIN list, NEW j \in Slots, p[i].ping > 0, left[j].adr = p[i].adr
               PROVE  left[j].time = p[i].ping
    BY <1>3 DEF Agree
  <2>1. left[j] = slots[j] /\ slots[j].adr = list[i].adr
    BY <1>1, <1>2, <1>3
  <2>2. p[i].ping = slots[j].time
    BY <1>1, <2>1, ServerIs
  <2> QED BY <2>1, <2>2
<1>7. ASSUME NEW i \in DOMAIN list, list[i].ping > 0 PROVE p[i].ping = list[i].ping
  <2>1. CASE \E j \in Slots : slots[j].adr = list[i].adr
    <3>1. PICK j \in Slots : slots[j].adr = list[i].adr
      BY <2>1
    <3>2. p[i].ping = slots[j].time
      BY <1>1, <3>1, ServerIs
    <3>3. CASE slots[j] = before[j]
      BY <1>7, <3>1, <3>2, <3>3 DEF Agree
    <3>4. CASE \E k \in DOMAIN list : list[k].ping = -1 /\ slots[j].adr = list[k].adr
      <4>1. PICK k \in DOMAIN list : list[k].ping = -1 /\ slots[j].adr = list[k].adr
        BY <3>4
      <4>2. list[k] = list[i]
        BY <3>1, <4>1 DEF Alike
      <4> QED BY <1>7, <4>1, <4>2
    <3> QED BY <3>3, <3>4
  <2>2. CASE \A j \in Slots : slots[j].adr # list[i].adr
    BY <1>1, <2>2
  <2> QED BY <2>1, <2>2
<1> QED BY <1>4, <1>5, <1>6, <1>7 DEF p, left

LEMMA FrameKeeps ==
  ASSUME BrowserInv, NEW over \in SUBSET Slots, NEW build \in BOOLEAN, Frame(over, build)
  PROVE  BrowserInv'
<1>0. BrowserTypeOK /\ SlotsTrue(cl_pinglist) /\ Wait /\ (full \/ (Calm /\ Over))
  BY DEF BrowserInv
<1>1. /\ waiting' = waiting /\ pingUpdateSource' = source /\ source' = source /\ masters' = masters
      /\ refreshes' = refreshes /\ late' = late /\ full' = full /\ repeated' = repeated
  BY DEF Frame
<1> DEFINE list == servers[source]
           N == Len(list)
           none == source = 1 /\ waiting
<1>2. PICK st \in Visited :
         /\ servers' = [servers EXCEPT ![source] = Pinged(st.list, st.slots)]
         /\ overflow' = st.extra
         /\ cl_pinglist' = Left(st.slots, over)
         /\ asked' = asked \cup {st.slots[j].adr : j \in Used(st.slots) \ Used(cl_pinglist)}
         /\ refreshActive' = (Used(st.slots) # {} \/ none)
         /\ IF Builds(build, ~refreshActive')
            THEN \E shown \in Built(Pinged(st.list, st.slots), none, Now) : Displays(shown)
            ELSE UNCHANGED <<displayServers, visible, overrun>>
  BY DEF Frame, Left, Now
<1> DEFINE more == Pinged(st.list, st.slots)
<1>3. /\ list \in Seq(Entry) /\ N \in Nat /\ N <= MaxGlobal /\ source \in {0, 1} /\ DOMAIN list = 1..N
      /\ servers \in [{0, 1} -> Seq(Entry)]
  BY <1>0, Lengths DEF BrowserTypeOK
<1>4. /\ st.list \in Seq(Entry) /\ Len(st.list) = N /\ DOMAIN st.list = 1..N
      /\ st.slots \in [Slots -> PingSlot] /\ SlotsTrue(st.slots) /\ st.extra \in Seq(Addresses)
  <2>1. AtOK(st, N)
    BY <1>0, VisitedTypes
  <2> QED BY <1>3, <2>1 DEF AtOK
<1>5. /\ more \in Seq(Entry) /\ Len(more) = N /\ DOMAIN more = 1..N
      /\ \A i \in DOMAIN st.list : more[i].adr = st.list[i].adr
      /\ \A i \in DOMAIN st.list : (\A j \in Slots : st.slots[j].adr # st.list[i].adr) => more[i] = st.list[i]
  <2>1. /\ more \in Seq(Entry) /\ Len(more) = Len(st.list)
        /\ \A i \in DOMAIN st.list : /\ more[i].adr = st.list[i].adr
                                     /\ (\A j \in Slots : st.slots[j].adr # st.list[i].adr) => more[i] = st.list[i]
    BY <1>4, PingedIs
  <2> HIDE DEF more
  <2> QED BY <1>3, <1>4, <2>1
<1>6. /\ cl_pinglist' \in [Slots -> PingSlot] /\ SlotsTrue(cl_pinglist')
      /\ \A j \in Slots : cl_pinglist'[j].adr # None => cl_pinglist'[j] = st.slots[j]
  BY <1>2, <1>4, LeftIs
<1> HIDE DEF more
<1>7. /\ servers' \in [{0, 1} -> Seq(Entry)] /\ servers'[source] = more
      /\ \A s \in {0, 1} : (s # source => servers'[s] = servers[s]) /\ Len(servers'[s]) = Len(servers[s])
  BY <1>2, <1>3, <1>5 DEF more
<1>8. visible' \in [1..MaxGlobal -> BOOLEAN]
  <2>1. visible \in [1..MaxGlobal -> BOOLEAN] /\ Now.visible = visible
    BY <1>0, ViewIs DEF BrowserTypeOK, Now
  <2>2. CASE visible' = visible
    BY <2>1, <2>2
  <2>3. CASE \E shown \in Built(more, none, Now) : Displays(shown)
    <3>1. PICK shown \in Built(more, none, Now) : Displays(shown)
      BY <2>3
    <3>2. none \in BOOLEAN
      OBVIOUS
    <3> HIDE DEF none, Now
    <3>3. shown.visible \in [1..MaxGlobal -> BOOLEAN]
      BY <1>3, <1>5, <2>1, <3>2, BuiltType
    <3> QED BY <3>1, <3>3 DEF Displays
  <2> QED BY <1>2, <2>2, <2>3 DEF more
<1>9. BrowserTypeOK'
  <2>1. \A s \in {0, 1} : Len(servers'[s]) <= Capacity(s)
    BY <1>0, <1>7 DEF BrowserTypeOK
  <2>2. asked' \subseteq Addresses
    <3>1. \A j \in Used(st.slots) : st.slots[j].adr \in Addresses
      BY <1>4, PingSlotType DEF Used
    <3>2. asked \subseteq Addresses
      BY <1>0 DEF BrowserTypeOK
    <3> QED BY <1>2, <3>1, <3>2
  <2>3. refreshActive' \in BOOLEAN
    BY <1>2, Zenon
  <2>4. waiting' \in BOOLEAN /\ late' \in BOOLEAN /\ full' \in BOOLEAN /\ repeated' \in BOOLEAN
    BY <1>0, <1>1, Zenon DEF BrowserTypeOK
  <2>5. pingUpdateSource' \in {0, 1} /\ source' \in {0, 1} /\ masters' \in Nat /\ refreshes' \in Nat
    BY <1>0, <1>1, <1>3 DEF BrowserTypeOK
  <2>6. overflow' \in Seq(Addresses)
    BY <1>2, <1>4
  <2> QED BY <1>6, <1>7, <1>8, <2>1, <2>2, <2>3, <2>4, <2>5, <2>6 DEF BrowserTypeOK
<1>10. SlotsTrue(cl_pinglist)'
  BY <1>6 DEF SlotsTrue, Used
<1>11. Wait'
  <2>1. servers[1] = <<>> => servers'[1] = <<>>
    <3>1. servers[1] \in Seq(Entry) /\ servers'[1] \in Seq(Entry) /\ Len(servers'[1]) = Len(servers[1])
      BY <1>3, <1>7
    <3> QED BY <3>1
  <2> QED BY <1>0, <1>1, <2>1 DEF Wait
<1>12. ASSUME Calm, Over PROVE Calm' /\ Over'
  <2>1. /\ (repeated \/ Once(servers[1])) /\ (waiting \/ overflow = <<>>)
        /\ Alike(list) /\ Informative(list) /\ Agree(list, cl_pinglist)
    BY <1>12 DEF Calm
  <2>2. Displayed(list, Now)
    BY <1>12 DEF Calm
  <2>3. From(list, cl_pinglist, st, N) /\ st.extra = overflow
    <3>1. source = 1 => overflow = <<>> \/ servers[1] = <<>>
      BY <1>0, <2>1 DEF Wait
    <3> QED BY <1>0, <3>1, VisitedFrom
  <2>4. st.list = list
    BY <2>3 DEF From
  <2>5. /\ Alike(more) /\ Informative(more) /\ Agree(more, cl_pinglist')
        /\ \A i \in DOMAIN list : list[i].ping > 0 => more[i].ping = list[i].ping
    <3>1. cl_pinglist \in [Slots -> PingSlot]
      BY <1>0 DEF BrowserTypeOK
    <3>2. \A j \in Slots : st.slots[j] = cl_pinglist[j]
             \/ (st.slots[j].time = 0 /\ \E i \in DOMAIN list : list[i].ping = -1 /\ st.slots[j].adr = list[i].adr)
      BY <2>3 DEF From
    <3>3. more = Pinged(list, st.slots)
      BY <2>4 DEF more
    <3> HIDE DEF list
    <3>4. /\ Alike(Pinged(list, st.slots)) /\ Informative(Pinged(list, st.slots))
          /\ Agree(Pinged(list, st.slots), Left(st.slots, over))
          /\ \A i \in DOMAIN list : list[i].ping > 0 => Pinged(list, st.slots)[i].ping = list[i].ping
      BY <1>3, <1>4, <2>1, <3>1, <3>2, FrameCalm
    <3> QED BY <1>2, <3>3, <3>4
  <2>6. Displayed(more, Now)
    <3>1. \A i \in DOMAIN list : list[i].ping > 0 => more[i].ping = list[i].ping /\ more[i].adr = list[i].adr
      BY <1>3, <1>4, <1>5, <2>4, <2>5
    <3>2. DOMAIN list \subseteq DOMAIN more
      BY <1>3, <1>5
    <3> HIDE DEF list, Now
    <3> QED BY <2>2, <3>1, <3>2, DisplayStays
  <2>7. ASSUME Builds(build, ~refreshActive') PROVE Displayed(more, Now') /\ BuiltNow(more, Now')
    <3>1. PICK shown \in Built(more, none, Now) : Displays(shown)
      BY <1>2, <2>7 DEF more
    <3>2. none \in BOOLEAN
      OBVIOUS
    <3>3. none => more = <<>>
      BY <1>5, <1>7, <1>11, <1>1 DEF Wait
    <3>4. Now.visible \in [1..MaxGlobal -> BOOLEAN]
      BY <1>0, ViewIs DEF BrowserTypeOK, Now
    <3>5. Len(more) <= MaxGlobal
      BY <1>3, <1>5
    <3> DEFINE now == Now
    <3>6. Now = now
      OBVIOUS
    <3> HIDE DEF none, now
    <3>7. visible' \in [1..MaxGlobal -> BOOLEAN] /\ Displayed(more, Now') /\ BuiltNow(more, Now')
      BY <1>5, <2>6, <3>1, <3>2, <3>3, <3>4, <3>5, RebuiltIs
    <3> QED BY <3>7
  <2>8. Displayed(more, Now')
    <3>1. CASE ~Builds(build, ~refreshActive')
      <4>1. Now' = Now
        BY <1>2, <3>1 DEF Now
      <4> QED BY <2>6, <4>1
    <3> QED BY <2>7, <3>1
  <2>9. Calm'
    <3>1. repeated' \/ Once(servers'[1])
      <4>1. CASE source = 1
        <5>1. (repeated \/ Once(servers[1])) /\ servers[1] = list /\ servers'[1] = more
          BY <1>7, <2>1, <4>1
        <5>2. DOMAIN more = DOMAIN list /\ \A i \in DOMAIN list : more[i].adr = list[i].adr
          BY <1>3, <1>4, <1>5, <2>4
        <5> QED BY <1>1, <5>1, <5>2 DEF Once
      <4>2. CASE source = 0
        BY <1>1, <1>7, <2>1, <4>2
      <4> QED BY <1>3, <4>1, <4>2
    <3>2. servers'[source'] = more /\ pingUpdateSource' = source' /\ (waiting' \/ overflow' = <<>>)
      BY <1>1, <1>2, <1>7, <2>1, <2>3
    <3> HIDE DEF Now
    <3> QED BY <2>5, <2>8, <3>1, <3>2 DEF Calm
  <2>10. Over'
    <3> SUFFICES ASSUME ~refreshActive'
                 PROVE  Used(cl_pinglist') = {} /\ BuiltNow(more, Now') /\ \A i \in DOMAIN more : more[i].ping # -1
      BY <1>1, <1>7 DEF Over, Used
    <3>1. Used(st.slots) = {}
      BY <1>2
    <3>2. Used(cl_pinglist') = {}
      BY <1>6, <3>1 DEF Used
    <3>3. BuiltNow(more, Now')
      BY <2>7 DEF Builds
    <3>4. \A i \in 1..N : visible[i] => list[i].ping # -1
      BY <2>3, <3>1 DEF From
    <3>5. ASSUME NEW i \in DOMAIN more PROVE more[i].ping # -1
      <4>1. i \in DOMAIN list /\ list[i].adr # None /\ i \in 1..N /\ i \in 1..MaxGlobal
        <5>1. i \in DOMAIN list /\ i \in 1..N /\ list[i] \in Entry
          BY <1>3, <1>5
        <5>2. i \in 1..MaxGlobal
          BY <1>3, <5>1, Constants
        <5> QED BY <5>1, <5>2, EntryType, Constants
      <4>2. \A j \in Slots : st.slots[j].adr # list[i].adr
        BY <3>1, <4>1 DEF Used
      <4>3. more[i] = list[i]
        BY <1>5, <2>4, <4>1, <4>2
      <4>4. ~visible[i] => list[i].ping > 0
        BY <2>2, <4>1, ViewIs DEF Displayed, Now
      <4> QED BY <3>4, <4>1, <4>3, <4>4
    <3> QED BY <3>2, <3>3, <3>5
  <2> QED BY <2>9, <2>10
<1> QED BY <1>0, <1>1, <1>9, <1>10, <1>11, <1>12 DEF BrowserInv

-------------------------------------------------------------------------------
(* The theorems.                                                             *)

\* The invariant of the browser.
LEMMA BrowserSafe == BrowserSpec => []BrowserInv
<1>1. ASSUME BrowserInv, [BrowserNext]_browserVars PROVE BrowserInv'
  <2>1. CASE \E s \in {0, 1} : StartServerRefresh(s)
    BY <1>1, <2>1, StartKeeps
  <2>2. CASE RefreshFilter
    BY <1>1, <2>2, RefreshFilterKeeps
  <2>3. CASE UpdateFilter
    BY <1>1, <2>3, UpdateFilterKeeps
  <2>4. CASE \E over \in SUBSET Slots, build \in BOOLEAN : Frame(over, build)
    BY <1>1, <2>4, FrameKeeps
  <2>5. CASE \E adr \in Addresses, time \in Latencies : ServerInfoPacket(adr, time)
    BY <1>1, <2>5, InfoKeeps
  <2>6. CASE \E packet \in Packets : ServersResponsePacket(packet)
    BY <1>1, <2>6, ResponseKeeps
  <2>7. CASE Lost \/ UNCHANGED browserVars
    BY <1>1, <2>7, LostKeeps
  <2> QED BY <1>1, <2>1, <2>2, <2>3, <2>4, <2>5, <2>6, <2>7 DEF BrowserNext
<1> QED BY InitKeeps, <1>1, PTL DEF BrowserSpec

\* The browser's variables keep their types; the servers of the masters keep
\* within their array, and so does a stored list that was not too long to be loaded.
THEOREM BrowserTypeCorrect == BrowserSpec => []BrowserTypeOK
<1>1. BrowserInv => BrowserTypeOK
  BY DEF BrowserInv
<1> QED BY BrowserSafe, <1>1, PTL

\* No server of the masters is listed twice while nothing came out of the
\* overflow and no packet named one twice (CL_ServersResponsePacket), and none is
\* ever asked through two slots (CL_UpdateVisiblePings_f).
THEOREM NothingListedTwice == BrowserSpec => []NotTwice
<1>1. BrowserInv => NotTwice
  <2> SUFFICES ASSUME BrowserInv PROVE NotTwice
    OBVIOUS
  <2>1. SlotsTrue(cl_pinglist) /\ (full \/ Calm)
    BY DEF BrowserInv
  <2>2. full \/ repeated \/ Once(servers[1])
    BY <2>1 DEF Calm
  <2> QED BY <2>1, <2>2 DEF NotTwice, Once, SlotsTrue
<1> QED BY BrowserSafe, <1>1, PTL

\* What is displayed of a server is what it said.
THEOREM InfoComesFromServer == BrowserSpec => []InfoIsOwn
<1>1. BrowserInv => InfoIsOwn
  <2> SUFFICES ASSUME BrowserInv, ~full, NEW k \in DOMAIN displayServers
               PROVE  /\ servers[source][displayServers[k]].ping > 0
                      /\ servers[source][displayServers[k]].info = servers[source][displayServers[k]].adr
    BY DEF InfoIsOwn
  <2>1. Displayed(servers[source], Now) /\ Informative(servers[source])
    BY DEF BrowserInv, Calm
  <2>2. Now.display = displayServers
    BY ViewIs DEF Now
  <2>3. displayServers \in Seq(DOMAIN servers[source]) /\ servers[source][displayServers[k]].ping > 0
    BY <2>1, <2>2 DEF Displayed
  <2>4. displayServers[k] \in DOMAIN servers[source]
    BY <2>3
  <2> QED BY <2>1, <2>3, <2>4 DEF Informative
<1> QED BY BrowserSafe, <1>1, PTL

\* The display is sorted by ping.
THEOREM DisplayIsSorted == BrowserSpec => []Sorted
<1>1. BrowserInv => Sorted
  <2> SUFFICES ASSUME BrowserInv, ~full PROVE Ordered(servers[source], displayServers)
    BY DEF Sorted, Ordered
  <2>1. Displayed(servers[source], Now)
    BY DEF BrowserInv, Calm
  <2>2. Now.display = displayServers
    BY ViewIs DEF Now
  <2> QED BY <2>1, <2>2 DEF Displayed
<1> QED BY BrowserSafe, <1>1, PTL

\* At the end of a refresh all servers were asked, and those that answered and
\* pass the filters are displayed, unless their number was overwritten.
THEOREM EverybodyAsked == BrowserSpec => []AllAsked
<1>1. BrowserInv => AllAsked
  <2> SUFFICES ASSUME BrowserInv, ~full, refreshes > 0, ~refreshActive, ~late, NEW i \in DOMAIN servers[source]
               PROVE  /\ servers[source][i].ping # -1
                      /\ servers[source][i].ping > 0 /\ servers[source][i].adr \notin Filtered =>
                           overrun \/ Contains(displayServers, i)
    BY DEF AllAsked
  <2>1. BuiltNow(servers[source], Now) /\ servers[source][i].ping # -1
    BY DEF BrowserInv, Over
  <2>2. Displayed(servers[source], Now)
    BY DEF BrowserInv, Calm
  <2>3. Now.display = displayServers /\ Now.visible = visible /\ Now.overrun = overrun
    BY ViewIs DEF Now
  <2>4. i \in 1..MaxGlobal
    BY Lengths DEF BrowserInv
  <2>5. ASSUME servers[source][i].ping > 0, servers[source][i].adr \notin Filtered, ~overrun PROVE Contains(displayServers, i)
    <3>1. ~visible[i]
      BY <2>1, <2>3, <2>5 DEF BuiltNow
    <3>2. Shows(displayServers, i)
      BY <2>2, <2>3, <2>4, <2>5, <3>1 DEF Displayed
    <3> QED BY <3>2 DEF Shows, Contains
  <2> QED BY <2>1, <2>5
<1> QED BY BrowserSafe, <1>1, PTL
===============================================================================
