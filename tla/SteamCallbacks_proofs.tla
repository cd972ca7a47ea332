------------------------- MODULE SteamCallbacks_proofs -------------------------
(***************************************************************************)
(* The emulation of call results and callbacks implements the mailbox, for *)
(* any number of results and handlers and whatever the game's handlers do. *)
(***************************************************************************)
EXTENDS SteamCallbacks, SequenceTheorems, WellFoundedInduction, TLAPS

Results(last, calls) == [nr : 1..last, type : Types, call : 0..calls]

\* The queue of results and its iterator.
QueueOK ==
  /\ results \in Seq(Results(posted, callID)) /\ Len(results) <= capacity
  /\ posted \in Nat /\ callID \in Nat /\ capacity \in Nat
  /\ at \in 0..Len(results) /\ stale \in 0..Len(results)

\* The callbacks and theirs.
CallbacksOK ==
  /\ callbacks \in Seq(Types) /\ Len(callbacks) <= cbCapacity /\ cbCapacity \in Nat
  /\ cb \in 0..Len(callbacks) /\ cbStale \in 0..Len(callbacks) /\ owed \subseteq 1..Len(callbacks)

RestOK ==
  /\ resultHandlers \subseteq 1..callID /\ tickets \in Nat
  /\ pc \in {"idle", "next", "result", "callbacks", "callback", "crashed"}

\* The parts of the type invariant, for steps that disturb one of them.
LEMMA TypeParts == TypeOK <=> QueueOK /\ CallbacksOK /\ RestOK
  BY DEF TypeOK, QueueOK, CallbacksOK, RestOK, Results

\* A vector that grows has room for what is needed.
LEMMA GrownIs ==
  ASSUME NEW size \in Nat, NEW need \in Nat
  PROVE  Grown(size, need) \in Nat /\ need <= Grown(size, need)
<1>1. size \div 2 \in Nat
  OBVIOUS
<1> QED
  BY <1>1 DEF Grown

\* What was posted stays where it was, and what is new follows.
LEMMA Appended ==
  ASSUME NEW S, NEW s \in Seq(S), NEW more \in Seq(S)
  PROVE  /\ s \o more \in Seq(S) /\ Len(s \o more) = Len(s) + Len(more)
         /\ Len(s) \in Nat /\ Len(more) \in Nat
         /\ \A i \in 1..Len(s) : (s \o more)[i] = s[i]
BY ConcatProperties, LenProperties

\* Posts appends to the queue; an iterator that was lost stays lost.
LEMMA PostsIs ==
  ASSUME QueueOK, NEW more, more \in Seq(Results(posted + Len(more), callID')),
         callID' \in Nat, callID <= callID', UNCHANGED at, Posts(more)
  PROVE  /\ QueueOK' /\ results' = results \o more
         /\ Len(results') = Len(results) + Len(more)
         /\ \A i \in 1..Len(results) : results'[i] = results[i]
         /\ stale # 0 => stale' # 0
<1> DEFINE R == Results(posted + Len(more), callID')
<1>1. Len(more) \in Nat /\ posted' = posted + Len(more) /\ results' = results \o more
  BY LenProperties DEF Posts, ReturnCall
<1>2. results \in Seq(R)
  <2>1. Results(posted, callID) \subseteq R
    BY <1>1 DEF Results, QueueOK
  <2> HIDE DEF R
  <2> QED BY <2>1, SeqMonotonic DEF QueueOK
<1>3. /\ results' \in Seq(R) /\ Len(results') = Len(results) + Len(more) /\ Len(results) \in Nat
      /\ \A i \in 1..Len(results) : results'[i] = results[i]
  <2> HIDE DEF R
  <2>1. more \in Seq(R)
    BY DEF R
  <2> QED BY <1>1, <1>2, <2>1, Appended
<1>4. capacity' \in Nat /\ Len(results') <= capacity'
  <2>1. capacity \in Nat /\ Len(results) + 1 \in Nat /\ Len(results') \in Nat
    BY <1>1, <1>3 DEF QueueOK
  <2>2. Grown(capacity, Len(results) + 1) \in Nat
    BY <2>1, GrownIs
  <2> QED BY <2>1, <2>2, GrownIs DEF Posts
<1>5. stale' \in 0..Len(results') /\ (stale # 0 => stale' # 0)
  <2>1. capacity \in Nat /\ Len(results) \in Nat /\ Len(results') \in Nat /\ Len(results) <= Len(results')
    BY <1>1, <1>3 DEF QueueOK
  <2>2. ASSUME Len(results') < capacity PROVE capacity' = capacity
    <3>1. Len(results) + 1 <= capacity
      BY <2>1, <2>2
    <3>2. Grown(capacity, Len(results) + 1) = capacity /\ Grown(capacity, Len(results')) = capacity
      BY <2>1, <2>2, <3>1 DEF Grown
    <3> QED BY <3>2 DEF Posts
  <2>3. capacity' # capacity => capacity \in 0..Len(results')
    BY <2>1, <2>2
  <2>4. stale \in 0..Len(results)
    BY DEF QueueOK
  <2> QED BY <1>1, <1>3, <2>1, <2>3, <2>4 DEF Posts
<1>6. at' \in 0..Len(results') /\ posted' \in Nat
  BY <1>1, <1>3 DEF QueueOK
<1> QED
  BY <1>1, <1>3, <1>4, <1>5, <1>6 DEF QueueOK

\* What Call, CreateLobby and the answer to a ticket post.
LEMMA OneResult ==
  ASSUME QueueOK, NEW type \in Types, NEW call \in 0..callID', callID' \in Nat
  PROVE  /\ <<Result(posted + 1, type, call)>> \in Seq(Results(posted + 1, callID'))
         /\ Len(<<Result(posted + 1, type, call)>>) = 1
<1>1. Result(posted + 1, type, call) \in Results(posted + 1, callID')
  BY DEF Result, Results, QueueOK
<1> QED
  BY <1>1

LEMMA TwoResults ==
  ASSUME QueueOK, callID' = callID + 2
  PROVE  LET two == <<Result(posted + 1, Created, callID + 1), Result(posted + 2, Entered, callID')>>
         IN  two \in Seq(Results(posted + 2, callID')) /\ Len(two) = 2
<1>1. /\ Result(posted + 1, Created, callID + 1) \in Results(posted + 2, callID')
      /\ Result(posted + 2, Entered, callID') \in Results(posted + 2, callID')
  BY DEF Result, Results, QueueOK, Types
<1> QED
  BY <1>1

-------------------------------------------------------------------------------
(* Types.                                                                    *)

LEMMA InitTypeOK == Init => TypeOK
<1> SUFFICES ASSUME Init PROVE TypeOK
  OBVIOUS
<1>1. \A S : <<>> \in Seq(S) /\ Len(<<>>) = 0
  BY EmptySeq
<1>2. QueueOK
  BY <1>1 DEF Init, QueueOK
<1>3. CallbacksOK
  BY <1>1 DEF Init, CallbacksOK
<1> QED
  BY <1>2, <1>3, TypeParts DEF Init, RestOK

\* Something is posted, and nothing but the queue is touched.
PostsSome ==
  /\ QueueOK' /\ RestOK' /\ Len(results') > Len(results)
  /\ \A i \in 1..Len(results) : results'[i] = results[i]
  /\ stale # 0 => stale' # 0
  /\ UNCHANGED <<callbacks, cbCapacity, at, cb, cbStale, pc, owed, missed, delivered>>

\* Every way in which the game or the service posts.
LEMMA PostsAre ==
  ASSUME TypeOK,
         (\E type \in Types, listens \in BOOLEAN : Call(type, listens)) \/ CreateLobby \/ \E type \in Types : OnValidateTicket(type)
  PROVE  PostsSome
<1>1. QueueOK /\ RestOK
  BY TypeParts
<1>2. ASSUME NEW type \in Types, NEW listens \in BOOLEAN, Call(type, listens)
      PROVE  PostsSome
  <2> DEFINE more == <<Result(posted + 1, type, callID')>>
  <2>1. callID' = callID + 1 /\ callID' \in Nat /\ callID' \in 0..callID' /\ callID <= callID'
    BY <1>1, <1>2 DEF Call, QueueOK
  <2>2. more \in Seq(Results(posted + Len(more), callID')) /\ Len(more) = 1
    BY <1>1, <2>1, OneResult
  <2>3. /\ Posts(more) /\ UNCHANGED <<callbacks, cbCapacity, at, cb, cbStale, pc, owed, missed, delivered, tickets>>
        /\ resultHandlers' \subseteq resultHandlers \cup {callID'}
    BY <1>2 DEF Call
  <2> HIDE DEF more
  <2>4. /\ QueueOK' /\ results' = results \o more /\ Len(results') = Len(results) + Len(more)
        /\ \A i \in 1..Len(results) : results'[i] = results[i]
        /\ stale # 0 => stale' # 0
    BY <1>1, <2>1, <2>2, <2>3, PostsIs
  <2>5. RestOK'
    BY <1>1, <2>1, <2>3 DEF RestOK, QueueOK
  <2> QED BY <2>2, <2>3, <2>4, <2>5 DEF PostsSome
<1>3. ASSUME CreateLobby
      PROVE  PostsSome
  <2> DEFINE more == <<Result(posted + 1, Created, callID + 1), Result(posted + 2, Entered, callID')>>
  <2>1. callID' = callID + 2 /\ callID' \in Nat /\ callID <= callID' /\ callID \in Nat
    BY <1>1, <1>3 DEF CreateLobby, QueueOK
  <2>2. more \in Seq(Results(posted + Len(more), callID')) /\ Len(more) = 2
    BY <1>1, <2>1, TwoResults
  <2>3. /\ Posts(more) /\ UNCHANGED <<callbacks, cbCapacity, at, cb, cbStale, pc, owed, missed, delivered, tickets>>
        /\ resultHandlers' = resultHandlers \cup {callID + 1}
    BY <1>3 DEF CreateLobby
  <2> HIDE DEF more
  <2>4. /\ QueueOK' /\ results' = results \o more /\ Len(results') = Len(results) + Len(more)
        /\ \A i \in 1..Len(results) : results'[i] = results[i]
        /\ stale # 0 => stale' # 0
    BY <1>1, <2>1, <2>2, <2>3, PostsIs
  <2>5. RestOK'
    BY <1>1, <2>1, <2>3 DEF RestOK, QueueOK
  <2> QED BY <2>2, <2>3, <2>4, <2>5 DEF PostsSome
<1>4. ASSUME NEW type \in Types, OnValidateTicket(type)
      PROVE  PostsSome
  <2> DEFINE more == <<Result(posted + 1, type, 0)>>
  <2>1. callID' = callID /\ callID' \in Nat /\ 0 \in 0..callID' /\ callID <= callID'
    BY <1>1, <1>4 DEF OnValidateTicket, QueueOK
  <2>2. more \in Seq(Results(posted + Len(more), callID')) /\ Len(more) = 1
    BY <1>1, <2>1, OneResult
  <2>3. /\ Posts(more) /\ UNCHANGED <<callbacks, cbCapacity, at, cb, cbStale, pc, owed, missed, delivered, resultHandlers>>
        /\ tickets' = tickets - 1 /\ tickets > 0
    BY <1>4 DEF OnValidateTicket, handlers
  <2> HIDE DEF more
  <2>4. /\ QueueOK' /\ results' = results \o more /\ Len(results') = Len(results) + Len(more)
        /\ \A i \in 1..Len(results) : results'[i] = results[i]
        /\ stale # 0 => stale' # 0
    BY <1>1, <2>1, <2>2, <2>3, PostsIs
  <2>5. RestOK'
    BY <1>1, <2>1, <2>3 DEF RestOK
  <2> QED BY <2>2, <2>3, <2>4, <2>5 DEF PostsSome
<1> QED
  BY <1>2, <1>3, <1>4

\* The next callback to run is one of those that are there.
LEMMA MatchingIs ==
  ASSUME CallbacksOK, RunCallback
  PROVE  cb' \in Matching /\ (\A j \in Matching : cb' <= j) /\ Matching \subseteq 1..Len(callbacks)
<1>1. Len(callbacks) \in Nat /\ Matching \subseteq 1..Len(callbacks) /\ Matching \subseteq Nat /\ Matching # {}
  BY LenProperties DEF CallbacksOK, Matching, RunCallback
<1>2. \E i \in Matching : \A j \in Matching : i <= j
  <2>1. IsWellFoundedOn(OpToRel(<, Nat), Nat)
    BY NatLessThanWellFounded
  <2>2. PICK i \in Matching : \A j \in Matching : ~(<<j, i>> \in OpToRel(<, Nat))
    <3>1. \E i \in Matching : \A j \in Matching : ~(<<j, i>> \in OpToRel(<, Nat))
      BY <1>1, <2>1, WFMin, Zenon
    <3> QED BY <3>1
  <2>3. ASSUME NEW j \in Matching, j < i PROVE FALSE
    <3>1. <<j, i>> \in OpToRel(<, Nat)
      BY <1>1, <2>3 DEF OpToRel
    <3> QED BY <2>2, <3>1
  <2>4. \A j \in Matching : i <= j
    BY <1>1, <2>3
  <2> QED BY <2>4
<1> QED
  BY <1>1, <1>2 DEF RunCallback

LEMMA NextTypeOK == TypeOK /\ [Next]_vars => TypeOK'
<1> SUFFICES ASSUME TypeOK, [Next]_vars PROVE TypeOK'
  OBVIOUS
<1> SUFFICES QueueOK' /\ CallbacksOK' /\ RestOK'
  BY DEF TypeOK, QueueOK, CallbacksOK, RestOK, Results
<1>0. QueueOK /\ CallbacksOK /\ RestOK
  BY TypeParts
<1>1. CASE \/ \E type \in Types, listens \in BOOLEAN : Call(type, listens)
           \/ CreateLobby \/ \E type \in Types : OnValidateTicket(type)
  BY <1>0, <1>1, PostsAre DEF PostsSome, CallbacksOK
<1>2. CASE Authenticate
  BY <1>0, <1>2 DEF Authenticate, QueueOK, CallbacksOK, RestOK, queue, handlers, run
<1>3. ASSUME NEW type \in Types, RegisterCallback(type) PROVE QueueOK' /\ CallbacksOK' /\ RestOK'
  <2>1. /\ callbacks' \in Seq(Types) /\ Len(callbacks') = Len(callbacks) + 1 /\ Len(callbacks) \in Nat
    BY <1>0, <1>3, AppendProperties, LenProperties DEF RegisterCallback, CallbacksOK
  <2>2. cbCapacity' \in Nat /\ Len(callbacks') <= cbCapacity'
    BY <1>0, <1>3, <2>1, GrownIs DEF RegisterCallback, CallbacksOK
  <2>3. cbStale' \in 0..Len(callbacks')
    BY <1>0, <1>3, <2>1 DEF RegisterCallback, CallbacksOK
  <2>4. CallbacksOK'
    BY <1>0, <1>3, <2>1, <2>2, <2>3 DEF RegisterCallback, CallbacksOK
  <2> QED BY <1>0, <1>3, <2>4 DEF RegisterCallback, QueueOK, RestOK, queue
<1>4. CASE Start \/ ResultReturns \/ CallbackReturns \/ Crash
  BY <1>0, <1>4 DEF Start, ResultReturns, CallbackReturns, Crash, QueueOK, CallbacksOK, RestOK, queue, handlers, run
<1>5. CASE Deliver
  <2>1. at + 1 \in 0..Len(results) /\ Len(callbacks) \in Nat
    BY <1>0, <1>5, LenProperties DEF Deliver, Reach, QueueOK, CallbacksOK
  <2>2. QueueOK'
    BY <1>0, <1>5, <2>1 DEF Deliver, QueueOK, queue
  <2>3. CallbacksOK'
    BY <1>0, <1>5, <2>1 DEF Deliver, CallbacksOK, handlers
  <2> QED BY <1>0, <1>5, <2>2, <2>3 DEF Deliver, RestOK, handlers
<1>6. CASE RunCallback
  <2>1. cb' \in 0..Len(callbacks)
    BY <1>0, <1>6, MatchingIs DEF RunCallback
  <2> QED BY <1>0, <1>6, <2>1 DEF RunCallback, QueueOK, CallbacksOK, RestOK, queue, handlers
<1>7. CASE Freed
  <2>1. Len(callbacks) \in Nat
    BY <1>0, LenProperties DEF CallbacksOK
  <2> QED BY <1>0, <1>7, <2>1 DEF Freed, QueueOK, CallbacksOK, RestOK, queue, handlers
<1>8. CASE Cleared
  <2>1. results' = <<>> /\ results' \in Seq(Results(posted, callID)) /\ Len(results') = 0
    BY <1>8, EmptySeq DEF Cleared
  <2>2. QueueOK'
    BY <1>0, <1>8, <2>1 DEF Cleared, QueueOK
  <2> QED BY <1>0, <1>8, <2>2 DEF Cleared, CallbacksOK, RestOK, handlers
<1>9. CASE UNCHANGED vars
  BY <1>0, <1>9 DEF vars, queue, handlers, run, QueueOK, CallbacksOK, RestOK
<1> QED
  BY <1>1, <1>2, <1>3, <1>4, <1>5, <1>6, <1>7, <1>8, <1>9 DEF Next, Game, Frame

\* Iterators and what they have lost stay within the vectors, which have room
\* for what they hold.
THEOREM CallbacksTypeCorrect == Spec => []TypeOK
  BY InitTypeOK, NextTypeOK, PTL DEF Spec

-------------------------------------------------------------------------------
(* The mailbox.                                                              *)

\* What is pending is the rest of the vector, from the iterator on.
LEMMA PendingIs ==
  ASSUME QueueOK
  PROVE  /\ Len(Pending) = Len(results) - at
         /\ \A i \in 1..Len(Pending) : Pending[i] = results[at + i]
         /\ Pending \in Seq(Results(posted, callID))
<1> DEFINE S == Results(posted, callID)
<1>1. results \in Seq(S) /\ Len(results) \in Nat /\ at \in 0..Len(results)
  BY LenProperties DEF QueueOK
<1>2. \A i \in (at + 1)..Len(results) : results[i] \in S
  <2> HIDE DEF S
  <2> QED BY <1>1, ElementOfSeq
<1> HIDE DEF S
<1>3. /\ Pending \in Seq(S)
      /\ Len(Pending) = IF at + 1 <= Len(results) THEN Len(results) - (at + 1) + 1 ELSE 0
      /\ \A i \in 1..(Len(results) - (at + 1) + 1) : Pending[i] = results[(at + 1) + i - 1]
  <2>1. at + 1 \in 1..(Len(results) + 1) /\ Len(results) \in 0..Len(results)
    BY <1>1
  <2> QED BY <1>1, <2>1, SubSeqProperties DEF Pending
<1>4. Len(Pending) = Len(results) - at
  BY <1>1, <1>3
<1>5. ASSUME NEW i \in 1..Len(Pending) PROVE Pending[i] = results[at + i]
  <2>1. i \in 1..(Len(results) - (at + 1) + 1) /\ (at + 1) + i - 1 = at + i
    BY <1>1, <1>4
  <2> QED BY <1>3, <2>1
<1> QED
  BY <1>3, <1>4, <1>5 DEF S

LEMMA RefinesInit == Init => M!Init
  BY DEF Init, M!Init, Pending

\* Every step posts to the mailbox, takes its first result, empties it, or leaves
\* it as it is.
LEMMA RefinesNext == TypeOK /\ TypeOK' /\ [Next]_vars => [M!Post \/ M!Deliver \/ M!Lose]_(M!vars)
<1> SUFFICES ASSUME TypeOK, TypeOK', [Next]_vars PROVE [M!Post \/ M!Deliver \/ M!Lose]_(M!vars)
  OBVIOUS
<1>0. QueueOK /\ QueueOK' /\ Len(results) \in Nat /\ Len(results') \in Nat
  BY LenProperties DEF TypeOK, QueueOK, Results
<1>1. CASE \/ \E type \in Types, listens \in BOOLEAN : Call(type, listens)
           \/ CreateLobby \/ \E type \in Types : OnValidateTicket(type)
  <2>1. PostsSome
    BY <1>1, PostsAre
  <2>2. Len(Pending) = Len(results) - at /\ Len(Pending') = Len(results') - at /\ at \in 0..Len(results)
    BY <1>0, <2>1, PendingIs DEF PostsSome, QueueOK, Pending
  <2>3. \A i \in 1..Len(Pending) : Pending[i] = results[at + i] /\ Pending'[i] = results'[at + i] /\ at + i \in 1..Len(results)
    BY <1>0, <2>1, <2>2, PendingIs DEF PostsSome, QueueOK, Pending
  <2> QED BY <1>0, <2>1, <2>2, <2>3 DEF PostsSome, M!Post
<1>2. CASE Deliver
  <2>1. /\ at + 1 \in 1..Len(results) /\ at' = at + 1 /\ results' = results /\ stale' = stale
        /\ delivered' = Append(delivered, results[at + 1])
    BY <1>0, <1>2 DEF Deliver, Reach, QueueOK, queue
  <2>2. /\ Len(Pending) = Len(results) - at /\ Len(Pending) \in Nat /\ 1 \in 1..Len(Pending)
        /\ \A i \in 1..Len(Pending) : Pending[i] = results[at + i]
        /\ Pending \in Seq(Results(posted, callID))
    BY <1>0, <2>1, PendingIs DEF QueueOK
  <2>3. Pending # <<>> /\ Head(Pending) = results[at + 1]
    BY <2>2, HeadTailProperties, EmptySeq
  <2>4. Pending' = SubSeq(results, (at + 1) + 1, Len(results)) /\ Tail(Pending) = Pending'
    <3>1. Pending' = SubSeq(results, (at + 1) + 1, Len(results))
      BY <2>1 DEF Pending
    <3>2. results \in Seq(Results(posted, callID)) /\ Tail(SubSeq(results, at + 1, Len(results))) = SubSeq(results, (at + 1) + 1, Len(results))
      <4>1. at + 1 \in 1..Len(results) /\ Len(results) \in (at + 1)..Len(results) /\ results \in Seq(Results(posted, callID))
        BY <1>0, <2>1 DEF QueueOK
      <4> QED BY <4>1, HeadTailOfSubSeq
    <3> QED BY <3>1, <3>2 DEF Pending
  <2>5. M!Deliver
    BY <2>1, <2>3, <2>4 DEF M!Deliver
  <2> QED BY <2>5
<1>3. CASE Cleared
  <2>1. results' = <<>> /\ at' = 0 /\ stale' = 0 /\ delivered' = delivered /\ (stale # 0 \/ at = Len(results))
    BY <1>3 DEF Cleared
  <2>2. Pending' = <<>>
    BY <2>1 DEF Pending
  <2>3. CASE stale # 0
    BY <2>1, <2>2, <2>3 DEF M!Lose
  <2>4. CASE stale = 0
    <3>1. Pending = <<>>
      BY <1>0, <2>1, <2>4, PendingIs, EmptySeq DEF QueueOK
    <3> QED BY <2>1, <2>2, <2>4, <3>1 DEF M!vars
  <2> QED BY <2>3, <2>4
<1>4. CASE UNCHANGED <<results, at, stale, delivered>>
  BY <1>4 DEF Pending, M!vars
<1>5. CASE Authenticate \/ \E type \in Types : RegisterCallback(type)
  BY <1>4, <1>5 DEF Authenticate, RegisterCallback, queue, run
<1>6. CASE Start \/ ResultReturns \/ RunCallback \/ CallbackReturns \/ Freed \/ Crash
  BY <1>4, <1>6 DEF Start, ResultReturns, RunCallback, CallbackReturns, Freed, Crash, queue, run
<1>7. CASE UNCHANGED vars
  BY <1>4, <1>7 DEF vars, queue, run
<1> QED
  BY <1>1, <1>2, <1>3, <1>5, <1>6, <1>7 DEF Next, Game, Frame

\* Results are handed out once and in order, over calls made by the handlers of
\* the very pass, and lost only by a pass whose vector had to grow: RunCallbacks
\* implements Mailbox.
THEOREM HandedOutInOrder == Spec => InOrderOnce
<1>1. TypeOK /\ TypeOK' /\ [Next]_vars => [M!Post \/ M!Deliver \/ M!Lose]_(M!vars)
  BY RefinesNext
<1> QED
  BY <1>1, RefinesInit, CallbacksTypeCorrect, PTL DEF Spec, InOrderOnce, M!Spec

-------------------------------------------------------------------------------
(* The callbacks.                                                            *)

Running == pc \in {"result", "callbacks", "callback"}

\* While the callbacks of a result run over a vector that has not moved, those
\* that are owed the result are ahead of the iterator.
OwedAhead ==
  Running => /\ at \in 1..Len(results)
             /\ cbStale = 0 => \A i \in owed : i > cb /\ callbacks[i] = results[at].type

\* ... so that none is left when there is no more to run.
LEMMA OwedMatch == CallbacksOK /\ OwedAhead /\ pc = "callbacks" /\ cbStale = 0 => owed \subseteq Matching
<1> SUFFICES ASSUME CallbacksOK, OwedAhead, pc = "callbacks", cbStale = 0, NEW i \in owed
             PROVE  i \in Matching
  OBVIOUS
<1>1. i > cb /\ callbacks[i] = results[at].type /\ i \in 1..Len(callbacks) /\ cb \in 0..Len(callbacks) /\ Len(callbacks) \in Nat
  BY LenProperties DEF OwedAhead, Running, CallbacksOK
<1> QED
  BY <1>1 DEF Matching

LEMMA NextHears == TypeOK /\ OwedAhead /\ AllHear /\ [Next]_vars => OwedAhead' /\ AllHear'
<1> SUFFICES ASSUME TypeOK, OwedAhead, AllHear, [Next]_vars PROVE OwedAhead' /\ AllHear'
  OBVIOUS
<1>0. QueueOK /\ CallbacksOK /\ Len(results) \in Nat /\ Len(callbacks) \in Nat
  BY LenProperties DEF TypeOK, QueueOK, CallbacksOK, Results
<1>1. CASE \/ \E type \in Types, listens \in BOOLEAN : Call(type, listens)
           \/ CreateLobby \/ \E type \in Types : OnValidateTicket(type)
  <2>1. PostsSome /\ Len(results') \in Nat
    BY <1>1, PostsAre, LenProperties DEF PostsSome, QueueOK
  <2> QED BY <1>0, <2>1 DEF PostsSome, OwedAhead, AllHear, Running
<1>2. ASSUME NEW type \in Types, RegisterCallback(type) PROVE OwedAhead' /\ AllHear'
  <2>1. \A i \in 1..Len(callbacks) : callbacks'[i] = callbacks[i]
    BY <1>0, <1>2, AppendProperties DEF RegisterCallback, CallbacksOK
  <2>2. cbStale' = 0 => cbStale = 0
    BY <1>0, <1>2 DEF RegisterCallback, CallbacksOK
  <2>3. owed' = owed /\ owed \subseteq 1..Len(callbacks) /\ UNCHANGED <<results, pc, at, cb, missed>>
    BY <1>0, <1>2 DEF RegisterCallback, CallbacksOK, queue
  <2> QED BY <2>1, <2>2, <2>3 DEF OwedAhead, AllHear, Running
<1>3. CASE Deliver
  <2>1. /\ at + 1 \in 1..Len(results) /\ at' = at + 1 /\ cb' = 0 /\ UNCHANGED <<results, callbacks, missed>>
        /\ owed' = {i \in 1..Len(callbacks) : callbacks[i] = results[at + 1].type}
    BY <1>0, <1>3 DEF Deliver, Reach, QueueOK, queue, handlers
  <2> QED BY <2>1 DEF OwedAhead, AllHear
<1>4. CASE RunCallback
  <2>1. /\ cb' \in Matching /\ (\A j \in Matching : cb' <= j) /\ Matching \subseteq 1..Len(callbacks)
        /\ owed' = owed \ {cb'} /\ pc = "callbacks" /\ UNCHANGED <<results, callbacks, at, cbStale, missed>>
    BY <1>0, <1>4, MatchingIs DEF RunCallback, queue, handlers
  <2>2. cbStale = 0 => owed \subseteq Matching
    BY <1>0, <2>1, OwedMatch
  <2>3. cbStale = 0 => \A i \in owed' : i > cb' /\ callbacks[i] = results[at].type
    <3> SUFFICES ASSUME cbStale = 0, NEW i \in owed' PROVE i > cb' /\ callbacks[i] = results[at].type
      OBVIOUS
    <3>1. i \in Matching /\ i # cb' /\ i \in owed
      BY <2>1, <2>2
    <3>2. i \in Int /\ cb' \in Int /\ cb' <= i
      BY <2>1, <3>1
    <3> QED BY <2>1, <3>1, <3>2 DEF OwedAhead, Running
  <2> QED BY <2>1, <2>3 DEF OwedAhead, AllHear, Running
<1>5. CASE Freed
  <2>1. ~Running'
    BY <1>5 DEF Freed, Running
  <2>2. cbStale = 0 => owed = {}
    BY <1>0, <1>5, OwedMatch DEF Freed
  <2> QED BY <1>5, <2>1, <2>2 DEF Freed, OwedAhead, AllHear
<1>6. CASE ResultReturns \/ CallbackReturns
  BY <1>6 DEF ResultReturns, CallbackReturns, OwedAhead, AllHear, Running, queue, handlers, run
<1>7. CASE Start \/ Cleared \/ Crash
  <2>1. ~Running' /\ missed' = missed
    BY <1>7 DEF Start, Cleared, Crash, Running
  <2> QED BY <2>1 DEF OwedAhead, AllHear
<1>8. CASE Authenticate \/ UNCHANGED vars
  BY <1>8 DEF Authenticate, vars, queue, handlers, run, OwedAhead, AllHear, Running
<1> QED
  BY <1>1, <1>2, <1>3, <1>4, <1>5, <1>6, <1>7, <1>8 DEF Next, Game, Frame

\* Whichever handlers run in between, no callback that was registered when a
\* result's turn came is left out, unless the vector of callbacks moved.
THEOREM EveryCallbackHears == Spec => []AllHear
<1>1. Init => OwedAhead /\ AllHear
  BY DEF Init, OwedAhead, Running, AllHear
<1>2. TypeOK /\ OwedAhead /\ AllHear /\ [Next]_vars => OwedAhead' /\ AllHear'
  BY NextHears
<1> QED
  BY <1>1, <1>2, CallbacksTypeCorrect, PTL DEF Spec
===============================================================================
