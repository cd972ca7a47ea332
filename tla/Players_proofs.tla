---------------------------- MODULE Players_proofs ----------------------------
(***************************************************************************)
(* What the server's programs promise its players, who take slots and give *)
(* them back: that their votes stay theirs, for every number of slots and  *)
(* of persons and every setting of the votes; and that a script's list and *)
(* handlers follow them, for every number of slots, objects and levels.    *)
(***************************************************************************)
EXTENDS Voting, EntityPool, SequenceTheorems, FiniteSetTheorems, TLAPS

\* The persons, slots and the clock.
GameOK ==
  /\ person \in [Clients -> 0..MaxPersons] /\ persons \in 0..MaxPersons
  /\ now \in 0..MaxTime /\ startTime \in 0..MaxTime

\* What the code keeps for each slot.
FlagsOK ==
  /\ voteCount \in [Types -> [Clients -> Nat]]
  /\ votedFor \in [Types -> [Clients -> SUBSET Clients]]
  /\ lastVote \in [Clients -> 0..MaxTime]

\* The running vote.
RunningOK ==
  /\ voteRunning \in BOOLEAN /\ voteExpire \in Nat
  /\ voteTarget \in Clients /\ voteType \in Types

VotesOK == votes \in [Clients -> {-1, 0, 1}]

\* What only the properties speak of.
HistoryOK ==
  /\ subject \in 0..MaxPersons /\ changed \in BOOLEAN /\ phantom \in BOOLEAN
  /\ favors \subseteq Types \X Persons \X (0..MaxPersons)

\* The calls of each person.
OwnOK == calls \in [Types -> [Persons -> Nat]] /\ called \in [Persons -> 0..MaxTime]

\* The parts of the type invariant, for proofs that disturb one of them.
LEMMA TypeParts == TypeOK <=> GameOK /\ FlagsOK /\ RunningOK /\ VotesOK /\ HistoryOK /\ OwnOK
  BY DEF TypeOK, GameOK, FlagsOK, RunningOK, VotesOK, HistoryOK, OwnOK

\* Slots are there.
LEMMA SomeClient == 0 \in Clients
  BY VotingAssumption DEF Clients

\* What a leaving player's slot stands for is forgotten, whatever else the loop
\* past the end of the tables clears.
LEMMA ClearedIs ==
  ASSUME TypeOK, NEW y \in Types, NEW c \in Clients, NEW spill \in BOOLEAN
  PROVE  /\ Cleared(y, c, spill) \in [Clients -> SUBSET Clients]
         /\ Cleared(y, c, spill)[c] = {}
         /\ \A i \in Clients : Cleared(y, c, spill)[i] \subseteq votedFor[y][i] \ {c}
<1>1. votedFor[y] \in [Clients -> SUBSET Clients]
  BY DEF TypeOK
<1> QED
  BY <1>1 DEF Cleared

\* Vote_OnDisconnect takes the slot out of every table and adds nothing to any.
LEMMA OnDisconnectIs ==
  ASSUME TypeOK, NEW c \in Clients, OnDisconnect(c)
  PROVE  /\ FlagsOK' /\ VotesOK'
         /\ \A y \in Types, i \in Clients : voteCount'[y][i] = IF i = c THEN 0 ELSE voteCount[y][i]
         /\ \A i \in Clients : lastVote'[i] = IF i = c THEN 0 ELSE lastVote[i]
         /\ \A y \in Types, i \in Clients : votedFor'[y][i] \subseteq votedFor[y][i] \ {c}
         /\ \A y \in Types : votedFor'[y][c] = {}
         /\ votes'[c] = 0
         /\ \A i \in Clients : votes'[i] \in {0, votes[i]}
<1>1. /\ voteCount' \in [Types -> [Clients -> Nat]]
      /\ \A y \in Types, i \in Clients : voteCount'[y][i] = IF i = c THEN 0 ELSE voteCount[y][i]
  <2>1. \A y \in Types : voteCount[y] \in [Clients -> Nat]
    BY DEF TypeOK
  <2> QED BY <2>1 DEF OnDisconnect
<1>2. PICK spill \in BOOLEAN : votedFor' = [y \in Types |-> Cleared(y, c, spill)]
  BY DEF OnDisconnect
<1>3. /\ votedFor' \in [Types -> [Clients -> SUBSET Clients]]
      /\ \A y \in Types, i \in Clients : votedFor'[y][i] \subseteq votedFor[y][i] \ {c}
      /\ \A y \in Types : votedFor'[y][c] = {}
  BY <1>2, ClearedIs
<1>4. PICK hit \in BOOLEAN : votes' = [i \in Clients |-> IF i = c \/ (hit /\ i \in Behind(c)) THEN 0 ELSE votes[i]]
  BY DEF OnDisconnect
<1>5. /\ votes' \in [Clients -> {-1, 0, 1}] /\ votes'[c] = 0
      /\ \A i \in Clients : votes'[i] \in {0, votes[i]}
  <2>1. votes \in [Clients -> {-1, 0, 1}]
    BY DEF TypeOK
  <2> QED BY <1>4, <2>1
<1>6. /\ lastVote' \in [Clients -> 0..MaxTime]
      /\ \A i \in Clients : lastVote'[i] = IF i = c THEN 0 ELSE lastVote[i]
  BY VotingAssumption DEF OnDisconnect, TypeOK
<1> QED
  BY <1>1, <1>3, <1>5, <1>6 DEF FlagsOK, VotesOK

\* Leaving keeps the types.
LEMMA LeavesTypeOK ==
  ASSUME TypeOK, NEW c \in Clients, Leaves(c)
  PROVE  /\ FlagsOK' /\ VotesOK'
         /\ person' \in [Clients -> 0..MaxPersons]
         /\ favors' \subseteq Types \X Persons \X (0..MaxPersons)
<1>1. FlagsOK' /\ VotesOK'
  BY OnDisconnectIs DEF Leaves
<1>2. person' \in [Clients -> 0..MaxPersons]
  BY VotingAssumption DEF Leaves, TypeOK
<1>3. favors' \subseteq Types \X Persons \X (0..MaxPersons)
  BY DEF Leaves, TypeOK
<1> QED
  BY <1>1, <1>2, <1>3

\* Before anybody connects the variables have their types.
LEMMA InitTypeOK == Init => TypeOK
<1> SUFFICES ASSUME Init PROVE TypeOK
  OBVIOUS
<1>1. GameOK
  BY VotingAssumption DEF Init, GameOK
<1>2. FlagsOK
  BY VotingAssumption DEF Init, FlagsOK, NoVotes
<1>3. RunningOK
  <2>1. \E y \in Types : "ban" \in Types => y = "ban"
    BY VotingAssumption
  <2>2. voteType \in Types
    BY <2>1 DEF Init
  <2> QED BY <2>2, SomeClient DEF Init, RunningOK
<1>4. VotesOK
  BY DEF Init, VotesOK, NoVotes
<1>5. HistoryOK
  <2>1. 0 \in 0..MaxPersons
    BY VotingAssumption
  <2>2. favors = {} /\ subject = 0 /\ changed = FALSE /\ phantom = FALSE
    BY DEF Init
  <2> QED BY <2>1, <2>2 DEF HistoryOK
<1>6. OwnOK
  <2>1. 0 \in 0..MaxTime
    BY VotingAssumption
  <2> QED BY <2>1 DEF Init, OwnOK, NoCalls
<1> QED
  BY <1>1, <1>2, <1>3, <1>4, <1>5, <1>6, TypeParts

\* Every step keeps the types.
LEMMA NextTypeOK == TypeOK /\ [Next]_vars => TypeOK'
<1> SUFFICES ASSUME TypeOK, [Next]_vars PROVE TypeOK'
  OBVIOUS
<1> USE VotingAssumption
<1>0. GameOK /\ FlagsOK /\ RunningOK /\ VotesOK /\ HistoryOK /\ OwnOK
  BY TypeParts
<1> SUFFICES GameOK' /\ FlagsOK' /\ RunningOK' /\ VotesOK' /\ HistoryOK' /\ OwnOK'
  BY DEF TypeOK, GameOK, FlagsOK, RunningOK, VotesOK, HistoryOK, OwnOK
<1>1. CASE Tick
  BY <1>0, <1>1 DEF Tick, GameOK, FlagsOK, RunningOK, VotesOK, HistoryOK, OwnOK, flags, running, history, own
<1>2. ASSUME NEW c \in Clients, Connect(c) PROVE GameOK' /\ FlagsOK' /\ RunningOK' /\ VotesOK' /\ HistoryOK' /\ OwnOK'
  <2>1. GameOK'
    <3>1. persons + 1 \in 0..MaxPersons
      BY <1>0, <1>2 DEF Connect, GameOK
    <3> QED BY <1>0, <1>2, <3>1 DEF Connect, GameOK
  <2>2. FlagsOK' /\ RunningOK' /\ VotesOK'
    BY <1>0, <1>2 DEF Connect, FlagsOK, RunningOK, VotesOK, flags, running
  <2>3. HistoryOK'
    BY <1>0, <1>2 DEF Connect, HistoryOK
  <2>4. OwnOK'
    BY <1>0, <1>2 DEF Connect, OwnOK, own
  <2> QED BY <2>1, <2>2, <2>3, <2>4
<1>3. ASSUME NEW c \in Clients, Disconnect(c) PROVE GameOK' /\ FlagsOK' /\ RunningOK' /\ VotesOK' /\ HistoryOK' /\ OwnOK'
  <2>1. FlagsOK' /\ VotesOK' /\ person' \in [Clients -> 0..MaxPersons] /\ favors' \subseteq Types \X Persons \X (0..MaxPersons)
    BY <1>3, LeavesTypeOK DEF Disconnect
  <2> QED BY <1>0, <1>3, <2>1 DEF Disconnect, GameOK, RunningOK, HistoryOK, OwnOK, running, own
<1>4. CASE OnInitGame
  <2>1. FlagsOK'
    BY <1>0, <1>4 DEF OnInitGame, FlagsOK, NoVotes
  <2>2. OwnOK'
    BY <1>0, <1>4 DEF OnInitGame, OwnOK, NoCalls
  <2> QED BY <1>0, <1>4, <2>1, <2>2 DEF OnInitGame, GameOK, RunningOK, VotesOK, HistoryOK, game, history, NoVotes
<1>5. ASSUME NEW y \in Types, NEW c \in Clients, NEW target \in Clients, StartVote(y, c, target)
      PROVE  GameOK' /\ FlagsOK' /\ RunningOK' /\ VotesOK' /\ HistoryOK' /\ OwnOK'
  <2>1. FlagsOK'
    <3>1. voteCount' \in [Types -> [Clients -> Nat]]
      BY <1>0, <1>5 DEF StartVote, Called, FlagsOK
    <3>2. votedFor' \in [Types -> [Clients -> SUBSET Clients]]
      BY <1>0, <1>5 DEF StartVote, FlagsOK
    <3>3. lastVote' \in [Clients -> 0..MaxTime]
      BY <1>0, <1>5 DEF StartVote, Called, FlagsOK, GameOK
    <3> QED BY <3>1, <3>2, <3>3 DEF FlagsOK
  <2>2. RunningOK'
    BY <1>0, <1>5 DEF StartVote, RunningOK, GameOK, Expiry, VoteTime
  <2>3. VotesOK'
    BY <1>5 DEF StartVote, VotesOK
  <2>4. HistoryOK'
    <3>1. person[c] \in Persons /\ person[target] \in 0..MaxPersons
      BY <1>0, <1>5 DEF StartVote, GameOK, Persons
    <3>2. favors' \subseteq Types \X Persons \X (0..MaxPersons)
      BY <1>0, <1>5, <3>1 DEF StartVote, HistoryOK
    <3> QED BY <1>0, <1>5, <3>1, <3>2 DEF StartVote, HistoryOK
  <2>5. OwnOK'
    <3>1. person[c] \in Persons /\ now \in 0..MaxTime
      BY <1>0, <1>5 DEF StartVote, GameOK, Persons
    <3> QED BY <1>0, <1>5, <3>1 DEF StartVote, OwnOK
  <2> QED BY <1>0, <1>5, <2>1, <2>2, <2>3, <2>4, <2>5 DEF StartVote, GameOK, game
<1>6. ASSUME NEW c \in Clients, NEW yes \in BOOLEAN, HandleVote(c, yes)
      PROVE  GameOK' /\ FlagsOK' /\ RunningOK' /\ VotesOK' /\ HistoryOK' /\ OwnOK'
  <2>1. FlagsOK'
    <3>1. votedFor' \in [Types -> [Clients -> SUBSET Clients]]
      BY <1>0, <1>6 DEF HandleVote, FlagsOK, RunningOK
    <3> QED BY <1>0, <1>6, <3>1 DEF HandleVote, FlagsOK
  <2>2. VotesOK'
    BY <1>0, <1>6 DEF HandleVote, VotesOK
  <2>3. HistoryOK'
    <3>1. person[c] \in Persons /\ person[voteTarget] \in 0..MaxPersons
      BY <1>0, <1>6 DEF HandleVote, GameOK, RunningOK, Persons
    <3>2. favors' \subseteq Types \X Persons \X (0..MaxPersons)
      BY <1>0, <1>6, <3>1 DEF HandleVote, HistoryOK, RunningOK
    <3> QED BY <1>0, <1>6, <3>2 DEF HandleVote, HistoryOK
  <2> QED BY <1>0, <1>6, <2>1, <2>2, <2>3 DEF HandleVote, GameOK, RunningOK, OwnOK, game, running, own
<1>7. CASE Finalize
  <2>1. FlagsOK' /\ VotesOK' /\ person' \in [Clients -> 0..MaxPersons] /\ favors' \subseteq Types \X Persons \X (0..MaxPersons)
    <3>1. CASE Passes /\ person[voteTarget] # 0
      BY <1>0, <1>7, <3>1, LeavesTypeOK DEF Finalize, RunningOK
    <3>2. CASE ~(Passes /\ person[voteTarget] # 0)
      BY <1>0, <1>7, <3>2 DEF Finalize, FlagsOK, VotesOK, GameOK, HistoryOK, flags
    <3> QED BY <3>1, <3>2
  <2> QED BY <1>0, <1>7, <2>1 DEF Finalize, GameOK, RunningOK, HistoryOK, OwnOK, own
<1>8. CASE UNCHANGED vars
  BY <1>0, <1>8 DEF vars, game, flags, running, history, own, GameOK, FlagsOK, RunningOK, VotesOK, HistoryOK, OwnOK
<1> QED
  BY <1>1, <1>2, <1>3, <1>4, <1>5, <1>6, <1>7, <1>8 DEF Next

\* The tables of Voting.cpp, the slots and the history keep their types, for any
\* number of slots, persons and types of vote.
THEOREM VotingTypeCorrect == Spec => []TypeOK
  BY InitTypeOK, NextTypeOK, PTL DEF Spec

-------------------------------------------------------------------------------
(* What is counted.                                                          *)

\* A person is in one slot, and numbered when he connected.
OneSlotEach ==
  /\ \A i, j \in Clients : person[i] # 0 /\ person[i] = person[j] => i = j
  /\ \A i \in Clients : person[i] <= persons

\* What the tables keep of slots are opinions of the persons in them.
OpinionsHeld ==
  ~phantom =>
    \A y \in Types, i, j \in Clients :
      j \in votedFor[y][i] => person[i] # 0 /\ person[j] # 0 /\ <<y, person[i], person[j]>> \in favors

\* The person the vote was called on is in the slot it names.
SubjectThere == voteRunning /\ ~changed /\ ~phantom => subject = person[voteTarget] /\ subject # 0

FairInv == TypeOK /\ OneSlotEach /\ OpinionsHeld /\ SubjectThere /\ FairCount

LEMMA InitFair == Init => FairInv
<1> SUFFICES ASSUME Init PROVE FairInv
  OBVIOUS
<1>1. TypeOK
  BY InitTypeOK
<1>2. OneSlotEach
  BY DEF Init, OneSlotEach
<1>3. OpinionsHeld
  BY DEF Init, OpinionsHeld
<1>4. SubjectThere /\ FairCount
  BY DEF Init, SubjectThere, FairCount
<1> QED
  BY <1>1, <1>2, <1>3, <1>4 DEF FairInv

\* A step that leaves slots, tables and opinions alone keeps them in order.
LEMMA OpinionsStay ==
  ASSUME OneSlotEach, OpinionsHeld, UNCHANGED <<person, persons, votedFor, favors, phantom>>
  PROVE  OneSlotEach' /\ OpinionsHeld'
<1>1. OneSlotEach'
  BY DEF OneSlotEach
<1>2. OpinionsHeld'
  BY DEF OpinionsHeld
<1> QED
  BY <1>1, <1>2

\* Whoever leaves takes along what was voted by him and about him; what the
\* others voted about others stays an opinion of theirs.
LEMMA LeavesFair ==
  ASSUME FairInv, NEW c \in Clients, person[c] # 0, Leaves(c), persons' = persons, phantom' = phantom
  PROVE  /\ OneSlotEach' /\ OpinionsHeld'
         /\ \A i \in Clients : i # c /\ person[i] # 0 => person'[i] = person[i] /\ person[i] # person[c]
         /\ \A y \in Types : \A a, b : a # person[c] /\ b # person[c] /\ <<y, a, b>> \in favors => <<y, a, b>> \in favors'
         /\ votes'[c] = 0 /\ \A i \in Clients : votes'[i] \in {0, votes[i]}
<1>1. TypeOK /\ OneSlotEach /\ OpinionsHeld
  BY DEF FairInv
<1>2. person \in [Clients -> 0..MaxPersons] /\ person' = [person EXCEPT ![c] = 0]
  BY <1>1 DEF TypeOK, Leaves
<1>3. \A i \in Clients : i # c /\ person[i] # 0 => person'[i] = person[i] /\ person[i] # person[c]
  BY <1>1, <1>2 DEF OneSlotEach
<1>4. \A y \in Types : \A a, b : a # person[c] /\ b # person[c] /\ <<y, a, b>> \in favors => <<y, a, b>> \in favors'
  BY DEF Leaves
<1>5. votes'[c] = 0 /\ \A i \in Clients : votes'[i] \in {0, votes[i]}
  BY <1>1, OnDisconnectIs DEF Leaves
<1>6. OneSlotEach'
  <2>1. persons \in 0..MaxPersons
    BY <1>1 DEF TypeOK
  <2> QED BY <1>1, <1>2, <2>1, VotingAssumption DEF OneSlotEach
<1>7. OpinionsHeld'
  <2> SUFFICES ASSUME ~phantom, NEW y \in Types, NEW i \in Clients, NEW j \in Clients, j \in votedFor'[y][i]
               PROVE  person'[i] # 0 /\ person'[j] # 0 /\ <<y, person'[i], person'[j]>> \in favors'
    BY DEF OpinionsHeld
  <2>1. i # c /\ j # c /\ j \in votedFor[y][i]
    BY <1>1, OnDisconnectIs DEF Leaves
  <2>2. person[i] # 0 /\ person[j] # 0 /\ <<y, person[i], person[j]>> \in favors
    BY <1>1, <2>1 DEF OpinionsHeld
  <2> QED BY <1>3, <1>4, <2>1, <2>2
<1> QED
  BY <1>3, <1>4, <1>5, <1>6, <1>7

\* Whoever connects is new, and no table says anything of his slot.
LEMMA ConnectFair == ASSUME FairInv, NEW c \in Clients, Connect(c) PROVE FairInv'
<1>1. TypeOK /\ OneSlotEach /\ OpinionsHeld /\ SubjectThere /\ FairCount
  BY DEF FairInv
<1>2. /\ person \in [Clients -> 0..MaxPersons] /\ persons \in Nat /\ person[c] = 0
      /\ person' = [person EXCEPT ![c] = persons + 1] /\ persons' = persons + 1
      /\ UNCHANGED <<flags, votes, running, subject, phantom, favors>>
      /\ changed' = (changed \/ (voteRunning /\ c = voteTarget))
      /\ voteTarget \in Clients
  BY <1>1 DEF TypeOK, Connect
<1>3. TypeOK'
  BY <1>1, NextTypeOK DEF Next
<1>4. \A i \in Clients : person[i] # 0 => i # c /\ person'[i] = person[i]
  BY <1>2
<1>5. OneSlotEach'
  <2> SUFFICES /\ \A i, j \in Clients : person'[i] # 0 /\ person'[i] = person'[j] => i = j
               /\ \A i \in Clients : person'[i] <= persons'
    BY DEF OneSlotEach
  <2>1. \A i \in Clients : person[i] \in Nat /\ person[i] <= persons
    BY <1>1, <1>2 DEF OneSlotEach
  <2>2. \A i \in Clients : person'[i] = IF i = c THEN persons + 1 ELSE person[i]
    BY <1>2
  <2> QED BY <1>1, <1>2, <2>1, <2>2 DEF OneSlotEach
<1>6. OpinionsHeld'
  BY <1>1, <1>2, <1>4 DEF OpinionsHeld, flags
<1>7. SubjectThere'
  BY <1>1, <1>2, <1>4 DEF SubjectThere, running
<1>8. FairCount'
  <2> SUFFICES ASSUME voteRunning, ~changed, ~phantom, NEW i \in Clients
               PROVE  /\ votes[i] # 0 => person'[i] # 0
                      /\ votes[i] = 1 => <<voteType, person'[i], subject>> \in favors
                      /\ votes[i] = -1 => person'[i] # subject
    BY <1>2 DEF FairCount, running
  <2>1. /\ votes[i] # 0 => person[i] # 0
        /\ votes[i] = 1 => <<voteType, person[i], subject>> \in favors
        /\ votes[i] = -1 => person[i] # subject
    BY <1>1 DEF FairCount
  <2> QED BY <1>4, <2>1
<1> QED
  BY <1>3, <1>5, <1>6, <1>7, <1>8 DEF FairInv

LEMMA DisconnectFair == ASSUME FairInv, NEW c \in Clients, Disconnect(c) PROVE FairInv'
<1>1. TypeOK /\ SubjectThere /\ FairCount
  BY DEF FairInv
<1>2. /\ person[c] # 0 /\ Leaves(c) /\ UNCHANGED <<persons, running, subject, phantom>>
      /\ changed' = (changed \/ (voteRunning /\ c = voteTarget)) /\ voteTarget \in Clients /\ voteType \in Types
  BY <1>1 DEF Disconnect, TypeOK
<1>3. TypeOK'
  BY <1>1, NextTypeOK DEF Next
<1>4. /\ OneSlotEach' /\ OpinionsHeld'
      /\ \A i \in Clients : i # c /\ person[i] # 0 => person'[i] = person[i] /\ person[i] # person[c]
      /\ \A y \in Types : \A a, b : a # person[c] /\ b # person[c] /\ <<y, a, b>> \in favors => <<y, a, b>> \in favors'
      /\ votes'[c] = 0 /\ \A i \in Clients : votes'[i] \in {0, votes[i]}
  BY <1>2, LeavesFair
<1>5. ASSUME voteRunning, ~changed', ~phantom
      PROVE  voteTarget # c /\ subject = person[voteTarget] /\ subject # 0 /\ person'[voteTarget] = subject /\ subject # person[c]
  BY <1>1, <1>2, <1>4, <1>5 DEF SubjectThere
<1>6. SubjectThere'
  BY <1>2, <1>5 DEF SubjectThere, running
<1>7. FairCount'
  <2> SUFFICES ASSUME voteRunning, ~changed', ~phantom, NEW i \in Clients, votes'[i] # 0
               PROVE  /\ person'[i] # 0
                      /\ votes'[i] = 1 => <<voteType, person'[i], subject>> \in favors'
                      /\ votes'[i] = -1 => person'[i] # subject
    BY <1>2 DEF FairCount, running
  <2>1. i # c /\ votes'[i] = votes[i] /\ ~changed
    BY <1>2, <1>4
  <2>2. /\ person[i] # 0
        /\ votes[i] = 1 => <<voteType, person[i], subject>> \in favors
        /\ votes[i] = -1 => person[i] # subject
    BY <1>1, <2>1 DEF FairCount
  <2>3. person'[i] = person[i] /\ person[i] # person[c]
    BY <1>4, <2>1, <2>2
  <2> QED BY <1>2, <1>4, <1>5, <2>1, <2>2, <2>3
<1> QED
  BY <1>3, <1>4, <1>6, <1>7 DEF FairInv

\* A new vote counts the opinions the tables hold, which are the persons'.
LEMMA StartVoteFair ==
  ASSUME FairInv, NEW y \in Types, NEW c \in Clients, NEW target \in Clients, StartVote(y, c, target)
  PROVE  FairInv'
<1>1. TypeOK /\ OneSlotEach /\ OpinionsHeld
  BY DEF FairInv
<1>2. /\ person[c] # 0 /\ UNCHANGED <<person, persons>>
      /\ voteTarget' = target /\ voteType' = y /\ subject' = person[target]
      /\ votes' = [i \in Clients |-> IF target \in votedFor'[y][i] THEN 1 ELSE 0]
      /\ phantom' = (phantom \/ person[target] = 0)
      /\ favors' = favors \cup {<<y, person[c], person[target]>>}
      /\ votedFor \in [Types -> [Clients -> SUBSET Clients]]
      /\ votedFor' = [votedFor EXCEPT ![y][c] = @ \cup {target}]
  BY <1>1 DEF StartVote, TypeOK, game
<1>3. TypeOK'
  BY <1>1, NextTypeOK DEF Next
<1>4. OneSlotEach'
  BY <1>1, <1>2 DEF OneSlotEach
<1>5. OpinionsHeld'
  <2> SUFFICES ASSUME ~phantom', NEW z \in Types, NEW i \in Clients, NEW j \in Clients, j \in votedFor'[z][i]
               PROVE  person[i] # 0 /\ person[j] # 0 /\ <<z, person[i], person[j]>> \in favors'
    BY <1>2 DEF OpinionsHeld
  <2>1. j \in votedFor[z][i] \/ (z = y /\ i = c /\ j = target)
    BY <1>2
  <2> QED BY <1>1, <1>2, <2>1 DEF OpinionsHeld
<1>6. SubjectThere'
  BY <1>2 DEF SubjectThere
<1>7. FairCount'
  <2> SUFFICES ASSUME ~phantom', NEW i \in Clients
               PROVE  /\ votes'[i] # 0 => person'[i] # 0
                      /\ votes'[i] = 1 => <<voteType', person'[i], subject'>> \in favors'
                      /\ votes'[i] = -1 => person'[i] # subject'
    BY DEF FairCount
  <2>1. CASE target \in votedFor'[y][i]
    <3>1. votes'[i] = 1
      BY <1>2, <2>1
    <3>2. person[i] # 0 /\ <<y, person[i], person[target]>> \in favors'
      BY <1>2, <1>5, <2>1 DEF OpinionsHeld
    <3> QED BY <1>2, <3>1, <3>2
  <2>2. CASE target \notin votedFor'[y][i]
    BY <1>2, <2>2
  <2> QED BY <2>1, <2>2
<1> QED
  BY <1>3, <1>4, <1>5, <1>6, <1>7 DEF FairInv

\* Who votes yes holds the opinion, who votes no takes it back, for himself
\* alone; and the person voted on may not vote no.
LEMMA HandleVoteFair ==
  ASSUME FairInv, NEW c \in Clients, NEW yes \in BOOLEAN, HandleVote(c, yes)
  PROVE  FairInv'
<1> DEFINE opinion == <<voteType, person[c], person[voteTarget]>>
<1>1. TypeOK /\ OneSlotEach /\ OpinionsHeld /\ SubjectThere /\ FairCount
  BY DEF FairInv
<1>2. /\ person[c] # 0 /\ voteRunning /\ UNCHANGED <<person, persons, running, subject, changed>>
      /\ yes \/ c # voteTarget
      /\ votes \in [Clients -> {-1, 0, 1}]
      /\ votes' = [votes EXCEPT ![c] = IF yes THEN 1 ELSE -1]
      /\ favors' = IF yes THEN favors \cup {opinion} ELSE favors \ {opinion}
      /\ phantom' = (phantom \/ (yes /\ person[voteTarget] = 0))
      /\ votedFor \in [Types -> [Clients -> SUBSET Clients]] /\ voteType \in Types /\ voteTarget \in Clients
      /\ votedFor' = [votedFor EXCEPT ![voteType][c] = IF yes THEN @ \cup {voteTarget} ELSE @ \ {voteTarget}]
  BY <1>1 DEF HandleVote, TypeOK, game
<1>3. TypeOK'
  BY <1>1, NextTypeOK DEF Next
<1>4. OneSlotEach'
  BY <1>1, <1>2 DEF OneSlotEach
<1>5. OpinionsHeld'
  <2> SUFFICES ASSUME ~phantom', NEW z \in Types, NEW i \in Clients, NEW j \in Clients, j \in votedFor'[z][i]
               PROVE  person[i] # 0 /\ person[j] # 0 /\ <<z, person[i], person[j]>> \in favors'
    BY <1>2 DEF OpinionsHeld
  <2>1. CASE yes
    <3>1. j \in votedFor[z][i] \/ (z = voteType /\ i = c /\ j = voteTarget)
      BY <1>2, <2>1
    <3> QED BY <1>1, <1>2, <2>1, <3>1 DEF OpinionsHeld
  <2>2. CASE ~yes
    <3>1. j \in votedFor[z][i] /\ ~(z = voteType /\ i = c /\ j = voteTarget)
      BY <1>2, <2>2
    <3>2. person[i] # 0 /\ person[j] # 0 /\ <<z, person[i], person[j]>> \in favors
      BY <1>1, <1>2, <3>1 DEF OpinionsHeld
    <3>3. <<z, person[i], person[j]>> # opinion
      BY <1>1, <1>2, <3>1, <3>2 DEF OneSlotEach
    <3> QED BY <1>2, <2>2, <3>2, <3>3
  <2> QED BY <2>1, <2>2
<1>6. SubjectThere'
  BY <1>1, <1>2 DEF SubjectThere, running
<1>7. FairCount'
  <2> SUFFICES ASSUME ~changed, ~phantom', NEW i \in Clients
               PROVE  /\ votes'[i] # 0 => person[i] # 0
                      /\ votes'[i] = 1 => <<voteType, person[i], subject>> \in favors'
                      /\ votes'[i] = -1 => person[i] # subject
    BY <1>2 DEF FairCount, running
  <2>1. subject = person[voteTarget] /\ subject # 0 /\ ~phantom
    BY <1>1, <1>2 DEF SubjectThere
  <2>2. CASE i = c
    <3>1. votes'[i] = IF yes THEN 1 ELSE -1
      BY <1>2, <2>2
    <3>2. yes => opinion \in favors'
      BY <1>2
    <3>3. ~yes => person[c] # person[voteTarget]
      BY <1>1, <1>2 DEF OneSlotEach
    <3> QED BY <1>2, <2>1, <2>2, <3>1, <3>2, <3>3
  <2>3. CASE i # c
    <3>1. votes'[i] = votes[i]
      BY <1>2, <2>3
    <3>2. /\ votes[i] # 0 => person[i] # 0
          /\ votes[i] = 1 => <<voteType, person[i], subject>> \in favors
          /\ votes[i] = -1 => person[i] # subject
      BY <1>1, <1>2, <2>1 DEF FairCount
    <3>3. person[i] # 0 => person[i] # person[c]
      BY <1>1, <2>3 DEF OneSlotEach
    <3> QED BY <1>2, <3>1, <3>2, <3>3
  <2> QED BY <2>2, <2>3
<1> QED
  BY <1>3, <1>4, <1>5, <1>6, <1>7 DEF FairInv

\* The end of a vote removes whoever is in the slot, and nothing is counted any
\* more.
LEMMA FinalizeFair == ASSUME FairInv, Finalize PROVE FairInv'
<1>1. TypeOK /\ OneSlotEach /\ OpinionsHeld
  BY DEF FairInv
<1>2. TypeOK'
  BY <1>1, NextTypeOK DEF Next
<1>3. OneSlotEach' /\ OpinionsHeld'
  <2>1. CASE Passes /\ person[voteTarget] # 0
    BY <1>1, <2>1, LeavesFair DEF Finalize, TypeOK
  <2>2. CASE ~(Passes /\ person[voteTarget] # 0)
    BY <1>1, <2>2, OpinionsStay DEF Finalize, flags
  <2> QED BY <2>1, <2>2
<1>4. SubjectThere' /\ FairCount'
  BY DEF Finalize, SubjectThere, FairCount
<1> QED
  BY <1>2, <1>3, <1>4 DEF FairInv

LEMMA NextFair == FairInv /\ [Next]_vars => FairInv'
<1> SUFFICES ASSUME FairInv, [Next]_vars PROVE FairInv'
  OBVIOUS
<1>1. TypeOK /\ OneSlotEach /\ OpinionsHeld /\ SubjectThere /\ FairCount
  BY DEF FairInv
<1>2. TypeOK'
  BY <1>1, NextTypeOK
<1>3. ASSUME UNCHANGED <<person, persons, votedFor, votes, running, history>>
      PROVE  FairInv'
  <2>1. OneSlotEach' /\ OpinionsHeld'
    BY <1>1, <1>3, OpinionsStay DEF history
  <2>2. SubjectThere'
    BY <1>1, <1>3 DEF SubjectThere, running, history
  <2>3. FairCount'
    BY <1>1, <1>3 DEF FairCount, running, history
  <2> QED BY <1>2, <2>1, <2>2, <2>3 DEF FairInv
<1>4. CASE Tick
  BY <1>3, <1>4 DEF Tick, flags
<1>5. CASE OnInitGame
  <2>1. OneSlotEach' /\ OpinionsHeld'
    BY <1>1, <1>5, OpinionsStay DEF OnInitGame, game, history
  <2>2. SubjectThere' /\ FairCount'
    BY <1>5 DEF OnInitGame, SubjectThere, FairCount
  <2> QED BY <1>2, <2>1, <2>2 DEF FairInv
<1>6. CASE UNCHANGED vars
  BY <1>3, <1>6 DEF vars, game, flags
<1> QED
  BY <1>4, <1>5, <1>6, ConnectFair, DisconnectFair, StartVoteFair, HandleVoteFair, FinalizeFair DEF Next

\* Slots never stand for the wrong person in a vote, as long as its target's
\* slot does not change hands: over disconnects that clear more than they
\* should, and yes votes carried over from one vote to the next.
THEOREM OnlyOpinionsCount == Spec => []FairCount
<1>1. FairInv => FairCount
  BY DEF FairInv
<1> QED
  BY <1>1, InitFair, NextFair, PTL DEF Spec

-------------------------------------------------------------------------------
(* Whose calls are counted.                                                  *)

\* A free slot and a person who is not there yet have called nothing.
NobodysCalls ==
  /\ \A i \in Clients : person[i] = 0 => lastVote[i] = 0 /\ \A y \in Types : voteCount[y][i] = 0
  /\ \A p \in Persons : p > persons => called[p] = 0 /\ \A y \in Types : calls[y][p] = 0

HeldInv == FairInv /\ NobodysCalls /\ HeldToOwnCalls

LEMMA InitHeld == Init => HeldInv
<1> SUFFICES ASSUME Init PROVE HeldInv
  OBVIOUS
<1>1. NobodysCalls
  BY DEF Init, NobodysCalls, NoVotes, NoCalls
<1>2. HeldToOwnCalls
  BY VotingAssumption DEF Init, HeldToOwnCalls, NoCalls
<1> QED
  BY <1>1, <1>2, InitFair DEF HeldInv

\* What the two parts say, with the types the provers need.
LEMMA HeldFacts ==
  ASSUME HeldInv
  PROVE  /\ TypeOK /\ OneSlotEach /\ NobodysCalls /\ HeldToOwnCalls
         /\ person \in [Clients -> 0..MaxPersons] /\ persons \in Nat
         /\ \A i \in Clients : person[i] # 0 => person[i] \in Persons
<1>1. TypeOK /\ OneSlotEach /\ NobodysCalls /\ HeldToOwnCalls
  BY DEF HeldInv, FairInv
<1>2. person \in [Clients -> 0..MaxPersons] /\ persons \in Nat /\ MaxPersons \in Nat
  BY <1>1, VotingAssumption DEF TypeOK
<1>3. \A i \in Clients : person[i] \in 0..MaxPersons
  BY <1>2
<1>4. \A i \in Clients : person[i] # 0 => person[i] \in Persons
  BY <1>2, <1>3 DEF Persons
<1> QED
  BY <1>1, <1>2, <1>4

\* A step that leaves persons and calls alone.
LEMMA HeldStays ==
  ASSUME HeldInv, UNCHANGED <<person, persons, voteCount, lastVote, own>>
  PROVE  NobodysCalls' /\ HeldToOwnCalls'
<1>1. NobodysCalls'
  BY HeldFacts DEF NobodysCalls, own
<1>2. HeldToOwnCalls'
  BY HeldFacts DEF HeldToOwnCalls, own
<1> QED
  BY <1>1, <1>2

\* The newcomer is a person nobody counted anything of, in a slot that counts
\* nothing.
LEMMA ConnectHeld ==
  ASSUME HeldInv, NEW c \in Clients, Connect(c)
  PROVE  NobodysCalls' /\ HeldToOwnCalls'
<1>1. /\ NobodysCalls /\ HeldToOwnCalls /\ person \in [Clients -> 0..MaxPersons] /\ persons \in Nat
      /\ \A i \in Clients : person[i] # 0 => person[i] \in Persons
  BY HeldFacts
<1>2. /\ person[c] = 0 /\ persons' = persons + 1 /\ persons + 1 \in Persons
      /\ \A i \in Clients : person'[i] = IF i = c THEN persons + 1 ELSE person[i]
      /\ UNCHANGED <<voteCount, lastVote, calls, called>>
  BY <1>1, VotingAssumption DEF Connect, flags, own, Persons
<1>3. NobodysCalls'
  <2>1. \A p \in Persons : p > persons + 1 => p > persons
    BY <1>1 DEF Persons
  <2> QED BY <1>1, <1>2, <2>1 DEF NobodysCalls
<1>4. HeldToOwnCalls'
  <2>1. called[persons + 1] = 0 /\ \A y \in Types : calls[y][persons + 1] = 0
    <3>1. persons + 1 > persons
      BY <1>1
    <3> QED BY <1>1, <1>2, <3>1 DEF NobodysCalls
  <2>2. lastVote[c] = 0 /\ \A y \in Types : voteCount[y][c] = 0
    BY <1>1, <1>2 DEF NobodysCalls
  <2> QED BY <1>1, <1>2, <2>1, <2>2 DEF HeldToOwnCalls
<1> QED
  BY <1>3, <1>4

\* Who leaves leaves a slot that counts nothing.
LEMMA LeavesHeld ==
  ASSUME HeldInv, NEW c \in Clients, Leaves(c), UNCHANGED <<persons, own>>
  PROVE  NobodysCalls' /\ HeldToOwnCalls'
<1>1. TypeOK /\ NobodysCalls /\ HeldToOwnCalls /\ person \in [Clients -> 0..MaxPersons]
  BY HeldFacts
<1>2. /\ \A i \in Clients : person'[i] = IF i = c THEN 0 ELSE person[i]
      /\ \A i \in Clients : lastVote'[i] = IF i = c THEN 0 ELSE lastVote[i]
      /\ \A y \in Types, i \in Clients : voteCount'[y][i] = IF i = c THEN 0 ELSE voteCount[y][i]
      /\ UNCHANGED <<persons, calls, called>>
  BY <1>1, OnDisconnectIs DEF Leaves, own
<1>3. NobodysCalls'
  BY <1>1, <1>2 DEF NobodysCalls
<1>4. HeldToOwnCalls'
  BY <1>1, <1>2 DEF HeldToOwnCalls
<1> QED
  BY <1>3, <1>4

\* A call is made below the limit, and counted for the slot and for the person
\* alike.
LEMMA StartVoteHeld ==
  ASSUME HeldInv, NEW y \in Types, NEW c \in Clients, NEW target \in Clients, StartVote(y, c, target)
  PROVE  NobodysCalls' /\ HeldToOwnCalls'
<1> DEFINE p == person[c]
<1>1. /\ TypeOK /\ OneSlotEach /\ NobodysCalls /\ HeldToOwnCalls
      /\ person \in [Clients -> 0..MaxPersons] /\ persons \in Nat
      /\ \A i \in Clients : person[i] # 0 => person[i] \in Persons
  BY HeldFacts
<1>2. p # 0 /\ p \in Persons /\ p <= persons /\ voteCount[y][c] < VoteLimit[y] /\ UNCHANGED <<person, persons>>
  BY <1>1 DEF StartVote, MayStart, game, OneSlotEach
<1>3. /\ voteCount \in [Types -> [Clients -> Nat]] /\ lastVote \in [Clients -> 0..MaxTime]
      /\ calls \in [Types -> [Persons -> Nat]] /\ called \in [Persons -> 0..MaxTime]
  BY <1>1 DEF TypeOK
<1>4. /\ voteCount' = [voteCount EXCEPT ![y][c] = @ + 1] /\ lastVote' = [lastVote EXCEPT ![c] = now]
      /\ calls' = [calls EXCEPT ![y][p] = @ + 1] /\ called' = [called EXCEPT ![p] = now]
  BY DEF StartVote, Called
<1>5. /\ \A i \in Clients : lastVote'[i] = IF i = c THEN now ELSE lastVote[i]
      /\ \A z \in Types, i \in Clients : voteCount'[z][i] = IF z = y /\ i = c THEN voteCount[z][i] + 1 ELSE voteCount[z][i]
  BY <1>3, <1>4
<1> HIDE DEF p
<1>6. /\ \A q \in Persons : called'[q] = IF q = p THEN now ELSE called[q]
      /\ \A z \in Types, q \in Persons : calls'[z][q] = IF z = y /\ q = p THEN calls[z][q] + 1 ELSE calls[z][q]
  BY <1>2, <1>3, <1>4
<1>7. \A i \in Clients : person[i] # 0 => (person[i] = p <=> i = c)
  BY <1>1 DEF OneSlotEach, p
<1>8. NobodysCalls'
  <2>1. person[c] # 0
    BY <1>2 DEF p
  <2>2. \A i \in Clients : person'[i] = 0 => lastVote'[i] = 0 /\ \A z \in Types : voteCount'[z][i] = 0
    BY <1>1, <1>2, <1>5, <2>1 DEF NobodysCalls
  <2>3. \A q \in Persons : q > persons => q # p
    BY <1>1, <1>2 DEF Persons
  <2>4. \A q \in Persons : q > persons' => called'[q] = 0 /\ \A z \in Types : calls'[z][q] = 0
    BY <1>1, <1>2, <1>6, <2>3 DEF NobodysCalls
  <2> QED BY <2>2, <2>4 DEF NobodysCalls
<1>9. HeldToOwnCalls'
  <2>1. ASSUME NEW i \in Clients, person[i] # 0
        PROVE  lastVote'[i] = called'[person[i]] /\ \A z \in Types : voteCount'[z][i] = calls'[z][person[i]]
    <3>1. /\ person[i] \in Persons /\ lastVote[i] = called[person[i]]
          /\ \A z \in Types : voteCount[z][i] = calls[z][person[i]]
      BY <1>1, <2>1 DEF HeldToOwnCalls
    <3> QED BY <1>5, <1>6, <1>7, <2>1, <3>1
  <2>2. ASSUME NEW z \in Types, NEW q \in Persons PROVE calls'[z][q] <= VoteLimit[z]
    <3>1. calls[z][q] <= VoteLimit[z] /\ calls[z][q] \in Nat /\ VoteLimit[z] \in Nat
      BY <1>1, <1>3, VotingAssumption DEF HeldToOwnCalls
    <3>2. calls[y][p] = voteCount[y][c]
      BY <1>1, <1>2 DEF HeldToOwnCalls, p
    <3>3. CASE z = y /\ q = p
      <4>1. calls'[z][q] = calls[z][q] + 1 /\ calls[z][q] < VoteLimit[z]
        BY <1>2, <1>6, <3>2, <3>3
      <4> QED BY <3>1, <4>1
    <3>4. CASE ~(z = y /\ q = p)
      BY <1>6, <3>1, <3>4
    <3> QED BY <3>3, <3>4
  <2> QED BY <1>2, <2>1, <2>2 DEF HeldToOwnCalls
<1> QED
  BY <1>8, <1>9

\* A new game forgets everybody's number of calls, not when he last called.
LEMMA OnInitGameHeld == ASSUME HeldInv, OnInitGame PROVE NobodysCalls' /\ HeldToOwnCalls'
<1>1. /\ NobodysCalls /\ HeldToOwnCalls /\ \A i \in Clients : person[i] # 0 => person[i] \in Persons
      /\ \A y \in Types : VoteLimit[y] \in Nat
  BY HeldFacts, VotingAssumption
<1>2. /\ UNCHANGED <<person, persons, lastVote, called>>
      /\ \A y \in Types, i \in Clients : voteCount'[y][i] = 0
      /\ \A y \in Types, p \in Persons : calls'[y][p] = 0
  BY DEF OnInitGame, game, NoVotes, NoCalls
<1>3. NobodysCalls'
  BY <1>1, <1>2 DEF NobodysCalls
<1>4. HeldToOwnCalls'
  BY <1>1, <1>2 DEF HeldToOwnCalls
<1> QED
  BY <1>3, <1>4

LEMMA NextHeld == HeldInv /\ [Next]_vars => HeldInv'
<1> SUFFICES ASSUME HeldInv, [Next]_vars PROVE HeldInv'
  OBVIOUS
<1>1. FairInv'
  BY NextFair DEF HeldInv
<1> SUFFICES NobodysCalls' /\ HeldToOwnCalls'
  BY <1>1 DEF HeldInv
<1>2. CASE Tick \/ UNCHANGED vars
  <2>1. UNCHANGED <<person, persons, voteCount, lastVote, own>>
    BY <1>2 DEF Tick, vars, game, flags
  <2> QED BY <2>1, HeldStays
<1>3. ASSUME NEW c \in Clients, NEW yes \in BOOLEAN, HandleVote(c, yes) PROVE NobodysCalls' /\ HeldToOwnCalls'
  <2>1. UNCHANGED <<person, persons, voteCount, lastVote, own>>
    BY <1>3 DEF HandleVote, game
  <2> QED BY <2>1, HeldStays
<1>4. ASSUME NEW c \in Clients, Disconnect(c) PROVE NobodysCalls' /\ HeldToOwnCalls'
  BY <1>4, LeavesHeld DEF Disconnect
<1>5. CASE Finalize
  <2>1. CASE Passes /\ person[voteTarget] # 0
    <3>1. voteTarget \in Clients
      BY HeldFacts DEF TypeOK
    <3> QED BY <1>5, <2>1, <3>1, LeavesHeld DEF Finalize
  <2>2. CASE ~(Passes /\ person[voteTarget] # 0)
    BY <1>5, <2>2, HeldStays DEF Finalize, flags
  <2> QED BY <2>1, <2>2
<1> QED
  BY <1>2, <1>3, <1>4, <1>5, ConnectHeld, StartVoteHeld, OnInitGameHeld DEF Next

\* What Vote_HandleStartVote holds a player to are his own calls, all those of
\* this game, and nobody calls more than the limit between his connecting and
\* his leaving: over new games, kicks, disconnects and slots that change hands.
THEOREM HeldToTheirOwn == Spec => []HeldToOwnCalls
<1>1. HeldInv => HeldToOwnCalls
  BY DEF HeldInv
<1> QED
  BY <1>1, InitHeld, NextHeld, PTL DEF Spec

-------------------------------------------------------------------------------
(* The entity pool: lists.                                                   *)

\* What is in a list after an element was put at its end.
LEMMA AppendedTo ==
  ASSUME NEW S, NEW q \in Seq(S), NEW m \in S
  PROVE  /\ Append(q, m) \in Seq(S) /\ ToSet(Append(q, m)) = ToSet(q) \cup {m}
         /\ DOMAIN Append(q, m) = DOMAIN q \cup {Len(q) + 1} /\ Len(q) + 1 \notin DOMAIN q
         /\ Append(q, m)[Len(q) + 1] = m /\ \A k \in DOMAIN q : Append(q, m)[k] = q[k]
<1>1. /\ Append(q, m) \in Seq(S) /\ Len(Append(q, m)) = Len(q) + 1
      /\ DOMAIN q = 1..Len(q) /\ DOMAIN Append(q, m) = 1..(Len(q) + 1) /\ Len(q) \in Nat
      /\ Append(q, m)[Len(q) + 1] = m /\ \A k \in 1..Len(q) : Append(q, m)[k] = q[k]
  BY AppendProperties, LenProperties
<1>2. DOMAIN Append(q, m) = DOMAIN q \cup {Len(q) + 1} /\ Len(q) + 1 \notin DOMAIN q
  BY <1>1
<1>3. ToSet(Append(q, m)) = ToSet(q) \cup {m}
  BY <1>1, <1>2 DEF ToSet
<1> QED
  BY <1>1, <1>2, <1>3

\* What is in a list without its head.
LEMMA WithoutHead ==
  ASSUME NEW S, NEW q \in Seq(S), q # <<>>
  PROVE  /\ Head(q) \in S /\ Tail(q) \in Seq(S) /\ Head(q) = q[1] /\ 1 \in DOMAIN q
         /\ ToSet(q) = {Head(q)} \cup ToSet(Tail(q))
         /\ \A k \in DOMAIN Tail(q) : k + 1 \in DOMAIN q /\ k + 1 # 1 /\ Tail(q)[k] = q[k + 1]
<1>1. /\ Head(q) \in S /\ Tail(q) \in Seq(S) /\ Head(q) = q[1] /\ Len(q) \in Nat \ {0}
      /\ DOMAIN q = 1..Len(q) /\ DOMAIN Tail(q) = 1..(Len(q) - 1)
      /\ \A k \in 1..(Len(q) - 1) : Tail(q)[k] = q[k + 1]
  BY HeadTailProperties, LenProperties, EmptySeq
<1>2. \A k \in DOMAIN Tail(q) : k + 1 \in DOMAIN q /\ k + 1 # 1 /\ Tail(q)[k] = q[k + 1]
  BY <1>1
<1>3. ASSUME NEW k \in DOMAIN q, k # 1 PROVE k - 1 \in DOMAIN Tail(q) /\ Tail(q)[k - 1] = q[k]
  BY <1>1, <1>3
<1>4. ToSet(q) \subseteq {Head(q)} \cup ToSet(Tail(q))
  <2> SUFFICES ASSUME NEW k \in DOMAIN q, q[k] # Head(q) PROVE q[k] \in ToSet(Tail(q))
    BY DEF ToSet
  <2> QED BY <1>1, <1>3 DEF ToSet
<1>5. {Head(q)} \cup ToSet(Tail(q)) \subseteq ToSet(q)
  BY <1>1, <1>2 DEF ToSet
<1> QED
  BY <1>1, <1>2, <1>4, <1>5

\* What is in two lists, one after the other.
LEMMA Joined ==
  ASSUME NEW S, NEW p \in Seq(S), NEW q \in Seq(S)
  PROVE  p \o q \in Seq(S) /\ ToSet(p \o q) = ToSet(p) \cup ToSet(q)
<1>1. /\ p \o q \in Seq(S) /\ Len(p) \in Nat /\ Len(q) \in Nat
      /\ DOMAIN p = 1..Len(p) /\ DOMAIN q = 1..Len(q) /\ DOMAIN (p \o q) = 1..(Len(p) + Len(q))
      /\ \A k \in 1..(Len(p) + Len(q)) : (p \o q)[k] = IF k <= Len(p) THEN p[k] ELSE q[k - Len(p)]
  BY ConcatProperties, LenProperties
<1>2. ASSUME NEW x \in ToSet(p \o q) PROVE x \in ToSet(p) \cup ToSet(q)
  <2>1. PICK k \in 1..(Len(p) + Len(q)) : x = (p \o q)[k]
    BY <1>1, <1>2 DEF ToSet
  <2>2. CASE k <= Len(p)
    BY <1>1, <2>1, <2>2 DEF ToSet
  <2>3. CASE ~(k <= Len(p))
    <3>1. k - Len(p) \in DOMAIN q
      BY <1>1, <2>3
    <3> QED BY <1>1, <2>1, <2>3, <3>1 DEF ToSet
  <2> QED BY <2>2, <2>3
<1>3. ASSUME NEW x \in ToSet(p) PROVE x \in ToSet(p \o q)
  <2>1. PICK k \in 1..Len(p) : x = p[k]
    BY <1>1, <1>3 DEF ToSet
  <2>2. k \in DOMAIN (p \o q) /\ (p \o q)[k] = p[k]
    BY <1>1
  <2> QED BY <2>1, <2>2 DEF ToSet
<1>4. ASSUME NEW x \in ToSet(q) PROVE x \in ToSet(p \o q)
  <2>1. PICK k \in 1..Len(q) : x = q[k]
    BY <1>1, <1>4 DEF ToSet
  <2>2. k + Len(p) \in DOMAIN (p \o q) /\ ~(k + Len(p) <= Len(p)) /\ k + Len(p) - Len(p) = k
    BY <1>1
  <2>3. (p \o q)[k + Len(p)] = q[k]
    BY <1>1, <2>2
  <2> QED BY <2>1, <2>2, <2>3 DEF ToSet
<1> QED
  BY <1>1, <1>2, <1>3, <1>4

\* A list without one of its positions: the others stay, in their order.
LEMMA WithoutOne ==
  ASSUME NEW S, NEW q \in Seq(S), NEW k \in DOMAIN q
  PROVE  /\ RemoveAt(q, k) \in Seq(S)
         /\ \A i \in DOMAIN RemoveAt(q, k) :
              LET j == IF i < k THEN i ELSE i + 1
              IN  j \in DOMAIN q /\ j # k /\ RemoveAt(q, k)[i] = q[j]
         /\ \A j \in DOMAIN q \ {k} : \E i \in DOMAIN RemoveAt(q, k) : RemoveAt(q, k)[i] = q[j]
<1> DEFINE a == SubSeq(q, 1, k - 1)
           b == SubSeq(q, k + 1, Len(q))
<1>1. DOMAIN q = 1..Len(q) /\ Len(q) \in Nat /\ k \in 1..Len(q)
  BY LenProperties
<1>2. /\ a \in Seq(S) /\ Len(a) = k - 1 /\ \A i \in 1..(k - 1) : a[i] = q[i]
  BY <1>1, SubSeqProperties
<1>3. /\ b \in Seq(S) /\ Len(b) = Len(q) - k /\ \A i \in 1..(Len(q) - k) : b[i] = q[k + i]
  <2>1. CASE k = Len(q)
    <3>1. b = <<>>
      BY <1>1, <2>1, SubSeqEmpty
    <3> HIDE DEF b
    <3> QED BY <1>1, <2>1, <3>1, EmptySeq
  <2>2. CASE k < Len(q)
    <3>1. k + 1 \in 1..Len(q) /\ Len(q) \in 1..Len(q) /\ k + 1 <= Len(q)
      BY <1>1, <2>2
    <3>2. b \in Seq(S) /\ Len(b) = Len(q) - (k + 1) + 1 /\ \A i \in 1..(Len(q) - (k + 1) + 1) : b[i] = q[k + 1 + i - 1]
      BY <1>1, <3>1, SubSeqProperties
    <3> HIDE DEF b
    <3> QED BY <1>1, <3>2
  <2> QED BY <1>1, <2>1, <2>2
<1> HIDE DEF a, b
<1>4. RemoveAt(q, k) = a \o b
  BY DEF RemoveAt, a, b
<1>5. /\ a \o b \in Seq(S) /\ DOMAIN (a \o b) = 1..(Len(q) - 1)
      /\ \A i \in 1..(Len(q) - 1) : (a \o b)[i] = IF i <= k - 1 THEN a[i] ELSE b[i - (k - 1)]
  <2>1. /\ a \o b \in Seq(S) /\ DOMAIN (a \o b) = 1..Len(a \o b) /\ Len(a \o b) = Len(a) + Len(b)
        /\ \A i \in 1..(Len(a) + Len(b)) : (a \o b)[i] = IF i <= Len(a) THEN a[i] ELSE b[i - Len(a)]
    BY <1>2, <1>3, ConcatProperties, LenProperties
  <2>2. Len(a) + Len(b) = Len(q) - 1
    BY <1>1, <1>2, <1>3
  <2> QED BY <1>2, <2>1, <2>2
<1>6. ASSUME NEW i \in 1..(Len(q) - 1)
      PROVE  (a \o b)[i] = IF i < k THEN q[i] ELSE q[i + 1]
  <2>1. CASE i < k
    <3>1. i \in 1..(k - 1) /\ i <= k - 1
      BY <1>1, <2>1
    <3>2. (a \o b)[i] = a[i]
      BY <1>5, <3>1
    <3> QED BY <1>2, <2>1, <3>1, <3>2
  <2>2. CASE ~(i < k)
    <3>1. i - (k - 1) \in 1..(Len(q) - k) /\ k + (i - (k - 1)) = i + 1 /\ ~(i <= k - 1)
      BY <1>1, <2>2
    <3>2. (a \o b)[i] = b[i - (k - 1)]
      BY <1>5, <3>1
    <3>3. b[i - (k - 1)] = q[k + (i - (k - 1))]
      BY <1>3, <3>1
    <3> QED BY <2>2, <3>1, <3>2, <3>3
  <2> QED BY <1>1, <2>1, <2>2
<1>7. ASSUME NEW i \in DOMAIN (a \o b)
      PROVE  LET j == IF i < k THEN i ELSE i + 1 IN j \in DOMAIN q /\ j # k /\ (a \o b)[i] = q[j]
  <2>1. i \in 1..(Len(q) - 1)
    BY <1>5
  <2>2. (a \o b)[i] = IF i < k THEN q[i] ELSE q[i + 1]
    BY <1>6, <2>1
  <2>3. i < k => i \in DOMAIN q /\ i # k
    BY <1>1, <2>1
  <2>4. ~(i < k) => i + 1 \in DOMAIN q /\ i + 1 # k
    BY <1>1, <2>1
  <2> QED BY <2>2, <2>3, <2>4
<1>8. ASSUME NEW j \in DOMAIN q \ {k} PROVE \E i \in DOMAIN (a \o b) : (a \o b)[i] = q[j]
  <2>1. CASE j < k
    <3>1. j \in 1..(Len(q) - 1)
      BY <1>1, <2>1
    <3> QED BY <1>5, <1>6, <2>1, <3>1
  <2>2. CASE j > k
    <3>1. j - 1 \in 1..(Len(q) - 1) /\ ~(j - 1 < k) /\ j - 1 + 1 = j
      BY <1>1, <2>2
    <3>2. (a \o b)[j - 1] = q[j]
      BY <1>6, <3>1
    <3> QED BY <1>5, <3>1, <3>2
  <2> QED BY <1>1, <2>1, <2>2
<1> QED
  BY <1>4, <1>5, <1>7, <1>8

\* A finite set as a list has every member, once.
LEMMA Listing ==
  ASSUME NEW S, IsFiniteSet(S)
  PROVE  /\ SetToSeq(S) \in Seq(S) /\ ToSet(SetToSeq(S)) = S
         /\ \A i, j \in DOMAIN SetToSeq(S) : SetToSeq(S)[i] = SetToSeq(S)[j] => i = j
<1> DEFINE n == Cardinality(S)
           f == SetToSeq(S)
<1>1. n \in Nat /\ ExistsBijection(1..n, S)
  BY FS_CardinalityType
<1>2. \E g \in [1..n -> S] : IsInjective(g)
  BY <1>1 DEF ExistsBijection, Bijection, Injection
<1>3. f \in [1..n -> S] /\ IsInjective(f)
  BY <1>2 DEF SetToSeq
<1> HIDE DEF f
<1>4. f \in Injection(1..n, S)
  BY <1>3 DEF Injection
<1>5. IsFiniteSet(1..n) /\ Cardinality(1..n) = n
  BY <1>1, FS_Interval
<1>6. f \in Surjection(1..n, S)
  BY <1>4, <1>5, FS_Injection
<1>7. f \in Seq(S) /\ DOMAIN f = 1..n
  BY <1>1, <1>3, IsASeq
<1>8. ToSet(f) = S
  BY <1>3, <1>6, <1>7 DEF Surjection, ToSet
<1>9. \A i, j \in DOMAIN f : f[i] = f[j] => i = j
  BY <1>3 DEF IsInjective
<1> QED
  BY <1>7, <1>8, <1>9 DEF f

-------------------------------------------------------------------------------
(* The entity pool: types.                                                   *)

\* What the game keeps of the slots, and what the pool has made for them.
PoolsOK ==
  /\ present \in [Slots -> BOOLEAN] /\ begun \in [Slots -> BOOLEAN] /\ joins \in [Slots -> Nat]
  /\ pool \in [Slots -> Nat] /\ made \in [Slots -> Nat]
  /\ parting \subseteq Object

\* What the script has been told and keeps of it.
ListsOK ==
  /\ pending \in Seq(Message) /\ batch \in Seq(Message) /\ players \in Seq(Object)
  /\ hooks \subseteq [entity : Object, player : Nat, level : Nat]

FrameOK == level \in Nat /\ pc \in {"game", "entities", "scripts"} /\ hasty \in BOOLEAN

\* The parts of the type invariant, for proofs that disturb one of them.
LEMMA PoolTypeParts == PoolTypeOK <=> PoolsOK /\ ListsOK /\ FrameOK
  BY DEF PoolTypeOK, PoolsOK, ListsOK, FrameOK

\* The object GetEntity returns, and what the call leaves in the pool.
LEMMA GetEntityIs ==
  ASSUME PoolsOK, NEW s \in Slots
  PROVE  /\ Entity(s) \in Object /\ Entity(s).slot = s
         /\ Entity(s).nr = IF pool[s] # 0 THEN pool[s] ELSE made[s] + 1
         /\ GetEntity(s) =>
              /\ pool' \in [Slots -> Nat] /\ made' \in [Slots -> Nat]
              /\ pool'[s] = Entity(s).nr /\ made'[s] = IF pool[s] # 0 THEN made[s] ELSE made[s] + 1
              /\ \A t \in Slots \ {s} : pool'[t] = pool[t] /\ made'[t] = made[t]
<1>1. pool[s] \in Nat /\ made[s] \in Nat /\ pool \in [Slots -> Nat] /\ made \in [Slots -> Nat]
  BY DEF PoolsOK
<1> DEFINE n == IF pool[s] # 0 THEN pool[s] ELSE made[s] + 1
<1>2. n \in Nat \ {0}
  BY <1>1
<1>3. Entity(s) = [slot |-> s, nr |-> n]
  BY DEF Entity
<1>4. Entity(s) \in Object /\ Entity(s).slot = s /\ Entity(s).nr = n
  <2> HIDE DEF n
  <2> QED BY <1>2, <1>3 DEF Object
<1>5. ASSUME GetEntity(s)
      PROVE  /\ pool' \in [Slots -> Nat] /\ made' \in [Slots -> Nat]
             /\ pool'[s] = n /\ made'[s] = IF pool[s] # 0 THEN made[s] ELSE made[s] + 1
             /\ \A t \in Slots \ {s} : pool'[t] = pool[t] /\ made'[t] = made[t]
  <2>1. pool' = [pool EXCEPT ![s] = n]
    BY <1>4, <1>5 DEF GetEntity
  <2>2. made' = [made EXCEPT ![s] = IF pool[s] # 0 THEN made[s] ELSE made[s] + 1]
    BY <1>1, <1>5 DEF GetEntity
  <2>3. pool' \in [Slots -> Nat] /\ pool'[s] = n /\ \A t \in Slots \ {s} : pool'[t] = pool[t]
    <3> HIDE DEF n
    <3> QED BY <1>1, <1>2, <2>1
  <2>4. /\ made' \in [Slots -> Nat] /\ made'[s] = IF pool[s] # 0 THEN made[s] ELSE made[s] + 1
        /\ \A t \in Slots \ {s} : made'[t] = made[t]
    BY <1>1, <2>2
  <2> QED BY <2>3, <2>4
<1> QED
  BY <1>4, <1>5

\* A notification names the object its slot has now.
LEMMA NotifyIs ==
  ASSUME PoolsOK, NEW s \in Slots, NEW type \in MessageTypes, NEW n \in Nat
  PROVE  /\ Notify(type, s, n) \in Message
         /\ Notify(type, s, n).type = type /\ Notify(type, s, n).player = n
         /\ Notify(type, s, n).entity = Entity(s)
<1>1. Entity(s) \in Object
  BY GetEntityIs
<1> QED
  BY <1>1 DEF Notify, Message

\* The players in their slots, when a level starts, each told of once.
LEMMA TellingAll ==
  ASSUME PoolTypeOK, InitializeLevel
  PROVE  /\ pending' \in Seq(Message)
         /\ \A m \in ToSet(pending') :
              LET s == m.entity.slot IN present[s] /\ m = Notify("connecting", s, joins[s])
         /\ \A s \in Slots : present[s] => Notify("connecting", s, joins[s]) \in ToSet(pending')
         /\ \A i, j \in DOMAIN pending' : pending'[i].entity.slot = pending'[j].entity.slot => i = j
<1> DEFINE S == {s \in Slots : present[s]}
           here == SetToSeq(S)
<1>1. IsFiniteSet(S)
  BY EntityPoolAssumption, FS_Subset
<1>2. /\ here \in Seq(S) /\ ToSet(here) = S
      /\ \A i, j \in DOMAIN here : here[i] = here[j] => i = j
  BY <1>1, Listing
<1>3. pending' = [k \in DOMAIN here |-> Notify("connecting", here[k], joins[here[k]])]
  BY DEF InitializeLevel
<1>4. PoolsOK
  BY PoolTypeParts
<1> HIDE DEF here
<1>5. Len(here) \in Nat /\ DOMAIN here = 1..Len(here) /\ \A k \in DOMAIN here : here[k] \in S
  BY <1>2, LenProperties, ElementOfSeq
<1>6. ASSUME NEW s \in S
      PROVE  /\ Notify("connecting", s, joins[s]) \in Message
             /\ Notify("connecting", s, joins[s]).entity.slot = s
  <2>1. s \in Slots /\ joins[s] \in Nat /\ "connecting" \in MessageTypes
    BY <1>4 DEF PoolsOK, MessageTypes
  <2> QED BY <1>4, <2>1, NotifyIs, GetEntityIs
<1>7. DOMAIN pending' = DOMAIN here
  BY <1>3
<1>8. \A k \in DOMAIN here : pending'[k] = Notify("connecting", here[k], joins[here[k]])
  BY <1>3
<1>9. \A k \in DOMAIN here : pending'[k] \in Message /\ pending'[k].entity.slot = here[k]
  BY <1>5, <1>6, <1>8
<1>10. pending' \in Seq(Message)
  <2>1. pending' \in [1..Len(here) -> Message]
    BY <1>3, <1>5, <1>9
  <2> QED BY <1>5, <2>1, IsASeq
<1>11. \A m \in ToSet(pending') :
         LET s == m.entity.slot IN present[s] /\ m = Notify("connecting", s, joins[s])
  <2> SUFFICES ASSUME NEW k \in DOMAIN here
               PROVE  LET s == pending'[k].entity.slot
                      IN  present[s] /\ pending'[k] = Notify("connecting", s, joins[s])
    BY <1>7 DEF ToSet
  <2> QED BY <1>5, <1>8, <1>9
<1>12. \A s \in Slots : present[s] => Notify("connecting", s, joins[s]) \in ToSet(pending')
  <2> SUFFICES ASSUME NEW s \in S PROVE Notify("connecting", s, joins[s]) \in ToSet(pending')
    OBVIOUS
  <2>1. PICK k \in DOMAIN here : here[k] = s
    BY <1>2 DEF ToSet
  <2> QED BY <1>7, <1>8, <2>1 DEF ToSet
<1>13. \A i, j \in DOMAIN pending' : pending'[i].entity.slot = pending'[j].entity.slot => i = j
  BY <1>2, <1>7, <1>9
<1> QED
  BY <1>10, <1>11, <1>12, <1>13

\* Players.Remove takes at most one of the list.
LEMMA RemovedIs ==
  ASSUME PoolTypeOK, NEW s \in Slots, OnPlayerDisconnect(s)
  PROVE  \/ players' = players /\ \A k \in DOMAIN players : players[k].slot # s
         \/ \E k \in DOMAIN players : players[k].slot = s /\ players' = RemoveAt(players, k)
<1> DEFINE I == {i \in 1..Len(players) : players[i].slot = s}
<1>1. DOMAIN players = 1..Len(players) /\ Len(players) \in Nat
  BY LenProperties DEF PoolTypeOK
<1>2. SelectInSeq(players, LAMBDA e : e.slot = s) = IF I # {} THEN Min(I) ELSE 0
  BY DEF SelectInSeq
<1>3. CASE I = {}
  <2>1. players' = players
    BY <1>2, <1>3 DEF OnPlayerDisconnect
  <2> QED BY <1>1, <1>3, <2>1
<1>4. CASE I # {}
  <2>1. \E x \in I : \A y \in I : x <= y
    <3>1. I \subseteq Nat
      OBVIOUS
    <3>2. PICK x \in I : \A y \in I : ~(<<y, x>> \in OpToRel(<, Nat))
      <4>1. IsWellFoundedOn(OpToRel(<, Nat), Nat)
        BY NatLessThanWellFounded
      <4> HIDE DEF I
      <4> QED BY <1>4, <3>1, <4>1, WFMin, Zenon
    <3>3. ASSUME NEW y \in I PROVE x <= y
      <4>1. x \in Nat /\ y \in Nat /\ ~(y < x)
        BY <3>1, <3>2 DEF OpToRel
      <4> QED BY <4>1
    <3> QED BY <3>3
  <2>2. Min(I) \in I
    BY <2>1 DEF Min
  <2>3. players' = RemoveAt(players, Min(I))
    <3>1. Min(I) # 0
      BY <2>2
    <3> QED BY <1>2, <1>4, <3>1 DEF OnPlayerDisconnect
  <2> QED BY <1>1, <2>2, <2>3
<1> QED
  BY <1>3, <1>4

\* Before anybody connects the variables have their types.
LEMMA PoolInitTypeOK == PoolInit => PoolTypeOK
<1> SUFFICES ASSUME PoolInit PROVE PoolsOK /\ ListsOK /\ FrameOK
  BY PoolTypeParts
<1>1. PoolsOK
  BY DEF PoolInit, PoolsOK
<1>2. ListsOK
  <2>1. <<>> \in Seq(Message) /\ <<>> \in Seq(Object)
    BY EmptySeq
  <2> QED BY <2>1 DEF PoolInit, ListsOK
<1> QED
  BY <1>1, <1>2 DEF PoolInit, FrameOK

\* Every step keeps the types.
LEMMA PoolNextTypeOK == PoolTypeOK /\ [PoolNext]_poolVars => PoolTypeOK'
<1> SUFFICES ASSUME PoolTypeOK, [PoolNext]_poolVars PROVE PoolTypeOK'
  OBVIOUS
<1>0. PoolsOK /\ ListsOK /\ FrameOK
  BY PoolTypeParts
<1> SUFFICES PoolsOK' /\ ListsOK' /\ FrameOK'
  BY DEF PoolTypeOK, PoolsOK, ListsOK, FrameOK
<1>1. ASSUME NEW s \in Slots, PlayerConnect(s) PROVE PoolsOK' /\ ListsOK' /\ FrameOK'
  <2>1. joins[s] \in Nat /\ joins[s] + 1 \in Nat /\ "connecting" \in MessageTypes
    BY <1>0 DEF PoolsOK, MessageTypes
  <2>2. PoolsOK'
    <3>1. pool' \in [Slots -> Nat] /\ made' \in [Slots -> Nat]
      BY <1>0, <1>1, GetEntityIs DEF PlayerConnect
    <3>2. present' \in [Slots -> BOOLEAN] /\ begun' \in [Slots -> BOOLEAN] /\ parting' \subseteq Object
      BY <1>0, <1>1 DEF PlayerConnect, PoolsOK
    <3>3. joins' \in [Slots -> Nat]
      BY <1>0, <1>1 DEF PlayerConnect, PoolsOK
    <3> QED BY <3>1, <3>2, <3>3 DEF PoolsOK
  <2>3. pending' \in Seq(Message)
    <3>1. Notify("connecting", s, joins[s] + 1) \in Message
      BY <1>0, <2>1, NotifyIs
    <3>2. pending' = Append(pending, Notify("connecting", s, joins[s] + 1)) /\ pending \in Seq(Message)
      BY <1>0, <1>1 DEF PlayerConnect, ListsOK
    <3> QED BY <3>1, <3>2, AppendedTo
  <2>4. ListsOK'
    BY <1>0, <1>1, <2>3 DEF PlayerConnect, ListsOK
  <2>5. FrameOK'
    BY <1>0, <1>1 DEF PlayerConnect, FrameOK
  <2> QED BY <2>2, <2>4, <2>5
<1>2. ASSUME NEW s \in Slots, Begin(s) PROVE PoolsOK' /\ ListsOK' /\ FrameOK'
  <2>1. joins[s] \in Nat /\ "connected" \in MessageTypes
    BY <1>0 DEF PoolsOK, MessageTypes
  <2>2. PoolsOK'
    <3>1. pool' \in [Slots -> Nat] /\ made' \in [Slots -> Nat]
      BY <1>0, <1>2, GetEntityIs DEF Begin
    <3> QED BY <1>0, <1>2, <3>1 DEF Begin, PoolsOK
  <2>3. pending' \in Seq(Message)
    <3>1. Notify("connected", s, joins[s]) \in Message
      BY <1>0, <2>1, NotifyIs
    <3>2. pending' = Append(pending, Notify("connected", s, joins[s])) /\ pending \in Seq(Message)
      BY <1>0, <1>2 DEF Begin, ListsOK
    <3> QED BY <3>1, <3>2, AppendedTo
  <2>4. ListsOK'
    BY <1>0, <1>2, <2>3 DEF Begin, ListsOK
  <2>5. FrameOK'
    BY <1>0, <1>2 DEF Begin, FrameOK
  <2> QED BY <2>2, <2>4, <2>5
<1>3. ASSUME NEW s \in Slots, PlayerDisconnect(s) PROVE PoolsOK' /\ ListsOK' /\ FrameOK'
  <2>1. PoolsOK'
    <3>1. pool' \in [Slots -> Nat] /\ made' \in [Slots -> Nat] /\ Entity(s) \in Object
      BY <1>0, <1>3, GetEntityIs DEF PlayerDisconnect
    <3> QED BY <1>0, <1>3, <3>1 DEF PlayerDisconnect, PoolsOK
  <2>2. players' \in Seq(Object)
    <3>1. OnPlayerDisconnect(s) /\ players \in Seq(Object)
      BY <1>0, <1>3 DEF PlayerDisconnect, ListsOK
    <3>2. \A k \in DOMAIN players : RemoveAt(players, k) \in Seq(Object)
      BY <3>1, WithoutOne
    <3> QED BY <3>1, <3>2, RemovedIs
  <2>3. ListsOK'
    BY <1>0, <1>3, <2>2 DEF PlayerDisconnect, ListsOK
  <2>4. FrameOK'
    BY <1>0, <1>3 DEF PlayerDisconnect, FrameOK
  <2> QED BY <2>1, <2>3, <2>4
<1>4. ASSUME NEW s \in Slots, Call(s) PROVE PoolsOK' /\ ListsOK' /\ FrameOK'
  <2>1. pool' \in [Slots -> Nat] /\ made' \in [Slots -> Nat]
    BY <1>0, <1>4, GetEntityIs DEF Call
  <2> QED BY <1>0, <1>4, <2>1 DEF Call, clients, script, PoolsOK, ListsOK, FrameOK
<1>5. CASE InitializeLevel
  <2>1. PoolsOK'
    <3>1. \A s \in Slots : Entity(s).nr \in Nat
      BY <1>0, GetEntityIs DEF PoolsOK
    <3> QED BY <1>0, <1>5, <3>1 DEF InitializeLevel, PoolsOK
  <2>2. pending' \in Seq(Message)
    BY <1>5, TellingAll
  <2>3. ListsOK'
    <3>1. <<>> \in Seq(Object)
      BY EmptySeq
    <3> QED BY <1>0, <1>5, <2>2, <3>1 DEF InitializeLevel, ListsOK
  <2>4. FrameOK'
    BY <1>0, <1>5 DEF InitializeLevel, FrameOK
  <2> QED BY <2>1, <2>3, <2>4
<1>6. CASE RunEntities
  BY <1>0, <1>6 DEF RunEntities, clients, script, PoolsOK, ListsOK, FrameOK
<1>7. CASE RunScripts
  <2>1. <<>> \in Seq(Message)
    BY EmptySeq
  <2> QED BY <1>0, <1>7, <2>1 DEF RunScripts, clients, pooled, PoolsOK, ListsOK, FrameOK
<1>8. CASE Dispatch
  <2>1. Head(batch) \in Message /\ Tail(batch) \in Seq(Message)
    BY <1>0, <1>8, WithoutHead DEF Dispatch, ListsOK
  <2>2. Head(batch).entity \in Object /\ Head(batch).player \in Nat
    BY <2>1 DEF Message
  <2>3. players' \in Seq(Object)
    <3>1. players' = players \/ players' = Append(players, Head(batch).entity)
      BY <1>8 DEF Dispatch, Connecting
    <3>2. players \in Seq(Object) /\ Append(players, Head(batch).entity) \in Seq(Object)
      BY <1>0, <2>2, AppendedTo DEF ListsOK
    <3> QED BY <3>1, <3>2
  <2>4. hooks' \subseteq [entity : Object, player : Nat, level : Nat]
    BY <1>0, <1>8, <2>2 DEF Dispatch, ListsOK, FrameOK
  <2>5. ListsOK'
    BY <1>0, <1>8, <2>1, <2>3, <2>4 DEF Dispatch, ListsOK
  <2>6. PoolsOK' /\ FrameOK'
    BY <1>0, <1>8 DEF Dispatch, clients, pooled, PoolsOK, FrameOK
  <2> QED BY <2>5, <2>6
<1>9. CASE FrameEnds
  BY <1>0, <1>9 DEF FrameEnds, clients, pooled, script, PoolsOK, ListsOK, FrameOK
<1>10. CASE UNCHANGED poolVars
  BY <1>0, <1>10 DEF poolVars, clients, pooled, script, PoolsOK, ListsOK, FrameOK
<1> QED
  BY <1>1, <1>2, <1>3, <1>4, <1>5, <1>6, <1>7, <1>8, <1>9, <1>10 DEF PoolNext

\* The pool, the script's lists and its handlers keep their types, for any
\* number of slots, players, objects and levels.
THEOREM PoolTypeCorrect == PoolSpec => []PoolTypeOK
  BY PoolInitTypeOK, PoolNextTypeOK, PTL DEF PoolSpec

-------------------------------------------------------------------------------
(* The entity pool: objects, messages and handlers belong to the players.    *)

\* A notification of this type about this slot is in the list.
Waits(q, type, s) == \E m \in ToSet(q) : m.type = type /\ m.entity.slot = s

\* Nobody's coming is told twice by the list.
OnceIn(q) ==
  \A i, j \in DOMAIN q :
    /\ q[i].type = "connecting" /\ q[j].type = "connecting"
    /\ q[i].entity.slot = q[j].entity.slot
    => i = j

\* An object in the pool is no younger than the last one made for the slot, and
\* those who disconnect with the frame are in the pool until it begins.
ObjectsMade ==
  /\ \A s \in Slots : pool[s] <= made[s] /\ (begun[s] => present[s])
  /\ \A e \in parting : e.nr = pool[e.slot]
  /\ pc # "scripts" => batch = <<>>

\* The notification is about who is in the slot, and names his object.
Fresh(m) ==
  LET s == m.entity.slot
  IN  s \in Slots /\ present[s] /\ m.entity.nr = pool[s] /\ m.player = joins[s]

\* What is still to be handed out is about players who are there.
MessagesFresh ==
  /\ \A m \in ToSet(pending) \cup ToSet(batch) : Fresh(m)
  /\ OnceIn(pending) /\ OnceIn(batch)
  /\ \A s \in Slots : ~(Waits(pending, "connecting", s) /\ Waits(batch, "connecting", s))

\* Whoever is there has an object in the pool that stays there.
ObjectsKept ==
  /\ \A e \in parting : ~present[e.slot]
  /\ \A s \in Slots : present[s] => pool[s] # 0

\* Handlers on the object of a slot are for its player, unless he has left and
\* his object goes with the next frame.
HooksFit ==
  \A h \in hooks : LET s == h.entity.slot IN
    /\ h.entity.nr <= made[s]
    /\ pool[s] = h.entity.nr => h.player = joins[s] /\ (present[s] \/ h.entity \in parting)

Settled == ~hasty => MessagesFresh /\ ObjectsKept /\ HooksFit

PoolInv == PoolTypeOK /\ ObjectsMade /\ Settled /\ PlayersMatch /\ HandlersHear

\* What is awaited is in one of the lists.
LEMMA WaitsJoined ==
  ASSUME NEW p \in Seq(Message), NEW q \in Seq(Message), NEW type, NEW s
  PROVE  (\E k \in DOMAIN (p \o q) : (p \o q)[k].type = type /\ (p \o q)[k].entity.slot = s)
           <=> Waits(p, type, s) \/ Waits(q, type, s)
<1>1. ToSet(p \o q) = ToSet(p) \cup ToSet(q)
  BY Joined
<1> DEFINE pq == p \o q
<1> HIDE DEF pq
<1>2. ToSet(pq) = ToSet(p) \cup ToSet(q)
  BY <1>1 DEF pq
<1>3. (\E k \in DOMAIN pq : pq[k].type = type /\ pq[k].entity.slot = s)
        <=> \E m \in ToSet(pq) : m.type = type /\ m.entity.slot = s
  BY DEF ToSet
<1>4. (\E k \in DOMAIN pq : pq[k].type = type /\ pq[k].entity.slot = s)
           <=> Waits(p, type, s) \/ Waits(q, type, s)
  BY <1>2, <1>3 DEF Waits
<1> QED
  BY <1>4 DEF pq

LEMMA AwaitedNow ==
  ASSUME PoolTypeOK, NEW type, NEW s
  PROVE  Awaited(type, s) <=> Waits(pending, type, s) \/ Waits(batch, type, s)
  BY WaitsJoined DEF PoolTypeOK, Awaited, Coming

LEMMA AwaitedThen ==
  ASSUME PoolTypeOK', NEW type, NEW s
  PROVE  Awaited(type, s)' <=> Waits(pending', type, s) \/ Waits(batch', type, s)
<1>1. pending' \in Seq(Message) /\ batch' \in Seq(Message)
  BY DEF PoolTypeOK
<1> QED
  BY <1>1, WaitsJoined DEF Awaited, Coming

\* A list with one more notification at its end.
LEMMA OneMore ==
  ASSUME NEW q \in Seq(Message), NEW m \in Message
  PROVE  /\ \A type, s : Waits(Append(q, m), type, s) <=> Waits(q, type, s) \/ (m.type = type /\ m.entity.slot = s)
         /\ OnceIn(q) /\ (m.type = "connecting" => ~Waits(q, "connecting", m.entity.slot)) => OnceIn(Append(q, m))
<1> DEFINE a == Append(q, m)
<1>1. /\ ToSet(a) = ToSet(q) \cup {m}
      /\ DOMAIN a = DOMAIN q \cup {Len(q) + 1} /\ Len(q) + 1 \notin DOMAIN q
      /\ a[Len(q) + 1] = m /\ \A k \in DOMAIN q : a[k] = q[k]
  BY AppendedTo
<1> HIDE DEF a
<1>2. \A type, s : Waits(a, type, s) <=> Waits(q, type, s) \/ (m.type = type /\ m.entity.slot = s)
  BY <1>1 DEF Waits
<1>3. ASSUME OnceIn(q), m.type = "connecting" => ~Waits(q, "connecting", m.entity.slot)
      PROVE  OnceIn(a)
  <2> SUFFICES ASSUME NEW i \in DOMAIN a, NEW j \in DOMAIN a,
                      a[i].type = "connecting", a[j].type = "connecting",
                      a[i].entity.slot = a[j].entity.slot
               PROVE  i = j
    BY DEF OnceIn
  <2>1. CASE i \in DOMAIN q /\ j \in DOMAIN q
    BY <1>1, <1>3, <2>1 DEF OnceIn
  <2>2. \A k \in DOMAIN q : m.type = "connecting" /\ q[k].type = "connecting" => q[k].entity.slot # m.entity.slot
    BY <1>3 DEF Waits, ToSet
  <2> QED BY <1>1, <2>1, <2>2
<1> QED
  BY <1>2, <1>3 DEF a

\* A list of which the first notification was taken.
LEMMA OneLess ==
  ASSUME NEW q \in Seq(Message), q # <<>>
  PROVE  /\ ToSet(Tail(q)) \subseteq ToSet(q) /\ Head(q) \in ToSet(q)
         /\ \A type, s : Waits(q, type, s) <=>
              Waits(Tail(q), type, s) \/ (Head(q).type = type /\ Head(q).entity.slot = s)
         /\ OnceIn(q) => OnceIn(Tail(q))
                         /\ (Head(q).type = "connecting" => ~Waits(Tail(q), "connecting", Head(q).entity.slot))
<1> DEFINE h == Head(q)
           t == Tail(q)
<1>1. /\ h = q[1] /\ 1 \in DOMAIN q /\ ToSet(q) = {h} \cup ToSet(t)
      /\ \A k \in DOMAIN t : k + 1 \in DOMAIN q /\ k + 1 # 1 /\ t[k] = q[k + 1]
      /\ DOMAIN t \subseteq Int
  BY WithoutHead, LenProperties
<1> HIDE DEF h, t
<1>2. \A type, s : Waits(q, type, s) <=> Waits(t, type, s) \/ (h.type = type /\ h.entity.slot = s)
  BY <1>1 DEF Waits
<1>3. ASSUME OnceIn(q) PROVE OnceIn(t)
  <2> SUFFICES ASSUME NEW i \in DOMAIN t, NEW j \in DOMAIN t,
                      t[i].type = "connecting", t[j].type = "connecting",
                      t[i].entity.slot = t[j].entity.slot
               PROVE  i = j
    BY DEF OnceIn
  <2>1. i + 1 = j + 1
    BY <1>1, <1>3 DEF OnceIn
  <2> QED BY <1>1, <2>1
<1>4. ASSUME OnceIn(q), h.type = "connecting" PROVE ~Waits(t, "connecting", h.entity.slot)
  <2> SUFFICES ASSUME NEW k \in DOMAIN t, t[k].type = "connecting", t[k].entity.slot = h.entity.slot
               PROVE  FALSE
    BY DEF Waits, ToSet
  <2>1. k + 1 = 1
    BY <1>1, <1>4 DEF OnceIn
  <2> QED BY <1>1, <2>1
<1> QED
  BY <1>1, <1>2, <1>3, <1>4 DEF h, t

\* Nothing is in an empty list.
LEMMA NothingIn == ToSet(<<>>) = {} /\ OnceIn(<<>>) /\ \A type, s : ~Waits(<<>>, type, s)
<1>1. DOMAIN <<>> = {}
  BY EmptySeq, LenProperties
<1>2. ToSet(<<>>) = {}
  BY <1>1 DEF ToSet
<1>3. OnceIn(<<>>)
  BY <1>1 DEF OnceIn
<1> QED
  BY <1>2, <1>3 DEF Waits

-------------------------------------------------------------------------------

LEMMA PoolInitInv == PoolInit => PoolInv
<1> SUFFICES ASSUME PoolInit PROVE PoolInv
  OBVIOUS
<1>1. PoolTypeOK
  BY PoolInitTypeOK
<1>2. ObjectsMade
  BY DEF PoolInit, ObjectsMade
<1>3. pending = <<>> /\ batch = <<>> /\ players = <<>> /\ parting = {} /\ hooks = {}
      /\ \A s \in Slots : present[s] = FALSE /\ begun[s] = FALSE
  BY DEF PoolInit
<1>4. Settled
  BY <1>3, NothingIn DEF Settled, MessagesFresh, ObjectsKept, HooksFit
<1>5. PlayersMatch
  <2>1. DOMAIN players = {}
    BY <1>3, EmptySeq, LenProperties
  <2> QED BY <1>3, <2>1 DEF PlayersMatch, Listed
<1>6. HandlersHear
  BY <1>3 DEF HandlersHear
<1> QED
  BY <1>1, <1>2, <1>4, <1>5, <1>6 DEF PoolInv

\* GetEntity leaves the objects of handlers and of those who disconnect alone.
LEMMA GetEntityMade ==
  ASSUME PoolTypeOK, ObjectsMade, NEW s \in Slots, GetEntity(s)
  PROVE  /\ \A t \in Slots : pool'[t] <= made'[t]
         /\ \A e \in parting : e.nr = pool'[e.slot] /\ (e.slot = s => e = Entity(s))
         /\ \A h \in hooks : h.entity.nr <= made[h.entity.slot] => h.entity.nr <= made'[h.entity.slot]
<1>1. PoolsOK /\ ListsOK
  BY PoolTypeParts
<1>2. /\ Entity(s).nr = IF pool[s] # 0 THEN pool[s] ELSE made[s] + 1
      /\ pool' \in [Slots -> Nat] /\ made' \in [Slots -> Nat]
      /\ pool'[s] = Entity(s).nr /\ made'[s] = IF pool[s] # 0 THEN made[s] ELSE made[s] + 1
      /\ \A t \in Slots \ {s} : pool'[t] = pool[t] /\ made'[t] = made[t]
      /\ Entity(s) \in Object /\ Entity(s).slot = s
  BY <1>1, GetEntityIs
<1>3. \A t \in Slots : pool[t] \in Nat /\ made[t] \in Nat /\ pool[t] <= made[t]
  BY <1>1 DEF PoolsOK, ObjectsMade
<1>4. ASSUME NEW t \in Slots PROVE pool'[t] <= made'[t]
  BY <1>2, <1>3
<1>5. ASSUME NEW e \in parting PROVE e.nr = pool'[e.slot] /\ (e.slot = s => e = Entity(s))
  <2>1. e \in Object /\ e.nr = pool[e.slot]
    BY <1>1 DEF PoolsOK, ObjectsMade
  <2>2. e.slot \in Slots /\ e.nr # 0
    BY <2>1 DEF Object
  <2>3. e.nr = pool'[e.slot]
    BY <1>2, <2>1, <2>2
  <2>4. e.slot = s => e.nr = Entity(s).nr /\ e.slot = Entity(s).slot
    BY <1>2, <2>1, <2>2
  <2> QED BY <1>2, <2>1, <2>3, <2>4 DEF Object
<1>6. ASSUME NEW h \in hooks, h.entity.nr <= made[h.entity.slot] PROVE h.entity.nr <= made'[h.entity.slot]
  <2>1. h.entity \in Object /\ h.entity.nr <= made[h.entity.slot]
    BY <1>1, <1>6 DEF ListsOK
  <2>2. h.entity.slot \in Slots /\ h.entity.nr \in Nat
    BY <2>1 DEF Object
  <2>3. made[h.entity.slot] <= made'[h.entity.slot]
    BY <1>2, <1>3, <2>2
  <2>4. made[h.entity.slot] \in Nat /\ made'[h.entity.slot] \in Nat
    BY <1>2, <1>3, <2>2
  <2> QED BY <2>1, <2>2, <2>3, <2>4
<1> QED
  BY <1>4, <1>5, <1>6

\* Every step keeps the numbers of objects in order.
LEMMA ObjectsStay ==
  ASSUME PoolTypeOK, ObjectsMade, [PoolNext]_poolVars
  PROVE  ObjectsMade'
<1>0. PoolsOK /\ ListsOK
  BY PoolTypeParts
<1>1. /\ \A s \in Slots : pool[s] <= made[s] /\ (begun[s] => present[s])
      /\ \A e \in parting : e.nr = pool[e.slot]
      /\ pc # "scripts" => batch = <<>>
  BY DEF ObjectsMade
<1>2. ASSUME NEW s \in Slots, PlayerConnect(s) PROVE ObjectsMade'
  <2>1. /\ \A t \in Slots : pool'[t] <= made'[t]
        /\ \A e \in parting : e.nr = pool'[e.slot]
    BY <1>2, GetEntityMade DEF PlayerConnect
  <2>2. \A t \in Slots : begun'[t] => present'[t]
    BY <1>0, <1>1, <1>2 DEF PlayerConnect, PoolsOK
  <2> QED BY <1>1, <1>2, <2>1, <2>2 DEF PlayerConnect, ObjectsMade
<1>3. ASSUME NEW s \in Slots, Begin(s) PROVE ObjectsMade'
  <2>1. /\ \A t \in Slots : pool'[t] <= made'[t]
        /\ \A e \in parting : e.nr = pool'[e.slot]
    BY <1>3, GetEntityMade DEF Begin
  <2>2. \A t \in Slots : begun'[t] => present'[t]
    BY <1>0, <1>1, <1>3 DEF Begin, PoolsOK
  <2> QED BY <1>1, <1>3, <2>1, <2>2 DEF Begin, ObjectsMade
<1>4. ASSUME NEW s \in Slots, PlayerDisconnect(s) PROVE ObjectsMade'
  <2>1. /\ \A t \in Slots : pool'[t] <= made'[t]
        /\ \A e \in parting : e.nr = pool'[e.slot]
    BY <1>4, GetEntityMade DEF PlayerDisconnect
  <2>2. \A t \in Slots : begun'[t] => present'[t]
    BY <1>0, <1>1, <1>4 DEF PlayerDisconnect, PoolsOK
  <2>3. Entity(s).nr = pool'[Entity(s).slot]
    BY <1>0, <1>4, GetEntityIs DEF PlayerDisconnect
  <2> QED BY <1>1, <1>4, <2>1, <2>2, <2>3 DEF PlayerDisconnect, ObjectsMade
<1>5. ASSUME NEW s \in Slots, Call(s) PROVE ObjectsMade'
  <2>1. /\ \A t \in Slots : pool'[t] <= made'[t]
        /\ \A e \in parting : e.nr = pool'[e.slot]
    BY <1>5, GetEntityMade DEF Call
  <2> QED BY <1>1, <1>5, <2>1 DEF Call, clients, script, ObjectsMade
<1>6. CASE InitializeLevel
  <2>1. ASSUME NEW s \in Slots
        PROVE  /\ pool'[s] <= made'[s] /\ made[s] <= made'[s] /\ (pool[s] # 0 => pool'[s] = pool[s])
               /\ made[s] \in Nat /\ made'[s] \in Nat
    <3>1. Entity(s).nr = (IF pool[s] # 0 THEN pool[s] ELSE made[s] + 1) /\ pool[s] \in Nat /\ made[s] \in Nat
      BY <1>0, GetEntityIs DEF PoolsOK
    <3>2. /\ pool'[s] = IF present[s] THEN Entity(s).nr ELSE pool[s]
          /\ made'[s] = IF present[s] /\ pool[s] = 0 THEN made[s] + 1 ELSE made[s]
      BY <1>6 DEF InitializeLevel
    <3> QED BY <1>1, <3>1, <3>2
  <2>2. \A e \in parting : e.nr = pool'[e.slot]
    <3>1. \A e \in parting : e.slot \in Slots /\ e.nr # 0
      BY <1>0 DEF PoolsOK, Object
    <3> QED BY <1>1, <2>1, <3>1
  <2> QED BY <1>1, <1>6, <2>1, <2>2 DEF InitializeLevel, ObjectsMade
<1>7. CASE RunEntities
  <2>1. \A s \in Slots : pool'[s] <= made[s]
    <3>1. \A s \in Slots : pool[s] \in Nat /\ made[s] \in Nat
      BY <1>0 DEF PoolsOK
    <3>2. \A s \in Slots : pool'[s] = 0 \/ pool'[s] = pool[s]
      BY <1>7 DEF RunEntities
    <3> QED BY <1>1, <3>1, <3>2
  <2> QED BY <1>1, <1>7, <2>1 DEF RunEntities, clients, script, ObjectsMade
<1>8. CASE RunScripts
  BY <1>1, <1>8 DEF RunScripts, clients, pooled, ObjectsMade
<1>9. CASE Dispatch
  BY <1>1, <1>9 DEF Dispatch, clients, pooled, ObjectsMade
<1>10. CASE FrameEnds
  BY <1>1, <1>10 DEF FrameEnds, clients, pooled, script, ObjectsMade
<1>11. CASE UNCHANGED poolVars
  BY <1>1, <1>11 DEF poolVars, clients, pooled, script, ObjectsMade
<1> QED
  BY <1>2, <1>3, <1>4, <1>5, <1>6, <1>7, <1>8, <1>9, <1>10, <1>11 DEF PoolNext

\* A script's list stays right when the same players are there and told of.
LEMMA PlayersStay ==
  ASSUME PoolTypeOK, PoolTypeOK', PlayersMatch, ~hasty, players' = players,
         \A s \in Slots :
           present'[s] /\ ~Waits(pending', "connecting", s) /\ ~Waits(batch', "connecting", s)
           <=> present[s] /\ ~Waits(pending, "connecting", s) /\ ~Waits(batch, "connecting", s)
  PROVE  PlayersMatch'
<1>1. /\ \A i, j \in DOMAIN players : players[i].slot = players[j].slot => i = j
      /\ Listed = {s \in Slots : present[s] /\ ~Awaited("connecting", s)}
  BY DEF PlayersMatch
<1>2. Listed' = Listed
  BY DEF Listed
<1>3. \A s \in Slots : present'[s] /\ ~Awaited("connecting", s)' <=> present[s] /\ ~Awaited("connecting", s)
  BY AwaitedNow, AwaitedThen
<1>4. Listed' = {s \in Slots : present'[s] /\ ~Awaited("connecting", s)'}
  BY <1>1, <1>2, <1>3
<1> QED
  BY <1>1, <1>4 DEF PlayersMatch

\* Handlers stay heard when nobody new has begun and the objects stay.
LEMMA HearingStays ==
  ASSUME PoolTypeOK, PoolTypeOK', HandlersHear, ~hasty, hooks \subseteq hooks', level' = level,
         \A s \in Slots :
           begun'[s] /\ ~Waits(pending', "connected", s) /\ ~Waits(batch', "connected", s)
           => /\ begun[s] /\ ~Waits(pending, "connected", s) /\ ~Waits(batch, "connected", s)
              /\ pool'[s] = pool[s] /\ joins'[s] = joins[s]
  PROVE  HandlersHear'
<1> SUFFICES ASSUME NEW s \in Slots, begun'[s], ~Awaited("connected", s)'
             PROVE  [entity |-> [slot |-> s, nr |-> pool'[s]], player |-> joins'[s], level |-> level'] \in hooks'
  BY DEF HandlersHear
<1>1. ~Waits(pending', "connected", s) /\ ~Waits(batch', "connected", s)
  BY AwaitedThen
<1>2. begun[s] /\ ~Awaited("connected", s) /\ pool'[s] = pool[s] /\ joins'[s] = joins[s]
  BY <1>1, AwaitedNow
<1>3. [entity |-> [slot |-> s, nr |-> pool[s]], player |-> joins[s], level |-> level] \in hooks
  BY <1>2 DEF HandlersHear
<1> QED
  BY <1>2, <1>3

\* What holds as long as no slot was left and taken between two frames.
LEMMA Calm ==
  ASSUME PoolInv, ~hasty
  PROVE  /\ PoolsOK /\ ListsOK /\ PlayersMatch /\ HandlersHear
         /\ MessagesFresh /\ ObjectsKept /\ HooksFit
  BY PoolTypeParts DEF PoolInv, Settled

\* A player connects: nothing in the lists, the pool or the handlers is his yet.
LEMMA ConnectCalm ==
  ASSUME PoolInv, PoolTypeOK', NEW s \in Slots, PlayerConnect(s), ~hasty'
  PROVE  MessagesFresh' /\ ObjectsKept' /\ HooksFit' /\ PlayersMatch' /\ HandlersHear'
<1> DEFINE m == Notify("connecting", s, joins[s] + 1)
<1>1. /\ ~hasty /\ Entity(s) \notin parting /\ ~present[s] /\ pc = "game"
      /\ GetEntity(s) /\ pending' = Append(pending, m)
      /\ UNCHANGED <<begun, parting, batch, players, hooks, level>>
  <2>1. hasty \in BOOLEAN /\ hasty' = (hasty \/ Entity(s) \in parting)
    BY PoolTypeParts DEF PlayerConnect, PoolInv, FrameOK
  <2>2. ~hasty /\ Entity(s) \notin parting
    BY <2>1
  <2> QED BY <2>2 DEF PlayerConnect
<1>2. /\ PoolsOK /\ ListsOK /\ PlayersMatch /\ HandlersHear
      /\ MessagesFresh /\ ObjectsKept /\ HooksFit
  BY <1>1, Calm
<1>3. PoolTypeOK /\ ObjectsMade
  BY DEF PoolInv
<1>4. /\ present' \in [Slots -> BOOLEAN] /\ present'[s] /\ \A t \in Slots \ {s} : present'[t] = present[t]
      /\ joins[s] + 1 \in Nat /\ joins'[s] = joins[s] + 1 /\ \A t \in Slots \ {s} : joins'[t] = joins[t]
  BY <1>2 DEF PlayerConnect, PoolsOK
<1>5. /\ Entity(s) \in Object /\ Entity(s).slot = s
      /\ Entity(s).nr = IF pool[s] # 0 THEN pool[s] ELSE made[s] + 1
      /\ pool'[s] = Entity(s).nr /\ made'[s] = IF pool[s] # 0 THEN made[s] ELSE made[s] + 1
      /\ \A t \in Slots \ {s} : pool'[t] = pool[t] /\ made'[t] = made[t]
  BY <1>1, <1>2, GetEntityIs
<1>6. m \in Message /\ m.type = "connecting" /\ m.player = joins[s] + 1 /\ m.entity = Entity(s)
  BY <1>2, <1>4, NotifyIs DEF MessageTypes
<1> HIDE DEF m
<1>7. batch = <<>> /\ batch' = <<>>
  BY <1>1, <1>3 DEF ObjectsMade
<1>8. \A n \in ToSet(pending) : Fresh(n) /\ n.entity.slot # s
  BY <1>1, <1>2 DEF MessagesFresh, Fresh
<1>9. /\ \A type, t : Waits(pending', type, t) <=> Waits(pending, type, t) \/ ("connecting" = type /\ s = t)
      /\ OnceIn(pending')
  <2>1. ~Waits(pending, "connecting", s)
    BY <1>8 DEF Waits
  <2>2. pending \in Seq(Message) /\ OnceIn(pending)
    BY <1>2 DEF ListsOK, MessagesFresh
  <2> QED BY <1>1, <1>5, <1>6, <2>1, <2>2, OneMore
<1>10. MessagesFresh'
  <2>1. ToSet(pending') = ToSet(pending) \cup {m}
    BY <1>1, <1>2, <1>6, AppendedTo DEF ListsOK
  <2>2. ASSUME NEW n \in ToSet(pending') PROVE Fresh(n)'
    <3>1. CASE n = m
      BY <1>4, <1>5, <1>6, <3>1 DEF Fresh
    <3>2. CASE n # m
      BY <1>4, <1>5, <1>8, <2>1, <2>2, <3>2 DEF Fresh
    <3> QED BY <3>1, <3>2
  <2>3. \A n \in ToSet(pending') \cup ToSet(batch') : Fresh(n)'
    BY <1>7, <2>2, NothingIn
  <2> QED BY <1>7, <1>9, <2>3, NothingIn DEF MessagesFresh
<1>11. ObjectsKept'
  <2>1. \A e \in parting : e \in Object /\ e.slot # s
    BY <1>1, <1>2, <1>3, GetEntityMade DEF PoolsOK
  <2>2. \A e \in parting' : ~present'[e.slot]
    BY <1>1, <1>2, <1>4, <2>1 DEF ObjectsKept, Object
  <2>3. pool'[s] # 0
    BY <1>5 DEF Object
  <2>4. \A t \in Slots : present'[t] => pool'[t] # 0
    BY <1>2, <1>4, <1>5, <2>3 DEF ObjectsKept
  <2> QED BY <2>2, <2>4 DEF ObjectsKept
<1>12. HooksFit'
  <2> SUFFICES ASSUME NEW h \in hooks
               PROVE  /\ h.entity.nr <= made'[h.entity.slot]
                      /\ pool'[h.entity.slot] = h.entity.nr =>
                           /\ h.player = joins'[h.entity.slot]
                           /\ present'[h.entity.slot] \/ h.entity \in parting
    BY <1>1 DEF HooksFit
  <2> DEFINE t == h.entity.slot
  <2>1. /\ h.entity \in Object /\ t \in Slots /\ h.entity.nr \in Nat \ {0}
        /\ h.entity.nr <= made[t]
        /\ pool[t] = h.entity.nr => h.player = joins[t] /\ (present[t] \/ h.entity \in parting)
    BY <1>2 DEF ListsOK, HooksFit, Object
  <2>2. h.entity.nr <= made'[t]
    BY <1>1, <1>3, <2>1, GetEntityMade
  <2>3. CASE t = s
    <3>1. pool[s] \in Nat /\ made[s] \in Nat
      BY <1>2 DEF PoolsOK
    <3>2. pool[s] # h.entity.nr
      <4>1. \A e \in parting : e.slot # s
        BY <1>1, <1>3, GetEntityMade
      <4> QED BY <1>1, <2>1, <2>3, <4>1
    <3>3. pool'[s] # h.entity.nr
      BY <1>5, <2>1, <2>3, <3>1, <3>2
    <3> QED BY <2>2, <2>3, <3>3
  <2>4. CASE t # s
    BY <1>4, <1>5, <2>1, <2>2, <2>4
  <2> QED BY <2>3, <2>4
<1>13. PlayersMatch'
  <2>1. \A t \in Slots :
           present'[t] /\ ~Waits(pending', "connecting", t) /\ ~Waits(batch', "connecting", t)
           <=> present[t] /\ ~Waits(pending, "connecting", t) /\ ~Waits(batch, "connecting", t)
    BY <1>1, <1>4, <1>7, <1>9
  <2> QED BY <1>1, <1>2, <1>3, <2>1, PlayersStay
<1>14. HandlersHear'
  <2>1. ~begun[s]
    BY <1>1, <1>3 DEF ObjectsMade
  <2>2. \A t \in Slots :
           begun'[t] /\ ~Waits(pending', "connected", t) /\ ~Waits(batch', "connected", t)
           => /\ begun[t] /\ ~Waits(pending, "connected", t) /\ ~Waits(batch, "connected", t)
              /\ pool'[t] = pool[t] /\ joins'[t] = joins[t]
    BY <1>1, <1>4, <1>5, <1>7, <1>9, <2>1
  <2>3. hooks \subseteq hooks' /\ level' = level
    BY <1>1
  <2> QED BY <1>1, <1>2, <1>3, <2>2, <2>3, HearingStays
<1> QED
  BY <1>10, <1>11, <1>12, <1>13, <1>14

\* A player begins: he has an object, and it stays.
LEMMA BeginCalm ==
  ASSUME PoolInv, PoolTypeOK', NEW s \in Slots, Begin(s), ~hasty'
  PROVE  MessagesFresh' /\ ObjectsKept' /\ HooksFit' /\ PlayersMatch' /\ HandlersHear'
<1> DEFINE m == Notify("connected", s, joins[s])
<1>1. /\ ~hasty /\ present[s] /\ pc = "game"
      /\ GetEntity(s) /\ pending' = Append(pending, m)
      /\ UNCHANGED <<present, joins, parting, batch, players, hooks, level>>
  BY DEF Begin
<1>2. /\ PoolsOK /\ ListsOK /\ PlayersMatch /\ HandlersHear
      /\ MessagesFresh /\ ObjectsKept /\ HooksFit
  BY <1>1, Calm
<1>3. PoolTypeOK /\ ObjectsMade
  BY DEF PoolInv
<1>4. \A t \in Slots \ {s} : begun'[t] = begun[t]
  BY <1>2 DEF Begin, PoolsOK
<1>5. /\ Entity(s) \in Object /\ Entity(s).slot = s /\ Entity(s).nr = pool[s] /\ pool[s] # 0
      /\ \A t \in Slots : pool'[t] = pool[t] /\ made'[t] = made[t]
  BY <1>1, <1>2, GetEntityIs DEF ObjectsKept
<1>6. m \in Message /\ m.type = "connected" /\ m.player = joins[s] /\ m.entity = Entity(s)
  BY <1>2, NotifyIs DEF MessageTypes, PoolsOK
<1> HIDE DEF m
<1>7. /\ \A type, t : Waits(pending', type, t) <=> Waits(pending, type, t) \/ ("connected" = type /\ s = t)
      /\ OnceIn(pending')
  <2>1. pending \in Seq(Message) /\ OnceIn(pending)
    BY <1>2 DEF ListsOK, MessagesFresh
  <2> QED BY <1>1, <1>5, <1>6, <2>1, OneMore
<1>8. MessagesFresh'
  <2>1. ToSet(pending') = ToSet(pending) \cup {m}
    BY <1>1, <1>2, <1>6, AppendedTo DEF ListsOK
  <2>2. Fresh(m)
    BY <1>1, <1>5, <1>6 DEF Fresh
  <2>3. \A n \in ToSet(pending') \cup ToSet(batch') : Fresh(n)
    BY <1>1, <1>2, <2>1, <2>2 DEF MessagesFresh
  <2>4. \A n \in ToSet(pending') \cup ToSet(batch') : Fresh(n)'
    BY <1>1, <1>5, <2>3 DEF Fresh
  <2> QED BY <1>1, <1>2, <1>7, <2>4 DEF MessagesFresh
<1>9. ObjectsKept'
  BY <1>1, <1>2, <1>5 DEF ObjectsKept
<1>10. HooksFit'
  <2>1. \A h \in hooks : h.entity.slot \in Slots
    BY <1>2 DEF ListsOK, Object
  <2> QED BY <1>1, <1>2, <1>5, <2>1 DEF HooksFit
<1>11. PlayersMatch'
  <2>1. \A t \in Slots :
           present'[t] /\ ~Waits(pending', "connecting", t) /\ ~Waits(batch', "connecting", t)
           <=> present[t] /\ ~Waits(pending, "connecting", t) /\ ~Waits(batch, "connecting", t)
    BY <1>1, <1>7
  <2> QED BY <1>1, <1>2, <1>3, <2>1, PlayersStay
<1>12. HandlersHear'
  <2>1. \A t \in Slots :
           begun'[t] /\ ~Waits(pending', "connected", t) /\ ~Waits(batch', "connected", t)
           => /\ begun[t] /\ ~Waits(pending, "connected", t) /\ ~Waits(batch, "connected", t)
              /\ pool'[t] = pool[t] /\ joins'[t] = joins[t]
    BY <1>1, <1>4, <1>5, <1>7
  <2>2. hooks \subseteq hooks' /\ level' = level
    BY <1>1
  <2> QED BY <1>1, <1>2, <1>3, <2>1, <2>2, HearingStays
<1> QED
  BY <1>8, <1>9, <1>10, <1>11, <1>12

\* A call from a free slot makes an object that nothing refers to yet.
LEMMA CallCalm ==
  ASSUME PoolInv, PoolTypeOK', NEW s \in Slots, Call(s), ~hasty'
  PROVE  MessagesFresh' /\ ObjectsKept' /\ HooksFit' /\ PlayersMatch' /\ HandlersHear'
<1>1. /\ ~hasty /\ pool[s] = 0 /\ GetEntity(s)
      /\ UNCHANGED <<present, begun, joins, pending, batch, players, hooks, parting, level>>
  BY DEF Call, clients, script
<1>2. /\ PoolsOK /\ ListsOK /\ PlayersMatch /\ HandlersHear
      /\ MessagesFresh /\ ObjectsKept /\ HooksFit
  BY <1>1, Calm
<1>3. PoolTypeOK /\ ObjectsMade
  BY DEF PoolInv
<1>4. ~present[s] /\ ~begun[s]
  BY <1>1, <1>2, <1>3 DEF ObjectsKept, ObjectsMade
<1>5. /\ pool'[s] = made[s] + 1 /\ made[s] \in Nat
      /\ \A t \in Slots \ {s} : pool'[t] = pool[t] /\ made'[t] = made[t]
  BY <1>1, <1>2, GetEntityIs DEF PoolsOK
<1>6. MessagesFresh'
  <2>1. \A n \in ToSet(pending') \cup ToSet(batch') : Fresh(n)'
    BY <1>1, <1>2, <1>4, <1>5 DEF MessagesFresh, Fresh
  <2> QED BY <1>1, <1>2, <2>1 DEF MessagesFresh
<1>7. ObjectsKept'
  BY <1>1, <1>2, <1>4, <1>5 DEF ObjectsKept
<1>8. HooksFit'
  <2> SUFFICES ASSUME NEW h \in hooks
               PROVE  /\ h.entity.nr <= made'[h.entity.slot]
                      /\ pool'[h.entity.slot] = h.entity.nr =>
                           /\ h.player = joins[h.entity.slot]
                           /\ present[h.entity.slot] \/ h.entity \in parting
    BY <1>1 DEF HooksFit
  <2> DEFINE t == h.entity.slot
  <2>1. /\ t \in Slots /\ h.entity.nr \in Nat /\ h.entity.nr <= made[t]
        /\ pool[t] = h.entity.nr => h.player = joins[t] /\ (present[t] \/ h.entity \in parting)
    BY <1>2 DEF ListsOK, HooksFit, Object
  <2>2. h.entity.nr <= made'[t]
    BY <1>1, <1>3, <2>1, GetEntityMade
  <2>3. t = s => pool'[t] # h.entity.nr
    BY <1>5, <2>1
  <2> QED BY <1>5, <2>1, <2>2, <2>3
<1>9. PlayersMatch'
  BY <1>1, <1>2, <1>3, PlayersStay
<1>10. HandlersHear'
  <2>1. \A t \in Slots :
           begun'[t] /\ ~Waits(pending', "connected", t) /\ ~Waits(batch', "connected", t)
           => /\ begun[t] /\ ~Waits(pending, "connected", t) /\ ~Waits(batch, "connected", t)
              /\ pool'[t] = pool[t] /\ joins'[t] = joins[t]
    BY <1>1, <1>4, <1>5
  <2>2. hooks \subseteq hooks' /\ level' = level
    BY <1>1
  <2> QED BY <1>1, <1>2, <1>3, <2>1, <2>2, HearingStays
<1> QED
  BY <1>6, <1>7, <1>8, <1>9, <1>10

\* A player leaves of whom the script has heard all: he goes from its list, and
\* his object goes with the next frame.
LEMMA DisconnectCalm ==
  ASSUME PoolInv, PoolTypeOK', NEW s \in Slots, PlayerDisconnect(s), ~hasty'
  PROVE  MessagesFresh' /\ ObjectsKept' /\ HooksFit' /\ PlayersMatch' /\ HandlersHear'
<1>1. /\ ~hasty /\ present[s] /\ \A type \in MessageTypes : ~Awaited(type, s)
      /\ GetEntity(s) /\ parting' = parting \cup {Entity(s)} /\ OnPlayerDisconnect(s)
      /\ UNCHANGED <<joins, pending, batch, hooks, level>>
  <2>1. hasty \in BOOLEAN /\ hasty' = (hasty \/ \E type \in MessageTypes : Awaited(type, s))
    BY PoolTypeParts DEF PlayerDisconnect, PoolInv, FrameOK
  <2>2. ~hasty /\ ~\E type \in MessageTypes : Awaited(type, s)
    BY <2>1
  <2> QED BY <2>2 DEF PlayerDisconnect
<1>2. /\ PoolsOK /\ ListsOK /\ PlayersMatch /\ HandlersHear
      /\ MessagesFresh /\ ObjectsKept /\ HooksFit
  BY <1>1, Calm
<1>3. PoolTypeOK /\ ObjectsMade
  BY DEF PoolInv
<1>4. /\ ~present'[s] /\ ~begun'[s]
      /\ \A t \in Slots \ {s} : present'[t] = present[t] /\ begun'[t] = begun[t]
  BY <1>2 DEF PlayerDisconnect, PoolsOK
<1>5. /\ Entity(s) \in Object /\ Entity(s).slot = s /\ Entity(s).nr = pool[s] /\ pool[s] # 0
      /\ \A t \in Slots : pool'[t] = pool[t] /\ made'[t] = made[t]
  BY <1>1, <1>2, GetEntityIs DEF ObjectsKept
<1>6. \A m \in ToSet(pending) \cup ToSet(batch) : m.entity.slot # s
  <2>1. \A m \in ToSet(pending) \cup ToSet(batch) : m \in Message
    BY <1>2 DEF ListsOK, ToSet
  <2>2. \A m \in ToSet(pending) \cup ToSet(batch) : m.entity.slot = s => Awaited(m.type, s)
    BY <1>3, AwaitedNow DEF Waits
  <2> QED BY <1>1, <2>1, <2>2 DEF Message
<1>7. MessagesFresh'
  <2>1. \A n \in ToSet(pending') \cup ToSet(batch') : Fresh(n)'
    BY <1>1, <1>2, <1>4, <1>5, <1>6 DEF MessagesFresh, Fresh
  <2> QED BY <1>1, <1>2, <2>1 DEF MessagesFresh
<1>8. ObjectsKept'
  <2>1. \A e \in parting : e.slot \in Slots
    BY <1>2 DEF PoolsOK, Object
  <2> QED BY <1>1, <1>2, <1>4, <1>5, <2>1 DEF ObjectsKept
<1>9. HooksFit'
  <2> SUFFICES ASSUME NEW h \in hooks
               PROVE  /\ h.entity.nr <= made'[h.entity.slot]
                      /\ pool'[h.entity.slot] = h.entity.nr =>
                           /\ h.player = joins[h.entity.slot]
                           /\ present'[h.entity.slot] \/ h.entity \in parting'
    BY <1>1 DEF HooksFit
  <2> DEFINE t == h.entity.slot
  <2>1. /\ h.entity \in Object /\ t \in Slots /\ h.entity.nr <= made[t]
        /\ pool[t] = h.entity.nr => h.player = joins[t] /\ (present[t] \/ h.entity \in parting)
    BY <1>2 DEF ListsOK, HooksFit, Object
  <2>2. t = s /\ pool[t] = h.entity.nr => h.entity = Entity(s)
    BY <1>5, <2>1 DEF Object
  <2> QED BY <1>1, <1>4, <1>5, <2>1, <2>2
<1>10. PlayersMatch'
  <2>1. /\ players \in Seq(Object)
        /\ \A i, j \in DOMAIN players : players[i].slot = players[j].slot => i = j
        /\ Listed = {t \in Slots : present[t] /\ ~Awaited("connecting", t)}
    BY <1>1, <1>2 DEF PlayersMatch, ListsOK
  <2>2. PICK k \in DOMAIN players : players[k].slot = s
    BY <1>1, <2>1 DEF Listed, MessageTypes
  <2>3. players' = RemoveAt(players, k)
    <3>1. PICK n \in DOMAIN players : players[n].slot = s /\ players' = RemoveAt(players, n)
      BY <1>1, <1>3, <2>2, RemovedIs
    <3> QED BY <2>1, <2>2, <3>1
  <2>4. /\ \A i \in DOMAIN players' :
             LET j == IF i < k THEN i ELSE i + 1
             IN  j \in DOMAIN players /\ j # k /\ players'[i] = players[j]
        /\ \A j \in DOMAIN players \ {k} : \E i \in DOMAIN players' : players'[i] = players[j]
    BY <2>1, <2>3, WithoutOne
  <2>5. \A i, j \in DOMAIN players' : players'[i].slot = players'[j].slot => i = j
    <3> SUFFICES ASSUME NEW i \in DOMAIN players', NEW j \in DOMAIN players',
                        players'[i].slot = players'[j].slot
                 PROVE  i = j
      OBVIOUS
    <3>1. (IF i < k THEN i ELSE i + 1) = (IF j < k THEN j ELSE j + 1)
      BY <2>1, <2>4
    <3>2. i \in Int /\ j \in Int /\ k \in Int
      <4>1. players' \in Seq(Object)
        BY DEF PoolTypeOK
      <4> QED BY <2>1, <4>1, LenProperties
    <3> QED BY <3>1, <3>2
  <2>6. Listed' = Listed \ {s}
    <3>1. \A i \in DOMAIN players' : players'[i].slot \in Listed \ {s}
      BY <2>1, <2>2, <2>4 DEF Listed
    <3>2. \A t \in Listed \ {s} : \E i \in DOMAIN players' : players'[i].slot = t
      BY <2>2, <2>4 DEF Listed
    <3> QED BY <3>1, <3>2 DEF Listed
  <2>7. \A t \in Slots : Awaited("connecting", t)' <=> Awaited("connecting", t)
    BY <1>1, <1>3, AwaitedNow, AwaitedThen
  <2>8. Listed' = {t \in Slots : present'[t] /\ ~Awaited("connecting", t)'}
    BY <1>4, <2>1, <2>6, <2>7
  <2> QED BY <2>5, <2>8 DEF PlayersMatch
<1>11. HandlersHear'
  <2>1. \A t \in Slots :
           begun'[t] /\ ~Waits(pending', "connected", t) /\ ~Waits(batch', "connected", t)
           => /\ begun[t] /\ ~Waits(pending, "connected", t) /\ ~Waits(batch, "connected", t)
              /\ pool'[t] = pool[t] /\ joins'[t] = joins[t]
    BY <1>1, <1>4, <1>5
  <2>2. hooks \subseteq hooks' /\ level' = level
    BY <1>1
  <2> QED BY <1>1, <1>2, <1>3, <2>1, <2>2, HearingStays
<1> QED
  BY <1>7, <1>8, <1>9, <1>10, <1>11

\* A new level: everybody who is there is told of anew, nobody has begun.
LEMMA LevelCalm ==
  ASSUME PoolInv, PoolTypeOK', InitializeLevel, ~hasty'
  PROVE  MessagesFresh' /\ ObjectsKept' /\ HooksFit' /\ PlayersMatch' /\ HandlersHear'
<1>1. /\ ~hasty /\ pc = "game" /\ players' = <<>>
      /\ \A s \in Slots : begun'[s] = FALSE
      /\ UNCHANGED <<present, joins, parting, batch, hooks>>
  BY DEF InitializeLevel
<1>2. /\ PoolsOK /\ ListsOK /\ MessagesFresh /\ ObjectsKept /\ HooksFit
  BY <1>1, Calm
<1>3. PoolTypeOK /\ ObjectsMade
  BY DEF PoolInv
<1>4. batch = <<>>
  BY <1>1, <1>3 DEF ObjectsMade
<1>5. ASSUME NEW s \in Slots PROVE pool'[s] = pool[s] /\ made'[s] = made[s]
  <2>1. present[s] => pool[s] # 0 /\ Entity(s).nr = pool[s]
    BY <1>2, GetEntityIs DEF ObjectsKept
  <2>2. /\ pool'[s] = IF present[s] THEN Entity(s).nr ELSE pool[s]
        /\ made'[s] = IF present[s] /\ pool[s] = 0 THEN made[s] + 1 ELSE made[s]
    BY DEF InitializeLevel
  <2> QED BY <2>1, <2>2
<1>6. /\ pending' \in Seq(Message)
      /\ \A m \in ToSet(pending') :
           LET s == m.entity.slot IN present[s] /\ m = Notify("connecting", s, joins[s])
      /\ \A s \in Slots : present[s] => Notify("connecting", s, joins[s]) \in ToSet(pending')
      /\ \A i, j \in DOMAIN pending' : pending'[i].entity.slot = pending'[j].entity.slot => i = j
  BY <1>3, TellingAll
<1>7. ASSUME NEW s \in Slots
      PROVE  /\ Notify("connecting", s, joins[s]).type = "connecting"
             /\ Notify("connecting", s, joins[s]).player = joins[s]
             /\ Notify("connecting", s, joins[s]).entity = Entity(s)
             /\ Entity(s).slot = s /\ (pool[s] # 0 => Entity(s).nr = pool[s])
  BY <1>2, NotifyIs, GetEntityIs DEF PoolsOK, MessageTypes
<1>8. MessagesFresh'
  <2>1. ASSUME NEW m \in ToSet(pending') PROVE Fresh(m)'
    <3> DEFINE s == m.entity.slot
    <3>1. m \in Message
      BY <1>6 DEF ToSet
    <3>2. s \in Slots /\ present[s] /\ m = Notify("connecting", s, joins[s])
      BY <1>6, <3>1 DEF Message, Object
    <3> HIDE DEF s
    <3>3. m.player = joins[s] /\ m.entity = Entity(s) /\ Entity(s).slot = s /\ Entity(s).nr = pool[s]
      BY <1>2, <1>7, <3>2 DEF ObjectsKept
    <3>4. m.entity.slot = s
      BY DEF s
    <3> QED BY <1>1, <1>5, <3>2, <3>3, <3>4 DEF Fresh
  <2>2. \A m \in ToSet(pending') \cup ToSet(batch') : Fresh(m)'
    BY <1>1, <1>4, <2>1, NothingIn
  <2>3. OnceIn(pending')
    BY <1>6 DEF OnceIn
  <2> QED BY <1>1, <1>4, <2>2, <2>3, NothingIn DEF MessagesFresh
<1>9. ObjectsKept'
  BY <1>1, <1>2, <1>5 DEF ObjectsKept
<1>10. HooksFit'
  <2>1. \A h \in hooks : h.entity.slot \in Slots
    BY <1>2 DEF ListsOK, Object
  <2> QED BY <1>1, <1>2, <1>5, <2>1 DEF HooksFit
<1>11. PlayersMatch'
  <2>1. DOMAIN players' = {} /\ Listed' = {}
    BY <1>1, EmptySeq, LenProperties DEF Listed
  <2>2. \A s \in Slots : present[s] => Awaited("connecting", s)'
    <3> SUFFICES ASSUME NEW s \in Slots, present[s] PROVE Waits(pending', "connecting", s)
      BY AwaitedThen
    <3> QED BY <1>6, <1>7 DEF Waits
  <2> QED BY <1>1, <2>1, <2>2 DEF PlayersMatch
<1>12. HandlersHear'
  BY <1>1 DEF HandlersHear
<1> QED
  BY <1>8, <1>9, <1>10, <1>11, <1>12

\* The objects of those who left go; all others stay.
LEMMA EntitiesCalm ==
  ASSUME PoolInv, PoolTypeOK', RunEntities, ~hasty'
  PROVE  MessagesFresh' /\ ObjectsKept' /\ HooksFit' /\ PlayersMatch' /\ HandlersHear'
<1>1. /\ ~hasty /\ parting' = {}
      /\ \A s \in Slots : pool'[s] = IF Entity(s) \in parting THEN 0 ELSE pool[s]
      /\ UNCHANGED <<present, begun, joins, made, pending, batch, players, hooks, level>>
  BY DEF RunEntities, clients, script
<1>2. /\ PoolsOK /\ ListsOK /\ PlayersMatch /\ HandlersHear
      /\ MessagesFresh /\ ObjectsKept /\ HooksFit
  BY <1>1, Calm
<1>3. PoolTypeOK /\ ObjectsMade
  BY DEF PoolInv
<1>4. \A s \in Slots : present[s] => pool'[s] = pool[s]
  <2>1. \A s \in Slots : Entity(s).slot = s
    BY <1>2, GetEntityIs
  <2> QED BY <1>1, <1>2, <2>1 DEF ObjectsKept
<1>5. MessagesFresh'
  <2>1. \A n \in ToSet(pending') \cup ToSet(batch') : Fresh(n)'
    BY <1>1, <1>2, <1>4 DEF MessagesFresh, Fresh
  <2> QED BY <1>1, <1>2, <2>1 DEF MessagesFresh
<1>6. ObjectsKept'
  BY <1>1, <1>2, <1>4 DEF ObjectsKept
<1>7. HooksFit'
  <2> SUFFICES ASSUME NEW h \in hooks
               PROVE  /\ h.entity.nr <= made[h.entity.slot]
                      /\ pool'[h.entity.slot] = h.entity.nr =>
                           /\ h.player = joins[h.entity.slot]
                           /\ present[h.entity.slot] \/ h.entity \in parting'
    BY <1>1 DEF HooksFit
  <2> DEFINE t == h.entity.slot
  <2>1. /\ h.entity \in Object /\ t \in Slots /\ h.entity.nr # 0 /\ h.entity.nr <= made[t]
        /\ pool[t] = h.entity.nr => h.player = joins[t] /\ (present[t] \/ h.entity \in parting)
    BY <1>2 DEF ListsOK, HooksFit, Object
  <2>2. ASSUME pool'[t] = h.entity.nr PROVE h.player = joins[t] /\ present[t]
    <3>1. pool[t] = h.entity.nr /\ Entity(t) \notin parting
      BY <1>1, <2>1, <2>2
    <3>2. Entity(t) \in Object /\ Entity(t).slot = t /\ Entity(t).nr = h.entity.nr
      BY <1>2, <2>1, <3>1, GetEntityIs
    <3>3. h.entity = Entity(t)
      BY <2>1, <3>2 DEF Object
    <3> QED BY <2>1, <3>1, <3>3
  <2> QED BY <2>1, <2>2
<1>8. PlayersMatch'
  BY <1>1, <1>2, <1>3, PlayersStay
<1>9. HandlersHear'
  <2>1. \A t \in Slots :
           begun'[t] /\ ~Waits(pending', "connected", t) /\ ~Waits(batch', "connected", t)
           => /\ begun[t] /\ ~Waits(pending, "connected", t) /\ ~Waits(batch, "connected", t)
              /\ pool'[t] = pool[t] /\ joins'[t] = joins[t]
    BY <1>1, <1>3, <1>4 DEF ObjectsMade
  <2>2. hooks \subseteq hooks' /\ level' = level
    BY <1>1
  <2> QED BY <1>1, <1>2, <1>3, <2>1, <2>2, HearingStays
<1> QED
  BY <1>5, <1>6, <1>7, <1>8, <1>9

\* The script takes over what is pending.
LEMMA ScriptsCalm ==
  ASSUME PoolInv, PoolTypeOK', RunScripts, ~hasty'
  PROVE  MessagesFresh' /\ ObjectsKept' /\ HooksFit' /\ PlayersMatch' /\ HandlersHear'
<1>1. /\ ~hasty /\ pc = "entities" /\ batch' = pending /\ pending' = <<>>
      /\ UNCHANGED <<present, begun, joins, pool, made, parting, players, hooks, level>>
  BY DEF RunScripts, clients, pooled
<1>2. /\ PoolsOK /\ ListsOK /\ PlayersMatch /\ HandlersHear
      /\ MessagesFresh /\ ObjectsKept /\ HooksFit
  BY <1>1, Calm
<1>3. PoolTypeOK /\ ObjectsMade
  BY DEF PoolInv
<1>4. batch = <<>>
  BY <1>1, <1>3 DEF ObjectsMade
<1>5. \A type, s : Waits(pending', type, s) \/ Waits(batch', type, s)
                   <=> Waits(pending, type, s) \/ Waits(batch, type, s)
  BY <1>1, <1>4, NothingIn
<1>6. MessagesFresh'
  <2>1. \A n \in ToSet(pending') \cup ToSet(batch') : Fresh(n)'
    BY <1>1, <1>2, NothingIn DEF MessagesFresh, Fresh
  <2> QED BY <1>1, <1>2, <2>1, NothingIn DEF MessagesFresh
<1>7. ObjectsKept' /\ HooksFit'
  BY <1>1, <1>2 DEF ObjectsKept, HooksFit
<1>8. PlayersMatch'
  BY <1>1, <1>2, <1>3, <1>5, PlayersStay
<1>9. HandlersHear'
  <2>1. hooks \subseteq hooks' /\ level' = level
    BY <1>1
  <2> QED BY <1>1, <1>2, <1>3, <1>5, <2>1, HearingStays
<1> QED
  BY <1>6, <1>7, <1>8, <1>9

\* The script hears of a player who is still there: he comes into its list, or
\* gets its handlers on the object he has.
LEMMA DispatchCalm ==
  ASSUME PoolInv, PoolTypeOK', Dispatch, ~hasty'
  PROVE  MessagesFresh' /\ ObjectsKept' /\ HooksFit' /\ PlayersMatch' /\ HandlersHear'
<1> DEFINE n == Head(batch)
           s == n.entity.slot
           hook == [entity |-> n.entity, player |-> n.player, level |-> level]
<1>1. /\ ~hasty /\ batch # <<>> /\ batch' = Tail(batch)
      /\ UNCHANGED <<present, begun, joins, pool, made, parting, pending, level>>
      /\ IF n.type = "connecting" THEN players' = Append(players, n.entity) /\ hooks' = hooks
                                  ELSE players' = players /\ hooks' = hooks \cup {hook}
  BY DEF Dispatch, clients, pooled, Connecting
<1>2. /\ PoolsOK /\ ListsOK /\ PlayersMatch /\ HandlersHear
      /\ MessagesFresh /\ ObjectsKept /\ HooksFit
  BY <1>1, Calm
<1>3. PoolTypeOK /\ ObjectsMade
  BY DEF PoolInv
<1>4. /\ ToSet(batch') \subseteq ToSet(batch) /\ n \in ToSet(batch)
      /\ \A type, t : Waits(batch, type, t) <=> Waits(batch', type, t) \/ (n.type = type /\ s = t)
      /\ OnceIn(batch') /\ (n.type = "connecting" => ~Waits(batch', "connecting", s))
  BY <1>1, <1>2, OneLess DEF ListsOK, MessagesFresh
<1>5. n \in Message /\ n.entity \in Object /\ n.player \in Nat /\ n.type \in MessageTypes
  <2>1. n \in Message
    BY <1>1, <1>2, WithoutHead DEF ListsOK
  <2> HIDE DEF n
  <2> QED BY <2>1 DEF Message
<1>6. s \in Slots /\ present[s] /\ n.entity.nr = pool[s] /\ n.player = joins[s]
  BY <1>2, <1>4 DEF MessagesFresh, Fresh
<1>7. n.entity = [slot |-> s, nr |-> pool[s]]
  <2> HIDE DEF n
  <2> QED BY <1>5, <1>6 DEF Object
<1> HIDE DEF n, s
<1>8. MessagesFresh'
  <2>1. \A m \in ToSet(pending') \cup ToSet(batch') : Fresh(m)'
    BY <1>1, <1>2, <1>4 DEF MessagesFresh, Fresh
  <2> QED BY <1>1, <1>2, <1>4, <2>1 DEF MessagesFresh
<1>9. ObjectsKept'
  BY <1>1, <1>2 DEF ObjectsKept
<1>10. HooksFit'
  <2>1. ASSUME NEW h \in hooks'
        PROVE  /\ h.entity.nr <= made[h.entity.slot]
               /\ pool[h.entity.slot] = h.entity.nr =>
                    /\ h.player = joins[h.entity.slot]
                    /\ present[h.entity.slot] \/ h.entity \in parting
    <3>1. CASE h \in hooks
      BY <1>2, <3>1 DEF HooksFit
    <3>2. CASE h = hook
      <4>1. h.entity.slot = s /\ h.entity.nr = pool[s] /\ h.player = joins[s]
        BY <1>6, <1>7, <3>2
      <4>2. pool[s] <= made[s]
        BY <1>3, <1>6 DEF ObjectsMade
      <4> QED BY <1>6, <4>1, <4>2
    <3> QED BY <1>1, <2>1, <3>1, <3>2
  <2> QED BY <1>1, <2>1 DEF HooksFit
<1>11. PlayersMatch'
  <2>1. CASE n.type = "connecting"
    <3>1. /\ players \in Seq(Object) /\ players' = Append(players, n.entity)
          /\ \A i, j \in DOMAIN players : players[i].slot = players[j].slot => i = j
          /\ Listed = {t \in Slots : present[t] /\ ~Awaited("connecting", t)}
      BY <1>1, <1>2, <2>1 DEF PlayersMatch, ListsOK
    <3>2. /\ DOMAIN players' = DOMAIN players \cup {Len(players) + 1} /\ Len(players) + 1 \notin DOMAIN players
          /\ players'[Len(players) + 1] = n.entity /\ \A k \in DOMAIN players : players'[k] = players[k]
      BY <1>5, <3>1, AppendedTo
    <3>3. s \notin Listed
      BY <1>3, <1>4, <2>1, <3>1, AwaitedNow
    <3>4. n.entity.slot = s
      BY <1>7
    <3>5. Listed' = Listed \cup {s}
      BY <3>2, <3>4 DEF Listed
    <3>6. \A i, j \in DOMAIN players' : players'[i].slot = players'[j].slot => i = j
      BY <3>1, <3>2, <3>3, <3>4 DEF Listed
    <3>7. ASSUME NEW t \in Slots, t = s PROVE ~Awaited("connecting", t)'
      <4>1. ~Waits(pending', "connecting", t)
        BY <1>1, <1>2, <1>4, <2>1, <3>7 DEF MessagesFresh
      <4>2. ~Waits(batch', "connecting", t)
        BY <1>4, <2>1, <3>7
      <4> QED BY <4>1, <4>2, AwaitedThen
    <3>8. \A t \in Slots \ {s} : Awaited("connecting", t)' <=> Awaited("connecting", t)
      BY <1>1, <1>3, <1>4, AwaitedNow, AwaitedThen
    <3>9. Listed' = {t \in Slots : present'[t] /\ ~Awaited("connecting", t)'}
      BY <1>1, <1>6, <3>1, <3>5, <3>7, <3>8
    <3> QED BY <3>6, <3>9 DEF PlayersMatch
  <2>2. CASE n.type # "connecting"
    <3>1. players' = players
      BY <1>1, <2>2
    <3>2. \A t \in Slots :
           present'[t] /\ ~Waits(pending', "connecting", t) /\ ~Waits(batch', "connecting", t)
           <=> present[t] /\ ~Waits(pending, "connecting", t) /\ ~Waits(batch, "connecting", t)
      BY <1>1, <1>4, <2>2
    <3> QED BY <1>1, <1>2, <1>3, <3>1, <3>2, PlayersStay
  <2> QED BY <2>1, <2>2
<1>12. HandlersHear'
  <2>1. CASE n.type = "connecting"
    <3>1. \A t \in Slots :
           begun'[t] /\ ~Waits(pending', "connected", t) /\ ~Waits(batch', "connected", t)
           => /\ begun[t] /\ ~Waits(pending, "connected", t) /\ ~Waits(batch, "connected", t)
              /\ pool'[t] = pool[t] /\ joins'[t] = joins[t]
      BY <1>1, <1>4, <2>1
    <3>2. hooks \subseteq hooks' /\ level' = level
      BY <1>1, <2>1
    <3> QED BY <1>1, <1>2, <1>3, <3>1, <3>2, HearingStays
  <2>2. CASE n.type # "connecting"
    <3> SUFFICES ASSUME NEW t \in Slots, begun[t], ~Awaited("connected", t)'
                 PROVE  [entity |-> [slot |-> t, nr |-> pool[t]], player |-> joins[t], level |-> level] \in hooks'
      BY <1>1 DEF HandlersHear
    <3>1. CASE t = s
      BY <1>1, <1>6, <1>7, <2>2, <3>1
    <3>2. CASE t # s
      <4>1. ~Awaited("connected", t)
        BY <1>1, <1>3, <1>4, <3>2, AwaitedNow, AwaitedThen
      <4>2. [entity |-> [slot |-> t, nr |-> pool[t]], player |-> joins[t], level |-> level] \in hooks
        BY <1>1, <1>2, <4>1 DEF HandlersHear
      <4> QED BY <1>1, <2>2, <4>2
    <3> QED BY <3>1, <3>2
  <2> QED BY <2>1, <2>2
<1> QED
  BY <1>8, <1>9, <1>10, <1>11, <1>12

\* A step that only moves the frame on.
LEMMA NothingCalm ==
  ASSUME PoolInv, PoolTypeOK', UNCHANGED <<clients, pooled, parting, script, level, hasty>>, ~hasty'
  PROVE  MessagesFresh' /\ ObjectsKept' /\ HooksFit' /\ PlayersMatch' /\ HandlersHear'
<1>1. ~hasty /\ PoolTypeOK
      /\ UNCHANGED <<present, begun, joins, pool, made, parting, pending, batch, players, hooks, level>>
  BY DEF clients, pooled, script, PoolInv
<1>2. /\ PlayersMatch /\ HandlersHear /\ MessagesFresh /\ ObjectsKept /\ HooksFit
  BY <1>1, Calm
<1>3. \A n \in ToSet(pending') \cup ToSet(batch') : Fresh(n)'
  BY <1>1, <1>2 DEF MessagesFresh, Fresh
<1>4. MessagesFresh' /\ ObjectsKept' /\ HooksFit'
  BY <1>1, <1>2, <1>3 DEF MessagesFresh, ObjectsKept, HooksFit
<1>5. PlayersMatch'
  BY <1>1, <1>2, PlayersStay
<1>6. HandlersHear'
  <2>1. hooks \subseteq hooks' /\ level' = level
    BY <1>1
  <2> QED BY <1>1, <1>2, <2>1, HearingStays
<1> QED
  BY <1>4, <1>5, <1>6

LEMMA PoolNextInv == PoolInv /\ [PoolNext]_poolVars => PoolInv'
<1> SUFFICES ASSUME PoolInv, [PoolNext]_poolVars PROVE PoolInv'
  OBVIOUS
<1>1. PoolTypeOK' /\ ObjectsMade'
  BY PoolNextTypeOK, ObjectsStay DEF PoolInv
<1>2. ASSUME ~hasty'
      PROVE  MessagesFresh' /\ ObjectsKept' /\ HooksFit' /\ PlayersMatch' /\ HandlersHear'
  <2>1. CASE FrameEnds \/ UNCHANGED poolVars
    <3>1. UNCHANGED <<clients, pooled, parting, script, level, hasty>>
      BY <2>1 DEF FrameEnds, poolVars
    <3> QED BY <1>1, <1>2, <3>1, NothingCalm
  <2> QED
    BY <1>1, <1>2, <2>1, ConnectCalm, BeginCalm, DisconnectCalm, CallCalm, LevelCalm,
       EntitiesCalm, ScriptsCalm, DispatchCalm DEF PoolNext
<1>3. Settled'
  BY <1>2 DEF Settled
<1>4. PlayersMatch' /\ HandlersHear'
  BY <1>2 DEF PlayersMatch, HandlersHear
<1> QED
  BY <1>1, <1>3, <1>4 DEF PoolInv

\* Nobody's handlers are on the object of a player who is there.
LEMMA NoStrangersThere == PoolInv => NoStrangers
  BY Calm DEF HooksFit, NoStrangers

LEMMA PoolAlways == PoolSpec => []PoolInv
  BY PoolInitInv, PoolNextInv, PTL DEF PoolSpec

\* A script's Players are the players of the game, each once, as far as their
\* connecting has been handed out, for any number of slots and players and over
\* any number of levels, unless a slot was left and taken between two frames.
THEOREM PlayersAreTheGames == PoolSpec => []PlayersMatch
<1>1. PoolInv => PlayersMatch
  BY DEF PoolInv
<1> QED
  BY <1>1, PoolAlways, PTL

\* The handlers a script put on a player are on the object that GetEntity finds
\* for his notifications, for as long as he stays.
THEOREM HandlersStayHeard == PoolSpec => []HandlersHear
<1>1. PoolInv => HandlersHear
  BY DEF PoolInv
<1> QED
  BY <1>1, PoolAlways, PTL

\* No handler put on a player hears the next one in his slot.
THEOREM NoHandlerHearsStrangers == PoolSpec => []NoStrangers
  BY NoStrangersThere, PoolAlways, PTL
===============================================================================
