-------------------------------- MODULE Voting --------------------------------
(***************************************************************************)
(* Votes to kick or ban a player, called and cast with chat messages on a  *)
(* dedicated server (steam_api/PatchMW2Voting.cpp).                        *)
(*                                                                         *)
(* The code knows players only by their slot number.  A slot changes hands *)
(* when its player disconnects and another one connects, so the model      *)
(* numbers the persons: person[c] is who sits in slot c, 0 for nobody.     *)
(* Who comes back after leaving is a new person, to the code as well.      *)
(* Time is counted in units of 45 seconds, the length of a vote.           *)
(***************************************************************************)
EXTENDS Integers, FiniteSets

CONSTANTS
  MaxClients,  \* MAX_CLIENTS
  Types,       \* "kick", "ban"
  VoteMin,     \* per type: g_voteKickMin, g_voteBanMin; -1 disables
  VoteLimit,   \* per type: g_voteKickLimit, g_voteBanLimit; 0 disables
  VoteDelay,   \* per type: g_voteKickDelay, g_voteBanDelay
  VoteRatio,   \* per type: g_voteKickRatio, g_voteBanRatio, as <<num, den>>
  MaxPersons,  \* bound on the persons who ever connect
  MaxTime      \* bound on the clock

Clients == 0..(MaxClients - 1)
Persons == 1..MaxPersons

ASSUME VotingAssumption ==
  /\ MaxClients \in Nat \ {0} /\ MaxPersons \in Nat /\ MaxTime \in Nat
  /\ Types \subseteq {"kick", "ban"} /\ Types # {}
  /\ VoteMin \in [Types -> Nat \cup {-1}]
  /\ VoteLimit \in [Types -> Nat] /\ VoteDelay \in [Types -> Nat]
  /\ VoteRatio \in [Types -> Nat \X (Nat \ {0})]

VARIABLES
  person,      \* who is in each slot, 0 when free
  persons,     \* persons seen so far
  now,         \* Com_Milliseconds()
  startTime,
  voteCount,   \* votes of each type each slot has called
  votedFor,    \* votedForKick and votedForBan: targets each slot voted against
  votes,       \* the running vote: 1 yes, -1 no, 0 none
  lastVote,    \* when each slot last called a vote
  voteRunning, voteExpire, voteTarget, voteType,
  subject,     \* the person the running vote was called on (history)
  changed,     \* the target's slot changed hands during the vote (history)
  phantom,     \* somebody voted against a free slot (history)
  favors,      \* <<type, voter, target>>, the persons' last opinions (history)
  calls,       \* votes of each type each person has called in this game (history)
  called       \* when each person last called a vote (history)

game    == <<person, persons, now>>
flags   == <<voteCount, votedFor, lastVote>>
running == <<voteRunning, voteExpire, voteTarget, voteType>>
history == <<subject, changed, phantom, favors>>
own     == <<calls, called>>
vars    == <<game, startTime, flags, votes, running, history, own>>

VoteTime == 1   \* 45000 ms
WaitTime == 2   \* 90000 ms

NoVotes == [c \in Clients |-> 0]
NoCalls == [p \in Persons |-> 0]

Init ==
  /\ person = [c \in Clients |-> 0] /\ persons = 0
  /\ now = 0 /\ startTime = 0
  /\ voteCount = [y \in Types |-> NoVotes]
  /\ votedFor = [y \in Types |-> [c \in Clients |-> {}]]
  /\ votes = NoVotes /\ lastVote = NoVotes
  /\ voteRunning = FALSE /\ voteExpire = 0
  /\ voteTarget = 0 /\ voteType = CHOOSE y \in Types : "ban" \in Types => y = "ban"
  /\ subject = 0 /\ changed = FALSE /\ phantom = FALSE
  /\ favors = {}
  /\ calls = [y \in Types |-> NoCalls] /\ called = NoCalls

-------------------------------------------------------------------------------
(* The game.                                                                 *)

Tick ==
  /\ now < MaxTime
  /\ now' = now + 1
  /\ UNCHANGED <<person, persons, startTime, flags, votes, running, history, own>>

Connect(c) ==
  /\ person[c] = 0 /\ persons < MaxPersons
  /\ persons' = persons + 1
  /\ person' = [person EXCEPT ![c] = persons + 1]
  /\ changed' = (changed \/ (voteRunning /\ c = voteTarget))
  /\ UNCHANGED <<now, startTime, flags, votes, running, subject, phantom, favors, own>>

\* A new map or round: what slots voted against each other stays
OnInitGame ==
  /\ startTime' = now
  /\ voteRunning' = FALSE /\ voteExpire' = 0
  /\ votes' = NoVotes
  /\ voteCount' = [y \in Types |-> NoVotes]
  /\ calls' = [y \in Types |-> NoCalls]
  /\ UNCHANGED <<game, votedFor, lastVote, voteTarget, voteType, history, called>>

-------------------------------------------------------------------------------
(* Disconnects.                                                              *)

\* Mutant: what others voted about a player outlives him.
ClearedOwn(y, c, spill) == [votedFor[y] EXCEPT ![c] = {}]

\* The loop of Vote_OnDisconnect runs to i = MAX_CLIENTS: the write to
\* [c][MAX_CLIENTS] is that to [c + 1][0], the one to [MAX_CLIENTS][c] lies
\* behind the array, where the next one may be (spill)
Cleared(y, c, spill) ==
  LET behind == IF c = MaxClients - 1 THEN {c, 0} ELSE {c}
  IN  [i \in Clients |->
        IF i = c THEN {}
        ELSE votedFor[y][i] \ ({c} \cup (IF i = c + 1 THEN {0} ELSE {})
                                  \cup (IF spill /\ y = "ban" /\ i = 0 THEN behind ELSE {}))]

\* The votes whose bytes the loop may clear
Behind(c) == {c \div 4} \cup (IF c = MaxClients - 1 THEN {0} ELSE {})

\* Mutant: the votes a player has called outlive him.
OnDisconnectKeepsCount(c) ==
  /\ voteCount' = voteCount
  /\ votedFor' = [y \in Types |-> Cleared(y, c, FALSE)]
  /\ votes' = [votes EXCEPT ![c] = 0]
  /\ lastVote' = [lastVote EXCEPT ![c] = 0]

\* Vote_OnDisconnect.  Behind votedForBan lies votes, of four bytes each: the
\* loop may clear the byte with the slot's number there, for the last slot also
\* the first byte, after which the vote it was part of counts as none
OnDisconnect(c) ==
  /\ voteCount' = [y \in Types |-> [voteCount[y] EXCEPT ![c] = 0]]
  /\ \E spill \in BOOLEAN : votedFor' = [y \in Types |-> Cleared(y, c, spill)]
  /\ \E hit \in BOOLEAN :
       votes' = [i \in Clients |-> IF i = c \/ (hit /\ i \in Behind(c)) THEN 0 ELSE votes[i]]
  /\ lastVote' = [lastVote EXCEPT ![c] = 0]

Leaves(c) ==
  /\ person' = [person EXCEPT ![c] = 0]
  /\ OnDisconnect(c)
  /\ favors' = {f \in favors : f[2] # person[c] /\ f[3] # person[c]}

Disconnect(c) ==
  /\ person[c] # 0
  /\ Leaves(c)
  /\ changed' = (changed \/ (voteRunning /\ c = voteTarget))
  /\ UNCHANGED <<persons, now, startTime, running, subject, phantom, own>>

-------------------------------------------------------------------------------
(* Calling a vote: /votekick and /voteban.                                   *)

Disabled(y) == VoteMin[y] = -1 \/ VoteLimit[y] = 0

\* Vote_HandleStartVote
MayStart(y, c) ==
  /\ ~Disabled(y)
  /\ voteCount[y][c] < VoteLimit[y]
  /\ now - lastVote[c] >= WaitTime \/ now < WaitTime
  /\ now - startTime >= VoteDelay[y]

Called(y, c) ==
  /\ lastVote' = [lastVote EXCEPT ![c] = now]
  /\ voteCount' = [voteCount EXCEPT ![y][c] = @ + 1]

\* Mutant: a vote ends only when the whole game is over.
ExpiryLate == MaxTime + VoteTime

Expiry == now + VoteTime

\* Vote_StartVote, on the slot Vote_FindTarget made of the message: a number
\* below MAX_CLIENTS is a target as it stands, whether someone sits there or not
StartVote(y, c, target) ==
  /\ person[c] # 0
  /\ MayStart(y, c) /\ ~voteRunning
  /\ now + VoteTime <= MaxTime   \* bound: the clock must reach the end of the vote
  /\ Called(y, c)
  /\ votedFor' = [votedFor EXCEPT ![y][c] = @ \cup {target}]
  /\ voteRunning' = TRUE
  /\ voteExpire' = Expiry
  /\ voteTarget' = target /\ voteType' = y
  /\ votes' = [i \in Clients |-> IF target \in votedFor'[y][i] THEN 1 ELSE 0]
  /\ subject' = person[target]
  /\ changed' = FALSE /\ phantom' = (phantom \/ person[target] = 0)
  /\ favors' = favors \cup {<<y, person[c], person[target]>>}
  /\ calls' = [calls EXCEPT ![y][person[c]] = @ + 1]
  /\ called' = [called EXCEPT ![person[c]] = now]
  /\ UNCHANGED <<game, startTime>>

-------------------------------------------------------------------------------
(* Casting: /yes and /no.                                                    *)

\* Vote_HandleVote: the target may not vote in favor of itself
HandleVote(c, yes) ==
  /\ person[c] # 0 /\ voteRunning
  /\ yes \/ c # voteTarget
  /\ votedFor' = [votedFor EXCEPT ![voteType][c] = IF yes THEN @ \cup {voteTarget} ELSE @ \ {voteTarget}]
  /\ votes' = [votes EXCEPT ![c] = IF yes THEN 1 ELSE -1]
  /\ LET opinion == <<voteType, person[c], person[voteTarget]>>
     IN  favors' = IF yes THEN favors \cup {opinion} ELSE favors \ {opinion}
  /\ phantom' = (phantom \/ (yes /\ person[voteTarget] = 0))
  /\ UNCHANGED <<game, startTime, voteCount, lastVote, running, subject, changed, own>>

-------------------------------------------------------------------------------
(* The end of a vote.                                                        *)

Voting(v) == {c \in Clients : votes[c] = v}

\* (float)yes / (float)no: infinite without a no, not a number without any
Passes ==
  LET yes == Cardinality(Voting(1))
      no  == Cardinality(Voting(-1))
  IN  /\ yes + no >= VoteMin[voteType]
      /\ IF no = 0 THEN yes > 0
                   ELSE yes * VoteRatio[voteType][2] >= no * VoteRatio[voteType][1]

\* Vote_Finalize, from Vote_OnFrame: clientkick and tempbanclient drop whoever
\* is in the target's slot
Finalize ==
  /\ voteRunning /\ now >= voteExpire
  /\ voteRunning' = FALSE
  /\ IF Passes /\ person[voteTarget] # 0
     THEN Leaves(voteTarget)
     ELSE UNCHANGED <<person, flags, votes, favors>>
  /\ UNCHANGED <<persons, now, startTime, voteExpire, voteTarget, voteType, subject, changed, phantom, own>>

Next ==
  \/ Tick
  \/ \E c \in Clients : Connect(c)
  \/ \E c \in Clients : Disconnect(c)
  \/ OnInitGame
  \/ \E y \in Types, c, target \in Clients : StartVote(y, c, target)
  \/ \E c \in Clients, yes \in BOOLEAN : HandleVote(c, yes)
  \/ Finalize

Spec == Init /\ [][Next]_vars

\* The clock runs and Vote_OnFrame comes with every server frame.
FairSpec == Spec /\ WF_vars(Tick) /\ WF_vars(Finalize)

-------------------------------------------------------------------------------
TypeOK ==
  /\ person \in [Clients -> 0..MaxPersons] /\ persons \in 0..MaxPersons
  /\ now \in 0..MaxTime /\ startTime \in 0..MaxTime
  /\ voteCount \in [Types -> [Clients -> Nat]]
  /\ votedFor \in [Types -> [Clients -> SUBSET Clients]]
  /\ votes \in [Clients -> {-1, 0, 1}]
  /\ lastVote \in [Clients -> 0..MaxTime]
  /\ voteRunning \in BOOLEAN /\ voteExpire \in Nat
  /\ voteTarget \in Clients /\ voteType \in Types
  /\ subject \in 0..MaxPersons /\ changed \in BOOLEAN /\ phantom \in BOOLEAN
  /\ favors \subseteq Types \X Persons \X (0..MaxPersons)
  /\ calls \in [Types -> [Persons -> Nat]] /\ called \in [Persons -> 0..MaxTime]

\* What is counted are opinions of persons who are still there, on the person
\* the vote was called on, and nobody votes in favor of himself: as long as
\* the target's slot does not change hands, slots never stand for the wrong
\* person although yes votes are carried over from one vote to the next.
FairCount ==
  voteRunning /\ ~changed /\ ~phantom =>
    \A c \in Clients :
      /\ votes[c] # 0 => person[c] # 0
      /\ votes[c] = 1 => <<voteType, person[c], subject>> \in favors
      /\ votes[c] = -1 => person[c] # subject

\* Everybody is held to the votes he called himself, to all of them and to no
\* one else's: over new games, kicks and slots that change hands, what the code
\* keeps for a slot is what the person in it has called in this game and when he
\* last called, and no person calls more than the limit before he leaves.
HeldToOwnCalls ==
  /\ \A c \in Clients : person[c] # 0 =>
       /\ \A y \in Types : voteCount[y][c] = calls[y][person[c]]
       /\ lastVote[c] = called[person[c]]
  /\ \A y \in Types, p \in Persons : calls[y][p] <= VoteLimit[y]

\* Every vote comes to its end: again and again there is none running.
VotesEnd == []<>~voteRunning
===============================================================================
