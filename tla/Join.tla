--------------------------------- MODULE Join ---------------------------------
(***************************************************************************)
(* Joining a server without the game's party handshake                     *)
(* (steam_api/PatchMW2PartyBypass.cpp): connect asks the server for its    *)
(* info with a challenge taken from the clock, and the answer with that    *)
(* challenge connects to whoever sent it.                                  *)
(*                                                                         *)
(* Queries and answers are UDP packets: a round trip stays in flight for   *)
(* as long as it likes, ends in any order, twice, or never.  Challenges    *)
(* are numbered in the order the clock gave them out; the five seconds of  *)
(* the timeout may be over at any moment.                                  *)
(***************************************************************************)
EXTENDS Integers, FiniteSets

CONSTANTS
  Servers,
  Unset,      \* the address of currentLobbyTarget, which nothing assigns
  Protocols,  \* numbers connect can be given
  MaxJoins    \* bound on the connects of the player

ASSUME JoinAssumption ==
  /\ Unset \notin Servers /\ Protocols \subseteq Nat \ {0} /\ MaxJoins \in Nat

VARIABLES
  joinChallenge,  \* 0 when there is none
  joinStarted,    \* a join is under way
  protocol,       \* protocolOverride
  conn,           \* where the client is connected, and with which protocol
  queries,        \* round trips in flight
  drawn,          \* challenges given out
  joins,          \* connects so far
  asked,          \* what the last connect that got as far as asking named (history)
  hurried,        \* that connect drew the challenge of the one before (history)
  misdialled,     \* a connect since then failed to resolve its address (history)
  duplicated      \* the network has delivered an answer twice (history)

asking == <<joinChallenge, joinStarted, drawn, asked, hurried>>
join   == <<asking, protocol, conn, queries, joins, misdialled, duplicated>>

Link(s, p) == [server |-> s, protocol |-> p]
Nowhere == Link(Unset, 0)

JoinInit ==
  /\ joinChallenge = 0 /\ joinStarted = FALSE /\ drawn = 0
  /\ protocol \in Protocols /\ conn = Nowhere
  /\ queries = {} /\ joins = 0
  /\ asked = Nowhere /\ hurried = FALSE /\ misdialled = FALSE /\ duplicated = FALSE

\* the clock need not have moved since the last connect, unless it timed out
ConnectToAddress(s) ==
  \E moved \in {TRUE} \cup {joinChallenge = 0} :
    /\ drawn' = IF moved THEN drawn + 1 ELSE drawn
    /\ joinStarted' = TRUE /\ joinChallenge' = drawn'
    /\ queries' = IF s = Unset THEN queries ELSE queries \cup {[to |-> s, challenge |-> drawn']}
    /\ asked' = Link(s, protocol')
    /\ hurried' = ~moved
    /\ misdialled' = FALSE

\* CL_Connect_f: the protocol is set before the address is looked up
Connect(s, p) ==
  /\ joins < MaxJoins
  /\ joins' = joins + 1
  /\ protocol' = p
  /\ ConnectToAddress(s)
  /\ UNCHANGED <<conn, duplicated>>

ConnectUnresolved(p) ==
  /\ joins < MaxJoins
  /\ joins' = joins + 1
  /\ protocol' = p
  /\ misdialled' = TRUE
  /\ UNCHANGED <<asking, conn, queries, duplicated>>

\* CL_Reconnect_f
Reconnect ==
  /\ conn' = Nowhere
  /\ UNCHANGED protocol
  /\ ConnectToAddress(Unset)
  /\ UNCHANGED <<joins, duplicated>>

\* Mutant: any answer to a join will do.
AcceptsAny(q) == joinChallenge # 0

Accepts(q) == joinChallenge # 0 /\ q.challenge = joinChallenge

\* CL_JoinResponse, from CL_ServerInfoPacket: the challenge stays
JoinResponse(q, full, again) ==
  /\ queries' = IF again THEN queries ELSE queries \ {q}
  /\ duplicated' = (duplicated \/ again)
  /\ joinStarted' = (joinStarted /\ ~Accepts(q))
  /\ conn' = IF Accepts(q) /\ ~full THEN Link(q.to, protocol) ELSE conn
  /\ UNCHANGED <<joinChallenge, drawn, protocol, joins, asked, hurried, misdialled>>

\* Mutant: the challenge outlives the timeout.
ConnectFrameKeepsChallenge ==
  /\ joinStarted
  /\ joinStarted' = FALSE
  /\ UNCHANGED <<joinChallenge, drawn, asked, hurried, protocol, conn, queries, joins, misdialled, duplicated>>

\* CL_ConnectFrame, five seconds after the join began
ConnectFrame ==
  /\ joinStarted
  /\ joinStarted' = FALSE /\ joinChallenge' = 0
  /\ UNCHANGED <<drawn, asked, hurried, protocol, conn, queries, joins, misdialled, duplicated>>

-------------------------------------------------------------------------------
JoinTypeOK ==
  /\ joinChallenge \in 0..drawn /\ drawn \in Nat /\ joinStarted \in BOOLEAN
  /\ protocol \in Protocols /\ joins \in 0..MaxJoins
  /\ conn \in {Nowhere} \cup [server : Servers, protocol : Protocols]
  /\ queries \subseteq [to : Servers, challenge : 1..drawn]
  /\ asked \in {Nowhere} \cup [server : Servers \cup {Unset}, protocol : Protocols]
  /\ hurried \in BOOLEAN /\ misdialled \in BOOLEAN /\ duplicated \in BOOLEAN

Joins == conn' # conn /\ conn' # Nowhere

\* The client connects to the server the last connect named, with the protocol
\* it gave, whatever answers to earlier ones are still under way; unless it was
\* given within the same millisecond as the one before, or one that failed to
\* resolve has changed the protocol since.
JoinsAsAsked == [][Joins => conn' = asked \/ hurried \/ misdialled]_join

\* A client that gave up, was turned away or has left again is not taken to a
\* server by an answer that comes late, but for one the network repeats and for
\* the second of two joins begun within the same millisecond.
NoLateJoin == [][Joins => joinStarted \/ duplicated' \/ hurried]_join
===============================================================================
