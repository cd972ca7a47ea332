---------------------------- MODULE Download_proofs ----------------------------
(***************************************************************************)
(* Proofs about the client of Download: that it joins the server it was    *)
(* asked to, and no server once it has given up, for any servers,          *)
(* protocols, files and numbers of connects.                               *)
(*                                                                         *)
(* Both rest on what a challenge stands for: the last one drawn belongs to *)
(* one query only, unless the clock had not moved between two connects.    *)
(*                                                                         *)
(* Then, that what it downloads is what the server runs, and that the one  *)
(* static download record is enough: both because only one transfer is     *)
(* ever under way, and from the server the client is on.                   *)
(*                                                                         *)
(* Then, that no file the player has is touched: whatever is asked for,    *)
(* listed, queued or fetched was missing when it was asked for, and can    *)
(* only have become the server's since.                                    *)
(***************************************************************************)
EXTENDS Download, SequenceTheorems, FiniteSetTheorems, TLAPS

\* the challenge is the last one drawn, until the timeout clears it
Latest == joinChallenge # 0 => joinChallenge = drawn

\* only the server the last connect named has been sent the last challenge
OneAsked == ~hurried => \A q \in queries : q.challenge = drawn => q.to = asked.server

\* the protocol is still the one the last connect gave
SameProtocol == ~misdialled /\ joinChallenge # 0 => protocol = asked.protocol

\* once the join is over no answer with its challenge is under way
NoneLeft ==
  ~hurried /\ ~duplicated /\ joinChallenge # 0 /\ ~joinStarted
    => \A q \in queries : q.challenge # joinChallenge

JoinInv == JoinTypeOK /\ Latest /\ OneAsked /\ SameProtocol /\ NoneLeft

\* a new connection request, as CL_Connect_f and CL_Reconnect_f end with it
Asks(s) ==
  /\ protocol' \in Protocols /\ joins' \in 0..MaxJoins
  /\ conn' \in {conn, Nowhere}
  /\ UNCHANGED duplicated
  /\ ConnectToAddress(s)

\* what the steps of Download do to the joining client
JoinStep ==
  \/ \E s \in Servers \cup {Unset} : Asks(s)
  \/ \E p \in Protocols : ConnectUnresolved(p)
  \/ ConnectFrame
  \/ \E q \in queries, full, again \in BOOLEAN : JoinResponse(q, full, again)
  \/ /\ conn' \in {conn, Nowhere}
     /\ UNCHANGED <<asking, protocol, queries, joins, misdialled, duplicated>>

-------------------------------------------------------------------------------

\* Every step of Download is a step of the joining client.
LEMMA StepsOfJoin ==
  ASSUME JoinTypeOK, [Next]_vars
  PROVE  JoinStep
<1> USE JoinAssumption
<1>0. /\ protocol \in Protocols /\ joins \in 0..MaxJoins
  BY DEF JoinTypeOK
<1>1. ASSUME UNCHANGED join PROVE JoinStep
  BY <1>1 DEF join, JoinStep
<1>2. ASSUME NEW fetching, Drop(fetching) PROVE JoinStep
  BY <1>2 DEF Drop, JoinStep
<1>3. ASSUME Reconnect PROVE JoinStep
  <2>1. Asks(Unset)
    BY <1>0, <1>3 DEF Reconnect, Asks
  <2> QED
    BY <2>1 DEF JoinStep
<1>4. ASSUME NEW s \in Servers, NEW p \in Protocols, Connect(s, p) PROVE JoinStep
  <2>1. joins' \in 0..MaxJoins
    BY <1>0, <1>4, SMT DEF Connect
  <2>2. Asks(s)
    BY <2>1, <1>4 DEF Connect, Asks
  <2> QED
    BY <2>2 DEF JoinStep
<1>5. CASE Joining
  BY <1>4, <1>5 DEF Joining, JoinStep
<1>6. CASE Leave
  BY <1>2, <1>6 DEF Leave
<1>7. CASE InitDownloads
  BY <1>1, <1>7 DEF InitDownloads
<1>8. CASE ParseDownload
  BY <1>1, <1>8 DEF ParseDownload
<1>9. CASE \E s \in Servers : SendDownloads(s) \/ WriteDownload(s)
  BY <1>1, <1>9 DEF SendDownloads, WriteDownload
<1>10. CASE Shutdown
  BY <1>1, <1>10 DEF Shutdown
<1>11. CASE Dequeue
  BY <1>1, <1>11 DEF Dequeue
<1>12. CASE OpenFile
  BY <1>1, <1>2, <1>12 DEF OpenFile
<1>13. CASE Complete
  BY <1>3, <1>13 DEF Complete
<1>14. CASE \E t \in transfers : Transfer(t) \/ Finish(t)
  BY <1>1, <1>2, <1>14 DEF Transfer, Finish, join
<1>15. CASE UNCHANGED vars
  BY <1>1, <1>15 DEF vars
<1>16. CASE FinishAgain
  BY <1>1, <1>16 DEF FinishAgain
<1> QED
  BY <1>16, <1>5, <1>6, <1>7, <1>8, <1>9, <1>10, <1>11, <1>12, <1>13, <1>14, <1>15 DEF Next

-------------------------------------------------------------------------------

\* The client begins without a challenge, a query or a connection.
LEMMA JoinInitInv ==
  ASSUME Init
  PROVE  JoinInv
<1> USE JoinAssumption DEF Init, JoinInit
<1>1. JoinTypeOK
  <2>1. joinChallenge \in 0..drawn /\ drawn \in Nat /\ joins \in 0..MaxJoins
    BY SMT
  <2> QED
    BY <2>1 DEF JoinTypeOK
<1>2. Latest /\ OneAsked /\ SameProtocol /\ NoneLeft
  BY DEF Latest, OneAsked, SameProtocol, NoneLeft
<1> QED
  BY <1>1, <1>2 DEF JoinInv

\* A connect keeps the invariant: its challenge is new, or it is hurried.
LEMMA AsksKeepsInv ==
  ASSUME JoinInv, NEW s \in Servers \cup {Unset}, Asks(s)
  PROVE  JoinInv'
<1> USE JoinAssumption
<1>0. JoinTypeOK /\ Latest
  BY DEF JoinInv
<1> DEFINE query == [to |-> s, challenge |-> drawn']
<1>1. PICK moved \in {TRUE} \cup {joinChallenge = 0} :
        /\ drawn' = IF moved THEN drawn + 1 ELSE drawn
        /\ hurried' = ~moved
  BY DEF Asks, ConnectToAddress
<1>2. /\ joinStarted' = TRUE /\ joinChallenge' = drawn' /\ misdialled' = FALSE
      /\ queries' = IF s = Unset THEN queries ELSE queries \cup {query}
      /\ asked' = Link(s, protocol')
  BY DEF Asks, ConnectToAddress
<1>3. moved \in BOOLEAN /\ (~moved => joinChallenge # 0)
  OBVIOUS
<1>4. drawn \in Nat /\ joinChallenge \in 0..drawn
  BY <1>0 DEF JoinTypeOK
<1>5. drawn' \in Nat \ {0} /\ drawn' >= drawn /\ (~hurried' => drawn' = drawn + 1)
  <2>1. hurried' <=> ~moved
    BY <1>1, <1>3
  <2>2. CASE moved
    BY <1>1, <1>4, <2>1, <2>2, SMT
  <2>3. CASE ~moved
    <3>1. drawn' = drawn /\ drawn # 0
      BY <1>0, <1>1, <1>3, <1>4, <2>3 DEF Latest
    <3> QED
      BY <1>4, <2>1, <2>3, <3>1, SMT
  <2> QED
    BY <2>2, <2>3
<1>6. asked'.server = s /\ asked'.protocol = protocol'
  BY <1>2 DEF Link
<1>7. queries \subseteq [to : Servers, challenge : 1..drawn]
  BY <1>0 DEF JoinTypeOK
<1>8. JoinTypeOK'
  <2>1. 1..drawn \subseteq 1..drawn' /\ drawn' \in 1..drawn'
    BY <1>4, <1>5, SMT
  <2>2. queries' \subseteq [to : Servers, challenge : 1..drawn']
    BY <2>1, <1>2, <1>7
  <2>3. joinChallenge' \in 0..drawn'
    BY <1>2, <1>5, SMT
  <2>4. asked' \in [server : Servers \cup {Unset}, protocol : Protocols]
    BY <1>2 DEF Link, Asks
  <2>5. conn' \in {Nowhere} \cup [server : Servers, protocol : Protocols]
    BY <1>0 DEF Asks, JoinTypeOK
  <2>6. duplicated' \in BOOLEAN /\ hurried' \in BOOLEAN
    BY <1>0, <1>1, <1>3 DEF Asks, JoinTypeOK
  <2>7. joins' \in 0..MaxJoins /\ protocol' \in Protocols
    BY DEF Asks
  <2> QED
    BY <1>2, <1>5, <2>2, <2>3, <2>4, <2>5, <2>6, <2>7 DEF JoinTypeOK
<1>9. OneAsked'
  <2> SUFFICES ASSUME ~hurried', NEW q \in queries', q.challenge = drawn'
               PROVE  q.to = asked'.server
    BY DEF OneAsked
  <2>1. q \notin queries
    BY <1>4, <1>5, <1>7, SMT
  <2>2. q = query
    BY <2>1, <1>2
  <2> QED
    BY <2>2, <1>6
<1>10. Latest' /\ SameProtocol' /\ NoneLeft'
  BY <1>2, <1>6 DEF Latest, SameProtocol, NoneLeft
<1> QED
  BY <1>8, <1>9, <1>10 DEF JoinInv

\* An answer keeps the invariant: with it the last query of its challenge is
\* gone, unless the network repeats it.
LEMMA AnswerKeepsInv ==
  ASSUME JoinInv, NEW q \in queries, NEW full \in BOOLEAN, NEW again \in BOOLEAN,
         JoinResponse(q, full, again)
  PROVE  JoinInv'
<1> USE JoinAssumption
<1>0. JoinTypeOK /\ Latest /\ OneAsked /\ SameProtocol /\ NoneLeft
  BY DEF JoinInv
<1>1. queries' \subseteq queries /\ (~again => queries' = queries \ {q})
  BY DEF JoinResponse
<1>2. UNCHANGED <<joinChallenge, drawn, protocol, joins, asked, hurried, misdialled>>
  BY DEF JoinResponse
<1>3. duplicated' = (duplicated \/ again) /\ joinStarted' = (joinStarted /\ ~Accepts(q))
  BY DEF JoinResponse
<1>4. queries \subseteq [to : Servers, challenge : 1..drawn]
  BY <1>0 DEF JoinTypeOK
<1>5. JoinTypeOK'
  <2>1. q.to \in Servers /\ protocol \in Protocols
    BY <1>0, <1>4 DEF JoinTypeOK
  <2>2. conn' \in {Nowhere} \cup [server : Servers, protocol : Protocols]
    BY <1>0, <2>1 DEF JoinTypeOK, JoinResponse, Link
  <2>3. duplicated' \in BOOLEAN /\ joinStarted' \in BOOLEAN
    BY <1>3
  <2> QED
    BY <1>0, <1>1, <1>2, <2>2, <2>3 DEF JoinTypeOK
<1>6. Latest' /\ OneAsked' /\ SameProtocol'
  BY <1>0, <1>1, <1>2 DEF Latest, OneAsked, SameProtocol
<1>7. NoneLeft'
  <2> SUFFICES ASSUME ~hurried, ~duplicated', joinChallenge # 0, ~joinStarted',
                      NEW r \in queries', r.challenge = joinChallenge
               PROVE  FALSE
    BY <1>2 DEF NoneLeft
  <2>1. ~duplicated /\ queries' = queries \ {q}
    BY <1>1, <1>3
  <2>2. r \in queries /\ r # q
    BY <2>1
  <2>3. joinStarted /\ Accepts(q)
    BY <1>0, <1>3, <2>1, <2>2 DEF NoneLeft
  <2>4. q.challenge = drawn /\ r.challenge = drawn
    BY <1>0, <2>3 DEF Accepts, Latest
  <2>5. q.to = r.to
    BY <1>0, <2>2, <2>4 DEF OneAsked
  <2> QED
    BY <1>4, <2>2, <2>4, <2>5
<1> QED
  BY <1>5, <1>6, <1>7 DEF JoinInv

\* No step of the client breaks the invariant.
LEMMA JoinNextInv ==
  ASSUME JoinInv, [Next]_vars
  PROVE  JoinInv'
<1>0. JoinTypeOK /\ Latest /\ OneAsked /\ SameProtocol /\ NoneLeft
  BY DEF JoinInv
<1>1. CASE \E s \in Servers \cup {Unset} : Asks(s)
  BY <1>1, AsksKeepsInv
<1>2. CASE \E p \in Protocols : ConnectUnresolved(p)
  <2>1. PICK p \in Protocols : ConnectUnresolved(p)
    BY <1>2
  <2>2. /\ joins \in 0..MaxJoins /\ joins < MaxJoins /\ joins' = joins + 1
        /\ protocol' = p /\ misdialled' = TRUE
        /\ UNCHANGED <<joinChallenge, joinStarted, drawn, asked, hurried, conn, queries, duplicated>>
    BY <1>0, <2>1 DEF ConnectUnresolved, JoinTypeOK, asking
  <2>3. joins' \in 0..MaxJoins
    BY <2>2, JoinAssumption, SMT
  <2>4. JoinTypeOK'
    BY <1>0, <2>2, <2>3 DEF JoinTypeOK
  <2>5. Latest' /\ OneAsked' /\ SameProtocol' /\ NoneLeft'
    BY <1>0, <2>2 DEF Latest, OneAsked, SameProtocol, NoneLeft
  <2> QED
    BY <2>4, <2>5 DEF JoinInv
<1>3. CASE ConnectFrame
  <2>1. joinChallenge' \in 0..drawn'
    BY <1>0, <1>3, SMT DEF ConnectFrame, JoinTypeOK
  <2>2. JoinTypeOK'
    BY <1>0, <1>3, <2>1 DEF ConnectFrame, JoinTypeOK
  <2>3. Latest' /\ OneAsked' /\ SameProtocol' /\ NoneLeft'
    BY <1>0, <1>3 DEF ConnectFrame, Latest, OneAsked, SameProtocol, NoneLeft
  <2> QED
    BY <2>2, <2>3 DEF JoinInv
<1>4. CASE \E q \in queries, full, again \in BOOLEAN : JoinResponse(q, full, again)
  BY <1>4, AnswerKeepsInv
<1>5. CASE /\ conn' \in {conn, Nowhere}
           /\ UNCHANGED <<asking, protocol, queries, joins, misdialled, duplicated>>
  <2>1. JoinTypeOK'
    BY <1>0, <1>5 DEF JoinTypeOK, asking
  <2>2. Latest' /\ OneAsked' /\ SameProtocol' /\ NoneLeft'
    BY <1>0, <1>5 DEF asking, Latest, OneAsked, SameProtocol, NoneLeft
  <2> QED
    BY <2>1, <2>2 DEF JoinInv
<1> QED
  BY <1>0, <1>1, <1>2, <1>3, <1>4, <1>5, StepsOfJoin DEF JoinStep

LEMMA JoinInvariant == Spec => []JoinInv
<1>1. Init => JoinInv
  BY JoinInitInv
<1>2. JoinInv /\ [Next]_vars => JoinInv'
  BY JoinNextInv
<1> QED
  BY <1>1, <1>2, PTL DEF Spec

\* The state of joining has its types, whatever the rest of the client does:
\* a query in flight carries a challenge that was drawn.
THEOREM JoinTypeCorrect == Spec => []JoinTypeOK
<1>1. JoinInv => JoinTypeOK
  BY DEF JoinInv
<1> QED
  BY <1>1, JoinInvariant, PTL

-------------------------------------------------------------------------------

\* A connection is made by an answer that carries the challenge, and to the
\* one that sent it.
LEMMA JoinedByAnswer ==
  ASSUME JoinInv, [Next]_vars, Joins
  PROVE  \E q \in queries, again \in BOOLEAN :
           /\ joinChallenge # 0 /\ q.challenge = joinChallenge
           /\ conn' = Link(q.to, protocol)
<1>1. JoinStep
  BY StepsOfJoin DEF JoinInv
<1>2. \E q \in queries, full, again \in BOOLEAN : JoinResponse(q, full, again)
  BY <1>1 DEF JoinStep, Joins, Asks, ConnectUnresolved, ConnectFrame
<1> QED
  BY <1>2 DEF JoinResponse, Accepts, Joins

\* CL_JoinResponse connects to the server the last connect named, with its
\* protocol, however answers to earlier ones are delayed, reordered, repeated
\* or lost.
THEOREM ClientJoinsAsAsked == Spec => JoinsAsAsked
<1>1. JoinInv /\ [Next]_vars => [Joins => conn' = asked \/ hurried \/ misdialled]_join
  <2> SUFFICES ASSUME JoinInv, [Next]_vars, Joins, ~hurried, ~misdialled
               PROVE  conn' = asked
    OBVIOUS
  <2>1. PICK q \in queries : /\ joinChallenge # 0 /\ q.challenge = joinChallenge
                             /\ conn' = Link(q.to, protocol)
    BY JoinedByAnswer
  <2>2. q.to = asked.server /\ protocol = asked.protocol
    BY <2>1 DEF JoinInv, Latest, OneAsked, SameProtocol
  <2>3. asked = Link(asked.server, asked.protocol)
    BY DEF JoinInv, JoinTypeOK, Link, Nowhere
  <2> QED
    BY <2>1, <2>2, <2>3
<1> QED
  BY <1>1, JoinInvariant, PTL DEF Spec, JoinsAsAsked

\* After the timeout, a refusal or a disconnect no late answer takes the client
\* to a server: the challenge it would need is no longer in flight.
THEOREM NoJoinAfterGivingUp == Spec => NoLateJoin
<1>1. JoinInv /\ [Next]_vars => [Joins => joinStarted \/ duplicated' \/ hurried]_join
  <2> SUFFICES ASSUME JoinInv, [Next]_vars, Joins, ~joinStarted, ~hurried
               PROVE  duplicated'
    OBVIOUS
  <2>1. \E q \in queries : joinChallenge # 0 /\ q.challenge = joinChallenge
    BY JoinedByAnswer
  <2>2. duplicated
    BY <2>1 DEF JoinInv, NoneLeft
  <2>3. JoinStep
    BY StepsOfJoin DEF JoinInv
  <2> QED
    BY <2>2, <2>3 DEF JoinStep, Asks, ConnectUnresolved, ConnectFrame, JoinResponse
<1> QED
  BY <1>1, JoinInvariant, PTL DEF Spec, NoLateJoin

-------------------------------------------------------------------------------

Started(r) == [handle |-> current.handle, file |-> current.file, host |-> host, result |-> r]

\* currentDownload has its two parts
RecordOK == current = [file |-> current.file, handle |-> current.handle]

\* as long as no list has replaced another, at most the transfer of the current
\* file is in the multi handle
OneTransfer ==
  ~replaced /\ Running =>
    \/ transfers = {}
    \/ /\ Fetching /\ current.handle # 0
       /\ \E r \in {"", "server's", "page", "error"} : transfers = {Started(r)}

\* as long as nobody has left early, the client is on the server it fetches from
AtHost == ~left /\ Fetching => Connected(host)

\* the page of an HTTP error is received and put in place only for a file that
\* was refused, or after leaving early
NoPages ==
  ~replaced =>
    /\ disk \in [Files -> Kept \cup {"page"}]
    /\ \A f \in Files : disk[f] = "page" => left \/ f \in refused
    /\ Running => \A t \in transfers : t.result = "page" => left \/ t.file \in refused

\* a download that failed is still the current one
FailedStays == isDownloading /\ failed => current.handle # 0

PlaceInv ==
  left \in BOOLEAN /\ RecordOK /\ FailedStays /\ OneTransfer /\ AtHost /\ NoMixup /\ NoPages

\* Nothing is downloaded to begin with.
LEMMA PlaceInitInv ==
  ASSUME Init
  PROVE  PlaceInv
<1>1. left \in BOOLEAN /\ RecordOK /\ FailedStays /\ OneTransfer /\ AtHost /\ NoMixup
  BY DEF Init, RecordOK, FailedStays, OneTransfer, AtHost, NoMixup, Fetching, None
<1>2. NoPages
  BY DownloadAssumption DEF Init, NoPages, Kept
<1> QED
  BY <1>1, <1>2 DEF PlaceInv

\* Steps that leave the downloads alone keep the invariant; the client may
\* change its server if that is recorded as leaving early.
LEMMA OthersKeepPlaces ==
  ASSUME PlaceInv, UNCHANGED <<disk, dls, replaced, refused, failed, crashed>>,
         \/ UNCHANGED <<conn, left>>
         \/ left' = (left \/ Fetching)
  PROVE  PlaceInv'
<1> USE DEF PlaceInv, dls, Fetching
<1>0. left' \in BOOLEAN
  OBVIOUS
<1>1. RecordOK' /\ FailedStays' /\ OneTransfer' /\ NoMixup'
  BY Zenon DEF RecordOK, FailedStays, OneTransfer, Started, NoMixup, Running
<1>2. AtHost'
  BY DEF AtHost, Connected
<1>3. NoPages'
  BY DEF NoPages, Running
<1> QED
  BY <1>0, <1>1, <1>2, <1>3

\* A list that arrives finds nothing in the multi handle, or replaces another.
LEMMA ListKeepsPlaces ==
  ASSUME PlaceInv, Running, ParseDownload
  PROVE  PlaceInv'
<1> USE DEF PlaceInv, ParseDownload, Fetching
<1>1. ~replaced' => ~replaced /\ transfers' = {}
  BY DEF OneTransfer
<1>2. left' \in BOOLEAN /\ RecordOK' /\ FailedStays' /\ NoMixup'
  BY DEF RecordOK, FailedStays, NoMixup, None, Running
<1>3. OneTransfer'
  BY <1>1 DEF OneTransfer
<1>4. AtHost'
  BY DEF AtHost, Connected, join
<1>5. NoPages'
  BY <1>1 DEF NoPages
<1> QED
  BY <1>2, <1>3, <1>4, <1>5

\* The file of the next transfer is opened when no other runs.
LEMMA OpenKeepsPlaces ==
  ASSUME PlaceInv, Running, OpenFile
  PROVE  PlaceInv'
<1> USE DEF PlaceInv
<1>0. UNCHANGED <<disk, queue, host, leaked, replaced, refused, crashed>> /\ current.handle = 0
  BY DEF OpenFile
<1>1. ~replaced => transfers = {}
  BY <1>0 DEF OneTransfer
<1>2. CASE isDownloading' = FALSE /\ failed' = TRUE /\ Drop(FALSE) /\ UNCHANGED <<current, transfers>>
  <2>1. RecordOK' /\ FailedStays' /\ OneTransfer' /\ AtHost' /\ NoMixup'
    BY <1>0, <1>1, <1>2 DEF RecordOK, FailedStays, OneTransfer, AtHost, NoMixup, Fetching, Running
  <2>2. left' = left
    BY <1>2 DEF Drop, Channel
  <2>3. NoPages'
    BY <1>0, <1>2, <2>2 DEF NoPages, Running
  <2> QED
    BY <2>1, <2>2, <2>3
<1>3. CASE /\ current' = [current EXCEPT !.handle = Cardinality(transfers) + 1]
           /\ transfers' = transfers \cup {[handle |-> current'.handle, file |-> current.file, host |-> host, result |-> ""]}
           /\ UNCHANGED <<join, isDownloading, playing, request, inbox, left, lost, failed>>
  <2>1. /\ current' = [file |-> current.file, handle |-> Cardinality(transfers) + 1]
        /\ current'.file = current.file /\ current'.handle = Cardinality(transfers) + 1
    BY <1>3 DEF RecordOK
  <2>2. RecordOK' /\ NoMixup' /\ AtHost' /\ left' \in BOOLEAN
    BY <1>0, <1>3, <2>1 DEF RecordOK, NoMixup, AtHost, Fetching, Connected, join
  <2> DEFINE first == [handle |-> current'.handle, file |-> current'.file, host |-> host', result |-> ""]
  <2>3. ~replaced => transfers' = {first}
    BY <1>0, <1>1, <1>3, <2>1
  <2>4. ~replaced => current'.handle # 0
    BY <1>1, <2>1, FS_EmptySet
  <2>5. Fetching /\ UNCHANGED <<isDownloading, failed>>
    BY <1>0, <1>3 DEF FailedStays, Fetching, OpenFile
  <2>6. ASSUME ~replaced
        PROVE  \E r \in {"", "server's", "page", "error"} :
                 transfers' = {[handle |-> current'.handle, file |-> current'.file, host |-> host', result |-> r]}
    BY <2>3, <2>6
  <2>7. OneTransfer' /\ FailedStays'
    BY <1>0, <2>4, <2>5, <2>6 DEF OneTransfer, FailedStays, Fetching, Started
  <2>8. NoPages'
    <3>1. ~replaced => \A t \in transfers' : t.result # "page"
      <4>1. first.result # "page"
        OBVIOUS
      <4> HIDE DEF first
      <4> QED
        BY <2>3, <4>1
    <3>2. UNCHANGED <<disk, left, replaced, refused, crashed>>
      BY <1>0, <1>3
    <3> QED
      BY <3>1, <3>2 DEF NoPages, Running
  <2> QED
    BY <2>2, <2>7, <2>8
<1> QED
  BY <1>2, <1>3 DEF OpenFile

\* A transfer ends with a page for a client that was refused, or that is on
\* another server.
LEMMA TransferKeepsPlaces ==
  ASSUME PlaceInv, Running, NEW t \in transfers, Transfer(t)
  PROVE  PlaceInv'
<1> USE DEF PlaceInv
<1>0. UNCHANGED <<disk, isDownloading, queue, host, current, leaked, conn, left, replaced, failed, crashed>>
  BY DEF Transfer, game, join
<1>1. PICK r \in HandleDownloadRequest(t) \cup {"error"} :
        /\ transfers' = (transfers \ {t}) \cup {[t EXCEPT !.result = r]}
        /\ refused' = IF r = "page" /\ Connected(t.host) THEN refused \cup {t.file} ELSE refused
  BY DEF Transfer
<1>2. left' \in BOOLEAN /\ RecordOK' /\ FailedStays' /\ AtHost' /\ NoMixup'
  BY <1>0 DEF RecordOK, FailedStays, AtHost, NoMixup, Fetching, Connected
<1>3. ASSUME ~replaced
      PROVE  /\ transfers' = {Started(r)} /\ Fetching /\ current.handle # 0
             /\ ~left => Connected(t.host)
             /\ Started(r).file = t.file
  <2>1. PICK was : transfers = {Started(was)} /\ Fetching /\ current.handle # 0
    BY <1>3 DEF OneTransfer
  <2>2. t = Started(was)
    BY <2>1
  <2>3. [t EXCEPT !.result = r] = Started(r) /\ t.host = host /\ Started(r).file = t.file
    BY <2>2 DEF Started
  <2> QED
    BY <1>1, <2>1, <2>2, <2>3 DEF AtHost
<1>4. Started(r)' = Started(r) /\ r \in {"", "server's", "page", "error"} /\ Started(r).result = r
  BY <1>0, <1>1 DEF Started, HandleDownloadRequest, GetFileForDownload
<1>5. OneTransfer'
  BY <1>0, <1>3, <1>4 DEF OneTransfer, Fetching, Running
<1>6. NoPages'
  <2> SUFFICES ASSUME ~replaced PROVE NoPages'
    BY <1>0 DEF NoPages
  <2>1. refused \subseteq refused'
    BY <1>1
  <2>2. \A f \in Files : disk'[f] = "page" => left' \/ f \in refused'
    BY <1>0, <2>1 DEF NoPages
  <2>3. r = "page" => left' \/ t.file \in refused'
    BY <1>0, <1>1, <1>3
  <2>4. \A u \in transfers' : u.result = "page" => left' \/ u.file \in refused'
    <3>1. Started(r).result = r /\ Started(r).file = t.file /\ transfers' = {Started(r)}
      BY <1>3, <1>4
    <3> QED
      BY <2>3, <3>1, Zenon
  <2>5. disk' \in [Files -> Kept \cup {"page"}]
    BY <1>0 DEF NoPages
  <2> QED
    BY <2>2, <2>4, <2>5 DEF NoPages
<1> QED
  BY <1>2, <1>5, <1>6

\* The transfer that is done is the current one, and leaves no other behind.
LEMMA FinishKeepsPlaces ==
  ASSUME PlaceInv, Running, NEW t \in transfers, Finish(t)
  PROVE  PlaceInv'
<1> USE DEF PlaceInv
<1>0. /\ UNCHANGED <<isDownloading, queue, host, leaked, replaced, refused>>
      /\ current.handle # 0 /\ \A u \in transfers : u.result # ""
  BY DEF Finish, NoneRunning
<1>1. PICK rest \in {transfers \ {t}, {u \in transfers \ {t} : ~Own(u)}} :
        transfers' = rest /\ crashed' = IF Succeeded(t) /\ rest # {} THEN "mixup" ELSE "no"
  BY DEF Finish
<1>2. ASSUME ~replaced
      PROVE  transfers' = {} /\ crashed' = "no"
  BY <1>1, <1>2 DEF OneTransfer
<1>3. NoMixup' /\ OneTransfer'
  BY <1>0, <1>2 DEF NoMixup, OneTransfer
<1>4. CASE ~Succeeded(t)
  <2>1. failed' = TRUE /\ Drop(FALSE) /\ UNCHANGED <<disk, current>>
    BY <1>4 DEF Finish
  <2>2. left' = left
    BY <2>1 DEF Drop, Channel
  <2>3. left' \in BOOLEAN /\ RecordOK' /\ FailedStays' /\ AtHost' /\ NoPages'
    BY <1>0, <1>2, <2>1, <2>2 DEF RecordOK, FailedStays, AtHost, NoPages, Fetching
  <2> QED
    BY <1>3, <2>3
<1>5. CASE Succeeded(t)
  <2>1. /\ disk' = [disk EXCEPT ![current.file] = Written] /\ current' = None
        /\ UNCHANGED <<conn, left, failed>>
    BY <1>5 DEF Finish, join
  <2>2. left' \in BOOLEAN /\ RecordOK' /\ FailedStays' /\ AtHost'
    BY <1>0, <2>1 DEF RecordOK, FailedStays, AtHost, Fetching, Connected, None, Finish
  <2>3. ASSUME ~replaced
        PROVE  /\ Written \in Kept \cup {"page"}
               /\ Written = "page" => left \/ current.file \in refused
    <3>1. PICK r \in {"", "server's", "page", "error"} : transfers = {Started(r)}
      BY <2>3 DEF OneTransfer
    <3>2. t = Started(r)
      BY <3>1
    <3>3. Own(t) /\ t.result = r /\ t.file = current.file
      BY <3>2 DEF Own, Started
    <3>4. r \in {"server's", "page"} /\ (r = "page" => left \/ current.file \in refused)
      BY <1>0, <1>5, <2>3, <3>3 DEF Succeeded, NoPages
    <3>5. (CHOOSE u \in transfers : Own(u)) = t
      BY <3>1, <3>2, <3>3
    <3> QED
      BY <3>3, <3>4, <3>5 DEF Written, Kept
  <2>4. NoPages'
    <3> SUFFICES ASSUME ~replaced PROVE NoPages'
      BY <1>0 DEF NoPages
    <3>1. disk \in [Files -> Kept \cup {"page"}] /\ \A f \in Files : disk[f] = "page" => left \/ f \in refused
      BY DEF NoPages
    <3>2. disk' \in [Files -> Kept \cup {"page"}]
      BY <2>1, <2>3, <3>1
    <3>3. \A f \in Files : disk'[f] = "page" => left' \/ f \in refused'
      BY <1>0, <2>1, <2>3, <3>1
    <3> QED
      BY <1>2, <3>2, <3>3 DEF NoPages
  <2> QED
    BY <1>3, <2>2, <2>4
<1> QED
  BY <1>4, <1>5

\* No step breaks the invariant.
LEMMA PlaceNextInv ==
  ASSUME PlaceInv, [Next]_vars
  PROVE  PlaceInv'
<1> USE DEF PlaceInv
<1>1. CASE UNCHANGED vars
  BY <1>1, OthersKeepPlaces DEF vars, join, game, history
<1>12. CASE Running /\ FinishAgain
  <2>1. UNCHANGED <<disk, dls, conn, left, replaced, refused, failed>>
    BY <1>12 DEF FinishAgain, join, game, history
  <2>2. crashed' \in {"mixup", "stale"} /\ (crashed' = "mixup" => transfers # {})
    BY <1>12 DEF FinishAgain
  <2>3. failed /\ Running
    BY <1>12 DEF FinishAgain
  <2>4. ~replaced => transfers = {}
    BY <2>3 DEF OneTransfer, Fetching
  <2>5. left' \in BOOLEAN /\ RecordOK' /\ FailedStays' /\ OneTransfer' /\ AtHost' /\ NoMixup' /\ NoPages'
    BY <2>1, <2>2, <2>4 DEF dls, RecordOK, FailedStays, OneTransfer, AtHost, NoMixup, NoPages, Fetching, Connected, Running
  <2> QED
    BY <2>5
<1>2. CASE Joining
  <2>1. UNCHANGED <<disk, dls, replaced, refused, failed, crashed>>
    BY <1>2 DEF Joining
  <2>2. UNCHANGED <<conn, left>> \/ left' = (left \/ Fetching)
    BY <1>2 DEF Joining, ConnectFrame, Connect, ConnectUnresolved, JoinResponse, Channel
  <2> QED
    BY <2>1, <2>2, OthersKeepPlaces
<1>3. CASE Leave
  BY <1>3, OthersKeepPlaces DEF Leave, Drop, Channel
<1>4. CASE InitDownloads
  BY <1>4, OthersKeepPlaces DEF InitDownloads, join
<1>5. CASE Running /\ ParseDownload
  BY <1>5, ListKeepsPlaces
<1>6. ASSUME NEW s \in Servers, SendDownloads(s) \/ WriteDownload(s) PROVE PlaceInv'
  BY <1>6, OthersKeepPlaces DEF SendDownloads, WriteDownload, join, history
<1>7. CASE Shutdown
  <2>1. /\ UNCHANGED <<disk, isDownloading, host, current, conn, left, replaced, refused, failed, crashed>>
        /\ transfers' = {}
    BY <1>7 DEF Shutdown, join, game, history
  <2>2. left' \in BOOLEAN /\ RecordOK' /\ FailedStays' /\ OneTransfer' /\ AtHost' /\ NoMixup' /\ NoPages'
    BY <2>1 DEF RecordOK, FailedStays, OneTransfer, AtHost, NoMixup, NoPages, Fetching, Connected, Running
  <2> QED
    BY <2>2
<1>8. CASE Running /\ Dequeue
  <2>1. /\ UNCHANGED <<disk, isDownloading, host, transfers, conn, left, replaced, refused, failed, crashed>>
        /\ current = None /\ current' = [file |-> Head(queue), handle |-> 0]
        /\ ~(isDownloading /\ failed)
    BY <1>8 DEF Dequeue, FreeToDequeue, FailedStays, None, join, game, history
  <2>2. ~replaced => transfers = {}
    BY <1>8, <2>1 DEF OneTransfer, None
  <2>3. left' \in BOOLEAN /\ RecordOK' /\ FailedStays' /\ OneTransfer' /\ AtHost' /\ NoMixup' /\ NoPages'
    BY <2>1, <2>2 DEF RecordOK, FailedStays, OneTransfer, AtHost, NoMixup, NoPages, Fetching, Connected, Running
  <2> QED
    BY <2>3
<1>9. CASE Running /\ OpenFile
  BY <1>9, OpenKeepsPlaces
<1>10. CASE Running /\ Complete
  <2>1. /\ UNCHANGED <<disk, current, transfers, replaced, refused, failed, crashed>>
        /\ current = None /\ isDownloading' = FALSE
    BY <1>10 DEF Complete
  <2>2. left' = left
    BY <1>10 DEF Complete, Channel
  <2>3. ~replaced => transfers = {}
    BY <1>10, <2>1 DEF OneTransfer, None
  <2>4. left' \in BOOLEAN /\ RecordOK' /\ FailedStays' /\ OneTransfer' /\ AtHost' /\ NoMixup' /\ NoPages'
    BY <2>1, <2>2, <2>3 DEF RecordOK, FailedStays, OneTransfer, AtHost, NoMixup, NoPages, Fetching, Running
  <2> QED
    BY <2>4
<1>11. ASSUME Running, NEW t \in transfers, Transfer(t) \/ Finish(t) PROVE PlaceInv'
  BY <1>11, TransferKeepsPlaces, FinishKeepsPlaces
<1> QED
  BY <1>1, <1>2, <1>3, <1>4, <1>5, <1>6, <1>7, <1>8, <1>9, <1>10, <1>11, <1>12 DEF Next

LEMMA PlaceInvariant == Spec => []PlaceInv
<1>1. Init => PlaceInv
  BY PlaceInitInv
<1>2. PlaceInv /\ [Next]_vars => PlaceInv'
  BY PlaceNextInv
<1> QED
  BY <1>1, <1>2, PTL DEF Spec

\* DL_ProcessDownload never puts a torn file in place, and the page of an HTTP
\* error only for a file its server refused or after the client left early, for
\* any lists, disks and servers, unless a list replaced another.
THEOREM PlacesWholeAnswers == Spec => []PlacedIsAnswer
<1>1. PlaceInv => PlacedIsAnswer
  BY DEF PlaceInv, NoPages, PlacedIsAnswer
<1> QED
  BY <1>1, PlaceInvariant, PTL

\* The messages of the multi handle are the current download's as long as no
\* list replaces another: currentDownload is enough.
THEOREM OneRecordIsEnough == Spec => []NoMixup
<1>1. PlaceInv => NoMixup
  BY DEF PlaceInv
<1> QED
  BY <1>1, PlaceInvariant, PTL

-------------------------------------------------------------------------------

\* The loop of FS_CompareWithServerFiles over d, what is on the disk: what it
\* has of the first files of a list.
Loop(d, list, needed, n) ==
  needed = [i \in 0..n |->
              IF i = 0 THEN <<>>
              ELSE IF d[list[i]] = "none" THEN Append(needed[i - 1], list[i])
              ELSE needed[i - 1]]

\* The loop comes to its end: otherwise there were a first place it does not
\* come to.
LEMMA LoopEnds ==
  ASSUME NEW d, NEW list, NEW N \in Nat
  PROVE  \E needed : Loop(d, list, needed, N)
<1> DEFINE Stuck == {n \in 0..N : ~\E needed : Loop(d, list, needed, n)}
<1>1. SUFFICES ASSUME Stuck # {} PROVE FALSE
  OBVIOUS
<1>2. PICK n \in Stuck : \A k \in Stuck : ~(<<k, n>> \in OpToRel(<, Nat))
  <2>1. IsWellFoundedOn(OpToRel(<, Nat), Nat)
    BY NatLessThanWellFounded
  <2>2. Stuck \subseteq Nat
    OBVIOUS
  <2> HIDE DEF Stuck
  <2> QED BY <1>1, <2>1, <2>2, WFMin, Zenon
<1>3. n \in 0..N /\ ~\E needed : Loop(d, list, needed, n)
  OBVIOUS
<1>4. CASE n = 0
  <2>1. Loop(d, list, [i \in 0..0 |-> <<>>], 0)
    BY DEF Loop
  <2> QED BY <1>3, <1>4, <2>1
<1>5. CASE n # 0
  <2>1. n \in Nat /\ n - 1 \in 0..N /\ n - 1 < n /\ n - 1 \in Nat
    BY <1>3, <1>5
  <2>2. n - 1 \notin Stuck
    BY <1>2, <2>1 DEF OpToRel
  <2>3. PICK before : Loop(d, list, before, n - 1)
    BY <2>1, <2>2
  <2> DEFINE last == IF d[list[n]] = "none" THEN Append(before[n - 1], list[n]) ELSE before[n - 1]
             needed == [i \in 0..n |-> IF i = n THEN last ELSE before[i]]
  <2>4. ASSUME NEW i \in 0..n
        PROVE  needed[i] = IF i = 0 THEN <<>>
                           ELSE IF d[list[i]] = "none" THEN Append(needed[i - 1], list[i])
                           ELSE needed[i - 1]
    <3>1. CASE i = n
      <4>1. needed[n] = last /\ needed[n - 1] = before[n - 1]
        BY <2>1
      <4> QED BY <1>5, <3>1, <4>1
    <3>2. CASE i # n
      <4>1. i \in 0..(n - 1) /\ needed[i] = before[i] /\ (i # 0 => i - 1 \in 0..n /\ i - 1 # n)
        BY <2>1, <3>2
      <4>2. i # 0 => needed[i - 1] = before[i - 1]
        BY <4>1
      <4> QED BY <2>3, <4>1, <4>2 DEF Loop
    <3> QED BY <3>1, <3>2
  <2>5. Loop(d, list, needed, n)
    BY <2>4 DEF Loop
  <2> QED BY <1>3, <2>5
<1> QED BY <1>4, <1>5

\* ... with files that are not on the disk.
LEMMA LoopSelects ==
  ASSUME NEW d, NEW S, NEW list \in Seq(S), NEW needed, Loop(d, list, needed, Len(list))
  PROVE  needed[Len(list)] \in Seq({f \in S : d[f] = "none"})
<1> DEFINE T == {f \in S : d[f] = "none"}
           N == Len(list)
           Odd == {n \in 0..N : needed[n] \notin Seq(T)}
<1>0. N \in Nat /\ \A i \in 1..N : list[i] \in S
  OBVIOUS
<1> SUFFICES ASSUME Odd # {} PROVE FALSE
  BY <1>0
<1>1. PICK n \in Odd : \A k \in Odd : ~(<<k, n>> \in OpToRel(<, Nat))
  <2>1. IsWellFoundedOn(OpToRel(<, Nat), Nat)
    BY NatLessThanWellFounded
  <2>2. Odd \subseteq Nat
    OBVIOUS
  <2> HIDE DEF Odd
  <2> QED BY <2>1, <2>2, WFMin, Zenon
<1>2. n \in 0..N /\ needed[n] \notin Seq(T)
  OBVIOUS
<1>3. n # 0
  <2>1. needed[0] = <<>>
    BY <1>0 DEF Loop
  <2> HIDE DEF T
  <2>2. <<>> \in Seq(T)
    OBVIOUS
  <2> QED BY <1>2, <2>1, <2>2
<1>4. n \in Nat /\ n - 1 \in 0..N /\ n - 1 < n /\ n - 1 \in Nat /\ n \in 1..N
  BY <1>0, <1>2, <1>3
<1>5. needed[n - 1] \in Seq(T)
  BY <1>1, <1>4 DEF OpToRel
<1>6. needed[n] = IF d[list[n]] = "none" THEN Append(needed[n - 1], list[n]) ELSE needed[n - 1]
  BY <1>2, <1>3 DEF Loop
<1>7. d[list[n]] = "none" => list[n] \in T
  BY <1>0, <1>4
<1> HIDE DEF T
<1> QED BY <1>2, <1>5, <1>6, <1>7, AppendProperties

\* Only files are asked for that are not on the disk.
LEMMA MissingAreMissing ==
  ASSUME NEW s \in Servers
  PROVE  Missing(s) \in Seq({f \in Files : disk[f] = "none"})
<1>1. Required[s] \in Seq(Files)
  BY DownloadAssumption
<1> DEFINE needed == CHOOSE g : Loop(disk, Required[s], g, Len(Required[s]))
<1>2. Loop(disk, Required[s], needed, Len(Required[s]))
  <2>1. Len(Required[s]) \in Nat
    BY <1>1
  <2> QED BY <2>1, LoopEnds
<1>3. Missing(s) = needed[Len(Required[s])]
  BY DEF Missing, Loop
<1> HIDE DEF needed
<1> QED BY <1>1, <1>2, <1>3, LoopSelects

-------------------------------------------------------------------------------

\* what a download may put in place without touching a file of the player's
Fetchable == {f \in Files : disk[f] \in {"none", "server's", "page"}}

\* what has been asked for, is listed, queued or fetched is of that kind, and no
\* file was left open
ListsOK ==
  ~left /\ ~replaced =>
    /\ request \in Seq(Fetchable) /\ names \in [Servers -> Seq(Fetchable)]
    /\ inbox \in Seq(Seq(Fetchable)) /\ queue \in Seq(Fetchable)
    /\ current = None \/ current.file \in Fetchable
    /\ leaked = {}

\* only what is being downloaded has a handle
HandleInUse == current.handle # 0 => isDownloading

FileInv == JoinTypeOK /\ PlaceInv /\ HandleInUse /\ ListsOK

\* History only grows.
LEMMA HistoryGrows ==
  ASSUME [Next]_vars, left \in BOOLEAN
  PROVE  (left => left') /\ (replaced => replaced')
<1>1. ASSUME UNCHANGED left \/ left' = (left \/ FALSE) \/ left' = (left \/ Fetching),
             UNCHANGED replaced \/ replaced' = (replaced \/ Fetching)
      PROVE  (left => left') /\ (replaced => replaced')
  <2>1. left => left'
    BY <1>1
  <2>2. replaced => replaced'
    BY <1>1
  <2> QED BY <2>1, <2>2
<1>2. ASSUME NEW fetching, Channel(fetching) PROVE left' = (left \/ fetching)
  BY <1>2 DEF Channel
<1>3. ASSUME NEW t \in transfers, Transfer(t) PROVE UNCHANGED left /\ UNCHANGED replaced
  BY <1>3 DEF Transfer
<1>4. ASSUME NEW t \in transfers, Finish(t) PROVE (UNCHANGED left \/ Channel(FALSE)) /\ UNCHANGED replaced
  BY <1>4 DEF Finish, Drop
<1>5. ASSUME NEW s \in Servers, SendDownloads(s) \/ WriteDownload(s) PROVE UNCHANGED left /\ UNCHANGED replaced
  BY <1>5 DEF SendDownloads, WriteDownload, history
<1>6. CASE Joining
  <2>1. (UNCHANGED left \/ Channel(Fetching)) /\ UNCHANGED replaced
    BY <1>6 DEF Joining
  <2> QED BY <1>1, <1>2, <2>1
<1>7. CASE Leave \/ Complete
  <2>1. (Channel(Fetching) \/ Channel(FALSE)) /\ UNCHANGED replaced
    BY <1>7 DEF Leave, Drop, Complete
  <2> QED BY <1>1, <1>2, <2>1
<1>8. CASE OpenFile
  <2>1. (UNCHANGED left \/ Channel(FALSE)) /\ UNCHANGED replaced
    BY <1>8 DEF OpenFile, Drop
  <2> QED BY <1>1, <1>2, <2>1
<1>9. CASE ParseDownload
  <2>1. UNCHANGED left /\ replaced' = (replaced \/ Fetching)
    BY <1>9 DEF ParseDownload
  <2> QED BY <1>1, <2>1
<1>10. CASE InitDownloads \/ Shutdown \/ Dequeue \/ FinishAgain \/ UNCHANGED vars
  <2>1. UNCHANGED left /\ UNCHANGED replaced
    BY <1>10 DEF InitDownloads, Shutdown, Dequeue, FinishAgain, vars, history
  <2> QED BY <1>1, <2>1
<1> QED
  BY <1>1, <1>2, <1>3, <1>4, <1>5, <1>6, <1>7, <1>8, <1>9, <1>10, Zenon DEF Next

\* What is put in place is the server's, or the page of a refusal.
LEMMA AnswerIsWritten ==
  ASSUME PlaceInv, Running, NEW t \in transfers, Finish(t), Succeeded(t), ~left, ~replaced, leaked = {}
  PROVE  /\ Written = "server's" \/ (Written = "page" /\ current.file \in refused)
         /\ disk \in [Files -> Kept \cup {"page"}]
<1>1. PICK r \in {"", "server's", "page", "error"} : transfers = {Started(r)}
  BY DEF PlaceInv, OneTransfer
<1>2. t = Started(r)
  BY <1>1
<1>3. Own(t) /\ t.result = r /\ r # "" /\ t.file = current.file
  BY <1>2 DEF Own, Started, Finish, NoneRunning
<1>4. /\ r = "server's" \/ (r = "page" /\ current.file \in refused)
      /\ disk \in [Files -> Kept \cup {"page"}]
  BY <1>3 DEF Succeeded, PlaceInv, NoPages
<1>5. (CHOOSE u \in transfers : Own(u)) = t
  BY <1>1, <1>2, <1>3
<1> QED BY <1>3, <1>4, <1>5 DEF Written

\* The empty list, and lists of files that are on the disk no more.
LEMMA ListsOf ==
  ASSUME NEW S, NEW T, S \subseteq T
  PROVE  <<>> \in Seq(S) /\ Seq(S) \subseteq Seq(T) /\ Seq(Seq(S)) \subseteq Seq(Seq(T))
<1>1. \A A, B : A \subseteq B => Seq(A) \subseteq Seq(B)
  <2> SUFFICES ASSUME NEW A, NEW B, A \subseteq B, NEW s \in Seq(A) PROVE s \in Seq(B)
    OBVIOUS
  <2>1. \A i \in 1..Len(s) : s[i] \in B
    OBVIOUS
  <2>2. s \in [1..Len(s) -> B] /\ Len(s) \in Nat
    BY <2>1
  <2> QED BY <2>2
<1> QED BY <1>1

LEMMA FileNextInv ==
  ASSUME FileInv, [Next]_vars, ~left', ~replaced'
  PROVE  /\ request' \in Seq(Fetchable') /\ names' \in [Servers -> Seq(Fetchable')]
         /\ inbox' \in Seq(Seq(Fetchable')) /\ queue' \in Seq(Fetchable')
         /\ current' = None \/ current'.file \in Fetchable'
         /\ leaked' = {}
<1> DEFINE F == Fetchable
           Goal == /\ request' \in Seq(Fetchable') /\ names' \in [Servers -> Seq(Fetchable')]
                   /\ inbox' \in Seq(Seq(Fetchable')) /\ queue' \in Seq(Fetchable')
                   /\ current' = None \/ current'.file \in Fetchable'
                   /\ leaked' = {}
<1>0. ~left /\ ~replaced
  BY HistoryGrows DEF FileInv, PlaceInv
<1>1. /\ request \in Seq(F) /\ names \in [Servers -> Seq(F)] /\ inbox \in Seq(Seq(F)) /\ queue \in Seq(F)
      /\ current = None \/ current.file \in F
      /\ leaked = {}
  BY <1>0 DEF FileInv, ListsOK
<1>2. disk' = disk => Fetchable' = F
  BY DEF Fetchable
<1>3. <<>> \in Seq(F) /\ <<>> \in Seq(Seq(F))
  OBVIOUS
<1> HIDE DEF F
<1>4. ASSUME NEW fetching, Channel(fetching) PROVE request' = <<>> /\ inbox' = <<>>
  BY <1>4 DEF Channel
<1>5. ASSUME UNCHANGED <<disk, names, dls>>,
             UNCHANGED <<request, inbox>> \/ (request' = <<>> /\ inbox' = <<>>)
      PROVE  Goal
  BY <1>1, <1>2, <1>3, <1>5 DEF dls
<1>6. CASE UNCHANGED vars
  BY <1>5, <1>6 DEF vars, game
<1>7. CASE Joining \/ Leave
  BY <1>4, <1>5, <1>7 DEF Joining, Leave, Drop
<1>8. CASE InitDownloads
  <2>1. conn.server \in Servers
    BY <1>8 DEF InitDownloads, FileInv, JoinTypeOK
  <2>2. Missing(conn.server) \in Seq({f \in Files : disk[f] = "none"})
    BY <2>1, MissingAreMissing
  <2>3. {f \in Files : disk[f] = "none"} \subseteq F
    BY DEF F, Fetchable
  <2>4. Missing(conn.server) \in Seq(F)
    BY <2>2, <2>3, ListsOf
  <2>5. request' \in Seq(F) /\ UNCHANGED <<disk, names, inbox, queue, current, leaked>>
    BY <1>1, <1>8, <2>4 DEF InitDownloads, dls
  <2> QED BY <1>1, <1>2, <2>5
<1>9. CASE ParseDownload
  <2>1. queue' \in Seq(F) /\ inbox' \in Seq(Seq(F))
    BY <1>1, <1>9, HeadTailProperties DEF ParseDownload
  <2>2. ~Fetching
    BY <1>9 DEF ParseDownload
  <2>3. leaked' = {}
    BY <1>1, <1>9, <2>2 DEF ParseDownload, FileInv, HandleInUse, Fetching
  <2>4. UNCHANGED <<disk, request, names>> /\ current' = None
    BY <1>9 DEF ParseDownload
  <2> QED BY <1>1, <1>2, <2>1, <2>3, <2>4
<1>10. ASSUME NEW s \in Servers, SendDownloads(s) PROVE Goal
  <2>1. names' = [names EXCEPT ![s] = request] /\ request' = <<>> /\ UNCHANGED <<disk, inbox, queue, current, leaked>>
    BY <1>10 DEF SendDownloads, dls
  <2>2. names' \in [Servers -> Seq(F)]
    BY <1>1, <2>1
  <2> QED BY <1>1, <1>2, <1>3, <2>1, <2>2
<1>11. ASSUME NEW s \in Servers, WriteDownload(s) PROVE Goal
  <2>1. /\ names' = [names EXCEPT ![s] = <<>>] /\ inbox' \in {inbox, Append(inbox, names[s])}
        /\ UNCHANGED <<disk, request, queue, current, leaked>>
    BY <1>11 DEF WriteDownload, dls
  <2>2. names' \in [Servers -> Seq(F)]
    BY <1>1, <1>3, <2>1
  <2>3. names[s] \in Seq(F)
    BY <1>1
  <2>4. inbox' \in Seq(Seq(F))
    <3> DEFINE L == Seq(F)
    <3>1. inbox \in Seq(L) /\ names[s] \in L
      BY <1>1, <2>3
    <3> HIDE DEF L
    <3>2. Append(inbox, names[s]) \in Seq(L)
      BY <3>1, AppendProperties
    <3>3. inbox' \in Seq(L)
      BY <2>1, <3>1, <3>2
    <3> QED BY <3>3 DEF L
  <2> QED BY <1>1, <1>2, <2>1, <2>2, <2>4
<1>12. CASE Shutdown
  <2>1. UNCHANGED <<disk, request, names, inbox, queue, current, leaked>>
    BY <1>12 DEF Shutdown, game
  <2> QED BY <1>1, <1>2, <2>1
<1>13. CASE Dequeue
  <2>1. /\ queue # <<>> /\ queue' = Tail(queue) /\ current' = [file |-> Head(queue), handle |-> 0]
        /\ UNCHANGED <<disk, request, names, inbox, leaked>>
    BY <1>13 DEF Dequeue, FreeToDequeue, game
  <2>2. queue' \in Seq(F) /\ current'.file \in F
    BY <1>1, <2>1, HeadTailProperties
  <2> QED BY <1>1, <1>2, <2>1, <2>2
<1>14. CASE OpenFile
  <2>1. current'.file = current.file /\ current # None
    BY <1>14 DEF OpenFile, FileInv, PlaceInv, RecordOK
  <2>2. UNCHANGED <<disk, names, queue, leaked>>
    BY <1>14 DEF OpenFile
  <2>3. UNCHANGED <<request, inbox>> \/ (request' = <<>> /\ inbox' = <<>>)
    BY <1>4, <1>14 DEF OpenFile, Drop
  <2> QED BY <1>1, <1>2, <1>3, <2>1, <2>2, <2>3
<1>15. CASE Complete
  <2>1. request' = <<>> /\ inbox' = <<>> /\ UNCHANGED <<disk, names, queue, current, leaked>>
    BY <1>4, <1>15 DEF Complete
  <2> QED BY <1>1, <1>2, <1>3, <2>1
<1>16. ASSUME NEW t \in transfers, Transfer(t) PROVE Goal
  <2>1. UNCHANGED <<disk, request, names, inbox, queue, current, leaked>>
    BY <1>16 DEF Transfer, game
  <2> QED BY <1>1, <1>2, <2>1
<1>18. CASE FinishAgain
  BY <1>5, <1>18 DEF FinishAgain, game
<1>17. ASSUME Running, NEW t \in transfers, Finish(t) PROVE Goal
  <2>1. UNCHANGED <<names, queue, leaked>>
    BY <1>17 DEF Finish
  <2>2. CASE ~Succeeded(t)
    <3>1. request' = <<>> /\ inbox' = <<>> /\ UNCHANGED <<disk, current>>
      BY <1>4, <1>17, <2>2 DEF Finish, Drop
    <3> QED BY <1>1, <1>2, <1>3, <2>1, <3>1
  <2>3. CASE Succeeded(t)
    <3>1. disk' = [disk EXCEPT ![current.file] = Written] /\ current' = None /\ UNCHANGED <<request, inbox>>
      BY <1>17, <2>3 DEF Finish
    <3>2. Written \in {"server's", "page"} /\ disk \in [Files -> Kept \cup {"page"}]
      BY <1>0, <1>1, <1>17, <2>3, AnswerIsWritten DEF FileInv
    <3>3. F \subseteq Fetchable'
      BY <3>1, <3>2 DEF F, Fetchable
    <3>4. Seq(F) \subseteq Seq(Fetchable') /\ Seq(Seq(F)) \subseteq Seq(Seq(Fetchable'))
      <4> DEFINE T == Fetchable'
      <4>1. F \subseteq T
        BY <3>3
      <4> HIDE DEF T
      <4>2. Seq(F) \subseteq Seq(T) /\ Seq(Seq(F)) \subseteq Seq(Seq(T))
        BY <4>1, ListsOf
      <4> QED BY <4>2 DEF T
    <3> QED BY <1>1, <2>1, <3>1, <3>4
  <2> QED BY <2>2, <2>3
<1> QED
  BY <1>6, <1>7, <1>8, <1>9, <1>10, <1>11, <1>12, <1>13, <1>14, <1>15, <1>16, <1>17, <1>18 DEF Next

LEMMA FileInvariant == Spec => []FileInv
<1>1. Init => HandleInUse /\ ListsOK
  <2> SUFFICES ASSUME Init PROVE HandleInUse /\ ListsOK
    OBVIOUS
  <2>1. <<>> \in Seq(Fetchable) /\ <<>> \in Seq(Seq(Fetchable))
    OBVIOUS
  <2> QED BY <2>1 DEF Init, HandleInUse, ListsOK, None
<1>2. FileInv /\ [Next]_vars => ListsOK'
  BY FileNextInv DEF ListsOK
<1>3. FileInv /\ [Next]_vars => HandleInUse'
  <2> SUFFICES ASSUME FileInv, [Next]_vars PROVE HandleInUse'
    OBVIOUS
  <2> USE DEF HandleInUse
  <2>0. HandleInUse
    BY DEF FileInv
  <2>1. CASE UNCHANGED dls
    BY <2>0, <2>1 DEF dls
  <2>2. CASE ParseDownload \/ Dequeue \/ Complete
    <3>1. None.handle = 0
      BY DEF None
    <3>2. isDownloading' \/ current' = None \/ current'.handle = 0
      <4>1. ParseDownload => isDownloading'
        BY DEF ParseDownload
      <4>2. Dequeue => current'.handle = 0
        BY DEF Dequeue
      <4>3. Complete => current' = None
        BY DEF Complete
      <4> QED BY <2>2, <4>1, <4>2, <4>3
    <3> QED BY <3>1, <3>2
  <2>3. CASE Shutdown
    BY <2>0, <2>3 DEF Shutdown
  <2>4. CASE OpenFile
    <3>1. current.handle = 0 /\ isDownloading /\ (UNCHANGED isDownloading \/ UNCHANGED current)
      BY <2>4 DEF OpenFile
    <3> QED BY <3>1
  <2>5. ASSUME NEW t \in transfers, Transfer(t) \/ Finish(t) PROVE HandleInUse'
    BY <2>0, <2>5 DEF Transfer, Finish
  <2> QED
    BY <2>1, <2>2, <2>3, <2>4, <2>5
    DEF Next, vars, Joining, Leave, InitDownloads, SendDownloads, WriteDownload, FinishAgain
<1>4. FileInv <=> JoinTypeOK /\ PlaceInv /\ HandleInUse /\ ListsOK
  BY DEF FileInv
<1> QED BY <1>1, <1>2, <1>3, <1>4, JoinTypeCorrect, PlaceInvariant, PTL DEF Spec

\* A download touches no file the player has, not even one that only has the
\* name of the server's, for any lists and disks, but to put the page of a
\* refusal over it, unless the client left early or a list replaced another.
THEOREM PlayersFilesStay == Spec => KeepsFiles
<1>1. FileInv /\ [Next]_vars =>
        [~left' /\ ~replaced' =>
           \A f \in Files : disk[f] # "none" => disk'[f] = disk[f] \/ f \in refused']_vars
  <2> SUFFICES ASSUME FileInv, [Next]_vars, ~left', ~replaced', NEW f \in Files, disk[f] # "none"
               PROVE  disk'[f] = disk[f] \/ f \in refused'
    OBVIOUS
  <2>0. ~left /\ ~replaced
    BY HistoryGrows DEF FileInv, PlaceInv
  <2>1. ASSUME Running, NEW t \in transfers, Finish(t) PROVE disk'[f] = disk[f] \/ f \in refused'
    <3>1. CASE ~Succeeded(t)
      BY <2>1, <3>1 DEF Finish
    <3>2. CASE Succeeded(t)
      <4>1. /\ Written = "server's" \/ (Written = "page" /\ current.file \in refused)
            /\ disk \in [Files -> Kept \cup {"page"}]
        BY <2>0, <2>1, <3>2, AnswerIsWritten DEF FileInv, ListsOK
      <4>2. /\ disk' = [disk EXCEPT ![current.file] = Written] /\ current.handle # 0
            /\ refused' = refused
        BY <2>1, <3>2 DEF Finish
      <4>3. disk[current.file] \in {"none", "server's"}
              \/ (disk[current.file] = "page" /\ current.file \in refused)
        <5>1. current = None \/ current.file \in Fetchable
          BY <2>0 DEF FileInv, ListsOK
        <5>2. current # None
          <6>1. None.handle = 0
            BY DEF None
          <6> QED BY <4>2, <6>1
        <5>3. \A g \in Files : disk[g] = "page" => g \in refused
          BY <2>0 DEF FileInv, PlaceInv, NoPages
        <5> QED BY <5>1, <5>2, <5>3 DEF Fetchable
      <4> QED BY <4>1, <4>2, <4>3
    <3> QED BY <3>1, <3>2
  <2>2. ASSUME NEW t \in transfers, Transfer(t) PROVE disk' = disk
    BY <2>2 DEF Transfer, game
  <2>3. ASSUME NEW s \in Servers, SendDownloads(s) \/ WriteDownload(s) PROVE disk' = disk
    BY <2>3 DEF SendDownloads, WriteDownload
  <2>4. CASE \/ UNCHANGED vars \/ Joining \/ Leave \/ InitDownloads \/ ParseDownload
             \/ Shutdown \/ Dequeue \/ OpenFile \/ FinishAgain \/ Complete
    BY <2>4 DEF vars, game, Joining, Leave, InitDownloads, ParseDownload, Shutdown, Dequeue, OpenFile,
                FinishAgain, Complete
  <2> QED BY <2>1, <2>2, <2>3, <2>4 DEF Next
<1> QED BY <1>1, FileInvariant, PTL DEF Spec, KeepsFiles
===============================================================================
