---------------------------- MODULE ServerStorage ----------------------------
(***************************************************************************)
(* A player's stored server list, favorites or history: kept in memory,    *)
(* written to the NP service as a whole after every edit, and read back    *)
(* from it at the start of the next session                                *)
(* (steam_api/ServerStorage.cpp).                                          *)
(*                                                                         *)
(* Reading and writing are asynchronous calls of the NP library, which is  *)
(* not in the repository.  It is modelled as one connection: requests      *)
(* reach the service in the order they were made and are answered in that  *)
(* order, each may fail at the service, and some are never answered.  The  *)
(* replies are handed out by NP_RunFrame on the game's thread.             *)
(***************************************************************************)
EXTENDS Integers, Sequences, FiniteSets

CONSTANTS
  Servers,     \* internet addresses; an entry is its address
  Loopback,    \* an address that is not NA_IP
  MaxEntries,  \* maxEntries of the list, -1 for no limit of its own
  MaxStored,   \* SERVERSTORAGE_MAX_ENTRIES
  MaxGets,     \* bound on the retrievals in flight
  MaxWrites,   \* bound on the writes in flight
  MaxLosses,   \* bound on the calls never answered
  MaxSessions  \* bound on the sessions

ASSUME ServerStorageAssumption ==
  /\ Loopback \notin Servers
  /\ MaxStored \in Nat \ {0} /\ MaxEntries \in {-1} \cup 1..MaxStored
  /\ MaxGets \in Nat /\ MaxWrites \in Nat /\ MaxLosses \in Nat /\ MaxSessions \in Nat

VARIABLES
  data,      \* the list in memory
  retrieved, \* the first answer has come
  requests,  \* calls the service has not seen yet
  replies,   \* answers the game has not seen yet
  file,      \* what the service stores
  expected,  \* the servers the player expects in the list (history)
  known,     \* this session was given the stored list (history)
  blind,     \* the list was edited in a session that was not (history)
  mixed,     \* an answer was appended to an earlier one or to other entries (history)
  unsaved,   \* a write failed, was lost or was cut off (history)
  losses,    \* calls lost so far
  session    \* sessions begun

memory  == <<data, retrieved>>
network == <<requests, replies>>
history == <<expected, known, blind, mixed, unsaved>>
bounds  == <<losses, session>>
vars    == <<memory, network, file, history, bounds>>

Entries(s)  == {s[i] : i \in 1..Len(s)}
Without(s, i) == SubSeq(s, 1, i - 1) \o SubSeq(s, i + 1, Len(s))

Get        == [kind |-> "get", list |-> <<>>]
Write(s)   == [kind |-> "write", list |-> s]
Failed     == [ok |-> FALSE, list |-> <<>>]
Got(s)     == [ok |-> TRUE, list |-> s]
Of(kind)   == {i \in 1..Len(requests) : requests[i].kind = kind}
Writes     == Of("write")

Limit == IF MaxEntries = -1 THEN MaxStored ELSE MaxEntries

Distinct(s) == \A i, j \in 1..Len(s) : s[i] = s[j] => i = j

\* what earlier sessions have stored
Stored == {s \in UNION {[1..n -> Servers] : n \in 0..Limit} : Distinct(s)}

Init ==
  /\ data = <<>> /\ retrieved = FALSE
  /\ requests = <<>> /\ replies = <<>>
  /\ file \in Stored
  /\ expected = Entries(file)
  /\ known = FALSE /\ blind = FALSE /\ mixed = FALSE /\ unsaved = FALSE
  /\ losses = 0 /\ session = 1

-------------------------------------------------------------------------------
(* The game.                                                                 *)

\* ServerStorage_EnsureSafeListRetrieval, every frame: asks again whenever two
\* seconds went by without an answer, which is at any time to the model
EnsureSafeListRetrieval ==
  /\ ~retrieved
  /\ Cardinality(Of("get")) + Len(replies) < MaxGets
  /\ requests' = Append(requests, Get)
  /\ UNCHANGED <<memory, replies, file, history, bounds>>

Usable(answer) == answer.ok /\ Len(answer.list) <= MaxStored

\* Mutant: a failure is not an answer.
DeserializeOnlyUsable ==
  /\ replies # <<>>
  /\ IF Usable(Head(replies))
     THEN /\ data' = data \o Head(replies).list
          /\ mixed' = (mixed \/ (Head(replies).list # <<>> /\ (known \/ data # <<>>)))
          /\ known' = TRUE /\ retrieved' = TRUE
     ELSE UNCHANGED <<data, mixed, known, retrieved>>
  /\ replies' = Tail(replies)
  /\ UNCHANGED <<requests, file, expected, blind, unsaved, bounds>>

\* DeserializeListFromNPCB: any answer, a failure too, counts as retrieved
DeserializeListFromNP ==
  /\ replies # <<>>
  /\ LET answer == Head(replies)
     IN  IF Usable(answer)
         THEN /\ data' = data \o answer.list
              /\ mixed' = (mixed \/ (answer.list # <<>> /\ (known \/ data # <<>>)))
              /\ known' = TRUE
         ELSE UNCHANGED <<data, mixed, known>>
  /\ retrieved' = TRUE
  /\ replies' = Tail(replies)
  /\ UNCHANGED <<requests, file, expected, blind, unsaved, bounds>>

\* the oldest entry makes room for a new one
Evict(s) == IF Len(s) >= Limit THEN Tail(s) ELSE s

\* every edit ends with a write of the whole list (SerializeListToNP)
Edit(s, wanted) ==
  /\ Cardinality(Writes) < MaxWrites
  /\ data' = s
  /\ requests' = Append(requests, Write(s))
  /\ expected' = wanted
  /\ blind' = (blind \/ ~known)
  /\ UNCHANGED <<retrieved, replies, file, known, mixed, unsaved, bounds>>

Wanted(s, a) == (expected \ (Entries(data) \ Entries(s))) \cup {a}

\* Mutant: an entry is not looked for first.
AddEntryAgain(a) ==
  /\ a \in Servers
  /\ Edit(Append(Evict(data), a), Wanted(Evict(data), a))

\* ServerStorage_AddEntry: only NA_IP addresses, only new ones
AddEntry(a) ==
  /\ a \in Servers /\ a \notin Entries(data)
  /\ Edit(Append(Evict(data), a), Wanted(Evict(data), a))

First(s, a) == CHOOSE i \in 1..Len(s) : s[i] = a /\ \A j \in 1..(i - 1) : s[j] # a

\* Mutant: the list is not written after a removal.
RemoveEntryUnwritten(a) ==
  /\ a \in Entries(data)
  /\ data' = Without(data, First(data, a))
  /\ expected' = expected \ {a}
  /\ blind' = (blind \/ ~known)
  /\ UNCHANGED <<retrieved, network, file, known, mixed, unsaved, bounds>>

\* ServerStorage_RemoveEntry: the first entry of that address
RemoveEntry(a) ==
  /\ a \in Entries(data)
  /\ Edit(Without(data, First(data, a)), expected \ {a})

\* The player quits, or the game crashes, and starts again
Restart ==
  /\ session < MaxSessions
  /\ session' = session + 1
  /\ data' = <<>> /\ retrieved' = FALSE /\ known' = FALSE
  /\ requests' = <<>> /\ replies' = <<>>
  /\ unsaved' = (unsaved \/ Writes # {})
  /\ UNCHANGED <<file, expected, blind, mixed, losses>>

-------------------------------------------------------------------------------
(* The NP service.                                                           *)

ServeGet ==
  /\ requests # <<>> /\ Head(requests).kind = "get"
  /\ \E answer \in {Got(file), Failed} : replies' = Append(replies, answer)
  /\ requests' = Tail(requests)
  /\ UNCHANGED <<memory, file, history, bounds>>

\* The result of a write is ignored: SerializeListToNPCB frees the buffer
ServeWrite ==
  /\ requests # <<>> /\ Head(requests).kind = "write"
  /\ \/ file' = Head(requests).list /\ UNCHANGED unsaved
     \/ unsaved' = TRUE /\ UNCHANGED file
  /\ requests' = Tail(requests)
  /\ UNCHANGED <<memory, replies, expected, known, blind, mixed, bounds>>

Lose ==
  /\ requests # <<>> /\ losses < MaxLosses
  /\ losses' = losses + 1
  /\ unsaved' = (unsaved \/ Head(requests).kind = "write")
  /\ requests' = Tail(requests)
  /\ UNCHANGED <<memory, replies, file, expected, known, blind, mixed, session>>

Next ==
  \/ EnsureSafeListRetrieval
  \/ DeserializeListFromNP
  \/ \E a \in Servers \cup {Loopback} : AddEntry(a)
  \/ \E a \in Servers : RemoveEntry(a)
  \/ Restart
  \/ ServeGet \/ ServeWrite \/ Lose

Spec == Init /\ [][Next]_vars

\* EnsureSafeRetrieval and NP_RunFrame come with every frame, and the service
\* works off what reaches it.
FairSpec ==
  /\ Spec
  /\ WF_vars(EnsureSafeListRetrieval) /\ WF_vars(DeserializeListFromNP)
  /\ WF_vars(ServeGet) /\ WF_vars(ServeWrite)

-------------------------------------------------------------------------------
Requests == [kind : {"get", "write"}, list : Seq(Servers)]

TypeOK ==
  /\ data \in Seq(Servers) /\ retrieved \in BOOLEAN
  /\ requests \in Seq(Requests)
  /\ replies \in Seq([ok : BOOLEAN, list : Seq(Servers)])
  /\ file \in Seq(Servers) /\ expected \subseteq Servers
  /\ known \in BOOLEAN /\ blind \in BOOLEAN /\ mixed \in BOOLEAN /\ unsaved \in BOOLEAN
  /\ losses \in 0..MaxLosses /\ session \in Nat

\* No server is listed twice and the list keeps within its limit, 50 servers of
\* history and what the retrieve buffer takes of favorites, as long as no answer
\* was appended to an earlier one or to entries the player had already added.
WellKept == ~mixed => Distinct(data) /\ Len(data) <= Limit

\* When every edit followed a successful retrieval and the service lost no
\* write, the service ends up with exactly what the player expects.
StoredAsExpected ==
  ~blind /\ ~mixed /\ ~unsaved /\ Writes = {} => Entries(file) = expected

\* The game asks until it has an answer.
EventuallyRetrieved == []<>retrieved
===============================================================================
