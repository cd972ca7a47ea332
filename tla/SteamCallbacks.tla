---------------------------- MODULE SteamCallbacks ----------------------------
(***************************************************************************)
(* The emulation of Steam's call results and callbacks                     *)
(* (steam_api/SteamBase.cpp, with the calls of SteamMatchmaking007.cpp and *)
(* SteamGameServer009.cpp).  Results wait in a vector until the next       *)
(* SteamAPI_RunCallbacks; the handlers it runs belong to the game and may  *)
(* make further calls and register further handlers, which append to the   *)
(* vectors RunCallbacks is iterating.                                      *)
(*                                                                         *)
(* A vector that grows moves.  An iterator into the old one then reads     *)
(* memory that was freed: what was there, or anything, and its comparison  *)
(* with the end of the new one may come out either way.                    *)
(***************************************************************************)
EXTENDS Integers, Sequences, FiniteSets

CONSTANTS
  Created, Entered,  \* types of callbacks: LobbyCreated_t, and any other
  MaxResults,  \* bound on the results posted
  MaxHandlers  \* bound on the callbacks registered

Types == {Created, Entered}

ASSUME SteamAssumption == MaxResults \in Nat /\ MaxHandlers \in Nat

VARIABLES
  results, capacity,   \* _results and the size of its memory
  callbacks, cbCapacity,  \* _callbacks: the type of each; _resultHandlers:
  resultHandlers,      \* the calls that have one
  callID,
  tickets,             \* being validated by the service
  pc, at, cb,          \* where RunCallbacks is; the results it has begun, the callback it runs
  stale, cbStale,      \* entries in the memory an iterator has lost, 0 if it has not
  posted, delivered, owed, missed, crashed  \* history

queue    == <<results, capacity>>
handlers == <<callbacks, cbCapacity, resultHandlers>>
run      == <<at, cb, stale, cbStale>>
vars     == <<queue, handlers, callID, tickets, pc, run, posted, delivered, owed, missed, crashed>>

Result(nr, type, call) == [nr |-> nr, type |-> type, call |-> call]

Init ==
  /\ results = <<>> /\ capacity = 0
  /\ callbacks = <<>> /\ cbCapacity = 0 /\ resultHandlers = {}
  /\ callID = 0 /\ tickets = 0
  /\ pc = "idle" /\ at = 0 /\ cb = 0 /\ stale = 0 /\ cbStale = 0
  /\ posted = 0 /\ delivered = <<>> /\ owed = {} /\ missed = FALSE /\ crashed = FALSE

\* std::vector's: by a half
Grown(size, need) == IF need <= size THEN size ELSE IF size + size \div 2 >= need THEN size + size \div 2 ELSE need

\* Mutant: a result is put before those that wait.
ReturnFirst(more) == results' = more \o results

\* CSteamBase::ReturnCall
ReturnCall(more) == results' = results \o more

\* one or two results, each with a push_back of its own; the memory a vector leaves was full
Posts(more) ==
  /\ posted + Len(more) + tickets' <= MaxResults
  /\ posted' = posted + Len(more)
  /\ ReturnCall(more)
  /\ capacity' = Grown(Grown(capacity, Len(results) + 1), Len(results'))
  /\ stale' = IF pc # "idle" /\ stale = 0 /\ capacity' # capacity THEN capacity ELSE stale

\* code of the game runs: between the frames, and in the handlers
Outside == pc \in {"idle", "result", "callback"}

\* RequestLobbyList, JoinLobby; the game may have a handler for the result
Call(type, listens) ==
  /\ Outside
  /\ callID' = callID + 1 /\ UNCHANGED tickets
  /\ Posts(<<Result(posted + 1, type, callID')>>)
  /\ resultHandlers' = IF listens THEN resultHandlers \cup {callID'} ELSE resultHandlers
  /\ UNCHANGED <<callbacks, cbCapacity, pc, at, cb, cbStale, delivered, owed, missed, crashed>>

\* CreateLobby joins the lobby before it returns; its own call has the first number
CreateLobby ==
  /\ Outside
  /\ callID' = callID + 2 /\ UNCHANGED tickets
  /\ Posts(<<Result(posted + 1, Created, callID + 1), Result(posted + 2, Entered, callID')>>)
  /\ resultHandlers' = resultHandlers \cup {callID + 1}
  /\ UNCHANGED <<callbacks, cbCapacity, pc, at, cb, cbStale, delivered, owed, missed, crashed>>

\* SendUserConnectAndAuthenticate, and the answer, which belongs to no call
Authenticate ==
  /\ Outside /\ posted + tickets < MaxResults
  /\ tickets' = tickets + 1
  /\ UNCHANGED <<queue, handlers, callID, pc, run, posted, delivered, owed, missed, crashed>>

OnValidateTicket(type) ==
  /\ pc = "idle" /\ tickets > 0
  /\ tickets' = tickets - 1
  /\ Posts(<<Result(posted + 1, type, 0)>>)
  /\ UNCHANGED <<handlers, callID, pc, at, cb, cbStale, delivered, owed, missed, crashed>>

RegisterCallback(type) ==
  /\ Outside /\ Len(callbacks) < MaxHandlers
  /\ callbacks' = Append(callbacks, type)
  /\ cbCapacity' = Grown(cbCapacity, Len(callbacks'))
  /\ cbStale' = IF pc = "callback" /\ cbStale = 0 /\ cbCapacity' # cbCapacity THEN Len(callbacks) ELSE cbStale
  /\ UNCHANGED <<queue, resultHandlers, callID, tickets, pc, at, cb, stale, posted, delivered, owed, missed, crashed>>

-------------------------------------------------------------------------------
(* CSteamBase::RunCallbacks.                                                 *)

\* Mutant: what belongs to no call does not start a pass.
StartForCalls ==
  /\ pc = "idle" /\ \E i \in 1..Len(results) : results[i].call # 0
  /\ pc' = "next"
  /\ UNCHANGED <<queue, handlers, callID, tickets, run, posted, delivered, owed, missed, crashed>>

Start ==
  /\ pc = "idle" /\ results # <<>>
  /\ pc' = "next"
  /\ UNCHANGED <<queue, handlers, callID, tickets, run, posted, delivered, owed, missed, crashed>>

\* what the iterator can still reach: the vector, or the memory it had
Reach == 1..(IF stale = 0 THEN Len(results) ELSE stale)

\* the result's own handler comes first
Deliver ==
  /\ pc = "next" /\ at + 1 \in Reach
  /\ LET result == results[at + 1]
     IN  /\ delivered' = Append(delivered, result)
         /\ pc' = IF result.call \in resultHandlers THEN "result" ELSE "callbacks"
         /\ owed' = {i \in 1..Len(callbacks) : callbacks[i] = result.type}
  /\ at' = at + 1 /\ cb' = 0 /\ cbStale' = 0
  /\ UNCHANGED <<queue, handlers, callID, tickets, stale, posted, missed, crashed>>

ResultReturns ==
  /\ pc = "result"
  /\ pc' = "callbacks"
  /\ UNCHANGED <<queue, handlers, callID, tickets, run, posted, delivered, owed, missed, crashed>>

\* Mutant: a result is for the first callback of its type.
FirstMatch == IF cb # 0 THEN {} ELSE {i \in 1..Len(callbacks) : callbacks[i] = results[at].type}

\* the callbacks of its type that are still to run, of those the iterator reaches
Matching == {i \in cb + 1..(IF cbStale = 0 THEN Len(callbacks) ELSE cbStale) : callbacks[i] = results[at].type}

RunCallback ==
  /\ pc = "callbacks" /\ Matching # {}
  /\ cb' = CHOOSE i \in Matching : \A j \in Matching : i <= j
  /\ owed' = owed \ {cb'}
  /\ pc' = "callback"
  /\ UNCHANGED <<queue, handlers, callID, tickets, at, stale, cbStale, posted, delivered, missed, crashed>>

CallbackReturns ==
  /\ pc = "callback"
  /\ pc' = "callbacks"
  /\ UNCHANGED <<queue, handlers, callID, tickets, run, posted, delivered, owed, missed, crashed>>

\* the data is freed; an iterator that was lost may end its loop anywhere
Freed ==
  /\ pc = "callbacks" /\ (Matching = {} \/ cbStale # 0)
  /\ pc' = "next" /\ cb' = 0 /\ cbStale' = 0
  /\ owed' = {} /\ missed' = (missed \/ (owed # {} /\ cbStale = 0))
  /\ UNCHANGED <<queue, handlers, callID, tickets, at, stale, posted, delivered, crashed>>

Cleared ==
  /\ pc = "next" /\ (stale # 0 \/ at = Len(results))
  /\ pc' = "idle" /\ at' = 0 /\ stale' = 0
  /\ results' = <<>>
  /\ UNCHANGED <<capacity, handlers, callID, tickets, cb, cbStale, posted, delivered, owed, missed, crashed>>

\* it reads what is not there any more
Crash ==
  /\ (pc = "next" /\ stale # 0) \/ (pc = "callbacks" /\ cbStale # 0)
  /\ pc' = "crashed" /\ crashed' = TRUE
  /\ UNCHANGED <<queue, handlers, callID, tickets, run, posted, delivered, owed, missed>>

Game ==
  \/ \E type \in Types, listens \in BOOLEAN : Call(type, listens)
  \/ CreateLobby \/ Authenticate \/ \E type \in Types : RegisterCallback(type)

Frame ==
  \/ Start \/ Deliver \/ ResultReturns \/ RunCallback \/ CallbackReturns \/ Freed \/ Cleared \/ Crash

Next == Game \/ Frame \/ \E type \in Types : OnValidateTicket(type)

Spec == Init /\ [][Next]_vars

\* Handlers return, SteamAPI_RunCallbacks is called from every frame, and the
\* service answers.
FairSpec == Spec /\ WF_vars(Frame) /\ WF_vars(\E type \in Types : OnValidateTicket(type))

-------------------------------------------------------------------------------
TypeOK ==
  /\ results \in Seq([nr : 1..posted, type : Types, call : 0..callID]) /\ Len(results) <= capacity
  /\ callbacks \in Seq(Types) /\ Len(callbacks) <= cbCapacity
  /\ resultHandlers \subseteq 1..callID /\ tickets \in Nat
  /\ pc \in {"idle", "next", "result", "callbacks", "callback", "crashed"}
  /\ at \in 0..Len(results) /\ stale \in 0..Len(results)
  /\ cb \in 0..Len(callbacks) /\ cbStale \in 0..Len(callbacks) /\ owed \subseteq 1..Len(callbacks)
  /\ {callID, posted, capacity, cbCapacity} \subseteq Nat

Pending == SubSeq(results, at + 1, Len(results))
M == INSTANCE Mailbox WITH pending <- Pending, overrun <- stale # 0

\* Results are handed out once and in the order of the calls, also those that
\* handlers of this very pass caused; what is pending is lost only by a pass
\* whose vector had to grow (refinement of Mailbox).
InOrderOnce == M!Spec

\* Every callback that was there when a result's turn came hears of it, unless
\* one of them registers more than the vector has room for.
AllHear == ~missed

\* No call and no ticket stays without an answer: it is delivered, or lost as
\* above.
Answered == results # <<>> \/ tickets # 0 ~> (results = <<>> /\ tickets = 0) \/ crashed
===============================================================================
