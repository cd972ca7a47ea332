------------------------------ MODULE StringList ------------------------------
(***************************************************************************)
(* The script string table: every string the game's scripts use is stored  *)
(* once, in a slot whose number stands for the string, and is counted      *)
(* (steam_api/PatchMW2StringList.cpp).                                     *)
(*                                                                         *)
(* Threads of the game call it at once.  What runs inside the critical     *)
(* section is one step.  Four things run outside it and are steps of their *)
(* own: the read of a hash map iterator after the lock was given back, the *)
(* second half of SL_ConvertToLowercase, the three parts of Scr_SetString  *)
(* and the three parts of SL_AddUser.                                      *)
(*                                                                         *)
(* Who owns a reference is not in the code, it is what its callers rely    *)
(* on: a thread that took one without naming a user gives it back with     *)
(* SL_RemoveRefToString, and a user's are given back for it by             *)
(* SL_ShutdownSystem.  A call on an empty slot reads a null pointer: the   *)
(* process ends there and the model does not go on.                        *)
(***************************************************************************)
EXTENDS Integers, FiniteSets

CONSTANTS
  Strings,   \* the strings in use
  Lower,     \* the lower case of each
  Long,      \* those of 8192 bytes or more, the null included
  Threads,   \* the threads that call
  Users,     \* the bits of the user mask
  None,      \* a null string pointer
  MaxId,     \* the last slot, MAX_SCRIPT_STRINGS - 1 in the code
  MaxRefs    \* bound on the references of a string

Ids == 1..MaxId

ASSUME StringListAssumption ==
  /\ MaxId \in Nat \ {0} /\ MaxRefs \in Nat \ {0}
  /\ IsFiniteSet(Strings) /\ None \notin Strings
  /\ IsFiniteSet(Threads) /\ IsFiniteSet(Users)
  /\ Lower \in [Strings -> Strings] /\ Long \subseteq Strings
  /\ Threads \cap Users = {}

VARIABLES
  string,    \* slStrings[i].string, None when null
  refs,      \* slStrings[i].data->references
  users,     \* slStrings[i].data->users, as a set of bits
  hashMap,   \* slHashMap, 0 when the key is absent
  firstFree, \* slFirstFree
  owns,      \* references each thread and each user relies on (history)
  field,     \* the uint16_t each thread sets with Scr_SetString
  pc,        \* where each thread is
  task,      \* the locals of its call
  iter,      \* what became of the memory its iterator or pointer points to
  borrowed,  \* a reference was relied on or given back that nobody had counted
             \* for that owner (history)
  misled     \* a call returned another id than it had found (history)

table   == <<string, refs, users, hashMap, firstFree>>
owners  == <<owns, field>>
locals  == <<pc, task, iter>>
history == <<borrowed, misled>>
vars    == <<table, owners, locals, history>>

Owners  == Threads \cup Users
PCs     == {"ready", "lowered", "found", "removing", "assigning", "adding", "oring"}
Buckets == {"intact", "erased", "moved"}
Task    == [id : 0..MaxId, string : Strings \cup {None}, owner : Owners \cup {None},
            counted : BOOLEAN]
Call(i, s, o, c) == [id |-> i, string |-> s, owner |-> o, counted |-> c]
NoTask  == Call(0, None, None, FALSE)

Used(i)  == string[i] # None
Least(S) == CHOOSE i \in S : \A j \in S : i <= j

\* the mask a caller passes: a user's bit, or none
System(o) == {o} \cap Users

\* Someone relies on slot i, so that thread t may pass its id on
Known(t, i) == field[t] = i \/ \E o \in {t} \cup Users : owns[o][i] > 0

\* Thread t is about to use what it read of slot i: the bucket of its string,
\* or the pointer SL_AddUser keeps to its reference count and user mask
PointsTo(t, i) ==
  \/ pc[t] = "found" /\ string[i] = task[t].string
  \/ pc[t] \in {"adding", "oring"} /\ i = task[t].id

\* Mutants (plausible bugs, each refuted by one property) stand before what
\* they change.
Init ==
  /\ string = [i \in Ids |-> None]
  /\ refs = [i \in Ids |-> 0] /\ users = [i \in Ids |-> {}]
  /\ hashMap = [s \in Strings |-> 0]
  /\ firstFree = 1
  /\ owns = [o \in Owners |-> [i \in Ids |-> 0]]
  /\ field = [t \in Threads |-> 0]
  /\ pc = [t \in Threads |-> "ready"]
  /\ task = [t \in Threads |-> NoTask]
  /\ iter = [t \in Threads |-> "intact"]
  /\ borrowed = FALSE /\ misled = FALSE

-------------------------------------------------------------------------------
(* Under the lock.                                                           *)

\* SL_AddRefToString
AddRef(i) ==
  /\ Used(i) /\ refs[i] < MaxRefs
  /\ refs' = [refs EXCEPT ![i] = @ + 1]
  /\ UNCHANGED <<string, users, hashMap, firstFree>>

\* Mutant: SL_FreeString forgets the key.
FreeStringsKeepKey(S) ==
  /\ string' = [i \in Ids |-> IF i \in S THEN None ELSE string[i]]
  /\ users' = [i \in Ids |-> IF i \in S THEN {} ELSE users[i]]
  /\ hashMap' = hashMap
  /\ firstFree' = Least(S \cup {firstFree})
  /\ iter' = iter

\* Mutant: SL_FreeString sets slFirstFree without "string < slFirstFree".
FreeStringsLastFreed(S) ==
  /\ string' = [i \in Ids |-> IF i \in S THEN None ELSE string[i]]
  /\ users' = [i \in Ids |-> IF i \in S THEN {} ELSE users[i]]
  /\ hashMap' = [s \in Strings |-> IF \E i \in S : string[i] = s THEN 0 ELSE hashMap[s]]
  /\ firstFree' = IF S = {} THEN firstFree ELSE Least(S)
  /\ iter' = iter

\* SL_FreeString of every slot of S: a thread may still be about to use the
\* bucket or the memory.
FreeStrings(S) ==
  /\ string' = [i \in Ids |-> IF i \in S THEN None ELSE string[i]]
  /\ users' = [i \in Ids |-> IF i \in S THEN {} ELSE users[i]]
  /\ hashMap' = [s \in Strings |-> IF \E i \in S : string[i] = s THEN 0 ELSE hashMap[s]]
  /\ firstFree' = Least(S \cup {firstFree})
  /\ iter' = [t \in Threads |->
               IF iter[t] = "intact" /\ \E i \in S : PointsTo(t, i) THEN "erased" ELSE iter[t]]

\* Mutant: frees a slot one reference too early.
RemoveRefsEarly(S) ==
  /\ \A i \in S : Used(i)
  /\ refs' = [i \in Ids |-> IF i \in S THEN refs[i] - 1 ELSE refs[i]]
  /\ FreeStrings({i \in S : refs[i] <= 2})

\* SL_RemoveRefToString of every slot of S
RemoveRefs(S) ==
  /\ \A i \in S : Used(i)
  /\ refs' = [i \in Ids |-> IF i \in S THEN refs[i] - 1 ELSE refs[i]]
  /\ FreeStrings({i \in S : refs[i] = 1})

\* "find the next free string": the slot stays what it is when none is left
NextFree(s) ==
  LET free == {i \in firstFree..MaxId : s[i] = None}
  IN  IF free = {} THEN firstFree ELSE Least(free)

\* A string the table does not have goes into slot slFirstFree.  The insert
\* may rebuild the hash map, and then no iterator points into it any more.
NewString(s, o) ==
  /\ string' = [string EXCEPT ![firstFree] = s]
  /\ refs' = [refs EXCEPT ![firstFree] = 1]
  /\ users' = [users EXCEPT ![firstFree] = System(o)]
  /\ hashMap' = [hashMap EXCEPT ![s] = firstFree]
  /\ firstFree' = NextFree(string')
  /\ owns' = [owns EXCEPT ![o][firstFree] = @ + 1]
  /\ iter' = [t \in Threads |-> IF pc[t] = "found" THEN "moved" ELSE iter[t]]

-------------------------------------------------------------------------------
(* The calls.                                                                *)

\* SL_GetStringOfSize for thread t, on behalf of owner o
Get(t, s, o) ==
  \/ /\ hashMap[s] # 0
     /\ AddRef(hashMap[s])
     /\ pc' = [pc EXCEPT ![t] = "found"]
     /\ task' = [task EXCEPT ![t] = Call(hashMap[s], s, o, TRUE)]
     /\ iter' = [iter EXCEPT ![t] = "intact"]
     /\ UNCHANGED owns
  \/ /\ hashMap[s] = 0
     /\ \A p \in Owners : owns[p][firstFree] < MaxRefs
     /\ NewString(s, o)
     /\ pc' = [pc EXCEPT ![t] = "ready"]
     /\ task' = [task EXCEPT ![t] = NoTask]

GetString(t, s, o) ==
  /\ pc[t] = "ready" /\ o \in {t} \cup Users
  /\ Get(t, s, o)
  /\ UNCHANGED <<field, history>>

\* FindStringOfSize: the caller gets an id and no reference
FindString(t, s) ==
  /\ pc[t] = "ready" /\ hashMap[s] # 0
  /\ pc' = [pc EXCEPT ![t] = "found"]
  /\ task' = [task EXCEPT ![t] = Call(hashMap[s], s, None, FALSE)]
  /\ iter' = [iter EXCEPT ![t] = "intact"]
  /\ UNCHANGED <<table, owners, history>>

\* "return iter->second", after LeaveCriticalSection: an erased bucket holds
\* 0, and one of a map that was rebuilt holds anything
ReadBack(t) == CASE iter[t] = "intact" -> {task[t].id}
                 [] iter[t] = "erased" -> {0}
                 [] iter[t] = "moved"  -> 0..MaxId

ReturnFound(t) ==
  /\ pc[t] = "found"
  /\ \E v \in ReadBack(t) :
       /\ misled' = (misled \/ v # task[t].id)
       /\ IF v = 0 \/ task[t].owner = None
          THEN UNCHANGED owns
          ELSE /\ owns[task[t].owner][v] < MaxRefs
               /\ owns' = [owns EXCEPT ![task[t].owner][v] = @ + 1]
  /\ pc' = [pc EXCEPT ![t] = "ready"]
  /\ task' = [task EXCEPT ![t] = NoTask]
  /\ iter' = [iter EXCEPT ![t] = "intact"]
  /\ UNCHANGED <<table, field, borrowed>>

\* SL_ConvertToLowercase: reads the string under the lock, and looks its
\* lower case up after giving the lock back
ConvertToLowercase(t, i, o) ==
  /\ pc[t] = "ready" /\ o \in {t} \cup Users
  /\ Known(t, i) /\ Used(i) /\ string[i] \notin Long
  /\ pc' = [pc EXCEPT ![t] = "lowered"]
  /\ task' = [task EXCEPT ![t] = Call(0, Lower[string[i]], o, FALSE)]
  /\ UNCHANGED <<table, owners, iter, history>>

\* One that does not fit its buffer is returned as it is: the caller gets an
\* id for its user and nothing was counted
ConvertLong(t, i, o) ==
  /\ pc[t] = "ready" /\ o \in {t} \cup Users
  /\ Known(t, i) /\ string[i] \in Long /\ owns[o][i] < MaxRefs
  /\ owns' = [owns EXCEPT ![o][i] = @ + 1]
  /\ borrowed' = TRUE
  /\ UNCHANGED <<table, field, locals, misled>>

GetLowercase(t) ==
  /\ pc[t] = "lowered"
  /\ Get(t, task[t].string, task[t].owner)
  /\ UNCHANGED <<field, history>>

AddRefToString(t, i) ==
  /\ pc[t] = "ready"
  /\ Known(t, i) /\ AddRef(i)
  /\ owns[t][i] < MaxRefs
  /\ owns' = [owns EXCEPT ![t][i] = @ + 1]
  /\ UNCHANGED <<field, locals, history>>

RemoveRefToString(t, i) ==
  /\ pc[t] = "ready" /\ owns[t][i] > 0
  /\ RemoveRefs({i})
  /\ owns' = [owns EXCEPT ![t][i] = @ - 1]
  /\ UNCHANGED <<field, pc, task, history>>

\* Scr_SetString: counts the new string, uncounts the old one, assigns
SetString(t, i) ==
  /\ pc[t] = "ready"
  /\ IF i = 0 THEN UNCHANGED table ELSE Known(t, i) /\ AddRef(i)
  /\ pc' = [pc EXCEPT ![t] = "removing"]
  /\ task' = [task EXCEPT ![t] = Call(i, None, None, i # 0)]
  /\ UNCHANGED <<owners, iter, history>>

SetStringRemoves(t) ==
  /\ pc[t] = "removing"
  /\ IF field[t] = 0 THEN UNCHANGED <<table, iter>> ELSE RemoveRefs({field[t]})
  /\ pc' = [pc EXCEPT ![t] = "assigning"]
  /\ UNCHANGED <<owners, task, history>>

SetStringAssigns(t) ==
  /\ pc[t] = "assigning"
  /\ field' = [field EXCEPT ![t] = task[t].id]
  /\ pc' = [pc EXCEPT ![t] = "ready"]
  /\ task' = [task EXCEPT ![t] = NoTask]
  /\ UNCHANGED <<table, owns, iter, history>>

\* SL_TransferRefToUser: the user mask is overwritten, not added to
TransferRefToUser(t, i, u) ==
  /\ pc[t] = "ready" /\ owns[t][i] > 0 /\ Used(i) /\ owns[u][i] < MaxRefs
  /\ users' = [users EXCEPT ![i] = {u}]
  /\ owns' = [owns EXCEPT ![t] = [owns[t] EXCEPT ![i] = @ - 1],
                          ![u] = [owns[u] EXCEPT ![i] = @ + 1]]
  /\ UNCHANGED <<string, refs, hashMap, firstFree, field, locals, history>>

\* SL_AddUser takes no lock: it keeps the slot's pointer and tests the bit,
\* counts a reference when the bit was not set, and sets the bit
AddUser(t, i, u) ==
  /\ pc[t] = "ready" /\ Known(t, i) /\ Used(i)
  /\ pc' = [pc EXCEPT ![t] = IF u \in users[i] THEN "oring" ELSE "adding"]
  /\ task' = [task EXCEPT ![t] = Call(i, None, u, FALSE)]
  /\ iter' = [iter EXCEPT ![t] = "intact"]
  /\ UNCHANGED <<table, owners, history>>

\* Mutant: the reference is not counted.
AddUserForgets(t) ==
  /\ pc[t] = "adding"
  /\ pc' = [pc EXCEPT ![t] = "oring"]
  /\ task' = [task EXCEPT ![t].counted = TRUE]
  /\ UNCHANGED <<table, owners, iter, history>>

AddUserCounts(t) ==
  /\ pc[t] = "adding"
  /\ AddRef(task[t].id)
  /\ pc' = [pc EXCEPT ![t] = "oring"]
  /\ task' = [task EXCEPT ![t].counted = TRUE]
  /\ UNCHANGED <<owners, iter, history>>

\* The mask the pointer leads to: once the slot has been freed that memory is
\* nobody's, or that of any slot filled since
Masks(t) == IF iter[t] = "intact" THEN {task[t].id} ELSE {0} \cup {i \in Ids : Used(i)}

\* When the bit was set already, the user relies on the reference that was
\* counted with it
AddUserOrs(t) ==
  LET i == task[t].id
      u == task[t].owner
  IN  /\ pc[t] = "oring" /\ owns[u][i] < MaxRefs
      /\ \E m \in Masks(t) :
           users' = [j \in Ids |-> IF j = m THEN users[j] \cup {u} ELSE users[j]]
      /\ owns' = IF task[t].counted \/ owns[u][i] = 0
                 THEN [owns EXCEPT ![u][i] = @ + 1] ELSE owns
      /\ borrowed' = (borrowed \/ iter[t] # "intact" \/ (~task[t].counted /\ owns[u][i] = 0))
      /\ pc' = [pc EXCEPT ![t] = "ready"]
      /\ task' = [task EXCEPT ![t] = NoTask]
      /\ iter' = [iter EXCEPT ![t] = "intact"]
      /\ UNCHANGED <<string, refs, hashMap, firstFree, field, misled>>

\* SL_ShutdownSystem: a string of this user alone is left as it is, and the
\* bit is cleared nowhere
SharedBy(u) == {i \in Ids : Used(i) /\ u \in users[i] /\ users[i] # {u}}

ShutdownSystem(u) ==
  /\ RemoveRefs(SharedBy(u))
  /\ owns' = [owns EXCEPT ![u] = [i \in Ids |-> 0]]
  /\ borrowed' = (borrowed \/ \E i \in SharedBy(u) : owns[u][i] = 0)
  /\ UNCHANGED <<field, pc, task, misled>>

\* SL_TransferSystem
TransferSystem(u, v) ==
  /\ u # v /\ \A i \in Ids : owns[u][i] + owns[v][i] <= MaxRefs
  /\ users' = [i \in Ids |-> IF u \in users[i] THEN (users[i] \ {u}) \cup {v} ELSE users[i]]
  /\ owns' = [owns EXCEPT ![v] = [i \in Ids |-> owns[u][i] + owns[v][i]],
                          ![u] = [i \in Ids |-> 0]]
  /\ UNCHANGED <<string, refs, hashMap, firstFree, field, locals, history>>

Step(t) ==
  \/ \E s \in Strings, o \in Owners : GetString(t, s, o)
  \/ \E s \in Strings : FindString(t, s)
  \/ ReturnFound(t)
  \/ \E i \in Ids, o \in Owners : ConvertToLowercase(t, i, o)
  \/ \E i \in Ids, o \in Owners : ConvertLong(t, i, o)
  \/ GetLowercase(t)
  \/ \E i \in Ids : AddRefToString(t, i)
  \/ \E i \in Ids : RemoveRefToString(t, i)
  \/ \E i \in 0..MaxId : SetString(t, i)
  \/ SetStringRemoves(t)
  \/ SetStringAssigns(t)
  \/ \E i \in Ids, u \in Users : TransferRefToUser(t, i, u)
  \/ \E i \in Ids, u \in Users : AddUser(t, i, u)
  \/ AddUserCounts(t)
  \/ AddUserOrs(t)

Next ==
  \/ \E t \in Threads : Step(t)
  \/ \E u \in Users : ShutdownSystem(u)
  \/ \E u, v \in Users : TransferSystem(u, v)

Spec == Init /\ [][Next]_vars

-------------------------------------------------------------------------------
TypeOK ==
  /\ string \in [Ids -> Strings \cup {None}]
  /\ refs \in [Ids -> 0..MaxRefs]
  /\ users \in [Ids -> SUBSET Users]
  /\ hashMap \in [Strings -> 0..MaxId]
  /\ firstFree \in Ids
  /\ owns \in [Owners -> [Ids -> 0..MaxRefs]]
  /\ field \in [Threads -> 0..MaxId]
  /\ pc \in [Threads -> PCs]
  /\ task \in [Threads -> Task]
  /\ iter \in [Threads -> Buckets]
  /\ borrowed \in BOOLEAN /\ misled \in BOOLEAN

\* The table has room for every string.  The game's has 65534 slots and its
\* strings are not bounded: this is what its authors count on.
Roomy == MaxId > Cardinality(Strings)

\* slHashMap and slStrings say the same: a key leads to the slot that holds
\* its string, and the string of every slot in use is a key that leads there.
TableMatches ==
  /\ \A s \in Strings : hashMap[s] # 0 => string[hashMap[s]] = s
  /\ \A i \in Ids : Used(i) => hashMap[string[i]] = i

\* slFirstFree is the lowest free slot, the one a new string may overwrite.
FirstFreeIsFree ==
  /\ ~Used(firstFree)
  /\ \A i \in Ids : i < firstFree => Used(i)
===============================================================================
