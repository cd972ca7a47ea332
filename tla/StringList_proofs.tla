--------------------------- MODULE StringList_proofs ---------------------------
(***************************************************************************)
(* Proofs about the string table for any number of threads, users, strings *)
(* and slots: its type invariant and, while there are more slots than      *)
(* strings, that the hash map and the slots agree, that slFirstFree is the *)
(* lowest free slot, that the count of a slot covers what is owed on it,   *)
(* and that an id keeps its string while anything is owed on it.           *)
(***************************************************************************)
EXTENDS StringListOwners, FiniteSetTheorems, WellFoundedInduction, TLAPS

\* The hash map and the slots agree, and slFirstFree is free: neither is
\* inductive alone, a string put into a slot in use breaks the agreement.
TableInv == TableMatches /\ FirstFreeIsFree

TableType ==
  /\ string \in [Ids -> Strings \cup {None}]
  /\ refs \in [Ids -> 0..MaxRefs]
  /\ users \in [Ids -> SUBSET Users]
  /\ hashMap \in [Strings -> 0..MaxId]
  /\ firstFree \in Ids

OwnersType ==
  /\ owns \in [Owners -> [Ids -> 0..MaxRefs]]
  /\ field \in [Threads -> 0..MaxId]

\* What a call has noted before it goes on.
CallForm == \A t \in Threads :
  /\ pc[t] = "lowered" => task[t].string \in Strings /\ task[t].owner \in Owners
  /\ pc[t] \in {"adding", "oring"} => task[t].id \in Ids /\ task[t].owner \in Users

LocalsType ==
  /\ CallForm
  /\ pc \in [Threads -> PCs]
  /\ task \in [Threads -> Task]
  /\ iter \in [Threads -> Buckets]

HistoryType == borrowed \in BOOLEAN /\ misled \in BOOLEAN

\* A string in use has a reference: freeing is what the last one does.
UsedCounted == \A i \in Ids : Used(i) => refs[i] > 0

IInv == TypeOK /\ CallForm /\ UsedCounted

-------------------------------------------------------------------------------
(* The least element, and the next free slot.                                *)

LEMMA LeastOf ==
  ASSUME NEW S \in SUBSET Nat, S # {}
  PROVE  Least(S) \in S /\ \A j \in S : Least(S) <= j
  <1>1. IsWellFoundedOn(OpToRel(<, Nat), Nat)
    BY NatLessThanWellFounded
  <1>2. \E i \in S : \A j \in S : ~(<<j, i>> \in OpToRel(<, Nat))
    BY <1>1, WFMin, Zenon
  <1>3. PICK i \in S : \A j \in S : ~(<<j, i>> \in OpToRel(<, Nat))
    BY <1>2
  <1>4. ASSUME NEW j \in S, j < i PROVE FALSE
    <2>1. <<j, i>> \in Nat \X Nat /\ <<j, i>>[1] = j /\ <<j, i>>[2] = i
      OBVIOUS
    <2>2. <<j, i>> \in OpToRel(<, Nat)
      BY <1>4, <2>1 DEF OpToRel
    <2> QED
      BY <1>3, <2>2
  <1>5. \A j \in S : i <= j
    BY <1>4
  <1> QED
    BY <1>5 DEF Least

LEMMA NextFreeType ==
  ASSUME NEW s, firstFree \in Ids
  PROVE  NextFree(s) \in Ids
  <1> DEFINE free == {i \in firstFree..MaxId : s[i] = None}
  <1>0. MaxId \in Nat
    BY StringListAssumption
  <1>1. CASE free = {}
    BY <1>1 DEF NextFree
  <1>2. CASE free # {}
    <2>1. free \in SUBSET Nat /\ free \subseteq Ids
      BY <1>0 DEF Ids
    <2>2. Least(free) \in free
      BY <1>2, <2>1, LeastOf
    <2> QED
      BY <1>2, <2>1, <2>2 DEF NextFree
  <1> QED
    BY <1>1, <1>2

\* The loop of SL_GetStringOfSize finds the lowest free slot when there is one.
LEMMA NextFreeIsLowest ==
  ASSUME NEW s, firstFree \in Ids,
         NEW k \in Ids, s[k] = None,
         \A i \in Ids : i < firstFree => s[i] # None
  PROVE  /\ NextFree(s) \in Ids
         /\ s[NextFree(s)] = None
         /\ \A i \in Ids : i < NextFree(s) => s[i] # None
  <1> DEFINE free == {i \in firstFree..MaxId : s[i] = None}
  <1>0. MaxId \in Nat
    BY StringListAssumption
  <1>1. free \in SUBSET Nat /\ free \subseteq Ids /\ k \in free
    BY <1>0 DEF Ids
  <1>2. Least(free) \in free /\ \A j \in free : Least(free) <= j
    BY <1>1, LeastOf
  <1>3. NextFree(s) = Least(free)
    BY <1>1 DEF NextFree
  <1>4. ASSUME NEW i \in Ids, i < Least(free) PROVE s[i] # None
    <2>1. CASE i < firstFree
      BY <2>1
    <2>2. CASE ~(i < firstFree)
      <3>1. i \in firstFree..MaxId
        BY <1>0, <2>2 DEF Ids
      <3>2. i \notin free
        BY <1>0, <1>2, <1>4 DEF Ids
      <3> QED
        BY <3>1, <3>2
    <2> QED
      BY <2>1, <2>2
  <1> QED
    BY <1>1, <1>2, <1>3, <1>4

-------------------------------------------------------------------------------
(* What each change of the table does to it.                                 *)

LEMMA AddRefType ==
  ASSUME TableType, UsedCounted, NEW i \in Ids, AddRef(i)
  PROVE  TableType' /\ UsedCounted'
  BY StringListAssumption DEF TableType, UsedCounted, Used, AddRef, Ids

LEMMA FreeStringsType ==
  ASSUME TableType, LocalsType, NEW S \in SUBSET Ids, FreeStrings(S)
  PROVE  /\ (string \in [Ids -> Strings \cup {None}])'
         /\ (users \in [Ids -> SUBSET Users])'
         /\ (hashMap \in [Strings -> 0..MaxId])'
         /\ (firstFree \in Ids)'
         /\ (iter \in [Threads -> Buckets])'
  <1>0. MaxId \in Nat
    BY StringListAssumption
  <1>1. S \cup {firstFree} \in SUBSET Nat /\ S \cup {firstFree} \subseteq Ids
    BY <1>0 DEF TableType, Ids
  <1>2. Least(S \cup {firstFree}) \in Ids
    BY <1>1, LeastOf
  <1>3. (firstFree \in Ids)'
    BY <1>2 DEF FreeStrings, Ids
  <1>4. (string \in [Ids -> Strings \cup {None}])' /\ (users \in [Ids -> SUBSET Users])'
    BY DEF FreeStrings, TableType, Ids
  <1>5. (hashMap \in [Strings -> 0..MaxId])'
    BY <1>0 DEF FreeStrings, TableType
  <1>6. (iter \in [Threads -> Buckets])'
    BY DEF FreeStrings, LocalsType, Buckets
  <1> QED
    BY <1>3, <1>4, <1>5, <1>6

LEMMA RemoveRefsType ==
  ASSUME TableType, LocalsType, UsedCounted, NEW S \in SUBSET Ids, RemoveRefs(S)
  PROVE  TableType' /\ UsedCounted' /\ (iter \in [Threads -> Buckets])'
  <1>0. \A i \in S : refs[i] > 0
    BY DEF RemoveRefs, UsedCounted
  <1>1. (refs \in [Ids -> 0..MaxRefs])'
    BY <1>0, StringListAssumption DEF RemoveRefs, TableType, Ids
  <1>2. {i \in S : refs[i] = 1} \in SUBSET Ids /\ FreeStrings({i \in S : refs[i] = 1})
    BY DEF RemoveRefs
  <1>3. UsedCounted'
    BY <1>0, <1>2, StringListAssumption
       DEF RemoveRefs, FreeStrings, UsedCounted, Used, TableType, Ids
  <1> QED
    BY <1>1, <1>2, <1>3, FreeStringsType DEF TableType

LEMMA NewStringType ==
  ASSUME TableType, LocalsType, OwnersType, UsedCounted,
         NEW s \in Strings, NEW o \in Owners, owns[o][firstFree] < MaxRefs, NewString(s, o)
  PROVE  /\ TableType' /\ UsedCounted'
         /\ (owns \in [Owners -> [Ids -> 0..MaxRefs]])'
         /\ (iter \in [Threads -> Buckets])'
  <1>1. (firstFree \in Ids)'
    BY NextFreeType DEF NewString, TableType, Ids
  <1>2. (string \in [Ids -> Strings \cup {None}])' /\ (refs \in [Ids -> 0..MaxRefs])' /\ UsedCounted'
    BY StringListAssumption DEF NewString, TableType, UsedCounted, Used, Ids
  <1>3. (users \in [Ids -> SUBSET Users])'
    BY DEF NewString, TableType, System, Ids
  <1>4. (hashMap \in [Strings -> 0..MaxId])'
    BY StringListAssumption DEF NewString, TableType, Ids
  <1>5. (owns \in [Owners -> [Ids -> 0..MaxRefs]])'
    BY StringListAssumption DEF NewString, TableType, OwnersType, Ids
  <1>6. (iter \in [Threads -> Buckets])'
    BY DEF NewString, LocalsType, Buckets
  <1> QED
    BY <1>1, <1>2, <1>3, <1>4, <1>5, <1>6 DEF TableType

LEMMA GetType ==
  ASSUME TableType, LocalsType, OwnersType, UsedCounted,
         NEW t \in Threads, NEW s \in Strings, NEW o \in Owners, Get(t, s, o)
  PROVE  /\ TableType' /\ UsedCounted' /\ LocalsType'
         /\ (owns \in [Owners -> [Ids -> 0..MaxRefs]])'
  <1>1. CASE hashMap[s] # 0 /\ AddRef(hashMap[s])
    <2>1. hashMap[s] \in Ids
      BY <1>1, StringListAssumption DEF TableType, Ids
    <2>2. TableType' /\ UsedCounted'
      BY <1>1, <2>1, AddRefType
    <2>3. /\ UNCHANGED owns
          /\ pc' = [pc EXCEPT ![t] = "found"]
          /\ task' = [task EXCEPT ![t] = Call(hashMap[s], s, o, TRUE)]
          /\ iter' = [iter EXCEPT ![t] = "intact"]
      BY <1>1 DEF Get
    <2>4. Call(hashMap[s], s, o, TRUE) \in Task
      BY <2>1 DEF Call, Task, Ids
    <2>5. LocalsType'
      BY <2>3, <2>4 DEF LocalsType, CallForm, PCs, Buckets
    <2> QED
      BY <2>2, <2>3, <2>5 DEF OwnersType
  <1>2. CASE ~(hashMap[s] # 0 /\ AddRef(hashMap[s]))
    <2>1. /\ \A p \in Owners : owns[p][firstFree] < MaxRefs
          /\ NewString(s, o)
          /\ pc' = [pc EXCEPT ![t] = "ready"]
          /\ task' = [task EXCEPT ![t] = NoTask]
      BY <1>2 DEF Get
    <2>2. NoTask \in Task
      BY StringListAssumption DEF NoTask, Call, Task
    <2>3. /\ TableType' /\ UsedCounted'
          /\ (owns \in [Owners -> [Ids -> 0..MaxRefs]])'
          /\ (iter \in [Threads -> Buckets])'
      BY <2>1, NewStringType
    <2> QED
      BY <2>1, <2>2, <2>3 DEF LocalsType, CallForm, PCs
  <1> QED
    BY <1>1, <1>2

-------------------------------------------------------------------------------
(* Every step keeps the types.                                               *)

LEMMA TypeParts == TypeOK /\ CallForm <=> TableType /\ OwnersType /\ LocalsType /\ HistoryType
  BY DEF TypeOK, TableType, OwnersType, LocalsType, HistoryType

LEMMA TwoUpdates ==
  ASSUME NEW A, NEW B, NEW f \in [A -> B], NEW a \in A, NEW b \in A, NEW x \in B, NEW y \in B
  PROVE  [f EXCEPT ![a] = x, ![b] = y] \in [A -> B]
  OBVIOUS

LEMMA InitType == Init => IInv
  <1> SUFFICES ASSUME Init PROVE IInv
    OBVIOUS
  <1>0. MaxId \in Nat \ {0} /\ MaxRefs \in Nat \ {0} /\ None \notin Strings
    BY StringListAssumption
  <1>1. TableType /\ UsedCounted
    BY <1>0 DEF Init, TableType, UsedCounted, Used, Ids
  <1>2. NoTask \in Task
    BY <1>0 DEF NoTask, Call, Task
  <1>3. OwnersType
    BY <1>0 DEF Init, OwnersType
  <1>4. LocalsType
    BY <1>2 DEF Init, LocalsType, CallForm, PCs, Buckets
  <1>5. HistoryType
    BY Zenon DEF Init, HistoryType
  <1> QED
    BY <1>1, <1>3, <1>4, <1>5, TypeParts DEF IInv

LEMMA StepType ==
  ASSUME IInv, NEW t \in Threads, Step(t)
  PROVE  IInv'
  <1>0. TableType /\ OwnersType /\ LocalsType /\ HistoryType /\ UsedCounted
    BY TypeParts DEF IInv
  <1>a. /\ MaxId \in Nat \ {0} /\ MaxRefs \in Nat \ {0} /\ None \notin Strings
        /\ Lower \in [Strings -> Strings]
    BY StringListAssumption
  <1>b. NoTask \in Task
    BY <1>a DEF NoTask, Call, Task
  <1> SUFFICES TableType' /\ OwnersType' /\ LocalsType' /\ HistoryType' /\ UsedCounted'
    BY TypeParts DEF IInv, TypeOK, TableType, OwnersType, LocalsType, HistoryType
  <1>1. ASSUME NEW s \in Strings, NEW o \in Owners, GetString(t, s, o)
        PROVE  TableType' /\ OwnersType' /\ LocalsType' /\ HistoryType' /\ UsedCounted'
    <2>1. Get(t, s, o) /\ UNCHANGED <<field, history>>
      BY <1>1 DEF GetString
    <2> QED
      BY <1>0, <2>1, GetType DEF OwnersType, HistoryType, history
  <1>2. ASSUME NEW s \in Strings, FindString(t, s)
        PROVE  TableType' /\ OwnersType' /\ LocalsType' /\ HistoryType' /\ UsedCounted'
    <2>1. hashMap[s] \in 0..MaxId
      BY <1>0 DEF TableType
    <2>2. Call(hashMap[s], s, None, FALSE) \in Task
      BY <2>1 DEF Call, Task
    <2>3. LocalsType'
      BY <1>0, <1>2, <2>2 DEF FindString, LocalsType, CallForm, PCs, Buckets
    <2>4. UNCHANGED <<table, owners, history>>
      BY <1>2 DEF FindString
    <2> QED
      BY <1>0, <2>3, <2>4 DEF table, owners, history, TableType, OwnersType, HistoryType, UsedCounted, Used
  <1>3. ASSUME ReturnFound(t)
        PROVE  TableType' /\ OwnersType' /\ LocalsType' /\ HistoryType' /\ UsedCounted'
    <2>1. UNCHANGED <<table, field, borrowed>>
      BY <1>3 DEF ReturnFound
    <2>2. PICK v \in ReadBack(t) :
            /\ misled' = (misled \/ v # task[t].id)
            /\ IF v = 0 \/ task[t].owner = None
               THEN UNCHANGED owns
               ELSE /\ owns[task[t].owner][v] < MaxRefs
                    /\ owns' = [owns EXCEPT ![task[t].owner][v] = @ + 1]
      BY <1>3 DEF ReturnFound
    <2>3. task[t] \in Task /\ iter[t] \in Buckets
      BY <1>0 DEF LocalsType
    <2>4. v \in 0..MaxId
      BY <1>a, <2>3 DEF ReadBack, Task, Buckets
    <2>5. (owns \in [Owners -> [Ids -> 0..MaxRefs]])'
      <3>1. CASE v = 0 \/ task[t].owner = None
        BY <1>0, <2>2, <3>1 DEF OwnersType
      <3>2. CASE ~(v = 0 \/ task[t].owner = None)
        <4>1. v \in Ids /\ task[t].owner \in Owners
          BY <1>a, <2>3, <2>4, <3>2 DEF Task, Ids
        <4>2. owns[task[t].owner][v] + 1 \in 0..MaxRefs
          BY <1>0, <1>a, <2>2, <3>2, <4>1 DEF OwnersType
        <4> QED
          BY <1>0, <2>2, <3>2, <4>1, <4>2 DEF OwnersType
      <3> QED
        BY <3>1, <3>2
    <2>6. LocalsType'
      BY <1>0, <1>3, <1>b DEF ReturnFound, LocalsType, CallForm, PCs, Buckets
    <2>7. HistoryType'
      BY <1>0, <2>1, <2>2 DEF HistoryType
    <2> QED
      BY <1>0, <2>1, <2>5, <2>6, <2>7 DEF table, TableType, OwnersType, UsedCounted, Used
  <1>4. ASSUME NEW i \in Ids, NEW o \in Owners, ConvertToLowercase(t, i, o)
        PROVE  TableType' /\ OwnersType' /\ LocalsType' /\ HistoryType' /\ UsedCounted'
    <2>1. Lower[string[i]] \in Strings
      BY <1>0, <1>4, <1>a DEF ConvertToLowercase, Used, TableType
    <2>2. Call(0, Lower[string[i]], o, FALSE) \in Task
      BY <2>1, <1>a DEF Call, Task
    <2>5. Call(0, Lower[string[i]], o, FALSE).string \in Strings
           /\ Call(0, Lower[string[i]], o, FALSE).owner \in Owners
      BY <2>1 DEF Call
    <2>3. LocalsType'
      BY <1>0, <1>4, <2>2, <2>5 DEF ConvertToLowercase, LocalsType, CallForm, PCs, Buckets
    <2>4. UNCHANGED <<table, owners, history>>
      BY <1>4 DEF ConvertToLowercase
    <2> QED
      BY <1>0, <2>3, <2>4 DEF table, owners, history, TableType, OwnersType, HistoryType, UsedCounted, Used
  <1>5. ASSUME GetLowercase(t)
        PROVE  TableType' /\ OwnersType' /\ LocalsType' /\ HistoryType' /\ UsedCounted'
    <2>1. pc[t] = "lowered" /\ Get(t, task[t].string, task[t].owner) /\ UNCHANGED <<field, history>>
      BY <1>5 DEF GetLowercase
    <2>2. task[t].string \in Strings /\ task[t].owner \in Owners
      BY <1>0, <2>1 DEF LocalsType, CallForm
    <2> QED
      BY <1>0, <2>1, <2>2, GetType DEF OwnersType, HistoryType, history
  <1>6. ASSUME NEW i \in Ids, AddRefToString(t, i)
        PROVE  TableType' /\ OwnersType' /\ LocalsType' /\ HistoryType' /\ UsedCounted'
    <2>1. TableType' /\ UsedCounted'
      BY <1>0, <1>6, AddRefType DEF AddRefToString
    <2>2. UNCHANGED <<field, locals, history>>
      BY <1>6 DEF AddRefToString
    <2>3. (owns \in [Owners -> [Ids -> 0..MaxRefs]])'
      BY <1>0, <1>6, <1>a DEF AddRefToString, OwnersType, Owners, Ids
    <2> QED
      BY <1>0, <2>1, <2>2, <2>3 DEF locals, history, OwnersType, LocalsType, CallForm, HistoryType
  <1>7. ASSUME NEW i \in Ids, RemoveRefToString(t, i)
        PROVE  TableType' /\ OwnersType' /\ LocalsType' /\ HistoryType' /\ UsedCounted'
    <2>1. RemoveRefs({i}) /\ UNCHANGED <<field, pc, task, history>>
      BY <1>7 DEF RemoveRefToString
    <2>2. TableType' /\ UsedCounted' /\ (iter \in [Threads -> Buckets])'
      BY <1>0, <2>1, RemoveRefsType
    <2>3. (owns \in [Owners -> [Ids -> 0..MaxRefs]])'
      BY <1>0, <1>7, <1>a DEF RemoveRefToString, OwnersType, Owners, Ids
    <2> QED
      BY <1>0, <2>1, <2>2, <2>3 DEF history, OwnersType, LocalsType, CallForm, HistoryType
  <1>8. ASSUME NEW i \in 0..MaxId, SetString(t, i)
        PROVE  TableType' /\ OwnersType' /\ LocalsType' /\ HistoryType' /\ UsedCounted'
    <2>1. TableType' /\ UsedCounted'
      <3>1. CASE i = 0
        BY <1>0, <1>8, <3>1 DEF SetString, table, TableType, UsedCounted, Used
      <3>2. CASE i # 0
        <4>1. i \in Ids /\ AddRef(i)
          BY <1>8, <1>a, <3>2 DEF SetString, Ids
        <4> QED
          BY <1>0, <4>1, AddRefType
      <3> QED
        BY <3>1, <3>2
    <2>2. Call(i, None, None, i # 0) \in Task
      BY <1>a DEF Call, Task
    <2>3. UNCHANGED <<owners, iter, history>>
      BY <1>8 DEF SetString
    <2>4. LocalsType'
      BY <1>0, <1>8, <2>2, <2>3 DEF SetString, LocalsType, CallForm, PCs
    <2> QED
      BY <1>0, <2>1, <2>3, <2>4 DEF owners, history, OwnersType, HistoryType
  <1>9. ASSUME SetStringRemoves(t)
        PROVE  TableType' /\ OwnersType' /\ LocalsType' /\ HistoryType' /\ UsedCounted'
    <2>1. UNCHANGED <<owners, task, history>> /\ pc' = [pc EXCEPT ![t] = "assigning"]
      BY <1>9 DEF SetStringRemoves
    <2>2. TableType' /\ UsedCounted' /\ (iter \in [Threads -> Buckets])'
      <3>1. CASE field[t] = 0
        BY <1>0, <1>9, <3>1 DEF SetStringRemoves, table, TableType, LocalsType, UsedCounted, Used
      <3>2. CASE field[t] # 0
        <4>1. {field[t]} \in SUBSET Ids /\ RemoveRefs({field[t]})
          BY <1>0, <1>9, <1>a, <3>2 DEF SetStringRemoves, OwnersType, Ids
        <4> QED
          BY <1>0, <4>1, RemoveRefsType
      <3> QED
        BY <3>1, <3>2
    <2> QED
      BY <1>0, <2>1, <2>2 DEF owners, history, OwnersType, LocalsType, CallForm, HistoryType, PCs
  <1>10. ASSUME SetStringAssigns(t)
        PROVE  TableType' /\ OwnersType' /\ LocalsType' /\ HistoryType' /\ UsedCounted'
    <2>1. UNCHANGED <<table, owns, iter, history>>
      BY <1>10 DEF SetStringAssigns
    <2>2. OwnersType' /\ LocalsType'
      BY <1>0, <1>10, <1>b, <2>1 DEF SetStringAssigns, OwnersType, LocalsType, CallForm, Task, PCs
    <2> QED
      BY <1>0, <2>1, <2>2 DEF table, history, TableType, HistoryType, UsedCounted, Used
  <1>11. ASSUME NEW i \in Ids, NEW u \in Users, TransferRefToUser(t, i, u)
        PROVE  TableType' /\ OwnersType' /\ LocalsType' /\ HistoryType' /\ UsedCounted'
    <2>1. UNCHANGED <<string, refs, hashMap, firstFree, field, locals, history>>
      BY <1>11 DEF TransferRefToUser
    <2>2. (users \in [Ids -> SUBSET Users])'
      BY <1>0, <1>11 DEF TransferRefToUser, TableType
    <2>3. t \in Owners /\ u \in Owners /\ t # u
      BY StringListAssumption DEF Owners
    <2>4. (owns \in [Owners -> [Ids -> 0..MaxRefs]])'
      <3>1. owns[t][i] - 1 \in 0..MaxRefs /\ owns[u][i] + 1 \in 0..MaxRefs
        BY <1>0, <1>11, <1>a, <2>3 DEF TransferRefToUser, OwnersType
      <3>2. /\ [owns[t] EXCEPT ![i] = @ - 1] \in [Ids -> 0..MaxRefs]
            /\ [owns[u] EXCEPT ![i] = @ + 1] \in [Ids -> 0..MaxRefs]
        BY <1>0, <2>3, <3>1 DEF OwnersType
      <3>3. owns' = [owns EXCEPT ![t] = [owns[t] EXCEPT ![i] = @ - 1],
                                ![u] = [owns[u] EXCEPT ![i] = @ + 1]]
        BY <1>11 DEF TransferRefToUser
      <3>4. owns \in [Owners -> [Ids -> 0..MaxRefs]]
        BY <1>0 DEF OwnersType
      <3> QED
        BY <2>3, <3>2, <3>3, <3>4, TwoUpdates
    <2> QED
      BY <1>0, <2>1, <2>2, <2>4
         DEF locals, history, TableType, OwnersType, LocalsType, CallForm, HistoryType, UsedCounted, Used
  <1>12. ASSUME NEW i \in Ids, NEW u \in Users, AddUser(t, i, u)
        PROVE  TableType' /\ OwnersType' /\ LocalsType' /\ HistoryType' /\ UsedCounted'
    <2>1. UNCHANGED <<table, owners, history>> /\ iter' = [iter EXCEPT ![t] = "intact"]
      BY <1>12 DEF AddUser
    <2>2. Call(i, None, u, FALSE) \in Task
      BY <1>a DEF Call, Task, Owners, Ids
    <2>5. Call(i, None, u, FALSE).id = i /\ Call(i, None, u, FALSE).owner = u
      BY DEF Call
    <2>3. LocalsType'
      BY <1>0, <1>12, <2>1, <2>2, <2>5 DEF AddUser, LocalsType, CallForm, PCs, Buckets
    <2> QED
      BY <1>0, <2>1, <2>3 DEF table, owners, history, TableType, OwnersType, HistoryType, UsedCounted, Used
  <1>13. ASSUME AddUserCounts(t)
        PROVE  TableType' /\ OwnersType' /\ LocalsType' /\ HistoryType' /\ UsedCounted'
    <2>1. UNCHANGED <<owners, iter, history>> /\ pc[t] = "adding" /\ AddRef(task[t].id)
      BY <1>13 DEF AddUserCounts
    <2>2. task[t].id \in Ids
      BY <1>0, <2>1 DEF LocalsType, CallForm
    <2>3. TableType' /\ UsedCounted'
      BY <1>0, <2>1, <2>2, AddRefType
    <2>4. LocalsType'
      BY <1>0, <1>13, <2>1 DEF AddUserCounts, LocalsType, CallForm, PCs, Task
    <2> QED
      BY <1>0, <2>1, <2>3, <2>4 DEF owners, history, OwnersType, HistoryType
  <1>14. ASSUME AddUserOrs(t)
        PROVE  TableType' /\ OwnersType' /\ LocalsType' /\ HistoryType' /\ UsedCounted'
    <2> DEFINE i == task[t].id
               u == task[t].owner
    <2>1. /\ pc[t] = "oring" /\ owns[u][i] < MaxRefs
          /\ owns' = IF task[t].counted \/ owns[u][i] = 0
                     THEN [owns EXCEPT ![u][i] = @ + 1] ELSE owns
          /\ borrowed' = (borrowed \/ iter[t] # "intact" \/ (~task[t].counted /\ owns[u][i] = 0))
          /\ pc' = [pc EXCEPT ![t] = "ready"]
          /\ task' = [task EXCEPT ![t] = NoTask]
          /\ iter' = [iter EXCEPT ![t] = "intact"]
          /\ UNCHANGED <<string, refs, hashMap, firstFree, field, misled>>
      BY <1>14 DEF AddUserOrs
    <2>7. PICK m \in Masks(t) :
            users' = [j \in Ids |-> IF j = m THEN users[j] \cup {u} ELSE users[j]]
      BY <1>14 DEF AddUserOrs
    <2>2. i \in Ids /\ u \in Users /\ u \in Owners
      BY <1>0, <2>1 DEF LocalsType, CallForm, Owners
    <2>3. (users \in [Ids -> SUBSET Users])'
      BY <1>0, <2>7, <2>2 DEF TableType
    <2>4. (owns \in [Owners -> [Ids -> 0..MaxRefs]])'
      BY <1>0, <1>a, <2>1, <2>2 DEF OwnersType
    <2>5. LocalsType'
      BY <1>0, <1>b, <2>1 DEF LocalsType, CallForm, PCs, Buckets
    <2>6. HistoryType'
      BY <1>0, <2>1 DEF HistoryType
    <2> QED
      BY <1>0, <2>1, <2>3, <2>4, <2>5, <2>6 DEF TableType, OwnersType, UsedCounted, Used
  <1>15. ASSUME NEW i \in Ids, NEW o \in Owners, ConvertLong(t, i, o)
        PROVE  TableType' /\ OwnersType' /\ LocalsType' /\ HistoryType' /\ UsedCounted'
    <2>1. UNCHANGED <<table, field, locals, misled>> /\ borrowed' = TRUE
      BY <1>15 DEF ConvertLong
    <2>2. (owns \in [Owners -> [Ids -> 0..MaxRefs]])'
      BY <1>0, <1>15, <1>a DEF ConvertLong, OwnersType, Owners, Ids
    <2> QED
      BY <1>0, <2>1, <2>2 DEF table, locals, TableType, OwnersType, LocalsType, CallForm, HistoryType,
                              UsedCounted, Used
  <1> QED
    BY <1>1, <1>2, <1>3, <1>4, <1>5, <1>6, <1>7, <1>8, <1>9, <1>10, <1>11, <1>12, <1>13, <1>14, <1>15
       DEF Step

LEMMA NextType ==
  ASSUME IInv, [Next]_vars
  PROVE  IInv'
  <1>0. TableType /\ OwnersType /\ LocalsType /\ HistoryType /\ UsedCounted
    BY TypeParts DEF IInv
  <1>a. MaxId \in Nat \ {0} /\ MaxRefs \in Nat \ {0}
    BY StringListAssumption
  <1> SUFFICES TableType' /\ OwnersType' /\ LocalsType' /\ HistoryType' /\ UsedCounted'
    BY TypeParts DEF IInv, TypeOK, TableType, OwnersType, LocalsType, HistoryType
  <1>1. ASSUME NEW t \in Threads, Step(t)
        PROVE  TableType' /\ OwnersType' /\ LocalsType' /\ HistoryType' /\ UsedCounted'
    BY <1>1, StepType DEF IInv, TypeOK, TableType, OwnersType, LocalsType, HistoryType
  <1>2. ASSUME NEW u \in Users, ShutdownSystem(u)
        PROVE  TableType' /\ OwnersType' /\ LocalsType' /\ HistoryType' /\ UsedCounted'
    <2>1. /\ RemoveRefs(SharedBy(u))
          /\ owns' = [owns EXCEPT ![u] = [i \in Ids |-> 0]]
          /\ borrowed' = (borrowed \/ \E i \in SharedBy(u) : owns[u][i] = 0)
          /\ UNCHANGED <<field, pc, task, misled>>
      BY <1>2 DEF ShutdownSystem
    <2>2. SharedBy(u) \in SUBSET Ids
      BY DEF SharedBy
    <2>3. TableType' /\ UsedCounted' /\ (iter \in [Threads -> Buckets])'
      BY <1>0, <2>1, <2>2, RemoveRefsType
    <2>4. (owns \in [Owners -> [Ids -> 0..MaxRefs]])'
      BY <1>0, <1>a, <2>1 DEF OwnersType, Owners
    <2>5. HistoryType'
      BY <1>0, <2>1 DEF HistoryType
    <2> QED
      BY <1>0, <2>1, <2>3, <2>4, <2>5 DEF OwnersType, LocalsType, CallForm
  <1>3. ASSUME NEW u \in Users, NEW v \in Users, TransferSystem(u, v)
        PROVE  TableType' /\ OwnersType' /\ LocalsType' /\ HistoryType' /\ UsedCounted'
    <2>1. /\ u # v /\ \A i \in Ids : owns[u][i] + owns[v][i] <= MaxRefs
          /\ users' = [i \in Ids |-> IF u \in users[i] THEN (users[i] \ {u}) \cup {v} ELSE users[i]]
          /\ owns' = [owns EXCEPT ![v] = [i \in Ids |-> owns[u][i] + owns[v][i]],
                                  ![u] = [i \in Ids |-> 0]]
          /\ UNCHANGED <<string, refs, hashMap, firstFree, field, locals, history>>
      BY <1>3 DEF TransferSystem
    <2>2. (users \in [Ids -> SUBSET Users])'
      BY <1>0, <2>1 DEF TableType
    <2>3. u \in Owners /\ v \in Owners
      BY DEF Owners
    <2>4. [i \in Ids |-> owns[u][i] + owns[v][i]] \in [Ids -> 0..MaxRefs]
      BY <1>0, <1>a, <2>1, <2>3 DEF OwnersType
    <2>5. [i \in Ids |-> 0] \in [Ids -> 0..MaxRefs]
      BY <1>a
    <2>6. (owns \in [Owners -> [Ids -> 0..MaxRefs]])'
      BY <1>0, <2>1, <2>4, <2>5 DEF OwnersType
    <2> QED
      BY <1>0, <2>1, <2>2, <2>6
         DEF locals, history, TableType, OwnersType, LocalsType, CallForm, HistoryType, UsedCounted, Used
  <1>4. ASSUME UNCHANGED vars
        PROVE  TableType' /\ OwnersType' /\ LocalsType' /\ HistoryType' /\ UsedCounted'
    BY <1>0, <1>4 DEF vars, table, owners, locals, history, TableType, OwnersType, LocalsType,
                      CallForm, HistoryType, UsedCounted, Used
  <1> QED
    BY <1>1, <1>2, <1>3, <1>4 DEF Next

-------------------------------------------------------------------------------
(* Every step keeps the hash map, the slots and slFirstFree in agreement.    *)

LEMMA FreeStringsTable ==
  ASSUME TableType, TableInv, NEW S \in SUBSET Ids, \A i \in S : Used(i), FreeStrings(S)
  PROVE  TableInv'
  <1>0. /\ MaxId \in Nat /\ None \notin Strings
        /\ S \cup {firstFree} \in SUBSET Nat /\ S \cup {firstFree} \subseteq Ids
    BY StringListAssumption DEF TableType, Ids
  <1>1. Least(S \cup {firstFree}) \in S \cup {firstFree}
        /\ \A j \in S \cup {firstFree} : Least(S \cup {firstFree}) <= j
    BY <1>0, LeastOf
  <1>2. firstFree' = Least(S \cup {firstFree})
        /\ string' = [i \in Ids |-> IF i \in S THEN None ELSE string[i]]
        /\ hashMap' = [k \in Strings |-> IF \E i \in S : string[i] = k THEN 0 ELSE hashMap[k]]
    BY DEF FreeStrings
  <1>3. ASSUME NEW k \in Strings, hashMap'[k] # 0
        PROVE  string'[hashMap'[k]] = k
    <2>1. hashMap'[k] = hashMap[k] /\ ~(\E i \in S : string[i] = k)
      BY <1>2, <1>3
    <2>2. hashMap[k] \in Ids /\ string[hashMap[k]] = k
      BY <1>0, <1>3, <2>1 DEF TableInv, TableMatches, TableType, Ids
    <2> QED
      BY <1>2, <2>1, <2>2
  <1>4. ASSUME NEW i \in Ids, string'[i] # None
        PROVE  hashMap'[string'[i]] = i
    <2>1. i \notin S /\ string'[i] = string[i] /\ string[i] \in Strings
      BY <1>2, <1>4 DEF TableType
    <2>2. hashMap[string[i]] = i
      BY <2>1, <1>0 DEF TableInv, TableMatches, Used
    <2>3. ASSUME NEW j \in S, string[j] = string[i] PROVE FALSE
      BY <2>1, <2>2, <2>3 DEF TableInv, TableMatches, Used
    <2> QED
      BY <1>2, <2>1, <2>2, <2>3
  <1>5. string'[firstFree'] = None
    BY <1>0, <1>1, <1>2 DEF TableInv, FirstFreeIsFree, Used
  <1>6. ASSUME NEW i \in Ids, i < firstFree' PROVE string'[i] # None
    <2>1. ASSUME i \in S \cup {firstFree} PROVE FALSE
      <3>1. firstFree' <= i
        BY <1>1, <1>2, <2>1
      <3>2. firstFree' \in Nat /\ i \in Nat
        BY <1>0, <1>1, <1>2 DEF Ids
      <3> QED
        BY <1>6, <3>1, <3>2
    <2>2. firstFree' <= firstFree /\ firstFree' \in Int /\ firstFree \in Int /\ i \in Int
      <3>1. firstFree \in S \cup {firstFree} /\ firstFree' \in S \cup {firstFree}
        BY <1>1, <1>2
      <3>2. firstFree' <= firstFree
        BY <1>1, <1>2, <3>1
      <3>3. firstFree \in Nat /\ firstFree' \in Nat /\ i \in Nat
        BY <1>0, <3>1 DEF Ids
      <3> QED
        BY <3>2, <3>3
    <2>3. i \notin S /\ i < firstFree
      BY <1>6, <2>1, <2>2
    <2> QED
      BY <1>2, <2>3 DEF TableInv, FirstFreeIsFree, Used
  <1> QED
    BY <1>3, <1>4, <1>5, <1>6 DEF TableInv, TableMatches, FirstFreeIsFree, Used

\* Slots in use hold different strings, so with more slots than strings one is
\* always free.
LEMMA SomeSlotIsFree ==
  ASSUME Roomy, NEW s \in [Ids -> Strings \cup {None}],
         \A i, j \in Ids : s[i] # None /\ s[i] = s[j] => i = j
  PROVE  \E k \in Ids : s[k] = None
  <1> SUFFICES ASSUME \A k \in Ids : s[k] # None PROVE FALSE
    OBVIOUS
  <1>0. MaxId \in Nat \ {0} /\ IsFiniteSet(Strings)
    BY StringListAssumption
  <1>1. s \in [Ids -> Strings]
    OBVIOUS
  <1>2. IsFiniteSet(Ids) /\ Cardinality(Ids) = MaxId
    BY <1>0, FS_Interval DEF Ids
  <1>3. Cardinality(Strings) < Cardinality(Ids)
    BY <1>0, <1>2, FS_CardinalityType DEF Roomy
  <1>4. \E i, j \in Ids : i # j /\ s[i] = s[j]
    BY <1>0, <1>1, <1>2, <1>3, FS_PigeonHole
  <1> QED
    BY <1>4

LEMMA NewStringTable ==
  ASSUME Roomy, TableType, TableInv, NEW s \in Strings, NEW o \in Owners,
         hashMap[s] = 0, NewString(s, o)
  PROVE  TableInv'
  <1>0. MaxId \in Nat \ {0} /\ None \notin Strings /\ firstFree \in Ids
    BY StringListAssumption DEF TableType
  <1>1. /\ string' = [string EXCEPT ![firstFree] = s]
        /\ hashMap' = [hashMap EXCEPT ![s] = firstFree]
        /\ firstFree' = NextFree(string')
    BY DEF NewString
  <1>2. string[firstFree] = None
    BY DEF TableInv, FirstFreeIsFree, Used
  <1>3. ASSUME NEW k \in Strings, hashMap'[k] # 0
        PROVE  string'[hashMap'[k]] = k
    <2>1. CASE k = s
      BY <1>0, <1>1, <2>1 DEF TableType
    <2>2. CASE k # s
      <3>1. hashMap'[k] = hashMap[k] /\ hashMap[k] \in Ids
        BY <1>0, <1>1, <1>3, <2>2 DEF TableType, Ids
      <3>2. string[hashMap[k]] = k
        BY <1>3, <3>1 DEF TableInv, TableMatches
      <3> QED
        BY <1>0, <1>1, <1>2, <3>1, <3>2 DEF TableType
    <2> QED
      BY <2>1, <2>2
  <1>4. ASSUME NEW i \in Ids, string'[i] # None
        PROVE  hashMap'[string'[i]] = i
    <2>1. CASE i = firstFree
      BY <1>0, <1>1, <2>1 DEF TableType
    <2>2. CASE i # firstFree
      <3>1. string'[i] = string[i] /\ string[i] \in Strings
        BY <1>1, <1>4, <2>2 DEF TableType
      <3>2. hashMap[string[i]] = i
        BY <1>0, <3>1 DEF TableInv, TableMatches, Used
      <3>3. string[i] # s
        BY <1>0, <3>2 DEF Ids
      <3> QED
        BY <1>1, <3>1, <3>2, <3>3 DEF TableType
    <2> QED
      BY <2>1, <2>2
  <1>5. string' \in [Ids -> Strings \cup {None}]
    BY <1>1 DEF TableType
  <1>6. ASSUME NEW i \in Ids, NEW j \in Ids, string'[i] # None, string'[i] = string'[j]
        PROVE  i = j
    BY <1>4, <1>6
  <1>7. PICK k \in Ids : string'[k] = None
    BY <1>5, <1>6, SomeSlotIsFree
  <1>8. \A i \in Ids : i < firstFree => string'[i] # None
    BY <1>0, <1>1 DEF TableInv, FirstFreeIsFree, Used, TableType
  <1>9. string'[firstFree'] = None /\ \A i \in Ids : i < firstFree' => string'[i] # None
    BY <1>0, <1>1, <1>7, <1>8, NextFreeIsLowest
  <1> QED
    BY <1>3, <1>4, <1>9 DEF TableInv, TableMatches, FirstFreeIsFree, Used

LEMMA RemoveRefsTable ==
  ASSUME TableType, TableInv, NEW S \in SUBSET Ids, RemoveRefs(S)
  PROVE  TableInv'
  <1>1. FreeStrings({i \in S : refs[i] = 1}) /\ {i \in S : refs[i] = 1} \in SUBSET Ids
        /\ \A j \in {i \in S : refs[i] = 1} : Used(j)
    BY DEF RemoveRefs
  <1> QED
    BY <1>1, FreeStringsTable

LEMMA SameTable ==
  ASSUME TableInv, UNCHANGED <<string, hashMap, firstFree>>
  PROVE  TableInv'
  BY DEF TableInv, TableMatches, FirstFreeIsFree, Used

LEMMA GetTable ==
  ASSUME Roomy, TableType, TableInv, NEW t \in Threads, NEW s \in Strings, NEW o \in Owners, Get(t, s, o)
  PROVE  TableInv'
  <1>1. \/ UNCHANGED <<string, hashMap, firstFree>>
        \/ hashMap[s] = 0 /\ NewString(s, o)
    BY DEF Get, AddRef
  <1> QED
    BY <1>1, SameTable, NewStringTable

LEMMA InitTable == Init => TableInv
  BY StringListAssumption DEF Init, TableInv, TableMatches, FirstFreeIsFree, Used, Ids

LEMMA StepTable ==
  ASSUME Roomy, IInv, TableInv, NEW t \in Threads, Step(t)
  PROVE  TableInv'
  <1>0. TableType /\ OwnersType /\ LocalsType
    BY TypeParts DEF IInv
  <1>1. ASSUME NEW s \in Strings, NEW o \in Owners, GetString(t, s, o) PROVE TableInv'
    BY <1>0, <1>1, GetTable DEF GetString
  <1>2. ASSUME GetLowercase(t) PROVE TableInv'
    <2>1. pc[t] = "lowered" /\ Get(t, task[t].string, task[t].owner)
      BY <1>2 DEF GetLowercase
    <2>2. task[t].string \in Strings /\ task[t].owner \in Owners
      BY <1>0, <2>1 DEF LocalsType, CallForm
    <2> QED
      BY <1>0, <2>1, <2>2, GetTable
  <1>3. ASSUME NEW i \in Ids, RemoveRefToString(t, i) PROVE TableInv'
    <2>1. RemoveRefs({i}) /\ {i} \in SUBSET Ids
      BY <1>3 DEF RemoveRefToString
    <2> QED
      BY <1>0, <2>1, RemoveRefsTable
  <1>4. ASSUME SetStringRemoves(t) PROVE TableInv'
    <2>1. CASE field[t] = 0
      BY <1>4, <2>1, SameTable DEF SetStringRemoves, table
    <2>2. CASE field[t] # 0
      <3>1. RemoveRefs({field[t]}) /\ {field[t]} \in SUBSET Ids
        BY <1>0, <1>4, <2>2, StringListAssumption DEF SetStringRemoves, OwnersType, Ids
      <3> QED
        BY <1>0, <3>1, RemoveRefsTable
    <2> QED
      BY <2>1, <2>2
  <1>5. ASSUME NEW i \in 0..MaxId, SetString(t, i) PROVE TableInv'
    <2>1. UNCHANGED <<string, hashMap, firstFree>>
      BY <1>5 DEF SetString, AddRef, table
    <2> QED
      BY <2>1, SameTable
  <1>6. ASSUME \/ \E s \in Strings : FindString(t, s)
               \/ ReturnFound(t)
               \/ \E i \in Ids, o \in Owners : ConvertToLowercase(t, i, o)
               \/ \E i \in Ids, o \in Owners : ConvertLong(t, i, o)
               \/ \E i \in Ids : AddRefToString(t, i)
               \/ SetStringAssigns(t)
               \/ \E i \in Ids, u \in Users : TransferRefToUser(t, i, u)
               \/ \E i \in Ids, u \in Users : AddUser(t, i, u)
               \/ AddUserCounts(t)
               \/ AddUserOrs(t)
        PROVE TableInv'
    <2>1. UNCHANGED <<string, hashMap, firstFree>>
      BY <1>6 DEF FindString, ReturnFound, ConvertToLowercase, ConvertLong, AddRefToString, AddRef, SetStringAssigns,
                  TransferRefToUser, AddUser, AddUserCounts, AddUserOrs, table
    <2> QED
      BY <2>1, SameTable
  <1> QED
    BY <1>1, <1>2, <1>3, <1>4, <1>5, <1>6 DEF Step

LEMMA NextTable ==
  ASSUME Roomy, IInv, TableInv, [Next]_vars
  PROVE  TableInv'
  <1>0. TableType
    BY TypeParts DEF IInv
  <1>1. ASSUME NEW u \in Users, ShutdownSystem(u) PROVE TableInv'
    <2>1. RemoveRefs(SharedBy(u)) /\ SharedBy(u) \in SUBSET Ids
      BY <1>1 DEF ShutdownSystem, SharedBy
    <2> QED
      BY <1>0, <2>1, RemoveRefsTable
  <1>2. ASSUME (\E u, v \in Users : TransferSystem(u, v)) \/ UNCHANGED vars PROVE TableInv'
    <2>1. UNCHANGED <<string, hashMap, firstFree>>
      BY <1>2 DEF TransferSystem, vars, table
    <2> QED
      BY <2>1, SameTable
  <1> QED
    BY <1>1, <1>2, StepTable DEF Next

-------------------------------------------------------------------------------
(* Counting what owners hold.                                                *)

\* A finite set of owners, each with f of them references, as Held has them.
Bars(f, S) == {h \in S \X (1..MaxRefs) : h[2] <= f[h[1]]}

LEMMA BarsFinite ==
  ASSUME NEW S, IsFiniteSet(S), NEW f
  PROVE  IsFiniteSet(Bars(f, S)) /\ Cardinality(Bars(f, S)) \in Nat
  <1>1. IsFiniteSet(1..MaxRefs)
    BY StringListAssumption, FS_Interval
  <1>2. IsFiniteSet(S \X (1..MaxRefs))
    BY <1>1, FS_Product
  <1>3. Bars(f, S) \in SUBSET (S \X (1..MaxRefs))
    BY DEF Bars
  <1>4. IsFiniteSet(Bars(f, S))
    BY <1>2, <1>3, FS_Subset
  <1> QED
    BY <1>4, FS_CardinalityType

LEMMA UpTo ==
  ASSUME NEW n \in Nat
  PROVE  IsFiniteSet(1..n) /\ Cardinality(1..n) = n
  <1>1. IsFiniteSet(1..n) /\ Cardinality(1..n) = IF 1 > n THEN 0 ELSE n - 1 + 1
    BY FS_Interval
  <1> QED
    BY <1>1

LEMMA BarsSplit ==
  ASSUME NEW S, IsFiniteSet(S), NEW o \in S, NEW f, \A p \in S : f[p] \in 0..MaxRefs
  PROVE  Cardinality(Bars(f, S)) = Cardinality(Bars(f, S \ {o})) + f[o]
  <1> DEFINE own == {o} \X (1..f[o])
  <1>0. MaxRefs \in Nat /\ f[o] \in Nat /\ f[o] <= MaxRefs
    BY StringListAssumption
  <1>1. IsFiniteSet(S \ {o})
    BY FS_RemoveElement
  <1>2. IsFiniteSet(own) /\ Cardinality(own) = f[o]
    <2>1. IsFiniteSet(1..f[o]) /\ Cardinality(1..f[o]) = f[o]
      BY <1>0, UpTo
    <2>2. IsFiniteSet({o}) /\ Cardinality({o}) = 1
      BY FS_Singleton
    <2>3. IsFiniteSet(own) /\ Cardinality(own) = 1 * f[o]
      BY <2>1, <2>2, FS_Product
    <2> QED
      BY <1>0, <2>3
  <1>3. Bars(f, S) = Bars(f, S \ {o}) \cup own
    <2>1. ASSUME NEW h \in Bars(f, S) PROVE h \in Bars(f, S \ {o}) \cup own
      <3>1. h \in S \X (1..MaxRefs) /\ h[2] <= f[h[1]]
        BY DEF Bars
      <3>2. CASE h[1] = o
        BY <1>0, <3>1, <3>2
      <3>3. CASE h[1] # o
        <4>1. h \in (S \ {o}) \X (1..MaxRefs)
          BY <3>1, <3>3
        <4> QED
          BY <3>1, <4>1 DEF Bars
      <3> QED
        BY <3>2, <3>3
    <2>2. ASSUME NEW h \in own PROVE h \in Bars(f, S)
      <3>1. h \in S \X (1..MaxRefs) /\ h[1] = o /\ h[2] <= f[o]
        BY <1>0
      <3> QED
        BY <3>1 DEF Bars
    <2>3. ASSUME NEW h \in Bars(f, S \ {o}) PROVE h \in Bars(f, S)
      BY DEF Bars
    <2> QED
      BY <2>1, <2>2, <2>3
  <1>4. Bars(f, S \ {o}) \cap own = {}
    BY DEF Bars
  <1>5. IsFiniteSet(Bars(f, S \ {o})) /\ Cardinality(Bars(f, S \ {o})) \in Nat
    BY <1>1, BarsFinite
  <1> HIDE DEF own
  <1>6. Cardinality(Bars(f, S)) = Cardinality(Bars(f, S \ {o})) + Cardinality(own) - Cardinality({})
    BY <1>2, <1>3, <1>4, <1>5, FS_Union
  <1> QED
    BY <1>0, <1>2, <1>5, <1>6, FS_EmptySet

\* Only the references of one owner changed.
LEMMA OneOwner ==
  ASSUME NEW S, IsFiniteSet(S), NEW o \in S, NEW f, NEW g,
         \A p \in S : f[p] \in 0..MaxRefs /\ g[p] \in 0..MaxRefs,
         \A p \in S \ {o} : f[p] = g[p]
  PROVE  Cardinality(Bars(g, S)) = Cardinality(Bars(f, S)) - f[o] + g[o]
  <1>1. Bars(f, S \ {o}) = Bars(g, S \ {o})
    BY DEF Bars
  <1>2. IsFiniteSet(S \ {o})
    BY FS_RemoveElement
  <1>3. Cardinality(Bars(f, S \ {o})) \in Nat
    BY <1>2, BarsFinite
  <1>4. Cardinality(Bars(f, S)) = Cardinality(Bars(f, S \ {o})) + f[o]
    BY BarsSplit
  <1>5. Cardinality(Bars(g, S)) = Cardinality(Bars(g, S \ {o})) + g[o]
    BY BarsSplit
  <1>6. f[o] \in Nat /\ g[o] \in Nat
    BY StringListAssumption
  <1> QED
    BY <1>1, <1>3, <1>4, <1>5, <1>6

\* Only those of two owners changed.
LEMMA TwoOwners ==
  ASSUME NEW S, IsFiniteSet(S), NEW o \in S, NEW p \in S, o # p, NEW f, NEW g,
         \A q \in S : f[q] \in 0..MaxRefs /\ g[q] \in 0..MaxRefs,
         \A q \in S \ {o, p} : f[q] = g[q]
  PROVE  Cardinality(Bars(g, S)) = Cardinality(Bars(f, S)) - f[o] - f[p] + g[o] + g[p]
  <1> DEFINE h == [q \in S |-> IF q = o THEN g[q] ELSE f[q]]
  <1>1. /\ \A q \in S : h[q] \in 0..MaxRefs
        /\ \A q \in S \ {o} : f[q] = h[q]
        /\ \A q \in S \ {p} : h[q] = g[q]
        /\ h[o] = g[o] /\ h[p] = f[p]
    OBVIOUS
  <1> HIDE DEF h
  <1>2. Cardinality(Bars(h, S)) = Cardinality(Bars(f, S)) - f[o] + h[o]
    BY <1>1, OneOwner
  <1>3. Cardinality(Bars(g, S)) = Cardinality(Bars(h, S)) - h[p] + g[p]
    BY <1>1, OneOwner
  <1>4. Cardinality(Bars(f, S)) \in Nat /\ Cardinality(Bars(h, S)) \in Nat /\ Cardinality(Bars(g, S)) \in Nat
    BY BarsFinite
  <1>5. f[o] \in Nat /\ g[o] \in Nat /\ f[p] \in Nat /\ g[p] \in Nat
    BY StringListAssumption
  <1> QED
    BY <1>1, <1>2, <1>3, <1>4, <1>5

\* Two sets of threads that differ in one thread at most.
One(b) == IF b THEN 1 ELSE 0

LEMMA OneThread ==
  ASSUME NEW A, NEW B, IsFiniteSet(A), IsFiniteSet(B), NEW t, A \ {t} = B \ {t}
  PROVE  /\ Cardinality(A) \in Nat /\ Cardinality(B) \in Nat
         /\ Cardinality(B) = Cardinality(A) - One(t \in A) + One(t \in B)
  <1>1. Cardinality(A) \in Nat /\ Cardinality(B) \in Nat
    BY FS_CardinalityType
  <1>2. Cardinality(A \ {t}) = IF t \in A THEN Cardinality(A) - 1 ELSE Cardinality(A)
    BY FS_RemoveElement
  <1>3. Cardinality(B \ {t}) = IF t \in B THEN Cardinality(B) - 1 ELSE Cardinality(B)
    BY FS_RemoveElement
  <1> QED
    BY <1>1, <1>2, <1>3 DEF One

-------------------------------------------------------------------------------
(* How the references owed on a slot move with a step.                       *)

OwnedOf(i) == [o \in Owners |-> owns[o][i]]

CallOf(t, i)  == pc[t] # "ready" /\ task[t].counted /\ task[t].id = i
FieldOf(t, i) == field[t] = i /\ pc[t] # "assigning"

LEMMA OwnersFinite == IsFiniteSet(Owners)
  BY StringListAssumption, FS_Union DEF Owners

LEMMA HeldBars ==
  ASSUME NEW i \in Ids
  PROVE  Held(i) = Bars(OwnedOf(i), Owners)
  BY DEF Held, Bars, OwnedOf

LEMMA CountsAreNat ==
  ASSUME NEW A \in SUBSET Threads, NEW B \in SUBSET Threads, NEW f
  PROVE  Cardinality(A) \in Nat /\ Cardinality(B) \in Nat /\ Cardinality(Bars(f, Owners)) \in Nat
  <1>1. IsFiniteSet(A) /\ IsFiniteSet(B)
    BY FS_Subset, StringListAssumption
  <1> QED
    BY <1>1, FS_CardinalityType, OwnersFinite, BarsFinite

LEMMA OwedIsNat ==
  ASSUME NEW i \in Ids
  PROVE  /\ Cardinality(InCalls(i)) \in Nat /\ Cardinality(InFields(i)) \in Nat
         /\ Cardinality(Held(i)) \in Nat /\ Owed(i) \in Nat
         /\ Owed(i)' \in Nat
  <1>1. /\ InCalls(i) \in SUBSET Threads /\ InFields(i) \in SUBSET Threads
        /\ InCalls(i)' \in SUBSET Threads /\ InFields(i)' \in SUBSET Threads
    BY DEF InCalls, InFields
  <1>2. /\ Cardinality(InCalls(i)) \in Nat /\ Cardinality(InFields(i)) \in Nat
        /\ Cardinality(Held(i)) \in Nat
    BY <1>1, HeldBars, CountsAreNat
  <1>3. Held(i)' = Bars(OwnedOf(i)', Owners)
    BY DEF Held, Bars, OwnedOf
  <1>4. /\ Cardinality(InCalls(i)') \in Nat /\ Cardinality(InFields(i)') \in Nat
        /\ Cardinality(Held(i)') \in Nat
    BY <1>1, <1>3, CountsAreNat
  <1> QED
    BY <1>2, <1>4 DEF Owed

\* What a step of thread t does to what is owed: its call, its field, and
\* what the owners hold.
LEMMA ThreadMoves ==
  ASSUME NEW t \in Threads, NEW i \in Ids,
         \A p \in Threads \ {t} : pc'[p] = pc[p] /\ task'[p] = task[p] /\ field'[p] = field[p]
  PROVE  Owed(i)' = Owed(i) - One(CallOf(t, i)) + One(CallOf(t, i)')
                            - One(FieldOf(t, i)) + One(FieldOf(t, i)')
                            - Cardinality(Held(i)) + Cardinality(Held(i)')
  <1>1. InCalls(i) \in SUBSET Threads /\ InFields(i) \in SUBSET Threads
        /\ InCalls(i)' \in SUBSET Threads /\ InFields(i)' \in SUBSET Threads
    BY DEF InCalls, InFields
  <1>2. IsFiniteSet(InCalls(i)) /\ IsFiniteSet(InFields(i))
        /\ IsFiniteSet(InCalls(i)') /\ IsFiniteSet(InFields(i)')
    BY <1>1, FS_Subset, StringListAssumption
  <1>3. InCalls(i) \ {t} = InCalls(i)' \ {t}
    BY DEF InCalls
  <1>4. InFields(i) \ {t} = InFields(i)' \ {t}
    BY DEF InFields
  <1>5. /\ t \in InCalls(i) <=> CallOf(t, i)
        /\ t \in InCalls(i)' <=> CallOf(t, i)'
        /\ t \in InFields(i) <=> FieldOf(t, i)
        /\ t \in InFields(i)' <=> FieldOf(t, i)'
    BY DEF InCalls, InFields, CallOf, FieldOf
  <1>6. Cardinality(InCalls(i)') = Cardinality(InCalls(i)) - One(CallOf(t, i)) + One(CallOf(t, i)')
    <2>1. Cardinality(InCalls(i)')
            = Cardinality(InCalls(i)) - One(t \in InCalls(i)) + One(t \in InCalls(i)')
      BY <1>2, <1>3, OneThread
    <2> QED
      BY <1>5, <2>1 DEF One
  <1>7. Cardinality(InFields(i)') = Cardinality(InFields(i)) - One(FieldOf(t, i)) + One(FieldOf(t, i)')
    <2>1. Cardinality(InFields(i)')
            = Cardinality(InFields(i)) - One(t \in InFields(i)) + One(t \in InFields(i)')
      BY <1>2, <1>4, OneThread
    <2> QED
      BY <1>5, <2>1 DEF One
  <1>8. /\ Cardinality(InCalls(i)) \in Nat /\ Cardinality(InFields(i)) \in Nat
        /\ Cardinality(Held(i)) \in Nat
    BY OwedIsNat
  <1>9. Cardinality(Held(i)') \in Nat
    <2>1. Held(i)' = Bars(OwnedOf(i)', Owners)
      BY DEF Held, Bars, OwnedOf
    <2> QED
      BY <2>1, OwnersFinite, BarsFinite
  <1>10. /\ One(CallOf(t, i)) \in Int /\ One(CallOf(t, i)') \in Int
         /\ One(FieldOf(t, i)) \in Int /\ One(FieldOf(t, i)') \in Int
    BY DEF One
  <1>11. Owed(i) = Cardinality(InCalls(i)) + Cardinality(InFields(i)) + Cardinality(Held(i))
    BY DEF Owed
  <1>12. Owed(i)' = Cardinality(InCalls(i)') + Cardinality(InFields(i)') + Cardinality(Held(i)')
    BY DEF Owed
  <1> QED
    BY <1>6, <1>7, <1>8, <1>9, <1>10, <1>11, <1>12

\* What the owners hold, when nothing or one owner's count moved.
LEMMA HeldMoves ==
  ASSUME OwnersType, OwnersType', NEW o \in Owners, NEW i \in Ids,
         \A p \in Owners \ {o} : owns'[p][i] = owns[p][i]
  PROVE  Cardinality(Held(i)') = Cardinality(Held(i)) - owns[o][i] + owns'[o][i]
  <1>1. Held(i) = Bars(OwnedOf(i), Owners)
    BY HeldBars
  <1>2. Held(i)' = Bars(OwnedOf(i)', Owners)
    BY DEF Held, Bars, OwnedOf
  <1>3. /\ \A p \in Owners : OwnedOf(i)[p] = owns[p][i] /\ OwnedOf(i)'[p] = owns'[p][i]
    BY DEF OwnedOf
  <1>4. \A p \in Owners : owns[p][i] \in 0..MaxRefs /\ owns'[p][i] \in 0..MaxRefs
    BY DEF OwnersType
  <1> DEFINE f == OwnedOf(i)
             g == OwnedOf(i)'
  <1>a. /\ \A p \in Owners : f[p] \in 0..MaxRefs /\ g[p] \in 0..MaxRefs
        /\ \A p \in Owners \ {o} : f[p] = g[p]
    BY <1>3, <1>4
  <1> HIDE DEF f, g
  <1>5. Cardinality(Bars(g, Owners)) = Cardinality(Bars(f, Owners)) - f[o] + g[o]
    BY <1>a, OneOwner, OwnersFinite
  <1> QED
    BY <1>1, <1>2, <1>3, <1>5 DEF f, g

LEMMA HeldMovesTwo ==
  ASSUME OwnersType, OwnersType', NEW o \in Owners, NEW p \in Owners, o # p, NEW i \in Ids,
         \A q \in Owners \ {o, p} : owns'[q][i] = owns[q][i]
  PROVE  Cardinality(Held(i)') = Cardinality(Held(i)) - owns[o][i] - owns[p][i]
                                   + owns'[o][i] + owns'[p][i]
  <1>1. Held(i) = Bars(OwnedOf(i), Owners)
    BY HeldBars
  <1>2. Held(i)' = Bars(OwnedOf(i)', Owners)
    BY DEF Held, Bars, OwnedOf
  <1>3. /\ \A q \in Owners : OwnedOf(i)[q] = owns[q][i] /\ OwnedOf(i)'[q] = owns'[q][i]
    BY DEF OwnedOf
  <1>4. \A q \in Owners : owns[q][i] \in 0..MaxRefs /\ owns'[q][i] \in 0..MaxRefs
    BY DEF OwnersType
  <1> DEFINE f == OwnedOf(i)
             g == OwnedOf(i)'
  <1>a. /\ \A q \in Owners : f[q] \in 0..MaxRefs /\ g[q] \in 0..MaxRefs
        /\ \A q \in Owners \ {o, p} : f[q] = g[q]
    BY <1>3, <1>4
  <1> HIDE DEF f, g
  <1>5. Cardinality(Bars(g, Owners)) = Cardinality(Bars(f, Owners)) - f[o] - f[p] + g[o] + g[p]
    BY <1>a, TwoOwners, OwnersFinite
  <1> QED
    BY <1>1, <1>2, <1>3, <1>5 DEF f, g

-------------------------------------------------------------------------------
(* The count of a slot covers what is owed on it.                            *)

\* Which calls in progress have a reference to give back, or to hand on.
CountForm == \A t \in Threads :
  /\ pc[t] \in {"lowered", "adding"} => ~task[t].counted
  /\ pc[t] = "found" => task[t].counted \/ task[t].owner = None
  /\ pc[t] \in {"removing", "assigning"} => (task[t].counted <=> task[t].id # 0)

\* A free slot has no count left, so that a new string starts with one.
FreeUncounted == \A i \in Ids : ~Used(i) => refs[i] = 0

CountInv == CountForm /\ FreeUncounted /\ CountedUnlessBorrowed

\* The step of thread t that leaves the others where they are.
StepOf(t) == \A p \in Threads \ {t} : pc'[p] = pc[p] /\ task'[p] = task[p] /\ field'[p] = field[p]

\* A step that counts what it takes keeps every count covered: its call, its
\* field and the one owner whose references it changes.
LEMMA Balanced ==
  ASSUME IInv, IInv', Counted, NEW t \in Threads, NEW o \in Owners, StepOf(t),
         \A p \in Owners \ {o}, i \in Ids : owns'[p][i] = owns[p][i],
         \A i \in Ids : refs'[i] - refs[i] >= One(CallOf(t, i)') - One(CallOf(t, i))
                                                + One(FieldOf(t, i)') - One(FieldOf(t, i))
                                                + owns'[o][i] - owns[o][i]
  PROVE  Counted'
  <1>0. TableType /\ OwnersType /\ TableType' /\ OwnersType'
    BY TypeParts DEF IInv, TypeOK, TableType, OwnersType
  <1> SUFFICES ASSUME NEW i \in Ids PROVE refs'[i] >= Owed(i)'
    BY DEF Counted
  <1>1. refs[i] >= Owed(i) /\ refs[i] \in Nat /\ refs'[i] \in Nat
    BY <1>0 DEF Counted, TableType
  <1>2. Cardinality(Held(i)) \in Nat /\ Owed(i) \in Nat
    BY OwedIsNat
  <1>3. owns[o][i] \in Nat /\ owns'[o][i] \in Nat
    BY <1>0 DEF OwnersType
  <1>4. Cardinality(Held(i)') = Cardinality(Held(i)) - owns[o][i] + owns'[o][i]
    BY <1>0, HeldMoves
  <1>5. Owed(i)' = Owed(i) - One(CallOf(t, i)) + One(CallOf(t, i)')
                           - One(FieldOf(t, i)) + One(FieldOf(t, i)')
                           - Cardinality(Held(i)) + Cardinality(Held(i)')
    BY ThreadMoves DEF StepOf
  <1>6. /\ One(CallOf(t, i)) \in Int /\ One(CallOf(t, i)') \in Int
        /\ One(FieldOf(t, i)) \in Int /\ One(FieldOf(t, i)') \in Int
    BY DEF One
  <1>7. refs'[i] - refs[i] >= One(CallOf(t, i)') - One(CallOf(t, i))
                                + One(FieldOf(t, i)') - One(FieldOf(t, i))
                                + owns'[o][i] - owns[o][i]
    OBVIOUS
  <1> QED
    BY <1>1, <1>2, <1>3, <1>4, <1>5, <1>6, <1>7

LEMMA GetCounted ==
  ASSUME IInv, IInv', TableInv, FreeUncounted, Counted,
         NEW t \in Threads, NEW s \in Strings, NEW o \in Owners, Get(t, s, o), UNCHANGED field,
         pc[t] \in {"ready", "lowered"}, pc[t] = "lowered" => ~task[t].counted
  PROVE  Counted'
  <1>0. TableType /\ OwnersType /\ LocalsType
    BY TypeParts DEF IInv
  <1>1. \A i \in Ids : ~CallOf(t, i)
    BY DEF CallOf
  <1>2. \A i \in Ids : refs[i] \in Nat
    BY <1>0 DEF TableType
  <1>3. CASE hashMap[s] # 0 /\ AddRef(hashMap[s])
    <2>1. /\ UNCHANGED owns
          /\ pc' = [pc EXCEPT ![t] = "found"]
          /\ task' = [task EXCEPT ![t] = Call(hashMap[s], s, o, TRUE)]
      BY <1>3 DEF Get
    <2>2. StepOf(t) /\ pc'[t] = "found" /\ task'[t].id = hashMap[s]
      BY <1>0, <2>1 DEF StepOf, LocalsType, Call
    <2>3. \A i \in Ids : /\ FieldOf(t, i)' <=> FieldOf(t, i)
                         /\ CallOf(t, i)' => i = hashMap[s]
      BY <2>2 DEF FieldOf, CallOf
    <2>4. \A i \in Ids : refs'[i] = refs[i] + One(i = hashMap[s])
      BY <1>0, <1>2, <1>3 DEF AddRef, TableType, One
    <2>5. \A i \in Ids : owns'[o][i] = owns[o][i] /\ owns[o][i] \in Nat
      BY <1>0, <2>1 DEF OwnersType
    <2> QED
      BY <1>1, <1>2, <2>1, <2>2, <2>3, <2>4, <2>5, Balanced DEF One
  <1>4. CASE ~(hashMap[s] # 0 /\ AddRef(hashMap[s]))
    <2>1. /\ NewString(s, o)
          /\ pc' = [pc EXCEPT ![t] = "ready"]
          /\ task' = [task EXCEPT ![t] = NoTask]
      BY <1>4 DEF Get
    <2>2. StepOf(t) /\ pc'[t] = "ready"
      BY <1>0, <2>1 DEF StepOf, LocalsType
    <2>3. \A i \in Ids : ~CallOf(t, i)' /\ (FieldOf(t, i)' <=> FieldOf(t, i))
      BY <2>2 DEF CallOf, FieldOf
    <2>4. /\ owns' = [owns EXCEPT ![o][firstFree] = @ + 1]
          /\ refs' = [refs EXCEPT ![firstFree] = 1]
      BY <2>1 DEF NewString
    <2>5. firstFree \in Ids /\ refs[firstFree] = 0
      BY <1>0 DEF TableType, TableInv, FirstFreeIsFree, FreeUncounted
    <2>6. \A i \in Ids : owns'[o][i] = owns[o][i] + One(i = firstFree) /\ owns[o][i] \in Nat
      BY <1>0, <2>4, <2>5 DEF OwnersType, One
    <2>7. \A p \in Owners \ {o}, i \in Ids : owns'[p][i] = owns[p][i]
      BY <1>0, <2>4 DEF OwnersType
    <2>8. \A i \in Ids : refs'[i] = refs[i] + One(i = firstFree)
      BY <1>0, <1>2, <2>4, <2>5 DEF TableType, One
    <2> QED
      BY <1>1, <1>2, <2>2, <2>3, <2>6, <2>7, <2>8, Balanced DEF One
  <1> QED
    BY <1>3, <1>4

\* A step that takes no reference and leaves every count where it is.
LEMMA NothingOwed ==
  ASSUME IInv, IInv', Counted, NEW t \in Threads, StepOf(t), UNCHANGED <<refs, owns>>,
         \A i \in Ids : CallOf(t, i)' => CallOf(t, i),
         \A i \in Ids : FieldOf(t, i)' => FieldOf(t, i)
  PROVE  Counted'
  <1>0. TableType /\ OwnersType /\ t \in Owners
    BY TypeParts DEF IInv, Owners
  <1>1. \A i \in Ids : refs[i] \in Nat /\ owns[t][i] \in Nat
    BY <1>0 DEF TableType, OwnersType
  <1> QED
    BY <1>0, <1>1, Balanced DEF One

LEMMA StepCounted ==
  ASSUME Roomy, IInv, TableInv, CountInv, NEW t \in Threads, Step(t)
  PROVE  CountedUnlessBorrowed'
  <1>0. /\ TableType /\ OwnersType /\ LocalsType /\ HistoryType /\ UsedCounted
        /\ IInv'
    BY TypeParts, StepType DEF IInv
  <1>b. /\ CountForm /\ FreeUncounted
        /\ t \in Owners /\ pc[t] \in PCs /\ task[t] \in Task /\ field[t] \in 0..MaxId
        /\ \A i \in Ids : refs[i] \in Nat /\ owns[t][i] \in Nat
    BY <1>0 DEF CountInv, Owners, LocalsType, OwnersType, TableType
  <1>c. NoTask.counted = FALSE /\ NoTask.id = 0
    BY DEF NoTask, Call
  <1> SUFFICES ASSUME ~borrowed', ~misled' PROVE Counted'
    BY DEF CountedUnlessBorrowed
  <1>d. ~borrowed /\ ~misled
    BY <1>0 DEF Step, GetString, FindString, ReturnFound, ConvertToLowercase, ConvertLong, GetLowercase,
         AddRefToString, RemoveRefToString, SetString, SetStringRemoves, SetStringAssigns,
         TransferRefToUser, AddUser, AddUserCounts, AddUserOrs, history, HistoryType
  <1>e. Counted
    BY <1>d DEF CountInv, CountedUnlessBorrowed
  <1>1. ASSUME NEW s \in Strings, NEW o \in Owners, GetString(t, s, o) PROVE Counted'
    BY <1>0, <1>1, <1>b, <1>e, GetCounted DEF GetString
  <1>2. ASSUME NEW s \in Strings, FindString(t, s) PROVE Counted'
    <2>1. /\ pc[t] = "ready" /\ pc' = [pc EXCEPT ![t] = "found"]
          /\ task' = [task EXCEPT ![t] = Call(hashMap[s], s, None, FALSE)]
          /\ UNCHANGED <<refs, owns, field>>
      BY <1>2 DEF FindString, table, owners
    <2>2. StepOf(t) /\ pc'[t] = "found" /\ task'[t].counted = FALSE
      BY <1>0, <2>1 DEF StepOf, LocalsType, Call
    <2> QED
      BY <1>0, <1>e, <2>1, <2>2, NothingOwed DEF CallOf, FieldOf
  <1>3. ASSUME ReturnFound(t) PROVE Counted'
    <2>1. /\ pc[t] = "found" /\ pc' = [pc EXCEPT ![t] = "ready"]
          /\ task' = [task EXCEPT ![t] = NoTask]
          /\ UNCHANGED <<refs, field>>
      BY <1>3 DEF ReturnFound, table
    <2>2. StepOf(t) /\ pc'[t] = "ready"
      BY <1>0, <2>1 DEF StepOf, LocalsType
    <2>3. \A i \in Ids : ~CallOf(t, i)' /\ (FieldOf(t, i)' <=> FieldOf(t, i))
      BY <2>1, <2>2 DEF CallOf, FieldOf
    <2>4. IF task[t].id = 0 \/ task[t].owner = None
          THEN UNCHANGED owns
          ELSE owns' = [owns EXCEPT ![task[t].owner][task[t].id] = @ + 1]
      <3>1. PICK v \in ReadBack(t) :
              /\ misled' = (misled \/ v # task[t].id)
              /\ IF v = 0 \/ task[t].owner = None
                 THEN UNCHANGED owns
                 ELSE /\ owns[task[t].owner][v] < MaxRefs
                      /\ owns' = [owns EXCEPT ![task[t].owner][v] = @ + 1]
        BY <1>3 DEF ReturnFound
      <3> QED
        BY <3>1
    <2>5. CASE task[t].id = 0 \/ task[t].owner = None
      BY <1>0, <1>e, <2>1, <2>2, <2>3, <2>4, <2>5, NothingOwed
    <2>6. CASE ~(task[t].id = 0 \/ task[t].owner = None)
      <3> DEFINE o == task[t].owner
                 v == task[t].id
      <3>1. o \in Owners /\ v \in Ids /\ task[t].counted
        BY <1>b, <2>1, <2>6 DEF Task, CountForm, Ids
      <3>2. owns' = [owns EXCEPT ![o][v] = @ + 1]
        BY <2>4, <2>6
      <3>3. \A i \in Ids : CallOf(t, i) <=> i = v
        BY <2>1, <3>1 DEF CallOf
      <3> HIDE DEF o, v
      <3>4. \A i \in Ids : owns'[o][i] = owns[o][i] + One(i = v) /\ owns[o][i] \in Nat
        BY <1>0, <3>1, <3>2 DEF OwnersType, One
      <3>5. \A p \in Owners \ {o}, i \in Ids : owns'[p][i] = owns[p][i]
        BY <1>0, <3>1, <3>2 DEF OwnersType
      <3> QED
        BY <1>0, <1>b, <1>e, <2>1, <2>2, <2>3, <3>1, <3>3, <3>4, <3>5, Balanced DEF One
    <2> QED
      BY <2>5, <2>6
  <1>4. ASSUME NEW i \in Ids, NEW o \in Owners, ConvertToLowercase(t, i, o) PROVE Counted'
    <2>1. /\ pc[t] = "ready" /\ pc' = [pc EXCEPT ![t] = "lowered"]
          /\ task' = [task EXCEPT ![t] = Call(0, Lower[string[i]], o, FALSE)]
          /\ UNCHANGED <<refs, owns, field>>
      BY <1>4 DEF ConvertToLowercase, table, owners
    <2>2. StepOf(t) /\ pc'[t] = "lowered" /\ task'[t].counted = FALSE
      BY <1>0, <2>1 DEF StepOf, LocalsType, Call
    <2> QED
      BY <1>0, <1>e, <2>1, <2>2, NothingOwed DEF CallOf, FieldOf
  <1>5. ASSUME GetLowercase(t) PROVE Counted'
    <2>1. pc[t] = "lowered" /\ Get(t, task[t].string, task[t].owner) /\ UNCHANGED field
      BY <1>5 DEF GetLowercase
    <2>2. task[t].string \in Strings /\ task[t].owner \in Owners /\ ~task[t].counted
      BY <1>0, <1>b, <2>1 DEF LocalsType, CallForm, CountForm
    <2> QED
      BY <1>0, <1>b, <1>e, <2>1, <2>2, GetCounted
  <1>6. ASSUME NEW i \in Ids, AddRefToString(t, i) PROVE Counted'
    <2>1. /\ refs' = [refs EXCEPT ![i] = @ + 1]
          /\ owns' = [owns EXCEPT ![t][i] = @ + 1]
          /\ UNCHANGED <<pc, task, field>>
      BY <1>6 DEF AddRefToString, AddRef, locals
    <2>2. StepOf(t) /\ \A j \in Ids : /\ CallOf(t, j)' <=> CallOf(t, j)
                                      /\ FieldOf(t, j)' <=> FieldOf(t, j)
      BY <2>1 DEF StepOf, CallOf, FieldOf
    <2>3. \A j \in Ids : owns'[t][j] = owns[t][j] + One(j = i)
      BY <1>0, <1>b, <2>1 DEF OwnersType, One
    <2>4. \A p \in Owners \ {t}, j \in Ids : owns'[p][j] = owns[p][j]
      BY <1>0, <1>b, <2>1 DEF OwnersType
    <2>5. \A j \in Ids : refs'[j] = refs[j] + One(j = i)
      BY <1>0, <1>b, <2>1 DEF TableType, One
    <2> QED
      BY <1>0, <1>b, <1>e, <2>2, <2>3, <2>4, <2>5, Balanced DEF One
  <1>7. ASSUME NEW i \in Ids, RemoveRefToString(t, i) PROVE Counted'
    <2>1. /\ owns[t][i] > 0
          /\ refs' = [j \in Ids |-> IF j \in {i} THEN refs[j] - 1 ELSE refs[j]]
          /\ owns' = [owns EXCEPT ![t][i] = @ - 1]
          /\ UNCHANGED <<pc, task, field>>
      BY <1>7 DEF RemoveRefToString, RemoveRefs
    <2>2. StepOf(t) /\ \A j \in Ids : /\ CallOf(t, j)' <=> CallOf(t, j)
                                      /\ FieldOf(t, j)' <=> FieldOf(t, j)
      BY <2>1 DEF StepOf, CallOf, FieldOf
    <2>3. \A j \in Ids : owns'[t][j] = owns[t][j] - One(j = i)
      BY <1>0, <1>b, <2>1 DEF OwnersType, One
    <2>4. \A p \in Owners \ {t}, j \in Ids : owns'[p][j] = owns[p][j]
      BY <1>0, <1>b, <2>1 DEF OwnersType
    <2>5. \A j \in Ids : refs'[j] = refs[j] - One(j = i)
      BY <1>0, <1>b, <2>1 DEF TableType, One
    <2> QED
      BY <1>0, <1>b, <1>e, <2>2, <2>3, <2>4, <2>5, Balanced DEF One
  <1>8. ASSUME NEW i \in 0..MaxId, SetString(t, i) PROVE Counted'
    <2>1. /\ pc[t] = "ready" /\ pc' = [pc EXCEPT ![t] = "removing"]
          /\ task' = [task EXCEPT ![t] = Call(i, None, None, i # 0)]
          /\ UNCHANGED <<owns, field>>
          /\ IF i = 0 THEN UNCHANGED refs ELSE refs' = [refs EXCEPT ![i] = @ + 1]
      BY <1>8 DEF SetString, AddRef, table, owners
    <2>2. StepOf(t) /\ pc'[t] = "removing" /\ task'[t].id = i
      BY <1>0, <2>1 DEF StepOf, LocalsType, Call
    <2>3. \A j \in Ids : /\ CallOf(t, j)' => j = i
                         /\ ~CallOf(t, j)
                         /\ FieldOf(t, j)' <=> FieldOf(t, j)
      BY <2>1, <2>2 DEF CallOf, FieldOf
    <2>4. \A j \in Ids : refs'[j] = refs[j] + One(j = i)
      BY <1>0, <1>b, <2>1, StringListAssumption DEF TableType, One, Ids
    <2> QED
      BY <1>0, <1>b, <1>e, <2>1, <2>2, <2>3, <2>4, Balanced DEF One
  <1>9. ASSUME SetStringRemoves(t) PROVE Counted'
    <2>1. /\ pc[t] = "removing" /\ pc' = [pc EXCEPT ![t] = "assigning"]
          /\ UNCHANGED <<owns, field, task>>
          /\ IF field[t] = 0 THEN UNCHANGED refs
             ELSE refs' = [j \in Ids |-> IF j \in {field[t]} THEN refs[j] - 1 ELSE refs[j]]
      BY <1>9 DEF SetStringRemoves, RemoveRefs, table, owners
    <2>2. StepOf(t) /\ pc'[t] = "assigning"
      BY <1>0, <2>1 DEF StepOf, LocalsType
    <2>3. \A j \in Ids : /\ CallOf(t, j)' <=> CallOf(t, j)
                         /\ FieldOf(t, j) <=> field[t] = j
                         /\ ~FieldOf(t, j)'
      BY <2>1, <2>2 DEF CallOf, FieldOf
    <2>4. \A j \in Ids : refs'[j] = refs[j] - One(j = field[t])
      <3>1. CASE field[t] = 0
        BY <1>0, <1>b, <2>1, <3>1, StringListAssumption DEF TableType, One, Ids
      <3>2. CASE field[t] # 0
        BY <1>0, <1>b, <2>1, <3>2 DEF TableType, One
      <3> QED
        BY <3>1, <3>2
    <2> QED
      BY <1>0, <1>b, <1>e, <2>1, <2>2, <2>3, <2>4, Balanced DEF One
  <1>10. ASSUME SetStringAssigns(t) PROVE Counted'
    <2>1. /\ pc[t] = "assigning" /\ pc' = [pc EXCEPT ![t] = "ready"]
          /\ field' = [field EXCEPT ![t] = task[t].id]
          /\ task' = [task EXCEPT ![t] = NoTask]
          /\ UNCHANGED <<refs, owns>>
      BY <1>10 DEF SetStringAssigns, table
    <2>2. StepOf(t) /\ pc'[t] = "ready" /\ field'[t] = task[t].id
      BY <1>0, <2>1 DEF StepOf, LocalsType, OwnersType
    <2>3. \A j \in Ids : /\ ~CallOf(t, j)' /\ ~FieldOf(t, j)
                         /\ FieldOf(t, j)' <=> CallOf(t, j)
      BY <1>b, <2>1, <2>2, StringListAssumption DEF CallOf, FieldOf, CountForm, Ids
    <2> QED
      BY <1>0, <1>b, <1>e, <2>1, <2>2, <2>3, Balanced DEF One
  <1>11. ASSUME NEW i \in Ids, NEW u \in Users, TransferRefToUser(t, i, u) PROVE Counted'
    <2>1. /\ owns' = [owns EXCEPT ![t] = [owns[t] EXCEPT ![i] = @ - 1],
                                  ![u] = [owns[u] EXCEPT ![i] = @ + 1]]
          /\ UNCHANGED <<refs, field, pc, task>>
      BY <1>11 DEF TransferRefToUser, locals
    <2>2. u \in Owners /\ t # u
      BY StringListAssumption DEF Owners
    <2>3. Counted'
      <3> SUFFICES ASSUME NEW j \in Ids PROVE refs'[j] >= Owed(j)'
        BY DEF Counted
      <3>1. OwnersType'
        BY <1>0, TypeParts DEF IInv, TypeOK, OwnersType
      <3>2. /\ owns'[t][j] = owns[t][j] - One(j = i) /\ owns'[u][j] = owns[u][j] + One(j = i)
            /\ \A q \in Owners \ {t, u} : owns'[q][j] = owns[q][j]
            /\ owns[t][j] \in Nat /\ owns[u][j] \in Nat
        BY <1>0, <1>b, <2>1, <2>2 DEF OwnersType, One
      <3>3. Cardinality(Held(j)') = Cardinality(Held(j)) - owns[t][j] - owns[u][j]
                                      + owns'[t][j] + owns'[u][j]
        BY <1>0, <1>b, <2>2, <3>1, <3>2, HeldMovesTwo
      <3>4. Cardinality(Held(j)) \in Nat
        BY OwedIsNat
      <3>5. Cardinality(Held(j)') = Cardinality(Held(j))
        BY <3>2, <3>3, <3>4 DEF One
      <3>6. InCalls(j)' = InCalls(j) /\ InFields(j)' = InFields(j)
        BY <2>1 DEF InCalls, InFields
      <3> QED
        BY <1>e, <2>1, <3>5, <3>6 DEF Owed, Counted
    <2> QED
      BY <2>3
  <1>12. ASSUME NEW i \in Ids, NEW u \in Users, AddUser(t, i, u) PROVE Counted'
    <2>1. /\ pc[t] = "ready" /\ pc' = [pc EXCEPT ![t] = IF u \in users[i] THEN "oring" ELSE "adding"]
          /\ task' = [task EXCEPT ![t] = Call(i, None, u, FALSE)]
          /\ UNCHANGED <<refs, owns, field>>
      BY <1>12 DEF AddUser, table, owners
    <2>2. StepOf(t) /\ pc'[t] # "assigning" /\ task'[t].counted = FALSE
      BY <1>0, <2>1 DEF StepOf, LocalsType, Call
    <2> QED
      BY <1>0, <1>e, <2>1, <2>2, NothingOwed DEF CallOf, FieldOf
  <1>13. ASSUME AddUserCounts(t) PROVE Counted'
    <2>1. /\ pc[t] = "adding" /\ pc' = [pc EXCEPT ![t] = "oring"]
          /\ task' = [task EXCEPT ![t].counted = TRUE]
          /\ refs' = [refs EXCEPT ![task[t].id] = @ + 1]
          /\ UNCHANGED <<owns, field>>
      BY <1>13 DEF AddUserCounts, AddRef, owners
    <2>2. StepOf(t) /\ pc'[t] = "oring" /\ task'[t].id = task[t].id /\ task[t].id \in Ids
      BY <1>0, <2>1 DEF StepOf, LocalsType, CallForm, Task
    <2>3. \A j \in Ids : /\ CallOf(t, j)' => j = task[t].id
                         /\ ~CallOf(t, j)
                         /\ FieldOf(t, j)' <=> FieldOf(t, j)
      BY <1>b, <2>1, <2>2 DEF CallOf, FieldOf, CountForm
    <2>4. \A j \in Ids : refs'[j] = refs[j] + One(j = task[t].id)
      BY <1>0, <1>b, <2>1, <2>2 DEF TableType, One
    <2> QED
      BY <1>0, <1>b, <1>e, <2>1, <2>2, <2>3, <2>4, Balanced DEF One
  <1>14. ASSUME AddUserOrs(t) PROVE Counted'
    <2> DEFINE v == task[t].id
               u == task[t].owner
    <2>1. /\ pc[t] = "oring" /\ pc' = [pc EXCEPT ![t] = "ready"]
          /\ owns' = IF task[t].counted \/ owns[u][v] = 0
                     THEN [owns EXCEPT ![u][v] = @ + 1] ELSE owns
          /\ borrowed' = (borrowed \/ iter[t] # "intact" \/ (~task[t].counted /\ owns[u][v] = 0))
          /\ task' = [task EXCEPT ![t] = NoTask]
          /\ UNCHANGED <<refs, field>>
      BY <1>14 DEF AddUserOrs
    <2>2. v \in Ids /\ u \in Owners
      BY <1>0, <2>1 DEF LocalsType, CallForm, Owners
    <2>3. StepOf(t) /\ pc'[t] = "ready"
      BY <1>0, <2>1 DEF StepOf, LocalsType
    <2>4. \A j \in Ids : /\ ~CallOf(t, j)'
                         /\ CallOf(t, j) <=> task[t].counted /\ j = v
                         /\ FieldOf(t, j)' <=> FieldOf(t, j)
      BY <2>1, <2>3 DEF CallOf, FieldOf
    <2>5. owns' = IF task[t].counted THEN [owns EXCEPT ![u][v] = @ + 1] ELSE owns
      BY <2>1
    <2> HIDE DEF u, v
    <2>6. \A j \in Ids : /\ owns'[u][j] = owns[u][j] + One(task[t].counted /\ j = v)
                         /\ owns[u][j] \in Nat
      BY <1>0, <2>2, <2>5 DEF OwnersType, One
    <2>7. \A p \in Owners \ {u}, j \in Ids : owns'[p][j] = owns[p][j]
      BY <1>0, <2>2, <2>5 DEF OwnersType
    <2> QED
      BY <1>0, <1>b, <1>e, <2>1, <2>2, <2>3, <2>4, <2>6, <2>7, Balanced DEF One
  <1>15. ASSUME NEW i \in Ids, NEW o \in Owners, ConvertLong(t, i, o) PROVE Counted'
    BY <1>15 DEF ConvertLong
  <1> QED
    BY <1>1, <1>2, <1>3, <1>4, <1>5, <1>6, <1>7, <1>8, <1>9, <1>10, <1>11, <1>12, <1>13, <1>14, <1>15
       DEF Step

LEMMA ShutdownCounted ==
  ASSUME IInv, IInv', CountInv, NEW u \in Users, ShutdownSystem(u)
  PROVE  CountedUnlessBorrowed'
  <1>0. TableType /\ OwnersType /\ HistoryType /\ TableType' /\ OwnersType'
    BY TypeParts DEF IInv, TypeOK, TableType, OwnersType
  <1>1. /\ refs' = [i \in Ids |-> IF i \in SharedBy(u) THEN refs[i] - 1 ELSE refs[i]]
        /\ owns' = [owns EXCEPT ![u] = [i \in Ids |-> 0]]
        /\ borrowed' = (borrowed \/ \E i \in SharedBy(u) : owns[u][i] = 0)
        /\ UNCHANGED <<field, pc, task, misled>>
    BY DEF ShutdownSystem, RemoveRefs
  <1> SUFFICES ASSUME ~borrowed', ~misled', NEW i \in Ids PROVE refs'[i] >= Owed(i)'
    BY DEF CountedUnlessBorrowed, Counted
  <1>2. refs[i] >= Owed(i) /\ (i \in SharedBy(u) => owns[u][i] # 0)
    BY <1>0, <1>1 DEF CountInv, CountedUnlessBorrowed, Counted, HistoryType
  <1>3. u \in Owners /\ refs[i] \in Nat /\ owns[u][i] \in Nat /\ owns'[u][i] = 0
    BY <1>0, <1>1 DEF Owners, TableType, OwnersType
  <1>4. Cardinality(Held(i)') = Cardinality(Held(i)) - owns[u][i] + owns'[u][i]
    <2>1. \A p \in Owners \ {u} : owns'[p][i] = owns[p][i]
      BY <1>0, <1>1 DEF OwnersType
    <2> QED
      BY <1>0, <1>3, <2>1, HeldMoves
  <1>5. InCalls(i)' = InCalls(i) /\ InFields(i)' = InFields(i)
    BY <1>1 DEF InCalls, InFields
  <1>6. /\ Cardinality(InCalls(i)) \in Nat /\ Cardinality(InFields(i)) \in Nat
        /\ Cardinality(Held(i)) \in Nat
    BY OwedIsNat
  <1>7. refs'[i] = IF i \in SharedBy(u) THEN refs[i] - 1 ELSE refs[i]
    BY <1>1
  <1> QED
    BY <1>2, <1>3, <1>4, <1>5, <1>6, <1>7 DEF Owed

LEMMA TransferCounted ==
  ASSUME IInv, IInv', CountInv, NEW u \in Users, NEW v \in Users, TransferSystem(u, v)
  PROVE  CountedUnlessBorrowed'
  <1>0. OwnersType /\ OwnersType'
    BY TypeParts DEF IInv, TypeOK, OwnersType
  <1>1. /\ u # v
        /\ owns' = [owns EXCEPT ![v] = [i \in Ids |-> owns[u][i] + owns[v][i]],
                                ![u] = [i \in Ids |-> 0]]
        /\ UNCHANGED <<refs, field, pc, task, borrowed, misled>>
    BY DEF TransferSystem, locals, history
  <1> SUFFICES ASSUME Counted, NEW i \in Ids PROVE refs'[i] >= Owed(i)'
    BY <1>1 DEF CountInv, CountedUnlessBorrowed, Counted
  <1>2. u \in Owners /\ v \in Owners /\ owns[u][i] \in Nat /\ owns[v][i] \in Nat
    BY <1>0 DEF Owners, OwnersType
  <1>3. /\ owns'[v][i] = owns[u][i] + owns[v][i] /\ owns'[u][i] = 0
        /\ \A q \in Owners \ {u, v} : owns'[q][i] = owns[q][i]
    BY <1>0, <1>1, <1>2 DEF OwnersType
  <1>4. Cardinality(Held(i)') = Cardinality(Held(i)) - owns[u][i] - owns[v][i]
                                  + owns'[u][i] + owns'[v][i]
    BY <1>0, <1>1, <1>2, <1>3, HeldMovesTwo
  <1>5. Cardinality(Held(i)) \in Nat
    BY OwedIsNat
  <1>6. Cardinality(Held(i)') = Cardinality(Held(i))
    BY <1>2, <1>3, <1>4, <1>5
  <1>7. InCalls(i)' = InCalls(i) /\ InFields(i)' = InFields(i)
    BY <1>1 DEF InCalls, InFields
  <1> QED
    BY <1>1, <1>6, <1>7 DEF Owed, Counted

LEMMA FreeStaysUncounted ==
  ASSUME Roomy, IInv, TableInv, FreeUncounted, [Next]_vars
  PROVE  FreeUncounted'
  <1>0. TableType /\ OwnersType /\ LocalsType /\ UsedCounted
    BY TypeParts DEF IInv
  <1>a. None \notin Strings
    BY StringListAssumption
  <1>1. ASSUME NEW i \in Ids, AddRef(i) PROVE FreeUncounted'
    BY <1>0, <1>1 DEF AddRef, FreeUncounted, Used, TableType
  <1>2. ASSUME NEW S \in SUBSET Ids, RemoveRefs(S) PROVE FreeUncounted'
    BY <1>0, <1>2 DEF RemoveRefs, FreeStrings, FreeUncounted, Used, TableType
  <1>3. ASSUME NEW s \in Strings, NEW o \in Owners, NewString(s, o) PROVE FreeUncounted'
    BY <1>0, <1>3, <1>a DEF NewString, FreeUncounted, Used, TableType
  <1>4. ASSUME UNCHANGED <<string, refs>> PROVE FreeUncounted'
    BY <1>4 DEF FreeUncounted, Used
  <1>5. ASSUME NEW t \in Threads, NEW s \in Strings, NEW o \in Owners, Get(t, s, o) PROVE FreeUncounted'
    <2>1. hashMap[s] # 0 => hashMap[s] \in Ids
      BY <1>0, StringListAssumption DEF TableType, Ids
    <2> QED
      BY <1>1, <1>3, <1>5, <2>1 DEF Get
  <1>6. ASSUME NEW t \in Threads, Step(t) PROVE FreeUncounted'
    <2>1. ASSUME NEW s \in Strings, NEW o \in Owners, GetString(t, s, o) PROVE FreeUncounted'
      BY <1>5, <2>1 DEF GetString
    <2>2. ASSUME GetLowercase(t) PROVE FreeUncounted'
      <3>1. task[t].string \in Strings /\ task[t].owner \in Owners
        BY <1>0, <2>2 DEF GetLowercase, LocalsType, CallForm
      <3> QED
        BY <1>5, <2>2, <3>1 DEF GetLowercase
    <2>3. ASSUME NEW i \in Ids, AddRefToString(t, i) PROVE FreeUncounted'
      BY <1>1, <2>3 DEF AddRefToString
    <2>4. ASSUME NEW i \in Ids, RemoveRefToString(t, i) PROVE FreeUncounted'
      BY <1>2, <2>4 DEF RemoveRefToString
    <2>5. ASSUME NEW i \in 0..MaxId, SetString(t, i) PROVE FreeUncounted'
      <3>1. i = 0 \/ i \in Ids
        BY StringListAssumption DEF Ids
      <3> QED
        BY <1>1, <1>4, <2>5, <3>1 DEF SetString, table
    <2>6. ASSUME SetStringRemoves(t) PROVE FreeUncounted'
      <3>1. field[t] = 0 \/ {field[t]} \in SUBSET Ids
        BY <1>0, StringListAssumption DEF OwnersType, Ids
      <3> QED
        BY <1>2, <1>4, <2>6, <3>1 DEF SetStringRemoves, table
    <2>7. ASSUME AddUserCounts(t) PROVE FreeUncounted'
      <3>1. task[t].id \in Ids
        BY <1>0, <2>7 DEF AddUserCounts, LocalsType, CallForm
      <3> QED
        BY <1>1, <2>7, <3>1 DEF AddUserCounts
    <2>8. ASSUME \/ \E s \in Strings : FindString(t, s)
                 \/ ReturnFound(t)
                 \/ \E i \in Ids, o \in Owners : ConvertToLowercase(t, i, o)
                 \/ \E i \in Ids, o \in Owners : ConvertLong(t, i, o)
                 \/ SetStringAssigns(t)
                 \/ \E i \in Ids, u \in Users : TransferRefToUser(t, i, u)
                 \/ \E i \in Ids, u \in Users : AddUser(t, i, u)
                 \/ AddUserOrs(t)
          PROVE FreeUncounted'
      BY <1>4, <2>8 DEF FindString, ReturnFound, ConvertToLowercase, ConvertLong, SetStringAssigns,
                        TransferRefToUser, AddUser, AddUserOrs, table
    <2> QED
      BY <1>6, <2>1, <2>2, <2>3, <2>4, <2>5, <2>6, <2>7, <2>8 DEF Step
  <1>7. ASSUME NEW u \in Users, ShutdownSystem(u) PROVE FreeUncounted'
    BY <1>2, <1>7 DEF ShutdownSystem, SharedBy
  <1>8. ASSUME (\E u, v \in Users : TransferSystem(u, v)) \/ UNCHANGED vars PROVE FreeUncounted'
    BY <1>4, <1>8 DEF TransferSystem, vars, table
  <1> QED
    BY <1>6, <1>7, <1>8 DEF Next

LEMMA CountFormStays ==
  ASSUME IInv, CountForm, [Next]_vars
  PROVE  CountForm'
  <1>0. LocalsType
    BY TypeParts DEF IInv
  <1>1. ASSUME NEW t \in Threads, Step(t) PROVE CountForm'
    <2>1. ASSUME NEW s, NEW o, Get(t, s, o) PROVE CountForm'
      <3>1. CASE hashMap[s] # 0 /\ AddRef(hashMap[s])
        BY <1>0, <2>1, <3>1 DEF Get, Call, CountForm, LocalsType
      <3>2. CASE ~(hashMap[s] # 0 /\ AddRef(hashMap[s]))
        BY <1>0, <2>1, <3>2 DEF Get, CountForm, LocalsType
      <3> QED
        BY <3>1, <3>2
    <2>2. ASSUME (\E s \in Strings, o \in Owners : GetString(t, s, o)) \/ GetLowercase(t)
          PROVE  CountForm'
      BY <2>1, <2>2 DEF GetString, GetLowercase
    <2>3. ASSUME NEW s \in Strings, FindString(t, s) PROVE CountForm'
      BY <1>0, <2>3 DEF FindString, Call, CountForm, LocalsType
    <2>4. ASSUME ReturnFound(t) PROVE CountForm'
      BY <1>0, <2>4 DEF ReturnFound, CountForm, LocalsType
    <2>5. ASSUME NEW i \in Ids, NEW o \in Owners, ConvertToLowercase(t, i, o) PROVE CountForm'
      BY <1>0, <2>5 DEF ConvertToLowercase, Call, CountForm, LocalsType
    <2>6. ASSUME NEW i \in Ids, AddRefToString(t, i) PROVE CountForm'
      BY <2>6 DEF AddRefToString, locals, CountForm
    <2>7. ASSUME NEW i \in Ids, RemoveRefToString(t, i) PROVE CountForm'
      BY <2>7 DEF RemoveRefToString, CountForm
    <2>8. ASSUME NEW i \in 0..MaxId, SetString(t, i) PROVE CountForm'
      BY <1>0, <2>8 DEF SetString, Call, CountForm, LocalsType
    <2>9. ASSUME SetStringRemoves(t) PROVE CountForm'
      BY <1>0, <2>9 DEF SetStringRemoves, CountForm, LocalsType
    <2>10. ASSUME SetStringAssigns(t) PROVE CountForm'
      BY <1>0, <2>10 DEF SetStringAssigns, CountForm, LocalsType
    <2>11. ASSUME NEW i \in Ids, NEW u \in Users, TransferRefToUser(t, i, u) PROVE CountForm'
      BY <2>11 DEF TransferRefToUser, locals, CountForm
    <2>12. ASSUME NEW i \in Ids, NEW u \in Users, AddUser(t, i, u) PROVE CountForm'
      BY <1>0, <2>12 DEF AddUser, Call, CountForm, LocalsType
    <2>13. ASSUME AddUserCounts(t) PROVE CountForm'
      BY <1>0, <2>13 DEF AddUserCounts, CountForm, LocalsType
    <2>14. ASSUME AddUserOrs(t) PROVE CountForm'
      BY <1>0, <2>14 DEF AddUserOrs, CountForm, LocalsType
    <2>15. ASSUME NEW i \in Ids, NEW o \in Owners, ConvertLong(t, i, o) PROVE CountForm'
      BY <2>15 DEF ConvertLong, locals, CountForm
    <2> QED
      BY <1>1, <2>2, <2>3, <2>4, <2>5, <2>6, <2>7, <2>8, <2>9, <2>10, <2>11, <2>12, <2>13, <2>14, <2>15
         DEF Step
  <1>2. ASSUME \/ \E u \in Users : ShutdownSystem(u)
               \/ \E u, v \in Users : TransferSystem(u, v)
               \/ UNCHANGED vars
        PROVE  CountForm'
    BY <1>2 DEF ShutdownSystem, TransferSystem, locals, vars, CountForm
  <1> QED
    BY <1>1, <1>2 DEF Next

LEMMA InitCounted == Init => CountInv
  <1> SUFFICES ASSUME Init PROVE CountInv
    OBVIOUS
  <1>1. CountForm /\ FreeUncounted
    BY DEF Init, CountForm, FreeUncounted
  <1>2. ASSUME NEW i \in Ids PROVE refs[i] >= Owed(i)
    <2>1. InCalls(i) = {} /\ InFields(i) = {} /\ Held(i) = {}
      BY StringListAssumption DEF Init, InCalls, InFields, Held, Ids
    <2>2. Cardinality({}) = 0
      BY FS_EmptySet
    <2> QED
      BY <2>1, <2>2 DEF Init, Owed
  <1> QED
    BY <1>1, <1>2 DEF CountInv, CountedUnlessBorrowed, Counted

LEMMA NextCounted ==
  ASSUME Roomy, IInv, TableInv, CountInv, [Next]_vars
  PROVE  CountInv'
  <1>1. CountForm' /\ FreeUncounted'
    BY CountFormStays, FreeStaysUncounted DEF CountInv
  <1>2. IInv'
    BY NextType
  <1>3. ASSUME UNCHANGED vars PROVE CountedUnlessBorrowed'
    <2>1. UNCHANGED <<refs, owns, field, pc, task, borrowed, misled>>
      BY <1>3 DEF vars, table, owners, locals, history
    <2>2. \A i \in Ids : InCalls(i)' = InCalls(i) /\ InFields(i)' = InFields(i) /\ Held(i)' = Held(i)
      BY <2>1 DEF InCalls, InFields, Held
    <2> QED
      BY <2>1, <2>2 DEF CountInv, CountedUnlessBorrowed, Counted, Owed
  <1>4. CountedUnlessBorrowed'
    BY <1>2, <1>3, StepCounted, ShutdownCounted, TransferCounted DEF Next
  <1> QED
    BY <1>1, <1>4 DEF CountInv

-------------------------------------------------------------------------------
(* An id keeps its string while a reference is owed on it.                   *)

\* Only freeing and a new string change a slot, and neither does while the
\* count covers a reference.
LEMMA SlotChanges ==
  ASSUME IInv, TableInv, FreeUncounted, Next, NEW i \in Ids, string'[i] # string[i]
  PROVE  refs[i] = 0 \/ refs'[i] = 0
  <1>0. TableType /\ OwnersType /\ LocalsType /\ UsedCounted
    BY TypeParts DEF IInv
  <1>1. ASSUME NEW S \in SUBSET Ids, RemoveRefs(S) PROVE refs'[i] = 0
    BY <1>0, <1>1 DEF RemoveRefs, FreeStrings, TableType
  <1>2. ASSUME NEW s \in Strings, NEW o \in Owners, NewString(s, o) PROVE refs[i] = 0
    BY <1>0, <1>2 DEF NewString, TableInv, FirstFreeIsFree, FreeUncounted, TableType
  <1>3. ASSUME NEW j, AddRef(j) PROVE FALSE
    BY <1>3 DEF AddRef
  <1>4. ASSUME NEW t \in Threads, NEW s \in Strings, NEW o \in Owners, Get(t, s, o) PROVE refs[i] = 0
    BY <1>2, <1>3, <1>4 DEF Get
  <1>5. ASSUME NEW t \in Threads, Step(t) PROVE refs[i] = 0 \/ refs'[i] = 0
    <2>1. ASSUME NEW s \in Strings, NEW o \in Owners, GetString(t, s, o) PROVE refs[i] = 0
      BY <1>4, <2>1 DEF GetString
    <2>2. ASSUME GetLowercase(t) PROVE refs[i] = 0
      <3>1. task[t].string \in Strings /\ task[t].owner \in Owners
        BY <1>0, <2>2 DEF GetLowercase, LocalsType, CallForm
      <3> QED
        BY <1>4, <2>2, <3>1 DEF GetLowercase
    <2>3. ASSUME NEW j \in Ids, RemoveRefToString(t, j) PROVE refs'[i] = 0
      BY <1>1, <2>3 DEF RemoveRefToString
    <2>4. ASSUME SetStringRemoves(t) PROVE refs'[i] = 0
      <3>1. field[t] = 0 \/ {field[t]} \in SUBSET Ids
        BY <1>0, StringListAssumption DEF OwnersType, Ids
      <3> QED
        BY <1>1, <2>4, <3>1 DEF SetStringRemoves, table
    <2>5. ASSUME \/ \E s \in Strings : FindString(t, s)
                 \/ ReturnFound(t)
                 \/ \E j \in Ids, o \in Owners : ConvertToLowercase(t, j, o)
                 \/ \E j \in Ids, o \in Owners : ConvertLong(t, j, o)
                 \/ \E j \in Ids : AddRefToString(t, j)
                 \/ \E j \in 0..MaxId : SetString(t, j)
                 \/ SetStringAssigns(t)
                 \/ \E j \in Ids, u \in Users : TransferRefToUser(t, j, u)
                 \/ \E j \in Ids, u \in Users : AddUser(t, j, u)
                 \/ AddUserCounts(t)
                 \/ AddUserOrs(t)
          PROVE FALSE
      BY <1>3, <2>5 DEF FindString, ReturnFound, ConvertToLowercase, ConvertLong, AddRefToString, SetString,
                        SetStringAssigns, TransferRefToUser, AddUser, AddUserCounts, AddUserOrs, table
    <2> QED
      BY <1>5, <2>1, <2>2, <2>3, <2>4, <2>5 DEF Step
  <1>6. ASSUME NEW u \in Users, ShutdownSystem(u) PROVE refs'[i] = 0
    BY <1>1, <1>6 DEF ShutdownSystem, SharedBy
  <1>7. ASSUME NEW u \in Users, NEW v \in Users, TransferSystem(u, v) PROVE FALSE
    BY <1>7 DEF TransferSystem
  <1> QED
    BY <1>5, <1>6, <1>7 DEF Next

LEMMA StepKeepsMeaning ==
  ASSUME Roomy, IInv, TableInv, CountInv, [Next]_vars
  PROVE  [\A i \in Ids : Owed(i) > 0 /\ Owed(i)' > 0 /\ ~borrowed' /\ ~misled'
                           => string'[i] = string[i]]_vars
  <1> SUFFICES ASSUME Next, NEW i \in Ids, Owed(i) > 0, Owed(i)' > 0, ~borrowed', ~misled',
                      string'[i] # string[i]
               PROVE  FALSE
    OBVIOUS
  <1>1. CountInv' /\ IInv'
    BY NextCounted, NextType
  <1>2. refs[i] \in Nat /\ refs'[i] \in Nat
    BY <1>1 DEF IInv, TypeOK
  <1>3. ~borrowed /\ ~misled
    <2>1. borrowed \in BOOLEAN /\ misled \in BOOLEAN
      BY DEF IInv, TypeOK
    <2> QED
      BY <2>1 DEF Next, Step, GetString, FindString, ReturnFound, ConvertToLowercase, ConvertLong, GetLowercase,
         AddRefToString, RemoveRefToString, SetString, SetStringRemoves, SetStringAssigns,
         TransferRefToUser, AddUser, AddUserCounts, AddUserOrs, ShutdownSystem, TransferSystem, history
  <1>4. refs[i] > 0
    <2>1. refs[i] >= Owed(i) /\ Owed(i) \in Nat
      BY <1>3, OwedIsNat DEF CountInv, CountedUnlessBorrowed, Counted
    <2> QED
      BY <1>2, <2>1
  <1>5. refs'[i] > 0
    <2>1. refs'[i] >= Owed(i)'
      BY <1>1 DEF CountInv, CountedUnlessBorrowed, Counted
    <2>2. Owed(i)' \in Nat
      BY OwedIsNat
    <2> QED
      BY <1>2, <2>1, <2>2
  <1>6. refs[i] = 0 \/ refs'[i] = 0
    BY SlotChanges DEF CountInv
  <1> QED
    BY <1>2, <1>4, <1>5, <1>6

-------------------------------------------------------------------------------
(* The theorems.                                                             *)

\* The table, the references, the user masks and every thread's call keep
\* their types, in whatever order threads come.
THEOREM TypeCorrect == Spec => []TypeOK
  <1>1. Init => IInv
    BY InitType
  <1>2. IInv /\ [Next]_vars => IInv'
    BY NextType
  <1>3. IInv => TypeOK
    BY DEF IInv
  <1> QED
    BY <1>1, <1>2, <1>3, PTL DEF Spec

\* A string in use has a reference (SL_RemoveRefToString frees at the last).
THEOREM UsedIsCounted == Spec => []UsedCounted
  <1>1. Init => IInv
    BY InitType
  <1>2. IInv /\ [Next]_vars => IInv'
    BY NextType
  <1>3. IInv => UsedCounted
    BY DEF IInv
  <1> QED
    BY <1>1, <1>2, <1>3, PTL DEF Spec

\* With more slots than strings, slHashMap and slStrings agree whatever the
\* threads do: no string is in two slots and no key leads to another string.
THEOREM TableConsistent ==
  ASSUME Roomy
  PROVE  Spec => []TableMatches
  <1>1. Init => IInv /\ TableInv
    BY InitType, InitTable
  <1>2. (IInv /\ TableInv) /\ [Next]_vars => (IInv /\ TableInv)'
    BY NextType, NextTable
  <1>3. IInv /\ TableInv => TableMatches
    BY DEF TableInv
  <1> QED
    BY <1>1, <1>2, <1>3, PTL DEF Spec

\* With more slots than strings, slFirstFree is the lowest free slot whatever
\* the threads do, so a new string overwrites none.
THEOREM LowestSlotFree ==
  ASSUME Roomy
  PROVE  Spec => []FirstFreeIsFree
  <1>1. Init => IInv /\ TableInv
    BY InitType, InitTable
  <1>2. (IInv /\ TableInv) /\ [Next]_vars => (IInv /\ TableInv)'
    BY NextType, NextTable
  <1>3. IInv /\ TableInv => FirstFreeIsFree
    BY DEF TableInv
  <1> QED
    BY <1>1, <1>2, <1>3, PTL DEF Spec

\* With more slots than strings, the reference count of a slot never falls
\* below the references its callers rely on, whatever the interleaving of the
\* locked calls, Scr_SetString's three parts and SL_AddUser's three parts, until
\* a call returns a wrong id, or an owner is taken to hold a reference that was
\* not counted for it (a user bit that survived a shutdown, a string too long to
\* be lowered).
THEOREM ReferencesCounted ==
  ASSUME Roomy
  PROVE  Spec => []CountedUnlessBorrowed
  <1>1. Init => IInv /\ TableInv /\ CountInv
    BY InitType, InitTable, InitCounted
  <1>2. (IInv /\ TableInv /\ CountInv) /\ [Next]_vars => (IInv /\ TableInv /\ CountInv)'
    BY NextType, NextTable, NextCounted
  <1>3. IInv /\ TableInv /\ CountInv => CountedUnlessBorrowed
    BY DEF CountInv
  <1> QED
    BY <1>1, <1>2, <1>3, PTL DEF Spec

\* With more slots than strings, an id a script or a user still relies on stands
\* for the same string after every step, until one of those two happens:
\* SL_FreeString and a new string only touch slots nobody relies on.
THEOREM IdsKeepTheirMeaning ==
  ASSUME Roomy
  PROVE  Spec => KeepsMeaning
  <1>1. Init => IInv /\ TableInv /\ CountInv
    BY InitType, InitTable, InitCounted
  <1>2. (IInv /\ TableInv /\ CountInv) /\ [Next]_vars => (IInv /\ TableInv /\ CountInv)'
    BY NextType, NextTable, NextCounted
  <1>3. (IInv /\ TableInv /\ CountInv) /\ [Next]_vars
          => [\A i \in Ids : Owed(i) > 0 /\ Owed(i)' > 0 /\ ~borrowed' /\ ~misled'
                               => string'[i] = string[i]]_vars
    BY StepKeepsMeaning
  <1> QED
    BY <1>1, <1>2, <1>3, PTL DEF Spec, KeepsMeaning
===============================================================================
