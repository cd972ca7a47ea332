--------------------------- MODULE StringListOwners ---------------------------
(***************************************************************************)
(* What the callers of the string table rely on: that a reference count    *)
(* counts the references somebody holds, and that an id stands for the     *)
(* same string for as long as somebody holds it.                           *)
(***************************************************************************)
EXTENDS StringList

\* references of slot i that a call in progress has counted or is about to
\* give back
InCalls(i) == {t \in Threads : pc[t] # "ready" /\ task[t].counted /\ task[t].id = i}

\* those of the fields that hold it
InFields(i) == {t \in Threads : field[t] = i /\ pc[t] # "assigning"}

\* those its owners have taken, the first, the second... of each
Held(i) == {h \in Owners \X (1..MaxRefs) : h[2] <= owns[h[1]][i]}

Owed(i) == Cardinality(InCalls(i)) + Cardinality(InFields(i)) + Cardinality(Held(i))

\* "reference count" (PatchMW2StringList.cpp:51): the count of a slot is at
\* least the number of references its callers rely on.
Counted == \A i \in Ids : refs[i] >= Owed(i)

\* The same as long as no caller was handed a wrong id and nobody was taken to
\* hold a reference that was not counted for it, as by a user bit that survived
\* a shutdown or for a string too long to be lowered: whatever the threads'
\* interleaving, no other call loses a reference.
CountedUnlessBorrowed == borrowed \/ misled \/ Counted

\* An id keeps its string while somebody relies on it, under the same
\* conditions: what scripts compare and store are the ids.
KeepsMeaning ==
  [][\A i \in Ids : Owed(i) > 0 /\ Owed(i)' > 0 /\ ~borrowed' /\ ~misled'
                      => string'[i] = string[i]]_vars
===============================================================================
