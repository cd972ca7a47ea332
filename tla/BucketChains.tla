----------------------------- MODULE BucketChains -----------------------------
(***************************************************************************)
(* The hash chains the buckets of RateLimit are found through              *)
(* (steam_api/PatchMW2Status.cpp, SVC_BucketForAddress): double links, new *)
(* buckets at the head.                                                    *)
(***************************************************************************)
EXTENDS RateLimit

CONSTANTS Hashes, HashOf  \* SVC_HashForAddress

ASSUME BucketChainsAssumption == HashOf \in [Addresses -> Hashes]

VARIABLES links, bucketHashes

chains == <<links, bucketHashes>>

Null == 0
Link(prev, next) == [prev |-> prev, next |-> next]

ChainInit == Init /\ links = [b \in Buckets |-> Link(Null, Null)] /\ bucketHashes = [h \in Hashes |-> Null]

\* the buckets a walk from the head passes: those in every set that has the
\* head and, of each bucket it has, the next
Follows(S, h) ==
  /\ bucketHashes[h] \in S \cup {Null}
  /\ \A b \in S : links[b].next \in S \cup {Null}
Chain(h) == {b \in Buckets : \A S \in SUBSET Buckets : Follows(S, h) => b \in S}

Found(adr) == {b \in Chain(HashOf[adr]) : buckets[b].adr = adr}

\* Mutant: the chain ends with its head.
WithoutAll(b) == Null

WithoutHead(b) == links[b].next

Unlinked(b, c) ==
  CASE c = b -> Link(Null, Null)
    [] c # b /\ c = links[b].prev -> Link(links[c].prev, links[b].next)
    [] c # b /\ c = links[b].next -> Link(links[b].prev, links[c].next)
    [] OTHER -> links[c]

\* the heads without a bucket; a free one is in no chain
Heads(b) ==
  IF buckets[b].adr # None /\ links[b].prev = Null
  THEN [bucketHashes EXCEPT ![HashOf[buckets[b].adr]] = WithoutHead(b)] ELSE bucketHashes

\* a bucket taken out of its chain and put at the head of another
Relinked(adr, b) ==
  LET head == Heads(b)[HashOf[adr]]
  IN  /\ links' = [c \in Buckets |->
                     CASE c = b -> Link(Null, head)
                       [] c # b /\ c = head -> Link(b, Unlinked(b, c).next)
                       [] OTHER -> Unlinked(b, c)]
      /\ bucketHashes' = [Heads(b) EXCEPT ![HashOf[adr]] = b]

ChainNext ==
  \/ Tick /\ UNCHANGED chains
  \/ \E adr \in Addresses :
       \/ \E b \in Found(adr) : Known(b) /\ UNCHANGED chains
       \/ Found(adr) = {} /\ \E b \in Buckets : New(adr, b) /\ Relinked(adr, b)

ChainSpec == ChainInit /\ [][ChainNext]_<<vars, chains>>

-------------------------------------------------------------------------------
\* What is found through the chains is what is in the table: no bucket is lost,
\* and no address gets a second one.
FindsAll == Spec
===============================================================================
