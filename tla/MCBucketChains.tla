---------------------------- MODULE MCBucketChains ----------------------------
(***************************************************************************)
(* Three addresses for two buckets; two of them share a hash.  The server  *)
(* starts just after the clock did or just before it turns negative.       *)
(***************************************************************************)
EXTENDS BucketChains

MCHashOf == [adr \in Addresses |-> IF adr = "c" THEN 2 ELSE 1]
MCStarts == {1, Half - 4}
===============================================================================
