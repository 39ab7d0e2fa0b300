--------------------------- MODULE MC_TempAccess ---------------------------
(* Model-checking instance of TempAccess: two records, each with its own   *)
(* bucket and its own owner; bucket b1 holds one object, b2 two, so that  *)
(* both an existing and a missing key are requested in b1.                *)
EXTENDS TempAccess, TLC

CONSTANTS u1, u2, r1, r2, b1, b2, k1, k2

MCRecordBucket  == (r1 :> b1) @@ (r2 :> b2)
MCBucketObjects == (b1 :> {k1}) @@ (b2 :> {k1, k2})
MCEditors       == (r1 :> {u1}) @@ (r2 :> {u2})
MCReaders       == (b1 :> {u1}) @@ (b2 :> {u2})
=============================================================================
