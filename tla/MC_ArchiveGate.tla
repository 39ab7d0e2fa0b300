---------------------------- MODULE MC_ArchiveGate ----------------------------
(* Three buckets: one whose first object is readable by u2 and whose      *)
(* second is not, one with a single object, and an empty one; u3 may    *)
(* read nothing.                                                          *)
EXTENDS ArchiveGate, TLC

CONSTANTS u1, u2, u3, anon, b1, b2, b3, o1, o2, o3, o4

MCListing == (b1 :> <<o1, o2, o4>>) @@ (b2 :> <<o3>>) @@ (b3 :> <<>>)

MCObjReaders == (o1 :> {u1, u2}) @@ (o2 :> {u1}) @@ (o3 :> {u2}) @@ (o4 :> {u1, u2})

=============================================================================
