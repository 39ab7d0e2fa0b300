----------------------------- MODULE AccessPolicy -----------------------------
(***************************************************************************)
(* What B2Share's temporary file access promises, independent of JWTs and *)
(* HTTP: the users allowed to edit a record may hand out grants on its     *)
(* bucket with an expiry time; a bucket's content is served only to an    *)
(* identity that may read it anyway, or while some grant on that bucket    *)
(* is live.  Grace is how many seconds past its expiry a grant is still    *)
(* honoured (the specification asks for none).                            *)
(*                                                                         *)
(* TempAccess refines this module: its issued tokens are the grants and   *)
(* its responses the served/refused reads.                                *)
(***************************************************************************)
EXTENDS Integers

CONSTANTS
    Identities,     \* requesters, including the anonymous one
    Anonymous,      \* the requester without a session
    Buckets,        \* buckets whose content is protected
    Readers,        \* Readers[b]: identities that may read b without a grant
    Minters,        \* Minters[b]: identities that may grant access to b
    Grace           \* seconds a grant is honoured after its expiry

VARIABLES
    now,        \* the clock, in whole seconds
    grants,     \* grants handed out, as [bucket, exp]
    last        \* the last request: op, who, bucket, and whether it was served

vars == <<now, grants, last>>

(* A grant on b is live at time t.                                         *)
Live(g, b, t) == g.bucket = b /\ t < g.exp + Grace

Init ==
    /\ now = 0
    /\ grants = {}
    /\ last = [op |-> "get", who |-> Anonymous,
               bucket |-> CHOOSE b \in Buckets : TRUE, served |-> FALSE]

Tick ==
    /\ now' = now + 1
    /\ UNCHANGED <<grants, last>>

(* A minter of b obtains a grant on b expiring no earlier than now (any   *)
(* expiry: the new grant is stated of grants' rather than enumerated).    *)
Mint(id, b) ==
    /\ last' = [op |-> "issue", who |-> id, bucket |-> b, served |-> FALSE]
    /\ id \in Minters[b]
    /\ grants \subseteq grants'
    /\ \A g \in grants' \ grants : g.bucket = b /\ g.exp >= now
    /\ \A g, h \in grants' \ grants : g = h
    /\ UNCHANGED now

(* A request for a grant is refused; nothing is granted.                   *)
RefuseMint(id, b) ==
    /\ last' = [op |-> "issue", who |-> id, bucket |-> b, served |-> FALSE]
    /\ UNCHANGED <<now, grants>>

(* A read of b: it may always be refused; it may be served only to a      *)
(* reader of b or while a grant on b is live.                             *)
Read(id, b, served) ==
    /\ last' = [op |-> "get", who |-> id, bucket |-> b, served |-> served]
    /\ served => (id \in Readers[b] \/ \E g \in grants : Live(g, b, now))
    /\ UNCHANGED <<now, grants>>

Next ==
    \/ \E id \in Identities, b \in Buckets, s \in BOOLEAN : Read(id, b, s)
    \/ \E id \in Identities, b \in Buckets : Mint(id, b)
    \/ \E id \in Identities, b \in Buckets : RefuseMint(id, b)
    \/ Tick

Spec == Init /\ [][Next]_vars

=============================================================================
