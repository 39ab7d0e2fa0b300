---------------------------- MODULE MetaxCatalog ----------------------------
(***************************************************************************)
(* What the Metax harvesting of b2share/modules/metax promises, without   *)
(* processes, tasks, HTTP calls or database rows: Metax holds a sequence   *)
(* of datasets, each made for one published record; a record is bound     *)
(* once and for good to a dataset made for it (the first etsin URL stored  *)
(* in it, get_record_metax_identifier); and an update rewrites only the     *)
(* dataset a record is bound to.  What Metax holds of a record's versions *)
(* may lag behind B2Share (the JSON is serialized before it is sent, and a *)
(* late PATCH may carry an older serialization), but it never claims a    *)
(* next version B2Share has not published.                                *)
(* MetaxSync is shown to implement this specification.                    *)
(***************************************************************************)
EXTENDS Integers, Sequences

CONSTANTS Records, NoRecord, Prev, MaxIds

VARIABLES
    published,  \* records published in B2Share
    datasets,   \* datasets[i]: Metax dataset i as [rec, hasNext]
    ids         \* ids[r]: the dataset r is bound to, 0 when none

vars == <<published, datasets, ids>>

(* A later version of r is published.                                     *)
HasNext(r) == \E s \in published : Prev[s] = r

(* The contents Metax may hold for r given what is published now: a next *)
(* relation only when a next version is published, as versions are never *)
(* unpublished.                                                           *)
Contents(r) == {[rec |-> r, hasNext |-> n] : n \in {FALSE, HasNext(r)}}

Init ==
    /\ published = {}
    /\ datasets = <<>>
    /\ ids = [r \in Records |-> 0]

(* B2Share publishes a version whose previous version is published.       *)
Publish(r) ==
    /\ r \notin published
    /\ Prev[r] = NoRecord \/ Prev[r] \in published
    /\ published' = published \cup {r}
    /\ UNCHANGED <<datasets, ids>>

(* Metax creates a dataset for a published record.                       *)
Create(r) ==
    /\ r \in published
    /\ Len(datasets) < MaxIds
    /\ \E c \in Contents(r) : datasets' = Append(datasets, c)
    /\ UNCHANGED <<published, ids>>

(* An unbound record is bound to one of the datasets made for it.         *)
Bind(r) ==
    /\ ids[r] = 0
    /\ \E i \in 1..Len(datasets) :
          /\ datasets[i].rec = r
          /\ ids' = [ids EXCEPT ![r] = i]
    /\ UNCHANGED <<published, datasets>>

(* The dataset a record is bound to is rewritten from the record.         *)
Refresh(r) ==
    /\ ids[r] # 0
    /\ \E c \in Contents(r) : datasets' = [datasets EXCEPT ![ids[r]] = c]
    /\ UNCHANGED <<published, ids>>

Next ==
    \E r \in Records :
        \/ Publish(r)
        \/ Create(r)
        \/ Bind(r)
        \/ Refresh(r)

Spec == Init /\ [][Next]_vars
=============================================================================
