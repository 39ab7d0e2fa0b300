----------------------------- MODULE ArchiveGate -----------------------------
(***************************************************************************)
(* Whole-bucket download of B2Share: B2ShareObjectResource.                *)
(* get_bucket_objects and create_zip_object (b2share/modules/files/        *)
(* views.py).  A request names a bucket and optionally presents a jwt; the *)
(* handler lists the bucket's objects, decides access once for a token of  *)
(* that bucket or object by object otherwise, opens every file, emits one  *)
(* file_downloaded signal per object and returns a lazily streamed         *)
(* ZipStream.  The archive bytes only flow after the handler has returned, *)
(* while the WSGI server iterates the response.                           *)
(*                                                                         *)
(* Decoding the jwt is modelled in TempAccess (Decodes); here its outcome  *)
(* for the requested bucket is an input: no jwt, a jwt that does not       *)
(* decode, one whose bucket_id is this bucket, or one naming another.      *)
(***************************************************************************)
EXTENDS Integers, Sequences, SequencesExt

CONSTANTS
    Identities,     \* requesters, authenticated or not
    Anonymous,      \* the requester without a session
    Buckets,        \* storage buckets
    Objects,        \* object versions
    Listing,        \* Listing[b]: ObjectVersion.get_by_bucket(b).all(), in order
    ObjReaders      \* ObjReaders[o]: identities passing check_object_permission(o)

TokenOutcomes == {"none", "invalid", "scoped", "foreign"}

ASSUME
    /\ Anonymous \in Identities
    /\ Listing \in [Buckets -> Seq(Objects)]
    /\ \A b \in Buckets : Len(Listing[b]) = Cardinality(ToSet(Listing[b]))
    /\ ObjReaders \in [Objects -> SUBSET Identities]

VARIABLES
    phase,      \* "closed": no response in flight; "streaming": zip being sent
    req,        \* the current request: who, bucket, token outcome
    status,     \* its HTTP status (500: an exception escaped the handler)
    events,     \* file_downloaded signals emitted for it, in order
    sent        \* archive entries the client has received, in order

vars == <<phase, req, status, events, sent>>

Statuses == {200, 400, 404, 500}

(* The decision of get_object (views.py 96-113) for one object o of the  *)
(* bucket, given the same token outcome: 400 for a jwt that does not      *)
(* decode, access for a jwt of the bucket, 404 for an anonymous caller    *)
(* with a foreign jwt, otherwise check_object_permission (hidden: 404).   *)
ObjectStatusFor(id, o, tok) ==
    CASE tok = "invalid" -> 400
      [] tok = "scoped" -> 200
      [] tok = "foreign" /\ id = Anonymous -> 404
      [] OTHER -> IF id \in ObjReaders[o] THEN 200 ELSE 404

(* Mutant: the per-object permission loop stops after the first object.   *)
ArchiveStatusFirstOnly(id, b, tok) ==
    LET objs == Listing[b]
        allowed == /\ tok \in {"none", "foreign"}
                   /\ tok = "foreign" => id # Anonymous
                   /\ id \in ObjReaders[objs[1]]
    IN IF Len(objs) = 0 THEN 404
       ELSE IF tok = "invalid" THEN 400
       ELSE IF tok = "scoped" \/ allowed THEN 200
       ELSE 404

(* Mutant: a denied object reported as 403 (check_permission, hidden=False). *)
ArchiveStatusShown(id, b, tok) ==
    LET objs == Listing[b]
        allowed == /\ tok \in {"none", "foreign"}
                   /\ tok = "foreign" => id # Anonymous
                   /\ \A i \in DOMAIN objs : id \in ObjReaders[objs[i]]
    IN IF Len(objs) = 0 THEN 404
       ELSE IF tok = "invalid" THEN 400
       ELSE IF tok = "scoped" \/ allowed THEN 200
       ELSE 403

(* The access decision of get_bucket_objects: 404 for an empty bucket,     *)
(* 400 for a jwt that does not decode, access for a jwt of this bucket;    *)
(* otherwise anonymous callers with a foreign jwt get 404 and everyone     *)
(* else must pass check_object_permission on every object (a denial is    *)
(* hidden as 404 and aborts the whole request).                            *)
ArchiveStatus(id, b, tok) ==
    LET objs == Listing[b]
        allowed == /\ tok \in {"none", "foreign"}
                   /\ tok = "foreign" => id # Anonymous
                   /\ \A i \in DOMAIN objs : id \in ObjReaders[objs[i]]
    IN IF Len(objs) = 0 THEN 404
       ELSE IF tok = "invalid" THEN 400
       ELSE IF tok = "scoped" \/ allowed THEN 200
       ELSE 404

Init ==
    /\ phase = "closed"
    /\ req = [who |-> Anonymous, bucket |-> CHOOSE b \in Buckets : TRUE,
              tok |-> "none"]
    /\ status = 404
    /\ events = <<>>
    /\ sent = <<>>

(* get_bucket_objects as a whole: the access decision, then               *)
(* create_zip_object, which opens every file with opener.open before the   *)
(* response exists (an open that raises escapes as 500, before any        *)
(* signal), then one file_downloaded signal per object in listing order.  *)
Request(id, b, tok) ==
    LET st == ArchiveStatus(id, b, tok) IN
    /\ phase = "closed"
    /\ req' = [who |-> id, bucket |-> b, tok |-> tok]
    /\ sent' = <<>>
    /\ \/ /\ st # 200
          /\ status' = st
          /\ events' = <<>>
          /\ UNCHANGED phase
       \/ /\ st = 200
          /\ \/ /\ status' = 500          \* opener.open raised
                /\ events' = <<>>
                /\ UNCHANGED phase
             \/ /\ status' = 200
                /\ events' = Listing[b]
                /\ phase' = "streaming"

(* The server iterates the ZipStream: the next entry, in the order        *)
(* zs.add received the objects, is read from storage and sent.            *)
StreamEntry ==
    LET objs == Listing[req.bucket] IN
    /\ phase = "streaming"
    /\ sent' = Append(sent, objs[Len(sent) + 1])
    /\ phase' = IF Len(sent') = Len(objs) THEN "closed" ELSE "streaming"
    /\ UNCHANGED <<req, status, events>>

(* A storage read fails while the archive is being streamed: the 200      *)
(* header is already out, the connection is dropped mid-archive.          *)
StreamFail ==
    /\ phase = "streaming"
    /\ phase' = "closed"
    /\ UNCHANGED <<req, status, events, sent>>

Next ==
    \/ \E id \in Identities, b \in Buckets, tok \in TokenOutcomes :
          Request(id, b, tok)
    \/ StreamEntry
    \/ StreamFail

Spec == Init /\ [][Next]_vars

-----------------------------------------------------------------------------
(* Properties                                                               *)

(* The whole-bucket endpoint answers only 200, 400, 404 or an escaped 500; *)
(* a permission denial is hidden as 404, never reported as 401/403.        *)
TypeOK ==
    /\ phase \in {"closed", "streaming"}
    /\ req \in [who: Identities, bucket: Buckets, tok: TokenOutcomes]
    /\ status \in Statuses
    /\ events \in Seq(Objects)
    /\ sent \in Seq(Objects)

(* The archive and the single download agree (spec section 4.3: the     *)
(* archive applies "the same per-request token/ownership decision" to     *)
(* every object; section 9 notes the branching is duplicated in           *)
(* get_object and get_bucket_objects): a non-empty bucket's archive is    *)
(* served exactly when get_object would serve each of its objects to the  *)
(* same caller with the same jwt (one readable object never exposes its   *)
(* unreadable neighbours), and refused as 400 exactly when get_object     *)
(* would refuse them as 400.  An escaped 500 is a storage failure.        *)
ArchiveMatchesObjectAccess ==
    LET objs == ToSet(Listing[req.bucket])
        single(o) == ObjectStatusFor(req.who, o, req.tok)
    IN (objs # {} /\ status # 500) =>
          /\ status = 200 <=> \A o \in objs : single(o) = 200
          /\ status = 400 <=> \E o \in objs : single(o) = 400

(* All-or-nothing archive (spec section 8, property 6, and section 7): a  *)
(* finished response has emitted a file_downloaded event exactly for the  *)
(* entries the client received, so a storage failure while streaming     *)
(* cannot leave accounting events for files never delivered.              *)
EventsMatchDelivered ==
    (phase = "closed" /\ status = 200) => events = sent

=============================================================================
