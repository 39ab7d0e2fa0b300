----------------------------- MODULE TempAccess -----------------------------
(***************************************************************************)
(* Temporary file-access tokens of B2Share.                                *)
(*                                                                         *)
(* Issue models TempFileAccessTokenResource.get                            *)
(* (b2share/modules/management/temporary_access/views.py): an editor of a  *)
(* record obtains a HS256 JWT bound to the record's bucket.  Get models    *)
(* B2ShareObjectResource.get and get_object (b2share/modules/files/        *)
(* views.py): a client, with or without a session, downloads an object,   *)
(* optionally presenting such a token.  Tick is the wall clock that both   *)
(* handlers read through datetime.utcnow().                                *)
(*                                                                         *)
(* A token is a record of its claims; its signature is abstracted to the  *)
(* flag `signed` (signed with app.secret_key under HS256 or not).  Time is *)
(* the UTC clock truncated to whole seconds, which is what jwt.encode      *)
(* stores for iat/exp (timegm(...utctimetuple())) and what jwt.decode      *)
(* compares them with.                                                     *)
(***************************************************************************)
EXTENDS Integers, FiniteSets

CONSTANTS
    Users,          \* authenticated identities
    Anonymous,      \* the identity of a request without a session
    Records,        \* published records
    Buckets,        \* storage buckets
    Keys,           \* file keys
    RecordBucket,   \* RecordBucket[r]: the bucket joined to r in RecordsBuckets
    BucketObjects,  \* BucketObjects[b]: keys with a head ObjectVersion in b
    Editors,        \* Editors[r]: users that pass UpdateRecordPermission on r
    Readers,        \* Readers[b]: identities passing check_object_permission
    Lifetimes,      \* values of the days/minutes query arguments, as seconds
    PyJWTMajor,     \* major version of the installed PyJWT library (1 or 2)
    MaxTime,        \* bound on the clock
    MaxTokens       \* bound on the number of issued tokens

Identities == Users \cup {Anonymous}

ASSUME
    /\ Anonymous \notin Users
    /\ RecordBucket \in [Records -> Buckets]
    /\ BucketObjects \in [Buckets -> SUBSET Keys]
    /\ Editors \in [Records -> SUBSET Users]
    /\ Readers \in [Buckets -> SUBSET Identities]
    /\ Lifetimes \subseteq Int
    /\ PyJWTMajor \in {1, 2}
    /\ MaxTime \in Nat /\ MaxTokens \in Nat

VARIABLES
    now,        \* the UTC clock, in whole seconds
    issued,     \* tokens handed out, with the user who obtained each
    nextJti,    \* stands for uuid4(): the jti of the next token
    resp        \* the response to the last request

vars == <<now, issued, nextJti, resp>>

ClaimNames == {"bucket_id", "action", "iat", "exp", "jti", "sub"}

(* The payload the issuer signs (temporary_access/views.py, 124-128).      *)
IssuedClaims == {"bucket_id", "action", "iat", "exp", "jti"}

(* options={'require': [...]} passed to jwt.decode (files/views.py, 103).  *)
RequiredClaims == {"exp", "jti", "iat", "sub", "bucket_id"}

Token == [bucket: Buckets, iat: Int, exp: Int, jti: Nat,
          claims: SUBSET ClaimNames, signed: BOOLEAN]

NoToken == [none |-> TRUE]      \* the request carries no jwt query argument

(* Building and signing the payload (temporary_access/views.py, 118-131). *)
NewToken(b, t, life, jti) ==
    [bucket |-> b, iat |-> t, exp |-> t + life, jti |-> jti,
     claims |-> IssuedClaims, signed |-> TRUE]

(* Strings a client may present that were not minted with app.secret_key. *)
ForgedTokens ==
    {[bucket |-> b, iat |-> 0, exp |-> MaxTime + 1, jti |-> 0,
      claims |-> ClaimNames, signed |-> FALSE] : b \in Buckets}

IssuedTokens == {e.token : e \in issued}

(* PyJWT's exp check: 2.x raises ExpiredSignatureError when exp <= now,  *)
(* 1.x only when exp < now (leeway 0 in both).                            *)
Expired(exp, t) == IF PyJWTMajor = 2 THEN exp <= t ELSE exp < t

(* Mutant: the 'require' list enforced whatever the library version.     *)
DecodesRequiringAll(tok, t) ==
    /\ tok.signed
    /\ RequiredClaims \subseteq tok.claims
    /\ ~Expired(tok.exp, t)

(* jwt.decode(encoded_jwt, secret_key, algorithms=["HS256"], options=...) *)
(* returns without InvalidTokenError.  PyJWT 1.x ignores the unknown      *)
(* 'require' option; 2.x raises MissingRequiredClaimError.                *)
Decodes(tok, t) ==
    /\ tok.signed
    /\ PyJWTMajor = 2 => RequiredClaims \subseteq tok.claims
    /\ ~Expired(tok.exp, t)

(* Mutant: the denial reported as 401/403 (check_permission, hidden=False). *)
PermissionStatusShown(id, b) ==
    IF id \in Readers[b] THEN 200 ELSE IF id = Anonymous THEN 401 ELSE 403

(* check_object_permission(obj): invenio's check_permission with          *)
(* hidden=True answers 404 on denial.                                     *)
PermissionStatus(id, b) == IF id \in Readers[b] THEN 200 ELSE 404

(* Mutant: a token that decodes grants access whatever bucket it names.   *)
ObjectStatusUnscoped(id, b, k, tok, t) ==
    IF k \notin BucketObjects[b] THEN 404
    ELSE IF tok = NoToken THEN PermissionStatus(id, b)
    ELSE IF ~Decodes(tok, t) THEN 400
    ELSE 200

(* get_object (files/views.py, 83-115) : the status of a single download. *)
ObjectStatus(id, b, k, tok, t) ==
    IF k \notin BucketObjects[b] THEN 404
    ELSE IF tok = NoToken THEN PermissionStatus(id, b)
    ELSE IF ~Decodes(tok, t) THEN 400
    ELSE IF tok.bucket = b THEN 200
    ELSE IF id # Anonymous THEN PermissionStatus(id, b)
    ELSE 404

Response == [op: {"issue", "get"}, who: Identities, bucket: Buckets,
             key: Keys \cup {"none"}, token: Token \cup {NoToken},
             all: BOOLEAN, kind: {"jwt", "object", "parts"}, at: Int,
             status: {200, 400, 401, 403, 404}]

Init ==
    /\ now = 0
    /\ issued = {}
    /\ nextJti = 1
    /\ resp = [op |-> "get", who |-> Anonymous, bucket |-> CHOOSE b \in Buckets : TRUE,
               key |-> "none", token |-> NoToken, all |-> FALSE,
               kind |-> "object", at |-> 0, status |-> 404]

Tick ==
    /\ now < MaxTime
    /\ now' = now + 1
    /\ UNCHANGED <<issued, nextJti, resp>>

(* TempFileAccessTokenResource.get: auth_required (401), then             *)
(* verify_record_permission(UpdateRecordPermission) (403), then the       *)
(* record's bucket, a token of the requested lifetime, and the response.  *)
Issue(id, r, life) ==
    LET answer(st, tok) ==
            [op |-> "issue", who |-> id, bucket |-> RecordBucket[r],
             key |-> "none", token |-> tok, all |-> FALSE, kind |-> "jwt",
             at |-> now, status |-> st]
    IN
    \/ /\ id = Anonymous
       /\ resp' = answer(401, NoToken)
       /\ UNCHANGED <<issued, nextJti>>
    \/ /\ id \in Users \ Editors[r]
       /\ resp' = answer(403, NoToken)
       /\ UNCHANGED <<issued, nextJti>>
    \/ /\ id \in Editors[r]
       /\ nextJti <= MaxTokens
       /\ LET tok == NewToken(RecordBucket[r], now, life, nextJti)
          IN /\ issued' = issued \cup {[token |-> tok, by |-> id]}
             /\ resp' = answer(200, tok)
       /\ nextJti' = nextJti + 1
    /\ UNCHANGED now

(* B2ShareObjectResource.get: with an uploadId the multipart listing of   *)
(* invenio-files-rest answers (its own permission check, outside this     *)
(* repository, so either outcome); otherwise get_object decides and the   *)
(* object is sent.  The `all` argument is parsed but not read.            *)
Get(id, b, k, tok, all, upload) ==
    /\ \/ /\ upload
          /\ \E st \in {200, 404} :
                resp' = [op |-> "get", who |-> id, bucket |-> b, key |-> k,
                         token |-> tok, all |-> all, kind |-> "parts",
                         at |-> now, status |-> st]
       \/ /\ ~upload
          /\ resp' = [op |-> "get", who |-> id, bucket |-> b, key |-> k,
                      token |-> tok, all |-> all, kind |-> "object",
                      at |-> now, status |-> ObjectStatus(id, b, k, tok, now)]
    /\ UNCHANGED <<now, issued, nextJti>>

Next ==
    \/ Tick
    \/ \E id \in Identities, r \in Records, life \in Lifetimes : Issue(id, r, life)
    \/ \E id \in Identities, b \in Buckets, k \in Keys, all \in BOOLEAN,
          upload \in BOOLEAN,
          tok \in IssuedTokens \cup ForgedTokens \cup {NoToken} :
            Get(id, b, k, tok, all, upload)

Spec == Init /\ [][Next]_vars

-----------------------------------------------------------------------------
(* Properties                                                               *)

(* Every response code is one the handler can produce: the token endpoint *)
(* answers 200/401/403, the download endpoint 200/400/404 (a denied read   *)
(* is hidden as 404 rather than reported as 401/403).                      *)
TypeOK ==
    /\ now \in 0..MaxTime
    /\ nextJti \in 1..(MaxTokens + 1)
    /\ issued \subseteq [token: Token, by: Users]
    /\ resp \in Response
    /\ resp.op = "issue" => resp.status \in {200, 401, 403}
    /\ resp.op = "get" => resp.status \in {200, 400, 404}

(* The access policy the issuer and the gate implement together: the    *)
(* issued tokens are grants of the editors of the bucket's record, a      *)
(* served download is a read, and a token is honoured up to the second  *)
(* its exp names under PyJWT 1.x (exp < now expires it), before it under *)
(* 2.x.  A download of another bucket with a valid token, a token minted *)
(* by a non-editor or one honoured later than that breaks it.            *)
Minters == [b \in Buckets |->
               {u \in Users : \E r \in Records : RecordBucket[r] = b /\ u \in Editors[r]}]

AP == INSTANCE AccessPolicy WITH
        Grace <- IF PyJWTMajor = 1 THEN 1 ELSE 0,
        grants <- {[bucket |-> e.token.bucket, exp |-> e.token.exp] : e \in issued},
        last <- [op |-> resp.op, who |-> resp.who, bucket |-> resp.bucket,
                 served |-> resp.op = "get" /\ resp.kind = "object" /\ resp.status = 200]

AccessPolicyRefined == AP!Spec

(* Round trip (spec section 8, properties 1 and 5): a token the issuer    *)
(* minted for bucket b, presented before its expiry for an object of b,  *)
(* is answered 200 by get_object, whoever presents it.                    *)
LiveTokenHonoured ==
    (resp.op = "get" /\ resp.kind = "object"
        /\ resp.key \in BucketObjects[resp.bucket]
        /\ resp.token \in IssuedTokens
        /\ resp.token.bucket = resp.bucket
        /\ resp.at < resp.token.exp)
    => resp.status = 200

(* Validity window (spec section 3): a token is honoured only inside      *)
(* [iat, exp); a caller without ownership is never served at or after the *)
(* exp second of the token it presented.                                  *)
ExpiryWindow ==
    (resp.op = "get" /\ resp.kind = "object" /\ resp.status = 200
        /\ resp.who \notin Readers[resp.bucket] /\ resp.token # NoToken)
    => resp.at < resp.token.exp

(* No existence oracle (spec section 7): a caller that get_object refuses *)
(* cannot tell an existing key of a bucket from a missing one, whatever   *)
(* token string it sends.                                                 *)
NoExistenceOracle ==
    \A id \in Identities, b \in Buckets,
       tok \in IssuedTokens \cup ForgedTokens \cup {NoToken} :
        \A k1 \in BucketObjects[b], k2 \in Keys \ BucketObjects[b] :
            ObjectStatus(id, b, k1, tok, now) # 200
                => ObjectStatus(id, b, k1, tok, now) = ObjectStatus(id, b, k2, tok, now)

=============================================================================
