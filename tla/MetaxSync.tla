----------------------------- MODULE MetaxSync -----------------------------
(***************************************************************************)
(* Harvesting of published B2Share records into the Metax catalogue        *)
(* (b2share/modules/metax: api.py, tasks.py, cli.py).                      *)
(*                                                                         *)
(* Celery workers run the tasks publish_to_metax, update_all_metax and     *)
(* update_metax, queued by the `metax` CLI; the CLI process runs           *)
(* `metax harvest` itself.  Each HTTP call to Metax, each read of the      *)
(* database and each commit is one step, so the steps of two processes    *)
(* interleave the way they can in production.                              *)
(*                                                                         *)
(* A record's Metax content is abstracted to the one field this code      *)
(* changes after publication: whether the "has next version" relation of   *)
(* serializer.get_relation is present.  A record's etsin alternate         *)
(* identifiers are the sequence `altIds`; its RecordMetadata.version_id is *)
(* `dbv`, which invenio's optimistic locking compares on commit.           *)
(***************************************************************************)
EXTENDS Integers, Sequences, FiniteSets

CONSTANTS
    Records,        \* record versions that can be published in B2Share
    NoRecord,       \* "no previous version"
    Prev,           \* Prev[r]: PIDVersioning(child=r).previous, or NoRecord
    Unserializable, \* records on which serialize_to_metax raises
    Workers,        \* Celery worker processes
    Harvesters,     \* processes running `metax harvest <id>` (the CLI)
    EnableMetax,    \* app.config['ENABLE_METAX']
    MetaxReliable,  \* every Metax call is answered, with success
    MetaxAnswers,   \* every Metax call returns (FALSE: one may hang forever)
    EtsinPrefix,    \* METAX_PUBLISH_PREFIX starts with https://etsin
    MaxIds,         \* bound on the datasets Metax creates
    MaxEnqueue      \* bound on the tasks the CLI queues

Procs == Workers \cup Harvesters
Ids == 1..MaxIds

ASSUME
    /\ Prev \in [Records -> Records \cup {NoRecord}]
    /\ Unserializable \subseteq Records
    /\ Harvesters \cap Workers = {}
    /\ EnableMetax \in BOOLEAN
    /\ MetaxReliable \in BOOLEAN
    /\ MetaxAnswers \in BOOLEAN
    /\ EtsinPrefix \in BOOLEAN

VARIABLES
    published,  \* records published in B2Share
    altIds,     \* altIds[r]: the etsin identifiers stored in record r
    dbv,        \* dbv[r]: the version_id of r's RecordMetadata row
    datasets,   \* datasets[i]: Metax dataset i as [rec, hasNext]
    queue,      \* Celery tasks waiting for a worker
    enqueued,   \* number of tasks the CLI has queued so far
    pc,         \* pc[p]: where process p is
    ctx,        \* ctx[p]: the task or command process p is running
    todo,       \* todo[p]: records of the current loop not yet visited
    lst,        \* lst[p]: the records as loaded by list_db_published_records
    cur,        \* cur[p]: the record being published or updated
    snap,       \* snap[p]: cur's record as loaded, [alt, v]
    payload,    \* payload[p]: the next-version relation in the JSON serialized
    newId,      \* newId[p]: the identifier returned by the last POST
    nested,     \* nested[p]: the update runs inside metax_publish
    owed        \* records whose update failed and was to be retried

vars == <<published, altIds, dbv, datasets, queue, enqueued,
          pc, ctx, todo, lst, cur, snap, payload, newId, nested, owed>>
procVars == <<pc, ctx, todo, lst, cur, snap, payload, newId, nested>>

Snapshot == [alt: Seq(Ids), v: Nat]
Task == [kind: {"publish_all", "update_all"}] \cup [kind: {"update"}, rec: Records, snap: Snapshot]

(* The record r as Record.get_record loads it now.                        *)
Load(r) == [alt |-> altIds[r], v |-> dbv[r]]

(* is_published_in_metax: some alternate identifier is an etsin URL; the  *)
(* ones metax_publish stored are METAX_PUBLISH_PREFIX + identifier.       *)
IsPublishedIn(s) == EtsinPrefix /\ Len(s.alt) > 0

(* get_record_metax_identifier: the last path segment of the first etsin *)
(* URL stored in the loaded record.                                        *)
MetaxIdentifier(s) == s.alt[1]

(* PIDVersioning(child=r).next exists: a later version is published.      *)
HasNext(r) == \E s \in published : Prev[s] = r

Init ==
    /\ published = {}
    /\ altIds = [r \in Records |-> <<>>]
    /\ dbv = [r \in Records |-> 0]
    /\ datasets = <<>>
    /\ queue = {}
    /\ enqueued = 0
    /\ pc = [p \in Procs |-> "idle"]
    /\ ctx = [p \in Procs |-> "none"]
    /\ todo = [p \in Procs |-> {}]
    /\ lst = [p \in Procs |-> [r \in {} |-> [alt |-> <<>>, v |-> 0]]]
    /\ cur = [p \in Procs |-> NoRecord]
    /\ snap = [p \in Procs |-> [alt |-> <<>>, v |-> 0]]
    /\ payload = [p \in Procs |-> FALSE]
    /\ newId = [p \in Procs |-> 0]
    /\ nested = [p \in Procs |-> FALSE]
    /\ owed = {}

-----------------------------------------------------------------------------
(* Environment: B2Share publishes a record version; an operator runs the  *)
(* queuing commands of cli.py (harvest_new, update --all, update <id>).   *)

B2SharePublish(r) ==
    /\ r \notin published
    /\ Prev[r] = NoRecord \/ Prev[r] \in published
    /\ published' = published \cup {r}
    /\ UNCHANGED <<altIds, dbv, datasets, queue, enqueued, procVars, owed>>

Enqueue(t) ==
    /\ enqueued < MaxEnqueue
    /\ queue' = queue \cup {t}
    /\ enqueued' = enqueued + 1
    /\ UNCHANGED <<published, altIds, dbv, datasets, procVars, owed>>

CliHarvestNew == Enqueue([kind |-> "publish_all"])

CliUpdate(r) ==
    /\ r \in published
    /\ Enqueue([kind |-> "update", rec |-> r, snap |-> Load(r)])

CliUpdateAll == Enqueue([kind |-> "update_all"])

-----------------------------------------------------------------------------
(* Processes.  A call that returns hands control back to its caller: the  *)
(* loop of publish_to_metax / update_all_metax, or the end of the task or *)
(* command.  Return values are only logged, so they are not kept.         *)

Return(p) ==
    /\ pc' = [pc EXCEPT ![p] = IF ctx[p] \in {"publish_all", "update_all"}
                               THEN "loop" ELSE "idle"]
    /\ ctx' = [ctx EXCEPT ![p] = IF ctx[p] \in {"publish_all", "update_all"}
                                 THEN ctx[p] ELSE "none"]
    /\ nested' = [nested EXCEPT ![p] = FALSE]

(* An exception leaves the task (Celery records the failure, no retry) or *)
(* the CLI command; the rest of a loop is not visited.                    *)
Abort(p) ==
    /\ pc' = [pc EXCEPT ![p] = "idle"]
    /\ ctx' = [ctx EXCEPT ![p] = "none"]
    /\ todo' = [todo EXCEPT ![p] = {}]
    /\ nested' = [nested EXCEPT ![p] = FALSE]

(* requests.post / requests.patch without a timeout (api.py 65, 92) on a *)
(* connection Metax never answers: the process waits forever.             *)
Hang(p) ==
    /\ pc' = [pc EXCEPT ![p] = "hung"]
    /\ UNCHANGED <<ctx, nested>>

(* A worker takes a task (tasks.py): with ENABLE_METAX unset it returns at *)
(* once; the loops load all published records first.                      *)
StartTask(w, t) ==
    /\ pc[w] = "idle"
    /\ queue' = queue \ {t}
    /\ \/ /\ ~EnableMetax
          /\ UNCHANGED procVars
       \/ /\ EnableMetax
          /\ t.kind \in {"publish_all", "update_all"}
          /\ lst' = [lst EXCEPT ![w] = [r \in published |-> Load(r)]]
          /\ todo' = [todo EXCEPT ![w] = published]
          /\ pc' = [pc EXCEPT ![w] = "loop"]
          /\ ctx' = [ctx EXCEPT ![w] = t.kind]
          /\ UNCHANGED <<cur, snap, payload, newId, nested>>
       \/ /\ EnableMetax
          /\ t.kind = "update"
          /\ cur' = [cur EXCEPT ![w] = t.rec]
          /\ snap' = [snap EXCEPT ![w] = t.snap]
          /\ pc' = [pc EXCEPT ![w] = "patch"]
          /\ ctx' = [ctx EXCEPT ![w] = "update"]
          /\ UNCHANGED <<todo, lst, payload, newId, nested>>
    /\ UNCHANGED <<published, altIds, dbv, datasets, enqueued, owed>>

(* cli.harvest: load the record and call metax_publish, without asking    *)
(* is_published_in_metax first.                                            *)
Harvest(h, r) ==
    /\ pc[h] = "idle"
    /\ r \in published
    /\ cur' = [cur EXCEPT ![h] = r]
    /\ snap' = [snap EXCEPT ![h] = Load(r)]
    /\ pc' = [pc EXCEPT ![h] = "post"]
    /\ ctx' = [ctx EXCEPT ![h] = "harvest"]
    /\ UNCHANGED <<todo, lst, payload, newId, nested>>
    /\ UNCHANGED <<published, altIds, dbv, datasets, queue, enqueued, owed>>

(* Mutant: publish_to_metax stops at the first record already in Metax *)
(* (a `break` where the code skips it).                                    *)
LoopStepBreaks(p) ==
    /\ pc[p] = "loop"
    /\ \/ /\ todo[p] = {}
          /\ pc' = [pc EXCEPT ![p] = "idle"]
          /\ ctx' = [ctx EXCEPT ![p] = "none"]
          /\ UNCHANGED <<todo, cur, snap>>
       \/ \E r \in todo[p] :
             /\ IF ctx[p] = "publish_all" /\ IsPublishedIn(lst[p][r])
                THEN /\ todo' = [todo EXCEPT ![p] = {}]
                     /\ pc' = [pc EXCEPT ![p] = "idle"]
                     /\ ctx' = [ctx EXCEPT ![p] = "none"]
                     /\ UNCHANGED <<cur, snap>>
                ELSE /\ todo' = [todo EXCEPT ![p] = @ \ {r}]
                     /\ cur' = [cur EXCEPT ![p] = r]
                     /\ snap' = [snap EXCEPT ![p] = lst[p][r]]
                     /\ pc' = [pc EXCEPT ![p] =
                                 IF ctx[p] = "publish_all" THEN "post" ELSE "patch"]
                     /\ UNCHANGED ctx
    /\ UNCHANGED <<lst, payload, newId, nested>>
    /\ UNCHANGED <<published, altIds, dbv, datasets, queue, enqueued, owed>>

(* One iteration of the loop of publish_to_metax (skip what the loaded    *)
(* record says is published) or of update_all_metax; an empty rest of the *)
(* list ends the task.  The query has no ORDER BY: any order.             *)
LoopStep(p) ==
    /\ pc[p] = "loop"
    /\ \/ /\ todo[p] = {}
          /\ pc' = [pc EXCEPT ![p] = "idle"]
          /\ ctx' = [ctx EXCEPT ![p] = "none"]
          /\ UNCHANGED <<todo, cur, snap>>
       \/ \E r \in todo[p] :
             /\ todo' = [todo EXCEPT ![p] = @ \ {r}]
             /\ IF ctx[p] = "publish_all" /\ IsPublishedIn(lst[p][r])
                THEN UNCHANGED <<pc, cur, snap>>
                ELSE /\ cur' = [cur EXCEPT ![p] = r]
                     /\ snap' = [snap EXCEPT ![p] = lst[p][r]]
                     /\ pc' = [pc EXCEPT ![p] =
                                 IF ctx[p] = "publish_all" THEN "post" ELSE "patch"]
             /\ UNCHANGED ctx
    /\ UNCHANGED <<lst, payload, newId, nested>>
    /\ UNCHANGED <<published, altIds, dbv, datasets, queue, enqueued, owed>>

(* metax_publish, serialisation (api.py 87-90): serialize_to_metax reads *)
(* PIDVersioning for the next-version relation; if it raises,             *)
(* metax_publish returns False.                                            *)
SerializeForPost(p) ==
    /\ pc[p] = "post"
    /\ \/ /\ cur[p] \in Unserializable
          /\ Return(p)
          /\ UNCHANGED payload
       \/ /\ cur[p] \notin Unserializable
          /\ payload' = [payload EXCEPT ![p] = HasNext(cur[p])]
          /\ pc' = [pc EXCEPT ![p] = "posting"]
          /\ UNCHANGED <<ctx, nested>>
    /\ UNCHANGED <<todo, lst, cur, snap, newId>>
    /\ UNCHANGED <<published, altIds, dbv, datasets, queue, enqueued, owed>>

(* Mutant: the identifier of the response is not taken; the one of the  *)
(* previous POST by this process is committed.                           *)
PostKeepsOldId(p) ==
    /\ pc[p] = "posting"
    /\ LET created == Append(datasets, [rec |-> cur[p], hasNext |-> payload[p]]) IN
       \/ /\ Len(datasets) < MaxIds
          /\ datasets' = created
          /\ pc' = [pc EXCEPT ![p] = "commit"]
          /\ UNCHANGED <<ctx, todo, nested, newId>>
       \/ /\ ~MetaxReliable
          /\ Return(p)
          /\ UNCHANGED <<datasets, todo, newId>>
       \/ /\ ~MetaxReliable
          /\ Abort(p)
          /\ UNCHANGED <<datasets, newId>>
       \/ /\ ~MetaxReliable
          /\ Len(datasets) < MaxIds
          /\ datasets' = created
          /\ Abort(p)
          /\ UNCHANGED newId
       \/ /\ ~MetaxAnswers
          /\ Hang(p)
          /\ UNCHANGED <<datasets, todo, newId>>
    /\ UNCHANGED <<lst, cur, snap, payload>>
    /\ UNCHANGED <<published, altIds, dbv, queue, enqueued, owed>>

(* metax_publish, the POST (api.py 91-95) of the JSON serialized before: *)
(* Metax creates a dataset and answers its identifier, answers without   *)
(* one (False), or the call raises, before or after Metax created the    *)
(* dataset.  With MetaxReliable only the first outcome is possible.      *)
Post(p) ==
    /\ pc[p] = "posting"
    /\ LET created == Append(datasets, [rec |-> cur[p], hasNext |-> payload[p]]) IN
       \/ /\ Len(datasets) < MaxIds
          /\ datasets' = created
          /\ newId' = [newId EXCEPT ![p] = Len(created)]
          /\ pc' = [pc EXCEPT ![p] = "commit"]
          /\ UNCHANGED <<ctx, todo, nested>>
       \/ /\ ~MetaxReliable
          /\ Return(p)
          /\ UNCHANGED <<datasets, todo, newId>>
       \/ /\ ~MetaxReliable
          /\ Abort(p)
          /\ UNCHANGED <<datasets, newId>>
       \/ /\ ~MetaxReliable
          /\ Len(datasets) < MaxIds
          /\ datasets' = created
          /\ Abort(p)
          /\ UNCHANGED newId
       \/ /\ ~MetaxAnswers
          /\ Hang(p)
          /\ UNCHANGED <<datasets, todo, newId>>
    /\ UNCHANGED <<lst, cur, snap, payload>>
    /\ UNCHANGED <<published, altIds, dbv, queue, enqueued, owed>>

(* Mutant: the commit overwrites the row whatever its version_id.         *)
CommitUnlocked(p) ==
    /\ pc[p] = "commit"
    /\ LET r == cur[p] IN
       /\ altIds' = [altIds EXCEPT ![r] = Append(snap[p].alt, newId[p])]
       /\ dbv' = [dbv EXCEPT ![r] = @ + 1]
       /\ IF Prev[r] = NoRecord
          THEN /\ Return(p)
               /\ UNCHANGED <<cur, snap>>
          ELSE /\ cur' = [cur EXCEPT ![p] = Prev[r]]
               /\ snap' = [snap EXCEPT ![p] = Load(Prev[r])]
               /\ nested' = [nested EXCEPT ![p] = TRUE]
               /\ pc' = [pc EXCEPT ![p] = "patch"]
               /\ UNCHANGED ctx
       /\ UNCHANGED todo
    /\ UNCHANGED <<lst, payload, newId>>
    /\ UNCHANGED <<published, datasets, queue, enqueued, owed>>

(* metax_publish after the POST (api.py 96-116): append the etsin URL to  *)
(* the loaded record and commit it (StaleDataError when the row changed    *)
(* since it was loaded), then update the previous version, if any, through *)
(* metax_update_metadata on a fresh load; metax_publish then returns True. *)
Commit(p) ==
    /\ pc[p] = "commit"
    /\ LET r == cur[p] IN
       \/ /\ dbv[r] = snap[p].v
          /\ altIds' = [altIds EXCEPT ![r] = Append(snap[p].alt, newId[p])]
          /\ dbv' = [dbv EXCEPT ![r] = @ + 1]
          /\ IF Prev[r] = NoRecord
             THEN /\ Return(p)
                  /\ UNCHANGED <<cur, snap>>
             ELSE /\ cur' = [cur EXCEPT ![p] = Prev[r]]
                  /\ snap' = [snap EXCEPT ![p] = Load(Prev[r])]
                  /\ nested' = [nested EXCEPT ![p] = TRUE]
                  /\ pc' = [pc EXCEPT ![p] = "patch"]
                  /\ UNCHANGED ctx
          /\ UNCHANGED todo
       \/ /\ dbv[r] # snap[p].v
          /\ Abort(p)
          /\ UNCHANGED <<altIds, dbv, cur, snap>>
    /\ UNCHANGED <<lst, payload, newId>>
    /\ UNCHANGED <<published, datasets, queue, enqueued, owed>>

(* The retry of api.py 78-79: update_metax.apply_async(record,            *)
(* countdown=900) passes the record as the task's argument tuple, and      *)
(* Celery's argument check raises TypeError in the caller.                 *)
Reschedule(p) ==
    /\ Abort(p)
    /\ UNCHANGED queue

(* metax_update_metadata, up to the PATCH (api.py 53-63): serialisation *)
(* may raise (False); without an etsin identifier in the loaded record,  *)
(* False.                                                                  *)
SerializeForPatch(p) ==
    /\ pc[p] = "patch"
    /\ \/ /\ cur[p] \in Unserializable \/ ~IsPublishedIn(snap[p])
          /\ Return(p)
          /\ UNCHANGED payload
       \/ /\ cur[p] \notin Unserializable /\ IsPublishedIn(snap[p])
          /\ payload' = [payload EXCEPT ![p] = HasNext(cur[p])]
          /\ pc' = [pc EXCEPT ![p] = "patching"]
          /\ UNCHANGED <<ctx, nested>>
    /\ UNCHANGED <<todo, lst, cur, snap, newId>>
    /\ UNCHANGED <<published, altIds, dbv, datasets, queue, enqueued, owed>>

(* metax_update_metadata, the PATCH of the JSON serialized before (api.py *)
(* 64-81): 200 with a body is True, 400 is False, anything else or a      *)
(* RequestException (the PATCH may or may not have been applied) falls    *)
(* through to the retry.  With MetaxReliable every PATCH succeeds.        *)
Patch(p) ==
    /\ pc[p] = "patching"
    /\ LET r == cur[p]
           patched == [datasets EXCEPT ![MetaxIdentifier(snap[p])] =
                                    [rec |-> r, hasNext |-> payload[p]]]
       IN
       \/ /\ datasets' = patched
          /\ owed' = owed \ {r}
          /\ Return(p)
          /\ UNCHANGED <<todo, queue>>
       \/ /\ ~MetaxReliable
          /\ owed' = owed \ {r}
          /\ Return(p)
          /\ UNCHANGED <<datasets, todo, queue>>
       \/ /\ ~MetaxReliable
          /\ datasets' \in {datasets, patched}
          /\ owed' = owed \cup {r}
          /\ Reschedule(p)
       \/ /\ ~MetaxAnswers
          /\ Hang(p)
          /\ UNCHANGED <<datasets, todo, owed, queue>>
    /\ UNCHANGED <<lst, cur, snap, payload, newId>>
    /\ UNCHANGED <<published, altIds, dbv, enqueued>>

ProcStep(p) ==
    \/ /\ p \in Workers
       /\ \E t \in queue : StartTask(p, t)
    \/ LoopStep(p)
    \/ SerializeForPost(p)
    \/ Post(p)
    \/ Commit(p)
    \/ SerializeForPatch(p)
    \/ Patch(p)

Next ==
    \/ \E r \in Records : B2SharePublish(r)
    \/ CliHarvestNew
    \/ \E r \in Records : CliUpdate(r)
    \/ CliUpdateAll
    \/ \E h \in Harvesters, r \in Records : Harvest(h, r)
    \/ \E p \in Procs : ProcStep(p)

Spec == Init /\ [][Next]_vars

(* A Celery worker runs the body of the task it took to its end, and the  *)
(* CLI runs its command to its end: every step of a process that can go on *)
(* eventually does.  The operator and B2Share get no fairness.            *)
FairSpec == Spec /\ \A p \in Procs : WF_vars(ProcStep(p))

-----------------------------------------------------------------------------
(* Properties                                                               *)

(* Shapes of the state; a stored identifier is one Metax handed out.      *)
TypeOK ==
    /\ published \subseteq Records
    /\ altIds \in [Records -> Seq(1..Len(datasets))]
    /\ dbv \in [Records -> Nat]
    /\ datasets \in Seq([rec: Records, hasNext: BOOLEAN])
    /\ Len(datasets) <= MaxIds
    /\ queue \subseteq Task
    /\ pc \in [Procs -> {"idle", "loop", "post", "posting", "commit",
                               "patch", "patching", "hung"}]
    /\ ctx \in [Procs -> {"none", "publish_all", "update_all", "update", "harvest"}]
    /\ \A p \in Procs : todo[p] \subseteq DOMAIN lst[p]
    /\ snap \in [Procs -> Snapshot]
    /\ payload \in [Procs -> BOOLEAN]
    /\ owed \subseteq Records

(* The etsin identifier of a record as get_record_metax_identifier reads  *)
(* it: the first one stored, 0 when there is none.                        *)
MetaxIdOf == [r \in Records |-> IF altIds[r] = <<>> THEN 0 ELSE altIds[r][1]]

MCat == INSTANCE MetaxCatalog WITH ids <- MetaxIdOf

(* The pipeline implements the catalogue of MetaxCatalog: however the     *)
(* POSTs, commits (with invenio's version_id check) and PATCHes of        *)
(* concurrent workers and the harvest CLI interleave, and whatever Metax  *)
(* answers, a record's Metax identifier is set once and never changes,    *)
(* it names a dataset created for that very record, and a PATCH only      *)
(* rewrites the dataset the record is bound to, from its own versions.    *)
MetaxCatalogRefined == MCat!Spec

(* No process is running and no task is waiting.                          *)
Quiescent == queue = {} /\ \A p \in Procs : pc[p] = "idle"

(* Version links (api.py 109-115, "Update older version of the record, if *)
(* this is a new version"): once everything has run, with Metax answering *)
(* every call, the dataset of a record whose next version is in Metax     *)
(* carries the relation to it.                                             *)
PreviousVersionLinked ==
    Quiescent =>
        \A r, s \in Records :
            (Prev[s] = r /\ altIds[r] # <<>> /\ altIds[s] # <<>>)
                => datasets[altIds[r][1]].hasNext

(* Completion of publish_to_metax (tasks.py 37-42, cli.py harvest_new:   *)
(* "Harvest all not harvested records"): with Metax answering every call *)
(* successfully and fair workers, every serializable record a running    *)
(* publish_to_metax listed eventually carries a Metax identifier.  The    *)
(* loop skips, not stops at, a record already in Metax, and a nested      *)
(* update of the previous version returns to it.  Two overlapping runs    *)
(* break it: the loser of the race on a record gets StaleDataError, which *)
(* ends its loop, and a record only it had listed is never published.     *)
ListedRecordsReachMetax ==
    \A p \in Workers, r \in Records \ Unserializable :
        (ctx[p] = "publish_all" /\ r \in DOMAIN lst[p]) ~> (altIds[r] # <<>>)

(* One Metax dataset per record: publishing never creates a second        *)
(* dataset for a record that already has one.                              *)
NoDuplicateDataset ==
    \A i, j \in 1..Len(datasets) :
        i # j => datasets[i].rec # datasets[j].rec

(* An update that failed transiently is retried (api.py 76-80, "Retry     *)
(* update after 15 minutes"): every such record is eventually patched     *)
(* again with a definite answer.                                           *)
RetriedAfterFailure ==
    \A r \in Records : (r \in owed) ~> (r \notin owed)

=============================================================================
