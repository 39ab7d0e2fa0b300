# TLA+ models of B2SHARE: temporary file access and Metax harvesting

This directory holds TLA+ models of the stateful subsystems in `src/b2share/modules/`. Each model is written from the source, and the TLC configurations here check it.

1. **Temporary file access.** This subsystem covers two modules:
   - `management/temporary_access/views.py` issues signed JWT download tokens.
   - `files/views.py` honours those tokens when serving bucket objects.
2. **Whole-bucket download** (`get_bucket_objects` in `files/views.py`): a zip archive of a bucket, with one accounting signal per file.
3. **Metax harvesting** (`metax/api.py`, `metax/tasks.py`, `metax/cli.py`). Records are serialized (`serializer.py`), then published to and updated in the Finnish Metax catalogue. The work is done by Celery tasks and by CLI commands that may run at the same time.

## Inventory

### Components

| Component | Source | State it touches | Operations | Module |
|---|---|---|---|---|
| TokenIssuer | temporary_access/views.py | none of its own. It reads the session, record owners and buckets, and the clock | `GET /records/<id>/temporary_access`, with answers 401, 403 or 200 plus a token | TempAccess (`Issue`) |
| AccessGate (object) | files/views.py | none. It reads bucket objects, the `jwt` argument and the clock | `GET /files/<bucket>/<key>` through `get` and `get_object` | TempAccess (`Get`, `ObjectStatus`) |
| AccessGate (archive) | files/views.py `get_bucket_objects`, `create_zip_object` | none. It emits `file_downloaded` signals and streams a ZipStream | unreachable today, because `get` ignores `all` | ArchiveGate |
| Metax pipeline | metax/api.py, tasks.py, cli.py | the record JSON (`alternate_identifiers`, `version_id`), the Metax datasets and the Celery queue | `metax_publish`, `metax_update_metadata`, the tasks `publish_to_metax`, `update_metax` and `update_all_metax`, and the CLI commands `harvest_new`, `update` and `harvest` | MetaxSync, refining MetaxCatalog |
| Metax serializer | metax/serializer.py, licenses.py | none (a pure mapping) | `serialize_to_metax` | MetaxSerializer (identifiers, description, creators, publisher, agent lists, relations including the next/previous version lookups, access rights and licences, remote resources, field of science, projects, the final filter, and the conditions under which it raises); the version relation is `HasNext` in MetaxSync |
| Upgrade recipe, vault shim, demo loader | upgrade/…, shim/, demo/ | files and the database, sequentially | one-shot scripts | not modelled (no concurrency and no protocol) |

### How the parts interact

- **Issuer and gate.** The issuer and the gate share no state. They are linked only by the token: the claims `bucket_id`, `iat`, `exp` and `jti`, signed with the application secret key. The gate decodes the token with PyJWT, compares `bucket_id` with the requested bucket, and falls back to the session permission check when the token does not match.
- **Metax processes.** Any number of Celery workers and CLI invocations load record snapshots. Each one POSTs or PATCHes Metax and commits `alternate_identifiers` back. The commit goes through invenio's `version_id` optimistic lock.

### Hard behaviours

- **Token boundaries.** Validity is measured in whole-second times. PyJWT 1.x and 2.x treat the `exp` boundary differently, and the required-claims list names a claim (`sub`) that the issuer never writes.
- **Order of checks.** The object lookup happens before the token check, which exposes whether a key exists.
- **Archive.** Accounting signals are emitted before the archive is streamed, and the archive bytes flow only after the handler has returned.
- **Serializer.** Exceptions inside the serializer, such as missing identifiers, descriptions or topic, are swallowed by `metax_publish`, so such records are silently retried forever. A trailing comma changes the shape of one field. A record's serialization also depends on its neighbouring versions: `get_relation` looks up their preferred identifiers, so a new version published without a PID makes its predecessor unserializable.
- **Metax races.** Concurrent publish loops work from stale snapshots. A crash or lost reply between the POST and the commit leaves a dataset behind. A StaleDataError on commit aborts the loop. The retry path raises TypeError. No HTTP call has a timeout.

## Modules

| Module | Models | State (variables) and actions |
|---|---|---|
| `TempAccess` | issuer and object gate | `now` is the truncated clock. `issued` holds the minted tokens with their minters. `nextJti` bounds the tokens. `resp` is the last response. The actions are `Tick`, `Issue(id, r, life)` and `Get(id, b, k, tok, all, upload)`. |
| `AccessPolicy` | what issuer and gate promise together | `now`, `grants` (bucket, exp), `last` (the last request and whether it was served). The actions are `Tick`, `Mint(id, b)` (by a minter of b, expiring no earlier than now), `RefuseMint` and `Read(id, b, served)` (served only to a reader of b or while a grant on b is live, up to `Grace` seconds past its expiry). It is written from the spec, not the code, and is used only as the property `AccessPolicyRefined`. |
| `MC_TempAccess` | instance for TLC | two users (plus anonymous), two records and buckets, and two keys |
| `MetaxSync` | Metax pipeline | `published` (the record rows), `altIds`, `dbv` (version_id), `datasets` (Metax), `queue`/`enqueued` (Celery), and per process `pc`, `ctx`, `todo`, `lst`, `cur`, `snap`, `payload` (the next-version relation in the serialized JSON), `newId`, `nested` and `owed`. The actions are `B2SharePublish`, the `Cli*` commands, `StartTask`, `Harvest`, `LoopStep`, `SerializeForPost`, `Post`, `Commit`, `SerializeForPatch` and `Patch`. |
| `ArchiveGate` | whole-bucket download | `phase` (closed / streaming), `req` (who, bucket, jwt outcome), `status`, `events` (file_downloaded signals), `sent` (entries received). Actions `Request(id, b, tok)` (the whole of get_bucket_objects, including create_zip_object's eager `opener.open`, which may raise), `StreamEntry` (the server iterating the ZipStream), `StreamFail` (a storage read failing mid-stream). |
| `MC_ArchiveGate` | instance | three buckets (three objects, one object, empty); u2 may read the first object of b1 but not the second; u3 reads nothing |
| `MetaxCatalog` | what the Metax pipeline promises | `published`, `datasets` (rec, hasNext), `ids` (the dataset a record is bound to, 0 for none). The actions are `Publish(r)`, `Create(r)` (a dataset for a published record), `Bind(r)` (an unbound record bound to a dataset made for it) and `Refresh(r)` (the bound dataset rewritten). The content written is one of `Contents(r)`: a next-version relation may be missing although a next version is published (a stale serialization), but is never present when none is. It has no processes, tasks or failures, and is used only as the property `MetaxCatalogRefined`. |
| `MetaxSerializer` | serialize_to_metax | `rec` ranges over every abstract record; `Serialize` applies `SerializeToMetax`. Operators per serializer function: `OrgId`, `MemberOf`, `AgentJson`, `AgentList`, `Creator`, `Publisher`, `PreferredIdentifier`, `OtherIdentifier`, `Description`, `CommunityTopic`, `NeighbourIdentifier`, `Relation`, `License`, `AccessRights`, `RemoteResources`, `FieldOfScience` (RECURSIVE, with the early return on a plain-string discipline), `Project`. The output's `present` field is the set of keys left by the final `{k: v ... if v}` filter. A record keeps the kinds of its values (FMI name / other / empty; etsin URL / URL / Handle), not the strings. |
| `MC_MetaxSync` | instance for TLC | record versions v1 and v2 (v2 is the next version of v1), an unserializable record x, workers w1 and w2, and a harvest CLI h. `MCPrev` is defined on the configured `Records`, so the locking run can leave x out. |

Each action covers one handler as a whole, with its early returns as separate disjuncts:

- `SerializeForPost` is the serialisation at the start of `metax_publish`, which reads PIDVersioning for the next-version relation into `payload`. `Post` is the POST of that payload, a separate step, so B2SHARE can publish a new version between the two. `Commit` is the append, the commit and the update of the previous version.
- `SerializeForPatch` is the serialisation and the identifier check of `metax_update_metadata`. `Patch` sends the PATCH, with its 400 branch and its retry branch (`Reschedule`).
- In `Post` and `Patch`, an unreachable Metax and a lost reply are nondeterministic outcomes. An exception ends the process's current task (`Abort`), as in the code, where nothing catches it.

## Runs

| Run | cfg | Expect | What it shows |
|---|---|---|---|
| gate_pyjwt1 | MC_TempAccess_v1.cfg | pass | Under PyJWT 1.x, TempAccess refines AccessPolicy (AccessPolicyRefined): every served download is a read by a reader of the bucket or under a live grant minted by an editor of that bucket's record, so a token opens only its own bucket and a forged one opens nothing. A live issued token is honoured (LiveTokenHonoured). |
| token_sub_claim | MC_TempAccess_sub.cfg | violation | Under PyJWT 2.x every issued token is refused, because `sub` is required but never set. |
| expiry_boundary | MC_TempAccess_window.cfg | violation | Under PyJWT 1.x a token is accepted during its `exp` second. |
| existence_oracle | MC_TempAccess_oracle.cfg | violation | With a bad token, the answer is 400 if the key exists and 404 if it does not. |
| metax_locking | MC_MetaxSync_lock.cfg | pass | With two workers and the harvest CLI running concurrently over v1 and v2, and Metax failing or hanging on any call, MetaxSync refines MetaxCatalog (MetaxCatalogRefined). A record's Metax identifier is set once and never changes, because optimistic locking refuses stale commits. It names a dataset made for that very record. A PATCH, even from a task queued with a stale copy of the record, rewrites only the dataset the record is bound to. |
| metax_race_dup | MC_MetaxSync_race.cfg | violation | Two overlapping `publish_to_metax` tasks create two datasets for one record. |
| archive_gate | MC_ArchiveGate.cfg | pass | The two copies of the access decision agree (ArchiveMatchesObjectAccess). `get_bucket_objects` serves a non-empty bucket's archive exactly when `get_object` would serve each of its objects to the same caller with the same jwt. It answers 400 exactly when `get_object` would. This includes the bucket whose first object is readable and whose second is not. |
| archive_events | MC_ArchiveGate_events.cfg | violation | Signals are emitted before the zip is streamed: a mid-stream storage failure leaves events for entries never delivered. |
| serializer | MC_MetaxSerializer.cfg | pass | Over all 6.7M abstract records in the bounds: the serializer raises exactly when DOI/ePIC PID, description or topic is missing, or when a next or previous version or a file has no PID (SerializableIff); roles partition contributors (RolesPartitioned). |
| metax_retry | MC_MetaxSync_retry.cfg | violation | Under fair workers, a failed update is never retried. |
| metax_complete | MC_MetaxSync_complete.cfg | pass | With one fair worker, Metax answering every call, up to three queued tasks and the unserializable record x, every serializable record that a running `publish_to_metax` listed eventually gets a Metax identifier (ListedRecordsReachMetax). The loop skips records already in Metax rather than stopping at them, and nested updates return to the loop. |
| metax_link | MC_MetaxSync_link.cfg | violation | With one worker, the harvest CLI and a Metax that answers every call, the previous version's dataset can stay without its next-version relation: v1 is serialized before v2 is published in B2SHARE and POSTed afterwards; v2 is harvested and committed, and its nested update loads v1 before v1's commit, finds no etsin identifier and returns False (api.py 62-63, 113-115). |

### Bounds

**TempAccess.** The bounds are lifetimes {0, 1} minutes (time is counted in lifetime units), `MaxTime` 2 and `MaxTokens` 2. This is enough for these cases:
- a token issued for one bucket and presented at the other;
- a token that expires while the model runs;
- a token presented exactly at its `exp`.

**MetaxSync.** The bounds are `MaxIds` 2 (two datasets suffice for a duplicate) and `MaxEnqueue` 2. Two queued tasks allow the same task type twice, or a publish overlapping an update. The locking run leaves out the unserializable record x, whose branches the metax_complete run covers. It has 2.8M states, in about a minute. The metax_complete run has one worker, so `MaxIds` 3 is enough for three sequential `publish_to_metax` tasks; `MaxEnqueue` is 3 there.

**Symmetry.** Worker permutations are used only in the safety runs.

**Harvest re-publishing.** `metax harvest` re-publishing a record breaks the same property, NoDuplicateDataset, with one harvester and no workers. Only the worker race is kept as a run.

**ArchiveGate.** The model has three identities plus anonymous, and a three-object bucket in which the first object is readable but a later one is not. A permission loop that stops early is therefore visible. No request bound is needed, because each request starts afresh.

**MetaxSerializer.** The pass run enumerates the product of all record fields, so the bounds are chosen per list. Two alternate identifiers check order: the ePIC PID comes before the alternates, and an etsin URL may sit between other identifiers. One description, one contributor, one creator and one related identifier are enough for each role, affiliation, name kind and filter. There are three kinds of next and of previous version. The access fields (open_access, embargo_date, licence), the files, the external URLs, the disciplines and the funding references are read by no other serializer function. So `Records` is the product of all other fields with closed access and none of these (`CoreRecords`), plus every combination of them on one otherwise serializable record (`AccessRecords`: up to two files, with or without ePIC PID, and up to two disciplines, so that a plain string before the Environmental science entry is reached). The run covers 6,676,175 records (13.3M states: each before and after serialization) in about a minute. Two of every list (an earlier bound) would multiply this by several hundred.

### Refinement

`TempAccess` instantiates `AccessPolicy` with this mapping:
- `grants` are the bucket and `exp` of the issued tokens;
- `last.served` holds when the last response was a 200 object download;
- `Minters[b]` are the editors of b's record (`verify_record_permission(UpdateRecordPermission, ...)`);
- `Grace` is 1 under PyJWT 1.x, because `exp < now` still accepts the token during its `exp` second, and 0 under 2.x.

The spec asks for `Grace` 0; the expiry_boundary run shows the 1.x divergence. A mapping with `Grace` 0 under 1.x fails the gate_pyjwt1 run.

`MetaxSync` instantiates `MetaxCatalog` with `ids[r]` mapped to the first etsin identifier stored in r (`MetaxIdOf`, what `get_record_metax_identifier` reads), or 0; `published` and `datasets` map to themselves. A commit that appends to an identifier list that is already non-empty is a stuttering step, and a POST is `Create`. The abstract `Bind` requires the record to be unbound, so a commit that overwrites a newer row (the mutant `CommitUnlocked`, without the `version_id` check) violates the refinement. The refinement replaces two earlier properties: that the first identifier never changes, and that it names a dataset of the same record.

MetaxCatalog's `Contents` admits stale content because the code serializes before it sends. With the strict abstraction (only the current relation), TLC finds the refinement violated. The harvest CLI serializes v1, v2 is published, and v1's dataset is created without its next relation. In the same way, an `update_all_metax` PATCH serialized before v2 was published can overwrite the relation that v2's nested update had just written. What the refinement does show is that Metax never holds a relation to a version B2SHARE has not published.

The abstract `Mint` of AccessPolicy states the new grant of `grants'` rather than enumerating expiries, so AccessPolicy is checked only as a property, never run on its own.

### Fault model

In MetaxSync, `MetaxReliable = FALSE` lets every Metax call fail the ways the code distinguishes:
- a POST without an identifier;
- an exception before or after Metax created the dataset;
- a PATCH answered 400;
- a PATCH answered otherwise or raising (the retry branch).

`MetaxAnswers = FALSE` adds a call that never returns. `requests.post` and `requests.patch` have no timeout (api.py 65, 92), so the process is then stuck in `pc = "hung"`. The locking run allows hangs. Deadlock is not checked there, because a system whose processes are all hung really stops. No liveness run allows hangs: a hung process has no further step, so every eventual property fails by construction, and that shows nothing beyond the missing timeout itself.

`EtsinPrefix = FALSE` models a `METAX_PUBLISH_PREFIX` that does not start with `https://etsin` (api.py 101). `is_published_in_metax` and `get_record_metax_identifier` then never recognise a stored identifier. With one worker and no concurrency, the race configuration then fails NoDuplicateDataset, because every `harvest_new` POSTs every record again. The runs keep the production value TRUE.

`MetaxReliable = TRUE` keeps only the successful answers. The metax_link run uses it, so its violation is a pure ordering race and not a Metax failure.

### Fairness

`FairSpec` assumes weak fairness of each process's own step. This holds because a Celery worker or a CLI process that has work runs it to completion. A step that hangs is not a step, and the fault model represents it separately (`MetaxAnswers`), so the fairness assumption does not hide it. The operator and B2SHARE get no fairness: they may stop queueing at any time. Two runs check liveness:
- metax_complete shows that a `publish_to_metax` run, given one worker and a Metax that answers, publishes every record it listed (`ListedRecordsReachMetax`). Its mutant is a `break` in place of the skip of a record already in Metax.
- metax_retry shows that a failed update is never retried. It fails because the retry raises, not for lack of fairness; a fixed retry would also fail it under a Metax that fails forever.

## Observations not kept as runs

- `ListedRecordsReachMetax` fails with two workers, even with Metax answering every call. One `publish_to_metax` run starts before v2 is published and the other after, and both POST v1. The later run loses the commit race, and the StaleDataError ends its loop (tasks.py 37-42). v2, which only that run had listed, is not published until another `harvest_new` is queued. `harvest_new` says it harvests "all not harvested records". Set `Workers = {w1, w2}` and `MaxIds = 4` in MC_MetaxSync_complete.cfg to see the trace.

- `get_rights_holder` writes `contributor["name"] = c["contributor_name"],` (serializer.py 274). The trailing comma makes a rights-holder person's name a one-element tuple, which is serialized as a JSON list; `AgentJson`'s `nameShape` parameter keeps this distinction. A run showed it before it was retired, because a unit test on a RightsHolder contributor reaches it as well.

- `get_field_of_science` returns `[]` at the first discipline that is a plain string (serializer.py 195-196), even when the Environmental science entry comes later in the list. `FieldOfScience` keeps this early return.

- A record without a bucket: `.first()` returns None and `str(bucket.id)` raises AttributeError (temporary_access/views.py 110-125), so the answer is a 500. The spec (section 4.1, step 1) asks for NotFound and calls the case a caller error not expected in normal operation. The model gives every record exactly one bucket, as the spec's invariant of the storage collaborator states.

- `get()` in files/views.py parses the `all` query argument into `download_all` and never reads it; the archive branch is commented out (files/views.py 220). Spec section 6 says `all=true` returns the bucket as a zip archive. The model's `Get` takes `all` and answers as for a single object. The run that showed this was retired to keep the number of runs down; ArchiveGate models the unreachable archive code.

## Not modelled

- The invenio internals that the code only calls: permission factories, `ObjectVersion.get`, and `send_object`. They are abstracted into `Readers`, `BucketObjects` and a 200 answer.
- Serializer formatting that cannot raise on a record the schema admits, and does not change the shape of the output: title, issued date, keywords beyond the topic, spatial WKT, temporal ranges, languages, and the organisation fields outside research_dataset. This is why the serializer component stays `partly`.
- The upgrade recipe 2.2.3 to 2.3.0 declares an empty recipe. The Vault secrets shim and the demo data loader are one-shot sequential scripts doing file and database I/O. None of them has concurrency, a protocol or a state machine for TLC to explore.
- Negative lifetimes and non-integer query arguments.
- Records without a bucket.

## Plan for later work

The project keeps twelve runs, one per question. New questions should replace a weaker run, or be added as properties of a passing run.

1. ArchiveGate shown to refine AccessPolicy as well. This needs a clock and issued grants in ArchiveGate; today its token outcome is an input.
2. A MetaxSync variant with the intended `countdown` retry, to check that a fixed retry restores RetriedAfterFailure.
3. A property that `update_all_metax` visits every record it listed. An escaped TypeError from the retry path ends the loop early (tasks.py 61-65), in the same way as the StaleDataError in `publish_to_metax` (Observations).
4. Issuer edge cases: negative lifetimes and non-integer arguments.
5. MetaxSync with the serializer composed in: a record's serializability depends on whether its neighbouring versions have PIDs (SerializableIff), where it is now a fixed set.
