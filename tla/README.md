# Lineage and trust, specified

TLA+ models of this repository's lineage and audit machinery, the TLC
configurations that check them on small instances, and TLAPS proofs of what
matters most about them for instances of any size. Paths are relative to the
root of the repository. Six groups of parts are modelled: "the store", "the
log", "the pipeline", "the registry" (of datasets), "the RAG system" (ingestion,
inference service, lineage webhook) and "the serving system" (Feast's registry
and its cached copy, MLflow's model registry, the prediction API).

Contents: 1 the system, 2 what is hard about it, 3 the modules, 4 the runs,
5 the proofs, 6 what the work found, 7 what is not modelled, 8 the plan, 9 how
to run it.

## 1. The system

The repository trains a churn model on Kubernetes, serves it, answers questions
over its documents, and records where everything came from.

| Part | Code | State it keeps | Operations | Talks to |
|---|---|---|---|---|
| MLflow tracking-store wrapper | `openlineage-oai/openlineage_oai/adapters/mlflow/tracking_store.py` | `_run_states`: what was logged, per run, under one `threading.Lock` | create/update run, log params, metrics, tags, batches, inputs, outputs | the real MLflow store first, then the emitter |
| OpenLineage emitter | `openlineage-oai/openlineage_oai/core/emitter.py` | none | run events, dataset events; posts once, never raises | Marquez (HTTP) |
| KFP lineage adapter | `openlineage-oai/openlineage_oai/adapters/kfp/lineage.py` | run id of one `with` statement | START on entry, COMPLETE or FAIL on exit | emitter |
| Churn pipeline | `src/pipeline/kfp_pipeline.py`, `src/etl/spark_etl.py` | none of its own; shares the warehouse table, Redis, MLflow registry | eight pods per run, in sequence | adapter, guard, Spark, Feast, MLflow |
| Step guard | `src/security/guards.py` | none | identity, optional OPA decision, PROV file, audit entries before and after the work | log, OPA |
| Transparency log | `src/security/transparency.py` | an append-only file of JSON lines, each chained to the hash of the one before | append | cosign, Rekor |
| Dataset registry | `dataset-registry/backend`, `dataset-registry/sdk` | the PostgreSQL table `datasets` | create, look up, update, delete | Marquez (one DatasetEvent per create) |
| openlineage SDK | `openlineage-sdk/openlineage_sdk/client.py` | a `_TrackedRun` per decorated function | decorator and context manager around a job | Marquez |
| RAG ingestion | `src/rag/rag_pipeline.py` | a Milvus collection, replaced by each run | load, chunk, embed, store, infer; one COMPLETE each | MinIO, Milvus, Marquez |
| RAG inference service | `openshift/webhook/examples/rag-service/app.py` | a handle on the collection, or none for good | query: load, then search | Milvus |
| Admission webhook, init container | `openshift/webhook` | none | patch a pod; post START and COMPLETE before it starts | Kubernetes, Marquez |
| Feast registry | `feast/sdk/python/feast/infra/registry/sql.py`, `feature_store.py`, `repo_operations.py` | PostgreSQL tables of definitions and materialized intervals; the online store | `feast apply`, `materialize` | PostgreSQL, Redis, Marquez |
| Feast registry cache | `feast/sdk/python/feast/infra/registry/caching_registry.py`, `feature_server.py` | a copy of the registry with a time-to-live, and a lock that is tried once | refresh, look-ups of a request | the registry |
| Model registry | `src/pipeline/kfp_pipeline.py`, `src/training/registry.py`, `openshift/jobs/06-promote-model.yaml` | versions and the alias `champion` in MLflow | register, promote, roll back, archive | MLflow |
| Prediction API | `src/serving/app.py` | the loaded model; a feature store with its cached copy | start, predict, reload | MLflow, Feast |
| Policy, identity, provenance | `src/security/opa_client.py`, `eu_compliance.py`, `spiffe_auth.py`, `prov_o_lineage.py`, `policies/` | none | decide, identify, write a PROV file | OPA, SPIRE |

Who calls whom, where the order matters:

- A pod of the pipeline runs the guard (audit entry "start"), enters
  `kfp_lineage` (START), works, leaves it (COMPLETE, or FAIL and the exception
  goes on), and appends the audit entry "end". Argo starts the next pod of the
  run when it succeeds. Nothing orders the pods of two runs.
- The training pod's MLflow calls go through the tracking-store wrapper, if
  the tracking URI has the scheme `openlineage+http`. Several threads of a
  client may share one store (autologging, callbacks, servers).
- The registry's handlers are synchronous functions: FastAPI runs them in a pool
  of threads, and each database function opens a connection and commits.
- A run of the RAG pipeline drops the collection and fills it again, call by
  call, while pods of the inference service load and search it by name. Such a
  pod is admitted through the webhook, and starts when its init container has
  posted its lineage.
- Pods of the pipeline run `feast apply` and `materialize` on one registry in
  PostgreSQL, each of many small transactions. The prediction API and feature
  servers read it through copies of their own.
- A pipeline run registers a version and then sets the alias; the promotion job
  sets the alias when it finds none; the prediction API resolves the alias and
  then downloads, when it starts, when it has no model, and when it is told to
  reload. Its handlers are coroutines that never wait, so it does one thing at a
  time.
- `feast` is a vendored copy of Feast: 2581 of the 2848 files. What the platform
  configures and several of its processes share is modelled: the SQL registry,
  apply, materialize, the cached copy.

What makes each modelled part correct:

- *Store*: MLflow's calls succeed whatever lineage does; a terminal event
  reports only what MLflow holds for that run and all that was logged before; a
  run starts once, ends once and is forgotten afterwards; no thread blocks.
- *Log*: entries are chained; a returned entry stays; concurrent writers and
  interrupted writes do bounded damage.
- *Pipeline*: what Marquez and the audit trail say of a run is what happened; a
  registered model can be traced; no step shows as RUNNING for ever.
- *Registry*: one row per dataset; an answer is true; an acknowledged
  registration does not disappear by accident.
- *RAG system*: chunks cover their document; a collection nobody disturbed is
  exactly what one run stored; answers come from it and from nothing else; every
  row that can be retrieved has its reported steps; a pod that serves is
  registered.
- *Feast*: a row is what the writers would have left one after the other, unless
  one overwrote what it had not read; an apply that ran alone leaves what its
  repository defines; an interval is recorded after its rows were written, and
  only the clean-up of an apply takes them away; the copy catches up, and is a
  copy of one registry.
- *Model registry and API*: the champion is not older than a version that was
  promoted before; the API never goes back to an older model by itself.

## 2. What is hard about it

`PROJECT.json` lists each hazard at its line, with the properties that cover it.
In short:

- one non-reentrant lock, taken again by a handler that is called with and
  without it (`tracking_store.py:489`);
- state that is looked up under the lock and used after its release
  (`:274-289`), and a delegate call, an accumulation and an event that are
  separate steps;
- events posted once, without retry or order between processes, lost silently;
- a chain hash read long before the line that depends on it is written
  (`transparency.py:164-197`), and writes that may stop in the middle;
- pods that may die between their effect, their COMPLETE and their audit entry;
- one warehouse table, overwritten and read by every run
  (`spark_etl.py:132`, `kfp_pipeline.py:341-375`), and a lineage server that
  links an input to the newest version it has heard of;
- check-then-insert and lookup-then-act in the registry, and callers that give
  up while the handler goes on;
- a chunk boundary computed from size, overlap and four delimiters, where a slip
  skips text or stops the loop (`rag_pipeline.py:176-208`);
- a collection that is dropped, created, filled, indexed and loaded in separate
  calls (`:411-454`), and a query that loads and searches in two;
- lists made first and acted on later, definitions and intervals merged from a
  row another writer may have changed, without a lock (`sql.py:703-731`,
  `:921-985`; `repo_operations.py:359-391`; "TODO: Add locking",
  `feature_store.py:1006`);
- a copy refreshed by whoever gets the lock and by a timer that does not ask for
  it, whose failures are swallowed (`caching_registry.py:427-476`);
- register and set-alias, resolve and download, read aliases and delete them:
  two calls each (`kfp_pipeline.py:702-708`, `serving/app.py:61-68`,
  `training/registry.py:79-96`).

## 3. The modules

| Module | What it is |
|---|---|
| `RunLedger` | abstract: MLflow's record of a run grows; lineage is appended to, and reports only what is recorded |
| `TrackingStore` | the store and its emitter; implements `RunLedger` |
| `TransparencyLog` | the signed, chained audit log |
| `StepChain` | abstract: what Marquez shows of a run: steps begin in their order, one at a time, and end once |
| `ChurnPipeline` | runs of the KFP pipeline: guard, adapter, work, shared data, Marquez; implements `StepChain` |
| `Catalogue` | abstract: an entry per dataset; a call on it takes effect at one instant, at most once |
| `DatasetRegistry` | the registry API and its SDK; implements `Catalogue` |
| `RagIngestion` | overlapping runs of the RAG pipeline and the collection they replace |
| `LineageInjection` | the webhook and the init container of each pod |
| `RagSystem` | composes the two with the inference service |
| `FeastRegistry` | apply and materialize over the SQL registry |
| `FeastCache` | extends it with a cached copy, the threads and the timer of a server |
| `ModelRegistry` | versions, the alias, and those who move it |
| `ServingSystem` | composes the three with the prediction API |
| `MC...` | values of constants that a `.cfg` cannot state, and symmetry sets |
| `...Proofs` | theorems about the module of that name; `TrackingLifecycleProofs` has a second part of those on `TrackingStore` |

In every module the operators named `Faulty...` are not the code. Each stands
before the definition it would replace, and is a bug someone could have written
there; swapping it in breaks a property, which shows that the property looks at
that part of the code.

### TrackingStore

One action per step that other threads can see: a delegate call, a critical
section, an iteration executed under the lock, a post. `pc` names the point in
the method; `method`, `run`, `request` are its arguments; `todo`, `pending`,
`current` are what its loops have left.

| Code | Actions |
|---|---|
| `create_run` | `CreateRun` (delegate), `RegisterRun` (`_run_states[id] = RunState()`), `EmitStart` |
| `update_run_info` | `UpdateRunInfo` (delegate), `LookupState` (under the lock), `BeginFilter`/`EndFilter` (`filter_system_tags` iterating the live dictionary without it), `EmitTerminal`, `ForgetRun` (pop) |
| `log_param(s)`, `log_metric(s)`, `set_tags`, `log_batch` | `LogBatch`, then `Acquire`, `Accumulate` per value, `Release` |
| `set_tag` | `SetTag`, and the history handler after `Release` |
| `_handle_model_history_tag`, `log_inputs`, `log_outputs` | `AnnounceDataset` (DatasetEvent), `AppendDataset` (its own critical section), `SkipDataset` (extraction fails, warning) |
| a delegate that raises | `DelegateRaises`, possibly after part of a batch |
| the end of the process | `Crash`: memory and threads are gone, MLflow and Marquez are not |

`state` survives the removal from `live`, because a thread that looked it up
still has the object. `CompleteItems` keeps the difference between what the
facet copies (tags) and what it refers to (params, metrics), which is what later
logging calls can still reach. Values of params and metrics, names and facets
are abstracted to keys. A list of inputs is a set. The tags given to `create_run`
go to MLflow alone and are left out. The delegate is a store of MLflow 3
(`requirements.txt:17`), which has every method the wrapper looks for
with `hasattr`. A delegate that raises has created no run and changed no run's
status: an HTTP store whose answer is lost after it has done so is not modelled.
`acked` and `owed` are history: what calls that
had returned had logged when the run was ended.

### TransparencyLog

`append_signed_audit_entry` is `ReadChain`, `Sign` (cosign and Rekor, which may
take minutes), `WriteEntry`; `TornWrite` is a write cut short and `Abandon` a
process that ends in between. A hash is what it commits to: the sequence of
payloads of the chain ending there, so equal hashes mean equal histories. `ended`
says whether the file ends in a newline: an entry written after a torn line is
glued to it and neither can be read.

### ChurnPipeline

Each run is at one of eight steps, its pod at one point `pc` of the sequence
guard → enter → body → exit → finalize. The bodies that touch shared data are
split where another run can come in between:

- `spark_etl.load` with `mode="overwrite"` is `DropTable`, `CreateTable`,
  `InsertRows` (Spark's JDBC writer, without `truncate`); the inserts of its
  partitions are one step, after which the job may still raise;
- the extraction is `ReadLabels` and `ReadFeatures`, two queries;
- registration is `RegisterModel` and `SetChampion`, two requests, the
  exceptions of both caught.

A set of rows is the set of runs that wrote them. Marquez is external: it shows
the last state it was told, gives each output a new version on COMPLETE, and
links an input to its newest version. Versions are kept for the warehouse table
only, as the other datasets bear names of their run or are not read back, and of
the two steps that have it as input the link is kept for `materialize`. A body
may raise at any point from the guard on, outside `kfp_lineage` too
(`RaiseOutside`). The events Spark, Feast and MLflow emit themselves are left out; that ROC-AUC
reaches the threshold or not is a choice. One budget `MaxFaults` bounds lost
posts, killed pods and exceptions nothing forces; an exception another run
forces (`TableClash`) is free.

The audit entry of a pod is one step here although `TransparencyLog` has three:
each pod has a file system, hence a log, of its own, and
`TransparencyLogProofs!OwnLogIsLinear` proves that such a log is one chain.

`StepChain` is read off with `shown <- marquez`, `missing <- lost`: whatever
pods of other runs do, are killed or clash, what is shown of a run moves as one
chain, or stays behind it where an event was lost.

### DatasetRegistry

A call is a method of the SDK with the handlers it reaches. `create`:
`CheckSource` (a transaction, then introspection of the source, of any length),
`InsertRow` (committed or refused by the `UNIQUE` constraints, the latter a 500),
`Announce` (the DatasetEvent, its failure swallowed), `Reply`. `update` and
`delete`: `LookUp`, then `UpdateRow`, `DeleteRow` or `RowGone` by the id found,
then `Reply`. `TimeOut` ends the caller's wait and not the handler; `Lose` ends the
handler, or breaks the connection, at any stage: after the row, or after the event
and before the answer. The two share the budget `MaxFaults`. The text of a row (name, description, tags, schema) is the call that
wrote it, an id is a number never used before, and `parse_ol_identity` is a
function `IdentityOf` that may map several URIs to one dataset, as
`jdbc:postgresql://` and `postgres://` do. `met` is history: every set of sources
that was registered while the call was under way.

`Catalogue` knows nothing of rows, ids, look-ups and hand-overs. Its entries are
`Entries` (per dataset, the call that wrote it), a call is `PhaseAt[stage]`
(idle, called, done, over), `announced <- marquez`, `told <- result`. Marquez may
`Hear` of a dataset once it is registered, before the caller is answered, whether
or not the caller ever is; or never. The instant at which
a `create` takes effect is `InsertRow`; an `update` or a `delete`, which act on
the id a look-up has found, take effect at `UpdateRow` or `DeleteRow`, and
`RowGone` is the answer that the dataset was absent at some instant of the call.

### RagIngestion, LineageInjection, RagSystem

| Code | Actions |
|---|---|
| `load_documents`, `generate_embeddings`, `test_inference` | `LoadDocuments`, `Embed`, `TestInference` |
| `chunk_documents` | `CutChunk`, one turn of the `while` loop; `NextDocument`, `ChunksDone` |
| `store_in_milvus` | `LookForCollection`, `DropCollection`, `CreateCollection`, `InsertRows`, `CreateIndex`, `LoadRows`, `CountRows`: a request each; `CallRefused` when another run has taken the collection away |
| the last statement of a step: its COMPLETE event | `ReportStep`; a failed post raises and fails the pod |
| `mutate` of the webhook | `Mutate`, `MutateRaises` (denied), `WebhookUnavailable` (`failurePolicy: Ignore`) |
| `register_lineage.py` | `EmitStart`, `EmitComplete`; a failed post runs the container again from its beginning |
| `app.py` of the service | `StartService`, `QueryLoad`, `QuerySearch`, `QueryFails` (the `except` around both), `QueryBlind`, `RestartService` |

A document is its length and, for each of the four delimiters, where its
occurrences end; a chunk is a document and two positions. That keeps the whole
arithmetic of the loop and nothing of the text. A call that raises may have been
carried out or not: a time-out does not tell. That goes for the calls of the
service too: Milvus or the embedding model may fail in any query, which is then
answered with the error as a document (`QueryFails`; kind `failed`, where `refused`
is an error another run caused), and at the start, which leaves the service
without a collection. `UndisturbedAnswersAreCurrent` excepts the failed ones and
nothing else. A row is `<<run, index of its chunk>>`. In `RagSystem` the variables of ingestions and
pods are disjoint but for `collection`; `PodStep` ends the service with the
sandbox of its pod. History: `alone` (nobody else changed the collection since
this run looked for it), `overlaps` (who was replacing it at the same time),
`basis` (the undisturbed ingestions that were complete at `load()`).

### FeastRegistry, FeastCache

A transaction of `_apply_object` is a SELECT and, as a step of its own, the
UPDATE or INSERT: at READ COMMITTED another writer fits in between. `apply_total`
is `ListEntities`, `ListViews`, then views, entities and deletions in the order
of `FeatureStore.apply`, one `ApplySelect`/`ApplyStore` or `ApplyDelete` each;
`registry.commit()` does nothing, so `ApplyFails` leaves what was stored. After the
registry's deletions `update_infra` takes the deleted views' rows out of the online
store, with one scan of Redis for each (`DropRows`), whoever has stored a view
again or written its rows since. A scan and its deletions are one step; but a key
holds the rows of all views of an entity and is deleted whole if the deleted view
was the only one in it when it was looked at, so while an apply has a scan to do,
rows that are being written may go with it, whatever their view (`Sweeping`, `WriteOnline`).
`materialize` is `EmitStart`, per view `WriteOnline`, `GetView`,
`MaterializeSelect`, `MaterializeStore`, then `MaterializeEnds` with COMPLETE or
FAIL if START was acknowledged. A row is the view's entity, standing for its
definition, and the intervals recorded; of object types two are kept, as the
order of storing and deleting matters between them.

`FeastCache` is a server in mode `sync`: `CheckCache` tries the lock once,
`ProtoEntities` and `ProtoViews` are the lists `proto()` makes, `Install` the
assignment, `RefreshFails` an exception that `refresh()` swallows. `TimerFires` and `TimerAgain` are
`async_refresh`, which takes no lock and calls `proto()` once more, unprotected.
A request looks up a view and then, in the copy of that moment, its entity.

History: `stale` (the row a writer has read was changed since), `raced` (objects
stored over such a reading), `swept` (rows such a clean-up took from a view that
was there again or being stored, or while they were written), `sequential` (the rows, had every writer read what
it replaced), `alone` (nobody else changed the registry since this apply began),
`closed` (a copy was read from a registry that had the entities of all its views
and did not change meanwhile), `replaced` (the copy was replaced between the two
look-ups of a request).

### ModelRegistry, ServingSystem

`Register` and `Promote` are the two calls of the registration step;
`LookForChampion`, `SearchLatest`, `SetLatest` the promotion job, which takes any
exception of the first for "no champion" and is started again when a later one
raises; `Rollback`, `ReadAliases` and `DeleteAlias` the helpers of
`training/registry.py`; a call that raises may have been carried out. The API is `StartApi`, `StoreReady`, `Resolve`,
`Download`, `LoadFails`, `Predict`, `Reload`, `StopApi`, and the actions of the
copy for its one thread. `active` says which processes there are: the initial
states range over `Workloads`, sets of processes given by the configuration,
which keeps an instance with many kinds of processes small. The proofs have
any set of workloads. `overlaps` counts who moves the alias between the two calls
of another, an operator between `ReadAliases` and `DeleteAlias` included.

## 4. The runs

| Run | Question | Bounds |
|---|---|---|
| `store_core` | does a run start once, end once, get reported, get released; do calls succeed and return? | 2 threads, 2 runs, 4 calls, a finisher for each run; no loss |
| `store_hostile` | with two runs, two finishers, lost posts and a crash: does a terminal event carry all that was logged, and does the store implement `RunLedger`? | 2 threads, 2 runs, 4 calls, 1 crash |
| `store_historylock`, `store_tagrace`, `store_rename` | the three disagreements of section 6 | 4 calls |
| `audit_shared` | what do concurrent appends and cut writes do to the chain? | 3 processes, 1 log, 3 payloads, 2 cut writes |
| `audit_torn` | is the chain linear? | 1 process, 4 payloads, 1 cut write |
| `pipeline_overlap` | do Marquez and the audit trail tell the truth; does what Marquez shows of a run implement `StepChain`? | 2 overlapping runs, 1 fault |
| `pipeline_trace` | does a model trace back to its rows? | 2 overlapping runs, no fault |
| `registry_calls` | is a dataset registered once, is every answer true, does the registry implement `Catalogue`? | 4 calls, 2 URIs of one dataset, 2 faults, each a lost handler or a caller that gives up |
| `rag` | do chunks cover their documents, is an undisturbed collection exact, are answers from it, is what serves registered? | 2 ingestions, 3 settings, 2 corpora, 1 pod, 1 fault of Milvus, the models or a post (of ingestions and queries together), 1 of the pod or the webhook |
| `serving` | do the registries stay what their writers meant, does the copy catch up, do recorded intervals keep their rows, does the API never go back, does archiving a version spare the alias of another? | 6 workloads of 3 or 4 processes, 1 view, 2 entities, 1 fault on either side |

Why these bounds are enough to be interesting. Four calls on a store are a
`create_run`, a call that logs, one that races it and the end of the run; the
races listed in section 2 are all between two threads. Three processes on a log
are the smallest number for which a fork and a later append meet. Two runs and
one fault reach every pair of interleaved pods with every single failure. The
registry needs four calls for its hardest case: a create, a delete that has
looked it up, another delete, and a create that takes its place before the first
delete acts; two faults are a handler lost after its event or its row and a
caller that gave up on another. In `rag` two ingestions are enough for each call of one to fall
between any two of the other and of a query; the documents of `rag` have a delimiter behind the middle of a
chunk, before it, or none, one of them is empty, and the overlap is none, less
than the chunk, or as large. In `serving` each workload is a question:
two applies and a materialization write the registry; an apply meets two threads
and the timer of a feature server, two applies meet one thread; two
registrations, the promotion job and an operator move the alias; the API lives
through registrations and the job, and through an operator and an apply. A view
may be defined with either entity or dropped, so that an apply deletes what the
other stores. The proofs remove all these bounds for what they cover.

Deadlock is checked in `store_core`, `audit_shared`, `pipeline_overlap` and
`registry_calls`, where the end of the bounded workload is a named stuttering
action (`Quiescent`, `Exhausted`, `AllOver`, `AllServed`). It is not in
`store_hostile`, where tags come in batches and may block the threads, nor in
`rag` and `serving`, where every process may be over.

What the properties say beyond that is in the comment before each of them. Four
need a remark.

- `AtMostOneTerminal` is checked with a thread for each run that sets its tags and
  ends it (`MCOwnThread`), as MLflow's clients do; both threads log for both runs. With two finishers the store can emit two terminal events, because
  it is popped only after the event.
- `TraceLeadsToRows` is what the walkthrough promises; `IsolatedRunIsItsOwn`
  is what the code delivers: the promise holds for a run whose table no other
  run has touched or reported between its replacement and the extraction.
- `RegisteredIsTraceable` allows a gap where an event was lost, and only there.
- `RecordedIsOnline` allows a recorded interval without rows where the clean-up of
  an apply took them (`swept`), and only there (section 6).

Fairness. Two properties need it. `CallsReturn`: every call on the store returns.
`FairSpec` has weak fairness of each thread's `Progress`, since Python runs
every thread again and again, and no step of a thread depends on another's but
for the lock, which is held for a bounded number of steps. It has no fairness for calls, crashes or
faults. `CopyCatchesUp`: once the feature registry does not change any more, the
copy of a feature server comes to be what is stored, and stays so.
`FairServingSpec` has weak fairness of `TimePasses` (the time-to-live of the
copy is over some day) and of each thread of the server: its clients go on
asking, and its threads run. It has none for the timer, which may have died, nor
for the writers; faults are bounded by `MaxFeastFaults`, so some refresh
succeeds in the end. Nothing is claimed to happen eventually for the pipeline,
the dataset registry or the ingestion: a pod may wait for Spark or a database
without a timeout, and the code promises nothing.

## 5. The proofs

Each theorem is about any number of threads, runs, processes, calls and any
budget of faults. The assumptions are those named in the modules (`StoreAssumption`,
`KindsAreDisjoint`, `LogAssumption`, `PipelineAssumption`, `RegistryAssumption`,
`RagAssumption`, `InjectionAssumption`, `FeastAssumption`, `CacheAssumption`,
`ModelAssumption`, `ServingAssumption`); TLC evaluates them in the runs. They are
about types and disjointness: `Corpora` are any documents, with delimiters
ending anywhere, `Settings` any size above 0 and any overlap, however large.

**TrackingStoreProofs.** `TypeCorrect`. `ReportedIsAlwaysStored`: whatever is
accumulated or reported for a run, MLflow accepted for that run. It is not
inductive: `RecordInv` adds that what a thread still has to accumulate, announce,
append or report is backed already. `StoreImplementsLedger`: `Spec` refines
`RunLedger` under `recorded <- Backed`, `reported <- marquez`, one step to one
step or to none. `NoSelfDeadlockOutsideBatches`: if history tags are passed to
`set_tag` alone, no thread takes a lock it holds; `LockInv` says who holds the
lock at which label and that the history handler is reached only without it.

**TrackingLifecycleProofs.** `TerminalsCarryLogged`, for any workload, crashes
and losses. `CarriesInv` says of each call that logs that what it will have
logged is in the state already or still in its hands (`Outstanding`), of one that
ends a run that what it owes is in the state it looked up and, at the post, in
its copy of the tags, and of a run being created that nobody else has heard of
it. `StepFrame` shows once that only the thread that moves and its run need
looking at. `RunsOpenWithStart` under `~Lossy`, by `StartInv`. `RunsEndOnce`,
`LineageNeverRaises` and `MemoryIsReleased` under `OneEnder(own)`: for each run
`r` the thread `own[r]` alone sets its tags and ends it; a thread may have any
number of runs, and any thread creates runs and logs for any of them (section 6
has what happens otherwise). `EndInv` says of each thread that it ends only runs
of its own, over a dictionary that does not grow (`EnderInv`), and of each run in
memory that its end has not been posted, unless its thread is about to forget it
(`OpenInv`). `OthersKeepEnd`, `EndersApart` and `OtherRunsKeepEnd` reduce a step to
the thread that moves and the run it is about.
`FinishedRunsAreReported` under `NothingFails` besides, which is what the
property is about: a crash or a lost post does leave a run without its end.

**TransparencyLogProofs.** `LogTypeCorrect`. `LinksLeadBack` and
`WritersSeeTheirOwn`: without cut writes every link leads to an earlier entry of the
same log, and no process forks its own entries; `ChainInv` says that the hash a
process holds is in the file already, behind its own last entry. `ReturnedEntriesStay`:
with any number of cut writes, an entry that was returned and is in the log is
never overwritten; `FreshInv` (payloads are fresh) and the newline flag carry it.
`LossIsBounded`: no more returned entries are lost than writes were cut short, as
each log whose last line is unended can spoil one entry (`LossInv`).
`OwnLogIsLinear`: the log of one process whose writes all end is one linear chain.

**ChurnPipelineProofs.** `PipelineTypeCorrect`; `RegisteredModelsAreTraceable`
by `ProgressInv` (every step behind the current one was COMPLETE or its event
lost) and `RegistryInv`; `StepsDoNotStayRunning` by `RunningInv`;
`EffectsHaveTheirAudit` by `AuditInv` and its two companions on start and end
entries; `UndisturbedRunsAreTheirOwn` by `IsolationInv`, which says what is in
the table and in Marquez at each point of an undisturbed run that relies on it.
`PodsImplementChain`: `PipelineSpec` refines `StepChain`, one step to one step or
to none. `OpenInv` says of the steps ahead of a run that nothing was told of them,
and of the one its pod is in that its end was not; with `ProgressInv`, a pod that
tells anything is allowed to by the abstract chain (`StepIsReached`).

**DatasetRegistryProofs.** `RegistryTypeCorrect`, `DatasetsAreRegisteredOnce`,
`CallersAreToldTheTruth`, `RegistrationsStay`,
`AnnouncementsAreOfRegisteredDatasets`. One invariant, `RegistryInv`: the table
has one row per identity and per id, and for each call `StageInv` (what each
stage has established; a call under way has met the table as it is now),
`MadeInv` (what a create made stands, or a delete has looked it up) and
`Truthful`. A step keeps the call that moves (`MoverKeeps`) and all others
(`StepLeavesOthers`, `UnmovedKeeps`). `RegistryImplementsCatalogue`: the registry
refines `Catalogue`. One row per identity makes the entry of the row a call acts on
the entry of its own dataset (`TargetIsItsSource`, `EntriesOfOthers`), and a call
whose row has gone has met a set of sources without its own, which is the reason
the abstract catalogue asks for. An event is posted by a call that has taken
effect and not been answered, so a handler lost behind it, or a caller gone before
it, is a behaviour of the catalogue as well.

**RagSystemProofs.** `ChunksCover`: for every size, overlap and placing of
delimiters the chunks of a document leave no gap and advance. `ChunkEndsBounds`
and the lemma on `NextStart` bound one turn of the loop; `CursorInv` says that
the next chunk starts behind the last one's start and not behind its end, and
that documents behind the cursor are covered to their end. `UndisturbedStoresAreExact` by `StoreInv`, which
says what the collection is at each point of a run that is alone with it.
`RowsAreUnmixed` by `OverlapInv` (a run that is about to insert overlaps with
whoever's rows are there), `RowsAreAccountedFor` by `TraceInv` (the events a run
has posted by each stage). `AnswersAreCurrent` by `StoreInv` and `QueryInv`: between `load()` and `search()`
the collection stays loaded as long as the ingestion the query relies on is
undisturbed, so that a query over it is answered with its rows unless a call of the
query itself failed.
`ServingPodsRegistered` by `InjectionInv`.

**FeastRegistryProofs.** One invariant, `FeastInv` (`FeastInvariant`).
`ApplierInv` and `MaterializerInv` say what a writer knows of the row it is
changing (a reading that is not stale is the row), that the rows of every interval
in its hands are `Kept` (online, or swept), and for an apply that is alone that each object is right or
still to be done. `ReportInv` relates a run id to its START. From it
`RowsAreSequential`, `RecordedIntervalsAreOnline`, `EndsAreNotOrphaned`,
`AppliesAreExact`. A step is shown to move one writer and at most one row
(`Apart`, `Keeps`, `Puts`), and each part of the invariant is carried over for
the writer that moves and for the others. `Spares` is what the clean-up of an apply
is shown to do: rows that are lost and not counted as swept are those of a view
that is gone and in no writer's hands, of which no interval can be recorded.

**ServingSystemProofs.** `ServedInvariant`: `ModelInv` (whoever holds a version to
promote holds one not behind any promoted version, unless they overlapped) and
`ServedInv` (as long as no one overlapped and no operator acted, loaded and
resolved versions are not ahead of the champion, nor the champion of what is
about to be promoted). From it `ChampionIsNewest`, and the action property
`ServedModelAdvances`. `AliasInv`: an operator about to delete the alias holds the
champion, or nothing is champion, or it overlapped with whoever set the alias last;
hence the action property `ArchivingSparesOthers`. `CopyInvariant`: a copy, or half a copy, that is `closed`
`HasEntities`, and a request that has looked into one copy finds its entity
there; hence `EntitiesFound`. `FeastHoldsWhenServed`: the four theorems of
`FeastRegistryProofs`, of the whole composition. `ServingTypeCorrect`: the types
of all its variables, from these invariants and `UseInv`, which adds the lock of
the copy and what the API does.

The types of the log, the pipeline and the dataset registry (`LogTypeOK`,
`PipelineTypeOK`, `RegistryTypeOK`) are theorems only: what a run would show of them on
a small instance is proved for every one.

Only model-checked: `CallsReturn` and `CopyCatchesUp`, as liveness is beyond the
prover.

## 6. What the work found

Each is a run whose counterexample TLC prints.

- `store_historylock`: a history tag passed to `set_tags` or `log_batch` blocks
  its thread for ever (`tracking_store.py:489`), and every later call with it.
- `store_tagrace`: a tag set while another thread ends the run makes
  `update_run_info` raise after MLflow has ended the run.
- `store_rename`: an update that leaves the run RUNNING drops its state, and
  the end of the run is never reported.
- `audit_torn`: a line cut short makes the next entry unreadable and the one
  after it start a new chain.
- `pipeline_trace`: with two overlapping runs a model is linked to a version of
  the table other than the one whose rows it was trained on.

Some things the models contain disagree with no text of the repository, and
are noted here because a reader may not expect them.

- After `feast apply` the comment at `feature_store.py:1207` speaks of changes
  that are "immediately visible"; the refresh it is about is of the copy in the
  process that applied. Other processes see the change when their own copy is
  refreshed, which `CopyCatchesUp` is about.
- Two overlapping applies, or an apply and a materialization, can each undo what
  the other recorded (`raced`), and can leave a view whose entity is gone.
- `feast apply` removes the online rows of a deleted view after it has deleted the
  view (`feature_store.py:1196`), by scanning for keys and, at the end, deleting
  whole those that held nothing else when they were looked at (`redis.py:131-143`). A view stored again and materialized in between is left
  with a recorded interval and no rows, and so may another view of the same
  entity whose rows are written during the scan. `swept` counts these rows.
- `archive_version` deletes by name an alias that may have moved to another
  version since it looked (`ReadAliases`, `DeleteAlias`; `ArchiveSparesOthers`: it takes
  such a move to lose the alias of another);
  the promotion job takes a failed look-up for "no champion" and replaces the one
  there is.
- An inference service started when there is no collection, or when Milvus does not
  answer, stays without one until it is started again (`QueryBlind`).
- A dataset may be in Marquez although its caller was told of an error, and be
  registered and never announced (`Announce`, `Lose`).
- The last chunk of a document is followed by up to `chunk_overlap` further
  chunks, each the end of the one before (`NextStart`): repeated, not lost.

## 7. What is not modelled

`PROJECT.json` lists every component with its status and the reason.

Data conversions (names, URIs, facets, artifact parsing), SPIFFE, PROV files, OPA
decisions (no step passes an `opa_input`), configuration, manifests and scripts
hold no state that two actors share. Of the emitter, retries and serialization
need no model: there are no retries, and a failure is a lost event. Read-only
endpoints of the dataset registry are left out except the SDK's lookup. The
`openlineage-sdk` is imported by nothing in the repository, so no use of its
tracked runs could be modelled from a caller.

Nine tenths of the repository's lines are Feast. Three parts of it hold state that
processes of this platform share and are modelled in full for the two object
types that differ: the SQL registry's writers, materialization, the cached copy in
mode `sync`. The rest is offline and online stores of vendors the platform does
not configure, compute engines, type conversions, generated protobuf and gRPC
code, the command line, the UI, servers in Go and Java, examples and notebooks:
no shared state of this system, or pure conversions. The share of all lines that
the models cover is small for that reason.

Of what is modelled, abstracted are: values of parameters and metrics (a key is
there or not), texts, embeddings and features, hashes and signatures, and the
services outside the repository (Marquez, MLflow, Milvus, PostgreSQL, Redis,
Rekor), which appear as their callers see them.

## 8. The plan

Done, in this order because each later part relies on what the earlier shows
(what an event promises, what an audit entry is worth, who shares a table):
`TrackingStore` with `RunLedger`, `TransparencyLog`, `ChurnPipeline`,
`DatasetRegistry`; then `RagIngestion`, `LineageInjection` and `RagSystem`;
`FeastRegistry`, `FeastCache`, `ModelRegistry` and `ServingSystem`; the proofs
beside them; and the abstract specifications that the readers of each record rely
on: `RunLedger`, `StepChain`, `Catalogue`.

Still worth doing: values per key in `TrackingStore`, for the order in which two
threads of one run log the same key (`tracking_store.py:361`); an abstract feature
registry that `FeastRegistry` refines.

## 9. Running it

    tlc -workers 2 -config TrackingStore_core.cfg MCTrackingStore.tla
    tlc -workers 2 -config ServingSystem_serving.cfg MCServingSystem.tla
    tlapm DatasetRegistryProofs.tla

The largest runs (`registry_calls`, `pipeline_overlap`) take two to three minutes;
the proofs of a module take from one minute to twenty.

`PROJECT.json` names the module and configuration of every run, the source
lines of every definition, and the mutation that breaks each property.
