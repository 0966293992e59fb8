# dunemachines-fileserver in TLA+

This directory holds a formal model of the file server in this repository: TLA+
modules that model its components, TLC configurations that check them on small
instances, and TLAPS proofs of the theorems that matter most. Line numbers refer
to the sources beside it (`src/app/...`).

## The system

A multi-tenant file server: FastAPI served by two uvicorn processes
(`main.py:155-163`), Postgres for rows, MinIO (S3) for objects, Redis for
pub/sub, locks and caches, Qdrant for vectors. The processes share nothing but
those four stores.

| component | state | operations | interacts with |
|---|---|---|---|
| uploads (`api/rest/uploads.py`, `services/uploads`) | asset row, object | init, complete, download-url | publishes events; row read by everything |
| files (`api/rest/files.py`, `repositories/asset_repo.py`) | asset row | list, search, content, delete, content-event | background tasks on Qdrant and MinIO, revokes links |
| folders (`api/rest/folders.py`) | `parent_id` of rows | create, contents, delete | soft-deletes assets directly |
| event bus (`events/`) | Redis channel, handlers | publish, consume, reconnect | every process gets every event |
| workers (`workers/`) | Redis lock, asset status, points, thumbnails, summaries | upload-complete, summary-requested | driven by events |
| search (`services/search`) | one Qdrant collection per org prefix | index, delete, search | workers, delete, repair script |
| presentation links (`services/presentation_service.py`, `repositories/presentation_link_repo.py`, `api/rest/presentation_links.py`) | link row, version row, snapshot object | create, list, revoke, resolve, unlock | reads assets, revoked by delete |
| identity (`core/security.py`, `core/omnius_client.py`) | JWT, Redis caches of the active org and of roles | resolve identity | external Omnius database |
| permissions (`services/permissions`, `api/rest/permissions.py`, `api/rest/auth.py`) | claims of the tokens issued | exchange, mint, require a permission | identity; every endpoint |
| path resolution (`api/rest/acl.py`, `api/rest/omnius_files.py`) | none of its own | check, read, list by path | the tree of folders |
| real-time (`api/ws/collaboration.py`) | per-process connection maps | connect, message, broadcast, disconnect | event bus |
| GitHub connector (`connectors/github`) | mirrored asset rows | sync repo, webhook, token | GitHub API |
| GraphQL (`api/graphql/schema.py`) | none of its own | queries, deleteAsset | asset repository |
| scripts (`scripts/`) | checkpoint file | re-index repair, canary, reconcile | worker handler |

What is hard to get right in it: the same event reaches both processes; events
leave before the commit they announce; UPDATEs name a row by id alone and so
write over each other; background tasks act on what a look-up read long before;
pub/sub forgets what nobody listens to; Redis locks end by TTL only; most
failures of Redis, Qdrant and MinIO are logged and swallowed.

`PROJECT.json` lists all components, and under `hazards` each such place with
its line and the properties that would notice it going wrong.

## Modules

Each component has a module; `MC<module>.tla` gives it small sets of model
values, a `.cfg` chooses among them, and a module whose name ends in `Proofs` has
the theorems: about the module of its name, or about several that belong together
(`AccessProofs`, `RealTimeProofs`, `PresentationLinksProofs`). Where modules are
proved about or composed together, the names of their `Init`, `Next` and `Spec` begin
with what they are about (`TreeSpec`, `PathSpec`, `NotesSpec`, `BusSpec`). In every module a request, a task or a
script is a value whose `pc` says how far its handler has come, and a step
between two values of `pc` is what the code does between two awaits that matter:
one SQL statement, one call to Redis, Qdrant, MinIO or GitHub, or one commit.

Conventions common to all modules:

* Postgres runs at READ COMMITTED. A transaction's writes are applied at its
  commit step. Where the order of two writers of one row matters, an operator
  (`RowLocked`, `FileLocked`, `LinkLocked`) keeps the second writer out until the first has
  ended, and the write is by id alone, as in the code. `get_db`
  (`core/database.py:36-45`) commits after the handler has returned and before
  the response and its background tasks.
* What a call may do wrong is a member of the constant `Faults`; the code
  swallows most failures, and then the step is the one that the handler goes on
  with.
* Variables marked `history` are written and never read by an action: they
  remember what a property compares with.
* Operators under a comment that begins with `Mutation:` are used by no
  specification. Each is a variant of the definition below it, with a fault that
  a programmer could make; put in its place, it must break the property that
  `PROJECT.json` names beside it. They keep the properties honest.
* Every module ends with its properties, and some with statements that comments,
  docstrings or tests make and the code does not keep; see *Where the code and
  its words part*.

| module | models | code | state and actions |
|---|---|---|---|
| `AssetPipeline` | life of an uploaded file | `uploads.py`, `files.py:315-359`, `embeddings.py`, `database.py`, `consumers.py` | `status`, `deleted`, `blobRef` are the row; `stored` the object; `point` the vector; `lock` the Redis key. `CompleteLookup` to `CommitComplete` are `complete_upload` statement by statement, `DeleteLookup` to `DeleteBlob` are `delete_asset` and its two background tasks, `AcquireLock` to `UpdateStatusReady` the embedding handler, once per process and event |
| `AssetLifecycle` | what the pipeline promises | - | reserved, available, gone; content stays while available |
| `PresentationLinks` | links to one file | `presentation_service.py`, `presentation_link_repo.py`, `presentation_links.py` | `row`, `snapshot`, `accessCount`, `unlocked`; `create_link`, `resolve_link`, unlock, revoke, and all ways to delete the file, statement by statement; `RecordAccess` is the UPDATE of `record_access`, which takes the link's row until `CommitView` or `Abort` |
| `SpeakerNotes` | `strip_speaker_notes` | `presentation_service.py:61-146` | the scan over the text; its reference reads line by line |
| `FolderTree` | `parent_id` | `folders.py`, `files.py:142-200` | inserts, plain and recursive deletes, and one walk of `GET /files/tree`, a listing being a count and then a page |
| `PathResolution` | an asset named by its path | `acl.py:54-114`, `omnius_files.py` | EXTENDS `FolderTree`: while the tree changes, `LookUpSegment` is one query for one segment, and `Allow`, `Read` or `ListEntries` is what the endpoint does at the end of the path |
| `AssetSearch` | one search | `search_service.py`, `indexer.py`, `asset_repo.py:180-218` | the two tasks of a hybrid search, the reading of hits, the fusion by reciprocal rank |
| `EventBus` | Redis pub/sub | `producers.py`, `consumers.py`, `embeddings.py`, `collaboration.py:220-308` | `handlers` is the list that each process fills while it imports its workers, one after the other; `linked` is whom Redis sends to, `box` what is under way; consumers reconnect, listeners do not |
| `WsHub` | `ConnectionManager` | `collaboration.py:19-262` | a task is interrupted only at a send or a receive; `stack` holds the nested broadcasts of a task |
| `IdentityResolution` | whom a request acts for | `security.py:50-113`, `omnius_client.py` | caches with a TTL in ticks, a pool per process, a user who switches organisation |
| `AccessTokens` | what a request may do | `rbac.py`, `permissions.py`, `auth.py`, `security.py:73-165`, `schema.py:290-342` | permissions and roles as sets, identities made of tokens of every kind, and the endpoints that mint tokens with them, chain after chain; the user's organization and role change meanwhile. A request ends soon after its look-up; a WebSocket keeps the identity it was opened with as long as it lives |
| `GitHubSync` | mirroring a repository | `sync_engine.py`, `github_connector.py`, `github_app.py` | the connection with the App's token, listings (of open items only for a token), inserts that may break the session, commit; items come, go, are closed and reopened meanwhile |
| `ReindexReconcile` | which points are missing | `qdrant_reindex_reconcile.py` | three passes while the service goes on, of which the workers' handler of an upload is modelled with its lock: `TakeLock`, `PutPoint`, `EndHandler`, `Expire` |
| `ReindexRepair` | repairing them | `qdrant_reindex_repair.py` | EXTENDS `ReindexReconcile`, whose `candidates` it repairs, in one composition with the service, whose handlers take the locks its own calls meet: tasks behind a semaphore, retries, breaker, checkpoint, kill |

### Runs

All runs finish within five minutes with two workers of TLC. `CHECK_DEADLOCK
FALSE` is set where the system does come to rest: requests, connections, scripts
and function calls are made once each, so that when all have ended nothing is
left to do. The pipeline runs keep the deadlock check: files can always be PUT.

| run | instance | shows |
|---|---|---|
| `pipeline_faults` | one file, one process, two completes, two deletes, all nine faults | types; `UploadedContentStored`; `ImplementsLifecycle`, the refinement of `AssetLifecycle` |
| `pipeline_fair` | one file, two processes, one complete, two deletes, a failing store; fairness | `OneEmbedderPerAsset`, `ReadyHasBlob`, `ReadyIsIndexed`, `UploadIsProcessed` |
| `links` | a protected, expiring snapshot link and a live one, two viewers, one REST delete and the other ways to delete, two PUTs | `SnapshotFrozen`, `SnapshotHasContent`, `AccessCountExact`, `DeletedFileUnreachable` |
| `notes` | every deck of up to five pieces and of up to five lines | `NotesAreStripped` against the line-by-line reference, `ScanEnds` |
| `tree` | three assets, a tree request or a path of up to three segments (two looked up), one delete, plain or recursive, depth 2 | `TreeComplete`, `DeletesFitContents`, `SteadyPathsResolve` |
| `search` | three assets of two organisations in one collection, three modes, no filter, one type or two, one result or two | `ResultsWereLive`, `RankedByBoth`, `SteadyAreFound` |
| `bus` | one process, one client, two organisations, two events, three workers whose imports may fail, two drops; fairness | `AllHandlersStart`, `ForwardedInOrder`, `ConsumerComesBack` |
| `hub` | three connections, one asset watched, one message | `EndedIsForgotten`, `LeftOnce`, `BroadcastReachesOrg`, `ServedIsForgotten` |
| `identity` | two requests in two processes with every kind of token, two organisations, both stores failing; fairness | `RoleIsOfOrg`, `AnswersAreRecent`, `FailsOpen` |
| `tokens` | one user of two organisations, a request at a time, a minted or issued token beside the logins, two changes of role or organisation, a clock of two ticks, look-ups that fail; WebSockets outlive the bound on requests | `AuthorityIsRooted`, `AppWritesForOrgs`, `SessionsAreRecent` |
| `sync` | one connection and sync by either endpoint, two files, a directory, an issue and a pull request that may be closed and reopened, a listing cut to two, every failure | `CountsAreRows`, `ItemsHaveRepo`, `FullSync` |
| `repair` | two files in one collection and a folder, a dry run in chunks of one, then two runs with one place for a call, two tries, slow, silent and Redis failures of the script's calls and of the workers', which share their locks, stopped in either way; fairness | `CandidatesWereMissing`, `DoneUnlessCut`, `AllRepaired`, `ProgressIsKept`, `RunsEnd` |

Why the bounds are enough. Interference in `AssetPipeline`, `PresentationLinks`
and `FolderTree` is between requests that name one row, so one file, or one
folder with something in it, is the unit; a race needs two writers, and a third
of the same kind repeats what the second did. Two completes and two deletes give
every order of complete against complete, complete against delete and delete
against delete. `Crash` may strike again and again. Three connections are what a
nested broadcast needs: one that sends, one found dead in it, and one found dead
while that one's departure is announced. Two revisions (`MaxRevision`) tell a
frozen snapshot from the current content. In `GitHubSync` a listing of three
against a cap of two shows the cut. In `ReindexRepair` one of
two candidates waits for the only place, one failure trips the breaker before it gets
it, and a second run reads the checkpoint of the first; `Chunk`, `Window`, `Tolerated`, `MaxRetries` and
`SaveEvery` stand for 200, 50, 10, 3 and 25. Rows that are no candidates are left
alone after the dry run, since the repair never looks at them; locks expire,
and workers take them, at any time. In `AccessTokens` a
token that is forgotten makes room for the next, so that chains of any length are
run through with one at a time; a session lasts one tick of a clock of two, so that
it may be used after the user has left, and expire. In `PathResolution` a
path may be one segment longer than what is looked up. `PageLimit`, `ListLimit` and
`DeleteLimit` are two, so that listings of three are cut, and one of two may outgrow
its page between its count and its page. The deletes of folders stay out of a request for a path,
since what one commits between two queries is what as many deletes of single rows
do. `MaxEvents`, `MaxDrops`, `MaxMessages`, `MaxRuns`, `MaxOrg`,
`MaxLag`, `MaxTime`, `MaxTokens`, `MaxChanges` and `MaxLength` bound counters; each
is a guard of the action that counts.

`SYMMETRY` is used where model values are interchangeable and no liveness is
checked (`links`: the viewers; `tree`: the assets; `hub`: the connections; `tokens`:
the organisations).

`VIEW` is used in two runs, and leaves out what neither a later step nor a property
reads. In `links` (`Relevant`) that is what a request remembers that has failed or
does not need it any more. In `repair` (`View`), once the collections have been listed,
it is all about an asset that the dry run neither has to look at nor has taken for a
candidate, but for the membership that `AllRepaired` asks about; and of a candidate that
is deleted, or left without its point by a handler, whether it has one. States that
have the same view have the same successors in it, and their steps agree on the
properties and, since the script's own state is in the view as it is, on the steps
that fairness is about; so `RunsEnd` may be checked on the views too.

The properties of `pipeline_fair` each assume that some faults are absent, and
say so in their antecedent; the run excludes them all at once, and the theorems
below cover every fault set. `UploadIsProcessed` is checked with one complete
per file: with two it is false, as the table below tells.

### Fairness

Fairness is weak and on the system's own steps only. A request that has been
accepted is served and a task that the event loop holds is run
(`ServeComplete`, `ServeDelete`, `RunHandler`), since asyncio runs every ready
task and each external call has a timeout or ends in an error. A consumer
reconnects, because `start_consumer` loops for ever with a sleep of five seconds
(`consumers.py:36-66`). An identity look-up has timeouts of 2 and 3 s. A worker of
the repair script has `wait_for`. Nothing makes a client send a request, a fault
happen, Redis come back, or a user switch. `WsHub` needs no fairness: instead of
a liveness property it has `AtRest`, the states in which no task can go on, and
an invariant about them.

### Abstractions worth knowing

* `WsHub`: what a client had sent before its line was lost is received after it;
  a send to a lost line raises. Presence is what the manager holds; what a client
  believes of the others is not part of the model.
* `EventBus`: a publish that Redis does not take is logged and forgotten, so it
  is no step. A drop takes any set of subscribers, and what was sent to them may
  or may not be read before they notice.
* `IdentityResolution`: the clock ticks; a key lives at most `TTL` + 1 ticks, and
  at most `MaxLag` ticks pass between a query and the write of its result, for
  which the timeouts of the clients stand.
* `AccessTokens`: an Omnius look-up finds what is there or fails; how stale a
  cached answer may be is `IdentityResolution`'s, and enters here as `MaxLag`, the
  ticks from a look-up to what is done with it, which the time of a request bounds. The
  clock does not wait for a WebSocket: `collaboration.py:242-268` authenticates it once,
  and it acts with that identity until it is closed. A permission is a pair of resource
  and action, as in `rbac.py`; what a handler does once it is let through is in the
  other modules.
* `PathResolution`: a name matters only as to whether it is the segment that the
  path has at the asset's depth; `named` are the assets whose is, any set of them,
  siblings included. Depths never change, since no code moves a row.
* `GitHubSync`: the App's sync lists items in any state (`sync_engine.py:134`, `:176`),
  that by a token open ones only (`github_connector.py:159`, `:190`), so that closing an
  item takes it out of a token's listing. An insert that the database refuses rolls the session back, and
  SQLAlchemy then raises at every later use of it, the commit included.
* `AssetSearch`: the order of scores is any order; the offset is 0.
* `ReindexReconcile`: a handler takes its lock or, when Redis fails, goes on without;
  it may put the point, and ends with the row READY or not, its lock left behind in
  every case. A handler that fails silently, or dies, leaves its asset in `cut`. When the
  script begins, locks may be set and handlers be at work on any files, as those of
  earlier uploads. A delete takes the row, then the point and the object or neither;
  the pipeline's own order is `AssetPipeline`'s.
* `ReindexRepair`: a call of the script is a handler like the workers' and meets the
  same lock, whoever has taken it. The upload handler catches everything, so
  `permanent_failures` is never filled and has no place in the model.
* `SpeakerNotes`: the scan and the reference share `Bare`, what a line that is
  `???` but for blanks is; where fences are found and what is cut is not shared.
* `PresentationLinks`: `Abort` is any exception of a request before its commit:
  the transaction is rolled back, and an object that was copied stays.

## What is proved

Eight modules have proofs, each for any values of the constants that the named
assumption of the module allows: any sets of processes, files, users, requests
and connections, any set of faults, any bounds. The assumptions say what kind of
value a constant is, and that sets which play different parts are disjoint or
finite; nothing is assumed of the behaviour. Few of the properties are inductive,
since requests, handlers and scripts act on what they saw some steps before; each
section says what has to be carried along.

Three theorems, `UploadsAreProcessed`, `EveryRequestIsAnswered` and
`ServedStaysForgotten`, are about what happens in the end. Of ENABLED the provers
know nothing, and weak fairness and `ServedIsForgotten` are stated with it. These
theorems say what they need as a premise of their own (`GuardsSuffice`,
`AskersCanGoOn`, `ReadyCanRun`): where the guard of a step holds, the step is
enabled. It does not follow for the provers, but it does from the actions, whose
primed parts only assign, and TLC finds each of the three to hold in every state of
the instances `pipeline_fair`, `identity` and `hub`. Everything else in them (that
the guards do hold, that nobody else undoes the progress, and how the steps add up)
is proved. The parts of a fairness condition have names in the specifications
(`Completing`, `Deleting`, `Handling`, `Reconnecting`, `Timely`), which a proof
about one request, handler or delete can open one at a time.

### AssetPipelineProofs

From `PipelineAssumption`: a request is not both a complete and a delete, and the
faults are among those listed.

| theorem | states | inductive invariant |
|---|---|---|
| `TypeCorrect` | `[]TypeOK` | itself |
| `ContentCorrect` | `[]UploadedContentStored` | `ContentInv` |
| `LockCorrect` | `[]OneEmbedderPerAsset` | itself, with `TypeOK` |
| `IndexCorrect` | `[]ReadyIsIndexed` | `IndexInv` |
| `BlobCorrect` | `[]ReadyHasBlob` | `BlobInv` |
| `PipelineImplementsLifecycle` | `ImplementsLifecycle` | `TypeOK`, `ContentInv`, `RowsExist` |
| `UploadsAreProcessed` | `UploadIsProcessed`, under `NoneLost`, `OnePerFile` and fairness | `UploadInv`, `RowsExist` |

* `ContentInv`. A complete looks at the object, then writes, publishes and
  commits; a handler writes READY long after its event. What is carried from one
  step to the next is that the object is there *unless the file has been deleted*
  (`Kept`), which every step keeps because only the background task of a
  committed delete removes an object and no step clears `deleted_at`.
* `RowsExist`. Requests past their look-up, and handlers, name a row that was
  inserted, so no UPDATE by id alone moves a file that is absent.
* `OneEmbedderPerAsset` is inductive as it stands, since it says both that a handler at
  work has its key set and that it is the only one: with Redis answering and no TTL
  running out, SET NX lets nobody in while the key is set.
* `IndexInv`. A handler past its upsert has left a point, unless the file is
  deleted: the point is taken away by the background task of a committed delete.
* `BlobInv`. A handler exists only for an event; its request has then either
  published and holds the row lock, which keeps the handler's UPDATE waiting, or
  has committed `blob_ref`.

The refinement proof maps each step to a step of `AssetLifecycle` or a stutter;
the lemmas `LifecycleStutters`, `LifecycleAvailable` and `LifecycleRemove` do it
once for all actions that have the same effect on a file's phase.

`UploadsAreProcessed` says when a live file leaves PROCESSING: if no process, no
subscription, no event, no commit and no handler is lost (`NoneLost`), and no file
is completed twice (`OnePerFile`). Both premises are needed: a crash, a failed
publish or a handler's swallowed exception leaves the row where it is, and the
handlers of a second complete find the key of the first one's held and leave (the
row `ProcessingMeansWorking` of the table below). Redis, Qdrant and the bucket may
fail and the lock may expire. The argument:

* `UploadInv`: from its event on, a file that is to be processed is in the hand of
  some handler in some process, which works on it, or finds the key free when it
  gets to run (`InHand`): the key is set by handlers of that event only, and none
  of them ends before the row is READY or deleted.
* `StageAdvances`, `FreeStays`: what each step does to that handler and to those
  that compete with it; the key may go to another process, and then that one has it.
* `HolderDeletes`, `RowIsFreed`: the last stage waits for the row. Only a delete can
  hold it, as the complete is over, and a delete that holds it ends in deleting the
  file.
* Fairness is a premise from every point of the behaviour on (`[]Fairness`). That is
  what `Fairness` alone means; but which handler it is used for is known only at the
  point where the file waits, and the temporal prover does not move a quantifier
  past a box.

### PresentationLinksProofs

About `SpeakerNotes`, from `TextsAssumption`: a deck is a sequence of the four kinds
of characters, as long as it likes.

| theorem | states | inductive invariant |
|---|---|---|
| `NotesTypeCorrect` | `[]NotesTypeOK` | `FoundInv` |
| `StrippingIsExact` | `[]NotesAreStripped` | `FoundInv` |
| `SearchGoesForward` | each step takes the search on, or ends it | `FoundInv` |

`FoundInv`: the fences found are fence lines of the text, each after the end of the
one before (`InOrder`), and every fence line is among them or has a mark at or after
`pos` that is still to be met (`NoneMissed`), though the search jumps over text it
has not looked at. At the end they are all the fences there are, so that the k-th fence line
of the text is the k-th found (`FencesCounted`), and a position is cut exactly if it
is in a note (`NotesAreInNotes`). What remains keeps its lines whole
(`CutKeepsLines`), so that a fence of the result is one of the text, and there is no
more than the last, unpaired one (`OneFenceIsLeft`). The counts are of sets of
positions, and what looks like an induction over the text is done with least
elements instead: a set of naturals has one because `<` is well-founded, and that
fact the library states of a relation, without an operator for a parameter.

About `PresentationLinks`, from `LinksAssumption`: creates, views and deletes are different requests, and
views are finitely many, since they are counted.

| theorem | states | inductive invariant |
|---|---|---|
| `TypeCorrect` | `[]TypeOK` | `Inv` |
| `SnapshotsAreFrozen` | `[]SnapshotFrozen` | `Inv` |
| `SnapshotsHaveContent` | `[]SnapshotHasContent` | `Inv` |
| `DeletedFilesAreUnreachable` | `[]DeletedFileUnreachable` | `Inv` |
| `AccessesAreCounted` | `[]AccessCountExact` | `CountInv`, with `Inv` |

`Inv` is `TypeOK` with one part for each kind of request. `CreateInv`: a row
exists only after the commit, and a copy from before the insert on, so that a
committed snapshot is never copied into again. `ViewInv`: from the moment it is
admitted a view has one committed link, and what it has fetched of a snapshot is
the copy; and if a delete was answered before, none of the links that this delete
found. `DeleteInv`: of the links there when a delete arrived, those not revoked
yet are in its list, and none is left at its commit. `CountInv` is about
the UPDATE of a view that has not committed yet: it has written one more than what is
committed (`OpenUpdateIsNext`), since the row is its own until then, and no other view
has an UPDATE of that link under way. So the commit, which adds the view to the
finite set of those served, publishes the count of that set, and an abort nothing.

### RealTimeProofs

About `WsHub`, from `HubAssumption`: connections are finitely many, each in one process and one
organisation.

| theorem | states | inductive invariant |
|---|---|---|
| `EndedStaysForgotten` | `[]EndedIsForgotten` | `Inv` |
| `LeavesOnce` | `[]LeftOnce` | `Inv` |
| `BroadcastsReach` | `OneProcess => (Spec => []BroadcastReachesOrg)` | `Inv` and `SaidInv` |
| `BroadcastsGoOn` | some task is ready, or all broadcasts are over | `Inv` and `LoopInv` |
| `ServedStaysForgotten` | `[]ReadyCanRun => []ServedIsForgotten` | the same |
| `NestingIsBounded` | `[]TypeOK` | `Inv` and `NestInv` |

`disconnect` finds the organisation of a connection through `ws_users` only, so
`ConnInv` says that a connection is in its room exactly if it is there, and that
one which is leaving is in neither and watches nothing. `SaidInv` is about the
nested broadcasts: a connection that is due a message has got it, or is among
those its loop has still to send to (`StacksCover`), however many loops are above
that one in the task's stack; so that at the end all have got it (`Reached`).
`OneProcess` is a premise and not an assumption: with two processes TLC refutes
the property (see the next section).

`NestingIsBounded` is about `disconnect`, which broadcasts, and `broadcast_to_org`,
which disconnects whom it finds dead: every broadcast inside another announces a
connection of its own that has left (`Nested`), so by the pigeonhole principle a
task's stack is never longer than there are connections, and one.

`BroadcastsGoOn` says that tasks do not wait for each other in a circle, in terms of
`Ready`, the guards of a task's steps: at any time either some task is ready, or
every stack is empty and no served connection that was lost is still in the manager.
`LoopInv`: what a process is in the middle of is a broadcast or the end of an
endpoint, and a task with a broadcast is being served or leaving.
`ServedStaysForgotten` draws the conclusion that the run checks, about the states in
which no task is enabled, from the premise that a task which is ready can run.

About `EventBus`, from `BusAssumption`: a process is no client, and each client is of an
organisation.

| theorem | states | inductive invariant |
|---|---|---|
| `BusTypeCorrect` | `[]BusTypeOK` | itself |
| `HandlersAreStarted` | `[]AllHandlersStart` | `ProcInv` |
| `ForwardingKeepsOrder` | `[]ForwardedInOrder` | `BoxInv`, `ClientInv` |
| `ConsumersGetBack` | a consumer that lost its subscription gets nearer to a new one | `QuietInv` |

What a client was sent is in order because it was all before what is under way to
it, and that is in the order of the log (`BoxInv`), and later than what there was
when the client was told that it is connected (`ClientInv`). There are
lemmas on increasing sequences, about Append and Tail. `ProcInv`: a worker that a process
has loaded is in the list of its type, whatever was registered after it, and of the
events taken every handler listed has been started; workers are loaded before the first
event is taken.

`ConsumersGetBack` counts the steps a process is away from its subscription: one that
starts loads its workers and subscribes; one that was cut off reads what is left in its
box, notices, sleeps and subscribes (`StepsAway`). While Redis is up and no connection
drops, its own steps (`ProcStep`) lower the count and no step of anyone raises it; that nothing arrives for a consumer without a subscription (`QuietInv`) is
what bounds the reading.

### IdentityResolutionProofs

From `IdentityAssumption`: the tokens are of the shape the code decodes, and every
organisation has a role.

| theorem | states | inductive invariant |
|---|---|---|
| `TypeCorrect` | `[]TypeOK` | itself |
| `RolesAreOfOrg` | `[]RoleIsOfOrg` | `CacheInv`, `AskInv` |
| `AnswersStayRecent` | `AnswersAreRecent` | `RecentInv`, `NothingFound` |
| `EveryRequestIsAnswered` | `FairSpec /\ []AskersCanGoOn => FailsOpen` | `TypeOK` |

The organisation of a request is fixed before its role is asked for (`AskInv`), so
what it puts under the key of that organisation is the role in it (`CacheInv`).
For the age of an answer the quantity that is carried is a sum: what is left of a
key's life and the time since its organisation was left are together no more than
a full life and the lag of a write. The property is about every request. One acts for
an organisation left longer ago than that in one case only, which it names: the
look-up gave nothing, Redis or Omnius having failed, and the token is of the kind
whose own claim is then trusted (`security.py:99-102`), for which no time is set. A
request that has not begun has found nothing (`NothingFound`), so that what it has
found is what it found itself.

`EveryRequestIsAnswered` counts the steps before a request (`Left`): at most five for
its organisation and five for its role, whichever of the cache, the pool and the
query answer or fail. Each of its own steps lowers the number (`StepFalls`), no other
step, not a switch of organisation and not another request's, changes it
(`OthersLeaveIt`), and ten times "it does not stay" make the end.

### AccessProofs

About `FolderTree`, from `TreeAssumption`, and its composition with
`PathResolution`, from `PathAssumption` as well: the assets are finitely many, the
root is none of them, and the limits are positive.

| theorem | states | inductive invariant |
|---|---|---|
| `TreeTypeCorrect` | `TreeSpec => []TreeTypeOK` | `TreeInv` |
| `TreeHoldsSteady` | `TreeSpec => []TreeComplete` | `TreeInv` |
| `FolderDeletesFit` | `TreeSpec => DeletesFitContents` | `TreeInv` |
| `PathTypeCorrect` | `PathSpec => []PathTypeOK` | `PathInv` |
| `PathsResolve` | `PathSpec => []SteadyPathsResolve` | `PathInv` |
| `TreeHoldsSteadyBesidePaths` | `PathSpec => []TreeComplete` | `PathInv` |
| `FolderDeletesFitBesidePaths` | `PathSpec => DeletesFitContents` | `PathInv` |

The last two are of the composition, which is what the run checks. What lies below a
folder is told by chains, functions from 0 to n that name a parent and then its
child, so that no recursion is needed, and trees of any depth are covered.

* `WalkInv` has `ChainsCovered`: of every chain that was there throughout and whose
  listings were neither marked as cut nor overtaken, either the end is listed, or
  the listing of one of its folders is still to be made or under way. A listing takes
  every such chain one folder further, so that nothing is said of what has been
  listed already, and no induction over the depth is needed.
* `DeleteInv`: what was in the folder when a delete arrived and is in it still is
  among the items it has listed, or deleted, unless the listing was full; a plain
  delete that found nothing goes on only if all of it is gone.
* `SeenInv` and `Resolves`: whatever a query finds has been live during the request;
  if a chain that bears the path's names is there throughout, and no sibling of one
  of its assets bears the same name meanwhile, the request stands on the chain, at
  its own depth.

About `AccessTokens`, from `TokensAssumption`: the organisation derived from a subject is none of
Omnius', and the roles asked for are those of `rbac.py`.

| theorem | states | inductive invariant |
|---|---|---|
| `TokensTypeCorrect` | `[]TypeOK` | itself |
| `AuthorityStaysRooted` | `[]AuthorityIsRooted` | `RootedInv` |
| `AppWritesAreGranted` | `[]AppWritesForOrgs` | `RootedInv` |
| `SessionsStayRecent` | `[]SessionsAreRecent` | `RecentInv` |

`RootedInv` is about tokens as well as about the requests that use them: a
token's roles and scopes are rooted in the organisation it names (`SoundToken`),
and a request that trusts its token is made with one this service has minted,
except for GraphQL and the WebSocket, which trust every token and whose roles are
rooted somewhere. The rest is about the sets of permissions: that no role below
`agent:full` has any of the App's writes, and that what a rooted role may grant is
rooted. `RecentInv` bounds the age of a session's organisation by its time of
issue, and that of a request under way by its look-up (`RecentRequest`). For a
WebSocket it is the time of its opening (`began`) that is bounded: it is opened while
the session lasts, and how long it acts for the organisation from then on nothing in
the code limits, so nothing is claimed.

### ReindexRepairProofs

From `ReconcileAssumption` and `RepairAssumption`: the assets are finitely many,
and the limits are positive.

| theorem | states | inductive invariant |
|---|---|---|
| `OnlyMissingAreCandidates` | `[]CandidatesWereMissing` | `SeenInv` |
| `DoneHasItsPoint` | `[]DoneUnlessCut` | `DoneInv` |
| `RepairIsComplete` | `[]AllRepaired` | `NoneDropped`, `DoneInv` |
| `CheckpointIsMonotone` | `[]ProgressIsKept` | itself |
| `LimitsAreKept` | `[]RepairTypeOK` | `WorkInv` |
| `RunsGetOn` | some step is due, and each brings the run nearer its end | `TryInv` |

`SeenInv`: what the dry run has seen is among what there has been since it began.
`NoneDropped`: an asset that is well but for its point is still to be asked for,
still to be looked at in the store, or has an outcome, so that no pass loses one.
`DoneInv`: an asset whose lock is held, by whomever, has its point, was left without it
by a handler, has a worker's handler at work on it or is deleted (`Settled`), or the
script's own call is at work on it; so a call that finds the lock held and is noted as
a success is of an asset that is settled, and nothing that the service does unsettles
one. What the two properties except is what the code cannot know: that a handler which
holds, or held, the lock failed without a word. `RepairIsComplete` is the composition of
the two scripts, and needs both. `WorkInv` adds to the types that a worker which
waits has a try left; the semaphore counts the workers between `PickUp` and their
outcome, which only `PickUp` makes more of.

`RunsGetOn` is what makes a run end, without the induction that it takes: there is
always a step of the script due, since whoever waits for the semaphore waits for a
worker that is at work; an asset has at most three steps a try before it, and one to
be picked up (`StepsLeft`); its worker's steps lower that number and nothing but the
launch of a new run raises it. `TryInv`: what is worked on has had its first try.

### GitHubSyncProofs

From `SyncAssumption`: listings are finite, and no item is a directory and
something else.

| theorem | states | inductive invariant |
|---|---|---|
| `TypeCorrect` | `[]TypeOK` | itself |
| `CountsAreTrue` | `[]CountsAreRows` | `SyncInv` |
| `RepoComesWithItems` | `[]ItemsHaveRepo` | `SyncInv` |
| `SyncIsFull` | `[]FullSync` | `SyncInv` |

`SyncInv` has three parts: what is in the session of a sync while the session is
usable and what it counts (`SessionInv`), what is left of both after a commit or
an error (`CommitInv`), and that of each listing that was got and not cut, all of
what could be listed throughout (`steady`: for a sync by a token, what was there and
open) is in the session or still to be taken (`ListingInv`).

### AssetSearchProofs

From `SearchAssumption`: the assets are finitely many numbers, a filter is a finite
set of types, and a limit is positive.

| theorem | states | inductive invariant |
|---|---|---|
| `SearchTypeCorrect` | `[]TypeOK` | `SearchInv` |
| `SearchResultsWereLive` | `[]ResultsWereLive` | `SearchInv` |
| `SearchRankedByBoth` | `[]RankedByBoth` | `SearchInv` |
| `SearchFindsSteady` | `[]SteadyAreFound` | `SearchInv` |

`SearchInv` follows the two tasks: what the word task has found or the point task
still holds is of the organisation and has been live during the search (`SeenInv`);
what has been there throughout is in the list of a task that is done, or among the
hits whose rows are still to be read, unless the list was filled (`WordsFound`,
`PointsFound`). The order is that of the fusion: an asset that stands before another
in both lists has the greater sum of reciprocal ranks, and so stands before it in the
result. The lemmas on ranks, on lists without repetition and on what a cut to the
limit keeps are stated once and used by all three.

### Only model-checked

* `RunsEnd`, `ScanEnds` and `ConsumerComesBack`, whose steps are as many as there are
  assets and tries, characters, or events: the conclusion takes an induction over a
  temporal formula, which no prover here has (the sets of the library's induction are
  of states, and its other form has an operator for a parameter). Their safety
  halves, that a number falls with each step of the fair party and rises with nobody's, are
  `RunsGetOn`, `SearchGoesForward` and `ConsumersGetBack`.
* That the guards of `GuardsSuffice`, `AskersCanGoOn` and `ReadyCanRun` are all that
  the steps need, as said above.

Every other property of the runs is the statement of a theorem.

## Where the code and its words part

A comment, a docstring or a test says each of the following, the module named
states it, and TLC refutes it with the instance given: put the statement in place
of the properties of that `.cfg` (as a PROPERTY if it begins with `[][`), without
`SYMMETRY` and `VIEW`, with the specification without fairness (`Spec`, `BusSpec`, `PathSpec`)
and the constants changed as noted. They
are not among the runs, which hold what the code does keep.

| statement | what is said | what the code does | instance |
|---|---|---|---|
| `AssetPipeline!ReadyAssetNamesItsBlob` | `uploads.py:181`: the check "gates a 'ready' asset on a verified upload" | the event leaves (`uploads.py:252`) before the commit (`database.py:40`); when that fails the worker still writes READY, and `blob_ref` stays NULL | `pipeline_faults` |
| `AssetPipeline!ProcessingMeansWorking` | `asset.py:47`: PROCESSING is "Workers running" | a second /complete within the 300 s of the lock puts the row back to PROCESSING, and its handlers find the lock held (`embeddings.py:93-96`) | `pipeline_faults`, `Faults <- StorageFaults` |
| `AssetPipeline!DeletedRowKeepsStatus` | `asset.py:50`: DELETED is "Soft deleted" | `update_status` and `update_blob` write by id alone, over the status of a row deleted since the look-up | `pipeline_fair` |
| `AssetPipeline!DeletedIsUnindexed` | `files.py:336`: "remove from search index" | the worker upserts before it re-checks the row (`embeddings.py:141-156`), and does not take the point back | `pipeline_fair` |
| `AssetPipeline!DeletedIsReclaimed` | `files.py:336`: "clean up storage blob" | the background task gets the `blob_ref` of the look-up, NULL if a complete has committed since (`files.py:354`) | `pipeline_fair` |
| `PresentationLinks!DeletedFileHasNoActiveLink` | `presentation_links.py:172-173`: "deletion itself now also auto-revokes a file's links" | a link inserted after `revoke_by_file_id` by a request that looked the file up before stays (`presentation_service.py:215`); GraphQL and folder deletes revoke none | `links` |
| `PresentationLinks!QuotaEnforced` | `presentation_service.py:40-41`: "Enforced here via a real COUNT query" | creates that run at once all count before any commits (`:207`) | `links` |
| `AccessTokens!RoleIsLive` | `schema.py:310`: "Falls through to the same live org-role lookup" | GraphQL prefers the role in the token (`:312`, `:337`), also when the look-up has found another | `tokens` |
| `AccessTokens!ScopesAreHonoured` | `permissions.py:28`: "Additional custom scopes" | they are minted into the token, and `resolve_identity` drops them: only roles are looked at | `tokens` |
| `PathResolution!WholePath` | `acl.py:64-65`: "Returns the resolved Asset row, or None if any segment along the way doesn't exist" | segments past the sixteenth are cut off (`:66`), so the answer is that of an ancestor | `tree` |
| `PathResolution!AllowedIsThere` | `acl.py:27`: "A path that doesn't resolve to an existing asset is DENIED" | each segment is a query of its own: a folder deleted after its query stays part of the path; and a delete leaves deeper contents, and what was inserted meanwhile, in place | `tree` |
| `FolderTree!CutIsMarked` | `files.py:149`: "the FULL nested tree in one call" | count and page are two statements: a full page that gains an asset in between is not marked (`files.py:180`) | `tree` |
| `FolderTree!TreeIsFull` | the same docstring | only assets of type folder are descended into (`files.py:184`), but files and repositories may be parents | `tree` |
| `FolderTree!RecursiveDeletesContents` | `folders.py:133`: "also soft-deletes all contents" | direct children only, at most 1000 (`folders.py:142`) | `tree` |
| `FolderTree!PlainDeleteOfEmpty` | `folders.py:151`: "Folder is not empty" | an asset may be inserted between the listing and the commit | `tree` |
| `WsHub!BroadcastReachesOrg` | `collaboration.py:233`: "to all in org" | a process knows its own connections only, and there are two processes (`main.py:161`) | `hub`, `Proc <- TwoProcs` |
| `WsHub!LostIsForgotten` | `tests/test_websocket_signals.py:240`: `org_id not in manager.org_connections` | a welcome that fails is before the `try` that disconnects (`collaboration.py:44`) | `hub` |
| `EventBus!ClientHearsAll` | `collaboration.py:235-240` lists the events a client gets | the listener subscribes after the client was told it is connected, and ends with its Redis connection | `bus`, `MaxDrops = 0` |
| `GitHubSync!NothingIsCut` | `sync_engine.py:34`: "Full repo sync" | the first 30 entries are looked at, and directories then skipped (`:99`); one page of issues and pull requests | `sync` |
| `GitHubSync!OneRowPerItem` | `github_connector.py:87`: "M ISSUE assets + K PR assets" | GitHub lists pull requests among the issues, and the sync by a token takes them (`:160`) | `sync` |
| `GitHubSync!OneRepoAsset` | `sync_engine.py:61`: "Create or update repo asset." | it only creates | `sync`, `Syncs` of two, one file and no other item, no faults |
| `ReindexReconcile!FlaggedNotExcluded` | `qdrant_reindex_reconcile.py:10-13`: "flagged, not excluded" | an asset without an object is no repair candidate (`:144`) | `repair` |
| `ReindexRepair!DoneIsIndexed` | `qdrant_reindex_repair.py:14-15`: timeouts "get up to 3 retries" | the retry finds the lock of the call that was cancelled, or that of a worker's handler which failed within the last 300 s (`embeddings.py:93`), and is noted as a success; and a call that fails silently is one as well | `repair` |
| `ReindexRepair!CanRestart` | `:11`: "safe to interrupt (Ctrl-C, process kill)" | `write_text` empties the checkpoint first (`:60`) | `repair` |
| `ReindexRepair!RecordedAsItGoes` | `:9`: "records per-asset outcome as it goes" | the saves of the loop come before any task has run (`:177`) | `repair` |
| `AssetSearch!EveryFilterFinds` | `indexer.py:125`: "Search assets by semantic similarity." | two types build `MatchValue(any=...)` (`:140`), which raises, and the hits are empty | `search` |
| `AssetSearch!OwnCollection` | `indexer.py:157-159`: "each org has its own Qdrant collection" | its name is 8 characters of the id (`:38`), so two may share one; foreign points are dropped after the limit | `search` |

Four more were met while reading and are visible in the models without a
statement of their own: one of a user's two connections that closes announces the
user as gone (`collaboration.py:74`); a cached organisation may go back to the
old one once when two requests fill the cache in the opposite order
(`omnius_client.py:110`; `AnswersAreRecent` bounds for how long); a WebSocket outlives
the session it was opened with (`collaboration.py:242-268`); and the
cool-down of `omnius_client.py:40` covers the making of a pool only, not a query
that fails.

## Not modelled

* Summaries and thumbnails: each writes one value that no modelled part reads.
* Endpoints that only list or read rows, roles or links, and the GraphQL queries;
  projects and organisations, whose rows are inserted and read and nothing else;
  `models/permission.py`, a table that no code reads; the webhook, which publishes
  an event that no handler is registered for.
* The tools of the GitHub connector, each of which passes one call on.
* The checks that every endpoint makes of the caller's organisation: the models
  are of one organisation except where two can meet (`AccessTokens`,
  `AssetSearch`, `EventBus`, `IdentityResolution`).
* Validation of names, sizes and types, presigned URLs, rate limits, signatures of
  tokens, logging, configuration, clients of the stores, migrations.
* The canary and reassignment scripts: straight runs.
* Many files of the source tree are empty; `PROJECT.json` lists them as
  placeholders.

## Plan

The pipeline came first, with its abstraction and proofs; then links, tree, bus,
hub, identity, search, sync and scripts, in the order of how many actors race in
them; then tokens and permissions, paths, the composition of the dry run with the
repair, and the proofs of the other modules: by now every property of the runs but
three of liveness has its theorem. What is left, in order:

1. Thumbnails: an object that a handler writes while a delete reclaims the file's.
2. The handler of `AssetPipeline`, statement by statement, in the place of `TakeLock` to
   `EndHandler` and of `CallHandler`, which share a lock but keep the handler's own
   order of statements out.

## Running

    tlc -workers 2 -config links.cfg MCPresentationLinks
    tlapm PresentationLinksProofs.tla
