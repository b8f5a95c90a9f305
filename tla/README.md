# Octop Memory in TLA+

TLA+ models of the memory engine under `src/src/octop_memory/` and of the
plugin that talks to it, the TLC runs that check them and the theorems TLAPS
proves about them.  Paths below are relative to that package unless they start
with `src/` or `plugins/` (`src/plugins/`).

## 1. The system

Octop Memory turns the turns of a conversation into a knowledge base that
later turns recall from.  The layers are rows of one SQL store (SQLite, or
Postgres), all of one *namespace*:

    capture -> raw events -> extraction (LLM) -> candidates
            -> promotion (5 checks) -> atoms, filed as leaves of a tree under
               entities -> pages (LLM) -> recall (FTS, vectors, rerank)

Several hosts (a CLI, a bridge process per editor or chat host, a dashboard, a
cron) open the same store at the same time.  Inside a process each backend call
runs under a re-entrant lock (`locked_sqlite_operation`); between processes
only the database's own transactions order anything.  Most operations of the
Python API are *several* backend calls with decisions, and often an LLM call of
seconds, between them.  That is where the hard behaviour is.

### Inventory

| Component | State | Operations | Hard behaviour | What makes it correct |
|---|---|---|---|---|
| Entity pages: `pipeline/page/*`, `page edit` in `adapters/cli/page_cmd.py` | a row per entity: body, `dirty`, `mutation_version`, `summary_version`, `regen_attempt_count`, `last_regen_at` | mark dirty, regenerate one, regenerate a batch, edit | snapshot read before the LLM call, used after it; user edits during a regeneration; two regenerators; late failures; starvation in the batch | a clean page shows the newest facts; a user's notes survive; late results are inert; every dirty page gets its turn |
| Atoms: `core.py` | atom rows with `deprecated_at`, `superseded_by`; tree leaves; `entities.atom_count` | create, replace, deprecate, delete, supersede, merge entities | checks outside the transaction that acts; several calls that may stop half way | each atom has one successor, following successors ends, counts and leaves agree with the live atoms |
| Promotion and its fallback: `pipeline/promotion`, `candidate` in the CLI | candidate rows with a status, journal rows, the User entity | promote, promote pending, approve, reject, merge, reconcile, the two sweeps of the fallback pass | lists read before decisions, two processes, crashes between calls | a candidate is decided once and at last; what is marked promoted has its atom |
| Consolidation: `pipeline/lifecycle/consolidate.py` | none of its own | find clusters, keep the best, supersede the rest | a pass decides long before it acts; two passes; corrections in between | an atom is given up only for a better one |
| Collection and space: `pipeline/lifecycle/gc.py`, `vacuum.py`, `maintenance.py` | timestamps in meta, the pages of the file | delete what is past its window, VACUUM, incremental vacuum | rows referenced or reopened meanwhile; room on the disk; readers beside the log | only unused rows go; space comes back |
| Capture and extraction: `application/runtime.py`, `pipeline/extractor` | raw events, the persisted set of extracted ids per session, an LRU of such sets | capture, extract | the set is read before the LLM call and written after it; restart, eviction | no event is passed over, and each is extracted at last |
| Manual documents: `operations/retention.py` | a record and a recall policy in meta | review in bounded batches | LLM answers about documents and atoms that changed since | what is refuted stays out; "complete" is true; a review ends |
| Recall: `pipeline/recall` | a cache, a stack of entities per thread | recall with budget, suppression, diversification | a cache nobody invalidates | nothing retracted is shown for long; the budget holds |
| SQLite backend: `storage/backends/sqlite.py` | tables, triggers, text index; one connection, a lock | open and migrate, a statement or a transaction per call | openers that race or crash; threads on one connection | every row is searchable; a transaction is all or nothing |
| Postgres backend and pool: `storage/backends/postgres*.py` | shared tables with a namespace column; shared pools with leases | the same methods; migrate; acquire, borrow, release | rows of other namespaces; close against use; bounded pool | the same answers as SQLite; leases are on an open pool |
| Checkpoints: `storage/backends/sqlite_checkpoint*.py`, `pipeline/lifecycle/checkpoint_gc.py` | LangGraph rows, writes and blobs | put, prune, seal, collect, convert | prune against turns, failed seals | the conversation can be read back |
| Migration: `operations/migration` | tables by prefix, package files, journal | export, import, adopt, rename, copy | rows that do not convert, failures, crashes half way, retries, backups | a package on record brought every row it did not report |
| Host files: `application/host_files.py` | a row per file | poll, scan on request | files change between stat, read and write; scans overlap | the index never keeps an old text as current, and catches up |
| OpenClaw plugin and bridge: `plugins/openclaw/octopmemory/src`, `adapters/bridge/server.py` | a child process, pending promises | start, call, answer, exit | the child dies at any point; events out of order | one bridge; every call settles |
| Vector stores, LLM | external | | best effort | - |
| Service, dashboard, Hermes plugin, other commands | handles only | thin adapters | - | - |
| Types, configuration, prompts, parsers, headline, episodes' digests | none | pure functions, text or file I/O | - | - |

The components and their status are listed in `PROJECT.json`, with every
source file.  Its `hazards` are the places of the code where something can go
wrong that a test would hardly reach, with the properties that look at each.

## 2. Modules

| Module | Models | State, and the code it stands for |
|---|---|---|
| `EntityPage` | the life of pages | `page[e]`: the row in `entity_pages`; `facts[e]`: the live atoms of the entity; `journal[e]`: its journal rows; `regen`, `writer`, `editor`: the program counter and locals of each `regenerate_page`, of a writer between its two calls, of a user in `$EDITOR` |
| `PageContract` | what pages promise (abstract) | each page is `due` or not, and holds a body; a change of facts makes it due, a refresh is one atomic step |
| `DirtyQueue` | the order of `regenerate_dirty` | `dirty`, the order of `last_regen_at` and of `updated_at` as two sequences; `batch`: what the running call has left |
| `AtomStore` | atoms and all who retire or replace them | `atoms`: the atom table by id; `leaf`: the atoms with a tree leaf; `count`: `atom_count`; `sess`: where each worker, approver, corrector, deleter, consolidation, merge and fallback pass is, and what it has read |
| `ExtractCursor` | which raw events are extracted | `raw`, `extracted`; `cursor`: the set in meta; `objects`, `cache`: the set objects in memory and the one each runtime has in its LRU; `call`: where each extraction is |
| `CandidateQueue` | from a candidate to an atom, or not | `row`: status, age, target; `ents`, `aliases`; `atoms`; `journal`; `proc`: a promotion pass, a review session or a fallback run with the list it read |
| `Sql`, `SqliteTables`, `PostgresTables` | the statements of the two backends | one operator per method: a set of rows in, a set of rows and a result out |
| `BackendParity` | the two backends side by side | `lite[ns]`: the tables of a namespace; `pg`: the shared rows; `last`: what the last call returned on each |
| `SqliteBoot` | opening and migrating a file | `db`: columns, triggers, text index, stamps; `opener`: where each program is |
| `PostgresBoot` | opening a namespace, moving an old schema | `shared`, `legacy`, `backups`, `boot` |
| `SqliteSession` | one connection and its threads | `holder`: the lock; `written`, `durable`: the open transaction and what is committed; `fate` of each call |
| `PoolLeases` | the shared Postgres pool | `pools` with `refs`; `registry`; `lease`; `thread`: what each holds |
| `NamespaceRename` | rename and copy of a namespace | `file`: tables by name, with key and index; `plan` |
| `Checkpoints` | the checkpoints of a conversation | `cps`, `cwrites`, `subs`, `blobs`; `turn`; `pruner`: the row it read, or could not read, its victims; `lost`: rows were deleted above an unread row |
| `RowGc` | the collector against the writers | `state`, `cites`, `order` of candidates and atoms; `told`: the events episodes cite; `gc`: the pass and its lists |
| `SpaceReclaim` | pages, free pages and VACUUM | `disk`: mode, used and free of the database, `file` and `wal` as they lie on the disk, room; `job`: a check and the VACUUM after it |
| `Recall` | answers, their cache and their budget | `live`, `demoted`, `active`, `cache` with ages; `reader`: the recall that runs; `shown` |
| `ManualReview` | reviews of manual documents | `record`: the two meta rows; `review[r]`: what each running review holds; `doc`, `live` |
| `BundleTransfer` | packages between namespaces | `store`, `journal`: what a reader finds; `main`: the main file without its log; `packs`; `packer`, `adopter`: the running export and import; `gone`: what was purged |
| `HostFiles` | the index of host files | `disk`, `row`; `scan[s]`: what each scan saw and has left |
| `BridgeClient` | the plugin and its child process | `proc`, `exited`, `inbox`, `outbox`; `cached`, `starting`: the factory; `user`: where each caller is |
| `Storage` | the storage backends and what moves their rows: `SqliteBoot`, `PostgresBoot`, `NamespaceRename`, `SqliteSession`, `Checkpoints`, `BackendParity` | their variables, and `part` |
| `Services` | what hosts and users ask for: `Recall`, `BundleTransfer`, `AtomStore` twice, `HostFiles` | their variables, and `part` |
| `Upkeep` | work in the background: `PoolLeases`, `RowGc`, `SpaceReclaim`, `DirtyQueue`, `ManualReview`, `BridgeClient`, `HostFiles` | their variables, and `part` |
| `EntityPageProofs`, `AtomStoreProofs`, `ExtractCursorProofs`, `CandidateQueueProofs`, `ParityProofs`, `StorageProofs`, `UpkeepProofs`, `ServicesProofs` | proofs | section 4 |
| `MC*` | instances for TLC | section 3 |

One action is one backend call, one transaction, or one event handler, because
that is what the lock, the database and the event loop make atomic; the LLM
answers in an action of its own.  A crash is an action that drops the local
state of an actor and leaves the rows as they are.  Statements on a row are
operators of their own (`Marked`, `Regenerated`, `Superseded`, ...), with the
`WHERE` clause as a predicate (`Current`, `Supersedable`).  Next to some
definitions stands one with a defect ("Defect:" or "Mutant:" in its comment);
no action uses it.  It is what the code would be after a plausible mistake, and
the property it breaks is named in `PROJECT.json`.

**Data.**  A page body is the set of facts it was generated from and the user's
notes block; an assertion is a number or a name, with `Near` and `Opposite` for
what the duplicate and the conflict checks answer; importance, confidence and
`occurred_at` are one rank; ids and `created_at` are one number.  A file's size
and time, and its text, are the number of its last change.

**Composition.**  The modules cut the system where rows are handed over:
`ExtractCursor` ends where candidates are filed, `CandidateQueue` begins there
and ends with an atom; `AtomStore` takes the writers of atoms apart and leaves
pages out; `EntityPage` takes the facts of an entity as a set that writers
change, in one transaction (`CommitFacts`), in two calls (`ChangeFacts`,
`MarkChanged`), or without a mark (`ChangeFactsUnmarked`).  `BackendParity`
composes the two backends, `SqliteTables` and `PostgresTables`.  `EntityPage`
implements `PageContract` under the mapping `Contract` (`due` is "dirty, or
owed a mark, or saved from an old editor").

## 3. Runs

| Run | Instance | What it shows |
|---|---|---|
| `page` | 1 entity, 2 facts, 1 atom per page, 2 regenerators (symmetric), 1 two-step writer, 1 editor, revisions to 2 | a clean page shows the newest facts; notes survive; late results change nothing; the journal is never ahead of the page; the contract is implemented |
| `cursor` | 2 events, 2 processes with a thread each, 2 restarts or evictions | no event is passed over, and each is extracted at last |
| `atoms` | 1 entity, 3 texts, 4 atoms; a creator, a worker, an approver, 2 correctors | counts and leaves are exact, a successor is final |
| `atoms_cleanup` | 2 texts, 2 ranks, 4 atoms; a creator, a worker, a corrector, 2 consolidations | an atom is given up only for a better one |
| `candidates` | 2 candidates in six scenes (a user with and without a name, a denial, a repeated assertion, one without evidence, small talk), 2 processes, up to 2 requests of users, a crash | what is marked promoted has its atom and journal row; a candidate is decided once, and at last |
| `storage` | six models, below | stores of every age open whole; transactions are all or nothing; checkpoints read back; both backends answer alike |
| `services` | five models, below | what was refuted or retracted stays out of answers; a package on record was imported but for the rows reported; successors end; no old text stays in the file index |
| `upkeep` | seven models, below | work in the background gets done, and does no harm |
| `atoms_circle` (violation) | a consolidation, a merge and a fallback pass | two twins give each other up: no live atom is left |
| `prune_blind` (violation) | `Checkpoints`, no turn beside the prune | a prune that cannot read the newest row deletes what that row is read from |
| `prune_live` (violation) | `Checkpoints` with `LiveTraffic` | a prune during a turn deletes the writes the next row is read from |
| `sweep_live` (violation) | `SqliteSession` with `LiveSweep` | a collector's commit makes half of another thread's transaction durable |

**Sums.**  `Storage`, `Services` and `Upkeep` each hold several models; `part`,
chosen at first and never changed, says which of them runs, and the variables of
the others keep their first value.  The models share no variable (but the two
instances of `AtomStore` in `Services`, of which `part` says which one is meant),
so a behaviour of the sum is a behaviour of one of them, and a property of the
sum (a conjunction, or one model's property) says of each model what its own
property says.  `MCStorage`, `MCServices` and `MCUpkeep` extend them with the
values of the constants; where a model that does not run could start in more
than one way, `MCSpec` gives it one first state.  Where a property is about
liveness the sum states `X!Fairness => X!Property` and has no fairness of its
own: in a behaviour of another part either an action of X that is fair stays
enabled and is not taken, and then there is nothing to show, or X's first state
has nothing to wait for.

| Part | Instance | Its share of the run's properties |
|---|---|---|
| storage / sqlite | 2 openers, 2 rows; a new file, one from before the first migration, one with triggers of both names; 2 crashes | `SqliteOpensWhole` |
| storage / postgres | 2 namespaces with one backup name; four kinds of old schema; a purge | `PostgresOpensWhole` |
| storage / rename | namespaces `a`, `a_b`, `x`; 2 plans | `AtomsSearchable`, `RowsSurvive` |
| storage / session | 2 calls, 2 transactions of 2 calls each, a collector at rest | `AllOrNothing` |
| storage / checkpoints | 5 ids, 4 messages, 1 value of the large field; prunes between turns, with failures and ends at each step | `CheckpointsRead`, `PruneKeepsHistory` |
| storage / parity | 2 namespaces, 2 ids, 2 texts, 2 times; eleven groups of tables; 4 calls (SYMMETRY over namespaces, ids and texts, which nothing else names) | `SameRows`, `SameAnswers` |
| services / recall | 2 entities with an atom each, 3 events, a query by name and one that says "that project"; cache of 1 entry, room for 1 atom and 1 raw event | `RefutedStaysOut`, `AnswerIsFit` |
| services / bundle | 2 namespaces, an entity with an atom, 2 packages | `AdoptedMeansImported` |
| services / merge, curate | `AtomStore` with a corrector, a merge, a fallback pass; with a creator, an approver, a deleter, a consolidation | `SupersessionEnds` |
| services / files | 1 file, a poller and a request, 3 edits, a scan cut short | `UnchangedIsCurrent` |
| upkeep / pool | 3 backends, 2 threads, 1 connection, 2 pools | `SharedByAll`, `EveryOperationEnds` |
| upkeep / gc | 2 atoms, a candidate, an event, a window of 1 row | `NothingUsedIsCollected`, `ExpiredIsCollected` |
| upkeep / space | 2 pages in use and 2 free at most, disks of 0, 4 and 8 pages, a margin, a write-ahead log | `SpaceComesBack` |
| upkeep / queue | 3 pages, 1 hopeless, batch of 2, 2 marks | `NothingIsLeftBehind` |
| upkeep / review | 2 reviewers, 1 atom, 2 attempts, an edit | `ReviewIsTrue`, `ReviewEnds` |
| upkeep / bridge | 2 callers, 2 processes, 2 calls each | `SharedByAll`, `EveryOperationEnds` |
| upkeep / files | 2 files, a poller, 2 edits, a scan cut short | `NothingIsLeftBehind` |

**Why these bounds.**  Nearly every hazard is a race of two actors over one
row: it needs two actors of the kinds concerned, one row they fight over, and
room for what each writes.  `MaxVersion` = 2 lets a page be marked, regenerated
and marked again while an attempt that read the first revision is still out;
`MaxAtoms` of a page is 1 and there are 2 facts, so that *newest* differs from
*all*.  Two events tell a call's new events from those it skips, and
`MaxDrops` = 2 lets both processes start anew from what the other wrote.  The
batch in `upkeep` has one place more than there are hopeless pages; with as many
the property fails (section 5).  A pool of 1 and 2 threads makes one wait for
the other, and an operation that wants a second connection for itself; one value
of the large field is enough to lose a blob that a second row needs.  Two
packages let one carry what the other's adoption left out.  Four calls are enough to save, change,
and reach the same row from another namespace.  Two processes of the bridge let
one die and another be started.  Two files let one stand in the way of the
other; a file edited while two scans run needs no other file, and has three
edits.  Bounds that only keep numbers small: `MaxCount`, `MaxCrashes`,
`MaxPurges`, `MaxPlans`, `MaxTime`, `MaxStops`, `MaxSpawns`, `MaxCalls`,
`MaxMarks`.  Deadlock is not checked where a model has nothing left to do once
its bounds are reached and its actors are idle, as the program has nothing to
do until a host calls it; in `candidates` days go on passing, and it is.

**Fairness**, and what in the code justifies it:

- `DirtyQueue`: `WF` of a tick and of a batch's steps.  Hosts call
  `regenerate_dirty` after each extraction and from the CLI; each LLM call ends
  with an answer or its client's timeout.  Nothing obliges a writer to mark.
- `ExtractCursor`: `WF` of a call's steps, for hosts extract after every turn;
  `SF` of an answer and of the commit, which is what "after the LLM endpoint
  recovers" in `application/runtime.py` supposes.
- `CandidateQueue`: a process that runs goes on (`WF`); promotion passes and
  fallback runs are started again and again, though crashes and other passes
  come between (`SF`); days pass.
- `PoolLeases`: a thread that has what it needs goes on; `SF` of a borrow, for
  a psycopg pool serves waiting threads in turn.  A thread may give up waiting
  (`GivesUp`: PoolTimeout, TooManyRequests); nothing rests on that, it is not
  fair.
- `RowGc`: maintenance is run again and again by hosts, and a pass goes on; `SF`
  where writers come in between.
- `SpaceReclaim`: `WF` of the end of a transaction, for the backend commits or
  rolls back.  `SF` of a nudge that folds its pages into the main file, for ticks
  come again and again and readers are not always in the way; of the check in a
  window of rest; and of VACUUM: with the file to itself and room enough at last,
  an attempt made again and again succeeds.
- `ManualReview`: hosts start reviews again and again: after a save
  (`application/runtime.py:171`) and from the scheduler of the service
  (`service.py:122`).  One that runs goes on, and the hour of a deferral ends.
  `ReviewEnds` is therefore about reviews that keep being run.
- `BridgeClient`: the event loop handles every event and the process answers
  every line or dies; nothing obliges callers to call.
- `HostFiles`: the polling thread goes on.  Edits end by `MaxEdits`, and the
  property itself supposes that files can be read from some time on.

**Named gaps in the properties.**  `CleanPageIsCurrent` holds except in two
situations that the code allows, which history variables name: `owed`, facts
changed and the page not marked yet (a crash there makes it permanent, and the
fallback pass and the source of a merge never mark it), and `forked`, an editor
saved over a body newer than the one it opened.  `IndexedOnce` excepts `torn`, a
crash between dropping triggers and rebuilding while another program has the
store open.  `LeasesShareOnePool` excepts pools that a finalizer closed between
`_registry.get` and `refs += 1` (`unlucky`): the registry lock is re-entrant, so
the garbage collector may release the last lease inside `acquire_pool`; the
lease then is on a closed pool.  `AtomsSearchable` excepts tables of `a_b` that
a rename of `a` took along (`swept`).  `NothingUsedIsCollected` excepts rows that
were reopened, and events that were newly cited, after a pass had listed them
(`raced`): the code deletes those; and it speaks of what candidates and atoms
cite, not episodes, whose events the code deletes as well (section 5).
`ExpiredIsCollected` is about rows within the window of `MaxRows`.
`TranscriptKept` (in `CheckpointsRead`) excepts a conversation that lost rows
above a newest row that could not be read (`lost`): `prune_blind` shows it.
`AdoptedMeansImported` excepts the rows that the import reported: they are
missing, and the retry is refused, for the adoption is on record.  `DecidedOnce`
excepts candidates that two processes held at once or whose decision a crash cut
in two (`contested`).  `CountIsExact` and `LeavesAreLive` are of runs without
those who retire atoms in several calls.

## 4. Proofs

The theorems hold for every value of the constants that the named assumptions
of the modules allow: finite facts, natural bounds, distinct notes, names of
calls that differ from names of transactions, and the like.  Each says which
property of which run it states (`PROJECT.json`, `theorems`).  None of the
properties is inductive alone; what was needed to make it so is the argument.

- `EntityPageProofs`: `TypeOK`; `CleanPageIsCurrent`; `UserNotesSurvive`;
  `LateResultIsInert`; and that `EntityPage` implements `PageContract`.  The
  invariant behind them, `SnapshotsValid`, says of each attempt that holds a
  snapshot: the revision it read is not in the future, and *if it is still the
  current one* then the facts it read are the newest ones (or a mark is owed),
  the notes it kept are the page's, and nobody overtook it.  Each writer either
  bumps the revision, which makes the claim about all attempts vacuous, or leaves
  what it speaks of alone.  `JournalNeverAhead` compares cardinalities, so
  `JournalInv` adds that the rows due are finitely many: any number of actors may
  exist, and a step adds at most one.
  Every implementation of the contract keeps a page that is not due at the newest
  facts (`ContractKeepsPagesFresh`, by `ContractShape`), so `EntityPage` does
  (`PagesAreFresh`).
- `AtomStoreProofs`: `TypeOK` with all actors.  `SuccessorIsFinal` when there
  are no merges, from `SupersededIsDead` (an atom with a successor is not live,
  and only live ones get one).  `LeavesAreLive` and `CountIsExact` when only the
  transactions write (`TransactionsOnly`: no deleters, consolidations, merges,
  fallback passes), from `OldIsOfEntity` (what an approval or a correction
  replaces is of the entity it adds to).  `SuccessorOutranks` without approvals
  and merges (`NoApprovalNoMerge`), from `PlansOutrank` (the keeper a
  consolidation holds outranks each of its losers, whatever became of them).
  `SupersessionEnds` when one session at most plans ahead, a consolidation or
  a merge (`OnePlanner`), with any number of creations, promotions, approvals,
  corrections, deprecations and crashes: everybody but a planner retires an
  atom for a new one, which has no successor.  A planner names an old one; but
  the atoms that its plan keeps, and those that came after the plan was made,
  have been superseded by still later ones only (`PlansAreOld`), so that a chain
  which leaves the plan by a keeper does not come back to it.
  The hypotheses are needed: section 5 says what happens without them.
- `ExtractCursorProofs`: `TypeOK` and `NothingIsSkipped`, from
  `AnswersAreEarned` (a call about to commit marks only what was extracted
  before and what it commits itself).  The cursor may lose ids when two
  processes overwrite each other's, so it is not monotone; what it holds was
  extracted all the same.
- `CandidateQueueProofs`: `QueueType`; `PromotionHolds`, from `Handled` (what a
  process is about to write down is so: the atom it will name is there, says the
  same or came of that candidate); `DecidedOnce`, from `Once`: one process at
  most has a candidate that is not contested, and while it has yet to decide
  there is no atom of it; a list has no candidate twice, nor the one at work
  (`Tidy`), without which a process would meet its own atom again.
- `StorageProofs`: `SqliteOpensWhole`, from `LiteInv`: nobody is past the
  rebuild but with a current file; those who rebuild have dropped the triggers of
  both names, and when the last of them has made the new ones they are there;
  and an opener that is alone finds missing what it found missing.
  `PostgresOpensWhole`, from `CopiedWhole`: one old row that no program wrote, in
  the shared tables, means that all came.  `AllOrNothing`, from `SessOwnWrites`:
  what is not committed was written by the one that has the lock.
  `AtomsSearchable` and `RowsSurvive` of `NamespaceRename`, for any names of
  namespaces, those that begin alike too, from `MoveInv`: a namespace has its
  table of atoms when it has its meta table, in the file, in a plan and among a
  plan's conflicts (`Paired`); a plan, however old, moves no table onto another
  of its own that it did not find in conflict (`PlanFits`); and the atoms of a
  namespace whose meta says "current" are indexed (`Searched`), so that an open
  that skips the rebuild is right to.  Two tables never move to one name
  (`MovedApart`), which is what makes the steps of a plan lossless.
  `CheckpointsRead` and `PruneKeepsHistory` of `Checkpoints`, for rows and messages
  of any number, from `CkptInv`: the newest row tells all that was said (`Told`),
  turns and prunes take turns, what is about to be sealed is all that was said, and
  what a prune is about to delete leaves a newest row that has its messages
  (`CkptRoles`).  The walk of ancestors, in `Replay` as in `Dependencies`, is stated
  as the least set closed under it, so that no induction over the length of a chain
  is needed: two walks that meet the same rows are each within the other
  (`WalkSame`), and what the offline prune keeps is closed under the walk of every
  row in it (`PruneReplay`).  The theorem takes, as the run does, that no turn runs
  while rows are pruned; `prune_live` shows what happens otherwise.
- `ParityProofs`: both backends agree after any calls, for any namespaces, agents,
  ids, texts and host times.  The invariant, `Paired`, says what the shared tables
  are: the rows of every namespace, each *dressed* with the column (or, in meta, the
  prefix of the key) that names its namespace, and no others.  Each method then
  has a lemma, `...Alike`: its two statements, one on the rows of a namespace and
  one on the dressed rows of all, return the same and leave the dress in place;
  and each query one, `...Same`.  Some statements are not the same text: SQLite looks
  up a digest by id where Postgres has its period, which needs ids to tell digests
  apart (`Keyed`); and what a migration or a list keeps among equals is unique
  because atoms have times of their own, one call making one atom at most.
  `StorageProofs` takes `SameRows` and `SameAnswers` of the composition from it: its
  calls are calls of `BackendParity` (`SameSteps`), the other parts leave both
  backends alone.
- `UpkeepProofs`: `SharedByAll` for any number of backends, threads and bounds:
  `refs` is the number of leases on the pool (`PoolCounts`), each operation has
  the lock of a backend with a lease (`PoolHeld`), and while no finalizer
  interferes the one open pool is the registered one (`PoolLucky`); the one
  process of a plugin that may live is the one it keeps or waits for
  (`BridgeInv`).  `NothingUsedIsCollected`, from `GcInv`: each row listed is still
  expired, or was touched after the pass had looked; and an event that a stored
  candidate or atom cites is there.  `ReviewIsTrue`, from `ReviewInv`: a record, and what each
  review carries over from it, speak of atoms that once lived; those that still
  do and that the current document contradicts are uncertain or were never
  checked; a retracted atom does not come back.
- `ServicesProofs`: `UnchangedIsCurrent`, for any number of files, pollers and
  requests; the argument is one of order: what a scan saw of a file is no newer
  than the text it read after, which is no newer than the file, so a row whose
  time is that of its file has its text (`ScansOrdered`, `RowsOrdered`).
  `AdoptedMeansImported`, from `BundleInv`: what a record claims, rows that were
  not reported, is there or purged, in what a reader finds and in the main file
  alone, and in the backup of a running import; what the import has done is there
  too; and a record that is in the log only is read beside the rows that are.
  So a restored backup takes no row away and leaves its record.
  `RefutedStaysOut` and `AnswerIsFit`, from `FindInv`: every list of snippets, in
  the reader, in an entry of the cache and in the last answer, *suits* the policy
  and the time it was made under (no evidence of what was demoted when it began,
  nothing retracted before the time it was made, save by a vector left behind),
  and an entry expires one TTL after.  That a prompt is within its budget is an
  argument about maxima: the last of the kept snippets in the ranking was
  charged when all the others had been.  `Recall` therefore states the list
  stages of the pipeline as sets that a ranking cuts out (`Diversified`,
  `Distinct`, `Charged`) and not as recursive walks of a list.

Only model-checked is *liveness* under fairness, which is out of the prover's
reach: `EveryEventIsExtracted`, `OpenIsDecided`, `EveryOperationEnds`,
`ExpiredIsCollected`, `SpaceComesBack`, `NothingIsLeftBehind`, `ReviewEnds`.  Of
the safety properties the runs check, each has a theorem; those of `AtomStore`
hold for the actors that the theorem names, as in the runs.

## 5. Where the code and its text, or its intent, differ

Checked by a run and listed under `findings`: `atoms_circle`, `prune_blind`,
`prune_live`, `sweep_live`.

The following TLC finds as well, when the property is named in a configuration
of the module (the properties that no run lists stand in the modules; the
instances are given here):

- *Counts drift.*  `AtomStore!CountIsExact` with two `Retirers`: both see the
  atom live, both deprecate it, and the count is lowered twice (`core.py:521`).
  `LeavesAreLive` with one: between the calls of `delete`, and for good when it
  dies there, an atom is live and has no leaf (`core.py:263`).
- *A starved page.*  `DirtyQueue!HealthyPageGetsClean` with a batch of 1 and 1
  hopeless page: a page that was regenerated once and fails ever since keeps the
  oldest `last_regen_at`, is listed first each time, and no other is reached
  (`sqlite.py:1779`).  So do as many new pages that fail as the batch has places,
  for pages that were regenerated.  The docstring of `regenerate_dirty` promises
  no more than that the batch goes on, which it does.
- *Twins.*  With two `Workers`, both pass the duplicate check before either
  writes, and two equal atoms are live (`pipeline/promotion/__init__.py:243`).
- *Moved after correction.*  With a `Replacer` and a `Merger`, a merge moves or
  supersedes an atom that was corrected since it was read
  (`sqlite.py:1405`): `SuccessorIsFinal` fails.
- *Two Users.*  `CandidateQueue!OneUser`: the review command and the worker, or
  two workers, each create the User entity (`pipeline/promotion/checks.py:322`,
  `adapters/cli/candidate_cmd.py:598`).
- *Unsearchable episodes.*  `NamespaceRename!EverythingSearchable`: episodes have
  no entry in the list of text indexes a rename recreates.
- *A pronoun and the cache.*  `Recall!PronounIsCurrent`: the cache is looked up
  before the thread's entities are, so "that project" is answered about the
  previous one (`pipeline/recall/__init__.py:430` against `thread_state.py:18`).
- *Packages.*  `BundleTransfer!PackIsClosed` with two entities: tables are read
  without a snapshot, so an atom may be packed without its entity
  (`export.py:286`).  `RestoreUndoes`: the backup is a copy of the main file, and
  is copied over it beside the log and under open connections: rows that the log
  holds stay, the rest is as in the backup, which may be less than what was read
  before (`adopter.py:411`).  `PurgedStaysGone`: an atom that was retracted and
  purged comes back with the next package that has it.  `RefusedWasAdopted` with
  three namespaces and two packages: an imported journal holds others' adoptions,
  and a package never adopted is refused as adopted.  Also, an adoption is journaled
  whatever the import reported (`adopter.py:440`, `import_.py:371`), so a package
  with rows missing is on record, and its retry is refused.
- *Events of episodes.*  `RowGc!EpisodesKeepTheirEvents`: episodes keep the ids
  of their raw events for traceability (`types.py:391`), and a pass counts the
  citations of candidates and atoms only (`gc.py:259`), so it deletes old events
  that episodes cite.
- *A full window.*  `RowGc!EveryExpiredIsCollected`: a pass lists
  the newest `MaxRows` rows; an expired row behind that many which stay is never
  deleted (`gc.py:68`).
- *A bridge that died stays dead.*  `BridgeClient!BridgeComesBack`: the factory
  keeps the client that started, whose `start` returns its old promise; every
  later call fails until the host restarts the plugin.
- *One unreadable file.*  `HostFiles!OthersCatchUp`: a file that cannot be read,
  or vanishes before it is read, raises in `scan_once`.  The thread goes on, but
  that scan ends; if the file stays so, files after it are never indexed and
  deletions never made.  At the start of the server it ends the bridge.  A file
  that became binary keeps its old row.

Read in the code and not checked: the fallback pass adds an atom and then changes
the status, so that after a crash in between the next pass promotes the candidate
again (`pipeline/promotion/fallback.py:134`); the room asked for before a VACUUM is that of
file and log plus a margin, while VACUUM in WAL mode writes a copy and then every
page again to the log (`vacuum.py:450`), up to twice the pages in use, so that a
checked VACUUM may fail for room (`SpaceReclaim` has that failure; it is tried
again, and the file stays as it was); the fallback pass and the source of a merge
change facts and never mark the page, against `src/docs/agent/PROJECT_MAP.md`;
the fallback's docstring says that importance and confidence are both forced
low, and `_downgrade_for_fallback` keeps importance (`fallback.py`); a twice
rejected assertion that was escalated to needs_review is promoted by the
fallback pass after seven days; `merge_user_notes` keeps a notes block made up
by the model when the user has none; `merge_entity` does not reset the count of
its source when every atom was a duplicate; `with_deadline` waits for the worker
it gave up, because the executor's context manager joins it
(`pipeline/recall/timeout.py:71`, against its docstring); the raw policy
"always" overruns the token budget (`budget.py`); a deprecated atom keeps its
vector, and recall by vector does not filter it; two programs that add one
column to an old file collide, and the second fails to open; an old Postgres
schema with neither raw events nor nodes, whose backup name is taken, is copied
again and no boot succeeds any more; meta (with the extraction cursor) is
neither copied from an old schema nor purged; a namespace copied without the
primary key of meta cannot be opened; rejecting a conflict candidate does not
unblock the evidence its review blocked.

## 6. What the models leave out

- *Pages*: the prompt and the parsing of the answer.  *Atoms*: the tree above
  the leaves, aliases, search.
- *Candidates*: the branch of `_approve_one` for manual revisions; evidence and
  value are a static attribute; `merge_entity` is one step here and several in
  `AtomStore`; the lists users page through.
- *Parity*: full-text search, collation beyond ASCII case folding, times of
  more than one UTC offset (SQLite compares them as text), transactions; a
  `SELECT` without `ORDER BY` gives rows in the order of insertion; a parent
  node has to exist on Postgres only, and the calls made create parents first.
- *Opening*: one searchable table stands for the five.  *Checkpoints*: the
  graph and its saver are external; the progress records of the offline job.
  That a thread handed to `prune_completed_threads` is completed is its caller's
  word, and is `turn.pc = "idle"` here; whether a turn is finished the other
  prune decides from the newest row, here as in the code.
- *Collection*: the window of journal rows; Postgres, where collection is a
  no-op, and its VACUUM.  The temporary copy of a VACUUM is taken to be on the
  disk of the file, and what PRAGMAs do is external.
- *Recall*: per-source limits, manual context, time windows, episodes as a
  source, the ranking; a recall takes no time against the life of the cache.
- *Reviews*: `audit_runtime_errors`; the model is right when it is certain; on
  Postgres at READ COMMITTED the compare-and-swap on meta is not atomic.
- *Packages*: which version of a row that is there `on_conflict` leaves; checksums,
  inspection, the search for databases, backfill (a
  crash between its extraction and its promotion skips the session's next
  time); tables that are not exported.
- *Bridge*: `stop`, which nothing in the plugin calls; timeouts, which the
  calls do not have; the handlers.  *Host files*: the schema and text search of
  the index, the choice of paths.

Components not modelled, and why: prompts, parsers, headlines and rendering
(text); the LLM and the vector stores (external, nondeterministic answers
here); episodes (best effort, after the commit `ExtractCursor` models; their
tables are in `BackendParity`, and that they cite events in `RowGc`); service, dashboard, Hermes plugin and most of
the command line (they read, or delegate to operations modelled elsewhere);
configuration and path projection (read once, or pure); evaluations.

## 7. What is left

A composition worth stating: `ExtractCursor` and `CandidateQueue` with the
promotion that follows the commit, under the abstract specification that an
event is pending, filed or decided.  Coverage: the recall filters that
section 6 lists.
