# vbuff: specifications, model checking and proofs

vbuff is a clipboard manager: a resident process that watches the system clipboard,
decides what may be kept, keeps it in a local database, and pastes a chosen clip back into
the application the user came from. This directory holds TLA+ modules translated from its
source, TLC configurations that check them on small instances, and proofs, checked by
TLAPS, that the properties that matter most hold for every value of the constants.

`PROJECT.json` ties the two together: `map` gives, for every definition that models code,
the lines it stands for; `hazards` lists what is hard to test and which property watches it.

## 1. Inventory

### Threads and processes of the running program

| Thread | Code | What it owns | Whom it talks to |
|---|---|---|---|
| event loop | `src/src/app.rs`, `vbuff-gui` | window, tray, `PasteCoordinator`, settings | history (blocking calls), clipboard, capture worker (atomics, `Diagnostics`) |
| capture worker | `src/src/capture.rs` | `last_hash`, retry and skip bookkeeping | clipboard (read), self-write ledger (mutex), history (insert) |
| capture supervisor | `capture.rs`, `vbuff-core/src/reliability.rs` | the recovery ladder | restarts the worker |
| maintenance loop | `src/src/maintenance.rs`, `memory_pressure.rs` | pressure level | history (`refresh_for_memory`, `maintain_idle`) |
| store owner | `src/src/store_owner.rs` | the only `Store` | runs closures sent over a channel, in order |
| search worker | `src/src/history_search.rs` | the pending query, a mailbox of one result | store owner |
| capture watchdog | `src/src/capture.rs` | nothing; reads the worker's heartbeat | the displayed health |
| single-instance listener | `src/src/single_instance/` | a socket | event loop |

Other processes matter as much: applications that copy, take the focus and exit whenever
they like, between any two calls the program makes.

### Components

| Component | State | Operations | What makes it hard | What makes it correct |
|---|---|---|---|---|
| Paste coordinator (`paste.rs`, `confirmed_paste.rs`) | target application, armed stage, guard fingerprint, due instant | `prepare_target`, `copy`, `schedule`, `poll`, `cancel_*` | the desktop moves between the calls of one poll | the keystroke serves the paste the user waits for, or is not sent |
| Capture worker (`capture.rs`) | last hash, last shed, last skip, explicit recovery | one turn: pause, read, recover, gate, shed, insert | the clipboard and the ledger change under it; every step can fail | a settled copy is stored in the end; nothing is forgotten silently |
| Self-write ledger (`capture/ledger.rs`) | bounded queue of hashes with expiry | `register`, `matches`, `prune` | written by one thread, read by another, with a clipboard write in between | the program's own writes are not captured |
| Supervisor (`reliability.rs`) | two counters | `observe` | alternating kinds of failure | escalation on time |
| Gate (`capture/policy.rs`, `trust/secrets.rs`) | none | `decide`, the recovery override | the order of a dozen early returns | secrets are contained whatever branch stores them |
| History (`history.rs`, `history_presenter.rs`) | volatile lane, origins, undo slot, snapshot version | insert, delete, restore, clear, pin, refresh, maintain; presentation | three threads hand over snapshots in any order | the window shows the store and the lane; secrets never reach the database |
| Clip store (`duckdb_backend.rs`, `ttl.rs`) | rows, flags, grace bin, vectors, bloom filter, cursors | insert/dedup, nine ways of deleting, grace bin, clawback, backfill, reopening | several commits per call, crashes between them | held rows stay, privacy only tightens, sealed clips are recoverable |
| Blobs (`cas.rs`, `blob_refs`) | files, reference counts | spill, remove, gc, scrub | files and rows commit separately | no row without its file |
| Retention (`lifecycle.rs`) | rules | candidate queries, bounded passes | limits shared by rules, deferral without a key | the report tells what remains |
| Data lifecycle (`data_lifecycle.rs`, `duck_migration.rs`) | collections, quarantine, backup state, migration files | import staging, export, backup, migration | crash between two steps | nothing lost, nothing silently admitted |
| Single instance | socket, lock | acquire, take over, activate | stale sockets, two starts at once | one instance; the second one's request is answered |
| Search worker | one pending query | replace, run, deliver | answers to superseded queries | the newest query's answer is shown |
| Updates (`vbuff-update`) | rollback state on disk | verify, stage, commit | crash between writes | never back to an older version |
| Synchronisation (`vbuff-sync`, not linked yet) | clocks, registers, membership epochs, outbox | merge, join, remove, drain, acknowledge | reordering, duplication, concurrent edits | replicas converge; removed devices stay out |
| Local interfaces (`vbuff-ipc`) | tokens, callbacks, rate limits | issue, use, revoke, expire | late answers, clock steps | each grant is used once, in time, by its holder |
| Plugins (`vbuff-plugin`) | budgets, restart counters | run, time out, restart | a plugin that fails for ever | others keep running |
| Window (`vbuff-gui`) | selection, filters, confirmations | events and key presses | a snapshot replaces what is selected | an action hits the clip the user saw |

Pure text work (classification, the detectors' grammars, fuzzy ranking, rendering,
packaging, localisation) keeps no state and is outside the models; `PROJECT.json` lists
every part with its status and the reason.

## 2. The modules

A component has a module with its state as variables, one action per operation, and its
properties at the end. The `MC...` modules give the constants their values. Several of them
compose modules that share no state: a variable `part` is chosen at the start, one part
moves, the others rest in one of their initial states. Such a run explores the sum of its
parts, not their product, and answers one question about all of them.

| Run | Module | Parts |
|---|---|---|
| `pasteflow` | `MCPasteFlow` | `paste` (PasteFlow), `list` (HistoryWindow), `start` (SingleInstance) |
| `capture`, `capture_settle`, `capture_starter` | `MCCaptureLoop` | CaptureLoop, with the ledger, over CaptureSupervisor |
| `gate` | `MCUserSide` | `gate` (CaptureGate), `popup` (PopupActions), `queue` (PasteQueue), `settings` (Settings), `updates` (UpdateVerifier), `query` (QueryGrammar), `search` (RecallScan), `answers` (StoreQueries) |
| `gate_memory`, `gate_recovery` | `MCCaptureGate` | CaptureGate over CapturePolicy |
| `history` | `MCHistorySnapshots` | HistorySnapshots |
| `store`, `store_cap` | `ClipStore` | ClipStore |
| `sync` | `MCReplicaSync` | `replicas` (ReplicaSync), `group` (TrustedGroup), `plans` (SyncPlans), `outbox` and `burn` (Handoffs), `mirror` (SnippetMirror), four users of one-shot messages, `quota` and `stream` (ClientGuards) |
| `upkeep` | `MCUpkeep` | `patience` (SupervisorPatience), `watchdog` (CaptureWatchdog), `blobs` (BlobStore, refining ClipBytes), `retention` (RetentionPass), `lifecycle` (ClipLifecycle), `maintenance` (StoreMaintenance), `sqlite` (SqliteStore), `upgrade` and `import` (Migrations) |

A property of such a run is a conjunction of the parts' own, named for the promise they make
together; its definition, in the MC module or at the end of the part's module, lists them.

### PasteFlow: pasting back

`PasteFlow` models `PasteCoordinator`, the handlers of the event loop that drive it and
`ConfirmedPaste`. The coordinator runs on one thread, but the desktop does not wait for it:
`AppCopies`, `FocusMoves` and `AppExits` may happen between any two actions. The due poll is
cut at each of its system calls by `pc` (confirm the foreground window, re-read and compare
the clipboard, confirm again, send the keys), because this is where a stale check would
matter. Instants are the ticks that remain. `intent`, `written` and `raced` are ghosts: what
the user waits for, the clip of the latest `copy()` (none if it failed), and what the desktop changed
after the poll's own last check of it. A `copy()` that fails may have left the clipboard as it was,
left something else, or placed the clip all the same (`CopyFails`): the backend can fail after the
write, or answer a sensitive one with a receipt `copy()` does not accept.

| Run | Properties | What it shows |
|---|---|---|
| `pasteflow` | `TypeOK`, `KeystrokeServesIntent`, `ArmedOnLatestWrite`, `UnexcludedIsNeverPasted`, `UserIsAnswered` (`ArmedPasteIsAnswered`) | Every interleaving of two applications, three clips (one sensitive, one unverifiable) and the calls of the coordinator; an armed paste ends, whatever the target does |

`KeystrokeServesIntent` excuses only what happened after the final check of the very thing
that changed: that gap cannot be closed by the program, every other one is. A sensitive clip may
end up on the clipboard without the exclusion, but only by a write that was reported failed, and
then no keystroke is armed over it (`UnexcludedIsNeverPasted`).

### CaptureSupervisor, CaptureLoop: capturing

`CaptureSupervisor` is the ladder re-subscribe, restart, degrade. `SupervisorPatience` runs
it under every sequence of observations with the source's limits and counts what happens.
`CaptureLoop` composes it with the worker, with the ledger (a sequence of entries, pruned from
the front only) and with the paste coordinator's `copy()`, which holds the ledger's mutex while
it writes the clipboard and registers the write. A worker's turn is cut after the pause check, after the read, before
it takes the mutex, and at the insert. The gate's verdict on a content is the constant
`Verdict`: `CapturePolicy` says how it comes about.

| Run | Properties | What it shows |
|---|---|---|
| `upkeep`, part `patience` | `PatienceIsBounded` | With the limits of the source, degraded mode is reached in time whatever mixture of failures |
| `capture` | `CaptureSafety` (types, `RememberedIsAccounted`), `SelfWriteNotRecaptured`, `OneRecoveryPerClick` | A clip vbuff wrote is not captured while its entry is due, wherever lock, write and registration fall; the worker stops looking at a content only when its capture or skip was recorded |
| `capture_settle` | `SettledCopyIsStored` | A copy left on the clipboard is stored in the end |
| `capture_starter` (violated) | `SelfWriteNotRecaptured` | A starter-pack clip reads back under another hash than the one registered |

### CapturePolicy, CaptureGate: the gate

`CapturePolicy` is the decision, in the order of the source's early returns, on a record of
the evidence the gate looks at; text is reduced to the set of secret kinds a detector finds
in it. `CaptureGate` is one read, judged and, when the skip may be recovered, judged again
on a second read whose evidence may have changed.

| Run | Properties | What it shows |
|---|---|---|
| `gate` | `GateFailsClosed` (`SkipModeDemandsProof`, `RefusedEvidenceIsFinal`), `FindingsAreHonoured` (`SecretsAreContained`, `FindingsOnlyTighten`, `ToggleSparesOneTimePasswords`) | All combinations of evidence, policy and findings of three kinds |
| `gate_memory` (violated) | `OneTimePasswordsStayInMemory` | Guard mode with a rule armed and provenance unknown stores a one-time password in the database |
| `gate_recovery` (violated) | `GenericSkipIsRecoverable` | On a backend that proves nothing, a skip in Skip mode cannot be recovered |

### HistorySnapshots: what the window shows

Three threads use one `History`. Each operation is cut where the code gives up a lock or
waits for the owner thread (queued, loaded, merged, published), and the owner runs
the queued jobs in order. A snapshot is the set of its clips: the order of rows and the
length of the snapshot are abstracted. Which row is the oldest is left open.

| Run | Properties | What it shows |
|---|---|---|
| `history` | `Converged`, `HistorySafety` (types, `SecretsNeverStored`) | Two secrets that are twins and two durable clips, jobs that fail before, between or after their commits: the window ends up showing the store and the lane, and no eviction, undo or clone brings a secret to the database |

`owed` is a ghost: a failed operation that changed something without announcing it. The
next successful operation settles it.

### ClipStore: the table

A row is keyed by its content; `recency` is the order by `(updated_at, seq)`, lifetimes and
grace windows count down in ticks. Calls run on the owner thread, so they interleave with
nothing but a crash between two commits: `insert` then `enforce_cap`, and `insert` then the
removal of the grace record (`at`). The sets `Unheld`, `Clearable` and `Sweepable` are the
guard presets of `DeleteGuards`; every deletion goes through `Removed`. A sweep by a
retention rule takes any set of sweepable rows, a clawback any set of suspects: which rows a
pass selects is the question of `StoreMaintenance` and `RetentionPass`. A crash reopens the store, which drops
session protection, scrubs the sensitive rows, rebuilds the filter and enforces the cap.

| Run | Properties | What it shows |
|---|---|---|
| `store` | `TypeOK`, `SensitiveIsScrubbed`, `FilterCoversRows`, `PrivacyRatchet`, `HeldOnlyExpires`, `SealedIsRecoverable` | No path loosens a sensitive row or keeps its text; the deduplication filter overlooks no row; every deletion path against legal hold; restores that crash half-way |
| `store_cap` (violated) | `NewestAreKept` | With pins at the cap, `enforce_cap` deletes the clip just copied |

### ReplicaSync: one item on several devices

`ReplicaSync` models `clock.rs` and `crdt.rs` of `vbuff-sync`: hybrid logical clocks with the
bounded view of remote ones (`bounded_at`), the add-wins presence set, and one
last-writer-wins register (`pinned`; the others are of the same type, as is the tag set).
The crate has no transport yet, so the network and the discipline of the callers are
external: a write takes a `tick`, a merge is followed by `observe`, dots are never reused.
Snapshots wait in `net`, are merged any number of times and may be lost; a wall clock steps
forward and back at will. `seen` is a ghost, the edits a device has heard of, each with what its
author knew; `clamped` notes that some clock was ahead of a wall clock by more than
`MAX_REMOTE_FUTURE_MS`, the assumption under which convergence is promised.

| Run | Properties | What it shows |
|---|---|---|
| `sync` | `TypeOK`, `Convergent`, `AddWins`, `NoUndoneWrite`, `OwnWriteShows` | Two editing devices and a relay, one wall clock that steps, a logical counter that rolls over: equal knowledge means equal replicas and nothing overwritten returns while no clock is clamped; presence and a device's own writes hold beyond that |

### CaptureWatchdog: what the user is told of capture

`CaptureWatchdog` has the worker with its heartbeat and its health state, the poll interval
that grows and shrinks, the waits between two workers, and the watchdog that reads the
heartbeat first and publishes afterwards. Reads and writes may take for ever; sleeps end on
time; which recovery is picked and when the budget is exceeded are left open.

`HealthIsHonest` (run `upkeep`) says: a stale heartbeat is that of a worker stuck in a read or
a write, never of one that sleeps, backs off or waits half a minute (`OnlyStuckIsStale`); after
a failed write no good read makes the display say that all is well (`FailedWriteShows`); a
worker that stays stuck is shown as stalled (`StallIsShown`); an alarm published over a worker
that had recovered is taken back (`RecoveryIsShown`).

### BlobStore and ClipBytes: bytes kept outside the table

Rows and files do not commit together, and the process may die between any two steps.
`ClipBytes` is the abstract promise: a clip enters the table with its bytes, and once it has
them only a disk fault takes them away. `BlobStore` is the detail: publication, reference
counts, collection (files first, rows next), scrub with its cursor, quarantine, the grace bin
and interrupted sweeps. `ReaderKeepsBytes` is the refinement: with `ReaderView` as the mapping,
`BlobStore` implements `ClipBytes`. `StoreIsAccounted` adds that counts never fall below what the
table holds and that only a blob a disk fault touched is quarantined.

### RetentionPass, StoreMaintenance, ClipLifecycle: passes over the table

* `RetentionPass`: retention by kind and by collection, with the capacity the rules share, the
  limit the queries share, deferral, and bodies that are lost. `UpkeepIsAccounted`: a pass that
  reports nothing left has left nothing (`ReportIsComplete`), one that leaves work has done some
  (`PassMakesProgress`), a collection ends within its limits. `GraceIsHonoured`: under a rule with
  a grace window nothing is destroyed.
* `StoreMaintenance`: the idle pass in the order of `maintain_idle`, each step its own commit, an
  error ending the pass. `UpkeepSettles`: once copying pauses every secret is found, however the
  cursor and the rows moved; every wrong hash is repaired, removed as a duplicate or held back.
  `HelpersAreTrue`: no secret keeps a projection, the filter overlooks no row.
* `ClipLifecycle`: annotations, residency, export, the quarantine of imports and its two commits.
  `ResidencyIsKept`: imports neither sync nor feed the AI features, exported rows are marked.
  `ImportsAreNotLost`: a staged clip leaves the quarantine into the table, by rejection or by age.

The promises over time of all of these are collected in `PassesKeepTheirPromises`.

### SqliteStore, Migrations: the second backend and the way between

`SqliteStore` has the clip table and what follows it by cascade or trigger (full text, code
mirror, facets, vectors, blob counts) and by statements of their own (tags, session
protection, the mark that the WAL holds deleted bytes), with a death between any two.
`Migrations` opens an older file: backup, dry run, the live migration, verification, rollback,
cleanup, deaths and damage. What another process wrote may be in the `-wal` only (`base` is the file
without it), and a rollback removes the `-wal` before it copies the backup. Cut short between the
two it leaves those rows in the backup alone, and the next attempt removes that: the one loss
`RowsAreRecoverable` admits, by name (`severed`, `Whole`). Not modelled: a checkpoint cut short,
another process that opens the file between the removal and the copy, and what a process writes to
a file that was replaced under it. The module is also the one-time copy into DuckDB by several
processes at once, published by a hard link that never replaces a file. `SqliteKeepsHistory` joins
`SideTablesAgree`, `ResidueIsMarked`, `RowsAreRecoverable`, `CopiesAreGone` and `PublishedIsWhole`.
The two `data_lifecycle` files are the same text but for the dialect: `ClipLifecycle` maps one.

### HistoryWindow and SingleInstance: the popup

`HistoryWindow` is a frame of the list: the memoised projection, the search request, the result
that counts only for its query and revision, and the key that acts on the selection.
`WindowShowsTheTruth`: a result shown is whole although it was read batch by batch
(`ResultIsWhole`), a frame is what a fresh projection would be (`FrameIsFresh`), Enter pastes the
clip that was selected on the screen (`EnterServesSelection`). `SearchIsAnswered`: a search that is
waited for gets its result.

`SingleInstance` has processes that start the application, call it in the background, or ask
it a question, with the owner lock, the endpoint file, the connection backlog, retries,
time-outs, a listener that stops by itself, quits and deaths, on Unix and Windows.
`LaunchSafety`: never two writers of the store, no endpoint taken from who serves behind it, no
response to a request that is not waited for, no acknowledged popup lost. `LaunchesEnd`: a start
ends as the resident, or is answered by it, or fails. `UserIsAnswered` joins the two promises of an
answer with that of `PasteFlow`.

### PopupActions, PasteQueue, Settings, UpdateVerifier: what the user decides

* `PopupActions`: pin, peek, clone, delete, clear and undo on a snapshot that lags behind the
  store, with calls that fail before or after they took effect. What is kept in memory stays
  there (`PrivateStaysInMemory`), no row returns without its body (`RowsAreWhole`), a peek ends
  with the attention it was given (`PeekIsAttended`).
* `PasteQueue`: the stack of texts, its bound and its undo by identity (`UndoIsExact`). Texts are not
  told apart: how one is written follows from its detectors alone (`src/app.rs:893`).
* `Settings`: one file, written by the resident, by commands, by an editor; saves that fail, a
  migration that dies between its steps, the login entry (`SavedIsLoadable`, `MigrationIsReversible`,
  `MemoryIsSaved`, `LoginIsAsShown`).
* `UpdateVerifier`: manifests late, again and in any order; rotation and revocation of keys; a file
  whose write fails and that decays (`RetiredStaysRetired`, `WatermarkCoversAccepted`,
  `SomeoneCanSign`, `DueIsNewer`).

`DecisionsHold` is all four.

### QueryGrammar, RecallScan, StoreQueries: finding a clip

`QueryGrammar` has the three parsers of a query as folds over its tokens: recall's (live), the
store's (live) and the one that is to replace both, with its registry, its matcher and its SQL.
A text is reduced to its parts and to how its spelling differs from the plain one, which is
what the three treat differently. The new grammar reads what either of the old ones reads
(`UnifiesBoth`, but for the inputs on which those two differ, listed in the module's header), finds every clip the live filters find (`NoClipIsLost`), is blind to spelling
(`SpellingIsFree`), obeys a filter or refuses the query, in SQL as in memory (`FiltersAreObeyed`),
accepts no window that is empty (`WindowsAreOpen`: some instant fits, one the window names or an
hour before) and does not care about order (`OrderIsFree`).

`RecallScan` is one search: matcher and scores, the coarser SQL condition in front of it, and
the batches, cut by rows and by bytes, of which the best hits are kept. `SearchIsComplete`
compares it with the matcher over the whole history at once; `OneEditIsForgiven` compares the
edit distance with its definition; `SecretsAreNotSearched` says that what a sensitive clip says
never decides whether it is found.

`StoreQueries` has the store's own answers, while clips are copied, pinned, archived, deleted,
reclassified or expire, the clock is set back, the store is reopened, and SQLite changes from
LIKE to its index. Whoever reads a search page by page is given every clip nobody wrote to,
once and in order (`PagesAreWhole`); the bands of the fingerprints hide no near clip
(`NearIsComplete`); a secret is in no group of equal texts and has none (`SecretsStandAlone`);
what `vbuff ask` ranks may be shown to a model (`OnlyAllowedIsRanked`).

`SearchesAreHonest` joins the three modules.

### TrustedGroup, SyncPlans, Handoffs: between devices

Library code beside `ReplicaSync`, not linked into the program yet.

* `TrustedGroup`: the membership log, its longer and shorter copies, revocation with a new key,
  and the two other logs on the same chain. `GroupIsOfOneMind`: every copy verifies, two copies
  never contradict each other, a key is wrapped for the devices that are in the group.
* `SyncPlans`: rehearsal, estimate, replay plan, and the transfer that judges an item again after
  the user changed his mind.
* `Handoffs`: the outbox with retries, burn after reading with receipts
  that come late or twice. `TransfersAreHonest`: nothing local leaves, the user is shown what
  would, what is reported delivered or wiped is, and stays so.

### ClientGuards, SnippetMirror: to other programs

* `ClientGuards`: the replay window with its four users, a clock that steps back, a full window,
  a request leased twice; the rate limiter that forgets, and the event cursor.
  `ClientsGetTheirShare`: accepted once and never while revoked, the quota held and given, no
  event skipped.
* `SnippetMirror`: plan, perform, save the manifest, stop in between, while both sides are edited.
  `MirrorKeepsEdits`: what only the target's user wrote is never replaced.

### How they fit

`CaptureLoop` INSTANCEs `CaptureSupervisor`; its `Verdict` is
what `CapturePolicy` computes; its `InsertOk` is the entry of `HistorySnapshots`, whose
`Applied("insert")` abstracts `Capture` and `EnforceCap` of `ClipStore`. `PasteFlow`'s
`copy()` is the same code as the `Copy...` actions of `CaptureLoop`, seen from the other side:
there the interest is the armed keystroke, here the ledger. `HistoryWindow` draws what
`HistorySnapshots` publishes; `PopupActions` is the window's side of the calls that
`HistorySnapshots` makes on the store. `BlobStore` refines the "bytes" of a row of `ClipStore`,
`StoreMaintenance` and `RetentionPass` are the passes that `ClipStore` abstracts to "any set of
rows", and `RecallScan` is the collection that one step of `HistoryWindow` begins and another ends.

## 3. Bounds, and why they are enough

* `pasteflow`: two applications (a target and an intruder) and three clips; delays of two ticks
  and of one, a confirmation timeout of three: enough for a wait, a late target and an expiry.
  The list: three clips, two of which match, two shown, one change while a search runs. The
  starts: three processes with one retry each and one fault, so that a start meets a resident
  that dies, quits or does not answer while another one starts.
* `capture`: one clip the program writes, an image, a recoverable and a lost content; an
  entry lives two ticks in a ledger of one, and a failed read ends the worker at once.
  `capture_settle` leaves out the last two contents and lets a read fail twice. All limits
  are one or two, so that eviction, expiry, shed, restart and degrade all happen.
* `gate`: all policies and reads; three kinds that differ in lifetime and memory-only. Beside
  it: three keys, sequence numbers up to three and two decays of the file (updates); three
  clips, one large, one masked, a lane of one (popup); a stack of three and four items (queue);
  two edits from outside and a file of every age (settings); every misspelling of words of
  three, five and six letters, and histories of three rows in batches of two rows or three
  bytes, with two results (search; the score 0 is free to stand for "no match" because a text is
  shorter than the eighty letters it takes to score 0); queries of three tokens over four clips (query); three
  clips, two writes, pages of one and two, an index from three rows on or after one slow query
  in a window of two (answers).
* `history`: two secrets with the same content and two durable clips (alike, hence symmetric), a lane of one, origins of
  two, a cap of one (so that an insertion evicts), at most `MaxVersion` numbered snapshots
  (operations that would start beyond it are not begun). The run may end there: deadlock
  is not checked.
* `store`: three contents, one of them secret, under a cap of one, with a lifetime of two
  ticks (a deadline can be shortened, met and missed); one sealed record at a time.
* `sync`, `replicas`: the creator makes one edit, another device two, a third relays; one snapshot under
  way; a logical counter of one (so that it rolls over), a tolerance of one, hybrid clocks
  that stop observing after physical one. All three kinds of edit, clamped clocks and steps back
  are reached; four register writes heard everywhere are not, and are left to the proof. The other parts: a group of three with
  logs of four entries and two key epochs; two selected items; a message with two retries in two
  epochs; one snippet, two texts and three edits; windows of two for nine messages and a clock
  up to three (a full window that refuses a new key is not reached, and rests on the proof); three clients of which two are remembered; six events of which three are kept.
* `upkeep`: the limits of the source for the ladder; a poll interval of one to two ticks and a
  stall after three (`watchdog`); two clips and two blobs they may share, one disk fault and one
  death (`blobs`); three rows under rules that share a capacity of one (`retention`); two clips
  and two imports, one of them secret (`lifecycle`); two rows at the start, one that arrives and
  one stop, in batches of one, so that every cursor wraps (`maintenance`); two clips that share
  content and blobs (`sqlite`); three rows of which one cannot be carried over (`upgrade`); two
  importers (`import`).

A part that rests costs one state per state of the part that moves. The bounds of each were
raised until the times of the runs forbade more; where a hazard needs two of something (two
commits and a death, two copies of a log, two readers of one window) there are two.

Every property of a passing run has a mutant: a plausible defect of the code under which the
same run finds the property violated. The defective variants stand beside the definitions
they replace.

## 4. Fairness

* `PasteFlow`: weak fairness of `Tick` (the clock) and of `Poll`: `poll_pending_paste` runs
  on every frame, and a frame is requested within the repaint interval while a paste is
  armed. Nothing is assumed of the desktop or the user.
* `CaptureLoop`: weak fairness of the clock and of `copy()`'s steps (a function that
  returns); strong fairness of the worker's successful steps: failures of the clipboard, of
  the database and of the thread itself are intermittent, and the loop retries each one.
  Without it a backend that always fails would refute any progress.
* `HistoryWindow`: weak fairness of the frame, the search update and the publication (the event
  loop repaints while something is pending) and of the worker's own steps (a thread that is
  not blocked for ever). Nothing is assumed of keys or changes.
* `SingleInstance`: weak fairness of a process's own steps and of the server's; all waits of the
  code have a time limit. Deaths and new starts are never fair.
* `StoreMaintenance`: weak fairness of the pass (the loop ticks for ever), not of copying, which
  `UpkeepSettles` supposes to pause.
* `CaptureWatchdog`: weak fairness of the clock, of a sleeping worker's waking and of the
  watchdog; never that a read or a write returns.

The other modules state safety only: library code without a scheduler of its own, or calls
that run to their end.

## 5. Proofs

All proofs are for every value of the constants that satisfies the modules' assumptions. Each
was preceded by a run in which TLC checked the inductive invariant on the small instance.

| Module | Proved | The strengthening, and what it adds |
|---|---|---|
| `PasteFlowProofs` | `TypeOK`, `ArmedOnLatestWrite`, `UnexcludedIsNeverPasted`, `KeystrokeServesIntent` | `IInv`. `KeystrokeServesIntent` speaks of the last step of a poll, so the earlier steps must carry it: what is armed or polled and not abandoned is what the user waits for (`ArmedIsIntended`), past the foreground check the poll holds a target and nothing else is armed (`PollHoldsTarget`), what it verified still holds unless the desktop raced it (`VerifiedOrRaced`) |
| `PasteFlowProofs` | `WindowShowsTheTruth`, `LaunchSafety` | `WinInv` and `InstInv`, below |
| `CaptureHistoryProofs` | `CaptureSafety`, `OneRecoveryPerClick`, `SelfWriteNotRecaptured` | `CaptureInv`: a worker past its read holds a content, an asked recovery is backed by a click. `WriteInv`: a content that is surely vbuff's own write is in the ledger for at least as long, or `copy()` still holds the mutex (`SeenFreshIsHeld`), and the write on the clipboard is the ledger's last, so that no other pushes it out (`FreshIsLast`) |
| `CaptureHistoryProofs` | `HistorySafety`, `Converged` | below |
| `UserSideProofs` | `GateFailsClosed`, `FindingsAreHonoured`, `DecisionsHold` and its parts; `SearchesAreHonest`: what a query means (`QuerySafety`), what a search finds (`SearchSafety`) and what the store answers (`QueriesSafety`) | `GateInv`: the outcome is the gate's of the read. `UpdInv`: a restart reads the file, so the file keeps every promise of memory. `PopInv`: whatever the popup can act on or undo is remembered as memory-only (`OriginsAreKnown`). `QueueInv`: identities are spent once, and the offered one was added. `SetInv`: what vbuff saved loads, a migration's copy stays, memory and login entry follow the file unless known not to. `ScanInv` and `QInv`, below |
| `QueryGrammarProofs` | `QuerySafety`, which `UserSideProofs` carries over to `UserSpec` | What is typed are tokens (`TypedInv`); the runs of a query, below |
| `UpkeepProofs` | `PatienceIsBounded`, `EscalatesOnTime`; `StoreIsAccounted`, `UpkeepIsAccounted` (with the types of every part), `ReaderKeepsBytes` (the refinement of `ClipBytes`), `ResidencyIsKept`, `SqliteKeepsHistory`; of `PassesKeepTheirPromises` that grace is honoured, imports are not lost, the audit keeps content and a publication is final; of `HealthIsHonest` its safety, `OnlyStuckIsStale` and `FailedWriteShows` | The two counters explain the streak (`PatienceInv`); a sleep ends before its beat is stale (`BeatsInTime`); the SQLite side tables are functions of the rows, keyed by sequence numbers that are never shared (`SqlInv`); the file without its `-wal` is never ahead of what is read, and is what is read once a rollback has removed the `-wal` (`BaseLags`); retention and the table as below; blobs and residency are inductive in states of the right shape |
| `ClipStoreProofs` | `TypeOK`, `SensitiveIsScrubbed`, `FilterCoversRows`, `HeldOnlyExpires`, `PrivacyRatchet`, `SealedIsRecoverable` | A restore between its two commits has its clip in the table (`RestoredIsLive`); the order of the rows lists each once (`OrderInv`), which a bump, a removal of any set and a reopening each preserve |
| `ReplicaSyncProofs` | `Convergent`, `AddWins`, `NoUndoneWrite`, `OwnWriteShows`; `GroupIsOfOneMind`, `TransfersAreHonest`, `ClientsGetTheirShare`, `MirrorKeepsEdits` | below |
| `FoldLemmas` | lemmas only | below |

*ReplicaSync.* `IInv` says that every holder of a replica, a device or a snapshot, is a function
of the edits it heard of (`Presence`, `LastWrite`), that knowledge is closed under what the
authors knew (`Closed`), that dots and clocks are never used twice, and that a device's hybrid
clock is past its register and its own writes (`ClocksBehind`). Convergence is then the
uniqueness of the last write.

*HistorySnapshots.* That no secret is among the rows is not inductive: a job in the queue may be about
to store one. `HistoryInv` follows the secret to where it could still be named. A job that
inserts carries a durable clip, at every stage from its queueing (`OpsAreSound`); what decides that is
`is_memory_only`, which asks the origins, so whatever the lane, the window, the undo slot or a
snapshot under way can name is an origin if it is a secret (`SecretsAreRemembered`), which each
of merge, publish, delete, undo and clone passes on. The queue holds a thread at most once and only
while it waits (`QueueWaits`), which bounds it, and a version is reserved for each operation begun
below the bound (`VersionsAreBounded`). The one way out is an origin dropped by the limit of
`insert_volatile`. `SecretsStayOut` supposes that no origin is dropped while something still names its
clip; `FewSecretsStayOut` needs no such premise where there are no more secrets than origins.

`Converged` speaks of the window after the last operation, while the snapshot it shows was loaded before
other operations finished. `WindowInv` needs no record of the loads: the snapshot of the *newest*
version is either on the screen or still with the thread that reserved it, in the queue or in the
presenter's hands (`NewestIsUnderWay`), since the presenter drops an older one only; and at
moments when nobody holds a change he has not announced (`Settled`), what that snapshot holds, or
will hold after the steps its thread still has to make, is the live rows, and after the merge the
lane with them (`NewestIsRight`). A change to rows or lane is made by an operation that has yet
to reserve its version, so that it ends every such moment; it begins again with a newer version.

*RetentionPass.* Rows are kept oldest first, each id once (`InOrder`): what makes the two queries of a
rule one. `CandidatesCover` is the heart: if their common limit was not reached, every aged row and
every row beyond the newest `items` is listed, since the second query, newest first, stops
early only at rows the first one has already listed. What the pass has found is followed from rule
to rule (`ApplyIs`, `CondemnedIs`): within the capacity, never a guarded clip (`Fair`), and, as
long as nothing is left over, all that the rules so far condemn (`Covered`). For the collection, the rows within
the limits are a part of the sequence they were measured in, so that they number and weigh no more in
the shorter one that is left (`CollectionShrinks`, with `WeightGrows`). `RetInv` is then the
shape of the rows and the three promises.

*StoreMaintenance.* Types are not for the asking here: the cursor counts rows, so each row that
leaves must take its place with it. `TableShape` lists each stored id once by seq and only
stored ids by check; what is behind the cursor is a part of what is left (`RowsLeft`), and a full batch
has a last row in the table to move it to (`CursorMoves`).

*TrustedGroup.* Only the founder appends, and to his own copy: every other copy is a prefix of
his (`OwnersIsLongest`), and every copy verifies. Agreement is then prefix agreement, and what a
key was wrapped for can be read from any copy that is long enough (`KeysInv`).

*ClientGuards.* A spent message stays in its window until the floor of the window is past its
expiry (`SpentIsRemembered`); the floor never goes back and a full window refuses, which is why
no clock that steps back, no lack of room and no second lease brings it back. A token
the limiter remembers was served (`KnownWasServed`): a refusal without a count needs as many
other tokens served, which is the quota the clients were promised.

*SyncPlans, Handoffs, SnippetMirror.* The selection loop is followed item by item (`ExactTo`); a
receipt of this epoch comes from a device that holds no copy (`BurnInv`); what a manifest or a
plan names was read on the side it names (`ManifestIsEarned`, `PlanIsEarned`).

*HistoryWindow.* A frame may reuse the rows of an earlier one under a key that does not name the
result it was made from. `CacheHolds` says why that is sound: a key of this revision with a result
means that its one result is shown or was dropped with the query, and since no request of this
revision is out while such a key is there, no second result can come under it (`OneRequest`);
nothing in the source of the rows expires before the horizon (`FreshFrom`). `WorkerIsWhole` follows the collection: of the rows it passed it has
exactly those the query finds in the store as it is now, unless a change waits to be published, and
its clock is never ahead (`WorkerInTime`).

*QueryGrammar.* The invariant is only that what is typed are tokens; the work is in the parsers. Each is
shown to be a run over readings (`UnifiedRuns`, `NaturalRuns`, `StoreRuns`): what a token is taken for, how
many tokens that takes and which constraint it files, which no longer depends on the parse so far. Two
parsers then agree because their readings do (`ReadAlike`, `StoreReading`), spelling is free because the
readings of the plain query are the same (`PlainReading`), and two facets that are exchanged file the
same two constraints (`ExchangedRuns`). Constraints stay tidy, one of a facet that does not
repeat and instants in windows (`Tidy`), so that a window is open or refused.
`NoClipIsLost` is the hard one, since the two grammars may part and still leave the same text. Up to where they
part they hold matching constraints (`AlignedStep`); there the unified one reads what recall's leaves in the text,
and must leave the same word further on (`PartedText`). A facet, a kind or a day it would read there as
well. "from" and "last" it leaves only as the last word, which recall must then have taken as the app of
a "from" before it; this is so in one query, "from from from" with the first of them spelt beyond recall, and both
then ask for the app "from" (`PartedAtWord`). "before lunch" cannot be made up for at all: of its
words each grammar loses as many as its filters take (`EatenIs`), recall would need another window and
a "from" where the unified one has one, and has not (`NotAtLunch`).

*RecallScan.* A batch offers candidates, and what is no candidate is never scored: `HitIsCandidate`
shows that it could not have been a hit. A text that contains the query contains each of its
fragments of three letters, and one that is an edit away from a word of the text keeps one of
them (`FragmentStays`). `OneEditIsForgiven` goes letter by letter: after the first difference the
rest must agree at the one offset that the lengths allow (`EditIs`). Winners are the top of what was read,
and the top of a part merged with the next batch is the top of both (`TopOfTop`), so
`ScanInv` says of the rows read so far what `SearchIsComplete` says of all. The ranking need only be a strict
order (`HitOrderIs`).

*StoreQueries.* `SessionHolds` follows a search between its pages by what nobody wrote to since it
began: what was given of that is in order and not behind the cursor, what is owed still matches
whichever way the planner looks (`OwedMatches`), and is given already or behind the cursor. A
write leaves all of this alone except for its own clips (`SessionFrame`), and a page that is not
full has taken all that was behind the cursor. The cursor is a rank because ranks are never
shared: a row's sequence number is its alone (`IsRecords`). That the bands hide no near clip is the pigeonhole:
four bands that all differ are four bits at least (`NearShareBands`).

*SingleInstance.* Everything rests on the lock: who binds, serves or closes holds it (`LockIsHeld`), so
that the file a quitting resident removes is its own or stale, and whoever serves is behind the
endpoint (`ServersAreFound`). An open request is awaited by who sent it, from that server and once
(`RequestsAreAwaited`, `OneOpen`), which is what makes replies meet their calls (`RepliesFit`) and
acknowledgements keep their promise (`AcksAreKept`). `FewAreSent` bounds the backlog by counting
the requests of each sender, the abandoned ones included.

**Compositions.** The theorems about `PopupSpec`, `UserSpec`, `UpkeepSpec` and `SyncSpec` are those of the
parts: the invariant of the composition is their conjunction, and while one part moves the
others' variables rest. They name the very properties that the runs check.

**Folds.** The theorem that would give induction over a fold takes an operator as a parameter,
which no installed prover can instantiate. `FoldLemmas` goes round it once: the function that
`FoldLeft` iterates is shown to exist, by least counterexample over the natural numbers
(`LeastExists`, `UpToAll`, `FoldExists`), and its values on `1..0`, `1..1`, ... to be the steps of
the fold (`ChainExists`, `ChainSteps`). The operators are passed as graphs, that is as functions,
not as operators. On it rest the replay of a membership log, the greedy selection of a plan, the
sums of bytes, and `Keeping` of `ClipStore` and `HistorySnapshots`, a fold because `SelectSeq` is opaque to the provers.
The elements kept are those of the set, in their order, once each if they were once each before
(`KeepIs`, `KeepOrders`), whether the filter is written as a fold or as a recursive function
(`KeptIsFolded`). A set weighs what its elements weigh, each counted once and in any order
(`SumTakesAny`, `WeightAdd`), and never less than a part of it (`WeightGrows`).

**Assumptions.** Constants are typed and bounds are positive where the code's are. Those worth a look:

* `SelfWritesStayOut` supposes `ReadsBackAsWritten`, a clip reads back under the hash it was
  registered with. Starter-pack clips do not, which is the finding of `capture_starter`; for all
  others it is what the clipboard backends do.
* `SecretsStayOut` supposes `ForgetsUnnamed`: an origin may be forgotten once nothing in the program
  names its clip. The code drops the oldest of more than 256 origins whatever still names it; a
  memory-only clip lives for a minute at most and an undo for five seconds, so that a user
  does not come near it, but a program that copied hundreds of passwords within that time would.
* `TypedAssumption` (`Settings`): the texts an editor can write are among the configurations of the
  model, `Configs`.
* `MaxRetries > 0` (`Handoffs`): with no retry a failed transfer would be given up before it was
  tried; the code's constant is positive.
* Finite sets of tokens and messages (`ClientGuards`) and natural sizes of items (`PlanAssumption`).
* `RetAssumption`: each clip is under one of the scopes that rules are made for, sizes and limits are
  natural, a pass may evict at least one clip, as `MAX_RETENTION_EVICTIONS` allows (with none,
  `PassMakesProgress` would be false). Clip ids are numbers below `Unlimited`, so that each of them may be
  where a pass dies.
* `VocabularyAssumption` (`QueryGrammar`): an empty key has no capitals and nothing else to
  normalise, an empty value at most blanks, a date no capitals; the words of the sugar are no kinds, spans or
  dates, as in the tables of the code; hosts are those of parsed URLs, which are ASCII.
* `ScanAssumption` (`RecallScan`): words of fewer than three letters are not read as mistyped, as in
  `typo_matches`, so that a fragment is left; rows are what the store keeps, an ASCII row without a
  text of the other layout, and the whole stored text of an ASCII row that fits is its text.
* `QueriesAssumption`: a fingerprint has four bands, each a finite set of bits; no clip is twice on
  the shelf; moments are numbers.
* `MaintAssumption`: the old table has no row twice, both batches are positive as in the code
  (with an empty scan batch the cursor would have no row to move to).

**Only model-checked**, and why:

* Liveness: `UserIsAnswered` (`ArmedPasteIsAnswered`, `SearchIsAnswered`, `LaunchesEnd`),
  `SettledCopyIsStored`, `UpkeepSettles`, what `HealthIsHonest` says must be shown in the end: the
  provers do not know `ENABLED`, of which fairness is made.

No invariant of a run is left to TLC alone.

Changes the proofs asked of the models: a `CASE` without `OTHER` became an `IF` where its value is
needed in the remaining case, and filtering became `Keeping`. In `RetentionPass` and `StoreMaintenance`,
which filter in every state of a long run, it became a recursive function (`Where`, `Only`), which
TLC evaluates faster than a fold; bytes are summed over the ids of the rows (`BytesOfRow`), bits over the bands
(`BitsApart`). Sorting became the place of each row among the others (`Arranged`), since the
library's sort is opaque as well; the common beginning of two words has a name (`AlikeUpTo`), and `PagesAreWhole`
speaks of positions instead of a filtered sequence. `WindowsAreOpen` looks for its instant among those the query names
instead of all hours of two days, which a date of another week is not among. None of it changes
what a run explores.

## 6. Plan

Every safety property of the runs is a theorem. What is left is breadth: the SQLite twin of
`ClipLifecycle` and `RetentionPass` (`sqlite_data_lifecycle.rs`), which follows the DuckDB code
statement by statement.

## 7. Not modelled

* *Pure functions of their arguments*: the detectors and classifiers (what text is a secret is the
  constant of the gate's models), facets, transforms, diffs, scoring beyond the matcher,
  rendering, design tokens, localisation, packaging.
* *The operating system*: clipboard, keyboard, tray and window backends are modelled where
  `PasteFlow`, `CaptureLoop` and `SingleInstance` use them, by what their callers rely on.
* *Library code without a caller, whose state is one small table*: boards, snippets, timelines and
  the composers (`workflow`), consent, budgets and trust posture, the plugin host, scheduling
  helpers (coalescing, torn reads), recall's memory, attestations and staged rollout.
* *Cryptography and formats*: sealed records, encrypted bodies of imports, signatures and hashes are
  ideal: opened by the right key, never forged, never colliding.
* *Of modelled parts*: quoting and length limits of queries, the other keyboard layout in a
  filter, suggested pins and the digest, storage accounting, the tag manager, menus and
  settings panels, older residents of another protocol, the Windows token of the endpoint.

## 8. Where code and documents disagree

Each of these is a run that TLC finds violated; `PROJECT.json` (`findings`) quotes the
sentence: `SelfWriteNotRecaptured` with starter clips, `OneTimePasswordsStayInMemory`,
`GenericSkipIsRecoverable`, `NewestAreKept`.

More were met while modelling and have no run of their own:

* `policy.rs:237` says that without armed rules every mode behaves identically; Skip refuses
  unknown coherence and concealment whether or not a rule is armed.
* `LwwRegister::assign` bounds every clock by the wall clock, the device's own included
  (`crdt.rs:76`): after a step back of more than the tolerance a device's own writes are dropped
  until the wall clock catches up, and devices that clamp the same remote writes may disagree
  until their author is heard again (`OwnWriteShows` and `Convergent` without their
  premises are violated). `docs/mistakes-top-500.md:359` promises that edits "always converge".
* The notice of `app.rs:767`, "the clip remains copied", is also shown when the paste was
  blocked because another application replaced the clip (`PasteFlow`, `GuardBlocks`).
* A maintenance event without a version assigns the set of memory-only clips it read before
  (`history_presenter.rs:59,92`): a memory-only clip stored in between is shown without its
  label until the next event (`PublishPrune` in `HistorySnapshots`, which leaves the set out).
* After a stall `architecture.md:288` says a later successful read reports recovery; while
  storage is degraded the read publishes nothing, and "stalled" stays until a write. A memory-only
  insert that succeeds clears a storage error although nothing was written, and a worker
  restarted after read failures begins with a fresh health state (`CaptureWatchdog`).
* `docs/implementation-batch-201-250.md:62` says a deleted payload is cleared when the popup
  hides; `hide` clears the peek, not the undo slot (`PopupActions`).
* `recall/grammar.rs:16` says a source application outside ASCII never matches an `app:` filter;
  `layout_contains` lower-cases both sides by Unicode, so it does (`QueryGrammar`).
* `automation/snippets.rs:265` of vbuff-ipc says keys that are equal on both sides lose their noise; they get no entry
  in the manifest, so that a later edit of the source is still reported as a conflict
  (`SnippetMirror`).
* `docs/implementation-batch-001-050.md:41` speaks of an atomic rollback; it removes the `-wal` first
  (`sqlite_migration.rs:130`), and a death before the copy leaves a file of the old schema without the
  rows that were in the `-wal` only. The next `prepare` removes the backup that has them (line 61)
  before it makes another (`Migrations`: TLC reaches `severed = "lost"`).
* The notices of `app.rs:739` end in "clipboard unchanged"; a backend that fails after it placed the
  clip, or an own `write` that answers without the exclusion, has changed it (`PasteFlow`, `CopyFails`).
* Search alone shows a protected clip past its expiry; `list`, `count` and the window do not. A test
  pins this (`duckdb_backend.rs:4129`; `StoreQueries`, `Found`).

Behaviour that no document contradicts but a reader should know, all of it in the models:

* A failed search is not retried until the query or the history changes; if the selected clip
  vanishes, the selection falls to the first row; a queued paste leaves the queue before it is
  known to succeed.
* A clip dropped for the byte limit of a search may be better than a smaller one that is kept; the
  best hit is always kept and the total counts every hit.
* A deletion reported as failed may have happened, and a large clip then cannot be undone; a
  restore that fails loses the original.
* The resident saves its whole configuration and overwrites edits made outside; file and login
  entry can differ after a failed rollback until the next start.
* An error in one step ends a maintenance pass; a graced row without a key uses up the pass's limit;
  images that do not decode are selected for fingerprints in every pass.
* A staging file of an import that died is never removed; a rollback after an upgrade drops what
  was written between the dry run and the live opening.
* `vbuff ask` without a resident becomes one for its duration and acknowledges starts it never
  shows.
* Replay windows live in memory; two leases of one remote request can both be used once the first
  has expired.
