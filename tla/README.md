# RustOwl in TLA+

RustOwl shows ownership and lifetimes of Rust variables in an editor. This
directory holds TLA+ modules that model its core, TLC configurations that
model-check them on small instances, and theorems that TLAPS proves for every
value of their constants. Paths below are relative to the repository; line
numbers are those of the commit the modules were written from.

## The system

| component | source | state | operations | talks to |
|---|---|---|---|---|
| language server backend | `src/lsp/backend.rs`, `src/lsp/progress.rs` | `analyzers`, `status`, `analyzed`, `processes` (a `JoinSet`), `process_tokens`, `work_done_progress`, each behind a lock | `initialize`, `did_open`, `did_change_workspace_folders`, `did_change`, `rustowl/analyze`, `rustowl/cursor`, `shutdown`, `check`; analysis tasks; the task each run leaves behind to publish the status | the editor (LSP messages, progress), the analysis driver |
| analysis driver | `src/lsp/analyze.rs` | a child process, a channel of 1024 events, a `Notify` | choose a target (`Analyzer::new`), start `cargo check` or `rustowlc`, read its output, hand out events | cargo, the backend's tasks |
| rustowlc driver | `src/bin/core/mod.rs` | `TASKS` (a `JoinSet`), the cache | one task per function body after borrow checking; collect, print a `Workspace` per function, write the cache | rustc, the analysis driver (by its output) |
| MIR translation | `src/bin/core/compiler/*`, `src/bin/core/analyze.rs` | none of its own | translate rustc's bodies and borrow facts | rustc |
| liveness dataflow | `src/bin/core/analyze/dataflow_analyzer.rs` | `states`, `visited`, a work list | `walk_cfg`, `get_definitely_lives`, `get_maybe_initialized` | MIR translation |
| Polonius liveness | `src/bin/core/analyze/polonius_analyzer.rs` | none | lifetimes and borrows from Polonius' output | Polonius |
| analysis cache | `src/bin/core/cache.rs`, `src/cache.rs` | one JSON file per crate | read at start, insert, write at the end | rustowlc processes that share the file |
| range operations | `src/utils.rs`, `src/models.rs` | none (pure) | intersect, merge, eliminate, exclude ranges; offsets to positions | all of the above |
| decorations | `src/lsp/decoration.rs` | the local selected and the decorations collected in a visit | select the local under the cursor; calculate and clip decorations | the backend's `cursor` |
| toolchain | `src/toolchain.rs`, `src/bin/rustowl.rs` | the runtime directory, which all processes of a user share | install, uninstall, find cargo, rustowlc and the sysroot | the network, the analysis driver |
| bootstrap of the VS Code client | `vscode/src/bootstrap.ts` | a binary in the extension's storage, shared by all windows | find or download a server, run its `toolchain install`, come up or tell what failed | the toolchain's processes, the user |
| hover of the editor clients | `vscode/src/extension.ts`, `lua/rustowl/*`, `rustowl.el` | timers, requests under way, decorations shown, whether showing is enabled | ask `rustowl/cursor` some time after the cursor stops, draw the answer, enable and disable | the backend |

What is hard in it:

* Handlers, analysis tasks and waiting tasks interleave at every await, share
  six lock-protected variables, and one lock is held across an await that lasts
  as long as a build.
* Stopping an analysis is a protocol: cancel tokens, take the lock, abort, wait.
  Messages that arrive meanwhile start and stop analyses too.
* Results arrive one function at a time and are merged into what an older
  analysis left.
* The dataflow walk is cut off at two bounds in place of a fixpoint test, and
  compares states on one side of a location's effect with states on the other.
* Processes of one user install, remove and use one directory without a lock, move
  files by rename or by copy, and may be killed anywhere; the existence of the
  directory stands for an installation.
* An editor's timer, request and answer lie apart in time: the cursor, the buffer
  and the setting may all have changed between them.

`PROJECT.json` lists the hazards at their lines, with the properties that cover
them.

## Modules

| module | models | composed with |
|---|---|---|
| `Backend` | the language server and its analysis tasks | implements `StatusBoard` |
| `StatusBoard` | abstract: what a client may assume of the status | |
| `EventStream` | the events of one analysis: child, reader task, bounded channel, iterator | stands behind `Backend`'s `TaskAnalyzed`, `TaskEnded` |
| `CfgAnalyzer` | the dataflow walk and its cutoffs | |
| `Rustowlc` | the tasks of one compilation and the cache file | |
| `RangeOps` | operations on one or two ranges | used by the next two |
| `Ranges` | the loops over lists of ranges | extends `RangeOps` |
| `SelectLocal` | which local a cursor selects | extends `RangeOps` |
| `Decorations` | `CalcDecos`: the list of decorations and its clipping | extends `RangeOps` |
| `Decos` | `Backend::decos`: one answer to a cursor request | composes `SelectLocal` and `Decorations` |
| `Positions` | bytes to indices, indices to lines and columns, and back | |
| `Toolchain` | processes that install, remove and look up the toolchain, task by task and file by file | |
| `Bootstrap` | windows of VS Code that install a server and run its `toolchain install` | extends `Toolchain`: a window's process is one of its processes |
| `Hover` | the cursor, timers, requests and decorations of the three clients | |
| `MCBackend`, `MCCfgAnalyzer`, `MCDecos` | constants for TLC | |
| `BackendProofs`, `EventStreamProofs`, `CfgAnalyzerProofs`, `RustowlcProofs`, `HoverProofs` | theorems about the module they are named after | |
| `ToolchainProofs` | theorems about `Toolchain` and `Bootstrap` | |
| `UtilsProofs` | theorems about `Ranges` and `Positions`, the parts of `utils.rs` | extends both |
| `DecorationsProofs` | theorems about `SelectLocal`, `Decorations` and `Decos` | extends `Decos` |

A definition whose name ends in `_Something` and whose comment says "mutant" is
a plausible bug kept beside the definition it would replace; nothing uses it,
and `PROJECT.json` names the property that catches it.

### Backend

A step is the code between two awaits that can really wait. The locks of
`status`, `analyzed`, `analyzers`, `process_tokens` and `work_done_progress` are
never held across such an await, so each critical section is one step, and
consecutive ones are merged only where nothing another task does can come
between that would matter (the mark of line 77 and the snapshot of `analyzers`
of line 82). The lock of `processes` is held across `join_next` and `shutdown`;
tokio's `RwLock` is fair, so it is a queue (`lock`) whose head holds it.

* Per request: `pc`, the targets still to add (`todo`), where to go after a stop
  (`after`), the snapshot of targets (`snap`), the answer (`reply`).
  `shutdown_subprocesses` is `Drain`, `AbortAll`, `Reap`; `analyze_with_options`
  is two stops, `Mark`, then `RegisterToken` and `Spawn` per target, and
  `EndOfRun`, which starts the waiting task.
* Per run: `waiter`, the task that joins all tasks and publishes a status.
* Per task: `tpc`, and whether it was aborted, its token cancelled, its key, its
  progress report, the version of the sources cargo read (`built`) and the
  functions it has reported (`emitted`). An aborted task may take further steps
  before it is dropped, because a worker may just be polling it.
* A task's `progress` follows `ProgressToken`: `begin` waits for the client's answer
  ("creating"), sends the Begin ("beginning", and "begun" once it is sent) and only
  then returns the token ("held"); `finish` takes the token's content ("taken") and
  then sends the end. A task may be dropped at each of these awaits, and a dropped
  token reports the end only while it is held.
* `Answer` groups what a task gets from outside: the client's answer, and everything of cargo's,
  from the `cargo clean` and the toolchain's setup before the build (`TaskPrepare`, during which the
  cancelled token is not polled) to the end of the build. `AddTarget` waits for `cargo metadata`.
* `overlapped` is auxiliary: the pairs of messages whose handlers were in flight together.
* `Merge` is `Crate::merge` with its `dedup_by` of adjacent items.

Simplifications: sending a Report or a message about the status does not wait; a
change of workspace folders is one `open` per folder; the sleep of 100 ms has no
duration; requests arrive in the order of their numbers; `$/cancelRequest` and
the health check are left out.

### EventStream

`PollRecv` and `PollNotified` are the two branches of one select of
`AnalyzeEventIter::next_event`, polled one after the other while the reader runs
on another thread. A `Notify` keeps one permit; a notification given to a waiter
that is dropped before it runs is passed on, so that a permit stands for both.
Events are the numbers of their lines; a line that is neither an artifact message
nor a `Workspace` gives none. The reader ends at the end of the output (`NotifyEnd`), or at an error of
`next_line`, a line that is not UTF-8 (`ReadFails`; `failed` is auxiliary), whatever else the child prints.

### CfgAnalyzer

`fn` picks a control-flow graph. `Pop` takes an entry of the work list, then
each statement is `CircuitBreak`, `SkipUnchanged` or `VisitStatement`, and the
terminator `VisitTerminator`. `meaning` is any solution of the dataflow
equations; in TLC's runs it is the least one, computed in `MCCfgAnalyzer` by
iteration over paths. `Flow` is the effect of one location on one variant of the
state of one local: moves before the assignment, as in the code.

### Rustowlc

`Borrowck` is `mir_borrowck` of a group of bodies that are checked together:
cached ones are printed at once, the others get a task. `Collect` is the loop of
`try_join_next` after it, `Join` the loop of `join_next` after the compilation;
both are left at a task that panicked. The cache file has a length besides its
contents, because two overlapping writes may leave the tail of the longer text; it is
`torn` where it holds a part of one. `write_cache` may fail to open the file (`OpenFails`) or to write all
of it (`WriteFails`, which leaves a part, as a kill does); the process ends as others do, "unsaved".
`alone` and `spoiled` are auxiliary: the process started last, if none ran while it did; and whether
any write was cut short or overlapped another.

### RangeOps, Ranges, SelectLocal, Decorations, Decos, Positions

`Ranges` runs one call of `common_ranges`, `intersect_ranges`, `union_ranges` or
`exclude_ranges` with the `eliminated_ranges` that ends it; a step is a round of a
loop. Ranges are half open and never empty (`Range::new`); a `Loc` does not go
below 0.

`SelectLocal` follows `mir_visit` through the functions of a file, one after another: `SeeDecl` (or
`SeeResume`, a local of an async function's resume type) once for each local, then the body's
`SeeUse`s. A visit is one call of `select`, with any range; only a range at the cursor, of a local that
is a candidate, is an offer. `first` and `offered` are auxiliary: the first offer and all of them. The
order of functions does matter: `NarrowestSelected` says what does not depend on it, `CallIsFound` fails.
Functions come in any order and may come twice, as they do in the merged list of the file; a local
number and a function number mean one local throughout, as `FnLocal` has it. `Decos` lets the selector
finish, forgets what it knew, and goes on with `Decorations` if a local was selected.

`Decorations` is `CalcDecos` after the local was selected: visits push
decorations (a call only if it is around no other call, and after removing calls
around it), `StartOverlapping` sorts them, and the scan of
`handle_overlapping` cuts what is below. `sorted` and `calls` are auxiliary: what
the scan started from and which calls were visited. Texts of hovers are left out;
a decoration is a kind, a range and `overlapped`.

`Positions` has one offset, follows it through `Loc::new`, `index_to_line_char` and
(as a click on the same character) `line_char_to_index`. CR occurs in CRLF
only, a wide character takes two bytes, columns count characters (an
editor's UTF-16 columns are not modelled). `Dropped`, the text without CR, is a recursive function,
so that it can be reasoned about.

### Toolchain

A command of a process is `Start`ed, runs through the values of `pc`, and may be
`Kill`ed at any of them. `install` makes the directory (`MakeDir`), spawns one task
per component, joins them (`JoinTasks`, which does not look at what they return), and
unpacks the RustOwl tarball. A task fetches, then moves file after file: `Rename` is
atomic; `CopyBegin` truncates the file in place and `CopyEnd` completes it, unless
another process has replaced it since. `analyze` is the five lookups of
`setup_cargo_command` (`place`), each of which first asks whether the directory exists
(`Probe`) and installs if not, then looks at one file (`Pick`). `uninstall` is
`remove_dir_all`: what was listed at first is removed one by one, and the directory
when it is empty.

A file is absent, whole, or torn by the process whose unfinished copy it is; a torn file
is a file to `is_file`. The tarballs' contents, FALLBACK_RUNTIME_DIR and the environment
given to cargo are left out. `trouble` and `disturbed` are auxiliary: whether anything failed,
was killed or was removed; and whose command met a failure of its own or had another
process tear or remove a file.

### Bootstrap

A window's `win` follows `activate`, `bootstrapRustowl` and the dialogs. The binary in the
storage has a version or is the unfinished download of a window, and is executable or not.
`Setup` starts the process of that window's name in `Toolchain`; `Exited` is the listener of its
`exit` event. A window is closed, or crashes, anywhere. The rustowl on the `PATH`, if any, is
not the current one: with a current one nothing is installed.

### Hover

One module for three clients, because they keep the same state: `editor` picks one at first and
definitions named `VSCode...`, `Neovim...` and `Emacs...` say where they differ (`Listen`, what a move
does; `Asks`, what the timer asks about; `Draw`, what an answer does; enabling and disabling). A
place is the number of the move that went there, so that an answer can be told from an older one.
A decoration is `owned` while the client holds what it needs to remove it. `crossed` is
auxiliary: a move happened while a request was under way.

An answer is assumed to parse, files to stay open, and one editor to be visible; buffers
that are not Rust, BufUnload and the request on save are left out. In Emacs the code is that of
rustowl.el; that lsp-mode drops the answer to a request when another buffer is current is taken
from its `:mode 'current` (rustowl.el:98).

## Runs

Time and distinct states are those of two workers on a small machine. All runs
set `CHECK_DEADLOCK FALSE`: a bounded session, a call or a process ends.

| run | bounds | shows | states |
|---|---|---|---|
| `editor` | 3 messages, 2 in flight, 1 target, 1 function, a save | no interleaving strands the status or a task; a stop covers its tasks; only an abort within begin or end leaves a progress open; `check` and hovers are honest; a target is analyzed twice, or another's token removed, only by overlapping handlers; the status implements `StatusBoard` | 3.1 M, 125 s |
| `stop` | 3 messages, 2 in flight, 1 target; cargo and the client may never answer | a message waits, and the status stays at Analyzing, only for an answer that cargo or the client owe, and never for a running build of an earlier handler | 650 k, 100 s |
| `fresh` | 3 messages, 1 in flight, 2 versions of the sources | violated: an item of the old sources outlives the next analysis | |
| `stream` | 2 places in the channel, 4 lines, of which any may be unreadable | no event lost or repeated; the iterator ends at, and only at, the end or the failure of the output; no reader is left behind | 12 k |
| `cfg_small` | 3600 graphs of 3 blocks, the code's cutoffs | nothing invented; without a cutoff nothing is missed and definitely live is right | 128 k, 53 s |
| `match` | a match of 11 arms, the code's cutoffs | violated: a local moved in one arm is definitely live behind the match | |
| `rustowlc` | 2 processes, 3 starts, 2 functions, kills, failed writes, a panic | all functions are printed; what was printed is found in the cache unless a write went wrong | 3.4 M, 41 s |
| `ranges` | 3 ranges, positions 0 to 5 | the list operations against sets of positions | 276 k, 10 s |
| `decos` | 2 functions visited, one with two candidate locals, 2 uses, at positions 0 to 2; then 3 decorations of 3 kinds, at positions 0 to 5 | the right local is selected; innermost calls only, one decoration per position, the topmost, nothing else lost; the scan ends | 1.8 M, 107 s |
| `positions` | texts of 5 characters of 4 kinds | indices and clicks are right; columns are, without CR | 29 k, 2 s |
| `activation` | 1 window, 1 other process, 1 component of 2 files, 2 commands | an undisturbed install repairs whatever it finds; concurrent installs agree; an activation comes up over a whole sysroot and hangs only in a download of its own | 734 k, 94 s |
| `hover` | 2 files, 3 moves, 2 commands, each client | VS Code loses its decorations only by late answers; what is drawn is about its file, except in Neovim; a cursor that rests gets its decorations | 82 k, 13 s |

Why the bounds are enough:

* Backend. Three messages are an `initialize`, a message that starts or edits, and
  one that interferes with it; two handlers in flight give every pairwise
  interleaving. Its invariants are proved for any number of messages, handlers and
  targets. `Backend_targets.cfg` runs the liveness of `stop` with two targets, one handler
  at a time (771 k states).
* EventStream. A channel of two fills while two more lines wait; the safety
  properties are proved for any capacity.
* CfgAnalyzer. Three blocks give joins, nested and self loops, empty
  blocks and early exits, but no location that is reached more than ten times by different paths: that
  is the run `match`. The invariants are proved for any graph.
* Ranges and Decorations. Six positions place three ranges in every
  relation of overlapping, touching and nesting. The invariants of both are proved for lists of any
  length.
* SelectLocal. Two functions give both orders, three positions two sizes of ranges, with rivals within
  one function and between two; the invariants are proved for any number of functions, locals and uses.
* Rustowlc. Two processes that share the file, one of them started again after a kill; the
  invariants are proved for any number.
* Toolchain and Bootstrap. A crash and a recovery, or two installations at once, take
  two commands; the second file is needed for an installation that is killed, or overtaken, between
  two files. The window's process and the other one may both be any command. The two safety properties
  of `Toolchain` are proved for any number of processes, components, files and commands, and were run
  on it alone with two components and three commands (3.8 M states).
* Hover. Two files and three moves hold a request that is overtaken by a move away and a move back;
  two commands, a disabling and an enabling. The safety properties are proved for any number.
* Positions. Five characters hold two CRLF, or wide characters before and after a
  line end; the invariants are proved for texts of any length.

### Fairness

`ServerFairness`: every handler, waiting task and analysis task that can go on does
(tokio polls woken tasks), and the client reads what it is sent, so that sending ends.
Nothing is assumed of cargo: `cargo metadata`, `cargo clean`, the toolchain's setup and the build may hang;
nor of the client's answer to `workDoneProgress/create`, of arriving messages, saves or panics. The liveness
properties say for which of these a message, or the status, may then wait. `EventStream`:
the reader and the iterator are polled when woken, a killed child dies, a task
whose iterator has ended drops it; the child need not end, print, become unreadable or be cancelled.
`Ranges`, `Decos`: a call runs on. `BootSpec`: the extension's own steps and the local steps of
processes that run are taken (the event loop, the kernel). Downloads, the extension's and an installer's,
have no timeout and may stall for ever, and cargo need not end; users need not answer, dismiss, close
or start anything, and nothing need be killed. `Hover`: the timer fires and the server answers,
which `Backend` does for a cursor request, as its steps wait for nobody; moves and commands need not happen.

### Where the code differs from what is said of it

The runs of `PROJECT.json` that are expected to be violated:

* `fresh`: `did_change` resets `analyzed` before it stops the analysis
  (backend.rs:379), and `Crate::merge` keeps the older of two items.
* `match`: with eleven or more paths into a location, the visit cap drops states
  and a local is called definitely live that one path has moved
  (dataflow_analyzer.rs:298, against the comment at 348).

Configurations kept for reproduction, each violated in the same way:

* `Positions_crlf.cfg`: the condition in `clean_source` is the wrong way round (utils.rs:131), so
  in CRLF files decorations are drawn a character early per line.
* `Decos_call.cfg`: the functions of a file stand in the order in which their analyses ended, and a
  call in a closure is not selected when the closure's parent, with a move over the whole closure, stands
  first (decoration.rs:340, against docs/usage.md:39).
* `Toolchain_exit.cfg`: the error of a component's task is only logged, so an installer that has
  installed nothing exits with 0 and the extension comes up (toolchain.rs:228).
* `Hover_toggle.cfg`: every answer sets VS Code's `enabled` to its default, so an answer that is under
  way when the user disables showing enables it again (extension.ts:101).
* `Hover_neovim.cfg`: the timer of one buffer fires in another, asks about that one, and draws the answer
  in the first (highlight.lua:14).
* `Backend_ownToken.cfg`: with two handlers in flight keys of `process_tokens` are
  reused and a task removes the token of another (backend.rs:144).
* `Backend_progress.cfg`: a task aborted at the await of its Begin or End leaves the progress open
  (progress.rs:41, 77).
* `Backend_twice.cfg`: two handlers in flight pass each other's stops, and one target is analyzed by
  two tasks at a time (backend.rs:96).
* `CfgAnalyzer_loop.cfg`: a loop that assigns and moves a local is walked until the
  circuit breaker opens, against the comment at dataflow_analyzer.rs:244.
* `EventStream_lost.cfg`: an event sent between the two polls of one select is
  dropped when the analysis ends (analyze.rs:266).
* `Rustowlc_panic.cfg`: after a panicked task the rest is not joined (mod.rs:113).
* `Rustowlc_none.cfg`: a cache file that is not JSON, after a kill or during another
  process's write or one that failed, is taken for a cache that is disabled and, when it stays so, is
  never repaired (cache.rs:44).

Also seen, and promised by nobody: with two handlers in flight and a cargo that hangs,
a handler waits for the lock of the `JoinSet` until another message stops the
analysis; with several targets a waiting task that is late may, even with one handler
in flight, hold that lock over the first task of the next run while its second is to
be started. A client that does not answer `workDoneProgress/create`, or a `cargo clean` that hangs, keeps
the tasks' lock until a stop aborts them. A download that stalls keeps an activation waiting for ever.

## Theorems

TLAPS proves these for every value of the constants, from the modules' named
assumptions (the constants are numbers and sets of the expected kind; `MaxInFlight`
and the channel's capacity are not 0).

| theorem | property | argument |
|---|---|---|
| `BackendProofs!TypeCorrect` | `TypeOK` | `TInv` adds that a run about to start a task has one to start, that a task in its event loop has read the sources, and that the handler that reaps holds the lock |
| `BackendProofs!StatusIsWatched` | `AnalysisWatched` | with `RunOnce`: a run has no waiting task before its end, so that no second one can publish for it |
| `BackendProofs!TasksAreWatched` | `TasksWatched` | a waiting task leaves only when it saw, under the lock, that the `JoinSet` is empty |
| `BackendProofs!ShutdownCoversAll` | `ShutdownCovers` | the handler that reaps holds the lock, and spawning takes it |
| `BackendProofs!ProgressIsClosed` | `ProgressClosed` | `ProgressAt`: where a task is tells how far its progress is; `Fresh`: a run starts each of its targets once, so that a task about to be spawned is new |
| `BackendProofs!ChecksAnswerAtEnd` | `CheckAnswersAtEnd` | `CheckAlone`: a check is alone with its `Backend`, and nothing is in the `JoinSet` before its run and after its answer |
| `BackendProofs!CursorIsHonest` | `CursorHonest` | `CursorOne`: a cursor request is about one file |
| `BackendProofs!OneAnalysisAtATime` | `OneAnalysisPerTarget` | `OverlapInv`: what is in the `JoinSet` between a run's last stop and its last spawn is its own or of a handler it overlapped with; with `Fresh` |
| `BackendProofs!RemovesItsOwn` | `RemovesOwnToken` | `OwnInv`: what stands under the key of a task that may still poll its token is its own token, or that of a task whose handler overlapped with its own; the tokens of a run that overlapped with none are dropped all together, and not while it starts; the next key is new because the keys in use have a greatest (`Greatest`) |
| `BackendProofs!ImplementsStatusBoard` | `StatusBoardSpec` | initial states map to initial states, every step to `Begin`, `Publish` or a stutter, with `pending` as the refinement mapping |
| `EventStreamProofs!TypeCorrect`, `KeepsEvents`, `EndsOnlyAtClose` | `TypeOK`, `NoneSkipped`, `EndsAtClose` | the last with `EndKnown`: a permit, or a reader that is gone, means that the output was closed and read, or failed |
| `CfgAnalyzerProofs!TypeCorrect` | `TypeOK` | |
| `CfgAnalyzerProofs!FindsNothingElse` | `NothingInvented` | `Sound`: what is recorded, carried and queued is below any solution; `Flow` is monotone |
| `CfgAnalyzerProofs!FindsEverything` | `CompleteIfUncut` | every edge out of a visited location either is settled or its states are on their way, in the walk or in the work list (`Carries`, `OnItsWay`); a skip changes nothing because the location's effect was applied to at least as much |
| `CfgAnalyzerProofs!DefinitelyLiveIsSound` | `SoundIfUncut`, if the solution it is measured against is the least one (`MeaningIsLeast`, which `MCCfgAnalyzer!LeastSolution` is in the runs) | what an uncut walk has found is a solution of the equations, so that the least one is below it; with `NothingInvented` they are equal |
| `RustowlcProofs!TypeCorrect` | `TypeOK` | |
| `RustowlcProofs!EveryFunctionIsPrinted`, `NothingIsAnalyzedTwice` | `EveryFunctionPrinted`, `NotAnalyzedTwice` | `FnInv`: a function that was borrow checked is printed or has a task, not both and not twice; `LeftInv`: a process that has joined its tasks has none left or has lost one to a panic; `AloneInv`: while a process runs by itself the others rest; `FileInv`: as long as no write went wrong one process writes at a time, into a file it has emptied, and otherwise the file can be read; `CacheInv`: so a process by itself has a cache as soon as it needs one, what it prints is in it, and the file holds it once it has exited |
| `UtilsProofs!TypeCorrect`, `ResultIsFlat` | `TypeOK`, `FlatResult` | `ScannedApart`: ranges before the index are apart from all others, and merging keeps that because the merged range covers no more than the two |
| `UtilsProofs!CoverageIsExact`, `ExclusionIsExact` | `CoversExactly`, `ExcludesExactly` | what is covered is invariant in `eliminated_ranges`; the other loops have covered the pairs before the indices, or cut only excluded positions and their neighbours |
| `UtilsProofs!PositionsTyped` | `PosTypeOK` | |
| `UtilsProofs!BytesBecomeIndices` | `IndexOfByte` | `ByteInv`: the character sought starts at the byte, and the loop is not past it; what the text without CR is follows from its recursion (`DroppedIs`, by `Induct`) |
| `UtilsProofs!DrawnWhereItIs` | `ShownInCleanText` | `ShowInv`: in a text without CR, line and column are those of the character the loop is at |
| `UtilsProofs!ClicksFind` | `FoundAgain` | `FindInv`: the loop is not past the character, and the lines it still has to go are those in between |
| `DecorationsProofs!TypeCorrect`, `CallsAreInnermost` | `TypeOK`, `InnermostCalls` | the calls before the index are neither around nor within the new one |
| `DecorationsProofs!OneIsShown` | `OneShown` | `ScanInv`: decorations before the outer index show no position twice; within the inner loop the same holds up to the inner index for the current one, although pieces are inserted behind it |
| `DecorationsProofs!TopmostIsShown` | `TopmostShown` | `OrderInv`: the list stays in the order of `sorted`, and a decoration is as it was there unless the scan has cleared what stands before it; `TopInv`: what was pushed for a position still stands ahead of the scan, or nothing of a lower rank is shown there |
| `DecorationsProofs!NothingIsLost` | `NothingLost` | `CurrentInv`: the range compared is that of a decoration still ahead of the scan, or shares no position with what was before; `KeptInv`: a position something was pushed for keeps a decoration unless it lies beside another |
| `DecorationsProofs!SelectorTyped` | `SelTypeOK` | |
| `DecorationsProofs!RightLocalIsSelected` | `RightLocal` | `SelectInv`: while declarations are visited, the function has offered nothing but variables; a variable that was the first offer gives way only to a narrower one; what is narrower than all offers so far is what is selected; a call is selected only if the first offer was one |
| `DecorationsProofs!AnswersAreDrawn` | | `DecosSpec` implies `Decorations`' `Spec`: the selector's steps leave the decorations alone |
| `ToolchainProofs!TypeCorrect` | `TypeOK` | |
| `ToolchainProofs!InstallRepairs` | `ReinstallRepairs` | `Repairs`: of a process that nothing has disturbed, every file a task has passed is whole and the one it copies is its own, the directory it has seen is there, and it looks for cargo after it has installed it; steps of others make no file worse without disturbing it |
| `ToolchainProofs!InstallsAgree` | `ConcurrentInstallsAgree` | `Agrees`: without trouble an absent file is ahead of some task, a torn one is being copied by its process, and a file that is being copied over is there |
| `ToolchainProofs!ActivatesOverWhole` | `ActivatedOverWhole` | `BootSpec` implies `Spec`; `InstallsRun` and `InstallersDone`: the installer of a window that does not wait for it is done, has met a failure, or was disturbed |
| `HoverProofs!TypeCorrect` | `TypeOK` | with `Timers`: VS Code's timer knows its editor, only Neovim loses timers |
| `HoverProofs!LateAnswersLeak` | `OnlyLateAnswersLeak` | `OneAtATime`: while no answer is late, a timer, a request and decorations exclude one another |
| `HoverProofs!DrawnInRightBuffer` | `RightBuffer` | `Straight`: so are the requests under way |

Where a table row names a type invariant, no run lists it again.

Every invariant and action property of a passing run is stated by one of these theorems.

Model-checked only: liveness (`RequestsComplete`, `StatusSettles`, `IterEnds`,
`ReaderStops`, `Returns`, `ActivationSettles`, `RestIsShown`) and everything about ENABLED, which
TLAPS does not handle; and that the least solution in `MCCfgAnalyzer`, a recursive operator, is one.

The library's induction theorems take operators as parameters and cannot be used with the
provers at hand. Where a proof needs induction (`RemovesItsOwn`, the text without CR), it goes over
sets: strict inclusion of finite sets is well-founded, so a set of numbers that is not empty has a
least element (`Least`), and a set that holds 0 and the successor of each of its numbers up to n
holds n (`Induct`).

## Not modelled

* Translation of rustc's data to the model (`compiler/*`, most of `analyze.rs`) and
  Polonius' own output: structural, no state.
* Command line, completions, visualizer, build scripts: text. `perf-tests` is a crate to analyze.
* FALLBACK_RUNTIME_DIR, `set_rustc_env`, the download and the format of a tarball.
* The clients' request on save, the schemas of answers, texts of hovers, starting and stopping of
  the LSP client.
* `$/cancelRequest`, the health check, UTF-16 columns.

## Plan

Done: `Backend` with `StatusBoard`, `EventStream`, `CfgAnalyzer`, `RangeOps`, `Ranges`, `SelectLocal`,
`Decorations`, `Decos`, `Positions`, `Rustowlc`, `Toolchain` with `Bootstrap`, `Hover`; proofs of the invariants
and action properties of all of them. Next, in this order:

1. `Backend` over `EventStream`: that `TaskAnalyzed` and `TaskEnded` are an abstraction of it, and a
   proof of the refinement.
2. `$/cancelRequest` in `Backend`: a handler that is dropped at an await.
3. `Crate::merge` and `Workspace::merge` of several targets: fn_ids of different compilations.
4. Derived ranges of the Polonius analyzer, over `RangeOps`.
