# Ryofiles: models and proofs

Ryofiles is a file manager for a Wayland desktop, written in C++ and QML on Qt 6
and GIO. One GUI thread owns every object the views see; work that may block runs
on Qt's global thread pool, in helper processes, or as asynchronous GIO and D-Bus
calls, and comes back to the GUI thread as queued closures, signals or callbacks.
Nearly everything that is hard in this program happens on that way back: an answer
meets a state that is no longer the one it was asked in.

This directory holds TLA+ specifications of the parts where that matters, TLC
configurations that check them, and proofs for TLAPS. `PROJECT.json` lists the
runs, the source lines each definition stands for, the mutants that show that each
property can fail, the hazards and the findings. Paths below are relative to the
repository.

## 1. Inventory of the system

| Component | Source | State | Operations | Modelled by |
|---|---|---|---|---|
| Local operation queue | `src/operations/OperationManager` | rows, job state, conflict answer, pool threads | enqueue (copy, move, duplicate, new folder, delete, archive), cancel, resolveConflict, dismiss, clearFinished, destructor | `OperationManager`, `JobBoard` |
| File system steps of a transfer | same, `runJob` … `removePath` | source, target, backup | copy, move, rollback, set aside, restore | `FileTransfer` |
| Conflict sheet | `qml/Main.qml` | one sheet, one job id | show, choose, hide | `ConflictSheet` |
| Remote operations | `src/operations/RemoteOperationManager`, `qml/components/RemotePaneActions.qml` | rows, one active context, a tree thread | enqueue, cancel, resolveConflict, dismiss, GIO answers, destructor | `RemoteOperationManager`, `JobBoard` |
| Local trash | `src/trash/TrashManager` | entries, busy, generation; files and metadata on disk | trash, restore, refresh, watches | `TrashManager` |
| Archives | `src/archive` | created paths, temporary file | extract, roll back, create, publish; path policy | `ArchiveExtractor`, `ArchiveCreator`, `ArchivePathGuard` |
| Local listing | `src/fs/DirectoryModel` | path, rows, generation, watcher, debounce | setPath, setActive, setShowHidden, refresh, scans | `DirectoryModel` |
| Remote listing | `src/locations/RemoteDirectoryModel` | URI, rows, GIO contexts, generation | setUri, refresh, cancel, GIO answers, sort | `RemoteDirectoryModel` |
| Browsing session | `src/navigation/DirectorySession`, `src/locations/SessionFileModel` | history, index, backend on screen | navigate, back, forward, refresh, recovery | `DirectorySession` |
| Tabs and panes | `src/navigation/TabManager` | tabs, split panes, closed tabs | new, close, reopen, split, swap, activate, recover | `TabManager` |
| Storage volumes | `src/storage/DriveModel`, the handler in `main.cpp` | objects as last read, busy sets, pending refresh | mount, unmount, power off, D-Bus signals, service start and end | `DriveModel`, `Volumes` |
| Network mounts | `src/locations/Network*` | list of mounts; a connection with its prompt, a disconnection | connect, answer, cancel, disconnect, monitor signals | `NetworkMounts` |
| Preview scheduler | `src/preview/PreviewScheduler*` | two lanes: queue, active request, helper process, timers | submit, cancelOwner, process signals | `PreviewScheduler` |
| Preview loaders | `src/preview/MediaPreviewWorkflow` | selection, generation, debounce, result | setPath, setActive, metadata only, callbacks | `PreviewLoader` |
| Thumbnails | `src/thumbnails/ThumbnailProvider` | queue of responses over a pool | request, cancel, evict, run | `ThumbnailProvider` |
| Deep search | `src/search/DeepSearchModel` | results, generation, token | start, cancel, clear, batches, destructor | `DeepSearchModel` |
| Git | `src/git` | status, generation, watches; one action | refresh, debounce; stage, unstage, diff, cancel | `GitStatusController`, `GitActionController` |
| FileChooser service | `src/portal/FileChooserPortal`, `PortalPickerRequest` | pending requests, their processes | call, close, process signals, reply | `FileChooserPortal`, `PortalPickerRequest` |
| Picker | `src/picker`, `qml/Picker.qml`, `runPicker` | request, selection, name, confirmation | accept, save, confirm, filter, choice, exit | `PickerController` |
| Portal routing command | `src/portal/PortalRoutingManager` | a configuration file and a state file | status, enable, disable | `PortalRouting` |
| Clipboard, Ryoku helpers and settings, location parsing, text previews, probes, QML views | | mostly formats and wiring | | not modelled, see section 8 |

How they interact. `Main.qml` calls the managers and answers their signals. A
`TabManager` owns the sessions; a session owns one local and one remote listing and
shows one of them through `SessionFileModel`. `DriveModel` (by way of a handler in
`main.cpp`) and `NetworkLocationModel` tell every `TabManager` of unmounts through
two registries, and each session rewrites its history. `OperationManager`, scans,
the trash, searches and Git share the global pool; thumbnails have a pool of their
own; previews run in helper processes, one per lane. The FileChooser service is a
process of its own that starts the file manager as a picker, one process per call;
`ryofiles-portalctl` is a third program, which only edits files.

What makes each part correct, and what is hard about it, is written down as hazards
with their lines in `PROJECT.json`. In short:

* *queues*, local and remote: a row tells the truth about its job, a job that is
  alive keeps its row, a decision is carried out only on the conflict it was made
  for, every job ends, the destructor returns and leaves no thread behind;
* *what is done to files*: no data is lost, failure leaves no trace, completion is
  exact, whatever step fails and wherever the process dies; nothing is written
  outside an archive's root, nothing is replaced unasked;
* *listings and sessions*: what is on screen is the place the session says it is
  at, a settled listing is current, recovery loses no place;
* *volumes, mounts and tabs*: nobody is left in what is gone, closing a tab keeps
  the current one, a drive is powered off alone, no question of a connection is lost;
* *previews, thumbnails, search, Git*: what is shown belongs to the selection, the
  folder, the query; every request ends once; none is tried for ever;
* *portal*: each call is answered once with what its user chose; what enable did to
  the routing can be undone exactly.

## 2. Modules and their correspondence with the code

An action is one handler with everything it calls; the mapping to lines is in
`PROJECT.json`. History variables are marked as such where they are declared.

**OperationManager.** The GUI thread's side of a job (`listed`, `state`, `shown`,
`completed`) is `m_jobs` and the fields of `Job`; `posted` is the sequence of closures
that `updateJob`, `finishJob` and `waitForConflict` queue and that the `Run...` actions
take from its head. The fields under the job's mutex and its atomic are
`cancelRequested`, `resolved`, `answer` and `persistent`. `pc` is the place of a pool
thread inside `runJob`, cut wherever another thread can see or change something: in
`MeetConflict`, `Announce` posts the conflict, `Arm` takes the mutex again and resets
the answer, `WakeCancelled` and `WakeAnswered` end the wait. `Begin` needs a free thread
of the pool. `BeginDestroy` sets `m_stopping`, cancels every job and wakes its waiter;
`EndDestroy` is the return from `waitForFinished`. What the file system answers is a
nondeterministic choice.

**JobBoard** is what a list of jobs promises to a view, with no threads in it: rows
are queued, run, may wait and run again, and end once; only ended rows disappear, and
never return. Both managers implement it; the mapping sends `listed` to `rows` and
`state` to `status` (properties `RefinesJobBoard`, `RemoteRefinesJobBoard`).

**ConflictSheet** extends `OperationManager` with the one sheet of `Main.qml` and the
user in front of it. All answers go through the sheet, so it also says which conflict
the user saw (`answered`), and when nobody can answer one any more: `AnswerLost`, the
answer was thrown away and the sheet has gone with it, and `SheetTaken`, another job or
the trash has the sheet. What is said of jobs that end is therefore said here and not of
the manager alone.

**FileTransfer** is one source of a transfer, every call to the operating system a
step, with paths as model values, files as one piece of data and directories as a
piece per child. `MCFileTransfer` chooses the starts worth checking, and
`MCLocalJobs`, which extends both, puts it beside `ConflictSheet`.

**RemoteOperationManager** has one active job, which is a chain of GIO calls whose
callbacks run on the GUI thread, or, for a directory, a thread (`std::async`) that
copies the tree and posts closures (`RunRaise`, `RunResume`, `RunFinish`). Handlers
that end or add a job go on to `StartNext`; the views are told in between, so it is
a step of its own (`turn`) in which nothing else of the GUI thread runs. `TryCopy`,
`Follow`, `MeetConflict`, `FallAsleep` and `Wake` are the thread's conflict
hand-shake, `NextChild`, `CleanUp` and `DeleteSource` what it does to the trees.

**TrashManager** has `trash` and `restore` as the calls to the file system they make
(`createTrashInfo`, `moveToTrash`; `Inspect`, `Protect`, `Restore`, `AfterUndo`,
`DropInfo`, ...) on two pool threads, with scans, the watch and its debounce, another
program, failures of every call and a crash. All files have one leaf name, the case
in which names clash. `misled` remembers that a restore acted on a row whose name had
been freed and used again.

**ArchivePathGuard** is the lexical policy as operators on sequences of components: a
link's target is a `Walk`, which must never be above the root. **ArchiveExtractor**
uses it and creates entries one system call at a time, hard
links last and in passes, and rolls back newest first. **ArchiveCreator** checks,
walks and writes the sources into a temporary file and publishes it by
`renameat2`, or by a link and an unlink. `MCFileTools` extends the trash and both
engines and runs one of the three at a time.

**Ranks** has what several loops of the code do to a queue or a list: leave out some
of its elements and keep the order of the others (`RankIn`, `KthOf`, `Without`).

**DirectoryModel** (record `local`) and **RemoteDirectoryModel** (record `far`) are
the two listings. A pool-thread scan is created with the settings it will use, reads
the directory in a step of its own, and is published in another. Generations are
not counted: a scan or context carries whether its generation is still the current
one, which is all the code ever compares. **DirectorySession** composes them with
the history (which `recoverFrom` rewrites: `Kept` are the indices that stay, and `KthOf`
enumerates them) and the backend on screen, an unmount that the program hears of later,
and directories that others remove and make. `MCDirectorySession` adds a symmetry
of the shares and a view, in which scans, contexts and sorts whose generation is over are
only counted at each stage: what they carry is never shown again.

**TabManager** has every operation on tabs, panes and closed tabs; a session is the
place it shows. **DriveModel** distinguishes what the kernel has, what UDisks
exports and what the program has read; calls and everything UDisks sends are
separate. **Volumes** joins the two as `main.cpp` does. **NetworkMounts** joins
`TabManager` with the list of mounts, a connection with its prompt and a
disconnection, over GIO's monitor, where several mounts may stand for one root.
**Places** has both over one set of tabs: what can go away under a window.

**PreviewScheduler** is a lane: the queue, the active request, the helper process
with the requests it has not read and the lines not read from it, and two timers.
`Signals` are the handlers of the process and the timers. **PreviewLoader**
composes it with its loaders, whose callbacks run inside those handlers.

**ThumbnailProvider** has the reader thread of the image cache, which asks and cancels,
and the pool; `m_mutex` is held where the code holds it, and the pool's own queue is not
under it. **DeepSearchModel** has search threads entry by entry and the closures they
post; what is below a folder is the least set closed under `Children`.
**GitStatusController** abstracts a repository to a version. **GitActionController**
abstracts an index to what a file's entry is; `hasHead` may fail for any reason, as in
the code. `MCBackground`, which extends them and `Places`, runs one at a time.

**PortalPickerRequest** is what options and answers become, as operators over a file
system record. **PickerController** has a picker as a record and its operations as
operators. **FileChooserPortal** is the service: calls, handles, processes, one
reply each, other programs. **PortalRouting** has the configuration as a sequence of
lines and the state file as a record; a command is a sequence of steps, each of which
may fail or be the last. `MCPortal` runs the service (with the inputs of
`MCFileChooser`) or the command.

## 3. Runs

| Run | Module, bounds | What it shows |
|---|---|---|
| `local_jobs` | `MCLocalJobs`; 1 job of any kind with up to 3 sources and its sheet; or 1 transfer with every fault and a crash, or 2 to one target, 2 pieces, 1 sibling name | rows and sheet are truthful, a decision is made for the conflict shown; the source or its copy is always whole, failure undoes, completion is exact, no overwriting without Replace |
| `job_queue` | `ConflictSheet`; 2 jobs of any kind, 1 source, 1 pool thread, the sheet, nothing kept, fairness | live jobs keep their rows, the destructor is safe and returns, `JobBoard` is implemented; a job ends once the sheets shown are answered, unless it is forsaken (`AnswerLost`, `SheetTaken`) or forsaken jobs hold the pool; cancelling gets it out wherever its body is |
| `remote_queue` | `RemoteOperationManager`; 2 jobs of any kind, a directory of 2 files, 2 tries for a name, nothing kept, fairness | only the active job runs, a directory that is moved is not removed before its copy is whole, `JobBoard` is implemented, every job ends |
| `file_tools` | `MCFileTools`; 2 trash operations on 2 paths and 2 trash names with 1 event from outside; or every archive of up to 3 of 9 entries; or archives of up to 4 items with 1 change from outside | neither file of a restore is lost or stays hidden, a settled list is true; an extraction is whole or leaves nothing, links stay below the root; an archive appears whole, but for what is below a directory that cannot be listed, and replaces nothing |
| `preview` | `PreviewLoader`; 3 loaders, lane of 2, 2 requests, 1 stray line, 3 changes of selection, fairness | no request forgotten or tried three times, no stale preview, the spinner has work, every request is answered |
| `navigation` | `MCDirectorySession`; 2 directories, one of them mounted, 2 shares, 2 scans under way, 1 change on disk, history of 2 | rows, place and history stay together through scans, watcher, GIO answers and recovery |
| `window_services` | `MCBackground`; one of: 2 volumes (one unlocked from a device on a second drive of the same case) with 3 calls or outside events, or a share with 2 mounts, with 3 tabs and 1 closed tab; 4 thumbnails over a queue of 2 and 1 thread; 2 searches over 4 entries; the status of 3 folders with 2 changes; 2 Git actions on 2 files | nobody stays in what is gone, no question is lost, power-off is alone, closing keeps the current tab; each thumbnail ends once, results are of the search, the status of the folder and settled, one action at a time |
| `portal` | `MCPortal`; 2 calls of 6 kinds on 2 handles, 2 events; or configurations of up to 3 lines, 2 edits by others | each call is answered once with what was chosen, nothing is replaced unasked, saved names are free; what enable wrote can be taken back exactly after any kill or failure, reports are true |

Four more runs end in a violation; each checks one statement of the repository that
the code does not keep (section 5).

Components that share no state are in one run where they are small: a variable says
which of them a behaviour is about, so their state spaces add up and do not multiply,
and each property speaks of its own component. Where several properties of one component
have one theme, they are one property made of named parts (`WindowTellsTheTruth`,
`EveryJobFinishes`, `OutcomeIsTrue`, `WaitingIsNotInVain`, `RemoteWorkIsSafe`,
`TrashLosesNoFile`, `ExtractionIsAllOrNothing`, `ScreenTellsTheTruth`,
`NobodyStaysInWhatIsGone`); the module's type invariant is one of the parts.

Why the bounds are enough to be of interest. Three sources let a job meet a
conflict, reuse an answer and end differently on the last; one job suffices because
jobs meet only at the pool, the sheet and the list, which `job_queue` has with two.
One pool thread makes the second job wait, and be stuck behind a forsaken one; it is the
trash that takes the sheet there. With `PoolSize` 2 the jobs can take it from each other
as well: the properties hold there too (transfers only, 300 000 states), which takes too
long to be repeated with every run. Keeping no row makes pruning act at once,
where 32 in the code would need 33 jobs. Two pieces are what a partial copy needs,
one free name is what KeepBoth needs to find or miss. Two trash operations with two
names meet at one file, at one name, or not at all, and a third file can take the
place either wants. The nine entries repeat names, step through dots and links, and
link forwards, so that a second pass over hard links is needed. A lane of two
overflows with the third loader; two requests let one be active and one queued, the
third change of selection withdraws either. Three lines hold a section, an entry and
another line in any order, which every boundary of the parser needs. Two scans
overtake each other; a history of two has something before and after the current
entry in turn; the second share makes a remote answer stale. Three tabs have one
before and one after the current; the sibling drive and the unlocked volume are the
two ways in which a power-off reaches what is not on the drive itself; three events are the
end of UDisks, a call that starts it again and one that meets it. Four
thumbnails are one with the thread, two queued and one that evicts. Two searches are
the current and a late one; three results with batches of two leave one unflushed.
Two calls on two handles can use one handle twice. Each bound is a constant that only
occurs in guards of the environment or the user.

Deadlock is checked in `job_queue`, `remote_queue` and `navigation`. The others may
rightly stop: transfers that are done or dead, previews, calls, actions and events
whose bounded number is used up.

## 4. Fairness

* `FairSheetSpec` of `ConflictSheet`: weak fairness of each worker (a pool thread
  runs), of the event loop as one action (Qt runs posted events in order), of the return
  of the destructor, and of the user's answer to the sheet that is shown for a job
  (`Choose`): one answer each time, since the answer hides it. Nobody answers without a
  sheet, for `OperationDrawer` offers only to cancel a row that is not final and to
  dismiss one that is; nobody answers once the window is closing; and nobody has to
  cancel, dismiss, close the window or answer the trash.
* `FairSpec` of `RemoteOperationManager`: weak fairness of its event loop, its tree
  thread, the destructor, the user's answer to its sheet while that is shown, and of
  `GioReady`: GIO calls every callback in the end. The code sets no timeout, so without
  that nothing could be said about ending.
* `FairLoaderSpec` of `PreviewLoader`: weak fairness of `Deliver`, the event loop
  handing over process signals and timers. Nothing is assumed of the helper, which
  may hang or die: the request timer is what gets every request answered.
* The other models state safety only. Their "settled" invariants (`SettledListingIsCurrent`,
  `SettledTrashListIsTrue`, `StatusTellsTheTruth`, `NobodyStaysInWhatIsGone`) say
  what must hold whenever nothing is left to be delivered.

## 5. Findings

Each is a run whose only property quotes the repository and is violated.

* `lost_answer`: `waitForConflict` announces a conflict and resets the answer
  afterwards, so an answer given at once is thrown away
  (`OperationManager.cpp:697`); `OperationManagerTest.cpp:105` answers at once. The
  sheet has gone with the answer, so the job waits until it is cancelled.
* `same_target`: of two transfers to one free name the one that is refused deletes
  what the other has put there (`OperationManager.cpp:1060`).
* `external_route`: the state file outlives its route, and disable then removes an
  entry another tool wrote (`PortalRoutingManager.cpp:538`).
* `unstage_deletes`: when the probe for a first commit fails for any other reason,
  unstaging a file stages its deletion (`GitActionController.cpp:345`).

Other behaviour of the code that the modules show and no run reports. The properties
named here are stated in their modules and are false of the code:

* a second conflict, or one of the trash, takes the only sheet; the first job waits
  and no view can answer it (`Main.qml:270`; `SheetTaken` of `ConflictSheet`);
* a move whose source could be removed only partly deletes the complete copy as well
  (`OperationManager.cpp:933`; `NoDataLost` with the fault `dropPartly`);
* a directory copy cancelled between two children is reported as completed
  (`RemoteOperationManager.cpp:984`; `CompletedTreeIsWhole`);
* a request withdrawn while the helper starts leaves the helper running with no timer
  to end it (`PreviewSchedulerImplementation.hpp:67`; `IdleHelperWillExit`);
* a restore moves what has its row's name by then, also when that name was freed and
  used again since the row was read: another file comes to the row's path
  (`TrashManager.cpp:685`; the variable `misled`);
* sessions are not led out of a volume that others unmount, nor out of one whose
  mount point a listing took away before the answer came (`main.cpp:355-371`; the
  variable `unheard`);
* a directory that cannot be listed goes into an archive without what is in it, and the
  creation reports success, where `README.md:135` says that it preserves directories
  (`ArchiveCreator.cpp:397`; `ArchivePreservesDirectories`, the variable `unread`);
* a volume is mounted after UDisks ended and before the program has read of it: the bus
  starts UDisks for the call, reading of the end clears its busy mark, and a power-off is
  then called beside the mount, although `powerOff` says it waits for the storage
  operation under way (`DriveModel.cpp:710`; `PowerOffWaits`, the variable `unmarked`);
* a `git status` that a signal ended is no error: what it had said by then, perhaps
  nothing, is shown as the status (`GitStatusController.cpp:378`; the field `broken`);
* a network listing that the backend ends as cancelled by itself ends the loading with
  no error, and what was shown by then stays as if it were all
  (`RemoteDirectoryModel.cpp:479`; the field `cutOff`).

The passing runs are stated so that they do not hide these: `AlwaysWhole` excludes the
partly removed source by name and speaks of one transfer at a time, since `NoDataLost`
shows the two exceptions; `RemoteWorkIsSafe` says of a directory that every file is in
the source or in the copy, not how the row ends; `NobodyStaysInWhatIsGone` excludes the
volumes in `unheard`; `AnsweredJobsFinish`, a part of `EveryJobFinishes`, excludes by
name a job that nobody can answer any more (`AnswerLost`, `SheetTaken`) and one in the
queue of a pool that such jobs fill, and its other part, `CancelGetsAJobOut`, says what
is left to the user then; `PublishedArchiveIsWhole` excludes what is below a directory
in `unread`; `PowerOffIsAlone` excludes, in what it says of calls beside each other, the
time in which a call is unsettled that was under way when the end of UDisks was read
(`unmarked`); `StatusTellsTheTruth` excludes a status that is `broken`, until a refresh
ends well, and `ScreenTellsTheTruth` one that is `cutOff`, until the next scan.

## 6. Proofs

The theorems hold for every value of the constants that the named `ASSUME`s of the
components allow: any finite numbers of jobs, sources, names, directories, shares,
calls, files, lines, threads and events, in place of the bounds of section 3. Each
proof has the same shape: an invariant that is inductive, a lemma for each action that
keeps it, and the property as its consequence. What makes the invariant stronger than
the property is in each case something about what is *on its way* to the GUI thread.

| Module | Theorem | States the run's property |
|---|---|---|
| `LocalJobsProofs` | `TypeCorrect`, `LiveJobsStayListed`, `DestructorIsSafe` | parts of `WindowTellsTheTruth` |
| | `QueueImplementsBoard` | `RefinesJobBoard` |
| | `WindowIsTruthful`, `DecisionsAreSeen` | `WindowTellsTheTruth`, `NoUnseenDecision` |
| | `DataStayWhole`, `OutcomesAreTrue`, `NothingIsOverwrittenSilently` | `AlwaysWhole`, `OutcomeIsTrue`, `NoSilentOverwrite` |
| `RemoteOperationManagerProofs` | `RemoteWorkStaysSafe`, `RemoteQueueImplementsBoard` | `RemoteWorkIsSafe`, `RemoteRefinesJobBoard` |
| `FileToolsProofs` | `TrashLosesNothing`, `SettledListIsTrue` | `TrashLosesNoFile`, `SettledTrashListIsTrue` |
| | `ExtractionsAreAllOrNothing`, `ExtractedLinksStayBelow`, `PublishedArchivesAreWhole` | `ExtractionIsAllOrNothing`, `LinksStayBelowTheRoot`, `PublishedArchiveIsWhole` |
| `BackgroundProofs` | `GitActionsAreOneAtATime`, `StatusIsTrue`, `ThumbnailsFinishOnce`, `SearchIsTrue` | `OneGitActionAtATime`, `StatusTellsTheTruth`, `ThumbnailsAreFinishedOnce`, `SearchTellsTheTruth` |
| `PortalProofs` | `CallersGetWhatWasChosen`, `SavedNamesStayFree` | `TheCallerGetsWhatWasChosen`, `SavedNamesAreFree` |
| | `CallsAreAnsweredOnce`, `ReplacingIsConfirmed`, `RouteIsRestorable`, `ReportsAreTrue`, `RestoringIsExact` | `EveryCallIsAnsweredOnce`, `NothingIsReplacedUnasked`, `ManagedRouteCanBeRestored`, `ReportIsTrue`, `RestoreIsExact` |
| `DirectorySessionProofs` | `ListingIsCurrent`, `ScreenIsTrue`, `NothingLeadsBack`, `RecoveryIsLocal` | `SettledListingIsCurrent`, `ScreenTellsTheTruth`, `NoWayBackIntoUnmounted`, `RecoveryKeepsPlace` |
| `PreviewProofs` | `PreviewIsOfTheSelection`, `NobodyWaitsInVain` | `PreviewMatchesSelection`, `WaitingIsNotInVain` |
| `PlacesProofs` | `NobodyIsLeftInWhatIsGone`, `QuestionsAreOnTheScreen`, `DrivesGoAlone`, `TheCurrentTabIsKept` | `NobodyStaysInWhatIsGone`, `EveryQuestionIsOnTheScreen`, `PowerOffIsAlone`, `ClosingKeepsTheCurrentTab` |

The arguments.

**Local queue.** `NoWorkerOutlivesManager` follows from the destructor's wait for the
rows in `m_jobs` only if every body alive has a row: `LiveJobIsListed`. A row is
removed only in a final state, so one has to know that a final state means that the
body has returned: `TerminalIsQuiet`. A row becomes final only when `finishJob`'s
closure runs, so that closure, wherever it stands in the queue of the GUI thread,
must belong to a body that has left: `FinishIsLast`. For a new body,
`UnstartedIsBlank` says that nothing of it is in the queue yet. `IInv` is the
conjunction. For `QueueImplementsBoard` this is not enough: on the board a row waits
only after it has run, and does not end before it was begun. So `OrderInv` follows the
closures of a job through the queue: when the turn of a `waiting` comes its row says
Running (`ClosuresInOrder`, by `RunsAfter`), and a body that is at work has said so, or
has it in the queue (`BodyIsAnnounced`). Every step then maps to a step of the board
or to a stutter.

**Conflict sheet.** `RowInv` counts: what a row will show when the queue of closures
is empty is what its body has done, `Counted`. From it follows that the shown totals
are exact at the end. `SeenInv` ties each answer, each answer kept for all and the
open sheet to the conflict they were made for, through the window between `Announce`
and `Arm` in which the code throws an answer away.

**Remote queue.** While the tree's thread works its job stays the active one; all it
has posted is about that job, and its result is the last thing it posts (`ThreadOK`).
What it has copied is, unless something was skipped or the job cancelled, everything
but the children still to come (`FilesOK`), so a source is removed only when it has been
copied.

**Transfers.** `PhaseOK` says for each step how the file system differs from the one
the transfer found: the backup holds what was at the destination, and only the source
and the destination may differ. The theorems on data are, as the property, of one
transfer at a time; `NothingIsOverwrittenSilently` is of any number.

**Trash.** A trash operation between its info and its rename, and a restore between
its rename and the removal of the info, *hold* a name (`DiskInv`): its info is there,
its file is not, and nobody else can take it. The origins need, besides, what lies at
the paths and under the backup names. The proof attempt corrected the property: a
restore works from a row, and when the row is outdated, because its name has been
freed and used again since, it brings another file to the row's path; if it is then
undone after something else came to that path, that goes under the wrong info. The
history variable `misled` says that this happened, and the property's part on origins
excludes it. `ListIsFresh` is for the list: only the scan asked for last is taken, and
what it has missed is still to be reported.

**Archives.** *Creation* (`CreateInv`): an entry that is written has each of its
children written or still to come, unless the child was not there, others changed one of
the two or the directory could not be listed (`Accounted`); when the archive is
published nothing is to come. Only directories among the sources are listed, and the
archive is made in none of them, so its temporary is never one of its entries; that is
what the check before the walk (`destinationInsideDirectorySource`) is for. *Extraction*
(`ExtractInv`): what is at a path is the extraction's own exactly if it is recorded,
once, after its parent (`Owned`, `Recorded`), so a rollback, from the last record to the
first, meets a directory after everything of its own in it and can leave only one that
holds something of others. Every entry read so far is on the disk, or is a hard link
still to be made, or the extraction ends badly (`Extracted`); and a hard link's target
never changes once it is whole. *Links*: the depth after n components of a target is the
depth of the link's directory and the names, less the "..", among the first n
(`WalkCounts`), which is a statement on ranks; leaving out "." keeps both counts
(`DotsAreLeftOut`). So what the walk accepts is a target of which no prefix goes above
the root (`SafeTargets`).

**Git, thumbnails, search.** *Actions*: at most one result waits, the last request's,
and its thread has ended. *Status*: what carries the controller's generation is the
folder's and has failed, is `broken` or has read the repository after the last call for
a refresh, unless another refresh is about to start. *Thumbnails*: a response is in the
queue exactly while it waits for a thread, or is the one the reader is about to finish.
*Search*: rows, batches under way and what the thread holds are together the matches
among the visited, each once (`Gathered`); a folder that was entered has every entry
visited or still to come; so when nothing is left, what was visited is closed under
children and is the tree.

**Portal.** A call that is not answered is `Alive`: it keeps its handle, its picker
keeps the mode its request asked for, and what it accepted was free or confirmed; a call
that is answered is that and no more. *What the caller is told* (`AnswerInv`): the
picker and the service check the same things at two times, in two processes. The request
of a call is `Sound`, as its options were decoded; whatever the user does, the filter
and the choices of the picker fit it (`PickerFits`); what the picker accepts passes the
service's own checks on the files of that moment, and from then on until others disturb
them (`CallFits`). *The names of SaveFiles*: each is found knowing those before it
(`NamesAreGiven`), so it is free and new (`GivenNamesAreFree`), and if there is none the
call is refused. *Routing*: `RouteInv` says what each step of a command may rely on from
the steps before it, wherever it is killed; that `disable` restores the file line by
line rests on lemmas about what replacing, inserting and removing a line do to the
sections of a file and to the entry in force.

**Browsing session.** `SessionInv` says of the local listing that a scan not
overtaken is of the place and settings of the model, and that what it will miss is
announced by the watch or the timer; of the remote one that at most one answer is
fresh, that loading has one, and that rows which stand without loading or error are
all of them or `cutOff`. Recovery rewrites the history by the rank of what it
keeps (`KthOf`), and the lemmas on ranks say that order and current entry survive.

**Previews.** The invariant has a part for the lane and one for its loaders. *Lane*: an
id waits in one place only, in the queue or as the active request, is tried a second
time only after a helper has failed it, and whenever something waits a process that is
starting, a request timer or a signal still to be read moves the lane on. *Loaders*: an id
is used once and carries the generation its loader had then, so that an answer which
comes late, or is the second of a retried request, is either for the loader's current
generation and file or thrown away; a loader that shows a spinner has exactly one
request that waits. A cancelled owner's ids are taken out of the queue by rank
(`Without`), and the lemmas on ranks say what stays and that its order is kept.

**Volumes, shares and tabs.** `PlacesInv` follows what is on its way along three
roads. *Drives*: a call is marked busy until its answer has been read (`MarksStand`),
so that no two calls or unread answers clash (`NothingClashes`) and power-offs have no
other call beside them (`CallsAreApart`). The end of UDisks takes the marks away when it
is read; if no call is unsettled then nothing is lost, otherwise nothing is said of the
calls until all of them are settled, when all three hold again:
`DriveInv == DriveRest /\ (unmarked \/ CallsAreApart)`. `DriveRest` is what holds
throughout. A drive's power-off is planned on
the rows as last listed; that none of its volumes was mounted needs that the rows miss
nothing that is there, `NothingIsNew`: in the model drives are pulled out and none is
plugged in. A list that is not what UDisks has is followed by another
(`ListIsOnItsWay`). *Shares*: the monitor's signals are a ledger (`Tells`): the mounts
as the program counts them and the signals still to be read add up to what is mounted,
never below zero, so that each root that has gone has an end on its way to the queue or
is in it (`SharesAreLeft`). *Tabs*: `TabsMove` is all that a step of either may do to
them; with it each road is proved apart and the two are joined at the end, since no
place is both a volume and a share.

The theorems keep the exceptions of the properties they state, the variables `unheard`,
`unmarked`, `unread` and `misled` and the fields `broken` and `cutOff` (section 5).

The assumptions. Every named `ASSUME` gives sets and bounds the type they have in the
code (finite sets of jobs, files and entries; a pool with a thread; a history of two
entries at least, the program's limit being larger) and keeps the values for "none"
out of them. `PlacesAssumption` and
`DistinctPlaces` say that the home directory and the directory above the mount points
are not themselves volumes or shares and that no place is both; `DrivesAssumption`
that a block has at most one drive and one backing device, as in UDisks' properties have.
`ExtractAssumption` says that no name of an entry is "." or "..", as no file's
name can be, and that an archive is a sequence of entries of any kinds, paths and
targets; `CreateAssumption` that a selection is a sequence of items. Paths are one or
two components long, as in the runs (section 8); archives, targets and selections are
of any length. `OffersAssumption` says that what a call offers are lists and that it is
of one of the three kinds, as the D-Bus signatures of the methods have it;
`LayoutsAssumption` that the paths of a file system are finitely many.
`SearchAssumption` says besides that the entries under a search form a
tree: an entry has one folder and no folder is below itself, which
`std::filesystem` keeps to by not following links to directories.

What stays with TLC, and why:

* liveness (`EveryJobFinishes`, `DestructorReturns`,
  `EveryRemoteJobFinishes`, `EveryRequestIsAnswered`) and whatever speaks of `ENABLED`,
  which the prover does not do;
* what a definition computes by induction over data: the library's rules for it take
  operators as parameters, which the installed provers cannot instantiate. The
  definitions are said so that no proof needs one: histories, rows, queues and paths are
  rewritten by ranks, what is below a folder is the least closed set, and the two
  recursive functions are followed by looking for the smallest index at which they would
  fail: the walk of a link's target is a difference of ranks (`SmallestIsThere`), the
  names of SaveFiles are given in order (`LeastOf`); the two folds that are left
  (`ContentChanges`, `Changes`) only count for a bound.

Every invariant and every action property that a passing run checks is stated by a
theorem.

## 7. Plan

In order of importance.

1. Compositions: the scans, the jobs and the trash on one global pool (jobs blocked
   on conflicts use up its threads); `TabManager` over the histories of
   `DirectorySession` instead of places; `OperationManager` driving `FileTransfer`.
2. Parts left: `TextPreviewLoader` and the animation controller, the queue of Ryoku
   helpers in `DesktopIntegration`, the clipboard's clearing after a move, the reload
   of themes, `RemoteMutationRegistry` with `refreshRemoteSessions`, `ThumbnailStore`.

Hazards that no property covers, or that the models stop short of (files under
`src/src/`):

* `fs/DirectoryModel.cpp:93` the old rows stay under the new location until the scan
  ends; `:27` a directory that keeps changing may never be listed; `:84` Back to a
  directory that has gone leaves the rows of the one before; `:236` the watch of
  a directory that was removed and made again is not armed by a refresh.
* `locations/RemoteDirectoryModel.cpp:296` no timeout.
* `navigation/DirectorySession.cpp:507` a recovery may leave the same place twice in
  a row; `:640` the answer of an opened remote file is looked at one queue turn later.
* `preview/TextPreviewLoader.cpp:153` answers of the pool after the selection changed;
  `operations/OperationManager.cpp:402` progress reports pile up on the GUI thread.
* `trash/TrashManager.cpp:548` an operation that ends clears busy although others
  run; `:581` a batch stops at its first failure and reports only that.
* `main.cpp:355` only unmounts the program asked for reach the sessions.
* `operations/RemoteOperationManager.cpp:655` the next directory job is refused while
  the last thread returns; `:684` what others added to a moved directory is removed
  uncopied; `:1115` partial destinations, removed with what others put there.
* `git/GitStatusController.cpp:444` watched after read, and reports not yet read are
  dropped when the watches are set again.
* `picker/PickerController.hpp:520` a file that comes to exist between the picker's end
  and the caller's writing; `integrations/ClipboardController.cpp:290` a clipboard
  cleared that was set anew; `integrations/DesktopIntegration.cpp:681` two signals for
  one helper's end; `ryoku/RyokuIntegration.cpp:90` read first, watched after.

## 8. What is not modelled, and why

* *Local queue*: the validation of requests is the guard of `Start`; bytes, speeds and
  messages are left out. Callbacks that call the manager again from inside a signal
  are not modelled: the views queue none.
* *File steps*: deeper trees, symbolic links and permissions, which change what a
  call answers, not the order of the calls; other programs at work in the same
  directory; a crash of the whole machine.
* *Remote operations*: trees are one level deep with files as children; progress and
  messages; the context of a job that waits for a conflict when the destructor runs,
  which the code leaks.
* *Trash*: percent encoding, deletion dates, several volumes; the trash directories
  exist and are watched; creating and writing an info file is one step; a scan that is
  outdated before it has read is dropped; a report that comes while the watches are
  set again is lost, as in the code.
* *Archives*: backslashes in names, over-long paths, NUL characters, sizes and limits
  (a limit is a failure of the data), permissions and times; paths of more than two
  components; other programs do not remove what is being extracted.
* *Listings and sessions*: selection, scrolling, view mode, name filters, titles and
  the opening of remote files. Selection was tried and multiplies the states. Other
  programs act between two steps of the program, and the removal of a directory loses
  its watch, as Qt's watcher does.
* *Tabs and volumes*: a session is its current place; no drive is plugged in; the bus
  does not disconnect; an unlocked volume shows no drive and so is not held back by a
  power-off, as in the code; `refreshRemoteSessions` changes no tab. `powerOff` is
  called by no view today.
* *Network mounts*: the texts of the prompts; that a connection which succeeds leads
  into its mount is left to the user.
* *Previews*: oversized requests and a failing write to the helper; the second lane,
  which shares only the id counter; what a probe decodes.
* *Thumbnails, search, Git*: images and their store; a tree that changes under a
  search; what git prints; changes of a work tree that no watch sees; the status
  controller's destructor; `openTerminal`.
* *Portal and picker*: MIME types and globs, titles, window handles, limits on sizes,
  blanks around paths; selections have no duplicates; closing the picker's window ends
  it with no output, which the service answers as "other". In the run the numbered names
  never run out (two tries are enough for its names); the theorems allow for it.
* *Routing*: edits of the configuration while a command runs (nothing locks the file;
  the last writer wins), bytes that are not UTF-8, wording.
* *Not planned*: probes and decoders, option parsing, location parsing, QML layout,
  packaging, and the test and validation scripts, which have no running state.

## 9. How to run

    tlc -workers 2 -config ConflictSheet.cfg ConflictSheet.tla
    tlapm LocalJobsProofs.tla

Every run takes from seconds to about two minutes on two workers; the proofs take
some minutes in all, `BackgroundProofs`, `DirectorySessionProofs`, `FileToolsProofs` and
`PlacesProofs` most of them.
