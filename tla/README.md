# MyTrainer in TLA+

This directory specifies and verifies the concurrent core of MyTrainer: a
master control (Go), a data node (Go) and a training node (Python) that together
take a training task from a console command to a saved model. It says what the
parts are, what is modelled, what TLC checks on small instances, what TLAPS
proves for all instances, and what is left for later. File and line numbers
refer to the repository's source.

## 1. The system

| Part | State it keeps | Operations |
|---|---|---|
| **Master** (`src/Training/back`) | the pool of ids (`manager/Idmanager.go`), the table of running tasks (`manager/manager.go`), the node registry, the task files, one client per task and node | `ApplyManager`, `CancelTask`, `Exit` and queries from the console; `TrainRemote` and `DatabaseRemote` reports from the two nodes |
| **Data Node** (`src/DatabasePlugin`) | the list of ids with a high-water mark (`manager/idmanager.go`), the table of tasks, the error table, the controller's worker channels | `SendToDatabase`, `Cancel` from the Master; a dispatch goroutine per batch of tasks, a worker goroutine per channel |
| **Training Node** (`src/TrainPlugin`) | a queue of accepted tasks, a queue of prepared ones, the table of tasks by id, the events and fields of each task, one spool file per id with a reader-writer lock | `SendToTrain`, `CancelTraining`, `QueryTraining` from the Master; `SendTrain`, `Finish`, `ReportError` from the Data Node; a prepare thread, a train thread, a timer per task |

A task goes: console → Master `ApplyManager` → `SendToTrain` (Training Node) and
`SendToDatabase` (Data Node) → Data Node workers `SendTrain` … `Finish` →
Training Node prepares, trains, saves → reports to the Master throughout. The
parts share nothing but these calls; every call may be retried
(`pkg/retry.go`, five times), so it may arrive twice.

### Where it is hard, and what makes it right

*Training Node.* Two worker threads, a pool of handler threads for each of the
two services and one timer thread per task write the same task objects. Some of
that is under `TaskManager._lock`, some under the task's lock, and much under
none: events are tested one after another, `status` is read and then
overwritten, the spool file is removed without its lock. It is right when

- tasks train one at a time, in the order of acceptance, each at most once;
- no task disappears without a verdict, and no cause brings two;
- a task trains on all the data acknowledged for it in time, and only when it has been told that they are complete;
- a task with a time limit leaves, whatever the data node does, as long as the process runs;
- the spool file is never read while it is appended to, and nobody waits for its lock for ever.

*Data Node.* Dispatch goroutines and workers share `TaskList` and `Top` without
a lock, and a worker's place in the list shifts when another one leaves. It is
right when every sample goes out under its own task, `Finish` follows the last
sample, the error threshold stops a task exactly once, and a task that ends
leaves no trace that would refuse its id later. On their way the rows are paged out
of a table that others change, and a file of JSON lines is taken apart in two passes
that drop lines from two lists; that is right when no row is sent twice or left out,
an image keeps its own word, and what is sent and what is counted as an error come to
what the file holds.

*Master.* Every call of the console and every report of a node runs in a goroutine of
its own. They share the pool of ids (which `GetId` changes under a *read* lock), the
table of tasks (which a report looks up and pops in two steps), and the two flags of
`Single`, from which any of them may conclude that the server has to stop – and
then waits, inside a handler, for all handlers. It is right when

- an apply works with its own entry of the table, whatever ids two applies have drawn;
- a task that a node has accepted stays in the table until its end has been reported;
- ids tell tasks apart, across restarts too;
- the process stops only when a console has left it, and then does stop, with its
  registry saved.

The hazards of all three parts, each at its line, are in `PROJECT.json`.

As committed the Go programs do not get past their own start-up: the Data Node
listens on `"50051"`, which is no address (`receive/receiver.go:205`), its
controller calls `wg.Done` without an `Add`, gRPC clients are made without
credentials, the Master indexes an empty slice in `NewDefaultTaskDb` (`taskdb.go:61`)
and takes the directory `taskdatabase` for granted, nobody calls `CommandLogger.Init`
(`commandLine/command.go:36`; `back/main.go:44` only makes the logger), so its list of
commands is empty and every `ExecuteByName` (`server.go` 178, 334, 351, 391: `apply`,
`joinnode`, `deletenode`, `checknode`) calls a nil function, and the console waits on a
`wg` that nobody has made (`managerClient.go:52`). The Training Node runs. That, and its
being where all threads meet, is why it came first. The models of the Data Node and of the
Master begin where their servers are up and, of the Master, where `Init` has filled the
list of commands; the former keeps the `wg.Done` without an `Add` (`FetchPanics`).

## 2. Modules

| Module | What it is | Source |
|---|---|---|
| `SharedLock` | abstract shared/exclusive lock with writer priority | – |
| `RWLock` | class `RWLock`: counters, condition variable, `wait`, `notify_all` | `task/manager.py` 23-61 |
| `RWLockProofs` | the lock's inductive invariant, four theorems | |
| `MCRWLock` | instance for TLC | |
| `TaskLine` | abstract line of tasks: accept, drop out, begin, end | – |
| `TaskManager` | `TaskManager`, its threads and timers, the handlers that call it, the cancellation points of the engine | `task/manager.py` 64-327, `task/task.py`, `server/*.py`, `train/engine.py` |
| `TaskManagerProperties` | what should be true of it | |
| `TaskManagerProofs` | type correctness and "no task disappears in silence" | |
| `TaskLineProofs` | the refinement of `TaskLine`, and what rests on a task being in one place | |
| `TaskEndProofs` | how tasks end: how many verdicts, on which data; the spool file and its lock | |
| `MCTaskManager` | instances for TLC | |
| `DataNode` | registration, cancellation, `Controller.Run`, `Begin`, `Get`, the workers, and the tables they share | `receive/receiver.go`, `controller/*.go`, `manager/*.go`, `errortable/errortable.go`, `handler/handler.go` (paging, outcome, `DisConnect`), `send/sender.go` (outcomes) |
| `DataNodeProperties` | what should be true of it | |
| `DataNodeProofs` | type correctness, error records, the threshold | |
| `DataRowProofs` | running tasks are counted, rows are handled once | |
| `MCDataNode` | instances for TLC | |
| `Selection` | the conditions of a task's query: what is refused, what a row meets | `handler/model.go` |
| `Feed` | the way of the samples: pages of a table that changes, the handling of a row line by line under the semaphore, the call, the decoding | `handler/handler.go`, `send/sender.go`, `data/decode.py` |
| `FeedProperties` | what should be true of it | |
| `FeedProofs` | all its safety properties | |
| `MCFeed` | instances for TLC | |
| `IdManager` | the pool of counters, the ids made of them, the way back | `back/manager/Idmanager.go`, `receiveremote/reciever.go` |
| `NodeRegistry` | the table of node addresses and its file | `noderegistry/noderegistry.go` |
| `TaskDb` | the records of finished tasks and the files they are looked for in | `taskdb/*.go` |
| `TaskTable` | abstract table of tasks: enter, leave | – |
| `Master` | composes the three: the handlers of the console and of the reports, `Single`, the clients of the two nodes, `main` from the end of `Run` on, crash and restart | `server/server.go`, `manager/manager.go`, `receiveremote/reciever.go`, `sender/sender.go`, `Database/database.go`, `main.go` |
| `MasterProperties` | what should be true of it | |
| `MasterProofs` | all its safety properties and the refinement of `TaskTable` | |
| `MCMaster` | instance for TLC | |

A definition introduced as a *variant* is the definition that follows it with a
plausible mistake in it (a dropped guard, a forgotten write, a wrong end of the
queue). No action uses it. Putting a variant in the place of its original breaks
the property it was written for, which shows that the property watches the code
and not the model's shape. `PROJECT.json` pairs every property with one.

### How `RWLock` corresponds to the code

A step is one critical section of `_cond`, up to leaving it or falling asleep in
`wait()`. `readers`, `writer`, `waitingWriters` are the three attributes; `pc` says
for each thread whether it is outside, asleep, woken, or holding. `NotifyAll`
turns every sleeper into a woken thread, and a woken thread re-tests its loop
condition when it gets the condition variable back, in any order relative to
threads that have just come. Python's `wait` wakes without a notification only on a
timeout, and the code passes none, so there are no spurious wakeups.

### How `TaskManager` corresponds to the code

Variables are the attributes: `queue`, `ready`, `current`, `running`, `tasks`
(`_tasks`), `task` (the fields of each `TrainingTask`, the four events as Booleans),
`spool` (the files), `locks` and `reading` (which `RWLock` object of an id is held
by the reader; dropping an id's lock from `_file_locks` starts a new generation),
`pending` (a local variable of `_prepare`). `thread` holds the place of the prepare
and the train thread and the task each works on, `submit` and `call` the place of
every handler and its locals, `closing` that of `close`. `sent`, `loaded` and `left`
are histories: the statuses reported, what a task's loaders were built from, which
tasks have been cleaned up.

| Code | Actions |
|---|---|
| `submit` | `SubmitRegister`, `SubmitEnqueue`, `SubmitReport` |
| `SendTrain`, `receive_data` | `GetTask`, `SendCheckStatus`, `SendDecodeError`, `SendRoute`, `SendToMemory`, `SendToFile` |
| `Finish` | `GetTask`, `FinishSetReady` |
| `handle_data_error`, `abort` | `GetTask`, `ErrorReport`, `ErrorReadStatus`, `ErrorSetStatus`, `ErrorAbort`, `ErrorClear`, `ErrorRemove` |
| `cancel`, `close` | `CancelCurrent`, `CancelSet`; `CloseStop`, `CloseCancel` |
| `_start_timeout`, `_on_timeout` | `PrepStart` arms; `TimerFires`, `TimerFlags`, `TimerReports`, `TimerSetsStatus` |
| `_prep_loop`, `_prepare`, `_wait_data_ready`, `_load_file` | `PrepTake` … `PrepCrashReport` |
| `_run`, `_train`, `engine.train` | `TrainTake` … `TrainReportDone` |
| `_cleanup` | `CleanData`, `CleanTables`, `CleanFile`, by either thread |

*Granularity.* Threads interleave between any two of: a block under `_lock`, an
event set or tested, a status read or written, a queue operation, a spool-file
operation, a report. Where several reads are one step, their values cannot be
told apart from one read at the first of them, because the events they read are
never cleared (`GivenUp`), or because no other thread looks in between
(`TrainTake`: only the train thread reads `_ready`). `close` sets its two events
in one step; the prepare thread reports the same cancellation whether it sees
one or both.

*Timer.* `threading.Timer.cancel` stops a timer that has not passed its wait;
afterwards the callback runs whatever anyone does. So a timer is armed, then
fired (past that check), and `TimerCancelled` stops only an armed one.

*Abstraction.* A batch is the call that carries it. A buffer is a set of batches,
so order and duplication of samples within a buffer are not seen. Reports are not
lost or delayed on their way: `remote_log.py` swallows every RPC error, so nothing
in the node depends on the answer. What the engine computes is a choice: any
epoch may raise, early stopping may end any epoch. `BuildFails` may always happen
(too many labels), and must happen when the buffer is empty. Reporting itself
does not raise in the model; in the code `task_log.py:42` could (see the hazards).

### How `DataNode` corresponds to the code

*State.* `records` is `ErrorTable.records`, `relate` the manager's map, `cancelled` the
elements whose context is cancelled. `list` and `fetched` are `IdManager.List` and
`Top`; `Number` is always `Len(list) - 1` and has no variable. `taskList`, `top`, `singles`
are the controller's `TaskList`, `Top` and `SingleList`; a channel is a number, `chans`
its content, so two entries of `taskList` may name one channel. `register`, `cancel`,
`begun`, `worker` hold the place and the locals of every `SendToDatabase`, every `Cancel`,
every goroutine in `Begin` and every goroutine in `Work`. Each `SendToDatabase` makes an
element of its own, so an element is its call, and `IdOf` gives its id. `counted`,
`verdicts`, `handled`, `finished` are histories.

| Code | Actions |
|---|---|
| `SendToDatabase` | `RegisterRecord`/`Refused`, `RegisterEntry`/`Exists`, `RegisterList`, `RegisterOffer` |
| `Cancel` | `CancelFinds`, `CancelHangsUp`, `CancelReleases`, `CancelPops`, `CancelFindsPlace`, `CancelRemoves` |
| `Run`, `IdManager.Get` | `FetchIds`, `FetchNothing`, `FetchPanics` |
| `Begin` | `BeginTask`, `BeginPage`, `BeginPageOver`, `BeginRow`, `BeginDrain`, `BeginAgain`, `BeginPuts`, `BeginStopped` … `BeginReleases` |
| `Controller.Get` and the worker it makes | `BeginGets`; `BeginMakes`, `BeginAppends`, `BeginCounts`, `BeginHires` |
| `Work`, `countErrors`, `Manager.Stop` | `WorkerTakes` … `WorkerUnrecords` |
| a Go panic | `FetchPanics`, `CancelPanics`, `BeginPanics`, `WorkerPanics`: the process ends |

*Granularity.* A step is a critical section of a table, a channel operation, a read
or a write of an unlocked field, a page query, a row handled, a call to the
Training Node. `Controller.Get` has no lock: `append` to `TaskList`, `Top++` and the
later read of `Top` are three steps, and the `append` works on the list as it was read,
so two goroutines lose a channel of each other or run `Top` ahead. Its scan for a
channel with room is one step. `IdManager.SelectPop` finds its place without the lock,
removes it under the lock and walks on: what the walk sees in the shifted array is
`MatchesAgain`, and a second match leaves the goroutine at place `stuck`, holding the
lock for good.

*What the program does not reach.* `Begin` ranges over a worker's channel that nobody
closes (`controller.go:95`): `BeginDrain` and `BeginAgain` never get out of the loop, so
`Controller.Pop` behind it has no action. `Controller.Stop`, `Receiver.Stop` and
`IdManager.Pop` have no caller that runs.

*Choices.* How many errors a handling counts – none, one, its whole sample count, or any
number up to `MostErrors` – and, independently of that, whether something is left to send;
whether a query fails (`ReadsFail`), what the Training Node answers, and when ten idle
seconds are over. A failed send counts one error, whatever the message holds
(`worker.go:72`). A call with its five
retries is one step; that a repeated call arrives twice is a matter of `Feed` and of the
Training Node (in `TaskData` a repeated `SendTrain` is another of its calls). `Total` is what
`Count` returned for a task, and need not match its rows: MySQL is read later.

### How `Feed` corresponds to the code

`Feed` is what `DataNode` leaves open: where the rows of one task come from, and what
`WorkerHandles` chooses (how many samples of a row fail, and whether something is left
to send). `SamplesAccounted` says what the choice comes to when the message is taken: the
errors a handling counts and the samples of its message are what the file holds.

| Code | Actions |
|---|---|
| others insert into and delete from the table | `RowAdded`, `RowDeleted` |
| `Count` | `Counts` |
| `Get` (`WHERE … AND ID > ? ORDER BY ID LIMIT ?`) | `GetPage`, `GetNothing`, `GetFails` |
| `Begin` putting a page's rows; a worker taking one | `PutRow`; `RowTaken` |
| `Handle`, to opening the file; `imageToTensor`, `textToTensor` | `HandleBegins`, `ReadsOne`, `OpenFails`, `OpensJSON` |
| `parseJSON` | `ScanBlank`, `ScanBad`, `ScanSample`, `ScanFails`, `ScanEnds` |
| `imagesToTensor` and the words in `Handle` | `ImageRead`, `ImageFails`, `ImagesEnd` |
| `SendToTrain`, `SendTrain`; the threshold reached, or the task over | `Arrives`, `SendAnswered`, `SendFails`; `SendGivenUp` |

A *job* is one dispatch of a row, with the locals of its handling: workers take rows
in any order, so any job may go on at any time. A row that no worker takes, because those
of its channel have left, stays `queued`. The variable `s` into which `parseJSON`
unmarshals is declared outside the loop and keeps what a line does not name
(`handler.go:278`); the model does the same, and the properties say what that comes to
(`Says`). A query that fails leaves no rows and its error is not looked at, so it looks
like the end (`GetFails`). Of a tensor the model keeps its number of dimensions, the
first of them, and for each cell what it was made from; pixels, paddings and widths
are left out. That a repeated message may be answered for only one of its arrivals is in
the model; an arrival after the Data Node has moved on is not.

### How `Master` corresponds to the code

*State.* `list` is `DefaultManager.List`, `pool` the `Number` of the id manager, `single1`,
`single2`, `closed` the atomic flags, `nodes` and `file` the registry and its file, `files`
the task records. `at` holds the place of every handler, `id`, `element`, `rest`, `number`
its locals, `main` the place of the main goroutine. An element is named by the apply
that made it; `hungUp` are its connections that have been closed. `training`, `gone`,
`about` (the task whose end a report tells) and `overlapped` are histories or
belong to the Training Node.

| Code | Actions |
|---|---|
| entering a handler, its first test of the context | `CallEnters`, `CallIsOver` |
| `Single.Check`, `SetSingle1`, `SetSingle2` | `Counts`, `Flags`, `SetSingle1`, `Loads1`, `Loads2`, `Stops` |
| `ApplyManager` with `GetId`, `Insert`, `Get`, `Send`, `Link` | `ApplyReadsConfig`, `DrawsFirst`, `DrawsRest`, `DrawsStore`, `DrawPanics`, `ApplyDials`, `ApplyInserts`, `ApplyGets`, `ApplySends`, `Sent`, `ApplyLinks`, `Linked`, `NotReached`, `ApplyAddsTrain`, `ApplyAddsData` |
| `CancelManager`, `TaskManager` | `CommandMisses`, `CommandPanics` |
| `JoinNode`, `DeleteNode`, `CheckNode` | `NodeJoins`, `NodeLeaves`, `NodesChecked` |
| `ViewTaskDb`, `DeleteTaskDb` | `RecordViewed`, `RecordDeleted` |
| `TrainRemote` with a final status, `finalize` | `ReportArrives`, `ReportLooksUp`, `ReportRecords`, `ReportPops`, `ReportGivesBack`, `ReportLeavesTrain`, `ReportLeavesData` |
| `main` after `Run`; a panic; the next start | `MainReturns` … `MainWrites`; `Panics`; `Restarts` |

*Granularity.* A step is a critical section, a load or store of an atomic flag, a read or
write of the pool's slice, the outcome of a call with its retries. `GetId` is three steps,
for its lock does not exclude its like. Loading the second flag and entering
`GracefulStop` are one step (`Loads2`), which only hides that a call may slip in between.
A slice header is written as a whole, although two goroutines write it without
exclusion. The clock moves only at a restart: within a process ids collide most when
all are of one second.

*What the program does not reach.* `extractCounter` never finds a counter, because
`fmt.Sprint` puts no blank between the clock and the counter (`LastField`); so
`InsertId` has no step that takes it, ids run out after a hundred applies, and the next
one panics (`DrawPanics`). `cancel` and `Task`, which the console's calls look up, are no
names in the table of commands even when `Init` has filled it: with a task listed the
handler calls a nil function (`CommandPanics`), so `Query` and `Cancel` of the two clients,
and what `CancelManager` would do after them, are never reached. The other names are there
only if `Init` has been called, which the program does not do (section 1); the model is of
the program with that call. `CheckExist` opens a record's file without the
`.db` it was written with (`checkexist.go:23`, `taskdb.go:144`), so `View` and `Delete` find
nothing; a record is never in an active file, whose path is no time. `Manager.Cover`,
`IdManager.Pop` and `TaskDb.Update` have no caller. Their modules model this as the
code does it, not as it was meant.

*Left out.* `DatabaseRemote` and reports that are not final only write a log line.
`Save` of the registry may fail at creating or writing its file; that path is left out,
as main only prints it. `CheckNode` reads only.

## 3. What TLC checks

| Run | Instance | Properties |
|---|---|---|
| `RWLock` | 4 threads, each reader or writer, again and again | `TypeOK`, `Exclusion`, `NoLostWakeup`, `CountersAgree`, `WritersProgress`, `ImplementsSharedLock` |
| `TaskFaults` | 1 task with a time limit and a data-wait deadline; one `SendTrain`, `ReportError`, `CancelTraining` | `TypeOK`, `NoSilentDeparture`, `OneVerdictPerCause`, `FinalStatusOnLeaving`, `QueuedCancelNeverTrains` |
| `TaskData` | 2 tasks; 3 batches of which one may not decode, a `Finish` for each task at any time, an interrupt of the process | `TrainsOnCompleteData`, `WaitingTaskReachable`, `AcknowledgedDataTrained`, `FileReadAlone`, `ImplementsTaskLine` |
| `TaskLeaves` | 2 tasks with a time limit each, both under one id; a batch and a `Finish` for it | `EveryTaskLeaves` |
| `DataReuse` | 2 registrations under one id, 2 cancellations; one row each; queries may fail | `TypeOK`, `NoOrphanRecord`, `RunningTaskCounted`, `ThresholdExact` |
| `DataEnds` | 2 registrations with an id and a row each, which may be dispatched by two goroutines | `HandledOnce`, `EveryWorkerConcludes` |
| `FeedRows` | 3 rows of a table that changes, pages of 2; every file of up to 2 lines of 7 kinds and of 3 lines of 4 kinds; a semaphore of 2 places | `TypeOK`, `NoRowTwice`, `NoRowSkipped`, `PairsKept`, `MessagesDecode`, `SamplesAccounted`, `EveryRowSettles` |
| `MasterApplies` | 2 applies that share a pool of one counter, 2 reports, an exit; panics; a restart | `TypeOK`, `ApplyKeepsItsEntry`, `AcceptedStaysListed`, `IdsTellTasksApart`, `ImplementsTaskTable` |
| `MasterEnds` | 1 apply, 1 report, a console that attaches and exits, one other command | `SavedOnExit`, `OnlyExitStops`, `ReportAnswered`, `LastTaskStopsMaster` |

and three runs that refute what the documentation says (section 5).

**What they show.** `Exclusion` and `NoLostWakeup`: the lock of the spool files is
right, although only the last reader notifies. `WritersProgress`: writers get in
however many readers come (readers may starve, and the abstract lock allows it).
`NoSilentDeparture`: three paths of the code clean a task up without reporting
(time limit and data error while waiting, time limit while training); each relies
on another thread having reported already, and in every interleaving it has, or
its callback is about to. `OneVerdictPerCause`: the pipeline pronounces at most one
verdict itself; a second one for the same task comes from its time limit or from
a `ReportError`, one for each. `ImplementsTaskLine`: through two queues and two threads
the node behaves like one line of tasks. `FinalStatusOnLeaving`,
`QueuedCancelNeverTrains`: a cancellation that races with every stage of a task
ends it, and in the queue ends it before training. `TrainsOnCompleteData`: without a
deadline, nothing trains that nobody has sent a `Finish` for, except in a shutdown.
`AcknowledgedDataTrained`: what is acknowledged before the prepare thread looks into the spool
file of the task is in its loaders, although `receive_data` chooses between memory and file
under a lock that it has released when it appends – and wherever `Finish` comes: as
`PrematureFinish` shows it may overtake batches of other workers, and a batch that is
acknowledged after the file has been read is lost, which the property leaves open. It has two
exceptions (`DataDisturbed`): a `ReportError` that has found the task deletes its data, and
another task under the same id deletes the spool file of both when it leaves.
`WaitingTaskReachable`: a waiting task is found under its id, so its `Finish` reaches it,
unless a retried `SendToTrain` has put another object there, or that one has taken the
entry with it when it left; nothing else hides it. `EveryTaskLeaves`: with a time limit every
accepted task leaves as long as nobody interrupts the process. The run has the retried
`SendToTrain` (`sender.go:89`), so once the second of the two tasks is there the first can
neither be found nor finished, and the second waits behind it, with its data there: the time limit is what
frees the line. `FileReadAlone`: nobody appends to a spool file between its being read and
its being deleted, although an append takes the lock object from `_file_locks` under `_lock`
and uses it later, and clean-up discards it.

Of the Data Node: `NoOrphanRecord`: an error record, which refuses the id to any later
registration, never outlives the entry through which it can be removed, so an id can be
freed; the entry of a task that was stopped may itself stay, and refuse its id, until
somebody cancels it. `HandledOnce`:
no row is handled twice, although ids are fetched by a mark, pages by a cursor, and the rows
a full channel refuses are put again. It has two exceptions, both real, and states them state by
state. An id that another registration names is entered in the list again, and a late worker
or dispatcher of the first task removes the entry of the second (`Pop` goes by id,
`manager.go:87`); and `SelectPop` lowers the mark `Top` for an id it takes off the list
although that id was not fetched, so ids behind the mark are fetched again (`TakenOff`). With
two registrations neither leads to a row handled twice, since a cancellation also closes the
semaphore that all handlers share and whoever would handle the row again panics first
(`WorkerPanics`); with four registrations, three of them one after another under one id, TLC
found a row handled twice with no cancellation at all. `ThresholdExact`:
the workers of a task find its error threshold once, and no error is lost in the
count. `RunningTaskCounted`: a task that still runs is still counted, or its verdict is on
the way to `Stop`; again unless another call has named its id, whose workers would take
the record away. `EveryWorkerConcludes`: a task that has a worker is finished at the Training
Node, or stopped, or hung up – though its dispatch goroutine may be waiting for ever, and
its workers share the list of channels with those of the other task, since a worker's idle
timer needs nobody. It excepts an id that is used again, a panic, and workers that wait
because `SingleList` stays full. It says nothing of a task without a worker of its own:
when all its rows went into channels of another task's workers (`controller.go` 112-117,
153-158), nobody sends its `Finish`, and a task behind a goroutine that waits at
`controller.go:95` is not dispatched at all. The model shows both; no document promises that
every task ends.

Of the feed: `NoRowTwice`, `NoRowSkipped`: paging by the last ID instead of by a position
makes the pages of a changing table add up; what is skipped is skipped for a query that
failed. `PairsKept`: bad lines leave the list of samples and unreadable images the list of
`good` ones, and still the k-th image and the k-th word come from one line – or, for a
field a line does not name, from the nearest line above that named it. `MessagesDecode`:
no message is refused by the Training Node for its shape. `SamplesAccounted`: of a row
whose message was taken, or that left nothing to send, the errors counted and the samples of
the message come to the lines of the file. Of a message that failed it says nothing: its
samples count as one error together, and it may have arrived all the same (section 5).
`EveryRowSettles`: no way out of `Handle` keeps a place of the semaphore that all
tasks share, so every row that a worker has taken is answered, failed, given up or dropped.
A row that stays in the channel of a worker that has left (`worker.go` 58-98) is not taken.

Of the Master: `ApplyKeepsItsEntry`: two applies that drew one id do not both get in
(`Insert` refuses the second), and what `Get` returns after `Insert` is one's own entry
unless a report or `Close` has removed it. `AcceptedStaysListed`: an accepted task is in
the table until a report of its own end has been handled, or its
process is over. No failure half way through an apply takes it out – the price is that
entries of tasks no node has accepted stay too, and keep the process from ending. There is
one exception (`Mistaken`), which TLC finds when it is dropped: two reports of one end look
the task up, the first pops it, an apply that drew the same id enters its own task and is
accepted, and the second report pops that one (`reciever.go:113`). `IdsTellTasksApart`: applies one
after another have ids of their own, over a restart because of the date in them; two
at a time may draw the same, and then one of them fails. `ImplementsTaskTable`:
whatever happens to ids, the table never enters a task over another, and a task leaves it
once. `SavedOnExit`, `OnlyExitStops`, `LastTaskStopsMaster`: the flags, read one after
another, stop the server only after an `Exit`; when a console has gone, the report of the
last task ends the process, and the registry is in its file. `ReportAnswered`: a report
waits for an apply that is still busy with the task's connection (`Disconnect` waits for
its wait group), and is answered, unless a handler hangs in `GracefulStop`.

**Bounds.** `Tasks`, the call sets and `Epochs` bound the safety runs of the Training Node;
beyond that `TaskData` has the interrupt and its bad batch only while the second task has
not been submitted (`RareAlone`), since both concern one task; and in `TaskLeaves`
(`RepeatedLater`) the second task is submitted after the first, as a repetition is, and
the batch has been dealt with by then or does not come: it would only go to the
second object as to any task. One task with one call of each kind contains every pairwise race of a
handler, the timer and a worker thread on one object; two tasks contain
the races between objects: one prepared while the other trains, one queued
behind another, two under one id. One epoch contains the three places of the
epoch loop (before, in, after). More tasks add length to the line, which the
abstract `TaskLine` shows to be all they add. The theorems of section 4 have none of these
bounds.

The Data Node's capacities are scaled down so that every limit is met: pages of one row
instead of 100, channels of one place instead of 15 that `Get` passes over when one is
taken instead of ten, one announcement instead of ten. Two registrations under one
id with two cancellations contain the overlaps of one task with its successor; two with an
id each contain the two dispatch goroutines that race for the list of channels, and rows of
one task in the channel of another's worker. `MostErrors` is one: more errors of one file
only reach the threshold sooner. The calls of a kind are alike (symmetry, in the safety run
only).

`FeedRows` enumerates files rather than sampling them: two lines of any kinds contain
every pair of "drops a line" and "keeps a field", three lines put a kept line between
two dropped ones. Three rows on pages of two give a full page, a page in part and an
empty one; a row may be added or deleted before, on and after each. Tries are two
instead of six.

The Master's pool has one counter, so that the second apply meets what the hundredth
would: an id drawn twice, an empty pool, the panic. Two applies and two reports contain
each pair of handlers on one entry; the clock goes to 1, for one restart. `MasterEnds`
has one handler of each kind instead, because all that `Single` and `GracefulStop` depend on
is whether somebody is in a handler and whether the table is empty.

**Fairness.** The safety runs assume none. `FairSpec` of the Training Node assumes, as long as
nobody interrupts the process, weak fairness for the prepare and the train thread (their
loops poll with a timeout and never block for ever: the wait for data is a poll, reports
have an RPC deadline), and for an armed timer (time passes) and a handler that has begun.
After an interrupt nothing is fair: `serve` returns after `close` without a join (`main.py`
86-90), and both threads are daemons (`manager.py` 88-91), so the process may end at any step.
No client is obliged to call.
On the Data Node only the workers are fair, together: the Go scheduler runs some worker
as long as one can go on. Their calls to the Training Node end: its handlers answer
without waiting for a training, a call on a broken connection fails, and there are
six tries at most; no deadline guards against a node that hangs. Neither the Master nor a
dispatch goroutine need do anything. In `Feed` some row that a worker has taken goes on;
nothing makes a row be dispatched or be taken.
On the Master `main` and every handler that has begun go on; nobody calls, no clock
ticks and no process starts again unless it wants to.
For the lock: a holder leaves its `with` block, and a woken thread gets the condition
variable back.

## 4. What TLAPS proves

For every finite set of threads (`ThreadsAssumption`), in `RWLockProofs`:

- `TypeCorrect`, `LockExcludes`, `WakeupsKept`, `CountersTellTheTruth`: `TypeOK`, `Exclusion`,
  `NoLostWakeup` and `CountersAgree` are invariants. None of them is inductive alone: the counters say nothing unless
  they count the threads at the places they stand for. `IInv` joins them with
  `CountersAgree` (`readers` is the number of reading threads, `waitingWriters` that of
  threads between their arrival and their acquisition, `writer` that somebody
  writes); each step moves one thread and changes a set by one member.
- `LockRefinement`: the steps of `RWLock` map to steps of `SharedLock` or stutters, with
  the sets of readers, writers and waiting writers as the mapping.

For all tasks, ids, calls and settings (`ConstantsAssumption`: `None` is no task, the
kinds of calls are disjoint, every call names an id), in `TaskManagerProofs`:

- `TypesKept`: `TypeOK` is an invariant, one lemma per handler and thread.
- `NobodyLeavesInSilence`: `NoSilentDeparture` is an invariant. The argument: a task
  leaves only through `clean`, and the worker that takes it there has either reported
  itself or has seen a flag. The inductive invariant `Inv` says so: `QueueSound` (a
  task is in at most one place of the pipeline), `FlagsSound` (a set `timeout` belongs
  to a timer that is about to report or has; a set `abort` and the places of
  `handle_data_error` that lead to it come after the FAILED report),
  `LeavingExcused` (whoever is on the way out has a verdict reported or one of those
  excuses). `Inv` was checked as an invariant by TLC before it was proved.

For all calls, ids, selections and capacities (`DataAssumption`: `None` is no call, the
functions have their types, `Room < Capacity`), in `DataNodeProofs`:

- `DataTypesKept`: `TypeOK` is an invariant. It says more than types: `fetched < Len(list)`,
  the entry of an id names that id, `TaskList` holds only channels that were made. The
  inductive invariant `IInv` adds what each place of a goroutine says of its locals
  (`BeginSound`: there is a task and a row in hand where one is used, the index it puts
  to is no less than zero, `Top` has a worker when one is hired; likewise for a worker
  and a `Cancel`). `Top` may go back when two goroutines count at once, so `Grows` asks only
  that it stays a place.
- `RunningTasksAreCounted` (in `DataRowProofs`): `RunningTaskCounted` is an invariant. As long
  as no other call has named its id, the entry, the workers and the record under the id are
  the task's own (`Known`, `OwnId`), and the record goes only with the threshold, a `Finish` that
  also removes the entry, or a `Stop` that cancels the task (`Accounted`).
- `RowsAreHandledOnce` (in `DataRowProofs`): `HandledOnce` is an invariant. A row is at one place
  at most: its id listed and not fetched, or among the ids a goroutine has to do; its page
  still ahead; on a page; in a goroutine's hand; in a channel; with a worker; or handled (`Sole`).
  Every step moves a row out of the place it was in: one lemma (`Traced`) says that a step after
  which every place has one source keeps `Sole`, the others give the source, action by action.
- `NoIdRefusedForEver`: `NoOrphanRecord` is an invariant, given `IInv`: whatever removes an
  entry removes the record in the same step.
- `ThresholdFoundOnce`: `ThresholdExact` is an invariant, with `Counting`: a record holds
  exactly the errors counted for the call that inserted it and is below its
  threshold; a call that has not begun has none.

For all tasks, ids, calls and settings, and for every map from tasks to ids (also one
that uses an id again), in `TaskLineProofs`:

- `LineRefinement`: the Training Node implements `TaskLine`, with the two queues and the
  two threads' tasks as its line. `StepKinds` says that a step moves at most one task,
  in six actions; `PlacesSound` that a task is in one place; each of the six is then a step
  of the line, which is a matter of sequences.
- `CancelledInTime`: `QueuedCancelNeverTrains`. A cancelled task that has not begun is
  `Doomed`: its event stays set, and every way to training tests it.
- `CompleteDataOnly`: `TrainsOnCompleteData`, from `DataSound`: a prepare thread past its wait
  has seen `data_ready`, or there was a deadline.
- `FoundWhileWaiting`: `WaitingTaskReachable`, for every map from tasks to ids. The entry of an
  id changes in two steps only, a registration under it and the clean-up of a task of it
  (`TableSteps`); the clean-up of the waiting task itself comes after its waiting, so any other is
  that of a second task of the id, which is then on its way out or has left (`SweptLasts`).
- `LeftWithVerdict`: `FinalStatusOnLeaving`. A status may be overwritten by a thread that has
  read before, so the invariant says who may still write (`ObjectKept`, `CallSound`) and what a
  task that nobody hurts any more has (`FinalSound`).

For the same instances, in `TaskEndProofs`:

- `VerdictsHaveCauses`: `OneVerdictPerCause`. A task is *open* (`Open`) from its submission until
  the pipeline pronounces on it, and nothing opens it again (`OpenFrom`); each step that
  reports is one of four kinds (`ReportKinds`): not a verdict, the pipeline's (from open to not
  open), the timer's, a `ReportError`'s. `Account` balances the verdicts against these: none from
  the pipeline while the task is open and one after that, one when the timer has reported, one for
  each call that has (`Aborters`).
- `AcknowledgedDataIsTrained`: `AcknowledgedDataTrained`, under no assumption on the order of
  calls. `IdsSound`: a call and a table entry name tasks of their id. `SpoolSound`: as long as a
  task is collecting, what is acknowledged for it is in its spool file, since the memory branch
  is for running tasks. From there the batches are followed to the prepare thread, the buffer
  and the loaders (`LoadingKept`, `LoadersKept`, `CarriedStep`); a task that shares its id with
  another or was found by a `ReportError` is excepted state by state.
- `ReadUnderItsLock`: `FileReadAlone`, if no id is used twice (`UniqueIds`). `LocksSound`: a lock
  object is discarded only with the task that is read under it, and until then the reader and
  every append go by the same one. With an id used again the property does not hold: the last
  append for a task that has gone goes by its discarded lock, while the file is read for its
  successor.

For all calls, addresses, numbers of counters and restarts (`MasterAssumption`,
`IdAssumption`), in `MasterProofs`:

- `MasterTypesKept`: `TypeOK`, with the table finite (`TInv`).
- `EntryIsTheCallersOwn`: `ApplyKeepsItsEntry`. An entry changes only in `ApplyInserts`, into an
  empty place, in `ReportPops` and at the end of a process, and whoever leaves is in `gone` from
  then on.
- `NoAcceptedTaskForgotten`: `AcceptedStaysListed`. An accepted task is in the table or gone
  (`AcceptedKnown`); a task is gone through a report of its end, through one of another's of its
  id, or with its process (`GoneInv`), where a report works under the id of the task it tells of
  (`ReportsInv`) and no id is of a second to come (`PastInv`).
- `TableRefinement`: `ImplementsTaskTable`, with `EnteredInv`: an apply that has not inserted
  yet is neither in the table nor gone.
- `OneIdOneTask`: `IdsTellTasksApart`. As long as no two applies overlapped, a counter that
  has been drawn in this second is neither in the pool nor in a stored tail (`Taken`,
  `ApartInv`); no counter is in the pool, or in such a tail, twice (`PoolInv`).
- `RegistrySaved`, `StopsOnlyWhenTold`: `SavedOnExit` (past `MainReturns` no handler of the
  console is active, and only they change the registry) and `OnlyExitStops` (until an
  `Exit` has begun `single1` is up and nobody stands past its load).

For all rows, files of any length, selections, page sizes, places and tries
(`FeedAssumption`), in `FeedProofs`:

- `DispatchedOnce`, `DispatchedAll`: `NoRowTwice`, `NoRowSkipped`, from `Ordered` (what is
  dispatched, what is on the page, what is still to be found lie in this order around
  the cursor) and `NoneLeft` (a wanted row below the cursor has been dispatched).
- `PairedOfOneLine`, `AlwaysDecodable`, `SamplesAddUp`: `PairsKept`, `MessagesDecode`,
  `SamplesAccounted`, from `JobSound`: place by place, what the locals of a handling say of
  the lines read so far (`ScanSound`), the images so far (`ImagesSound`) and the message
  (`ResultSound`).
- `TypeCorrect`: `TypeOK`; that `ioSem` stays within its places is the part that needs an
  invariant, `ioSem = Cardinality(Using)`.

Only model-checked: liveness (`EveryTaskLeaves`, `EveryWorkerConcludes`, `EveryRowSettles`,
`ReportAnswered`, `LastTaskStopsMaster`, `WritersProgress`), which TLAPS does not reach. Every other
property of a passing run, invariant, action property or refinement, has its theorem.

## 5. Where code and documentation disagree

| Run | Claim | What happens |
|---|---|---|
| `MixedRows` | `send/totrain.proto:30`: the `Id` of a batch says which task the data belongs to | `Controller.Get` (`controller.go:117`) picks the first channel with room, whatever task its worker serves: rows of one task are sent, and their errors counted, under the id of another |
| `PrematureFinish` | `send/totrain.proto:10`: `Finish` says that all data of a task has been sent | a worker that had no row for ten seconds sends `Finish` (`worker.go:80`) while rows of its task are with another worker, in another channel or on a page still to be read |
| `ExitHangs` | `README.md` 140: `exit` exits the console | with no task left, `Exit` calls `GracefulStop` in a handler of the server it waits for (`server.go:45`): it never returns, the console waits for the answer (`cmd/main.go:88`), and the registry of `README.md` 195 is not saved |

Found with these models and no longer run, as each showed what it had to:

- `README.md` 358-361, a data error evicts a queued task "before it ever starts":
  `_wait_data_ready` (`task/manager.py:262`) tests `data_ready` first and nothing tests `abort`
  after it; with a `Finish` set as well the task trains.
- `task/manager.py:4`, queued → preparing → running → finished / failed: `_prepare` and `_train`
  write PREPARING and RUNNING over a FAILED or CANCELLED of another thread (283, 307).
- `README.md` 206-208, an expired task's spool file is deleted: an append routed before the
  clean-up and made after it (`task/manager.py:127`) makes the file again.
- `README.md` 37, training starts upon receiving `Finish`: after a retried `SendToTrain` the
  table holds the second object (`task/manager.py:96`), and the first, at the head of the
  line, waits for ever.
- `README.md` 269, `Operator` supports `lte`: `SelectFunc` accepts it (`model.go:25`), `sqlExpr`
  has no case for it (`model.go:82`), and it selects as `eq` does (`Meets` in `Selection`).
- `README.md` 363-371, errors are counted per sample: a call that fails with a message of many
  samples counts one error (`worker.go:72`, `SendFails`), so with every call failing a task of
  large files does not reach its threshold.
- The late report of one task's end takes another task of the same id out of the Master's
  table, and records its end (`reciever.go` 99-113, `AcceptedStaysListed` without `Mistaken`); no document
  speaks of ids drawn twice.

Met while reading and kept in the models: what section 2 lists as not reached by the
program; the console prints "successfully applied" after an answer that is not OK
(`managerClient.go:68`).

## 6. Not modelled, and the plan

About 60 per cent of the lines of the implementation are protocol code generated by
`protoc`, which keeps no state; of the lines written by hand about half are stood for by a
definition. The rest of those is imports, interfaces, constructors, logging, the parsing
and printing of commands, the wiring of the processes, and functions that nothing calls
(section 2).

Left out for good: model code and losses (torch), the pixels and paddings of
preprocessing, MySQL and file access, generated protocol code, metrics, log files,
formatting and console parsing. They keep no state that a protocol depends on; where
they may fail, the failure is a choice in the model.

Planned:

1. The Data Node with mixed rows and thresholds: what of `README.md` 209-211 and 363-366 (a
   stopped task's data stops, 40 per cent of its own samples) is left when rows mix.
2. Composition: Master, Data Node and Training Node with duplicated calls, the Training
   Node as `TaskLine`, the Master as `TaskTable`.
3. A restart of the Training Node, which finds spool files of tasks it no longer knows
   (`task/manager.py:142`).
4. Reports that raise in the thread that makes them (`task_log.py:42`).
5. The training engine's arithmetic: the validation split, the count of bad epochs, the
   record format of the spool files.

## 7. Running it

    tlc -config TaskFaults.cfg MCTaskManager.tla
    tlc -config RWLock.cfg MCRWLock.tla
    tlc -config DataReuse.cfg MCDataNode.tla
    tlc -config FeedRows.cfg MCFeed.tla
    tlc -config MasterApplies.cfg MCMaster.tla
    tlapm RWLockProofs.tla
    tlapm TaskManagerProofs.tla
    tlapm TaskLineProofs.tla
    tlapm TaskEndProofs.tla
    tlapm DataNodeProofs.tla
    tlapm DataRowProofs.tla
    tlapm FeedProofs.tla
    tlapm MasterProofs.tla

Each configuration is named after its run; `PROJECT.json` names the module. The largest
runs are `MasterApplies` with 2.4 million states, `DataReuse` with 0.9 million and
`TaskData` and `TaskFaults` with 0.8 million each; `TaskData` and `TaskLeaves` take longest,
for their temporal properties.
