----------------------------- MODULE TaskManager -----------------------------
(***************************************************************************)
(* The core of the Training Node: TaskManager with its two worker threads  *)
(* (prepare and train), the time-limit timers of its tasks, and the gRPC   *)
(* handlers that run beside them.  Sources, under TrainPlugin/trainplugin: *)
(* task/manager.py, task/task.py, server/training_servicer.py,             *)
(* server/withtrain_servicer.py and the cancellation points of             *)
(* train/engine.py.                                                        *)
(*                                                                         *)
(* Granularity.  Threads interleave between any two of: a block under      *)
(* TaskManager._lock, an event set or tested, a task.status written, a     *)
(* queue operation, a spool-file operation, a report to the Master.  One   *)
(* such thing is one step.  A file lock is RWLock: its writers append in   *)
(* one step, its reader (the prepare thread) holds it over two.            *)
(*                                                                         *)
(* Abstraction.  A task is an object (an element of Tasks), its id is      *)
(* IdOf[t]; a batch of samples is the SendTrain call that carried it; a    *)
(* report is the status sent (whether the RPC reaches the Master is not    *)
(* this component's state: remote_log.py swallows its errors).             *)
(*                                                                         *)
(* A definition called a variant is the one that follows it with a         *)
(* plausible mistake; no action uses it.  Variants show that the           *)
(* properties would notice the mistake.                                    *)
(***************************************************************************)
EXTENDS Naturals, Sequences, FiniteSets

CONSTANTS
    Tasks,         \* the TrainingTask objects that SendToTrain calls create
    Ids,           \* task ids
    NoTask,        \* Python's None
    IdOf,          \* the id each task carries (a retried SendToTrain repeats it)
    TimeLimited,   \* the tasks whose TimeOut parses to a positive duration
    SendCalls,     \* the SendTrain calls, each carrying one batch
    BadCalls,      \* those among them whose tensors may fail to decode
    FinishCalls, ErrorCalls, CancelCalls,   \* Finish, ReportError, CancelTraining
    CallId,        \* the id a SendTrain, Finish or ReportError call names
    Epochs,        \* the configured number of epochs
    DataDeadline,  \* TRUE: TRAIN_DATA_WAIT_TIMEOUT is set
    MayClose       \* TRUE: the process may be interrupted

Calls == SendCalls \cup FinishCalls \cup ErrorCalls \cup CancelCalls

ASSUME ConstantsAssumption ==
    /\ NoTask \notin Tasks
    /\ IdOf \in [Tasks -> Ids]
    /\ TimeLimited \subseteq Tasks
    /\ BadCalls \subseteq SendCalls
    /\ SendCalls \cap (FinishCalls \cup ErrorCalls \cup CancelCalls) = {}
    /\ FinishCalls \cap (ErrorCalls \cup CancelCalls) = {}
    /\ ErrorCalls \cap CancelCalls = {}
    /\ CallId \in [SendCalls \cup FinishCalls \cup ErrorCalls -> Ids]
    /\ Epochs \in Nat
    /\ {DataDeadline, MayClose} \subseteq BOOLEAN

VARIABLES
    task,      \* the fields of each TrainingTask
    queue,     \* self._queue
    ready,     \* self._ready (the loaders of its tasks are in loaded)
    current,   \* self._current
    running,   \* self._running
    tasks,     \* self._tasks: id -> task
    locks,     \* self._file_locks: how often the lock of an id was discarded
    spool,     \* the batches in the file DATA_PATH/<id>.txt; {} is no file
    reading,   \* the file locks held for reading, as <<id, locks value>>
    thread,    \* where the prepare and the train thread are, and on which task
    pending,   \* _prepare's local variable: what it read from the file
    submit,    \* where the SendToTrain call of each task is
    call,      \* where every other call is, and its local variables
    closing,   \* where TaskManager.close is; self._stop is set unless "open"
    sent,      \* history: the statuses reported for each task, in order
    loaded,    \* history: the batches the loaders of a task were built from
    left       \* history: the tasks whose _cleanup is over

manager == <<queue, ready, current, running, tasks, locks>>
files   == <<spool, reading>>
threads == <<thread, pending>>
clients == <<submit, call, closing>>
history == <<sent, loaded, left>>
vars == <<task, manager, files, threads, clients, history>>

-----------------------------------------------------------------------------
(* Values *)

Terminal == {"FINISHED", "FAILED", "CANCELLED"}
Statuses == {"QUEUED", "PREPARING", "RUNNING"} \cup Terminal

(* A timer is armed; then its thread has passed the check of cancel();      *)
(* then _on_timeout has set the event, reported, and set the status.        *)
TimerStates == {"off", "armed", "fired", "flagged", "reported", "done"}

PrepPCs  == {"check", "announced", "wait", "waitFlags", "notReady", "gotData", "load",
             "unlink", "extend", "build", "crash", "crashReport"}
TrainPCs == {"announce", "start", "fit", "epoch", "save", "interrupted", "error",
             "setFailed", "trained", "markDone", "reportDone"}
BothPCs  == {"idle", "exited", "setCancelled", "clean", "unregister", "sweep"}
CallPCs  == {"new", "found", "checked", "toMemory", "toFile", "reported", "read", "failed",
             "aborted", "cleared", "ok", "rejected"}

Answered == {"ok", "rejected"}

NewTask == [status |-> "QUEUED", cancel |-> FALSE, dataReady |-> FALSE, abort |-> FALSE,
            timeout |-> FALSE, timer |-> "off", buffer |-> {}, epoch |-> 0]

Init ==
    /\ task    = [t \in Tasks |-> NewTask]
    /\ queue   = <<>>
    /\ ready   = <<>>
    /\ current = NoTask
    /\ running = NoTask
    /\ tasks   = [i \in Ids |-> NoTask]
    /\ locks   = [i \in Ids |-> 0]
    /\ spool   = [i \in Ids |-> {}]
    /\ reading = {}
    /\ thread  = [th \in {"prep", "train"} |-> [pc |-> "idle", task |-> NoTask]]
    /\ pending = {}
    /\ submit  = [t \in Tasks |-> "new"]
    /\ call    = [c \in Calls |-> [pc |-> "new", task |-> NoTask, lock |-> 0, queued |-> FALSE]]
    /\ closing = "open"
    /\ sent    = [t \in Tasks |-> <<>>]
    /\ loaded  = [t \in Tasks |-> {}]
    /\ left    = {}

-----------------------------------------------------------------------------
(* Building blocks *)

Report(t, s) == sent' = [sent EXCEPT ![t] = Append(@, s)]

(* Thread th, working on t at place "from", goes to place "to" ...            *)
Moves(th, t, from, to) ==
    /\ thread[th] = [pc |-> from, task |-> t]
    /\ thread' = [thread EXCEPT ![th].pc = to]

(* ... and does nothing else, or reports a status, or writes the task object. *)
Goes(th, t, from, to) ==
    /\ Moves(th, t, from, to)
    /\ UNCHANGED <<task, manager, files, pending, clients, history>>

Reports(th, t, from, status, to) ==
    /\ Moves(th, t, from, to)
    /\ Report(t, status)
    /\ UNCHANGED <<task, manager, files, pending, clients, loaded, left>>

Writes(th, t, from, to, object) ==
    /\ Moves(th, t, from, to)
    /\ task' = [task EXCEPT ![t] = object]
    /\ UNCHANGED <<manager, files, pending, clients, history>>

SetsStatus(th, t, from, status, to) ==
    Writes(th, t, from, to, [task[t] EXCEPT !.status = status])

(* A call at place "from" goes to place "to".                                 *)
Answers(c, from, to) ==
    /\ call[c].pc = from
    /\ call' = [call EXCEPT ![c].pc = to]

(* Timer.cancel() is too late for a timer whose thread is already past its check. *)
TimerCancelled(state) == IF state = "armed" THEN "off" ELSE state

-----------------------------------------------------------------------------
(* SendToTrain -> TaskManager.submit *)

SubmitRegister(t) ==
    /\ submit[t] = "new"
    /\ submit' = [submit EXCEPT ![t] = "registered"]
    /\ current' = t
    /\ tasks' = [tasks EXCEPT ![IdOf[t]] = t]
    /\ UNCHANGED <<task, queue, ready, running, locks, files, threads, call, closing, history>>

SubmitEnqueue(t) ==
    /\ submit[t] = "registered"
    /\ submit' = [submit EXCEPT ![t] = "enqueued"]
    /\ queue' = Append(queue, t)
    /\ UNCHANGED <<task, ready, current, running, tasks, locks, files, threads, call, closing,
                   history>>

SubmitReport(t) ==
    /\ submit[t] = "enqueued"
    /\ submit' = [submit EXCEPT ![t] = "answered"]
    /\ Report(t, "QUEUED")
    /\ UNCHANGED <<task, manager, files, threads, call, closing, loaded, left>>

SubmitNext(t) == SubmitRegister(t) \/ SubmitEnqueue(t) \/ SubmitReport(t)

-----------------------------------------------------------------------------
(* The handlers of SendTrain, Finish, ReportError and CancelTraining *)

(* TaskManager.get_task, the first thing each of the three id handlers does.  *)
GetTask(c) ==
    LET t == tasks[CallId[c]] IN
    /\ call[c].pc = "new"
    /\ call' = [call EXCEPT ![c].pc = IF t = NoTask THEN "rejected" ELSE "found",
                            ![c].task = t]
    /\ UNCHANGED <<task, manager, files, threads, submit, closing, history>>

(* SendTrain reads the status without a lock ... *)
SendCheckStatus(c) ==
    /\ Answers(c, "found", IF task[call[c].task].status \in {"QUEUED", "PREPARING"}
                           THEN "checked" ELSE "rejected")
    /\ UNCHANGED <<task, manager, files, threads, submit, closing, history>>

(* ... decodes: a failure overwrites the status and is not reported ...       *)
SendDecodeError(c) ==
    /\ c \in BadCalls
    /\ Answers(c, "checked", "rejected")
    /\ task' = [task EXCEPT ![call[c].task].status = "FAILED"]
    /\ UNCHANGED <<manager, files, threads, submit, closing, history>>

(* ... receive_data chooses, under _lock, the running task's memory or the    *)
(* spool file ...                                                             *)
SendRoute(c) ==
    LET id == CallId[c] IN
    /\ call[c].pc = "checked"
    /\ call' = [call EXCEPT ![c] =
          IF tasks[id] = NoTask THEN [@ EXCEPT !.pc = "rejected"]
          ELSE IF running # NoTask /\ IdOf[running] = id
               THEN [@ EXCEPT !.pc = "toMemory", !.task = running]
               ELSE [@ EXCEPT !.pc = "toFile", !.lock = locks[id]]]
    /\ UNCHANGED <<task, manager, files, threads, submit, closing, history>>

(* ... and appends when it has let go of _lock.                               *)
SendToMemory(c) ==
    /\ Answers(c, "toMemory", "ok")
    /\ task' = [task EXCEPT ![call[c].task].buffer = @ \cup {c}]
    /\ UNCHANGED <<manager, files, threads, submit, closing, history>>

(* Variant: writes the file anew.                                             *)
SendToFileAnew(c) ==
    /\ <<CallId[c], call[c].lock>> \notin reading
    /\ Answers(c, "toFile", "ok")
    /\ spool' = [spool EXCEPT ![CallId[c]] = {c}]
    /\ UNCHANGED <<task, manager, reading, threads, submit, closing, history>>

SendToFile(c) ==
    /\ <<CallId[c], call[c].lock>> \notin reading
    /\ Answers(c, "toFile", "ok")
    /\ spool' = [spool EXCEPT ![CallId[c]] = @ \cup {c}]
    /\ UNCHANGED <<task, manager, reading, threads, submit, closing, history>>

SendNext(c) == \/ GetTask(c) \/ SendCheckStatus(c) \/ SendDecodeError(c)
               \/ SendRoute(c) \/ SendToMemory(c) \/ SendToFile(c)

FinishSetReady(c) ==
    /\ Answers(c, "found", "ok")
    /\ task' = [task EXCEPT ![call[c].task].dataReady = TRUE]
    /\ UNCHANGED <<manager, files, threads, submit, closing, history>>

FinishNext(c) == GetTask(c) \/ FinishSetReady(c)

(* ReportError -> handle_data_error: reports, reads the status, aborts (the   *)
(* status, then the event), clears the buffer of a task that was not queued   *)
(* and removes the spool file; _remove_file takes no file lock.               *)
ErrorReport(c) ==
    /\ Answers(c, "found", "reported")
    /\ Report(call[c].task, "FAILED")
    /\ UNCHANGED <<task, manager, files, threads, submit, closing, loaded, left>>

ErrorReadStatus(c) ==
    /\ call[c].pc = "reported"
    /\ call' = [call EXCEPT ![c].pc = "read",
                            ![c].queued = task[call[c].task].status = "QUEUED"]
    /\ UNCHANGED <<task, manager, files, threads, submit, closing, history>>

ErrorSetStatus(c) ==
    /\ Answers(c, "read", "failed")
    /\ task' = [task EXCEPT ![call[c].task].status = "FAILED"]
    /\ UNCHANGED <<manager, files, threads, submit, closing, history>>

ErrorAbort(c) ==
    /\ Answers(c, "failed", IF call[c].queued THEN "cleared" ELSE "aborted")
    /\ task' = [task EXCEPT ![call[c].task].abort = TRUE]
    /\ UNCHANGED <<manager, files, threads, submit, closing, history>>

ErrorClear(c) ==
    /\ Answers(c, "aborted", "cleared")
    /\ task' = [task EXCEPT ![call[c].task].buffer = {}]
    /\ UNCHANGED <<manager, files, threads, submit, closing, history>>

ErrorRemove(c) ==
    /\ Answers(c, "cleared", "ok")
    /\ spool' = [spool EXCEPT ![CallId[c]] = {}]
    /\ UNCHANGED <<task, manager, reading, threads, submit, closing, history>>

ErrorNext(c) == \/ GetTask(c) \/ ErrorReport(c) \/ ErrorReadStatus(c) \/ ErrorSetStatus(c)
                \/ ErrorAbort(c) \/ ErrorClear(c) \/ ErrorRemove(c)

(* CancelTraining names no task: it takes the one submitted last.             *)
CancelCurrent(c) ==
    /\ call[c].pc = "new"
    /\ call' = [call EXCEPT ![c].pc = IF current = NoTask THEN "rejected" ELSE "found",
                            ![c].task = current]
    /\ UNCHANGED <<task, manager, files, threads, submit, closing, history>>

CancelSet(c) ==
    /\ Answers(c, "found", "ok")
    /\ task' = [task EXCEPT ![call[c].task].cancel = TRUE]
    /\ UNCHANGED <<manager, files, threads, submit, closing, history>>

CancelNext(c) == CancelCurrent(c) \/ CancelSet(c)

CallNext(c) == \/ c \in SendCalls   /\ SendNext(c)
               \/ c \in FinishCalls /\ FinishNext(c)
               \/ c \in ErrorCalls  /\ ErrorNext(c)
               \/ c \in CancelCalls /\ CancelNext(c)

(* TaskManager.close, on an interrupt: _stop, then the two events of the      *)
(* current task (one step: the prepare thread gives the same verdict whether  *)
(* it sees the first alone or both).                                          *)
CloseStop ==
    /\ MayClose /\ closing = "open"
    /\ closing' = "stopped"
    /\ UNCHANGED <<task, manager, files, threads, submit, call, history>>

CloseCancel ==
    /\ closing = "stopped"
    /\ closing' = "closed"
    /\ task' = IF current = NoTask THEN task
               ELSE [task EXCEPT ![current].cancel = TRUE, ![current].dataReady = TRUE]
    /\ UNCHANGED <<manager, files, threads, submit, call, history>>

-----------------------------------------------------------------------------
(* The time limit: threading.Timer and _on_timeout *)

TimerStep(t, from, object) ==
    /\ task[t].timer = from
    /\ task' = [task EXCEPT ![t] = object]
    /\ UNCHANGED <<manager, files, threads, clients, loaded, left>>

TimerFires(t) ==
    TimerStep(t, "armed", [task[t] EXCEPT !.timer = "fired"]) /\ UNCHANGED sent

TimerFlags(t) ==
    TimerStep(t, "fired", [task[t] EXCEPT !.timer = "flagged", !.timeout = TRUE])
    /\ UNCHANGED sent

TimerReports(t) ==
    TimerStep(t, "flagged", [task[t] EXCEPT !.timer = "reported"]) /\ Report(t, "CANCELLED")

TimerSetsStatus(t) ==
    TimerStep(t, "reported", [task[t] EXCEPT !.timer = "done", !.status = "CANCELLED"])
    /\ UNCHANGED sent

TimerNext(t) == TimerFires(t) \/ TimerFlags(t) \/ TimerReports(t) \/ TimerSetsStatus(t)

-----------------------------------------------------------------------------
(* What both threads do with a task they drop: _cleanup takes its timer and   *)
(* data, then its table entries, then its file.                               *)

(* Variant: reports the cancellation but does not write the status.           *)
SetCancelledForgotten(th, t) == Goes(th, t, "setCancelled", "clean")

SetCancelled(th, t) == SetsStatus(th, t, "setCancelled", "CANCELLED", "clean")

CleanData(th, t) ==
    Writes(th, t, "clean", "unregister",
           [task[t] EXCEPT !.timer = TimerCancelled(@), !.buffer = {}])

(* Variant: pops the id of the current task.                                  *)
CleanTablesOfCurrent(th, t) ==
    /\ Moves(th, t, "unregister", "sweep")
    /\ running' = IF running = t THEN NoTask ELSE running
    /\ tasks' = [tasks EXCEPT ![IdOf[current]] = NoTask]
    /\ locks' = [locks EXCEPT ![IdOf[t]] = @ + 1]
    /\ UNCHANGED <<task, queue, ready, current, files, pending, clients, history>>

CleanTables(th, t) ==
    /\ Moves(th, t, "unregister", "sweep")
    /\ running' = IF running = t THEN NoTask ELSE running
    /\ tasks' = [tasks EXCEPT ![IdOf[t]] = NoTask]
    /\ locks' = [locks EXCEPT ![IdOf[t]] = @ + 1]
    /\ UNCHANGED <<task, queue, ready, current, files, pending, clients, history>>

CleanFile(th, t) ==
    /\ thread[th] = [pc |-> "sweep", task |-> t]
    /\ thread' = [thread EXCEPT ![th] = [pc |-> "idle", task |-> NoTask]]
    /\ spool' = [spool EXCEPT ![IdOf[t]] = {}]
    /\ left' = left \cup {t}
    /\ UNCHANGED <<task, manager, reading, pending, clients, sent, loaded>>

CleanNext(th, t) == \/ SetCancelled(th, t) \/ CleanData(th, t)
                    \/ CleanTables(th, t)  \/ CleanFile(th, t)

-----------------------------------------------------------------------------
(* The prepare thread: _prep_loop and _prepare *)

(* Variants: takes the newest task; clears an old cancellation.               *)
PrepTakeNewest ==
    /\ thread["prep"].pc = "idle" /\ queue # <<>>
    /\ thread' = [thread EXCEPT !["prep"] = [pc |-> "check", task |-> queue[Len(queue)]]]
    /\ queue' = SubSeq(queue, 1, Len(queue) - 1)
    /\ UNCHANGED <<task, ready, current, running, tasks, locks, files, pending, clients,
                   history>>

PrepTakeAfresh ==
    /\ thread["prep"].pc = "idle" /\ queue # <<>>
    /\ thread' = [thread EXCEPT !["prep"] = [pc |-> "check", task |-> Head(queue)]]
    /\ queue' = Tail(queue)
    /\ task' = [task EXCEPT ![Head(queue)].cancel = FALSE]
    /\ UNCHANGED <<ready, current, running, tasks, locks, files, pending, clients, history>>

PrepTake ==
    /\ thread["prep"].pc = "idle" /\ queue # <<>>
    /\ thread' = [thread EXCEPT !["prep"] = [pc |-> "check", task |-> Head(queue)]]
    /\ queue' = Tail(queue)
    /\ UNCHANGED <<task, ready, current, running, tasks, locks, files, pending, clients,
                   history>>

PrepExit == queue = <<>> /\ closing # "open" /\ Goes("prep", NoTask, "idle", "exited")

PrepCancelledEarly(t) ==
    task[t].cancel /\ Reports("prep", t, "check", "CANCELLED", "setCancelled")

PrepAnnounce(t) ==
    ~task[t].cancel /\ Reports("prep", t, "check", "PREPARING", "announced")

(* set_status, whatever the status is by now, and _start_timeout.             *)
PrepStart(t) ==
    Writes("prep", t, "announced", "wait",
           [task[t] EXCEPT !.status = "PREPARING",
                           !.timer = IF t \in TimeLimited THEN "armed" ELSE @])

(* _wait_data_ready polls: data_ready first, then the reasons to give up; it  *)
(* cancels the timer on the way out with data only.                           *)
WaitOver(t, from) ==
    Writes("prep", t, from, "gotData", [task[t] EXCEPT !.timer = TimerCancelled(@)])

(* Variant: the wait does not look at the time limit.                         *)
GivenUpUntimed(t) == task[t].cancel \/ task[t].abort

GivenUp(t) == task[t].cancel \/ task[t].abort \/ task[t].timeout

WaitDataReady(t) == task[t].dataReady /\ WaitOver(t, "wait")
WaitNotReady(t)  == ~task[t].dataReady /\ Goes("prep", t, "wait", "waitFlags")
WaitGivenUp(t)   == GivenUp(t) /\ Goes("prep", t, "waitFlags", "notReady")

(* Variant: a deadline though none is configured.                             *)
WaitDeadlineAlways(t) == ~GivenUp(t) /\ WaitOver(t, "waitFlags")

WaitDeadline(t)  == DataDeadline /\ ~GivenUp(t) /\ WaitOver(t, "waitFlags")
WaitAgain(t)     == ~GivenUp(t) /\ Goes("prep", t, "waitFlags", "wait")

(* Variant: takes every reason to give up for reported.                       *)
PrepGiveUpSilently(t) == GivenUp(t) /\ Goes("prep", t, "notReady", "clean")

(* Whoever timed the task out or aborted it reports it.                       *)
PrepGiveUp(t) ==
    (task[t].timeout \/ task[t].abort) /\ Goes("prep", t, "notReady", "clean")

PrepCancelledWaiting(t) ==
    /\ ~(task[t].timeout \/ task[t].abort)
    /\ Reports("prep", t, "notReady", "CANCELLED", "setCancelled")

PrepCancelledReady(t) ==
    task[t].cancel /\ Reports("prep", t, "gotData", "CANCELLED", "setCancelled")

PrepProceed(t) == ~task[t].cancel /\ Goes("prep", t, "gotData", "load")

(* _load_file: no file, or read it under the file's read lock ...             *)
LoadNothing(t) == spool[IdOf[t]] = {} /\ Goes("prep", t, "load", "build")

(* Variant: reads without the lock.                                           *)
LoadReadUnlocked(t) ==
    /\ spool[IdOf[t]] # {}
    /\ Moves("prep", t, "load", "unlink")
    /\ pending' = spool[IdOf[t]]
    /\ UNCHANGED <<task, manager, files, clients, history>>

LoadRead(t) ==
    /\ spool[IdOf[t]] # {}
    /\ Moves("prep", t, "load", "unlink")
    /\ pending' = spool[IdOf[t]]
    /\ reading' = {<<IdOf[t], locks[IdOf[t]]>>}
    /\ UNCHANGED <<task, manager, spool, clients, history>>

(* ... and delete it, which raises if ReportError has deleted it meanwhile.   *)
LoadUnlink(t) ==
    /\ \/ /\ spool[IdOf[t]] # {}
          /\ Moves("prep", t, "unlink", "extend")
          /\ UNCHANGED pending
       \/ /\ spool[IdOf[t]] = {}
          /\ Moves("prep", t, "unlink", "crash")
          /\ pending' = {}
    /\ spool' = [spool EXCEPT ![IdOf[t]] = {}]
    /\ reading' = {}
    /\ UNCHANGED <<task, manager, clients, history>>

LoadExtend(t) ==
    /\ Moves("prep", t, "extend", "build")
    /\ task' = [task EXCEPT ![t].buffer = @ \cup pending]
    /\ pending' = {}
    /\ UNCHANGED <<manager, files, clients, history>>

(* engine.prepare: build_loaders refuses no samples, or too many labels.      *)
BuildLoaders(t) ==
    /\ task[t].buffer # {}
    /\ thread["prep"] = [pc |-> "build", task |-> t]
    /\ thread' = [thread EXCEPT !["prep"] = [pc |-> "idle", task |-> NoTask]]
    /\ loaded' = [loaded EXCEPT ![t] = task[t].buffer]
    /\ ready' = Append(ready, t)
    /\ UNCHANGED <<task, queue, current, running, tasks, locks, files, pending, clients, sent,
                   left>>

BuildFails(t) == Goes("prep", t, "build", "crash")

(* The catch-all of _prep_loop: the status, then the report.                  *)
PrepCrashStatus(t) == SetsStatus("prep", t, "crash", "FAILED", "crashReport")
PrepCrashReport(t) == Reports("prep", t, "crashReport", "FAILED", "clean")

PrepNext(t) ==
    \/ PrepCancelledEarly(t) \/ PrepAnnounce(t) \/ PrepStart(t)
    \/ WaitDataReady(t) \/ WaitNotReady(t) \/ WaitGivenUp(t) \/ WaitDeadline(t) \/ WaitAgain(t)
    \/ PrepGiveUp(t) \/ PrepCancelledWaiting(t) \/ PrepCancelledReady(t) \/ PrepProceed(t)
    \/ LoadNothing(t) \/ LoadRead(t) \/ LoadUnlink(t) \/ LoadExtend(t)
    \/ BuildLoaders(t) \/ BuildFails(t) \/ PrepCrashStatus(t) \/ PrepCrashReport(t)
    \/ CleanNext("prep", t)

PrepThread == PrepTake \/ PrepExit \/ \E t \in Tasks : thread["prep"].task = t /\ PrepNext(t)

-----------------------------------------------------------------------------
(* The train thread: _run and _train, and the checks of engine.train.  Only   *)
(* this thread reads _ready, so taking a task and adopting it as _running are *)
(* one step.                                                                  *)

TrainTake ==
    /\ thread["train"].pc = "idle" /\ ready # <<>>
    /\ thread' = [thread EXCEPT !["train"] = [pc |-> "announce", task |-> Head(ready)]]
    /\ ready' = Tail(ready)
    /\ running' = Head(ready)
    /\ UNCHANGED <<task, queue, current, tasks, locks, files, pending, clients, history>>

TrainExit == ready = <<>> /\ closing # "open" /\ Goes("train", NoTask, "idle", "exited")

TrainAnnounce(t) == Reports("train", t, "announce", "RUNNING", "start")
TrainStart(t)    == SetsStatus("train", t, "start", "RUNNING", "fit")

(* Every epoch and every batch checks cancel and timeout; nothing checks abort. *)
MustStop(t) == task[t].cancel \/ task[t].timeout

EpochBegins(t) ==
    task[t].epoch < Epochs /\ ~MustStop(t) /\ Goes("train", t, "fit", "epoch")

(* append_loss counts the epoch; early stopping may break out of the loop.    *)
EpochEnds(t) ==
    \E to \in {"fit", "save"} :
        Writes("train", t, "epoch", to, [task[t] EXCEPT !.epoch = @ + 1])

EpochsOver(t) == task[t].epoch = Epochs /\ Goes("train", t, "fit", "save")
ModelSaved(t) == Goes("train", t, "save", "trained")

(* TaskCancelled is raised at an epoch or at a batch ...                      *)
TrainInterrupted(t) ==
    /\ MustStop(t) /\ task[t].epoch < Epochs
    /\ \E from \in {"fit", "epoch"} : Goes("train", t, from, "interrupted")

(* ... and loading the model, a batch or saving it may raise something else.  *)
TrainRaises(t) == \E from \in {"fit", "epoch", "save"} : Goes("train", t, from, "error")

(* A timed-out task is left to its timer to report, any other is cancelled.   *)
TrainTimedOut(t) == task[t].timeout /\ Goes("train", t, "interrupted", "clean")

(* Variant: falls through to the check after training.                        *)
TrainCancelledThrough(t) ==
    ~task[t].timeout /\ Reports("train", t, "interrupted", "CANCELLED", "trained")

TrainCancelled(t) ==
    ~task[t].timeout /\ Reports("train", t, "interrupted", "CANCELLED", "setCancelled")

TrainReportError(t) == Reports("train", t, "error", "FAILED", "setFailed")
TrainSetError(t)    == SetsStatus("train", t, "setFailed", "FAILED", "clean")

TrainedCancelled(t) ==
    task[t].cancel /\ Reports("train", t, "trained", "CANCELLED", "setCancelled")

TrainedInTime(t) == ~task[t].cancel /\ Goes("train", t, "trained", "markDone")

(* Variant: a status that status.py does not have.                            *)
TrainMarkSuccess(t) == SetsStatus("train", t, "markDone", "SUCCESS", "reportDone")

TrainMarkDone(t)   == SetsStatus("train", t, "markDone", "FINISHED", "reportDone")
TrainReportDone(t) == Reports("train", t, "reportDone", "FINISHED", "clean")

TrainNext(t) ==
    \/ TrainAnnounce(t) \/ TrainStart(t)
    \/ EpochBegins(t) \/ EpochEnds(t) \/ EpochsOver(t) \/ ModelSaved(t)
    \/ TrainInterrupted(t) \/ TrainRaises(t) \/ TrainTimedOut(t) \/ TrainCancelled(t)
    \/ TrainReportError(t) \/ TrainSetError(t)
    \/ TrainedCancelled(t) \/ TrainedInTime(t) \/ TrainMarkDone(t) \/ TrainReportDone(t)
    \/ CleanNext("train", t)

TrainThread == TrainTake \/ TrainExit \/ \E t \in Tasks : thread["train"].task = t /\ TrainNext(t)

-----------------------------------------------------------------------------
(* All calls of the run are over and the threads poll their queues, or have   *)
(* stopped: the only place where the node may rest.                           *)
Idle ==
    /\ \A th \in {"prep", "train"} : thread[th].pc \in {"idle", "exited"}
    /\ \A t \in Tasks : submit[t] = "answered" /\ task[t].timer \in {"off", "done"}
    /\ \A c \in Calls : call[c].pc \in Answered
    /\ UNCHANGED vars

Next == \/ \E t \in Tasks : SubmitNext(t) \/ TimerNext(t)
        \/ \E c \in Calls : CallNext(c)
        \/ CloseStop \/ CloseCancel
        \/ PrepThread \/ TrainThread
        \/ Idle

Spec == Init /\ [][Next]_vars

(* As long as nobody interrupts the process, both threads run for ever (their *)
(* loops poll with a timeout), timers elapse, and a handler that has begun    *)
(* ends: it waits only for an RPC with a deadline or for a file lock.  After  *)
(* an interrupt serve() returns without joining the threads, which are        *)
(* daemons (main.py 86-90, manager.py 88-91): the process may end at any step *)
(* of theirs, so nothing is fair any more.  Nothing makes a client call.      *)
(* (A timer or a handler is fair whenever all of them together are: each has  *)
(* only a few steps to take.)                                                 *)
IsOpen == closing = "open"

Underway ==
    \/ \E t \in Tasks : TimerNext(t) \/ (submit[t] # "new" /\ SubmitNext(t))
    \/ \E c \in Calls : call[c].pc # "new" /\ CallNext(c)

Fairness == /\ WF_vars(IsOpen /\ PrepThread) /\ WF_vars(IsOpen /\ TrainThread)
            /\ WF_vars(IsOpen /\ Underway)

FairSpec == Spec /\ Fairness
=============================================================================
