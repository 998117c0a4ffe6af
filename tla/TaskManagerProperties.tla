------------------------ MODULE TaskManagerProperties ------------------------
(***************************************************************************)
(* What should be true of the Training Node's task manager.                *)
(***************************************************************************)
EXTENDS TaskManager, Functions

Reported(t) == Range(sent[t])
HowOften(t, s) == Cardinality({i \in DOMAIN sent[t] : sent[t][i] = s})

(* The timer callback of t has begun and its report is still to come. *)
TimerWillReport(t) == task[t].timer \in {"fired", "flagged"}

TaskObjects == [status : Statuses, cancel : BOOLEAN, dataReady : BOOLEAN, abort : BOOLEAN,
                timeout : BOOLEAN, timer : TimerStates, buffer : SUBSET SendCalls, epoch : Nat]
Places == [pc : PrepPCs \cup TrainPCs \cup BothPCs, task : Tasks \cup {NoTask}]
CallStates == [pc : CallPCs, task : Tasks \cup {NoTask}, lock : Nat,
               queued : BOOLEAN]

(* Every variable keeps to the values the code can give it. *)
TypeOK ==
    /\ task \in [Tasks -> TaskObjects]
    /\ queue \in Seq(Tasks) /\ ready \in Seq(Tasks)
    /\ {current, running} \subseteq Tasks \cup {NoTask}
    /\ tasks \in [Ids -> Tasks \cup {NoTask}]
    /\ locks \in [Ids -> Nat]
    /\ spool \in [Ids -> SUBSET SendCalls]
    /\ reading \subseteq Ids \X Nat
    /\ thread \in [{"prep", "train"} -> Places]
    /\ pending \subseteq SendCalls
    /\ submit \in [Tasks -> {"new", "registered", "enqueued", "answered"}]
    /\ call \in [Calls -> CallStates]
    /\ closing \in {"open", "stopped", "closed"}
    /\ sent \in [Tasks -> Seq(Statuses)]
    /\ loaded \in [Tasks -> SUBSET SendCalls]
    /\ left \subseteq Tasks

-----------------------------------------------------------------------------
(* No task disappears in silence: a task the node has cleaned up has been    *)
(* reported finished, failed or cancelled, or its time-limit callback is     *)
(* about to report it.  The paths that clean up without a report of their    *)
(* own (manager.py 285-288, 311-312) rely on another thread having reported. *)
NoSilentDeparture == \A t \in left :
    Reported(t) \cap Terminal # {} \/ TimerWillReport(t)

(* One verdict per cause: the pipeline itself pronounces at most one verdict *)
(* on a task; any other comes from its time limit (one CANCELLED) or from a  *)
(* ReportError call (one FAILED each).                                       *)
OneVerdictPerCause == \A t \in Tasks :
    LET limit  == IF task[t].timer \in {"reported", "done"} THEN 1 ELSE 0
        errors == Cardinality({c \in ErrorCalls : /\ call[c].task = t
                                                  /\ call[c].pc # "found"})
    IN  /\ HowOften(t, "FINISHED") + HowOften(t, "FAILED") + HowOften(t, "CANCELLED")
              <= 1 + limit + errors
        /\ HowOften(t, "FAILED") >= errors

(* A task trains only on data declared complete: without a data-wait         *)
(* deadline, whatever has gone past the prepare thread was the object of a   *)
(* Finish (or of the shutdown), and its loaders are not empty.               *)
TrainsOnCompleteData ==
    \A t \in Range(ready) \cup ({thread["train"].task} \ {NoTask}) :
        /\ task[t].dataReady \/ DataDeadline
        /\ loaded[t] # {}

(* A task that its timer has not fired on and no ReportError call has found  *)
(* is left with a final status, whatever its cancellation races with.        *)
(* (After one of them it may not be: a worker may write PREPARING or RUNNING *)
(* over the status.)                                                         *)
FinalStatusOnLeaving == \A t \in left :
    task[t].timer = "off" /\ (\A c \in ErrorCalls : call[c].task # t)
    => task[t].status \in Terminal

(* Somebody else has a hand in the data of t: a ReportError has found it and *)
(* deletes them, or another task that was submitted under its id deletes the *)
(* spool file of the id when it leaves (manager.py 158-170, 231-239).        *)
DataDisturbed(t) ==
    \/ \E c \in ErrorCalls : call[c].task = t
    \/ \E u \in Tasks \ {t} : IdOf[u] = IdOf[t] /\ submit[u] # "new"

(* t has been accepted and the prepare thread has not looked into its spool  *)
(* file yet.                                                                 *)
Collecting(t) ==
    \/ submit[t] = "registered"
    \/ t \in Range(queue)
    \/ thread["prep"] \in
         [pc : {"check", "announced", "wait", "waitFlags", "gotData", "load"}, task : {t}]

BatchesFor(t) == {c \in SendCalls : CallId[c] = IdOf[t]}

(* Nothing that is acknowledged in time is lost: a batch whose SendTrain is  *)
(* answered before the prepare thread looks into the spool file of its task  *)
(* (manager.py 138-147) is trained on if the task is reported FINISHED,      *)
(* although receive_data has chosen between memory and file under a lock it  *)
(* has let go of (113-127), whatever Finish, cancellations and deadlines do, *)
(* and whatever other tasks do; unless its data are disturbed.               *)
AcknowledgedDataTrained == \A t \in Tasks : \A c \in BatchesFor(t) :
    [](call[c].pc = "ok" /\ Collecting(t) =>
         []("FINISHED" \in Reported(t) => DataDisturbed(t) \/ c \in loaded[t]))

(* Between reading a spool file and deleting it nobody appends to it          *)
(* (manager.py 138-147): an append uses outside _lock the lock object it took *)
(* inside, which is still the one the reader holds.  It needs ids to be       *)
(* unique: under an id used again, clean-up has discarded the first object.   *)
FileReadAlone == [][\A t \in Tasks :
    thread["prep"] = [pc |-> "unlink", task |-> t] => spool'[IdOf[t]] \subseteq spool[IdOf[t]]]_vars

Waiting(t) == t \in Range(queue) \/ thread["prep"] \in [pc : PrepPCs, task : {t}]

(* As long as a task waits for data, Finish and ReportError find it under    *)
(* its id, unless a SendToTrain that repeated the id has put another object  *)
(* there (manager.py 96), or that one has taken the entry with it when it    *)
(* left (237).  Nothing else hides a waiting task: no clean-up of a task of  *)
(* another id, no failure and no shutdown.                                   *)
WaitingTaskReachable == \A t \in Tasks : Waiting(t) =>
    \/ tasks[IdOf[t]] = t
    \/ \E u \in Tasks \ {t} :
         /\ IdOf[u] = IdOf[t] /\ submit[u] # "new"
         /\ \/ tasks[IdOf[t]] = u
            \/ u \in left
            \/ \E th \in {"prep", "train"} : thread[th] = [pc |-> "sweep", task |-> u]

(* A queued task that is cancelled never trains.                             *)
QueuedCancelNeverTrains == \A t \in Tasks :
    [](t \in Range(queue) /\ task[t].cancel => [](thread["train"].task # t))

(* The node works like one line of tasks: one task trains at a time, in the  *)
(* order of acceptance, each at most once, through both threads and queues.  *)
Preparing == IF thread["prep"].task = NoTask THEN <<>> ELSE <<thread["prep"].task>>
Line == INSTANCE TaskLine
    WITH line <- ready \o Preparing \o queue, training <- thread["train"].task, gone <- left
ImplementsTaskLine == Line!Spec

(* With a time limit on every task, every accepted task leaves the node,     *)
(* whatever the data node does or fails to do, and however long the task     *)
(* before it in the line waits for data of its own (manager.py 262); also    *)
(* when a repeated SendToTrain has put two tasks under one id, of which only *)
(* the second can get the Finish.  An interrupt ends the promise: the        *)
(* process may end with tasks in its queues and in the hands of its threads. *)
EveryTaskLeaves == \A t \in Tasks :
    submit[t] = "enqueued" ~> t \in left \/ ~IsOpen
=============================================================================
