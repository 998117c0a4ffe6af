-------------------------- MODULE TaskManagerProofs --------------------------
(***************************************************************************)
(* Theorems about the task manager, for any tasks, ids, calls and epochs.  *)
(***************************************************************************)
EXTENDS TaskManagerProperties, TLAPS

-----------------------------------------------------------------------------
(* What the building blocks of TaskManager.tla do to the types.              *)

LEMMA ReportTyped ==
    ASSUME TypeOK, NEW t, NEW s \in Statuses, Report(t, s)
    PROVE  sent' \in [Tasks -> Seq(Statuses)]
<1>1. ASSUME NEW u \in Tasks PROVE sent'[u] \in Seq(Statuses)
    <2>1. sent[u] \in Seq(Statuses)
        BY DEF TypeOK
    <2>2. Append(sent[u], s) \in Seq(Statuses)
        BY <2>1
    <2>3. sent'[u] = IF u = t THEN Append(sent[u], s) ELSE sent[u]
        BY DEF Report, TypeOK
    <2> QED
        BY <2>1, <2>2, <2>3
<1> QED
    BY <1>1 DEF TypeOK, Report

LEMMA MovesTyped ==
    ASSUME TypeOK, NEW th, NEW t, NEW from,
           NEW to \in PrepPCs \cup TrainPCs \cup BothPCs, Moves(th, t, from, to)
    PROVE  thread' \in [{"prep", "train"} -> Places]
BY DEF TypeOK, Moves, Places

LEMMA GoesTyped ==
    ASSUME TypeOK, NEW th, NEW t, NEW from,
           NEW to \in PrepPCs \cup TrainPCs \cup BothPCs, Goes(th, t, from, to)
    PROVE  TypeOK'
<1>1. thread' \in [{"prep", "train"} -> Places]
    BY MovesTyped DEF Goes
<1> QED
    BY <1>1 DEF TypeOK, Goes, manager, files, clients, history

LEMMA ReportsTyped ==
    ASSUME TypeOK, NEW th, NEW t, NEW from, NEW s \in Statuses,
           NEW to \in PrepPCs \cup TrainPCs \cup BothPCs, Reports(th, t, from, s, to)
    PROVE  TypeOK'
<1>1. thread' \in [{"prep", "train"} -> Places]
    BY MovesTyped DEF Reports
<1>2. sent' \in [Tasks -> Seq(Statuses)]
    BY ReportTyped DEF Reports
<1> QED
    BY <1>1, <1>2 DEF TypeOK, Reports, manager, files, clients

LEMMA WritesTyped ==
    ASSUME TypeOK, NEW th, NEW t, NEW from, NEW object \in TaskObjects,
           NEW to \in PrepPCs \cup TrainPCs \cup BothPCs, Writes(th, t, from, to, object)
    PROVE  TypeOK'
<1>1. thread' \in [{"prep", "train"} -> Places]
    BY MovesTyped DEF Writes
<1>2. task' \in [Tasks -> TaskObjects]
    BY DEF TypeOK, Writes
<1> QED
    BY <1>1, <1>2 DEF TypeOK, Writes, manager, files, clients, history

LEMMA SetsStatusTyped ==
    ASSUME TypeOK, NEW th, NEW t \in Tasks, NEW from, NEW s \in Statuses,
           NEW to \in PrepPCs \cup TrainPCs \cup BothPCs, SetsStatus(th, t, from, s, to)
    PROVE  TypeOK'
<1>1. task[t] \in TaskObjects
    BY DEF TypeOK
<1>2. [task[t] EXCEPT !.status = s] \in TaskObjects
    BY <1>1 DEF TaskObjects
<1> QED
    BY <1>2, WritesTyped DEF SetsStatus

LEMMA TimerCancelledTyped ==
    ASSUME NEW state \in TimerStates
    PROVE  TimerCancelled(state) \in TimerStates
BY DEF TimerStates, TimerCancelled

-----------------------------------------------------------------------------
LEMMA InitTyped == Init => TypeOK
<1> SUFFICES ASSUME Init PROVE TypeOK
    OBVIOUS
<1>1. NewTask \in TaskObjects
    BY DEF NewTask, TaskObjects, Statuses, TimerStates
<1>2. [pc |-> "idle", task |-> NoTask] \in Places
    BY DEF Places, BothPCs
<1>3. [pc |-> "new", task |-> NoTask, lock |-> 0, queued |-> FALSE] \in CallStates
    BY DEF CallStates, CallPCs
<1> QED
    BY <1>1, <1>2, <1>3 DEF Init, TypeOK

LEMMA SubmitTyped ==
    ASSUME TypeOK, NEW t \in Tasks, SubmitNext(t)
    PROVE  TypeOK'
<1> USE DEF TypeOK, manager, files, threads, clients, history
<1>1. CASE SubmitRegister(t)
    BY <1>1, ConstantsAssumption DEF SubmitRegister
<1>2. CASE SubmitEnqueue(t)
    BY <1>2 DEF SubmitEnqueue
<1>3. CASE SubmitReport(t)
    <2>1. sent' \in [Tasks -> Seq(Statuses)]
        BY <1>3, ReportTyped DEF SubmitReport, Statuses
    <2> QED
        BY <1>3, <2>1 DEF SubmitReport
<1> QED
    BY <1>1, <1>2, <1>3 DEF SubmitNext

(* A call moves to a place of the code; and it may write a task object.      *)
LEMMA AnswersTyped ==
    ASSUME TypeOK, NEW c, NEW from, NEW to \in CallPCs, Answers(c, from, to)
    PROVE  call' \in [Calls -> CallStates]
BY DEF TypeOK, Answers, CallStates

LEMMA LooksUpTyped ==
    ASSUME TypeOK, NEW c, NEW p \in CallPCs, NEW t \in Tasks \cup {NoTask},
           call' = [call EXCEPT ![c].pc = p, ![c].task = t]
    PROVE  call' \in [Calls -> CallStates]
<1>1. ASSUME NEW d \in Calls PROVE call'[d] \in CallStates
    <2>1. call[d] \in CallStates
        BY DEF TypeOK
    <2>2. [call[d] EXCEPT !.pc = p, !.task = t] \in CallStates
        BY <2>1 DEF CallStates
    <2>3. call'[d] = IF d = c THEN [call[d] EXCEPT !.pc = p, !.task = t] ELSE call[d]
        BY DEF TypeOK
    <2> QED
        BY <2>1, <2>2, <2>3
<1> QED
    BY <1>1 DEF TypeOK

LEMMA FieldsTyped ==
    ASSUME NEW object \in TaskObjects
    PROVE  /\ \A s \in Statuses : [object EXCEPT !.status = s] \in TaskObjects
           /\ [object EXCEPT !.cancel = TRUE] \in TaskObjects
           /\ [object EXCEPT !.dataReady = TRUE] \in TaskObjects
           /\ [object EXCEPT !.cancel = TRUE, !.dataReady = TRUE] \in TaskObjects
           /\ [object EXCEPT !.abort = TRUE] \in TaskObjects
           /\ \A b \in SUBSET SendCalls : [object EXCEPT !.buffer = b] \in TaskObjects
           /\ \A s \in TimerStates : [object EXCEPT !.timer = s] \in TaskObjects
BY DEF TaskObjects

LEMMA ObjectTyped ==
    ASSUME TypeOK, NEW t, NEW object, t \in Tasks => object \in TaskObjects,
           task' = [task EXCEPT ![t] = object]
    PROVE  task' \in [Tasks -> TaskObjects]
BY DEF TypeOK

LEMMA GetTaskTyped ==
    ASSUME TypeOK, NEW c, CallId[c] \in Ids, GetTask(c)
    PROVE  TypeOK'
<1>1. tasks[CallId[c]] \in Tasks \cup {NoTask}
    BY DEF TypeOK
<1>2. call' \in [Calls -> CallStates]
    BY <1>1, LooksUpTyped DEF GetTask, CallPCs
<1> QED
    BY <1>2 DEF GetTask, TypeOK, manager, files, threads, history

LEMMA SendTyped ==
    ASSUME TypeOK, NEW c \in SendCalls, SendNext(c)
    PROVE  TypeOK'
<1> c \in Calls /\ CallId[c] \in Ids
    BY ConstantsAssumption DEF Calls
<1> USE DEF manager, files, threads, history
<1>1. CASE GetTask(c)
    BY <1>1, GetTaskTyped
<1>2. CASE SendCheckStatus(c)
    <2>1. call' \in [Calls -> CallStates]
        BY <1>2, AnswersTyped DEF SendCheckStatus, CallPCs
    <2> QED
        BY <1>2, <2>1 DEF SendCheckStatus, TypeOK
<1>3. CASE SendDecodeError(c)
    <2>1. call' \in [Calls -> CallStates]
        BY <1>3, AnswersTyped DEF SendDecodeError, CallPCs
    <2>2. task' \in [Tasks -> TaskObjects]
        <3> DEFINE t == call[c].task
                   o == [task[t] EXCEPT !.status = "FAILED"]
        <3>1. t \in Tasks => o \in TaskObjects
            BY FieldsTyped DEF TypeOK, Statuses, Terminal
        <3>2. task' = [task EXCEPT ![t] = o]
            BY <1>3 DEF SendDecodeError
        <3> QED
            BY <3>1, <3>2, ObjectTyped
    <2> QED
        BY <1>3, <2>1, <2>2 DEF SendDecodeError, TypeOK
<1>4. CASE SendRoute(c)
    <2>1. running \in Tasks \cup {NoTask} /\ locks[CallId[c]] \in Nat
        BY DEF TypeOK
    <2>2. call[c] \in CallStates
        BY DEF TypeOK
    <2>3. /\ [call[c] EXCEPT !.pc = "rejected"] \in CallStates
          /\ [call[c] EXCEPT !.pc = "toMemory", !.task = running] \in CallStates
          /\ [call[c] EXCEPT !.pc = "toFile", !.lock = locks[CallId[c]]] \in CallStates
        BY <2>1, <2>2 DEF CallStates, CallPCs
    <2>4. call' \in [Calls -> CallStates]
        BY <1>4, <2>3 DEF SendRoute, TypeOK
    <2> QED
        BY <1>4, <2>4 DEF SendRoute, TypeOK
<1>5. CASE SendToMemory(c)
    <2>1. call' \in [Calls -> CallStates]
        BY <1>5, AnswersTyped DEF SendToMemory, CallPCs
    <2>2. task' \in [Tasks -> TaskObjects]
        <3> DEFINE t == call[c].task
                   o == [task[t] EXCEPT !.buffer = @ \cup {c}]
        <3>1. ASSUME t \in Tasks PROVE o \in TaskObjects
            <4>1. task[t] \in TaskObjects
                BY <3>1 DEF TypeOK
            <4>2. task[t].buffer \cup {c} \in SUBSET SendCalls
                BY <4>1 DEF TaskObjects
            <4> QED
                BY <4>1, <4>2, FieldsTyped
        <3>2. task' = [task EXCEPT ![t] = o]
            BY <1>5 DEF SendToMemory
        <3> QED
            BY <3>1, <3>2, ObjectTyped
    <2> QED
        BY <1>5, <2>1, <2>2 DEF SendToMemory, TypeOK
<1>6. CASE SendToFile(c)
    <2>1. call' \in [Calls -> CallStates]
        BY <1>6, AnswersTyped DEF SendToFile, CallPCs
    <2>2. spool' \in [Ids -> SUBSET SendCalls]
        BY <1>6 DEF SendToFile, TypeOK
    <2> QED
        BY <1>6, <2>1, <2>2 DEF SendToFile, TypeOK
<1> QED
    BY <1>1, <1>2, <1>3, <1>4, <1>5, <1>6 DEF SendNext

LEMMA FinishTyped ==
    ASSUME TypeOK, NEW c \in FinishCalls, FinishNext(c)
    PROVE  TypeOK'
<1> c \in Calls /\ CallId[c] \in Ids
    BY ConstantsAssumption DEF Calls
<1> USE DEF manager, files, threads, history
<1>1. CASE GetTask(c)
    BY <1>1, GetTaskTyped
<1>2. CASE FinishSetReady(c)
    <2>1. call' \in [Calls -> CallStates]
        BY <1>2, AnswersTyped DEF FinishSetReady, CallPCs
    <2>2. task' \in [Tasks -> TaskObjects]
        <3> DEFINE t == call[c].task
                   o == [task[t] EXCEPT !.dataReady = TRUE]
        <3>1. t \in Tasks => o \in TaskObjects
            BY FieldsTyped DEF TypeOK
        <3>2. task' = [task EXCEPT ![t] = o]
            BY <1>2 DEF FinishSetReady
        <3> QED
            BY <3>1, <3>2, ObjectTyped
    <2> QED
        BY <1>2, <2>1, <2>2 DEF FinishSetReady, TypeOK
<1> QED
    BY <1>1, <1>2 DEF FinishNext

LEMMA ErrorTyped ==
    ASSUME TypeOK, NEW c \in ErrorCalls, ErrorNext(c)
    PROVE  TypeOK'
<1> c \in Calls /\ CallId[c] \in Ids
    BY ConstantsAssumption DEF Calls
<1> USE DEF manager, files, threads, history
<1>1. CASE GetTask(c)
    BY <1>1, GetTaskTyped
<1>2. CASE ErrorReport(c)
    <2>1. call' \in [Calls -> CallStates]
        BY <1>2, AnswersTyped DEF ErrorReport, CallPCs
    <2>2. sent' \in [Tasks -> Seq(Statuses)]
        BY <1>2, ReportTyped DEF ErrorReport, Statuses, Terminal
    <2> QED
        BY <1>2, <2>1, <2>2 DEF ErrorReport, TypeOK
<1>3. CASE ErrorReadStatus(c)
    <2>1. PICK q \in BOOLEAN : call' = [call EXCEPT ![c].pc = "read", ![c].queued = q]
        BY <1>3 DEF ErrorReadStatus
    <2>2. ASSUME NEW d \in Calls PROVE call'[d] \in CallStates
        <3>1. call[d] \in CallStates
            BY DEF TypeOK
        <3>2. [call[d] EXCEPT !.pc = "read", !.queued = q] \in CallStates
            BY <3>1 DEF CallStates, CallPCs
        <3>3. call'[d] = IF d = c THEN [call[d] EXCEPT !.pc = "read", !.queued = q] ELSE call[d]
            BY <2>1 DEF TypeOK
        <3> QED
            BY <3>1, <3>2, <3>3
    <2>3. call' \in [Calls -> CallStates]
        BY <2>1, <2>2 DEF TypeOK
    <2> QED
        BY <1>3, <2>3 DEF ErrorReadStatus, TypeOK
<1>4. CASE ErrorSetStatus(c)
    <2>1. call' \in [Calls -> CallStates]
        BY <1>4, AnswersTyped DEF ErrorSetStatus, CallPCs
    <2>2. task' \in [Tasks -> TaskObjects]
        <3> DEFINE t == call[c].task
                   o == [task[t] EXCEPT !.status = "FAILED"]
        <3>1. t \in Tasks => o \in TaskObjects
            BY FieldsTyped DEF TypeOK, Statuses, Terminal
        <3>2. task' = [task EXCEPT ![t] = o]
            BY <1>4 DEF ErrorSetStatus
        <3> QED
            BY <3>1, <3>2, ObjectTyped
    <2> QED
        BY <1>4, <2>1, <2>2 DEF ErrorSetStatus, TypeOK
<1>5. CASE ErrorAbort(c)
    <2>1. call' \in [Calls -> CallStates]
        BY <1>5, AnswersTyped DEF ErrorAbort, CallPCs
    <2>2. task' \in [Tasks -> TaskObjects]
        <3> DEFINE t == call[c].task
                   o == [task[t] EXCEPT !.abort = TRUE]
        <3>1. t \in Tasks => o \in TaskObjects
            BY FieldsTyped DEF TypeOK
        <3>2. task' = [task EXCEPT ![t] = o]
            BY <1>5 DEF ErrorAbort
        <3> QED
            BY <3>1, <3>2, ObjectTyped
    <2> QED
        BY <1>5, <2>1, <2>2 DEF ErrorAbort, TypeOK
<1>6. CASE ErrorClear(c)
    <2>1. call' \in [Calls -> CallStates]
        BY <1>6, AnswersTyped DEF ErrorClear, CallPCs
    <2>2. task' \in [Tasks -> TaskObjects]
        <3> DEFINE t == call[c].task
                   o == [task[t] EXCEPT !.buffer = {}]
        <3>1. t \in Tasks => o \in TaskObjects
            BY FieldsTyped DEF TypeOK
        <3>2. task' = [task EXCEPT ![t] = o]
            BY <1>6 DEF ErrorClear
        <3> QED
            BY <3>1, <3>2, ObjectTyped
    <2> QED
        BY <1>6, <2>1, <2>2 DEF ErrorClear, TypeOK
<1>7. CASE ErrorRemove(c)
    <2>1. call' \in [Calls -> CallStates]
        BY <1>7, AnswersTyped DEF ErrorRemove, CallPCs
    <2>2. spool' \in [Ids -> SUBSET SendCalls]
        BY <1>7 DEF ErrorRemove, TypeOK
    <2> QED
        BY <1>7, <2>1, <2>2 DEF ErrorRemove, TypeOK
<1> QED
    BY <1>1, <1>2, <1>3, <1>4, <1>5, <1>6, <1>7 DEF ErrorNext

LEMMA CancelTyped ==
    ASSUME TypeOK, NEW c \in CancelCalls, CancelNext(c)
    PROVE  TypeOK'
<1> c \in Calls
    BY DEF Calls
<1> USE DEF manager, files, threads, history
<1>1. CASE CancelCurrent(c)
    <2>1. current \in Tasks \cup {NoTask}
        BY DEF TypeOK
    <2>2. call' \in [Calls -> CallStates]
        BY <1>1, <2>1, LooksUpTyped DEF CancelCurrent, CallPCs
    <2> QED
        BY <1>1, <2>2 DEF CancelCurrent, TypeOK
<1>2. CASE CancelSet(c)
    <2>1. call' \in [Calls -> CallStates]
        BY <1>2, AnswersTyped DEF CancelSet, CallPCs
    <2>2. task' \in [Tasks -> TaskObjects]
        <3> DEFINE t == call[c].task
                   o == [task[t] EXCEPT !.cancel = TRUE]
        <3>1. t \in Tasks => o \in TaskObjects
            BY FieldsTyped DEF TypeOK
        <3>2. task' = [task EXCEPT ![t] = o]
            BY <1>2 DEF CancelSet
        <3> QED
            BY <3>1, <3>2, ObjectTyped
    <2> QED
        BY <1>2, <2>1, <2>2 DEF CancelSet, TypeOK
<1> QED
    BY <1>1, <1>2 DEF CancelNext

LEMMA CloseTyped ==
    ASSUME TypeOK, CloseStop \/ CloseCancel
    PROVE  TypeOK'
<1> USE DEF manager, files, threads, history
<1>1. CASE CloseStop
    BY <1>1 DEF CloseStop, TypeOK
<1>2. CASE CloseCancel
    <2>1. task' \in [Tasks -> TaskObjects]
        <3>1. CASE task' = task
            BY <3>1 DEF TypeOK
        <3>2. CASE task' = [task EXCEPT ![current].cancel = TRUE, ![current].dataReady = TRUE]
            <4> DEFINE o == [task[current] EXCEPT !.cancel = TRUE, !.dataReady = TRUE]
            <4>1. current \in Tasks => o \in TaskObjects
                BY FieldsTyped DEF TypeOK
            <4>2. task' = [task EXCEPT ![current] = o]
                BY <3>2
            <4> QED
                BY <4>1, <4>2, ObjectTyped
        <3> QED
            BY <1>2, <3>1, <3>2 DEF CloseCancel
    <2> QED
        BY <1>2, <2>1 DEF CloseCancel, TypeOK
<1> QED
    BY <1>1, <1>2

LEMMA TimerTyped ==
    ASSUME TypeOK, NEW t \in Tasks, TimerNext(t)
    PROVE  TypeOK'
<1>1. ASSUME NEW from, NEW object \in TaskObjects, TimerStep(t, from, object),
             sent' \in [Tasks -> Seq(Statuses)]
      PROVE  TypeOK'
    <2>1. task' \in [Tasks -> TaskObjects]
        BY <1>1, ObjectTyped DEF TimerStep
    <2> QED
        BY <1>1, <2>1 DEF TimerStep, TypeOK, manager, files, threads, clients
<1>2. sent \in [Tasks -> Seq(Statuses)] /\ task[t] \in TaskObjects
    BY DEF TypeOK
<1>3. CASE TimerFires(t)
    <2>1. [task[t] EXCEPT !.timer = "fired"] \in TaskObjects
        BY <1>2, FieldsTyped DEF TimerStates
    <2> QED
        BY <1>1, <1>2, <1>3, <2>1 DEF TimerFires
<1>4. CASE TimerFlags(t)
    <2>1. [task[t] EXCEPT !.timer = "flagged", !.timeout = TRUE] \in TaskObjects
        BY <1>2 DEF TaskObjects, TimerStates
    <2> QED
        BY <1>1, <1>2, <1>4, <2>1 DEF TimerFlags
<1>5. CASE TimerReports(t)
    <2>1. [task[t] EXCEPT !.timer = "reported"] \in TaskObjects
        BY <1>2, FieldsTyped DEF TimerStates
    <2>2. sent' \in [Tasks -> Seq(Statuses)]
        BY <1>5, ReportTyped DEF TimerReports, Statuses, Terminal
    <2> QED
        BY <1>1, <1>5, <2>1, <2>2 DEF TimerReports
<1>6. CASE TimerSetsStatus(t)
    <2>1. [task[t] EXCEPT !.timer = "done", !.status = "CANCELLED"] \in TaskObjects
        BY <1>2 DEF TaskObjects, TimerStates, Statuses, Terminal
    <2> QED
        BY <1>1, <1>2, <1>6, <2>1 DEF TimerSetsStatus
<1> QED
    BY <1>3, <1>4, <1>5, <1>6 DEF TimerNext

LEMMA CleanTyped ==
    ASSUME TypeOK, NEW th \in {"prep", "train"}, NEW t \in Tasks, CleanNext(th, t)
    PROVE  TypeOK'
<1> IdOf[t] \in Ids /\ task[t] \in TaskObjects
    BY ConstantsAssumption DEF TypeOK
<1> USE DEF manager, files, clients, history
<1>1. CASE SetCancelled(th, t)
    BY <1>1, SetsStatusTyped DEF SetCancelled, Statuses, Terminal, BothPCs
<1>2. CASE CleanData(th, t)
    <2> DEFINE o == [task[t] EXCEPT !.timer = TimerCancelled(@), !.buffer = {}]
    <2>1. TimerCancelled(task[t].timer) \in TimerStates
        BY TimerCancelledTyped DEF TaskObjects
    <2>2. o \in TaskObjects
        BY <2>1 DEF TaskObjects
    <2>3. Writes(th, t, "clean", "unregister", o)
        BY <1>2 DEF CleanData
    <2> QED
        BY <2>2, <2>3, WritesTyped DEF BothPCs
<1>3. CASE CleanTables(th, t)
    <2>1. thread' \in [{"prep", "train"} -> Places]
        BY <1>3, MovesTyped DEF CleanTables, BothPCs
    <2>2. tasks' \in [Ids -> Tasks \cup {NoTask}] /\ locks' \in [Ids -> Nat]
        BY <1>3 DEF CleanTables, TypeOK
    <2>3. running' \in Tasks \cup {NoTask}
        BY <1>3 DEF CleanTables, TypeOK
    <2> QED
        BY <1>3, <2>1, <2>2, <2>3 DEF CleanTables, TypeOK
<1>4. CASE CleanFile(th, t)
    <2>1. thread' \in [{"prep", "train"} -> Places]
        BY <1>4 DEF CleanFile, TypeOK, Places, BothPCs
    <2>2. spool' \in [Ids -> SUBSET SendCalls] /\ left' \subseteq Tasks
        BY <1>4 DEF CleanFile, TypeOK
    <2> QED
        BY <1>4, <2>1, <2>2 DEF CleanFile, TypeOK
<1> QED
    BY <1>1, <1>2, <1>3, <1>4 DEF CleanNext

LEMMA HeadTailTyped ==
    ASSUME NEW S, NEW q \in Seq(S), q # <<>>
    PROVE  Head(q) \in S /\ Tail(q) \in Seq(S)
OBVIOUS

LEMMA PrepTyped ==
    ASSUME TypeOK, NEW t \in Tasks, PrepNext(t)
    PROVE  TypeOK'
<1> IdOf[t] \in Ids /\ task[t] \in TaskObjects
    BY ConstantsAssumption DEF TypeOK
<1> USE DEF manager, files, clients, history
<1>1. CASE \/ PrepCancelledEarly(t) \/ PrepAnnounce(t) \/ PrepCancelledWaiting(t)
           \/ PrepCancelledReady(t) \/ PrepCrashReport(t)
    BY <1>1, ReportsTyped DEF PrepCancelledEarly, PrepAnnounce, PrepCancelledWaiting,
       PrepCancelledReady, PrepCrashReport, Statuses, Terminal, PrepPCs, BothPCs
<1>2. CASE \/ WaitNotReady(t) \/ WaitGivenUp(t) \/ WaitAgain(t) \/ PrepGiveUp(t)
           \/ PrepProceed(t) \/ LoadNothing(t) \/ BuildFails(t)
    BY <1>2, GoesTyped DEF WaitNotReady, WaitGivenUp, WaitAgain, PrepGiveUp, PrepProceed,
       LoadNothing, BuildFails, PrepPCs, BothPCs
<1>3. CASE PrepStart(t)
    <2> DEFINE o == [task[t] EXCEPT !.status = "PREPARING",
                                    !.timer = IF t \in TimeLimited THEN "armed" ELSE @]
    <2>1. o \in TaskObjects
        BY DEF TaskObjects, Statuses, TimerStates
    <2>2. Writes("prep", t, "announced", "wait", o)
        BY <1>3 DEF PrepStart
    <2> QED
        BY <2>1, <2>2, WritesTyped DEF PrepPCs
<1>4. CASE WaitDataReady(t) \/ WaitDeadline(t)
    <2> DEFINE o == [task[t] EXCEPT !.timer = TimerCancelled(@)]
    <2>1. o \in TaskObjects
        BY TimerCancelledTyped, FieldsTyped DEF TaskObjects
    <2>2. \E from : Writes("prep", t, from, "gotData", o)
        BY <1>4 DEF WaitDataReady, WaitDeadline, WaitOver
    <2> QED
        BY <2>1, <2>2, WritesTyped DEF PrepPCs
<1>5. CASE LoadRead(t)
    <2>1. thread' \in [{"prep", "train"} -> Places]
        BY <1>5, MovesTyped DEF LoadRead, PrepPCs
    <2>2. pending' \subseteq SendCalls /\ reading' \subseteq Ids \X Nat
        BY <1>5 DEF LoadRead, TypeOK
    <2> QED
        BY <1>5, <2>1, <2>2 DEF LoadRead, TypeOK
<1>6. CASE LoadUnlink(t)
    <2>1. thread' \in [{"prep", "train"} -> Places]
        BY <1>6, MovesTyped DEF LoadUnlink, PrepPCs
    <2>2. spool' \in [Ids -> SUBSET SendCalls] /\ pending' \subseteq SendCalls
        BY <1>6 DEF LoadUnlink, TypeOK
    <2> QED
        BY <1>6, <2>1, <2>2 DEF LoadUnlink, TypeOK
<1>7. CASE LoadExtend(t)
    <2> DEFINE o == [task[t] EXCEPT !.buffer = @ \cup pending]
    <2>1. thread' \in [{"prep", "train"} -> Places]
        BY <1>7, MovesTyped DEF LoadExtend, PrepPCs
    <2>2. task[t].buffer \cup pending \in SUBSET SendCalls
        BY DEF TypeOK, TaskObjects
    <2>3. o \in TaskObjects
        BY <2>2, FieldsTyped
    <2>4. task' = [task EXCEPT ![t] = o]
        BY <1>7 DEF LoadExtend
    <2>5. task' \in [Tasks -> TaskObjects]
        BY <2>3, <2>4, ObjectTyped
    <2> QED
        BY <1>7, <2>1, <2>5 DEF LoadExtend, TypeOK
<1>8. CASE BuildLoaders(t)
    <2>1. thread' \in [{"prep", "train"} -> Places]
        BY <1>8 DEF BuildLoaders, TypeOK, Places, BothPCs
    <2>2. task[t].buffer \in SUBSET SendCalls
        BY DEF TaskObjects
    <2>3. loaded' \in [Tasks -> SUBSET SendCalls] /\ ready' \in Seq(Tasks)
        BY <1>8, <2>2 DEF BuildLoaders, TypeOK
    <2> QED
        BY <1>8, <2>1, <2>3 DEF BuildLoaders, TypeOK
<1>9. CASE PrepCrashStatus(t)
    BY <1>9, SetsStatusTyped DEF PrepCrashStatus, Statuses, Terminal, PrepPCs
<1>10. CASE CleanNext("prep", t)
    BY <1>10, CleanTyped
<1> QED
    BY <1>1, <1>2, <1>3, <1>4, <1>5, <1>6, <1>7, <1>8, <1>9, <1>10 DEF PrepNext

LEMMA TrainTyped ==
    ASSUME TypeOK, NEW t \in Tasks, TrainNext(t)
    PROVE  TypeOK'
<1>1. CASE \/ TrainAnnounce(t) \/ TrainCancelled(t) \/ TrainReportError(t)
           \/ TrainedCancelled(t) \/ TrainReportDone(t)
    BY <1>1, ReportsTyped DEF TrainAnnounce, TrainCancelled, TrainReportError,
       TrainedCancelled, TrainReportDone, Statuses, Terminal, TrainPCs, BothPCs
<1>2. CASE \/ EpochBegins(t) \/ EpochsOver(t) \/ ModelSaved(t) \/ TrainInterrupted(t)
           \/ TrainRaises(t) \/ TrainTimedOut(t) \/ TrainedInTime(t)
    BY <1>2, GoesTyped DEF EpochBegins, EpochsOver, ModelSaved, TrainInterrupted, TrainRaises,
       TrainTimedOut, TrainedInTime, TrainPCs, BothPCs
<1>3. CASE TrainStart(t) \/ TrainSetError(t) \/ TrainMarkDone(t)
    BY <1>3, SetsStatusTyped DEF TrainStart, TrainSetError, TrainMarkDone, Statuses, Terminal,
       TrainPCs, BothPCs
<1>4. CASE EpochEnds(t)
    <2> DEFINE o == [task[t] EXCEPT !.epoch = @ + 1]
    <2>1. task[t] \in TaskObjects
        BY DEF TypeOK
    <2>2. o \in TaskObjects
        BY <2>1 DEF TaskObjects
    <2>3. \E to \in {"fit", "save"} : Writes("train", t, "epoch", to, o)
        BY <1>4 DEF EpochEnds
    <2> QED
        BY <2>2, <2>3, WritesTyped DEF TrainPCs
<1>5. CASE CleanNext("train", t)
    BY <1>5, CleanTyped
<1> QED
    BY <1>1, <1>2, <1>3, <1>4, <1>5 DEF TrainNext

LEMMA TakeTyped ==
    ASSUME TypeOK, PrepTake \/ TrainTake \/ PrepExit \/ TrainExit
    PROVE  TypeOK'
<1> USE DEF manager, files, clients, history
<1>1. CASE PrepTake
    <2>1. Head(queue) \in Tasks /\ Tail(queue) \in Seq(Tasks)
        BY <1>1, HeadTailTyped DEF PrepTake, TypeOK
    <2>2. thread' \in [{"prep", "train"} -> Places]
        BY <1>1, <2>1 DEF PrepTake, TypeOK, Places, PrepPCs
    <2> QED
        BY <1>1, <2>1, <2>2 DEF PrepTake, TypeOK
<1>2. CASE TrainTake
    <2>1. Head(ready) \in Tasks /\ Tail(ready) \in Seq(Tasks)
        BY <1>2, HeadTailTyped DEF TrainTake, TypeOK
    <2>2. thread' \in [{"prep", "train"} -> Places]
        BY <1>2, <2>1 DEF TrainTake, TypeOK, Places, TrainPCs
    <2> QED
        BY <1>2, <2>1, <2>2 DEF TrainTake, TypeOK
<1>3. CASE PrepExit
    BY <1>3, GoesTyped DEF PrepExit, BothPCs
<1>4. CASE TrainExit
    BY <1>4, GoesTyped DEF TrainExit, BothPCs
<1> QED
    BY <1>1, <1>2, <1>3, <1>4

(* Every variable of the task manager keeps its type.                        *)
THEOREM TypesKept == Spec => []TypeOK
<1>1. Init => TypeOK
    BY InitTyped
<1>2. TypeOK /\ [Next]_vars => TypeOK'
    <2> SUFFICES ASSUME TypeOK, [Next]_vars PROVE TypeOK'
        OBVIOUS
    <2>1. CASE \E t \in Tasks : SubmitNext(t) \/ TimerNext(t)
        BY <2>1, SubmitTyped, TimerTyped
    <2>2. CASE \E c \in Calls : CallNext(c)
        BY <2>2, SendTyped, FinishTyped, ErrorTyped, CancelTyped DEF CallNext
    <2>3. CASE CloseStop \/ CloseCancel
        BY <2>3, CloseTyped
    <2>4. CASE PrepThread \/ TrainThread
        BY <2>4, TakeTyped, PrepTyped, TrainTyped DEF PrepThread, TrainThread
    <2>5. CASE Idle \/ UNCHANGED vars
        BY <2>5 DEF Idle, TypeOK, vars, manager, files, threads, clients, history
    <2> QED
        BY <2>1, <2>2, <2>3, <2>4, <2>5 DEF Next
<1> QED
    BY <1>1, <1>2, PTL DEF Spec

-----------------------------------------------------------------------------
(* The inductive invariant of NoSilentDeparture.  A task is excused when it  *)
(* has been reported over or its timer is about to.                          *)
Excused(t) == Reported(t) \cap Terminal # {} \/ TimerWillReport(t)

(* A task whose preparation has not begun has no timer, and stands at most   *)
(* once in the queue: set_timer cannot replace a timer that has fired.       *)
Queued == {queue[i] : i \in DOMAIN queue}
QueueSound ==
    /\ \A i, j \in DOMAIN queue : queue[i] = queue[j] => i = j
    /\ \A t \in Tasks :
        /\ submit[t] \in {"new", "registered"} => t \notin Queued /\ thread["prep"].task # t
        /\ t \in Queued => thread["prep"].task # t
        /\ \/ submit[t] \in {"new", "registered"} \/ t \in Queued
           \/ thread["prep"].task = t /\ thread["prep"].pc \in {"check", "announced"}
           => task[t].timer = "off"

(* The flags that let a thread drop a task without a report of its own have  *)
(* a report behind them.                                                     *)
FlagsSound ==
    /\ \A t \in Tasks :
        /\ task[t].timeout => task[t].timer \in {"flagged", "reported", "done"}
        /\ task[t].timer \in {"reported", "done"} => "CANCELLED" \in Reported(t)
        /\ task[t].abort => "FAILED" \in Reported(t)
    /\ \A c \in ErrorCalls, t \in Tasks :
        call[c].task = t /\ call[c].pc \in {"reported", "read", "failed"}
        => "FAILED" \in Reported(t)
    /\ \A c \in ErrorCalls : call[c].pc \notin {"new", "rejected"} => call[c].task \in Tasks

Leaving == {"setCancelled", "setFailed", "clean", "unregister", "sweep"}
LeavingExcused == \A th \in {"prep", "train"}, t \in Tasks :
    thread[th].task = t /\ thread[th].pc \in Leaving => Excused(t)

Inv == QueueSound /\ FlagsSound /\ LeavingExcused /\ NoSilentDeparture

-----------------------------------------------------------------------------
(* Reports only accumulate.                                                  *)
LEMMA ReportAdds ==
    ASSUME TypeOK, NEW t, NEW s, Report(t, s)
    PROVE  \A u \in Tasks : Reported(u)' = IF u = t THEN Reported(u) \cup {s} ELSE Reported(u)
<1>1. ASSUME NEW u \in Tasks, u # t PROVE Reported(u)' = Reported(u)
    <2>1. sent'[u] = sent[u]
        BY <1>1 DEF Report, TypeOK
    <2> QED
        BY <2>1 DEF Reported
<1>2. ASSUME t \in Tasks PROVE Reported(t)' = Reported(t) \cup {s}
    <2>1. sent'[t] = Append(sent[t], s) /\ sent[t] \in Seq(Statuses)
        BY <1>2 DEF Report, TypeOK
    <2>2. Range(Append(sent[t], s)) = Range(sent[t]) \cup {s}
        <3> DEFINE q == sent[t]
        <3>1. /\ q \in Seq(Statuses)
              /\ DOMAIN Append(q, s) = 1 .. Len(q) + 1
              /\ DOMAIN q = 1 .. Len(q)
              /\ \A i \in 1 .. Len(q) : Append(q, s)[i] = q[i]
              /\ Append(q, s)[Len(q) + 1] = s
              /\ Len(q) \in Nat
            BY <2>1
        <3> HIDE DEF q
        <3>2. Range(Append(q, s)) = Range(q) \cup {s}
            BY <3>1 DEF Range
        <3> QED
            BY <3>2 DEF q
    <2> QED
        BY <2>1, <2>2 DEF Reported
<1> QED
    BY <1>1, <1>2

(* An excuse lasts as long as reports accumulate and a timer that has fired  *)
(* stays fired until it has reported.                                        *)
LEMMA ExcuseLasts ==
    ASSUME NEW t, Excused(t), Reported(t) \subseteq Reported(t)',
           TimerWillReport(t) => TimerWillReport(t)' \/ "CANCELLED" \in Reported(t)'
    PROVE  Excused(t)'
BY DEF Excused, Terminal

(* Most steps leave alone what the invariant is about: the queue, the flags, *)
(* the ReportError calls; at most a timer is cancelled and a thread moves.   *)
Frame ==
    /\ queue' = queue /\ submit' = submit
    /\ \A c \in ErrorCalls : call'[c] = call[c]
    /\ \A t \in Tasks :
        /\ Reported(t) \subseteq Reported(t)'
        /\ task'[t].timeout = task[t].timeout
        /\ task'[t].abort = task[t].abort
        /\ task'[t].timer \in {task[t].timer, TimerCancelled(task[t].timer)}
        /\ thread'["prep"].task = t => thread["prep"].task = t
    /\ thread'["prep"].pc \in {"check", "announced"} => thread["prep"].pc \in {"check", "announced"}
    /\ \A th \in {"prep", "train"}, t \in Tasks :
        thread'[th].task = t /\ thread'[th].pc \in Leaving
        => Excused(t) \/ Reported(t)' \cap Terminal # {}
    /\ \A t \in left' : t \in left \/ Excused(t)

LEMMA FrameKeepsInv ==
    ASSUME TypeOK, left' \subseteq Tasks, Inv, Frame
    PROVE  Inv'
<1>1. ASSUME NEW t \in Tasks, Excused(t) PROVE Excused(t)'
    <2>1. TimerWillReport(t) => TimerWillReport(t)'
        BY DEF Frame, TimerWillReport, TimerCancelled
    <2> QED
        BY <1>1, <2>1, ExcuseLasts DEF Frame
<1>2. QueueSound'
    <2>1. QueueSound /\ Queued' = Queued
        BY DEF Frame, Queued, Inv
    <2>2. \A t \in Tasks : task[t].timer = "off" => task'[t].timer = "off"
        BY DEF Frame, TimerCancelled
    <2> QED
        BY <2>1, <2>2 DEF Frame, QueueSound
<1>3. FlagsSound'
    <2>1. FlagsSound
        BY DEF Inv
    <2>2. ASSUME NEW t \in Tasks
          PROVE  /\ task'[t].timeout => task'[t].timer \in {"flagged", "reported", "done"}
                 /\ task'[t].timer \in {"reported", "done"} => "CANCELLED" \in Reported(t)'
                 /\ task'[t].abort => "FAILED" \in Reported(t)'
        <3>1. /\ task[t].timeout => task[t].timer \in {"flagged", "reported", "done"}
              /\ task[t].timer \in {"reported", "done"} => "CANCELLED" \in Reported(t)
              /\ task[t].abort => "FAILED" \in Reported(t)
            BY <2>1 DEF FlagsSound
        <3>2. /\ Reported(t) \subseteq Reported(t)'
              /\ task'[t].timeout = task[t].timeout
              /\ task'[t].abort = task[t].abort
              /\ task'[t].timer \in {task[t].timer, TimerCancelled(task[t].timer)}
            BY DEF Frame
        <3> QED
            BY <3>1, <3>2 DEF TimerCancelled
    <2>3. \A c \in ErrorCalls, t \in Tasks :
            call'[c].task = t /\ call'[c].pc \in {"reported", "read", "failed"}
            => "FAILED" \in Reported(t)'
        BY <2>1 DEF FlagsSound, Frame
    <2>4. \A c \in ErrorCalls : call'[c].pc \notin {"new", "rejected"} => call'[c].task \in Tasks
        BY <2>1 DEF FlagsSound, Frame
    <2> QED
        BY <2>2, <2>3, <2>4 DEF FlagsSound
<1>4. LeavingExcused'
    BY <1>1 DEF Frame, LeavingExcused, Excused
<1>5. NoSilentDeparture'
    <2>1. \A t \in left : Excused(t)
        BY DEF Inv, NoSilentDeparture, Excused
    <2>2. \A t \in left' : Excused(t)'
        BY <1>1, <2>1 DEF Frame
    <2> QED
        BY <2>2 DEF NoSilentDeparture, Excused
<1> QED
    BY <1>2, <1>3, <1>4, <1>5 DEF Inv

-----------------------------------------------------------------------------
(* The steps of the two threads are of that kind when they enter a place of  *)
(* Leaving only from another one or with an excuse.                          *)
LEMMA MoveFrame ==
    ASSUME TypeOK, Inv, NEW th \in {"prep", "train"}, NEW t, NEW from, NEW to,
           Moves(th, t, from, to), to # "check", to = "announced" => from = "check",
           t \in Tasks /\ to \in Leaving
               => from \in Leaving \/ Excused(t) \/ Reported(t)' \cap Terminal # {}
    PROVE  /\ \A u \in Tasks : thread'["prep"].task = u => thread["prep"].task = u
           /\ thread'["prep"].pc \in {"check", "announced"}
              => thread["prep"].pc \in {"check", "announced"}
           /\ \A h \in {"prep", "train"}, u \in Tasks :
                thread'[h].task = u /\ thread'[h].pc \in Leaving
                => Excused(u) \/ Reported(u)' \cap Terminal # {}
<1>1. \A h \in {"prep", "train"} :
        /\ thread[h] \in Places
        /\ thread'[h] = IF h = th THEN [thread[h] EXCEPT !.pc = to] ELSE thread[h]
    BY DEF TypeOK, Moves
<1>2. \A h \in {"prep", "train"} :
        /\ thread'[h].task = thread[h].task
        /\ thread'[h].pc = IF h = th THEN to ELSE thread[h].pc
    BY <1>1 DEF Places
<1>3. thread[th].task = t /\ thread[th].pc = from
    BY DEF Moves
<1>4. ASSUME NEW h \in {"prep", "train"}, NEW u \in Tasks,
             thread'[h].task = u, thread'[h].pc \in Leaving
      PROVE  Excused(u) \/ Reported(u)' \cap Terminal # {}
    <2>1. thread[h].task = u /\ thread[h].pc \in Leaving => Excused(u)
        BY DEF Inv, LeavingExcused
    <2> QED
        BY <1>2, <1>3, <1>4, <2>1
<1> QED
    BY <1>2, <1>3, <1>4

LEMMA SameReported ==
    ASSUME sent' = sent
    PROVE  \A u : Reported(u)' = Reported(u)
BY DEF Reported

LEMMA GoesQuiet ==
    ASSUME TypeOK, Inv, NEW th \in {"prep", "train"}, NEW t, NEW from, NEW to,
           Goes(th, t, from, to), to # "check", to # "announced",
           t \in Tasks /\ to \in Leaving => Excused(t)
    PROVE  Inv'
<1>1. \A u : Reported(u)' = Reported(u)
    BY SameReported DEF Goes, history
<1>2. Frame
    BY <1>1, MoveFrame DEF Goes, Frame, manager, clients, history
<1> QED
    BY <1>2, FrameKeepsInv DEF Goes, history, TypeOK

LEMMA ReportsQuiet ==
    ASSUME TypeOK, Inv, NEW th \in {"prep", "train"}, NEW t \in Tasks, NEW from,
           NEW s \in Statuses, NEW to, Reports(th, t, from, s, to), to # "check",
           to = "announced" => from = "check", to \in Leaving => s \in Terminal
    PROVE  Inv'
<1>1. \A u \in Tasks : Reported(u)' = IF u = t THEN Reported(u) \cup {s} ELSE Reported(u)
    BY ReportAdds DEF Reports
<1>2. to \in Leaving => Reported(t)' \cap Terminal # {}
    BY <1>1
<1>3. Frame
    BY <1>1, <1>2, MoveFrame DEF Reports, Frame, manager, clients
<1> QED
    BY <1>3, FrameKeepsInv DEF Reports, TypeOK

LEMMA WritesQuiet ==
    ASSUME TypeOK, Inv, NEW th \in {"prep", "train"}, NEW t \in Tasks, NEW from, NEW to,
           NEW object, Writes(th, t, from, to, object), to # "check", to # "announced",
           to \in Leaving => from \in Leaving \/ Excused(t),
           object.timeout = task[t].timeout, object.abort = task[t].abort,
           object.timer \in {task[t].timer, TimerCancelled(task[t].timer)}
    PROVE  Inv'
<1>1. \A u : Reported(u)' = Reported(u)
    BY SameReported DEF Writes, history
<1>2. \A u \in Tasks : task'[u] = IF u = t THEN object ELSE task[u]
    BY DEF Writes, TypeOK
<1>3. Frame
    BY <1>1, <1>2, MoveFrame DEF Writes, Frame, manager, clients, history
<1> QED
    BY <1>3, FrameKeepsInv DEF Writes, history, TypeOK

LEMMA SetsStatusQuiet ==
    ASSUME TypeOK, Inv, NEW th \in {"prep", "train"}, NEW t \in Tasks, NEW from, NEW s,
           NEW to, SetsStatus(th, t, from, s, to), to # "check", to # "announced",
           to \in Leaving => from \in Leaving \/ Excused(t)
    PROVE  Inv'
<1> DEFINE o == [task[t] EXCEPT !.status = s]
<1>1. /\ o.timeout = task[t].timeout
      /\ o.abort = task[t].abort
      /\ o.timer = task[t].timer
    BY DEF TypeOK, TaskObjects
<1>2. Writes(th, t, from, to, o)
    BY DEF SetsStatus
<1> QED
    BY <1>1, <1>2, WritesQuiet

LEMMA CleanQuiet ==
    ASSUME TypeOK, Inv, NEW th \in {"prep", "train"}, NEW t \in Tasks, CleanNext(th, t)
    PROVE  Inv'
<1>1. CASE SetCancelled(th, t)
    BY <1>1, SetsStatusQuiet DEF SetCancelled, Leaving
<1>2. CASE CleanData(th, t)
    <2> DEFINE o == [task[t] EXCEPT !.timer = TimerCancelled(@), !.buffer = {}]
    <2>1. /\ o.timeout = task[t].timeout
          /\ o.abort = task[t].abort
          /\ o.timer = TimerCancelled(task[t].timer)
        BY DEF TypeOK, TaskObjects
    <2>2. Writes(th, t, "clean", "unregister", o)
        BY <1>2 DEF CleanData
    <2> QED
        BY <2>1, <2>2, WritesQuiet DEF Leaving
<1>3. CASE CleanTables(th, t)
    <2>1. \A u : Reported(u)' = Reported(u)
        BY <1>3, SameReported DEF CleanTables, history
    <2>2. Moves(th, t, "unregister", "sweep")
        BY <1>3 DEF CleanTables
    <2>3. Frame
        BY <1>3, <2>1, <2>2, MoveFrame DEF CleanTables, Frame, clients, history, Leaving
    <2> QED
        BY <1>3, <2>3, FrameKeepsInv DEF CleanTables, history, TypeOK
<1>4. CASE CleanFile(th, t)
    <2>1. \A u : Reported(u)' = Reported(u)
        BY <1>4, SameReported DEF CleanFile
    <2>2. Excused(t) /\ left' = left \cup {t}
        BY <1>4 DEF CleanFile, Inv, LeavingExcused, Leaving
    <2>3. \A h \in {"prep", "train"} :
            thread'[h] = IF h = th THEN [pc |-> "idle", task |-> NoTask] ELSE thread[h]
        BY <1>4 DEF CleanFile, TypeOK
    <2>4. NoTask \notin Tasks
        BY ConstantsAssumption
    <2>5. ASSUME NEW h \in {"prep", "train"}, NEW u \in Tasks,
                 thread'[h].task = u, thread'[h].pc \in Leaving
          PROVE  Excused(u)
        BY <2>3, <2>4, <2>5 DEF Inv, LeavingExcused
    <2>6. /\ \A u \in Tasks : thread'["prep"].task = u => thread["prep"].task = u
          /\ thread'["prep"].pc \in {"check", "announced"}
             => thread["prep"].pc \in {"check", "announced"}
        BY <2>3, <2>4
    <2>7. Frame
        BY <1>4, <2>1, <2>2, <2>5, <2>6 DEF CleanFile, Frame, manager, clients
    <2> QED
        BY <2>2, <2>7, FrameKeepsInv DEF TypeOK
<1> QED
    BY <1>1, <1>2, <1>3, <1>4 DEF CleanNext

(* A task that was timed out or aborted is excused: the two paths on which a *)
(* thread drops a task without a report.                                     *)
LEMMA FlaggedExcused ==
    ASSUME Inv, NEW t \in Tasks, task[t].timeout \/ task[t].abort
    PROVE  Excused(t)
BY DEF Inv, FlagsSound, Excused, TimerWillReport, Terminal

(* The timer of a task starts when it has none.                              *)
LEMMA PrepStartSafe ==
    ASSUME TypeOK, Inv, NEW t \in Tasks, PrepStart(t)
    PROVE  Inv'
<1> DEFINE o == [task[t] EXCEPT !.status = "PREPARING",
                                !.timer = IF t \in TimeLimited THEN "armed" ELSE @]
<1>1. /\ o.timeout = task[t].timeout
      /\ o.abort = task[t].abort
      /\ o.timer = IF t \in TimeLimited THEN "armed" ELSE task[t].timer
    BY DEF TypeOK, TaskObjects
<1>2. Writes("prep", t, "announced", "wait", o)
    BY DEF PrepStart
<1> HIDE DEF o
<1>3. /\ task[t].timer = "off" /\ ~task[t].timeout
      /\ t \notin Queued /\ submit[t] \notin {"new", "registered"}
    <2>1. thread["prep"].task = t /\ thread["prep"].pc = "announced"
        BY <1>2 DEF Writes, Moves
    <2>2. task[t].timeout \in BOOLEAN
        BY DEF TypeOK, TaskObjects
    <2> QED
        BY <2>1, <2>2 DEF Inv, QueueSound, FlagsSound
<1>4. \A u \in Tasks : /\ Reported(u)' = Reported(u)
                       /\ task'[u] = IF u = t THEN o ELSE task[u]
    BY <1>2, SameReported DEF Writes, history, TypeOK
<1>5. /\ thread'["prep"].task = thread["prep"].task /\ thread'["prep"].pc = "wait"
      /\ thread'["train"] = thread["train"]
    BY <1>2 DEF Writes, Moves, TypeOK, Places
<1>6. \A u \in Tasks : Excused(u) => Excused(u)'
    BY <1>1, <1>3, <1>4 DEF Excused, TimerWillReport
<1>7. QueueSound'
    <2>1. UNCHANGED <<queue, submit>> /\ Queued' = Queued
        BY <1>2 DEF Writes, manager, clients, Queued
    <2>2. QueueSound
        BY DEF Inv
    <2> QED
        BY <1>3, <1>4, <1>5, <2>1, <2>2 DEF QueueSound
<1>8. FlagsSound'
    <2>1. UNCHANGED call
        BY <1>2 DEF Writes, clients
    <2>2. FlagsSound
        BY DEF Inv
    <2> QED
        BY <1>1, <1>3, <1>4, <2>1, <2>2 DEF FlagsSound
<1>9. LeavingExcused'
    BY <1>5, <1>6 DEF Inv, LeavingExcused, Leaving
<1>10. NoSilentDeparture'
    <2>1. left' = left /\ left \subseteq Tasks
        BY <1>2 DEF Writes, history, TypeOK
    <2> QED
        BY <1>6, <2>1 DEF Inv, NoSilentDeparture, Excused
<1> QED
    BY <1>7, <1>8, <1>9, <1>10 DEF Inv

LEMMA PrepSafe ==
    ASSUME TypeOK, Inv, NEW t \in Tasks, PrepNext(t)
    PROVE  Inv'
<1>1. CASE \/ PrepCancelledEarly(t) \/ PrepAnnounce(t) \/ PrepCancelledWaiting(t)
           \/ PrepCancelledReady(t) \/ PrepCrashReport(t)
    BY <1>1, ReportsQuiet DEF PrepCancelledEarly, PrepAnnounce, PrepCancelledWaiting,
       PrepCancelledReady, PrepCrashReport, Statuses, Terminal, Leaving
<1>2. CASE \/ WaitNotReady(t) \/ WaitGivenUp(t) \/ WaitAgain(t)
           \/ PrepProceed(t) \/ LoadNothing(t) \/ BuildFails(t)
    BY <1>2, GoesQuiet DEF WaitNotReady, WaitGivenUp, WaitAgain, PrepProceed, LoadNothing,
       BuildFails, Leaving
<1>3. CASE PrepGiveUp(t)
    BY <1>3, GoesQuiet, FlaggedExcused DEF PrepGiveUp
<1>4. CASE PrepStart(t)
    BY <1>4, PrepStartSafe
<1>5. CASE WaitDataReady(t) \/ WaitDeadline(t)
    <2> DEFINE o == [task[t] EXCEPT !.timer = TimerCancelled(@)]
    <2>1. /\ o.timeout = task[t].timeout
          /\ o.abort = task[t].abort
          /\ o.timer = TimerCancelled(task[t].timer)
        BY DEF TypeOK, TaskObjects
    <2>2. \E from : Writes("prep", t, from, "gotData", o)
        BY <1>5 DEF WaitDataReady, WaitDeadline, WaitOver
    <2> QED
        BY <2>1, <2>2, WritesQuiet DEF Leaving
<1>6. CASE LoadRead(t) \/ LoadUnlink(t)
    <2>1. \A u : Reported(u)' = Reported(u)
        BY <1>6, SameReported DEF LoadRead, LoadUnlink, history
    <2>2. \E from \in {"load", "unlink"}, to \in {"unlink", "extend", "crash"} :
            Moves("prep", t, from, to)
        BY <1>6 DEF LoadRead, LoadUnlink
    <2>3. Frame
        BY <1>6, <2>1, <2>2, MoveFrame DEF LoadRead, LoadUnlink, Frame, manager, clients, history,
           Leaving
    <2> QED
        BY <1>6, <2>3, FrameKeepsInv DEF LoadRead, LoadUnlink, history, TypeOK
<1>7. CASE LoadExtend(t)
    <2> DEFINE o == [task[t] EXCEPT !.buffer = @ \cup pending]
    <2>1. /\ o.timeout = task[t].timeout
          /\ o.abort = task[t].abort
          /\ o.timer = task[t].timer
        BY DEF TypeOK, TaskObjects
    <2>2. task' = [task EXCEPT ![t] = o]
        BY <1>7 DEF LoadExtend
    <2>3. \A u \in Tasks : task'[u] = IF u = t THEN o ELSE task[u]
        BY <2>2 DEF TypeOK
    <2>4. \A u : Reported(u)' = Reported(u)
        BY <1>7, SameReported DEF LoadExtend, history
    <2>5. Moves("prep", t, "extend", "build")
        BY <1>7 DEF LoadExtend
    <2> HIDE DEF o
    <2>6. Frame
        BY <1>7, <2>1, <2>3, <2>4, <2>5, MoveFrame DEF LoadExtend, Frame, manager, clients,
           history, Leaving
    <2> QED
        BY <1>7, <2>6, FrameKeepsInv DEF LoadExtend, history, TypeOK
<1>8. CASE BuildLoaders(t)
    <2>1. \A u : Reported(u)' = Reported(u)
        BY <1>8, SameReported DEF BuildLoaders
    <2>2. /\ thread'["prep"] = [pc |-> "idle", task |-> NoTask]
          /\ thread'["train"] = thread["train"]
          /\ NoTask \notin Tasks
        BY <1>8, ConstantsAssumption DEF BuildLoaders, TypeOK
    <2>3. Frame
        BY <1>8, <2>1, <2>2 DEF BuildLoaders, Frame, clients, Inv, LeavingExcused, Leaving
    <2> QED
        BY <1>8, <2>3, FrameKeepsInv DEF BuildLoaders, TypeOK
<1>9. CASE PrepCrashStatus(t)
    BY <1>9, SetsStatusQuiet DEF PrepCrashStatus, Leaving
<1>10. CASE CleanNext("prep", t)
    BY <1>10, CleanQuiet
<1> QED
    BY <1>1, <1>2, <1>3, <1>4, <1>5, <1>6, <1>7, <1>8, <1>9, <1>10 DEF PrepNext

LEMMA TrainSafe ==
    ASSUME TypeOK, Inv, NEW t \in Tasks, TrainNext(t)
    PROVE  Inv'
<1>1. CASE \/ TrainAnnounce(t) \/ TrainCancelled(t) \/ TrainReportError(t)
           \/ TrainedCancelled(t) \/ TrainReportDone(t)
    BY <1>1, ReportsQuiet DEF TrainAnnounce, TrainCancelled, TrainReportError,
       TrainedCancelled, TrainReportDone, Statuses, Terminal, Leaving
<1>2. CASE \/ EpochBegins(t) \/ EpochsOver(t) \/ ModelSaved(t) \/ TrainInterrupted(t)
           \/ TrainRaises(t) \/ TrainedInTime(t)
    BY <1>2, GoesQuiet DEF EpochBegins, EpochsOver, ModelSaved, TrainInterrupted, TrainRaises,
       TrainedInTime, Leaving
<1>3. CASE TrainTimedOut(t)
    BY <1>3, GoesQuiet, FlaggedExcused DEF TrainTimedOut
<1>4. CASE TrainStart(t) \/ TrainSetError(t) \/ TrainMarkDone(t)
    BY <1>4, SetsStatusQuiet DEF TrainStart, TrainSetError, TrainMarkDone, Leaving
<1>5. CASE EpochEnds(t)
    <2> DEFINE o == [task[t] EXCEPT !.epoch = @ + 1]
    <2>1. /\ o.timeout = task[t].timeout
          /\ o.abort = task[t].abort
          /\ o.timer = task[t].timer
        BY DEF TypeOK, TaskObjects
    <2>2. \E to \in {"fit", "save"} : Writes("train", t, "epoch", to, o)
        BY <1>5 DEF EpochEnds
    <2> QED
        BY <2>1, <2>2, WritesQuiet DEF Leaving
<1>6. CASE CleanNext("train", t)
    BY <1>6, CleanQuiet
<1> QED
    BY <1>1, <1>2, <1>3, <1>4, <1>5, <1>6 DEF TrainNext

-----------------------------------------------------------------------------
(* The other steps. *)

LEMMA TakeSafe ==
    ASSUME TypeOK, Inv, PrepTake \/ TrainTake \/ PrepExit \/ TrainExit
    PROVE  Inv'
<1>1. CASE PrepTake
    <2> DEFINE t == Head(queue)
    <2>1. /\ queue \in Seq(Tasks) /\ queue # <<>>
          /\ t \in Tasks /\ t = queue[1]
          /\ queue' = Tail(queue)
        BY <1>1 DEF PrepTake, TypeOK
    <2>2. /\ Len(queue) \in Nat /\ Len(queue) >= 1
          /\ DOMAIN queue = 1 .. Len(queue)
          /\ DOMAIN queue' = 1 .. Len(queue) - 1
          /\ \A i \in 1 .. Len(queue) - 1 : queue'[i] = queue[i + 1]
        BY <2>1
    <2>3. /\ thread'["prep"].task = t
          /\ thread'["prep"].pc = "check"
          /\ thread'["train"] = thread["train"]
        BY <1>1 DEF PrepTake, TypeOK
    <2> HIDE DEF t
    <2>4. t \in Queued /\ QueueSound
        BY <2>1, <2>2 DEF Queued, Inv
    <2>5. t \notin Queued' /\ Queued' \subseteq Queued
        <3>1. \A i \in 1 .. Len(queue) - 1 : queue[i + 1] # t
            BY <2>1, <2>2, <2>4 DEF QueueSound
        <3> QED
            BY <2>2, <3>1 DEF Queued
    <2>6. \A u \in Tasks : Reported(u)' = Reported(u) /\ (Excused(u) => Excused(u)')
        BY <1>1, SameReported DEF PrepTake, history, Excused, TimerWillReport
    <2>7. QueueSound'
        <3>1. ASSUME NEW i \in DOMAIN queue', NEW j \in DOMAIN queue', queue'[i] = queue'[j]
              PROVE  i = j
            <4>1. /\ i + 1 \in DOMAIN queue /\ j + 1 \in DOMAIN queue
                  /\ queue[i + 1] = queue[j + 1]
                  /\ i \in Nat /\ j \in Nat
                BY <2>2, <3>1
            <4>2. i + 1 = j + 1
                BY <2>4, <4>1 DEF QueueSound
            <4> QED
                BY <4>1, <4>2
        <3>2. UNCHANGED <<task, submit>>
            BY <1>1 DEF PrepTake, clients
        <3> QED
            BY <2>3, <2>4, <2>5, <3>1, <3>2 DEF QueueSound
    <2>8. FlagsSound'
        BY <1>1, <2>6 DEF PrepTake, clients, Inv, FlagsSound
    <2>9. LeavingExcused'
        BY <2>3, <2>6 DEF Inv, LeavingExcused, Leaving
    <2>10. NoSilentDeparture'
        BY <1>1, <2>6 DEF PrepTake, history, Inv, NoSilentDeparture, Excused, TypeOK
    <2> QED
        BY <2>7, <2>8, <2>9, <2>10 DEF Inv
<1>2. CASE TrainTake
    <2>1. \A u : Reported(u)' = Reported(u)
        BY <1>2, SameReported DEF TrainTake, history
    <2>2. thread'["prep"] = thread["prep"] /\ thread'["train"].pc = "announce"
        BY <1>2 DEF TrainTake, TypeOK
    <2>3. Frame
        BY <1>2, <2>1, <2>2 DEF TrainTake, Frame, clients, history, Inv, LeavingExcused, Leaving
    <2> QED
        BY <1>2, <2>3, FrameKeepsInv DEF TrainTake, history, TypeOK
<1>3. CASE PrepExit \/ TrainExit
    BY <1>3, GoesQuiet DEF PrepExit, TrainExit, Leaving
<1> QED
    BY <1>1, <1>2, <1>3

(* The fields that the handlers write are not those of the invariant.        *)
SameFlags(o, p) == o.timeout = p.timeout /\ o.abort = p.abort /\ o.timer = p.timer

(* A call that is not ReportError changes no report, flag or timer.          *)
LEMMA HandlerQuiet ==
    ASSUME TypeOK, Inv, UNCHANGED <<queue, submit, thread, sent, left>>,
           \A d \in ErrorCalls : call'[d] = call[d],
           \A u \in Tasks : SameFlags(task[u], task'[u])
    PROVE  Inv'
<1>1. \A u : Reported(u)' = Reported(u)
    BY SameReported
<1>2. Frame
    BY <1>1 DEF Frame, SameFlags, Inv, LeavingExcused
<1> QED
    BY <1>2, FrameKeepsInv DEF TypeOK

LEMMA OtherCallsSafe ==
    ASSUME TypeOK, Inv, NEW c \in Calls \ ErrorCalls,
           SendNext(c) \/ FinishNext(c) \/ CancelNext(c)
    PROVE  Inv'
<1>1. /\ UNCHANGED <<queue, submit, thread, sent, left>>
      /\ \E x : call' = [call EXCEPT ![c] = x]
    BY DEF SendNext, FinishNext, CancelNext, GetTask, SendCheckStatus, SendDecodeError, SendRoute,
       SendToMemory, SendToFile, FinishSetReady, CancelCurrent, CancelSet, Answers, manager,
       threads, history
<1>2. \A d \in ErrorCalls : call'[d] = call[d]
    BY <1>1 DEF TypeOK, Calls
<1>3. \/ task' = task
      \/ \E t : \/ task' = [task EXCEPT ![t].status = "FAILED"]
               \/ task' = [task EXCEPT ![t].buffer = @ \cup {c}]
               \/ task' = [task EXCEPT ![t].dataReady = TRUE]
               \/ task' = [task EXCEPT ![t].cancel = TRUE]
    BY DEF SendNext, FinishNext, CancelNext, GetTask, SendCheckStatus, SendDecodeError, SendRoute,
       SendToMemory, SendToFile, FinishSetReady, CancelCurrent, CancelSet
<1>4. ASSUME NEW u \in Tasks
      PROVE  SameFlags(task[u], task'[u])
    <2>1. task[u] \in TaskObjects
        BY DEF TypeOK
    <2>2. \/ task'[u] = task[u]
          \/ \E v : \/ task'[u] = [task[u] EXCEPT !.status = v]
                   \/ task'[u] = [task[u] EXCEPT !.buffer = v]
                   \/ task'[u] = [task[u] EXCEPT !.dataReady = v]
                   \/ task'[u] = [task[u] EXCEPT !.cancel = v]
        <3>1. ASSUME NEW t, \/ task' = [task EXCEPT ![t].status = "FAILED"]
                           \/ task' = [task EXCEPT ![t].buffer = @ \cup {c}]
                           \/ task' = [task EXCEPT ![t].dataReady = TRUE]
                           \/ task' = [task EXCEPT ![t].cancel = TRUE]
              PROVE  \/ task'[u] = task[u]
                     \/ \E v : \/ task'[u] = [task[u] EXCEPT !.status = v]
                              \/ task'[u] = [task[u] EXCEPT !.buffer = v]
                              \/ task'[u] = [task[u] EXCEPT !.dataReady = v]
                              \/ task'[u] = [task[u] EXCEPT !.cancel = v]
            <4>1. CASE u # t
                BY <3>1, <4>1 DEF TypeOK
            <4>2. CASE u = t
                <5>1. \/ task'[u] = [task[u] EXCEPT !.status = "FAILED"]
                      \/ task'[u] = [task[u] EXCEPT !.buffer = task[u].buffer \cup {c}]
                      \/ task'[u] = [task[u] EXCEPT !.dataReady = TRUE]
                      \/ task'[u] = [task[u] EXCEPT !.cancel = TRUE]
                    BY <3>1, <4>2 DEF TypeOK
                <5> QED
                    BY <5>1
            <4> QED
                BY <4>1, <4>2
        <3> QED
            BY <1>3, <3>1
    <2>3. ASSUME NEW v, task'[u] = [task[u] EXCEPT !.status = v]
          PROVE  SameFlags(task[u], task'[u])
        BY <2>1, <2>3 DEF SameFlags, TaskObjects
    <2>4. ASSUME NEW v, task'[u] = [task[u] EXCEPT !.buffer = v]
          PROVE  SameFlags(task[u], task'[u])
        BY <2>1, <2>4 DEF SameFlags, TaskObjects
    <2>5. ASSUME NEW v, task'[u] = [task[u] EXCEPT !.dataReady = v]
          PROVE  SameFlags(task[u], task'[u])
        BY <2>1, <2>5 DEF SameFlags, TaskObjects
    <2>6. ASSUME NEW v, task'[u] = [task[u] EXCEPT !.cancel = v]
          PROVE  SameFlags(task[u], task'[u])
        BY <2>1, <2>6 DEF SameFlags, TaskObjects
    <2>7. CASE task'[u] = task[u]
        BY <2>7 DEF SameFlags
    <2> QED
        BY <2>2, <2>3, <2>4, <2>5, <2>6, <2>7
<1> QED
    BY <1>1, <1>2, <1>4, HandlerQuiet

LEMMA CloseSafe ==
    ASSUME TypeOK, Inv, CloseStop \/ CloseCancel
    PROVE  Inv'
<1>1. UNCHANGED <<queue, submit, thread, sent, left, call>>
    BY DEF CloseStop, CloseCancel, manager, threads, history
<1>2. \/ task' = task
      \/ task' = [task EXCEPT ![current].cancel = TRUE, ![current].dataReady = TRUE]
    BY DEF CloseStop, CloseCancel
<1>3. ASSUME NEW u \in Tasks
      PROVE  SameFlags(task[u], task'[u])
    <2>1. task[u] \in TaskObjects
        BY DEF TypeOK
    <2>2. \/ task'[u] = task[u]
          \/ task'[u] = [task[u] EXCEPT !.cancel = TRUE, !.dataReady = TRUE]
        BY <1>2 DEF TypeOK
    <2> QED
        BY <2>1, <2>2 DEF SameFlags, TaskObjects
<1> QED
    BY <1>1, <1>3, HandlerQuiet

(* A step that moves call c, adds reports and no flag keeps the invariant if *)
(* what it makes the invariant say of c is true.                             *)
LEMMA ErrorCallSafe ==
    ASSUME TypeOK, Inv, NEW c \in ErrorCalls, UNCHANGED <<queue, submit, thread, left>>,
           \A d \in ErrorCalls \ {c} : call'[d] = call[d],
           \A t \in Tasks : Reported(t) \subseteq Reported(t)',
           \A t \in Tasks : /\ task'[t].timeout = task[t].timeout
                            /\ task'[t].abort => task[t].abort \/ "FAILED" \in Reported(t)'
                            /\ task'[t].timer = task[t].timer,
           call'[c].pc \notin {"new", "rejected"} => call'[c].task \in Tasks,
           \A t \in Tasks :
               call'[c].task = t /\ call'[c].pc \in {"reported", "read", "failed"}
               => "FAILED" \in Reported(t)'
    PROVE  Inv'
<1>1. \A u \in Tasks : Excused(u) => Excused(u)'
    BY DEF Excused, TimerWillReport
<1>2. QueueSound'
    BY DEF Inv, QueueSound, Queued
<1>3. FlagsSound'
    BY DEF Inv, FlagsSound
<1>4. LeavingExcused'
    BY <1>1 DEF Inv, LeavingExcused
<1>5. NoSilentDeparture'
    <2>1. left' \subseteq Tasks
        BY DEF TypeOK
    <2> QED
        BY <1>1, <2>1 DEF Inv, NoSilentDeparture, Excused
<1> QED
    BY <1>2, <1>3, <1>4, <1>5 DEF Inv

LEMMA ErrorSafe ==
    ASSUME TypeOK, Inv, NEW c \in ErrorCalls, ErrorNext(c)
    PROVE  Inv'
<1> c \in Calls /\ CallId[c] \in Ids
    BY ConstantsAssumption DEF Calls
<1>1. FlagsSound /\ call[c] \in CallStates
    BY DEF Inv, TypeOK
<1>t. PICK t : call[c].task = t
    OBVIOUS
<1>2. CASE GetTask(c)
    <2>1. /\ UNCHANGED <<task, queue, submit, thread, sent, left>>
          /\ call' = [call EXCEPT ![c].pc = IF tasks[CallId[c]] = NoTask THEN "rejected" ELSE "found",
                                  ![c].task = tasks[CallId[c]]]
        BY <1>2 DEF GetTask, manager, threads, history
    <2>2. \A d \in ErrorCalls \ {c} : call'[d] = call[d]
        BY <2>1 DEF TypeOK, Calls
    <2>3. \/ call'[c].pc = "rejected"
          \/ call'[c].pc = "found" /\ call'[c].task \in Tasks
        BY <1>1, <2>1 DEF TypeOK, CallStates
    <2>4. \A u : Reported(u)' = Reported(u)
        BY <2>1, SameReported
    <2> QED
        BY <2>1, <2>2, <2>3, <2>4, ErrorCallSafe
<1>3. CASE ErrorReport(c)
    <2>1. /\ UNCHANGED <<task, queue, submit, thread, left>>
          /\ call[c].pc = "found"
          /\ call' = [call EXCEPT ![c].pc = "reported"]
          /\ Report(t, "FAILED")
        BY <1>3, <1>t DEF ErrorReport, Answers, manager, threads
    <2>2. \A d \in ErrorCalls \ {c} : call'[d] = call[d]
        BY <2>1 DEF TypeOK, Calls
    <2>3. call'[c].pc = "reported" /\ call'[c].task = t /\ t \in Tasks
        BY <1>1, <1>t, <2>1 DEF TypeOK, CallStates, FlagsSound
    <2>4. \A u \in Tasks : Reported(u)' = IF u = t THEN Reported(u) \cup {"FAILED"} ELSE Reported(u)
        BY <2>1, ReportAdds
    <2>5. "FAILED" \in Reported(t)' /\ \A u \in Tasks : Reported(u) \subseteq Reported(u)'
        BY <2>3, <2>4
    <2> QED
        BY <2>1, <2>2, <2>3, <2>5, ErrorCallSafe
<1>4. CASE ErrorReadStatus(c)
    <2>1. PICK q \in BOOLEAN : call' = [call EXCEPT ![c].pc = "read", ![c].queued = q]
        BY <1>4 DEF ErrorReadStatus
    <2>2. /\ UNCHANGED <<task, queue, submit, thread, sent, left>>
          /\ call[c].pc = "reported"
        BY <1>4 DEF ErrorReadStatus, manager, threads, history
    <2>3. \A d \in ErrorCalls \ {c} : call'[d] = call[d]
        BY <2>1 DEF TypeOK, Calls
    <2>4. call'[c].pc = "read" /\ call'[c].task = t
        BY <1>1, <1>t, <2>1 DEF TypeOK, CallStates
    <2>5. t \in Tasks /\ "FAILED" \in Reported(t)
        BY <1>1, <1>t, <2>2 DEF FlagsSound
    <2>6. \A u : Reported(u)' = Reported(u)
        BY <2>2, SameReported
    <2> QED
        BY <2>2, <2>3, <2>4, <2>5, <2>6, ErrorCallSafe
<1>5. CASE ErrorSetStatus(c)
    <2>1. /\ UNCHANGED <<queue, submit, thread, sent, left>>
          /\ call[c].pc = "read"
          /\ call' = [call EXCEPT ![c].pc = "failed"]
          /\ task' = [task EXCEPT ![t].status = "FAILED"]
        BY <1>5, <1>t DEF ErrorSetStatus, Answers, manager, threads, history
    <2>2. \A d \in ErrorCalls \ {c} : call'[d] = call[d]
        BY <2>1 DEF TypeOK, Calls
    <2>3. call'[c].pc = "failed" /\ call'[c].task = t
        BY <1>1, <1>t, <2>1 DEF TypeOK, CallStates
    <2>4. t \in Tasks /\ "FAILED" \in Reported(t)
        BY <1>1, <1>t, <2>1 DEF FlagsSound
    <2>5. \A u : Reported(u)' = Reported(u)
        BY <2>1, SameReported
    <2>6. \A u \in Tasks : /\ task'[u].timeout = task[u].timeout
                           /\ task'[u].abort = task[u].abort
                           /\ task'[u].timer = task[u].timer
        BY <2>1 DEF TypeOK, TaskObjects
    <2> QED
        BY <2>1, <2>2, <2>3, <2>4, <2>5, <2>6, ErrorCallSafe
<1>6. CASE ErrorAbort(c)
    <2>1. /\ UNCHANGED <<queue, submit, thread, sent, left>>
          /\ call[c].pc = "failed"
          /\ \E p \in {"cleared", "aborted"} : call' = [call EXCEPT ![c].pc = p]
          /\ task' = [task EXCEPT ![t].abort = TRUE]
        BY <1>6, <1>t DEF ErrorAbort, Answers, manager, threads, history
    <2>2. \A d \in ErrorCalls \ {c} : call'[d] = call[d]
        BY <2>1 DEF TypeOK, Calls
    <2>3. call'[c].pc \in {"cleared", "aborted"} /\ call'[c].task = t
        BY <1>1, <1>t, <2>1 DEF TypeOK, CallStates
    <2>4. t \in Tasks /\ "FAILED" \in Reported(t)
        BY <1>1, <1>t, <2>1 DEF FlagsSound
    <2>5. \A u : Reported(u)' = Reported(u)
        BY <2>1, SameReported
    <2>6. \A u \in Tasks : /\ task'[u].timeout = task[u].timeout
                           /\ task'[u].abort => task[u].abort \/ u = t
                           /\ task'[u].timer = task[u].timer
        <3>1. ASSUME NEW u \in Tasks PROVE task[u] \in TaskObjects
            BY DEF TypeOK
        <3> QED
            BY <2>1, <3>1 DEF TypeOK, TaskObjects
    <2> QED
        BY <2>1, <2>2, <2>3, <2>4, <2>5, <2>6, ErrorCallSafe
<1>7. CASE ErrorClear(c)
    <2>1. /\ UNCHANGED <<queue, submit, thread, sent, left>>
          /\ call[c].pc = "aborted"
          /\ call' = [call EXCEPT ![c].pc = "cleared"]
          /\ task' = [task EXCEPT ![t].buffer = {}]
        BY <1>7, <1>t DEF ErrorClear, Answers, manager, threads, history
    <2>2. \A d \in ErrorCalls \ {c} : call'[d] = call[d]
        BY <2>1 DEF TypeOK, Calls
    <2>3. call'[c].pc = "cleared" /\ call'[c].task = t
        BY <1>1, <1>t, <2>1 DEF TypeOK, CallStates
    <2>4. t \in Tasks
        BY <1>1, <1>t, <2>1 DEF FlagsSound
    <2>5. \A u : Reported(u)' = Reported(u)
        BY <2>1, SameReported
    <2>6. \A u \in Tasks : /\ task'[u].timeout = task[u].timeout
                           /\ task'[u].abort = task[u].abort
                           /\ task'[u].timer = task[u].timer
        BY <2>1 DEF TypeOK, TaskObjects
    <2> QED
        BY <2>1, <2>2, <2>3, <2>4, <2>5, <2>6, ErrorCallSafe
<1>8. CASE ErrorRemove(c)
    <2>1. /\ UNCHANGED <<task, queue, submit, thread, sent, left>>
          /\ call[c].pc = "cleared"
          /\ call' = [call EXCEPT ![c].pc = "ok"]
        BY <1>8 DEF ErrorRemove, Answers, manager, threads, history
    <2>2. \A d \in ErrorCalls \ {c} : call'[d] = call[d]
        BY <2>1 DEF TypeOK, Calls
    <2>3. call'[c].pc = "ok" /\ call'[c].task \in Tasks
        BY <1>1, <2>1 DEF TypeOK, CallStates, FlagsSound
    <2>4. \A u : Reported(u)' = Reported(u)
        BY <2>1, SameReported
    <2> QED
        BY <2>1, <2>2, <2>3, <2>4, ErrorCallSafe
<1> QED
    BY <1>2, <1>3, <1>4, <1>5, <1>6, <1>7, <1>8 DEF ErrorNext

LEMMA SubmitSafe ==
    ASSUME TypeOK, Inv, NEW t \in Tasks, SubmitNext(t)
    PROVE  Inv'
<1>1. /\ UNCHANGED <<task, thread, call, left>>
      /\ left \subseteq Tasks
    BY DEF SubmitNext, SubmitRegister, SubmitEnqueue, SubmitReport, threads, history, TypeOK
<1>2. \A u \in Tasks : Reported(u) \subseteq Reported(u)'
    <2>1. CASE UNCHANGED sent
        BY <2>1, SameReported
    <2>2. CASE Report(t, "QUEUED")
        BY <2>2, ReportAdds
    <2> QED
        BY <2>1, <2>2 DEF SubmitNext, SubmitRegister, SubmitEnqueue, SubmitReport, history
<1>3. QueueSound'
    <2>1. QueueSound
        BY DEF Inv
    <2>2. CASE SubmitRegister(t)
        <3>1. UNCHANGED queue /\ Queued' = Queued
            BY <2>2 DEF SubmitRegister, Queued
        <3>2. \A u \in Tasks : submit'[u] \in {"new", "registered"}
                               => submit[u] \in {"new", "registered"}
            BY <2>2 DEF SubmitRegister, TypeOK
        <3> QED
            BY <1>1, <2>1, <3>1, <3>2 DEF QueueSound
    <2>3. CASE SubmitEnqueue(t)
        <3>1. /\ queue \in Seq(Tasks) /\ queue' = Append(queue, t)
              /\ submit[t] = "registered"
              /\ submit' = [submit EXCEPT ![t] = "enqueued"]
            BY <2>3 DEF SubmitEnqueue, TypeOK
        <3>2. /\ Len(queue) \in Nat
              /\ DOMAIN queue = 1 .. Len(queue)
              /\ DOMAIN queue' = 1 .. Len(queue) + 1
              /\ queue'[Len(queue) + 1] = t
              /\ \A i \in 1 .. Len(queue) : queue'[i] = queue[i]
            BY <3>1
        <3>3. /\ t \notin Queued /\ thread["prep"].task # t
              /\ task[t].timer = "off"
            BY <2>1, <3>1 DEF QueueSound
        <3>4. Queued' = Queued \cup {t}
            BY <3>2 DEF Queued
        <3>5. \A i \in 1 .. Len(queue) : queue[i] # t
            BY <3>2, <3>3 DEF Queued
        <3>6. ASSUME NEW i \in DOMAIN queue', NEW j \in DOMAIN queue', queue'[i] = queue'[j]
              PROVE  i = j
            <4>1. \A k, l \in 1 .. Len(queue) : queue[k] = queue[l] => k = l
                BY <2>1, <3>2 DEF QueueSound
            <4> QED
                BY <3>2, <3>5, <3>6, <4>1
        <3>7. /\ submit'[t] = "enqueued"
              /\ \A u \in Tasks : u # t => submit'[u] = submit[u]
            BY <3>1 DEF TypeOK
        <3> QED
            BY <1>1, <2>1, <3>3, <3>4, <3>6, <3>7 DEF QueueSound
    <2>4. CASE SubmitReport(t)
        <3>1. UNCHANGED queue /\ Queued' = Queued
            BY <2>4 DEF SubmitReport, manager, Queued
        <3>2. \A u \in Tasks : submit'[u] \in {"new", "registered"}
                               => submit[u] \in {"new", "registered"}
            BY <2>4 DEF SubmitReport, TypeOK
        <3> QED
            BY <1>1, <2>1, <3>1, <3>2 DEF QueueSound
    <2> QED
        BY <2>2, <2>3, <2>4 DEF SubmitNext
<1>4. \A u \in Tasks : Excused(u) => Excused(u)'
    BY <1>1, <1>2 DEF Excused, TimerWillReport
<1>5. FlagsSound'
    BY <1>1, <1>2 DEF Inv, FlagsSound
<1>6. LeavingExcused'
    BY <1>1, <1>4 DEF Inv, LeavingExcused
<1>7. NoSilentDeparture'
    BY <1>1, <1>4 DEF Inv, NoSilentDeparture, Excused
<1> QED
    BY <1>3, <1>5, <1>6, <1>7 DEF Inv

LEMMA TimerSafe ==
    ASSUME TypeOK, Inv, NEW t \in Tasks, TimerNext(t)
    PROVE  Inv'
<1> USE DEF TimerNext, TimerFires, TimerFlags, TimerReports, TimerSetsStatus
<1>1. /\ UNCHANGED <<queue, submit, thread, call, left>>
      /\ left \subseteq Tasks /\ Queued' = Queued
    BY DEF TimerStep, manager, threads, clients, TypeOK, Queued
<1>2. /\ task[t] \in TaskObjects
      /\ \E o : task' = [task EXCEPT ![t] = o]
    BY DEF TimerStep, TypeOK
<1>3. \A u \in Tasks : u # t => task'[u] = task[u]
    BY <1>2 DEF TypeOK
<1>4. \A u \in Tasks : Reported(u) \subseteq Reported(u)'
    <2>1. CASE UNCHANGED sent
        BY <2>1, SameReported
    <2>2. CASE Report(t, "CANCELLED")
        BY <2>2, ReportAdds
    <2> QED
        BY <2>1, <2>2
<1>5. /\ task[t].timer # "off"
      /\ task'[t].abort = task[t].abort
      /\ task'[t].timeout => task'[t].timer \in {"flagged", "reported", "done"}
      /\ task'[t].timer \in {"reported", "done"} => "CANCELLED" \in Reported(t)'
      /\ TimerWillReport(t) => TimerWillReport(t)' \/ "CANCELLED" \in Reported(t)'
    <2>1. FlagsSound
        BY DEF Inv
    <2>2. /\ task[t].timeout => task[t].timer \in {"flagged", "reported", "done"}
          /\ task[t].timer = "reported" => "CANCELLED" \in Reported(t)'
        BY <1>4, <2>1 DEF FlagsSound
    <2>3. CASE TimerFires(t)
        <3>1. task'[t] = [task[t] EXCEPT !.timer = "fired"] /\ task[t].timer = "armed"
            BY <2>3 DEF TimerStep, TypeOK
        <3> QED
            BY <1>2, <2>2, <3>1 DEF TaskObjects, TimerWillReport
    <2>4. CASE TimerFlags(t)
        <3>1. /\ task'[t] = [task[t] EXCEPT !.timer = "flagged", !.timeout = TRUE]
              /\ task[t].timer = "fired"
            BY <2>4 DEF TimerStep, TypeOK
        <3> QED
            BY <1>2, <2>2, <3>1 DEF TaskObjects, TimerWillReport
    <2>5. CASE TimerReports(t)
        <3>1. task'[t] = [task[t] EXCEPT !.timer = "reported"] /\ task[t].timer = "flagged"
            BY <2>5 DEF TimerStep, TypeOK
        <3>2. "CANCELLED" \in Reported(t)'
            BY <2>5, ReportAdds
        <3> QED
            BY <1>2, <2>2, <3>1, <3>2 DEF TaskObjects, TimerWillReport
    <2>6. CASE TimerSetsStatus(t)
        <3>1. /\ task'[t] = [task[t] EXCEPT !.timer = "done", !.status = "CANCELLED"]
              /\ task[t].timer = "reported"
            BY <2>6 DEF TimerStep, TypeOK
        <3> QED
            BY <1>2, <2>2, <3>1 DEF TaskObjects, TimerWillReport
    <2> QED
        BY <2>3, <2>4, <2>5, <2>6
<1>6. \A u \in Tasks : Excused(u) => Excused(u)'
    <2>1. ASSUME NEW u \in Tasks, Excused(u)
          PROVE  Excused(u)'
        <3>1. TimerWillReport(u) => TimerWillReport(u)' \/ "CANCELLED" \in Reported(u)'
            BY <1>3, <1>5 DEF TimerWillReport
        <3> QED
            BY <1>4, <2>1, <3>1, ExcuseLasts
    <2> QED
        BY <2>1
<1>7. QueueSound'
    BY <1>1, <1>3, <1>5 DEF Inv, QueueSound
<1>8. FlagsSound'
    BY <1>1, <1>3, <1>4, <1>5 DEF Inv, FlagsSound
<1>9. LeavingExcused'
    BY <1>1, <1>6 DEF Inv, LeavingExcused
<1>10. NoSilentDeparture'
    BY <1>1, <1>6 DEF Inv, NoSilentDeparture, Excused
<1> QED
    BY <1>7, <1>8, <1>9, <1>10 DEF Inv

LEMMA InitInv == Init => Inv
<1> SUFFICES ASSUME Init PROVE Inv
    OBVIOUS
<1>1. QueueSound
    BY ConstantsAssumption DEF Init, QueueSound, Queued, NewTask
<1>2. FlagsSound
    BY DEF Init, FlagsSound, NewTask, Calls
<1>3. LeavingExcused /\ NoSilentDeparture
    BY ConstantsAssumption DEF Init, LeavingExcused, NoSilentDeparture
<1> QED
    BY <1>1, <1>2, <1>3 DEF Inv

LEMMA InvStep == TypeOK /\ Inv /\ [Next]_vars => Inv'
<1> SUFFICES ASSUME TypeOK, Inv, [Next]_vars PROVE Inv'
    OBVIOUS
<1>1. CASE \E t \in Tasks : SubmitNext(t) \/ TimerNext(t)
    BY <1>1, SubmitSafe, TimerSafe
<1>2. CASE \E c \in Calls : CallNext(c)
    <2>1. PICK c \in Calls : CallNext(c)
        BY <1>2
    <2>2. CASE c \in ErrorCalls /\ ErrorNext(c)
        BY <2>2, ErrorSafe
    <2>3. CASE \/ c \in SendCalls /\ SendNext(c)
               \/ c \in FinishCalls /\ FinishNext(c)
               \/ c \in CancelCalls /\ CancelNext(c)
        <3>1. c \in Calls \ ErrorCalls
            BY <2>3, ConstantsAssumption
        <3> QED
            BY <2>3, <3>1, OtherCallsSafe
    <2> QED
        BY <2>1, <2>2, <2>3 DEF CallNext
<1>3. CASE CloseStop \/ CloseCancel
    BY <1>3, CloseSafe
<1>4. CASE PrepThread \/ TrainThread
    BY <1>4, TakeSafe, PrepSafe, TrainSafe DEF PrepThread, TrainThread
<1>5. CASE Idle \/ UNCHANGED vars
    <2>1. UNCHANGED <<task, queue, submit, thread, sent, left, call>>
        BY <1>5 DEF Idle, vars, manager, threads, clients, history
    <2>2. \A u \in Tasks : SameFlags(task[u], task'[u])
        BY <2>1 DEF SameFlags
    <2> QED
        BY <2>1, <2>2, HandlerQuiet
<1> QED
    BY <1>1, <1>2, <1>3, <1>4, <1>5 DEF Next

(* No task disappears in silence, for any number of tasks and calls.         *)
THEOREM NobodyLeavesInSilence == Spec => []NoSilentDeparture
<1>1. Init => Inv
    BY InitInv
<1>2. TypeOK /\ Inv /\ [Next]_vars => Inv'
    BY InvStep
<1>3. Spec => []Inv
    BY <1>1, <1>2, TypesKept, PTL DEF Spec
<1>4. Inv => NoSilentDeparture
    BY DEF Inv
<1> QED
    BY <1>3, <1>4, PTL
=============================================================================
