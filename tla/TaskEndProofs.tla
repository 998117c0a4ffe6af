---------------------------- MODULE TaskEndProofs ----------------------------
(***************************************************************************)
(* Theorems about how tasks end, for any tasks, ids, calls and epochs: how *)
(* many verdicts a task gets, on which data it has been trained when it is *)
(* reported finished, and how its spool file is read.                      *)
(***************************************************************************)
EXTENDS TaskLineProofs, FiniteSetTheorems

-----------------------------------------------------------------------------
(* The number of times a value is in a sequence.                             *)
Count(q, x) == Cardinality({i \in DOMAIN q : q[i] = x})

LEMMA CountTyped ==
    ASSUME NEW S, NEW q \in Seq(S), NEW x
    PROVE  IsFiniteSet({i \in DOMAIN q : q[i] = x}) /\ Count(q, x) \in Nat
<1> DEFINE A == {i \in DOMAIN q : q[i] = x}
<1>1. 0 + 1 \in Int /\ Len(q) \in Int /\ DOMAIN q = 1 .. Len(q)
    OBVIOUS
<1>2. IsFiniteSet(1 .. Len(q))
    BY <1>1, FS_Interval
<1>3. A \subseteq 1 .. Len(q)
    BY <1>1
<1>4. IsFiniteSet(A)
    BY <1>2, <1>3, FS_Subset
<1>5. Cardinality(A) \in Nat
    BY <1>4, FS_CardinalityType
<1> QED
    BY <1>4, <1>5 DEF Count

LEMMA CountOfAppend ==
    ASSUME NEW S, NEW q \in Seq(S), NEW s \in S, NEW x \in S
    PROVE  Count(Append(q, s), x) = Count(q, x) + (IF s = x THEN 1 ELSE 0)
<1> DEFINE A == {i \in DOMAIN q : q[i] = x}
           B == {i \in DOMAIN Append(q, s) : Append(q, s)[i] = x}
           n == Len(q) + 1
<1>1. /\ DOMAIN q = 1 .. Len(q) /\ DOMAIN Append(q, s) = 1 .. n
      /\ \A i \in 1 .. Len(q) : Append(q, s)[i] = q[i]
      /\ Append(q, s)[n] = s
      /\ Len(q) \in Nat /\ n = Len(q) + 1
    OBVIOUS
<1>2. n \notin A /\ B = IF s = x THEN A \cup {n} ELSE A
    <2> HIDE DEF n
    <2>1. \A i \in 1 .. n : i \in 1 .. Len(q) \/ i = n
        BY <1>1
    <2>2. 1 .. Len(q) \subseteq 1 .. n /\ n \notin 1 .. Len(q) /\ n \in 1 .. n
        BY <1>1
    <2> QED
        BY <1>1, <2>1, <2>2
<1>3. IsFiniteSet(A) /\ Cardinality(A) \in Nat
    BY CountTyped DEF Count
<1> HIDE DEF A, B, n
<1>4. Cardinality(B) = Cardinality(A) + (IF s = x THEN 1 ELSE 0)
    <2>1. CASE s = x
        BY <1>2, <1>3, <2>1, FS_AddElement
    <2>2. CASE s # x
        BY <1>2, <1>3, <2>2
    <2> QED
        BY <2>1, <2>2
<1> QED
    BY <1>4 DEF A, B, Count

LEMMA CountsTyped ==
    ASSUME TypeOK, NEW u \in Tasks, NEW x
    PROVE  HowOften(u, x) \in Nat
<1>1. sent[u] \in Seq(Statuses)
    BY DEF TypeOK
<1> QED
    BY <1>1, CountTyped DEF HowOften, Count

(* The number of times a status has been reported.                           *)
LEMMA ReportCounts ==
    ASSUME TypeOK, NEW t \in Tasks, NEW s \in Statuses, Report(t, s),
           NEW u \in Tasks, NEW x \in Statuses
    PROVE  HowOften(u, x)' = HowOften(u, x) + (IF u = t /\ s = x THEN 1 ELSE 0)
<1>1. sent[u] \in Seq(Statuses) /\ sent'[u] = IF u = t THEN Append(sent[u], s) ELSE sent[u]
    BY DEF Report, TypeOK
<1>2. HowOften(u, x) \in Nat
    BY CountsTyped
<1>3. HowOften(u, x) = Count(sent[u], x) /\ HowOften(u, x)' = Count(sent'[u], x)
    BY DEF HowOften, Count
<1>4. CASE u = t
    BY <1>1, <1>3, <1>4, CountOfAppend
<1>5. CASE u # t
    BY <1>1, <1>2, <1>3, <1>5
<1> QED
    BY <1>4, <1>5

-----------------------------------------------------------------------------
(* The pipeline has not pronounced on t yet: t is before its first clean-up  *)
(* step, or before the step that leads there.                                *)
Undecided == (PrepPCs \cup TrainPCs) \ {"setFailed"}
Open(t) == \/ Early(t) \/ t \in Queued \/ t \in Ready
           \/ \E th \in {"prep", "train"} : thread[th].task = t /\ thread[th].pc \in Undecided

(* The ReportError calls that have reported t.                               *)
Aborters(t) == {c \in ErrorCalls : call[c].task = t /\ call[c].pc # "found"}
Verdicts(t) == HowOften(t, "FINISHED") + HowOften(t, "FAILED") + HowOften(t, "CANCELLED")
TimedOut(t) == task[t].timer \in Past

(* The account of a task: its verdicts have reasons, and the pipeline's own  *)
(* is still to come as long as the task is open.                             *)
Account(t) ==
    /\ IsFiniteSet(Aborters(t))
    /\ HowOften(t, "FAILED") >= Cardinality(Aborters(t))
    /\ Verdicts(t) <= (IF Open(t) THEN 0 ELSE 1) + (IF TimedOut(t) THEN 1 ELSE 0)
                      + Cardinality(Aborters(t))
VerdictSound == \A t \in Tasks : Account(t)

-----------------------------------------------------------------------------
(* A step that pronounces: it comes from an open place and goes to one that  *)
(* is not, and does nothing else to the task.                                *)
Pronounces(t, s) ==
    /\ Report(t, s) /\ Open(t) /\ ~Open(t)' /\ UNCHANGED <<task, call>>
    /\ s = "FINISHED" => Trains(t)

LEMMA PronouncesFrom ==
    ASSUME TypeOK, QueueSound, PlacesSound, NEW th \in {"prep", "train"}, NEW t \in Tasks,
           NEW from \in Undecided, NEW s, NEW to, to \notin Undecided, Reports(th, t, from, s, to),
           s = "FINISHED" => th = "train"
    PROVE  Pronounces(t, s)
<1>1. /\ thread[th].task = t /\ thread[th].pc = from /\ thread'[th].pc = to
      /\ \A h \in {"prep", "train"} : h # th => thread'[h] = thread[h]
    BY DEF Reports, Moves, TypeOK, Places
<1>2. Open(t)
    BY <1>1 DEF Open
<1>3. ~Early(t) /\ t \notin Queued /\ t \notin Ready
      /\ \A h \in {"prep", "train"} : h # th => thread[h].task # t
    BY <1>1 DEF QueueSound, PlacesSound, Waits, Trains
<1>4. UNCHANGED <<queue, ready, submit, task, call>>
    BY DEF Reports, manager, clients
<1>5. ~Open(t)'
    BY <1>1, <1>3, <1>4 DEF Open, Early, Queued, Ready, Elements
<1> QED
    BY <1>1, <1>2, <1>4, <1>5 DEF Pronounces, Reports, Trains

(* Who reports.                                                              *)
ReportSteps ==
    \/ UNCHANGED sent
    \/ \E t \in Tasks, s \in {"QUEUED", "PREPARING", "RUNNING"} :
          Report(t, s) /\ UNCHANGED <<task, call>>
    \/ \E t \in Tasks, s \in Terminal : Pronounces(t, s)
    \/ \E t \in Tasks : TimerReports(t)
    \/ \E c \in ErrorCalls : ErrorReport(c)

LEMMA PrepReports ==
    ASSUME TypeOK, QueueSound, PlacesSound, NEW t \in Tasks, PrepNext(t)
    PROVE  ReportSteps
<1>1. CASE PrepAnnounce(t)
    BY <1>1 DEF PrepAnnounce, Reports, clients, ReportSteps
<1>2. CASE \/ PrepCancelledEarly(t) \/ PrepCancelledWaiting(t) \/ PrepCancelledReady(t)
           \/ PrepCrashReport(t)
    <2>1. PICK from \in Undecided, s \in {"CANCELLED", "FAILED"}, to \in {"setCancelled", "clean"} :
            Reports("prep", t, from, s, to)
        BY <1>2 DEF PrepCancelledEarly, PrepCancelledWaiting, PrepCancelledReady, PrepCrashReport,
           Undecided, PrepPCs
    <2>2. Pronounces(t, s)
        BY <2>1, PronouncesFrom DEF Undecided, PrepPCs, TrainPCs
    <2> QED
        BY <2>1, <2>2 DEF ReportSteps, Terminal
<1>3. CASE CleanNext("prep", t)
    BY <1>3 DEF CleanNext, SetCancelled, CleanData, CleanTables, CleanFile, SetsStatus, Writes,
       history, ReportSteps
<1> QED
    BY <1>1, <1>2, <1>3 DEF PrepNext, PrepStart, WaitDataReady, WaitNotReady, WaitGivenUp,
       WaitDeadline, WaitAgain, WaitOver, PrepGiveUp, PrepProceed, LoadNothing, LoadRead,
       LoadUnlink, LoadExtend, BuildLoaders, BuildFails, PrepCrashStatus, Goes, SetsStatus, Writes,
       history, ReportSteps

LEMMA TrainReports ==
    ASSUME TypeOK, QueueSound, PlacesSound, NEW t \in Tasks, TrainNext(t)
    PROVE  ReportSteps
<1>1. CASE TrainAnnounce(t)
    BY <1>1 DEF TrainAnnounce, Reports, clients, ReportSteps
<1>2. CASE \/ TrainCancelled(t) \/ TrainReportError(t) \/ TrainedCancelled(t)
           \/ TrainReportDone(t)
    <2>1. PICK from \in Undecided, s \in Terminal, to \in {"setCancelled", "setFailed", "clean"} :
            Reports("train", t, from, s, to)
        BY <1>2 DEF TrainCancelled, TrainReportError, TrainedCancelled, TrainReportDone,
           Undecided, TrainPCs, Terminal
    <2>2. Pronounces(t, s)
        BY <2>1, PronouncesFrom DEF Undecided, PrepPCs, TrainPCs
    <2> QED
        BY <2>1, <2>2 DEF ReportSteps
<1>3. CASE CleanNext("train", t)
    BY <1>3 DEF CleanNext, SetCancelled, CleanData, CleanTables, CleanFile, SetsStatus, Writes,
       history, ReportSteps
<1> QED
    BY <1>1, <1>2, <1>3 DEF TrainNext, TrainStart, EpochBegins, EpochEnds, EpochsOver, ModelSaved,
       TrainInterrupted, TrainRaises, TrainTimedOut, TrainSetError, TrainedInTime, TrainMarkDone,
       Goes, SetsStatus, Writes, history, ReportSteps

LEMMA ReportKinds ==
    ASSUME TypeOK, QueueSound, PlacesSound, [Next]_vars
    PROVE  ReportSteps
<1>1. ASSUME NEW c \in Calls, CallNext(c)
      PROVE  ReportSteps
    BY <1>1 DEF CallNext, SendNext, FinishNext, ErrorNext, CancelNext, GetTask, SendCheckStatus,
       SendDecodeError, SendRoute, SendToMemory, SendToFile, FinishSetReady, ErrorReadStatus,
       ErrorSetStatus, ErrorAbort, ErrorClear, ErrorRemove, CancelCurrent, CancelSet, history,
       ReportSteps
<1>2. ASSUME NEW t \in Tasks, SubmitNext(t) \/ TimerNext(t)
      PROVE  ReportSteps
    BY <1>2 DEF SubmitNext, SubmitRegister, SubmitEnqueue, SubmitReport, TimerNext, TimerFires,
       TimerFlags, TimerSetsStatus, history, ReportSteps
<1>3. CASE PrepThread
    BY <1>3, PrepReports DEF PrepThread, PrepTake, PrepExit, Goes, history, ReportSteps
<1>4. CASE TrainThread
    BY <1>4, TrainReports DEF TrainThread, TrainTake, TrainExit, Goes, history, ReportSteps
<1> QED
    BY <1>1, <1>2, <1>3, <1>4 DEF Next, CloseStop, CloseCancel, Idle, vars, history, ReportSteps

-----------------------------------------------------------------------------
(* Where the train thread is with t, it came to by taking t from its queue,  *)
(* or one step ago it was with t at a place that leads there.                *)
LEMMA TrainStays ==
    ASSUME TypeOK, PlacesSound, [Next]_vars, NEW t \in Tasks, thread'["train"].task = t
    PROVE  \/ thread'["train"] = thread["train"]
           \/ TrainTake /\ thread'["train"].pc = "announce" /\ t \in Ready
           \/ TrainNext(t) /\ thread["train"].task = t
<1>1. NoTask \notin Tasks
    BY ConstantsAssumption
<1>2. CASE TrainTake
    <2>1. ready \in Seq(Tasks) /\ Distinct(ready) /\ ready # <<>>
        BY <1>2 DEF TrainTake, TypeOK, PlacesSound
    <2>2. t = Head(ready) /\ thread'["train"].pc = "announce"
        BY <1>2 DEF TrainTake, TypeOK
    <2> QED
        BY <1>2, <2>1, <2>2, TailDrops DEF Ready
<1>3. ASSUME NEW u \in Tasks, TrainNext(u)
      PROVE  thread["train"].task = u /\ (u = t \/ thread'["train"].task # t)
    <2>1. ASSUME NEW from, NEW to, Moves("train", u, from, to)
          PROVE  thread["train"].task = u /\ thread'["train"].task = u
        BY <2>1 DEF Moves, TypeOK, Places
    <2>2. CASE CleanFile("train", u)
        BY <1>1, <2>2 DEF CleanFile, TypeOK
    <2> QED
        BY <1>3, <2>1, <2>2 DEF TrainNext, TrainAnnounce, TrainStart, EpochBegins, EpochEnds,
           EpochsOver, ModelSaved, TrainInterrupted, TrainRaises, TrainTimedOut, TrainCancelled,
           TrainReportError, TrainSetError, TrainedCancelled, TrainedInTime, TrainMarkDone,
           TrainReportDone, CleanNext, SetCancelled, CleanData, CleanTables, Goes, Reports,
           SetsStatus, Writes
<1> QED
    BY <1>1, <1>2, <1>3, TrainPath

(* Nobody becomes open again.                                                *)
LEMMA UndecidedFrom ==
    ASSUME TypeOK, QueueSound, PlacesSound, [Next]_vars, NEW t \in Tasks,
           NEW th \in {"prep", "train"}, thread'[th].task = t, thread'[th].pc \in Undecided
    PROVE  Open(t)
<1>0. ASSUME NEW h \in {"prep", "train"}, NEW from, NEW to, Moves(h, t, from, to)
      PROVE  thread[h].task = t /\ thread[h].pc = from /\ thread'[h].pc = to
    BY <1>0 DEF Moves, TypeOK, Places
<1>1. ASSUME NEW h \in {"prep", "train"}, CleanNext(h, t), thread'[h].task = t
      PROVE  thread'[h].pc \notin Undecided
    <2>1. CASE CleanFile(h, t)
        BY <1>1, <2>1, ConstantsAssumption DEF CleanFile, TypeOK
    <2>2. CASE SetCancelled(h, t) \/ CleanData(h, t) \/ CleanTables(h, t)
        <3>1. thread'[h].pc \in {"clean", "unregister", "sweep"}
            BY <1>0, <2>2 DEF SetCancelled, CleanData, CleanTables, SetsStatus, Writes
        <3> QED
            BY <3>1 DEF Undecided, PrepPCs, TrainPCs
    <2> QED
        BY <1>1, <2>1, <2>2 DEF CleanNext
<1>2. CASE th = "prep"
    <2>1. CASE PrepTake
        <3>1. queue \in Seq(Tasks) /\ Distinct(queue) /\ Queued = Elements(queue)
            BY DEF TypeOK, QueueSound, Queued, Distinct, Elements
        <3>2. queue # <<>> /\ t = Head(queue)
            BY <1>2, <2>1 DEF PrepTake, TypeOK
        <3> QED
            BY <3>1, <3>2, TailDrops DEF Open
    <2>2. CASE PrepNext(t) /\ ~CleanNext("prep", t)
        <3>1. thread["prep"].task = t /\ thread["prep"].pc \in PrepPCs
            BY <1>0, <2>2 DEF PrepNext, PrepCancelledEarly, PrepAnnounce, PrepStart, WaitDataReady,
               WaitNotReady, WaitGivenUp, WaitDeadline, WaitAgain, WaitOver, PrepGiveUp,
               PrepCancelledWaiting, PrepCancelledReady, PrepProceed, LoadNothing, LoadRead,
               LoadUnlink, LoadExtend, BuildLoaders, BuildFails, PrepCrashStatus, PrepCrashReport,
               Goes, Reports, SetsStatus, Writes, PrepPCs
        <3> QED
            BY <3>1 DEF Open, Undecided, PrepPCs
    <2>3. thread'["prep"] = thread["prep"] => Open(t)
        BY <1>2 DEF Open
    <2> QED
        BY <1>1, <1>2, <2>1, <2>2, <2>3, PrepStays
<1>3. CASE th = "train"
    <2>1. CASE TrainNext(t) /\ ~CleanNext("train", t)
        <3>1. thread["train"].task = t /\ thread["train"].pc \in TrainPCs
              /\ (thread["train"].pc = "setFailed" => thread'["train"].pc = "clean")
            BY <1>0, <2>1 DEF TrainNext, TrainAnnounce, TrainStart, EpochBegins, EpochEnds,
               EpochsOver, ModelSaved, TrainInterrupted, TrainRaises, TrainTimedOut, TrainCancelled,
               TrainReportError, TrainSetError, TrainedCancelled, TrainedInTime, TrainMarkDone,
               TrainReportDone, Goes, Reports, SetsStatus, Writes, TrainPCs
        <3> QED
            BY <1>3, <3>1 DEF Open, Undecided, PrepPCs, TrainPCs
    <2>2. thread'["train"] = thread["train"] => Open(t)
        BY <1>3 DEF Open
    <2> QED
        BY <1>1, <1>3, <2>1, <2>2, TrainStays DEF Open
<1> QED
    BY <1>2, <1>3

LEMMA ReadyFrom ==
    ASSUME TypeOK, PlacesSound, [Next]_vars, NEW t \in Tasks, t \in Ready'
    PROVE  t \in Ready \/ BuildLoaders(t)
<1>1. ready \in Seq(Tasks) /\ Distinct(ready)
    BY DEF TypeOK, PlacesSound
<1>2. ASSUME NEW u \in Tasks, BuildLoaders(u)
      PROVE  t \in Ready \/ t = u
    BY <1>1, <1>2, AppendAdds DEF BuildLoaders, Ready
<1>3. CASE TrainTake
    BY <1>1, <1>3, TailDrops DEF TrainTake, Ready
<1>4. CASE UNCHANGED ready
    BY <1>4 DEF Ready
<1> QED
    BY <1>2, <1>3, <1>4, StepKinds DEF Steps, Rests, SubmitEnqueue, PrepTake, CleanFile, manager

LEMMA EarlyFrom ==
    ASSUME TypeOK, [Next]_vars, NEW t \in Tasks, Early(t)'
    PROVE  Early(t)
<1>1. ASSUME NEW u \in Tasks, SubmitEnqueue(u)
      PROVE  Early(t)
    BY <1>1 DEF SubmitEnqueue, Early, TypeOK
<1> QED
    BY <1>1, StepKinds DEF Steps, Rests, PrepTake, BuildLoaders, TrainTake, CleanFile, clients, Early

LEMMA OpenFrom ==
    ASSUME TypeOK, QueueSound, PlacesSound, [Next]_vars, NEW t \in Tasks, Open(t)'
    PROVE  Open(t)
<1>1. CASE Early(t)'
    BY <1>1, EarlyFrom DEF Open
<1>2. CASE t \in Queued'
    BY <1>2, QueuedFrom DEF SubmitEnqueue, Early, Open
<1>3. CASE t \in Ready'
    <2>1. BuildLoaders(t) => thread["prep"].task = t /\ thread["prep"].pc = "build"
        BY DEF BuildLoaders
    <2>2. "build" \in Undecided
        BY DEF Undecided, PrepPCs
    <2> QED
        BY <1>3, <2>1, <2>2, ReadyFrom DEF Open
<1>4. CASE \E th \in {"prep", "train"} : thread'[th].task = t /\ thread'[th].pc \in Undecided
    BY <1>4, UndecidedFrom
<1> QED
    BY <1>1, <1>2, <1>3, <1>4 DEF Open

-----------------------------------------------------------------------------
(* A call aborts a task by its report, and only once.                        *)
LEMMA AborterSteps ==
    ASSUME TypeOK, CallSound, [Next]_vars, NEW t \in Tasks, NEW c \in ErrorCalls,
           ~ErrorReport(c)
    PROVE  c \in Aborters(t)' <=> c \in Aborters(t)
<1>1. c \in Calls /\ c \notin SendCalls \cup FinishCalls \cup CancelCalls /\ NoTask \notin Tasks
    BY ConstantsAssumption DEF Calls
<1>2. ASSUME NEW from, NEW to, Answers(c, from, to)
      PROVE  call[c].pc = from /\ call'[c].pc = to /\ call'[c].task = call[c].task
    BY <1>1, <1>2 DEF Answers, TypeOK, CallStates
<1>3. CASE GetTask(c)
    <2>1. call[c].pc = "new" /\ call[c].task = NoTask
        BY <1>3 DEF GetTask, CallSound
    <2>2. \/ call'[c].pc = "found"
          \/ call'[c].pc = "rejected" /\ call'[c].task = NoTask
        BY <1>1, <1>3 DEF GetTask, TypeOK, CallStates
    <2> QED
        BY <1>1, <2>1, <2>2 DEF Aborters
<1>4. CASE ErrorReadStatus(c)
    <2>1. call[c].pc = "reported" /\ call'[c].pc = "read" /\ call'[c].task = call[c].task
        BY <1>1, <1>4 DEF ErrorReadStatus, TypeOK, CallStates
    <2> QED
        BY <2>1 DEF Aborters
<1>5. CASE ErrorSetStatus(c) \/ ErrorAbort(c) \/ ErrorClear(c) \/ ErrorRemove(c)
    <2>1. call[c].pc # "found" /\ call'[c].pc # "found" /\ call'[c].task = call[c].task
        BY <1>2, <1>5 DEF ErrorSetStatus, ErrorAbort, ErrorClear, ErrorRemove
    <2> QED
        BY <2>1 DEF Aborters
<1>6. CASE call'[c] = call[c]
    BY <1>6 DEF Aborters
<1> QED
    BY <1>1, <1>3, <1>4, <1>5, <1>6, CallPath DEF CallNext, ErrorNext

LEMMA AbortersRest ==
    ASSUME TypeOK, CallSound, [Next]_vars, NEW t \in Tasks, \A c \in ErrorCalls : ~ErrorReport(c)
    PROVE  Aborters(t)' = Aborters(t)
<1>1. \A c \in ErrorCalls : c \in Aborters(t)' <=> c \in Aborters(t)
    BY AborterSteps
<1>2. Aborters(t) \subseteq ErrorCalls /\ Aborters(t)' \subseteq ErrorCalls
    BY DEF Aborters
<1> QED
    BY <1>1, <1>2

LEMMA AborterAdds ==
    ASSUME TypeOK, NEW c \in ErrorCalls, ErrorReport(c), NEW t \in Tasks
    PROVE  IF call[c].task = t THEN c \notin Aborters(t) /\ Aborters(t)' = Aborters(t) \cup {c}
                               ELSE Aborters(t)' = Aborters(t)
<1>1. c \in Calls /\ call[c].pc = "found" /\ call' = [call EXCEPT ![c].pc = "reported"]
    BY DEF ErrorReport, Answers, Calls
<1>2. call'[c].pc = "reported" /\ call'[c].task = call[c].task
    BY <1>1 DEF TypeOK, CallStates
<1>3. \A d \in ErrorCalls : d # c => call'[d] = call[d]
    BY <1>1 DEF TypeOK, Calls
<1>4. \A d \in ErrorCalls : d \in Aborters(t)' <=> d \in Aborters(t) \/ (d = c /\ call[c].task = t)
    BY <1>1, <1>2, <1>3 DEF Aborters
<1>5. Aborters(t) \subseteq ErrorCalls /\ Aborters(t)' \subseteq ErrorCalls /\ c \notin Aborters(t)
    BY <1>1 DEF Aborters
<1> QED
    BY <1>4, <1>5

-----------------------------------------------------------------------------
(* It is kept by whatever adds no verdict, and by whoever adds one and its   *)
(* reason.                                                                   *)
LEMMA AccountArithmetic ==
    ASSUME TypeOK, NEW t \in Tasks, Account(t), Aborters(t)' = Aborters(t),
           Open(t)' => Open(t), TimedOut(t) => TimedOut(t)',
           HowOften(t, "FAILED")' \in Nat, Verdicts(t)' \in Nat,
           HowOften(t, "FAILED")' >= HowOften(t, "FAILED"),
           \/ Verdicts(t)' = Verdicts(t)
           \/ /\ Verdicts(t)' = Verdicts(t) + 1
              /\ (Open(t) /\ ~Open(t)') \/ (~TimedOut(t) /\ TimedOut(t)')
    PROVE  Account(t)'
<1>1. Cardinality(Aborters(t)) \in Nat
    BY FS_CardinalityType DEF Account
<1>2. HowOften(t, "FAILED") \in Nat /\ Verdicts(t) \in Nat
    BY CountsTyped DEF Verdicts
<1> QED
    BY <1>1, <1>2 DEF Account

LEMMA VerdictsCounted ==
    ASSUME TypeOK, NEW u \in Tasks, NEW s \in Statuses, Report(u, s), NEW t \in Tasks
    PROVE  /\ Verdicts(t)' = Verdicts(t) + (IF t = u /\ s \in Terminal THEN 1 ELSE 0)
           /\ HowOften(t, "FAILED")' = HowOften(t, "FAILED") + (IF t = u /\ s = "FAILED" THEN 1 ELSE 0)
           /\ Verdicts(t)' \in Nat /\ HowOften(t, "FAILED")' \in Nat
<1>1. \A x \in Terminal : HowOften(t, x)' = HowOften(t, x) + (IF t = u /\ s = x THEN 1 ELSE 0)
    <2>1. Terminal \subseteq Statuses
        BY DEF Statuses, Terminal
    <2> QED
        BY <2>1, ReportCounts
<1>2. \A x \in Terminal : HowOften(t, x) \in Nat
    BY CountsTyped
<1> QED
    BY <1>1, <1>2 DEF Verdicts, Terminal

LEMMA VerdictStep ==
    ASSUME TypeOK, QueueSound, PlacesSound, CallSound, [Next]_vars, NEW t \in Tasks, Account(t)
    PROVE  Account(t)'
<1>1. Open(t)' => Open(t)
    BY OpenFrom
<1>2. TimedOut(t) => TimedOut(t)'
    <2>1. thread["prep"] = [pc |-> "announced", task |-> t] => task[t].timer = "off"
        BY DEF QueueSound
    <2> QED
        BY <2>1, StepKept DEF ObjectKept, TimedOut, Past
<1>3. HowOften(t, "FAILED") \in Nat /\ Verdicts(t) \in Nat
    BY CountsTyped DEF Verdicts
<1>4. CASE UNCHANGED sent /\ \A c \in ErrorCalls : ~ErrorReport(c)
    <2>1. HowOften(t, "FAILED")' = HowOften(t, "FAILED") /\ Verdicts(t)' = Verdicts(t)
        BY <1>4 DEF HowOften, Verdicts
    <2> QED
        BY <1>1, <1>2, <1>3, <1>4, <2>1, AbortersRest, AccountArithmetic
<1>5. ASSUME NEW u \in Tasks, NEW s \in Statuses, Report(u, s), UNCHANGED <<task, call>>,
             s \in Terminal => Open(u) /\ ~Open(u)'
      PROVE  Account(t)'
    <2>1. Aborters(t)' = Aborters(t)
        BY <1>5 DEF Aborters
    <2>2. /\ Verdicts(t)' = Verdicts(t) + (IF t = u /\ s \in Terminal THEN 1 ELSE 0)
          /\ HowOften(t, "FAILED")' = HowOften(t, "FAILED") + (IF t = u /\ s = "FAILED" THEN 1 ELSE 0)
          /\ Verdicts(t)' \in Nat /\ HowOften(t, "FAILED")' \in Nat
        BY <1>5, VerdictsCounted
    <2>3. CASE t = u /\ s \in Terminal
        BY <1>1, <1>2, <1>3, <1>5, <2>1, <2>2, <2>3, AccountArithmetic
    <2>4. CASE ~(t = u /\ s \in Terminal)
        BY <1>1, <1>2, <1>3, <2>1, <2>2, <2>4, AccountArithmetic
    <2> QED
        BY <2>3, <2>4
<1>6. ASSUME NEW u \in Tasks, TimerReports(u)
      PROVE  Account(t)'
    <2>1. Report(u, "CANCELLED") /\ UNCHANGED call
        BY <1>6 DEF TimerReports, TimerStep, clients
    <2>2. Aborters(t)' = Aborters(t)
        BY <2>1 DEF Aborters
    <2>3. t = u => ~TimedOut(t) /\ TimedOut(t)'
        BY <1>6 DEF TimerReports, TimerStep, TimedOut, Past, TypeOK, TaskObjects
    <2>4. "CANCELLED" \in Statuses /\ "CANCELLED" \in Terminal /\ "CANCELLED" # "FAILED"
        BY DEF Statuses, Terminal
    <2> QED
        BY <1>1, <1>2, <1>3, <2>1, <2>2, <2>3, <2>4, VerdictsCounted, AccountArithmetic
<1>7. ASSUME NEW c \in ErrorCalls, ErrorReport(c)
      PROVE  Account(t)'
    <2> DEFINE u == call[c].task
    <2>1. Report(u, "FAILED") /\ UNCHANGED task
        BY <1>7 DEF ErrorReport
    <2>2. "FAILED" \in Statuses /\ "FAILED" \in Terminal
        BY DEF Statuses, Terminal
    <2>3. CASE u = t
        <3>1. c \notin Aborters(t) /\ Aborters(t)' = Aborters(t) \cup {c}
            BY <1>7, <2>3, AborterAdds
        <3>2. /\ IsFiniteSet(Aborters(t)) /\ Cardinality(Aborters(t)) \in Nat
              /\ IsFiniteSet(Aborters(t)')
              /\ Cardinality(Aborters(t)') = Cardinality(Aborters(t)) + 1
            BY <3>1, FS_AddElement, FS_CardinalityType DEF Account
        <3>3. /\ Verdicts(t)' = Verdicts(t) + 1
              /\ HowOften(t, "FAILED")' = HowOften(t, "FAILED") + 1
            BY <2>1, <2>2, <2>3, VerdictsCounted
        <3> QED
            BY <1>1, <1>2, <1>3, <3>2, <3>3 DEF Account
    <2>4. CASE u # t
        <3>1. Aborters(t)' = Aborters(t)
            BY <1>7, <2>4, AborterAdds
        <3>2. UNCHANGED sent[t]
            BY <2>1, <2>4 DEF Report, TypeOK
        <3>3. HowOften(t, "FAILED")' = HowOften(t, "FAILED") /\ Verdicts(t)' = Verdicts(t)
            BY <3>2 DEF HowOften, Verdicts
        <3> QED
            BY <1>1, <1>2, <1>3, <3>1, <3>3, AccountArithmetic
    <2> QED
        BY <2>3, <2>4
<1>8. {"QUEUED", "PREPARING", "RUNNING"} \subseteq Statuses \ Terminal /\ Terminal \subseteq Statuses
    BY DEF Statuses, Terminal
<1> QED
    BY <1>4, <1>5, <1>6, <1>7, <1>8, ReportKinds DEF ReportSteps, Pronounces

LEMMA InitVerdicts == Init => VerdictSound
<1> SUFFICES ASSUME Init, NEW t \in Tasks
             PROVE  Account(t)
    BY DEF VerdictSound
<1>1. Aborters(t) = {}
    BY ConstantsAssumption DEF Init, Aborters, Calls
<1>2. \A x : HowOften(t, x) = 0
    BY FS_EmptySet DEF Init, HowOften
<1> QED
    BY <1>1, <1>2, FS_EmptySet DEF Account, Verdicts

(* The pipeline pronounces at most one verdict on a task; any other comes    *)
(* from its time limit, one CANCELLED, or from ReportError, one FAILED each, *)
(* in whatever order the threads, the timer and the calls report.            *)
THEOREM VerdictsHaveCauses == Spec => []OneVerdictPerCause
<1>1. TypeOK /\ Inv /\ PlacesSound /\ CallSound /\ VerdictSound /\ [Next]_vars => VerdictSound'
    BY VerdictStep DEF Inv, VerdictSound
<1>2. Init => CallSound
    BY DEF Init, NewTask, CallSound, Calls
<1>3. TypeOK /\ CallSound /\ [Next]_vars => CallSound'
    BY CallSoundStep
<1>4. TypeOK /\ VerdictSound => OneVerdictPerCause
    <2> SUFFICES ASSUME TypeOK, VerdictSound, NEW t \in Tasks
                 PROVE  /\ Verdicts(t) <= 1 + (IF TimedOut(t) THEN 1 ELSE 0) + Cardinality(Aborters(t))
                        /\ HowOften(t, "FAILED") >= Cardinality(Aborters(t))
        BY DEF OneVerdictPerCause, Verdicts, TimedOut, Past, Aborters
    <2>1. Cardinality(Aborters(t)) \in Nat /\ Verdicts(t) \in Nat
        BY FS_CardinalityType, CountsTyped DEF VerdictSound, Account, Verdicts
    <2> QED
        BY <2>1 DEF VerdictSound, Account
<1> QED
    BY <1>1, <1>2, <1>3, <1>4, InitVerdicts, PlacesKept, PTL DEF Spec

-----------------------------------------------------------------------------
(* Tables, calls and the running task agree on ids: an entry and a call name *)
(* a task of their id that has been submitted, and the running task is with  *)
(* the train thread until its entries are swept.                             *)
IdCalls == SendCalls \cup FinishCalls \cup ErrorCalls
Known(t, id) == IdOf[t] = id /\ submit[t] # "new"
StillKnown(t, id) == IdOf[t] = id /\ submit'[t] # "new"
IdsSound ==
    /\ \A i \in Ids : tasks[i] # NoTask => Known(tasks[i], i)
    /\ \A c \in IdCalls :
        /\ call[c].task # NoTask => Known(call[c].task, CallId[c])
        /\ call[c].pc \notin {"new", "rejected"} => call[c].task \in Tasks
    /\ running # NoTask => thread["train"].task = running /\ thread["train"].pc # "sweep"

LEMMA RunningSteps ==
    ASSUME [Next]_vars
    PROVE  \/ UNCHANGED running
           \/ TrainTake
           \/ \E th \in {"prep", "train"}, t \in Tasks : CleanTables(th, t)
<1>1. ASSUME NEW c \in Calls, CallNext(c)
      PROVE  UNCHANGED running
    BY <1>1 DEF CallNext, SendNext, FinishNext, ErrorNext, CancelNext, GetTask, SendCheckStatus,
       SendDecodeError, SendRoute, SendToMemory, SendToFile, FinishSetReady, ErrorReport,
       ErrorReadStatus, ErrorSetStatus, ErrorAbort, ErrorClear, ErrorRemove, CancelCurrent,
       CancelSet, manager
<1>2. ASSUME NEW t \in Tasks, SubmitNext(t) \/ TimerNext(t)
      PROVE  UNCHANGED running
    BY <1>2 DEF SubmitNext, SubmitRegister, SubmitEnqueue, SubmitReport, TimerNext, TimerFires,
       TimerFlags, TimerReports, TimerSetsStatus, TimerStep, manager
<1>3. ASSUME NEW th, NEW t \in Tasks, CleanNext(th, t), ~CleanTables(th, t)
      PROVE  UNCHANGED running
    BY <1>3 DEF CleanNext, SetCancelled, CleanData, CleanFile, SetsStatus, Writes, manager
<1>4. ASSUME NEW t \in Tasks, PrepNext(t), ~CleanTables("prep", t)
      PROVE  UNCHANGED running
    BY <1>3, <1>4 DEF PrepNext, PrepCancelledEarly, PrepAnnounce, PrepStart, WaitDataReady,
       WaitNotReady, WaitGivenUp, WaitDeadline, WaitAgain, WaitOver, PrepGiveUp,
       PrepCancelledWaiting, PrepCancelledReady, PrepProceed, LoadNothing, LoadRead, LoadUnlink,
       LoadExtend, BuildLoaders, BuildFails, PrepCrashStatus, PrepCrashReport, Goes, Reports,
       SetsStatus, Writes, manager
<1>5. ASSUME NEW t \in Tasks, TrainNext(t), ~CleanTables("train", t)
      PROVE  UNCHANGED running
    BY <1>3, <1>5 DEF TrainNext, TrainAnnounce, TrainStart, EpochBegins, EpochEnds, EpochsOver,
       ModelSaved, TrainInterrupted, TrainRaises, TrainTimedOut, TrainCancelled, TrainReportError,
       TrainSetError, TrainedCancelled, TrainedInTime, TrainMarkDone, TrainReportDone, Goes, Reports,
       SetsStatus, Writes, manager
<1> QED
    BY <1>1, <1>2, <1>4, <1>5 DEF Next, CloseStop, CloseCancel, Idle, vars, PrepThread, PrepTake,
       PrepExit, TrainThread, TrainExit, Goes, manager

(* Who touches the spool files.                                              *)
LEMMA SpoolSteps ==
    ASSUME [Next]_vars
    PROVE  \/ UNCHANGED spool
           \/ \E c \in SendCalls : SendToFile(c)
           \/ \E c \in ErrorCalls : ErrorRemove(c)
           \/ \E t \in Tasks : LoadUnlink(t)
           \/ \E th \in {"prep", "train"}, t \in Tasks : CleanFile(th, t)
<1>1. ASSUME NEW c \in Calls, CallNext(c), ~(c \in SendCalls /\ SendToFile(c)),
             ~(c \in ErrorCalls /\ ErrorRemove(c))
      PROVE  UNCHANGED spool
    BY <1>1 DEF CallNext, SendNext, FinishNext, ErrorNext, CancelNext, GetTask, SendCheckStatus,
       SendDecodeError, SendRoute, SendToMemory, FinishSetReady, ErrorReport, ErrorReadStatus,
       ErrorSetStatus, ErrorAbort, ErrorClear, CancelCurrent, CancelSet, files
<1>2. ASSUME NEW t \in Tasks, SubmitNext(t) \/ TimerNext(t)
      PROVE  UNCHANGED spool
    BY <1>2 DEF SubmitNext, SubmitRegister, SubmitEnqueue, SubmitReport, TimerNext, TimerFires,
       TimerFlags, TimerReports, TimerSetsStatus, TimerStep, files
<1>3. ASSUME NEW th, NEW t \in Tasks, CleanNext(th, t), ~CleanFile(th, t)
      PROVE  UNCHANGED spool
    BY <1>3 DEF CleanNext, SetCancelled, CleanData, CleanTables, SetsStatus, Writes, files
<1>4. ASSUME NEW t \in Tasks, PrepNext(t), ~CleanFile("prep", t), ~LoadUnlink(t)
      PROVE  UNCHANGED spool
    BY <1>3, <1>4 DEF PrepNext, PrepCancelledEarly, PrepAnnounce, PrepStart, WaitDataReady,
       WaitNotReady, WaitGivenUp, WaitDeadline, WaitAgain, WaitOver, PrepGiveUp,
       PrepCancelledWaiting, PrepCancelledReady, PrepProceed, LoadNothing, LoadRead,
       LoadExtend, BuildLoaders, BuildFails, PrepCrashStatus, PrepCrashReport, Goes, Reports,
       SetsStatus, Writes, files
<1>5. ASSUME NEW t \in Tasks, TrainNext(t), ~CleanFile("train", t)
      PROVE  UNCHANGED spool
    BY <1>3, <1>5 DEF TrainNext, TrainAnnounce, TrainStart, EpochBegins, EpochEnds, EpochsOver,
       ModelSaved, TrainInterrupted, TrainRaises, TrainTimedOut, TrainCancelled, TrainReportError,
       TrainSetError, TrainedCancelled, TrainedInTime, TrainMarkDone, TrainReportDone, Goes, Reports,
       SetsStatus, Writes, files
<1> QED
    BY <1>1, <1>2, <1>4, <1>5 DEF Next, CloseStop, CloseCancel, Idle, vars, PrepThread, PrepTake,
       PrepExit, TrainThread, TrainTake, TrainExit, Goes, files

(* What _prepare has read from the file is its own.                          *)
LEMMA PendingSteps ==
    ASSUME TypeOK, [Next]_vars
    PROVE  \/ UNCHANGED pending
           \/ \E t \in Tasks : LoadRead(t) \/ LoadUnlink(t) \/ LoadExtend(t)
<1>1. ASSUME NEW c \in Calls, CallNext(c)
      PROVE  UNCHANGED pending
    BY <1>1, CallSteps DEF threads
<1>2. ASSUME NEW t \in Tasks, SubmitNext(t) \/ TimerNext(t)
      PROVE  UNCHANGED pending
    BY <1>2 DEF SubmitNext, SubmitRegister, SubmitEnqueue, SubmitReport, TimerNext, TimerFires,
       TimerFlags, TimerReports, TimerSetsStatus, TimerStep, threads
<1>3. ASSUME NEW th, NEW t \in Tasks, CleanNext(th, t)
      PROVE  UNCHANGED pending
    BY <1>3 DEF CleanNext, SetCancelled, CleanData, CleanTables, CleanFile, SetsStatus, Writes
<1>4. ASSUME NEW t \in Tasks, PrepNext(t), ~LoadRead(t), ~LoadUnlink(t), ~LoadExtend(t)
      PROVE  UNCHANGED pending
    BY <1>3, <1>4 DEF PrepNext, PrepCancelledEarly, PrepAnnounce, PrepStart, WaitDataReady,
       WaitNotReady, WaitGivenUp, WaitDeadline, WaitAgain, WaitOver, PrepGiveUp,
       PrepCancelledWaiting, PrepCancelledReady, PrepProceed, LoadNothing, BuildLoaders, BuildFails,
       PrepCrashStatus, PrepCrashReport, Goes, Reports, SetsStatus, Writes
<1>5. ASSUME NEW t \in Tasks, TrainNext(t)
      PROVE  UNCHANGED pending
    BY <1>3, <1>5 DEF TrainNext, TrainAnnounce, TrainStart, EpochBegins, EpochEnds, EpochsOver,
       ModelSaved, TrainInterrupted, TrainRaises, TrainTimedOut, TrainCancelled, TrainReportError,
       TrainSetError, TrainedCancelled, TrainedInTime, TrainMarkDone, TrainReportDone, Goes, Reports,
       SetsStatus, Writes
<1> QED
    BY <1>1, <1>2, <1>4, <1>5 DEF Next, CloseStop, CloseCancel, Idle, vars, threads, PrepThread,
       PrepTake, PrepExit, TrainThread, TrainTake, TrainExit, Goes

LEMMA TablesSound ==
    ASSUME TypeOK, IdsSound, [Next]_vars, NEW i \in Ids, tasks'[i] # NoTask
    PROVE  StillKnown(tasks'[i], i) /\ tasks'[i] \in Tasks
<1>1. ASSUME tasks'[i] = tasks[i]
      PROVE  StillKnown(tasks'[i], i) /\ tasks'[i] \in Tasks
    <2>1. tasks[i] \in Tasks /\ Known(tasks[i], i)
        BY <1>1 DEF TypeOK, IdsSound
    <2>2. StillKnown(tasks[i], i)
        BY <2>1, SubmitLasts DEF Known, StillKnown
    <2> QED
        BY <1>1, <2>1, <2>2 DEF Known, StillKnown
<1>2. ASSUME NEW u \in Tasks, SubmitNext(u)
      PROVE  \/ tasks'[i] = tasks[i]
             \/ tasks'[i] = u /\ IdOf[u] = i /\ submit'[u] = "registered"
    BY <1>2 DEF SubmitNext, SubmitRegister, SubmitEnqueue, SubmitReport, manager, TypeOK
<1>3. ASSUME NEW th \in {"prep", "train"}, NEW u \in Tasks, CleanTables(th, u)
      PROVE  tasks'[i] = tasks[i]
    BY <1>3 DEF CleanTables, TypeOK
<1> QED
    BY <1>1, <1>2, <1>3, TableSteps DEF Known, StillKnown

LEMMA RunningSound ==
    ASSUME TypeOK, PlacesSound, IdsSound, [Next]_vars, running' # NoTask
    PROVE  thread'["train"].task = running' /\ thread'["train"].pc # "sweep"
<1>1. CASE TrainTake
    BY <1>1 DEF TrainTake, TypeOK
<1>2. ASSUME NEW u \in Tasks, CleanTables("train", u)
      PROVE  FALSE
    <2>1. thread["train"].task = u /\ running' = IF running = u THEN NoTask ELSE running
        BY <1>2 DEF CleanTables, Moves
    <2> QED
        BY <2>1 DEF IdsSound
<1>3. CASE running' = running /\ thread'["train"] = thread["train"]
    BY <1>3 DEF IdsSound
<1>4. ASSUME NEW u \in Tasks, CleanTables("prep", u)
      PROVE  running' = running /\ thread'["train"] = thread["train"]
    <2>1. /\ thread["prep"].task = u /\ running' = IF running = u THEN NoTask ELSE running
          /\ thread'["train"] = thread["train"]
        BY <1>4 DEF CleanTables, Moves, TypeOK
    <2>2. thread["train"].task # u
        BY <2>1 DEF PlacesSound, Waits, Trains
    <2> QED
        BY <2>1, <2>2 DEF IdsSound
<1>5. ASSUME NEW u \in Tasks, TrainNext(u), running' = running
      PROVE  thread'["train"].task = running' /\ thread'["train"].pc # "sweep"
    <2>1. running = thread["train"].task /\ thread["train"].pc # "sweep"
        BY <1>5 DEF IdsSound
    <2>2. ASSUME NEW from, NEW to, Moves("train", u, from, to)
          PROVE  thread["train"].task = u /\ thread'["train"].task = u /\ thread'["train"].pc = to
        BY <2>2 DEF Moves, TypeOK, Places
    <2>3. ~CleanTables("train", u) /\ ~CleanFile("train", u)
        BY <1>2, <2>1 DEF CleanFile
    <2> QED
        BY <1>5, <2>1, <2>2, <2>3 DEF TrainNext, TrainAnnounce, TrainStart, EpochBegins, EpochEnds,
           EpochsOver, ModelSaved, TrainInterrupted, TrainRaises, TrainTimedOut, TrainCancelled,
           TrainReportError, TrainSetError, TrainedCancelled, TrainedInTime, TrainMarkDone,
           TrainReportDone, CleanNext, SetCancelled, CleanData, Goes, Reports, SetsStatus, Writes
<1>6. CASE running' = running /\ thread'["train"] = [pc |-> "exited", task |-> NoTask]
    <2>1. thread["train"] # thread'["train"] => TrainExit \/ TrainTake \/ \E u \in Tasks : TrainNext(u)
        <3>1. CASE UNCHANGED threads
            BY <3>1 DEF threads
        <3>2. CASE \E c \in Calls : CallNext(c)
            BY <3>1, <3>2, CallSteps
        <3>3. ASSUME NEW t \in Tasks, SubmitNext(t) \/ TimerNext(t)
              PROVE  UNCHANGED threads
            BY <3>3 DEF SubmitNext, SubmitRegister, SubmitEnqueue, SubmitReport, TimerNext,
               TimerFires, TimerFlags, TimerReports, TimerSetsStatus, TimerStep
        <3>4. CASE PrepThread
            BY <3>4, PrepKeepsTrain
        <3> QED
            BY <3>1, <3>2, <3>3, <3>4 DEF Next, CloseStop, CloseCancel, Idle, vars, threads, TrainThread
    <2>2. TrainExit => thread["train"].task = NoTask
        BY DEF TrainExit, Goes, Moves, TypeOK
    <2> QED
        BY <1>1, <1>3, <1>5, <1>6, <2>1, <2>2 DEF IdsSound
<1> QED
    BY <1>1, <1>2, <1>3, <1>4, <1>5, <1>6, RunningSteps, TrainPath

LEMMA CallsSound ==
    ASSUME TypeOK, PlacesSound, IdsSound, [Next]_vars, NEW c \in IdCalls
    PROVE  /\ call'[c].task # NoTask => StillKnown(call'[c].task, CallId[c])
           /\ call'[c].pc \notin {"new", "rejected"} => call'[c].task \in Tasks
<1>1. c \in Calls /\ c \notin CancelCalls /\ CallId[c] \in Ids
    BY ConstantsAssumption DEF Calls, IdCalls
<1>2. call[c].task \in Tasks \cup {NoTask} /\ NoTask \notin Tasks
    BY <1>1, ConstantsAssumption DEF TypeOK, CallStates
<1>3. ASSUME call'[c].task = call[c].task, call[c].pc \notin {"new", "rejected"} \/ call'[c].pc = call[c].pc
      PROVE  /\ call'[c].task # NoTask => StillKnown(call'[c].task, CallId[c])
             /\ call'[c].pc \notin {"new", "rejected"} => call'[c].task \in Tasks
    <2>1. call[c].task # NoTask => submit'[call[c].task] # "new" /\ IdOf[call[c].task] = CallId[c]
        BY <1>2, SubmitLasts DEF IdsSound, Known, StillKnown
    <2> QED
        BY <1>3, <2>1 DEF IdsSound, Known, StillKnown
<1>4. CASE GetTask(c)
    <2>1. /\ call'[c].task = tasks[CallId[c]]
          /\ call'[c].pc = IF tasks[CallId[c]] = NoTask THEN "rejected" ELSE "found"
          /\ UNCHANGED <<tasks, submit>>
        BY <1>1, <1>4 DEF GetTask, TypeOK, CallStates, manager
    <2> QED
        BY <1>1, <2>1 DEF IdsSound, Known, StillKnown, TypeOK
<1>5. ASSUME NEW from, NEW to, Answers(c, from, to), from \notin {"new", "rejected"}
      PROVE  call'[c].task = call[c].task /\ call[c].pc \notin {"new", "rejected"}
    BY <1>1, <1>5 DEF Answers, TypeOK, CallStates
<1>6. CASE SendRoute(c)
    <2>1. \/ call'[c].task = call[c].task /\ call[c].pc = "checked"
          \/ call'[c].task = running /\ running # NoTask /\ IdOf[running] = CallId[c]
        BY <1>1, <1>6 DEF SendRoute, TypeOK, CallStates
    <2>2. CASE call'[c].task = running /\ running # NoTask /\ IdOf[running] = CallId[c]
        <3>1. running \in Tasks /\ thread["train"].task = running /\ UNCHANGED submit
            BY <1>6, <2>2 DEF TypeOK, IdsSound, SendRoute
        <3>2. submit[running] # "new"
            BY <3>1 DEF PlacesSound, Trains, Early
        <3> QED
            BY <2>2, <3>1, <3>2 DEF Known, StillKnown
    <2> QED
        BY <1>3, <2>1, <2>2
<1>7. CASE ErrorReadStatus(c)
    <2>1. call'[c].task = call[c].task /\ call[c].pc = "reported"
        BY <1>1, <1>7 DEF ErrorReadStatus, TypeOK, CallStates
    <2> QED
        BY <1>3, <2>1
<1>8. CASE call'[c] = call[c]
    BY <1>3, <1>8
<1>9. CASE \/ SendCheckStatus(c) \/ SendDecodeError(c) \/ SendToMemory(c) \/ SendToFile(c)
           \/ FinishSetReady(c) \/ ErrorReport(c) \/ ErrorSetStatus(c) \/ ErrorAbort(c)
           \/ ErrorClear(c) \/ ErrorRemove(c)
    <2>1. PICK from \in CallPCs \ {"new", "rejected"}, to \in CallPCs : Answers(c, from, to)
        BY <1>9 DEF SendCheckStatus, SendDecodeError, SendToMemory, SendToFile, FinishSetReady,
           ErrorReport, ErrorSetStatus, ErrorAbort, ErrorClear, ErrorRemove, CallPCs
    <2> QED
        BY <1>3, <1>5, <2>1
<1> QED
    BY <1>1, <1>4, <1>6, <1>7, <1>8, <1>9, CallPath DEF CallNext, SendNext, FinishNext, ErrorNext

LEMMA IdsStep ==
    ASSUME TypeOK, PlacesSound, IdsSound, [Next]_vars
    PROVE  IdsSound'
BY TablesSound, RunningSound, CallsSound DEF IdsSound, Known, StillKnown

-----------------------------------------------------------------------------
(* The way of the batches of a task: as long as the prepare thread has not   *)
(* looked into the spool file (the task is coming), they are acknowledged    *)
(* when they are in the file.  A batch goes to memory instead only for a     *)
(* task that runs, which is not coming any more.                             *)
PrepAt(t, places) == thread["prep"].task = t /\ thread["prep"].pc \in places
Loading == {"load", "unlink", "extend", "build"}
Awaiting == {"check", "announced", "wait", "waitFlags", "notReady", "gotData", "load"}
Finished(t) == "FINISHED" \in Reported(t)
Batches(t) == {c \in BatchesFor(t) : call[c].pc = "ok"}
Coming(t) == Early(t) \/ t \in Queued \/ PrepAt(t, Awaiting)

SpoolSound ==
    /\ \A t \in Tasks : Coming(t) =>
        /\ ~Finished(t)
        /\ DataDisturbed(t) \/ Batches(t) \subseteq spool[IdOf[t]]
    /\ \A c \in SendCalls, u \in Tasks :
        call[c].pc = "toMemory" /\ call[c].task = u => ~Coming(u)

LEMMA LoadingFrom ==
    ASSUME TypeOK, PlacesSound, [Next]_vars, NEW t \in Tasks, PrepAt(t, Loading)'
    PROVE  PrepAt(t, Loading) \/ PrepProceed(t)
<1>0. thread'["prep"].task = t /\ thread'["prep"].pc \in Loading
    BY DEF PrepAt
<1>1. CASE PrepNext(t) /\ thread["prep"].task = t
    <2>1. ASSUME NEW from, NEW to, Moves("prep", t, from, to)
          PROVE  thread["prep"].pc = from /\ thread'["prep"].pc = to
        BY <2>1 DEF Moves, TypeOK, Places
    <2>2. CASE CleanNext("prep", t) \/ BuildLoaders(t)
        BY <1>0, <2>1, <2>2, ConstantsAssumption DEF CleanNext, SetCancelled, CleanData, CleanTables,
           CleanFile, BuildLoaders, SetsStatus, Writes, Loading, TypeOK
    <2>3. CASE ~CleanNext("prep", t) /\ ~BuildLoaders(t)
        BY <1>0, <1>1, <2>1, <2>3 DEF PrepNext, PrepCancelledEarly, PrepAnnounce, PrepStart,
           WaitDataReady, WaitNotReady, WaitGivenUp, WaitDeadline, WaitAgain, WaitOver, PrepGiveUp,
           PrepCancelledWaiting, PrepCancelledReady, PrepProceed, LoadNothing, LoadRead, LoadUnlink,
           LoadExtend, BuildFails, PrepCrashStatus, PrepCrashReport, Goes, Reports, SetsStatus,
           Writes, Loading, PrepAt
    <2> QED
        BY <2>2, <2>3
<1> QED
    BY <1>0, <1>1, PrepStays DEF PrepAt, Loading

LEMMA FinishedFrom ==
    ASSUME TypeOK, QueueSound, PlacesSound, [Next]_vars, NEW t \in Tasks, Finished(t)'
    PROVE  Finished(t) \/ Trains(t)
<1>1. ASSUME NEW u \in Tasks, NEW s, Report(u, s), s = "FINISHED" => Trains(u)
      PROVE  Finished(t) \/ Trains(t)
    BY <1>1, ReportAdds DEF Finished
<1>2. CASE UNCHANGED sent
    BY <1>2 DEF Finished, Reported
<1>3. ASSUME NEW c \in ErrorCalls, ErrorReport(c)
      PROVE  Finished(t) \/ Trains(t)
    <2>1. Report(call[c].task, "FAILED")
        BY <1>3 DEF ErrorReport
    <2> QED
        BY <2>1, ReportAdds DEF Finished
<1>4. ASSUME NEW u \in Tasks, TimerReports(u)
      PROVE  Finished(t) \/ Trains(t)
    BY <1>1, <1>4 DEF TimerReports
<1> QED
    BY <1>1, <1>2, <1>3, <1>4, ReportKinds DEF ReportSteps, Pronounces

LEMMA DisturbedLasts ==
    ASSUME TypeOK, CallSound, [Next]_vars, NEW t \in Tasks, DataDisturbed(t)
    PROVE  DataDisturbed(t)'
<1>1. ASSUME NEW c \in ErrorCalls, call[c].task = t
      PROVE  call'[c].task = t
    <2>1. call[c].pc # "new"
        BY <1>1, ConstantsAssumption DEF CallSound
    <2> QED
        BY <1>1, <2>1, ErrorCallsLast
<1> QED
    BY <1>1, SubmitLasts DEF DataDisturbed

LEMMA ComingFrom ==
    ASSUME TypeOK, QueueSound, PlacesSound, [Next]_vars, NEW t \in Tasks, Coming(t)'
    PROVE  Coming(t)
<1>1. CASE Early(t)'
    BY <1>1, EarlyFrom DEF Coming
<1>2. CASE t \in Queued'
    BY <1>2, QueuedFrom DEF SubmitEnqueue, Early, Coming
<1>3. CASE thread'["prep"].task = t /\ thread'["prep"].pc \in Awaiting
    <2>1. CASE PrepTake
        <3>1. queue \in Seq(Tasks) /\ Distinct(queue) /\ Queued = Elements(queue)
            BY DEF TypeOK, QueueSound, Queued, Distinct, Elements
        <3>2. queue # <<>> /\ t = Head(queue)
            BY <1>3, <2>1 DEF PrepTake, TypeOK
        <3> QED
            BY <3>1, <3>2, TailDrops DEF Coming
    <2>2. CASE PrepNext(t) /\ thread["prep"].task = t
        <3>1. ASSUME NEW from, NEW to, Moves("prep", t, from, to)
              PROVE  thread["prep"].pc = from /\ thread'["prep"].pc = to
            BY <3>1 DEF Moves, TypeOK, Places
        <3>2. CASE CleanNext("prep", t) \/ BuildLoaders(t)
            BY <1>3, <3>1, <3>2, ConstantsAssumption DEF CleanNext, SetCancelled, CleanData,
               CleanTables, CleanFile, BuildLoaders, SetsStatus, Writes, Awaiting, TypeOK
        <3>3. CASE ~CleanNext("prep", t) /\ ~BuildLoaders(t)
            BY <1>3, <2>2, <3>1, <3>3 DEF PrepNext, PrepCancelledEarly, PrepAnnounce, PrepStart,
               WaitDataReady, WaitNotReady, WaitGivenUp, WaitDeadline, WaitAgain, WaitOver,
               PrepGiveUp, PrepCancelledWaiting, PrepCancelledReady, PrepProceed, LoadNothing,
               LoadRead, LoadUnlink, LoadExtend, BuildFails, PrepCrashStatus, PrepCrashReport,
               Goes, Reports, SetsStatus, Writes, Awaiting, Coming, PrepAt
        <3> QED
            BY <3>2, <3>3
    <2> QED
        BY <1>3, <2>1, <2>2, PrepStays DEF Coming, PrepAt
<1> QED
    BY <1>1, <1>2, <1>3 DEF Coming, PrepAt

(* Nobody empties the spool file of a task that is still coming.             *)
LEMMA SpoolKept ==
    ASSUME TypeOK, QueueSound, PlacesSound, IdsSound, [Next]_vars, NEW t \in Tasks, Coming(t),
           ~DataDisturbed(t)
    PROVE  spool[IdOf[t]] \subseteq spool'[IdOf[t]]
<1>1. IdOf[t] \in Ids
    BY ConstantsAssumption
<1>2. ASSUME NEW c \in ErrorCalls, ErrorRemove(c)
      PROVE  CallId[c] # IdOf[t]
    <2>1. c \in IdCalls /\ call[c].pc = "cleared"
        BY <1>2 DEF IdCalls, ErrorRemove, Answers
    <2>2. call[c].task \in Tasks /\ Known(call[c].task, CallId[c])
        BY <2>1, ConstantsAssumption DEF IdsSound
    <2> QED
        BY <2>2 DEF Known, DataDisturbed
<1>3. ASSUME NEW th \in {"prep", "train"}, NEW u \in Tasks, NEW pc \in {"unlink", "sweep"},
             thread[th] = [pc |-> pc, task |-> u], IdOf[u] = IdOf[t]
      PROVE  th = "train" /\ pc = "unlink"
    <2>1. CASE th = "prep" /\ u = t
        BY <1>3, <2>1 DEF Coming, PlacesSound, QueueSound, Waits, PrepAt, Awaiting
    <2>2. CASE th = "train" /\ u = t
        BY <1>3, <2>2 DEF Coming, PlacesSound, Trains, Waits, PrepAt
    <2>3. u = t \/ submit[u] = "new"
        BY <1>3 DEF DataDisturbed
    <2>4. submit[u] # "new"
        BY <1>3 DEF PlacesSound, Waits, Trains, Early
    <2> QED
        BY <2>1, <2>2, <2>3, <2>4
<1>4. ASSUME NEW u \in Tasks, LoadUnlink(u)
      PROVE  IdOf[u] # IdOf[t]
    BY <1>3, <1>4 DEF LoadUnlink, Moves
<1>5. ASSUME NEW th \in {"prep", "train"}, NEW u \in Tasks, CleanFile(th, u)
      PROVE  IdOf[u] # IdOf[t]
    BY <1>3, <1>5 DEF CleanFile
<1>6. ASSUME NEW id, id # IdOf[t], spool' = [spool EXCEPT ![id] = {}]
      PROVE  spool'[IdOf[t]] = spool[IdOf[t]]
    BY <1>1, <1>6 DEF TypeOK
<1>7. ASSUME NEW c \in SendCalls, SendToFile(c)
      PROVE  spool[IdOf[t]] \subseteq spool'[IdOf[t]]
    BY <1>1, <1>7 DEF SendToFile, TypeOK
<1> QED
    BY <1>2, <1>4, <1>5, <1>6, <1>7, SpoolSteps DEF ErrorRemove, LoadUnlink, CleanFile

(* The running task is with the train thread.                                *)
LEMMA RunningTrains ==
    ASSUME TypeOK, PlacesSound, IdsSound, running # NoTask
    PROVE  running \in Tasks /\ ~Coming(running)
<1>1. running \in Tasks /\ thread["train"].task = running
    BY DEF IdsSound, TypeOK
<1> QED
    BY <1>1 DEF PlacesSound, Trains, Waits, Coming, PrepAt

LEMMA MemoryFrom ==
    ASSUME TypeOK, [Next]_vars, NEW c \in SendCalls, call'[c].pc = "toMemory"
    PROVE  \/ call'[c] = call[c]
           \/ /\ call'[c].task = running /\ running # NoTask
              /\ IdOf[running] = CallId[c]
<1>1. c \in Calls /\ c \notin FinishCalls \cup ErrorCalls \cup CancelCalls
    BY ConstantsAssumption DEF Calls
<1>2. SendRoute(c) => /\ call'[c].task = running /\ running # NoTask
                      /\ IdOf[running] = CallId[c]
    BY <1>1 DEF SendRoute, TypeOK, CallStates
<1>3. ASSUME NEW from, NEW to, Answers(c, from, to), to # "toMemory"
      PROVE  FALSE
    BY <1>1, <1>3 DEF Answers, TypeOK, CallStates
<1>4. ~SendCheckStatus(c) /\ ~SendDecodeError(c) /\ ~SendToMemory(c) /\ ~SendToFile(c)
    BY <1>3 DEF SendCheckStatus, SendDecodeError, SendToMemory, SendToFile
<1>5. ~GetTask(c)
    BY <1>1 DEF GetTask, TypeOK, CallStates
<1> QED
    BY <1>1, <1>2, <1>4, <1>5, CallPath DEF CallNext, SendNext

(* A batch of a coming task is acknowledged when it is in the spool file.    *)
LEMMA BatchAdded ==
    ASSUME TypeOK, IdsSound, SpoolSound, [Next]_vars, NEW t \in Tasks, Coming(t),
           ~DataDisturbed(t), NEW c \in Batches(t)'
    PROVE  /\ c \in SendCalls /\ CallId[c] = IdOf[t]
           /\ c \in Batches(t) \/ SendToFile(c)
<1>1. c \in SendCalls /\ CallId[c] = IdOf[t] /\ call'[c].pc = "ok" /\ c \in BatchesFor(t)
    BY DEF Batches, BatchesFor
<1>2. c \in Calls /\ c \in IdCalls /\ c \notin FinishCalls \cup ErrorCalls \cup CancelCalls
    BY <1>1, ConstantsAssumption DEF Calls, IdCalls
<1>3. ASSUME NEW from, NEW to, Answers(c, from, to), to # "ok"
      PROVE  FALSE
    BY <1>1, <1>2, <1>3 DEF Answers, TypeOK, CallStates
<1>4. ~SendCheckStatus(c) /\ ~SendDecodeError(c)
    BY <1>3 DEF SendCheckStatus, SendDecodeError
<1>5. ~SendToMemory(c)
    <2> SUFFICES ASSUME call[c].pc = "toMemory"
                 PROVE  FALSE
        BY DEF SendToMemory, Answers
    <2>1. call[c].task \in Tasks /\ Known(call[c].task, CallId[c])
        BY <1>2, ConstantsAssumption DEF IdsSound
    <2>2. call[c].task # t
        BY <1>1 DEF SpoolSound
    <2> QED
        BY <1>1, <2>1, <2>2 DEF Known, DataDisturbed
<1>6. ~GetTask(c)
    BY <1>1, <1>2 DEF GetTask, TypeOK, CallStates
<1>7. ~SendRoute(c)
    <2>1. SendRoute(c) => call'[c].pc \in {"rejected", "toMemory", "toFile"}
        BY <1>2 DEF SendRoute, TypeOK, CallStates
    <2> QED
        BY <1>1, <2>1
<1> QED
    BY <1>1, <1>2, <1>4, <1>5, <1>6, <1>7, CallPath DEF CallNext, SendNext, Batches

LEMMA SpoolStep ==
    ASSUME TypeOK, QueueSound, PlacesSound, CallSound, IdsSound, SpoolSound, [Next]_vars
    PROVE  SpoolSound'
<1>1. ASSUME NEW t \in Tasks, Coming(t)'
      PROVE  ~Finished(t)'
    <2>1. Coming(t)
        BY <1>1, ComingFrom
    <2>2. ~Finished(t) /\ ~Trains(t)
        BY <2>1 DEF SpoolSound, PlacesSound, Coming, PrepAt, Waits
    <2> QED
        BY <2>2, FinishedFrom
<1>2. ASSUME NEW t \in Tasks, Coming(t)', ~DataDisturbed(t)', NEW c \in Batches(t)'
      PROVE  c \in spool'[IdOf[t]]
    <2>1. Coming(t) /\ ~DataDisturbed(t)
        BY <1>2, ComingFrom, DisturbedLasts
    <2>2. c \in SendCalls /\ CallId[c] = IdOf[t] /\ (c \in Batches(t) \/ SendToFile(c))
        BY <1>2, <2>1, BatchAdded
    <2>3. CASE c \in Batches(t)
        BY <2>1, <2>3, SpoolKept DEF SpoolSound
    <2>4. CASE SendToFile(c)
        BY <2>2, <2>4, ConstantsAssumption DEF SendToFile, TypeOK
    <2> QED
        BY <2>2, <2>3, <2>4
<1>3. ASSUME NEW c \in SendCalls, call'[c].pc = "toMemory", NEW u \in Tasks, call'[c].task = u
      PROVE  ~Coming(u)'
    <2>1. CASE call'[c] = call[c]
        BY <1>3, <2>1, ComingFrom DEF SpoolSound
    <2>2. CASE u = running /\ running # NoTask
        BY <2>2, RunningTrains, ComingFrom
    <2> QED
        BY <1>3, <2>1, <2>2, MemoryFrom
<1> QED
    BY <1>1, <1>2, <1>3 DEF SpoolSound

LEMMA InitSpool == Init => IdsSound /\ SpoolSound /\ CallSound
<1> SUFFICES ASSUME Init
             PROVE  IdsSound /\ SpoolSound /\ CallSound
    OBVIOUS
<1>1. \A c \in Calls : call[c].pc = "new" /\ call[c].task = NoTask
    BY DEF Init
<1>2. IdCalls \subseteq Calls /\ SendCalls \subseteq Calls /\ ErrorCalls \subseteq Calls
    BY DEF IdCalls, Calls
<1>3. \A t \in Tasks : ~Finished(t) /\ Batches(t) = {}
    BY <1>1, <1>2 DEF Init, Finished, Reported, Range, Batches, BatchesFor
<1>4. IdsSound
    BY <1>1, <1>2 DEF Init, IdsSound
<1>5. SpoolSound
    BY <1>1, <1>2, <1>3 DEF SpoolSound
<1>6. CallSound
    BY <1>1, <1>2 DEF Init, NewTask, CallSound
<1> QED
    BY <1>4, <1>5, <1>6

SpoolInv == CallSound /\ IdsSound /\ SpoolSound

LEMMA SpoolInvKept == Spec => [](TypeOK /\ QueueSound /\ PlacesSound /\ SpoolInv)
<1>1. Init => SpoolInv
    BY InitSpool DEF SpoolInv
<1>2. TypeOK /\ Inv /\ PlacesSound /\ SpoolInv /\ [Next]_vars => SpoolInv'
    BY CallSoundStep, IdsStep, SpoolStep DEF Inv, SpoolInv
<1>3. Inv => QueueSound
    BY DEF Inv
<1> QED
    BY <1>1, <1>2, <1>3, PlacesKept, PTL DEF Spec

(* Where one acknowledged batch of t is: in the spool file until the prepare *)
(* thread has read it, then with that thread, then in the buffer of t, and   *)
(* at last in its loaders.                                                   *)
Carried(t, c) ==
    /\ Coming(t) => c \in spool[IdOf[t]]
    /\ PrepAt(t, {"unlink", "extend"}) => c \in pending
    /\ PrepAt(t, {"build"}) => c \in task[t].buffer
    /\ Trains(t) \/ Finished(t) => c \in loaded[t]
Safe(t, c) == DataDisturbed(t) \/ Carried(t, c)

LEMMA LoadingKept ==
    ASSUME TypeOK, QueueSound, PlacesSound, [Next]_vars, NEW t \in Tasks, NEW c, Carried(t, c),
           ~DataDisturbed(t)
    PROVE  /\ PrepAt(t, {"unlink", "extend"})' => c \in pending'
           /\ PrepAt(t, {"build"})' => c \in task'[t].buffer
<1>1. ASSUME PrepAt(t, {"unlink", "extend"}), thread'["prep"] = thread["prep"]
      PROVE  c \in pending'
    <2>1. ~\E u \in Tasks : LoadRead(u) \/ LoadUnlink(u) \/ LoadExtend(u)
        BY <1>1 DEF LoadRead, LoadUnlink, LoadExtend, Moves, TypeOK, Places
    <2> QED
        BY <1>1, <2>1, PendingSteps DEF Carried
<1>2. ASSUME PrepAt(t, {"build"}), thread'["prep"] = thread["prep"]
      PROVE  c \in task'[t].buffer
    <2>1. ~Aborting(t)
        BY DEF Aborting, DataDisturbed
    <2>2. ~Cleaning(t)
        BY <1>2 DEF Cleaning, PrepAt, PlacesSound, Waits, Trains
    <2> QED
        BY <1>2, <2>1, <2>2, StepKept DEF ObjectKept, Carried
<1>3. ASSUME PrepNext(t), thread["prep"].task = t
      PROVE  /\ PrepAt(t, {"unlink", "extend"})' => c \in pending'
             /\ PrepAt(t, {"build"})' => c \in task'[t].buffer
    <2>1. ASSUME NEW from, NEW to, Moves("prep", t, from, to)
          PROVE  thread["prep"].pc = from /\ thread'["prep"].pc = to
        BY <2>1 DEF Moves, TypeOK, Places
    <2>2. CASE LoadRead(t)
        BY <1>3, <2>1, <2>2 DEF LoadRead, Carried, Coming, Awaiting, PrepAt
    <2>3. CASE LoadUnlink(t)
        BY <1>3, <2>1, <2>3 DEF LoadUnlink, Carried, PrepAt
    <2>4. CASE LoadNothing(t)
        BY <1>3, <2>1, <2>4 DEF LoadNothing, Goes, Carried, Coming, Awaiting, PrepAt
    <2>5. CASE LoadExtend(t)
        <3>1. c \in pending /\ thread'["prep"].pc = "build"
            BY <1>3, <2>1, <2>5 DEF LoadExtend, Carried, PrepAt
        <3>2. task'[t].buffer = task[t].buffer \cup pending
            BY <2>5 DEF LoadExtend, TypeOK, TaskObjects
        <3> QED
            BY <3>1, <3>2 DEF PrepAt
    <2>6. CASE CleanNext("prep", t) \/ BuildLoaders(t)
        BY <2>1, <2>6, ConstantsAssumption DEF CleanNext, SetCancelled, CleanData, CleanTables,
           CleanFile, BuildLoaders, SetsStatus, Writes, PrepAt, TypeOK
    <2>7. CASE ~(LoadRead(t) \/ LoadUnlink(t) \/ LoadNothing(t) \/ LoadExtend(t)
                 \/ CleanNext("prep", t) \/ BuildLoaders(t))
        <3>1. thread'["prep"].pc \notin {"unlink", "extend", "build"}
            BY <1>3, <2>1, <2>7 DEF PrepNext, PrepCancelledEarly, PrepAnnounce, PrepStart,
               WaitDataReady, WaitNotReady, WaitGivenUp, WaitDeadline, WaitAgain, WaitOver,
               PrepGiveUp, PrepCancelledWaiting, PrepCancelledReady, PrepProceed, BuildFails,
               PrepCrashStatus, PrepCrashReport, Goes, Reports, SetsStatus, Writes
        <3> QED
            BY <3>1 DEF PrepAt
    <2> QED
        BY <2>2, <2>3, <2>4, <2>5, <2>6, <2>7
<1> QED
    BY <1>1, <1>2, <1>3, PrepStays DEF PrepAt

(* The loaders keep the batches they were built from.                        *)
LEMMA LoadersKept ==
    ASSUME TypeOK, QueueSound, PlacesSound, [Next]_vars, NEW t \in Tasks, NEW c, Carried(t, c),
           Trains(t)' \/ Finished(t)'
    PROVE  c \in loaded'[t]
<1>1. CASE BuildLoaders(t)
    BY <1>1 DEF BuildLoaders, Carried, PrepAt, TypeOK
<1>2. CASE ~BuildLoaders(t)
    <2>1. Trains(t) \/ Finished(t)
        BY <1>2, TrainsFrom, FinishedFrom
    <2>2. loaded'[t] = loaded[t]
        BY <1>2, LoadedSteps DEF BuildLoaders, TypeOK
    <2> QED
        BY <2>1, <2>2 DEF Carried
<1> QED
    BY <1>1, <1>2

LEMMA CarriedStep ==
    ASSUME TypeOK, QueueSound, PlacesSound, CallSound, IdsSound, [Next]_vars,
           NEW t \in Tasks, NEW c \in SendCalls, Safe(t, c)
    PROVE  Safe(t, c)'
<1> SUFFICES ASSUME ~DataDisturbed(t)'
             PROVE  Carried(t, c)'
    BY DEF Safe
<1>1. ~DataDisturbed(t) /\ Carried(t, c)
    BY DisturbedLasts DEF Safe
<1>2. Coming(t)' => c \in spool'[IdOf[t]]
    BY <1>1, ComingFrom, SpoolKept DEF Carried
<1> QED
    BY <1>1, <1>2, LoadingKept, LoadersKept DEF Carried

(* A task that is reported FINISHED has been trained on every batch that was *)
(* acknowledged while it was collecting, however the sends, the Finish, the  *)
(* deadlines, the threads and the clean-up of other tasks interleave, unless *)
(* its data were disturbed.                                                  *)
THEOREM AcknowledgedDataIsTrained == Spec => AcknowledgedDataTrained
<1> SUFFICES ASSUME NEW t \in Tasks, NEW c \in BatchesFor(t)
             PROVE  Spec => [](call[c].pc = "ok" /\ Collecting(t) =>
                                 [](Finished(t) => DataDisturbed(t) \/ c \in loaded[t]))
    BY DEF AcknowledgedDataTrained, Finished
<1>0. c \in SendCalls
    BY DEF BatchesFor
<1>1. TypeOK /\ QueueSound /\ PlacesSound /\ SpoolInv /\ call[c].pc = "ok" /\ Collecting(t)
        => Safe(t, c)
    <2> SUFFICES ASSUME TypeOK, QueueSound, PlacesSound, SpoolInv, call[c].pc = "ok",
                        Collecting(t), ~DataDisturbed(t)
                 PROVE  Carried(t, c)
        BY DEF Safe
    <2>1. Coming(t)
        BY DEF Collecting, Coming, Early, Range, Queued, PrepAt, Awaiting
    <2>2. c \in spool[IdOf[t]] /\ ~Finished(t)
        BY <2>1 DEF SpoolInv, SpoolSound, Batches
    <2>3. ~PrepAt(t, {"unlink", "extend", "build"}) /\ ~Trains(t)
        BY <2>1 DEF Coming, PrepAt, Awaiting, PlacesSound, QueueSound, Waits
    <2> QED
        BY <2>2, <2>3 DEF Carried, PrepAt
<1>2. TypeOK /\ QueueSound /\ PlacesSound /\ SpoolInv /\ Safe(t, c) /\ [Next]_vars => Safe(t, c)'
    BY <1>0, CarriedStep DEF SpoolInv
<1>3. Safe(t, c) => (Finished(t) => DataDisturbed(t) \/ c \in loaded[t])
    BY DEF Safe, Carried
<1> QED
    BY <1>1, <1>2, <1>3, SpoolInvKept, PTL DEF Spec

-----------------------------------------------------------------------------
(* The spool file under its reader-writer lock.  A lock is discarded with    *)
(* the table entry, and until then all who open the file of an id hold the   *)
(* same one.                                                                 *)
Unread(t) == submit[t] = "new" \/ Expected(t)
LocksSound ==
    /\ \A t \in Tasks : Unread(t) => locks[IdOf[t]] = 0
    /\ \A c \in SendCalls : call[c].pc = "toFile" => call[c].lock <= locks[CallId[c]]
    /\ \A t \in Tasks : PrepAt(t, {"unlink"}) => reading = {<<IdOf[t], 0>>}

LEMMA LockSteps ==
    ASSUME [Next]_vars
    PROVE  UNCHANGED locks \/ \E th \in {"prep", "train"}, t \in Tasks : CleanTables(th, t)
<1>1. ASSUME NEW c \in Calls, CallNext(c)
      PROVE  UNCHANGED locks
    BY <1>1 DEF CallNext, SendNext, FinishNext, ErrorNext, CancelNext, GetTask, SendCheckStatus,
       SendDecodeError, SendRoute, SendToMemory, SendToFile, FinishSetReady, ErrorReport,
       ErrorReadStatus, ErrorSetStatus, ErrorAbort, ErrorClear, ErrorRemove, CancelCurrent,
       CancelSet, manager
<1>2. ASSUME NEW t \in Tasks, SubmitNext(t) \/ TimerNext(t)
      PROVE  UNCHANGED locks
    BY <1>2 DEF SubmitNext, SubmitRegister, SubmitEnqueue, SubmitReport, TimerNext, TimerFires,
       TimerFlags, TimerReports, TimerSetsStatus, TimerStep, manager
<1>3. ASSUME NEW th, NEW t \in Tasks, CleanNext(th, t), ~CleanTables(th, t)
      PROVE  UNCHANGED locks
    BY <1>3 DEF CleanNext, SetCancelled, CleanData, CleanFile, SetsStatus, Writes, manager
<1>4. ASSUME NEW t \in Tasks, PrepNext(t), ~CleanTables("prep", t)
      PROVE  UNCHANGED locks
    BY <1>3, <1>4 DEF PrepNext, PrepCancelledEarly, PrepAnnounce, PrepStart, WaitDataReady,
       WaitNotReady, WaitGivenUp, WaitDeadline, WaitAgain, WaitOver, PrepGiveUp,
       PrepCancelledWaiting, PrepCancelledReady, PrepProceed, LoadNothing, LoadRead, LoadUnlink,
       LoadExtend, BuildLoaders, BuildFails, PrepCrashStatus, PrepCrashReport, Goes, Reports,
       SetsStatus, Writes, manager
<1>5. ASSUME NEW t \in Tasks, TrainNext(t), ~CleanTables("train", t)
      PROVE  UNCHANGED locks
    BY <1>3, <1>5 DEF TrainNext, TrainAnnounce, TrainStart, EpochBegins, EpochEnds, EpochsOver,
       ModelSaved, TrainInterrupted, TrainRaises, TrainTimedOut, TrainCancelled, TrainReportError,
       TrainSetError, TrainedCancelled, TrainedInTime, TrainMarkDone, TrainReportDone, Goes, Reports,
       SetsStatus, Writes, manager
<1> QED
    BY <1>1, <1>2, <1>4, <1>5 DEF Next, CloseStop, CloseCancel, Idle, vars, PrepThread, PrepTake,
       PrepExit, TrainThread, TrainTake, TrainExit, Goes, manager

LEMMA ReadingSteps ==
    ASSUME [Next]_vars
    PROVE  UNCHANGED reading \/ \E t \in Tasks : LoadRead(t) \/ LoadUnlink(t)
<1>1. ASSUME NEW c \in Calls, CallNext(c)
      PROVE  UNCHANGED reading
    BY <1>1 DEF CallNext, SendNext, FinishNext, ErrorNext, CancelNext, GetTask, SendCheckStatus,
       SendDecodeError, SendRoute, SendToMemory, SendToFile, FinishSetReady, ErrorReport,
       ErrorReadStatus, ErrorSetStatus, ErrorAbort, ErrorClear, ErrorRemove, CancelCurrent,
       CancelSet, files
<1>2. ASSUME NEW t \in Tasks, SubmitNext(t) \/ TimerNext(t)
      PROVE  UNCHANGED reading
    BY <1>2 DEF SubmitNext, SubmitRegister, SubmitEnqueue, SubmitReport, TimerNext, TimerFires,
       TimerFlags, TimerReports, TimerSetsStatus, TimerStep, files
<1>3. ASSUME NEW th, NEW t \in Tasks, CleanNext(th, t)
      PROVE  UNCHANGED reading
    BY <1>3 DEF CleanNext, SetCancelled, CleanData, CleanTables, CleanFile, SetsStatus, Writes, files
<1>4. ASSUME NEW t \in Tasks, PrepNext(t), ~LoadRead(t), ~LoadUnlink(t)
      PROVE  UNCHANGED reading
    BY <1>3, <1>4 DEF PrepNext, PrepCancelledEarly, PrepAnnounce, PrepStart, WaitDataReady,
       WaitNotReady, WaitGivenUp, WaitDeadline, WaitAgain, WaitOver, PrepGiveUp,
       PrepCancelledWaiting, PrepCancelledReady, PrepProceed, LoadNothing, LoadExtend, BuildLoaders,
       BuildFails, PrepCrashStatus, PrepCrashReport, Goes, Reports, SetsStatus, Writes, files
<1>5. ASSUME NEW t \in Tasks, TrainNext(t)
      PROVE  UNCHANGED reading
    BY <1>3, <1>5 DEF TrainNext, TrainAnnounce, TrainStart, EpochBegins, EpochEnds, EpochsOver,
       ModelSaved, TrainInterrupted, TrainRaises, TrainTimedOut, TrainCancelled, TrainReportError,
       TrainSetError, TrainedCancelled, TrainedInTime, TrainMarkDone, TrainReportDone, Goes, Reports,
       SetsStatus, Writes, files
<1> QED
    BY <1>1, <1>2, <1>4, <1>5 DEF Next, CloseStop, CloseCancel, Idle, vars, PrepThread, PrepTake,
       PrepExit, TrainThread, TrainTake, TrainExit, Goes, files

(* Locks are counted up, and not before the task has been read.              *)
LEMMA LocksGrow ==
    ASSUME TypeOK, [Next]_vars, NEW id \in Ids
    PROVE  locks[id] \in Nat /\ locks'[id] \in Nat /\ locks[id] <= locks'[id]
<1>1. locks[id] \in Nat
    BY DEF TypeOK
<1>2. ASSUME NEW th \in {"prep", "train"}, NEW u \in Tasks, CleanTables(th, u)
      PROVE  locks'[id] = locks[id] \/ locks'[id] = locks[id] + 1
    BY <1>2 DEF CleanTables, TypeOK
<1> QED
    BY <1>1, <1>2, LockSteps

LEMMA UnreadFrom ==
    ASSUME TypeOK, QueueSound, PlacesSound, [Next]_vars, NEW t \in Tasks, Unread(t)'
    PROVE  Unread(t)
BY ExpectedFrom, SubmitLasts DEF SubmitRegister, Unread

LEMMA UnreadUnlocked ==
    ASSUME UniqueIds, TypeOK, QueueSound, PlacesSound, LocksSound, [Next]_vars, NEW t \in Tasks,
           Unread(t)
    PROVE  locks'[IdOf[t]] = 0
<1>1. IdOf[t] \in Ids /\ locks[IdOf[t]] = 0
    BY ConstantsAssumption DEF LocksSound
<1>2. ASSUME NEW th \in {"prep", "train"}, NEW u \in Tasks, CleanTables(th, u)
      PROVE  locks'[IdOf[t]] = locks[IdOf[t]]
    <2>1. thread[th].task = u /\ thread[th].pc = "unregister"
        BY <1>2 DEF CleanTables, Moves
    <2>2. t # u
        BY <2>1 DEF Unread, Expected, PlacesSound, Waits, Trains, Early, PrepPCs, QueueSound
    <2>3. IdOf[u] # IdOf[t]
        BY <2>2 DEF UniqueIds
    <2> QED
        BY <1>1, <1>2, <2>3 DEF CleanTables, TypeOK
<1> QED
    BY <1>1, <1>2, LockSteps

LEMMA RoutedLock ==
    ASSUME TypeOK, LocksSound, [Next]_vars, NEW c \in SendCalls, call'[c].pc = "toFile"
    PROVE  call'[c].lock <= locks'[CallId[c]]
<1>1. /\ c \in Calls /\ c \notin FinishCalls \cup ErrorCalls \cup CancelCalls
      /\ CallId[c] \in Ids
    BY ConstantsAssumption DEF Calls
<1>2. call[c].lock \in Nat
    BY <1>1 DEF TypeOK, CallStates
<1>3. CASE call'[c] = call[c]
    BY <1>1, <1>2, <1>3, LocksGrow DEF LocksSound
<1>4. CASE SendRoute(c)
    <2>1. call'[c].lock = locks[CallId[c]]
        BY <1>1, <1>4 DEF SendRoute, TypeOK, CallStates
    <2> QED
        BY <1>1, <2>1, LocksGrow
<1>5. ASSUME NEW from, NEW to, Answers(c, from, to), to # "toFile"
      PROVE  FALSE
    BY <1>1, <1>5 DEF Answers, TypeOK, CallStates
<1>6. ~GetTask(c)
    BY <1>1 DEF GetTask, TypeOK, CallStates
<1>7. ~(SendCheckStatus(c) \/ SendDecodeError(c) \/ SendToMemory(c) \/ SendToFile(c))
    BY <1>5 DEF SendCheckStatus, SendDecodeError, SendToMemory, SendToFile
<1> QED
    BY <1>1, <1>3, <1>4, <1>6, <1>7, CallPath DEF CallNext, SendNext

LEMMA ReadersLock ==
    ASSUME TypeOK, QueueSound, PlacesSound, LocksSound, [Next]_vars, NEW t \in Tasks,
           PrepAt(t, {"unlink"})'
    PROVE  reading' = {<<IdOf[t], 0>>}
<1>1. thread'["prep"].task = t /\ thread'["prep"].pc = "unlink"
    BY DEF PrepAt
<1>2. CASE thread'["prep"] = thread["prep"]
    <2>1. ~\E u \in Tasks : LoadRead(u) \/ LoadUnlink(u)
        BY <1>1, <1>2 DEF LoadRead, LoadUnlink, Moves, TypeOK, Places
    <2> QED
        BY <1>1, <1>2, <2>1, ReadingSteps DEF LocksSound, PrepAt
<1>3. CASE PrepNext(t) /\ thread["prep"].task = t
    <2>1. ASSUME NEW from, NEW to, Moves("prep", t, from, to)
          PROVE  thread["prep"].pc = from /\ thread'["prep"].pc = to
        BY <2>1 DEF Moves, TypeOK, Places
    <2>2. CASE LoadRead(t)
        <3>1. thread["prep"].pc = "load"
            BY <2>1, <2>2 DEF LoadRead
        <3>2. locks[IdOf[t]] = 0
            BY <1>3, <3>1 DEF LocksSound, Unread, Expected, PrepPCs
        <3> QED
            BY <2>2, <3>2 DEF LoadRead
    <2>3. ~CleanNext("prep", t) /\ ~BuildLoaders(t)
        BY <1>1, <2>1, ConstantsAssumption DEF CleanNext, SetCancelled, CleanData,
           CleanTables, CleanFile, BuildLoaders, SetsStatus, Writes, TypeOK
    <2> QED
        BY <1>1, <1>3, <2>1, <2>2, <2>3 DEF PrepNext, PrepCancelledEarly, PrepAnnounce, PrepStart,
           WaitDataReady, WaitNotReady, WaitGivenUp, WaitDeadline, WaitAgain, WaitOver,
           PrepGiveUp, PrepCancelledWaiting, PrepCancelledReady, PrepProceed, LoadNothing,
           LoadUnlink, LoadExtend, BuildFails, PrepCrashStatus, PrepCrashReport, Goes, Reports,
           SetsStatus, Writes
<1> QED
    BY <1>1, <1>2, <1>3, PrepStays

LEMMA LocksStep ==
    ASSUME UniqueIds, TypeOK, QueueSound, PlacesSound, LocksSound, [Next]_vars
    PROVE  LocksSound'
<1>1. ASSUME NEW t \in Tasks, Unread(t)'
      PROVE  locks'[IdOf[t]] = 0
    BY <1>1, UnreadFrom, UnreadUnlocked
<1> QED
    BY <1>1, RoutedLock, ReadersLock DEF LocksSound

(* What the prepare thread has read from the spool file and not yet deleted  *)
(* is all there is: nobody appends in between, for the lock a call has taken *)
(* before is still the one the prepare thread holds.  Only ReportError may   *)
(* delete the file, without the lock.                                        *)
THEOREM ReadUnderItsLock == UniqueIds => (Spec => FileReadAlone)
<1> SUFFICES ASSUME UniqueIds
             PROVE  Spec => FileReadAlone
    OBVIOUS
<1> DEFINE Alone == \A t \in Tasks :
        thread["prep"] = [pc |-> "unlink", task |-> t] => spool'[IdOf[t]] \subseteq spool[IdOf[t]]
<1>1. Init => LocksSound
    <2> SUFFICES ASSUME Init
                 PROVE  LocksSound
        OBVIOUS
    <2>1. \A c \in SendCalls : call[c].pc = "new"
        BY DEF Init, Calls
    <2>2. \A t \in Tasks : IdOf[t] \in Ids /\ ~PrepAt(t, {"unlink"})
        BY ConstantsAssumption DEF Init, PrepAt
    <2> QED
        BY <2>1, <2>2 DEF Init, LocksSound
<1>2. TypeOK /\ Inv /\ PlacesSound /\ LocksSound /\ [Next]_vars => LocksSound'
    BY LocksStep DEF Inv
<1>3. TypeOK /\ LocksSound /\ [Next]_vars => [Alone]_vars
    <2> SUFFICES ASSUME TypeOK, LocksSound, [Next]_vars, NEW t \in Tasks,
                        thread["prep"] = [pc |-> "unlink", task |-> t]
                 PROVE  spool'[IdOf[t]] \subseteq spool[IdOf[t]]
        OBVIOUS
    <2>1. IdOf[t] \in Ids /\ locks[IdOf[t]] = 0 /\ reading = {<<IdOf[t], 0>>}
        BY ConstantsAssumption DEF LocksSound, PrepAt, Unread, Expected, PrepPCs
    <2>2. ASSUME NEW c \in SendCalls, SendToFile(c)
          PROVE  CallId[c] # IdOf[t]
        <3>1. call[c].lock \in Nat /\ call[c].pc = "toFile"
            BY <2>2 DEF SendToFile, Answers, TypeOK, CallStates, Calls
        <3>2. CallId[c] = IdOf[t] => call[c].lock = 0
            BY <2>1, <3>1 DEF LocksSound
        <3> QED
            BY <2>1, <2>2, <3>2 DEF SendToFile
    <2>3. ASSUME NEW id, NEW batches, spool' = [spool EXCEPT ![id] = batches],
                 id # IdOf[t] \/ batches = {}
          PROVE  spool'[IdOf[t]] \subseteq spool[IdOf[t]]
        BY <2>1, <2>3 DEF TypeOK
    <2> QED
        BY <2>2, <2>3, SpoolSteps DEF SendToFile, ErrorRemove, LoadUnlink, CleanFile
<1> QED
    BY <1>1, <1>2, <1>3, PlacesKept, PTL DEF Spec, FileReadAlone
=============================================================================
