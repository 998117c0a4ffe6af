--------------------------- MODULE TaskLineProofs ----------------------------
(***************************************************************************)
(* Theorems about the order of the task manager's work, for any tasks,     *)
(* ids, calls and epochs: a task is at one place at a time, so that the    *)
(* node is a line of tasks (TaskLine).                                     *)
(***************************************************************************)
EXTENDS TaskManagerProofs, SequenceTheorems

-----------------------------------------------------------------------------
(* What a step does to the places of tasks.  Most leave every task where it  *)
(* is; six move one.                                                         *)
Early(t) == submit[t] \in {"new", "registered"}
Rests ==
    /\ UNCHANGED <<queue, ready, left>>
    /\ \A t \in Tasks : Early(t)' <=> Early(t)
    /\ \A th \in {"prep", "train"} :
        /\ thread'[th].task = thread[th].task
        /\ thread'[th].pc = "idle" => thread[th].pc = "idle"

Steps ==
    \/ Rests
    \/ \E t \in Tasks : SubmitEnqueue(t)
    \/ PrepTake
    \/ \E t \in Tasks : BuildLoaders(t)
    \/ TrainTake
    \/ \E th \in {"prep", "train"}, t \in Tasks : CleanFile(th, t)

LEMMA MoveRests ==
    ASSUME TypeOK, NEW th \in {"prep", "train"}, NEW t, NEW from, NEW to, to # "idle",
           Moves(th, t, from, to), UNCHANGED <<queue, ready, left, submit>>
    PROVE  Rests
BY DEF Rests, Moves, TypeOK, Places, Early

LEMMA ThreadRests ==
    ASSUME TypeOK, NEW th \in {"prep", "train"}, NEW t, NEW from, NEW to, to # "idle",
           \/ Goes(th, t, from, to)
           \/ \E s : Reports(th, t, from, s, to) \/ SetsStatus(th, t, from, s, to)
           \/ \E object : Writes(th, t, from, to, object)
    PROVE  Rests
BY MoveRests DEF Goes, Reports, SetsStatus, Writes, manager, clients, history

LEMMA CleanSteps ==
    ASSUME TypeOK, NEW th \in {"prep", "train"}, NEW t \in Tasks, CleanNext(th, t)
    PROVE  Steps
<1>1. CASE SetCancelled(th, t) \/ CleanData(th, t)
    BY <1>1, ThreadRests DEF SetCancelled, CleanData, Steps
<1>2. CASE CleanTables(th, t)
    BY <1>2, MoveRests DEF CleanTables, Steps, clients, history
<1> QED
    BY <1>1, <1>2 DEF CleanNext, Steps

LEMMA PrepSteps ==
    ASSUME TypeOK, NEW t \in Tasks, PrepNext(t)
    PROVE  Steps
<1>1. CASE \/ PrepCancelledEarly(t) \/ PrepAnnounce(t) \/ PrepCancelledWaiting(t)
           \/ PrepCancelledReady(t) \/ PrepCrashReport(t) \/ PrepCrashStatus(t)
    BY <1>1, ThreadRests DEF PrepCancelledEarly, PrepAnnounce, PrepCancelledWaiting,
       PrepCancelledReady, PrepCrashReport, PrepCrashStatus, Steps
<1>2. CASE \/ WaitNotReady(t) \/ WaitGivenUp(t) \/ WaitAgain(t) \/ PrepGiveUp(t)
           \/ PrepProceed(t) \/ LoadNothing(t) \/ BuildFails(t)
    BY <1>2, ThreadRests DEF WaitNotReady, WaitGivenUp, WaitAgain, PrepGiveUp, PrepProceed,
       LoadNothing, BuildFails, Steps
<1>3. CASE PrepStart(t) \/ WaitDataReady(t) \/ WaitDeadline(t)
    BY <1>3, ThreadRests DEF PrepStart, WaitDataReady, WaitDeadline, WaitOver, Steps
<1>4. CASE LoadRead(t) \/ LoadUnlink(t) \/ LoadExtend(t)
    BY <1>4, MoveRests DEF LoadRead, LoadUnlink, LoadExtend, manager, clients, history, Steps
<1> QED
    BY <1>1, <1>2, <1>3, <1>4, CleanSteps DEF PrepNext, Steps

LEMMA TrainSteps ==
    ASSUME TypeOK, NEW t \in Tasks, TrainNext(t)
    PROVE  Steps
<1>1. CASE \/ TrainAnnounce(t) \/ TrainCancelled(t) \/ TrainReportError(t)
           \/ TrainedCancelled(t) \/ TrainReportDone(t)
    BY <1>1, ThreadRests DEF TrainAnnounce, TrainCancelled, TrainReportError,
       TrainedCancelled, TrainReportDone, Steps
<1>2. CASE \/ EpochBegins(t) \/ EpochsOver(t) \/ ModelSaved(t) \/ TrainInterrupted(t)
           \/ TrainRaises(t) \/ TrainTimedOut(t) \/ TrainedInTime(t)
    BY <1>2, ThreadRests DEF EpochBegins, EpochsOver, ModelSaved, TrainInterrupted, TrainRaises,
       TrainTimedOut, TrainedInTime, Steps
<1>3. CASE TrainStart(t) \/ TrainSetError(t) \/ TrainMarkDone(t) \/ EpochEnds(t)
    BY <1>3, ThreadRests DEF TrainStart, TrainSetError, TrainMarkDone, EpochEnds, Steps
<1> QED
    BY <1>1, <1>2, <1>3, CleanSteps DEF TrainNext

LEMMA CallSteps ==
    ASSUME TypeOK, NEW c, CallNext(c)
    PROVE  UNCHANGED <<manager, threads, submit, left>>
BY DEF CallNext, SendNext, FinishNext, ErrorNext, CancelNext, GetTask, SendCheckStatus,
   SendDecodeError, SendRoute, SendToMemory, SendToFile, FinishSetReady, ErrorReport,
   ErrorReadStatus, ErrorSetStatus, ErrorAbort, ErrorClear, ErrorRemove, CancelCurrent,
   CancelSet, history

LEMMA StepKinds == TypeOK /\ [Next]_vars => Steps
<1> SUFFICES ASSUME TypeOK, [Next]_vars PROVE Steps
    OBVIOUS
<1>1. CASE UNCHANGED <<manager, threads, submit, left>>
    BY <1>1 DEF Steps, Rests, Early, manager, threads
<1>2. CASE \E c \in Calls : CallNext(c)
    BY <1>1, <1>2, CallSteps
<1>3. CASE CloseStop \/ CloseCancel \/ Idle \/ UNCHANGED vars
    BY <1>1, <1>3 DEF CloseStop, CloseCancel, Idle, vars, clients, history
<1>4. ASSUME NEW t \in Tasks, SubmitNext(t) \/ TimerNext(t)
      PROVE  Steps
    <2>1. CASE TimerNext(t)
        BY <1>1, <2>1 DEF TimerNext, TimerFires, TimerFlags, TimerReports, TimerSetsStatus,
           TimerStep, clients
    <2>2. CASE SubmitRegister(t) \/ SubmitReport(t)
        BY <2>2 DEF SubmitRegister, SubmitReport, Steps, Rests, Early, manager, threads, history,
           TypeOK
    <2> QED
        BY <1>4, <2>1, <2>2 DEF SubmitNext, Steps
<1>5. CASE PrepThread
    BY <1>5, PrepSteps, ThreadRests DEF PrepThread, PrepExit, Steps
<1>6. CASE TrainThread
    BY <1>6, TrainSteps, ThreadRests DEF TrainThread, TrainExit, Steps
<1> QED
    BY <1>2, <1>3, <1>4, <1>5, <1>6 DEF Next

-----------------------------------------------------------------------------
(* A task is at one place at a time, in the order of the places; a task that *)
(* has not been enqueued is at none.                                         *)
Elements(q) == {q[i] : i \in DOMAIN q}
Distinct(q) == \A i, j \in DOMAIN q : q[i] = q[j] => i = j
Ready == Elements(ready)
Waits(t)  == t \in Queued \/ thread["prep"].task = t
Trains(t) == t \in Ready \/ thread["train"].task = t
PlacesSound ==
    /\ \A t \in Tasks :
        /\ Early(t) => ~Waits(t) /\ ~Trains(t) /\ t \notin left
        /\ Waits(t) => ~Trains(t) /\ t \notin left
        /\ Trains(t) => t \notin left
        /\ t \in Ready => thread["train"].task # t
    /\ Distinct(ready)
    /\ \A th \in {"prep", "train"} : thread[th].pc = "idle" => thread[th].task = NoTask

LEMMA AppendAdds ==
    ASSUME NEW S, NEW q \in Seq(S), NEW e \in S
    PROVE  /\ Elements(Append(q, e)) = Elements(q) \cup {e}
           /\ Distinct(q) /\ e \notin Elements(q) => Distinct(Append(q, e))
<1> DEFINE more == Append(q, e)
<1>1. /\ Len(q) \in Nat
      /\ DOMAIN q = 1 .. Len(q) /\ DOMAIN more = 1 .. Len(q) + 1
      /\ \A i \in 1 .. Len(q) : more[i] = q[i]
      /\ more[Len(q) + 1] = e
    OBVIOUS
<1> HIDE DEF more
<1>2. Elements(more) = Elements(q) \cup {e}
    <2>1. ASSUME NEW x \in Elements(q) \cup {e}
          PROVE  \E i \in DOMAIN more : x = more[i]
        BY <1>1 DEF Elements
    <2>2. ASSUME NEW i \in DOMAIN more
          PROVE  more[i] \in Elements(q) \cup {e}
        BY <1>1 DEF Elements
    <2> QED
        BY <2>1, <2>2 DEF Elements
<1>3. ASSUME Distinct(q), e \notin Elements(q),
             NEW i \in DOMAIN more, NEW j \in DOMAIN more, more[i] = more[j]
      PROVE  i = j
    BY <1>1, <1>3 DEF Elements, Distinct
<1>4. Distinct(q) /\ e \notin Elements(q) => Distinct(more)
    BY <1>3 DEF Distinct
<1> QED
    BY <1>2, <1>4 DEF more

LEMMA TailDrops ==
    ASSUME NEW S, NEW q \in Seq(S), q # <<>>, Distinct(q)
    PROVE  /\ Head(q) \in Elements(q)
           /\ Elements(Tail(q)) = Elements(q) \ {Head(q)}
           /\ Distinct(Tail(q))
<1> DEFINE rest == Tail(q)
<1>1. /\ Len(q) \in Nat \ {0}
      /\ DOMAIN q = 1 .. Len(q) /\ DOMAIN rest = 1 .. Len(q) - 1
      /\ \A i \in 1 .. Len(q) - 1 : rest[i] = q[i + 1]
      /\ Head(q) = q[1]
    OBVIOUS
<1> HIDE DEF rest
<1>2. ASSUME NEW i \in DOMAIN rest
      PROVE  rest[i] \in Elements(q) \ {Head(q)}
    <2>1. i + 1 \in DOMAIN q /\ rest[i] = q[i + 1] /\ 1 \in DOMAIN q /\ i + 1 # 1
        BY <1>1
    <2> QED
        BY <1>1, <2>1 DEF Elements, Distinct
<1>3. ASSUME NEW i \in DOMAIN q, q[i] # Head(q)
      PROVE  \E k \in DOMAIN rest : q[i] = rest[k]
    <2>1. i - 1 \in DOMAIN rest /\ q[i] = rest[i - 1]
        BY <1>1, <1>3
    <2> QED
        BY <2>1
<1>4. ASSUME NEW i \in DOMAIN rest, NEW j \in DOMAIN rest, rest[i] = rest[j]
      PROVE  i = j
    <2>1. i + 1 \in DOMAIN q /\ j + 1 \in DOMAIN q /\ q[i + 1] = q[j + 1]
        BY <1>1, <1>4
    <2>2. i + 1 = j + 1
        BY <2>1 DEF Distinct
    <2> QED
        BY <1>1, <2>2
<1>5. Elements(rest) = Elements(q) \ {Head(q)}
    BY <1>2, <1>3 DEF Elements
<1>6. Head(q) \in Elements(q) /\ Distinct(rest)
    BY <1>1, <1>4 DEF Elements, Distinct
<1> QED
    BY <1>5, <1>6 DEF rest

LEMMA PlacesStep ==
    ASSUME TypeOK, QueueSound, PlacesSound, [Next]_vars
    PROVE  PlacesSound'
<1>1. NoTask \notin Tasks /\ queue \in Seq(Tasks) /\ ready \in Seq(Tasks)
    BY ConstantsAssumption DEF TypeOK
<1>q. /\ Queued = Elements(queue) /\ Queued' = Elements(queue')
      /\ Ready = Elements(ready) /\ Ready' = Elements(ready')
      /\ Distinct(queue) /\ Distinct(ready)
    BY DEF Queued, Ready, Elements, QueueSound, PlacesSound, Distinct
<1>2. CASE Rests
    BY <1>2, <1>q DEF Rests, PlacesSound, Waits, Trains, Distinct
<1>3. ASSUME NEW t \in Tasks, SubmitEnqueue(t)
      PROVE  PlacesSound'
    <2>1. /\ UNCHANGED <<ready, thread, left>>
          /\ Early(t) /\ \A u \in Tasks : Early(u)' => Early(u) /\ u # t
        BY <1>3 DEF SubmitEnqueue, threads, history, Early, TypeOK
    <2>2. Queued' = Queued \cup {t} /\ Ready' = Ready
        BY <1>1, <1>3, <1>q, AppendAdds DEF SubmitEnqueue
    <2> QED
        BY <2>1, <2>2 DEF PlacesSound, Waits, Trains
<1>4. CASE PrepTake
    <2>1. /\ UNCHANGED <<ready, left, submit>>
          /\ thread'["prep"] = [pc |-> "check", task |-> Head(queue)]
          /\ thread'["train"] = thread["train"]
        BY <1>4 DEF PrepTake, clients, history, TypeOK
    <2>2. Queued' = Queued \ {Head(queue)} /\ Ready' = Ready /\ Head(queue) \in Queued
        BY <1>1, <1>4, <1>q, TailDrops DEF PrepTake
    <2> QED
        BY <2>1, <2>2 DEF PlacesSound, Waits, Trains, Early
<1>5. ASSUME NEW t \in Tasks, BuildLoaders(t)
      PROVE  PlacesSound'
    <2>1. /\ UNCHANGED <<queue, left, submit>>
          /\ thread["prep"].task = t /\ thread'["prep"] = [pc |-> "idle", task |-> NoTask]
          /\ thread'["train"] = thread["train"]
        BY <1>5 DEF BuildLoaders, clients, TypeOK
    <2>2. t \notin Queued /\ t \notin Ready /\ thread["train"].task # t
        BY <2>1 DEF QueueSound, PlacesSound, Waits, Trains
    <2>3. /\ Ready' = Ready \cup {t} /\ Queued' = Queued
          /\ Distinct(ready)'
        <3>1. Elements(ready') = Ready \cup {t} /\ Distinct(ready')
            BY <1>1, <1>5, <1>q, <2>2, AppendAdds DEF BuildLoaders
        <3> QED
            BY <1>q, <2>1, <3>1 DEF Distinct
    <2> QED
        BY <1>1, <2>1, <2>2, <2>3 DEF PlacesSound, Waits, Trains, Early
<1>6. CASE TrainTake
    <2>1. /\ UNCHANGED <<queue, left, submit>>
          /\ thread'["train"] = [pc |-> "announce", task |-> Head(ready)]
          /\ thread'["prep"] = thread["prep"]
        BY <1>6 DEF TrainTake, clients, history, TypeOK
    <2>2. /\ Ready' = Ready \ {Head(ready)} /\ Queued' = Queued /\ Head(ready) \in Ready
          /\ Distinct(ready)'
        <3>1. /\ Elements(ready') = Ready \ {Head(ready)} /\ Head(ready) \in Ready
              /\ Distinct(ready')
            BY <1>1, <1>6, <1>q, TailDrops DEF TrainTake
        <3> QED
            BY <1>q, <2>1, <3>1 DEF Distinct
    <2> QED
        BY <2>1, <2>2 DEF PlacesSound, Waits, Trains, Early
<1>7. ASSUME NEW th \in {"prep", "train"}, NEW t \in Tasks, CleanFile(th, t)
      PROVE  PlacesSound'
    <2>1. /\ UNCHANGED <<queue, ready, submit>> /\ left' = left \cup {t}
          /\ thread[th].task = t /\ thread'[th] = [pc |-> "idle", task |-> NoTask]
          /\ \A other \in {"prep", "train"} \ {th} : thread'[other] = thread[other]
        BY <1>7 DEF CleanFile, manager, clients, TypeOK
    <2>2. Queued' = Queued /\ Ready' = Ready
        BY <1>q, <2>1
    <2>3. t \notin Queued /\ t \notin Ready /\ ~Early(t)
        BY <2>1 DEF QueueSound, PlacesSound, Waits, Trains
    <2> QED
        BY <1>1, <2>1, <2>2, <2>3 DEF PlacesSound, Waits, Trains, Early
<1> QED
    BY <1>2, <1>3, <1>4, <1>5, <1>6, <1>7, StepKinds DEF Steps

LEMMA InitPlaces == Init => PlacesSound
BY ConstantsAssumption DEF Init, PlacesSound, Waits, Trains, Queued, Ready, Elements, Distinct, Early

LEMMA PlacesKept == Spec => [](TypeOK /\ Inv /\ PlacesSound)
<1>1. Inv => QueueSound
    BY DEF Inv
<1> QED
    BY <1>1, InitInv, InvStep, TypesKept, InitPlaces, PlacesStep, PTL DEF Spec

-----------------------------------------------------------------------------
(* The line: its ready part, the task in preparation, its queued part.       *)
LineOf(r, p, q) == r \o p \o q

LEMMA ConcatElements ==
    ASSUME NEW S, NEW q \in Seq(S), NEW r \in Seq(S)
    PROVE  q \o r \in Seq(S) /\ Elements(q \o r) = Elements(q) \cup Elements(r)
<1> DEFINE both == q \o r
<1>1. /\ both \in Seq(S) /\ Len(q) \in Nat /\ Len(r) \in Nat
      /\ DOMAIN q = 1 .. Len(q) /\ DOMAIN r = 1 .. Len(r) /\ DOMAIN both = 1 .. Len(q) + Len(r)
      /\ \A i \in 1 .. Len(q) : both[i] = q[i]
      /\ \A i \in 1 .. Len(r) : both[Len(q) + i] = r[i]
    OBVIOUS
<1> HIDE DEF both
<1>2. ASSUME NEW i \in DOMAIN both PROVE both[i] \in Elements(q) \cup Elements(r)
    <2>1. CASE i \in 1 .. Len(q)
        BY <1>1, <2>1 DEF Elements
    <2>2. CASE i - Len(q) \in 1 .. Len(r)
        <3>1. both[i] = r[i - Len(q)]
            BY <1>1, <2>2
        <3> QED
            BY <1>1, <2>2, <3>1 DEF Elements
    <2> QED
        BY <1>1, <2>1, <2>2
<1>3. ASSUME NEW i \in DOMAIN q PROVE q[i] \in Elements(both)
    BY <1>1 DEF Elements
<1>4. ASSUME NEW i \in DOMAIN r PROVE r[i] \in Elements(both)
    <2>1. Len(q) + i \in DOMAIN both /\ both[Len(q) + i] = r[i]
        BY <1>1
    <2> QED
        BY <2>1 DEF Elements
<1>5. Elements(both) = Elements(q) \cup Elements(r)
    BY <1>2, <1>3, <1>4 DEF Elements
<1> QED
    BY <1>1, <1>5 DEF both

(* Taking the one in the middle out of a line.                               *)
Without(line, i) == SubSeq(line, 1, i - 1) \o SubSeq(line, i + 1, Len(line))

LEMMA MiddleOut ==
    ASSUME NEW r \in Seq(Tasks), NEW t \in Tasks, NEW q \in Seq(Tasks),
           NEW line \in Seq(Tasks), line = LineOf(r, <<t>>, q),
           NEW i \in Nat, i = Len(r) + 1
    PROVE  /\ i \in DOMAIN line /\ line[i] = t
           /\ Without(line, i) = LineOf(r, <<>>, q)
<1> DEFINE front == SubSeq(line, 1, i - 1)
           back  == SubSeq(line, i + 1, Len(line))
<1>1. /\ Len(r) \in Nat /\ Len(q) \in Nat
      /\ line \in Seq(Tasks) /\ Len(line) = Len(r) + 1 + Len(q) /\ DOMAIN line = 1 .. Len(line)
      /\ \A k \in 1 .. Len(r) : line[k] = r[k]
      /\ line[Len(r) + 1] = t
      /\ \A k \in 1 .. Len(q) : line[Len(r) + 1 + k] = q[k]
    BY DEF LineOf
<1>2. front = r
    <2>1. /\ 1 \in Int /\ i - 1 \in Int
          /\ \A k \in 1 .. i - 1 : line[k] \in Tasks
        BY <1>1
    <2>2. /\ front \in Seq(Tasks)
          /\ Len(front) = IF 1 <= i - 1 THEN i - 1 - 1 + 1 ELSE 0
          /\ \A k \in 1 .. i - 1 - 1 + 1 : front[k] = line[1 + k - 1]
        BY <2>1, SubSeqProperties
    <2> HIDE DEF front
    <2>3. i - 1 = Len(r) /\ i - 1 - 1 + 1 = Len(r) /\ (i > 1 \/ Len(r) = 0)
        BY <1>1
    <2>4. Len(front) = Len(r)
        BY <1>1, <2>2, <2>3
    <2>5. ASSUME NEW k \in 1 .. Len(r)
          PROVE  front[k] = r[k]
        <3>1. k \in 1 .. i - 1 - 1 + 1 /\ 1 + k - 1 = k
            BY <1>1, <2>3
        <3>2. front[k] = line[k]
            BY <2>2, <3>1
        <3> QED
            BY <1>1, <3>2
    <2> QED
        BY <2>2, <2>4, <2>5, SeqEqual
<1>3. back = q
    <2>1. /\ i + 1 \in Int /\ Len(line) \in Int
          /\ \A k \in i + 1 .. Len(line) : line[k] \in Tasks
        BY <1>1
    <2>2. /\ back \in Seq(Tasks)
          /\ Len(back) = IF i + 1 <= Len(line) THEN Len(line) - (i + 1) + 1 ELSE 0
          /\ \A k \in 1 .. Len(line) - (i + 1) + 1 : back[k] = line[i + 1 + k - 1]
        BY <2>1, SubSeqProperties
    <2> HIDE DEF back
    <2>3. Len(line) - (i + 1) + 1 = Len(q) /\ (i + 1 <= Len(line) \/ Len(q) = 0)
        BY <1>1
    <2>4. Len(back) = Len(q)
        BY <1>1, <2>2, <2>3
    <2>5. ASSUME NEW k \in 1 .. Len(q)
          PROVE  back[k] = q[k]
        <3>1. k \in 1 .. Len(line) - (i + 1) + 1 /\ i + 1 + k - 1 = Len(r) + 1 + k
            BY <1>1, <2>3
        <3>2. back[k] = line[Len(r) + 1 + k]
            BY <2>2, <3>1
        <3> QED
            BY <1>1, <3>2
    <2> QED
        BY <2>2, <2>4, <2>5, SeqEqual
<1>4. LineOf(r, <<>>, q) = r \o q
    BY ConcatEmptySeq DEF LineOf
<1>5. i \in DOMAIN line /\ line[i] = t
    BY <1>1
<1> QED
    BY <1>2, <1>3, <1>4, <1>5 DEF Without

(* Moving between the parts of a line, at its end and at its head.           *)
LEMMA LineAppends ==
    ASSUME NEW r \in Seq(Tasks), NEW p \in Seq(Tasks), NEW q \in Seq(Tasks), NEW t \in Tasks
    PROVE  LineOf(r, p, Append(q, t)) = Append(LineOf(r, p, q), t)
<1>1. r \o p \in Seq(Tasks) /\ (r \o p) \o q \in Seq(Tasks) /\ <<t>> \in Seq(Tasks)
    OBVIOUS
<1>2. (r \o p) \o (q \o <<t>>) = ((r \o p) \o q) \o <<t>>
    BY <1>1, ConcatAssociative
<1>3. Append(q, t) = q \o <<t>> /\ Append((r \o p) \o q, t) = ((r \o p) \o q) \o <<t>>
    BY <1>1, AppendIsConcat
<1> QED
    BY <1>2, <1>3 DEF LineOf

LEMMA LineBuilds ==
    ASSUME NEW r \in Seq(Tasks), NEW q \in Seq(Tasks), NEW t \in Tasks
    PROVE  LineOf(Append(r, t), <<>>, q) = LineOf(r, <<t>>, q)
<1>1. Append(r, t) = r \o <<t>> /\ Append(r, t) \o <<>> = Append(r, t)
    BY AppendIsConcat, ConcatEmptySeq
<1> QED
    BY <1>1 DEF LineOf

LEMMA LineTakes ==
    ASSUME NEW r \in Seq(Tasks), NEW q \in Seq(Tasks), q # <<>>
    PROVE  LineOf(r, <<Head(q)>>, Tail(q)) = LineOf(r, <<>>, q)
<1>1. Head(q) \in Tasks /\ Tail(q) \in Seq(Tasks) /\ <<Head(q)>> \in Seq(Tasks)
    OBVIOUS
<1>2. <<Head(q)>> \o Tail(q) = q
    <2>1. <<Head(q)>> \o Tail(q) \in Seq(Tasks) /\ Len(<<Head(q)>> \o Tail(q)) = Len(q)
        BY <1>1
    <2>2. \A k \in 1 .. Len(q) : (<<Head(q)>> \o Tail(q))[k] = q[k]
        BY <1>1
    <2> QED
        BY <2>1, <2>2, SeqEqual
<1>3. (r \o <<Head(q)>>) \o Tail(q) = r \o (<<Head(q)>> \o Tail(q))
    BY <1>1, ConcatAssociative
<1>4. r \o <<>> = r
    BY ConcatEmptySeq
<1> QED
    BY <1>2, <1>3, <1>4 DEF LineOf

LEMMA LineHead ==
    ASSUME NEW r \in Seq(Tasks), NEW p \in Seq(Tasks), NEW q \in Seq(Tasks), r # <<>>
    PROVE  /\ LineOf(r, p, q) # <<>>
           /\ Head(LineOf(r, p, q)) = Head(r)
           /\ Tail(LineOf(r, p, q)) = LineOf(Tail(r), p, q)
<1> DEFINE line == LineOf(r, p, q)
           rest == LineOf(Tail(r), p, q)
<1>1. /\ Len(r) \in Nat \ {0} /\ Len(p) \in Nat /\ Len(q) \in Nat
      /\ Tail(r) \in Seq(Tasks) /\ Len(Tail(r)) = Len(r) - 1
      /\ \A k \in 1 .. Len(r) - 1 : Tail(r)[k] = r[k + 1]
    OBVIOUS
<1> DEFINE a == Len(r)
           b == Len(p)
<1>2. /\ line \in Seq(Tasks) /\ Len(line) = Len(r) + Len(p) + Len(q)
      /\ \A k \in 1 .. a : line[k] = r[k]
      /\ \A k \in 1 .. b : line[a + k] = p[k]
      /\ \A k \in 1 .. Len(q) : line[a + b + k] = q[k]
    BY DEF LineOf
<1>3. /\ rest \in Seq(Tasks) /\ Len(rest) = Len(r) - 1 + Len(p) + Len(q)
      /\ \A k \in 1 .. a - 1 : rest[k] = r[k + 1]
      /\ \A k \in 1 .. b : rest[a - 1 + k] = p[k]
      /\ \A k \in 1 .. Len(q) : rest[a - 1 + b + k] = q[k]
    BY <1>1 DEF LineOf
<1> HIDE DEF line, rest
<1>4. line # <<>> /\ Head(line) = r[1] /\ Head(r) = r[1]
    BY <1>1, <1>2
<1>5. /\ Tail(line) \in Seq(Tasks) /\ Len(Tail(line)) = Len(rest)
      /\ \A k \in 1 .. Len(rest) : Tail(line)[k] = line[k + 1]
    BY <1>1, <1>2, <1>3, <1>4
<1>6. ASSUME NEW k \in 1 .. Len(rest) PROVE line[k + 1] = rest[k]
    <2>1. CASE k \in 1 .. a - 1
        BY <1>1, <1>2, <1>3, <2>1
    <2>2. CASE k - (a - 1) \in 1 .. b
        <3>1. line[a + (k - (a - 1))] = p[k - (a - 1)] /\ rest[a - 1 + (k - (a - 1))] = p[k - (a - 1)]
            BY <1>2, <1>3, <2>2
        <3> QED
            BY <1>1, <3>1
    <2>3. CASE k - (a - 1 + b) \in 1 .. Len(q)
        <3>1. /\ line[a + b + (k - (a - 1 + b))] = q[k - (a - 1 + b)]
              /\ rest[a - 1 + b + (k - (a - 1 + b))] = q[k - (a - 1 + b)]
            BY <1>2, <1>3, <2>3
        <3> QED
            BY <1>1, <3>1
    <2> QED
        BY <1>1, <1>3, <2>1, <2>2, <2>3
<1>7. Tail(line) = rest
    BY <1>3, <1>5, <1>6, SeqEqual
<1> QED
    BY <1>4, <1>7 DEF line, rest

LEMMA InLineWaits ==
    ASSUME TypeOK, PlacesSound
    PROVE  \A t \in Tasks : t \in Line!InLine => Waits(t) \/ t \in Ready
<1>1. ready \in Seq(Tasks) /\ Preparing \in Seq(Tasks) /\ queue \in Seq(Tasks)
    BY DEF TypeOK, Places, Preparing
<1>2. Elements(Preparing) \subseteq {thread["prep"].task}
    BY DEF Elements, Preparing
<1> HIDE DEF Preparing
<1>3. /\ Elements(ready \o Preparing) = Ready \cup Elements(Preparing)
      /\ ready \o Preparing \in Seq(Tasks)
    BY <1>1, ConcatElements DEF Ready
<1> DEFINE front == ready \o Preparing
<1> HIDE DEF front
<1>4. Elements(front \o queue) = Elements(front) \cup Elements(queue)
    <2>1. front \in Seq(Tasks)
        BY <1>3 DEF front
    <2> QED
        BY <1>1, <2>1, ConcatElements
<1>5. Line!InLine = Elements((ready \o Preparing) \o queue) /\ Elements(queue) = Queued
    BY DEF Line!InLine, Elements, Queued
<1> QED
    BY <1>2, <1>3, <1>4, <1>5 DEF Waits, front

LEMMA LineStep ==
    ASSUME TypeOK, QueueSound, PlacesSound, [Next]_vars
    PROVE  [Line!Next]_(Line!vars)
<1> DEFINE line == LineOf(ready, Preparing, queue)
<1>0. /\ NoTask \notin Tasks
      /\ ready \in Seq(Tasks) /\ Preparing \in Seq(Tasks) /\ queue \in Seq(Tasks)
      /\ line' = LineOf(ready', Preparing', queue')
    BY ConstantsAssumption DEF TypeOK, Places, Preparing, LineOf
<1>v. /\ Line!vars = <<line, thread["train"].task, left>>
      /\ Line!vars' = <<line', thread'["train"].task, left'>>
    BY DEF Line!vars, LineOf
<1>1. CASE Rests
    <2>1. Preparing' = Preparing /\ UNCHANGED <<ready, queue, left>>
          /\ thread'["train"].task = thread["train"].task
        BY <1>1 DEF Rests, Preparing
    <2> QED
        BY <1>0, <1>v, <2>1
<1>2. ASSUME NEW t \in Tasks, SubmitEnqueue(t)
      PROVE  Line!Next
    <2>1. /\ queue' = Append(queue, t) /\ UNCHANGED <<ready, thread, left>>
          /\ Early(t)
        BY <1>2 DEF SubmitEnqueue, threads, history, Early
    <2>2. Preparing' = Preparing
        BY <2>1 DEF Preparing
    <2>3. line' = Append(line, t)
        BY <1>0, <2>1, <2>2, LineAppends
    <2>4. t \notin Line!InLine \cup {thread["train"].task} \cup left
        BY <2>1, InLineWaits DEF PlacesSound, Trains
    <2>5. Line!Accept(t)
        BY <2>1, <2>3, <2>4 DEF Line!Accept, LineOf
    <2> QED
        BY <2>5 DEF Line!Next
<1>3. CASE PrepTake
    <2>1. /\ queue # <<>> /\ queue' = Tail(queue) /\ UNCHANGED <<ready, left>>
          /\ thread["prep"].task = NoTask
          /\ thread'["prep"].task = Head(queue) /\ thread'["train"] = thread["train"]
          /\ Head(queue) \in Tasks
        BY <1>0, <1>3 DEF PrepTake, history, TypeOK, PlacesSound
    <2>2. Preparing = <<>> /\ Preparing' = <<Head(queue)>>
        BY <1>0, <2>1 DEF Preparing
    <2>3. line' = line
        BY <1>0, <2>1, <2>2, LineTakes
    <2> QED
        BY <1>v, <2>1, <2>3
<1>4. ASSUME NEW t \in Tasks, BuildLoaders(t)
      PROVE  UNCHANGED Line!vars
    <2>1. /\ ready' = Append(ready, t) /\ UNCHANGED <<queue, left>>
          /\ thread["prep"].task = t /\ thread'["prep"].task = NoTask
          /\ thread'["train"] = thread["train"]
        BY <1>4 DEF BuildLoaders, TypeOK
    <2>2. Preparing = <<t>> /\ Preparing' = <<>>
        BY <1>0, <2>1 DEF Preparing
    <2>3. line' = line
        BY <1>0, <2>1, <2>2, LineBuilds
    <2> QED
        BY <1>v, <2>1, <2>3
<1>5. CASE TrainTake
    <2>1. /\ ready # <<>> /\ ready' = Tail(ready) /\ UNCHANGED <<queue, left>>
          /\ thread["train"].task = NoTask
          /\ thread'["train"].task = Head(ready) /\ thread'["prep"] = thread["prep"]
        BY <1>5 DEF TrainTake, history, TypeOK, PlacesSound
    <2>2. Preparing' = Preparing /\ Head(ready) \in Tasks
        BY <1>0, <2>1 DEF Preparing
    <2>3. line # <<>> /\ Head(line) = Head(ready) /\ line' = Tail(line)
        BY <1>0, <2>1, <2>2, LineHead
    <2>4. Line!Begin
        BY <2>1, <2>3 DEF Line!Begin, LineOf
    <2> QED
        BY <2>4 DEF Line!Next
<1>6. ASSUME NEW t \in Tasks, CleanFile("prep", t)
      PROVE  Line!Next
    <2>1. /\ UNCHANGED <<ready, queue>> /\ left' = left \cup {t}
          /\ thread["prep"].task = t /\ thread'["prep"].task = NoTask
          /\ thread'["train"] = thread["train"]
        BY <1>6 DEF CleanFile, manager, TypeOK
    <2>2. Preparing = <<t>> /\ Preparing' = <<>>
        BY <1>0, <2>1 DEF Preparing
    <2> DEFINE i == Len(ready) + 1
    <2>3. /\ i \in DOMAIN line /\ line[i] = t
          /\ line' = SubSeq(line, 1, i - 1) \o SubSeq(line, i + 1, Len(line))
        <3>1. line = LineOf(ready, <<t>>, queue) /\ line' = LineOf(ready, <<>>, queue)
            BY <1>0, <2>1, <2>2
        <3>2. /\ i \in DOMAIN line /\ line[i] = t
              /\ Without(line, i) = LineOf(ready, <<>>, queue)
            <4>1. line \in Seq(Tasks) /\ i \in Nat /\ i = Len(ready) + 1
                BY <1>0 DEF LineOf
            <4> HIDE DEF line, i
            <4> QED
                BY <1>0, <3>1, <4>1, MiddleOut
        <3> QED
            BY <3>1, <3>2 DEF Without
    <2>4. Line!DropOut(i) /\ i \in DOMAIN ((ready \o Preparing) \o queue)
        BY <2>1, <2>3 DEF Line!DropOut, LineOf
    <2> QED
        BY <2>4 DEF Line!Next
<1>7. ASSUME NEW t \in Tasks, CleanFile("train", t)
      PROVE  Line!Next
    <2>1. /\ UNCHANGED <<ready, queue>> /\ left' = left \cup {t}
          /\ thread["train"].task = t /\ thread'["train"].task = NoTask
          /\ thread'["prep"] = thread["prep"]
        BY <1>7 DEF CleanFile, manager, TypeOK
    <2>2. line' = line
        BY <1>0, <2>1 DEF Preparing
    <2>3. Line!End
        BY <1>0, <2>1, <2>2 DEF Line!End, LineOf
    <2> QED
        BY <2>3 DEF Line!Next
<1> QED
    BY <1>1, <1>2, <1>3, <1>4, <1>5, <1>6, <1>7, StepKinds DEF Steps

(* The task manager is a line of tasks: however SendToTrain, data, errors,   *)
(* cancellations and time limits come, also under repeated ids, each task    *)
(* trains at most once, alone, and in the order in which it was enqueued.    *)
THEOREM LineRefinement == Spec => ImplementsTaskLine
<1>1. Init => Line!Init
    <2>1. Init => ready \o Preparing \o queue = <<>> /\ thread["train"].task = NoTask /\ left = {}
        BY ConcatEmptySeq DEF Init, Preparing
    <2> QED
        BY <2>1 DEF Line!Init
<1>2. Inv => QueueSound
    BY DEF Inv
<1> QED
    BY <1>1, <1>2, LineStep, PlacesKept, PTL DEF Spec, Line!Spec, ImplementsTaskLine

-----------------------------------------------------------------------------
(* A cancellation and the end of the data are never taken back.              *)
FlagsLast == \A t \in Tasks :
    /\ task[t].cancel => task'[t].cancel
    /\ task[t].dataReady => task'[t].dataReady

LEMMA CallLasts ==
    ASSUME TypeOK, NEW c \in Calls, CallNext(c)
    PROVE  FlagsLast
<1>1. CASE UNCHANGED task
    BY <1>1 DEF FlagsLast
<1>2. CASE SendDecodeError(c)
    BY <1>2 DEF SendDecodeError, FlagsLast, TypeOK, TaskObjects
<1>3. CASE ErrorSetStatus(c)
    BY <1>3 DEF ErrorSetStatus, FlagsLast, TypeOK, TaskObjects
<1>4. CASE SendToMemory(c)
    BY <1>4 DEF SendToMemory, FlagsLast, TypeOK, TaskObjects
<1>5. CASE ErrorClear(c)
    BY <1>5 DEF ErrorClear, FlagsLast, TypeOK, TaskObjects
<1>6. CASE FinishSetReady(c)
    BY <1>6 DEF FinishSetReady, FlagsLast, TypeOK, TaskObjects
<1>7. CASE ErrorAbort(c)
    BY <1>7 DEF ErrorAbort, FlagsLast, TypeOK, TaskObjects
<1>8. CASE CancelSet(c)
    BY <1>8 DEF CancelSet, FlagsLast, TypeOK, TaskObjects
<1> QED
    BY <1>1, <1>2, <1>3, <1>4, <1>5, <1>6, <1>7, <1>8 DEF CallNext, SendNext, FinishNext, ErrorNext, CancelNext,
       GetTask, SendCheckStatus, SendRoute, SendToFile, ErrorReport, ErrorReadStatus, ErrorRemove,
       CancelCurrent

LEMMA StatusLasts ==
    ASSUME TypeOK, NEW th, NEW t \in Tasks, NEW from, NEW status, NEW to,
           SetsStatus(th, t, from, status, to)
    PROVE  FlagsLast
BY DEF SetsStatus, Writes, FlagsLast, TypeOK, TaskObjects

LEMMA CleanLasts ==
    ASSUME TypeOK, NEW th \in {"prep", "train"}, NEW t \in Tasks, CleanNext(th, t)
    PROVE  FlagsLast
<1>1. CASE SetCancelled(th, t)
    BY <1>1, StatusLasts DEF SetCancelled
<1>2. CASE CleanData(th, t)
    BY <1>2 DEF CleanData, Writes, FlagsLast, TypeOK, TaskObjects
<1>3. CASE UNCHANGED task
    BY <1>3 DEF FlagsLast
<1> QED
    BY <1>1, <1>2, <1>3 DEF CleanNext, CleanTables, CleanFile

LEMMA PrepLasts ==
    ASSUME TypeOK, NEW t \in Tasks, PrepNext(t)
    PROVE  FlagsLast
<1>1. CASE UNCHANGED task
    BY <1>1 DEF FlagsLast
<1>2. CASE PrepStart(t)
    BY <1>2 DEF PrepStart, Writes, FlagsLast, TypeOK, TaskObjects
<1>3. CASE WaitDataReady(t) \/ WaitDeadline(t)
    <2>1. PICK from : WaitOver(t, from)
        BY <1>3 DEF WaitDataReady, WaitDeadline
    <2> QED
        BY <2>1 DEF WaitOver, Writes, FlagsLast, TypeOK, TaskObjects
<1>4. CASE PrepCrashStatus(t)
    BY <1>4, StatusLasts DEF PrepCrashStatus
<1>5. CASE LoadExtend(t)
    BY <1>5 DEF LoadExtend, FlagsLast, TypeOK, TaskObjects
<1> QED
    BY <1>1, <1>2, <1>3, <1>4, <1>5, CleanLasts DEF PrepNext, PrepCancelledEarly, PrepAnnounce, WaitNotReady,
       WaitGivenUp, WaitAgain, PrepGiveUp, PrepCancelledWaiting, PrepCancelledReady, PrepProceed,
       LoadNothing, LoadRead, LoadUnlink, BuildLoaders, BuildFails, PrepCrashReport, Goes, Reports

LEMMA TrainLasts ==
    ASSUME TypeOK, NEW t \in Tasks, TrainNext(t)
    PROVE  FlagsLast
<1>1. CASE UNCHANGED task
    BY <1>1 DEF FlagsLast
<1>2. CASE TrainStart(t) \/ TrainSetError(t) \/ TrainMarkDone(t)
    BY <1>2, StatusLasts DEF TrainStart, TrainSetError, TrainMarkDone
<1>3. CASE EpochEnds(t)
    BY <1>3 DEF EpochEnds, Writes, FlagsLast, TypeOK, TaskObjects
<1> QED
    BY <1>1, <1>2, <1>3, CleanLasts DEF TrainNext, TrainAnnounce, EpochBegins, EpochsOver, ModelSaved,
       TrainInterrupted, TrainRaises, TrainTimedOut, TrainCancelled, TrainReportError,
       TrainedCancelled, TrainedInTime, TrainReportDone, Goes, Reports

LEMMA StepLasts == TypeOK /\ [Next]_vars => FlagsLast
<1> SUFFICES ASSUME TypeOK, [Next]_vars PROVE FlagsLast
    OBVIOUS
<1>1. CASE UNCHANGED task
    BY <1>1 DEF FlagsLast
<1>2. CASE CloseCancel
    BY <1>2 DEF CloseCancel, FlagsLast, TypeOK, TaskObjects
<1>3. ASSUME NEW t \in Tasks, SubmitNext(t) \/ TimerNext(t)
      PROVE  FlagsLast
    <2>1. CASE TimerFires(t)
        BY <2>1 DEF TimerFires, TimerStep, FlagsLast, TypeOK, TaskObjects
    <2>2. CASE TimerFlags(t)
        BY <2>2 DEF TimerFlags, TimerStep, FlagsLast, TypeOK, TaskObjects
    <2>3. CASE TimerReports(t)
        BY <2>3 DEF TimerReports, TimerStep, FlagsLast, TypeOK, TaskObjects
    <2>4. CASE TimerSetsStatus(t)
        BY <2>4 DEF TimerSetsStatus, TimerStep, FlagsLast, TypeOK, TaskObjects
    <2> QED
        BY <1>1, <1>3, <2>1, <2>2, <2>3, <2>4 DEF SubmitNext, SubmitRegister, SubmitEnqueue,
           SubmitReport, TimerNext
<1>4. CASE PrepThread
    BY <1>1, <1>4, PrepLasts DEF PrepThread, PrepTake, PrepExit, Goes
<1>5. CASE TrainThread
    BY <1>1, <1>5, TrainLasts DEF TrainThread, TrainTake, TrainExit, Goes
<1> QED
    BY <1>1, <1>2, <1>3, <1>4, <1>5, CallLasts DEF Next, CloseStop, Idle, vars

-----------------------------------------------------------------------------
(* The train thread leaves the prepare thread where it is.                   *)
LEMMA TrainKeepsPrep == TypeOK /\ TrainThread => thread'["prep"] = thread["prep"]
<1>1. ASSUME NEW t, NEW from, NEW to, Moves("train", t, from, to)
      PROVE  thread'["prep"] = thread["prep"]
    BY <1>1 DEF Moves
<1> QED
    BY <1>1 DEF TrainThread, TrainTake, TrainExit, TrainNext, TrainAnnounce, TrainStart, EpochBegins,
       EpochEnds, EpochsOver, ModelSaved, TrainInterrupted, TrainRaises, TrainTimedOut,
       TrainCancelled, TrainReportError, TrainSetError, TrainedCancelled, TrainedInTime,
       TrainMarkDone, TrainReportDone, CleanNext, SetCancelled, CleanData, CleanTables, CleanFile,
       Goes, Reports, SetsStatus, Writes, TypeOK

LEMMA PrepKeepsTrain == TypeOK /\ PrepThread => thread'["train"] = thread["train"]
<1>1. ASSUME NEW t, NEW from, NEW to, Moves("prep", t, from, to)
      PROVE  thread'["train"] = thread["train"]
    BY <1>1 DEF Moves
<1> QED
    BY <1>1 DEF PrepThread, PrepTake, PrepExit, PrepNext, PrepCancelledEarly, PrepAnnounce, PrepStart,
       WaitDataReady, WaitNotReady, WaitGivenUp, WaitDeadline, WaitAgain, WaitOver, PrepGiveUp,
       PrepCancelledWaiting, PrepCancelledReady, PrepProceed, LoadNothing, LoadRead, LoadUnlink,
       LoadExtend, BuildLoaders, BuildFails, PrepCrashStatus, PrepCrashReport, CleanNext,
       SetCancelled, CleanData, CleanTables, CleanFile, Goes, Reports, SetsStatus, Writes, TypeOK

LEMMA PrepElsewhere ==
    ASSUME TypeOK, [Next]_vars, ~PrepThread
    PROVE  thread'["prep"] = thread["prep"]
<1>1. CASE UNCHANGED threads
    BY <1>1 DEF threads
<1>2. CASE \E c \in Calls : CallNext(c)
    BY <1>1, <1>2, CallSteps
<1>3. ASSUME NEW t \in Tasks, SubmitNext(t) \/ TimerNext(t)
      PROVE  UNCHANGED threads
    BY <1>3 DEF SubmitNext, SubmitRegister, SubmitEnqueue, SubmitReport, TimerNext,
       TimerFires, TimerFlags, TimerReports, TimerSetsStatus, TimerStep
<1>4. CASE TrainThread
    BY <1>4, TrainKeepsPrep
<1> QED
    BY <1>1, <1>2, <1>3, <1>4 DEF Next, CloseStop, CloseCancel, Idle, vars, threads

LEMMA TrainElsewhere ==
    ASSUME TypeOK, [Next]_vars, ~TrainThread
    PROVE  thread'["train"] = thread["train"]
<1>1. CASE UNCHANGED threads
    BY <1>1 DEF threads
<1>2. CASE \E c \in Calls : CallNext(c)
    BY <1>1, <1>2, CallSteps
<1>3. ASSUME NEW t \in Tasks, SubmitNext(t) \/ TimerNext(t)
      PROVE  UNCHANGED threads
    BY <1>3 DEF SubmitNext, SubmitRegister, SubmitEnqueue, SubmitReport, TimerNext,
       TimerFires, TimerFlags, TimerReports, TimerSetsStatus, TimerStep
<1>4. CASE PrepThread
    BY <1>4, PrepKeepsTrain
<1> QED
    BY <1>1, <1>2, <1>3, <1>4 DEF Next, CloseStop, CloseCancel, Idle, vars, threads

(* What the prepare thread does next with the task it is on, by the place it *)
(* is at.                                                                    *)
LEMMA PrepPath ==
    ASSUME TypeOK, PlacesSound, [Next]_vars, thread'["prep"] # thread["prep"]
    PROVE  \/ PrepTake
           \/ \E t \in Tasks : PrepNext(t)
           \/ thread'["prep"] = [pc |-> "exited", task |-> NoTask]
<1>1. CASE PrepExit
    BY <1>1 DEF PrepExit, Goes, Moves, TypeOK, Places
<1> QED
    BY <1>1, PrepElsewhere DEF PrepThread

(* Where the prepare thread is with t, it came to by taking t from the queue,*)
(* or one step ago it was with t at a place that leads there.                *)
LEMMA PrepStays ==
    ASSUME TypeOK, PlacesSound, [Next]_vars, NEW t \in Tasks, thread'["prep"].task = t
    PROVE  \/ thread'["prep"] = thread["prep"]
           \/ PrepTake /\ thread'["prep"].pc = "check"
           \/ PrepNext(t) /\ thread["prep"].task = t
<1>1. NoTask \notin Tasks
    BY ConstantsAssumption
<1>2. CASE PrepTake
    BY <1>2 DEF PrepTake, TypeOK
<1>3. ASSUME NEW u \in Tasks, PrepNext(u)
      PROVE  thread["prep"].task = u /\ (u = t \/ thread'["prep"].task # t)
    <2>1. ASSUME NEW from, NEW to, Moves("prep", u, from, to)
          PROVE  thread["prep"].task = u /\ thread'["prep"].task = u
        BY <2>1 DEF Moves, TypeOK, Places
    <2>2. CASE BuildLoaders(u) \/ CleanFile("prep", u)
        BY <1>1, <2>2 DEF BuildLoaders, CleanFile, TypeOK
    <2> QED
        BY <1>3, <2>1, <2>2 DEF PrepNext, PrepCancelledEarly, PrepAnnounce, PrepStart, WaitDataReady,
           WaitNotReady, WaitGivenUp, WaitDeadline, WaitAgain, WaitOver, PrepGiveUp,
           PrepCancelledWaiting, PrepCancelledReady, PrepProceed, LoadNothing, LoadRead, LoadUnlink,
           LoadExtend, BuildFails, PrepCrashStatus, PrepCrashReport, CleanNext, SetCancelled,
           CleanData, CleanTables, Goes, Reports, SetsStatus, Writes
<1> QED
    BY <1>1, <1>2, <1>3, PrepPath

(* A task comes to the train thread, or its queue, by BuildLoaders only.     *)
LEMMA TrainsFrom ==
    ASSUME TypeOK, PlacesSound, [Next]_vars, NEW t \in Tasks, Trains(t)'
    PROVE  Trains(t) \/ BuildLoaders(t)
<1>1. ready \in Seq(Tasks) /\ Distinct(ready) /\ NoTask \notin Tasks
    BY ConstantsAssumption DEF TypeOK, PlacesSound
<1> SUFFICES ASSUME ~Trains(t), ~BuildLoaders(t)
             PROVE  t \notin Elements(ready') /\ thread'["train"].task # t
    BY DEF Trains, Ready
<1>2. t \notin Ready /\ thread["train"].task # t
    BY DEF Trains
<1>3. CASE Rests
    BY <1>2, <1>3 DEF Rests, Ready
<1>4. ASSUME NEW u \in Tasks, SubmitEnqueue(u)
      PROVE  UNCHANGED <<ready, thread>>
    BY <1>4 DEF SubmitEnqueue, threads
<1>5. CASE PrepTake
    BY <1>2, <1>5 DEF PrepTake, Ready, TypeOK
<1>6. ASSUME NEW u \in Tasks, BuildLoaders(u)
      PROVE  t \notin Elements(ready') /\ thread'["train"].task # t
    <2>1. u # t /\ ready' = Append(ready, u) /\ thread'["train"] = thread["train"]
        BY <1>6 DEF BuildLoaders, TypeOK
    <2> QED
        BY <1>1, <1>2, <2>1, AppendAdds DEF Ready
<1>7. CASE TrainTake
    <2>1. ready # <<>> /\ ready' = Tail(ready) /\ thread'["train"].task = Head(ready)
        BY <1>7 DEF TrainTake, TypeOK
    <2> QED
        BY <1>1, <1>2, <2>1, TailDrops DEF Ready
<1>8. ASSUME NEW th \in {"prep", "train"}, NEW u \in Tasks, CleanFile(th, u)
      PROVE  t \notin Elements(ready') /\ thread'["train"].task # t
    BY <1>1, <1>2, <1>8 DEF CleanFile, manager, Ready, TypeOK
<1> QED
    BY <1>2, <1>3, <1>4, <1>5, <1>6, <1>7, <1>8, StepKinds DEF Steps, Ready

-----------------------------------------------------------------------------
(* A task that can no longer train: cancelled, not handed over to the train  *)
(* thread, and not past the first check of the prepare thread.               *)
Doomed(t) ==
    /\ task[t].cancel /\ ~Trains(t)
    /\ thread["prep"].task = t => thread["prep"].pc \in {"check"} \cup Leaving

LEMMA DoomedPrep ==
    ASSUME TypeOK, PlacesSound, [Next]_vars, NEW t \in Tasks, Doomed(t), thread'["prep"].task = t
    PROVE  thread'["prep"].pc \in {"check"} \cup Leaving
<1>1. CASE PrepNext(t) /\ thread["prep"].task = t
    <2>1. task[t].cancel /\ thread["prep"].pc \in {"check"} \cup Leaving
        BY <1>1 DEF Doomed
    <2>2. ASSUME NEW from, NEW to, Moves("prep", t, from, to)
          PROVE  thread["prep"].pc = from /\ thread'["prep"].pc = to
        BY <2>2 DEF Moves, TypeOK, Places
    <2>3. CASE CleanNext("prep", t)
        BY <2>1, <2>2, <2>3, ConstantsAssumption DEF CleanNext, SetCancelled, CleanData, CleanTables,
           CleanFile, SetsStatus, Writes, Leaving, TypeOK
    <2>4. CASE PrepCancelledEarly(t)
        BY <2>2, <2>4 DEF PrepCancelledEarly, Reports, Leaving
    <2>5. CASE ~CleanNext("prep", t) /\ ~PrepCancelledEarly(t)
        BY <1>1, <2>1, <2>2, <2>5 DEF PrepNext, PrepAnnounce, PrepStart, WaitDataReady, WaitNotReady,
           WaitGivenUp, WaitDeadline, WaitAgain, WaitOver, PrepGiveUp, PrepCancelledWaiting,
           PrepCancelledReady, PrepProceed, LoadNothing, LoadRead, LoadUnlink, LoadExtend,
           BuildLoaders, BuildFails, PrepCrashStatus, PrepCrashReport, Goes, Reports, SetsStatus,
           Writes, Leaving
    <2> QED
        BY <2>3, <2>4, <2>5
<1> QED
    BY <1>1, PrepStays DEF Doomed

LEMMA DoomedStep ==
    ASSUME TypeOK, QueueSound, PlacesSound, [Next]_vars, NEW t \in Tasks, Doomed(t)
    PROVE  Doomed(t)'
<1>1. task'[t].cancel
    BY StepLasts DEF FlagsLast, Doomed
<1>2. thread'["prep"].task = t => thread'["prep"].pc \in {"check"} \cup Leaving
    BY DoomedPrep
<1>3. ~BuildLoaders(t)
    BY DEF BuildLoaders, Doomed, Leaving
<1>4. ~Trains(t)'
    BY <1>3, TrainsFrom DEF Doomed
<1> QED
    BY <1>1, <1>2, <1>4 DEF Doomed

(* A task that is cancelled while it is still queued never trains, however   *)
(* it is later found and whatever else comes in between: nothing takes the   *)
(* cancellation back, and the only way on leads past the check of it.        *)
THEOREM CancelledInTime == Spec => QueuedCancelNeverTrains
<1> SUFFICES ASSUME NEW t \in Tasks
             PROVE  Spec => [](t \in Range(queue) /\ task[t].cancel => [](thread["train"].task # t))
    BY DEF QueuedCancelNeverTrains
<1>1. QueueSound /\ PlacesSound /\ t \in Range(queue) /\ task[t].cancel => Doomed(t)
    BY DEF QueueSound, PlacesSound, Range, Queued, Waits, Doomed
<1>2. TypeOK /\ QueueSound /\ PlacesSound /\ Doomed(t) /\ [Next]_vars => Doomed(t)'
    BY DoomedStep
<1>3. Doomed(t) => thread["train"].task # t
    BY DEF Doomed, Trains
<1>4. Inv => QueueSound
    BY DEF Inv
<1> QED
    BY <1>1, <1>2, <1>3, <1>4, PlacesKept, PTL DEF Spec

-----------------------------------------------------------------------------
(* The end of the data of t is declared: past the wait of the prepare thread *)
(* it is, and whatever trains has loaders that are not empty.                *)
Declared(t) == task[t].dataReady \/ DataDeadline
PastWait == {"gotData", "load", "unlink", "extend", "build"}
DataSound == \A t \in Tasks :
    /\ thread["prep"].task = t /\ thread["prep"].pc \in PastWait => Declared(t)
    /\ Trains(t) => Declared(t) /\ loaded[t] # {}

LEMMA LoadedSteps ==
    ASSUME [Next]_vars
    PROVE  UNCHANGED loaded \/ \E t \in Tasks : BuildLoaders(t)
<1>1. ASSUME NEW c \in Calls, CallNext(c)
      PROVE  UNCHANGED loaded
    BY <1>1 DEF CallNext, SendNext, FinishNext, ErrorNext, CancelNext, GetTask, SendCheckStatus,
       SendDecodeError, SendRoute, SendToMemory, SendToFile, FinishSetReady, ErrorReport,
       ErrorReadStatus, ErrorSetStatus, ErrorAbort, ErrorClear, ErrorRemove, CancelCurrent,
       CancelSet, history
<1>2. ASSUME NEW t \in Tasks, SubmitNext(t) \/ TimerNext(t)
      PROVE  UNCHANGED loaded
    BY <1>2 DEF SubmitNext, SubmitRegister, SubmitEnqueue, SubmitReport, TimerNext, TimerFires,
       TimerFlags, TimerReports, TimerSetsStatus, TimerStep, history
<1>3. ASSUME NEW th, NEW t \in Tasks, CleanNext(th, t)
      PROVE  UNCHANGED loaded
    BY <1>3 DEF CleanNext, SetCancelled, CleanData, CleanTables, CleanFile, SetsStatus, Writes,
       history
<1>4. ASSUME NEW t \in Tasks, PrepNext(t), ~BuildLoaders(t)
      PROVE  UNCHANGED loaded
    BY <1>3, <1>4 DEF PrepNext, PrepCancelledEarly, PrepAnnounce, PrepStart, WaitDataReady,
       WaitNotReady, WaitGivenUp, WaitDeadline, WaitAgain, WaitOver, PrepGiveUp,
       PrepCancelledWaiting, PrepCancelledReady, PrepProceed, LoadNothing, LoadRead, LoadUnlink,
       LoadExtend, BuildFails, PrepCrashStatus, PrepCrashReport, Goes, Reports, SetsStatus, Writes,
       history
<1>5. ASSUME NEW t \in Tasks, TrainNext(t)
      PROVE  UNCHANGED loaded
    BY <1>3, <1>5 DEF TrainNext, TrainAnnounce, TrainStart, EpochBegins, EpochEnds, EpochsOver,
       ModelSaved, TrainInterrupted, TrainRaises, TrainTimedOut, TrainCancelled, TrainReportError,
       TrainSetError, TrainedCancelled, TrainedInTime, TrainMarkDone, TrainReportDone, Goes, Reports,
       SetsStatus, Writes, history
<1> QED
    BY <1>1, <1>2, <1>4, <1>5 DEF Next, CloseStop, CloseCancel, Idle, vars, PrepThread, PrepTake,
       PrepExit, TrainThread, TrainTake, TrainExit, Goes, history

LEMMA PastWaitFrom ==
    ASSUME TypeOK, PlacesSound, [Next]_vars, NEW t \in Tasks,
           thread'["prep"].task = t, thread'["prep"].pc \in PastWait
    PROVE  \/ thread["prep"].task = t /\ thread["prep"].pc \in PastWait
           \/ Declared(t)
<1>1. CASE PrepNext(t) /\ thread["prep"].task = t
    <2>1. ASSUME NEW from, NEW to, Moves("prep", t, from, to)
          PROVE  thread["prep"].pc = from /\ thread'["prep"].pc = to
        BY <2>1 DEF Moves, TypeOK, Places
    <2>2. CASE WaitDataReady(t) \/ WaitDeadline(t)
        BY <2>2 DEF WaitDataReady, WaitDeadline, Declared
    <2>3. CASE CleanNext("prep", t) \/ BuildLoaders(t)
        BY <2>1, <2>3, ConstantsAssumption DEF CleanNext, SetCancelled, CleanData, CleanTables,
           CleanFile, BuildLoaders, SetsStatus, Writes, PastWait, TypeOK
    <2>4. CASE PrepProceed(t) \/ LoadNothing(t) \/ LoadRead(t) \/ LoadUnlink(t) \/ LoadExtend(t)
        BY <1>1, <2>1, <2>4 DEF PrepProceed, LoadNothing, LoadRead, LoadUnlink, LoadExtend, Goes,
           PastWait
    <2> QED
        BY <1>1, <2>1, <2>2, <2>3, <2>4 DEF PrepNext, PrepCancelledEarly, PrepAnnounce, PrepStart,
           WaitNotReady, WaitGivenUp, WaitAgain, PrepGiveUp, PrepCancelledWaiting,
           PrepCancelledReady, BuildFails, PrepCrashStatus, PrepCrashReport, Goes, Reports,
           SetsStatus, Writes, PastWait
<1> QED
    BY <1>1, PrepStays DEF PastWait

LEMMA DataStep ==
    ASSUME TypeOK, PlacesSound, DataSound, [Next]_vars
    PROVE  DataSound'
<1>1. ASSUME NEW t \in Tasks, Declared(t)
      PROVE  Declared(t)'
    BY <1>1, StepLasts DEF FlagsLast, Declared
<1>2. ASSUME NEW t \in Tasks, thread'["prep"].task = t, thread'["prep"].pc \in PastWait
      PROVE  Declared(t)'
    BY <1>1, <1>2, PastWaitFrom DEF DataSound
<1>3. ASSUME NEW t \in Tasks, loaded[t] # {} \/ BuildLoaders(t)
      PROVE  loaded'[t] # {}
    BY <1>3, LoadedSteps DEF BuildLoaders, TypeOK
<1>4. ASSUME NEW t \in Tasks, BuildLoaders(t)
      PROVE  Declared(t)
    BY <1>4 DEF BuildLoaders, DataSound, PastWait
<1>5. ASSUME NEW t \in Tasks, Trains(t)'
      PROVE  Declared(t)' /\ loaded'[t] # {}
    BY <1>1, <1>3, <1>4, <1>5, TrainsFrom DEF DataSound
<1> QED
    BY <1>2, <1>5 DEF DataSound

(* Without a data-wait deadline nothing trains, or is handed over to the     *)
(* train thread, on data nobody declared complete, nor on no data at all.    *)
THEOREM CompleteDataOnly == Spec => []TrainsOnCompleteData
<1>1. Init => DataSound
    BY ConstantsAssumption DEF Init, DataSound, Trains, Ready, Elements, PastWait
<1>2. TypeOK /\ DataSound => TrainsOnCompleteData
    <2> SUFFICES ASSUME TypeOK, DataSound,
                        NEW t \in Range(ready) \cup ({thread["train"].task} \ {NoTask})
                 PROVE  (task[t].dataReady \/ DataDeadline) /\ loaded[t] # {}
        BY DEF TrainsOnCompleteData
    <2>1. t \in Tasks /\ Trains(t)
        BY DEF Range, TypeOK, Places, Trains, Ready, Elements
    <2> QED
        BY <2>1 DEF DataSound, Declared
<1> QED
    BY <1>1, <1>2, DataStep, PlacesKept, PTL DEF Spec

-----------------------------------------------------------------------------
(* The table of tasks: an entry is made by SubmitRegister and removed by     *)
(* CleanTables.  A task is expected in it from the one to the other; another *)
(* object of its id may have replaced its entry, and may have taken it along.*)
UniqueIds == \A t, u \in Tasks : IdOf[t] = IdOf[u] => t = u
Expected(t) ==
    \/ submit[t] = "registered" \/ t \in Queued
    \/ thread["prep"].task = t /\ thread["prep"].pc \in PrepPCs
Swept(u) == u \in left \/ \E th \in {"prep", "train"} : thread[th] = [pc |-> "sweep", task |-> u]
Replaced(t) == \E u \in Tasks \ {t} :
    IdOf[u] = IdOf[t] /\ submit[u] # "new" /\ (tasks[IdOf[t]] = u \/ Swept(u))
TableSound == \A t \in Tasks : Expected(t) => tasks[IdOf[t]] = t \/ Replaced(t)

LEMMA TableSteps ==
    ASSUME [Next]_vars
    PROVE  \/ UNCHANGED <<tasks, submit>>
           \/ \E t \in Tasks : SubmitNext(t)
           \/ \E th \in {"prep", "train"}, t \in Tasks : CleanTables(th, t)
<1>1. ASSUME NEW c \in Calls, CallNext(c)
      PROVE  UNCHANGED <<tasks, submit>>
    BY <1>1 DEF CallNext, SendNext, FinishNext, ErrorNext, CancelNext, GetTask, SendCheckStatus,
       SendDecodeError, SendRoute, SendToMemory, SendToFile, FinishSetReady, ErrorReport,
       ErrorReadStatus, ErrorSetStatus, ErrorAbort, ErrorClear, ErrorRemove, CancelCurrent,
       CancelSet, manager
<1>2. ASSUME NEW t \in Tasks, TimerNext(t)
      PROVE  UNCHANGED <<tasks, submit>>
    BY <1>2 DEF TimerNext, TimerFires, TimerFlags, TimerReports, TimerSetsStatus, TimerStep, manager,
       clients
<1>3. ASSUME NEW th, NEW t \in Tasks, CleanNext(th, t), ~CleanTables(th, t)
      PROVE  UNCHANGED <<tasks, submit>>
    BY <1>3 DEF CleanNext, SetCancelled, CleanData, CleanFile, SetsStatus, Writes, manager, clients
<1>4. ASSUME NEW t \in Tasks, PrepNext(t), ~CleanTables("prep", t)
      PROVE  UNCHANGED <<tasks, submit>>
    BY <1>3, <1>4 DEF PrepNext, PrepCancelledEarly, PrepAnnounce, PrepStart, WaitDataReady,
       WaitNotReady, WaitGivenUp, WaitDeadline, WaitAgain, WaitOver, PrepGiveUp,
       PrepCancelledWaiting, PrepCancelledReady, PrepProceed, LoadNothing, LoadRead, LoadUnlink,
       LoadExtend, BuildLoaders, BuildFails, PrepCrashStatus, PrepCrashReport, Goes, Reports,
       SetsStatus, Writes, manager, clients
<1>5. ASSUME NEW t \in Tasks, TrainNext(t), ~CleanTables("train", t)
      PROVE  UNCHANGED <<tasks, submit>>
    BY <1>3, <1>5 DEF TrainNext, TrainAnnounce, TrainStart, EpochBegins, EpochEnds, EpochsOver,
       ModelSaved, TrainInterrupted, TrainRaises, TrainTimedOut, TrainCancelled, TrainReportError,
       TrainSetError, TrainedCancelled, TrainedInTime, TrainMarkDone, TrainReportDone, Goes, Reports,
       SetsStatus, Writes, manager, clients
<1> QED
    BY <1>1, <1>2, <1>4, <1>5 DEF Next, CloseStop, CloseCancel, Idle, vars, PrepThread, PrepTake,
       PrepExit, TrainThread, TrainTake, TrainExit, Goes, manager, clients

LEMMA SubmitLasts ==
    ASSUME TypeOK, [Next]_vars, NEW t \in Tasks, submit[t] # "new"
    PROVE  submit'[t] # "new"
<1>1. CASE \E th \in {"prep", "train"}, u \in Tasks : CleanTables(th, u)
    BY <1>1 DEF CleanTables, clients
<1>2. CASE \E u \in Tasks : SubmitNext(u)
    BY <1>2 DEF SubmitNext, SubmitRegister, SubmitEnqueue, SubmitReport, TypeOK
<1> QED
    BY <1>1, <1>2, TableSteps

LEMMA QueuedFrom ==
    ASSUME TypeOK, QueueSound, [Next]_vars, NEW t \in Tasks, t \in Queued'
    PROVE  t \in Queued \/ SubmitEnqueue(t)
<1>1. /\ queue \in Seq(Tasks) /\ Distinct(queue)
      /\ Queued = Elements(queue) /\ Queued' = Elements(queue')
    BY DEF TypeOK, QueueSound, Queued, Distinct, Elements
<1>2. ASSUME NEW u \in Tasks, SubmitEnqueue(u)
      PROVE  t \in Queued \/ t = u
    BY <1>1, <1>2, AppendAdds DEF SubmitEnqueue
<1>3. CASE PrepTake
    BY <1>1, <1>3, TailDrops DEF PrepTake
<1>4. CASE UNCHANGED queue
    BY <1>1, <1>4
<1> QED
    BY <1>2, <1>3, <1>4, StepKinds DEF Steps, Rests, BuildLoaders, TrainTake, CleanFile, manager

LEMMA PrepPCsFrom ==
    ASSUME TypeOK, PlacesSound, [Next]_vars, NEW t \in Tasks,
           thread'["prep"].task = t, thread'["prep"].pc \in PrepPCs
    PROVE  (thread["prep"].task = t /\ thread["prep"].pc \in PrepPCs) \/ PrepTake
<1>1. CASE PrepNext(t) /\ thread["prep"].task = t
    <2>1. ASSUME NEW from, NEW to, Moves("prep", t, from, to)
          PROVE  thread["prep"].pc = from /\ thread'["prep"].pc = to
        BY <2>1 DEF Moves, TypeOK, Places
    <2>2. CASE CleanNext("prep", t) \/ BuildLoaders(t)
        BY <2>1, <2>2, ConstantsAssumption DEF CleanNext, SetCancelled, CleanData, CleanTables,
           CleanFile, BuildLoaders, SetsStatus, Writes, PrepPCs, TypeOK
    <2>3. CASE ~CleanNext("prep", t) /\ ~BuildLoaders(t)
        BY <1>1, <2>1, <2>3 DEF PrepNext, PrepCancelledEarly, PrepAnnounce, PrepStart, WaitDataReady,
           WaitNotReady, WaitGivenUp, WaitDeadline, WaitAgain, WaitOver, PrepGiveUp,
           PrepCancelledWaiting, PrepCancelledReady, PrepProceed, LoadNothing, LoadRead, LoadUnlink,
           LoadExtend, BuildFails, PrepCrashStatus, PrepCrashReport, Goes, Reports, SetsStatus,
           Writes, PrepPCs
    <2> QED
        BY <2>2, <2>3
<1> QED
    BY <1>1, PrepStays

LEMMA ExpectedFrom ==
    ASSUME TypeOK, QueueSound, PlacesSound, [Next]_vars, NEW t \in Tasks, Expected(t)'
    PROVE  Expected(t) \/ SubmitRegister(t)
<1>1. CASE submit'[t] = "registered"
    BY <1>1, TableSteps DEF SubmitNext, SubmitRegister, SubmitEnqueue, SubmitReport, CleanTables,
       clients, Expected, TypeOK
<1>2. CASE t \in Queued'
    BY <1>2, QueuedFrom DEF SubmitEnqueue, Expected
<1>3. CASE thread'["prep"].task = t /\ thread'["prep"].pc \in PrepPCs
    <2>1. PrepTake => t \in Queued
        <3>1. queue \in Seq(Tasks) /\ Distinct(queue) /\ Queued = Elements(queue)
            BY DEF TypeOK, QueueSound, Queued, Distinct, Elements
        <3>2. PrepTake => queue # <<>> /\ t = Head(queue)
            BY <1>3 DEF PrepTake, TypeOK
        <3> QED
            BY <3>1, <3>2, TailDrops
    <2> QED
        BY <1>3, <2>1, PrepPCsFrom DEF Expected
<1> QED
    BY <1>1, <1>2, <1>3 DEF Expected

(* A thread at its last place with a task stays there until it has left.     *)
LEMMA SweptLasts ==
    ASSUME TypeOK, PlacesSound, [Next]_vars, NEW u \in Tasks, Swept(u)
    PROVE  Swept(u)'
<1>1. left \subseteq left'
    BY StepKinds DEF Steps, Rests, SubmitEnqueue, PrepTake, BuildLoaders, TrainTake, CleanFile,
       history
<1>2. ASSUME NEW th \in {"prep", "train"}, thread[th] = [pc |-> "sweep", task |-> u],
             NEW t, NEW from, NEW to, Moves(th, t, from, to), from # "sweep"
      PROVE  FALSE
    BY <1>2 DEF Moves
<1>3. ASSUME thread["prep"] = [pc |-> "sweep", task |-> u], thread'["prep"] # thread["prep"]
      PROVE  Swept(u)'
    <2>1. ~PrepTake
        BY <1>3 DEF PrepTake
    <2>2. ASSUME NEW t \in Tasks, PrepNext(t)
          PROVE  CleanFile("prep", t) /\ t = u
        BY <1>2, <1>3, <2>2 DEF PrepNext, PrepCancelledEarly, PrepAnnounce, PrepStart, WaitDataReady,
           WaitNotReady, WaitGivenUp, WaitDeadline, WaitAgain, WaitOver, PrepGiveUp,
           PrepCancelledWaiting, PrepCancelledReady, PrepProceed, LoadNothing, LoadRead, LoadUnlink,
           LoadExtend, BuildLoaders, BuildFails, PrepCrashStatus, PrepCrashReport, CleanNext,
           SetCancelled, CleanData, CleanTables, CleanFile, Goes, Reports, SetsStatus, Writes
    <2>3. CASE PrepExit
        BY <1>2, <1>3, <2>3 DEF PrepExit, Goes
    <2>4. CASE PrepThread
        BY <2>1, <2>2, <2>3, <2>4 DEF PrepThread, CleanFile, Swept
    <2>5. CASE ~PrepThread
        BY <1>3, <2>5, PrepElsewhere
    <2> QED
        BY <2>4, <2>5
<1>4. ASSUME thread["train"] = [pc |-> "sweep", task |-> u], thread'["train"] # thread["train"]
      PROVE  Swept(u)'
    <2>1. ~TrainTake
        BY <1>4 DEF TrainTake
    <2>2. ASSUME NEW t \in Tasks, TrainNext(t)
          PROVE  CleanFile("train", t) /\ t = u
        BY <1>2, <1>4, <2>2 DEF TrainNext, TrainAnnounce, TrainStart, EpochBegins, EpochEnds,
           EpochsOver, ModelSaved, TrainInterrupted, TrainRaises, TrainTimedOut, TrainCancelled,
           TrainReportError, TrainSetError, TrainedCancelled, TrainedInTime, TrainMarkDone,
           TrainReportDone, CleanNext, SetCancelled, CleanData, CleanTables, CleanFile, Goes,
           Reports, SetsStatus, Writes
    <2>3. CASE TrainExit
        BY <1>2, <1>4, <2>3 DEF TrainExit, Goes
    <2>4. CASE TrainThread
        BY <2>1, <2>2, <2>3, <2>4 DEF TrainThread, CleanFile, Swept
    <2>5. CASE ~TrainThread
        BY <1>4, <2>5, TrainElsewhere
    <2> QED
        BY <2>4, <2>5
<1> QED
    BY <1>1, <1>3, <1>4 DEF Swept

LEMMA TableStep ==
    ASSUME TypeOK, QueueSound, PlacesSound, TableSound, [Next]_vars
    PROVE  TableSound'
<1> SUFFICES ASSUME NEW t \in Tasks, Expected(t)'
             PROVE  tasks'[IdOf[t]] = t \/ Replaced(t)'
    BY DEF TableSound
<1>0. IdOf[t] \in Ids
    BY ConstantsAssumption
<1>1. Expected(t) \/ SubmitRegister(t)
    BY ExpectedFrom
<1>2. CASE SubmitRegister(t)
    BY <1>0, <1>2 DEF SubmitRegister, TypeOK
<1>3. ASSUME NEW u \in Tasks \ {t}, IdOf[u] = IdOf[t], submit'[u] # "new",
             tasks'[IdOf[t]] = u \/ Swept(u)'
      PROVE  Replaced(t)'
    BY <1>3 DEF Replaced
<1>4. ASSUME NEW u \in Tasks \ {t}, IdOf[u] = IdOf[t], submit[u] # "new", Swept(u)
      PROVE  Replaced(t)'
    BY <1>3, <1>4, SweptLasts, SubmitLasts
<1>5. CASE Expected(t) /\ tasks'[IdOf[t]] = tasks[IdOf[t]]
    <2>1. CASE tasks[IdOf[t]] = t
        BY <1>5, <2>1
    <2>2. CASE Replaced(t)
        <3>1. PICK u \in Tasks \ {t} : /\ IdOf[u] = IdOf[t] /\ submit[u] # "new"
                                       /\ tasks[IdOf[t]] = u \/ Swept(u)
            BY <2>2 DEF Replaced
        <3> QED
            BY <1>3, <1>4, <1>5, <3>1, SubmitLasts
    <2> QED
        BY <1>5, <2>1, <2>2 DEF TableSound
<1>6. ASSUME NEW u \in Tasks, SubmitNext(u), u # t
      PROVE  tasks'[IdOf[t]] = tasks[IdOf[t]] \/ Replaced(t)'
    <2>1. CASE SubmitRegister(u) /\ IdOf[u] = IdOf[t]
        BY <1>0, <1>3, <1>6, <2>1 DEF SubmitRegister, TypeOK
    <2>2. CASE SubmitRegister(u) /\ IdOf[u] # IdOf[t]
        BY <1>0, <2>2 DEF SubmitRegister, TypeOK
    <2> QED
        BY <1>6, <2>1, <2>2 DEF SubmitNext, SubmitEnqueue, SubmitReport, manager
<1>7. SubmitEnqueue(t) \/ SubmitReport(t) => tasks'[IdOf[t]] = tasks[IdOf[t]]
    BY DEF SubmitEnqueue, SubmitReport, manager
<1>8. ASSUME Expected(t), NEW th \in {"prep", "train"}, NEW u \in Tasks, CleanTables(th, u)
      PROVE  tasks'[IdOf[t]] = tasks[IdOf[t]] \/ Replaced(t)'
    <2>1. /\ thread[th] = [pc |-> "unregister", task |-> u]
          /\ thread' = [thread EXCEPT ![th].pc = "sweep"]
          /\ tasks' = [tasks EXCEPT ![IdOf[u]] = NoTask] /\ UNCHANGED submit
        BY <1>8 DEF CleanTables, Moves, clients
    <2>2. t # u
        BY <1>8, <2>1 DEF Expected, PlacesSound, Waits, Trains, Early, PrepPCs, QueueSound
    <2>3. submit[u] # "new"
        BY <2>1 DEF PlacesSound, Waits, Trains, Early
    <2>4. thread'[th] = [pc |-> "sweep", task |-> u]
        BY <2>1 DEF TypeOK, Places
    <2>5. CASE IdOf[u] = IdOf[t]
        BY <1>3, <2>1, <2>2, <2>3, <2>4, <2>5 DEF Swept
    <2>6. CASE IdOf[u] # IdOf[t]
        BY <1>0, <2>1, <2>6 DEF TypeOK
    <2> QED
        BY <2>5, <2>6
<1> QED
    BY <1>1, <1>2, <1>5, <1>6, <1>7, <1>8, TableSteps DEF SubmitNext

(* Finish and ReportError find a task under its id as long as it waits for   *)
(* its data, unless another task that was submitted under its id has the     *)
(* entry, or has removed it: whatever ids the tasks have.                    *)
THEOREM FoundWhileWaiting == Spec => []WaitingTaskReachable
<1>1. Init => TableSound
    BY ConstantsAssumption DEF Init, TableSound, Expected, Queued
<1>2. TypeOK /\ QueueSound /\ PlacesSound /\ TableSound /\ [Next]_vars => TableSound'
    BY TableStep
<1>3. TableSound => WaitingTaskReachable
    <2> SUFFICES ASSUME TableSound, NEW t \in Tasks, Waiting(t), tasks[IdOf[t]] # t
                 PROVE  Replaced(t)
        BY DEF WaitingTaskReachable, Replaced, Swept
    <2>1. Expected(t)
        <3>1. t \in Range(queue) => t \in Queued
            BY DEF Range, Queued
        <3>2. thread["prep"] \in [pc : PrepPCs, task : {t}]
                => thread["prep"].pc \in PrepPCs /\ thread["prep"].task = t
            OBVIOUS
        <3> QED
            BY <3>1, <3>2 DEF Waiting, Expected
    <2> QED
        BY <2>1 DEF TableSound
<1>4. Inv => QueueSound
    BY DEF Inv
<1> QED
    BY <1>1, <1>2, <1>3, <1>4, PlacesKept, PTL DEF Spec

-----------------------------------------------------------------------------
(* What a step may do to the object of a task: only the two threads, when    *)
(* they start on it, write a status that is not final; no timer that has     *)
(* fired or has reported is taken back; only ReportError aborts; only Finish *)
(* or a shutdown, which cancels as well, says that the data are complete;    *)
(* and the buffer loses data only to ReportError and to the clean-up.        *)
Unfired == {"off", "armed"}
Past    == {"reported", "done"}
Starting(t) == \/ thread["prep"] = [pc |-> "announced", task |-> t]
               \/ thread["train"] = [pc |-> "start", task |-> t]
Aborting(t) == \E c \in ErrorCalls : call[c].task = t /\ call[c].pc # "new"
Finishing(t) == \E c \in FinishCalls : call[c].task = t /\ call[c].pc = "found"
Cleaning(t) == \E th \in {"prep", "train"} : thread[th] = [pc |-> "clean", task |-> t]
ObjectKept == \A t \in Tasks :
    /\ task'[t].status \in {task[t].status} \cup Terminal \/ Starting(t)
    /\ \/ task'[t].timer \in Unfired => task[t].timer \in Unfired
       \/ thread["prep"] = [pc |-> "announced", task |-> t]
    /\ \/ task[t].timer \in Past => task'[t].timer \in Past
       \/ thread["prep"] = [pc |-> "announced", task |-> t]
    /\ task'[t].abort => task[t].abort \/ Aborting(t)
    /\ task'[t].dataReady => task[t].dataReady \/ task'[t].cancel \/ Finishing(t)
    /\ task[t].buffer \subseteq task'[t].buffer \/ Aborting(t) \/ Cleaning(t)

LEMMA StatusKept ==
    ASSUME TypeOK, NEW th, NEW t \in Tasks, NEW from, NEW status \in Terminal, NEW to,
           SetsStatus(th, t, from, status, to)
    PROVE  ObjectKept
BY DEF SetsStatus, Writes, ObjectKept, TypeOK, TaskObjects

LEMMA SameKept ==
    ASSUME UNCHANGED task
    PROVE  ObjectKept
BY DEF ObjectKept

LEMMA CallKept ==
    ASSUME TypeOK, NEW c \in Calls, CallNext(c)
    PROVE  ObjectKept
<1>1. CASE UNCHANGED task
    BY <1>1, SameKept
<1>2. CASE SendDecodeError(c)
    BY <1>2 DEF SendDecodeError, ObjectKept, Terminal, TypeOK, TaskObjects
<1>3. CASE ErrorSetStatus(c)
    BY <1>3 DEF ErrorSetStatus, ObjectKept, Terminal, TypeOK, TaskObjects
<1>4. CASE SendToMemory(c)
    BY <1>4 DEF SendToMemory, ObjectKept, TypeOK, TaskObjects
<1>5. CASE ErrorClear(c) /\ c \in ErrorCalls
    <2>1. call[c].pc # "new"
        BY <1>5 DEF ErrorClear, Answers
    <2>2. \A t \in Tasks : t # call[c].task => task'[t] = task[t]
        BY <1>5 DEF ErrorClear, TypeOK
    <2>3. \A t \in Tasks :
            /\ task'[t].status = task[t].status /\ task'[t].timer = task[t].timer
            /\ task'[t].abort = task[t].abort /\ task'[t].dataReady = task[t].dataReady
        BY <1>5 DEF ErrorClear, TypeOK, TaskObjects
    <2> QED
        BY <1>5, <2>1, <2>2, <2>3 DEF ObjectKept, Aborting
<1>6. CASE FinishSetReady(c) /\ c \in FinishCalls
    <2>1. call[c].pc = "found"
        BY <1>6 DEF FinishSetReady, Answers
    <2>2. \A t \in Tasks : t # call[c].task => task'[t] = task[t]
        BY <1>6 DEF FinishSetReady, TypeOK
    <2>3. \A t \in Tasks :
            /\ task'[t].status = task[t].status /\ task'[t].timer = task[t].timer
            /\ task'[t].abort = task[t].abort /\ task'[t].buffer = task[t].buffer
        BY <1>6 DEF FinishSetReady, TypeOK, TaskObjects
    <2> QED
        BY <1>6, <2>1, <2>2, <2>3 DEF ObjectKept, Finishing
<1>7. CASE ErrorAbort(c) /\ c \in ErrorCalls
    <2>1. call[c].pc # "new"
        BY <1>7 DEF ErrorAbort, Answers
    <2>2. \A t \in Tasks : t # call[c].task => task'[t] = task[t]
        BY <1>7 DEF ErrorAbort, TypeOK
    <2>3. \A t \in Tasks :
            /\ task'[t].status = task[t].status /\ task'[t].timer = task[t].timer
            /\ task'[t].dataReady = task[t].dataReady /\ task'[t].buffer = task[t].buffer
        BY <1>7 DEF ErrorAbort, TypeOK, TaskObjects
    <2> QED
        BY <1>7, <2>1, <2>2, <2>3 DEF ObjectKept, Aborting
<1>8. CASE CancelSet(c)
    BY <1>8 DEF CancelSet, ObjectKept, TypeOK, TaskObjects
<1> QED
    BY <1>1, <1>2, <1>3, <1>4, <1>5, <1>6, <1>7, <1>8 DEF CallNext, SendNext, FinishNext, ErrorNext,
       CancelNext, GetTask, SendCheckStatus, SendRoute, SendToFile, ErrorReport, ErrorReadStatus,
       ErrorRemove, CancelCurrent

LEMMA CleanKept ==
    ASSUME TypeOK, NEW th \in {"prep", "train"}, NEW t \in Tasks, CleanNext(th, t)
    PROVE  ObjectKept
<1>1. CASE SetCancelled(th, t)
    BY <1>1, StatusKept DEF SetCancelled, Terminal
<1>2. CASE CleanData(th, t)
    <2>1. Cleaning(t) /\ \A u \in Tasks : u # t => task'[u] = task[u]
        BY <1>2 DEF CleanData, Writes, Moves, Cleaning, TypeOK
    <2>2. /\ task'[t].status = task[t].status /\ task'[t].abort = task[t].abort
          /\ task'[t].dataReady = task[t].dataReady
          /\ task'[t].timer = TimerCancelled(task[t].timer)
        BY <1>2 DEF CleanData, Writes, TypeOK, TaskObjects
    <2> QED
        BY <2>1, <2>2 DEF TimerCancelled, Unfired, Past, ObjectKept, TypeOK, TaskObjects
<1> QED
    BY <1>1, <1>2, SameKept DEF CleanNext, CleanTables, CleanFile

LEMMA PrepKept ==
    ASSUME TypeOK, NEW t \in Tasks, PrepNext(t)
    PROVE  ObjectKept
<1>1. CASE UNCHANGED task
    BY <1>1, SameKept
<1>2. CASE PrepStart(t)
    BY <1>2 DEF PrepStart, Writes, Moves, Starting, ObjectKept, TypeOK, TaskObjects
<1>3. CASE WaitDataReady(t) \/ WaitDeadline(t)
    <2>1. PICK from : WaitOver(t, from)
        BY <1>3 DEF WaitDataReady, WaitDeadline
    <2> QED
        BY <2>1 DEF WaitOver, Writes, TimerCancelled, Unfired, Past, ObjectKept, TypeOK, TaskObjects
<1>4. CASE PrepCrashStatus(t)
    BY <1>4, StatusKept DEF PrepCrashStatus, Terminal
<1>5. CASE LoadExtend(t)
    BY <1>5 DEF LoadExtend, ObjectKept, TypeOK, TaskObjects
<1> QED
    BY <1>1, <1>2, <1>3, <1>4, <1>5, CleanKept DEF PrepNext, PrepCancelledEarly, PrepAnnounce,
       WaitNotReady, WaitGivenUp, WaitAgain, PrepGiveUp, PrepCancelledWaiting, PrepCancelledReady,
       PrepProceed, LoadNothing, LoadRead, LoadUnlink, BuildLoaders, BuildFails, PrepCrashReport,
       Goes, Reports

LEMMA TrainKept ==
    ASSUME TypeOK, NEW t \in Tasks, TrainNext(t)
    PROVE  ObjectKept
<1>1. CASE UNCHANGED task
    BY <1>1, SameKept
<1>2. CASE TrainStart(t)
    BY <1>2 DEF TrainStart, SetsStatus, Writes, Moves, Starting, ObjectKept, TypeOK, TaskObjects
<1>3. CASE TrainSetError(t) \/ TrainMarkDone(t)
    BY <1>3, StatusKept DEF TrainSetError, TrainMarkDone, Terminal
<1>4. CASE EpochEnds(t)
    BY <1>4 DEF EpochEnds, Writes, ObjectKept, TypeOK, TaskObjects
<1> QED
    BY <1>1, <1>2, <1>3, <1>4, CleanKept DEF TrainNext, TrainAnnounce, EpochBegins, EpochsOver,
       ModelSaved, TrainInterrupted, TrainRaises, TrainTimedOut, TrainCancelled, TrainReportError,
       TrainedCancelled, TrainedInTime, TrainReportDone, Goes, Reports

LEMMA StepKept == TypeOK /\ [Next]_vars => ObjectKept
<1> SUFFICES ASSUME TypeOK, [Next]_vars PROVE ObjectKept
    OBVIOUS
<1>1. CASE UNCHANGED task
    BY <1>1, SameKept
<1>2. CASE CloseCancel
    BY <1>2 DEF CloseCancel, ObjectKept, TypeOK, TaskObjects
<1>3. ASSUME NEW t \in Tasks, SubmitNext(t) \/ TimerNext(t)
      PROVE  ObjectKept
    <2>1. CASE TimerFires(t)
        BY <2>1 DEF TimerFires, TimerStep, Unfired, Past, ObjectKept, TypeOK, TaskObjects
    <2>2. CASE TimerFlags(t)
        BY <2>2 DEF TimerFlags, TimerStep, Unfired, Past, ObjectKept, TypeOK, TaskObjects
    <2>3. CASE TimerReports(t)
        BY <2>3 DEF TimerReports, TimerStep, Unfired, Past, ObjectKept, TypeOK, TaskObjects
    <2>4. CASE TimerSetsStatus(t)
        BY <2>4 DEF TimerSetsStatus, TimerStep, Unfired, Past, Terminal, ObjectKept, TypeOK,
           TaskObjects
    <2> QED
        BY <1>1, <1>3, <2>1, <2>2, <2>3, <2>4 DEF SubmitNext, SubmitRegister, SubmitEnqueue,
           SubmitReport, TimerNext
<1>4. CASE PrepThread
    BY <1>1, <1>4, PrepKept DEF PrepThread, PrepTake, PrepExit, Goes
<1>5. CASE TrainThread
    BY <1>1, <1>5, TrainKept DEF TrainThread, TrainTake, TrainExit, Goes
<1> QED
    BY <1>1, <1>2, <1>3, <1>4, <1>5, CallKept DEF Next, CloseStop, Idle, vars

(* A ReportError call keeps to the task it has found, and a task is aborted  *)
(* only if one has found it.                                                 *)
CallSound ==
    /\ \A c \in ErrorCalls : call[c].pc = "new" => call[c].task = NoTask
    /\ \A t \in Tasks : task[t].abort => Aborting(t)

LEMMA CallsElsewhere ==
    ASSUME [Next]_vars, ~\E c \in Calls : CallNext(c)
    PROVE  UNCHANGED call
<1>1. ASSUME NEW t \in Tasks, SubmitNext(t) \/ TimerNext(t)
      PROVE  UNCHANGED call
    BY <1>1 DEF SubmitNext, SubmitRegister, SubmitEnqueue, SubmitReport, TimerNext, TimerFires,
       TimerFlags, TimerReports, TimerSetsStatus, TimerStep, clients
<1>2. ASSUME NEW th, NEW t \in Tasks, CleanNext(th, t)
      PROVE  UNCHANGED call
    BY <1>2 DEF CleanNext, SetCancelled, CleanData, CleanTables, CleanFile, SetsStatus, Writes,
       clients
<1>3. ASSUME NEW t \in Tasks, PrepNext(t)
      PROVE  UNCHANGED call
    BY <1>2, <1>3 DEF PrepNext, PrepCancelledEarly, PrepAnnounce, PrepStart, WaitDataReady,
       WaitNotReady, WaitGivenUp, WaitDeadline, WaitAgain, WaitOver, PrepGiveUp,
       PrepCancelledWaiting, PrepCancelledReady, PrepProceed, LoadNothing, LoadRead, LoadUnlink,
       LoadExtend, BuildLoaders, BuildFails, PrepCrashStatus, PrepCrashReport, Goes, Reports,
       SetsStatus, Writes, clients
<1>4. ASSUME NEW t \in Tasks, TrainNext(t)
      PROVE  UNCHANGED call
    BY <1>2, <1>4 DEF TrainNext, TrainAnnounce, TrainStart, EpochBegins, EpochEnds, EpochsOver,
       ModelSaved, TrainInterrupted, TrainRaises, TrainTimedOut, TrainCancelled, TrainReportError,
       TrainSetError, TrainedCancelled, TrainedInTime, TrainMarkDone, TrainReportDone, Goes, Reports,
       SetsStatus, Writes, clients
<1> QED
    BY <1>1, <1>3, <1>4 DEF Next, CloseStop, CloseCancel, Idle, vars, PrepThread, PrepTake,
       PrepExit, TrainThread, TrainTake, TrainExit, Goes, clients

(* A call is at its place until its own handler moves it.                    *)
LEMMA CallPath ==
    ASSUME TypeOK, [Next]_vars, NEW c \in Calls
    PROVE  call'[c] = call[c] \/ CallNext(c)
<1>1. ASSUME NEW d \in Calls, CallNext(d), d # c
      PROVE  call'[c] = call[c]
    <2>1. ASSUME NEW from, NEW to, Answers(d, from, to)
          PROVE  call'[c] = call[c]
        BY <1>1, <2>1 DEF Answers, TypeOK
    <2>2. CASE GetTask(d) \/ SendRoute(d) \/ ErrorReadStatus(d) \/ CancelCurrent(d)
        BY <1>1, <2>2 DEF GetTask, SendRoute, ErrorReadStatus, CancelCurrent, TypeOK
    <2> QED
        BY <1>1, <2>1, <2>2 DEF CallNext, SendNext, FinishNext, ErrorNext, CancelNext,
           SendCheckStatus, SendDecodeError, SendToMemory, SendToFile, FinishSetReady, ErrorReport,
           ErrorSetStatus, ErrorAbort, ErrorClear, ErrorRemove, CancelSet
<1> QED
    BY <1>1, CallsElsewhere

LEMMA ErrorCallsLast ==
    ASSUME TypeOK, [Next]_vars, NEW c \in ErrorCalls
    PROVE  /\ call[c].pc # "new" => call'[c].pc # "new" /\ call'[c].task = call[c].task
           /\ call'[c].pc = "new" => call'[c] = call[c]
<1>1. c \in Calls /\ c \notin SendCalls \cup FinishCalls \cup CancelCalls
    BY ConstantsAssumption DEF Calls
<1>2. ASSUME NEW from, NEW to, Answers(c, from, to)
      PROVE  call[c].pc = from /\ call'[c].pc = to /\ call'[c].task = call[c].task
    BY <1>1, <1>2 DEF Answers, TypeOK, CallStates
<1>3. CASE GetTask(c)
    BY <1>1, <1>3 DEF GetTask, TypeOK, CallStates
<1>4. CASE ErrorReadStatus(c)
    BY <1>1, <1>4 DEF ErrorReadStatus, TypeOK, CallStates
<1>5. CASE \/ ErrorReport(c) \/ ErrorSetStatus(c) \/ ErrorAbort(c) \/ ErrorClear(c)
           \/ ErrorRemove(c)
    BY <1>2, <1>5 DEF ErrorReport, ErrorSetStatus, ErrorAbort, ErrorClear, ErrorRemove
<1> QED
    BY <1>1, <1>3, <1>4, <1>5, CallPath DEF CallNext, ErrorNext

LEMMA CallSoundStep ==
    ASSUME TypeOK, CallSound, [Next]_vars
    PROVE  CallSound'
<1>1. ASSUME NEW c \in ErrorCalls, call'[c].pc = "new"
      PROVE  call'[c].task = NoTask
    BY <1>1, ErrorCallsLast DEF CallSound
<1>2. ASSUME NEW t \in Tasks, task'[t].abort
      PROVE  Aborting(t)'
    <2>1. Aborting(t)
        BY <1>2, StepKept DEF ObjectKept, CallSound
    <2>2. PICK c \in ErrorCalls : call[c].task = t /\ call[c].pc # "new"
        BY <2>1 DEF Aborting
    <2> QED
        BY <2>2, ErrorCallsLast DEF Aborting
<1> QED
    BY <1>1, <1>2 DEF CallSound

-----------------------------------------------------------------------------
(* Neither its timer nor a ReportError call has touched t.                   *)
Unhurt(t) == task[t].timer \in Unfired /\ \A c \in ErrorCalls : call[c].task # t
Late == {"crashReport", "reportDone", "clean", "unregister", "sweep"}
IsLate(t) == \E th \in {"prep", "train"} : thread[th].task = t /\ thread[th].pc \in Late
FinalSound == \A t \in Tasks :
    Unhurt(t) /\ (t \in left \/ IsLate(t)) => task[t].status \in Terminal

LEMMA UnhurtFrom ==
    ASSUME TypeOK, QueueSound, CallSound, [Next]_vars, NEW t \in Tasks, Unhurt(t)'
    PROVE  Unhurt(t)
<1>1. task[t].timer \in Unfired
    <2>1. thread["prep"] = [pc |-> "announced", task |-> t] => task[t].timer = "off"
        BY DEF QueueSound
    <2>2. ObjectKept /\ task'[t].timer \in Unfired
        BY StepKept DEF Unhurt
    <2> QED
        BY <2>1, <2>2 DEF ObjectKept, Unfired
<1>2. ASSUME NEW c \in ErrorCalls
      PROVE  call[c].task # t
    BY ErrorCallsLast, ConstantsAssumption DEF CallSound, Unhurt
<1> QED
    BY <1>1, <1>2 DEF Unhurt

(* What the two threads do to come to the late places: they have written a   *)
(* final status, or rely on a time limit or a ReportError call.              *)
LEMMA PrepLate ==
    ASSUME TypeOK, PlacesSound, [Next]_vars, NEW t \in Tasks,
           thread'["prep"].task = t, thread'["prep"].pc \in Late
    PROVE  \/ thread["prep"].task = t /\ thread["prep"].pc \in Late
           \/ task'[t].status \in Terminal
           \/ task[t].timeout \/ task[t].abort
<1>1. CASE PrepNext(t) /\ thread["prep"].task = t
    <2>1. ASSUME NEW from, NEW to, Moves("prep", t, from, to)
          PROVE  thread["prep"].pc = from /\ thread'["prep"].pc = to
        BY <2>1 DEF Moves, TypeOK, Places
    <2>2. CASE SetCancelled("prep", t) \/ PrepCrashStatus(t)
        BY <2>2 DEF SetCancelled, PrepCrashStatus, SetsStatus, Writes, Terminal, TypeOK, TaskObjects
    <2>3. CASE PrepGiveUp(t)
        BY <2>3 DEF PrepGiveUp
    <2>4. CASE BuildLoaders(t) \/ CleanFile("prep", t)
        BY <2>4, ConstantsAssumption DEF BuildLoaders, CleanFile, TypeOK
    <2>5. CASE CleanData("prep", t) \/ CleanTables("prep", t) \/ PrepCrashReport(t)
        BY <1>1, <2>1, <2>5 DEF CleanData, CleanTables, PrepCrashReport, Writes, Reports, Late
    <2> QED
        BY <1>1, <2>1, <2>2, <2>3, <2>4, <2>5 DEF PrepNext, CleanNext, PrepCancelledEarly,
           PrepAnnounce, PrepStart, WaitDataReady, WaitNotReady, WaitGivenUp, WaitDeadline, WaitAgain,
           WaitOver, PrepCancelledWaiting, PrepCancelledReady, PrepProceed, LoadNothing, LoadRead,
           LoadUnlink, LoadExtend, BuildFails, Goes, Reports, SetsStatus, Writes, Late
<1> QED
    BY <1>1, PrepStays DEF Late

LEMMA TrainPath ==
    ASSUME TypeOK, PlacesSound, [Next]_vars, thread'["train"] # thread["train"]
    PROVE  \/ TrainTake
           \/ \E t \in Tasks : TrainNext(t)
           \/ thread'["train"] = [pc |-> "exited", task |-> NoTask]
<1>1. CASE TrainExit
    BY <1>1 DEF TrainExit, Goes, Moves, TypeOK, Places
<1> QED
    BY <1>1, TrainElsewhere DEF TrainThread

LEMMA TrainLate ==
    ASSUME TypeOK, PlacesSound, [Next]_vars, NEW t \in Tasks,
           thread'["train"].task = t, thread'["train"].pc \in Late
    PROVE  \/ thread["train"].task = t /\ thread["train"].pc \in Late
           \/ task'[t].status \in Terminal
           \/ task[t].timeout
<1>0. ASSUME NEW u \in Tasks, NEW from, NEW to, Moves("train", u, from, to)
      PROVE  /\ thread["train"].task = u /\ thread'["train"].task = u
             /\ thread["train"].pc = from /\ thread'["train"].pc = to
    BY <1>0 DEF Moves, TypeOK, Places
<1>1. ASSUME NEW u \in Tasks, TrainNext(u)
      PROVE  CleanFile("train", u) \/ u = t
    BY <1>0, <1>1 DEF TrainNext, CleanNext, TrainAnnounce, TrainStart, EpochBegins, EpochEnds,
       EpochsOver, ModelSaved, TrainInterrupted, TrainRaises, TrainTimedOut, TrainCancelled,
       TrainReportError, TrainSetError, TrainedCancelled, TrainedInTime, TrainMarkDone,
       TrainReportDone, SetCancelled, CleanData, CleanTables, Goes, Reports, SetsStatus, Writes
<1>2. ASSUME NEW u \in Tasks, CleanFile("train", u)
      PROVE  thread'["train"].task # t
    BY <1>2, ConstantsAssumption DEF CleanFile, TypeOK
<1>3. CASE TrainNext(t) /\ ~CleanFile("train", t)
    <2>1. CASE SetCancelled("train", t) \/ TrainSetError(t) \/ TrainMarkDone(t)
        BY <2>1 DEF SetCancelled, TrainSetError, TrainMarkDone, SetsStatus, Writes, Terminal, TypeOK,
           TaskObjects
    <2>2. CASE TrainTimedOut(t)
        BY <2>2 DEF TrainTimedOut
    <2>3. CASE CleanData("train", t) \/ CleanTables("train", t) \/ TrainReportDone(t)
        BY <1>0, <2>3 DEF CleanData, CleanTables, TrainReportDone, Writes, Reports, Late
    <2> QED
        BY <1>0, <1>3, <2>1, <2>2, <2>3 DEF TrainNext, CleanNext, TrainAnnounce, TrainStart,
           EpochBegins, EpochEnds, EpochsOver, ModelSaved, TrainInterrupted, TrainRaises,
           TrainCancelled, TrainReportError, TrainedCancelled, TrainedInTime, Goes, Reports,
           SetsStatus, Writes, Late
<1>4. CASE TrainTake
    BY <1>4 DEF TrainTake, Late, TypeOK
<1> QED
    BY <1>1, <1>2, <1>3, <1>4, TrainPath, ConstantsAssumption

LEMMA FinalStep ==
    ASSUME TypeOK, QueueSound, FlagsSound, PlacesSound, CallSound, FinalSound, [Next]_vars
    PROVE  FinalSound'
<1> SUFFICES ASSUME NEW t \in Tasks, Unhurt(t)', t \in left' \/ IsLate(t)'
             PROVE  task'[t].status \in Terminal
    BY DEF FinalSound
<1>1. Unhurt(t) /\ ~task[t].timeout /\ ~task[t].abort
    BY UnhurtFrom DEF Unhurt, Unfired, FlagsSound, CallSound, Aborting
<1>2. t \in left \/ IsLate(t) \/ task'[t].status \in Terminal
    <2>1. CASE IsLate(t)'
        <3>1. PICK th \in {"prep", "train"} : thread'[th].task = t /\ thread'[th].pc \in Late
            BY <2>1 DEF IsLate
        <3> QED
            BY <1>1, <3>1, PrepLate, TrainLate DEF IsLate
    <2>2. CASE t \in left' /\ t \notin left
        <3>1. PICK th \in {"prep", "train"} : CleanFile(th, t)
            BY <2>2, StepKinds DEF Steps, Rests, SubmitEnqueue, PrepTake, BuildLoaders, TrainTake,
               CleanFile, history
        <3> QED
            BY <3>1 DEF CleanFile, IsLate, Late
    <2> QED
        BY <2>1, <2>2
<1>3. CASE t \in left \/ IsLate(t)
    <2>1. task[t].status \in Terminal
        BY <1>1, <1>3 DEF FinalSound
    <2>2. ~Starting(t)
        BY <1>3, ConstantsAssumption DEF Starting, IsLate, Late, PlacesSound, Waits, Trains
    <2> QED
        BY <2>1, <2>2, StepKept DEF ObjectKept
<1> QED
    BY <1>2, <1>3

(* A task that neither its time limit nor a ReportError call has touched is  *)
(* left with a final status, and has one when it is being cleaned up.        *)
THEOREM LeftWithVerdict == Spec => []FinalStatusOnLeaving
<1>1. Init => CallSound /\ FinalSound
    BY DEF Init, NewTask, CallSound, FinalSound, IsLate, Late, Calls
<1>2. TypeOK /\ CallSound /\ [Next]_vars => CallSound'
    BY CallSoundStep
<1>3. TypeOK /\ Inv /\ PlacesSound /\ CallSound /\ FinalSound /\ [Next]_vars => FinalSound'
    BY FinalStep DEF Inv
<1>4. TypeOK /\ FinalSound => FinalStatusOnLeaving
    BY DEF FinalSound, FinalStatusOnLeaving, Unhurt, Unfired, TypeOK
<1> QED
    BY <1>1, <1>2, <1>3, <1>4, PlacesKept, PTL DEF Spec
=============================================================================
