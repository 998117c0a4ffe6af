---------------------------- MODULE DataRowProofs ----------------------------
(***************************************************************************)
(* Theorems about the tasks and the rows of the Data Node, for any calls,  *)
(* ids, selections and capacities: a running task is counted, and no row   *)
(* is handled twice.  What other calls for the same id may spoil is        *)
(* excluded by name (IdUsedAgain), state by state.                         *)
(***************************************************************************)
EXTENDS DataNodeProofs

-----------------------------------------------------------------------------
(* Who names an element                                                      *)

Entered == {"entered", "listed", "accepted"}

(* The table of entries, the goroutines and the workers name only calls that *)
(* have made their entry.                                                    *)
Known ==
    /\ \A i \in Ids : relate[i] # None => register[relate[i]] \in Entered
    /\ \A d \in DOMAIN begun : begun[d].reg # None => register[begun[d].reg] \in Entered
    /\ \A w \in DOMAIN worker : register[worker[w].reg] \in Entered

(* Calls only go on.                                                         *)
LEMMA CallsGoOn ==
    ASSUME IInv, [Next]_vars, NEW r \in Regs
    PROVE  /\ register[r] \in Entered => register'[r] \in Entered
           /\ register[r] # "new" => register'[r] # "new"
<1>1. CASE register' = register
    BY <1>1
<1>2. ASSUME NEW q \in Regs, RegisterNext(q)
      PROVE  /\ register[r] \in Entered => register'[r] \in Entered
             /\ register[r] # "new" => register'[r] # "new"
    <2>1. register \in [Regs -> RegisterPCs]
        BY DEF IInv, OthersOK
    <2>2. PICK from, to : register[q] = from /\ register' = [register EXCEPT ![q] = to]
             /\ to # "new" /\ (from \in Entered => to \in Entered)
        BY <1>2 DEF RegisterNext, RegisterRecord, RegisterRefused, RegisterEntry, RegisterExists,
           RegisterList, RegisterOffer, RegisterAt, Entered
    <2> QED
        BY <2>1, <2>2
<1> QED
    BY <1>1, <1>2
    DEF Next, vars, calls, RunNext, FetchNothing, FetchIds, FetchPanics, Fetch, Panics,
        CancelNext, CancelFinds, CancelHangsUp, CancelReleases, CancelPops, CancelFindsPlace,
        CancelRemoves, CancelPanics, CancelAt, BeginNext, BeginTask, BeginPage, BeginPageOver,
        BeginRow, BeginDrain, BeginAgain, BeginGets, BeginMakes, BeginAppends, BeginCounts,
        BeginHires, BeginPuts, BeginStopped, BeginPops, BeginFindsPlace, BeginRemoves,
        BeginHangsUp, BeginReleases, BeginPanics, BeginAt, WorkerNext, WorkerTakes,
        WorkerHandles, WorkerPanics, WorkerCounts, WorkerSends, WorkerSendFails, WorkerUnknown,
        WorkerTimesOut, WorkerAnnounces, WorkerFinishes, WorkerFinishFails, WorkerPops,
        WorkerReports, WorkerStops, WorkerUnrecords, WorkerGoes, WorkerAt

(* What a step of a dispatch goroutine does to its element: it keeps it, or  *)
(* takes the one whose entry is found under the first id it has to do.       *)
LEMMA BeginElement ==
    ASSUME IInv, NEW d \in DOMAIN begun, BeginNext(d)
    PROVE  /\ DOMAIN begun' = DOMAIN begun
           /\ \A e \in DOMAIN begun \ {d} : begun'[e] = begun[e]
           /\ \/ begun'[d].reg = begun[d].reg
              \/ /\ BeginTask(d) /\ begun[d].todo # <<>>
                 /\ begun'[d].reg = relate[Head(begun[d].todo)]
                 /\ begun'[d].reg # None
<1> DEFINE b == begun[d]
<1>1. begun \in Seq(Begins) /\ b \in Begins
    BY BeginRecord DEF IInv, BegunOK
<1>2. CASE UNCHANGED begun
    BY <1>2
<1>3. ASSUME NEW c, begun' = [begun EXCEPT ![d] = c]
      PROVE  DOMAIN begun' = DOMAIN begun /\ begun'[d] = c
             /\ \A e \in DOMAIN begun \ {d} : begun'[e] = begun[e]
    BY <1>3
<1>4. CASE BeginTask(d)
    <2>1. CASE b.todo = <<>> \/ relate[Head(b.todo)] = None
        <3>1. begun' = [begun EXCEPT ![d] = [b EXCEPT !.pc = "ended"]]
            BY <1>4, <2>1 DEF BeginTask, BeginAt
        <3>2. [b EXCEPT !.pc = "ended"].reg = b.reg
            BY <1>1 DEF Begins
        <3> QED
            BY <1>3, <3>1, <3>2
    <2>2. CASE ~(b.todo = <<>> \/ relate[Head(b.todo)] = None)
        <3> DEFINE c == [b EXCEPT !.pc = "page", !.reg = relate[Head(b.todo)], !.cursor = 0]
        <3>1. begun' = [begun EXCEPT ![d] = c]
            BY <1>4, <2>2 DEF BeginTask, BeginAt
        <3>2. c.reg = relate[Head(b.todo)]
            BY <1>1 DEF Begins
        <3> HIDE DEF c
        <3> QED
            BY <1>3, <1>4, <2>2, <3>1, <3>2
    <2> QED
        BY <2>1, <2>2
<1>5. ASSUME NEW from, NEW c, BeginAt(d, from, c), c.reg = b.reg
      PROVE  DOMAIN begun' = DOMAIN begun /\ begun'[d].reg = b.reg
             /\ \A e \in DOMAIN begun \ {d} : begun'[e] = begun[e]
    BY <1>3, <1>5 DEF BeginAt
<1>6. CASE BeginPage(d)
    BY <1>1, <1>5, <1>6 DEF BeginPage, NextTask, Begins
<1>7. CASE BeginPageOver(d) \/ BeginRow(d) \/ BeginGets(d) \/ BeginMakes(d) \/ BeginStopped(d)
    BY <1>1, <1>5, <1>7 DEF BeginPageOver, BeginRow, BeginGets, BeginMakes, BeginStopped, Begins
<1>8. CASE BeginFindsPlace(d)
    BY <1>1, <1>5, <1>8 DEF BeginFindsPlace, Begins
<1>9. CASE BeginDrain(d) \/ BeginAgain(d) \/ BeginAppends(d) \/ BeginCounts(d)
    BY <1>1, <1>5, <1>9 DEF BeginDrain, BeginAgain, BeginAppends, BeginCounts, Begins
<1>10. CASE BeginHires(d) \/ BeginPuts(d) \/ BeginPops(d) \/ BeginRemoves(d)
    BY <1>1, <1>5, <1>10 DEF BeginHires, BeginPuts, BeginPops, BeginRemoves, Begins
<1>11. CASE BeginHangsUp(d) \/ BeginReleases(d)
    BY <1>1, <1>5, <1>11 DEF BeginHangsUp, BeginReleases, NextTask, Begins
<1>12. CASE BeginPanics(d)
    BY <1>2, <1>12 DEF BeginPanics, Panics
<1> QED
    BY <1>4, <1>6, <1>7, <1>8, <1>9, <1>10, <1>11, <1>12 DEF BeginNext

(* A worker works for one element.                                           *)
LEMMA WorkerElement ==
    ASSUME IInv, NEW w \in DOMAIN worker, WorkerNext(w)
    PROVE  /\ DOMAIN worker' = DOMAIN worker
           /\ \A x \in DOMAIN worker \ {w} : worker'[x] = worker[x]
           /\ worker'[w].reg = worker[w].reg
<1> DEFINE v == worker[w]
<1>1. worker \in Seq(Workers) /\ v \in Workers
    BY Member DEF IInv, WorkersOK
<1>2. CASE UNCHANGED worker
    BY <1>2
<1>3. ASSUME NEW from, NEW u, WorkerAt(w, from, u), u.reg = v.reg
      PROVE  DOMAIN worker' = DOMAIN worker /\ worker'[w].reg = v.reg
             /\ \A x \in DOMAIN worker \ {w} : worker'[x] = worker[x]
    BY <1>3 DEF WorkerAt
<1>4. \A p : [v EXCEPT !.pc = p].reg = v.reg
    BY <1>1 DEF Workers
<1>5. CASE WorkerTakes(w)
    BY <1>1, <1>3, <1>5 DEF WorkerTakes, Workers
<1>6. CASE WorkerHandles(w)
    BY <1>1, <1>3, <1>6 DEF WorkerHandles, Workers
<1>7. CASE WorkerCounts(w)
    BY <1>1, <1>3, <1>7 DEF WorkerCounts, Workers
<1>8. CASE WorkerSends(w) \/ WorkerSendFails(w) \/ WorkerUnknown(w)
    BY <1>1, <1>3, <1>8 DEF WorkerSends, WorkerSendFails, WorkerUnknown, Workers
<1>9. CASE WorkerTimesOut(w) \/ WorkerAnnounces(w) \/ WorkerFinishes(w) \/ WorkerFinishFails(w)
           \/ WorkerPops(w) \/ WorkerReports(w) \/ WorkerStops(w) \/ WorkerUnrecords(w)
    BY <1>3, <1>4, <1>9
    DEF WorkerTimesOut, WorkerAnnounces, WorkerFinishes, WorkerFinishFails, WorkerPops,
        WorkerReports, WorkerStops, WorkerUnrecords, WorkerGoes
<1>10. CASE WorkerPanics(w)
    BY <1>2, <1>10 DEF WorkerPanics, Panics
<1> QED
    BY <1>5, <1>6, <1>7, <1>8, <1>9, <1>10 DEF WorkerNext

(* The entries: only a call makes one, for itself.                           *)
LEMMA EntryStep ==
    ASSUME IInv, [Next]_vars, NEW i \in Ids, relate'[i] # None
    PROVE  \/ relate'[i] = relate[i]
           \/ \E r \in Regs : RegisterEntry(r) /\ IdOf[r] = i /\ relate'[i] = r
<1>1. relate \in [Ids -> Optional(Regs)]
    BY DEF IInv, TablesOK
<1>2. CASE relate' = relate
    BY <1>2
<1>3. ASSUME NEW j, PopEntry(j) PROVE relate'[i] = relate[i]
    BY <1>1, <1>3 DEF PopEntry
<1>4. ASSUME NEW r \in Regs, RegisterEntry(r)
      PROVE  relate'[i] = relate[i] \/ (IdOf[r] = i /\ relate'[i] = r)
    BY <1>1, <1>4 DEF RegisterEntry
<1> QED
    BY <1>2, <1>3, <1>4
    DEF Next, vars, tables, RunNext, FetchNothing, FetchIds, FetchPanics, Fetch, Panics,
        RegisterNext, RegisterRecord, RegisterRefused, RegisterExists, RegisterList,
        RegisterOffer, CancelNext, CancelFinds, CancelHangsUp, CancelReleases, CancelPops,
        CancelFindsPlace, CancelRemoves, CancelPanics, BeginNext, BeginTask, BeginPage,
        BeginPageOver, BeginRow, BeginDrain, BeginAgain, BeginGets, BeginMakes, BeginAppends,
        BeginCounts, BeginHires, BeginPuts, BeginStopped, BeginPops, BeginFindsPlace,
        BeginRemoves, BeginHangsUp, BeginReleases, BeginPanics, Internal, WorkerNext,
        WorkerTakes, WorkerHandles, WorkerPanics, WorkerCounts, WorkerSends, WorkerSendFails,
        WorkerUnknown, WorkerTimesOut, WorkerAnnounces, WorkerFinishes, WorkerFinishFails,
        WorkerPops, WorkerReports, WorkerStops, WorkerUnrecords, Quiet

LEMMA BegunElements ==
    ASSUME IInv, [Next]_vars, NEW e \in DOMAIN begun', begun'[e].reg # None
    PROVE  \/ \E d \in DOMAIN begun : begun'[e].reg = begun[d].reg
           \/ \E i \in Ids : begun'[e].reg = relate[i]
<1>1. CASE UNCHANGED begun
    BY <1>1
<1>2. ASSUME NEW d \in DOMAIN begun, BeginNext(d)
      PROVE  \/ \E x \in DOMAIN begun : begun'[e].reg = begun[x].reg
             \/ \E i \in Ids : begun'[e].reg = relate[i]
    <2>1. CASE e = d /\ begun'[d].reg # begun[d].reg
        <3>1. begun[d].todo # <<>> /\ begun'[d].reg = relate[Head(begun[d].todo)]
            BY <1>2, <2>1, BeginElement
        <3>2. begun[d].todo \in Seq(Ids)
            BY BeginRecord DEF Begins
        <3> QED
            BY <2>1, <3>1, <3>2, HeadTail
    <2> QED
        BY <1>2, <2>1, BeginElement
<1>3. CASE FetchIds
    <2> DEFINE ids == SubSeq(list, fetched + 2, Len(list))
    <2>1. begun' = Append(begun, NewBegin(ids))
        BY <1>3 DEF FetchIds
    <2>2. NewBegin(ids).reg = None
        BY DEF NewBegin
    <2>3. e = Len(begun) + 1 \/ (e \in DOMAIN begun /\ begun'[e] = begun[e])
        <3>1. begun \in Seq(Begins) /\ Len(begun) \in Nat /\ DOMAIN begun = 1..Len(begun)
            BY LenProperties DEF IInv, BegunOK
        <3> HIDE DEF ids
        <3> QED
            BY <2>1, <3>1
    <2>4. begun'[Len(begun) + 1] = NewBegin(ids)
        <3>1. begun \in Seq(Begins) /\ Len(begun) \in Nat
            BY LenProperties DEF IInv, BegunOK
        <3> HIDE DEF ids
        <3> QED
            BY <2>1, <3>1
    <2> QED
        BY <2>2, <2>3, <2>4
<1> QED
    BY <1>1, <1>2, <1>3
    DEF Next, vars, RunNext, FetchNothing, FetchPanics, Panics, RegisterNext, RegisterRecord,
        RegisterRefused, RegisterEntry, RegisterExists, RegisterList, RegisterOffer, RegisterAt,
        CancelNext, CancelFinds, CancelHangsUp, CancelReleases, CancelPops, CancelFindsPlace,
        CancelRemoves, CancelPanics, CancelAt, WorkerNext, WorkerTakes, WorkerHandles,
        WorkerPanics, WorkerCounts, WorkerSends, WorkerSendFails, WorkerUnknown, WorkerTimesOut,
        WorkerAnnounces, WorkerFinishes, WorkerFinishFails, WorkerPops, WorkerReports,
        WorkerStops, WorkerUnrecords, WorkerGoes, WorkerAt

(* A new worker is hired by a dispatch goroutine, idle, for its element.     *)
LEMMA WorkerElements ==
    ASSUME IInv, [Next]_vars, NEW w \in DOMAIN worker'
    PROVE  \/ w \in DOMAIN worker /\ worker'[w].reg = worker[w].reg
           \/ \E d \in DOMAIN begun : BeginHires(d) /\ worker'[w].reg = begun[d].reg
                /\ worker'[w].pc = "idle"
<1>1. CASE UNCHANGED worker
    BY <1>1
<1>2. ASSUME NEW x \in DOMAIN worker, WorkerNext(x)
      PROVE  w \in DOMAIN worker /\ worker'[w].reg = worker[w].reg
    BY <1>2, WorkerElement
<1>3. ASSUME NEW d \in DOMAIN begun, BeginHires(d)
      PROVE  \/ w \in DOMAIN worker /\ worker'[w].reg = worker[w].reg
             \/ worker'[w].reg = begun[d].reg /\ worker'[w].pc = "idle"
    <2> DEFINE new == NewWorker(top, taskList[top + 1], begun[d].reg)
    <2>1. worker' = Append(worker, new)
        BY <1>3 DEF BeginHires
    <2>2. new.reg = begun[d].reg /\ new.pc = "idle"
        BY DEF NewWorker
    <2>3. worker \in Seq(Workers) /\ Len(worker) \in Nat /\ DOMAIN worker = 1..Len(worker)
        BY LenProperties DEF IInv, WorkersOK
    <2> HIDE DEF new
    <2>4. worker'[Len(worker) + 1] = new
          /\ (w = Len(worker) + 1 \/ (w \in DOMAIN worker /\ worker'[w] = worker[w]))
        BY <2>1, <2>3
    <2> QED
        BY <2>2, <2>4
<1> QED
    BY <1>1, <1>2, <1>3
    DEF Next, vars, RunNext, FetchNothing, FetchIds, FetchPanics, Fetch, Panics, RegisterNext,
        RegisterRecord, RegisterRefused, RegisterEntry, RegisterExists, RegisterList,
        RegisterOffer, RegisterAt, CancelNext, CancelFinds, CancelHangsUp, CancelReleases,
        CancelPops, CancelFindsPlace, CancelRemoves, CancelPanics, CancelAt, BeginNext,
        BeginTask, BeginPage, BeginPageOver, BeginRow, BeginDrain, BeginAgain, BeginGets,
        BeginMakes, BeginAppends, BeginCounts, BeginPuts, BeginStopped, BeginPops,
        BeginFindsPlace, BeginRemoves, BeginHangsUp, BeginReleases, BeginPanics, Internal

LEMMA KnownKept ==
    ASSUME IInv, Known, [Next]_vars
    PROVE  Known'
<1>1. ASSUME NEW i \in Ids, relate'[i] # None PROVE register'[relate'[i]] \in Entered
    <2>1. CASE relate'[i] = relate[i]
        <3>1. relate[i] \in Regs
            BY <1>1, <2>1 DEF IInv, TablesOK, Optional
        <3> QED
            BY <1>1, <2>1, <3>1, CallsGoOn DEF Known
    <2>2. ASSUME NEW r \in Regs, RegisterEntry(r), relate'[i] = r
          PROVE  register'[relate'[i]] \in Entered
        BY <2>2 DEF RegisterEntry, RegisterAt, IInv, OthersOK, Entered
    <2> QED
        BY <1>1, <2>1, <2>2, EntryStep
<1>2. \A r : (\E i \in Ids : r # None /\ r = relate[i]) => r \in Regs /\ register[r] \in Entered
    BY DEF IInv, TablesOK, Optional, Known
<1>3. \A d \in DOMAIN begun : begun[d].reg # None =>
        begun[d].reg \in Regs /\ register[begun[d].reg] \in Entered
    BY BeginRecord DEF Begins, Optional, Known
<1>4. \A w \in DOMAIN worker : worker[w].reg \in Regs /\ register[worker[w].reg] \in Entered
    <2> TAKE w \in DOMAIN worker
    <2>1. worker[w] \in Workers
        BY Member DEF IInv, WorkersOK
    <2> QED
        BY <2>1 DEF Workers, Known
<1>5. ASSUME NEW e \in DOMAIN begun', begun'[e].reg # None
      PROVE  register'[begun'[e].reg] \in Entered
    BY <1>2, <1>3, <1>5, BegunElements, CallsGoOn
<1>6. ASSUME NEW w \in DOMAIN worker' PROVE register'[worker'[w].reg] \in Entered
    <2>1. ASSUME NEW d \in DOMAIN begun, BeginHires(d) PROVE begun[d].reg # None
        <3>1. begun[d].pc = "hire" /\ BeginSound(begun[d], Len(chans), top)
            BY <2>1, BeginRecord DEF BeginHires, BeginAt
        <3> QED
            BY <3>1, DataAssumption DEF BeginSound
    <2> QED
        BY <1>3, <1>4, <2>1, WorkerElements, CallsGoOn
<1> QED
    BY <1>1, <1>5, <1>6 DEF Known

-----------------------------------------------------------------------------
(* A running task is counted                                                 *)

(* The record of a task whose id no other call has named is there from its   *)
(* insert to the threshold, to its Finish, or to Stop, which cancels it.     *)
Accounted(r) ==
    /\ register[r] = "recorded" => records[IdOf[r]] # None
    /\ \A w \in DOMAIN worker : worker[w].reg = r /\ worker[w].pc = "unrecord" => r \in cancelled
    /\ relate[IdOf[r]] = r /\ r \notin cancelled =>
        \/ records[IdOf[r]] # None
        \/ \E w \in DOMAIN worker : worker[w].reg = r /\ worker[w].pc \in {"report", "stop"}

AllAccounted == \A r \in Regs : IdUsedAgain(r) \/ Accounted(r)

(* An id that was used again stays so.                                       *)
LEMMA UsedAgainStays ==
    ASSUME IInv, [Next]_vars, NEW r \in Regs, ~IdUsedAgain(r)'
    PROVE  ~IdUsedAgain(r)
BY CallsGoOn DEF IdUsedAgain

(* Until then every worker and every entry under the id is its own.          *)
LEMMA OwnId ==
    ASSUME IInv, Known, NEW r \in Regs, ~IdUsedAgain(r)
    PROVE  /\ relate[IdOf[r]] \in {None, r}
           /\ \A w \in DOMAIN worker : IdOf[worker[w].reg] = IdOf[r] => worker[w].reg = r
           /\ \A d \in DOMAIN begun :
                begun[d].reg # None /\ IdOf[begun[d].reg] = IdOf[r] => begun[d].reg = r
<1>1. \A q \in Regs : register[q] \in Entered /\ IdOf[q] = IdOf[r] => q = r
    BY DEF IdUsedAgain, Entered
<1>2. IdOf[r] \in Ids
    BY DataAssumption
<1>3. relate[IdOf[r]] \in {None, r}
    <2>1. CASE relate[IdOf[r]] = None
        BY <2>1
    <2>2. CASE relate[IdOf[r]] # None
        <3>1. relate[IdOf[r]] \in Regs /\ IdOf[relate[IdOf[r]]] = IdOf[r]
            BY <1>2, <2>2 DEF IInv, TablesOK, Optional
        <3>2. register[relate[IdOf[r]]] \in Entered
            BY <1>2, <2>2 DEF Known
        <3> QED
            BY <1>1, <3>1, <3>2
    <2> QED
        BY <2>1, <2>2
<1>4. ASSUME NEW w \in DOMAIN worker, IdOf[worker[w].reg] = IdOf[r] PROVE worker[w].reg = r
    <2>1. worker[w] \in Workers
        BY Member DEF IInv, WorkersOK
    <2> QED
        BY <1>1, <1>4, <2>1 DEF Workers, Known
<1>5. ASSUME NEW d \in DOMAIN begun, begun[d].reg # None, IdOf[begun[d].reg] = IdOf[r]
      PROVE  begun[d].reg = r
    <2>1. begun[d].reg \in Regs
        BY <1>5, BeginRecord DEF Begins, Optional
    <2> QED
        BY <1>1, <1>5, <2>1 DEF Known
<1> QED
    BY <1>3, <1>4, <1>5

(* What spoils the account of a task, and nothing else does.                 *)
LEMMA AccountedStays ==
    ASSUME IInv, NEW r \in Regs, Accounted(r),
           register'[r] = "recorded" => register[r] = "recorded",
           records[IdOf[r]] # None => records'[IdOf[r]] # None,
           relate'[IdOf[r]] = r => relate[IdOf[r]] = r,
           cancelled \subseteq cancelled',
           \A w \in DOMAIN worker' : worker'[w].reg = r /\ worker'[w].pc = "unrecord" =>
               r \in cancelled' \/ (w \in DOMAIN worker /\ worker[w].reg = r /\ worker[w].pc = "unrecord"),
           \A w \in DOMAIN worker : worker[w].reg = r /\ worker[w].pc \in {"report", "stop"} =>
               r \in cancelled' \/ (w \in DOMAIN worker' /\ worker'[w].reg = r
                                    /\ worker'[w].pc \in {"report", "stop"})
    PROVE  Accounted(r)'
<1>1. register'[r] = "recorded" => records'[IdOf[r]] # None
    BY DEF Accounted
<1>2. \A w \in DOMAIN worker' : worker'[w].reg = r /\ worker'[w].pc = "unrecord" => r \in cancelled'
    BY DEF Accounted
<1>3. ASSUME relate'[IdOf[r]] = r, r \notin cancelled'
      PROVE  \/ records'[IdOf[r]] # None
             \/ \E w \in DOMAIN worker' :
                  worker'[w].reg = r /\ worker'[w].pc \in {"report", "stop"}
    BY <1>3 DEF Accounted
<1> QED
    BY <1>1, <1>2, <1>3 DEF Accounted

LEMMA PopAccounted ==
    ASSUME IInv, Known, NEW r \in Regs, ~IdUsedAgain(r), Accounted(r), NEW j, PopEntry(j),
           UNCHANGED <<register, worker>>
    PROVE  Accounted(r)'
<1>1. /\ relate \in [Ids -> Optional(Regs)] /\ IdOf[r] \in Ids /\ r # None
      /\ records \in [Ids -> Optional([of : Regs, occurred : Nat])]
    BY DataAssumption DEF IInv, TablesOK
<1>2. /\ relate' = [relate EXCEPT ![j] = None] /\ cancelled' = cancelled
      /\ records' = IF relate[j] = None THEN records ELSE [records EXCEPT ![j] = None]
    BY DEF PopEntry
<1>3. CASE j # IdOf[r] \/ relate[j] = None
    <2>1. relate'[IdOf[r]] = relate[IdOf[r]] \/ relate'[IdOf[r]] = None
        BY <1>1, <1>2
    <2>2. records'[IdOf[r]] = records[IdOf[r]]
        BY <1>1, <1>2, <1>3
    <2> QED
        BY <1>1, <1>2, <2>1, <2>2, AccountedStays
<1>4. CASE j = IdOf[r] /\ relate[j] # None
    <2>1. relate[IdOf[r]] = r
        BY <1>4, OwnId
    <2>2. register[r] # "recorded"
        BY <1>1, <2>1 DEF Known, Entered
    <2>3. relate'[IdOf[r]] = None
        BY <1>1, <1>2, <1>4
    <2> QED
        BY <1>1, <1>2, <2>2, <2>3 DEF Accounted
<1> QED
    BY <1>3, <1>4

LEMMA RegisterAccounted ==
    ASSUME IInv, Known, NEW r \in Regs, ~IdUsedAgain(r), ~IdUsedAgain(r)', Accounted(r),
           NEW q \in Regs, RegisterNext(q)
    PROVE  Accounted(r)'
<1>1. /\ relate \in [Ids -> Optional(Regs)] /\ IdOf \in [Regs -> Ids] /\ None \notin Regs
      /\ records \in [Ids -> Optional([of : Regs, occurred : Nat])]
      /\ register \in [Regs -> RegisterPCs]
    BY DataAssumption DEF IInv, TablesOK, OthersOK
<1>2. worker' = worker
    BY DEF RegisterNext, RegisterRecord, RegisterRefused, RegisterEntry, RegisterExists,
           RegisterList, RegisterOffer, RegisterAt
<1>3. CASE RegisterRecord(q)
    <2>1. /\ records' = [records EXCEPT ![IdOf[q]] = [of |-> q, occurred |-> 0]]
          /\ register' = [register EXCEPT ![q] = "recorded"]
          /\ UNCHANGED <<relate, cancelled>>
        BY <1>3 DEF RegisterRecord, RegisterAt
    <2>2. [of |-> q, occurred |-> 0] # None
        BY DataAssumption
    <2>3. records[IdOf[r]] # None \/ q = r => records'[IdOf[r]] # None
        BY <1>1, <2>1, <2>2
    <2>4. CASE q = r
        BY <1>1, <1>2, <2>1, <2>3, <2>4 DEF Accounted
    <2>5. CASE q # r
        BY <1>1, <1>2, <2>1, <2>3, <2>5, AccountedStays
    <2> QED
        BY <2>4, <2>5
<1>4. CASE RegisterEntry(q)
    <2>1. /\ register[q] = "recorded" /\ register' = [register EXCEPT ![q] = "entered"]
          /\ relate' = [relate EXCEPT ![IdOf[q]] = q] /\ UNCHANGED <<records, cancelled>>
        BY <1>4 DEF RegisterEntry, RegisterAt
    <2>2. CASE q = r
        BY <1>1, <1>2, <2>1, <2>2 DEF Accounted
    <2>3. CASE q # r
        BY <1>1, <1>2, <2>1, <2>3, AccountedStays
    <2> QED
        BY <2>2, <2>3
<1>5. CASE RegisterRefused(q) \/ RegisterExists(q) \/ RegisterList(q) \/ RegisterOffer(q)
    <2>1. PICK to : register' = [register EXCEPT ![q] = to] /\ to # "recorded"
        BY <1>5 DEF RegisterRefused, RegisterExists, RegisterList, RegisterOffer, RegisterAt
    <2>2. UNCHANGED <<records, relate, cancelled>>
        BY <1>5 DEF RegisterRefused, RegisterExists, RegisterList, RegisterOffer, tables
    <2> QED
        BY <1>1, <1>2, <2>1, <2>2, AccountedStays
<1> QED
    BY <1>3, <1>4, <1>5 DEF RegisterNext

LEMMA BeginAccounted ==
    ASSUME IInv, Known, NEW r \in Regs, ~IdUsedAgain(r), Accounted(r),
           NEW d \in DOMAIN begun, BeginNext(d)
    PROVE  Accounted(r)'
<1>1. UNCHANGED register
    BY DEF BeginNext, BeginTask, BeginPage, BeginPageOver, BeginRow, BeginDrain, BeginAgain,
           BeginGets, BeginMakes, BeginAppends, BeginCounts, BeginHires, BeginPuts, BeginStopped,
           BeginPops, BeginFindsPlace, BeginRemoves, BeginHangsUp, BeginReleases, BeginPanics,
           BeginAt, Panics, calls
<1>2. CASE BeginPops(d)
    BY <1>1, <1>2, PopAccounted DEF BeginPops
<1>3. CASE BeginHires(d)
    <2> DEFINE new == NewWorker(top, taskList[top + 1], begun[d].reg)
    <2>1. worker' = Append(worker, new) /\ UNCHANGED <<records, relate, cancelled>>
        BY <1>3 DEF BeginHires, tables
    <2>2. new.pc = "idle"
        BY DEF NewWorker
    <2>3. worker \in Seq(Workers) /\ Len(worker) \in Nat /\ DOMAIN worker = 1..Len(worker)
        BY LenProperties DEF IInv, WorkersOK
    <2> HIDE DEF new
    <2>4. /\ DOMAIN worker' = 1..(Len(worker) + 1) /\ worker'[Len(worker) + 1] = new
          /\ \A w \in DOMAIN worker : worker'[w] = worker[w]
        BY <2>1, <2>3
    <2>5. \A w \in DOMAIN worker' : w = Len(worker) + 1 \/ w \in DOMAIN worker
        BY <2>3, <2>4
    <2>6. DOMAIN worker \subseteq DOMAIN worker'
        BY <2>3, <2>4
    <2>7. \A w \in DOMAIN worker' : worker'[w].pc = "unrecord" =>
            w \in DOMAIN worker /\ worker[w] = worker'[w]
        BY <2>2, <2>4, <2>5
    <2> QED
        BY <1>1, <2>1, <2>4, <2>6, <2>7, AccountedStays
<1>4. CASE UNCHANGED <<records, relate, cancelled, worker>>
    BY <1>1, <1>4, AccountedStays
<1> QED
    BY <1>2, <1>3, <1>4
    DEF BeginNext, BeginTask, BeginPage, BeginPageOver, BeginRow, BeginDrain, BeginAgain,
        BeginGets, BeginMakes, BeginAppends, BeginCounts, BeginPuts, BeginStopped,
        BeginFindsPlace, BeginRemoves, BeginHangsUp, BeginReleases, BeginPanics, Internal,
        Panics, tables

LEMMA WorkerAccounted ==
    ASSUME IInv, Known, NEW r \in Regs, ~IdUsedAgain(r), Accounted(r),
           NEW w \in DOMAIN worker, WorkerNext(w)
    PROVE  Accounted(r)'
<1> DEFINE v == worker[w]
           i == IdOf[v.reg]
<1>1. v \in Workers /\ v.reg \in Regs /\ i \in Ids /\ IdOf[r] \in Ids
    <2>1. v \in Workers
        BY Member DEF IInv, WorkersOK
    <2> QED
        BY <2>1, DataAssumption DEF Workers
<1>2. /\ DOMAIN worker' = DOMAIN worker /\ worker'[w].reg = v.reg
      /\ \A x \in DOMAIN worker \ {w} : worker'[x] = worker[x]
    BY WorkerElement
<1>3. UNCHANGED register
    BY DEF WorkerNext, WorkerTakes, WorkerHandles, WorkerPanics, WorkerCounts, WorkerSends,
           WorkerSendFails, WorkerUnknown, WorkerTimesOut, WorkerAnnounces, WorkerFinishes,
           WorkerFinishFails, WorkerPops, WorkerReports, WorkerStops, WorkerUnrecords,
           WorkerGoes, WorkerAt, Panics, calls
<1>4. /\ relate \in [Ids -> Optional(Regs)]
      /\ records \in [Ids -> Optional([of : Regs, occurred : Nat])]
    BY DEF IInv, TablesOK
<1>5. i = IdOf[r] => v.reg = r
    BY OwnId
<1>6. \A p : [v EXCEPT !.pc = p].pc = p
    BY <1>1 DEF Workers
(* A worker that does not come from or go to one of the places that count.   *)
<1>7. ASSUME UNCHANGED <<relate, cancelled>>, records[IdOf[r]] # None => records'[IdOf[r]] # None,
             v.pc \in {"report", "stop"} => worker'[w].pc \in {"report", "stop"},
             worker'[w].pc # "unrecord"
      PROVE  Accounted(r)'
    BY <1>2, <1>3, <1>7, AccountedStays
<1> HIDE DEF v, i
<1>8. CASE WorkerCounts(w)
    <2>1. /\ v.pc = "count" /\ AddErrors(i, v.errors)
          /\ UNCHANGED <<relate, cancelled>>
        BY <1>8 DEF WorkerCounts, WorkerAt, v, i
    <2>2. /\ worker'[w].pc # "unrecord"
          /\ Reached(i, v.errors) => worker'[w].pc = "report"
        BY <1>1, <1>8 DEF WorkerCounts, WorkerAt, Workers, v, i
    <2>3. CASE i = IdOf[r] /\ Reached(i, v.errors)
        <3>1. v.reg = r /\ worker'[w].reg = r /\ worker'[w].pc = "report"
            BY <1>2, <1>5, <2>2, <2>3 DEF v
        <3>2. register[r] # "recorded"
            BY <3>1 DEF Known, Entered, v
        <3>3. \A x \in DOMAIN worker' : worker'[x].reg = r /\ worker'[x].pc = "unrecord" => r \in cancelled'
            BY <1>2, <2>1, <3>1 DEF Accounted, v
        <3> QED
            BY <1>2, <1>3, <3>1, <3>2, <3>3 DEF Accounted, v
    <2>4. CASE ~(i = IdOf[r] /\ Reached(i, v.errors))
        <3>1. records[IdOf[r]] # None => records'[IdOf[r]] # None
            <4>1. CASE records[i] = None
                BY <2>1, <4>1 DEF AddErrors
            <4>2. CASE records[i] # None /\ Reached(i, v.errors)
                BY <1>1, <1>4, <2>1, <2>4, <4>2 DEF AddErrors
            <4>3. CASE records[i] # None /\ ~Reached(i, v.errors)
                <5>1. records' = [records EXCEPT ![i].occurred = @ + v.errors]
                    BY <2>1, <4>3 DEF AddErrors
                <5>2. records[i] \in [of : Regs, occurred : Nat] /\ v.errors \in Nat
                    BY <1>1, <1>4, <4>3 DEF Optional, Workers
                <5> DEFINE more == [records[i] EXCEPT !.occurred = @ + v.errors]
                <5>3. more \in [of : Regs, occurred : Nat] /\ records' = [records EXCEPT ![i] = more]
                    BY <5>1, <5>2
                <5>4. more # None
                    BY <5>3, DataAssumption
                <5> HIDE DEF more
                <5> QED
                    BY <1>1, <1>4, <5>3, <5>4
            <4> QED
                BY <4>1, <4>2, <4>3
        <3> QED
            BY <1>7, <2>1, <2>2, <3>1 DEF v
    <2> QED
        BY <2>3, <2>4
<1>9. CASE WorkerPops(w)
    <2>1. worker' = [worker EXCEPT ![w] = [v EXCEPT !.pc = "gone"]] /\ v.pc = "pop" /\ PopEntry(i)
        BY <1>9 DEF WorkerPops, WorkerGoes, WorkerAt, v, i
    <2>2. worker'[w].pc = "gone"
        BY <1>6, <2>1
    <2>3. CASE i = IdOf[r]
        <3>1. v.reg = r /\ register[r] # "recorded"
            BY <1>5, <2>3 DEF Known, Entered, v
        <3>2. relate'[IdOf[r]] = None /\ None # r /\ cancelled' = cancelled
            BY <1>1, <1>4, <2>1, <2>3, DataAssumption DEF PopEntry
        <3>3. \A x \in DOMAIN worker' : worker'[x].reg = r /\ worker'[x].pc = "unrecord" => r \in cancelled'
            BY <1>2, <2>2, <3>2 DEF Accounted
        <3> QED
            BY <1>3, <3>1, <3>2, <3>3 DEF Accounted
    <2>4. CASE i # IdOf[r]
        <3>1. relate'[IdOf[r]] = relate[IdOf[r]] /\ records'[IdOf[r]] = records[IdOf[r]]
              /\ cancelled' = cancelled
            BY <1>1, <1>4, <2>1, <2>4 DEF PopEntry
        <3> QED
            BY <1>2, <1>3, <2>1, <2>2, <3>1, AccountedStays DEF v
    <2> QED
        BY <2>3, <2>4
<1>10. CASE WorkerStops(w)
    <2>1. /\ worker' = [worker EXCEPT ![w] = [v EXCEPT !.pc = IF relate[i] = None THEN "gone" ELSE "unrecord"]]
          /\ cancelled' = cancelled \cup ({relate[i]} \ {None}) /\ UNCHANGED <<records, relate>>
        BY <1>10 DEF WorkerStops, WorkerGoes, WorkerAt, v, i
    <2>2. worker'[w].pc = IF relate[i] = None THEN "gone" ELSE "unrecord"
        BY <1>6, <2>1
    <2>3. CASE v.reg = r
        <3>1. relate[i] \in {None, r} /\ i = IdOf[r] /\ None # r
            BY <2>3, OwnId, DataAssumption DEF i
        <3>2. relate[i] # None => r \in cancelled'
            BY <2>1, <3>1
        <3>3. ASSUME NEW x \in DOMAIN worker', worker'[x].reg = r, worker'[x].pc = "unrecord"
              PROVE  r \in cancelled'
            BY <1>2, <2>1, <2>2, <3>2, <3>3 DEF Accounted
        <3>4. relate'[IdOf[r]] = r => r \in cancelled'
            BY <2>1, <3>1, <3>2
        <3> QED
            BY <1>3, <2>1, <3>3, <3>4 DEF Accounted
    <2>4. CASE v.reg # r
        BY <1>2, <1>3, <2>1, <2>4, AccountedStays DEF v
    <2> QED
        BY <2>3, <2>4
<1>11. CASE WorkerUnrecords(w)
    <2>1. /\ worker' = [worker EXCEPT ![w] = [v EXCEPT !.pc = "gone"]] /\ v.pc = "unrecord"
          /\ records' = [records EXCEPT ![i] = None] /\ UNCHANGED <<relate, cancelled>>
        BY <1>11 DEF WorkerUnrecords, WorkerGoes, WorkerAt, v, i
    <2>2. worker'[w].pc = "gone"
        BY <1>6, <2>1
    <2>3. CASE i = IdOf[r]
        <3>1. v.reg = r /\ register[r] # "recorded"
            BY <1>5, <2>3 DEF Known, Entered, v
        <3>2. r \in cancelled
            BY <2>1, <3>1 DEF Accounted, v
        <3> QED
            BY <1>3, <2>1, <3>1, <3>2 DEF Accounted
    <2>4. CASE i # IdOf[r]
        BY <1>1, <1>4, <1>7, <2>1, <2>2, <2>4
    <2> QED
        BY <2>3, <2>4
<1>12. CASE WorkerReports(w)
    BY <1>6, <1>7, <1>12 DEF WorkerReports, WorkerGoes, WorkerAt, Quiet, tables, v
<1>13. CASE WorkerFinishFails(w) \/ WorkerTimesOut(w) \/ WorkerAnnounces(w) \/ WorkerFinishes(w)
    BY <1>6, <1>7, <1>13
    DEF WorkerFinishFails, WorkerTimesOut, WorkerAnnounces, WorkerFinishes, WorkerGoes, WorkerAt,
        Quiet, tables, v
<1>14. CASE WorkerTakes(w) \/ WorkerSends(w) \/ WorkerSendFails(w) \/ WorkerUnknown(w)
    BY <1>1, <1>7, <1>14
    DEF WorkerTakes, WorkerSends, WorkerSendFails, WorkerUnknown, WorkerAt, Quiet, tables, v,
        Workers
<1>15. CASE WorkerHandles(w)
    <2>1. UNCHANGED <<records, relate, cancelled>> /\ v.pc = "handle"
        BY <1>15 DEF WorkerHandles, tables, v
    <2>2. worker'[w].pc \in {"count", "send", "idle"}
        <3>1. PICK failed, some : worker' = [worker EXCEPT ![w] = [v EXCEPT
                  !.row = None, !.errors = failed, !.sends = some,
                  !.pc = IF failed > 0 THEN "count" ELSE IF some THEN "send" ELSE "idle"]]
            BY <1>15 DEF WorkerHandles, WorkerAt, v
        <3> QED
            BY <1>1, <3>1 DEF Workers, v
    <2> QED
        BY <1>7, <2>1, <2>2
<1>16. CASE WorkerPanics(w)
    <2>1. UNCHANGED <<records, relate, cancelled, worker>>
        BY <1>16 DEF WorkerPanics, Panics, tables
    <2> QED
        BY <1>3, <2>1, AccountedStays
<1> QED
    BY <1>8, <1>9, <1>10, <1>11, <1>12, <1>13, <1>14, <1>15, <1>16 DEF WorkerNext

LEMMA NextAccounted ==
    ASSUME IInv, Known, AllAccounted, [Next]_vars
    PROVE  AllAccounted'
<1> SUFFICES ASSUME NEW r \in Regs, ~IdUsedAgain(r)' PROVE Accounted(r)'
    BY DEF AllAccounted
<1>1. ~IdUsedAgain(r) /\ Accounted(r)
    BY UsedAgainStays DEF AllAccounted
<1>2. CASE UNCHANGED <<register, records, relate, cancelled, worker>>
    BY <1>1, <1>2, AccountedStays
<1>3. ASSUME NEW c \in CancelCalls, CancelNext(c) PROVE Accounted(r)'
    <2>1. CASE CancelPops(c)
        BY <1>1, <2>1, PopAccounted DEF CancelPops, CancelAt
    <2> QED
        BY <1>2, <1>3, <2>1
        DEF CancelNext, CancelFinds, CancelHangsUp, CancelReleases, CancelFindsPlace,
            CancelRemoves, CancelPanics, CancelAt, Panics, tables, calls
<1>4. CASE RunNext \/ UNCHANGED vars
    BY <1>2, <1>4 DEF RunNext, FetchNothing, FetchIds, FetchPanics, Fetch, Panics, tables, calls, vars
<1> QED
    BY <1>1, <1>3, <1>4, RegisterAccounted, BeginAccounted, WorkerAccounted DEF Next

(* As long as a task is not stopped its errors are counted, whatever its      *)
(* workers do, unless another call names its id (worker.go 100-115,           *)
(* errortable.go 42-55).                                                      *)
THEOREM RunningTasksAreCounted == Spec => []RunningTaskCounted
<1>1. Init => Known /\ AllAccounted
    BY DataAssumption DEF Init, Known, AllAccounted, Accounted
<1>2. IInv /\ Known /\ AllAccounted /\ [Next]_vars => IInv' /\ Known' /\ AllAccounted'
    BY NextTyped, KnownKept, NextAccounted
<1>3. IInv /\ AllAccounted => RunningTaskCounted
    <2> SUFFICES ASSUME IInv, AllAccounted, NEW i \in Ids, relate[i] # None,
                        relate[i] \notin cancelled, ~IdUsedAgain(relate[i])
                 PROVE  \/ records[i] # None
                        \/ \E w \in DOMAIN worker :
                             worker[w].reg = relate[i] /\ worker[w].pc \in {"report", "stop"}
        BY DEF RunningTaskCounted
    <2>1. relate[i] \in Regs /\ IdOf[relate[i]] = i
        BY DEF IInv, TablesOK, Optional
    <2> QED
        BY <2>1 DEF AllAccounted, Accounted
<1> QED
    BY <1>1, <1>2, <1>3, InitTyped, PTL DEF Spec

-----------------------------------------------------------------------------
(* Where a row is                                                            *)

(* The dispatch goroutine reads the pages of its element.                    *)
Reading == {"page", "row", "drain", "get", "append", "count", "hire", "put"}

(* A row is in one place: its id is in the list and not fetched, or among    *)
(* the ids a dispatch goroutine has still to take; its page is still to be   *)
(* read; it is on a page, in a goroutine's hand, in a channel, with a        *)
(* worker; or it has been handled.                                           *)
Listed(row, x)    == x > fetched + 1 /\ list[x] = IdOf[row.reg]
ToDo(row, b, y)   == /\ y \in DOMAIN b.todo /\ b.todo[y] = IdOf[row.reg]
                     /\ b.pc # "ended" /\ (y > 1 \/ b.pc = "next")
Ahead(row, b)     == b.pc \in Reading /\ b.reg = row.reg /\ b.cursor < row.n
OnPage(row, b, y) == y \in DOMAIN b.page /\ b.page[y] = row

Holds(row, kind, x, y) ==
    \/ kind = "list" /\ y = 0 /\ x \in DOMAIN list /\ Listed(row, x)
    \/ kind = "todo" /\ x \in DOMAIN begun /\ ToDo(row, begun[x], y)
    \/ kind = "ahead" /\ y = 0 /\ x \in DOMAIN begun /\ Ahead(row, begun[x])
    \/ kind = "page" /\ x \in DOMAIN begun /\ OnPage(row, begun[x], y)
    \/ kind = "hand" /\ y = 0 /\ x \in DOMAIN begun /\ begun[x].row = row
    \/ kind = "chan" /\ x \in DOMAIN chans /\ y \in DOMAIN chans[x] /\ chans[x][y] = row
    \/ kind = "work" /\ y = 0 /\ x \in DOMAIN worker /\ worker[x].row = row
    \/ kind = "done" /\ x = 0 /\ y = 0 /\ handled[row] > 0

(* One place holds the row at most, and none before its task is listed.      *)
Sole(row) ==
    /\ \A k, x, y, l, v, w :
         Holds(row, k, x, y) /\ Holds(row, l, v, w) => k = l /\ x = v /\ y = w
    /\ register[row.reg] \notin {"listed", "accepted"} => \A k, x, y : ~Holds(row, k, x, y)
    /\ handled[row] <= 1

AllSole == TakenOff \/ \A row \in Rows : IdUsedAgain(row.reg) \/ Sole(row)

(* Where the place of a row comes from: the moved place from its source, a   *)
(* place of a shifted sequence from the next one, any other from itself.     *)
Source(row, k, x, y, to, from, shift) ==
    \/ <<k, x, y>> = to /\ Holds(row, from[1], from[2], from[3])
    \/ <<k, x>> = shift /\ y \in Nat /\ Holds(row, k, x, y + 1) /\ <<k, x, y + 1>> # from
    \/ <<k, x>> # shift /\ Holds(row, k, x, y) /\ <<k, x, y>> # from

LEMMA Traced ==
    ASSUME NEW row \in Rows, Sole(row), NEW to, NEW from, NEW shift,
           from = <<from[1], from[2], from[3]>>,
           \A k, x, y : Holds(row, k, x, y)' => Source(row, k, x, y, to, from, shift),
           register'[row.reg] \in {"listed", "accepted"} => register[row.reg] \in {"listed", "accepted"},
           register[row.reg] \in {"listed", "accepted"} => register'[row.reg] \in {"listed", "accepted"},
           handled'[row] <= 1
    PROVE  Sole(row)'
<1>1. ASSUME NEW k, NEW x, NEW y, NEW l, NEW v, NEW w,
             Holds(row, k, x, y)', Holds(row, l, v, w)'
      PROVE  k = l /\ x = v /\ y = w
    <2>1. Source(row, k, x, y, to, from, shift) /\ Source(row, l, v, w, to, from, shift)
        BY <1>1
    <2>2. \A p, q, r, s, t, u : Holds(row, p, q, r) /\ Holds(row, s, t, u) => p = s /\ q = t /\ r = u
        BY DEF Sole
    <2>3. CASE <<k, x, y>> = to /\ <<l, v, w>> = to
        BY <2>3
    <2>4. CASE <<k, x, y>> = to /\ <<l, v, w>> # to
        BY <2>1, <2>2, <2>4 DEF Source
    <2>5. CASE <<k, x, y>> # to /\ <<l, v, w>> = to
        BY <2>1, <2>2, <2>5 DEF Source
    <2>6. CASE <<k, x, y>> # to /\ <<l, v, w>> # to
        <3>1. \/ <<k, x>> = shift /\ y \in Nat /\ Holds(row, k, x, y + 1)
              \/ <<k, x>> # shift /\ Holds(row, k, x, y)
            BY <2>1, <2>6 DEF Source
        <3>2. \/ <<l, v>> = shift /\ w \in Nat /\ Holds(row, l, v, w + 1)
              \/ <<l, v>> # shift /\ Holds(row, l, v, w)
            BY <2>1, <2>6 DEF Source
        <3> QED
            BY <2>2, <3>1, <3>2
    <2> QED
        BY <2>3, <2>4, <2>5, <2>6
<1>2. ASSUME register'[row.reg] \notin {"listed", "accepted"}, NEW k, NEW x, NEW y PROVE ~Holds(row, k, x, y)'
    BY <1>2 DEF Sole, Source
<1> QED
    BY <1>1, <1>2 DEF Sole

LEMMA Unmoved ==
    ASSUME NEW row \in Rows, Sole(row), UNCHANGED handled,
           \A k, x, y : Holds(row, k, x, y)' => Holds(row, k, x, y),
           register'[row.reg] \in {"listed", "accepted"} => register[row.reg] \in {"listed", "accepted"},
           register[row.reg] \in {"listed", "accepted"} => register'[row.reg] \in {"listed", "accepted"}
    PROVE  Sole(row)'
<1>1. ASSUME NEW k, NEW x, NEW y, NEW l, NEW v, NEW w,
             Holds(row, k, x, y)', Holds(row, l, v, w)'
      PROVE  k = l /\ x = v /\ y = w
    BY <1>1 DEF Sole
<1>2. handled'[row] <= 1
    BY DEF Sole
<1>3. register'[row.reg] \notin {"listed", "accepted"} => \A k, x, y : ~Holds(row, k, x, y)'
    BY DEF Sole
<1> QED
    BY <1>1, <1>2, <1>3 DEF Sole

(* A step of a dispatch goroutine moves a row out of one of its own fields,  *)
(* or out of a channel, and into one of them.                                *)
Local == {"todo", "ahead", "page", "hand"}

LEMMA BegunPlaces ==
    ASSUME NEW d \in DOMAIN begun, NEW c, begun' = [begun EXCEPT ![d] = c],
           UNCHANGED <<list, fetched, handled>>,
           NEW row, NEW to, NEW from, NEW shift,
           from = <<from[1], from[2], from[3]>>, shift = <<shift[1], shift[2]>>,
           from[1] \in Local \cup {"chan"}, from[1] \in Local => from[2] = d,
           shift[1] \in Local \cup {"chan", "none"}, shift[1] \in Local => shift[2] = d,
           \A y : ToDo(row, c, y) => Source(row, "todo", d, y, to, from, shift),
           Ahead(row, c) => Source(row, "ahead", d, 0, to, from, shift),
           \A y : OnPage(row, c, y) => Source(row, "page", d, y, to, from, shift),
           c.row = row => Source(row, "hand", d, 0, to, from, shift),
           \A x, y : x \in DOMAIN chans' /\ y \in DOMAIN chans'[x] /\ chans'[x][y] = row
                     => Source(row, "chan", x, y, to, from, shift),
           \A x : x \in DOMAIN worker' /\ worker'[x].row = row
                  => x \in DOMAIN worker /\ worker[x].row = row
    PROVE  \A k, x, y : Holds(row, k, x, y)' => Source(row, k, x, y, to, from, shift)
<1> SUFFICES ASSUME NEW k, NEW x, NEW y, Holds(row, k, x, y)'
             PROVE  Source(row, k, x, y, to, from, shift)
    OBVIOUS
<1>1. DOMAIN begun' = DOMAIN begun /\ begun'[d] = c
      /\ \A e \in DOMAIN begun : e # d => begun'[e] = begun[e]
    OBVIOUS
<1>2. ASSUME Holds(row, k, x, y), k \in Local => x # d, k \notin {"chan", "none"}
      PROVE  Source(row, k, x, y, to, from, shift)
    BY <1>2 DEF Source, Local
<1>3. CASE k = "list" \/ k = "done"
    BY <1>2, <1>3 DEF Holds, Listed, Local
<1>4. CASE k = "todo"
    BY <1>1, <1>2, <1>4 DEF Holds, ToDo, Local
<1>5. CASE k = "ahead"
    BY <1>1, <1>2, <1>5 DEF Holds, Ahead, Local
<1>6. CASE k = "page"
    BY <1>1, <1>2, <1>6 DEF Holds, OnPage, Local
<1>7. CASE k = "hand"
    BY <1>1, <1>2, <1>7 DEF Holds, Local
<1>8. CASE k = "chan"
    BY <1>8 DEF Holds
<1>9. CASE k = "work"
    BY <1>2, <1>9 DEF Holds, Local
<1> QED
    BY <1>3, <1>4, <1>5, <1>6, <1>7, <1>8, <1>9 DEF Holds

(* A step that gives the goroutine, the channels and the workers no row they *)
(* did not have.                                                             *)
LEMMA BegunUnmoved ==
    ASSUME NEW d \in DOMAIN begun, NEW c, begun' = [begun EXCEPT ![d] = c],
           UNCHANGED <<list, fetched, handled, register>>, NEW row \in Rows, Sole(row),
           \A y : ToDo(row, c, y) => ToDo(row, begun[d], y),
           Ahead(row, c) => Ahead(row, begun[d]),
           \A y : OnPage(row, c, y) => OnPage(row, begun[d], y),
           c.row = row => begun[d].row = row,
           \A x, y : x \in DOMAIN chans' /\ y \in DOMAIN chans'[x] /\ chans'[x][y] = row
                     => x \in DOMAIN chans /\ y \in DOMAIN chans[x] /\ chans[x][y] = row,
           \A x : x \in DOMAIN worker' /\ worker'[x].row = row
                  => x \in DOMAIN worker /\ worker[x].row = row
    PROVE  Sole(row)'
<1>1. DOMAIN begun' = DOMAIN begun /\ begun'[d] = c
      /\ \A e \in DOMAIN begun : e # d => begun'[e] = begun[e]
    OBVIOUS
<1>2. ASSUME NEW k, NEW x, NEW y, Holds(row, k, x, y)' PROVE Holds(row, k, x, y)
    <2>1. CASE k = "list" \/ k = "done"
        BY <1>2, <2>1 DEF Holds, Listed
    <2>2. CASE k = "todo"
        BY <1>1, <1>2, <2>2 DEF Holds, ToDo
    <2>3. CASE k = "ahead"
        BY <1>1, <1>2, <2>3 DEF Holds, Ahead
    <2>4. CASE k = "page"
        BY <1>1, <1>2, <2>4 DEF Holds, OnPage
    <2>5. CASE k = "hand"
        BY <1>1, <1>2, <2>5 DEF Holds
    <2>6. CASE k = "chan"
        BY <1>2, <2>6 DEF Holds
    <2>7. CASE k = "work"
        BY <1>2, <2>7 DEF Holds
    <2> QED
        BY <1>2, <2>1, <2>2, <2>3, <2>4, <2>5, <2>6, <2>7 DEF Holds
<1> QED
    BY <1>2, Unmoved

(* The rest of a sequence is the sequence, one place on.                     *)
LEMMA Rest ==
    ASSUME NEW S, NEW s \in Seq(S), s # <<>>
    PROVE  /\ Tail(s) \in Seq(S) /\ Head(s) = s[1] /\ 1 \in DOMAIN s /\ Head(s) \in S
           /\ \A y \in DOMAIN Tail(s) :
                y \in Nat /\ y >= 1 /\ y + 1 \in DOMAIN s /\ Tail(s)[y] = s[y + 1] /\ y + 1 # 1
<1>1. /\ Len(s) \in Nat /\ Len(s) >= 1 /\ DOMAIN s = 1..Len(s)
      /\ Head(s) = s[1] /\ Tail(s) \in Seq(S) /\ Len(Tail(s)) = Len(s) - 1
      /\ \A i \in 1..Len(Tail(s)) : Tail(s)[i] = s[i + 1]
    BY HeadTailProperties, LenProperties, EmptySeq
<1>2. DOMAIN Tail(s) = 1..(Len(s) - 1)
    BY <1>1, LenProperties
<1>3. Head(s) \in S
    BY HeadTail
<1> QED
    BY <1>1, <1>2, <1>3

(* The steps of a dispatch goroutine that move nothing.                      *)
LEMMA BeginIdles ==
    ASSUME IInv, NEW d \in DOMAIN begun, NEW row \in Rows, Sole(row), ~TakenOff',
           \/ BeginPageOver(d) \/ BeginGets(d) \/ BeginMakes(d) \/ BeginAppends(d)
           \/ BeginCounts(d) \/ BeginHires(d) \/ BeginStopped(d) \/ BeginPops(d)
           \/ BeginFindsPlace(d)
    PROVE  Sole(row)'
<1> DEFINE b == begun[d]
<1>1. b \in Begins /\ row # None
    <2>1. row.reg \in Regs /\ row.n \in Nat
        BY RowTyped
    <2>2. row \in [reg : Regs, n : Nat]
        BY <2>1 DEF Rows
    <2> QED
        BY <2>2, BeginRecord, DataAssumption
<1>2. UNCHANGED <<list, fetched, handled, register>>
    BY DEF BeginPageOver, BeginGets, BeginMakes, BeginAppends, BeginCounts, BeginHires,
           BeginStopped, BeginPops, BeginFindsPlace, BeginAt, Internal, idManager, calls
<1>3. ASSUME NEW from, NEW c, BeginAt(d, from, c), c.todo = b.todo, b.pc # "next",
             c.reg = b.reg, c.cursor = b.cursor,
             c.pc # "next", b.pc # "ended", c.pc \in Reading => b.pc \in Reading,
             c.page = b.page \/ c.page = <<>>, c.row = b.row,
             \A x, y : x \in DOMAIN chans' /\ y \in DOMAIN chans'[x] /\ chans'[x][y] = row
                     => x \in DOMAIN chans /\ y \in DOMAIN chans[x] /\ chans[x][y] = row,
             \A x : x \in DOMAIN worker' /\ worker'[x].row = row
                  => x \in DOMAIN worker /\ worker[x].row = row
      PROVE  Sole(row)'
    <2>1. begun' = [begun EXCEPT ![d] = c]
        BY <1>3 DEF BeginAt
    <2>2. \A y : ToDo(row, c, y) => ToDo(row, b, y)
        BY <1>3 DEF ToDo
    <2>3. Ahead(row, c) => Ahead(row, b)
        BY <1>3 DEF Ahead
    <2>4. \A y : OnPage(row, c, y) => OnPage(row, b, y)
        BY <1>3 DEF OnPage
    <2> QED
        BY <1>2, <1>3, <2>1, <2>2, <2>3, <2>4, BegunUnmoved
<1>4. CASE BeginPageOver(d)
    <2> DEFINE c == [b EXCEPT !.pc = "page"]
    <2>1. BeginAt(d, "row", c) /\ b.pc = "row" /\ UNCHANGED <<chans, worker>>
        BY <1>4 DEF BeginPageOver, BeginAt, Internal, controller
    <2>2. /\ c.todo = b.todo /\ c.reg = b.reg /\ c.cursor = b.cursor /\ c.row = b.row
          /\ c.pc # "next" /\ (c.pc \in Reading => b.pc \in Reading)
          /\ (c.page = b.page \/ c.page = <<>>)
        BY <1>1, <2>1 DEF Begins, Reading
    <2> HIDE DEF c
    <2> QED
        BY <1>3, <2>1, <2>2
<1>5. CASE BeginGets(d)
    <2>1. PICK k \in HasRoom : BeginAt(d, "get", [b EXCEPT !.pc = "put", !.at = k - 1])
        BY <1>5 DEF BeginGets
    <2> DEFINE c == [b EXCEPT !.pc = "put", !.at = k - 1]
    <2>2. BeginAt(d, "get", c) /\ b.pc = "get" /\ UNCHANGED <<chans, worker>>
        BY <1>5, <2>1 DEF BeginGets, BeginAt, Internal, controller
    <2>3. /\ c.todo = b.todo /\ c.reg = b.reg /\ c.cursor = b.cursor /\ c.row = b.row
          /\ c.pc = "put" /\ b.pc \in Reading /\ c.page = b.page
        BY <1>1, <2>2 DEF Begins, Reading
    <2> HIDE DEF c
    <2> QED
        BY <1>3, <2>2, <2>3
<1>6. CASE BeginMakes(d)
    <2> DEFINE c == [b EXCEPT !.pc = "append", !.seen = taskList]
    <2>1. BeginAt(d, "get", c) /\ b.pc = "get" /\ UNCHANGED <<chans, worker>>
        BY <1>6 DEF BeginMakes, BeginAt, Internal, controller
    <2>2. /\ c.todo = b.todo /\ c.reg = b.reg /\ c.cursor = b.cursor /\ c.row = b.row
          /\ c.pc # "next" /\ (c.pc \in Reading => b.pc \in Reading)
          /\ (c.page = b.page \/ c.page = <<>>)
        BY <1>1, <2>1 DEF Begins, Reading
    <2> HIDE DEF c
    <2> QED
        BY <1>3, <2>1, <2>2
<1>7. CASE BeginStopped(d)
    <2> DEFINE c == [b EXCEPT !.pc = "pop", !.page = <<>>]
    <2>1. BeginAt(d, "row", c) /\ b.pc = "row" /\ UNCHANGED <<chans, worker>>
        BY <1>7 DEF BeginStopped, BeginAt, Internal, controller
    <2>2. /\ c.todo = b.todo /\ c.reg = b.reg /\ c.cursor = b.cursor /\ c.row = b.row
          /\ c.pc # "next" /\ (c.pc \in Reading => b.pc \in Reading)
          /\ (c.page = b.page \/ c.page = <<>>)
        BY <1>1, <2>1 DEF Begins, Reading
    <2> HIDE DEF c
    <2> QED
        BY <1>3, <2>1, <2>2
<1>8. CASE BeginPops(d)
    <2> DEFINE c == [b EXCEPT !.pc = "find"]
    <2>1. BeginAt(d, "pop", c) /\ b.pc = "pop" /\ UNCHANGED <<chans, worker>>
        BY <1>8 DEF BeginPops, BeginAt, controller
    <2>2. /\ c.todo = b.todo /\ c.reg = b.reg /\ c.cursor = b.cursor /\ c.row = b.row
          /\ c.pc # "next" /\ (c.pc \in Reading => b.pc \in Reading)
          /\ (c.page = b.page \/ c.page = <<>>)
        BY <1>1, <2>1 DEF Begins, Reading
    <2> HIDE DEF c
    <2> QED
        BY <1>3, <2>1, <2>2
<1>9. CASE BeginFindsPlace(d)
    <2> DEFINE c(k) == [b EXCEPT !.pc = "remove", !.at = k]
    <2>1. b.pc = "find" /\ UNCHANGED <<chans, worker>>
        BY <1>9 DEF BeginFindsPlace, Internal, controller
    <2>2. CASE BeginAt(d, "find", [b EXCEPT !.pc = "hangUp"])
        <3>1. begun'[d] = [b EXCEPT !.pc = "hangUp"] /\ d \in DOMAIN begun'
            BY <2>2 DEF BeginAt
        <3>2. begun'[d].pc = "hangUp"
            BY <1>1, <3>1 DEF Begins
        <3> QED
            BY <3>1, <3>2 DEF TakenOff
    <2>3. ASSUME NEW k, BeginAt(d, "find", c(k)) PROVE Sole(row)'
        <3>1. /\ c(k).todo = b.todo /\ c(k).reg = b.reg /\ c(k).cursor = b.cursor /\ c(k).row = b.row
              /\ c(k).pc = "remove" /\ c(k).page = b.page
            BY <1>1 DEF Begins
        <3> HIDE DEF c
        <3> QED
            BY <1>3, <2>1, <2>3, <3>1 DEF Reading
    <2> QED
        BY <1>9, <2>2, <2>3 DEF BeginFindsPlace
<1>10. CASE BeginCounts(d)
    <2> DEFINE c == [b EXCEPT !.pc = "hire"]
    <2>1. BeginAt(d, "count", c) /\ b.pc = "count" /\ UNCHANGED <<chans, worker>>
        BY <1>10 DEF BeginCounts, BeginAt, Internal
    <2>2. /\ c.todo = b.todo /\ c.reg = b.reg /\ c.cursor = b.cursor /\ c.row = b.row
          /\ c.pc # "next" /\ (c.pc \in Reading => b.pc \in Reading)
          /\ (c.page = b.page \/ c.page = <<>>)
        BY <1>1, <2>1 DEF Begins, Reading
    <2> HIDE DEF c
    <2> QED
        BY <1>3, <2>1, <2>2
<1>11. CASE BeginAppends(d)
    <2> DEFINE c == [b EXCEPT !.pc = "count", !.seen = <<>>, !.at = top]
    <2>1. worker' = worker /\ chans' = Append(chans, <<>>)
        BY <1>11 DEF BeginAppends
    <2>2. chans \in Seq(Seq(Rows)) /\ Len(chans) \in Nat /\ DOMAIN chans = 1..Len(chans)
        BY LenProperties DEF IInv, ControllerOK
    <2>3. DOMAIN chans' = 1..(Len(chans) + 1) /\ chans'[Len(chans) + 1] = <<>>
          /\ \A x \in DOMAIN chans : chans'[x] = chans[x]
        BY <2>1, <2>2
    <2>4. \A x \in DOMAIN chans' : x \in DOMAIN chans \/ chans'[x] = <<>>
        BY <2>2, <2>3
    <2>5. \A x, y : x \in DOMAIN chans' /\ y \in DOMAIN chans'[x] /\ chans'[x][y] = row
                     => x \in DOMAIN chans /\ y \in DOMAIN chans[x] /\ chans[x][y] = row
        BY <2>3, <2>4
    <2>6. BeginAt(d, "append", c) /\ b.pc = "append"
        BY <1>11 DEF BeginAppends, BeginAt
    <2>7. /\ c.todo = b.todo /\ c.reg = b.reg /\ c.cursor = b.cursor /\ c.row = b.row
          /\ c.pc # "next" /\ (c.pc \in Reading => b.pc \in Reading) /\ c.page = b.page
        BY <1>1, <2>6 DEF Begins, Reading
    <2> HIDE DEF c
    <2> QED
        BY <1>3, <2>1, <2>5, <2>6, <2>7
<1>12. CASE BeginHires(d)
    <2> DEFINE c == [b EXCEPT !.pc = "put", !.at = top]
    <2> DEFINE new == NewWorker(top, taskList[top + 1], b.reg)
    <2>1. chans' = chans /\ worker' = Append(worker, new)
        BY <1>12 DEF BeginHires, controller
    <2>2. new.row = None
        BY DEF NewWorker
    <2>3. worker \in Seq(Workers) /\ Len(worker) \in Nat /\ DOMAIN worker = 1..Len(worker)
        BY LenProperties DEF IInv, WorkersOK
    <2>4. \A x \in DOMAIN worker' : worker'[x].row = row => x \in DOMAIN worker /\ worker[x].row = row
        <3> HIDE DEF new
        <3>1. DOMAIN worker' = 1..(Len(worker) + 1) /\ worker'[Len(worker) + 1] = new
              /\ \A x \in DOMAIN worker : worker'[x] = worker[x]
            BY <2>1, <2>3
        <3>2. \A x \in DOMAIN worker' : x \in DOMAIN worker \/ worker'[x] = new
            BY <2>3, <3>1
        <3> QED
            BY <1>1, <2>2, <3>1, <3>2
    <2>6. BeginAt(d, "hire", c) /\ b.pc = "hire"
        BY <1>12 DEF BeginHires, BeginAt
    <2>7. /\ c.todo = b.todo /\ c.reg = b.reg /\ c.cursor = b.cursor /\ c.row = b.row
          /\ c.pc # "next" /\ (c.pc \in Reading => b.pc \in Reading) /\ c.page = b.page
        BY <1>1, <2>6 DEF Begins, Reading
    <2> HIDE DEF c
    <2> QED
        BY <1>3, <2>1, <2>4, <2>6, <2>7
<1> QED
    BY <1>4, <1>5, <1>6, <1>7, <1>8, <1>9, <1>10, <1>11, <1>12

(* A page holds the rows after the cursor, one after the other.              *)
LEMMA PageRows ==
    ASSUME NEW r \in Regs, NEW cursor \in Nat, NEW page \in Pages(r, cursor), page # <<>>
    PROVE  /\ Len(page) \in Nat /\ Len(page) \in DOMAIN page /\ DOMAIN page = 1..Len(page)
           /\ \A y \in DOMAIN page : page[y].reg = r /\ page[y].n = cursor + y
<1> DEFINE n == Len(Samples[r])
           f == [k \in 1..n |-> [reg |-> r, n |-> k]]
           m == IF cursor + PageSize < n THEN cursor + PageSize ELSE n
<1>1. n \in Nat /\ PageSize \in Nat
    BY DataAssumption, LenProperties
<1>2. page = SubSeq(f, cursor + 1, m)
    BY DEF Pages, PageAfter
<1>3. m \in Int /\ m <= n
    BY <1>1
<1>4. \A k \in (cursor + 1)..m : f[k] \in {[reg |-> r, n |-> h] : h \in 1..n} /\ f[k].reg = r /\ f[k].n = k
    <2>1. \A k \in (cursor + 1)..m : k \in 1..n
        BY <1>1, <1>3
    <2>2. \A k \in 1..n : f[k] = [reg |-> r, n |-> k]
        OBVIOUS
    <2> QED
        BY <2>1, <2>2
<1>5. /\ Len(page) = IF cursor + 1 <= m THEN m - (cursor + 1) + 1 ELSE 0
      /\ \A y \in 1..(m - (cursor + 1) + 1) : page[y] = f[cursor + 1 + y - 1]
      /\ page \in Seq({[reg |-> r, n |-> h] : h \in 1..n})
    <2>1. cursor + 1 \in Int
        OBVIOUS
    <2> HIDE DEF f, m, n
    <2> QED
        BY <1>2, <1>3, <1>4, <2>1, SubSeqProperties
<1>6. DOMAIN page = 1..Len(page) /\ Len(page) \in Nat /\ Len(page) # 0
    BY <1>5, LenProperties, EmptySeq
<1>7. cursor + 1 <= m /\ Len(page) = m - cursor
    <2> HIDE DEF m
    <2> QED
        BY <1>3, <1>5, <1>6
<1>8. ASSUME NEW y \in DOMAIN page PROVE page[y].reg = r /\ page[y].n = cursor + y
    <2> HIDE DEF m, f
    <2>1. y \in 1..(m - (cursor + 1) + 1) /\ cursor + y \in (cursor + 1)..m
          /\ cursor + 1 + y - 1 = cursor + y
        BY <1>3, <1>6, <1>7
    <2>2. page[y] = f[cursor + y]
        BY <1>5, <2>1
    <2>3. f[cursor + y].reg = r /\ f[cursor + y].n = cursor + y
        BY <1>4, <2>1
    <2> QED
        BY <2>2, <2>3
<1>9. Len(page) \in DOMAIN page
    BY <1>6
<1> QED
    BY <1>6, <1>8, <1>9

(* Taking a task: its id leaves the ids to do, its pages are to be read.     *)
LEMMA TaskSole ==
    ASSUME IInv, NEW d \in DOMAIN begun, NEW row \in Rows, Sole(row), BeginTask(d)
    PROVE  Sole(row)'
<1> DEFINE b == begun[d]
<1>1. b \in Begins /\ b.todo \in Seq(Ids) /\ b.pc = "next"
    BY BeginRecord DEF BeginTask, BeginAt, Begins
<1>2. UNCHANGED <<list, fetched, handled, register, chans, worker>>
    BY DEF BeginTask, BeginAt, Internal, idManager, controller, calls
<1>3. CASE b.todo = <<>> \/ relate[Head(b.todo)] = None
    <2> DEFINE c == [b EXCEPT !.pc = "ended"]
    <2>1. begun' = [begun EXCEPT ![d] = c]
        BY <1>3 DEF BeginTask, BeginAt
    <2>2. c.pc = "ended" /\ c.page = b.page /\ c.row = b.row
        BY <1>1 DEF Begins
    <2> HIDE DEF c
    <2> QED
        BY <1>2, <2>1, <2>2, BegunUnmoved DEF ToDo, Ahead, OnPage, Reading
<1>4. CASE ~(b.todo = <<>> \/ relate[Head(b.todo)] = None)
    <2> DEFINE i == Head(b.todo)
               c == [b EXCEPT !.pc = "page", !.reg = relate[i], !.cursor = 0]
               to == <<"ahead", d, 0>>
               from == <<"todo", d, 1>>
               shift == <<"none", 0>>
    <2>1. begun' = [begun EXCEPT ![d] = c]
        BY <1>4 DEF BeginTask, BeginAt
    <2>2. c.pc = "page" /\ c.page = b.page /\ c.row = b.row /\ c.reg = relate[i] /\ c.todo = b.todo
        BY <1>1 DEF Begins
    <2>3. i \in Ids /\ i = b.todo[1] /\ 1 \in DOMAIN b.todo
        BY <1>1, <1>4, Rest
    <2>4. IdOf[relate[i]] = i
        BY <1>4, <2>3 DEF IInv, TablesOK
    <2> HIDE DEF c, i
    <2>5. \A y : ToDo(row, c, y) => Source(row, "todo", d, y, to, from, shift)
        BY <1>1, <2>2 DEF ToDo, Source, Holds
    <2>6. Ahead(row, c) => Source(row, "ahead", d, 0, to, from, shift)
        <3>1. Ahead(row, c) => Holds(row, "todo", d, 1)
            BY <1>1, <2>2, <2>3, <2>4 DEF Ahead, Holds, ToDo
        <3> QED
            BY <3>1 DEF Source
    <2>7. \A y : OnPage(row, c, y) => Source(row, "page", d, y, to, from, shift)
        BY <2>2 DEF OnPage, Source, Holds
    <2>8. c.row = row => Source(row, "hand", d, 0, to, from, shift)
        BY <2>2 DEF Source, Holds
    <2>9. \A x, y : x \in DOMAIN chans' /\ y \in DOMAIN chans'[x] /\ chans'[x][y] = row
                     => Source(row, "chan", x, y, to, from, shift)
        BY <1>2 DEF Source, Holds
    <2>10. \A k, x, y : Holds(row, k, x, y)' => Source(row, k, x, y, to, from, shift)
        BY <1>2, <2>1, <2>5, <2>6, <2>7, <2>8, <2>9, BegunPlaces DEF Local
    <2> QED
        BY <1>2, <2>10, Traced DEF Sole
<1> QED
    BY <1>3, <1>4

LEMMA PageSole ==
    ASSUME IInv, NEW d \in DOMAIN begun, NEW row \in Rows, Sole(row), BeginPage(d)
    PROVE  Sole(row)'
<1> DEFINE b == begun[d]
<1>1. /\ b \in Begins /\ b.todo \in Seq(Ids) /\ b.todo # <<>> /\ b.reg \in Regs
      /\ b.cursor \in Nat /\ b.pc = "page"
    BY BeginRecord DEF BeginPage, BeginSound, Begins
<1>2. UNCHANGED <<list, fetched, handled, register, chans, worker>>
    BY DEF BeginPage, BeginAt, Internal, idManager, controller, calls
<1>3. PICK page \in Pages(b.reg, b.cursor) : BeginAt(d, "page",
          IF page = <<>> THEN NextTask(b)
          ELSE [b EXCEPT !.pc = "row", !.page = page, !.cursor = page[Len(page)].n])
    BY DEF BeginPage
<1>4. row.n \in Nat
    BY RowTyped
(* No more pages: the ids still to do move on.                               *)
<1>5. CASE page = <<>>
    <2> DEFINE c == NextTask(b)
               to == <<"none", 0, 0>>
               from == <<"todo", d, 1>>
               shift == <<"todo", d>>
    <2>1. begun' = [begun EXCEPT ![d] = c]
        BY <1>3, <1>5 DEF BeginAt
    <2>2. c.pc = "next" /\ c.todo = Tail(b.todo) /\ c.page = b.page /\ c.row = b.row
        BY <1>1 DEF NextTask, Begins
    <2> HIDE DEF c
    <2>3. ASSUME NEW y, ToDo(row, c, y) PROVE Source(row, "todo", d, y, to, from, shift)
        <3>1. y \in DOMAIN Tail(b.todo) /\ Tail(b.todo)[y] = IdOf[row.reg]
            BY <2>2, <2>3 DEF ToDo
        <3>2. y \in Nat /\ y >= 1 /\ y + 1 \in DOMAIN b.todo /\ Tail(b.todo)[y] = b.todo[y + 1]
            BY <1>1, <3>1, Rest
        <3>3. y + 1 > 1 /\ y + 1 # 1
            BY <3>2
        <3>4. Holds(row, "todo", d, y + 1)
            BY <1>1, <3>1, <3>2, <3>3 DEF Holds, ToDo
        <3> QED
            BY <3>2, <3>3, <3>4 DEF Source
    <2>4. ~Ahead(row, c)
        BY <2>2 DEF Ahead, Reading
    <2>5. \A y : OnPage(row, c, y) => Source(row, "page", d, y, to, from, shift)
        BY <2>2 DEF OnPage, Source, Holds
    <2>6. c.row = row => Source(row, "hand", d, 0, to, from, shift)
        BY <2>2 DEF Source, Holds
    <2>7. \A x, y : x \in DOMAIN chans' /\ y \in DOMAIN chans'[x] /\ chans'[x][y] = row
                     => Source(row, "chan", x, y, to, from, shift)
        BY <1>2 DEF Source, Holds
    <2>8. \A k, x, y : Holds(row, k, x, y)' => Source(row, k, x, y, to, from, shift)
        BY <1>2, <2>1, <2>3, <2>4, <2>5, <2>6, <2>7, BegunPlaces DEF Local
    <2> QED
        BY <1>2, <2>8, Traced DEF Sole
<1>6. CASE page # <<>>
    <2> DEFINE last == page[Len(page)].n
               c == [b EXCEPT !.pc = "row", !.page = page, !.cursor = last]
    <2>1. begun' = [begun EXCEPT ![d] = c]
        BY <1>3, <1>6 DEF BeginAt
    <2>2. /\ Len(page) \in Nat /\ DOMAIN page = 1..Len(page) /\ last = b.cursor + Len(page)
          /\ \A y \in DOMAIN page : page[y].reg = b.reg /\ page[y].n = b.cursor + y
        BY <1>1, <1>6, PageRows
    <2>3. c.pc = "row" /\ c.todo = b.todo /\ c.page = page /\ c.row = b.row /\ c.reg = b.reg
          /\ c.cursor = last
        BY <1>1 DEF Begins
    <2> HIDE DEF c, last
    <2>4. ASSUME NEW y, OnPage(row, c, y)
          PROVE  /\ row.reg = b.reg /\ b.cursor < row.n /\ row.n <= last /\ y = row.n - b.cursor
        <3>1. y \in 1..Len(page) /\ row.reg = b.reg /\ row.n = b.cursor + y
            BY <2>2, <2>3, <2>4 DEF OnPage
        <3>2. b.cursor \in Nat /\ Len(page) \in Nat /\ last = b.cursor + Len(page)
            BY <1>1, <2>2
        <3> QED
            BY <3>1, <3>2
    <2>5. last >= b.cursor /\ last \in Nat
        BY <1>1, <2>2
(* The row is on the page that was read.                                     *)
    <2>6. CASE row.reg = b.reg /\ b.cursor < row.n /\ row.n <= last
        <3> DEFINE to == <<"page", d, row.n - b.cursor>>
                   from == <<"ahead", d, 0>>
                   shift == <<"none", 0>>
        <3>1. Holds(row, "ahead", d, 0)
            BY <1>1, <2>6 DEF Holds, Ahead, Reading
        <3>2. \A y : ToDo(row, c, y) => Source(row, "todo", d, y, to, from, shift)
            BY <1>1, <2>3 DEF ToDo, Source, Holds
        <3>3. ~Ahead(row, c)
            BY <1>4, <2>3, <2>5, <2>6 DEF Ahead
        <3>4. \A y : OnPage(row, c, y) => Source(row, "page", d, y, to, from, shift)
            BY <2>4, <3>1 DEF Source
        <3>5. c.row = row => Source(row, "hand", d, 0, to, from, shift)
            BY <2>3 DEF Source, Holds
        <3>6. \A x, y : x \in DOMAIN chans' /\ y \in DOMAIN chans'[x] /\ chans'[x][y] = row
                         => Source(row, "chan", x, y, to, from, shift)
            BY <1>2 DEF Source, Holds
        <3>7. \A k, x, y : Holds(row, k, x, y)' => Source(row, k, x, y, to, from, shift)
            BY <1>2, <2>1, <3>2, <3>3, <3>4, <3>5, <3>6, BegunPlaces DEF Local
        <3> QED
            BY <1>2, <3>7, Traced DEF Sole
(* It is not: it may be on a later one.                                      *)
    <2>7. CASE ~(row.reg = b.reg /\ b.cursor < row.n /\ row.n <= last)
        <3>1. \A y : ToDo(row, c, y) => ToDo(row, b, y)
            BY <1>1, <2>3 DEF ToDo
        <3>2. Ahead(row, c) => Ahead(row, b)
            <4>1. last < row.n => b.cursor < row.n
                BY <1>1, <1>4, <2>5
            <4> QED
                BY <1>1, <2>3, <4>1 DEF Ahead, Reading
        <3>3. \A y : ~OnPage(row, c, y)
            BY <2>4, <2>7
        <3> QED
            BY <1>2, <2>1, <2>3, <3>1, <3>2, <3>3, BegunUnmoved
    <2> QED
        BY <2>6, <2>7
<1> QED
    BY <1>5, <1>6

(* A row leaves its page: it is taken in hand, or forgotten when a worker    *)
(* has announced its end.                                                    *)
LEMMA OffPageSole ==
    ASSUME IInv, NEW d \in DOMAIN begun, NEW row \in Rows, Sole(row),
           BeginRow(d) \/ BeginDrain(d)
    PROVE  Sole(row)'
<1> DEFINE b == begun[d]
           to == <<"hand", d, 0>>
           from == <<"page", d, 1>>
           shift == <<"page", d>>
<1>1. b \in Begins /\ b.page \in Seq(Rows) /\ b.page # <<>> /\ b.pc = "row"
    BY BeginRecord DEF BeginRow, BeginDrain, BeginAt, Begins
<1>2. UNCHANGED <<list, fetched, handled, register, chans, worker>>
    BY DEF BeginRow, BeginDrain, BeginAt, Internal, idManager, controller, calls
<1>3. PICK c : /\ begun' = [begun EXCEPT ![d] = c] /\ c.page = Tail(b.page)
               /\ c.todo = b.todo /\ c.reg = b.reg /\ c.cursor = b.cursor
               /\ c.pc \in {"get", "drain"} /\ (c.row = b.row \/ c.row = Head(b.page))
    <2>1. CASE BeginRow(d)
        <3> DEFINE c == [b EXCEPT !.pc = "get", !.row = Head(b.page), !.page = Tail(@)]
        <3>1. begun' = [begun EXCEPT ![d] = c]
            BY <2>1 DEF BeginRow, BeginAt
        <3>2. /\ c.page = Tail(b.page) /\ c.todo = b.todo /\ c.reg = b.reg /\ c.cursor = b.cursor
              /\ c.pc = "get" /\ c.row = Head(b.page)
            BY <1>1 DEF Begins
        <3> HIDE DEF c
        <3> QED
            BY <3>1, <3>2
    <2>2. CASE BeginDrain(d)
        <3> DEFINE c == [b EXCEPT !.pc = "drain", !.page = Tail(@), !.drain = taskList[Head(singles) + 1]]
        <3>1. begun' = [begun EXCEPT ![d] = c]
            BY <2>2 DEF BeginDrain, BeginAt
        <3>2. /\ c.page = Tail(b.page) /\ c.todo = b.todo /\ c.reg = b.reg /\ c.cursor = b.cursor
              /\ c.pc = "drain" /\ c.row = b.row
            BY <1>1 DEF Begins
        <3> HIDE DEF c
        <3> QED
            BY <3>1, <3>2
    <2> QED
        BY <2>1, <2>2
<1>4. \A y : ToDo(row, c, y) => Source(row, "todo", d, y, to, from, shift)
    BY <1>1, <1>3 DEF ToDo, Source, Holds
<1>5. Ahead(row, c) => Source(row, "ahead", d, 0, to, from, shift)
    BY <1>1, <1>3 DEF Ahead, Reading, Source, Holds
<1>6. ASSUME NEW y, OnPage(row, c, y) PROVE Source(row, "page", d, y, to, from, shift)
    <2>1. y \in DOMAIN Tail(b.page) /\ Tail(b.page)[y] = row
        BY <1>3, <1>6 DEF OnPage
    <2>2. y \in Nat /\ y + 1 \in DOMAIN b.page /\ b.page[y + 1] = row /\ y + 1 # 1
        BY <1>1, <2>1, Rest
    <2> QED
        BY <2>2 DEF Source, Holds, OnPage
<1>7. c.row = row => Source(row, "hand", d, 0, to, from, shift)
    <2>1. Head(b.page) = row => Holds(row, "page", d, 1)
        BY <1>1, Rest DEF Holds, OnPage
    <2>2. b.row = row => Holds(row, "hand", d, 0)
        BY DEF Holds
    <2> QED
        BY <1>3, <2>1, <2>2 DEF Source
<1>8. \A x, y : x \in DOMAIN chans' /\ y \in DOMAIN chans'[x] /\ chans'[x][y] = row
                 => Source(row, "chan", x, y, to, from, shift)
    BY <1>2 DEF Source, Holds
<1>9. \A k, x, y : Holds(row, k, x, y)' => Source(row, k, x, y, to, from, shift)
    BY <1>2, <1>3, <1>4, <1>5, <1>6, <1>7, <1>8, BegunPlaces DEF Local
<1> QED
    BY <1>2, <1>9, Traced DEF Sole

(* A row moves between a channel and a goroutine's hand.                     *)
LEMMA AgainSole ==
    ASSUME IInv, NEW d \in DOMAIN begun, NEW row \in Rows, Sole(row), BeginAgain(d)
    PROVE  Sole(row)'
<1> DEFINE b == begun[d]
           ch == b.drain
           c == [b EXCEPT !.pc = "get", !.row = Head(chans[ch])]
           to == <<"hand", d, 0>>
           from == <<"chan", ch, 1>>
           shift == <<"chan", ch>>
<1>1. /\ b \in Begins /\ b.pc = "drain" /\ ch # 0 /\ ch \in Nat /\ ch <= Len(chans)
      /\ chans[ch] # <<>>
    BY BeginRecord DEF BeginAgain, BeginAt, BeginSound, Begins
<1>2. UNCHANGED <<list, fetched, handled, register, worker>>
    BY DEF BeginAgain, BeginAt, idManager, calls
<1>3. /\ begun' = [begun EXCEPT ![d] = c] /\ chans' = [chans EXCEPT ![ch] = Tail(@)]
    BY DEF BeginAgain, BeginAt
<1>4. chans \in Seq(Seq(Rows)) /\ ch \in DOMAIN chans
    BY <1>1, LenProperties DEF IInv, ControllerOK
<1>5. chans[ch] \in Seq(Rows)
    BY <1>4, Member
<1>6. /\ c.pc = "get" /\ c.row = Head(chans[ch]) /\ c.todo = b.todo /\ c.reg = b.reg
      /\ c.cursor = b.cursor /\ c.page = b.page
    BY <1>1 DEF Begins
<1> HIDE DEF c
<1>7. \A y : ToDo(row, c, y) => Source(row, "todo", d, y, to, from, shift)
    BY <1>1, <1>6 DEF ToDo, Source, Holds
<1>8. Ahead(row, c) => Source(row, "ahead", d, 0, to, from, shift)
    BY <1>1, <1>6 DEF Ahead, Reading, Source, Holds
<1>9. \A y : OnPage(row, c, y) => Source(row, "page", d, y, to, from, shift)
    BY <1>6 DEF OnPage, Source, Holds
<1>10. c.row = row => Source(row, "hand", d, 0, to, from, shift)
    BY <1>1, <1>4, <1>5, <1>6, Rest DEF Source, Holds
<1>11. ASSUME NEW x, NEW y, x \in DOMAIN chans', y \in DOMAIN chans'[x], chans'[x][y] = row
       PROVE  Source(row, "chan", x, y, to, from, shift)
    <2>1. CASE x = ch
        <3>1. chans'[ch] = Tail(chans[ch])
            BY <1>3, <1>4
        <3>2. y \in Nat /\ y + 1 \in DOMAIN chans[ch] /\ chans[ch][y + 1] = row /\ y + 1 # 1
            BY <1>1, <1>5, <1>11, <2>1, <3>1, Rest
        <3> QED
            BY <1>4, <2>1, <3>2 DEF Source, Holds
    <2>2. CASE x # ch
        <3>1. x \in DOMAIN chans /\ chans'[x] = chans[x]
            BY <1>3, <1>11, <2>2
        <3> QED
            BY <1>11, <2>2, <3>1 DEF Source, Holds
    <2> QED
        BY <2>1, <2>2
<1>12. \A k, x, y : Holds(row, k, x, y)' => Source(row, k, x, y, to, from, shift)
    BY <1>2, <1>3, <1>7, <1>8, <1>9, <1>10, <1>11, BegunPlaces DEF Local
<1> QED
    BY <1>2, <1>12, Traced DEF Sole

LEMMA PutsSole ==
    ASSUME IInv, NEW d \in DOMAIN begun, NEW row \in Rows, Sole(row), BeginPuts(d)
    PROVE  Sole(row)'
<1> DEFINE b == begun[d]
           ch == taskList[b.at + 1]
           c == [b EXCEPT !.pc = IF b.drain = 0 THEN "row" ELSE "drain", !.row = None, !.at = 0]
           to == <<"chan", ch, Len(chans[ch]) + 1>>
           from == <<"hand", d, 0>>
           shift == <<"none", 0>>
<1>1. b \in Begins /\ b.pc = "put" /\ b.at \in Nat /\ b.row \in Rows /\ b.at < Len(taskList)
    BY BeginRecord DEF BeginPuts, BeginAt, BeginSound
<1>2. UNCHANGED <<list, fetched, handled, register, worker>>
    BY DEF BeginPuts, BeginAt, idManager, calls
<1>3. /\ begun' = [begun EXCEPT ![d] = c] /\ chans' = [chans EXCEPT ![ch] = Append(@, b.row)]
    BY DEF BeginPuts, BeginAt
<1>4. chans \in Seq(Seq(Rows)) /\ ch \in DOMAIN chans /\ chans[ch] \in Seq(Rows)
    <2>1. /\ taskList \in Seq(Channels) /\ Len(taskList) \in Nat
          /\ DOMAIN taskList = 1..Len(taskList) /\ chans \in Seq(Seq(Rows))
        BY LenProperties DEF IInv, ControllerOK
    <2>2. b.at + 1 \in DOMAIN taskList
        BY <1>1, <2>1
    <2>3. ch \in Channels
        BY <2>1, <2>2, Member
    <2> QED
        BY <2>1, <2>3, Member DEF Channels
<1>5. row # None
    <2>1. row \in [reg : Regs, n : Nat]
        BY RowTyped DEF Rows
    <2> QED
        BY <2>1, DataAssumption
<1>6. /\ c.pc \in {"row", "drain"} /\ c.row = None /\ c.todo = b.todo /\ c.reg = b.reg
      /\ c.cursor = b.cursor /\ c.page = b.page
    BY <1>1 DEF Begins
<1> HIDE DEF c, ch
<1>7. \A y : ToDo(row, c, y) => Source(row, "todo", d, y, to, from, shift)
    BY <1>1, <1>6 DEF ToDo, Source, Holds
<1>8. Ahead(row, c) => Source(row, "ahead", d, 0, to, from, shift)
    BY <1>1, <1>6 DEF Ahead, Reading, Source, Holds
<1>9. \A y : OnPage(row, c, y) => Source(row, "page", d, y, to, from, shift)
    BY <1>6 DEF OnPage, Source, Holds
<1>10. c.row # row
    BY <1>5, <1>6
<1>11. ASSUME NEW x, NEW y, x \in DOMAIN chans', y \in DOMAIN chans'[x], chans'[x][y] = row
       PROVE  Source(row, "chan", x, y, to, from, shift)
    <2>1. CASE x = ch
        <3>1. chans'[ch] = Append(chans[ch], b.row)
            BY <1>3, <1>4
        <3>2. \/ y = Len(chans[ch]) + 1 /\ b.row = row
              \/ y \in DOMAIN chans[ch] /\ chans[ch][y] = row
            <4>1. /\ Len(chans[ch]) \in Nat /\ DOMAIN chans[ch] = 1..Len(chans[ch])
                  /\ DOMAIN Append(chans[ch], b.row) = 1..(Len(chans[ch]) + 1)
                  /\ \A j \in DOMAIN Append(chans[ch], b.row) : Append(chans[ch], b.row)[j] =
                        IF j = Len(chans[ch]) + 1 THEN b.row ELSE chans[ch][j]
                BY <1>1, <1>4, Extended
            <4> QED
                BY <1>11, <2>1, <3>1, <4>1
        <3>3. b.row = row => Holds(row, "hand", d, 0)
            BY DEF Holds
        <3> QED
            BY <1>4, <2>1, <3>2, <3>3 DEF Source, Holds
    <2>2. CASE x # ch
        <3>1. x \in DOMAIN chans /\ chans'[x] = chans[x]
            BY <1>3, <1>11, <2>2
        <3> QED
            BY <1>11, <2>2, <3>1 DEF Source, Holds
    <2> QED
        BY <2>1, <2>2
<1>12. \A k, x, y : Holds(row, k, x, y)' => Source(row, k, x, y, to, from, shift)
    BY <1>2, <1>3, <1>7, <1>8, <1>9, <1>10, <1>11, BegunPlaces DEF Local
<1> QED
    BY <1>2, <1>12, Traced DEF Sole

(* The taking of an id off the list is the end of what is claimed.           *)
LEMMA BeginSole ==
    ASSUME IInv, NEW d \in DOMAIN begun, NEW row \in Rows, Sole(row), ~TakenOff', BeginNext(d)
    PROVE  Sole(row)'
<1> DEFINE b == begun[d]
<1>1. b \in Begins
    BY BeginRecord
<1>2. CASE BeginRemoves(d)
    <2> DEFINE c == [b EXCEPT !.pc = IF MatchesAgain(Head(b.todo), b.at) THEN "stuck" ELSE "hangUp"]
    <2>1. begun' = [begun EXCEPT ![d] = c]
        BY <1>2 DEF BeginRemoves, BeginAt
    <2>2. c.pc \in {"stuck", "hangUp"}
        BY <1>1 DEF Begins
    <2> HIDE DEF c
    <2> QED
        BY <2>1, <2>2 DEF TakenOff
<1>3. CASE BeginHangsUp(d)
    <2> DEFINE c == [b EXCEPT !.pc = "release"]
    <2>1. begun' = [begun EXCEPT ![d] = c]
        BY <1>3 DEF BeginHangsUp, BeginAt
    <2>2. c.pc = "release"
        BY <1>1 DEF Begins
    <2> HIDE DEF c
    <2> QED
        BY <2>1, <2>2 DEF TakenOff
<1>4. CASE BeginReleases(d)
    BY <1>4 DEF BeginReleases, TakenOff
<1>5. CASE BeginPanics(d)
    <2>1. UNCHANGED <<list, fetched, handled, register, begun, chans, worker>>
        BY <1>5 DEF BeginPanics, Panics, idManager, controller, history, calls
    <2>2. \A k, x, y : Holds(row, k, x, y)' => Holds(row, k, x, y)
        BY <2>1 DEF Holds, Listed, ToDo, Ahead, OnPage
    <2> QED
        BY <2>1, <2>2, Unmoved
<1> QED
    BY <1>2, <1>3, <1>4, <1>5, BeginIdles, TaskSole, PageSole, OffPageSole, AgainSole, PutsSole
    DEF BeginNext

(* A worker takes a row from its channel.                                    *)
LEMMA TakesSole ==
    ASSUME IInv, NEW w \in DOMAIN worker, NEW row \in Rows, Sole(row), WorkerTakes(w)
    PROVE  Sole(row)'
<1> DEFINE v == worker[w]
           ch == v.chan
           u == [v EXCEPT !.pc = "handle", !.row = Head(chans[ch])]
           to == <<"work", w, 0>>
           from == <<"chan", ch, 1>>
           shift == <<"chan", ch>>
<1>1. v \in Workers /\ chans[ch] # <<>>
    BY Member DEF IInv, WorkersOK, WorkerTakes
<1>2. UNCHANGED <<list, fetched, handled, register, begun>>
    BY DEF WorkerTakes, WorkerAt, idManager, calls, history
<1>3. worker' = [worker EXCEPT ![w] = u] /\ chans' = [chans EXCEPT ![ch] = Tail(@)]
    BY DEF WorkerTakes, WorkerAt
<1>4. chans \in Seq(Seq(Rows)) /\ ch \in DOMAIN chans
    BY <1>1 DEF IInv, ControllerOK, Workers, Channels
<1>5. chans[ch] \in Seq(Rows)
    BY <1>4, Member
<1>6. u.row = Head(chans[ch])
    BY <1>1 DEF Workers
<1>7. DOMAIN worker' = DOMAIN worker /\ worker'[w] = u
      /\ \A x \in DOMAIN worker : x # w => worker'[x] = worker[x]
    BY <1>3
<1> HIDE DEF u
<1>8. ASSUME NEW k, NEW x, NEW y, Holds(row, k, x, y)' PROVE Source(row, k, x, y, to, from, shift)
    <2>1. CASE k = "work"
        <3>1. CASE x = w
            BY <1>1, <1>4, <1>5, <1>6, <1>7, <1>8, <2>1, <3>1, Rest DEF Holds, Source
        <3>2. CASE x # w
            BY <1>7, <1>8, <2>1, <3>2 DEF Holds, Source
        <3> QED
            BY <3>1, <3>2
    <2>2. CASE k = "chan" /\ x = ch
        <3>1. chans'[ch] = Tail(chans[ch]) /\ y \in DOMAIN chans'[ch] /\ chans'[ch][y] = row
            BY <1>3, <1>4, <1>8, <2>2 DEF Holds
        <3>2. y \in Nat /\ y + 1 \in DOMAIN chans[ch] /\ chans[ch][y + 1] = row /\ y + 1 # 1
            BY <1>1, <1>5, <3>1, Rest
        <3> QED
            BY <1>4, <2>2, <3>2 DEF Source, Holds
    <2>3. CASE k = "chan" /\ x # ch
        <3>1. x \in DOMAIN chans /\ chans'[x] = chans[x] /\ y \in DOMAIN chans'[x] /\ chans'[x][y] = row
            BY <1>3, <1>8, <2>3 DEF Holds
        <3> QED
            BY <2>3, <3>1 DEF Source, Holds
    <2>4. CASE k \notin {"work", "chan"}
        <3>1. Holds(row, k, x, y)
            BY <1>2, <1>8, <2>4 DEF Holds, Listed, ToDo, Ahead, OnPage
        <3> QED
            BY <2>4, <3>1 DEF Source
    <2> QED
        BY <2>1, <2>2, <2>3, <2>4
<1> QED
    BY <1>2, <1>8, Traced DEF Sole

(* It handles it.                                                            *)
LEMMA HandlesSole ==
    ASSUME IInv, NEW w \in DOMAIN worker, NEW row \in Rows, Sole(row), WorkerHandles(w)
    PROVE  Sole(row)'
<1> DEFINE v == worker[w]
           to == <<"done", 0, 0>>
           from == <<"work", w, 0>>
           shift == <<"none", 0>>
<1>1. v \in Workers /\ v.pc = "handle" /\ v.row \in Rows
    BY Member DEF IInv, WorkersOK, WorkerHandles
<1>2. UNCHANGED <<list, fetched, register, begun, chans>>
    BY DEF WorkerHandles, WorkerAt, idManager, calls
<1>3. PICK u : worker' = [worker EXCEPT ![w] = u] /\ u.row = None
    <2>1. PICK failed, some : worker' = [worker EXCEPT ![w] = [v EXCEPT
              !.row = None, !.errors = failed, !.sends = some,
              !.pc = IF failed > 0 THEN "count" ELSE IF some THEN "send" ELSE "idle"]]
        BY DEF WorkerHandles, WorkerAt
    <2> DEFINE u == [v EXCEPT
              !.row = None, !.errors = failed, !.sends = some,
              !.pc = IF failed > 0 THEN "count" ELSE IF some THEN "send" ELSE "idle"]
    <2>2. u.row = None
        BY <1>1 DEF Workers
    <2> HIDE DEF u
    <2> QED
        BY <2>1, <2>2 DEF u
<1>4. handled' = [handled EXCEPT ![v.row] = @ + 1] /\ handled \in [Rows -> Nat]
    BY DEF WorkerHandles, IInv, HistoryOK
<1>5. row # None
    <2>1. row \in [reg : Regs, n : Nat]
        BY RowTyped DEF Rows
    <2> QED
        BY <2>1, DataAssumption
<1>6. DOMAIN worker' = DOMAIN worker /\ worker'[w] = u
      /\ \A x \in DOMAIN worker : x # w => worker'[x] = worker[x]
    BY <1>3
<1>7. v.row = row => Holds(row, "work", w, 0)
    BY DEF Holds
<1>8. v.row = row => handled[row] = 0
    <2> SUFFICES ASSUME v.row = row, handled[row] > 0 PROVE FALSE
        BY <1>4
    <2>1. Holds(row, "done", 0, 0)
        BY DEF Holds
    <2> QED
        BY <1>7, <2>1 DEF Sole
<1>9. handled'[row] <= 1 /\ (handled'[row] > 0 => v.row = row \/ handled[row] > 0)
    BY <1>1, <1>4, <1>8 DEF Sole
<1>10. ASSUME NEW k, NEW x, NEW y, Holds(row, k, x, y)' PROVE Source(row, k, x, y, to, from, shift)
    <2>1. CASE k = "work"
        BY <1>3, <1>5, <1>6, <1>10, <2>1 DEF Holds, Source
    <2>2. CASE k = "done"
        BY <1>7, <1>9, <1>10, <2>2 DEF Holds, Source
    <2>3. CASE k \notin {"work", "done"}
        <3>1. Holds(row, k, x, y) /\ k # "none"
            BY <1>2, <1>10, <2>3 DEF Holds, Listed, ToDo, Ahead, OnPage
        <3> QED
            BY <2>3, <3>1 DEF Source
    <2> QED
        BY <2>1, <2>2, <2>3
<1> QED
    BY <1>2, <1>9, <1>10, Traced

LEMMA WorkerSole ==
    ASSUME IInv, NEW w \in DOMAIN worker, NEW row \in Rows, Sole(row), WorkerNext(w)
    PROVE  Sole(row)'
<1> DEFINE v == worker[w]
<1>1. v \in Workers
    BY Member DEF IInv, WorkersOK
<1>2. ASSUME UNCHANGED <<list, fetched, register, begun, chans, handled>>,
             worker' = worker \/ \E u : worker' = [worker EXCEPT ![w] = u] /\ u.row = v.row
      PROVE  Sole(row)'
    <2>1. DOMAIN worker' = DOMAIN worker /\ \A x \in DOMAIN worker : worker'[x].row = worker[x].row
        BY <1>2
    <2>2. \A k, x, y : Holds(row, k, x, y)' => Holds(row, k, x, y)
        BY <1>2, <2>1 DEF Holds, Listed, ToDo, Ahead, OnPage
    <2> QED
        BY <1>2, <2>2, Unmoved
<1>3. \A p : [v EXCEPT !.pc = p].row = v.row
    BY <1>1 DEF Workers
<1>4. ASSUME NEW from, NEW u, WorkerAt(w, from, u), u.row = v.row, UNCHANGED <<chans, handled>>
      PROVE  Sole(row)'
    BY <1>2, <1>4 DEF WorkerAt, idManager, calls
<1>5. CASE WorkerCounts(w)
    BY <1>1, <1>4, <1>5 DEF WorkerCounts, Workers
<1>6. CASE WorkerSends(w) \/ WorkerSendFails(w) \/ WorkerUnknown(w)
    BY <1>1, <1>4, <1>6 DEF WorkerSends, WorkerSendFails, WorkerUnknown, Quiet, history, Workers
<1>7. CASE WorkerTimesOut(w) \/ WorkerAnnounces(w) \/ WorkerFinishes(w) \/ WorkerFinishFails(w)
           \/ WorkerPops(w) \/ WorkerReports(w) \/ WorkerStops(w) \/ WorkerUnrecords(w)
    BY <1>3, <1>4, <1>7
    DEF WorkerTimesOut, WorkerAnnounces, WorkerFinishes, WorkerFinishFails, WorkerPops,
        WorkerReports, WorkerStops, WorkerUnrecords, WorkerGoes, Quiet, history
<1>8. CASE WorkerPanics(w)
    BY <1>2, <1>8 DEF WorkerPanics, Panics, idManager, controller, history, calls
<1> QED
    BY <1>5, <1>6, <1>7, <1>8, TakesSole, HandlesSole DEF WorkerNext

(* The ids not yet fetched become the ids a new goroutine has to do.         *)
LEMMA FetchSole ==
    ASSUME IInv, NEW row \in Rows, Sole(row), FetchIds
    PROVE  Sole(row)'
<1> DEFINE ids == SubSeq(list, fetched + 2, Len(list))
           n == Len(begun) + 1
<1>1. /\ list \in Seq(Ids) /\ Len(list) \in Nat /\ DOMAIN list = 1..Len(list)
      /\ fetched \in Int /\ fetched >= -1 /\ fetched < Len(list)
    BY LenProperties DEF FetchIds, IInv, ListOK
<1>2. /\ UNCHANGED <<list, handled, register, chans, worker>>
      /\ begun' = Append(begun, NewBegin(ids)) /\ fetched' = Len(list) - 1
    BY DEF FetchIds, Fetch, controller, calls, history
<1>3. /\ DOMAIN ids = 1..(Len(list) - fetched - 1)
      /\ \A y \in DOMAIN ids : y \in Nat /\ ids[y] = list[y + fetched + 1]
           /\ y + fetched + 1 \in DOMAIN list /\ y + fetched + 1 > fetched + 1
    <2>1. \A i \in (fetched + 2)..Len(list) : list[i] \in Ids
        BY <1>1, ElementOfSeq
    <2>2. /\ ids \in Seq(Ids)
          /\ Len(ids) = IF fetched + 2 <= Len(list) THEN Len(list) - (fetched + 2) + 1 ELSE 0
          /\ \A y \in 1..(Len(list) - (fetched + 2) + 1) : ids[y] = list[fetched + 2 + y - 1]
        <3>1. fetched + 2 \in Int /\ Len(list) \in Int
            BY <1>1
        <3> QED
            BY <2>1, <3>1, SubSeqProperties
    <2>3. DOMAIN ids = 1..Len(ids)
        BY <2>2, LenProperties
    <2> HIDE DEF ids
    <2>4. Len(list) - (fetched + 2) + 1 = Len(list) - fetched - 1
          /\ Len(ids) = Len(list) - fetched - 1
        <3>1. \A m \in Nat, f \in Int : f < m =>
                /\ m - (f + 2) + 1 = m - f - 1
                /\ (IF f + 2 <= m THEN m - (f + 2) + 1 ELSE 0) = m - f - 1
            OBVIOUS
        <3>2. Len(ids) = IF fetched + 2 <= Len(list) THEN Len(list) - (fetched + 2) + 1 ELSE 0
            BY <2>2
        <3>3. Len(list) \in Nat /\ fetched \in Int /\ fetched < Len(list)
            BY <1>1
        <3> QED
            BY <3>1, <3>2, <3>3
    <2>5. ASSUME NEW y \in DOMAIN ids
          PROVE  y \in Nat /\ fetched + 2 + y - 1 = y + fetched + 1
                 /\ y + fetched + 1 \in 1..Len(list) /\ y + fetched + 1 > fetched + 1
        BY <1>1, <2>3, <2>4
    <2> QED
        BY <1>1, <2>2, <2>3, <2>4, <2>5
<1>4. /\ NewBegin(ids).todo = ids /\ NewBegin(ids).pc = "next" /\ NewBegin(ids).page = <<>>
      /\ NewBegin(ids).row = None
    BY DEF NewBegin
<1> HIDE DEF ids
<1>5. /\ DOMAIN begun' = 1..n /\ begun'[n] = NewBegin(ids)
      /\ \A x \in DOMAIN begun' : x # n => x \in DOMAIN begun /\ begun'[x] = begun[x]
    <2>1. begun \in Seq(Begins) /\ Len(begun) \in Nat /\ DOMAIN begun = 1..Len(begun)
        BY LenProperties DEF IInv, BegunOK
    <2>2. NewBegin(ids) \in {NewBegin(ids)} \cup Begins /\ begun \in Seq({NewBegin(ids)} \cup Begins)
        BY <2>1, SeqMonotonic
    <2>3. /\ DOMAIN begun' = 1..n
          /\ \A j \in DOMAIN begun' : begun'[j] = IF j = n THEN NewBegin(ids) ELSE begun[j]
        BY <1>2, <2>2, Extended
    <2> QED
        BY <2>1, <2>3
<1>6. row # None
    <2>1. row \in [reg : Regs, n : Nat]
        BY RowTyped DEF Rows
    <2> QED
        BY <2>1, DataAssumption
<1>7. ASSUME NEW k, NEW x, NEW y, Holds(row, k, x, y)'
      PROVE  \/ k = "todo" /\ x = n /\ y \in Nat /\ Holds(row, "list", y + fetched + 1, 0)
             \/ k # "list" /\ Holds(row, k, x, y)
    <2>1. CASE k = "list"
        <3>1. x \in DOMAIN list /\ x > fetched' + 1
            BY <1>2, <1>7, <2>1 DEF Holds, Listed
        <3> QED
            BY <1>1, <1>2, <3>1
    <2>2. CASE k = "todo" /\ x = n
        <3>1. y \in DOMAIN ids /\ ids[y] = IdOf[row.reg]
            BY <1>4, <1>5, <1>7, <2>2 DEF Holds, ToDo
        <3> QED
            BY <1>3, <2>2, <3>1 DEF Holds, Listed
    <2>3. CASE k = "todo" /\ x # n
        BY <1>5, <1>7, <2>3 DEF Holds, ToDo
    <2>4. CASE k = "ahead"
        BY <1>4, <1>5, <1>7, <2>4 DEF Holds, Ahead, Reading
    <2>5. CASE k = "page"
        BY <1>4, <1>5, <1>7, <2>5 DEF Holds, OnPage
    <2>6. CASE k = "hand"
        BY <1>4, <1>5, <1>6, <1>7, <2>6 DEF Holds
    <2>7. CASE k \in {"chan", "work", "done"}
        BY <1>2, <1>7, <2>7 DEF Holds
    <2> QED
        BY <1>7, <2>1, <2>2, <2>3, <2>4, <2>5, <2>6, <2>7 DEF Holds
<1>8. ASSUME NEW k, NEW x, NEW y, NEW l, NEW v, NEW w, Holds(row, k, x, y)', Holds(row, l, v, w)'
      PROVE  k = l /\ x = v /\ y = w
    <2>1. \A p, q, r, s, t, u : Holds(row, p, q, r) /\ Holds(row, s, t, u) => p = s /\ q = t /\ r = u
        BY DEF Sole
    <2>2. CASE k = "todo" /\ x = n /\ y \in Nat /\ Holds(row, "list", y + fetched + 1, 0)
        <3>1. CASE l = "todo" /\ v = n /\ w \in Nat /\ Holds(row, "list", w + fetched + 1, 0)
            <4>1. y + fetched + 1 = w + fetched + 1
                BY <2>1, <2>2, <3>1
            <4> QED
                BY <1>1, <2>2, <3>1, <4>1
        <3>2. CASE l # "list" /\ Holds(row, l, v, w)
            BY <2>1, <2>2, <3>2
        <3> QED
            BY <1>7, <1>8, <3>1, <3>2
    <2>3. CASE k # "list" /\ Holds(row, k, x, y)
        <3>1. CASE l = "todo" /\ v = n /\ w \in Nat /\ Holds(row, "list", w + fetched + 1, 0)
            BY <2>1, <2>3, <3>1
        <3>2. CASE l # "list" /\ Holds(row, l, v, w)
            BY <2>1, <2>3, <3>2
        <3> QED
            BY <1>7, <1>8, <3>1, <3>2
    <2> QED
        BY <1>7, <1>8, <2>2, <2>3
<1>9. register'[row.reg] \notin {"listed", "accepted"} => \A k, x, y : ~Holds(row, k, x, y)'
    BY <1>2, <1>7 DEF Sole
<1>10. handled'[row] <= 1
    BY <1>2 DEF Sole
<1> QED
    BY <1>8, <1>9, <1>10 DEF Sole

(* A call lists its id: if no other call has named it, its rows are in the   *)
(* list only.                                                                *)
LEMMA RegisterSole ==
    ASSUME IInv, NEW row \in Rows, Sole(row), ~IdUsedAgain(row.reg), NEW r \in Regs, RegisterNext(r)
    PROVE  Sole(row)'
<1>1. UNCHANGED <<fetched, handled, begun, chans, worker>>
    BY DEF RegisterNext, RegisterRecord, RegisterRefused, RegisterEntry, RegisterExists,
           RegisterList, RegisterOffer, RegisterAt, idManager, controller, history
<1>2. /\ row.reg \in Regs /\ register \in [Regs -> RegisterPCs]
    BY RowTyped DEF IInv, OthersOK
<1>3. CASE RegisterList(r)
    <2>1. /\ register[r] = "entered" /\ register' = [register EXCEPT ![r] = "listed"]
          /\ list' = Append(list, IdOf[r])
        BY <1>3 DEF RegisterList, RegisterAt
    <2>2. /\ DOMAIN list' = 1..(Len(list) + 1) /\ DOMAIN list = 1..Len(list) /\ Len(list) \in Nat
          /\ \A x \in DOMAIN list' : list'[x] = IF x = Len(list) + 1 THEN IdOf[r] ELSE list[x]
        BY <2>1, Extended, DataAssumption DEF IInv, ListOK
    <2>3. ASSUME NEW k, NEW x, NEW y, Holds(row, k, x, y)'
          PROVE  \/ IdOf[r] = IdOf[row.reg] /\ k = "list" /\ x = Len(list) + 1 /\ y = 0
                 \/ Holds(row, k, x, y)
        <3>1. CASE k = "list"
            BY <1>1, <2>2, <2>3, <3>1 DEF Holds, Listed
        <3>2. CASE k # "list"
            BY <1>1, <2>3, <3>2 DEF Holds, ToDo, Ahead, OnPage
        <3> QED
            BY <3>1, <3>2
    <2>4. CASE row.reg = r
        <3>1. \A k, x, y : ~Holds(row, k, x, y)
            BY <2>1, <2>4 DEF Sole
        <3>2. \A k, x, y, l, v, w :
                Holds(row, k, x, y)' /\ Holds(row, l, v, w)' => k = l /\ x = v /\ y = w
            BY <2>3, <3>1
        <3>3. register'[row.reg] = "listed"
            BY <1>2, <2>1, <2>4
        <3>4. handled'[row] <= 1
            BY <1>1 DEF Sole
        <3> QED
            BY <3>2, <3>3, <3>4 DEF Sole
    <2>5. CASE row.reg # r
        <3>1. IdOf[r] # IdOf[row.reg]
            BY <2>1, <2>5 DEF IdUsedAgain
        <3>2. register'[row.reg] = register[row.reg]
            BY <1>2, <2>1, <2>5
        <3> QED
            BY <1>1, <2>3, <3>1, <3>2, Unmoved
    <2> QED
        BY <2>4, <2>5
<1>4. CASE ~RegisterList(r)
    <2>1. PICK from, to : /\ register[r] = from /\ register' = [register EXCEPT ![r] = to]
             /\ (from \in {"listed", "accepted"} <=> to \in {"listed", "accepted"})
             /\ UNCHANGED list
        BY <1>4 DEF RegisterNext, RegisterRecord, RegisterRefused, RegisterEntry, RegisterExists,
           RegisterOffer, RegisterAt, idManager
    <2>2. register'[row.reg] \in {"listed", "accepted"} <=> register[row.reg] \in {"listed", "accepted"}
        BY <1>2, <2>1
    <2>3. \A k, x, y : Holds(row, k, x, y)' => Holds(row, k, x, y)
        BY <1>1, <2>1 DEF Holds, Listed, ToDo, Ahead, OnPage
    <2> QED
        BY <1>1, <2>2, <2>3, Unmoved
<1> QED
    BY <1>3, <1>4

(* A Cancel takes an id off the list only after it has closed ioSem.         *)
CancelCloses == \A c \in CancelCalls : cancel[c].pc \in {"pop", "find", "remove"} => semClosed

LEMMA CancelClosesKept ==
    ASSUME IInv, CancelCloses, [Next]_vars
    PROVE  CancelCloses'
<1>1. cancel \in [CancelCalls -> Cancels]
    BY DEF IInv, OthersOK
<1>2. CASE UNCHANGED cancel /\ (semClosed' = semClosed \/ semClosed' = TRUE)
    BY <1>2 DEF CancelCloses
<1>3. ASSUME NEW c \in CancelCalls, CancelNext(c) PROVE CancelCloses'
    <2>1. ASSUME NEW to, cancel' = [cancel EXCEPT ![c] = to], semClosed' = semClosed \/ semClosed' = TRUE,
                 to.pc \in {"pop", "find", "remove"} => semClosed'
          PROVE  CancelCloses'
        BY <1>1, <2>1 DEF CancelCloses
    <2>2. CASE CancelFinds(c)
        BY <1>1, <2>1, <2>2 DEF CancelFinds, resources, Cancels
    <2>3. CASE CancelHangsUp(c)
        BY <1>1, <2>1, <2>3 DEF CancelHangsUp, CancelAt, Cancels
    <2>4. CASE CancelReleases(c)
        BY <1>1, <2>1, <2>4 DEF CancelReleases, CancelAt, Cancels
    <2>5. CASE CancelPops(c)
        BY <1>1, <2>1, <2>5 DEF CancelPops, CancelAt, resources, Cancels, CancelCloses
    <2>6. CASE CancelFindsPlace(c)
        <3>1. semClosed /\ semClosed' = semClosed
            BY <2>6 DEF CancelFindsPlace, CancelCloses, resources
        <3> QED
            BY <3>1 DEF CancelCloses
    <2>7. CASE CancelRemoves(c)
        <3>1. semClosed /\ semClosed' = semClosed
            BY <2>7 DEF CancelRemoves, CancelAt, CancelCloses, resources
        <3> QED
            BY <3>1 DEF CancelCloses
    <2>8. CASE CancelPanics(c)
        BY <1>2, <2>8 DEF CancelPanics, Panics, calls, resources
    <2> QED
        BY <1>3, <2>2, <2>3, <2>4, <2>5, <2>6, <2>7, <2>8 DEF CancelNext
<1>4. ASSUME NEW r \in Regs, RegisterNext(r) PROVE CancelCloses'
    BY <1>2, <1>4
    DEF RegisterNext, RegisterRecord, RegisterRefused, RegisterEntry, RegisterExists,
        RegisterList, RegisterOffer, RegisterAt, resources
<1>5. ASSUME NEW d \in DOMAIN begun, BeginNext(d) PROVE CancelCloses'
    BY <1>2, <1>5
    DEF BeginNext, BeginTask, BeginPage, BeginPageOver, BeginRow, BeginDrain, BeginAgain,
        BeginGets, BeginMakes, BeginAppends, BeginCounts, BeginHires, BeginPuts, BeginStopped,
        BeginPops, BeginFindsPlace, BeginRemoves, BeginHangsUp, BeginReleases, BeginPanics,
        BeginAt, Internal, Panics, calls, resources
<1>6. ASSUME NEW w \in DOMAIN worker, WorkerNext(w) PROVE CancelCloses'
    BY <1>2, <1>6
    DEF WorkerNext, WorkerTakes, WorkerHandles, WorkerPanics, WorkerCounts, WorkerSends,
        WorkerSendFails, WorkerUnknown, WorkerTimesOut, WorkerAnnounces, WorkerFinishes,
        WorkerFinishFails, WorkerPops, WorkerReports, WorkerStops, WorkerUnrecords, WorkerGoes,
        WorkerAt, Panics, calls, resources
<1>7. CASE RunNext \/ UNCHANGED vars
    BY <1>2, <1>7
    DEF RunNext, FetchNothing, FetchIds, FetchPanics, Fetch, Panics, vars, calls, resources
<1> QED
    BY <1>3, <1>4, <1>5, <1>6, <1>7 DEF Next

LEMMA TakenOffStays ==
    ASSUME IInv, [Next]_vars, TakenOff
    PROVE  TakenOff'
<1>1. semClosed' = semClosed \/ semClosed' = TRUE
    BY DEF Next, vars, resources, RunNext, FetchNothing, FetchIds, FetchPanics, Fetch, Panics,
        RegisterNext, RegisterRecord, RegisterRefused, RegisterEntry, RegisterExists,
        RegisterList, RegisterOffer, RegisterAt, CancelNext, CancelFinds, CancelHangsUp,
        CancelReleases, CancelPops, CancelFindsPlace, CancelRemoves, CancelPanics,
        BeginNext, BeginTask, BeginPage, BeginPageOver,
        BeginRow, BeginDrain, BeginAgain, BeginGets, BeginMakes, BeginAppends, BeginCounts,
        BeginHires, BeginPuts, BeginStopped, BeginPops, BeginFindsPlace, BeginRemoves,
        BeginHangsUp, BeginReleases, BeginPanics, Internal, WorkerNext, WorkerTakes,
        WorkerHandles, WorkerPanics, WorkerCounts, WorkerSends, WorkerSendFails, WorkerUnknown,
        WorkerTimesOut, WorkerAnnounces, WorkerFinishes, WorkerFinishFails, WorkerPops,
        WorkerReports, WorkerStops, WorkerUnrecords, WorkerGoes, WorkerAt
<1>2. CASE semClosed
    BY <1>1, <1>2 DEF TakenOff
<1>3. ASSUME NEW d \in DOMAIN begun, begun[d].pc \in {"hangUp", "release", "stuck"} PROVE TakenOff'
    <2>1. CASE UNCHANGED begun
        BY <1>3, <2>1 DEF TakenOff
    <2>2. ASSUME NEW e \in DOMAIN begun, BeginNext(e) PROVE TakenOff'
        <3>1. CASE e # d
            BY <1>3, <2>2, <3>1, BeginElement DEF TakenOff
        <3>2. CASE e = d
            <4>1. CASE BeginHangsUp(d)
                <5> DEFINE c == [begun[d] EXCEPT !.pc = "release"]
                <5>1. begun' = [begun EXCEPT ![d] = c]
                    BY <4>1 DEF BeginHangsUp, BeginAt
                <5>2. c.pc = "release"
                    BY BeginRecord DEF Begins
                <5> HIDE DEF c
                <5> QED
                    BY <5>1, <5>2 DEF TakenOff
            <4>2. CASE BeginReleases(d)
                BY <4>2 DEF BeginReleases, TakenOff
            <4>3. CASE BeginPanics(d)
                BY <2>1, <4>3 DEF BeginPanics, Panics
            <4> QED
                BY <1>3, <2>2, <3>2, <4>1, <4>2, <4>3
                DEF BeginNext, BeginTask, BeginPage, BeginPageOver, BeginRow, BeginDrain,
                    BeginAgain, BeginGets, BeginMakes, BeginAppends, BeginCounts, BeginHires,
                    BeginPuts, BeginStopped, BeginPops, BeginFindsPlace, BeginRemoves, BeginAt
        <3> QED
            BY <3>1, <3>2
    <2>3. CASE FetchIds
        <3>1. begun' = Append(begun, NewBegin(SubSeq(list, fetched + 2, Len(list))))
            BY <2>3 DEF FetchIds
        <3>2. begun \in Seq(Begins) /\ Len(begun) \in Nat /\ DOMAIN begun = 1..Len(begun)
            BY LenProperties DEF IInv, BegunOK
        <3>3. d \in DOMAIN begun' /\ begun'[d] = begun[d]
            BY <3>1, <3>2
        <3> QED
            BY <1>3, <3>3 DEF TakenOff
    <2> QED
        BY <2>1, <2>2, <2>3
        DEF Next, vars, RunNext, FetchNothing, FetchPanics, Panics, RegisterNext, RegisterRecord,
            RegisterRefused, RegisterEntry, RegisterExists, RegisterList, RegisterOffer,
            RegisterAt, CancelNext, CancelFinds, CancelHangsUp, CancelReleases, CancelPops,
            CancelFindsPlace, CancelRemoves, CancelPanics, CancelAt, WorkerNext, WorkerTakes,
            WorkerHandles, WorkerPanics, WorkerCounts, WorkerSends, WorkerSendFails,
            WorkerUnknown, WorkerTimesOut, WorkerAnnounces, WorkerFinishes, WorkerFinishFails,
            WorkerPops, WorkerReports, WorkerStops, WorkerUnrecords, WorkerGoes, WorkerAt
<1> QED
    BY <1>2, <1>3 DEF TakenOff

LEMMA NextSole ==
    ASSUME IInv, CancelCloses, AllSole, [Next]_vars
    PROVE  AllSole'
<1> SUFFICES ASSUME ~TakenOff', NEW row \in Rows, ~IdUsedAgain(row.reg)' PROVE Sole(row)'
    BY DEF AllSole
<1>1. row.reg \in Regs
    BY RowTyped
<1>2. ~TakenOff /\ ~IdUsedAgain(row.reg) /\ Sole(row)
    BY <1>1, TakenOffStays, UsedAgainStays DEF AllSole
<1>3. CASE UNCHANGED <<list, fetched, begun, chans, worker, handled, register>>
    <2>1. \A k, x, y : Holds(row, k, x, y)' => Holds(row, k, x, y)
        BY <1>3 DEF Holds, Listed, ToDo, Ahead, OnPage
    <2> QED
        BY <1>2, <1>3, <2>1, Unmoved
<1>4. ASSUME NEW c \in CancelCalls, CancelNext(c) PROVE Sole(row)'
    <2>1. CASE CancelRemoves(c)
        BY <2>1 DEF CancelRemoves, CancelAt, CancelCloses, resources, TakenOff
    <2> QED
        BY <1>3, <1>4, <2>1
        DEF CancelNext, CancelFinds, CancelHangsUp, CancelReleases, CancelPops, CancelFindsPlace,
            CancelPanics, CancelAt, Panics, idManager, controller, calls, history
<1>5. CASE FetchNothing \/ FetchPanics \/ UNCHANGED vars
    BY <1>3, <1>5
    DEF FetchNothing, FetchPanics, Fetch, Panics, idManager, controller, calls, history, vars
<1> QED
    BY <1>2, <1>4, <1>5, RegisterSole, FetchSole, BeginSole, WorkerSole DEF Next, RunNext

(* No row is handled twice, whatever is dispatched again and however many     *)
(* workers there are, unless the task's id is used again or an id has been    *)
(* taken off the list (controller.go 69-190, idmanager.go, worker.go 60-76).  *)
THEOREM RowsAreHandledOnce == Spec => []HandledOnce
<1>1. Init => CancelCloses /\ AllSole
    <2> SUFFICES ASSUME Init PROVE CancelCloses /\ AllSole
        OBVIOUS
    <2>1. CancelCloses
        BY DEF Init, CancelCloses
    <2>2. ASSUME NEW row \in Rows PROVE Sole(row)
        <3>1. /\ DOMAIN list = {} /\ DOMAIN begun = {} /\ DOMAIN chans = {} /\ DOMAIN worker = {}
              /\ handled[row] = 0
            BY DEF Init
        <3>2. \A k, x, y : ~Holds(row, k, x, y)
            BY <3>1 DEF Holds
        <3> QED
            BY <3>1, <3>2 DEF Sole
    <2> QED
        BY <2>1, <2>2 DEF AllSole
<1>2. IInv /\ CancelCloses /\ AllSole /\ [Next]_vars => IInv' /\ CancelCloses' /\ AllSole'
    BY NextTyped, CancelClosesKept, NextSole
<1>3. IInv /\ AllSole => HandledOnce
    BY DEF AllSole, Sole, HandledOnce, IInv, HistoryOK
<1> QED
    BY <1>1, <1>2, <1>3, InitTyped, PTL DEF Spec
=============================================================================
