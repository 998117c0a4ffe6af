------------------------------ MODULE DataNode ------------------------------
(***************************************************************************)
(* The Data Node: registration and cancellation of tasks by the Master,    *)
(* the dispatch goroutines that page through MySQL, the workers that turn  *)
(* rows into samples and send them to the Training Node, and the tables    *)
(* they share.  Sources, under DatabasePlugin: receive/receiver.go,        *)
(* controller/controller.go, controller/worker.go, manager/manager.go,     *)
(* manager/idmanager.go, errortable/errortable.go, handler/handler.go.     *)
(*                                                                         *)
(* Granularity.  One step is a critical section of a table's mutex, a      *)
(* channel operation, one read or write of the controller's unlocked       *)
(* fields, a page read, a row handled, or a call to the Training Node with *)
(* its retries.                                                            *)
(*                                                                         *)
(* Abstraction.  Every SendToDatabase call makes an Element of its own     *)
(* (sender, handler, context), so the element of a call is the call; a     *)
(* row is its place in the selection of its task, a channel is a number.   *)
(* How many samples of a row fail, what the Training Node answers and when *)
(* ten idle seconds are over are choices.                                  *)
(*                                                                         *)
(* A definition called a variant is the one that follows it with a         *)
(* plausible mistake; no action uses it.                                   *)
(***************************************************************************)
EXTENDS Integers, Sequences, FiniteSets

CONSTANTS
    Regs,           \* the SendToDatabase calls, and the elements they make
    Ids,            \* task ids
    None,           \* an absent map entry
    IdOf,           \* the id each call names (the Master uses an id again)
    Total,          \* what Count returns for its selection
    Samples,        \* the sample_count of each row it selects, in order of ID
    CancelCalls,    \* the Cancel calls
    CancelId,       \* the id each of them names
    PageSize,       \* pageSize (100)
    Room,           \* the length up to which Get picks a channel (10)
    Capacity,       \* the capacity of a worker's channel (15)
    Announcements,  \* the capacity of SingleList (10)
    MostErrors,     \* bound: the errors one file that was read may count
    ReadsFail       \* TRUE: the query for a page may fail

ASSUME DataAssumption ==
    /\ None \notin Regs \cup [of : Regs, occurred : Nat] \cup [reg : Regs, n : Nat]
    /\ IdOf \in [Regs -> Ids]
    /\ Total \in [Regs -> Nat]
    /\ Samples \in [Regs -> Seq(Nat)]
    /\ CancelId \in [CancelCalls -> Ids]
    /\ PageSize \in Nat \ {0}
    /\ {Room, Capacity, Announcements, MostErrors} \subseteq Nat
    /\ Room < Capacity
    /\ ReadsFail \in BOOLEAN

VARIABLES
    records,     \* ErrorTable.records (the field of says who inserted it)
    relate,      \* Manager.relate
    cancelled,   \* the elements whose Ctx is cancelled
    list,        \* IdManager.List; Number is Len(list) - 1
    fetched,     \* IdManager.Top
    listLocked,  \* IdManager.mu is held by somebody who waits for it
    taskList,    \* Controller.TaskList, a sequence of channels
    top,         \* Controller.Top
    singles,     \* the content of SingleList
    chans,       \* the content of every channel ever made
    offline,     \* the elements whose connection is closed
    dbClosed,    \* the elements whose database handle is closed
    semClosed,   \* ioSem is closed
    up,          \* no goroutine has panicked
    register,    \* where each SendToDatabase call is
    cancel,      \* where each Cancel call is, and its local variables
    run,         \* Controller.Run waits for a call, or has taken one
    begun,       \* every goroutine that runs Begin: its place and locals
    worker,      \* every goroutine that runs Work: its place and locals
    counted,     \* history: the errors counted in the record of each element
    verdicts,    \* history: how often its record was found at the threshold
    handled,     \* history: how often each row has been handled
    finished     \* history: the elements whose Finish was acknowledged

tables     == <<records, relate, cancelled>>
idManager  == <<list, fetched, listLocked>>
controller == <<taskList, top, singles, chans>>
resources  == <<offline, dbClosed, semClosed>>
calls      == <<register, cancel>>
history    == <<counted, verdicts, handled, finished>>
vars == <<tables, idManager, controller, resources, up, calls, run, begun, worker, history>>

-----------------------------------------------------------------------------
(* Values *)

Rows == UNION {{[reg |-> r, n |-> k] : k \in DOMAIN Samples[r]} : r \in Regs}

(* 40 per cent of the samples, rounded up. *)
Threshold(r) == (2 * Total[r] + 4) \div 5

NewBegin(ids) ==
    [pc |-> "next", todo |-> ids, reg |-> None, cursor |-> 0, page |-> <<>>, row |-> None,
     at |-> 0, seen |-> <<>>, drain |-> 0]

NewWorker(wid, ch, r) ==
    [pc |-> "idle", wid |-> wid, chan |-> ch, reg |-> r, row |-> None, errors |-> 0,
     sends |-> FALSE]

Init ==
    /\ records    = [i \in Ids |-> None]
    /\ relate     = [i \in Ids |-> None]
    /\ cancelled  = {}
    /\ list       = <<>>
    /\ fetched    = -1
    /\ listLocked = FALSE
    /\ taskList   = <<>>
    /\ top        = -1
    /\ singles    = <<>>
    /\ chans      = <<>>
    /\ offline    = {}
    /\ dbClosed   = {}
    /\ semClosed  = FALSE
    /\ up         = TRUE
    /\ register   = [r \in Regs |-> "new"]
    /\ cancel     = [c \in CancelCalls |-> [pc |-> "new", reg |-> None, at |-> 0]]
    /\ run        = "wait"
    /\ begun      = <<>>
    /\ worker     = <<>>
    /\ counted    = [r \in Regs |-> 0]
    /\ verdicts   = [r \in Regs |-> 0]
    /\ handled    = [row \in Rows |-> 0]
    /\ finished   = {}

-----------------------------------------------------------------------------
(* The shared tables *)

(* Manager.Pop: the entry and the error record of an id go together.  An id   *)
(* that is not there is only logged.  The record has a lock of its own, but   *)
(* Pop removes it with m.mu still held (manager.go 81-93), and whoever looks  *)
(* at an entry takes m.mu: nobody sees the entry gone and, through it, the    *)
(* record not yet; what uses the record alone comes before or after both.     *)
PopEntryKeepsRecord(i) ==   \* a variant
    /\ relate' = [relate EXCEPT ![i] = None]
    /\ UNCHANGED <<records, cancelled>>

PopEntry(i) ==
    /\ relate' = [relate EXCEPT ![i] = None]
    /\ records' = IF relate[i] = None THEN records ELSE [records EXCEPT ![i] = None]
    /\ UNCHANGED cancelled

(* ErrorTable.AddErrors: the record that reaches its threshold is deleted.    *)
ReachedBefore(i, n) ==   \* a variant: looks at the count before it is added to
    /\ records[i] # None
    /\ records[i].occurred >= Threshold(records[i].of)

Reached(i, n) ==
    /\ records[i] # None
    /\ records[i].occurred + n >= Threshold(records[i].of)

AddErrors(i, n) ==
    IF records[i] = None
    THEN UNCHANGED <<records, counted, verdicts>>
    ELSE /\ counted' = [counted EXCEPT ![records[i].of] = @ + n]
         /\ IF Reached(i, n)
            THEN /\ records' = [records EXCEPT ![i] = None]
                 /\ verdicts' = [verdicts EXCEPT ![records[i].of] = @ + 1]
            ELSE /\ records' = [records EXCEPT ![i].occurred = @ + n]
                 /\ UNCHANGED verdicts

(* IdManager.SelectPop looks for the id without the lock, takes the lock at   *)
(* its first match, removes that place and goes on looking with the lock      *)
(* held.  The removal shifts the array the loop walks on: the place after the *)
(* match is skipped, and the last one is seen again at its old place.  A      *)
(* second match waits for the lock its own goroutine holds.                   *)
Places(i) == {k \in DOMAIN list : list[k] = i}
IsFirst(k, places) == k \in places /\ \A j \in places : k <= j
MatchesAgain(i, k) ==
    \E j \in Places(i) : j > k + 1 \/ (j = Len(list) /\ j > k)

RemovePlaceKeepsTop(i, k) ==   \* a variant
    /\ ~listLocked
    /\ list' = SubSeq(list, 1, k - 1) \o SubSeq(list, k + 1, Len(list))
    /\ listLocked' = MatchesAgain(i, k)
    /\ UNCHANGED fetched

RemovePlace(i, k) ==
    /\ ~listLocked
    /\ list' = SubSeq(list, 1, k - 1) \o SubSeq(list, k + 1, Len(list))
    /\ fetched' = fetched - 1
    /\ listLocked' = MatchesAgain(i, k)

(* A panic in any goroutine ends the process. *)
Panics ==
    /\ up /\ up' = FALSE
    /\ UNCHANGED <<tables, idManager, controller, resources, calls, run, begun, worker, history>>

(* Sender.Disconnect waits for the calls in flight. *)
InFlight(r) == \E w \in DOMAIN worker :
    worker[w].reg = r /\ worker[w].pc \in {"send", "finish", "report"}

-----------------------------------------------------------------------------
(* SendToDatabase *)

RegisterAt(r, from, to) ==
    /\ up /\ register[r] = from
    /\ register' = [register EXCEPT ![r] = to]
    /\ UNCHANGED <<cancel, begun, worker, controller, resources, up, history>>

RegisterRecord(r) == LET i == IdOf[r] IN
    /\ records[i] = None
    /\ RegisterAt(r, "new", "recorded")
    /\ records' = [records EXCEPT ![i] = [of |-> r, occurred |-> 0]]
    /\ UNCHANGED <<relate, cancelled, idManager, run>>

RegisterRefused(r) ==
    /\ records[IdOf[r]] # None
    /\ RegisterAt(r, "new", "refused")
    /\ UNCHANGED <<tables, idManager, run>>

RegisterEntry(r) ==
    /\ relate[IdOf[r]] = None
    /\ RegisterAt(r, "recorded", "entered")
    /\ relate' = [relate EXCEPT ![IdOf[r]] = r]
    /\ UNCHANGED <<records, cancelled, idManager, run>>

RegisterExists(r) ==
    /\ relate[IdOf[r]] # None
    /\ RegisterAt(r, "recorded", "refused")
    /\ UNCHANGED <<tables, idManager, run>>

RegisterList(r) ==
    /\ ~listLocked
    /\ RegisterAt(r, "entered", "listed")
    /\ list' = Append(list, IdOf[r])
    /\ UNCHANGED <<tables, fetched, listLocked, run>>

(* TaskCome is unbuffered: the call waits for Run to take it. *)
RegisterOffer(r) ==
    /\ run = "wait"
    /\ RegisterAt(r, "listed", "accepted")
    /\ run' = "fetch"
    /\ UNCHANGED <<tables, idManager>>

RegisterNext(r) ==
    \/ RegisterRecord(r) \/ RegisterRefused(r) \/ RegisterEntry(r) \/ RegisterExists(r)
    \/ RegisterList(r) \/ RegisterOffer(r)

-----------------------------------------------------------------------------
(* Cancel *)

CancelAt(c, from, to) ==
    /\ up /\ cancel[c].pc = from
    /\ cancel' = [cancel EXCEPT ![c].pc = to]
    /\ UNCHANGED <<register, run, begun, worker, controller, up, history>>

CancelFinds(c) == LET r == relate[CancelId[c]] IN
    /\ up /\ cancel[c].pc = "new"
    /\ cancel' = [cancel EXCEPT ![c].pc = IF r = None THEN "refused" ELSE "hangUp",
                                ![c].reg = r]
    /\ UNCHANGED <<tables, idManager, controller, resources, up, register, run, begun, worker,
                   history>>

CancelHangsUp(c) == LET r == cancel[c].reg IN
    /\ ~InFlight(r)
    /\ CancelAt(c, "hangUp", IF r \in offline THEN "refused" ELSE "release")
    /\ offline' = offline \cup {r}
    /\ UNCHANGED <<tables, idManager, dbClosed, semClosed>>

CancelReleases(c) ==
    /\ ~semClosed
    /\ CancelAt(c, "release", "pop")
    /\ semClosed' = TRUE
    /\ dbClosed' = dbClosed \cup {cancel[c].reg}
    /\ UNCHANGED <<tables, idManager, offline>>

(* A channel closed twice, or a place that somebody else has removed. *)
CancelPanics(c) ==
    /\ \/ cancel[c].pc = "release" /\ semClosed
       \/ cancel[c].pc = "remove" /\ ~listLocked /\ cancel[c].at > Len(list)
    /\ Panics

CancelPops(c) ==
    /\ CancelAt(c, "pop", "find")
    /\ PopEntry(CancelId[c])
    /\ UNCHANGED <<idManager, resources>>

CancelFindsPlace(c) == LET i == CancelId[c] IN
    /\ up /\ cancel[c].pc = "find"
    /\ \/ /\ Places(i) = {}
          /\ cancel' = [cancel EXCEPT ![c].pc = "ok"]
       \/ \E k \in Places(i) :
          /\ IsFirst(k, Places(i))
          /\ cancel' = [cancel EXCEPT ![c].pc = "remove", ![c].at = k]
    /\ UNCHANGED <<tables, idManager, controller, resources, up, register, run, begun, worker,
                   history>>

CancelRemoves(c) ==
    /\ cancel[c].at <= Len(list)
    /\ CancelAt(c, "remove",
         IF MatchesAgain(CancelId[c], cancel[c].at) THEN "stuck" ELSE "ok")
    /\ RemovePlace(CancelId[c], cancel[c].at)
    /\ UNCHANGED <<tables, resources>>

CancelNext(c) ==
    \/ CancelFinds(c) \/ CancelHangsUp(c) \/ CancelReleases(c) \/ CancelPops(c)
    \/ CancelFindsPlace(c) \/ CancelRemoves(c) \/ CancelPanics(c)

-----------------------------------------------------------------------------
(* Controller.Run *)

Fetch ==
    /\ up /\ run = "fetch"
    /\ ~listLocked
    /\ UNCHANGED <<tables, list, listLocked, controller, resources, up, calls, worker, history>>

(* All ids have been fetched: Begin gets an empty list and returns at once.   *)
FetchNothing ==
    /\ fetched = Len(list) - 1
    /\ Fetch
    /\ run' = "wait"
    /\ UNCHANGED <<fetched, begun>>

FetchIds ==
    /\ fetched # Len(list) - 1 /\ list # <<>> /\ fetched >= -1
    /\ Fetch
    /\ run' = "wait"
    /\ fetched' = Len(list) - 1
    /\ begun' = Append(begun, NewBegin(SubSeq(list, fetched + 2, Len(list))))

(* Ids have been taken off the list that were never fetched: nothing is left, *)
(* and Run calls wg.Done without an Add; or the first index is negative.      *)
FetchPanics ==
    /\ run = "fetch" /\ ~listLocked
    /\ fetched # Len(list) - 1
    /\ list = <<>> \/ fetched < -1
    /\ Panics

RunNext == FetchNothing \/ FetchIds \/ FetchPanics

-----------------------------------------------------------------------------
(* Controller.Begin.  Goroutine d is at place "from", and its record becomes  *)
(* b.                                                                         *)

BeginAt(d, from, b) ==
    /\ up /\ begun[d].pc = from
    /\ begun' = [begun EXCEPT ![d] = b]
    /\ UNCHANGED <<up, calls, run, counted, verdicts, handled, finished>>

Internal == UNCHANGED <<tables, idManager, controller, resources, worker>>

NextTask(b) == [b EXCEPT !.pc = "next", !.todo = Tail(@)]

(* An id whose entry has gone ends the goroutine, and the ids after it wait   *)
(* for nobody.                                                                *)
BeginTask(d) == LET b == begun[d] IN
    /\ BeginAt(d, "next",
         IF b.todo = <<>> \/ relate[Head(b.todo)] = None
         THEN [b EXCEPT !.pc = "ended"]
         ELSE [b EXCEPT !.pc = "page", !.reg = relate[Head(b.todo)], !.cursor = 0])
    /\ Internal

(* WHERE ID > cursor ORDER BY ID LIMIT pageSize; Find's error is not looked   *)
(* at, and a failed query is an empty page.                                   *)
PageFromCursor(r, cursor) ==   \* a variant: WHERE ID >= cursor
    LET n == Len(Samples[r]) IN
    SubSeq([k \in 1..n |-> [reg |-> r, n |-> k]], IF cursor = 0 THEN 1 ELSE cursor,
           IF cursor + PageSize < n THEN cursor + PageSize ELSE n)

PageAfter(r, cursor) ==
    LET n == Len(Samples[r]) IN
    SubSeq([k \in 1..n |-> [reg |-> r, n |-> k]], cursor + 1,
           IF cursor + PageSize < n THEN cursor + PageSize ELSE n)

Pages(r, cursor) ==
    (IF r \in dbClosed THEN {} ELSE {PageAfter(r, cursor)})
    \cup (IF ReadsFail \/ r \in dbClosed THEN {<<>>} ELSE {})

BeginPage(d) == LET b == begun[d] IN
    /\ b.pc = "page"
    /\ \E page \in Pages(b.reg, b.cursor) :
         BeginAt(d, "page",
           IF page = <<>> THEN NextTask(b)
           ELSE [b EXCEPT !.pc = "row", !.page = page, !.cursor = page[Len(page)].n])
    /\ Internal

BeginPageOver(d) ==
    /\ begun[d].page = <<>>
    /\ BeginAt(d, "row", [begun[d] EXCEPT !.pc = "page"])
    /\ Internal

(* A row, unless the task is stopped or a worker has announced its end.       *)
BeginRow(d) == LET b == begun[d] IN
    /\ b.page # <<>>
    /\ b.reg \notin cancelled
    /\ singles = <<>>
    /\ BeginAt(d, "row", [b EXCEPT !.pc = "get", !.row = Head(b.page), !.page = Tail(@)])
    /\ Internal

(* An announcement: the row in hand is forgotten, and the rows left in the    *)
(* worker's channel are to be dispatched again.                               *)
BeginDrain(d) == LET b == begun[d] IN
    /\ b.page # <<>>
    /\ b.reg \notin cancelled
    /\ singles # <<>>
    /\ Head(singles) < Len(taskList)
    /\ BeginAt(d, "row",
         [b EXCEPT !.pc = "drain", !.page = Tail(@), !.drain = taskList[Head(singles) + 1]])
    /\ singles' = Tail(singles)
    /\ UNCHANGED <<tables, idManager, taskList, top, chans, resources, worker>>

(* Nobody closes the channel, so this loop only ever waits for more; what     *)
(* follows it in the code (Pop) is not reached.                               *)
BeginAgain(d) == LET b == begun[d] IN
    /\ b.drain # 0
    /\ chans[b.drain] # <<>>
    /\ BeginAt(d, "drain", [b EXCEPT !.pc = "get", !.row = Head(chans[b.drain])])
    /\ chans' = [chans EXCEPT ![b.drain] = Tail(@)]
    /\ UNCHANGED <<tables, idManager, taskList, top, singles, resources, worker>>

(* Controller.Get: the first channel with room, whatever task its worker      *)
(* works for, or a new one.                                                   *)
HasRoom == {k \in DOMAIN taskList : k <= top + 1 /\ Len(chans[taskList[k]]) <= Room}

BeginGets(d) == \E k \in HasRoom :
    /\ IsFirst(k, HasRoom)
    /\ BeginAt(d, "get", [begun[d] EXCEPT !.pc = "put", !.at = k - 1])
    /\ Internal

BeginMakes(d) ==
    /\ HasRoom = {} /\ top < Len(taskList)
    /\ BeginAt(d, "get", [begun[d] EXCEPT !.pc = "append", !.seen = taskList])
    /\ Internal

(* append, Top++ and the read of Top are not one step, and no lock is held.   *)
BeginAppends(d) == LET b == begun[d] IN
    /\ BeginAt(d, "append", [b EXCEPT !.pc = "count", !.seen = <<>>, !.at = top])
    /\ chans' = Append(chans, <<>>)
    /\ taskList' = Append(b.seen, Len(chans'))
    /\ UNCHANGED <<tables, idManager, top, singles, resources, worker>>

BeginCounts(d) ==
    /\ BeginAt(d, "count", [begun[d] EXCEPT !.pc = "hire"])
    /\ top' = begun[d].at + 1
    /\ UNCHANGED <<tables, idManager, taskList, singles, chans, resources, worker>>

BeginHires(d) == LET b == begun[d] IN
    /\ top < Len(taskList)
    /\ BeginAt(d, "hire", [b EXCEPT !.pc = "put", !.at = top])
    /\ worker' = Append(worker, NewWorker(top, taskList[top + 1], b.reg))
    /\ UNCHANGED <<tables, idManager, controller, resources>>

BeginPuts(d) == LET b == begun[d] IN
    /\ BeginAt(d, "put", [b EXCEPT !.pc = IF b.drain = 0 THEN "row" ELSE "drain",
                                     !.row = None, !.at = 0])
    /\ b.at < Len(taskList)
    /\ Len(chans[taskList[b.at + 1]]) < Capacity
    /\ chans' = [chans EXCEPT ![taskList[b.at + 1]] = Append(@, b.row)]
    /\ UNCHANGED <<tables, idManager, taskList, top, singles, resources, worker>>

(* The task is stopped: pop it, take it off the list of ids, disconnect.      *)
BeginStopped(d) == LET b == begun[d] IN
    /\ b.page # <<>>
    /\ b.reg \in cancelled
    /\ BeginAt(d, "row", [b EXCEPT !.pc = "pop", !.page = <<>>])
    /\ Internal

BeginPops(d) == LET b == begun[d] IN
    /\ BeginAt(d, "pop", [b EXCEPT !.pc = "find"])
    /\ PopEntry(Head(b.todo))
    /\ UNCHANGED <<idManager, controller, resources, worker>>

BeginFindsPlace(d) == LET b == begun[d] i == Head(b.todo) IN
    /\ b.pc = "find"
    /\ \/ /\ Places(i) = {}
          /\ BeginAt(d, "find", [b EXCEPT !.pc = "hangUp"])
       \/ \E k \in Places(i) :
          /\ IsFirst(k, Places(i))
          /\ BeginAt(d, "find", [b EXCEPT !.pc = "remove", !.at = k])
    /\ Internal

BeginRemoves(d) == LET b == begun[d] IN
    /\ b.at <= Len(list)
    /\ BeginAt(d, "remove",
         [b EXCEPT !.pc = IF MatchesAgain(Head(b.todo), b.at) THEN "stuck" ELSE "hangUp"])
    /\ RemovePlace(Head(b.todo), b.at)
    /\ UNCHANGED <<tables, controller, resources, worker>>

BeginHangsUp(d) == LET b == begun[d] IN
    /\ ~InFlight(b.reg)
    /\ BeginAt(d, "hangUp", [b EXCEPT !.pc = "release"])
    /\ offline' = offline \cup {b.reg}
    /\ UNCHANGED <<tables, idManager, controller, dbClosed, semClosed, worker>>

BeginReleases(d) == LET b == begun[d] IN
    /\ ~semClosed
    /\ BeginAt(d, "release", NextTask(b))
    /\ semClosed' = TRUE
    /\ dbClosed' = dbClosed \cup {b.reg}
    /\ UNCHANGED <<tables, idManager, controller, offline, worker>>

(* An index beyond a list, or a channel closed twice. *)
BeginPanics(d) == LET b == begun[d] IN
    /\ \/ b.pc = "row" /\ b.page # <<>> /\ b.reg \notin cancelled
          /\ singles # <<>> /\ Head(singles) >= Len(taskList)
       \/ b.pc = "get" /\ HasRoom = {} /\ top >= Len(taskList)
       \/ b.pc = "hire" /\ top >= Len(taskList)
       \/ b.pc = "put" /\ b.at >= Len(taskList)
       \/ b.pc = "remove" /\ ~listLocked /\ b.at > Len(list)
       \/ b.pc = "release" /\ semClosed
    /\ Panics

BeginNext(d) ==
    \/ BeginTask(d) \/ BeginPage(d) \/ BeginPageOver(d) \/ BeginRow(d) \/ BeginDrain(d)
    \/ BeginAgain(d) \/ BeginGets(d) \/ BeginMakes(d) \/ BeginAppends(d) \/ BeginCounts(d)
    \/ BeginHires(d) \/ BeginPuts(d) \/ BeginStopped(d) \/ BeginPops(d) \/ BeginFindsPlace(d)
    \/ BeginRemoves(d) \/ BeginHangsUp(d) \/ BeginReleases(d) \/ BeginPanics(d)

-----------------------------------------------------------------------------
(* DefaultWorker.Work.  Worker w names its task by the id of its element.     *)

WorkerAt(w, from, record) ==
    /\ up /\ worker[w].pc = from
    /\ worker' = [worker EXCEPT ![w] = record]
    /\ UNCHANGED <<idManager, taskList, top, resources, up, calls, run, begun>>

WorkerGoes(w, from, to) == WorkerAt(w, from, [worker[w] EXCEPT !.pc = to])

Quiet == UNCHANGED <<tables, singles, chans, history>>

WorkerTakes(w) == LET ch == worker[w].chan IN
    /\ chans[ch] # <<>>
    /\ WorkerAt(w, "idle", [worker[w] EXCEPT !.pc = "handle", !.row = Head(chans[ch])])
    /\ chans' = [chans EXCEPT ![ch] = Tail(@)]
    /\ UNCHANGED <<tables, singles, history>>

(* A row is handled.  A file that cannot be turned into a sample counts one   *)
(* error, or, if it was to hold many, as many as the table says it holds; of  *)
(* a file that was read every bad line and every bad image counts, and the    *)
(* rest, if there is any, is to be sent.  The table is not compared with the  *)
(* file, so the errors are not bounded by it, and a file may hold nothing.    *)
WorkerHandles(w) == LET row == worker[w].row IN
    /\ worker[w].pc = "handle" /\ ~semClosed
    /\ \E failed \in (0..MostErrors) \cup {1, Samples[row.reg][row.n]}, some \in BOOLEAN :
         WorkerAt(w, "handle", [worker[w] EXCEPT
             !.row = None, !.errors = failed, !.sends = some,
             !.pc = IF failed > 0 THEN "count" ELSE IF some THEN "send" ELSE "idle"])
    /\ handled' = [handled EXCEPT ![row] = @ + 1]
    /\ UNCHANGED <<tables, singles, chans, counted, verdicts, finished>>

(* ioSem is one channel for the whole process, and closed by DisConnect. *)
WorkerPanics(w) == worker[w].pc = "handle" /\ semClosed /\ Panics

WorkerCounts(w) == LET v == worker[w] i == IdOf[v.reg] IN
    /\ WorkerAt(w, "count", [v EXCEPT !.errors = 0, !.sends = FALSE,
                               !.pc = IF Reached(i, v.errors) THEN "report"
                                      ELSE IF v.sends THEN "send" ELSE "idle"])
    /\ AddErrors(i, v.errors)
    /\ UNCHANGED <<relate, cancelled, singles, chans, handled, finished>>

(* The Training Node takes the samples; or no longer knows the task; or the   *)
(* call fails, which counts as an error.                                      *)
WorkerSends(w) ==
    /\ worker[w].reg \notin offline
    /\ WorkerAt(w, "send", [worker[w] EXCEPT !.pc = "idle", !.sends = FALSE])
    /\ Quiet

WorkerSendFails(w) ==
    /\ WorkerAt(w, "send", [worker[w] EXCEPT !.pc = "count", !.errors = 1, !.sends = FALSE])
    /\ Quiet

(* The answer to a SendTrain or a Finish: no matching training task. *)
WorkerUnknown(w) ==
    /\ worker[w].reg \notin offline
    /\ worker[w].pc \in {"send", "finish"}
    /\ WorkerAt(w, worker[w].pc, [worker[w] EXCEPT !.pc = "stop", !.sends = FALSE])
    /\ Quiet

(* Ten seconds without a row. *)
WorkerTimesOut(w) == WorkerGoes(w, "idle", "announce") /\ Quiet

WorkerAnnounces(w) ==
    /\ Len(singles) < Announcements
    /\ WorkerGoes(w, "announce", "finish")
    /\ singles' = Append(singles, worker[w].wid)
    /\ UNCHANGED <<tables, chans, history>>

WorkerFinishes(w) ==
    /\ worker[w].reg \notin offline
    /\ WorkerGoes(w, "finish", "pop")
    /\ finished' = finished \cup {worker[w].reg}
    /\ UNCHANGED <<tables, singles, chans, counted, verdicts, handled>>

WorkerFinishFails(w) == WorkerGoes(w, "finish", "report") /\ Quiet

WorkerPops(w) ==
    /\ WorkerGoes(w, "pop", "gone")
    /\ PopEntry(IdOf[worker[w].reg])
    /\ UNCHANGED <<singles, chans, history>>

(* Sender.ReportError; its outcome is ignored. *)
WorkerReports(w) == WorkerGoes(w, "report", "stop") /\ Quiet

(* Manager.Stop: cancel the context of the entry, then remove the record.     *)
StopsUncancelled(w) == LET r == relate[IdOf[worker[w].reg]] IN   \* a variant
    /\ WorkerGoes(w, "stop", IF r = None THEN "gone" ELSE "unrecord")
    /\ UNCHANGED <<tables, singles, chans, history>>

WorkerStops(w) == LET r == relate[IdOf[worker[w].reg]] IN
    /\ WorkerGoes(w, "stop", IF r = None THEN "gone" ELSE "unrecord")
    /\ cancelled' = cancelled \cup ({r} \ {None})
    /\ UNCHANGED <<records, relate, singles, chans, history>>

WorkerUnrecords(w) ==
    /\ WorkerGoes(w, "unrecord", "gone")
    /\ records' = [records EXCEPT ![IdOf[worker[w].reg]] = None]
    /\ UNCHANGED <<relate, cancelled, singles, chans, history>>

WorkerNext(w) ==
    \/ WorkerTakes(w) \/ WorkerHandles(w) \/ WorkerPanics(w) \/ WorkerCounts(w)
    \/ WorkerSends(w) \/ WorkerSendFails(w) \/ WorkerUnknown(w) \/ WorkerTimesOut(w)
    \/ WorkerAnnounces(w) \/ WorkerFinishes(w) \/ WorkerFinishFails(w) \/ WorkerPops(w)
    \/ WorkerReports(w) \/ WorkerStops(w) \/ WorkerUnrecords(w)

-----------------------------------------------------------------------------
(* The process.  After a panic nothing happens.                               *)

Next ==
    \/ \E r \in Regs : RegisterNext(r)
    \/ \E c \in CancelCalls : CancelNext(c)
    \/ RunNext
    \/ \E d \in DOMAIN begun : BeginNext(d)
    \/ \E w \in DOMAIN worker : WorkerNext(w)

Spec == Init /\ [][Next]_vars

(* The Go scheduler runs every goroutine that can go on, a call to the        *)
(* Training Node ends after its retries, and ten idle seconds come to an end. *)
(* What is checked asks only that some worker goes on as long as one can; the *)
(* Master is not obliged to call, nor a goroutine to dispatch.                *)
FairSpec == Spec /\ WF_vars(\E w \in DOMAIN worker : WorkerNext(w))
=============================================================================
