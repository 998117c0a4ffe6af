--------------------------- MODULE FeedProperties ---------------------------
(***************************************************************************)
(* What should be true of the way of a task's samples to the Training Node.*)
(***************************************************************************)
EXTENDS Feed

Samples == [image : Texts, word : Texts, line : Nat]
JobPCs  == {"queued", "taken", "open", "scan", "images", "send", "sent", "lost", "stopped",
            "dropped"}
Jobs == [id : Ids, pc : JobPCs, at : Nat \ {0}, s : [Fields -> Texts], samples : Seq(Samples),
         bad : Nat, good : Seq(Nat), buf : Seq(Texts), message : Messages \cup {NoMessage},
         arrived : Nat, errors : Nat]

(* Every variable keeps to the values the code can give it; no more rows are *)
(* handled at a time than the semaphore has places (handler.go 134).         *)
TypeOK ==
    /\ life \in [Ids -> {"unborn", "start", "late", "gone"}]
    /\ feed \in [pc : {"count", "refused", "page", "put", "over"}, cursor : Nat, page : SUBSET Ids]
    /\ row \in [Ids -> Rows]
    /\ jobs \in Seq(Jobs)
    /\ ioSem \in 0..MaxIO
    /\ failed \in BOOLEAN

-----------------------------------------------------------------------------
(* No row is dispatched twice, and none out of order, though the table       *)
(* changes between the pages (handler.go 97-110).                            *)
NoRowTwice == \A i, j \in DOMAIN jobs : i < j => jobs[i].id < jobs[j].id

(* When the pages are over, every row of the selection that was there from   *)
(* the start and still is has been dispatched, unless a query failed: what   *)
(* is deleted or added between two pages moves no other row off its page.    *)
NoRowSkipped == feed.pc = "over" /\ ~failed =>
    \A id \in Ids : life[id] = "start" /\ Selected(select, row[id]) =>
        \E j \in DOMAIN jobs : jobs[j].id = id

(* What line n of a file says of a field: what it names, or else what the    *)
(* nearest line above it named that the parser did not stop at.              *)
Naming(lines, n, field) ==
    {k \in 1..n : lines[k].kind \in {"object", "bad"} /\ lines[k][field] # NoField}
Says(lines, n, field) ==
    IF Naming(lines, n, field) = {} THEN Empty
    ELSE lines[CHOOSE k \in Naming(lines, n, field) :
                   \A other \in Naming(lines, n, field) : other <= k][field]

(* Line from[k] is where the k-th image and the k-th word of a message are   *)
(* from.                                                                     *)
PairedFrom(from, message, lines) ==
    /\ \A k, l \in DOMAIN from : k < l => from[k] < from[l]
    /\ \A k \in DOMAIN from :
        /\ lines[from[k]].kind = "object"
        /\ \A field \in Fields :
            message.Inputs[field].cells[k] = Says(lines, from[k], field)

(* The k-th image and the k-th word of a message are of one line, the lines  *)
(* come in their order, and none comes twice, though bad lines and bad       *)
(* images are dropped from different lists (handler.go 264-288, 151-159).    *)
(* Of a line that names both fields they are its own.                        *)
PairsKept == \A j \in DOMAIN jobs :
    jobs[j].message # NoMessage /\ RowOf(j).dtype = "json" =>
        \E from \in [DOMAIN jobs[j].message.Inputs["image"].cells -> DOMAIN RowOf(j).lines] :
            PairedFrom(from, jobs[j].message, RowOf(j).lines)

(* Whatever Handle makes, the Training Node can decode: no batch is refused  *)
(* for its shape (decode.py 29-37, 77-82), which would fail the task there   *)
(* without a report.                                                         *)
MessagesDecode == \A j \in DOMAIN jobs :
    jobs[j].message # NoMessage => Decodable(jobs[j].message)

NotBlank(lines) == {n \in DOMAIN lines : lines[n].kind # "blank"}

(* What Handle made to send.                                                 *)
Made(job, key) == IF job.message = NoMessage THEN 0 ELSE job.message.Inputs[key].n

(* The errors of a row and the samples of its message come to what the row   *)
(* holds: the lines that are not blank of a file that was read, what the     *)
(* table says of a file that was not, one of everything else.                *)
Accounted(job, r) ==
    IF r.dtype # "json" THEN job.errors + Made(job, r.dtype) = 1
    ELSE IF Opens(r) /\ \A n \in DOMAIN r.lines : r.lines[n].kind # "long"
         THEN job.errors + Made(job, "word") = Cardinality(NotBlank(r.lines))
         ELSE job.errors = r.count /\ Made(job, "word") = 0

(* Of a row whose message was taken, or that left nothing to send, every     *)
(* sample is in the message or counted, and none is both, though bad lines   *)
(* and bad images are found in two passes (handler.go 144-172).  Of a        *)
(* message that failed nothing is said: its samples count as one error       *)
(* together (worker.go 68-75), and it may have arrived all the same.         *)
SamplesAccounted == \A j \in DOMAIN jobs :
    jobs[j].pc \in {"sent", "dropped"} => Accounted(jobs[j], RowOf(j))

(* Every row that a worker has taken is settled, also when ten others hold   *)
(* the semaphore: its message answered, failed or given up, or nothing left  *)
(* of it to send.  No way out of Handle keeps a place (handler.go 134-135).  *)
(* A row left in the channel of a worker that has gone is not taken.         *)
EveryRowSettles == \A id \in Ids :
    (\E j \in DOMAIN jobs : jobs[j].id = id /\ jobs[j].pc # "queued")
    ~> \E j \in DOMAIN jobs :
         jobs[j].id = id /\ jobs[j].pc \in {"sent", "lost", "stopped", "dropped"}
=============================================================================
