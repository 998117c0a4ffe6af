-------------------------------- MODULE Feed --------------------------------
(***************************************************************************)
(* How the samples of one task get from the table to the Training Node:    *)
(* the pages of a selection (DatabasePlugin/handler/handler.go, Get),      *)
(* while rows are added and deleted; the handling of a row (Handle and the *)
(* functions it calls); the call that brings it over (send/sender.go),     *)
(* and its decoding (TrainPlugin/trainplugin/data/decode.py).              *)
(*                                                                         *)
(* Rows are handled by several workers, so they are handled in any order   *)
(* and side by side, a line of a file or an image being one step.  Which   *)
(* worker, its channels, Finish, the error table and what stops a task are *)
(* the module DataNode; here a stop is where a behaviour ends.             *)
(*                                                                         *)
(* Abstraction.  A file is what its path stands for; a picture or a text   *)
(* in a tensor is the path or the word it was made from.                   *)
(***************************************************************************)
EXTENDS Selection, FiniteSets

CONSTANTS
    Ids,         \* the IDs of rows
    Starts,      \* the selections, rows and tables a task may start with
    Texts,       \* paths and words
    Empty,       \* the empty string
    Files,       \* the paths that can be opened
    Pictures,    \* those among them that can be decoded as an image
    NoField,     \* what a line of JSON holds for a field it does not name
    NoMessage,   \* a Handle that has made nothing to send
    PageSize,    \* pageSize (100)
    MaxIO,       \* maxConcurrentIO (10)
    Tries,       \* how often one message may arrive (six: five retries)
    QueriesFail  \* TRUE: the query for a page may fail

Fields == {"image", "word"}
Lines == [kind : {"blank", "object", "bad", "long"},
          image : Texts \cup {NoField}, word : Texts \cup {NoField}]
Rows == [ID : Ids, date : Int, type : STRING, dtype : STRING, path : Texts,
         lines : Seq(Lines), count : Nat]

(* What is sent: tensors, with their number of dimensions and the first of   *)
(* them, by the name of what they hold.                                      *)
Tensors  == [dims : Nat, n : Nat, cells : Seq(Texts)]
Messages == [Type : STRING, DType : STRING,
             Inputs : [Fields -> Tensors] \cup [{"txt"} -> Tensors] \cup [{"jpg"} -> Tensors]
                      \cup [{"jpeg"} -> Tensors] \cup [{"png"} -> Tensors]]

ASSUME FeedAssumption ==
    /\ Ids \subseteq Nat \ {0}
    /\ \A start \in Starts : /\ start.table \subseteq Ids /\ start.deleted \subseteq Ids
                             /\ start.row \in [Ids -> Rows]
                             /\ \A id \in Ids : start.row[id].ID = id
    /\ Pictures \subseteq Files /\ Files \subseteq Texts
    /\ Empty \in Texts \ Files /\ NoField \notin Texts /\ NoMessage \notin Messages
    /\ PageSize \in Nat \ {0} /\ {MaxIO, Tries} \subseteq Nat \ {0}
    /\ QueriesFail \in BOOLEAN

VARIABLES
    select,   \* the selector of the task
    row,      \* the rows, by ID
    life,     \* where each row is: "unborn", there from the "start", "late", or "gone"
    feed,     \* the dispatch: its place, lastID and the rows of the page still to be put
    jobs,     \* the rows dispatched, in order, each with the locals of its handling
    ioSem,    \* how many hold the semaphore
    failed    \* history: a query has failed

database == <<row, life>>
dispatch == <<select, feed, failed>>
vars == <<database, dispatch, jobs, ioSem>>

NewJob(id) ==
    [id |-> id, pc |-> "queued", at |-> 1, s |-> [image |-> Empty, word |-> Empty],
     samples |-> <<>>, bad |-> 0, good |-> <<>>, buf |-> <<>>, message |-> NoMessage,
     arrived |-> 0, errors |-> 0]

Init ==
    /\ \E start \in Starts :
         /\ select = start.select /\ row = start.row
         /\ life = [id \in Ids |-> IF id \in start.deleted THEN "gone"
                                  ELSE IF id \in start.table THEN "start" ELSE "unborn"]
    /\ feed = [pc |-> "count", cursor |-> 0, page |-> {}]
    /\ jobs = <<>>
    /\ ioSem = 0
    /\ failed = FALSE

-----------------------------------------------------------------------------
(* The table, which others change (the ID of a row is never used again).     *)

RowAdded(id) ==
    /\ life[id] = "unborn"
    /\ life' = [life EXCEPT ![id] = "late"]
    /\ UNCHANGED <<row, dispatch, jobs, ioSem>>

RowDeleted(id) ==
    /\ life[id] \in {"start", "late"}
    /\ life' = [life EXCEPT ![id] = "gone"]
    /\ UNCHANGED <<row, dispatch, jobs, ioSem>>

-----------------------------------------------------------------------------
(* Count, at the registration of the task, refuses what SelectFunc refuses.  *)
Counts ==
    /\ feed.pc = "count"
    /\ feed' = [feed EXCEPT !.pc = IF SelectFails(select) THEN "refused" ELSE "page"]
    /\ UNCHANGED <<select, failed, database, jobs, ioSem>>

(* Variant: ID >= lastID.                                                    *)
FoundAgain == {id \in Ids : /\ life[id] \in {"start", "late"}
                            /\ id >= feed.cursor
                            /\ Selected(select, row[id])}

Found == {id \in Ids : /\ life[id] \in {"start", "late"}
                       /\ id > feed.cursor
                       /\ Selected(select, row[id])}

(* Variant: LIMIT without ORDER BY.                                          *)
FirstOfUnordered(S, page) ==
    /\ page \subseteq S
    /\ Cardinality(page) <= PageSize /\ (page # S => Cardinality(page) = PageSize)

(* The rows of S that ORDER BY ID LIMIT PageSize leaves.                     *)
FirstOf(S, page) ==
    /\ page \subseteq S
    /\ \A id \in page, other \in S \ page : id < other
    /\ Cardinality(page) <= PageSize /\ (page # S => Cardinality(page) = PageSize)

(* Get: a page and the largest ID on it, or nothing.                         *)
GetPage ==
    /\ feed.pc = "page"
    /\ \E page \in SUBSET Found : \E last \in page :
         /\ FirstOf(Found, page)
         /\ \A id \in page : id <= last
         /\ feed' = [pc |-> "put", cursor |-> last, page |-> page]
    /\ UNCHANGED <<select, failed, database, jobs, ioSem>>

GetNothing ==
    /\ feed.pc = "page" /\ Found = {}
    /\ feed' = [feed EXCEPT !.pc = "over"]
    /\ UNCHANGED <<select, failed, database, jobs, ioSem>>

(* Nobody looks at the error of Find: it leaves no rows, as the end does.    *)
GetFails ==
    /\ QueriesFail /\ feed.pc = "page"
    /\ feed' = [feed EXCEPT !.pc = "over"]
    /\ failed' = TRUE
    /\ UNCHANGED <<select, database, jobs, ioSem>>

(* Begin puts the rows of a page one after another.                          *)
PutRow(id) ==
    /\ feed.pc = "put" /\ id \in feed.page
    /\ \A other \in feed.page : id <= other
    /\ jobs' = Append(jobs, NewJob(id))
    /\ feed' = [feed EXCEPT !.page = @ \ {id},
                            !.pc = IF feed.page = {id} THEN "page" ELSE "put"]
    /\ UNCHANGED <<select, failed, database, ioSem>>

-----------------------------------------------------------------------------
(* Handle: of what a row names, under the semaphore.                         *)

RowOf(j) == row[jobs[j].id]
IsPicture(dtype) == dtype \in {"jpg", "jpeg", "png"}
Opens(r) == \/ IsPicture(r.dtype) /\ r.path \in Pictures
            \/ r.dtype \in {"txt", "json"} /\ r.path \in Files

(* Job j, at place "from", becomes "job"; Handle returns and lets the         *)
(* semaphore go.                                                              *)
Becomes(j, from, job) ==
    /\ jobs[j].pc = from
    /\ jobs' = [jobs EXCEPT ![j] = job]
    /\ UNCHANGED <<database, dispatch>>

Returns(j, from, message, n) ==
    /\ Becomes(j, from, [jobs[j] EXCEPT !.pc = IF message = NoMessage THEN "dropped" ELSE "send",
                                        !.message = message, !.errors = n])
    /\ ioSem' = ioSem - 1

(* A worker takes the row out of its channel; nothing makes one do so.       *)
RowTaken(j) ==
    /\ Becomes(j, "queued", [jobs[j] EXCEPT !.pc = "taken"])
    /\ UNCHANGED ioSem

(* Variant: does not wait for a place.                                       *)
HandleBeginsAtOnce(j) ==
    /\ Becomes(j, "taken", [jobs[j] EXCEPT !.pc = "open"])
    /\ ioSem' = ioSem + 1

HandleBegins(j) ==
    /\ ioSem < MaxIO
    /\ Becomes(j, "taken", [jobs[j] EXCEPT !.pc = "open"])
    /\ ioSem' = ioSem + 1

Tensor(dims, n, cells) == [dims |-> dims, n |-> n, cells |-> cells]
Message(j, inputs) == [Type |-> RowOf(j).type, DType |-> RowOf(j).dtype, Inputs |-> inputs]

(* imageToTensor, textToTensor                                               *)
ReadsOne(j) ==
    LET r == RowOf(j) IN
    /\ r.dtype # "json" /\ Opens(r)
    /\ Returns(j, "open", Message(j, [key \in {r.dtype} |->
           Tensor(IF r.dtype = "txt" THEN 1 ELSE 3, 1, <<r.path>>)]), 0)

(* Variant: an error on which the semaphore is not given back.               *)
OpenFailsHolding(j) ==
    /\ ~Opens(RowOf(j))
    /\ Becomes(j, "open", [jobs[j] EXCEPT !.pc = "dropped",
           !.errors = IF RowOf(j).dtype = "json" THEN RowOf(j).count ELSE 1])
    /\ UNCHANGED ioSem

(* ... and a dtype, or a path, that Handle cannot do with.                   *)
OpenFails(j) ==
    /\ ~Opens(RowOf(j))
    /\ Returns(j, "open", NoMessage, IF RowOf(j).dtype = "json" THEN RowOf(j).count ELSE 1)

OpensJSON(j) ==
    /\ RowOf(j).dtype = "json" /\ Opens(RowOf(j))
    /\ Becomes(j, "open", [jobs[j] EXCEPT !.pc = "scan"])
    /\ UNCHANGED ioSem

-----------------------------------------------------------------------------
(* parseJSON: one line after another is read into the one variable s.        *)

(* Unmarshal leaves a field alone that the line does not name; a line it     *)
(* gives an error for may still set the fields of the right type.            *)
Filled(s, line) == [field \in Fields |-> IF line[field] = NoField THEN s[field] ELSE line[field]]

ScansLine(j, kind, job) ==
    /\ jobs[j].at \in DOMAIN RowOf(j).lines
    /\ RowOf(j).lines[jobs[j].at].kind = kind
    /\ Becomes(j, "scan", [job EXCEPT !.at = @ + 1])
    /\ UNCHANGED ioSem

ScanBlank(j) == ScansLine(j, "blank", jobs[j])

ScanBad(j) == ScansLine(j, "bad",
    [jobs[j] EXCEPT !.bad = @ + 1, !.s = Filled(@, RowOf(j).lines[jobs[j].at])])

(* The field line of a sample is a history: where it comes from.             *)
ScanSample(j) ==
    LET s == Filled(jobs[j].s, RowOf(j).lines[jobs[j].at]) IN
    ScansLine(j, "object",
      [jobs[j] EXCEPT !.s = s,
         !.samples = Append(@, [image |-> s.image, word |-> s.word, line |-> jobs[j].at])])

(* A line over a mebibyte ends the scan with an error.                       *)
ScanFails(j) ==
    /\ jobs[j].at \in DOMAIN RowOf(j).lines
    /\ RowOf(j).lines[jobs[j].at].kind = "long"
    /\ Returns(j, "scan", NoMessage, RowOf(j).count)

ScanEnds(j) ==
    /\ jobs[j].at = Len(RowOf(j).lines) + 1
    /\ Becomes(j, "scan", [jobs[j] EXCEPT !.pc = "images", !.at = 1])
    /\ UNCHANGED ioSem

(* imagesToTensor: the images of the samples, and which samples have one.    *)
ImageRead(j) ==
    /\ jobs[j].at \in DOMAIN jobs[j].samples
    /\ jobs[j].samples[jobs[j].at].image \in Pictures
    /\ Becomes(j, "images", [jobs[j] EXCEPT !.at = @ + 1, !.good = Append(@, jobs[j].at),
           !.buf = Append(@, jobs[j].samples[jobs[j].at].image)])
    /\ UNCHANGED ioSem

(* Variant: an image that cannot be read is no error.                        *)
ImageFailsUncounted(j) ==
    /\ jobs[j].at \in DOMAIN jobs[j].samples
    /\ jobs[j].samples[jobs[j].at].image \notin Pictures
    /\ Becomes(j, "images", [jobs[j] EXCEPT !.at = @ + 1])
    /\ UNCHANGED ioSem

ImageFails(j) ==
    /\ jobs[j].at \in DOMAIN jobs[j].samples
    /\ jobs[j].samples[jobs[j].at].image \notin Pictures
    /\ Becomes(j, "images", [jobs[j] EXCEPT !.at = @ + 1, !.bad = @ + 1])
    /\ UNCHANGED ioSem

(* Variants: the words of the first samples; the words of all of them.       *)
WordsOfFirst(j) == [k \in DOMAIN jobs[j].good |-> jobs[j].samples[k].word]
WordsOfAll(j) == [k \in DOMAIN jobs[j].samples |-> jobs[j].samples[k].word]

Words(j) == [k \in DOMAIN jobs[j].good |-> jobs[j].samples[jobs[j].good[k]].word]

ImagesEnd(j) ==
    /\ jobs[j].at = Len(jobs[j].samples) + 1
    /\ Returns(j, "images",
         IF jobs[j].good = <<>> THEN NoMessage
         ELSE Message(j, [key \in Fields |->
                IF key = "image" THEN Tensor(4, Len(jobs[j].good), jobs[j].buf)
                ELSE Tensor(2, Len(Words(j)), Words(j))]),
         jobs[j].bad)

-----------------------------------------------------------------------------
(* SendToTrain: the message arrives, perhaps more than once, and is answered *)
(* or not; a failure counts as one error.                                    *)

(* decode_to_samples                                                         *)
Decodable(m) ==
    /\ \A key \in DOMAIN m.Inputs : Len(m.Inputs[key].cells) = m.Inputs[key].n
    /\ \/ m.DType = "txt"
       \/ IsPicture(m.DType)
       \/ /\ m.DType = "json" /\ DOMAIN m.Inputs = Fields
          /\ m.Inputs["image"].dims = 4 /\ m.Inputs["word"].dims = 2
          /\ m.Inputs["image"].n = m.Inputs["word"].n

Arrives(j) ==
    /\ jobs[j].arrived < Tries
    /\ Becomes(j, "send", IF Decodable(jobs[j].message)
                          THEN [jobs[j] EXCEPT !.arrived = @ + 1]
                          ELSE [jobs[j] EXCEPT !.pc = "lost", !.errors = @ + 1])
    /\ UNCHANGED ioSem

SendAnswered(j) ==
    /\ jobs[j].arrived > 0
    /\ Becomes(j, "send", [jobs[j] EXCEPT !.pc = "sent"])
    /\ UNCHANGED ioSem

SendFails(j) ==
    /\ Becomes(j, "send", [jobs[j] EXCEPT !.pc = "lost", !.errors = @ + 1])
    /\ UNCHANGED ioSem

(* The errors of Handle have reached the threshold, or the Training Node     *)
(* answers that the task is over: the worker leaves, and counts nothing.     *)
SendGivenUp(j) ==
    /\ Becomes(j, "send", [jobs[j] EXCEPT !.pc = "stopped"])
    /\ UNCHANGED ioSem

HandleNext(j) ==
    \/ RowTaken(j) \/ HandleBegins(j) \/ ReadsOne(j) \/ OpenFails(j) \/ OpensJSON(j)
    \/ ScanBlank(j) \/ ScanBad(j) \/ ScanSample(j) \/ ScanFails(j) \/ ScanEnds(j)
    \/ ImageRead(j) \/ ImageFails(j) \/ ImagesEnd(j)

SendNext(j) == Arrives(j) \/ SendAnswered(j) \/ SendFails(j) \/ SendGivenUp(j)

JobNext(j) == HandleNext(j) \/ SendNext(j)

DispatchNext == Counts \/ GetPage \/ GetNothing \/ GetFails \/ \E id \in Ids : PutRow(id)

Next == \/ \E id \in Ids : RowAdded(id) \/ RowDeleted(id)
        \/ DispatchNext
        \/ \E j \in DOMAIN jobs : JobNext(j)

Spec == Init /\ [][Next]_vars

(* A worker goes on with the row it has taken: some row goes on, not this or *)
(* that one, for the places of the semaphore are few.  Nothing makes a row   *)
(* be put, or be taken: its worker may have left (worker.go 58-98).          *)
FairSpec ==
    Spec /\ WF_vars(\E j \in DOMAIN jobs : jobs[j].pc # "queued" /\ JobNext(j))
=============================================================================
