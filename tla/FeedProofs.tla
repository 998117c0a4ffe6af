------------------------------ MODULE FeedProofs ------------------------------
(***************************************************************************)
(* Theorems about the feed, for any rows, files, selection, page size,     *)
(* number of places and of tries.                                          *)
(***************************************************************************)
EXTENDS FeedProperties, FiniteSetTheorems, TLAPS

-----------------------------------------------------------------------------
(* A step of the handling of job j changes j alone, and not whose row it is. *)
JobsOK == jobs \in Seq(Jobs) /\ row \in [Ids -> Rows]

Frame(j) ==
    /\ jobs' \in Seq(Jobs) /\ DOMAIN jobs' = DOMAIN jobs
    /\ \A i \in DOMAIN jobs : i # j => jobs'[i] = jobs[i]
    /\ jobs'[j] \in Jobs /\ jobs'[j].id = jobs[j].id
    /\ UNCHANGED <<database, dispatch>>

LEMMA JobFields ==
    ASSUME JobsOK, NEW j \in DOMAIN jobs
    PROVE  jobs[j] \in Jobs /\ jobs[j].id \in Ids /\ RowOf(j) \in Rows
<1>1. jobs[j] \in Jobs
    BY DEF JobsOK
<1>2. jobs[j].id \in Ids
    BY <1>1 DEF Jobs
<1> QED
    BY <1>1, <1>2 DEF RowOf, JobsOK

LEMMA BecomesFrame ==
    ASSUME JobsOK, NEW j \in DOMAIN jobs, NEW from, NEW job \in Jobs, job.id = jobs[j].id,
           Becomes(j, from, job)
    PROVE  /\ Frame(j) /\ jobs'[j] = job /\ jobs[j].pc = from
BY DEF Becomes, JobsOK, Frame

(* Returns makes of a handling one that is over, or about to send.           *)
LEMMA ReturnsFrame ==
    ASSUME JobsOK, NEW j \in DOMAIN jobs, NEW from,
           NEW message \in Messages \cup {NoMessage}, NEW n \in Nat, Returns(j, from, message, n)
    PROVE  /\ Frame(j) /\ jobs[j].pc = from /\ ioSem' = ioSem - 1
           /\ jobs'[j].pc = IF message = NoMessage THEN "dropped" ELSE "send"
           /\ jobs'[j].message = message /\ jobs'[j].errors = n
<1> DEFINE job == [jobs[j] EXCEPT !.pc = IF message = NoMessage THEN "dropped" ELSE "send",
                                  !.message = message, !.errors = n]
<1>1. jobs[j] \in Jobs
    BY JobFields
<1>2. job \in Jobs /\ job.id = jobs[j].id
      /\ job.pc = (IF message = NoMessage THEN "dropped" ELSE "send")
      /\ job.message = message /\ job.errors = n
    BY <1>1 DEF Jobs, JobPCs
<1>3. Becomes(j, from, job) /\ ioSem' = ioSem - 1
    BY DEF Returns
<1> HIDE DEF job
<1> QED
    BY <1>2, <1>3, BecomesFrame

LEMMA RowTakenFrame ==
    ASSUME JobsOK, NEW j \in DOMAIN jobs, RowTaken(j)
    PROVE  /\ Frame(j) /\ UNCHANGED ioSem
           /\ jobs[j].pc = "queued" /\ jobs'[j] = [jobs[j] EXCEPT !.pc = "taken"]
<1> DEFINE job == [jobs[j] EXCEPT !.pc = "taken"]
<1>1. jobs[j] \in Jobs
    BY JobFields
<1>2. job \in Jobs /\ job.id = jobs[j].id
    BY <1>1 DEF Jobs, JobPCs
<1>3. Becomes(j, "queued", job) /\ UNCHANGED ioSem
    BY DEF RowTaken
<1> HIDE DEF job
<1>4. Frame(j) /\ jobs'[j] = job /\ jobs[j].pc = "queued"
    BY <1>2, <1>3, BecomesFrame
<1> QED
    BY <1>3, <1>4 DEF job

LEMMA HandleBeginsFrame ==
    ASSUME JobsOK, NEW j \in DOMAIN jobs, HandleBegins(j)
    PROVE  /\ Frame(j) /\ ioSem < MaxIO /\ ioSem' = ioSem + 1
           /\ jobs[j].pc = "taken" /\ jobs'[j] = [jobs[j] EXCEPT !.pc = "open"]
<1> DEFINE job == [jobs[j] EXCEPT !.pc = "open"]
<1>1. jobs[j] \in Jobs
    BY JobFields
<1>2. job \in Jobs /\ job.id = jobs[j].id
    BY <1>1 DEF Jobs, JobPCs
<1>3. Becomes(j, "taken", job) /\ ioSem < MaxIO /\ ioSem' = ioSem + 1
    BY DEF HandleBegins
<1> HIDE DEF job
<1>4. Frame(j) /\ jobs'[j] = job /\ jobs[j].pc = "taken"
    BY <1>2, <1>3, BecomesFrame
<1> QED
    BY <1>3, <1>4 DEF job

LEMMA OpensJSONFrame ==
    ASSUME JobsOK, NEW j \in DOMAIN jobs, OpensJSON(j)
    PROVE  /\ Frame(j) /\ jobs[j].pc = "open" /\ UNCHANGED ioSem
           /\ jobs'[j] = [jobs[j] EXCEPT !.pc = "scan"]
<1> DEFINE job == [jobs[j] EXCEPT !.pc = "scan"]
<1>1. jobs[j] \in Jobs
    BY JobFields
<1>2. job \in Jobs /\ job.id = jobs[j].id
    BY <1>1 DEF Jobs, JobPCs
<1>3. Becomes(j, "open", job) /\ UNCHANGED ioSem
    BY DEF OpensJSON
<1> HIDE DEF job
<1>4. Frame(j) /\ jobs'[j] = job /\ jobs[j].pc = "open"
    BY <1>2, <1>3, BecomesFrame
<1> QED
    BY <1>3, <1>4 DEF job

-----------------------------------------------------------------------------
(* The steps of parseJSON, by the fields they change.                        *)
ScanFrame(j, job) ==
    /\ Frame(j) /\ UNCHANGED ioSem /\ jobs[j].pc = "scan" /\ job.pc = "scan"
    /\ job.at = jobs[j].at + 1
    /\ job.good = jobs[j].good /\ job.buf = jobs[j].buf /\ job.message = jobs[j].message
    /\ job.errors = jobs[j].errors

Line(j) == RowOf(j).lines[jobs[j].at]

LEMMA LineTyped ==
    ASSUME JobsOK, NEW j \in DOMAIN jobs, jobs[j].at \in DOMAIN RowOf(j).lines
    PROVE  Line(j) \in Lines /\ \A s \in [Fields -> Texts] : Filled(s, Line(j)) \in [Fields -> Texts]
<1>1. Line(j) \in Lines
    <2>1. RowOf(j) \in Rows
        BY JobFields
    <2>2. RowOf(j).lines \in Seq(Lines)
        BY <2>1 DEF Rows
    <2> QED
        BY <2>2 DEF Line
<1>2. \A field \in Fields : Line(j)[field] \in Texts \cup {NoField}
    BY <1>1 DEF Lines, Fields
<1> QED
    BY <1>1, <1>2 DEF Filled

Onward(job) == [job EXCEPT !.at = @ + 1]

LEMMA OnwardFields ==
    ASSUME NEW job \in Jobs
    PROVE  /\ Onward(job) \in Jobs /\ Onward(job).at = job.at + 1
           /\ Onward(job).id = job.id /\ Onward(job).pc = job.pc
           /\ Onward(job).good = job.good /\ Onward(job).buf = job.buf
           /\ Onward(job).message = job.message /\ Onward(job).errors = job.errors
           /\ Onward(job).bad = job.bad /\ Onward(job).s = job.s
           /\ Onward(job).samples = job.samples
<1> DEFINE n == job.at + 1
<1>1. n \in Nat \ {0}
    BY DEF Jobs
<1>2. Onward(job) = [job EXCEPT !.at = n]
    BY DEF Onward
<1> HIDE DEF n
<1>3. [job EXCEPT !.at = n] \in Jobs
    BY <1>1 DEF Jobs
<1>4. /\ Onward(job).at = n
      /\ Onward(job).id = job.id /\ Onward(job).pc = job.pc
      /\ Onward(job).good = job.good /\ Onward(job).buf = job.buf
      /\ Onward(job).message = job.message /\ Onward(job).errors = job.errors
      /\ Onward(job).bad = job.bad /\ Onward(job).s = job.s
      /\ Onward(job).samples = job.samples
    BY <1>1, <1>2 DEF Jobs
<1> QED
    BY <1>2, <1>3, <1>4 DEF n

LEMMA ScanBlankFrame ==
    ASSUME JobsOK, NEW j \in DOMAIN jobs, ScanBlank(j)
    PROVE  /\ ScanFrame(j, jobs'[j])
           /\ jobs[j].at \in DOMAIN RowOf(j).lines /\ Line(j).kind = "blank"
           /\ jobs'[j].bad = jobs[j].bad /\ jobs'[j].s = jobs[j].s
           /\ jobs'[j].samples = jobs[j].samples
<1> DEFINE job == Onward(jobs[j])
<1>1. jobs[j] \in Jobs
    BY JobFields
<1>2. /\ Becomes(j, "scan", job) /\ UNCHANGED ioSem
      /\ jobs[j].at \in DOMAIN RowOf(j).lines /\ Line(j).kind = "blank"
    BY DEF ScanBlank, ScansLine, Line, Onward
<1>3. Frame(j) /\ jobs'[j] = job /\ jobs[j].pc = "scan"
    BY <1>1, <1>2, BecomesFrame, OnwardFields
<1> QED
    BY <1>1, <1>2, <1>3, OnwardFields DEF ScanFrame

LEMMA ScanBadFrame ==
    ASSUME JobsOK, NEW j \in DOMAIN jobs, ScanBad(j)
    PROVE  /\ ScanFrame(j, jobs'[j])
           /\ jobs[j].at \in DOMAIN RowOf(j).lines /\ Line(j).kind = "bad"
           /\ jobs'[j].bad = jobs[j].bad + 1 /\ jobs'[j].s = Filled(jobs[j].s, Line(j))
           /\ jobs'[j].samples = jobs[j].samples
<1> DEFINE new == Filled(jobs[j].s, Line(j))
           n == jobs[j].bad + 1
           mid == [jobs[j] EXCEPT !.bad = n, !.s = new]
           job == Onward(mid)
<1>1. jobs[j] \in Jobs /\ jobs[j].s \in [Fields -> Texts]
    <2>1. jobs[j] \in Jobs
        BY JobFields
    <2> QED
        BY <2>1 DEF Jobs
<1>2. jobs[j].at \in DOMAIN RowOf(j).lines /\ Line(j).kind = "bad"
    BY DEF ScanBad, ScansLine, Line
<1>3. Becomes(j, "scan", job) /\ UNCHANGED ioSem
    <2>1. [jobs[j] EXCEPT !.bad = @ + 1, !.s = Filled(@, RowOf(j).lines[jobs[j].at])] = mid
        BY <1>1 DEF Jobs, Line
    <2> QED
        BY <2>1 DEF ScanBad, ScansLine, Onward
<1>4. new \in [Fields -> Texts] /\ n \in Nat
    <2>1. n \in Nat
        BY <1>1 DEF Jobs
    <2> QED
        BY <1>1, <1>2, <2>1, LineTyped
<1> HIDE DEF new, n
<1>5. /\ mid \in Jobs /\ mid.id = jobs[j].id /\ mid.at = jobs[j].at /\ mid.pc = jobs[j].pc
      /\ mid.good = jobs[j].good /\ mid.buf = jobs[j].buf /\ mid.message = jobs[j].message
      /\ mid.errors = jobs[j].errors /\ mid.bad = n /\ mid.s = new
      /\ mid.samples = jobs[j].samples
    BY <1>1, <1>4 DEF Jobs
<1> HIDE DEF mid
<1>6. Frame(j) /\ jobs'[j] = job /\ jobs[j].pc = "scan"
    BY <1>3, <1>5, BecomesFrame, OnwardFields
<1> QED
    BY <1>2, <1>3, <1>5, <1>6, OnwardFields DEF ScanFrame, new, n

LEMMA ScanSampleFrame ==
    ASSUME JobsOK, NEW j \in DOMAIN jobs, ScanSample(j)
    PROVE  /\ ScanFrame(j, jobs'[j])
           /\ jobs[j].at \in DOMAIN RowOf(j).lines /\ Line(j).kind = "object"
           /\ jobs'[j].bad = jobs[j].bad /\ jobs'[j].s = Filled(jobs[j].s, Line(j))
           /\ jobs'[j].samples = Append(jobs[j].samples,
                 [image |-> jobs'[j].s.image, word |-> jobs'[j].s.word, line |-> jobs[j].at])
<1> DEFINE new == Filled(jobs[j].s, Line(j))
           sample == [image |-> new.image, word |-> new.word, line |-> jobs[j].at]
           more == Append(jobs[j].samples, sample)
           mid == [jobs[j] EXCEPT !.s = new, !.samples = more]
           job == Onward(mid)
<1>1. /\ jobs[j] \in Jobs /\ jobs[j].s \in [Fields -> Texts] /\ jobs[j].samples \in Seq(Samples)
      /\ jobs[j].at \in Nat
    <2>1. jobs[j] \in Jobs
        BY JobFields
    <2> QED
        BY <2>1 DEF Jobs
<1>2. jobs[j].at \in DOMAIN RowOf(j).lines /\ Line(j).kind = "object"
    BY DEF ScanSample, ScansLine, Line
<1>3. Becomes(j, "scan", job) /\ UNCHANGED ioSem
    <2>1. [jobs[j] EXCEPT !.s = new, !.samples = Append(@, sample)] = mid
        BY <1>1 DEF Jobs
    <2> QED
        BY <2>1 DEF ScanSample, ScansLine, Line, Onward
<1>4. new \in [Fields -> Texts]
    BY <1>1, <1>2, LineTyped
<1>5. more \in Seq(Samples)
    <2>1. new.image \in Texts /\ new.word \in Texts
        BY <1>4 DEF Fields
    <2>2. sample \in Samples
        BY <1>1, <2>1 DEF Samples
    <2> QED
        BY <1>1, <2>2
<1> HIDE DEF new, more
<1>6. /\ mid \in Jobs /\ mid.id = jobs[j].id /\ mid.at = jobs[j].at /\ mid.pc = jobs[j].pc
      /\ mid.good = jobs[j].good /\ mid.buf = jobs[j].buf /\ mid.message = jobs[j].message
      /\ mid.errors = jobs[j].errors /\ mid.bad = jobs[j].bad /\ mid.s = new
      /\ mid.samples = more
    BY <1>1, <1>4, <1>5 DEF Jobs
<1> HIDE DEF mid
<1>7. Frame(j) /\ jobs'[j] = job /\ jobs[j].pc = "scan"
    BY <1>3, <1>6, BecomesFrame, OnwardFields
<1> QED
    BY <1>2, <1>3, <1>6, <1>7, OnwardFields DEF ScanFrame, new, more

LEMMA ScanEndsFrame ==
    ASSUME JobsOK, NEW j \in DOMAIN jobs, ScanEnds(j)
    PROVE  /\ Frame(j) /\ jobs[j].pc = "scan" /\ UNCHANGED ioSem
           /\ jobs[j].at = Len(RowOf(j).lines) + 1
           /\ jobs'[j] = [jobs[j] EXCEPT !.pc = "images", !.at = 1]
<1> DEFINE first == 1
           job == [jobs[j] EXCEPT !.pc = "images", !.at = first]
<1>1. jobs[j] \in Jobs
    BY JobFields
<1>0. first \in Nat \ {0}
    OBVIOUS
<1> HIDE DEF first
<1>2. job \in Jobs /\ job.id = jobs[j].id
    BY <1>0, <1>1 DEF Jobs, JobPCs
<1>3. Becomes(j, "scan", job) /\ UNCHANGED ioSem /\ jobs[j].at = Len(RowOf(j).lines) + 1
    BY DEF ScanEnds, first
<1> HIDE DEF job
<1>4. Frame(j) /\ jobs'[j] = job /\ jobs[j].pc = "scan"
    BY <1>2, <1>3, BecomesFrame
<1> QED
    BY <1>3, <1>4 DEF job, first

-----------------------------------------------------------------------------
(* The steps of imagesToTensor.                                              *)
ImageFrame(j, job) ==
    /\ Frame(j) /\ UNCHANGED ioSem /\ jobs[j].pc = "images" /\ job.pc = "images"
    /\ jobs[j].at \in DOMAIN jobs[j].samples /\ job.at = jobs[j].at + 1
    /\ job.samples = jobs[j].samples /\ job.message = jobs[j].message
    /\ job.errors = jobs[j].errors

LEMMA ImageReadFrame ==
    ASSUME JobsOK, NEW j \in DOMAIN jobs, ImageRead(j)
    PROVE  /\ ImageFrame(j, jobs'[j])
           /\ jobs'[j].good = Append(jobs[j].good, jobs[j].at)
           /\ jobs'[j].buf = Append(jobs[j].buf, jobs[j].samples[jobs[j].at].image)
           /\ jobs'[j].bad = jobs[j].bad
<1> DEFINE image == jobs[j].samples[jobs[j].at].image
           good == Append(jobs[j].good, jobs[j].at)
           buf == Append(jobs[j].buf, image)
           n == jobs[j].at + 1
           job == [jobs[j] EXCEPT !.at = n, !.good = good, !.buf = buf]
<1>1. /\ jobs[j] \in Jobs /\ jobs[j].samples \in Seq(Samples) /\ jobs[j].at \in Nat
      /\ jobs[j].good \in Seq(Nat) /\ jobs[j].buf \in Seq(Texts)
    <2>1. jobs[j] \in Jobs
        BY JobFields
    <2> QED
        BY <2>1 DEF Jobs
<1>2. /\ Becomes(j, "images", job) /\ UNCHANGED ioSem /\ jobs[j].at \in DOMAIN jobs[j].samples
    <2>1. [jobs[j] EXCEPT !.at = @ + 1, !.good = Append(@, jobs[j].at), !.buf = Append(@, image)]
          = job
        BY <1>1 DEF Jobs
    <2> QED
        BY <2>1 DEF ImageRead
<1>3. image \in Texts
    <2>1. jobs[j].samples[jobs[j].at] \in Samples
        BY <1>1, <1>2
    <2> QED
        BY <2>1 DEF Samples
<1> HIDE DEF image
<1>4. good \in Seq(Nat) /\ buf \in Seq(Texts) /\ n \in Nat \ {0}
    <2>1. good \in Seq(Nat)
        BY <1>1
    <2>2. buf \in Seq(Texts)
        BY <1>1, <1>3
    <2> QED
        BY <1>1, <2>1, <2>2
<1> HIDE DEF good, buf, n
<1>5. /\ job \in Jobs /\ job.id = jobs[j].id /\ job.at = n /\ job.pc = jobs[j].pc
      /\ job.good = good /\ job.buf = buf /\ job.message = jobs[j].message
      /\ job.errors = jobs[j].errors /\ job.bad = jobs[j].bad /\ job.samples = jobs[j].samples
    BY <1>1, <1>4 DEF Jobs
<1> HIDE DEF job
<1>6. Frame(j) /\ jobs'[j] = job /\ jobs[j].pc = "images"
    BY <1>2, <1>5, BecomesFrame
<1>7. n = jobs[j].at + 1 /\ good = Append(jobs[j].good, jobs[j].at)
      /\ buf = Append(jobs[j].buf, jobs[j].samples[jobs[j].at].image)
    BY DEF n, good, buf, image
<1>8. jobs'[j].at = n /\ jobs'[j].good = good /\ jobs'[j].buf = buf
      /\ jobs'[j].bad = jobs[j].bad /\ jobs'[j].pc = "images"
      /\ jobs'[j].samples = jobs[j].samples /\ jobs'[j].message = jobs[j].message
      /\ jobs'[j].errors = jobs[j].errors
    BY <1>5, <1>6
<1> HIDE DEF n
<1> QED
    BY <1>2, <1>6, <1>7, <1>8 DEF ImageFrame

LEMMA ImageFailsFrame ==
    ASSUME JobsOK, NEW j \in DOMAIN jobs, ImageFails(j)
    PROVE  /\ ImageFrame(j, jobs'[j])
           /\ jobs'[j].good = jobs[j].good /\ jobs'[j].buf = jobs[j].buf
           /\ jobs'[j].bad = jobs[j].bad + 1
<1> DEFINE n == jobs[j].at + 1
           b == jobs[j].bad + 1
           job == [jobs[j] EXCEPT !.at = n, !.bad = b]
<1>1. jobs[j] \in Jobs
    BY JobFields
<1>2. n \in Nat \ {0} /\ b \in Nat
    BY <1>1 DEF Jobs
<1>3. /\ Becomes(j, "images", job) /\ UNCHANGED ioSem /\ jobs[j].at \in DOMAIN jobs[j].samples
    BY DEF ImageFails
<1> HIDE DEF n, b
<1>5. /\ job \in Jobs /\ job.id = jobs[j].id /\ job.at = n /\ job.pc = jobs[j].pc
      /\ job.good = jobs[j].good /\ job.buf = jobs[j].buf /\ job.message = jobs[j].message
      /\ job.errors = jobs[j].errors /\ job.bad = b /\ job.samples = jobs[j].samples
    BY <1>1, <1>2 DEF Jobs
<1> HIDE DEF job
<1>6. Frame(j) /\ jobs'[j] = job /\ jobs[j].pc = "images"
    BY <1>3, <1>5, BecomesFrame
<1>7. n = jobs[j].at + 1 /\ b = jobs[j].bad + 1
    BY DEF n, b
<1>8. jobs'[j].at = n /\ jobs'[j].bad = b /\ jobs'[j].pc = "images"
      /\ jobs'[j].good = jobs[j].good /\ jobs'[j].buf = jobs[j].buf
      /\ jobs'[j].samples = jobs[j].samples /\ jobs'[j].message = jobs[j].message
      /\ jobs'[j].errors = jobs[j].errors
    BY <1>5, <1>6
<1> QED
    BY <1>3, <1>6, <1>7, <1>8 DEF ImageFrame

-----------------------------------------------------------------------------
(* The calls that bring a message over change nothing of it.                 *)
LEMMA SendFrame ==
    ASSUME JobsOK, NEW j \in DOMAIN jobs, SendNext(j)
    PROVE  /\ Frame(j) /\ UNCHANGED ioSem
           /\ jobs[j].pc = "send" /\ jobs'[j].message = jobs[j].message
           /\ \/ jobs'[j].pc \in {"send", "sent", "stopped"} /\ jobs'[j].errors = jobs[j].errors
              \/ jobs'[j].pc = "lost" /\ jobs'[j].errors = jobs[j].errors + 1
<1>1. jobs[j] \in Jobs
    BY JobFields
<1>2. ASSUME NEW job \in Jobs, job.id = jobs[j].id, job.message = jobs[j].message,
             \/ job.pc \in {"send", "sent", "stopped"} /\ job.errors = jobs[j].errors
             \/ job.pc = "lost" /\ job.errors = jobs[j].errors + 1,
             Becomes(j, "send", job), UNCHANGED ioSem
      PROVE  /\ Frame(j) /\ UNCHANGED ioSem
             /\ jobs[j].pc = "send" /\ jobs'[j].message = jobs[j].message
             /\ \/ jobs'[j].pc \in {"send", "sent", "stopped"} /\ jobs'[j].errors = jobs[j].errors
                \/ jobs'[j].pc = "lost" /\ jobs'[j].errors = jobs[j].errors + 1
    BY <1>2, BecomesFrame
<1> DEFINE n == jobs[j].arrived + 1
           e == jobs[j].errors + 1
           arrived == [jobs[j] EXCEPT !.arrived = n]
           sent == [jobs[j] EXCEPT !.pc = "sent"]
           stopped == [jobs[j] EXCEPT !.pc = "stopped"]
           lost == [jobs[j] EXCEPT !.pc = "lost", !.errors = e]
<1>3. n \in Nat /\ e \in Nat
    BY <1>1 DEF Jobs
<1>4. /\ Arrives(j) => (Becomes(j, "send", arrived) \/ Becomes(j, "send", lost)) /\ UNCHANGED ioSem
      /\ SendAnswered(j) => Becomes(j, "send", sent) /\ UNCHANGED ioSem
      /\ SendFails(j) => Becomes(j, "send", lost) /\ UNCHANGED ioSem
      /\ SendGivenUp(j) => Becomes(j, "send", stopped) /\ UNCHANGED ioSem
    BY DEF Arrives, SendAnswered, SendFails, SendGivenUp
<1>5. lost.errors = jobs[j].errors + 1 /\ (Becomes(j, "send", arrived) => arrived.pc = "send")
    BY <1>1 DEF Jobs, Becomes
<1> HIDE DEF n, e
<1>6. /\ arrived \in Jobs /\ arrived.id = jobs[j].id /\ arrived.message = jobs[j].message
      /\ arrived.errors = jobs[j].errors
    BY <1>1, <1>3 DEF Jobs
<1>7. /\ sent \in Jobs /\ sent.id = jobs[j].id /\ sent.message = jobs[j].message
      /\ sent.pc = "sent" /\ sent.errors = jobs[j].errors
    BY <1>1, <1>3 DEF Jobs, JobPCs
<1>8. /\ lost \in Jobs /\ lost.id = jobs[j].id /\ lost.message = jobs[j].message
      /\ lost.pc = "lost"
    BY <1>1, <1>3 DEF Jobs, JobPCs
<1>9. /\ stopped \in Jobs /\ stopped.id = jobs[j].id /\ stopped.message = jobs[j].message
      /\ stopped.pc = "stopped" /\ stopped.errors = jobs[j].errors
    BY <1>1, <1>3 DEF Jobs, JobPCs
<1> HIDE DEF arrived, sent, lost, stopped
<1> QED
    BY <1>2, <1>4, <1>5, <1>6, <1>7, <1>8, <1>9 DEF SendNext

-----------------------------------------------------------------------------
(* What a file says, line by line, and how many of its lines are not blank.  *)
LEMMA SaysFirst == \A lines, field : Says(lines, 0, field) = Empty
BY DEF Says, Naming

LEMMA SaysNext ==
    ASSUME NEW lines \in Seq(Lines), NEW n \in DOMAIN lines, NEW field \in Fields
    PROVE  Says(lines, n, field) =
             IF lines[n].kind \in {"object", "bad"} /\ lines[n][field] # NoField
             THEN lines[n][field] ELSE Says(lines, n - 1, field)
<1>1. n \in Nat \ {0}
    OBVIOUS
<1>2. CASE lines[n].kind \in {"object", "bad"} /\ lines[n][field] # NoField
    <2>1. n \in Naming(lines, n, field) /\ \A k \in Naming(lines, n, field) : k <= n /\ k \in Nat
        BY <1>1, <1>2 DEF Naming
    <2> DEFINE k == CHOOSE k \in Naming(lines, n, field) :
                        \A other \in Naming(lines, n, field) : other <= k
    <2>2. k \in Naming(lines, n, field) /\ \A other \in Naming(lines, n, field) : other <= k
        BY <2>1
    <2>3. k = n
        BY <1>1, <2>1, <2>2
    <2> QED
        BY <1>2, <2>1, <2>3 DEF Says
<1>3. CASE ~(lines[n].kind \in {"object", "bad"} /\ lines[n][field] # NoField)
    <2>1. Naming(lines, n, field) = Naming(lines, n - 1, field)
        BY <1>1, <1>3 DEF Naming
    <2> QED
        BY <1>3, <2>1 DEF Says
<1> QED
    BY <1>2, <1>3

SaysAll(lines, n) == [field \in Fields |-> Says(lines, n, field)]

(* The variable s of parseJSON holds what the lines read so far say.         *)
LEMMA FilledSays ==
    ASSUME NEW lines \in Seq(Lines), NEW n \in DOMAIN lines, lines[n].kind \in {"object", "bad"}
    PROVE  Filled(SaysAll(lines, n - 1), lines[n]) = SaysAll(lines, n)
BY SaysNext DEF Filled, SaysAll

LEMMA OtherSays ==
    ASSUME NEW lines \in Seq(Lines), NEW n \in DOMAIN lines, lines[n].kind \notin {"object", "bad"}
    PROVE  SaysAll(lines, n - 1) = SaysAll(lines, n)
BY SaysNext DEF SaysAll

(* The lines before line n that are not blank.                               *)
Above(lines, n) == {k \in NotBlank(lines) : k < n}

LEMMA AboveFirst ==
    ASSUME NEW lines \in Seq(Lines)
    PROVE  Cardinality(Above(lines, 1)) = 0
<1>1. Above(lines, 1) = {}
    BY DEF Above, NotBlank
<1> QED
    BY <1>1, FS_EmptySet

LEMMA AboveNext ==
    ASSUME NEW lines \in Seq(Lines), NEW n \in DOMAIN lines
    PROVE  /\ Cardinality(Above(lines, n)) \in Nat
           /\ Cardinality(Above(lines, n + 1)) =
                IF lines[n].kind = "blank" THEN Cardinality(Above(lines, n))
                ELSE Cardinality(Above(lines, n)) + 1
<1>1. n \in Nat \ {0} /\ Len(lines) \in Nat /\ DOMAIN lines = 1 .. Len(lines)
    OBVIOUS
<1>2. IsFiniteSet(Above(lines, n))
    <2>1. Above(lines, n) \in SUBSET (1 .. Len(lines))
        BY <1>1 DEF Above, NotBlank
    <2> QED
        <3>1. IsFiniteSet(1 .. Len(lines))
            BY <1>1, FS_Interval
        <3> QED
            BY <2>1, <3>1, FS_Subset
<1>3. CASE lines[n].kind = "blank"
    <2>1. Above(lines, n + 1) = Above(lines, n)
        BY <1>1, <1>3 DEF Above, NotBlank
    <2> QED
        BY <1>2, <1>3, <2>1, FS_CardinalityType
<1>4. CASE lines[n].kind # "blank"
    <2>1. Above(lines, n + 1) = Above(lines, n) \cup {n} /\ n \notin Above(lines, n)
        BY <1>1, <1>4 DEF Above, NotBlank
    <2> QED
        BY <1>2, <1>4, <2>1, FS_CardinalityType, FS_AddElement
<1> QED
    BY <1>3, <1>4

LEMMA AboveAll ==
    ASSUME NEW lines \in Seq(Lines)
    PROVE  Above(lines, Len(lines) + 1) = NotBlank(lines)
BY DEF Above, NotBlank

-----------------------------------------------------------------------------
(* What is true of the handling of one row, place by place: the samples are  *)
(* the lines read so far that are good, and s what these lines say; the      *)
(* images are those of the samples looked at so far that have one; and what  *)
(* is neither is counted.                                                    *)
SamplesSound(samples, lines) ==
    /\ \A k \in DOMAIN samples :
        /\ samples[k].line \in DOMAIN lines /\ lines[samples[k].line].kind = "object"
        /\ samples[k].image = Says(lines, samples[k].line, "image")
        /\ samples[k].word = Says(lines, samples[k].line, "word")
    /\ \A k, l \in DOMAIN samples : k < l => samples[k].line < samples[l].line

NoneLong(lines, n) == \A k \in DOMAIN lines : k < n => lines[k].kind # "long"

ScanSound(job, lines) ==
    /\ job.at <= Len(lines) + 1 /\ NoneLong(lines, job.at)
    /\ job.s = SaysAll(lines, job.at - 1)
    /\ SamplesSound(job.samples, lines)
    /\ \A k \in DOMAIN job.samples : job.samples[k].line < job.at
    /\ Len(job.samples) + job.bad = Cardinality(Above(lines, job.at))
    /\ job.good = <<>> /\ job.buf = <<>>

GoodSound(job) ==
    /\ Len(job.buf) = Len(job.good)
    /\ \A k \in DOMAIN job.good :
        /\ job.good[k] \in DOMAIN job.samples /\ job.good[k] < job.at
        /\ job.buf[k] = job.samples[job.good[k]].image
    /\ \A k, l \in DOMAIN job.good : k < l => job.good[k] < job.good[l]

ImagesSound(job, lines) ==
    /\ job.at <= Len(job.samples) + 1 /\ NoneLong(lines, Len(lines) + 1)
    /\ SamplesSound(job.samples, lines)
    /\ Len(job.good) + job.bad + (Len(job.samples) + 1 - job.at) = Cardinality(NotBlank(lines))
    /\ GoodSound(job)

ResultSound(message, r) == message # NoMessage =>
    /\ Decodable(message)
    /\ r.dtype = "json" =>
        \E from \in [DOMAIN message.Inputs["image"].cells -> DOMAIN r.lines] :
            PairedFrom(from, message, r.lines)

Idle(job) == job.pc \in {"queued", "taken", "open"}
Over(job) == job.pc \in {"send", "sent", "lost", "stopped", "dropped"}

JobSound(job, r) ==
    /\ Idle(job) \/ job.pc \in {"scan", "images"} => job.message = NoMessage
    /\ Idle(job) =>
        /\ job.at = 1 /\ job.s = SaysAll(r.lines, 0) /\ job.samples = <<>> /\ job.bad = 0
        /\ job.good = <<>> /\ job.buf = <<>>
    /\ job.pc \in {"scan", "images"} => r.dtype = "json" /\ Opens(r)
    /\ job.pc = "scan" => ScanSound(job, r.lines)
    /\ job.pc = "images" => ImagesSound(job, r.lines)
    /\ Over(job) => ResultSound(job.message, r)
    /\ job.pc \in {"send", "sent", "dropped"} => Accounted(job, r)

(* Which handlings hold the semaphore, and what a step of job j does to it.  *)
Busy(job) == job.pc \in {"open", "scan", "images"}
Takes(j)  == /\ Frame(j) /\ ~Busy(jobs[j]) /\ Busy(jobs'[j])
             /\ ioSem < MaxIO /\ ioSem' = ioSem + 1
Keeps(j)  == Frame(j) /\ (Busy(jobs'[j]) <=> Busy(jobs[j])) /\ UNCHANGED ioSem
LetsGo(j) == Frame(j) /\ Busy(jobs[j]) /\ ~Busy(jobs'[j]) /\ ioSem' = ioSem - 1

LEMMA LinesTyped ==
    ASSUME JobsOK, NEW j \in DOMAIN jobs
    PROVE  RowOf(j).lines \in Seq(Lines) /\ jobs[j].at \in Nat \ {0} /\ jobs[j].bad \in Nat
           /\ jobs[j].samples \in Seq(Samples)
<1>1. RowOf(j) \in Rows /\ jobs[j] \in Jobs
    BY JobFields
<1>2. RowOf(j).lines \in Seq(Lines)
    BY <1>1 DEF Rows
<1>3. jobs[j].at \in Nat \ {0} /\ jobs[j].bad \in Nat /\ jobs[j].samples \in Seq(Samples)
    BY <1>1 DEF Jobs
<1> QED
    BY <1>2, <1>3

(* A sample more, of line n.                                                 *)
LEMMA SamplesGrow ==
    ASSUME NEW lines, NEW samples \in Seq(Samples), SamplesSound(samples, lines),
           NEW n \in Nat, n \in DOMAIN lines, lines[n].kind = "object",
           \A k \in DOMAIN samples : samples[k].line < n,
           NEW sample, sample.line = n, sample.image = Says(lines, n, "image"),
           sample.word = Says(lines, n, "word")
    PROVE  /\ SamplesSound(Append(samples, sample), lines)
           /\ \A k \in DOMAIN Append(samples, sample) : Append(samples, sample)[k].line < n + 1
<1> DEFINE more == Append(samples, sample)
<1>1. /\ Len(samples) \in Nat /\ DOMAIN samples = 1 .. Len(samples)
      /\ DOMAIN more = 1 .. Len(samples) + 1
      /\ \A k \in DOMAIN samples : more[k] = samples[k] /\ more[k].line \in Nat
      /\ more[Len(samples) + 1] = sample
    <2>1. /\ Len(samples) \in Nat /\ DOMAIN samples = 1 .. Len(samples)
          /\ DOMAIN more = 1 .. Len(samples) + 1
          /\ \A k \in DOMAIN samples : more[k] = samples[k]
          /\ more[Len(samples) + 1] = sample
        OBVIOUS
    <2>2. \A k \in DOMAIN samples : samples[k] \in Samples
        OBVIOUS
    <2>3. \A k \in DOMAIN samples : samples[k].line \in Nat
        BY <2>2 DEF Samples
    <2> QED
        BY <2>1, <2>3
<1> HIDE DEF more
<1>2. ASSUME NEW k \in DOMAIN more
      PROVE  /\ more[k].line \in DOMAIN lines /\ lines[more[k].line].kind = "object"
             /\ more[k].image = Says(lines, more[k].line, "image")
             /\ more[k].word = Says(lines, more[k].line, "word")
             /\ more[k].line < n + 1
    <2>1. k \in DOMAIN samples \/ k = Len(samples) + 1
        BY <1>1
    <2> QED
        BY <1>1, <2>1 DEF SamplesSound
<1>3. ASSUME NEW k \in DOMAIN more, NEW l \in DOMAIN more, k < l
      PROVE  more[k].line < more[l].line
    <2>1. k \in DOMAIN samples /\ (l \in DOMAIN samples \/ l = Len(samples) + 1)
        BY <1>1, <1>3
    <2> QED
        BY <1>1, <1>3, <2>1 DEF SamplesSound
<1> QED
    BY <1>2, <1>3 DEF SamplesSound, more

LEMMA ScanStep ==
    ASSUME JobsOK, NEW j \in DOMAIN jobs, JobSound(jobs[j], RowOf(j)),
           ScanBlank(j) \/ ScanBad(j) \/ ScanSample(j)
    PROVE  JobSound(jobs'[j], RowOf(j)) /\ Keeps(j)
<1> DEFINE lines == RowOf(j).lines
           n == jobs[j].at
<1>1. /\ ScanFrame(j, jobs'[j]) /\ n \in DOMAIN lines /\ lines[n].kind \in {"blank", "bad", "object"}
      /\ lines \in Seq(Lines) /\ n \in Nat \ {0}
    BY ScanBlankFrame, ScanBadFrame, ScanSampleFrame, LinesTyped DEF Line
<1>2. /\ ScanSound(jobs[j], lines) /\ RowOf(j).dtype = "json" /\ Opens(RowOf(j))
      /\ jobs'[j].pc = "scan" /\ jobs'[j].message = NoMessage
      /\ jobs'[j].at = n + 1 /\ jobs'[j].good = <<>> /\ jobs'[j].buf = <<>>
    BY <1>1 DEF JobSound, ScanFrame, ScanSound
<1>10. Keeps(j)
    BY <1>1 DEF Keeps, Busy, ScanFrame
<1>3. n + 1 <= Len(lines) + 1 /\ NoneLong(lines, n + 1)
    BY <1>1, <1>2 DEF ScanSound, NoneLong
<1>4. /\ Cardinality(Above(lines, n)) \in Nat
      /\ Cardinality(Above(lines, n + 1)) =
           IF lines[n].kind = "blank" THEN Cardinality(Above(lines, n))
           ELSE Cardinality(Above(lines, n)) + 1
    BY <1>1, AboveNext
<1>5. /\ jobs[j].s = SaysAll(lines, n - 1) /\ SamplesSound(jobs[j].samples, lines)
      /\ \A k \in DOMAIN jobs[j].samples : jobs[j].samples[k].line < n
      /\ Len(jobs[j].samples) + jobs[j].bad = Cardinality(Above(lines, n))
      /\ jobs[j].bad \in Nat /\ jobs[j].samples \in Seq(Samples)
    BY <1>2, LinesTyped DEF ScanSound
<1>6. (n + 1) - 1 = n /\ \A k \in DOMAIN jobs[j].samples : jobs[j].samples[k].line < n + 1
    <2>1. \A k \in DOMAIN jobs[j].samples : jobs[j].samples[k] \in Samples
        BY <1>5
    <2>2. \A k \in DOMAIN jobs[j].samples : jobs[j].samples[k].line \in Nat
        BY <2>1 DEF Samples
    <2> QED
        BY <1>1, <1>5, <2>2
<1> SUFFICES /\ jobs'[j].s = SaysAll(lines, n) /\ SamplesSound(jobs'[j].samples, lines)
             /\ \A k \in DOMAIN jobs'[j].samples : jobs'[j].samples[k].line < n + 1
             /\ Len(jobs'[j].samples) + jobs'[j].bad = Cardinality(Above(lines, n + 1))
    BY <1>2, <1>3, <1>6, <1>10 DEF JobSound, ScanSound, Idle, Over
<1> HIDE DEF lines, n
<1>7. CASE ScanBlank(j)
    <2>1. /\ lines[n].kind = "blank" /\ jobs'[j].bad = jobs[j].bad
          /\ jobs'[j].s = jobs[j].s /\ jobs'[j].samples = jobs[j].samples
        BY <1>7, ScanBlankFrame DEF Line, lines, n
    <2>2. jobs'[j].s = SaysAll(lines, n)
        BY <1>1, <1>5, <2>1, OtherSays
    <2> QED
        BY <1>4, <1>5, <1>6, <2>1, <2>2
<1>8. CASE ScanBad(j)
    <2>1. /\ lines[n].kind = "bad" /\ jobs'[j].bad = jobs[j].bad + 1
          /\ jobs'[j].s = Filled(jobs[j].s, lines[n]) /\ jobs'[j].samples = jobs[j].samples
        BY <1>8, ScanBadFrame DEF Line, lines, n
    <2>2. jobs'[j].s = SaysAll(lines, n)
        BY <1>1, <1>5, <2>1, FilledSays
    <2>3. Len(jobs'[j].samples) + jobs'[j].bad = Cardinality(Above(lines, n + 1))
        <3>1. Len(jobs[j].samples) \in Nat
            BY <1>5
        <3> QED
            BY <1>4, <1>5, <2>1, <3>1
    <2> QED
        BY <1>5, <1>6, <2>1, <2>2, <2>3
<1>9. CASE ScanSample(j)
    <2> DEFINE sample == [image |-> jobs'[j].s.image, word |-> jobs'[j].s.word, line |-> n]
    <2>1. /\ lines[n].kind = "object" /\ jobs'[j].bad = jobs[j].bad
          /\ jobs'[j].s = Filled(jobs[j].s, lines[n])
          /\ jobs'[j].samples = Append(jobs[j].samples, sample)
        BY <1>9, ScanSampleFrame DEF Line, lines, n
    <2>2. jobs'[j].s = SaysAll(lines, n)
        BY <1>1, <1>5, <2>1, FilledSays
    <2>3. /\ sample.line = n /\ sample.image = Says(lines, n, "image")
          /\ sample.word = Says(lines, n, "word")
        BY <2>2 DEF SaysAll, Fields
    <2> HIDE DEF sample
    <2>4. /\ SamplesSound(jobs'[j].samples, lines)
          /\ \A k \in DOMAIN jobs'[j].samples : jobs'[j].samples[k].line < n + 1
        BY <1>1, <1>5, <2>1, <2>3, SamplesGrow
    <2>5. Len(jobs'[j].samples) + jobs'[j].bad = Cardinality(Above(lines, n + 1))
        <3>1. Len(jobs'[j].samples) = Len(jobs[j].samples) + 1 /\ Len(jobs[j].samples) \in Nat
            BY <1>5, <2>1
        <3> QED
            BY <1>4, <1>5, <2>1, <3>1
    <2> QED
        BY <2>2, <2>4, <2>5
<1> QED
    BY <1>7, <1>8, <1>9

LEMMA OpenStep ==
    ASSUME JobsOK, NEW j \in DOMAIN jobs, JobSound(jobs[j], RowOf(j)),
           RowTaken(j) \/ HandleBegins(j) \/ OpensJSON(j)
    PROVE  JobSound(jobs'[j], RowOf(j)) /\ (Takes(j) \/ Keeps(j))
<1>0. jobs[j] \in Jobs /\ RowOf(j).lines \in Seq(Lines)
    BY JobFields, LinesTyped
<1>1. CASE HandleBegins(j)
    <2>1. jobs[j].pc = "taken" /\ jobs'[j] = [jobs[j] EXCEPT !.pc = "open"]
        BY <1>1, HandleBeginsFrame
    <2>2. /\ jobs'[j].pc = "open" /\ jobs'[j].message = jobs[j].message
          /\ jobs'[j].at = jobs[j].at /\ jobs'[j].s = jobs[j].s /\ jobs'[j].bad = jobs[j].bad
          /\ jobs'[j].samples = jobs[j].samples /\ jobs'[j].good = jobs[j].good
          /\ jobs'[j].buf = jobs[j].buf
        BY <1>0, <2>1 DEF Jobs
    <2>3. Takes(j)
        BY <1>1, <2>1, <2>2, HandleBeginsFrame DEF Takes, Busy
    <2> QED
        BY <2>1, <2>2, <2>3 DEF JobSound, Idle, Over
<1>2. CASE OpensJSON(j)
    <2>1. /\ jobs[j].pc = "open" /\ jobs'[j] = [jobs[j] EXCEPT !.pc = "scan"]
          /\ RowOf(j).dtype = "json" /\ Opens(RowOf(j))
        BY <1>2, OpensJSONFrame DEF OpensJSON
    <2>2. /\ jobs'[j].pc = "scan" /\ jobs'[j].message = jobs[j].message
          /\ jobs'[j].at = jobs[j].at /\ jobs'[j].s = jobs[j].s /\ jobs'[j].bad = jobs[j].bad
          /\ jobs'[j].samples = jobs[j].samples /\ jobs'[j].good = jobs[j].good
          /\ jobs'[j].buf = jobs[j].buf
        BY <1>0, <2>1 DEF Jobs
    <2>3. /\ jobs[j].at = 1 /\ jobs[j].s = SaysAll(RowOf(j).lines, 0) /\ jobs[j].samples = <<>>
          /\ jobs[j].bad = 0 /\ jobs[j].good = <<>> /\ jobs[j].buf = <<>>
          /\ jobs[j].message = NoMessage
        BY <2>1 DEF JobSound, Idle
    <2>4. Cardinality(Above(RowOf(j).lines, 1)) = 0 /\ 1 <= Len(RowOf(j).lines) + 1
          /\ NoneLong(RowOf(j).lines, 1) /\ 1 - 1 = 0
        BY <1>0, AboveFirst DEF NoneLong
    <2>5. ScanSound(jobs'[j], RowOf(j).lines)
        BY <2>2, <2>3, <2>4 DEF ScanSound, SamplesSound
    <2>6. Keeps(j)
        BY <1>2, <2>1, <2>2, OpensJSONFrame DEF Keeps, Busy
    <2> QED
        BY <2>1, <2>2, <2>3, <2>5, <2>6 DEF JobSound, Idle, Over
<1>3. CASE RowTaken(j)
    <2>1. jobs[j].pc = "queued" /\ jobs'[j] = [jobs[j] EXCEPT !.pc = "taken"]
        BY <1>3, RowTakenFrame
    <2>2. /\ jobs'[j].pc = "taken" /\ jobs'[j].message = jobs[j].message
          /\ jobs'[j].at = jobs[j].at /\ jobs'[j].s = jobs[j].s /\ jobs'[j].bad = jobs[j].bad
          /\ jobs'[j].samples = jobs[j].samples /\ jobs'[j].good = jobs[j].good
          /\ jobs'[j].buf = jobs[j].buf
        BY <1>0, <2>1 DEF Jobs
    <2>3. Keeps(j)
        BY <1>3, <2>1, <2>2, RowTakenFrame DEF Keeps, Busy
    <2> QED
        BY <2>1, <2>2, <2>3 DEF JobSound, Idle, Over
<1> QED
    BY <1>1, <1>2, <1>3

(* A handling that ends without a message, n errors counted.                 *)
LEMMA DropStep ==
    ASSUME JobsOK, NEW j \in DOMAIN jobs, NEW n \in Nat,
           NEW from \in {"open", "scan", "images"}, Returns(j, from, NoMessage, n),
           \/ RowOf(j).dtype # "json" /\ n = 1
           \/ /\ RowOf(j).dtype = "json" /\ n = RowOf(j).count
              /\ ~Opens(RowOf(j)) \/ \E k \in DOMAIN RowOf(j).lines : RowOf(j).lines[k].kind = "long"
           \/ /\ RowOf(j).dtype = "json" /\ n = Cardinality(NotBlank(RowOf(j).lines))
              /\ Opens(RowOf(j)) /\ \A k \in DOMAIN RowOf(j).lines : RowOf(j).lines[k].kind # "long"
    PROVE  JobSound(jobs'[j], RowOf(j)) /\ LetsGo(j)
<1>1. jobs'[j].pc = "dropped" /\ jobs'[j].message = NoMessage /\ jobs'[j].errors = n
    BY ReturnsFrame
<1>2. \A key : Made(jobs'[j], key) = 0
    BY <1>1 DEF Made
<1>3. Accounted(jobs'[j], RowOf(j))
    BY <1>1, <1>2 DEF Accounted
<1>4. LetsGo(j)
    BY <1>1, ReturnsFrame DEF LetsGo, Busy
<1> QED
    BY <1>1, <1>3, <1>4 DEF JobSound, Idle, Over, ResultSound

LEMMA OpenFailsStep ==
    ASSUME JobsOK, NEW j \in DOMAIN jobs, OpenFails(j)
    PROVE  JobSound(jobs'[j], RowOf(j)) /\ LetsGo(j)
<1> DEFINE n == IF RowOf(j).dtype = "json" THEN RowOf(j).count ELSE 1
<1>1. RowOf(j) \in Rows
    BY JobFields
<1>2. n \in Nat
    BY <1>1 DEF Rows
<1>3. Returns(j, "open", NoMessage, n) /\ ~Opens(RowOf(j))
    BY DEF OpenFails
<1> QED
    BY <1>2, <1>3, DropStep

LEMMA ScanFailsStep ==
    ASSUME JobsOK, NEW j \in DOMAIN jobs, JobSound(jobs[j], RowOf(j)), ScanFails(j)
    PROVE  JobSound(jobs'[j], RowOf(j)) /\ LetsGo(j)
<1>1. RowOf(j) \in Rows
    BY JobFields
<1>2. RowOf(j).count \in Nat
    BY <1>1 DEF Rows
<1>3. /\ Returns(j, "scan", NoMessage, RowOf(j).count)
      /\ jobs[j].at \in DOMAIN RowOf(j).lines /\ RowOf(j).lines[jobs[j].at].kind = "long"
    BY DEF ScanFails
<1>4. RowOf(j).dtype = "json"
    BY <1>2, <1>3, ReturnsFrame DEF JobSound
<1> QED
    BY <1>2, <1>3, <1>4, DropStep

LEMMA ReadsOneStep ==
    ASSUME JobsOK, NEW j \in DOMAIN jobs, ReadsOne(j)
    PROVE  JobSound(jobs'[j], RowOf(j)) /\ LetsGo(j)
<1> DEFINE r == RowOf(j)
           inputs == [key \in {r.dtype} |-> Tensor(IF r.dtype = "txt" THEN 1 ELSE 3, 1, <<r.path>>)]
           m == Message(j, inputs)
<1>1. r \in Rows
    BY JobFields
<1>2. /\ r.dtype # "json" /\ Opens(r) /\ Returns(j, "open", m, 0)
    BY DEF ReadsOne
<1>3. r.dtype \in {"txt", "jpg", "jpeg", "png"}
    BY <1>2 DEF Opens, IsPicture
<1>4. r.path \in Texts /\ r.type \in STRING /\ r.dtype \in STRING
    BY <1>1 DEF Rows
<1>5. Tensor(IF r.dtype = "txt" THEN 1 ELSE 3, 1, <<r.path>>) \in Tensors
    BY <1>4 DEF Tensor, Tensors
<1>6. /\ m.Inputs = inputs /\ m.DType = r.dtype
      /\ DOMAIN inputs = {r.dtype} /\ inputs[r.dtype].n = 1 /\ inputs[r.dtype].cells = <<r.path>>
    BY DEF Message, Tensor
<1>7. m \in Messages
    <2>1. inputs \in [{r.dtype} -> Tensors]
        BY <1>5
    <2> HIDE DEF inputs
    <2>2. \/ inputs \in [{"txt"} -> Tensors] \/ inputs \in [{"jpg"} -> Tensors]
          \/ inputs \in [{"jpeg"} -> Tensors] \/ inputs \in [{"png"} -> Tensors]
        BY <1>3, <2>1
    <2> QED
        BY <1>4, <2>2 DEF Message, Messages
<1> HIDE DEF m, inputs
<1>8. m # NoMessage /\ 0 \in Nat
    BY <1>7, FeedAssumption
<1>9. jobs'[j].pc = "send" /\ jobs'[j].message = m /\ jobs'[j].errors = 0
    BY <1>2, <1>7, <1>8, ReturnsFrame
<1>10. Decodable(m)
    <2>1. ASSUME NEW key \in DOMAIN m.Inputs
          PROVE  Len(m.Inputs[key].cells) = m.Inputs[key].n
        <3>1. m.Inputs[key].n = 1 /\ m.Inputs[key].cells = <<r.path>>
            BY <1>6, <2>1
        <3> HIDE DEF r
        <3> QED
            BY <3>1
    <2>2. m.DType = "txt" \/ IsPicture(m.DType)
        BY <1>3, <1>6 DEF IsPicture
    <2> QED
        BY <2>1, <2>2 DEF Decodable
<1>11. Accounted(jobs'[j], r)
    BY <1>2, <1>6, <1>8, <1>9 DEF Accounted, Made
<1>12. LetsGo(j)
    BY <1>2, <1>7, <1>8, <1>9, ReturnsFrame DEF LetsGo, Busy
<1> QED
    BY <1>2, <1>9, <1>10, <1>11, <1>12 DEF JobSound, Idle, Over, ResultSound

(* The scan ends: the images of all samples are still to be read.            *)
LEMMA ScanEndsStep ==
    ASSUME JobsOK, NEW j \in DOMAIN jobs, JobSound(jobs[j], RowOf(j)), ScanEnds(j)
    PROVE  JobSound(jobs'[j], RowOf(j)) /\ Keeps(j)
<1> DEFINE lines == RowOf(j).lines
<1>1. lines \in Seq(Lines) /\ jobs[j] \in Jobs /\ jobs[j].bad \in Nat
      /\ jobs[j].samples \in Seq(Samples)
    BY LinesTyped, JobFields
<1>2. /\ jobs[j].pc = "scan" /\ jobs[j].at = Len(lines) + 1
      /\ jobs'[j] = [jobs[j] EXCEPT !.pc = "images", !.at = 1]
    BY ScanEndsFrame
<1>3. /\ jobs'[j].pc = "images" /\ jobs'[j].at = 1 /\ jobs'[j].samples = jobs[j].samples
      /\ jobs'[j].bad = jobs[j].bad /\ jobs'[j].good = jobs[j].good
      /\ jobs'[j].buf = jobs[j].buf /\ jobs'[j].message = jobs[j].message
    BY <1>1, <1>2 DEF Jobs
<1>4. /\ ScanSound(jobs[j], lines) /\ RowOf(j).dtype = "json" /\ Opens(RowOf(j))
      /\ jobs[j].message = NoMessage
    BY <1>2 DEF JobSound
<1>5. /\ NoneLong(lines, Len(lines) + 1) /\ SamplesSound(jobs[j].samples, lines)
      /\ Len(jobs[j].samples) + jobs[j].bad = Cardinality(NotBlank(lines))
      /\ jobs[j].good = <<>> /\ jobs[j].buf = <<>>
    BY <1>1, <1>2, <1>4, AboveAll DEF ScanSound
<1>6. GoodSound(jobs'[j])
    BY <1>3, <1>5 DEF GoodSound
<1>7. Len(jobs[j].samples) \in Nat /\ Len(<<>>) = 0
    BY <1>1
<1>8. ImagesSound(jobs'[j], lines)
    BY <1>1, <1>3, <1>5, <1>6, <1>7 DEF ImagesSound
<1>9. Keeps(j)
    BY <1>2, <1>3, ScanEndsFrame DEF Keeps, Busy
<1> QED
    BY <1>3, <1>4, <1>8, <1>9 DEF JobSound, Idle, Over

(* One image more has been looked at.                                        *)
LEMMA ImageStep ==
    ASSUME JobsOK, NEW j \in DOMAIN jobs, JobSound(jobs[j], RowOf(j)),
           ImageRead(j) \/ ImageFails(j)
    PROVE  JobSound(jobs'[j], RowOf(j)) /\ Keeps(j)
<1> DEFINE lines == RowOf(j).lines
           n == jobs[j].at
           samples == jobs[j].samples
           good == jobs[j].good
           buf == jobs[j].buf
<1>0. \A a, b, c, d \in Nat : /\ a + (b + 1) + (c + 1 - (d + 1)) = a + b + (c + 1 - d)
                             /\ (a + 1) + b + (c + 1 - (d + 1)) = a + b + (c + 1 - d)
    OBVIOUS
<1>1. /\ n \in Nat \ {0} /\ jobs[j].bad \in Nat /\ samples \in Seq(Samples)
      /\ good \in Seq(Nat) /\ buf \in Seq(Texts)
    <2>1. jobs[j] \in Jobs
        BY JobFields
    <2> QED
        BY <2>1 DEF Jobs
<1>2. /\ ImageFrame(j, jobs'[j])
      /\ \/ /\ jobs'[j].good = Append(good, n) /\ jobs'[j].buf = Append(buf, samples[n].image)
            /\ jobs'[j].bad = jobs[j].bad
         \/ jobs'[j].good = good /\ jobs'[j].buf = buf /\ jobs'[j].bad = jobs[j].bad + 1
    BY ImageReadFrame, ImageFailsFrame
<1>3. /\ jobs[j].pc = "images" /\ jobs'[j].pc = "images" /\ jobs'[j].at = n + 1
      /\ n \in DOMAIN samples /\ jobs'[j].samples = samples
      /\ jobs'[j].message = jobs[j].message
    BY <1>2 DEF ImageFrame
<1>4. ImagesSound(jobs[j], lines) /\ RowOf(j).dtype = "json" /\ Opens(RowOf(j))
      /\ jobs[j].message = NoMessage
    BY <1>3 DEF JobSound
<1>5. /\ NoneLong(lines, Len(lines) + 1) /\ SamplesSound(samples, lines)
      /\ Len(good) + jobs[j].bad + (Len(samples) + 1 - n) = Cardinality(NotBlank(lines))
      /\ Len(buf) = Len(good)
      /\ \A k \in DOMAIN good : /\ good[k] \in DOMAIN samples /\ good[k] < n
                                /\ buf[k] = samples[good[k]].image
      /\ \A k, l \in DOMAIN good : k < l => good[k] < good[l]
    BY <1>4 DEF ImagesSound, GoodSound
<1> HIDE DEF good, buf, n, samples, lines
<1>6. Len(good) \in Nat /\ Len(samples) \in Nat /\ n <= Len(samples)
      /\ DOMAIN good = 1 .. Len(good) /\ DOMAIN buf = 1 .. Len(good)
      /\ \A k \in DOMAIN good : good[k] \in Nat
    BY <1>1, <1>3, <1>5
<1>7. Len(good) \in Nat /\ jobs[j].bad \in Nat /\ Len(samples) \in Nat /\ n \in Nat
    BY <1>1, <1>6
<1>11. Keeps(j)
    BY <1>2 DEF Keeps, Busy, ImageFrame
<1>12. SUFFICES /\ Len(jobs'[j].good) + jobs'[j].bad + (Len(samples) + 1 - (n + 1))
                     = Cardinality(NotBlank(lines))
               /\ GoodSound(jobs'[j])
    BY <1>1, <1>3, <1>4, <1>5, <1>6, <1>11 DEF JobSound, ImagesSound, Idle, Over, n, samples, lines
<1>8. CASE jobs'[j].good = good /\ jobs'[j].buf = buf /\ jobs'[j].bad = jobs[j].bad + 1
    <2>1. \A k \in DOMAIN good : good[k] < n + 1
        BY <1>1, <1>5, <1>6
    <2>2. GoodSound(jobs'[j])
        BY <1>3, <1>5, <1>8, <2>1 DEF GoodSound
    <2>3. Len(jobs'[j].good) = Len(good) /\ jobs'[j].bad = jobs[j].bad + 1
        BY <1>8
    <2>4. Len(good) + (jobs[j].bad + 1) + (Len(samples) + 1 - (n + 1))
            = Len(good) + jobs[j].bad + (Len(samples) + 1 - n)
        BY <1>0, <1>7
    <2> QED
        BY <1>5, <2>2, <2>3, <2>4
<1>9. CASE /\ jobs'[j].good = Append(good, n) /\ jobs'[j].buf = Append(buf, samples[n].image)
           /\ jobs'[j].bad = jobs[j].bad
    <2> DEFINE goods == Append(good, n)
               bufs == Append(buf, samples[n].image)
    <2>1. /\ Len(goods) = Len(good) + 1 /\ Len(bufs) = Len(good) + 1
          /\ DOMAIN goods = 1 .. Len(good) + 1
          /\ \A k \in DOMAIN good : goods[k] = good[k] /\ bufs[k] = buf[k]
          /\ goods[Len(good) + 1] = n /\ bufs[Len(good) + 1] = samples[n].image
        BY <1>1, <1>5, <1>6
    <2> HIDE DEF goods, bufs
    <2>2. ASSUME NEW k \in DOMAIN goods
          PROVE  goods[k] \in DOMAIN samples /\ goods[k] < n + 1
                 /\ bufs[k] = samples[goods[k]].image
        <3>1. k \in DOMAIN good \/ k = Len(good) + 1
            BY <1>6, <2>1
        <3> QED
            BY <1>1, <1>3, <1>5, <1>6, <2>1, <3>1
    <2>3. ASSUME NEW k \in DOMAIN goods, NEW l \in DOMAIN goods, k < l
          PROVE  goods[k] < goods[l]
        <3>1. k \in DOMAIN good /\ (l \in DOMAIN good \/ l = Len(good) + 1)
            BY <1>6, <2>1, <2>3
        <3> QED
            BY <1>5, <1>6, <2>1, <2>3, <3>1
    <2>4. jobs'[j].good = goods /\ jobs'[j].buf = bufs
        BY <1>9 DEF goods, bufs
    <2>5. GoodSound(jobs'[j])
        BY <1>3, <2>1, <2>2, <2>3, <2>4 DEF GoodSound
    <2>6. Len(jobs'[j].good) = Len(good) + 1 /\ jobs'[j].bad = jobs[j].bad
        BY <1>9, <2>1, <2>4
    <2>7. (Len(good) + 1) + jobs[j].bad + (Len(samples) + 1 - (n + 1))
            = Len(good) + jobs[j].bad + (Len(samples) + 1 - n)
        <3> DEFINE a == Len(good)
                   b == jobs[j].bad
                   c == Len(samples)
        <3>1. a \in Nat /\ b \in Nat /\ c \in Nat /\ n \in Nat
            BY <1>7
        <3> HIDE DEF a, b, c
        <3>2. (a + 1) + b + (c + 1 - (n + 1)) = a + b + (c + 1 - n)
            BY <3>1
        <3> QED
            BY <3>2 DEF a, b, c
    <2> QED
        BY <1>5, <2>5, <2>6, <2>7
<1> QED
    BY <1>2, <1>8, <1>9 DEF good, buf, n, samples

(* The line the k-th image of job j, and its k-th word, are from.            *)
From(j) == [k \in DOMAIN jobs[j].good |-> jobs[j].samples[jobs[j].good[k]].line]

LEMMA GoodPaired ==
    ASSUME JobsOK, NEW j \in DOMAIN jobs, ImagesSound(jobs[j], RowOf(j).lines)
    PROVE  /\ Len(jobs[j].good) \in Nat /\ DOMAIN jobs[j].good = 1 .. Len(jobs[j].good)
           /\ Words(j) \in Seq(Texts) /\ Len(Words(j)) = Len(jobs[j].good)
           /\ jobs[j].buf \in Seq(Texts) /\ Len(jobs[j].buf) = Len(jobs[j].good)
           /\ From(j) \in [DOMAIN jobs[j].buf -> DOMAIN RowOf(j).lines]
           /\ \A k, l \in DOMAIN From(j) : k < l => From(j)[k] < From(j)[l]
           /\ \A k \in DOMAIN From(j) :
                /\ RowOf(j).lines[From(j)[k]].kind = "object"
                /\ jobs[j].buf[k] = Says(RowOf(j).lines, From(j)[k], "image")
                /\ Words(j)[k] = Says(RowOf(j).lines, From(j)[k], "word")
<1> DEFINE lines == RowOf(j).lines
           samples == jobs[j].samples
           good == jobs[j].good
           buf == jobs[j].buf
<1>1. samples \in Seq(Samples) /\ good \in Seq(Nat) /\ buf \in Seq(Texts)
    <2>1. jobs[j] \in Jobs
        BY JobFields
    <2> QED
        BY <2>1 DEF Jobs
<1>2. /\ \A k \in DOMAIN samples :
            /\ samples[k].line \in DOMAIN lines /\ lines[samples[k].line].kind = "object"
            /\ samples[k].image = Says(lines, samples[k].line, "image")
            /\ samples[k].word = Says(lines, samples[k].line, "word")
      /\ \A k, l \in DOMAIN samples : k < l => samples[k].line < samples[l].line
    BY DEF ImagesSound, SamplesSound
<1>3. /\ Len(buf) = Len(good)
      /\ \A k \in DOMAIN good : good[k] \in DOMAIN samples /\ buf[k] = samples[good[k]].image
      /\ \A k, l \in DOMAIN good : k < l => good[k] < good[l]
    BY DEF ImagesSound, GoodSound
<1>4. /\ Words(j) = [k \in DOMAIN good |-> samples[good[k]].word]
      /\ From(j) = [k \in DOMAIN good |-> samples[good[k]].line]
    BY DEF Words, From
<1>5. \A k \in DOMAIN samples : samples[k].word \in Texts
    <2>1. \A k \in DOMAIN samples : samples[k] \in Samples
        BY <1>1
    <2> QED
        BY <2>1 DEF Samples
<1> HIDE DEF good, buf, samples, lines
<1>6. /\ Len(good) \in Nat /\ DOMAIN good = 1 .. Len(good) /\ DOMAIN buf = 1 .. Len(good)
    BY <1>1, <1>3
<1>7. Words(j) \in Seq(Texts) /\ Len(Words(j)) = Len(good)
    <2>1. Words(j) \in [1 .. Len(good) -> Texts]
        BY <1>3, <1>4, <1>5, <1>6
    <2> QED
        BY <1>6, <2>1
<1>8. From(j) \in [DOMAIN buf -> DOMAIN lines]
    BY <1>2, <1>3, <1>4, <1>6
<1>9. ASSUME NEW k \in DOMAIN good, NEW l \in DOMAIN good, k < l
      PROVE  From(j)[k] < From(j)[l]
    BY <1>2, <1>3, <1>4, <1>9
<1>10. ASSUME NEW k \in DOMAIN good
       PROVE  /\ lines[From(j)[k]].kind = "object"
              /\ buf[k] = Says(lines, From(j)[k], "image")
              /\ Words(j)[k] = Says(lines, From(j)[k], "word")
    BY <1>2, <1>3, <1>4
<1>11. DOMAIN From(j) = DOMAIN good
    BY <1>4
<1> QED
    BY <1>1, <1>3, <1>6, <1>7, <1>8, <1>9, <1>10, <1>11 DEF good, buf, lines

LEMMA ImagesEndStep ==
    ASSUME JobsOK, NEW j \in DOMAIN jobs, JobSound(jobs[j], RowOf(j)), ImagesEnd(j)
    PROVE  JobSound(jobs'[j], RowOf(j)) /\ LetsGo(j)
<1> DEFINE r == RowOf(j)
           words == Words(j)
           n == Len(jobs[j].good)
           inputs == [key \in Fields |-> IF key = "image" THEN Tensor(4, n, jobs[j].buf)
                                         ELSE Tensor(2, Len(words), words)]
           m == Message(j, inputs)
           message == IF jobs[j].good = <<>> THEN NoMessage ELSE m
<1>1. /\ r \in Rows /\ jobs[j].bad \in Nat /\ jobs[j].samples \in Seq(Samples)
    BY LinesTyped, JobFields
<1>2. /\ jobs[j].at = Len(jobs[j].samples) + 1
      /\ Returns(j, "images", message, jobs[j].bad)
    BY DEF ImagesEnd
<1>3. jobs[j].pc = "images"
    BY <1>2 DEF Returns, Becomes
<1>4. /\ ImagesSound(jobs[j], r.lines) /\ r.dtype = "json" /\ Opens(r)
    BY <1>3 DEF JobSound
<1>5. /\ n \in Nat /\ words \in Seq(Texts) /\ Len(words) = n
      /\ jobs[j].buf \in Seq(Texts) /\ Len(jobs[j].buf) = n
    BY <1>4, GoodPaired
<1>6. /\ n + jobs[j].bad = Cardinality(NotBlank(r.lines))
      /\ \A k \in DOMAIN r.lines : r.lines[k].kind # "long"
    <2>1. n + jobs[j].bad + (Len(jobs[j].samples) + 1 - jobs[j].at) = Cardinality(NotBlank(r.lines))
          /\ NoneLong(r.lines, Len(r.lines) + 1)
        BY <1>4 DEF ImagesSound
    <2>2. Len(jobs[j].samples) + 1 - jobs[j].at = 0 /\ n + jobs[j].bad \in Nat
        BY <1>1, <1>2, <1>5
    <2>3. \A k \in DOMAIN r.lines : k < Len(r.lines) + 1
        BY LinesTyped
    <2>4. n + jobs[j].bad + 0 = n + jobs[j].bad
        BY <1>1, <1>5
    <2> QED
        BY <2>1, <2>2, <2>3, <2>4 DEF NoneLong
<1>7. CASE jobs[j].good = <<>>
    <2>1. message = NoMessage /\ n = 0
        BY <1>7
    <2>2. jobs[j].bad = Cardinality(NotBlank(r.lines)) /\ Returns(j, "images", NoMessage, jobs[j].bad)
        BY <1>1, <1>2, <1>6, <2>1
    <2> QED
        BY <1>1, <1>4, <1>6, <2>2, DropStep
<1>8. CASE jobs[j].good # <<>>
    <2>1. message = m
        BY <1>8
    <2>2. /\ inputs \in [Fields -> Tensors] /\ DOMAIN inputs = Fields
          /\ inputs["image"].dims = 4 /\ inputs["image"].n = n /\ inputs["image"].cells = jobs[j].buf
          /\ inputs["word"].dims = 2 /\ inputs["word"].n = n /\ inputs["word"].cells = words
        BY <1>5 DEF Tensor, Tensors, Fields
    <2> HIDE DEF inputs
    <2>3. m.Inputs = inputs /\ m.DType = "json"
        BY <1>4 DEF Message
    <2>4. m \in Messages
        <3>1. r.type \in STRING /\ r.dtype \in STRING
            BY <1>1 DEF Rows
        <3> QED
            BY <2>2, <3>1 DEF Message, Messages
    <2> HIDE DEF m
    <2>5. m # NoMessage
        BY <2>4, FeedAssumption
    <2> HIDE DEF message
    <2>6. jobs'[j].pc = "send" /\ jobs'[j].message = m /\ jobs'[j].errors = jobs[j].bad
        BY <1>1, <1>2, <2>1, <2>4, <2>5, ReturnsFrame
    <2>7. Decodable(m)
        BY <1>5, <2>2, <2>3 DEF Decodable, Fields
    <2>8. /\ From(j) \in [DOMAIN m.Inputs["image"].cells -> DOMAIN r.lines]
          /\ PairedFrom(From(j), m, r.lines)
        <3>1. ASSUME NEW k \in DOMAIN From(j), NEW field \in Fields
              PROVE  m.Inputs[field].cells[k] = Says(r.lines, From(j)[k], field)
            <4>1. CASE field = "image"
                BY <1>4, <2>2, <2>3, <4>1, GoodPaired
            <4>2. CASE field = "word"
                BY <1>4, <2>2, <2>3, <4>2, GoodPaired
            <4> QED
                BY <4>1, <4>2 DEF Fields
        <3> QED
            BY <1>4, <2>2, <2>3, <3>1, GoodPaired DEF PairedFrom
    <2>9. Made(jobs'[j], "word") = n
        BY <2>2, <2>3, <2>5, <2>6 DEF Made
    <2>10. Accounted(jobs'[j], r)
        <3>1. jobs[j].bad + n = Cardinality(NotBlank(r.lines))
            BY <1>1, <1>5, <1>6
        <3> QED
            BY <1>4, <1>6, <2>6, <2>9, <3>1 DEF Accounted
    <2>11. LetsGo(j)
        BY <1>1, <1>2, <2>1, <2>4, <2>6, ReturnsFrame DEF LetsGo, Busy
    <2> QED
        BY <2>6, <2>7, <2>8, <2>10, <2>11 DEF JobSound, Idle, Over, ResultSound
<1> QED
    BY <1>7, <1>8

(* What Handle made and counted stays as it is until the message is answered.*)
LEMMA SendStep ==
    ASSUME JobsOK, NEW j \in DOMAIN jobs, JobSound(jobs[j], RowOf(j)), SendNext(j)
    PROVE  JobSound(jobs'[j], RowOf(j)) /\ Keeps(j)
<1>1. /\ jobs[j].pc = "send" /\ jobs'[j].message = jobs[j].message
      /\ \/ jobs'[j].pc \in {"send", "sent", "stopped"} /\ jobs'[j].errors = jobs[j].errors
         \/ jobs'[j].pc = "lost" /\ jobs'[j].errors = jobs[j].errors + 1
    BY SendFrame
<1>2. ResultSound(jobs[j].message, RowOf(j)) /\ Accounted(jobs[j], RowOf(j))
    BY <1>1 DEF JobSound, Over
<1>3. \A key : Made(jobs'[j], key) = Made(jobs[j], key)
    BY <1>1 DEF Made
<1>4. jobs'[j].pc # "lost" => Accounted(jobs'[j], RowOf(j))
    BY <1>1, <1>2, <1>3 DEF Accounted
<1>5. Keeps(j)
    BY <1>1, SendFrame DEF Keeps, Busy
<1> QED
    BY <1>1, <1>2, <1>4, <1>5 DEF JobSound, Idle, Over

-----------------------------------------------------------------------------
(* Of every step of the handling of job j: job j stays sound.                *)
LEMMA JobStep ==
    ASSUME JobsOK, NEW j \in DOMAIN jobs, JobSound(jobs[j], RowOf(j)), JobNext(j)
    PROVE  JobSound(jobs'[j], RowOf(j)) /\ (Takes(j) \/ Keeps(j) \/ LetsGo(j))
<1>1. CASE SendNext(j)
    BY <1>1, SendStep
<1>2. CASE HandleNext(j)
    BY <1>2, OpenStep, ReadsOneStep, OpenFailsStep, ScanStep, ScanFailsStep, ScanEndsStep,
       ImageStep, ImagesEndStep DEF HandleNext
<1> QED
    BY <1>1, <1>2 DEF JobNext

-----------------------------------------------------------------------------
(* The invariant: the handling of every row is sound, the semaphore counts   *)
(* those that hold it, the rows dispatched are in order and below those of   *)
(* the page that are not, and no row up to the end of the page is left out.  *)
Feeds == [pc : {"count", "refused", "page", "put", "over"}, cursor : Nat, page : SUBSET Ids]
Using == {j \in DOMAIN jobs : Busy(jobs[j])}
Sound == \A j \in DOMAIN jobs : JobSound(jobs[j], RowOf(j))

Ordered ==
    /\ NoRowTwice
    /\ \A j \in DOMAIN jobs : jobs[j].id <= feed.cursor
    /\ \A id \in feed.page : id <= feed.cursor /\ \A j \in DOMAIN jobs : jobs[j].id < id
    /\ feed.page # {} => feed.pc = "put"

Dispatched(id) == \E j \in DOMAIN jobs : jobs[j].id = id
Wanted(id) == life[id] = "start" /\ Selected(select, row[id])

NoneLeft ==
    /\ \A id \in Ids : Wanted(id) /\ id <= feed.cursor => id \in feed.page \/ Dispatched(id)
    /\ NoRowSkipped

FInv == TypeOK /\ ioSem = Cardinality(Using) /\ Sound /\ Ordered /\ NoneLeft

LEMMA UsingFinite ==
    ASSUME JobsOK
    PROVE  IsFiniteSet(Using)
<1>1. Len(jobs) \in Nat /\ Using \in SUBSET (1 .. Len(jobs))
    BY DEF JobsOK, Using
<1>2. IsFiniteSet(1 .. Len(jobs))
    BY <1>1, FS_Interval
<1> QED
    BY <1>1, <1>2, FS_Subset

LEMMA FeedInit == Init => FInv
<1> SUFFICES ASSUME Init PROVE FInv
    OBVIOUS
<1>1. PICK start \in Starts :
        /\ select = start.select /\ row = start.row
        /\ life = [id \in Ids |-> IF id \in start.deleted THEN "gone"
                                 ELSE IF id \in start.table THEN "start" ELSE "unborn"]
    BY DEF Init
<1>2. /\ feed = [pc |-> "count", cursor |-> 0, page |-> {}]
      /\ jobs = <<>> /\ ioSem = 0 /\ failed = FALSE
    BY DEF Init
<1>3. TypeOK
    <2>1. row \in [Ids -> Rows]
        BY <1>1, FeedAssumption
    <2>2. life \in [Ids -> {"unborn", "start", "late", "gone"}]
        BY <1>1
    <2>3. ioSem \in 0 .. MaxIO
        BY <1>2, FeedAssumption
    <2>4. jobs \in Seq(Jobs)
        BY <1>2
    <2> QED
        BY <1>2, <2>1, <2>2, <2>3, <2>4 DEF TypeOK
<1>4. DOMAIN jobs = {}
    BY <1>2
<1>5. Using = {} /\ ioSem = Cardinality(Using)
    BY <1>2, <1>4, FS_EmptySet DEF Using
<1>6. Sound /\ Ordered
    BY <1>2, <1>4 DEF Sound, Ordered, NoRowTwice
<1>7. NoneLeft
    BY <1>2, FeedAssumption DEF NoneLeft, NoRowSkipped
<1> QED
    BY <1>3, <1>5, <1>6, <1>7 DEF FInv

(* A step of a handling.                                                     *)
LEMMA HandlingStep ==
    ASSUME FInv, NEW j \in DOMAIN jobs, JobNext(j)
    PROVE  FInv'
<1>1. JobsOK /\ ioSem \in 0 .. MaxIO /\ ioSem = Cardinality(Using)
    BY DEF FInv, TypeOK, JobsOK
<1>2. JobSound(jobs[j], RowOf(j))
    BY DEF FInv, Sound
<1>3. JobSound(jobs'[j], RowOf(j)) /\ (Takes(j) \/ Keeps(j) \/ LetsGo(j))
    BY <1>1, <1>2, JobStep
<1>4. Frame(j)
    BY <1>3 DEF Takes, Keeps, LetsGo
<1>5. /\ jobs' \in Seq(Jobs) /\ DOMAIN jobs' = DOMAIN jobs
      /\ \A i \in DOMAIN jobs : i # j => jobs'[i] = jobs[i]
      /\ \A i \in DOMAIN jobs : jobs'[i].id = jobs[i].id
      /\ UNCHANGED <<row, life, select, feed, failed>>
    BY <1>4 DEF Frame, database, dispatch
<1>6. Sound'
    <2> SUFFICES ASSUME NEW i \in DOMAIN jobs
                 PROVE  JobSound(jobs'[i], row'[jobs'[i].id])
        BY <1>5 DEF Sound, RowOf
    <2>1. row'[jobs'[i].id] = RowOf(i)
        BY <1>5 DEF RowOf
    <2>2. CASE i = j
        BY <1>3, <2>1, <2>2
    <2>3. CASE i # j
        BY <1>5, <2>1, <2>3 DEF FInv, Sound
    <2> QED
        BY <2>2, <2>3
<1>7. Ordered' /\ NoneLeft'
    BY <1>5 DEF FInv, Ordered, NoneLeft, NoRowTwice, NoRowSkipped, Wanted, Dispatched
<1>8. ioSem' = Cardinality(Using') /\ ioSem' \in 0 .. MaxIO
    <2>1. IsFiniteSet(Using) /\ MaxIO \in Nat
        BY <1>1, UsingFinite, FeedAssumption
    <2>2. CASE Takes(j)
        <3>1. Using' = Using \cup {j} /\ j \notin Using
            BY <1>5, <2>2 DEF Using, Takes
        <3>2. Cardinality(Using') = Cardinality(Using) + 1
            BY <2>1, <3>1, FS_AddElement
        <3> QED
            BY <1>1, <2>1, <2>2, <3>2 DEF Takes
    <2>3. CASE Keeps(j)
        <3>1. Using' = Using
            BY <1>5, <2>3 DEF Using, Keeps
        <3> QED
            BY <1>1, <2>3, <3>1 DEF Keeps
    <2>4. CASE LetsGo(j)
        <3>1. Using' = Using \ {j} /\ j \in Using
            BY <1>5, <2>4 DEF Using, LetsGo
        <3>2. Cardinality(Using') = Cardinality(Using) - 1 /\ Cardinality(Using) \in Nat
              /\ Cardinality(Using') \in Nat
            BY <2>1, <3>1, FS_RemoveElement, FS_CardinalityType
        <3> QED
            BY <1>1, <2>1, <2>4, <3>2 DEF LetsGo
    <2> QED
        BY <1>3, <2>2, <2>3, <2>4
<1>9. TypeOK'
    BY <1>5, <1>8 DEF FInv, TypeOK
<1> QED
    BY <1>6, <1>7, <1>8, <1>9 DEF FInv

(* A change of the table.                                                    *)
LEMMA DatabaseStep ==
    ASSUME FInv, NEW id \in Ids, RowAdded(id) \/ RowDeleted(id)
    PROVE  FInv'
<1>1. /\ UNCHANGED <<row, select, feed, failed, jobs, ioSem>>
      /\ life' \in [Ids -> {"unborn", "start", "late", "gone"}]
      /\ \A other \in Ids : life'[other] = "start" => life[other] = "start"
    BY DEF RowAdded, RowDeleted, dispatch, FInv, TypeOK
<1>2. TypeOK' /\ Sound' /\ Ordered'
    BY <1>1 DEF FInv, TypeOK, Sound, Ordered, NoRowTwice, RowOf
<1>3. ioSem' = Cardinality(Using')
    BY <1>1 DEF FInv, Using
<1>4. NoneLeft'
    BY <1>1 DEF FInv, NoneLeft, NoRowSkipped, Wanted, Dispatched
<1> QED
    BY <1>2, <1>3, <1>4 DEF FInv

(* A page: whatever it leaves out of what was found is above its last ID.    *)
LEMMA PageStep ==
    ASSUME FInv, Counts \/ GetPage \/ GetNothing \/ GetFails
    PROVE  FInv'
<1>1. UNCHANGED <<row, life, select, jobs, ioSem>>
    BY DEF Counts, GetPage, GetNothing, GetFails, database
<1>2. Sound' /\ NoRowTwice'
    BY <1>1 DEF FInv, Sound, Ordered, NoRowTwice, RowOf
<1>3. ioSem' = Cardinality(Using')
    BY <1>1 DEF FInv, Using
<1>4. SUFFICES TypeOK' /\ Ordered' /\ NoneLeft'
    BY <1>2, <1>3 DEF FInv
<1>5. /\ feed.cursor \in Nat /\ feed.page \subseteq Ids /\ Ids \subseteq Nat
      /\ \A k \in DOMAIN jobs : jobs[k].id \in Nat
    <2>1. JobsOK
        BY DEF FInv, TypeOK, JobsOK
    <2> QED
        BY <2>1, JobFields, FeedAssumption DEF FInv, TypeOK
<1>6. CASE Counts
    <2>1. /\ feed.pc = "count" /\ feed'.pc \in {"refused", "page"} /\ failed' = failed
          /\ feed'.cursor = feed.cursor /\ feed'.page = feed.page /\ feed' \in Feeds
        BY <1>6 DEF Counts, FInv, TypeOK, Feeds
    <2> QED
        BY <1>1, <1>2, <2>1 DEF FInv, TypeOK, Feeds, Ordered, NoneLeft, NoRowSkipped, Wanted,
           Dispatched
<1>7. CASE GetFails
    <2>1. /\ feed.pc = "page" /\ feed'.pc = "over" /\ failed' = TRUE
          /\ feed'.cursor = feed.cursor /\ feed'.page = feed.page /\ feed' \in Feeds
        BY <1>7 DEF GetFails, FInv, TypeOK, Feeds
    <2> QED
        BY <1>1, <1>2, <2>1 DEF FInv, TypeOK, Feeds, Ordered, NoneLeft, NoRowSkipped, Wanted,
           Dispatched
<1>8. CASE GetNothing
    <2>1. /\ feed.pc = "page" /\ feed'.pc = "over" /\ failed' = failed /\ Found = {}
          /\ feed'.cursor = feed.cursor /\ feed'.page = feed.page /\ feed' \in Feeds
        BY <1>8 DEF GetNothing, FInv, TypeOK, Feeds
    <2>2. feed.page = {}
        BY <2>1 DEF FInv, Ordered
    <2>3. \A id \in Ids : Wanted(id) => id <= feed.cursor
        BY <1>5, <2>1 DEF Found, Wanted
    <2>4. \A id \in Ids : Wanted(id) => Dispatched(id)
        BY <2>2, <2>3 DEF FInv, NoneLeft
    <2> QED
        BY <1>1, <1>2, <2>1, <2>4
        DEF FInv, TypeOK, Feeds, Ordered, NoneLeft, NoRowSkipped, Wanted,
           Dispatched
<1>9. CASE GetPage
    <2>0. PICK page \in SUBSET Found : \E last \in page :
            /\ FirstOf(Found, page) /\ \A id \in page : id <= last
            /\ feed' = [pc |-> "put", cursor |-> last, page |-> page]
        BY <1>9 DEF GetPage
    <2>1. PICK last \in page :
            /\ FirstOf(Found, page) /\ \A id \in page : id <= last
            /\ feed' = [pc |-> "put", cursor |-> last, page |-> page]
        BY <2>0
    <2>2. feed.pc = "page" /\ failed' = failed /\ feed.page = {}
        BY <1>9 DEF GetPage, FInv, Ordered
    <2>3. /\ page \subseteq Ids /\ last \in Nat /\ last > feed.cursor
          /\ \A id \in page : id > feed.cursor
        BY <1>5, <2>1 DEF Found
    <2>4. TypeOK'
        BY <1>1, <2>1, <2>2, <2>3 DEF FInv, TypeOK
    <2>5. Ordered'
        <3>1. \A k \in DOMAIN jobs : jobs[k].id <= feed.cursor
            BY DEF FInv, Ordered
        <3>2. \A k \in DOMAIN jobs : jobs[k].id <= last /\ \A id \in page : jobs[k].id < id
            BY <1>5, <2>3, <3>1
        <3> QED
            BY <1>1, <1>2, <2>1, <3>2 DEF Ordered
    <2>6. ASSUME NEW id \in Ids, Wanted(id), id <= last
          PROVE  id \in page \/ Dispatched(id)
        <3>1. CASE id <= feed.cursor
            BY <2>2, <2>6, <3>1 DEF FInv, NoneLeft
        <3>2. CASE id > feed.cursor
            <4>1. id \in Found
                BY <2>6, <3>2 DEF Found, Wanted
            <4>2. id \notin page => last < id
                BY <2>1, <4>1 DEF FirstOf
            <4> QED
                BY <1>5, <2>3, <2>6, <4>2
        <3> QED
            BY <1>5, <3>1, <3>2
    <2>7. NoneLeft'
        BY <1>1, <2>1, <2>6 DEF NoneLeft, NoRowSkipped, Wanted, Dispatched
    <2> QED
        BY <2>4, <2>5, <2>7
<1> QED
    BY <1>6, <1>7, <1>8, <1>9

(* A row put: its handling is yet to begin.                                  *)
LEMMA NewJobSound ==
    ASSUME NEW id \in Ids, row \in [Ids -> Rows]
    PROVE  /\ NewJob(id) \in Jobs /\ NewJob(id).id = id /\ ~Busy(NewJob(id))
           /\ JobSound(NewJob(id), row[id])
<1> DEFINE s == [image |-> Empty, word |-> Empty]
           first == 1
           none == 0
<1>1. s \in [Fields -> Texts] /\ s = SaysAll(row[id].lines, 0)
    <2>1. Empty \in Texts
        BY FeedAssumption
    <2> QED
        BY <2>1, SaysFirst DEF Fields, SaysAll
<1>2. first \in Nat \ {0} /\ none \in Nat
    OBVIOUS
<1> DEFINE job == [id |-> id, pc |-> "queued", at |-> first, s |-> s, samples |-> <<>>, bad |-> none,
                   good |-> <<>>, buf |-> <<>>, message |-> NoMessage, arrived |-> none,
                   errors |-> none]
<1>3. NewJob(id) = job /\ first = 1 /\ none = 0
    BY DEF NewJob
<1> HIDE DEF s, first, none
<1>4. job \in Jobs
    <2>1. <<>> \in Seq(Samples) /\ <<>> \in Seq(Nat) /\ <<>> \in Seq(Texts)
        OBVIOUS
    <2> QED
        BY <1>1, <1>2, <2>1 DEF Jobs, JobPCs
<1>5. JobSound(job, row[id])
    BY <1>1, <1>3 DEF JobSound, Idle, Over
<1>6. job.id = id /\ ~Busy(job)
    BY DEF Busy
<1> QED
    BY <1>3, <1>4, <1>5, <1>6

LEMMA PutStep ==
    ASSUME FInv, NEW id \in Ids, PutRow(id)
    PROVE  FInv'
<1> DEFINE job == NewJob(id)
           n == Len(jobs)
<1>1. /\ feed.pc = "put" /\ id \in feed.page /\ \A other \in feed.page : id <= other
      /\ jobs' = Append(jobs, job) /\ UNCHANGED <<row, life, select, failed, ioSem>>
    BY DEF PutRow, database
<1>2. /\ feed'.page = feed.page \ {id} /\ feed'.cursor = feed.cursor /\ feed' \in Feeds
      /\ feed'.pc = IF feed.page = {id} THEN "page" ELSE "put"
    <2>1. feed.pc = "put" /\ feed' = [feed EXCEPT !.page = @ \ {id},
                                         !.pc = IF feed.page = {id} THEN "page" ELSE "put"]
        BY DEF PutRow
    <2>2. feed \in Feeds
        BY DEF FInv, TypeOK, Feeds
    <2> QED
        BY <2>1, <2>2 DEF Feeds
<1>3. JobsOK /\ jobs \in Seq(Jobs) /\ n \in Nat /\ DOMAIN jobs = 1 .. n
    BY DEF FInv, TypeOK, JobsOK
<1>4. /\ job \in Jobs /\ job.id = id /\ ~Busy(job) /\ JobSound(job, row[id])
    BY <1>3, NewJobSound DEF JobsOK
<1> HIDE DEF job
<1>5. /\ jobs' \in Seq(Jobs) /\ DOMAIN jobs' = 1 .. n + 1
      /\ \A k \in DOMAIN jobs : jobs'[k] = jobs[k]
      /\ jobs'[n + 1] = job
    BY <1>1, <1>3, <1>4
<1> HIDE DEF n
<1>6. \A k \in DOMAIN jobs' : k \in DOMAIN jobs \/ k = n + 1
    BY <1>3, <1>5
<1>7. DOMAIN jobs \subseteq DOMAIN jobs' /\ n + 1 \in DOMAIN jobs' /\ n + 1 \notin DOMAIN jobs
      /\ \A k \in DOMAIN jobs : k < n + 1
    BY <1>3, <1>5
<1>8. TypeOK'
    BY <1>1, <1>2, <1>5 DEF FInv, TypeOK, Feeds
<1>9. Sound'
    <2> SUFFICES ASSUME NEW k \in DOMAIN jobs' PROVE JobSound(jobs'[k], row'[jobs'[k].id])
        BY DEF Sound, RowOf
    <2>1. CASE k \in DOMAIN jobs
        <3>1. JobSound(jobs[k], row[jobs[k].id])
            BY <2>1 DEF FInv, Sound, RowOf
        <3> QED
            BY <1>1, <1>5, <2>1, <3>1
    <2>2. CASE k = n + 1
        BY <1>1, <1>4, <1>5, <2>2
    <2> QED
        BY <1>6, <2>1, <2>2
<1>10. ioSem' = Cardinality(Using')
    <2>1. Using' = Using
        BY <1>4, <1>5, <1>6, <1>7 DEF Using
    <2> QED
        BY <1>1, <2>1 DEF FInv
<1>11. Ordered'
    <2>1. /\ NoRowTwice /\ \A k \in DOMAIN jobs : jobs[k].id <= feed.cursor /\ jobs[k].id < id
          /\ \A other \in feed.page : /\ other <= feed.cursor
                                      /\ \A k \in DOMAIN jobs : jobs[k].id < other
        BY <1>1 DEF FInv, Ordered
    <2>2. \A other \in feed'.page : id < other
        <3>1. \A other \in feed.page : other \in Nat
            BY FeedAssumption DEF FInv, TypeOK
        <3> QED
            BY <1>1, <1>2, <3>1
    <2>3. NoRowTwice'
        <3> SUFFICES ASSUME NEW i \in DOMAIN jobs', NEW k \in DOMAIN jobs', i < k
                     PROVE  jobs'[i].id < jobs'[k].id
            BY DEF NoRowTwice
        <3>1. i \in DOMAIN jobs
            BY <1>3, <1>5
        <3>2. CASE k \in DOMAIN jobs
            BY <1>5, <2>1, <3>1, <3>2 DEF NoRowTwice
        <3>3. CASE k = n + 1
            BY <1>4, <1>5, <2>1, <3>1, <3>3
        <3> QED
            BY <1>6, <3>2, <3>3
    <2>4. \A k \in DOMAIN jobs' : jobs'[k].id <= feed'.cursor
        BY <1>1, <1>2, <1>4, <1>5, <1>6, <2>1
    <2>5. \A other \in feed'.page : \A k \in DOMAIN jobs' : jobs'[k].id < other
        BY <1>2, <1>4, <1>5, <1>6, <2>1, <2>2
    <2>6. feed'.page # {} => feed'.pc = "put"
        BY <1>1, <1>2
    <2> QED
        BY <1>2, <2>1, <2>3, <2>4, <2>5, <2>6 DEF Ordered
<1>12. NoneLeft'
    <2>1. \A other \in Ids : Wanted(other) /\ other <= feed.cursor =>
            other \in feed.page \/ Dispatched(other)
        BY DEF FInv, NoneLeft
    <2>2. \A other \in Ids : Dispatched(other) => Dispatched(other)'
        BY <1>5, <1>7 DEF Dispatched
    <2>3. Dispatched(id)'
        BY <1>4, <1>5, <1>7 DEF Dispatched
    <2>4. feed'.pc # "over"
        BY <1>2
    <2> QED
        BY <1>1, <1>2, <2>1, <2>2, <2>3, <2>4 DEF NoneLeft, NoRowSkipped, Wanted
<1> QED
    BY <1>8, <1>9, <1>10, <1>11, <1>12 DEF FInv

LEMMA FInvKept == FInv /\ [Next]_vars => FInv'
<1> SUFFICES ASSUME FInv, [Next]_vars PROVE FInv'
    OBVIOUS
<1>1. CASE \E id \in Ids : RowAdded(id) \/ RowDeleted(id)
    BY <1>1, DatabaseStep
<1>2. CASE DispatchNext
    BY <1>2, PageStep, PutStep DEF DispatchNext
<1>3. CASE \E j \in DOMAIN jobs : JobNext(j)
    BY <1>3, HandlingStep
<1>4. CASE UNCHANGED vars
    BY <1>4 DEF vars, database, dispatch, FInv, TypeOK, Sound, RowOf, Using, Ordered, NoRowTwice,
       NoneLeft, NoRowSkipped, Wanted, Dispatched
<1> QED
    BY <1>1, <1>2, <1>3, <1>4 DEF Next

THEOREM FeedInvariant == Spec => []FInv
BY FeedInit, FInvKept, PTL DEF Spec

-----------------------------------------------------------------------------
(* Every variable keeps to its values; the semaphore is never overdrawn.     *)
THEOREM TypeCorrect == Spec => []TypeOK
<1>1. FInv => TypeOK
    BY DEF FInv
<1> QED
    BY <1>1, FeedInvariant, PTL

(* However the table changes between the pages, no row comes twice.          *)
THEOREM DispatchedOnce == Spec => []NoRowTwice
<1>1. FInv => NoRowTwice
    BY DEF FInv, Ordered
<1> QED
    BY <1>1, FeedInvariant, PTL

(* However the table changes between the pages, no row that stays is missed. *)
THEOREM DispatchedAll == Spec => []NoRowSkipped
<1>1. FInv => NoRowSkipped
    BY DEF FInv, NoneLeft
<1> QED
    BY <1>1, FeedInvariant, PTL

LEMMA ResultsSound ==
    ASSUME FInv, NEW j \in DOMAIN jobs, jobs[j].message # NoMessage
    PROVE  ResultSound(jobs[j].message, RowOf(j))
<1>1. jobs[j] \in Jobs /\ JobSound(jobs[j], RowOf(j))
    BY DEF FInv, TypeOK, Sound
<1>2. jobs[j].pc \in JobPCs
    BY <1>1 DEF Jobs
<1> QED
    BY <1>1, <1>2 DEF JobSound, Idle, Over, JobPCs

(* Whatever the lines of a file say and whichever of its images can be read, *)
(* the k-th image and the k-th word of a message are of one line.            *)
THEOREM PairedOfOneLine == Spec => []PairsKept
<1>1. FInv => PairsKept
    BY ResultsSound DEF PairsKept, ResultSound
<1> QED
    BY <1>1, FeedInvariant, PTL

(* Whatever Handle makes can be decoded.                                     *)
THEOREM AlwaysDecodable == Spec => []MessagesDecode
<1>1. FInv => MessagesDecode
    BY ResultsSound DEF MessagesDecode, ResultSound
<1> QED
    BY <1>1, FeedInvariant, PTL

(* Of every row whose message was taken, or that left nothing to send, the   *)
(* samples of the message and the errors counted come to what the row holds. *)
THEOREM SamplesAddUp == Spec => []SamplesAccounted
<1>1. FInv => SamplesAccounted
    BY DEF FInv, Sound, JobSound, SamplesAccounted
<1> QED
    BY <1>1, FeedInvariant, PTL
=============================================================================
