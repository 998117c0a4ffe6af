------------------------------- MODULE RWLock -------------------------------
(***************************************************************************)
(* The reader-writer lock that guards a task's spool file on the Training  *)
(* Node: class RWLock of TrainPlugin/trainplugin/task/manager.py.          *)
(*                                                                         *)
(* A step is one critical section of the condition variable _cond, up to   *)
(* the point where the thread leaves it or goes to sleep in wait().  A     *)
(* thread notify_all() has woken tests its loop condition again when it    *)
(* gets _cond back, which may be after any number of other threads.        *)
(*                                                                         *)
(* A definition called a variant is the one that follows it with a         *)
(* plausible mistake; no action uses it.                                   *)
(***************************************************************************)
EXTENDS Naturals, FiniteSets

CONSTANT Threads      \* handler threads (writers) and the prepare thread (reader)

ASSUME ThreadsAssumption == IsFiniteSet(Threads)

VARIABLES readers,          \* self._readers
          writer,           \* self._writer
          waitingWriters,   \* self._waiting_writers
          pc                \* where each thread is

vars == <<readers, writer, waitingWriters, pc>>

PCs == {"outside", "sleepR", "wokenR", "reading", "sleepW", "wokenW", "writing"}

Reading == {t \in Threads : pc[t] = "reading"}
Writing == {t \in Threads : pc[t] = "writing"}
Waiting == {t \in Threads : pc[t] \in {"sleepW", "wokenW"}}

Init == /\ readers = 0
        /\ writer = FALSE
        /\ waitingWriters = 0
        /\ pc = [t \in Threads |-> "outside"]

(* Condition.notify_all: every sleeping thread becomes runnable; thread t   *)
(* itself moves to the place "to".                                          *)
Wake(place) == IF place = "sleepR" THEN "wokenR"
               ELSE IF place = "sleepW" THEN "wokenW" ELSE place

NotifyAll(t) == pc' = [u \in Threads |-> IF u = t THEN "outside" ELSE Wake(pc[u])]

-----------------------------------------------------------------------------
(* read_lock *)

(* Variant: no preference for writers.                                      *)
ReadAllowedBarging == ~writer

ReadAllowed == ~writer /\ waitingWriters = 0

ReadWait(t) ==
    /\ pc[t] \in {"outside", "wokenR"}
    /\ ~ReadAllowed
    /\ pc' = [pc EXCEPT ![t] = "sleepR"]
    /\ UNCHANGED <<readers, writer, waitingWriters>>

ReadAcquire(t) ==
    /\ pc[t] \in {"outside", "wokenR"}
    /\ ReadAllowed
    /\ readers' = readers + 1
    /\ pc' = [pc EXCEPT ![t] = "reading"]
    /\ UNCHANGED <<writer, waitingWriters>>

(* Variant: the last reader forgets to notify.                              *)
ReadReleaseSilent(t) ==
    /\ pc[t] = "reading"
    /\ readers' = readers - 1
    /\ pc' = [pc EXCEPT ![t] = "outside"]
    /\ UNCHANGED <<writer, waitingWriters>>

ReadRelease(t) ==
    /\ pc[t] = "reading"
    /\ readers' = readers - 1
    /\ IF readers' = 0 THEN NotifyAll(t) ELSE pc' = [pc EXCEPT ![t] = "outside"]
    /\ UNCHANGED <<writer, waitingWriters>>

-----------------------------------------------------------------------------
(* write_lock *)

(* Variant: a writer looks at writers only.                                 *)
WriteAllowedOverReaders == ~writer

WriteAllowed == ~writer /\ readers = 0

(* Variant: the counter is raised inside the waiting loop.                  *)
WriteWaitRecounted(t) ==
    /\ pc[t] \in {"outside", "wokenW"}
    /\ ~WriteAllowed
    /\ waitingWriters' = waitingWriters + 1
    /\ pc' = [pc EXCEPT ![t] = "sleepW"]
    /\ UNCHANGED <<readers, writer>>

(* _waiting_writers counts the writer from its arrival to its acquisition.  *)
WriteWait(t) ==
    /\ pc[t] \in {"outside", "wokenW"}
    /\ ~WriteAllowed
    /\ waitingWriters' = IF pc[t] = "outside" THEN waitingWriters + 1 ELSE waitingWriters
    /\ pc' = [pc EXCEPT ![t] = "sleepW"]
    /\ UNCHANGED <<readers, writer>>

(* Variant: the counter is lowered though the writer never raised it.       *)
WriteAcquireUncounted(t) ==
    /\ pc[t] \in {"outside", "wokenW"}
    /\ WriteAllowed
    /\ writer' = TRUE
    /\ waitingWriters' = waitingWriters - 1
    /\ pc' = [pc EXCEPT ![t] = "writing"]
    /\ UNCHANGED readers

WriteAcquire(t) ==
    /\ pc[t] \in {"outside", "wokenW"}
    /\ WriteAllowed
    /\ writer' = TRUE
    /\ waitingWriters' = IF pc[t] = "wokenW" THEN waitingWriters - 1 ELSE waitingWriters
    /\ pc' = [pc EXCEPT ![t] = "writing"]
    /\ UNCHANGED readers

WriteRelease(t) ==
    /\ pc[t] = "writing"
    /\ writer' = FALSE
    /\ NotifyAll(t)
    /\ UNCHANGED <<readers, waitingWriters>>

-----------------------------------------------------------------------------
Next == \E t \in Threads :
    \/ ReadWait(t)  \/ ReadAcquire(t)  \/ ReadRelease(t)
    \/ WriteWait(t) \/ WriteAcquire(t) \/ WriteRelease(t)

(* A holder leaves its with-block (the file operation ends), and a thread   *)
(* that was woken gets _cond back and tests again.  Nobody has to come.     *)
Woken(t)    == /\ pc[t] \in {"wokenR", "wokenW"}
               /\ ReadWait(t) \/ ReadAcquire(t) \/ WriteWait(t) \/ WriteAcquire(t)
Releases(t) == ReadRelease(t) \/ WriteRelease(t)
Fairness == \A t \in Threads : WF_vars(Woken(t)) /\ WF_vars(Releases(t))

Spec == Init /\ [][Next]_vars
FairSpec == Spec /\ Fairness

-----------------------------------------------------------------------------
(* The counters stay within the number of threads and the places are those  *)
(* of the code.                                                             *)
TypeOK == /\ readers \in Nat
          /\ writer \in BOOLEAN
          /\ waitingWriters \in Nat
          /\ pc \in [Threads -> PCs]

(* The lock excludes: while one thread appends to the spool file no other   *)
(* thread is appending to it or reading it back.                            *)
Exclusion == \A t, u \in Threads :
    pc[t] = "writing" /\ u # t => pc[u] \notin {"reading", "writing"}

(* No lost wakeup: a thread asleep in wait() still has something to wait    *)
(* for.  Only the last reader and every writer call notify_all, so a sleeper *)
(* whose condition had become true otherwise would sleep for ever.          *)
NoLostWakeup == \A t \in Threads :
    /\ pc[t] = "sleepR" => ~ReadAllowed
    /\ pc[t] = "sleepW" => ~WriteAllowed

(* The counters tell the truth about the threads: the inductive strengthening *)
(* of Exclusion, and what makes the abstract lock's sets computable.        *)
CountersAgree == /\ readers = Cardinality(Reading)
                 /\ waitingWriters = Cardinality(Waiting)
                 /\ writer <=> Writing # {}

(* Writers are preferred: some waiting writer eventually writes, however    *)
(* many readers keep coming.                                                *)
WritersProgress == waitingWriters > 0 ~> writer

(* The lock implements the abstract one.                                    *)
Abstract == INSTANCE SharedLock
    WITH shared <- Reading, exclusive <- Writing,
         waiting <- Waiting
ImplementsSharedLock == Abstract!Spec
=============================================================================
