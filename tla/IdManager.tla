------------------------------ MODULE IdManager ------------------------------
(***************************************************************************)
(* The Master's pool of counters and the ids made of them                  *)
(* (manager/Idmanager.go; extractCounter of receiveremote/reciever.go).    *)
(*                                                                         *)
(* GetId reads Number[0], reads Number[1:] and writes Number under a READ  *)
(* lock, so these are three steps of each caller; the modules that have    *)
(* callers compose them from FirstCounter and RestOfPool.  A slice header  *)
(* is written as a whole here.                                             *)
(*                                                                         *)
(* An id is the text "date time" with the counter, built by fmt.Sprint     *)
(* from two operands.  It is modelled by its second and its counter.       *)
(*                                                                         *)
(* A definition called a variant is the one that follows it with a         *)
(* plausible mistake; no action uses it.                                   *)
(***************************************************************************)
EXTENDS Integers, Sequences

CONSTANTS
    Size,   \* how many counters there are (100)
    None    \* no counter, no id, no task

VARIABLES
    pool,   \* DefaultIdManager.Number
    now     \* time.Now, in seconds

Counters == 0 .. Size - 1

IdValues == [second : Nat, counter : Counters]

ASSUME IdAssumption == Size \in Nat \ {0} /\ None \notin Int /\ None \notin IdValues

FullPool == [k \in 1 .. Size |-> k - 1]

FirstCounter == pool[1]

RestOfPool == Tail(pool)

(* The time in front of the counter tells the tasks of a process from those *)
(* of the one before it.                                                    *)
NewIdUndated(c) == [second |-> 0, counter |-> c]   \* a variant

NewId(c) == [second |-> now, counter |-> c]

(* fmt.Sprint puts a blank between two operands only when neither is a      *)
(* string.  The time is a string, so the last field of an id is the clock   *)
(* with the counter glued to it ("15:04:057").                              *)
LastField(i) == [clock |-> TRUE, counter |-> i.counter]

(* A field that holds a clock is no number.                                 *)
Atoi(f) == IF f.clock THEN None ELSE f.counter

(* extractCounter: the counter to give back for an id, if it has one.       *)
ExtractCounter(i) == Atoi(LastField(i))

InsertId(c) == pool' = Append(pool, c)
=============================================================================
