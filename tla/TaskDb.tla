------------------------------- MODULE TaskDb -------------------------------
(***************************************************************************)
(* The Master's records of finished tasks (taskdb/taskdb.go,               *)
(* taskdb/checkexist.go): bbolt files named after a time, each with a      *)
(* bucket of keys.                                                         *)
(*                                                                         *)
(* No record is ever in an active file: GetTime parses the path of an      *)
(* active file, which is no time of the layout it asks for, so neither     *)
(* CheckActive nor the loop of CheckExist finds one.                       *)
(***************************************************************************)
EXTENDS Integers

VARIABLES files   \* every record, with the file it is in

(* The file CheckExist opens for a time, and the one Insert writes to.      *)
CheckedFile(t) == [time |-> t, ext |-> ""]

WrittenFile(t) == [time |-> t, ext |-> ".db"]

RecordValues(Keys, Elements) ==
    [file : [time : Nat, ext : {"", ".db"}], key : Keys, of : Elements, deleted : BOOLEAN]

Holds(f, k) == {r \in files : r.file = f /\ r.key = k}

CheckExist(k, t) == \E r \in Holds(CheckedFile(t), k) : ~r.deleted

(* Insert of a key whose file is new; Put replaces what the key held.       *)
InsertRecord(k, t, e) ==
    files' = (files \ Holds(WrittenFile(t), k))
                 \cup {[file |-> WrittenFile(t), key |-> k, of |-> e, deleted |-> FALSE]}

(* Delete of a key that CheckExist has found: the record stays, marked.     *)
DeleteRecord(k, t) ==
    files' = (files \ Holds(WrittenFile(t), k))
                 \cup {[r EXCEPT !.deleted = TRUE] : r \in Holds(WrittenFile(t), k)}
=============================================================================
