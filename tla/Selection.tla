----------------------------- MODULE Selection ------------------------------
(***************************************************************************)
(* The selection of a task's rows: SelectFunc, sqlExpr and the parsing of  *)
(* values in the Data Node, DatabasePlugin/handler/model.go.               *)
(*                                                                         *)
(* A condition is a field, an operator and a value; of a value's text all  *)
(* that counts is what it can be read as ("int", "time" or only "text")    *)
(* and what is then compared with the field.                               *)
(***************************************************************************)
EXTENDS Integers, Sequences

Orders   == {"gt", "gte", "lt", "lte"}
Times    == {"before", "after"}
Equality == {"eq", "neq"}

(* The value that is bound, or its error: an integer for ID, a time for      *)
(* date, the text for any other field.                                       *)
Reads(field) == CASE field = "ID"   -> {"int"}
                  [] field = "date" -> {"time"}
                  [] OTHER          -> {"int", "time", "text"}

Refused(c) ==
    \/ c.operator \notin Orders \cup Times \cup Equality
    \/ c.operator \in Orders /\ c.field # "ID"
    \/ c.operator \in Times  /\ c.field # "date"
    \/ c.value.reads \notin Reads(c.field)

Meets(row, c) ==
    LET field == row[c.field]
        value == c.value.is
    IN  CASE c.operator \in {"gt", "after"}  -> field > value
          [] c.operator = "gte"              -> field >= value
          [] c.operator \in {"lt", "before"} -> field < value
          [] c.operator = "lte"              -> field = value   \* sqlExpr has no case for it
          [] c.operator = "eq"               -> field = value
          [] c.operator = "neq"              -> field # value

(* SelectFunc joins the conditions; the first that is refused is its error.  *)
SelectFails(select) == \E k \in DOMAIN select : Refused(select[k])
Selected(select, row) == \A k \in DOMAIN select : Meets(row, select[k])
=============================================================================
