------------------------------- MODULE MCFeed -------------------------------
(* Instances of the feed: up to three rows, the second a file of JSON lines. *)
EXTENDS FeedProperties

Row(id, dtype, path, lines, count) ==
    [ID |-> id, date |-> id, type |-> "cat", dtype |-> dtype, path |-> path, lines |-> lines,
     count |-> count]

Object(image, word) == [kind |-> "object", image |-> image, word |-> word]
Other(kind)         == [kind |-> kind, image |-> NoField, word |-> NoField]

(* A line that is whole, one whose image is not there, one that names no     *)
(* image; one with an error of type in its image, one that is no JSON.       *)
Good    == Object("p", "v")
Torn    == Object("none", "w")
Wordy   == Object(NoField, "w")
Typed   == [kind |-> "bad", image |-> NoField, word |-> "w"]
LineSet == {Good, Torn, Wordy, Typed, Other("bad"), Other("blank"), Other("long")}

Short == UNION {[1..n -> LineSet] : n \in 0..2}
Long  == [1..3 -> {Good, Torn, Wordy, Typed}]

ID(operator, n) == [field |-> "ID", operator |-> operator, value |-> [reads |-> "int", is |-> n]]
CatsOnly == [field |-> "type", operator |-> "eq", value |-> [reads |-> "text", is |-> "cat"]]
BadDate  == [field |-> "date", operator |-> "before", value |-> [reads |-> "text", is |-> "cat"]]

Start(selection, table, deleted, lines, third) ==
    [select |-> selection, table |-> table, deleted |-> deleted,
     row |-> [id \in Ids |->
        CASE id = 1 -> Row(1, "jpg", "p", <<>>, 1)
          [] id = 2 -> Row(2, "json", "f", lines, 2)
          [] id = 3 -> Row(3, third, "f", <<>>, 1)]]

(* Every file by itself; and a file among rows that can be read, cannot, or  *)
(* are of no known kind, in a table that changes; and two rows of three that *)
(* cannot be read.                                                           *)
FeedStarts ==
    {Start(<<>>, {2}, {1, 3}, lines, "txt") : lines \in Short \cup Long}
    \cup {Start(<<>>, table, {}, <<Torn, Good>>, "png") : table \in {{1, 2}, {1, 2, 3}, {3}}}
    \cup {Start(selection, {1, 2, 3}, {}, <<Wordy>>, third) :
            selection \in {<<ID("gt", 1), CatsOnly>>, <<CatsOnly, BadDate>>},
            third \in {"txt", "mp4"}}
    \cup {[Start(<<>>, {1, 2, 3}, {}, <<>>, "mp4") EXCEPT !.row[2].path = "none"]}
=============================================================================
