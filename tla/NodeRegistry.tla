---------------------------- MODULE NodeRegistry ----------------------------
(***************************************************************************)
(* The Master's table of node addresses and its file nodes.txt             *)
(* (noderegistry/noderegistry.go).  A table is the set of its entries, one *)
(* for each address; what the file holds is a table too, since the writer  *)
(* puts out one line per entry and the reader takes a line back apart at   *)
(* its first tab.                                                          *)
(***************************************************************************)
EXTENDS FiniteSets

CONSTANTS Urls    \* addresses of nodes

VARIABLES
    nodes,    \* DefaultRegistry.nodes
    entries,  \* what Save has collected to write
    file      \* what nodes.txt holds

NodeTypes == {"TRAIN", "DATA"}

NodeValues == [url : Urls, type : NodeTypes]

Without(u) == {e \in nodes : e.url # u}

(* A second Add of an address changes its type.                             *)
Add(u, t) == nodes' = Without(u) \cup {[url |-> u, type |-> t]}

Remove(u) == nodes' = Without(u)

(* NewDefaultRegistry and Load, in a process that has just started.         *)
Load == nodes' = file

(* Save collects the entries under the lock, and gives it back; os.Create   *)
(* cuts the file off; then the entries are written.                         *)
CollectEntries == entries' = nodes

CreateFile == file' = {}

WriteFile == file' = entries
=============================================================================
