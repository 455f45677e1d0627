------------------------------- MODULE Tmpfs -------------------------------
(***************************************************************************)
(* The tree of src/cmd/tmpfs.c: nodes that are linked by child, sibling    *)
(* and ref, counted by the handles that are open, and freed after removal. *)
(* A name that ends in a slash is that of a directory.  The contents of    *)
(* the files are in module Files.                                          *)
(***************************************************************************)
EXTENDS Naturals, Sequences, SequencesExt, FiniteSets

CONSTANTS
    Node, Root, Nil,        \* addresses of nodes, node_root, and NULL
    FileName, DirName,
    Hid,                    \* handles of the callers
    SizeMod,                \* the number of values of a size_t
    MaxRemoves              \* bound: how often a file is removed

\* A size_t counts all the handles that there can be.
ASSUME TmpfsAssumption ==
    /\ IsFiniteSet(Node) /\ Root \in Node /\ Nil \notin Node
    /\ FileName \cap DirName = {} /\ Nil \notin FileName \cup DirName
    /\ IsFiniteSet(Hid) /\ SizeMod \in Nat /\ Cardinality(Hid) < SizeMod /\ MaxRemoves \in Nat

VARIABLES
    node,           \* node[n]: struct node, and whether it is allocated
    hid,            \* hid[h]: the node of a handle, or Nil
    removes         \* how many nodes have been removed

tmpfs_vars == <<node, hid, removes>>

Free == [live |-> FALSE, name |-> Nil, open |-> 0, sibling |-> Nil, child |-> Nil, ref |-> <<>>]
Name == FileName \cup DirName

TmpfsTypeOK ==
    /\ \A n \in Node : /\ node[n].name \in Name \cup {Nil} /\ node[n].open \in 0..(SizeMod - 1)
                       /\ {node[n].sibling, node[n].child} \subseteq Node \cup {Nil}
                       /\ node[n].ref \in {<<>>} \cup ({"child", "sibling"} \X Node)
    /\ hid \in [Hid -> Node \cup {Nil}]
    \* only a directory has children
    /\ \A n \in Node : node[n].child # Nil => n = Root \/ node[n].name \in DirName

\* The list of children of d, as far as it can be followed.
children(d) ==
    LET at[k \in 1..Cardinality(Node)] ==
            IF k = 1 THEN node[d].child
            ELSE LET prev == at[k - 1] IN IF prev = Nil THEN Nil ELSE node[prev].sibling
        len == Cardinality({k \in 1..Cardinality(Node) : at[k] # Nil})
    IN [k \in 1..len |-> at[k]]

node_getchild(d, x) == LET k == SelectInSeq(children(d), LAMBDA n : node[n].name = x)
                       IN IF k = 0 THEN Nil ELSE children(d)[k]

\* Bug: a new handle of an old node is not counted.
opened_new(t, n) == t
opened(t, n) == [t EXCEPT ![n].open = (@ + 1) % SizeMod]

\* tmpfs_open of a path with one name in the directory d; OpenPath finds d.
\* The root itself is not counted.
tmpfs_open(h, d, x, create) ==
    LET found == node_getchild(d, x) IN
    \/ /\ found # Nil
       /\ node' = opened(node, found)
       /\ hid' = [hid EXCEPT ![h] = found]
    \/ /\ found = Nil /\ create
       /\ \E n \in {k \in Node : ~node[k].live} :
            LET old == node[d].child
                new == [Free EXCEPT !.live = TRUE, !.name = x, !.sibling = old, !.ref = <<"child", d>>]
                linked == [node EXCEPT ![n] = new, ![d].child = n]
            IN /\ node' = opened(IF old = Nil THEN linked ELSE [linked EXCEPT ![old].ref = <<"sibling", n>>], n)
               /\ hid' = [hid EXCEPT ![h] = n]

OpenRoot(h) ==
    /\ hid[h] = Nil /\ hid' = [hid EXCEPT ![h] = Root]
    /\ UNCHANGED <<node, removes>>

OpenPath(h, dirs, x, create) ==
    LET at == IF dirs = <<>> THEN Root ELSE node_getchild(Root, dirs[1]) IN
    /\ hid[h] = Nil /\ at # Nil
    /\ tmpfs_open(h, at, x, create)
    /\ UNCHANGED removes

\* node_close.  A handle whose node is gone changes memory that is not in use.
node_close(t, n) ==
    IF n = Root \/ ~t[n].live THEN t
    ELSE IF t[n].ref = <<>> /\ t[n].open = 1 THEN [t EXCEPT ![n] = Free]
    ELSE [t EXCEPT ![n].open = (@ + SizeMod - 1) % SizeMod]

CloseHandle(h) ==
    /\ hid[h] # Nil
    /\ node' = node_close(node, hid[h])
    /\ hid' = [hid EXCEPT ![h] = Nil]
    /\ UNCHANGED removes

\* The node that follows keeps its old ref.
unlinked(t, n) ==
    LET by == t[n].ref IN
    [(IF by[1] = "child" THEN [t EXCEPT ![by[2]].child = t[n].sibling]
                         ELSE [t EXCEPT ![by[2]].sibling = t[n].sibling]) EXCEPT ![n].ref = <<>>]

\* node_remove, and the close of the handle that the kernel sends after it.
RemoveFile(h) ==
    LET n == hid[h] IN
    /\ n # Nil /\ removes < MaxRemoves
    /\ LET ok == n # Root /\ node[n].live /\ node[n].ref # <<>> /\ node[n].child = Nil IN
       /\ node' = node_close(IF ok THEN node_close(unlinked(node, n), n) ELSE node, n)
       /\ removes' = IF ok THEN removes + 1 ELSE removes
    /\ hid' = [hid EXCEPT ![h] = Nil]

TmpfsInit ==
    /\ node = [n \in Node |-> IF n = Root THEN [Free EXCEPT !.live = TRUE] ELSE Free]
    /\ hid = [h \in Hid |-> Nil] /\ removes = 0

TmpfsNext ==
    \E h \in Hid :
        \/ OpenRoot(h) \/ CloseHandle(h) \/ RemoveFile(h)
        \/ \E x \in Name, create \in BOOLEAN, dirs \in {<<>>} \cup {<<d>> : d \in DirName} : OpenPath(h, dirs, x, create)

TmpfsSpec == TmpfsInit /\ [][TmpfsNext]_tmpfs_vars

-----------------------------------------------------------------------------
(* Properties. *)

\* A directory has no two entries of the same name: what was created is found
\* again, whatever was created or removed since.
NamesUnique ==
    \A d \in Node : \A i, j \in DOMAIN children(d) : i # j => node[children(d)[i]].name # node[children(d)[j]].name

\* Until a file is removed, open counts the handles of a node.
CountsExact ==
    removes = 0 => \A n \in Node \ {Root} : node[n].open = Cardinality({h \in Hid : hid[h] = n})

\* What was removed is no longer found, all that is found is allocated, and
\* memory that neither a directory nor a handle refers to is free.
RemovedGone ==
    LET found == UNION {Range(children(d)) : d \in {n \in Node : node[n].live}} IN
    \A n \in Node \ {Root} :
        /\ node[n].ref = <<>> => n \notin found
        /\ n \in found => node[n].live
        /\ node[n].live => n \in found \/ \E h \in Hid : hid[h] = n

\* "It's kept in memory until all the open handles are closed."
KeptWhileOpen == \A h \in Hid : hid[h] # Nil => node[hid[h]].live

\* The tree of a tmpfs is sound: one node per name, counts that are exact, and
\* nothing left of a file that was removed.
TmpfsSound == TmpfsTypeOK /\ NamesUnique /\ CountsExact /\ RemovedGone
=============================================================================
