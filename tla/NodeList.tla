------------------------------ MODULE NodeList ------------------------------
(***************************************************************************)
(* The node lists of i8-transceiver.c, whitelist and comlist: arrays of    *)
(* MAX_NODE_LIST addresses in which 0 marks a free entry, and the          *)
(* nodelist functions that work on them.                                   *)
(***************************************************************************)
EXTENDS Naturals, FiniteSets

CONSTANTS
    NoNode,        \* the address 0
    MaxNodeList    \* MAX_NODE_LIST, 1024

ASSUME NodeListAssumption == MaxNodeList \in Nat \ {0}

Entry == 1..MaxNodeList
NodeLists(nodes) == [Entry -> nodes \cup {NoNode}]
EmptyList == [i \in Entry |-> NoNode]

\* The nodes a list holds.
Listed(list) == {list[i] : i \in Entry} \ {NoNode}

nodelist_find(list, node) == \E i \in Entry : list[i] = node

nodelist_count(list) == Cardinality({i \in Entry : list[i] # NoNode})

\* What nodelist_append counts: the entries before the first free one.
IsPrefixLength(list, n) ==
    /\ \A i \in 1..n : list[i] # NoNode
    /\ n < MaxNodeList => list[n + 1] = NoNode
PrefixLength(list) == CHOOSE n \in 0..MaxNodeList : IsPrefixLength(list, n)

\* No free entry lies before a used one; no node is listed twice.
Compact(list) ==
    \A i, j \in Entry : i < j /\ list[i] = NoNode => list[j] = NoNode
Distinct(list) ==
    \A i, j \in Entry : list[i] = list[j] /\ list[i] # NoNode => i = j

\* Variant for model checking: the search for the node is forgotten.
nodelist_add_unchecked(list, node) ==
    LET free == {i \in Entry : list[i] = NoNode}
        first == CHOOSE i \in free : \A j \in free : i <= j
    IN  IF free = {} THEN list ELSE [list EXCEPT ![first] = node]

nodelist_add(list, node) ==
    LET free == {i \in Entry : list[i] = NoNode}
        first == CHOOSE i \in free : \A j \in free : i <= j
    IN  IF nodelist_find(list, node) \/ free = {}
        THEN list
        ELSE [list EXCEPT ![first] = node]

\* Variant for model checking: the first appended entry goes one place too far.
nodelist_append_off_by_one(target, append) ==
    LET t == PrefixLength(target)
        a == PrefixLength(append)
    IN  [i \in Entry |-> IF t + 1 < i /\ i <= t + 1 + a THEN append[i - t - 1]
                                                        ELSE target[i]]

\* Variant for model checking: the copy starts over the last entry in use.
nodelist_append_over_last(target, append) ==
    LET t == PrefixLength(target)
        a == PrefixLength(append)
        from == IF t = 0 THEN 0 ELSE t - 1
    IN  [i \in Entry |-> IF from < i /\ i <= from + a THEN append[i - from]
                                                      ELSE target[i]]

\* The entries of append, up to its first free one, go behind those of target;
\* the ones that do not fit are left out.  Entries already there are not looked for.
nodelist_append(target, append) ==
    LET t == PrefixLength(target)
        a == PrefixLength(append)
    IN  [i \in Entry |-> IF t < i /\ i <= t + a THEN append[i - t] ELSE target[i]]
=============================================================================
