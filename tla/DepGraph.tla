-------------------------------- MODULE DepGraph -------------------------------
(***************************************************************************)
(* The dependency graph of include/heluna/checker.h: contracts and the     *)
(* names each depends on.  Indices run from 1, and 0 stands for the -1 of  *)
(* find_dep_node.                                                          *)
(***************************************************************************)
EXTENDS Naturals, Sequences

CONSTANT Names    \* names of contracts

Node == [name : Names, deps : Seq(Names)]

(* A DepGraph is a sequence of nodes; a name without a node is external.   *)
FindDepNode(g, name) ==
  LET hits == {i \in DOMAIN g : g[i].name = name}
  IN  IF hits = {} THEN 0
      ELSE CHOOSE i \in hits : \A j \in hits : i <= j

(* One contract depends on another.                                        *)
Edge(g, i, j) == \E d \in DOMAIN g[i].deps : FindDepNode(g, g[i].deps[d]) = j

(* A graph has a cycle when some of its nodes have an edge to one another: *)
(* following those edges never ends.                                       *)
Cyclic(g) ==
  \E S \in SUBSET DOMAIN g :
    S # {} /\ \A i \in S : \E j \in S : Edge(g, i, j)

IsCycle(g, c) ==
  /\ c # << >>
  /\ \A i \in DOMAIN c : c[i] \in DOMAIN g
  /\ \A i \in 1..(Len(c) - 1) : Edge(g, c[i], c[i + 1])
  /\ Edge(g, c[Len(c)], c[1])

==============================================================================
