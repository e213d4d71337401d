------------------------------ MODULE MCAcyclicity -----------------------------
EXTENDS Acyclicity, SequencesExt

MCNames == {"a", "b", "c", "x"}

(* All graphs of up to three contracts with up to two dependencies each;   *)
(* "x" has no node, and two nodes may have one name.                       *)
MCGraphs ==
  LET deps == SeqOf(MCNames, 2) \ {<<n, n>> : n \in MCNames}
      nodes(names) == [name : names, deps : deps]
  IN  {<< >>}
        \cup {<<n>> : n \in nodes({"a"})}
        \cup {<<n, m>> : n \in nodes({"a"}), m \in nodes({"a", "b"})}
        \cup {<<n, m, k>> : n \in nodes({"a"}), m \in nodes({"b"}), k \in nodes({"c"})}

==============================================================================
