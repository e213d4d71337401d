----------------------------- MODULE MCDependencies ----------------------------
(***************************************************************************)
(* All folders of four contracts with a few uses each: shared, circular,   *)
(* missing, broken and of the wrong kind, with calls and sanitizers that   *)
(* name functions one table of the library has and another lacks.          *)
(***************************************************************************)
EXTENDS Dependencies

MCNames == {"main", "f", "g", "h"}
MCCompilerLibrary == {"upper"}
MCCheckerLibrary == {"upper", "to-string", "fold"}

(* Each program calls everything it may, but never itself.                 *)
Contract(name, uses, sanitizers) ==
  LET names == SelectSeq(uses, LAMBDA f : f # name) \o <<"upper">>
                 \o [i \in DOMAIN sanitizers |-> sanitizers[i].name]
  IN  [kind |-> "function", uses |-> uses, sanitizers |-> sanitizers, sound |-> TRUE,
       calls |-> [i \in DOMAIN names |-> [name |-> names[i], whole |-> FALSE]]]

Folding(contract, whole) ==
  [contract EXCEPT !.calls = Append(@, [name |-> "fold", whole |-> whole])]

Sanitizers(uses) ==
  {<< >>} \cup {<<[name |-> "clean", impl |-> f]>> :
                  f \in Range(uses) \cup {"upper", "to-string", ""}}
          \cup {<<[name |-> "to-string", impl |-> ""]>>}

Distinct(names, n) == {s \in SeqOf(names, n) : IsInjective(s)}

Leaves ==
  {Contract("h", <<"g">>, << >>),
   [Contract("h", << >>, << >>) EXCEPT !.sound = FALSE],
   [Contract("h", << >>, << >>) EXCEPT !.kind = "source"],
   Folding(Contract("h", << >>, << >>), TRUE),
   Folding(Contract("h", << >>, << >>), FALSE)}

MCFolders ==
  UNION {
    {("main" :> Contract("main", uses, s)) @@ ("f" :> f) @@ ("g" :> g) @@ h :
       s \in Sanitizers(uses),
       f \in {Contract("f", u, << >>) : u \in Distinct({"main", "g", "h"}, 2)}
         \cup {Contract("f", <<"g">>, <<[name |-> own, impl |-> "g"]>>) :
                 own \in {"mask", "clean", "h"}},
       g \in {Contract("g", u, << >>) : u \in Distinct({"f", "h"}, 1)},
       h \in {<< >>} \cup {"h" :> leaf : leaf \in Leaves}} :
    uses \in Distinct({"f", "g", "h"}, 2)}

==============================================================================
