------------------------------- MODULE MCVmSource ------------------------------
(***************************************************************************)
(* Two sources in one file, and three that can find nothing: one without   *)
(* path, one of another type, one whose collection is missing.             *)
(***************************************************************************)
EXTENDS VmSource

Source(type, path, collection, keyedBy) ==
  [type |-> type, path |-> path, collection |-> collection, keyedBy |-> keyedBy]

MCConfig ==
  <<Source("file", "people", "rows", "id"), Source("file", "people", "", "id"),
    Source("file", "", "", "id"), Source("http", "people", "", "id"),
    Source("file", "people", "other", "name")>>

A1 == [id |-> "a", v |-> "1"]   A2 == [id |-> "a", v |-> "2"]   B1 == [id |-> "b", v |-> "1"]
MCContents ==
  {JsonList(<<A1, B1>>), JsonList(<<[v |-> "3"], A2, A1>>),
   JsonRecord([rows |-> JsonList(<<B1>>)])}
MCKeys == {[id |-> "a"], [id |-> "b"], [v |-> "a"]}

==============================================================================
