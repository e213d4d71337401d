-------------------------------- MODULE VmSource --------------------------------
(***************************************************************************)
(* Lookups in source files, while the files change: vm_source_resolve and  *)
(* the cache of each machine.  A file that was read once is not read again *)
(* by the same machine; one that could not be read is tried again.         *)
(***************************************************************************)
EXTENDS Naturals, Sequences

CONSTANTS
  Sources,     \* the indices of a packet's sources
  Config,      \* source -> [type, path, collection, keyedBy], "" if missing
  Paths,       \* external: the files
  Contents,    \* external: what a file may hold, as json_parse makes it
  Keys,        \* the key records of the lookups
  MaxLookups   \* bound: the lookups of one machine


VARIABLES
  file,        \* what each file holds
  cache,       \* source_cache of the machine
  answers,     \* history: the machine's lookups, as [source, keys, found]
  held         \* history: what each file has held since the machine began

vars == <<file, cache, answers, held>>

(* A file that is not there or is no JSON, and a source not yet read.      *)
Unreadable == [kind |-> "unreadable"]
NotRead    == [kind |-> "notRead"]

ASSUME ConfigAssumption == \A s \in Sources : Config[s].path \in Paths \cup {""}
ASSUME ContentsAssumption == Contents # {} /\ Contents \cap {Unreadable, NotRead} = {}

(* A list of records, and a record of such lists.                          *)
JsonList(items)    == [kind |-> "list", items |-> items]
JsonRecord(fields) == [kind |-> "record", fields |-> fields]

------------------------------------------------------------------------------
(* The list to search, if the source names a collection or not.            *)
Rows(data, collection) ==
  IF data.kind = "list" THEN data.items
  ELSE IF collection \in DOMAIN data.fields /\ data.fields[collection].kind = "list"
  THEN data.fields[collection].items ELSE << >>

(* Only fields that hold a string are in the domain of a record here.      *)
SameKey(item, keys, field) ==
  field \in DOMAIN item /\ field \in DOMAIN keys /\ item[field] = keys[field]

(* The first record with the key, or none.                                 *)
Find(data, s, keys) ==
  LET rows == Rows(data, Config[s].collection)
      hits == {i \in DOMAIN rows : SameKey(rows[i], keys, Config[s].keyedBy)}
  IN  {rows[i] : i \in {i \in hits : \A j \in hits : i <= j}}

(* What resolve_file has before it looks for the record.                   *)
Resolved(s) ==
  IF cache[s] # NotRead THEN cache[s]
  ELSE IF Config[s].path # "" /\ file[Config[s].path] # Unreadable
  THEN file[Config[s].path] ELSE NotRead

(* A faulty variant: what was read is not stored.                          *)
CacheNothing(s) == UNCHANGED cache

CacheData(s) == cache' = [cache EXCEPT ![s] = Resolved(s)]

(* Any type but "file" finds nothing, and reads nothing.                   *)
Lookup(s, keys) ==
  /\ Len(answers) < MaxLookups
  /\ IF Config[s].type = "file" THEN CacheData(s) ELSE UNCHANGED cache
  /\ answers' = Append(answers,
       [source |-> s, keys |-> keys,
        found |-> IF Config[s].type = "file" /\ Resolved(s) # NotRead
                  THEN Find(Resolved(s), s, keys) ELSE {}])
  /\ UNCHANGED <<file, held>>

NoData == [s \in Sources |-> NotRead]
HeldNow == [p \in Paths |-> {file[p]}]

(* A faulty variant: the new machine takes the cache over.                 *)
VmInitKeepsCache ==
  /\ answers' = << >> /\ held' = HeldNow
  /\ UNCHANGED <<file, cache>>

(* vm_init: the packet is executed once more, with a cache of its own.     *)
VmInit ==
  /\ cache' = NoData /\ answers' = << >> /\ held' = HeldNow
  /\ UNCHANGED file

(* Someone writes, replaces or removes a file.                             *)
ChangeFile(p, c) ==
  /\ file' = [file EXCEPT ![p] = c]
  /\ held' = [held EXCEPT ![p] = @ \cup {c}]
  /\ UNCHANGED <<cache, answers>>

Init ==
  /\ file \in [Paths -> Contents \cup {Unreadable}]
  /\ cache = NoData /\ answers = << >> /\ held = HeldNow

Next ==
  \/ \E s \in Sources, keys \in Keys : Lookup(s, keys)
  \/ VmInit
  \/ \E p \in Paths, c \in Contents \cup {Unreadable} : ChangeFile(p, c)

Spec == Init /\ [][Next]_vars

------------------------------------------------------------------------------
(* All answers one machine gives from a source are from one reading of its *)
(* file: nothing at first, while the file could not be read, and from then *)
(* on what the same contents hold, whatever becomes of the file.           *)
OneReading ==
  \A s \in Sources :
    \E n \in 0 .. Len(answers), data \in Contents : \A i \in DOMAIN answers :
      answers[i].source = s =>
        answers[i].found = IF i <= n THEN {} ELSE Find(data, s, answers[i].keys)

(* No machine answers with what the file held before the machine began,    *)
(* although the machine before it may have read that.                      *)
NothingOlder ==
  \A i \in DOMAIN answers : answers[i].found # {} =>
    \E data \in held[Config[answers[i].source].path] \ {Unreadable} :
      answers[i].found = Find(data, answers[i].source, answers[i].keys)

==============================================================================
