---------------------------- MODULE VmSource_proofs ----------------------------
(***************************************************************************)
(* Why all answers of a machine from one source come from one reading of   *)
(* its file, for any number of sources, files, contents and lookups.       *)
(*                                                                         *)
(* Neither property mentions the cache, so neither is inductive: the       *)
(* invariant ties the answers to the cache (TracedToCache), and the cache  *)
(* to what the files held (CacheHeld).                                     *)
(***************************************************************************)
EXTENDS VmSource, TLAPS

Answers ==
  [source : Sources, keys : Keys,
   found : {{}} \cup {Find(data, s, keys) : data \in Contents, s \in Sources, keys \in Keys}]

TypeOK ==
  /\ file \in [Paths -> Contents \cup {Unreadable}]
  /\ cache \in [Sources -> Contents \cup {NotRead}]
  /\ answers \in Seq(Answers)
  /\ held \in [Paths -> SUBSET (Contents \cup {Unreadable})]

(* The answers from source s that came before place n found nothing, the   *)
(* later ones what data holds.                                             *)
From(as, s, n, data) ==
  \A i \in 1 .. Len(as) : as[i].source = s =>
    as[i].found = IF i <= n THEN {} ELSE Find(data, s, as[i].keys)

Traced(as, s, data) ==
  IF data = NotRead THEN \A i \in 1 .. Len(as) : as[i].source = s => as[i].found = {}
  ELSE \E n \in 0 .. Len(as) : From(as, s, n, data)

TracedToCache == \A s \in Sources : Traced(answers, s, cache[s])

CacheHeld ==
  /\ \A p \in Paths : file[p] \in held[p]
  /\ \A s \in Sources : cache[s] # NotRead =>
       /\ Config[s].type = "file"
       /\ Config[s].path \in Paths /\ cache[s] \in held[Config[s].path]

IInv == TypeOK /\ TracedToCache /\ CacheHeld

------------------------------------------------------------------------------
LEMMA KindsApart == Unreadable # NotRead
  BY DEF Unreadable, NotRead

(* A machine without answers and without data.                             *)
LEMMA NothingTraced == \A s \in Sources : Traced(<< >>, s, NotRead)
<1>1. \A i \in 1 .. Len(<< >>) : FALSE
    OBVIOUS
<1>q. QED
    BY <1>1 DEF Traced

LEMMA Initially == Init => IInv
<1> SUFFICES ASSUME Init PROVE IInv
    OBVIOUS
<1>1. TypeOK
    BY DEF Init, TypeOK, NoData, HeldNow, Answers
<1>2. TracedToCache
    BY NothingTraced DEF Init, TracedToCache, NoData
<1>3. CacheHeld
    BY DEF Init, CacheHeld, NoData, HeldNow
<1>q. QED
    BY <1>1, <1>2, <1>3 DEF IInv

(* What a lookup searches is the cache's, or is read from the source's     *)
(* file now; and the cache is that, afterwards.                            *)
LEMMA ResolvedCases ==
  ASSUME TypeOK, CacheHeld, NEW s \in Sources
  PROVE  /\ Resolved(s) \in Contents \cup {NotRead}
         /\ Resolved(s) # NotRead =>
              Config[s].path \in Paths /\ Resolved(s) \in held[Config[s].path]
         /\ cache[s] # NotRead => Resolved(s) = cache[s]
<1>1. Config[s].path \in Paths \cup {""}
    BY ConfigAssumption
<1>2. CASE cache[s] # NotRead
    BY <1>2 DEF Resolved, TypeOK, CacheHeld
<1>3. CASE cache[s] = NotRead /\ Config[s].path # "" /\ file[Config[s].path] # Unreadable
    BY <1>1, <1>3 DEF Resolved, TypeOK, CacheHeld
<1>4. CASE cache[s] = NotRead /\ ~(Config[s].path # "" /\ file[Config[s].path] # Unreadable)
    BY <1>4 DEF Resolved
<1>q. QED
    BY <1>2, <1>3, <1>4

LEMMA AppendOne ==
  ASSUME NEW T, NEW seq \in Seq(T), NEW e \in T
  PROVE  /\ Len(seq) \in Nat /\ Len(Append(seq, e)) = Len(seq) + 1
         /\ Append(seq, e)[Len(seq) + 1] = e
         /\ \A i \in 1 .. Len(seq) : Append(seq, e)[i] = seq[i]
  OBVIOUS

LEMMA OnePlaceMore ==
  ASSUME NEW l \in Nat, NEW m, m = l + 1
  PROVE  /\ \A i \in 1 .. m : i \in 1 .. l \/ (i = l + 1 /\ ~(i <= l))
         /\ \A n \in 0 .. l : n \in 0 .. m /\ ~(l + 1 <= n)
         /\ l \in 0 .. l /\ \A i \in 1 .. l : i <= l
  OBVIOUS

(* An answer more, from a source whose data may have been read for it.     *)
LEMMA TracedOneMore ==
  ASSUME NEW log \in Seq(Answers), NEW s \in Sources, NEW before, NEW after, NEW a \in Answers,
         Traced(log, s, before),
         before # NotRead => after = before,
         a.source = s =>
           a.found = IF after = NotRead THEN {} ELSE Find(after, s, a.keys),
         a.source # s => after = before
  PROVE  Traced(Append(log, a), s, after)
<1> DEFINE more == Append(log, a)
           l == Len(log)
<1>1. /\ l \in Nat /\ Len(more) = l + 1 /\ more[l + 1] = a
      /\ \A i \in 1 .. l : more[i] = log[i]
    BY AppendOne, SMTT(20)
<1> HIDE DEF l, more
<1>3. /\ \A i \in 1 .. Len(more) : i \in 1 .. l \/ (i = l + 1 /\ ~(i <= l))
      /\ \A n \in 0 .. l : n \in 0 .. Len(more) /\ ~(l + 1 <= n)
      /\ l \in 0 .. l /\ \A i \in 1 .. l : i <= l
    BY <1>1, OnePlaceMore
<1>4. CASE after = NotRead
  <2>1. before = NotRead
      BY <1>4
  <2>2. \A i \in 1 .. Len(more) : more[i].source = s => more[i].found = {}
      BY <1>1, <1>3, <1>4, <2>1 DEF Traced, l
  <2>q. QED
      BY <1>4, <2>2 DEF Traced, more
<1>5. CASE after # NotRead /\ before = NotRead
  <2>1. a.source = s
      BY <1>5
  <2>2. From(more, s, l, after)
      BY <1>1, <1>3, <1>5, <2>1 DEF From, Traced, l
  <2>3. l \in 0 .. Len(more)
      BY <1>3
  <2>q. QED
      BY <1>5, <2>2, <2>3 DEF Traced, more
<1>6. CASE after # NotRead /\ before # NotRead
  <2>1. PICK n \in 0 .. l : From(log, s, n, before)
      BY <1>6 DEF Traced, l
  <2>2. From(more, s, n, after)
      BY <1>1, <1>3, <1>6, <2>1 DEF From, l
  <2>3. n \in 0 .. Len(more)
      BY <1>3
  <2>q. QED
      BY <1>6, <2>2, <2>3 DEF Traced, more
<1>q. QED
    BY <1>4, <1>5, <1>6

LEMMA LookupKeeps ==
  ASSUME IInv, NEW s \in Sources, NEW keys \in Keys, Lookup(s, keys)
  PROVE  IInv'
<1> DEFINE searched == IF Config[s].type = "file" THEN Resolved(s) ELSE NotRead
           found == IF searched # NotRead THEN Find(searched, s, keys) ELSE {}
           a == [source |-> s, keys |-> keys, found |-> found]
<1>1. /\ Resolved(s) \in Contents \cup {NotRead}
      /\ Resolved(s) # NotRead =>
           Config[s].path \in Paths /\ Resolved(s) \in held[Config[s].path]
      /\ cache[s] # NotRead => Resolved(s) = cache[s]
    BY ResolvedCases DEF IInv
<1>2. answers' = Append(answers, a) /\ UNCHANGED <<file, held>>
    BY DEF Lookup
<1>3. found \in {{}} \cup {Find(data, t, k) : data \in Contents, t \in Sources, k \in Keys}
    BY <1>1
<1>4. a \in Answers
    BY <1>3 DEF Answers
<1>5. cache' = IF Config[s].type = "file" THEN [cache EXCEPT ![s] = Resolved(s)] ELSE cache
    BY DEF Lookup, CacheData
<1>6. cache' \in [Sources -> Contents \cup {NotRead}]
    BY <1>1, <1>5 DEF IInv, TypeOK
<1>7. cache'[s] = searched
    BY <1>5 DEF IInv, TypeOK, CacheHeld
<1>8. \A t \in Sources \ {s} : cache'[t] = cache[t]
    BY <1>5 DEF IInv, TypeOK
<1> HIDE DEF searched, found
<1>9. TypeOK'
    BY <1>2, <1>4, <1>6 DEF IInv, TypeOK
<1>10. ASSUME NEW t \in Sources PROVE Traced(Append(answers, a), t, cache'[t])
  <2>1. answers \in Seq(Answers) /\ Traced(answers, t, cache[t])
      BY DEF IInv, TypeOK, TracedToCache
  <2>2. cache[t] # NotRead => cache'[t] = cache[t]
      BY <1>1, <1>7, <1>8 DEF searched, IInv, CacheHeld
  <2>3. a.source = t => a.found = IF cache'[t] = NotRead THEN {} ELSE Find(cache'[t], t, a.keys)
      BY <1>7 DEF found
  <2>4. a.source # t => cache'[t] = cache[t]
      BY <1>8
  <2>q. QED
      BY <1>4, <2>1, <2>2, <2>3, <2>4, TracedOneMore
<1>11. TracedToCache'
    BY <1>2, <1>10 DEF TracedToCache
<1>12. CacheHeld'
    BY <1>1, <1>2, <1>7, <1>8 DEF searched, IInv, CacheHeld
<1>q. QED
    BY <1>9, <1>11, <1>12 DEF IInv

LEMMA VmInitKeeps ==
  ASSUME IInv, VmInit
  PROVE  IInv'
<1>1. TypeOK'
    BY DEF IInv, TypeOK, VmInit, NoData, HeldNow, Answers
<1>2. TracedToCache'
    BY NothingTraced DEF VmInit, TracedToCache, NoData
<1>3. CacheHeld'
    BY DEF VmInit, CacheHeld, NoData, HeldNow
<1>q. QED
    BY <1>1, <1>2, <1>3 DEF IInv

LEMMA ChangeFileKeeps ==
  ASSUME IInv, NEW p \in Paths, NEW c \in Contents \cup {Unreadable}, ChangeFile(p, c)
  PROVE  IInv'
<1>1. TypeOK'
    BY DEF IInv, TypeOK, ChangeFile
<1>2. TracedToCache'
    BY DEF IInv, ChangeFile, TracedToCache
<1>3. CacheHeld'
    BY DEF IInv, TypeOK, ChangeFile, CacheHeld
<1>q. QED
    BY <1>1, <1>2, <1>3 DEF IInv

THEOREM Invariant == Spec => []IInv
<1>1. IInv /\ [Next]_vars => IInv'
  <2> SUFFICES ASSUME IInv, [Next]_vars PROVE IInv'
      OBVIOUS
  <2>1. ASSUME NEW s \in Sources, NEW keys \in Keys, Lookup(s, keys) PROVE IInv'
      BY <2>1, LookupKeeps
  <2>2. CASE VmInit
      BY <2>2, VmInitKeeps
  <2>3. ASSUME NEW p \in Paths, NEW c \in Contents \cup {Unreadable}, ChangeFile(p, c) PROVE IInv'
      BY <2>3, ChangeFileKeeps
  <2>4. CASE UNCHANGED vars
      BY <2>4 DEF vars, IInv, TypeOK, TracedToCache, CacheHeld
  <2>q. QED
      BY <2>1, <2>2, <2>3, <2>4 DEF Next
<1>q. QED
    BY Initially, <1>1, PTL DEF Spec

------------------------------------------------------------------------------
(* The answers of a machine from a source are from one reading of its file *)
(* (resolve_file, src/src/vm_source.c:68-117).                             *)
THEOREM AnswersFromOneReading == Spec => []OneReading
<1>1. IInv => OneReading
  <2> SUFFICES ASSUME IInv, NEW s \in Sources
               PROVE  \E n \in 0 .. Len(answers), data \in Contents : \A i \in DOMAIN answers :
                        answers[i].source = s =>
                          answers[i].found = IF i <= n THEN {} ELSE Find(data, s, answers[i].keys)
      BY DEF OneReading
  <2>1. answers \in Seq(Answers) /\ cache[s] \in Contents \cup {NotRead} /\ Traced(answers, s, cache[s])
      BY DEF IInv, TypeOK, TracedToCache
  <2>2. DOMAIN answers = 1 .. Len(answers) /\ Len(answers) \in Nat
      BY <2>1
  <2>3. CASE cache[s] = NotRead
    <3>1. PICK data : data \in Contents
        BY ContentsAssumption
    <3>2. Len(answers) \in 0 .. Len(answers)
        BY <2>2
    <3>3. \A i \in DOMAIN answers : answers[i].source = s =>
            answers[i].found = IF i <= Len(answers) THEN {} ELSE Find(data, s, answers[i].keys)
        BY <2>1, <2>2, <2>3 DEF Traced
    <3>q. QED
        BY <3>1, <3>2, <3>3
  <2>4. CASE cache[s] # NotRead
    <3>1. PICK n \in 0 .. Len(answers) : From(answers, s, n, cache[s])
        BY <2>1, <2>4 DEF Traced
    <3>2. cache[s] \in Contents
        BY <2>1, <2>4
    <3>q. QED
        BY <2>2, <3>1, <3>2 DEF From
  <2>q. QED
      BY <2>3, <2>4
<1>q. QED
    BY Invariant, <1>1, PTL

(* What a machine answers was in the source's file since the machine began *)
(* (vm_init, src/src/vm.c:528-536, gives it an empty cache).               *)
THEOREM AnswersNotOlder == Spec => []NothingOlder
<1>1. IInv => NothingOlder
  <2> SUFFICES ASSUME IInv, NEW i \in DOMAIN answers, answers[i].found # {}
               PROVE  \E data \in held[Config[answers[i].source].path] \ {Unreadable} :
                        answers[i].found = Find(data, answers[i].source, answers[i].keys)
      BY DEF NothingOlder
  <2> DEFINE s == answers[i].source
  <2>1. answers \in Seq(Answers) /\ i \in 1 .. Len(answers) /\ answers[i] \in Answers
      BY DEF IInv, TypeOK
  <2>2. s \in Sources
      BY <2>1 DEF Answers
  <2>3. Traced(answers, s, cache[s]) /\ cache[s] \in Contents \cup {NotRead}
      BY <2>2 DEF IInv, TypeOK, TracedToCache
  <2>4. cache[s] # NotRead
      BY <2>1, <2>3 DEF Traced
  <2>5. answers[i].found = Find(cache[s], s, answers[i].keys)
      BY <2>1, <2>3, <2>4 DEF Traced, From
  <2>6. cache[s] \in held[Config[s].path] /\ cache[s] # Unreadable
      BY <2>2, <2>3, <2>4, ContentsAssumption DEF IInv, CacheHeld
  <2>q. QED
      BY <2>5, <2>6
<1>q. QED
    BY Invariant, <1>1, PTL

==============================================================================
