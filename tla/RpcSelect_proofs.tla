--------------------------- MODULE RpcSelect_proofs ---------------------------
(***************************************************************************)
(* What holds of RpcSelect for every set of endpoints, hosts and domains.  *)
(***************************************************************************)
EXTENDS RpcSelect, FiniteSetTheorems, TLAPS

Appending == {"load", "append", "store"}

\* The healthy endpoints whose probes have computed a new length.
Writers == {e \in verified : pc[e] \in {"store", "done"}}

\* Probes append the endpoints they have verified, one element each.
OneElementEach ==
    /\ \A e \in Endpoints : pc[e] \in Appending => e \in verified
    /\ \A e \in verified : pc[e] \in Appending \cup {"done"}
    /\ \A e \in Endpoints : pc[e] = "load" => todo[e] \subseteq Words
    /\ header["len"] <= Cardinality(Writers)
    /\ \A e \in Endpoints : regs[e]["len"] <= Cardinality(Writers)

\* A length that was computed is positive, and so is the slice's from then on.
Counted ==
    /\ \A e \in Endpoints : pc[e] = "store" => regs[e]["len"] >= 1
    /\ \A e \in verified :
          pc[e] = "done" \/ (pc[e] = "store" /\ "len" \notin todo[e]) => header["len"] >= 1

\* The arrays hold nothing but what has been verified, or read outside of them.
Provenance ==
    \A e \in Endpoints, i \in Slots, h \in Halves : array[e][i][h] \in verified \cup {Nil, Outside}

\* Outside of a scan no probe runs.
Quiet ==
    /\ stage \notin Scans => \A e \in Endpoints : pc[e] \in {"idle", "done"}
    /\ stage \in {"start", "assets"} => verified = {}

\* A call has an outcome when it is done.
OutcomeAtEnd == outcome = Pending <=> stage # "done"

\* An error means that the last scan has found no healthy endpoint, even if races
\* have torn its slice.
FailureIsReal == outcome = Failed => verified = {}

\* What is returned is made of what the last scan has verified, of nothing, or of
\* memory outside of its slice.
ResultSources ==
    outcome \in Strings => \A h \in Halves : outcome[h] \in verified \cup {Nil, Outside}

\* Two healthy endpoints in a scan are needed for the races to do harm: to end the
\* process, to change other memory, or to return a string that is no endpoint's.
HarmNeedsTwo ==
    fault \/ outcome \in Strings \ {Whole(e) : e \in Endpoints}
        => \E d, e \in verified : d # e

\* What is returned is an endpoint the last scan has verified; only with two of them
\* it may be made of halves, be empty or come from other memory.
ResultIsVerified ==
    outcome \in Strings =>
        \/ \E e \in verified : outcome = Whole(e)
        \/ /\ \E d, e \in verified : d # e
           /\ \A h \in Halves : outcome[h] \in verified \cup {Nil, Outside}

IInv == TypeOK /\ OneElementEach /\ Counted /\ Provenance /\ Quiet /\ OutcomeAtEnd
          /\ FailureIsReal /\ ResultSources

USE EndpointsAssumption DEF EndpointsAssumption

LEMMA EmptyTypes ==
    /\ NilSlice \in Headers /\ NilSlice["len"] = 0
    /\ EmptyString \in Strings
    /\ NoArray \in [Slots -> Strings]
<1>1. Cardinality(Endpoints) \in Nat
    BY FS_CardinalityType
<1>2. /\ NilSlice["ptr"] = Nil /\ NilSlice["len"] = 0 /\ NilSlice["cap"] = 0
      /\ NilSlice \in [Words -> Nat \cup Endpoints \cup {Nil}]
    BY DEF NilSlice, Words
<1>3. NilSlice \in Headers
    BY <1>1, <1>2 DEF Headers
<1>4. EmptyString \in Strings
    BY DEF EmptyString, Whole, Strings
<1> QED
    BY <1>2, <1>3, <1>4 DEF NoArray

\* A new scan starts from nothing.
Fresh ==
    /\ pc \in [Endpoints -> {"idle", "probe"}]
    /\ verified = {}
    /\ header = NilSlice
    /\ array = [e \in Endpoints |-> NoArray]
    /\ size = [e \in Endpoints |-> 0]
    /\ regs = [e \in Endpoints |-> NilSlice]
    /\ todo = [e \in Endpoints |-> {}]

ScanTypes ==
    /\ pc \in [Endpoints -> {"idle", "probe", "load", "append", "store", "done"}]
    /\ verified \in SUBSET Endpoints
    /\ header \in Headers
    /\ array \in [Endpoints -> [Slots -> Strings]]
    /\ size \in [Endpoints -> Nat]
    /\ regs \in [Endpoints -> Headers]
    /\ todo \in [Endpoints -> SUBSET (Words \cup Halves)]
    /\ fault \in BOOLEAN

ScanInv == ScanTypes /\ OneElementEach /\ Counted /\ Provenance

LEMMA FreshScan == Fresh /\ fault \in BOOLEAN => ScanInv
<1> SUFFICES ASSUME Fresh, fault \in BOOLEAN PROVE ScanInv
    OBVIOUS
<1>1. ScanTypes
    BY EmptyTypes, Zenon DEF Fresh, ScanTypes
<1>2. Writers = {}
    BY DEF Fresh, Writers
<1>3. header["len"] <= Cardinality(Writers) /\ \A e \in Endpoints : regs[e]["len"] <= Cardinality(Writers)
    BY <1>2, EmptyTypes, FS_EmptySet DEF Fresh
<1>4. OneElementEach
    BY <1>3 DEF OneElementEach, Fresh, Appending
<1>5. Counted
    BY DEF Counted, Fresh
<1>6. Provenance
    BY DEF Provenance, Fresh, NoArray, EmptyString, Whole
<1> QED
    BY <1>1, <1>4, <1>5, <1>6 DEF ScanInv

\* One word of a header may come from another.
LEMMA TornHeader ==
    ASSUME NEW r \in Headers, NEW s \in Headers, NEW w \in Words \cup Halves
    PROVE  [r EXCEPT ![w] = s[w]] \in Headers
<1>1. CASE w = "ptr"
    BY <1>1 DEF Headers, Words
<1>2. CASE w = "len"
    BY <1>2 DEF Headers, Words
<1>3. CASE w = "cap"
    BY <1>3 DEF Headers, Words
<1>4. CASE w \in Halves
  <2>1. w \notin Words
      BY <1>4 DEF Words, Halves
  <2>2. [r EXCEPT ![w] = s[w]] = r
      BY <2>1 DEF Headers
  <2> QED
      BY <2>2
<1> QED
    BY <1>1, <1>2, <1>3, <1>4 DEF Words

\* There is room for one more length than there are writers.
LEMMA WritersBound ==
    ASSUME ScanTypes
    PROVE  /\ IsFiniteSet(Writers) /\ Cardinality(Writers) \in Nat
           /\ Cardinality(Endpoints) \in Nat
           /\ Cardinality(Writers) <= Cardinality(Endpoints)
           /\ \A e \in verified : e \notin Writers =>
                 /\ Cardinality(Writers \cup {e}) = Cardinality(Writers) + 1
                 /\ Cardinality(Writers) + 1 <= Cardinality(Endpoints)
<1>1. Writers \subseteq Endpoints
    BY DEF Writers, ScanTypes
<1>2. /\ IsFiniteSet(Writers)
      /\ Cardinality(Writers) <= Cardinality(Endpoints)
    BY <1>1, FS_Subset
<1>3. Cardinality(Writers) \in Nat /\ Cardinality(Endpoints) \in Nat
    BY <1>2, FS_CardinalityType
<1>4. ASSUME NEW e \in verified, e \notin Writers
      PROVE  /\ Cardinality(Writers \cup {e}) = Cardinality(Writers) + 1
             /\ Cardinality(Writers) + 1 <= Cardinality(Endpoints)
  <2>1. Cardinality(Writers \cup {e}) = Cardinality(Writers) + 1
      BY <1>2, <1>4, FS_AddElement
  <2>2. Writers \cup {e} \subseteq Endpoints
      BY <1>1 DEF ScanTypes
  <2>3. Cardinality(Writers \cup {e}) <= Cardinality(Endpoints)
      BY <2>2, FS_Subset
  <2> QED
      BY <2>1, <2>3
<1> QED
    BY <1>2, <1>3, <1>4

\* A probe that takes longer to append, or ends, leaves the writers there are.
LEMMA MoreWriters ==
    ASSUME ScanTypes, OneElementEach, NEW e \in Endpoints, ProbeStep(e), ScanTypes'
    PROVE  /\ verified \subseteq verified'
           /\ \A d \in Endpoints : d # e => pc'[d] = pc[d] /\ todo'[d] = todo[d] /\ regs'[d] = regs[d]
           /\ Writers \subseteq Writers'
           /\ Cardinality(Writers') \in Nat
           /\ Cardinality(Writers) <= Cardinality(Writers')
<1>1. /\ verified \subseteq verified'
      /\ \A d \in Endpoints : d # e => pc'[d] = pc[d] /\ todo'[d] = todo[d] /\ regs'[d] = regs[d]
    BY DEF ProbeStep, Probe, Load, AppendInPlace, AppendGrowing, StoreHeader, StoreElement,
           Tick, ScanTypes
<1>2. e \in Writers => pc'[e] \in {"store", "done"}
    BY DEF ProbeStep, Probe, Load, AppendInPlace, AppendGrowing, StoreHeader, StoreElement,
           Tick, ScanTypes, Writers
<1>3. Writers \subseteq Writers'
    BY <1>1, <1>2 DEF Writers, ScanTypes
<1>4. IsFiniteSet(Writers') /\ Cardinality(Writers') \in Nat
  <2>1. Writers' \subseteq Endpoints
      BY DEF Writers, ScanTypes
  <2> QED
      BY <2>1, FS_Subset, FS_CardinalityType
<1>5. Cardinality(Writers) <= Cardinality(Writers')
    BY <1>3, <1>4, FS_Subset
<1> QED
    BY <1>1, <1>3, <1>4, <1>5

LEMMA TickTypes ==
    ASSUME ScanTypes, NEW e \in Endpoints, NEW w, NEW next \in {"append", "done"}, Tick(e, w, next)
    PROVE  /\ pc' \in [Endpoints -> {"idle", "probe", "load", "append", "store", "done"}]
           /\ todo' \in [Endpoints -> SUBSET (Words \cup Halves)]
<1>1. pc' = [pc EXCEPT ![e] = pc[e]] \/ pc' = [pc EXCEPT ![e] = next]
    BY DEF Tick
<1>2. todo' = [todo EXCEPT ![e] = todo[e] \ {w}]
    BY DEF Tick
<1> QED
    BY <1>1, <1>2 DEF ScanTypes

\* Half an element is stored.
LEMMA CellStored ==
    ASSUME NEW a \in [Endpoints -> [Slots -> Strings]], NEW p \in Endpoints, NEW i,
           NEW h \in Halves, NEW e \in Endpoints
    PROVE  [a EXCEPT ![p][i][h] = e] \in [Endpoints -> [Slots -> Strings]]
<1>1. [a[p] EXCEPT ![i] = [a[p][i] EXCEPT ![h] = e]] \in [Slots -> Strings]
  <2>1. CASE i \in Slots
    <3>1. a[p][i] \in Strings
        BY <2>1
    <3>2. [a[p][i] EXCEPT ![h] = e] \in Strings
        BY <3>1 DEF Strings
    <3> QED
        BY <2>1, <3>2
  <2>2. CASE i \notin Slots
      BY <2>2
  <2> QED
      BY <2>1, <2>2
<1> QED
    BY <1>1

\* What a read through another pointer than the nil pointer yields.
LEMMA ElementType ==
    ASSUME ScanTypes, NEW p \in Endpoints, NEW i \in Slots
    PROVE  Element(p, i) \in Strings
<1>1. Whole(Outside) \in Strings
    BY DEF Whole, Strings
<1> QED
    BY <1>1 DEF Element, ScanTypes

LEMMA StepTypes ==
    ASSUME ScanTypes, OneElementEach, NEW e \in Endpoints, ProbeStep(e)
    PROVE  ScanTypes'
<1> USE DEF ScanTypes
<1>1. CASE Probe(e)
  <2>1. pc' \in [Endpoints -> {"idle", "probe", "load", "append", "store", "done"}]
      BY <1>1 DEF Probe
  <2>2. verified' \in SUBSET Endpoints
      BY <1>1 DEF Probe
  <2>3. todo' \in [Endpoints -> SUBSET (Words \cup Halves)]
      BY <1>1 DEF Probe
  <2> QED
      BY <1>1, <2>1, <2>2, <2>3, Zenon DEF Probe
<1>2. CASE Load(e)
  <2>1. PICK w \in todo[e] : regs' = [regs EXCEPT ![e][w] = header[w]] /\ Tick(e, w, "append")
      BY <1>2 DEF Load
  <2>2. regs' \in [Endpoints -> Headers]
      BY <2>1, TornHeader
  <2>3. /\ pc' \in [Endpoints -> {"idle", "probe", "load", "append", "store", "done"}]
        /\ todo' \in [Endpoints -> SUBSET (Words \cup Halves)]
      BY <2>1, TickTypes
  <2> QED
      BY <1>2, <2>2, <2>3, Zenon DEF Load
<1>3. CASE AppendInPlace(e)
  <2>1. e \in verified /\ e \notin Writers
      BY <1>3 DEF AppendInPlace, OneElementEach, Appending, Writers
  <2>2. regs[e]["len"] + 1 \in 0..Cardinality(Endpoints)
    <3>1. regs[e]["len"] \in Nat
        BY WritersBound DEF Headers
    <3>2. regs[e]["len"] <= Cardinality(Writers)
        BY DEF OneElementEach
    <3> QED
      <4>1. /\ Cardinality(Writers) + 1 <= Cardinality(Endpoints)
            /\ Cardinality(Writers) \in Nat /\ Cardinality(Endpoints) \in Nat
          BY <2>1, WritersBound
      <4> QED
          BY <3>1, <3>2, <4>1
  <2>3. regs' \in [Endpoints -> Headers]
      BY <1>3, <2>2 DEF AppendInPlace, Headers, Words
  <2>4. /\ pc' \in [Endpoints -> {"idle", "probe", "load", "append", "store", "done"}]
        /\ todo' \in [Endpoints -> SUBSET (Words \cup Halves)]
      BY <1>3 DEF AppendInPlace, Words
  <2> QED
      BY <1>3, <2>3, <2>4, Zenon DEF AppendInPlace
<1>4. CASE AppendGrowing(e)
  <2>1. CASE fault' = TRUE /\ UNCHANGED <<pc, array, size, regs, todo, verified, header>>
      BY <2>1, Zenon
  <2>2. CASE (regs[e]["len"] = 0 \/ regs[e]["ptr"] # Nil) /\ UNCHANGED fault
    <3>1. e \in verified /\ e \notin Writers
        BY <1>4 DEF AppendGrowing, OneElementEach, Appending, Writers
    <3>2. regs[e] \in Headers /\ regs[e]["len"] \in Nat /\ regs[e]["cap"] \in Nat
        BY <3>1, WritersBound DEF Headers
    <3>3. regs[e]["len"] + 1 \in 0..Cardinality(Endpoints)
      <4>1. regs[e]["len"] <= Cardinality(Writers)
          BY DEF OneElementEach
      <4>2. /\ Cardinality(Writers) + 1 <= Cardinality(Endpoints)
            /\ Cardinality(Writers) \in Nat /\ Cardinality(Endpoints) \in Nat
          BY <3>1, WritersBound
      <4> QED
          BY <3>2, <4>1, <4>2
    <3>4. NewCap(regs[e]["cap"], regs[e]["len"] + 1) \in Nat
        BY <3>2 DEF NewCap
    <3>5. regs' \in [Endpoints -> Headers]
        BY <1>4, <2>2, <3>3, <3>4 DEF AppendGrowing, Headers, Words
    <3>6. size' \in [Endpoints -> Nat]
      <4>1. size' = [size EXCEPT ![e] = NewCap(regs[e]["cap"], regs[e]["len"] + 1)]
          BY <1>4, <2>2 DEF AppendGrowing
      <4> QED
          BY <3>4, <4>1
    <3>7. array' \in [Endpoints -> [Slots -> Strings]]
      <4>1. [i \in Slots |-> IF i <= regs[e]["len"] THEN Element(regs[e]["ptr"], i) ELSE EmptyString]
              \in [Slots -> Strings]
        <5> SUFFICES ASSUME NEW i \in Slots
                     PROVE  (IF i <= regs[e]["len"] THEN Element(regs[e]["ptr"], i) ELSE EmptyString)
                              \in Strings
            OBVIOUS
        <5>1. CASE i <= regs[e]["len"]
          <6>1. regs[e]["ptr"] \in Endpoints
              BY <2>2, <3>2, <5>1 DEF Headers, Slots
          <6> QED
              BY <5>1, <6>1, ElementType
        <5>2. CASE ~(i <= regs[e]["len"])
            BY <5>2, EmptyTypes
        <5> QED
            BY <5>1, <5>2
      <4>2. array' = [array EXCEPT ![e] = [i \in Slots |->
                IF i <= regs[e]["len"] THEN Element(regs[e]["ptr"], i) ELSE EmptyString]]
          BY <1>4, <2>2 DEF AppendGrowing
      <4> QED
          BY <4>1, <4>2
    <3>8. /\ pc' \in [Endpoints -> {"idle", "probe", "load", "append", "store", "done"}]
          /\ todo' \in [Endpoints -> SUBSET (Words \cup Halves)]
      <4>1. /\ pc' = [pc EXCEPT ![e] = "store"]
            /\ todo' = [todo EXCEPT ![e] = Words \cup Halves]
          BY <1>4, <2>2, Zenon DEF AppendGrowing
      <4> QED
          BY <4>1
    <3> QED
        BY <1>4, <2>2, <3>5, <3>6, <3>7, <3>8, Zenon DEF AppendGrowing
  <2> QED
      BY <1>4, <2>1, <2>2 DEF AppendGrowing
<1>5. CASE StoreHeader(e)
  <2>1. PICK w \in todo[e] \cap Words : header' = [header EXCEPT ![w] = regs[e][w]] /\ Tick(e, w, "done")
      BY <1>5 DEF StoreHeader
  <2>2. header' \in Headers
      BY <2>1, TornHeader
  <2>3. /\ pc' \in [Endpoints -> {"idle", "probe", "load", "append", "store", "done"}]
        /\ todo' \in [Endpoints -> SUBSET (Words \cup Halves)]
      BY <2>1, TickTypes
  <2> QED
      BY <1>5, <2>2, <2>3, Zenon DEF StoreHeader
<1>6. CASE StoreElement(e)
  <2>1. CASE fault' = TRUE /\ UNCHANGED <<pc, array, size, regs, todo, verified, header>>
      BY <2>1, Zenon
  <2>2. ASSUME NEW h \in todo[e] \cap Halves,
               array' = [array EXCEPT ![regs[e]["ptr"]][regs[e]["len"]][h] = e],
               Tick(e, h, "done"), UNCHANGED fault
        PROVE  ScanTypes'
    <3>1. array' \in [Endpoints -> [Slots -> Strings]]
      <4>1. CASE regs[e]["ptr"] \in Endpoints
          BY <2>2, <4>1, CellStored
      <4>2. CASE regs[e]["ptr"] \notin Endpoints
          BY <2>2, <4>2
      <4> QED
          BY <4>1, <4>2
    <3>2. /\ pc' \in [Endpoints -> {"idle", "probe", "load", "append", "store", "done"}]
          /\ todo' \in [Endpoints -> SUBSET (Words \cup Halves)]
        BY <2>2, TickTypes
    <3> QED
        BY <1>6, <2>2, <3>1, <3>2, Zenon DEF StoreElement
  <2> QED
      BY <1>6, <2>1, <2>2, Zenon DEF StoreElement
<1> QED
    BY <1>1, <1>2, <1>3, <1>4, <1>5, <1>6 DEF ProbeStep

LEMMA StepOneEach ==
    ASSUME ScanTypes, OneElementEach, NEW e \in Endpoints, ProbeStep(e), ScanTypes'
    PROVE  OneElementEach'
<1>1. /\ verified \subseteq verified'
      /\ \A d \in Endpoints : d # e => pc'[d] = pc[d] /\ todo'[d] = todo[d] /\ regs'[d] = regs[d]
      /\ Writers \subseteq Writers'
      /\ Cardinality(Writers') \in Nat
      /\ Cardinality(Writers) <= Cardinality(Writers')
    BY MoreWriters
<1>2. Cardinality(Writers) \in Nat /\ Cardinality(Endpoints) \in Nat
    BY WritersBound
<1>3. /\ pc'[e] \in Appending => e \in verified'
      /\ e \in verified' => pc'[e] \in Appending \cup {"done"}
      /\ pc'[e] = "load" => todo'[e] \subseteq Words
      /\ verified' \subseteq verified \cup {e}
  <2>1. CASE Probe(e)
      BY <2>1 DEF Probe, ScanTypes, OneElementEach, Appending
  <2>2. CASE Load(e)
      BY <2>2 DEF Load, Tick, ScanTypes, OneElementEach, Appending
  <2>3. CASE AppendInPlace(e) \/ AppendGrowing(e)
      BY <2>3 DEF AppendInPlace, AppendGrowing, ScanTypes, OneElementEach, Appending
  <2>4. CASE StoreHeader(e) \/ StoreElement(e)
      BY <2>4 DEF StoreHeader, StoreElement, Tick, ScanTypes, OneElementEach, Appending
  <2> QED
      BY <2>1, <2>2, <2>3, <2>4 DEF ProbeStep
<1>4. header'["len"] <= Cardinality(Writers')
  <2>1. header["len"] \in Nat /\ regs[e]["len"] \in Nat
      BY <1>2 DEF ScanTypes, Headers
  <2>2. header["len"] <= Cardinality(Writers) /\ regs[e]["len"] <= Cardinality(Writers)
      BY DEF OneElementEach
  <2>3. header'["len"] \in {header["len"], regs[e]["len"]}
      BY DEF ProbeStep, Probe, Load, AppendInPlace, AppendGrowing, StoreHeader, StoreElement,
             ScanTypes, Headers, Words
  <2> QED
      BY <1>1, <1>2, <2>1, <2>2, <2>3
<1>5. regs'[e]["len"] <= Cardinality(Writers')
  <2>1. header["len"] \in Nat /\ regs[e]["len"] \in Nat
      BY <1>2 DEF ScanTypes, Headers
  <2>2. header["len"] <= Cardinality(Writers) /\ regs[e]["len"] <= Cardinality(Writers)
      BY DEF OneElementEach
  <2>3. CASE AppendInPlace(e) \/ (AppendGrowing(e) /\ UNCHANGED fault)
    <3>1. e \in verified /\ e \notin Writers /\ pc'[e] = "store" /\ UNCHANGED verified
        BY <2>3 DEF AppendInPlace, AppendGrowing, ScanTypes, OneElementEach, Appending, Writers
    <3>2. Writers' = Writers \cup {e}
        BY <1>1, <3>1 DEF Writers, ScanTypes
    <3>3. Cardinality(Writers') = Cardinality(Writers) + 1
        BY <3>1, <3>2, WritersBound
    <3>4. regs'[e]["len"] = regs[e]["len"] + 1
        BY <2>3 DEF AppendInPlace, AppendGrowing, ScanTypes, Headers, Words
    <3> QED
        BY <1>2, <2>1, <2>2, <3>3, <3>4
  <2>4. CASE ~(AppendInPlace(e) \/ (AppendGrowing(e) /\ UNCHANGED fault))
    <3>1. regs'[e]["len"] \in {header["len"], regs[e]["len"]}
      <4>1. CASE Load(e)
          BY <4>1 DEF Load, ScanTypes, Headers, Words
      <4>2. CASE ~Load(e)
        <5>1. regs' = regs
          <6>1. CASE Probe(e) \/ StoreHeader(e) \/ StoreElement(e)
              BY <6>1, Zenon DEF Probe, StoreHeader, StoreElement
          <6>2. CASE AppendGrowing(e)
            <7>1. ~UNCHANGED fault
                BY <2>4, <6>2
            <7>2. (UNCHANGED fault) \/ (UNCHANGED <<pc, array, size, regs, todo>>)
                BY <6>2 DEF AppendGrowing
            <7> QED
                BY <7>1, <7>2
          <6> QED
              BY <2>4, <4>2, <6>1, <6>2 DEF ProbeStep
        <5> QED
            BY <5>1
      <4> QED
          BY <4>1, <4>2
    <3> QED
        BY <1>1, <1>2, <2>1, <2>2, <3>1
  <2> QED
      BY <2>3, <2>4
<1>6. \A d \in Endpoints : d # e => regs'[d]["len"] <= Cardinality(Writers')
  <2> SUFFICES ASSUME NEW d \in Endpoints, d # e PROVE regs'[d]["len"] <= Cardinality(Writers')
      OBVIOUS
  <2>1. regs'[d]["len"] = regs[d]["len"]
      BY <1>1
  <2>2. regs[d]["len"] \in Nat /\ regs[d]["len"] <= Cardinality(Writers)
      BY <1>2 DEF ScanTypes, Headers, OneElementEach
  <2> QED
      BY <1>1, <1>2, <2>1, <2>2
<1>7. /\ \A d \in Endpoints : pc'[d] \in Appending => d \in verified'
      /\ \A d \in verified' : pc'[d] \in Appending \cup {"done"}
      /\ \A d \in Endpoints : pc'[d] = "load" => todo'[d] \subseteq Words
    BY <1>1, <1>3 DEF OneElementEach, ScanTypes
<1> QED
    BY <1>4, <1>5, <1>6, <1>7 DEF OneElementEach

LEMMA StepCounted ==
    ASSUME ScanInv, NEW e \in Endpoints, ProbeStep(e), ScanTypes', OneElementEach'
    PROVE  Counted'
<1>0. ScanTypes /\ OneElementEach /\ Counted
    BY DEF ScanInv
<1>1. /\ verified' \subseteq verified \cup {e}
      /\ \A d \in Endpoints : d # e => pc'[d] = pc[d] /\ todo'[d] = todo[d] /\ regs'[d] = regs[d]
    BY <1>0, MoreWriters
    DEF ProbeStep, Probe, Load, AppendInPlace, AppendGrowing, StoreHeader, StoreElement
<1>2. header["len"] \in Nat /\ regs[e]["len"] \in Nat
    BY <1>0, WritersBound DEF ScanTypes, Headers
<1>3. pc'[e] = "store" => regs'[e]["len"] >= 1
  <2>1. CASE AppendInPlace(e) \/ AppendGrowing(e)
    <3>1. pc'[e] = "store" => regs'[e]["len"] = regs[e]["len"] + 1
        BY <1>0, <2>1 DEF AppendInPlace, AppendGrowing, ScanTypes, Headers, Words
    <3> QED
        BY <1>2, <3>1
  <2>2. CASE Probe(e) \/ Load(e)
      BY <1>0, <2>2 DEF Probe, Load, Tick, ScanTypes
  <2>3. CASE StoreHeader(e) \/ StoreElement(e)
      BY <1>0, <2>3 DEF StoreHeader, StoreElement, Counted
  <2> QED
      BY <2>1, <2>2, <2>3 DEF ProbeStep
<1>4. header["len"] >= 1 => header'["len"] >= 1
  <2>1. header' = header \/ (pc[e] = "store" /\ header'["len"] \in {header["len"], regs[e]["len"]})
      BY <1>0 DEF ProbeStep, Probe, Load, AppendInPlace, AppendGrowing, StoreHeader, StoreElement,
                  ScanTypes, Headers, Words
  <2> QED
      BY <1>0, <2>1 DEF Counted
<1>5. ASSUME e \in verified', pc'[e] = "done" \/ (pc'[e] = "store" /\ "len" \notin todo'[e])
      PROVE  header'["len"] >= 1
  <2>1. CASE Probe(e) \/ Load(e)
    <3>1. pc'[e] = "done" /\ verified' = verified /\ pc[e] = "probe"
        BY <1>0, <1>5, <2>1 DEF Probe, Load, Tick, ScanTypes
    <3> QED
        BY <1>0, <1>5, <3>1 DEF OneElementEach, Appending
  <2>2. CASE AppendInPlace(e) \/ AppendGrowing(e)
      BY <1>0, <1>5, <2>2 DEF AppendInPlace, AppendGrowing, ScanTypes, Words
  <2>3. CASE StoreHeader(e)
    <3>1. PICK w \in todo[e] \cap Words : /\ header' = [header EXCEPT ![w] = regs[e][w]]
                                          /\ Tick(e, w, "done")
        BY <2>3 DEF StoreHeader
    <3>2. pc[e] = "store" /\ verified' = verified
        BY <2>3 DEF StoreHeader
    <3>3. CASE w = "len"
        BY <1>0, <3>1, <3>2, <3>3 DEF Counted, ScanTypes, Headers, Words
    <3>4. CASE w # "len"
      <4>1. "len" \notin todo[e]
          BY <1>0, <1>5, <3>1, <3>2, <3>4 DEF Tick, ScanTypes
      <4>2. header["len"] >= 1
          BY <1>0, <1>5, <3>2, <4>1 DEF Counted
      <4> QED
          BY <1>4, <4>2
    <3> QED
        BY <3>3, <3>4
  <2>4. CASE StoreElement(e)
    <3>1. header' = header /\ pc[e] = "store" /\ verified' = verified
        BY <2>4 DEF StoreElement
    <3>2. "len" \notin todo[e]
      <4>1. CASE UNCHANGED <<pc, todo>>
          BY <1>5, <3>1, <4>1
      <4>2. CASE \E h \in Halves : Tick(e, h, "done")
          BY <1>0, <1>5, <3>1, <4>2 DEF Tick, ScanTypes, Halves
      <4> QED
          BY <2>4, <4>1, <4>2 DEF StoreElement
    <3> QED
        BY <1>0, <1>5, <3>1, <3>2 DEF Counted
  <2> QED
      BY <2>1, <2>2, <2>3, <2>4 DEF ProbeStep
<1> QED
    BY <1>0, <1>1, <1>3, <1>4, <1>5 DEF Counted, ScanTypes

LEMMA StepProvenance ==
    ASSUME ScanInv, NEW e \in Endpoints, ProbeStep(e), ScanTypes', verified \subseteq verified'
    PROVE  Provenance'
<1>0. ScanTypes /\ OneElementEach /\ Provenance
    BY DEF ScanInv
<1>1. CASE UNCHANGED array
    BY <1>0, <1>1 DEF Provenance
<1>2. CASE AppendGrowing(e) /\ UNCHANGED fault
  <2>1. regs[e]["len"] = 0 \/ regs[e]["ptr"] \in Endpoints
      BY <1>0, <1>2 DEF AppendGrowing, ScanTypes, Headers
  <2>2. array' = [array EXCEPT ![e] = [i \in Slots |->
            IF i <= regs[e]["len"] THEN Element(regs[e]["ptr"], i) ELSE EmptyString]]
      BY <1>2 DEF AppendGrowing
  <2> SUFFICES ASSUME NEW a \in Endpoints, NEW i \in Slots, NEW h \in Halves
               PROVE  array'[a][i][h] \in verified' \cup {Nil, Outside}
      BY DEF Provenance
  <2>3. CASE a # e
    <3>1. array'[a] = array[a]
        BY <1>0, <2>2, <2>3 DEF ScanTypes
    <3> QED
        BY <1>0, <3>1 DEF Provenance
  <2>4. CASE a = e /\ i <= regs[e]["len"]
    <3>1. array'[a][i] = Element(regs[e]["ptr"], i)
        BY <1>0, <2>2, <2>4 DEF ScanTypes
    <3>2. regs[e]["ptr"] \in Endpoints
        BY <2>1, <2>4 DEF Slots
    <3>3. CASE Element(regs[e]["ptr"], i) = Whole(Outside)
        BY <3>1, <3>3 DEF Whole
    <3>4. CASE Element(regs[e]["ptr"], i) = array[regs[e]["ptr"]][i]
        BY <1>0, <3>1, <3>2, <3>4 DEF Provenance
    <3> QED
        BY <3>3, <3>4 DEF Element
  <2>5. CASE a = e /\ ~(i <= regs[e]["len"])
    <3>1. array'[a][i] = EmptyString
        BY <1>0, <2>2, <2>5 DEF ScanTypes
    <3> QED
        BY <3>1 DEF EmptyString, Whole
  <2> QED
      BY <2>3, <2>4, <2>5
<1>3. CASE StoreElement(e) /\ UNCHANGED fault
  <2>1. e \in verified
      BY <1>0, <1>3 DEF StoreElement, OneElementEach, Appending
  <2>2. PICK g \in Halves : array' = [array EXCEPT ![regs[e]["ptr"]][regs[e]["len"]][g] = e]
      BY <1>3 DEF StoreElement
  <2>3. \A a \in Endpoints, i \in Slots, h \in Halves : array'[a][i][h] \in {array[a][i][h], e}
      BY <1>0, <2>2 DEF ScanTypes, Strings
  <2> QED
      BY <1>0, <2>1, <2>3 DEF Provenance
<1> QED
    BY <1>0, <1>1, <1>2, <1>3
    DEF ProbeStep, Probe, Load, AppendInPlace, AppendGrowing, StoreHeader, StoreElement, ScanTypes

LEMMA StepScanInv == ASSUME ScanInv, NEW e \in Endpoints, ProbeStep(e) PROVE ScanInv'
<1>1. ScanTypes /\ OneElementEach
    BY DEF ScanInv
<1>2. ScanTypes' /\ OneElementEach'
    BY <1>1, StepTypes, StepOneEach
<1>3. verified \subseteq verified'
    BY <1>1, <1>2, MoreWriters
<1> QED
    BY <1>2, <1>3, StepCounted, StepProvenance DEF ScanInv

\* The downloads, the fallbacks and the end of a scan.
LEMMA EnterInv ==
    ASSUME IInv, stage # "done", NEW s \in Scans, Enter(s)
    PROVE  IInv'
<1>1. Fresh' /\ fault' \in BOOLEAN
  <2>1. pc' \in [Endpoints -> {"idle", "probe"}]
      BY DEF Enter, StartScan
  <2> QED
      BY <2>1 DEF Enter, StartScan, Fresh, IInv, TypeOK
<1>2. ScanInv'
  <2>1. (Fresh /\ fault \in BOOLEAN)' => ScanInv'
      BY FreshScan, PTL
  <2> QED
      BY <1>1, <2>1
<1>3. stage' = s /\ outcome' = outcome /\ verified' = {}
    BY DEF Enter, StartScan
<1>4. TypeOK'
    BY <1>2, <1>3 DEF ScanInv, IInv, TypeOK, ScanTypes
<1>5. Quiet'
    BY <1>3 DEF Quiet
<1>6. outcome' = Pending /\ OutcomeAtEnd'
    BY <1>3 DEF IInv, OutcomeAtEnd, Scans
<1>7. FailureIsReal' /\ ResultSources'
    BY <1>3, <1>6, OutcomesAssumption DEF FailureIsReal, ResultSources, OutcomesAssumption, Strings
<1> QED
    BY <1>2, <1>4, <1>5, <1>6, <1>7 DEF IInv, ScanInv

\* A call that returns an error, after a scan that has found nothing.
LEMMA FailInv ==
    ASSUME IInv, stage # "done", Return(Failed), verified = {},
           \A e \in Endpoints : pc[e] \in {"idle", "done"}
    PROVE  IInv'
<1>1. stage' = "done" /\ outcome' = Failed /\ UNCHANGED scanVars
    BY DEF Return
<1>2. UNCHANGED <<pc, verified, header, array, size, regs, todo, fault>>
    BY <1>1 DEF scanVars
<1>3. TypeOK'
    BY <1>1, <1>2, Zenon DEF IInv, TypeOK, Scans
<1>4. (OneElementEach /\ Counted /\ Provenance)'
    BY <1>2 DEF IInv, OneElementEach, Counted, Provenance, Writers
<1>5. (Quiet /\ FailureIsReal /\ OutcomeAtEnd /\ ResultSources)'
    BY <1>1, <1>2, OutcomesAssumption
    DEF Quiet, FailureIsReal, ResultSources, OutcomeAtEnd, OutcomesAssumption, Strings
<1> QED
    BY <1>3, <1>4, <1>5 DEF IInv

\* A call that returns an element of the slice.
LEMMA SucceedInv ==
    ASSUME IInv, stage # "done", Finished, NEW i \in 1..header["len"], header["ptr"] # Nil,
           Return(Element(header["ptr"], i))
    PROVE  IInv'
<1>1. stage' = "done" /\ outcome' = Element(header["ptr"], i) /\ UNCHANGED scanVars
    BY DEF Return
<1>2. UNCHANGED <<pc, verified, header, array, size, regs, todo, fault>>
    BY <1>1 DEF scanVars
<1>3. header["ptr"] \in Endpoints /\ i \in Slots
  <2>1. header["len"] \in 0..Cardinality(Endpoints) /\ Cardinality(Endpoints) \in Nat
      BY FS_CardinalityType DEF IInv, TypeOK, Headers
  <2> QED
      BY <2>1 DEF IInv, TypeOK, Headers, Slots
<1>4. outcome' \in Strings /\ \A h \in Halves : outcome'[h] \in verified \cup {Nil, Outside}
  <2>1. outcome' \in Strings
      BY <1>1, <1>3, ElementType DEF IInv, TypeOK, ScanTypes
  <2>2. CASE Element(header["ptr"], i) = Whole(Outside)
      BY <1>1, <2>1, <2>2 DEF Whole
  <2>3. CASE Element(header["ptr"], i) = array[header["ptr"]][i]
      BY <1>1, <1>3, <2>1, <2>3 DEF IInv, Provenance
  <2> QED
      BY <2>1, <2>2, <2>3 DEF Element
<1>5. TypeOK'
    BY <1>1, <1>2, <1>4, Zenon DEF IInv, TypeOK, Scans
<1>6. (OneElementEach /\ Counted /\ Provenance)'
    BY <1>2 DEF IInv, OneElementEach, Counted, Provenance, Writers
<1>7. (Quiet /\ FailureIsReal /\ OutcomeAtEnd /\ ResultSources)'
    BY <1>1, <1>2, <1>4, OutcomesAssumption
    DEF Quiet, Finished, FailureIsReal, ResultSources, OutcomeAtEnd, OutcomesAssumption, Strings
<1> QED
    BY <1>5, <1>6, <1>7 DEF IInv

\* The end of a scan. An empty slice means that nothing was verified.
LEMMA CollectInv == ASSUME IInv, Collect PROVE IInv'
<1>0. stage # "done" /\ Finished
    BY DEF Collect, Scans
<1>1. CASE NoneFound /\ Fall
  <2>1. verified = {}
    <3> SUFFICES ASSUME NEW e \in verified PROVE FALSE
        OBVIOUS
    <3>1. pc[e] = "done"
        BY <1>0 DEF IInv, TypeOK, OneElementEach, Finished, Appending
    <3>2. header["len"] >= 1
        BY <3>1 DEF IInv, Counted
    <3> QED
        BY <1>1, <3>2 DEF NoneFound
  <2>2. CASE Return(Failed)
      BY <1>0, <2>1, <2>2, FailInv DEF Finished
  <2>3. CASE Enter("hosts") \/ Enter("random")
      BY <1>0, <2>3, EnterInv DEF Scans
  <2> QED
      BY <1>1, <2>2, <2>3 DEF Fall
<1>2. ASSUME NEW i \in 1..header["len"], header["ptr"] # Nil, Take(Element(header["ptr"], i))
      PROVE  IInv'
  <2>1. CASE Enter("random")
      BY <1>0, <2>1, EnterInv DEF Scans
  <2>2. CASE Return(Element(header["ptr"], i))
      BY <1>0, <1>2, <2>2, SucceedInv
  <2> QED
      BY <1>2, <2>1, <2>2 DEF Take
<1>3. CASE fault' = TRUE
             /\ UNCHANGED <<pc, verified, header, array, size, regs, todo, stage, outcome>>
  <2>1. TypeOK'
      BY <1>3, Zenon DEF IInv, TypeOK
  <2>2. (OneElementEach /\ Counted /\ Provenance /\ Quiet /\ FailureIsReal /\ OutcomeAtEnd
           /\ ResultSources)'
      BY <1>3 DEF IInv, OneElementEach, Counted, Provenance, Writers, Quiet, FailureIsReal,
                  ResultSources, OutcomeAtEnd
  <2> QED
      BY <2>1, <2>2 DEF IInv
<1> QED
    BY <1>1, <1>2, <1>3, Zenon DEF Collect

LEMMA InitIInv == Init => IInv
<1> SUFFICES ASSUME Init PROVE IInv
    OBVIOUS
<1>1. Fresh /\ fault \in BOOLEAN /\ \A e \in Endpoints : pc[e] = "idle"
    BY DEF Init, InitScan, Fresh
<1>2. ScanInv
    BY <1>1, FreshScan
<1>3. stage = "start" /\ outcome = Pending
    BY DEF Init
<1>4. TypeOK
    BY <1>2, <1>3 DEF ScanInv, ScanTypes, TypeOK
<1>5. Quiet /\ OutcomeAtEnd /\ FailureIsReal /\ ResultSources
    BY <1>1, <1>3, OutcomesAssumption
    DEF Fresh, Quiet, OutcomeAtEnd, FailureIsReal, ResultSources, OutcomesAssumption, Strings
<1> QED
    BY <1>2, <1>4, <1>5 DEF IInv, ScanInv

LEMMA StepIInv == IInv /\ [Next]_vars => IInv'
<1> SUFFICES ASSUME IInv, [Next]_vars PROVE IInv'
    OBVIOUS
<1>1. CASE GetChain \/ GetAssetList
  <2>1. /\ stage \in {"start", "assets"} /\ stage # "done" /\ verified = {}
        /\ \A e \in Endpoints : pc[e] \in {"idle", "done"}
      BY <1>1 DEF GetChain, GetAssetList, IInv, Quiet, Scans
  <2>2. CASE Return(Failed)
      BY <2>1, <2>2, FailInv
  <2>3. CASE Enter("domains") \/ Enter("random")
      BY <2>1, <2>3, EnterInv DEF Scans
  <2>4. CASE stage' = "assets" /\ UNCHANGED <<scanVars, outcome>>
    <3>1. UNCHANGED <<pc, verified, header, array, size, regs, todo, fault, outcome>>
        BY <2>4 DEF scanVars
    <3>2. TypeOK'
        BY <2>4, <3>1, Zenon DEF IInv, TypeOK
    <3> QED
        BY <2>1, <2>4, <3>1, <3>2 DEF IInv, OneElementEach, Counted, Provenance, Writers, Quiet,
                                      FailureIsReal, ResultSources, OutcomeAtEnd, Scans
  <2> QED
      BY <1>1, <2>2, <2>3, <2>4 DEF GetChain, GetAssetList, FirstScan
<1>2. CASE Collect
    BY <1>2, CollectInv
<1>3. ASSUME NEW e \in Endpoints, Step(e) PROVE IInv'
  <2>1. ScanInv /\ ProbeStep(e) /\ UNCHANGED <<stage, outcome>>
      BY <1>3 DEF Step, IInv, TypeOK, ScanInv, ScanTypes
  <2>2. ScanInv'
      BY <2>1, StepScanInv
  <2>3. TypeOK'
      BY <2>1, <2>2 DEF ScanInv, ScanTypes, IInv, TypeOK
  <2>4. stage \in Scans
      BY <2>1 DEF IInv, Quiet, ProbeStep, Probe, Load, AppendInPlace, AppendGrowing, StoreHeader,
                  StoreElement
  <2>5. outcome' = Pending /\ stage' # "done"
      BY <2>1, <2>4 DEF IInv, OutcomeAtEnd, Scans
  <2>6. (Quiet /\ OutcomeAtEnd /\ FailureIsReal /\ ResultSources)'
      BY <2>1, <2>4, <2>5, OutcomesAssumption
      DEF Quiet, OutcomeAtEnd, FailureIsReal, ResultSources, OutcomesAssumption, Strings, Scans
  <2> QED
      BY <2>2, <2>3, <2>6 DEF IInv, ScanInv
<1>4. CASE UNCHANGED vars
  <2>1. UNCHANGED <<pc, verified, header, array, size, regs, todo, fault, stage, outcome>>
      BY <1>4 DEF vars, scanVars
  <2>2. TypeOK'
      BY <2>1, Zenon DEF IInv, TypeOK
  <2> QED
      BY <2>1, <2>2 DEF IInv, OneElementEach, Counted, Provenance, Writers, Quiet, FailureIsReal,
                        ResultSources, OutcomeAtEnd
<1> QED
    BY <1>1, <1>2, <1>3, <1>4 DEF Next

LEMMA Invariance == Spec => []IInv
BY InitIInv, StepIInv, PTL DEF Spec

\* Every variable keeps its type, and a length, even of a torn slice, is one that
\* the probes can reach.
THEOREM TypeCorrect == Spec => []TypeOK
<1>1. IInv => TypeOK
    BY DEF IInv
<1> QED
    BY <1>1, Invariance, PTL

\* A call that fails has found no healthy endpoint in its last scan.
THEOREM FailsForGoodReason == Spec => []FailureIsReal
<1>1. IInv => FailureIsReal
    BY DEF IInv
<1> QED
    BY <1>1, Invariance, PTL

-----------------------------------------------------------------------------
\* The slice with the one element e.
OneSlice(e) == [w \in Words |-> IF w = "ptr" THEN e ELSE 1]

\* Where a scan that has verified only e has got to, as if there were no other.
AloneAt(e) ==
    /\ ~fault
    /\ pc[e] = "load" => /\ header = NilSlice
                         /\ \A w \in Words : w \notin todo[e] => regs[e][w] = NilSlice[w]
    /\ pc[e] = "append" => header = NilSlice /\ regs[e] = NilSlice
    /\ pc[e] \in {"store", "done"} =>
          /\ regs[e] = OneSlice(e) /\ size[e] = 1
          /\ \A w \in Words : w \notin todo[e] => header[w] = OneSlice(e)[w]
          /\ \A h \in Halves : h \notin todo[e] => array[e][1][h] = e
    /\ pc[e] = "done" => todo[e] = {}
    /\ outcome \in Strings => outcome = Whole(e)

Alone ==
    /\ verified = {} => ~fault /\ header = NilSlice /\ outcome \notin Strings
    /\ \A e \in Endpoints : verified = {e} => AloneAt(e)

\* A probe's step in a scan that has verified at most one endpoint.
LEMMA StepAlone ==
    ASSUME IInv, Alone, NEW d \in Endpoints, Step(d), IInv'
    PROVE  Alone'
<1>0. /\ ScanTypes /\ ProbeStep(d) /\ UNCHANGED <<stage, outcome>>
      /\ pc[d] \in Appending => d \in verified
      /\ pc[d] = "probe" => d \notin verified
      /\ ScanTypes'
    BY DEF Step, IInv, TypeOK, ScanTypes, OneElementEach, Appending
<1>1. CASE Probe(d) /\ verified' = verified
  <2>1. UNCHANGED <<header, array, size, regs, fault>> /\ pc[d] = "probe"
      BY <1>1 DEF Probe
  <2>2. ASSUME NEW e \in Endpoints, verified = {e}
        PROVE  pc'[e] = pc[e] /\ todo'[e] = todo[e]
    <3>1. e # d
        BY <1>0, <2>1, <2>2
    <3> QED
        BY <1>0, <1>1, <3>1 DEF Probe, ScanTypes
  <2> QED
      BY <1>0, <1>1, <2>1, <2>2 DEF Alone, AloneAt
<1>2. CASE Probe(d) /\ verified' # verified
  <2>1. /\ UNCHANGED <<header, array, size, regs, fault>>
        /\ verified' = verified \cup {d}
        /\ pc' = [pc EXCEPT ![d] = "load"] /\ todo' = [todo EXCEPT ![d] = Words]
        /\ d \notin verified
      BY <1>0, <1>2 DEF Probe
  <2>2. ASSUME NEW e \in Endpoints, verified' = {e} PROVE AloneAt(e)'
    <3>1. e = d /\ verified = {}
        BY <2>1, <2>2
    <3>2. pc'[e] = "load" /\ todo'[e] = Words
        BY <1>0, <2>1, <3>1 DEF ScanTypes
    <3> QED
        BY <1>0, <2>1, <3>1, <3>2 DEF Alone, AloneAt
  <2> QED
      BY <2>1, <2>2 DEF Alone
<1>3. CASE ~Probe(d)
  <2>1. d \in verified /\ verified' = verified
      BY <1>0, <1>3 DEF ProbeStep, Load, AppendInPlace, AppendGrowing, StoreHeader, StoreElement,
                        Appending
  <2> SUFFICES ASSUME verified = {d} PROVE AloneAt(d)'
      BY <2>1 DEF Alone
  <2>2. AloneAt(d) /\ ~fault
      BY DEF Alone, AloneAt
  <2>3. /\ NilSlice["ptr"] = Nil /\ NilSlice["len"] = 0 /\ NilSlice["cap"] = 0
        /\ OneSlice(d)["ptr"] = d /\ OneSlice(d)["len"] = 1 /\ OneSlice(d)["cap"] = 1
        /\ 1 \in Slots
    <3>1. Endpoints # {} /\ Cardinality(Endpoints) \in Nat
        BY FS_CardinalityType
    <3>2. Cardinality(Endpoints) # 0
        BY <3>1, FS_EmptySet
    <3> QED
        BY <3>1, <3>2 DEF NilSlice, OneSlice, Words, Slots
  <2>4. CASE Load(d)
    <3>1. PICK w \in todo[d] : /\ regs' = [regs EXCEPT ![d][w] = header[w]]
                               /\ Tick(d, w, "append")
                               /\ pc[d] = "load" /\ UNCHANGED <<header, fault>>
        BY <2>4 DEF Load
    <3>2. header = NilSlice /\ \A v \in Words : v \notin todo[d] => regs[d][v] = NilSlice[v]
        BY <2>2, <3>1 DEF AloneAt
    <3>3. \A v \in Words : v \notin todo'[d] => regs'[d][v] = NilSlice[v]
        BY <1>0, <3>1, <3>2 DEF Tick, ScanTypes, Headers
    <3>4. /\ pc'[d] \in {"load", "append"}
          /\ pc'[d] = "append" => todo'[d] = {}
        BY <1>0, <3>1 DEF Tick, ScanTypes
    <3>5. pc'[d] = "append" => regs'[d] = NilSlice
        BY <1>0, <3>3, <3>4 DEF ScanTypes, Headers, NilSlice
    <3> QED
        BY <1>0, <2>2, <3>1, <3>2, <3>3, <3>4, <3>5 DEF AloneAt
  <2>5. CASE AppendInPlace(d)
    <3>1. regs[d] = NilSlice
        BY <2>2, <2>5 DEF AppendInPlace, AloneAt
    <3> QED
        BY <2>3, <2>5, <3>1 DEF AppendInPlace
  <2>6. CASE AppendGrowing(d)
    <3>1. regs[d] = NilSlice /\ header = NilSlice
        BY <2>2, <2>6 DEF AppendGrowing, AloneAt
    <3>2. regs[d]["len"] = 0 /\ NewCap(regs[d]["cap"], regs[d]["len"] + 1) = 1
        BY <2>3, <3>1 DEF NewCap
    <3>3. /\ pc' = [pc EXCEPT ![d] = "store"]
          /\ todo' = [todo EXCEPT ![d] = Words \cup Halves]
          /\ size' = [size EXCEPT ![d] = NewCap(regs[d]["cap"], regs[d]["len"] + 1)]
          /\ regs' = [regs EXCEPT ![d] = [w \in Words |->
                         CASE w = "ptr" -> d
                           [] w = "len" -> regs[d]["len"] + 1
                           [] w = "cap" -> NewCap(regs[d]["cap"], regs[d]["len"] + 1)]]
          /\ UNCHANGED <<header, fault>>
        BY <2>6, <3>2, Zenon DEF AppendGrowing
    <3>4. /\ pc'[d] = "store" /\ todo'[d] = Words \cup Halves /\ size'[d] = 1
          /\ regs'[d] = OneSlice(d)
        BY <1>0, <3>2, <3>3 DEF ScanTypes, OneSlice, Words
    <3> QED
        BY <1>0, <2>2, <3>3, <3>4 DEF AloneAt
  <2>7. CASE StoreHeader(d)
    <3>1. PICK w \in todo[d] \cap Words :
             /\ header' = [header EXCEPT ![w] = regs[d][w]]
             /\ Tick(d, w, "done")
             /\ pc[d] = "store" /\ UNCHANGED <<array, size, regs, fault>>
        BY <2>7 DEF StoreHeader
    <3>2. /\ regs[d] = OneSlice(d) /\ size[d] = 1
          /\ \A v \in Words : v \notin todo[d] => header[v] = OneSlice(d)[v]
          /\ \A h \in Halves : h \notin todo[d] => array[d][1][h] = d
        BY <2>2, <3>1 DEF AloneAt
    <3>3. /\ \A v \in Words : v \notin todo'[d] => header'[v] = OneSlice(d)[v]
          /\ \A h \in Halves : h \notin todo'[d] => array[d][1][h] = d
        BY <1>0, <3>1, <3>2 DEF Tick, ScanTypes, Headers, Words, Halves
    <3>4. pc'[d] \in {"store", "done"} /\ (pc'[d] = "done" => todo'[d] = {})
        BY <1>0, <3>1 DEF Tick, ScanTypes
    <3> QED
        BY <1>0, <2>2, <3>1, <3>2, <3>3, <3>4 DEF AloneAt
  <2>8. CASE StoreElement(d)
    <3>1. /\ pc[d] = "store" /\ UNCHANGED <<header, size, regs>>
          /\ regs[d] = OneSlice(d) /\ size[d] = 1
          /\ \A v \in Words : v \notin todo[d] => header[v] = OneSlice(d)[v]
          /\ \A h \in Halves : h \notin todo[d] => array[d][1][h] = d
        BY <2>2, <2>8 DEF StoreElement, AloneAt
    <3>2. InArray(d, 1)
        BY <3>1 DEF InArray
    <3>3. PICK g \in todo[d] \cap Halves : /\ array' = [array EXCEPT ![d][1][g] = d]
                                           /\ Tick(d, g, "done") /\ UNCHANGED fault
        BY <2>3, <2>8, <3>1, <3>2 DEF StoreElement
    <3>4. /\ \A v \in Words : v \notin todo'[d] => header[v] = OneSlice(d)[v]
          /\ \A h \in Halves : h \notin todo'[d] => array'[d][1][h] = d
        BY <1>0, <2>3, <3>1, <3>3 DEF Tick, ScanTypes, Strings, Words, Halves
    <3>5. pc'[d] \in {"store", "done"} /\ (pc'[d] = "done" => todo'[d] = {})
        BY <1>0, <3>1, <3>3 DEF Tick, ScanTypes
    <3> QED
        BY <1>0, <2>2, <3>1, <3>3, <3>4, <3>5 DEF AloneAt
  <2> QED
      BY <1>0, <1>3, <2>4, <2>5, <2>6, <2>7, <2>8 DEF ProbeStep
<1> QED
    BY <1>1, <1>2, <1>3

\* A scan that has verified one endpoint finds it, and returns it.
LEMMA CollectAlone ==
    ASSUME IInv, Alone, Collect, NEW e \in Endpoints, verified = {e}
    PROVE  outcome' = Whole(e) /\ UNCHANGED scanVars
<1>1. AloneAt(e) /\ pc[e] = "done"
  <2>1. pc[e] # "idle" /\ pc[e] # "probe"
      BY DEF IInv, OneElementEach, Appending
  <2> QED
      BY <2>1 DEF Collect, Finished, Alone
<1>2. todo[e] = {} /\ size[e] = 1
    BY <1>1 DEF AloneAt
<1>3. header["ptr"] = e /\ header["len"] = 1
    BY <1>1, <1>2 DEF AloneAt, OneSlice, Words
<1>4. array[e][1] = Whole(e)
  <2>1. 1 \in Slots
    <3>1. Cardinality(Endpoints) \in Nat /\ Cardinality(Endpoints) # 0
        BY FS_CardinalityType, FS_EmptySet
    <3> QED
        BY <3>1 DEF Slots
  <2>2. array[e][1] \in Strings
      BY <2>1 DEF IInv, TypeOK
  <2>3. \A h \in Halves : array[e][1][h] = e
      BY <1>1, <1>2 DEF AloneAt
  <2> QED
      BY <2>2, <2>3 DEF Strings, Whole
<1>5. ~NoneFound /\ InArray(header["ptr"], 1) /\ Element(header["ptr"], 1) = array[header["ptr"]][1]
    BY <1>2, <1>3 DEF NoneFound, InArray, Element
<1>6. \A i \in 1..header["len"] : i = 1
    BY <1>3
<1>7. Take(array[header["ptr"]][1])
    BY <1>5, <1>6 DEF Collect
<1>8. array[header["ptr"]][1]["count"] \notin {Nil, Outside}
    BY <1>3, <1>4 DEF Whole, Halves
<1>9. Return(array[header["ptr"]][1])
    BY <1>7, <1>8 DEF Take
<1> QED
    BY <1>3, <1>4, <1>9 DEF Return

LEMMA InitAlone == Init => Alone
BY OutcomesAssumption DEF Init, InitScan, Alone, AloneAt, OutcomesAssumption, Strings

LEMMA NextAlone == IInv /\ IInv' /\ Alone /\ [Next]_vars => Alone'
<1> SUFFICES ASSUME IInv, IInv', Alone, [Next]_vars PROVE Alone'
    OBVIOUS
<1>1. ASSUME NEW s \in Scans, Enter(s), stage # "done", ~fault PROVE Alone'
  <2>1. verified' = {} /\ header' = NilSlice /\ fault' = fault /\ outcome' = Pending
      BY <1>1 DEF Enter, StartScan, IInv, OutcomeAtEnd
  <2> QED
      BY <1>1, <2>1, OutcomesAssumption DEF Alone, OutcomesAssumption, Strings
<1>2. ASSUME verified = {}, Return(Failed), ~fault PROVE Alone'
    BY <1>2, OutcomesAssumption DEF Return, scanVars, Alone, OutcomesAssumption, Strings
<1>3. CASE GetChain \/ GetAssetList
  <2>1. verified = {} /\ stage # "done" /\ ~fault
      BY <1>3 DEF GetChain, GetAssetList, IInv, Quiet, Alone
  <2>2. CASE UNCHANGED <<scanVars, outcome>>
      BY <2>1, <2>2 DEF Alone, scanVars
  <2> QED
      BY <1>1, <1>2, <1>3, <2>1, <2>2 DEF GetChain, GetAssetList, FirstScan, Scans
<1>4. CASE Collect
  <2>1. stage # "done" /\ ~fault
      BY <1>4 DEF Collect, Finished, Scans
  <2>2. CASE verified = {}
    <3>1. Fall
      <4>1. header["len"] = 0
          BY <2>2 DEF Alone, NilSlice, Words
      <4> QED
          BY <1>4, <4>1 DEF Collect, NoneFound
    <3> QED
        BY <1>1, <1>2, <2>1, <2>2, <3>1 DEF Fall, Scans
  <2>3. ASSUME NEW e \in Endpoints, verified = {e} PROVE Alone'
    <3>1. outcome' = Whole(e) /\ UNCHANGED scanVars
        BY <1>4, <2>3, CollectAlone
    <3> QED
        BY <2>3, <3>1 DEF Alone, AloneAt, scanVars
  <2>4. CASE verified # {} /\ ~\E e \in Endpoints : verified = {e}
    <3>1. CASE UNCHANGED verified
        BY <2>4, <3>1 DEF Alone
    <3>2. CASE \E s \in Scans : Enter(s)
        BY <1>1, <2>1, <3>2
    <3> QED
        BY <1>4, <3>1, <3>2 DEF Collect, Fall, Take, Return, scanVars, Scans
  <2> QED
      BY <2>2, <2>3, <2>4
<1>5. ASSUME NEW d \in Endpoints, Step(d) PROVE Alone'
    BY <1>5, StepAlone
<1>6. CASE UNCHANGED vars
    BY <1>6 DEF vars, scanVars, Alone, AloneAt
<1> QED
    BY <1>3, <1>4, <1>5, <1>6 DEF Next

LEMMA AlwaysAlone == Spec => []Alone
BY Invariance, InitAlone, NextAlone, PTL DEF Spec

LEMMA NeedsTwo == IInv /\ Alone => HarmNeedsTwo
<1> SUFFICES ASSUME IInv, Alone, ~\E d, e \in verified : d # e,
                    fault \/ outcome \in Strings \ {Whole(e) : e \in Endpoints}
             PROVE  FALSE
    BY DEF HarmNeedsTwo
<1>1. CASE verified = {}
    BY <1>1 DEF Alone
<1>2. CASE verified # {}
  <2>1. PICK e \in Endpoints : verified = {e}
      BY <1>2 DEF IInv, TypeOK
  <2> QED
      BY <2>1 DEF Alone, AloneAt
<1> QED
    BY <1>1, <1>2

\* The races of a scan do no harm unless two endpoints are healthy.
THEOREM HarmIsOfRaces == Spec => []HarmNeedsTwo
BY NeedsTwo, Invariance, AlwaysAlone, PTL

\* What a call returns comes from the endpoints its last scan has verified, or, with
\* two of them, from what their races have made of the slice.
THEOREM OnlyVerified == Spec => []ResultIsVerified
<1>1. IInv /\ HarmNeedsTwo => ResultIsVerified
  <2> SUFFICES ASSUME IInv, HarmNeedsTwo, outcome \in Strings PROVE ResultIsVerified
      BY DEF ResultIsVerified
  <2>1. ASSUME NEW e \in Endpoints, outcome = Whole(e) PROVE e \in verified
    <3>1. outcome["bytes"] = e /\ "bytes" \in Halves
        BY <2>1 DEF Whole, Halves
    <3> QED
        BY <3>1 DEF IInv, ResultSources
  <2> QED
      BY <2>1 DEF IInv, ResultSources, ResultIsVerified, HarmNeedsTwo
<1> QED
    BY <1>1, Invariance, HarmIsOfRaces, PTL

\* The only healthy endpoint of a scan is what the call returns.
THEOREM SoleTaken == Spec => SoleHealthyTaken
<1>1. IInv /\ Alone /\ [Next]_vars
         => [\A e \in Endpoints : verified = {e} /\ stage' # stage => outcome' = Whole(e)]_vars
  <2> SUFFICES ASSUME IInv, Alone, Next, NEW e \in Endpoints, verified = {e}, stage' # stage
               PROVE  outcome' = Whole(e)
      OBVIOUS
  <2>1. Collect
      BY DEF Next, GetChain, GetAssetList, IInv, Quiet, Step
  <2> QED
      BY <2>1, CollectAlone
<1> QED
    BY <1>1, Invariance, AlwaysAlone, PTL DEF Spec, SoleHealthyTaken

-----------------------------------------------------------------------------
\* What the caller sees.
LEMMA ResultCases ==
    ASSUME IInv, Alone
    PROVE  /\ ~fault /\ outcome = Pending => Result = Pending
           /\ \/ Result = Pending
              \/ Result = Failed /\ verified = {}
              \/ Result \in verified
              \/ Result \in {Garbled, Crashed} /\ \E d, e \in verified : d # e
<1>1. CASE fault
  <2>1. \E d, e \in verified : d # e
      BY <1>1, NeedsTwo, Zenon DEF HarmNeedsTwo
  <2> QED
      BY <1>1, <2>1 DEF Result
<1>2. CASE ~fault /\ outcome \in {Pending, Failed}
    BY <1>2, OutcomesAssumption DEF Result, OutcomesAssumption, IInv, FailureIsReal
<1>3. CASE ~fault /\ outcome \notin {Pending, Failed}
  <2>1. outcome \in Strings
      BY <1>3 DEF IInv, TypeOK
  <2>2. ASSUME NEW e \in Endpoints, outcome = Whole(e) PROVE Result \in verified
    <3>1. outcome["bytes"] = e
        BY <2>2 DEF Whole, Halves
    <3>2. e \in verified \cup {Nil, Outside}
        BY <2>1, <3>1 DEF IInv, ResultSources, Halves
    <3> QED
        BY <1>3, <2>2, <3>1, <3>2 DEF Result
  <2>3. CASE ~\E e \in Endpoints : outcome = Whole(e)
    <3>1. Result = Garbled
        BY <1>3, <2>3 DEF Result
    <3>2. outcome \in Strings \ {Whole(e) : e \in Endpoints}
        BY <2>1, <2>3
    <3>3. \E d, e \in verified : d # e
        BY <3>2, NeedsTwo, Zenon DEF HarmNeedsTwo
    <3> QED
        BY <1>3, <3>1, <3>3
  <2> QED
      BY <1>3, <2>2, <2>3
<1> QED
    BY <1>1, <1>2, <1>3

\* Every step of a call is one of the abstract choice, or is not seen.
LEMMA StepImplements ==
    ASSUME IInv, Alone, IInv', Alone', [Next]_vars
    PROVE  [Sel!Next]_(Sel!vars)
<1>1. CASE UNCHANGED vars
    BY <1>1 DEF vars, scanVars, Sel!vars, Result
<1>2. CASE Next
  <2>1. ~fault /\ outcome = Pending
    <3>1. CASE GetChain \/ GetAssetList
        BY <3>1 DEF GetChain, GetAssetList, IInv, Quiet, OutcomeAtEnd, Alone
    <3>2. CASE Collect
        BY <3>2 DEF Collect, Finished, Scans, IInv, OutcomeAtEnd
    <3>3. ASSUME NEW e \in Endpoints, Step(e) PROVE ~fault /\ stage \in Scans
        BY <3>3 DEF Step, ProbeStep, Probe, Load, AppendInPlace, AppendGrowing, StoreHeader,
                    StoreElement, IInv, Quiet
    <3> QED
        BY <1>2, <3>1, <3>2, <3>3 DEF Next, IInv, OutcomeAtEnd, Scans
  <2>2. Result = Pending
      BY <2>1, ResultCases
  <2>3. CASE verified' = verified
    <3>1. \/ Result' = Pending
          \/ Result' = Failed /\ verified' = {}
          \/ Result' \in verified'
          \/ Result' \in {Garbled, Crashed} /\ \E d, e \in verified' : d # e
      <4>1. (IInv /\ Alone)' => (\/ Result = Pending
                                 \/ Result = Failed /\ verified = {}
                                 \/ Result \in verified
                                 \/ Result \in {Garbled, Crashed} /\ \E d, e \in verified : d # e)'
          BY ResultCases, PTL
      <4> QED
          BY <4>1
    <3>2. verified \subseteq Endpoints
        BY DEF IInv, TypeOK
    <3> QED
        BY <2>2, <2>3, <3>1, <3>2
        DEF Sel!Next, Sel!vars, Sel!Fail, Sel!Choose, Sel!Spoil, Sel!Races
  <2>4. ASSUME verified' # verified PROVE Sel!Next
    <3>1. Result' = Pending /\ (verified' = {} \/ \E e \in Endpoints : verified' = verified \cup {e})
      <4>1. /\ UNCHANGED <<fault, outcome>>
            /\ verified' = {} \/ \E e \in Endpoints : verified' = verified \cup {e}
        <5>1. CASE GetChain \/ GetAssetList \/ Collect
            BY <2>4, <5>1 DEF GetChain, GetAssetList, FirstScan, Collect, Fall, Take, Return, Enter,
                              StartScan, scanVars
        <5>2. ASSUME NEW e \in Endpoints, Step(e)
              PROVE  UNCHANGED <<fault, outcome>> /\ verified' = verified \cup {e}
            BY <2>4, <5>2 DEF Step, ProbeStep, Probe, Load, AppendInPlace, AppendGrowing,
                              StoreHeader, StoreElement
        <5> QED
            BY <1>2, <5>1, <5>2 DEF Next
      <4>2. (IInv /\ Alone)' => (~fault /\ outcome = Pending => Result = Pending)'
          BY ResultCases, PTL
      <4> QED
          BY <2>1, <4>1, <4>2
    <3>2. CASE \E e \in Endpoints : verified' = verified \cup {e}
        BY <2>2, <3>1, <3>2 DEF Sel!Next, Sel!Find
    <3>3. CASE verified' = {}
      <4>1. verified # {} /\ Collect
        <5>1. ~(GetChain \/ GetAssetList)
            BY <2>4, <3>3 DEF GetChain, GetAssetList, IInv, Quiet
        <5>2. \A e \in Endpoints : ~Step(e)
            BY <2>4, <3>3 DEF Step, ProbeStep, Probe, Load, AppendInPlace, AppendGrowing,
                              StoreHeader, StoreElement
        <5> QED
            BY <1>2, <2>4, <3>3, <5>1, <5>2 DEF Next
      <4>2. \A e \in Endpoints : verified # {e}
          BY <2>4, <4>1, CollectAlone DEF scanVars
      <4>3. Sel!Races
          BY <4>1, <4>2 DEF Sel!Races, IInv, TypeOK
      <4> QED
          BY <2>2, <3>1, <3>3, <4>3 DEF Sel!Next, Sel!TryNext
    <3> QED
        BY <3>1, <3>2, <3>3
  <2> QED
      BY <2>3, <2>4
<1> QED
    BY <1>1, <1>2

\* A caller of GetChain gets a healthy endpoint of the scan that decides; with at
\* most one healthy endpoint in it the probes cannot spoil that by their races.
THEOREM Implements == Spec => ImplementsSelection
<1>1. Init => Sel!Init
  <2> SUFFICES ASSUME Init PROVE Sel!Init
      OBVIOUS
  <2>1. verified = {} /\ ~fault /\ outcome = Pending
      BY DEF Init, InitScan
  <2> QED
      BY <2>1 DEF Sel!Init, Result
<1> QED
    BY <1>1, StepImplements, Invariance, AlwaysAlone, PTL DEF Spec, ImplementsSelection, Sel!Spec

-----------------------------------------------------------------------------
\* A probe in the middle of append has a word to go on with.
ProbesBusy == \A e \in Endpoints : pc[e] \in {"load", "store"} => todo[e] # {}

LEMMA WordsFinite == IsFiniteSet(AllWords) /\ Many \in Nat
<1>1. IsFiniteSet({} \cup {"ptr"})
    BY FS_EmptySet, FS_AddElement
<1>2. IsFiniteSet(({} \cup {"ptr"}) \cup {"len"})
    BY <1>1, FS_AddElement
<1>3. IsFiniteSet((({} \cup {"ptr"}) \cup {"len"}) \cup {"cap"})
    BY <1>2, FS_AddElement
<1>4. IsFiniteSet(((({} \cup {"ptr"}) \cup {"len"}) \cup {"cap"}) \cup {"bytes"})
    BY <1>3, FS_AddElement
<1>5. IsFiniteSet((((({} \cup {"ptr"}) \cup {"len"}) \cup {"cap"}) \cup {"bytes"}) \cup {"count"})
    BY <1>4, FS_AddElement
<1>6. AllWords = (((({} \cup {"ptr"}) \cup {"len"}) \cup {"cap"}) \cup {"bytes"}) \cup {"count"}
    BY DEF AllWords, Words, Halves
<1>7. IsFiniteSet(AllWords)
    BY <1>5, <1>6
<1> QED
    BY <1>7, FS_CardinalityType DEF Many

\* The words that are left are at most all, and one less after each.
LEMMA WordsCount ==
    ASSUME NEW S \in SUBSET AllWords
    PROVE  /\ Cardinality(S) \in 0..Many
           /\ \A w \in S : /\ Cardinality(S \ {w}) = Cardinality(S) - 1
                           /\ Cardinality(S) >= 1
           /\ S # {} => Cardinality(S) # 0
<1>1. IsFiniteSet(S) /\ Cardinality(S) <= Many
    BY WordsFinite, FS_Subset DEF Many
<1>2. Cardinality(S) \in Nat
    BY <1>1, FS_CardinalityType
<1>3. S # {} => Cardinality(S) # 0
    BY <1>1, FS_EmptySet
<1>4. ASSUME NEW w \in S
      PROVE  Cardinality(S \ {w}) = Cardinality(S) - 1 /\ Cardinality(S) >= 1
  <2>1. Cardinality(S \ {w}) = Cardinality(S) - 1
      BY <1>1, <1>4, FS_RemoveElement
  <2>2. Cardinality(S) # 0
      BY <1>3, <1>4
  <2> QED
      BY <1>2, <2>1, <2>2
<1> QED
    BY <1>1, <1>2, <1>3, <1>4, WordsFinite

\* A word dealt with, or the last one of a list.
LEMMA TickLess ==
    ASSUME ScanTypes, NEW e \in Endpoints, pc[e] \in {"load", "store"}, NEW w \in todo[e],
           Tick(e, w, IF pc[e] = "load" THEN "append" ELSE "done")
    PROVE  WordsLeft(e)' < WordsLeft(e) /\ (pc'[e] \in {"load", "store"} => todo'[e] # {})
<1>1. todo[e] \in SUBSET AllWords
    BY DEF ScanTypes, AllWords
<1>2. /\ Cardinality(todo[e]) \in 0..Many /\ Cardinality(todo[e]) >= 1
      /\ Cardinality(todo[e] \ {w}) = Cardinality(todo[e]) - 1
    BY <1>1, WordsCount
<1>3. /\ todo'[e] = todo[e] \ {w}
      /\ pc'[e] = IF todo[e] = {w} THEN (IF pc[e] = "load" THEN "append" ELSE "done") ELSE pc[e]
    BY DEF Tick, ScanTypes
<1>4. Many \in Nat
    BY WordsFinite
<1>5. CASE todo[e] = {w}
    BY <1>2, <1>3, <1>4, <1>5 DEF WordsLeft, Many
<1>6. CASE todo[e] # {w}
    BY <1>2, <1>3, <1>4, <1>6 DEF WordsLeft, Many
<1> QED
    BY <1>5, <1>6

\* Each step of a probe brings it nearer to its end, and no other probe further away,
\* whatever torn words it works with.
LEMMA ProbeGoesOn ==
    ASSUME ScanTypes, ProbesBusy, NEW e \in Endpoints, ProbeStep(e)
    PROVE  /\ \/ fault' /\ UNCHANGED <<pc, todo>>
              \/ WordsLeft(e)' < WordsLeft(e)
           /\ \A d \in Endpoints : d # e => WordsLeft(d)' = WordsLeft(d)
           /\ ProbesBusy'
<1>1. \A d \in Endpoints : d # e => pc'[d] = pc[d] /\ todo'[d] = todo[d]
    BY DEF ProbeStep, Probe, Load, AppendInPlace, AppendGrowing, StoreHeader, StoreElement,
           Tick, ScanTypes
<1>2. \A d \in Endpoints : d # e => WordsLeft(d)' = WordsLeft(d)
    BY <1>1 DEF WordsLeft, Many
<1>3. \/ fault' /\ UNCHANGED <<pc, todo>>
      \/ WordsLeft(e)' < WordsLeft(e) /\ (pc'[e] \in {"load", "store"} => todo'[e] # {})
  <2>1. Words \in SUBSET AllWords /\ {"len"} \cup Halves \in SUBSET AllWords
        /\ Words # {} /\ Halves # {}
      BY DEF AllWords, Words, Halves
  <2>2. CASE Probe(e)
    <3>1. pc[e] = "probe" /\ (pc'[e] = "done" \/ (pc'[e] = "load" /\ todo'[e] = Words))
        BY <2>2 DEF Probe, ScanTypes
    <3> QED
        BY <2>1, <3>1, WordsCount, WordsFinite DEF WordsLeft, Many
  <2>3. CASE AppendInPlace(e) \/ AppendGrowing(e)
    <3>1. \/ fault' /\ UNCHANGED <<pc, todo>>
          \/ /\ pc[e] = "append" /\ pc'[e] = "store"
             /\ todo'[e] \in {Words \cup Halves, {"len"} \cup Halves}
        BY <2>3, Zenon DEF AppendInPlace, AppendGrowing, ScanTypes
    <3>2. Words \cup Halves \in SUBSET AllWords /\ Words \cup Halves # {}
          /\ {"len"} \cup Halves # {}
        BY <2>1 DEF AllWords
    <3>3. CASE /\ pc[e] = "append" /\ pc'[e] = "store"
               /\ todo'[e] \in {Words \cup Halves, {"len"} \cup Halves}
      <4>1. Cardinality(todo'[e]) \in 0..Many
          BY <2>1, <3>2, <3>3, WordsCount
      <4> QED
          BY <3>2, <3>3, <4>1, WordsFinite DEF WordsLeft, Many
    <3> QED
        BY <3>1, <3>3
  <2>4. CASE Load(e)
    <3>1. pc[e] = "load" /\ \E w \in todo[e] : Tick(e, w, "append")
        BY <2>4 DEF Load
    <3> QED
        BY <3>1, TickLess
  <2>5. CASE StoreHeader(e) \/ StoreElement(e)
    <3>1. /\ pc[e] = "store"
          /\ \/ fault' /\ UNCHANGED <<pc, todo>>
             \/ \E w \in todo[e] : Tick(e, w, "done")
        BY <2>5, Zenon DEF StoreHeader, StoreElement
    <3> QED
        BY <3>1, TickLess
  <2> QED
      BY <2>2, <2>3, <2>4, <2>5 DEF ProbeStep
<1>4. ProbesBusy'
    BY <1>1, <1>3 DEF ProbesBusy
<1> QED
    BY <1>2, <1>3, <1>4

\* How much is left of each probe is finite, too.
WordsBounded == \A e \in Endpoints : WordsLeft(e) \in 0..(2 * Many + 2)

LEMMA BoundedByWords == TypeOK => WordsBounded
<1> SUFFICES ASSUME TypeOK, NEW e \in Endpoints PROVE WordsLeft(e) \in 0..(2 * Many + 2)
    BY DEF WordsBounded
<1>1. Many \in Nat /\ todo[e] \in SUBSET AllWords
    BY WordsFinite DEF TypeOK, AllWords
<1>2. Cardinality(todo[e]) \in 0..Many
    BY <1>1, WordsCount
<1>3. pc[e] \in {"idle", "probe", "load", "append", "store", "done"}
    BY DEF TypeOK
<1> QED
    BY <1>1, <1>2, <1>3 DEF WordsLeft

LEMMA EnterBusy == ASSUME NEW s, Enter(s) PROVE ProbesBusy'
BY DEF Enter, StartScan, ProbesBusy

LEMMA StepProgress ==
    ASSUME IInv, ProbesBusy, Next
    PROVE  Progress /\ ProbesBusy'
<1>0. ScanTypes
    BY DEF IInv, TypeOK, ScanTypes
<1>1. CASE GetChain
  <2>1. /\ stage = "start" /\ stage' \in {"assets", "done"} /\ UNCHANGED <<pc, todo>>
      BY <1>1 DEF GetChain, Return, scanVars
  <2> QED
      BY <2>1 DEF Progress, StagesLeft, ProbesBusy
<1>2. CASE GetAssetList
  <2>1. stage = "assets" /\ stage' \in {"domains", "random", "done"}
      BY <1>2 DEF GetAssetList, FirstScan, Enter, Return
  <2>2. ProbesBusy'
      BY <1>2, EnterBusy DEF GetAssetList, FirstScan, Return, scanVars, ProbesBusy
  <2> QED
      BY <2>1, <2>2 DEF Progress, StagesLeft
<1>3. CASE Collect
  <2>1. CASE NoneFound /\ Fall
    <3>1. StagesLeft(stage') < StagesLeft(stage)
        BY <2>1 DEF Fall, Enter, Return, StagesLeft
    <3>2. ProbesBusy'
        BY <2>1, EnterBusy DEF Fall, Return, scanVars, ProbesBusy
    <3> QED
        BY <3>1, <3>2 DEF Progress
  <2>2. ASSUME NEW i \in 1..header["len"], Take(Element(header["ptr"], i))
        PROVE  Progress /\ ProbesBusy'
    <3>1. stage \in Scans
        BY <1>3 DEF Collect
    <3>2. StagesLeft(stage') < StagesLeft(stage)
        BY <2>2, <3>1 DEF Take, Enter, Return, StagesLeft, Scans
    <3>3. ProbesBusy'
        BY <2>2, EnterBusy DEF Take, Return, scanVars, ProbesBusy
    <3> QED
        BY <3>2, <3>3 DEF Progress
  <2>3. CASE fault' = TRUE /\ UNCHANGED <<pc, todo>>
      BY <1>3, <2>3 DEF Collect, Finished, Progress, ProbesBusy
  <2> QED
      BY <1>3, <2>1, <2>2, <2>3, Zenon DEF Collect
<1>4. ASSUME NEW e \in Endpoints, Step(e) PROVE Progress /\ ProbesBusy'
  <2>1. ProbeStep(e) /\ ~fault /\ stage' = stage
      BY <1>4 DEF Step, ProbeStep, Probe, Load, AppendInPlace, AppendGrowing, StoreHeader,
                  StoreElement
  <2> QED
      BY <1>0, <2>1, ProbeGoesOn DEF Progress
<1> QED
    BY <1>1, <1>2, <1>3, <1>4 DEF Next

\* A call takes finitely many steps after its downloads, however its probes race: with
\* fairness it returns, or the process ends.
THEOREM SelectionProgresses == Spec => [](ProbesBusy /\ WordsBounded) /\ EveryStepCounts
<1>1. Init => ProbesBusy
    BY DEF Init, InitScan, ProbesBusy
<1>2. IInv /\ ProbesBusy /\ [Next]_vars => ProbesBusy' /\ [Progress]_vars
  <2>1. UNCHANGED vars /\ ProbesBusy => ProbesBusy'
      BY DEF vars, scanVars, ProbesBusy
  <2> QED
      BY <2>1, StepProgress
<1>3. IInv => WordsBounded
    BY BoundedByWords DEF IInv
<1> QED
    BY <1>1, <1>2, <1>3, Invariance, PTL DEF Spec, EveryStepCounts
=============================================================================
