---------------------------- MODULE EndpointScan ----------------------------
(***************************************************************************)
(* The scan of endpoints that the three ways of client/chain_registry/     *)
(* chain_info.go to choose one share: a probe per endpoint, each in a      *)
(* goroutine of an errgroup, appends the healthy ones to one slice.        *)
(*                                                                         *)
(* No lock guards the append.  It loads and stores the three words of the  *)
(* slice's header and the two of the new element one by one, in an order   *)
(* that Go's memory model leaves open.  An array is named by the endpoint  *)
(* whose probe allocated it.                                               *)
(***************************************************************************)
EXTENDS Integers, FiniteSets

CONSTANTS
    Endpoints,
    Nil,        \* the nil pointer, and the length of the empty string
    Outside     \* of a string read where the scan has no element: any string

ASSUME EndpointsAssumption == /\ IsFiniteSet(Endpoints)
                              /\ Endpoints \cap {Nil, Outside} = {} /\ Nil # Outside

VARIABLES
    pc,         \* the probes
    verified,   \* the endpoints found healthy
    header,     \* the slice header of endpoints
    array,      \* the elements of each array
    size,       \* its capacity, 0 before it is allocated
    regs,       \* the copy of the header a probe appends with
    todo,       \* the words it has yet to load or store
    fault       \* has an access outside of the arrays ended the process, or written?

scanVars == <<pc, verified, header, array, size, regs, todo, fault>>

Words == {"ptr", "len", "cap"}
NilSlice == [w \in Words |-> IF w = "ptr" THEN Nil ELSE 0]

\* A string is a pointer to its bytes and a length: here, whose they are.
Halves == {"bytes", "count"}
Whole(e) == [h \in Halves |-> e]
EmptyString == Whole(Nil)

Slots == 1..Cardinality(Endpoints)
NoArray == [i \in Slots |-> EmptyString]

InitScan ==
    /\ pc = [e \in Endpoints |-> "idle"]
    /\ verified = {}
    /\ header = NilSlice
    /\ array = [e \in Endpoints |-> NoArray]
    /\ size = [e \in Endpoints |-> 0]
    /\ regs = [e \in Endpoints |-> NilSlice]
    /\ todo = [e \in Endpoints |-> {}]
    /\ fault = FALSE

\* A new scan, of the endpoints in S, with variables of its own.
StartScan(S) ==
    /\ pc' = [e \in Endpoints |-> IF e \in S THEN "probe" ELSE "idle"]
    /\ verified' = {}
    /\ header' = NilSlice
    /\ array' = [e \in Endpoints |-> NoArray]
    /\ size' = [e \in Endpoints |-> 0]
    /\ regs' = [e \in Endpoints |-> NilSlice]
    /\ todo' = [e \in Endpoints |-> {}]
    /\ UNCHANGED fault

\* Variant of Probe: an endpoint that is catching up counts as healthy.
ProbeAll(e) ==
    /\ ~fault /\ pc[e] = "probe"
    /\ \/ verified' = verified \cup {e}
       \/ UNCHANGED verified
    /\ pc' = [pc EXCEPT ![e] = "load"]
    /\ todo' = [todo EXCEPT ![e] = Words]
    /\ UNCHANGED <<header, array, size, regs, fault>>

\* IsHealthyRPC, which has a timeout.
Probe(e) ==
    /\ ~fault /\ pc[e] = "probe"
    /\ \/ /\ verified' = verified \cup {e}
          /\ pc' = [pc EXCEPT ![e] = "load"]
          /\ todo' = [todo EXCEPT ![e] = Words]
       \/ pc' = [pc EXCEPT ![e] = "done"] /\ UNCHANGED <<verified, todo>>
    /\ UNCHANGED <<header, array, size, regs, fault>>

\* A probe has dealt with w, and goes on to next if that was the last word.
Tick(e, w, next) ==
    /\ todo' = [todo EXCEPT ![e] = @ \ {w}]
    /\ pc' = [pc EXCEPT ![e] = IF todo[e] = {w} THEN next ELSE @]

Load(e) ==
    /\ ~fault /\ pc[e] = "load"
    /\ \E w \in todo[e] :
          /\ regs' = [regs EXCEPT ![e][w] = header[w]]
          /\ Tick(e, w, "append")
    /\ UNCHANGED <<verified, header, array, size, fault>>

\* Is there an i-th element in the array ptr points to?  Where there is none, an
\* access through the nil pointer ends the process.  Another one may do so; if not,
\* a read yields any string, and a write changes memory that is not the scan's, and
\* what the process does then is not followed: fault stands for both.
InArray(ptr, i) == ptr # Nil /\ i <= size[ptr]
Element(ptr, i) == IF i <= size[ptr] THEN array[ptr][i] ELSE Whole(Outside)

\* The capacity growslice chooses for len elements, below 256.
NewCap(cap, len) == IF len > 2 * cap THEN len ELSE 2 * cap

\* append: the element goes into the array, if cap says there is room for it.
AppendInPlace(e) ==
    /\ ~fault /\ pc[e] = "append"
    /\ regs[e]["len"] < regs[e]["cap"]
    /\ regs' = [regs EXCEPT ![e]["len"] = @ + 1]
    /\ todo' = [todo EXCEPT ![e] = {"len"} \cup Halves]
    /\ pc' = [pc EXCEPT ![e] = "store"]
    /\ UNCHANGED <<verified, header, array, size, fault>>

\* Otherwise into a larger one, which the elements are copied to.
AppendGrowing(e) ==
    LET r == regs[e]
    IN  /\ ~fault /\ pc[e] = "append"
        /\ r["len"] >= r["cap"]
        /\ \/ /\ r["len"] = 0 \/ r["ptr"] # Nil
              /\ array' = [array EXCEPT ![e] = [i \in Slots |->
                              IF i <= r["len"] THEN Element(r["ptr"], i) ELSE EmptyString]]
              /\ size' = [size EXCEPT ![e] = NewCap(r["cap"], r["len"] + 1)]
              /\ regs' = [regs EXCEPT ![e] = [w \in Words |->
                             CASE w = "ptr" -> e
                               [] w = "len" -> r["len"] + 1
                               [] w = "cap" -> NewCap(r["cap"], r["len"] + 1)]]
              /\ todo' = [todo EXCEPT ![e] = Words \cup Halves]
              /\ pc' = [pc EXCEPT ![e] = "store"]
              /\ UNCHANGED fault
           \/ /\ r["len"] # 0 /\ ~InArray(r["ptr"], r["len"])
              /\ fault' = TRUE
              /\ UNCHANGED <<pc, array, size, regs, todo>>
        /\ UNCHANGED <<verified, header>>

StoreHeader(e) ==
    /\ ~fault /\ pc[e] = "store"
    /\ \E w \in todo[e] \cap Words :
          /\ header' = [header EXCEPT ![w] = regs[e][w]]
          /\ Tick(e, w, "done")
    /\ UNCHANGED <<verified, array, size, regs, fault>>

StoreElement(e) ==
    LET ptr == regs[e]["ptr"]
        i == regs[e]["len"]
    IN  /\ ~fault /\ pc[e] = "store"
        /\ \E h \in todo[e] \cap Halves :
              \/ /\ InArray(ptr, i)
                 /\ array' = [array EXCEPT ![ptr][i][h] = e]
                 /\ Tick(e, h, "done")
                 /\ UNCHANGED fault
              \/ /\ ~InArray(ptr, i)
                 /\ fault' = TRUE
                 /\ UNCHANGED <<pc, array, todo>>
        /\ UNCHANGED <<verified, header, size, regs>>

ProbeStep(e) == Probe(e) \/ Load(e) \/ AppendInPlace(e) \/ AppendGrowing(e)
                  \/ StoreHeader(e) \/ StoreElement(e)

\* How many words a probe has left to load and store, at most.
AllWords == Words \cup Halves
Many == Cardinality(AllWords)
WordsLeft(e) ==
    CASE pc[e] = "probe" -> 2 * Many + 2
      [] pc[e] = "load" -> Many + 1 + Cardinality(todo[e])
      [] pc[e] = "append" -> Many + 1
      [] pc[e] = "store" -> Cardinality(todo[e])
      [] pc[e] \in {"idle", "done"} -> 0

\* Variant of Finished: it does not wait for the probes.
FinishedAtOnce == ~fault

\* errgroup.Wait returns.
Finished == ~fault /\ \A e \in Endpoints : pc[e] \in {"idle", "done"}
=============================================================================
