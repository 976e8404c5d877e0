-------------------------- MODULE GrowArray_proofs --------------------------
(***************************************************************************)
(* The growable arrays stay within their allocation for every word size,   *)
(* element size and first capacity.                                        *)
(***************************************************************************)
EXTENDS GrowArray, TLAPS

(* Two allocations still have a number of elements that size_t can count,  *)
(* because an element takes at least two bytes.                            *)
LEMMA TwoLimits == Limit \in Nat /\ 2 * Limit <= SizeMax
  <1>1. \A q \in Nat : ElemSize * q <= SizeMax => 2 * q <= SizeMax
    BY SizeAssumption
  <1>2. Limit \in Nat /\ ElemSize * Limit <= SizeMax
    BY SizeAssumption DEF Limit
  <1> QED BY <1>1, <1>2

Inv == TypeOK /\ Allocated

(* Under the invariant no sum of two sizes that the code forms wraps.      *)
LEMMA SumsDoNotWrap ==
  ASSUME Inv, NEW n \in 1 .. Limit
  PROVE  Wrap(count + n) = count + n
  <1>1. count + n \in 0 .. SizeMax
    BY TwoLimits, SizeAssumption DEF Inv, TypeOK, Allocated
  <1> QED BY <1>1, SizeAssumption DEF Wrap

LEMMA GrowArrayFits ==
  ASSUME Inv, NEW need \in Nat, grow_array(need)
  PROVE  cap' \in Nat /\ need <= cap' /\ cap' <= Limit
  <1>1. CASE need <= cap
    BY <1>1 DEF grow_array, Inv, TypeOK, Allocated
  <1>2. CASE ~(need <= cap)
    <2>1. cap' \in GrownCap(need)
      BY <1>2 DEF grow_array
    <2>2. \A c \in GrownCap(need) : c \in 1 .. Limit /\ need <= c
      BY DEF GrownCap
    <2> QED BY <2>1, <2>2, TwoLimits
  <1> QED BY <1>1, <1>2

LEMMA InvHolds == Spec => []Inv
  <1>1. Init => Inv
    BY TwoLimits DEF Init, Inv, TypeOK, Allocated
  <1>2. Inv /\ [Next]_vars => Inv'
    <2> SUFFICES ASSUME Inv, [Next]_vars PROVE Inv'
      OBVIOUS
    <2>1. ASSUME NEW n \in Batches, Append(n) PROVE Inv'
      <3>1. n \in 1 .. Limit /\ Wrap(count + n) = count + n
        BY BatchAssumption, SumsDoNotWrap
      <3>2. cap' \in Nat /\ count + n <= cap' /\ cap' <= Limit
        BY <2>1, <3>1, GrowArrayFits DEF Append, Inv, TypeOK
      <3> QED BY <2>1, <3>1, <3>2 DEF Append, Inv, TypeOK, Allocated
    <2>2. ASSUME NEW n \in Batches, AppendFails(n) PROVE Inv'
      BY <2>2 DEF AppendFails, Inv, TypeOK, Allocated
    <2>3. CASE AppendUndone
      <3>1. cap' \in Nat /\ count + 1 <= cap' /\ cap' <= Limit
        BY <2>3, GrowArrayFits DEF AppendUndone, Inv, TypeOK
      <3> QED BY <2>3, <3>1 DEF AppendUndone, Inv, TypeOK, Allocated
    <2>4. CASE Shrink
      BY <2>4, TwoLimits DEF Shrink, Inv, TypeOK, Allocated
    <2>5. CASE Compact
      BY <2>5, TwoLimits DEF Compact, Inv, TypeOK, Allocated
    <2>6. CASE UNCHANGED vars
      BY <2>6 DEF vars, Inv, TypeOK, Allocated
    <2> QED BY <2>1, <2>2, <2>3, <2>4, <2>5, <2>6 DEF Next
  <1> QED BY <1>1, <1>2, PTL DEF Spec

(* The used part of an array always lies inside its allocation, whose byte *)
(* size never overflows: grow_array, shrink_array and the compaction.      *)
THEOREM AllocatedAlways == Spec => []Allocated
  <1>1. Inv => Allocated
    BY DEF Inv
  <1> QED BY <1>1, InvHolds, PTL

(* The unchecked sum term_arg_count + arg_count in append_term_args never  *)
(* wraps.                                                                  *)
THEOREM NoWrapAlways == Spec => []NoWrap
  <1>1. Inv => NoWrap
    BY SumsDoNotWrap, BatchAssumption DEF NoWrap
  <1> QED BY <1>1, InvHolds, PTL
=============================================================================
