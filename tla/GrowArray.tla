----------------------------- MODULE GrowArray -----------------------------
(***************************************************************************)
(* The growable arrays of src/src/xair.c (values, ops, blocks, term_args,  *)
(* a block's params and ops, the executor's pages): a used count, a        *)
(* capacity and size_t arithmetic that wraps at SizeMax.                   *)
(***************************************************************************)
EXTENDS Naturals

CONSTANTS
  SizeMax,    \* SIZE_MAX
  ElemSize,   \* sizeof of an element; every array holds at least 4-byte ids
  FirstCap,   \* the capacity of the first allocation, 8
  Batches     \* numbers of elements appended by one call

ASSUME SizeAssumption ==
  /\ SizeMax \in Nat /\ ElemSize \in Nat
  /\ ElemSize >= 2 /\ FirstCap \in 1 .. SizeMax

(* Mutant: the element size is forgotten.                                  *)
ByteLimit == SizeMax

(* next_cap > SIZE_MAX / elem_size is refused.                             *)
Limit == SizeMax \div ElemSize

(* A client passes arrays that exist: n elements fit in the address space. *)
ASSUME BatchAssumption == Batches \subseteq 1 .. Limit

VARIABLES count, cap, status
vars == <<count, cap, status>>

Init == count = 0 /\ cap = 0 /\ status = "OK"

Wrap(n) == n % (SizeMax + 1)

(* Mutant: the doubling stops one short.                                   *)
GrownShort(need) ==
  LET next_cap[c \in 1 .. SizeMax] ==
        IF c + 1 >= need THEN c ELSE IF c > SizeMax \div 2 THEN 0 ELSE next_cap[2 * c]
  IN  {c \in 1 .. Limit : c = next_cap[IF cap = 0 THEN FirstCap ELSE cap]}

(* The capacities a successful grow_array may leave: next_cap doubles      *)
(* until it reaches need, unless doubling or the byte size would overflow. *)
GrownCap(need) ==
  LET next_cap[c \in 1 .. SizeMax] ==
        IF c >= need THEN c ELSE IF c > SizeMax \div 2 THEN 0 ELSE next_cap[2 * c]
  IN  {c \in 1 .. Limit : c = next_cap[IF cap = 0 THEN FirstCap ELSE cap] /\ need <= c}

grow_array(need) == IF need <= cap THEN cap' = cap ELSE cap' \in GrownCap(need)

(* An append of n elements that succeeds.                                  *)
Append(n) ==
  /\ grow_array(Wrap(count + n))
  /\ count' = Wrap(count + n) /\ status' = "OK"

(* grow_array refuses, or realloc fails, and nothing changes.              *)
AppendFails(n) ==
  /\ Wrap(count + n) > cap
  /\ status' = "OOM" /\ UNCHANGED <<count, cap>>

(* The array grows, but a later step of the same call fails and add_op or  *)
(* xair_block_add_param takes the element back with count--.               *)
AppendUndone ==
  /\ grow_array(count + 1)
  /\ status' = "OOM" /\ count' = count

(* shrink_array at the freeze, which may fail in realloc.                  *)
Shrink ==
  \/ cap' = count /\ status' = "OK" /\ count' = count
  \/ /\ count # 0 /\ cap # count
     /\ status' = "OOM" /\ UNCHANGED <<count, cap>>

(* compact_live_values installs arrays of exactly the live elements.       *)
Compact ==
  /\ \E live \in 0 .. count : count' = live /\ cap' = live
  /\ status' = "OK"

Next == (\E n \in Batches : Append(n) \/ AppendFails(n)) \/ AppendUndone \/ Shrink \/ Compact

Spec == Init /\ [][Next]_vars

-----------------------------------------------------------------------------
(* The variables are sizes and a status.                                   *)
TypeOK == count \in Nat /\ cap \in Nat /\ status \in {"OK", "OOM"}

(* Every element counted is allocated, and the byte size of the allocation *)
(* does not overflow, through growth, rollback, freeze and compaction.     *)
Allocated == count <= cap /\ cap <= Limit

(* The sum count + n that append_term_args passes to grow_array never      *)
(* wraps, so an append that succeeds really adds n elements.               *)
NoWrap == \A n \in Batches : Wrap(count + n) = count + n
=============================================================================
