-------------------------- MODULE ValueNumberTable --------------------------
(***************************************************************************)
(* The open-addressing table behind value numbering in src/src/xair.c:     *)
(* linear probing, capacity doubled before it is half full, entries never  *)
(* deleted one by one, everything dropped by value_number_clear.           *)
(* XairModule uses it as the set `numbered` of ValueNumberSet.             *)
(***************************************************************************)
EXTENDS Naturals, FiniteSets

CONSTANTS
  Keys,       \* structural expressions, each with one 64-bit hash
  NoKey,      \* the content of a slot that is not used
  Hash,       \* value_number_hash, as a function on Keys
  FirstCap,   \* the first capacity, 64
  MaxCap      \* bound: value_number_cap

ASSUME TableAssumption ==
  /\ NoKey \notin Keys
  /\ Hash \in [Keys -> Nat]
  /\ FirstCap \in Nat /\ FirstCap > 2 /\ MaxCap \in Nat

VARIABLES
  table,   \* value_numbers: slot -> key, or NoKey when !used
  cap, count,
  hit      \* the outcome of the last call, with the expression it was about:
           \* "reused", "created", "failed" or "cleared"
vars == <<table, cap, count, hit>>

NoTable == [i \in {} |-> NoKey]

Init == table = NoTable /\ cap = 0 /\ count = 0 /\ hit = <<"cleared", NoKey>>

Probe(k, i, size) == (Hash[k] + i) % size

(* value_number_lookup: the probe stops at the first free slot.            *)
value_number_lookup(k) ==
  \E i \in 0 .. (cap - 1) :
    /\ table[Probe(k, i, cap)] = k
    /\ \A j \in 0 .. (i - 1) : table[Probe(k, j, cap)] # NoKey

(* The first free slot on the probe path of k.                             *)
FreeSlot(t, k, size) ==
  LET free == {i \in 0 .. (size - 1) : t[Probe(k, i, size)] = NoKey}
  IN  Probe(k, CHOOSE i \in free : \A j \in free : i <= j, size)

PutKey(t, k, size) == [t EXCEPT ![FreeSlot(t, k, size)] = k]

(* Mutant: entries keep their slot.                                        *)
CopySlots(next) == [s \in 0 .. (next - 1) |-> IF s < cap THEN table[s] ELSE NoKey]

(* value_number_grow reinserts the old entries in slot order.              *)
value_number_grow(next) ==
  LET moved[i \in 0 .. cap] ==
        IF i = 0 THEN [s \in 0 .. (next - 1) |-> NoKey]
        ELSE IF table[i - 1] = NoKey THEN moved[i - 1]
        ELSE PutKey(moved[i - 1], table[i - 1], next)
  IN  moved[cap]

(* Mutant: the table fills up before it grows.                             *)
GrowWhenFull == cap = 0 \/ count + 1 >= cap

MustGrow == cap = 0 \/ (count + 1) * 2 >= cap
NextCap == IF cap = 0 THEN FirstCap ELSE cap * 2

(* add_op on an expression that is already numbered.                       *)
Reuse(k) ==
  /\ value_number_lookup(k)
  /\ hit' = <<"reused", k>>
  /\ UNCHANGED <<table, cap, count>>

(* add_op on a new expression.  The table is made ready first; a failure   *)
(* after that keeps the larger table but inserts nothing.                  *)
Create(k) ==
  /\ ~value_number_lookup(k)
  /\ MustGrow => NextCap <= MaxCap
  /\ LET size == IF MustGrow THEN NextCap ELSE cap
         ready == IF MustGrow THEN value_number_grow(NextCap) ELSE table
     IN  /\ cap' = size
         /\ \/ table' = PutKey(ready, k, size) /\ count' = count + 1 /\ hit' = <<"created", k>>
            \/ table' = ready /\ count' = count /\ hit' = <<"failed", k>>

(* prepare_insert itself runs out of memory.                               *)
GrowFails(k) ==
  /\ ~value_number_lookup(k) /\ MustGrow
  /\ hit' = <<"failed", k>>
  /\ UNCHANGED <<table, cap, count>>

value_number_clear ==
  /\ table' = NoTable /\ cap' = 0 /\ count' = 0 /\ hit' = <<"cleared", NoKey>>

Next == (\E k \in Keys : Reuse(k) \/ Create(k) \/ GrowFails(k)) \/ value_number_clear

Spec == Init /\ [][Next]_vars

-----------------------------------------------------------------------------
Stored == {table[i] : i \in 0 .. (cap - 1)} \ {NoKey}

(* The table is empty or less than half full, and count is exact: every    *)
(* probe loop meets a free slot and the unbounded insertion loop ends.     *)
HalfEmpty ==
  /\ cap # 0 => 2 * count < cap
  /\ count = Cardinality({i \in 0 .. (cap - 1) : table[i] # NoKey})

(* The table implements a plain set of expressions: growth and collisions  *)
(* never hide an entry behind a free slot, so that a lookup finds exactly  *)
(* what was stored.                                                        *)
Abstract == INSTANCE ValueNumberSet WITH numbered <- Stored
ImplementsSet == Abstract!Spec
=============================================================================
