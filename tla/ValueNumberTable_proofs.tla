---------------------- MODULE ValueNumberTable_proofs -----------------------
(***************************************************************************)
(* The hash table behind value numbering stays less than half full and     *)
(* implements a set of expressions, for every hash function, every first   *)
(* capacity above two and every set of expressions.                        *)
(*                                                                         *)
(* The invariant is Reachable: a stored expression sits on its own probe   *)
(* path with no free slot before it.  An insertion takes the first free    *)
(* slot of the path, so it keeps every other path; a rehash is a series of *)
(* insertions, and there is always a free slot because the table is less   *)
(* than half full.                                                         *)
(***************************************************************************)
EXTENDS ValueNumberTable, WellFoundedInduction, TLAPS, FiniteSetTheorems

-----------------------------------------------------------------------------
(* Induction and division.                                                 *)

(* The order of the naturals is well-founded.                              *)
LEMMA LeastElement ==
  ASSUME NEW S, S \subseteq Nat, S # {}
  PROVE  \E n \in S : \A k \in S : n <= k
  <1>1. PICK n \in S : \A k \in S : ~(<<k, n>> \in OpToRel(<, Nat))
    BY NatLessThanWellFounded, WFMin, Zenon
  <1>2. ASSUME NEW k \in S, k < n
        PROVE  <<k, n>> \in OpToRel(<, Nat)
    <2>1. <<k, n>>[1] < <<k, n>>[2]
      BY <1>2
    <2>2. <<k, n>> \in Nat \X Nat
      OBVIOUS
    <2> QED BY <2>1, <2>2, Zenon DEF OpToRel
  <1>3. \A k \in S : ~(k < n)
    BY <1>1, <1>2, Zenon
  <1> QED BY <1>3

(* Induction for a set of naturals.                                        *)
LEMMA InductionOnSet ==
  ASSUME NEW S, 0 \in S, \A n \in Nat : n \in S => n + 1 \in S
  PROVE  \A n \in Nat : n \in S
  <1>1. SUFFICES ASSUME Nat \ S # {}
                 PROVE  FALSE
    OBVIOUS
  <1>2. PICK n \in Nat \ S : \A k \in Nat \ S : n <= k
    BY <1>1, LeastElement
  <1>3. n - 1 \in Nat /\ n - 1 \in S
    BY <1>2
  <1> QED BY <1>2, <1>3

(* Division with remainder.                                                *)
LEMMA DivMod ==
  ASSUME NEW P \in Nat \ {0}, NEW x \in Nat
  PROVE  /\ x \div P \in Nat /\ x % P \in 0 .. (P - 1)
         /\ x = (x \div P) * P + (x % P)
  OBVIOUS

LEMMA DivModUnique ==
  ASSUME NEW P \in Nat \ {0}, NEW q \in Nat, NEW r \in 0 .. (P - 1)
  PROVE  (q * P + r) \div P = q /\ (q * P + r) % P = r
  OBVIOUS

-----------------------------------------------------------------------------

Slots(size) == 0 .. (size - 1)
Tables(size) == [Slots(size) -> Keys \cup {NoKey}]
Used(t, size) == {s \in Slots(size) : t[s] # NoKey}
StoredIn(t, size) == {t[s] : s \in Slots(size)} \ {NoKey}

(* k is in the table, and no free slot comes before it on its path.        *)
Found(t, k, size) ==
  \E i \in Slots(size) :
    /\ t[Probe(k, i, size)] = k
    /\ \A j \in 0 .. (i - 1) : t[Probe(k, j, size)] # NoKey

Reachable(t, size) == \A k \in StoredIn(t, size) : Found(t, k, size)

-----------------------------------------------------------------------------
(* Probing.                                                                *)

LEMMA ProbeIsSlot ==
  ASSUME NEW size \in Nat \ {0}, NEW k \in Keys, NEW i \in Nat
  PROVE  Probe(k, i, size) \in Slots(size)
  <1>1. Hash[k] + i \in Nat
    BY TableAssumption
  <1> QED BY <1>1, DivMod DEF Probe, Slots

(* A probe path passes through every slot.                                 *)
LEMMA ProbeCovers ==
  ASSUME NEW size \in Nat \ {0}, NEW k \in Keys, NEW s \in Slots(size)
  PROVE  \E i \in Slots(size) : Probe(k, i, size) = s
  <1>1. PICK h \in Nat : h = Hash[k]
    BY TableAssumption
  <1>2. PICK q \in Nat, r \in 0 .. (size - 1) : h = q * size + r
    BY DivMod
  <1>3. s \in Nat /\ s < size
    BY DEF Slots
  <1>4. CASE r <= s
    <2>1. h + (s - r) = q * size + s
      BY <1>2, <1>3
    <2>2. (h + (s - r)) % size = s
      <3>1. (q * size + s) % size = s
        BY <1>3, DivModUnique
      <3> QED BY <2>1, <3>1
    <2>3. s - r \in Slots(size)
      BY <1>3, <1>4 DEF Slots
    <2> QED BY <1>1, <2>2, <2>3 DEF Probe
  <1>5. CASE s < r
    <2>1. h + (s - r + size) = (q + 1) * size + s
      BY <1>2, <1>3
    <2>2. (h + (s - r + size)) % size = s
      <3>1. q + 1 \in Nat
        OBVIOUS
      <3>2. ((q + 1) * size + s) % size = s
        BY <1>3, <3>1, DivModUnique
      <3> QED BY <2>1, <3>2
    <2>3. s - r + size \in Slots(size)
      BY <1>3, <1>5 DEF Slots
    <2> QED BY <1>1, <2>2, <2>3 DEF Probe
  <1> QED BY <1>3, <1>4, <1>5

(* FreeSlot is free, and every slot before it on the path is taken.        *)
LEMMA FirstFree ==
  ASSUME NEW size \in Nat \ {0}, NEW t \in Tables(size), NEW k \in Keys,
         NEW s \in Slots(size), t[s] = NoKey
  PROVE  \E i \in Slots(size) :
           /\ FreeSlot(t, k, size) = Probe(k, i, size)
           /\ t[Probe(k, i, size)] = NoKey
           /\ \A j \in 0 .. (i - 1) : t[Probe(k, j, size)] # NoKey
  <1> DEFINE free == {i \in 0 .. (size - 1) : t[Probe(k, i, size)] = NoKey}
  <1>1. free # {} /\ free \subseteq Nat
    <2>1. PICK i \in Slots(size) : Probe(k, i, size) = s
      BY ProbeCovers
    <2> QED BY <2>1 DEF Slots
  <1>2. PICK i : i = CHOOSE x \in free : \A j \in free : x <= j
    OBVIOUS
  <1>3. i \in free /\ \A j \in free : i <= j
    <2> HIDE DEF free
    <2>1. \E x \in free : \A j \in free : x <= j
      BY <1>1, LeastElement
    <2> QED BY <1>2, <2>1
  <1>4. FreeSlot(t, k, size) = Probe(k, i, size)
    BY <1>2 DEF FreeSlot
  <1>5. ASSUME NEW j \in 0 .. (i - 1)
        PROVE  t[Probe(k, j, size)] # NoKey
    BY <1>3
  <1> QED BY <1>3, <1>4, <1>5 DEF Slots

-----------------------------------------------------------------------------
(* One insertion.                                                          *)

(* n is t with k put in a slot that was free.                              *)
OneKeyMore(t, n, k, size) ==
  /\ n \in Tables(size) /\ Reachable(n, size)
  /\ StoredIn(n, size) = StoredIn(t, size) \cup {k}
  /\ IsFiniteSet(Used(n, size)) /\ Cardinality(Used(n, size)) = Cardinality(Used(t, size)) + 1

LEMMA UsedFinite ==
  ASSUME NEW size \in Nat, NEW t
  PROVE  /\ IsFiniteSet(Used(t, size)) /\ Cardinality(Used(t, size)) \in Nat
         /\ Cardinality(Used(t, size)) < size => \E s \in Slots(size) : t[s] = NoKey
  <1>1. IsFiniteSet(Slots(size)) /\ Cardinality(Slots(size)) = size
    <2>1. 0 \in Int /\ size - 1 \in Int
      OBVIOUS
    <2>2. /\ IsFiniteSet(0 .. (size - 1))
          /\ Cardinality(0 .. (size - 1)) = IF 0 > size - 1 THEN 0 ELSE (size - 1) - 0 + 1
      BY <2>1, FS_Interval
    <2> QED BY <2>2 DEF Slots
  <1>2. Used(t, size) \in SUBSET Slots(size)
    BY DEF Used
  <1>3. IsFiniteSet(Used(t, size)) /\ Cardinality(Used(t, size)) \in Nat
    BY <1>1, <1>2, FS_Subset, FS_CardinalityType
  <1>4. ASSUME Cardinality(Used(t, size)) < size
        PROVE  \E s \in Slots(size) : t[s] = NoKey
    <2>1. Cardinality(Used(t, size)) # Cardinality(Slots(size))
      BY <1>1, <1>3, <1>4
    <2>2. Used(t, size) # Slots(size)
      BY <2>1
    <2> QED BY <2>2 DEF Used
  <1> QED BY <1>3, <1>4

LEMMA PutKeyAddsOne ==
  ASSUME NEW size \in Nat \ {0}, NEW t \in Tables(size), Reachable(t, size), NEW k \in Keys,
         Cardinality(Used(t, size)) < size
  PROVE  OneKeyMore(t, PutKey(t, k, size), k, size)
  <1>1. PICK s \in Slots(size) : t[s] = NoKey
    BY UsedFinite
  <1>2. PICK i \in Slots(size) :
           /\ FreeSlot(t, k, size) = Probe(k, i, size)
           /\ t[Probe(k, i, size)] = NoKey
           /\ \A j \in 0 .. (i - 1) : t[Probe(k, j, size)] # NoKey
    BY <1>1, FirstFree
  <1>3. PICK f : f = Probe(k, i, size)
    OBVIOUS
  <1>4. PICK n : n = PutKey(t, k, size)
    OBVIOUS
  <1>5. f \in Slots(size) /\ t[f] = NoKey /\ k # NoKey
    <2>1. i \in Nat
      BY DEF Slots
    <2>2. f \in Slots(size)
      BY <1>3, <2>1, ProbeIsSlot
    <2> QED BY <1>2, <1>3, <2>2, TableAssumption
  <1>6. n = [t EXCEPT ![f] = k]
    BY <1>2, <1>3, <1>4 DEF PutKey
  <1>7. n \in Tables(size)
    BY <1>5, <1>6 DEF Tables
  <1>8. n[f] = k /\ \A x \in Slots(size) : x # f => n[x] = t[x]
    BY <1>5, <1>6 DEF Tables
  <1>9. \A x \in Slots(size) : t[x] # NoKey => n[x] = t[x]
    BY <1>5, <1>8
  <1>10. StoredIn(n, size) = StoredIn(t, size) \cup {k}
    BY <1>5, <1>8 DEF StoredIn
  <1>11. Used(n, size) = Used(t, size) \cup {f} /\ f \notin Used(t, size)
    BY <1>5, <1>8 DEF Used
  <1>12. IsFiniteSet(Used(n, size)) /\ Cardinality(Used(n, size)) = Cardinality(Used(t, size)) + 1
    BY <1>11, UsedFinite, FS_AddElement
  <1>13. Reachable(n, size)
    <2>1. SUFFICES ASSUME NEW x \in StoredIn(n, size)
                   PROVE  Found(n, x, size)
      BY DEF Reachable
    <2>2. x \in Keys
      BY <1>7 DEF StoredIn, Tables
    <2>3. ASSUME NEW j \in Nat, t[Probe(x, j, size)] # NoKey
          PROVE  n[Probe(x, j, size)] = t[Probe(x, j, size)]
      BY <1>9, <2>2, <2>3, ProbeIsSlot
    <2>4. CASE x = k
      <3>1. ASSUME NEW j \in 0 .. (i - 1)
            PROVE  n[Probe(k, j, size)] # NoKey
        <4>1. j \in Nat /\ t[Probe(k, j, size)] # NoKey
          BY <1>2
        <4> QED BY <2>3, <2>4, <4>1
      <3>2. n[Probe(k, i, size)] = k
        BY <1>3, <1>8
      <3> QED BY <2>4, <3>1, <3>2 DEF Found
    <2>5. CASE x # k
      <3>1. x \in StoredIn(t, size)
        BY <1>10, <2>5
      <3>2. PICK m \in Slots(size) :
               /\ t[Probe(x, m, size)] = x
               /\ \A j \in 0 .. (m - 1) : t[Probe(x, j, size)] # NoKey
        BY <3>1 DEF Reachable, Found
      <3>3. n[Probe(x, m, size)] = x
        <4>1. m \in Nat /\ t[Probe(x, m, size)] # NoKey
          BY <2>2, <3>2, TableAssumption DEF Slots
        <4> QED BY <2>3, <3>2, <4>1
      <3>4. ASSUME NEW j \in 0 .. (m - 1)
            PROVE  n[Probe(x, j, size)] # NoKey
        <4>1. j \in Nat /\ t[Probe(x, j, size)] # NoKey
          BY <3>2 DEF Slots
        <4> QED BY <2>3, <4>1
      <3> QED BY <3>3, <3>4 DEF Found
    <2> QED BY <2>4, <2>5
  <1> QED BY <1>4, <1>7, <1>10, <1>12, <1>13 DEF OneKeyMore

-----------------------------------------------------------------------------
(* A rehash, slot by slot.                                                 *)

(* What the recursive definition in value_number_grow means.               *)
Moved(next, n, f) ==
  f = [i \in 0 .. n |-> IF i = 0 THEN [s \in 0 .. (next - 1) |-> NoKey]
                        ELSE IF table[i - 1] = NoKey THEN f[i - 1]
                        ELSE PutKey(f[i - 1], table[i - 1], next)]

LEMMA MovedExists ==
  ASSUME NEW next, NEW n \in Nat
  PROVE  \E f : Moved(next, n, f)
  <1> DEFINE S == {k \in Nat : \E f : Moved(next, k, f)}
  <1>1. 0 \in S
    <2>1. PICK f : f = [i \in 0 .. 0 |-> [s \in 0 .. (next - 1) |-> NoKey]]
      OBVIOUS
    <2>2. Moved(next, 0, f)
      BY <2>1 DEF Moved
    <2> QED BY <2>2
  <1>2. ASSUME NEW k \in Nat, k \in S
        PROVE  k + 1 \in S
    <2>1. PICK f : Moved(next, k, f)
      BY <1>2
    <2>2. PICK g : g = [i \in 0 .. (k + 1) |->
                          IF i = k + 1
                          THEN IF table[k] = NoKey THEN f[k] ELSE PutKey(f[k], table[k], next)
                          ELSE f[i]]
      OBVIOUS
    <2>3. ASSUME NEW i \in 0 .. (k + 1)
          PROVE  g[i] = IF i = 0 THEN [s \in 0 .. (next - 1) |-> NoKey]
                        ELSE IF table[i - 1] = NoKey THEN g[i - 1]
                        ELSE PutKey(g[i - 1], table[i - 1], next)
      <3>1. CASE i = k + 1
        <4>1. i - 1 = k /\ k \in 0 .. (k + 1) /\ k # k + 1 /\ i # 0
          BY <3>1
        <4>2. g[k] = f[k]
          BY <2>2, <4>1
        <4> QED BY <2>2, <3>1, <4>1, <4>2
      <3>2. CASE i \in 0 .. k
        <4>1. i # k + 1 /\ (i # 0 => i - 1 \in 0 .. (k + 1) /\ i - 1 # k + 1)
          BY <3>2
        <4>2. g[i] = f[i] /\ (i # 0 => g[i - 1] = f[i - 1])
          BY <2>2, <4>1
        <4>3. f[i] = IF i = 0 THEN [s \in 0 .. (next - 1) |-> NoKey]
                     ELSE IF table[i - 1] = NoKey THEN f[i - 1]
                     ELSE PutKey(f[i - 1], table[i - 1], next)
          BY <2>1, <3>2 DEF Moved
        <4> QED BY <4>2, <4>3
      <3> QED BY <3>1, <3>2
    <2>4. Moved(next, k + 1, g)
      BY <2>2, <2>3 DEF Moved
    <2> QED BY <2>4
  <1>3. \A k \in Nat : k \in S
    <2> HIDE DEF S
    <2> QED BY <1>1, <1>2, InductionOnSet
  <1> QED BY <1>3

LEMMA GrowUnfolds ==
  ASSUME NEW next, cap \in Nat
  PROVE  \E f : Moved(next, cap, f) /\ value_number_grow(next) = f[cap]
  <1>1. PICK f : f = CHOOSE g : Moved(next, cap, g)
    OBVIOUS
  <1>2. Moved(next, cap, f)
    BY <1>1, MovedExists, Zenon
  <1>3. value_number_grow(next) = f[cap]
    BY <1>1, Zenon DEF value_number_grow, Moved
  <1> QED BY <1>2, <1>3

(* n holds what the first i slots of the table hold.                       *)
MovedUpTo(n, next, i) ==
  /\ n \in Tables(next) /\ Reachable(n, next)
  /\ StoredIn(n, next) = StoredIn(table, i)
  /\ Cardinality(Used(n, next)) = Cardinality(Used(table, i))

LEMMA GrowKeeps ==
  ASSUME cap \in Nat, table \in Tables(cap), NEW next \in Nat \ {0},
         Cardinality(Used(table, cap)) < next
  PROVE  MovedUpTo(value_number_grow(next), next, cap)
  <1>1. PICK f : Moved(next, cap, f) /\ value_number_grow(next) = f[cap]
    BY GrowUnfolds
  <1> DEFINE S == {i \in Nat : i <= cap => MovedUpTo(f[i], next, i)}
  <1>2. 0 \in S
    <2>1. f[0] = [s \in 0 .. (next - 1) |-> NoKey]
      BY <1>1 DEF Moved
    <2>2. StoredIn(f[0], next) = {} /\ Used(f[0], next) = {}
      BY <2>1 DEF StoredIn, Used, Slots
    <2>3. StoredIn(table, 0) = {} /\ Used(table, 0) = {}
      BY DEF StoredIn, Used, Slots
    <2>4. f[0] \in Tables(next)
      BY <2>1 DEF Tables, Slots
    <2> QED BY <2>2, <2>3, <2>4 DEF MovedUpTo, Reachable
  <1>3. ASSUME NEW i \in Nat, i \in S
        PROVE  i + 1 \in S
    <2>1. SUFFICES ASSUME i + 1 <= cap
                   PROVE  MovedUpTo(f[i + 1], next, i + 1)
      OBVIOUS
    <2>2. MovedUpTo(f[i], next, i)
      BY <1>3, <2>1
    <2>3. f[i + 1] = IF table[i] = NoKey THEN f[i] ELSE PutKey(f[i], table[i], next)
      <3>1. i + 1 \in 0 .. cap /\ i + 1 # 0 /\ (i + 1) - 1 = i
        BY <2>1
      <3> QED BY <1>1, <3>1 DEF Moved
    <2>4. Slots(i + 1) = Slots(i) \cup {i} /\ i \notin Slots(i) /\ i \in Slots(cap)
      BY <2>1 DEF Slots
    <2>5. CASE table[i] = NoKey
      <3>1. StoredIn(table, i + 1) = StoredIn(table, i) /\ Used(table, i + 1) = Used(table, i)
        BY <2>4, <2>5 DEF StoredIn, Used
      <3> QED BY <2>2, <2>3, <2>5, <3>1 DEF MovedUpTo
    <2>6. CASE table[i] # NoKey
      <3>1. /\ StoredIn(table, i + 1) = StoredIn(table, i) \cup {table[i]}
            /\ Used(table, i + 1) = Used(table, i) \cup {i} /\ i \notin Used(table, i)
        BY <2>4, <2>6 DEF StoredIn, Used
      <3>2. Cardinality(Used(table, i + 1)) = Cardinality(Used(table, i)) + 1
        BY <3>1, UsedFinite, FS_AddElement
      <3>3. table[i] \in Keys
        BY <2>4, <2>6 DEF Tables
      <3>4. Cardinality(Used(table, i)) < next
        <4>1. Used(table, i) \in SUBSET Used(table, cap)
          BY <2>1 DEF Used, Slots
        <4>2. Cardinality(Used(table, i)) <= Cardinality(Used(table, cap))
          BY <4>1, UsedFinite, FS_Subset
        <4>3. Cardinality(Used(table, i)) \in Nat /\ Cardinality(Used(table, cap)) \in Nat
          BY UsedFinite
        <4> QED BY <4>2, <4>3
      <3>5. OneKeyMore(f[i], f[i + 1], table[i], next)
        BY <2>2, <2>3, <2>6, <3>3, <3>4, PutKeyAddsOne DEF MovedUpTo
      <3> QED BY <2>2, <3>1, <3>2, <3>5 DEF MovedUpTo, OneKeyMore
    <2> QED BY <2>5, <2>6
  <1>4. \A i \in Nat : i \in S
    <2> HIDE DEF S
    <2> QED BY <1>2, <1>3, InductionOnSet
  <1>5. MovedUpTo(f[cap], next, cap)
    BY <1>4
  <1> QED BY <1>1, <1>5

-----------------------------------------------------------------------------
(* The invariant of the table.                                             *)

TypeOK == /\ cap \in Nat /\ (cap = 0 \/ cap > 2)
          /\ count \in Nat /\ table \in Tables(cap)
Inv == TypeOK /\ Reachable(table, cap) /\ HalfEmpty

LEMMA CountIsUsed ==
  ASSUME HalfEmpty
  PROVE  count = Cardinality(Used(table, cap))
  BY DEF HalfEmpty, Used, Slots

LEMMA StoredIsStored == Stored = StoredIn(table, cap)
  BY DEF Stored, StoredIn, Slots

(* A lookup finds exactly the stored expressions.                          *)
LEMMA LookupExact ==
  ASSUME Inv, NEW k \in Keys
  PROVE  value_number_lookup(k) <=> k \in Stored
  <1>1. value_number_lookup(k) <=> Found(table, k, cap)
    BY DEF value_number_lookup, Found, Slots
  <1>2. ASSUME k \in Stored
        PROVE  Found(table, k, cap)
    BY <1>2, StoredIsStored DEF Inv, Reachable
  <1>3. ASSUME Found(table, k, cap)
        PROVE  k \in Stored
    <2>1. PICK i \in Slots(cap) : table[Probe(k, i, cap)] = k
      BY <1>3 DEF Found
    <2>2. cap \in Nat \ {0} /\ i \in Nat
      BY DEF Inv, TypeOK, Slots
    <2>3. Probe(k, i, cap) \in Slots(cap)
      BY <2>2, ProbeIsSlot
    <2>4. k # NoKey
      BY TableAssumption
    <2> QED BY <2>1, <2>3, <2>4, StoredIsStored DEF StoredIn
  <1> QED BY <1>1, <1>2, <1>3

LEMMA InvInit == Init => Inv
  <1> SUFFICES ASSUME Init PROVE Inv
    OBVIOUS
  <1>1. Used(table, cap) = {} /\ StoredIn(table, cap) = {} /\ table \in Tables(cap)
    BY DEF Init, NoTable, Used, StoredIn, Tables, Slots
  <1>2. {i \in 0 .. (cap - 1) : table[i] # NoKey} = {}
    BY <1>1 DEF Used, Slots
  <1>3. HalfEmpty
    BY <1>2, FS_EmptySet DEF Init, HalfEmpty
  <1> QED BY <1>1, <1>3 DEF Init, Inv, TypeOK, Reachable

(* What Create finds once the table is ready: room for one key more, and   *)
(* the same expressions as before.                                         *)
LEMMA ReadyTable ==
  ASSUME Inv,
         NEW size, size = IF MustGrow THEN NextCap ELSE cap,
         NEW ready, ready = IF MustGrow THEN value_number_grow(NextCap) ELSE table
  PROVE  /\ size \in Nat /\ size > 2 /\ 2 * (count + 1) < size
         /\ ready \in Tables(size) /\ Reachable(ready, size)
         /\ StoredIn(ready, size) = Stored
         /\ Cardinality(Used(ready, size)) = count
  <1>1. /\ cap \in Nat /\ count \in Nat
        /\ cap # 0 => cap > 2 /\ 2 * count < cap
    BY DEF Inv, TypeOK, HalfEmpty
  <1>2. count = Cardinality(Used(table, cap))
    BY CountIsUsed DEF Inv
  <1>3. CASE MustGrow
    <2>1. cap = 0 => count = 0
      <3>1. cap = 0 => Used(table, cap) = {}
        BY DEF Used, Slots
      <3> QED BY <1>2, <3>1, FS_EmptySet
    <2>2. NextCap \in Nat /\ NextCap > 2 /\ 2 * (count + 1) < NextCap
      BY <1>1, <2>1, TableAssumption DEF NextCap
    <2>3. MovedUpTo(value_number_grow(NextCap), NextCap, cap)
      <3>1. Cardinality(Used(table, cap)) < NextCap
        BY <1>1, <1>2, <2>2
      <3> QED BY <2>2, <3>1, GrowKeeps DEF Inv, TypeOK
    <2> QED BY <1>2, <1>3, <2>2, <2>3, StoredIsStored DEF MovedUpTo
  <1>4. CASE ~MustGrow
    <2>1. cap # 0 /\ 2 * (count + 1) < cap
      BY <1>1, <1>4 DEF MustGrow
    <2> QED BY <1>1, <1>2, <1>4, <2>1, StoredIsStored DEF Inv, TypeOK
  <1> QED BY <1>3, <1>4

LEMMA InvOfNext ==
  ASSUME cap' \in Nat, cap' > 2, count' \in Nat, 2 * count' < cap', table' \in Tables(cap'),
         Reachable(table', cap'), Cardinality(Used(table', cap')) = count'
  PROVE  Inv'
  <1>1. TypeOK'
    BY DEF TypeOK, Tables, Slots
  <1>2. Reachable(table, cap)'
    BY DEF Reachable, StoredIn, Found, Probe, Slots
  <1>3. HalfEmpty'
    BY DEF HalfEmpty, Used, Slots
  <1> QED BY <1>1, <1>2, <1>3 DEF Inv

LEMMA InvNext ==
  ASSUME Inv, [Next]_vars
  PROVE  Inv'
  <1>1. CASE UNCHANGED <<table, cap, count>>
    <2>1. UNCHANGED <<TypeOK, Reachable(table, cap), HalfEmpty>>
      BY <1>1 DEF TypeOK, Tables, Slots, Reachable, StoredIn, Found, Probe, HalfEmpty
    <2> QED BY <2>1 DEF Inv
  <1>2. ASSUME NEW k \in Keys, Create(k)
        PROVE  Inv'
    <2>1. PICK size : size = IF MustGrow THEN NextCap ELSE cap
      OBVIOUS
    <2>2. PICK ready : ready = IF MustGrow THEN value_number_grow(NextCap) ELSE table
      OBVIOUS
    <2>3. /\ size \in Nat /\ size > 2 /\ 2 * (count + 1) < size
          /\ ready \in Tables(size) /\ Reachable(ready, size)
          /\ Cardinality(Used(ready, size)) = count /\ count \in Nat
      BY <2>1, <2>2, ReadyTable DEF Inv, TypeOK
    <2>4. cap' = size
      BY <1>2, <2>1 DEF Create
    <2>5. CASE table' = PutKey(ready, k, size) /\ count' = count + 1
      <3>1. OneKeyMore(ready, table', k, size)
        BY <2>3, <2>5, PutKeyAddsOne
      <3>2. /\ table' \in Tables(size) /\ Reachable(table', size)
            /\ Cardinality(Used(table', size)) = count'
        BY <2>3, <2>5, <3>1 DEF OneKeyMore
      <3> QED BY <2>3, <2>4, <2>5, <3>2, InvOfNext
    <2>6. CASE table' = ready /\ count' = count
      BY <2>3, <2>4, <2>6, InvOfNext
    <2> QED BY <1>2, <2>1, <2>2, <2>5, <2>6 DEF Create
  <1>3. CASE value_number_clear
    <2>1. Init'
      BY <1>3 DEF value_number_clear, Init
    <2> QED BY <2>1, InvInit, PTL
  <1> QED BY <1>1, <1>2, <1>3 DEF Next, vars, Reuse, GrowFails

(* The table is never half full and count is exact, whatever the hash and  *)
(* however often the table grew, a call failed or the table was cleared:   *)
(* every probe loop of value_number_lookup and value_number_insert ends.   *)
THEOREM HalfEmptyAlways == Spec => []HalfEmpty
  <1>1. Inv /\ [Next]_vars => Inv'
    BY InvNext
  <1>2. Inv => HalfEmpty
    BY DEF Inv
  <1> QED BY InvInit, <1>1, <1>2, PTL DEF Spec

-----------------------------------------------------------------------------
(* The refinement.                                                         *)

(* Every step of the table is a step of the set.                           *)
LEMMA StepRefines ==
  ASSUME Inv, Next
  PROVE  Abstract!Next
  <1>1. CASE value_number_clear
    <2>1. Stored' = {}
      BY <1>1 DEF value_number_clear, Stored
    <2> QED BY <1>1, <2>1 DEF value_number_clear, Abstract!Next, Abstract!Clear
  <1>2. ASSUME NEW k \in Keys, Reuse(k)
        PROVE  Abstract!Reuse(k)
    <2>1. k \in Stored
      BY <1>2, LookupExact DEF Reuse
    <2>2. Stored' = Stored
      BY <1>2 DEF Reuse, Stored
    <2> QED BY <1>2, <2>1, <2>2 DEF Reuse, Abstract!Reuse
  <1>3. ASSUME NEW k \in Keys, GrowFails(k)
        PROVE  Abstract!Fail(k)
    <2>1. k \notin Stored
      BY <1>3, LookupExact DEF GrowFails
    <2>2. Stored' = Stored
      BY <1>3 DEF GrowFails, Stored
    <2> QED BY <1>3, <2>1, <2>2 DEF GrowFails, Abstract!Fail
  <1>4. ASSUME NEW k \in Keys, Create(k)
        PROVE  Abstract!Create(k) \/ Abstract!Fail(k)
    <2>1. PICK size : size = IF MustGrow THEN NextCap ELSE cap
      OBVIOUS
    <2>2. PICK ready : ready = IF MustGrow THEN value_number_grow(NextCap) ELSE table
      OBVIOUS
    <2>3. /\ size \in Nat /\ size > 2 /\ 2 * (count + 1) < size
          /\ ready \in Tables(size) /\ Reachable(ready, size)
          /\ StoredIn(ready, size) = Stored
          /\ Cardinality(Used(ready, size)) = count /\ count \in Nat
      BY <2>1, <2>2, ReadyTable DEF Inv, TypeOK
    <2>4. k \notin Stored
      BY <1>4, LookupExact DEF Create
    <2>5. Stored' = StoredIn(table', size)
      BY <1>4, <2>1 DEF Create, Stored, StoredIn, Slots
    <2>6. CASE table' = PutKey(ready, k, size) /\ hit' = <<"created", k>>
      <3>1. OneKeyMore(ready, table', k, size)
        BY <2>3, <2>6, PutKeyAddsOne
      <3>2. Stored' = Stored \cup {k}
        BY <2>3, <2>5, <3>1 DEF OneKeyMore
      <3> QED BY <2>4, <2>6, <3>2 DEF Abstract!Create
    <2>7. CASE table' = ready /\ hit' = <<"failed", k>>
      <3>1. Stored' = Stored
        BY <2>3, <2>5, <2>7
      <3> QED BY <2>4, <2>7, <3>1 DEF Abstract!Fail
    <2> QED BY <1>4, <2>1, <2>2, <2>6, <2>7 DEF Create
  <1> QED BY <1>1, <1>2, <1>3, <1>4 DEF Next, Abstract!Next

(* The table implements a set of expressions: add_op reuses a value        *)
(* exactly when its expression was stored since the last clear, a failed   *)
(* call stores nothing, and no growth or collision loses an entry.         *)
THEOREM ImplementsSetAlways == Spec => ImplementsSet
  <1>1. Inv /\ [Next]_vars => Inv'
    BY InvNext
  <1>2. Init => Abstract!Init
    BY DEF Init, Abstract!Init, Stored
  <1>3. Inv /\ [Next]_vars => [Abstract!Next]_<<Stored, hit>>
    <2>1. ASSUME UNCHANGED vars
          PROVE  UNCHANGED <<Stored, hit>>
      BY <2>1 DEF vars, Stored
    <2> QED BY <2>1, StepRefines
  <1> QED BY InvInit, <1>1, <1>2, <1>3, PTL DEF Spec, ImplementsSet, Abstract!Spec
=============================================================================
