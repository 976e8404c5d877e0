-------------------------- MODULE ExecPages_proofs --------------------------
(***************************************************************************)
(* The pages of the executor implement flat memory, for every page size,   *)
(* every last address and every set of accesses.                           *)
(*                                                                         *)
(* A list of pages is read through ByteAt.  Storing one byte changes what  *)
(* ByteAt says of one cell and of no other; by induction a store changes   *)
(* exactly the cells it covers, up to the byte it stopped at.              *)
(***************************************************************************)
EXTENDS ExecPages, WellFoundedInduction, TLAPS

-----------------------------------------------------------------------------
(* Induction and division.                                                 *)

(* The order of the naturals is well-founded.                              *)
LEMMA LeastElement ==
  ASSUME NEW S, S \subseteq Nat, S # {}
  PROVE  \E n \in S : \A k \in S : n <= k
  <1>1. PICK n \in S : \A k \in S : ~(<<k, n>> \in OpToRel(<, Nat))
    BY NatLessThanWellFounded, WFMin, Zenon
  <1>2. ASSUME NEW k \in S, k < n
        PROVE  <<k, n>> \in OpToRel(<, Nat)
    <2>1. <<k, n>>[1] < <<k, n>>[2]
      BY <1>2
    <2>2. <<k, n>> \in Nat \X Nat
      OBVIOUS
    <2> QED BY <2>1, <2>2, Zenon DEF OpToRel
  <1>3. \A k \in S : ~(k < n)
    BY <1>1, <1>2, Zenon
  <1> QED BY <1>3

(* Induction for a set of naturals.                                        *)
LEMMA InductionOnSet ==
  ASSUME NEW S, 0 \in S, \A n \in Nat : n \in S => n + 1 \in S
  PROVE  \A n \in Nat : n \in S
  <1>1. SUFFICES ASSUME Nat \ S # {}
                 PROVE  FALSE
    OBVIOUS
  <1>2. PICK n \in Nat \ S : \A k \in Nat \ S : n <= k
    BY <1>1, LeastElement
  <1>3. n - 1 \in Nat /\ n - 1 \in S
    BY <1>2
  <1> QED BY <1>2, <1>3

(* Division with remainder.                                                *)
LEMMA DivMod ==
  ASSUME NEW P \in Nat \ {0}, NEW x \in Nat
  PROVE  /\ x \div P \in Nat /\ x % P \in 0 .. (P - 1)
         /\ x = (x \div P) * P + (x % P)
  OBVIOUS

LEMMA DivModUnique ==
  ASSUME NEW P \in Nat \ {0}, NEW q \in Nat, NEW r \in 0 .. (P - 1)
  PROVE  (q * P + r) \div P = q /\ (q * P + r) % P = r
  OBVIOUS

-----------------------------------------------------------------------------

Byte == 0 .. 255
Offsets == 0 .. (PageSize - 1)

(* Pages have distinct numbers, and bytes at offsets of a page only.       *)
Contents == UNION {[D -> Byte] : D \in SUBSET Offsets}
PageRecs == [space : Nat, number : Nat, bytes : Contents]

IsPage(list, i, space, number) ==
  i \in 1 .. Len(list) /\ list[i].space = space /\ list[i].number = number

PagesOK(list) ==
  /\ list \in Seq(PageRecs)
  /\ \A i, j \in 1 .. Len(list) :
       list[i].space = list[j].space /\ list[i].number = list[j].number => i = j

LEMMA ContentsShape ==
  ASSUME NEW c \in Contents
  PROVE  DOMAIN c \subseteq Offsets /\ \A o \in DOMAIN c : c[o] \in Byte
  BY DEF Contents

WithByte(c, offset, byte) ==
  [o \in DOMAIN c \cup {offset} |-> IF o = offset THEN byte ELSE c[o]]

LEMMA WithByteShape ==
  ASSUME NEW c \in Contents, NEW offset \in Offsets, NEW byte \in Byte
  PROVE  WithByte(c, offset, byte) \in Contents
  <1>1. DOMAIN c \cup {offset} \in SUBSET Offsets
    BY ContentsShape
  <1>2. WithByte(c, offset, byte) \in [DOMAIN c \cup {offset} -> Byte]
    BY ContentsShape DEF WithByte
  <1> QED BY <1>1, <1>2 DEF Contents

(* exec_find_page finds the page with a number, if there is one.           *)
LEMMA FindPage ==
  ASSUME NEW list, PagesOK(list), NEW i, NEW space, NEW number, IsPage(list, i, space, number)
  PROVE  exec_find_page(list, space, number) = {i}
  <1>1. list \in Seq(PageRecs) /\ Len(list) \in Nat
    BY DEF PagesOK
  <1>2. {j \in 1 .. Len(list) : list[j].space = space /\ list[j].number = number} = {i}
    BY DEF PagesOK, IsPage
  <1>3. i <= i
    BY <1>1 DEF IsPage
  <1> QED BY <1>2, <1>3 DEF exec_find_page

LEMMA FindNoPage ==
  ASSUME NEW list, NEW space, NEW number, \A i : ~IsPage(list, i, space, number)
  PROVE  exec_find_page(list, space, number) = {}
  BY DEF exec_find_page, IsPage

LEMMA ByteOnPage ==
  ASSUME NEW list, PagesOK(list), NEW i, NEW space, NEW address,
         IsPage(list, i, space, address \div PageSize)
  PROVE  ByteAt(list, space, address) = IF address % PageSize \in DOMAIN list[i].bytes
                                        THEN {list[i].bytes[address % PageSize]} ELSE {}
  <1>1. exec_find_page(list, space, address \div PageSize) = {i}
    BY FindPage
  <1> QED BY <1>1 DEF ByteAt

LEMMA ByteOffPages ==
  ASSUME NEW list, NEW space, NEW address,
         \A i : ~IsPage(list, i, space, address \div PageSize)
  PROVE  ByteAt(list, space, address) = {}
  <1>1. exec_find_page(list, space, address \div PageSize) = {}
    BY FindNoPage
  <1> QED BY <1>1 DEF ByteAt

(* A page that was just appended holds nothing.                            *)
LEMMA ReadyPage ==
  ASSUME NEW list, PagesOK(list), NEW space \in Nat, NEW number \in Nat,
         NEW ready, ready = exec_get_or_create_page(list, space, number)
  PROVE  /\ PagesOK(ready)
         /\ \E i : IsPage(ready, i, space, number)
         /\ \A t, y : ByteAt(ready, t, y) = ByteAt(list, t, y)
  <1>1. CASE \E i : IsPage(list, i, space, number)
    <2>1. ready = list
      BY <1>1, FindPage DEF exec_get_or_create_page
    <2> QED BY <1>1, <2>1
  <1>2. CASE \A i : ~IsPage(list, i, space, number)
    <2>1. PICK fresh : fresh = [space |-> space, number |-> number, bytes |-> [o \in {} |-> 0]]
      OBVIOUS
    <2>2. ready = Append(list, fresh)
      BY <1>2, <2>1, FindNoPage DEF exec_get_or_create_page
    <2>3. fresh \in PageRecs /\ fresh.space = space /\ fresh.number = number
          /\ DOMAIN fresh.bytes = {}
      <3>1. [o \in {} |-> 0] \in [{} -> Byte]
        OBVIOUS
      <3>2. [o \in {} |-> 0] \in Contents
        BY <3>1 DEF Contents
      <3> QED BY <2>1, <3>2 DEF PageRecs
    <2>4. /\ list \in Seq(PageRecs) /\ Len(list) \in Nat
          /\ ready \in Seq(PageRecs) /\ Len(ready) = Len(list) + 1
          /\ \A i \in 1 .. Len(list) : i \in 1 .. Len(ready) /\ ready[i] = list[i]
          /\ \A i \in 1 .. Len(ready) : i \in 1 .. Len(list) \/ i = Len(ready)
          /\ Len(ready) \in 1 .. Len(ready) /\ ready[Len(ready)] = fresh
      BY <2>2, <2>3 DEF PagesOK
    <2>5. PagesOK(ready)
      BY <1>2, <2>3, <2>4 DEF PagesOK, IsPage
    <2>6. IsPage(ready, Len(ready), space, number)
      BY <2>3, <2>4 DEF IsPage
    <2>7. ASSUME NEW t, NEW y
          PROVE  ByteAt(ready, t, y) = ByteAt(list, t, y)
      <3>1. CASE \E i : IsPage(list, i, t, y \div PageSize)
        <4>1. PICK i : IsPage(list, i, t, y \div PageSize)
          BY <3>1
        <4>2. IsPage(ready, i, t, y \div PageSize) /\ ready[i] = list[i]
          BY <2>4, <4>1 DEF IsPage
        <4> QED BY <2>5, <4>1, <4>2, ByteOnPage
      <3>2. CASE /\ \A i : ~IsPage(list, i, t, y \div PageSize)
                 /\ \E i : IsPage(ready, i, t, y \div PageSize)
        <4>1. IsPage(ready, Len(ready), t, y \div PageSize)
          BY <2>4, <3>2 DEF IsPage
        <4>2. ByteAt(ready, t, y) = {}
          BY <2>3, <2>4, <2>5, <4>1, ByteOnPage
        <4> QED BY <3>2, <4>2, ByteOffPages
      <3>3. CASE /\ \A i : ~IsPage(list, i, t, y \div PageSize)
                 /\ \A i : ~IsPage(ready, i, t, y \div PageSize)
        BY <3>3, ByteOffPages
      <3> QED BY <3>1, <3>2, <3>3
    <2> QED BY <2>5, <2>6, <2>7
  <1> QED BY <1>1, <1>2

(* n says of one cell that it holds byte, and of the others what list says.*)
OneByteMore(list, n, space, address, byte) ==
  /\ PagesOK(n)
  /\ \A t \in Nat, y \in Nat :
       ByteAt(n, t, y) = IF t = space /\ y = address THEN {byte} ELSE ByteAt(list, t, y)

(* Writing on a page changes one cell.                                     *)
LEMMA PutOnPage ==
  ASSUME NEW list, PagesOK(list), NEW space \in Nat, NEW address \in Nat, NEW byte \in Byte,
         NEW i, IsPage(list, i, space, address \div PageSize),
         NEW n, n = [list EXCEPT ![i].bytes = WithByte(list[i].bytes, address % PageSize, byte)]
  PROVE  OneByteMore(list, n, space, address, byte)
  <1>1. list \in Seq(PageRecs) /\ Len(list) \in Nat /\ i \in 1 .. Len(list)
        /\ list[i] \in PageRecs
    BY DEF PagesOK, IsPage
  <1>2. address % PageSize \in Offsets /\ PageSize \in Nat \ {0}
    BY PageAssumption, DivMod DEF Offsets
  <1>3. PICK c : c = WithByte(list[i].bytes, address % PageSize, byte)
    OBVIOUS
  <1>4. c \in Contents
    BY <1>1, <1>2, <1>3, WithByteShape DEF PageRecs
  <1>5. PICK page : page = [list[i] EXCEPT !.bytes = c]
    OBVIOUS
  <1>6. /\ page \in PageRecs /\ page.space = list[i].space /\ page.number = list[i].number
        /\ page.bytes = c
    BY <1>1, <1>4, <1>5 DEF PageRecs
  <1>7. n = [list EXCEPT ![i] = page]
    BY <1>1, <1>3, <1>5
  <1>8. /\ n \in Seq(PageRecs) /\ Len(n) = Len(list)
        /\ \A j \in 1 .. Len(list) : n[j] = IF j = i THEN page ELSE list[j]
    BY <1>1, <1>6, <1>7
  <1>9. \A j \in 1 .. Len(list) : n[j].space = list[j].space /\ n[j].number = list[j].number
    BY <1>6, <1>8
  <1>10. PagesOK(n)
    BY <1>8, <1>9 DEF PagesOK
  <1>11. ASSUME NEW t \in Nat, NEW y \in Nat
         PROVE  ByteAt(n, t, y) = IF t = space /\ y = address THEN {byte} ELSE ByteAt(list, t, y)
    <2>1. \A j : IsPage(n, j, t, y \div PageSize) <=> IsPage(list, j, t, y \div PageSize)
      BY <1>8, <1>9 DEF IsPage
    <2>2. CASE \A j : ~IsPage(list, j, t, y \div PageSize)
      <3>1. ~(t = space /\ y = address)
        BY <2>2
      <3>2. ByteAt(list, t, y) = {}
        BY <2>2, ByteOffPages
      <3>3. ByteAt(n, t, y) = {}
        BY <2>1, <2>2, ByteOffPages
      <3> QED BY <3>1, <3>2, <3>3
    <2>3. ASSUME NEW j, IsPage(list, j, t, y \div PageSize)
          PROVE  ByteAt(n, t, y) = IF t = space /\ y = address THEN {byte}
                                   ELSE ByteAt(list, t, y)
      <3>1. IsPage(n, j, t, y \div PageSize)
        BY <2>1, <2>3
      <3>2. CASE j # i
        <4>1. n[j] = list[j]
          BY <1>8, <2>3, <3>2 DEF IsPage
        <4>2. ~(t = space /\ y = address)
          BY <2>3, <3>2 DEF IsPage, PagesOK
        <4>3. ByteAt(n, t, y) = IF y % PageSize \in DOMAIN n[j].bytes
                                THEN {n[j].bytes[y % PageSize]} ELSE {}
          BY <1>10, <3>1, ByteOnPage
        <4>4. ByteAt(list, t, y) = IF y % PageSize \in DOMAIN list[j].bytes
                                   THEN {list[j].bytes[y % PageSize]} ELSE {}
          BY <2>3, ByteOnPage
        <4> QED BY <4>1, <4>2, <4>3, <4>4
      <3>3. CASE j = i
        <4>1. t = space /\ y \div PageSize = address \div PageSize
          BY <2>3, <3>3 DEF IsPage
        <4>2. y = address <=> y % PageSize = address % PageSize
          <5>1. /\ y = (y \div PageSize) * PageSize + (y % PageSize)
                /\ address = (address \div PageSize) * PageSize + (address % PageSize)
            BY <1>2, DivMod
          <5> QED BY <4>1, <5>1
        <4>3. n[j].bytes = c
          BY <1>1, <1>6, <1>8, <3>3
        <4>4. /\ DOMAIN c = DOMAIN list[i].bytes \cup {address % PageSize}
              /\ \A o \in DOMAIN c : c[o] = IF o = address % PageSize THEN byte
                                            ELSE list[i].bytes[o]
          BY <1>3 DEF WithByte
        <4>5. /\ ByteAt(n, t, y) = IF y % PageSize \in DOMAIN c THEN {c[y % PageSize]} ELSE {}
              /\ ByteAt(list, t, y) = IF y % PageSize \in DOMAIN list[i].bytes
                                      THEN {list[i].bytes[y % PageSize]} ELSE {}
          BY <1>10, <2>3, <3>1, <3>3, <4>3, ByteOnPage
        <4> QED BY <4>1, <4>2, <4>4, <4>5
      <3> QED BY <3>2, <3>3
    <2> QED BY <2>2, <2>3
  <1> QED BY <1>10, <1>11 DEF OneByteMore

PutAt(list, i, offset, byte) ==
  [list EXCEPT ![i].bytes = WithByte(list[i].bytes, offset, byte)]

LEMMA StoreOneByte ==
  ASSUME NEW list, PagesOK(list), NEW space \in Nat, NEW address \in Nat, NEW byte \in Byte,
         NEW n, n = StoreByte(list, space, address, byte)
  PROVE  OneByteMore(list, n, space, address, byte)
  <1>1. PICK number \in Nat : number = address \div PageSize
    BY PageAssumption, DivMod
  <1>2. PICK ready : ready = exec_get_or_create_page(list, space, number)
    OBVIOUS
  <1>3. PagesOK(ready) /\ \A t, y : ByteAt(ready, t, y) = ByteAt(list, t, y)
    BY <1>2, ReadyPage
  <1>4. PICK i : IsPage(ready, i, space, number)
    BY <1>2, ReadyPage
  <1>5. (CHOOSE j \in exec_find_page(ready, space, number) : TRUE) = i
    <2>1. exec_find_page(ready, space, number) = {i}
      BY <1>3, <1>4, FindPage
    <2> QED BY <2>1
  <1>6. n = PutAt(ready, i, address % PageSize, byte)
    <2>1. n = PutAt(exec_get_or_create_page(list, space, address \div PageSize),
                    CHOOSE j \in exec_find_page(exec_get_or_create_page(list, space,
                                                  address \div PageSize),
                                                space, address \div PageSize) : TRUE,
                    address % PageSize, byte)
      BY DEF StoreByte, PutAt, WithByte
    <2> QED BY <1>1, <1>2, <1>5, <2>1
  <1>7. IsPage(ready, i, space, address \div PageSize)
    BY <1>1, <1>4
  <1>8. OneByteMore(ready, n, space, address, byte)
    BY <1>3, <1>6, <1>7, PutOnPage DEF PutAt
  <1> QED BY <1>3, <1>8 DEF OneByteMore

-----------------------------------------------------------------------------
(* A store, byte by byte.                                                  *)

(* list is the memory before with the first n bytes of a in place.         *)
StoredFrom(list, a, n) ==
  /\ PagesOK(list)
  /\ \A t \in Nat, y \in Nat :
       ByteAt(list, t, y) = IF t = a.space /\ y \in a.address .. (a.address + n - 1)
                            THEN {a.data[y - a.address + 1]} ELSE ByteAt(pages, t, y)

LEMMA AccessShape ==
  ASSUME NEW a \in Accesses
  PROVE  /\ a.space \in Nat /\ a.address \in Nat /\ a.address \in 0 .. LastAddress
         /\ a.data \in Seq(Byte) /\ Len(a.data) \in Nat
         /\ \A i \in 1 .. Len(a.data) : a.data[i] \in Byte
  <1>1. a \in [space : Nat, address : 0 .. LastAddress, data : Seq(Byte)] /\ LastAddress \in Nat
    BY PageAssumption DEF Byte
  <1>2. a.space \in Nat /\ a.address \in 0 .. LastAddress /\ a.data \in Seq(Byte)
    BY <1>1
  <1>3. a.address \in Nat
    BY <1>1, <1>2
  <1> QED BY <1>2, <1>3

(* What the recursive definition in StoredUpTo means.                      *)
After(a, n, f) ==
  f = [i \in 0 .. n |-> IF i = 0 THEN pages
                        ELSE StoreByte(f[i - 1], a.space, a.address + i - 1, a.data[i])]

LEMMA AfterExists ==
  ASSUME NEW a, NEW n \in Nat
  PROVE  \E f : After(a, n, f)
  <1> DEFINE S == {k \in Nat : \E f : After(a, k, f)}
  <1>1. 0 \in S
    <2>1. PICK f : f = [i \in 0 .. 0 |-> pages]
      OBVIOUS
    <2>2. After(a, 0, f)
      BY <2>1 DEF After
    <2> QED BY <2>2
  <1>2. ASSUME NEW k \in Nat, k \in S
        PROVE  k + 1 \in S
    <2>1. PICK f : After(a, k, f)
      BY <1>2
    <2>2. PICK g : g = [i \in 0 .. (k + 1) |->
                          IF i = k + 1 THEN StoreByte(f[k], a.space, a.address + i - 1, a.data[i])
                          ELSE f[i]]
      OBVIOUS
    <2>3. After(a, k + 1, g)
      BY <2>1, <2>2 DEF After
    <2> QED BY <2>3
  <1>3. \A k \in Nat : k \in S
    <2> HIDE DEF S
    <2> QED BY <1>1, <1>2, InductionOnSet
  <1> QED BY <1>3

LEMMA StoredUpToUnfolds ==
  ASSUME NEW a, NEW n \in Nat
  PROVE  \E f : After(a, n, f) /\ StoredUpTo(a, n) = f[n]
  <1>1. PICK f : f = CHOOSE g : After(a, n, g)
    OBVIOUS
  <1>2. After(a, n, f)
    BY <1>1, AfterExists, Zenon
  <1>3. StoredUpTo(a, n) = f[n]
    BY <1>1, Zenon DEF StoredUpTo, After
  <1> QED BY <1>2, <1>3

LEMMA StorePrefix ==
  ASSUME PagesOK(pages), NEW a \in Accesses, NEW n \in 0 .. Len(a.data)
  PROVE  StoredFrom(StoredUpTo(a, n), a, n)
  <1>1. n \in Nat /\ Len(a.data) \in Nat /\ a.space \in Nat /\ a.address \in Nat
    BY AccessShape
  <1>2. PICK f : After(a, n, f) /\ StoredUpTo(a, n) = f[n]
    BY <1>1, StoredUpToUnfolds
  <1> DEFINE S == {k \in Nat : k <= n => StoredFrom(f[k], a, k)}
  <1>3. 0 \in S
    <2>1. f[0] = pages
      BY <1>1, <1>2 DEF After
    <2> QED BY <1>1, <2>1 DEF StoredFrom
  <1>4. ASSUME NEW k \in Nat, k \in S
        PROVE  k + 1 \in S
    <2>1. SUFFICES ASSUME k + 1 <= n
                   PROVE  StoredFrom(f[k + 1], a, k + 1)
      OBVIOUS
    <2>2. StoredFrom(f[k], a, k)
      BY <1>1, <1>4, <2>1
    <2>3. PICK here \in Nat : here = a.address + k
      BY <1>1
    <2>4. k + 1 \in 1 .. Len(a.data)
      BY <1>1, <2>1
    <2>5. PICK byte \in Byte : byte = a.data[k + 1]
      BY <2>4, AccessShape
    <2>6. f[k + 1] = StoreByte(f[k], a.space, here, byte)
      <3>1. a.address + (k + 1) - 1 = here /\ (k + 1) - 1 = k /\ k + 1 \in 0 .. n /\ k + 1 # 0
        BY <1>1, <2>1, <2>3
      <3> QED BY <1>2, <2>5, <3>1 DEF After
    <2>7. /\ PagesOK(f[k + 1])
          /\ \A t \in Nat, y \in Nat :
               ByteAt(f[k + 1], t, y) = IF t = a.space /\ y = here THEN {byte}
                                        ELSE ByteAt(f[k], t, y)
      <3>1. PagesOK(f[k])
        BY <2>2 DEF StoredFrom
      <3>2. OneByteMore(f[k], f[k + 1], a.space, here, byte)
        BY <1>1, <2>6, <3>1, StoreOneByte
      <3> QED BY <3>2 DEF OneByteMore
    <2>8. ASSUME NEW t \in Nat, NEW y \in Nat
          PROVE  ByteAt(f[k + 1], t, y)
                   = IF t = a.space /\ y \in a.address .. (a.address + (k + 1) - 1)
                     THEN {a.data[y - a.address + 1]} ELSE ByteAt(pages, t, y)
      <3>1. ByteAt(f[k], t, y) = IF t = a.space /\ y \in a.address .. (a.address + k - 1)
                                 THEN {a.data[y - a.address + 1]} ELSE ByteAt(pages, t, y)
        BY <2>2 DEF StoredFrom
      <3>2. ByteAt(f[k + 1], t, y) = IF t = a.space /\ y = here THEN {byte}
                                     ELSE ByteAt(f[k], t, y)
        BY <2>7, Zenon
      <3>3. y = here => y - a.address + 1 = k + 1
        BY <1>1, <2>3
      <3>4. /\ y \in a.address .. (a.address + (k + 1) - 1)
                 <=> y = here \/ y \in a.address .. (a.address + k - 1)
        BY <1>1, <2>3
      <3> QED BY <2>5, <3>1, <3>2, <3>3, <3>4
    <2> QED BY <2>7, <2>8 DEF StoredFrom
  <1>5. \A k \in Nat : k \in S
    <2> HIDE DEF S
    <2> QED BY <1>3, <1>4, InductionOnSet
  <1> QED BY <1>1, <1>2, <1>5

-----------------------------------------------------------------------------
(* The refinement.                                                         *)

(* The cells of the flat memory are the cells where ByteAt finds a byte.   *)
LEMMA FlatCells ==
  ASSUME NEW list, PagesOK(list)
  PROVE  FlatDomain(list) = {k \in Nat \X Nat : ByteAt(list, k[1], k[2]) # {}}
  <1>1. list \in Seq(PageRecs) /\ Len(list) \in Nat /\ PageSize \in Nat \ {0}
    BY PageAssumption DEF PagesOK
  <1>2. ASSUME NEW i \in 1 .. Len(list)
        PROVE  /\ list[i].space \in Nat /\ list[i].number \in Nat
               /\ DOMAIN list[i].bytes \subseteq 0 .. (PageSize - 1)
    <2>1. list[i] \in PageRecs
      BY <1>1
    <2>2. list[i].space \in Nat /\ list[i].number \in Nat /\ list[i].bytes \in Contents
      BY <2>1 DEF PageRecs
    <2> QED BY <2>2, ContentsShape DEF Offsets
  <1>3. ASSUME NEW k \in FlatDomain(list)
        PROVE  k \in Nat \X Nat /\ ByteAt(list, k[1], k[2]) # {}
    <2>1. PICK i \in 1 .. Len(list) :
            \E o \in DOMAIN list[i].bytes :
              k = <<list[i].space, list[i].number * PageSize + o>>
      BY <1>3 DEF FlatDomain
    <2>2. PICK o \in DOMAIN list[i].bytes :
            k = <<list[i].space, list[i].number * PageSize + o>>
      BY <2>1
    <2>3. PICK y : y = list[i].number * PageSize + o
      OBVIOUS
    <2>4. o \in 0 .. (PageSize - 1) /\ list[i].number \in Nat /\ list[i].space \in Nat
      BY <1>2
    <2>5. y \in Nat /\ y \div PageSize = list[i].number /\ y % PageSize = o
      <3>1. PICK q \in Nat : q = list[i].number
        BY <2>4
      <3>2. (q * PageSize + o) \div PageSize = q /\ (q * PageSize + o) % PageSize = o
        BY <1>1, <2>4, DivModUnique
      <3>3. q * PageSize \in Nat
        BY <1>1
      <3>4. y = q * PageSize + o
        BY <2>3, <3>1
      <3>5. y \in Nat
        BY <2>4, <3>3, <3>4
      <3> QED BY <3>1, <3>2, <3>4, <3>5
    <2>6. k \in Nat \X Nat /\ k[1] = list[i].space /\ k[2] = y
      BY <2>2, <2>3, <2>4, <2>5
    <2>7. IsPage(list, i, k[1], k[2] \div PageSize)
      BY <2>5, <2>6 DEF IsPage
    <2>8. k[2] % PageSize \in DOMAIN list[i].bytes
      BY <2>5, <2>6
    <2>9. ByteAt(list, k[1], k[2]) = {list[i].bytes[k[2] % PageSize]}
      BY <2>7, <2>8, ByteOnPage
    <2> QED BY <2>6, <2>9
  <1>4. ASSUME NEW t \in Nat, NEW y \in Nat, ByteAt(list, t, y) # {}
        PROVE  <<t, y>> \in FlatDomain(list)
    <2>1. PICK i : IsPage(list, i, t, y \div PageSize)
      BY <1>4, ByteOffPages
    <2>2. y % PageSize \in DOMAIN list[i].bytes
      BY <1>4, <2>1, ByteOnPage
    <2>3. i \in 1 .. Len(list) /\ list[i].space = t /\ list[i].number = y \div PageSize
      BY <2>1 DEF IsPage
    <2>4. y = list[i].number * PageSize + (y % PageSize)
      BY <1>1, <2>3, DivMod
    <2>5. <<t, y>> = <<list[i].space, list[i].number * PageSize + (y % PageSize)>>
      BY <2>3, <2>4
    <2> QED BY <2>2, <2>3, <2>5 DEF FlatDomain
  <1> QED BY <1>3, <1>4

(* After the first n bytes of a store the pages show the flat memory with  *)
(* those bytes written.                                                    *)
LEMMA StoreIsWrite ==
  ASSUME PagesOK(pages), NEW a \in Accesses, NEW n \in 0 .. Len(a.data),
         NEW list, StoredFrom(list, a, n)
  PROVE  FlatMem(list) = Flat!Written(a, n)
  <1>1. /\ a.space \in Nat /\ a.address \in Nat /\ n \in Nat /\ PagesOK(list)
    BY AccessShape DEF StoredFrom
  <1>2. PICK cells : cells = Flat!Cells(a, n)
    OBVIOUS
  <1>3. \A t \in Nat, y \in Nat :
          <<t, y>> \in cells <=> t = a.space /\ y \in a.address .. (a.address + n - 1)
    <2>1. ASSUME NEW t \in Nat, NEW y \in Nat, <<t, y>> \in cells
          PROVE  t = a.space /\ y \in a.address .. (a.address + n - 1)
      <3>1. PICK i \in 0 .. (n - 1) : <<t, y>> = <<a.space, a.address + i>>
        BY <1>2, <2>1 DEF Flat!Cells
      <3> QED BY <1>1, <3>1
    <2>2. ASSUME NEW y \in a.address .. (a.address + n - 1)
          PROVE  <<a.space, y>> \in cells
      <3>1. PICK i \in 0 .. (n - 1) : y = a.address + i
        <4>1. y - a.address \in 0 .. (n - 1) /\ y = a.address + (y - a.address)
          BY <1>1
        <4> QED BY <4>1
      <3> QED BY <1>2, <3>1 DEF Flat!Cells
    <2> QED BY <2>1, <2>2
  <1>4. cells \subseteq Nat \X Nat
    BY <1>1, <1>2 DEF Flat!Cells
  <1>5. ASSUME NEW t \in Nat, NEW y \in Nat
        PROVE  ByteAt(list, t, y) = IF <<t, y>> \in cells THEN {a.data[y - a.address + 1]}
                                    ELSE ByteAt(pages, t, y)
    BY <1>3 DEF StoredFrom
  <1>6. FlatDomain(list) = FlatDomain(pages) \cup cells
    <2>1. FlatDomain(list) = {k \in Nat \X Nat : ByteAt(list, k[1], k[2]) # {}}
      BY <1>1, FlatCells
    <2>2. FlatDomain(pages) = {k \in Nat \X Nat : ByteAt(pages, k[1], k[2]) # {}}
      BY FlatCells
    <2>3. ASSUME NEW k \in Nat \X Nat
          PROVE  k \in FlatDomain(list) <=> k \in FlatDomain(pages) \/ k \in cells
      <3>1. PICK t \in Nat, y \in Nat : k = <<t, y>>
        OBVIOUS
      <3>2. k[1] = t /\ k[2] = y
        BY <3>1
      <3> QED BY <1>5, <2>1, <2>2, <3>1, <3>2
    <2> QED BY <1>4, <2>1, <2>2, <2>3
  <1>7. ASSUME NEW k \in FlatDomain(list)
        PROVE  FlatMem(list)[k] = IF k \in cells THEN a.data[k[2] - a.address + 1]
                                  ELSE FlatMem(pages)[k]
    <2>1. k \in Nat \X Nat
      BY <1>1, FlatCells
    <2>2. PICK t \in Nat, y \in Nat : k = <<t, y>> /\ k[1] = t /\ k[2] = y
      BY <2>1
    <2>3. FlatMem(list)[k] = TheByte(list, t, y)
      BY <2>2 DEF FlatMem
    <2>4. CASE k \in cells
      <3>1. ByteAt(list, t, y) = {a.data[y - a.address + 1]}
        BY <1>5, <2>2, <2>4
      <3>2. TheByte(list, t, y) = a.data[y - a.address + 1]
        BY <3>1 DEF TheByte
      <3> QED BY <2>2, <2>3, <2>4, <3>2
    <2>5. CASE k \notin cells
      <3>1. k \in FlatDomain(pages)
        BY <1>6, <2>5
      <3>2. FlatMem(pages)[k] = TheByte(pages, t, y)
        BY <2>2, <3>1 DEF FlatMem
      <3>3. ByteAt(list, t, y) = ByteAt(pages, t, y)
        BY <1>5, <2>2, <2>5
      <3>4. TheByte(list, t, y) = TheByte(pages, t, y)
        BY <3>3 DEF TheByte
      <3> QED BY <2>3, <2>5, <3>2, <3>4
    <2> QED BY <2>4, <2>5
  <1>8. DOMAIN FlatMem(pages) = FlatDomain(pages)
        /\ FlatMem(list) = [k \in FlatDomain(list) |-> FlatMem(list)[k]]
    BY DEF FlatMem
  <1>9. FlatMem(list) = [k \in FlatDomain(pages) \cup cells |->
                           IF k \in cells THEN a.data[k[2] - a.address + 1]
                           ELSE FlatMem(pages)[k]]
    BY <1>6, <1>7, <1>8
  <1> QED BY <1>2, <1>8, <1>9 DEF Flat!Written

LEMMA WrapsAlike ==
  ASSUME NEW a \in Accesses
  PROVE  exec_range_wraps(a.address, Len(a.data)) <=> Flat!Wraps(a)
  <1>1. /\ a.address \in 0 .. LastAddress /\ LastAddress \in Nat /\ Len(a.data) \in Nat
        /\ a.data \in Seq(Byte)
    BY AccessShape, PageAssumption
  <1>2. a.data # <<>> <=> Len(a.data) # 0
    BY <1>1
  <1> QED BY <1>1, <1>2 DEF exec_range_wraps, Flat!Wraps

Inv == PagesOK(pages)

LEMMA InvInit ==
  ASSUME Init
  PROVE  Inv
  BY DEF Init, Inv, PagesOK

LEMMA InvNext ==
  ASSUME Inv, [Next]_vars
  PROVE  Inv'
  <1>1. CASE UNCHANGED pages
    BY <1>1 DEF Inv
  <1>2. ASSUME NEW a \in Accesses, NEW n \in 0 .. Len(a.data), pages' = StoredUpTo(a, n)
        PROVE  Inv'
    BY <1>2, StorePrefix DEF Inv, StoredFrom
  <1>3. ASSUME NEW a \in Accesses, xair_exec_store_bytes(a)
        PROVE  Inv'
    <2>1. Len(a.data) \in 0 .. Len(a.data)
      BY AccessShape
    <2> QED BY <1>2, <1>3, <2>1 DEF xair_exec_store_bytes
  <1>4. ASSUME NEW a \in Accesses, StoreOutOfMemory(a)
        PROVE  Inv'
    <2>1. PICK n \in 0 .. (Len(a.data) - 1) : pages' = StoredUpTo(a, n)
      BY <1>4 DEF StoreOutOfMemory
    <2>2. n \in 0 .. Len(a.data)
      BY AccessShape
    <2> QED BY <1>2, <2>1, <2>2
  <1> QED BY <1>1, <1>3, <1>4 DEF Next, vars, xair_exec_load_bytes, RefuseAccess

(* Every step of the pages is a step of the flat memory, or none.          *)
LEMMA StepRefines ==
  ASSUME Inv, Next
  PROVE  Flat!Next
  <1>1. PICK a \in Accesses : \/ xair_exec_store_bytes(a) \/ StoreOutOfMemory(a)
                              \/ xair_exec_load_bytes(a) \/ RefuseAccess(a)
    BY DEF Next
  <1>2. /\ a.space \in Nat /\ a.address \in Nat /\ Len(a.data) \in Nat /\ PagesOK(pages)
    BY AccessShape DEF Inv
  <1>3. ASSUME NEW n \in 0 .. Len(a.data), pages' = StoredUpTo(a, n)
        PROVE  FlatMem(pages)' = Flat!Written(a, n)
    <2>1. FlatMem(StoredUpTo(a, n)) = Flat!Written(a, n)
      BY <1>2, StorePrefix, StoreIsWrite
    <2>2. FlatMem(pages)' = FlatMem(StoredUpTo(a, n))
      BY <1>3 DEF FlatMem, FlatDomain, TheByte, ByteAt, exec_find_page
    <2> QED BY <2>1, <2>2
  <1>4. CASE xair_exec_store_bytes(a)
    <2>1. Flat!Store(a)
      <3>1. ~Flat!Wraps(a)
        BY <1>4, WrapsAlike DEF xair_exec_store_bytes
      <3>2. FlatMem(pages)' = Flat!Written(a, Len(a.data))
        BY <1>2, <1>3, <1>4 DEF xair_exec_store_bytes
      <3>3. Flat!Returned("store", a, "OK", <<>>)
        BY <1>4 DEF xair_exec_store_bytes, Returned, Flat!Returned
      <3> QED BY <3>1, <3>2, <3>3 DEF Flat!Store
    <2> QED BY <2>1 DEF Flat!Next
  <1>5. CASE StoreOutOfMemory(a)
    <2>1. PICK n \in 0 .. (Len(a.data) - 1) : pages' = StoredUpTo(a, n)
      BY <1>5 DEF StoreOutOfMemory
    <2>2. Flat!StoreFails(a)
      <3>1. ~Flat!Wraps(a)
        BY <1>5, WrapsAlike DEF StoreOutOfMemory
      <3>2. FlatMem(pages)' = Flat!Written(a, n)
        BY <1>2, <1>3, <2>1
      <3>3. Flat!Returned("store", a, "OOM", <<>>)
        BY <1>5 DEF StoreOutOfMemory, Returned, Flat!Returned
      <3> QED BY <3>1, <3>2, <3>3 DEF Flat!StoreFails
    <2> QED BY <2>2 DEF Flat!Next
  <1>6. CASE xair_exec_load_bytes(a)
    <2>1. ~Flat!Wraps(a) /\ pages' = pages
      BY <1>6, WrapsAlike DEF xair_exec_load_bytes
    <2>2. FlatMem(pages)' = FlatMem(pages)
      BY <2>1 DEF FlatMem, FlatDomain, TheByte, ByteAt, exec_find_page
    <2>3. DOMAIN FlatMem(pages) = FlatDomain(pages)
      BY DEF FlatMem
    <2>4. FlatDomain(pages) = {k \in Nat \X Nat : ByteAt(pages, k[1], k[2]) # {}}
      BY <1>2, FlatCells
    <2>5. ASSUME NEW i \in 1 .. Len(a.data)
          PROVE  /\ a.address + i - 1 \in Nat
                 /\ <<a.space, a.address + i - 1>> \in FlatDomain(pages)
                      <=> ByteAt(pages, a.space, a.address + i - 1) # {}
      <3>1. a.address + i - 1 \in Nat
        BY <1>2
      <3>2. PICK y \in Nat : y = a.address + i - 1
        BY <3>1
      <3>3. <<a.space, y>> \in Nat \X Nat /\ <<a.space, y>>[1] = a.space /\ <<a.space, y>>[2] = y
        BY <1>2
      <3>4. <<a.space, y>> \in FlatDomain(pages) <=> ByteAt(pages, a.space, y) # {}
        BY <2>4, <3>3
      <3> QED BY <3>1, <3>2, <3>4
    <2>6. Flat!Cells(a, Len(a.data)) = {<<a.space, a.address + i - 1>> : i \in 1 .. Len(a.data)}
      <3>1. \A i \in 0 .. (Len(a.data) - 1) :
              i + 1 \in 1 .. Len(a.data) /\ a.address + i = a.address + (i + 1) - 1
        BY <1>2
      <3>2. \A i \in 1 .. Len(a.data) :
              i - 1 \in 0 .. (Len(a.data) - 1) /\ a.address + i - 1 = a.address + (i - 1)
        BY <1>2
      <3> QED BY <3>1, <3>2 DEF Flat!Cells
    <2>7. Flat!Cells(a, Len(a.data)) \subseteq FlatDomain(pages)
            <=> \A i \in 1 .. Len(a.data) : ByteAt(pages, a.space, a.address + i - 1) # {}
      BY <2>5, <2>6
    <2>8. CASE \A i \in 1 .. Len(a.data) : ByteAt(pages, a.space, a.address + i - 1) # {}
      <3>1. \A i \in 1 .. Len(a.data) :
              TheByte(pages, a.space, a.address + i - 1)
                = FlatMem(pages)[<<a.space, a.address + i - 1>>]
        BY <2>5, <2>8 DEF FlatMem
      <3>2. Returned("load", a, "OK",
                     [i \in 1 .. Len(a.data) |-> TheByte(pages, a.space, a.address + i - 1)])
        BY <1>6, <2>8 DEF xair_exec_load_bytes
      <3>3. [i \in 1 .. Len(a.data) |-> TheByte(pages, a.space, a.address + i - 1)]
              = [i \in 1 .. Len(a.data) |-> FlatMem(pages)[<<a.space, a.address + i - 1>>]]
        BY <3>1
      <3>4. Flat!Returned("load", a, "OK", [i \in 1 .. Len(a.data) |->
                                              FlatMem(pages)[<<a.space, a.address + i - 1>>]])
        BY <3>2, <3>3 DEF Returned, Flat!Returned
      <3>5. Flat!Load(a)
        BY <2>1, <2>2, <2>3, <2>7, <2>8, <3>4 DEF Flat!Load
      <3> QED BY <3>5 DEF Flat!Next
    <2>9. CASE ~(\A i \in 1 .. Len(a.data) : ByteAt(pages, a.space, a.address + i - 1) # {})
      <3>1. Flat!Returned("load", a, "RANGE", <<>>)
        BY <1>6, <2>9 DEF xair_exec_load_bytes, Returned, Flat!Returned
      <3>2. Flat!LoadUndefined(a)
        BY <2>1, <2>2, <2>3, <2>7, <2>9, <3>1 DEF Flat!LoadUndefined
      <3> QED BY <3>2 DEF Flat!Next
    <2> QED BY <2>8, <2>9
  <1>7. CASE RefuseAccess(a)
    <2>1. Flat!Wraps(a) /\ pages' = pages
      BY <1>7, WrapsAlike DEF RefuseAccess
    <2>2. FlatMem(pages)' = FlatMem(pages)
      BY <2>1 DEF FlatMem, FlatDomain, TheByte, ByteAt, exec_find_page
    <2>3. \E call \in {"store", "load"} : Flat!Returned(call, a, "BAD_ARG", <<>>)
      BY <1>7 DEF RefuseAccess, Returned, Flat!Returned
    <2>4. Flat!Refuse(a)
      BY <2>1, <2>2, <2>3 DEF Flat!Refuse
    <2> QED BY <2>4 DEF Flat!Next
  <1> QED BY <1>1, <1>4, <1>5, <1>6, <1>7

(* xair_exec_store_bytes and xair_exec_load_bytes on a list of pages read  *)
(* and write exactly the bytes of flat memory: for any page size, accesses *)
(* that straddle pages, reach the last address or stop half way for lack   *)
(* of memory included.                                                     *)
THEOREM ImplementsFlatAlways == Spec => ImplementsFlat
  <1>1. Init => Inv /\ Flat!Init
    <2>1. ASSUME Init
          PROVE  Flat!Init
      <3>1. FlatMem(pages) = [k \in {} |-> 0]
        BY <2>1 DEF Init, FlatMem, FlatDomain
      <3> QED BY <2>1, <3>1 DEF Init, Flat!Init
    <2> QED BY <2>1, InvInit
  <1>2. Inv /\ [Next]_vars => Inv'
    BY InvNext
  <1>3. Inv /\ [Next]_vars => [Flat!Next]_<<FlatMem(pages), out>>
    <2>1. ASSUME UNCHANGED vars
          PROVE  UNCHANGED <<FlatMem(pages), out>>
      BY <2>1 DEF vars, FlatMem, FlatDomain, TheByte, ByteAt, exec_find_page
    <2> QED BY <2>1, StepRefines
  <1> QED BY <1>1, <1>2, <1>3, PTL DEF Spec, ImplementsFlat, Flat!Spec
=============================================================================
