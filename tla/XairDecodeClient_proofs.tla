---------------------- MODULE XairDecodeClient_proofs -----------------------
(***************************************************************************)
(* The decoder on every image, cut off at every place.  Whatever it        *)
(* answers, there is a number of bytes it has looked at: any other buffer  *)
(* with those bytes in front gets the same answer, and if it decoded an    *)
(* instruction, that number is its length before 8 bits hold it and the    *)
(* bytes up to there encode it.  The lemmas show this of one function of   *)
(* the decoder each: first that its bytes encode its answer (..Encoded),   *)
(* then that it has seen no more (..Seen).                                 *)
(***************************************************************************)
EXTENDS XairDecodeClient, WellFoundedInduction, TLAPS, SequenceTheorems

-----------------------------------------------------------------------------
(* The least element, and division.                                        *)

(* The order of the naturals is well-founded.                              *)
LEMMA LeastElement ==
  ASSUME NEW S, S \subseteq Nat, S # {}
  PROVE  \E n \in S : \A k \in S : n <= k
  <1>1. PICK n \in S : \A k \in S : ~(<<k, n>> \in OpToRel(<, Nat))
    BY NatLessThanWellFounded, WFMin, Zenon
  <1>2. ASSUME NEW k \in S, k < n
        PROVE  <<k, n>> \in OpToRel(<, Nat)
    <2>1. <<k, n>>[1] < <<k, n>>[2]
      BY <1>2
    <2>2. <<k, n>> \in Nat \X Nat
      OBVIOUS
    <2> QED BY <2>1, <2>2, Zenon DEF OpToRel
  <1>3. \A k \in S : ~(k < n)
    BY <1>1, <1>2, Zenon
  <1> QED BY <1>3

(* Division with remainder.                                                *)
LEMMA DivMod ==
  ASSUME NEW P \in Nat \ {0}, NEW x \in Nat
  PROVE  /\ x \div P \in Nat /\ x % P \in 0 .. (P - 1)
         /\ x = (x \div P) * P + (x % P)
  OBVIOUS

-----------------------------------------------------------------------------

Buffers == Seq(0 .. 255)
Decided(ans) == ans.status \notin {"BAD_ARG", "RANGE"}

(* y has the first e bytes of x.                                           *)
Sees(x, y, e) == y \in Buffers /\ e <= Len(y) /\ \A i \in 1 .. e : y[i] = x[i]

LEMMA SameBytes ==
  ASSUME NEW x \in Buffers, NEW e \in 0 .. Len(x), NEW y, Sees(x, y, e),
         NEW offset \in Nat, NEW n \in Nat, offset + n <= e
  PROVE  /\ Fits(y, offset, n) /\ Fits(x, offset, n)
         /\ Read(y, offset, n) = Read(x, offset, n)
         /\ n > 0 => y[offset + 1] = x[offset + 1]
  <1>1. Len(x) \in Nat /\ Len(y) \in Nat /\ e <= Len(y) /\ e <= Len(x)
    BY DEF Buffers, Sees
  <1>2. Fits(y, offset, n) /\ Fits(x, offset, n)
    BY <1>1 DEF Fits
  <1>3. \A i \in 1 .. n : offset + i \in 1 .. e
    BY <1>1
  <1>4. Read(y, offset, n) = Read(x, offset, n)
    <2>1. ASSUME NEW z \in Buffers, offset + n <= Len(z)
          PROVE  Read(z, offset, n) = [i \in 1 .. n |-> z[offset + i]]
      BY <2>1 DEF Read, Buffers
    <2>2. \A i \in 1 .. n : y[offset + i] = x[offset + i]
      BY <1>3 DEF Sees
    <2>3. y \in Buffers /\ offset + n <= Len(y) /\ offset + n <= Len(x)
      BY <1>1 DEF Sees
    <2> QED BY <2>1, <2>2, <2>3
  <1>5. n > 0 => y[offset + 1] = x[offset + 1]
    BY <1>1 DEF Sees
  <1> QED BY <1>2, <1>4, <1>5

-----------------------------------------------------------------------------
(* Pieces of a buffer, and what is made of them.                           *)

LEMMA ByteAt ==
  ASSUME NEW x \in Buffers
  PROVE  Len(x) \in Nat /\ \A i \in 1 .. Len(x) : x[i] \in 0 .. 255
  BY LenProperties, ElementOfSeq, Zenon DEF Buffers

(* n bytes behind offset.                                                  *)
LEMMA ReadBytes ==
  ASSUME NEW x \in Buffers, NEW offset \in Nat, NEW n \in Nat, offset + n <= Len(x)
  PROVE  /\ Read(x, offset, n) \in Buffers /\ Len(Read(x, offset, n)) = n
         /\ \A i \in 1 .. n : Read(x, offset, n)[i] = x[offset + i]
  <1>1. PICK a \in Int, b \in Int : a = offset + 1 /\ b = offset + n
    OBVIOUS
  <1>2. ASSUME NEW i \in a .. b
        PROVE  x[i] \in 0 .. 255
    <2>1. Len(x) \in Nat
      BY ByteAt
    <2>2. i \in 1 .. Len(x)
      BY <1>1, <2>1
    <2> QED BY <2>2, ByteAt, Zenon
  <1>3. /\ SubSeq(x, a, b) \in Seq(0 .. 255)
        /\ Len(SubSeq(x, a, b)) = IF a <= b THEN b - a + 1 ELSE 0
        /\ \A i \in 1 .. b - a + 1 : SubSeq(x, a, b)[i] = x[a + i - 1]
    BY <1>1, <1>2, SubSeqProperties
  <1>4. b - a + 1 = n /\ \A i \in 1 .. n : a + i - 1 = offset + i
    BY <1>1
  <1>5. (IF a <= b THEN b - a + 1 ELSE 0) = n
    BY <1>1
  <1>6. PICK t : t = SubSeq(x, a, b)
    OBVIOUS
  <1>7. t \in Seq(0 .. 255) /\ Len(t) = n /\ \A i \in 1 .. n : t[i] = x[offset + i]
    BY <1>3, <1>4, <1>5, <1>6
  <1> QED BY <1>1, <1>6, <1>7 DEF Read, Buffers

LEMMA SplitRead ==
  ASSUME NEW x \in Buffers, NEW offset \in Nat, NEW n \in Nat, NEW k \in Nat,
         offset + (n + k) <= Len(x)
  PROVE  Read(x, offset, n + k) = Read(x, offset, n) \o Read(x, offset + n, k)
  <1>1. Len(x) \in Nat
    BY DEF Buffers
  <1>2. PICK a, b, c : a = offset + 1 /\ b = offset + n /\ c = offset + (n + k)
    OBVIOUS
  <1>5. a \in 1 .. Len(x) + 1 /\ b \in (a - 1) .. Len(x) /\ c \in b .. Len(x)
    BY <1>1, <1>2
  <1>3. SubSeq(x, a, b) \o SubSeq(x, b + 1, c) = SubSeq(x, a, c)
    BY <1>5, ConcatAdjacentSubSeq, Zenon DEF Buffers
  <1>4. (offset + n) + k = c
    BY <1>2
  <1> QED BY <1>2, <1>3, <1>4 DEF Read

(* From the byte at offset on.                                             *)
LEMMA FirstByte ==
  ASSUME NEW x \in Buffers, NEW offset \in 1 .. Len(x), NEW n \in Nat, offset + n <= Len(x)
  PROVE  /\ SubSeq(x, offset, offset + n) = <<x[offset]>> \o Read(x, offset, n)
         /\ x[offset] \in 0 .. 255
  <1>1. Len(x) \in Nat /\ x[offset] \in 0 .. 255
    BY ByteAt
  <1>2. PICK b \in offset .. Len(x) : b = offset + n
    BY <1>1
  <1>3. SubSeq(x, offset, b) = <<x[offset]>> \o SubSeq(x, offset + 1, b)
    BY <1>1, SubSeqRecursiveFirst, Zenon DEF Buffers
  <1> QED BY <1>1, <1>2, <1>3 DEF Read

LEMMA LowIs ==
  ASSUME NEW v \in Seq(0 .. 255), NEW s \in Buffers, Len(s) <= Len(v),
         \A i \in 1 .. Len(s) : v[i] = s[i]
  PROVE  Low(v, Len(s)) = s
  <1>1. PICK n \in Nat : n = Len(s)
    BY DEF Buffers
  <1>2. /\ 1 \in Int /\ n \in Int
        /\ \A i \in 1 .. n : v[i] \in 0 .. 255
    <2>1. Len(v) \in Nat /\ \A i \in 1 .. Len(v) : v[i] \in 0 .. 255
      BY ByteAt, Zenon DEF Buffers
    <2> QED BY <1>1, <2>1
  <1>3. PICK t : t = SubSeq(v, 1, n)
    OBVIOUS
  <1>4. /\ t \in Seq(0 .. 255) /\ Len(t) = IF 1 <= n THEN n - 1 + 1 ELSE 0
        /\ \A i \in 1 .. n - 1 + 1 : t[i] = v[1 + i - 1]
    BY <1>2, <1>3, SubSeqProperties
  <1>5. Len(t) = Len(s) /\ \A i \in 1 .. Len(t) : t[i] = s[i]
    BY <1>1, <1>4
  <1>6. t = s
    BY <1>4, <1>5, SeqEqual, Zenon DEF Buffers
  <1> QED BY <1>1, <1>3, <1>6 DEF Low

LEMMA SignExtended ==
  ASSUME NEW s \in Buffers, NEW n \in 1 .. 8, Len(s) = n
  PROVE  Extends(decode_sign_extend(s), n) /\ Low(decode_sign_extend(s), n) = s
  <1>1. PICK fill : fill = [i \in 1 .. (8 - n) |-> IF s[n] >= 128 THEN 255 ELSE 0]
    OBVIOUS
  <1>2. fill \in Seq(0 .. 255) /\ Len(fill) = 8 - n
        /\ \A i \in 1 .. (8 - n) : fill[i] = IF s[n] >= 128 THEN 255 ELSE 0
    BY <1>1
  <1>3. PICK v : v = s \o fill
    OBVIOUS
  <1>4. v = decode_sign_extend(s)
    BY <1>1, <1>3 DEF decode_sign_extend
  <1>5. /\ v \in Seq(0 .. 255) /\ Len(v) = 8
        /\ \A i \in 1 .. 8 : v[i] = IF i <= n THEN s[i] ELSE fill[i - n]
    <2>1. /\ v \in Seq(0 .. 255) /\ Len(v) = Len(s) + Len(fill)
          /\ \A i \in 1 .. Len(s) + Len(fill) :
               v[i] = IF i <= Len(s) THEN s[i] ELSE fill[i - Len(s)]
      <3>1. s \in Seq(0 .. 255) /\ fill \in Seq(0 .. 255)
        BY <1>2 DEF Buffers
      <3> QED BY <1>3, <3>1, ConcatProperties
    <2>2. Len(s) + Len(fill) = 8
      BY <1>2
    <2> QED BY <2>1, <2>2
  <1>6. \A i \in 1 .. n : v[i] = s[i]
    BY <1>5
  <1>7. s[n] \in 0 .. 255 /\ v[n] = s[n]
    <2>1. n \in 1 .. Len(s) /\ n \in 1 .. n
      OBVIOUS
    <2>2. s[n] \in 0 .. 255
      BY <2>1, ByteAt, Zenon
    <2> QED BY <1>6, <2>1, <2>2
  <1>8. ASSUME NEW i \in (n + 1) .. 8
        PROVE  v[i] = IF v[n] < 128 THEN 0 ELSE 255
    <2>1. i - n \in 1 .. (8 - n) /\ i \in 1 .. 8 /\ ~(i <= n)
      OBVIOUS
    <2>2. v[i] = IF s[n] >= 128 THEN 255 ELSE 0
      BY <1>2, <1>5, <2>1
    <2>3. PICK a \in 0 .. 255 : a = s[n]
      BY <1>7
    <2>4. v[i] = IF a >= 128 THEN 255 ELSE 0
      BY <2>2, <2>3
    <2>5. v[i] = IF a < 128 THEN 0 ELSE 255
      BY <2>4
    <2> QED BY <1>7, <2>3, <2>5
  <1>9. Low(v, n) = s
    <2>1. Len(s) <= Len(v)
      BY <1>5
    <2> QED BY <1>5, <1>6, <2>1, LowIs
  <1> QED BY <1>4, <1>8, <1>9 DEF Extends

LEMMA ZeroExtended ==
  ASSUME NEW s \in Buffers, NEW n \in 0 .. 8, Len(s) = n
  PROVE  Low(ZeroExtend(s), n) = s
  <1>1. PICK fill : fill = [i \in 1 .. (8 - n) |-> 0]
    OBVIOUS
  <1>2. fill \in Seq(0 .. 255) /\ Len(fill) = 8 - n
    BY <1>1
  <1>3. PICK v : v = s \o fill
    OBVIOUS
  <1>4. v = ZeroExtend(s)
    BY <1>1, <1>3 DEF ZeroExtend
  <1>5. /\ v \in Seq(0 .. 255) /\ Len(v) = Len(s) + Len(fill)
        /\ \A i \in 1 .. Len(s) + Len(fill) :
             v[i] = IF i <= Len(s) THEN s[i] ELSE fill[i - Len(s)]
    <2>1. s \in Seq(0 .. 255) /\ fill \in Seq(0 .. 255)
      BY <1>2 DEF Buffers
    <2> QED BY <1>3, <2>1, ConcatProperties
  <1>6. Len(s) <= Len(v) /\ \A i \in 1 .. Len(s) : v[i] = s[i]
    BY <1>2, <1>5
  <1> QED BY <1>4, <1>5, <1>6, LowIs

-----------------------------------------------------------------------------
(* Registers, and the byte with their fields.                              *)

(* The prefix that counts; there is none outside 64-bit code.              *)
PrefixByte(rex) == mode \in {32, 64} /\ rex \in {0} \cup 64 .. 79 /\ (mode = 32 => rex = 0)

LEMMA RexBits ==
  ASSUME NEW rex, PrefixByte(rex)
  PROVE  /\ {RexW(rex), RexR(rex), RexX(rex), RexB(rex)} \subseteq AnyBit
         /\ mode = 32 => RexW(rex) = 0 /\ RexR(rex) = 0 /\ RexX(rex) = 0 /\ RexB(rex) = 0
         /\ ~Narrow(rex, mode) => RexW(rex) = mode \div 64
  <1>1. {RexW(rex), RexR(rex), RexX(rex), RexB(rex)} \subseteq AnyBit
    BY DEF PrefixByte, RexW, RexR, RexX, RexB, AnyBit
  <1>2. mode = 32 => RexW(rex) = 0 /\ RexR(rex) = 0 /\ RexX(rex) = 0 /\ RexB(rex) = 0
    BY DEF PrefixByte, RexW, RexR, RexX, RexB
  <1>3. ~Narrow(rex, mode) => RexW(rex) = mode \div 64
    BY <1>1, <1>2 DEF PrefixByte, Narrow, AnyBit
  <1> QED BY <1>1, <1>2, <1>3

LEMMA RegParts ==
  ASSUME NEW field \in 0 .. 7, NEW bit \in AnyBit, mode \in {32, 64}, mode = 32 => bit = 0
  PROVE  /\ decode_reg(field, bit, mode) \in 0 .. 15
         /\ decode_reg(field, bit, mode) % 8 = field
         /\ decode_reg(field, bit, mode) \div 8 = bit
         /\ decode_reg(field, bit, mode) # None
         /\ decode_reg(field, bit, mode) = 4 => field = 4 /\ bit = 0
  BY DEF decode_reg, AnyBit, None

LEMMA ModrmParts ==
  ASSUME NEW byte \in 0 .. 255
  PROVE  /\ decode_modrm(byte).mod \in 0 .. 3
         /\ decode_modrm(byte).reg \in 0 .. 7 /\ decode_modrm(byte).rm \in 0 .. 7
         /\ byte = (64 * decode_modrm(byte).mod + 8 * decode_modrm(byte).reg) + decode_modrm(byte).rm
  BY DEF decode_modrm

-----------------------------------------------------------------------------
(* How operands are encoded.                                               *)

(* A displacement decoded with a mod field is among the forms of its value.*)
LEMMA DispEncoded ==
  ASSUME NEW x \in Buffers, NEW mod \in 0 .. 2, NEW offset \in Nat,
         offset + DispSize(mod) <= Len(x)
  PROVE  [mod |-> mod, tail |-> Read(x, offset, DispSize(mod))]
           \in DispForms(decode_displacement(x, DispSize(mod), offset))
  <1>1. PICK tail : tail = Read(x, offset, DispSize(mod))
    OBVIOUS
  <1>2. PICK disp : disp = decode_displacement(x, DispSize(mod), offset)
    OBVIOUS
  <1>3. CASE mod = 0
    <2>1. DispSize(mod) = 0
      BY <1>3 DEF DispSize
    <2>2. tail \in Buffers /\ Len(tail) = 0
      BY <1>1, <2>1, ReadBytes
    <2>3. tail = <<>>
      BY <2>2 DEF Buffers
    <2>4. disp = ZeroExtend(<<>>)
      BY <1>2, <2>1 DEF decode_displacement
    <2>5. [mod |-> mod, tail |-> tail] \in DispForms(disp)
      BY <1>3, <2>3, <2>4 DEF DispForms, When
    <2> QED BY <1>1, <1>2, <2>5
  <1>4. ASSUME NEW n \in {1, 4}, DispSize(mod) = n
        PROVE  Extends(disp, n) /\ Low(disp, n) = tail
    <2>1. tail \in Buffers /\ Len(tail) = n
      BY <1>1, <1>4, ReadBytes
    <2>2. disp = decode_sign_extend(tail)
      BY <1>1, <1>2, <1>4 DEF decode_displacement
    <2>3. n \in 1 .. 8
      OBVIOUS
    <2>4. Extends(decode_sign_extend(tail), n) /\ Low(decode_sign_extend(tail), n) = tail
      BY <2>1, <2>3, SignExtended
    <2> QED BY <2>2, <2>4
  <1>5. CASE mod = 1
    <2>1. Extends(disp, 1) /\ Low(disp, 1) = tail
      BY <1>4, <1>5 DEF DispSize
    <2>2. [mod |-> mod, tail |-> tail] \in DispForms(disp)
      BY <1>5, <2>1 DEF DispForms, When
    <2> QED BY <1>1, <1>2, <2>2
  <1>6. CASE mod = 2
    <2>1. Extends(disp, 4) /\ Low(disp, 4) = tail
      BY <1>4, <1>6 DEF DispSize
    <2>2. [mod |-> mod, tail |-> tail] \in DispForms(disp)
      BY <1>6, <2>1 DEF DispForms, When
    <2> QED BY <1>1, <1>2, <2>2
  <1> QED BY <1>3, <1>5, <1>6

(* A form that fits the fields of a ModRM byte and the prefix, and has     *)
(* these bytes behind.                                                     *)
FormFits(f, mod, rm, rex, tail) ==
  f.mod = mod /\ f.rm = rm /\ RexX(rex) \in f.x /\ RexB(rex) \in f.b /\ f.tail = tail

(* The operand the code makes of a mod and rm field, without SIB byte.     *)
LEMMA PlainMemEncoded ==
  ASSUME NEW x \in Buffers, NEW mod \in 0 .. 2, NEW rm \in 0 .. 7, NEW rex,
         NEW offset \in 0 .. Len(x), PrefixByte(rex), rm # 4,
         NEW r, r = decode_memory_operand(x, mod, rm, rex, mode, offset), r.status = "OK"
  PROVE  /\ r.operand.kind = "MEM"
         /\ r.offset \in Nat /\ offset <= r.offset /\ r.offset <= Len(x)
         /\ \E f \in MemForms(r.operand.mem) :
              FormFits(f, mod, rm, rex, Read(x, offset, r.offset - offset))
  <1>1. PICK none : none <=> mod = 0 /\ rm = 5
    OBVIOUS
  <1>2. PICK size : size = IF none THEN 4 ELSE DispSize(mod)
    OBVIOUS
  <1>3. PICK disp : disp = decode_displacement(x, size, offset)
    OBVIOUS
  <1>4. PICK base : base = IF none THEN None ELSE decode_reg(rm, RexB(rex), mode)
    OBVIOUS
  <1>5. size \in {0, 1, 4} /\ Len(x) \in Nat
    BY <1>2, ByteAt DEF DispSize
  <1>6. r = IF ~Fits(x, offset, size) THEN NoOperand
            ELSE Operand(offset + size,
                   IF rm = 5 /\ none /\ mode = 64 THEN decode_set_rip_mem(disp)
                   ELSE decode_set_base_index_mem(base, None, 1, disp))
    BY <1>1, <1>2, <1>3, <1>4 DEF decode_memory_operand
  <1>7. Fits(x, offset, size)
    BY <1>6 DEF NoOperand
  <1>8. offset + size <= Len(x) /\ r.offset = offset + size /\ r.offset - offset = size
    BY <1>5, <1>6, <1>7 DEF Fits, Operand
  <1>9. PICK tail : tail = Read(x, offset, size)
    OBVIOUS
  <1>10. tail \in Buffers /\ Len(tail) = size
    BY <1>5, <1>8, <1>9, ReadBytes
  <1>11. mode \in {32, 64} /\ RexX(rex) \in AnyBit /\ RexB(rex) \in AnyBit
         /\ (mode = 32 => RexX(rex) = 0 /\ RexB(rex) = 0)
    BY RexBits DEF PrefixByte
  <1>12. CASE none
    <2>1. disp = decode_sign_extend(tail) /\ size = 4
      BY <1>2, <1>3, <1>9, <1>12 DEF decode_displacement
    <2>2. Low(disp, 4) = tail
      BY <1>10, <2>1, SignExtended
    <2>3. CASE mode = 64
      <3>1. r.operand = decode_set_rip_mem(disp)
        BY <1>1, <1>6, <1>7, <1>12, <2>3 DEF Operand
      <3>2. MemForms(r.operand.mem) = {Form(0, 5, AnyBit, AnyBit, tail)}
        BY <2>2, <3>1 DEF MemForms, decode_set_rip_mem
      <3>3. FormFits(Form(0, 5, AnyBit, AnyBit, tail), mod, rm, rex, tail)
        BY <1>1, <1>11, <1>12 DEF FormFits, Form
      <3> QED BY <1>5, <1>8, <1>9, <3>1, <3>2, <3>3 DEF decode_set_rip_mem
    <2>4. CASE mode = 32
      <3>1. r.operand = decode_set_base_index_mem(None, None, 1, disp)
        BY <1>4, <1>6, <1>7, <1>12, <2>4 DEF Operand
      <3>2. Form(0, 5, {0}, {0}, tail) \in MemForms(r.operand.mem)
        <4>1. PICK mem : mem = r.operand.mem
          OBVIOUS
        <4>2. mem.kind # "RIP_REL" /\ mem.base = None /\ mem.index = None /\ mem.disp = disp
          BY <3>1, <4>1 DEF decode_set_base_index_mem
        <4>3. Form(0, 5, {0}, {0}, tail) \in MemForms(mem)
          BY <2>2, <2>4, <4>2 DEF MemForms, When, None
        <4> QED BY <4>1, <4>3
      <3>3. FormFits(Form(0, 5, {0}, {0}, tail), mod, rm, rex, tail)
        BY <1>1, <1>11, <1>12, <2>4 DEF FormFits, Form
      <3> QED BY <1>5, <1>8, <1>9, <3>1, <3>2, <3>3 DEF decode_set_base_index_mem
    <2> QED BY <1>11, <2>3, <2>4
  <1>13. CASE ~none
    <2>1. r.operand = decode_set_base_index_mem(base, None, 1, disp)
      BY <1>6, <1>7, <1>13 DEF Operand
    <2>2. /\ base % 8 = rm /\ base \div 8 = RexB(rex) /\ base # None
      BY <1>4, <1>11, <1>13, RegParts
    <2>3. PICK d : d = [mod |-> mod, tail |-> tail]
      OBVIOUS
    <2>4. d \in DispForms(disp) /\ (d.mod # 0 \/ base % 8 # 5)
      <3>1. size = DispSize(mod)
        BY <1>2, <1>13
      <3>2. d \in DispForms(disp)
        BY <1>3, <1>8, <1>9, <2>3, <3>1, DispEncoded
      <3> QED BY <1>1, <1>13, <2>2, <2>3, <3>2
    <2>5. PICK mem : mem = r.operand.mem
      OBVIOUS
    <2>6. mem.kind # "RIP_REL" /\ mem.base = base /\ mem.index = None /\ mem.disp = disp
      BY <2>1, <2>5 DEF decode_set_base_index_mem
    <2>7. Form(d.mod, base % 8, AnyBit, Bits(base), d.tail) \in MemForms(mem)
      BY <2>2, <2>4, <2>6 DEF MemForms, When, None
    <2>8. FormFits(Form(d.mod, base % 8, AnyBit, Bits(base), d.tail), mod, rm, rex, tail)
      BY <1>11, <2>2, <2>3 DEF FormFits, Form, Bits
    <2> QED BY <1>5, <1>8, <1>9, <2>1, <2>5, <2>7, <2>8 DEF decode_set_base_index_mem
  <1> QED BY <1>12, <1>13

(* The byte of scale, index and base a memory operand has.                 *)
SibOf(mem, base) ==
  (CASE mem.scale = 1 -> 0 [] mem.scale = 2 -> 64 [] mem.scale = 4 -> 128 [] mem.scale = 8 -> 192)
    + 8 * (IF mem.index = None THEN 4 ELSE mem.index % 8) + base
IndexBits(mem) == IF mem.index = None THEN {0} ELSE Bits(mem.index)

LEMMA SibForms ==
  ASSUME NEW mem, mem.kind # "RIP_REL", mem.index # 4
  PROVE  /\ mem.base = None =>
              Form(0, 4, IndexBits(mem), AnyBit, <<SibOf(mem, 5)>> \o Low(mem.disp, 4))
                \in MemForms(mem)
         /\ \A d \in DispForms(mem.disp) :
              mem.base # None /\ (d.mod # 0 \/ mem.base % 8 # 5) =>
                Form(d.mod, 4, IndexBits(mem), Bits(mem.base), <<SibOf(mem, mem.base % 8)>> \o d.tail)
                  \in MemForms(mem)
  <1> DEFINE full == Low(mem.disp, 4)
             x == IndexBits(mem)
             based == {d \in DispForms(mem.disp) : d.mod # 0 \/ mem.base % 8 # 5}
             noBase == {Form(0, 4, x, AnyBit, <<SibOf(mem, 5)>> \o full)}
             withBase == {Form(d.mod, 4, x, Bits(mem.base), <<SibOf(mem, mem.base % 8)>> \o d.tail) : d \in based}
             plain0 == When(mode = 32 /\ mem.index = None, {Form(0, 5, {0}, {0}, full)})
             plain1 == When(mem.index = None /\ mem.base % 8 # 4,
                         {Form(d.mod, mem.base % 8, AnyBit, Bits(mem.base), d.tail) : d \in based})
  <1>1. MemForms(mem) = IF mem.base = None THEN noBase \cup plain0 ELSE withBase \cup plain1
    BY Zenon DEF MemForms, SibOf, IndexBits
  <1>2. Form(0, 4, x, AnyBit, <<SibOf(mem, 5)>> \o full) \in noBase
    OBVIOUS
  <1>3. \A d \in based :
          Form(d.mod, 4, x, Bits(mem.base), <<SibOf(mem, mem.base % 8)>> \o d.tail) \in withBase
    OBVIOUS
  <1>4. \A d \in DispForms(mem.disp) : (d.mod # 0 \/ mem.base % 8 # 5) => d \in based
    OBVIOUS
  <1> HIDE DEF noBase, withBase, plain0, plain1, based
  <1> QED BY <1>1, <1>2, <1>3, <1>4, Zenon

LEMMA SibMemEncoded ==
  ASSUME NEW x \in Buffers, NEW mod \in 0 .. 2, NEW rex,
         NEW offset \in 0 .. Len(x), PrefixByte(rex),
         NEW r, r = decode_memory_operand(x, mod, 4, rex, mode, offset), r.status = "OK"
  PROVE  /\ r.operand.kind = "MEM"
         /\ r.offset \in Nat /\ offset <= r.offset /\ r.offset <= Len(x)
         /\ \E f \in MemForms(r.operand.mem) :
              FormFits(f, mod, 4, rex, Read(x, offset, r.offset - offset))
  <1>1. PICK byte : byte = x[offset + 1]
    OBVIOUS
  <1>2. PICK sib : sib = decode_modrm(byte)
    OBVIOUS
  <1>3. PICK none : none <=> mod = 0 /\ sib.rm = 5
    OBVIOUS
  <1>4. PICK size : size = IF none THEN 4 ELSE DispSize(mod)
    OBVIOUS
  <1>5. PICK disp : disp = decode_displacement(x, size, offset + 1)
    OBVIOUS
  <1>6. PICK base : base = IF none THEN None ELSE decode_reg(sib.rm, RexB(rex), mode)
    OBVIOUS
  <1>7. PICK index : index = IF sib.reg = 4 /\ RexX(rex) = 0 THEN None
                             ELSE decode_reg(sib.reg, RexX(rex), mode)
    OBVIOUS
  <1>8. size \in {0, 1, 4} /\ Len(x) \in Nat
    BY <1>4, ByteAt DEF DispSize
  <1>9. r = IF ~Fits(x, offset, 1) \/ ~Fits(x, offset + 1, size) THEN NoOperand
            ELSE Operand((offset + 1) + size,
                         decode_set_base_index_mem(base, index, 2^(sib.mod), disp))
    BY <1>1, <1>2, <1>3, <1>4, <1>5, <1>6, <1>7 DEF decode_memory_operand
  <1>10. Fits(x, offset, 1) /\ Fits(x, offset + 1, size)
    BY <1>9 DEF NoOperand
  <1>11. /\ (offset + 1) + size <= Len(x) /\ r.offset = (offset + 1) + size
         /\ r.offset - offset = 1 + size
         /\ r.operand = decode_set_base_index_mem(base, index, 2^(sib.mod), disp)
    BY <1>8, <1>9, <1>10 DEF Fits, Operand
  <1>12. byte \in 0 .. 255
    <2>1. offset + 1 \in 1 .. Len(x)
      BY <1>8, <1>11
    <2> QED BY <1>1, <2>1, ByteAt, Zenon
  <1>13. /\ sib.mod \in 0 .. 3 /\ sib.reg \in 0 .. 7 /\ sib.rm \in 0 .. 7
         /\ byte = (64 * sib.mod + 8 * sib.reg) + sib.rm
    BY <1>2, <1>12, ModrmParts
  <1>14. PICK tail : tail = Read(x, offset + 1, size)
    OBVIOUS
  <1>15. tail \in Buffers /\ Len(tail) = size
    BY <1>8, <1>11, <1>14, ReadBytes
  <1>16. Read(x, offset, 1 + size) = <<byte>> \o tail
    <2>1. offset + 1 \in 1 .. Len(x) /\ (offset + 1) + size <= Len(x)
      BY <1>8, <1>11
    <2>2. SubSeq(x, offset + 1, (offset + 1) + size) = <<byte>> \o tail
      BY <1>1, <1>8, <1>14, <2>1, FirstByte
    <2>3. offset + (1 + size) = (offset + 1) + size
      BY <1>8
    <2> QED BY <2>2, <2>3 DEF Read
  <1>17. mode \in {32, 64} /\ RexX(rex) \in AnyBit /\ RexB(rex) \in AnyBit
         /\ (mode = 32 => RexX(rex) = 0 /\ RexB(rex) = 0)
    BY RexBits DEF PrefixByte
  <1>18. PICK mem : mem = r.operand.mem
    OBVIOUS
  <1>19. /\ mem.kind # "RIP_REL" /\ mem.base = base /\ mem.index = index /\ mem.disp = disp
         /\ mem.scale = 2^(sib.mod) /\ r.operand.kind = "MEM"
    BY <1>11, <1>18 DEF decode_set_base_index_mem
  <1>20. /\ index # 4 /\ RexX(rex) \in IndexBits(mem)
         /\ (IF mem.index = None THEN 4 ELSE mem.index % 8) = sib.reg
    <2>1. CASE sib.reg = 4 /\ RexX(rex) = 0
      BY <1>7, <1>19, <2>1 DEF None, IndexBits
    <2>2. CASE ~(sib.reg = 4 /\ RexX(rex) = 0)
      <3>1. /\ index % 8 = sib.reg /\ index \div 8 = RexX(rex) /\ index # None /\ index # 4
        BY <1>7, <1>13, <1>17, <2>2, RegParts
      <3> QED BY <1>19, <3>1 DEF IndexBits, Bits
    <2> QED BY <2>1, <2>2
  <1>21. SibOf(mem, sib.rm) = byte
    <2>1. PICK high : high = 64 * sib.mod
      OBVIOUS
    <2>2. (CASE mem.scale = 1 -> 0 [] mem.scale = 2 -> 64 [] mem.scale = 4 -> 128
             [] mem.scale = 8 -> 192) = high
      <3>1. CASE sib.mod = 0
        <4>1. 2^0 = 1
          OBVIOUS
        <4> QED BY <1>19, <2>1, <3>1, <4>1
      <3>2. CASE sib.mod = 1
        <4>1. 2^1 = 2
          OBVIOUS
        <4> QED BY <1>19, <2>1, <3>2, <4>1
      <3>3. CASE sib.mod = 2
        <4>1. 2^2 = 4
          OBVIOUS
        <4> QED BY <1>19, <2>1, <3>3, <4>1
      <3>4. CASE sib.mod = 3
        <4>1. 2^3 = 8
          OBVIOUS
        <4> QED BY <1>19, <2>1, <3>4, <4>1
      <3>5. sib.mod = 0 \/ sib.mod = 1 \/ sib.mod = 2 \/ sib.mod = 3
        BY <1>13
      <3> QED BY <3>1, <3>2, <3>3, <3>4, <3>5, Zenon
    <2>3. SibOf(mem, sib.rm) = high + 8 * sib.reg + sib.rm
      BY <1>20, <2>2, Zenon DEF SibOf
    <2> QED BY <1>13, <2>1, <2>3
  <1>22. /\ r.operand.kind = "MEM"
         /\ r.offset \in Nat /\ offset <= r.offset /\ r.offset <= Len(x)
    BY <1>8, <1>11, <1>19
  <1>23. Read(x, offset, r.offset - offset) = <<byte>> \o tail
    BY <1>11, <1>16
  <1>24. CASE none
    <2>1. disp = decode_sign_extend(tail) /\ size = 4
      BY <1>4, <1>5, <1>14, <1>24 DEF decode_displacement
    <2>2. Low(disp, 4) = tail
      BY <1>15, <2>1, SignExtended
    <2>3. base = None /\ mod = 0 /\ sib.rm = 5
      BY <1>3, <1>6, <1>24
    <2>4. Form(0, 4, IndexBits(mem), AnyBit, <<byte>> \o tail) \in MemForms(mem)
      <3>1. SibOf(mem, 5) = byte
        BY <1>21, <2>3
      <3> QED BY <1>19, <1>20, <2>2, <2>3, <3>1, SibForms
    <2>5. FormFits(Form(0, 4, IndexBits(mem), AnyBit, <<byte>> \o tail), mod, 4, rex, <<byte>> \o tail)
      BY <1>17, <1>20, <2>3 DEF FormFits, Form
    <2> QED BY <1>18, <1>22, <1>23, <2>4, <2>5, Zenon
  <1>25. CASE ~none
    <2>1. base % 8 = sib.rm /\ base \div 8 = RexB(rex) /\ base # None
      BY <1>6, <1>13, <1>17, <1>25, RegParts
    <2>2. PICK d : d = [mod |-> mod, tail |-> tail]
      OBVIOUS
    <2>3. d \in DispForms(disp) /\ (d.mod # 0 \/ base % 8 # 5)
      <3>1. size = DispSize(mod)
        BY <1>4, <1>25
      <3>2. d \in DispForms(disp)
        BY <1>5, <1>11, <1>14, <2>2, <3>1, DispEncoded
      <3> QED BY <1>3, <1>25, <2>1, <2>2, <3>2
    <2>4. Form(mod, 4, IndexBits(mem), Bits(base), <<byte>> \o tail) \in MemForms(mem)
      <3>1. SibOf(mem, base % 8) = byte
        BY <1>21, <2>1
      <3>2. d.mod = mod /\ d.tail = tail
        BY <2>2
      <3> QED BY <1>19, <1>20, <2>1, <2>3, <3>1, <3>2, SibForms
    <2>5. FormFits(Form(mod, 4, IndexBits(mem), Bits(base), <<byte>> \o tail), mod, 4, rex,
                   <<byte>> \o tail)
      BY <1>17, <1>20, <2>1 DEF FormFits, Form, Bits
    <2> QED BY <1>18, <1>22, <1>23, <2>4, <2>5, Zenon
  <1> QED BY <1>24, <1>25

(* What the three decoders with a ModRM byte have in common: the byte and  *)
(* the operand behind it.                                                  *)
RmOperand(x, rex, mode_, offset) ==
  decode_rm_operand(x, decode_modrm(x[offset + 1]).mod, decode_modrm(x[offset + 1]).rm, rex,
                    mode_, offset + 1)

(* What was decoded as r is a register or memory, and has a form with      *)
(* these fields and the bytes up to its end.                               *)
RmFits(x, mod, rm, rex, offset, r) ==
  /\ r.operand.kind \in {"REG", "MEM"} /\ (r.operand.kind = "REG" <=> mod = 3)
  /\ r.offset \in Nat /\ offset <= r.offset /\ r.offset <= Len(x)
  /\ \E f \in RmForms(r.operand) :
       FormFits(f, mod, rm, rex, Read(x, offset, r.offset - offset))

LEMMA RmEncoded ==
  ASSUME NEW x \in Buffers, NEW mod \in 0 .. 3, NEW rm \in 0 .. 7, NEW rex,
         NEW offset \in 0 .. Len(x), PrefixByte(rex),
         NEW r, r = decode_rm_operand(x, mod, rm, rex, mode, offset), r.status = "OK"
  PROVE  RmFits(x, mod, rm, rex, offset, r)
  <1>1. CASE mod = 3
    <2>1. PICK reg : reg = decode_reg(rm, RexB(rex), mode)
      OBVIOUS
    <2>2. r = Operand(offset, decode_set_reg(reg))
      BY <1>1, <2>1 DEF decode_rm_operand
    <2>3. Len(x) \in Nat /\ r.offset = offset /\ r.operand.kind = "REG" /\ r.operand.reg = reg
      BY <2>2, ByteAt DEF Operand, decode_set_reg
    <2>4. RexX(rex) \in AnyBit /\ RexB(rex) \in AnyBit
          /\ mode \in {32, 64} /\ (mode = 32 => RexB(rex) = 0)
      BY RexBits DEF PrefixByte
    <2>5. reg % 8 = rm /\ reg \div 8 = RexB(rex)
      BY <2>1, <2>4, RegParts
    <2>6. PICK f : f = Form(3, rm, AnyBit, Bits(reg), <<>>)
      OBVIOUS
    <2>7. f \in RmForms(r.operand)
      BY <2>3, <2>5, <2>6 DEF RmForms
    <2>8. PICK t : t = Read(x, offset, r.offset - offset)
      OBVIOUS
    <2>9. t \in Buffers /\ Len(t) = 0
      <3>1. r.offset - offset = 0 /\ offset + 0 <= Len(x)
        BY <2>3
      <3> QED BY <2>8, <3>1, ReadBytes
    <2>10. t = <<>>
      BY <2>9 DEF Buffers
    <2>11. FormFits(f, mod, rm, rex, t)
      BY <1>1, <2>4, <2>5, <2>6, <2>10 DEF FormFits, Form, Bits
    <2> QED BY <1>1, <2>3, <2>7, <2>8, <2>11 DEF RmFits
  <1>2. CASE mod # 3
    <2>1. r = decode_memory_operand(x, mod, rm, rex, mode, offset) /\ mod \in 0 .. 2
      BY <1>2 DEF decode_rm_operand
    <2>2. /\ r.operand.kind = "MEM"
          /\ r.offset \in Nat /\ offset <= r.offset /\ r.offset <= Len(x)
          /\ \E f \in MemForms(r.operand.mem) :
               FormFits(f, mod, rm, rex, Read(x, offset, r.offset - offset))
      <3>1. CASE rm = 4
        BY <2>1, <3>1, SibMemEncoded
      <3>2. CASE rm # 4
        BY <2>1, <3>2, PlainMemEncoded
      <3> QED BY <3>1, <3>2
    <2>3. RmForms(r.operand) = MemForms(r.operand.mem)
      BY <2>2 DEF RmForms
    <2> QED BY <1>2, <2>2, <2>3 DEF RmFits
  <1> QED BY <1>1, <1>2

(* The bytes from offset to e encode what was decoded, or are the one      *)
(* instruction that is taken for another.                                  *)
Encodes(ans, x, rex, offset, e) ==
  ans.status = "OK" =>
    \/ \E enc \in Encodings(ans.inst) : Fitting(enc, SubSeq(x, offset, e), rex)
    \/ ExchangeForNop(ans.inst, SubSeq(x, offset, e), rex)

LEMMA Regrouped ==
  ASSUME NEW s \in Buffers, NEW t \in Buffers, NEW u \in Buffers
  PROVE  (s \o t) \o u = s \o (t \o u)
  BY ConcatAssociative DEF Buffers

LEMMA Joined ==
  ASSUME NEW s \in Buffers, NEW t \in Buffers
  PROVE  s \o t \in Buffers
  BY ConcatProperties DEF Buffers

LEMMA TwoBytes ==
  ASSUME NEW a \in 0 .. 255, NEW b \in 0 .. 255, NEW s \in Buffers
  PROVE  <<a>> \o (<<b>> \o s) = <<a, b>> \o s
  <1>1. PICK p \in Buffers, q \in Buffers, pq \in Buffers : p = <<a>> /\ q = <<b>> /\ pq = <<a, b>>
    <2>1. <<a>> \in Buffers
      BY DEF Buffers
    <2>2. <<b>> \in Buffers
      BY DEF Buffers
    <2>3. <<a, b>> \in Buffers
      BY DEF Buffers
    <2> QED BY <2>1, <2>2, <2>3
  <1>2. p \o q = pq
    <2>1. /\ p \o q \in Seq(0 .. 255) /\ Len(p \o q) = Len(p) + Len(q)
          /\ \A i \in 1 .. Len(p) + Len(q) :
               (p \o q)[i] = IF i <= Len(p) THEN p[i] ELSE q[i - Len(p)]
      BY ConcatProperties DEF Buffers
    <2>2. Len(p) = 1 /\ Len(q) = 1 /\ Len(pq) = 2 /\ p[1] = a /\ q[1] = b /\ pq[1] = a /\ pq[2] = b
      BY <1>1
    <2>3. Len(p \o q) = Len(pq) /\ \A i \in 1 .. Len(p \o q) : (p \o q)[i] = pq[i]
      BY <2>1, <2>2
    <2> QED BY <2>1, <2>3, SeqEqual DEF Buffers
  <1>3. (p \o q) \o s = p \o (q \o s)
    BY Regrouped
  <1> QED BY <1>1, <1>2, <1>3

LEMMA WithRmEncoded ==
  ASSUME NEW x \in Buffers, NEW rex, NEW offset \in 1 .. Len(x), Fits(x, offset, 1), PrefixByte(rex),
         ~Narrow(rex, mode),
         NEW r, r = RmOperand(x, rex, mode, offset), r.status = "OK",
         NEW reg, reg % 8 = decode_modrm(x[offset + 1]).reg, NEW bits, RexR(rex) \in bits,
         NEW k \in Nat, r.offset + k <= Len(x), NEW imm, imm = Read(x, r.offset, k)
  PROVE  /\ r.operand.kind \in {"REG", "MEM"}
         /\ \E enc \in WithRm(x[offset], reg, bits, r.operand, imm) :
              Fitting(enc, SubSeq(x, offset, r.offset + k), rex)
  <1>1. PICK byte : byte = x[offset + 1]
    OBVIOUS
  <1>2. PICK field : field = decode_modrm(byte)
    OBVIOUS
  <1>3. Len(x) \in Nat /\ offset + 1 <= Len(x) /\ offset + 1 \in 0 .. Len(x)
        /\ offset + 1 \in 1 .. Len(x)
    BY ByteAt DEF Fits
  <1>4. byte \in 0 .. 255
    BY <1>1, <1>3, ByteAt, Zenon
  <1>5. /\ field.mod \in 0 .. 3 /\ field.reg \in 0 .. 7 /\ field.rm \in 0 .. 7
        /\ byte = (64 * field.mod + 8 * field.reg) + field.rm
    BY <1>2, <1>4, ModrmParts
  <1>6. r = decode_rm_operand(x, field.mod, field.rm, rex, mode, offset + 1)
    BY <1>1, <1>2 DEF RmOperand
  <1>7. PICK o \in 0 .. Len(x), mod \in 0 .. 3, rm \in 0 .. 7 :
          o = offset + 1 /\ mod = field.mod /\ rm = field.rm
    BY <1>3, <1>5
  <1>8. /\ r.operand.kind \in {"REG", "MEM"}
        /\ r.offset \in Nat /\ o <= r.offset /\ r.offset <= Len(x)
        /\ \E f \in RmForms(r.operand) :
             FormFits(f, mod, rm, rex, Read(x, o, r.offset - o))
    <2>1. r = decode_rm_operand(x, mod, rm, rex, mode, o)
      BY <1>6, <1>7
    <2>2. RmFits(x, mod, rm, rex, o, r)
      BY <2>1, RmEncoded
    <2> QED BY <2>2 DEF RmFits
  <1>9. PICK f \in RmForms(r.operand) : FormFits(f, mod, rm, rex, Read(x, o, r.offset - o))
    BY <1>8
  <1>10. PICK n \in Nat : n = r.offset - o
    BY <1>7, <1>8
  <1>11. PICK tail : tail = Read(x, o, n)
    OBVIOUS
  <1>12. /\ f.mod = field.mod /\ f.rm = field.rm /\ f.tail = tail
         /\ RexX(rex) \in f.x /\ RexB(rex) \in f.b
    BY <1>7, <1>9, <1>10, <1>11 DEF FormFits
  <1>13. PICK enc : enc = Encoding({mode \div 64}, bits, f.x, f.b,
                            <<x[offset], 64 * f.mod + 8 * (reg % 8) + f.rm>> \o f.tail \o imm)
    OBVIOUS
  <1>14. enc \in WithRm(x[offset], reg, bits, r.operand, imm)
    BY <1>13 DEF WithRm
  <1>15. 64 * f.mod + 8 * (reg % 8) + f.rm = byte
    BY <1>1, <1>2, <1>5, <1>12
  <1>16. enc.body = <<x[offset], byte>> \o tail \o imm
    BY <1>12, <1>13, <1>15, Zenon DEF Encoding
  <1>17. SubSeq(x, offset, r.offset + k) = <<x[offset], byte>> \o tail \o imm
    <2>1. r.offset + k = offset + (1 + (n + k)) /\ r.offset = o + n
          /\ o + (n + k) = r.offset + k
      <3>1. PICK b \in Nat : b = r.offset
        BY <1>8
      <3>2. b = o + n
        <4>1. n = b - o /\ o \in Nat
          BY <1>3, <1>7, <1>10, <3>1
        <4> QED BY <4>1
      <3>3. b + k = offset + (1 + (n + k)) /\ o + (n + k) = b + k
        BY <1>3, <1>7, <3>2
      <3> QED BY <3>1, <3>2, <3>3
    <2>2. SubSeq(x, offset, offset + (1 + (n + k))) = <<x[offset]>> \o Read(x, offset, 1 + (n + k))
      <3>1. PICK j \in Nat : j = 1 + (n + k)
        OBVIOUS
      <3>2. offset + j <= Len(x)
        BY <2>1, <3>1
      <3> QED BY <3>1, <3>2, FirstByte
    <2>3. Read(x, offset, 1 + (n + k)) = <<byte>> \o (tail \o imm)
      <3>1. SubSeq(x, o, o + (n + k)) = <<byte>> \o Read(x, o, n + k)
        <4>1. PICK j \in Nat : j = n + k
          OBVIOUS
        <4>2. o + j <= Len(x) /\ o \in 1 .. Len(x)
          BY <1>3, <1>7, <2>1, <4>1
        <4> QED BY <1>1, <1>7, <4>1, <4>2, FirstByte
      <3>2. Read(x, o, n + k) = tail \o imm
        <4>1. imm = Read(x, o + n, k)
          BY <2>1
        <4>2. o \in Nat /\ o + (n + k) <= Len(x)
          BY <1>3, <1>7, <2>1
        <4>3. Read(x, o, n + k) = Read(x, o, n) \o Read(x, o + n, k)
          BY <4>2, SplitRead
        <4> QED BY <1>11, <4>1, <4>3
      <3>3. Read(x, offset, 1 + (n + k)) = SubSeq(x, o, o + (n + k))
        <4>1. offset + (1 + (n + k)) = o + (n + k)
          BY <1>7
        <4> QED BY <1>7, <4>1 DEF Read
      <3> QED BY <3>1, <3>2, <3>3
    <2>4. tail \in Buffers /\ imm \in Buffers
      <3>1. o + n <= Len(x)
        BY <1>8, <2>1
      <3> QED BY <1>7, <1>8, <1>11, <3>1, ReadBytes
    <2>5. <<x[offset]>> \o (<<byte>> \o (tail \o imm)) = <<x[offset], byte>> \o tail \o imm
      <3>1. x[offset] \in 0 .. 255
        BY ByteAt, Zenon
      <3>2. tail \o imm \in Buffers
        BY <2>4, Joined, Zenon
      <3>3. \A a, b \in 0 .. 255 : <<a, b>> \in Buffers
        BY DEF Buffers
      <3>4. PICK pair \in Buffers : pair = <<x[offset], byte>>
        BY <1>4, <3>1, <3>3, Zenon
      <3>5. <<x[offset]>> \o (<<byte>> \o (tail \o imm)) = pair \o (tail \o imm)
        BY <1>4, <3>1, <3>2, <3>4, TwoBytes, Zenon
      <3>6. (pair \o tail) \o imm = pair \o (tail \o imm)
        BY <2>4, Regrouped, Zenon
      <3> QED BY <3>4, <3>5, <3>6
    <2> QED BY <2>1, <2>2, <2>3, <2>5
  <1>18. RexW(rex) \in enc.w /\ RexR(rex) \in enc.r /\ RexX(rex) \in enc.x /\ RexB(rex) \in enc.b
    BY <1>12, <1>13, RexBits DEF Encoding
  <1> QED BY <1>8, <1>14, <1>16, <1>17, <1>18 DEF Fitting

-----------------------------------------------------------------------------
(* How instructions are encoded.                                           *)

LEMMA EncodingsOf ==
  ASSUME NEW inst, NEW p, p = inst.operands[1], NEW q, q = inst.operands[2]
  PROVE  /\ inst.mnemonic = "PUSH" => Encodings(inst) = InOpcode(AnyBit, 80, p, <<>>)
         /\ inst.mnemonic = "POP" => Encodings(inst) = InOpcode(AnyBit, 88, p, <<>>)
         /\ inst.mnemonic = "LEA" => Encodings(inst) = RegRm(141, p, q)
         /\ inst.mnemonic = "TEST" => Encodings(inst) = RegRm(133, q, p)
         /\ inst.mnemonic = "MOV" => Encodings(inst) = MovForms(inst)
  <1>1. ASSUME inst.mnemonic = "PUSH"
        PROVE  Encodings(inst) = InOpcode(AnyBit, 80, p, <<>>)
    BY <1>1 DEF Encodings
  <1>2. ASSUME inst.mnemonic = "POP"
        PROVE  Encodings(inst) = InOpcode(AnyBit, 88, p, <<>>)
    BY <1>2 DEF Encodings
  <1>3. ASSUME inst.mnemonic = "LEA"
        PROVE  Encodings(inst) = RegRm(141, p, q)
    BY <1>3 DEF Encodings
  <1>4. ASSUME inst.mnemonic = "TEST"
        PROVE  Encodings(inst) = RegRm(133, q, p)
    BY <1>4 DEF Encodings
  <1>5. ASSUME inst.mnemonic = "MOV"
        PROVE  Encodings(inst) = MovForms(inst)
    BY <1>5 DEF Encodings
  <1> QED BY <1>1, <1>2, <1>3, <1>4, <1>5

LEMMA ArithmeticEncodings ==
  ASSUME NEW inst, NEW p, p = inst.operands[1], NEW q, q = inst.operands[2],
         inst.mnemonic \in {"ADD", "OR", "AND", "SUB", "XOR", "CMP"},
         NEW n, n = Number(inst.mnemonic)
  PROVE  /\ q.kind = "IMM" => Encodings(inst) = ImmForms(n, p, q.imm)
         /\ q.kind # "IMM" => Encodings(inst) = RegForms(inst, 8 * n + 1, 8 * n + 3)
  <1>1. inst.mnemonic \notin {"NOP", "RET", "PUSH", "POP", "JMP", "JZ", "JNZ", "LEA", "TEST", "MOV"}
    OBVIOUS
  <1>2. Encodings(inst) = ArithmeticForms(inst, n)
    BY <1>1 DEF Encodings
  <1> QED BY <1>2 DEF ArithmeticForms

LEMMA RegFormsContain ==
  ASSUME NEW inst, NEW p, p = inst.operands[1], NEW q, q = inst.operands[2], NEW a, NEW b
  PROVE  /\ q.kind = "REG" => RegRm(a, q, p) \subseteq RegForms(inst, a, b)
         /\ p.kind = "REG" => RegRm(b, p, q) \subseteq RegForms(inst, a, b)
  <1> DEFINE A == RegRm(a, q, p)
             B == RegRm(b, p, q)
  <1>1. RegForms(inst, a, b) = (IF q.kind = "REG" THEN A ELSE {}) \cup (IF p.kind = "REG" THEN B ELSE {})
    BY Zenon DEF RegForms, When
  <1> HIDE DEF A, B
  <1>2. /\ q.kind = "REG" => A \subseteq RegForms(inst, a, b)
        /\ p.kind = "REG" => B \subseteq RegForms(inst, a, b)
    BY <1>1
  <1> QED BY <1>2 DEF A, B

LEMMA OperandEnd ==
  ASSUME NEW x \in Buffers, NEW rex, NEW offset \in 1 .. Len(x), Fits(x, offset, 1), PrefixByte(rex),
         NEW r, r = RmOperand(x, rex, mode, offset), r.status = "OK"
  PROVE  r.offset \in Nat /\ r.offset <= Len(x)
  <1>1. PICK f : f = decode_modrm(x[offset + 1])
    OBVIOUS
  <1>2. PICK o : o = offset + 1
    OBVIOUS
  <1>3. offset + 1 \in 0 .. Len(x) /\ o \in 1 .. Len(x) /\ o \in 0 .. Len(x)
    BY <1>2, ByteAt DEF Fits
  <1>4. x[offset + 1] \in 0 .. 255
    BY <1>2, <1>3, ByteAt
  <1>5. PICK mod \in 0 .. 3, rm \in 0 .. 7 : mod = f.mod /\ rm = f.rm
    BY <1>1, <1>4, ModrmParts
  <1>6. r = decode_rm_operand(x, mod, rm, rex, mode, o)
    BY <1>1, <1>2, <1>5 DEF RmOperand
  <1>7. RmFits(x, mod, rm, rex, o, r)
    BY <1>3, <1>6, RmEncoded
  <1> QED BY <1>7 DEF RmFits

(* A register of the reg field, and an operand of mod and rm.              *)
LEMMA FieldEncoded ==
  ASSUME NEW x \in Buffers, NEW rex, NEW offset \in 1 .. Len(x), Fits(x, offset, 1), PrefixByte(rex),
         ~Narrow(rex, mode),
         NEW r, r = RmOperand(x, rex, mode, offset), r.status = "OK",
         NEW reg, reg = decode_reg(decode_modrm(x[offset + 1]).reg, RexR(rex), mode)
  PROVE  /\ r.operand.kind \in {"REG", "MEM"}
         /\ \E enc \in WithRm(x[offset], reg, Bits(reg), r.operand, <<>>) :
              Fitting(enc, SubSeq(x, offset, r.offset), rex)
  <1>1. PICK field : field = decode_modrm(x[offset + 1]).reg
    OBVIOUS
  <1>2. field \in 0 .. 7
    <2>1. offset + 1 \in 1 .. Len(x)
      BY ByteAt DEF Fits
    <2>2. x[offset + 1] \in 0 .. 255
      BY <2>1, ByteAt, Zenon
    <2> QED BY <1>1, <2>2, ModrmParts
  <1>3. RexR(rex) \in AnyBit /\ mode \in {32, 64} /\ (mode = 32 => RexR(rex) = 0)
    BY RexBits DEF PrefixByte
  <1>4. reg % 8 = field /\ RexR(rex) \in Bits(reg)
    BY <1>1, <1>2, <1>3, RegParts DEF Bits
  <1>5. /\ r.offset \in Nat /\ r.offset + 0 = r.offset /\ r.offset <= Len(x)
    BY OperandEnd
  <1>6. PICK imm : imm = Read(x, r.offset, 0)
    OBVIOUS
  <1>7. imm \in Buffers /\ Len(imm) = 0
    BY <1>5, <1>6, ReadBytes
  <1>8. imm = <<>>
    BY <1>7 DEF Buffers
  <1>9. /\ r.operand.kind \in {"REG", "MEM"}
        /\ \E enc \in WithRm(x[offset], reg, Bits(reg), r.operand, imm) :
             Fitting(enc, SubSeq(x, offset, r.offset + 0), rex)
    BY <1>1, <1>4, <1>5, <1>6, WithRmEncoded
  <1> QED BY <1>5, <1>8, <1>9

LEMMA MoveEncoded ==
  ASSUME NEW x \in Buffers, NEW rex, NEW offset \in 1 .. Len(x), PrefixByte(rex),
         NEW opcode \in {139, 137, 141}, x[offset] = opcode,
         NEW ans, ans = decode_modrm_move_or_lea(x, opcode, rex, mode, offset), ans.status = "OK",
         NEW r, r = RmOperand(x, rex, mode, offset)
  PROVE  Encodes(ans, x, rex, offset, r.offset)
  <1>1. PICK reg : reg = decode_reg(decode_modrm(x[offset + 1]).reg, RexR(rex), mode)
    OBVIOUS
  <1>2. PICK op : op = decode_set_reg(reg)
    OBVIOUS
  <1>3. /\ ~Narrow(rex, mode) /\ Fits(x, offset, 1) /\ r.status = "OK"
        /\ ans = CASE opcode = 141 -> Decoded("LEA", <<op, r.operand>>, r.offset)
                   [] opcode = 139 -> Decoded("MOV", <<op, r.operand>>, r.offset)
                   [] OTHER -> Decoded("MOV", <<r.operand, op>>, r.offset)
    BY <1>1, <1>2 DEF decode_modrm_move_or_lea, decode_unsupported, Failed, RmOperand
  <1>4. /\ r.operand.kind \in {"REG", "MEM"}
        /\ \E enc \in WithRm(opcode, reg, Bits(reg), r.operand, <<>>) :
             Fitting(enc, SubSeq(x, offset, r.offset), rex)
    BY <1>1, <1>3, FieldEncoded
  <1>5. op.kind = "REG" /\ op.reg = reg
    BY <1>2 DEF decode_set_reg
  <1>6. PICK inst : inst = ans.inst
    OBVIOUS
  <1>7. RegRm(opcode, op, r.operand) \subseteq Encodings(inst)
    <2>1. CASE opcode = 141
      <3>1. inst.mnemonic = "LEA" /\ inst.operands[1] = op /\ inst.operands[2] = r.operand
        BY <1>3, <1>6, <2>1 DEF Decoded
      <3> QED BY <2>1, <3>1, EncodingsOf
    <2>2. CASE opcode = 139
      <3>1. inst.mnemonic = "MOV" /\ inst.operands[1] = op /\ inst.operands[2] = r.operand
        BY <1>3, <1>6, <2>2 DEF Decoded
      <3>2. Encodings(inst) = RegForms(inst, 137, 139)
        BY <1>4, <3>1, EncodingsOf DEF MovForms
      <3> QED BY <1>5, <2>2, <3>1, <3>2, RegFormsContain
    <2>3. CASE opcode = 137
      <3>1. inst.mnemonic = "MOV" /\ inst.operands[1] = r.operand /\ inst.operands[2] = op
        BY <1>3, <1>6, <2>3 DEF Decoded
      <3>2. Encodings(inst) = RegForms(inst, 137, 139)
        BY <1>5, <3>1, EncodingsOf DEF MovForms
      <3> QED BY <1>5, <2>3, <3>1, <3>2, RegFormsContain
    <2> QED BY <2>1, <2>2, <2>3
  <1> QED BY <1>4, <1>5, <1>6, <1>7 DEF Encodes, RegRm

LEMMA BinaryEncoded ==
  ASSUME NEW x \in Buffers, NEW rex, NEW offset \in 1 .. Len(x), PrefixByte(rex),
         NEW opcode \in {1, 3, 9, 11, 33, 35, 41, 43, 49, 51, 57, 59, 133}, x[offset] = opcode,
         NEW ans, ans = decode_modrm_binary(x, opcode, rex, mode, offset), ans.status = "OK",
         NEW r, r = RmOperand(x, rex, mode, offset)
  PROVE  Encodes(ans, x, rex, offset, r.offset)
  <1>1. PICK reg : reg = decode_reg(decode_modrm(x[offset + 1]).reg, RexR(rex), mode)
    OBVIOUS
  <1>2. PICK op : op = decode_set_reg(reg)
    OBVIOUS
  <1>3. PICK mnemonic : mnemonic = decode_binary_mnemonic(opcode)
    OBVIOUS
  <1>4. /\ ~Narrow(rex, mode) /\ Fits(x, offset, 1) /\ r.status = "OK" /\ r.operand.kind = "REG"
        /\ ans = Decoded(mnemonic,
                         IF decode_reg_dest_opcode(opcode) THEN <<op, r.operand>> ELSE <<r.operand, op>>,
                         r.offset)
    BY <1>1, <1>2, <1>3 DEF decode_modrm_binary, decode_unsupported, Failed, RmOperand
  <1>5. \E enc \in WithRm(opcode, reg, Bits(reg), r.operand, <<>>) :
          Fitting(enc, SubSeq(x, offset, r.offset), rex)
    BY <1>1, <1>4, FieldEncoded
  <1>6. op.kind = "REG" /\ op.reg = reg
    BY <1>2 DEF decode_set_reg
  <1>7. PICK inst : inst = ans.inst
    OBVIOUS
  <1>8. /\ inst.mnemonic = mnemonic
        /\ decode_reg_dest_opcode(opcode) => inst.operands[1] = op /\ inst.operands[2] = r.operand
        /\ ~decode_reg_dest_opcode(opcode) => inst.operands[1] = r.operand /\ inst.operands[2] = op
    BY <1>4, <1>7 DEF Decoded
  <1>9. RegRm(opcode, op, r.operand) \subseteq Encodings(inst)
    <2>1. CASE opcode = 133
      <3>1. mnemonic = "TEST" /\ ~decode_reg_dest_opcode(opcode)
        BY <1>3, <2>1 DEF decode_binary_mnemonic, decode_reg_dest_opcode
      <3> QED BY <1>8, <2>1, <3>1, EncodingsOf
    <2>2. CASE opcode # 133
      <3>1. PICK n : n = Number(mnemonic)
        OBVIOUS
      <3>2. /\ mnemonic \in {"ADD", "OR", "AND", "SUB", "XOR", "CMP"}
            /\ opcode = IF decode_reg_dest_opcode(opcode) THEN 8 * n + 3 ELSE 8 * n + 1
        BY <1>3, <2>2, <3>1 DEF decode_binary_mnemonic, decode_reg_dest_opcode, Number
      <3>3. Encodings(inst) = RegForms(inst, 8 * n + 1, 8 * n + 3)
        <4>1. inst.operands[2].kind # "IMM"
          BY <1>4, <1>6, <1>8
        <4> QED BY <1>8, <3>1, <3>2, <4>1, ArithmeticEncodings
      <3>4. CASE decode_reg_dest_opcode(opcode)
        <4>1. opcode = 8 * n + 3
          BY <3>2, <3>4
        <4> QED BY <1>6, <1>8, <3>3, <3>4, <4>1, RegFormsContain
      <3>5. CASE ~decode_reg_dest_opcode(opcode)
        <4>1. opcode = 8 * n + 1
          BY <3>2, <3>5
        <4> QED BY <1>6, <1>8, <3>3, <3>5, <4>1, RegFormsContain
      <3> QED BY <3>4, <3>5
    <2> QED BY <2>1, <2>2
  <1> QED BY <1>5, <1>6, <1>7, <1>9 DEF Encodes, RegRm

LEMMA Group1Encoded ==
  ASSUME NEW x \in Buffers, NEW rex, NEW offset \in 1 .. Len(x), PrefixByte(rex),
         NEW opcode \in {129, 131}, x[offset] = opcode,
         NEW size, size = IF opcode = 131 THEN 1 ELSE 4,
         NEW ans, ans = decode_group1_imm(x, opcode, rex, mode, offset), ans.status = "OK",
         NEW r, r = RmOperand(x, rex, mode, offset)
  PROVE  Encodes(ans, x, rex, offset, r.offset + size)
  <1>1. PICK n : n = decode_modrm(x[offset + 1]).reg
    OBVIOUS
  <1>2. PICK low : low = Read(x, r.offset, size)
    OBVIOUS
  <1>3. PICK mnemonic : mnemonic = decode_group1_mnemonic[n]
    OBVIOUS
  <1>4. /\ ~Narrow(rex, mode) /\ Fits(x, offset, 1) /\ r.status = "OK" /\ Fits(x, r.offset, size)
        /\ n \in DOMAIN decode_group1_mnemonic
        /\ ans = Decoded(mnemonic, <<r.operand, decode_set_imm(decode_sign_extend(low))>>,
                         r.offset + size)
    BY <1>1, <1>2, <1>3 DEF decode_group1_imm, decode_unsupported, Failed, RmOperand
  <1>5. /\ n \in {0, 1, 4, 5, 6, 7} /\ Number(mnemonic) = n
        /\ mnemonic \in {"ADD", "OR", "AND", "SUB", "XOR", "CMP"}
    <2>1. n \in {0, 1, 4, 5, 6, 7}
      BY <1>4 DEF decode_group1_mnemonic
    <2>2. mnemonic = CASE n = 0 -> "ADD" [] n = 1 -> "OR" [] n = 4 -> "AND"
                       [] n = 5 -> "SUB" [] n = 6 -> "XOR" [] n = 7 -> "CMP"
      BY <1>3, <2>1 DEF decode_group1_mnemonic
    <2> QED BY <2>1, <2>2 DEF Number
  <1>6. r.offset \in Nat /\ r.offset + size <= Len(x)
    <2>1. r.offset \in Nat
      BY <1>4, OperandEnd
    <2> QED BY <1>4, <2>1 DEF Fits
  <1>7. low \in Buffers /\ Len(low) = size /\ size \in 1 .. 8
    BY <1>2, <1>6, ReadBytes
  <1>8. PICK imm : imm = decode_sign_extend(low)
    OBVIOUS
  <1>9. Extends(imm, size) /\ Low(imm, size) = low
    BY <1>7, <1>8, SignExtended
  <1>10. \E enc \in WithRm(opcode, n, AnyBit, r.operand, low) :
           Fitting(enc, SubSeq(x, offset, r.offset + size), rex)
    <2>1. PICK k \in Nat : k = size
      OBVIOUS
    <2>2. PICK bits : bits = AnyBit
      OBVIOUS
    <2>3. RexR(rex) \in bits
      BY <2>2, RexBits
    <2>4. n % 8 = decode_modrm(x[offset + 1]).reg
      <3>1. n % 8 = n
        BY <1>5
      <3> QED BY <1>1, <3>1
    <2>5. r.offset + k <= Len(x) /\ low = Read(x, r.offset, k)
      BY <1>2, <1>6, <2>1
    <2>6. \E enc \in WithRm(x[offset], n, bits, r.operand, low) :
            Fitting(enc, SubSeq(x, offset, r.offset + k), rex)
      BY <1>4, <2>3, <2>4, <2>5, WithRmEncoded
    <2> QED BY <2>1, <2>2, <2>6
  <1>11. PICK inst : inst = ans.inst
    OBVIOUS
  <1>12. /\ inst.mnemonic = mnemonic /\ inst.operands[1] = r.operand
         /\ inst.operands[2].kind = "IMM" /\ inst.operands[2].imm = imm
    BY <1>4, <1>8, <1>11 DEF Decoded, decode_set_imm
  <1>13. Encodings(inst) = ImmForms(n, r.operand, imm)
    BY <1>5, <1>12, ArithmeticEncodings
  <1>14. WithRm(opcode, n, AnyBit, r.operand, low) \subseteq ImmForms(n, r.operand, imm)
    <2> DEFINE A(k, l) == WithRm(k, n, AnyBit, r.operand, l)
    <2>1. ImmForms(n, r.operand, imm)
            = (IF Extends(imm, 1) THEN A(131, Low(imm, 1)) ELSE {})
                \cup (IF Extends(imm, 4) THEN A(129, Low(imm, 4)) ELSE {})
      BY Zenon DEF ImmForms, When
    <2> HIDE DEF A
    <2>2. A(opcode, low) \subseteq ImmForms(n, r.operand, imm)
      <3>1. CASE opcode = 131
        BY <1>9, <2>1, <3>1
      <3>2. CASE opcode = 129
        BY <1>9, <2>1, <3>2
      <3> QED BY <3>1, <3>2
    <2> QED BY <2>2 DEF A
  <1> QED BY <1>10, <1>11, <1>13, <1>14 DEF Encodes

(* The register that the low three bits of an opcode name.                 *)
LEMMA InOpcodeEncoded ==
  ASSUME NEW x \in Buffers, NEW rex, NEW offset \in 1 .. Len(x), PrefixByte(rex),
         NEW first \in Nat, NEW field \in 0 .. 7, x[offset] = first + field,
         NEW k \in Nat, offset + k <= Len(x), NEW tail, tail = Read(x, offset, k),
         NEW op, op = decode_set_reg(decode_reg(field, RexB(rex), mode)), NEW w, RexW(rex) \in w
  PROVE  \E enc \in InOpcode(w, first, op, tail) : Fitting(enc, SubSeq(x, offset, offset + k), rex)
  <1>1. PICK reg : reg = decode_reg(field, RexB(rex), mode)
    OBVIOUS
  <1>2. /\ RexR(rex) \in AnyBit /\ RexX(rex) \in AnyBit /\ RexB(rex) \in AnyBit
        /\ mode \in {32, 64} /\ (mode = 32 => RexB(rex) = 0)
    BY RexBits DEF PrefixByte
  <1>3. reg % 8 = field /\ RexB(rex) \in Bits(reg) /\ op.reg = reg
    BY <1>1, <1>2, RegParts DEF Bits, decode_set_reg
  <1>4. SubSeq(x, offset, offset + k) = <<first + field>> \o tail
    BY FirstByte
  <1>5. PICK enc : enc = Encoding(w, AnyBit, AnyBit, Bits(op.reg), <<first + (op.reg % 8)>> \o tail)
    OBVIOUS
  <1>6. enc \in InOpcode(w, first, op, tail)
    BY <1>5 DEF InOpcode
  <1>7. Fitting(enc, SubSeq(x, offset, offset + k), rex)
    BY <1>2, <1>3, <1>4, <1>5 DEF Fitting, Encoding
  <1> QED BY <1>6, <1>7

LEMMA StackEncoded ==
  ASSUME NEW x \in Buffers, NEW rex, NEW offset \in 1 .. Len(x), PrefixByte(rex),
         NEW opcode \in 80 .. 95, x[offset] = opcode,
         NEW ans, ans = DecodeStack(opcode, rex, mode, offset)
  PROVE  Encodes(ans, x, rex, offset, offset)
  <1>1. PICK first \in {80, 88}, field \in 0 .. 7 :
          opcode = first + field /\ field = opcode % 8 /\ (opcode < 88 <=> first = 80)
    <2>1. CASE opcode < 88
      <3>1. opcode - 80 \in 0 .. 7 /\ opcode = 80 + (opcode - 80) /\ opcode - 80 = opcode % 8
        BY <2>1
      <3> QED BY <2>1, <3>1
    <2>2. CASE ~(opcode < 88)
      <3>1. opcode - 88 \in 0 .. 7 /\ opcode = 88 + (opcode - 88) /\ opcode - 88 = opcode % 8
        BY <2>2
      <3> QED BY <2>2, <3>1
    <2> QED BY <2>1, <2>2
  <1>2. PICK op : op = decode_set_reg(decode_reg(field, RexB(rex), mode))
    OBVIOUS
  <1>3. PICK inst : inst = ans.inst
    OBVIOUS
  <1>4. inst.mnemonic = (IF first = 80 THEN "PUSH" ELSE "POP") /\ inst.operands[1] = op
    BY <1>1, <1>2, <1>3 DEF DecodeStack, Decoded
  <1>5. PICK tail : tail = Read(x, offset, 0)
    OBVIOUS
  <1>6. Len(x) \in Nat /\ offset + 0 = offset /\ offset \in Nat /\ offset + 0 <= Len(x) /\ first \in Nat
    BY ByteAt
  <1>7. tail \in Buffers /\ Len(tail) = 0
    BY <1>5, <1>6, ReadBytes
  <1>8. tail = <<>>
    BY <1>7 DEF Buffers
  <1>9. RexW(rex) \in AnyBit
    BY RexBits
  <1>10. \E enc \in InOpcode(AnyBit, first, op, tail) : Fitting(enc, SubSeq(x, offset, offset + 0), rex)
    BY <1>1, <1>2, <1>5, <1>6, <1>9, InOpcodeEncoded
  <1>11. Encodings(inst) = InOpcode(AnyBit, first, op, tail)
    <2>1. CASE first = 80
      BY <1>4, <1>8, <2>1, EncodingsOf
    <2>2. CASE first = 88
      BY <1>4, <1>8, <2>2, EncodingsOf
    <2> QED BY <2>1, <2>2
  <1> QED BY <1>3, <1>6, <1>10, <1>11 DEF Encodes

LEMMA MovImmEncoded ==
  ASSUME NEW x \in Buffers, NEW rex, NEW offset \in 1 .. Len(x), PrefixByte(rex),
         NEW opcode \in 184 .. 191, x[offset] = opcode,
         NEW ans, ans = DecodeMovImm(x, opcode, rex, mode, offset), ans.status = "OK"
  PROVE  Encodes(ans, x, rex, offset, offset + mode \div 8)
  <1>1. PICK size \in 0 .. 8 : size = mode \div 8
    BY DEF PrefixByte
  <1>2. PICK field \in 0 .. 7 : field = opcode - 184
    OBVIOUS
  <1>3. PICK op : op = decode_set_reg(decode_reg(field, RexB(rex), mode))
    OBVIOUS
  <1>4. PICK low : low = Read(x, offset, size)
    OBVIOUS
  <1>5. /\ ~Narrow(rex, mode) /\ Fits(x, offset, size)
        /\ ans = Decoded("MOV", <<op, decode_set_imm(ZeroExtend(low))>>, offset + size)
    BY <1>1, <1>2, <1>3, <1>4 DEF DecodeMovImm, decode_unsupported, Failed
  <1>6. offset \in Nat /\ offset + size <= Len(x)
    BY <1>5 DEF Fits
  <1>7. low \in Buffers /\ Len(low) = size
    BY <1>4, <1>6, ReadBytes
  <1>8. Low(ZeroExtend(low), size) = low
    BY <1>7, ZeroExtended
  <1>9. RexW(rex) \in {mode \div 64}
    BY <1>5, RexBits
  <1>10. \E enc \in InOpcode({mode \div 64}, 184, op, low) : Fitting(enc, SubSeq(x, offset, offset + size), rex)
    <2>1. PICK first \in Nat, k \in Nat : first = 184 /\ k = size
      OBVIOUS
    <2> DEFINE w == {mode \div 64}
    <2>2. x[offset] = first + field
      BY <1>2, <2>1
    <2>3. offset + k <= Len(x) /\ low = Read(x, offset, k) /\ RexW(rex) \in w
      BY <1>4, <1>6, <1>9, <2>1
    <2> HIDE DEF w
    <2>4. \E enc \in InOpcode(w, first, op, low) : Fitting(enc, SubSeq(x, offset, offset + k), rex)
      BY <1>3, <2>2, <2>3, InOpcodeEncoded
    <2> QED BY <2>1, <2>4 DEF w
  <1>11. PICK inst : inst = ans.inst
    OBVIOUS
  <1>12. /\ inst.mnemonic = "MOV" /\ inst.operands[1] = op
         /\ inst.operands[2].kind = "IMM" /\ inst.operands[2].imm = ZeroExtend(low)
    BY <1>5, <1>11 DEF Decoded, decode_set_imm
  <1>13. Encodings(inst) = InOpcode({mode \div 64}, 184, op, low)
    <2>1. Encodings(inst) = MovForms(inst)
      BY <1>12, EncodingsOf
    <2> QED BY <1>1, <1>8, <1>12, <2>1, Zenon DEF MovForms
  <1> QED BY <1>1, <1>10, <1>11, <1>13 DEF Encodes

(* The opcodes of a jump with a displacement of one and of four bytes.     *)
JumpOf(mnemonic, short, long) ==
  \A inst : inst.mnemonic = mnemonic => Encodings(inst) = Jump(inst, short, long)

JumpOpcode(size, short, long) == IF size = 1 THEN short ELSE long

LEMMA JumpEncodings ==
  /\ JumpOf("JMP", <<235>>, <<233>>)
  /\ JumpOf("JZ", <<116>>, <<15, 132>>)
  /\ JumpOf("JNZ", <<117>>, <<15, 133>>)
  <1>1. ASSUME NEW inst, inst.mnemonic = "JMP"
        PROVE  Encodings(inst) = Jump(inst, <<235>>, <<233>>)
    BY <1>1 DEF Encodings
  <1>2. ASSUME NEW inst, inst.mnemonic = "JZ"
        PROVE  Encodings(inst) = Jump(inst, <<116>>, <<15, 132>>)
    BY <1>2 DEF Encodings
  <1>3. ASSUME NEW inst, inst.mnemonic = "JNZ"
        PROVE  Encodings(inst) = Jump(inst, <<117>>, <<15, 133>>)
    BY <1>3 DEF Encodings
  <1> QED BY <1>1, <1>2, <1>3, Zenon DEF JumpOf

LEMMA PlainFits ==
  ASSUME NEW body, NEW rex, PrefixByte(rex)
  PROVE  \E enc \in Plain(body) : Fitting(enc, body, rex)
  <1>1. PICK enc : enc = Encoding(AnyBit, AnyBit, AnyBit, AnyBit, body)
    OBVIOUS
  <1>2. enc \in Plain(body)
    BY <1>1 DEF Plain
  <1>3. Fitting(enc, body, rex)
    BY <1>1, RexBits DEF Fitting, Encoding
  <1> QED BY <1>2, <1>3

(* A relative jump: its opcode from offset, its displacement from o to e.  *)
JumpBytes(mnemonic, x, offset, o, size, e) ==
  /\ e = o + size
  /\ \E short, long : /\ JumpOf(mnemonic, short, long)
                      /\ SubSeq(x, offset, e) = JumpOpcode(size, short, long) \o Read(x, o, size)

LEMMA RelativeEncoded ==
  ASSUME NEW x \in Buffers, NEW rex, NEW offset, PrefixByte(rex), NEW o \in Nat, NEW size \in {1, 4},
         NEW mnemonic, NEW ans, ans = DecodeRelative(mnemonic, x, o, size), ans.status = "OK",
         NEW e, JumpBytes(mnemonic, x, offset, o, size, e)
  PROVE  Encodes(ans, x, rex, offset, e)
  <1> PICK short, long, front :
        /\ JumpOf(mnemonic, short, long) /\ front = JumpOpcode(size, short, long)
        /\ SubSeq(x, offset, e) = front \o Read(x, o, size) /\ e = o + size
    BY DEF JumpBytes
  <1>1. PICK low : low = Read(x, o, size)
    OBVIOUS
  <1>2. PICK rel : rel = decode_sign_extend(low)
    OBVIOUS
  <1>3. /\ Fits(x, o, size)
        /\ ans = Decoded(mnemonic, <<decode_set_imm(rel)>>, o + size)
    BY <1>1, <1>2 DEF DecodeRelative, Failed
  <1>4. o + size <= Len(x) /\ size \in Nat /\ size \in 1 .. 8
    BY <1>3 DEF Fits
  <1>5. low \in Buffers /\ Len(low) = size
    BY <1>1, <1>4, ReadBytes
  <1>6. Extends(rel, size) /\ Low(rel, size) = low
    BY <1>2, <1>4, <1>5, SignExtended
  <1>7. PICK inst : inst = ans.inst
    OBVIOUS
  <1>8. inst.mnemonic = mnemonic /\ inst.operands[1].imm = rel
    BY <1>3, <1>7 DEF Decoded, decode_set_imm
  <1>9. Encodings(inst) = Jump(inst, short, long)
    BY <1>8, Zenon DEF JumpOf
  <1>10. PICK body : body = front \o low
    OBVIOUS
  <1>11. Plain(body) \subseteq Jump(inst, short, long)
    <2> DEFINE A(f, l) == Plain(f \o l)
    <2>1. Jump(inst, short, long)
            = (IF Extends(rel, 4) THEN A(long, Low(rel, 4)) ELSE {})
                \cup (IF Extends(rel, 1) THEN A(short, Low(rel, 1)) ELSE {})
      BY <1>8, Zenon DEF Jump, When
    <2>2. Plain(body) = A(front, low)
      BY <1>10
    <2> HIDE DEF A
    <2>3. CASE size = 1
      BY <1>6, <2>1, <2>2, <2>3 DEF JumpOpcode
    <2>4. CASE size = 4
      BY <1>6, <2>1, <2>2, <2>4 DEF JumpOpcode
    <2> QED BY <2>3, <2>4
  <1>12. \E enc \in Plain(body) : Fitting(enc, body, rex)
    BY PlainFits
  <1>13. SubSeq(x, offset, e) = body
    BY <1>1, <1>10
  <1> QED BY <1>7, <1>9, <1>11, <1>12, <1>13 DEF Encodes

OneByteJump(opcode, mnemonic, size) ==
  \/ opcode = 235 /\ mnemonic = "JMP" /\ size = 1
  \/ opcode = 233 /\ mnemonic = "JMP" /\ size = 4
  \/ opcode = 116 /\ mnemonic = "JZ" /\ size = 1
  \/ opcode = 117 /\ mnemonic = "JNZ" /\ size = 1

LEMMA JumpEncoded ==
  ASSUME NEW x \in Buffers, NEW rex, NEW offset \in 1 .. Len(x), PrefixByte(rex),
         NEW opcode, x[offset] = opcode, NEW size, NEW mnemonic,
         OneByteJump(opcode, mnemonic, size),
         NEW ans, ans = DecodeRelative(mnemonic, x, offset, size), ans.status = "OK"
  PROVE  Encodes(ans, x, rex, offset, offset + size)
  <1>1. offset \in Nat /\ size \in {1, 4} /\ size \in Nat
    BY ByteAt DEF OneByteJump
  <1>2. offset + size <= Len(x)
    BY DEF DecodeRelative, Failed, Fits
  <1>3. SubSeq(x, offset, offset + size) = <<opcode>> \o Read(x, offset, size)
    BY <1>1, <1>2, FirstByte
  <1>4. PICK short, long : /\ JumpOf(mnemonic, short, long)
                           /\ <<opcode>> = JumpOpcode(size, short, long)
    <2>1. CASE mnemonic = "JMP"
      <3>1. <<opcode>> = JumpOpcode(size, <<235>>, <<233>>)
        BY <2>1 DEF OneByteJump, JumpOpcode
      <3>2. JumpOf(mnemonic, <<235>>, <<233>>)
        BY <2>1, JumpEncodings, Zenon
      <3> QED BY <3>1, <3>2, Zenon
    <2>2. CASE mnemonic = "JZ"
      <3>1. <<opcode>> = JumpOpcode(size, <<116>>, <<15, 132>>)
        BY <2>2 DEF OneByteJump, JumpOpcode
      <3>2. JumpOf(mnemonic, <<116>>, <<15, 132>>)
        BY <2>2, JumpEncodings, Zenon
      <3> QED BY <3>1, <3>2, Zenon
    <2>3. CASE mnemonic = "JNZ"
      <3>1. <<opcode>> = JumpOpcode(size, <<117>>, <<15, 133>>)
        BY <2>3 DEF OneByteJump, JumpOpcode
      <3>2. JumpOf(mnemonic, <<117>>, <<15, 133>>)
        BY <2>3, JumpEncodings, Zenon
      <3> QED BY <3>1, <3>2, Zenon
    <2> QED BY <2>1, <2>2, <2>3 DEF OneByteJump
  <1>5. PICK e : e = offset + size
    OBVIOUS
  <1>6. JumpBytes(mnemonic, x, offset, offset, size, e)
    <2> DEFINE P(s, l) == /\ JumpOf(mnemonic, s, l)
                          /\ SubSeq(x, offset, e) = JumpOpcode(size, s, l) \o Read(x, offset, size)
    <2>1. P(short, long)
      BY <1>3, <1>4, <1>5
    <2> HIDE DEF P
    <2>2. \E s, l : P(s, l)
      BY <2>1
    <2> QED BY <1>5, <2>2, Zenon DEF P, JumpBytes
  <1>7. Encodes(ans, x, rex, offset, e)
    BY <1>1, <1>6, RelativeEncoded
  <1> QED BY <1>5, <1>7

LEMMA LongJumpEncoded ==
  ASSUME NEW x \in Buffers, NEW rex, NEW offset \in 1 .. Len(x), PrefixByte(rex),
         x[offset] = 15, offset + 1 <= Len(x), NEW mnemonic,
         \/ mnemonic = "JZ" /\ x[offset + 1] = 132
         \/ mnemonic = "JNZ" /\ x[offset + 1] = 133,
         NEW ans, ans = DecodeRelative(mnemonic, x, offset + 1, 4), ans.status = "OK"
  PROVE  Encodes(ans, x, rex, offset, (offset + 1) + 4)
  <1>1. PICK o \in 1 .. Len(x) : o = offset + 1
    BY ByteAt
  <1>2. PICK byte \in 0 .. 255 : byte = x[o]
    BY ByteAt, Zenon
  <1>3. Len(x) \in Nat /\ o \in Nat /\ o + 4 <= Len(x)
    BY <1>1, ByteAt DEF DecodeRelative, Failed, Fits
  <1>4. PICK low \in Buffers : low = Read(x, o, 4)
    BY <1>3, ReadBytes
  <1>5. SubSeq(x, o, o + 4) = <<byte>> \o low
    BY <1>2, <1>3, <1>4, FirstByte
  <1>6. SubSeq(x, offset, offset + 5) = <<15>> \o Read(x, offset, 5)
    <2>1. offset + 5 <= Len(x)
      BY <1>1, <1>3
    <2> QED BY <2>1, FirstByte
  <1>7. Read(x, offset, 5) = SubSeq(x, o, o + 4) /\ offset + 5 = o + 4
    <2>1. offset + 5 = o + 4
      BY <1>1
    <2> QED BY <1>1, <2>1 DEF Read
  <1>8. SubSeq(x, offset, o + 4) = <<15, byte>> \o low
    <2>1. PICK a \in 0 .. 255 : a = 15
      OBVIOUS
    <2>2. <<a>> \o (<<byte>> \o low) = <<a, byte>> \o low
      BY <1>2, <1>4, <2>1, TwoBytes, Zenon
    <2>3. SubSeq(x, offset, o + 4) = <<15>> \o (<<byte>> \o low)
      BY <1>5, <1>6, <1>7
    <2> QED BY <2>1, <2>2, <2>3
  <1>9. PICK size \in {1, 4} : size = 4
    OBVIOUS
  <1>10. ans = DecodeRelative(mnemonic, x, o, size)
    BY <1>1, <1>9
  <1>11. PICK short, long : JumpOf(mnemonic, short, long) /\ long = <<15, byte>>
    <2>1. CASE mnemonic = "JZ" /\ byte = 132
      BY <2>1, JumpEncodings, Zenon
    <2>2. CASE mnemonic = "JNZ" /\ byte = 133
      BY <2>2, JumpEncodings, Zenon
    <2> QED BY <1>1, <1>2, <2>1, <2>2
  <1>12. PICK e : e = o + size /\ SubSeq(x, offset, e) = long \o Read(x, o, size)
    BY <1>4, <1>8, <1>9, <1>11
  <1>13. Encodes(ans, x, rex, offset, e)
    <2>1. JumpBytes(mnemonic, x, offset, o, size, e)
      <3>1. long = JumpOpcode(size, short, long)
        BY <1>9 DEF JumpOpcode
      <3> DEFINE P(s, l) == /\ JumpOf(mnemonic, s, l)
                            /\ SubSeq(x, offset, e) = JumpOpcode(size, s, l) \o Read(x, o, size)
      <3>2. P(short, long)
        BY <1>11, <1>12, <3>1
      <3> HIDE DEF P
      <3>3. \E s, l : P(s, l)
        BY <3>2
      <3> QED BY <1>12, <3>3, Zenon DEF P, JumpBytes
    <2>2. o \in Nat
      BY <1>3
    <2> QED BY <1>9, <1>10, <2>1, <2>2, RelativeEncoded
  <1> QED BY <1>1, <1>9, <1>12, <1>13

LEMMA OneByteEncoded ==
  ASSUME NEW x \in Buffers, NEW rex, NEW offset \in 1 .. Len(x), PrefixByte(rex),
         NEW opcode, x[offset] = opcode, NEW mnemonic,
         \/ opcode = 144 /\ mnemonic = "NOP"
         \/ opcode = 195 /\ mnemonic = "RET"
  PROVE  Encodes(Decoded(mnemonic, <<>>, offset), x, rex, offset, offset)
  <1>1. PICK inst : inst = Decoded(mnemonic, <<>>, offset).inst
    OBVIOUS
  <1>2. inst.mnemonic = mnemonic
    BY <1>1 DEF Decoded
  <1>3. /\ mnemonic = "NOP" => Encodings(inst) = {Encoding(AnyBit, AnyBit, AnyBit, {0}, <<opcode>>)}
        /\ mnemonic = "RET" => Encodings(inst) = Plain(<<opcode>>)
    <2>1. CASE opcode = 144 /\ mnemonic = "NOP"
      BY <1>2, <2>1 DEF Encodings
    <2>2. CASE opcode = 195 /\ mnemonic = "RET"
      BY <1>2, <2>2 DEF Encodings
    <2> QED BY <2>1, <2>2
  <1>4. PICK tail : tail = Read(x, offset, 0)
    OBVIOUS
  <1>5. Len(x) \in Nat /\ offset + 0 = offset /\ offset \in Nat /\ offset + 0 <= Len(x)
    BY ByteAt
  <1>6. tail \in Buffers /\ Len(tail) = 0
    BY <1>4, <1>5, ReadBytes
  <1>7. tail = <<>>
    BY <1>6 DEF Buffers
  <1>8. SubSeq(x, offset, offset) = <<opcode>> \o <<>> /\ opcode \in 0 .. 255
    <2>1. SubSeq(x, offset, offset + 0) = <<x[offset]>> \o Read(x, offset, 0) /\ x[offset] \in 0 .. 255
      BY <1>5, FirstByte
    <2> QED BY <1>4, <1>5, <1>7, <2>1
  <1>9. <<opcode>> \o <<>> = <<opcode>>
    <2>1. <<opcode>> \in Seq(0 .. 255)
      BY <1>8
    <2> QED BY <2>1, ConcatEmptySeq, Zenon
  <1>10. \E enc \in Plain(<<opcode>>) : Fitting(enc, <<opcode>>, rex)
    BY PlainFits
  <1>11. CASE mnemonic = "RET"
    BY <1>1, <1>3, <1>8, <1>9, <1>10, <1>11 DEF Encodes
  <1>12. CASE mnemonic = "NOP" /\ RexB(rex) = 1
    BY <1>1, <1>2, <1>8, <1>9, <1>12 DEF Encodes, ExchangeForNop
  <1>13. CASE mnemonic = "NOP" /\ RexB(rex) = 0
    <2>1. Fitting(Encoding(AnyBit, AnyBit, AnyBit, {0}, <<opcode>>), <<opcode>>, rex)
      BY <1>13, RexBits DEF Fitting, Encoding, AnyBit
    <2> QED BY <1>1, <1>3, <1>8, <1>9, <1>13, <2>1 DEF Encodes
  <1>14. RexB(rex) \in {0, 1}
    BY RexBits DEF AnyBit
  <1> QED BY <1>11, <1>12, <1>13, <1>14

-----------------------------------------------------------------------------
(* What is seen of an operand.                                             *)

LEMMA MemoryOperandSeen ==
  ASSUME NEW x \in Buffers, NEW mod, NEW rm, NEW rex, NEW mode_, NEW offset \in 0 .. Len(x),
         NEW r, r = decode_memory_operand(x, mod, rm, rex, mode_, offset), r.status = "OK"
  PROVE  /\ r.offset \in offset .. Len(x)
         /\ \A y : Sees(x, y, r.offset) => decode_memory_operand(y, mod, rm, rex, mode_, offset) = r
  <1> DEFINE Sib(z) == decode_modrm(z[offset + 1])
             behind == IF rm = 4 THEN offset + 1 ELSE offset
             NoBase(z) == mod = 0 /\ (IF rm = 4 THEN Sib(z).rm ELSE rm) = 5
             Size(z) == IF NoBase(z) THEN 4 ELSE DispSize(mod)
             Disp(z) == decode_displacement(z, Size(z), behind)
             Base(z) == IF NoBase(z) THEN None
                        ELSE decode_reg(IF rm = 4 THEN Sib(z).rm ELSE rm, RexB(rex), mode_)
             Index(z) == IF rm # 4 \/ (Sib(z).reg = 4 /\ RexX(rex) = 0) THEN None
                         ELSE decode_reg(Sib(z).reg, RexX(rex), mode_)
             Made(z) == IF rm = 5 /\ NoBase(z) /\ mode_ = 64 THEN decode_set_rip_mem(Disp(z))
                        ELSE decode_set_base_index_mem(Base(z), Index(z),
                               IF rm = 4 THEN 2^(Sib(z).mod) ELSE 1, Disp(z))
  <1>1. \A z : decode_memory_operand(z, mod, rm, rex, mode_, offset)
                 = IF (rm = 4 /\ ~Fits(z, offset, 1)) \/ ~Fits(z, behind, Size(z)) THEN NoOperand
                   ELSE Operand(behind + Size(z), Made(z))
    BY Zenon DEF decode_memory_operand
  <1>2. \A z : Size(z) \in {0, 1, 4}
    BY DEF DispSize
  <1>3. Len(x) \in Nat /\ behind \in Nat /\ behind \in offset .. (offset + 1)
    BY DEF Buffers
  <1>4. NoOperand.status # "OK"
    BY DEF NoOperand
  <1> HIDE DEF Sib, behind, NoBase, Size, Disp, Base, Index, Made
  <1>5. /\ r = Operand(behind + Size(x), Made(x))
        /\ rm = 4 => Fits(x, offset, 1)
        /\ Fits(x, behind, Size(x))
    BY <1>1, <1>4
  <1>6. r.offset = behind + Size(x) /\ r.offset \in offset .. Len(x) /\ Size(x) \in Nat
    BY <1>2, <1>3, <1>5 DEF Operand, Fits
  <1>7. ASSUME NEW y, Sees(x, y, r.offset)
        PROVE  decode_memory_operand(y, mod, rm, rex, mode_, offset) = r
    <2>1. rm = 4 => /\ Fits(y, offset, 1) /\ Sib(y) = Sib(x)
      <3>1. rm = 4 => offset + 1 <= r.offset
        BY <1>3, <1>6 DEF behind
      <3>2. r.offset \in 0 .. Len(x)
        BY <1>3, <1>6
      <3>3. rm = 4 => Fits(y, offset, 1) /\ y[offset + 1] = x[offset + 1]
        BY <1>7, <3>1, <3>2, SameBytes
      <3> QED BY <3>3 DEF Sib
    <2>2. NoBase(y) = NoBase(x) /\ Index(y) = Index(x)
      BY <2>1, Zenon DEF NoBase, Index
    <2>3. Size(y) = Size(x) /\ Base(y) = Base(x)
      BY <2>1, <2>2, Zenon DEF Size, Base
    <2>4. Fits(y, behind, Size(y)) /\ Read(y, behind, Size(y)) = Read(x, behind, Size(x))
      <3>1. r.offset \in 0 .. Len(x) /\ behind + Size(x) <= r.offset
        BY <1>3, <1>6
      <3> QED BY <1>3, <1>6, <1>7, <2>3, <3>1, SameBytes
    <2>5. Disp(y) = Disp(x)
      BY <2>3, <2>4 DEF Disp, decode_displacement
    <2>6. Made(y) = Made(x)
      BY <2>1, <2>2, <2>3, <2>5, Zenon DEF Made
    <2> QED BY <1>1, <1>5, <2>1, <2>3, <2>4, <2>6
  <1> QED BY <1>6, <1>7

LEMMA OperandSeen ==
  ASSUME NEW x \in Buffers, NEW mod, NEW rm, NEW rex, NEW mode_, NEW offset \in 0 .. Len(x),
         NEW r, r = decode_rm_operand(x, mod, rm, rex, mode_, offset), r.status = "OK"
  PROVE  /\ r.offset \in offset .. Len(x)
         /\ \A y : Sees(x, y, r.offset) => decode_rm_operand(y, mod, rm, rex, mode_, offset) = r
  <1>1. CASE mod = 3
    <2>1. \A z : decode_rm_operand(z, mod, rm, rex, mode_, offset)
                   = Operand(offset, decode_set_reg(decode_reg(rm, RexB(rex), mode_)))
      BY <1>1 DEF decode_rm_operand
    <2>2. r.offset = offset
      BY <2>1 DEF Operand
    <2> QED BY <2>1, <2>2 DEF Buffers
  <1>2. CASE mod # 3
    <2>1. \A z : decode_rm_operand(z, mod, rm, rex, mode_, offset)
                   = decode_memory_operand(z, mod, rm, rex, mode_, offset)
      BY <1>2 DEF decode_rm_operand
    <2> QED BY <2>1, MemoryOperandSeen
  <1> QED BY <1>1, <1>2

-----------------------------------------------------------------------------
(* What is seen of an instruction.                                         *)

(* If the answer is an instruction, it ends behind e bytes.                *)
EndsAt(ans, e) == ans.status = "OK" => ans.inst.length = e % LengthLimit

(* And the bytes from the opcode up to there encode it.                    *)
Found(ans, x, rex, offset, e) == EndsAt(ans, e) /\ Encodes(ans, x, rex, offset, e)
AtOpcode(x, offset, opcode, rex) ==
  offset \in 1 .. Len(x) /\ x[offset] = opcode /\ PrefixByte(rex)

LEMMA Ends ==
  /\ \A mnemonic, operands, e : EndsAt(Decoded(mnemonic, operands, e), e)
  /\ \A e : EndsAt(decode_unsupported, e)
  /\ ~Decided(Failed("RANGE")) /\ ~Decided(Failed("BAD_ARG"))
  BY DEF EndsAt, Decoded, decode_unsupported, Failed, Decided

LEMMA UnsupportedFound ==
  ASSUME NEW x, NEW rex, NEW offset, NEW e
  PROVE  Found(decode_unsupported, x, rex, offset, e)
  <1>1. decode_unsupported.status # "OK"
    BY DEF decode_unsupported, Failed
  <1> QED BY <1>1, Ends DEF Found, Encodes

LEMMA RelativeSeen ==
  ASSUME NEW x \in Buffers, NEW mnemonic, NEW offset \in 0 .. Len(x), NEW size \in Nat,
         NEW ans, ans = DecodeRelative(mnemonic, x, offset, size), Decided(ans)
  PROVE  /\ offset + size \in offset .. Len(x) /\ ans.status = "OK"
         /\ EndsAt(ans, offset + size)
         /\ \A y : Sees(x, y, offset + size) => DecodeRelative(mnemonic, y, offset, size) = ans
  <1>1. Len(x) \in Nat
    BY DEF Buffers
  <1>2. Fits(x, offset, size)
    BY Ends DEF DecodeRelative
  <1>3. ans = Decoded(mnemonic, <<decode_set_imm(decode_sign_extend(Read(x, offset, size)))>>,
                      offset + size)
    BY <1>2 DEF DecodeRelative
  <1>4. offset + size \in offset .. Len(x) /\ offset + size \in 0 .. Len(x)
    BY <1>1, <1>2 DEF Fits
  <1>5. ASSUME NEW y, Sees(x, y, offset + size)
        PROVE  DecodeRelative(mnemonic, y, offset, size) = ans
    <2>1. Fits(y, offset, size) /\ Read(y, offset, size) = Read(x, offset, size)
      BY <1>1, <1>4, <1>5, SameBytes
    <2> QED BY <1>3, <2>1 DEF DecodeRelative
  <1>6. EndsAt(ans, offset + size)
    BY <1>3, Ends
  <1>7. ans.status = "OK"
    BY <1>3 DEF Decoded
  <1> QED BY <1>4, <1>5, <1>6, <1>7

LEMMA MovImmSeen ==
  ASSUME NEW x \in Buffers, NEW rex, NEW offset \in 0 .. Len(x), NEW opcode \in 184 .. 191,
         AtOpcode(x, offset, opcode, rex),
         NEW ans, ans = DecodeMovImm(x, opcode, rex, mode, offset), Decided(ans)
  PROVE  \E e \in offset .. Len(x) :
           /\ Found(ans, x, rex, offset, e)
           /\ \A y : Sees(x, y, e) => DecodeMovImm(y, opcode, rex, mode, offset) = ans
  <1>1. Len(x) \in Nat /\ offset \in 1 .. Len(x) /\ x[offset] = opcode /\ PrefixByte(rex)
    BY DEF AtOpcode, Buffers
  <1>2. CASE Narrow(rex, mode)
    <2>1. \A y : DecodeMovImm(y, opcode, rex, mode, offset) = decode_unsupported
      BY <1>2 DEF DecodeMovImm
    <2>2. Found(ans, x, rex, offset, offset) /\ offset \in offset .. Len(x)
      BY <1>1, <2>1, UnsupportedFound
    <2> QED BY <2>1, <2>2
  <1>3. CASE ~Narrow(rex, mode)
    <2>1. PICK size \in Nat : size = mode \div 8
      BY <1>1 DEF PrefixByte
    <2> DEFINE Reg == decode_set_reg(decode_reg(opcode - 184, RexB(rex), mode))
               Made(z) == Decoded("MOV", <<Reg, decode_set_imm(ZeroExtend(Read(z, offset, size)))>>,
                                  offset + size)
    <2>2. \A z : DecodeMovImm(z, opcode, rex, mode, offset)
                   = IF ~Fits(z, offset, size) THEN Failed("RANGE") ELSE Made(z)
      BY <1>3, <2>1 DEF DecodeMovImm
    <2>3. Fits(x, offset, size) /\ ans = Made(x)
      <3> HIDE DEF Made
      <3> QED BY <2>2, Ends
    <2>4. offset + size \in offset .. Len(x) /\ offset + size \in 0 .. Len(x)
      BY <1>1, <2>3 DEF Fits
    <2>5. ASSUME NEW y, Sees(x, y, offset + size)
          PROVE  DecodeMovImm(y, opcode, rex, mode, offset) = ans
      <3>1. Fits(y, offset, size) /\ Read(y, offset, size) = Read(x, offset, size)
        BY <1>1, <2>4, <2>5, SameBytes
      <3> QED BY <2>2, <2>3, <3>1
    <2>6. Found(ans, x, rex, offset, offset + size)
      <3>1. EndsAt(ans, offset + size)
        BY <2>3, Ends
      <3>2. ans.status = "OK"
        BY <2>3 DEF Decoded
      <3>3. Encodes(ans, x, rex, offset, offset + size)
        BY <1>1, <2>1, <3>2, MovImmEncoded
      <3> QED BY <3>1, <3>3 DEF Found
    <2> QED BY <2>4, <2>5, <2>6
  <1> QED BY <1>2, <1>3

LEMMA TwoByteSeen ==
  ASSUME NEW x \in Buffers, NEW rex, NEW offset \in 0 .. Len(x), AtOpcode(x, offset, 15, rex),
         NEW ans, ans = DecodeTwoByte(x, offset), Decided(ans)
  PROVE  \E e \in offset .. Len(x) :
           /\ Found(ans, x, rex, offset, e)
           /\ \A y : Sees(x, y, e) => DecodeTwoByte(y, offset) = ans
  <1>1. Len(x) \in Nat /\ offset \in 1 .. Len(x) /\ x[offset] = 15 /\ PrefixByte(rex)
    BY DEF AtOpcode, Buffers
  <1>2. Fits(x, offset, 1)
    BY Ends DEF DecodeTwoByte
  <1>3. offset + 1 \in 0 .. Len(x) /\ offset + 1 \in offset .. Len(x)
    BY <1>1, <1>2 DEF Fits
  <1>4. ASSUME NEW e \in (offset + 1) .. Len(x), NEW y, Sees(x, y, e)
        PROVE  Fits(y, offset, 1) /\ y[offset + 1] = x[offset + 1]
    <2>1. e \in 0 .. Len(x) /\ offset + 1 <= e
      BY <1>1
    <2> QED BY <1>4, <2>1, SameBytes
  <1>5. ASSUME NEW mnemonic, NEW byte, x[offset + 1] = byte,
               \/ mnemonic = "JZ" /\ byte = 132
               \/ mnemonic = "JNZ" /\ byte = 133,
               \A z : Fits(z, offset, 1) /\ z[offset + 1] = byte =>
                        DecodeTwoByte(z, offset) = DecodeRelative(mnemonic, z, offset + 1, 4)
        PROVE  \E e \in offset .. Len(x) :
                 /\ Found(ans, x, rex, offset, e)
                 /\ \A y : Sees(x, y, e) => DecodeTwoByte(y, offset) = ans
    <2>1. ans = DecodeRelative(mnemonic, x, offset + 1, 4)
      BY <1>2, <1>5
    <2>2. PICK e : e = (offset + 1) + 4
      OBVIOUS
    <2>3. /\ e \in (offset + 1) .. Len(x) /\ EndsAt(ans, e) /\ ans.status = "OK"
          /\ \A y : Sees(x, y, e) => DecodeRelative(mnemonic, y, offset + 1, 4) = ans
      <3>1. PICK o \in 0 .. Len(x), size \in Nat : o = offset + 1 /\ size = 4
        BY <1>3
      <3>2. ans = DecodeRelative(mnemonic, x, o, size)
        BY <2>1, <3>1
      <3>3. /\ o + size \in o .. Len(x) /\ ans.status = "OK" /\ EndsAt(ans, o + size)
            /\ \A y : Sees(x, y, o + size) => DecodeRelative(mnemonic, y, o, size) = ans
        BY <3>2, RelativeSeen
      <3> QED BY <2>2, <3>1, <3>3
    <2>4. \A y : Sees(x, y, e) => DecodeTwoByte(y, offset) = ans
      BY <1>4, <1>5, <2>3
    <2>5. e \in offset .. Len(x)
      BY <1>1, <2>3
    <2>6. Encodes(ans, x, rex, offset, e)
      <3>1. offset + 1 <= Len(x)
        BY <1>3
      <3>2. Encodes(ans, x, rex, offset, (offset + 1) + 4)
        BY <1>1, <1>5, <2>1, <2>3, <3>1, LongJumpEncoded
      <3> QED BY <2>2, <3>2
    <2> QED BY <2>3, <2>4, <2>5, <2>6 DEF Found
  <1>6. CASE x[offset + 1] = 132
    <2>1. \A z : Fits(z, offset, 1) /\ z[offset + 1] = 132 =>
                   DecodeTwoByte(z, offset) = DecodeRelative("JZ", z, offset + 1, 4)
      BY DEF DecodeTwoByte
    <2> QED BY <1>5, <1>6, <2>1
  <1>7. CASE x[offset + 1] = 133
    <2>1. \A z : Fits(z, offset, 1) /\ z[offset + 1] = 133 =>
                   DecodeTwoByte(z, offset) = DecodeRelative("JNZ", z, offset + 1, 4)
      BY DEF DecodeTwoByte
    <2> QED BY <1>5, <1>7, <2>1
  <1>8. CASE x[offset + 1] \notin {132, 133}
    <2>1. \A z : Fits(z, offset, 1) /\ z[offset + 1] \notin {132, 133} =>
                   DecodeTwoByte(z, offset) = decode_unsupported
      BY DEF DecodeTwoByte
    <2>2. ans = decode_unsupported
      BY <1>2, <1>8, <2>1
    <2>3. \A y : Sees(x, y, offset + 1) => DecodeTwoByte(y, offset) = ans
      <3>1. offset + 1 \in (offset + 1) .. Len(x)
        BY <1>1, <1>3
      <3> QED BY <1>4, <1>8, <2>1, <2>2, <3>1
    <2> QED BY <1>3, <2>2, <2>3, UnsupportedFound
  <1> QED BY <1>6, <1>7, <1>8

LEMMA ModrmSeen ==
  ASSUME NEW x \in Buffers, NEW offset \in 0 .. Len(x), Fits(x, offset, 1)
  PROVE  /\ offset + 1 \in offset .. Len(x)
         /\ \A y, e : e \in (offset + 1) .. Len(x) /\ Sees(x, y, e) =>
              Fits(y, offset, 1) /\ y[offset + 1] = x[offset + 1]
  <1>1. Len(x) \in Nat
    BY DEF Buffers
  <1>2. offset + 1 \in offset .. Len(x)
    BY <1>1 DEF Fits
  <1>3. ASSUME NEW e \in (offset + 1) .. Len(x), NEW y, Sees(x, y, e)
        PROVE  Fits(y, offset, 1) /\ y[offset + 1] = x[offset + 1]
    <2>1. e \in 0 .. Len(x) /\ offset + 1 <= e
      BY <1>1
    <2> QED BY <1>3, <2>1, SameBytes
  <1> QED BY <1>2, <1>3

LEMMA RmOperandSeen ==
  ASSUME NEW x \in Buffers, NEW rex, NEW mode_, NEW offset \in 0 .. Len(x), Fits(x, offset, 1),
         NEW r, r = RmOperand(x, rex, mode_, offset), r.status = "OK"
  PROVE  /\ r.offset \in (offset + 1) .. Len(x)
         /\ \A y : Sees(x, y, r.offset) => RmOperand(y, rex, mode_, offset) = r
  <1>1. PICK f : f = decode_modrm(x[offset + 1])
    OBVIOUS
  <1>2. Len(x) \in Nat /\ offset + 1 \in 0 .. Len(x)
    BY DEF Buffers, Fits
  <1>3. r = decode_rm_operand(x, f.mod, f.rm, rex, mode_, offset + 1)
    BY <1>1 DEF RmOperand
  <1>4. /\ r.offset \in (offset + 1) .. Len(x)
        /\ \A y : Sees(x, y, r.offset) =>
             decode_rm_operand(y, f.mod, f.rm, rex, mode_, offset + 1) = r
    <2>1. PICK o \in 0 .. Len(x) : o = offset + 1
      BY <1>2
    <2>2. PICK mod, rm : mod = f.mod /\ rm = f.rm
      OBVIOUS
    <2>3. r = decode_rm_operand(x, mod, rm, rex, mode_, o)
      BY <1>3, <2>1, <2>2
    <2>4. /\ r.offset \in o .. Len(x)
          /\ \A y : Sees(x, y, r.offset) => decode_rm_operand(y, mod, rm, rex, mode_, o) = r
      BY <2>3, OperandSeen
    <2> QED BY <2>1, <2>2, <2>4
  <1>5. ASSUME NEW y, Sees(x, y, r.offset)
        PROVE  RmOperand(y, rex, mode_, offset) = r
    <2>1. y[offset + 1] = x[offset + 1]
      BY <1>4, <1>5, ModrmSeen
    <2> QED BY <1>1, <1>4, <1>5, <2>1 DEF RmOperand
  <1> QED BY <1>4, <1>5

LEMMA MoveSeen ==
  ASSUME NEW x \in Buffers, NEW rex, NEW offset \in 0 .. Len(x), NEW opcode \in {139, 137, 141},
         AtOpcode(x, offset, opcode, rex),
         NEW ans, ans = decode_modrm_move_or_lea(x, opcode, rex, mode, offset), Decided(ans)
  PROVE  \E e \in offset .. Len(x) :
           /\ Found(ans, x, rex, offset, e)
           /\ \A y : Sees(x, y, e) => decode_modrm_move_or_lea(y, opcode, rex, mode, offset) = ans
  <1>1. Len(x) \in Nat /\ offset \in 1 .. Len(x) /\ x[offset] = opcode /\ PrefixByte(rex)
    BY DEF AtOpcode, Buffers
  <1> DEFINE F(z) == decode_modrm(z[offset + 1])
             Rm(z) == RmOperand(z, rex, mode, offset)
             Reg(z) == decode_set_reg(decode_reg(F(z).reg, RexR(rex), mode))
             Made(reg, rm) == CASE opcode = 141 -> Decoded("LEA", <<reg, rm.operand>>, rm.offset)
                                [] opcode = 139 -> Decoded("MOV", <<reg, rm.operand>>, rm.offset)
                                [] OTHER -> Decoded("MOV", <<rm.operand, reg>>, rm.offset)
  <1>2. \A z : decode_modrm_move_or_lea(z, opcode, rex, mode, offset)
                 = IF Narrow(rex, mode) THEN decode_unsupported
                   ELSE IF ~Fits(z, offset, 1) THEN Failed("RANGE")
                   ELSE IF opcode = 141 /\ F(z).mod = 3 THEN decode_unsupported
                   ELSE IF Rm(z).status # "OK" THEN Failed("RANGE")
                   ELSE Made(Reg(z), Rm(z))
    BY Zenon DEF decode_modrm_move_or_lea, RmOperand
  <1>3. \A reg, rm : EndsAt(Made(reg, rm), rm.offset)
    BY Ends
  <1> HIDE DEF F, Rm, Reg, Made
  <1>4. CASE Narrow(rex, mode)
    <2>1. Found(ans, x, rex, offset, offset) /\ offset \in offset .. Len(x)
      BY <1>1, <1>2, <1>4, UnsupportedFound
    <2> QED BY <1>2, <1>4, <2>1
  <1>5. CASE ~Narrow(rex, mode)
    <2>1. Fits(x, offset, 1)
      BY <1>2, <1>5, Ends
    <2>2. /\ offset + 1 \in offset .. Len(x)
          /\ \A y, e : e \in (offset + 1) .. Len(x) /\ Sees(x, y, e) =>
               Fits(y, offset, 1) /\ F(y) = F(x) /\ Reg(y) = Reg(x)
      BY <2>1, ModrmSeen DEF F, Reg
    <2>3. CASE opcode = 141 /\ F(x).mod = 3
      <3>1. offset + 1 \in (offset + 1) .. Len(x)
        BY <1>1, <2>2
      <3>2. ans = decode_unsupported
        BY <1>2, <1>5, <2>1, <2>3
      <3>3. \A y : Sees(x, y, offset + 1) =>
                     decode_modrm_move_or_lea(y, opcode, rex, mode, offset) = ans
        BY <1>2, <1>5, <2>2, <2>3, <3>1, <3>2
      <3> QED BY <2>2, <3>2, <3>3, UnsupportedFound
    <2>4. CASE ~(opcode = 141 /\ F(x).mod = 3)
      <3>1. Rm(x).status = "OK" /\ ans = Made(Reg(x), Rm(x))
        BY <1>2, <1>5, <2>1, <2>4, Ends
      <3>2. /\ Rm(x).offset \in (offset + 1) .. Len(x)
            /\ \A y : Sees(x, y, Rm(x).offset) => Rm(y) = Rm(x)
        BY <2>1, <3>1, RmOperandSeen DEF Rm
      <3>3. Rm(x).offset \in offset .. Len(x)
        BY <1>1, <3>2
      <3>4. ASSUME NEW y, Sees(x, y, Rm(x).offset)
            PROVE  decode_modrm_move_or_lea(y, opcode, rex, mode, offset) = ans
        <4>1. Fits(y, offset, 1) /\ F(y) = F(x) /\ Reg(y) = Reg(x) /\ Rm(y) = Rm(x)
          BY <2>2, <3>2, <3>4
        <4> QED BY <1>2, <1>5, <2>4, <3>1, <4>1
      <3>5. Found(ans, x, rex, offset, Rm(x).offset)
        <4>1. EndsAt(ans, Rm(x).offset)
          BY <1>3, <3>1
        <4>2. Encodes(ans, x, rex, offset, Rm(x).offset)
          <5>1. CASE ans.status = "OK"
            BY <1>1, <5>1, MoveEncoded DEF Rm
          <5>2. CASE ans.status # "OK"
            BY <5>2 DEF Encodes
          <5> QED BY <5>1, <5>2
        <4> QED BY <4>1, <4>2 DEF Found
      <3> QED BY <3>3, <3>4, <3>5
    <2> QED BY <2>3, <2>4
  <1> QED BY <1>4, <1>5

LEMMA BinarySeen ==
  ASSUME NEW x \in Buffers, NEW rex, NEW offset \in 0 .. Len(x),
         NEW opcode \in {1, 3, 9, 11, 33, 35, 41, 43, 49, 51, 57, 59, 133},
         AtOpcode(x, offset, opcode, rex),
         NEW ans, ans = decode_modrm_binary(x, opcode, rex, mode, offset), Decided(ans)
  PROVE  \E e \in offset .. Len(x) :
           /\ Found(ans, x, rex, offset, e)
           /\ \A y : Sees(x, y, e) => decode_modrm_binary(y, opcode, rex, mode, offset) = ans
  <1>1. Len(x) \in Nat /\ offset \in 1 .. Len(x) /\ x[offset] = opcode /\ PrefixByte(rex)
    BY DEF AtOpcode, Buffers
  <1> DEFINE F(z) == decode_modrm(z[offset + 1])
             Rm(z) == RmOperand(z, rex, mode, offset)
             Reg(z) == decode_set_reg(decode_reg(F(z).reg, RexR(rex), mode))
             Made(reg, rm) == IF rm.operand.kind # "REG" THEN decode_unsupported
                              ELSE Decoded(decode_binary_mnemonic(opcode),
                                           IF decode_reg_dest_opcode(opcode)
                                           THEN <<reg, rm.operand>> ELSE <<rm.operand, reg>>,
                                           rm.offset)
  <1>2. \A z : decode_modrm_binary(z, opcode, rex, mode, offset)
                 = IF Narrow(rex, mode) THEN decode_unsupported
                   ELSE IF ~Fits(z, offset, 1) \/ Rm(z).status # "OK" THEN Failed("RANGE")
                   ELSE Made(Reg(z), Rm(z))
    BY Zenon DEF decode_modrm_binary, RmOperand
  <1>3. \A reg, rm : EndsAt(Made(reg, rm), rm.offset)
    BY Ends
  <1> HIDE DEF F, Rm, Reg, Made
  <1>4. CASE Narrow(rex, mode)
    <2>1. Found(ans, x, rex, offset, offset) /\ offset \in offset .. Len(x)
      BY <1>1, <1>2, <1>4, UnsupportedFound
    <2> QED BY <1>2, <1>4, <2>1
  <1>5. CASE ~Narrow(rex, mode)
    <2>1. Fits(x, offset, 1) /\ Rm(x).status = "OK" /\ ans = Made(Reg(x), Rm(x))
      BY <1>2, <1>5, Ends
    <2>2. /\ Rm(x).offset \in (offset + 1) .. Len(x)
          /\ \A y : Sees(x, y, Rm(x).offset) => Rm(y) = Rm(x)
      BY <2>1, RmOperandSeen DEF Rm
    <2>3. Rm(x).offset \in offset .. Len(x)
      BY <1>1, <2>2
    <2>4. ASSUME NEW y, Sees(x, y, Rm(x).offset)
          PROVE  decode_modrm_binary(y, opcode, rex, mode, offset) = ans
      <3>1. Fits(y, offset, 1) /\ Reg(y) = Reg(x) /\ Rm(y) = Rm(x)
        BY <2>1, <2>2, <2>4, ModrmSeen DEF F, Reg
      <3> QED BY <1>2, <1>5, <2>1, <3>1
    <2>5. Found(ans, x, rex, offset, Rm(x).offset)
      <3>1. EndsAt(ans, Rm(x).offset)
        BY <1>3, <2>1
      <3>2. Encodes(ans, x, rex, offset, Rm(x).offset)
        <4>1. CASE ans.status = "OK"
          BY <1>1, <4>1, BinaryEncoded DEF Rm
        <4>2. CASE ans.status # "OK"
          BY <4>2 DEF Encodes
        <4> QED BY <4>1, <4>2
      <3> QED BY <3>1, <3>2 DEF Found
    <2> QED BY <2>3, <2>4, <2>5
  <1> QED BY <1>4, <1>5

LEMMA Group1Seen ==
  ASSUME NEW x \in Buffers, NEW rex, NEW offset \in 0 .. Len(x), NEW opcode \in {129, 131},
         AtOpcode(x, offset, opcode, rex),
         NEW ans, ans = decode_group1_imm(x, opcode, rex, mode, offset), Decided(ans)
  PROVE  \E e \in offset .. Len(x) :
           /\ Found(ans, x, rex, offset, e)
           /\ \A y : Sees(x, y, e) => decode_group1_imm(y, opcode, rex, mode, offset) = ans
  <1>1. Len(x) \in Nat /\ offset \in 1 .. Len(x) /\ x[offset] = opcode /\ PrefixByte(rex)
    BY DEF AtOpcode, Buffers
  <1>2. PICK size \in Nat : size = IF opcode = 131 THEN 1 ELSE 4
    OBVIOUS
  <1> DEFINE F(z) == decode_modrm(z[offset + 1])
             Rm(z) == RmOperand(z, rex, mode, offset)
             Made(f, rm, low) ==
               IF f.reg \notin DOMAIN decode_group1_mnemonic THEN decode_unsupported
               ELSE Decoded(decode_group1_mnemonic[f.reg],
                            <<rm.operand, decode_set_imm(decode_sign_extend(low))>>,
                            rm.offset + size)
  <1>3. \A z : decode_group1_imm(z, opcode, rex, mode, offset)
                 = IF Narrow(rex, mode) THEN decode_unsupported
                   ELSE IF ~Fits(z, offset, 1) \/ Rm(z).status # "OK" THEN Failed("RANGE")
                   ELSE IF Rm(z).operand.kind # "REG" THEN decode_unsupported
                   ELSE IF ~Fits(z, Rm(z).offset, size) THEN Failed("RANGE")
                   ELSE Made(F(z), Rm(z), Read(z, Rm(z).offset, size))
    BY <1>2 DEF decode_group1_imm, RmOperand
  <1>4. \A f, rm, low : EndsAt(Made(f, rm, low), rm.offset + size)
    BY Ends
  <1> HIDE DEF F, Rm, Made
  <1>5. CASE Narrow(rex, mode)
    <2>1. Found(ans, x, rex, offset, offset) /\ offset \in offset .. Len(x)
      BY <1>1, <1>3, <1>5, UnsupportedFound
    <2> QED BY <1>3, <1>5, <2>1
  <1>6. CASE ~Narrow(rex, mode)
    <2>1. Fits(x, offset, 1) /\ Rm(x).status = "OK"
      BY <1>3, <1>6, Ends
    <2>2. /\ Rm(x).offset \in (offset + 1) .. Len(x)
          /\ \A y : Sees(x, y, Rm(x).offset) => Rm(y) = Rm(x)
      BY <2>1, RmOperandSeen DEF Rm
    <2>3. \A y, e : e \in (offset + 1) .. Len(x) /\ Sees(x, y, e) =>
                      Fits(y, offset, 1) /\ F(y) = F(x)
      BY <2>1, ModrmSeen DEF F
    <2>4. Rm(x).offset \in offset .. Len(x)
      BY <1>1, <2>2
    <2>5. CASE Rm(x).operand.kind # "REG"
      <3>1. ans = decode_unsupported
        BY <1>3, <1>6, <2>1, <2>5
      <3>2. \A y : Sees(x, y, Rm(x).offset) =>
                     decode_group1_imm(y, opcode, rex, mode, offset) = ans
        BY <1>3, <1>6, <2>1, <2>2, <2>3, <2>5, <3>1
      <3> QED BY <2>4, <3>1, <3>2, UnsupportedFound
    <2>6. CASE Rm(x).operand.kind = "REG"
      <3>1. /\ Fits(x, Rm(x).offset, size)
            /\ ans = Made(F(x), Rm(x), Read(x, Rm(x).offset, size))
        BY <1>3, <1>6, <2>1, <2>6, Ends
      <3>2. PICK e : e = Rm(x).offset + size
        OBVIOUS
      <3>3. e \in offset .. Len(x) /\ e \in 0 .. Len(x) /\ e \in (offset + 1) .. Len(x)
            /\ Rm(x).offset \in Nat
        BY <1>1, <2>2, <3>1, <3>2 DEF Fits
      <3>4. ASSUME NEW y, Sees(x, y, e)
            PROVE  decode_group1_imm(y, opcode, rex, mode, offset) = ans
        <4>1. Sees(x, y, Rm(x).offset)
          BY <1>1, <2>2, <3>2, <3>3, <3>4 DEF Sees, Buffers
        <4>2. /\ Fits(y, Rm(x).offset, size)
              /\ Read(y, Rm(x).offset, size) = Read(x, Rm(x).offset, size)
          BY <3>2, <3>3, <3>4, SameBytes
        <4>3. Fits(y, offset, 1) /\ F(y) = F(x) /\ Rm(y) = Rm(x)
          BY <2>2, <2>3, <3>3, <3>4, <4>1
        <4> QED BY <1>3, <1>6, <2>1, <2>6, <3>1, <4>2, <4>3
      <3>5. Found(ans, x, rex, offset, e)
        <4>1. EndsAt(ans, e)
          BY <1>4, <3>1, <3>2
        <4>2. Encodes(ans, x, rex, offset, e)
          <5>1. CASE ans.status = "OK"
            <6>1. PICK r : r = RmOperand(x, rex, mode, offset)
              OBVIOUS
            <6>2. Encodes(ans, x, rex, offset, r.offset + size)
              BY <1>1, <1>2, <5>1, <6>1, Group1Encoded
            <6> QED BY <3>2, <6>1, <6>2 DEF Rm
          <5>2. CASE ans.status # "OK"
            BY <5>2 DEF Encodes
          <5> QED BY <5>1, <5>2
        <4> QED BY <4>1, <4>2 DEF Found
      <3> QED BY <3>3, <3>4, <3>5
    <2> QED BY <2>5, <2>6
  <1> QED BY <1>5, <1>6

-----------------------------------------------------------------------------
(* The opcode and the prefixes before it.                                  *)

LEMMA OpcodeSeen ==
  ASSUME NEW x \in Buffers, NEW opcode, NEW rex, NEW offset \in 0 .. Len(x),
         AtOpcode(x, offset, opcode, rex),
         NEW ans, ans = DecodeOpcode(x, opcode, rex, mode, offset), Decided(ans)
  PROVE  \E e \in offset .. Len(x) :
           /\ Found(ans, x, rex, offset, e)
           /\ \A y : Sees(x, y, e) => DecodeOpcode(y, opcode, rex, mode, offset) = ans
  <1>1. /\ offset \in offset .. Len(x) /\ offset \in 1 .. Len(x)
        /\ x[offset] = opcode /\ PrefixByte(rex)
    BY DEF AtOpcode, Buffers
  <1>2. CASE opcode \in 184 .. 191
    <2>0. /\ opcode \notin 80 .. 95 /\ opcode # 144 /\ opcode \notin {139, 137, 141}
          /\ opcode \notin {1, 3, 9, 11, 33, 35, 41, 43, 49, 51, 57, 59, 133}
          /\ opcode \notin {129, 131}
          /\ opcode # 235 /\ opcode # 233 /\ opcode # 116 /\ opcode # 117 /\ opcode # 15 /\ opcode # 195
      BY <1>2
    <2>1. \A z : DecodeOpcode(z, opcode, rex, mode, offset)
                   = DecodeMovImm(z, opcode, rex, mode, offset)
      BY <1>2, <2>0, Zenon DEF DecodeOpcode
    <2> QED BY <1>2, <2>1, MovImmSeen
  <1>3. CASE opcode \in 80 .. 95
    <2>0. /\ opcode \notin 184 .. 191 /\ opcode # 144 /\ opcode \notin {139, 137, 141}
          /\ opcode \notin {1, 3, 9, 11, 33, 35, 41, 43, 49, 51, 57, 59, 133}
          /\ opcode \notin {129, 131}
          /\ opcode # 235 /\ opcode # 233 /\ opcode # 116 /\ opcode # 117 /\ opcode # 15 /\ opcode # 195
      BY <1>3
    <2>1. \A z : DecodeOpcode(z, opcode, rex, mode, offset)
                   = DecodeStack(opcode, rex, mode, offset)
      BY <1>3, <2>0, Zenon DEF DecodeOpcode
    <2>2. Found(ans, x, rex, offset, offset)
      <3>1. EndsAt(ans, offset)
        BY <2>1, Ends DEF DecodeStack
      <3>2. Encodes(ans, x, rex, offset, offset)
        BY <1>1, <1>3, <2>1, StackEncoded
      <3> QED BY <3>1, <3>2 DEF Found
    <2> QED BY <1>1, <2>1, <2>2
  <1>4. CASE opcode = 144
    <2>1. \A z : DecodeOpcode(z, opcode, rex, mode, offset) = Decoded("NOP", <<>>, offset)
      BY <1>4 DEF DecodeOpcode
    <2>2. EndsAt(ans, offset) /\ Encodes(ans, x, rex, offset, offset)
      BY <1>1, <1>4, <2>1, Ends, OneByteEncoded
    <2> QED BY <1>1, <2>1, <2>2 DEF Found
  <1>5. CASE opcode \in {139, 137, 141}
    <2>0. /\ opcode \notin 184 .. 191 /\ opcode \notin 80 .. 95 /\ opcode # 144
          /\ opcode \notin {1, 3, 9, 11, 33, 35, 41, 43, 49, 51, 57, 59, 133}
          /\ opcode \notin {129, 131}
          /\ opcode # 235 /\ opcode # 233 /\ opcode # 116 /\ opcode # 117 /\ opcode # 15 /\ opcode # 195
      BY <1>5
    <2>1. \A z : DecodeOpcode(z, opcode, rex, mode, offset)
                   = decode_modrm_move_or_lea(z, opcode, rex, mode, offset)
      BY <1>5, <2>0, Zenon DEF DecodeOpcode
    <2> QED BY <1>5, <2>1, MoveSeen
  <1>6. CASE opcode \in {1, 3, 9, 11, 33, 35, 41, 43, 49, 51, 57, 59, 133}
    <2>0. /\ opcode \notin 184 .. 191 /\ opcode \notin 80 .. 95 /\ opcode # 144
          /\ opcode \notin {139, 137, 141}
          /\ opcode \notin {129, 131}
          /\ opcode # 235 /\ opcode # 233 /\ opcode # 116 /\ opcode # 117 /\ opcode # 15 /\ opcode # 195
      BY <1>6
    <2>1. \A z : DecodeOpcode(z, opcode, rex, mode, offset)
                   = decode_modrm_binary(z, opcode, rex, mode, offset)
      BY <1>6, <2>0, Zenon DEF DecodeOpcode
    <2> QED BY <1>6, <2>1, BinarySeen
  <1>7. CASE opcode \in {129, 131}
    <2>1. \A z : DecodeOpcode(z, opcode, rex, mode, offset)
                   = decode_group1_imm(z, opcode, rex, mode, offset)
      BY <1>7 DEF DecodeOpcode
    <2> QED BY <1>7, <2>1, Group1Seen
  <1>8. ASSUME NEW mnemonic, NEW size \in Nat, OneByteJump(opcode, mnemonic, size),
               \A z : DecodeOpcode(z, opcode, rex, mode, offset)
                        = DecodeRelative(mnemonic, z, offset, size)
        PROVE  \E e \in offset .. Len(x) :
                 /\ Found(ans, x, rex, offset, e)
                 /\ \A y : Sees(x, y, e) => DecodeOpcode(y, opcode, rex, mode, offset) = ans
    <2>1. ans = DecodeRelative(mnemonic, x, offset, size)
      BY <1>8
    <2>2. /\ offset + size \in offset .. Len(x) /\ ans.status = "OK"
          /\ EndsAt(ans, offset + size)
          /\ \A y : Sees(x, y, offset + size) => DecodeRelative(mnemonic, y, offset, size) = ans
      BY <2>1, RelativeSeen
    <2>3. Encodes(ans, x, rex, offset, offset + size)
      BY <1>1, <1>8, <2>1, <2>2, JumpEncoded
    <2> QED BY <1>8, <2>2, <2>3 DEF Found
  <1>9. CASE opcode = 235
    <2>1. \A z : DecodeOpcode(z, opcode, rex, mode, offset)
                   = DecodeRelative("JMP", z, offset, 1)
      BY <1>9 DEF DecodeOpcode
    <2> QED BY <1>8, <1>9, <2>1 DEF OneByteJump
  <1>10. CASE opcode = 233
    <2>1. \A z : DecodeOpcode(z, opcode, rex, mode, offset)
                   = DecodeRelative("JMP", z, offset, 4)
      BY <1>10 DEF DecodeOpcode
    <2> QED BY <1>8, <1>10, <2>1 DEF OneByteJump
  <1>11. CASE opcode = 116
    <2>1. \A z : DecodeOpcode(z, opcode, rex, mode, offset)
                   = DecodeRelative("JZ", z, offset, 1)
      BY <1>11 DEF DecodeOpcode
    <2> QED BY <1>8, <1>11, <2>1 DEF OneByteJump
  <1>12. CASE opcode = 117
    <2>1. \A z : DecodeOpcode(z, opcode, rex, mode, offset)
                   = DecodeRelative("JNZ", z, offset, 1)
      BY <1>12 DEF DecodeOpcode
    <2> QED BY <1>8, <1>12, <2>1 DEF OneByteJump
  <1>13. CASE opcode = 15
    <2>1. \A z : DecodeOpcode(z, opcode, rex, mode, offset) = DecodeTwoByte(z, offset)
      BY <1>13 DEF DecodeOpcode
    <2> QED BY <1>13, <2>1, TwoByteSeen
  <1>14. CASE opcode = 195
    <2>1. \A z : DecodeOpcode(z, opcode, rex, mode, offset) = Decoded("RET", <<>>, offset)
      BY <1>14 DEF DecodeOpcode
    <2>2. EndsAt(ans, offset) /\ Encodes(ans, x, rex, offset, offset)
      BY <1>1, <1>14, <2>1, Ends, OneByteEncoded
    <2> QED BY <1>1, <2>1, <2>2 DEF Found
  <1>15. CASE /\ opcode \notin 184 .. 191 /\ opcode \notin 80 .. 95
              /\ opcode \notin {139, 137, 141}
              /\ opcode \notin {1, 3, 9, 11, 33, 35, 41, 43, 49, 51, 57, 59, 133}
              /\ opcode \notin {129, 131} /\ opcode \notin {144, 235, 233, 116, 117, 15, 195}
    <2>1. \A z : DecodeOpcode(z, opcode, rex, mode, offset) = decode_unsupported
      BY <1>15 DEF DecodeOpcode
    <2> QED BY <1>1, <2>1, UnsupportedFound
  <1> QED BY <1>2, <1>3, <1>4, <1>5, <1>6, <1>7, <1>9, <1>10, <1>11, <1>12, <1>13, <1>14, <1>15

(* n bytes of x are prefixes, and no more.                                 *)
PrefixCount(x, n) ==
  /\ n \in 0 .. Len(x) /\ \A i \in 1 .. n : x[i] \in 64 .. 79
  /\ n < Len(x) => x[n + 1] \notin 64 .. 79

LEMMA PrefixesCounted ==
  ASSUME NEW x \in Buffers
  PROVE  PrefixCount(x, Prefixes(x, 64))
  <1>1. Len(x) \in Nat
    BY DEF Buffers
  <1>2. PICK S : S = {k \in Nat : k < Len(x) => x[k + 1] \notin 64 .. 79}
    OBVIOUS
  <1>3. S \subseteq Nat /\ Len(x) \in S
    BY <1>1, <1>2
  <1>4. PICK n \in S : \A k \in S : n <= k
    BY <1>3, LeastElement
  <1>5. n \in 0 .. Len(x) /\ (n < Len(x) => x[n + 1] \notin 64 .. 79)
    BY <1>1, <1>2, <1>3, <1>4
  <1>6. ASSUME NEW i \in 1 .. n
        PROVE  x[i] \in 64 .. 79
    <2>1. i - 1 \in Nat /\ i - 1 < n /\ i - 1 < Len(x) /\ (i - 1) + 1 = i
      BY <1>1, <1>5
    <2>2. i - 1 \notin S
      BY <1>4, <1>5, <2>1
    <2> QED BY <1>2, <2>1, <2>2
  <1>7. PrefixCount(x, n)
    BY <1>5, <1>6 DEF PrefixCount
  <1>8. Prefixes(x, 64) = CHOOSE k \in 0 .. Len(x) :
                            /\ \A i \in 1 .. k : x[i] \in 64 .. 79
                            /\ k < Len(x) => x[k + 1] \notin 64 .. 79
    BY DEF Prefixes
  <1> QED BY <1>7, <1>8, Zenon DEF PrefixCount

(* Two buffers with the same opcode byte behind the prefixes.              *)
LEMMA SamePrefixes ==
  ASSUME NEW x \in Buffers, NEW mode_ \in {32, 64}, NEW n, n = Prefixes(x, mode_), n < Len(x),
         NEW y, NEW e \in (n + 1) .. Len(x), Sees(x, y, e)
  PROVE  n \in Nat /\ Prefixes(y, mode_) = n /\ n < Len(y) /\ Len(y) \in Nat
  <1>1. Len(x) \in Nat /\ y \in Buffers /\ Len(y) \in Nat /\ e <= Len(y)
    BY DEF Buffers, Sees
  <1>2. CASE mode_ = 32
    BY <1>1, <1>2 DEF Prefixes
  <1>3. CASE mode_ = 64
    <2>1. PrefixCount(x, n)
      BY <1>3, PrefixesCounted
    <2>2. PICK k : k = Prefixes(y, 64)
      OBVIOUS
    <2>3. PrefixCount(y, k)
      BY <1>1, <2>2, PrefixesCounted
    <2>4. n \in Nat /\ k \in Nat /\ n < Len(x) /\ n < Len(y) /\ n + 1 <= e
      BY <1>1, <2>1, <2>3 DEF PrefixCount
    <2>5. \A i \in 1 .. (n + 1) : y[i] = x[i]
      BY <1>1, <2>4 DEF Sees
    <2>6. ~(k < n)
      <3>1. SUFFICES ASSUME k < n
                     PROVE  FALSE
        OBVIOUS
      <3>2. k < Len(y) /\ k + 1 \in 1 .. n /\ k + 1 \in 1 .. (n + 1)
        BY <1>1, <2>4, <3>1
      <3> QED BY <2>1, <2>3, <2>5, <3>2 DEF PrefixCount
    <2>7. ~(n < k)
      <3>1. SUFFICES ASSUME n < k
                     PROVE  FALSE
        OBVIOUS
      <3>2. n + 1 \in 1 .. k /\ n + 1 \in 1 .. (n + 1)
        BY <2>4, <3>1
      <3> QED BY <2>1, <2>3, <2>4, <2>5, <3>2 DEF PrefixCount
    <2> QED BY <1>1, <1>3, <2>2, <2>4, <2>6, <2>7
  <1> QED BY <1>2, <1>3

(* The prefix that counts.                                                 *)
PrefixOf(x, mode_) == IF Prefixes(x, mode_) = 0 THEN 0 ELSE x[Prefixes(x, mode_)]

LEMMA PrefixAt ==
  ASSUME NEW x \in Buffers, mode \in {32, 64}
  PROVE  Prefixes(x, mode) \in 0 .. Len(x) /\ PrefixByte(PrefixOf(x, mode))
  <1>1. Len(x) \in Nat
    BY DEF Buffers
  <1>2. PICK n : n = Prefixes(x, mode)
    OBVIOUS
  <1>3. CASE mode = 32
    BY <1>1, <1>3 DEF Prefixes, PrefixOf, PrefixByte
  <1>4. CASE mode = 64
    <2>1. n \in 0 .. Len(x) /\ \A i \in 1 .. n : x[i] \in 64 .. 79
      BY <1>2, <1>4, PrefixesCounted DEF PrefixCount
    <2>2. n # 0 => n \in 1 .. n
      BY <1>1, <2>1
    <2> QED BY <1>2, <1>4, <2>1, <2>2 DEF PrefixOf, PrefixByte
  <1> QED BY <1>3, <1>4

LEMMA DecodeSeen ==
  ASSUME NEW x \in Buffers, mode \in {32, 64},
         NEW ans, ans = xair_x86_decode_mode(x, mode), Decided(ans)
  PROVE  /\ Prefixes(x, mode) \in Nat /\ Prefixes(x, mode) < Len(x)
         /\ \E e \in (Prefixes(x, mode) + 1) .. Len(x) :
              /\ Found(ans, x, PrefixOf(x, mode), Prefixes(x, mode) + 1, e)
              /\ \A y : Sees(x, y, e) => xair_x86_decode_mode(y, mode) = ans
  <1> DEFINE N(z) == Prefixes(z, mode)
             Rex(z) == PrefixOf(z, mode)
  <1>1. \A z : xair_x86_decode_mode(z, mode)
                 = IF z = <<>> THEN Failed("BAD_ARG")
                   ELSE IF N(z) = Len(z) THEN Failed("RANGE")
                   ELSE DecodeOpcode(z, z[N(z) + 1], Rex(z), mode, N(z) + 1)
    BY Zenon DEF xair_x86_decode_mode, PrefixOf
  <1>2. Len(x) \in Nat /\ N(x) \in 0 .. Len(x) /\ PrefixByte(Rex(x))
    BY PrefixAt DEF Buffers
  <1> HIDE DEF N, Rex
  <1>3. PICK n : n = N(x)
    OBVIOUS
  <1>4. PICK opcode : opcode = x[n + 1]
    OBVIOUS
  <1>5. x # <<>> /\ n # Len(x) /\ ans = DecodeOpcode(x, opcode, Rex(x), mode, n + 1)
    BY <1>1, <1>3, <1>4, Ends
  <1>6. n \in Nat /\ n < Len(x) /\ n + 1 \in 0 .. Len(x)
    BY <1>2, <1>3, <1>5
  <1>7. PICK e \in (n + 1) .. Len(x) :
          /\ Found(ans, x, Rex(x), n + 1, e)
          /\ \A y : Sees(x, y, e) => DecodeOpcode(y, opcode, Rex(x), mode, n + 1) = ans
    <2>1. PICK rex : rex = Rex(x)
      OBVIOUS
    <2>2. PICK offset \in 0 .. Len(x) : offset = n + 1
      BY <1>6
    <2>3. AtOpcode(x, offset, opcode, rex)
      BY <1>2, <1>4, <1>6, <2>1, <2>2 DEF AtOpcode
    <2>4. ans = DecodeOpcode(x, opcode, rex, mode, offset)
      BY <1>5, <2>1, <2>2
    <2>5. \E e \in offset .. Len(x) :
            /\ Found(ans, x, rex, offset, e)
            /\ \A y : Sees(x, y, e) => DecodeOpcode(y, opcode, rex, mode, offset) = ans
      BY <2>3, <2>4, OpcodeSeen
    <2> QED BY <2>1, <2>2, <2>5
  <1>8. ASSUME NEW y, Sees(x, y, e)
        PROVE  xair_x86_decode_mode(y, mode) = ans
    <2>1. N(y) = n /\ n < Len(y) /\ Len(y) \in Nat
      BY <1>3, <1>6, <1>7, <1>8, SamePrefixes DEF N
    <2>2. y # <<>>
      BY <1>6, <2>1
    <2>3. y[n + 1] = opcode
      BY <1>4, <1>6, <1>7, <1>8 DEF Sees
    <2>4. Rex(y) = Rex(x)
      <3>1. n # 0 => n \in 1 .. e
        BY <1>6, <1>7
      <3> QED BY <1>3, <1>8, <2>1, <3>1 DEF N, Rex, PrefixOf, Sees
    <2> QED BY <1>1, <1>6, <1>7, <1>8, <2>1, <2>2, <2>3, <2>4
  <1> QED BY <1>3, <1>6, <1>7, <1>8 DEF N, Rex

-----------------------------------------------------------------------------
(* The client.  The answer is that for the buffer, and an instruction has  *)
(* been found with its last byte: one more byte may stand behind it.       *)

(* Neither depends on more than the bytes up to the end.                   *)
LEMMA SamePart ==
  ASSUME NEW x \in Buffers, mode \in {32, 64}, Prefixes(x, mode) \in Nat, Prefixes(x, mode) < Len(x),
         NEW e \in (Prefixes(x, mode) + 1) .. Len(x), NEW y, Sees(x, y, e)
  PROVE  /\ Prefixes(y, mode) = Prefixes(x, mode) /\ PrefixOf(y, mode) = PrefixOf(x, mode)
         /\ SubSeq(y, Prefixes(x, mode) + 1, e) = SubSeq(x, Prefixes(x, mode) + 1, e)
  <1>1. PICK n \in Nat : n = Prefixes(x, mode)
    OBVIOUS
  <1>2. Len(x) \in Nat /\ n + 1 <= e /\ e <= Len(x) /\ e \in 0 .. Len(x) /\ e \in Nat
    BY <1>1 DEF Buffers
  <1>3. Prefixes(y, mode) = n
    BY <1>1, SamePrefixes
  <1>4. PrefixOf(y, mode) = PrefixOf(x, mode)
    <2>1. n # 0 => n \in 1 .. e
      BY <1>2
    <2> QED BY <1>1, <1>3, <2>1 DEF PrefixOf, Sees
  <1>5. PICK k \in Nat : k = e - n
    BY <1>2
  <1>6. n + k = e /\ n + k <= e
    BY <1>2, <1>5
  <1>7. Read(y, n, k) = Read(x, n, k)
    BY <1>2, <1>6, SameBytes
  <1> QED BY <1>1, <1>3, <1>4, <1>6, <1>7 DEF Read

(* The encodings of an instruction depend on the mode alone.               *)
LEMMA SameWithRm ==
  ASSUME mode' = mode, NEW opcode, NEW reg, NEW r, NEW operand, NEW imm
  PROVE  WithRm(opcode, reg, r, operand, imm)' = WithRm(opcode, reg, r, operand, imm)
  <1>1. RmForms(operand)' = RmForms(operand)
    BY DEF RmForms, MemForms
  <1> QED BY <1>1 DEF WithRm

LEMMA SameEncodings ==
  ASSUME mode' = mode, NEW inst
  PROVE  Encodings(inst)' = Encodings(inst)
  <1>1. \A a, p, q : RegRm(a, p, q)' = RegRm(a, p, q)
    BY SameWithRm, Zenon DEF RegRm
  <1>2. \A a, b : RegForms(inst, a, b)' = RegForms(inst, a, b)
    BY <1>1, Zenon DEF RegForms
  <1>3. \A n, rm, imm : ImmForms(n, rm, imm)' = ImmForms(n, rm, imm)
    BY SameWithRm DEF ImmForms
  <1>4. MovForms(inst)' = MovForms(inst)
    BY <1>2, Zenon DEF MovForms
  <1>5. \A n : ArithmeticForms(inst, n)' = ArithmeticForms(inst, n)
    BY <1>2, <1>3, Zenon DEF ArithmeticForms
  <1> QED BY <1>1, <1>4, <1>5 DEF Encodings

LEMMA Described ==
  /\ DecodesEncoding =>
       Encodes(answer, bytes, PrefixOf(bytes, mode), Prefixes(bytes, mode) + 1, Len(bytes) - extra)
  /\ mode' = mode
     /\ Encodes(answer', bytes', PrefixOf(bytes', mode), Prefixes(bytes', mode) + 1,
                Len(bytes') - extra')
       => DecodesEncoding'
  <1>1. ASSUME DecodesEncoding
        PROVE  Encodes(answer, bytes, PrefixOf(bytes, mode), Prefixes(bytes, mode) + 1,
                       Len(bytes) - extra)
    BY <1>1, Zenon DEF DecodesEncoding, Encodes, Encoded, Overlong, Formed, PrefixOf
  <1>2. ASSUME mode' = mode,
               Encodes(answer', bytes', PrefixOf(bytes', mode), Prefixes(bytes', mode) + 1,
                       Len(bytes') - extra'),
               answer'.status = "OK"
        PROVE  DecodesEncoding'
    <2>1. PICK inst : inst = answer'.inst
      OBVIOUS
    <2>2. Encodings(inst)' = Encodings(inst)
      BY <1>2, SameEncodings
    <2>3. Encodings(answer.inst)' = Encodings(inst)
      BY <2>1, <2>2, Zenon
    <2>4. PICK n, rex : n = Prefixes(bytes', mode') /\ rex = IF n = 0 THEN 0 ELSE bytes'[n]
      OBVIOUS
    <2>5. n = Prefixes(bytes', mode) /\ rex = PrefixOf(bytes', mode)
      BY <1>2, <2>4 DEF PrefixOf
    <2>6. \/ \E enc \in Encodings(inst) : Fitting(enc, SubSeq(bytes', n + 1, Len(bytes') - extra'), rex)
          \/ ExchangeForNop(inst, SubSeq(bytes', n + 1, Len(bytes') - extra'), rex)
      BY <1>2, <2>1, <2>5 DEF Encodes
    <2> QED
      BY <2>1, <2>3, <2>4, <2>6, Zenon
      DEF DecodesEncoding, Encoded, Overlong, Formed, Fitting, ExchangeForNop
  <1>3. answer'.status # "OK" => DecodesEncoding'
    BY Zenon DEF DecodesEncoding
  <1> QED BY <1>1, <1>2, <1>3, Zenon

DecodeInv ==
  /\ mode \in {32, 64} /\ bytes \in Buffers /\ extra \in {0, 1}
  /\ answer = xair_x86_decode_mode(bytes, mode)
  /\ extra = 1 => Decided(answer) /\ bytes # <<>>
  /\ EndsAt(answer, Len(bytes) - extra)
  /\ DecodesEncoding

LEMMA NewByte ==
  ASSUME NEW b \in Candidates
  PROVE  b \in 0 .. 255
  <1> DEFINE n == Prefixes(bytes, mode)
             Opcodes == (0 .. 255) \ (IF mode = 64 THEN 64 .. 79 ELSE {})
             atOpcode == Len(bytes) = n
             atSecond == Len(bytes) = n + 1 /\ bytes[n + 1] < 184
                           /\ (Undecided \/ bytes[n + 1] = 15)
  <1>1. Candidates = CASE atOpcode -> Opcodes [] atSecond -> Seconds [] OTHER -> Tails
    BY Zenon DEF Candidates
  <1>2. Opcodes \subseteq 0 .. 255 /\ Seconds \subseteq 0 .. 255 /\ Tails \subseteq 0 .. 255
    BY DecodeClientAssumption
  <1> HIDE DEF Opcodes, atOpcode, atSecond
  <1>3. Candidates \in {Opcodes, Seconds, Tails}
    BY <1>1, Zenon
  <1> QED BY <1>2, <1>3, Zenon

(* One more byte leaves what was seen of a buffer where it was.            *)
LEMMA AppendSees ==
  ASSUME NEW x \in Buffers, NEW b \in 0 .. 255
  PROVE  /\ Append(x, b) \in Buffers /\ Len(x) \in Nat /\ Len(Append(x, b)) = Len(x) + 1
         /\ Append(x, b) # <<>>
         /\ \A e \in 0 .. Len(x) : Sees(x, Append(x, b), e) /\ Sees(Append(x, b), x, e)
  <1>1. Len(x) \in Nat /\ Append(x, b) \in Buffers /\ Len(Append(x, b)) = Len(x) + 1
    BY DEF Buffers
  <1>2. \A i \in 1 .. Len(x) : Append(x, b)[i] = x[i]
    BY <1>1 DEF Buffers
  <1>3. ASSUME NEW e \in 0 .. Len(x)
        PROVE  Sees(x, Append(x, b), e) /\ Sees(Append(x, b), x, e)
    BY <1>1, <1>2 DEF Sees
  <1>4. Append(x, b) # <<>>
    BY <1>1
  <1> QED BY <1>1, <1>3, <1>4

(* Prefixes alone are no instruction.                                      *)
LEMMA PrefixesUndecided ==
  ASSUME NEW x \in Seq(64 .. 79)
  PROVE  x \in Buffers /\ ~Decided(xair_x86_decode_mode(x, 64))
  <1>1. Len(x) \in Nat /\ x \in Buffers /\ \A i \in 1 .. Len(x) : x[i] \in 64 .. 79
    <2>1. Len(x) \in Nat /\ x \in [1 .. Len(x) -> 64 .. 79]
      BY LenProperties, Zenon
    <2>2. x \in [1 .. Len(x) -> 0 .. 255]
      BY <2>1
    <2> QED BY <2>1, <2>2, SeqDef DEF Buffers
  <1>2. PICK n : n = Prefixes(x, 64)
    OBVIOUS
  <1>3. n \in 0 .. Len(x) /\ (n < Len(x) => x[n + 1] \notin 64 .. 79)
    BY <1>1, <1>2, PrefixesCounted DEF PrefixCount
  <1>4. n = Len(x)
    BY <1>1, <1>3
  <1>5. xair_x86_decode_mode(x, 64) \in {Failed("BAD_ARG"), Failed("RANGE")}
    BY <1>2, <1>4, Zenon DEF xair_x86_decode_mode
  <1> QED BY <1>1, <1>5, Ends

LEMMA InitDecode == Init => DecodeInv
  <1> SUFFICES ASSUME Init PROVE DecodeInv
    OBVIOUS
  <1>1. mode \in {32, 64} /\ extra = 0 /\ answer = xair_x86_decode_mode(bytes, mode)
    BY DEF Init
  <1>2. bytes \in Buffers /\ ~Decided(answer)
    <2>1. CASE mode = 32
      <3>1. bytes = <<>>
        BY <2>1 DEF Init
      <3>2. answer = Failed("BAD_ARG")
        BY <1>1, <3>1 DEF xair_x86_decode_mode
      <3> QED BY <3>1, <3>2, Ends DEF Buffers
    <2>2. CASE mode = 64
      <3>1. bytes \in Seq(64 .. 79)
        BY <2>2, DecodeClientAssumption DEF Init
      <3> QED BY <1>1, <2>2, <3>1, PrefixesUndecided
    <2> QED BY <1>1, <2>1, <2>2
  <1>3. EndsAt(answer, Len(bytes) - extra) /\ DecodesEncoding
    BY <1>2 DEF EndsAt, Decided, DecodesEncoding
  <1> QED BY <1>1, <1>2, <1>3 DEF DecodeInv

(* What a byte more brings.                                                *)
LEMMA ExtendDecode ==
  ASSUME DecodeInv, Extend
  PROVE  DecodeInv' /\ (~Undecided => answer' = answer)
  <1>1. /\ mode \in {32, 64} /\ mode' = mode /\ bytes \in Buffers /\ extra \in {0, 1}
        /\ answer = xair_x86_decode_mode(bytes, mode)
        /\ answer' = xair_x86_decode_mode(bytes', mode)
        /\ EndsAt(answer, Len(bytes) - extra)
        /\ Encodes(answer, bytes, PrefixOf(bytes, mode), Prefixes(bytes, mode) + 1,
                   Len(bytes) - extra)
        /\ Undecided \/ extra = 0
        /\ extra' = IF Undecided THEN 0 ELSE 1
        /\ Undecided <=> ~Decided(answer)
        /\ extra = 1 => Decided(answer)
    BY Described DEF DecodeInv, Extend, Undecided, Decided
  <1>2. PICK b \in 0 .. 255 : bytes' = Append(bytes, b)
    BY NewByte DEF Extend
  <1>3. /\ bytes' \in Buffers /\ Len(bytes) \in Nat /\ Len(bytes') = Len(bytes) + 1
        /\ bytes' # <<>>
        /\ \A e \in 0 .. Len(bytes) : Sees(bytes, bytes', e) /\ Sees(bytes', bytes, e)
    BY <1>1, <1>2, AppendSees
  <1>4. extra = 0
    BY <1>1
  <1>5. CASE Decided(answer)
    <2>1. /\ Prefixes(bytes, mode) \in Nat /\ Prefixes(bytes, mode) < Len(bytes)
          /\ \E e \in (Prefixes(bytes, mode) + 1) .. Len(bytes) :
               \A y : Sees(bytes, y, e) => xair_x86_decode_mode(y, mode) = answer
      BY <1>1, <1>5, DecodeSeen
    <2>2. answer' = answer
      <3>1. (Prefixes(bytes, mode) + 1) .. Len(bytes) \subseteq 0 .. Len(bytes)
        BY <1>3, <2>1
      <3> QED BY <1>1, <1>3, <2>1, <3>1
    <2>3. extra' = 1 /\ Len(bytes') - extra' = Len(bytes) - extra
      BY <1>1, <1>3, <1>4, <1>5
    <2>4. EndsAt(answer', Len(bytes') - extra')
      BY <1>1, <2>2, <2>3
    <2>5. EndsAt(answer, Len(bytes) - extra)'
      BY <2>4 DEF EndsAt
    <2>6. DecodesEncoding'
      <3>1. PICK e : e = Len(bytes)
        OBVIOUS
      <3>2. e \in (Prefixes(bytes, mode) + 1) .. Len(bytes) /\ Sees(bytes, bytes', e)
            /\ Len(bytes) - extra = e /\ Len(bytes') - extra' = e
        BY <1>3, <1>4, <2>1, <2>3, <3>1
      <3>3. /\ Prefixes(bytes', mode) = Prefixes(bytes, mode)
            /\ PrefixOf(bytes', mode) = PrefixOf(bytes, mode)
            /\ SubSeq(bytes', Prefixes(bytes, mode) + 1, e) = SubSeq(bytes, Prefixes(bytes, mode) + 1, e)
        BY <1>1, <2>1, <3>2, SamePart
      <3>4. Encodes(answer', bytes', PrefixOf(bytes', mode), Prefixes(bytes', mode) + 1,
                    Len(bytes') - extra')
        BY <1>1, <2>2, <3>2, <3>3, Zenon DEF Encodes
      <3> QED BY <1>1, <3>4, Described
    <2> QED BY <1>1, <1>3, <1>5, <2>2, <2>3, <2>5, <2>6 DEF DecodeInv, Decided
  <1>6. CASE ~Decided(answer)
    <2>1. extra' = 0 /\ Len(bytes') - extra' = Len(bytes')
      BY <1>1, <1>3, <1>6
    <2>2. Found(answer', bytes', PrefixOf(bytes', mode), Prefixes(bytes', mode) + 1, Len(bytes'))
      <3>1. CASE ~Decided(answer')
        BY <3>1 DEF Decided, Found, EndsAt, Encodes
      <3>2. CASE Decided(answer')
        <4>1. PICK n : n = Prefixes(bytes', mode)
          OBVIOUS
        <4>2. PICK rex : rex = PrefixOf(bytes', mode)
          OBVIOUS
        <4>3. /\ n \in Nat /\ n < Len(bytes')
              /\ \E e \in (n + 1) .. Len(bytes') :
                   /\ Found(answer', bytes', rex, n + 1, e)
                   /\ \A y : Sees(bytes', y, e) => xair_x86_decode_mode(y, mode) = answer'
          BY <1>1, <1>3, <3>2, <4>1, <4>2, DecodeSeen
        <4>4. PICK e \in (n + 1) .. Len(bytes') :
                /\ Found(answer', bytes', rex, n + 1, e)
                /\ \A y : Sees(bytes', y, e) => xair_x86_decode_mode(y, mode) = answer'
          BY <4>3
        <4>5. e \in 0 .. Len(bytes')
          BY <1>3, <4>3
        <4>6. ~(e <= Len(bytes))
          BY <1>1, <1>3, <1>6, <3>2, <4>4, <4>5
        <4>7. e = Len(bytes')
          BY <1>3, <4>5, <4>6
        <4> QED BY <4>1, <4>2, <4>4, <4>7
      <3> QED BY <3>1, <3>2
    <2>3. EndsAt(answer, Len(bytes) - extra)'
      BY <2>1, <2>2 DEF Found, EndsAt
    <2>4. DecodesEncoding'
      BY <1>1, <2>1, <2>2, Described DEF Found
    <2> QED BY <1>1, <1>3, <1>6, <2>1, <2>3, <2>4 DEF DecodeInv
  <1> QED BY <1>5, <1>6

(* The client's inductive invariant holds of every buffer.                 *)
THEOREM DecodeInvAlways == Spec => []DecodeInv
  <1>1. DecodeInv /\ [Next]_vars => DecodeInv'
    <2>1. ASSUME DecodeInv, UNCHANGED vars
          PROVE  DecodeInv'
      <3>1. mode' = mode /\ bytes' = bytes /\ answer' = answer /\ extra' = extra
        BY <2>1 DEF vars
      <3>2. DecodesEncoding'
        BY <2>1, <3>1, Described DEF DecodeInv
      <3> QED BY <2>1, <3>1, <3>2 DEF DecodeInv, EndsAt, Decided
    <2> QED BY <2>1, ExtendDecode DEF Next
  <1> QED BY <1>1, InitDecode, PTL DEF Spec

(* An instruction is found with its last byte and its length is the number *)
(* of bytes up to there, kept in 8 bits (LengthLimit), whatever the image  *)
(* and wherever it is cut off.                                             *)
THEOREM LengthExactAlways == Spec => []LengthExact
  <1>1. DecodeInv => LengthExact
    <2> SUFFICES ASSUME DecodeInv, answer.status = "OK"
                 PROVE  /\ answer.inst.length \in 0 .. (Len(bytes) - extra)
                        /\ answer.inst.length = Len(bytes) - extra
                             <=> Len(bytes) - extra < LengthLimit
      BY DEF LengthExact
    <2>1. PICK n : n = Len(bytes) - extra
      OBVIOUS
    <2>2. n \in Nat
      <3>1. Len(bytes) \in Nat /\ (bytes # <<>> => Len(bytes) > 0)
        BY DEF DecodeInv, Buffers
      <3> QED BY <2>1, <3>1 DEF DecodeInv
    <2>3. answer.inst.length = n % LengthLimit
      BY <2>1 DEF DecodeInv, EndsAt
    <2>4. PICK L \in Nat \ {0} : L = LengthLimit
      BY DecodeAssumption
    <2>5. PICK q \in Nat, r \in 0 .. (L - 1) : r = n % L /\ n = q * L + r
      BY <2>2, DivMod
    <2>6. q = 0 \/ q * L >= L
      BY <2>5
    <2>7. r \in 0 .. n /\ (r = n <=> n < L)
      BY <2>2, <2>5, <2>6
    <2> QED BY <2>1, <2>3, <2>4, <2>5, <2>7
  <1> QED BY <1>1, DecodeInvAlways, PTL

(* An instruction that is decoded is the one the bytes encode: operation,  *)
(* registers, addressing form and sign-extended immediate, in both modes   *)
(* and behind any number of prefixes; except that the exchange with r8     *)
(* (REX.B and 144) is decoded as a nop and that more than 15 bytes, which  *)
(* processors refuse, are decoded as the instruction they end with.        *)
THEOREM DecodesEncodingAlways == Spec => []DecodesEncoding
  <1>1. DecodeInv => DecodesEncoding
    BY DEF DecodeInv
  <1> QED BY <1>1, DecodeInvAlways, PTL

(* Once the decoder has answered, be it that it does not support what it   *)
(* saw, bytes behind change nothing: it answers from what it has read.     *)
THEOREM AnswerStableAlways == Spec => AnswerStable
  <1>1. DecodeInv /\ [Next]_vars => [~Undecided => answer' = answer]_vars
    BY ExtendDecode DEF Next
  <1> QED BY <1>1, DecodeInvAlways, PTL DEF AnswerStable, Spec
=============================================================================
