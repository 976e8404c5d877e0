---------------------------- MODULE XairMeaning ----------------------------
(***************************************************************************)
(* What the values of a module stand for when the parameters are given:    *)
(* a number, or for a memory token the bytes written so far.  This is the  *)
(* yardstick for the translators (the x86 lifter, the VEX adapter): the    *)
(* operations mean what the executor computes (XairArith).                 *)
(*                                                                         *)
(* As in XairArith a word has WordBits bits; an access of more bytes than  *)
(* a word has writes zeros into the others.                                *)
(***************************************************************************)
EXTENDS XairVerify, XairArith

Undefined == 0 - 1      \* for example a shift by the width or more
WordBytes == WordBits \div 8

(* Bytes nobody has written hold something that depends on the address.    *)
NoWrites == [x \in {} |-> 0]
Byte(f, addr) == IF addr \in DOMAIN f THEN f[addr] ELSE (7 * addr + 1) % 256

LoadBytes(f, addr, size) ==
  MapThenSumSet(LAMBDA i : Byte(f, (addr + i) % Word) * 256^i,
                {i \in 0 .. (size - 1) : i < WordBytes})

StoreBytes(f, addr, x, size) ==
  LET at == {(addr + i) % Word : i \in 0 .. (size - 1)}
      byte(k) == LET i == (k - addr) % Word
                 IN  IF i < WordBytes THEN (x \div 256^i) % 256 ELSE 0
  IN  [k \in DOMAIN f \cup at |-> IF k \in at THEN byte(k) ELSE f[k]]

Single(S) == IF S = {} THEN Undefined ELSE CHOOSE x \in S : TRUE

(* The meaning of every value; input(v) is that of a parameter no branch   *)
(* supplies, passed(v) the arguments branches supply for it.               *)
Meaning(mod, input(_), passed(_)) ==
  LET d[v \in 1 .. Len(mod.values)] ==
        LET value == mod.values[v]
            op == mod.ops[value.op]
            src(i) == d[op.src[i]]
            type(i) == TypeOf(mod, op.src[i])
            known == \A i \in 1 .. Len(op.src) :
                       is_mem(type(i)) \/ src(i) # Undefined
        IN  IF value.op = INVALID
            THEN IF passed(v) # {} THEN d[CHOOSE x \in passed(v) : TRUE]
                 ELSE IF is_mem(value.type) THEN NoWrites ELSE input(v)
            ELSE IF op.opcode = "CONST_U64" THEN truncate_to_type(op.imm, value.type)
            ELSE IF ~known THEN IF op.opcode = "STORE" THEN src(1) ELSE Undefined
            ELSE CASE op.opcode = "STORE" ->
                        StoreBytes(src(1), src(2), src(3), type(3).bits \div 8)
                   [] op.opcode = "LOAD" ->
                        LoadBytes(src(1), src(2), value.type.bits \div 8)
                   [] Len(op.src) = 1 ->
                        Single(exec_unary_op(op.opcode, value.type, type(1), src(1)))
                   [] OTHER ->
                        Single(exec_binary_op(op.opcode, value.type, type(1), type(2),
                                              src(1), src(2)))
  IN  d
=============================================================================
