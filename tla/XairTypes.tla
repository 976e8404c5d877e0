----------------------------- MODULE XairTypes -----------------------------
(***************************************************************************)
(* The value types and opcode classes of the XAIR intermediate             *)
(* representation (include/xair/xair.h and the type section of xair.c).    *)
(***************************************************************************)
EXTENDS Naturals, Sequences

Kinds == {"VOID", "INT", "ADDR", "FLAGS", "MEM", "LABEL8", "LABELSET"}

Types == [kind : Kinds, bits : Nat, aux : Nat]

xair_type_i(bits) == [kind |-> "INT", bits |-> bits, aux |-> 0]
xair_type_addr(bits) == [kind |-> "ADDR", bits |-> bits, aux |-> 0]
xair_type_flags(count) == [kind |-> "FLAGS", bits |-> count, aux |-> 0]
xair_type_mem(space, addr_bits) == [kind |-> "MEM", bits |-> addr_bits, aux |-> space]
xair_type_void == [kind |-> "VOID", bits |-> 0, aux |-> 0]

valid_int_bits(bits) == bits \in {1, 8, 16, 32, 64, 128}
valid_addr_bits(bits) == bits \in {32, 64}

xair_type_is_valid(t) ==
  \/ t.kind = "VOID"     /\ t.bits = 0 /\ t.aux = 0
  \/ t.kind = "INT"      /\ valid_int_bits(t.bits) /\ t.aux = 0
  \/ t.kind = "ADDR"     /\ valid_addr_bits(t.bits) /\ t.aux = 0
  \/ t.kind = "FLAGS"    /\ t.bits \in 1 .. 32 /\ t.aux = 0
  \/ t.kind = "MEM"      /\ valid_addr_bits(t.bits)
  \/ t.kind = "LABEL8"   /\ t.bits = 8 /\ t.aux = 0
  \/ t.kind = "LABELSET" /\ t.bits = 0 /\ t.aux = 0

is_int(t) == t.kind = "INT"
is_addr(t) == t.kind = "ADDR"
is_mem(t) == t.kind = "MEM"
is_flags(t) == t.kind = "FLAGS"
is_i1(t) == t.kind = "INT" /\ t.bits = 1
is_value_type(t) == xair_type_is_valid(t) /\ t.kind # "VOID"

-----------------------------------------------------------------------------
(* Opcode classes, as the switches of the verifier group them.             *)

ArithOps   == {"ADD", "SUB", "MUL", "AND", "OR", "XOR"}
ShiftOps   == {"SHL", "LSHR", "ASHR"}
UnsignedCompares == {"EQ", "NE", "ULT", "ULE"}
SignedCompares   == {"SLT", "SLE"}
AddrOps    == {"ADDR_ADD", "ADDR_SUB"}
FlagPairs  == {"FLAGS_ADD", "FLAGS_SUB", "FLAGS_SHL"}
FlagReads  == {"FLAG_ZF", "FLAG_CF", "FLAG_OF", "FLAG_SF", "FLAG_PF", "FLAG_AF"}
UnaryOps   == {"ZEXT", "SEXT", "TRUNC", "INT_TO_ADDR", "ADDR_TO_INT", "FLAGS_LOGIC"}
                \cup FlagReads
BinaryOps  == ArithOps \cup ShiftOps \cup UnsignedCompares \cup SignedCompares
                \cup {"CONCAT"} \cup AddrOps \cup FlagPairs
Opcodes    == {"CONST_U64", "LOAD", "STORE"} \cup UnaryOps \cup BinaryOps

op_is_commutative(opcode) ==
  opcode \in {"ADD", "MUL", "AND", "OR", "XOR", "EQ", "NE", "FLAGS_ADD"}
=============================================================================
