--------------------------- MODULE XairX86Decode ---------------------------
(***************************************************************************)
(* The decoder of src/src/xair_x86_decode.c: what it answers for a buffer  *)
(* of bytes.  An immediate or a displacement, 64 bits in the code, is the  *)
(* sequence of its 8 bytes, the lowest first.  Sizes of operands, which    *)
(* nobody reads, and raw opcodes are left out.                             *)
(***************************************************************************)
EXTENDS Integers, Sequences

CONSTANT LengthLimit    \* the length of an instruction is kept modulo this

ASSUME DecodeAssumption == LengthLimit \in Nat \ {0}

None == 99              \* has_base or has_index is 0

(* Answers.                                                                *)
NoInst == [mnemonic |-> "INVALID", operands |-> <<>>, length |-> 0]
Failed(status) == [status |-> status, inst |-> NoInst]
decode_unsupported == Failed("UNSUPPORTED")

Decoded(mnemonic, operands, offset) ==
  [status |-> "OK", inst |-> [mnemonic |-> mnemonic, operands |-> operands,
                              length |-> offset % LengthLimit]]

(* Reading n bytes at an offset.                                           *)

Fits(bytes, offset, n) == offset + n <= Len(bytes)
Read(bytes, offset, n) == SubSeq(bytes, offset + 1, offset + n)

ZeroExtend(low) == low \o [i \in 1 .. (8 - Len(low)) |-> 0]

(* Mutant: the sign is lost.                                               *)
SignLost(low) == ZeroExtend(low)

decode_sign_extend(low) ==
  low \o [i \in 1 .. (8 - Len(low)) |-> IF low[Len(low)] >= 128 THEN 255 ELSE 0]

RexW(rex) == (rex \div 8) % 2
RexR(rex) == (rex \div 4) % 2
RexX(rex) == (rex \div 2) % 2
RexB(rex) == rex % 2

decode_reg(field, rex_bit, mode) == IF mode = 64 /\ rex_bit # 0 THEN field + 8 ELSE field
decode_modrm(byte) == [mod |-> byte \div 64, reg |-> (byte \div 8) % 8, rm |-> byte % 8]

decode_set_reg(reg) == [kind |-> "REG", reg |-> reg]
decode_set_imm(value) == [kind |-> "IMM", imm |-> value]
decode_set_rip_mem(disp) ==
  [kind |-> "MEM", mem |-> [kind |-> "RIP_REL", base |-> None, index |-> None, scale |-> 1,
                            disp |-> disp]]
decode_set_base_index_mem(base, index, scale, disp) ==
  [kind |-> "MEM", mem |-> [kind |-> "BASE_INDEX", base |-> base, index |-> index,
                            scale |-> scale, disp |-> disp]]

-----------------------------------------------------------------------------
(* Operands: [status, offset, operand], the offset behind them.            *)

Operand(offset, operand) == [status |-> "OK", offset |-> offset, operand |-> operand]
NoOperand == [status |-> "RANGE", offset |-> 0, operand |-> <<>>]

DispSize(mod) == CASE mod = 1 -> 1 [] mod = 2 -> 4 [] OTHER -> 0

decode_displacement(bytes, size, offset) ==
  IF size = 0 THEN ZeroExtend(<<>>) ELSE decode_sign_extend(Read(bytes, offset, size))

decode_memory_operand(bytes, mod, rm, rex, mode, offset) ==
  LET sib == decode_modrm(bytes[offset + 1])      \* scale, index and base
      behind == IF rm = 4 THEN offset + 1 ELSE offset
      no_base == mod = 0 /\ (IF rm = 4 THEN sib.rm ELSE rm) = 5
      size == IF no_base THEN 4 ELSE DispSize(mod)
      disp == decode_displacement(bytes, size, behind)
      base == IF no_base THEN None
              ELSE decode_reg(IF rm = 4 THEN sib.rm ELSE rm, RexB(rex), mode)
      index == IF rm # 4 \/ (sib.reg = 4 /\ RexX(rex) = 0) THEN None
               ELSE decode_reg(sib.reg, RexX(rex), mode)
  IN  IF (rm = 4 /\ ~Fits(bytes, offset, 1)) \/ ~Fits(bytes, behind, size) THEN NoOperand
      ELSE Operand(behind + size,
             IF rm = 5 /\ no_base /\ mode = 64 THEN decode_set_rip_mem(disp)
             ELSE decode_set_base_index_mem(base, index, IF rm = 4 THEN 2^sib.mod ELSE 1, disp))

decode_rm_operand(bytes, mod, rm, rex, mode, offset) ==
  IF mod = 3 THEN Operand(offset, decode_set_reg(decode_reg(rm, RexB(rex), mode)))
  ELSE decode_memory_operand(bytes, mod, rm, rex, mode, offset)

-----------------------------------------------------------------------------
(* Instructions with a ModRM byte.  64-bit code needs REX.W.               *)

Narrow(rex, mode) == mode = 64 /\ RexW(rex) = 0

decode_modrm_move_or_lea(bytes, opcode, rex, mode, offset) ==
  LET f == decode_modrm(bytes[offset + 1])
      rm == decode_rm_operand(bytes, f.mod, f.rm, rex, mode, offset + 1)
      reg == decode_set_reg(decode_reg(f.reg, RexR(rex), mode))
  IN  IF Narrow(rex, mode) THEN decode_unsupported
      ELSE IF ~Fits(bytes, offset, 1) THEN Failed("RANGE")
      ELSE IF opcode = 141 /\ f.mod = 3 THEN decode_unsupported
      ELSE IF rm.status # "OK" THEN Failed("RANGE")
      ELSE CASE opcode = 141 -> Decoded("LEA", <<reg, rm.operand>>, rm.offset)
             [] opcode = 139 -> Decoded("MOV", <<reg, rm.operand>>, rm.offset)
             [] OTHER -> Decoded("MOV", <<rm.operand, reg>>, rm.offset)

decode_binary_mnemonic(opcode) ==
  CASE opcode \in {1, 3} -> "ADD"
    [] opcode \in {9, 11} -> "OR"
    [] opcode \in {33, 35} -> "AND"
    [] opcode \in {41, 43} -> "SUB"
    [] opcode \in {49, 51} -> "XOR"
    [] opcode \in {57, 59} -> "CMP"
    [] opcode = 133 -> "TEST"

decode_reg_dest_opcode(opcode) == opcode \in {3, 11, 35, 43, 51, 59}

decode_modrm_binary(bytes, opcode, rex, mode, offset) ==
  LET f == decode_modrm(bytes[offset + 1])
      rm == decode_rm_operand(bytes, f.mod, f.rm, rex, mode, offset + 1)
      reg == decode_set_reg(decode_reg(f.reg, RexR(rex), mode))
  IN  IF Narrow(rex, mode) THEN decode_unsupported
      ELSE IF ~Fits(bytes, offset, 1) \/ rm.status # "OK" THEN Failed("RANGE")
      ELSE IF rm.operand.kind # "REG" THEN decode_unsupported
      ELSE Decoded(decode_binary_mnemonic(opcode),
                   IF decode_reg_dest_opcode(opcode) THEN <<reg, rm.operand>>
                   ELSE <<rm.operand, reg>>,
                   rm.offset)

decode_group1_mnemonic ==
  [reg \in {0, 1, 4, 5, 6, 7} |->
     CASE reg = 0 -> "ADD" [] reg = 1 -> "OR" [] reg = 4 -> "AND"
       [] reg = 5 -> "SUB" [] reg = 6 -> "XOR" [] reg = 7 -> "CMP"]

decode_group1_imm(bytes, opcode, rex, mode, offset) ==
  LET f == decode_modrm(bytes[offset + 1])
      rm == decode_rm_operand(bytes, f.mod, f.rm, rex, mode, offset + 1)
      size == IF opcode = 131 THEN 1 ELSE 4
      imm == decode_set_imm(decode_sign_extend(Read(bytes, rm.offset, size)))
  IN  IF Narrow(rex, mode) THEN decode_unsupported
      ELSE IF ~Fits(bytes, offset, 1) \/ rm.status # "OK" THEN Failed("RANGE")
      ELSE IF rm.operand.kind # "REG" THEN decode_unsupported
      ELSE IF ~Fits(bytes, rm.offset, size) THEN Failed("RANGE")
      ELSE IF f.reg \notin DOMAIN decode_group1_mnemonic THEN decode_unsupported
      ELSE Decoded(decode_group1_mnemonic[f.reg], <<rm.operand, imm>>, rm.offset + size)

-----------------------------------------------------------------------------
(* The opcode.                                                             *)

(* Bytes 64 .. 79 in front are prefixes, the last of which counts.         *)
Prefixes(bytes, mode) ==
  IF mode # 64 THEN 0
  ELSE CHOOSE n \in 0 .. Len(bytes) :
         /\ \A i \in 1 .. n : bytes[i] \in 64 .. 79
         /\ n < Len(bytes) => bytes[n + 1] \notin 64 .. 79

DecodeMovImm(bytes, opcode, rex, mode, offset) ==
  LET size == mode \div 8
      reg == decode_reg(opcode - 184, RexB(rex), mode)
  IN  IF Narrow(rex, mode) THEN decode_unsupported
      ELSE IF ~Fits(bytes, offset, size) THEN Failed("RANGE")
      ELSE Decoded("MOV", <<decode_set_reg(reg), decode_set_imm(ZeroExtend(Read(bytes, offset, size)))>>,
                   offset + size)

(* Mutant: the length counts one byte of the displacement.                 *)
ShortRelative(mnemonic, bytes, offset, size) ==
  IF ~Fits(bytes, offset, size) THEN Failed("RANGE")
  ELSE Decoded(mnemonic, <<decode_set_imm(decode_sign_extend(Read(bytes, offset, size)))>>,
               offset + 1)

DecodeRelative(mnemonic, bytes, offset, size) ==
  IF ~Fits(bytes, offset, size) THEN Failed("RANGE")
  ELSE Decoded(mnemonic, <<decode_set_imm(decode_sign_extend(Read(bytes, offset, size)))>>,
               offset + size)

(* Mutant: an image that ends behind 15 holds an unsupported instruction.  *)
EscapeUnsupported(bytes, offset) ==
  IF ~Fits(bytes, offset, 1) THEN decode_unsupported
  ELSE CASE bytes[offset + 1] = 132 -> DecodeRelative("JZ", bytes, offset + 1, 4)
         [] bytes[offset + 1] = 133 -> DecodeRelative("JNZ", bytes, offset + 1, 4)
         [] OTHER -> decode_unsupported

DecodeTwoByte(bytes, offset) ==
  IF ~Fits(bytes, offset, 1) THEN Failed("RANGE")
  ELSE CASE bytes[offset + 1] = 132 -> DecodeRelative("JZ", bytes, offset + 1, 4)
         [] bytes[offset + 1] = 133 -> DecodeRelative("JNZ", bytes, offset + 1, 4)
         [] OTHER -> decode_unsupported

DecodeStack(opcode, rex, mode, offset) ==
  Decoded(IF opcode < 88 THEN "PUSH" ELSE "POP",
          <<decode_set_reg(decode_reg(opcode % 8, RexB(rex), mode))>>, offset)

DecodeOpcode(bytes, opcode, rex, mode, offset) ==
  CASE opcode \in 184 .. 191 -> DecodeMovImm(bytes, opcode, rex, mode, offset)
    [] opcode \in 80 .. 95 -> DecodeStack(opcode, rex, mode, offset)
    [] opcode = 144 -> Decoded("NOP", <<>>, offset)
    [] opcode \in {139, 137, 141} -> decode_modrm_move_or_lea(bytes, opcode, rex, mode, offset)
    [] opcode \in {1, 3, 9, 11, 33, 35, 41, 43, 49, 51, 57, 59, 133} ->
         decode_modrm_binary(bytes, opcode, rex, mode, offset)
    [] opcode \in {129, 131} -> decode_group1_imm(bytes, opcode, rex, mode, offset)
    [] opcode = 235 -> DecodeRelative("JMP", bytes, offset, 1)
    [] opcode = 233 -> DecodeRelative("JMP", bytes, offset, 4)
    [] opcode = 116 -> DecodeRelative("JZ", bytes, offset, 1)
    [] opcode = 117 -> DecodeRelative("JNZ", bytes, offset, 1)
    [] opcode = 15 -> DecodeTwoByte(bytes, offset)
    [] opcode = 195 -> Decoded("RET", <<>>, offset)
    [] OTHER -> decode_unsupported

xair_x86_decode_mode(bytes, mode) ==
  LET n == Prefixes(bytes, mode)
      rex == IF n = 0 THEN 0 ELSE bytes[n]
  IN  IF bytes = <<>> THEN Failed("BAD_ARG")
      ELSE IF n = Len(bytes) THEN Failed("RANGE")
      ELSE DecodeOpcode(bytes, bytes[n + 1], rex, mode, n + 1)
=============================================================================
