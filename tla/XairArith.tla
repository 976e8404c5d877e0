----------------------------- MODULE XairArith -----------------------------
(***************************************************************************)
(* The arithmetic of src/src/xair.c, written twice as the code writes it:  *)
(* once for the constant folder of the canonicalization pass and once for  *)
(* the concrete executor.                                                  *)
(*                                                                         *)
(* uint64_t is scaled to WordBits bits: arithmetic is modulo 2^WordBits    *)
(* and types at least that wide fill the word, as 64-bit types do in the   *)
(* code.  A result is a set: {x} when the code computes x, {} when the     *)
(* folder declines or the executor reports XAIR_ERR_UNSUPPORTED.           *)
(***************************************************************************)
EXTENDS XairTypes, Integers, FiniteSetsExt

CONSTANT WordBits   \* the width of uint64_t

ASSUME WordAssumption == WordBits \in Nat /\ WordBits >= 8

Word == 2^WordBits

Used(bits) == IF bits >= WordBits THEN WordBits ELSE bits
Low(x, bits) == x % 2^Used(bits)                      \* x & mask_for_bits(bits)
Bit(x, i) == (x \div 2^i) % 2
SignSet(x, bits) == Bit(x, Used(bits) - 1) = 1        \* (x & sign_bit_for_bits(bits)) != 0

BitAnd(a, b) == MapThenSumSet(LAMBDA i : 2^i * (Bit(a, i) * Bit(b, i)), 0 .. WordBits - 1)
BitOr(a, b) == a + b - BitAnd(a, b)
BitXor(a, b) == a + b - 2 * BitAnd(a, b)

bool_u64(p) == IF p THEN 1 ELSE 0

truncate_to_type(x, t) == IF is_int(t) \/ is_addr(t) THEN Low(x, t.bits) ELSE x

(* Mutant: signs are ignored.                                              *)
UnsignedLess(lhs, rhs, bits) == Low(lhs, bits) < Low(rhs, bits)

signed_less_u64(lhs, rhs, bits) ==
  IF SignSet(lhs, bits) # SignSet(rhs, bits) THEN SignSet(lhs, bits)
  ELSE Low(lhs, bits) < Low(rhs, bits)

(* The low byte folded to a nibble, looked up in the table 0x6996.         *)
even_parity8(x) ==
  LET byte == x % 256
      nibble == BitXor(byte, byte \div 16) % 16
  IN  Bit(27030, nibble) = 0

ShiftLeft(x, n) == IF n >= WordBits THEN 0 ELSE (x % 2^(WordBits - n)) * 2^n
ShiftRight(x, n) == x \div 2^n
SignFill(bits, n) == ShiftLeft(2^Used(bits) - 1, Used(bits) - n)  \* mask << (bits - n)

-----------------------------------------------------------------------------
(* compute_flag_extract: one flag of a summary with constant operands.     *)

compute_flag_extract(extract, summary, bits, x, y) ==
  LET lhs == Low(x, bits)
      rhs == IF summary = "FLAGS_LOGIC" THEN 0 ELSE Low(y, bits)
      result == CASE summary = "FLAGS_ADD" -> Low(lhs + rhs, bits)
                  [] summary = "FLAGS_SUB" -> Low(lhs - rhs, bits)
                  [] summary = "FLAGS_SHL" -> Low(ShiftLeft(lhs, rhs), bits)
                  [] OTHER -> lhs
      lhs_sign == SignSet(lhs, bits)
      rhs_sign == SignSet(rhs, bits)
      result_sign == SignSet(result, bits)
      shifted_out == Bit(ShiftRight(lhs, bits - rhs), 0)
      carry == CASE summary = "FLAGS_LOGIC" -> 0
                 [] summary = "FLAGS_SHL" -> shifted_out
                 [] summary = "FLAGS_ADD" -> bool_u64(result < lhs)
                 [] OTHER -> bool_u64(lhs < rhs)
      overflow == CASE summary = "FLAGS_LOGIC" -> {0}
                    [] summary = "FLAGS_SHL" ->
                         IF rhs # 1 THEN {} ELSE {bool_u64(result_sign # (shifted_out # 0))}
                    [] summary = "FLAGS_ADD" ->
                         {bool_u64(lhs_sign = rhs_sign /\ result_sign # lhs_sign)}
                    [] OTHER -> {bool_u64(lhs_sign # rhs_sign /\ result_sign # lhs_sign)}
      adjust == IF summary \in {"FLAGS_LOGIC", "FLAGS_SHL"} THEN 0
                ELSE Bit(BitXor(BitXor(lhs, rhs), result), 4)
  IN  IF bits > 64 \/ (summary = "FLAGS_SHL" /\ (rhs = 0 \/ rhs >= bits)) THEN {}
      ELSE CASE extract = "FLAG_ZF" -> {bool_u64(result = 0)}
             [] extract = "FLAG_CF" -> {carry}
             [] extract = "FLAG_OF" -> overflow
             [] extract = "FLAG_SF" -> {bool_u64(result_sign)}
             [] extract = "FLAG_PF" -> {bool_u64(even_parity8(result))}
             [] extract = "FLAG_AF" -> {adjust}

(* The folder's switch on two constant operands of types lt and rt.        *)
FoldBinary(opcode, out, lt, rt, lhs, rhs) ==
  LET folds ==
        CASE opcode \in ArithOps \cup ShiftOps \cup {"CONCAT"} -> is_int(out) /\ out.bits <= 64
          [] opcode \in UnsignedCompares \cup SignedCompares -> lt.bits <= 64
          [] opcode \in AddrOps -> is_addr(out) /\ out.bits <= 64
          [] OTHER -> FALSE
      l == Low(lhs, out.bits)
      cl == Low(lhs, lt.bits)
      cr == Low(rhs, lt.bits)
      value ==
        CASE opcode = "ADD" -> lhs + rhs
          [] opcode = "SUB" -> lhs - rhs
          [] opcode = "MUL" -> lhs * rhs
          [] opcode = "AND" -> BitAnd(lhs, rhs)
          [] opcode = "OR" -> BitOr(lhs, rhs)
          [] opcode = "XOR" -> BitXor(lhs, rhs)
          [] opcode = "SHL" -> ShiftLeft(l, rhs)
          [] opcode = "LSHR" -> ShiftRight(l, rhs)
          [] opcode = "ASHR" ->
               IF rhs # 0 /\ SignSet(l, out.bits)
               THEN BitOr(ShiftRight(l, rhs), SignFill(out.bits, rhs))
               ELSE ShiftRight(l, rhs)
          [] opcode = "EQ" -> bool_u64(cl = cr)
          [] opcode = "NE" -> bool_u64(cl # cr)
          [] opcode = "ULT" -> bool_u64(cl < cr)
          [] opcode = "ULE" -> bool_u64(cl <= cr)
          [] opcode = "SLT" -> bool_u64(signed_less_u64(cl, cr, lt.bits))
          [] opcode = "SLE" -> bool_u64(signed_less_u64(cl, cr, lt.bits) \/ cl = cr)
          [] opcode = "CONCAT" -> BitOr(ShiftLeft(lhs, rt.bits), rhs)
          [] opcode = "ADDR_ADD" -> lhs + rhs
          [] opcode = "ADDR_SUB" -> lhs - rhs
  IN  IF ~folds \/ (opcode \in ShiftOps /\ rhs >= out.bits) THEN {}
      ELSE {truncate_to_type(value % Word, out)}

(* lhs | ~mask_for_bits(bits) *)
SignExtend(x, bits) == IF SignSet(x, bits) THEN Low(x, bits) + (Word - 2^Used(bits)) ELSE x

(* Mutant: sign extension folds like zero extension.                       *)
FoldNoSign(opcode, out, st, x) ==
  IF opcode \in {"ZEXT", "TRUNC", "SEXT", "INT_TO_ADDR", "ADDR_TO_INT"} /\ out.bits <= 64
  THEN {truncate_to_type(x, out)} ELSE {}

(* Mutant: truncations are left alone.                                     *)
FoldNoTrunc(opcode, out, st, x) ==
  CASE opcode = "ZEXT" -> {truncate_to_type(x, out)}
    [] opcode = "SEXT" -> {truncate_to_type(SignExtend(x, st.bits), out)}
    [] OTHER -> {}

FoldUnary(opcode, out, st, x) ==
  CASE opcode \in {"ZEXT", "TRUNC"} ->
         IF is_int(out) /\ out.bits <= 64 THEN {truncate_to_type(x, out)} ELSE {}
    [] opcode = "SEXT" ->
         IF is_int(out) /\ out.bits <= 64 THEN {truncate_to_type(SignExtend(x, st.bits), out)}
         ELSE {}
    [] opcode \in {"INT_TO_ADDR", "ADDR_TO_INT"} ->
         IF (is_int(out) \/ is_addr(out)) /\ out.bits <= 64 THEN {truncate_to_type(x, out)}
         ELSE {}
    [] OTHER -> {}

-----------------------------------------------------------------------------
(* The executor's versions.  Flag summaries are packed into one word.      *)

FlagBit(extract) ==
  CASE extract = "FLAG_ZF" -> 0 [] extract = "FLAG_CF" -> 1 [] extract = "FLAG_OF" -> 2
    [] extract = "FLAG_SF" -> 3 [] extract = "FLAG_PF" -> 4 [] extract = "FLAG_AF" -> 5

Pack(zf, cf, of, sf, pf, af) ==
  bool_u64(zf) + 2 * bool_u64(cf) + 4 * bool_u64(of) + 8 * bool_u64(sf)
    + 16 * bool_u64(pf) + 32 * bool_u64(af)

exec_logic_flags(x, bits) ==
  LET result == Low(x, bits)
  IN  Pack(result = 0, FALSE, FALSE, SignSet(result, bits), even_parity8(result), FALSE)

exec_flags(opcode, x, y, bits) ==
  LET lhs == Low(x, bits)
      rhs == Low(y, bits)
      add == opcode = "FLAGS_ADD"
      result == Low(IF add THEN lhs + rhs ELSE lhs - rhs, bits)
      lhs_sign == SignSet(lhs, bits)
      rhs_sign == SignSet(rhs, bits)
      result_sign == SignSet(result, bits)
  IN  Pack(result = 0,
           IF add THEN result < lhs ELSE lhs < rhs,
           /\ IF add THEN lhs_sign = rhs_sign ELSE lhs_sign # rhs_sign
           /\ result_sign # lhs_sign,
           result_sign,
           even_parity8(result),
           Bit(BitXor(BitXor(lhs, rhs), result), 4) = 1)

exec_shift_left_flags(x, shift, bits) ==
  LET lhs == Low(x, bits)
      result == Low(ShiftLeft(lhs, shift), bits)
      cf == Bit(ShiftRight(lhs, bits - shift), 0) = 1
  IN  Pack(result = 0, cf, shift = 1 /\ SignSet(result, bits) # cf, SignSet(result, bits),
           even_parity8(result), FALSE)

exec_scalar_u64_type(t) == (is_int(t) \/ is_addr(t)) /\ t.bits <= 64

exec_binary_op(opcode, out, lt, rt, x, y) ==
  LET lhs == Low(x, lt.bits)
      rhs == Low(y, rt.bits)
      supported ==
        /\ exec_scalar_u64_type(lt) /\ rt.bits <= 64
        /\ opcode \in ShiftOps => rhs < lt.bits
        /\ opcode = "CONCAT" => is_int(out) /\ out.bits <= 64 /\ rt.bits < 64
        /\ opcode \in {"FLAGS_ADD", "FLAGS_SUB"} => is_int(lt)
        /\ opcode = "FLAGS_SHL" => is_int(lt) /\ is_int(rt) /\ rhs # 0 /\ rhs < lt.bits
        /\ opcode \in BinaryOps
      result ==
        CASE opcode = "ADD" -> (lhs + rhs) % Word
          [] opcode = "SUB" -> (lhs - rhs) % Word
          [] opcode = "MUL" -> (lhs * rhs) % Word
          [] opcode = "AND" -> BitAnd(lhs, rhs)
          [] opcode = "OR" -> BitOr(lhs, rhs)
          [] opcode = "XOR" -> BitXor(lhs, rhs)
          [] opcode = "SHL" -> ShiftLeft(lhs, rhs)
          [] opcode = "LSHR" -> ShiftRight(lhs, rhs)
          [] opcode = "ASHR" ->
               IF rhs # 0 /\ SignSet(lhs, lt.bits)
               THEN BitOr(ShiftRight(lhs, rhs), SignFill(lt.bits, rhs))
               ELSE ShiftRight(lhs, rhs)
          [] opcode = "EQ" -> bool_u64(lhs = rhs)
          [] opcode = "NE" -> bool_u64(lhs # rhs)
          [] opcode = "ULT" -> bool_u64(lhs < rhs)
          [] opcode = "ULE" -> bool_u64(lhs <= rhs)
          [] opcode = "SLT" -> bool_u64(signed_less_u64(lhs, rhs, lt.bits))
          [] opcode = "SLE" -> bool_u64(signed_less_u64(lhs, rhs, lt.bits) \/ lhs = rhs)
          [] opcode = "CONCAT" -> BitOr(ShiftLeft(lhs, rt.bits), rhs)
          [] opcode = "ADDR_ADD" -> (lhs + rhs) % Word
          [] opcode = "ADDR_SUB" -> (lhs - rhs) % Word
          [] opcode \in {"FLAGS_ADD", "FLAGS_SUB"} -> exec_flags(opcode, lhs, rhs, lt.bits)
          [] opcode = "FLAGS_SHL" -> exec_shift_left_flags(lhs, rhs, lt.bits)
  IN  IF supported THEN {truncate_to_type(result, out)} ELSE {}

exec_unary_op(opcode, out, st, x) ==
  CASE opcode \in {"ZEXT", "TRUNC", "INT_TO_ADDR", "ADDR_TO_INT"} ->
         IF exec_scalar_u64_type(out) /\ exec_scalar_u64_type(st) THEN {truncate_to_type(x, out)}
         ELSE {}
    [] opcode = "FLAGS_LOGIC" ->
         IF is_flags(out) /\ is_int(st) /\ st.bits <= 64 THEN {exec_logic_flags(x, st.bits)}
         ELSE {}
    [] opcode = "SEXT" ->
         IF exec_scalar_u64_type(out) /\ exec_scalar_u64_type(st)
         THEN {truncate_to_type(SignExtend(x, st.bits), out)} ELSE {}
    [] opcode \in FlagReads -> {truncate_to_type(Bit(x, FlagBit(opcode)), out)}
    [] OTHER -> {}
=============================================================================
