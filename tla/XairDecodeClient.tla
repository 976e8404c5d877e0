-------------------------- MODULE XairDecodeClient --------------------------
(***************************************************************************)
(* The decoder on a buffer that grows byte by byte, from any first bytes   *)
(* until it has answered and one byte further: every image, cut off at     *)
(* every place.                                                            *)
(***************************************************************************)
EXTENDS XairX86Decode, FiniteSets

CONSTANTS
  Prefixings,     \* what stands in front of the opcode in 64-bit code
  Seconds,        \* bytes behind an opcode
  Tails           \* bytes behind those

ASSUME DecodeClientAssumption ==
  /\ \A p \in Prefixings : p \in Seq(64 .. 79)
  /\ Seconds \subseteq 0 .. 255 /\ Tails \subseteq 0 .. 255

VARIABLES mode, bytes, answer, extra
vars == <<mode, bytes, answer, extra>>

Undecided == answer.status \in {"BAD_ARG", "RANGE"}

Init ==
  /\ mode \in {32, 64}
  /\ bytes \in IF mode = 64 THEN Prefixings ELSE {<<>>}
  /\ answer = xair_x86_decode_mode(bytes, mode)
  /\ extra = 0

(* Any opcode and any byte behind it; what does not look like a ModRM byte *)
(* and what follows comes from Tails.                                      *)
Candidates ==
  LET n == Prefixes(bytes, mode)
  IN  CASE Len(bytes) = n -> (0 .. 255) \ (IF mode = 64 THEN 64 .. 79 ELSE {})
        [] Len(bytes) = n + 1 /\ bytes[n + 1] < 184
          /\ (Undecided \/ bytes[n + 1] = 15) -> Seconds
        [] OTHER -> Tails

Extend ==
  /\ Undecided \/ extra = 0
  /\ \E b \in Candidates : bytes' = Append(bytes, b)
  /\ answer' = xair_x86_decode_mode(bytes', mode)
  /\ extra' = IF Undecided THEN 0 ELSE 1
  /\ UNCHANGED mode

Next == Extend

Spec == Init /\ [][Next]_vars

-----------------------------------------------------------------------------
(* How instructions are encoded, after the processor manuals: the values   *)
(* the REX bits may have and the bytes behind the prefixes.                *)

AnyBit == {0, 1}
Low(value, n) == SubSeq(value, 1, n)
Extends(value, n) ==      \* the sign of the low n bytes fills the others
  \A i \in (n + 1) .. 8 : value[i] = IF value[n] < 128 THEN 0 ELSE 255

When(p, S) == IF p THEN S ELSE {}

(* Displacements with their mod field.                                     *)
DispForms(disp) ==
  When(disp = ZeroExtend(<<>>), {[mod |-> 0, tail |-> <<>>]})
    \cup When(Extends(disp, 1), {[mod |-> 1, tail |-> Low(disp, 1)]})
    \cup When(Extends(disp, 4), {[mod |-> 2, tail |-> Low(disp, 4)]})

Form(mod, rm, x, b, tail) == [mod |-> mod, rm |-> rm, x |-> x, b |-> b, tail |-> tail]
Bits(reg) == {reg \div 8}

MemForms(mem) ==
  LET full == Low(mem.disp, 4)
      sib(base) == (CASE mem.scale = 1 -> 0 [] mem.scale = 2 -> 64 [] mem.scale = 4 -> 128
                      [] mem.scale = 8 -> 192)
                     + 8 * (IF mem.index = None THEN 4 ELSE mem.index % 8) + base
      x == IF mem.index = None THEN {0} ELSE Bits(mem.index)
      based == {d \in DispForms(mem.disp) : d.mod # 0 \/ mem.base % 8 # 5}
  IN  IF mem.kind = "RIP_REL" THEN {Form(0, 5, AnyBit, AnyBit, full)}
      ELSE IF mem.index = 4 THEN {}     \* the stack pointer is no index
      ELSE IF mem.base = None
      THEN {Form(0, 4, x, AnyBit, <<sib(5)>> \o full)}
             \cup When(mode = 32 /\ mem.index = None, {Form(0, 5, {0}, {0}, full)})
      ELSE {Form(d.mod, 4, x, Bits(mem.base), <<sib(mem.base % 8)>> \o d.tail) : d \in based}
             \cup When(mem.index = None /\ mem.base % 8 # 4,
                       {Form(d.mod, mem.base % 8, AnyBit, Bits(mem.base), d.tail) : d \in based})

RmForms(operand) ==
  IF operand.kind = "REG" THEN {Form(3, operand.reg % 8, AnyBit, Bits(operand.reg), <<>>)}
  ELSE MemForms(operand.mem)

Encoding(w, r, x, b, body) == [w |-> w, r |-> r, x |-> x, b |-> b, body |-> body]
WithRm(opcode, reg, r, operand, imm) ==
  {Encoding({mode \div 64}, r, f.x, f.b,
            <<opcode, 64 * f.mod + 8 * (reg % 8) + f.rm>> \o f.tail \o imm) : f \in RmForms(operand)}
Plain(body) == {Encoding(AnyBit, AnyBit, AnyBit, AnyBit, body)}

Number(mnemonic) ==
  CASE mnemonic = "ADD" -> 0 [] mnemonic = "OR" -> 1 [] mnemonic = "AND" -> 4
    [] mnemonic = "SUB" -> 5 [] mnemonic = "XOR" -> 6 [] mnemonic = "CMP" -> 7

Jump(inst, short, long) ==
  LET rel == inst.operands[1].imm
  IN  When(Extends(rel, 4), Plain(long \o Low(rel, 4)))
        \cup When(Extends(rel, 1), Plain(short \o Low(rel, 1)))

(* One operand in the reg field, the other in mod and rm.                  *)
RegRm(opcode, reg, rm) == WithRm(opcode, reg.reg, Bits(reg.reg), rm, <<>>)

RegForms(inst, to_rm, to_reg) ==
  LET p == inst.operands[1]
      q == inst.operands[2]
  IN  When(q.kind = "REG", RegRm(to_rm, q, p)) \cup When(p.kind = "REG", RegRm(to_reg, p, q))

(* An operand and a sign-extended immediate; number is in the reg field.   *)
ImmForms(number, rm, imm) ==
  When(Extends(imm, 1), WithRm(131, number, AnyBit, rm, Low(imm, 1)))
    \cup When(Extends(imm, 4), WithRm(129, number, AnyBit, rm, Low(imm, 4)))

ArithmeticForms(inst, number) ==
  IF inst.operands[2].kind = "IMM" THEN ImmForms(number, inst.operands[1], inst.operands[2].imm)
  ELSE RegForms(inst, 8 * number + 1, 8 * number + 3)

(* The register is in the opcode.                                          *)
InOpcode(w, opcode, reg, tail) ==
  {Encoding(w, AnyBit, AnyBit, Bits(reg.reg), <<opcode + (reg.reg % 8)>> \o tail)}

(* An immediate is as wide as the mode.                                    *)
MovForms(inst) ==
  IF inst.operands[2].kind = "IMM"
  THEN InOpcode({mode \div 64}, 184, inst.operands[1], Low(inst.operands[2].imm, mode \div 8))
  ELSE RegForms(inst, 137, 139)

(* Every encoding of an instruction in the current mode.  Behind a prefix  *)
(* with the bit for r8, the byte of a nop encodes an exchange with r8.     *)
Encodings(inst) ==
  LET p == inst.operands[1]
      q == inst.operands[2]
  IN  CASE inst.mnemonic = "NOP" -> {Encoding(AnyBit, AnyBit, AnyBit, {0}, <<144>>)}
        [] inst.mnemonic = "RET" -> Plain(<<195>>)
        [] inst.mnemonic = "PUSH" -> InOpcode(AnyBit, 80, p, <<>>)
        [] inst.mnemonic = "POP" -> InOpcode(AnyBit, 88, p, <<>>)
        [] inst.mnemonic = "JMP" -> Jump(inst, <<235>>, <<233>>)
        [] inst.mnemonic = "JZ" -> Jump(inst, <<116>>, <<15, 132>>)
        [] inst.mnemonic = "JNZ" -> Jump(inst, <<117>>, <<15, 133>>)
        [] inst.mnemonic = "LEA" -> RegRm(141, p, q)
        [] inst.mnemonic = "TEST" -> RegRm(133, q, p)
        [] inst.mnemonic = "MOV" -> MovForms(inst)
        [] OTHER -> ArithmeticForms(inst, Number(inst.mnemonic))

(* The bytes from the opcode on, and the prefix, encode an instruction.    *)
Fitting(enc, body, rex) ==
  /\ body = enc.body
  /\ RexW(rex) \in enc.w /\ RexR(rex) \in enc.r /\ RexX(rex) \in enc.x /\ RexB(rex) \in enc.b
Formed(inst, body, rex) == \E enc \in Encodings(inst) : Fitting(enc, body, rex)

LongestInstruction == 15     \* a processor refuses a longer one
Encoded(inst, body, rex, length) == Formed(inst, body, rex) /\ length <= LongestInstruction

(* Where the code decodes what the manuals do not: an encoding lengthened  *)
(* by prefixes past the limit, and the exchange with r8.                   *)
Overlong(inst, body, rex, length) == Formed(inst, body, rex) /\ ~(length <= LongestInstruction)
ExchangeForNop(inst, body, rex) == inst.mnemonic = "NOP" /\ body = <<144>> /\ RexB(rex) = 1

-----------------------------------------------------------------------------
(* Properties.                                                             *)

(* An instruction that is decoded is the one the bytes encode: right       *)
(* operation, registers (of those REX reaches, too), addressing form and   *)
(* sign-extended immediate, in both modes.  There are two exceptions and   *)
(* no third: the exchange with r8 is decoded as a nop, and more than 15    *)
(* bytes, which a processor refuses, as the instruction they end with.     *)
DecodesEncoding ==
  answer.status = "OK" =>
    LET n == Prefixes(bytes, mode)
        rex == IF n = 0 THEN 0 ELSE bytes[n]
        length == Len(bytes) - extra
        body == SubSeq(bytes, n + 1, length)
    IN  \/ Encoded(answer.inst, body, rex, length)
        \/ Overlong(answer.inst, body, rex, length)
        \/ ExchangeForNop(answer.inst, body, rex)

(* The answer comes with the last byte of the instruction and its length   *)
(* is the number of bytes up to there, except that 8 bits hold it: 256 or  *)
(* more bytes, which prefixes may amount to, send the lifter backwards.    *)
LengthExact ==
  answer.status = "OK" =>
    /\ answer.inst.length \in 0 .. (Len(bytes) - extra)
    /\ answer.inst.length = Len(bytes) - extra <=> Len(bytes) - extra < LengthLimit

(* The decoder never answers from bytes it has not seen: a buffer cut off  *)
(* within an instruction gives a range error, and once it has answered, be *)
(* it with "unsupported", what follows in the image changes nothing.       *)
AnswerStable == [][~Undecided => answer' = answer]_vars
=============================================================================
