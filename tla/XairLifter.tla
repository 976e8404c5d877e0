----------------------------- MODULE XairLifter -----------------------------
(***************************************************************************)
(* The x86 lifter of src/src/xair_frontend.c: what lifting one decoded     *)
(* instruction appends to a block, and how a block ends.                   *)
(*                                                                         *)
(* x carries the module, the lift state s (x86_lift_state and the result   *)
(* it fills in), the status of the last call and its out parameter.  fuel  *)
(* counts the building calls until an allocation fails.  A failed building *)
(* call changes nothing (XairBuilder), so which of its allocations failed  *)
(* does not matter.  Addresses and immediates are words (XairArith); names *)
(* other than those of registers are left out.                             *)
(***************************************************************************)
EXTENDS XairMeaning, SequencesExt

CONSTANTS
  LiftMaxReturns,      \* XAIR_LIFT_MAX_RETURNS
  LiftMaxRegOutputs    \* XAIR_LIFT_MAX_REG_OUTPUTS

ASSUME LifterAssumption == LiftMaxReturns \in Nat /\ LiftMaxRegOutputs \in Nat

RSP == 4
R8 == 8
RegCount == 16
NoReg == 99
RegName(reg) == 2000 + reg

NewLift(bits, block, pc, emit) ==
  [bits |-> bits, block |-> block, pc |-> pc, start |-> pc, instructions |-> 0, emit |-> emit,
   regs |-> [r \in {} |-> INVALID], written_regs |-> {}, memory |-> INVALID, memory_in |-> INVALID,
   memory_out |-> INVALID, zf |-> INVALID, input_regs |-> <<>>, output_regs |-> <<>>,
   end_kind |-> "FALLTHROUGH", target |-> 0, fallthrough |-> 0,
   branch_condition |-> INVALID, unsupported_address |-> 0, next |-> 0,
   return_values |-> <<>>, done |-> FALSE]

Bind(x, F(_)) == IF x.status # "OK" THEN x ELSE F(x)
Fail(x, status) == [x EXCEPT !.status = status]
Out(x, v) == [x EXCEPT !.out = v]

(* A building call: call(fault).                                           *)
Built(x, r) ==
  [x EXCEPT !.m = r.m, !.status = r.status, !.out = r.out, !.fuel = IF @ = 0 THEN 0 ELSE @ - 1]
Build(x, call(_), fault) == Built(x, call(IF x.fuel = 0 THEN fault ELSE "none"))

x86_reg_type(x) == xair_type_i(x.s.bits)
x86_addr_type(x) == xair_type_addr(x.s.bits)
x86_reg_supported(x, reg) == reg < RegCount /\ (x.s.bits = 64 \/ reg < R8)

Const(x, type, imm) ==
  Build(x, LAMBDA f : xair_build_const_u64(x.m, x.s.block, type, imm, 0, f), "values")
Unary(x, opcode, type, src) ==
  Build(x, LAMBDA f : xair_build_unary(x.m, x.s.block, opcode, type, src, 0, f), "values")
Binary(x, opcode, type, lhs, rhs) ==
  Build(x, LAMBDA f : xair_build_binary(x.m, x.s.block, opcode, type, lhs, rhs, 0, f), "values")
Load(x, memory, address) ==
  Build(x, LAMBDA f : xair_build_load(x.m, x.s.block, x86_reg_type(x), memory, address, "LE",
                                      0, f), "values")

-----------------------------------------------------------------------------
(* Registers, memory and the zero flag.                                    *)

(* Mutant: the parameter is made but not remembered, so that the next read *)
(* makes another.                                                          *)
EnsureForgets(x, reg) ==
  IF ~x86_reg_supported(x, reg) THEN Fail(x, "BAD_ARG")
  ELSE IF reg \in DOMAIN x.s.regs THEN Out(x, x.s.regs[reg])
  ELSE LET y == Build(x, LAMBDA f : xair_block_add_param(x.m, x.s.block, x86_reg_type(x),
                                                         RegName(reg), f), "values")
       IN  Bind(y, LAMBDA z : [z EXCEPT !.s.input_regs = Append(@, [reg |-> reg, value |-> z.out])])

(* The first read of a register makes it a parameter of the block.  (The   *)
(* limit on input registers equals the number of registers, each of which  *)
(* is added at most once.)                                                 *)
x86_ensure_reg(x, reg) ==
  IF ~x86_reg_supported(x, reg) THEN Fail(x, "BAD_ARG")
  ELSE IF reg \in DOMAIN x.s.regs THEN Out(x, x.s.regs[reg])
  ELSE LET y == Build(x, LAMBDA f : xair_block_add_param(x.m, x.s.block, x86_reg_type(x),
                                                         RegName(reg), f), "values")
       IN  Bind(y, LAMBDA z :
             [z EXCEPT !.s.regs = [r \in DOMAIN @ \cup {reg} |-> IF r = reg THEN z.out ELSE @[r]],
                       !.s.input_regs = Append(@, [reg |-> reg, value |-> z.out])])

x86_ensure_memory(x) ==
  IF x.s.memory # INVALID THEN Out(x, x.s.memory)
  ELSE LET y == Build(x, LAMBDA f : xair_block_add_param(x.m, x.s.block,
                                      xair_type_mem(0, x.s.bits), 1, f), "values")
       IN  Bind(y, LAMBDA z : [z EXCEPT !.s.memory = z.out, !.s.memory_in = z.out])

x86_write_reg(x, reg, v) ==
  [x EXCEPT !.s.regs = [r \in DOMAIN @ \cup {reg} |-> IF r = reg THEN v ELSE @[r]],
            !.s.written_regs = @ \cup {reg}]

(* Building a store also moves the memory on, in the result too.           *)
x86_store(x, memory, address, data) ==
  Bind(Build(x, LAMBDA f : xair_build_store(x.m, x.s.block, memory, address, data, "LE", 0, f),
             "values"),
       LAMBDA y : [y EXCEPT !.s.memory = y.out, !.s.memory_out = y.out])

x86_set_zf_from_flags(x, flags) ==
  Bind(Unary(x, "FLAG_ZF", xair_type_i(1), flags), LAMBDA y : [y EXCEPT !.s.zf = y.out])

x86_set_zf_from_value(x, v) ==
  Bind(Unary(x, "FLAGS_LOGIC", xair_type_flags(6), v),
       LAMBDA y : x86_set_zf_from_flags(y, y.out))

x86_const_int(x, imm) == Const(x, x86_reg_type(x), imm)
x86_int_to_addr(x, v) == Unary(x, "INT_TO_ADDR", x86_addr_type(x), v)
x86_addr_to_int(x, v) == Unary(x, "ADDR_TO_INT", x86_reg_type(x), v)
x86_add_i64(base, offset) == (base + offset) % Word

(* base + index * scale + displacement, leaving out what is absent.        *)
x86_build_memory_address(x, mem, next_pc) ==
  LET based == IF mem.base = NoReg THEN Out(x, INVALID)
               ELSE Bind(x86_ensure_reg(x, mem.base), LAMBDA y : x86_int_to_addr(y, y.out))
      scaled(y) ==
        Bind(x86_ensure_reg(y, mem.index), LAMBDA z :
          IF mem.scale = 1 THEN z
          ELSE Bind(x86_const_int(z, mem.scale),
                    LAMBDA k : Binary(k, "MUL", x86_reg_type(k), z.out, k.out)))
      indexed(y) ==
        IF mem.index = NoReg THEN y
        ELSE Bind(scaled(y), LAMBDA z :
               IF y.out = INVALID THEN x86_int_to_addr(z, z.out)
               ELSE Binary(z, "ADDR_ADD", x86_addr_type(z), y.out, z.out))
      displaced(y) ==
        IF y.out = INVALID THEN Const(y, x86_addr_type(y), mem.disp)
        ELSE IF mem.disp = 0 THEN y
        ELSE Bind(x86_const_int(y, mem.disp),
                  LAMBDA k : Binary(k, "ADDR_ADD", x86_addr_type(k), y.out, k.out))
  IN  CASE mem.kind = "RIP_REL" -> Const(x, x86_addr_type(x), x86_add_i64(next_pc, mem.disp))
        [] mem.kind = "BASE_INDEX" -> Bind(Bind(based, indexed), displaced)
        [] OTHER -> Fail(x, "UNSUPPORTED")

-----------------------------------------------------------------------------
(* Instructions: [mnemonic, operands, length].                             *)

Is(inst, i, kind) == i <= Len(inst.operands) /\ inst.operands[i].kind = kind
Reg(inst, i) == inst.operands[i].reg
Imm(inst, i) == inst.operands[i].imm
Mem(inst, i) == inst.operands[i].mem

x86_operand_value(x, inst, i) ==
  IF Is(inst, i, "REG") THEN x86_ensure_reg(x, Reg(inst, i))
  ELSE IF Is(inst, i, "IMM") THEN x86_const_int(x, Imm(inst, i))
  ELSE Fail(x, "UNSUPPORTED")

x86_lift_mem_load(x, dst, mem, next_pc) ==
  Bind(x86_ensure_memory(x), LAMBDA y :
    LET memory == y.out
    IN  Bind(Bind(x86_build_memory_address(y, mem, next_pc), LAMBDA z : Load(z, memory, z.out)),
             LAMBDA w : x86_write_reg(w, dst, w.out)))

x86_lift_mem_store(x, mem, data, next_pc) ==
  Bind(x86_ensure_memory(x), LAMBDA y :
    LET memory == y.out
    IN  Bind(x86_build_memory_address(y, mem, next_pc),
             LAMBDA z : x86_store(z, memory, z.out, data)))

x86_lift_mov_decoded(x, inst, next_pc) ==
  IF Is(inst, 1, "REG") /\ Is(inst, 2, "IMM")
  THEN Bind(x86_const_int(x, Imm(inst, 2)), LAMBDA y : x86_write_reg(y, Reg(inst, 1), y.out))
  ELSE IF Is(inst, 1, "REG") /\ Is(inst, 2, "REG")
  THEN Bind(x86_ensure_reg(x, Reg(inst, 2)), LAMBDA y : x86_write_reg(y, Reg(inst, 1), y.out))
  ELSE IF Is(inst, 1, "REG") /\ Is(inst, 2, "MEM")
  THEN x86_lift_mem_load(x, Reg(inst, 1), Mem(inst, 2), next_pc)
  ELSE IF Is(inst, 1, "MEM") /\ Is(inst, 2, "REG")
  THEN Bind(x86_ensure_reg(x, Reg(inst, 2)),
            LAMBDA y : x86_lift_mem_store(y, Mem(inst, 1), y.out, next_pc))
  ELSE Fail(x, "UNSUPPORTED")

x86_lift_lea_decoded(x, inst, next_pc) ==
  IF ~(Is(inst, 1, "REG") /\ Is(inst, 2, "MEM")) THEN Fail(x, "UNSUPPORTED")
  ELSE Bind(Bind(x86_build_memory_address(x, Mem(inst, 2), next_pc),
                 LAMBDA y : x86_addr_to_int(y, y.out)),
            LAMBDA z : x86_write_reg(z, Reg(inst, 1), z.out))

x86_lift_add_sub_values(x, opcode, flags, dst, lhs, rhs) ==
  Bind(Binary(x, opcode, x86_reg_type(x), lhs, rhs), LAMBDA y :
    LET value == y.out
    IN  Bind(Bind(Binary(y, flags, xair_type_flags(6), lhs, rhs),
                  LAMBDA z : x86_set_zf_from_flags(z, z.out)),
             LAMBDA w : x86_write_reg(w, dst, value)))

x86_lift_logic_values(x, opcode, dst, lhs, rhs) ==
  Bind(Binary(x, opcode, x86_reg_type(x), lhs, rhs), LAMBDA y :
    LET value == y.out
    IN  Bind(x86_set_zf_from_value(y, value), LAMBDA w : x86_write_reg(w, dst, value)))

x86_lift_cmp_values(x, lhs, rhs) ==
  Bind(Binary(x, "FLAGS_SUB", xair_type_flags(6), lhs, rhs),
       LAMBDA y : x86_set_zf_from_flags(y, y.out))

x86_lift_test_values(x, lhs, rhs) ==
  Bind(Binary(x, "AND", x86_reg_type(x), lhs, rhs), LAMBDA y : x86_set_zf_from_value(y, y.out))

x86_lift_alu_decoded(x, inst) ==
  LET dst == Reg(inst, 1)
      lift(y, lhs, rhs) ==
        CASE inst.mnemonic \in {"ADD", "SUB"} ->
               x86_lift_add_sub_values(y, inst.mnemonic,
                 IF inst.mnemonic = "ADD" THEN "FLAGS_ADD" ELSE "FLAGS_SUB", dst, lhs, rhs)
          [] inst.mnemonic \in {"AND", "OR", "XOR"} ->
               x86_lift_logic_values(y, inst.mnemonic, dst, lhs, rhs)
          [] inst.mnemonic = "CMP" -> x86_lift_cmp_values(y, lhs, rhs)
          [] inst.mnemonic = "TEST" -> x86_lift_test_values(y, lhs, rhs)
  IN  IF ~Is(inst, 1, "REG") THEN Fail(x, "UNSUPPORTED")
      ELSE Bind(x86_ensure_reg(x, dst), LAMBDA z :
             Bind(x86_operand_value(z, inst, 2), LAMBDA y : lift(y, z.out, y.out)))

(* Mutant: the pushed value is read after the stack pointer has moved.     *)
PushMoved(x, inst) ==
  Bind(Bind(x86_ensure_reg(x, RSP), LAMBDA y :
         LET rsp == y.out IN Bind(x86_const_int(y, y.s.bits \div 8),
                                  LAMBDA k : Binary(k, "SUB", x86_reg_type(k), rsp, k.out))),
       LAMBDA z :
         LET next_rsp == z.out
         IN  Bind(x86_ensure_reg(x86_write_reg(z, RSP, next_rsp), Reg(inst, 1)), LAMBDA w :
               LET data == w.out
               IN  Bind(x86_int_to_addr(w, next_rsp), LAMBDA u :
                     LET addr == u.out
                     IN  Bind(x86_ensure_memory(u), LAMBDA t : x86_store(t, t.out, addr, data)))))

(* push r: the stored value is the one before the stack pointer moves.     *)
x86_lift_push_decoded(x, inst) ==
  IF ~Is(inst, 1, "REG") THEN Fail(x, "UNSUPPORTED")
  ELSE Bind(x86_ensure_reg(x, RSP), LAMBDA top :
         Bind(x86_ensure_reg(top, Reg(inst, 1)), LAMBDA data :
           Bind(x86_const_int(data, data.s.bits \div 8), LAMBDA size :
             Bind(Binary(size, "SUB", x86_reg_type(size), top.out, size.out), LAMBDA moved :
               Bind(x86_int_to_addr(moved, moved.out), LAMBDA addr :
                 Bind(x86_ensure_memory(addr), LAMBDA memory :
                   Bind(x86_store(memory, memory.out, addr.out, data.out), LAMBDA y :
                     x86_write_reg(y, RSP, moved.out))))))))

(* pop r: the stack pointer is written last, also when it is r.            *)
x86_lift_pop_decoded(x, inst) ==
  IF ~Is(inst, 1, "REG") THEN Fail(x, "UNSUPPORTED")
  ELSE Bind(x86_ensure_reg(x, RSP), LAMBDA top :
         Bind(x86_int_to_addr(top, top.out), LAMBDA addr :
           Bind(x86_ensure_memory(addr), LAMBDA memory :
             Bind(Load(memory, memory.out, addr.out), LAMBDA loaded :
               Bind(x86_const_int(loaded, loaded.s.bits \div 8), LAMBDA size :
                 Bind(Binary(size, "ADD", x86_reg_type(size), top.out, size.out), LAMBDA moved :
                   x86_write_reg(x86_write_reg(moved, Reg(inst, 1), loaded.out), RSP,
                                 moved.out)))))))

-----------------------------------------------------------------------------
(* The end of a block: it returns the memory, the registers written, in    *)
(* the order of their numbers, and the condition of a branch.              *)

OutputRegs(s) ==
  LET written == SetToSortSeq(s.written_regs, LAMBDA p, q : p < q)
  IN  [i \in 1 .. Len(written) |-> [reg |-> written[i], value |-> s.regs[written[i]]]]

OneIf(condition, v) == IF condition THEN <<v>> ELSE <<>>
BranchReturns(s) ==
  OneIf(s.end_kind = "DIRECT_CBRANCH" /\ s.branch_condition # INVALID, s.branch_condition)
RegReturns(outputs) == [i \in 1 .. Len(outputs) |-> outputs[i].value]

(* Mutant: the condition comes before the registers.                       *)
ConditionFirst(s, outputs) ==
  OneIf(s.memory # INVALID, s.memory) \o BranchReturns(s) \o RegReturns(outputs)

ReturnValues(s, outputs) ==
  OneIf(s.memory # INVALID, s.memory) \o RegReturns(outputs) \o BranchReturns(s)

x86_finish_block(x) ==
  LET s == x.s
      outputs == OutputRegs(s)
      returns == ReturnValues(s, outputs)
      filled == [x EXCEPT !.s.next = s.pc, !.s.done = TRUE,
                          !.s.memory_out = IF s.memory = INVALID THEN @ ELSE s.memory,
                          !.s.output_regs = outputs, !.s.return_values = returns]
  IN  IF Len(outputs) > LiftMaxRegOutputs \/ Len(returns) > LiftMaxReturns
      THEN Fail(filled, "RANGE")
      ELSE IF ~s.emit THEN filled
      ELSE Build(filled, LAMBDA f : xair_set_return(x.m, s.block, returns, f), "args")

(* Mutant: the block of an unsupported instruction is left open.           *)
UnsupportedLeftOpen(x, address) ==
  [x EXCEPT !.status = "OK", !.s.end_kind = "UNSUPPORTED", !.s.done = TRUE,
            !.s.unsupported_address = address, !.s.next = x.s.pc]

x86_finish_unsupported(x, address) ==
  x86_finish_block([x EXCEPT !.status = "OK", !.s.end_kind = "UNSUPPORTED",
                             !.s.unsupported_address = address])
x86_finish_fallthrough(x) ==
  x86_finish_block([x EXCEPT !.s.end_kind = "FALLTHROUGH", !.s.fallthrough = x.s.pc])

x86_condition_from_zf(x, want_zero) ==
  IF x.s.zf = INVALID THEN Fail(x, "UNSUPPORTED")
  ELSE IF want_zero THEN Out(x, x.s.zf)
  ELSE Bind(Const(x, xair_type_i(1), 0),
            LAMBDA y : Binary(y, "EQ", xair_type_i(1), y.s.zf, y.out))

(* The block ends behind the instruction.                                  *)
Behind(x, next_pc) == [x EXCEPT !.s.pc = next_pc, !.s.instructions = @ + 1]
x86_finish_return(x) == x86_finish_block([x EXCEPT !.s.end_kind = "RETURN"])
x86_finish_direct_jump(x, target) ==
  x86_finish_block([x EXCEPT !.s.end_kind = "DIRECT_JUMP", !.s.target = target])
x86_finish_direct_cbranch(x, target, next_pc) ==
  x86_finish_block([x EXCEPT !.s.end_kind = "DIRECT_CBRANCH", !.s.target = target,
                             !.s.fallthrough = next_pc, !.s.branch_condition = x.out])

(* What the switch on the mnemonic does for an instruction that does not   *)
(* end the block.                                                          *)
LiftPlain(x, inst, next_pc) ==
  CASE inst.mnemonic = "NOP" -> x
    [] inst.mnemonic = "MOV" -> x86_lift_mov_decoded(x, inst, next_pc)
    [] inst.mnemonic = "LEA" -> x86_lift_lea_decoded(x, inst, next_pc)
    [] inst.mnemonic \in {"ADD", "SUB", "AND", "OR", "XOR", "CMP", "TEST"} ->
         x86_lift_alu_decoded(x, inst)
    [] inst.mnemonic = "PUSH" -> x86_lift_push_decoded(x, inst)
    [] inst.mnemonic = "POP" -> x86_lift_pop_decoded(x, inst)
    [] OTHER -> Fail(x, "UNSUPPORTED")

Unsupported(x, address) ==
  IF x.status = "UNSUPPORTED" THEN x86_finish_unsupported(x, address) ELSE x

(* One round of the loop, with the decoder's answer.  "Unsupported" ends   *)
(* the block before the instruction; any other error ends the call and     *)
(* leaves the block as it is.                                              *)
x86_lift_one(x, answer) ==
  LET inst == answer.inst
      next_pc == (x.s.pc + inst.length) % Word
      target == x86_add_i64(next_pc, Imm(inst, 1))
      lifted ==
        IF answer.status # "OK" THEN Fail(x, answer.status)
        ELSE IF inst.mnemonic \in {"JMP", "JZ", "JNZ"} /\ ~Is(inst, 1, "IMM")
        THEN Fail(x, "UNSUPPORTED")
        ELSE CASE inst.mnemonic = "JMP" -> x86_finish_direct_jump(Behind(x, next_pc), target)
               [] inst.mnemonic \in {"JZ", "JNZ"} ->
                    Bind(x86_condition_from_zf(x, inst.mnemonic = "JZ"), LAMBDA y :
                      x86_finish_direct_cbranch(Behind(y, next_pc), target, next_pc))
               [] inst.mnemonic = "RET" -> x86_finish_return(Behind(x, next_pc))
               [] OTHER -> Bind(LiftPlain(x, inst, next_pc), LAMBDA y : Behind(y, next_pc))
  IN  Unsupported(lifted, x.s.pc)
=============================================================================
