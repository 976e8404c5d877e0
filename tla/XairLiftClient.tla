--------------------------- MODULE XairLiftClient ---------------------------
(***************************************************************************)
(* A client lifting x86 code into a module, block by block: with           *)
(* xair_lift_basic_block, which makes the block and ends it, or with       *)
(* xair_lift_block_body_into, whose caller ends the block.  Each call gets *)
(* an image of its own, of which the decoder reports one instruction after *)
(* the other; any allocation may fail.                                     *)
(*                                                                         *)
(* ref is a machine that executes the instructions the lifter has taken as *)
(* the processor does: registers, memory, the zero flag once an instruction*)
(* has set it, where a branch goes and whether it is taken.  astray is set *)
(* by the one instruction the lifter takes for another, pop rsp.           *)
(***************************************************************************)
EXTENDS XairLifter

CONSTANT Sessions   \* what clients may do, one record per kind of client

(* Fields of a session: insts, what the decoder may report; archs,         *)
(* register widths in bits; size, the image holds the addresses            *)
(* Base .. Base + size - 1; starts, options->address; limits,              *)
(* options->max_instructions; fuels, building calls until an allocation    *)
(* fails.  Bound: maxLifts, calls of the lifter.                           *)
ASSUME SessionAssumption ==
  \A s \in Sessions :
    /\ s.archs \subseteq {32, 64} /\ {s.size, s.maxLifts} \subseteq Nat
    /\ s.starts \cup s.limits \cup s.fuels \subseteq Nat

Base == 100

VARIABLES
  x,          \* the module and the lift state (XairLifter)
  lifting,    \* a call of the lifter is running
  limit,      \* its max_instructions
  lifts,      \* calls so far
  pending,    \* blocks the client has yet to end
  ref,        \* the machine
  session     \* the kind of client, fixed

vars == <<x, lifting, limit, lifts, pending, ref, session>>

InitialReg(r) == (4099 * r + 260) % Word
Fresh == [regs |-> [r \in 0 .. (RegCount - 1) |-> InitialReg(r)], mem |-> NoWrites,
          zf |-> Undefined, pc |-> 0, taken |-> Undefined, target |-> Undefined,
          astray |-> FALSE]

Init ==
  /\ session \in Sessions
  /\ x = [m |-> xair_module_create, s |-> NewLift(64, INVALID, 0, TRUE),
          status |-> "OK", out |-> INVALID, fuel |-> 0]
  /\ lifting = FALSE /\ limit = 0 /\ lifts = 0 /\ pending = {} /\ ref = Fresh

-----------------------------------------------------------------------------
(* The instructions on numbers.                                            *)

Address(inst, i) ==
  LET mem == Mem(inst, i)
      part(reg, k) == IF reg = NoReg THEN 0 ELSE ref.regs[reg] * k
  IN  (mem.disp + (IF mem.kind = "RIP_REL" THEN ref.pc + inst.length
                   ELSE part(mem.base, 1) + part(mem.index, mem.scale))) % Word

Width == x.s.bits \div 8

Operand(inst, i) ==
  CASE Is(inst, i, "REG") -> ref.regs[Reg(inst, i)]
    [] Is(inst, i, "IMM") -> Imm(inst, i)
    [] OTHER -> LoadBytes(ref.mem, Address(inst, i), Width)

Calculated(mnemonic, p, q) ==
  CASE mnemonic = "ADD" -> (p + q) % Word
    [] mnemonic \in {"SUB", "CMP"} -> (p - q) % Word
    [] mnemonic \in {"AND", "TEST"} -> BitAnd(p, q)
    [] mnemonic = "OR" -> BitOr(p, q)
    [] mnemonic = "XOR" -> BitXor(p, q)

Target(inst) == (ref.pc + inst.length + Imm(inst, 1)) % Word

(* "pop rsp" leaves the popped word in the stack pointer.                  *)
Effect(inst) ==
  LET p == Operand(inst, 1)
      q == Operand(inst, 2)
      result == Calculated(inst.mnemonic, p, q)
      top == ref.regs[RSP]
      moved == (top - Width) % Word
  IN  CASE inst.mnemonic = "NOP" -> ref
        [] inst.mnemonic = "MOV" /\ Is(inst, 1, "MEM") ->
             [ref EXCEPT !.mem = StoreBytes(@, Address(inst, 1), q, Width)]
        [] inst.mnemonic = "MOV" -> [ref EXCEPT !.regs[Reg(inst, 1)] = q]
        [] inst.mnemonic = "LEA" -> [ref EXCEPT !.regs[Reg(inst, 1)] = Address(inst, 2)]
        [] inst.mnemonic = "PUSH" -> [ref EXCEPT !.mem = StoreBytes(@, moved, p, Width),
                                                 !.regs[RSP] = moved]
        [] inst.mnemonic = "POP" ->
             [ref EXCEPT !.regs = [@ EXCEPT ![RSP] = (top + Width) % Word,
                                            ![Reg(inst, 1)] = LoadBytes(ref.mem, top, Width)],
                         !.astray = @ \/ Reg(inst, 1) = RSP]
        [] inst.mnemonic \in {"CMP", "TEST"} -> [ref EXCEPT !.zf = bool_u64(result = 0)]
        [] inst.mnemonic = "JMP" -> [ref EXCEPT !.target = Target(inst)]
        [] inst.mnemonic \in {"JZ", "JNZ"} ->
             [ref EXCEPT !.taken = bool_u64((ref.zf = 1) = (inst.mnemonic = "JZ")),
                         !.target = Target(inst)]
        [] inst.mnemonic = "RET" -> ref
        [] OTHER -> [ref EXCEPT !.regs[Reg(inst, 1)] = result, !.zf = bool_u64(result = 0)]

-----------------------------------------------------------------------------
(* The client's steps.                                                     *)

InImage(address) == address \in Base .. (Base + session.size - 1)   \* image_offset

(* The decoder's answer for the bytes at pc: an instruction that is there  *)
(* in full, one it does not know, or that the image ends too early.        *)
Answers(pc) ==
  {[status |-> "OK", inst |-> i] : i \in {j \in session.insts : pc + j.length <= Base + session.size}}
    \cup {[status |-> st, inst |-> [mnemonic |-> "?", operands |-> <<>>, length |-> 1]] :
            st \in {"UNSUPPORTED", "RANGE"}}

(* The head of a call: out is the block to lift into.                      *)
lift_x86_basic_block(m, block, start, bits, emit, fault) ==
  IF ~emit /\ ~valid_block(m, block) THEN Reject(m, "BAD_ARG")
  ELSE IF ~InImage(start) THEN Reject(m, "RANGE")
  ELSE IF emit THEN xair_block_create(m, fault)
  ELSE Ret(m, "OK", block)

StartLift(emit) ==
  /\ ~lifting /\ lifts < session.maxLifts
  /\ \E bits \in session.archs, start \in session.starts, fuel \in session.fuels, block \in 1 .. Len(x.m.blocks) + 1 :
       LET r == lift_x86_basic_block(x.m, block, start, bits, emit,
                                     IF fuel = 0 THEN "blocks" ELSE "none")
       IN  /\ emit => block = Len(x.m.blocks) + 1
           /\ x' = [m |-> r.m, status |-> r.status, out |-> INVALID, fuel |-> fuel,
                    s |-> IF r.status = "OK" THEN NewLift(bits, r.out, start, emit)
                          ELSE [x.s EXCEPT !.done = FALSE]]
           /\ lifting' = (r.status = "OK")
           /\ ref' = [Fresh EXCEPT !.pc = start]
  /\ \E n \in session.limits : limit' = IF n = 0 THEN 32 ELSE n
  /\ lifts' = lifts + 1
  /\ UNCHANGED pending

xair_lift_basic_block == StartLift(TRUE)
xair_lift_block_body_into == StartLift(FALSE)

(* What the call leaves to the client when it returns.                     *)
Returns(y) ==
  LET ended == y.status # "OK" \/ y.s.done
  IN  /\ lifting' = ~ended
      /\ pending' = IF ended /\ (y.status # "OK" \/ ~y.s.emit)
                       /\ y.m.blocks[y.s.block].term.kind = "NONE"
                    THEN pending \cup {y.s.block} ELSE pending

(* One round of the loop; the machine executes what was lifted.            *)
LiftOne ==
  /\ lifting /\ x.s.instructions < limit
  /\ \E answer \in Answers(x.s.pc) :
       /\ InImage(x.s.pc) \/ answer.status = "RANGE"
       /\ x' = x86_lift_one(x, answer)
       /\ ref' = IF x'.status = "OK" /\ x'.s.end_kind # "UNSUPPORTED"
                 THEN [Effect(answer.inst) EXCEPT !.pc = (@ + answer.inst.length) % Word] ELSE ref
       /\ Returns(x')
  /\ UNCHANGED <<limit, lifts>>

Fallthrough ==
  /\ lifting /\ x.s.instructions = limit
  /\ x' = x86_finish_fallthrough(x)
  /\ Returns(x')
  /\ UNCHANGED <<limit, lifts, ref>>

(* The client ends a block it was left with.                               *)
Salvage ==
  /\ ~lifting
  /\ \E b \in pending :
       /\ x' = [x EXCEPT !.m = xair_set_trap(x.m, b, 1).m]
       /\ pending' = pending \ {b}
  /\ UNCHANGED <<lifting, limit, lifts, ref>>

Call == xair_lift_basic_block \/ xair_lift_block_body_into \/ LiftOne \/ Fallthrough \/ Salvage

Next == Call /\ UNCHANGED session

Spec == Init /\ [][Next]_vars

-----------------------------------------------------------------------------
(* Properties.                                                             *)

Denotes(mod) ==
  Meaning(mod,
          LAMBDA v : truncate_to_type(InitialReg(mod.values[v].name - RegName(0)), TypeOf(mod, v)),
          LAMBDA v : {})

(* The block computes what the processor does.  At every point of a lift   *)
(* that has not failed, also after an instruction that was given up half   *)
(* way, each register, the memory and the zero flag denote the machine's,  *)
(* a register that was not written has its initial value, and a branch     *)
(* goes where the machine goes, under the condition it goes there.  The    *)
(* exception is a block with pop rsp: from there on the lifter has the     *)
(* stack pointer moved by a word where the processor has the popped word.  *)
LiftsMeaning ==
  x.status = "OK" /\ x.s.block # INVALID /\ ~ref.astray =>
    LET d == Denotes(x.m)
        s == x.s
    IN  /\ \A r \in DOMAIN s.regs : d[s.regs[r]] = ref.regs[r]
        /\ \A r \in DOMAIN ref.regs \ s.written_regs : ref.regs[r] = InitialReg(r)
        /\ IF s.memory = INVALID THEN ref.mem = NoWrites ELSE d[s.memory] = ref.mem
        /\ IF s.zf = INVALID THEN ref.zf = Undefined ELSE d[s.zf] = ref.zf
        /\ s.pc = ref.pc
        /\ s.end_kind \in {"DIRECT_JUMP", "DIRECT_CBRANCH"} => s.target = ref.target
        /\ s.end_kind = "DIRECT_CBRANCH" => /\ d[s.branch_condition] = ref.taken
                                            /\ s.fallthrough = ref.pc

(* The result tells a caller how to connect the block.  The parameters a   *)
(* lift adds are its inputs, each register once.  The block returns, in    *)
(* this order, the memory if it uses any, the output registers and the     *)
(* condition of its branch; the output registers are those written, by     *)
(* number, each with the last value it was given; and there is room for    *)
(* all of them, whatever was lifted.                                       *)
ResultDescribesBlock ==
  x.s.block # INVALID =>
    LET s == x.s
        listed == {s.input_regs[i].value : i \in 1 .. Len(s.input_regs)}
        inputs == IF s.memory_in = INVALID THEN listed ELSE listed \cup {s.memory_in}
        params == ToSet(x.m.blocks[s.block].params)
        outputs == s.output_regs
        first == IF s.memory_out = INVALID THEN 0 ELSE 1
        condition == s.end_kind = "DIRECT_CBRANCH"
    IN  /\ IF s.emit THEN params = inputs ELSE inputs \subseteq params
        /\ \A i, j \in 1 .. Len(s.input_regs) :
             s.input_regs[i].reg = s.input_regs[j].reg => i = j
        /\ s.done => x.status # "RANGE"
        /\ x.status = "OK" /\ s.done =>
             /\ s.next = s.pc /\ (s.end_kind = "UNSUPPORTED" => s.unsupported_address = s.pc)
             /\ s.memory_out = s.memory
             /\ {outputs[i].reg : i \in 1 .. Len(outputs)} = s.written_regs
             /\ \A i \in 1 .. Len(outputs) :
                  /\ outputs[i].value = s.regs[outputs[i].reg]
                  /\ outputs[i].value = s.return_values[first + i]
                  /\ i > 1 => outputs[i - 1].reg < outputs[i].reg
             /\ first = 1 => s.return_values[1] = s.memory_out
             /\ condition => Last(s.return_values) = s.branch_condition
             /\ Len(s.return_values) = first + Len(outputs) + (IF condition THEN 1 ELSE 0)
             /\ s.emit => TrueArgs(x.m, s.block) = s.return_values

(* A lift that returns OK leaves a block that verifies.  One that fails    *)
(* (an allocation, or the image ends within the block) leaves its block in *)
(* the module without an end, as does lifting a body: until the caller     *)
(* ends it nothing in the module can be run, and after that everything can.*)
VerifiesOnceEnded == ~lifting => (xair_verify_module(x.m) <=> pending = {})
=============================================================================
