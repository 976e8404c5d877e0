----------------------------- MODULE XairVerify -----------------------------
(***************************************************************************)
(* xair_verify_module of src/src/xair.c: the conditions it checks, block   *)
(* by block, operation by operation, terminator last.  The text of the     *)
(* first error is left out: xair_verify_module(m) holds when the code      *)
(* returns XAIR_OK.                                                        *)
(***************************************************************************)
EXTENDS XairModule

ElemsOf(s) == {s[i] : i \in 1 .. Len(s)}

TypeOf(m, v) == m.values[v].type

(* How the building functions leave the lists of a block: its own          *)
(* parameters and operations, each once, in creation order.                *)
OwnsLists(mod, b) ==
  /\ \A i \in 1 .. Len(mod.blocks[b].params) :
       LET v == mod.blocks[b].params[i]
       IN  valid_value(mod, v) /\ mod.values[v].block = b /\ mod.values[v].op = INVALID
  /\ \A i \in 1 .. Len(mod.blocks[b].ops) :
       LET o == mod.blocks[b].ops[i]
       IN  valid_op(mod, o) /\ mod.values[mod.ops[o].dst].block = b
  /\ \A i, j \in 1 .. Len(mod.blocks[b].params) :
       i < j => mod.blocks[b].params[i] < mod.blocks[b].params[j]
  /\ \A i, j \in 1 .. Len(mod.blocks[b].ops) :
       i < j => mod.blocks[b].ops[i] < mod.blocks[b].ops[j]

(* A terminator's arguments stand in the pool.                             *)
OwnsArgs(mod, b) ==
  LET term == mod.blocks[b].term
  IN  ((term.true_arg_offset + 1) .. (term.true_arg_offset + term.true_arg_count))
        \cup ((term.false_arg_offset + 1) .. (term.false_arg_offset + term.false_arg_count))
          \subseteq 1 .. Len(mod.term_args)

(* The set the verifier's `available` bytes stand for when it reaches      *)
(* position i of block b: the parameters and the results before i.         *)
Available(m, b, i) ==
  ElemsOf(m.blocks[b].params)
    \cup {m.ops[m.blocks[b].ops[j]].dst : j \in 1 .. (i - 1)}

(* Mutant: every value that exists counts as available.                    *)
AnyValue(m, available, v) == valid_value(m, v)

value_is_available(m, available, v) ==
  valid_value(m, v) /\ (v \in available \/ value_is_global_const(m, v))

-----------------------------------------------------------------------------

verify_binary_op(m, op) ==
  LET out == TypeOf(m, op.dst)
      lhs == TypeOf(m, op.src[1])
      rhs == TypeOf(m, op.src[2])
  IN  \/ op.opcode \in ArithOps /\ lhs = rhs /\ is_int(lhs) /\ out = lhs
      \/ op.opcode \in ShiftOps /\ is_int(lhs) /\ is_int(rhs) /\ out = lhs
      \/ op.opcode \in UnsignedCompares /\ lhs = rhs /\ (is_int(lhs) \/ is_addr(lhs)) /\ is_i1(out)
      \/ op.opcode \in SignedCompares /\ lhs = rhs /\ is_int(lhs) /\ is_i1(out)
      \/ op.opcode = "CONCAT" /\ is_int(lhs) /\ is_int(rhs) /\ is_int(out)
           /\ out.bits = lhs.bits + rhs.bits
      \/ op.opcode \in AddrOps /\ is_addr(lhs) /\ is_int(rhs) /\ lhs.bits = rhs.bits /\ out = lhs
      \/ op.opcode \in FlagPairs /\ lhs = rhs /\ is_int(lhs) /\ is_flags(out)

verify_unary_op(m, op) ==
  LET out == TypeOf(m, op.dst)
      src == TypeOf(m, op.src[1])
  IN  \/ op.opcode \in {"ZEXT", "SEXT"} /\ is_int(src) /\ is_int(out) /\ out.bits > src.bits
      \/ op.opcode = "TRUNC" /\ is_int(src) /\ is_int(out) /\ out.bits < src.bits
      \/ op.opcode = "INT_TO_ADDR" /\ is_int(src) /\ is_addr(out) /\ src.bits = out.bits
      \/ op.opcode = "ADDR_TO_INT" /\ is_addr(src) /\ is_int(out) /\ src.bits = out.bits
      \/ op.opcode = "FLAGS_LOGIC" /\ is_int(src) /\ is_flags(out)
      \/ op.opcode \in FlagReads /\ is_flags(src) /\ is_i1(out)

verify_memory_op(m, op) ==
  LET out == TypeOf(m, op.dst)
      mem == TypeOf(m, op.src[1])
      addr == TypeOf(m, op.src[2])
  IN  /\ is_mem(mem) /\ is_addr(addr) /\ mem.bits = addr.bits
      /\ \/ op.opcode = "LOAD" /\ is_value_type(out) /\ ~is_mem(out)
         \/ op.opcode = "STORE" /\ out = mem
              /\ is_value_type(TypeOf(m, op.src[3])) /\ ~is_mem(TypeOf(m, op.src[3]))

verify_op(m, op) ==
  /\ is_value_type(TypeOf(m, op.dst))
  /\ CASE op.opcode = "CONST_U64" ->
            /\ op.src = <<>>
            /\ is_int(TypeOf(m, op.dst)) \/ is_addr(TypeOf(m, op.dst))
            /\ TypeOf(m, op.dst).bits <= 64
       [] op.opcode \in UnaryOps -> Len(op.src) = 1 /\ verify_unary_op(m, op)
       [] op.opcode = "LOAD" -> Len(op.src) = 2 /\ verify_memory_op(m, op)
       [] op.opcode = "STORE" -> Len(op.src) = 3 /\ verify_memory_op(m, op)
       [] op.opcode \in BinaryOps -> Len(op.src) = 2 /\ verify_binary_op(m, op)

verify_target_args(m, available, target, args) ==
  /\ valid_block(m, target)
  /\ Len(m.blocks[target].params) = Len(args)
  /\ \A i \in 1 .. Len(args) :
       /\ value_is_available(m, available, args[i])
       /\ TypeOf(m, args[i]) = TypeOf(m, m.blocks[target].params[i])

verify_term(m, b) ==
  LET term == m.blocks[b].term
      available == Available(m, b, Len(m.blocks[b].ops) + 1)
  IN  \/ /\ term.kind = "JUMP"
         /\ verify_target_args(m, available, term.true_target, TrueArgs(m, b))
      \/ /\ term.kind = "CBRANCH"
         /\ value_is_available(m, available, term.condition)
         /\ is_i1(TypeOf(m, term.condition))
         /\ verify_target_args(m, available, term.true_target, TrueArgs(m, b))
         /\ verify_target_args(m, available, term.false_target, FalseArgs(m, b))
      \/ /\ term.kind = "RETURN"
         /\ \A v \in ElemsOf(TrueArgs(m, b)) : value_is_available(m, available, v)
      \/ term.kind \in {"TRAP", "FAULT"}

-----------------------------------------------------------------------------
(* The bookkeeping checks: parameters and operations belong to the block   *)
(* that lists them.                                                        *)

VerifyParams(m, b) ==
  \A v \in ElemsOf(m.blocks[b].params) :
    valid_value(m, v) /\ m.values[v].block = b /\ is_value_type(TypeOf(m, v))

VerifyDestination(m, b, o) ==
  /\ valid_op(m, o)
  /\ valid_value(m, m.ops[o].dst)
  /\ m.values[m.ops[o].dst].block = b
  /\ m.values[m.ops[o].dst].op = o

VerifySources(m, b, i) ==
  \A v \in ElemsOf(m.ops[m.blocks[b].ops[i]].src) :
    value_is_available(m, Available(m, b, i), v)

VerifyBlock(m, b) ==
  /\ VerifyParams(m, b)
  /\ \A i \in 1 .. Len(m.blocks[b].ops) :
       /\ VerifyDestination(m, b, m.blocks[b].ops[i])
       /\ VerifySources(m, b, i)
       /\ verify_op(m, m.ops[m.blocks[b].ops[i]])
  /\ verify_term(m, b)

xair_verify_module(m) == \A b \in 1 .. Len(m.blocks) : VerifyBlock(m, b)
=============================================================================
