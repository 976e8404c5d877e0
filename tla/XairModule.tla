----------------------------- MODULE XairModule -----------------------------
(***************************************************************************)
(* The in-memory module of src/src/xair.c and the calls that build it, as  *)
(* operators from a module to the module the call leaves behind.           *)
(*                                                                         *)
(* A module is a record.  Identifiers count from 1 where the code counts   *)
(* from 0, so that values, ops and blocks are sequences; INVALID stands    *)
(* for XAIR_INVALID_ID.  Array capacities are left to GrowArray, and the   *)
(* open-addressing value-number table to ValueNumberTable: here vn is the  *)
(* set of values the table holds.  A call takes the fault, if any, that    *)
(* strikes inside it: the allocation that fails, or an argument array that *)
(* is NULL.                                                                *)
(***************************************************************************)
EXTENDS XairTypes

CONSTANT MaxId      \* UINT32_MAX: the number of identifiers of each kind

ASSUME MaxIdAssumption == MaxId \in Nat \ {0}

INVALID == 0
DefaultName == 100  \* rank of the name "v<id>" that copy_name makes up, minus id

Statuses == {"OK", "OOM", "BAD_ARG", "RANGE", "VERIFY", "UNSUPPORTED"}
Endians  == {"LE", "BE"}
TermKinds == {"NONE", "JUMP", "CBRANCH", "RETURN", "TRAP", "FAULT"}

ValueRecs == [type : Types, block : Nat, op : Nat, name : Nat]
OpRecs    == [opcode : Opcodes, dst : Nat, src : Seq(Nat), imm : Nat, endian : Endians]
TermRecs  == [kind : TermKinds, condition : Nat, true_target : Nat, false_target : Nat,
              true_arg_offset : Nat, true_arg_count : Nat,
              false_arg_offset : Nat, false_arg_count : Nat, code : Nat]
BlockRecs == [params : Seq(Nat), ops : Seq(Nat), term : TermRecs]
Modules   == [values : Seq(ValueRecs), ops : Seq(OpRecs), blocks : Seq(BlockRecs),
              term_args : Seq(Nat), vn : SUBSET Nat, frozen : BOOLEAN]

NoTerm == [kind |-> "NONE", condition |-> INVALID, true_target |-> INVALID,
           false_target |-> INVALID, true_arg_offset |-> 0, true_arg_count |-> 0,
           false_arg_offset |-> 0, false_arg_count |-> 0, code |-> 0]

xair_module_create == [values |-> <<>>, ops |-> <<>>, blocks |-> <<>>,
                       term_args |-> <<>>, vn |-> {}, frozen |-> FALSE]

Ret(m, status, out) == [m |-> m, status |-> status, out |-> out]
Reject(m, status) == Ret(m, status, INVALID)

valid_block(m, b) == b \in 1 .. Len(m.blocks)
valid_value(m, v) == v \in 1 .. Len(m.values)
valid_op(m, o) == o \in 1 .. Len(m.ops)

value_is_global_const(m, v) ==
  /\ valid_value(m, v)
  /\ valid_op(m, m.values[v].op)
  /\ m.ops[m.values[v].op].opcode = "CONST_U64"

(* The identifiers a terminator passes along its true or its false edge.   *)
term_args(m, offset, count) == [i \in 1 .. count |-> m.term_args[offset + i]]
TrueArgs(m, b) == term_args(m, m.blocks[b].term.true_arg_offset, m.blocks[b].term.true_arg_count)
FalseArgs(m, b) == term_args(m, m.blocks[b].term.false_arg_offset, m.blocks[b].term.false_arg_count)

-----------------------------------------------------------------------------
(* Value numbering: an operation is built once per block, a constant once  *)
(* per module.                                                             *)

value_number_is_global(opcode) == opcode = "CONST_U64"

value_number_matches(m, v, b, opcode, type, srcs, imm, endian) ==
  /\ valid_value(m, v)
  /\ m.values[v].type = type
  /\ value_number_is_global(opcode) \/ m.values[v].block = b
  /\ valid_op(m, m.values[v].op)
  /\ LET op == m.ops[m.values[v].op]
     IN  op.opcode = opcode /\ op.src = srcs /\ op.imm = imm /\ op.endian = endian

(* Mutant: the table is never consulted.                                   *)
NeverFound(m, b, opcode, type, srcs, imm, endian) == {}

value_number_lookup(m, b, opcode, type, srcs, imm, endian) ==
  {v \in m.vn : value_number_matches(m, v, b, opcode, type, srcs, imm, endian)}

value_number_insert(m, v) == [m EXCEPT !.vn = @ \cup {v}]
value_number_clear(m) == [m EXCEPT !.vn = {}]

-----------------------------------------------------------------------------
(* Blocks, parameters and operations.                                      *)

copy_name(name, id) == IF name # 0 THEN name ELSE DefaultName + id

DropLast(s) == SubSeq(s, 1, Len(s) - 1)

xair_block_create(m, fault) ==
  IF m.frozen THEN Reject(m, "BAD_ARG")
  ELSE IF Len(m.blocks) >= MaxId THEN Reject(m, "RANGE")
  ELSE IF fault = "blocks" THEN Reject(m, "OOM")
  ELSE Ret([m EXCEPT !.blocks = Append(@, [params |-> <<>>, ops |-> <<>>, term |-> NoTerm])],
           "OK", Len(m.blocks) + 1)

add_value(m, b, type, name, fault) ==
  IF m.frozen \/ ~valid_block(m, b) \/ ~is_value_type(type) THEN Reject(m, "BAD_ARG")
  ELSE IF Len(m.values) >= MaxId THEN Reject(m, "RANGE")
  ELSE IF fault = "values" THEN Reject(m, "OOM")
  ELSE LET id == Len(m.values) + 1
           value == [type |-> type, block |-> b, op |-> INVALID, name |-> copy_name(name, id)]
       IN  Ret([m EXCEPT !.values = Append(@, value)], "OK", id)

(* Mutant: value_count-- is forgotten.                                     *)
KeepValue(m) == m

(* value_count-- : the value that add_value has just appended is dropped.  *)
UndoValue(m) == [m EXCEPT !.values = DropLast(@)]

(* Mutant: a terminated block still takes parameters.                      *)
AddParamAnytime(m, b, type, name, fault) ==
  LET added == add_value(m, b, type, name, fault)
  IN  IF ~valid_block(m, b) \/ ~is_value_type(type) THEN Reject(m, "BAD_ARG")
      ELSE IF added.status # "OK" THEN Reject(added.m, added.status)
      ELSE IF fault = "params" THEN Reject(UndoValue(added.m), "OOM")
      ELSE Ret([added.m EXCEPT !.blocks[b].params = Append(@, added.out)], "OK", added.out)

xair_block_add_param(m, b, type, name, fault) ==
  IF ~valid_block(m, b) \/ ~is_value_type(type) THEN Reject(m, "BAD_ARG")
  ELSE IF m.blocks[b].term.kind # "NONE" THEN Reject(m, "BAD_ARG")
  ELSE LET added == add_value(m, b, type, name, fault)
       IN  IF added.status # "OK" THEN Reject(added.m, added.status)
           ELSE IF fault = "params" THEN Reject(UndoValue(added.m), "OOM")
           ELSE Ret([added.m EXCEPT !.blocks[b].params = Append(@, added.out)], "OK", added.out)

(* The new operation and the back link from its destination.               *)
LinkOp(m, op) ==
  [m EXCEPT !.ops = Append(@, op), !.values[op.dst].op = Len(m.ops) + 1]

(* Mutant: op_count-- is forgotten.                                        *)
KeepOp(m, v) == [m EXCEPT !.values[v].op = INVALID]

(* op_count-- after the back link has been cut.                            *)
UndoOp(m, v) == [m EXCEPT !.ops = DropLast(@), !.values[v].op = INVALID]

append_op(m, b) == [m EXCEPT !.blocks[b].ops = Append(@, Len(m.ops))]

(* The part of add_op that runs when the operation is not numbered yet.    *)
BuildOp(m, b, opcode, type, srcs, imm, endian, name, fault) ==
  LET added == add_value(m, b, type, name, fault)
      op == [opcode |-> opcode, dst |-> added.out, src |-> srcs, imm |-> imm, endian |-> endian]
      linked == LinkOp(added.m, op)
  IN  IF fault = "vn" THEN Reject(m, "OOM")
      ELSE IF added.status # "OK" THEN Reject(added.m, added.status)
      ELSE IF fault = "ops" THEN Reject(UndoValue(added.m), "OOM")
      ELSE IF fault = "block_ops"
           THEN Reject(UndoValue(UndoOp(linked, added.out)), "OOM")
      ELSE Ret(value_number_insert(append_op(linked, b), added.out), "OK", added.out)

add_op(m, b, opcode, type, srcs, imm, endian, name, fault) ==
  IF m.frozen \/ ~valid_block(m, b) THEN Reject(m, "BAD_ARG")
  ELSE IF m.blocks[b].term.kind # "NONE" THEN Reject(m, "BAD_ARG")
  ELSE IF Len(m.ops) >= MaxId THEN Reject(m, "RANGE")
  ELSE LET known == value_number_lookup(m, b, opcode, type, srcs, imm, endian)
       IN  IF known # {} THEN Ret(m, "OK", CHOOSE v \in known : TRUE)
           ELSE BuildOp(m, b, opcode, type, srcs, imm, endian, name, fault)

xair_build_const_u64(m, b, type, imm, name, fault) ==
  IF ~(is_int(type) \/ is_addr(type)) \/ type.bits > 64 THEN Reject(m, "BAD_ARG")
  ELSE add_op(m, b, "CONST_U64", type, <<>>, imm, "LE", name, fault)

xair_build_unary(m, b, opcode, type, src, name, fault) ==
  IF ~valid_value(m, src) THEN Reject(m, "BAD_ARG")
  ELSE add_op(m, b, opcode, type, <<src>>, 0, "LE", name, fault)

xair_build_binary(m, b, opcode, type, lhs, rhs, name, fault) ==
  IF ~valid_value(m, lhs) \/ ~valid_value(m, rhs) THEN Reject(m, "BAD_ARG")
  ELSE add_op(m, b, opcode, type, <<lhs, rhs>>, 0, "LE", name, fault)

xair_build_load(m, b, type, memory, address, endian, name, fault) ==
  IF ~valid_value(m, memory) \/ ~valid_value(m, address) THEN Reject(m, "BAD_ARG")
  ELSE add_op(m, b, "LOAD", type, <<memory, address>>, 0, endian, name, fault)

xair_build_store(m, b, memory, address, data, endian, name, fault) ==
  IF \E v \in {memory, address, data} : ~valid_value(m, v) THEN Reject(m, "BAD_ARG")
  ELSE add_op(m, b, "STORE", m.values[memory].type, <<memory, address, data>>, 0, endian,
              name, fault)

-----------------------------------------------------------------------------
(* Terminators.  Their arguments go to one pool shared by all blocks, and  *)
(* are copied there before the terminator is installed.                    *)

(* Mutant: the offset is taken after the copy.                             *)
OffsetAfterCopy(m, args, null, oom) ==
  IF args # <<>> /\ null THEN Ret(m, "BAD_ARG", Len(m.term_args))
  ELSE IF args # <<>> /\ oom THEN Ret(m, "OOM", Len(m.term_args))
  ELSE Ret([m EXCEPT !.term_args = @ \o args], "OK", Len(m.term_args) + Len(args))

append_term_args(m, args, null, oom) ==
  IF args # <<>> /\ null THEN Ret(m, "BAD_ARG", Len(m.term_args))
  ELSE IF args # <<>> /\ oom THEN Ret(m, "OOM", Len(m.term_args))
  ELSE Ret([m EXCEPT !.term_args = @ \o args], "OK", Len(m.term_args))

set_term(m, b, term) ==
  IF m.frozen \/ ~valid_block(m, b) \/ m.blocks[b].term.kind # "NONE" THEN Reject(m, "BAD_ARG")
  ELSE Ret([m EXCEPT !.blocks[b].term = term], "OK", INVALID)

Unterminated(m, b) == ~m.frozen /\ valid_block(m, b) /\ m.blocks[b].term.kind = "NONE"

(* Mutant: the terminator is installed before its arguments are copied.    *)
JumpBeforeArgs(m, b, target, args, fault) ==
  LET set == set_term(m, b, [NoTerm EXCEPT !.kind = "JUMP", !.true_target = target,
                               !.true_arg_offset = Len(m.term_args),
                               !.true_arg_count = Len(args)])
      put == append_term_args(set.m, args, fault = "null_args", fault = "args")
  IN  IF ~Unterminated(m, b) \/ ~valid_block(m, target) THEN Reject(m, "BAD_ARG")
      ELSE IF put.status # "OK" THEN Reject(put.m, put.status)
      ELSE Ret(put.m, "OK", INVALID)

xair_set_jump(m, b, target, args, fault) ==
  LET put == append_term_args(m, args, fault = "null_args", fault = "args")
  IN  IF ~Unterminated(m, b) \/ ~valid_block(m, target) THEN Reject(m, "BAD_ARG")
      ELSE IF put.status # "OK" THEN Reject(put.m, put.status)
      ELSE set_term(put.m, b, [NoTerm EXCEPT !.kind = "JUMP", !.true_target = target,
                                 !.true_arg_offset = put.out, !.true_arg_count = Len(args)])

xair_set_cbranch(m, b, condition, true_target, true_args, false_target, false_args, fault) ==
  LET put1 == append_term_args(m, true_args, fault = "null_args", fault = "args")
      put2 == append_term_args(put1.m, false_args, fault = "null_false_args",
                               fault = "false_args")
  IN  IF \/ ~Unterminated(m, b)
         \/ ~valid_value(m, condition)
         \/ ~valid_block(m, true_target) \/ ~valid_block(m, false_target)
      THEN Reject(m, "BAD_ARG")
      ELSE IF put1.status # "OK" THEN Reject(put1.m, put1.status)
      ELSE IF put2.status # "OK" THEN Reject(put2.m, put2.status)
      ELSE set_term(put2.m, b,
             [NoTerm EXCEPT !.kind = "CBRANCH", !.condition = condition,
                !.true_target = true_target, !.false_target = false_target,
                !.true_arg_offset = put1.out, !.true_arg_count = Len(true_args),
                !.false_arg_offset = put2.out, !.false_arg_count = Len(false_args)])

xair_set_return(m, b, args, fault) ==
  LET put == append_term_args(m, args, fault = "null_args", fault = "args")
  IN  IF ~Unterminated(m, b) THEN Reject(m, "BAD_ARG")
      ELSE IF put.status # "OK" THEN Reject(put.m, put.status)
      ELSE set_term(put.m, b, [NoTerm EXCEPT !.kind = "RETURN",
                                 !.true_arg_offset = put.out, !.true_arg_count = Len(args)])

xair_set_trap(m, b, code) ==
  IF ~Unterminated(m, b) THEN Reject(m, "BAD_ARG")
  ELSE set_term(m, b, [NoTerm EXCEPT !.kind = "TRAP", !.code = code])

xair_set_fault(m, b, code) ==
  IF ~Unterminated(m, b) THEN Reject(m, "BAD_ARG")
  ELSE set_term(m, b, [NoTerm EXCEPT !.kind = "FAULT", !.code = code])

-----------------------------------------------------------------------------
(* Freezing shrinks every array (any of which may fail), discards the      *)
(* value-number table and only then marks the module.                      *)

(* Mutant: the mark is set before the arrays are shrunk.                   *)
FreezeFirst(m, fault) ==
  IF m.frozen THEN Reject(m, "BAD_ARG")
  ELSE IF fault = "shrink" THEN Reject([m EXCEPT !.frozen = TRUE], "OOM")
  ELSE Ret([value_number_clear(m) EXCEPT !.frozen = TRUE], "OK", INVALID)

xair_module_freeze(m, fault) ==
  IF m.frozen THEN Reject(m, "BAD_ARG")
  ELSE IF fault = "shrink" THEN Reject(m, "OOM")
  ELSE Ret([value_number_clear(m) EXCEPT !.frozen = TRUE], "OK", INVALID)
=============================================================================
