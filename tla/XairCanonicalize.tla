-------------------------- MODULE XairCanonicalize --------------------------
(***************************************************************************)
(* xair_canonicalize_module of src/src/xair.c: constant folding and        *)
(* operand ordering in one pass over the operations, then removal of dead  *)
(* values with renumbering.  Verification runs before and after.           *)
(***************************************************************************)
EXTENDS XairVerify, XairArith, SequencesExt

const_u64_value(m, v) ==
  IF /\ value_is_global_const(m, v)
     /\ is_int(TypeOf(m, v)) \/ is_addr(TypeOf(m, v))
     /\ TypeOf(m, v).bits <= 64
  THEN {truncate_to_type(m.ops[m.values[v].op].imm, TypeOf(m, v))}
  ELSE {}

FoldFlagRead(m, op) ==
  LET flags_op == m.ops[m.values[op.src[1]].op]
      operand == TypeOf(m, flags_op.src[1])
      rhs == IF flags_op.opcode = "FLAGS_LOGIC" THEN {0} ELSE const_u64_value(m, flags_op.src[2])
  IN  IF /\ valid_op(m, m.values[op.src[1]].op)
         /\ flags_op.opcode \in FlagPairs \cup {"FLAGS_LOGIC"}
         /\ is_int(operand)
      THEN UNION {compute_flag_extract(op.opcode, flags_op.opcode, operand.bits, x, y) :
                    x \in const_u64_value(m, flags_op.src[1]), y \in rhs}
      ELSE {}

(* The constant op stands for, as a set; {} when it does not fold.         *)
FoldedValue(m, op) ==
  LET out == TypeOf(m, op.dst)
  IN  CASE op.opcode \in FlagReads -> FoldFlagRead(m, op)
        [] op.opcode \in UnaryOps \ FlagReads ->
             UNION {FoldUnary(op.opcode, out, TypeOf(m, op.src[1]), x) :
                      x \in const_u64_value(m, op.src[1])}
        [] op.opcode \in BinaryOps ->
             UNION {FoldBinary(op.opcode, out, TypeOf(m, op.src[1]), TypeOf(m, op.src[2]), x, y) :
                      x \in const_u64_value(m, op.src[1]), y \in const_u64_value(m, op.src[2])}
        [] OTHER -> {}

fold_to_const(m, o, folded) ==
  IF folded = {} THEN m
  ELSE [m EXCEPT !.ops[o] = [@ EXCEPT !.opcode = "CONST_U64", !.src = <<>>, !.endian = "LE",
                                      !.imm = truncate_to_type(CHOOSE x \in folded : TRUE,
                                                               TypeOf(m, m.ops[o].dst))]]

fold_constant_op(m, o) == fold_to_const(m, o, FoldedValue(m, m.ops[o]))

KindRank(kind) ==
  CASE kind = "VOID" -> 1 [] kind = "INT" -> 2 [] kind = "ADDR" -> 3 [] kind = "FLAGS" -> 4
    [] kind = "MEM" -> 5 [] kind = "LABEL8" -> 6 [] kind = "LABELSET" -> 7

(* compare_value_order(lhs, rhs) > 0: constants go last, then type, then   *)
(* constant value, then name, then identifier.                             *)
OrderedAfter(m, lhs, rhs) ==
  LET value(c) == IF c = {} THEN 0 ELSE CHOOSE x \in c : TRUE
      keys(v, c) == <<bool_u64(c # {}), KindRank(TypeOf(m, v).kind), TypeOf(m, v).bits,
                      TypeOf(m, v).aux, value(c), m.values[v].name, v>>
      after(kl, kr) ==
        \E i \in 1 .. 7 : kl[i] > kr[i] /\ \A j \in 1 .. (i - 1) : kl[j] = kr[j]
  IN  after(keys(lhs, const_u64_value(m, lhs)), keys(rhs, const_u64_value(m, rhs)))

ReorderOperands(m, o) ==
  LET op == m.ops[o]
  IN  IF /\ Len(op.src) = 2 /\ op_is_commutative(op.opcode)
         /\ OrderedAfter(m, op.src[1], op.src[2])
      THEN [m EXCEPT !.ops[o].src = <<op.src[2], op.src[1]>>]
      ELSE m

(* Mutant: the pass goes from the last operation to the first.             *)
LastToFirst(m) ==
  LET pass[n \in 0 .. Len(m.ops)] ==
        IF n = 0 THEN m
        ELSE ReorderOperands(fold_constant_op(pass[n - 1], Len(m.ops) - n + 1),
                             Len(m.ops) - n + 1)
  IN  pass[Len(m.ops)]

(* One pass in operation order: an operation folds after its operands.     *)
canonicalize_local_ops(m) ==
  LET pass[n \in 0 .. Len(m.ops)] ==
        IF n = 0 THEN m ELSE ReorderOperands(fold_constant_op(pass[n - 1], n), n)
  IN  pass[Len(m.ops)]

-----------------------------------------------------------------------------
(* Dead values.                                                            *)

mark_term_live_values(m, b) ==
  CASE m.blocks[b].term.kind \in {"JUMP", "RETURN"} -> ElemsOf(TrueArgs(m, b))
    [] m.blocks[b].term.kind = "CBRANCH" ->
         {m.blocks[b].term.condition} \cup ElemsOf(TrueArgs(m, b)) \cup ElemsOf(FalseArgs(m, b))
    [] OTHER -> {}

SourcesOf(m, v) ==
  IF valid_op(m, m.values[v].op) THEN ElemsOf(m.ops[m.values[v].op].src) ELSE {}

(* Mutant: the sources of a live value are not followed.                   *)
RootsOnly(m, roots) == roots

(* mark_live_value: everything reachable from the roots through sources.   *)
mark_live_value(m, roots) ==
  LET reach[n \in 0 .. Len(m.values)] ==
        IF n = 0 THEN roots
        ELSE reach[n - 1] \cup UNION {SourcesOf(m, v) : v \in reach[n - 1]}
  IN  reach[Len(m.values)]

LiveValues(m) ==
  mark_live_value(m, UNION {ElemsOf(m.blocks[b].params) \cup mark_term_live_values(m, b) :
                              b \in 1 .. Len(m.blocks)})

(* The identifiers kept, in their new order: block by block, parameters    *)
(* first.  value_map and op_map are positions in these lists.              *)
KeptOps(m, b, live) ==
  LET kept(o) == IF m.ops[o].dst \in live THEN <<o>> ELSE <<>>
  IN  FlattenSeq([i \in 1 .. Len(m.blocks[b].ops) |-> kept(m.blocks[b].ops[i])])

DstsOf(m, ops) == [i \in 1 .. Len(ops) |-> m.ops[ops[i]].dst]

ConcatBlocks(m, part(_)) == FlattenSeq([b \in 1 .. Len(m.blocks) |-> part(b)])

ValueOrder(m, live) ==
  ConcatBlocks(m, LAMBDA b : m.blocks[b].params \o DstsOf(m, KeptOps(m, b, live)))
OpOrder(m, live) == ConcatBlocks(m, LAMBDA b : KeptOps(m, b, live))

MapTo(order, id) ==
  IF id \in ElemsOf(order) THEN CHOOSE i \in 1 .. Len(order) : order[i] = id ELSE INVALID
MapSeq(order, s) == [i \in 1 .. Len(s) |-> MapTo(order, s[i])]

ArgRange(offset, count) == (offset + 1) .. (offset + count)

(* remap_args rewrites in place the stretches of the pool that a           *)
(* terminator owns; the rest of the pool keeps its stale identifiers.      *)
remap_args(m, order) ==
  LET owned == UNION {LET t == m.blocks[b].term
                      IN  CASE t.kind \in {"JUMP", "RETURN"} ->
                                 ArgRange(t.true_arg_offset, t.true_arg_count)
                            [] t.kind = "CBRANCH" ->
                                 ArgRange(t.true_arg_offset, t.true_arg_count)
                                   \cup ArgRange(t.false_arg_offset, t.false_arg_count)
                            [] OTHER -> {} : b \in 1 .. Len(m.blocks)}
  IN  [i \in 1 .. Len(m.term_args) |->
         IF i \in owned THEN MapTo(order, m.term_args[i]) ELSE m.term_args[i]]

RemapBlock(m, b, values, ops, live) ==
  [m.blocks[b] EXCEPT
     !.params = MapSeq(values, @),
     !.ops = MapSeq(ops, KeptOps(m, b, live)),
     !.term.condition = IF m.blocks[b].term.kind = "CBRANCH" THEN MapTo(values, @) ELSE @]

Renumber(m, live, values, ops, fault) ==
  IF fault = "maps" THEN Reject(m, "OOM")
  ELSE IF Len(values) = Len(m.values) /\ Len(ops) = Len(m.ops) THEN Ret(m, "OK", INVALID)
  ELSE IF fault = "arrays" THEN Reject(m, "OOM")
  ELSE Ret([m EXCEPT
              !.values = [i \in 1 .. Len(values) |->
                            [m.values[values[i]] EXCEPT !.op = MapTo(ops, @)]],
              !.ops = [i \in 1 .. Len(ops) |->
                         [m.ops[ops[i]] EXCEPT !.dst = MapTo(values, @),
                                               !.src = MapSeq(values, @)]],
              !.blocks = [b \in 1 .. Len(m.blocks) |-> RemapBlock(m, b, values, ops, live)],
              !.term_args = remap_args(m, values)],
           "OK", INVALID)

compact_live_values(m, live, fault) ==
  Renumber(m, live, ValueOrder(m, live), OpOrder(m, live), fault)

eliminate_dead_values(m, fault) ==
  IF fault = "live" THEN Reject(m, "OOM") ELSE compact_live_values(m, LiveValues(m), fault)

CanonFaults == {"none", "verify", "live", "maps", "arrays", "verify_again"}

VerifyAgain(r, fault) ==
  IF r.status # "OK" THEN Reject(r.m, r.status)
  ELSE IF fault = "verify_again" /\ r.m.blocks # <<>> THEN Reject(r.m, "OOM")
  ELSE IF ~xair_verify_module(r.m) THEN Reject(r.m, "VERIFY")
  ELSE Ret(r.m, "OK", INVALID)

xair_canonicalize_module(m, fault) ==
  IF m.frozen THEN Reject(m, "BAD_ARG")
  ELSE IF fault = "verify" /\ m.blocks # <<>> THEN Reject(m, "OOM")
  ELSE IF ~xair_verify_module(m) THEN Reject(m, "VERIFY")
  ELSE VerifyAgain(eliminate_dead_values(canonicalize_local_ops(value_number_clear(m)), fault),
                   fault)
=============================================================================
