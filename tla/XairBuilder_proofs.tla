------------------------- MODULE XairBuilder_proofs -------------------------
(***************************************************************************)
(* The tables of a module stay consistent for every client: any number of  *)
(* calls, any arguments, any allocation failing anywhere.                  *)
(*                                                                         *)
(* Every call is first reduced to one of a few changes of the module (the  *)
(* lemmas named after the functions of xair.c, roll-backs included).  The  *)
(* invariants are then proved change by change.                            *)
(***************************************************************************)
EXTENDS XairBuilder, TLAPS

-----------------------------------------------------------------------------
(* The changes a call can make to a module a, giving n.                    *)

(* Nothing but the pool grows, and not even that once frozen.              *)
(* The argument pool at most grows.                                        *)
PoolKept(a, n) ==
  /\ Len(a.term_args) <= Len(n.term_args)
  /\ \A i \in 1 .. Len(a.term_args) : n.term_args[i] = a.term_args[i]

Keeps(a, n) ==
  /\ n \in Modules
  /\ n.values = a.values /\ n.ops = a.ops /\ n.blocks = a.blocks
  /\ n.frozen = a.frozen /\ n.vn = a.vn
  /\ Len(a.term_args) <= Len(n.term_args) /\ PoolKept(a, n)
  /\ a.frozen => n = a

EmptyBlock == [params |-> <<>>, ops |-> <<>>, term |-> NoTerm]

AddsBlock(a, n) ==
  /\ n \in Modules /\ ~a.frozen
  /\ n.blocks = Append(a.blocks, EmptyBlock)
  /\ n.values = a.values /\ n.ops = a.ops /\ n.frozen = a.frozen /\ n.vn = a.vn
  /\ n.term_args = a.term_args

Open(a, b) == ~a.frozen /\ valid_block(a, b) /\ a.blocks[b].term.kind = "NONE"

AddsParam(a, n, b, value) ==
  /\ n \in Modules /\ Open(a, b)
  /\ value \in ValueRecs /\ is_value_type(value.type) /\ value.block = b /\ value.op = INVALID
  /\ n.values = Append(a.values, value)
  /\ n.blocks = [a.blocks EXCEPT ![b].params = Append(@, Len(a.values) + 1)]
  /\ n.ops = a.ops /\ n.frozen = a.frozen /\ n.vn = a.vn /\ n.term_args = a.term_args

AddsOp(a, n, b, value, op) ==
  /\ n \in Modules /\ Open(a, b)
  /\ value \in ValueRecs /\ is_value_type(value.type)
  /\ value.block = b /\ value.op = Len(a.ops) + 1
  /\ op \in OpRecs /\ op.dst = Len(a.values) + 1
  /\ \A i \in 1 .. Len(op.src) : valid_value(a, op.src[i])
  /\ value_number_lookup(a, b, op.opcode, value.type, op.src, op.imm, op.endian) = {}
  /\ n.values = Append(a.values, value)
  /\ n.ops = Append(a.ops, op)
  /\ n.blocks = [a.blocks EXCEPT ![b].ops = Append(@, Len(a.ops) + 1)]
  /\ n.frozen = a.frozen /\ n.vn = a.vn \cup {op.dst} /\ n.term_args = a.term_args

(* The stretches of the argument pool a terminator names.                  *)
TrueSpan(term) == (term.true_arg_offset + 1) .. (term.true_arg_offset + term.true_arg_count)
FalseSpan(term) == (term.false_arg_offset + 1) .. (term.false_arg_offset + term.false_arg_count)
Spans(term) == TrueSpan(term) \cup FalseSpan(term)

(* They lie apart, in what the call itself added to the pool.              *)
OwnSpans(a, n, term) ==
  /\ Len(a.term_args) <= Len(n.term_args)
  /\ Spans(term) \subseteq (Len(a.term_args) + 1) .. Len(n.term_args)
  /\ TrueSpan(term) \cap FalseSpan(term) = {}

AddsTerm(a, n, b, term) ==
  /\ n \in Modules /\ Open(a, b)
  /\ term \in TermRecs /\ term.kind # "NONE" /\ OwnSpans(a, n, term) /\ PoolKept(a, n)
  /\ n.blocks = [a.blocks EXCEPT ![b].term = term]
  /\ n.values = a.values /\ n.ops = a.ops /\ n.frozen = a.frozen /\ n.vn = a.vn

Freezes(a, n) ==
  /\ n \in Modules /\ ~a.frozen /\ n.frozen /\ n.vn = {}
  /\ n.values = a.values /\ n.ops = a.ops /\ n.blocks = a.blocks
  /\ n.term_args = a.term_args

Changes(a, n) ==
  \/ Keeps(a, n)
  \/ AddsBlock(a, n)
  \/ \E b, value : AddsParam(a, n, b, value)
  \/ \E b, value, op : AddsOp(a, n, b, value, op)
  \/ \E b, term : AddsTerm(a, n, b, term)
  \/ Freezes(a, n)

(* A call on a returned r: one of the changes, or an error and none.       *)
Effect(a, r) ==
  /\ r.status \in Statuses
  /\ r.status = "OK" => Changes(a, r.m)
  /\ r.status # "OK" => Keeps(a, r.m)

-----------------------------------------------------------------------------
(* Sequences.                                                              *)

LEMMA DropAppended ==
  ASSUME NEW S, NEW s \in Seq(S), NEW x
  PROVE  DropLast(Append(s, x)) = s
  BY DEF DropLast

LEMMA UpdateSeq ==
  ASSUME NEW S, NEW s \in Seq(S), NEW i \in 1 .. Len(s), NEW x \in S
  PROVE  /\ [s EXCEPT ![i] = x] \in Seq(S)
         /\ Len([s EXCEPT ![i] = x]) = Len(s)
         /\ \A j \in 1 .. Len(s) : [s EXCEPT ![i] = x][j] = IF j = i THEN x ELSE s[j]
  OBVIOUS

LEMMA ModuleShape ==
  ASSUME NEW a \in Modules
  PROVE  /\ a.values \in Seq(ValueRecs) /\ a.ops \in Seq(OpRecs) /\ a.blocks \in Seq(BlockRecs)
         /\ a.term_args \in Seq(Nat) /\ a.vn \in SUBSET Nat /\ a.frozen \in BOOLEAN
         /\ Len(a.values) \in Nat /\ Len(a.ops) \in Nat /\ Len(a.blocks) \in Nat
         /\ Len(a.term_args) \in Nat
  BY DEF Modules

LEMMA BlockShape ==
  ASSUME NEW a \in Modules, NEW b, valid_block(a, b)
  PROVE  a.blocks[b] \in BlockRecs
  BY ModuleShape DEF valid_block

-----------------------------------------------------------------------------
(* Calls.                                                                  *)

LEMMA KeepsSelf ==
  ASSUME NEW a \in Modules
  PROVE  Keeps(a, a)
  BY ModuleShape DEF Keeps, PoolKept

LEMMA BlockCreateChange ==
  ASSUME NEW a \in Modules, NEW fault, NEW r, r = xair_block_create(a, fault)
  PROVE  Effect(a, r)
  <1>1. EmptyBlock \in BlockRecs
    BY DEF EmptyBlock, BlockRecs, NoTerm, TermRecs, TermKinds, INVALID
  <1>2. Append(a.blocks, EmptyBlock) \in Seq(BlockRecs)
    BY <1>1, ModuleShape
  <1>3. [a EXCEPT !.blocks = Append(a.blocks, EmptyBlock)] \in Modules
    BY <1>2 DEF Modules
  <1> QED
    BY <1>3, KeepsSelf
    DEF xair_block_create, Ret, Reject, Statuses, AddsBlock, EmptyBlock, Modules, Effect, Changes

(* What add_value appends.                                                 *)
NewValue(a, b, type, name) ==
  [type |-> type, block |-> b, op |-> INVALID, name |-> copy_name(name, Len(a.values) + 1)]

WithValue(a, value) == [a EXCEPT !.values = Append(@, value)]

ValueAdded(a, b, type, value, r) ==
  /\ r.status \in Statuses
  /\ r.status # "OK" => r.m = a
  /\ r.status = "OK" => /\ ~a.frozen /\ valid_block(a, b) /\ is_value_type(type)
                        /\ r.out = Len(a.values) + 1
                        /\ value \in ValueRecs
                        /\ r.m = WithValue(a, value)

LEMMA AddValueChange ==
  ASSUME NEW a \in Modules, NEW b, NEW type \in Types, NEW name \in Nat, NEW fault
  PROVE  ValueAdded(a, b, type, NewValue(a, b, type, name), add_value(a, b, type, name, fault))
  <1>1. copy_name(name, Len(a.values) + 1) \in Nat
    BY ModuleShape DEF copy_name, DefaultName
  <1>2. valid_block(a, b) => b \in Nat
    BY ModuleShape DEF valid_block
  <1>3. valid_block(a, b) => NewValue(a, b, type, name) \in ValueRecs
    BY <1>1, <1>2 DEF ValueRecs, INVALID, NewValue
  <1> QED BY <1>3 DEF add_value, Ret, Reject, Statuses, NewValue, WithValue, ValueAdded

(* value_count-- restores the module.                                      *)
LEMMA ValueUndone ==
  ASSUME NEW a \in Modules, NEW value
  PROVE  UndoValue(WithValue(a, value)) = a
  <1>1. DropLast(Append(a.values, value)) = a.values
    BY DropAppended, ModuleShape
  <1>2. UndoValue(WithValue(a, value)) = [WithValue(a, value) EXCEPT !.values = a.values]
    BY <1>1 DEF UndoValue, WithValue, Modules
  <1> QED BY <1>2 DEF WithValue, Modules

(* The changes of one field of one block.                                  *)
WithParam(a, b, k) == [a.blocks EXCEPT ![b].params = Append(@, k)]
WithOp(a, b, k) == [a.blocks EXCEPT ![b].ops = Append(@, k)]
WithTerm(a, b, term) == [a.blocks EXCEPT ![b].term = term]

LEMMA BlockUpdates ==
  ASSUME NEW a \in Modules, NEW b, valid_block(a, b)
  PROVE  /\ \A k \in Nat : WithParam(a, b, k) \in Seq(BlockRecs)
         /\ \A k \in Nat : WithOp(a, b, k) \in Seq(BlockRecs)
         /\ \A term \in TermRecs : WithTerm(a, b, term) \in Seq(BlockRecs)
  <1>1. a.blocks \in Seq(BlockRecs) /\ b \in 1 .. Len(a.blocks) /\ a.blocks[b] \in BlockRecs
    BY ModuleShape, BlockShape DEF valid_block
  <1>2. a.blocks[b].params \in Seq(Nat) /\ a.blocks[b].ops \in Seq(Nat)
    BY <1>1 DEF BlockRecs
  <1>3. ASSUME NEW k \in Nat
        PROVE  WithParam(a, b, k) \in Seq(BlockRecs) /\ WithOp(a, b, k) \in Seq(BlockRecs)
    <2>1. Append(a.blocks[b].params, k) \in Seq(Nat) /\ Append(a.blocks[b].ops, k) \in Seq(Nat)
      BY <1>2
    <2>2. /\ [a.blocks[b] EXCEPT !.params = Append(@, k)] \in BlockRecs
          /\ [a.blocks[b] EXCEPT !.ops = Append(@, k)] \in BlockRecs
      BY <1>1, <2>1 DEF BlockRecs
    <2> QED BY <1>1, <2>2, UpdateSeq DEF WithParam, WithOp
  <1>4. ASSUME NEW term \in TermRecs
        PROVE  WithTerm(a, b, term) \in Seq(BlockRecs)
    <2>1. [a.blocks[b] EXCEPT !.term = term] \in BlockRecs
      BY <1>1 DEF BlockRecs
    <2> QED BY <1>1, <2>1, UpdateSeq DEF WithTerm
  <1> QED BY <1>3, <1>4

LEMMA AddParamChange ==
  ASSUME NEW a \in Modules, NEW b, NEW type \in Types, NEW name \in Nat, NEW fault,
         NEW r, r = xair_block_add_param(a, b, type, name, fault)
  PROVE  Effect(a, r)
  <1>1. PICK added : added = add_value(a, b, type, name, fault)
    OBVIOUS
  <1>2. PICK value : value = NewValue(a, b, type, name)
    OBVIOUS
  <1>3. ValueAdded(a, b, type, value, added)
    BY <1>1, <1>2, AddValueChange
  <1>4. CASE valid_block(a, b) /\ added.status = "OK" /\ a.blocks[b].term.kind = "NONE"
    <2>1. PICK blocks : blocks = WithParam(a, b, Len(a.values) + 1)
      OBVIOUS
    <2>2. PICK n : n = [added.m EXCEPT !.blocks[b].params = Append(@, added.out)]
      OBVIOUS
    <2>3. blocks \in Seq(BlockRecs)
      <3>1. PICK k \in Nat : k = Len(a.values) + 1
        BY ModuleShape
      <3>2. WithParam(a, b, k) \in Seq(BlockRecs)
        BY <1>4, BlockUpdates
      <3> QED BY <2>1, <3>1, <3>2
    <2>4. Append(a.values, value) \in Seq(ValueRecs)
      BY <1>3, <1>4, ModuleShape DEF ValueAdded
    <2>5. n = [a EXCEPT !.values = Append(a.values, value), !.blocks = blocks]
      BY <1>3, <1>4, <2>1, <2>2 DEF Modules, WithParam, WithValue, ValueAdded
    <2>6. n \in Modules /\ n.values = Append(a.values, value) /\ n.blocks = blocks
          /\ n.ops = a.ops /\ n.frozen = a.frozen /\ n.vn = a.vn /\ n.term_args = a.term_args
      BY <2>3, <2>4, <2>5 DEF Modules
    <2>7. value.type = type /\ value.block = b /\ value.op = INVALID
      BY <1>2 DEF NewValue
    <2>8. AddsParam(a, n, b, value)
      BY <1>3, <1>4, <2>1, <2>6, <2>7 DEF AddsParam, Open, WithParam, ValueAdded
    <2>9. UndoValue(added.m) = a
      BY <1>3, <1>4, ValueUndone DEF ValueAdded
    <2>10. r = IF fault = "params" THEN Reject(a, "OOM") ELSE Ret(n, "OK", added.out)
      BY <1>1, <1>3, <1>4, <2>2, <2>9 DEF xair_block_add_param, ValueAdded
    <2> QED BY <2>8, <2>10, KeepsSelf DEF Ret, Reject, Statuses, Effect, Changes
  <1>5. CASE ~(valid_block(a, b) /\ added.status = "OK" /\ a.blocks[b].term.kind = "NONE")
    <2>1. r.m = a /\ r.status \in Statuses \ {"OK"}
      BY <1>1, <1>3, <1>5 DEF xair_block_add_param, Reject, Ret, Statuses, ValueAdded
    <2> QED BY <2>1, KeepsSelf DEF Effect
  <1> QED BY <1>4, <1>5

LEMMA OpField ==
  ASSUME NEW value \in ValueRecs, NEW k \in Nat
  PROVE  [value EXCEPT !.op = k] \in ValueRecs
  BY DEF ValueRecs

(* op_count--, value_count-- and the cut back link restore the module.     *)
LEMMA OpUndone ==
  ASSUME NEW a \in Modules, NEW value \in ValueRecs, NEW op, op.dst = Len(a.values) + 1
  PROVE  UndoValue(UndoOp(LinkOp(WithValue(a, value), op), op.dst)) = a
  <1>1. PICK k : k = Len(a.values) + 1
    OBVIOUS
  <1>2. PICK values : values = Append(a.values, value)
    OBVIOUS
  <1>3. PICK linked : linked = [values EXCEPT ![k].op = Len(a.ops) + 1]
    OBVIOUS
  <1>4. PICK cut : cut = [linked EXCEPT ![k].op = INVALID]
    OBVIOUS
  <1>5. /\ values \in Seq(ValueRecs) /\ Len(values) = k /\ k \in 1 .. k
        /\ \A i \in 1 .. (k - 1) : values[i] = a.values[i]
    BY <1>1, <1>2, ModuleShape
  <1>6. /\ linked \in Seq(ValueRecs) /\ Len(linked) = k
        /\ \A i \in 1 .. (k - 1) : linked[i] = values[i]
    <2>1. values[k] \in ValueRecs
      BY <1>5
    <2>2. PICK o \in Nat : o = Len(a.ops) + 1
      BY ModuleShape
    <2>3. [values[k] EXCEPT !.op = o] \in ValueRecs
      BY <2>1, OpField
    <2> QED BY <1>3, <1>5, <2>2, <2>3, UpdateSeq
  <1>7. /\ cut \in Seq(ValueRecs) /\ Len(cut) = k
        /\ \A i \in 1 .. (k - 1) : cut[i] = linked[i]
    <2>1. linked[k] \in ValueRecs
      BY <1>5, <1>6
    <2>2. [linked[k] EXCEPT !.op = INVALID] \in ValueRecs
      BY <2>1, OpField DEF INVALID
    <2> QED BY <1>4, <1>5, <1>6, <2>2, UpdateSeq
  <1>8. DropLast(cut) = a.values
    BY <1>1, <1>5, <1>6, <1>7, ModuleShape DEF DropLast
  <1>9. DropLast(Append(a.ops, op)) = a.ops
    BY DropAppended, ModuleShape
  <1>10. PICK added : added = WithValue(a, value)
    OBVIOUS
  <1>11. LinkOp(added, op) = [a EXCEPT !.values = linked, !.ops = Append(a.ops, op)]
    BY <1>1, <1>2, <1>3, <1>10 DEF LinkOp, WithValue, Modules
  <1>12. UndoOp(LinkOp(added, op), op.dst)
           = [a EXCEPT !.values = cut, !.ops = DropLast(Append(a.ops, op))]
    BY <1>1, <1>4, <1>11 DEF UndoOp, Modules
  <1>13. UndoValue(UndoOp(LinkOp(added, op), op.dst))
           = [a EXCEPT !.values = DropLast(cut), !.ops = a.ops]
    BY <1>9, <1>12 DEF UndoValue, Modules
  <1> QED BY <1>8, <1>10, <1>13 DEF Modules

(* The module after a successful add_op.                                   *)
OpAppended(a, n, b, value, op) ==
  /\ n \in Modules
  /\ n.values = Append(a.values, value)
  /\ n.ops = Append(a.ops, op)
  /\ n.blocks = WithOp(a, b, Len(a.ops) + 1)
  /\ n.frozen = a.frozen /\ n.vn = a.vn \cup {op.dst} /\ n.term_args = a.term_args

LEMMA OpBuilt ==
  ASSUME NEW a \in Modules, NEW b, valid_block(a, b), NEW value \in ValueRecs,
         NEW op \in OpRecs, op.dst = Len(a.values) + 1,
         NEW n, n = value_number_insert(append_op(LinkOp(WithValue(a, value), op), b), op.dst)
  PROVE  OpAppended(a, n, b, [value EXCEPT !.op = Len(a.ops) + 1], op)
  <1>1. PICK o \in Nat : o = Len(a.ops) + 1
    BY ModuleShape
  <1>2. PICK numbered : numbered = [value EXCEPT !.op = o]
    OBVIOUS
  <1>3. PICK blocks : blocks = WithOp(a, b, o)
    OBVIOUS
  <1>4. PICK values : values = Append(a.values, numbered)
    OBVIOUS
  <1>5. PICK ops : ops = Append(a.ops, op)
    OBVIOUS
  <1>6. numbered \in ValueRecs
    BY <1>2, OpField
  <1>7. values \in Seq(ValueRecs) /\ blocks \in Seq(BlockRecs)
    BY <1>3, <1>4, <1>6, ModuleShape, BlockUpdates
  <1>8. ops \in Seq(OpRecs) /\ Len(ops) = o
    BY <1>1, <1>5, ModuleShape
  <1>9. [Append(a.values, value) EXCEPT ![op.dst].op = o] = values
    <2>1. PICK base : base = Append(a.values, value)
      OBVIOUS
    <2>2. /\ base \in Seq(ValueRecs) /\ Len(base) = op.dst
          /\ op.dst \in 1 .. Len(base) /\ base[op.dst] = value
      BY <2>1, ModuleShape
    <2>3. PICK x : x = [base EXCEPT ![op.dst] = numbered]
      OBVIOUS
    <2>4. /\ x \in Seq(ValueRecs) /\ Len(x) = op.dst
          /\ \A j \in 1 .. op.dst : x[j] = IF j = op.dst THEN numbered ELSE base[j]
      BY <1>6, <2>2, <2>3, UpdateSeq
    <2>5. /\ values \in Seq(ValueRecs) /\ Len(values) = op.dst
          /\ \A j \in 1 .. op.dst : values[j] = IF j = op.dst THEN numbered ELSE base[j]
      BY <1>4, <1>6, <2>1, ModuleShape
    <2>6. x = values
      BY <2>4, <2>5
    <2> QED BY <1>2, <2>1, <2>2, <2>3, <2>6
  <1>10. LinkOp(WithValue(a, value), op) = [a EXCEPT !.values = values, !.ops = ops]
    BY <1>1, <1>5, <1>9 DEF LinkOp, WithValue, Modules
  <1>11. append_op(LinkOp(WithValue(a, value), op), b)
           = [a EXCEPT !.values = values, !.ops = ops, !.blocks = blocks]
    BY <1>3, <1>8, <1>10 DEF append_op, WithOp, Modules
  <1>12. n = [a EXCEPT !.values = values, !.ops = ops, !.blocks = blocks,
                       !.vn = a.vn \cup {op.dst}]
    BY <1>11 DEF value_number_insert, Modules
  <1>13. a.vn \cup {op.dst} \in SUBSET Nat
    BY ModuleShape
  <1>14. /\ n \in Modules
         /\ n.values = values /\ n.ops = ops /\ n.blocks = blocks
         /\ n.frozen = a.frozen /\ n.vn = a.vn \cup {op.dst} /\ n.term_args = a.term_args
    BY <1>7, <1>8, <1>12, <1>13 DEF Modules
  <1> QED BY <1>1, <1>2, <1>3, <1>4, <1>5, <1>14 DEF OpAppended

LEMMA AddOpChange ==
  ASSUME NEW a \in Modules, NEW b, NEW opcode \in Opcodes, NEW type \in Types,
         NEW srcs \in Seq(Nat), \A i \in 1 .. Len(srcs) : valid_value(a, srcs[i]),
         NEW imm \in Nat, NEW endian \in Endians, NEW name \in Nat, NEW fault,
         NEW r, r = add_op(a, b, opcode, type, srcs, imm, endian, name, fault)
  PROVE  Effect(a, r)
  <1>1. PICK added : added = add_value(a, b, type, name, fault)
    OBVIOUS
  <1>2. PICK value : value = NewValue(a, b, type, name)
    OBVIOUS
  <1>3. PICK op : op = [opcode |-> opcode, dst |-> added.out, src |-> srcs,
                        imm |-> imm, endian |-> endian]
    OBVIOUS
  <1>4. PICK known : known = value_number_lookup(a, b, opcode, type, srcs, imm, endian)
    OBVIOUS
  <1>5. ValueAdded(a, b, type, value, added)
    BY <1>1, <1>2, AddValueChange
  <1>6. CASE Open(a, b) /\ Len(a.ops) < MaxId /\ known = {} /\ added.status = "OK"
    <2>1. /\ added.out = Len(a.values) + 1 /\ is_value_type(type) /\ value \in ValueRecs
          /\ valid_block(a, b) /\ added.m = WithValue(a, value)
      BY <1>5, <1>6 DEF ValueAdded
    <2>2. op.dst = Len(a.values) + 1 /\ op.dst \in Nat
      BY <1>3, <2>1, ModuleShape
    <2>3. op \in OpRecs
      BY <1>3, <2>1, <2>2 DEF OpRecs
    <2>4. PICK n : n = value_number_insert(append_op(LinkOp(added.m, op), b), op.dst)
      OBVIOUS
    <2>5. PICK numbered : numbered = [value EXCEPT !.op = Len(a.ops) + 1]
      OBVIOUS
    <2>6. OpAppended(a, n, b, numbered, op)
      BY <2>1, <2>2, <2>3, <2>4, <2>5, OpBuilt
    <2>7. numbered \in ValueRecs
      <3>1. PICK o \in Nat : o = Len(a.ops) + 1
        BY ModuleShape
      <3> QED BY <2>1, <2>5, <3>1, OpField
    <2>8. numbered.type = type /\ numbered.block = b /\ numbered.op = Len(a.ops) + 1
      BY <1>2, <2>5 DEF NewValue
    <2>9. op.src = srcs /\ op.opcode = opcode /\ op.imm = imm /\ op.endian = endian
      BY <1>3
    <2>10. AddsOp(a, n, b, numbered, op)
      BY <1>4, <1>6, <2>1, <2>2, <2>3, <2>6, <2>7, <2>8, <2>9
      DEF AddsOp, OpAppended, WithOp
    <2>11. Changes(a, n)
      BY <2>10 DEF Changes
    <2>12. UndoValue(added.m) = a
      BY <2>1, ValueUndone
    <2>13. UndoValue(UndoOp(LinkOp(added.m, op), op.dst)) = a
      BY <2>1, <2>2, OpUndone
    <2>14. op.dst = added.out
      BY <1>3
    <2>15. ~(Len(a.ops) >= MaxId)
      BY <1>6, ModuleShape, MaxIdAssumption
    <2>16. r = BuildOp(a, b, opcode, type, srcs, imm, endian, name, fault)
      BY <1>4, <1>6, <2>15 DEF add_op, Open
    <2>17. r = IF fault \in {"vn", "ops", "block_ops"} THEN Reject(a, "OOM")
               ELSE Ret(n, "OK", added.out)
      BY <1>1, <1>3, <1>6, <2>4, <2>12, <2>13, <2>14, <2>16 DEF BuildOp
    <2> QED BY <2>11, <2>17, KeepsSelf DEF Ret, Reject, Statuses, Effect
  <1>7. CASE Open(a, b) /\ Len(a.ops) < MaxId /\ known = {} /\ added.status # "OK"
    <2>1. ~(Len(a.ops) >= MaxId)
      BY <1>7, ModuleShape, MaxIdAssumption
    <2>2. r = BuildOp(a, b, opcode, type, srcs, imm, endian, name, fault)
      BY <1>4, <1>7, <2>1 DEF add_op, Open
    <2>3. r = IF fault = "vn" THEN Reject(a, "OOM") ELSE Reject(added.m, added.status)
      BY <1>1, <1>7, <2>2 DEF BuildOp
    <2> QED BY <1>5, <1>7, <2>3, KeepsSelf DEF Ret, Reject, Statuses, Effect, ValueAdded
  <1>8. CASE Open(a, b) /\ Len(a.ops) < MaxId /\ known # {}
    <2>1. ~(Len(a.ops) >= MaxId)
      BY <1>8, ModuleShape, MaxIdAssumption
    <2>2. r.m = a /\ r.status = "OK"
      BY <1>4, <1>8, <2>1 DEF add_op, Open, Ret
    <2> QED BY <2>2, KeepsSelf DEF Statuses, Effect, Changes
  <1>9. CASE ~(Open(a, b) /\ Len(a.ops) < MaxId)
    <2>1. ~(Len(a.ops) < MaxId) => Len(a.ops) >= MaxId
      BY ModuleShape, MaxIdAssumption
    <2>2. r.m = a /\ r.status \in {"BAD_ARG", "RANGE"}
      BY <1>9, <2>1 DEF add_op, Open, Ret, Reject
    <2> QED BY <2>2, KeepsSelf DEF Statuses, Effect
  <1> QED BY <1>6, <1>7, <1>8, <1>9

LEMMA Refused ==
  ASSUME NEW a \in Modules
  PROVE  Effect(a, Reject(a, "BAD_ARG"))
  BY KeepsSelf DEF Reject, Ret, Statuses, Effect

LEMMA BuildConstChange ==
  ASSUME NEW a \in Modules, NEW b, NEW type \in Types, NEW imm \in Nat, NEW name \in Nat, NEW fault
  PROVE  Effect(a, xair_build_const_u64(a, b, type, imm, name, fault))
  <1>1. PICK srcs : srcs = <<>>
    OBVIOUS
  <1>2. srcs \in Seq(Nat) /\ \A i \in 1 .. Len(srcs) : valid_value(a, srcs[i])
    BY <1>1
  <1>3. "CONST_U64" \in Opcodes /\ "LE" \in Endians
    BY DEF Opcodes, Endians
  <1>4. Effect(a, add_op(a, b, "CONST_U64", type, srcs, imm, "LE", name, fault))
    BY <1>2, <1>3, AddOpChange
  <1> QED BY <1>1, <1>4, Refused DEF xair_build_const_u64

LEMMA BuildUnaryChange ==
  ASSUME NEW a \in Modules, NEW b, NEW opcode \in Opcodes, NEW type \in Types, NEW src \in Nat,
         NEW name \in Nat, NEW fault
  PROVE  Effect(a, xair_build_unary(a, b, opcode, type, src, name, fault))
  <1>1. CASE valid_value(a, src)
    <2>1. PICK srcs : srcs = <<src>>
      OBVIOUS
    <2>2. srcs \in Seq(Nat) /\ \A i \in 1 .. Len(srcs) : valid_value(a, srcs[i])
      BY <1>1, <2>1
    <2>3. "LE" \in Endians /\ 0 \in Nat
      BY DEF Endians
    <2>4. Effect(a, add_op(a, b, opcode, type, srcs, 0, "LE", name, fault))
      BY <2>2, <2>3, AddOpChange
    <2> QED BY <1>1, <2>1, <2>4 DEF xair_build_unary
  <1>2. CASE ~valid_value(a, src)
    BY <1>2, Refused DEF xair_build_unary
  <1> QED BY <1>1, <1>2

LEMMA BuildBinaryChange ==
  ASSUME NEW a \in Modules, NEW b, NEW opcode \in Opcodes, NEW type \in Types,
         NEW lhs \in Nat, NEW rhs \in Nat, NEW name \in Nat, NEW fault
  PROVE  Effect(a, xair_build_binary(a, b, opcode, type, lhs, rhs, name, fault))
  <1>1. CASE valid_value(a, lhs) /\ valid_value(a, rhs)
    <2>1. PICK srcs : srcs = <<lhs, rhs>>
      OBVIOUS
    <2>2. srcs \in Seq(Nat) /\ \A i \in 1 .. Len(srcs) : valid_value(a, srcs[i])
      BY <1>1, <2>1
    <2>3. "LE" \in Endians /\ 0 \in Nat
      BY DEF Endians
    <2>4. Effect(a, add_op(a, b, opcode, type, srcs, 0, "LE", name, fault))
      BY <2>2, <2>3, AddOpChange
    <2> QED BY <1>1, <2>1, <2>4 DEF xair_build_binary
  <1>2. CASE ~(valid_value(a, lhs) /\ valid_value(a, rhs))
    BY <1>2, Refused DEF xair_build_binary
  <1> QED BY <1>1, <1>2

LEMMA BuildLoadChange ==
  ASSUME NEW a \in Modules, NEW b, NEW type \in Types, NEW memory \in Nat, NEW address \in Nat,
         NEW endian \in Endians, NEW name \in Nat, NEW fault
  PROVE  Effect(a, xair_build_load(a, b, type, memory, address, endian, name, fault))
  <1>1. CASE valid_value(a, memory) /\ valid_value(a, address)
    <2>1. PICK srcs : srcs = <<memory, address>>
      OBVIOUS
    <2>2. srcs \in Seq(Nat) /\ \A i \in 1 .. Len(srcs) : valid_value(a, srcs[i])
      BY <1>1, <2>1
    <2>3. "LOAD" \in Opcodes /\ 0 \in Nat
      BY DEF Opcodes
    <2>4. Effect(a, add_op(a, b, "LOAD", type, srcs, 0, endian, name, fault))
      BY <2>2, <2>3, AddOpChange
    <2> QED BY <1>1, <2>1, <2>4 DEF xair_build_load
  <1>2. CASE ~(valid_value(a, memory) /\ valid_value(a, address))
    BY <1>2, Refused DEF xair_build_load
  <1> QED BY <1>1, <1>2

LEMMA BuildStoreChange ==
  ASSUME NEW a \in Modules, NEW b, NEW memory \in Nat, NEW address \in Nat, NEW data \in Nat,
         NEW endian \in Endians, NEW name \in Nat, NEW fault
  PROVE  Effect(a, xair_build_store(a, b, memory, address, data, endian, name, fault))
  <1>1. CASE \A v \in {memory, address, data} : valid_value(a, v)
    <2>1. PICK srcs : srcs = <<memory, address, data>>
      OBVIOUS
    <2>2. srcs \in Seq(Nat) /\ \A i \in 1 .. Len(srcs) : valid_value(a, srcs[i])
      BY <1>1, <2>1
    <2>3. "STORE" \in Opcodes /\ 0 \in Nat
      BY DEF Opcodes
    <2>4. PICK type : type = a.values[memory].type
      OBVIOUS
    <2>5. type \in Types
      <3>1. a.values[memory] \in ValueRecs
        BY <1>1, ModuleShape DEF valid_value
      <3> QED BY <2>4, <3>1 DEF ValueRecs
    <2>6. Effect(a, add_op(a, b, "STORE", type, srcs, 0, endian, name, fault))
      BY <2>2, <2>3, <2>5, AddOpChange
    <2> QED BY <1>1, <2>1, <2>4, <2>6 DEF xair_build_store
  <1>2. CASE ~(\A v \in {memory, address, data} : valid_value(a, v))
    BY <1>2, Refused DEF xair_build_store
  <1> QED BY <1>1, <1>2

-----------------------------------------------------------------------------
(* Terminators: only the pool has grown by the time set_term is reached.   *)

Pooled(a, n) ==
  /\ n \in Modules
  /\ n.values = a.values /\ n.ops = a.ops /\ n.blocks = a.blocks
  /\ n.frozen = a.frozen /\ n.vn = a.vn
  /\ Len(a.term_args) <= Len(n.term_args) /\ PoolKept(a, n)

(* What append_term_args, called on p, leaves of the module a that the     *)
(* terminator call began with.                                             *)
ArgsPut(a, p, args, r) ==
  /\ r.status \in Statuses /\ Pooled(a, r.m) /\ r.out \in Nat
  /\ r.status = "OK" => /\ r.out = Len(p.term_args)
                        /\ Len(r.m.term_args) = r.out + Len(args)

LEMMA AppendTermArgs ==
  ASSUME NEW a \in Modules, NEW p \in Modules, Pooled(a, p), NEW args \in Seq(Nat),
         NEW null, NEW oom
  PROVE  ArgsPut(a, p, args, append_term_args(p, args, null, oom))
  <1>1. PICK pool : pool = p.term_args \o args
    OBVIOUS
  <1>2. pool \in Seq(Nat) /\ Len(pool) = Len(p.term_args) + Len(args)
    BY <1>1, ModuleShape
  <1>3. Len(p.term_args) \in Nat /\ Len(a.term_args) \in Nat /\ Len(args) \in Nat
    BY ModuleShape
  <1>4. PICK n : n = [p EXCEPT !.term_args = pool]
    OBVIOUS
  <1>5. Pooled(a, n) /\ n.term_args = pool
    <2>1. /\ n \in Modules /\ n.term_args = pool
          /\ n.values = p.values /\ n.ops = p.ops /\ n.blocks = p.blocks
          /\ n.frozen = p.frozen /\ n.vn = p.vn
      BY <1>2, <1>4 DEF Modules
    <2>2. Len(a.term_args) <= Len(pool)
      BY <1>2, <1>3 DEF Pooled
    <2>3. \A i \in 1 .. Len(p.term_args) : pool[i] = p.term_args[i]
      BY <1>1, ModuleShape
    <2>4. \A i \in 1 .. Len(a.term_args) : i \in 1 .. Len(p.term_args) /\ p.term_args[i] = a.term_args[i]
      BY <1>3 DEF Pooled, PoolKept
    <2>5. PoolKept(a, n)
      BY <2>1, <2>2, <2>3, <2>4 DEF PoolKept
    <2> QED BY <2>1, <2>2, <2>5 DEF Pooled
  <1>6. CASE args # <<>> /\ (null \/ oom)
    BY <1>3, <1>6 DEF append_term_args, Ret, ArgsPut, Statuses
  <1>7. CASE ~(args # <<>> /\ (null \/ oom))
    <2>1. append_term_args(p, args, null, oom) = Ret(n, "OK", Len(p.term_args))
      BY <1>1, <1>4, <1>7 DEF append_term_args
    <2>2. Pooled(a, n) /\ Len(n.term_args) = Len(p.term_args) + Len(args)
      BY <1>2, <1>5
    <2> QED BY <1>3, <2>1, <2>2 DEF Ret, ArgsPut, Statuses
  <1> QED BY <1>6, <1>7

LEMMA PooledSelf ==
  ASSUME NEW a \in Modules
  PROVE  Pooled(a, a)
  BY ModuleShape DEF Pooled, PoolKept

LEMMA PooledKeeps ==
  ASSUME NEW a, NEW n, NEW b, Pooled(a, n), Unterminated(a, b), NEW code \in Statuses \ {"OK"}
  PROVE  Effect(a, Reject(n, code))
  BY DEF Pooled, Unterminated, Effect, Keeps, Reject, Ret

LEMMA SetTermChange ==
  ASSUME NEW a \in Modules, NEW p, Pooled(a, p), NEW b, Unterminated(a, b),
         NEW term \in TermRecs, term.kind # "NONE", OwnSpans(a, p, term)
  PROVE  Effect(a, set_term(p, b, term))
  <1>1. p \in Modules /\ p.blocks = a.blocks /\ valid_block(p, b) /\ valid_block(a, b)
        /\ ~p.frozen /\ p.blocks[b].term.kind = "NONE"
    BY DEF Pooled, Unterminated, valid_block
  <1>2. PICK blocks : blocks = WithTerm(a, b, term)
    OBVIOUS
  <1>3. blocks \in Seq(BlockRecs)
    BY <1>1, <1>2, BlockUpdates
  <1>4. PICK n : n = [p EXCEPT !.blocks = blocks]
    OBVIOUS
  <1>5. /\ n \in Modules /\ n.blocks = blocks
        /\ n.values = p.values /\ n.ops = p.ops /\ n.frozen = p.frozen /\ n.vn = p.vn
        /\ n.term_args = p.term_args
    BY <1>1, <1>3, <1>4 DEF Modules
  <1>6. AddsTerm(a, n, b, term)
    BY <1>1, <1>2, <1>5 DEF AddsTerm, Open, OwnSpans, Pooled, PoolKept, WithTerm, Unterminated
  <1>7. set_term(p, b, term) = Ret(n, "OK", INVALID)
    BY <1>1, <1>2, <1>4 DEF set_term, WithTerm, Modules
  <1> QED BY <1>6, <1>7 DEF Ret, Statuses, Effect, Changes

LEMMA NoTermShape == NoTerm \in TermRecs
  BY DEF NoTerm, TermRecs, TermKinds, INVALID

(* The stretches of a terminator with one argument list, and with two.     *)
LEMMA SpansOfOneList ==
  ASSUME NEW a \in Modules, NEW p, NEW term, NEW count \in Nat,
         term.true_arg_offset = Len(a.term_args), term.true_arg_count = count,
         term.false_arg_offset = 0, term.false_arg_count = 0,
         Len(p.term_args) = Len(a.term_args) + count
  PROVE  OwnSpans(a, p, term)
  BY ModuleShape DEF OwnSpans, Spans, TrueSpan, FalseSpan

LEMMA SpansOfTwoLists ==
  ASSUME NEW a \in Modules, NEW p, NEW term, NEW count1 \in Nat, NEW count2 \in Nat,
         term.true_arg_offset = Len(a.term_args), term.true_arg_count = count1,
         term.false_arg_offset = Len(a.term_args) + count1, term.false_arg_count = count2,
         Len(p.term_args) = Len(a.term_args) + count1 + count2
  PROVE  OwnSpans(a, p, term)
  BY ModuleShape DEF OwnSpans, Spans, TrueSpan, FalseSpan

LEMMA SetJumpChange ==
  ASSUME NEW a \in Modules, NEW b, NEW target \in Nat, NEW args \in Seq(Nat), NEW fault
  PROVE  Effect(a, xair_set_jump(a, b, target, args, fault))
  <1>1. CASE Unterminated(a, b) /\ valid_block(a, target)
    <2>1. PICK put : put = append_term_args(a, args, fault = "null_args", fault = "args")
      OBVIOUS
    <2>2. ArgsPut(a, a, args, put)
      BY <2>1, PooledSelf, AppendTermArgs
    <2>3. PICK term : term = [NoTerm EXCEPT !.kind = "JUMP", !.true_target = target,
                                !.true_arg_offset = put.out, !.true_arg_count = Len(args)]
      OBVIOUS
    <2>4. term \in TermRecs /\ term.kind # "NONE"
      <3>1. put.out \in Nat /\ Len(args) \in Nat
        BY <2>2 DEF ArgsPut
      <3> QED BY <2>3, <3>1, NoTermShape DEF TermRecs, TermKinds
    <2>5. /\ put.status = "OK" => Effect(a, set_term(put.m, b, term))
          /\ put.status # "OK" => Effect(a, Reject(put.m, put.status))
      <3>1. /\ term.true_arg_offset = put.out /\ term.true_arg_count = Len(args)
            /\ term.false_arg_offset = 0 /\ term.false_arg_count = 0
        BY <2>3, NoTermShape DEF TermRecs, NoTerm
      <3>2. put.status = "OK" => OwnSpans(a, put.m, term)
        BY <2>2, <3>1, SpansOfOneList DEF ArgsPut
      <3> QED BY <1>1, <2>2, <2>4, <3>2, SetTermChange, PooledKeeps DEF ArgsPut
    <2>6. xair_set_jump(a, b, target, args, fault)
            = IF put.status # "OK" THEN Reject(put.m, put.status) ELSE set_term(put.m, b, term)
      BY <1>1, <2>1, <2>3 DEF xair_set_jump
    <2> QED BY <2>5, <2>6
  <1>2. CASE ~(Unterminated(a, b) /\ valid_block(a, target))
    BY <1>2, Refused DEF xair_set_jump
  <1> QED BY <1>1, <1>2

LEMMA SetCbranchChange ==
  ASSUME NEW a \in Modules, NEW b, NEW condition \in Nat,
         NEW true_target \in Nat, NEW true_args \in Seq(Nat),
         NEW false_target \in Nat, NEW false_args \in Seq(Nat), NEW fault
  PROVE  Effect(a, xair_set_cbranch(a, b, condition, true_target, true_args,
                                    false_target, false_args, fault))
  <1> DEFINE Accepted == /\ Unterminated(a, b)
                         /\ valid_value(a, condition)
                         /\ valid_block(a, true_target) /\ valid_block(a, false_target)
  <1>1. CASE Accepted
    <2>1. PICK put1 : put1 = append_term_args(a, true_args, fault = "null_args", fault = "args")
      OBVIOUS
    <2>2. PICK put2 : put2 = append_term_args(put1.m, false_args, fault = "null_false_args",
                                              fault = "false_args")
      OBVIOUS
    <2>3. ArgsPut(a, a, true_args, put1)
      BY <2>1, PooledSelf, AppendTermArgs
    <2>4. ArgsPut(a, put1.m, false_args, put2)
      <3>1. put1.m \in Modules /\ Pooled(a, put1.m)
        BY <2>3 DEF ArgsPut, Pooled
      <3> QED BY <2>2, <3>1, AppendTermArgs
    <2>5. PICK term : term = [NoTerm EXCEPT !.kind = "CBRANCH", !.condition = condition,
                                !.true_target = true_target, !.false_target = false_target,
                                !.true_arg_offset = put1.out, !.true_arg_count = Len(true_args),
                                !.false_arg_offset = put2.out, !.false_arg_count = Len(false_args)]
      OBVIOUS
    <2>6. term \in TermRecs /\ term.kind # "NONE"
      <3>1. put1.out \in Nat /\ put2.out \in Nat /\ Len(true_args) \in Nat /\ Len(false_args) \in Nat
        BY <2>3, <2>4 DEF ArgsPut
      <3> QED BY <2>5, <3>1, NoTermShape DEF TermRecs, TermKinds
    <2>7. /\ put1.status = "OK" /\ put2.status = "OK" => Effect(a, set_term(put2.m, b, term))
          /\ put1.status # "OK" => Effect(a, Reject(put1.m, put1.status))
          /\ put2.status # "OK" => Effect(a, Reject(put2.m, put2.status))
      <3>1. /\ term.true_arg_offset = put1.out /\ term.true_arg_count = Len(true_args)
            /\ term.false_arg_offset = put2.out /\ term.false_arg_count = Len(false_args)
        BY <2>5, NoTermShape DEF TermRecs, NoTerm
      <3>2. put1.status = "OK" /\ put2.status = "OK" => OwnSpans(a, put2.m, term)
        <4>1. SUFFICES ASSUME put1.status = "OK", put2.status = "OK"
                       PROVE  OwnSpans(a, put2.m, term)
          OBVIOUS
        <4>2. /\ put1.out = Len(a.term_args) /\ put2.out = Len(a.term_args) + Len(true_args)
              /\ Len(put2.m.term_args) = Len(a.term_args) + Len(true_args) + Len(false_args)
          BY <2>3, <2>4, <4>1 DEF ArgsPut
        <4>3. Len(true_args) \in Nat /\ Len(false_args) \in Nat
          OBVIOUS
        <4> QED BY <3>1, <4>2, <4>3, SpansOfTwoLists
      <3> QED BY <1>1, <2>3, <2>4, <2>6, <3>2, SetTermChange, PooledKeeps DEF ArgsPut
    <2>8. xair_set_cbranch(a, b, condition, true_target, true_args, false_target, false_args, fault)
            = IF put1.status # "OK" THEN Reject(put1.m, put1.status)
              ELSE IF put2.status # "OK" THEN Reject(put2.m, put2.status)
              ELSE set_term(put2.m, b, term)
      BY <1>1, <2>1, <2>2, <2>5 DEF xair_set_cbranch
    <2> QED BY <2>7, <2>8
  <1>2. CASE ~Accepted
    BY <1>2, Refused DEF xair_set_cbranch
  <1> QED BY <1>1, <1>2

LEMMA SetReturnChange ==
  ASSUME NEW a \in Modules, NEW b, NEW args \in Seq(Nat), NEW fault
  PROVE  Effect(a, xair_set_return(a, b, args, fault))
  <1>1. CASE Unterminated(a, b)
    <2>1. PICK put : put = append_term_args(a, args, fault = "null_args", fault = "args")
      OBVIOUS
    <2>2. ArgsPut(a, a, args, put)
      BY <2>1, PooledSelf, AppendTermArgs
    <2>3. PICK term : term = [NoTerm EXCEPT !.kind = "RETURN",
                                !.true_arg_offset = put.out, !.true_arg_count = Len(args)]
      OBVIOUS
    <2>4. term \in TermRecs /\ term.kind # "NONE"
      <3>1. put.out \in Nat /\ Len(args) \in Nat
        BY <2>2 DEF ArgsPut
      <3> QED BY <2>3, <3>1, NoTermShape DEF TermRecs, TermKinds
    <2>5. /\ put.status = "OK" => Effect(a, set_term(put.m, b, term))
          /\ put.status # "OK" => Effect(a, Reject(put.m, put.status))
      <3>1. /\ term.true_arg_offset = put.out /\ term.true_arg_count = Len(args)
            /\ term.false_arg_offset = 0 /\ term.false_arg_count = 0
        BY <2>3, NoTermShape DEF TermRecs, NoTerm
      <3>2. put.status = "OK" => OwnSpans(a, put.m, term)
        BY <2>2, <3>1, SpansOfOneList DEF ArgsPut
      <3> QED BY <1>1, <2>2, <2>4, <3>2, SetTermChange, PooledKeeps DEF ArgsPut
    <2>6. xair_set_return(a, b, args, fault)
            = IF put.status # "OK" THEN Reject(put.m, put.status) ELSE set_term(put.m, b, term)
      BY <1>1, <2>1, <2>3 DEF xair_set_return
    <2> QED BY <2>5, <2>6
  <1>2. CASE ~Unterminated(a, b)
    BY <1>2, Refused DEF xair_set_return
  <1> QED BY <1>1, <1>2

LEMMA SetStopChange ==
  ASSUME NEW a \in Modules, NEW b, NEW code \in Nat
  PROVE  Effect(a, xair_set_trap(a, b, code)) /\ Effect(a, xair_set_fault(a, b, code))
  <1>1. ASSUME NEW kind \in {"TRAP", "FAULT"}, Unterminated(a, b)
        PROVE  Effect(a, set_term(a, b, [NoTerm EXCEPT !.kind = kind, !.code = code]))
    <2>1. PICK term : term = [NoTerm EXCEPT !.kind = kind, !.code = code]
      OBVIOUS
    <2>2. term \in TermRecs /\ term.kind # "NONE"
      BY <1>1, <2>1, NoTermShape DEF TermRecs, TermKinds
    <2>3. OwnSpans(a, a, term)
      <3>1. /\ term.true_arg_offset = 0 /\ term.true_arg_count = 0
            /\ term.false_arg_offset = 0 /\ term.false_arg_count = 0
        BY <2>1 DEF NoTerm
      <3> QED BY <3>1, ModuleShape DEF OwnSpans, Spans, TrueSpan, FalseSpan
    <2> QED BY <1>1, <2>1, <2>2, <2>3, PooledSelf, SetTermChange
  <1> QED BY <1>1, Refused DEF xair_set_trap, xair_set_fault

LEMMA FreezeChange ==
  ASSUME NEW a \in Modules, NEW fault
  PROVE  Effect(a, xair_module_freeze(a, fault))
  <1>1. CASE ~a.frozen /\ fault # "shrink"
    <2>1. PICK n : n = [a EXCEPT !.vn = {}, !.frozen = TRUE]
      OBVIOUS
    <2>2. Freezes(a, n)
      BY <1>1, <2>1 DEF Freezes, Modules
    <2>3. xair_module_freeze(a, fault) = Ret(n, "OK", INVALID)
      BY <1>1, <2>1 DEF xair_module_freeze, value_number_clear, Modules
    <2> QED BY <2>2, <2>3 DEF Ret, Statuses, Effect, Changes
  <1>2. CASE a.frozen \/ fault = "shrink"
    BY <1>2, KeepsSelf DEF xair_module_freeze, Reject, Ret, Statuses, Effect
  <1> QED BY <1>1, <1>2

-----------------------------------------------------------------------------
(* One step of the client.                                                 *)

StepEffect ==
  /\ status' \in Statuses
  /\ held' \in BOOLEAN
  /\ status' = "OK" => Changes(m, m')
  /\ status' # "OK" => Keeps(m, m')
  /\ held' # held => ~held' /\ m'.frozen

LEMMA CallEffect ==
  ASSUME TypeOK, NEW r, Effect(m, r), Returns(r)
  PROVE  StepEffect
  BY DEF TypeOK, Effect, Returns, StepEffect

LEMMA ArgListShape ==
  ASSUME NEW args \in ArgLists
  PROVE  args \in Seq(Nat)
  <1>1. PICK n \in 0 .. MaxArgs : args \in [1 .. n -> ValueIds]
    BY DEF ArgLists
  <1>2. n \in Nat /\ ValueIds \subseteq Nat
    BY <1>1, ClientAssumption
  <1>3. args \in [1 .. n -> Nat]
    BY <1>1, <1>2
  <1> QED BY <1>2, <1>3

LEMMA NextEffect ==
  ASSUME TypeOK, Next
  PROVE  StepEffect
  <1>0. m \in Modules
    BY DEF TypeOK
  <1>1. CASE BlockCreate
    BY <1>0, <1>1, BlockCreateChange, CallEffect DEF BlockCreate
  <1>2. CASE BlockAddParam
    <2>1. PICK b \in BlockIds, type \in ClientTypes, name \in Names,
               fault \in {"none", "values", "params"} :
            Returns(xair_block_add_param(m, b, type, name, fault))
      BY <1>2 DEF BlockAddParam
    <2>2. type \in Types /\ name \in Nat
      BY ClientAssumption
    <2> QED BY <1>0, <2>1, <2>2, AddParamChange, CallEffect
  <1>3. CASE BuildConst
    <2>1. PICK b \in BlockIds, type \in ClientTypes, imm \in Imms, name \in Names,
               fault \in OpFaults : Returns(xair_build_const_u64(m, b, type, imm, name, fault))
      BY <1>3 DEF BuildConst
    <2>2. type \in Types /\ imm \in Nat /\ name \in Nat
      BY ClientAssumption
    <2> QED BY <1>0, <2>1, <2>2, BuildConstChange, CallEffect
  <1>4. CASE BuildUnary
    <2>1. PICK b \in BlockIds, opcode \in UnaryOpcodes, type \in ClientTypes, src \in ValueIds,
               name \in Names, fault \in OpFaults :
            Returns(xair_build_unary(m, b, opcode, type, src, name, fault))
      BY <1>4 DEF BuildUnary
    <2>2. opcode \in Opcodes /\ type \in Types /\ src \in Nat /\ name \in Nat
      BY ClientAssumption
    <2> QED BY <1>0, <2>1, <2>2, BuildUnaryChange, CallEffect
  <1>5. CASE BuildBinary
    <2>1. PICK b \in BlockIds, opcode \in BinaryOpcodes, type \in ClientTypes,
               lhs \in ValueIds, rhs \in ValueIds, name \in Names, fault \in OpFaults :
            Returns(xair_build_binary(m, b, opcode, type, lhs, rhs, name, fault))
      BY <1>5 DEF BuildBinary
    <2>2. opcode \in Opcodes /\ type \in Types /\ lhs \in Nat /\ rhs \in Nat /\ name \in Nat
      BY ClientAssumption
    <2> QED BY <1>0, <2>1, <2>2, BuildBinaryChange, CallEffect
  <1>6. CASE BuildLoad
    <2>1. PICK b \in BlockIds, type \in ClientTypes, memory \in ValueIds, address \in ValueIds,
               endian \in ClientEndians, name \in Names, fault \in OpFaults :
            Returns(xair_build_load(m, b, type, memory, address, endian, name, fault))
      BY <1>6 DEF BuildLoad
    <2>2. type \in Types /\ memory \in Nat /\ address \in Nat /\ endian \in Endians /\ name \in Nat
      BY ClientAssumption
    <2> QED BY <1>0, <2>1, <2>2, BuildLoadChange, CallEffect
  <1>7. CASE BuildStore
    <2>1. PICK b \in BlockIds, memory \in ValueIds, address \in ValueIds, data \in ValueIds,
               endian \in ClientEndians, name \in Names, fault \in OpFaults :
            Returns(xair_build_store(m, b, memory, address, data, endian, name, fault))
      BY <1>7 DEF BuildStore
    <2>2. memory \in Nat /\ address \in Nat /\ data \in Nat /\ endian \in Endians /\ name \in Nat
      BY ClientAssumption
    <2> QED BY <1>0, <2>1, <2>2, BuildStoreChange, CallEffect
  <1>8. CASE SetJump
    <2>1. PICK b \in BlockIds, target \in Targets, args \in ArgLists,
               fault \in {"none", "args", "null_args"} :
            Returns(xair_set_jump(m, b, target, args, fault))
      BY <1>8 DEF SetJump
    <2>2. target \in Nat /\ args \in Seq(Nat)
      BY ClientAssumption, ArgListShape
    <2> QED BY <1>0, <2>1, <2>2, SetJumpChange, CallEffect
  <1>9. CASE SetCbranch
    <2>1. PICK b \in BlockIds, condition \in ValueIds, true_target \in Targets,
               true_args \in ArgLists, false_target \in Targets, false_args \in ArgLists,
               fault \in {"none", "args", "null_args", "false_args", "null_false_args"} :
            Returns(xair_set_cbranch(m, b, condition, true_target, true_args,
                                     false_target, false_args, fault))
      BY <1>9 DEF SetCbranch
    <2>2. /\ condition \in Nat /\ true_target \in Nat /\ false_target \in Nat
          /\ true_args \in Seq(Nat) /\ false_args \in Seq(Nat)
      BY ClientAssumption, ArgListShape
    <2> QED BY <1>0, <2>1, <2>2, SetCbranchChange, CallEffect
  <1>10. CASE SetReturn
    <2>1. PICK b \in BlockIds, args \in ArgLists, fault \in {"none", "args", "null_args"} :
            Returns(xair_set_return(m, b, args, fault))
      BY <1>10 DEF SetReturn
    <2>2. args \in Seq(Nat)
      BY ArgListShape
    <2> QED BY <1>0, <2>1, <2>2, SetReturnChange, CallEffect
  <1>11. CASE SetTrap \/ SetFault
    <2>1. PICK b \in BlockIds, code \in Codes :
            Returns(xair_set_trap(m, b, code)) \/ Returns(xair_set_fault(m, b, code))
      BY <1>11 DEF SetTrap, SetFault
    <2>2. code \in Nat
      BY ClientAssumption
    <2> QED BY <1>0, <2>1, <2>2, SetStopChange, CallEffect
  <1>12. CASE ModuleFreeze
    BY <1>0, <1>12, FreezeChange, CallEffect DEF ModuleFreeze
  <1>13. CASE BuilderFreeze
    <2>1. PICK fault \in {"none", "shrink"} :
            LET r == xair_module_freeze(m, fault)
            IN  /\ m' = IF held THEN r.m ELSE m
                /\ status' = IF held THEN r.status ELSE "BAD_ARG"
                /\ held' = (held /\ r.status # "OK")
      BY <1>13 DEF BuilderFreeze
    <2>2. PICK r : r = xair_module_freeze(m, fault)
      OBVIOUS
    <2>3. /\ m' = IF held THEN r.m ELSE m
          /\ status' = IF held THEN r.status ELSE "BAD_ARG"
          /\ held' = (held /\ r.status # "OK")
      BY <2>1, <2>2
    <2>4. Effect(m, r) /\ (r.status = "OK" => r.m.frozen)
      <3>1. r.status = "OK" => r.m.frozen
        BY <1>0, <2>2 DEF xair_module_freeze, value_number_clear, Reject, Ret, Modules
      <3> QED BY <1>0, <2>2, <3>1, FreezeChange
    <2>5. held \in BOOLEAN /\ Keeps(m, m)
      BY <1>0, KeepsSelf DEF TypeOK
    <2>6. CASE held
      BY <2>3, <2>4, <2>5, <2>6 DEF Effect, StepEffect
    <2>7. CASE ~held
      BY <2>3, <2>5, <2>7 DEF StepEffect, Statuses
    <2> QED BY <2>6, <2>7
  <1> QED
    BY <1>1, <1>2, <1>3, <1>4, <1>5, <1>6, <1>7, <1>8, <1>9, <1>10, <1>11, <1>12, <1>13 DEF Next

-----------------------------------------------------------------------------
(* The invariant, and its proof change by change.                          *)

Links == OpsLinked /\ ValuesLinked /\ DefinedBeforeUse

Lists == ListsOwned /\ ListsComplete

Inv ==
  /\ TypeOK /\ Links /\ Lists /\ TermArgsDisjoint
  /\ NumberingExact /\ NoDuplicateExpression /\ HandedOverFrozen

(* t is s with x appended, read entry by entry.                            *)
Extends(s, t, x) ==
  /\ Len(s) \in Nat /\ Len(t) = Len(s) + 1
  /\ \A i \in 1 .. Len(s) : t[i] = s[i]
  /\ t[Len(s) + 1] = x

LEMMA AppendExtends ==
  ASSUME NEW S, NEW s \in Seq(S), NEW x
  PROVE  Extends(s, Append(s, x), x)
  BY DEF Extends

LEMMA InvInit ==
  ASSUME Init
  PROVE  Inv
  <1>1. /\ m = xair_module_create /\ m.values = <<>> /\ m.ops = <<>> /\ m.blocks = <<>>
        /\ m.vn = {} /\ ~m.frozen
    BY DEF Init, xair_module_create
  <1>2. TypeOK
    BY DEF Init, TypeOK, xair_module_create, Modules, Statuses
  <1>3. Links
    BY <1>1 DEF Links, OpsLinked, ValuesLinked, DefinedBeforeUse
  <1>4. NumberingExact /\ NoDuplicateExpression
    BY <1>1 DEF NumberingExact, NoDuplicateExpression
  <1>5. Lists /\ TermArgsDisjoint
    BY <1>1 DEF Lists, ListsOwned, ListsComplete, TermArgsDisjoint
  <1> QED BY <1>2, <1>3, <1>4, <1>5 DEF Init, Inv, HandedOverFrozen

(* Blocks only ever get more, which is all that ValuesLinked asks of them. *)
LEMMA SameLinks ==
  ASSUME Links, m'.values = m.values, m'.ops = m.ops,
         1 .. Len(m.blocks) \subseteq 1 .. Len(m'.blocks)
  PROVE  Links'
  <1>1. OpsLinked'
    BY DEF Links, OpsLinked, valid_value
  <1>2. ValuesLinked'
    BY DEF Links, ValuesLinked, valid_block, valid_op
  <1>3. DefinedBeforeUse'
    BY DEF Links, DefinedBeforeUse
  <1> QED BY <1>1, <1>2, <1>3 DEF Links

LEMMA AddsBlockLinks ==
  ASSUME TypeOK, Links, AddsBlock(m, m')
  PROVE  Links'
  <1>1. Len(m.blocks) \in Nat /\ Len(m'.blocks) = Len(m.blocks) + 1
    BY ModuleShape DEF TypeOK, AddsBlock
  <1>2. 1 .. Len(m.blocks) \subseteq 1 .. Len(m'.blocks)
    BY <1>1
  <1> QED BY <1>2, SameLinks DEF AddsBlock

LEMMA AddsParamLinks ==
  ASSUME TypeOK, Links, NEW b, NEW value, AddsParam(m, m', b, value)
  PROVE  Links'
  <1>1. /\ m.values \in Seq(ValueRecs) /\ Len(m.values) \in Nat
        /\ m.blocks \in Seq(BlockRecs) /\ b \in 1 .. Len(m.blocks)
    BY ModuleShape DEF TypeOK, AddsParam, Open, valid_block
  <1>2. Extends(m.values, m'.values, value)
    BY <1>1, AppendExtends DEF AddsParam
  <1>3. /\ m'.ops = m.ops
        /\ is_value_type(value.type) /\ value.block = b /\ value.op = INVALID
    BY DEF AddsParam
  <1>4. Len(m'.blocks) = Len(m.blocks)
    BY <1>1 DEF AddsParam
  <1>5. OpsLinked'
    BY <1>2, <1>3 DEF Links, OpsLinked, valid_value, Extends
  <1>6. ValuesLinked'
    <2>1. ASSUME NEW v \in 1 .. Len(m.values)
          PROVE  m'.values[v] = m.values[v]
      BY <1>2 DEF Extends
    <2>2. \A v \in 1 .. Len(m'.values) :
             v \in 1 .. Len(m.values) \/ m'.values[v] = value
      BY <1>2 DEF Extends
    <2> QED BY <1>1, <1>3, <1>4, <2>1, <2>2 DEF Links, ValuesLinked, valid_block, valid_op
  <1>7. DefinedBeforeUse'
    BY <1>3 DEF Links, DefinedBeforeUse
  <1> QED BY <1>5, <1>6, <1>7 DEF Links

LEMMA AddsOpLinks ==
  ASSUME TypeOK, Links, NEW b, NEW value, NEW op, AddsOp(m, m', b, value, op)
  PROVE  Links'
  <1>1. /\ m.values \in Seq(ValueRecs) /\ Len(m.values) \in Nat
        /\ m.ops \in Seq(OpRecs) /\ Len(m.ops) \in Nat
        /\ m.blocks \in Seq(BlockRecs) /\ b \in 1 .. Len(m.blocks)
    BY ModuleShape DEF TypeOK, AddsOp, Open, valid_block
  <1>2. Extends(m.values, m'.values, value) /\ Extends(m.ops, m'.ops, op)
    BY <1>1, AppendExtends DEF AddsOp
  <1>3. /\ is_value_type(value.type) /\ value.block = b /\ value.op = Len(m.ops) + 1
        /\ op.dst = Len(m.values) + 1
        /\ \A i \in 1 .. Len(op.src) : op.src[i] \in 1 .. Len(m.values)
    BY DEF AddsOp, valid_value
  <1>4. Len(m'.blocks) = Len(m.blocks)
    BY <1>1 DEF AddsOp
  <1>5. PICK k \in Nat : k = Len(m.values) + 1
    BY <1>1
  <1>6. PICK n \in Nat : n = Len(m.ops) + 1
    BY <1>1
  <1>7. /\ \A v \in 1 .. Len(m.values) : v \in 1 .. k /\ v < k /\ m'.values[v] = m.values[v]
        /\ \A v \in 1 .. k : v \in 1 .. Len(m.values) \/ v = k
        /\ Len(m'.values) = k /\ k \in 1 .. k /\ m'.values[k] = value
    BY <1>2, <1>5 DEF Extends
  <1>8. /\ \A o \in 1 .. Len(m.ops) : o \in 1 .. n /\ o < n /\ m'.ops[o] = m.ops[o]
        /\ \A o \in 1 .. n : o \in 1 .. Len(m.ops) \/ o = n
        /\ Len(m'.ops) = n /\ n \in 1 .. n /\ m'.ops[n] = op
    BY <1>2, <1>6 DEF Extends
  <1>9. op.dst = k /\ value.op = n
    BY <1>3, <1>5, <1>6
  <1>10. OpsLinked'
    <2>1. ASSUME NEW o \in 1 .. n
          PROVE  m'.ops[o].dst \in 1 .. k /\ m'.values[m'.ops[o].dst].op = o
      <3>1. CASE o = n
        BY <1>7, <1>8, <1>9, <3>1
      <3>2. CASE o \in 1 .. Len(m.ops)
        <4>1. m.ops[o].dst \in 1 .. Len(m.values) /\ m.values[m.ops[o].dst].op = o
          BY <3>2 DEF Links, OpsLinked, valid_value
        <4> QED BY <1>7, <1>8, <3>2, <4>1
      <3> QED BY <1>8, <3>1, <3>2
    <2> QED BY <1>7, <1>8, <2>1 DEF OpsLinked, valid_value
  <1>11. ValuesLinked'
    <2>1. ASSUME NEW v \in 1 .. k
          PROVE  /\ m'.values[v].block \in 1 .. Len(m'.blocks)
                 /\ is_value_type(m'.values[v].type)
                 /\ m'.values[v].op # INVALID => /\ m'.values[v].op \in 1 .. n
                                                 /\ m'.ops[m'.values[v].op].dst = v
      <3>1. CASE v = k
        BY <1>1, <1>3, <1>4, <1>7, <1>8, <1>9, <3>1
      <3>2. CASE v \in 1 .. Len(m.values)
        <4>1. /\ m.values[v].block \in 1 .. Len(m.blocks)
              /\ is_value_type(m.values[v].type)
              /\ m.values[v].op # INVALID => /\ m.values[v].op \in 1 .. Len(m.ops)
                                             /\ m.ops[m.values[v].op].dst = v
          BY <3>2 DEF Links, ValuesLinked, valid_block, valid_op
        <4> QED BY <1>4, <1>7, <1>8, <3>2, <4>1
      <3> QED BY <1>7, <3>1, <3>2
    <2> QED BY <1>7, <1>8, <2>1 DEF ValuesLinked, valid_block, valid_op
  <1>12. DefinedBeforeUse'
    <2>1. ASSUME NEW o \in 1 .. Len(m.ops)
          PROVE  m.ops[o].dst \in 1 .. Len(m.values)
      BY DEF Links, OpsLinked, valid_value
    <2>2. ASSUME NEW v \in ElemsOf(op.src)
          PROVE  v \in 1 .. (k - 1)
      BY <1>1, <1>3, <1>5 DEF ElemsOf
    <2>3. ASSUME NEW o \in 1 .. n
          PROVE  \A v \in ElemsOf(m'.ops[o].src) : v \in 1 .. (m'.ops[o].dst - 1)
      BY <1>8, <1>9, <2>2 DEF Links, DefinedBeforeUse
    <2>4. ASSUME NEW o \in 1 .. n, NEW p \in 1 .. n, p < o
          PROVE  m'.ops[p].dst < m'.ops[o].dst
      <3>1. p \in 1 .. Len(m.ops)
        BY <1>1, <1>6, <2>4
      <3>2. CASE o = n
        BY <1>7, <1>8, <1>9, <2>1, <3>1, <3>2
      <3>3. CASE o \in 1 .. Len(m.ops)
        BY <1>8, <2>4, <3>1, <3>3 DEF Links, DefinedBeforeUse
      <3> QED BY <1>8, <3>2, <3>3
    <2> QED BY <1>8, <2>3, <2>4 DEF DefinedBeforeUse
  <1> QED BY <1>10, <1>11, <1>12 DEF Links

(* The changes that append nothing to the values and the operations.       *)
LEMMA OtherLinks ==
  ASSUME TypeOK, Links, m' \in Modules, m'.values = m.values, m'.ops = m.ops,
         Len(m'.blocks) = Len(m.blocks)
  PROVE  Links'
  BY SameLinks

LEMMA ChangeLinks ==
  ASSUME TypeOK, Links, Changes(m, m')
  PROVE  Links'
  <1>1. CASE Keeps(m, m')
    BY <1>1, OtherLinks DEF Keeps
  <1>2. CASE AddsBlock(m, m')
    BY <1>2, AddsBlockLinks
  <1>3. CASE \E b, value : AddsParam(m, m', b, value)
    BY <1>3, AddsParamLinks
  <1>4. CASE \E b, value, op : AddsOp(m, m', b, value, op)
    BY <1>4, AddsOpLinks
  <1>5. ASSUME NEW b, NEW term, AddsTerm(m, m', b, term)
        PROVE  Links'
    <2>1. m.blocks \in Seq(BlockRecs) /\ b \in 1 .. Len(m.blocks)
      BY <1>5, ModuleShape DEF TypeOK, AddsTerm, Open, valid_block
    <2>2. Len(m'.blocks) = Len(m.blocks)
      BY <1>5, <2>1 DEF AddsTerm
    <2> QED BY <1>5, <2>2, OtherLinks DEF AddsTerm
  <1>6. CASE Freezes(m, m')
    BY <1>6, OtherLinks DEF Freezes
  <1> QED BY <1>1, <1>2, <1>3, <1>4, <1>5, <1>6 DEF Changes

LEMMA ChangeNumbering ==
  ASSUME TypeOK, NumberingExact, Changes(m, m')
  PROVE  NumberingExact'
  <1>1. ASSUME m'.ops = m.ops, m'.frozen = m.frozen, m'.vn = m.vn
        PROVE  NumberingExact'
    BY <1>1 DEF NumberingExact
  <1>2. CASE Keeps(m, m')
    BY <1>1, <1>2 DEF Keeps
  <1>3. CASE AddsBlock(m, m')
    BY <1>1, <1>3 DEF AddsBlock
  <1>4. CASE \E b, value : AddsParam(m, m', b, value)
    BY <1>1, <1>4 DEF AddsParam
  <1>5. ASSUME NEW b, NEW value, NEW op, AddsOp(m, m', b, value, op)
        PROVE  NumberingExact'
    <2>1. m.ops \in Seq(OpRecs)
      BY ModuleShape DEF TypeOK
    <2>2. Extends(m.ops, m'.ops, op)
      BY <1>5, <2>1, AppendExtends DEF AddsOp
    <2>3. /\ \A o \in 1 .. Len(m.ops) : o \in 1 .. Len(m'.ops) /\ m'.ops[o] = m.ops[o]
          /\ \A o \in 1 .. Len(m'.ops) : o \in 1 .. Len(m.ops) \/ m'.ops[o] = op
          /\ \E o \in 1 .. Len(m'.ops) : m'.ops[o] = op
      BY <2>2 DEF Extends
    <2>4. {m'.ops[o].dst : o \in 1 .. Len(m'.ops)}
            = {m.ops[o].dst : o \in 1 .. Len(m.ops)} \cup {op.dst}
      BY <2>3
    <2> QED BY <1>5, <2>4 DEF NumberingExact, AddsOp, Open
  <1>6. CASE \E b, term : AddsTerm(m, m', b, term)
    BY <1>1, <1>6 DEF AddsTerm
  <1>7. CASE Freezes(m, m')
    BY <1>7 DEF NumberingExact, Freezes
  <1> QED BY <1>2, <1>3, <1>4, <1>5, <1>6, <1>7 DEF Changes

(* The expression of operation o, as value numbering compares it with p's. *)
SameAs(mod, o, p) ==
  /\ mod.ops[o].opcode = mod.ops[p].opcode
  /\ mod.ops[o].src = mod.ops[p].src
  /\ mod.ops[o].imm = mod.ops[p].imm
  /\ mod.ops[o].endian = mod.ops[p].endian
  /\ mod.values[mod.ops[o].dst].type = mod.values[mod.ops[p].dst].type
  /\ \/ value_number_is_global(mod.ops[o].opcode)
     \/ mod.values[mod.ops[o].dst].block = mod.values[mod.ops[p].dst].block

LEMMA SameAsSymmetric ==
  ASSUME NEW mod, NEW o, NEW p, SameAs(mod, o, p)
  PROVE  SameAs(mod, p, o)
  BY DEF SameAs

(* add_op builds only what the lookup did not find, and the table knows    *)
(* every operation, so the new expression equals none of the old ones.     *)
LEMMA AddsOpUnique ==
  ASSUME TypeOK, Links, NumberingExact, NoDuplicateExpression,
         NEW b, NEW value, NEW op, AddsOp(m, m', b, value, op)
  PROVE  NoDuplicateExpression'
  <1>1. /\ m.values \in Seq(ValueRecs) /\ Len(m.values) \in Nat
        /\ m.ops \in Seq(OpRecs) /\ Len(m.ops) \in Nat
    BY ModuleShape DEF TypeOK
  <1>2. Extends(m.values, m'.values, value) /\ Extends(m.ops, m'.ops, op)
    BY <1>1, AppendExtends DEF AddsOp
  <1>3. PICK n \in Nat : n = Len(m.ops) + 1
    BY <1>1
  <1>4. /\ \A o \in 1 .. Len(m.ops) : m'.ops[o] = m.ops[o]
        /\ \A o \in 1 .. n : o \in 1 .. Len(m.ops) \/ o = n
        /\ Len(m'.ops) = n /\ m'.ops[n] = op
    BY <1>2, <1>3 DEF Extends
  <1>5. \A o \in 1 .. Len(m.ops) : /\ m.ops[o].dst \in 1 .. Len(m.values)
                                   /\ m.values[m.ops[o].dst].op = o
                                   /\ m'.values[m.ops[o].dst] = m.values[m.ops[o].dst]
    BY <1>2 DEF Links, OpsLinked, valid_value, Extends
  <1>6. m'.values[op.dst] = value /\ value.block = b
    BY <1>2 DEF Extends, AddsOp
  <1>7. ASSUME NEW p \in 1 .. Len(m.ops), SameAs(m', n, p)
        PROVE  FALSE
    <2>1. PICK v : v = m.ops[p].dst
      OBVIOUS
    <2>2. v \in 1 .. Len(m.values) /\ m.values[v].op = p /\ m'.values[v] = m.values[v]
      BY <1>5, <1>7, <2>1
    <2>3. /\ op.opcode = m.ops[p].opcode /\ op.src = m.ops[p].src
          /\ op.imm = m.ops[p].imm /\ op.endian = m.ops[p].endian
          /\ value.type = m.values[v].type
          /\ value_number_is_global(op.opcode) \/ b = m.values[v].block
      BY <1>4, <1>6, <1>7, <2>1, <2>2 DEF SameAs
    <2>4. value_number_matches(m, v, b, op.opcode, value.type, op.src, op.imm, op.endian)
      BY <1>7, <2>2, <2>3 DEF value_number_matches, valid_value, valid_op
    <2>5. v \in m.vn
      BY <1>7, <2>1 DEF NumberingExact, AddsOp, Open
    <2>6. v \in value_number_lookup(m, b, op.opcode, value.type, op.src, op.imm, op.endian)
      BY <2>4, <2>5 DEF value_number_lookup
    <2> QED BY <2>6 DEF AddsOp
  <1>8. ASSUME NEW o \in 1 .. Len(m.ops), NEW p \in 1 .. Len(m.ops), SameAs(m', o, p)
        PROVE  o = p
    <2>1. SameExpression(o, p)
      BY <1>4, <1>5, <1>8 DEF SameAs, SameExpression
    <2> QED BY <1>8, <2>1 DEF NoDuplicateExpression
  <1>9. ASSUME NEW o \in 1 .. n, NEW p \in 1 .. n, SameAs(m', o, p)
        PROVE  o = p
    <2>1. SameAs(m', p, o)
      BY <1>9, SameAsSymmetric
    <2> QED BY <1>4, <1>7, <1>8, <1>9, <2>1
  <1>10. \A o, p : SameExpression(o, p)' => SameAs(m', o, p)
    BY DEF SameExpression, SameAs
  <1> QED BY <1>4, <1>9, <1>10 DEF NoDuplicateExpression

LEMMA ChangeUnique ==
  ASSUME TypeOK, Links, NumberingExact, NoDuplicateExpression, Changes(m, m')
  PROVE  NoDuplicateExpression'
  <1>1. ASSUME m'.ops = m.ops,
               \A o \in 1 .. Len(m.ops) : m'.values[m.ops[o].dst] = m.values[m.ops[o].dst]
        PROVE  NoDuplicateExpression'
    <2>1. ASSUME NEW o \in 1 .. Len(m.ops), NEW p \in 1 .. Len(m.ops), SameExpression(o, p)'
          PROVE  o = p
      <3>1. /\ m'.values[m.ops[o].dst] = m.values[m.ops[o].dst]
            /\ m'.values[m.ops[p].dst] = m.values[m.ops[p].dst]
        BY <1>1
      <3>2. SameExpression(o, p)
        BY <1>1, <2>1, <3>1 DEF SameExpression
      <3> QED BY <3>2 DEF NoDuplicateExpression
    <2> QED BY <1>1, <2>1 DEF NoDuplicateExpression
  <1>2. CASE Keeps(m, m')
    BY <1>1, <1>2 DEF Keeps
  <1>3. CASE AddsBlock(m, m')
    BY <1>1, <1>3 DEF AddsBlock
  <1>4. ASSUME NEW b, NEW value, AddsParam(m, m', b, value)
        PROVE  NoDuplicateExpression'
    <2>1. m.values \in Seq(ValueRecs)
      BY ModuleShape DEF TypeOK
    <2>2. Extends(m.values, m'.values, value) /\ m'.ops = m.ops
      BY <1>4, <2>1, AppendExtends DEF AddsParam
    <2>3. \A o \in 1 .. Len(m.ops) : m'.values[m.ops[o].dst] = m.values[m.ops[o].dst]
      BY <2>2 DEF Links, OpsLinked, valid_value, Extends
    <2> QED BY <1>1, <2>2, <2>3
  <1>5. CASE \E b, value, op : AddsOp(m, m', b, value, op)
    BY <1>5, AddsOpUnique
  <1>6. CASE \E b, term : AddsTerm(m, m', b, term)
    BY <1>1, <1>6 DEF AddsTerm
  <1>7. CASE Freezes(m, m')
    BY <1>1, <1>7 DEF Freezes
  <1> QED BY <1>2, <1>3, <1>4, <1>5, <1>6, <1>7 DEF Changes

(* What has been built stays where it is.                                  *)
Grows(a, n) ==
  /\ Len(a.values) <= Len(n.values) /\ Len(a.ops) <= Len(n.ops)
  /\ Len(a.blocks) <= Len(n.blocks) /\ Len(a.term_args) <= Len(n.term_args)
  /\ \A i \in 1 .. Len(a.term_args) : n.term_args[i] = a.term_args[i]
  /\ \A v \in 1 .. Len(a.values) : n.values[v] = a.values[v]
  /\ \A o \in 1 .. Len(a.ops) : n.ops[o] = a.ops[o]

(* A block read field by field after an update of one field.               *)
LEMMA BlockReads ==
  ASSUME NEW a \in Modules, NEW b, valid_block(a, b), NEW k \in Nat, NEW term \in TermRecs
  PROVE  /\ Len(WithParam(a, b, k)) = Len(a.blocks)
         /\ Len(WithOp(a, b, k)) = Len(a.blocks)
         /\ Len(WithTerm(a, b, term)) = Len(a.blocks)
         /\ \A c \in 1 .. Len(a.blocks) :
              /\ WithParam(a, b, k)[c].ops = a.blocks[c].ops
              /\ WithParam(a, b, k)[c].term = a.blocks[c].term
              /\ WithParam(a, b, k)[c].params
                   = IF c = b THEN Append(a.blocks[c].params, k) ELSE a.blocks[c].params
         /\ \A c \in 1 .. Len(a.blocks) :
              /\ WithOp(a, b, k)[c].params = a.blocks[c].params
              /\ WithOp(a, b, k)[c].term = a.blocks[c].term
              /\ WithOp(a, b, k)[c].ops
                   = IF c = b THEN Append(a.blocks[c].ops, k) ELSE a.blocks[c].ops
         /\ \A c \in 1 .. Len(a.blocks) :
              /\ WithTerm(a, b, term)[c].params = a.blocks[c].params
              /\ WithTerm(a, b, term)[c].ops = a.blocks[c].ops
              /\ WithTerm(a, b, term)[c].term = IF c = b THEN term ELSE a.blocks[c].term
  <1>1. /\ a.blocks \in Seq(BlockRecs) /\ b \in 1 .. Len(a.blocks)
        /\ \A c \in 1 .. Len(a.blocks) : a.blocks[c] \in BlockRecs
    BY ModuleShape, BlockShape DEF valid_block
  <1>2. \A c \in 1 .. Len(a.blocks) :
          DOMAIN a.blocks[c] = {"params", "ops", "term"}
    BY <1>1 DEF BlockRecs
  <1> QED BY <1>1, <1>2 DEF WithParam, WithOp, WithTerm

LEMMA ChangeGrows ==
  ASSUME NEW a \in Modules, NEW n, Changes(a, n)
  PROVE  Grows(a, n)
  <1>1. /\ a.values \in Seq(ValueRecs) /\ a.ops \in Seq(OpRecs) /\ a.blocks \in Seq(BlockRecs)
        /\ Len(a.values) \in Nat /\ Len(a.ops) \in Nat /\ Len(a.blocks) \in Nat
        /\ Len(a.term_args) \in Nat
    BY ModuleShape
  <1>2. CASE Keeps(a, n) \/ Freezes(a, n)
    BY <1>1, <1>2 DEF Keeps, Freezes, Grows, PoolKept
  <1>3. CASE AddsBlock(a, n)
    BY <1>1, <1>3 DEF AddsBlock, Grows
  <1>4. ASSUME NEW b, NEW value, AddsParam(a, n, b, value)
        PROVE  Grows(a, n)
    <2>1. Len(n.blocks) = Len(a.blocks)
      BY <1>1, <1>4 DEF AddsParam
    <2>2. Extends(a.values, n.values, value)
      BY <1>1, <1>4, AppendExtends DEF AddsParam
    <2> QED BY <1>1, <1>4, <2>1, <2>2 DEF AddsParam, Extends, Grows
  <1>5. ASSUME NEW b, NEW value, NEW op, AddsOp(a, n, b, value, op)
        PROVE  Grows(a, n)
    <2>1. Len(n.blocks) = Len(a.blocks)
      BY <1>1, <1>5 DEF AddsOp
    <2>2. Extends(a.values, n.values, value) /\ Extends(a.ops, n.ops, op)
      BY <1>1, <1>5, AppendExtends DEF AddsOp
    <2>3. n.term_args = a.term_args
      BY <1>5 DEF AddsOp
    <2> QED BY <1>1, <2>1, <2>2, <2>3 DEF Extends, Grows
  <1>6. ASSUME NEW b, NEW term, AddsTerm(a, n, b, term)
        PROVE  Grows(a, n)
    <2>1. Len(n.blocks) = Len(a.blocks)
      BY <1>1, <1>6 DEF AddsTerm
    <2> QED BY <1>1, <1>6, <2>1 DEF AddsTerm, PoolKept, Grows
  <1> QED BY <1>2, <1>3, <1>4, <1>5, <1>6 DEF Changes

(* The pool, terminator by terminator.                                     *)
PoolDisjoint(mod) ==
  \A b \in 1 .. Len(mod.blocks) :
    /\ Spans(mod.blocks[b].term) \subseteq 1 .. Len(mod.term_args)
    /\ TrueSpan(mod.blocks[b].term) \cap FalseSpan(mod.blocks[b].term) = {}
    /\ \A c \in 1 .. Len(mod.blocks) :
         b # c => Spans(mod.blocks[b].term) \cap Spans(mod.blocks[c].term) = {}

LEMMA PoolByModule == (TermArgsDisjoint <=> PoolDisjoint(m)) /\ (TermArgsDisjoint' <=> PoolDisjoint(m'))
  BY DEF TermArgsDisjoint, PoolDisjoint, TrueRange, FalseRange, Spans, TrueSpan, FalseSpan

(* No terminator is new.                                                   *)
LEMMA SamePool ==
  ASSUME NEW a, NEW n, PoolDisjoint(a), Len(n.blocks) = Len(a.blocks),
         \A c \in 1 .. Len(a.blocks) : n.blocks[c].term = a.blocks[c].term,
         Len(a.term_args) \in Nat, Len(n.term_args) \in Nat,
         Len(a.term_args) <= Len(n.term_args)
  PROVE  PoolDisjoint(n)
  <1>1. 1 .. Len(a.term_args) \subseteq 1 .. Len(n.term_args)
    OBVIOUS
  <1> QED BY <1>1 DEF PoolDisjoint

(* The new terminator owns what it added to the pool, the others lie below.*)
LEMMA AddsTermPool ==
  ASSUME NEW a \in Modules, NEW n, PoolDisjoint(a), NEW b, NEW term, AddsTerm(a, n, b, term)
  PROVE  PoolDisjoint(n)
  <1>1. /\ n \in Modules /\ valid_block(a, b) /\ term \in TermRecs /\ OwnSpans(a, n, term)
        /\ n.blocks = WithTerm(a, b, term)
    BY DEF AddsTerm, Open, WithTerm
  <1>2. Len(n.blocks) = Len(a.blocks)
    BY <1>1, BlockReads
  <1>3. \A c \in 1 .. Len(a.blocks) :
          n.blocks[c].term = IF c = b THEN term ELSE a.blocks[c].term
    BY <1>1, BlockReads
  <1>4. Len(a.term_args) \in Nat /\ Len(n.term_args) \in Nat /\ Len(a.term_args) <= Len(n.term_args)
    BY <1>1, ModuleShape DEF OwnSpans
  <1>5. /\ 1 .. Len(a.term_args) \subseteq 1 .. Len(n.term_args)
        /\ Spans(term) \subseteq 1 .. Len(n.term_args)
        /\ Spans(term) \cap 1 .. Len(a.term_args) = {}
        /\ TrueSpan(term) \cap FalseSpan(term) = {}
    BY <1>1, <1>4 DEF OwnSpans
  <1>6. ASSUME NEW c \in 1 .. Len(a.blocks)
        PROVE  /\ Spans(n.blocks[c].term) \subseteq 1 .. Len(n.term_args)
               /\ TrueSpan(n.blocks[c].term) \cap FalseSpan(n.blocks[c].term) = {}
    BY <1>3, <1>5 DEF PoolDisjoint
  <1>7. ASSUME NEW c \in 1 .. Len(a.blocks), NEW d \in 1 .. Len(a.blocks), c # d
        PROVE  Spans(n.blocks[c].term) \cap Spans(n.blocks[d].term) = {}
    <2>1. /\ Spans(a.blocks[c].term) \subseteq 1 .. Len(a.term_args)
          /\ Spans(a.blocks[d].term) \subseteq 1 .. Len(a.term_args)
          /\ Spans(a.blocks[c].term) \cap Spans(a.blocks[d].term) = {}
      BY <1>7 DEF PoolDisjoint
    <2> QED BY <1>3, <1>5, <1>7, <2>1
  <1> QED BY <1>2, <1>6, <1>7 DEF PoolDisjoint

LEMMA ChangePool ==
  ASSUME NEW a \in Modules, NEW n, PoolDisjoint(a), Changes(a, n)
  PROVE  PoolDisjoint(n)
  <1>1. /\ Len(a.blocks) \in Nat /\ Len(a.term_args) \in Nat /\ a.blocks \in Seq(BlockRecs)
        /\ Len(a.term_args) <= Len(n.term_args)
    BY ModuleShape, ChangeGrows DEF Grows
  <1>2. n \in Modules /\ Len(n.term_args) \in Nat
    <2>1. n \in Modules
      BY DEF Changes, Keeps, AddsBlock, AddsParam, AddsOp, AddsTerm, Freezes
    <2> QED BY <2>1, ModuleShape
  <1>3. CASE Keeps(a, n) \/ Freezes(a, n)
    <2>1. n.blocks = a.blocks
      BY <1>3 DEF Keeps, Freezes
    <2> QED BY <1>1, <1>2, <2>1, SamePool
  <1>4. CASE AddsBlock(a, n)
    <2>1. Extends(a.blocks, n.blocks, EmptyBlock) /\ n.term_args = a.term_args
      BY <1>1, <1>4, AppendExtends DEF AddsBlock
    <2>2. TrueSpan(EmptyBlock.term) = {} /\ FalseSpan(EmptyBlock.term) = {}
      BY DEF EmptyBlock, NoTerm, TrueSpan, FalseSpan
    <2>3. /\ \A c \in 1 .. Len(n.blocks) :
               c \in 1 .. Len(a.blocks) \/ n.blocks[c] = EmptyBlock
          /\ \A c \in 1 .. Len(a.blocks) : n.blocks[c] = a.blocks[c]
      BY <2>1 DEF Extends
    <2> QED BY <2>1, <2>2, <2>3 DEF PoolDisjoint, Spans
  <1>5. ASSUME NEW b, NEW value, AddsParam(a, n, b, value)
        PROVE  PoolDisjoint(n)
    <2>1. valid_block(a, b) /\ n.blocks = WithParam(a, b, Len(a.values) + 1)
      BY <1>5 DEF AddsParam, Open, WithParam
    <2>2. PICK k \in Nat : k = Len(a.values) + 1
      BY ModuleShape
    <2>3. NoTerm \in TermRecs
      BY NoTermShape
    <2>4. /\ Len(n.blocks) = Len(a.blocks)
          /\ \A c \in 1 .. Len(a.blocks) : n.blocks[c].term = a.blocks[c].term
      BY <2>1, <2>2, <2>3, BlockReads
    <2> QED BY <1>1, <1>2, <2>4, SamePool
  <1>6. ASSUME NEW b, NEW value, NEW op, AddsOp(a, n, b, value, op)
        PROVE  PoolDisjoint(n)
    <2>1. valid_block(a, b) /\ n.blocks = WithOp(a, b, Len(a.ops) + 1)
      BY <1>6 DEF AddsOp, Open, WithOp
    <2>2. PICK k \in Nat : k = Len(a.ops) + 1
      BY ModuleShape
    <2>3. NoTerm \in TermRecs
      BY NoTermShape
    <2>4. /\ Len(n.blocks) = Len(a.blocks)
          /\ \A c \in 1 .. Len(a.blocks) : n.blocks[c].term = a.blocks[c].term
      BY <2>1, <2>2, <2>3, BlockReads
    <2> QED BY <1>1, <1>2, <2>4, SamePool
  <1>7. CASE \E b, term : AddsTerm(a, n, b, term)
    BY <1>7, AddsTermPool
  <1> QED BY <1>3, <1>4, <1>5, <1>6, <1>7 DEF Changes

-----------------------------------------------------------------------------
(* The lists of a block.                                                   *)

(* A value or an operation of a module never leaves its place, so what a   *)
(* block lists stays its own.                                              *)
DestinationsExist(a) == \A o \in 1 .. Len(a.ops) : valid_value(a, a.ops[o].dst)

ParamsOwned(mod, b, params) ==
  /\ \A i \in 1 .. Len(params) :
       /\ valid_value(mod, params[i])
       /\ mod.values[params[i]].block = b /\ mod.values[params[i]].op = INVALID
  /\ \A i, j \in 1 .. Len(params) : i < j => params[i] < params[j]

OpsOwned(mod, b, ops) ==
  /\ \A i \in 1 .. Len(ops) :
       valid_op(mod, ops[i]) /\ mod.values[mod.ops[ops[i]].dst].block = b
  /\ \A i, j \in 1 .. Len(ops) : i < j => ops[i] < ops[j]

LEMMA OwnsByField ==
  ASSUME NEW mod, NEW b
  PROVE  OwnsLists(mod, b) <=> /\ ParamsOwned(mod, b, mod.blocks[b].params)
                               /\ OpsOwned(mod, b, mod.blocks[b].ops)
  BY DEF OwnsLists, ParamsOwned, OpsOwned

LEMMA OwnedAfterGrowth ==
  ASSUME NEW a \in Modules, NEW n \in Modules, Grows(a, n), DestinationsExist(a),
         NEW b, NEW params \in Seq(Nat), NEW ops \in Seq(Nat)
  PROVE  /\ ParamsOwned(a, b, params) => ParamsOwned(n, b, params)
         /\ OpsOwned(a, b, ops) => OpsOwned(n, b, ops)
  <1>1. /\ Len(a.values) \in Nat /\ Len(n.values) \in Nat
        /\ Len(a.ops) \in Nat /\ Len(n.ops) \in Nat
    BY ModuleShape
  <1>2. ASSUME NEW v, valid_value(a, v)
        PROVE  valid_value(n, v) /\ n.values[v] = a.values[v]
    BY <1>1, <1>2 DEF valid_value, Grows
  <1>3. ASSUME NEW o, valid_op(a, o)
        PROVE  /\ valid_op(n, o) /\ n.ops[o] = a.ops[o]
               /\ n.values[n.ops[o].dst] = a.values[a.ops[o].dst]
    <2>1. valid_op(n, o) /\ n.ops[o] = a.ops[o] /\ valid_value(a, a.ops[o].dst)
      BY <1>1, <1>3 DEF valid_op, Grows, DestinationsExist
    <2> QED BY <1>2, <2>1
  <1>4. ParamsOwned(a, b, params) => ParamsOwned(n, b, params)
    BY <1>2 DEF ParamsOwned
  <1>5. OpsOwned(a, b, ops) => OpsOwned(n, b, ops)
    BY <1>3 DEF OpsOwned
  <1> QED BY <1>4, <1>5

(* A block that gains nothing.                                             *)
LEMMA SameListsOwned ==
  ASSUME NEW a \in Modules, NEW n \in Modules, Grows(a, n), DestinationsExist(a),
         NEW b \in 1 .. Len(a.blocks), OwnsLists(a, b),
         n.blocks[b].params = a.blocks[b].params, n.blocks[b].ops = a.blocks[b].ops
  PROVE  OwnsLists(n, b)
  <1>1. a.blocks[b].params \in Seq(Nat) /\ a.blocks[b].ops \in Seq(Nat)
    BY BlockShape DEF BlockRecs, valid_block
  <1> QED BY <1>1, OwnedAfterGrowth, OwnsByField

(* The new parameter, and the new operation, come last.                    *)
LEMMA ParamListed ==
  ASSUME NEW a \in Modules, NEW n \in Modules, NEW b, NEW params \in Seq(Nat),
         ParamsOwned(a, b, params), ParamsOwned(n, b, params),
         NEW k \in Nat, k = Len(a.values) + 1, valid_value(n, k),
         n.values[k].block = b, n.values[k].op = INVALID
  PROVE  ParamsOwned(n, b, Append(params, k))
  <1>1. PICK longer : longer = Append(params, k)
    OBVIOUS
  <1>2. /\ Len(params) \in Nat /\ Len(longer) = Len(params) + 1
        /\ \A i \in 1 .. Len(longer) : i \in 1 .. Len(params) \/ i = Len(longer)
        /\ \A i \in 1 .. Len(params) : longer[i] = params[i]
        /\ longer[Len(longer)] = k
    BY <1>1
  <1>3. Len(a.values) \in Nat /\ \A i \in 1 .. Len(params) : params[i] < k
    BY ModuleShape DEF ParamsOwned, valid_value
  <1>4. \A i \in 1 .. Len(longer) :
          /\ valid_value(n, longer[i])
          /\ n.values[longer[i]].block = b /\ n.values[longer[i]].op = INVALID
    BY <1>2 DEF ParamsOwned
  <1>5. ASSUME NEW i \in 1 .. Len(longer), NEW j \in 1 .. Len(longer), i < j
        PROVE  longer[i] < longer[j]
    <2>1. i \in 1 .. Len(params)
      BY <1>2, <1>5
    <2>2. CASE j = Len(longer)
      BY <1>2, <1>3, <2>1, <2>2
    <2>3. CASE j \in 1 .. Len(params)
      BY <1>2, <1>5, <2>1, <2>3 DEF ParamsOwned
    <2> QED BY <1>2, <2>2, <2>3
  <1> QED BY <1>1, <1>4, <1>5 DEF ParamsOwned

LEMMA OpListed ==
  ASSUME NEW a \in Modules, NEW n \in Modules, NEW b, NEW ops \in Seq(Nat),
         OpsOwned(a, b, ops), OpsOwned(n, b, ops),
         NEW k \in Nat, k = Len(a.ops) + 1, valid_op(n, k),
         n.values[n.ops[k].dst].block = b
  PROVE  OpsOwned(n, b, Append(ops, k))
  <1>1. PICK longer : longer = Append(ops, k)
    OBVIOUS
  <1>2. /\ Len(ops) \in Nat /\ Len(longer) = Len(ops) + 1
        /\ \A i \in 1 .. Len(longer) : i \in 1 .. Len(ops) \/ i = Len(longer)
        /\ \A i \in 1 .. Len(ops) : longer[i] = ops[i]
        /\ longer[Len(longer)] = k
    BY <1>1
  <1>3. Len(a.ops) \in Nat /\ \A i \in 1 .. Len(ops) : ops[i] < k
    BY ModuleShape DEF OpsOwned, valid_op
  <1>4. \A i \in 1 .. Len(longer) :
          valid_op(n, longer[i]) /\ n.values[n.ops[longer[i]].dst].block = b
    BY <1>2 DEF OpsOwned
  <1>5. ASSUME NEW i \in 1 .. Len(longer), NEW j \in 1 .. Len(longer), i < j
        PROVE  longer[i] < longer[j]
    <2>1. i \in 1 .. Len(ops)
      BY <1>2, <1>5
    <2>2. CASE j = Len(longer)
      BY <1>2, <1>3, <2>1, <2>2
    <2>3. CASE j \in 1 .. Len(ops)
      BY <1>2, <1>5, <2>1, <2>3 DEF OpsOwned
    <2> QED BY <1>2, <2>2, <2>3
  <1> QED BY <1>1, <1>4, <1>5 DEF OpsOwned

LEMMA ChangeOwned ==
  ASSUME NEW a \in Modules, NEW n, Changes(a, n), DestinationsExist(a),
         \A b \in 1 .. Len(a.blocks) : OwnsLists(a, b)
  PROVE  \A b \in 1 .. Len(n.blocks) : OwnsLists(n, b)
  <1>1. n \in Modules /\ Grows(a, n)
    BY ChangeGrows DEF Changes, Keeps, AddsBlock, AddsParam, AddsOp, AddsTerm, Freezes
  <1>2. /\ a.values \in Seq(ValueRecs) /\ a.ops \in Seq(OpRecs) /\ a.blocks \in Seq(BlockRecs)
        /\ Len(a.values) \in Nat /\ Len(a.ops) \in Nat /\ Len(a.blocks) \in Nat
    BY ModuleShape
  <1>3. ASSUME NEW b \in 1 .. Len(a.blocks)
        PROVE  a.blocks[b].params \in Seq(Nat) /\ a.blocks[b].ops \in Seq(Nat)
    BY BlockShape DEF BlockRecs, valid_block
  <1>4. CASE Keeps(a, n) \/ Freezes(a, n)
    <2>1. n.blocks = a.blocks
      BY <1>4 DEF Keeps, Freezes
    <2> QED BY <1>1, <2>1, SameListsOwned
  <1>5. CASE AddsBlock(a, n)
    <2>1. Extends(a.blocks, n.blocks, EmptyBlock)
      BY <1>2, <1>5, AppendExtends DEF AddsBlock
    <2>2. /\ \A c \in 1 .. Len(n.blocks) :
               c \in 1 .. Len(a.blocks) \/ n.blocks[c] = EmptyBlock
          /\ \A c \in 1 .. Len(a.blocks) : n.blocks[c] = a.blocks[c]
      BY <2>1 DEF Extends
    <2>3. ASSUME NEW b, n.blocks[b] = EmptyBlock
          PROVE  OwnsLists(n, b)
      <3>1. n.blocks[b].params = <<>> /\ n.blocks[b].ops = <<>>
        BY <2>3 DEF EmptyBlock
      <3>2. ParamsOwned(n, b, <<>>) /\ OpsOwned(n, b, <<>>)
        BY DEF ParamsOwned, OpsOwned
      <3> QED BY <3>1, <3>2, OwnsByField
    <2>4. \A b \in 1 .. Len(a.blocks) : OwnsLists(n, b)
      BY <1>1, <2>2, SameListsOwned
    <2> QED BY <2>2, <2>3, <2>4
  <1>6. ASSUME NEW c, NEW value, AddsParam(a, n, c, value), NEW b \in 1 .. Len(n.blocks)
        PROVE  OwnsLists(n, b)
    <2>1. /\ valid_block(a, c) /\ n.blocks = WithParam(a, c, Len(a.values) + 1)
          /\ n.values = Append(a.values, value) /\ value.block = c /\ value.op = INVALID
      BY <1>6 DEF AddsParam, Open, WithParam
    <2>2. PICK k \in Nat : k = Len(a.values) + 1
      BY <1>2
    <2>3. b \in 1 .. Len(a.blocks) /\ n.blocks[b].ops = a.blocks[b].ops
          /\ n.blocks[b].params = IF b = c THEN Append(a.blocks[b].params, k)
                                  ELSE a.blocks[b].params
      BY <1>6, <2>1, <2>2, BlockReads, NoTermShape
    <2>4. CASE b # c
      BY <1>1, <2>3, <2>4, SameListsOwned
    <2>5. CASE b = c
      <3>1. /\ ParamsOwned(a, b, a.blocks[b].params) /\ ParamsOwned(n, b, a.blocks[b].params)
            /\ OpsOwned(n, b, a.blocks[b].ops)
        BY <1>1, <1>3, <2>3, OwnedAfterGrowth, OwnsByField
      <3>2. valid_value(n, k) /\ n.values[k] = value
        BY <1>2, <2>1, <2>2 DEF valid_value
      <3>3. ParamsOwned(n, b, Append(a.blocks[b].params, k))
        BY <1>1, <1>3, <2>1, <2>2, <2>3, <2>5, <3>1, <3>2, ParamListed
      <3> QED BY <2>3, <2>5, <3>1, <3>3, OwnsByField
    <2> QED BY <2>4, <2>5
  <1>7. ASSUME NEW c, NEW value, NEW op, AddsOp(a, n, c, value, op), NEW b \in 1 .. Len(n.blocks)
        PROVE  OwnsLists(n, b)
    <2>1. /\ valid_block(a, c) /\ n.blocks = WithOp(a, c, Len(a.ops) + 1)
          /\ n.values = Append(a.values, value) /\ n.ops = Append(a.ops, op)
          /\ value.block = c /\ op.dst = Len(a.values) + 1
      BY <1>7 DEF AddsOp, Open, WithOp
    <2>2. PICK k \in Nat : k = Len(a.ops) + 1
      BY <1>2
    <2>3. b \in 1 .. Len(a.blocks) /\ n.blocks[b].params = a.blocks[b].params
          /\ n.blocks[b].ops = IF b = c THEN Append(a.blocks[b].ops, k) ELSE a.blocks[b].ops
      BY <1>7, <2>1, <2>2, BlockReads, NoTermShape
    <2>4. CASE b # c
      BY <1>1, <2>3, <2>4, SameListsOwned
    <2>5. CASE b = c
      <3>1. /\ OpsOwned(a, b, a.blocks[b].ops) /\ OpsOwned(n, b, a.blocks[b].ops)
            /\ ParamsOwned(n, b, a.blocks[b].params)
        BY <1>1, <1>3, <2>3, OwnedAfterGrowth, OwnsByField
      <3>2. valid_op(n, k) /\ n.ops[k] = op
        BY <1>2, <2>1, <2>2 DEF valid_op
      <3>3. n.values[op.dst] = value
        BY <1>2, <2>1
      <3>4. OpsOwned(n, b, Append(a.blocks[b].ops, k))
        BY <1>1, <1>3, <2>1, <2>2, <2>3, <2>5, <3>1, <3>2, <3>3, OpListed
      <3> QED BY <2>3, <2>5, <3>1, <3>4, OwnsByField
    <2> QED BY <2>4, <2>5
  <1>8. ASSUME NEW c, NEW term, AddsTerm(a, n, c, term), NEW b \in 1 .. Len(n.blocks)
        PROVE  OwnsLists(n, b)
    <2>1. valid_block(a, c) /\ n.blocks = WithTerm(a, c, term) /\ term \in TermRecs /\ 0 \in Nat
      BY <1>8 DEF AddsTerm, Open, WithTerm
    <2>2. b \in 1 .. Len(a.blocks) /\ n.blocks[b].params = a.blocks[b].params
          /\ n.blocks[b].ops = a.blocks[b].ops
      BY <1>8, <2>1, BlockReads
    <2> QED BY <1>1, <2>2, SameListsOwned
  <1> QED BY <1>4, <1>5, <1>6, <1>7, <1>8 DEF Changes

(* Nothing leaves a list.                                                  *)
ListsGrow(a, n) ==
  \A b \in 1 .. Len(a.blocks) :
    /\ ElemsOf(a.blocks[b].params) \subseteq ElemsOf(n.blocks[b].params)
    /\ ElemsOf(a.blocks[b].ops) \subseteq ElemsOf(n.blocks[b].ops)

LEMMA AppendElems ==
  ASSUME NEW s \in Seq(Nat), NEW k
  PROVE  ElemsOf(Append(s, k)) = ElemsOf(s) \cup {k}
  <1>1. PICK t : t = Append(s, k)
    OBVIOUS
  <1>2. /\ Len(s) \in Nat /\ Len(t) = Len(s) + 1 /\ t[Len(t)] = k
        /\ \A i \in 1 .. Len(s) : i \in 1 .. Len(t) /\ t[i] = s[i]
        /\ \A i \in 1 .. Len(t) : i \in 1 .. Len(s) \/ i = Len(t)
        /\ Len(t) \in 1 .. Len(t)
    BY <1>1
  <1> QED BY <1>1, <1>2 DEF ElemsOf

LEMMA OldListed ==
  ASSUME NEW a \in Modules, NEW n, Grows(a, n), ListsGrow(a, n), NEW v, valid_value(a, v),
         valid_block(a, a.values[v].block), IsListed(a, v)
  PROVE  IsListed(n, v)
  <1>1. n.values[v] = a.values[v]
    BY DEF Grows, valid_value
  <1> QED BY <1>1 DEF IsListed, ListsGrow, valid_block

LEMMA ChangeComplete ==
  ASSUME NEW a \in Modules, NEW n, Changes(a, n),
         \A v \in 1 .. Len(a.values) : valid_block(a, a.values[v].block) /\ IsListed(a, v)
  PROVE  \A v \in 1 .. Len(n.values) : IsListed(n, v)
  <1>1. Grows(a, n)
    BY ChangeGrows
  <1>2. /\ a.values \in Seq(ValueRecs) /\ a.ops \in Seq(OpRecs) /\ a.blocks \in Seq(BlockRecs)
        /\ Len(a.values) \in Nat /\ Len(a.ops) \in Nat /\ Len(a.blocks) \in Nat
    BY ModuleShape
  <1>3. ASSUME NEW b \in 1 .. Len(a.blocks)
        PROVE  a.blocks[b].params \in Seq(Nat) /\ a.blocks[b].ops \in Seq(Nat)
    BY BlockShape DEF BlockRecs, valid_block
  <1>4. ASSUME n.values = a.values,
               \A b \in 1 .. Len(a.blocks) : /\ n.blocks[b].params = a.blocks[b].params
                                             /\ n.blocks[b].ops = a.blocks[b].ops
        PROVE  \A v \in 1 .. Len(n.values) : IsListed(n, v)
    <2>1. ListsGrow(a, n)
      BY <1>4 DEF ListsGrow
    <2> QED BY <1>1, <1>4, <2>1, OldListed DEF valid_value
  <1>5. CASE Keeps(a, n) \/ Freezes(a, n)
    BY <1>4, <1>5 DEF Keeps, Freezes
  <1>6. CASE AddsBlock(a, n)
    <2>1. Extends(a.blocks, n.blocks, EmptyBlock)
      BY <1>2, <1>6, AppendExtends DEF AddsBlock
    <2>2. \A c \in 1 .. Len(a.blocks) : n.blocks[c] = a.blocks[c]
      BY <2>1 DEF Extends
    <2> QED BY <1>4, <1>6, <2>2 DEF AddsBlock
  <1>7. ASSUME NEW c, NEW value, AddsParam(a, n, c, value)
        PROVE  \A v \in 1 .. Len(n.values) : IsListed(n, v)
    <2>1. /\ valid_block(a, c) /\ n.blocks = WithParam(a, c, Len(a.values) + 1)
          /\ n.values = Append(a.values, value) /\ value.block = c /\ value.op = INVALID
      BY <1>7 DEF AddsParam, Open, WithParam
    <2>2. PICK k \in Nat : k = Len(a.values) + 1
      BY <1>2
    <2>3. ASSUME NEW b \in 1 .. Len(a.blocks)
          PROVE  /\ n.blocks[b].ops = a.blocks[b].ops
                 /\ n.blocks[b].params = IF b = c THEN Append(a.blocks[b].params, k)
                                         ELSE a.blocks[b].params
      BY <2>1, <2>2, BlockReads, NoTermShape
    <2>4. ListsGrow(a, n)
      BY <1>3, <2>3, AppendElems DEF ListsGrow
    <2>5. IsListed(n, k)
      <3>1. n.values[k] = value /\ c \in 1 .. Len(a.blocks)
        BY <1>2, <2>1, <2>2 DEF valid_block
      <3>2. k \in ElemsOf(n.blocks[c].params)
        BY <1>3, <2>3, <3>1, AppendElems
      <3> QED BY <2>1, <3>1, <3>2 DEF IsListed
    <2>6. \A v \in 1 .. Len(n.values) : v \in 1 .. Len(a.values) \/ v = k
      BY <1>2, <2>1, <2>2
    <2> QED BY <1>1, <2>4, <2>5, <2>6, OldListed DEF valid_value
  <1>8. ASSUME NEW c, NEW value, NEW op, AddsOp(a, n, c, value, op)
        PROVE  \A v \in 1 .. Len(n.values) : IsListed(n, v)
    <2>1. /\ valid_block(a, c) /\ n.blocks = WithOp(a, c, Len(a.ops) + 1)
          /\ n.values = Append(a.values, value) /\ value.block = c /\ value.op = Len(a.ops) + 1
      BY <1>8 DEF AddsOp, Open, WithOp
    <2>2. PICK o \in Nat : o = Len(a.ops) + 1
      BY <1>2
    <2>3. ASSUME NEW b \in 1 .. Len(a.blocks)
          PROVE  /\ n.blocks[b].params = a.blocks[b].params
                 /\ n.blocks[b].ops = IF b = c THEN Append(a.blocks[b].ops, o)
                                      ELSE a.blocks[b].ops
      BY <2>1, <2>2, BlockReads, NoTermShape
    <2>4. ListsGrow(a, n)
      BY <1>3, <2>3, AppendElems DEF ListsGrow
    <2>5. PICK k \in Nat : k = Len(a.values) + 1
      BY <1>2
    <2>6. IsListed(n, k)
      <3>1. n.values[k] = value /\ c \in 1 .. Len(a.blocks)
        BY <1>2, <2>1, <2>5 DEF valid_block
      <3>2. n.blocks[c].ops = Append(a.blocks[c].ops, o) /\ a.blocks[c].ops \in Seq(Nat)
        BY <1>3, <2>3, <3>1
      <3>3. o \in ElemsOf(n.blocks[c].ops)
        BY <3>2, AppendElems
      <3>4. value.op = o /\ o # INVALID
        BY <1>2, <2>1, <2>2 DEF INVALID
      <3> QED BY <2>1, <3>1, <3>3, <3>4 DEF IsListed
    <2>7. \A v \in 1 .. Len(n.values) : v \in 1 .. Len(a.values) \/ v = k
      BY <1>2, <2>1, <2>5
    <2> QED BY <1>1, <2>4, <2>6, <2>7, OldListed DEF valid_value
  <1>9. ASSUME NEW c, NEW term, AddsTerm(a, n, c, term)
        PROVE  \A v \in 1 .. Len(n.values) : IsListed(n, v)
    <2>1. valid_block(a, c) /\ n.blocks = WithTerm(a, c, term) /\ term \in TermRecs /\ 0 \in Nat
      BY <1>9 DEF AddsTerm, Open, WithTerm
    <2>2. \A b \in 1 .. Len(a.blocks) : /\ n.blocks[b].params = a.blocks[b].params
                                        /\ n.blocks[b].ops = a.blocks[b].ops
      BY <2>1, BlockReads
    <2> QED BY <1>4, <1>9, <2>2 DEF AddsTerm
  <1> QED BY <1>5, <1>6, <1>7, <1>8, <1>9 DEF Changes

LEMMA ChangeLists ==
  ASSUME TypeOK, Links, Lists, Changes(m, m')
  PROVE  Lists'
  <1>1. m \in Modules /\ DestinationsExist(m)
    BY DEF TypeOK, Links, OpsLinked, DestinationsExist
  <1>2. \A b \in 1 .. Len(m'.blocks) : OwnsLists(m', b)
    BY <1>1, ChangeOwned DEF Lists, ListsOwned
  <1>3. \A v \in 1 .. Len(m'.values) : IsListed(m', v)
    BY <1>1, ChangeComplete DEF Lists, ListsComplete, Links, ValuesLinked
  <1> QED BY <1>2, <1>3 DEF Lists, ListsOwned, ListsComplete

LEMMA ChangeFrozen ==
  ASSUME TypeOK, Changes(m, m')
  PROVE  m' \in Modules /\ (m.frozen => m' = m)
  BY DEF Changes, Keeps, AddsBlock, AddsParam, AddsOp, AddsTerm, Freezes, Open

LEMMA InvNext ==
  ASSUME Inv, [Next]_vars
  PROVE  Inv'
  <1>1. CASE UNCHANGED vars
    <2>1. m' = m /\ held' = held /\ status' = status
      BY <1>1 DEF vars
    <2>2. TypeOK' /\ HandedOverFrozen' /\ NumberingExact' /\ NoDuplicateExpression'
      BY <2>1 DEF Inv, TypeOK, HandedOverFrozen, NumberingExact, NoDuplicateExpression,
                  SameExpression
    <2>3. Links'
      BY <2>1, OtherLinks DEF Inv, TypeOK
    <2>4. Lists' /\ TermArgsDisjoint'
      <3>1. Changes(m, m')
        BY <2>1, KeepsSelf DEF Inv, TypeOK, Changes
      <3> QED BY <3>1, ChangeLists, ChangePool, PoolByModule DEF Inv, TypeOK
    <2> QED BY <2>2, <2>3, <2>4 DEF Inv
  <1>2. CASE Next
    <2>1. StepEffect
      BY <1>2, NextEffect DEF Inv
    <2>2. Changes(m, m')
      BY <2>1 DEF StepEffect, Changes
    <2>3. TypeOK'
      BY <2>1, <2>2, ChangeFrozen DEF Inv, StepEffect, TypeOK
    <2>4. Links' /\ NumberingExact' /\ NoDuplicateExpression'
      BY <2>2, ChangeLinks, ChangeNumbering, ChangeUnique DEF Inv
    <2>5. HandedOverFrozen'
      BY <2>1, <2>2, ChangeFrozen DEF Inv, StepEffect, HandedOverFrozen
    <2>6. Lists' /\ TermArgsDisjoint'
      BY <2>2, ChangeLists, ChangePool, PoolByModule DEF Inv, TypeOK
    <2> QED BY <2>3, <2>4, <2>5, <2>6 DEF Inv
  <1> QED BY <1>1, <1>2

LEMMA InvAlways == Spec => []Inv
  <1>1. Init => Inv
    BY InvInit
  <1>2. Inv /\ [Next]_vars => Inv'
    BY InvNext
  <1> QED BY <1>1, <1>2, PTL DEF Spec

-----------------------------------------------------------------------------
(* The theorems.                                                           *)

(* Every field of a module under construction keeps its shape, whatever    *)
(* the client calls and whichever allocation fails (src/xair.c).           *)
THEOREM TypeOKAlways == Spec => []TypeOK
  <1>1. Inv => TypeOK
    BY DEF Inv
  <1> QED BY <1>1, InvAlways, PTL

(* An operation and its destination always name each other: add_op's       *)
(* roll-backs leave no half of the pair behind.                            *)
THEOREM OpsLinkedAlways == Spec => []OpsLinked
  <1>1. Inv => OpsLinked
    BY DEF Inv, Links
  <1> QED BY <1>1, InvAlways, PTL

(* Every value lies in a block of the module and is a parameter or the     *)
(* destination of the operation it names.                                  *)
THEOREM ValuesLinkedAlways == Spec => []ValuesLinked
  <1>1. Inv => ValuesLinked
    BY DEF Inv, Links
  <1> QED BY <1>1, InvAlways, PTL

(* SSA by construction: the builders accept only operands that exist, so   *)
(* an operand always precedes the destination of its operation.            *)
THEOREM DefinedBeforeUseAlways == Spec => []DefinedBeforeUse
  <1>1. Inv => DefinedBeforeUse
    BY DEF Inv, Links
  <1> QED BY <1>1, InvAlways, PTL

(* Links, types and definition before use together, for every module a     *)
(* client can build and whatever allocations fail.                         *)
THEOREM WellLinkedAlways == Spec => []WellLinked
  <1>1. Inv => WellLinked
    BY DEF Inv, Links, WellLinked
  <1> QED BY <1>1, InvAlways, PTL

(* The value numbering table holds the results of all operations and       *)
(* nothing else until the freeze empties it: an operation that was rolled  *)
(* back is never found again.                                              *)
THEOREM NumberingExactAlways == Spec => []NumberingExact
  <1>1. Inv => NumberingExact
    BY DEF Inv
  <1> QED BY <1>1, InvAlways, PTL

(* add_op never builds an expression a second time: not in its block, and  *)
(* for constants not in the module.                                        *)
THEOREM NoDuplicateExpressionAlways == Spec => []NoDuplicateExpression
  <1>1. Inv => NoDuplicateExpression
    BY DEF Inv
  <1> QED BY <1>1, InvAlways, PTL

(* The table is exact and no expression exists twice.                      *)
THEOREM PooledExactlyAlways == Spec => []PooledExactly
  <1>1. Inv => PooledExactly
    BY DEF Inv, PooledExactly
  <1> QED BY <1>1, InvAlways, PTL

(* A block lists what is its own, in creation order, and every value is    *)
(* listed by its block: the scan of the verifier then decides locality.    *)
LEMMA ScanDecidesLocality ==
  ASSUME TypeOK, Links, Lists
  PROVE  ScanIsLocality
  <1>1. SUFFICES ASSUME NEW b \in 1 .. Len(m.blocks)
                 PROVE  /\ VerifyParams(m, b)
                        /\ \A i \in 1 .. Len(m.blocks[b].ops) :
                             /\ VerifyDestination(m, b, m.blocks[b].ops[i])
                             /\ \A v \in ElemsOf(m.ops[m.blocks[b].ops[i]].src) :
                                  value_is_available(m, Available(m, b, i), v)
                                    <=> m.values[v].block = b \/ value_is_global_const(m, v)
    BY DEF ScanIsLocality
  <1>2. PICK params, ops : params = m.blocks[b].params /\ ops = m.blocks[b].ops
    OBVIOUS
  <1>3. params \in Seq(Nat) /\ ops \in Seq(Nat) /\ Len(params) \in Nat /\ Len(ops) \in Nat
    <2>1. m.blocks[b] \in BlockRecs
      BY BlockShape DEF TypeOK, valid_block
    <2> QED BY <1>2, <2>1 DEF BlockRecs
  <1>4. ParamsOwned(m, b, params) /\ OpsOwned(m, b, ops)
    BY <1>2, OwnsByField DEF Lists, ListsOwned
  <1>5. VerifyParams(m, b)
    BY <1>2, <1>4 DEF VerifyParams, ParamsOwned, ElemsOf, TypeOf, Links, ValuesLinked, valid_value
  <1>6. ASSUME NEW i \in 1 .. Len(ops)
        PROVE  VerifyDestination(m, b, ops[i])
    BY <1>4 DEF VerifyDestination, OpsOwned, Links, OpsLinked, valid_op
  <1>7. ASSUME NEW i \in 1 .. Len(ops), NEW v \in ElemsOf(m.ops[ops[i]].src)
        PROVE  value_is_available(m, Available(m, b, i), v)
                 <=> m.values[v].block = b \/ value_is_global_const(m, v)
    <2>1. PICK o : o = ops[i] /\ o \in 1 .. Len(m.ops)
      BY <1>4 DEF OpsOwned, valid_op
    <2>2. m.ops[o].dst \in 1 .. Len(m.values) /\ v \in 1 .. (m.ops[o].dst - 1)
      BY <1>7, <2>1 DEF Links, OpsLinked, DefinedBeforeUse, valid_value
    <2>3. Len(m.values) \in Nat /\ Len(m.ops) \in Nat /\ v \in 1 .. Len(m.values)
          /\ v < m.ops[o].dst
      BY <2>2, ModuleShape DEF TypeOK
    <2>4. Available(m, b, i) = ElemsOf(params) \cup {m.ops[ops[j]].dst : j \in 1 .. (i - 1)}
      BY <1>2 DEF Available
    <2>5. ASSUME v \in Available(m, b, i)
          PROVE  m.values[v].block = b
      <3>1. CASE v \in ElemsOf(params)
        BY <1>4, <3>1 DEF ElemsOf, ParamsOwned
      <3>2. ASSUME NEW j \in 1 .. (i - 1), v = m.ops[ops[j]].dst
            PROVE  m.values[v].block = b
        <4>1. j \in 1 .. Len(ops)
          BY <1>3, <1>7
        <4> QED BY <1>4, <3>2, <4>1 DEF OpsOwned
      <3> QED BY <2>4, <2>5, <3>1, <3>2
    <2>6. ASSUME m.values[v].block = b
          PROVE  v \in Available(m, b, i)
      <3>1. IsListed(m, v)
        BY <2>3 DEF Lists, ListsComplete
      <3>2. CASE m.values[v].op = INVALID
        BY <1>2, <2>4, <2>6, <3>1, <3>2 DEF IsListed
      <3>3. CASE m.values[v].op # INVALID
        <4>1. PICK j \in 1 .. Len(ops) : m.values[v].op = ops[j]
          BY <1>2, <2>6, <3>1, <3>3 DEF IsListed, ElemsOf
        <4>2. ops[j] \in 1 .. Len(m.ops) /\ m.ops[ops[j]].dst = v
          BY <2>3, <3>3, <4>1 DEF Links, ValuesLinked, valid_op
        <4>3. ~(o <= ops[j])
          <5>1. o = ops[j] => FALSE
            BY <2>3, <4>2
          <5>2. o < ops[j] => FALSE
            <6>1. o < ops[j] => m.ops[o].dst < m.ops[ops[j]].dst
              BY <2>1, <4>2 DEF Links, DefinedBeforeUse
            <6> QED BY <2>2, <2>3, <4>2, <6>1
          <5> QED BY <2>1, <2>3, <4>2, <5>1, <5>2
        <4>4. j < i
          <5>1. i < j => o < ops[j]
            BY <1>4, <2>1, <4>1 DEF OpsOwned
          <5> QED BY <1>3, <2>1, <2>3, <4>1, <4>2, <4>3, <5>1
        <4>5. j \in 1 .. (i - 1)
          BY <1>3, <4>1, <4>4
        <4> QED BY <2>4, <4>2, <4>5
      <3> QED BY <3>2, <3>3
    <2> QED BY <2>3, <2>5, <2>6 DEF value_is_available, valid_value
  <1> QED BY <1>2, <1>5, <1>6, <1>7

(* Blocks list exactly what is theirs, in the order that makes the         *)
(* verifier's scan a test of locality, after any calls and any failures.   *)
THEOREM ListsExactAlways == Spec => []ListsExact
  <1>1. Inv => ListsExact
    BY ScanDecidesLocality DEF Inv, Lists, ListsExact
  <1> QED BY <1>1, InvAlways, PTL

(* The argument stretches of all terminators lie apart and inside the      *)
(* pool, also after a conditional branch failed between its two lists.     *)
THEOREM TermArgsDisjointAlways == Spec => []TermArgsDisjoint
  <1>1. Inv => TermArgsDisjoint
    BY DEF Inv
  <1> QED BY <1>1, InvAlways, PTL

(* xair_builder_finish gives the module away only once it is frozen.       *)
THEOREM HandedOverFrozenAlways == Spec => []HandedOverFrozen
  <1>1. Inv => HandedOverFrozen
    BY DEF Inv
  <1> QED BY <1>1, InvAlways, PTL

(* A call that returns an error has left values, operations, blocks and    *)
(* the frozen flag as they were.                                           *)
THEOREM FailedCallLeavesNoTraceAlways == Spec => FailedCallLeavesNoTrace
  <1>1. Inv /\ [Next]_vars => [status' # "OK" => IRPart(m') = IRPart(m)]_vars
    <2>1. ASSUME Inv, Next, status' # "OK"
          PROVE  IRPart(m') = IRPart(m)
      <3>1. StepEffect
        BY <2>1, NextEffect DEF Inv
      <3> QED BY <2>1, <3>1 DEF StepEffect, Keeps, IRPart
    <2> QED BY <2>1
  <1> QED BY <1>1, InvAlways, PTL DEF Spec, FailedCallLeavesNoTrace

(* No call changes a frozen module, the argument pool included.            *)
THEOREM FrozenForeverAlways == Spec => FrozenForever
  <1>1. Inv /\ [Next]_vars => [m.frozen => m' = m]_vars
    <2>1. ASSUME Inv, Next
          PROVE  m.frozen => m' = m
      <3>1. StepEffect
        BY <2>1, NextEffect DEF Inv
      <3>2. Changes(m, m')
        BY <3>1 DEF StepEffect, Changes
      <3> QED BY <2>1, <3>2, ChangeFrozen DEF Inv
    <2> QED BY <2>1
  <1> QED BY <1>1, InvAlways, PTL DEF Spec, FrozenForever

(* No change rewrites what was built.                                      *)
BuiltKept(a, n) ==
  /\ Prefix(a.values, n.values) /\ Prefix(a.ops, n.ops) /\ Prefix(a.term_args, n.term_args)
  /\ Len(a.blocks) <= Len(n.blocks)
  /\ \A b \in 1 .. Len(a.blocks) :
       a.blocks[b].term.kind # "NONE" => n.blocks[b] = a.blocks[b]

LEMMA PrefixKept ==
  ASSUME NEW S, NEW s \in Seq(S), NEW t \in Seq(S), Len(s) <= Len(t),
         \A i \in 1 .. Len(s) : t[i] = s[i]
  PROVE  Prefix(s, t)
  BY DEF Prefix

LEMMA ChangeKeepsBuilt ==
  ASSUME NEW a \in Modules, NEW n, Changes(a, n)
  PROVE  BuiltKept(a, n)
  <1>1. n \in Modules /\ Grows(a, n)
    BY ChangeGrows DEF Changes, Keeps, AddsBlock, AddsParam, AddsOp, AddsTerm, Freezes
  <1>2. /\ a.values \in Seq(ValueRecs) /\ n.values \in Seq(ValueRecs)
        /\ a.ops \in Seq(OpRecs) /\ n.ops \in Seq(OpRecs) /\ a.blocks \in Seq(BlockRecs)
        /\ a.term_args \in Seq(Nat) /\ n.term_args \in Seq(Nat)
    BY <1>1, ModuleShape
  <1>3. /\ Prefix(a.values, n.values) /\ Prefix(a.ops, n.ops)
        /\ Prefix(a.term_args, n.term_args)
    BY <1>1, <1>2, PrefixKept DEF Grows
  <1>4. ASSUME NEW b \in 1 .. Len(a.blocks), a.blocks[b].term.kind # "NONE"
        PROVE  n.blocks[b] = a.blocks[b]
    <2>1. CASE Keeps(a, n) \/ Freezes(a, n)
      BY <2>1 DEF Keeps, Freezes
    <2>2. CASE AddsBlock(a, n)
      <3>1. Extends(a.blocks, n.blocks, EmptyBlock)
        BY <1>2, <2>2, AppendExtends DEF AddsBlock
      <3> QED BY <3>1 DEF Extends
    <2>3. ASSUME NEW c, NEW value, AddsParam(a, n, c, value)
          PROVE  n.blocks[b] = a.blocks[b]
      <3>1. c # b
        BY <1>4, <2>3 DEF AddsParam, Open
      <3> QED BY <1>2, <2>3, <3>1 DEF AddsParam
    <2>4. ASSUME NEW c, NEW value, NEW op, AddsOp(a, n, c, value, op)
          PROVE  n.blocks[b] = a.blocks[b]
      <3>1. c # b
        BY <1>4, <2>4 DEF AddsOp, Open
      <3> QED BY <1>2, <2>4, <3>1 DEF AddsOp
    <2>5. ASSUME NEW c, NEW term, AddsTerm(a, n, c, term)
          PROVE  n.blocks[b] = a.blocks[b]
      <3>1. c # b
        BY <1>4, <2>5 DEF AddsTerm, Open
      <3> QED BY <1>2, <2>5, <3>1 DEF AddsTerm
    <2> QED BY <2>1, <2>2, <2>3, <2>4, <2>5 DEF Changes
  <1> QED BY <1>1, <1>3, <1>4 DEF Grows, BuiltKept

(* No call rewrites an existing value, operation, pool entry or terminated *)
(* block: only canonicalization changes what has been built.               *)
THEOREM AppendOnlyAlways == Spec => AppendOnly
  <1>1. Inv /\ [Next]_vars => [BuiltKept(m, m')]_vars
    <2>1. ASSUME Inv, Next
          PROVE  BuiltKept(m, m')
      <3>1. StepEffect
        BY <2>1, NextEffect DEF Inv
      <3>2. Changes(m, m')
        BY <3>1 DEF StepEffect, Changes
      <3> QED BY <2>1, <3>2, ChangeKeepsBuilt DEF Inv, TypeOK
    <2> QED BY <2>1
  <1> QED BY <1>1, InvAlways, PTL DEF Spec, AppendOnly, BuiltKept

(* A module changes hands frozen and never changes afterwards.             *)
THEOREM HandedOverForGoodAlways == Spec => HandedOverForGood
  <1>1. HandedOverFrozen' /\ [m.frozen => m' = m]_vars
          => [(~held' => m'.frozen) /\ (m.frozen => m' = m)]_vars
    BY DEF HandedOverFrozen
  <1> QED
    BY <1>1, HandedOverFrozenAlways, FrozenForeverAlways, PTL DEF FrozenForever, HandedOverForGood
=============================================================================
