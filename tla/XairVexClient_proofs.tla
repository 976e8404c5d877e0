----------------------- MODULE XairVexClient_proofs -----------------------
(***************************************************************************)
(* The VEX adapter stays where it is: through any statements, exits and    *)
(* failed calls, of any client, everything it remembers belongs to the     *)
(* block it builds in or is a constant, and a call that fails leaves the   *)
(* adapter and every other block alone.                                    *)
(***************************************************************************)
EXTENDS XairVexClient, FiniteSetTheorems, TLAPS

-----------------------------------------------------------------------------
(* Modules.  Their fields are taken from any set U large enough: what the  *)
(* adapter depends on is which values and blocks there are, not what types *)
(* and names are made of.                                                  *)

OpsOver(U) == [opcode : U, dst : U, src : U, imm : U, endian : U]
BlocksOver(U) == [params : Seq(U), ops : Seq(U), term : U]

Shaped(n, U) ==
  n \in [values : Seq(U), ops : Seq(OpsOver(U)), blocks : Seq(BlocksOver(U)),
         term_args : Seq(U), vn : SUBSET U, frozen : BOOLEAN]

Formed(n) == \E U : Shaped(n, U)

Longer(s, t) == Len(s) <= Len(t) /\ \A i \in 1 .. Len(s) : t[i] = s[i]

LEMMA SeqMono ==
  ASSUME NEW U, NEW V, U \subseteq V
  PROVE  Seq(U) \subseteq Seq(V)
  OBVIOUS

LEMMA ShapedMono ==
  ASSUME NEW U, NEW V, U \subseteq V, NEW n, Shaped(n, U)
  PROVE  Shaped(n, V)
  <1>1. Seq(U) \subseteq Seq(V)
    BY SeqMono
  <1>2. OpsOver(U) \subseteq OpsOver(V)
    BY DEF OpsOver
  <1>3. BlocksOver(U) \subseteq BlocksOver(V)
    BY <1>1 DEF BlocksOver
  <1>4. Seq(OpsOver(U)) \subseteq Seq(OpsOver(V)) /\ Seq(BlocksOver(U)) \subseteq Seq(BlocksOver(V))
    BY <1>2, <1>3, SeqMono
  <1> QED BY <1>1, <1>4 DEF Shaped

LEMMA ShapedParts ==
  ASSUME NEW pre, NEW U, Shaped(pre, U)
  PROVE  /\ pre = [values |-> pre.values, ops |-> pre.ops, blocks |-> pre.blocks,
                 term_args |-> pre.term_args, vn |-> pre.vn, frozen |-> pre.frozen]
         /\ pre.values \in Seq(U) /\ Len(pre.values) \in Nat
         /\ pre.ops \in Seq(OpsOver(U)) /\ Len(pre.ops) \in Nat
         /\ pre.blocks \in Seq(BlocksOver(U)) /\ Len(pre.blocks) \in Nat
         /\ pre.term_args \in Seq(U) /\ Len(pre.term_args) \in Nat
         /\ pre.vn \in SUBSET U /\ pre.frozen \in BOOLEAN
  <1>1. /\ pre = [values |-> pre.values, ops |-> pre.ops, blocks |-> pre.blocks,
                term_args |-> pre.term_args, vn |-> pre.vn, frozen |-> pre.frozen]
        /\ pre.values \in Seq(U) /\ pre.ops \in Seq(OpsOver(U)) /\ pre.blocks \in Seq(BlocksOver(U))
        /\ pre.term_args \in Seq(U) /\ pre.vn \in SUBSET U /\ pre.frozen \in BOOLEAN
    BY DEF Shaped
  <1> QED BY <1>1

LEMMA BlockParts ==
  ASSUME NEW U, NEW s \in Seq(BlocksOver(U)), NEW b \in 1 .. Len(s)
  PROVE  /\ s[b] = [params |-> s[b].params, ops |-> s[b].ops, term |-> s[b].term]
         /\ s[b] \in BlocksOver(U) /\ s[b].term \in U
         /\ s[b].params \in Seq(U) /\ Len(s[b].params) \in Nat
         /\ s[b].ops \in Seq(U) /\ Len(s[b].ops) \in Nat
  <1>1. s[b] \in BlocksOver(U)
    OBVIOUS
  <1>2. /\ s[b] = [params |-> s[b].params, ops |-> s[b].ops, term |-> s[b].term]
        /\ s[b].params \in Seq(U) /\ s[b].ops \in Seq(U) /\ s[b].term \in U
    BY <1>1 DEF BlocksOver
  <1> QED BY <1>1, <1>2

LEMMA LongerSelf ==
  ASSUME NEW s, Len(s) \in Nat
  PROVE  Longer(s, s)
  BY DEF Longer

LEMMA LongerAppend ==
  ASSUME NEW U, NEW s \in Seq(U), NEW x
  PROVE  Longer(s, Append(s, x)) /\ Len(Append(s, x)) = Len(s) + 1 /\ Len(s) \in Nat
  BY DEF Longer

LEMMA DropAppended ==
  ASSUME NEW S, NEW s \in Seq(S), NEW x
  PROVE  DropLast(Append(s, x)) = s
  BY DEF DropLast

LEMMA UpdateSeq ==
  ASSUME NEW S, NEW s \in Seq(S), NEW i \in 1 .. Len(s), NEW x \in S
  PROVE  /\ [s EXCEPT ![i] = x] \in Seq(S)
         /\ Len([s EXCEPT ![i] = x]) = Len(s)
         /\ \A j \in 1 .. Len(s) : [s EXCEPT ![i] = x][j] = IF j = i THEN x ELSE s[j]
  OBVIOUS

LEMMA BlockFields ==
  ASSUME NEW U, NEW block \in BlocksOver(U), NEW k \in U, NEW term \in U
  PROVE  /\ [block EXCEPT !.params = Append(@, k)] \in BlocksOver(U)
         /\ [block EXCEPT !.ops = Append(@, k)] \in BlocksOver(U)
         /\ [block EXCEPT !.term = term] \in BlocksOver(U)
  <1>1. block.params \in Seq(U) /\ block.ops \in Seq(U)
    BY DEF BlocksOver
  <1>2. Append(block.params, k) \in Seq(U) /\ Append(block.ops, k) \in Seq(U)
    BY <1>1
  <1> QED BY <1>2 DEF BlocksOver

-----------------------------------------------------------------------------
(* Building in one block: values and operations are appended, and no other *)
(* block changes.                                                          *)

BlockGrown(old, new) ==
  /\ new.term = old.term
  /\ Longer(old.params, new.params) /\ IsPrefix(old.params, new.params)
  /\ Longer(old.ops, new.ops) /\ IsPrefix(old.ops, new.ops)

BuildsIn(c, pre, n) ==
  /\ Formed(n)
  /\ Longer(pre.values, n.values) /\ Longer(pre.ops, n.ops)
  /\ Len(n.blocks) = Len(pre.blocks)
  /\ \A b \in 1 .. Len(pre.blocks) :
       n.blocks[b] = pre.blocks[b] \/ (b = c /\ BlockGrown(pre.blocks[b], n.blocks[b]))

(* A value that may be used in block c.                                    *)
Usable(n, c, v) ==
  valid_value(n, v) /\ (n.values[v].block = c \/ value_is_global_const(n, v))

(* What a building call returns.                                           *)
BuiltIn(c, pre, r) ==
  /\ BuildsIn(c, pre, r.m)
  /\ r.status = "OK" => Usable(r.m, c, r.out)
  /\ r.status # "OK" => r.m = pre

LEMMA PrefixGrows ==
  ASSUME NEW U, NEW s \in Seq(U), NEW x
  PROVE  IsPrefix(s, s) /\ IsPrefix(s, Append(s, x))
  <1>1. SubSeq(s, 1, Len(s)) = SubSeq(Append(s, x), 1, Len(s))
    OBVIOUS
  <1> QED BY <1>1 DEF IsPrefix

LEMMA UsableStays ==
  ASSUME NEW pre, Formed(pre), NEW n, Formed(n),
         Longer(pre.values, n.values), Longer(pre.ops, n.ops),
         NEW c, NEW v, Usable(pre, c, v)
  PROVE  Usable(n, c, v)
  <1>1. /\ Len(pre.values) \in Nat /\ Len(n.values) \in Nat
        /\ Len(pre.ops) \in Nat /\ Len(n.ops) \in Nat
    BY ShapedParts DEF Formed
  <1>2. v \in 1 .. Len(n.values) /\ n.values[v] = pre.values[v]
    BY <1>1 DEF Usable, valid_value, Longer
  <1>3. ASSUME value_is_global_const(pre, v)
        PROVE  value_is_global_const(n, v)
    <2>1. pre.values[v].op \in 1 .. Len(n.ops) /\ n.ops[pre.values[v].op] = pre.ops[pre.values[v].op]
      BY <1>1, <1>3 DEF value_is_global_const, valid_op, Longer
    <2> QED BY <1>2, <1>3, <2>1 DEF value_is_global_const, valid_value, valid_op
  <1> QED BY <1>2, <1>3 DEF Usable, valid_value

LEMMA SameBuilt ==
  ASSUME NEW pre, Formed(pre), NEW c, NEW r, r.m = pre, r.status = "OK" => Usable(pre, c, r.out)
  PROVE  BuiltIn(c, pre, r)
  <1>1. Len(pre.values) \in Nat /\ Len(pre.ops) \in Nat
    BY ShapedParts DEF Formed
  <1> QED BY <1>1, LongerSelf DEF BuiltIn, BuildsIn

-----------------------------------------------------------------------------
(* The building calls, whichever allocation fails.                         *)

NewValue(pre, b, type, name) ==
  [type |-> type, block |-> b, op |-> INVALID, name |-> copy_name(name, Len(pre.values) + 1)]

WithValue(pre, value) == [pre EXCEPT !.values = Append(@, value)]

LEMMA AddedValue ==
  ASSUME NEW pre, NEW b, NEW type, NEW name, NEW fault,
         NEW added, added = add_value(pre, b, type, name, fault)
  PROVE  \/ added.m = pre /\ added.status # "OK"
         \/ /\ added.m = WithValue(pre, NewValue(pre, b, type, name)) /\ added.status = "OK"
            /\ added.out = Len(pre.values) + 1 /\ b \in 1 .. Len(pre.blocks)
  BY DEF add_value, Ret, Reject, NewValue, WithValue, valid_block

LEMMA ValueUndone ==
  ASSUME NEW pre, Formed(pre), NEW value
  PROVE  UndoValue(WithValue(pre, value)) = pre
  <1>1. PICK U : Shaped(pre, U)
    BY DEF Formed
  <1>2. DropLast(Append(pre.values, value)) = pre.values
    BY <1>1, DropAppended, ShapedParts
  <1>3. UndoValue(WithValue(pre, value)) = [WithValue(pre, value) EXCEPT !.values = pre.values]
    BY <1>1, <1>2 DEF UndoValue, WithValue, Shaped
  <1> QED BY <1>1, <1>3 DEF WithValue, Shaped

LEMMA OpUndone ==
  ASSUME NEW pre, Formed(pre), NEW value, NEW op, op.dst = Len(pre.values) + 1
  PROVE  UndoValue(UndoOp(LinkOp(WithValue(pre, value), op), op.dst)) = pre
  <1>1. PICK k : k = Len(pre.values) + 1
    OBVIOUS
  <1>2. PICK values : values = Append(pre.values, value)
    OBVIOUS
  <1>3. PICK linked : linked = [values EXCEPT ![k].op = Len(pre.ops) + 1]
    OBVIOUS
  <1>4. PICK cut : cut = [linked EXCEPT ![k].op = INVALID]
    OBVIOUS
  <1>5. PICK W : Shaped(pre, W)
    BY DEF Formed
  <1>6. PICK U : U = W \cup {value, [value EXCEPT !.op = Len(pre.ops) + 1],
                            [[value EXCEPT !.op = Len(pre.ops) + 1] EXCEPT !.op = INVALID]}
    OBVIOUS
  <1>7. Shaped(pre, U) /\ value \in U
    BY <1>5, <1>6, ShapedMono
  <1>8. /\ values \in Seq(U) /\ Len(values) = k /\ k \in 1 .. k /\ values[k] = value
        /\ \A i \in 1 .. (k - 1) : values[i] = pre.values[i]
    BY <1>1, <1>2, <1>7, ShapedParts
  <1>9. /\ linked \in Seq(U) /\ Len(linked) = k
        /\ linked[k] = [value EXCEPT !.op = Len(pre.ops) + 1]
        /\ \A i \in 1 .. (k - 1) : linked[i] = values[i]
    <2>1. PICK x \in U : x = [value EXCEPT !.op = Len(pre.ops) + 1]
      BY <1>6
    <2>2. linked = [values EXCEPT ![k] = x]
      BY <1>3, <1>8, <2>1
    <2> QED BY <1>8, <2>1, <2>2, UpdateSeq
  <1>10. /\ cut \in Seq(U) /\ Len(cut) = k
         /\ \A i \in 1 .. (k - 1) : cut[i] = linked[i]
    <2>1. PICK x \in U : x = [[value EXCEPT !.op = Len(pre.ops) + 1] EXCEPT !.op = INVALID]
      BY <1>6
    <2>2. cut = [linked EXCEPT ![k] = x]
      BY <1>4, <1>8, <1>9, <2>1
    <2> QED BY <1>8, <1>9, <2>1, <2>2, UpdateSeq
  <1>11. DropLast(cut) = pre.values
    <2>1. PICK len \in Nat : len = Len(pre.values)
      BY <1>7, ShapedParts
    <2>2. Len(cut) = len + 1 /\ \A i \in 1 .. len : cut[i] = pre.values[i]
      BY <1>1, <1>8, <1>9, <1>10, <2>1
    <2>3. pre.values \in Seq(U)
      BY <1>7, ShapedParts
    <2>4. Len(SubSeq(cut, 1, len)) = len /\ \A i \in 1 .. len : SubSeq(cut, 1, len)[i] = cut[i]
      BY <1>10, <2>1, <2>2
    <2>5. SubSeq(cut, 1, len) \in Seq(U)
      BY <1>10, <2>1, <2>2
    <2>6. SubSeq(cut, 1, len) = pre.values
      BY <2>1, <2>2, <2>3, <2>4, <2>5
    <2> QED BY <2>1, <2>2, <2>6 DEF DropLast
  <1>12. DropLast(Append(pre.ops, op)) = pre.ops
    BY <1>7, DropAppended, ShapedParts
  <1>13. PICK added : added = WithValue(pre, value)
    OBVIOUS
  <1>14. LinkOp(added, op) = [pre EXCEPT !.values = linked, !.ops = Append(pre.ops, op)]
    BY <1>1, <1>2, <1>3, <1>7, <1>13 DEF LinkOp, WithValue, Shaped
  <1>15. UndoOp(LinkOp(added, op), op.dst)
           = [pre EXCEPT !.values = cut, !.ops = DropLast(Append(pre.ops, op))]
    BY <1>1, <1>4, <1>7, <1>14 DEF UndoOp, Shaped
  <1>16. UndoValue(UndoOp(LinkOp(added, op), op.dst))
           = [pre EXCEPT !.values = DropLast(cut), !.ops = pre.ops]
    BY <1>7, <1>12, <1>15 DEF UndoValue, Shaped
  <1> QED BY <1>7, <1>11, <1>13, <1>16 DEF Shaped

(* One block changes, to new.                                              *)
LEMMA OneBlockBuilt ==
  ASSUME NEW pre, NEW U, Shaped(pre, U), NEW n, NEW V, Shaped(n, V), NEW b \in 1 .. Len(pre.blocks),
         NEW new, BlockGrown(pre.blocks[b], new), n.blocks = [pre.blocks EXCEPT ![b] = new],
         Longer(pre.values, n.values), Longer(pre.ops, n.ops)
  PROVE  BuildsIn(b, pre, n)
  <1>1. pre.blocks \in Seq(BlocksOver(U))
    BY ShapedParts
  <1>2. Len(n.blocks) = Len(pre.blocks)
    BY <1>1
  <1>3. \A c \in 1 .. Len(pre.blocks) : n.blocks[c] = IF c = b THEN new ELSE pre.blocks[c]
    BY <1>1
  <1> QED BY <1>2, <1>3 DEF BuildsIn, Formed

LEMMA AddParamBuilt ==
  ASSUME NEW pre, Formed(pre), NEW b, NEW type, NEW name, NEW fault,
         NEW r, r = xair_block_add_param(pre, b, type, name, fault)
  PROVE  BuiltIn(b, pre, r)
  <1>1. PICK added : added = add_value(pre, b, type, name, fault)
    OBVIOUS
  <1>2. PICK value : value = NewValue(pre, b, type, name)
    OBVIOUS
  <1>3. PICK n : n = [added.m EXCEPT !.blocks[b].params = Append(@, added.out)]
    OBVIOUS
  <1>4. \/ r.m = pre /\ r.status # "OK"
        \/ /\ r.m = n /\ r.status = "OK" /\ r.out = added.out /\ b \in 1 .. Len(pre.blocks)
           /\ added.status = "OK"
        \/ r.m = UndoValue(added.m) /\ r.status # "OK" /\ added.status = "OK"
    BY <1>1, <1>3, AddedValue DEF xair_block_add_param, Ret, Reject, valid_block
  <1>5. CASE r.m = UndoValue(added.m) /\ r.status # "OK" /\ added.status = "OK"
    <2>1. r.m = pre
      BY <1>1, <1>5, AddedValue, ValueUndone
    <2> QED BY <1>5, <2>1, SameBuilt
  <1>6. CASE /\ r.m = n /\ r.status = "OK" /\ r.out = added.out /\ b \in 1 .. Len(pre.blocks)
             /\ added.status = "OK"
    <2>1. PICK U : Shaped(pre, U)
      BY DEF Formed
    <2>2. PICK k \in Nat : k = Len(pre.values) + 1
      BY <2>1, ShapedParts
    <2>3. added.m = WithValue(pre, value) /\ added.out = k
      BY <1>1, <1>2, <1>6, <2>2, AddedValue
    <2>4. PICK new : new = [pre.blocks[b] EXCEPT !.params = Append(@, k)]
      OBVIOUS
    <2>5. PICK V : V = U \cup {value, k}
      OBVIOUS
    <2>6. Shaped(pre, V) /\ value \in V /\ k \in V
      BY <2>1, <2>5, ShapedMono
    <2>7. PICK values : values = Append(pre.values, value)
      OBVIOUS
    <2>8. /\ values \in Seq(V) /\ Longer(pre.values, values) /\ Len(values) = k
          /\ values[k] = value /\ k \in 1 .. k
      BY <2>2, <2>6, <2>7, ShapedParts, LongerAppend
    <2>9. PICK blocks : blocks = [pre.blocks EXCEPT ![b] = new]
      OBVIOUS
    <2>10. /\ blocks \in Seq(BlocksOver(V)) /\ pre.blocks[b] \in BlocksOver(V)
           /\ pre.blocks[b].params \in Seq(V) /\ pre.blocks[b].ops \in Seq(V)
           /\ Len(pre.blocks[b].ops) \in Nat
      <3>0. pre.blocks \in Seq(BlocksOver(V))
        BY <2>6, ShapedParts
      <3>1. /\ pre.blocks[b] \in BlocksOver(V) /\ pre.blocks[b].term \in V
            /\ pre.blocks[b].params \in Seq(V) /\ pre.blocks[b].ops \in Seq(V)
            /\ Len(pre.blocks[b].ops) \in Nat
        BY <1>6, <3>0, BlockParts
      <3>2. new \in BlocksOver(V)
        BY <2>4, <2>6, <3>1, BlockFields
      <3> QED BY <1>6, <2>9, <3>0, <3>1, <3>2, UpdateSeq
    <2>11. n = [pre EXCEPT !.values = values, !.blocks = blocks]
      BY <1>3, <2>1, <2>3, <2>4, <2>7, <2>9 DEF Shaped, WithValue
    <2>12. Shaped(n, V) /\ n.values = values /\ n.blocks = blocks /\ n.ops = pre.ops
      BY <2>6, <2>8, <2>10, <2>11 DEF Shaped
    <2>13. Longer(pre.ops, n.ops)
      BY <2>6, <2>12, ShapedParts, LongerSelf
    <2>14. BlockGrown(pre.blocks[b], new)
      <3>1. /\ new.params = Append(pre.blocks[b].params, k) /\ new.ops = pre.blocks[b].ops
            /\ new.term = pre.blocks[b].term
        BY <2>4, <2>10 DEF BlocksOver
      <3> QED BY <2>10, <3>1, PrefixGrows, LongerAppend, LongerSelf DEF BlockGrown
    <2>15. BuildsIn(b, pre, n)
      BY <1>6, <2>6, <2>8, <2>9, <2>12, <2>13, <2>14, OneBlockBuilt
    <2>16. Usable(n, b, k)
      BY <1>2, <2>8, <2>12 DEF Usable, valid_value, NewValue
    <2> QED BY <1>6, <2>3, <2>15, <2>16 DEF BuiltIn
  <1> QED BY <1>4, <1>5, <1>6, SameBuilt

(* A new operation, with its destination and the links between them.       *)
LEMMA OpBuilt ==
  ASSUME NEW pre, NEW U, Shaped(pre, U), NEW b \in 1 .. Len(pre.blocks),
         NEW type, NEW name, NEW opcode, NEW srcs, NEW imm, NEW endian,
         NEW k \in Nat, k = Len(pre.values) + 1,
         NEW op, op = [opcode |-> opcode, dst |-> k, src |-> srcs, imm |-> imm, endian |-> endian],
         NEW n, n = value_number_insert(append_op(LinkOp(WithValue(pre, NewValue(pre, b, type, name)),
                                                         op), b), k)
  PROVE  BuildsIn(b, pre, n) /\ Usable(n, b, k)
  <1>1. PICK o \in Nat : o = Len(pre.ops) + 1
    BY ShapedParts
  <1>2. PICK value : value = NewValue(pre, b, type, name)
    OBVIOUS
  <1>3. PICK numbered : numbered = [value EXCEPT !.op = o]
    OBVIOUS
  <1>4. PICK V : V = U \cup {value, numbered, opcode, srcs, imm, endian, k, o}
    OBVIOUS
  <1>5. Shaped(pre, V) /\ {value, numbered, opcode, srcs, imm, endian, k, o} \subseteq V
    BY <1>4, ShapedMono
  <1>6. PICK grown : grown = Append(pre.values, value)
    OBVIOUS
  <1>7. grown \in Seq(V) /\ Longer(pre.values, grown) /\ Len(grown) = k /\ k \in 1 .. k
    BY <1>5, <1>6, ShapedParts, LongerAppend
  <1>8. PICK values : values = [grown EXCEPT ![k].op = o]
    OBVIOUS
  <1>9. values \in Seq(V) /\ Len(values) = k /\ values[k] = numbered /\ Longer(pre.values, values)
    <2>1. /\ grown[k] = value /\ Len(pre.values) \in Nat
          /\ \A i \in 1 .. Len(pre.values) : grown[i] = pre.values[i]
      BY <1>5, <1>6, ShapedParts
    <2>2. values = [grown EXCEPT ![k] = numbered]
      BY <1>3, <1>7, <1>8, <2>1
    <2>3. /\ values \in Seq(V) /\ Len(values) = k
          /\ \A j \in 1 .. k : values[j] = IF j = k THEN numbered ELSE grown[j]
      BY <1>5, <1>7, <2>2, UpdateSeq
    <2>4. \A i \in 1 .. Len(pre.values) : i \in 1 .. k /\ i # k
      BY <2>1
    <2> QED BY <1>7, <2>1, <2>3, <2>4 DEF Longer
  <1>10. PICK ops : ops = Append(pre.ops, op)
    OBVIOUS
  <1>11. ops \in Seq(OpsOver(V)) /\ Longer(pre.ops, ops) /\ op.dst = k
    <2>1. op \in OpsOver(V) /\ op.dst = k
      BY <1>5 DEF OpsOver
    <2>2. pre.ops \in Seq(OpsOver(V))
      BY <1>5, ShapedParts
    <2> QED BY <1>1, <1>10, <2>1, <2>2, LongerAppend
  <1>12. PICK new : new = [pre.blocks[b] EXCEPT !.ops = Append(@, o)]
    OBVIOUS
  <1>13. PICK blocks : blocks = [pre.blocks EXCEPT ![b] = new]
    OBVIOUS
  <1>14. /\ blocks \in Seq(BlocksOver(V)) /\ pre.blocks[b] \in BlocksOver(V)
         /\ pre.blocks[b].params \in Seq(V) /\ pre.blocks[b].ops \in Seq(V)
         /\ Len(pre.blocks[b].params) \in Nat
    <2>0. pre.blocks \in Seq(BlocksOver(V))
      BY <1>5, ShapedParts
    <2>1. /\ pre.blocks[b] \in BlocksOver(V) /\ pre.blocks[b].term \in V
          /\ pre.blocks[b].params \in Seq(V) /\ pre.blocks[b].ops \in Seq(V)
          /\ Len(pre.blocks[b].params) \in Nat
      BY <2>0, BlockParts
    <2>2. new \in BlocksOver(V)
      BY <1>5, <1>12, <2>1, BlockFields
    <2> QED BY <1>13, <2>0, <2>1, <2>2, UpdateSeq
  <1>15. PICK linked : linked = LinkOp(WithValue(pre, value), op)
    OBVIOUS
  <1>16. linked = [pre EXCEPT !.values = values, !.ops = ops]
    BY <1>1, <1>6, <1>8, <1>10, <1>11, <1>15 DEF LinkOp, WithValue, Shaped
  <1>17. append_op(linked, b) = [pre EXCEPT !.values = values, !.ops = ops, !.blocks = blocks]
    <2>1. Len(ops) = o
      BY <1>1, <1>5, <1>10, ShapedParts
    <2> QED BY <1>12, <1>13, <1>16, <2>1 DEF append_op, Shaped
  <1>18. n = [pre EXCEPT !.values = values, !.ops = ops, !.blocks = blocks, !.vn = pre.vn \cup {k}]
    BY <1>2, <1>15, <1>17 DEF value_number_insert, Shaped
  <1>19. pre.vn \cup {k} \in SUBSET V
    BY <1>5, ShapedParts
  <1>20. Shaped(n, V) /\ n.values = values /\ n.blocks = blocks /\ n.ops = ops
    BY <1>5, <1>9, <1>11, <1>14, <1>18, <1>19 DEF Shaped
  <1>21. BlockGrown(pre.blocks[b], new)
    <2>1. /\ new.ops = Append(pre.blocks[b].ops, o) /\ new.params = pre.blocks[b].params
          /\ new.term = pre.blocks[b].term
      BY <1>12, <1>14 DEF BlocksOver
    <2> QED BY <1>14, <2>1, PrefixGrows, LongerAppend, LongerSelf DEF BlockGrown
  <1>22. BuildsIn(b, pre, n)
    BY <1>5, <1>9, <1>11, <1>13, <1>20, <1>21, OneBlockBuilt
  <1>23. numbered.block = b
    BY <1>2, <1>3 DEF NewValue
  <1> QED BY <1>7, <1>9, <1>20, <1>22, <1>23 DEF Usable, valid_value

LEMMA AddOpBuilt ==
  ASSUME NEW pre, Formed(pre), NEW b, NEW opcode, NEW type, NEW srcs, NEW imm, NEW endian, NEW name,
         NEW fault, NEW r, r = add_op(pre, b, opcode, type, srcs, imm, endian, name, fault)
  PROVE  BuiltIn(b, pre, r)
  <1>1. PICK added : added = add_value(pre, b, type, name, fault)
    OBVIOUS
  <1>2. PICK op : op = [opcode |-> opcode, dst |-> added.out, src |-> srcs, imm |-> imm,
                        endian |-> endian]
    OBVIOUS
  <1>3. PICK n : n = value_number_insert(append_op(LinkOp(added.m, op), b), added.out)
    OBVIOUS
  <1>4. PICK known : known = value_number_lookup(pre, b, opcode, type, srcs, imm, endian)
    OBVIOUS
  <1>5. PICK built : built = BuildOp(pre, b, opcode, type, srcs, imm, endian, name, fault)
    OBVIOUS
  <1>6. \/ r.m = pre /\ r.status # "OK"
        \/ r.m = pre /\ known # {} /\ r.out = CHOOSE v \in known : TRUE
        \/ r = built
    BY <1>4, <1>5 DEF add_op, Ret, Reject
  <1>7. CASE r.m = pre /\ known # {} /\ r.out = CHOOSE v \in known : TRUE
    <2>1. r.out \in known
      BY <1>7
    <2>2. value_number_matches(pre, r.out, b, opcode, type, srcs, imm, endian)
      BY <1>4, <2>1 DEF value_number_lookup
    <2>3. Usable(pre, b, r.out)
      BY <2>2 DEF value_number_matches, value_number_is_global, Usable, value_is_global_const
    <2> QED BY <1>7, <2>3, SameBuilt
  <1>8. CASE r = built
    <2>1. \/ r.m = pre /\ r.status # "OK"
          \/ r.m = UndoValue(added.m) /\ r.status # "OK" /\ added.status = "OK"
          \/ /\ r.m = UndoValue(UndoOp(LinkOp(added.m, op), added.out)) /\ r.status # "OK"
             /\ added.status = "OK"
          \/ r.m = n /\ r.status = "OK" /\ r.out = added.out /\ added.status = "OK"
      BY <1>1, <1>2, <1>3, <1>5, <1>8, AddedValue DEF BuildOp, Ret, Reject
    <2>2. CASE added.status = "OK"
      <3>1. PICK U : Shaped(pre, U)
        BY DEF Formed
      <3>2. PICK k \in Nat : k = Len(pre.values) + 1
        BY <3>1, ShapedParts
      <3>3. PICK value : value = NewValue(pre, b, type, name)
        OBVIOUS
      <3>4. added.m = WithValue(pre, value) /\ added.out = k /\ b \in 1 .. Len(pre.blocks)
        BY <1>1, <2>2, <3>2, <3>3, AddedValue
      <3>5. UndoValue(added.m) = pre
        BY <3>4, ValueUndone
      <3>6. UndoValue(UndoOp(LinkOp(added.m, op), added.out)) = pre
        <4>1. op.dst = Len(pre.values) + 1 /\ op.dst = added.out
          BY <1>2, <3>2, <3>4
        <4> QED BY <3>4, <4>1, OpUndone
      <3>7. BuildsIn(b, pre, n) /\ Usable(n, b, k)
        <4>1. op = [opcode |-> opcode, dst |-> k, src |-> srcs, imm |-> imm, endian |-> endian]
          BY <1>2, <3>4
        <4>2. n = value_number_insert(append_op(LinkOp(WithValue(pre, NewValue(pre, b, type, name)),
                                                       op), b), k)
          BY <1>3, <3>3, <3>4
        <4> QED BY <3>1, <3>2, <3>4, <4>1, <4>2, OpBuilt
      <3>8. CASE r.m = n /\ r.status = "OK" /\ r.out = added.out
        BY <3>4, <3>7, <3>8 DEF BuiltIn
      <3> QED BY <2>1, <3>5, <3>6, <3>8, SameBuilt
    <2> QED BY <2>1, <2>2, SameBuilt
  <1> QED BY <1>6, <1>7, <1>8, SameBuilt

LEMMA Rejected ==
  ASSUME NEW pre, Formed(pre), NEW c
  PROVE  BuiltIn(c, pre, Reject(pre, "BAD_ARG"))
  <1>1. Reject(pre, "BAD_ARG").m = pre /\ Reject(pre, "BAD_ARG").status # "OK"
    BY DEF Reject, Ret
  <1> QED BY <1>1, SameBuilt

LEMMA OpsBuilt ==
  ASSUME NEW pre, Formed(pre), NEW b, NEW type, NEW name, NEW fault
  PROVE  /\ \A imm : BuiltIn(b, pre, xair_build_const_u64(pre, b, type, imm, name, fault))
         /\ \A opcode, src : BuiltIn(b, pre, xair_build_unary(pre, b, opcode, type, src, name, fault))
         /\ \A opcode, lhs, rhs :
              BuiltIn(b, pre, xair_build_binary(pre, b, opcode, type, lhs, rhs, name, fault))
         /\ \A memory, address, endian :
              BuiltIn(b, pre, xair_build_load(pre, b, type, memory, address, endian, name, fault))
         /\ \A memory, address, data, endian :
              BuiltIn(b, pre, xair_build_store(pre, b, memory, address, data, endian, name, fault))
  BY AddOpBuilt, Rejected DEF xair_build_const_u64, xair_build_unary, xair_build_binary,
     xair_build_load, xair_build_store

-----------------------------------------------------------------------------
(* The caches.                                                             *)

Entries == Seq([key : Nat, value : Nat])

AdapterShape(ad) ==
  /\ ad = [current |-> ad.current, memory |-> ad.memory, tmps |-> ad.tmps, regs |-> ad.regs,
           sparse_regs |-> ad.sparse_regs]
  /\ IsFiniteSet(DOMAIN ad.tmps) /\ DOMAIN ad.tmps \subseteq Nat
  /\ IsFiniteSet(DOMAIN ad.regs) /\ DOMAIN ad.regs \subseteq Nat
  /\ ad.sparse_regs \in Entries

(* A call that puts at most v in the caches.                               *)
Remembered(ad, v, r) ==
  /\ AdapterShape(r.a) /\ r.a.current = ad.current
  /\ Cached(r.a) \subseteq Cached(ad) \cup {v}
  /\ r.status # "OK" => r.a = ad

LEMMA UpdateCovers ==
  ASSUME NEW f, IsFiniteSet(DOMAIN f), DOMAIN f \subseteq Nat, NEW k \in Nat, NEW v,
         NEW g, g = Update(f, k, v)
  PROVE  /\ IsFiniteSet(DOMAIN g) /\ DOMAIN g \subseteq Nat
         /\ {g[x] : x \in DOMAIN g} \subseteq {f[x] : x \in DOMAIN f} \cup {v}
  <1>1. DOMAIN g = DOMAIN f \cup {k}
    BY DEF Update
  <1>2. \A x \in DOMAIN g : g[x] = IF x = k THEN v ELSE f[x]
    BY DEF Update
  <1>3. IsFiniteSet(DOMAIN g)
    BY <1>1, FS_AddElement
  <1> QED BY <1>1, <1>2, <1>3

EntryPut(s, v, set) ==
  /\ set.map \in Entries
  /\ {set.map[i].value : i \in 1 .. Len(set.map)} \subseteq {s[i].value : i \in 1 .. Len(s)} \cup {v}
  /\ set.status # "OK" => set.map = s

LEMMA SetEntryCovers ==
  ASSUME NEW s \in Entries, NEW key \in Nat, NEW v \in Nat, NEW fault,
         NEW set, set = vex_set_entry(s, key, v, fault)
  PROVE  EntryPut(s, v, set)
  <1>1. PICK found : found = vex_find_entry(s, key)
    OBVIOUS
  <1>2. CASE found # {}
    <2>1. PICK i : i = CHOOSE j \in found : TRUE
      OBVIOUS
    <2>2. i \in 1 .. Len(s)
      BY <1>1, <1>2, <2>1 DEF vex_find_entry
    <2>3. set.map = [s EXCEPT ![i].value = v] /\ set.status = "OK"
      BY <1>1, <1>2, <2>1 DEF vex_set_entry
    <2>4. PICK x : x = [s[i] EXCEPT !.value = v]
      OBVIOUS
    <2>5. x \in [key : Nat, value : Nat] /\ x.value = v
      <3>1. PICK E : E = [key : Nat, value : Nat]
        OBVIOUS
      <3>2. s \in Seq(E)
        BY <3>1 DEF Entries
      <3>3. s[i] \in E
        BY <2>2, <3>2
      <3>4. s[i] \in [key : Nat, value : Nat]
        BY <3>1, <3>3
      <3> QED BY <2>4, <3>4
    <2>6. set.map = [s EXCEPT ![i] = x]
      BY <2>3, <2>4
    <2>7. /\ set.map \in Seq([key : Nat, value : Nat]) /\ Len(set.map) = Len(s)
          /\ \A j \in 1 .. Len(s) : set.map[j] = IF j = i THEN x ELSE s[j]
      BY <2>2, <2>5, <2>6, UpdateSeq DEF Entries
    <2> QED BY <2>3, <2>5, <2>7 DEF Entries, EntryPut
  <1>3. CASE found = {} /\ fault = "sparse"
    BY <1>1, <1>3 DEF vex_set_entry, EntryPut
  <1>4. CASE found = {} /\ fault # "sparse"
    <2>1. PICK x : x = [key |-> key, value |-> v]
      OBVIOUS
    <2>2. set.map = Append(s, x) /\ set.status = "OK"
      BY <1>1, <1>4, <2>1 DEF vex_set_entry
    <2>3. x \in [key : Nat, value : Nat] /\ x.value = v
      BY <2>1
    <2>4. set.map \in Entries /\ Len(s) \in Nat /\ Len(set.map) = Len(s) + 1
          /\ \A j \in 1 .. Len(set.map) : set.map[j] = IF j = Len(s) + 1 THEN x ELSE s[j]
      BY <2>2, <2>3 DEF Entries
    <2>5. \A j \in 1 .. Len(set.map) : j = Len(s) + 1 \/ j \in 1 .. Len(s)
      BY <2>4
    <2> QED BY <2>2, <2>3, <2>4, <2>5 DEF EntryPut
  <1> QED BY <1>2, <1>3, <1>4

LEMMA SameRemembered ==
  ASSUME NEW ad, AdapterShape(ad), NEW v, NEW r, r.a = ad
  PROVE  Remembered(ad, v, r)
  BY DEF Remembered

LEMMA SetTmpRemembers ==
  ASSUME NEW mod, NEW ad, AdapterShape(ad), NEW tmp \in Nat, NEW v, NEW fault,
         NEW r, r = xair_vex_set_tmp(mod, ad, tmp, v, fault)
  PROVE  Remembered(ad, v, r) /\ r.m = mod
  <1>1. PICK set : set = vex_dense_set(ad.tmps, tmp, v, fault)
    OBVIOUS
  <1>2. PICK b : b = [ad EXCEPT !.tmps = set.map]
    OBVIOUS
  <1>3. /\ r.m = mod
        /\ (r.a = ad \/ (r.a = b /\ r.status = set.status))
    BY <1>1, <1>2 DEF xair_vex_set_tmp, VexReject, VexRet
  <1>4. /\ b.current = ad.current /\ b.memory = ad.memory /\ b.tmps = set.map
        /\ b.regs = ad.regs /\ b.sparse_regs = ad.sparse_regs
        /\ b = [current |-> b.current, memory |-> b.memory, tmps |-> b.tmps, regs |-> b.regs,
                sparse_regs |-> b.sparse_regs]
        /\ set.map = ad.tmps => b = ad
    BY <1>2 DEF AdapterShape
  <1>5. \/ set.map = ad.tmps
        \/ set.status = "OK" /\ set.map = Update(ad.tmps, tmp, v)
    BY <1>1 DEF vex_dense_set
  <1>6. CASE set.status = "OK" /\ set.map = Update(ad.tmps, tmp, v)
    <2>1. /\ IsFiniteSet(DOMAIN b.tmps) /\ DOMAIN b.tmps \subseteq Nat
          /\ {b.tmps[x] : x \in DOMAIN b.tmps}
               \subseteq {ad.tmps[x] : x \in DOMAIN ad.tmps} \cup {v}
      BY <1>4, <1>6, UpdateCovers DEF AdapterShape
    <2>2. AdapterShape(b) /\ Cached(b) \subseteq Cached(ad) \cup {v}
      BY <1>4, <2>1 DEF AdapterShape, Cached
    <2> QED BY <1>3, <1>4, <1>6, <2>2 DEF Remembered
  <1> QED BY <1>3, <1>4, <1>5, <1>6, SameRemembered

LEMMA PutRegRemembers ==
  ASSUME NEW mod, NEW ad, AdapterShape(ad), NEW offset \in Nat, NEW v \in Nat, NEW fault,
         NEW r, r = xair_vex_put_reg(mod, ad, offset, v, fault)
  PROVE  Remembered(ad, v, r) /\ r.m = mod
  <1>1. PICK set : set = vex_set_entry(ad.sparse_regs, offset, v, fault)
    OBVIOUS
  <1>2. PICK b : b = [ad EXCEPT !.sparse_regs = set.map]
    OBVIOUS
  <1>3. PICK c : c = [ad EXCEPT !.regs = Update(@, offset, v)]
    OBVIOUS
  <1>4. /\ r.m = mod
        /\ r.a = ad \/ (r.a = b /\ r.status = set.status) \/ (r.a = c /\ r.status = "OK")
    BY <1>1, <1>2, <1>3 DEF xair_vex_put_reg, VexReject, VexRet
  <1>5. CASE r.a = b /\ r.status = set.status
    <2>1. /\ b.current = ad.current /\ b.memory = ad.memory /\ b.tmps = ad.tmps
          /\ b.regs = ad.regs /\ b.sparse_regs = set.map
          /\ b = [current |-> b.current, memory |-> b.memory, tmps |-> b.tmps, regs |-> b.regs,
                  sparse_regs |-> b.sparse_regs]
          /\ set.map = ad.sparse_regs => b = ad
      BY <1>2 DEF AdapterShape
    <2>2. /\ set.map \in Entries
          /\ {set.map[i].value : i \in 1 .. Len(set.map)}
               \subseteq {ad.sparse_regs[i].value : i \in 1 .. Len(ad.sparse_regs)} \cup {v}
          /\ set.status # "OK" => set.map = ad.sparse_regs
      <3>1. PICK s \in Entries : s = ad.sparse_regs
        BY DEF AdapterShape
      <3>2. EntryPut(s, v, set)
        BY <1>1, <3>1, SetEntryCovers
      <3> QED BY <3>1, <3>2 DEF EntryPut
    <2>3. AdapterShape(b) /\ Cached(b) \subseteq Cached(ad) \cup {v}
      BY <2>1, <2>2 DEF AdapterShape, Cached
    <2> QED BY <1>4, <1>5, <2>1, <2>2, <2>3 DEF Remembered
  <1>6. CASE r.a = c /\ r.status = "OK"
    <2>1. /\ c.current = ad.current /\ c.memory = ad.memory /\ c.tmps = ad.tmps
          /\ c.regs = Update(ad.regs, offset, v) /\ c.sparse_regs = ad.sparse_regs
          /\ c = [current |-> c.current, memory |-> c.memory, tmps |-> c.tmps, regs |-> c.regs,
                  sparse_regs |-> c.sparse_regs]
      BY <1>3 DEF AdapterShape
    <2>2. /\ IsFiniteSet(DOMAIN c.regs) /\ DOMAIN c.regs \subseteq Nat
          /\ {c.regs[x] : x \in DOMAIN c.regs}
               \subseteq {ad.regs[x] : x \in DOMAIN ad.regs} \cup {v}
      BY <2>1, UpdateCovers DEF AdapterShape
    <2>3. AdapterShape(c) /\ Cached(c) \subseteq Cached(ad) \cup {v}
      BY <2>1, <2>2 DEF AdapterShape, Cached
    <2> QED BY <1>4, <1>6, <2>1, <2>3 DEF Remembered
  <1> QED BY <1>4, <1>5, <1>6, SameRemembered

LEMMA PeekedCached ==
  ASSUME NEW ad, NEW offset, NEW v \in xair_vex_peek_reg(ad, offset)
  PROVE  v \in Cached(ad)
  BY DEF xair_vex_peek_reg, Cached, vex_find_entry

-----------------------------------------------------------------------------
(* The slots of an exit: everything the adapter remembers has one.         *)

LEMMA AscendingCovers ==
  ASSUME NEW S, IsFiniteSet(S), S \subseteq Nat, NEW x \in S
  PROVE  \E i \in 1 .. Cardinality(S) : Ascending(S)[i] = x
  <1> DEFINE Below(y) == {z \in S : z < y}
  <1>1. \A y \in S : IsFiniteSet(Below(y)) /\ Cardinality(Below(y)) \in Nat
    BY FS_Subset, FS_CardinalityType
  <1>2. ASSUME NEW y \in S, NEW z \in S, y < z
        PROVE  Cardinality(Below(y)) < Cardinality(Below(z))
    <2>0. y \in Nat /\ z \in Nat /\ ~(y < y) /\ \A u \in S : u < y => u < z
      <3>1. y \in Nat /\ z \in Nat /\ \A u \in S : u \in Nat
        OBVIOUS
      <3> QED BY <1>2, <3>1
    <2>1. /\ \A u \in Below(y) : u \in Below(z)
          /\ y \in Below(z) /\ y \notin Below(y)
      BY <1>2, <2>0
    <2>2. /\ Cardinality(Below(y)) <= Cardinality(Below(z))
          /\ Cardinality(Below(y)) # Cardinality(Below(z))
      <3>1. Below(y) \in SUBSET Below(z) /\ Below(y) # Below(z)
        BY <2>1
      <3> QED BY <1>1, <3>1, FS_Subset
    <2> QED BY <1>1, <2>2
  <1>3. PICK i : i = Cardinality(Below(x)) + 1
    OBVIOUS
  <1>4. i \in 1 .. Cardinality(S)
    <2>1. Below(x) \subseteq S /\ x \notin Below(x)
      OBVIOUS
    <2>2. Cardinality(Below(x)) <= Cardinality(S) /\ Cardinality(Below(x)) # Cardinality(S)
      BY <2>1, FS_Subset
    <2>3. Cardinality(S) \in Nat
      BY FS_CardinalityType
    <2> QED BY <1>1, <1>3, <2>2, <2>3
  <1>5. \A y \in S : Cardinality(Below(y)) = i - 1 <=> y = x
    <2>1. ASSUME NEW y \in S, Cardinality(Below(y)) = i - 1
          PROVE  y = x
      <3>1. Cardinality(Below(y)) = Cardinality(Below(x))
        BY <1>1, <1>3, <2>1
      <3>2. ~(y < x) /\ ~(x < y)
        BY <1>1, <1>2, <3>1
      <3> QED BY <3>2
    <2> QED BY <1>1, <1>3, <2>1
  <1>6. Ascending(S)[i] = CHOOSE y \in S : Cardinality(Below(y)) = i - 1
    BY <1>4 DEF Ascending
  <1>7. Ascending(S)[i] = x
    BY <1>5, <1>6
  <1> QED BY <1>4, <1>7

LEMMA ListInSeq ==
  ASSUME NEW n \in Nat, NEW f, f = [i \in 1 .. n |-> f[i]]
  PROVE  f \in Seq({f[i] : i \in 1 .. n}) /\ Len(f) = n
  OBVIOUS

LEMMA Concatenated ==
  ASSUME NEW S, NEW s \in Seq(S), NEW t \in Seq(S)
  PROVE  /\ s \o t \in Seq(S) /\ Len(s \o t) = Len(s) + Len(t)
         /\ \A i \in 1 .. Len(s) : (s \o t)[i] = s[i]
         /\ \A i \in (Len(s) + 1) .. (Len(s) + Len(t)) : (s \o t)[i] = t[i - Len(s)]
  OBVIOUS

Covers(s, t) == \A i \in 1 .. Len(s) : \E j \in 1 .. Len(t) : t[j] = s[i]

LEMMA CoversTransitive ==
  ASSUME NEW s, NEW t, NEW u, Covers(s, t), Covers(t, u)
  PROVE  Covers(s, u)
  <1>1. ASSUME NEW i \in 1 .. Len(s)
        PROVE  \E j \in 1 .. Len(u) : u[j] = s[i]
    <2>1. PICK k \in 1 .. Len(t) : t[k] = s[i]
      BY DEF Covers
    <2>2. PICK j \in 1 .. Len(u) : u[j] = t[k]
      BY DEF Covers
    <2> QED BY <2>1, <2>2
  <1> QED BY <1>1 DEF Covers

LEMMA ConcatCovers ==
  ASSUME NEW U, NEW s \in Seq(U), NEW V, NEW t \in Seq(V)
  PROVE  s \o t \in Seq(U \cup V) /\ Covers(s, s \o t) /\ Covers(t, s \o t)
  <1>1. s \in Seq(U \cup V) /\ t \in Seq(U \cup V)
    BY SeqMono
  <1>2. /\ Len(s) \in Nat /\ Len(t) \in Nat /\ s \o t \in Seq(U \cup V)
        /\ Len(s \o t) = Len(s) + Len(t)
        /\ \A j \in 1 .. Len(s \o t) : (s \o t)[j] = IF j <= Len(s) THEN s[j] ELSE t[j - Len(s)]
    BY <1>1
  <1>3. ASSUME NEW i \in 1 .. Len(s)
        PROVE  \E j \in 1 .. Len(s \o t) : (s \o t)[j] = s[i]
    BY <1>2
  <1>4. ASSUME NEW i \in 1 .. Len(t)
        PROVE  \E j \in 1 .. Len(s \o t) : (s \o t)[j] = t[i]
    <2>1. i + Len(s) \in 1 .. Len(s \o t) /\ ~(i + Len(s) <= Len(s)) /\ i + Len(s) - Len(s) = i
      BY <1>2
    <2> QED BY <1>2, <2>1
  <1> QED BY <1>2, <1>3, <1>4 DEF Covers

HasSlot(ad, slot) == \E i \in 1 .. Len(Slots(ad)) : Slots(ad)[i] = slot

SlotsComplete(ad) ==
  /\ Len(Slots(ad)) \in Nat
  /\ ad.memory # INVALID => HasSlot(ad, <<"mem", 0>>)
  /\ \A t \in DOMAIN ad.tmps : HasSlot(ad, <<"tmp", t>>)
  /\ \A r \in DOMAIN ad.regs : HasSlot(ad, <<"reg", r>>)
  /\ \A i \in 1 .. Len(ad.sparse_regs) : HasSlot(ad, <<"sparse", i>>)

LEMMA SlotsCover ==
  ASSUME NEW ad, AdapterShape(ad)
  PROVE  SlotsComplete(ad)
  <1>1. PICK s1 : s1 = IF ad.memory = INVALID THEN <<>> ELSE <<<<"mem", 0>>>>
    OBVIOUS
  <1>2. PICK s2 : s2 = [i \in 1 .. Cardinality(DOMAIN ad.tmps) |->
                          <<"tmp", Ascending(DOMAIN ad.tmps)[i]>>]
    OBVIOUS
  <1>3. PICK s3 : s3 = [i \in 1 .. Cardinality(DOMAIN ad.regs) |->
                          <<"reg", Ascending(DOMAIN ad.regs)[i]>>]
    OBVIOUS
  <1>4. PICK s4 : s4 = [i \in 1 .. Len(ad.sparse_regs) |-> <<"sparse", i>>]
    OBVIOUS
  <1>5. Slots(ad) = ((s1 \o s2) \o s3) \o s4
    BY <1>1, <1>2, <1>3, <1>4 DEF Slots
  <1>6. /\ Cardinality(DOMAIN ad.tmps) \in Nat /\ Cardinality(DOMAIN ad.regs) \in Nat
        /\ Len(ad.sparse_regs) \in Nat
    BY FS_CardinalityType DEF AdapterShape, Entries
  <1>7. PICK U1 : s1 \in Seq(U1)
    <2>1. s1 \in Seq({<<"mem", 0>>})
      BY <1>1
    <2> QED BY <2>1
  <1>8. PICK U2 : s2 \in Seq(U2) /\ Len(s2) = Cardinality(DOMAIN ad.tmps)
    <2>1. s2 = [i \in 1 .. Cardinality(DOMAIN ad.tmps) |-> s2[i]]
      BY <1>2
    <2> QED BY <1>6, <2>1, ListInSeq, Zenon
  <1>9. PICK U3 : s3 \in Seq(U3) /\ Len(s3) = Cardinality(DOMAIN ad.regs)
    <2>1. s3 = [i \in 1 .. Cardinality(DOMAIN ad.regs) |-> s3[i]]
      BY <1>3
    <2> QED BY <1>6, <2>1, ListInSeq, Zenon
  <1>10. PICK U4 : s4 \in Seq(U4) /\ Len(s4) = Len(ad.sparse_regs)
    BY <1>4, <1>6, ListInSeq
  <1>11. PICK s12 : s12 = s1 \o s2
    OBVIOUS
  <1>12. PICK s123 : s123 = s12 \o s3
    OBVIOUS
  <1>13. PICK s : s = s123 \o s4
    OBVIOUS
  <1>14. s12 \in Seq(U1 \cup U2) /\ Covers(s1, s12) /\ Covers(s2, s12)
    BY <1>7, <1>8, <1>11, ConcatCovers
  <1>15. s123 \in Seq((U1 \cup U2) \cup U3) /\ Covers(s12, s123) /\ Covers(s3, s123)
    BY <1>9, <1>12, <1>14, ConcatCovers
  <1>16. s \in Seq(((U1 \cup U2) \cup U3) \cup U4) /\ Covers(s123, s) /\ Covers(s4, s)
    BY <1>10, <1>13, <1>15, ConcatCovers
  <1>17. Slots(ad) = s
    BY <1>5, <1>11, <1>12, <1>13
  <1>18. /\ Covers(s1, Slots(ad)) /\ Covers(s2, Slots(ad))
         /\ Covers(s3, Slots(ad)) /\ Covers(s4, Slots(ad))
    BY <1>14, <1>15, <1>16, <1>17, CoversTransitive
  <1>19. ASSUME ad.memory # INVALID
         PROVE  HasSlot(ad, <<"mem", 0>>)
    <2>1. 1 \in 1 .. Len(s1) /\ s1[1] = <<"mem", 0>>
      BY <1>1, <1>19
    <2> QED BY <1>18, <2>1 DEF HasSlot, Covers
  <1>20. ASSUME NEW t \in DOMAIN ad.tmps
         PROVE  HasSlot(ad, <<"tmp", t>>)
    <2>1. PICK i \in 1 .. Cardinality(DOMAIN ad.tmps) : Ascending(DOMAIN ad.tmps)[i] = t
      BY AscendingCovers DEF AdapterShape
    <2>2. i \in 1 .. Len(s2) /\ s2[i] = <<"tmp", t>>
      BY <1>2, <1>8, <2>1
    <2> QED BY <1>18, <2>2 DEF HasSlot, Covers
  <1>21. ASSUME NEW r \in DOMAIN ad.regs
         PROVE  HasSlot(ad, <<"reg", r>>)
    <2>1. PICK i \in 1 .. Cardinality(DOMAIN ad.regs) : Ascending(DOMAIN ad.regs)[i] = r
      BY AscendingCovers DEF AdapterShape
    <2>2. i \in 1 .. Len(s3) /\ s3[i] = <<"reg", r>>
      BY <1>3, <1>9, <2>1
    <2> QED BY <1>18, <2>2 DEF HasSlot, Covers
  <1>22. ASSUME NEW i \in 1 .. Len(ad.sparse_regs)
         PROVE  HasSlot(ad, <<"sparse", i>>)
    <2>1. i \in 1 .. Len(s4) /\ s4[i] = <<"sparse", i>>
      BY <1>4, <1>10
    <2> QED BY <1>18, <2>1 DEF HasSlot, Covers
  <1>23. Len(Slots(ad)) \in Nat
    BY <1>16, <1>17
  <1> QED BY <1>19, <1>20, <1>21, <1>22, <1>23 DEF SlotsComplete

(* The adapter in the continuation: it remembers parameters only.          *)
LEMMA MovedCaches ==
  ASSUME NEW ad, AdapterShape(ad), NEW cont, NEW first \in Nat,
         NEW b, b = MovedTo(ad, cont, first)
  PROVE  /\ AdapterShape(b) /\ b.current = cont
         /\ Cached(b) \subseteq (first + 1) .. (first + Len(Slots(ad)))
  <1> DEFINE next(slot) == first + (CHOOSE i \in 1 .. Len(Slots(ad)) : Slots(ad)[i] = slot)
  <1>1. PICK n \in Nat : n = Len(Slots(ad))
    BY SlotsCover DEF SlotsComplete
  <1>2. ASSUME NEW slot, HasSlot(ad, slot)
        PROVE  next(slot) \in (first + 1) .. (first + n)
    <2>1. (CHOOSE i \in 1 .. Len(Slots(ad)) : Slots(ad)[i] = slot) \in 1 .. n
      BY <1>1, <1>2 DEF HasSlot
    <2> QED BY <2>1
  <1> HIDE DEF next
  <1>3. PICK memory : memory = IF ad.memory = INVALID THEN ad.memory ELSE next(<<"mem", 0>>)
    OBVIOUS
  <1>4. PICK tmps : tmps = [t \in DOMAIN ad.tmps |-> next(<<"tmp", t>>)]
    OBVIOUS
  <1>5. PICK regs : regs = [r \in DOMAIN ad.regs |-> next(<<"reg", r>>)]
    OBVIOUS
  <1>6. PICK sparse : sparse = [i \in DOMAIN ad.sparse_regs |->
                                  [ad.sparse_regs[i] EXCEPT !.value = next(<<"sparse", i>>)]]
    OBVIOUS
  <1>7. b = [ad EXCEPT !.current = cont, !.memory = memory, !.tmps = tmps, !.regs = regs,
                       !.sparse_regs = sparse]
    BY <1>3, <1>4, <1>5, <1>6 DEF MovedTo, next
  <1>8. /\ b.current = cont /\ b.memory = memory /\ b.tmps = tmps /\ b.regs = regs
        /\ b.sparse_regs = sparse
        /\ b = [current |-> b.current, memory |-> b.memory, tmps |-> b.tmps, regs |-> b.regs,
                sparse_regs |-> b.sparse_regs]
    BY <1>7 DEF AdapterShape
  <1>9. SlotsComplete(ad)
    BY SlotsCover
  <1>10. /\ DOMAIN tmps = DOMAIN ad.tmps
         /\ \A t \in DOMAIN tmps : tmps[t] \in (first + 1) .. (first + n)
    BY <1>2, <1>4, <1>9 DEF SlotsComplete
  <1>11. /\ DOMAIN regs = DOMAIN ad.regs
         /\ \A r \in DOMAIN regs : regs[r] \in (first + 1) .. (first + n)
    BY <1>2, <1>5, <1>9 DEF SlotsComplete
  <1>12. memory # INVALID => memory \in (first + 1) .. (first + n)
    BY <1>2, <1>3, <1>9 DEF SlotsComplete
  <1>13. /\ sparse \in Entries
         /\ \A i \in 1 .. Len(sparse) : sparse[i].value \in (first + 1) .. (first + n)
    <2>1. PICK E : E = [key : Nat, value : Nat]
      OBVIOUS
    <2>2. ad.sparse_regs \in Seq(E)
      BY <2>1 DEF AdapterShape, Entries
    <2>3. PICK len \in Nat : len = Len(ad.sparse_regs) /\ DOMAIN ad.sparse_regs = 1 .. len
      BY <2>2
    <2>4. ASSUME NEW i \in 1 .. len
          PROVE  /\ sparse[i] \in E
                 /\ sparse[i].value \in (first + 1) .. (first + n)
      <3>1. PICK k : k = next(<<"sparse", i>>)
        OBVIOUS
      <3>2. k \in (first + 1) .. (first + n) /\ k \in Nat
        BY <1>2, <1>9, <2>3, <3>1 DEF SlotsComplete
      <3>0. ad.sparse_regs[i] \in E
        BY <2>2, <2>3
      <3>3. ad.sparse_regs[i] \in [key : Nat, value : Nat]
        BY <2>1, <3>0
      <3>4. sparse[i] = [ad.sparse_regs[i] EXCEPT !.value = k]
        BY <1>6, <2>3, <3>1
      <3> QED BY <2>1, <3>2, <3>3, <3>4
    <2>5. sparse = [i \in 1 .. len |-> sparse[i]]
      BY <1>6, <2>3
    <2>6. sparse \in Seq(E) /\ Len(sparse) = len
      BY <2>4, <2>5
    <2> QED BY <2>1, <2>4, <2>6 DEF Entries
  <1>14. AdapterShape(b)
    BY <1>8, <1>10, <1>11, <1>13 DEF AdapterShape
  <1>15. Cached(b) \subseteq (first + 1) .. (first + n)
    BY <1>8, <1>10, <1>11, <1>12, <1>13 DEF Cached
  <1> QED BY <1>1, <1>8, <1>14, <1>15

-----------------------------------------------------------------------------
(* Terminators, blocks and the parameters of a continuation.               *)

(* n differs from a at most in the pool of arguments.                      *)
PoolOnly(pre, n) ==
  /\ Formed(n) /\ n.values = pre.values /\ n.ops = pre.ops /\ n.blocks = pre.blocks
  /\ n.frozen = pre.frozen

TermSet(b, pre, r) ==
  /\ Formed(r.m) /\ r.m.values = pre.values /\ r.m.ops = pre.ops
  /\ r.status # "OK" => r.m.blocks = pre.blocks
  /\ r.status = "OK" =>
       /\ b \in 1 .. Len(pre.blocks) /\ pre.blocks[b].term.kind = "NONE"
       /\ Len(r.m.blocks) = Len(pre.blocks) /\ r.m.blocks[b].term.kind # "NONE"
       /\ \A c \in 1 .. Len(pre.blocks) : c # b => r.m.blocks[c] = pre.blocks[c]

LEMMA AppendArgs ==
  ASSUME NEW pre, NEW b, PoolOnly(b, pre), NEW W, NEW args \in Seq(W), NEW null, NEW oom,
         NEW put, put = append_term_args(pre, args, null, oom)
  PROVE  PoolOnly(b, put.m)
  <1>1. PICK U : Shaped(pre, U)
    BY DEF PoolOnly, Formed
  <1>2. PICK pool : pool = pre.term_args \o args
    OBVIOUS
  <1>3. PICK n : n = [pre EXCEPT !.term_args = pool]
    OBVIOUS
  <1>4. put.m = pre \/ put.m = n
    BY <1>2, <1>3 DEF append_term_args, Ret
  <1>5. PICK V : V = U \cup W
    OBVIOUS
  <1>6. Shaped(pre, V) /\ pool \in Seq(V)
    <2>1. Shaped(pre, V) /\ args \in Seq(V)
      BY <1>1, <1>5, ShapedMono, SeqMono
    <2>2. pre.term_args \in Seq(V)
      BY <2>1, ShapedParts
    <2> QED BY <1>2, <2>1, <2>2
  <1>7. /\ Shaped(n, V) /\ n.values = pre.values /\ n.ops = pre.ops /\ n.blocks = pre.blocks
        /\ n.frozen = pre.frozen
    BY <1>3, <1>6 DEF Shaped
  <1> QED BY <1>4, <1>7 DEF PoolOnly, Formed

LEMMA RefusedTerm ==
  ASSUME NEW pre, NEW n, PoolOnly(pre, n), NEW b, NEW st, st # "OK"
  PROVE  TermSet(b, pre, Reject(n, st))
  BY DEF TermSet, PoolOnly, Reject, Ret

LEMMA TermInstalled ==
  ASSUME NEW pre, Formed(pre), NEW n, PoolOnly(pre, n), NEW b, NEW term, term.kind # "NONE"
  PROVE  TermSet(b, pre, set_term(n, b, term))
  <1>1. PICK r : r = set_term(n, b, term)
    OBVIOUS
  <1>2. CASE n.frozen \/ ~valid_block(n, b) \/ n.blocks[b].term.kind # "NONE"
    BY <1>2, RefusedTerm DEF set_term
  <1>3. CASE ~(n.frozen \/ ~valid_block(n, b) \/ n.blocks[b].term.kind # "NONE")
    <2>1. PICK U : Shaped(n, U)
      BY DEF PoolOnly, Formed
    <2>2. PICK V : V = U \cup {term}
      OBVIOUS
    <2>3. Shaped(n, V) /\ term \in V
      BY <2>1, <2>2, ShapedMono
    <2>4. b \in 1 .. Len(n.blocks) /\ n.blocks \in Seq(BlocksOver(V))
      BY <1>3, <2>3, ShapedParts DEF valid_block
    <2>5. PICK new : new = [n.blocks[b] EXCEPT !.term = term]
      OBVIOUS
    <2>6. new \in BlocksOver(V) /\ new.term = term
      <3>1. n.blocks[b] \in BlocksOver(V)
        BY <2>4
      <3>2. new \in BlocksOver(V)
        BY <2>3, <2>5, <3>1, BlockFields
      <3> QED BY <2>5, <3>1, <3>2 DEF BlocksOver
    <2>7. PICK blocks : blocks = [n.blocks EXCEPT ![b] = new]
      OBVIOUS
    <2>8. /\ blocks \in Seq(BlocksOver(V)) /\ Len(blocks) = Len(n.blocks)
          /\ \A c \in 1 .. Len(n.blocks) : blocks[c] = IF c = b THEN new ELSE n.blocks[c]
      BY <2>4, <2>6, <2>7, UpdateSeq
    <2>9. r.m = [n EXCEPT !.blocks = blocks] /\ r.status = "OK"
      BY <1>1, <1>3, <2>3, <2>5, <2>7 DEF set_term, Ret, Shaped
    <2>10. Shaped(r.m, V) /\ r.m.blocks = blocks /\ r.m.values = n.values /\ r.m.ops = n.ops
      BY <2>3, <2>8, <2>9 DEF Shaped
    <2> QED BY <1>1, <1>3, <2>4, <2>6, <2>8, <2>9, <2>10 DEF TermSet, PoolOnly, Formed
  <1> QED BY <1>2, <1>3

LEMMA SamePool ==
  ASSUME NEW pre, Formed(pre)
  PROVE  PoolOnly(pre, pre)
  BY DEF PoolOnly

LEMMA SetJumpTerminates ==
  ASSUME NEW pre, Formed(pre), NEW b, NEW target, NEW W, NEW args \in Seq(W), NEW fault
  PROVE  /\ TermSet(b, pre, xair_set_jump(pre, b, target, args, fault))
         /\ TermSet(b, pre, xair_set_return(pre, b, args, fault))
  <1>1. PICK put : put = append_term_args(pre, args, fault = "null_args", fault = "args")
    OBVIOUS
  <1>2. PoolOnly(pre, pre) /\ PoolOnly(pre, put.m)
    BY <1>1, SamePool, AppendArgs
  <1>3. PICK jump : jump = [NoTerm EXCEPT !.kind = "JUMP", !.true_target = target,
                              !.true_arg_offset = put.out, !.true_arg_count = Len(args)]
    OBVIOUS
  <1>4. PICK return : return = [NoTerm EXCEPT !.kind = "RETURN",
                                  !.true_arg_offset = put.out, !.true_arg_count = Len(args)]
    OBVIOUS
  <1>5. jump.kind # "NONE" /\ return.kind # "NONE"
    BY <1>3, <1>4 DEF NoTerm
  <1>6. \/ xair_set_jump(pre, b, target, args, fault) = Reject(pre, "BAD_ARG")
        \/ /\ xair_set_jump(pre, b, target, args, fault) = Reject(put.m, put.status)
           /\ put.status # "OK"
        \/ xair_set_jump(pre, b, target, args, fault) = set_term(put.m, b, jump)
    BY <1>1, <1>3 DEF xair_set_jump
  <1>7. \/ xair_set_return(pre, b, args, fault) = Reject(pre, "BAD_ARG")
        \/ /\ xair_set_return(pre, b, args, fault) = Reject(put.m, put.status)
           /\ put.status # "OK"
        \/ xair_set_return(pre, b, args, fault) = set_term(put.m, b, return)
    BY <1>1, <1>4 DEF xair_set_return
  <1>8. TermSet(b, pre, set_term(put.m, b, jump)) /\ TermSet(b, pre, set_term(put.m, b, return))
    BY <1>2, <1>5, TermInstalled
  <1>9. TermSet(b, pre, Reject(pre, "BAD_ARG"))
    BY <1>2, RefusedTerm
  <1>10. put.status # "OK" => TermSet(b, pre, Reject(put.m, put.status))
    BY <1>2, RefusedTerm
  <1> QED BY <1>6, <1>7, <1>8, <1>9, <1>10

LEMMA SetCbranchTerminates ==
  ASSUME NEW pre, Formed(pre), NEW b, NEW condition, NEW taken, NEW W, NEW args \in Seq(W),
         NEW cont, NEW X, NEW olds \in Seq(X), NEW fault,
         NEW r, r = xair_set_cbranch(pre, b, condition, taken, args, cont, olds, fault)
  PROVE  TermSet(b, pre, r)
  <1>1. PICK put1 : put1 = append_term_args(pre, args, fault = "null_args", fault = "args")
    OBVIOUS
  <1>2. PICK put2 : put2 = append_term_args(put1.m, olds, fault = "null_false_args",
                                            fault = "false_args")
    OBVIOUS
  <1>3. PoolOnly(pre, pre) /\ PoolOnly(pre, put1.m)
    BY <1>1, SamePool, AppendArgs
  <1>4. PoolOnly(pre, put2.m)
    BY <1>2, <1>3, AppendArgs
  <1>5. PICK term : term = [NoTerm EXCEPT !.kind = "CBRANCH", !.condition = condition,
                              !.true_target = taken, !.false_target = cont,
                              !.true_arg_offset = put1.out, !.true_arg_count = Len(args),
                              !.false_arg_offset = put2.out, !.false_arg_count = Len(olds)]
    OBVIOUS
  <1>6. term.kind # "NONE"
    BY <1>5 DEF NoTerm
  <1>7. \/ r = Reject(pre, "BAD_ARG")
        \/ r = Reject(put1.m, put1.status) /\ put1.status # "OK"
        \/ r = Reject(put2.m, put2.status) /\ put2.status # "OK"
        \/ r = set_term(put2.m, b, term)
    BY <1>1, <1>2, <1>5 DEF xair_set_cbranch
  <1>8. TermSet(b, pre, set_term(put2.m, b, term))
    BY <1>4, <1>6, TermInstalled
  <1> QED BY <1>3, <1>4, <1>7, <1>8, RefusedTerm

(* n is mod with a new open block behind the others that has k parameters. *)
Continued(mod, n, k) ==
  /\ Formed(n) /\ n.ops = mod.ops
  /\ Len(n.values) = Len(mod.values) + k
  /\ \A v \in 1 .. Len(mod.values) : n.values[v] = mod.values[v]
  /\ \A v \in (Len(mod.values) + 1) .. Len(n.values) : n.values[v].block = Len(mod.blocks) + 1
  /\ Len(n.blocks) = Len(mod.blocks) + 1
  /\ \A b \in 1 .. Len(mod.blocks) : n.blocks[b] = mod.blocks[b]
  /\ n.blocks[Len(mod.blocks) + 1].term.kind = "NONE"

LEMMA BlockCreated ==
  ASSUME NEW mod, Formed(mod), NEW fault, NEW r, r = xair_block_create(mod, fault)
  PROVE  /\ r.status # "OK" => r.m = mod
         /\ r.status = "OK" => Continued(mod, r.m, 0) /\ r.out = Len(mod.blocks) + 1
  <1>1. PICK block : block = [params |-> <<>>, ops |-> <<>>, term |-> NoTerm]
    OBVIOUS
  <1>2. PICK blocks : blocks = Append(mod.blocks, block)
    OBVIOUS
  <1>3. PICK n : n = [mod EXCEPT !.blocks = blocks]
    OBVIOUS
  <1>4. \/ r.status # "OK" /\ r.m = mod
        \/ r.status = "OK" /\ r.m = n /\ r.out = Len(mod.blocks) + 1
    BY <1>1, <1>2, <1>3 DEF xair_block_create, Ret, Reject
  <1>5. PICK U : Shaped(mod, U)
    BY DEF Formed
  <1>6. PICK V : V = U \cup {NoTerm}
    OBVIOUS
  <1>7. Shaped(mod, V) /\ block \in BlocksOver(V) /\ block.term.kind = "NONE"
    BY <1>1, <1>5, <1>6, ShapedMono DEF BlocksOver, NoTerm
  <1>8. /\ blocks \in Seq(BlocksOver(V)) /\ Len(mod.blocks) \in Nat
        /\ Len(blocks) = Len(mod.blocks) + 1 /\ blocks[Len(mod.blocks) + 1] = block
        /\ \A b \in 1 .. Len(mod.blocks) : blocks[b] = mod.blocks[b]
    BY <1>2, <1>7, ShapedParts
  <1>9. Shaped(n, V) /\ n.values = mod.values /\ n.ops = mod.ops /\ n.blocks = blocks
    BY <1>3, <1>7, <1>8 DEF Shaped
  <1>10. Len(mod.values) \in Nat
    BY <1>5, ShapedParts
  <1>11. Continued(mod, n, 0)
    BY <1>7, <1>8, <1>9, <1>10 DEF Continued, Formed
  <1> QED BY <1>4, <1>11

LEMMA Transferred ==
  ASSUME NEW mod, Formed(mod), NEW pre, Continued(mod, pre, 0), NEW ad, NEW k \in Nat,
         NEW n, n = vex_transfer_value_to_continuation(pre, ad, Len(mod.blocks) + 1, k)
  PROVE  Continued(mod, n, k)
  <1>1. PICK cont : cont = Len(mod.blocks) + 1
    OBVIOUS
  <1>2. PICK added : added = [i \in 1 .. k |->
                               [type |-> TypeOf(pre, InSlot(ad, Slots(ad)[i])), block |-> cont,
                                op |-> INVALID, name |-> SlotName(ad, Slots(ad)[i])]]
    OBVIOUS
  <1>3. PICK params : params = [i \in 1 .. k |-> Len(pre.values) + i]
    OBVIOUS
  <1>4. PICK U : Shaped(pre, U)
    BY DEF Continued, Formed
  <1>0. PICK A, P : A = {added[i] : i \in 1 .. k} /\ P = {params[i] : i \in 1 .. k}
    OBVIOUS
  <1>5. PICK V : V = (U \cup A) \cup P
    OBVIOUS
  <1>6. Shaped(pre, V)
    BY <1>4, <1>5, ShapedMono
  <1>7. added \in Seq(V) /\ Len(added) = k /\ params \in Seq(V)
    <2>1. added \in Seq(A) /\ Len(added) = k
      BY <1>0, <1>2, ListInSeq
    <2>2. params \in Seq(P)
      BY <1>0, <1>3, ListInSeq
    <2>3. A \subseteq V /\ P \subseteq V
      BY <1>5
    <2> QED BY <2>1, <2>2, <2>3, SeqMono
  <1>8. PICK values : values = pre.values \o added
    OBVIOUS
  <1>9. PICK len \in Nat : len = Len(pre.values)
    BY <1>4, ShapedParts
  <1>10. /\ values \in Seq(V) /\ Len(values) = len + k
         /\ \A v \in 1 .. len : values[v] = pre.values[v]
         /\ \A v \in (len + 1) .. (len + k) : values[v].block = cont
    <2>1. pre.values \in Seq(V)
      BY <1>6, ShapedParts
    <2>2. added \in Seq(V) /\ Len(added) = k
      BY <1>7
    <2>3. /\ values \in Seq(V) /\ Len(values) = Len(pre.values) + Len(added)
          /\ \A v \in 1 .. Len(pre.values) : values[v] = pre.values[v]
          /\ \A v \in (Len(pre.values) + 1) .. (Len(pre.values) + Len(added)) :
               values[v] = added[v - Len(pre.values)]
      BY <1>8, <2>1, <2>2, Concatenated
    <2>4. ASSUME NEW v \in (len + 1) .. (len + k)
          PROVE  values[v].block = cont
      <3>1. v - len \in 1 .. k
        BY <1>9
      <3>2. added[v - len].block = cont
        BY <1>2, <3>1
      <3>3. values[v] = added[v - len]
        BY <1>9, <2>2, <2>3
      <3> QED BY <3>2, <3>3
    <2> QED BY <1>9, <2>2, <2>3, <2>4
  <1>11. cont \in 1 .. Len(pre.blocks) /\ Len(pre.blocks) = cont /\ pre.blocks \in Seq(BlocksOver(V))
    <2>1. Len(mod.blocks) \in Nat
      BY ShapedParts DEF Formed
    <2> QED BY <1>1, <1>6, <2>1, ShapedParts DEF Continued
  <1>12. PICK new : new = [pre.blocks[cont] EXCEPT !.params = params]
    OBVIOUS
  <1>13. new \in BlocksOver(V) /\ new.term = pre.blocks[cont].term
    <2>1. pre.blocks[cont] \in BlocksOver(V)
      BY <1>11
    <2> QED BY <1>7, <1>12, <2>1 DEF BlocksOver
  <1>14. PICK blocks : blocks = [pre.blocks EXCEPT ![cont] = new]
    OBVIOUS
  <1>15. /\ blocks \in Seq(BlocksOver(V)) /\ Len(blocks) = cont
         /\ \A b \in 1 .. cont : blocks[b] = IF b = cont THEN new ELSE pre.blocks[b]
    BY <1>11, <1>13, <1>14, UpdateSeq
  <1>16. n = [pre EXCEPT !.values = values, !.blocks = blocks]
    BY <1>1, <1>2, <1>3, <1>6, <1>8, <1>12, <1>14
    DEF vex_transfer_value_to_continuation, Shaped
  <1>17. Shaped(n, V) /\ n.values = values /\ n.blocks = blocks /\ n.ops = pre.ops
    BY <1>6, <1>10, <1>15, <1>16 DEF Shaped
  <1>18. /\ Len(mod.blocks) \in Nat /\ len = Len(mod.values)
         /\ \A v \in 1 .. len : pre.values[v] = mod.values[v]
         /\ \A b \in 1 .. Len(mod.blocks) : b \in 1 .. cont /\ b # cont /\ pre.blocks[b] = mod.blocks[b]
         /\ pre.blocks[cont].term.kind = "NONE" /\ pre.ops = mod.ops
    <2>1. Len(mod.blocks) \in Nat /\ Len(mod.values) \in Nat
      BY ShapedParts DEF Formed
    <2> QED BY <1>1, <1>9, <2>1 DEF Continued
  <1> QED BY <1>1, <1>9, <1>10, <1>11, <1>13, <1>15, <1>17, <1>18 DEF Continued, Formed

-----------------------------------------------------------------------------
(* The calls of the adapter that stay in the block.                        *)

Inside(mod, ad, r) ==
  /\ BuildsIn(ad.current, mod, r.m)
  /\ AdapterShape(r.a) /\ r.a.current = ad.current
  /\ \A v \in Cached(r.a) : v \in Cached(ad) \/ Usable(r.m, ad.current, v)
  /\ r.status # "OK" => r.a = ad

LEMMA SameInside ==
  ASSUME NEW mod, Formed(mod), NEW ad, AdapterShape(ad), NEW r, r.m = mod, r.a = ad
  PROVE  Inside(mod, ad, r)
  <1>1. Len(mod.values) \in Nat /\ Len(mod.ops) \in Nat
    BY ShapedParts DEF Formed
  <1> QED BY <1>1, LongerSelf DEF Inside, BuildsIn

LEMMA RememberedInside ==
  ASSUME NEW mod, NEW ad, NEW r, NEW v, BuildsIn(ad.current, mod, r.m), Remembered(ad, v, r),
         v \in Cached(ad) \/ Usable(r.m, ad.current, v)
  PROVE  Inside(mod, ad, r)
  BY DEF Inside, Remembered

LEMMA SetTmpInside ==
  ASSUME NEW mod, Formed(mod), NEW ad, AdapterShape(ad), NEW tmp \in Nat, NEW v \in Cached(ad),
         NEW fault
  PROVE  Inside(mod, ad, xair_vex_set_tmp(mod, ad, tmp, v, fault))
  <1>1. PICK r : r = xair_vex_set_tmp(mod, ad, tmp, v, fault)
    OBVIOUS
  <1>2. Remembered(ad, v, r) /\ r.m = mod
    BY <1>1, SetTmpRemembers
  <1>3. BuildsIn(ad.current, mod, mod)
    <2>1. Len(mod.values) \in Nat /\ Len(mod.ops) \in Nat
      BY ShapedParts DEF Formed
    <2> QED BY <2>1, LongerSelf DEF BuildsIn
  <1> QED BY <1>1, <1>2, <1>3, RememberedInside

LEMMA PutRegInside ==
  ASSUME NEW mod, Formed(mod), NEW ad, AdapterShape(ad), NEW offset \in Nat,
         NEW v \in Nat, v \in Cached(ad), NEW fault
  PROVE  Inside(mod, ad, xair_vex_put_reg(mod, ad, offset, v, fault))
  <1>1. PICK r : r = xair_vex_put_reg(mod, ad, offset, v, fault)
    OBVIOUS
  <1>2. Remembered(ad, v, r) /\ r.m = mod
    BY <1>1, PutRegRemembers
  <1>3. BuildsIn(ad.current, mod, mod)
    <2>1. Len(mod.values) \in Nat /\ Len(mod.ops) \in Nat
      BY ShapedParts DEF Formed
    <2> QED BY <2>1, LongerSelf DEF BuildsIn
  <1> QED BY <1>1, <1>2, <1>3, RememberedInside

LEMMA UsableIsNat ==
  ASSUME NEW mod, NEW c, NEW v, Usable(mod, c, v)
  PROVE  v \in Nat
  <1>1. v \in 1 .. Len(mod.values)
    BY DEF Usable, valid_value
  <1> QED BY <1>1

LEMMA EmittedInside ==
  ASSUME NEW mod, Formed(mod), NEW ad, AdapterShape(ad), NEW tmp \in Nat, NEW fault,
         NEW built, BuiltIn(ad.current, mod, built)
  PROVE  Inside(mod, ad, Emitted(ad, tmp, built, fault))
  <1>1. PICK r : r = Emitted(ad, tmp, built, fault)
    OBVIOUS
  <1>2. CASE built.status # "OK"
    <2>1. r.m = mod /\ r.a = ad
      BY <1>1, <1>2 DEF Emitted, VexReject, VexRet, BuiltIn
    <2> QED BY <1>1, <2>1, SameInside
  <1>3. CASE built.status = "OK"
    <2>1. r = xair_vex_set_tmp(built.m, ad, tmp, built.out, fault)
      BY <1>1, <1>3 DEF Emitted
    <2>2. Remembered(ad, built.out, r) /\ r.m = built.m
      BY <2>1, SetTmpRemembers
    <2> QED BY <1>1, <1>3, <2>2, RememberedInside DEF BuiltIn
  <1> QED BY <1>2, <1>3

LEMMA MemoryInside ==
  ASSUME NEW mod, NEW ad, AdapterShape(ad), NEW n, BuildsIn(ad.current, mod, n), NEW v,
         Usable(n, ad.current, v),
         NEW r, r = VexRet(n, [ad EXCEPT !.memory = v], "OK", INVALID)
  PROVE  Inside(mod, ad, r)
  <1>1. r.m = n /\ r.status = "OK" /\ r.a = [ad EXCEPT !.memory = v]
    BY DEF VexRet
  <1>2. AdapterShape(r.a) /\ r.a.current = ad.current
    BY <1>1 DEF AdapterShape
  <1>3. /\ r.a.memory = v /\ r.a.tmps = ad.tmps /\ r.a.regs = ad.regs
        /\ r.a.sparse_regs = ad.sparse_regs
    BY <1>1 DEF AdapterShape
  <1>4. Cached(r.a) \subseteq Cached(ad) \cup {v}
    BY <1>3 DEF Cached
  <1> QED BY <1>1, <1>2, <1>4 DEF Inside

LEMMA SetMemoryInside ==
  ASSUME NEW mod, Formed(mod), NEW ad, AdapterShape(ad), NEW v, Usable(mod, ad.current, v)
  PROVE  Inside(mod, ad, xair_vex_set_memory(mod, ad, v))
  <1>1. PICK r : r = xair_vex_set_memory(mod, ad, v)
    OBVIOUS
  <1>2. \/ r.m = mod /\ r.a = ad
        \/ r = VexRet(mod, [ad EXCEPT !.memory = v], "OK", INVALID)
    BY <1>1 DEF xair_vex_set_memory, VexReject, VexRet
  <1>3. BuildsIn(ad.current, mod, mod)
    <2>1. Len(mod.values) \in Nat /\ Len(mod.ops) \in Nat
      BY ShapedParts DEF Formed
    <2> QED BY <2>1, LongerSelf DEF BuildsIn
  <1> QED BY <1>1, <1>2, <1>3, SameInside, MemoryInside

LEMMA GetRegInside ==
  ASSUME NEW mod, Formed(mod), NEW ad, AdapterShape(ad), NEW offset \in Nat,
         NEW type, NEW name, NEW fault
  PROVE  Inside(mod, ad, xair_vex_get_reg(mod, ad, offset, type, name, fault))
  <1>1. PICK r : r = xair_vex_get_reg(mod, ad, offset, type, name, fault)
    OBVIOUS
  <1>2. PICK added : added = xair_block_add_param(mod, ad.current, type, name, fault)
    OBVIOUS
  <1>3. PICK put : put = xair_vex_put_reg(added.m, ad, offset, added.out, fault)
    OBVIOUS
  <1>4. BuiltIn(ad.current, mod, added)
    BY <1>2, AddParamBuilt
  <1>5. \/ r.m = mod /\ r.a = ad
        \/ r.m = added.m /\ r.a = ad /\ added.status # "OK"
        \/ r.m = added.m /\ r.a = put.a /\ r.status = put.status /\ added.status = "OK"
    BY <1>1, <1>2, <1>3 DEF xair_vex_get_reg, VexReject, VexRet
  <1>6. CASE r.m = added.m /\ r.a = put.a /\ r.status = put.status /\ added.status = "OK"
    <2>1. Usable(added.m, ad.current, added.out) /\ BuildsIn(ad.current, mod, added.m)
      BY <1>4, <1>6 DEF BuiltIn
    <2>2. Remembered(ad, added.out, put)
      BY <1>3, <2>1, UsableIsNat, PutRegRemembers
    <2>3. Remembered(ad, added.out, r)
      BY <1>6, <2>2 DEF Remembered
    <2> QED BY <1>1, <1>6, <2>1, <2>3, RememberedInside
  <1>7. added.status # "OK" => added.m = mod
    BY <1>4 DEF BuiltIn
  <1> QED BY <1>1, <1>5, <1>6, <1>7, SameInside

LEMMA EmitsInside ==
  ASSUME NEW mod, Formed(mod), NEW ad, AdapterShape(ad), NEW tmp \in Nat, NEW fault
  PROVE  /\ \A type, imm : Inside(mod, ad, xair_vex_emit_const(mod, ad, tmp, type, imm, 0, fault))
         /\ \A irop, src : Inside(mod, ad, xair_vex_emit_unop(mod, ad, tmp, irop, src, 0, fault))
         /\ \A irop, lhs, rhs :
              Inside(mod, ad, xair_vex_emit_binop(mod, ad, tmp, irop, lhs, rhs, 0, fault))
         /\ \A type, address, endian :
              Inside(mod, ad, xair_vex_emit_load(mod, ad, tmp, type, address, endian, 0, fault))
  <1>1. \A st : Inside(mod, ad, VexReject(mod, ad, st))
    <2>1. \A st : VexReject(mod, ad, st).m = mod /\ VexReject(mod, ad, st).a = ad
      BY DEF VexReject, VexRet
    <2> QED BY <2>1, SameInside
  <1>2. ASSUME NEW type, NEW imm
        PROVE  Inside(mod, ad, xair_vex_emit_const(mod, ad, tmp, type, imm, 0, fault))
    <2>1. BuiltIn(ad.current, mod, xair_build_const_u64(mod, ad.current, type, imm, 0, fault))
      BY OpsBuilt
    <2> QED BY <2>1, EmittedInside DEF xair_vex_emit_const
  <1>3. ASSUME NEW irop, NEW src
        PROVE  Inside(mod, ad, xair_vex_emit_unop(mod, ad, tmp, irop, src, 0, fault))
    <2>1. PICK map : map = vex_map_unop(irop, TypeOf(mod, src))
      OBVIOUS
    <2>2. PICK built : built = xair_build_unary(mod, ad.current, map.opcode, map.type, src, 0, fault)
      OBVIOUS
    <2>3. BuiltIn(ad.current, mod, built)
      BY <2>2, OpsBuilt
    <2>4. Inside(mod, ad, Emitted(ad, tmp, built, fault))
      BY <2>3, EmittedInside
    <2> QED BY <1>1, <2>1, <2>2, <2>4 DEF xair_vex_emit_unop
  <1>4. ASSUME NEW irop, NEW lhs, NEW rhs
        PROVE  Inside(mod, ad, xair_vex_emit_binop(mod, ad, tmp, irop, lhs, rhs, 0, fault))
    <2>1. PICK map : map = vex_map_binop(irop, TypeOf(mod, lhs))
      OBVIOUS
    <2>2. PICK built : built = xair_build_binary(mod, ad.current, map.opcode, map.type, lhs, rhs,
                                                 0, fault)
      OBVIOUS
    <2>3. BuiltIn(ad.current, mod, built)
      BY <2>2, OpsBuilt
    <2>4. Inside(mod, ad, Emitted(ad, tmp, built, fault))
      BY <2>3, EmittedInside
    <2> QED BY <1>1, <2>1, <2>2, <2>4 DEF xair_vex_emit_binop
  <1>5. ASSUME NEW type, NEW address, NEW endian
        PROVE  Inside(mod, ad, xair_vex_emit_load(mod, ad, tmp, type, address, endian, 0, fault))
    <2>1. PICK built : built = xair_build_load(mod, ad.current, type, ad.memory, address, endian,
                                               0, fault)
      OBVIOUS
    <2>2. BuiltIn(ad.current, mod, built)
      BY <2>1, OpsBuilt
    <2>3. Inside(mod, ad, Emitted(ad, tmp, built, fault))
      BY <2>2, EmittedInside
    <2> QED BY <1>1, <2>1, <2>3 DEF xair_vex_emit_load
  <1> QED BY <1>2, <1>3, <1>4, <1>5

LEMMA EmitStoreInside ==
  ASSUME NEW mod, Formed(mod), NEW ad, AdapterShape(ad), NEW address, NEW data, NEW endian,
         NEW fault
  PROVE  Inside(mod, ad, xair_vex_emit_store(mod, ad, address, data, endian, 0, fault))
  <1>1. PICK r : r = xair_vex_emit_store(mod, ad, address, data, endian, 0, fault)
    OBVIOUS
  <1>2. PICK built : built = xair_build_store(mod, ad.current, ad.memory, address, data, endian,
                                              0, fault)
    OBVIOUS
  <1>3. BuiltIn(ad.current, mod, built)
    <2>1. \A type : BuiltIn(ad.current, mod, xair_build_store(mod, ad.current, ad.memory, address,
                                                              data, endian, 0, fault))
      BY OpsBuilt
    <2> QED BY <1>2, <2>1
  <1>4. \/ r.m = mod /\ r.a = ad
        \/ r.m = built.m /\ r.a = ad /\ built.status # "OK"
        \/ /\ r = VexRet(built.m, [ad EXCEPT !.memory = built.out], "OK", INVALID)
           /\ built.status = "OK"
    BY <1>1, <1>2 DEF xair_vex_emit_store, VexReject, VexRet
  <1>5. built.status # "OK" => built.m = mod
    BY <1>3 DEF BuiltIn
  <1>6. built.status = "OK" => /\ BuildsIn(ad.current, mod, built.m)
                               /\ Usable(built.m, ad.current, built.out)
    BY <1>3 DEF BuiltIn
  <1> QED BY <1>1, <1>4, <1>5, <1>6, SameInside, MemoryInside

-----------------------------------------------------------------------------
(* The exit, which leaves it.                                              *)

Extended(mod, n) ==
  /\ Formed(n)
  /\ Longer(mod.values, n.values) /\ Longer(mod.ops, n.ops) /\ Longer(mod.blocks, n.blocks)

LEMMA SameExtended ==
  ASSUME NEW mod, Formed(mod)
  PROVE  Extended(mod, mod)
  <1>1. Len(mod.values) \in Nat /\ Len(mod.ops) \in Nat /\ Len(mod.blocks) \in Nat
    BY ShapedParts DEF Formed
  <1> QED BY <1>1, LongerSelf DEF Extended

LEMMA ContinuedExtended ==
  ASSUME NEW mod, Formed(mod), NEW k \in Nat, NEW n, Continued(mod, n, k)
  PROVE  Extended(mod, n)
  <1>1. Len(mod.values) \in Nat /\ Len(mod.ops) \in Nat /\ Len(mod.blocks) \in Nat
    BY ShapedParts DEF Formed
  <1> QED BY <1>1, LongerSelf DEF Extended, Continued, Longer

ExitFailed(mod, ad, r) == r.status # "OK" /\ r.a = ad /\ Extended(mod, r.m)

ExitMoved(mod, ad, r) ==
  /\ r.status = "OK" /\ Formed(r.m)
  /\ AdapterShape(r.a) /\ r.a.current = Len(mod.blocks) + 1 /\ valid_block(r.m, r.a.current)
  /\ mod.blocks[ad.current].term.kind = "NONE"
  /\ r.m.blocks[r.a.current].term.kind = "NONE"
  /\ \A v \in Cached(r.a) : Usable(r.m, r.a.current, v)

LEMMA BranchMoves ==
  ASSUME NEW mod, Formed(mod), NEW ad, AdapterShape(ad), valid_block(mod, ad.current),
         NEW n, Continued(mod, n, Len(Slots(ad))),
         NEW branch, TermSet(ad.current, n, branch),
         NEW cont, cont = Len(mod.blocks) + 1,
         NEW r, r = IF branch.status # "OK" THEN VexReject(branch.m, ad, branch.status)
                    ELSE VexRet(branch.m, MovedTo(ad, cont, Len(mod.values)), "OK", INVALID)
  PROVE  ExitFailed(mod, ad, r) \/ ExitMoved(mod, ad, r)
  <1>1. PICK k \in Nat : k = Len(Slots(ad))
    BY SlotsCover DEF SlotsComplete
  <1>2. PICK V, B \in Nat : V \in Nat /\ V = Len(mod.values) /\ B = Len(mod.blocks)
    BY ShapedParts DEF Formed
  <1>3. Extended(mod, n)
    BY <1>1, ContinuedExtended
  <1>4. CASE branch.status # "OK"
    <2>1. r.status # "OK" /\ r.a = ad /\ r.m = branch.m
      BY <1>4 DEF VexReject, VexRet
    <2>2. Extended(mod, branch.m)
      BY <1>3, <1>4 DEF Extended, TermSet
    <2> QED BY <2>1, <2>2 DEF ExitFailed
  <1>5. CASE branch.status = "OK"
    <2>1. PICK b : b = MovedTo(ad, cont, V)
      OBVIOUS
    <2>2. r.status = "OK" /\ r.a = b /\ r.m = branch.m
      BY <1>2, <1>5, <2>1 DEF VexRet
    <2>3. AdapterShape(b) /\ b.current = cont /\ Cached(b) \subseteq (V + 1) .. (V + k)
      BY <1>1, <1>2, <2>1, MovedCaches
    <2>4. /\ Formed(branch.m) /\ branch.m.values = n.values /\ branch.m.ops = n.ops
          /\ n.blocks[ad.current].term.kind = "NONE"
          /\ Len(branch.m.blocks) = Len(n.blocks)
          /\ \A c \in 1 .. Len(n.blocks) : c # ad.current => branch.m.blocks[c] = n.blocks[c]
      BY <1>5 DEF TermSet
    <2>5. /\ Len(n.values) = V + k /\ Len(n.blocks) = cont
          /\ \A v \in (V + 1) .. (V + k) : n.values[v].block = cont
          /\ \A c \in 1 .. B : n.blocks[c] = mod.blocks[c]
          /\ n.blocks[cont].term.kind = "NONE"
      BY <1>1, <1>2 DEF Continued
    <2>6. ad.current \in 1 .. B /\ cont = B + 1 /\ cont # ad.current /\ cont \in 1 .. cont
      BY <1>2 DEF valid_block
    <2>8. mod.blocks[ad.current].term.kind = "NONE"
      BY <2>4, <2>5, <2>6
    <2>9. branch.m.blocks[cont].term.kind = "NONE"
      BY <2>4, <2>5, <2>6
    <2>10. ASSUME NEW v \in Cached(b)
           PROVE  Usable(branch.m, cont, v)
      <3>1. v \in (V + 1) .. (V + k) /\ v \in 1 .. (V + k)
        BY <1>1, <1>2, <2>3
      <3> QED BY <2>4, <2>5, <3>1 DEF Usable, valid_value
    <2>11. valid_block(branch.m, cont)
      BY <2>4, <2>5, <2>6 DEF valid_block
    <2>12. /\ r.status = "OK" /\ Formed(r.m) /\ AdapterShape(r.a)
           /\ r.a.current = Len(mod.blocks) + 1
      BY <1>2, <2>2, <2>3, <2>4
    <2>13. r.a.current = cont
      BY <2>2, <2>3
    <2>14. valid_block(r.m, r.a.current)
      BY <2>2, <2>11, <2>13, Zenon
    <2>15. r.m.blocks[r.a.current].term.kind = "NONE"
      BY <2>2, <2>9, <2>13, Zenon
    <2>16. \A v \in Cached(r.a) : Usable(r.m, r.a.current, v)
      BY <2>2, <2>10, <2>13, Zenon
    <2>17. ExitMoved(mod, ad, r)
      BY <2>8, <2>12, <2>14, <2>15, <2>16, Zenon DEF ExitMoved
    <2> QED BY <2>17
  <1> QED BY <1>4, <1>5

LEMMA NoneTransferred ==
  ASSUME NEW pre, NEW ad, NEW cont, NEW k \in Int, k < 0
  PROVE  vex_transfer_value_to_continuation(pre, ad, cont, k)
           = vex_transfer_value_to_continuation(pre, ad, cont, 0)
  <1>1. 1 .. k = 1 .. 0
    OBVIOUS
  <1> QED BY <1>1 DEF vex_transfer_value_to_continuation

LEMMA ExitOutcome ==
  ASSUME NEW mod, Formed(mod), NEW ad, AdapterShape(ad), valid_block(mod, ad.current),
         NEW condition, NEW taken, NEW W, NEW args \in Seq(W), NEW fault \in ExitFaults(ad),
         NEW r, r = xair_vex_emit_exit(mod, ad, condition, taken, args, fault)
  PROVE  ExitFailed(mod, ad, r) \/ ExitMoved(mod, ad, r)
  <1>1. PICK created : created = xair_block_create(mod, fault.what)
    OBVIOUS
  <1>2. PICK n \in Nat : n = Len(Slots(ad))
    BY SlotsCover DEF SlotsComplete
  <1>3. PICK olds : olds = [i \in 1 .. n |-> InSlot(ad, Slots(ad)[i])]
    BY Zenon
  <1>4. PICK room \in Int : room = MaxId - Len(mod.values)
    <2>1. Len(mod.values) \in Nat
      BY ShapedParts DEF Formed
    <2>2. MaxId \in Nat
      BY MaxIdAssumption
    <2>3. MaxId - Len(mod.values) \in Int
      BY <2>1, <2>2
    <2> QED BY <2>3
  <1> DEFINE passed(k) == vex_transfer_value_to_continuation(created.m, ad, created.out, k)
  <1>5. PICK branch : branch = xair_set_cbranch(passed(n), ad.current, condition, taken, args,
                                                created.out, olds, fault.what)
    OBVIOUS
  <1>6. \/ r = VexReject(mod, ad, "BAD_ARG")
        \/ created.status # "OK" /\ r = VexReject(created.m, ad, created.status)
        \/ /\ created.status = "OK"
           /\ \/ r = VexReject(created.m, ad, "OOM")
              \/ fault.what = "values" /\ r = VexReject(passed(fault.at - 1), ad, "OOM")
              \/ fault.what = "cont_args" /\ r = VexReject(passed(fault.at), ad, "OOM")
              \/ r = VexReject(passed(room), ad, "RANGE")
              \/ r = IF branch.status # "OK" THEN VexReject(branch.m, ad, branch.status)
                     ELSE VexRet(branch.m, MovedTo(ad, created.out, Len(mod.values)), "OK", INVALID)
    BY <1>1, <1>2, <1>3, <1>4, <1>5 DEF xair_vex_emit_exit
  <1> HIDE DEF passed
  <1>7. /\ created.status # "OK" => created.m = mod
        /\ created.status = "OK" => /\ Continued(mod, created.m, 0)
                                    /\ created.out = Len(mod.blocks) + 1
    BY <1>1, BlockCreated
  <1>8. ASSUME NEW x, Extended(mod, x), NEW st, st # "OK"
        PROVE  ExitFailed(mod, ad, VexReject(x, ad, st))
    BY <1>8 DEF ExitFailed, VexReject, VexRet
  <1>9. ExitFailed(mod, ad, VexReject(mod, ad, "BAD_ARG"))
    BY <1>8, SameExtended
  <1>10. CASE created.status # "OK"
    <2>1. ExitFailed(mod, ad, VexReject(created.m, ad, created.status))
      BY <1>7, <1>8, <1>10, SameExtended
    <2> QED BY <1>6, <1>9, <1>10, <2>1
  <1>11. CASE created.status = "OK"
    <2>1. /\ Continued(mod, created.m, 0) /\ created.out = Len(mod.blocks) + 1
      BY <1>7, <1>11
    <2>2. ASSUME NEW k \in Nat
          PROVE  Continued(mod, passed(k), k)
      BY <2>1, Transferred DEF passed
    <2>3. ASSUME NEW k \in Int, NEW st, st # "OK"
          PROVE  ExitFailed(mod, ad, VexReject(passed(k), ad, st))
      <3>1. CASE k < 0
        <4>1. passed(k) = passed(0)
          BY <3>1, NoneTransferred DEF passed
        <4>2. Extended(mod, passed(0))
          BY <2>2, ContinuedExtended
        <4> QED BY <1>8, <2>3, <4>1, <4>2
      <3>2. CASE ~(k < 0)
        <4>1. k \in Nat
          BY <3>2
        <4>2. Extended(mod, passed(k))
          BY <2>2, <4>1, ContinuedExtended
        <4> QED BY <1>8, <2>3, <4>2
      <3> QED BY <3>1, <3>2
    <2>4. ExitFailed(mod, ad, VexReject(created.m, ad, "OOM"))
      <3>1. Extended(mod, created.m)
        BY <2>1, ContinuedExtended
      <3> QED BY <1>8, <3>1
    <2>5. fault.what \in {"values", "cont_args"} => fault.at \in Int /\ fault.at - 1 \in Int
      BY <1>2 DEF ExitFaults
    <2>6. TermSet(ad.current, passed(n), branch)
      <3>1. olds \in Seq({olds[i] : i \in 1 .. n})
        BY <1>3, ListInSeq
      <3>2. PICK X : X = {olds[i] : i \in 1 .. n}
        OBVIOUS
      <3>3. Formed(passed(n))
        BY <2>2 DEF Continued
      <3> QED BY <1>5, <3>1, <3>2, <3>3, SetCbranchTerminates
    <2>7. ASSUME r = IF branch.status # "OK" THEN VexReject(branch.m, ad, branch.status)
                     ELSE VexRet(branch.m, MovedTo(ad, created.out, Len(mod.values)), "OK", INVALID)
          PROVE  ExitFailed(mod, ad, r) \/ ExitMoved(mod, ad, r)
      BY <1>2, <2>1, <2>2, <2>6, <2>7, BranchMoves
    <2> QED BY <1>4, <1>6, <1>9, <1>11, <2>3, <2>4, <2>5, <2>7
  <1> QED BY <1>10, <1>11

-----------------------------------------------------------------------------
(* Where the adapter is, and what a failed call may have changed.          *)

Here(mod, ad, done) ==
  /\ Formed(mod) /\ AdapterShape(ad)
  /\ ad.current = INVALID => mod = EntryModule /\ ~done
  /\ ad.current # INVALID =>
       /\ valid_block(mod, ad.current)
       /\ (mod.blocks[ad.current].term.kind = "NONE") = ~done
       /\ \A v \in Cached(ad) : Usable(mod, ad.current, v)

NothingLost(mod, ad, r) ==
  r.status # "OK" /\ ad.current # INVALID =>
    /\ r.a = ad
    /\ \A b \in 1 .. Len(mod.blocks) :
         \/ r.m.blocks[b] = mod.blocks[b]
         \/ /\ b = ad.current /\ r.m.blocks[b].term = mod.blocks[b].term
            /\ IsPrefix(mod.blocks[b].params, r.m.blocks[b].params)
            /\ IsPrefix(mod.blocks[b].ops, r.m.blocks[b].ops)

LEMMA InsideKeeps ==
  ASSUME NEW mod, NEW ad, NEW done \in BOOLEAN, Here(mod, ad, done), ad.current # INVALID,
         NEW r, Inside(mod, ad, r)
  PROVE  Here(r.m, r.a, done) /\ NothingLost(mod, ad, r)
  <1>1. /\ Formed(mod) /\ valid_block(mod, ad.current)
        /\ (mod.blocks[ad.current].term.kind = "NONE") = ~done
        /\ \A v \in Cached(ad) : Usable(mod, ad.current, v)
    BY DEF Here
  <1>2. /\ Formed(r.m) /\ Longer(mod.values, r.m.values) /\ Longer(mod.ops, r.m.ops)
        /\ Len(r.m.blocks) = Len(mod.blocks)
        /\ \A b \in 1 .. Len(mod.blocks) :
             \/ r.m.blocks[b] = mod.blocks[b]
             \/ b = ad.current /\ BlockGrown(mod.blocks[b], r.m.blocks[b])
    BY DEF Inside, BuildsIn
  <1>3. /\ AdapterShape(r.a) /\ r.a.current = ad.current
        /\ \A v \in Cached(r.a) : v \in Cached(ad) \/ Usable(r.m, ad.current, v)
        /\ r.status # "OK" => r.a = ad
    BY DEF Inside
  <1>4. valid_block(r.m, ad.current)
    BY <1>1, <1>2 DEF valid_block
  <1>5. r.m.blocks[ad.current].term = mod.blocks[ad.current].term
    BY <1>1, <1>2 DEF valid_block, BlockGrown
  <1>6. \A v \in Cached(r.a) : Usable(r.m, ad.current, v)
    BY <1>1, <1>2, <1>3, UsableStays
  <1>7. Here(r.m, r.a, done)
    <2>1. /\ valid_block(r.m, r.a.current)
          /\ (r.m.blocks[r.a.current].term.kind = "NONE") = ~done
          /\ \A v \in Cached(r.a) : Usable(r.m, r.a.current, v)
      BY <1>1, <1>3, <1>4, <1>5, <1>6
    <2>2. r.a.current # INVALID
      BY <1>3
    <2> QED BY <1>2, <1>3, <2>1, <2>2 DEF Here
  <1>8. NothingLost(mod, ad, r)
    BY <1>2, <1>3 DEF NothingLost, BlockGrown
  <1> QED BY <1>7, <1>8

LEMMA ExitKeeps ==
  ASSUME NEW mod, NEW ad, NEW done \in BOOLEAN, Here(mod, ad, done), ad.current # INVALID,
         NEW r, ExitFailed(mod, ad, r) \/ ExitMoved(mod, ad, r)
  PROVE  Here(r.m, r.a, done) /\ NothingLost(mod, ad, r)
  <1>1. /\ Formed(mod) /\ AdapterShape(ad) /\ valid_block(mod, ad.current)
        /\ (mod.blocks[ad.current].term.kind = "NONE") = ~done
        /\ \A v \in Cached(ad) : Usable(mod, ad.current, v)
    BY DEF Here
  <1>2. Len(mod.blocks) \in Nat
    BY <1>1, ShapedParts DEF Formed
  <1>3. CASE ExitFailed(mod, ad, r)
    <2>1. /\ r.a = ad /\ Formed(r.m) /\ Longer(mod.values, r.m.values) /\ Longer(mod.ops, r.m.ops)
          /\ Len(mod.blocks) <= Len(r.m.blocks)
          /\ \A b \in 1 .. Len(mod.blocks) : r.m.blocks[b] = mod.blocks[b]
      BY <1>3 DEF ExitFailed, Extended, Longer
    <2>2. Len(r.m.blocks) \in Nat
      BY <2>1, ShapedParts DEF Formed
    <2>3. valid_block(r.m, ad.current) /\ r.m.blocks[ad.current] = mod.blocks[ad.current]
      BY <1>1, <1>2, <2>1, <2>2 DEF valid_block
    <2>4. \A v \in Cached(ad) : Usable(r.m, ad.current, v)
      BY <1>1, <2>1, UsableStays
    <2>5. Here(r.m, ad, done)
      BY <1>1, <2>1, <2>3, <2>4 DEF Here
    <2> QED BY <2>1, <2>5 DEF NothingLost
  <1>4. CASE ExitMoved(mod, ad, r)
    <2>1. /\ r.status = "OK" /\ Formed(r.m) /\ AdapterShape(r.a) /\ valid_block(r.m, r.a.current)
          /\ r.a.current = Len(mod.blocks) + 1
          /\ mod.blocks[ad.current].term.kind = "NONE"
          /\ r.m.blocks[r.a.current].term.kind = "NONE"
          /\ \A v \in Cached(r.a) : Usable(r.m, r.a.current, v)
      BY <1>4 DEF ExitMoved
    <2>2. ~done
      BY <1>1, <2>1
    <2>3. r.a.current # INVALID
      BY <1>2, <2>1 DEF INVALID
    <2> QED BY <2>1, <2>2, <2>3 DEF Here, NothingLost
  <1> QED BY <1>3, <1>4

LEMMA FinishKeeps ==
  ASSUME NEW mod, NEW ad, NEW done \in BOOLEAN, Here(mod, ad, done), ad.current # INVALID,
         NEW r, TermSet(ad.current, mod, r), r.a = ad
  PROVE  Here(r.m, r.a, done \/ r.status = "OK") /\ NothingLost(mod, ad, r)
  <1>1. /\ Formed(mod) /\ AdapterShape(ad) /\ valid_block(mod, ad.current)
        /\ (mod.blocks[ad.current].term.kind = "NONE") = ~done
        /\ \A v \in Cached(ad) : Usable(mod, ad.current, v)
    BY DEF Here
  <1>2. Formed(r.m) /\ r.m.values = mod.values /\ r.m.ops = mod.ops
    BY DEF TermSet
  <1>3. \A v \in Cached(ad) : Usable(r.m, ad.current, v)
    <2>1. Len(mod.values) \in Nat /\ Len(mod.ops) \in Nat
      BY <1>1, ShapedParts DEF Formed
    <2> QED BY <1>1, <1>2, <2>1, LongerSelf, UsableStays
  <1>4. CASE r.status # "OK"
    <2>1. r.m.blocks = mod.blocks
      BY <1>4 DEF TermSet
    <2>2. Here(r.m, ad, done)
      BY <1>1, <1>2, <1>3, <2>1 DEF Here, valid_block
    <2> QED BY <1>4, <2>1, <2>2 DEF NothingLost
  <1>5. CASE r.status = "OK"
    <2>1. /\ Len(r.m.blocks) = Len(mod.blocks)
          /\ r.m.blocks[ad.current].term.kind # "NONE"
      BY <1>5 DEF TermSet
    <2>2. valid_block(r.m, ad.current)
      BY <1>1, <2>1 DEF valid_block
    <2>3. Here(r.m, ad, TRUE)
      BY <1>1, <1>2, <1>3, <2>1, <2>2 DEF Here
    <2> QED BY <1>5, <2>3 DEF NothingLost
  <1> QED BY <1>4, <1>5

-----------------------------------------------------------------------------
(* The start.                                                              *)

EntryBlocks ==
  /\ Formed(EntryModule) /\ Len(EntryModule.blocks) \in {1, 2}
  /\ EntryModule.blocks[1].term.kind = "NONE"
  /\ Len(EntryModule.values) \in {0, 1}
  /\ Len(EntryModule.values) = 1 => EntryModule.values[1].block = 1

LEMMA EntryFacts == EntryBlocks
  <1>1. PICK none : none = xair_module_create
    OBVIOUS
  <1>2. /\ Formed(none) /\ none.values = <<>> /\ none.ops = <<>> /\ none.blocks = <<>>
        /\ none.frozen = FALSE /\ Len(none.blocks) = 0 /\ Len(none.values) = 0
    <2>1. Shaped(none, {})
      BY <1>1 DEF Shaped, xair_module_create
    <2> QED BY <1>1, <2>1 DEF Formed, xair_module_create
  <1>3. PICK one : one = xair_block_create(none, "none")
    OBVIOUS
  <1>4. one.status = "OK" /\ Continued(none, one.m, 0)
    <2>1. one.status = "OK"
      <3>1. ~(0 >= MaxId)
        BY MaxIdAssumption
      <3> QED BY <1>2, <1>3, <3>1 DEF xair_block_create, Ret
    <2> QED BY <1>2, <1>3, <2>1, BlockCreated
  <1>5. /\ Formed(one.m) /\ Len(one.m.blocks) = 1 /\ Len(one.m.values) = 0
        /\ one.m.blocks[1].term.kind = "NONE"
    BY <1>2, <1>4 DEF Continued
  <1>6. PICK two : two = xair_block_create(one.m, "none")
    OBVIOUS
  <1>7. /\ Formed(two.m) /\ Len(two.m.blocks) \in {1, 2} /\ Len(two.m.values) = 0
        /\ two.m.blocks[1].term.kind = "NONE"
    <2>1. two.m = one.m \/ Continued(one.m, two.m, 0)
      BY <1>5, <1>6, BlockCreated
    <2> QED BY <1>5, <2>1 DEF Continued
  <1>8. PICK memory : memory = xair_block_add_param(two.m, 1, mem32, MemName, "none")
    OBVIOUS
  <1>9. BuildsIn(1, two.m, memory.m)
    BY <1>7, <1>8, AddParamBuilt DEF BuiltIn
  <1>10. /\ Formed(memory.m) /\ Len(memory.m.blocks) \in {1, 2}
         /\ memory.m.blocks[1].term.kind = "NONE"
    BY <1>7, <1>9 DEF BuildsIn, BlockGrown
  <1>11. /\ Len(memory.m.values) \in {0, 1}
         /\ Len(memory.m.values) = 1 => memory.m.values[1].block = 1
    <2>1. PICK added : added = add_value(two.m, 1, mem32, MemName, "none")
      OBVIOUS
    <2>2. PICK value : value = NewValue(two.m, 1, mem32, MemName)
      OBVIOUS
    <2>3. \/ added.m = two.m /\ added.status # "OK"
          \/ added.m = WithValue(two.m, value) /\ added.status = "OK"
      BY <2>1, <2>2, AddedValue
    <2>4. PICK U : Shaped(two.m, U)
      BY <1>7 DEF Formed
    <2>5. two.m.values = <<>>
      BY <1>7, <2>4, ShapedParts
    <2>6. PICK w : w = WithValue(two.m, value)
      OBVIOUS
    <2>7. /\ w.values = Append(two.m.values, value) /\ value.block = 1
          /\ w = [w EXCEPT !.values = w.values]
      BY <2>2, <2>4, <2>6 DEF WithValue, NewValue, Shaped
    <2>8. PICK n : n = [added.m EXCEPT !.blocks[1].params = Append(@, added.out)]
      OBVIOUS
    <2>9. \/ memory.m = two.m
          \/ memory.m = added.m
          \/ memory.m = n
      BY <2>1, <2>8, <1>8 DEF xair_block_add_param, Ret, Reject
    <2>10. n.values = added.m.values
      <3>1. /\ two.m = [values |-> two.m.values, ops |-> two.m.ops, blocks |-> two.m.blocks,
                        term_args |-> two.m.term_args, vn |-> two.m.vn, frozen |-> two.m.frozen]
        BY <2>4, ShapedParts
      <3>2. "values" \in DOMAIN added.m
        BY <2>3, <3>1 DEF WithValue
      <3> QED BY <2>8, <3>2
    <2>11. memory.m.values = <<>> \/ memory.m.values = <<value>>
      <3>1. w.values = <<value>>
        BY <2>5, <2>7
      <3> QED BY <2>3, <2>5, <2>6, <2>9, <2>10, <3>1
    <2>12. PICK s : s = memory.m.values
      OBVIOUS
    <2>13. CASE s = <<>>
      <3>1. Len(s) = 0
        BY <2>13
      <3> QED BY <2>12, <3>1
    <2>14. CASE s = <<value>>
      <3>1. Len(s) = 1 /\ s[1] = value
        BY <2>14
      <3> QED BY <2>7, <2>12, <3>1
    <2> QED BY <2>11, <2>12, <2>13, <2>14
  <1>12. PICK r : r = xair_set_trap(memory.m, 2, 0)
    OBVIOUS
  <1>13. TermSet(2, memory.m, r)
    <2>1. PICK term : term = [NoTerm EXCEPT !.kind = "TRAP", !.code = 0]
      OBVIOUS
    <2>2. term.kind # "NONE"
      BY <2>1 DEF NoTerm
    <2>3. r = Reject(memory.m, "BAD_ARG") \/ r = set_term(memory.m, 2, term)
      BY <1>12, <2>1 DEF xair_set_trap
    <2>4. PoolOnly(memory.m, memory.m)
      BY <1>10, SamePool
    <2>5. TermSet(2, memory.m, Reject(memory.m, "BAD_ARG"))
      BY <2>4, RefusedTerm
    <2>6. TermSet(2, memory.m, set_term(memory.m, 2, term))
      BY <1>10, <2>2, <2>4, TermInstalled
    <2> QED BY <2>3, <2>5, <2>6
  <1>14. EntryModule = r.m
    BY <1>1, <1>3, <1>6, <1>8, <1>12 DEF EntryModule
  <1>15. /\ Formed(r.m) /\ Len(r.m.blocks) = Len(memory.m.blocks)
         /\ r.m.blocks[1] = memory.m.blocks[1] /\ r.m.values = memory.m.values
    BY <1>10, <1>13 DEF TermSet
  <1> QED BY <1>10, <1>11, <1>14, <1>15 DEF EntryBlocks

LEMMA FreshAdapter ==
  ASSUME NEW entry, NEW memory
  PROVE  /\ AdapterShape(NewAdapter(entry, memory))
         /\ NewAdapter(entry, memory).current = entry
         /\ Cached(NewAdapter(entry, memory)) \subseteq IF memory = INVALID THEN {} ELSE {memory}
  <1>1. PICK ad : ad = NewAdapter(entry, memory)
    OBVIOUS
  <1>2. /\ ad = [current |-> ad.current, memory |-> ad.memory, tmps |-> ad.tmps, regs |-> ad.regs,
                 sparse_regs |-> ad.sparse_regs]
        /\ ad.current = entry /\ ad.memory = memory /\ DOMAIN ad.tmps = {} /\ DOMAIN ad.regs = {}
        /\ ad.sparse_regs = <<>>
    BY <1>1 DEF NewAdapter
  <1>3. AdapterShape(ad)
    BY <1>2, FS_EmptySet DEF AdapterShape, Entries
  <1>4. Cached(ad) \subseteq IF memory = INVALID THEN {} ELSE {memory}
    BY <1>2 DEF Cached
  <1> QED BY <1>1, <1>2, <1>3, <1>4

LEMMA NotYetHere == Here(EntryModule, NewAdapter(INVALID, INVALID), FALSE)
  <1>1. /\ AdapterShape(NewAdapter(INVALID, INVALID))
        /\ NewAdapter(INVALID, INVALID).current = INVALID
    BY FreshAdapter
  <1> QED BY <1>1, EntryFacts DEF Here, EntryBlocks

LEMMA CreateKeeps ==
  ASSUME NEW entry \in {1, 3}, NEW memory \in {INVALID, 1, 2},
         NEW r, r = xair_vex_adapter_create(EntryModule, entry, memory)
  PROVE  Here(r.m, r.a, FALSE)
  <1>0. PICK b : b = NewAdapter(entry, memory)
    OBVIOUS
  <1>1. \/ r.m = EntryModule /\ r.a = NewAdapter(INVALID, INVALID)
        \/ /\ r.m = EntryModule /\ r.a = b
           /\ valid_block(EntryModule, entry)
           /\ memory # INVALID => valid_value(EntryModule, memory)
    BY <1>0 DEF xair_vex_adapter_create, VexReject, VexRet
  <1>2. ASSUME valid_block(EntryModule, entry),
               memory # INVALID => valid_value(EntryModule, memory)
        PROVE  Here(EntryModule, b, FALSE)
    <2>1. entry = 1
      <3>1. PICK n : n = Len(EntryModule.blocks)
        OBVIOUS
      <3>2. entry \in 1 .. n /\ n \in {1, 2}
        BY <1>2, <3>1, EntryFacts DEF EntryBlocks, valid_block
      <3> QED BY <3>2
    <2>2. memory # INVALID => memory = 1 /\ EntryModule.values[1].block = 1
      <3>1. PICK n : n = Len(EntryModule.values)
        OBVIOUS
      <3>2. /\ memory # INVALID => memory \in 1 .. n
            /\ n \in {0, 1} /\ (n = 1 => EntryModule.values[1].block = 1)
        BY <1>2, <3>1, EntryFacts DEF EntryBlocks, valid_value
      <3>3. memory # INVALID => memory = 1 /\ n = 1
        BY <3>2
      <3> QED BY <3>2, <3>3
    <2>3. AdapterShape(b) /\ b.current = 1
      BY <1>0, <2>1, FreshAdapter
    <2>4. \A v \in Cached(b) : Usable(EntryModule, 1, v)
      <3>1. Cached(b) \subseteq IF memory = INVALID THEN {} ELSE {memory}
        BY <1>0, FreshAdapter
      <3> QED BY <1>2, <2>2, <3>1 DEF Usable
    <2>5. 1 # INVALID
      BY DEF INVALID
    <2> QED BY <1>2, <2>1, <2>3, <2>4, <2>5, EntryFacts DEF Here, EntryBlocks
  <1> QED BY <1>1, <1>2, NotYetHere

-----------------------------------------------------------------------------
(* Every step.                                                             *)

Inv == session \in Sessions /\ finished \in BOOLEAN /\ Here(m, a, finished)

(* What a step leaves, as a call returns it.                               *)
Returned == [m |-> m', a |-> a', status |-> status']

LeavesHere(done) == Here(m', a', done) /\ NothingLost(m, a, Returned)

StaysInside == \E r : Returns(r) /\ Inside(m, a, r) /\ finished' = finished

LEMMA SessionFacts ==
  ASSUME session \in Sessions
  PROVE  Tmps \subseteq Nat /\ Regs \subseteq Nat
  <1>1. session.tmps \cup session.regs \cup session.imms \cup session.targets \subseteq Nat
    BY SessionAssumption
  <1> QED BY <1>1 DEF Tmps, Regs

LEMMA CallsStayInside ==
  ASSUME Inv
  PROVE  /\ GetReg => StaysInside
         /\ SetTmp => StaysInside
         /\ PutReg => StaysInside
         /\ SetMemory => StaysInside
         /\ EmitConst => StaysInside
         /\ EmitUnop => StaysInside
         /\ EmitBinop => StaysInside
         /\ EmitLoad => StaysInside
         /\ EmitStore => StaysInside
  <1>1. /\ Formed(m) /\ AdapterShape(a) /\ Tmps \subseteq Nat /\ Regs \subseteq Nat
    BY SessionFacts DEF Inv, Here
  <1>2. Open => \A v \in Cached(a) : Usable(m, a.current, v)
    BY DEF Inv, Here, Open
  <1>3. ASSUME GetReg
        PROVE  StaysInside
    <2>1. PICK r \in Regs, type \in session.regTypes, fault \in {"none", "values", "sparse"} \cap Faulty :
            Returns(xair_vex_get_reg(m, a, r, type, RegName(r), fault)) /\ finished' = finished
      BY <1>3 DEF GetReg
    <2>2. Inside(m, a, xair_vex_get_reg(m, a, r, type, RegName(r), fault))
      BY <1>1, GetRegInside
    <2> QED BY <2>1, <2>2 DEF StaysInside
  <1>4. ASSUME SetTmp
        PROVE  StaysInside
    <2>1. PICK t, o, fault, v :
            /\ t \in Tmps /\ v \in xair_vex_peek_reg(a, o)
            /\ Returns(xair_vex_set_tmp(m, a, t, v, fault)) /\ finished' = finished
      BY <1>4 DEF SetTmp
    <2>2. v \in Cached(a) /\ t \in Nat
      BY <1>1, <2>1, PeekedCached
    <2>3. Inside(m, a, xair_vex_set_tmp(m, a, t, v, fault))
      BY <1>1, <2>2, SetTmpInside
    <2> QED BY <2>1, <2>3 DEF StaysInside
  <1>5. ASSUME PutReg
        PROVE  StaysInside
    <2>1. PICK t, o, fault, v :
            /\ o \in Regs /\ v \in xair_vex_get_tmp(a, t)
            /\ Returns(xair_vex_put_reg(m, a, o, v, fault)) /\ finished' = finished
      BY <1>5 DEF PutReg
    <2>3. v \in Cached(a)
      BY <2>1 DEF xair_vex_get_tmp, Cached
    <2>4. v \in Nat /\ o \in Nat
      BY <1>1, <1>2, <1>5, <2>1, <2>3, UsableIsNat DEF PutReg, Going
    <2>5. Inside(m, a, xair_vex_put_reg(m, a, o, v, fault))
      BY <1>1, <2>3, <2>4, PutRegInside
    <2> QED BY <2>1, <2>5 DEF StaysInside
  <1>6. ASSUME SetMemory
        PROVE  StaysInside
    <2>1. PICK v \in 1 .. Len(m.values) :
            /\ m.values[v].block = a.current
            /\ Returns(xair_vex_set_memory(m, a, v)) /\ finished' = finished
      BY <1>6 DEF SetMemory
    <2>2. Usable(m, a.current, v)
      BY <2>1 DEF Usable, valid_value
    <2>3. Inside(m, a, xair_vex_set_memory(m, a, v))
      BY <1>1, <2>2, SetMemoryInside
    <2> QED BY <2>1, <2>3 DEF StaysInside
  <1>7. ASSUME EmitConst
        PROVE  StaysInside
    <2>1. PICK t \in Tmps, type \in session.constTypes, imm \in session.imms, fault \in OpFaults :
            Returns(xair_vex_emit_const(m, a, t, type, imm, 0, fault)) /\ finished' = finished
      BY <1>7 DEF EmitConst
    <2>2. Inside(m, a, xair_vex_emit_const(m, a, t, type, imm, 0, fault))
      BY <1>1, EmitsInside
    <2> QED BY <2>1, <2>2 DEF StaysInside
  <1>8. ASSUME EmitUnop
        PROVE  StaysInside
    <2>1. PICK t \in Tmps, irop \in session.unops, s \in Known, fault \in OpFaults :
            Returns(xair_vex_emit_unop(m, a, t, irop, a.tmps[s], 0, fault)) /\ finished' = finished
      BY <1>8 DEF EmitUnop
    <2>2. Inside(m, a, xair_vex_emit_unop(m, a, t, irop, a.tmps[s], 0, fault))
      BY <1>1, EmitsInside
    <2> QED BY <2>1, <2>2 DEF StaysInside
  <1>9. ASSUME EmitBinop
         PROVE  StaysInside
    <2>1. PICK t \in Tmps, irop \in session.binops, x \in Known, y \in Known, fault \in OpFaults :
            /\ Returns(xair_vex_emit_binop(m, a, t, irop, a.tmps[x], a.tmps[y], 0, fault))
            /\ finished' = finished
      BY <1>9 DEF EmitBinop
    <2>2. Inside(m, a, xair_vex_emit_binop(m, a, t, irop, a.tmps[x], a.tmps[y], 0, fault))
      BY <1>1, EmitsInside
    <2> QED BY <2>1, <2>2 DEF StaysInside
  <1>10. ASSUME EmitLoad
         PROVE  StaysInside
    <2>1. PICK t \in Tmps, s \in Known, fault \in OpFaults :
            /\ Returns(xair_vex_emit_load(m, a, t, i8, a.tmps[s], "LE", 0, fault))
            /\ finished' = finished
      BY <1>10 DEF EmitLoad
    <2>2. Inside(m, a, xair_vex_emit_load(m, a, t, i8, a.tmps[s], "LE", 0, fault))
      BY <1>1, EmitsInside
    <2> QED BY <2>1, <2>2 DEF StaysInside
  <1>11. ASSUME EmitStore
         PROVE  StaysInside
    <2>1. PICK s \in Known, d \in Known, fault \in OpFaults \ {"tmps"} :
            /\ Returns(xair_vex_emit_store(m, a, a.tmps[s], a.tmps[d], "LE", 0, fault))
            /\ finished' = finished
      BY <1>11 DEF EmitStore
    <2>2. Inside(m, a, xair_vex_emit_store(m, a, a.tmps[s], a.tmps[d], "LE", 0, fault))
      BY <1>1, EmitStoreInside
    <2> QED BY <2>1, <2>2 DEF StaysInside
  <1> QED BY <1>3, <1>4, <1>5, <1>6, <1>7, <1>8, <1>9, <1>10, <1>11

LEMMA ArgsListed ==
  ASSUME NEW args \in ArgLists
  PROVE  args \in Seq({a.tmps[t] : t \in Known})
  <1>1. PICK W : W = {a.tmps[t] : t \in Known}
    OBVIOUS
  <1>2. <<>> \in Seq(W)
    OBVIOUS
  <1>3. ASSUME NEW x \in W
        PROVE  <<x>> \in Seq(W)
    OBVIOUS
  <1>4. args = <<>> \/ \E x \in W : args = <<x>>
    BY <1>1 DEF ArgLists
  <1> QED BY <1>1, <1>2, <1>3, <1>4

LEMMA ReturnedIs ==
  ASSUME NEW r, Returns(r), NEW done, Here(r.m, r.a, done), NothingLost(m, a, r)
  PROVE  LeavesHere(done)
  BY DEF Returns, LeavesHere, Returned, NothingLost

LEMMA InsideStepKeeps ==
  ASSUME Inv, a.current # INVALID, StaysInside
  PROVE  LeavesHere(finished')
  <1>1. PICK r : Returns(r) /\ Inside(m, a, r) /\ finished' = finished
    BY DEF StaysInside
  <1>2. Here(r.m, r.a, finished) /\ NothingLost(m, a, r)
    BY <1>1, InsideKeeps DEF Inv
  <1> QED BY <1>1, <1>2, ReturnedIs

LEMMA ExitStepKeeps ==
  ASSUME Inv, EmitExit
  PROVE  LeavesHere(finished')
  <1>1. PICK c \in Known, target \in session.targets, args \in ArgLists, fault \in ExitFaults(a) :
          /\ Returns(xair_vex_emit_exit(m, a, a.tmps[c], target, args, fault))
          /\ finished' = finished /\ a.current # INVALID
    BY DEF EmitExit, Open
  <1>2. PICK r : r = xair_vex_emit_exit(m, a, a.tmps[c], target, args, fault)
    OBVIOUS
  <1>3. PICK W : W = {a.tmps[t] : t \in Known}
    OBVIOUS
  <1>4. args \in Seq(W)
    BY <1>3, ArgsListed
  <1>5. Formed(m) /\ AdapterShape(a) /\ valid_block(m, a.current)
    BY <1>1 DEF Inv, Here
  <1>6. ExitFailed(m, a, r) \/ ExitMoved(m, a, r)
    BY <1>2, <1>4, <1>5, ExitOutcome
  <1>7. Here(r.m, r.a, finished) /\ NothingLost(m, a, r)
    BY <1>1, <1>6, ExitKeeps DEF Inv
  <1> QED BY <1>1, <1>2, <1>7, ReturnedIs

LEMMA FinishStepKeeps ==
  ASSUME Inv, Finish
  PROVE  LeavesHere(finished')
  <1>1. PICK args, fault, r :
          /\ args \in ArgLists
          /\ \/ \E target \in session.targets : r = xair_vex_finish_jump(m, a, target, args, fault)
             \/ r = xair_vex_finish_return(m, a, args, fault)
          /\ Returns(r)
    BY DEF Finish
  <1>2. finished' = (finished \/ r.status = "OK") /\ a.current # INVALID
    BY <1>1 DEF Finish, Returns, Open
  <1>3. PICK W : W = {a.tmps[t] : t \in Known}
    OBVIOUS
  <1>4. args \in Seq(W)
    BY <1>1, <1>3, ArgsListed
  <1>5. PICK set, target : /\ r = VexRet(set.m, a, set.status, INVALID)
                           /\ \/ set = xair_set_jump(m, a.current, target, args, fault)
                              \/ set = xair_set_return(m, a.current, args, fault)
    BY <1>1 DEF xair_vex_finish_jump, xair_vex_finish_return
  <1>6. TermSet(a.current, m, set)
    BY <1>4, <1>5, SetJumpTerminates DEF Inv, Here
  <1>7. r.a = a /\ TermSet(a.current, m, r)
    BY <1>5, <1>6 DEF VexRet, TermSet
  <1>8. Here(r.m, r.a, finished \/ r.status = "OK") /\ NothingLost(m, a, r)
    BY <1>2, <1>7, FinishKeeps DEF Inv
  <1> QED BY <1>1, <1>2, <1>8, ReturnedIs

LEMMA CreateStepKeeps ==
  ASSUME Inv, AdapterCreate
  PROVE  LeavesHere(finished')
  <1>1. m = EntryModule /\ finished = FALSE /\ finished' = finished /\ a.current = INVALID
    BY DEF AdapterCreate, Inv, Here
  <1>2. PICK entry \in {1, 3}, memory \in {INVALID, 1, 2} :
          Returns(xair_vex_adapter_create(m, entry, memory))
    BY DEF AdapterCreate
  <1>3. PICK r : r = xair_vex_adapter_create(m, entry, memory)
    OBVIOUS
  <1>4. Here(r.m, r.a, FALSE)
    BY <1>1, <1>3, CreateKeeps
  <1>5. NothingLost(m, a, r)
    BY <1>1 DEF NothingLost
  <1> QED BY <1>1, <1>2, <1>3, <1>4, <1>5, ReturnedIs

LEMMA StepKeeps ==
  ASSUME Inv, Next
  PROVE  Inv' /\ NothingLost(m, a, Returned)
  <1>1. session' = session /\ Statement
    BY DEF Next
  <1>2. Open => a.current # INVALID
    BY DEF Open
  <1>3. finished' \in BOOLEAN /\ LeavesHere(finished')
    <2>1. CASE AdapterCreate
      BY <2>1, CreateStepKeeps DEF AdapterCreate, Inv
    <2>2. CASE SetMemory
      BY <1>2, <2>2, CallsStayInside, InsideStepKeeps DEF SetMemory, Going, Inv
    <2>3. CASE GetReg
      BY <1>2, <2>3, CallsStayInside, InsideStepKeeps DEF GetReg, Inv
    <2>4. CASE SetTmp
      BY <1>2, <2>4, CallsStayInside, InsideStepKeeps DEF SetTmp, Going, Inv
    <2>5. CASE PutReg
      BY <1>2, <2>5, CallsStayInside, InsideStepKeeps DEF PutReg, Going, Inv
    <2>6. CASE EmitConst
      BY <1>2, <2>6, CallsStayInside, InsideStepKeeps DEF EmitConst, Inv
    <2>7. CASE EmitUnop
      BY <1>2, <2>7, CallsStayInside, InsideStepKeeps DEF EmitUnop, Inv
    <2>8. CASE EmitBinop
      BY <1>2, <2>8, CallsStayInside, InsideStepKeeps DEF EmitBinop, Inv
    <2>9. CASE EmitLoad
      BY <1>2, <2>9, CallsStayInside, InsideStepKeeps DEF EmitLoad, Inv
    <2>10. CASE EmitStore
      BY <1>2, <2>10, CallsStayInside, InsideStepKeeps DEF EmitStore, Inv
    <2>11. CASE EmitExit
      BY <2>11, ExitStepKeeps DEF EmitExit, Inv
    <2>12. CASE Finish
      <3>1. finished' \in BOOLEAN
        BY <2>12 DEF Finish, Inv
      <3> QED BY <2>12, <3>1, FinishStepKeeps
    <2> QED BY <1>1, <2>1, <2>2, <2>3, <2>4, <2>5, <2>6, <2>7, <2>8, <2>9, <2>10, <2>11, <2>12
            DEF Statement
  <1> QED BY <1>1, <1>3 DEF Inv, LeavesHere

LEMMA InitHere ==
  ASSUME Init
  PROVE  Inv
  BY NotYetHere DEF Init, Inv

(* All that the adapter remembers is usable where it is, at every moment.  *)
THEOREM InvAlways == Spec => []Inv
  <1>1. Init => Inv
    BY InitHere
  <1>2. Inv /\ [Next]_vars => Inv'
    <2>1. ASSUME Inv, UNCHANGED vars
          PROVE  Inv'
      BY <2>1 DEF Inv, vars
    <2> QED BY <2>1, StepKeeps
  <1> QED BY <1>1, <1>2, PTL DEF Spec

(* The block the adapter builds in is open until the translation ends, and *)
(* every value it may hand out belongs to that block or is a constant:     *)
(* after every call of the client, whichever of its allocations fail and   *)
(* wherever xair_vex_emit_exit gives up.                                   *)
THEOREM CachedHereAlways == Spec => []CachedHere
  <1>1. Inv => CachedHere
    BY DEF Inv, Here, CachedHere, Usable
  <1> QED BY <1>1, InvAlways, PTL

(* A call of the adapter that fails leaves what it remembers, and of the   *)
(* module every other block; at most the current block has grown.          *)
THEOREM FailureKeepsStateAlways == Spec => FailureKeepsState
  <1>1. Inv /\ [Next]_vars =>
          [status' # "OK" /\ a.current # INVALID =>
             /\ a' = a
             /\ \A b \in 1 .. Len(m.blocks) :
                  \/ m'.blocks[b] = m.blocks[b]
                  \/ /\ b = a.current /\ m'.blocks[b].term = m.blocks[b].term
                     /\ IsPrefix(m.blocks[b].params, m'.blocks[b].params)
                     /\ IsPrefix(m.blocks[b].ops, m'.blocks[b].ops)]_vars
    BY StepKeeps DEF NothingLost, Returned
  <1> QED BY <1>1, InvAlways, PTL DEF Spec, FailureKeepsState
=============================================================================
