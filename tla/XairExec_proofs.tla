-------------------------- MODULE XairExec_proofs --------------------------
(***************************************************************************)
(* The verifier is enough for the executor: on every module it accepts, of *)
(* any size, with any parameters, entry blocks, step limits and any number *)
(* of runs on one state, the executor uses no value left over from another *)
(* visit of a block (entry parameters that the client did not set again    *)
(* aside), and its own run-time checks never fire.                         *)
(* The second part lets the client change the module between the runs      *)
(* (XairLive): the executor stays within its arrays whatever the client    *)
(* does, and keeps all guarantees while the client only builds.            *)
(* The third part is about canonicalization (XairPipeline): what it makes  *)
(* of a verified module is verified again.                                 *)
(***************************************************************************)
EXTENDS XairLive, XairPipeline, FiniteSetTheorems, WellFoundedInduction, TLAPS

-----------------------------------------------------------------------------
(* Induction.                                                              *)

(* The order of the naturals is well-founded.                              *)
LEMMA LeastElement ==
  ASSUME NEW S, S \subseteq Nat, S # {}
  PROVE  \E n \in S : \A k \in S : n <= k
  <1>1. PICK n \in S : \A k \in S : ~(<<k, n>> \in OpToRel(<, Nat))
    BY NatLessThanWellFounded, WFMin, Zenon
  <1>2. ASSUME NEW k \in S, k < n
        PROVE  <<k, n>> \in OpToRel(<, Nat)
    <2>1. <<k, n>>[1] < <<k, n>>[2]
      BY <1>2
    <2>2. <<k, n>> \in Nat \X Nat
      OBVIOUS
    <2> QED BY <2>1, <2>2, Zenon DEF OpToRel
  <1>3. \A k \in S : ~(k < n)
    BY <1>1, <1>2, Zenon
  <1> QED BY <1>3

(* Induction for a set of naturals.                                        *)
LEMMA InductionOnSet ==
  ASSUME NEW S, 0 \in S, \A n \in Nat : n \in S => n + 1 \in S
  PROVE  \A n \in Nat : n \in S
  <1>1. SUFFICES ASSUME Nat \ S # {}
                 PROVE  FALSE
    OBVIOUS
  <1>2. PICK n \in Nat \ S : \A k \in Nat \ S : n <= k
    BY <1>1, LeastElement
  <1>3. n - 1 \in Nat /\ n - 1 \in S
    BY <1>2
  <1> QED BY <1>2, <1>3

-----------------------------------------------------------------------------
(* Sequences.                                                              *)

LEMMA ElementAt ==
  ASSUME NEW S, NEW s \in Seq(S), NEW i \in 1 .. Len(s)
  PROVE  s[i] \in S /\ i \in Nat
  OBVIOUS

LEMMA LengthIsNatural ==
  ASSUME NEW S, NEW s \in Seq(S)
  PROVE  Len(s) \in Nat
  OBVIOUS

LEMMA OneMore ==
  ASSUME NEW k \in Nat, NEW i \in 1 .. k
  PROVE  i \in 1 .. (k + 1)
  OBVIOUS

-----------------------------------------------------------------------------
(* The inductive invariant.                                                *)

(* The first top blocks of the module were verified and lead only to each  *)
(* other.  They are all of it, except when the client goes on building.    *)
LeadsInto(b, top) ==
  LET term == m.blocks[b].term
  IN  /\ term.kind \in {"JUMP", "CBRANCH"} => term.true_target \in 1 .. top
      /\ term.kind = "CBRANCH" => term.false_target \in 1 .. top

Checked(top) ==
  /\ top \in Nat /\ Len(m.blocks) \in Nat /\ top <= Len(m.blocks)
  /\ \A b \in 1 .. top : m.blocks[b] \in BlockRecs /\ VerifyBlock(m, b) /\ LeadsInto(b, top)

ModuleChecked(top) == created => Checked(top)

Slots ==
  /\ DOMAIN val = defined
  /\ defined \subseteq 1 .. Len(m.values)
  /\ StoredTypesAgree

Position(top) ==
  running => /\ created
             /\ current \in 1 .. top
             /\ ~entering => idx \in 1 .. (Len(m.blocks[current].ops) + 1)

(* Every parameter of the current block that is marked as defined was      *)
(* defined for this visit, or the client kept it, and every result before  *)
(* idx was defined for this visit.                                         *)
Visit ==
  running => /\ ElemsOf(m.blocks[current].params) \cap defined \subseteq fresh \cup carried
             /\ ready => ElemsOf(m.blocks[current].params) \subseteq defined
             /\ ~entering => \A j \in 1 .. (idx - 1) :
                               m.ops[m.blocks[current].ops[j]].dst \in fresh

Inv(top) ==
  /\ ModuleChecked(top)
  /\ Slots
  /\ Position(top)
  /\ Visit
  /\ fresh \subseteq defined
  /\ NeverStale
  /\ VerifiedNeverFails

-----------------------------------------------------------------------------
(* Shapes.                                                                 *)

LEMMA BlockShape ==
  ASSUME NEW b, m.blocks[b] \in BlockRecs
  PROVE  /\ m.blocks[b].params \in Seq(Nat) /\ m.blocks[b].ops \in Seq(Nat)
         /\ Len(m.blocks[b].params) \in Nat /\ Len(m.blocks[b].ops) \in Nat
         /\ m.blocks[b].term \in TermRecs
  BY DEF BlockRecs

-----------------------------------------------------------------------------
(* What verification says about the place the executor is at.              *)

LEMMA InCheckedBlock ==
  ASSUME NEW top, Inv(top), InBlock
  PROVE  /\ current \in 1 .. top /\ current \in 1 .. Len(m.blocks)
         /\ m.blocks[current] \in BlockRecs /\ VerifyBlock(m, current) /\ LeadsInto(current, top)
         /\ Len(m.blocks[current].ops) \in Nat
         /\ idx \in 1 .. (Len(m.blocks[current].ops) + 1)
  <1>1. /\ Checked(top) /\ current \in 1 .. top
        /\ idx \in 1 .. (Len(m.blocks[current].ops) + 1)
    BY DEF Inv, ModuleChecked, Position, InBlock
  <1>2. current \in 1 .. Len(m.blocks)
    BY <1>1 DEF Checked
  <1>3. m.blocks[current] \in BlockRecs /\ VerifyBlock(m, current) /\ LeadsInto(current, top)
    BY <1>1, Zenon DEF Checked
  <1> QED BY <1>1, <1>2, <1>3, BlockShape

LEMMA VerifiedOp ==
  ASSUME NEW top, Inv(top), AtOp
  PROVE  /\ Here.ops[idx] \in 1 .. Len(m.ops)
         /\ Op.dst \in 1 .. Len(m.values)
         /\ \A i \in 1 .. Len(Op.src) : value_is_available(m, Available(m, current, idx), Op.src[i])
         /\ verify_op(m, Op)
  <1>1. /\ VerifyBlock(m, current) /\ Len(m.blocks[current].ops) \in Nat
        /\ idx \in 1 .. (Len(m.blocks[current].ops) + 1)
    BY InCheckedBlock DEF AtOp
  <1>2. idx \in 1 .. Len(m.blocks[current].ops)
    BY <1>1 DEF AtOp, Here
  <1>3. /\ VerifyDestination(m, current, m.blocks[current].ops[idx])
        /\ VerifySources(m, current, idx)
        /\ verify_op(m, m.ops[m.blocks[current].ops[idx]])
    BY <1>1, <1>2 DEF VerifyBlock
  <1> QED
    BY <1>3, Zenon DEF VerifyDestination, VerifySources, valid_op, valid_value, Op, Here, ElemsOf

LEMMA VerifiedTerm ==
  ASSUME NEW top, Inv(top), InBlock, idx > Len(Here.ops)
  PROVE  /\ idx = Len(m.blocks[current].ops) + 1
         /\ verify_term(m, current) /\ LeadsInto(current, top)
  BY InCheckedBlock DEF VerifyBlock, Here

(* A value that is available where the executor stands can be read unless  *)
(* an entry parameter was not set, and is never a left-over.               *)
LEMMA AvailableIsFresh ==
  ASSUME NEW top, Inv(top), InBlock, NEW v, value_is_available(m, Available(m, current, idx), v)
  PROVE  /\ Readable(v) => ~Leftover(v)
         /\ ready => Readable(v)
  <1>1. CASE value_is_global_const(m, v)
    BY <1>1, Zenon DEF Readable, Leftover, value_is_available
  <1>2. CASE ~value_is_global_const(m, v)
    <2>1. v \in Available(m, current, idx) /\ valid_value(m, v)
      BY <1>2 DEF value_is_available
    <2>2. CASE v \in ElemsOf(m.blocks[current].params)
      BY <1>2, <2>1, <2>2 DEF Inv, Visit, InBlock, Readable, Leftover
    <2>3. CASE \E j \in 1 .. (idx - 1) : v = m.ops[m.blocks[current].ops[j]].dst
      <3>1. v \in fresh
        BY <2>3, Zenon DEF Inv, Visit, InBlock
      <3>2. v \in defined
        BY <3>1 DEF Inv
      <3> QED BY <2>1, <3>1, <3>2, Zenon DEF Readable, Leftover
    <2> QED BY <2>1, <2>2, <2>3, Zenon DEF Available
  <1> QED BY <1>1, <1>2

LEMMA ReadType ==
  ASSUME NEW top, Inv(top), NEW v, Readable(v)
  PROVE  exec_read_value(v).type = TypeOf(m, v)
  BY DEF Inv, Slots, StoredTypesAgree, Readable, exec_read_value, exec_value_make

-----------------------------------------------------------------------------
(* The ways a step may change the state.                                   *)

Kept == m' = m /\ created' = created /\ ready' = ready /\ ~stale'

(* xair_exec_run returns.                                                  *)
LEMMA StopKeepsInv ==
  ASSUME NEW top, Inv(top), Kept, NoValue, running' = FALSE,
         why' \notin {"type", "not_memory", "target", "no_terminator"},
         why' = "undefined" => ~ready
  PROVE  Inv(top)'
  BY DEF Inv, Kept, NoValue, ModuleChecked, Checked, LeadsInto, Slots, StoredTypesAgree, TypeOf, Position, Visit,
         NeverStale, VerifiedNeverFails

(* An operation defines its result.                                        *)
LEMMA ProduceKeepsInv ==
  ASSUME NEW top, Inv(top), Kept, AtOp, NEW x, Produce(x)
  PROVE  Inv(top)'
  <1>1. /\ Op.dst \in 1 .. Len(m.values)
        /\ Op = m.ops[m.blocks[current].ops[idx]]
    BY VerifiedOp DEF Op, Here
  <1>2. ModuleChecked(top)'
    BY Zenon DEF Inv, Kept, ModuleChecked, Checked, LeadsInto
  <1>3. Slots'
    BY <1>1, Zenon DEF Inv, Kept, Slots, StoredTypesAgree, TypeOf, Produce, Define, exec_value_make
  <1>4. /\ running /\ ~entering /\ current \in 1 .. top
        /\ idx \in 1 .. (Len(m.blocks[current].ops) + 1) /\ idx <= Len(m.blocks[current].ops)
        /\ running' = running /\ entering' = entering /\ current' = current /\ idx' = idx + 1
    BY DEF Inv, ModuleChecked, Position, AtOp, InBlock, Here, Produce
  <1>5. Len(m.blocks[current].ops) \in Nat
    BY InCheckedBlock DEF AtOp
  <1>6. Position(top)'
    BY <1>4, <1>5 DEF Inv, Kept, Position
  <1>7. Visit'
    <2>1. /\ ElemsOf(m.blocks[current].params) \cap defined \subseteq fresh \cup carried
          /\ ready => ElemsOf(m.blocks[current].params) \subseteq defined
          /\ \A j \in 1 .. (idx - 1) : m.ops[m.blocks[current].ops[j]].dst \in fresh
      BY <1>4, Zenon DEF Inv, Visit
    <2>2. \A j \in 1 .. (idx' - 1) : j \in 1 .. (idx - 1) \/ j = idx
      BY <1>4
    <2>3. \A j \in 1 .. (idx' - 1) : m.ops[m.blocks[current].ops[j]].dst \in fresh'
      BY <1>1, <2>1, <2>2, Zenon DEF Produce
    <2> QED BY <1>4, <2>1, <2>3 DEF Kept, Visit, Produce
  <1>8. fresh' \subseteq defined'
    BY DEF Inv, Produce
  <1>9. NeverStale' /\ VerifiedNeverFails'
    BY DEF Inv, Kept, Produce, NeverStale, VerifiedNeverFails
  <1> QED BY <1>2, <1>3, <1>6, <1>7, <1>8, <1>9, Zenon DEF Inv

(* Control passes to a block with arguments that were verified.            *)
LEMMA TransferKeepsInv ==
  ASSUME NEW top, Inv(top), Kept, InBlock, NEW target \in 1 .. top, NEW args, NEW oom,
         verify_target_args(m, Available(m, current, idx), target, args),
         exec_transfer_args(target, args, oom)
  PROVE  Inv(top)'
  <1> DEFINE params == m.blocks[target].params
  <1>1. target \in 1 .. Len(m.blocks) /\ Len(params) = Len(args)
    BY DEF verify_target_args, valid_block
  <1>2. /\ running /\ created /\ Checked(top) /\ VerifyBlock(m, target)
        /\ Len(params) \in Nat
    <2>1. running /\ created /\ Checked(top)
      BY DEF InBlock, Inv, Position, ModuleChecked
    <2>2. m.blocks[target] \in BlockRecs /\ VerifyBlock(m, target)
      BY <2>1 DEF Checked
    <2> QED BY <2>1, <2>2, BlockShape
  <1>3. \A i \in 1 .. Len(params) :
          /\ value_is_available(m, Available(m, current, idx), args[i])
          /\ TypeOf(m, args[i]) = TypeOf(m, params[i])
    BY <1>1 DEF verify_target_args
  <1>4. ready => ReadableAll(args)
    BY <1>1, <1>3, AvailableIsFresh DEF ReadableAll
  <1>5. ReadableAll(args) => \A i \in 1 .. Len(params) :
                               exec_read_value(args[i]).type = TypeOf(m, params[i])
    BY <1>1, <1>3, ReadType DEF ReadableAll
  <1>6. /\ TransferCause(target, args, oom) \in {"ok", "oom", "undefined"}
        /\ TransferCause(target, args, oom) = "undefined" => ~ready
        /\ TransferCause(target, args, oom) = "ok" => ReadableAll(args)
    BY <1>1, <1>4, <1>5 DEF TransferCause, valid_block
  <1>7. CASE TransferCause(target, args, oom) # "ok"
    <2>1. NoValue /\ Abort(TransferCause(target, args, oom))
      BY <1>6, <1>7 DEF exec_transfer_args
    <2> QED BY <1>6, <1>7, <2>1, StopKeepsInv DEF Abort
  <1>8. CASE TransferCause(target, args, oom) = "ok"
    <2>1. /\ val' = ParamValues(params, args)
          /\ defined' = defined \cup ElemsOf(params)
          /\ fresh' = ElemsOf(params) /\ carried' = {}
          /\ current' = target /\ entering' = TRUE /\ idx' = 0
          /\ running' = running /\ why' = why
      BY <1>8 DEF exec_transfer_args
    <2>2. running /\ created
      BY <1>2
    <2>3. ElemsOf(params) \subseteq 1 .. Len(m.values)
      <3>1. VerifyParams(m, target)
        BY <1>2 DEF VerifyBlock
      <3> QED BY <3>1 DEF VerifyParams, valid_value
    <2>4. \A v \in ElemsOf(params) :
            /\ (CHOOSE i \in 1 .. Len(params) : params[i] = v) \in 1 .. Len(params)
            /\ params[CHOOSE i \in 1 .. Len(params) : params[i] = v] = v
      BY DEF ElemsOf
    <2>5. \A v \in ElemsOf(params) : ParamValues(params, args)[v].type = TypeOf(m, v)
      BY <1>5, <1>6, <1>8, <2>4 DEF ParamValues
    <2>6. \A v \in DOMAIN val \ ElemsOf(params) : ParamValues(params, args)[v] = val[v]
      BY DEF ParamValues
    <2>7. DOMAIN ParamValues(params, args) = DOMAIN val \cup ElemsOf(params)
      BY DEF ParamValues
    <2>8. Slots'
      BY <2>1, <2>3, <2>5, <2>6, <2>7 DEF Inv, Kept, Slots, StoredTypesAgree, TypeOf
    <2>9. ModuleChecked(top)' /\ Position(top)'
      BY <1>1, <2>1, <2>2 DEF Inv, Kept, ModuleChecked, Checked, LeadsInto, Position
    <2>10. Visit' /\ fresh' \subseteq defined'
      BY <2>1 DEF Inv, Kept, Visit
    <2>11. NeverStale' /\ VerifiedNeverFails'
      BY <2>1 DEF Inv, Kept, NeverStale, VerifiedNeverFails
    <2> QED BY <2>8, <2>9, <2>10, <2>11 DEF Inv
  <1> QED BY <1>7, <1>8

-----------------------------------------------------------------------------
(* Operations.                                                             *)

LEMMA SourcesAreFresh ==
  ASSUME NEW top, Inv(top), AtOp
  PROVE  ~TouchesLeftover /\ (ready => SourcesReadable)
  <1>1. InBlock
    BY DEF AtOp
  <1> QED
    BY <1>1, VerifiedOp, AvailableIsFresh DEF TouchesLeftover, SourcesReadable

LEMMA GiveUpKeepsInv ==
  ASSUME NEW top, Inv(top), Kept, NEW cause, GiveUp(cause),
         cause \notin {"type", "not_memory", "target", "no_terminator"},
         cause = "undefined" => ~ready
  PROVE  Inv(top)'
  <1>1. NoValue /\ running' = FALSE /\ (why' = "ok" \/ why' = cause)
    BY DEF GiveUp, Halt, Abort
  <1> QED BY <1>1, StopKeepsInv

(* verify_memory_op makes the executor's own checks of an access redundant.*)
LEMMA AccessIsMemory ==
  ASSUME NEW top, Inv(top), AtOp, Op.opcode \in {"LOAD", "STORE"}
  PROVE  /\ AccessCause \notin {"type", "not_memory", "target", "no_terminator"}
         /\ AccessCause = "undefined" => ~ready
  <1>1. verify_op(m, Op)
    BY VerifiedOp
  <1>2. /\ Op.opcode # "CONST_U64" /\ Op.opcode \notin UnaryOps
        /\ Op.opcode \notin BinaryOps
    BY DEF UnaryOps, FlagReads, BinaryOps, ArithOps, ShiftOps, UnsignedCompares, SignedCompares,
           AddrOps, FlagPairs
  <1>3. Len(Op.src) \in {2, 3} /\ verify_memory_op(m, Op)
    BY <1>1, <1>2 DEF verify_op
  <1>4. is_mem(TypeOf(m, Op.src[1])) /\ is_addr(TypeOf(m, Op.src[2]))
    BY <1>3 DEF verify_memory_op
  <1>5. SourcesReadable => /\ Src(1).type = TypeOf(m, Op.src[1])
                           /\ Src(2).type = TypeOf(m, Op.src[2])
    BY <1>3, ReadType DEF SourcesReadable, Src
  <1>6. ready => SourcesReadable
    BY SourcesAreFresh
  <1> QED BY <1>4, <1>5, <1>6 DEF AccessCause

LEMMA ExecConstKeepsInv == ASSUME NEW top, Inv(top), ExecConst PROVE Inv(top)'
  BY ProduceKeepsInv DEF ExecConst, Kept, Inv, NeverStale

LEMMA ExecScalarKeepsInv == ASSUME NEW top, Inv(top), ExecScalar PROVE Inv(top)'
  <1>1. AtOp /\ Kept
    BY SourcesAreFresh DEF ExecScalar, Kept, Inv, NeverStale
  <1>2. CASE ~SourcesReadable
    BY <1>1, <1>2, SourcesAreFresh, GiveUpKeepsInv DEF ExecScalar
  <1>3. CASE SourcesReadable /\ ValueOf = {}
    BY <1>1, <1>3, GiveUpKeepsInv DEF ExecScalar
  <1>4. CASE SourcesReadable /\ ValueOf # {}
    BY <1>1, <1>4, ProduceKeepsInv DEF ExecScalar
  <1> QED BY <1>2, <1>3, <1>4

LEMMA ExecLoadKeepsInv == ASSUME NEW top, Inv(top), ExecLoad PROVE Inv(top)'
  <1>1. AtOp /\ Kept /\ Op.opcode = "LOAD"
    BY SourcesAreFresh DEF ExecLoad, Kept, Inv, NeverStale
  <1>2. CASE AccessCause # "ok"
    BY <1>1, <1>2, AccessIsMemory, GiveUpKeepsInv DEF ExecLoad
  <1>3. CASE AccessCause = "ok" /\ ~(Addresses(Space, Address, Size) \subseteq DOMAIN mem)
    BY <1>1, <1>3, GiveUpKeepsInv DEF ExecLoad
  <1>4. CASE AccessCause = "ok" /\ Addresses(Space, Address, Size) \subseteq DOMAIN mem
    BY <1>1, <1>4, ProduceKeepsInv DEF ExecLoad
  <1> QED BY <1>2, <1>3, <1>4

LEMMA ExecStoreKeepsInv == ASSUME NEW top, Inv(top), ExecStore \/ ExecStoreFails PROVE Inv(top)'
  <1>1. AtOp /\ Kept /\ Op.opcode = "STORE"
    BY SourcesAreFresh DEF ExecStore, ExecStoreFails, Kept, Inv, NeverStale
  <1>2. CASE ExecStore /\ AccessCause # "ok"
    BY <1>1, <1>2, AccessIsMemory, GiveUpKeepsInv DEF ExecStore
  <1>3. CASE ExecStore /\ AccessCause = "ok"
    BY <1>1, <1>3, ProduceKeepsInv DEF ExecStore
  <1>4. CASE ExecStoreFails
    BY <1>1, <1>4, GiveUpKeepsInv DEF ExecStoreFails
  <1> QED BY <1>2, <1>3, <1>4

-----------------------------------------------------------------------------
(* Terminators.                                                            *)

(* The arguments of a verified terminator are available, hence fresh.      *)
LEMMA ArgsAreFresh ==
  ASSUME NEW top, Inv(top), InBlock, NEW args,
         \A i \in 1 .. Len(args) : value_is_available(m, Available(m, current, idx), args[i])
  PROVE  ~LeftoverIn(args) /\ (ready => ReadableAll(args))
  BY AvailableIsFresh DEF LeftoverIn, ReadableAll

LEMMA ExecJumpKeepsInv == ASSUME NEW top, Inv(top), ExecJump PROVE Inv(top)'
  <1>1. InBlock /\ idx > Len(Here.ops) /\ Here.term.kind = "JUMP"
    BY DEF ExecJump, AtTerm
  <1>2. verify_target_args(m, Available(m, current, idx), Here.term.true_target,
                           TrueArgs(m, current))
    BY <1>1, VerifiedTerm DEF verify_term, Here
  <1>3. Here.term.true_target \in 1 .. top
    BY <1>1, VerifiedTerm DEF LeadsInto, Here
  <1>4. ~LeftoverIn(TrueArgs(m, current))
    BY <1>1, <1>2, ArgsAreFresh DEF verify_target_args
  <1>5. Kept
    BY <1>4 DEF ExecJump, Kept, Inv, NeverStale
  <1> QED BY <1>1, <1>2, <1>3, <1>5, TransferKeepsInv DEF ExecJump

LEMMA ExecCbranchKeepsInv == ASSUME NEW top, Inv(top), ExecCbranch PROVE Inv(top)'
  <1>1. InBlock /\ idx > Len(Here.ops) /\ Here.term.kind = "CBRANCH"
    BY DEF ExecCbranch, AtTerm
  <1>2. /\ value_is_available(m, Available(m, current, idx), Here.term.condition)
        /\ is_i1(TypeOf(m, Here.term.condition))
        /\ verify_target_args(m, Available(m, current, idx), TakenTarget, TakenArgs)
        /\ TakenTarget \in 1 .. top
    BY <1>1, VerifiedTerm DEF verify_term, LeadsInto, Here, TakenTarget, TakenArgs
  <1>3. /\ Readable(Here.term.condition) => ~Leftover(Here.term.condition)
        /\ ready => Readable(Here.term.condition)
    BY <1>1, <1>2, AvailableIsFresh
  <1>4. CASE ~Readable(Here.term.condition)
    <2>1. Kept /\ NoValue /\ Abort("undefined")
      BY <1>4 DEF ExecCbranch, Kept, Inv, NeverStale
    <2> QED BY <1>3, <1>4, <2>1, StopKeepsInv DEF Abort
  <1>5. CASE Readable(Here.term.condition)
    <2>1. is_i1(Condition.type)
      BY <1>2, <1>5, ReadType DEF Condition
    <2>2. ~LeftoverIn(TakenArgs)
      BY <1>1, <1>2, ArgsAreFresh DEF verify_target_args
    <2>3. Kept /\ \E oom \in BOOLEAN : exec_transfer_args(TakenTarget, TakenArgs, oom)
      BY <1>3, <1>5, <2>1, <2>2 DEF ExecCbranch, Kept, Inv, NeverStale
    <2> QED BY <1>1, <1>2, <2>3, TransferKeepsInv
  <1> QED BY <1>4, <1>5

LEMMA ExecReturnKeepsInv == ASSUME NEW top, Inv(top), ExecReturn PROVE Inv(top)'
  <1> DEFINE args == TrueArgs(m, current)
  <1>1. InBlock /\ idx > Len(Here.ops) /\ Here.term.kind = "RETURN"
    BY DEF ExecReturn, AtTerm
  <1>2. \A i \in 1 .. Len(args) : value_is_available(m, Available(m, current, idx), args[i])
    BY <1>1, VerifiedTerm DEF verify_term, Here, ElemsOf
  <1>3. ~LeftoverIn(args) /\ (ready => ReadableAll(args))
    BY <1>1, <1>2, ArgsAreFresh
  <1>4. /\ Kept /\ NoValue /\ running' = FALSE
        /\ why' \in {"too_many", "undefined", "ok"}
        /\ why' = "undefined" => ~ready
    BY <1>3 DEF ExecReturn, Kept, Inv, NeverStale
  <1> QED BY <1>4, StopKeepsInv

LEMMA ExecStopKeepsInv == ASSUME NEW top, Inv(top), ExecStop PROVE Inv(top)'
  <1>1. Here.term.kind # "NONE"
    <2>1. verify_term(m, current)
      BY VerifiedTerm DEF ExecStop
    <2> QED BY <2>1 DEF verify_term, Here
  <1>2. Kept /\ NoValue /\ running' = FALSE /\ why' = "ok"
    BY <1>1 DEF ExecStop, Halt, Kept, Inv, NeverStale
  <1> QED BY <1>2, StopKeepsInv

-----------------------------------------------------------------------------
(* The interface and the top of the block loop.                            *)

LEMMA EnterBlockKeepsInv == ASSUME NEW top, Inv(top), EnterBlock PROVE Inv(top)'
  <1>1. Kept /\ NoValue
    BY DEF EnterBlock, Kept, NoValue, Inv, NeverStale
  <1>2. CASE steps >= limit
    BY <1>1, <1>2, StopKeepsInv DEF EnterBlock, Halt
  <1>3. CASE ~(steps >= limit)
    <2>1. /\ idx' = 1 /\ entering' = FALSE
          /\ running' = running /\ current' = current /\ why' = why
      BY <1>3 DEF EnterBlock
    <2>2. running => Len(m.blocks[current].ops) \in Nat
      BY BlockShape DEF Inv, ModuleChecked, Checked, Position
    <2>3. Position(top)' /\ Visit'
      BY <1>1, <2>1, <2>2 DEF Inv, Kept, NoValue, Position, Visit
    <2> QED
      BY <1>1, <2>1, <2>3 DEF Inv, Kept, NoValue, ModuleChecked, Checked, LeadsInto, Slots, StoredTypesAgree, TypeOf,
                              NeverStale, VerifiedNeverFails
  <1> QED BY <1>2, <1>3

(* What xair_verify_module accepts is checked throughout.                  *)
LEMMA VerifiedIsChecked ==
  ASSUME m \in Modules, xair_verify_module(m)
  PROVE  Checked(Len(m.blocks))
  <1>1. m.blocks \in Seq(BlockRecs) /\ Len(m.blocks) \in Nat
    <2>1. m.blocks \in Seq(BlockRecs)
      BY DEF Modules
    <2> QED BY <2>1
  <1>2. ASSUME NEW b \in 1 .. Len(m.blocks)
        PROVE  m.blocks[b] \in BlockRecs /\ VerifyBlock(m, b) /\ LeadsInto(b, Len(m.blocks))
    <2>1. m.blocks[b] \in BlockRecs /\ VerifyBlock(m, b)
      BY <1>1 DEF xair_verify_module
    <2>2. verify_term(m, b)
      BY <2>1 DEF VerifyBlock
    <2> QED BY <2>1, <2>2, Zenon DEF verify_term, verify_target_args, valid_block, LeadsInto
  <1> QED BY <1>1, <1>2 DEF Checked

LEMMA StateCreateKeepsInv ==
  ASSUME NEW top, Inv(top), StateCreate, m \in Modules, top = Len(m.blocks)
  PROVE  Inv(top)'
  <1>1. /\ m' = m /\ val' = val /\ defined' = defined /\ running' = running
        /\ fresh' = fresh /\ carried' = carried /\ stale' = stale /\ ready' = ready /\ ~created
        /\ why' \in {"oom", "verify", "ok"} /\ (created' => xair_verify_module(m))
    BY DEF StateCreate, control
  <1>2. ModuleChecked(top)'
    BY <1>1, VerifiedIsChecked DEF ModuleChecked, Checked, LeadsInto
  <1>3. ~running
    BY <1>1 DEF Inv, Position
  <1> QED BY <1>1, <1>2, <1>3 DEF Inv, Slots, StoredTypesAgree, TypeOf, Position, Visit, NeverStale,
                                  VerifiedNeverFails

LEMMA SetParamKeepsInv == ASSUME NEW top, Inv(top), SetParam PROVE Inv(top)'
  <1>1. PICK v \in 1 .. Len(m.values), x \in Inputs :
          IF m.values[v].op = INVALID /\ TypeOf(m, v) = x.type
          THEN val' = Define(v, x) /\ defined' = defined \cup {v} /\ why' = "ok"
          ELSE why' = "bad_call" /\ UNCHANGED <<val, defined>>
    BY Zenon DEF SetParam
  <1>2. Slots'
    BY <1>1, Zenon DEF SetParam, Inv, Slots, StoredTypesAgree, TypeOf, Define
  <1>3. /\ m' = m /\ created' = created /\ running' = running /\ ~running
        /\ fresh' = fresh /\ stale' = stale /\ defined \subseteq defined'
        /\ why' \in {"ok", "bad_call"}
    BY <1>1 DEF SetParam, control
  <1> QED
    BY <1>2, <1>3 DEF Inv, ModuleChecked, Checked, LeadsInto, Position, Visit, NeverStale, VerifiedNeverFails

LEMMA StoreBytesKeepsInv == ASSUME NEW top, Inv(top), xair_exec_store_bytes PROVE Inv(top)'
  <1>1. why' \in {"ok", "bad_call", "oom"}
    BY DEF xair_exec_store_bytes
  <1> QED
    BY <1>1 DEF xair_exec_store_bytes, control, Inv, ModuleChecked, Checked, LeadsInto, Slots, StoredTypesAgree,
                TypeOf, Position, Visit, NeverStale, VerifiedNeverFails

LEMMA RunKeepsInv ==
  ASSUME NEW top, Inv(top), Run, running' => current' \in 1 .. top
  PROVE  Inv(top)'
  <1>1. PICK entry \in Entries, n \in Limits :
          IF valid_block(m, entry)
          THEN /\ running' = TRUE /\ entering' = TRUE
               /\ current' = entry /\ idx' = 0 /\ steps' = 0 /\ limit' = n
               /\ fresh' = ElemsOf(m.blocks[entry].params) \cap defined \cap assigned
               /\ carried' = (ElemsOf(m.blocks[entry].params) \cap defined) \ assigned
               /\ ready' = (ElemsOf(m.blocks[entry].params) \subseteq defined)
               /\ why' = "ok"
          ELSE /\ why' = "bad_call"
               /\ UNCHANGED <<running, entering, current, idx, steps, limit,
                              fresh, carried, ready>>
    BY DEF Run
  <1>2. /\ m' = m /\ created' = created /\ val' = val /\ defined' = defined /\ stale' = stale
        /\ created /\ ~running
    BY DEF Run
  <1>3. ModuleChecked(top)' /\ Slots' /\ NeverStale'
    BY <1>2 DEF Inv, ModuleChecked, Checked, LeadsInto, Slots, StoredTypesAgree, TypeOf, NeverStale
  <1>4. CASE valid_block(m, entry)
    <2>1. Position(top)'
      BY <1>1, <1>2, <1>4 DEF Position
    <2>2. Visit' /\ fresh' \subseteq defined'
      BY <1>1, <1>2, <1>4 DEF Visit
    <2>3. VerifiedNeverFails'
      BY <1>1, <1>4 DEF VerifiedNeverFails
    <2> QED BY <1>3, <2>1, <2>2, <2>3 DEF Inv
  <1>5. CASE ~valid_block(m, entry)
    BY <1>1, <1>2, <1>3, <1>5 DEF Inv, Position, Visit, VerifiedNeverFails
  <1> QED BY <1>4, <1>5

-----------------------------------------------------------------------------
LEMMA StepKeepsInv == ASSUME NEW top, Inv(top), Step PROVE Inv(top)'
  <1>1. CASE EnterBlock
    BY <1>1, EnterBlockKeepsInv
  <1>2. CASE ExecConst \/ ExecScalar \/ ExecLoad \/ ExecStore \/ ExecStoreFails
    BY <1>2, ExecConstKeepsInv, ExecScalarKeepsInv, ExecLoadKeepsInv, ExecStoreKeepsInv
  <1>3. CASE ExecJump \/ ExecCbranch \/ ExecReturn \/ ExecStop
    BY <1>3, ExecJumpKeepsInv, ExecCbranchKeepsInv, ExecReturnKeepsInv, ExecStopKeepsInv
  <1> QED BY <1>1, <1>2, <1>3 DEF Step

LEMMA StutterKeepsInv == ASSUME NEW top, Inv(top), UNCHANGED vars PROVE Inv(top)'
  BY DEF vars, control, Inv, ModuleChecked, Checked, LeadsInto, Slots, StoredTypesAgree, TypeOf,
         Position, Visit, NeverStale, VerifiedNeverFails

(* The whole of a module that does not change.                             *)
ExecInv == m \in Programs /\ Inv(Len(m.blocks))

LEMMA InitExec == Init => ExecInv
  BY DEF Init, ExecInv, Inv, ModuleChecked, Slots, StoredTypesAgree, Position, Visit, NeverStale,
         VerifiedNeverFails

LEMMA ExecInvHolds == Spec => []ExecInv
  <1>1. ExecInv /\ [Next]_vars => ExecInv'
    <2> SUFFICES ASSUME ExecInv, [Next]_vars PROVE ExecInv'
      OBVIOUS
    <2>1. m \in Modules /\ m' = m
      BY ExecAssumption DEF ExecInv, Next, Step, vars, StateCreate, SetParam, Run, EnterBlock,
         xair_exec_store_bytes, ExecConst, ExecScalar, ExecLoad, ExecStore, ExecStoreFails,
         ExecJump, ExecCbranch, ExecReturn, ExecStop
    <2>2. PICK top : top = Len(m.blocks)
      OBVIOUS
    <2>3. Inv(top)
      BY <2>2 DEF ExecInv
    <2>4. Inv(top)'
      <3>1. CASE StateCreate
        BY <2>1, <2>2, <2>3, <3>1, StateCreateKeepsInv
      <3>2. CASE Run
        <4>1. running' => current' \in 1 .. top
          BY <2>2, <2>3, <3>2 DEF Run, valid_block
        <4> QED BY <2>3, <3>2, <4>1, RunKeepsInv
      <3> QED
        BY <2>3, <3>1, <3>2, SetParamKeepsInv, StoreBytesKeepsInv, StepKeepsInv, StutterKeepsInv
           DEF Next
    <2>5. Inv(Len(m.blocks))'
      BY <2>1, <2>2, <2>4 DEF Inv, ModuleChecked, Checked, LeadsInto, Position
    <2> QED BY <2>1, <2>5 DEF ExecInv
  <1> QED BY <1>1, InitExec, PTL DEF Spec

(* On a module that xair_verify_module accepts, every value xair_exec_run  *)
(* reads was written for the current visit of the block; in the first      *)
(* visit of a run it may also be an entry parameter that the client did    *)
(* not set for this run, which keeps what it held (carried).               *)
THEOREM NeverStaleAlways == Spec => []NeverStale
  <1>1. ExecInv => NeverStale
    BY DEF ExecInv, Inv
  <1> QED BY <1>1, ExecInvHolds, PTL

(* The executor's checks of types, targets, argument counts, terminators   *)
(* and memory operands never fail on a verified module, and a read of an   *)
(* undefined value means that an entry parameter was not set.              *)
THEOREM VerifiedNeverFailsAlways == Spec => []VerifiedNeverFails
  <1>1. ExecInv => VerifiedNeverFails
    BY DEF ExecInv, Inv
  <1> QED BY <1>1, ExecInvHolds, PTL

(* Every slot of state->values that is marked defined holds a value of the *)
(* type its identifier was declared with.                                  *)
THEOREM StoredTypesAgreeAlways == Spec => []StoredTypesAgree
  <1>1. ExecInv => StoredTypesAgree
    BY DEF ExecInv, Inv, Slots
  <1> QED BY <1>1, ExecInvHolds, PTL

-----------------------------------------------------------------------------
(* Passing arguments.                                                      *)

(* A parameter is listed once, so it gets the argument of its own place.   *)
LEMMA ParamGetsItsArgument ==
  ASSUME ExecInv, NEW target \in 1 .. Len(m.blocks), NEW args,
         NEW i \in 1 .. Len(m.blocks[target].params)
  PROVE  ParamValues(m.blocks[target].params, args)[m.blocks[target].params[i]]
           = exec_read_value(args[i])
  <1>1. PICK params \in Seq(Nat) : params = m.blocks[target].params
    <2>1. m.blocks \in Seq(BlockRecs)
      BY ExecAssumption DEF ExecInv, Modules
    <2>2. m.blocks[target] \in BlockRecs
      BY <2>1, ElementAt, Zenon
    <2> QED BY <2>2, BlockShape
  <1>2. \A j, k \in 1 .. Len(params) : j < k => params[j] < params[k]
    BY <1>1, BuiltAssumption, Zenon DEF ExecInv, OwnsLists
  <1>3. i \in 1 .. Len(params) /\ \A j \in 1 .. Len(params) : params[j] \in Nat
    BY <1>1, ElementAt, Zenon
  <1>4. \A j \in 1 .. Len(params) : params[j] = params[i] => j = i
    BY <1>2, <1>3
  <1>5. (CHOOSE j \in 1 .. Len(params) : params[j] = params[i]) = i
    BY <1>3, <1>4
  <1>6. params[i] \in ElemsOf(params)
    BY <1>3 DEF ElemsOf
  <1>7. ParamValues(params, args)[params[i]] = exec_read_value(args[i])
    BY <1>5, <1>6 DEF ParamValues
  <1> QED BY <1>1, <1>7

LEMMA TransferIsParallel ==
  ASSUME ExecInv, InBlock, NEW target, NEW args, NEW oom, exec_transfer_args(target, args, oom),
         entering'
  PROVE  /\ Len(args) = Len(m.blocks[current'].params)
         /\ \A i \in 1 .. Len(args) :
              val'[m.blocks[current'].params[i]] = exec_read_value(args[i])
  <1>1. TransferCause(target, args, oom) = "ok"
    BY DEF exec_transfer_args, Abort
  <1>2. /\ val' = ParamValues(m.blocks[target].params, args)
        /\ current' = target
    BY <1>1 DEF exec_transfer_args
  <1>3. target \in 1 .. Len(m.blocks) /\ Len(args) = Len(m.blocks[target].params)
    BY <1>1 DEF TransferCause, valid_block
  <1> QED BY <1>2, <1>3, ParamGetsItsArgument

(* After every branch each parameter of the target holds what its argument *)
(* held before the branch: exec_transfer_args passes them as if at once,   *)
(* for any number of parameters and any way a block permutes its own.      *)
THEOREM ParallelTransferAlways == Spec => ParallelTransfer
  <1> DEFINE Parallel ==
        entering' /\ ~entering /\ running =>
          \E args \in {TrueArgs(m, current), FalseArgs(m, current)} :
            /\ Len(args) = Len(m.blocks[current'].params)
            /\ \A i \in 1 .. Len(args) :
                 val'[m.blocks[current'].params[i]] = exec_read_value(args[i])
  <1>1. ASSUME ExecInv, [Next]_vars
        PROVE  Parallel
    <2>1. SUFFICES ASSUME entering', ~entering, running
                   PROVE  Parallel
      OBVIOUS
    <2>2. InBlock
      BY <2>1 DEF InBlock
    <2>3. ExecJump \/ ExecCbranch
      <3>1. CASE StateCreate \/ SetParam \/ xair_exec_store_bytes \/ Run \/ EnterBlock
        BY <2>1, <3>1 DEF StateCreate, SetParam, xair_exec_store_bytes, Run, EnterBlock, Halt,
                          control
      <3>2. CASE ExecConst \/ ExecScalar \/ ExecLoad \/ ExecStore \/ ExecStoreFails
        BY <2>1, <3>2 DEF ExecConst, ExecScalar, ExecLoad, ExecStore, ExecStoreFails, Produce,
                          GiveUp, Halt, Abort
      <3>3. CASE ExecReturn \/ ExecStop
        BY <2>1, <3>3 DEF ExecReturn, ExecStop, Halt, Abort
      <3>4. CASE UNCHANGED vars
        BY <2>1, <3>4 DEF vars, control
      <3> QED BY <1>1, <3>1, <3>2, <3>3, <3>4 DEF Next, Step
    <2>4. CASE ExecJump
      <3>1. PICK oom \in BOOLEAN :
              exec_transfer_args(Here.term.true_target, TrueArgs(m, current), oom)
        BY <2>4 DEF ExecJump
      <3> QED BY <1>1, <2>1, <2>2, <3>1, TransferIsParallel
    <2>5. CASE ExecCbranch
      <3>1. PICK oom \in BOOLEAN : exec_transfer_args(TakenTarget, TakenArgs, oom)
        BY <2>1, <2>5 DEF ExecCbranch, Abort
      <3>2. TakenArgs \in {TrueArgs(m, current), FalseArgs(m, current)}
        BY DEF TakenArgs
      <3> QED BY <1>1, <2>1, <2>2, <3>1, <3>2, TransferIsParallel
    <2> QED BY <2>3, <2>4, <2>5
  <1>2. ASSUME ExecInv, [Next]_vars
        PROVE  [Parallel]_vars
    BY <1>1, <1>2
  <1> QED BY <1>2, ExecInvHolds, PTL DEF Spec, ParallelTransfer

-----------------------------------------------------------------------------
(* The module under a client that goes on building.  A module's fields are *)
(* taken from any sets U large enough: what the executor depends on is     *)
(* where the identifiers in a block's lists point, not what names, types   *)
(* and operands are made of.                                               *)

OpsOver(U) == [opcode : U, dst : Nat, src : U, imm : U, endian : U]
BlocksOver(U) == [params : Seq(Nat), ops : Seq(Nat), term : U]

Shaped(n, U) ==
  n \in [values : Seq(U), ops : Seq(OpsOver(U)), blocks : Seq(BlocksOver(U)),
         term_args : Seq(U), vn : SUBSET U, frozen : BOOLEAN]

Longer(s, t) == Len(s) <= Len(t) /\ \A i \in 1 .. Len(s) : t[i] = s[i]

Grown(a, n) ==
  /\ Longer(a.values, n.values) /\ Longer(a.ops, n.ops) /\ Longer(a.term_args, n.term_args)
  /\ Len(a.blocks) <= Len(n.blocks)
  /\ \A b \in 1 .. Len(a.blocks) : a.blocks[b].term.kind # "NONE" => n.blocks[b] = a.blocks[b]

BlockInBounds(n, block) ==
  /\ \A i \in 1 .. Len(block.params) : block.params[i] \in 1 .. Len(n.values)
  /\ \A i \in 1 .. Len(block.ops) : /\ block.ops[i] \in 1 .. Len(n.ops)
                                    /\ n.ops[block.ops[i]].dst \in 1 .. Len(n.values)

InBounds(n) == \A b \in 1 .. Len(n.blocks) : BlockInBounds(n, n.blocks[b])

Builds(a, n) == (\E V : Shaped(n, V)) /\ Grown(a, n) /\ (InBounds(a) => InBounds(n))

LEMMA SeqMono ==
  ASSUME NEW U, NEW V, U \subseteq V
  PROVE  Seq(U) \subseteq Seq(V)
  OBVIOUS

LEMMA ShapedMono ==
  ASSUME NEW U, NEW V, U \subseteq V, NEW n, Shaped(n, U)
  PROVE  Shaped(n, V)
  <1>1. Seq(U) \subseteq Seq(V)
    BY SeqMono
  <1>2. OpsOver(U) \subseteq OpsOver(V)
    BY DEF OpsOver
  <1>3. Seq(OpsOver(U))
          \subseteq Seq(OpsOver(V))
    BY <1>2, SeqMono
  <1>4. BlocksOver(U) \subseteq BlocksOver(V)
    BY DEF BlocksOver
  <1>5. Seq(BlocksOver(U))
          \subseteq Seq(BlocksOver(V))
    BY <1>4, SeqMono
  <1> QED BY <1>1, <1>3, <1>5 DEF Shaped

LEMMA ModulesShaped == \E U : \A a \in Modules : Shaped(a, U)
  <1> DEFINE U == ValueRecs \cup Opcodes \cup Nat \cup Seq(Nat) \cup Endians \cup TermRecs
  <1>1. Seq(ValueRecs) \subseteq Seq(U) /\ Seq(Nat) \subseteq Seq(U)
    BY SeqMono
  <1>2. OpRecs \subseteq OpsOver(U)
    BY DEF OpRecs, OpsOver
  <1>3. BlockRecs \subseteq BlocksOver(U)
    BY DEF BlockRecs, BlocksOver
  <1>4. /\ Seq(OpRecs) \subseteq Seq(OpsOver(U))
        /\ Seq(BlockRecs) \subseteq Seq(BlocksOver(U))
    BY <1>2, <1>3, SeqMono
  <1>5. SUBSET Nat \subseteq SUBSET U
    OBVIOUS
  <1> HIDE DEF U
  <1>6. \A a \in Modules : Shaped(a, U)
    BY <1>1, <1>4, <1>5 DEF Modules, Shaped
  <1> QED BY <1>6

LEMMA ShapedParts ==
  ASSUME NEW a, NEW U, Shaped(a, U)
  PROVE  /\ a = [values |-> a.values, ops |-> a.ops, blocks |-> a.blocks,
                 term_args |-> a.term_args, vn |-> a.vn, frozen |-> a.frozen]
         /\ a.values \in Seq(U) /\ Len(a.values) \in Nat
         /\ a.ops \in Seq(OpsOver(U)) /\ Len(a.ops) \in Nat
         /\ a.blocks \in Seq(BlocksOver(U)) /\ Len(a.blocks) \in Nat
         /\ a.term_args \in Seq(U) /\ Len(a.term_args) \in Nat
         /\ a.vn \in SUBSET U /\ a.frozen \in BOOLEAN
  <1>1. /\ a = [values |-> a.values, ops |-> a.ops, blocks |-> a.blocks,
                term_args |-> a.term_args, vn |-> a.vn, frozen |-> a.frozen]
        /\ a.values \in Seq(U) /\ a.ops \in Seq(OpsOver(U)) /\ a.blocks \in Seq(BlocksOver(U))
        /\ a.term_args \in Seq(U) /\ a.vn \in SUBSET U /\ a.frozen \in BOOLEAN
    BY DEF Shaped
  <1> QED BY <1>1

LEMMA BlockParts ==
  ASSUME NEW U, NEW s \in Seq(BlocksOver(U)), NEW b \in 1 .. Len(s)
  PROVE  /\ s[b] = [params |-> s[b].params, ops |-> s[b].ops, term |-> s[b].term]
         /\ s[b] \in BlocksOver(U) /\ s[b].term \in U
         /\ s[b].params \in Seq(Nat) /\ Len(s[b].params) \in Nat
         /\ s[b].ops \in Seq(Nat) /\ Len(s[b].ops) \in Nat
  <1>1. s[b] \in BlocksOver(U)
    OBVIOUS
  <1>2. /\ s[b] = [params |-> s[b].params, ops |-> s[b].ops, term |-> s[b].term]
        /\ s[b].params \in Seq(Nat) /\ s[b].ops \in Seq(Nat) /\ s[b].term \in U
    BY <1>1 DEF BlocksOver
  <1> QED BY <1>1, <1>2

LEMMA SameBuilds ==
  ASSUME NEW a, NEW U, Shaped(a, U)
  PROVE  Builds(a, a)
  <1>1. Grown(a, a)
    BY ShapedParts DEF Grown, Longer
  <1> QED BY <1>1 DEF Builds

LEMMA BlockCreateBuilds ==
  ASSUME NEW a, NEW U, Shaped(a, U)
  PROVE  Builds(a, xair_block_create(a, "none").m)
  <1> DEFINE block == [params |-> <<>>, ops |-> <<>>, term |-> NoTerm]
             blocks == Append(a.blocks, block)
             n == [a EXCEPT !.blocks = blocks]
             V == U \cup {NoTerm}
  <1>1. xair_block_create(a, "none").m \in {a, n}
    BY DEF xair_block_create, Reject, Ret
  <1>2. /\ n.blocks = blocks /\ n.values = a.values /\ n.ops = a.ops /\ n.term_args = a.term_args
        /\ n = [values |-> a.values, ops |-> a.ops, blocks |-> blocks,
                term_args |-> a.term_args, vn |-> a.vn, frozen |-> a.frozen]
    <2>1. PICK v, o, l, t, k, f : a = [values |-> v, ops |-> o, blocks |-> l, term_args |-> t,
                                       vn |-> k, frozen |-> f]
      BY ShapedParts
    <2> HIDE DEF blocks
    <2> QED BY <2>1
  <1>3. Shaped(n, V)
    <2>1. block \in BlocksOver(V)
      BY DEF BlocksOver
    <2>2. Shaped(a, V)
      BY ShapedMono
    <2> HIDE DEF V, block
    <2>3. blocks \in Seq(BlocksOver(V))
      BY <2>1, <2>2, ShapedParts
    <2> HIDE DEF blocks, n
    <2> QED BY <1>2, <2>2, <2>3, ShapedParts DEF Shaped
  <1>4. /\ Len(a.blocks) \in Nat /\ Len(blocks) = Len(a.blocks) + 1
        /\ \A b \in 1 .. Len(a.blocks) : blocks[b] = a.blocks[b]
        /\ blocks[Len(a.blocks) + 1] = block
    <2> HIDE DEF block
    <2> QED BY ShapedParts
  <1>5. Grown(a, n)
    <2> HIDE DEF n, blocks
    <2> QED BY <1>2, <1>4, ShapedParts DEF Grown, Longer
  <1>6. ASSUME InBounds(a)
        PROVE  InBounds(n)
    <2>1. BlockInBounds(n, block)
      BY DEF BlockInBounds
    <2> HIDE DEF n, blocks, block
    <2>2. \A b \in 1 .. Len(blocks) : b \in 1 .. Len(a.blocks) \/ b = Len(a.blocks) + 1
      BY <1>4
    <2>3. \A b \in 1 .. Len(a.blocks) : BlockInBounds(n, a.blocks[b])
      BY <1>2, <1>6 DEF InBounds, BlockInBounds
    <2> QED BY <1>2, <1>4, <2>1, <2>2, <2>3 DEF InBounds
  <1>7. Builds(a, n)
    <2> HIDE DEF n, V
    <2> QED BY <1>3, <1>5, <1>6 DEF Builds
  <1> QED BY <1>1, <1>7, SameBuilds

LEMMA LongerParts ==
  ASSUME NEW s, NEW t, Len(s) \in Nat, Len(t) \in Nat, Longer(s, t)
  PROVE  /\ 1 .. Len(s) \subseteq 1 .. Len(t)
         /\ \A i \in 1 .. Len(s) : t[i] = s[i]
  BY DEF Longer

LEMMA LongerSelf ==
  ASSUME NEW s, Len(s) \in Nat
  PROVE  Longer(s, s)
  BY DEF Longer

LEMMA LongerAppend ==
  ASSUME NEW U, NEW s \in Seq(U), NEW x
  PROVE  Longer(s, Append(s, x)) /\ Len(Append(s, x)) = Len(s) + 1 /\ Len(s) \in Nat
  BY DEF Longer

LEMMA LongerConcat ==
  ASSUME NEW U, NEW s \in Seq(U), NEW V, NEW t \in Seq(V)
  PROVE  Longer(s, s \o t)
  BY DEF Longer

LEMMA BoundsGrow ==
  ASSUME NEW a, NEW U, Shaped(a, U), NEW n, NEW V, Shaped(n, V),
         Longer(a.values, n.values), Longer(a.ops, n.ops), NEW block, BlockInBounds(a, block)
  PROVE  BlockInBounds(n, block)
  <1>1. /\ 1 .. Len(a.values) \subseteq 1 .. Len(n.values)
        /\ 1 .. Len(a.ops) \subseteq 1 .. Len(n.ops)
        /\ \A o \in 1 .. Len(a.ops) : n.ops[o] = a.ops[o]
    BY ShapedParts, LongerParts
  <1> QED BY <1>1 DEF BlockInBounds

(* One open block changes, to new.                                         *)
LEMMA OneBlockBuilds ==
  ASSUME NEW a, NEW U, Shaped(a, U), NEW n, NEW V, Shaped(n, V),
         NEW b \in 1 .. Len(a.blocks), a.blocks[b].term.kind = "NONE",
         NEW new, n.blocks = [a.blocks EXCEPT ![b] = new],
         Longer(a.values, n.values), Longer(a.ops, n.ops), Longer(a.term_args, n.term_args),
         InBounds(a) => BlockInBounds(n, new)
  PROVE  Builds(a, n)
  <1>1. /\ Len(n.blocks) = Len(a.blocks) /\ Len(a.blocks) \in Nat
        /\ n.blocks[b] = new /\ \A c \in 1 .. Len(a.blocks) : c # b => n.blocks[c] = a.blocks[c]
    <2>1. a.blocks \in Seq(BlocksOver(U))
      BY ShapedParts
    <2>2. Len(n.blocks) = Len(a.blocks)
      BY <2>1
    <2> QED BY <2>1, <2>2
  <1>2. Grown(a, n)
    BY <1>1 DEF Grown
  <1>3. ASSUME InBounds(a)
        PROVE  InBounds(n)
    <2>1. \A c \in 1 .. Len(a.blocks) : BlockInBounds(a, a.blocks[c])
      BY <1>3 DEF InBounds
    <2>2. \A c \in 1 .. Len(a.blocks) : BlockInBounds(n, n.blocks[c])
      BY <1>1, <1>3, <2>1, BoundsGrow
    <2> QED BY <1>1, <2>2 DEF InBounds
  <1> QED BY <1>2, <1>3 DEF Builds

NewValue(a, b, type, name) ==
  [type |-> type, block |-> b, op |-> INVALID, name |-> copy_name(name, Len(a.values) + 1)]

WithValue(a, value) == [a EXCEPT !.values = Append(@, value)]

LEMMA AddedValue ==
  ASSUME NEW a, NEW b, NEW type, NEW name,
         NEW added, added = add_value(a, b, type, name, "none")
  PROVE  \/ added.m = a /\ added.status # "OK"
         \/ /\ added.m = WithValue(a, NewValue(a, b, type, name)) /\ added.status = "OK"
            /\ added.out = Len(a.values) + 1 /\ b \in 1 .. Len(a.blocks)
  BY DEF add_value, Ret, Reject, NewValue, WithValue, valid_block

LEMMA BlockFields ==
  ASSUME NEW U, NEW block \in BlocksOver(U), NEW k \in Nat, NEW term \in U
  PROVE  /\ [block EXCEPT !.params = Append(@, k)] \in BlocksOver(U)
         /\ [block EXCEPT !.ops = Append(@, k)] \in BlocksOver(U)
         /\ [block EXCEPT !.term = term] \in BlocksOver(U)
  <1>1. block.params \in Seq(Nat) /\ block.ops \in Seq(Nat)
    BY DEF BlocksOver
  <1>2. Append(block.params, k) \in Seq(Nat) /\ Append(block.ops, k) \in Seq(Nat)
    BY <1>1
  <1> QED BY <1>2 DEF BlocksOver

LEMMA UpdateSeq ==
  ASSUME NEW S, NEW s \in Seq(S), NEW i \in 1 .. Len(s), NEW x \in S
  PROVE  /\ [s EXCEPT ![i] = x] \in Seq(S)
         /\ Len([s EXCEPT ![i] = x]) = Len(s)
         /\ \A j \in 1 .. Len(s) : [s EXCEPT ![i] = x][j] = IF j = i THEN x ELSE s[j]
  OBVIOUS

LEMMA AppendBounds ==
  ASSUME NEW s \in Seq(Nat), NEW k \in Nat, NEW N \in Nat, k \in 1 .. N,
         \A i \in 1 .. Len(s) : s[i] \in 1 .. N
  PROVE  \A i \in 1 .. Len(Append(s, k)) : Append(s, k)[i] \in 1 .. N
  OBVIOUS

LEMMA AddParamBuilds ==
  ASSUME NEW a, NEW U, Shaped(a, U), NEW b, NEW type, NEW name
  PROVE  Builds(a, xair_block_add_param(a, b, type, name, "none").m)
  <1>1. PICK r : r = xair_block_add_param(a, b, type, name, "none")
    OBVIOUS
  <1>2. PICK added : added = add_value(a, b, type, name, "none")
    OBVIOUS
  <1>3. PICK value : value = NewValue(a, b, type, name)
    OBVIOUS
  <1>4. PICK n : n = [added.m EXCEPT !.blocks[b].params = Append(@, added.out)]
    OBVIOUS
  <1>5. \/ r.m = a
        \/ r.m = n /\ valid_block(a, b) /\ a.blocks[b].term.kind = "NONE" /\ added.status = "OK"
    BY <1>1, <1>2, <1>4, AddedValue DEF xair_block_add_param, Ret, Reject
  <1>6. CASE /\ r.m = n /\ valid_block(a, b) /\ a.blocks[b].term.kind = "NONE"
             /\ added.status = "OK"
    <2>1. /\ added.m = WithValue(a, value) /\ added.out = Len(a.values) + 1
          /\ b \in 1 .. Len(a.blocks)
      BY <1>2, <1>3, <1>6, AddedValue
    <2>2. PICK k \in Nat : k = Len(a.values) + 1
      BY ShapedParts
    <2>3. PICK new : new = [a.blocks[b] EXCEPT !.params = Append(@, k)]
      OBVIOUS
    <2>4. PICK V : V = U \cup {value}
      OBVIOUS
    <2>5. Shaped(a, V)
      BY <2>4, ShapedMono
    <2>6. PICK values : values = Append(a.values, value)
      OBVIOUS
    <2>7. /\ values \in Seq(V) /\ Longer(a.values, values) /\ Len(values) = k
      BY <2>2, <2>4, <2>5, <2>6, ShapedParts, LongerAppend
    <2>8. PICK blocks : blocks = [a.blocks EXCEPT ![b] = new]
      OBVIOUS
    <2>9. blocks \in Seq(BlocksOver(V)) /\ a.blocks[b] \in BlocksOver(V)
      <3>1. a.blocks \in Seq(BlocksOver(V)) /\ a.blocks[b] \in BlocksOver(V)
            /\ a.blocks[b].term \in V
        BY <2>1, <2>5, ShapedParts, BlockParts
      <3>2. new \in BlocksOver(V)
        BY <2>3, <3>1, BlockFields
      <3> QED BY <2>1, <2>8, <3>1, <3>2, UpdateSeq
    <2>10. n = [a EXCEPT !.values = values, !.blocks = blocks]
      BY <1>4, <2>1, <2>2, <2>3, <2>6, <2>8 DEF Shaped, WithValue
    <2>11. /\ Shaped(n, V) /\ n.values = values /\ n.blocks = blocks /\ n.ops = a.ops
           /\ n.term_args = a.term_args
      BY <2>5, <2>7, <2>9, <2>10 DEF Shaped
    <2>12. Longer(a.ops, n.ops) /\ Longer(a.term_args, n.term_args)
      BY <2>11, ShapedParts, LongerSelf
    <2>13. ASSUME InBounds(a)
           PROVE  BlockInBounds(n, new)
      <3>1. BlockInBounds(a, a.blocks[b])
        BY <2>1, <2>13 DEF InBounds
      <3>2. BlockInBounds(n, a.blocks[b])
        BY <2>5, <2>7, <2>11, <2>12, <3>1, BoundsGrow
      <3>3. /\ new.params = Append(a.blocks[b].params, k) /\ new.ops = a.blocks[b].ops
            /\ a.blocks[b].params \in Seq(Nat)
        BY <2>3, <2>9 DEF BlocksOver
      <3>4. k \in 1 .. k
        BY <2>2
      <3>5. \A i \in 1 .. Len(new.params) : new.params[i] \in 1 .. Len(n.values)
        BY <2>7, <2>11, <3>2, <3>3, <3>4, AppendBounds DEF BlockInBounds
      <3> QED BY <3>2, <3>3, <3>5 DEF BlockInBounds
    <2>14. Builds(a, n)
      BY <1>6, <2>1, <2>7, <2>8, <2>11, <2>12, <2>13, OneBlockBuilds
    <2> QED BY <1>1, <1>6, <2>14
  <1> QED BY <1>1, <1>5, <1>6, SameBuilds

(* A new operation, with its destination and the links between them.       *)
LEMMA OpBuilds ==
  ASSUME NEW a, NEW U, Shaped(a, U), NEW b \in 1 .. Len(a.blocks), a.blocks[b].term.kind = "NONE",
         NEW type, NEW name, NEW opcode, NEW srcs, NEW imm, NEW endian,
         NEW k \in Nat, k = Len(a.values) + 1,
         NEW op, op = [opcode |-> opcode, dst |-> k, src |-> srcs, imm |-> imm, endian |-> endian],
         NEW n, n = value_number_insert(append_op(LinkOp(WithValue(a, NewValue(a, b, type, name)),
                                                         op), b), k)
  PROVE  Builds(a, n)
  <1>1. PICK o \in Nat : o = Len(a.ops) + 1
    BY ShapedParts
  <1>2. PICK value : value = NewValue(a, b, type, name)
    OBVIOUS
  <1>3. PICK numbered : numbered = [value EXCEPT !.op = o]
    OBVIOUS
  <1>4. PICK V : V = U \cup {value, numbered, opcode, srcs, imm, endian, k}
    OBVIOUS
  <1>5. Shaped(a, V) /\ {value, numbered, opcode, srcs, imm, endian, k} \subseteq V
    BY <1>4, ShapedMono
  <1>6. PICK base : base = Append(a.values, value)
    OBVIOUS
  <1>7. base \in Seq(V) /\ Longer(a.values, base) /\ Len(base) = k /\ k \in 1 .. k
    BY <1>5, <1>6, ShapedParts, LongerAppend
  <1>8. PICK values : values = [base EXCEPT ![k].op = o]
    OBVIOUS
  <1>9. values \in Seq(V) /\ Len(values) = k /\ Longer(a.values, values)
    <2>1. /\ base[k] = value /\ Len(a.values) \in Nat
          /\ \A i \in 1 .. Len(a.values) : base[i] = a.values[i]
      BY <1>6, ShapedParts
    <2>2. values = [base EXCEPT ![k] = numbered]
      BY <1>3, <1>7, <1>8, <2>1
    <2>3. /\ values \in Seq(V) /\ Len(values) = k
          /\ \A j \in 1 .. k : values[j] = IF j = k THEN numbered ELSE base[j]
      BY <1>5, <1>7, <2>2, UpdateSeq
    <2>4. \A i \in 1 .. Len(a.values) : i \in 1 .. k /\ i # k
      BY <2>1
    <2> QED BY <1>7, <2>1, <2>3, <2>4 DEF Longer
  <1>10. PICK ops : ops = Append(a.ops, op)
    OBVIOUS
  <1>11. /\ ops \in Seq(OpsOver(V)) /\ Longer(a.ops, ops) /\ Len(ops) = o
         /\ ops[o] = op /\ o \in 1 .. o /\ op.dst = k
    <2>1. op \in OpsOver(V) /\ op.dst = k
      BY <1>5 DEF OpsOver
    <2>2. a.ops \in Seq(OpsOver(V))
      BY <1>5, ShapedParts
    <2> QED BY <1>1, <1>10, <2>1, <2>2, LongerAppend
  <1>12. PICK new : new = [a.blocks[b] EXCEPT !.ops = Append(@, o)]
    OBVIOUS
  <1>13. PICK blocks : blocks = [a.blocks EXCEPT ![b] = new]
    OBVIOUS
  <1>14. blocks \in Seq(BlocksOver(V)) /\ a.blocks[b] \in BlocksOver(V)
    <2>1. /\ a.blocks \in Seq(BlocksOver(V)) /\ a.blocks[b] \in BlocksOver(V)
          /\ a.blocks[b].term \in V
      BY <1>5, ShapedParts, BlockParts
    <2>2. new \in BlocksOver(V)
      BY <1>1, <1>12, <2>1, BlockFields
    <2> QED BY <1>13, <2>1, <2>2, UpdateSeq
  <1>15. PICK linked : linked = LinkOp(WithValue(a, value), op)
    OBVIOUS
  <1>16. linked = [a EXCEPT !.values = values, !.ops = ops]
    BY <1>1, <1>6, <1>8, <1>10, <1>11, <1>15 DEF LinkOp, WithValue, Shaped
  <1>17. append_op(linked, b) = [a EXCEPT !.values = values, !.ops = ops, !.blocks = blocks]
    BY <1>11, <1>12, <1>13, <1>16 DEF append_op, Shaped
  <1>18. n = [a EXCEPT !.values = values, !.ops = ops, !.blocks = blocks, !.vn = a.vn \cup {k}]
    BY <1>2, <1>15, <1>17 DEF value_number_insert, Shaped
  <1>19. a.vn \cup {k} \in SUBSET V
    BY <1>5, ShapedParts
  <1>20. /\ Shaped(n, V) /\ n.values = values /\ n.blocks = blocks /\ n.ops = ops
         /\ n.term_args = a.term_args
    BY <1>5, <1>9, <1>11, <1>14, <1>18, <1>19, Zenon DEF Shaped
  <1>21. Longer(a.term_args, n.term_args)
    BY <1>20, ShapedParts, LongerSelf
  <1>22. ASSUME InBounds(a)
         PROVE  BlockInBounds(n, new)
    <2>1. BlockInBounds(a, a.blocks[b])
      BY <1>22 DEF InBounds
    <2>2. BlockInBounds(n, a.blocks[b])
      BY <1>5, <1>9, <1>11, <1>20, <2>1, BoundsGrow
    <2>3. /\ new.ops = Append(a.blocks[b].ops, o) /\ new.params = a.blocks[b].params
          /\ a.blocks[b].ops \in Seq(Nat) /\ Len(a.blocks[b].ops) \in Nat
      BY <1>12, <1>14 DEF BlocksOver
    <2>4. /\ Len(new.ops) = Len(a.blocks[b].ops) + 1 /\ new.ops[Len(a.blocks[b].ops) + 1] = o
          /\ \A i \in 1 .. Len(a.blocks[b].ops) : new.ops[i] = a.blocks[b].ops[i]
      BY <1>1, <2>3
    <2>5. ASSUME NEW i \in 1 .. Len(new.ops)
          PROVE  new.ops[i] \in 1 .. Len(n.ops) /\ n.ops[new.ops[i]].dst \in 1 .. Len(n.values)
      <3>1. CASE i \in 1 .. Len(a.blocks[b].ops)
        <4>1. /\ a.blocks[b].ops[i] \in 1 .. Len(n.ops)
              /\ n.ops[a.blocks[b].ops[i]].dst \in 1 .. Len(n.values)
          BY <2>2, <3>1, Zenon DEF BlockInBounds
        <4> QED BY <2>4, <3>1, <4>1, Zenon
      <3>2. CASE i = Len(a.blocks[b].ops) + 1
        BY <1>7, <1>9, <1>11, <1>20, <2>4, <3>2, Zenon
      <3>3. i \in 1 .. Len(a.blocks[b].ops) \/ i = Len(a.blocks[b].ops) + 1
        <4>1. PICK l \in Nat : l = Len(a.blocks[b].ops)
          BY <2>3
        <4>2. i \in 1 .. (l + 1)
          BY <2>4, <4>1
        <4> QED BY <4>1, <4>2
      <3> QED BY <3>1, <3>2, <3>3, Zenon
    <2> QED BY <2>2, <2>3, <2>5, Zenon DEF BlockInBounds
  <1> QED BY <1>5, <1>9, <1>11, <1>13, <1>20, <1>21, <1>22, OneBlockBuilds

LEMMA BuildConstBuilds ==
  ASSUME NEW a, NEW U, Shaped(a, U), NEW b, NEW type, NEW imm, NEW name
  PROVE  Builds(a, xair_build_const_u64(a, b, type, imm, name, "none").m)
  <1>1. PICK r : r = xair_build_const_u64(a, b, type, imm, name, "none")
    OBVIOUS
  <1>2. PICK added : added = add_value(a, b, type, name, "none")
    OBVIOUS
  <1>3. PICK op : op = [opcode |-> "CONST_U64", dst |-> added.out, src |-> <<>>, imm |-> imm,
                        endian |-> "LE"]
    OBVIOUS
  <1>4. PICK n : n = value_number_insert(append_op(LinkOp(added.m, op), b), added.out)
    OBVIOUS
  <1>5. PICK built : built = BuildOp(a, b, "CONST_U64", type, <<>>, imm, "LE", name, "none")
    OBVIOUS
  <1>6. built.m = a \/ (built.m = n /\ added.status = "OK")
    BY <1>2, <1>3, <1>4, <1>5, AddedValue DEF BuildOp, Ret, Reject
  <1>7. \/ r.m = a
        \/ r.m = built.m /\ valid_block(a, b) /\ a.blocks[b].term.kind = "NONE"
    BY <1>1, <1>5 DEF xair_build_const_u64, add_op, Ret, Reject
  <1>8. CASE r.m = n /\ valid_block(a, b) /\ a.blocks[b].term.kind = "NONE" /\ added.status = "OK"
    <2>1. /\ added.m = WithValue(a, NewValue(a, b, type, name)) /\ added.out = Len(a.values) + 1
          /\ b \in 1 .. Len(a.blocks)
      BY <1>2, <1>8, AddedValue
    <2>2. PICK k \in Nat : k = Len(a.values) + 1
      BY ShapedParts
    <2>3. PICK srcs : srcs = <<>>
      OBVIOUS
    <2>4. op = [opcode |-> "CONST_U64", dst |-> k, src |-> srcs, imm |-> imm, endian |-> "LE"]
      BY <1>3, <2>1, <2>2, <2>3
    <2>5. n = value_number_insert(append_op(LinkOp(WithValue(a, NewValue(a, b, type, name)), op),
                                            b), k)
      BY <1>4, <2>1, <2>2
    <2> QED BY <1>1, <1>8, <2>1, <2>2, <2>4, <2>5, OpBuilds
  <1> QED BY <1>1, <1>6, <1>7, <1>8, SameBuilds

LEMMA PoolBuilds ==
  ASSUME NEW a, NEW U, Shaped(a, U), NEW b, Unterminated(a, b), NEW W, NEW args \in Seq(W),
         NEW term, NEW put, put = [a EXCEPT !.term_args = @ \o args]
  PROVE  Builds(a, set_term(put, b, term).m)
  <1>1. PICK pool : pool = a.term_args \o args
    OBVIOUS
  <1>2. put = [a EXCEPT !.term_args = pool]
    BY <1>1
  <1>3. b \in 1 .. Len(a.blocks) /\ a.blocks[b].term.kind = "NONE" /\ ~a.frozen
    BY DEF Unterminated, valid_block
  <1>4. PICK new : new = [a.blocks[b] EXCEPT !.term = term]
    OBVIOUS
  <1>5. PICK blocks : blocks = [a.blocks EXCEPT ![b] = new]
    OBVIOUS
  <1>6. PICK n : n = set_term(put, b, term).m
    OBVIOUS
  <1>7. n = [a EXCEPT !.term_args = pool, !.blocks = blocks]
    <2>1. put.frozen = a.frozen /\ put.blocks = a.blocks
      BY <1>2 DEF Shaped
    <2>2. n = [put EXCEPT !.blocks[b].term = term]
      BY <1>3, <1>6, <2>1 DEF set_term, valid_block, Ret
    <2> QED BY <1>2, <1>4, <1>5, <2>2 DEF Shaped
  <1>8. PICK V : V = U \cup W \cup {term}
    OBVIOUS
  <1>9. Shaped(a, V) /\ W \subseteq V /\ term \in V
    BY <1>8, ShapedMono
  <1>10. pool \in Seq(V) /\ Longer(a.term_args, pool)
    <2>1. a.term_args \in Seq(V) /\ args \in Seq(V)
      BY <1>9, ShapedParts, SeqMono
    <2> QED BY <1>1, <2>1, LongerConcat
  <1>11. /\ blocks \in Seq(BlocksOver(V))
         /\ new.params = a.blocks[b].params /\ new.ops = a.blocks[b].ops
    <2>1. a.blocks \in Seq(BlocksOver(V)) /\ a.blocks[b] \in BlocksOver(V)
      BY <1>3, <1>9, ShapedParts, BlockParts
    <2>2. new \in BlocksOver(V)
      BY <1>4, <1>9, <2>1, BlockFields
    <2>3. blocks \in Seq(BlocksOver(V))
      BY <1>3, <1>5, <2>1, <2>2, UpdateSeq
    <2> QED BY <1>4, <2>1, <2>3 DEF BlocksOver
  <1>12. /\ Shaped(n, V) /\ n.values = a.values /\ n.ops = a.ops /\ n.blocks = blocks
         /\ n.term_args = pool
    BY <1>7, <1>9, <1>10, <1>11 DEF Shaped
  <1>13. Longer(a.values, n.values) /\ Longer(a.ops, n.ops)
    BY <1>12, ShapedParts, LongerSelf
  <1>14. ASSUME InBounds(a)
         PROVE  BlockInBounds(n, new)
    <2>1. BlockInBounds(a, a.blocks[b])
      BY <1>3, <1>14 DEF InBounds
    <2> QED BY <1>11, <1>12, <2>1 DEF BlockInBounds
  <1>15. Builds(a, n)
    BY <1>3, <1>5, <1>9, <1>10, <1>12, <1>13, <1>14, OneBlockBuilds
  <1> QED BY <1>6, <1>15

LEMMA TermBuilds ==
  ASSUME NEW a, NEW U, Shaped(a, U), NEW b, NEW target, NEW W, NEW args \in Seq(W)
  PROVE  /\ Builds(a, xair_set_jump(a, b, target, args, "none").m)
         /\ Builds(a, xair_set_return(a, b, args, "none").m)
  <1>1. PICK put : put = append_term_args(a, args, FALSE, FALSE)
    OBVIOUS
  <1>2. put.status = "OK" /\ put.m = [a EXCEPT !.term_args = @ \o args]
    BY <1>1 DEF append_term_args, Ret
  <1>3. ("none" = "null_args") = FALSE /\ ("none" = "args") = FALSE
    OBVIOUS
  <1>4. Builds(a, xair_set_jump(a, b, target, args, "none").m)
    <2>1. PICK term : term = [NoTerm EXCEPT !.kind = "JUMP", !.true_target = target,
                                !.true_arg_offset = put.out, !.true_arg_count = Len(args)]
      OBVIOUS
    <2>2. \/ xair_set_jump(a, b, target, args, "none").m = a
          \/ /\ xair_set_jump(a, b, target, args, "none").m = set_term(put.m, b, term).m
             /\ Unterminated(a, b)
      BY <1>1, <1>2, <1>3, <2>1 DEF xair_set_jump, Reject, Ret
    <2>3. Unterminated(a, b) => Builds(a, set_term(put.m, b, term).m)
      BY <1>2, PoolBuilds
    <2> QED BY <2>2, <2>3, SameBuilds
  <1>5. Builds(a, xair_set_return(a, b, args, "none").m)
    <2>1. PICK term : term = [NoTerm EXCEPT !.kind = "RETURN",
                                !.true_arg_offset = put.out, !.true_arg_count = Len(args)]
      OBVIOUS
    <2>2. \/ xair_set_return(a, b, args, "none").m = a
          \/ /\ xair_set_return(a, b, args, "none").m = set_term(put.m, b, term).m
             /\ Unterminated(a, b)
      BY <1>1, <1>2, <1>3, <2>1 DEF xair_set_return, Reject, Ret
    <2>3. Unterminated(a, b) => Builds(a, set_term(put.m, b, term).m)
      BY <1>2, PoolBuilds
    <2> QED BY <2>2, <2>3, SameBuilds
  <1> QED BY <1>4, <1>5

LEMMA FreezeBuilds ==
  ASSUME NEW a, NEW U, Shaped(a, U)
  PROVE  Builds(a, xair_module_freeze(a, "none").m)
  <1>1. PICK n : n = [value_number_clear(a) EXCEPT !.frozen = TRUE]
    OBVIOUS
  <1>2. n = [a EXCEPT !.vn = {}, !.frozen = TRUE]
    BY <1>1 DEF value_number_clear, Shaped
  <1>3. /\ Shaped(n, U) /\ n.values = a.values /\ n.ops = a.ops /\ n.blocks = a.blocks
        /\ n.term_args = a.term_args
    BY <1>2 DEF Shaped
  <1>4. Grown(a, n)
    BY <1>3, ShapedParts, LongerSelf DEF Grown
  <1>5. InBounds(a) => InBounds(n)
    BY <1>3 DEF InBounds, BlockInBounds
  <1>6. Builds(a, n)
    BY <1>3, <1>4, <1>5 DEF Builds
  <1>7. xair_module_freeze(a, "none").m \in {a, n}
    BY <1>1 DEF xair_module_freeze, Reject, Ret
  <1> QED BY <1>6, <1>7, SameBuilds

-----------------------------------------------------------------------------
(* Canonicalization: the pass over the operations.                         *)

(* Operations are rewritten, but neither their number nor their results.   *)
Rewritten(a, n) ==
  /\ \E V : Shaped(n, V)
  /\ n.values = a.values /\ n.blocks = a.blocks /\ n.term_args = a.term_args
  /\ Len(n.ops) = Len(a.ops)
  /\ \A o \in 1 .. Len(a.ops) : n.ops[o].dst = a.ops[o].dst

LEMMA SameRewritten ==
  ASSUME NEW a, NEW U, Shaped(a, U)
  PROVE  Rewritten(a, a)
  BY DEF Rewritten

LEMMA RewrittenTwice ==
  ASSUME NEW a, NEW p, NEW n, Rewritten(a, p), Rewritten(p, n)
  PROVE  Rewritten(a, n)
  BY DEF Rewritten

LEMMA OpRewritten ==
  ASSUME NEW a, NEW U, Shaped(a, U), NEW o \in 1 .. Len(a.ops),
         NEW W, NEW op \in OpsOver(W), op.dst = a.ops[o].dst,
         NEW n, n = [a EXCEPT !.ops[o] = op]
  PROVE  Rewritten(a, n)
  <1>1. PICK V : V = U \cup W
    OBVIOUS
  <1>2. Shaped(a, V)
    BY <1>1, ShapedMono
  <1>3. op \in OpsOver(V)
    BY <1>1 DEF OpsOver
  <1>4. PICK ops : ops = [a.ops EXCEPT ![o] = op]
    OBVIOUS
  <1>5. /\ ops \in Seq(OpsOver(V)) /\ Len(ops) = Len(a.ops)
        /\ \A j \in 1 .. Len(a.ops) : ops[j] = IF j = o THEN op ELSE a.ops[j]
    BY <1>2, <1>3, <1>4, ShapedParts, UpdateSeq
  <1>6. n = [a EXCEPT !.ops = ops]
    BY <1>4 DEF Shaped
  <1>7. /\ Shaped(n, V) /\ n.values = a.values /\ n.blocks = a.blocks /\ n.ops = ops
        /\ n.term_args = a.term_args
    BY <1>2, <1>5, <1>6 DEF Shaped
  <1> QED BY <1>5, <1>7 DEF Rewritten

LEMMA OpParts ==
  ASSUME NEW a, NEW U, Shaped(a, U), NEW o \in 1 .. Len(a.ops)
  PROVE  a.ops[o] \in OpsOver(U)
  <1>1. a.ops \in Seq(OpsOver(U))
    BY ShapedParts
  <1> QED BY <1>1

LEMMA FoldRewrites ==
  ASSUME NEW a, NEW U, Shaped(a, U), NEW o \in 1 .. Len(a.ops)
  PROVE  Rewritten(a, fold_constant_op(a, o))
  <1>1. PICK folded : folded = FoldedValue(a, a.ops[o])
    OBVIOUS
  <1>2. fold_constant_op(a, o) = fold_to_const(a, o, folded)
    BY <1>1 DEF fold_constant_op
  <1>3. PICK imm : imm = truncate_to_type(CHOOSE x \in folded : TRUE, TypeOf(a, a.ops[o].dst))
    OBVIOUS
  <1>4. PICK none : none = <<>>
    OBVIOUS
  <1>5. PICK op : op = [a.ops[o] EXCEPT !.opcode = "CONST_U64", !.src = none, !.endian = "LE",
                                        !.imm = imm]
    OBVIOUS
  <1>6. PICK W : W = U \cup {"CONST_U64", none, "LE", imm}
    OBVIOUS
  <1>7. op \in OpsOver(W) /\ op.dst = a.ops[o].dst
    <2>1. "CONST_U64" \in W /\ none \in W /\ "LE" \in W /\ imm \in W /\ U \subseteq W
      BY <1>6
    <2>2. PICK old : old = a.ops[o] /\ old \in OpsOver(W)
      BY <2>1, OpParts DEF OpsOver
    <2> QED BY <1>5, <2>1, <2>2 DEF OpsOver
  <1>8. PICK n : n = [a EXCEPT !.ops[o] = op]
    OBVIOUS
  <1>9. fold_to_const(a, o, folded) = IF folded = {} THEN a ELSE n
    BY <1>3, <1>4, <1>5, <1>8 DEF fold_to_const, Shaped
  <1>10. Rewritten(a, n)
    BY <1>7, <1>8, OpRewritten
  <1> QED BY <1>2, <1>9, <1>10, SameRewritten

LEMMA ReorderRewrites ==
  ASSUME NEW a, NEW U, Shaped(a, U), NEW o \in 1 .. Len(a.ops)
  PROVE  Rewritten(a, ReorderOperands(a, o))
  <1>1. PICK src : src = <<a.ops[o].src[2], a.ops[o].src[1]>>
    OBVIOUS
  <1>2. PICK op : op = [a.ops[o] EXCEPT !.src = src]
    OBVIOUS
  <1>3. PICK W : W = U \cup {src}
    OBVIOUS
  <1>4. op \in OpsOver(W) /\ op.dst = a.ops[o].dst
    BY <1>2, <1>3, OpParts DEF OpsOver
  <1>5. PICK n : n = [a EXCEPT !.ops[o] = op]
    OBVIOUS
  <1>6. ReorderOperands(a, o) = n \/ ReorderOperands(a, o) = a
    BY <1>1, <1>2, <1>5 DEF ReorderOperands, Shaped
  <1>7. Rewritten(a, n)
    BY <1>4, <1>5, OpRewritten
  <1> QED BY <1>6, <1>7, SameRewritten

(* The pass over the operations, as far as the n-th.                       *)
LocalPass(a, n, f) ==
  f = [i \in 0 .. n |-> IF i = 0 THEN a ELSE ReorderOperands(fold_constant_op(f[i - 1], i), i)]

LEMMA LocalPassExists ==
  ASSUME NEW a, NEW n \in Nat
  PROVE  \E f : LocalPass(a, n, f)
  <1> DEFINE S == {k \in Nat : \E f : LocalPass(a, k, f)}
             NextOf(f, i) == ReorderOperands(fold_constant_op(f[i - 1], i), i)
  <1>1. 0 \in S
    <2>1. PICK f : f = [i \in 0 .. 0 |-> a]
      OBVIOUS
    <2>2. LocalPass(a, 0, f)
      BY <2>1 DEF LocalPass
    <2> QED BY <2>2
  <1>2. ASSUME NEW k \in Nat, k \in S
        PROVE  k + 1 \in S
    <2>1. PICK f : LocalPass(a, k, f)
      BY <1>2
    <2>2. PICK g : g = [i \in 0 .. (k + 1) |-> IF i = k + 1 THEN NextOf(f, k + 1) ELSE f[i]]
      OBVIOUS
    <2>3. ASSUME NEW i \in 0 .. (k + 1)
          PROVE  g[i] = IF i = 0 THEN a ELSE NextOf(g, i)
      <3>1. CASE i = k + 1
        <4>1. i - 1 = k /\ k \in 0 .. (k + 1) /\ k # k + 1 /\ i # 0 /\ (k + 1) - 1 = k
          BY <3>1
        <4>2. g[k] = f[k]
          BY <2>2, <4>1
        <4>3. g[i] = NextOf(f, k + 1)
          BY <2>2, <3>1
        <4> QED BY <3>1, <4>1, <4>2, <4>3
      <3>2. CASE i \in 0 .. k
        <4>1. i # k + 1 /\ (i # 0 => i - 1 \in 0 .. (k + 1) /\ i - 1 # k + 1)
          BY <3>2
        <4>2. g[i] = f[i] /\ (i # 0 => g[i - 1] = f[i - 1])
          BY <2>2, <4>1
        <4>3. f[i] = IF i = 0 THEN a ELSE NextOf(f, i)
          BY <2>1, <3>2 DEF LocalPass
        <4> QED BY <4>2, <4>3
      <3> QED BY <3>1, <3>2
    <2>4. g = [i \in 0 .. (k + 1) |-> IF i = 0 THEN a ELSE NextOf(g, i)]
      <3> HIDE DEF NextOf
      <3> QED BY <2>2, <2>3
    <2>5. LocalPass(a, k + 1, g)
      BY <2>4 DEF LocalPass
    <2> QED BY <2>5
  <1>3. \A k \in Nat : k \in S
    <2> HIDE DEF S
    <2> QED BY <1>1, <1>2, InductionOnSet
  <1> QED BY <1>3

LEMMA LocalOpsRewrites ==
  ASSUME NEW a, NEW U, Shaped(a, U)
  PROVE  Rewritten(a, canonicalize_local_ops(a))
  <1>1. Len(a.ops) \in Nat
    BY ShapedParts
  <1>2. PICK f : f = CHOOSE g : LocalPass(a, Len(a.ops), g)
    OBVIOUS
  <1>3. LocalPass(a, Len(a.ops), f)
    BY <1>1, <1>2, LocalPassExists, Zenon
  <1>4. canonicalize_local_ops(a) = f[Len(a.ops)]
    BY <1>2, Zenon DEF canonicalize_local_ops, LocalPass
  <1> DEFINE S == {i \in Nat : i <= Len(a.ops) => Rewritten(a, f[i])}
  <1>5. 0 \in S
    <2>1. f[0] = a
      BY <1>1, <1>3 DEF LocalPass
    <2> QED BY <2>1, SameRewritten
  <1>6. ASSUME NEW i \in Nat, i \in S
        PROVE  i + 1 \in S
    <2>1. SUFFICES ASSUME i + 1 <= Len(a.ops)
                   PROVE  Rewritten(a, f[i + 1])
      OBVIOUS
    <2>2. PICK p : p = f[i]
      OBVIOUS
    <2>3. Rewritten(a, p)
      BY <1>1, <1>6, <2>1, <2>2
    <2>4. f[i + 1] = ReorderOperands(fold_constant_op(p, i + 1), i + 1)
      <3>1. i + 1 \in 0 .. Len(a.ops) /\ i + 1 # 0 /\ (i + 1) - 1 = i
        BY <1>1, <2>1
      <3> QED BY <1>3, <2>2, <3>1 DEF LocalPass
    <2>5. PICK q : q = fold_constant_op(p, i + 1)
      OBVIOUS
    <2>6. i + 1 \in 1 .. Len(p.ops)
      BY <1>1, <2>1, <2>3 DEF Rewritten
    <2>7. Rewritten(p, q)
      BY <2>3, <2>5, <2>6, FoldRewrites DEF Rewritten
    <2>8. i + 1 \in 1 .. Len(q.ops)
      BY <2>6, <2>7 DEF Rewritten
    <2>9. Rewritten(q, f[i + 1])
      BY <2>4, <2>5, <2>7, <2>8, ReorderRewrites DEF Rewritten
    <2> QED BY <2>3, <2>7, <2>9, RewrittenTwice
  <1>7. \A i \in Nat : i \in S
    <2> HIDE DEF S
    <2> QED BY <1>5, <1>6, InductionOnSet
  <1> QED BY <1>1, <1>4, <1>7

-----------------------------------------------------------------------------
(* Concatenating the parts of a sequence.                                  *)

(* The concatenation of s[1] to s[n], as FlattenSeq computes it.           *)
Flattened(s, n, f) == f = [i \in 1 .. n |-> IF i = 1 THEN s[i] ELSE f[i - 1] \o s[i]]

LEMMA FlattenedExists ==
  ASSUME NEW s, NEW n \in Nat
  PROVE  \E f : Flattened(s, n, f)
  <1> DEFINE S == {k \in Nat : \E f : Flattened(s, k, f)}
             NextOf(f, i) == f[i - 1] \o s[i]
  <1>1. 0 \in S
    <2>1. PICK f : f = [i \in 1 .. 0 |-> s[1]]
      OBVIOUS
    <2>2. Flattened(s, 0, f)
      BY <2>1 DEF Flattened
    <2> QED BY <2>2
  <1>2. ASSUME NEW k \in Nat, k \in S
        PROVE  k + 1 \in S
    <2>1. PICK f : Flattened(s, k, f)
      BY <1>2
    <2>2. PICK last : last = IF k = 0 THEN s[1] ELSE NextOf(f, k + 1)
      OBVIOUS
    <2>3. PICK g : g = [i \in 1 .. (k + 1) |-> IF i = k + 1 THEN last ELSE f[i]]
      OBVIOUS
    <2>4. ASSUME NEW i \in 1 .. (k + 1)
          PROVE  g[i] = IF i = 1 THEN s[i] ELSE NextOf(g, i)
      <3>1. CASE i = k + 1 /\ k = 0
        BY <2>2, <2>3, <3>1
      <3>2. CASE i = k + 1 /\ k # 0
        <4>1. i - 1 = k /\ k \in 1 .. (k + 1) /\ k # k + 1 /\ i # 1 /\ (k + 1) - 1 = k
          BY <3>2
        <4>2. g[k] = f[k]
          BY <2>3, <4>1
        <4>3. g[i] = NextOf(f, k + 1)
          BY <2>2, <2>3, <3>2
        <4> QED BY <3>2, <4>1, <4>2, <4>3
      <3>3. CASE i \in 1 .. k
        <4>1. i # k + 1 /\ (i # 1 => i - 1 \in 1 .. (k + 1) /\ i - 1 # k + 1)
          BY <3>3
        <4>2. g[i] = f[i] /\ (i # 1 => g[i - 1] = f[i - 1])
          BY <2>3, <4>1
        <4>3. f[i] = IF i = 1 THEN s[i] ELSE NextOf(f, i)
          BY <2>1, <3>3 DEF Flattened
        <4> QED BY <4>2, <4>3
      <3> QED BY <3>1, <3>2, <3>3
    <2>5. g = [i \in 1 .. (k + 1) |-> IF i = 1 THEN s[i] ELSE NextOf(g, i)]
      <3> HIDE DEF NextOf
      <3> QED BY <2>3, <2>4
    <2>6. Flattened(s, k + 1, g)
      BY <2>5 DEF Flattened
    <2> QED BY <2>6
  <1>3. \A k \in Nat : k \in S
    <2> HIDE DEF S
    <2> QED BY <1>1, <1>2, InductionOnSet
  <1> QED BY <1>3

LEMMA ConcatElements ==
  ASSUME NEW S, NEW s \in Seq(S), NEW t \in Seq(S)
  PROVE  s \o t \in Seq(S) /\ ElemsOf(s \o t) = ElemsOf(s) \cup ElemsOf(t)
  <1>1. /\ s \o t \in Seq(S) /\ Len(s \o t) = Len(s) + Len(t)
        /\ Len(s) \in Nat /\ Len(t) \in Nat
        /\ \A i \in 1 .. Len(s) : (s \o t)[i] = s[i]
        /\ \A i \in 1 .. Len(t) : (s \o t)[Len(s) + i] = t[i]
    OBVIOUS
  <1>2. \A i \in 1 .. Len(s \o t) : i \in 1 .. Len(s) \/ \E j \in 1 .. Len(t) : i = Len(s) + j
    <2>1. PICK l \in Nat, k \in Nat : l = Len(s) /\ k = Len(t)
      BY <1>1
    <2>2. ASSUME NEW i \in 1 .. (l + k), ~(i \in 1 .. l)
          PROVE  \E j \in 1 .. k : i = l + j
      <3>1. i - l \in 1 .. k /\ i = l + (i - l)
        BY <2>2
      <3> QED BY <3>1
    <2> QED BY <1>1, <2>1, <2>2
  <1>3. \A j \in 1 .. Len(t) : Len(s) + j \in 1 .. Len(s \o t)
    BY <1>1
  <1>4. \A i \in 1 .. Len(s) : i \in 1 .. Len(s \o t)
    BY <1>1
  <1>5. ASSUME NEW x
        PROVE  x \in ElemsOf(s \o t) <=> x \in ElemsOf(s) \/ x \in ElemsOf(t)
    <2>1. CASE x \in ElemsOf(s \o t)
      <3>1. PICK i \in 1 .. Len(s \o t) : x = (s \o t)[i]
        BY <2>1 DEF ElemsOf
      <3>2. CASE i \in 1 .. Len(s)
        BY <1>1, <3>1, <3>2 DEF ElemsOf
      <3>3. CASE \E j \in 1 .. Len(t) : i = Len(s) + j
        BY <1>1, <3>1, <3>3 DEF ElemsOf
      <3> QED BY <1>2, <2>1, <3>2, <3>3
    <2>2. CASE x \in ElemsOf(s)
      <3>1. PICK i \in 1 .. Len(s) : x = s[i]
        BY <2>2 DEF ElemsOf
      <3>2. x = (s \o t)[i] /\ i \in 1 .. Len(s \o t)
        BY <1>1, <1>4, <3>1
      <3>3. x \in ElemsOf(s \o t)
        BY <3>2, Zenon DEF ElemsOf
      <3> QED BY <2>2, <3>3
    <2>3. CASE x \in ElemsOf(t)
      <3>1. PICK i \in 1 .. Len(t) : x = t[i]
        BY <2>3 DEF ElemsOf
      <3>2. x = (s \o t)[Len(s) + i] /\ Len(s) + i \in 1 .. Len(s \o t)
        BY <1>1, <1>3, <3>1
      <3>3. x \in ElemsOf(s \o t)
        BY <3>2, Zenon DEF ElemsOf
      <3> QED BY <2>3, <3>3
    <2> QED BY <2>1, <2>2, <2>3
  <1> QED BY <1>1, <1>5

LEMMA FlattenElements ==
  ASSUME NEW S, NEW s \in Seq(Seq(S))
  PROVE  /\ FlattenSeq(s) \in Seq(S)
         /\ \A x : x \in ElemsOf(FlattenSeq(s)) <=> \E i \in 1 .. Len(s) : x \in ElemsOf(s[i])
  <1>1. PICK n \in Nat : n = Len(s)
    OBVIOUS
  <1>2. CASE n = 0
    <2>1. FlattenSeq(s) = s
      BY <1>1, <1>2 DEF FlattenSeq
    <2>2. s = <<>>
      <3>1. PICK e : e = <<>>
        OBVIOUS
      <3>2. e \in Seq(Seq(S)) /\ Len(e) = 0
        BY <3>1
      <3>3. Len(s) = Len(e) /\ \A i \in 1 .. Len(s) : s[i] = e[i]
        BY <1>1, <1>2, <3>2
      <3> QED BY <3>1, <3>2, <3>3
    <2>3. s \in Seq(S)
      BY <2>2
    <2>4. \A x : x \notin ElemsOf(s)
      BY <1>1, <1>2 DEF ElemsOf
    <2> QED BY <1>1, <1>2, <2>1, <2>3, <2>4
  <1>3. CASE n # 0
    <2>1. PICK f : f = CHOOSE g : Flattened(s, n, g)
      OBVIOUS
    <2>2. Flattened(s, n, f)
      BY <2>1, FlattenedExists, Zenon
    <2>3. FlattenSeq(s) = f[n]
      BY <1>1, <1>3, <2>1, Zenon DEF FlattenSeq, Flattened
    <2> DEFINE Holds(k) == /\ f[k] \in Seq(S)
                           /\ \A x : x \in ElemsOf(f[k]) <=> \E i \in 1 .. k : x \in ElemsOf(s[i])
               T == {k \in Nat : k # 0 /\ k <= n => Holds(k)}
    <2>4. 0 \in T
      OBVIOUS
    <2>5. ASSUME NEW k \in Nat, k \in T
          PROVE  k + 1 \in T
      <3>1. SUFFICES ASSUME k + 1 <= n
                     PROVE  Holds(k + 1)
        OBVIOUS
      <3>2. k + 1 \in 1 .. n /\ s[k + 1] \in Seq(S)
        BY <1>1, <3>1
      <3>3. CASE k = 0
        <4>1. f[1] = s[1]
          BY <2>2, <3>2, <3>3 DEF Flattened
        <4> QED BY <3>2, <3>3, <4>1
      <3>4. CASE k # 0
        <4>1. Holds(k)
          BY <2>5, <3>1, <3>4
        <4>2. f[k + 1] = f[k] \o s[k + 1]
          <5>1. k + 1 # 1 /\ (k + 1) - 1 = k
            BY <3>4
          <5> QED BY <2>2, <3>2, <5>1 DEF Flattened
        <4>3. /\ f[k + 1] \in Seq(S)
              /\ ElemsOf(f[k + 1]) = ElemsOf(f[k]) \cup ElemsOf(s[k + 1])
          BY <3>2, <4>1, <4>2, ConcatElements
        <4>4. \A i : i \in 1 .. (k + 1) <=> i \in 1 .. k \/ i = k + 1
          OBVIOUS
        <4> QED BY <4>1, <4>3, <4>4
      <3> QED BY <3>3, <3>4
    <2>6. \A k \in Nat : k \in T
      <3> HIDE DEF T
      <3> QED BY <2>4, <2>5, InductionOnSet
    <2>7. Holds(n)
      <3> HIDE DEF Holds
      <3> QED BY <1>3, <2>6
    <2> QED BY <1>1, <2>3, <2>7
  <1> QED BY <1>2, <1>3

-----------------------------------------------------------------------------
(* Renumbering: the two orders list what the blocks refer to.              *)

LEMMA MapToInRange ==
  ASSUME NEW order, Len(order) \in Nat, NEW id
  PROVE  /\ MapTo(order, id) \in Nat
         /\ id \in ElemsOf(order) => MapTo(order, id) \in 1 .. Len(order)
  <1>1. CASE id \in ElemsOf(order)
    <2>1. \E i \in 1 .. Len(order) : order[i] = id
      BY <1>1 DEF ElemsOf
    <2>2. MapTo(order, id) \in 1 .. Len(order)
      BY <1>1, <2>1 DEF MapTo
    <2> QED BY <2>2
  <1>2. CASE id \notin ElemsOf(order)
    BY <1>2 DEF MapTo, INVALID
  <1> QED BY <1>1, <1>2

LEMMA MapSeqInRange ==
  ASSUME NEW order, Len(order) \in Nat, NEW s, Len(s) \in Nat
  PROVE  /\ MapSeq(order, s) \in Seq(Nat) /\ Len(MapSeq(order, s)) = Len(s)
         /\ \A i \in 1 .. Len(s) : MapSeq(order, s)[i] = MapTo(order, s[i])
  <1>1. PICK k \in Nat : k = Len(s)
    OBVIOUS
  <1>2. \A i \in 1 .. k : MapTo(order, s[i]) \in Nat
    BY MapToInRange
  <1>3. MapSeq(order, s) = [i \in 1 .. k |-> MapTo(order, s[i])]
    BY <1>1 DEF MapSeq
  <1> QED BY <1>1, <1>2, <1>3

LEMMA KeptOpsElements ==
  ASSUME NEW p, NEW U, Shaped(p, U), NEW b \in 1 .. Len(p.blocks), NEW live
  PROVE  /\ KeptOps(p, b, live) \in Seq(Nat)
         /\ \A o \in ElemsOf(KeptOps(p, b, live)) : o \in ElemsOf(p.blocks[b].ops)
  <1>1. PICK ops \in Seq(Nat) : ops = p.blocks[b].ops
    BY ShapedParts, BlockParts, Zenon
  <1>2. PICK none : none = <<>>
    OBVIOUS
  <1>3. none \in Seq(Nat) /\ Len(none) = 0
    BY <1>2
  <1> DEFINE kept(o) == IF p.ops[o].dst \in live THEN <<o>> ELSE none
  <1>4. PICK parts : parts = [i \in 1 .. Len(ops) |-> kept(ops[i])]
    OBVIOUS
  <1>5. PICK k \in Nat : k = Len(ops)
    OBVIOUS
  <1>6. \A i \in 1 .. k : ops[i] \in Nat
    BY <1>5
  <1>7. \A o \in Nat : kept(o) \in Seq(Nat) /\ \A x \in ElemsOf(kept(o)) : x = o
    <2>1. ASSUME NEW o \in Nat
          PROVE  kept(o) \in Seq(Nat) /\ \A x \in ElemsOf(kept(o)) : x = o
      <3>1. CASE p.ops[o].dst \in live
        BY <3>1 DEF ElemsOf
      <3>2. CASE p.ops[o].dst \notin live
        <4>1. kept(o) = none
          BY <3>2
        <4>2. \A x : x \notin ElemsOf(none)
          BY <1>3 DEF ElemsOf
        <4> QED BY <1>3, <4>1, <4>2
      <3> QED BY <3>1, <3>2
    <2> QED BY <2>1
  <1> HIDE DEF kept
  <1>8. parts \in Seq(Seq(Nat)) /\ Len(parts) = k /\ \A i \in 1 .. k : parts[i] = kept(ops[i])
    BY <1>4, <1>5, <1>6, <1>7
  <1>9. KeptOps(p, b, live) = FlattenSeq(parts)
    BY <1>1, <1>2, <1>4 DEF KeptOps, kept
  <1>10. ASSUME NEW o \in ElemsOf(FlattenSeq(parts))
         PROVE  o \in ElemsOf(ops)
    <2>1. PICK i \in 1 .. k : o \in ElemsOf(kept(ops[i]))
      BY <1>8, FlattenElements
    <2>2. o = ops[i]
      BY <1>6, <1>7, <2>1
    <2> QED BY <1>5, <2>2 DEF ElemsOf
  <1>11. FlattenSeq(parts) \in Seq(Nat)
    BY <1>8, FlattenElements
  <1> QED BY <1>1, <1>9, <1>10, <1>11

LEMMA SeqOfElements ==
  ASSUME NEW S, NEW T, NEW s \in Seq(S), \A x \in ElemsOf(s) : x \in T
  PROVE  s \in Seq(T)
  <1>1. \A i \in 1 .. Len(s) : s[i] \in T
    BY Zenon DEF ElemsOf
  <1> QED BY <1>1

(* The parts the two orders are concatenated from.                         *)
LEMMA PartsInBounds ==
  ASSUME NEW p, NEW U, Shaped(p, U), InBounds(p), NEW b \in 1 .. Len(p.blocks), NEW live,
         NEW kept, kept = KeptOps(p, b, live), NEW part, part = p.blocks[b].params \o DstsOf(p, kept)
  PROVE  /\ kept \in Seq(1 .. Len(p.ops)) /\ part \in Seq(1 .. Len(p.values))
         /\ \A i \in 1 .. Len(p.blocks[b].params) : p.blocks[b].params[i] \in ElemsOf(part)
         /\ \A o \in ElemsOf(kept) : p.ops[o].dst \in ElemsOf(part)
  <1>1. BlockInBounds(p, p.blocks[b])
    BY DEF InBounds
  <1>2. \A o \in ElemsOf(kept) : o \in 1 .. Len(p.ops) /\ p.ops[o].dst \in 1 .. Len(p.values)
    <2>1. SUFFICES ASSUME NEW o \in ElemsOf(kept)
                   PROVE  o \in 1 .. Len(p.ops) /\ p.ops[o].dst \in 1 .. Len(p.values)
      OBVIOUS
    <2>2. o \in ElemsOf(p.blocks[b].ops)
      BY KeptOpsElements
    <2>3. PICK i \in 1 .. Len(p.blocks[b].ops) : o = p.blocks[b].ops[i]
      BY <2>2 DEF ElemsOf
    <2> QED BY <1>1, <2>3 DEF BlockInBounds
  <1>3. kept \in Seq(1 .. Len(p.ops))
    BY <1>2, KeptOpsElements, SeqOfElements
  <1>4. PICK params : params = p.blocks[b].params
    OBVIOUS
  <1>5. params \in Seq(1 .. Len(p.values))
    <2>1. params \in Seq(Nat)
      BY <1>4, ShapedParts, BlockParts, Zenon
    <2>2. \A v \in ElemsOf(params) : v \in 1 .. Len(p.values)
      BY <1>1, <1>4 DEF ElemsOf, BlockInBounds
    <2> QED BY <2>1, <2>2, SeqOfElements
  <1>6. PICK k \in Nat : k = Len(kept)
    BY <1>3
  <1>7. PICK dsts : dsts = [i \in 1 .. k |-> p.ops[kept[i]].dst]
    OBVIOUS
  <1>8. /\ dsts \in Seq(1 .. Len(p.values)) /\ Len(dsts) = k
        /\ \A i \in 1 .. k : dsts[i] = p.ops[kept[i]].dst
    <2>1. \A i \in 1 .. k : p.ops[kept[i]].dst \in 1 .. Len(p.values)
      BY <1>2, <1>6 DEF ElemsOf
    <2> QED BY <1>7, <2>1
  <1>9. part = params \o dsts
    BY <1>4, <1>6, <1>7 DEF DstsOf
  <1>10. part \in Seq(1 .. Len(p.values)) /\ ElemsOf(part) = ElemsOf(params) \cup ElemsOf(dsts)
    BY <1>5, <1>8, <1>9, ConcatElements
  <1>11. \A o \in ElemsOf(kept) : p.ops[o].dst \in ElemsOf(dsts)
    <2>1. SUFFICES ASSUME NEW o \in ElemsOf(kept)
                   PROVE  p.ops[o].dst \in ElemsOf(dsts)
      OBVIOUS
    <2>2. PICK i \in 1 .. k : o = kept[i]
      BY <1>6 DEF ElemsOf
    <2>3. dsts[i] = p.ops[o].dst
      BY <1>8, <2>2
    <2> QED BY <1>8, <2>3 DEF ElemsOf
  <1> QED BY <1>3, <1>4, <1>10, <1>11 DEF ElemsOf

LEMMA OrdersInBounds ==
  ASSUME NEW p, NEW U, Shaped(p, U), InBounds(p), NEW live,
         NEW values, values = ValueOrder(p, live), NEW ops, ops = OpOrder(p, live)
  PROVE  /\ values \in Seq(1 .. Len(p.values)) /\ ops \in Seq(1 .. Len(p.ops))
         /\ \A b \in 1 .. Len(p.blocks) :
              /\ \A i \in 1 .. Len(p.blocks[b].params) : p.blocks[b].params[i] \in ElemsOf(values)
              /\ \A o \in ElemsOf(KeptOps(p, b, live)) : o \in ElemsOf(ops)
         /\ \A o \in ElemsOf(ops) : p.ops[o].dst \in ElemsOf(values)
  <1>1. PICK n \in Nat : n = Len(p.blocks)
    BY ShapedParts
  <1> DEFINE part(b) == p.blocks[b].params \o DstsOf(p, KeptOps(p, b, live))
             kept(b) == KeptOps(p, b, live)
  <1>2. \A b \in 1 .. n :
          /\ kept(b) \in Seq(1 .. Len(p.ops)) /\ part(b) \in Seq(1 .. Len(p.values))
          /\ \A i \in 1 .. Len(p.blocks[b].params) : p.blocks[b].params[i] \in ElemsOf(part(b))
          /\ \A o \in ElemsOf(kept(b)) : p.ops[o].dst \in ElemsOf(part(b))
    BY <1>1, PartsInBounds
  <1>3. PICK vparts : vparts = [b \in 1 .. n |-> part(b)]
    OBVIOUS
  <1>4. PICK oparts : oparts = [b \in 1 .. n |-> kept(b)]
    OBVIOUS
  <1>5. values = FlattenSeq(vparts) /\ ops = FlattenSeq(oparts)
    BY <1>1, <1>3, <1>4 DEF ValueOrder, OpOrder, ConcatBlocks
  <1> HIDE DEF part, kept
  <1>6. /\ vparts \in Seq(Seq(1 .. Len(p.values))) /\ Len(vparts) = n
        /\ \A b \in 1 .. n : vparts[b] = part(b)
    BY <1>2, <1>3
  <1>7. /\ oparts \in Seq(Seq(1 .. Len(p.ops))) /\ Len(oparts) = n
        /\ \A b \in 1 .. n : oparts[b] = kept(b)
    BY <1>2, <1>4
  <1>8. /\ values \in Seq(1 .. Len(p.values))
        /\ \A x : x \in ElemsOf(values) <=> \E b \in 1 .. n : x \in ElemsOf(part(b))
    BY <1>5, <1>6, FlattenElements
  <1>9. /\ ops \in Seq(1 .. Len(p.ops))
        /\ \A x : x \in ElemsOf(ops) <=> \E b \in 1 .. n : x \in ElemsOf(kept(b))
    BY <1>5, <1>7, FlattenElements
  <1>10. ASSUME NEW b \in 1 .. n
         PROVE  /\ \A i \in 1 .. Len(p.blocks[b].params) : p.blocks[b].params[i] \in ElemsOf(values)
                /\ \A o \in ElemsOf(KeptOps(p, b, live)) : o \in ElemsOf(ops)
    <2>1. \A i \in 1 .. Len(p.blocks[b].params) : p.blocks[b].params[i] \in ElemsOf(values)
      BY <1>2, <1>8
    <2>2. \A o \in ElemsOf(kept(b)) : o \in ElemsOf(ops)
      BY <1>9
    <2> QED BY <2>1, <2>2 DEF kept
  <1>11. \A o \in ElemsOf(ops) : p.ops[o].dst \in ElemsOf(values)
    BY <1>2, <1>8, <1>9
  <1> QED BY <1>1, <1>8, <1>9, <1>10, <1>11

-----------------------------------------------------------------------------
(* Renumbering: the new module.                                            *)

(* A renumbered block.                                                     *)
LEMMA RenumberedBlock ==
  ASSUME NEW p, NEW U, Shaped(p, U), InBounds(p), NEW live, NEW b \in 1 .. Len(p.blocks),
         NEW values, NEW ops, Len(values) \in Nat, Len(ops) \in Nat
  PROVE  /\ MapSeq(values, p.blocks[b].params) \in Seq(Nat)
         /\ MapSeq(ops, KeptOps(p, b, live)) \in Seq(Nat)
         /\ \E t : RemapBlock(p, b, values, ops, live)
                    = [params |-> MapSeq(values, p.blocks[b].params),
                       ops |-> MapSeq(ops, KeptOps(p, b, live)), term |-> t]
  <1>1. PICK params, l, term : /\ p.blocks[b] = [params |-> params, ops |-> l, term |-> term]
                               /\ params \in Seq(Nat)
    <2>1. p.blocks \in Seq(BlocksOver(U))
      BY ShapedParts
    <2>2. /\ p.blocks[b] = [params |-> p.blocks[b].params, ops |-> p.blocks[b].ops,
                            term |-> p.blocks[b].term]
          /\ p.blocks[b].params \in Seq(Nat)
      BY <2>1, BlockParts, Zenon
    <2> QED BY <2>2
  <1>2. Len(params) \in Nat /\ Len(KeptOps(p, b, live)) \in Nat
    BY KeptOpsElements
  <1>3. PICK x \in Seq(Nat) : x = MapSeq(values, params)
    BY <1>2, MapSeqInRange
  <1>4. PICK y \in Seq(Nat) : y = MapSeq(ops, KeptOps(p, b, live))
    BY <1>2, MapSeqInRange
  <1>5. PICK t : t = [term EXCEPT !.condition = IF term.kind = "CBRANCH" THEN MapTo(values, @)
                                                 ELSE @]
    OBVIOUS
  <1> DEFINE block == RemapBlock(p, b, values, ops, live)
  <1>6. block = [params |-> x, ops |-> y, term |-> t]
    <2>1. /\ p.blocks[b].params = params /\ p.blocks[b].term = term
      BY <1>1
    <2>2. block = [[params |-> params, ops |-> l, term |-> term] EXCEPT
                     !.params = MapSeq(values, @), !.ops = MapSeq(ops, KeptOps(p, b, live)),
                     !.term.condition = IF term.kind = "CBRANCH" THEN MapTo(values, @) ELSE @]
      BY <1>1, <2>1 DEF RemapBlock
    <2> QED BY <1>3, <1>4, <1>5, <2>2
  <1>7. MapSeq(values, p.blocks[b].params) = x
    BY <1>1, <1>3
  <1> HIDE DEF block
  <1>8. block = [params |-> MapSeq(values, p.blocks[b].params),
                 ops |-> MapSeq(ops, KeptOps(p, b, live)), term |-> t]
    BY <1>4, <1>6, <1>7
  <1> QED BY <1>4, <1>7, <1>8 DEF block

RenumberedTo(p, live, values, ops, n) ==
  n = [p EXCEPT
         !.values = [i \in 1 .. Len(values) |->
                       [p.values[values[i]] EXCEPT !.op = MapTo(ops, @)]],
         !.ops = [i \in 1 .. Len(ops) |->
                    [p.ops[ops[i]] EXCEPT !.dst = MapTo(values, @), !.src = MapSeq(values, @)]],
         !.blocks = [b \in 1 .. Len(p.blocks) |-> RemapBlock(p, b, values, ops, live)],
         !.term_args = remap_args(p, values)]

LEMMA RenumberedInBounds ==
  ASSUME NEW p, NEW U, Shaped(p, U), InBounds(p), NEW live,
         NEW values, values = ValueOrder(p, live), NEW ops, ops = OpOrder(p, live),
         NEW n, RenumberedTo(p, live, values, ops, n)
  PROVE  /\ \E V : Shaped(n, V)
         /\ InBounds(n)
         /\ Len(n.values) = Len(values) /\ Len(n.ops) = Len(ops)
  <1>1. /\ values \in Seq(1 .. Len(p.values)) /\ ops \in Seq(1 .. Len(p.ops))
        /\ \A b \in 1 .. Len(p.blocks) :
             /\ \A i \in 1 .. Len(p.blocks[b].params) : p.blocks[b].params[i] \in ElemsOf(values)
             /\ \A o \in ElemsOf(KeptOps(p, b, live)) : o \in ElemsOf(ops)
        /\ \A o \in ElemsOf(ops) : p.ops[o].dst \in ElemsOf(values)
    BY OrdersInBounds
  <1>2. PICK vs, os, bs, as :
          /\ vs = Len(values) /\ os = Len(ops) /\ bs = Len(p.blocks) /\ as = Len(p.term_args)
          /\ vs \in Nat /\ os \in Nat /\ bs \in Nat /\ as \in Nat
    <2>1. Len(values) \in Nat /\ Len(ops) \in Nat
      BY <1>1
    <2>2. Len(p.blocks) \in Nat /\ Len(p.term_args) \in Nat
      BY ShapedParts
    <2> QED BY <2>1, <2>2
  <1> DEFINE value(i) == [p.values[values[i]] EXCEPT !.op = MapTo(ops, @)]
             op(i) == [p.ops[ops[i]] EXCEPT !.dst = MapTo(values, @), !.src = MapSeq(values, @)]
             block(b) == RemapBlock(p, b, values, ops, live)
             arg(i) == remap_args(p, values)[i]
             V == U \cup {value(i) : i \in 1 .. vs}
                    \cup {MapSeq(values, p.ops[ops[i]].src) : i \in 1 .. os}
                    \cup {block(b).term : b \in 1 .. bs} \cup {arg(i) : i \in 1 .. as}
  <1>3. PICK nvalues : nvalues = [i \in 1 .. vs |-> value(i)]
    OBVIOUS
  <1>4. PICK nops : nops = [i \in 1 .. os |-> op(i)]
    OBVIOUS
  <1>5. PICK nblocks : nblocks = [b \in 1 .. bs |-> block(b)]
    OBVIOUS
  <1>6. PICK nargs : nargs = remap_args(p, values)
    OBVIOUS
  <1>7. n = [p EXCEPT !.values = nvalues, !.ops = nops, !.blocks = nblocks, !.term_args = nargs]
    BY <1>2, <1>3, <1>4, <1>5, <1>6, Zenon DEF RenumberedTo
  <1>8. \A i \in 1 .. os : /\ op(i) \in OpsOver(V)
                           /\ op(i).dst = MapTo(values, p.ops[ops[i]].dst)
    <2>1. ASSUME NEW i \in 1 .. os
          PROVE  op(i) \in OpsOver(V) /\ op(i).dst = MapTo(values, p.ops[ops[i]].dst)
      <3>1. ops[i] \in 1 .. Len(p.ops)
        BY <1>1, <1>2
      <3>2. PICK old : old = p.ops[ops[i]]
        OBVIOUS
      <3>3. old \in OpsOver(U)
        BY <3>1, <3>2, OpParts
      <3>4. PICK src : src = MapSeq(values, old.src)
        OBVIOUS
      <3>5. src \in V /\ U \subseteq V
        BY <3>2, <3>4
      <3>6. PICK dst \in Nat : dst = MapTo(values, old.dst)
        BY <1>2, MapToInRange
      <3>7. op(i) = [old EXCEPT !.dst = dst, !.src = src]
        BY <3>2, <3>3, <3>4, <3>6 DEF OpsOver
      <3> HIDE DEF V, op
      <3>8. op(i) \in OpsOver(V) /\ op(i).dst = dst
        BY <3>3, <3>5, <3>7 DEF OpsOver
      <3> QED BY <3>2, <3>6, <3>8
    <2> QED BY <2>1, Zenon
  <1>9. \A b \in 1 .. bs : /\ block(b) \in BlocksOver(V)
                           /\ block(b).params = MapSeq(values, p.blocks[b].params)
                           /\ block(b).ops = MapSeq(ops, KeptOps(p, b, live))
    <2>1. \A b \in 1 .. bs : block(b).term \in V
      OBVIOUS
    <2> HIDE DEF V
    <2>2. ASSUME NEW b \in 1 .. bs
          PROVE  /\ block(b) \in BlocksOver(V)
                 /\ block(b).params = MapSeq(values, p.blocks[b].params)
                 /\ block(b).ops = MapSeq(ops, KeptOps(p, b, live))
      <3>1. PICK x : x = block(b)
        OBVIOUS
      <3>2. x.term \in V
        BY <2>1, <3>1
      <3>3. x = RemapBlock(p, b, values, ops, live)
        BY <3>1
      <3>4. b \in 1 .. Len(p.blocks) /\ Len(values) \in Nat /\ Len(ops) \in Nat
        BY <1>2
      <3> HIDE DEF block
      <3>5. PICK params \in Seq(Nat) : params = MapSeq(values, p.blocks[b].params)
        BY <3>4, RenumberedBlock
      <3>6. PICK l \in Seq(Nat) : l = MapSeq(ops, KeptOps(p, b, live))
        BY <3>4, RenumberedBlock
      <3>7. PICK t : x = [params |-> params, ops |-> l, term |-> t]
        BY <3>3, <3>4, <3>5, <3>6, RenumberedBlock
      <3>8. x \in BlocksOver(V) /\ x.params = params /\ x.ops = l
        BY <3>2, <3>7 DEF BlocksOver
      <3> QED BY <3>1, <3>5, <3>6, <3>8
    <2> QED BY <2>2
  <1>10. /\ \A i \in 1 .. vs : value(i) \in V
         /\ \A i \in 1 .. as : nargs[i] \in V
         /\ U \subseteq V
    BY <1>6
  <1>11. nargs \in Seq(V)
    <2>1. nargs = [i \in 1 .. as |-> nargs[i]]
      BY <1>2, <1>6, Zenon DEF remap_args
    <2> HIDE DEF V
    <2>2. nargs \in [1 .. as -> V]
      BY <1>10, <2>1, Zenon
    <2> QED BY <1>2, <2>2
  <1> HIDE DEF V, value, op, block, arg
  <1>12. /\ nvalues \in Seq(V) /\ Len(nvalues) = vs
    BY <1>2, <1>3, <1>10
  <1>13. /\ nops \in Seq(OpsOver(V)) /\ Len(nops) = os
         /\ \A i \in 1 .. os : nops[i].dst = MapTo(values, p.ops[ops[i]].dst)
    BY <1>2, <1>4, <1>8
  <1>14. /\ nblocks \in Seq(BlocksOver(V)) /\ Len(nblocks) = bs
         /\ \A b \in 1 .. bs : /\ nblocks[b].params = MapSeq(values, p.blocks[b].params)
                               /\ nblocks[b].ops = MapSeq(ops, KeptOps(p, b, live))
    BY <1>2, <1>5, <1>9
  <1>15. Shaped(p, V)
    BY <1>10, ShapedMono
  <1>16. /\ Shaped(n, V) /\ n.values = nvalues /\ n.ops = nops /\ n.blocks = nblocks
    BY <1>7, <1>11, <1>12, <1>13, <1>14, <1>15 DEF Shaped
  <1>17. \A i \in 1 .. os : nops[i].dst \in 1 .. vs
    <2>1. \A i \in 1 .. os : p.ops[ops[i]].dst \in ElemsOf(values)
      BY <1>1, <1>2 DEF ElemsOf
    <2> QED BY <1>2, <1>13, <2>1, MapToInRange
  <1>18. ASSUME NEW b \in 1 .. bs
         PROVE  BlockInBounds(n, nblocks[b])
    <2>1. PICK params \in Seq(Nat) : params = p.blocks[b].params
      BY <1>2, ShapedParts, BlockParts, Zenon
    <2>2. PICK kept \in Seq(Nat) : kept = KeptOps(p, b, live)
      BY <1>2, KeptOpsElements
    <2>3. /\ Len(nblocks[b].params) = Len(params)
          /\ \A i \in 1 .. Len(params) : nblocks[b].params[i] = MapTo(values, params[i])
      <3>1. nblocks[b].params = MapSeq(values, params)
        BY <1>14, <2>1
      <3>2. Len(values) \in Nat /\ Len(params) \in Nat
        BY <1>2
      <3> QED BY <3>1, <3>2, MapSeqInRange
    <2>4. /\ Len(nblocks[b].ops) = Len(kept)
          /\ \A i \in 1 .. Len(kept) : nblocks[b].ops[i] = MapTo(ops, kept[i])
      <3>1. nblocks[b].ops = MapSeq(ops, kept)
        BY <1>14, <2>2
      <3>2. Len(ops) \in Nat /\ Len(kept) \in Nat
        BY <1>2
      <3> QED BY <3>1, <3>2, MapSeqInRange
    <2>5. \A i \in 1 .. Len(params) : MapTo(values, params[i]) \in 1 .. vs
      BY <1>1, <1>2, <2>1, MapToInRange
    <2>6. \A i \in 1 .. Len(kept) : MapTo(ops, kept[i]) \in 1 .. os
      <3>1. \A i \in 1 .. Len(kept) : kept[i] \in ElemsOf(ops)
        BY <1>1, <1>2, <2>2 DEF ElemsOf
      <3> QED BY <1>2, <3>1, MapToInRange
    <2>7. Len(n.values) = vs /\ Len(n.ops) = os
      BY <1>12, <1>13, <1>16
    <2>8. \A i \in 1 .. Len(nblocks[b].params) : nblocks[b].params[i] \in 1 .. vs
      BY <2>3, <2>5
    <2>9. \A i \in 1 .. Len(nblocks[b].ops) : nblocks[b].ops[i] \in 1 .. os
      BY <2>4, <2>6, Zenon
    <2> QED BY <1>16, <1>17, <2>7, <2>8, <2>9 DEF BlockInBounds
  <1>19. InBounds(n)
    BY <1>14, <1>16, <1>18 DEF InBounds
  <1> QED BY <1>2, <1>12, <1>13, <1>16, <1>19

-----------------------------------------------------------------------------
(* Canonicalization as a whole.                                            *)

(* Rewriting operations keeps the identifiers in their arrays.             *)
LEMMA RewrittenInBounds ==
  ASSUME NEW a, NEW n, Rewritten(a, n), InBounds(a)
  PROVE  InBounds(n)
  BY DEF Rewritten, InBounds, BlockInBounds

(* compact_live_values leaves the module as it is or renumbers it.         *)
LEMMA CompactResult ==
  ASSUME NEW p, NEW fault, NEW n, n = eliminate_dead_values(p, fault).m
  PROVE  \/ n = p
         \/ \E live, values, ops :
              /\ values = ValueOrder(p, live) /\ ops = OpOrder(p, live)
              /\ RenumberedTo(p, live, values, ops, n)
              /\ ~(Len(values) = Len(p.values) /\ Len(ops) = Len(p.ops))
  <1>1. PICK live : live = LiveValues(p)
    OBVIOUS
  <1>2. PICK values, ops : values = ValueOrder(p, live) /\ ops = OpOrder(p, live)
    OBVIOUS
  <1>3. CASE fault = "live"
    BY <1>3 DEF eliminate_dead_values, Reject, Ret
  <1>4. CASE fault # "live"
    <2>1. n = Renumber(p, live, values, ops, fault).m
      BY <1>1, <1>2, <1>4, Zenon DEF eliminate_dead_values, compact_live_values
    <2>2. CASE fault \in {"maps", "arrays"} \/ (Len(values) = Len(p.values) /\ Len(ops) = Len(p.ops))
      BY <2>1, <2>2 DEF Renumber, Reject, Ret
    <2>3. CASE fault \notin {"maps", "arrays"} /\ ~(Len(values) = Len(p.values) /\ Len(ops) = Len(p.ops))
      <3>1. RenumberedTo(p, live, values, ops, n)
        BY <2>1, <2>3, Zenon DEF Renumber, Ret, RenumberedTo
      <3> QED BY <1>2, <2>3, <3>1
    <2> QED BY <2>2, <2>3
  <1> QED BY <1>3, <1>4

LEMMA CanonicalizeResult ==
  ASSUME NEW a, NEW fault, NEW n, n = xair_canonicalize_module(a, fault).m
  PROVE  \/ n = a
         \/ n = eliminate_dead_values(canonicalize_local_ops(value_number_clear(a)), fault).m
  <1>1. PICK r : r = eliminate_dead_values(canonicalize_local_ops(value_number_clear(a)), fault)
    OBVIOUS
  <1>2. VerifyAgain(r, fault).m = r.m
    BY DEF VerifyAgain, Reject, Ret
  <1>3. n = a \/ n = VerifyAgain(r, fault).m
    BY <1>1 DEF xair_canonicalize_module, Reject, Ret
  <1> QED BY <1>1, <1>2, <1>3

(* Canonicalizing renumbers everything consistently, or nothing.           *)
LEMMA CanonicalizeKeeps ==
  ASSUME NEW a, NEW U, Shaped(a, U), InBounds(a), NEW fault,
         NEW n, n = xair_canonicalize_module(a, fault).m
  PROVE  /\ \E V : Shaped(n, V)
         /\ InBounds(n)
         /\ n.values = a.values /\ n.ops = a.ops => n.term_args = a.term_args
  <1>1. PICK c : c = value_number_clear(a)
    OBVIOUS
  <1>2. /\ c.values = a.values /\ c.ops = a.ops /\ c.blocks = a.blocks
        /\ c.term_args = a.term_args /\ Shaped(c, U)
    BY <1>1 DEF value_number_clear, Shaped
  <1>3. InBounds(c)
    BY <1>2 DEF InBounds, BlockInBounds
  <1>4. PICK p : p = canonicalize_local_ops(c)
    OBVIOUS
  <1>5. Rewritten(c, p)
    BY <1>2, <1>4, LocalOpsRewrites
  <1>6. InBounds(p)
    BY <1>3, <1>5, RewrittenInBounds
  <1>7. PICK V : Shaped(p, V)
    BY <1>5 DEF Rewritten
  <1>8. /\ Len(p.values) = Len(a.values) /\ Len(p.ops) = Len(a.ops)
        /\ p.term_args = a.term_args
    BY <1>2, <1>5 DEF Rewritten
  <1>9. CASE n = a
    BY <1>9
  <1>10. CASE n = p
    BY <1>6, <1>7, <1>8, <1>10
  <1>11. CASE n # a /\ n # p
    <2>1. n = eliminate_dead_values(p, fault).m
      BY <1>1, <1>4, <1>11, CanonicalizeResult
    <2>2. PICK live, values, ops :
            /\ values = ValueOrder(p, live) /\ ops = OpOrder(p, live)
            /\ RenumberedTo(p, live, values, ops, n)
            /\ ~(Len(values) = Len(p.values) /\ Len(ops) = Len(p.ops))
      BY <1>11, <2>1, CompactResult
    <2>3. /\ \E W : Shaped(n, W)
          /\ InBounds(n)
          /\ Len(n.values) = Len(values) /\ Len(n.ops) = Len(ops)
      BY <1>6, <1>7, <2>2, RenumberedInBounds
    <2> QED BY <1>8, <2>2, <2>3
  <1> QED BY <1>9, <1>10, <1>11

(* What the verifier accepts is in bounds.                                 *)
LEMMA VerifiedInBounds ==
  ASSUME NEW a, xair_verify_module(a)
  PROVE  InBounds(a)
  <1>1. ASSUME NEW b \in 1 .. Len(a.blocks)
        PROVE  BlockInBounds(a, a.blocks[b])
    <2>1. VerifyParams(a, b) /\ \A i \in 1 .. Len(a.blocks[b].ops) :
                                  VerifyDestination(a, b, a.blocks[b].ops[i])
      BY DEF xair_verify_module, VerifyBlock
    <2> QED BY <2>1, Zenon DEF VerifyParams, VerifyDestination, valid_value, valid_op, ElemsOf, BlockInBounds
  <1> QED BY <1>1, Zenon DEF InBounds

-----------------------------------------------------------------------------
(* The client's calls between runs.                                        *)

(* What building does to the module, and canonicalizing it.                *)
LEMMA BuildingBuilds ==
  ASSUME NEW U, Shaped(m, U), AddBlock \/ AddValue \/ EndBlock \/ Freeze
  PROVE  Builds(m, m')
  <1>1. CASE AddBlock
    BY <1>1, BlockCreateBuilds DEF AddBlock
  <1>2. CASE AddValue
    BY <1>2, BuildConstBuilds, AddParamBuilds DEF AddValue
  <1>3. CASE EndBlock
    <2>1. Len(m.values) \in Nat
      BY ShapedParts
    <2>2. PICK args : args = <<Len(m.values)>>
      OBVIOUS
    <2>3. args \in Seq(Nat) /\ <<>> \in Seq(Nat)
      BY <2>1, <2>2
    <2>4. \E b \in 1 .. Len(m.blocks) :
            \/ m' = xair_set_return(m, b, args, "none").m
            \/ \E t \in {2, b} : m' = xair_set_jump(m, b, t, <<>>, "none").m
      BY <1>3, <2>2, Zenon DEF EndBlock
    <2> QED BY <2>3, <2>4, TermBuilds
  <1>4. CASE Freeze
    BY <1>4, FreezeBuilds DEF Freeze
  <1> QED BY <1>1, <1>2, <1>3, <1>4

-----------------------------------------------------------------------------
(* The executor stays within its arrays.                                   *)

BoundsInv ==
  /\ created => /\ \E U : Shaped(m, U)
                /\ InBounds(m)
                /\ defined \subseteq 1 .. Len(made.values)
  /\ running => /\ created /\ Len(m.values) = Len(made.values)
                /\ valid_block(m, current)
                /\ ~entering => idx \in Nat \ {0}
  /\ ~created => made = m /\ m \in Programs /\ defined = {}

LEMMA InBoundsHere ==
  ASSUME BoundsInv, running
  PROVE  /\ current \in 1 .. Len(m.blocks) /\ Len(m.values) = Len(made.values)
         /\ \A b \in 1 .. Len(m.blocks) : BlockInBounds(m, m.blocks[b])
  BY Zenon DEF BoundsInv, valid_block, InBounds

LEMMA BoundsStay ==
  ASSUME BoundsInv, m' = m, made' = made, created' = created,
         created => defined' \subseteq 1 .. Len(made.values),
         ~created => defined' = defined,
         running' => /\ created /\ Len(m.values) = Len(made.values)
                     /\ valid_block(m, current')
                     /\ ~entering' => idx' \in Nat \ {0}
  PROVE  BoundsInv'
  BY DEF BoundsInv, Shaped, InBounds, BlockInBounds, valid_block

LEMMA ProduceBounds ==
  ASSUME BoundsInv, AtOp, NEW x, Produce(x), m' = m, made' = made, created' = created
  PROVE  BoundsInv'
  <1>1. /\ running /\ ~entering /\ idx \in Nat \ {0} /\ idx <= Len(m.blocks[current].ops)
        /\ created
    BY DEF AtOp, InBlock, Here, BoundsInv
  <1>2. PICK U : Shaped(m, U)
    BY <1>1 DEF BoundsInv
  <1>3. Len(m.blocks[current].ops) \in Nat
    BY <1>1, <1>2, InBoundsHere, ShapedParts, BlockParts
  <1>4. Op.dst \in 1 .. Len(made.values)
    <2>1. idx \in 1 .. Len(m.blocks[current].ops)
      BY <1>1, <1>3
    <2>2. BlockInBounds(m, m.blocks[current]) /\ Len(m.values) = Len(made.values)
      BY <1>1, InBoundsHere
    <2>3. m.ops[m.blocks[current].ops[idx]].dst \in 1 .. Len(m.values)
      BY <2>1, <2>2 DEF BlockInBounds
    <2> QED BY <2>2, <2>3 DEF Op, Here
  <1>5. defined' \subseteq 1 .. Len(made.values)
    BY <1>1, <1>4 DEF Produce, BoundsInv
  <1>6. /\ running' = running /\ entering' = entering /\ current' = current /\ idx' = idx + 1
    BY DEF Produce
  <1>7. valid_block(m, current') /\ Len(m.values) = Len(made.values) /\ idx' \in Nat \ {0}
    BY <1>1, <1>6, InBoundsHere DEF valid_block
  <1> QED BY <1>1, <1>5, <1>7, BoundsStay

LEMMA StopBounds ==
  ASSUME BoundsInv, running' = FALSE, defined' = defined, m' = m, made' = made, created' = created
  PROVE  BoundsInv'
  <1>1. created => defined' \subseteq 1 .. Len(made.values)
    BY DEF BoundsInv
  <1> QED BY <1>1, BoundsStay

LEMMA TransferBounds ==
  ASSUME BoundsInv, InBlock, NEW target, NEW args, NEW oom, exec_transfer_args(target, args, oom),
         m' = m, made' = made, created' = created
  PROVE  BoundsInv'
  <1> DEFINE cause == TransferCause(target, args, oom)
             params == m.blocks[target].params
  <1>1. running /\ created /\ Len(m.values) = Len(made.values)
    BY DEF InBlock, BoundsInv
  <1>2. PICK U : Shaped(m, U)
    BY <1>1 DEF BoundsInv
  <1>3. CASE cause \notin {"ok", "type"}
    BY <1>3, StopBounds DEF exec_transfer_args, NoValue, Abort
  <1>4. ASSUME cause \in {"ok", "type"}
        PROVE  /\ valid_block(m, target)
               /\ Len(params) \in Nat
               /\ ElemsOf(params) \subseteq 1 .. Len(made.values)
    <2>1. target \in 1 .. Len(m.blocks)
      BY <1>4 DEF TransferCause, valid_block
    <2>2. BlockInBounds(m, m.blocks[target])
      BY <1>1, <2>1, InBoundsHere
    <2>3. params \in Seq(Nat)
      BY <1>2, <2>1, ShapedParts, BlockParts, Zenon
    <2>4. \A i \in 1 .. Len(params) : params[i] \in 1 .. Len(m.values)
      BY <2>2 DEF BlockInBounds
    <2>5. Len(params) \in Nat
      BY <2>3
    <2> HIDE DEF params
    <2>6. ElemsOf(params) \subseteq 1 .. Len(made.values)
      BY <1>1, <2>4 DEF ElemsOf
    <2> QED BY <2>1, <2>5, <2>6 DEF valid_block
  <1>5. defined \subseteq 1 .. Len(made.values)
    BY <1>1 DEF BoundsInv
  <1>6. CASE cause = "type"
    <2>1. PICK n \in 0 .. Len(params) :
            defined' = defined \cup ElemsOf(SubSeq(params, 1, n))
      BY <1>6 DEF exec_transfer_args
    <2>2. running' = FALSE
      BY <1>6 DEF exec_transfer_args, Abort
    <2>3. ElemsOf(SubSeq(params, 1, n)) \subseteq ElemsOf(params)
      BY <1>4, <1>6 DEF ElemsOf
    <2>4. defined' \subseteq 1 .. Len(made.values)
      BY <1>4, <1>5, <1>6, <2>1, <2>3
    <2> QED BY <1>1, <2>2, <2>4, BoundsStay
  <1>7. CASE cause = "ok"
    <2>1. /\ defined' = defined \cup ElemsOf(params)
          /\ current' = target /\ entering' = TRUE
      BY <1>7 DEF exec_transfer_args
    <2>2. defined' \subseteq 1 .. Len(made.values) /\ valid_block(m, current')
      BY <1>4, <1>5, <1>7, <2>1
    <2> QED BY <1>1, <2>1, <2>2, BoundsStay
  <1> QED BY <1>3, <1>6, <1>7

LEMMA StepBounds ==
  ASSUME BoundsInv, LiveStep
  PROVE  BoundsInv'
  <1>1. Step /\ made' = made
    BY DEF LiveStep
  <1>2. m' = m /\ created' = created
    BY <1>1 DEF Step, EnterBlock, ExecConst, ExecScalar, ExecLoad, ExecStore, ExecStoreFails,
                ExecJump, ExecCbranch, ExecReturn, ExecStop
  <1>3. CASE EnterBlock
    <2>1. running /\ entering /\ defined' = defined
      BY <1>3 DEF EnterBlock
    <2>2. running' = FALSE \/ (current' = current /\ idx' = 1)
      BY <1>3 DEF EnterBlock, Halt
    <2>3. /\ created /\ Len(m.values) = Len(made.values) /\ valid_block(m, current)
          /\ defined' \subseteq 1 .. Len(made.values)
      BY <2>1 DEF BoundsInv
    <2> QED BY <1>1, <1>2, <2>2, <2>3, BoundsStay
  <1>4. CASE ExecConst \/ ExecScalar \/ ExecLoad \/ ExecStore \/ ExecStoreFails
    <2>1. AtOp
      BY <1>4 DEF ExecConst, ExecScalar, ExecLoad, ExecStore, ExecStoreFails
    <2>2. (\E x : Produce(x)) \/ (\E cause : GiveUp(cause))
      BY <1>4 DEF ExecConst, ExecScalar, ExecLoad, ExecStore, ExecStoreFails
    <2>3. ASSUME NEW cause, GiveUp(cause)
          PROVE  running' = FALSE /\ defined' = defined
      BY <2>3 DEF GiveUp, NoValue, Halt, Abort
    <2> QED BY <1>1, <1>2, <2>1, <2>2, <2>3, ProduceBounds, StopBounds
  <1>5. CASE ExecJump
    <2>1. /\ InBlock
          /\ \E oom \in BOOLEAN : exec_transfer_args(Here.term.true_target, TrueArgs(m, current), oom)
      BY <1>5 DEF ExecJump, AtTerm
    <2> QED BY <1>1, <1>2, <2>1, TransferBounds
  <1>6. CASE ExecCbranch
    <2>1. InBlock
      BY <1>6 DEF ExecCbranch, AtTerm
    <2>2. \/ running' = FALSE /\ defined' = defined
          \/ \E oom \in BOOLEAN : exec_transfer_args(TakenTarget, TakenArgs, oom)
      BY <1>6 DEF ExecCbranch, NoValue, Abort
    <2> QED BY <1>1, <1>2, <2>1, <2>2, TransferBounds, StopBounds
  <1>7. CASE ExecReturn \/ ExecStop
    <2>1. running' = FALSE /\ defined' = defined
      BY <1>7 DEF ExecReturn, ExecStop, NoValue, Halt, Abort
    <2> QED BY <1>1, <1>2, <2>1, StopBounds
  <1> QED BY <1>1, <1>3, <1>4, <1>5, <1>6, <1>7 DEF Step

LEMMA ChangeBounds ==
  ASSUME BoundsInv, AddBlock \/ AddValue \/ EndBlock \/ Canonicalize \/ Freeze
  PROVE  BoundsInv'
  <1>1. /\ created /\ ~running /\ created' = created /\ running' = running
        /\ defined' = defined /\ made' = made
    BY DEF AddBlock, AddValue, EndBlock, Canonicalize, Freeze, Building, execVars, control
  <1>2. PICK U : Shaped(m, U) /\ InBounds(m)
    BY <1>1 DEF BoundsInv
  <1>3. (\E V : Shaped(m', V)) /\ InBounds(m')
    <2>1. CASE AddBlock \/ AddValue \/ EndBlock \/ Freeze
      BY <1>2, <2>1, BuildingBuilds DEF Builds
    <2>2. CASE Canonicalize
      BY <1>2, <2>2, CanonicalizeKeeps DEF Canonicalize
    <2> QED BY <2>1, <2>2
  <1>4. (\E V : Shaped(m, V))' /\ InBounds(m)'
    BY <1>3 DEF Shaped, InBounds, BlockInBounds
  <1> QED BY <1>1, <1>4 DEF BoundsInv

LEMMA BoundsInvHolds == LiveSpec => []BoundsInv
  <1>1. LiveInit => BoundsInv
    BY DEF LiveInit, Init, BoundsInv
  <1>2. ASSUME BoundsInv, [LiveNext]_liveVars
        PROVE  BoundsInv'
    <2>1. CASE LiveCreate
      <3>1. /\ m' = m /\ made' = m /\ defined' = defined /\ running' = running /\ ~created
            /\ created' => xair_verify_module(m)
        BY <2>1 DEF LiveCreate, StateCreate, control
      <3>2. m \in Programs /\ ~running /\ defined = {}
        BY <1>2, <3>1 DEF BoundsInv
      <3>3. created' => (\E U : Shaped(m, U)) /\ InBounds(m)
        <4>1. m \in Modules
          BY <3>2, ExecAssumption
        <4> QED BY <3>1, <4>1, ModulesShaped, VerifiedInBounds
      <3> QED BY <3>1, <3>2, <3>3 DEF BoundsInv, Shaped, InBounds, BlockInBounds
    <2>2. CASE LiveSetParam
      <3>1. /\ m' = m /\ made' = made /\ created /\ created' = created
            /\ ~running /\ running' = running
            /\ defined' = defined \/ \E v \in 1 .. Len(made.values) : defined' = defined \cup {v}
        BY <2>2 DEF LiveSetParam, exec_check_value_slot, control
      <3>2. defined' \subseteq 1 .. Len(made.values)
        BY <1>2, <3>1 DEF BoundsInv
      <3> QED BY <1>2, <3>1, <3>2, BoundsStay
    <2>3. CASE LiveRun
      <3>1. /\ m' = m /\ made' = made /\ created /\ created' = created /\ defined' = defined
            /\ ~running
        BY <2>3 DEF LiveRun, Run
      <3>2. running' => /\ Len(m.values) = Len(made.values)
                        /\ valid_block(m, current') /\ entering'
        BY <2>3, <3>1 DEF LiveRun, Run, control
      <3>3. defined' \subseteq 1 .. Len(made.values)
        BY <1>2, <3>1 DEF BoundsInv
      <3> QED BY <1>2, <3>1, <3>2, <3>3, BoundsStay
    <2>4. CASE UNCHANGED liveVars
      <3>1. /\ m' = m /\ made' = made /\ created' = created /\ defined' = defined
            /\ running' = running /\ entering' = entering /\ current' = current /\ idx' = idx
        BY <2>4 DEF liveVars, vars, control
      <3> QED BY <1>2, <3>1 DEF BoundsInv, Shaped, InBounds, BlockInBounds, valid_block
    <2> QED BY <1>2, <2>1, <2>2, <2>3, <2>4, StepBounds, ChangeBounds, Zenon DEF LiveNext
  <1> QED BY <1>1, <1>2, PTL DEF LiveSpec

(* Whatever the client does to the module under a state (building,         *)
(* freezing or a renumbering canonicalization) and whatever it runs, the   *)
(* executor's accesses stay within the arrays sized when the state was     *)
(* made: the comparison of value_count in xair_exec_run is enough for      *)
(* that, for modules and histories of any size.                            *)
THEOREM StateInBoundsAlways == LiveSpec => []StateInBounds
  <1>1. ASSUME BoundsInv
        PROVE  StateInBounds
    <2>1. SUFFICES ASSUME created PROVE StateInBounds
      BY DEF StateInBounds
    <2>2. defined \subseteq 1 .. Len(made.values)
      BY <1>1, <2>1 DEF BoundsInv
    <2>3. ASSUME running
          PROVE  /\ valid_block(m, current)
                 /\ \A b \in {current} : \A i \in 1 .. Len(m.blocks[b].ops) :
                      m.ops[m.blocks[b].ops[i]].dst \in 1 .. Len(made.values)
      BY <1>1, <2>3, InBoundsHere DEF BlockInBounds, valid_block
    <2> QED BY <2>2, <2>3 DEF StateInBounds
  <1> QED BY <1>1, BoundsInvHolds, PTL

-----------------------------------------------------------------------------
(* What was verified stays verified while the module grows.                *)

(* The blocks of p are as they were in n, and n has its values, operations *)
(* and arguments, and perhaps more.                                        *)
Agrees(p, n) ==
  /\ Longer(p.values, n.values) /\ Longer(p.ops, n.ops) /\ Longer(p.term_args, n.term_args)
  /\ Len(p.blocks) <= Len(n.blocks)
  /\ \A b \in 1 .. Len(p.blocks) : n.blocks[b] = p.blocks[b]

LEMMA AgreeParts ==
  ASSUME NEW p, NEW U, Shaped(p, U), NEW n, NEW V, Shaped(n, V), Agrees(p, n)
  PROVE  /\ \A v : valid_value(p, v) => valid_value(n, v) /\ n.values[v] = p.values[v]
         /\ \A o : valid_op(p, o) => valid_op(n, o) /\ n.ops[o] = p.ops[o]
         /\ \A b : valid_block(p, b) => valid_block(n, b) /\ n.blocks[b] = p.blocks[b]
         /\ \A i \in 1 .. Len(p.term_args) : n.term_args[i] = p.term_args[i]
         /\ \A v : value_is_global_const(p, v) => value_is_global_const(n, v)
  <1>1. /\ Len(p.values) \in Nat /\ Len(p.ops) \in Nat /\ Len(p.blocks) \in Nat
        /\ Len(n.values) \in Nat /\ Len(n.ops) \in Nat /\ Len(n.blocks) \in Nat
    BY ShapedParts
  <1>2. \A v : valid_value(p, v) => valid_value(n, v) /\ n.values[v] = p.values[v]
    BY <1>1 DEF Agrees, Longer, valid_value
  <1>3. \A o : valid_op(p, o) => valid_op(n, o) /\ n.ops[o] = p.ops[o]
    BY <1>1 DEF Agrees, Longer, valid_op
  <1>4. \A b : valid_block(p, b) => valid_block(n, b) /\ n.blocks[b] = p.blocks[b]
    BY <1>1 DEF Agrees, valid_block
  <1>5. \A i \in 1 .. Len(p.term_args) : n.term_args[i] = p.term_args[i]
    BY DEF Agrees, Longer
  <1>6. \A v : value_is_global_const(p, v) => value_is_global_const(n, v)
    BY <1>2, <1>3 DEF value_is_global_const
  <1> QED BY <1>2, <1>3, <1>4, <1>5, <1>6

(* Two operations of one opcode whose operands have the same types are     *)
(* both accepted or both rejected.                                         *)
LEMMA OpVerifiesAlike ==
  ASSUME NEW p, NEW n, NEW old, NEW op, op.opcode = old.opcode, op.opcode \in Opcodes,
         Len(op.src) = Len(old.src), old.src = <<>> => op.src = <<>>,
         TypeOf(n, op.dst) = TypeOf(p, old.dst),
         \A i \in 1 .. Len(old.src) : TypeOf(n, op.src[i]) = TypeOf(p, old.src[i]),
         verify_op(p, old)
  PROVE  verify_op(n, op)
  <1>1. is_value_type(TypeOf(n, op.dst))
    BY DEF verify_op
  <1>2. CASE op.opcode = "CONST_U64"
    <2>1. op.opcode \notin UnaryOps /\ op.opcode \notin {"LOAD", "STORE"}
          /\ op.opcode \notin BinaryOps
      BY <1>2 DEF UnaryOps, FlagReads, BinaryOps, ArithOps, ShiftOps, UnsignedCompares,
                  SignedCompares, AddrOps, FlagPairs
    <2>2. old.src = <<>>
      BY <1>2, <2>1 DEF verify_op
    <2>3. op.src = <<>>
      BY <2>2
    <2> QED BY <1>1, <1>2, <2>1, <2>3 DEF verify_op
  <1>3. CASE op.opcode \in UnaryOps
    <2>1. op.opcode \notin {"CONST_U64", "LOAD", "STORE"} /\ op.opcode \notin BinaryOps
      BY <1>3 DEF UnaryOps, FlagReads, BinaryOps, ArithOps, ShiftOps, UnsignedCompares,
                  SignedCompares, AddrOps, FlagPairs
    <2>2. Len(old.src) = 1 /\ verify_unary_op(p, old)
      BY <1>3, <2>1 DEF verify_op
    <2>3. TypeOf(n, op.src[1]) = TypeOf(p, old.src[1])
      BY <2>2
    <2>4. verify_unary_op(n, op)
      BY <2>2, <2>3, Zenon DEF verify_unary_op
    <2> QED BY <1>1, <1>3, <2>1, <2>2, <2>4 DEF verify_op
  <1>4. CASE op.opcode \in {"LOAD", "STORE"}
    <2>1. op.opcode # "CONST_U64" /\ op.opcode \notin UnaryOps /\ op.opcode \notin BinaryOps
      BY <1>4 DEF UnaryOps, FlagReads, BinaryOps, ArithOps, ShiftOps, UnsignedCompares,
                  SignedCompares, AddrOps, FlagPairs
    <2>2. /\ op.opcode = "LOAD" => Len(old.src) = 2
          /\ op.opcode = "STORE" => Len(old.src) = 3
          /\ verify_memory_op(p, old)
      BY <1>4, <2>1 DEF verify_op
    <2>3. /\ TypeOf(n, op.src[1]) = TypeOf(p, old.src[1])
          /\ TypeOf(n, op.src[2]) = TypeOf(p, old.src[2])
          /\ op.opcode = "STORE" => TypeOf(n, op.src[3]) = TypeOf(p, old.src[3])
      BY <1>4, <2>2
    <2>4. verify_memory_op(n, op)
      BY <2>2, <2>3 DEF verify_memory_op
    <2> QED BY <1>1, <1>4, <2>1, <2>2, <2>4 DEF verify_op
  <1>5. CASE op.opcode \in BinaryOps
    <2>1. op.opcode \notin {"CONST_U64", "LOAD", "STORE"} /\ op.opcode \notin UnaryOps
      BY <1>5 DEF UnaryOps, FlagReads, BinaryOps, ArithOps, ShiftOps, UnsignedCompares,
                  SignedCompares, AddrOps, FlagPairs
    <2>2. Len(old.src) = 2 /\ verify_binary_op(p, old)
      BY <1>5, <2>1 DEF verify_op
    <2>3. /\ TypeOf(n, op.src[1]) = TypeOf(p, old.src[1])
          /\ TypeOf(n, op.src[2]) = TypeOf(p, old.src[2])
      BY <2>2
    <2>4. verify_binary_op(n, op)
      BY <2>2, <2>3, Zenon DEF verify_binary_op
    <2> QED BY <1>1, <1>5, <2>1, <2>2, <2>4 DEF verify_op
  <1> QED BY <1>2, <1>3, <1>4, <1>5 DEF Opcodes

(* verify_op looks at nothing but the types of an operation's values.      *)
LEMMA OpStaysVerified ==
  ASSUME NEW p, NEW n, NEW op, op.opcode \in Opcodes, verify_op(p, op),
         TypeOf(n, op.dst) = TypeOf(p, op.dst),
         \A i \in 1 .. Len(op.src) : TypeOf(n, op.src[i]) = TypeOf(p, op.src[i])
  PROVE  verify_op(n, op)
  BY OpVerifiesAlike

LEMMA StretchIndices ==
  ASSUME NEW k \in Nat, NEW count \in Nat, NEW S, (k + 1) .. (k + count) \subseteq S
  PROVE  \A i \in 1 .. count : k + i \in S
  <1>1. ASSUME NEW i \in 1 .. count
        PROVE  k + i \in (k + 1) .. (k + count)
    OBVIOUS
  <1> QED BY <1>1

LEMMA BlockStaysVerified ==
  ASSUME NEW p \in Modules, xair_verify_module(p), \A b \in 1 .. Len(p.blocks) : OwnsArgs(p, b),
         NEW n, NEW V, Shaped(n, V), Agrees(p, n), NEW b \in 1 .. Len(p.blocks)
  PROVE  VerifyBlock(n, b)
  <1>1. PICK U : Shaped(p, U)
    BY ModulesShaped
  <1>2. /\ \A v : valid_value(p, v) => valid_value(n, v) /\ n.values[v] = p.values[v]
        /\ \A o : valid_op(p, o) => valid_op(n, o) /\ n.ops[o] = p.ops[o]
        /\ \A c : valid_block(p, c) => valid_block(n, c) /\ n.blocks[c] = p.blocks[c]
        /\ \A i \in 1 .. Len(p.term_args) : n.term_args[i] = p.term_args[i]
        /\ \A v : value_is_global_const(p, v) => value_is_global_const(n, v)
    BY <1>1, AgreeParts
  <1>3. n.blocks[b] = p.blocks[b]
    BY <1>2 DEF valid_block
  <1>4. \A v : valid_value(p, v) => TypeOf(n, v) = TypeOf(p, v)
    BY <1>2 DEF TypeOf
  <1>5. /\ VerifyParams(p, b) /\ verify_term(p, b)
        /\ \A i \in 1 .. Len(p.blocks[b].ops) :
             /\ VerifyDestination(p, b, p.blocks[b].ops[i])
             /\ VerifySources(p, b, i)
             /\ verify_op(p, p.ops[p.blocks[b].ops[i]])
    BY DEF xair_verify_module, VerifyBlock
  <1>6. VerifyParams(n, b)
    BY <1>2, <1>3, <1>4, <1>5 DEF VerifyParams
  <1>7. \A i \in 1 .. Len(p.blocks[b].ops) :
          /\ VerifyDestination(n, b, n.blocks[b].ops[i])
          /\ valid_op(p, p.blocks[b].ops[i])
          /\ n.ops[n.blocks[b].ops[i]] = p.ops[p.blocks[b].ops[i]]
    <2>1. ASSUME NEW o, VerifyDestination(p, b, o)
          PROVE  VerifyDestination(n, b, o) /\ valid_op(p, o) /\ n.ops[o] = p.ops[o]
      BY <1>2, <2>1 DEF VerifyDestination
    <2> QED BY <1>3, <1>5, <2>1
  <1>8. p.blocks[b] \in BlockRecs /\ Len(p.blocks[b].ops) \in Nat
    <2>1. p.blocks \in Seq(BlockRecs)
      BY DEF Modules
    <2>2. p.blocks[b] \in BlockRecs
      BY <2>1
    <2> QED BY <2>2 DEF BlockRecs
  <1>9. \A i \in 1 .. (Len(p.blocks[b].ops) + 1) : Available(n, b, i) = Available(p, b, i)
    <2>1. ASSUME NEW i \in 1 .. (Len(p.blocks[b].ops) + 1)
          PROVE  Available(n, b, i) = Available(p, b, i)
      <3>1. \A j \in 1 .. (i - 1) : j \in 1 .. Len(p.blocks[b].ops)
        BY <1>8
      <3>2. \A j \in 1 .. (i - 1) : n.ops[n.blocks[b].ops[j]].dst = p.ops[p.blocks[b].ops[j]].dst
        BY <1>7, <3>1
      <3>3. {n.ops[n.blocks[b].ops[j]].dst : j \in 1 .. (i - 1)}
              = {p.ops[p.blocks[b].ops[j]].dst : j \in 1 .. (i - 1)}
        BY <3>2
      <3> QED BY <1>3, <3>3, Zenon DEF Available
    <2> QED BY <2>1
  <1>10. \A i \in 1 .. (Len(p.blocks[b].ops) + 1) : \A v :
           value_is_available(p, Available(p, b, i), v) =>
             value_is_available(n, Available(n, b, i), v) /\ TypeOf(n, v) = TypeOf(p, v)
    BY <1>2, <1>4, <1>9 DEF value_is_available
  <1>11. ASSUME NEW i \in 1 .. Len(n.blocks[b].ops)
         PROVE  /\ VerifyDestination(n, b, n.blocks[b].ops[i])
                /\ VerifySources(n, b, i)
                /\ verify_op(n, n.ops[n.blocks[b].ops[i]])
    <2>1. PICK op : op = p.ops[p.blocks[b].ops[i]]
      OBVIOUS
    <2>2. i \in 1 .. Len(p.blocks[b].ops) /\ i \in 1 .. (Len(p.blocks[b].ops) + 1)
      BY <1>3, <1>8
    <2>3. n.ops[n.blocks[b].ops[i]] = op
      BY <1>7, <2>1, <2>2
    <2>4. \A v \in ElemsOf(op.src) : value_is_available(p, Available(p, b, i), v)
      BY <1>5, <2>1, <2>2 DEF VerifySources
    <2>5. \A v \in ElemsOf(op.src) : /\ value_is_available(n, Available(n, b, i), v)
                                     /\ TypeOf(n, v) = TypeOf(p, v)
      BY <1>10, <2>2, <2>4
    <2>6. VerifySources(n, b, i)
      BY <2>3, <2>5, Zenon DEF VerifySources
    <2>7. valid_value(p, op.dst) /\ verify_op(p, op)
      BY <1>5, <2>1, <2>2, Zenon DEF VerifyDestination
    <2>8. op.opcode \in Opcodes
      <3>1. p.ops \in Seq(OpRecs)
        BY DEF Modules
      <3>2. op \in OpRecs
        BY <1>7, <2>1, <2>2, <3>1 DEF valid_op
      <3> QED BY <3>2 DEF OpRecs
    <2>9. \A j \in 1 .. Len(op.src) : TypeOf(n, op.src[j]) = TypeOf(p, op.src[j])
      BY <2>5 DEF ElemsOf
    <2>10. verify_op(n, op)
      BY <1>4, <2>7, <2>8, <2>9, OpStaysVerified
    <2> QED BY <1>7, <2>2, <2>3, <2>6, <2>10
  <1>12. verify_term(n, b)
    <2>1. PICK term \in TermRecs : term = p.blocks[b].term
      BY <1>8 DEF BlockRecs
    <2>2. PICK last : last = Len(p.blocks[b].ops) + 1
      OBVIOUS
    <2>3. last \in 1 .. (Len(p.blocks[b].ops) + 1) /\ last = Len(n.blocks[b].ops) + 1
      BY <1>3, <1>8, <2>2
    <2>4. TrueArgs(n, b) = TrueArgs(p, b) /\ FalseArgs(n, b) = FalseArgs(p, b)
      <3>1. /\ term.true_arg_offset \in Nat /\ term.true_arg_count \in Nat
            /\ term.false_arg_offset \in Nat /\ term.false_arg_count \in Nat
        BY <2>1 DEF TermRecs
      <3>2. ((term.true_arg_offset + 1) .. (term.true_arg_offset + term.true_arg_count))
              \cup ((term.false_arg_offset + 1) .. (term.false_arg_offset + term.false_arg_count))
                \subseteq 1 .. Len(p.term_args)
        <4>1. OwnsArgs(p, b)
          OBVIOUS
        <4> QED BY <2>1, <4>1 DEF OwnsArgs
      <3>3. /\ (term.true_arg_offset + 1) .. (term.true_arg_offset + term.true_arg_count)
                 \subseteq 1 .. Len(p.term_args)
            /\ (term.false_arg_offset + 1) .. (term.false_arg_offset + term.false_arg_count)
                 \subseteq 1 .. Len(p.term_args)
        BY <3>2
      <3>4. /\ \A i \in 1 .. term.true_arg_count :
                   term.true_arg_offset + i \in 1 .. Len(p.term_args)
            /\ \A i \in 1 .. term.false_arg_count :
                   term.false_arg_offset + i \in 1 .. Len(p.term_args)
        BY <3>1, <3>3, StretchIndices
      <3> QED BY <1>2, <1>3, <2>1, <3>4, Zenon DEF TrueArgs, FalseArgs, term_args
    <2>5. ASSUME NEW target, NEW args, verify_target_args(p, Available(p, b, last), target, args)
          PROVE  verify_target_args(n, Available(n, b, last), target, args)
      <3>1. valid_block(p, target) /\ Len(p.blocks[target].params) = Len(args)
        BY <2>5 DEF verify_target_args
      <3>2. valid_block(n, target) /\ n.blocks[target] = p.blocks[target]
        BY <1>2, <3>1
      <3>3. VerifyParams(p, target)
        BY <3>1 DEF valid_block, xair_verify_module, VerifyBlock
      <3>4. \A i \in 1 .. Len(args) : TypeOf(n, p.blocks[target].params[i])
                                        = TypeOf(p, p.blocks[target].params[i])
        BY <1>4, <3>1, <3>3 DEF VerifyParams, ElemsOf
      <3>5. \A i \in 1 .. Len(args) :
              /\ value_is_available(n, Available(n, b, last), args[i])
              /\ TypeOf(n, args[i]) = TypeOf(p, args[i])
              /\ TypeOf(p, args[i]) = TypeOf(p, p.blocks[target].params[i])
        BY <1>10, <2>3, <2>5 DEF verify_target_args
      <3> QED BY <3>1, <3>2, <3>4, <3>5 DEF verify_target_args
    <2>6. \A v : value_is_available(p, Available(p, b, last), v) =>
                   value_is_available(n, Available(n, b, last), v) /\ TypeOf(n, v) = TypeOf(p, v)
      BY <1>10, <2>3
    <2> QED BY <1>3, <1>5, <2>2, <2>3, <2>4, <2>5, <2>6, Zenon DEF verify_term
  <1> QED BY <1>6, <1>11, <1>12 DEF VerifyBlock

LEMMA CheckedWhileGrowing ==
  ASSUME NEW p \in Modules, xair_verify_module(p), \A b \in 1 .. Len(p.blocks) : OwnsArgs(p, b),
         NEW n, NEW V, Shaped(n, V), Agrees(p, n), NEW top, top = Len(p.blocks)
  PROVE  /\ top \in Nat /\ Len(n.blocks) \in Nat /\ top <= Len(n.blocks)
         /\ \A b \in 1 .. top :
              LET term == n.blocks[b].term
              IN  /\ n.blocks[b] \in BlockRecs /\ VerifyBlock(n, b) /\ term.kind # "NONE"
                  /\ term.kind \in {"JUMP", "CBRANCH"} => term.true_target \in 1 .. top
                  /\ term.kind = "CBRANCH" => term.false_target \in 1 .. top
  <1>1. p.blocks \in Seq(BlockRecs) /\ top \in Nat
    BY DEF Modules
  <1>2. Len(n.blocks) \in Nat
    BY ShapedParts, Zenon
  <1>3. ASSUME NEW b \in 1 .. top
        PROVE  LET term == n.blocks[b].term
               IN  /\ n.blocks[b] \in BlockRecs /\ VerifyBlock(n, b) /\ term.kind # "NONE"
                   /\ term.kind \in {"JUMP", "CBRANCH"} => term.true_target \in 1 .. top
                   /\ term.kind = "CBRANCH" => term.false_target \in 1 .. top
    <2>1. n.blocks[b] = p.blocks[b] /\ p.blocks[b] \in BlockRecs
      BY <1>1 DEF Agrees
    <2>2. VerifyBlock(n, b)
      BY BlockStaysVerified
    <2>3. verify_term(p, b)
      BY DEF xair_verify_module, VerifyBlock
    <2> QED BY <2>1, <2>2, <2>3, Zenon DEF verify_term, verify_target_args, valid_block
  <1> QED BY <1>1, <1>2, <1>3 DEF Agrees

-----------------------------------------------------------------------------
(* Using a state while building goes on.                                   *)

SafeInv ==
  /\ BoundsInv
  /\ made \in Programs
  /\ ~created => ~canonicalized /\ ~rogue
  /\ created => xair_verify_module(made)
  /\ created /\ ~canonicalized => Agrees(made, m)
  /\ ~canonicalized /\ ~rogue => Inv(Len(made.blocks))

(* The parts of SafeInv a step of the executor or a call of its interface  *)
(* can disturb.                                                            *)
LEMMA SafeStays ==
  ASSUME SafeInv, BoundsInv', m' = m, made' = made, created' = created,
         canonicalized' = canonicalized, rogue => rogue',
         ~created => ~rogue',
         NEW top, top = Len(made.blocks), ~canonicalized /\ ~rogue' => Inv(top)'
  PROVE  SafeInv'
  <1>1. (~canonicalized /\ ~rogue => Inv(Len(made.blocks)))'
    BY DEF Inv, ModuleChecked, Checked, LeadsInto, Position
  <1>2. made' \in Programs
    BY DEF SafeInv
  <1>3. created' => xair_verify_module(made')
    BY DEF SafeInv
  <1>4. (created /\ ~canonicalized)' => Agrees(made', m')
    BY DEF SafeInv
  <1>5. ~created' => ~canonicalized' /\ ~rogue'
    BY DEF SafeInv
  <1> QED BY <1>1, <1>2, <1>3, <1>4, <1>5 DEF SafeInv

LEMMA MadeModule ==
  ASSUME SafeInv
  PROVE  /\ made \in Modules /\ (\E U : Shaped(made, U)) /\ Len(made.blocks) \in Nat
         /\ \A b \in 1 .. Len(made.blocks) : OwnsArgs(made, b)
  <1>1. made \in Modules
    BY ExecAssumption DEF SafeInv
  <1>2. \E U : Shaped(made, U)
    BY <1>1, ModulesShaped
  <1>3. Len(made.blocks) \in Nat
    BY <1>2, ShapedParts
  <1> QED BY <1>1, <1>2, <1>3, BuiltAssumption DEF SafeInv

LEMMA AgreesSelf ==
  ASSUME NEW a, NEW U, Shaped(a, U)
  PROVE  Agrees(a, a)
  BY ShapedParts, LongerSelf DEF Agrees

LEMMA LiveSetParamKeepsInv == ASSUME NEW top, Inv(top), LiveSetParam PROVE Inv(top)'
  <1>1. PICK v \in 1 .. Len(m.values), x \in Arguments :
          IF exec_check_value_slot(v) /\ m.values[v].op = INVALID /\ TypeOf(m, v) = x.type
          THEN val' = Define(v, x) /\ defined' = defined \cup {v} /\ why' = "ok"
          ELSE why' = "bad_call" /\ UNCHANGED <<val, defined>>
    BY Zenon DEF LiveSetParam
  <1>2. Slots'
    BY <1>1, Zenon DEF LiveSetParam, Inv, Slots, StoredTypesAgree, TypeOf, Define
  <1>3. /\ m' = m /\ created' = created /\ running' = running /\ ~running
        /\ fresh' = fresh /\ stale' = stale /\ defined \subseteq defined'
        /\ why' \in {"ok", "bad_call"}
    BY <1>1 DEF LiveSetParam, control
  <1> QED
    BY <1>2, <1>3 DEF Inv, ModuleChecked, Checked, LeadsInto, Position, Visit, NeverStale, VerifiedNeverFails

LEMMA SafeRun == ASSUME SafeInv, BoundsInv', LiveRun PROVE SafeInv'
  <1>1. /\ m' = m /\ created' = created /\ created /\ ~running
        /\ made' = made /\ canonicalized' = canonicalized
        /\ ~rogue' => ~rogue /\ (running' => ~(current' > Len(made.blocks)))
        /\ rogue => rogue'
    BY DEF LiveRun, Run
  <1>2. PICK top \in Nat : top = Len(made.blocks)
    BY MadeModule
  <1>3. ASSUME ~canonicalized, ~rogue'
        PROVE  Inv(top)'
    <2>1. Inv(top)
      BY <1>1, <1>2, <1>3 DEF SafeInv
    <2>2. CASE Run
      <3>1. running' => current' \in 1 .. Len(m.blocks)
        BY <1>1, <2>2 DEF Run, valid_block
      <3>2. Len(m.blocks) \in Nat
        BY <1>1, <2>1 DEF Inv, ModuleChecked, Checked
      <3>3. running' => current' \in 1 .. top
        BY <1>1, <1>2, <1>3, <3>1, <3>2
      <3> QED BY <2>1, <2>2, <3>3, RunKeepsInv
    <2>3. CASE /\ why' = "bad_call"
               /\ UNCHANGED <<m, created, val, defined, mem, gen, control, result,
                              assigned, fresh, carried, stale, ready>>
      BY <2>1, <2>3 DEF control, Inv, ModuleChecked, Checked, LeadsInto, Slots, StoredTypesAgree,
                        TypeOf, Position, Visit, NeverStale, VerifiedNeverFails
    <2> QED BY <2>2, <2>3 DEF LiveRun
  <1> QED BY <1>1, <1>2, <1>3, SafeStays

LEMMA SafeSetParam == ASSUME SafeInv, BoundsInv', LiveSetParam PROVE SafeInv'
  <1>1. /\ m' = m /\ created' = created /\ made' = made
        /\ canonicalized' = canonicalized /\ rogue' = rogue
    BY DEF LiveSetParam
  <1>2. PICK top : top = Len(made.blocks)
    OBVIOUS
  <1>3. ~canonicalized /\ ~rogue => Inv(top)'
    BY <1>2, LiveSetParamKeepsInv DEF SafeInv
  <1>4. ~created => ~rogue'
    BY <1>1 DEF SafeInv
  <1> QED BY <1>1, <1>2, <1>3, <1>4, SafeStays

LEMMA SafeStep == ASSUME SafeInv, BoundsInv', LiveStep PROVE SafeInv'
  <1>1. /\ m' = m /\ created' = created /\ made' = made
        /\ canonicalized' = canonicalized /\ rogue' = rogue
    BY DEF LiveStep, Step, EnterBlock, ExecConst, ExecScalar, ExecLoad, ExecStore, ExecStoreFails,
                ExecJump, ExecCbranch, ExecReturn, ExecStop
  <1>2. PICK top : top = Len(made.blocks)
    OBVIOUS
  <1>3. ~canonicalized /\ ~rogue => Inv(top)'
    BY <1>2, StepKeepsInv DEF SafeInv, LiveStep
  <1>4. ~created => ~rogue'
    BY <1>1 DEF SafeInv
  <1> QED BY <1>1, <1>2, <1>3, <1>4, SafeStays

LEMMA SafeCreate == ASSUME SafeInv, BoundsInv', LiveCreate PROVE SafeInv'
  <1>1. /\ ~created /\ m' = m /\ made' = m /\ StateCreate
        /\ canonicalized' = canonicalized /\ rogue' = rogue
        /\ created' => xair_verify_module(m)
    BY DEF LiveCreate, StateCreate
  <1>2. made = m /\ ~canonicalized /\ ~rogue
    BY <1>1 DEF SafeInv, BoundsInv
  <1>3. m \in Modules /\ Agrees(m, m)
    BY <1>2, MadeModule, AgreesSelf
  <1>4. PICK top : top = Len(m.blocks)
    OBVIOUS
  <1>5. Inv(top)'
    BY <1>1, <1>2, <1>3, <1>4, StateCreateKeepsInv DEF SafeInv
  <1>6. Inv(Len(made.blocks))'
    BY <1>1, <1>4, <1>5 DEF Inv, ModuleChecked, Checked, LeadsInto, Position
  <1>7. made' \in Programs
    BY <1>1, <1>2 DEF SafeInv
  <1>8. created' => xair_verify_module(made')
    BY <1>1, Zenon
  <1>9. Agrees(made', m')
    BY <1>1, <1>3
  <1> QED BY <1>1, <1>2, <1>6, <1>7, <1>8, <1>9 DEF SafeInv

(* Between runs the invariant depends on the module only through the       *)
(* verified blocks and the types of the values the state knows.            *)
LEMMA GrowingKeepsInv ==
  ASSUME SafeInv, created, ~running, ~canonicalized, ~rogue, UNCHANGED execVars,
         NEW V, Shaped(m', V), Longer(m.values, m'.values), Agrees(made, m'),
         NEW top, top = Len(made.blocks)
  PROVE  Inv(top)'
  <1>1. Inv(top)
    BY DEF SafeInv
  <1>2. /\ created' = created /\ val' = val /\ defined' = defined /\ running' = running
        /\ why' = why /\ fresh' = fresh /\ carried' = carried /\ stale' = stale /\ ready' = ready
    BY DEF execVars, control
  <1>3. /\ top \in Nat /\ Len(m'.blocks) \in Nat /\ top <= Len(m'.blocks)
        /\ \A b \in 1 .. top :
             LET term == m'.blocks[b].term
             IN  /\ m'.blocks[b] \in BlockRecs /\ VerifyBlock(m', b) /\ term.kind # "NONE"
                 /\ term.kind \in {"JUMP", "CBRANCH"} => term.true_target \in 1 .. top
                 /\ term.kind = "CBRANCH" => term.false_target \in 1 .. top
    BY MadeModule, CheckedWhileGrowing DEF SafeInv
  <1>4. ModuleChecked(top)'
    BY <1>3 DEF ModuleChecked, Checked, LeadsInto
  <1>5. Slots'
    <2>1. Len(m.values) \in Nat /\ Len(m'.values) \in Nat
      BY ShapedParts DEF SafeInv, BoundsInv
    <2>2. /\ 1 .. Len(m.values) \subseteq 1 .. Len(m'.values)
          /\ \A v \in 1 .. Len(m.values) : m'.values[v] = m.values[v]
      BY <2>1, LongerParts
    <2> QED BY <1>1, <1>2, <2>2 DEF Inv, Slots, StoredTypesAgree, TypeOf
  <1> QED BY <1>1, <1>2, <1>4, <1>5 DEF Inv, Position, Visit, NeverStale, VerifiedNeverFails

LEMMA LongerTwice ==
  ASSUME NEW r, NEW s, NEW t, Len(r) \in Nat, Len(s) \in Nat, Len(t) \in Nat,
         Longer(r, s), Longer(s, t)
  PROVE  Longer(r, t)
  BY DEF Longer

(* Building leaves alone the blocks that were verified: none of them is    *)
(* open.                                                                   *)
LEMMA AgreesWhileBuilding ==
  ASSUME SafeInv, created, ~canonicalized, NEW n, Grown(m, n), NEW V, Shaped(n, V)
  PROVE  Agrees(made, n)
  <1>1. PICK U : Shaped(m, U)
    BY DEF SafeInv, BoundsInv
  <1>2. PICK W : Shaped(made, W)
    BY MadeModule
  <1>3. /\ Agrees(made, m) /\ xair_verify_module(made)
        /\ \A b \in 1 .. Len(made.blocks) : OwnsArgs(made, b)
        /\ made \in Modules
    BY MadeModule DEF SafeInv
  <1>4. /\ Len(made.values) \in Nat /\ Len(made.ops) \in Nat /\ Len(made.term_args) \in Nat
        /\ Len(m.values) \in Nat /\ Len(m.ops) \in Nat /\ Len(m.term_args) \in Nat
        /\ Len(n.values) \in Nat /\ Len(n.ops) \in Nat /\ Len(n.term_args) \in Nat
        /\ Len(made.blocks) \in Nat /\ Len(m.blocks) \in Nat /\ Len(n.blocks) \in Nat
    BY <1>1, <1>2, ShapedParts
  <1>5. ASSUME NEW b \in 1 .. Len(made.blocks)
        PROVE  n.blocks[b] = made.blocks[b]
    <2>1. PICK top : top = Len(made.blocks)
      OBVIOUS
    <2>2. m.blocks[b].term.kind # "NONE"
      BY <1>1, <1>3, <2>1, CheckedWhileGrowing
    <2>3. m.blocks[b] = made.blocks[b] /\ b \in 1 .. Len(m.blocks)
      <3>1. m.blocks[b] = made.blocks[b] /\ Len(made.blocks) <= Len(m.blocks)
        BY <1>3, <1>5, Zenon DEF Agrees
      <3> QED BY <1>4, <1>5, <3>1
    <2> QED BY <2>2, <2>3 DEF Grown
  <1>6. /\ Longer(made.values, n.values) /\ Longer(made.ops, n.ops)
        /\ Longer(made.term_args, n.term_args) /\ Len(made.blocks) <= Len(n.blocks)
    <2>1. /\ Longer(made.values, m.values) /\ Longer(made.ops, m.ops)
          /\ Longer(made.term_args, m.term_args) /\ Len(made.blocks) <= Len(m.blocks)
      BY <1>3 DEF Agrees
    <2>2. /\ Longer(m.values, n.values) /\ Longer(m.ops, n.ops)
          /\ Longer(m.term_args, n.term_args) /\ Len(m.blocks) <= Len(n.blocks)
      BY DEF Grown
    <2>3. Longer(made.values, n.values)
      BY <1>4, <2>1, <2>2, LongerTwice
    <2>4. Longer(made.ops, n.ops)
      BY <1>4, <2>1, <2>2, LongerTwice
    <2>5. Longer(made.term_args, n.term_args)
      BY <1>4, <2>1, <2>2, LongerTwice
    <2>6. Len(made.blocks) <= Len(n.blocks)
      BY <1>4, <2>1, <2>2
    <2> QED BY <2>3, <2>4, <2>5, <2>6
  <1> QED BY <1>5, <1>6 DEF Agrees

LEMMA SafeChange ==
  ASSUME SafeInv, BoundsInv', AddBlock \/ AddValue \/ EndBlock \/ Canonicalize \/ Freeze
  PROVE  SafeInv'
  <1>1. /\ created /\ ~running /\ created' = created /\ made' = made /\ rogue' = rogue
        /\ UNCHANGED execVars
        /\ canonicalized => canonicalized'
    <2>1. Building
      BY DEF AddBlock, AddValue, EndBlock, Canonicalize, Freeze
    <2>2. created' = created
      BY <2>1 DEF Building, execVars
    <2>3. canonicalized => canonicalized'
      <3>1. Canonicalize => (canonicalized => canonicalized')
        BY Zenon DEF Canonicalize
      <3> QED BY <3>1 DEF AddBlock, AddValue, EndBlock, Freeze
    <2> QED BY <2>1, <2>2, <2>3 DEF Building
  <1>2. PICK U : Shaped(m, U) /\ InBounds(m)
    BY <1>1 DEF SafeInv, BoundsInv
  <1>3. PICK V : Shaped(m', V)
    BY <1>1 DEF BoundsInv
  <1>4. ASSUME ~canonicalized'
        PROVE  Agrees(made, m') /\ Longer(m.values, m'.values)
    <2>1. CASE AddBlock \/ AddValue \/ EndBlock \/ Freeze
      <3>1. Grown(m, m')
        BY <1>2, <2>1, BuildingBuilds DEF Builds
      <3> QED BY <1>1, <1>3, <1>4, <3>1, AgreesWhileBuilding DEF Grown
    <2>2. CASE Canonicalize
      <3>1. m'.values = m.values /\ m'.ops = m.ops /\ m'.blocks = m.blocks
        BY <1>4, <2>2 DEF Canonicalize
      <3>2. m'.term_args = m.term_args
        BY <1>2, <2>2, <3>1, CanonicalizeKeeps DEF Canonicalize
      <3>3. Agrees(made, m)
        BY <1>1, <1>4 DEF SafeInv
      <3>4. Len(m.values) \in Nat
        BY <1>2, ShapedParts
      <3> QED BY <3>1, <3>2, <3>3, <3>4, LongerSelf DEF Agrees
    <2> QED BY <2>1, <2>2
  <1>5. PICK top : top = Len(made.blocks)
    OBVIOUS
  <1>6. ASSUME ~canonicalized', ~rogue'
        PROVE  Inv(Len(made.blocks))'
    <2>1. Inv(top)'
      BY <1>1, <1>3, <1>4, <1>5, <1>6, GrowingKeepsInv
    <2> QED BY <1>1, <1>5, <2>1 DEF Inv, ModuleChecked, Checked, LeadsInto, Position
  <1>7. made' \in Programs
    BY <1>1 DEF SafeInv
  <1>8. created' => xair_verify_module(made')
    BY <1>1 DEF SafeInv
  <1>9. (created /\ ~canonicalized)' => Agrees(made', m')
    BY <1>1, <1>4
  <1>10. created'
    BY <1>1
  <1> QED BY <1>6, <1>7, <1>8, <1>9, <1>10 DEF SafeInv

LEMMA SafeInvHolds == LiveSpec => []SafeInv
  <1>1. LiveInit => SafeInv
    <2> SUFFICES ASSUME LiveInit PROVE SafeInv
      OBVIOUS
    <2>1. BoundsInv
      BY DEF LiveInit, Init, BoundsInv
    <2>2. Inv(Len(made.blocks))
      BY DEF LiveInit, Init, Inv, ModuleChecked, Slots, StoredTypesAgree, Position, Visit,
             NeverStale, VerifiedNeverFails
    <2>3. /\ made \in Programs /\ ~created /\ ~canonicalized /\ ~rogue
      BY DEF LiveInit, Init
    <2> QED BY <2>1, <2>2, <2>3 DEF SafeInv
  <1>2. ASSUME SafeInv, BoundsInv', [LiveNext]_liveVars
        PROVE  SafeInv'
    <2>1. CASE UNCHANGED liveVars
      <3>1. /\ UNCHANGED vars /\ m' = m /\ created' = created
            /\ made' = made /\ canonicalized' = canonicalized /\ rogue' = rogue
        BY <2>1 DEF liveVars, vars
      <3>2. PICK top : top = Len(made.blocks)
        OBVIOUS
      <3>3. ~canonicalized /\ ~rogue => Inv(top)'
        BY <1>2, <3>1, <3>2, StutterKeepsInv DEF SafeInv
      <3>4. ~created => ~rogue'
        BY <1>2, <3>1 DEF SafeInv
      <3> QED BY <1>2, <3>1, <3>2, <3>3, <3>4, SafeStays
    <2> QED BY <1>2, <2>1, SafeCreate, SafeSetParam, SafeRun, SafeStep, SafeChange DEF LiveNext
  <1> QED BY <1>1, <1>2, BoundsInvHolds, PTL DEF LiveSpec

(* A state made for a verified module can be used while the client builds  *)
(* on, with any number of values, blocks, open ends and failed calls       *)
(* between the runs: until a canonicalization changes something, what was  *)
(* verified is still in place, and a run that enters there stays there,    *)
(* never fails a check and reads no left-over value (NeverStale).          *)
THEOREM SafeWhileBuildingAlways == LiveSpec => []SafeWhileBuilding
  <1>1. ASSUME SafeInv
        PROVE  SafeWhileBuilding
    <2>1. SUFFICES ASSUME created, ~canonicalized PROVE SafeWhileBuilding
      BY DEF SafeWhileBuilding
    <2>2. Agrees(made, m)
      BY <1>1, <2>1 DEF SafeInv
    <2>3. PICK U : Shaped(m, U)
      BY <1>1, <2>1 DEF SafeInv, BoundsInv
    <2>4. PICK W : Shaped(made, W)
      BY <1>1, MadeModule
    <2>5. ASSUME NEW A, NEW B, NEW s \in Seq(A), NEW t \in Seq(B), Longer(s, t)
          PROVE  IsPrefix(s, t)
      BY <2>5 DEF Longer, IsPrefix
    <2>6. IsPrefix(made.values, m.values) /\ IsPrefix(made.ops, m.ops)
      BY <2>2, <2>3, <2>4, <2>5, ShapedParts DEF Agrees
    <2>7. \A b \in 1 .. Len(made.blocks) : m.blocks[b] = made.blocks[b]
      BY <2>2 DEF Agrees
    <2>8. ~rogue => /\ NeverStale /\ VerifiedNeverFails /\ StoredTypesAgree
                    /\ running => current \in 1 .. Len(made.blocks)
      BY <1>1, <2>1 DEF SafeInv, Inv, Slots, Position
    <2> QED BY <2>6, <2>7, <2>8 DEF SafeWhileBuilding
  <1> QED BY <1>1, SafeInvHolds, PTL

-----------------------------------------------------------------------------
(* What canonicalization is handed, and one operation replaced.            *)

(* What canonicalization is handed: fields of their types, a module that   *)
(* the verifier accepts, every value and operation listed by its block.    *)
Fields(n) ==
  /\ \E U : Shaped(n, U)
  /\ \A v \in 1 .. Len(n.values) : n.values[v] \in ValueRecs
  /\ \A o \in 1 .. Len(n.ops) : n.ops[o].src \in Seq(Nat) /\ n.ops[o].opcode \in Opcodes
  /\ \A b \in 1 .. Len(n.blocks) : n.blocks[b].term \in TermRecs
  /\ n.term_args \in Seq(Nat)

Whole(n) ==
  /\ Fields(n) /\ xair_verify_module(n) /\ Linked(n)
  /\ \A b \in 1 .. Len(n.blocks) : OwnsLists(n, b) /\ OwnsArgs(n, b)

LEMMA ModuleFields ==
  ASSUME NEW n \in Modules
  PROVE  Fields(n)
  <1>1. \E U : Shaped(n, U)
    BY ModulesShaped
  <1>2. /\ n.values \in Seq(ValueRecs) /\ n.ops \in Seq(OpRecs) /\ n.blocks \in Seq(BlockRecs)
        /\ n.term_args \in Seq(Nat)
    BY DEF Modules
  <1>3. \A o \in 1 .. Len(n.ops) : n.ops[o] \in OpRecs
    BY <1>2
  <1>4. \A b \in 1 .. Len(n.blocks) : n.blocks[b] \in BlockRecs
    BY <1>2
  <1>5. \A v \in 1 .. Len(n.values) : n.values[v] \in ValueRecs
    BY <1>2
  <1> QED BY <1>1, <1>2, <1>3, <1>4, <1>5 DEF Fields, OpRecs, BlockRecs

(* One operation is replaced by another with the same result that reads no *)
(* more, stays a constant if it was one, and is as well typed.             *)
LEMMA OpReplaced ==
  ASSUME NEW a, Whole(a), NEW o \in 1 .. Len(a.ops), NEW W, NEW op \in OpsOver(W),
         op.dst = a.ops[o].dst, op.src \in Seq(Nat), op.opcode \in Opcodes,
         ElemsOf(op.src) \subseteq ElemsOf(a.ops[o].src),
         a.ops[o].opcode = "CONST_U64" => op.opcode = "CONST_U64",
         verify_op(a, a.ops[o]) => verify_op(a, op),
         NEW n, n = [a EXCEPT !.ops[o] = op]
  PROVE  Whole(n) /\ n.vn = a.vn
  <1>1. PICK U : Shaped(a, U)
    BY DEF Whole, Fields
  <1>2. /\ n.values = a.values /\ n.blocks = a.blocks /\ n.term_args = a.term_args
        /\ n.vn = a.vn /\ n.ops = [a.ops EXCEPT ![o] = op]
    BY <1>1 DEF Shaped
  <1>3. /\ Len(n.ops) = Len(a.ops)
        /\ \A j \in 1 .. Len(a.ops) : n.ops[j] = IF j = o THEN op ELSE a.ops[j]
    <2>1. a.ops \in Seq(OpsOver(U)) /\ Len(a.ops) \in Nat
      BY <1>1, ShapedParts
    <2> QED BY <1>2, <2>1
  <1>4. \A j \in 1 .. Len(a.ops) : n.ops[j].dst = a.ops[j].dst
    BY <1>3
  <1>5. \E V : Shaped(n, V)
    BY <1>1, OpRewritten DEF Rewritten
  <1>6. Fields(n)
    BY <1>2, <1>3, <1>5 DEF Whole, Fields
  <1>7. \A b \in 1 .. Len(n.blocks) : OwnsLists(n, b) /\ OwnsArgs(n, b)
    <2>1. SUFFICES ASSUME NEW b \in 1 .. Len(a.blocks)
                   PROVE  OwnsLists(n, b) /\ OwnsArgs(n, b)
      BY <1>2
    <2>2. OwnsLists(a, b) /\ OwnsArgs(a, b)
      BY DEF Whole
    <2>3. OwnsArgs(n, b)
      BY <1>2, <2>2, Zenon DEF OwnsArgs
    <2>4. \A i \in 1 .. Len(a.blocks[b].ops) :
            /\ a.blocks[b].ops[i] \in 1 .. Len(a.ops)
            /\ a.values[n.ops[a.blocks[b].ops[i]].dst].block = b
      BY <1>4, <2>2, Zenon DEF OwnsLists, valid_op
    <2>5. OwnsLists(n, b)
      BY <1>2, <1>3, <2>2, <2>4, Zenon DEF OwnsLists, valid_value, valid_op
    <2> QED BY <2>3, <2>5
  <1>8. Linked(n)
    <2>1. Linked(a)
      BY DEF Whole
    <2>2. \A j : valid_op(n, j) <=> valid_op(a, j)
      BY <1>3 DEF valid_op
    <2>3. \A j : valid_block(n, j) <=> valid_block(a, j)
      BY <1>2, Zenon DEF valid_block
    <2>4. \A j : valid_op(a, j) => n.ops[j].dst = a.ops[j].dst
      BY <1>4, Zenon DEF valid_op
    <2>5. Len(n.ops) = Len(a.ops)
      BY <1>3
    <2>6. n.values = a.values /\ n.blocks = a.blocks
      BY <1>2
    <2>7. ASSUME NEW v \in 1 .. Len(n.values)
          PROVE  LET j == n.values[v].op
                     block == n.blocks[n.values[v].block]
                 IN  /\ valid_block(n, n.values[v].block)
                     /\ IF j = INVALID THEN v \in ElemsOf(block.params)
                        ELSE valid_op(n, j) /\ n.ops[j].dst = v /\ j \in ElemsOf(block.ops)
      <3>1. LET j == a.values[v].op
                block == a.blocks[a.values[v].block]
            IN  /\ valid_block(n, a.values[v].block)
                /\ IF j = INVALID THEN v \in ElemsOf(block.params)
                   ELSE valid_op(n, j) /\ n.ops[j].dst = v /\ j \in ElemsOf(block.ops)
        BY <2>1, <2>2, <2>3, <2>4, <2>6 DEF Linked
      <3> QED BY <2>6, <3>1, Zenon
    <2>8. \A j \in 1 .. Len(n.ops) : n.values[n.ops[j].dst].op = j
      BY <1>4, <2>1, <2>5, <2>6, Zenon DEF Linked
    <2> QED BY <2>7, <2>8, Zenon DEF Linked
  <1>9. ASSUME NEW v, value_is_global_const(a, v)
        PROVE  value_is_global_const(n, v)
    BY <1>2, <1>3, <1>9 DEF value_is_global_const, valid_value, valid_op
  <1>10. ASSUME NEW S, NEW v, value_is_available(a, S, v)
         PROVE  value_is_available(n, S, v)
    BY <1>2, <1>9, <1>10 DEF value_is_available, valid_value
  <1>11. ASSUME NEW b \in 1 .. Len(a.blocks)
         PROVE  VerifyBlock(n, b)
    <2>1. VerifyBlock(a, b)
      BY DEF Whole, xair_verify_module
    <2>2. VerifyParams(n, b)
      BY <1>2, <2>1 DEF VerifyBlock, VerifyParams, valid_value, TypeOf
    <2>3. \A i \in 1 .. Len(a.blocks[b].ops) : a.blocks[b].ops[i] \in 1 .. Len(a.ops)
      BY <2>1, Zenon DEF VerifyBlock, VerifyDestination, valid_op
    <2>4. Len(a.blocks[b].ops) \in Nat
      BY <1>1, ShapedParts, BlockParts
    <2>5. ASSUME NEW i \in 1 .. (Len(a.blocks[b].ops) + 1)
          PROVE  Available(n, b, i) = Available(a, b, i)
      <3>1. \A j \in 1 .. (i - 1) : j \in 1 .. Len(a.blocks[b].ops)
        BY <2>4
      <3>2. \A j \in 1 .. (i - 1) :
              n.ops[a.blocks[b].ops[j]].dst = a.ops[a.blocks[b].ops[j]].dst
        BY <1>4, <2>3, <3>1
      <3>3. {n.ops[a.blocks[b].ops[j]].dst : j \in 1 .. (i - 1)}
              = {a.ops[a.blocks[b].ops[j]].dst : j \in 1 .. (i - 1)}
        BY <3>2
      <3>4. n.blocks[b].ops = a.blocks[b].ops /\ n.blocks[b].params = a.blocks[b].params
        BY <1>2
      <3>5. Available(n, b, i) = ElemsOf(a.blocks[b].params)
                                   \cup {n.ops[a.blocks[b].ops[j]].dst : j \in 1 .. (i - 1)}
        BY <3>4 DEF Available
      <3> QED BY <3>3, <3>5 DEF Available
    <2>6. ASSUME NEW i \in 1 .. Len(a.blocks[b].ops)
          PROVE  /\ VerifyDestination(n, b, a.blocks[b].ops[i])
                 /\ VerifySources(n, b, i)
                 /\ verify_op(n, n.ops[a.blocks[b].ops[i]])
      <3>1. PICK j \in 1 .. Len(a.ops) : j = a.blocks[b].ops[i]
        BY <2>3
      <3>2. /\ VerifyDestination(a, b, j)
            /\ \A v \in ElemsOf(a.ops[j].src) : value_is_available(a, Available(a, b, i), v)
            /\ verify_op(a, a.ops[j])
        BY <2>1, <3>1 DEF VerifyBlock, VerifySources
      <3>3. VerifyDestination(n, b, j)
        BY <1>2, <1>3, <1>4, <3>2 DEF VerifyDestination, valid_op, valid_value
      <3>4. ElemsOf(n.ops[j].src) \subseteq ElemsOf(a.ops[j].src)
        BY <1>3
      <3>5. Available(n, b, i) = Available(a, b, i)
        <4>1. i \in 1 .. (Len(a.blocks[b].ops) + 1)
          BY <2>4, OneMore, Zenon
        <4> QED BY <2>5, <4>1
      <3>6. VerifySources(n, b, i)
        BY <1>2, <1>10, <3>1, <3>2, <3>4, <3>5, Zenon DEF VerifySources
      <3>7. verify_op(a, n.ops[j]) /\ n.ops[j].opcode \in Opcodes
        <4>1. a.ops[j].opcode \in Opcodes
          BY DEF Whole, Fields
        <4> QED BY <1>3, <3>2, <4>1
      <3>8. verify_op(n, n.ops[j])
        <4>1. \A v : TypeOf(n, v) = TypeOf(a, v)
          BY <1>2 DEF TypeOf
        <4>2. PICK x : x = n.ops[j]
          OBVIOUS
        <4>3. verify_op(a, x) /\ x.opcode \in Opcodes
          BY <3>7, <4>2
        <4>4. verify_op(n, x)
          <5>1. /\ TypeOf(n, x.dst) = TypeOf(a, x.dst)
                /\ \A k \in 1 .. Len(x.src) : TypeOf(n, x.src[k]) = TypeOf(a, x.src[k])
            BY <4>1
          <5> QED BY <4>3, <5>1, OpStaysVerified
        <4> QED BY <4>2, <4>4
      <3> QED BY <3>1, <3>3, <3>6, <3>8
    <2>7. verify_term(n, b)
      <3>1. verify_term(a, b)
        BY <2>1 DEF VerifyBlock
      <3>2. PICK S : S = Available(a, b, Len(a.blocks[b].ops) + 1)
        OBVIOUS
      <3>3. S = Available(n, b, Len(n.blocks[b].ops) + 1)
        <4>1. Len(a.blocks[b].ops) + 1 \in 1 .. (Len(a.blocks[b].ops) + 1)
          BY <2>4
        <4> QED BY <1>2, <2>5, <3>2, <4>1
      <3>4. TrueArgs(n, b) = TrueArgs(a, b) /\ FalseArgs(n, b) = FalseArgs(a, b)
        BY <1>2 DEF TrueArgs, FalseArgs, term_args
      <3>5. ASSUME NEW t, NEW args, verify_target_args(a, S, t, args)
            PROVE  verify_target_args(n, S, t, args)
        BY <1>2, <1>10, <3>5 DEF verify_target_args, valid_block, TypeOf
      <3>6. PICK term : term = a.blocks[b].term /\ term = n.blocks[b].term
        BY <1>2
      <3>7. CASE term.kind = "JUMP" /\ verify_target_args(a, S, term.true_target, TrueArgs(a, b))
        BY <3>3, <3>4, <3>5, <3>6, <3>7 DEF verify_term
      <3>8. CASE /\ term.kind = "CBRANCH"
                 /\ value_is_available(a, S, term.condition)
                 /\ is_i1(TypeOf(a, term.condition))
                 /\ verify_target_args(a, S, term.true_target, TrueArgs(a, b))
                 /\ verify_target_args(a, S, term.false_target, FalseArgs(a, b))
        <4>1. value_is_available(n, S, term.condition) /\ is_i1(TypeOf(n, term.condition))
          BY <1>2, <1>10, <3>8 DEF TypeOf
        <4> QED BY <3>3, <3>4, <3>5, <3>6, <3>8, <4>1 DEF verify_term
      <3>9. CASE /\ term.kind = "RETURN"
                 /\ \A v \in ElemsOf(TrueArgs(a, b)) : value_is_available(a, S, v)
        BY <1>10, <3>3, <3>4, <3>6, <3>9 DEF verify_term
      <3>10. CASE term.kind \in {"TRAP", "FAULT"}
        BY <3>6, <3>10 DEF verify_term
      <3> QED BY <3>1, <3>2, <3>6, <3>7, <3>8, <3>9, <3>10 DEF verify_term
    <2> QED BY <1>2, <2>2, <2>6, <2>7 DEF VerifyBlock
  <1> QED BY <1>2, <1>6, <1>7, <1>8, <1>11 DEF Whole, xair_verify_module

-----------------------------------------------------------------------------
(* Folding.                                                                *)

LEMMA UnaryFolds ==
  ASSUME NEW opcode, NEW out, NEW st, NEW x, opcode \in UnaryOps \ FlagReads,
         FoldUnary(opcode, out, st, x) # {}
  PROVE  (is_int(out) \/ is_addr(out)) /\ out.bits <= 64
  <1>1. CASE opcode \in {"ZEXT", "TRUNC"}
    BY <1>1 DEF FoldUnary
  <1>2. CASE opcode = "SEXT"
    BY <1>2 DEF FoldUnary
  <1>3. CASE opcode \in {"INT_TO_ADDR", "ADDR_TO_INT"}
    BY <1>3 DEF FoldUnary
  <1>4. CASE opcode = "FLAGS_LOGIC"
    BY <1>4 DEF FoldUnary
  <1> QED BY <1>1, <1>2, <1>3, <1>4 DEF UnaryOps

LEMMA BinaryFolds ==
  ASSUME NEW opcode, NEW out, NEW lt, NEW rt, NEW x, NEW y, opcode \in BinaryOps,
         FoldBinary(opcode, out, lt, rt, x, y) # {}
  PROVE  \/ opcode \in ArithOps \cup ShiftOps \cup {"CONCAT"} /\ is_int(out) /\ out.bits <= 64
         \/ opcode \in UnsignedCompares \cup SignedCompares
         \/ opcode \in AddrOps /\ is_addr(out) /\ out.bits <= 64
  <1>1. CASE opcode \in ArithOps \cup ShiftOps \cup {"CONCAT"}
    <2>1. opcode \notin UnsignedCompares \cup SignedCompares /\ opcode \notin AddrOps
      BY <1>1 DEF AddrOps, ArithOps, ShiftOps, UnsignedCompares, SignedCompares
    <2>2. is_int(out) /\ out.bits <= 64
      BY <1>1, <2>1 DEF FoldBinary
    <2> QED BY <1>1, <2>2
  <1>2. CASE opcode \in UnsignedCompares \cup SignedCompares
    BY <1>2
  <1>3. CASE opcode \in AddrOps
    <2>1. opcode \notin ArithOps \cup ShiftOps \cup {"CONCAT"} /\ opcode \notin UnsignedCompares \cup SignedCompares
      BY <1>3 DEF AddrOps, ArithOps, ShiftOps, UnsignedCompares, SignedCompares
    <2>2. is_addr(out) /\ out.bits <= 64
      BY <1>3, <2>1 DEF FoldBinary
    <2> QED BY <1>3, <2>2
  <1>4. CASE opcode \in FlagPairs
    <2>1. /\ opcode \notin ArithOps \cup ShiftOps \cup {"CONCAT"}
          /\ opcode \notin UnsignedCompares \cup SignedCompares /\ opcode \notin AddrOps
      BY <1>4 DEF AddrOps, ArithOps, ShiftOps, UnsignedCompares, SignedCompares, FlagPairs
    <2>2. FALSE
      BY <2>1 DEF FoldBinary
    <2> QED BY <2>2
  <1> QED BY <1>1, <1>2, <1>3, <1>4 DEF BinaryOps

(* What folds has a result that a constant can have.                       *)
LEMMA FoldsToConstant ==
  ASSUME NEW a, NEW op, op.opcode \in Opcodes, FoldedValue(a, op) # {}, verify_op(a, op)
  PROVE  /\ is_value_type(TypeOf(a, op.dst)) /\ TypeOf(a, op.dst).bits <= 64
         /\ is_int(TypeOf(a, op.dst)) \/ is_addr(TypeOf(a, op.dst))
  <1>1. PICK out : out = TypeOf(a, op.dst)
    OBVIOUS
  <1>2. is_value_type(out)
    BY <1>1 DEF verify_op
  <1>3. CASE op.opcode \in FlagReads
    <2>1. /\ op.opcode \in UnaryOps /\ op.opcode \notin {"CONST_U64", "LOAD", "STORE"}
          /\ op.opcode \notin BinaryOps
          /\ op.opcode \notin {"ZEXT", "SEXT", "TRUNC", "INT_TO_ADDR", "ADDR_TO_INT", "FLAGS_LOGIC"}
      BY <1>3 DEF UnaryOps, FlagReads, BinaryOps, ArithOps, ShiftOps, UnsignedCompares,
                  SignedCompares, AddrOps, FlagPairs
    <2>2. verify_unary_op(a, op)
      BY <2>1 DEF verify_op
    <2>3. is_i1(out)
      BY <1>1, <1>3, <2>1, <2>2 DEF verify_unary_op
    <2> QED BY <1>1, <1>2, <2>3 DEF is_i1, is_int
  <1>4. CASE op.opcode \in UnaryOps \ FlagReads
    <2>1. op.opcode \notin FlagReads /\ op.opcode \notin BinaryOps
      BY <1>4 DEF UnaryOps, FlagReads, BinaryOps, ArithOps, ShiftOps, UnsignedCompares,
                  SignedCompares, AddrOps, FlagPairs
    <2>2. PICK x \in const_u64_value(a, op.src[1]) :
            FoldUnary(op.opcode, out, TypeOf(a, op.src[1]), x) # {}
      BY <1>1, <1>4, <2>1 DEF FoldedValue
    <2> QED BY <1>1, <1>2, <1>4, <2>2, UnaryFolds
  <1>5. CASE op.opcode \in BinaryOps
    <2>1. /\ op.opcode \notin FlagReads /\ op.opcode \notin UnaryOps \ FlagReads
          /\ op.opcode \notin UnaryOps
          /\ op.opcode \notin {"CONST_U64", "LOAD", "STORE"}
      BY <1>5 DEF UnaryOps, FlagReads, BinaryOps, ArithOps, ShiftOps, UnsignedCompares,
                  SignedCompares, AddrOps, FlagPairs
    <2>2. PICK x \in const_u64_value(a, op.src[1]), y \in const_u64_value(a, op.src[2]) :
            FoldBinary(op.opcode, out, TypeOf(a, op.src[1]), TypeOf(a, op.src[2]), x, y) # {}
      BY <1>1, <1>5, <2>1 DEF FoldedValue
    <2>3. \/ op.opcode \in ArithOps \cup ShiftOps \cup {"CONCAT"} /\ is_int(out) /\ out.bits <= 64
          \/ op.opcode \in UnsignedCompares \cup SignedCompares
          \/ op.opcode \in AddrOps /\ is_addr(out) /\ out.bits <= 64
      BY <1>5, <2>2, BinaryFolds
    <2>4. CASE op.opcode \in UnsignedCompares \cup SignedCompares
      <3>1. verify_binary_op(a, op)
        BY <1>5, <2>1 DEF verify_op
      <3>2. /\ op.opcode \notin ArithOps /\ op.opcode \notin ShiftOps /\ op.opcode # "CONCAT"
            /\ op.opcode \notin AddrOps /\ op.opcode \notin FlagPairs
        BY <2>4 DEF ArithOps, ShiftOps, UnsignedCompares, SignedCompares, AddrOps, FlagPairs
      <3>3. is_i1(out)
        BY <1>1, <3>1, <3>2 DEF verify_binary_op
      <3> QED BY <1>1, <1>2, <3>3 DEF is_i1, is_int
    <2> QED BY <1>1, <1>2, <2>3, <2>4
  <1>6. CASE op.opcode \in {"CONST_U64", "LOAD", "STORE"}
    <2>1. /\ op.opcode \notin FlagReads /\ op.opcode \notin UnaryOps \ FlagReads
          /\ op.opcode \notin BinaryOps
      BY <1>6 DEF UnaryOps, FlagReads, BinaryOps, ArithOps, ShiftOps, UnsignedCompares,
                  SignedCompares, AddrOps, FlagPairs
    <2>2. FALSE
      BY <2>1 DEF FoldedValue
    <2> QED BY <2>2
  <1> QED BY <1>3, <1>4, <1>5, <1>6 DEF Opcodes

LEMMA FoldKeepsWhole ==
  ASSUME NEW a, Whole(a), NEW o \in 1 .. Len(a.ops), NEW n, n = fold_constant_op(a, o)
  PROVE  Whole(n) /\ n.vn = a.vn
  <1>1. PICK folded : folded = FoldedValue(a, a.ops[o])
    OBVIOUS
  <1>2. n = fold_to_const(a, o, folded)
    BY <1>1 DEF fold_constant_op
  <1>3. CASE folded = {}
    BY <1>2, <1>3 DEF fold_to_const
  <1>4. CASE folded # {}
    <2>1. PICK imm : imm = truncate_to_type(CHOOSE x \in folded : TRUE, TypeOf(a, a.ops[o].dst))
      OBVIOUS
    <2>2. PICK none : none = <<>>
      OBVIOUS
    <2>3. PICK op : op = [a.ops[o] EXCEPT !.opcode = "CONST_U64", !.src = none, !.endian = "LE",
                                          !.imm = imm]
      OBVIOUS
    <2>4. PICK U : Shaped(a, U)
      BY DEF Whole, Fields
    <2>5. PICK W : W = U \cup {"CONST_U64", none, "LE", imm}
      OBVIOUS
    <2>6. PICK old : old = a.ops[o] /\ old \in OpsOver(W) /\ old.opcode \in Opcodes
      <3>1. a.ops[o] \in OpsOver(U)
        BY <2>4, OpParts
      <3> QED BY <2>5, <3>1 DEF OpsOver, Whole, Fields
    <2>7. /\ op \in OpsOver(W) /\ op.dst = a.ops[o].dst /\ op.src = none
          /\ op.opcode = "CONST_U64"
      <3>1. "CONST_U64" \in W /\ none \in W /\ "LE" \in W /\ imm \in W
        BY <2>5
      <3> QED BY <2>3, <2>6, <3>1 DEF OpsOver
    <2>8. n = [a EXCEPT !.ops[o] = op]
      BY <1>2, <1>4, <2>1, <2>2, <2>3, <2>4 DEF fold_to_const, Shaped
    <2>9. none \in Seq(Nat) /\ ElemsOf(none) = {}
      BY <2>2 DEF ElemsOf
    <2>10. ASSUME verify_op(a, old)
           PROVE  verify_op(a, op)
      <3>1. /\ is_value_type(TypeOf(a, op.dst)) /\ TypeOf(a, op.dst).bits <= 64
            /\ is_int(TypeOf(a, op.dst)) \/ is_addr(TypeOf(a, op.dst))
        BY <1>1, <1>4, <2>6, <2>7, <2>10, FoldsToConstant
      <3>2. /\ op.opcode \notin UnaryOps /\ op.opcode \notin BinaryOps
            /\ op.opcode \notin {"LOAD", "STORE"}
        BY <2>7 DEF UnaryOps, FlagReads, BinaryOps, ArithOps, ShiftOps, UnsignedCompares,
                    SignedCompares, AddrOps, FlagPairs
      <3> QED BY <2>2, <2>7, <3>1, <3>2 DEF verify_op
    <2>11. op.opcode \in Opcodes
      BY <2>7 DEF Opcodes
    <2>12. op.src \in Seq(Nat) /\ ElemsOf(op.src) \subseteq ElemsOf(a.ops[o].src)
      BY <2>7, <2>9
    <2>13. verify_op(a, a.ops[o]) => verify_op(a, op)
      BY <2>6, <2>10
    <2> QED BY <2>7, <2>8, <2>11, <2>12, <2>13, OpReplaced, SMTT(30)
  <1> QED BY <1>3, <1>4

-----------------------------------------------------------------------------
(* Swapping operands, and the whole pass over the operations.              *)

(* The operands of a commutative operation have one type.                  *)
LEMMA SwappedVerifies ==
  ASSUME NEW a, NEW old, op_is_commutative(old.opcode), verify_op(a, old),
         NEW op, op.opcode = old.opcode, op.dst = old.dst, Len(op.src) = 2,
         op.src[1] = old.src[2], op.src[2] = old.src[1]
  PROVE  verify_op(a, op)
  <1>1. /\ op.opcode \in BinaryOps /\ op.opcode \notin UnaryOps
        /\ op.opcode \notin {"CONST_U64", "LOAD", "STORE"}
    BY DEF op_is_commutative, UnaryOps, FlagReads, BinaryOps, ArithOps, ShiftOps,
           UnsignedCompares, SignedCompares, AddrOps, FlagPairs
  <1>2. verify_binary_op(a, old) /\ is_value_type(TypeOf(a, old.dst))
    BY <1>1 DEF verify_op
  <1>3. /\ op.opcode \notin ShiftOps /\ op.opcode \notin SignedCompares /\ op.opcode # "CONCAT"
        /\ op.opcode \notin AddrOps
    BY DEF op_is_commutative, ShiftOps, SignedCompares, AddrOps
  <1>4. verify_binary_op(a, op)
    BY <1>2, <1>3 DEF verify_binary_op
  <1> QED BY <1>1, <1>2, <1>4 DEF verify_op

LEMMA ReorderKeepsWhole ==
  ASSUME NEW a, Whole(a), NEW o \in 1 .. Len(a.ops), NEW n, n = ReorderOperands(a, o)
  PROVE  Whole(n) /\ n.vn = a.vn
  <1>1. PICK U : Shaped(a, U)
    BY DEF Whole, Fields
  <1>2. PICK old : old = a.ops[o]
    OBVIOUS
  <1>3. old \in OpsOver(U) /\ old.src \in Seq(Nat) /\ old.opcode \in Opcodes
    BY <1>1, <1>2, OpParts DEF Whole, Fields
  <1>4. SUFFICES ASSUME Len(old.src) = 2, op_is_commutative(old.opcode), n # a
                 PROVE  Whole(n) /\ n.vn = a.vn
    BY <1>2 DEF ReorderOperands
  <1>5. PICK src : src = <<old.src[2], old.src[1]>>
    OBVIOUS
  <1>6. /\ src \in Seq(Nat) /\ Len(src) = 2 /\ src[1] = old.src[2] /\ src[2] = old.src[1]
    BY <1>3, <1>4, <1>5
  <1>7. PICK op : op = [old EXCEPT !.src = src]
    OBVIOUS
  <1>8. PICK W : W = U \cup {src}
    OBVIOUS
  <1>9. /\ op \in OpsOver(W) /\ op.dst = old.dst /\ op.opcode = old.opcode /\ op.src = src
    BY <1>3, <1>7, <1>8 DEF OpsOver
  <1>10. n = [a EXCEPT !.ops[o] = op]
    BY <1>1, <1>2, <1>4, <1>5, <1>7 DEF ReorderOperands, Shaped
  <1>11. ElemsOf(op.src) \subseteq ElemsOf(old.src)
    <2>1. \A i \in 1 .. 2 : src[i] \in ElemsOf(old.src)
      BY <1>4, <1>6 DEF ElemsOf
    <2> QED BY <1>6, <1>9, <2>1 DEF ElemsOf
  <1>12. verify_op(a, old) => verify_op(a, op)
    BY <1>4, <1>6, <1>9, SwappedVerifies
  <1>13. /\ op.dst = a.ops[o].dst /\ op.src \in Seq(Nat) /\ op.opcode \in Opcodes
         /\ ElemsOf(op.src) \subseteq ElemsOf(a.ops[o].src)
         /\ a.ops[o].opcode = "CONST_U64" => op.opcode = "CONST_U64"
         /\ verify_op(a, a.ops[o]) => verify_op(a, op)
    BY <1>2, <1>3, <1>6, <1>9, <1>11, <1>12
  <1> QED BY <1>9, <1>10, <1>13, OpReplaced, SMTT(30)

(* The pass over the operations leaves a module that verifies.             *)
LEMMA LocalOpsKeepWhole ==
  ASSUME NEW a, Whole(a)
  PROVE  Whole(canonicalize_local_ops(a)) /\ canonicalize_local_ops(a).vn = a.vn
  <1>1. PICK U : Shaped(a, U)
    BY DEF Whole, Fields
  <1>2. PICK k \in Nat : k = Len(a.ops)
    BY <1>1, ShapedParts
  <1>3. PICK f : f = CHOOSE g : LocalPass(a, k, g)
    OBVIOUS
  <1>4. LocalPass(a, k, f)
    BY <1>3, LocalPassExists, Zenon
  <1>5. canonicalize_local_ops(a) = f[k]
    BY <1>2, <1>3, Zenon DEF canonicalize_local_ops, LocalPass
  <1> DEFINE Holds(i) == Whole(f[i]) /\ Len(f[i].ops) = k /\ f[i].vn = a.vn
             S == {i \in Nat : i <= k => Holds(i)}
  <1>6. 0 \in S
    <2>1. f[0] = a
      BY <1>4 DEF LocalPass
    <2> QED BY <1>2, <2>1
  <1>7. ASSUME NEW i \in Nat, i \in S
        PROVE  i + 1 \in S
    <2>1. SUFFICES ASSUME i + 1 <= k
                   PROVE  Holds(i + 1)
      OBVIOUS
    <2>2. PICK p : p = f[i]
      OBVIOUS
    <2>3. Whole(p) /\ Len(p.ops) = k /\ p.vn = a.vn
      BY <1>7, <2>1, <2>2
    <2>4. PICK o \in 1 .. k : o = i + 1
      BY <2>1
    <2>5. PICK q : q = fold_constant_op(p, o)
      OBVIOUS
    <2>6. f[o] = ReorderOperands(q, o)
      <3>1. o \in 0 .. k /\ o # 0 /\ o - 1 = i
        BY <2>4
      <3> QED BY <1>4, <2>2, <2>5, <3>1 DEF LocalPass
    <2>7. PICK U2 : Shaped(p, U2)
      BY <2>3 DEF Whole, Fields
    <2>8. Whole(q) /\ q.vn = a.vn
      BY <2>3, <2>5, FoldKeepsWhole
    <2>9. Len(q.ops) = k
      BY <2>3, <2>5, <2>7, FoldRewrites DEF Rewritten
    <2>10. PICK U3 : Shaped(q, U3)
      BY <2>8 DEF Whole, Fields
    <2>11. Whole(f[o]) /\ f[o].vn = a.vn
      BY <2>6, <2>8, <2>9, ReorderKeepsWhole
    <2>12. Len(f[o].ops) = k
      BY <2>6, <2>9, <2>10, ReorderRewrites DEF Rewritten
    <2> QED BY <2>4, <2>11, <2>12
  <1>8. \A i \in Nat : i \in S
    <2> HIDE DEF S
    <2> QED BY <1>6, <1>7, InductionOnSet
  <1> QED BY <1>5, <1>8

-----------------------------------------------------------------------------
(* The live values.                                                        *)

(* The values reached from the roots in at most n steps.                   *)
Reaching(p, roots, n, f) ==
  f = [i \in 0 .. n |-> IF i = 0 THEN roots
                        ELSE f[i - 1] \cup UNION {SourcesOf(p, v) : v \in f[i - 1]}]

LEMMA ReachingExists ==
  ASSUME NEW p, NEW roots, NEW n \in Nat
  PROVE  \E f : Reaching(p, roots, n, f)
  <1> DEFINE S == {k \in Nat : \E f : Reaching(p, roots, k, f)}
             NextOf(f, i) == f[i - 1] \cup UNION {SourcesOf(p, v) : v \in f[i - 1]}
  <1>1. 0 \in S
    <2>1. PICK f : f = [i \in 0 .. 0 |-> roots]
      OBVIOUS
    <2>2. Reaching(p, roots, 0, f)
      BY <2>1 DEF Reaching
    <2> QED BY <2>2
  <1>2. ASSUME NEW k \in Nat, k \in S
        PROVE  k + 1 \in S
    <2>1. PICK f : Reaching(p, roots, k, f)
      BY <1>2
    <2>2. PICK g : g = [i \in 0 .. (k + 1) |-> IF i = k + 1 THEN NextOf(f, k + 1) ELSE f[i]]
      OBVIOUS
    <2>3. ASSUME NEW i \in 0 .. (k + 1)
          PROVE  g[i] = IF i = 0 THEN roots ELSE NextOf(g, i)
      <3>1. CASE i = k + 1
        <4>1. i - 1 = k /\ k \in 0 .. (k + 1) /\ k # k + 1 /\ i # 0 /\ (k + 1) - 1 = k
          BY <3>1
        <4>2. g[k] = f[k]
          BY <2>2, <4>1
        <4>3. g[i] = NextOf(f, k + 1)
          BY <2>2, <3>1
        <4> QED BY <3>1, <4>1, <4>2, <4>3
      <3>2. CASE i \in 0 .. k
        <4>1. i # k + 1 /\ (i # 0 => i - 1 \in 0 .. (k + 1) /\ i - 1 # k + 1)
          BY <3>2
        <4>2. g[i] = f[i] /\ (i # 0 => g[i - 1] = f[i - 1])
          BY <2>2, <4>1
        <4>3. f[i] = IF i = 0 THEN roots ELSE NextOf(f, i)
          BY <2>1, <3>2 DEF Reaching
        <4> QED BY <4>2, <4>3
      <3> QED BY <3>1, <3>2
    <2>4. g = [i \in 0 .. (k + 1) |-> IF i = 0 THEN roots ELSE NextOf(g, i)]
      <3> HIDE DEF NextOf
      <3> QED BY <2>2, <2>3
    <2>5. Reaching(p, roots, k + 1, g)
      BY <2>4 DEF Reaching
    <2> QED BY <2>5
  <1>3. \A k \in Nat : k \in S
    <2> HIDE DEF S
    <2> QED BY <1>1, <1>2, InductionOnSet
  <1> QED BY <1>3

(* As many rounds as there are values are enough: a round that is not the  *)
(* last reaches a value more.                                              *)
LEMMA LiveIsClosed ==
  ASSUME NEW p, NEW k \in Nat, k = Len(p.values), NEW roots \in SUBSET (1 .. k),
         \A v \in 1 .. k : SourcesOf(p, v) \subseteq 1 .. k,
         NEW live, live = mark_live_value(p, roots)
  PROVE  /\ roots \subseteq live /\ live \subseteq 1 .. k
         /\ \A v \in live : SourcesOf(p, v) \subseteq live
  <1>1. PICK f : f = CHOOSE g : Reaching(p, roots, k, g)
    OBVIOUS
  <1>2. Reaching(p, roots, k, f)
    BY <1>1, ReachingExists, Zenon
  <1>3. live = f[k]
    BY <1>1, Zenon DEF mark_live_value, Reaching
  <1> DEFINE Closed(S) == \A v \in S : SourcesOf(p, v) \subseteq S
             Holds(i) == /\ f[i] \subseteq 1 .. k /\ roots \subseteq f[i]
                         /\ Closed(f[i]) \/ i <= Cardinality(f[i])
             T == {i \in Nat : i <= k => Holds(i)}
  <1>4. IsFiniteSet(1 .. k) /\ Cardinality(1 .. k) = k
    <2>1. 1 \in Int /\ k \in Int /\ (IF 1 > k THEN 0 ELSE k - 1 + 1) = k
      OBVIOUS
    <2> QED BY <2>1, FS_Interval
  <1>5. \A S \in SUBSET (1 .. k) : IsFiniteSet(S) /\ Cardinality(S) \in Nat /\ Cardinality(S) <= k
    BY <1>4, FS_Subset, FS_CardinalityType
  <1>6. 0 \in T
    <2>1. f[0] = roots
      BY <1>2 DEF Reaching
    <2>2. Cardinality(roots) \in Nat
      BY <1>5
    <2>3. f[0] \subseteq 1 .. k /\ roots \subseteq f[0] /\ 0 <= Cardinality(f[0])
      BY <2>1, <2>2
    <2>4. Holds(0)
      BY <2>3
    <2> HIDE DEF Holds
    <2> QED BY <2>4
  <1>7. ASSUME NEW i \in Nat, i \in T
        PROVE  i + 1 \in T
    <2>1. SUFFICES ASSUME i + 1 <= k
                   PROVE  Holds(i + 1)
      OBVIOUS
    <2>2. Holds(i)
      BY <1>7, <2>1
    <2>3. PICK S : S = f[i]
      OBVIOUS
    <2>4. PICK R : R = f[i + 1]
      OBVIOUS
    <2>5. R = S \cup UNION {SourcesOf(p, v) : v \in S}
      <3>1. i + 1 \in 0 .. k /\ i + 1 # 0 /\ (i + 1) - 1 = i
        BY <2>1
      <3> QED BY <1>2, <2>3, <2>4, <3>1 DEF Reaching
    <2>6. S \subseteq 1 .. k /\ roots \subseteq S
      BY <2>2, <2>3
    <2>7. R \subseteq 1 .. k /\ roots \subseteq R
      BY <2>5, <2>6
    <2>8. CASE Closed(S)
      <3>1. R = S
        BY <2>5, <2>8
      <3> QED BY <2>4, <2>7, <2>8, <3>1
    <2>9. CASE ~Closed(S)
      <3>1. PICK x : x \in R /\ x \notin S
        BY <2>5, <2>9
      <3>2. i <= Cardinality(S) /\ IsFiniteSet(S) /\ Cardinality(S) \in Nat
        BY <1>5, <2>2, <2>3, <2>6, <2>9
      <3>3. Cardinality(S \cup {x}) = Cardinality(S) + 1
        BY <3>1, <3>2, FS_AddElement
      <3>4. IsFiniteSet(R) /\ Cardinality(R) \in Nat
        BY <1>5, <2>7
      <3>5. Cardinality(S \cup {x}) <= Cardinality(R)
        <4>1. S \cup {x} \in SUBSET R
          BY <2>5, <3>1
        <4> QED BY <3>4, <4>1, FS_Subset
      <3>6. i + 1 <= Cardinality(R)
        BY <3>2, <3>3, <3>4, <3>5
      <3> QED BY <2>4, <2>7, <3>6
    <2> QED BY <2>8, <2>9
  <1>8. \A i \in Nat : i \in T
    <2> HIDE DEF T
    <2> QED BY <1>6, <1>7, InductionOnSet
  <1>9. Holds(k)
    BY <1>8
  <1>10. CASE Closed(live)
    BY <1>3, <1>9, <1>10
  <1>11. CASE k <= Cardinality(live)
    <2>1. live \in SUBSET (1 .. k)
      BY <1>3, <1>9
    <2>2. Cardinality(live) = k
      BY <1>5, <1>11, <2>1
    <2>3. live = 1 .. k
      BY <1>4, <2>1, <2>2, FS_Subset
    <2> QED BY <2>3
  <1> QED BY <1>3, <1>9, <1>10, <1>11

-----------------------------------------------------------------------------
(* The orders in which what is kept is renumbered.                         *)

LEMMA LiveValuesOf ==
  ASSUME NEW p, Whole(p), NEW live, live = LiveValues(p)
  PROVE  /\ live \subseteq 1 .. Len(p.values)
         /\ \A b \in 1 .. Len(p.blocks) : mark_term_live_values(p, b) \subseteq live
         /\ \A v \in live : SourcesOf(p, v) \subseteq live
  <1>1. PICK U : Shaped(p, U)
    BY DEF Whole, Fields
  <1>2. PICK k \in Nat : k = Len(p.values)
    BY <1>1, ShapedParts
  <1>3. \A b \in 1 .. Len(p.blocks) : VerifyBlock(p, b)
    BY DEF Whole, xair_verify_module
  <1>4. PICK roots : roots = UNION {ElemsOf(p.blocks[b].params) \cup mark_term_live_values(p, b) :
                                      b \in 1 .. Len(p.blocks)}
    OBVIOUS
  <1>5. ASSUME NEW b \in 1 .. Len(p.blocks)
        PROVE  ElemsOf(p.blocks[b].params) \subseteq 1 .. k
    BY <1>2, <1>3 DEF VerifyBlock, VerifyParams, valid_value
  <1>6. ASSUME NEW b \in 1 .. Len(p.blocks)
        PROVE  mark_term_live_values(p, b) \subseteq 1 .. k
    <2>1. PICK term : term = p.blocks[b].term
      OBVIOUS
    <2>2. \A S, t, args : verify_target_args(p, S, t, args) => ElemsOf(args) \subseteq 1 .. k
      BY <1>2 DEF verify_target_args, value_is_available, valid_value, ElemsOf
    <2>3. verify_term(p, b)
      BY <1>3 DEF VerifyBlock
    <2>4. /\ term.kind \in {"JUMP", "RETURN"} => ElemsOf(TrueArgs(p, b)) \subseteq 1 .. k
          /\ term.kind = "CBRANCH" => /\ term.condition \in 1 .. k
                                      /\ ElemsOf(TrueArgs(p, b)) \subseteq 1 .. k
                                      /\ ElemsOf(FalseArgs(p, b)) \subseteq 1 .. k
      BY <1>2, <2>1, <2>2, <2>3 DEF verify_term, value_is_available, valid_value
    <2> QED BY <2>1, <2>4 DEF mark_term_live_values
  <1>7. roots \in SUBSET (1 .. k)
    BY <1>4, <1>5, <1>6
  <1>8. ASSUME NEW v \in 1 .. k
        PROVE  SourcesOf(p, v) \subseteq 1 .. k
    <2>1. SUFFICES ASSUME valid_op(p, p.values[v].op)
                   PROVE  ElemsOf(p.ops[p.values[v].op].src) \subseteq 1 .. k
      BY DEF SourcesOf
    <2>2. PICK o \in 1 .. Len(p.ops) : o = p.values[v].op
      BY <2>1 DEF valid_op
    <2>3. o # INVALID
      BY DEF INVALID
    <2>4. PICK b \in 1 .. Len(p.blocks) : o \in ElemsOf(p.blocks[b].ops)
      BY <1>2, <2>2, <2>3 DEF Whole, Linked, valid_block
    <2>5. PICK i \in 1 .. Len(p.blocks[b].ops) : o = p.blocks[b].ops[i]
      BY <2>4 DEF ElemsOf
    <2>6. VerifySources(p, b, i)
      BY <1>3 DEF VerifyBlock
    <2> QED BY <1>2, <2>2, <2>5, <2>6 DEF VerifySources, value_is_available, valid_value
  <1>9. live = mark_live_value(p, roots)
    BY <1>4 DEF LiveValues
  <1>10. /\ roots \subseteq live /\ live \subseteq 1 .. k
         /\ \A v \in live : SourcesOf(p, v) \subseteq live
    BY <1>2, <1>7, <1>8, <1>9, LiveIsClosed
  <1>11. \A b \in 1 .. Len(p.blocks) : mark_term_live_values(p, b) \subseteq roots
    BY <1>4
  <1> QED BY <1>2, <1>10, <1>11

-----------------------------------------------------------------------------
(* Sequences whose elements are pairwise related, the earlier to the later.*)

Related(R, s) == \A i, j \in 1 .. Len(s) : i < j => <<s[i], s[j]>> \in R
AllRelated(R, s, t) == \A x \in ElemsOf(s), y \in ElemsOf(t) : <<x, y>> \in R

LEMMA ConcatRelated ==
  ASSUME NEW S, NEW R, NEW s \in Seq(S), NEW t \in Seq(S),
         Related(R, s), Related(R, t), AllRelated(R, s, t)
  PROVE  Related(R, s \o t)
  <1>1. PICK l \in Nat, k \in Nat : l = Len(s) /\ k = Len(t)
    OBVIOUS
  <1>2. /\ Len(s \o t) = l + k
        /\ \A i \in 1 .. l : (s \o t)[i] = s[i]
        /\ \A i \in 1 .. (l + k) : i > l => i - l \in 1 .. k /\ (s \o t)[i] = t[i - l]
    BY <1>1
  <1>3. PICK u : u = s \o t
    OBVIOUS
  <1>4. ASSUME NEW i \in 1 .. (l + k), NEW j \in 1 .. (l + k), i < j
        PROVE  <<u[i], u[j]>> \in R
    <2>1. CASE j <= l
      <3>1. i \in 1 .. l /\ j \in 1 .. l
        BY <1>4, <2>1
      <3> QED BY <1>1, <1>2, <1>3, <1>4, <3>1 DEF Related
    <2>2. CASE i <= l /\ j > l
      <3>1. i \in 1 .. l /\ j - l \in 1 .. k
        BY <2>2
      <3>2. u[i] = s[i] /\ u[j] = t[j - l]
        BY <1>2, <1>3, <2>2, <3>1
      <3>3. s[i] \in ElemsOf(s) /\ t[j - l] \in ElemsOf(t)
        BY <1>1, <3>1 DEF ElemsOf
      <3> QED BY <3>2, <3>3 DEF AllRelated
    <2>3. CASE i > l
      <3>1. i - l \in 1 .. k /\ j - l \in 1 .. k /\ i - l < j - l
        BY <1>4, <2>3
      <3>2. u[i] = t[i - l] /\ u[j] = t[j - l]
        <4>1. i > l /\ j > l
          BY <1>4, <2>3
        <4> QED BY <1>2, <1>3, <4>1
      <3> QED BY <1>1, <3>1, <3>2 DEF Related
    <2> QED BY <2>1, <2>2, <2>3
  <1> QED BY <1>2, <1>3, <1>4 DEF Related

LEMMA FlattenRelated ==
  ASSUME NEW S, NEW R, NEW s \in Seq(Seq(S)),
         \A i \in 1 .. Len(s) : Related(R, s[i]),
         \A i, j \in 1 .. Len(s) : i < j => AllRelated(R, s[i], s[j])
  PROVE  Related(R, FlattenSeq(s))
  <1>1. PICK n \in Nat : n = Len(s)
    OBVIOUS
  <1>2. CASE n = 0
    <2>1. FlattenSeq(s) = s
      BY <1>1, <1>2 DEF FlattenSeq
    <2>2. \A i : i \notin 1 .. Len(s)
      BY <1>1, <1>2
    <2> QED BY <2>1, <2>2 DEF Related
  <1>3. CASE n # 0
    <2>1. PICK f : f = CHOOSE g : Flattened(s, n, g)
      OBVIOUS
    <2>2. Flattened(s, n, f)
      BY <2>1, FlattenedExists, Zenon
    <2>3. FlattenSeq(s) = f[n]
      BY <1>1, <1>3, <2>1, Zenon DEF FlattenSeq, Flattened
    <2> DEFINE Holds(k) == /\ f[k] \in Seq(S) /\ Related(R, f[k])
                           /\ \A x \in ElemsOf(f[k]) : \E i \in 1 .. k : x \in ElemsOf(s[i])
               T == {k \in Nat : k # 0 /\ k <= n => Holds(k)}
    <2>4. 0 \in T
      OBVIOUS
    <2>5. ASSUME NEW k \in Nat, k \in T
          PROVE  k + 1 \in T
      <3>1. SUFFICES ASSUME k + 1 <= n
                     PROVE  Holds(k + 1)
        OBVIOUS
      <3>2. k + 1 \in 1 .. n /\ s[k + 1] \in Seq(S) /\ Related(R, s[k + 1])
        BY <1>1, <3>1
      <3>3. CASE k = 0
        <4>1. f[1] = s[1]
          BY <2>2, <3>2, <3>3 DEF Flattened
        <4> QED BY <3>2, <3>3, <4>1
      <3>4. CASE k # 0
        <4>1. Holds(k)
          BY <2>5, <3>1, <3>4
        <4>2. f[k + 1] = f[k] \o s[k + 1]
          <5>1. k + 1 # 1 /\ (k + 1) - 1 = k
            BY <3>4
          <5> QED BY <2>2, <3>2, <5>1 DEF Flattened
        <4>3. /\ f[k + 1] \in Seq(S)
              /\ ElemsOf(f[k + 1]) = ElemsOf(f[k]) \cup ElemsOf(s[k + 1])
          BY <3>2, <4>1, <4>2, ConcatElements
        <4>4. \A i : i \in 1 .. (k + 1) <=> i \in 1 .. k \/ i = k + 1
          OBVIOUS
        <4>5. AllRelated(R, f[k], s[k + 1])
          <5>1. \A i \in 1 .. k : i \in 1 .. n /\ i < k + 1
            BY <3>1
          <5> QED BY <1>1, <3>2, <4>1, <5>1 DEF AllRelated
        <4>6. Related(R, f[k + 1])
          BY <3>2, <4>1, <4>2, <4>5, ConcatRelated
        <4> QED BY <4>1, <4>3, <4>4, <4>6
      <3> QED BY <3>3, <3>4
    <2>6. \A k \in Nat : k \in T
      <3> HIDE DEF T
      <3> QED BY <2>4, <2>5, InductionOnSet
    <2>7. Holds(n)
      <3> HIDE DEF Holds
      <3> QED BY <1>3, <2>6
    <2> QED BY <1>1, <2>3, <2>7
  <1> QED BY <1>2, <1>3

Ascending == {r \in Nat \X Nat : r[1] < r[2]}
Different == {r \in Nat \X Nat : r[1] # r[2]}

LEMMA PairsRelated ==
  ASSUME NEW x \in Nat, NEW y \in Nat
  PROVE  /\ <<x, y>> \in Ascending <=> x < y
         /\ <<x, y>> \in Different <=> x # y
  <1>1. <<x, y>> \in Nat \X Nat /\ <<x, y>>[1] = x /\ <<x, y>>[2] = y
    BY Zenon
  <1> QED BY <1>1 DEF Ascending, Different

LEMMA BlockOwned ==
  ASSUME NEW p, Whole(p), NEW b \in 1 .. Len(p.blocks)
  PROVE  /\ p.blocks[b].params \in Seq(Nat) /\ p.blocks[b].ops \in Seq(Nat)
         /\ \A i, j \in 1 .. Len(p.blocks[b].params) :
              i < j => p.blocks[b].params[i] < p.blocks[b].params[j]
         /\ \A i, j \in 1 .. Len(p.blocks[b].ops) :
              i < j => p.blocks[b].ops[i] < p.blocks[b].ops[j]
  <1>1. PICK U : Shaped(p, U)
    BY DEF Whole, Fields
  <1>2. p.blocks[b].params \in Seq(Nat) /\ p.blocks[b].ops \in Seq(Nat)
    BY <1>1, ShapedParts, BlockParts, Zenon
  <1>3. OwnsLists(p, b)
    BY DEF Whole
  <1> QED BY <1>2, <1>3, Zenon DEF OwnsLists

LEMMA ParamOwned ==
  ASSUME NEW p, Whole(p), NEW b \in 1 .. Len(p.blocks), NEW v \in ElemsOf(p.blocks[b].params)
  PROVE  v \in 1 .. Len(p.values) /\ p.values[v].block = b /\ p.values[v].op = INVALID
  <1>1. OwnsLists(p, b)
    BY DEF Whole
  <1> QED BY <1>1, Zenon DEF OwnsLists, ElemsOf, valid_value

LEMMA OpOwned ==
  ASSUME NEW p, Whole(p), NEW b \in 1 .. Len(p.blocks), NEW o \in ElemsOf(p.blocks[b].ops)
  PROVE  /\ o \in 1 .. Len(p.ops) /\ p.ops[o].dst \in 1 .. Len(p.values)
         /\ p.values[p.ops[o].dst].block = b /\ p.values[p.ops[o].dst].op = o
  <1>1. VerifyBlock(p, b)
    BY DEF Whole, xair_verify_module
  <1> QED BY <1>1, Zenon DEF VerifyBlock, VerifyDestination, ElemsOf, valid_value, valid_op

(* The operations of a block that are kept, in the order they had.         *)
LEMMA KeptOpsOf ==
  ASSUME NEW p, Whole(p), NEW b \in 1 .. Len(p.blocks), NEW live,
         NEW kept, kept = KeptOps(p, b, live)
  PROVE  /\ kept \in Seq(Nat)
         /\ \A o : o \in ElemsOf(kept) <=> o \in ElemsOf(p.blocks[b].ops) /\ p.ops[o].dst \in live
         /\ \A i, j \in 1 .. Len(kept) : i < j => kept[i] < kept[j]
  <1>1. PICK ops \in Seq(Nat) : ops = p.blocks[b].ops
    BY BlockOwned
  <1>2. PICK none : none = <<>>
    OBVIOUS
  <1>3. none \in Seq(Nat) /\ Len(none) = 0 /\ ElemsOf(none) = {}
    BY <1>2 DEF ElemsOf
  <1> DEFINE keep(o) == IF p.ops[o].dst \in live THEN <<o>> ELSE none
  <1>4. PICK parts : parts = [i \in 1 .. Len(ops) |-> keep(ops[i])]
    OBVIOUS
  <1>5. PICK k \in Nat : k = Len(ops)
    OBVIOUS
  <1>6. \A i \in 1 .. k : ops[i] \in Nat
    BY <1>5
  <1>7. ASSUME NEW o \in Nat
        PROVE  /\ keep(o) \in Seq(Nat) /\ Len(keep(o)) \in 0 .. 1
               /\ \A x : x \in ElemsOf(keep(o)) <=> x = o /\ p.ops[o].dst \in live
    <2>1. CASE p.ops[o].dst \in live
      <3>1. <<o>> \in Seq(Nat) /\ Len(<<o>>) = 1 /\ \A x : x \in ElemsOf(<<o>>) <=> x = o
        BY DEF ElemsOf
      <3> QED BY <2>1, <3>1
    <2>2. CASE p.ops[o].dst \notin live
      <3>1. keep(o) = none
        BY <2>2
      <3> QED BY <1>3, <2>2, <3>1
    <2> QED BY <2>1, <2>2
  <1>8. kept = FlattenSeq(parts)
    BY <1>1, <1>2, <1>4, Zenon DEF KeptOps
  <1> HIDE DEF keep
  <1>9. parts \in Seq(Seq(Nat)) /\ Len(parts) = k /\ \A i \in 1 .. k : parts[i] = keep(ops[i])
    BY <1>4, <1>5, <1>6, <1>7
  <1>10. /\ kept \in Seq(Nat)
         /\ \A x : x \in ElemsOf(kept) <=> \E i \in 1 .. k : x \in ElemsOf(parts[i])
    BY <1>8, <1>9, FlattenElements
  <1>11. \A x : x \in ElemsOf(kept) <=> \E i \in 1 .. k : x = ops[i] /\ p.ops[ops[i]].dst \in live
    <2>1. ASSUME NEW x, NEW i \in 1 .. k
          PROVE  x \in ElemsOf(parts[i]) <=> x = ops[i] /\ p.ops[ops[i]].dst \in live
      <3>1. PICK o \in Nat : o = ops[i]
        BY <1>6
      <3>2. parts[i] = keep(o)
        BY <1>9, <3>1
      <3>3. x \in ElemsOf(keep(o)) <=> x = o /\ p.ops[o].dst \in live
        BY <1>7
      <3> QED BY <3>1, <3>2, <3>3
    <2> QED BY <1>10, <2>1
  <1>12. \A o : o \in ElemsOf(kept) <=> o \in ElemsOf(ops) /\ p.ops[o].dst \in live
    BY <1>5, <1>11, Zenon DEF ElemsOf
  <1>13. Related(Ascending, kept)
    <2>1. \A i \in 1 .. k : Related(Ascending, parts[i])
      <3>1. \A i \in 1 .. k : Len(parts[i]) \in 0 .. 1
        BY <1>6, <1>7, <1>9
      <3> QED BY <3>1 DEF Related
    <2>2. ASSUME NEW i \in 1 .. k, NEW j \in 1 .. k, i < j
          PROVE  AllRelated(Ascending, parts[i], parts[j])
      <3>1. ops[i] < ops[j]
        BY <1>1, <1>5, <2>2, BlockOwned
      <3>2. <<ops[i], ops[j]>> \in Ascending
        BY <1>6, <3>1, PairsRelated
      <3>3. \A x \in ElemsOf(parts[i]), y \in ElemsOf(parts[j]) : x = ops[i] /\ y = ops[j]
        BY <1>6, <1>7, <1>9
      <3> QED BY <3>2, <3>3 DEF AllRelated
    <2> QED BY <1>8, <1>9, <2>1, <2>2, FlattenRelated
  <1>14. ASSUME NEW i \in 1 .. Len(kept), NEW j \in 1 .. Len(kept), i < j
         PROVE  kept[i] < kept[j]
    <2>1. <<kept[i], kept[j]>> \in Ascending
      BY <1>13, <1>14 DEF Related
    <2>2. kept[i] \in Nat /\ kept[j] \in Nat
      BY <1>10, ElementAt, Zenon
    <2> QED BY <2>1, <2>2, PairsRelated
  <1> QED BY <1>1, <1>10, <1>12, <1>14

(* What one block contributes to the order of the values.                  *)
BlockPart(p, b, live) == p.blocks[b].params \o DstsOf(p, KeptOps(p, b, live))

LEMMA PartOf ==
  ASSUME NEW p, Whole(p), NEW b \in 1 .. Len(p.blocks), NEW live,
         NEW part, part = BlockPart(p, b, live)
  PROVE  /\ part \in Seq(Nat) /\ Related(Different, part)
         /\ \A v \in ElemsOf(part) : /\ v \in 1 .. Len(p.values) /\ p.values[v].block = b
                                     /\ p.values[v].op = INVALID \/ v \in live
         /\ \A v \in ElemsOf(p.blocks[b].params) : v \in ElemsOf(part)
         /\ \A o \in ElemsOf(p.blocks[b].ops) :
              p.ops[o].dst \in live => p.ops[o].dst \in ElemsOf(part)
  <1>1. PICK params \in Seq(Nat) : params = p.blocks[b].params
    BY BlockOwned
  <1>2. PICK kept : kept = KeptOps(p, b, live)
    OBVIOUS
  <1>3. /\ kept \in Seq(Nat) /\ \A o \in ElemsOf(kept) : o \in ElemsOf(p.blocks[b].ops)
        /\ \A i, j \in 1 .. Len(kept) : i < j => kept[i] < kept[j]
    BY <1>2, KeptOpsOf
  <1>4. PICK k \in Nat : k = Len(kept)
    BY <1>3
  <1>5. \A i \in 1 .. k : /\ kept[i] \in ElemsOf(kept) /\ kept[i] \in Nat \ {0}
                          /\ p.ops[kept[i]].dst \in Nat
                          /\ p.values[p.ops[kept[i]].dst].op = kept[i]
    <2>1. \A i \in 1 .. k : kept[i] \in ElemsOf(kept)
      BY <1>4 DEF ElemsOf
    <2>2. \A o \in ElemsOf(p.blocks[b].ops) :
            o \in Nat \ {0} /\ p.ops[o].dst \in Nat /\ p.values[p.ops[o].dst].op = o
      <3>1. \A o \in ElemsOf(p.blocks[b].ops) :
              /\ o \in 1 .. Len(p.ops) /\ p.ops[o].dst \in 1 .. Len(p.values)
              /\ p.values[p.ops[o].dst].op = o
        BY OpOwned
      <3> QED BY <3>1
    <2> QED BY <1>3, <2>1, <2>2
  <1>6. PICK dsts : dsts = [i \in 1 .. k |-> p.ops[kept[i]].dst]
    OBVIOUS
  <1>7. dsts \in Seq(Nat) /\ Len(dsts) = k /\ \A i \in 1 .. k : dsts[i] = p.ops[kept[i]].dst
    <2>1. \A i \in 1 .. k : p.ops[kept[i]].dst \in Nat
      BY <1>5
    <2> QED BY <1>6, <2>1
  <1>8. part = params \o dsts
    BY <1>1, <1>2, <1>4, <1>6 DEF DstsOf, BlockPart
  <1>9. part \in Seq(Nat) /\ ElemsOf(part) = ElemsOf(params) \cup ElemsOf(dsts)
    BY <1>7, <1>8, ConcatElements
  <1>10. \A v : v \in ElemsOf(dsts) <=> \E o \in ElemsOf(kept) : v = p.ops[o].dst
    <2>1. \A v : v \in ElemsOf(dsts) <=> \E i \in 1 .. k : v = p.ops[kept[i]].dst
      BY <1>7 DEF ElemsOf
    <2>2. \A o : o \in ElemsOf(kept) <=> \E i \in 1 .. k : o = kept[i]
      BY <1>4 DEF ElemsOf
    <2> QED BY <2>1, <2>2, Zenon
  <1>11. Related(Different, params)
    <2>1. ASSUME NEW i \in 1 .. Len(params), NEW j \in 1 .. Len(params), i < j
          PROVE  <<params[i], params[j]>> \in Different
      <3>1. params[i] \in Nat /\ params[j] \in Nat
        BY <1>1, ElementAt, Zenon
      <3>2. params[i] < params[j]
        BY <1>1, <2>1, BlockOwned
      <3> QED BY <3>1, <3>2, PairsRelated
    <2> QED BY <2>1 DEF Related
  <1>12. Related(Different, dsts)
    <2>1. ASSUME NEW i \in 1 .. k, NEW j \in 1 .. k, i < j
          PROVE  <<dsts[i], dsts[j]>> \in Different
      <3>1. kept[i] # kept[j]
        <4>1. kept[i] < kept[j]
          BY <1>3, <1>4, <2>1
        <4>2. kept[i] \in Nat /\ kept[j] \in Nat
          BY <1>5, <2>1
        <4> QED BY <4>1, <4>2
      <3>2. dsts[i] # dsts[j] /\ dsts[i] \in Nat /\ dsts[j] \in Nat
        BY <1>5, <1>7, <3>1
      <3> QED BY <3>2, PairsRelated
    <2> QED BY <1>7, <2>1 DEF Related
  <1>13. AllRelated(Different, params, dsts)
    <2>1. ASSUME NEW x \in ElemsOf(params), NEW y \in ElemsOf(dsts)
          PROVE  <<x, y>> \in Different
      <3>1. x \in Nat /\ p.values[x].op = 0
        <4>1. x \in 1 .. Len(p.values) /\ p.values[x].op = INVALID
          BY <1>1, ParamOwned
        <4> QED BY <4>1 DEF INVALID
      <3>2. PICK i \in 1 .. k : y = p.ops[kept[i]].dst
        BY <1>7 DEF ElemsOf
      <3>3. x # y /\ y \in Nat
        BY <1>5, <3>1, <3>2
      <3> QED BY <3>1, <3>3, PairsRelated
    <2> QED BY <2>1 DEF AllRelated
  <1>14. Related(Different, part)
    BY <1>7, <1>8, <1>11, <1>12, <1>13, ConcatRelated
  <1>15. \A o : o \in ElemsOf(kept) <=> o \in ElemsOf(p.blocks[b].ops) /\ p.ops[o].dst \in live
    BY <1>2, KeptOpsOf
  <1>16. ASSUME NEW v \in ElemsOf(part)
         PROVE  /\ v \in 1 .. Len(p.values) /\ p.values[v].block = b
                /\ p.values[v].op = INVALID \/ v \in live
    <2>1. CASE v \in ElemsOf(params)
      BY <1>1, <2>1, ParamOwned
    <2>2. CASE v \in ElemsOf(dsts)
      <3>1. PICK o \in ElemsOf(kept) : v = p.ops[o].dst
        BY <1>10, <2>2
      <3>2. o \in ElemsOf(p.blocks[b].ops) /\ v \in live
        BY <1>15, <3>1
      <3>3. p.ops[o].dst \in 1 .. Len(p.values) /\ p.values[p.ops[o].dst].block = b
        BY <3>2, OpOwned
      <3> QED BY <3>1, <3>2, <3>3
    <2> QED BY <1>9, <2>1, <2>2
  <1>17. \A o \in ElemsOf(p.blocks[b].ops) :
           p.ops[o].dst \in live => p.ops[o].dst \in ElemsOf(part)
    BY <1>9, <1>10, <1>15
  <1> QED BY <1>1, <1>9, <1>14, <1>16, <1>17

Distinct(s) == \A i, j \in 1 .. Len(s) : s[i] = s[j] => i = j

LEMMA RelatedDistinct ==
  ASSUME NEW s \in Seq(Nat), Related(Different, s)
  PROVE  Distinct(s)
  <1>1. ASSUME NEW i \in 1 .. Len(s), NEW j \in 1 .. Len(s), i < j
        PROVE  s[i] # s[j]
    <2>1. s[i] \in Nat /\ s[j] \in Nat /\ <<s[i], s[j]>> \in Different
      BY <1>1 DEF Related
    <2> QED BY <2>1, PairsRelated
  <1>2. ASSUME NEW i \in 1 .. Len(s), NEW j \in 1 .. Len(s), i # j
        PROVE  i < j \/ j < i
    BY <1>2
  <1> QED BY <1>1, <1>2 DEF Distinct

(* The values that stay: the parameters and what is live.                  *)
LEMMA ValuesOrdered ==
  ASSUME NEW p, Whole(p), NEW live, NEW values, values = ValueOrder(p, live)
  PROVE  /\ values \in Seq(Nat) /\ Distinct(values)
         /\ \A v : v \in ElemsOf(values) <=> v \in 1 .. Len(p.values)
                                             /\ (p.values[v].op = INVALID \/ v \in live)
  <1>1. PICK n \in Nat : n = Len(p.blocks)
    BY ShapedParts DEF Whole, Fields
  <1> DEFINE part(b) == BlockPart(p, b, live)
  <1>2. ASSUME NEW b \in 1 .. n
        PROVE  /\ part(b) \in Seq(Nat) /\ Related(Different, part(b))
               /\ \A v : v \in ElemsOf(part(b)) =>
                     /\ v \in 1 .. Len(p.values) /\ p.values[v].block = b
                     /\ p.values[v].op = INVALID \/ v \in live
               /\ \A v \in ElemsOf(p.blocks[b].params) : v \in ElemsOf(part(b))
               /\ \A o \in ElemsOf(p.blocks[b].ops) :
                    p.ops[o].dst \in live => p.ops[o].dst \in ElemsOf(part(b))
    <2>1. PICK s : s = part(b)
      OBVIOUS
    <2>2. b \in 1 .. Len(p.blocks) /\ s = BlockPart(p, b, live)
      BY <1>1, <2>1
    <2> QED BY <2>1, <2>2, PartOf
  <1>3. PICK parts : parts = [b \in 1 .. n |-> part(b)]
    OBVIOUS
  <1>4. values = FlattenSeq(parts)
    BY <1>1, <1>3 DEF ValueOrder, ConcatBlocks, BlockPart
  <1> HIDE DEF part
  <1>5. /\ parts \in Seq(Seq(Nat)) /\ Len(parts) = n
        /\ \A b \in 1 .. n : parts[b] = part(b)
    BY <1>2, <1>3
  <1>6. /\ values \in Seq(Nat)
        /\ \A x : x \in ElemsOf(values) <=> \E b \in 1 .. n : x \in ElemsOf(parts[b])
    BY <1>4, <1>5, FlattenElements
  <1>7. Related(Different, values)
    <2>1. \A b \in 1 .. n : Related(Different, parts[b])
      BY <1>2, <1>5
    <2>2. ASSUME NEW b \in 1 .. n, NEW c \in 1 .. n, b < c
          PROVE  AllRelated(Different, parts[b], parts[c])
      <3>1. ASSUME NEW x \in ElemsOf(parts[b]), NEW y \in ElemsOf(parts[c])
            PROVE  <<x, y>> \in Different
        <4>1. /\ x \in 1 .. Len(p.values) /\ p.values[x].block = b
              /\ y \in 1 .. Len(p.values) /\ p.values[y].block = c
          BY <1>2, <1>5
        <4>2. x \in Nat /\ y \in Nat /\ x # y
          BY <2>2, <4>1
        <4> QED BY <4>2, PairsRelated
      <3> QED BY <3>1 DEF AllRelated
    <2> QED BY <1>4, <1>5, <2>1, <2>2, FlattenRelated
  <1>8. Distinct(values)
    BY <1>6, <1>7, RelatedDistinct
  <1>9. ASSUME NEW v \in ElemsOf(values)
        PROVE  v \in 1 .. Len(p.values) /\ (p.values[v].op = INVALID \/ v \in live)
    BY <1>2, <1>5, <1>6
  <1>10. ASSUME NEW v \in 1 .. Len(p.values), p.values[v].op = INVALID \/ v \in live
         PROVE  v \in ElemsOf(values)
    <2>1. PICK b \in 1 .. n : b = p.values[v].block
      BY <1>1 DEF Whole, Linked, valid_block
    <2>2. CASE p.values[v].op = INVALID
      <3>1. v \in ElemsOf(p.blocks[b].params)
        BY <2>1, <2>2 DEF Whole, Linked
      <3> QED BY <1>2, <1>5, <1>6, <3>1
    <2>3. CASE p.values[v].op # INVALID
      <3>1. PICK o : o = p.values[v].op
        OBVIOUS
      <3>2. p.ops[o].dst = v /\ o \in ElemsOf(p.blocks[b].ops)
        BY <2>1, <2>3, <3>1 DEF Whole, Linked
      <3>3. v \in ElemsOf(part(b))
        BY <1>2, <1>10, <2>3, <3>2
      <3> QED BY <1>5, <1>6, <3>3
    <2> QED BY <2>2, <2>3
  <1> QED BY <1>6, <1>8, <1>9, <1>10

(* The operations that stay: those with a live result.                     *)
LEMMA OpsOrdered ==
  ASSUME NEW p, Whole(p), NEW live, NEW ops, ops = OpOrder(p, live)
  PROVE  /\ ops \in Seq(Nat) /\ Distinct(ops)
         /\ \A o : o \in ElemsOf(ops) <=>
                     \E b \in 1 .. Len(p.blocks) :
                       o \in ElemsOf(p.blocks[b].ops) /\ p.ops[o].dst \in live
  <1>1. PICK n \in Nat : n = Len(p.blocks)
    BY ShapedParts DEF Whole, Fields
  <1> DEFINE part(b) == KeptOps(p, b, live)
  <1>2. ASSUME NEW b \in 1 .. n
        PROVE  /\ part(b) \in Seq(Nat) /\ Related(Different, part(b))
               /\ \A o : o \in ElemsOf(part(b)) <=>
                           o \in ElemsOf(p.blocks[b].ops) /\ p.ops[o].dst \in live
    <2>1. PICK s : s = part(b)
      OBVIOUS
    <2>2. /\ s \in Seq(Nat)
          /\ \A o : o \in ElemsOf(s) <=> o \in ElemsOf(p.blocks[b].ops) /\ p.ops[o].dst \in live
          /\ \A i, j \in 1 .. Len(s) : i < j => s[i] < s[j]
      BY <1>1, <2>1, KeptOpsOf
    <2>3. ASSUME NEW i \in 1 .. Len(s), NEW j \in 1 .. Len(s), i < j
          PROVE  <<s[i], s[j]>> \in Different
      <3>1. s[i] \in Nat /\ s[j] \in Nat /\ s[i] # s[j]
        BY <2>2, <2>3
      <3> QED BY <3>1, PairsRelated
    <2>4. Related(Different, s)
      BY <2>3 DEF Related
    <2> HIDE DEF part
    <2> QED BY <2>1, <2>2, <2>4
  <1>3. PICK parts : parts = [b \in 1 .. n |-> part(b)]
    OBVIOUS
  <1>4. ops = FlattenSeq(parts)
    BY <1>1, <1>3 DEF OpOrder, ConcatBlocks
  <1> HIDE DEF part
  <1>5. /\ parts \in Seq(Seq(Nat)) /\ Len(parts) = n
        /\ \A b \in 1 .. n : parts[b] = part(b)
    BY <1>2, <1>3
  <1>6. /\ ops \in Seq(Nat)
        /\ \A x : x \in ElemsOf(ops) <=> \E b \in 1 .. n : x \in ElemsOf(parts[b])
    BY <1>4, <1>5, FlattenElements
  <1>7. Related(Different, ops)
    <2>1. \A b \in 1 .. n : Related(Different, parts[b])
      BY <1>2, <1>5
    <2>2. ASSUME NEW b \in 1 .. n, NEW c \in 1 .. n, b < c
          PROVE  AllRelated(Different, parts[b], parts[c])
      <3>1. ASSUME NEW x \in ElemsOf(parts[b]), NEW y \in ElemsOf(parts[c])
            PROVE  <<x, y>> \in Different
        <4>1. x \in ElemsOf(p.blocks[b].ops) /\ y \in ElemsOf(p.blocks[c].ops)
          BY <1>2, <1>5
        <4>2. /\ x \in 1 .. Len(p.ops) /\ p.values[p.ops[x].dst].block = b
              /\ y \in 1 .. Len(p.ops) /\ p.values[p.ops[y].dst].block = c
          <5>1. b \in 1 .. Len(p.blocks) /\ c \in 1 .. Len(p.blocks)
            BY <1>1
          <5>2. x \in 1 .. Len(p.ops) /\ p.values[p.ops[x].dst].block = b
            BY <4>1, <5>1, OpOwned
          <5>3. y \in 1 .. Len(p.ops) /\ p.values[p.ops[y].dst].block = c
            BY <4>1, <5>1, OpOwned
          <5> QED BY <5>2, <5>3
        <4>3. x \in Nat /\ y \in Nat /\ x # y
          BY <2>2, <4>2
        <4> QED BY <4>3, PairsRelated
      <3> QED BY <3>1 DEF AllRelated
    <2> QED BY <1>4, <1>5, <2>1, <2>2, FlattenRelated
  <1>8. Distinct(ops)
    BY <1>6, <1>7, RelatedDistinct
  <1> QED BY <1>1, <1>2, <1>5, <1>6, <1>8

(* In an order without repetitions, an identifier is where MapTo says.     *)
LEMMA MapToInverts ==
  ASSUME NEW order \in Seq(Nat), Distinct(order)
  PROVE  /\ \A id \in ElemsOf(order) : /\ MapTo(order, id) \in 1 .. Len(order)
                                       /\ order[MapTo(order, id)] = id
         /\ \A i \in 1 .. Len(order) : order[i] \in ElemsOf(order) /\ MapTo(order, order[i]) = i
         /\ \A id : id \notin ElemsOf(order) => MapTo(order, id) = INVALID
  <1>1. ASSUME NEW id \in ElemsOf(order)
        PROVE  MapTo(order, id) \in 1 .. Len(order) /\ order[MapTo(order, id)] = id
    <2>1. \E i \in 1 .. Len(order) : order[i] = id
      BY DEF ElemsOf
    <2> QED BY <2>1 DEF MapTo
  <1>2. ASSUME NEW i \in 1 .. Len(order)
        PROVE  order[i] \in ElemsOf(order) /\ MapTo(order, order[i]) = i
    <2>1. order[i] \in ElemsOf(order)
      BY DEF ElemsOf
    <2>2. PICK k : k = MapTo(order, order[i])
      OBVIOUS
    <2>3. k \in 1 .. Len(order) /\ order[k] = order[i]
      BY <1>1, <2>1, <2>2
    <2> QED BY <2>1, <2>2, <2>3 DEF Distinct
  <1>3. \A id : id \notin ElemsOf(order) => MapTo(order, id) = INVALID
    BY DEF MapTo
  <1> QED BY <1>1, <1>2, <1>3

-----------------------------------------------------------------------------
(* Renumbering.                                                            *)

(* What renumbering p does: values and operations that stay are found in n *)
(* at the place their order gives them, and nothing else is.               *)
KeptValue(p, live, v) == v \in 1 .. Len(p.values) /\ (p.values[v].op = INVALID \/ v \in live)
KeptOp(p, live, o) ==
  \E b \in 1 .. Len(p.blocks) : o \in ElemsOf(p.blocks[b].ops) /\ p.ops[o].dst \in live

ValuesRenamed(p, live, values, ops, n) ==
  /\ \A v : KeptValue(p, live, v) =>
       /\ MapTo(values, v) \in 1 .. Len(n.values)
       /\ n.values[MapTo(values, v)].type = p.values[v].type
       /\ n.values[MapTo(values, v)].block = p.values[v].block
       /\ n.values[MapTo(values, v)].op = MapTo(ops, p.values[v].op)
  /\ \A i \in 1 .. Len(n.values) : \E v : KeptValue(p, live, v) /\ i = MapTo(values, v)

OpsRenamed(p, live, values, ops, n) ==
  /\ MapTo(ops, INVALID) = INVALID
  /\ \A o : KeptOp(p, live, o) =>
       /\ MapTo(ops, o) \in 1 .. Len(n.ops)
       /\ n.ops[MapTo(ops, o)].opcode = p.ops[o].opcode
       /\ n.ops[MapTo(ops, o)].dst = MapTo(values, p.ops[o].dst)
       /\ n.ops[MapTo(ops, o)].src = MapSeq(values, p.ops[o].src)
  /\ \A j \in 1 .. Len(n.ops) : \E o : KeptOp(p, live, o) /\ j = MapTo(ops, o)

TermRenamed(values, old, new) ==
  /\ new.kind = old.kind
  /\ new.true_target = old.true_target /\ new.false_target = old.false_target
  /\ new.true_arg_offset = old.true_arg_offset /\ new.true_arg_count = old.true_arg_count
  /\ new.false_arg_offset = old.false_arg_offset /\ new.false_arg_count = old.false_arg_count
  /\ old.kind = "CBRANCH" => new.condition = MapTo(values, old.condition)

BlocksRenamed(p, live, values, ops, n) ==
  /\ Len(n.blocks) = Len(p.blocks)
  /\ \A b \in 1 .. Len(p.blocks) :
       /\ n.blocks[b].params = MapSeq(values, p.blocks[b].params)
       /\ n.blocks[b].ops = MapSeq(ops, KeptOps(p, b, live))
       /\ TermRenamed(values, p.blocks[b].term, n.blocks[b].term)

(* A value, an operation under its new identifiers.                        *)
RemapValue(p, values, ops, i) == [p.values[values[i]] EXCEPT !.op = MapTo(ops, @)]
RemapOp(p, values, ops, i) ==
  [p.ops[ops[i]] EXCEPT !.dst = MapTo(values, @), !.src = MapSeq(values, @)]

(* The parts of a renumbered module.                                       *)
Remapped(p, live, values, ops, n) ==
  /\ Len(n.values) = Len(values) /\ Len(n.ops) = Len(ops)
  /\ \A i \in 1 .. Len(values) : n.values[i] = RemapValue(p, values, ops, i)
  /\ \A i \in 1 .. Len(ops) : n.ops[i] = RemapOp(p, values, ops, i)
  /\ Len(n.blocks) = Len(p.blocks)
  /\ \A b \in 1 .. Len(p.blocks) : n.blocks[b] = RemapBlock(p, b, values, ops, live)
  /\ n.term_args = remap_args(p, values) /\ n.vn = p.vn

LEMMA RenumberedParts ==
  ASSUME NEW p, Whole(p), NEW live,
         NEW values \in Seq(Nat), NEW ops \in Seq(Nat), NEW n, RenumberedTo(p, live, values, ops, n)
  PROVE  Remapped(p, live, values, ops, n)
  <1>1. PICK U : Shaped(p, U)
    BY DEF Whole, Fields
  <1>2. PICK vs, os, bs : /\ vs = Len(values) /\ os = Len(ops) /\ bs = Len(p.blocks)
                          /\ vs \in Nat /\ os \in Nat /\ bs \in Nat
    <2>1. Len(values) \in Nat /\ Len(ops) \in Nat
      OBVIOUS
    <2>2. Len(p.blocks) \in Nat
      BY <1>1, ShapedParts
    <2> QED BY <2>1, <2>2
  <1>3. PICK nvalues : nvalues = [i \in 1 .. vs |-> RemapValue(p, values, ops, i)]
    OBVIOUS
  <1>4. PICK nops : nops = [i \in 1 .. os |-> RemapOp(p, values, ops, i)]
    OBVIOUS
  <1>5. PICK nblocks : nblocks = [b \in 1 .. bs |-> RemapBlock(p, b, values, ops, live)]
    OBVIOUS
  <1>6. PICK nargs : nargs = remap_args(p, values)
    OBVIOUS
  <1>7. n = [p EXCEPT !.values = nvalues, !.ops = nops, !.blocks = nblocks, !.term_args = nargs]
    BY <1>2, <1>3, <1>4, <1>5, <1>6, Zenon DEF RenumberedTo, RemapValue, RemapOp
  <1>8. /\ n.values = nvalues /\ n.ops = nops /\ n.blocks = nblocks /\ n.term_args = nargs
        /\ n.vn = p.vn
    BY <1>1, <1>7 DEF Shaped
  <1>9. Len(nvalues) = vs /\ \A i \in 1 .. vs : nvalues[i] = RemapValue(p, values, ops, i)
    BY <1>2, <1>3
  <1>10. Len(nops) = os /\ \A i \in 1 .. os : nops[i] = RemapOp(p, values, ops, i)
    BY <1>2, <1>4
  <1>11. Len(nblocks) = bs /\ \A b \in 1 .. bs : nblocks[b] = RemapBlock(p, b, values, ops, live)
    BY <1>2, <1>5
  <1> QED BY <1>2, <1>6, <1>8, <1>9, <1>10, <1>11 DEF Remapped

LEMMA RenumberedValues ==
  ASSUME NEW p, Whole(p), NEW live, NEW values, values = ValueOrder(p, live),
         NEW ops, ops = OpOrder(p, live), NEW n, RenumberedTo(p, live, values, ops, n)
  PROVE  ValuesRenamed(p, live, values, ops, n)
  <1>1. /\ values \in Seq(Nat) /\ Distinct(values)
        /\ \A v : v \in ElemsOf(values) <=> KeptValue(p, live, v)
    BY ValuesOrdered DEF KeptValue
  <1>2. ops \in Seq(Nat)
    BY OpsOrdered
  <1>3. /\ Len(n.values) = Len(values)
        /\ \A i \in 1 .. Len(values) : n.values[i] = RemapValue(p, values, ops, i)
    <2>1. Remapped(p, live, values, ops, n)
      BY <1>1, <1>2, RenumberedParts
    <2> QED BY <2>1 DEF Remapped
  <1>4. ASSUME NEW v, KeptValue(p, live, v)
        PROVE  /\ MapTo(values, v) \in 1 .. Len(n.values)
               /\ n.values[MapTo(values, v)].type = p.values[v].type
               /\ n.values[MapTo(values, v)].block = p.values[v].block
               /\ n.values[MapTo(values, v)].op = MapTo(ops, p.values[v].op)
    <2>1. PICK i : i = MapTo(values, v)
      OBVIOUS
    <2>2. i \in 1 .. Len(values) /\ values[i] = v
      BY <1>1, <1>4, <2>1, MapToInverts
    <2>3. PICK old : old = p.values[v]
      OBVIOUS
    <2>4. old \in ValueRecs
      BY <1>4, <2>3 DEF KeptValue, Whole, Fields
    <2>5. PICK op : op = MapTo(ops, old.op)
      OBVIOUS
    <2>6. n.values[i] = [old EXCEPT !.op = op]
      BY <1>3, <2>2, <2>3, <2>4, <2>5 DEF ValueRecs, RemapValue
    <2>7. /\ n.values[i].type = old.type /\ n.values[i].block = old.block
          /\ n.values[i].op = op
      BY <2>4, <2>6 DEF ValueRecs
    <2> QED BY <1>3, <2>1, <2>2, <2>3, <2>5, <2>7
  <1>5. ASSUME NEW i \in 1 .. Len(n.values)
        PROVE  \E v : KeptValue(p, live, v) /\ i = MapTo(values, v)
    <2>1. values[i] \in ElemsOf(values) /\ MapTo(values, values[i]) = i
      BY <1>1, <1>3, MapToInverts
    <2> QED BY <1>1, <2>1
  <1> QED BY <1>4, <1>5, Zenon DEF ValuesRenamed

LEMMA RenumberedOps ==
  ASSUME NEW p, Whole(p), NEW live, NEW values, values = ValueOrder(p, live),
         NEW ops, ops = OpOrder(p, live), NEW n, RenumberedTo(p, live, values, ops, n)
  PROVE  OpsRenamed(p, live, values, ops, n)
  <1>1. /\ ops \in Seq(Nat) /\ Distinct(ops)
        /\ \A o : o \in ElemsOf(ops) <=> KeptOp(p, live, o)
    BY OpsOrdered DEF KeptOp
  <1>2. values \in Seq(Nat)
    BY ValuesOrdered
  <1>3. /\ Len(n.ops) = Len(ops)
        /\ \A i \in 1 .. Len(ops) : n.ops[i] = RemapOp(p, values, ops, i)
    <2>1. Remapped(p, live, values, ops, n)
      BY <1>1, <1>2, RenumberedParts
    <2> QED BY <2>1 DEF Remapped
  <1>4. ASSUME NEW o, KeptOp(p, live, o)
        PROVE  o \in 1 .. Len(p.ops)
    BY <1>4, OpOwned DEF KeptOp
  <1>5. MapTo(ops, INVALID) = INVALID
    <2>1. ~KeptOp(p, live, INVALID)
      BY <1>4 DEF INVALID
    <2> QED BY <1>1, <2>1, MapToInverts
  <1>6. ASSUME NEW o, KeptOp(p, live, o)
        PROVE  /\ MapTo(ops, o) \in 1 .. Len(n.ops)
               /\ n.ops[MapTo(ops, o)].opcode = p.ops[o].opcode
               /\ n.ops[MapTo(ops, o)].dst = MapTo(values, p.ops[o].dst)
               /\ n.ops[MapTo(ops, o)].src = MapSeq(values, p.ops[o].src)
    <2>1. PICK i : i = MapTo(ops, o)
      OBVIOUS
    <2>2. i \in 1 .. Len(ops) /\ ops[i] = o
      BY <1>1, <1>6, <2>1, MapToInverts
    <2>3. PICK old : old = p.ops[o]
      OBVIOUS
    <2>4. PICK U : old \in OpsOver(U)
      BY <1>4, <1>6, <2>3, OpParts DEF Whole, Fields
    <2>5. PICK dst, src : dst = MapTo(values, old.dst) /\ src = MapSeq(values, old.src)
      OBVIOUS
    <2>6. n.ops[i] = [old EXCEPT !.dst = dst, !.src = src]
      BY <1>3, <2>2, <2>3, <2>4, <2>5 DEF OpsOver, RemapOp
    <2>7. n.ops[i].opcode = old.opcode /\ n.ops[i].dst = dst /\ n.ops[i].src = src
      BY <2>4, <2>6 DEF OpsOver
    <2> QED BY <1>3, <2>1, <2>2, <2>3, <2>5, <2>7
  <1>7. ASSUME NEW j \in 1 .. Len(n.ops)
        PROVE  \E o : KeptOp(p, live, o) /\ j = MapTo(ops, o)
    <2>1. ops[j] \in ElemsOf(ops) /\ MapTo(ops, ops[j]) = j
      BY <1>1, <1>3, MapToInverts
    <2> QED BY <1>1, <2>1
  <1> QED BY <1>5, <1>6, <1>7, Zenon DEF OpsRenamed

LEMMA RenumberedBlocks ==
  ASSUME NEW p, Whole(p), NEW live, NEW values \in Seq(Nat), NEW ops \in Seq(Nat),
         NEW n, RenumberedTo(p, live, values, ops, n)
  PROVE  BlocksRenamed(p, live, values, ops, n)
  <1>1. /\ Len(n.blocks) = Len(p.blocks)
        /\ \A b \in 1 .. Len(p.blocks) : n.blocks[b] = RemapBlock(p, b, values, ops, live)
    <2>1. Remapped(p, live, values, ops, n)
      BY RenumberedParts
    <2> QED BY <2>1 DEF Remapped
  <1>2. ASSUME NEW b \in 1 .. Len(p.blocks)
        PROVE  /\ n.blocks[b].params = MapSeq(values, p.blocks[b].params)
               /\ n.blocks[b].ops = MapSeq(ops, KeptOps(p, b, live))
               /\ TermRenamed(values, p.blocks[b].term, n.blocks[b].term)
    <2>1. PICK U : p.blocks \in Seq(BlocksOver(U))
      BY ShapedParts DEF Whole, Fields
    <2>2. PICK params, l, term : p.blocks[b] = [params |-> params, ops |-> l, term |-> term]
      <3>1. p.blocks[b] \in BlocksOver(U)
        BY <2>1
      <3> QED BY <3>1 DEF BlocksOver
    <2>3. p.blocks[b].params = params /\ p.blocks[b].term = term
      BY <2>2
    <2>4. term \in TermRecs
      BY <2>3 DEF Whole, Fields
    <2>5. PICK x, y : x = MapSeq(values, params) /\ y = MapSeq(ops, KeptOps(p, b, live))
      OBVIOUS
    <2>6. PICK c : c = IF term.kind = "CBRANCH" THEN MapTo(values, term.condition)
                       ELSE term.condition
      OBVIOUS
    <2>7. n.blocks[b] = [params |-> x, ops |-> y, term |-> [term EXCEPT !.condition = c]]
      <3>1. n.blocks[b] = [[params |-> params, ops |-> l, term |-> term] EXCEPT
                             !.params = MapSeq(values, @), !.ops = MapSeq(ops, KeptOps(p, b, live)),
                             !.term.condition = IF term.kind = "CBRANCH" THEN MapTo(values, @)
                                                ELSE @]
        BY <1>1, <2>2, <2>3 DEF RemapBlock
      <3>2. PICK t : t = [term EXCEPT !.condition = IF term.kind = "CBRANCH" THEN MapTo(values, @)
                                                    ELSE @]
        OBVIOUS
      <3>3. t = [term EXCEPT !.condition = c]
        BY <2>4, <2>6, <3>2 DEF TermRecs
      <3>4. n.blocks[b] = [params |-> x, ops |-> y, term |-> t]
        BY <2>5, <3>1, <3>2
      <3> QED BY <3>3, <3>4
    <2>8. PICK t : t = [term EXCEPT !.condition = c]
      OBVIOUS
    <2>9. TermRenamed(values, term, t)
      BY <2>4, <2>6, <2>8 DEF TermRenamed, TermRecs
    <2>10. n.blocks[b].params = x /\ n.blocks[b].ops = y /\ n.blocks[b].term = t
      BY <2>7, <2>8
    <2> QED BY <2>3, <2>5, <2>9, <2>10
  <1> QED BY <1>1, <1>2 DEF BlocksRenamed

(* The stretches of the pool that b's terminator passes are rewritten.     *)
OwnedBy(t) ==
  CASE t.kind \in {"JUMP", "RETURN"} -> ArgRange(t.true_arg_offset, t.true_arg_count)
    [] t.kind = "CBRANCH" -> ArgRange(t.true_arg_offset, t.true_arg_count)
                               \cup ArgRange(t.false_arg_offset, t.false_arg_count)
    [] OTHER -> {}

LEMMA ArgsRemapped ==
  ASSUME NEW p, Whole(p), NEW values, NEW args, args = remap_args(p, values),
         NEW b \in 1 .. Len(p.blocks), NEW i \in OwnedBy(p.blocks[b].term),
         i \in 1 .. Len(p.term_args)
  PROVE  args[i] = MapTo(values, p.term_args[i])
  <1>1. PICK owned : owned = UNION {OwnedBy(p.blocks[c].term) : c \in 1 .. Len(p.blocks)}
    OBVIOUS
  <1>2. args = [k \in 1 .. Len(p.term_args) |->
                  IF k \in owned THEN MapTo(values, p.term_args[k]) ELSE p.term_args[k]]
    BY <1>1, Zenon DEF remap_args, OwnedBy
  <1>3. i \in owned
    BY <1>1
  <1> QED BY <1>2, <1>3

(* The arguments a renumbered terminator passes.                           *)
ArgsRenamed(values, old, new) ==
  Len(new) = Len(old) /\ \A i \in 1 .. Len(old) : new[i] = MapTo(values, old[i])

LEMMA StretchRenamed ==
  ASSUME NEW p, Whole(p), NEW values, NEW n, n.term_args = remap_args(p, values),
         NEW b \in 1 .. Len(p.blocks), NEW k \in Nat, NEW count \in Nat,
         ArgRange(k, count) \subseteq OwnedBy(p.blocks[b].term),
         ArgRange(k, count) \subseteq 1 .. Len(p.term_args)
  PROVE  ArgsRenamed(values, term_args(p, k, count), term_args(n, k, count))
  <1>1. \A i \in 1 .. count :
          k + i \in OwnedBy(p.blocks[b].term) /\ k + i \in 1 .. Len(p.term_args)
    BY StretchIndices DEF ArgRange
  <1>2. ASSUME NEW i \in 1 .. count
        PROVE  n.term_args[k + i] = MapTo(values, p.term_args[k + i])
    <2>1. PICK args : args = n.term_args /\ args = remap_args(p, values)
      OBVIOUS
    <2>2. PICK j : j = k + i
      OBVIOUS
    <2>3. args[j] = MapTo(values, p.term_args[j])
      BY <1>1, <2>1, <2>2, ArgsRemapped
    <2> QED BY <2>1, <2>2, <2>3
  <1>3. PICK old, new : old = term_args(p, k, count) /\ new = term_args(n, k, count)
    OBVIOUS
  <1>4. /\ Len(old) = count /\ \A i \in 1 .. count : old[i] = p.term_args[k + i]
        /\ Len(new) = count /\ \A i \in 1 .. count : new[i] = n.term_args[k + i]
    BY <1>3 DEF term_args
  <1> QED BY <1>2, <1>3, <1>4 DEF ArgsRenamed

LEMMA TermArgsRenamed ==
  ASSUME NEW p, Whole(p), NEW values, NEW n, n.term_args = remap_args(p, values),
         NEW b \in 1 .. Len(p.blocks), TermRenamed(values, p.blocks[b].term, n.blocks[b].term)
  PROVE  /\ p.blocks[b].term.kind \in {"JUMP", "CBRANCH", "RETURN"} =>
              ArgsRenamed(values, TrueArgs(p, b), TrueArgs(n, b))
         /\ p.blocks[b].term.kind = "CBRANCH" =>
              ArgsRenamed(values, FalseArgs(p, b), FalseArgs(n, b))
  <1>1. PICK t : t = p.blocks[b].term
    OBVIOUS
  <1>2. t \in TermRecs
    BY <1>1 DEF Whole, Fields
  <1>3. PICK k, count, l, fcount :
          /\ k = t.true_arg_offset /\ count = t.true_arg_count
          /\ l = t.false_arg_offset /\ fcount = t.false_arg_count
    OBVIOUS
  <1>4. k \in Nat /\ count \in Nat /\ l \in Nat /\ fcount \in Nat
    BY <1>2, <1>3 DEF TermRecs
  <1>5. /\ TrueArgs(p, b) = term_args(p, k, count) /\ TrueArgs(n, b) = term_args(n, k, count)
        /\ FalseArgs(p, b) = term_args(p, l, fcount) /\ FalseArgs(n, b) = term_args(n, l, fcount)
    BY <1>1, <1>3, Zenon DEF TrueArgs, FalseArgs, TermRenamed
  <1>6. /\ ArgRange(k, count) \subseteq 1 .. Len(p.term_args)
        /\ ArgRange(l, fcount) \subseteq 1 .. Len(p.term_args)
    <2>1. OwnsArgs(p, b)
      BY DEF Whole
    <2> QED BY <1>1, <1>3, <2>1 DEF OwnsArgs, ArgRange
  <1>7. ASSUME t.kind \in {"JUMP", "CBRANCH", "RETURN"}
        PROVE  ArgsRenamed(values, TrueArgs(p, b), TrueArgs(n, b))
    <2>1. ArgRange(k, count) \subseteq OwnedBy(p.blocks[b].term)
      BY <1>1, <1>3, <1>7 DEF OwnedBy
    <2> QED BY <1>4, <1>5, <1>6, <2>1, StretchRenamed
  <1>8. ASSUME t.kind = "CBRANCH"
        PROVE  ArgsRenamed(values, FalseArgs(p, b), FalseArgs(n, b))
    <2>1. ArgRange(l, fcount) \subseteq OwnedBy(p.blocks[b].term)
      BY <1>1, <1>3, <1>8 DEF OwnedBy
    <2> QED BY <1>4, <1>5, <1>6, <2>1, StretchRenamed
  <1> QED BY <1>1, <1>7, <1>8

(* A module p whose live values are kept, and the renumbered module n.     *)
Renamed(p, live, values, ops, n) ==
  /\ Whole(p) /\ live = LiveValues(p)
  /\ ValuesRenamed(p, live, values, ops, n)
  /\ OpsRenamed(p, live, values, ops, n)
  /\ BlocksRenamed(p, live, values, ops, n)
  /\ n.term_args = remap_args(p, values)
  /\ Len(values) \in Nat /\ Len(ops) \in Nat

LEMMA RenumberedRenames ==
  ASSUME NEW p, Whole(p), NEW live, live = LiveValues(p),
         NEW values, values = ValueOrder(p, live), NEW ops, ops = OpOrder(p, live),
         NEW n, RenumberedTo(p, live, values, ops, n)
  PROVE  Renamed(p, live, values, ops, n) /\ n.vn = p.vn
  <1>1. values \in Seq(Nat) /\ Len(values) \in Nat
    BY ValuesOrdered
  <1>2. ops \in Seq(Nat) /\ Len(ops) \in Nat
    BY OpsOrdered
  <1>3. n.term_args = remap_args(p, values) /\ n.vn = p.vn
    <2>1. Remapped(p, live, values, ops, n)
      BY <1>1, <1>2, RenumberedParts
    <2> QED BY <2>1 DEF Remapped
  <1>4. ValuesRenamed(p, live, values, ops, n)
    BY RenumberedValues
  <1>5. OpsRenamed(p, live, values, ops, n)
    BY RenumberedOps
  <1>6. BlocksRenamed(p, live, values, ops, n)
    BY <1>1, <1>2, RenumberedBlocks
  <1> QED BY <1>1, <1>2, <1>3, <1>4, <1>5, <1>6 DEF Renamed

(* A kept value under its new identifier.                                  *)
LEMMA ValueRenamed ==
  ASSUME NEW p, NEW live, NEW values, NEW ops, NEW n, Renamed(p, live, values, ops, n),
         NEW v, KeptValue(p, live, v)
  PROVE  /\ valid_value(n, MapTo(values, v)) /\ TypeOf(n, MapTo(values, v)) = TypeOf(p, v)
         /\ n.values[MapTo(values, v)].block = p.values[v].block
         /\ n.values[MapTo(values, v)].op = MapTo(ops, p.values[v].op)
  BY DEF Renamed, ValuesRenamed, valid_value, TypeOf

(* A constant that is used stays a constant.                               *)
LEMMA ConstRenamed ==
  ASSUME NEW p, NEW live, NEW values, NEW ops, NEW n, Renamed(p, live, values, ops, n),
         NEW v \in live, value_is_global_const(p, v)
  PROVE  value_is_global_const(n, MapTo(values, v))
  <1>1. PICK o : o = p.values[v].op
    OBVIOUS
  <1>2. o \in 1 .. Len(p.ops) /\ p.ops[o].opcode = "CONST_U64" /\ v \in 1 .. Len(p.values)
    BY <1>1 DEF value_is_global_const, valid_value, valid_op
  <1>3. KeptOp(p, live, o)
    <2>1. o # INVALID
      BY <1>2 DEF INVALID
    <2>2. p.values[v].block \in 1 .. Len(p.blocks) /\ p.ops[o].dst = v
          /\ o \in ElemsOf(p.blocks[p.values[v].block].ops)
      BY <1>1, <1>2, <2>1 DEF Renamed, Whole, Linked, valid_block
    <2> QED BY <2>2 DEF KeptOp
  <1>4. MapTo(ops, o) \in 1 .. Len(n.ops) /\ n.ops[MapTo(ops, o)].opcode = "CONST_U64"
    BY <1>2, <1>3 DEF Renamed, OpsRenamed
  <1>5. KeptValue(p, live, v)
    BY <1>2 DEF KeptValue
  <1>6. valid_value(n, MapTo(values, v)) /\ n.values[MapTo(values, v)].op = MapTo(ops, o)
    BY <1>1, <1>5, ValueRenamed
  <1> QED BY <1>4, <1>6 DEF value_is_global_const, valid_op

(* The operations of a block, before and after: position i of the new list *)
(* holds the operation from some position k of the old one.                *)
LEMMA OpRenamed ==
  ASSUME NEW p, NEW live, NEW values, NEW ops, NEW n, Renamed(p, live, values, ops, n),
         NEW b \in 1 .. Len(p.blocks), NEW kept, kept = KeptOps(p, b, live)
  PROVE  /\ Len(n.blocks[b].ops) = Len(kept) /\ Len(kept) \in Nat
         /\ \A i \in 1 .. Len(kept) :
              /\ n.blocks[b].ops[i] = MapTo(ops, kept[i])
              /\ kept[i] \in ElemsOf(p.blocks[b].ops) /\ p.ops[kept[i]].dst \in live
              /\ MapTo(ops, kept[i]) \in 1 .. Len(n.ops)
              /\ n.ops[MapTo(ops, kept[i])].opcode = p.ops[kept[i]].opcode
              /\ n.ops[MapTo(ops, kept[i])].dst = MapTo(values, p.ops[kept[i]].dst)
              /\ n.ops[MapTo(ops, kept[i])].src = MapSeq(values, p.ops[kept[i]].src)
  <1>1. Whole(p)
    BY DEF Renamed
  <1>2. kept \in Seq(Nat)
        /\ \A o : o \in ElemsOf(kept) <=> o \in ElemsOf(p.blocks[b].ops) /\ p.ops[o].dst \in live
    BY <1>1, KeptOpsOf
  <1>3. Len(kept) \in Nat /\ Len(ops) \in Nat
    BY <1>2 DEF Renamed
  <1>4. n.blocks[b].ops = MapSeq(ops, kept)
    BY DEF Renamed, BlocksRenamed
  <1>5. Len(n.blocks[b].ops) = Len(kept)
        /\ \A i \in 1 .. Len(kept) : n.blocks[b].ops[i] = MapTo(ops, kept[i])
    BY <1>3, <1>4, MapSeqInRange
  <1>6. ASSUME NEW i \in 1 .. Len(kept)
        PROVE  /\ kept[i] \in ElemsOf(p.blocks[b].ops) /\ p.ops[kept[i]].dst \in live
               /\ KeptOp(p, live, kept[i])
    <2>1. kept[i] \in ElemsOf(kept)
      BY DEF ElemsOf
    <2> QED BY <1>2, <2>1 DEF KeptOp
  <1>7. OpsRenamed(p, live, values, ops, n)
    BY DEF Renamed
  <1>8. ASSUME NEW o, KeptOp(p, live, o)
        PROVE  /\ MapTo(ops, o) \in 1 .. Len(n.ops)
               /\ n.ops[MapTo(ops, o)].opcode = p.ops[o].opcode
               /\ n.ops[MapTo(ops, o)].dst = MapTo(values, p.ops[o].dst)
               /\ n.ops[MapTo(ops, o)].src = MapSeq(values, p.ops[o].src)
    BY <1>7, <1>8 DEF OpsRenamed
  <1> QED BY <1>3, <1>5, <1>6, <1>8

ParamsFollow(p, live, values, n, b) ==
  /\ Len(n.blocks[b].params) = Len(p.blocks[b].params)
  /\ \A i \in 1 .. Len(p.blocks[b].params) :
       /\ n.blocks[b].params[i] = MapTo(values, p.blocks[b].params[i])
       /\ KeptValue(p, live, p.blocks[b].params[i])
       /\ p.values[p.blocks[b].params[i]].block = b

LEMMA ParamsRenamed ==
  ASSUME NEW p, NEW live, NEW values, NEW ops, NEW n, Renamed(p, live, values, ops, n),
         NEW b \in 1 .. Len(p.blocks)
  PROVE  ParamsFollow(p, live, values, n, b)
  <1>1. Whole(p)
    BY DEF Renamed
  <1>2. PICK params \in Seq(Nat) : params = p.blocks[b].params
    BY <1>1, BlockOwned
  <1>3. n.blocks[b].params = MapSeq(values, params) /\ Len(values) \in Nat /\ Len(params) \in Nat
    BY <1>2 DEF Renamed, BlocksRenamed
  <1>4. /\ Len(n.blocks[b].params) = Len(params)
        /\ \A i \in 1 .. Len(params) : n.blocks[b].params[i] = MapTo(values, params[i])
    BY <1>3, MapSeqInRange
  <1>5. ASSUME NEW i \in 1 .. Len(params)
        PROVE  KeptValue(p, live, params[i]) /\ p.values[params[i]].block = b
    <2>1. PICK v : v = params[i]
      OBVIOUS
    <2>2. v \in ElemsOf(p.blocks[b].params)
      BY <1>2, <2>1, Zenon DEF ElemsOf
    <2>3. v \in 1 .. Len(p.values) /\ p.values[v].block = b /\ p.values[v].op = INVALID
      BY <1>1, <2>2, ParamOwned
    <2> QED BY <2>1, <2>3 DEF KeptValue
  <1> QED BY <1>2, <1>4, <1>5 DEF ParamsFollow

(* No kept operation that stood before position k comes at i or later.     *)
NoneAfter(p, b, kept, k, i) ==
  \A j \in 1 .. Len(kept) : \A l \in 1 .. (k - 1) : p.blocks[b].ops[l] = kept[j] => j < i

(* Then what could be read at k can be read at i of the new block.         *)
LEMMA StillAvailable ==
  ASSUME NEW p, NEW live, NEW values, NEW ops, NEW n, Renamed(p, live, values, ops, n),
         NEW b \in 1 .. Len(p.blocks), NEW kept, kept = KeptOps(p, b, live),
         NEW k \in 1 .. (Len(p.blocks[b].ops) + 1), NEW i \in Nat,
         NoneAfter(p, b, kept, k, i),
         NEW v \in live, value_is_available(p, Available(p, b, k), v)
  PROVE  /\ value_is_available(n, Available(n, b, i), MapTo(values, v))
         /\ TypeOf(n, MapTo(values, v)) = TypeOf(p, v)
  <1>1. Whole(p)
    BY DEF Renamed
  <1>2. KeptValue(p, live, v)
    BY DEF value_is_available, valid_value, KeptValue
  <1>3. valid_value(n, MapTo(values, v)) /\ TypeOf(n, MapTo(values, v)) = TypeOf(p, v)
    BY <1>2, ValueRenamed
  <1>4. CASE value_is_global_const(p, v)
    BY <1>3, <1>4, ConstRenamed, Zenon DEF value_is_available
  <1>5. CASE v \in ElemsOf(p.blocks[b].params)
    <2>1. PICK l \in 1 .. Len(p.blocks[b].params) : v = p.blocks[b].params[l]
      BY <1>5 DEF ElemsOf
    <2>2. MapTo(values, v) \in ElemsOf(n.blocks[b].params)
      <3>1. /\ Len(n.blocks[b].params) = Len(p.blocks[b].params)
            /\ \A x \in 1 .. Len(p.blocks[b].params) :
                 n.blocks[b].params[x] = MapTo(values, p.blocks[b].params[x])
        <4>1. ParamsFollow(p, live, values, n, b)
          BY ParamsRenamed, Zenon
        <4> QED BY <4>1, Zenon DEF ParamsFollow
      <3> QED BY <2>1, <3>1 DEF ElemsOf
    <2> QED BY <1>3, <2>2, Zenon DEF value_is_available, Available
  <1>6. CASE v \in {p.ops[p.blocks[b].ops[l]].dst : l \in 1 .. (k - 1)}
    <2>1. PICK l \in 1 .. (k - 1) : v = p.ops[p.blocks[b].ops[l]].dst
      BY <1>6
    <2>2. PICK o : o = p.blocks[b].ops[l]
      OBVIOUS
    <2>3. o \in ElemsOf(p.blocks[b].ops)
      <3>1. Len(p.blocks[b].ops) \in Nat
        <4>1. p.blocks[b].ops \in Seq(Nat)
          BY <1>1, BlockOwned, Zenon
        <4> QED BY <4>1, LengthIsNatural, Zenon
      <3>2. l \in 1 .. Len(p.blocks[b].ops)
        BY <3>1
      <3> QED BY <2>2, <3>2 DEF ElemsOf
    <2>4. o \in ElemsOf(kept)
      BY <1>1, <2>1, <2>2, <2>3, KeptOpsOf
    <2>5. PICK j \in 1 .. Len(kept) : o = kept[j]
      BY <2>4 DEF ElemsOf
    <2>6. j < i
      BY <2>2, <2>5 DEF NoneAfter
    <2>7. n.blocks[b].ops[j] = MapTo(ops, o) /\ n.ops[MapTo(ops, o)].dst = MapTo(values, v)
          /\ Len(kept) \in Nat
      BY <2>1, <2>2, <2>5, OpRenamed
    <2>8. j \in 1 .. (i - 1)
      BY <2>6, <2>7
    <2>9. MapTo(values, v) \in {n.ops[n.blocks[b].ops[x]].dst : x \in 1 .. (i - 1)}
      BY <2>7, <2>8
    <2> QED BY <1>3, <2>9, Zenon DEF value_is_available, Available
  <1> QED BY <1>4, <1>5, <1>6, Zenon DEF value_is_available, Available

-----------------------------------------------------------------------------
(* The renumbered module verifies.                                         *)

LEMMA RenamedParamsVerify ==
  ASSUME NEW p, NEW live, NEW values, NEW ops, NEW n, Renamed(p, live, values, ops, n),
         NEW b \in 1 .. Len(p.blocks)
  PROVE  VerifyParams(n, b)
  <1>1. ASSUME NEW i \in 1 .. Len(n.blocks[b].params)
        PROVE  LET x == n.blocks[b].params[i]
               IN  valid_value(n, x) /\ n.values[x].block = b /\ is_value_type(TypeOf(n, x))
    <2>0. ParamsFollow(p, live, values, n, b)
      BY ParamsRenamed
    <2>1. i \in 1 .. Len(p.blocks[b].params)
      BY <2>0 DEF ParamsFollow
    <2>2. PICK v : v = p.blocks[b].params[i]
      OBVIOUS
    <2>3. /\ n.blocks[b].params[i] = MapTo(values, v)
          /\ KeptValue(p, live, v) /\ p.values[v].block = b
      <3>1. \A l \in 1 .. Len(p.blocks[b].params) :
              /\ n.blocks[b].params[l] = MapTo(values, p.blocks[b].params[l])
              /\ KeptValue(p, live, p.blocks[b].params[l])
              /\ p.values[p.blocks[b].params[l]].block = b
        BY <2>0 DEF ParamsFollow
      <3> QED BY <2>1, <2>2, <3>1
    <2>4. is_value_type(TypeOf(p, v))
      <3>1. VerifyParams(p, b)
        BY DEF Renamed, Whole, xair_verify_module, VerifyBlock
      <3> QED BY <2>1, <2>2, <3>1 DEF VerifyParams, ElemsOf
    <2>5. PICK x : x = MapTo(values, v)
      OBVIOUS
    <2>6. valid_value(n, x) /\ TypeOf(n, x) = TypeOf(p, v) /\ n.values[x].block = b
      BY <2>3, <2>5, ValueRenamed
    <2> QED BY <2>3, <2>4, <2>5, <2>6
  <1> QED BY <1>1 DEF VerifyParams, ElemsOf

LEMMA RenamedOpVerifies ==
  ASSUME NEW p, NEW live, NEW values, NEW ops, NEW n, Renamed(p, live, values, ops, n),
         NEW b \in 1 .. Len(p.blocks), NEW i \in 1 .. Len(n.blocks[b].ops)
  PROVE  /\ VerifyDestination(n, b, n.blocks[b].ops[i])
         /\ VerifySources(n, b, i)
         /\ verify_op(n, n.ops[n.blocks[b].ops[i]])
  <1>1. Whole(p) /\ Len(values) \in Nat
    BY DEF Renamed
  <1>2. PICK kept : kept = KeptOps(p, b, live)
    OBVIOUS
  <1>3. i \in 1 .. Len(kept)
    BY <1>2, OpRenamed
  <1>4. PICK o, q : o = kept[i] /\ q = MapTo(ops, o)
    OBVIOUS
  <1>5. /\ n.blocks[b].ops[i] = q /\ o \in ElemsOf(p.blocks[b].ops) /\ p.ops[o].dst \in live
        /\ q \in 1 .. Len(n.ops) /\ n.ops[q].opcode = p.ops[o].opcode
        /\ n.ops[q].dst = MapTo(values, p.ops[o].dst)
        /\ n.ops[q].src = MapSeq(values, p.ops[o].src)
    BY <1>2, <1>3, <1>4, OpRenamed
  <1>6. PICK v : v = p.ops[o].dst
    OBVIOUS
  <1>7. /\ o \in 1 .. Len(p.ops) /\ v \in 1 .. Len(p.values) /\ v \in live
        /\ p.values[v].block = b /\ p.values[v].op = o
    <2>1. /\ o \in 1 .. Len(p.ops) /\ p.ops[o].dst \in 1 .. Len(p.values)
          /\ p.values[p.ops[o].dst].block = b /\ p.values[p.ops[o].dst].op = o
      BY <1>1, <1>5, OpOwned, SMTT(30)
    <2> QED BY <1>5, <1>6, <2>1, Zenon
  <1>8. PICK x : x = MapTo(values, v)
    OBVIOUS
  <1>9. /\ valid_value(n, x) /\ TypeOf(n, x) = TypeOf(p, v)
        /\ n.values[x].block = b /\ n.values[x].op = q
    <2>1. KeptValue(p, live, v)
      BY <1>7 DEF KeptValue
    <2> QED BY <1>4, <1>7, <1>8, <2>1, ValueRenamed
  <1>10. VerifyDestination(n, b, q)
    BY <1>5, <1>6, <1>8, <1>9 DEF VerifyDestination, valid_op
  <1>11. PICK k \in 1 .. Len(p.blocks[b].ops) : o = p.blocks[b].ops[k]
    BY <1>5 DEF ElemsOf
  <1>12. /\ verify_op(p, p.ops[o]) /\ p.ops[o].opcode \in Opcodes
         /\ \A w \in ElemsOf(p.ops[o].src) : value_is_available(p, Available(p, b, k), w)
    <2>1. VerifyBlock(p, b)
      BY <1>1 DEF Whole, xair_verify_module
    <2>2. p.ops[o].opcode \in Opcodes
      BY <1>1, <1>7 DEF Whole, Fields
    <2> QED BY <1>11, <2>1, <2>2 DEF VerifyBlock, VerifySources
  <1>13. PICK old \in Seq(Nat) : old = p.ops[o].src
    BY <1>1, <1>7 DEF Whole, Fields
  <1>14. PICK new : new = n.ops[q].src
    OBVIOUS
  <1>15. Len(new) = Len(old) /\ \A l \in 1 .. Len(old) : new[l] = MapTo(values, old[l])
    <2>1. new = MapSeq(values, old) /\ Len(old) \in Nat
      BY <1>5, <1>13, <1>14
    <2> QED BY <1>1, <2>1, MapSeqInRange
  <1>16. NoneAfter(p, b, kept, k, i)
    <2>1. SUFFICES ASSUME NEW j \in 1 .. Len(kept), NEW l \in 1 .. (k - 1),
                          p.blocks[b].ops[l] = kept[j]
                   PROVE  j < i
      BY DEF NoneAfter
    <2>2. PICK list \in Seq(Nat) :
            /\ list = p.blocks[b].ops
            /\ \A c, d \in 1 .. Len(list) : c < d => list[c] < list[d]
      BY <1>1, BlockOwned
    <2>3. l \in 1 .. Len(list) /\ k \in 1 .. Len(list) /\ l < k
      BY <2>2
    <2>4. kept[j] < kept[i]
      BY <1>4, <1>11, <2>1, <2>2, <2>3
    <2>5. kept \in Seq(Nat) /\ \A c, d \in 1 .. Len(kept) : c < d => kept[c] < kept[d]
      BY <1>1, <1>2, KeptOpsOf
    <2>6. kept[i] \in Nat /\ kept[j] \in Nat /\ i \in Nat /\ j \in Nat
      BY <1>3, <2>5, ElementAt, Zenon
    <2>7. ~(i < j) /\ i # j
      <3>1. ~(kept[i] < kept[j]) /\ kept[i] # kept[j]
        BY <2>4, <2>6
      <3> QED BY <1>3, <2>5, <3>1, Zenon
    <2> QED BY <2>6, <2>7
  <1>17. ASSUME NEW w \in ElemsOf(old)
         PROVE  /\ value_is_available(n, Available(n, b, i), MapTo(values, w))
                /\ TypeOf(n, MapTo(values, w)) = TypeOf(p, w)
    <2>1. w \in live
      <3>1. SourcesOf(p, v) \subseteq live
        BY <1>1, <1>7, LiveValuesOf DEF Renamed
      <3>2. ElemsOf(old) = SourcesOf(p, v)
        BY <1>7, <1>13 DEF SourcesOf, valid_op
      <3> QED BY <3>1, <3>2
    <2>2. value_is_available(p, Available(p, b, k), w)
      BY <1>12, <1>13
    <2>3. k \in 1 .. (Len(p.blocks[b].ops) + 1) /\ i \in Nat
      <3>1. Len(p.blocks[b].ops) \in Nat
        BY <1>1, BlockOwned
      <3>2. Len(kept) \in Nat
        BY <1>2, OpRenamed
      <3> QED BY <1>3, <3>1, <3>2
    <2> QED BY <1>2, <1>16, <2>1, <2>2, <2>3, StillAvailable
  <1>18. VerifySources(n, b, i)
    <2>1. \A y \in ElemsOf(new) : \E w \in ElemsOf(old) : y = MapTo(values, w)
      BY <1>15 DEF ElemsOf
    <2>2. \A y \in ElemsOf(new) : value_is_available(n, Available(n, b, i), y)
      BY <1>17, <2>1
    <2> QED BY <1>5, <1>14, <2>2 DEF VerifySources
  <1>19. verify_op(n, n.ops[q])
    <2>1. ASSUME NEW l \in 1 .. Len(old)
          PROVE  TypeOf(n, new[l]) = TypeOf(p, old[l])
      <3>1. old[l] \in ElemsOf(old)
        BY DEF ElemsOf
      <3> QED BY <1>15, <1>17, <3>1
    <2>2. PICK f, g : f = p.ops[o] /\ g = n.ops[q]
      OBVIOUS
    <2>3. /\ g.opcode = f.opcode /\ g.opcode \in Opcodes /\ verify_op(p, f)
          /\ f.src = old /\ g.src = new /\ g.dst = x /\ f.dst = v
      BY <1>5, <1>6, <1>8, <1>12, <1>13, <1>14, <2>2
    <2>4. TypeOf(n, g.dst) = TypeOf(p, f.dst)
      BY <1>9, <2>3
    <2>5. f.src = <<>> => g.src = <<>>
      <3>1. new = MapSeq(values, old)
        BY <1>5, <1>13, <1>14
      <3>2. new \in Seq(Nat)
        BY <1>1, <1>13, <3>1, MapSeqInRange
      <3>3. old = <<>> => Len(new) = 0
        BY <1>15
      <3> QED BY <2>3, <3>2, <3>3
    <2>6. /\ Len(g.src) = Len(f.src)
          /\ \A l \in 1 .. Len(f.src) : TypeOf(n, g.src[l]) = TypeOf(p, f.src[l])
      BY <1>15, <2>1, <2>3
    <2>7. verify_op(n, g)
      BY <2>3, <2>4, <2>5, <2>6, OpVerifiesAlike
    <2> QED BY <2>2, <2>7
  <1> QED BY <1>5, <1>10, <1>18, <1>19

(* At the end of the block everything kept is before.                      *)
LEMMA AvailableAtEnd ==
  ASSUME NEW p, NEW live, NEW values, NEW ops, NEW n, Renamed(p, live, values, ops, n),
         NEW b \in 1 .. Len(p.blocks), NEW v \in live,
         value_is_available(p, Available(p, b, Len(p.blocks[b].ops) + 1), v)
  PROVE  /\ value_is_available(n, Available(n, b, Len(n.blocks[b].ops) + 1), MapTo(values, v))
         /\ TypeOf(n, MapTo(values, v)) = TypeOf(p, v)
  <1>1. PICK kept : kept = KeptOps(p, b, live)
    OBVIOUS
  <1>2. Len(n.blocks[b].ops) = Len(kept) /\ Len(kept) \in Nat
    BY <1>1, OpRenamed
  <1>3. Len(p.blocks[b].ops) \in Nat
    <2>1. p.blocks[b].ops \in Seq(Nat)
      BY BlockOwned DEF Renamed
    <2> QED BY <2>1
  <1>4. PICK k, i : k = Len(p.blocks[b].ops) + 1 /\ i = Len(n.blocks[b].ops) + 1
    OBVIOUS
  <1>5. NoneAfter(p, b, kept, k, i)
    BY <1>2, <1>4 DEF NoneAfter
  <1>6. k \in 1 .. (Len(p.blocks[b].ops) + 1) /\ i \in Nat
    BY <1>2, <1>3, <1>4
  <1>7. value_is_available(p, Available(p, b, k), v)
    BY <1>4
  <1> QED BY <1>1, <1>4, <1>5, <1>6, <1>7, StillAvailable

LEMMA RenamedTargetVerifies ==
  ASSUME NEW p, NEW live, NEW values, NEW ops, NEW n, Renamed(p, live, values, ops, n),
         NEW b \in 1 .. Len(p.blocks), NEW target, NEW old, NEW new,
         ArgsRenamed(values, old, new), ElemsOf(old) \subseteq live,
         verify_target_args(p, Available(p, b, Len(p.blocks[b].ops) + 1), target, old)
  PROVE  verify_target_args(n, Available(n, b, Len(n.blocks[b].ops) + 1), target, new)
  <1>1. PICK P, N : /\ P = Available(p, b, Len(p.blocks[b].ops) + 1)
                    /\ N = Available(n, b, Len(n.blocks[b].ops) + 1)
    OBVIOUS
  <1>2. PICK params : params = p.blocks[target].params
    OBVIOUS
  <1>3. /\ target \in 1 .. Len(p.blocks) /\ Len(params) = Len(old)
        /\ \A i \in 1 .. Len(old) : /\ value_is_available(p, P, old[i])
                                    /\ TypeOf(p, old[i]) = TypeOf(p, params[i])
    BY <1>1, <1>2 DEF verify_target_args, valid_block
  <1>4. /\ Len(n.blocks[target].params) = Len(params)
        /\ \A i \in 1 .. Len(params) : /\ n.blocks[target].params[i] = MapTo(values, params[i])
                                       /\ KeptValue(p, live, params[i])
    <2>1. ParamsFollow(p, live, values, n, target)
      BY <1>3, ParamsRenamed
    <2> QED BY <1>2, <2>1 DEF ParamsFollow
  <1>5. ASSUME NEW i \in 1 .. Len(new)
        PROVE  /\ value_is_available(n, N, new[i])
               /\ TypeOf(n, new[i]) = TypeOf(n, n.blocks[target].params[i])
    <2>1. i \in 1 .. Len(old) /\ new[i] = MapTo(values, old[i])
      BY DEF ArgsRenamed
    <2>2. PICK v, w : v = old[i] /\ w = params[i]
      OBVIOUS
    <2>3. v \in live /\ value_is_available(p, P, v) /\ TypeOf(p, v) = TypeOf(p, w)
      BY <1>3, <2>1, <2>2 DEF ElemsOf
    <2>4. value_is_available(n, N, MapTo(values, v)) /\ TypeOf(n, MapTo(values, v)) = TypeOf(p, v)
      BY <1>1, <2>3, AvailableAtEnd
    <2>5. n.blocks[target].params[i] = MapTo(values, w) /\ KeptValue(p, live, w)
      BY <1>3, <1>4, <2>1, <2>2
    <2>6. TypeOf(n, MapTo(values, w)) = TypeOf(p, w)
      BY <2>5, ValueRenamed
    <2> QED BY <2>1, <2>2, <2>3, <2>4, <2>5, <2>6
  <1>6. valid_block(n, target)
    BY <1>3 DEF Renamed, BlocksRenamed, valid_block
  <1>7. Len(n.blocks[target].params) = Len(new)
    BY <1>3, <1>4 DEF ArgsRenamed
  <1> QED BY <1>1, <1>5, <1>6, <1>7 DEF verify_target_args

LEMMA RenamedTermVerifies ==
  ASSUME NEW p, NEW live, NEW values, NEW ops, NEW n, Renamed(p, live, values, ops, n),
         NEW b \in 1 .. Len(p.blocks)
  PROVE  verify_term(n, b)
  <1>1. PICK P, N : /\ P = Available(p, b, Len(p.blocks[b].ops) + 1)
                    /\ N = Available(n, b, Len(n.blocks[b].ops) + 1)
    OBVIOUS
  <1>2. Whole(p) /\ live = LiveValues(p) /\ n.term_args = remap_args(p, values)
    BY DEF Renamed
  <1>3. PICK old, new : old = p.blocks[b].term /\ new = n.blocks[b].term
    OBVIOUS
  <1>4. TermRenamed(values, old, new)
    BY <1>3 DEF Renamed, BlocksRenamed
  <1>5. /\ new.kind = old.kind
        /\ new.true_target = old.true_target /\ new.false_target = old.false_target
        /\ old.kind = "CBRANCH" => new.condition = MapTo(values, old.condition)
    BY <1>4 DEF TermRenamed
  <1>6. /\ old.kind \in {"JUMP", "CBRANCH", "RETURN"} =>
             ArgsRenamed(values, TrueArgs(p, b), TrueArgs(n, b))
        /\ old.kind = "CBRANCH" => ArgsRenamed(values, FalseArgs(p, b), FalseArgs(n, b))
    BY <1>2, <1>3, <1>4, TermArgsRenamed
  <1>7. mark_term_live_values(p, b) \subseteq live
    BY <1>2, LiveValuesOf
  <1>8. /\ old.kind \in {"JUMP", "CBRANCH", "RETURN"} => ElemsOf(TrueArgs(p, b)) \subseteq live
        /\ old.kind = "CBRANCH" => /\ ElemsOf(FalseArgs(p, b)) \subseteq live
                                   /\ old.condition \in live
    BY <1>3, <1>7 DEF mark_term_live_values
  <1>9. verify_term(p, b)
    BY <1>2 DEF Whole, xair_verify_module, VerifyBlock
  <1>10. CASE /\ old.kind = "JUMP"
              /\ verify_target_args(p, P, old.true_target, TrueArgs(p, b))
    <2>1. verify_target_args(n, N, old.true_target, TrueArgs(n, b))
      BY <1>1, <1>6, <1>8, <1>10, RenamedTargetVerifies, Zenon
    <2> QED BY <1>1, <1>3, <1>5, <1>10, <2>1 DEF verify_term
  <1>11. CASE /\ old.kind = "CBRANCH"
              /\ value_is_available(p, P, old.condition)
              /\ is_i1(TypeOf(p, old.condition))
              /\ verify_target_args(p, P, old.true_target, TrueArgs(p, b))
              /\ verify_target_args(p, P, old.false_target, FalseArgs(p, b))
    <2>1. verify_target_args(n, N, old.true_target, TrueArgs(n, b))
      BY <1>1, <1>6, <1>8, <1>11, RenamedTargetVerifies
    <2>2. verify_target_args(n, N, old.false_target, FalseArgs(n, b))
      BY <1>1, <1>6, <1>8, <1>11, RenamedTargetVerifies
    <2>3. PICK v : v = old.condition
      OBVIOUS
    <2>4. value_is_available(n, N, MapTo(values, v)) /\ TypeOf(n, MapTo(values, v)) = TypeOf(p, v)
      BY <1>1, <1>8, <1>11, <2>3, AvailableAtEnd
    <2> QED BY <1>1, <1>3, <1>5, <1>11, <2>1, <2>2, <2>3, <2>4 DEF verify_term
  <1>12. CASE /\ old.kind = "RETURN"
              /\ \A v \in ElemsOf(TrueArgs(p, b)) : value_is_available(p, P, v)
    <2>1. PICK args, nargs : args = TrueArgs(p, b) /\ nargs = TrueArgs(n, b)
      OBVIOUS
    <2>2. /\ Len(nargs) = Len(args)
          /\ \A i \in 1 .. Len(args) : nargs[i] = MapTo(values, args[i])
      BY <1>6, <1>12, <2>1 DEF ArgsRenamed
    <2>3. ASSUME NEW i \in 1 .. Len(args)
          PROVE  value_is_available(n, N, MapTo(values, args[i]))
      <3>1. PICK v : v = args[i]
        OBVIOUS
      <3>2. v \in live /\ value_is_available(p, P, v)
        BY <1>8, <1>12, <2>1, <3>1 DEF ElemsOf
      <3> QED BY <1>1, <3>1, <3>2, AvailableAtEnd
    <2>4. \A v \in ElemsOf(nargs) : value_is_available(n, N, v)
      BY <2>2, <2>3 DEF ElemsOf
    <2> QED BY <1>1, <1>3, <1>5, <1>12, <2>1, <2>4 DEF verify_term
  <1>13. CASE old.kind \in {"TRAP", "FAULT"}
    BY <1>3, <1>5, <1>13 DEF verify_term
  <1> QED BY <1>1, <1>3, <1>9, <1>10, <1>11, <1>12, <1>13 DEF verify_term

LEMMA RenamedVerifies ==
  ASSUME NEW p, NEW live, NEW values, NEW ops, NEW n, Renamed(p, live, values, ops, n)
  PROVE  xair_verify_module(n)
  <1>1. Len(n.blocks) = Len(p.blocks)
    BY DEF Renamed, BlocksRenamed
  <1>2. ASSUME NEW b \in 1 .. Len(p.blocks)
        PROVE  VerifyBlock(n, b)
    <2>1. VerifyParams(n, b) /\ verify_term(n, b)
      BY RenamedParamsVerify, RenamedTermVerifies
    <2>2. \A i \in 1 .. Len(n.blocks[b].ops) :
            /\ VerifyDestination(n, b, n.blocks[b].ops[i])
            /\ VerifySources(n, b, i)
            /\ verify_op(n, n.ops[n.blocks[b].ops[i]])
      BY RenamedOpVerifies
    <2> QED BY <2>1, <2>2 DEF VerifyBlock
  <1> QED BY <1>1, <1>2 DEF xair_verify_module

-----------------------------------------------------------------------------
(* The whole of canonicalization.                                          *)

LEMMA RenamedLinks ==
  ASSUME NEW p, NEW live, NEW values, NEW ops, NEW n, Renamed(p, live, values, ops, n)
  PROVE  Linked(n)
  <1>1. /\ Whole(p) /\ ValuesRenamed(p, live, values, ops, n)
        /\ OpsRenamed(p, live, values, ops, n) /\ Len(n.blocks) = Len(p.blocks)
    BY DEF Renamed, BlocksRenamed
  <1>2. ASSUME NEW x \in 1 .. Len(n.values)
        PROVE  /\ valid_block(n, n.values[x].block)
               /\ IF n.values[x].op = INVALID
                  THEN x \in ElemsOf(n.blocks[n.values[x].block].params)
                  ELSE /\ valid_op(n, n.values[x].op) /\ n.ops[n.values[x].op].dst = x
                       /\ n.values[x].op \in ElemsOf(n.blocks[n.values[x].block].ops)
    <2>1. PICK v : KeptValue(p, live, v) /\ x = MapTo(values, v)
      BY <1>1 DEF ValuesRenamed
    <2>2. PICK b, o : b = p.values[v].block /\ o = p.values[v].op
      OBVIOUS
    <2>3. n.values[x].block = b /\ n.values[x].op = MapTo(ops, o)
      BY <2>1, <2>2, ValueRenamed
    <2>4. /\ b \in 1 .. Len(p.blocks)
          /\ IF o = INVALID THEN v \in ElemsOf(p.blocks[b].params)
             ELSE p.ops[o].dst = v /\ o \in ElemsOf(p.blocks[b].ops)
      BY <1>1, <2>1, <2>2 DEF Whole, Linked, valid_block, KeptValue
    <2>5. valid_block(n, b)
      BY <1>1, <2>4 DEF valid_block
    <2>6. CASE o = INVALID
      <3>1. n.values[x].op = INVALID
        BY <1>1, <2>3, <2>6 DEF OpsRenamed
      <3>2. PICK l \in 1 .. Len(p.blocks[b].params) : v = p.blocks[b].params[l]
        BY <2>4, <2>6 DEF ElemsOf
      <3>3. ParamsFollow(p, live, values, n, b)
        BY <2>4, ParamsRenamed
      <3>4. x \in ElemsOf(n.blocks[b].params)
        BY <2>1, <3>2, <3>3 DEF ParamsFollow, ElemsOf
      <3> QED BY <2>3, <2>5, <3>1, <3>4
    <2>7. CASE o # INVALID
      <3>1. v \in live /\ p.ops[o].dst = v /\ o \in ElemsOf(p.blocks[b].ops)
        BY <2>1, <2>2, <2>4, <2>7 DEF KeptValue
      <3>2. KeptOp(p, live, o)
        BY <2>4, <3>1 DEF KeptOp
      <3>3. PICK q : q = MapTo(ops, o)
        OBVIOUS
      <3>4. q \in 1 .. Len(n.ops) /\ n.ops[q].dst = x
        BY <1>1, <2>1, <3>1, <3>2, <3>3 DEF OpsRenamed
      <3>5. PICK kept : kept = KeptOps(p, b, live)
        OBVIOUS
      <3>6. o \in ElemsOf(kept)
        BY <1>1, <2>4, <3>1, <3>5, KeptOpsOf
      <3>7. PICK i \in 1 .. Len(kept) : o = kept[i]
        BY <3>6 DEF ElemsOf
      <3>8. Len(n.blocks[b].ops) = Len(kept) /\ n.blocks[b].ops[i] = q
        BY <2>4, <3>3, <3>5, <3>7, OpRenamed
      <3>9. q \in ElemsOf(n.blocks[b].ops)
        BY <3>7, <3>8 DEF ElemsOf
      <3>10. q # INVALID
        BY <3>4 DEF INVALID
      <3> QED BY <2>3, <2>5, <3>3, <3>4, <3>9, <3>10 DEF valid_op
    <2> QED BY <2>6, <2>7
  <1>3. ASSUME NEW q \in 1 .. Len(n.ops)
        PROVE  n.values[n.ops[q].dst].op = q
    <2>1. PICK o : KeptOp(p, live, o) /\ q = MapTo(ops, o)
      BY <1>1 DEF OpsRenamed
    <2>2. PICK v : v = p.ops[o].dst
      OBVIOUS
    <2>3. v \in 1 .. Len(p.values) /\ p.values[v].op = o /\ v \in live
      BY <1>1, <2>1, <2>2, OpOwned DEF KeptOp
    <2>4. n.ops[q].dst = MapTo(values, v)
      BY <1>1, <2>1, <2>2 DEF OpsRenamed
    <2>5. KeptValue(p, live, v)
      BY <2>3 DEF KeptValue
    <2>6. n.values[MapTo(values, v)].op = MapTo(ops, o)
      BY <2>3, <2>5, ValueRenamed
    <2> QED BY <2>1, <2>4, <2>6
  <1> QED BY <1>2, <1>3 DEF Linked

(* Emptying the value-number table changes nothing else.                   *)
LEMMA ClearKeepsWhole ==
  ASSUME NEW a \in Modules, Whole(a), NEW c, c = value_number_clear(a)
  PROVE  Whole(c) /\ c.vn = {}
  <1>1. /\ c.values = a.values /\ c.ops = a.ops /\ c.blocks = a.blocks
        /\ c.term_args = a.term_args /\ c.vn = {} /\ c \in Modules
    BY DEF value_number_clear, Modules
  <1>2. PICK U : Shaped(a, U) /\ Shaped(c, U)
    BY <1>1, ModulesShaped
  <1>3. \A b \in 1 .. Len(a.blocks) : OwnsLists(a, b) /\ OwnsArgs(a, b)
    BY DEF Whole
  <1>4. \A b \in 1 .. Len(c.blocks) : OwnsLists(c, b) /\ OwnsArgs(c, b)
    <2>1. \A b \in 1 .. Len(a.blocks) : OwnsArgs(c, b)
      BY <1>1, <1>3, Zenon DEF OwnsArgs
    <2>2. ASSUME NEW b \in 1 .. Len(a.blocks)
          PROVE  OwnsLists(c, b)
      <3>1. OwnsLists(a, b)
        BY <1>3
      <3> QED BY <1>1, <3>1, Zenon DEF OwnsLists, valid_value, valid_op
    <2> QED BY <1>1, <2>1, <2>2
  <1>5. Linked(c)
    BY <1>1 DEF Whole, Linked, valid_block, valid_op
  <1>6. Agrees(a, c)
    BY <1>1, <1>2, AgreesSelf DEF Agrees
  <1>7. \A b \in 1 .. Len(a.blocks) : VerifyBlock(c, b)
    <2>1. xair_verify_module(a)
      BY DEF Whole
    <2> QED BY <1>2, <1>3, <1>6, <2>1, BlockStaysVerified
  <1>8. Fields(c)
    BY <1>1, ModuleFields
  <1> QED BY <1>1, <1>4, <1>5, <1>7, <1>8 DEF Whole, xair_verify_module

(* Removing what is dead, whether or not an allocation fails.              *)
LEMMA EliminatedVerifies ==
  ASSUME NEW p, Whole(p), p.vn = {}, NEW fault, NEW r, r = eliminate_dead_values(p, fault)
  PROVE  /\ r.status \in {"OK", "OOM"}
         /\ xair_verify_module(r.m) /\ Linked(r.m) /\ r.m.vn = {}
  <1>1. PICK live : live = LiveValues(p)
    OBVIOUS
  <1>2. PICK values, ops : values = ValueOrder(p, live) /\ ops = OpOrder(p, live)
    OBVIOUS
  <1>3. r.status \in {"OK", "OOM"} /\ (r.m = p \/ RenumberedTo(p, live, values, ops, r.m))
    <2>1. CASE fault = "live"
      BY <2>1 DEF eliminate_dead_values, Reject, Ret
    <2>2. CASE fault # "live"
      <3>1. r = Renumber(p, live, values, ops, fault)
        BY <1>1, <1>2, <2>2 DEF eliminate_dead_values, compact_live_values
      <3>2. CASE fault \in {"maps", "arrays"} \/ (Len(values) = Len(p.values) /\ Len(ops) = Len(p.ops))
        BY <3>1, <3>2 DEF Renumber, Reject, Ret
      <3>3. CASE fault \notin {"maps", "arrays"} /\ ~(Len(values) = Len(p.values) /\ Len(ops) = Len(p.ops))
        <4>1. PICK n : RenumberedTo(p, live, values, ops, n)
          BY DEF RenumberedTo
        <4>2. r = Ret(n, "OK", INVALID)
          BY <3>1, <3>3, <4>1, Zenon DEF Renumber, RenumberedTo
        <4>3. r.m = n /\ r.status = "OK"
          BY <4>2 DEF Ret
        <4> QED BY <4>1, <4>3, Zenon
      <3> QED BY <3>2, <3>3
    <2> QED BY <2>1, <2>2
  <1>4. CASE r.m = p
    BY <1>3, <1>4 DEF Whole
  <1>5. CASE RenumberedTo(p, live, values, ops, r.m)
    <2>1. PICK n : n = r.m
      OBVIOUS
    <2>2. Renamed(p, live, values, ops, n) /\ n.vn = p.vn
      BY <1>1, <1>2, <1>5, <2>1, RenumberedRenames
    <2>3. xair_verify_module(n) /\ Linked(n)
      BY <2>2, RenamedVerifies, RenamedLinks
    <2> QED BY <1>3, <2>1, <2>2, <2>3
  <1> QED BY <1>3, <1>4, <1>5

LEMMA CanonicalizedVerifies ==
  ASSUME NEW a \in Programs, xair_verify_module(a), NEW fault,
         NEW r, r = xair_canonicalize_module(a, fault)
  PROVE  /\ r.status # "VERIFY" /\ xair_verify_module(r.m) /\ Linked(r.m)
         /\ r.m.vn = {} \/ r.status = "OOM"
  <1>1. a \in Modules /\ Linked(a) /\ (a.frozen => a.vn = {})
    BY ExecAssumption, LinkedAssumption
  <1>2. Whole(a)
    <2>1. \A b \in 1 .. Len(a.blocks) : OwnsLists(a, b) /\ OwnsArgs(a, b)
      BY BuiltAssumption
    <2>2. Fields(a)
      BY <1>1, ModuleFields
    <2> QED BY <1>1, <2>1, <2>2 DEF Whole
  <1>3. PICK c : c = value_number_clear(a)
    OBVIOUS
  <1>4. Whole(c) /\ c.vn = {}
    BY <1>1, <1>2, <1>3, ClearKeepsWhole
  <1>5. PICK p : p = canonicalize_local_ops(c)
    OBVIOUS
  <1>6. Whole(p) /\ p.vn = {}
    BY <1>4, <1>5, LocalOpsKeepWhole
  <1>7. PICK e : e = eliminate_dead_values(p, fault)
    OBVIOUS
  <1>8. /\ e.status \in {"OK", "OOM"}
        /\ xair_verify_module(e.m) /\ Linked(e.m) /\ e.m.vn = {}
    BY <1>6, <1>7, EliminatedVerifies
  <1>9. CASE a.frozen
    <2>1. r = Ret(a, "BAD_ARG", INVALID)
      BY <1>9 DEF xair_canonicalize_module, Reject
    <2> QED BY <1>1, <1>9, <2>1 DEF Ret
  <1>10. CASE ~a.frozen /\ fault = "verify" /\ a.blocks # <<>>
    <2>1. r = Ret(a, "OOM", INVALID)
      BY <1>10 DEF xair_canonicalize_module, Reject
    <2> QED BY <1>1, <2>1 DEF Ret
  <1>11. CASE ~a.frozen /\ ~(fault = "verify" /\ a.blocks # <<>>)
    <2>1. r = VerifyAgain(e, fault)
      BY <1>3, <1>5, <1>7, <1>11 DEF xair_canonicalize_module
    <2>2. r.m = e.m /\ r.status \in {"OK", "OOM"}
      BY <1>8, <2>1 DEF VerifyAgain, Reject, Ret
    <2> QED BY <1>8, <2>2
  <1> QED BY <1>9, <1>10, <1>11

(* Until it is canonicalized the module is the verified program.           *)
PipelineInv ==
  /\ stage \in {"built", "first"} => m \in Programs /\ xair_verify_module(m)
  /\ CanonicalizeVerifies

LEMMA PipelineInvHolds == PSpec => []PipelineInv
  <1>1. PInit => PipelineInv
    BY DEF PInit, LiveInit, Init, PipelineInv, CanonicalizeVerifies
  <1>2. ASSUME PipelineInv, [PNext]_pvars
        PROVE  PipelineInv'
    <2>1. CASE FirstRun
      BY <1>2, <2>1 DEF FirstRun, PipelineInv, CanonicalizeVerifies
    <2>2. CASE CanonicalizeBetween
      <3>1. m \in Programs /\ xair_verify_module(m) /\ stage' = "canonicalized"
        BY <1>2, <2>2 DEF CanonicalizeBetween, PipelineInv
      <3>2. PICK fault \in CanonFaults :
              /\ m' = xair_canonicalize_module(m, fault).m
              /\ canon' = xair_canonicalize_module(m, fault).status
        BY <2>2 DEF CanonicalizeBetween
      <3>3. /\ canon' # "VERIFY" /\ xair_verify_module(m') /\ Linked(m')
            /\ m'.vn = {} \/ canon' = "OOM"
        BY <3>1, <3>2, CanonicalizedVerifies
      <3>4. CanonicalizeVerifies'
        BY <3>3 DEF CanonicalizeVerifies
      <3> QED BY <3>1, <3>4 DEF PipelineInv
    <2>3. CASE SecondRun
      BY <2>3 DEF SecondRun, PipelineInv, CanonicalizeVerifies
    <2>4. CASE Interpret
      <3>1. m' = m /\ stage' = stage /\ canon' = canon
        BY <2>4 DEF Interpret, history, LiveStep, Step, EnterBlock, ExecConst, ExecScalar,
                    ExecLoad, ExecStore, ExecStoreFails, ExecJump, ExecCbranch, ExecReturn, ExecStop
      <3> QED BY <1>2, <3>1 DEF PipelineInv, CanonicalizeVerifies
    <2>5. CASE KeepOneState
      BY <2>5 DEF KeepOneState, PipelineInv, CanonicalizeVerifies
    <2>6. CASE UNCHANGED pvars
      <3>1. m' = m /\ stage' = stage /\ canon' = canon
        BY <2>6 DEF pvars, liveVars, vars, history
      <3> QED BY <1>2, <3>1 DEF PipelineInv, CanonicalizeVerifies
    <2> QED BY <1>2, <2>1, <2>2, <2>3, <2>4, <2>5, <2>6 DEF PNext
  <1> QED BY <1>1, <1>2, PTL DEF PSpec

(* Canonicalizing a verified module, of any size, leaves a verified one    *)
(* whatever allocation fails on the way: the second verification never     *)
(* rejects what folding, reordering, removing dead values and renumbering  *)
(* have made, and values, operations and blocks name each other again.     *)
THEOREM CanonicalizeVerifiesAlways == PSpec => []CanonicalizeVerifies
  <1>1. PipelineInv => CanonicalizeVerifies
    BY DEF PipelineInv
  <1> QED BY <1>1, PipelineInvHolds, PTL
=============================================================================
