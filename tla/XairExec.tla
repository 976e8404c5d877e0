------------------------------ MODULE XairExec ------------------------------
(***************************************************************************)
(* The concrete executor of src/src/xair.c: an execution state is created  *)
(* for a module, the client sets parameters, and xair_exec_run interprets  *)
(* blocks one operation at a time.  One action is one operation, one       *)
(* terminator or one call of the interface.                                *)
(*                                                                         *)
(* The paged store is flat here (ExecPages refines it); the high half of   *)
(* xair_exec_value is always 0 and left out.  The history variables:       *)
(*   assigned  what the client has set since the last call of              *)
(*             xair_exec_run that entered a block                          *)
(*   fresh     what was written for the current visit of a block           *)
(*   carried   in the first visit of a run, the entry parameters that were *)
(*             not set for this run but still hold something: the code     *)
(*             clears nothing between runs                                 *)
(*   stale     a read returned something neither fresh nor carried         *)
(*   ready     every entry parameter holds something                       *)
(*   why       the cause of the status                                     *)
(***************************************************************************)
EXTENDS XairVerify, XairArith

CONSTANTS
  Programs,         \* modules offered to xair_exec_state_create
  Inputs,           \* concrete values a client passes to xair_exec_set_param
  Seeds,            \* stretches of memory it passes to xair_exec_store_bytes
  Entries, Limits,  \* entry blocks and step limits it passes to xair_exec_run
  MaxRuns,          \* bound: calls of xair_exec_run on one state, the last of all calls
  MaxReturns,       \* XAIR_EXEC_MAX_RETURNS
  PageSize          \* XAIR_EXEC_PAGE_SIZE

ExecValues == [type : Types, lo : Nat]

ASSUME ExecAssumption ==
  /\ Programs \subseteq Modules
  /\ Inputs \subseteq ExecValues
  /\ Seeds \subseteq [space : Nat, address : Nat, data : Seq(0 .. 255)]
  /\ Entries \subseteq Nat /\ Limits \subseteq Nat
  /\ MaxRuns \in Nat /\ MaxReturns \in Nat /\ PageSize \in Nat \ {0}

(* Modules come from the building functions, which list every parameter    *)
(* and every operation once (XairBuilder, ListsExact) and put the          *)
(* arguments of terminators into the pool (TermArgsDisjoint).              *)
ASSUME BuiltAssumption ==
  \A mod \in Programs : \A b \in 1 .. Len(mod.blocks) : OwnsLists(mod, b) /\ OwnsArgs(mod, b)

VARIABLES
  m,               \* the module, fixed
  created,         \* xair_exec_state_create has succeeded
  val, defined,    \* state->values, and the identifiers state->defined marks
  mem,             \* the defined bytes: a function on <<space, address>>
  gen,             \* state->mem_generation
  running,         \* inside xair_exec_run
  entering,        \* at the top of the block loop, before the step check
  current, idx,    \* current block, next operation
  steps, limit,    \* steps taken, step_limit
  runs,            \* calls of xair_exec_run so far
  why,             \* why the last call returned
  result,          \* *out_result
  assigned, fresh, carried, stale, ready

control == <<running, entering, current, idx, steps, limit, runs>>
vars == <<m, created, val, defined, mem, gen, control, why, result,
          assigned, fresh, carried, stale, ready>>

(* Causes of a return.  "verify" is XAIR_ERR_VERIFY, "oom" XAIR_ERR_OOM,   *)
(* "unmapped" and "too_many" are XAIR_ERR_RANGE, the others but "ok" are   *)
(* XAIR_ERR_BAD_ARG.                                                       *)
Causes == {"ok", "verify", "undefined", "type", "not_memory", "target", "no_terminator",
           "bad_call", "wrap", "unmapped", "too_many", "oom"}

HaltKinds == {"NONE", "RETURN", "TRAP", "FAULT", "STEP_LIMIT", "UNSUPPORTED"}
NoResult == [kind |-> "NONE", block |-> INVALID, code |-> 0, returns |-> <<>>]
exec_set_result(kind, b, code) == [NoResult EXCEPT !.kind = kind, !.block = b, !.code = code]

exec_value_make(t, lo) == [type |-> t, lo |-> truncate_to_type(lo, t)]

Init ==
  /\ m \in Programs
  /\ created = FALSE
  /\ val = [v \in {} |-> exec_value_make(xair_type_void, 0)] /\ defined = {}
  /\ mem = [k \in {} |-> 0] /\ gen = 0
  /\ running = FALSE /\ entering = FALSE /\ current = INVALID /\ idx = 0
  /\ steps = 0 /\ limit = 0 /\ runs = 0
  /\ why = "ok" /\ result = NoResult
  /\ assigned = {} /\ fresh = {} /\ carried = {} /\ stale = FALSE /\ ready = FALSE

-----------------------------------------------------------------------------
(* Reading and defining values.                                            *)

Readable(v) == valid_value(m, v) /\ (v \in defined \/ value_is_global_const(m, v))

exec_read_value(v) ==
  IF v \in defined THEN val[v] ELSE exec_value_make(TypeOf(m, v), m.ops[m.values[v].op].imm)

(* A value left over from another visit of a block, constants aside.       *)
Leftover(v) == v \notin fresh \cup carried /\ ~value_is_global_const(m, v)

Define(v, x) == [w \in DOMAIN val \cup {v} |-> IF w = v THEN x ELSE val[w]]

-----------------------------------------------------------------------------
(* Memory.                                                                 *)

exec_byte_sized_scalar(t) == exec_scalar_u64_type(t) /\ t.bits # 1 /\ t.bits % 8 = 0

exec_range_wraps(address, size) == size # 0 /\ address + size - 1 >= Word

(* The bytes of an access, in address order.                               *)
ByteIndex(i, size, endian) == IF endian = "LE" THEN i ELSE size - 1 - i
Addresses(space, address, size) == {<<space, address + i>> : i \in 0 .. (size - 1)}

(* Mutant: loads ignore the byte order.                                    *)
LoadLittleEndian(space, address, size, endian) ==
  MapThenSumSet(LAMBDA i : mem[<<space, address + i>>] * 256^i, 0 .. (size - 1))

exec_load_u64(space, address, size, endian) ==
  MapThenSumSet(LAMBDA i : mem[<<space, address + i>>] * 256^ByteIndex(i, size, endian),
                0 .. (size - 1))

StoredByte(x, a, address, size, endian) ==
  (x \div 256^ByteIndex(a - address, size, endian)) % 256

(* The first n bytes of a store have been written.                         *)
Written(space, address, n, byte(_)) ==
  [k \in DOMAIN mem \cup Addresses(space, address, n) |->
     IF k \in Addresses(space, address, n) THEN byte(k[2]) ELSE mem[k]]

exec_store_u64(space, address, n, x, size, endian) ==
  Written(space, address, n, LAMBDA a : StoredByte(x, a, address, size, endian))

(* Byte n of a store needs a page that is not there yet, so the allocation *)
(* may fail after n bytes.                                                 *)
NeedsPage(space, address, n) ==
  LET page(k) == <<k[1], k[2] \div PageSize>>
  IN  page(<<space, address + n>>) \notin
        {page(k) : k \in DOMAIN mem \cup Addresses(space, address, n)}

-----------------------------------------------------------------------------
(* The interface.                                                          *)

StateCreate ==
  /\ ~created
  /\ \E oom \in BOOLEAN :
       /\ why' = IF oom THEN "oom" ELSE IF ~xair_verify_module(m) THEN "verify" ELSE "ok"
       /\ created' = (why' = "ok")
  /\ UNCHANGED <<m, val, defined, mem, gen, control, result, assigned, fresh, carried, stale, ready>>

(* Mutant: the type of the argument is not checked.                        *)
SetParamAnyType ==
  /\ created /\ ~running /\ runs < MaxRuns
  /\ \E v \in 1 .. Len(m.values), x \in Inputs :
       /\ m.values[v].op = INVALID
       /\ val' = Define(v, x) /\ defined' = defined \cup {v} /\ why' = "ok"
       /\ assigned' = assigned \cup {v}
  /\ UNCHANGED <<m, created, mem, gen, control, result, fresh, carried, stale, ready>>

SetParam ==
  /\ created /\ ~running /\ runs < MaxRuns
  /\ \E v \in 1 .. Len(m.values), x \in Inputs :
       IF m.values[v].op = INVALID /\ TypeOf(m, v) = x.type
       THEN /\ val' = Define(v, x)
            /\ defined' = defined \cup {v} /\ assigned' = assigned \cup {v}
            /\ why' = "ok"
       ELSE /\ why' = "bad_call"
            /\ UNCHANGED <<val, defined, assigned>>
  /\ UNCHANGED <<m, created, mem, gen, control, result, fresh, carried, stale, ready>>

(* Bound: the client writes only to the spaces its module names.           *)
SeedsOf(mod) ==
  {s \in Seeds : \E v \in 1 .. Len(mod.values) :
     is_mem(TypeOf(mod, v)) /\ TypeOf(mod, v).aux = s.space}

(* The client writes memory.  Out of pages, it keeps what was written.     *)
xair_exec_store_bytes ==
  /\ created /\ ~running /\ runs < MaxRuns
  /\ \E s \in SeedsOf(m) :
       LET size == Len(s.data)
           byte(a) == s.data[a - s.address + 1]
       IN  \/ /\ exec_range_wraps(s.address, size)
              /\ why' = "bad_call" /\ mem' = mem
           \/ /\ ~exec_range_wraps(s.address, size)
              /\ why' = "ok" /\ mem' = Written(s.space, s.address, size, byte)
           \/ /\ ~exec_range_wraps(s.address, size)
              /\ \E n \in 0 .. (size - 1) :
                   NeedsPage(s.space, s.address, n) /\ mem' = Written(s.space, s.address, n, byte)
              /\ why' = "oom"
  /\ UNCHANGED <<m, created, val, defined, gen, control, result,
                 assigned, fresh, carried, stale, ready>>

Run ==
  /\ created /\ ~running /\ runs < MaxRuns
  /\ runs' = runs + 1
  /\ \E entry \in Entries, n \in Limits :
       IF valid_block(m, entry)
       THEN /\ running' = TRUE /\ entering' = TRUE
            /\ current' = entry /\ idx' = 0 /\ steps' = 0 /\ limit' = n
            /\ fresh' = ElemsOf(m.blocks[entry].params) \cap defined \cap assigned
            /\ carried' = (ElemsOf(m.blocks[entry].params) \cap defined) \ assigned
            /\ assigned' = {}
            /\ ready' = (ElemsOf(m.blocks[entry].params) \subseteq defined)
            /\ why' = "ok"
       ELSE /\ why' = "bad_call"
            /\ UNCHANGED <<running, entering, current, idx, steps, limit,
                           assigned, fresh, carried, ready>>
  /\ UNCHANGED <<m, created, val, defined, mem, gen, result, stale>>

-----------------------------------------------------------------------------
(* The interpreter loop.                                                   *)

(* xair_exec_run returns: with a result, or with an error status.          *)
Halt(res) ==
  /\ running' = FALSE /\ entering' = FALSE /\ why' = "ok" /\ result' = res
  /\ UNCHANGED <<current, idx, steps, limit, runs>>
Abort(cause) ==
  /\ running' = FALSE /\ entering' = FALSE /\ why' = cause
  /\ UNCHANGED <<current, idx, steps, limit, runs, result>>

(* Mutant: the step is not counted.                                        *)
EnterUncounted ==
  /\ running /\ entering
  /\ IF steps >= limit
     THEN Halt(exec_set_result("STEP_LIMIT", current, 0))
     ELSE /\ steps' = steps /\ idx' = 1 /\ entering' = FALSE
          /\ UNCHANGED <<running, current, limit, runs, why, result>>
  /\ UNCHANGED <<m, created, val, defined, mem, gen, assigned, fresh, carried, stale, ready>>

(* Mutant: after the first block the operation index starts one too far.   *)
EnterPastFirst ==
  /\ running /\ entering
  /\ IF steps >= limit
     THEN Halt(exec_set_result("STEP_LIMIT", current, 0))
     ELSE /\ steps' = steps + 1 /\ entering' = FALSE
          /\ idx' = IF steps = 0 THEN 1 ELSE 2
          /\ UNCHANGED <<running, current, limit, runs, why, result>>
  /\ UNCHANGED <<m, created, val, defined, mem, gen, assigned, fresh, carried, stale, ready>>

EnterBlock ==
  /\ running /\ entering
  /\ IF steps >= limit
     THEN Halt(exec_set_result("STEP_LIMIT", current, 0))
     ELSE /\ steps' = steps + 1 /\ idx' = 1 /\ entering' = FALSE
          /\ UNCHANGED <<running, current, limit, runs, why, result>>
  /\ UNCHANGED <<m, created, val, defined, mem, gen, assigned, fresh, carried, stale, ready>>

InBlock == running /\ ~entering
Here == m.blocks[current]
AtOp == InBlock /\ idx <= Len(Here.ops)
AtTerm(kind) == InBlock /\ idx > Len(Here.ops) /\ Here.term.kind = kind

Op == m.ops[Here.ops[idx]]

(* The operation produces x: its destination is defined and the next one   *)
(* is due.                                                                 *)
Produce(x) ==
  /\ val' = Define(Op.dst, exec_value_make(TypeOf(m, Op.dst), x))
  /\ defined' = defined \cup {Op.dst}
  /\ fresh' = fresh \cup {Op.dst}
  /\ idx' = idx + 1
  /\ UNCHANGED <<running, entering, current, steps, limit, runs, why, result, carried>>

NoValue == UNCHANGED <<val, defined, fresh, carried>>

(* An operation that yields no value ends the run: UNSUPPORTED is a halt,  *)
(* anything else is an error status.                                       *)
GiveUp(cause) ==
  /\ NoValue
  /\ IF cause = "unsupported" THEN Halt(exec_set_result("UNSUPPORTED", current, Op.opcode))
     ELSE Abort(cause)

SourcesReadable == \A i \in 1 .. Len(Op.src) : Readable(Op.src[i])
TouchesLeftover == \E i \in 1 .. Len(Op.src) : Readable(Op.src[i]) /\ Leftover(Op.src[i])
Src(i) == exec_read_value(Op.src[i])

ExecConst ==
  /\ AtOp /\ Op.opcode = "CONST_U64"
  /\ Produce(Op.imm)
  /\ UNCHANGED <<m, created, mem, gen, assigned, stale, ready>>

ValueOf ==
  LET out == TypeOf(m, Op.dst)
  IN  CASE Len(Op.src) = 1 -> exec_unary_op(Op.opcode, out, Src(1).type, Src(1).lo)
        [] Len(Op.src) = 2 -> exec_binary_op(Op.opcode, out, Src(1).type, Src(2).type,
                                             Src(1).lo, Src(2).lo)
        [] OTHER -> {}

ExecScalar ==
  /\ AtOp /\ Op.opcode \notin {"CONST_U64", "LOAD", "STORE"}
  /\ IF ~SourcesReadable THEN GiveUp("undefined")
     ELSE IF ValueOf = {} THEN GiveUp("unsupported")
     ELSE \E x \in ValueOf : Produce(x)
  /\ stale' = (stale \/ TouchesLeftover)
  /\ UNCHANGED <<m, created, mem, gen, assigned, ready>>

Space == Src(1).type.aux
Address == Src(2).lo
AccessType == IF Op.opcode = "LOAD" THEN TypeOf(m, Op.dst) ELSE Src(3).type
Size == AccessType.bits \div 8

(* The checks an access passes before its first byte.                      *)
AccessCause ==
  IF ~SourcesReadable THEN "undefined"
  ELSE IF ~is_mem(Src(1).type) \/ ~is_addr(Src(2).type) THEN "not_memory"
  ELSE IF ~exec_byte_sized_scalar(AccessType) THEN "unsupported"
  ELSE IF exec_range_wraps(Address, Size) THEN "wrap"
  ELSE "ok"

ExecLoad ==
  /\ AtOp /\ Op.opcode = "LOAD"
  /\ IF AccessCause # "ok" THEN GiveUp(AccessCause)
     ELSE IF ~(Addresses(Space, Address, Size) \subseteq DOMAIN mem) THEN GiveUp("unmapped")
     ELSE Produce(exec_load_u64(Space, Address, Size, Op.endian))
  /\ stale' = (stale \/ TouchesLeftover)
  /\ UNCHANGED <<m, created, mem, gen, assigned, ready>>

ExecStore ==
  /\ AtOp /\ Op.opcode = "STORE"
  /\ IF AccessCause # "ok" THEN GiveUp(AccessCause) /\ UNCHANGED <<mem, gen>>
     ELSE /\ mem' = exec_store_u64(Space, Address, Size, Src(3).lo, Size, Op.endian)
          /\ gen' = gen + 1
          /\ Produce(gen + 1)
  /\ stale' = (stale \/ TouchesLeftover)
  /\ UNCHANGED <<m, created, assigned, ready>>

(* A store that runs out of memory at byte n keeps the bytes before it.    *)
ExecStoreFails ==
  /\ AtOp /\ Op.opcode = "STORE" /\ AccessCause = "ok"
  /\ \E n \in 0 .. (Size - 1) :
       /\ NeedsPage(Space, Address, n)
       /\ mem' = exec_store_u64(Space, Address, n, Src(3).lo, Size, Op.endian)
  /\ GiveUp("oom")
  /\ stale' = (stale \/ TouchesLeftover)
  /\ UNCHANGED <<m, created, gen, assigned, ready>>

-----------------------------------------------------------------------------
(* Terminators.                                                            *)

ReadableAll(args) == \A i \in 1 .. Len(args) : Readable(args[i])
LeftoverIn(args) == \E i \in 1 .. Len(args) : Readable(args[i]) /\ Leftover(args[i])

TransferCause(target, args, oom) ==
  IF ~valid_block(m, target) THEN "target"
  ELSE IF Len(m.blocks[target].params) # Len(args) THEN "target"
  ELSE IF args # <<>> /\ oom THEN "oom"
  ELSE IF ~ReadableAll(args) THEN "undefined"
  ELSE IF \E i \in 1 .. Len(args) :
            exec_read_value(args[i]).type # TypeOf(m, m.blocks[target].params[i])
       THEN "type"
  ELSE "ok"

(* Mutant: parameters are overwritten one by one, without the copy.        *)
ParamsInPlace(params, args) ==
  LET after[n \in 0 .. Len(params)] ==
        IF n = 0 THEN val
        ELSE [w \in DOMAIN after[n - 1] \cup {params[n]} |->
                IF w # params[n] THEN after[n - 1][w]
                ELSE IF args[n] \in DOMAIN after[n - 1] THEN after[n - 1][args[n]]
                ELSE exec_read_value(args[n])]
  IN  after[Len(params)]

(* exec_transfer_args reads every argument into a copy before it defines   *)
(* the first parameter.                                                    *)
ParamValues(params, args) ==
  [v \in DOMAIN val \cup ElemsOf(params) |->
     IF v \in ElemsOf(params)
     THEN exec_read_value(args[CHOOSE i \in 1 .. Len(params) : params[i] = v]) ELSE val[v]]

(* A type mismatch at parameter n + 1 is met after n definitions.          *)
MismatchAfter(params, args, n) ==
  /\ n < Len(params)
  /\ exec_read_value(args[n + 1]).type # TypeOf(m, params[n + 1])
  /\ \A i \in 1 .. n : exec_read_value(args[i]).type = TypeOf(m, params[i])

exec_transfer_args(target, args, oom) ==
  LET cause == TransferCause(target, args, oom)
      params == m.blocks[target].params
  IN  \/ /\ cause \notin {"ok", "type"}
         /\ NoValue /\ Abort(cause)
      \/ /\ cause = "type"
         /\ \E n \in 0 .. Len(params) :
              /\ MismatchAfter(params, args, n)
              /\ val' = ParamValues(SubSeq(params, 1, n), args)
              /\ defined' = defined \cup ElemsOf(SubSeq(params, 1, n))
         /\ UNCHANGED <<fresh, carried>> /\ Abort(cause)
      \/ /\ cause = "ok"
         /\ val' = ParamValues(params, args)
         /\ defined' = defined \cup ElemsOf(params)
         /\ fresh' = ElemsOf(params) /\ carried' = {}
         /\ current' = target /\ entering' = TRUE /\ idx' = 0
         /\ UNCHANGED <<running, steps, limit, runs, why, result>>

ExecJump ==
  /\ AtTerm("JUMP")
  /\ \E oom \in BOOLEAN : exec_transfer_args(Here.term.true_target, TrueArgs(m, current), oom)
  /\ stale' = (stale \/ LeftoverIn(TrueArgs(m, current)))
  /\ UNCHANGED <<m, created, mem, gen, assigned, ready>>

Condition == exec_read_value(Here.term.condition)
Taken == Condition.lo % 2 = 1
TakenTarget == IF Taken THEN Here.term.true_target ELSE Here.term.false_target
TakenArgs == IF Taken THEN TrueArgs(m, current) ELSE FalseArgs(m, current)

ExecCbranch ==
  /\ AtTerm("CBRANCH")
  /\ IF ~Readable(Here.term.condition)
     THEN NoValue /\ Abort("undefined") /\ UNCHANGED stale
     ELSE IF ~is_i1(Condition.type)
     THEN NoValue /\ Abort("type") /\ stale' = (stale \/ Leftover(Here.term.condition))
     ELSE /\ \E oom \in BOOLEAN : exec_transfer_args(TakenTarget, TakenArgs, oom)
          /\ stale' = (stale \/ Leftover(Here.term.condition) \/ LeftoverIn(TakenArgs))
  /\ UNCHANGED <<m, created, mem, gen, assigned, ready>>

(* *out_result is written before the first argument is read, and read      *)
(* arguments stay in it when a later one is undefined.                     *)
ReturnResult(args) ==
  [exec_set_result("RETURN", current, 0) EXCEPT
     !.returns = [i \in 1 .. Len(args) |->
                    IF \A j \in 1 .. i : Readable(args[j]) THEN exec_read_value(args[i])
                    ELSE exec_value_make(xair_type_void, 0)]]

ExecReturn ==
  /\ AtTerm("RETURN")
  /\ NoValue
  /\ LET args == TrueArgs(m, current)
     IN  /\ running' = FALSE /\ entering' = FALSE
         /\ why' = IF Len(args) > MaxReturns THEN "too_many"
                   ELSE IF ~ReadableAll(args) THEN "undefined" ELSE "ok"
         /\ result' = IF Len(args) > MaxReturns THEN result ELSE ReturnResult(args)
         /\ stale' = (stale \/ (Len(args) <= MaxReturns /\ LeftoverIn(args)))
  /\ UNCHANGED <<current, idx, steps, limit, runs>>
  /\ UNCHANGED <<m, created, mem, gen, assigned, ready>>

ExecStop ==
  /\ InBlock /\ idx > Len(Here.ops) /\ Here.term.kind \in {"TRAP", "FAULT", "NONE"}
  /\ IF Here.term.kind = "NONE" THEN Abort("no_terminator")
     ELSE Halt(exec_set_result(Here.term.kind, current, Here.term.code))
  /\ NoValue
  /\ UNCHANGED <<m, created, mem, gen, assigned, stale, ready>>

Step ==
  \/ EnterBlock \/ ExecConst \/ ExecScalar \/ ExecLoad \/ ExecStore \/ ExecStoreFails
  \/ ExecJump \/ ExecCbranch \/ ExecReturn \/ ExecStop

Next == StateCreate \/ SetParam \/ xair_exec_store_bytes \/ Run \/ Step

Spec == Init /\ [][Next]_vars

(* xair_exec_run is a loop in one thread: once called it keeps stepping.   *)
FairSpec == Spec /\ WF_vars(Step)

-----------------------------------------------------------------------------
(* Properties.                                                             *)

(* On a verified module every value the executor reads was written for     *)
(* this visit of the block, by its own operations or by the branch into    *)
(* it, although the state keeps everything that earlier visits, blocks and *)
(* runs left marked as defined.  In the first visit of a run the client    *)
(* takes the place of the branch, and only there can the read be of an     *)
(* older value: an entry parameter that the client did not set for this    *)
(* run (carried) still holds what it was last given, perhaps by a branch   *)
(* of an earlier run.                                                      *)
NeverStale == ~stale

(* The executor repeats the verifier's checks at run time; on a verified   *)
(* module they never fire.  The one error left to the client is an entry   *)
(* parameter it forgot to set.                                             *)
VerifiedNeverFails ==
  /\ why \notin {"type", "not_memory", "target", "no_terminator"}
  /\ why = "undefined" => ~ready

(* Stored values have the type their identifier was declared with, across  *)
(* parameters set by the client, results and block arguments.              *)
StoredTypesAgree == \A v \in defined : val[v].type = TypeOf(m, v)

(* Passing block arguments is simultaneous: after a branch each parameter  *)
(* holds what its argument held before, even when a block branches to      *)
(* itself and exchanges its own parameters.                                *)
ParallelTransfer ==
  [][entering' /\ ~entering /\ running =>
       \E args \in {TrueArgs(m, current), FalseArgs(m, current)} :
         /\ Len(args) = Len(m.blocks[current'].params)
         /\ \A i \in 1 .. Len(args) :
              val'[m.blocks[current'].params[i]] = exec_read_value(args[i])]_vars

Reversed(x, size) ==
  MapThenSumSet(LAMBDA i : ((x \div 256^i) % 256) * 256^(size - 1 - i), 0 .. (size - 1))

(* A load returns what the last store before it wrote to the same address, *)
(* whatever was in memory before: the same number in the same byte order,  *)
(* the bytes reversed in the other.                                        *)
StoreThenLoad ==
  InBlock =>
    \A i, j \in 1 .. (idx - 1) :
      LET st == m.ops[Here.ops[i]]
          ld == m.ops[Here.ops[j]]
          type == TypeOf(m, ld.dst)
          x == exec_read_value(st.src[3]).lo % 2^type.bits
      IN  /\ i < j /\ st.opcode = "STORE" /\ ld.opcode = "LOAD"
          /\ st.src[2] = ld.src[2] /\ TypeOf(m, st.src[1]) = TypeOf(m, ld.src[1])
          /\ TypeOf(m, st.src[3]) = type
          /\ \A k \in (i + 1) .. (j - 1) : m.ops[Here.ops[k]].opcode # "STORE"
          => val[ld.dst].lo = IF st.endian = ld.endian THEN x ELSE Reversed(x, type.bits \div 8)

(* A run ends: the step limit bounds the number of blocks it visits.       *)
RunEnds == running ~> ~running
=============================================================================
