# XAIR in TLA+

XAIR is a small SSA intermediate representation for binary analysis, written in C.
This directory specifies the library: how modules are built, verified, canonicalized and
executed, the data structures underneath, and the front ends that fill modules from x86
machine code, VEX statements and executable files. TLC checks the specifications on small
instances; TLAPS proves the central results for every instance.

Source references are relative to the repository (`src/xair.c` of the repository is
`src/src/xair.c` in `PROJECT.json`).

## 1. The system

Everything is single-threaded library code behind a C interface. There are no locks,
callbacks or messages. What makes it hard is not concurrency but the number of call
sequences a client may make, calls that fail half way (every allocation may), state that
outlives a call (the value-number table, an execution state used for several runs), two
independent copies of the arithmetic, and passes that rewrite identifiers in place.

| Part | State | Operations | Correct when |
|---|---|---|---|
| Types (`xair.c` 433-463, 606-664) | none | constructors, validity | the verifier, builder and folder switch on the same classes |
| Builder and module (`xair.c` 149-585, 737-1182) | `xair_module`: values, operations, blocks, a pool of terminator arguments, frozen flag; `xair_builder`: who owns the module | block and parameter creation, constants, unary, binary, load, store, five terminators, freeze | links between tables agree after any sequence of calls and failures; SSA order; no expression built twice; nothing changes after the freeze |
| Growable arrays (96-147) | pointer, count, capacity | `grow_array`, `shrink_array`, rollback by `count--` | the used part lies inside the allocation; sizes never wrap |
| Value-number table (257-431) | open-addressing table of hashes and values | lookup, grow, insert, clear | finds exactly what was inserted; always has a free slot |
| Verifier (1189-1528) | a bitmap of available values per block | one scan per block | what it accepts, the executor can run |
| Folding, flags (1651-1987, 2830-3093) | none | two copies of the arithmetic | they agree with each other and with integers |
| Canonicalization (1989-2301) | rewrites the module | fold, order operands, mark live, compact and renumber | results are preserved, the module still verifies, a second pass changes nothing |
| Executor (2502-2607, 2768-3336) | `xair_exec_state`: a slot and a "defined" mark per value, memory, generation; the loop's current block and step count | create, set parameter, store bytes, run | never uses a value left over from an earlier visit, never trips its own run-time checks on a verified module, passes block arguments simultaneously, ends |
| Executor memory (2609-2766) | list of 4 KiB pages with a "defined" mark per byte | load and store bytes | it is flat memory |
| Formatter, metrics, fingerprint (1530-1649, 2303-2490) | none | output | - |
| x86 lifter (`xair_frontend.c`) | register file and zero flag as SSA values, the memory token, the block being filled, pc, instruction count, the result it reports | lift one block, lift a body into a block | the block computes what the instructions do; its inputs and outputs are the registers touched; what a failure leaves is known |
| VEX adapter (`xair_vex.c`) | temporaries, register cache (direct slots and a sparse list), memory token, current block | get and put registers and temporaries, load, store, operations, side exit, finish | the machine state crosses a side exit as block arguments; nothing of a block left behind is handed out; the module verifies |
| Decoder (`xair_x86_decode.c`) | none (a cursor into bytes) | decode one instruction | the instruction is the one encoded; the length is exact; no byte beyond it matters |
| Binary loader (`xair_binary.c`) | a view (segments with copied bytes) or an image (one segment) | load PE or ELF, read, look up, destroy | nothing outside the file is used; nothing leaks; the bytes are those mapped |
| Tools (`tools/`) | files, arguments | command lines | the address lifted is inside the image |

Interactions: lifter and adapter call the builder; the builder consults the value-number
table; canonicalization calls the verifier before and after, clears the table and rewrites
what the builder made; the executor verifies the module when a state is created and then
relies on it; tools call all of them. `PROJECT.json` lists the hazards at their lines and
the properties that cover each.

## 2. Modules

```
XairTypes <- XairModule <- XairVerify <- XairBuilder <- XairBuilder_proofs
                               ^
                               |-- XairCanonicalize (with XairArith) --+
                               |-- XairExec (with XairArith) ----------+-- XairLive <- XairPipeline
                               |      |-- XairMemoryVersions                              ^
                               |                                           XairExec_proofs
                               |-- XairMeaning (with XairArith) <- XairLifter <- XairLiftClient
                               |-- XairVex <- XairVexClient (with XairMeaning) <- XairVexClient_proofs
XairX86Decode <- XairDecodeClient <- XairDecodeClient_proofs
XairBinary    <- XairBinaryClient <- XairBinaryClient_proofs
GrowArray     <- GrowArray_proofs
ValueNumberTable  implements  ValueNumberSet    <- ValueNumberTable_proofs
ExecPages         implements  FlatMemory        <- ExecPages_proofs
```

- **XairTypes** - types as records `[kind, bits, aux]`, their predicates, opcode classes.
- **XairModule** - the module as a record of sequences and one operator per building
  function. Each operator takes the module, the arguments and a `fault` naming the
  allocation that fails (or `"none"`), and returns the new module and the status; all the
  steps of a C function, roll-backs included, are in its operator. Identifiers are 1-based;
  `XAIR_INVALID_ID` is `INVALID`. Names are numbers (0 is NULL): only their order matters,
  to canonicalization. The value-number table is the set of numbered values; that the hash
  table is such a set is what `ValueNumberTable` shows.
- **XairVerify** - `xair_verify_module` as a predicate with the scan order of the code: an
  operand must be a parameter of the block, the result of an earlier operation of the
  block, or a constant anywhere.
- **XairBuilder** - the construction interface as a state machine. Any call in any order,
  identifiers that dangle, frozen modules, failing allocations.
- **GrowArray** - one array with `size_t` and the element size as parameters; one action
  for each way the code uses an array (append, append undone, failure, shrink, compaction).
- **ValueNumberTable / ValueNumberSet** - the table slot by slot, and the set it stands for.
- **XairArith** - the executor's and the folder's arithmetic, each translated from its own
  lines. `uint64_t` is a word of `WordBits` bits, so that shifts at the width and wrapping
  sums occur with small numbers.
- **XairCanonicalize** - the pass as an operator on modules, with the failure points.
- **XairExec** - the executor. One action per operation or terminator and one per interface
  call. The slots are `val` and `defined`; memory is flat (`ExecPages` justifies it). History
  variables serve the properties: `fresh` (values written during this visit of the block),
  `assigned` (parameters the client set since the last run), `carried` (entry parameters still
  defined from before that, which the client did not set again), `stale` (a read returned
  something neither fresh nor carried), `ready` (all entry parameters were set), `why` (cause
  of the last return). The bound on runs stops the client altogether: its last run is the
  last of all its calls.
- **ExecPages / FlatMemory** - the page list, and the byte-addressed memory it implements.
- **XairLive** - builder, canonicalization and executor on one module that is not frozen: a
  state is created, and the client goes on building, canonicalizes or freezes between runs.
  `made` is the module as it was verified; the state recognises a change by the number of
  values only (`xair.c` 3246).
- **XairPipeline** - canonicalization judged by execution: a program is run, canonicalized,
  possibly with a failure, and run again from the same inputs with a new state; or its client
  keeps one state (`XairLive`). Integer arithmetic and the x86 flags are stated here as
  references for both copies of the arithmetic.
- **XairMemoryVersions** - the executor with the versions of memory its tokens name.
- **XairMeaning** - what every value of a module denotes when its parameters are given:
  a number, or for a memory token the bytes written. The reference for both translators.
- **XairVex / XairVexClient** - the adapter as operators from module and adapter to module
  and adapter, with each allocation of an exit as a failure point; and a client that makes any
  sequence of statements. The client keeps `ref`, the machine state the statements produce,
  and `flaws`, the things the adapter lets pass: a register read first after an exit
  (`"late"`), a block left by a failed exit (`"abandoned"`), operands or arguments of a wrong
  kind (`"kind"`).
- **XairLifter / XairLiftClient** - the lifter, one operator per helper and instruction;
  `fuel` counts building calls until one fails. The client starts lifts with either entry
  point, chooses each decoded instruction, and ends the blocks it owns; `ref` is an x86 machine.
- **XairX86Decode / XairDecodeClient** - the decoder on bytes; and a buffer that grows byte by
  byte, with the encodings of every instruction, taken from the processor manuals, as reference.
- **XairBinary / XairBinaryClient** - the loader over files given by their headers; and a client
  that loads, reads, lifts as `xair_lift_bin` does, and frees.
- **XairPrograms** - the programs the runs use: loops that exchange parameters, branches,
  stops, flag users, memory accesses, arithmetic to fold, and memory tokens.

`map` in `PROJECT.json` gives the lines of every definition. A definition whose comment begins
with "Mutant" is a wrong version of the one after it; it is used to show that the property
named in `PROJECT.json` notices the difference.

### What is abstracted

Statistics counters, error messages, block names and text output are left out. The upper
half of `xair_exec_value` is 0 in every path and left out. The 64-bit hash is an arbitrary
function of the expression, with collisions. `SIZE_MAX`, page size, first capacities and
`XAIR_EXEC_MAX_RETURNS` are parameters. Outside `XairLive` and
`XairPipeline` a module does not change during the life of an execution state. The code
renumbers the argument pool stretch by stretch, in place; the model renumbers each entry that a
terminator owns once. The two agree where stretches are disjoint, which `TermArgsDisjoint` says
of every module the construction interface makes.

In the front ends: generated names, messages, `raw_opcode`, `bytes_read` and operand sizes
that nobody reads are left out. A VEX operation is a record of name and widths instead of a
string. An x86 immediate is 8 bytes in the decoder and a word in the lifter. A file is the
fields of its headers plus the place where it ends; byte *i* of the file is named *i*, so a
copied segment is the range it was copied from. A building call of the lifter fails as a
whole, which is sound because a failed call changes nothing (`FailedCallLeavesNoTrace`).

## 3. Runs

| Run | What it asks | Bounds |
|---|---|---|
| `builder` | `WellLinked`: values, operations and blocks name each other, in SSA order; `ListsExact`: block lists are complete, owned, and the verifier's scan is locality; `PooledExactly`: the numbering is exact and no expression exists twice; `TermArgsDisjoint`: terminators own disjoint stretches of the pool; `HandedOverForGood`, `FailedCallLeavesNoTrace`, `AppendOnly`: what calls may never change, the entries of the pool included | two kinds of client (`MCXairBuilder`). Operations: 2 blocks, identifiers up to 3: enough for a constant, an operation on it and a duplicate in either block, and for every allocation of each call to fail. Terminators: 3 blocks, lists of up to 1, pool of 3: two complete branches, and one that fails between its lists followed by another |
| `grow_array` | Inside the allocation, no wrap | `SizeMax` 63, element size 2, batches 1, 3, 6: the limit is reached by doubling and by exact-size arrays |
| `value_numbers` | `HalfEmpty`: a free slot always remains; `ImplementsSet`: it is the set of expressions | 5 keys, three with one home slot, one separated by growth, one at the last slot (wrap-around), capacities 4, 8, 16 |
| `canonicalize` | `CanonicalizePreserves`, `CanonicalizeVerifies`, `Idempotent`: same outcome, still verified and linked, nothing left for a second pass; `ComputesMeaning`: results and flags are those of integers and of x86; `NothingLeftToFold`: folder and executor support the same operations; `SafeWhileBuilding`, `StateInBounds`: a state kept while its module grows or is renumbered | every integer and address operation, `CONCAT` and the conversions between integers and addresses included, on boundary values at 1, 8 and 16 bits, 16 being the word, so that the mask of a full word and shifts at its width occur; the one product too large for TLC is left out; arithmetic, token, loop, stop and flag programs, with every failure point; kept state: a loop with and without a dead value, one added value, three blocks, two runs |
| `exec` | `NeverStale`, `VerifiedNeverFails`, `StoredTypesAgree`: what verification rules out; `ParallelTransfer`: block arguments pass simultaneously; `StoreThenLoad`: byte orders agree; `RunEnds`: every run ends | two runs on one state from either entry, step limits 0 and 3: a self-loop exchanging its parameters is entered again with old slots marked defined, with its parameters set anew or not; one- and two-byte accesses across a page boundary and past the last address; stores failing in the second page |
| `exec_pages` | Implements flat memory | 2 spaces of 3 two-byte pages; accesses of 0 to 4 bytes across up to 3 pages and past the end |
| `vex` | `CarriesState`: temporaries, registers and memory denote what the statements gave them, through every exit; `CachedHere`: the adapter is always in one open block and remembers only values usable there; `VerifiesUnlessFlawed`: the three flaws are the only ways to an invalid module; `FailureKeepsState` | four sessions: two exits with a direct and a sparse register, 4 blocks, 6 values; each allocation of an exit failing; failures of the caches and the temporary they refuse, with and without memory; every VEX operation on right and wrong widths and kinds |
| `lift` | `LiftsMeaning`: after each instruction the block denotes the machine's state, and branches go where the machine goes; `ResultDescribesBlock`: the inputs are the block's parameters, the outputs are the registers written, in order, and the block returns memory, registers and condition in that order, with room for all; `VerifiesOnceEnded` | a session of instructions: every form the lifter knows, and shapes it turns down, up to three in a row in both widths; a session of failures: two lifts into one module, 0 to 8 building calls before a failure, images that end early. A word has 16 bits, so registers of 32 and 64 bits hold the same numbers; the widths differ in the types, and in the bytes that loads, stores, push and pop move |
| `decode` | `DecodesEncoding`: what is reported is what the bytes encode, with two stated exceptions; `LengthExact`; `AnswerStable`: bytes behind an instruction never matter and a cut-off one is a range error | every opcode and second byte, two values of every later byte; no prefix, one, all REX bits, two, and as many as make the length wrap |
| `binary` | `HeapOwned`: nothing leaks; `WithinFile`; `ReadsWhatIsMapped`: the first segment that maps the address answers; `ImageHoldsEntry` | addresses below 8 so that sums wrap, a file of 4 bytes, all header truncations, every single segment of the grid, pairs that overlap or not, 0 to 5 allocations before a failure |
| `lift_requested` | `LiftsWhereRequested`: an address with a byte in an executable segment can be lifted from - **violated**, see section 5 | the files of `binary`, no failing allocation, requests at 0 (the header's entry) and 4 |
| `memory_versions` | A load returns the bytes of the version it names - **violated**, see section 5 | one store and loads before and after it |

`CHECK_DEADLOCK FALSE` appears where a bounded client stops calling: `MaxRuns`, `maxLifts`,
a translation that has reached its bound on values, a buffer that has been answered. In the other runs a client may always make another call.

`XairVexClient` and `XairLiftClient` take a set of *sessions*: each is one kind of client with
its own bounds, fixed in the initial state, so one run explores exits, failures and
operations of all kinds without the product of them all.

**Fairness.** `RunEnds` (every call of `xair_exec_run` returns) assumes `WF_vars(Step)` only:
once inside the call the loop proceeds without waiting for anyone, because the code is
single-threaded and no operation blocks. Nothing is assumed about the client.

**Idempotence** is stated for modules whose values have distinct names. `compare_value_order`
falls back on identifiers when types and names are equal, and compaction changes
identifiers, so with equal names the second pass may order operands differently.

## 4. Proofs

Every theorem holds for all values of the constants that satisfy the named assumptions; TLC
evaluates those assumptions on the instances of section 3. The properties proved here are the
same definitions the runs check.

### `XairBuilder_proofs`: the tables of a module stay consistent

For every client, any number of calls with any arguments, and a failed allocation anywhere:

- `WellLinkedAlways`, made of `OpsLinkedAlways`, `ValuesLinkedAlways` (operations and values
  name each other) and `DefinedBeforeUseAlways` (SSA order by construction).
- `PooledExactlyAlways`, made of `NumberingExactAlways` and `NoDuplicateExpressionAlways` - the
  value-number table knows all operations and no others, hence no expression is built twice
  where numbering applies.
- `ListsExactAlways` - each block lists its own parameters and operations, each once, in
  creation order.
- `TermArgsDisjointAlways` - each terminator owns its own stretches of the argument pool,
  whatever earlier terminator calls failed between copying their two lists.
- `AppendOnlyAlways` - no call changes or removes what an earlier call has built: values,
  operations, entries of the argument pool, and every block that has its terminator.
- `FailedCallLeavesNoTraceAlways` - what a failed call may never change.
- `HandedOverForGoodAlways`, made of `HandedOverFrozenAlways` and `FrozenForeverAlways` - the
  builder gives a module away only frozen, and no call changes a frozen module.
- `TypeOKAlways`.

The first half of the module reduces every call to one of six changes: nothing but the
argument pool, a new block, parameter, operation or terminator, or the freeze (`Changes`).
There is one lemma per function of `xair.c`; those of `add_op` and `xair_block_add_param`
show that the roll-back of each failed step restores the module (`ValueUndone`, `OpUndone`).
The second half proves `Inv` change by change. `NoDuplicateExpression` is not inductive
alone: it needs `NumberingExact` (the lookup searches the whole module) and `OpsLinked` (a
table entry leads back to its operation).

Assumed: `ClientAssumption` and `MaxIdAssumption` (identifiers, types and immediates are of
the right kind); the bounds of the model are arbitrary naturals.

### `XairExec_proofs`: the verifier suffices for the executor

The first part is about `XairExec`, for every module, input, entry block, step limit and
number of runs:

- `NeverStaleAlways` - every value read was written for this visit of the block, by its own
  operations or by the branch into it. The "defined" marks are never cleared, so this is not
  local to any function. There is one exception, which the property states: in the first visit
  of a run, an entry parameter the client did not set for this run (`carried`) holds what it
  was last given, perhaps by a branch of an earlier run; `xair_exec_run` accepts it because
  its mark is still set.
- `VerifiedNeverFailsAlways` - undefined operands, wrong types, bad targets and missing
  terminators cannot occur on a module that passed `xair_verify_module`, provided the
  parameters of the entry block were set.
- `StoredTypesAgreeAlways` - every slot holds a value of its declared type.
- `ParallelTransferAlways` - after a branch each parameter of the target holds what its
  argument held before, whatever permutation of its own parameters a block passes to itself.

Neither of the first two is inductive. The invariant `Inv` adds where the executor stands
(`Position`), that slots and marks cover the same valid identifiers with the right types
(`Slots`), and `Visit`: each parameter of the current block that is marked was written for
this visit, and so was every result before the current operation. The lemma
`AvailableIsFresh` is the heart: what the verifier's scan considers available at a point is
exactly what `Visit` says is fresh there, or a constant. Then there is one lemma per action.
`Inv` has a parameter, the number of verified blocks the run may move in: here all of them.

The second part is about `XairLive`, where the client goes on with the module after the
state was made (the run checks it inside `XairPipeline`, whose live clients take exactly the
steps of `LiveSpec`):

- `StateInBoundsAlways` - building, freezing and canonicalizing between runs never make the
  executor leave the arrays of its state or of the module. `BoundsInv` says that every
  identifier in a block's lists, and the destination of every operation listed, exists. That
  canonicalization keeps this needs its whole data flow: the pass over the operations changes
  no destination and no length (`LocalOpsRewrites`); the two orders contain everything the
  kept part of a block refers to (`OrdersInBounds`, over the concatenation of all blocks'
  parts); so every renumbered identifier is a position in them (`RenumberedInBounds`). The
  single comparison of value counts in `xair_exec_run` is then enough.
- `SafeWhileBuildingAlways` - until a canonicalization changes something, the verified blocks
  are unchanged, and runs that enter there keep all guarantees of the first part.
  `BlockStaysVerified` shows that the verifier's answer for a block depends only on what
  building cannot change (`AgreesWhileBuilding`: all verified blocks are closed, tables
  only grow); `Inv`, now with the number of blocks at the time of verification, follows.

The third part is about `XairPipeline`:

- `CanonicalizeVerifiesAlways` - whatever module is canonicalized, with whatever allocation
  failing, the result passes the verifier and its tables name each other. What is kept from one
  step of the pass to the next is `Whole` (verified, lists owned, linked). The pass over the
  operations keeps it operation by operation (`OpReplaced`, `FoldsToConstant`,
  `SwappedVerifies`, `LocalOpsKeepWhole`). Compaction is harder. The mark loop ends with a set
  closed under operands and terminators, by counting (`ReachingExists`, `LiveIsClosed`); the
  two orders list each kept identifier exactly once (`ValuesOrdered`, `OpsOrdered`); so
  renumbering maps values, operations, lists and stretches of the pool one to one
  (`RenumberedRenames`). Availability, types and terminators therefore carry over
  (`StillAvailable`, `RenamedVerifies`), and so do the links (`RenamedLinks`).

Assumed: `ExecAssumption` (programs are well-shaped modules, client inputs are values), nothing
on their size; and for `ParallelTransferAlways` and `SafeWhileBuildingAlways` that programs
list parameters once and point their terminators into the pool (`BuiltAssumption`). The second
is what `ListsExactAlways` and `TermArgsDisjointAlways` guarantee for every module the
construction interface makes: the verifier does not check it. `CanonicalizeVerifiesAlways`
assumes `LinkedAssumption` too: tables name each other, and a frozen module has an empty
value-number table, which `WellLinkedAlways` and `NumberingExactAlways` give.

### `ExecPages_proofs` and `ValueNumberTable_proofs`: the two refinements

- `ImplementsFlatAlways` - the page list with its "defined" marks implements flat memory, for
  any page size, any number of spaces, accesses across any number of pages, and an
  allocation that fails in the middle of a store. The mapping reads a byte from the first page
  of the list that covers it; the invariant that makes it work is that no two pages do.
- `ImplementsSetAlways` - the open-addressing table implements a set of expressions, for every
  hash function; `HalfEmptyAlways` - a free slot always remains, so that every probe ends.
  The invariant (`Reachable`): between its home slot and its place, an entry meets no free
  slot, wrap-around included. Insertion and growth, which moves the entries one by one into a
  larger table, keep it. Assumed is a first capacity above 2 (the code's is 64): a table of
  two slots is half full with its first entry, because growth is decided before the insertion.

### `XairBinaryClient_proofs` and `XairDecodeClient_proofs`

- `HeapOwnedAlways`, `WithinFileAlways`, `ReadsWhatIsMappedAlways`, `ImageHoldsEntryAlways` -
  for every file (any header fields, any number of segments, cut off anywhere), every width of
  addresses and any allocation failing: the heap blocks in use are those view and image hold
  and no byte outside the file is copied. A read answers from the first segment, in the order
  of the table, that maps its address, and exactly if all its bytes lie in that segment's part
  of the file; this holds for overlapping segments and for more file than memory, too. Only
  where segments are well formed (disjoint, no more file than memory) does it follow that a
  read succeeds exactly if one segment has all its bytes. An image is a segment with the entry
  of the header, and in a well-formed file lifting there succeeds exactly if the file has its
  byte; at another requested address the lifter gets that address's byte or a range error.
- `LengthExactAlways`, `AnswerStableAlways` - for any REX prefixes, however many, any opcode
  and any bytes behind it: the decoder reports the number of bytes it consumed (in 8 bits), and
  bytes beyond an instruction never change its answer.
- `DecodesEncodingAlways` - an instruction that is reported is one that the manuals encode as the
  bytes consumed, whatever the values of registers, displacements and immediates, with two
  exceptions (section 5): the exchange with r8 (`ExchangeForNop`), and encodings of more than
  15 bytes (`Overlong`). The theorem says that there is no third.

The decoder lemmas come in pairs, one pair for each function of the decoder. `..Encoded`: the
operand made of a ModRM byte, a SIB byte and a displacement has a form with these mod and rm
fields and these bytes (`RmEncoded`), and with the opcode, the reg field and the immediate it
is one of the `Encodings` of the answer. `..Seen`: a buffer with the same bytes up to there
gets the same answer. The end both speak of is the length of the buffer when the answer first
comes, since no shorter one gave it: that is the invariant (`DecodeInv`).

### `XairVexClient_proofs`: the adapter across side exits

For every client of the adapter, any sequence of statements, any registers and any allocation
of an exit or a building call failing:

- `CachedHereAlways` - the adapter is always in one open block, and every temporary, cached
  register and the memory token it remembers may be used there.
- `FailureKeepsStateAlways` - a call that fails leaves everything the adapter remembers in place;
  it may leave a new block, or a parameter or operation at the end of the current one, and
  never touches another block.

`CachedHere` needs the whole of `xair_vex_side_exit`: the list of argument slots has a place for
everything remembered (`SlotsCover`), the continuation gets one parameter per slot, of the
slot's type (`Transferred`, `BranchMoves`), and the caches are moved to those parameters
(`MovedCaches`). Everything else the adapter does only makes one block grow (`BlockGrown`,
`BuildsIn`), which lets everything remembered stay usable. Where a call fails after some of its
building calls succeeded, the module is extended and nothing in it is changed (`Extended`,
`ExitFailed`).

Assumed: `SessionAssumption` and `MaxIdAssumption`: sessions name registers, operations and
types of the right kind, and the block a client begins with was made by the construction
functions.

### `GrowArray_proofs`: arrays stay inside their allocation

`AllocatedAlways` and `NoWrapAlways`, for every `size_t`, first capacity and element size of
at least two bytes (`SizeAssumption`; the smallest element is a 4-byte identifier). The sum
`term_arg_count + arg_count` is not checked in `append_term_args`; it cannot wrap because
both summands count elements of arrays that exist, so each is at most `SIZE_MAX` divided by the
element size (`TwoLimits`).

### How loops are reasoned about

The library's induction theorems take operators as parameters, which the provers cannot
instantiate. `InductionOnSet` states induction with a *set*: one that contains 0 and the
successor of each natural in it contains every natural. It follows from the library's theorem
that the order of the naturals is well-founded, and stands, with its consequences
(`LeastElement`, `DivMod`), at the head of each module that needs it. A loop, a fold or a
recursive function is then handled by taking the set of indices at which the wanted fact holds.
`LocalPassExists` (the canonicalization pass), `FlattenElements`, the mark loop, the scan of
prefixes and the probe sequence of the hash table are proved this way.

### Model-checked only

- `RunEnds`: liveness, out of the prover's reach.
- `ComputesMeaning`, `StoreThenLoad`, `NothingLeftToFold`: they compare numbers computed by two
  copies of the arithmetic, or by sums of bytes; powers with a variable exponent are beyond the
  arithmetic of the solvers. Checked on boundary values.
- `CanonicalizePreserves`, `Idempotent`: they compare two whole executions, or two passes; the
  argument is an induction over executions whose step is `ComputesMeaning`.
- `CarriesState`, `LiftsMeaning`: they rest on `XairMeaning`, a recursion over the values of a
  module, whose result for every module cannot be proved here.
- `ResultDescribesBlock`, `VerifiesOnceEnded`, `VerifiesUnlessFlawed`: one proof case for each
  instruction form or operation of a front end, not done.
- `StateInBounds` and `SafeWhileBuilding` are proved for the client of one state (`LiveSpec`);
  that the other half of the pipeline, which makes its states anew, satisfies them too is
  checked by TLC.

## 5. Findings

**Versions of memory.** `README.md` line 7 lists "explicit memory versions" among the design points, and loads and
stores take and produce memory tokens. The verifier checks only the type of a token and
`exec_memory_op` uses only its address space: there is one current memory. After
`m1 = store m0, a, x`, a `load m0, a` is accepted and returns `x`. Run `memory_versions`
gives the trace. Modules that thread their tokens in order, as the lifter builds them, are
not affected.

**The requested entry.** `README.md` lines 61-63 say that the loader "copies the executable
section or load segment containing the requested entry address and lifts one basic block from
that image slice". `xair_binary_load_path` takes no address: it picks the segment with the
entry of the header (`xair_binary.c` 475), and `xair_lift_bin` replaces the address afterwards
(`xair_lift_bin.c` 133-146). A request in another executable segment is out of range. Run
`lift_requested` gives the trace; what does hold is `ImageHoldsEntry`.

### Behaviour worth knowing

These are properties as the code has them, stated that way in the specifications. The
repository makes no claim to the contrary, so they are not findings.

- A register read for the first time after a side exit adds a parameter to a continuation
  whose arguments are already fixed, and a failed exit leaves an open block; both make the
  finished module invalid (`VerifiesUnlessFlawed`). A client that reads its registers before
  the first exit avoids the first.
- The adapter picks operations by name and width, so an addition on addresses is built and
  later refused by the verifier.
- A lift that fails leaves its block open, and the module cannot be verified until the caller
  ends it (`VerifiesOnceEnded`).
- A lifted block may return up to 18 values, more than `XAIR_EXEC_MAX_RETURNS` (8): executing
  it is then refused with a range error.
- `pop rsp` leaves the stack pointer advanced by a word, where the processor leaves the popped
  word in it. The reference machine does as the processor; from that instruction on the block
  is `astray` and `LiftsMeaning` claims nothing about its meaning.
- The byte `90` after a prefix with REX.B is the exchange with r8, and the decoder reports a
  nop; it also accepts instructions of more than 15 bytes, which a processor refuses.
  `DecodesEncoding` names both as its only exceptions.
- A second run may read an entry parameter that a branch of the first run has overwritten,
  if the client does not set it again (`NeverStale`).
- x86 leaves the adjust flag of a shift, and the overflow flag of a shift by more than one,
  undefined; the executor gives them a value, about which `ComputesMeaning` says nothing. The
  adjust flag of an operand of at most four bits has no meaning either and is excepted.
- The length of an instruction is kept in 8 bits; 256 or more bytes of prefixes wrap it
  (`LengthExact`).
- Where segments overlap, the first in the table answers, even if only a later one has the
  bytes; an ELF segment with more file than memory can be read past its memory
  (`ReadsWhatIsMapped`).
- A canonicalization that renumbers values but keeps their count is not noticed by a state
  made before it. The executor then stays inside its arrays (`StateInBounds`), but its slots
  belong to the old numbering.

## 6. Not modelled, and the plan

Not modelled:

- Formatter, metrics and fingerprint: output over a finished module, without state of their own.
- The tools, except how `xair_lift_bin` chooses the address: argument parsing, files, timing,
  comparison of printed results.
- The byte layout of PE and ELF headers (fixed offsets and little-endian reads): the loader is
  modelled from the fields on.

What remains, in the order of its worth:

1. **Proof** of `VerifiesUnlessFlawed`, on top of `CachedHereAlways`: `BuildsIn` has to say in
   addition that each operation appended passes `VerifyOp`, operation by operation.
2. **Proof** of `VerifiesOnceEnded` and `ResultDescribesBlock` in the same way for the lifter.
3. **Proof** of `StoreThenLoad` for byte-sized accesses of any width, if the sums over bytes can
   be brought into a form the provers handle.
