------------------------- MODULE XairMemoryVersions -------------------------
(***************************************************************************)
(* Memory versions and the executor.  The IR threads memory through tokens *)
(* and the executor numbers them (state->mem_generation), but it keeps one *)
(* store.  Here a history variable remembers the memory of every version,  *)
(* so that a load can be compared with the version it names.               *)
(***************************************************************************)
EXTENDS XairExec

VARIABLE snap   \* the memory of each generation, as it was when the next one began

MVInit == Init /\ snap = [g \in {0} |-> mem]

MVNext ==
  /\ Next
  /\ snap' = [g \in 0 .. gen' |-> IF g < gen' THEN snap[g] ELSE mem']

MVSpec == MVInit /\ [][MVNext]_<<vars, snap>>

LoadFrom(store, space, address, size, endian) ==
  MapThenSumSet(LAMBDA i : store[<<space, address + i>>] * 256^ByteIndex(i, size, endian),
                0 .. (size - 1))

(* README.md:6 calls memory versions explicit.  A load would then return   *)
(* the bytes of the version its token names, also when a later store has   *)
(* overwritten them; exec_memory_op reads the one current store instead.   *)
LoadSeesItsVersion ==
  [][(AtOp /\ Op.opcode = "LOAD" /\ idx' = idx + 1) =>
       LET version == snap[Src(1).lo]
       IN  /\ Addresses(Space, Address, Size) \subseteq DOMAIN version
           /\ val'[Op.dst].lo = LoadFrom(version, Space, Address, Size, Op.endian)]_<<vars, snap>>
=============================================================================
