----------------------------- MODULE ExecPages -----------------------------
(***************************************************************************)
(* The executor's memory in src/src/xair.c: a list of pages, searched from *)
(* the front, created on the first store that touches them, each with the  *)
(* bytes defined so far.  XairExec uses it as the flat memory it is shown  *)
(* to implement here.                                                      *)
(***************************************************************************)
EXTENDS Naturals, Sequences

CONSTANTS
  Accesses,      \* [space, address, data]: bytes stored, or room for bytes loaded
  LastAddress,   \* UINT64_MAX
  PageSize       \* XAIR_EXEC_PAGE_SIZE

ASSUME PageAssumption ==
  /\ LastAddress \in Nat /\ PageSize \in Nat \ {0}
  /\ Accesses \subseteq [space : Nat, address : 0 .. LastAddress, data : Seq(0 .. 255)]

VARIABLES
  pages,   \* state->pages: [space, number, bytes], bytes a function on defined offsets
  out      \* the last call: what was asked, its status and the bytes it loaded

vars == <<pages, out>>

Init == pages = <<>> /\ out = [call |-> "none", of |-> <<>>, status |-> "OK", data |-> <<>>]

Returned(call, a, status, data) ==
  out' = [call |-> call, of |-> a, status |-> status, data |-> data]

(* Mutant: the last address is out of reach.                               *)
WrapsEarly(address, size) == size > LastAddress - address

exec_range_wraps(address, size) == size # 0 /\ size - 1 > LastAddress - address

(* The position of a page in a list, as a set: the search stops at the     *)
(* first match.                                                            *)
exec_find_page(list, space, number) ==
  LET hits == {i \in 1 .. Len(list) : list[i].space = space /\ list[i].number = number}
  IN  {i \in hits : \A j \in hits : i <= j}

(* The list with the page in it, appended empty if it was missing.         *)
exec_get_or_create_page(list, space, number) ==
  IF exec_find_page(list, space, number) # {} THEN list
  ELSE Append(list, [space |-> space, number |-> number, bytes |-> [o \in {} |-> 0]])

StoreByte(list, space, address, byte) ==
  LET number == address \div PageSize
      offset == address % PageSize
      ready == exec_get_or_create_page(list, space, number)
      page == CHOOSE i \in exec_find_page(ready, space, number) : TRUE
  IN  [ready EXCEPT ![page].bytes =
         [o \in DOMAIN @ \cup {offset} |-> IF o = offset THEN byte ELSE @[o]]]

(* The list after the first n bytes of a store.                            *)
StoredUpTo(a, n) ==
  LET after[i \in 0 .. n] ==
        IF i = 0 THEN pages ELSE StoreByte(after[i - 1], a.space, a.address + i - 1, a.data[i])
  IN  after[n]

xair_exec_store_bytes(a) ==
  /\ ~exec_range_wraps(a.address, Len(a.data))
  /\ pages' = StoredUpTo(a, Len(a.data))
  /\ Returned("store", a, "OK", <<>>)

(* grow_array fails at byte n + 1, which is the first of a missing page.   *)
StoreOutOfMemory(a) ==
  /\ ~exec_range_wraps(a.address, Len(a.data))
  /\ \E n \in 0 .. (Len(a.data) - 1) :
       /\ exec_find_page(StoredUpTo(a, n), a.space, (a.address + n) \div PageSize) = {}
       /\ pages' = StoredUpTo(a, n)
  /\ Returned("store", a, "OOM", <<>>)

(* The byte at an address, as a set: {} when its page or the byte itself   *)
(* is missing.                                                             *)
ByteAt(list, space, address) ==
  {list[i].bytes[address % PageSize] :
     i \in {j \in exec_find_page(list, space, address \div PageSize) :
              address % PageSize \in DOMAIN list[j].bytes}}

TheByte(list, space, address) == CHOOSE b \in ByteAt(list, space, address) : TRUE

xair_exec_load_bytes(a) ==
  /\ ~exec_range_wraps(a.address, Len(a.data))
  /\ IF \A i \in 1 .. Len(a.data) : ByteAt(pages, a.space, a.address + i - 1) # {}
     THEN Returned("load", a, "OK",
                   [i \in 1 .. Len(a.data) |-> TheByte(pages, a.space, a.address + i - 1)])
     ELSE Returned("load", a, "RANGE", <<>>)
  /\ UNCHANGED pages

RefuseAccess(a) ==
  /\ exec_range_wraps(a.address, Len(a.data))
  /\ \E call \in {"store", "load"} : Returned(call, a, "BAD_ARG", <<>>)
  /\ UNCHANGED pages

Next ==
  \E a \in Accesses :
    xair_exec_store_bytes(a) \/ StoreOutOfMemory(a) \/ xair_exec_load_bytes(a) \/ RefuseAccess(a)

Spec == Init /\ [][Next]_vars

-----------------------------------------------------------------------------
(* The list of pages read as one memory.                                   *)
FlatDomain(list) ==
  UNION {{<<list[i].space, list[i].number * PageSize + o>> : o \in DOMAIN list[i].bytes} :
           i \in 1 .. Len(list)}

FlatMem(list) == [k \in FlatDomain(list) |-> TheByte(list, k[1], k[2])]

Flat == INSTANCE FlatMemory WITH mem <- FlatMem(pages)

(* The pages implement flat byte-addressed memory: accesses that straddle  *)
(* pages, touch the last address, overlap or fail half way read and write  *)
(* exactly the bytes of that memory.                                       *)
ImplementsFlat == Flat!Spec
=============================================================================
