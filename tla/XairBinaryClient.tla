-------------------------- MODULE XairBinaryClient --------------------------
(***************************************************************************)
(* A client of the loader: it loads a file as a view and reads from it, or *)
(* as an image and lifts from it (tools/xair_lift_bin.c), with any         *)
(* allocation failing, and frees what it got.                              *)
(***************************************************************************)
EXTENDS XairBinary

CONSTANTS
  Files,         \* the file to load
  Fuels,         \* allocations until one fails
  Requests,      \* the tool's entry-va argument, 0 when there is none
  MaxRead        \* bound: bytes read at a time

(* Headers hold numbers of at most 64 bits.                                *)
Numbers == 0 .. (Limit - 1)
Entries == [va : Numbers, mem_size : Numbers, file_offset : Numbers, file_size : Numbers,
            perms : SUBSET {"r", "w", EXEC}, load : BOOLEAN]

ASSUME BinaryClientAssumption ==
  /\ Files \subseteq [kind : {"ELF32", "ELF64", "PE32", "PE32+", "OTHER"}, machine : BOOLEAN,
                      ends : {"magic", "header", "optional", "table", "none"}, size : Nat,
                      entry : Numbers, base : Numbers, table : Seq(Entries)]
  /\ Fuels \subseteq Nat /\ Requests \subseteq Numbers /\ MaxRead \in Nat

VARIABLES file, p, got
vars == <<file, p, got>>

Nothing == [call |-> "none"]

Init ==
  /\ file \in Files
  /\ p = [view |-> NoView, image |-> NoImage, status |-> "OK", heap |-> 0, fuel |-> 0]
  /\ got = Nothing

(* The client loads into an empty view or image.                           *)
LoadView ==
  /\ p.heap = 0
  /\ \E fuel \in Fuels, readable \in BOOLEAN :
       p' = xair_binary_view_load_path([p EXCEPT !.fuel = fuel], file, readable)
  /\ got' = Nothing
  /\ UNCHANGED file

LoadImage ==
  /\ p.heap = 0
  /\ \E fuel \in Fuels, readable \in BOOLEAN :
       p' = xair_binary_load_path([p EXCEPT !.fuel = fuel], file, readable)
  /\ got' = Nothing
  /\ UNCHANGED file

Read ==
  /\ p.view # NoView
  /\ \E va \in Numbers, size \in 1 .. MaxRead :
       got' = [call |-> "read", va |-> va, size |-> size,
               result |-> xair_binary_view_read(p.view, va, size)]
  /\ UNCHANGED <<file, p>>

(* image_offset on the image the tool makes of the segment.                *)
image_offset(image, address) ==
  address >= image.segment_base /\ address - image.segment_base < image.segment_size

Lift ==
  /\ p.image.held
  /\ \E request \in Requests :
       LET address == IF request = 0 THEN p.image.entry ELSE request
       IN  got' = [call |-> "lift", address |-> address,
                   status |-> IF image_offset(p.image, address) THEN "OK" ELSE "RANGE",
                   byte |-> p.image.segment_bytes + (address - p.image.segment_base)]
  /\ UNCHANGED <<file, p>>

Destroy ==
  /\ \/ p.view # NoView /\ p' = xair_binary_view_destroy(p)
     \/ p.image.held /\ p' = xair_binary_image_destroy(p)
  /\ got' = Nothing
  /\ UNCHANGED file

Next == LoadView \/ LoadImage \/ Read \/ Lift \/ Destroy

Spec == Init /\ [][Next]_vars

-----------------------------------------------------------------------------
(* What the file says, without the loader.                                 *)

IsElf == file.kind \in {"ELF32", "ELF64"}

IsLoaded(s) == s.load \/ ~IsElf
Loaded == {s \in ToSet(file.table) : IsLoaded(s)}
Start(s) == IF IsElf THEN s.va ELSE (file.base + s.va) % Limit
Extent(s) == IF IsElf THEN s.mem_size ELSE max_u64(s.mem_size, s.file_size)
Maps(s, va) == va >= Start(s) /\ va < Start(s) + Extent(s)
HasByte(s, va) == Maps(s, va) /\ va - Start(s) < s.file_size
Entry == IF IsElf THEN file.entry ELSE (file.base + file.entry) % Limit

(* The first entry of the table, if any, that is loaded and maps va.       *)
MapsAt(i, va) == IsLoaded(file.table[i]) /\ Maps(file.table[i], va)
First(va) ==
  {i \in 1 .. Len(file.table) : MapsAt(i, va) /\ \A j \in 1 .. (i - 1) : ~MapsAt(j, va)}

(* No two segments overlap, and none holds more than fits in memory.       *)
WellFormed ==
  /\ \A s \in Loaded : s.file_size <= Extent(s)
  /\ \A i, j \in 1 .. Len(file.table) : \A va \in Numbers :
       (/\ {file.table[i], file.table[j]} \subseteq Loaded
        /\ Maps(file.table[i], va) /\ Maps(file.table[j], va)) => i = j

-----------------------------------------------------------------------------
(* Properties.                                                             *)

(* Nothing leaks, whichever allocation or check fails on the way: the heap *)
(* blocks in use are those the view and the image hold, and a failed load  *)
(* leaves neither.                                                         *)
HeapOwned ==
  /\ p.heap = Len(p.view.segments) + (IF p.view.array THEN 1 ELSE 0)
                + (IF p.image.held THEN 1 ELSE 0)
  /\ p.status # "OK" => p.view = NoView /\ p.image = NoImage

(* Whatever the headers say, every byte that is copied, read or lifted     *)
(* lies within the file.                                                   *)
WithinFile ==
  /\ \A i \in 1 .. Len(p.view.segments) :
       p.view.segments[i].file_offset + p.view.segments[i].file_size <= file.size
  /\ p.image.held => p.image.segment_bytes + p.image.segment_size <= file.size
  /\ got.call = "read" => \A i \in DOMAIN got.result.bytes : got.result.bytes[i] < file.size
  /\ got.call = "lift" /\ got.status = "OK" => got.byte \in 0 .. (file.size - 1)

(* A read is served by the first segment in the table that maps its        *)
(* address and by no other: it succeeds exactly when that one has all the  *)
(* bytes in the file, and yields those.  So where segments overlap a read  *)
(* may fail although a later one has the bytes, and where an ELF segment   *)
(* has more bytes in the file than in memory it may leave the memory of    *)
(* the segment.  When the headers are well formed it succeeds exactly when *)
(* some segment has all the bytes: the zeros behind them are refused.      *)
ReadsWhatIsMapped ==
  got.call = "read" =>
    LET first == {file.table[i] : i \in First(got.va)}
        read == got.result.status = "OK"
    IN  /\ read <=> \E s \in first : got.va - Start(s) + got.size <= s.file_size
        /\ read => \A s \in first : \A k \in 1 .. got.size :
             got.result.bytes[k] = s.file_offset + (got.va - Start(s)) + k - 1
        /\ WellFormed =>
             (read <=> \E s \in Loaded : \A k \in 0 .. (got.size - 1) : HasByte(s, got.va + k))

(* The image is an executable segment with the entry if there is one, and  *)
(* any segment with the entry otherwise.  When the headers are well        *)
(* formed, lifting at the entry succeeds exactly when the file has its     *)
(* byte; and wherever the tool was asked to lift, what it lifts is that    *)
(* address's byte of the file, never another segment's.                    *)
ImageHoldsEntry ==
  /\ p.image.held =>
       \E s \in Loaded :
         /\ Maps(s, Entry) /\ s.file_offset = p.image.segment_bytes
         /\ p.image.segment_base = Start(s) /\ p.image.segment_size = s.file_size
         /\ (\E t \in Loaded : Maps(t, Entry) /\ EXEC \in t.perms) => EXEC \in s.perms
  /\ got.call = "lift" /\ WellFormed =>
       LET from == {s \in Loaded : HasByte(s, got.address)}
       IN  /\ got.address = Entry => (got.status = "OK" <=> from # {})
           /\ got.status = "OK" =>
                /\ from # {}
                /\ \A s \in from : got.byte = s.file_offset + (got.address - Start(s))

(* The loader copies the executable segment with the requested entry       *)
(* address (src/README.md:61-63): the address the tool is asked to lift    *)
(* from lifts whenever an executable segment has its byte.                 *)
LiftsWhereRequested ==
  got.call = "lift" /\ WellFormed =>
    ((\E s \in Loaded : EXEC \in s.perms /\ HasByte(s, got.address)) => got.status = "OK")
=============================================================================
