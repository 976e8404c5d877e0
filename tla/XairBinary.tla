----------------------------- MODULE XairBinary -----------------------------
(***************************************************************************)
(* The loader of src/src/xair_binary.c.                                    *)
(*                                                                         *)
(* A file is what its headers say: kind (ELF32, ELF64, PE32, PE32+, or     *)
(* OTHER), machine (it is the one that goes with the kind), ends (where    *)
(* the file ends: within the "magic", "header", "optional" header or       *)
(* "table", or "none" when all headers are there), size, entry, base and   *)
(* the table of segments or sections.  Its bytes are named by their        *)
(* offsets, so a copied segment is its range of the file.  Addresses,      *)
(* offsets and sizes, 64 bits in the code, are numbers below Limit.        *)
(*                                                                         *)
(* p carries a view under construction, the status, the number of heap     *)
(* blocks in use, and fuel, the allocations until one fails.               *)
(***************************************************************************)
EXTENDS Integers, Sequences, SequencesExt

CONSTANT Limit      \* 2^64

ASSUME BinaryAssumption == Limit \in Nat \ {0}

EXEC == "x"         \* XAIR_BINARY_PERM_EXEC, an element of perms

NoView == [format |-> "UNKNOWN", arch |-> 0, entry |-> 0, image_base |-> 0,
           segments |-> <<>>, array |-> FALSE]
NoImage == [arch |-> 0, entry |-> 0, segment_base |-> 0, segment_bytes |-> 0,
            segment_size |-> 0, held |-> FALSE]

Stop(p, status) == [p EXCEPT !.status = status]

(* Mutant: the end of the range is computed first and may wrap around.     *)
RangeWraps(size, offset, need) == (offset + need) % Limit <= size

range_ok(size, offset, need) == offset <= size /\ need <= size - offset

max_u64(x, y) == IF x > y THEN x ELSE y

(* Growing the array comes before copying the bytes.                       *)
append_segment(p, size, segment) ==
  LET grown == [p EXCEPT !.view.array = TRUE, !.heap = IF p.view.array THEN @ ELSE @ + 1,
                         !.fuel = @ - 1]
  IN  IF segment.mem_size = 0 THEN p
      ELSE IF ~range_ok(size, segment.file_offset, segment.file_size) THEN Stop(p, "RANGE")
      ELSE IF p.fuel = 0 THEN Stop(p, "OOM")
      ELSE IF grown.fuel = 0 THEN Stop(grown, "OOM")
      ELSE [grown EXCEPT !.view.segments = Append(@, segment), !.heap = @ + 1, !.fuel = @ - 1]

(* The entries of a table in order, those that are not loaded skipped,     *)
(* until one cannot be appended: what is loaded after i of them.           *)
AppendedUpTo(p, size, segments, loads) ==
  LET upTo[i \in 0 .. Len(segments)] ==
        IF i = 0 THEN p
        ELSE IF upTo[i - 1].status # "OK" \/ i \notin loads THEN upTo[i - 1]
        ELSE append_segment(upTo[i - 1], size, segments[i])
  IN  upTo

AppendAll(p, size, segments, loads) ==
  LET q == AppendedUpTo(p, size, segments, loads)[Len(segments)]
  IN  IF q.status = "OK" /\ q.view.segments = <<>> THEN Stop(q, "RANGE") ELSE q

(* A section lies at an offset from the image base.                        *)
pe_segment(file, s) ==
  [va |-> (file.base + s.va) % Limit, mem_size |-> max_u64(s.mem_size, s.file_size),
   file_offset |-> s.file_offset, file_size |-> s.file_size, perms |-> s.perms]

elf_segment(s) ==
  [va |-> s.va, mem_size |-> s.mem_size, file_offset |-> s.file_offset,
   file_size |-> s.file_size, perms |-> s.perms]

pe_headers(view, file) ==
  [view EXCEPT !.arch = IF file.kind = "PE32" THEN 32 ELSE 64, !.format = "PE",
               !.image_base = file.base, !.entry = (file.base + file.entry) % Limit]

elf_headers(view, file) ==
  [view EXCEPT !.arch = IF file.kind = "ELF32" THEN 32 ELSE 64, !.format = "ELF",
               !.entry = file.entry]

parse_pe_view(p, file) ==
  LET q == [p EXCEPT !.view = pe_headers(@, file)]
  IN  IF file.kind \notin {"PE32", "PE32+"} \/ file.ends \in {"magic", "header"}
      THEN Stop(p, "UNSUPPORTED")
      ELSE IF file.ends = "optional" THEN Stop(p, "RANGE")
      ELSE IF ~file.machine THEN Stop(p, "UNSUPPORTED")
      ELSE IF file.ends = "table" THEN Stop(q, "RANGE")
      ELSE AppendAll(q, file.size, [i \in 1 .. Len(file.table) |-> pe_segment(file, file.table[i])],
                     1 .. Len(file.table))

(* parse_elf32_view and parse_elf64_view.                                  *)
parse_elf_view(p, file) ==
  LET q == [p EXCEPT !.view = elf_headers(@, file)]
  IN  IF file.kind \notin {"ELF32", "ELF64"} \/ file.ends = "magic" THEN Stop(p, "UNSUPPORTED")
      ELSE IF file.ends = "header" THEN Stop(p, "RANGE")
      ELSE IF ~file.machine THEN Stop(p, "UNSUPPORTED")
      ELSE IF file.ends = "table" THEN Stop(p, "RANGE")
      ELSE AppendAll(q, file.size, [i \in 1 .. Len(file.table) |-> elf_segment(file.table[i])],
                     {i \in 1 .. Len(file.table) : file.table[i].load})

(* Mutant: the view is emptied but its segments are not freed.             *)
JustClear(p) == [p EXCEPT !.view = NoView]

xair_binary_view_destroy(p) ==
  [p EXCEPT !.view = NoView,
            !.heap = @ - Len(p.view.segments) - (IF p.view.array THEN 1 ELSE 0)]

(* readable: the file can be opened and read.                              *)
xair_binary_view_load_path(p, file, readable) ==
  LET held == [p EXCEPT !.view = NoView, !.status = "OK", !.heap = @ + 1, !.fuel = @ - 1]
      elf == parse_elf_view(held, file)
      parsed == IF elf.status = "UNSUPPORTED" THEN parse_pe_view([elf EXCEPT !.status = "OK"], file)
                ELSE elf
      freed == [parsed EXCEPT !.heap = @ - 1]
      cleared == [p EXCEPT !.view = NoView]
  IN  IF ~readable THEN Stop(cleared, "BAD_ARG")
      ELSE IF p.fuel = 0 THEN Stop(cleared, "OOM")
      ELSE IF freed.status = "OK" THEN freed
      ELSE xair_binary_view_destroy(freed)

(* The index of the first segment that holds an address, or 0.             *)
xair_binary_view_find_segment(view, va, required_perms) ==
  LET holds(s) == required_perms \subseteq s.perms /\ va >= s.va /\ va - s.va < s.mem_size
  IN  SelectInSeq(view.segments, holds)

(* Mutant: a read may run to the end of the segment in memory.             *)
ReadsMemory(view, va, size) ==
  LET i == xair_binary_view_find_segment(view, va, {})
      s == view.segments[i]
  IN  IF i = 0 \/ size > s.mem_size - (va - s.va) THEN [status |-> "RANGE", bytes |-> <<>>]
      ELSE [status |-> "OK", bytes |-> [k \in 1 .. size |-> s.file_offset + (va - s.va) + k - 1]]

xair_binary_view_read(view, va, size) ==
  LET i == xair_binary_view_find_segment(view, va, {})
      s == view.segments[i]
      offset == va - s.va
  IN  IF i = 0 \/ offset > s.file_size \/ size > s.file_size - offset
      THEN [status |-> "RANGE", bytes |-> <<>>]
      ELSE [status |-> "OK", bytes |-> [k \in 1 .. size |-> s.file_offset + offset + k - 1]]

(* Mutant: the first segment, executable or not.                           *)
AnyEntry(view) == xair_binary_view_find_segment(view, view.entry, {})

EntrySegment(view) ==
  LET exec == xair_binary_view_find_segment(view, view.entry, {EXEC})
  IN  IF exec # 0 THEN exec ELSE xair_binary_view_find_segment(view, view.entry, {})

(* p.image is the result; the view only exists during the call.            *)
xair_binary_load_path(p, file, readable) ==
  LET loaded == xair_binary_view_load_path([p EXCEPT !.image = NoImage], file, readable)
      s == loaded.view.segments[EntrySegment(loaded.view)]
      copied == [loaded EXCEPT !.heap = @ + 1, !.fuel = @ - 1,
                   !.image = [arch |-> loaded.view.arch, entry |-> loaded.view.entry,
                              segment_base |-> s.va, segment_bytes |-> s.file_offset,
                              segment_size |-> s.file_size, held |-> TRUE]]
  IN  IF loaded.status # "OK" THEN loaded
      ELSE IF EntrySegment(loaded.view) = 0
           THEN xair_binary_view_destroy(Stop(loaded, "RANGE"))
      ELSE IF loaded.fuel = 0 THEN xair_binary_view_destroy(Stop(loaded, "OOM"))
      ELSE xair_binary_view_destroy(copied)

xair_binary_image_destroy(p) ==
  [p EXCEPT !.image = NoImage, !.heap = IF p.image.held THEN @ - 1 ELSE @]
=============================================================================
