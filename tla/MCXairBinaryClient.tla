------------------------- MODULE MCXairBinaryClient -------------------------
(* XairBinaryClient on small instances.                                    *)
EXTENDS XairBinaryClient

Segments(vas, mems, offsets, sizes, perms, loads) ==
  [va : vas, mem_size : mems, file_offset : offsets, file_size : sizes, perms : perms, load : loads]

File(kinds, machines, ends, entries, bases, tables) ==
  [kind : kinds, machine : machines, ends : ends, size : {4}, entry : entries, base : bases,
   table : tables]

Kinds == {"ELF32", "ELF64", "PE32", "PE32+"}
Code == [va |-> 2, mem_size |-> 3, file_offset |-> 1, file_size |-> 2, perms |-> {EXEC},
         load |-> TRUE]

(* Broken headers; any one segment; any two plausible ones.                *)
Files_All ==
  File(Kinds \cup {"OTHER"}, BOOLEAN, {"magic", "header", "optional", "table", "none"},
       {2}, {0}, {<<Code>>, <<>>})
    \cup File({"ELF64", "PE32+"}, {TRUE}, {"none"}, {0, 3}, {0, 5},
              {<<s>> : s \in Segments({0, 2, 7}, {0, 1, 3}, {0, 3, 7}, {0, 1, 2, 5},
                                      {{EXEC}}, BOOLEAN)})
    \cup File({"ELF64", "PE32+"}, {TRUE}, {"none"}, {2, 3}, {0},
              {<<s, t>> : s \in Segments({1, 3}, {1, 3}, {1}, {1, 3}, {{EXEC}, {}}, BOOLEAN),
                          t \in Segments({2, 4}, {0, 2}, {0, 2, 7}, {1, 2}, {{EXEC}, {}}, {TRUE})})
=============================================================================
