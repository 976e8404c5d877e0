---------------------- MODULE XairBinaryClient_proofs -----------------------
(***************************************************************************)
(* The loader, for every file, with any allocation failing: nothing leaks, *)
(* no byte outside the file is touched, a read yields what the headers map *)
(* and an image holds the entry.                                           *)
(*                                                                         *)
(* The argument follows the table of segments: after i entries the view    *)
(* holds exactly those of them that are loaded and not empty, in order,    *)
(* each within the file and each with a heap block of its own.             *)
(***************************************************************************)
EXTENDS XairBinaryClient, WellFoundedInduction, TLAPS

-----------------------------------------------------------------------------
(* Induction and division.                                                 *)

(* The order of the naturals is well-founded.                              *)
LEMMA LeastElement ==
  ASSUME NEW S, S \subseteq Nat, S # {}
  PROVE  \E n \in S : \A k \in S : n <= k
  <1>1. PICK n \in S : \A k \in S : ~(<<k, n>> \in OpToRel(<, Nat))
    BY NatLessThanWellFounded, WFMin, Zenon
  <1>2. ASSUME NEW k \in S, k < n
        PROVE  <<k, n>> \in OpToRel(<, Nat)
    <2>1. <<k, n>>[1] < <<k, n>>[2]
      BY <1>2
    <2>2. <<k, n>> \in Nat \X Nat
      OBVIOUS
    <2> QED BY <2>1, <2>2, Zenon DEF OpToRel
  <1>3. \A k \in S : ~(k < n)
    BY <1>1, <1>2, Zenon
  <1> QED BY <1>3

(* Induction for a set of naturals.                                        *)
LEMMA InductionOnSet ==
  ASSUME NEW S, 0 \in S, \A n \in Nat : n \in S => n + 1 \in S
  PROVE  \A n \in Nat : n \in S
  <1>1. SUFFICES ASSUME Nat \ S # {}
                 PROVE  FALSE
    OBVIOUS
  <1>2. PICK n \in Nat \ S : \A k \in Nat \ S : n <= k
    BY <1>1, LeastElement
  <1>3. n - 1 \in Nat /\ n - 1 \in S
    BY <1>2
  <1> QED BY <1>2, <1>3

(* Division with remainder.                                                *)
LEMMA DivMod ==
  ASSUME NEW P \in Nat \ {0}, NEW x \in Nat
  PROVE  /\ x \div P \in Nat /\ x % P \in 0 .. (P - 1)
         /\ x = (x \div P) * P + (x % P)
  OBVIOUS

-----------------------------------------------------------------------------

Segments == [va : Nat, mem_size : Nat, file_offset : Nat, file_size : Nat,
             perms : SUBSET {"r", "w", EXEC}]
Formats == {"UNKNOWN", "PE", "ELF"}
Statuses == {"OK", "RANGE", "OOM", "UNSUPPORTED", "BAD_ARG"}
Views == [format : Formats, arch : Nat, entry : Nat, image_base : Nat,
          segments : Seq(Segments), array : BOOLEAN]
Images == [arch : Nat, entry : Nat, segment_base : Nat, segment_bytes : Nat,
           segment_size : Nat, held : BOOLEAN]
Loads == [view : Views, image : Images, status : Statuses, heap : Int, fuel : Int]

(* The heap blocks a view holds.                                           *)
Blocks(view) == Len(view.segments) + (IF view.array THEN 1 ELSE 0)

Inside(view, size) ==
  \A k \in 1 .. Len(view.segments) :
    view.segments[k].file_offset + view.segments[k].file_size <= size

LEMMA ViewShape ==
  ASSUME NEW q \in Loads
  PROVE  /\ q.view \in Views /\ q.view.segments \in Seq(Segments)
         /\ Len(q.view.segments) \in Nat /\ q.view.array \in BOOLEAN
         /\ q.heap \in Int /\ q.fuel \in Int /\ Blocks(q.view) \in Nat
  <1>1. /\ q.view \in Views /\ q.view.segments \in Seq(Segments)
        /\ q.view.array \in BOOLEAN /\ q.heap \in Int /\ q.fuel \in Int
    BY DEF Loads, Views
  <1>2. Len(q.view.segments) \in Nat
    BY <1>1
  <1>3. CASE q.view.array
    BY <1>1, <1>2, <1>3 DEF Blocks
  <1>4. CASE ~q.view.array
    BY <1>1, <1>2, <1>4 DEF Blocks
  <1> QED BY <1>1, <1>2, <1>3, <1>4

(* A call that ends early changes nothing but the status.                  *)
LEMMA StopShape ==
  ASSUME NEW q \in Loads, NEW status \in Statuses
  PROVE  /\ Stop(q, status) \in Loads /\ Stop(q, status).image = q.image
         /\ Stop(q, status).view = q.view /\ Stop(q, status).heap = q.heap
         /\ Stop(q, status).fuel = q.fuel /\ Stop(q, status).status = status
  BY DEF Stop, Loads

-----------------------------------------------------------------------------
(* One entry of the table.                                                 *)

(* n is q with s appended, or with an error and whatever was allocated.    *)
OneSegment(q, n, size, s) ==
  /\ n \in Loads /\ n.image = q.image /\ n.view.entry = q.view.entry
  /\ n.status # "UNSUPPORTED"
  /\ n.heap - Blocks(n.view) = q.heap - Blocks(q.view)
  /\ \/ /\ n.view.segments = q.view.segments
        /\ n.status = "OK" => s.mem_size = 0
     \/ /\ n.view.segments = Append(q.view.segments, s) /\ n.status = q.status
        /\ s.mem_size # 0 /\ s.file_offset + s.file_size <= size

LEMMA AppendSegment ==
  ASSUME NEW q \in Loads, NEW size \in Nat, NEW s \in Segments, q.status = "OK"
  PROVE  OneSegment(q, append_segment(q, size, s), size, s)
  <1>1. /\ s.mem_size \in Nat /\ s.file_offset \in Nat /\ s.file_size \in Nat
    BY DEF Segments
  <1>2. PICK grown : grown = [q EXCEPT !.view.array = TRUE,
                                       !.heap = IF q.view.array THEN @ ELSE @ + 1, !.fuel = @ - 1]
    OBVIOUS
  <1>3. PICK n : n = append_segment(q, size, s)
    OBVIOUS
  <1>4. /\ grown \in Loads /\ grown.image = q.image /\ grown.status = q.status
        /\ grown.view.segments = q.view.segments /\ grown.view.array = TRUE
        /\ grown.view.entry = q.view.entry
        /\ grown.heap = IF q.view.array THEN q.heap ELSE q.heap + 1
    <2>1. grown.view = [q.view EXCEPT !.array = TRUE]
      BY <1>2 DEF Loads
    <2>2. PICK view \in Views : view = [q.view EXCEPT !.array = TRUE]
      BY DEF Loads, Views
    <2>3. PICK heap \in Int : heap = IF q.view.array THEN q.heap ELSE q.heap + 1
      BY ViewShape
    <2>4. grown = [view |-> view, image |-> q.image, status |-> q.status, heap |-> heap,
                   fuel |-> q.fuel - 1]
      BY <1>2, <2>2, <2>3 DEF Loads
    <2>5. view.segments = q.view.segments /\ view.array = TRUE /\ view.entry = q.view.entry
      BY <2>2 DEF Loads, Views
    <2>6. grown \in Loads
      BY <2>4 DEF Loads
    <2> QED BY <2>3, <2>4, <2>5, <2>6
  <1>5. grown.heap - Blocks(grown.view) = q.heap - Blocks(q.view)
    <2>1. Blocks(grown.view) = Len(q.view.segments) + 1
      BY <1>4 DEF Blocks
    <2>2. CASE q.view.array
      <3>1. grown.heap = q.heap /\ Blocks(q.view) = Len(q.view.segments) + 1
        BY <1>4, <2>2, Zenon DEF Blocks
      <3>2. q.heap \in Int /\ Len(q.view.segments) \in Nat
        BY ViewShape
      <3> QED BY <2>1, <3>1, <3>2
    <2>3. CASE ~q.view.array
      <3>1. grown.heap = q.heap + 1 /\ Blocks(q.view) = Len(q.view.segments) + 0
        BY <1>4, <2>3 DEF Blocks
      <3>2. q.heap \in Int /\ Len(q.view.segments) \in Nat
        BY ViewShape
      <3> QED BY <2>1, <3>1, <3>2
    <2> QED BY <2>2, <2>3
  <1>6. n = IF s.mem_size = 0 THEN q
            ELSE IF ~range_ok(size, s.file_offset, s.file_size) THEN Stop(q, "RANGE")
            ELSE IF q.fuel = 0 THEN Stop(q, "OOM")
            ELSE IF grown.fuel = 0 THEN Stop(grown, "OOM")
            ELSE [grown EXCEPT !.view.segments = Append(@, s), !.heap = @ + 1, !.fuel = @ - 1]
    BY <1>2, <1>3 DEF append_segment
  <1>7. CASE s.mem_size = 0
    BY <1>3, <1>6, <1>7 DEF OneSegment
  <1>8. ASSUME NEW status \in {"RANGE", "OOM"}, NEW r \in Loads, r.image = q.image,
               r.view.entry = q.view.entry, r.view.segments = q.view.segments,
               r.heap - Blocks(r.view) = q.heap - Blocks(q.view), n = Stop(r, status)
        PROVE  OneSegment(q, n, size, s)
    <2>1. status \in Statuses
      BY <1>8 DEF Statuses
    <2>2. status # "OK" /\ status # "UNSUPPORTED"
      BY <1>8
    <2> QED BY <1>8, <2>1, <2>2, StopShape DEF OneSegment
  <1>9. CASE /\ s.mem_size # 0
             /\ ~range_ok(size, s.file_offset, s.file_size) \/ q.fuel = 0
    <2>1. n = Stop(q, "RANGE") \/ n = Stop(q, "OOM")
      BY <1>6, <1>9
    <2> QED BY <1>3, <1>8, <2>1
  <1>10. CASE /\ s.mem_size # 0 /\ range_ok(size, s.file_offset, s.file_size) /\ q.fuel # 0
              /\ grown.fuel = 0
    <2>1. n = Stop(grown, "OOM")
      BY <1>6, <1>10
    <2> QED BY <1>3, <1>4, <1>5, <1>8, <2>1
  <1>11. CASE /\ s.mem_size # 0 /\ range_ok(size, s.file_offset, s.file_size) /\ q.fuel # 0
              /\ grown.fuel # 0
    <2>1. n = [grown EXCEPT !.view.segments = Append(@, s), !.heap = @ + 1, !.fuel = @ - 1]
      BY <1>6, <1>11
    <2>2. PICK segments : segments = Append(q.view.segments, s)
      OBVIOUS
    <2>3. segments \in Seq(Segments) /\ Len(segments) = Len(q.view.segments) + 1
      BY <2>2, ViewShape
    <2>4. n.view = [grown.view EXCEPT !.segments = segments]
      BY <1>4, <2>1, <2>2 DEF Loads, Views
    <2>5. n.view \in Views /\ n.view.segments = segments /\ n.view.array = TRUE
          /\ n.view.entry = q.view.entry
      BY <1>4, <2>3, <2>4 DEF Loads, Views
    <2>6. n \in Loads /\ n.image = q.image /\ n.status = "OK" /\ n.heap = grown.heap + 1
      <3>1. n = [view |-> n.view, image |-> grown.image, status |-> grown.status,
                 heap |-> grown.heap + 1, fuel |-> grown.fuel - 1]
        BY <1>4, <2>1, <2>4 DEF Loads
      <3>2. grown.heap \in Int /\ grown.fuel \in Int /\ grown.image \in Images
            /\ grown.status \in Statuses
        BY <1>4 DEF Loads
      <3>3. PICK view \in Views : view = n.view
        BY <2>5
      <3>4. n = [view |-> view, image |-> grown.image, status |-> grown.status,
                 heap |-> grown.heap + 1, fuel |-> grown.fuel - 1]
        BY <3>1, <3>3
      <3>5. n \in Loads
        BY <3>2, <3>4 DEF Loads
      <3> QED BY <1>4, <3>4, <3>5
    <2>7. n.heap - Blocks(n.view) = grown.heap - Blocks(grown.view)
      <3>1. Blocks(n.view) = Len(q.view.segments) + 1 + 1
        BY <2>3, <2>5 DEF Blocks
      <3>2. Blocks(grown.view) = Len(q.view.segments) + 1
        BY <1>4 DEF Blocks
      <3>3. grown.heap \in Int /\ Len(q.view.segments) \in Nat
        BY <1>4, ViewShape
      <3> QED BY <2>6, <3>1, <3>2, <3>3
    <2>8. s.file_offset + s.file_size <= size
      BY <1>1, <1>11 DEF range_ok
    <2> QED BY <1>3, <1>5, <1>11, <2>2, <2>5, <2>6, <2>7, <2>8 DEF OneSegment
  <1> QED BY <1>7, <1>9, <1>10, <1>11

-----------------------------------------------------------------------------
(* The table, entry by entry.                                              *)

(* What the recursive definition in AppendAll means.                       *)
UpTo(q, size, segments, loads, n, f) ==
  f = [i \in 0 .. n |-> IF i = 0 THEN q
                        ELSE IF f[i - 1].status # "OK" \/ i \notin loads THEN f[i - 1]
                        ELSE append_segment(f[i - 1], size, segments[i])]

(* A table with nothing to load is an error.                               *)
Ended(r) == IF r.status = "OK" /\ r.view.segments = <<>> THEN Stop(r, "RANGE") ELSE r

LEMMA UpToExists ==
  ASSUME NEW q, NEW size, NEW segments, NEW loads, NEW n \in Nat
  PROVE  \E f : UpTo(q, size, segments, loads, n, f)
  <1> DEFINE S == {k \in Nat : \E f : UpTo(q, size, segments, loads, k, f)}
             NextOf(f, i) == IF f[i - 1].status # "OK" \/ i \notin loads THEN f[i - 1]
                            ELSE append_segment(f[i - 1], size, segments[i])
  <1>1. 0 \in S
    <2>1. PICK f : f = [i \in 0 .. 0 |-> q]
      OBVIOUS
    <2>2. UpTo(q, size, segments, loads, 0, f)
      BY <2>1 DEF UpTo
    <2> QED BY <2>2
  <1>2. ASSUME NEW k \in Nat, k \in S
        PROVE  k + 1 \in S
    <2>1. PICK f : UpTo(q, size, segments, loads, k, f)
      BY <1>2
    <2>2. PICK g : g = [i \in 0 .. (k + 1) |-> IF i = k + 1 THEN NextOf(f, k + 1) ELSE f[i]]
      OBVIOUS
    <2>3. ASSUME NEW i \in 0 .. (k + 1)
          PROVE  g[i] = IF i = 0 THEN q ELSE NextOf(g, i)
      <3>1. CASE i = k + 1
        <4>1. i - 1 = k /\ k \in 0 .. (k + 1) /\ k # k + 1 /\ i # 0 /\ (k + 1) - 1 = k
          BY <3>1
        <4>2. g[k] = f[k]
          BY <2>2, <4>1
        <4>3. g[i] = NextOf(f, k + 1)
          BY <2>2, <3>1
        <4> QED BY <3>1, <4>1, <4>2, <4>3
      <3>2. CASE i \in 0 .. k
        <4>1. i # k + 1 /\ (i # 0 => i - 1 \in 0 .. (k + 1) /\ i - 1 # k + 1)
          BY <3>2
        <4>2. g[i] = f[i] /\ (i # 0 => g[i - 1] = f[i - 1])
          BY <2>2, <4>1
        <4>3. f[i] = IF i = 0 THEN q ELSE NextOf(f, i)
          BY <2>1, <3>2 DEF UpTo
        <4> QED BY <4>2, <4>3
      <3> QED BY <3>1, <3>2
    <2>4. g = [i \in 0 .. (k + 1) |-> IF i = 0 THEN q ELSE NextOf(g, i)]
      <3> HIDE DEF NextOf
      <3> QED BY <2>2, <2>3
    <2>5. UpTo(q, size, segments, loads, k + 1, g)
      BY <2>4 DEF UpTo
    <2> QED BY <2>5
  <1>3. \A k \in Nat : k \in S
    <2> HIDE DEF S
    <2> QED BY <1>1, <1>2, InductionOnSet
  <1> QED BY <1>3

LEMMA AppendAllUnfolds ==
  ASSUME NEW q, NEW size, NEW segments, NEW loads, Len(segments) \in Nat
  PROVE  \E f : /\ UpTo(q, size, segments, loads, Len(segments), f)
                /\ AppendAll(q, size, segments, loads)
                     = Ended(f[Len(segments)])
  <1>1. PICK f : f = AppendedUpTo(q, size, segments, loads)
    OBVIOUS
  <1>2. UpTo(q, size, segments, loads, Len(segments), f)
    <2>1. f = CHOOSE g : UpTo(q, size, segments, loads, Len(segments), g)
      BY <1>1, Zenon DEF AppendedUpTo, UpTo
    <2> QED BY <2>1, UpToExists, Zenon
  <1>3. AppendAll(q, size, segments, loads)
          = Ended(f[Len(segments)])
    BY <1>1 DEF AppendAll, Ended
  <1> QED BY <1>2, <1>3

(* Those that belong in front of entry j are in front of place k.          *)
Before(held, segments, loads, j, k) ==
  \A m \in loads : m < j /\ segments[m].mem_size # 0 =>
    \E l \in 1 .. (k - 1) : held[l] = segments[m]

(* r holds, after i entries, those that are loaded and not empty, in order *)
(* of the table.                                                           *)
Holds(r, q, size, segments, loads, i) ==
  /\ r \in Loads /\ r.image = q.image /\ r.view.entry = q.view.entry
  /\ r.status # "UNSUPPORTED"
  /\ r.heap - Blocks(r.view) = q.heap - Blocks(q.view)
  /\ Inside(r.view, size)
  /\ \A k \in 1 .. Len(r.view.segments) :
       \E j \in loads : /\ r.view.segments[k] = segments[j] /\ segments[j].mem_size # 0
                        /\ Before(r.view.segments, segments, loads, j, k)
  /\ r.status = "OK" =>
       \A j \in loads : j <= i /\ segments[j].mem_size # 0 =>
         \E k \in 1 .. Len(r.view.segments) : r.view.segments[k] = segments[j]

LEMMA TableHeld ==
  ASSUME NEW q \in Loads, q.status = "OK", q.view.segments = <<>>, NEW size \in Nat,
         NEW segments \in Seq(Segments), NEW loads \in SUBSET (1 .. Len(segments))
  PROVE  Holds(AppendAll(q, size, segments, loads), q, size, segments, loads, Len(segments))
  <1>1. Len(segments) \in Nat
    OBVIOUS
  <1>2. PICK f : /\ UpTo(q, size, segments, loads, Len(segments), f)
                 /\ AppendAll(q, size, segments, loads)
                      = Ended(f[Len(segments)])
    BY <1>1, AppendAllUnfolds
  <1> DEFINE S == {i \in Nat : i <= Len(segments) => Holds(f[i], q, size, segments, loads, i)}
  <1>3. 0 \in S
    <2>1. f[0] = q
      BY <1>1, <1>2 DEF UpTo
    <2>2. Len(q.view.segments) = 0 /\ q.status # "UNSUPPORTED"
      OBVIOUS
    <2>3. \A j \in loads : ~(j <= 0)
      BY <1>1
    <2> QED BY <2>1, <2>2, <2>3 DEF Holds, Inside
  <1>4. ASSUME NEW i \in Nat, i \in S
        PROVE  i + 1 \in S
    <2>1. SUFFICES ASSUME i + 1 <= Len(segments)
                   PROVE  Holds(f[i + 1], q, size, segments, loads, i + 1)
      OBVIOUS
    <2>2. Holds(f[i], q, size, segments, loads, i)
      BY <1>1, <1>4, <2>1
    <2>3. f[i + 1] = IF f[i].status # "OK" \/ i + 1 \notin loads THEN f[i]
                     ELSE append_segment(f[i], size, segments[i + 1])
      <3>1. i + 1 \in 0 .. Len(segments) /\ i + 1 # 0 /\ (i + 1) - 1 = i
        BY <1>1, <2>1
      <3> QED BY <1>2, <3>1 DEF UpTo
    <2>4. \A j \in loads : j <= i + 1 => j <= i \/ j = i + 1
      BY <1>1
    <2>5. CASE f[i].status # "OK" \/ i + 1 \notin loads
      <3>1. f[i + 1] = f[i]
        BY <2>3, <2>5
      <3> QED BY <2>2, <2>4, <2>5, <3>1 DEF Holds
    <2>6. CASE f[i].status = "OK" /\ i + 1 \in loads
      <3>1. segments[i + 1] \in Segments
        BY <2>6
      <3>2. PICK s \in Segments : s = segments[i + 1]
        BY <3>1
      <3>3. PICK r : r = f[i]
        OBVIOUS
      <3>4. PICK n : n = f[i + 1]
        OBVIOUS
      <3>5. r \in Loads /\ r.status = "OK" /\ n = append_segment(r, size, s)
        BY <2>2, <2>3, <2>6, <3>2, <3>3, <3>4 DEF Holds
      <3>6. OneSegment(r, n, size, s)
        BY <3>5, AppendSegment
      <3>7. /\ n \in Loads /\ n.image = q.image /\ n.view.entry = q.view.entry
            /\ n.heap - Blocks(n.view) = q.heap - Blocks(q.view)
            /\ n.status # "UNSUPPORTED"
        BY <2>2, <3>3, <3>6 DEF Holds, OneSegment
      <3>8. CASE n.view.segments = r.view.segments /\ (n.status = "OK" => s.mem_size = 0)
        BY <2>2, <2>4, <3>2, <3>3, <3>4, <3>5, <3>7, <3>8 DEF Holds, Inside
      <3>9. CASE /\ n.view.segments = Append(r.view.segments, s)
                 /\ s.mem_size # 0 /\ s.file_offset + s.file_size <= size
        <4>1. PICK len \in Nat : len = Len(r.view.segments)
          BY <3>5, ViewShape
        <4>2. r.view.segments \in Seq(Segments)
          BY <3>5, ViewShape
        <4>3. /\ Len(n.view.segments) = len + 1
              /\ \A k \in 1 .. len : n.view.segments[k] = r.view.segments[k]
              /\ n.view.segments[len + 1] = s
          BY <3>9, <4>1, <4>2
        <4>4. \A k \in 1 .. (len + 1) : k \in 1 .. len \/ k = len + 1
          OBVIOUS
        <4>5. Inside(n.view, size)
          BY <2>2, <3>3, <3>9, <4>1, <4>3, <4>4 DEF Holds, Inside
        <4>6. ASSUME NEW k \in 1 .. Len(n.view.segments)
              PROVE  \E j \in loads : /\ n.view.segments[k] = segments[j]
                                      /\ segments[j].mem_size # 0
                                      /\ Before(n.view.segments, segments, loads, j, k)
          <5>1. CASE k \in 1 .. len
            <6>1. PICK j \in loads : /\ r.view.segments[k] = segments[j]
                                     /\ segments[j].mem_size # 0
                                     /\ Before(r.view.segments, segments, loads, j, k)
              BY <2>2, <3>3, <4>1, <5>1 DEF Holds
            <6>2. \A l \in 1 .. (k - 1) : n.view.segments[l] = r.view.segments[l]
              BY <4>3, <5>1
            <6>3. Before(n.view.segments, segments, loads, j, k)
              BY <6>1, <6>2 DEF Before
            <6> QED BY <4>3, <5>1, <6>1, <6>3
          <5>2. CASE k = len + 1
            <6>1. ASSUME NEW m \in loads, m < i + 1, segments[m].mem_size # 0
                  PROVE  \E l \in 1 .. (k - 1) : n.view.segments[l] = segments[m]
              <7>1. m <= i
                BY <1>1, <6>1
              <7>2. PICK l \in 1 .. len : r.view.segments[l] = segments[m]
                BY <2>2, <3>3, <3>5, <4>1, <6>1, <7>1 DEF Holds
              <7>3. l \in 1 .. (k - 1)
                BY <5>2
              <7> QED BY <4>3, <7>2, <7>3
            <6>2. Before(n.view.segments, segments, loads, i + 1, k)
              BY <6>1 DEF Before
            <6> QED BY <2>6, <3>2, <3>9, <4>3, <5>2, <6>2
          <5> QED BY <4>1, <4>3, <4>4, <5>1, <5>2
        <4>7. ASSUME NEW j \in loads, j <= i + 1, segments[j].mem_size # 0
              PROVE  \E k \in 1 .. Len(n.view.segments) : n.view.segments[k] = segments[j]
          <5>1. CASE j <= i
            <6>1. PICK k \in 1 .. len : r.view.segments[k] = segments[j]
              BY <2>2, <3>3, <3>5, <4>1, <4>7, <5>1 DEF Holds
            <6>2. k \in 1 .. (len + 1)
              OBVIOUS
            <6> QED BY <4>3, <6>1, <6>2
          <5>2. CASE j = i + 1
            <6>1. len + 1 \in 1 .. (len + 1)
              OBVIOUS
            <6> QED BY <3>2, <4>3, <5>2, <6>1
          <5> QED BY <2>4, <4>7, <5>1, <5>2
        <4> QED BY <3>4, <3>7, <4>5, <4>6, <4>7 DEF Holds
      <3> QED BY <3>6, <3>8, <3>9 DEF OneSegment
    <2> QED BY <2>5, <2>6
  <1>5. \A i \in Nat : i \in S
    <2> HIDE DEF S
    <2> QED BY <1>3, <1>4, InductionOnSet
  <1>6. PICK r : r = f[Len(segments)]
    OBVIOUS
  <1>7. Holds(r, q, size, segments, loads, Len(segments))
    BY <1>1, <1>5, <1>6
  <1>8. CASE r.status = "OK" /\ r.view.segments = <<>>
    <2>1. AppendAll(q, size, segments, loads) = Stop(r, "RANGE")
      BY <1>2, <1>6, <1>8 DEF Ended
    <2>2. /\ Stop(r, "RANGE") \in Loads /\ Stop(r, "RANGE").view = r.view
          /\ Stop(r, "RANGE").image = r.image /\ Stop(r, "RANGE").heap = r.heap
          /\ Stop(r, "RANGE").status = "RANGE"
      <3>1. r \in Loads /\ "RANGE" \in Statuses
        BY <1>7 DEF Holds, Statuses
      <3> QED BY <3>1, StopShape
    <2>3. "RANGE" # "OK" /\ "RANGE" # "UNSUPPORTED"
      OBVIOUS
    <2> QED BY <1>7, <2>1, <2>2, <2>3 DEF Holds
  <1>9. CASE ~(r.status = "OK" /\ r.view.segments = <<>>)
    BY <1>2, <1>6, <1>7, <1>9 DEF Ended
  <1> QED BY <1>8, <1>9

-----------------------------------------------------------------------------
(* The headers and the table together.                                     *)

(* The segment a view has for an entry of the table.                       *)
SegmentOf(s) == IF IsElf THEN elf_segment(s) ELSE pe_segment(file, s)

(* Place k holds entry i, and places in front of it those before i.        *)
Counts(i) == IsLoaded(file.table[i]) /\ Extent(file.table[i]) # 0
Placed(held, i, k) ==
  /\ Counts(i) /\ held[k] = SegmentOf(file.table[i])
  /\ \A j \in 1 .. (i - 1) :
       Counts(j) => \E l \in 1 .. (k - 1) : held[l] = SegmentOf(file.table[j])

(* The view holds what the file says, in the order of the table, and       *)
(* nothing outside the file.                                               *)
Describes(view) ==
  /\ view.entry = Entry /\ Inside(view, file.size)
  /\ \A k \in 1 .. Len(view.segments) :
       \E i \in 1 .. Len(file.table) : Placed(view.segments, i, k)
  /\ \A k \in 1 .. Len(view.segments) :
       \E s \in Loaded : view.segments[k] = SegmentOf(s) /\ Extent(s) # 0
  /\ \A s \in Loaded : Extent(s) # 0 =>
       \E k \in 1 .. Len(view.segments) : view.segments[k] = SegmentOf(s)

LEMMA FileShape ==
  ASSUME file \in Files
  PROVE  /\ file.size \in Nat /\ file.entry \in Nat /\ file.base \in Nat
         /\ file.table \in Seq(Entries) /\ Limit \in Nat \ {0} /\ Entry \in Numbers
         /\ \A s \in Loaded : s \in Entries
  <1>1. /\ file.size \in Nat /\ file.entry \in Numbers /\ file.base \in Numbers
        /\ file.table \in Seq(Entries)
    BY BinaryClientAssumption
  <1>2. Limit \in Nat \ {0} /\ Numbers \subseteq Nat
    BY BinaryAssumption DEF Numbers
  <1>3. (file.base + file.entry) % Limit \in Numbers
    <2>0. file.base \in Nat /\ file.entry \in Nat
      BY <1>1, <1>2
    <2>1. PICK x \in Nat : x = file.base + file.entry
      BY <2>0
    <2>2. x % Limit \in 0 .. (Limit - 1)
      BY <1>2, DivMod
    <2> QED BY <2>1, <2>2 DEF Numbers
  <1>4. Entry \in Numbers
    BY <1>1, <1>3 DEF Entry
  <1>5. \A s \in Loaded : s \in Entries
    BY <1>1 DEF Loaded, ToSet
  <1> QED BY <1>1, <1>2, <1>4, <1>5

LEMMA SegmentShape ==
  ASSUME file \in Files, NEW s \in Entries
  PROVE  /\ elf_segment(s) \in Segments /\ pe_segment(file, s) \in Segments
         /\ SegmentOf(s).va = Start(s) /\ SegmentOf(s).mem_size = Extent(s)
         /\ SegmentOf(s).file_offset = s.file_offset /\ SegmentOf(s).file_size = s.file_size
         /\ SegmentOf(s).perms = s.perms
         /\ Start(s) \in Nat /\ Extent(s) \in Nat /\ s.file_offset \in Nat
         /\ s.file_size \in Nat
  <1>1. /\ s.va \in Nat /\ s.mem_size \in Nat /\ s.file_offset \in Nat /\ s.file_size \in Nat
        /\ s.perms \in SUBSET {"r", "w", EXEC}
    BY BinaryAssumption DEF Entries, Numbers
  <1>2. PICK va \in Nat : va = (file.base + s.va) % Limit
    <2>1. PICK x \in Nat : x = file.base + s.va
      BY <1>1, FileShape
    <2>2. x % Limit \in 0 .. (Limit - 1) /\ Limit \in Nat
      BY FileShape, DivMod
    <2> QED BY <2>1, <2>2
  <1>3. PICK extent \in Nat : extent = max_u64(s.mem_size, s.file_size)
    BY <1>1 DEF max_u64
  <1>4. elf_segment(s) \in Segments
    BY <1>1 DEF elf_segment, Segments
  <1>5. pe_segment(file, s) = [va |-> va, mem_size |-> extent, file_offset |-> s.file_offset,
                               file_size |-> s.file_size, perms |-> s.perms]
    BY <1>2, <1>3 DEF pe_segment
  <1>6. pe_segment(file, s) \in Segments
    BY <1>1, <1>5 DEF Segments
  <1>7. CASE IsElf
    BY <1>1, <1>4, <1>6, <1>7 DEF SegmentOf, Start, Extent, elf_segment
  <1>8. CASE ~IsElf
    BY <1>1, <1>2, <1>3, <1>4, <1>5, <1>6, <1>8 DEF SegmentOf, Start, Extent
  <1> QED BY <1>7, <1>8

(* r is what parsing makes of q.                                           *)
Parsed(r, q) ==
  /\ r \in Loads /\ r.image = q.image
  /\ r.heap - Blocks(r.view) = q.heap - Blocks(q.view)
  /\ r.status = "OK" => Describes(r.view)

LEMMA StopParsed ==
  ASSUME NEW q \in Loads, NEW r \in Loads, NEW status \in Statuses, status # "OK",
         r.image = q.image, r.heap - Blocks(r.view) = q.heap - Blocks(q.view)
  PROVE  Parsed(Stop(r, status), q)
  BY StopShape DEF Parsed

(* The table, once the headers are read into q.                            *)
LEMMA TableParsed ==
  ASSUME file \in Files, NEW q \in Loads, q.status = "OK", q.view.segments = <<>>,
         q.view.entry = Entry,
         NEW loads \in SUBSET (1 .. Len(file.table)),
         \A i \in 1 .. Len(file.table) : i \in loads <=> IsLoaded(file.table[i]),
         NEW segments, segments = [i \in 1 .. Len(file.table) |-> SegmentOf(file.table[i])]
  PROVE  /\ Parsed(AppendAll(q, file.size, segments, loads), q)
         /\ AppendAll(q, file.size, segments, loads).status # "UNSUPPORTED"
  <1>1. file.table \in Seq(Entries) /\ file.size \in Nat
    BY FileShape
  <1>2. \A i \in 1 .. Len(file.table) : file.table[i] \in Entries
    BY <1>1
  <1>3. \A i \in 1 .. Len(file.table) : SegmentOf(file.table[i]) \in Segments
    BY <1>2, SegmentShape DEF SegmentOf
  <1>4. segments \in Seq(Segments) /\ Len(segments) = Len(file.table)
    BY <1>1, <1>3
  <1>5. PICK r : r = AppendAll(q, file.size, segments, loads)
    OBVIOUS
  <1>6. Holds(r, q, file.size, segments, loads, Len(segments))
    BY <1>1, <1>4, <1>5, TableHeld
  <1>7. \A j \in loads : file.table[j] \in Loaded /\ IsLoaded(file.table[j])
    BY <1>1 DEF Loaded, ToSet
  <1>8. \A s \in Loaded : \E j \in loads : s = file.table[j]
    BY <1>1 DEF Loaded, ToSet
  <1>9. \A j \in loads : /\ segments[j] = SegmentOf(file.table[j])
                          /\ segments[j].mem_size = Extent(file.table[j])
    BY <1>2, SegmentShape
  <1>10. ASSUME NEW k \in 1 .. Len(r.view.segments)
         PROVE  \E s \in Loaded : r.view.segments[k] = SegmentOf(s) /\ Extent(s) # 0
    <2>1. PICK j \in loads : r.view.segments[k] = segments[j] /\ segments[j].mem_size # 0
      BY <1>6 DEF Holds
    <2> QED BY <1>7, <1>9, <2>1
  <1>11. ASSUME r.status = "OK", NEW s \in Loaded, Extent(s) # 0
         PROVE  \E k \in 1 .. Len(r.view.segments) : r.view.segments[k] = SegmentOf(s)
    <2>1. PICK j \in loads : s = file.table[j]
      BY <1>8
    <2>2. j <= Len(segments)
      BY <1>1, <1>4
    <2>3. segments[j].mem_size # 0 /\ segments[j] = SegmentOf(s)
      BY <1>9, <1>11, <2>1
    <2>4. \E k \in 1 .. Len(r.view.segments) : r.view.segments[k] = segments[j]
      BY <1>6, <1>11, <2>2, <2>3 DEF Holds
    <2> QED BY <2>3, <2>4
  <1>12. ASSUME NEW k \in 1 .. Len(r.view.segments)
         PROVE  \E i \in 1 .. Len(file.table) : Placed(r.view.segments, i, k)
    <2>1. PICK i \in loads : /\ r.view.segments[k] = segments[i] /\ segments[i].mem_size # 0
                             /\ Before(r.view.segments, segments, loads, i, k)
      BY <1>6 DEF Holds
    <2>2. Counts(i) /\ r.view.segments[k] = SegmentOf(file.table[i])
      BY <1>9, <2>1 DEF Counts
    <2>3. ASSUME NEW j \in 1 .. (i - 1), Counts(j)
          PROVE  \E l \in 1 .. (k - 1) : r.view.segments[l] = SegmentOf(file.table[j])
      <3>1. j \in 1 .. Len(file.table) /\ j < i
        BY <1>1
      <3>2. j \in loads
        BY <2>3, <3>1 DEF Counts
      <3>3. segments[j].mem_size # 0 /\ segments[j] = SegmentOf(file.table[j])
        BY <1>9, <2>3, <3>2 DEF Counts
      <3> QED BY <2>1, <3>1, <3>2, <3>3 DEF Before
    <2>4. Placed(r.view.segments, i, k)
      BY <2>2, <2>3 DEF Placed
    <2> QED BY <2>4
  <1>13. r.status = "OK" => Describes(r.view)
    BY <1>6, <1>10, <1>11, <1>12 DEF Describes, Holds
  <1> QED BY <1>5, <1>6, <1>13 DEF Parsed, Holds

LEMMA Unparsed ==
  ASSUME NEW q \in Loads, NEW status \in {"RANGE", "UNSUPPORTED"}
  PROVE  Parsed(Stop(q, status), q)
  <1>1. status \in Statuses /\ status # "OK"
    BY DEF Statuses
  <1> QED BY <1>1, StopParsed

(* An empty view with its headers set.                                     *)
LEMMA HeadersShape ==
  ASSUME file \in Files, NEW q \in Loads, q.view = NoView, NEW view,
         view \in {elf_headers(NoView, file), pe_headers(NoView, file)}, NEW r,
         r = [q EXCEPT !.view = view]
  PROVE  /\ r \in Loads /\ r.status = q.status /\ r.image = q.image /\ r.heap = q.heap
         /\ r.view = view /\ r.view.segments = <<>> /\ Blocks(r.view) = Blocks(q.view)
         /\ elf_headers(NoView, file).entry = file.entry
         /\ pe_headers(NoView, file).entry = (file.base + file.entry) % Limit
  <1>1. /\ file.entry \in Nat /\ file.base \in Nat /\ Limit \in Nat \ {0}
        /\ (file.base + file.entry) % Limit \in Nat
    <2>1. file.entry \in Nat /\ file.base \in Nat /\ Limit \in Nat \ {0}
      BY FileShape
    <2>2. PICK x \in Nat : x = file.base + file.entry
      BY <2>1
    <2>3. x % Limit \in 0 .. (Limit - 1)
      BY <2>1, DivMod
    <2> QED BY <2>1, <2>2, <2>3
  <1>2. PICK e \in Nat, m \in Nat, n \in Nat, b \in Nat :
          /\ e = (file.base + file.entry) % Limit /\ b = file.base
          /\ m = (IF file.kind = "PE32" THEN 32 ELSE 64)
          /\ n = (IF file.kind = "ELF32" THEN 32 ELSE 64)
    BY <1>1
  <1>3. /\ pe_headers(NoView, file) = [format |-> "PE", arch |-> m, entry |-> e,
              image_base |-> b, segments |-> <<>>, array |-> FALSE]
        /\ elf_headers(NoView, file) = [format |-> "ELF", arch |-> n, entry |-> file.entry,
              image_base |-> 0, segments |-> <<>>, array |-> FALSE]
    <2>1. pe_headers(NoView, file)
            = [NoView EXCEPT !.arch = m, !.format = "PE", !.image_base = b, !.entry = e]
      BY <1>2 DEF pe_headers
    <2>2. elf_headers(NoView, file)
            = [NoView EXCEPT !.arch = n, !.format = "ELF", !.entry = file.entry]
      BY <1>2 DEF elf_headers
    <2> QED BY <2>1, <2>2 DEF NoView
  <1>4. view \in Views /\ view.segments = <<>> /\ view.array = FALSE
    <2>1. <<>> \in Seq(Segments) /\ "PE" \in Formats /\ "ELF" \in Formats
      BY DEF Formats
    <2>2. CASE view = pe_headers(NoView, file)
      BY <1>3, <2>1, <2>2 DEF Views
    <2>3. CASE view = elf_headers(NoView, file)
      BY <1>1, <1>3, <2>1, <2>3 DEF Views
    <2> QED BY <2>2, <2>3
  <1>5. r \in Loads /\ r.status = q.status /\ r.image = q.image /\ r.heap = q.heap
        /\ r.view = view
    BY <1>4 DEF Loads
  <1>6. Blocks(view) = Blocks(NoView)
    BY <1>4 DEF Blocks, NoView
  <1> QED BY <1>2, <1>3, <1>4, <1>5, <1>6

LEMMA ElfParsed ==
  ASSUME file \in Files, NEW q \in Loads, q.status = "OK", q.view = NoView
  PROVE  /\ Parsed(parse_elf_view(q, file), q)
         /\ parse_elf_view(q, file).status = "UNSUPPORTED" =>
              parse_elf_view(q, file) = Stop(q, "UNSUPPORTED")
  <1>1. PICK r : r = parse_elf_view(q, file)
    OBVIOUS
  <1>2. PICK h : h = [q EXCEPT !.view = elf_headers(@, file)]
    OBVIOUS
  <1>3. PICK table : table = AppendAll(h, file.size,
                       [i \in 1 .. Len(file.table) |-> elf_segment(file.table[i])],
                       {i \in 1 .. Len(file.table) : file.table[i].load})
    OBVIOUS
  <1>4. r = IF file.kind \notin {"ELF32", "ELF64"} \/ file.ends = "magic"
            THEN Stop(q, "UNSUPPORTED")
            ELSE IF file.ends = "header" THEN Stop(q, "RANGE")
            ELSE IF ~file.machine THEN Stop(q, "UNSUPPORTED")
            ELSE IF file.ends = "table" THEN Stop(q, "RANGE")
            ELSE table
    BY <1>1, <1>2, <1>3 DEF parse_elf_view
  <1>5. CASE r = Stop(q, "UNSUPPORTED")
    BY <1>1, <1>5, Unparsed
  <1>6. CASE r = Stop(q, "RANGE")
    <2>1. Stop(q, "RANGE").status = "RANGE"
      BY StopShape DEF Statuses
    <2> QED BY <1>1, <1>6, <2>1, Unparsed
  <1>7. CASE IsElf /\ r = table
    <2>1. h = [q EXCEPT !.view = elf_headers(NoView, file)]
      BY <1>2 DEF Loads
    <2>2. /\ h \in Loads /\ h.status = q.status /\ h.image = q.image /\ h.heap = q.heap
          /\ h.view.segments = <<>> /\ h.view.entry = file.entry
          /\ Blocks(h.view) = Blocks(q.view)
      BY <2>1, HeadersShape
    <2>3. h.view.entry = Entry
      BY <1>7, <2>2 DEF Entry
    <2>4. PICK loads : loads = {i \in 1 .. Len(file.table) : file.table[i].load}
      OBVIOUS
    <2>5. /\ loads \in SUBSET (1 .. Len(file.table))
          /\ \A i \in 1 .. Len(file.table) : i \in loads <=> IsLoaded(file.table[i])
      BY <1>7, <2>4, Zenon DEF IsLoaded
    <2>6. PICK segments : segments = [i \in 1 .. Len(file.table) |-> SegmentOf(file.table[i])]
      OBVIOUS
    <2>7. segments = [i \in 1 .. Len(file.table) |-> elf_segment(file.table[i])]
      BY <1>7, <2>6 DEF SegmentOf
    <2>8. table = AppendAll(h, file.size, segments, loads)
      BY <1>3, <2>4, <2>7
    <2>9. Parsed(table, h) /\ table.status # "UNSUPPORTED"
      BY <2>2, <2>3, <2>5, <2>6, <2>8, TableParsed
    <2> QED BY <1>1, <1>7, <2>2, <2>9 DEF Parsed
  <1> QED BY <1>4, <1>5, <1>6, <1>7 DEF IsElf

LEMMA PeParsed ==
  ASSUME file \in Files, NEW q \in Loads, q.status = "OK", q.view = NoView
  PROVE  Parsed(parse_pe_view(q, file), q)
  <1>1. PICK r : r = parse_pe_view(q, file)
    OBVIOUS
  <1>2. PICK h : h = [q EXCEPT !.view = pe_headers(@, file)]
    OBVIOUS
  <1>3. PICK table : table = AppendAll(h, file.size,
                       [i \in 1 .. Len(file.table) |-> pe_segment(file, file.table[i])],
                       1 .. Len(file.table))
    OBVIOUS
  <1>4. r = IF file.kind \notin {"PE32", "PE32+"} \/ file.ends \in {"magic", "header"}
            THEN Stop(q, "UNSUPPORTED")
            ELSE IF file.ends = "optional" THEN Stop(q, "RANGE")
            ELSE IF ~file.machine THEN Stop(q, "UNSUPPORTED")
            ELSE IF file.ends = "table" THEN Stop(h, "RANGE")
            ELSE table
    BY <1>1, <1>2, <1>3 DEF parse_pe_view
  <1>5. CASE r = Stop(q, "UNSUPPORTED") \/ r = Stop(q, "RANGE")
    BY <1>1, <1>5, Unparsed
  <1>6. h = [q EXCEPT !.view = pe_headers(NoView, file)]
    BY <1>2 DEF Loads
  <1>7. /\ h \in Loads /\ h.status = q.status /\ h.image = q.image /\ h.heap = q.heap
        /\ h.view.segments = <<>> /\ h.view.entry = (file.base + file.entry) % Limit
        /\ Blocks(h.view) = Blocks(q.view)
    BY <1>6, HeadersShape
  <1>8. CASE r = Stop(h, "RANGE")
    <2>1. "RANGE" \in Statuses /\ "RANGE" # "OK"
      BY DEF Statuses
    <2> QED BY <1>1, <1>7, <1>8, <2>1, StopParsed
  <1>9. CASE ~IsElf /\ r = table
    <2>1. h.view.entry = Entry
      BY <1>7, <1>9 DEF Entry
    <2>2. PICK segments : segments = [i \in 1 .. Len(file.table) |-> SegmentOf(file.table[i])]
      OBVIOUS
    <2>3. segments = [i \in 1 .. Len(file.table) |-> pe_segment(file, file.table[i])]
      BY <1>9, <2>2 DEF SegmentOf
    <2>4. table = AppendAll(h, file.size, segments, 1 .. Len(file.table))
      BY <1>3, <2>3
    <2>5. PICK loads : loads = 1 .. Len(file.table)
      OBVIOUS
    <2>6. /\ loads \in SUBSET (1 .. Len(file.table))
          /\ \A i \in 1 .. Len(file.table) : i \in loads <=> IsLoaded(file.table[i])
      BY <1>9, <2>5, Zenon DEF IsLoaded
    <2>7. Parsed(table, h)
      BY <1>7, <2>1, <2>2, <2>4, <2>5, <2>6, TableParsed
    <2> QED BY <1>1, <1>7, <1>9, <2>7 DEF Parsed
  <1>10. file.kind \in {"PE32", "PE32+"} => ~IsElf
    BY DEF IsElf
  <1> QED BY <1>4, <1>5, <1>8, <1>9, <1>10

-----------------------------------------------------------------------------
(* Loading a view, and freeing it.                                         *)

LEMMA ViewFreed ==
  ASSUME NEW q \in Loads
  PROVE  LET r == xair_binary_view_destroy(q)
         IN  /\ r \in Loads /\ r.view = NoView /\ r.image = q.image /\ r.status = q.status
             /\ r.heap = q.heap - Blocks(q.view) /\ Blocks(NoView) = 0
  <1>1. PICK r : r = xair_binary_view_destroy(q)
    OBVIOUS
  <1>2. PICK heap \in Int : heap = q.heap - Blocks(q.view)
    BY ViewShape
  <1>3. heap = q.heap - Len(q.view.segments) - (IF q.view.array THEN 1 ELSE 0)
    <2>1. q.heap \in Int /\ Len(q.view.segments) \in Nat
      BY ViewShape
    <2>2. CASE q.view.array
      <3>1. heap = q.heap - (Len(q.view.segments) + 1)
        BY <1>2, <2>2, Zenon DEF Blocks
      <3> QED BY <2>1, <2>2, <3>1
    <2>3. CASE ~q.view.array
      <3>1. heap = q.heap - (Len(q.view.segments) + 0)
        BY <1>2, <2>3, Zenon DEF Blocks
      <3> QED BY <2>1, <2>3, <3>1
    <2> QED BY <2>2, <2>3
  <1>4. r = [q EXCEPT !.view = NoView, !.heap = heap]
    BY <1>1, <1>3 DEF xair_binary_view_destroy, Loads
  <1>5. NoView \in Views /\ Blocks(NoView) = 0
    BY DEF NoView, Views, Formats, Blocks
  <1>6. r \in Loads /\ r.view = NoView /\ r.image = q.image /\ r.status = q.status
        /\ r.heap = heap
    BY <1>4, <1>5 DEF Loads
  <1> QED BY <1>1, <1>2, <1>5, <1>6

(* What a load leaves: a view that says what the file says, or none.       *)
LoadsView(r, q) ==
  /\ r \in Loads /\ r.image = q.image /\ r.heap = q.heap + Blocks(r.view)
  /\ IF r.status = "OK" THEN Describes(r.view) ELSE r.view = NoView

LEMMA ViewLoaded ==
  ASSUME file \in Files, NEW q \in Loads, NEW readable \in BOOLEAN
  PROVE  LoadsView(xair_binary_view_load_path(q, file, readable), q)
  <1>1. PICK r : r = xair_binary_view_load_path(q, file, readable)
    OBVIOUS
  <1>2. NoView \in Views /\ Blocks(NoView) = 0
    BY DEF NoView, Views, Formats, Blocks
  <1>3. PICK cleared : cleared = [q EXCEPT !.view = NoView]
    OBVIOUS
  <1>4. PICK held : held = [q EXCEPT !.view = NoView, !.status = "OK", !.heap = @ + 1,
                                     !.fuel = @ - 1]
    OBVIOUS
  <1>5. PICK elf : elf = parse_elf_view(held, file)
    OBVIOUS
  <1>6. PICK again : again = [elf EXCEPT !.status = "OK"]
    OBVIOUS
  <1>7. PICK parsed : parsed = IF elf.status = "UNSUPPORTED" THEN parse_pe_view(again, file)
                               ELSE elf
    OBVIOUS
  <1>8. PICK freed : freed = [parsed EXCEPT !.heap = @ - 1]
    OBVIOUS
  <1>9. r = IF ~readable THEN Stop(cleared, "BAD_ARG")
            ELSE IF q.fuel = 0 THEN Stop(cleared, "OOM")
            ELSE IF freed.status = "OK" THEN freed
            ELSE xair_binary_view_destroy(freed)
    BY <1>1, <1>3, <1>4, <1>5, <1>6, <1>7, <1>8 DEF xair_binary_view_load_path
  <1>10. /\ cleared \in Loads /\ cleared.view = NoView /\ cleared.image = q.image
         /\ cleared.heap = q.heap
    BY <1>2, <1>3 DEF Loads
  <1>11. q.heap \in Int
    BY DEF Loads
  <1>12. CASE r = Stop(cleared, "BAD_ARG") \/ r = Stop(cleared, "OOM")
    <2>1. /\ "BAD_ARG" \in Statuses /\ "OOM" \in Statuses /\ "BAD_ARG" # "OK"
          /\ "OOM" # "OK"
      BY DEF Statuses
    <2>2. /\ r \in Loads /\ r.view = NoView /\ r.image = q.image /\ r.heap = q.heap
          /\ r.status # "OK"
      BY <1>10, <1>12, <2>1, StopShape
    <2> QED BY <1>1, <1>2, <1>11, <2>2 DEF LoadsView
  <1>13. /\ held \in Loads /\ held.view = NoView /\ held.image = q.image
         /\ held.heap = q.heap + 1 /\ held.status = "OK"
    <2>1. held = [view |-> NoView, image |-> q.image, status |-> "OK", heap |-> q.heap + 1,
                  fuel |-> q.fuel - 1]
      BY <1>4 DEF Loads
    <2>2. q.image \in Images /\ q.heap + 1 \in Int /\ q.fuel - 1 \in Int /\ "OK" \in Statuses
      BY DEF Loads, Statuses
    <2>3. held \in Loads
      BY <1>2, <2>1, <2>2 DEF Loads
    <2> QED BY <2>1, <2>3
  <1>14. Parsed(elf, held) /\ (elf.status = "UNSUPPORTED" => elf = Stop(held, "UNSUPPORTED"))
    BY <1>5, <1>13, ElfParsed
  <1>15. Parsed(parsed, held)
    <2>1. CASE elf.status = "UNSUPPORTED"
      <3>1. /\ elf \in Loads /\ elf.view = NoView /\ elf.image = held.image
            /\ elf.heap = held.heap
        BY <1>13, <1>14, <2>1, StopShape DEF Statuses
      <3>2. /\ again \in Loads /\ again.view = NoView /\ again.image = held.image
            /\ again.heap = held.heap /\ again.status = "OK"
        BY <1>6, <3>1 DEF Loads, Statuses
      <3>3. Parsed(parsed, again)
        BY <1>7, <2>1, <3>2, PeParsed
      <3> QED BY <1>13, <3>2, <3>3 DEF Parsed
    <2>2. CASE elf.status # "UNSUPPORTED"
      BY <1>7, <1>14, <2>2
    <2> QED BY <2>1, <2>2
  <1>16. /\ freed \in Loads /\ freed.view = parsed.view /\ freed.image = q.image
         /\ freed.heap = parsed.heap - 1 /\ freed.status = parsed.status
    BY <1>8, <1>13, <1>15 DEF Parsed, Loads
  <1>17. freed.heap = q.heap + Blocks(freed.view)
    <2>1. parsed \in Loads /\ parsed.heap - Blocks(parsed.view) = held.heap - Blocks(NoView)
      BY <1>13, <1>15 DEF Parsed
    <2>2. parsed.heap \in Int /\ Blocks(parsed.view) \in Nat
      BY <2>1, ViewShape
    <2> QED BY <1>2, <1>11, <1>13, <1>16, <2>1, <2>2
  <1>18. CASE r = freed /\ freed.status = "OK"
    BY <1>1, <1>15, <1>16, <1>17, <1>18 DEF LoadsView, Parsed
  <1>19. CASE r = xair_binary_view_destroy(freed) /\ freed.status # "OK"
    <2>1. Blocks(freed.view) \in Nat
      BY <1>16, ViewShape
    <2>2. /\ r \in Loads /\ r.view = NoView /\ r.image = q.image /\ r.status # "OK"
          /\ r.heap = freed.heap - Blocks(freed.view)
      BY <1>16, <1>19, ViewFreed
    <2> QED BY <1>1, <1>2, <1>11, <1>17, <2>1, <2>2 DEF LoadsView
  <1> QED BY <1>9, <1>12, <1>18, <1>19

-----------------------------------------------------------------------------
(* Finding a segment.                                                      *)

InSegment(s, va, perms) == perms \subseteq s.perms /\ va >= s.va /\ va - s.va < s.mem_size

LEMMA SegmentFound ==
  ASSUME NEW view \in Views, NEW va, NEW perms
  PROVE  LET i == xair_binary_view_find_segment(view, va, perms)
         IN  /\ i \in 0 .. Len(view.segments)
             /\ i # 0 => /\ InSegment(view.segments[i], va, perms)
                         /\ \A k \in 1 .. (i - 1) : ~InSegment(view.segments[k], va, perms)
             /\ i = 0 => \A k \in 1 .. Len(view.segments) :
                           ~InSegment(view.segments[k], va, perms)
  <1>1. PICK I : I = {k \in 1 .. Len(view.segments) : InSegment(view.segments[k], va, perms)}
    OBVIOUS
  <1>2. PICK i : i = xair_binary_view_find_segment(view, va, perms)
    OBVIOUS
  <1>3. i = IF I # {} THEN CHOOSE x \in I : \A y \in I : x <= y ELSE 0
    BY <1>1, <1>2 DEF xair_binary_view_find_segment, SelectInSeq, Min, InSegment
  <1>4. Len(view.segments) \in Nat
    BY DEF Views
  <1>5. CASE I # {}
    <2>1. I \subseteq Nat
      BY <1>1, <1>4
    <2>2. \E x \in I : \A y \in I : x <= y
      BY <1>5, <2>1, LeastElement
    <2>3. i \in I /\ \A y \in I : i <= y
      BY <1>3, <1>5, <2>2
    <2>4. i \in 1 .. Len(view.segments) /\ InSegment(view.segments[i], va, perms)
      BY <1>1, <2>3
    <2>5. i \in 0 .. Len(view.segments) /\ i # 0
      BY <1>4, <2>4
    <2>6. ASSUME NEW k \in 1 .. (i - 1)
          PROVE  ~InSegment(view.segments[k], va, perms)
      <3>1. k \in 1 .. Len(view.segments) /\ ~(i <= k)
        BY <1>4, <2>4
      <3> QED BY <1>1, <2>3, <3>1
    <2> QED BY <1>2, <2>4, <2>5, <2>6
  <1>6. CASE I = {}
    <2>1. i = 0
      BY <1>3, <1>6
    <2>2. \A k \in 1 .. Len(view.segments) : ~InSegment(view.segments[k], va, perms)
      BY <1>1, <1>6, Zenon
    <2> QED BY <1>2, <1>4, <2>1, <2>2
  <1> QED BY <1>5, <1>6

(* A view finds an address exactly when an entry of the table maps it.     *)
LEMMA EntryFound ==
  ASSUME file \in Files, NEW view \in Views, Describes(view), NEW va \in Nat, NEW perms,
         NEW i, i = xair_binary_view_find_segment(view, va, perms)
  PROVE  /\ i # 0 => \E s \in Loaded : /\ view.segments[i] = SegmentOf(s)
                                        /\ i \in 1 .. Len(view.segments)
                                        /\ Maps(s, va) /\ perms \subseteq s.perms
         /\ i = 0 => \A s \in Loaded : ~(Maps(s, va) /\ perms \subseteq s.perms)
  <1>1. /\ i \in 0 .. Len(view.segments)
        /\ i # 0 => InSegment(view.segments[i], va, perms)
        /\ i = 0 => \A k \in 1 .. Len(view.segments) : ~InSegment(view.segments[k], va, perms)
    BY SegmentFound
  <1>2. \A s \in Loaded : s \in Entries
    BY FileShape
  <1>3. \A s \in Loaded : /\ SegmentOf(s).va = Start(s) /\ SegmentOf(s).mem_size = Extent(s)
                          /\ SegmentOf(s).perms = s.perms
                          /\ Start(s) \in Nat /\ Extent(s) \in Nat
    BY <1>2, SegmentShape
  <1>4. ASSUME NEW s \in Loaded
        PROVE  InSegment(SegmentOf(s), va, perms) <=> Maps(s, va) /\ perms \subseteq s.perms
    <2>1. PICK start \in Nat, extent \in Nat : start = Start(s) /\ extent = Extent(s)
      BY <1>3
    <2>2. (va >= start /\ va - start < extent) <=> (va >= start /\ va < start + extent)
      OBVIOUS
    <2> QED BY <1>3, <2>1, <2>2 DEF InSegment, Maps
  <1>5. CASE i # 0
    <2>1. i \in 1 .. Len(view.segments)
      BY <1>1, <1>5 DEF Views
    <2>2. PICK s \in Loaded : view.segments[i] = SegmentOf(s)
      BY <2>1 DEF Describes
    <2> QED BY <1>1, <1>4, <1>5, <2>1, <2>2
  <1>6. CASE i = 0
    <2>1. SUFFICES ASSUME NEW s \in Loaded, Maps(s, va), perms \subseteq s.perms
                   PROVE  FALSE
      BY <1>6
    <2>2. Extent(s) # 0
      BY <1>3, <2>1 DEF Maps
    <2>3. PICK k \in 1 .. Len(view.segments) : view.segments[k] = SegmentOf(s)
      BY <2>2 DEF Describes
    <2> QED BY <1>1, <1>4, <1>6, <2>1, <2>3
  <1> QED BY <1>5, <1>6

(* The entry that maps an address first is the one a view finds.           *)
LEMMA FirstIsOne ==
  ASSUME file \in Files, NEW va, NEW n \in First(va)
  PROVE  /\ n \in 1 .. Len(file.table) /\ file.table[n] \in Loaded /\ Maps(file.table[n], va)
         /\ \A m \in First(va) : m = n
  <1>1. n \in 1 .. Len(file.table) /\ MapsAt(n, va) /\ file.table \in Seq(Entries)
    BY FileShape DEF First
  <1>2. file.table[n] \in Loaded /\ Maps(file.table[n], va)
    BY <1>1 DEF MapsAt, Loaded, ToSet
  <1>3. ASSUME NEW m \in First(va)
        PROVE  m = n
    <2>1. /\ m \in 1 .. Len(file.table) /\ MapsAt(m, va)
          /\ \A j \in 1 .. (m - 1) : ~MapsAt(j, va)
          /\ \A j \in 1 .. (n - 1) : ~MapsAt(j, va)
      BY DEF First
    <2>2. Len(file.table) \in Nat
      BY <1>1
    <2>3. ~(n \in 1 .. (m - 1)) /\ ~(m \in 1 .. (n - 1))
      BY <1>1, <2>1
    <2> QED BY <1>1, <2>1, <2>2, <2>3
  <1> QED BY <1>1, <1>2, <1>3

LEMMA FirstFound ==
  ASSUME file \in Files, NEW view \in Views, Describes(view), NEW va \in Nat,
         NEW i, i = xair_binary_view_find_segment(view, va, {})
  PROVE  /\ i # 0 => \E n \in First(va) : /\ i \in 1 .. Len(view.segments)
                                           /\ view.segments[i] = SegmentOf(file.table[n])
         /\ i = 0 => \A s \in Loaded : ~Maps(s, va)
  <1>1. PICK none : none = {}
    OBVIOUS
  <1>2. /\ i \in 0 .. Len(view.segments)
        /\ i # 0 => /\ InSegment(view.segments[i], va, none)
                    /\ \A k \in 1 .. (i - 1) : ~InSegment(view.segments[k], va, none)
    BY <1>1, SegmentFound
  <1>3. CASE i = 0
    <2>1. \A s \in Loaded : ~(Maps(s, va) /\ none \subseteq s.perms)
      BY <1>1, <1>3, EntryFound
    <2> QED BY <1>1, <1>3, <2>1
  <1>4. CASE i # 0
    <2>1. i \in 1 .. Len(view.segments)
      BY <1>2, <1>4 DEF Views
    <2>2. PICK n \in 1 .. Len(file.table) : Placed(view.segments, n, i)
      BY <2>1 DEF Describes
    <2>3. \A j \in 1 .. Len(file.table) :
            /\ SegmentOf(file.table[j]).va = Start(file.table[j])
            /\ SegmentOf(file.table[j]).mem_size = Extent(file.table[j])
            /\ Start(file.table[j]) \in Nat /\ Extent(file.table[j]) \in Nat
      <3>1. \A j \in 1 .. Len(file.table) : file.table[j] \in Entries
        BY FileShape
      <3> QED BY <3>1, SegmentShape
    <2>4. ASSUME NEW j \in 1 .. Len(file.table)
          PROVE  InSegment(SegmentOf(file.table[j]), va, none) <=> Maps(file.table[j], va)
      <3>1. PICK start \in Nat, extent \in Nat :
              start = Start(file.table[j]) /\ extent = Extent(file.table[j])
        BY <2>3
      <3>2. (va >= start /\ va - start < extent) <=> (va >= start /\ va < start + extent)
        OBVIOUS
      <3>3. none \subseteq SegmentOf(file.table[j]).perms
        BY <1>1
      <3> QED BY <2>3, <3>1, <3>2, <3>3 DEF InSegment, Maps
    <2>5. MapsAt(n, va) /\ view.segments[i] = SegmentOf(file.table[n])
      BY <1>2, <1>4, <2>2, <2>4 DEF Placed, Counts, MapsAt
    <2>6. ASSUME NEW j \in 1 .. (n - 1), MapsAt(j, va)
          PROVE  FALSE
      <3>1. j \in 1 .. Len(file.table)
        BY FileShape
      <3>2. Maps(file.table[j], va) /\ Counts(j)
        BY <2>3, <2>6, <3>1 DEF MapsAt, Maps, Counts
      <3>3. PICK l \in 1 .. (i - 1) : view.segments[l] = SegmentOf(file.table[j])
        BY <2>2, <3>2 DEF Placed
      <3> QED BY <1>2, <1>4, <2>4, <3>1, <3>2, <3>3
    <2>7. n \in First(va)
      BY <2>5, <2>6 DEF First
    <2> QED BY <1>4, <2>1, <2>5, <2>7
  <1> QED BY <1>3, <1>4

-----------------------------------------------------------------------------
(* Loading an image.                                                       *)

(* The image is a segment with the entry, executable if there is one.      *)
ImageSays(image) ==
  /\ image.entry = Entry
  /\ \E s \in Loaded :
       /\ Maps(s, Entry) /\ image.segment_bytes = s.file_offset
       /\ image.segment_base = Start(s) /\ image.segment_size = s.file_size
       /\ s.file_offset + s.file_size <= file.size
       /\ (\E t \in Loaded : Maps(t, Entry) /\ EXEC \in t.perms) => EXEC \in s.perms

LoadsImage(r, q) ==
  /\ r \in Loads /\ r.view = NoView
  /\ r.heap = q.heap + (IF r.image.held THEN 1 ELSE 0)
  /\ IF r.status = "OK" THEN r.image.held /\ ImageSays(r.image) ELSE r.image = NoImage

LEMMA EntryChosen ==
  ASSUME file \in Files, NEW view \in Views, Describes(view)
  PROVE  LET i == EntrySegment(view)
         IN  i # 0 => \E s \in Loaded :
               /\ view.segments[i] = SegmentOf(s) /\ i \in 1 .. Len(view.segments)
               /\ Maps(s, Entry)
               /\ (\E t \in Loaded : Maps(t, Entry) /\ EXEC \in t.perms) => EXEC \in s.perms
  <1>1. PICK exec : exec = xair_binary_view_find_segment(view, Entry, {EXEC})
    OBVIOUS
  <1>2. PICK any : any = xair_binary_view_find_segment(view, Entry, {})
    OBVIOUS
  <1>3. PICK i : i = EntrySegment(view)
    OBVIOUS
  <1>4. view.entry = Entry /\ Entry \in Nat
    BY BinaryAssumption, FileShape DEF Describes, Numbers
  <1>5. i = IF exec # 0 THEN exec ELSE any
    BY <1>1, <1>2, <1>3, <1>4 DEF EntrySegment
  <1>6. CASE exec # 0
    <2>1. PICK s \in Loaded : /\ view.segments[exec] = SegmentOf(s)
                              /\ exec \in 1 .. Len(view.segments)
                              /\ Maps(s, Entry) /\ {EXEC} \subseteq s.perms
      BY <1>1, <1>4, <1>6, EntryFound
    <2>2. EXEC \in s.perms
      BY <2>1
    <2>3. i = exec
      BY <1>5, <1>6
    <2> QED BY <1>3, <2>1, <2>2, <2>3
  <1>7. CASE exec = 0 /\ any # 0
    <2>1. \A t \in Loaded : ~(Maps(t, Entry) /\ {EXEC} \subseteq t.perms)
      <3>1. PICK perms : perms = {EXEC}
        OBVIOUS
      <3>2. exec = xair_binary_view_find_segment(view, Entry, perms)
        BY <1>1, <3>1
      <3>3. exec = 0 => \A t \in Loaded : ~(Maps(t, Entry) /\ perms \subseteq t.perms)
        BY <1>4, <3>2, EntryFound
      <3> QED BY <1>7, <3>1, <3>3
    <2>2. \A t \in Loaded : ~(Maps(t, Entry) /\ EXEC \in t.perms)
      BY <2>1
    <2>3. PICK s \in Loaded : /\ view.segments[any] = SegmentOf(s)
                              /\ any \in 1 .. Len(view.segments) /\ Maps(s, Entry)
      BY <1>2, <1>4, <1>7, EntryFound
    <2>4. i = any
      BY <1>5, <1>7
    <2> QED BY <1>3, <2>2, <2>3, <2>4
  <1> QED BY <1>3, <1>5, <1>6, <1>7

LEMMA ImageLoaded ==
  ASSUME file \in Files, NEW q \in Loads, NEW readable \in BOOLEAN
  PROVE  LoadsImage(xair_binary_load_path(q, file, readable), q)
  <1>1. PICK r : r = xair_binary_load_path(q, file, readable)
    OBVIOUS
  <1>2. PICK empty : empty = [q EXCEPT !.image = NoImage]
    OBVIOUS
  <1>3. empty \in Loads /\ empty.image = NoImage /\ empty.heap = q.heap
    BY <1>2 DEF Loads, Images, NoImage
  <1>4. PICK loaded : loaded = xair_binary_view_load_path(empty, file, readable)
    OBVIOUS
  <1>5. LoadsView(loaded, empty)
    BY <1>3, <1>4, ViewLoaded
  <1>6. PICK i : i = EntrySegment(loaded.view)
    OBVIOUS
  <1>7. PICK s : s = loaded.view.segments[i]
    OBVIOUS
  <1>8. PICK image : image = [arch |-> loaded.view.arch, entry |-> loaded.view.entry,
                              segment_base |-> s.va, segment_bytes |-> s.file_offset,
                              segment_size |-> s.file_size, held |-> TRUE]
    OBVIOUS
  <1>9. PICK copied : copied = [loaded EXCEPT !.heap = @ + 1, !.fuel = @ - 1, !.image = image]
    OBVIOUS
  <1>10. r = IF loaded.status # "OK" THEN loaded
             ELSE IF i = 0 THEN xair_binary_view_destroy(Stop(loaded, "RANGE"))
             ELSE IF loaded.fuel = 0 THEN xair_binary_view_destroy(Stop(loaded, "OOM"))
             ELSE xair_binary_view_destroy(copied)
    BY <1>1, <1>2, <1>4, <1>6, <1>7, <1>8, <1>9 DEF xair_binary_load_path
  <1>11. /\ loaded \in Loads /\ loaded.image = NoImage
         /\ loaded.heap = q.heap + Blocks(loaded.view)
    BY <1>3, <1>5 DEF LoadsView
  <1>12. q.heap \in Int /\ Blocks(loaded.view) \in Nat /\ NoImage.held = FALSE
    BY <1>11, ViewShape DEF NoImage
  <1>13. CASE r = loaded /\ loaded.status # "OK"
    <2>1. loaded.view = NoView
      BY <1>5, <1>13 DEF LoadsView
    <2>2. Blocks(loaded.view) = 0
      BY <2>1, <1>11, ViewFreed
    <2> QED BY <1>1, <1>11, <1>12, <1>13, <2>1, <2>2 DEF LoadsImage
  <1>14. CASE \E status \in {"RANGE", "OOM"} : r = xair_binary_view_destroy(Stop(loaded, status))
    <2>1. PICK status \in {"RANGE", "OOM"} : r = xair_binary_view_destroy(Stop(loaded, status))
      BY <1>14
    <2>2. status \in Statuses /\ status # "OK"
      BY DEF Statuses
    <2>3. PICK stopped : stopped = Stop(loaded, status)
      OBVIOUS
    <2>4. /\ stopped \in Loads /\ stopped.image = NoImage /\ stopped.view = loaded.view
          /\ stopped.heap = loaded.heap /\ stopped.status = status
      BY <1>11, <2>2, <2>3, StopShape
    <2>5. /\ r \in Loads /\ r.view = NoView /\ r.image = NoImage /\ r.status # "OK"
          /\ r.heap = loaded.heap - Blocks(loaded.view)
      BY <2>1, <2>2, <2>3, <2>4, ViewFreed
    <2>6. r.heap = q.heap
      BY <1>11, <1>12, <2>5
    <2> QED BY <1>1, <1>12, <2>5, <2>6 DEF LoadsImage
  <1>15. CASE loaded.status = "OK" /\ i # 0 /\ r = xair_binary_view_destroy(copied)
    <2>1. loaded.view \in Views /\ Describes(loaded.view)
      BY <1>5, <1>11, <1>15 DEF LoadsView, Loads
    <2>2. PICK e \in Loaded :
            /\ s = SegmentOf(e) /\ i \in 1 .. Len(loaded.view.segments) /\ Maps(e, Entry)
            /\ (\E t \in Loaded : Maps(t, Entry) /\ EXEC \in t.perms) => EXEC \in e.perms
      BY <1>6, <1>7, <1>15, <2>1, EntryChosen
    <2>3. e \in Entries
      BY FileShape
    <2>4. /\ s.va = Start(e) /\ s.file_offset = e.file_offset /\ s.file_size = e.file_size
          /\ Start(e) \in Nat /\ e.file_offset \in Nat /\ e.file_size \in Nat
      BY <2>2, <2>3, SegmentShape
    <2>5. s.file_offset + s.file_size <= file.size
      BY <1>7, <2>1, <2>2 DEF Describes, Inside
    <2>6. image \in Images /\ image.held = TRUE /\ image.entry = Entry
      BY <1>8, <2>1, <2>4 DEF Images, Views, Describes
    <2>7. ImageSays(image)
      BY <1>8, <2>2, <2>4, <2>5, <2>6 DEF ImageSays
    <2>8. /\ copied \in Loads /\ copied.image = image /\ copied.view = loaded.view
          /\ copied.heap = loaded.heap + 1 /\ copied.status = "OK"
      <3>1. copied = [view |-> loaded.view, image |-> image, status |-> loaded.status,
                      heap |-> loaded.heap + 1, fuel |-> loaded.fuel - 1]
        BY <1>9, <1>11 DEF Loads
      <3>2. copied \in Loads
        BY <1>11, <2>6, <3>1 DEF Loads
      <3> QED BY <1>15, <3>1, <3>2
    <2>9. /\ r \in Loads /\ r.view = NoView /\ r.image = copied.image
          /\ r.status = copied.status /\ r.heap = copied.heap - Blocks(copied.view)
      BY <1>15, <2>8, ViewFreed
    <2>10. r.image = image /\ r.status = "OK" /\ r.heap = q.heap + 1
      <3>1. Blocks(copied.view) = Blocks(loaded.view)
        BY <2>8
      <3>2. r.heap = (q.heap + Blocks(loaded.view) + 1) - Blocks(loaded.view)
        BY <1>11, <2>8, <2>9, <3>1
      <3>3. r.heap = q.heap + 1
        BY <1>12, <3>2
      <3> QED BY <2>8, <2>9, <3>3
    <2> QED BY <1>1, <2>6, <2>7, <2>9, <2>10 DEF LoadsImage
  <1> QED BY <1>10, <1>13, <1>14, <1>15

-----------------------------------------------------------------------------
(* The client.                                                             *)

ReadAnswer(va, size) ==
  [call |-> "read", va |-> va, size |-> size, result |-> xair_binary_view_read(p.view, va, size)]

LiftAnswer(address) ==
  [call |-> "lift", address |-> address,
   status |-> IF image_offset(p.image, address) THEN "OK" ELSE "RANGE",
   byte |-> p.image.segment_bytes + (address - p.image.segment_base)]

(* The last answer is about the view or the image the client still has.    *)
Answered ==
  \/ got = Nothing
  \/ /\ p.view # NoView
     /\ \E va \in Numbers, size \in 1 .. MaxRead : got = ReadAnswer(va, size)
  \/ /\ p.image.held
     /\ \E request \in Requests :
          got = LiftAnswer(IF request = 0 THEN p.image.entry ELSE request)

(* The inductive invariant.                                                *)
ClientInv ==
  /\ file \in Files /\ p \in Loads /\ HeapOwned
  /\ ~p.image.held => p.image = NoImage
  /\ p.view # NoView => Describes(p.view)
  /\ p.image.held => ImageSays(p.image)
  /\ Answered

(* The file does not change, so what is said of it stays.                  *)
LEMMA ViewStays ==
  ASSUME file' = file, Describes(p'.view)
  PROVE  Describes(p.view)'
  <1>1. /\ IsElf' = IsElf /\ Entry' = Entry /\ Loaded' = Loaded
        /\ \A s : Extent(s)' = Extent(s) /\ SegmentOf(s)' = SegmentOf(s)
        /\ \A s : IsLoaded(s)' = IsLoaded(s)
    BY DEF IsElf, Entry, Loaded, IsLoaded, Extent, SegmentOf, elf_segment, pe_segment
  <1>2. \A i : Counts(i)' = Counts(i)
    BY <1>1 DEF Counts
  <1>3. ASSUME NEW i, NEW k, Placed(p'.view.segments, i, k)
        PROVE  Placed(p.view.segments, i, k)'
    BY <1>1, <1>2, <1>3 DEF Placed
  <1>4. \A k \in 1 .. Len(p'.view.segments) :
          \E i \in 1 .. Len(file'.table) : Placed(p.view.segments, i, k)'
    BY <1>3 DEF Describes
  <1> QED BY <1>1, <1>4 DEF Describes, Inside

LEMMA ImageStays ==
  ASSUME file' = file, ImageSays(p'.image)
  PROVE  ImageSays(p.image)'
  BY DEF ImageSays, Entry, Loaded, IsLoaded, Maps, Start, Extent, IsElf

(* The blocks of the image besides those of the view.                      *)
LEMMA HeapSplit ==
  HeapOwned <=> /\ p.heap = Blocks(p.view) + (IF p.image.held THEN 1 ELSE 0)
                /\ p.status # "OK" => p.view = NoView /\ p.image = NoImage
  BY DEF HeapOwned, Blocks

LEMMA ClientInit == Init => ClientInv
  <1> SUFFICES ASSUME Init
               PROVE  ClientInv
    OBVIOUS
  <1>1. NoView \in Views /\ Blocks(NoView) = 0 /\ NoImage \in Images /\ NoImage.held = FALSE
    BY DEF NoView, Views, Formats, Blocks, NoImage, Images
  <1>2. /\ p.view = NoView /\ p.image = NoImage /\ p.heap = 0 /\ p.status = "OK"
        /\ p \in Loads
    BY <1>1 DEF Init, Loads, Statuses
  <1>3. HeapOwned
    BY <1>1, <1>2, HeapSplit
  <1> QED BY <1>1, <1>2, <1>3 DEF ClientInv, Init, Answered

(* A load starts with nothing held.                                        *)
LEMMA LoadStarts ==
  ASSUME ClientInv, p.heap = 0, NEW fuel \in Fuels, NEW q, q = [p EXCEPT !.fuel = fuel]
  PROVE  q \in Loads /\ q.heap = 0 /\ q.image = NoImage
  <1>1. p \in Loads /\ fuel \in Int
    BY BinaryClientAssumption DEF ClientInv
  <1>2. q \in Loads /\ q.heap = 0 /\ q.image = p.image
    BY <1>1 DEF Loads
  <1>3. Blocks(p.view) \in Nat /\ p.heap = Blocks(p.view) + (IF p.image.held THEN 1 ELSE 0)
    BY <1>1, ViewShape, HeapSplit DEF ClientInv
  <1>4. ~p.image.held
    BY <1>3
  <1> QED BY <1>2, <1>4 DEF ClientInv

LEMMA ClientNext == ClientInv /\ [Next]_vars => ClientInv'
  <1> SUFFICES ASSUME ClientInv, [Next]_vars
               PROVE  ClientInv'
    OBVIOUS
  <1>1. /\ file \in Files /\ p \in Loads /\ HeapOwned
        /\ ~p.image.held => p.image = NoImage
        /\ p.view # NoView => Describes(p.view)
        /\ p.image.held => ImageSays(p.image)
        /\ Answered
    BY DEF ClientInv
  <1>2. file' = file
    BY DEF Next, LoadView, LoadImage, Read, Lift, Destroy, vars
  <1>3. NoView \in Views /\ Blocks(NoView) = 0 /\ NoImage \in Images /\ NoImage.held = FALSE
    BY DEF NoView, Views, Formats, Blocks, NoImage, Images
  <1>4. ASSUME p' \in Loads, p'.heap = Blocks(p'.view) + (IF p'.image.held THEN 1 ELSE 0),
               p'.status # "OK" => p'.view = NoView /\ p'.image = NoImage,
               ~p'.image.held => p'.image = NoImage,
               p'.view # NoView => Describes(p'.view),
               p'.image.held => ImageSays(p'.image), got' = Nothing
        PROVE  ClientInv'
    <2>1. HeapOwned'
      BY <1>4 DEF HeapOwned, Blocks
    <2>2. (p.view # NoView => Describes(p.view))'
      BY <1>2, <1>4, ViewStays
    <2>3. (p.image.held => ImageSays(p.image))'
      BY <1>2, <1>4, ImageStays
    <2>4. Answered'
      BY <1>4 DEF Answered, Nothing
    <2> QED BY <1>1, <1>2, <1>4, <2>1, <2>2, <2>3, <2>4 DEF ClientInv
  <1>5. CASE LoadView
    <2>1. PICK fuel \in Fuels, readable \in BOOLEAN :
            p' = xair_binary_view_load_path([p EXCEPT !.fuel = fuel], file, readable)
      BY <1>5 DEF LoadView
    <2>2. PICK q : q = [p EXCEPT !.fuel = fuel]
      OBVIOUS
    <2>3. q \in Loads /\ q.heap = 0 /\ q.image = NoImage
      BY <1>5, <2>2, LoadStarts DEF LoadView
    <2>4. LoadsView(p', q)
      BY <1>1, <2>1, <2>2, <2>3, ViewLoaded
    <2>5. p' \in Loads /\ p'.image = NoImage /\ p'.heap = 0 + Blocks(p'.view)
      BY <2>3, <2>4 DEF LoadsView
    <2>6. Blocks(p'.view) \in Nat
      BY <2>5, ViewShape
    <2>7. p'.heap = Blocks(p'.view) + (IF p'.image.held THEN 1 ELSE 0)
      BY <1>3, <2>5, <2>6
    <2>8. got' = Nothing
      BY <1>5 DEF LoadView
    <2> QED BY <1>3, <1>4, <2>4, <2>5, <2>7, <2>8 DEF LoadsView
  <1>6. CASE LoadImage
    <2>1. PICK fuel \in Fuels, readable \in BOOLEAN :
            p' = xair_binary_load_path([p EXCEPT !.fuel = fuel], file, readable)
      BY <1>6 DEF LoadImage
    <2>2. PICK q : q = [p EXCEPT !.fuel = fuel]
      OBVIOUS
    <2>3. q \in Loads /\ q.heap = 0 /\ q.image = NoImage
      BY <1>6, <2>2, LoadStarts DEF LoadImage
    <2>4. LoadsImage(p', q)
      BY <1>1, <2>1, <2>2, <2>3, ImageLoaded
    <2>5. p' \in Loads /\ p'.view = NoView /\ p'.heap = 0 + (IF p'.image.held THEN 1 ELSE 0)
      BY <2>3, <2>4 DEF LoadsImage
    <2>6. p'.heap = Blocks(p'.view) + (IF p'.image.held THEN 1 ELSE 0)
      BY <1>3, <2>5
    <2>7. got' = Nothing
      BY <1>6 DEF LoadImage
    <2> QED BY <1>3, <1>4, <2>4, <2>5, <2>6, <2>7 DEF LoadsImage
  <1>7. CASE Read
    <2>1. PICK va \in Numbers, size \in 1 .. MaxRead : got' = ReadAnswer(va, size)
      BY <1>7 DEF Read, ReadAnswer
    <2>2. p' = p /\ p.view # NoView
      BY <1>7 DEF Read
    <2>3. Answered'
      BY <2>1, <2>2 DEF Answered, ReadAnswer, Numbers
    <2> QED BY <1>1, <1>2, <2>2, <2>3, ViewStays, ImageStays DEF ClientInv, HeapOwned
  <1>8. CASE Lift
    <2>1. PICK request \in Requests :
            got' = LiftAnswer(IF request = 0 THEN p.image.entry ELSE request)
      BY <1>8 DEF Lift, LiftAnswer
    <2>2. p' = p /\ p.image.held
      BY <1>8 DEF Lift
    <2>3. Answered'
      BY <2>1, <2>2 DEF Answered, LiftAnswer, image_offset
    <2> QED BY <1>1, <1>2, <2>2, <2>3, ViewStays, ImageStays DEF ClientInv, HeapOwned
  <1>9. CASE Destroy
    <2>1. got' = Nothing
      BY <1>9 DEF Destroy
    <2>2. /\ p.heap = Blocks(p.view) + (IF p.image.held THEN 1 ELSE 0)
          /\ p.status # "OK" => p.view = NoView /\ p.image = NoImage
      BY <1>1, HeapSplit
    <2>3. Blocks(p.view) \in Nat
      BY <1>1, ViewShape
    <2>4. CASE p.view # NoView /\ p' = xair_binary_view_destroy(p)
      <3>1. /\ p' \in Loads /\ p'.view = NoView /\ p'.image = p.image
            /\ p'.status = p.status /\ p'.heap = p.heap - Blocks(p.view)
        BY <1>1, <2>4, ViewFreed
      <3>2. p'.heap = Blocks(p'.view) + (IF p'.image.held THEN 1 ELSE 0)
        BY <1>3, <2>2, <2>3, <3>1
      <3> QED BY <1>1, <1>4, <2>1, <2>2, <2>4, <3>1, <3>2
    <2>5. CASE p.image.held /\ p' = xair_binary_image_destroy(p)
      <3>1. p' = [p EXCEPT !.image = NoImage, !.heap = @ - 1]
        BY <2>5 DEF xair_binary_image_destroy
      <3>2. /\ p' \in Loads /\ p'.view = p.view /\ p'.image = NoImage
            /\ p'.status = p.status /\ p'.heap = p.heap - 1
        <4>1. p' = [view |-> p.view, image |-> NoImage, status |-> p.status,
                    heap |-> p.heap - 1, fuel |-> p.fuel]
          BY <1>1, <3>1 DEF Loads
        <4>2. p' \in Loads
          BY <1>1, <1>3, <4>1 DEF Loads
        <4> QED BY <4>1, <4>2
      <3>3. p'.heap = Blocks(p'.view) + (IF p'.image.held THEN 1 ELSE 0)
        BY <1>3, <2>2, <2>3, <2>5, <3>2
      <3> QED BY <1>1, <1>3, <1>4, <2>1, <2>2, <2>5, <3>2, <3>3
    <2> QED BY <1>9, <2>4, <2>5 DEF Destroy
  <1>10. CASE UNCHANGED vars
    <2>1. p' = p /\ got' = got /\ file' = file
      BY <1>10 DEF vars
    <2>2. Answered'
      BY <1>1, <2>1 DEF Answered, ReadAnswer, LiftAnswer, image_offset, Numbers, Nothing
    <2> QED BY <1>1, <2>1, <2>2, ViewStays, ImageStays DEF ClientInv, HeapOwned
  <1> QED BY <1>5, <1>6, <1>7, <1>8, <1>9, <1>10 DEF Next

LEMMA ClientInvAlways == Spec => []ClientInv
  BY ClientInit, ClientNext, PTL DEF Spec

(* Nothing leaks, whatever the file says and whichever allocation fails:   *)
(* the heap blocks in use are those of the view and the image, and a load  *)
(* that fails leaves neither.                                              *)
THEOREM HeapOwnedAlways == Spec => []HeapOwned
  <1>1. ClientInv => HeapOwned
    BY DEF ClientInv
  <1> QED BY <1>1, ClientInvAlways, PTL

(* A read within the bytes of s, and one beyond them.                      *)
Serves(s, va, size, bytes) ==
  /\ Maps(s, va) /\ s.file_offset + s.file_size <= file.size
  /\ va - Start(s) <= s.file_size /\ size <= s.file_size - (va - Start(s))
  /\ bytes = [k \in 1 .. size |-> s.file_offset + (va - Start(s)) + k - 1]

Refuses(s, va, size) ==
  /\ Maps(s, va)
  /\ va - Start(s) > s.file_size \/ size > s.file_size - (va - Start(s))

LEMMA ReadShape ==
  ASSUME file \in Files, NEW view \in Views, Describes(view), NEW va \in Nat, NEW size \in Nat,
         NEW r, r = xair_binary_view_read(view, va, size)
  PROVE  \/ r.status = "OK" /\ \E n \in First(va) : Serves(file.table[n], va, size, r.bytes)
         \/ /\ r.status = "RANGE" /\ r.bytes = <<>>
            /\ \/ \A s \in Loaded : ~Maps(s, va)
               \/ \E n \in First(va) : Refuses(file.table[n], va, size)
  <1>1. PICK i : i = xair_binary_view_find_segment(view, va, {})
    OBVIOUS
  <1>2. CASE i = 0
    <2>1. r = [status |-> "RANGE", bytes |-> <<>>]
      BY <1>1, <1>2 DEF xair_binary_view_read
    <2>2. \A s \in Loaded : ~Maps(s, va)
      BY <1>1, <1>2, FirstFound
    <2> QED BY <2>1, <2>2
  <1>3. CASE i # 0
    <2>0. PICK n \in First(va) : /\ i \in 1 .. Len(view.segments)
                                 /\ view.segments[i] = SegmentOf(file.table[n])
      BY <1>1, <1>3, FirstFound
    <2>1. PICK s \in Loaded : /\ s = file.table[n] /\ view.segments[i] = SegmentOf(s)
                              /\ i \in 1 .. Len(view.segments) /\ Maps(s, va)
      BY <2>0, FirstIsOne
    <2>2. s \in Entries
      BY FileShape
    <2>3. PICK t : t = view.segments[i]
      OBVIOUS
    <2>4. /\ t.va = Start(s) /\ t.file_offset = s.file_offset /\ t.file_size = s.file_size
          /\ Start(s) \in Nat /\ s.file_offset \in Nat /\ s.file_size \in Nat
      BY <2>1, <2>2, <2>3, SegmentShape
    <2>5. t.file_offset + t.file_size <= file.size
      BY <2>1, <2>3 DEF Describes, Inside
    <2>6. r = IF va - t.va > t.file_size \/ size > t.file_size - (va - t.va)
              THEN [status |-> "RANGE", bytes |-> <<>>]
              ELSE [status |-> "OK",
                    bytes |-> [k \in 1 .. size |-> t.file_offset + (va - t.va) + k - 1]]
      BY <1>1, <1>3, <2>3 DEF xair_binary_view_read
    <2>7. CASE va - t.va > t.file_size \/ size > t.file_size - (va - t.va)
      <3>1. r = [status |-> "RANGE", bytes |-> <<>>]
        BY <2>6, <2>7
      <3>2. va - Start(s) > s.file_size \/ size > s.file_size - (va - Start(s))
        BY <2>4, <2>7
      <3> QED BY <2>1, <3>1, <3>2 DEF Refuses
    <2>8. CASE ~(va - t.va > t.file_size \/ size > t.file_size - (va - t.va))
      <3>1. r = [status |-> "OK",
                 bytes |-> [k \in 1 .. size |-> t.file_offset + (va - t.va) + k - 1]]
        BY <2>6, <2>8
      <3>2. va - Start(s) <= s.file_size /\ size <= s.file_size - (va - Start(s))
        BY <2>4, <2>8
      <3>3. r.bytes = [k \in 1 .. size |-> s.file_offset + (va - Start(s)) + k - 1]
        BY <2>4, <3>1
      <3>4. r.status = "OK" /\ s.file_offset + s.file_size <= file.size
        BY <2>4, <2>5, <3>1
      <3> QED BY <2>1, <3>2, <3>3, <3>4 DEF Serves
    <2> QED BY <2>7, <2>8
  <1> QED BY <1>2, <1>3

(* Which of its three forms the last answer has, told by its call.         *)
LEMMA AnswerForms ==
  ASSUME ClientInv
  PROVE  /\ got.call = "read" =>
              /\ p.view \in Views /\ Describes(p.view)
              /\ \E va \in Nat, size \in Nat \ {0} :
                   /\ va \in Numbers /\ got.va = va /\ got.size = size
                   /\ got.result = xair_binary_view_read(p.view, va, size)
         /\ got.call = "lift" =>
              /\ p.image.held
              /\ \E address \in Numbers : got = LiftAnswer(address)
  <1>1. Answered /\ p \in Loads /\ file \in Files
    BY DEF ClientInv
  <1>2. CASE got = Nothing
    BY <1>2 DEF Nothing
  <1>3. ASSUME p.view # NoView, NEW va \in Numbers, NEW size \in 1 .. MaxRead,
               got = ReadAnswer(va, size)
        PROVE  /\ got.call = "read" /\ p.view \in Views /\ Describes(p.view)
               /\ va \in Nat /\ size \in Nat \ {0} /\ got.va = va /\ got.size = size
               /\ got.result = xair_binary_view_read(p.view, va, size)
    <2>1. va \in Nat /\ size \in Nat \ {0}
      BY BinaryAssumption, BinaryClientAssumption DEF Numbers
    <2>2. p.view \in Views /\ Describes(p.view)
      BY <1>1, <1>3 DEF ClientInv, Loads
    <2> QED BY <1>3, <2>1, <2>2 DEF ReadAnswer
  <1>4. ASSUME p.image.held, NEW request \in Requests,
               got = LiftAnswer(IF request = 0 THEN p.image.entry ELSE request)
        PROVE  got.call = "lift" /\ \E address \in Numbers : got = LiftAnswer(address)
    <2>1. request \in Numbers /\ p.image.entry \in Numbers
      BY <1>1, <1>4, BinaryClientAssumption, FileShape DEF ClientInv, ImageSays
    <2>2. PICK address \in Numbers : address = IF request = 0 THEN p.image.entry ELSE request
      BY <2>1
    <2>3. got = LiftAnswer(address)
      BY <1>4, <2>2
    <2>4. got.call = "lift"
      BY <2>3 DEF LiftAnswer
    <2> QED BY <2>3, <2>4
  <1>5. CASE /\ p.view # NoView
             /\ \E va \in Numbers, size \in 1 .. MaxRead : got = ReadAnswer(va, size)
    BY <1>3, <1>5
  <1>6. CASE /\ p.image.held
             /\ \E request \in Requests :
                  got = LiftAnswer(IF request = 0 THEN p.image.entry ELSE request)
    BY <1>4, <1>6
  <1> QED BY <1>1, <1>2, <1>5, <1>6 DEF Answered

(* Two loaded entries that map the same address are one.                   *)
LEMMA OneMaps ==
  ASSUME WellFormed, file \in Files, NEW s \in Loaded, NEW t \in Loaded, NEW va \in Numbers,
         Maps(s, va), Maps(t, va)
  PROVE  s = t
  <1>1. file.table \in Seq(Entries)
    BY FileShape
  <1>2. PICK i \in 1 .. Len(file.table) : s = file.table[i]
    BY <1>1 DEF Loaded, ToSet
  <1>3. PICK j \in 1 .. Len(file.table) : t = file.table[j]
    BY <1>1 DEF Loaded, ToSet
  <1>4. {file.table[i], file.table[j]} \subseteq Loaded
    BY <1>2, <1>3
  <1>5. i = j
    BY <1>2, <1>3, <1>4 DEF WellFormed
  <1> QED BY <1>2, <1>3, <1>5

(* Whatever the headers say, every byte that is copied into a view or an   *)
(* image, read through the view or lifted from the image lies in the file. *)
THEOREM WithinFileAlways == Spec => []WithinFile
  <1>1. ClientInv => WithinFile
    <2> SUFFICES ASSUME ClientInv
                 PROVE  WithinFile
      OBVIOUS
    <2>1. /\ file \in Files /\ p \in Loads /\ (p.view # NoView => Describes(p.view))
          /\ (p.image.held => ImageSays(p.image))
      BY DEF ClientInv
    <2>2. file.size \in Nat /\ \A s \in Loaded : s \in Entries
      BY <2>1, FileShape
    <2>3. \A s \in Loaded : s.file_offset \in Nat /\ s.file_size \in Nat /\ Start(s) \in Nat
      BY <2>1, <2>2, SegmentShape
    <2>4. \A i \in 1 .. Len(p.view.segments) :
            p.view.segments[i].file_offset + p.view.segments[i].file_size <= file.size
      <3>1. CASE p.view = NoView
        BY <3>1 DEF NoView
      <3>2. CASE p.view # NoView
        BY <2>1, <3>2 DEF Describes, Inside
      <3> QED BY <3>1, <3>2
    <2>5. p.image.held => p.image.segment_bytes + p.image.segment_size <= file.size
      BY <2>1 DEF ImageSays
    <2>6. ASSUME got.call = "read", NEW k \in DOMAIN got.result.bytes
          PROVE  got.result.bytes[k] < file.size
      <3>1. PICK va \in Nat, size \in Nat \ {0} :
              got.result = xair_binary_view_read(p.view, va, size)
        BY <2>6, AnswerForms
      <3>2. p.view \in Views /\ Describes(p.view)
        BY <2>6, AnswerForms
      <3>3. got.result.bytes # <<>>
        BY <2>6
      <3>4. PICK s \in Loaded : Serves(s, va, size, got.result.bytes)
        <4>1. PICK n \in First(va) : Serves(file.table[n], va, size, got.result.bytes)
          BY <2>1, <3>1, <3>2, <3>3, ReadShape
        <4> QED BY <2>1, <4>1, FirstIsOne
      <3>5. k \in 1 .. size /\ got.result.bytes[k] = s.file_offset + (va - Start(s)) + k - 1
        BY <2>6, <3>4 DEF Serves
      <3> QED BY <2>2, <2>3, <3>4, <3>5 DEF Serves
    <2>7. ASSUME got.call = "lift", got.status = "OK"
          PROVE  got.byte \in 0 .. (file.size - 1)
      <3>1. PICK address \in Nat : got = LiftAnswer(address)
        BY <2>7, AnswerForms, BinaryAssumption DEF Numbers
      <3>2. p.image.held
        BY <2>7, AnswerForms
      <3>3. PICK s \in Loaded :
              /\ p.image.segment_bytes = s.file_offset /\ p.image.segment_base = Start(s)
              /\ p.image.segment_size = s.file_size /\ s.file_offset + s.file_size <= file.size
        BY <2>1, <3>2 DEF ImageSays
      <3>4. image_offset(p.image, address)
        BY <2>7, <3>1 DEF LiftAnswer
      <3>5. got.byte = s.file_offset + (address - Start(s))
        BY <3>1, <3>3 DEF LiftAnswer
      <3>6. address >= Start(s) /\ address - Start(s) < s.file_size
        BY <3>3, <3>4 DEF image_offset
      <3> QED BY <2>2, <2>3, <3>3, <3>5, <3>6
    <2> QED BY <2>4, <2>5, <2>6, <2>7 DEF WithinFile
  <1> QED BY <1>1, ClientInvAlways, PTL

(* For every file, a read through the view is served by the first segment  *)
(* in the table that maps its address: it succeeds exactly when that one   *)
(* has all the bytes in the file, and yields those.  When the headers are  *)
(* well formed, it succeeds exactly when some segment has all the bytes.   *)
THEOREM ReadsWhatIsMappedAlways == Spec => []ReadsWhatIsMapped
  <1>1. ClientInv => ReadsWhatIsMapped
    <2> SUFFICES ASSUME ClientInv, got.call = "read"
                 PROVE  ReadsWhatIsMapped
      BY DEF ReadsWhatIsMapped
    <2>1. file \in Files /\ p.view \in Views /\ Describes(p.view)
      BY AnswerForms DEF ClientInv
    <2>2. PICK va \in Nat, size \in Nat \ {0} :
            /\ va \in Numbers /\ got.va = va /\ got.size = size
            /\ got.result = xair_binary_view_read(p.view, va, size)
      BY AnswerForms
    <2>3. PICK r : r = got.result
      OBVIOUS
    <2>4. PICK there : there = {s \in Loaded : \A k \in 0 .. (size - 1) : HasByte(s, va + k)}
      OBVIOUS
    <2>5. SUFFICES
            /\ r.status = "OK" <=>
                 \E n \in First(va) : va - Start(file.table[n]) + size <= file.table[n].file_size
            /\ r.status = "OK" => \A n \in First(va) : \A k \in 1 .. size :
                 r.bytes[k] = file.table[n].file_offset + (va - Start(file.table[n])) + k - 1
            /\ WellFormed => (r.status = "OK" <=> there # {})
      BY <2>2, <2>3, <2>4 DEF ReadsWhatIsMapped
    <2>6. \A s \in Loaded : /\ s.file_offset \in Nat /\ s.file_size \in Nat
                            /\ Start(s) \in Nat /\ Extent(s) \in Nat
      <3>1. \A s \in Loaded : s \in Entries
        BY <2>1, FileShape
      <3> QED BY <2>1, <3>1, SegmentShape
    <2>7. ASSUME NEW s \in there
          PROVE  s \in Loaded /\ Maps(s, va) /\ size <= s.file_size - (va - Start(s))
                 /\ va - Start(s) <= s.file_size
      <3>1. PICK last \in Nat : last = va + (size - 1)
        OBVIOUS
      <3>2. s \in Loaded /\ HasByte(s, va + 0) /\ HasByte(s, last)
        BY <2>4, <3>1
      <3>3. /\ s.file_offset \in Nat /\ s.file_size \in Nat /\ Start(s) \in Nat
            /\ Extent(s) \in Nat
        BY <2>6, <3>2
      <3>4. va + 0 = va
        OBVIOUS
      <3>5. Maps(s, va) /\ last - Start(s) < s.file_size /\ va >= Start(s)
        BY <3>2, <3>4 DEF HasByte, Maps
      <3> QED BY <3>1, <3>2, <3>3, <3>5
    <2>8. CASE r.status = "OK" /\ \E n \in First(va) : Serves(file.table[n], va, size, r.bytes)
      <3>0. PICK n \in First(va) : Serves(file.table[n], va, size, r.bytes)
        BY <2>8
      <3>1. PICK s \in Loaded :
                 /\ s = file.table[n] /\ Maps(s, va) /\ \A m \in First(va) : m = n
                 /\ va - Start(s) <= s.file_size /\ size <= s.file_size - (va - Start(s))
                 /\ r.bytes = [k \in 1 .. size |-> s.file_offset + (va - Start(s)) + k - 1]
        BY <2>1, <3>0, FirstIsOne DEF Serves
      <3>2. ASSUME WellFormed, NEW k \in 0 .. (size - 1)
            PROVE  HasByte(s, va + k)
        <4>1. s.file_size <= Extent(s) /\ va >= Start(s)
          BY <3>1, <3>2 DEF WellFormed, Maps
        <4>2. PICK at \in Nat : at = va + k
          OBVIOUS
        <4>3. at >= Start(s) /\ at < Start(s) + Extent(s) /\ at - Start(s) < s.file_size
          BY <2>6, <3>1, <4>1, <4>2
        <4> QED BY <4>2, <4>3 DEF HasByte, Maps
      <3>3. WellFormed => s \in there
        BY <2>4, <3>2
      <3>4. va - Start(s) + size <= s.file_size
        BY <2>6, <3>1
      <3>5. \A k \in 1 .. size : r.bytes[k] = s.file_offset + (va - Start(s)) + k - 1
        BY <3>1
      <3> QED BY <2>8, <3>1, <3>3, <3>4, <3>5
    <2>9. CASE r.status = "RANGE" /\ \A s \in Loaded : ~Maps(s, va)
      <3>1. \A n \in First(va) : FALSE
        BY <2>1, <2>9, FirstIsOne
      <3>2. there = {}
        BY <2>7, <2>9
      <3> QED BY <2>9, <3>1, <3>2
    <2>10. CASE r.status = "RANGE" /\ \E n \in First(va) : Refuses(file.table[n], va, size)
      <3>0. PICK n \in First(va) : Refuses(file.table[n], va, size)
        BY <2>10
      <3>1. PICK s \in Loaded :
                 /\ s = file.table[n] /\ Maps(s, va) /\ \A m \in First(va) : m = n
                 /\ va - Start(s) > s.file_size \/ size > s.file_size - (va - Start(s))
        BY <2>1, <3>0, FirstIsOne DEF Refuses
      <3>2. ASSUME WellFormed, NEW t \in there
            PROVE  FALSE
        <4>1. t = s
          BY <2>1, <2>2, <2>7, <3>1, <3>2, OneMaps
        <4> QED BY <2>6, <2>7, <3>1, <4>1
      <3>3. ~(va - Start(s) + size <= s.file_size)
        BY <2>6, <3>1
      <3>4. WellFormed => there = {}
        BY <3>2
      <3> QED BY <2>10, <3>1, <3>3, <3>4
    <2>11. r = xair_binary_view_read(p.view, va, size)
      BY <2>2, <2>3
    <2> QED BY <2>1, <2>8, <2>9, <2>10, <2>11, ReadShape
  <1> QED BY <1>1, ClientInvAlways, PTL

(* The image is an executable segment with the entry if there is one.      *)
(* When the headers are well formed, lifting at the entry succeeds exactly *)
(* when the file has its byte, and wherever the tool was asked to lift,    *)
(* what it lifts is that address's byte and not another segment's.         *)
THEOREM ImageHoldsEntryAlways == Spec => []ImageHoldsEntry
  <1>1. ClientInv => ImageHoldsEntry
    <2> SUFFICES ASSUME ClientInv
                 PROVE  ImageHoldsEntry
      OBVIOUS
    <2>1. file \in Files /\ (p.image.held => ImageSays(p.image))
      BY DEF ClientInv
    <2>2. p.image.held =>
            \E s \in Loaded :
              /\ Maps(s, Entry) /\ s.file_offset = p.image.segment_bytes
              /\ p.image.segment_base = Start(s) /\ p.image.segment_size = s.file_size
              /\ (\E t \in Loaded : Maps(t, Entry) /\ EXEC \in t.perms) => EXEC \in s.perms
      BY <2>1 DEF ImageSays
    <2>3. ASSUME got.call = "lift", WellFormed
          PROVE  LET from == {s \in Loaded : HasByte(s, got.address)}
                 IN  /\ got.address = Entry => (got.status = "OK" <=> from # {})
                     /\ got.status = "OK" =>
                          /\ from # {}
                          /\ \A s \in from :
                               got.byte = s.file_offset + (got.address - Start(s))
      <3>1. p.image.held
        BY <2>3, AnswerForms
      <3>2. PICK address \in Numbers : got = LiftAnswer(address)
        BY <2>3, AnswerForms
      <3>3. PICK s \in Loaded :
              /\ Maps(s, Entry) /\ s.file_offset = p.image.segment_bytes
              /\ p.image.segment_base = Start(s) /\ p.image.segment_size = s.file_size
        BY <2>2, <3>1
      <3>4. /\ got.address = address /\ got.byte = s.file_offset + (address - Start(s))
            /\ got.status = IF address >= Start(s) /\ address - Start(s) < s.file_size
                             THEN "OK" ELSE "RANGE"
        BY <3>2, <3>3 DEF LiftAnswer, image_offset
      <3>5. PICK from : from = {t \in Loaded : HasByte(t, address)}
        OBVIOUS
      <3>6. Entry \in Numbers /\ address \in Nat
        BY <2>1, FileShape, BinaryAssumption DEF Numbers
      <3>7. s \in from <=> address >= Start(s) /\ address - Start(s) < s.file_size
        <4>1. s \in Entries
          BY <2>1, FileShape
        <4>2. Start(s) \in Nat /\ Extent(s) \in Nat /\ s.file_size \in Nat
          BY <2>1, <4>1, SegmentShape
        <4>3. s.file_size <= Extent(s)
          BY <2>3 DEF WellFormed
        <4>4. HasByte(s, address) <=> address >= Start(s) /\ address - Start(s) < s.file_size
          BY <3>6, <4>2, <4>3 DEF HasByte, Maps
        <4> QED BY <3>3, <3>5, <4>4
      <3>8. ASSUME address = Entry, NEW t \in from
            PROVE  t = s
        <4>1. Maps(t, Entry) /\ t \in Loaded
          BY <3>5, <3>8 DEF HasByte
        <4> QED BY <2>1, <2>3, <3>3, <3>6, <4>1, OneMaps
      <3>9. ASSUME s \in from, NEW t \in from
            PROVE  t = s
        <4>1. Maps(t, address) /\ Maps(s, address) /\ t \in Loaded
          BY <3>5, <3>9 DEF HasByte
        <4> QED BY <2>1, <2>3, <3>2, <3>3, <4>1, OneMaps
      <3>10. got.status = "OK" <=> s \in from
        BY <3>4, <3>7
      <3>11. address = Entry => (got.status = "OK" <=> from # {})
        BY <3>8, <3>10
      <3>12. s \in from => \A t \in from : got.byte = t.file_offset + (got.address - Start(t))
        BY <3>4, <3>9
      <3> QED BY <3>4, <3>5, <3>10, <3>11, <3>12
    <2> QED BY <2>2, <2>3 DEF ImageHoldsEntry
  <1> QED BY <1>1, ClientInvAlways, PTL
=============================================================================
