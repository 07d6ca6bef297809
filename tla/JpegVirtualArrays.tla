-------------------------- MODULE JpegVirtualArrays --------------------------
(***************************************************************************)
(* jmemmgr.c: virtual arrays, the full-image buffers of multi-pass modes.  *)
(* An array is requested, realized together with all others once memory    *)
(* can be divided, and then accessed a strip at a time.  If it does not    *)
(* fit, a window of rows_in_mem rows is in memory and the rest in a        *)
(* backing store.                                                          *)
(*                                                                         *)
(* Sample and block arrays have the same code twice; `kind` says which one *)
(* an array uses, and `sample` stands for a block in an array of blocks.   *)
(* In memory the rows of samples are longer than asked for (Stride), in    *)
(* the store they are not, and a chunk of rows is moved as one run of      *)
(* samples.  `junk` is a sample that nobody has written.                   *)
(* The system-dependent part (jmemsys.h) is external: how much memory it   *)
(* offers is chosen at will, and it opens a backing store or it does not.  *)
(* jmemnobs.c, the one in this repository, always offers what is asked, so *)
(* that the viewer's arrays are in memory as a whole.                      *)
(***************************************************************************)
EXTENDS FiniteSets, FiniteSetsExt, JpegBasics

CONSTANTS Array,         \* names of arrays
          Value,         \* rows of samples that a caller writes
          zero, junk,
          Shapes,        \* [rows, width, maxaccess, pre_zero, kind] of requests
          Available,     \* what jpeg_mem_available may answer
          RowAlign,      \* (2 * ALIGN_SIZE) / SIZEOF(JSAMPLE)
          ChunkSpace     \* samples in a chunk: MAX_ALLOC_CHUNK without its header

(* How far the rows of an array are apart in memory: alloc_sarray rounds   *)
(* the length up, alloc_barray does not.                                   *)
Stride(p) == IF p.kind = "s" THEN round_up_pow2(p.width, RowAlign) ELSE p.width

ASSUME ShapeAssumption ==
  /\ Shapes \subseteq [rows : Nat \ {0}, width : Nat \ {0}, maxaccess : Nat \ {0},
                       pre_zero : BOOLEAN, kind : {"s", "b"}]
  /\ \A s \in Shapes : s.maxaccess <= s.rows
  /\ Available \subseteq Nat
  /\ IsFiniteSet(Array)
(* No picture is so wide that a row does not fit in a chunk.               *)
ASSUME ChunkAssumption ==
  /\ RowAlign \in Nat \ {0} /\ ChunkSpace \in Nat
  /\ \A s \in Shapes : Stride(s) <= ChunkSpace
ASSUME ValueAssumption ==
  /\ zero # junk /\ junk \notin Value
  /\ \A v \in Value : \A k \in DOMAIN v : v[k] # junk
  /\ \A v \in Value, s \in Shapes : 0..(s.width - 1) \subseteq DOMAIN v

VARIABLES arrays,  \* the control blocks, by name; None if not requested
          store,   \* the backing store of an array, by row and sample
          strip,   \* the array and the rows that the last access returned
          refused  \* the error that ended the last call, or ""

vaVars == <<arrays, store, strip, refused>>

None == [rows_in_array |-> 0]
NoStrip == [of |-> "none", rows |-> <<>>]
Huge == 1000000000

Requested == {a \in Array : arrays[a] # None}
Realized == {a \in Requested : arrays[a].rows_in_mem > 0}
Waiting == Requested \ Realized

Block(s) ==
  [rows_in_array |-> s.rows, width |-> s.width, maxaccess |-> s.maxaccess,
   pre_zero |-> s.pre_zero, kind |-> s.kind, rows_in_mem |-> 0,
   rowsperchunk |-> 0, cur_start_row |-> 0, first_undef_row |-> 0, dirty |-> FALSE,
   b_s_open |-> FALSE, mem_buffer |-> <<>>]

VAInit ==
  /\ arrays = [a \in Array |-> None]
  /\ store = [a \in Array |-> <<>>]
  /\ strip = NoStrip /\ refused = ""

Request(a, kind) ==
  /\ arrays[a] = None
  /\ \E s \in Shapes : s.kind = kind /\ arrays' = [arrays EXCEPT ![a] = Block(s)]
  /\ refused' = ""
  /\ UNCHANGED <<store, strip>>

request_virt_sarray(a) == Request(a, "s")
request_virt_barray(a) == Request(a, "b")

-----------------------------------------------------------------------------
(* realize_virt_arrays: the same multiple of maxaccess for every array     *)
(* that does not fit as a whole.                                           *)
MinSpace(a) == arrays[a].maxaccess * arrays[a].width
MaxSpace(a) == arrays[a].rows_in_array * arrays[a].width

(* What the arrays need together, counted unit by unit.                    *)
Total(space) == Cardinality(UNION {{a} \X (1..space[a]) : a \in DOMAIN space})
space_per_minheight == Total([a \in Waiting |-> MinSpace(a)])
maximum_space == Total([a \in Waiting |-> MaxSpace(a)])

MaxMinHeights(avail_mem) ==
  IF avail_mem >= maximum_space THEN Huge
  ELSE Max({1, avail_mem \div space_per_minheight})

RowsInMem(a, max_minheights) ==
  LET minheights == (arrays[a].rows_in_array - 1) \div arrays[a].maxaccess + 1
  IN  IF minheights <= max_minheights THEN arrays[a].rows_in_array
      ELSE max_minheights * arrays[a].maxaccess

Realize(a, rows_in_mem) ==
  [arrays[a] EXCEPT
     !.rows_in_mem = rows_in_mem,
     !.rowsperchunk = Min({ChunkSpace \div Stride(arrays[a]), rows_in_mem}),
     !.b_s_open = rows_in_mem < arrays[a].rows_in_array,
     !.mem_buffer = [i \in 0..(rows_in_mem - 1) |->
                       [k \in 0..(Stride(arrays[a]) - 1) |-> junk]]]

(* An array that needs a backing store which does not open ends the call,  *)
(* with those before it in the list realized.                              *)
realize_virt_arrays ==
  /\ Waiting # {}
  /\ strip' = NoStrip
  /\ \E avail_mem \in Available, opens \in BOOLEAN :
       LET m == MaxMinHeights(avail_mem)
           whole == {a \in Waiting : RowsInMem(a, m) = arrays[a].rows_in_array}
       IN  IF whole = Waiting \/ opens
           THEN /\ arrays' = [a \in Array |->
                     IF a \in Waiting THEN Realize(a, RowsInMem(a, m)) ELSE arrays[a]]
                /\ store' = [a \in Array |->
                     IF a \in Waiting \ whole
                     THEN [r \in 0..(arrays[a].rows_in_array - 1) |->
                             [k \in 0..(arrays[a].width - 1) |-> junk]]
                     ELSE store[a]]
                /\ refused' = ""
           ELSE /\ \E done \in SUBSET whole : arrays' = [a \in Array |->
                     IF a \in done THEN Realize(a, arrays[a].rows_in_array) ELSE arrays[a]]
                /\ refused' = "no backing store" /\ UNCHANGED store

-----------------------------------------------------------------------------
IoRowsFew(p) ==  \* mutant: the last row that is defined is left out
  {r \in p.cur_start_row..(p.cur_start_row + p.rows_in_mem - 1) :
     r < p.first_undef_row - 1 /\ r < p.rows_in_array}
(* The rows of the store that do_sarray_io and do_barray_io move, chunk by *)
(* chunk: as many as the window has rows that exist and are defined.       *)
IoRows(p) ==
  {r \in p.cur_start_row..(p.cur_start_row + p.rows_in_mem - 1) :
     r < p.first_undef_row /\ r < p.rows_in_array}

ChunkStart(p, i) == i - (i % p.rowsperchunk)

(* A chunk is moved as one run of samples: where sample k of row i is,     *)
(* rows being `from` samples apart, when they are `to` samples apart.      *)
Place(p, i, k, from, to) ==
  LET n == (i - ChunkStart(p, i)) * from + k
  IN  [row |-> ChunkStart(p, i) + n \div to, sample |-> n % to]

InMemory(p, i, k) == Place(p, i, k, p.width, Stride(p))
InStore(p, i, k) == Place(p, i, k, Stride(p), p.width)

WriteStore(p, s) ==
  [r \in DOMAIN s |->
     IF r \notin IoRows(p) THEN s[r]
     ELSE [k \in DOMAIN s[r] |-> LET at == InMemory(p, r - p.cur_start_row, k)
                                 IN  p.mem_buffer[at.row][at.sample]]]

(* The run ends with the rows of the chunk in the store, short of the end  *)
(* of the chunk in memory if the rows there are longer.                    *)
ReadStore(p, s) ==
  LET Read(i, k) ==
        LET at == InStore(p, i, k)
            r == p.cur_start_row + at.row
        IN  IF at.row < ChunkStart(p, i) + p.rowsperchunk /\ r \in IoRows(p)
            THEN s[r][at.sample] ELSE p.mem_buffer[i][k]
  IN  [p EXCEPT !.mem_buffer = [i \in DOMAIN @ |-> [k \in DOMAIN @[i] |-> Read(i, k)]]]

(* Where the window goes: to the strip going up, and going down so far     *)
(* that the strip is its end.                                              *)
Window(p, start_row, end_row) ==
  IF start_row > p.cur_start_row THEN start_row ELSE Max({0, end_row - p.rows_in_mem})

Inside(p, start_row, end_row) ==
  start_row >= p.cur_start_row /\ end_row <= p.cur_start_row + p.rows_in_mem

(* The array after the window has been moved, if it must be.               *)
Moved(p, s, start_row, end_row) ==
  IF Inside(p, start_row, end_row) THEN p
  ELSE ReadStore([p EXCEPT !.cur_start_row = Window(p, start_row, end_row), !.dirty = FALSE], s)

ZeroedNot(p, from, end_row) == p  \* mutant: rows are left as they are
(* Rows that nobody has written yet are zeroed, if that was asked for. *)
Zeroed(p, from, end_row) ==
  [p EXCEPT !.mem_buffer =
     [i \in DOMAIN @ |->
        IF p.pre_zero /\ p.cur_start_row + i \in from..(end_row - 1)
        THEN [k \in DOMAIN @[i] |-> IF k < p.width THEN zero ELSE @[i][k]] ELSE @[i]]]

(* The errors of an access, in the order of the code. *)
Misused(p, start_row, end_row, num_rows) ==
  end_row > p.rows_in_array \/ num_rows > p.maxaccess \/ p.mem_buffer = <<>>
Undefinable(p, start_row, end_row, writable) ==
  /\ p.first_undef_row < end_row
  /\ (p.first_undef_row < start_row /\ writable) \/ (~p.pre_zero /\ ~writable)

(* What the caller then does with a strip it asked for to write: any of    *)
(* its rows get a value, and all those that would be undefined otherwise.  *)
Filled(p, start_row, end_row, values) ==
  [p EXCEPT !.mem_buffer =
     [i \in DOMAIN @ |-> LET r == p.cur_start_row + i IN
        IF r \in start_row..(end_row - 1) /\ values[r] # junk
        THEN [k \in DOMAIN @[i] |-> IF k < p.width THEN values[r][k] ELSE @[i][k]] ELSE @[i]]]

(* The samples that a row of the array has, whatever comes after them.     *)
Line(p, row) == [k \in 0..(p.width - 1) |-> row[k]]

Refuse(error) ==
  /\ refused' = error /\ strip' = NoStrip
  /\ UNCHANGED <<arrays, store>>

Access(a, start_row, num_rows, writable) ==
  LET p == arrays[a]
      end_row == start_row + num_rows
      flushed == IF ~Inside(p, start_row, end_row) /\ p.dirty
                 THEN WriteStore(p, store[a]) ELSE store[a]
      q == Moved(p, flushed, start_row, end_row)
      undef_row == IF q.first_undef_row < start_row THEN start_row ELSE q.first_undef_row
      z == IF q.first_undef_row < end_row THEN Zeroed(q, undef_row, end_row) ELSE q
      known == [z EXCEPT !.first_undef_row = IF writable THEN Max({@, end_row}) ELSE @,
                         !.dirty = @ \/ writable]
      rows == start_row..(end_row - 1)
  IN  IF Misused(p, start_row, end_row, num_rows) THEN Refuse("bad access")
      ELSE IF ~Inside(p, start_row, end_row) /\ ~p.b_s_open THEN Refuse("virtual bug")
      ELSE IF Undefinable(p, start_row, end_row, writable)
      THEN /\ arrays' = [arrays EXCEPT ![a] = q]
           /\ store' = [store EXCEPT ![a] = flushed]
           /\ strip' = NoStrip /\ refused' = "bad access"
      ELSE \E values \in [rows -> Value \cup {junk}] :
           /\ writable \/ \A r \in rows : values[r] = junk
           /\ (writable /\ ~p.pre_zero) =>
                \A r \in rows : r >= p.first_undef_row => values[r] # junk
           /\ LET done == Filled(known, start_row, end_row, values) IN
              /\ arrays' = [arrays EXCEPT ![a] = done]
              /\ strip' = [of |-> a,
                           rows |-> [r \in rows |-> Line(p, done.mem_buffer[r - done.cur_start_row])]]
           /\ store' = [store EXCEPT ![a] = flushed]
           /\ refused' = ""

access_virt_sarray(a) ==
  /\ a \in Realized /\ arrays[a].kind = "s"
  /\ \E start_row \in 0..arrays[a].rows_in_array, n \in 1..(arrays[a].maxaccess + 1),
        writable \in BOOLEAN : Access(a, start_row, n, writable)

access_virt_barray(a) ==
  /\ a \in Realized /\ arrays[a].kind = "b"
  /\ \E start_row \in 0..arrays[a].rows_in_array, n \in 1..(arrays[a].maxaccess + 1),
        writable \in BOOLEAN : Access(a, start_row, n, writable)

(* free_pool for the image pool: the stores are closed, the lists emptied. *)
FreeImagePool ==
  /\ Requested # {}
  /\ arrays' = [a \in Array |-> None] /\ store' = [a \in Array |-> <<>>]
  /\ strip' = NoStrip /\ refused' = ""

VANext ==
  \/ \E a \in Array : request_virt_sarray(a) \/ request_virt_barray(a)
  \/ realize_virt_arrays
  \/ \E a \in Array : access_virt_sarray(a) \/ access_virt_barray(a)
  \/ FreeImagePool

VASpec == VAInit /\ [][VANext]_vaVars

-----------------------------------------------------------------------------
(* A realized array has as many rows in memory as one access may ask for,  *)
(* and never calls rows defined that it does not have.                     *)
VATypeOK ==
  /\ refused \in {"", "bad access", "virtual bug", "no backing store"}
  /\ \A a \in Realized :
       /\ DOMAIN arrays[a].mem_buffer = 0..(arrays[a].rows_in_mem - 1)
       /\ arrays[a].rows_in_mem >= arrays[a].maxaccess
       /\ arrays[a].first_undef_row <= arrays[a].rows_in_array

(* jmemmgr.c:806-808: a window can always be moved to the strip.           *)
NoVirtualBug == refused # "virtual bug"

(* Where a chunk is the same run of samples in memory and in the store: in *)
(* arrays of blocks, of samples at aligned widths, and in those that are   *)
(* in memory as a whole.  In the others the run has padding in it, and the *)
(* end of a chunk is neither written nor read.                             *)
Exact(p) == p.b_s_open => Stride(p) = p.width

NoJunk(rows) == \A r \in DOMAIN rows : \A k \in DOMAIN rows[r] : rows[r][k] # junk

-----------------------------------------------------------------------------
(* Each array is the array of rows it stands for. *)
Row(a, r) ==
  LET p == arrays[a] IN
  IF p.rows_in_mem = 0 \/ r >= p.first_undef_row THEN [k \in 0..(p.width - 1) |-> junk]
  ELSE IF r \in p.cur_start_row..(p.cur_start_row + p.rows_in_mem - 1)
  THEN Line(p, p.mem_buffer[r - p.cur_start_row])
  ELSE store[a][r]

Content(a) == [r \in 0..(arrays[a].rows_in_array - 1) |-> Row(a, r)]
StripOf(a) == IF strip.of = a THEN strip.rows ELSE <<>>

Rows(a) == INSTANCE RowArray
             WITH content <- Content(a), strip <- StripOf(a), Zero <- zero, Undefined <- junk

(* Whatever the window does, the rows of an exact array keep what was      *)
(* written to them.                                                        *)
RowsKept ==
  [][\A a \in Array : (a \in Requested => Exact(arrays[a])) =>
       Rows(a)!Next \/ UNCHANGED <<Content(a), StripOf(a)>>]_vaVars

(* What an access to an exact array hands out has been written or zeroed,  *)
(* or the access is refused, and no legal sequence of accesses to any      *)
(* array is taken for an error of the library (jmemmgr.c:783-957).         *)
RowsDefined ==
  /\ VATypeOK
  /\ NoVirtualBug
  /\ \A a \in Requested : Exact(arrays[a]) => NoJunk(StripOf(a))
=============================================================================
