------------------------------ MODULE JpegPools ------------------------------
(***************************************************************************)
(* jmemmgr.c: the pools of the memory manager of libjpeg-turbo, on which   *)
(* everything else in the library allocates.  Small objects share chunks   *)
(* with some slop, large ones have a chunk each, 2-D arrays are a small    *)
(* vector of row pointers and as few large chunks as MAX_ALLOC_CHUNK       *)
(* permits; all of it is freed a pool at a time.                           *)
(*                                                                         *)
(* A chunk is what one malloc() returned: its size, what its address is    *)
(* modulo ALIGN_SIZE (the code relies on nothing), the two counters of its *)
(* header, and as history the objects placed in it, by offset.  malloc()   *)
(* gives what is left below `limit`, which moves.  Addresses beyond their  *)
(* residue and the contents of objects are left out.                       *)
(***************************************************************************)
EXTENDS Sums, FiniteSetsExt, Functions, JpegBasics

CONSTANTS ALIGN_SIZE, MAX_ALLOC_CHUNK, MIN_SLOP,
          first_pool_slop, extra_pool_slop,  \* by pool
          Header,       \* SIZEOF(small_pool_hdr) = SIZEOF(large_pool_hdr)
          Manager,      \* SIZEOF(my_memory_mgr)
          Pointer,      \* SIZEOF(JSAMPROW)
          Limits,       \* bytes malloc() may be able to give
          ObjectSizes, Widths, Heights,  \* requests
          MostChunks,   \* bound: chunks when a request begins
          MostDrift     \* bound: how far the account is off when one begins

JPOOL_PERMANENT == 0
JPOOL_IMAGE == 1
Pool == {JPOOL_PERMANENT, JPOOL_IMAGE}

ASSUME SizeAssumption ==
  /\ ALIGN_SIZE \in Nat \ {0} /\ MAX_ALLOC_CHUNK \in Nat /\ MIN_SLOP \in Nat \ {0}
  /\ Header \in Nat /\ Manager \in Nat /\ Pointer \in Nat
  /\ first_pool_slop \in [Pool -> Nat] /\ extra_pool_slop \in [Pool -> Nat]

ASSUME RequestAssumption ==
  /\ Limits \subseteq Nat /\ ObjectSizes \subseteq Nat
  /\ Widths \subseteq Nat \ {0} /\ Heights \subseteq Nat
  /\ MostChunks \in Nat /\ MostDrift \in Nat

VARIABLES mem,    \* cinfo->mem: the lists of the pools, or NoManager
          limit,  \* what malloc() can give in all
          heap,   \* history: bytes obtained from malloc() and not freed
          exit    \* how the last call ended: "" or the error

poolVars == <<mem, limit, heap, exit>>

NoManager == <<>>

(* An object, and the header and content of a chunk. *)
Object == [off : Nat, size : Nat]
Chunk == [size : Nat, align : 0..(ALIGN_SIZE - 1), bytes_used : Nat, bytes_left : Nat,
          objects : SUBSET Object]
Lists == [Pool -> Seq(Chunk)]
Memory == [small_list : Lists, large_list : Lists, total_space_allocated : Int]

-----------------------------------------------------------------------------
(* What a call works on: the manager and the bytes malloc() gave. *)
Call(m, h) == [mem |-> m, heap |-> h, exit |-> ""]
Failed(c, error) == [c EXCEPT !.exit = error]

Gives(c, n) == c.heap + n <= limit

DataOffsetPlain(chunk) == Header  \* mutant: malloc() is trusted to align
(* Where data_ptr points in a chunk before bytes_used is added: behind the *)
(* header, and then up to the next multiple of ALIGN_SIZE.                 *)
DataOffset(chunk) ==
  LET r == (chunk.align + Header) % ALIGN_SIZE
  IN  Header + (IF r = 0 THEN 0 ELSE ALIGN_SIZE - r)

(* The slop to ask for, and what is left of it after each refusal.         *)
Slop(m, pool, min_request) ==
  Min({ IF m.small_list[pool] = <<>> THEN first_pool_slop[pool] ELSE extra_pool_slop[pool],
        MAX_ALLOC_CHUNK - min_request })

Halved(slop) ==
  LET half[k \in 0..slop] == IF k = 0 THEN slop ELSE half[k - 1] \div 2
  IN  {slop} \cup {s \in {half[k] : k \in 0..slop} : s >= MIN_SLOP}

NewChunk(c, align, used, left, extra, objects) ==
  [size |-> Header + used + left + extra, align |-> align,
   bytes_used |-> used, bytes_left |-> left, objects |-> objects]

(* The rest of alloc_small, on the chunk at i, which has room for n bytes. *)
PlaceSmall(c, pool, i, n) ==
  LET chunk == c.mem.small_list[pool][i]
      placed == [chunk EXCEPT
                   !.bytes_used = @ + n, !.bytes_left = @ - n,
                   !.objects = @ \cup {[off |-> DataOffset(chunk) + chunk.bytes_used, size |-> n]}]
  IN  [c EXCEPT !.mem.small_list[pool][i] = placed]

Room(list, n) == {i \in DOMAIN list : list[i].bytes_left >= n}

alloc_small(c, pool, size, align) ==
  LET n == round_up_pow2(size, ALIGN_SIZE)
      list == c.mem.small_list[pool]
      room == Room(list, n)
      min_request == Header + n + ALIGN_SIZE - 1
      slops == {s \in Halved(Slop(c.mem, pool, min_request)) : Gives(c, min_request + s)}
      slop == Max(slops)
      grown == [c EXCEPT
        !.heap = @ + min_request + slop,
        !.mem.total_space_allocated = @ + min_request + slop,
        !.mem.small_list[pool] =
           Append(@, NewChunk(c, align, 0, n + slop, ALIGN_SIZE - 1, {}))]
  IN  IF min_request > MAX_ALLOC_CHUNK THEN Failed(c, "out of memory")
      ELSE IF pool \notin Pool THEN Failed(c, "bad pool")
      ELSE IF room # {} THEN PlaceSmall(c, pool, Min(room), n)
      ELSE IF slops = {} THEN Failed(c, "out of memory")
      ELSE PlaceSmall(grown, pool, Len(list) + 1, n)

(* One large chunk, which will hold `count` objects of `size` bytes. *)
AllocLarge(c, pool, count, size, align) ==
  LET n == round_up_pow2(count * size, ALIGN_SIZE)
      request == n + Header + ALIGN_SIZE - 1
      fresh == NewChunk(c, align, n, 0, ALIGN_SIZE - 1, {})
      objects == {[off |-> DataOffset(fresh) + k * size, size |-> size] : k \in 0..(count - 1)}
  IN  IF request > MAX_ALLOC_CHUNK THEN Failed(c, "out of memory")
      ELSE IF pool \notin Pool THEN Failed(c, "bad pool")
      ELSE IF ~Gives(c, request) THEN Failed(c, "out of memory")
      ELSE [c EXCEPT
             !.heap = @ + request,
             !.mem.total_space_allocated = @ + request,
             !.mem.large_list[pool] = <<[fresh EXCEPT !.objects = objects]>> \o @]

alloc_large(c, pool, size, align) == AllocLarge(c, pool, 1, size, align)

(* The loop that gives workspace to `rows` rows, a chunk at a time: what   *)
(* the call has come to after n turns of it.                               *)
NextChunk(a, pool, width, rowsperchunk, align) ==
  LET now == Min({a.left, rowsperchunk})
  IN  IF a.left = 0 \/ a.call.exit # "" THEN a
      ELSE [call |-> AllocLarge(a.call, pool, now, width, align), left |-> a.left - now]

Workspace(c, pool, width, rows, rowsperchunk, align) ==
  LET after[n \in 0..rows] ==
        IF n = 0 THEN [call |-> c, left |-> rows]
        ELSE NextChunk(after[n - 1], pool, width, rowsperchunk, align)
  IN  after[rows].call

Alloc2D(c, pool, width, rows, align) ==
  LET most == (MAX_ALLOC_CHUNK - Header) \div width
      vector == alloc_small(c, pool, rows * Pointer, align)
  IN  IF most <= 0 THEN Failed(c, "width overflow")
      ELSE Workspace(vector, pool, width, rows, Min({most, rows}), align)

alloc_sarray(c, pool, samplesperrow, numrows, align) ==
  Alloc2D(c, pool, round_up_pow2(samplesperrow, 2 * ALIGN_SIZE), numrows, align)

(* Blocks are a multiple of ALIGN_SIZE long and are not padded. *)
alloc_barray(c, pool, blocksperrow, numrows, align) ==
  Alloc2D(c, pool, blocksperrow * ALIGN_SIZE, numrows, align)

(* What free() gets for the chunks of a list, and what free_pool takes off *)
(* the books.                                                              *)
Sizes(list) == [i \in DOMAIN list |-> list[i].size]
space_freed(list) ==
  [i \in DOMAIN list |-> list[i].bytes_used + list[i].bytes_left + Header]

WithoutPool(c, pool, freed, returned) ==
  [c EXCEPT !.mem.small_list[pool] = <<>>, !.mem.large_list[pool] = <<>>,
            !.mem.total_space_allocated = @ - freed, !.heap = @ - returned]

free_poolSmall(c, pool) ==  \* mutant: the large objects are forgotten
  LET small == c.mem.small_list[pool]
  IN  WithoutPool(c, pool, Sum(space_freed(small)), Sum(Sizes(small)))

free_pool(c, pool) ==
  LET small == c.mem.small_list[pool]
      large == c.mem.large_list[pool]
  IN  WithoutPool(c, pool, Sum(space_freed(large)) + Sum(space_freed(small)),
                  Sum(Sizes(large)) + Sum(Sizes(small)))

(* The image pool first: its objects may be known to permanent ones. *)
self_destruct(c) ==
  LET rest == free_pool(free_pool(c, JPOOL_IMAGE), JPOOL_PERMANENT)
  IN  [rest EXCEPT !.mem = NoManager, !.heap = @ - Manager]

NoLists == [pool \in Pool |-> <<>>]
jinit_memory_mgr(c) ==
  IF ~Gives(c, Manager) THEN Failed(c, "out of memory")
  ELSE [c EXCEPT !.heap = @ + Manager,
                 !.mem = [small_list |-> NoLists, large_list |-> NoLists,
                          total_space_allocated |-> Manager]]

-----------------------------------------------------------------------------
PoolInit == mem = NoManager /\ limit \in Limits /\ heap = 0 /\ exit = ""

Returns(c) == mem' = c.mem /\ heap' = c.heap /\ exit' = c.exit /\ UNCHANGED limit

AllChunks(m) == m.small_list[0] \o m.small_list[1] \o m.large_list[0] \o m.large_list[1]
Crowded == Len(AllChunks(mem)) > MostChunks \/ mem.total_space_allocated > heap + MostDrift

Create == mem = NoManager /\ Returns(jinit_memory_mgr(Call(NoManager, heap)))
Destroy == mem # NoManager /\ Returns(self_destruct(Call(mem, heap)))
Free == mem # NoManager /\ \E pool \in Pool : Returns(free_pool(Call(mem, heap), pool))

Allocate ==
  /\ mem # NoManager /\ ~Crowded
  /\ \E pool \in Pool, align \in 0..(ALIGN_SIZE - 1) :
       \/ \E n \in ObjectSizes : Returns(alloc_small(Call(mem, heap), pool, n, align))
       \/ \E n \in ObjectSizes : Returns(alloc_large(Call(mem, heap), pool, n, align))
       \/ \E w \in Widths, h \in Heights :
            \/ Returns(alloc_sarray(Call(mem, heap), pool, w, h, align))
            \/ Returns(alloc_barray(Call(mem, heap), pool, w, h, align))

(* Other parts of the process allocate and free. *)
Pressure == limit' \in Limits /\ limit' # limit /\ UNCHANGED <<mem, heap, exit>>

PoolNext == Create \/ Destroy \/ Free \/ Allocate \/ Pressure
PoolSpec == PoolInit /\ [][PoolNext]_poolVars

-----------------------------------------------------------------------------
Chunks ==
  IF mem = NoManager THEN {}
  ELSE UNION {Range(mem.small_list[pool]) \cup Range(mem.large_list[pool]) : pool \in Pool}

(* Every request ends with memory or with one of the errors the manager    *)
(* declares; the lists hold chunks of the form it makes.                   *)
PoolTypeOK ==
  /\ limit \in Limits /\ heap \in Nat
  /\ exit \in {"", "out of memory", "bad pool", "width overflow"}
  /\ mem # NoManager => mem \in Memory

(* jmemmgr.c:239-242: whatever alignment malloc() gives, every object is   *)
(* aligned and lies inside its chunk, behind the header, and no two        *)
(* objects overlap.                                                        *)
ObjectsFit ==
  \A chunk \in Chunks : \A o \in chunk.objects :
    /\ (chunk.align + o.off) % ALIGN_SIZE = 0
    /\ o.off >= Header /\ o.off + o.size <= chunk.size
    /\ \A p \in chunk.objects \ {o} : o.off + o.size <= p.off \/ p.off + p.size <= o.off

PoolSize(m, pool) == Sum(Sizes(m.small_list[pool])) + Sum(Sizes(m.large_list[pool]))
InLists(m) ==
  IF m = NoManager THEN 0
  ELSE Manager + PoolSize(m, JPOOL_PERMANENT) + PoolSize(m, JPOOL_IMAGE)

(* What was obtained is in some list, also after a request has failed      *)
(* half way: freeing the pools gives all of it back.                       *)
NothingLost == heap = InLists(mem)

(* The account may run high (jmemmgr.c:1005 and 1019 leave the alignment   *)
(* space of freed chunks on the books) but never low: the decision how     *)
(* much memory virtual arrays may take is not based on space in use.       *)
AccountCovers == mem # NoManager => mem.total_space_allocated >= heap

(* The books of the manager balance: every byte obtained is in some list   *)
(* and on the account, after whatever sequence of requests, failures and   *)
(* releases (jmemmgr.c:256-480, 960-1065).                                 *)
PoolsBalance ==
  /\ PoolTypeOK
  /\ NothingLost
  /\ AccountCovers
=============================================================================
