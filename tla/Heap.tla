-------------------------------- MODULE Heap --------------------------------
(***************************************************************************)
(* The allocator of the kernel and of the programs: Doug Lea's malloc      *)
(* (shared/malloc.c), the guards that mem_alloc and mem_free put around a   *)
(* block, and the sbrk of kernel/mem.c and of user/lib/sbrk.c, which only  *)
(* moves forward.  HAVE_MMAP is 0, and nothing else calls sbrk, so that    *)
(* the memory is one contiguous stretch.                                   *)
(*                                                                         *)
(* Addresses and sizes of chunks are in words of 4 bytes; what a caller    *)
(* asks for is in bytes, modulo MODULUS.  The thresholds of malloc.c are    *)
(* constants, so that a small heap meets all of them.                      *)
(*                                                                         *)
(* The state of the memory is what the allocator keeps there: `head' are   *)
(* the size fields with their PREV_INUSE bits, at the chunk's address, and  *)
(* `foot' the prev_size fields that are in force.  A size field claims the *)
(* words of its chunk: what was written there before is lost.  Hence a     *)
(* field that is read without being there is an error of the evaluation.   *)
(***************************************************************************)
EXTENDS Integers, FiniteSets, Sequences, FiniteSetsExt, SequencesExt, Functions, TLC

CONSTANTS
  MODULUS,         \* 2^32: the values of size_t
  HEAP_START,      \* mem_heap, of any alignment
  HEAP_END,        \* mem_heap_end, or the end of the heap of a program
  PAGE,            \* pagesize (1024 words)
  MAX_FAST,        \* max_fast (18 words)
  MIN_LARGE_SIZE,  \* the smallest large chunk (64 words)
  LARGE_DOUBLINGS, \* the doublings of MIN_LARGE_SIZE that have bins (16)
  CONSOLIDATION_THRESHOLD, \* FASTBIN_CONSOLIDATION_THRESHOLD (2^15 words)
  TRIM_THRESHOLD,  \* trim_threshold (2^16 words)
  Lengths,         \* the lengths asked of mem_alloc, in bytes
  Requests,        \* the lengths asked of malloc and realloc, in bytes
  Alignments,      \* the alignments asked of memalign, in words
  MaxAsked         \* bound: the calls that ask for memory

ASSUME HeapAssumption ==
  /\ {MODULUS, HEAP_START, HEAP_END, PAGE, MAX_FAST, MIN_LARGE_SIZE,
      LARGE_DOUBLINGS, MaxAsked} \subseteq Nat \ {0}
  /\ PAGE % 2 = 0 /\ HEAP_START < HEAP_END
  /\ \E n \in 3 .. 10 : MIN_LARGE_SIZE = 2^n
  /\ MAX_FAST % 2 = 0 /\ MAX_FAST < MIN_LARGE_SIZE
  /\ Lengths \subseteq 0 .. MODULUS - 1 /\ Requests \subseteq 1 .. MODULUS - 1
  /\ \A a \in Alignments : \E n \in 1 .. 10 : a = 2^n

VARIABLES
  heap,    \* malloc_state, the fields of the chunks and the break
  live,    \* the blocks in use: their chunks, and what their owners asked
  want,    \* the chunk that the last call found neither in a bin nor on top:
           \* its size, or 0
  asked,   \* how many calls have asked for memory
  bug      \* mem_free found a guard overwritten and stopped the program

heapVars == <<heap, live, want, asked, bug>>

-----------------------------------------------------------------------------
\* Chunks (malloc.c:1864-2107).

SIZE_SZ == 1
MINSIZE == 4
NULLCHUNK == 0

REQUEST_OUT_OF_RANGE(bytes) == bytes >= MODULUS - 2 * 4 * MINSIZE

\* The words of the chunk for a request: the data, one word for the size, an
\* even number in all; the last word may lie in the next chunk's prev_size.
request2size(bytes) == Max({MINSIZE, 2 * ((bytes + 11) \div 8)})

chunksize(m, p) == IF p = NULLCHUNK THEN 0 ELSE m.head[p].size
prev_inuse(m, p) == m.head[p].prev_inuse
next_chunk(m, p) == p + chunksize(m, p)
prev_chunk(m, p) == p - m.foot[p]
inuse(m, p) == prev_inuse(m, next_chunk(m, p))

\* The size field of p is written, and with it the chunk takes its words.
set_head(m, p, size, bit) ==
  LET inside == p + 1 .. p + size - 1
  IN  [m EXCEPT
        !.head = (p :> [size |-> size, prev_inuse |-> bit])
                   @@ Restrict(@, DOMAIN @ \ inside),
        !.foot = Restrict(@, DOMAIN @ \ inside)]

set_head_size(m, p, size) == set_head(m, p, size, prev_inuse(m, p))

set_inuse_at(m, p) == [m EXCEPT !.head[p].prev_inuse = TRUE]

set_foot(m, p, size) == [m EXCEPT !.foot = (p + size :> size) @@ @]

\* The chunk goes to a caller, whose data may fill the next prev_size.
Give(m, p) ==
  [m |-> [m EXCEPT !.foot = Restrict(@, DOMAIN @ \ {next_chunk(m, p)})],
   p |-> p]

Nothing(m) == [m |-> m, p |-> NULLCHUNK]

-----------------------------------------------------------------------------
\* Bins (malloc.c:2111-2400): lists of free chunks, first(b) at the head.

NSMALLBINS == MIN_LARGE_SIZE \div 2
NBINS == NSMALLBINS + 4 * LARGE_DOUBLINGS

in_smallbin_range(size) == size < MIN_LARGE_SIZE

\* The highest bit of the size and the two bits below it name the bin.
largebin_index(size) ==
  LET x == size \div MIN_LARGE_SIZE
      m == CHOOSE n \in 0 .. LARGE_DOUBLINGS : 2^n <= x /\ x < 2^(n+1)
  IN  IF x >= 2^LARGE_DOUBLINGS THEN NBINS - 1
      ELSE NSMALLBINS + 4 * m + (((4 * size) \div (MIN_LARGE_SIZE * 2^m)) % 4)

bin_index(size) ==
  IF in_smallbin_range(size) THEN size \div 2 ELSE largebin_index(size)

fastbin_index(size) == size \div 2 - 2

Unsorted == 1

unlink(m, p) == [m EXCEPT !.bins = [i \in DOMAIN @ |-> Remove(@[i], p)]]

AddUnsorted(m, p) == [m EXCEPT !.bins[Unsorted] = <<p>> \o @]

-----------------------------------------------------------------------------
\* free and malloc_consolidate.

malloc_init_state ==
  [head |-> <<>>, foot |-> <<>>,
   fast |-> [i \in 0 .. fastbin_index(MAX_FAST) |-> <<>>],
   bins |-> [i \in 1 .. NBINS - 1 |-> <<>>], binmap |-> {},
   anychunks |-> FALSE, fastchunks |-> FALSE,
   top |-> NULLCHUNK, last_remainder |-> NULLCHUNK,
   brk |-> HEAP_START, sbrked |-> 0]

\* Mutant: a chunk keeps saying that the one before it is in use.
MarkFreeNot(m, next) == m

MarkFree(m, next) == [m EXCEPT !.head[next].prev_inuse = FALSE]

\* A free neighbour on either side joins the chunk, which goes to the
\* unsorted list or becomes the top.
Coalesce(m, p) ==
  LET next == next_chunk(m, p)
      low  == IF prev_inuse(m, p) THEN p ELSE prev_chunk(m, p)
      m1   == IF low = p THEN m ELSE unlink(m, low)
      joinsNext == next = m.top \/ ~ inuse(m, next)
      size == (next - low) + (IF joinsNext THEN chunksize(m, next) ELSE 0)
  IN  [size |-> size,
       m |-> IF next = m.top
             THEN [set_head(m1, low, size, TRUE) EXCEPT !.top = low]
             ELSE LET m2 == IF joinsNext THEN unlink(m1, next)
                            ELSE MarkFree(m1, next)
                  IN  set_foot(AddUnsorted(set_head(m2, low, size, TRUE), low),
                               low, size)]

\* All fast chunks are freed in earnest, bin by bin.
malloc_consolidate(m) ==
  FoldLeft(LAMBDA acc, p : Coalesce(acc, p).m,
           [m EXCEPT !.fastchunks = FALSE, !.fast = [i \in DOMAIN @ |-> <<>>]],
           FlattenSeq([i \in 1 .. fastbin_index(MAX_FAST) + 1 |-> m.fast[i-1]]))

\* kernel/mem.c and user/lib/sbrk.c: the break never moves back.
SbrkRefuses(m, diff) == diff < 0 \/ m.brk + diff > HEAP_END
sbrk(m, diff) == IF SbrkRefuses(m, diff) THEN m ELSE [m EXCEPT !.brk = @ + diff]

PageUp(n) == ((n + PAGE - 1) \div PAGE) * PAGE

\* What remains on top is offered back to sbrk, which does not take it.
sYSTRIm(m, pad) ==
  LET size  == chunksize(m, m.top)
      extra == ((size - pad - MINSIZE + PAGE - 1) \div PAGE - 1) * PAGE
      after == sbrk(m, 0 - extra)
      released == m.brk - after.brk
  IN  IF extra > 0 /\ m.brk = m.top + size /\ released # 0
      THEN [set_head(after, m.top, size - released, TRUE) EXCEPT !.sbrked = @ - released]
      ELSE m

TrimIfLarge(m) ==
  IF chunksize(m, m.top) >= TRIM_THRESHOLD THEN sYSTRIm(m, 0) ELSE m

\* c is the chunk with its neighbours, as Coalesce has left it.
FreedLarge(c) ==
  IF c.size < CONSOLIDATION_THRESHOLD THEN c.m
  ELSE TrimIfLarge(IF c.m.fastchunks THEN malloc_consolidate(c.m) ELSE c.m)

fREe(m, p) ==
  LET size == chunksize(m, p)
  IN  IF size <= MAX_FAST
      THEN [m EXCEPT !.fastchunks = TRUE, !.anychunks = TRUE,
                     !.fast[fastbin_index(size)] = <<p>> \o @]
      ELSE FreedLarge(Coalesce([m EXCEPT !.anychunks = TRUE], p))

-----------------------------------------------------------------------------
\* malloc.

\* The front of a free chunk goes to the caller; what remains is the only
\* unsorted chunk.
Split(m, p, nb) ==
  LET rest == p + nb
      size == chunksize(m, p) - nb
      m1   == set_head(set_head(m, p, nb, TRUE), rest, size, TRUE)
  IN  Give([set_foot(m1, rest, size) EXCEPT !.bins[Unsorted] = <<rest>>], p)

\* A chunk that is in no list any more is used whole, or split.
TakeBinned(m, p, nb) ==
  IF chunksize(m, p) - nb < MINSIZE
  THEN Give(set_inuse_at(m, next_chunk(m, p)), p)
  ELSE Split(m, p, nb)

\* Large bins are sorted, the largest chunk first; a chunk as small as the
\* smallest comes last.
PlaceInBin(m, p) ==
  LET size  == chunksize(m, p)
      i     == bin_index(size)
      bin   == m.bins[i]
      place == IF in_smallbin_range(size) \/ bin = <<>> THEN 1
               ELSE IF size <= chunksize(m, Last(bin)) THEN Len(bin) + 1
               ELSE SelectInSeq(bin, LAMBDA q : chunksize(m, q) <= size)
  IN  [m EXCEPT !.bins[i] = InsertAt(bin, place, p), !.binmap = @ \cup {i}]

\* The unsorted chunks, oldest first: one that fits exactly is taken, the
\* others are placed in bins.  A small request may split the last remainder.
RECURSIVE TakeUnsorted(_, _)
TakeUnsorted(m, nb) ==
  LET p    == Last(m.bins[Unsorted])
      size == chunksize(m, p)
      m1   == [m EXCEPT !.bins[Unsorted] = Front(@)]
  IN  IF m.bins[Unsorted] = <<>> THEN Nothing(m)
      ELSE IF /\ in_smallbin_range(nb) /\ m1.bins[Unsorted] = <<>>
              /\ p = m.last_remainder /\ size > nb + MINSIZE
           THEN Split([m EXCEPT !.last_remainder = p + nb], p, nb)
      ELSE IF size = nb THEN Give(set_inuse_at(m1, next_chunk(m, p)), p)
      ELSE TakeUnsorted(PlaceInBin(m1, p), nb)

\* The smallest chunk of the request's own large bin that is large enough.
TakeLarge(m, nb) ==
  LET bin == m.bins[largebin_index(nb)]
      at  == SelectLastInSeq(bin, LAMBDA q : chunksize(m, q) >= nb)
  IN  IF in_smallbin_range(nb) \/ at = 0 THEN Nothing(m)
      ELSE TakeBinned(unlink(m, bin[at]), bin[at], nb)

\* The last chunk of the next bin that has any; bins that binmap wrongly
\* names on the way are struck out.
TakeLarger(m, nb) ==
  LET marked == {i \in m.binmap : i > bin_index(nb)}
      full   == {i \in marked : m.bins[i] # <<>>}
      i      == Min(full)
      p      == Last(m.bins[i])
      m1     == [m EXCEPT !.binmap = @ \ {j \in marked : full = {} \/ j < i}]
      taken  == TakeBinned([m1 EXCEPT !.bins[i] = Front(@)], p, nb)
  IN  IF full = {} THEN Nothing(m1)
      ELSE IF in_smallbin_range(nb) /\ chunksize(m, p) - nb >= MINSIZE
      THEN [taken EXCEPT !.m.last_remainder = p + nb]
      ELSE taken

use_top(m, nb) ==
  LET size == chunksize(m, m.top)
      p    == m.top
      m1   == set_head(set_head(m, p, nb, TRUE), p + nb, size - nb, TRUE)
  IN  IF size < nb + MINSIZE THEN Nothing(m)
      ELSE Give([m1 EXCEPT !.top = p + nb], p)

\* Each search in its turn, in the memory that the one before has left.
TakeFast(m, nb) ==
  LET i == fastbin_index(nb)
  IN  IF nb > MAX_FAST \/ m.fast[i] = <<>> THEN Nothing(m)
      ELSE Give([m EXCEPT !.fast[i] = Tail(@)], Head(m.fast[i]))

TakeSmall(m, nb) ==
  LET i == bin_index(nb)
      p == Last(m.bins[i])
  IN  IF ~ in_smallbin_range(nb) \/ m.bins[i] = <<>> THEN Nothing(m)
      ELSE Give(set_inuse_at([m EXCEPT !.bins[i] = Front(@)], p + nb), p)

Else(taken, Search(_, _), nb) ==
  IF taken.p # NULLCHUNK THEN taken ELSE Search(taken.m, nb)

ConsolidateForLarge(m, nb) ==
  Nothing(IF ~ in_smallbin_range(nb) /\ m.fastchunks
          THEN malloc_consolidate(m) ELSE m)

FromBins(m, nb) ==
  LET a == Else(TakeFast(m, nb), TakeSmall, nb)
      b == Else(Else(a, ConsolidateForLarge, nb), TakeUnsorted, nb)
  IN  Else(Else(b, TakeLarge, nb), TakeLarger, nb)

\* More memory: as much as the request needs beyond the top, in pages; the
\* first time also what aligns the start and the end.
GrowTop(m, nb) ==
  LET old   == chunksize(m, m.top)
      size  == PageUp(nb + MINSIZE - old)
      m1    == [sbrk(m, size) EXCEPT !.sbrked = @ + size]
      front == m.brk % 2
      extra == PageUp(m1.brk + front) - m1.brk
      more  == IF SbrkRefuses(m1, extra) THEN 0 ELSE extra
      m2    == [sbrk(m1, more) EXCEPT !.sbrked = @ + more, !.top = m.brk + front]
  IN  IF SbrkRefuses(m, size) THEN m
      ELSE IF m.top # NULLCHUNK THEN set_head(m1, m.top, size + old, TRUE)
      ELSE set_head(m2, m2.top, m2.brk - m2.top, TRUE)

sYSMALLOc(m, nb) == use_top(GrowTop(m, nb), nb)

\* With no free chunk anywhere the top serves.  Before more memory is asked
\* for, the fast chunks are consolidated and the search starts again.
Search(m, nb) ==
  LET found == IF m.anychunks THEN FromBins(m, nb) ELSE Nothing(m)
  IN  Else(found, use_top, nb)

\* Mutant: memory is asked for while there are fast chunks.
mALLOcWithoutRetry(m, nb) == Else(Search(m, nb), sYSMALLOc, nb)

mALLOc(m, nb) ==
  LET Retry(m1, n) == IF m1.fastchunks THEN Search(malloc_consolidate(m1), n)
                      ELSE Nothing(m1)
  IN  Else(Else(Search(m, nb), Retry, nb), sYSMALLOc, nb)

-----------------------------------------------------------------------------
\* realloc and memalign.

\* What the chunk at p, of `size' words, has beyond nb is freed if it can be
\* a chunk of its own.
SettleTail(m, p, size, nb) ==
  LET whole == set_inuse_at(set_head_size(m, p, size), p + size)
      apart == set_head(set_head_size(whole, p, nb), p + nb, size - nb, TRUE)
  IN  Give(IF size - nb < MINSIZE THEN whole ELSE fREe(apart, p + nb), p)

\* A new chunk was asked for; it may be the next one, that joins the old.
MovedTo(moved, p, size, nb) ==
  IF moved.p = NULLCHUNK THEN moved
  ELSE IF moved.p = p + size
  THEN SettleTail(moved.m, p, size + chunksize(moved.m, moved.p), nb)
  ELSE Give(fREe(moved.m, p), moved.p)

rEALLOc(m, p, nb) ==
  LET size  == chunksize(m, p)
      next  == next_chunk(m, p)
      both  == size + chunksize(m, next)
  IN  IF size >= nb THEN SettleTail(m, p, size, nb)
      ELSE IF next = m.top /\ both >= nb + MINSIZE
      THEN Give([set_head(set_head_size(m, p, nb), p + nb, both - nb, TRUE)
                   EXCEPT !.top = p + nb], p)
      ELSE IF next # m.top /\ ~ inuse(m, next) /\ both >= nb
      THEN SettleTail(unlink(m, next), p, both, nb)
      ELSE MovedTo(mALLOc(m, nb), p, size, nb)

\* The aligned place in a chunk at p that leaves room for a chunk before it.
AlignedPlace(p, al) ==
  LET place == ((p + 2 + al - 1) \div al) * al - 2
  IN  IF (p + 2) % al = 0 THEN p
      ELSE IF place - p < MINSIZE THEN place + al ELSE place

\* What lies before `at' in the chunk at p, and what lies behind it, is freed.
FreeBefore(m, p, at, size) ==
  LET m1 == set_inuse_at(set_head(m, at, size, TRUE), at + size)
  IN  IF at = p THEN m ELSE fREe(set_head_size(m1, p, at - p), p)

FreeBehind(m, at, size, nb) ==
  IF size > nb + MINSIZE
  THEN fREe(set_head(set_head_size(m, at, nb), at + nb, size - nb, TRUE), at + nb)
  ELSE m

AlignedIn(m, p, at, nb) ==
  LET size == chunksize(m, p) - (at - p)
  IN  Give(FreeBehind(FreeBefore(m, p, at, size), at, size, nb), at)

AlignedChunk(got, al, nb) ==
  IF got.p = NULLCHUNK THEN got
  ELSE AlignedIn(got.m, got.p, AlignedPlace(got.p, al), nb)

\* memalign asks for room to move the block to an aligned place.
PaddedBytes(alignment, bytes) ==
  IF alignment <= 2 THEN bytes
  ELSE (4 * (request2size(bytes) + Max({alignment, MINSIZE}) + MINSIZE)) % MODULUS

mEMALIGn(m, alignment, bytes) ==
  LET got == mALLOc(m, request2size(PaddedBytes(alignment, bytes)))
  IN  IF alignment <= 2 THEN got
      ELSE AlignedChunk(got, Max({alignment, MINSIZE}), request2size(bytes))

-----------------------------------------------------------------------------
\* The calls.

\* The words between the guards, and the two words of the guards on each side.
GuardedWords(length) == (length + 3) \div 4 + 4

\* mem_alloc computes them modulo MODULUS, and refuses what wraps.
GuardedBytes(length) == (4 * (((length + 3) % MODULUS) \div 4 + 4)) % MODULUS

\* Mutant: what wraps is not noticed.
LengthNeverRefused(length) == FALSE

LengthRefused(length) == GuardedBytes(length) <= length

Block(length, guarded) == [length |-> length, guarded |-> guarded]

\* The words that the owner of a block relies on.
WordsOf(p, b) ==
  LET n == IF b.guarded THEN GuardedWords(b.length) ELSE (b.length + 3) \div 4
  IN  p + 2 .. p + 1 + n

\* Where the allocator keeps its own data.
ListedChunks == UNION {Range(heap.bins[i]) : i \in DOMAIN heap.bins}
FastChunks == UNION {Range(heap.fast[i]) : i \in DOMAIN heap.fast}
WordsOfAllocator ==
  UNION { {p + 1 : p \in DOMAIN heap.head}, DOMAIN heap.foot,
          {p + 2 : p \in ListedChunks \cup FastChunks},
          {p + 3 : p \in ListedChunks} }

GuardsHold(p) == WordsOf(p, live[p]) \cap WordsOfAllocator = {}

\* A call ends with a chunk, or with NULL for want of memory.
Obtained(got, nb, rest, b) ==
  /\ heap' = got.m
  /\ live' = IF got.p = NULLCHUNK THEN live ELSE (got.p :> b) @@ rest
  /\ want' = IF got.p = NULLCHUNK \/ got.m.brk # heap.brk THEN nb ELSE 0
  /\ UNCHANGED bug

\* Bound.
Asks == ~ bug /\ asked < MaxAsked /\ asked' = asked + 1

\* NULL for a length that the words and guards around it would wrap.
Refused == want' = 0 /\ UNCHANGED <<heap, live, bug>>

MemAlloc(length) ==
  LET bytes == GuardedBytes(length)
      nb    == request2size(bytes)
  IN  /\ Asks
      /\ IF length = 0 \/ LengthRefused(length) \/ REQUEST_OUT_OF_RANGE(bytes)
         THEN Refused
         ELSE Obtained(mALLOc(heap, nb), nb, live, Block(length, TRUE))

MemFree(p) ==
  /\ ~ bug /\ live[p].guarded
  /\ bug' = ~ GuardsHold(p)
  /\ IF bug' THEN UNCHANGED <<heap, live>>
     ELSE /\ heap' = fREe(heap, p)
          /\ live' = Restrict(live, DOMAIN live \ {p})
  /\ want' = 0 /\ UNCHANGED asked

Malloc(bytes) ==
  /\ Asks
  /\ IF REQUEST_OUT_OF_RANGE(bytes) THEN Refused
     ELSE Obtained(mALLOc(heap, request2size(bytes)), request2size(bytes),
                   live, Block(bytes, FALSE))

Free(p) ==
  /\ ~ bug /\ ~ live[p].guarded
  /\ heap' = fREe(heap, p)
  /\ live' = Restrict(live, DOMAIN live \ {p})
  /\ want' = 0 /\ UNCHANGED <<asked, bug>>

Realloc(p, bytes) ==
  /\ Asks /\ ~ live[p].guarded
  /\ IF REQUEST_OUT_OF_RANGE(bytes) THEN Refused
     ELSE Obtained(rEALLOc(heap, p, request2size(bytes)), request2size(bytes),
                   Restrict(live, DOMAIN live \ {p}), Block(bytes, FALSE))

Memalign(alignment, bytes) ==
  LET padded == PaddedBytes(alignment, bytes)
  IN  /\ Asks
      /\ IF \E n \in {bytes, padded} : REQUEST_OUT_OF_RANGE(n) THEN Refused
         ELSE Obtained(mEMALIGn(heap, alignment, bytes), request2size(padded),
                       live, Block(bytes, FALSE))

MTrim ==
  /\ ~ bug
  /\ heap' = sYSTRIm(malloc_consolidate(heap), 0)
  /\ want' = 0 /\ UNCHANGED <<live, asked, bug>>

HeapInit ==
  heap = malloc_init_state /\ live = <<>> /\ want = 0 /\ asked = 0 /\ bug = FALSE

HeapNext ==
  \/ \E length \in Lengths : MemAlloc(length)
  \/ \E p \in DOMAIN live : MemFree(p) \/ Free(p)
  \/ \E bytes \in Requests : Malloc(bytes)
  \/ \E p \in DOMAIN live, bytes \in Requests : Realloc(p, bytes)
  \/ \E alignment \in Alignments, bytes \in Requests : Memalign(alignment, bytes)
  \/ MTrim

HeapSpec == HeapInit /\ [][HeapNext]_heapVars

-----------------------------------------------------------------------------
\* What malloc.c checks when it is compiled with DEBUG.

CheckChunk(p) ==
  LET end == next_chunk(heap, heap.top)
  IN  IF p = heap.top THEN chunksize(heap, p) >= MINSIZE /\ prev_inuse(heap, p)
      ELSE p >= end - heap.sbrked /\ next_chunk(heap, p) <= heap.top

CheckFreeChunk(p) ==
  LET size == chunksize(heap, p)
      next == next_chunk(heap, p)
  IN  /\ CheckChunk(p) /\ ~ inuse(heap, p)
      /\ size % 2 = 0 /\ size >= MINSIZE /\ p % 2 = 0
      /\ next \in DOMAIN heap.foot /\ heap.foot[next] = size
      /\ prev_inuse(heap, p)
      /\ next = heap.top \/ inuse(heap, next)

CheckInuseChunk(p) ==
  LET next == next_chunk(heap, p)
  IN  /\ CheckChunk(p) /\ inuse(heap, p)
      /\ ~ prev_inuse(heap, p) =>
           /\ p \in DOMAIN heap.foot
           /\ next_chunk(heap, prev_chunk(heap, p)) = p
           /\ CheckFreeChunk(prev_chunk(heap, p))
      /\ IF next = heap.top THEN CheckChunk(next)
         ELSE ~ inuse(heap, next) => CheckFreeChunk(next)

CheckFastBins ==
  /\ \A i \in DOMAIN heap.fast : \A p \in Range(heap.fast[i]) :
       CheckInuseChunk(p) /\ fastbin_index(chunksize(heap, p)) = i
  /\ FastChunks # {} => heap.fastchunks

CheckBin(i) ==
  LET bin == heap.bins[i]
  IN  /\ i # Unsorted /\ bin # <<>> => i \in heap.binmap
      /\ \A n \in DOMAIN bin :
           /\ CheckFreeChunk(bin[n])
           /\ i # Unsorted =>
                /\ bin_index(chunksize(heap, bin[n])) = i
                /\ n > 1 => chunksize(heap, bin[n-1]) >= chunksize(heap, bin[n])

CheckMallocState ==
  heap.top # NULLCHUNK =>
    CheckFastBins /\ CheckChunk(heap.top) /\ \A i \in DOMAIN heap.bins : CheckBin(i)

-----------------------------------------------------------------------------
(* The assertions of malloc.c hold after every call (malloc.c:2567-2865):  *)
(* sizes are repeated at the ends of free chunks, no two free chunks are   *)
(* neighbours, bins are sorted, complete and recorded in binmap.  So do    *)
(* those of the chunks that callers hold (malloc.c:2657).                  *)
TagsAndBinsAgree ==
  CheckMallocState /\ \A p \in DOMAIN live : CheckInuseChunk(p)

(* Every word between mem_heap and the break is in exactly one chunk, and  *)
(* every chunk in exactly one place: with a caller, in one list, once, or  *)
(* on top.  Nothing leaks and nothing is listed twice (malloc.c:3425-3720).*)
EveryChunkHasOnePlace ==
  LET chunks == DOMAIN heap.head
      lists  == FlattenSeq(heap.bins) \o
                FlattenSeq([i \in 1 .. Cardinality(DOMAIN heap.fast) |-> heap.fast[i-1]])
      places == Len(lists) + Cardinality(DOMAIN live) + 1
  IN  heap.top # NULLCHUNK =>
        /\ chunks = Range(lists) \cup DOMAIN live \cup {heap.top}
        /\ Cardinality(chunks) = places
        /\ Min(chunks) = HEAP_START + (HEAP_START % 2)
        /\ \A p \in chunks : IF p = heap.top THEN next_chunk(heap, p) = heap.brk
                             ELSE next_chunk(heap, p) \in chunks

(* A block in use has all the words that its owner asked for, in its own   *)
(* chunk, and the allocator keeps nothing there: the guards of mem_alloc   *)
(* never stop a program that frees what it has (malloc.c:5624-5627).       *)
GuardsNeverStop ==
  /\ ~ bug
  /\ \A p \in DOMAIN live :
       /\ GuardsHold(p)
       /\ WordsOf(p, live[p]) \subseteq p + 2 .. next_chunk(heap, p)

(* What the debug build asserts after every call, and what its assertions  *)
(* leave out: no chunk is lost or listed twice, no guard is overwritten.   *)
HeapIsSound == TagsAndBinsAgree /\ EveryChunkHasOnePlace /\ GuardsNeverStop

Blocks == {p + 2 .. p + 1 + n : p \in HEAP_START .. HEAP_END, n \in
             {GuardedWords(l) : l \in Lengths} \cup {(r + 3) \div 4 : r \in Requests}}

Memory == INSTANCE Allocator
  WITH Words <- HEAP_START .. HEAP_END - 1,
       owned <- {WordsOf(p, live[p]) : p \in DOMAIN live}

(* To its callers the heap is an allocator: no two blocks share a word,    *)
(* whatever was split, merged, moved or refused before (mem.h).            *)
IsAnAllocator == Memory!AllocatorSpec

(* The break moves, or a call fails, only when no free chunk is large      *)
(* enough and none waits in a fast bin (a realloc may free what it leaves  *)
(* after that); and a call fails only when what is left of the heap is     *)
(* less than the request in pages (malloc.c:2909 and :3583, mem.c:20).     *)
GrowsOnlyWhenNothingFits ==
  [][LET Resized == \E p \in DOMAIN live : p \notin DOMAIN live' \/ live'[p] # live[p]
     IN  want' # 0 =>
           /\ ~ Resized => \A p \in FastChunks' \cup ListedChunks' :
                             p < heap.top => /\ p \notin FastChunks'
                                             /\ heap'.head[p].size < want'
           /\ heap'.brk = heap.brk => HEAP_END - heap.brk < PageUp(want' + MINSIZE)
    ]_heapVars
=============================================================================
