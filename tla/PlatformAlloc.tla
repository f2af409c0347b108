------------------------------ MODULE PlatformAlloc ------------------------------
(***************************************************************************)
(* The heap of the Rust code on the ESP32-C3: the global allocator of      *)
(* src/src/allocator.rs over rustscript_platform_alloc and                 *)
(* rustscript_platform_dealloc (src/firmware/main.cpp), which take aligned *)
(* blocks out of larger ones of malloc and keep malloc's pointer in the    *)
(* word before them.  Reallocating is allocating, copying and freeing.     *)
(***************************************************************************)
EXTENDS Integers, FiniteSets

CONSTANTS
    Memory,     \* addresses are 1..Memory - 1, and Memory is 2^w of a size_t
    Word,       \* sizeof(void *)
    MaxAlign,   \* alignof(std::max_align_t)
    Sizes, Aligns, \* of the layouts asked for
    MaxBlocks   \* bound: blocks the program holds at a time

ASSUME MemoryAssumption ==
    /\ Memory \in Nat /\ Word \in Nat \ {0} /\ MaxAlign \in Nat \ {0}
    /\ 2 * (Word + 1) <= Memory
    /\ MaxBlocks \in Nat
ASSUME LayoutAssumption == Sizes \subseteq 0..(Memory - 1) /\ Aligns \subseteq 1..(Memory - 1)

IsPowerOfTwo(n) == \E k \in 0..n : n = 2^k

\* What follows for an alignment from Memory and MaxAlign being powers of two
\* themselves: a smaller power is at most one half, and divides.
ASSUME PowersAssumption ==
    \A a \in Aligns : IsPowerOfTwo(a) =>
        /\ 2 * a <= Memory
        /\ a <= MaxAlign => MaxAlign % a = 0

VARIABLES
    raws,    \* the blocks of malloc that are in use: [at, len]
    word,    \* what is in memory where a pointer was stored: 0 if it has been
             \* overwritten since
    blocks   \* what the program holds: [ptr, size, align]

heapVars == <<raws, word, blocks>>

Null == 0
Span(a, n) == a..(a + n - 1)

\* Arithmetic on size_t wraps around.
W(n) == n % Memory

HeapInit ==
    /\ raws = {}
    /\ word = [a \in 1..(Memory - 1) |-> Null]
    /\ blocks = {}

-----------------------------------------------------------------------------
(* malloc and free *)

\* What malloc(n) may return, other than null.
FreeFor(n) ==
    {a \in 1..(Memory - 1) :
        /\ a % MaxAlign = 0
        /\ a + n <= Memory
        /\ \A r \in raws : Span(a, n) \intersect Span(r.at, r.len) = {}}

\* The memory of a block is overwritten, by its owner, or by the heap once it
\* is free.
Overwrite(at, len) ==
    word' = [a \in DOMAIN word |->
               IF Span(a, Word) \intersect Span(at, len) # {} THEN Null ELSE word[a]]

-----------------------------------------------------------------------------
(* rustscript_platform_alloc *)

Valid(size, align) == size # 0 /\ align # 0 /\ IsPowerOfTwo(align)

\* malloc aligns well enough.
AllocPlain(size, align) ==
    /\ Valid(size, align) /\ align <= MaxAlign
    /\ \E raw \in FreeFor(size) :
          /\ raws' = raws \union {[at |-> raw, len |-> size]}
          /\ blocks' = blocks \union {[ptr |-> raw, size |-> size, align |-> align]}
    /\ UNCHANGED word

\* Mutant: the limit is not checked.
TooLargeNever(size, align) == FALSE

TooLarge(size, align) == size > W(Memory - 1 - align - Word)

\* Mutant: no room for the pointer.
RawSizeNoWord(size, align) == W(size + align - 1)

RawSize(size, align) == W(size + align - 1 + Word)

\* Mutant: rounds down.
RoundedDown(start, align) == start - (start % align)

\* (start + align - 1) & ~(align - 1)
Rounded(start, align) == W(start + align - 1) - (W(start + align - 1) % align)

AllocAligned(size, align) ==
    /\ Valid(size, align) /\ align > MaxAlign
    /\ ~TooLarge(size, align)
    /\ \E raw \in FreeFor(RawSize(size, align)) :
          LET p == Rounded(W(raw + Word), align)
          IN  /\ raws' = raws \union {[at |-> raw, len |-> RawSize(size, align)]}
              /\ word' = [word EXCEPT ![p - Word] = raw]
              /\ blocks' = blocks \union {[ptr |-> p, size |-> size, align |-> align]}

Alloc ==
    /\ Cardinality(blocks) < MaxBlocks
    /\ \E size \in Sizes, align \in Aligns :
          AllocPlain(size, align) \/ AllocAligned(size, align)

\* The program writes to all of a block.
Write ==
    \E b \in blocks : Overwrite(b.ptr, b.size) /\ UNCHANGED <<raws, blocks>>

\* Mutant: the pointer is always taken from the word before the block.
RawOfAlways(b) == word[b.ptr - Word]

\* The pointer that rustscript_platform_dealloc hands to free.
RawOf(b) == IF b.align <= MaxAlign THEN b.ptr ELSE word[b.ptr - Word]

\* free of any other pointer than one of malloc is undefined: this step is not
\* taken then, and DeallocFreesItsOwn says that it always can be.
Dealloc ==
    \E b \in blocks, r \in raws :
        /\ r.at = RawOf(b)
        /\ raws' = raws \ {r}
        /\ blocks' = blocks \ {b}
        /\ Overwrite(r.at, r.len)

HeapNext == Alloc \/ Write \/ Dealloc

HeapSpec == HeapInit /\ [][HeapNext]_heapVars

-----------------------------------------------------------------------------
(* Properties *)

\* The program's blocks are aligned as asked for, in memory that malloc gave,
\* and apart from each other.
BlocksUsable ==
    /\ \A b \in blocks :
          /\ b.ptr % b.align = 0
          /\ \E r \in raws : Span(b.ptr, b.size) \subseteq Span(r.at, r.len)
    /\ \A b, c \in blocks :
          b # c => Span(b.ptr, b.size) \intersect Span(c.ptr, c.size) = {}

\* Whatever the program has written to its blocks, dealloc frees the block of
\* malloc that its block is in: nothing is freed twice, under another block, or
\* never.
DeallocFreesItsOwn ==
    /\ \A b \in blocks :
          \E r \in raws : r.at = RawOf(b) /\ b.ptr \in Span(r.at, r.len)
    /\ Cardinality(raws) = Cardinality(blocks)

=============================================================================
