--------------------------------- MODULE Heap ---------------------------------
(***************************************************************************)
(* malloc and free of bsp/libwrap/stdlib/malloc.c: the FreeRTOS heap_2     *)
(* allocator (best fit over a list of free blocks kept in order of size,   *)
(* blocks split but never merged), with a colour given to every allocation *)
(* by tagging the words of its payload.                                    *)
(*                                                                         *)
(* Addresses are bytes from the aligned start of ucHeap. The list that is  *)
(* chained through the blocks from xStart to xEnd is the sequence of the   *)
(* addresses of its blocks; xEnd itself is the end of the sequence.        *)
(***************************************************************************)
EXTENDS Integers, Sequences, FiniteSets, SequencesExt, FiniteSetsExt

CONSTANTS
    Align,      \* portBYTE_ALIGNMENT: the bytes of a word and of a pointer
    HeapSize,   \* configADJUSTED_HEAP_SIZE
    SizeMax,    \* the largest size_t
    MaxColors,  \* MAX_COLORS
    Requests    \* the sizes the program asks malloc for

ASSUME AlignAssumption    == Align \in Nat \ {0}
ASSUME HeapSizeAssumption == HeapSize \in Nat /\ HeapSize % Align = 0 /\ HeapSize >= 2 * Align
ASSUME SizeMaxAssumption  == SizeMax \in Nat /\ HeapSize <= SizeMax
ASSUME ColorsAssumption   == MaxColors \in Nat \ {0}
ASSUME RequestsAssumption == Requests \subseteq 0 .. SizeMax

StructSize   == 2 * Align           \* heapSTRUCT_SIZE: a BlockLink_t
MinimumBlock == 2 * StructSize      \* heapMINIMUM_BLOCK_SIZE

Addresses == 0 .. HeapSize - 1
Words     == {a \in Addresses : a % Align = 0}
Colors    == 0 .. MaxColors - 1
NoColor   == MaxColors

VARIABLES
    initialised,    \* xHeapHasBeenInitialised
    free,           \* the list of free blocks
    size,           \* xBlockSize of the block at an address (0: no block)
    freeBytes,      \* xFreeBytesRemaining
    tagIndex,       \* dover_ptr_tag_index
    wordTag,        \* the colour each word of the heap was last tagged with
    live,           \* blocks whose pointer the program holds
    asked,          \* the size each live block was asked for
    color           \* the colour of the pointer of each live block

heapVars == <<initialised, free, size, freeBytes, tagIndex, wordTag>>
userVars == <<live, asked, color>>
vars     == <<initialised, free, size, freeBytes, tagIndex, wordTag,
              live, asked, color>>

Init ==
    /\ initialised = FALSE
    /\ free = <<>>
    /\ size = [a \in Addresses |-> 0]
    /\ freeBytes = HeapSize
    /\ tagIndex = 0
    /\ wordTag = [w \in Words |-> NoColor]
    /\ live = {}
    /\ asked = [a \in Addresses |-> 0]
    /\ color = [a \in Addresses |-> NoColor]

-----------------------------------------------------------------------------
\* size_t arithmetic: the result of one addition or subtraction.
SizeT(n) ==
    IF n > SizeMax THEN n - (SizeMax + 1)
    ELSE IF n < 0 THEN n + (SizeMax + 1)
    ELSE n

RoundUp(n) == IF n % Align = 0 THEN n ELSE SizeT(n + (Align - (n % Align)))

\* Mistake: of the header, only the link is added to the request.
WantedLinkOnly(n) == IF n = 0 THEN 0 ELSE RoundUp(SizeT(n + Align))

\* The bytes a request takes: header added and rounded up to whole words.
WantedSize(n) == IF n = 0 THEN 0 ELSE RoundUp(SizeT(n + StructSize))

\* A request close to SizeMax wraps. From 0 malloc returns no block, and a block
\* that is at least a header keeps the links apart. Of fewer bytes, line 251
\* lays the link of the rest over the link of the block, whose size line 91
\* then overwrites, and line 269 clears memory far beyond the heap: such
\* requests, fewer than StructSize of them, are not modelled.
ASSUME HeaderAssumption ==
    \A n \in Requests : WantedSize(n) = 0 \/ WantedSize(n) >= StructSize

\* Mistake: the new block always goes to the front of the list.
PushFree(list, sizes, block) == <<block>> \o list

\* The place of the first block of the list that is not smaller than s, 0 if
\* there is none: where the searches of malloc and of the insertion stop.
FirstAtLeast(list, sizes, s) == SelectInSeq(list, LAMBDA b : sizes[b] >= s)

\* prvInsertBlockIntoFreeList: before the first block that is not smaller
\* (xEnd, whose size no block exceeds, stops the search).
InsertFree(list, sizes, block) ==
    LET i == FirstAtLeast(list, sizes, sizes[block])
    IN  InsertAt(list, IF i = 0 THEN Len(list) + 1 ELSE i, block)

\* Mistake: the tags cover the header too.
PayloadAndHeader(block, blockSize) ==
    {w \in Words : w >= block /\ w < block + blockSize}

\* The words of a block's payload, as dover_tag and dover_untag count them
\* from the pointer up: (size - header) bytes, rounded up to words.
PayloadWords(block, blockSize) ==
    {w \in Words : /\ w >= block + StructSize
                   /\ w < block + StructSize + SizeT(blockSize - StructSize)}

TagWords(words, tag) ==
    wordTag' = [w \in Words |-> IF w \in words THEN tag ELSE wordTag[w]]

\* prvHeapInit, which the first malloc runs: one block spans the heap.
FreeNow == IF initialised THEN free ELSE <<0>>
SizeNow == IF initialised THEN size ELSE [size EXCEPT ![0] = HeapSize]

-----------------------------------------------------------------------------
(***************************************************************************)
(* malloc.                                                                 *)
(***************************************************************************)

\* Mistake: a block of exactly the wanted size is passed over.
FoundLarger(wanted) ==
    IF 0 < wanted /\ wanted < HeapSize
    THEN FirstAtLeast(FreeNow, SizeNow, wanted + 1)
    ELSE 0

\* The place in the free list of the first block that is large enough, 0 if
\* there is none or if the request is not one that is looked for.
Found(wanted) ==
    IF 0 < wanted /\ wanted < HeapSize
    THEN FirstAtLeast(FreeNow, SizeNow, wanted)
    ELSE 0

\* The pointer of a block of s bytes is given the next colour, with every
\* word of its payload, and handed to the program.
HandOut(n, block, s) ==
    /\ tagIndex' = (tagIndex + 1) % MaxColors
    /\ TagWords(PayloadWords(block, s), (tagIndex + 1) % MaxColors)
    /\ live' = live \cup {block}
    /\ asked' = [asked EXCEPT ![block] = n]
    /\ color' = [color EXCEPT ![block] = (tagIndex + 1) % MaxColors]

MallocFails(n) ==
    /\ Found(WantedSize(n)) = 0
    /\ initialised' = TRUE
    /\ free' = FreeNow
    /\ size' = SizeNow
    /\ UNCHANGED <<freeBytes, tagIndex, wordTag, userVars>>

\* Mistake: the block is not taken out of the free list.
MallocWholeStillListed(n) ==
    LET wanted == WantedSize(n)
        i      == Found(wanted)
        block  == FreeNow[i]
    IN  /\ i # 0
        /\ SizeNow[block] - wanted <= MinimumBlock
        /\ initialised' = TRUE
        /\ free' = FreeNow
        /\ size' = SizeNow
        /\ freeBytes' = freeBytes - SizeNow[block]
        /\ HandOut(n, block, SizeNow[block])

\* The block is too small to be split: the program gets all of it.
MallocWhole(n) ==
    LET wanted == WantedSize(n)
        i      == Found(wanted)
        block  == FreeNow[i]
    IN  /\ i # 0
        /\ SizeNow[block] - wanted <= MinimumBlock
        /\ initialised' = TRUE
        /\ free' = RemoveAt(FreeNow, i)
        /\ size' = SizeNow
        /\ freeBytes' = freeBytes - SizeNow[block]
        /\ HandOut(n, block, SizeNow[block])

\* Mistake: the rest of a split block keeps the size of the whole.
MallocSplitSizeKept(n) ==
    LET wanted == WantedSize(n)
        i      == Found(wanted)
        block  == FreeNow[i]
        rest   == block + wanted
        sizes  == [SizeNow EXCEPT ![block] = wanted, ![rest] = SizeNow[block]]
    IN  /\ i # 0
        /\ SizeNow[block] - wanted > MinimumBlock
        /\ initialised' = TRUE
        /\ size' = sizes
        /\ free' = InsertFree(RemoveAt(FreeNow, i), sizes, rest)
        /\ freeBytes' = freeBytes - wanted
        /\ HandOut(n, block, wanted)

\* The block is split, and the rest goes back to the list.
MallocSplit(n) ==
    LET wanted == WantedSize(n)
        i      == Found(wanted)
        block  == FreeNow[i]
        rest   == block + wanted
        sizes  == [SizeNow EXCEPT ![block] = wanted,
                                  ![rest] = SizeNow[block] - wanted]
    IN  /\ i # 0
        /\ SizeNow[block] - wanted > MinimumBlock
        /\ initialised' = TRUE
        /\ size' = sizes
        /\ free' = InsertFree(RemoveAt(FreeNow, i), sizes, rest)
        /\ freeBytes' = freeBytes - wanted
        /\ HandOut(n, block, wanted)

Malloc(n) == MallocFails(n) \/ MallocWhole(n) \/ MallocSplit(n)

-----------------------------------------------------------------------------
Free(block) ==
    /\ block \in live
    /\ free' = InsertFree(free, size, block)
    /\ freeBytes' = freeBytes + size[block]
    /\ TagWords(PayloadWords(block, size[block]), NoColor)
    /\ live' = live \ {block}
    /\ asked' = [asked EXCEPT ![block] = 0]
    /\ color' = [color EXCEPT ![block] = NoColor]
    /\ UNCHANGED <<initialised, size, tagIndex>>

Next ==
    \/ \E n \in Requests : Malloc(n)
    \/ \E block \in live : Free(block)

Spec == Init /\ [][Next]_vars

-----------------------------------------------------------------------------
(***************************************************************************)
(* Properties.                                                             *)
(***************************************************************************)

FreeSet == ToSet(free)
Blocks  == FreeSet \cup live

TypeOK ==
    /\ initialised \in BOOLEAN
    /\ free \in Seq(Addresses)
    /\ size \in [Addresses -> 0 .. HeapSize]
    /\ freeBytes \in 0 .. HeapSize
    /\ tagIndex \in Colors
    /\ wordTag \in [Words -> Colors \cup {NoColor}]
    /\ live \subseteq Addresses
    /\ asked \in [Addresses -> 0 .. SizeMax]
    /\ color \in [Addresses -> Colors \cup {NoColor}]

\* The blocks, free or live, are laid end to end over the whole heap: none
\* overlaps another, no byte is lost to splitting, freeing or reuse, and each
\* has room for its own link.
BlocksTile ==
    initialised =>
        /\ 0 \in Blocks
        /\ \A b \in Blocks :
              /\ size[b] >= StructSize
              /\ b + size[b] \in Blocks \cup {HeapSize}
              /\ \A c \in Blocks : b < c => b + size[b] <= c

\* The free list names each free block once, no live one, smallest first
\* (malloc.c:49-50, 71-73), which is what makes first fit the best fit, and
\* xFreeBytesRemaining is the sum of its blocks (malloc.c:64-66).
FreeListExact ==
    /\ IsInjective(free)
    /\ FreeSet \cap live = {}
    /\ \A i, j \in DOMAIN free : i < j => size[free[i]] <= size[free[j]]
    /\ initialised =>
          freeBytes = FoldSet(LAMBDA b, sum : sum + size[b], 0, FreeSet)

\* "The wanted size is increased so it can contain a BlockLink_t structure in
\* addition to the requested amount of bytes" (malloc.c:208-209).
RequestFits ==
    \A b \in live : size[b] >= StructSize + asked[b]

\* A word carries a colour exactly while it is payload of a live block, and
\* then it is the colour of the block's pointer: headers, free blocks and
\* what was freed are untagged.
TagsFollowOwnership ==
    \A w \in Words :
        LET owners == {b \in live : b + StructSize <= w /\ w < b + size[b]}
        IN  wordTag[w] = IF owners = {} THEN NoColor
                         ELSE color[CHOOSE b \in owners : TRUE]

\* malloc serves a request from a smallest block that is large enough, and
\* refuses one that is smaller than the heap only if no block is.
BestFit ==
    [][ \A n \in Requests \ {0} :
          LET wanted   == WantedSize(n)
              adequate == {b \in ToSet(FreeNow) : SizeNow[b] >= wanted}
          IN  /\ \A b \in live' \ live :
                    asked'[b] = n =>
                       /\ b \in adequate
                       /\ \A c \in adequate : SizeNow[b] <= SizeNow[c]
              /\ MallocFails(n) /\ wanted < HeapSize => adequate = {} ]_vars

-----------------------------------------------------------------------------
\* The live payloads as regions of memory, as the program sees them.
Promise == INSTANCE Allocator WITH
    Size    <- HeapSize,
    regions <- {[from |-> b + StructSize, to |-> b + size[b]] : b \in live}

\* malloc.c implements an allocator of disjoint regions.
ImplementsAllocator == Promise!Spec
=============================================================================
