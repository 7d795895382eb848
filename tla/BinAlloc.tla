------------------------------ MODULE BinAlloc ------------------------------
(***************************************************************************)
(* kernel/bin_alloc.c on top of the page allocator.  The page allocator is *)
(* FrameAlloc, the specification PageAlloc implements; kmalloc and kfree   *)
(* take its Alloc, Fail and Free steps as their calls.  Pointers are       *)
(* physical addresses: bin_alloc runs after the direct map is in place, so *)
(* phys2virt adds the same constant to all of them.                        *)
(***************************************************************************)
EXTENDS Frames, FiniteSets

CONSTANTS
    BinSizes,    \* g_bin_sizes
    KRequests,   \* [n, align] arguments of kmalloc
    MaxBlocks    \* bound: callers hold at most this many blocks at a time

VARIABLES
    map, phase, avail, pages, frame,   \* the page allocator (pages: its live blocks)
    heads,     \* g_free_heads: the nodes of each list, first node first
    inited,    \* bin_alloc_init has run
    blocks,    \* ghost: [addr, n, align, cap] of every block callers hold
    ret        \* pointer last returned by kmalloc, 0 for NULL

PA == INSTANCE FrameAlloc WITH Requests <- {}, live <- pages, ret <- frame

heap  == <<heads, inited, blocks, ret>>
vars  == <<map, phase, avail, pages, frame, heap>>

BIN_COUNT == Len(BinSizes)

\* g_bin_sizes: increasing, each size divides the next ones and a page.
ASSUME BinsAssumption ==
    /\ BinSizes \in Seq(Nat \ {0})
    /\ \A i \in 1 .. BIN_COUNT : PageSize % BinSizes[i] = 0
    /\ \A i, j \in 1 .. BIN_COUNT :
          i < j => BinSizes[i] < BinSizes[j] /\ BinSizes[j] % BinSizes[i] = 0

\* What callers owe kmalloc: a size_t size, an alignment that is none (0 or 1) or
\* divides every larger bin and the page or is whole pages (a power of two does
\* and is), and no size that page_alloc_bytes would round up past the end of size_t.
ASSUME KRequestsAssumption ==
    \A r \in KRequests :
        /\ r \in [n : 0 .. WordSize - 1, align : Nat]
        /\ \A i \in 1 .. BIN_COUNT : r.align \in 2 .. BinSizes[i] => BinSizes[i] % r.align = 0
        /\ r.align \in 2 .. PageSize => PageSize % r.align = 0
        /\ r.align > PageSize => r.align % PageSize = 0 /\ r.align + PageSize <= WordSize
        /\ r.align <= PageSize => r.n + PageSize <= WordSize

max_size(a, b) == IF a > b THEN a ELSE b

\* Mutant: takes a bin half as large as needed.
Mutant_bin_index_small(need) ==
    IF \E i \in 1 .. BIN_COUNT : need <= 2 * BinSizes[i]
    THEN CHOOSE i \in 1 .. BIN_COUNT :
            need <= 2 * BinSizes[i] /\ \A j \in 1 .. i - 1 : need > 2 * BinSizes[j]
    ELSE 0

\* The smallest bin that holds need bytes; 0 stands for the code's -1.
bin_index_for(need) ==
    IF \E i \in 1 .. BIN_COUNT : need <= BinSizes[i]
    THEN CHOOSE i \in 1 .. BIN_COUNT :
            need <= BinSizes[i] /\ \A j \in 1 .. i - 1 : need > BinSizes[j]
    ELSE 0

\* Mutant: chunks too close together.
Mutant_chunk_list_stride(page, bsz) ==
    LET cnt == PageSize \div bsz IN [k \in 1 .. cnt |-> page + (cnt - k) * (bsz - 1)]

\* The list refill_bin builds from a page: the chunk pushed last comes first.
chunk_list(page, bsz) ==
    LET cnt == PageSize \div bsz
    IN  [k \in 1 .. cnt |-> page + (cnt - k) * bsz]

Init ==
    /\ PA!Init
    /\ heads = [i \in 1 .. BIN_COUNT |-> <<>>]
    /\ inited = FALSE
    /\ blocks = {}
    /\ ret = 0

\* kernelMain's steps before the heap exists.
Boot == (PA!Boot \/ PA!Release) /\ UNCHANGED heap

bin_alloc_init ==
    /\ phase = "released"
    /\ ~inited
    /\ inited' = TRUE
    /\ heads' = [i \in 1 .. BIN_COUNT |-> <<>>]
    /\ UNCHANGED <<map, phase, avail, pages, frame, blocks, ret>>

Give(addr, r, cap) ==
    /\ ret' = addr
    /\ blocks' = blocks \cup {[addr |-> addr, n |-> r.n, align |-> r.align, cap |-> cap]}

GiveNull == ret' = 0 /\ UNCHANGED blocks

\* page_alloc_pages(1, PAGE_SIZE), as refill_bin calls it.
OnePage == [bytes |-> PageSize, needed |-> 1, align |-> 1]

\* The bin has a chunk, or refill_bin gets a page for it, or neither.
kmalloc_bin(r) ==
    LET idx == bin_index_for(max_size(r.n, r.align)) IN
    /\ idx > 0
    /\ \/ /\ heads[idx] # <<>>
          /\ Give(Head(heads[idx]), r, BinSizes[idx])
          /\ heads' = [heads EXCEPT ![idx] = Tail(@)]
          /\ UNCHANGED <<map, phase, avail, pages, frame>>
       \/ /\ heads[idx] = <<>>
          /\ PA!Alloc(OnePage)
          /\ LET l == chunk_list(frame' * PageSize, BinSizes[idx])
             IN  /\ Give(Head(l), r, BinSizes[idx])
                 /\ heads' = [heads EXCEPT ![idx] = Tail(l)]
       \/ /\ heads[idx] = <<>>
          /\ PA!Fail(OnePage)
          /\ GiveNull
          /\ UNCHANGED heads

\* page_alloc_pages above a page of alignment (NULL for a page count that
\* wrapped to zero), page_alloc_bytes otherwise.
kmalloc_pages(r) ==
    LET p == [bytes |-> r.n, needed |-> need_frames(r.n),
              align |-> IF r.align > PageSize THEN align_frames(r.align) ELSE 1]
    IN  /\ bin_index_for(max_size(r.n, r.align)) = 0
        /\ \/ /\ r.align > PageSize /\ p.needed = 0
              /\ GiveNull
              /\ UNCHANGED <<map, phase, avail, pages, frame>>
           \/ /\ r.align <= PageSize \/ p.needed > 0
              /\ \/ PA!Alloc(p) /\ Give(frame' * PageSize, r, p.needed * PageSize)
                 \/ PA!Fail(p) /\ GiveNull
        /\ UNCHANGED heads

\* Mutant: the early return for n = 0 is missing.
Mutant_kmalloc_zero(r) ==
    /\ inited
    /\ Cardinality(blocks) < MaxBlocks
    /\ kmalloc_bin(r) \/ kmalloc_pages(r)
    /\ UNCHANGED inited

kmalloc(r) ==
    /\ inited
    /\ r.n > 0
    /\ Cardinality(blocks) < MaxBlocks
    /\ kmalloc_bin(r) \/ kmalloc_pages(r)
    /\ UNCHANGED inited

kfree(b) ==
    LET idx == bin_index_for(b.n) IN
    /\ blocks' = blocks \ {b}
    /\ \/ /\ idx > 0
          /\ heads' = [heads EXCEPT ![idx] = <<b.addr>> \o @]
          /\ UNCHANGED <<map, phase, avail, pages, frame>>
       \/ /\ idx = 0
          /\ \E p \in pages :
                /\ p.start = b.addr \div PageSize
                /\ p.frames = need_frames(b.n)
                /\ PA!Free(p)
          /\ UNCHANGED heads
    /\ UNCHANGED <<inited, ret>>

Next ==
    \/ Boot \/ bin_alloc_init
    \/ \E r \in KRequests : kmalloc(r)
    \/ \E b \in blocks : kfree(b)

Spec == Init /\ [][Next]_vars
-----------------------------------------------------------------------------
Bytes(a, n) == a .. a + n - 1

(* Types: every block kmalloc hands out has an address, a size and a bin or
   page size of its own; a free list is a list of addresses. *)
TypeOK ==
    /\ avail \subseteq Frame
    /\ \A i \in 1 .. BIN_COUNT : heads[i] \in Seq(Nat)
    /\ DOMAIN heads = 1 .. BIN_COUNT
    /\ blocks \subseteq [addr : Nat \ {0}, n : Nat \ {0}, align : Nat, cap : Nat \ {0}]

\* Who owns which bytes: a caller its block, list i each of its nodes.
Claims ==
    {[who |-> "caller", pos |-> 0, addr |-> b.addr, size |-> b.cap] : b \in blocks}
    \cup UNION {{[who |-> "list", pos |-> <<i, k>>, addr |-> heads[i][k], size |-> BinSizes[i]]
                    : k \in 1 .. Len(heads[i])} : i \in 1 .. BIN_COUNT}

PageBytes == UNION {Bytes(p.start * PageSize, p.frames * PageSize) : p \in pages}

\* Blocks of callers and nodes of the lists do not overlap, no node is listed twice.
ClaimsDisjoint ==
    \A c, d \in Claims : c # d => Bytes(c.addr, c.size) \cap Bytes(d.addr, d.size) = {}

\* Blocks and free nodes lie in pages the page allocator has handed out.
ClaimsInPages == \A c \in Claims : Bytes(c.addr, c.size) \subseteq PageBytes

(* No byte has two owners, the page allocator included, however chunks wander
   between the bins because kfree picks the list by the size alone and kmalloc
   by the larger of size and alignment. *)
ClaimsSound == ClaimsDisjoint /\ ClaimsInPages

\* The inductive invariant of the proofs, part by part, on intervals of bytes and frames.
Apart(a, m, b, n) == a + m <= b \/ b + n <= a
Inside(a, m, p) == p.start * PageSize <= a /\ a + m <= (p.start + p.frames) * PageSize
InSomePage(a, m) == \E p \in pages : Inside(a, m, p)
Positions(i) == 1 .. Len(heads[i])

\* Free frames and handed-out pages are apart, and nothing is handed out before boot.
PagesSound ==
    /\ phase = "boot" => pages = {}
    /\ avail \subseteq Frame \ {0}
    /\ \A p \in pages : /\ p.start \in Nat \ {0} /\ p.frames \in Nat \ {0}
                        /\ Run(p.start, p.frames) \subseteq Frame \ avail
    /\ \A p, q \in pages : p # q => Apart(p.start, p.frames, q.start, q.frames)

\* A free node is aligned to its bin, whichever bin it was once cut for.
NodeSound(a, i) == a > 0 /\ a % BinSizes[i] = 0 /\ InSomePage(a, BinSizes[i])

NodesSound == \A i \in 1 .. BIN_COUNT : \A k \in Positions(i) : NodeSound(heads[i][k], i)

NodesApart ==
    \A i, j \in 1 .. BIN_COUNT : \A k \in Positions(i), l \in Positions(j) :
        i # j \/ k # l => Apart(heads[i][k], BinSizes[i], heads[j][l], BinSizes[j])

\* What kfree relies on: the bin it picks by size fits the block, or there is none and
\* the block is all of a page run of that size.
Returnable(b) ==
    LET i == bin_index_for(b.n)
    IN  IF i > 0 THEN BinSizes[i] <= b.cap /\ b.addr % BinSizes[i] = 0
        ELSE \E p \in pages : /\ p.start * PageSize = b.addr
                              /\ p.frames * PageSize = b.cap
                              /\ p.frames = need_frames(b.n)

BlockSound(b) ==
    /\ b.n <= b.cap
    /\ b.align > 1 => b.addr % b.align = 0
    /\ InSomePage(b.addr, b.cap)
    /\ Returnable(b)

BlocksSound == \A b \in blocks : BlockSound(b)

BlocksApart == \A b, c \in blocks : b # c => Apart(b.addr, b.cap, c.addr, c.cap)

BlocksOffLists ==
    \A b \in blocks, i \in 1 .. BIN_COUNT : \A k \in Positions(i) :
        Apart(b.addr, b.cap, heads[i][k], BinSizes[i])

IInv ==
    /\ TypeOK /\ PagesSound /\ NodesSound /\ NodesApart
    /\ BlocksSound /\ BlocksApart /\ BlocksOffLists

H == INSTANCE Heap WITH
        Requests <- KRequests,
        live <- {[addr |-> b.addr, n |-> b.n, align |-> b.align] : b \in blocks}

(* The bins and the page allocator together are the heap bin_alloc.h promises. *)
ImplementsHeap == H!Spec
=============================================================================
