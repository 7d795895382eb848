------------------------- MODULE KernelLoaderProofs -------------------------
(***************************************************************************)
(* Proofs about KernelLoader, for pages and images of any size that are    *)
(* laid out as ImagesAssumption says.  The arithmetic of pages comes       *)
(* first, then the inductive invariant IInv, one lemma per loop.           *)
(***************************************************************************)
EXTENDS KernelLoader, TLAPS

(* ---- pages ---- *)

LEMMA Div ==
    ASSUME NEW x \in Nat
    PROVE  /\ x \div PgSz \in Nat /\ x % PgSz \in 0 .. PgSz - 1
           /\ x = PgSz * (x \div PgSz) + (x % PgSz)
PROOF
  BY LoaderAssumption

LEMMA DivUnique ==
    ASSUME NEW x \in Nat, NEW q \in Nat, NEW r \in 0 .. PgSz - 1, x = PgSz * q + r
    PROVE  x \div PgSz = q /\ x % PgSz = r
PROOF
  BY LoaderAssumption

LEMMA DivMono ==
    ASSUME NEW x \in Nat, NEW y \in Nat, x <= y
    PROVE  x \div PgSz <= y \div PgSz
PROOF
  BY LoaderAssumption

\* align_up: the pages up to byte x - 1.
LEMMA AlignUp ==
    ASSUME NEW x \in Nat
    PROVE  /\ align_up(x) \in Nat /\ align_up(x) % PgSz = 0
           /\ align_up(x) = PgSz * (align_up(x) \div PgSz)
           /\ \A n \in Nat : PgSz * n < align_up(x) <=> PgSz * n < x
PROOF
  <1> DEFINE q == (x + PgSz - 1) \div PgSz
  <1>1. PgSz \in Nat \ {0} /\ x + PgSz - 1 \in Nat
    BY LoaderAssumption
  <1>2. q \in Nat /\ PgSz * q <= x + PgSz - 1 /\ x <= PgSz * q
    BY <1>1, Div
  <1>3. align_up(x) = PgSz * q /\ align_up(x) \in Nat
    BY <1>1, <1>2 DEF align_up
  <1> HIDE DEF q
  <1>4. align_up(x) \div PgSz = q /\ align_up(x) % PgSz = 0
    <2>1. 0 \in 0 .. PgSz - 1 /\ align_up(x) = PgSz * q + 0
      BY <1>1, <1>2, <1>3
    <2> QED BY <1>2, <1>3, <2>1, DivUnique
  <1>5. ASSUME NEW n \in Nat
        PROVE  PgSz * n < align_up(x) <=> PgSz * n < x
    <2>1. PgSz * n < PgSz * q => PgSz * n + PgSz <= PgSz * q
      BY <1>1, <1>2
    <2>2. PgSz * n \in Nat /\ PgSz * q \in Nat
      BY <1>1, <1>2
    <2> QED BY <1>1, <1>2, <1>3, <2>1, <2>2
  <1> QED BY <1>3, <1>4, <1>5

\* The multiples of a page.
LEMMA Multiple ==
    ASSUME NEW x \in Nat, NEW n \in Nat
    PROVE  /\ (PgSz * n) \div PgSz = n /\ (PgSz * n) % PgSz = 0 /\ PgSz * n \in Nat
           /\ (x + PgSz * n) \div PgSz = x \div PgSz + n
           /\ (x + PgSz * n) % PgSz = x % PgSz
PROOF
  <1>1. PgSz \in Nat \ {0} /\ PgSz * n \in Nat /\ x + PgSz * n \in Nat /\ 0 \in 0 .. PgSz - 1
    BY LoaderAssumption
  <1>2. x = PgSz * (x \div PgSz) + (x % PgSz) /\ x \div PgSz \in Nat /\ x % PgSz \in 0 .. PgSz - 1
    BY Div
  <1>3. x + PgSz * n = PgSz * (x \div PgSz + n) + (x % PgSz) /\ x \div PgSz + n \in Nat
    BY <1>1, <1>2
  <1>4. PgSz * n = PgSz * n + 0
    BY <1>1
  <1> QED BY <1>1, <1>2, <1>3, <1>4, DivUnique

LEMMA AlignDown ==
    ASSUME NEW x \in Nat
    PROVE  align_down(x) = PgSz * (x \div PgSz) /\ align_down(x) \in Nat /\ x - align_down(x) = x % PgSz
PROOF
  <1>1. PgSz \in Nat \ {0} /\ x \div PgSz \in Nat /\ x % PgSz \in Nat /\ x = PgSz * (x \div PgSz) + (x % PgSz)
    BY LoaderAssumption, Div
  <1>2. align_down(x) = PgSz * (x \div PgSz)
    BY <1>1 DEF align_down
  <1>3. PgSz * (x \div PgSz) \in Nat
    BY <1>1
  <1> QED BY <1>1, <1>2, <1>3

\* A segment's first page, its size and its pages.
LEMMA SegmentPages ==
    ASSUME NEW p \in Header
    PROVE  /\ SegV(p) = PgSz * (p.vaddr \div PgSz) /\ SegV(p) \in Nat
           /\ align_down(p.paddr) = PgSz * (p.paddr \div PgSz) /\ align_down(p.paddr) \in Nat
           /\ SegSize(p) \in Nat /\ SegSize(p) % PgSz = 0
           /\ \A n \in Nat : PgSz * n < SegSize(p) <=> PgSz * n < p.memsz + (p.vaddr % PgSz)
           /\ \A n \in Nat : n \in SegPages(p) <=> PgSz * n < SegSize(p)
PROOF
  <1>1. PgSz \in Nat \ {0} /\ p.vaddr \in Nat /\ p.paddr \in Nat /\ p.memsz \in Nat
    BY LoaderAssumption DEF Header
  <1>2. SegV(p) = PgSz * (p.vaddr \div PgSz) /\ SegV(p) \in Nat /\ p.vaddr - SegV(p) = p.vaddr % PgSz
    BY <1>1, AlignDown DEF SegV
  <1>3. align_down(p.paddr) = PgSz * (p.paddr \div PgSz) /\ align_down(p.paddr) \in Nat
    BY <1>1, AlignDown
  <1>4. SegSize(p) = align_up(p.memsz + (p.vaddr % PgSz)) /\ p.memsz + (p.vaddr % PgSz) \in Nat
    BY <1>1, <1>2, Div DEF SegSize
  <1>5. /\ SegSize(p) \in Nat /\ SegSize(p) % PgSz = 0
        /\ \A n \in Nat : PgSz * n < SegSize(p) <=> PgSz * n < p.memsz + (p.vaddr % PgSz)
    BY <1>4, AlignUp
  <1>6. ASSUME NEW n \in Nat, PgSz * n < SegSize(p)
        PROVE  n \in 0 .. SegSize(p)
    <2>1. n <= PgSz * n
      BY <1>1
    <2> QED BY <1>1, <1>5, <1>6, <2>1
  <1> QED BY <1>2, <1>3, <1>5, <1>6 DEF SegPages

\* The page that holds byte n of a range, counted from its first one.
LEMMA ByteInPage ==
    ASSUME NEW v \in Nat, NEW n \in Nat
    PROVE  LET m == ((v % PgSz) + n) \div PgSz IN
           m \in Nat /\ PgSz * m <= (v % PgSz) + n /\ (v + n) \div PgSz = v \div PgSz + m
PROOF
  <1> DEFINE r == v % PgSz
             q == v \div PgSz
             m == (r + n) \div PgSz
  <1>1. PgSz \in Nat \ {0} /\ r \in Nat /\ q \in Nat /\ v = PgSz * q + r
    BY LoaderAssumption, Div
  <1> HIDE DEF r, q
  <1>2. r + n \in Nat /\ m \in Nat /\ PgSz * m <= r + n
    BY <1>1, Div
  <1>3. v + n = (r + n) + PgSz * q
    BY <1>1
  <1>4. (v + n) \div PgSz = m + q
    <2>1. ((r + n) + PgSz * q) \div PgSz = (r + n) \div PgSz + q
      BY <1>1, <1>2, Multiple
    <2> QED BY <1>3, <2>1
  <1> HIDE DEF m
  <1>5. (v + n) \div PgSz = q + m
    BY <1>1, <1>2, <1>4
  <1> QED BY <1>2, <1>5 DEF m, q, r

LEMMA ByteInSegment ==
    ASSUME NEW p \in Header, p.paddr % PgSz = p.vaddr % PgSz, NEW n \in 0 .. p.memsz - 1
    PROVE  \E m \in SegPages(p) : /\ (p.vaddr + n) \div PgSz = p.vaddr \div PgSz + m
                                  /\ (p.paddr + n) \div PgSz = p.paddr \div PgSz + m
PROOF
  <1> DEFINE r == p.vaddr % PgSz
             m == (r + n) \div PgSz
  <1>1. PgSz \in Nat \ {0} /\ p.vaddr \in Nat /\ p.paddr \in Nat /\ p.memsz \in Nat /\ n \in Nat /\ n < p.memsz
    BY LoaderAssumption DEF Header
  <1>2. r \in Nat
    BY <1>1, Div
  <1>3. /\ m \in Nat /\ PgSz * m <= r + n
        /\ (p.vaddr + n) \div PgSz = p.vaddr \div PgSz + m
        /\ (p.paddr + n) \div PgSz = p.paddr \div PgSz + m
    <2>1. ASSUME NEW v \in Nat, v % PgSz = r
          PROVE  m \in Nat /\ PgSz * m <= r + n /\ (v + n) \div PgSz = v \div PgSz + m
      <3>1. m = ((v % PgSz) + n) \div PgSz
        BY <2>1
      <3> HIDE DEF m
      <3>2. m \in Nat /\ PgSz * m <= (v % PgSz) + n /\ (v + n) \div PgSz = v \div PgSz + m
        BY <1>1, <3>1, ByteInPage
      <3> QED BY <2>1, <3>2
    <2> HIDE DEF m
    <2> QED BY <1>1, <2>1
  <1> HIDE DEF m
  <1>4. PgSz * m < p.memsz + r
    <2>1. PgSz * m \in Nat
      BY <1>1, <1>3
    <2> HIDE DEF r
    <2> QED BY <1>1, <1>2, <1>3, <2>1
  <1>5. m \in SegPages(p)
    BY <1>3, <1>4, SegmentPages
  <1> QED BY <1>3, <1>5
-----------------------------------------------------------------------------
(* ---- the image and the loops' position ---- *)

LEMMA ImageFacts ==
    ASSUME IInv
    PROVE  /\ img \in Seq(Header) /\ Len(img) \in Nat /\ DOMAIN img = 1 .. Len(img)
           /\ \A k \in DOMAIN img : img[k] \in Header
           /\ \A k \in DOMAIN img : Loads(img[k]) =>
                img[k].paddr % PgSz = img[k].vaddr % PgSz /\ img[k].filesz <= img[k].memsz /\ img[k].memsz > 0
PROOF
  <1>1. img \in Images
    BY DEF IInv, Position
  <1>2. img \in Seq(Header)
    BY <1>1, ImagesAssumption
  <1>3. Len(img) \in Nat /\ DOMAIN img = 1 .. Len(img) /\ \A k \in DOMAIN img : img[k] \in Header
    BY <1>2
  <1>4. \A k \in DOMAIN img : Loads(img[k]) =>
            img[k].paddr % PgSz = img[k].vaddr % PgSz /\ img[k].filesz <= img[k].memsz /\ img[k].memsz > 0
    BY <1>1, ImagesAssumption DEF Loads
  <1> QED BY <1>2, <1>3, <1>4

\* The page the loops are at.
LEMMA Here ==
    ASSUME IInv, i \in DOMAIN img
    PROVE  LET n == off \div PgSz IN
           /\ n \in Nat /\ off = PgSz * n
           /\ VPage = PageAt(i, n) /\ VPage \in Nat
           /\ (align_down(img[i].paddr) + off) \div PgSz = img[i].paddr \div PgSz + n
           /\ off + PgSz \in Nat /\ (off + PgSz) % PgSz = 0
           /\ off < SegSize(img[i]) => n \in SegPages(img[i])
PROOF
  <1> DEFINE n == off \div PgSz
             p == img[i]
  <1>1. PgSz \in Nat \ {0} /\ off \in Nat /\ off % PgSz = 0
    BY LoaderAssumption DEF IInv, Position
  <1>2. n \in Nat /\ off = PgSz * n
    BY <1>1, Div
  <1>3. p \in Header /\ p.vaddr \in Nat /\ p.paddr \in Nat
    BY ImageFacts DEF Header
  <1>4. p.vaddr \div PgSz \in Nat /\ p.paddr \div PgSz \in Nat
    BY <1>3, Div
  <1> HIDE DEF n
  <1>5. (SegV(p) + off) \div PgSz = p.vaddr \div PgSz + n
    <2>1. SegV(p) \in Nat /\ SegV(p) \div PgSz = p.vaddr \div PgSz
      BY <1>3, <1>4, SegmentPages, Multiple
    <2> QED BY <1>2, <2>1, Multiple
  <1>6. (align_down(p.paddr) + off) \div PgSz = p.paddr \div PgSz + n
    <2>1. align_down(p.paddr) \in Nat /\ align_down(p.paddr) \div PgSz = p.paddr \div PgSz
      BY <1>3, <1>4, SegmentPages, Multiple
    <2> QED BY <1>2, <2>1, Multiple
  <1>7. off + PgSz \in Nat /\ (off + PgSz) % PgSz = 0
    <2>1. off + PgSz = PgSz * (n + 1) /\ n + 1 \in Nat
      BY <1>1, <1>2
    <2>2. (PgSz * (n + 1)) % PgSz = 0
      BY <2>1, Multiple
    <2> QED BY <1>1, <2>1, <2>2
  <1>8. off < SegSize(p) => n \in SegPages(p)
    BY <1>2, <1>3, SegmentPages
  <1>9. VPage = PageAt(i, n) /\ VPage \in Nat
    <2> HIDE DEF p
    <2>1. p.vaddr \div PgSz + n \in Nat
      BY <1>2, <1>4
    <2> QED BY <1>5, <2>1 DEF VPage, PageAt, p
  <1> QED BY <1>2, <1>6, <1>7, <1>8, <1>9 DEF n

\* The pages and bytes of a segment are within the range the loader reserves.
LEMMA SegmentReserved ==
    ASSUME IInv, NEW k \in DOMAIN img, Loads(img[k])
    PROVE  /\ \A n \in SegPages(img[k]) : img[k].paddr \div PgSz + n \in PhysPages
           /\ \A b \in SegBytes(img[k]) : b \div PgSz \in PhysPages
PROOF
  <1> DEFINE p == img[k]
             last == align_up(p.paddr + p.memsz) \div PgSz
  <1>1. PgSz \in Nat \ {0} /\ p \in Header /\ p.paddr \in Nat /\ p.memsz \in Nat /\ p.memsz > 0
        /\ p.vaddr \in Nat /\ p.paddr % PgSz = p.vaddr % PgSz
    BY ImageFacts, LoaderAssumption DEF Header
  <1>2. \A q \in p.paddr \div PgSz .. last - 1 : q \in PhysPages
    <2> DEFINE loaded == {img[j] : j \in {j \in DOMAIN img : Loads(img[j])}}
    <2>1. p \in loaded
      OBVIOUS
    <2> DEFINE ranges == {x.paddr \div PgSz .. align_up(y.paddr + y.memsz) \div PgSz - 1 : x \in loaded, y \in loaded}
    <2>2. PhysPages = UNION ranges
      BY DEF PhysPages
    <2> HIDE DEF loaded, p
    <2>3. p.paddr \div PgSz .. last - 1 \in ranges
      BY <2>1
    <2> HIDE DEF ranges
    <2> QED BY <2>2, <2>3, Zenon
  <1> DEFINE a == p.paddr
             s == p.memsz
  <1>3. a \in Nat /\ s \in Nat /\ a + s \in Nat
    BY <1>1
  <1>4. last \in Nat /\ \A q \in Nat : PgSz * q < a + s => q < last
    <2> HIDE DEF a, s
    <2>1. /\ align_up(a + s) \in Nat /\ align_up(a + s) = PgSz * (align_up(a + s) \div PgSz)
          /\ \A n \in Nat : PgSz * n < a + s => PgSz * n < align_up(a + s)
      BY <1>3, AlignUp
    <2> DEFINE l == align_up(a + s) \div PgSz
    <2>2. l \in Nat
      BY <2>1, Div
    <2>3. align_up(a + s) = PgSz * l
      BY <2>1
    <2> HIDE DEF l
    <2>4. \A q \in Nat : PgSz * q < a + s => q < l
      BY <1>1, <2>1, <2>2, <2>3
    <2> QED BY <2>2, <2>4 DEF l, a, s
  <1> HIDE DEF last
  <1>5. ASSUME NEW n \in SegPages(p)
        PROVE  p.paddr \div PgSz + n \in PhysPages
    <2>1. n \in Nat /\ PgSz * n < s + (a % PgSz)
      BY <1>1, SegmentPages DEF SegPages
    <2>2. a \div PgSz \in Nat /\ a % PgSz \in Nat /\ a = PgSz * (a \div PgSz) + (a % PgSz)
      BY <1>3, Div
    <2> HIDE DEF a, s
    <2>3. PgSz * (a \div PgSz + n) < a + s
      BY <1>1, <1>3, <2>1, <2>2
    <2>4. a \div PgSz + n \in a \div PgSz .. last - 1
      BY <1>4, <2>1, <2>2, <2>3
    <2> QED BY <1>2, <2>4 DEF a
  <1>6. ASSUME NEW b \in SegBytes(p)
        PROVE  b \div PgSz \in PhysPages
    <2>1. b \in Nat /\ a <= b /\ b < a + s
      BY <1>1 DEF SegBytes
    <2> HIDE DEF a, s
    <2>2. b \div PgSz \in Nat /\ PgSz * (b \div PgSz) <= b /\ a \div PgSz <= b \div PgSz /\ a \div PgSz \in Nat
      <3>1. a \div PgSz \in Nat /\ b \div PgSz \in Nat /\ b % PgSz \in Nat /\ b = PgSz * (b \div PgSz) + (b % PgSz)
        BY <1>3, <2>1, Div
      <3>2. a \div PgSz <= b \div PgSz
        BY <1>3, <2>1, DivMono
      <3>3. PgSz * (b \div PgSz) \in Nat
        BY <1>1, <3>1
      <3> QED BY <2>1, <3>1, <3>2, <3>3
    <2>3. PgSz * (b \div PgSz) < a + s
      BY <1>1, <1>3, <2>1, <2>2
    <2>4. b \div PgSz \in a \div PgSz .. last - 1
      BY <1>4, <2>2, <2>3
    <2> QED BY <1>2, <2>4 DEF a
  <1> QED BY <1>5, <1>6

\* What a page or a byte that is past has.
LEMMA PageMapped ==
    ASSUME IInv, pc \in Loops, NEW k \in DOMAIN img, Loads(img[k]), NEW n \in SegPages(img[k]), pc = "map" => Past(k, n)
    PROVE  /\ PageAt(k, n) \in DOMAIN ptes /\ ptes[PageAt(k, n)].pa = img[k].paddr \div PgSz + n
           /\ \A l \in DOMAIN img : \A m \in SegPages(img[l]) :
                Loads(img[l]) /\ (pc = "map" => Past(l, m)) /\ PageAt(k, n) = PageAt(l, m) => k = l
PROOF
  BY DEF IInv, MappedPages

\* At the end of a segment, or at one that is not loaded, every page of the headers so far is past.
LEMMA PagesPast ==
    ASSUME IInv, i \in DOMAIN img, NEW k \in DOMAIN img, Loads(img[k]), NEW n \in SegPages(img[k]),
           ~Loads(img[i]) \/ off >= SegSize(img[i]), k <= i
    PROVE  Past(k, n)
PROOF
  <1>1. k \in Nat /\ i \in Nat
    BY ImageFacts DEF IInv, Position
  <1>2. CASE k < i
    BY <1>2 DEF Past
  <1>3. CASE k = i
    <2>1. SegSize(img[i]) \in Nat /\ off \in Nat /\ PgSz * n \in Nat /\ PgSz * n < SegSize(img[i])
      BY <1>3, ImageFacts, SegmentPages, LoaderAssumption DEF SegPages, IInv, Position
    <2> QED BY <1>3, <2>1 DEF Past
  <1> QED BY <1>1, <1>2, <1>3
-----------------------------------------------------------------------------
(* ---- the steps ---- *)

LEMMA InvInit == Init => IInv
PROOF
  <1> SUFFICES ASSUME Init PROVE IInv
    OBVIOUS
  <1> USE LoaderAssumption
  <1>1. TypeOK
    <2>1. idx \in 0 .. MAX_FILE_NUM /\ DOMAIN ptes = {} /\ tables \subseteq (1 .. 3) \X Nat
      BY DEF Init
    <2> QED BY <2>1, Zenon DEF Init, TypeOK
  <1>2. Held /\ NothingHeldOnReturn
    BY DEF Init, Held, NothingHeldOnReturn, Before, Loops
  <1>3. Position
    <2>1. 0 % PgSz = 0
      OBVIOUS
    <2> QED BY <2>1 DEF Init, Position, Before, Loops
  <1>4. InsideReserved
    BY DEF Init, InsideReserved
  <1>5. MappedPages /\ LoadedBytes /\ ProtectedPages /\ EntryMeansComplete
    BY DEF Init, MappedPages, LoadedBytes, ProtectedPages, EntryMeansComplete, Loops
  <1> QED BY <1>1, <1>2, <1>3, <1>4, <1>5 DEF IInv

\* A step outside the loops that leaves memory and tables alone keeps what is said of them.
LEMMA QuietStep ==
    ASSUME IInv, UNCHANGED <<img, entry, reserved, tables, ptes, mem, i, off>>, pc' \notin Loops
    PROVE  InsideReserved' /\ MappedPages' /\ LoadedBytes' /\ ProtectedPages' /\ EntryMeansComplete'
PROOF
  <1>1. InsideReserved'
    BY DEF IInv, InsideReserved
  <1>2. MappedPages' /\ LoadedBytes' /\ ProtectedPages'
    BY DEF MappedPages, LoadedBytes, ProtectedPages, Loops
  <1>3. EntryMeansComplete'
    BY DEF IInv, EntryMeansComplete, Loads, attr_from_phdr
  <1> QED BY <1>1, <1>2, <1>3

\* file.c, and the parts of load_kernel_elf before and after the loops.
LEMMA FileStep ==
    ASSUME IInv, \/ init_file \/ OpenRoot \/ OpenRoot_list \/ CloseRoot \/ CloseRoot_null
                 \/ page_set_lv4_writable \/ open_file \/ read_header \/ alloc_phdrs \/ read_phdrs
                 \/ cleanup_ph \/ cleanup
    PROVE  IInv'
PROOF
  <1>1. UNCHANGED <<img, entry, reserved, tables, ptes, mem, i, off>>
    BY DEF init_file, OpenRoot, OpenRoot_list, CloseRoot, CloseRoot_null, page_set_lv4_writable, open_file, read_header,
           alloc_phdrs, read_phdrs, cleanup_ph, cleanup
  <1>2. CASE init_file \/ OpenRoot \/ OpenRoot_list
    <2> USE <1>2 DEF init_file, OpenRoot, OpenRoot_list, IInv
    <2>1. TypeOK'
      <3>1. idx' \in 0 .. MAX_FILE_NUM
        BY LoaderAssumption DEF TypeOK
      <3> QED BY <3>1 DEF TypeOK
    <2>2. Held' /\ NothingHeldOnReturn' /\ pc' \notin Loops
      BY DEF Held, NothingHeldOnReturn, Before, Loops
    <2>3. Position'
      BY DEF Position, Before, Loops
    <2> QED BY <1>1, <2>1, <2>2, <2>3, QuietStep
  <1>3. CASE CloseRoot \/ CloseRoot_null
    <2> USE <1>3 DEF CloseRoot, CloseRoot_null, IInv
    <2>1. TypeOK'
      BY DEF TypeOK
    <2>2. Held' /\ NothingHeldOnReturn' /\ pc' \notin Loops
      BY DEF Held, NothingHeldOnReturn, Before, Loops
    <2>3. Position'
      BY DEF Position, Before, Loops
    <2> QED BY <1>1, <2>1, <2>2, <2>3, QuietStep
  <1>4. CASE page_set_lv4_writable \/ open_file \/ read_header
    <2> USE <1>4 DEF page_set_lv4_writable, open_file, read_header, Goto, IInv
    <2>1. TypeOK'
      BY DEF TypeOK
    <2>2. Held' /\ NothingHeldOnReturn' /\ pc' \notin Loops
      BY DEF Held, NothingHeldOnReturn, Position, Before, Loops
    <2>3. Position'
      BY DEF Position, Before, Loops
    <2> QED BY <1>1, <2>1, <2>2, <2>3, QuietStep
  <1>5. CASE alloc_phdrs \/ read_phdrs \/ cleanup_ph \/ cleanup
    <2> USE <1>5 DEF alloc_phdrs, read_phdrs, cleanup_ph, cleanup, Goto, IInv
    <2>1. TypeOK'
      BY DEF TypeOK
    <2>2. Held' /\ NothingHeldOnReturn' /\ pc' \notin Loops
      BY DEF Held, NothingHeldOnReturn, Before, Loops
    <2>3. Position'
      BY DEF Position, Before, Loops
    <2> QED BY <1>1, <2>1, <2>2, <2>3, QuietStep
  <1> QED BY <1>2, <1>3, <1>4, <1>5

\* The reservation: the loops start at the first page of the first header, nothing is mapped yet.
LEMMA AllocateStep ==
    ASSUME IInv, allocate_image
    PROVE  IInv'
PROOF
  <1>1. pc = "allocate" /\ i' = 1 /\ off' = 0 /\ ptes = <<>> /\ mem = <<>> /\ entry = 0 /\ reserved = {}
        /\ UNCHANGED <<Root, idx, img, entry, file, phdrs, tables, ptes, mem>>
    BY DEF allocate_image, IInv, Position, Held, Before, TypeOK
  <1>2. /\ 0 % PgSz = 0 /\ img \in Images /\ PhysPages' = PhysPages
    BY <1>1, LoaderAssumption DEF IInv, Position, PhysPages, Loads
  <1>3. InsideReserved' /\ EntryMeansComplete'
    BY <1>1 DEF InsideReserved, EntryMeansComplete
  <1>4. CASE pc' = "map" /\ st' = "success" /\ reserved' = PhysPages /\ \E k \in DOMAIN img : Loads(img[k])
    <2>1. 1 \in DOMAIN img
      BY <1>4, ImageFacts
    <2>2. TypeOK'
      BY <1>1, <1>4, <2>1 DEF IInv, TypeOK
    <2>3. Held' /\ NothingHeldOnReturn'
      BY <1>1, <1>4 DEF IInv, Held, NothingHeldOnReturn, Before, Loops
    <2>4. Position'
      BY <1>1, <1>2, <1>4 DEF Position, Before, Loops
    <2>5. \A k \in DOMAIN img : \A n \in SegPages(img[k]) : ~Past(k, n)'
      <3> TAKE k \in DOMAIN img
      <3> TAKE n \in SegPages(img[k])
      <3>1. k >= 1 /\ k \in Nat /\ PgSz * n \in Nat
        BY ImageFacts, LoaderAssumption DEF SegPages
      <3> QED BY <1>1, <3>1 DEF Past
    <2>6. MappedPages' /\ LoadedBytes' /\ ProtectedPages'
      BY <1>1, <1>4, <2>5 DEF MappedPages, LoadedBytes, ProtectedPages, SegPages, SegSize, SegV, Loads
    <2> QED BY <1>3, <2>2, <2>3, <2>4, <2>6 DEF IInv
  <1>5. CASE pc' = "cleanup_ph" /\ st' = "error" /\ UNCHANGED reserved
    <2>1. TypeOK' /\ Held' /\ NothingHeldOnReturn'
      BY <1>1, <1>5 DEF IInv, TypeOK, Held, NothingHeldOnReturn, Before, Loops
    <2>2. Position'
      BY <1>1, <1>2, <1>5 DEF Position, Before, Loops
    <2>3. MappedPages' /\ LoadedBytes' /\ ProtectedPages'
      BY <1>5 DEF MappedPages, LoadedBytes, ProtectedPages, Loops
    <2> QED BY <1>3, <2>1, <2>2, <2>3 DEF IInv
  <1> QED BY <1>4, <1>5 DEF allocate_image, Goto

\* The end: what the loops have established is what the entry point stands for.
LEMMA DoneStep ==
    ASSUME IInv, done
    PROVE  IInv'
PROOF
  <1>1. pc = "done" /\ pc' = "cleanup_ph" /\ st' = "success" /\ entry' = Entry
        /\ UNCHANGED <<Root, idx, img, file, phdrs, reserved, tables, ptes, mem, i, off>>
    BY DEF done, Goto
  <1>2. TypeOK' /\ Held' /\ NothingHeldOnReturn'
    BY <1>1 DEF IInv, TypeOK, Held, NothingHeldOnReturn, Before, Loops
  <1>3. Position' /\ InsideReserved'
    BY <1>1 DEF IInv, Position, InsideReserved, Before, Loops
  <1>4. MappedPages' /\ LoadedBytes' /\ ProtectedPages'
    BY <1>1 DEF MappedPages, LoadedBytes, ProtectedPages, Loops
  <1>5. EntryMeansComplete'
    <2>1. ASSUME NEW k \in DOMAIN img, Loads(img[k]), NEW n \in 0 .. img[k].memsz - 1
          PROVE  LET p  == img[k]
                     vp == (p.vaddr + n) \div PgSz
                 IN  /\ vp \in DOMAIN ptes
                     /\ ptes[vp].pa = (p.paddr + n) \div PgSz
                     /\ ptes[vp].attr = attr_from_phdr(p)
                     /\ mem[p.paddr + n] = IF n < p.filesz THEN <<k, n>> ELSE Zero
      <3>1. img[k] \in Header /\ img[k].paddr % PgSz = img[k].vaddr % PgSz
        BY <2>1, ImageFacts
      <3>2. PICK m \in SegPages(img[k]) : /\ (img[k].vaddr + n) \div PgSz = PageAt(k, m)
                                          /\ (img[k].paddr + n) \div PgSz = img[k].paddr \div PgSz + m
        BY <3>1, ByteInSegment DEF PageAt
      <3>3. PageAt(k, m) \in DOMAIN ptes /\ ptes[PageAt(k, m)].pa = img[k].paddr \div PgSz + m
        BY <1>1, <2>1, PageMapped DEF Loops
      <3>4. ptes[PageAt(k, m)].attr = attr_from_phdr(img[k])
        BY <1>1, <2>1 DEF IInv, ProtectedPages
      <3>5. mem[img[k].paddr + n] = IF n < img[k].filesz THEN <<k, n>> ELSE Zero
        BY <1>1, <2>1 DEF IInv, LoadedBytes
      <3> QED BY <3>2, <3>3, <3>4, <3>5
    <2> QED BY <1>1, <2>1 DEF EntryMeansComplete, Loads, attr_from_phdr
  <1> QED BY <1>2, <1>3, <1>4, <1>5 DEF IInv

\* The next header, in the middle of a loop or at its end.
LEMMA AdvanceFacts ==
    ASSUME IInv, i \in DOMAIN img, NEW after, Advance(after), img' = img
    PROVE  /\ off' = 0 /\ i' \in Nat \ {0}
           /\ \/ i' = i + 1 /\ i' \in DOMAIN img /\ UNCHANGED pc
              \/ i' = 1 /\ 1 \in DOMAIN img /\ pc' = after /\ \A k \in DOMAIN img : k <= i
PROOF
  BY ImageFacts DEF Advance

\* What is past for the next header.
LEMMA AdvancePast ==
    ASSUME IInv, NEW k \in DOMAIN img, NEW n \in SegPages(img[k]), i \in DOMAIN img, off' = 0, i' = i + 1, Past(k, n)'
    PROVE  k <= i
PROOF
  <1>1. k \in Nat /\ i \in Nat /\ PgSz * n \in Nat
    BY ImageFacts, LoaderAssumption DEF SegPages
  <1> QED BY <1>1 DEF Past

\* MappedPages' from what it says page by page.
LEMMA MappedIntro ==
    ASSUME img' = img,
           ASSUME NEW k \in DOMAIN img, Loads(img[k]), NEW n \in SegPages(img[k]), pc' = "map" => Past(k, n)'
           PROVE  /\ PageAt(k, n) \in DOMAIN ptes' /\ ptes'[PageAt(k, n)].pa = img[k].paddr \div PgSz + n
                  /\ \A l \in DOMAIN img : \A m \in SegPages(img[l]) :
                        Loads(img[l]) /\ (pc' = "map" => Past(l, m)') /\ PageAt(k, n) = PageAt(l, m) => k = l
    PROVE  MappedPages'
PROOF
  <1>1. \A k, n : PageAt(k, n)' = PageAt(k, n)
    BY DEF PageAt
  <1> QED BY <1>1 DEF MappedPages, Loads

LEMMA MapSkipStep ==
    ASSUME IInv, map_skip
    PROVE  IInv'
PROOF
  <1>1. pc = "map" /\ (~Loads(img[i]) \/ off >= SegSize(img[i])) /\ Advance("load")
        /\ UNCHANGED <<Root, idx, img, st, entry, file, phdrs, reserved, tables, ptes, mem>>
    BY DEF map_skip
  <1>2. i \in DOMAIN img
    BY <1>1 DEF IInv, TypeOK
  <1>3. /\ off' = 0 /\ i' \in Nat \ {0}
        /\ \/ i' = i + 1 /\ i' \in DOMAIN img /\ pc' = "map"
           \/ i' = 1 /\ 1 \in DOMAIN img /\ pc' = "load" /\ \A k \in DOMAIN img : k <= i
    BY <1>1, <1>2, AdvanceFacts
  <1>4. TypeOK' /\ Held' /\ NothingHeldOnReturn'
    BY <1>1, <1>3 DEF IInv, TypeOK, Held, NothingHeldOnReturn, Before, Loops
  <1>5. Position' /\ InsideReserved' /\ EntryMeansComplete'
    <2>1. PhysPages' = PhysPages /\ 0 % PgSz = 0
      BY <1>1, LoaderAssumption DEF PhysPages, Loads
    <2>2. Position' /\ InsideReserved'
      BY <1>1, <1>3, <2>1 DEF IInv, Position, InsideReserved, Before, Loops
    <2>3. entry' = 0
      BY <1>1 DEF IInv, Held, Loops, TypeOK
    <2> QED BY <2>2, <2>3 DEF EntryMeansComplete
  <1>6. MappedPages'
    <2>1. ASSUME NEW k \in DOMAIN img, Loads(img[k]), NEW n \in SegPages(img[k]), pc' = "map" => Past(k, n)'
          PROVE  Past(k, n)
      <3>1. k <= i
        BY <1>2, <1>3, <2>1, AdvancePast
      <3> QED BY <1>1, <1>2, <2>1, <3>1, PagesPast
    <2>2. ASSUME NEW k \in DOMAIN img, Loads(img[k]), NEW n \in SegPages(img[k]), pc' = "map" => Past(k, n)'
          PROVE  /\ PageAt(k, n) \in DOMAIN ptes' /\ ptes'[PageAt(k, n)].pa = img[k].paddr \div PgSz + n
                 /\ \A l \in DOMAIN img : \A m \in SegPages(img[l]) :
                        Loads(img[l]) /\ (pc' = "map" => Past(l, m)') /\ PageAt(k, n) = PageAt(l, m) => k = l
      <3>1. Past(k, n)
        BY <2>1, <2>2
      <3> QED BY <1>1, <2>1, <2>2, <3>1, PageMapped DEF Loops
    <2> QED BY <1>1, <2>2, MappedIntro
  <1>7. LoadedBytes' /\ ProtectedPages'
    <2>1. \A k \in DOMAIN img : ~(k < 1)
      BY ImageFacts
    <2> QED BY <1>1, <1>3, <2>1 DEF LoadedBytes, ProtectedPages
  <1> QED BY <1>4, <1>5, <1>6, <1>7 DEF IInv

LEMMA MapPageStep ==
    ASSUME IInv, page_map4k_to
    PROVE  IInv'
PROOF
  <1> DEFINE h == off \div PgSz
  <1>1. /\ pc = "map" /\ Loads(img[i]) /\ off < SegSize(img[i]) /\ VPage \notin DOMAIN ptes
        /\ off' = off + PgSz
        /\ UNCHANGED <<Root, idx, img, pc, st, entry, file, phdrs, reserved, mem, i>>
    BY DEF page_map4k_to
  <1>2. i \in DOMAIN img
    BY <1>1 DEF IInv, TypeOK
  <1>3. /\ h \in Nat /\ off = PgSz * h /\ VPage = PageAt(i, h) /\ VPage \in Nat /\ h \in SegPages(img[i])
        /\ (align_down(img[i].paddr) + off) \div PgSz = img[i].paddr \div PgSz + h
        /\ off' \in Nat /\ off' % PgSz = 0
    BY <1>1, <1>2, Here
  <1> HIDE DEF h
  <1>4. /\ DOMAIN ptes' = DOMAIN ptes \cup {PageAt(i, h)}
        /\ ptes'[PageAt(i, h)].pa = img[i].paddr \div PgSz + h
        /\ ptes'[PageAt(i, h)] \in [pa : Nat, attr : [w : BOOLEAN, x : BOOLEAN]]
        /\ \A v \in DOMAIN ptes : ptes'[v] = ptes[v]
    <2> DEFINE new == [pa |-> img[i].paddr \div PgSz + h, attr |-> temp_attr_for_load(img[i])]
    <2>1. ptes' = [v \in DOMAIN ptes \cup {VPage} |-> IF v = VPage THEN new ELSE ptes[v]]
      BY <1>3 DEF page_map4k_to
    <2>2. new.pa = img[i].paddr \div PgSz + h /\ new \in [pa : Nat, attr : [w : BOOLEAN, x : BOOLEAN]]
      <3>1. img[i].paddr \div PgSz + h \in Nat
        <4>1. img[i].paddr \in Nat
          BY <1>2, ImageFacts DEF Header
        <4>2. img[i].paddr \div PgSz \in Nat
          BY <4>1, Div
        <4> QED BY <1>3, <4>2
      <3>2. temp_attr_for_load(img[i]) \in [w : BOOLEAN, x : BOOLEAN]
        BY <1>2, ImageFacts DEF Header, temp_attr_for_load
      <3> QED BY <3>1, <3>2
    <2> HIDE DEF new
    <2> QED BY <1>1, <1>3, <2>1, <2>2
  <1>5. tables' \subseteq (1 .. 3) \X Nat
    <2>1. Fan \in Nat \ {0} /\ Fan * Fan \in Nat \ {0} /\ Fan * Fan * Fan \in Nat \ {0}
      BY LoaderAssumption
    <2>2. VPage \div (Fan * Fan * Fan) \in Nat /\ VPage \div (Fan * Fan) \in Nat /\ VPage \div Fan \in Nat
      BY <1>3, <2>1
    <2>3. \A k \in 1 .. 3 : Path[k] \in (1 .. 3) \X Nat
      BY <2>2 DEF Path
    <2> QED BY <2>3 DEF page_map4k_to, IInv, TypeOK
  <1>6. TypeOK'
    BY <1>1, <1>3, <1>4, <1>5 DEF IInv, TypeOK
  <1>7. Held' /\ NothingHeldOnReturn'
    BY <1>1 DEF IInv, Held, NothingHeldOnReturn
  <1>8. PhysPages' = PhysPages /\ reserved = PhysPages
    BY <1>1 DEF PhysPages, Loads, IInv, Position, Loops
  <1>9. Position'
    BY <1>1, <1>3, <1>8 DEF IInv, Position, Before, Loops
  <1>10. InsideReserved'
    <2>1. img[i].paddr \div PgSz + h \in PhysPages
      BY <1>1, <1>2, <1>3, SegmentReserved
    <2> QED BY <1>1, <1>4, <1>8, <2>1 DEF IInv, InsideReserved
  <1>11. EntryMeansComplete'
    <2>1. entry' = 0
      BY <1>1 DEF IInv, Held, Loops
    <2> QED BY <2>1 DEF EntryMeansComplete
  <1>12. ASSUME NEW k \in DOMAIN img, NEW n \in SegPages(img[k]), Past(k, n)'
         PROVE  Past(k, n) \/ (k = i /\ n = h)
    <2>1. k \in Nat /\ i \in Nat /\ n \in Nat /\ PgSz \in Nat \ {0}
      BY <1>2, ImageFacts, LoaderAssumption DEF SegPages
    <2>2. CASE k = i /\ ~(k < i)
      <3>1. PgSz * n < PgSz * h + PgSz
        BY <1>1, <1>3, <1>12, <2>2 DEF Past
      <3>2. n <= h
        BY <1>3, <2>1, <3>1
      <3>3. n < h => PgSz * n < PgSz * h
        BY <1>3, <2>1
      <3> QED BY <1>3, <2>1, <2>2, <3>2, <3>3 DEF Past
    <2> QED BY <1>1, <1>12, <2>1, <2>2 DEF Past
  <1>13. MappedPages'
    <2>1. ASSUME NEW k \in DOMAIN img, Loads(img[k]), NEW n \in SegPages(img[k]), Past(k, n)
          PROVE  PageAt(k, n) \in DOMAIN ptes /\ PageAt(k, n) # PageAt(i, h)
      BY <1>1, <1>3, <2>1, PageMapped DEF Loops
    <2>2. ASSUME NEW k \in DOMAIN img, Loads(img[k]), NEW n \in SegPages(img[k]), pc' = "map" => Past(k, n)'
          PROVE  /\ PageAt(k, n) \in DOMAIN ptes' /\ ptes'[PageAt(k, n)].pa = img[k].paddr \div PgSz + n
                 /\ \A l \in DOMAIN img : \A m \in SegPages(img[l]) :
                        Loads(img[l]) /\ (pc' = "map" => Past(l, m)') /\ PageAt(k, n) = PageAt(l, m) => k = l
      <3>1. Past(k, n) \/ (k = i /\ n = h)
        BY <1>1, <1>12, <2>2
      <3>2. PageAt(k, n) \in DOMAIN ptes' /\ ptes'[PageAt(k, n)].pa = img[k].paddr \div PgSz + n
        BY <1>1, <1>4, <2>1, <2>2, <3>1, PageMapped DEF Loops
      <3>3. ASSUME NEW l \in DOMAIN img, NEW m \in SegPages(img[l]), Loads(img[l]), Past(l, m)', PageAt(k, n) = PageAt(l, m)
            PROVE  k = l
        <4>1. Past(l, m) \/ (l = i /\ m = h)
          BY <1>12, <3>3
        <4>2. CASE Past(k, n) /\ Past(l, m)
          BY <1>1, <2>2, <3>3, <4>2, PageMapped DEF Loops
        <4>3. CASE k = i /\ n = h /\ l = i
          BY <4>3
        <4>4. CASE k = i /\ n = h /\ Past(l, m)
          BY <2>1, <3>3, <4>4
        <4>5. CASE l = i /\ m = h /\ Past(k, n)
          BY <2>1, <2>2, <3>3, <4>5
        <4> QED BY <3>1, <4>1, <4>2, <4>3, <4>4, <4>5
      <3> QED BY <1>1, <3>2, <3>3
    <2> QED BY <1>1, <2>2, MappedIntro
  <1>14. LoadedBytes' /\ ProtectedPages'
    BY <1>1 DEF LoadedBytes, ProtectedPages
  <1> QED BY <1>6, <1>7, <1>9, <1>10, <1>11, <1>13, <1>14 DEF IInv

\* The ways out of the loops that skip the rest of the work: st is kept, no entry point is given.
LEMMA FailStep ==
    ASSUME IInv, map_fails \/ finalize_fails
    PROVE  IInv'
PROOF
  <1>1. /\ pc \in {"map", "finalize"} /\ pc' = "cleanup_ph" /\ st' = st
        /\ UNCHANGED <<Root, idx, img, entry, file, phdrs, reserved, ptes, mem, i, off>>
    BY DEF map_fails, finalize_fails, Goto
  <1>2. i \in DOMAIN img
    BY <1>1 DEF IInv, TypeOK
  <1>3. tables' \subseteq (1 .. 3) \X Nat
    <2>1. Fan \in Nat \ {0} /\ Fan * Fan \in Nat \ {0} /\ Fan * Fan * Fan \in Nat \ {0}
      BY LoaderAssumption
    <2>2. VPage \in Nat
      BY <1>2, Here
    <2>3. VPage \div (Fan * Fan * Fan) \in Nat /\ VPage \div (Fan * Fan) \in Nat /\ VPage \div Fan \in Nat
      BY <2>1, <2>2
    <2>4. \A k \in 1 .. 3 : Path[k] \in (1 .. 3) \X Nat
      BY <2>3 DEF Path
    <2>5. \A k \in 1 .. 3 : \A j \in 1 .. k - 1 : j \in 1 .. 3
      OBVIOUS
    <2> QED BY <2>4, <2>5 DEF map_fails, finalize_fails, IInv, TypeOK
  <1>4. TypeOK' /\ Held' /\ NothingHeldOnReturn'
    BY <1>1, <1>3 DEF IInv, TypeOK, Held, NothingHeldOnReturn, Before, Loops
  <1>5. Position' /\ InsideReserved'
    BY <1>1 DEF IInv, Position, InsideReserved, Before, Loops
  <1>6. MappedPages' /\ LoadedBytes' /\ ProtectedPages'
    BY <1>1 DEF MappedPages, LoadedBytes, ProtectedPages, Loops
  <1>7. EntryMeansComplete'
    <2>1. entry' = 0
      BY <1>1 DEF IInv, Held, Loops
    <2> QED BY <2>1 DEF EntryMeansComplete
  <1> QED BY <1>4, <1>5, <1>6, <1>7 DEF IInv

\* The steps of the loading loop do not touch the page tables.
LEMMA LoadKeepsPages ==
    ASSUME IInv, pc = "load", pc' \in {"load", "finalize", "cleanup_ph"}, pc' = "finalize" => i' = 1 /\ off' = 0,
           UNCHANGED <<Root, idx, img, entry, file, phdrs, reserved, tables, ptes>>, st' \in {"unset", "success", "error"},
           i' \in Nat \ {0}, off' \in Nat, off' % PgSz = 0, pc' \in {"load", "finalize"} => i' \in DOMAIN img
    PROVE  TypeOK' /\ Held' /\ NothingHeldOnReturn' /\ Position' /\ MappedPages' /\ ProtectedPages' /\ EntryMeansComplete'
PROOF
  <1>1. TypeOK' /\ Held' /\ NothingHeldOnReturn'
    BY DEF IInv, TypeOK, Held, NothingHeldOnReturn, Before, Loops
  <1>2. PhysPages' = PhysPages
    BY DEF PhysPages, Loads
  <1>3. Position'
    BY <1>2 DEF IInv, Position, Before, Loops
  <1>4. MappedPages'
    <2>1. CASE pc' = "cleanup_ph"
      BY <2>1 DEF MappedPages, Loops
    <2>2. CASE pc' # "cleanup_ph"
      <3>1. ASSUME NEW k \in DOMAIN img, Loads(img[k]), NEW n \in SegPages(img[k])
            PROVE  /\ PageAt(k, n) \in DOMAIN ptes' /\ ptes'[PageAt(k, n)].pa = img[k].paddr \div PgSz + n
                   /\ \A l \in DOMAIN img : \A m \in SegPages(img[l]) :
                        Loads(img[l]) /\ PageAt(k, n) = PageAt(l, m) => k = l
        BY <3>1, PageMapped DEF Loops
      <3> QED BY <2>2, <3>1, MappedIntro
    <2> QED BY <2>1, <2>2
  <1>5. ProtectedPages'
    <2>1. CASE pc' # "finalize"
      BY <2>1 DEF ProtectedPages
    <2>2. CASE pc' = "finalize"
      <3>1. ASSUME NEW k \in DOMAIN img, NEW n \in SegPages(img[k])
            PROVE  ~Past(k, n)'
        <4>1. k >= 1 /\ k \in Nat /\ PgSz * n \in Nat
          BY ImageFacts, LoaderAssumption DEF SegPages
        <4> QED BY <2>2, <4>1 DEF Past
      <3> QED BY <2>2, <3>1 DEF ProtectedPages
    <2> QED BY <2>1, <2>2
  <1>6. EntryMeansComplete'
    <2>1. entry' = 0
      BY DEF IInv, Held, Loops
    <2> QED BY <2>1 DEF EntryMeansComplete
  <1> QED BY <1>1, <1>3, <1>4, <1>5, <1>6

\* Bytes of two loaded segments are apart.
LEMMA BytesApart ==
    ASSUME IInv, NEW k \in DOMAIN img, NEW l \in DOMAIN img, Loads(img[k]), Loads(img[l]), k # l,
           NEW n \in 0 .. img[k].memsz - 1
    PROVE  img[k].paddr + n \notin SegBytes(img[l])
PROOF
  <1>1. /\ img[k].paddr \in Nat /\ img[k].memsz \in Nat /\ img[l].paddr \in Nat /\ img[l].memsz \in Nat
    BY ImageFacts DEF Header
  <1>2. img \in Images
    BY DEF IInv, Position
  <1>3. img[k].paddr + img[k].memsz <= img[l].paddr \/ img[l].paddr + img[l].memsz <= img[k].paddr
    BY <1>2, ImagesAssumption DEF Loads
  <1> DEFINE a == img[k].paddr
             s == img[k].memsz
             b == img[l].paddr
             t == img[l].memsz
  <1>4. a \in Nat /\ s \in Nat /\ b \in Nat /\ t \in Nat /\ n \in 0 .. s - 1 /\ (a + s <= b \/ b + t <= a)
    BY <1>1, <1>3
  <1> HIDE DEF a, s, b, t
  <1>5. a + n \notin b .. b + t - 1
    BY <1>4
  <1> QED BY <1>5 DEF SegBytes, a, b, t

LEMMA LoadStep ==
    ASSUME IInv, load_skip \/ load_segment
    PROVE  IInv'
PROOF
  <1>1. pc = "load" /\ i \in DOMAIN img
    BY DEF load_skip, load_segment, IInv, TypeOK
  <1>2. UNCHANGED <<Root, idx, img, entry, file, phdrs, reserved, tables, ptes>>
    BY DEF load_skip, load_segment
  <1>3. 0 % PgSz = 0 /\ reserved = PhysPages
    BY <1>1, LoaderAssumption DEF IInv, Position, Loops
  <1>4. CASE load_skip
    <2>1. ~Loads(img[i]) /\ Advance("finalize") /\ UNCHANGED <<st, mem>>
      BY <1>4 DEF load_skip
    <2>2. /\ off' = 0 /\ i' \in Nat \ {0}
          /\ \/ i' = i + 1 /\ i' \in DOMAIN img /\ pc' = "load"
             \/ i' = 1 /\ 1 \in DOMAIN img /\ pc' = "finalize" /\ \A k \in DOMAIN img : k <= i
      BY <1>1, <1>2, <2>1, AdvanceFacts
    <2>3. TypeOK' /\ Held' /\ NothingHeldOnReturn' /\ Position' /\ MappedPages' /\ ProtectedPages' /\ EntryMeansComplete'
      <3>1. st' \in {"unset", "success", "error"} /\ 0 \in Nat
        BY <2>1 DEF IInv, TypeOK
      <3> QED BY <1>1, <1>2, <1>3, <2>2, <3>1, LoadKeepsPages
    <2>4. InsideReserved'
      BY <1>2, <2>1 DEF IInv, InsideReserved
    <2>5. LoadedBytes'
      <3>1. ASSUME NEW k \in DOMAIN img, Loads(img[k]), pc' = "load" => k < i'
            PROVE  k < i
        <4>1. k \in Nat /\ i \in Nat /\ k # i
          BY <1>1, <2>1, <3>1, ImageFacts
        <4> QED BY <2>2, <3>1, <4>1
      <3> QED BY <1>1, <1>2, <2>1, <3>1 DEF IInv, LoadedBytes, Loads
    <2> QED BY <2>3, <2>4, <2>5 DEF IInv
  <1>5. CASE load_segment
    <2> DEFINE p == img[i]
    <2>1. /\ Loads(p) /\ p \in Header /\ p.paddr \in Nat /\ p.memsz \in Nat /\ p.filesz \in Nat /\ p.filesz <= p.memsz
      BY <1>1, <1>5, ImageFacts DEF load_segment, Header
    <2>2. CASE mem' = Written(p, SegBytes(p)) /\ Advance("finalize") /\ st' = "success"
      <3>1. /\ off' = 0 /\ i' \in Nat \ {0}
            /\ \/ i' = i + 1 /\ i' \in DOMAIN img /\ pc' = "load"
               \/ i' = 1 /\ 1 \in DOMAIN img /\ pc' = "finalize" /\ \A k \in DOMAIN img : k <= i
        BY <1>1, <1>2, <2>2, AdvanceFacts
      <3>2. TypeOK' /\ Held' /\ NothingHeldOnReturn' /\ Position' /\ MappedPages' /\ ProtectedPages' /\ EntryMeansComplete'
        <4>1. st' \in {"unset", "success", "error"} /\ 0 \in Nat
          BY <2>2
        <4> QED BY <1>1, <1>2, <1>3, <3>1, <4>1, LoadKeepsPages
      <3>3. /\ DOMAIN mem' = DOMAIN mem \cup SegBytes(p)
            /\ \A b \in DOMAIN mem : b \notin SegBytes(p) => mem'[b] = mem[b]
            /\ \A b \in SegBytes(p) : mem'[b] = IF b < p.paddr + p.filesz THEN <<i, b - p.paddr>> ELSE Zero
        BY <2>2 DEF Written
      <3>4. InsideReserved'
        BY <1>1, <1>2, <1>3, <2>1, <3>3, SegmentReserved DEF IInv, InsideReserved
      <3>5. LoadedBytes'
        <4>1. ASSUME NEW k \in DOMAIN img, Loads(img[k]), NEW n \in 0 .. img[k].memsz - 1, pc' = "load" => k < i'
              PROVE  /\ img[k].paddr + n \in DOMAIN mem'
                     /\ mem'[img[k].paddr + n] = IF n < img[k].filesz THEN <<k, n>> ELSE Zero
          <5>1. k \in Nat /\ i \in Nat
            BY <1>1, ImageFacts
          <5>2. CASE k < i
            <6>1. /\ img[k].paddr + n \in DOMAIN mem
                  /\ mem[img[k].paddr + n] = IF n < img[k].filesz THEN <<k, n>> ELSE Zero
              BY <1>1, <4>1, <5>2 DEF IInv, LoadedBytes
            <6>2. img[k].paddr + n \notin SegBytes(p)
              BY <1>1, <2>1, <4>1, <5>1, <5>2, BytesApart
            <6> QED BY <3>3, <6>1, <6>2
          <5>3. CASE k = i
            <6> DEFINE b == p.paddr + n
            <6>1. b \in SegBytes(p) /\ (b < p.paddr + p.filesz <=> n < p.filesz) /\ b - p.paddr = n
              BY <2>1, <5>3 DEF SegBytes
            <6> HIDE DEF b
            <6>2. b \in DOMAIN mem' /\ mem'[b] = IF b < p.paddr + p.filesz THEN <<i, b - p.paddr>> ELSE Zero
              BY <3>3, <6>1
            <6>3. mem'[b] = IF n < p.filesz THEN <<i, n>> ELSE Zero
              BY <6>1, <6>2
            <6>4. b = img[k].paddr + n /\ p.filesz = img[k].filesz
              BY <5>3 DEF b
            <6> QED BY <5>3, <6>2, <6>3, <6>4
          <5> QED BY <3>1, <4>1, <5>1, <5>2, <5>3
        <4> QED BY <1>2, <4>1 DEF LoadedBytes, Loads
      <3> QED BY <3>2, <3>4, <3>5 DEF IInv
    <2>3. CASE /\ \E n \in 0 .. p.filesz - 1 : mem' = Written(p, p.paddr .. p.paddr + n - 1)
               /\ Goto("cleanup_ph", "error") /\ UNCHANGED <<i, off>>
      <3>1. PICK n \in 0 .. p.filesz - 1 : mem' = Written(p, p.paddr .. p.paddr + n - 1)
        BY <2>3
      <3>2. TypeOK' /\ Held' /\ NothingHeldOnReturn' /\ Position' /\ MappedPages' /\ ProtectedPages' /\ EntryMeansComplete'
        <4>1. /\ st' \in {"unset", "success", "error"} /\ pc' = "cleanup_ph" /\ i' \in Nat \ {0} /\ off' \in Nat
              /\ off' % PgSz = 0
          BY <2>3 DEF Goto, IInv, Position
        <4> QED BY <1>1, <1>2, <4>1, LoadKeepsPages
      <3>3. DOMAIN mem' = DOMAIN mem \cup (p.paddr .. p.paddr + n - 1)
        BY <3>1 DEF Written
      <3>4. p.paddr .. p.paddr + n - 1 \subseteq SegBytes(p)
        BY <2>1 DEF SegBytes
      <3>5. InsideReserved'
        BY <1>1, <1>2, <1>3, <2>1, <3>3, <3>4, SegmentReserved DEF IInv, InsideReserved
      <3>6. LoadedBytes'
        BY <2>3 DEF Goto, LoadedBytes
      <3> QED BY <3>2, <3>5, <3>6 DEF IInv
    <2> QED BY <1>5, <2>2, <2>3 DEF load_segment
  <1> QED BY <1>4, <1>5

\* The page a header's protection is applied to belongs to no other loaded segment.
LEMMA PageApart ==
    ASSUME IInv, pc = "finalize", i \in DOMAIN img, img[i].load, off < SegSize(img[i]),
           NEW k \in DOMAIN img, Loads(img[k]), NEW n \in SegPages(img[k]), PageAt(k, n) = VPage
    PROVE  k = i
PROOF
  <1> DEFINE h == off \div PgSz
  <1>1. h \in Nat /\ off = PgSz * h /\ VPage = PageAt(i, h) /\ h \in SegPages(img[i])
    BY Here
  <1>2. CASE Loads(img[i])
    <2> HIDE DEF h
    <2> QED BY <1>1, <1>2, PageMapped DEF Loops
  <1>3. CASE ~Loads(img[i])
    <2> DEFINE q == img[i]
               p == img[k]
    <2>1. /\ q \in Header /\ q.memsz = 0 /\ q.vaddr \in Nat /\ p \in Header /\ p.vaddr \in Nat /\ p.memsz \in Nat
          /\ p.memsz > 0 /\ PgSz \in Nat \ {0}
      BY <1>3, ImageFacts, LoaderAssumption, SMTT(30) DEF Loads, Header
    <2> HIDE DEF h
    <2>2. PgSz * h < q.vaddr % PgSz
      <3>1. PgSz * h < q.memsz + (q.vaddr % PgSz) /\ q.vaddr % PgSz \in Nat
        <4>1. PgSz * h < SegSize(q)
          BY <1>1, <2>1, SegmentPages
        <4>2. q.vaddr % PgSz \in 0 .. PgSz - 1
          BY <2>1, Div
        <4>3. PgSz * h < SegSize(q) <=> PgSz * h < q.memsz + (q.vaddr % PgSz)
          <5> HIDE DEF q
          <5> QED BY <1>1, <2>1, SegmentPages
        <4>4. q.vaddr % PgSz \in Nat
          BY <2>1, <4>2
        <4> QED BY <4>1, <4>3, <4>4
      <3> QED BY <2>1, <3>1
    <2>3. h = 0 /\ q.vaddr % PgSz # 0
      <3>1. q.vaddr % PgSz \in 0 .. PgSz - 1
        BY <2>1, Div
      <3> DEFINE r == q.vaddr % PgSz
      <3>2. r \in 0 .. PgSz - 1 /\ PgSz * h < r
        BY <2>2, <3>1
      <3> HIDE DEF r
      <3>3. h = 0 /\ r # 0
        BY <1>1, <2>1, <3>2
      <3> QED BY <3>3 DEF r
    <2>4. VPage = q.vaddr \div PgSz
      <3>1. q.vaddr \div PgSz \in Nat
        BY <2>1, Div
      <3> QED BY <1>1, <2>3, <3>1 DEF PageAt
    <2>5. q.vaddr \div PgSz \notin p.vaddr \div PgSz .. (p.vaddr + p.memsz - 1) \div PgSz
      <3>1. img \in Images
        BY DEF IInv, Position
      <3> QED BY <2>1, <2>3, <3>1, ImagesAssumption DEF Loads
    <2>6. PageAt(k, n) \in p.vaddr \div PgSz .. (p.vaddr + p.memsz - 1) \div PgSz
      <3> DEFINE v == p.vaddr
                 s == p.memsz
      <3>1. n \in Nat /\ PgSz * n < s + (v % PgSz)
        BY <2>1, SegmentPages DEF SegPages
      <3>2. v \in Nat /\ s \in Nat /\ s > 0
        BY <2>1
      <3> HIDE DEF v, s
      <3>3. v \div PgSz \in Nat /\ v % PgSz \in Nat /\ v = PgSz * (v \div PgSz) + (v % PgSz)
        BY <3>2, Div
      <3> DEFINE x == PgSz * (v \div PgSz + n)
      <3>4. x \in Nat /\ x <= v + s - 1 /\ v + s - 1 \in Nat
        BY <2>1, <3>1, <3>2, <3>3
      <3>5. x \div PgSz = v \div PgSz + n
        <4>1. v \div PgSz + n \in Nat
          BY <3>1, <3>3
        <4> QED BY <4>1, Multiple
      <3> HIDE DEF x
      <3>6. v \div PgSz + n <= (v + s - 1) \div PgSz /\ (v + s - 1) \div PgSz \in Nat
        BY <3>4, <3>5, DivMono, Div
      <3>7. v \div PgSz + n \in v \div PgSz .. (v + s - 1) \div PgSz
        BY <3>1, <3>3, <3>6
      <3> QED BY <3>7 DEF v, s, PageAt
    <2> QED BY <2>4, <2>5, <2>6
  <1> QED BY <1>2, <1>3

LEMMA FinalizeStep ==
    ASSUME IInv, finalize_skip \/ page_set_attr_4k
    PROVE  IInv'
PROOF
  <1>1. pc = "finalize" /\ i \in DOMAIN img
    BY DEF finalize_skip, page_set_attr_4k, IInv, TypeOK
  <1>2. UNCHANGED <<Root, idx, img, st, entry, file, phdrs, reserved, tables, mem>>
    BY DEF finalize_skip, page_set_attr_4k
  <1>3. 0 % PgSz = 0 /\ PhysPages' = PhysPages
    BY <1>2, LoaderAssumption DEF PhysPages, Loads
  <1>4. EntryMeansComplete'
    <2>1. entry' = 0
      BY <1>1, <1>2 DEF IInv, Held, Loops
    <2> QED BY <2>1 DEF EntryMeansComplete
  <1>5. CASE finalize_skip
    <2>1. /\ ~img[i].load \/ off >= SegSize(img[i])
          /\ Advance("done") /\ UNCHANGED ptes
      BY <1>5 DEF finalize_skip
    <2>2. /\ off' = 0 /\ i' \in Nat \ {0}
          /\ \/ i' = i + 1 /\ i' \in DOMAIN img /\ pc' = "finalize"
             \/ i' = 1 /\ 1 \in DOMAIN img /\ pc' = "done" /\ \A k \in DOMAIN img : k <= i
      BY <1>1, <1>2, <2>1, AdvanceFacts
    <2>3. TypeOK' /\ Held' /\ NothingHeldOnReturn'
      BY <1>1, <1>2, <2>1, <2>2 DEF IInv, TypeOK, Held, NothingHeldOnReturn, Before, Loops
    <2>4. Position' /\ InsideReserved'
      BY <1>1, <1>2, <1>3, <2>1, <2>2 DEF IInv, Position, InsideReserved, Before, Loops
    <2>5. MappedPages'
      <3>1. ASSUME NEW k \in DOMAIN img, Loads(img[k]), NEW n \in SegPages(img[k])
            PROVE  /\ PageAt(k, n) \in DOMAIN ptes' /\ ptes'[PageAt(k, n)].pa = img[k].paddr \div PgSz + n
                   /\ \A l \in DOMAIN img : \A m \in SegPages(img[l]) :
                        Loads(img[l]) /\ PageAt(k, n) = PageAt(l, m) => k = l
        BY <1>1, <2>1, <3>1, PageMapped DEF Loops
      <3> QED BY <1>2, <2>2, <3>1, MappedIntro
    <2>6. LoadedBytes'
      BY <1>1, <1>2, <2>2 DEF IInv, LoadedBytes, Loads
    <2>7. ProtectedPages'
      <3>1. ASSUME NEW k \in DOMAIN img, Loads(img[k]), NEW n \in SegPages(img[k]), pc' = "finalize" => Past(k, n)'
            PROVE  ptes[PageAt(k, n)].attr = attr_from_phdr(img[k])
        <4>1. k <= i
          BY <1>1, <2>2, <3>1, AdvancePast
        <4>2. Past(k, n)
          BY <1>1, <2>1, <3>1, <4>1, PagesPast DEF Loads
        <4> QED BY <1>1, <3>1, <4>2 DEF IInv, ProtectedPages
      <3>2. \A k, n : PageAt(k, n)' = PageAt(k, n)
        BY <1>2 DEF PageAt
      <3> QED BY <1>2, <2>1, <3>1, <3>2 DEF ProtectedPages, Loads, attr_from_phdr
    <2> QED BY <1>4, <2>3, <2>4, <2>5, <2>6, <2>7 DEF IInv
  <1>6. CASE page_set_attr_4k
    <2> DEFINE h == off \div PgSz
    <2>1. /\ img[i].load /\ off < SegSize(img[i]) /\ VPage \in DOMAIN ptes /\ off' = off + PgSz
          /\ ptes' = [ptes EXCEPT ![VPage].attr = attr_from_phdr(img[i])] /\ UNCHANGED <<pc, i>>
      BY <1>6 DEF page_set_attr_4k
    <2>2. /\ h \in Nat /\ off = PgSz * h /\ VPage = PageAt(i, h) /\ h \in SegPages(img[i])
          /\ off' \in Nat /\ off' % PgSz = 0
      BY <1>1, <2>1, Here
    <2> HIDE DEF h
    <2>3. /\ DOMAIN ptes' = DOMAIN ptes
          /\ \A v \in DOMAIN ptes : v # VPage => ptes'[v] = ptes[v]
          /\ ptes'[VPage] = [ptes[VPage] EXCEPT !.attr = attr_from_phdr(img[i])]
      BY <2>1
    <2>10. /\ ptes'[VPage] \in [pa : Nat, attr : [w : BOOLEAN, x : BOOLEAN]] /\ ptes'[VPage].pa = ptes[VPage].pa
           /\ ptes'[VPage].attr = attr_from_phdr(img[i])
      <3>1. attr_from_phdr(img[i]) \in [w : BOOLEAN, x : BOOLEAN]
        BY <1>1, ImageFacts DEF Header, attr_from_phdr
      <3>2. ptes[VPage] \in [pa : Nat, attr : [w : BOOLEAN, x : BOOLEAN]]
        BY <2>1 DEF IInv, TypeOK
      <3> QED BY <2>3, <3>1, <3>2
    <2>4. \A v \in DOMAIN ptes : ptes'[v].pa = ptes[v].pa
      BY <2>3, <2>10
    <2>5. TypeOK' /\ Held' /\ NothingHeldOnReturn'
      BY <1>1, <1>2, <2>1, <2>3, <2>10 DEF IInv, TypeOK, Held, NothingHeldOnReturn, Before, Loops
    <2>6. Position' /\ InsideReserved'
      BY <1>1, <1>2, <1>3, <2>1, <2>2, <2>3, <2>4 DEF IInv, Position, InsideReserved, Before, Loops
    <2>7. MappedPages'
      <3>1. ASSUME NEW k \in DOMAIN img, Loads(img[k]), NEW n \in SegPages(img[k])
            PROVE  /\ PageAt(k, n) \in DOMAIN ptes' /\ ptes'[PageAt(k, n)].pa = img[k].paddr \div PgSz + n
                   /\ \A l \in DOMAIN img : \A m \in SegPages(img[l]) :
                        Loads(img[l]) /\ PageAt(k, n) = PageAt(l, m) => k = l
        BY <1>1, <2>3, <2>4, <3>1, PageMapped DEF Loops
      <3> QED BY <1>1, <1>2, <2>1, <3>1, MappedIntro
    <2>8. LoadedBytes'
      BY <1>1, <1>2, <2>1 DEF IInv, LoadedBytes, Loads
    <2>9. ProtectedPages'
      <3>1. ASSUME NEW k \in DOMAIN img, Loads(img[k]), NEW n \in SegPages(img[k]), Past(k, n)'
            PROVE  ptes'[PageAt(k, n)].attr = attr_from_phdr(img[k])
        <4>1. PageAt(k, n) \in DOMAIN ptes
          BY <1>1, <3>1, PageMapped DEF Loops
        <4>2. CASE PageAt(k, n) = VPage
          <5>1. k = i
            BY <1>1, <2>1, <3>1, <4>2, PageApart
          <5> QED BY <2>10, <4>2, <5>1
        <4>3. CASE PageAt(k, n) # VPage
          <5>1. Past(k, n)
            <6>1. k \in Nat /\ i \in Nat /\ n \in Nat /\ PgSz \in Nat \ {0}
              BY <1>1, ImageFacts, LoaderAssumption DEF SegPages
            <6>2. CASE k = i
              <7>1. PgSz * n < PgSz * h + PgSz
                BY <2>1, <2>2, <3>1, <6>1, <6>2 DEF Past
              <7>2. n <= h /\ n # h
                BY <2>2, <4>3, <6>1, <6>2, <7>1
              <7>3. n < h => PgSz * n < PgSz * h
                BY <2>2, <6>1
              <7> QED BY <2>2, <6>1, <6>2, <7>2, <7>3 DEF Past
            <6> QED BY <2>1, <3>1, <6>1, <6>2 DEF Past
          <5>2. ptes[PageAt(k, n)].attr = attr_from_phdr(img[k])
            BY <1>1, <3>1, <5>1 DEF IInv, ProtectedPages
          <5> QED BY <2>3, <4>1, <4>3, <5>2
        <4> QED BY <4>2, <4>3
      <3>2. \A k, n : PageAt(k, n)' = PageAt(k, n)
        BY <1>2 DEF PageAt
      <3> QED BY <1>1, <1>2, <2>1, <3>1, <3>2 DEF ProtectedPages, Loads, attr_from_phdr
    <2> QED BY <1>4, <2>5, <2>6, <2>7, <2>8, <2>9 DEF IInv
  <1> QED BY <1>5, <1>6

LEMMA InvStep == IInv /\ [Next]_vars => IInv'
PROOF
  <1> SUFFICES ASSUME IInv, [Next]_vars PROVE IInv'
    OBVIOUS
  <1>1. CASE Next
    BY <1>1, FileStep, AllocateStep, DoneStep, MapSkipStep, MapPageStep, FailStep, LoadStep, FinalizeStep DEF Next
  <1>2. CASE UNCHANGED vars
    <2>1. UNCHANGED <<Root, idx, img, pc, st, entry, file, phdrs, reserved, tables, ptes, mem, i, off>>
      BY <1>2 DEF vars
    <2>2. PhysPages' = PhysPages /\ \A k, n : PageAt(k, n)' = PageAt(k, n) /\ Past(k, n)' = Past(k, n)
      BY <2>1 DEF PhysPages, Loads, PageAt, Past
    <2>3. TypeOK' /\ Held' /\ NothingHeldOnReturn' /\ Position' /\ InsideReserved'
      BY <2>1, <2>2 DEF IInv, TypeOK, Held, NothingHeldOnReturn, Position, InsideReserved
    <2>4. MappedPages'
      BY <2>1, <2>2 DEF IInv, MappedPages, Loads
    <2>5. LoadedBytes' /\ ProtectedPages' /\ EntryMeansComplete'
      BY <2>1, <2>2 DEF IInv, LoadedBytes, ProtectedPages, EntryMeansComplete, Loads, attr_from_phdr
    <2> QED BY <2>3, <2>4, <2>5 DEF IInv
  <1> QED BY <1>1, <1>2

LEMMA LoaderInvariant == Spec => []IInv
PROOF
  BY InvInit, InvStep, PTL DEF Spec
-----------------------------------------------------------------------------
(* The header loops of load_kernel_elf stay within the program headers, OpenRoot within file_list. *)
THEOREM TypeCorrect == Spec => []TypeOK
PROOF
  <1>1. IInv => TypeOK
    BY DEF IInv
  <1> QED BY <1>1, LoaderInvariant, PTL

(* Whichever firmware call fails, load_kernel_elf closes its file and frees its header buffer, and
   efi_main closes the volume. *)
THEOREM NothingLeaks == Spec => []NothingHeldOnReturn
PROOF
  <1>1. IInv => NothingHeldOnReturn
    BY DEF IInv
  <1> QED BY <1>1, LoaderInvariant, PTL

(* load_kernel_elf writes to no byte and maps no page outside the range it reserved, whatever the
   number, sizes and alignment of the segments. *)
THEOREM StaysInsideReserved == Spec => []InsideReserved
PROOF
  <1>1. IInv => InsideReserved
    BY DEF IInv
  <1> QED BY <1>1, LoaderInvariant, PTL

(* *out_entry is set only when every byte of every segment is loaded, mapped and protected. *)
THEOREM EntryIsComplete == Spec => []EntryMeansComplete
PROOF
  <1>1. IInv => EntryMeansComplete
    BY DEF IInv
  <1> QED BY <1>1, LoaderInvariant, PTL
=============================================================================
