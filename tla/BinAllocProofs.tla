--------------------------- MODULE BinAllocProofs ---------------------------
(***************************************************************************)
(* Proofs about BinAlloc, for any bins and any requests that meet          *)
(* BinsAssumption and KRequestsAssumption.  Divisibility comes first, then *)
(* the inductive invariant IInv, one lemma per path of kmalloc and kfree,  *)
(* then the heap's promise.                                                *)
(***************************************************************************)
EXTENDS BinAlloc, WellFoundedInduction, TLAPS

(* ---- naturals ---- *)

\* A set of naturals that is not empty has a least element.
LEMMA LeastNatural ==
    ASSUME NEW T, T \subseteq Nat, T # {}
    PROVE  \E x \in T : \A y \in T : x <= y
PROOF
  <1> DEFINE R == OpToRel(<, Nat)
  <1>1. IsWellFoundedOn(R, Nat)
    BY NatLessThanWellFounded
  <1>2. \A x, y \in Nat : y < x => <<y, x>> \in R
    BY DEF OpToRel
  <1> HIDE DEF R
  <1>3. PICK x \in T : \A y \in T : ~(<<y, x>> \in R)
    BY <1>1, WFMin
  <1>4. \A y \in T : y \in Nat /\ x \in Nat /\ ~(y < x)
    BY <1>2, <1>3, Zenon
  <1> QED BY <1>3, <1>4

LEMMA Quotient ==
    ASSUME NEW x \in Nat, NEW d \in Nat \ {0}
    PROVE  /\ x \div d \in Nat /\ x % d \in 0 .. d - 1
           /\ x = d * (x \div d) + (x % d)
PROOF
  BY SMT

LEMMA MulMono ==
    ASSUME NEW a \in Nat, NEW b \in Nat, NEW d \in Nat, a <= b
    PROVE  a * d <= b * d /\ a * d \in Nat /\ b * d \in Nat
PROOF
  BY SMT

LEMMA MulNext ==
    ASSUME NEW a \in Nat, NEW b \in Nat, NEW d \in Nat, a < b
    PROVE  a * d + d <= b * d
PROOF
  <1>1. (a + 1) * d = a * d + d
    BY SMT
  <1>2. (a + 1) * d <= b * d
    BY MulMono
  <1> QED BY <1>1, <1>2

\* A multiple leaves no remainder, and nothing else does.
LEMMA NoRemainder ==
    ASSUME NEW x \in Nat, NEW d \in Nat \ {0}
    PROVE  /\ x % d = 0 => x = d * (x \div d)
           /\ \A k \in Nat : x = d * k => x % d = 0 /\ x \div d = k
PROOF
  <1>1. x % d = 0 => x = d * (x \div d)
    BY Quotient, SMT
  <1>2. ASSUME NEW k \in Nat, x = d * k
        PROVE  x % d = 0 /\ x \div d = k
    BY <1>2, SMT
  <1> QED BY <1>1, <1>2

LEMMA DividesTrans ==
    ASSUME NEW a \in Nat \ {0}, NEW b \in Nat \ {0}, NEW c \in Nat, b % a = 0, c % b = 0
    PROVE  c % a = 0
PROOF
  <1> DEFINE m == b \div a
             n == c \div b
  <1>1. b = a * m /\ c = b * n /\ m \in Nat /\ n \in Nat
    BY NoRemainder, Quotient
  <1> HIDE DEF m, n
  <1>2. c = a * (m * n) /\ m * n \in Nat
    BY <1>1, SMT
  <1> QED BY <1>2, NoRemainder

LEMMA DividesProduct ==
    ASSUME NEW a \in Nat \ {0}, NEW b \in Nat, NEW k \in Nat, b % a = 0
    PROVE  (k * b) % a = 0
PROOF
  <1> DEFINE m == b \div a
  <1>1. b = a * m /\ m \in Nat
    BY NoRemainder, Quotient
  <1> HIDE DEF m
  <1>2. k * b = a * (k * m) /\ k * m \in Nat /\ k * b \in Nat
    BY <1>1, SMT
  <1> QED BY <1>2, NoRemainder

LEMMA DividesSum ==
    ASSUME NEW a \in Nat \ {0}, NEW b \in Nat, NEW c \in Nat, b % a = 0, c % a = 0
    PROVE  (b + c) % a = 0
PROOF
  <1> DEFINE m == b \div a
             n == c \div a
  <1>1. b = a * m /\ c = a * n /\ m \in Nat /\ n \in Nat
    BY NoRemainder, Quotient
  <1> HIDE DEF m, n
  <1>2. b + c = a * (m + n) /\ m + n \in Nat /\ b + c \in Nat
    BY <1>1, SMT
  <1> QED BY <1>2, NoRemainder

(* ---- bins and frames ---- *)

LEMMA Sizes ==
    /\ BIN_COUNT \in Nat /\ PageSize \in Nat \ {0} /\ WordSize \in Nat \ {0}
    /\ \A i \in 1 .. BIN_COUNT : BinSizes[i] \in Nat \ {0}
PROOF
  <1>1. WordSize \in Nat \ {0}
    <2>1. FrameCount * PageSize >= 2 * PageSize
      BY FramesAssumption, MulMono
    <2> QED BY <2>1, FramesAssumption
  <1> QED BY <1>1, FramesAssumption, BinsAssumption DEF BIN_COUNT

\* bin_index_for finds the first bin that is large enough, if there is one.
LEMMA BinIndex ==
    ASSUME NEW need \in Nat
    PROVE  \/ /\ bin_index_for(need) = 0
              /\ \A j \in 1 .. BIN_COUNT : need > BinSizes[j]
           \/ /\ bin_index_for(need) \in 1 .. BIN_COUNT
              /\ need <= BinSizes[bin_index_for(need)]
              /\ \A j \in 1 .. bin_index_for(need) - 1 : need > BinSizes[j]
PROOF
  <1> DEFINE T == {i \in 1 .. BIN_COUNT : need <= BinSizes[i]}
             P(i) == need <= BinSizes[i] /\ \A j \in 1 .. i - 1 : need > BinSizes[j]
  <1>1. CASE T = {}
    <2>1. ~ \E i \in 1 .. BIN_COUNT : need <= BinSizes[i]
      BY <1>1
    <2> QED BY <2>1, Sizes DEF bin_index_for
  <1>2. CASE T # {}
    <2>1. T \subseteq Nat
      OBVIOUS
    <2>2. PICK i \in T : \A y \in T : i <= y
      BY <1>2, <2>1, LeastNatural
    <2>3. i \in 1 .. BIN_COUNT /\ P(i)
      <3>1. i \in 1 .. BIN_COUNT /\ need <= BinSizes[i]
        BY <2>2
      <3>2. ASSUME NEW j \in 1 .. i - 1 PROVE need > BinSizes[j]
        <4>1. j \in 1 .. BIN_COUNT /\ j \notin T
          BY <2>2, <3>1, <3>2, Sizes
        <4> QED BY <4>1, Sizes
      <3> QED BY <3>1, <3>2
    <2>4. bin_index_for(need) = CHOOSE x \in 1 .. BIN_COUNT : P(x)
      BY <2>3 DEF bin_index_for
    <2>5. bin_index_for(need) \in 1 .. BIN_COUNT /\ P(bin_index_for(need))
      <3> HIDE DEF P
      <3> QED BY <2>3, <2>4
    <2> QED BY <2>5
  <1> QED BY <1>1, <1>2

\* The bin kfree picks by size alone is not above the one kmalloc picked.
LEMMA BinOfSmaller ==
    ASSUME NEW n \in Nat, NEW need \in Nat, n <= need, bin_index_for(need) > 0
    PROVE  /\ bin_index_for(n) \in 1 .. BIN_COUNT
           /\ BinSizes[bin_index_for(n)] <= BinSizes[bin_index_for(need)]
           /\ BinSizes[bin_index_for(need)] % BinSizes[bin_index_for(n)] = 0
PROOF
  <1> DEFINE i == bin_index_for(n)
             j == bin_index_for(need)
  <1>1. j \in 1 .. BIN_COUNT /\ need <= BinSizes[j] /\ BinSizes[j] \in Nat \ {0}
    BY BinIndex, Sizes
  <1>2. i \in 1 .. BIN_COUNT /\ \A k \in 1 .. i - 1 : n > BinSizes[k]
    BY <1>1, BinIndex, Sizes
  <1> HIDE DEF i, j
  <1>3. i = j \/ i < j
    <2>1. ASSUME j < i PROVE FALSE
      <3>1. j \in 1 .. i - 1
        BY <1>1, <1>2, <2>1, Sizes
      <3>2. n > BinSizes[j]
        BY <1>2, <3>1
      <3> QED BY <1>1, <3>2
    <2> QED BY <1>1, <1>2, <2>1, Sizes
  <1>4. CASE i = j
    <2>1. BinSizes[j] = BinSizes[j] * 1
      BY <1>1
    <2> QED BY <1>1, <1>2, <1>4, <2>1, NoRemainder DEF i, j
  <1>5. CASE i < j
    <2>1. BinSizes[i] < BinSizes[j] /\ BinSizes[j] % BinSizes[i] = 0
      BY <1>1, <1>2, <1>5, BinsAssumption
    <2> QED BY <1>1, <1>2, <2>1, Sizes DEF i, j
  <1> QED BY <1>3, <1>4, <1>5

LEMMA BinInPage ==
    ASSUME NEW i \in 1 .. BIN_COUNT
    PROVE  BinSizes[i] <= PageSize /\ PageSize % BinSizes[i] = 0
PROOF
  <1> DEFINE d == BinSizes[i]
             q == PageSize \div d
  <1>1. d \in Nat \ {0} /\ PageSize \in Nat \ {0} /\ PageSize % d = 0
    BY Sizes, BinsAssumption
  <1>2. q \in Nat /\ PageSize = d * q
    BY <1>1, Quotient, NoRemainder
  <1> HIDE DEF d, q
  <1>3. q # 0
    BY <1>1, <1>2, SMT
  <1>4. d <= PageSize
    BY <1>1, <1>2, <1>3, SMT
  <1> QED BY <1>1, <1>4 DEF d

\* The page count of a size that does not wrap covers the size; a wrapped one is 0.
LEMMA NeedFrames ==
    ASSUME NEW n \in 0 .. WordSize - 1
    PROVE  /\ need_frames(n) \in Nat
           /\ need_frames(n) > 0 => n <= need_frames(n) * PageSize
           /\ n > 0 /\ n + PageSize <= WordSize => need_frames(n) > 0
PROOF
  <1> DEFINE x == n + PageSize - 1
             y == x % WordSize
             q == y \div PageSize
  <1>1. x \in Nat /\ n \in Nat /\ n <= WordSize - 1 /\ PageSize \in Nat \ {0} /\ WordSize \in Nat \ {0}
    BY Sizes
  <1>2. y \in Nat /\ (x < WordSize => y = x) /\ (x >= WordSize => y < PageSize)
    <2>1. x < WordSize => y = x
      BY <1>1
    <2>2. ASSUME x >= WordSize PROVE y < PageSize
      <3>1. CASE PageSize >= WordSize
        BY <1>1, <3>1
      <3>2. CASE PageSize < WordSize
        <4>1. y = x - WordSize
          BY <1>1, <2>2, <3>2
        <4> QED BY <1>1, <4>1
      <3> QED BY <1>1, <3>1, <3>2
    <2>3. y \in Nat
      BY <1>1
    <2> QED BY <2>1, <2>2, <2>3
  <1> HIDE DEF y
  <1>3. q \in Nat /\ y % PageSize \in 0 .. PageSize - 1 /\ y = PageSize * q + (y % PageSize)
    BY <1>1, <1>2, Quotient
  <1> DEFINE r == y % PageSize
  <1>4. r \in 0 .. PageSize - 1 /\ y = PageSize * q + r
    BY <1>3
  <1> HIDE DEF q, r
  <1>5. need_frames(n) = q
    BY DEF need_frames, q, y, x
  <1>6. q > 0 => y >= PageSize
    BY <1>1, <1>3, <1>4, SMT
  <1>7. q = 0 => y < PageSize
    BY <1>1, <1>3, <1>4, SMT
  <1>8. q > 0 => n <= q * PageSize
    <2>1. q > 0 => y = x
      BY <1>1, <1>2, <1>6
    <2>2. PageSize * q = q * PageSize /\ q * PageSize \in Nat
      BY <1>1, <1>3
    <2> QED BY <1>1, <1>4, <2>1, <2>2
  <1>9. n > 0 /\ n + PageSize <= WordSize => q > 0
    BY <1>1, <1>2, <1>3, <1>7
  <1> QED BY <1>3, <1>5, <1>8, <1>9

\* A whole number of pages of alignment comes back as that number.
LEMMA AlignFrames ==
    ASSUME NEW a \in Nat, a > PageSize, a % PageSize = 0, a + PageSize <= WordSize
    PROVE  align_frames(a) \in Nat \ {0} /\ a = align_frames(a) * PageSize
PROOF
  <1> DEFINE k == a \div PageSize
  <1>1. k \in Nat /\ a = PageSize * k /\ PageSize \in Nat \ {0}
    BY Sizes, Quotient, NoRemainder
  <1> HIDE DEF k
  <1>2. k # 0
    BY <1>1, SMT
  <1>3. need_frames(a) = k
    <2>1. (a + PageSize - 1) % WordSize = a + PageSize - 1
      BY <1>1, Sizes
    <2>2. (a + PageSize - 1) \div PageSize = k
      BY <1>1, SMT
    <2> QED BY <2>1, <2>2 DEF need_frames
  <1>4. align_frames(a) = k
    BY <1>1, <1>2, <1>3 DEF align_frames
  <1>5. PageSize * k = k * PageSize
    BY <1>1
  <1> QED BY <1>1, <1>2, <1>4, <1>5

(* ---- pages ---- *)

LEMMA SameOperators ==
    /\ PA!frame_begin = 1
    /\ \A s, n : PA!Run(s, n) = Run(s, n)
    /\ \A m : PA!Usable(m) \subseteq Frame /\ PA!BootData(m) \subseteq Frame
PROOF
  <1>1. \A m : PA!Usable(m) \subseteq Frame /\ PA!BootData(m) \subseteq Frame
    BY DEF PA!Usable, PA!UsableUpTo, PA!BootData, PA!BootDataUpTo, PA!Frame, Frame
  <1> QED BY <1>1 DEF PA!frame_begin, PA!Run, Run

\* A run taken from the free frames is apart from a run that holds none of them.
LEMMA TakenApart ==
    ASSUME NEW s \in Nat, NEW f \in Nat \ {0}, NEW t \in Nat, NEW g \in Nat \ {0}, NEW A,
           Run(s, f) \cap A = {}, Run(t, g) \subseteq A
    PROVE  Apart(s, f, t, g)
PROOF
  <1> SUFFICES ASSUME ~(s + f <= t), ~(t + g <= s) PROVE FALSE
    BY DEF Apart
  <1> DEFINE x == IF s <= t THEN t ELSE s
  <1>1. x \in Run(s, f) /\ x \in Run(t, g)
    BY DEF Run
  <1> QED BY <1>1

\* What a successful call of the page allocator does to the pages.
LEMMA PageTaken ==
    ASSUME PagesSound, NEW r, r.needed \in Nat \ {0}, r.align \in Nat \ {0}, PA!Alloc(r)
    PROVE  \E p : /\ pages' = pages \cup {p}
                  /\ p.start = frame' /\ p.frames = r.needed
                  /\ p.start \in Nat \ {0} /\ p.frames \in Nat \ {0} /\ frame' % r.align = 0
                  /\ \A q \in pages : Apart(q.start, q.frames, p.start, p.frames)
                  /\ PagesSound'
PROOF
  <1>1. PICK s \in PA!Fits(r.needed, r.align) :
           /\ avail' = avail \ Run(s, r.needed)
           /\ pages' = pages \cup
                {[start |-> s, frames |-> r.needed, bytes |-> r.bytes, align |-> r.align]}
           /\ frame' = s
    BY SameOperators DEF PA!Alloc
  <1> DEFINE p == [start |-> s, frames |-> r.needed, bytes |-> r.bytes, align |-> r.align]
  <1>2. s \in Nat \ {0} /\ s % r.align = 0 /\ Run(s, r.needed) \subseteq avail
    BY <1>1, SameOperators, FramesAssumption DEF PA!Fits
  <1>3. p.start = s /\ p.frames = r.needed /\ pages' = pages \cup {p}
    BY <1>1
  <1> HIDE DEF p
  <1>4. \A q \in pages : Apart(q.start, q.frames, p.start, p.frames)
    <2>1. ASSUME NEW q \in pages PROVE Apart(q.start, q.frames, s, r.needed)
      <3>1. q.start \in Nat /\ q.frames \in Nat \ {0} /\ Run(q.start, q.frames) \cap avail = {}
        BY DEF PagesSound
      <3> QED BY <1>2, <3>1, TakenApart
    <2> QED BY <1>3, <2>1
  <1>5. PagesSound'
    <2>1. (phase = "boot" => pages = {})'
      BY DEF PA!Alloc
    <2>2. (avail \subseteq Frame \ {0})'
      BY <1>1 DEF PagesSound, Frame
    <2>3. ASSUME NEW q \in pages'
          PROVE  q.start \in Nat \ {0} /\ q.frames \in Nat \ {0} /\ Run(q.start, q.frames) \subseteq Frame \ avail'
      <3>1. CASE q = p
        BY <1>1, <1>2, <1>3, <3>1 DEF PagesSound
      <3>2. CASE q \in pages
        BY <1>1, <3>2 DEF PagesSound
      <3> QED BY <1>3, <2>3, <3>1, <3>2
    <2>4. ASSUME NEW q \in pages', NEW w \in pages', q # w
          PROVE  Apart(q.start, q.frames, w.start, w.frames)
      <3>1. CASE q \in pages /\ w \in pages
        BY <2>4, <3>1 DEF PagesSound
      <3>2. CASE q = p /\ w \in pages
        BY <1>4, <3>2 DEF Apart
      <3>3. CASE q \in pages /\ w = p
        BY <1>4, <3>3
      <3> QED BY <1>3, <2>4, <3>1, <3>2, <3>3
    <2> QED BY <2>1, <2>2, <2>3, <2>4 DEF PagesSound, Frame, Run, Apart
  <1> QED BY <1>1, <1>2, <1>3, <1>4, <1>5

\* Bytes in pages that are apart are apart.
LEMMA InsideApart ==
    ASSUME NEW p, NEW q, p.start \in Nat, p.frames \in Nat, q.start \in Nat, q.frames \in Nat,
           Apart(p.start, p.frames, q.start, q.frames),
           NEW a \in Nat, NEW m \in Nat, NEW b \in Nat, NEW n \in Nat,
           Inside(a, m, p), Inside(b, n, q)
    PROVE  Apart(a, m, b, n)
PROOF
  <1> DEFINE s == p.start
             e == p.start + p.frames
             t == q.start
             g == q.start + q.frames
  <1>1. s \in Nat /\ e \in Nat /\ t \in Nat /\ g \in Nat /\ (e <= t \/ g <= s)
    BY DEF Apart
  <1>2. s * PageSize <= a /\ a + m <= e * PageSize /\ t * PageSize <= b /\ b + n <= g * PageSize
    BY DEF Inside
  <1> HIDE DEF s, e, t, g
  <1>3. PageSize \in Nat
    BY Sizes
  <1>4. CASE e <= t
    <2>1. e * PageSize <= t * PageSize /\ e * PageSize \in Nat /\ t * PageSize \in Nat
      BY <1>1, <1>3, <1>4, MulMono
    <2> QED BY <1>2, <2>1 DEF Apart
  <1>5. CASE g <= s
    <2>1. g * PageSize <= s * PageSize /\ g * PageSize \in Nat /\ s * PageSize \in Nat
      BY <1>1, <1>3, <1>5, MulMono
    <2> QED BY <1>2, <2>1 DEF Apart
  <1> QED BY <1>1, <1>4, <1>5

LEMMA ApartSymmetric ==
    ASSUME NEW a, NEW m, NEW b, NEW n, Apart(a, m, b, n) PROVE Apart(b, n, a, m)
PROOF
  BY DEF Apart

\* What lies in a page of a set of pages lies in a page of a larger set.
LEMMA PagesGrow ==
    ASSUME pages \subseteq pages', NEW a, NEW m, InSomePage(a, m) PROVE InSomePage(a, m)'
PROOF
  BY DEF InSomePage, Inside

\* What is in a handed-out page is apart from what is in a new one.
LEMMA NewApart ==
    ASSUME PagesSound, NEW p, p.start \in Nat, p.frames \in Nat,
           \A q \in pages : Apart(q.start, q.frames, p.start, p.frames),
           NEW a \in Nat, NEW m \in Nat, InSomePage(a, m),
           NEW b \in Nat, NEW n \in Nat, Inside(b, n, p)
    PROVE  Apart(a, m, b, n)
PROOF
  <1>1. PICK q \in pages : Inside(a, m, q)
    BY DEF InSomePage
  <1>2. q.start \in Nat /\ q.frames \in Nat
    BY DEF PagesSound
  <1> QED BY <1>1, <1>2, InsideApart

(* ---- kmalloc ---- *)

\* A chunk of the bin kmalloc chose suits the request, and the bin kfree will choose.
LEMMA ChunkSuits ==
    ASSUME NEW r \in KRequests, r.n > 0, bin_index_for(max_size(r.n, r.align)) > 0,
           NEW a \in Nat \ {0}, a % BinSizes[bin_index_for(max_size(r.n, r.align))] = 0
    PROVE  /\ bin_index_for(max_size(r.n, r.align)) \in 1 .. BIN_COUNT
           /\ r.n <= BinSizes[bin_index_for(max_size(r.n, r.align))]
           /\ r.align > 1 => a % r.align = 0
           /\ bin_index_for(r.n) \in 1 .. BIN_COUNT
           /\ BinSizes[bin_index_for(r.n)] <= BinSizes[bin_index_for(max_size(r.n, r.align))]
           /\ a % BinSizes[bin_index_for(r.n)] = 0
PROOF
  <1> DEFINE need == max_size(r.n, r.align)
             idx == bin_index_for(need)
             d == BinSizes[idx]
  <1>1. r.n \in Nat /\ r.align \in Nat /\ need \in Nat /\ r.n <= need /\ r.align <= need
    BY KRequestsAssumption DEF max_size
  <1>2. idx \in 1 .. BIN_COUNT /\ need <= d /\ d \in Nat \ {0}
    BY <1>1, BinIndex, Sizes
  <1>3. r.align > 1 => a % r.align = 0
    <2> SUFFICES ASSUME r.align > 1 PROVE a % r.align = 0
      OBVIOUS
    <2>1. r.align \in 2 .. d
      BY <1>1, <1>2
    <2>2. d % r.align = 0
      BY <1>2, <2>1, KRequestsAssumption
    <2> HIDE DEF d
    <2>3. a % d = 0
      BY DEF d
    <2> QED BY <1>1, <1>2, <2>2, <2>3, DividesTrans
  <1> DEFINE j == bin_index_for(r.n)
             e == BinSizes[j]
  <1>4. j \in 1 .. BIN_COUNT /\ e <= d /\ d % e = 0 /\ e \in Nat \ {0}
    BY <1>1, <1>2, BinOfSmaller, Sizes
  <1>5. a % e = 0
    <2> HIDE DEF d, e
    <2>1. a % d = 0
      BY DEF d
    <2> QED BY <1>2, <1>4, <2>1, DividesTrans
  <1>6. r.n <= d
    BY <1>1, <1>2
  <1> QED BY <1>2, <1>3, <1>4, <1>5, <1>6

LEMMA BlockTypes ==
    ASSUME TypeOK, NEW b \in blocks
    PROVE  b.addr \in Nat \ {0} /\ b.n \in Nat \ {0} /\ b.align \in Nat /\ b.cap \in Nat \ {0}
PROOF
  BY DEF TypeOK

LEMMA NodeTypes ==
    ASSUME TypeOK, NodesSound, NEW i \in 1 .. BIN_COUNT
    PROVE  /\ Len(heads[i]) \in Nat
           /\ \A k \in Positions(i) : heads[i][k] \in Nat \ {0} /\ NodeSound(heads[i][k], i)
PROOF
  <1>1. heads[i] \in Seq(Nat)
    BY DEF TypeOK
  <1>2. \A k \in Positions(i) : heads[i][k] \in Nat
    BY <1>1 DEF Positions
  <1> QED BY <1>1, <1>2 DEF NodesSound, NodeSound

\* What a successful kmalloc(r) gives the caller: a block of its own.
Handed(r) ==
    \E nb : /\ nb \notin blocks /\ blocks' = blocks \cup {nb}
            /\ nb.addr = ret' /\ nb.n = r.n /\ nb.align = r.align

\* A step that hands out a block nothing else overlaps keeps the invariant.
LEMMA BlockGiven ==
    ASSUME IInv, TypeOK', PagesSound', pages \subseteq pages',
           NEW nb, blocks' = blocks \cup {nb}, BlockSound(nb)',
           \A b \in blocks : Apart(b.addr, b.cap, nb.addr, nb.cap),
           NodesSound', NodesApart',
           \A i \in 1 .. BIN_COUNT : \A k \in Positions(i)' :
              /\ Apart(nb.addr, nb.cap, heads'[i][k], BinSizes[i])
              /\ \A b \in blocks : Apart(b.addr, b.cap, heads'[i][k], BinSizes[i])
    PROVE  IInv' /\ nb \notin blocks
PROOF
  <1>1. BlocksSound'
    <2>1. ASSUME NEW b \in blocks PROVE BlockSound(b)'
      <3>1. InSomePage(b.addr, b.cap)'
        BY PagesGrow DEF IInv, BlocksSound, BlockSound
      <3>2. Returnable(b)'
        BY DEF IInv, BlocksSound, BlockSound, Returnable
      <3> QED BY <3>1, <3>2 DEF IInv, BlocksSound, BlockSound
    <2> QED BY <2>1 DEF BlocksSound
  <1>2. BlocksApart'
    BY ApartSymmetric DEF IInv, BlocksApart
  <1>3. BlocksOffLists'
    BY DEF BlocksOffLists
  <1>4. nb \notin blocks
    <2> SUFFICES ASSUME nb \in blocks PROVE FALSE
      OBVIOUS
    <2>1. nb.addr \in Nat /\ nb.cap \in Nat \ {0} /\ Apart(nb.addr, nb.cap, nb.addr, nb.cap)
      BY BlockTypes DEF IInv
    <2> QED BY <2>1 DEF Apart
  <1> QED BY <1>1, <1>2, <1>3, <1>4 DEF IInv

\* pop_node: the first node of the list becomes the caller's.
LEMMA PopKeeps ==
    ASSUME IInv, NEW r \in KRequests, r.n > 0, NEW idx, idx = bin_index_for(max_size(r.n, r.align)), idx > 0,
           heads[idx] # <<>>, Give(Head(heads[idx]), r, BinSizes[idx]),
           heads' = [heads EXCEPT ![idx] = Tail(@)],
           UNCHANGED <<map, phase, avail, pages, frame>>
    PROVE  IInv' /\ Handed(r)
PROOF
  <1>a. PICK a : a = heads[idx][1]
    OBVIOUS
  <1>b. PICK nb : nb = [addr |-> a, n |-> r.n, align |-> r.align, cap |-> BinSizes[idx]]
    OBVIOUS
  <1> DEFINE old(i, k) == IF i = idx THEN k + 1 ELSE k
  <1>1. /\ TypeOK /\ PagesSound /\ NodesSound /\ NodesApart
        /\ BlocksSound /\ BlocksApart /\ BlocksOffLists
    BY DEF IInv
  <1>2. r.n \in Nat /\ r.align \in Nat /\ idx \in 1 .. BIN_COUNT
    <2>1. r.n \in Nat /\ r.align \in Nat /\ max_size(r.n, r.align) \in Nat
      BY KRequestsAssumption DEF max_size
    <2> QED BY <2>1, BinIndex
  <1>3. heads[idx] \in Seq(Nat) /\ idx \in DOMAIN heads /\ Len(heads[idx]) \in Nat \ {0} /\ 1 \in Positions(idx)
    <2>1. heads[idx] \in Seq(Nat) /\ idx \in DOMAIN heads
      BY <1>1, <1>2 DEF TypeOK
    <2> QED BY <2>1 DEF Positions
  <1>4. a \in Nat \ {0} /\ NodeSound(a, idx) /\ a = Head(heads[idx])
    BY <1>a, <1>1, <1>2, <1>3, NodeTypes
  <1>5. /\ Tail(heads[idx]) \in Seq(Nat) /\ Len(Tail(heads[idx])) = Len(heads[idx]) - 1
        /\ \A k \in 1 .. Len(heads[idx]) - 1 : Tail(heads[idx])[k] = heads[idx][k + 1]
    BY <1>3
  <1>6. /\ DOMAIN heads' = 1 .. BIN_COUNT
        /\ heads'[idx] = Tail(heads[idx])
        /\ \A i \in 1 .. BIN_COUNT : i # idx => heads'[i] = heads[i]
    BY <1>1, <1>2, <1>3 DEF TypeOK
  <1>7. ASSUME NEW i \in 1 .. BIN_COUNT, NEW k \in Positions(i)'
        PROVE  /\ old(i, k) \in Positions(i) /\ heads'[i][k] = heads[i][old(i, k)]
               /\ k \in Nat \ {0}
               /\ i = idx => old(i, k) # 1
    <2>1. CASE i = idx
      BY <1>3, <1>5, <1>6, <1>7, <2>1 DEF Positions
    <2>2. CASE i # idx
      <3>1. heads[i] \in Seq(Nat)
        BY <1>1 DEF TypeOK
      <3> QED BY <1>6, <1>7, <2>2, <3>1 DEF Positions
    <2> QED BY <2>1, <2>2
  <1>8. blocks' = blocks \cup {nb}
    BY <1>b, <1>4 DEF Give
  <1>9. nb.addr = a /\ nb.n = r.n /\ nb.align = r.align /\ nb.cap = BinSizes[idx]
    BY <1>b
  <1>10. /\ r.n <= BinSizes[idx]
         /\ r.align > 1 => a % r.align = 0
         /\ bin_index_for(r.n) \in 1 .. BIN_COUNT
         /\ BinSizes[bin_index_for(r.n)] <= BinSizes[idx]
         /\ a % BinSizes[bin_index_for(r.n)] = 0
    BY <1>4, ChunkSuits DEF NodeSound
  <1>11. nb \in [addr : Nat \ {0}, n : Nat \ {0}, align : Nat, cap : Nat \ {0}]
    BY <1>b, <1>2, <1>4, Sizes
  <1>12. TypeOK'
    <2>1. (blocks \subseteq [addr : Nat \ {0}, n : Nat \ {0}, align : Nat, cap : Nat \ {0}])'
      BY <1>1, <1>8, <1>11 DEF TypeOK
    <2>2. \A i \in 1 .. BIN_COUNT : heads'[i] \in Seq(Nat)
      BY <1>1, <1>5, <1>6 DEF TypeOK
    <2> QED BY <1>1, <1>6, <2>1, <2>2 DEF TypeOK, Frame
  <1>13. PagesSound' /\ pages \subseteq pages'
    BY <1>1 DEF PagesSound
  <1>14. BlockSound(nb)'
    <2>1. InSomePage(nb.addr, nb.cap)'
      BY <1>4, <1>9, <1>13, PagesGrow DEF NodeSound
    <2>2. Returnable(nb)'
      BY <1>9, <1>10 DEF Returnable
    <2> QED BY <1>9, <1>10, <2>1, <2>2 DEF BlockSound
  <1>15. \A b \in blocks : Apart(b.addr, b.cap, nb.addr, nb.cap)
    BY <1>a, <1>1, <1>2, <1>3, <1>9 DEF BlocksOffLists
  <1> HIDE DEF old
  <1>16. NodesSound'
    <2>1. ASSUME NEW i \in 1 .. BIN_COUNT, NEW k \in Positions(i)'
          PROVE  NodeSound(heads[i][k], i)'
      <3>1. NodeSound(heads[i][old(i, k)], i)
        BY <1>1, <1>7 DEF NodesSound
      <3> QED BY <1>7, <1>13, <3>1 DEF NodeSound, InSomePage, Inside
    <2> QED BY <2>1 DEF NodesSound
  <1>17. NodesApart'
    <2>1. ASSUME NEW i \in 1 .. BIN_COUNT, NEW j \in 1 .. BIN_COUNT,
                 NEW k \in Positions(i)', NEW l \in Positions(j)', i # j \/ k # l
          PROVE  Apart(heads'[i][k], BinSizes[i], heads'[j][l], BinSizes[j])
      <3>1. i # j \/ old(i, k) # old(j, l)
        BY <1>7, <2>1 DEF old
      <3>2. old(i, k) \in Positions(i) /\ old(j, l) \in Positions(j)
        BY <1>7
      <3>3. Apart(heads[i][old(i, k)], BinSizes[i], heads[j][old(j, l)], BinSizes[j])
        BY <1>1, <3>1, <3>2 DEF NodesApart
      <3>4. heads'[i][k] = heads[i][old(i, k)] /\ heads'[j][l] = heads[j][old(j, l)]
        BY <1>7
      <3> QED BY <3>3, <3>4
    <2> QED BY <2>1 DEF NodesApart
  <1>18. ASSUME NEW i \in 1 .. BIN_COUNT, NEW k \in Positions(i)'
         PROVE  /\ Apart(nb.addr, nb.cap, heads'[i][k], BinSizes[i])
                /\ \A b \in blocks : Apart(b.addr, b.cap, heads'[i][k], BinSizes[i])
    <2>1. Apart(heads[idx][1], BinSizes[idx], heads[i][old(i, k)], BinSizes[i])
      <3>1. idx # i \/ 1 # old(i, k)
        BY <1>7
      <3> QED BY <1>1, <1>2, <1>3, <1>7, <3>1 DEF NodesApart
    <2>2. \A b \in blocks : Apart(b.addr, b.cap, heads[i][old(i, k)], BinSizes[i])
      BY <1>1, <1>7 DEF BlocksOffLists
    <2> QED BY <1>a, <1>7, <1>9, <2>1, <2>2
  <1>19. IInv' /\ nb \notin blocks
    BY <1>8, <1>12, <1>13, <1>14, <1>15, <1>16, <1>17, <1>18, BlockGiven
  <1>20. nb.addr = ret'
    BY <1>4, <1>9 DEF Give
  <1> QED BY <1>8, <1>9, <1>19, <1>20 DEF Handed

\* The chunks refill_bin cuts: in the page, aligned to the bin, apart from each other.
LEMMA Chunks ==
    ASSUME NEW f \in Nat \ {0}, NEW i \in 1 .. BIN_COUNT
    PROVE  /\ chunk_list(f * PageSize, BinSizes[i]) \in Seq(Nat)
           /\ Len(chunk_list(f * PageSize, BinSizes[i])) = PageSize \div BinSizes[i]
           /\ PageSize \div BinSizes[i] \in Nat \ {0}
           /\ \A k \in 1 .. PageSize \div BinSizes[i] :
                /\ chunk_list(f * PageSize, BinSizes[i])[k] \in Nat \ {0}
                /\ chunk_list(f * PageSize, BinSizes[i])[k] % BinSizes[i] = 0
                /\ f * PageSize <= chunk_list(f * PageSize, BinSizes[i])[k]
                /\ chunk_list(f * PageSize, BinSizes[i])[k] + BinSizes[i] <= (f + 1) * PageSize
                /\ \A l \in 1 .. PageSize \div BinSizes[i] :
                     k # l => Apart(chunk_list(f * PageSize, BinSizes[i])[k], BinSizes[i],
                                    chunk_list(f * PageSize, BinSizes[i])[l], BinSizes[i])
PROOF
  <1> DEFINE d == BinSizes[i]
             cnt == PageSize \div d
             page == f * PageSize
             L == chunk_list(page, d)
             off(k) == (cnt - k) * d
  <1>1. d \in Nat \ {0} /\ PageSize \in Nat \ {0} /\ PageSize % d = 0
    BY Sizes, BinInPage
  <1>2. cnt \in Nat /\ PageSize = d * cnt
    BY <1>1, Quotient, NoRemainder
  <1>3. L = [k \in 1 .. cnt |-> page + off(k)]
    BY DEF chunk_list
  <1>4. page \in Nat \ {0} /\ page % d = 0 /\ (f + 1) * PageSize = page + PageSize
    <2>1. f * PageSize \in Nat /\ f * PageSize # 0 /\ (f + 1) * PageSize = f * PageSize + PageSize
      BY <1>1, SMT
    <2>2. (f * PageSize) % d = 0
      BY <1>1, DividesProduct
    <2> QED BY <2>1, <2>2
  <1> HIDE DEF d, cnt, page, L
  <1>5. cnt # 0 /\ cnt * d = PageSize
    BY <1>1, <1>2, SMT
  <1>6. ASSUME NEW k \in 1 .. cnt
        PROVE  off(k) \in Nat /\ off(k) + d <= PageSize /\ off(k) % d = 0
    <2> DEFINE m == cnt - k
    <2>1. m \in Nat /\ m < cnt
      BY <1>2, <1>6
    <2> HIDE DEF m
    <2>2. m * d \in Nat /\ m * d = d * m
      BY <1>1, <2>1
    <2>3. m * d + d <= cnt * d
      BY <1>1, <1>2, <2>1, MulNext
    <2>4. (m * d) % d = 0
      BY <1>1, <2>1, <2>2, NoRemainder
    <2> QED BY <1>5, <2>2, <2>3, <2>4 DEF m
  <1>7. ASSUME NEW k \in 1 .. cnt, NEW l \in 1 .. cnt, k < l
        PROVE  off(l) + d <= off(k)
    <2> DEFINE m == cnt - k
               n == cnt - l
    <2>1. m \in Nat /\ n \in Nat /\ n < m
      BY <1>2, <1>7
    <2> HIDE DEF m, n
    <2>2. n * d + d <= m * d
      BY <1>1, <2>1, MulNext
    <2> QED BY <2>2 DEF m, n
  <1> HIDE DEF off
  <1>8. ASSUME NEW k \in 1 .. cnt, NEW l \in 1 .. cnt, k # l
        PROVE  Apart(page + off(k), d, page + off(l), d)
    <2>1. off(k) \in Nat /\ off(l) \in Nat
      BY <1>6
    <2>2. CASE k < l
      BY <1>1, <1>4, <1>7, <2>1, <2>2 DEF Apart
    <2>3. CASE l < k
      BY <1>1, <1>4, <1>7, <2>1, <2>3 DEF Apart
    <2> QED BY <1>2, <1>8, <2>2, <2>3
  <1>9. ASSUME NEW k \in 1 .. cnt
        PROVE  /\ page + off(k) \in Nat \ {0} /\ (page + off(k)) % d = 0
               /\ page <= page + off(k) /\ page + off(k) + d <= (f + 1) * PageSize
    <2>1. (page + off(k)) % d = 0
      BY <1>1, <1>4, <1>6, DividesSum
    <2> QED BY <1>1, <1>4, <1>6, <2>1
  <1>10. L \in Seq(Nat) /\ Len(L) = cnt
    <2>1. L \in [1 .. cnt -> Nat]
      BY <1>3, <1>9
    <2> QED BY <1>2, <2>1
  <1>11. \A k \in 1 .. cnt : L[k] = page + off(k)
    BY <1>3
  <1>12. cnt \in Nat \ {0}
    BY <1>2, <1>5
  <1>13. \A k \in 1 .. cnt :
           /\ L[k] \in Nat \ {0} /\ L[k] % d = 0 /\ page <= L[k] /\ L[k] + d <= (f + 1) * PageSize
           /\ \A l \in 1 .. cnt : k # l => Apart(L[k], d, L[l], d)
    BY <1>8, <1>9, <1>11
  <1> QED BY <1>10, <1>12, <1>13 DEF L, page, d, cnt

\* refill_bin: a page is cut for an empty list, its first chunk becomes the caller's.
LEMMA RefillKeeps ==
    ASSUME IInv, NEW r \in KRequests, r.n > 0, NEW idx, idx = bin_index_for(max_size(r.n, r.align)), idx > 0,
           heads[idx] = <<>>, PA!Alloc(OnePage),
           Give(Head(chunk_list(frame' * PageSize, BinSizes[idx])), r, BinSizes[idx]),
           heads' = [heads EXCEPT ![idx] = Tail(chunk_list(frame' * PageSize, BinSizes[idx]))]
    PROVE  IInv' /\ Handed(r)
PROOF
  <1>1. /\ TypeOK /\ PagesSound /\ NodesSound /\ NodesApart
        /\ BlocksSound /\ BlocksApart /\ BlocksOffLists
    BY DEF IInv
  <1>2. r.n \in Nat /\ r.align \in Nat /\ idx \in 1 .. BIN_COUNT
    <2>1. r.n \in Nat /\ r.align \in Nat /\ max_size(r.n, r.align) \in Nat
      BY KRequestsAssumption DEF max_size
    <2> QED BY <2>1, BinIndex
  <1>3. PICK p : /\ pages' = pages \cup {p}
                 /\ p.start = frame' /\ p.frames = 1 /\ p.start \in Nat \ {0}
                 /\ \A q \in pages : Apart(q.start, q.frames, p.start, p.frames)
                 /\ PagesSound'
    <2>1. OnePage.needed = 1 /\ OnePage.align = 1
      BY DEF OnePage
    <2> QED BY <1>1, <2>1, PageTaken
  <1>4. PICK L : L = chunk_list(frame' * PageSize, BinSizes[idx])
    OBVIOUS
  <1>5. PICK cnt : cnt = PageSize \div BinSizes[idx]
    OBVIOUS
  <1>6. /\ L \in Seq(Nat) /\ Len(L) = cnt /\ cnt \in Nat \ {0}
        /\ \A k \in 1 .. cnt :
             /\ L[k] \in Nat \ {0} /\ L[k] % BinSizes[idx] = 0
             /\ p.start * PageSize <= L[k] /\ L[k] + BinSizes[idx] <= (p.start + 1) * PageSize
             /\ \A l \in 1 .. cnt : k # l => Apart(L[k], BinSizes[idx], L[l], BinSizes[idx])
    BY <1>2, <1>3, <1>4, <1>5, Chunks
  <1>7. \A k \in 1 .. cnt : Inside(L[k], BinSizes[idx], p)
    BY <1>3, <1>6 DEF Inside
  <1>8. PICK nb : nb = [addr |-> L[1], n |-> r.n, align |-> r.align, cap |-> BinSizes[idx]]
    OBVIOUS
  <1>9. /\ nb.addr = L[1] /\ nb.n = r.n /\ nb.align = r.align /\ nb.cap = BinSizes[idx]
        /\ blocks' = blocks \cup {nb} /\ 1 \in 1 .. cnt
    <2>1. Head(L) = L[1] /\ 1 \in 1 .. cnt
      BY <1>6
    <2> QED BY <1>4, <1>8, <2>1 DEF Give
  <1>10. /\ Tail(L) \in Seq(Nat) /\ Len(Tail(L)) = cnt - 1
         /\ \A k \in 1 .. cnt - 1 : Tail(L)[k] = L[k + 1]
    BY <1>6
  <1>11. /\ DOMAIN heads' = 1 .. BIN_COUNT
         /\ heads'[idx] = Tail(L)
         /\ \A i \in 1 .. BIN_COUNT : i # idx => heads'[i] = heads[i]
    BY <1>1, <1>2, <1>4 DEF TypeOK
  <1>12. ASSUME NEW k \in Positions(idx)'
         PROVE  k + 1 \in 1 .. cnt /\ k + 1 # 1 /\ heads'[idx][k] = L[k + 1] /\ k \in Nat
    <2>1. Positions(idx)' = 1 .. cnt - 1
      BY <1>10, <1>11 DEF Positions
    <2>2. k \in 1 .. cnt - 1
      BY <1>12, <2>1
    <2> HIDE DEF Positions
    <2>3. k + 1 \in 1 .. cnt /\ k + 1 # 1 /\ k \in Nat
      BY <1>6, <2>2
    <2> QED BY <1>10, <1>11, <2>2, <2>3
  <1>13. ASSUME NEW i \in 1 .. BIN_COUNT, i # idx, NEW k \in Positions(i)'
         PROVE  k \in Positions(i) /\ heads'[i][k] = heads[i][k]
    BY <1>11, <1>13 DEF Positions
  <1>14. /\ r.n <= BinSizes[idx]
         /\ r.align > 1 => L[1] % r.align = 0
         /\ bin_index_for(r.n) \in 1 .. BIN_COUNT
         /\ BinSizes[bin_index_for(r.n)] <= BinSizes[idx]
         /\ L[1] % BinSizes[bin_index_for(r.n)] = 0
    BY <1>6, <1>9, ChunkSuits
  <1>15. \A i \in 1 .. BIN_COUNT : BinSizes[i] \in Nat \ {0}
    BY Sizes
  <1>16. TypeOK'
    <2>1. nb \in [addr : Nat \ {0}, n : Nat \ {0}, align : Nat, cap : Nat \ {0}]
      BY <1>2, <1>6, <1>8, <1>9, <1>15
    <2>2. (blocks \subseteq [addr : Nat \ {0}, n : Nat \ {0}, align : Nat, cap : Nat \ {0}])'
      BY <1>1, <1>9, <2>1 DEF TypeOK
    <2>3. \A i \in 1 .. BIN_COUNT : heads'[i] \in Seq(Nat)
      BY <1>1, <1>10, <1>11 DEF TypeOK
    <2>4. avail' \subseteq Frame
      BY <1>3 DEF PagesSound, Frame
    <2> QED BY <1>11, <2>2, <2>3, <2>4 DEF TypeOK, Frame
  <1>17. pages \subseteq pages' /\ p \in pages'
    BY <1>3
  <1>18. BlockSound(nb)'
    <2>1. InSomePage(nb.addr, nb.cap)'
      BY <1>7, <1>9, <1>17 DEF InSomePage, Inside
    <2>2. Returnable(nb)'
      BY <1>9, <1>14 DEF Returnable
    <2> QED BY <1>9, <1>14, <2>1, <2>2 DEF BlockSound
  <1>19. ASSUME NEW a \in Nat, NEW m \in Nat, InSomePage(a, m), NEW k \in 1 .. cnt
         PROVE  Apart(a, m, L[k], BinSizes[idx])
    <2>1. L[k] \in Nat /\ BinSizes[idx] \in Nat /\ p.start \in Nat /\ p.frames \in Nat
      BY <1>2, <1>3, <1>6, <1>15
    <2> QED BY <1>1, <1>3, <1>7, <1>19, <2>1, NewApart
  <1>20. ASSUME NEW b \in blocks, NEW k \in 1 .. cnt
         PROVE  Apart(b.addr, b.cap, L[k], BinSizes[idx])
    <2>1. b.addr \in Nat /\ b.cap \in Nat /\ InSomePage(b.addr, b.cap)
      BY <1>1, BlockTypes DEF BlocksSound, BlockSound
    <2> QED BY <1>19, <2>1
  <1>21. ASSUME NEW i \in 1 .. BIN_COUNT, NEW j \in Positions(i), NEW k \in 1 .. cnt
         PROVE  Apart(heads[i][j], BinSizes[i], L[k], BinSizes[idx])
    <2>1. heads[i][j] \in Nat /\ BinSizes[i] \in Nat /\ InSomePage(heads[i][j], BinSizes[i])
      BY <1>1, <1>15, NodeTypes DEF NodeSound
    <2> QED BY <1>19, <2>1
  <1>22. NodesSound'
    <2>1. ASSUME NEW i \in 1 .. BIN_COUNT, NEW k \in Positions(i)'
          PROVE  NodeSound(heads[i][k], i)'
      <3>1. CASE i = idx
        <4>1. heads'[i][k] = L[k + 1] /\ k + 1 \in 1 .. cnt
          BY <1>12, <2>1, <3>1
        <4>2. L[k + 1] > 0 /\ L[k + 1] % BinSizes[i] = 0 /\ Inside(L[k + 1], BinSizes[i], p)
          BY <1>6, <1>7, <3>1, <4>1
        <4> QED BY <1>17, <4>1, <4>2 DEF NodeSound, InSomePage, Inside
      <3>2. CASE i # idx
        <4>1. heads'[i][k] = heads[i][k] /\ NodeSound(heads[i][k], i)
          BY <1>1, <1>13, <2>1, <3>2 DEF NodesSound
        <4> QED BY <1>17, <4>1 DEF NodeSound, InSomePage, Inside
      <3> QED BY <3>1, <3>2
    <2> QED BY <2>1 DEF NodesSound
  <1>23. NodesApart'
    <2>1. ASSUME NEW i \in 1 .. BIN_COUNT, NEW j \in 1 .. BIN_COUNT,
                 NEW k \in Positions(i)', NEW l \in Positions(j)', i # j \/ k # l
          PROVE  Apart(heads'[i][k], BinSizes[i], heads'[j][l], BinSizes[j])
      <3>1. CASE i = idx /\ j = idx
        <4>1. k + 1 \in 1 .. cnt /\ l + 1 \in 1 .. cnt /\ k + 1 # l + 1
          BY <1>12, <2>1, <3>1
        <4>2. heads'[i][k] = L[k + 1] /\ heads'[j][l] = L[l + 1]
          BY <1>12, <2>1, <3>1
        <4> QED BY <1>6, <3>1, <4>1, <4>2
      <3>2. CASE i = idx /\ j # idx
        <4>1. k + 1 \in 1 .. cnt /\ heads'[i][k] = L[k + 1]
          BY <1>12, <2>1, <3>2
        <4>2. l \in Positions(j) /\ heads'[j][l] = heads[j][l]
          BY <1>13, <2>1, <3>2
        <4>3. Apart(heads[j][l], BinSizes[j], L[k + 1], BinSizes[idx])
          BY <1>21, <4>1, <4>2
        <4> QED BY <3>2, <4>1, <4>2, <4>3, ApartSymmetric
      <3>3. CASE i # idx /\ j = idx
        <4>1. l + 1 \in 1 .. cnt /\ heads'[j][l] = L[l + 1]
          BY <1>12, <2>1, <3>3
        <4>2. k \in Positions(i) /\ heads'[i][k] = heads[i][k]
          BY <1>13, <2>1, <3>3
        <4>3. Apart(heads[i][k], BinSizes[i], L[l + 1], BinSizes[idx])
          BY <1>21, <4>1, <4>2
        <4> QED BY <3>3, <4>1, <4>2, <4>3
      <3>4. CASE i # idx /\ j # idx
        <4>1. k \in Positions(i) /\ heads'[i][k] = heads[i][k]
          BY <1>13, <2>1, <3>4
        <4>2. l \in Positions(j) /\ heads'[j][l] = heads[j][l]
          BY <1>13, <2>1, <3>4
        <4>3. Apart(heads[i][k], BinSizes[i], heads[j][l], BinSizes[j])
          BY <1>1, <2>1, <4>1, <4>2 DEF NodesApart
        <4> QED BY <4>1, <4>2, <4>3
      <3> QED BY <3>1, <3>2, <3>3, <3>4
    <2> QED BY <2>1 DEF NodesApart
  <1>24. \A b \in blocks : Apart(b.addr, b.cap, nb.addr, nb.cap)
    BY <1>9, <1>20
  <1>25. ASSUME NEW i \in 1 .. BIN_COUNT, NEW k \in Positions(i)'
         PROVE  /\ Apart(nb.addr, nb.cap, heads'[i][k], BinSizes[i])
                /\ \A b \in blocks : Apart(b.addr, b.cap, heads'[i][k], BinSizes[i])
    <2>1. CASE i = idx
      <3>1. k + 1 \in 1 .. cnt /\ k + 1 # 1 /\ heads'[i][k] = L[k + 1]
        BY <1>12, <1>25, <2>1
      <3>2. Apart(L[1], BinSizes[idx], L[k + 1], BinSizes[idx])
        BY <1>6, <1>9, <3>1
      <3> QED BY <1>9, <1>20, <2>1, <3>1, <3>2
    <2>2. CASE i # idx
      <3>1. k \in Positions(i) /\ heads'[i][k] = heads[i][k]
        BY <1>13, <1>25, <2>2
      <3>2. Apart(L[1], BinSizes[idx], heads[i][k], BinSizes[i])
        BY <1>9, <1>21, <3>1, ApartSymmetric
      <3>3. \A b \in blocks : Apart(b.addr, b.cap, heads[i][k], BinSizes[i])
        BY <1>1, <3>1 DEF BlocksOffLists
      <3> QED BY <1>9, <3>1, <3>2, <3>3
    <2> QED BY <2>1, <2>2
  <1>26. IInv' /\ nb \notin blocks
    BY <1>3, <1>9, <1>16, <1>17, <1>18, <1>22, <1>23, <1>24, <1>25, BlockGiven
  <1>27. nb.addr = ret'
    BY <1>4, <1>6, <1>9 DEF Give
  <1> QED BY <1>9, <1>26, <1>27 DEF Handed

\* A page run for a request no bin holds: it covers the size and keeps the alignment.
LEMMA PageSuits ==
    ASSUME NEW r \in KRequests, r.n > 0, bin_index_for(max_size(r.n, r.align)) = 0,
           NEW al, al = (IF r.align > PageSize THEN align_frames(r.align) ELSE 1),
           r.align <= PageSize \/ need_frames(r.n) > 0
    PROVE  /\ need_frames(r.n) \in Nat \ {0} /\ al \in Nat \ {0}
           /\ r.n <= need_frames(r.n) * PageSize
           /\ \A f \in Nat \ {0} : f % al = 0 /\ r.align > 1 => (f * PageSize) % r.align = 0
PROOF
  <1>1. /\ r.n \in 0 .. WordSize - 1 /\ r.n \in Nat /\ r.align \in Nat /\ PageSize \in Nat \ {0}
        /\ r.align \in 2 .. PageSize => PageSize % r.align = 0
        /\ r.align > PageSize => r.align % PageSize = 0 /\ r.align + PageSize <= WordSize
        /\ r.align <= PageSize => r.n + PageSize <= WordSize
    <2>1. r \in [n : 0 .. WordSize - 1, align : Nat]
      BY KRequestsAssumption
    <2> QED BY <2>1, KRequestsAssumption, Sizes
  <1>2. need_frames(r.n) \in Nat \ {0} /\ r.n <= need_frames(r.n) * PageSize
    BY <1>1, NeedFrames
  <1>3. CASE r.align <= PageSize
    <2>1. al = 1
      BY <1>1, <1>3
    <2>2. ASSUME NEW f \in Nat \ {0}, r.align > 1 PROVE (f * PageSize) % r.align = 0
      <3>1. PageSize % r.align = 0 /\ r.align \in Nat \ {0}
        BY <1>1, <1>3, <2>2
      <3> QED BY <1>1, <3>1, DividesProduct
    <2> QED BY <1>2, <2>1, <2>2
  <1>4. CASE r.align > PageSize
    <2>1. al \in Nat \ {0} /\ r.align = al * PageSize
      BY <1>1, <1>4, AlignFrames
    <2>2. ASSUME NEW f \in Nat \ {0}, f % al = 0 PROVE (f * PageSize) % r.align = 0
      <3>1. f = al * (f \div al) /\ f \div al \in Nat
        BY <2>1, <2>2, NoRemainder, Quotient
      <3>m. PICK m \in Nat : f = al * m
        BY <3>1
      <3>2. f * PageSize = (al * PageSize) * m /\ al * PageSize \in Nat \ {0} /\ f * PageSize \in Nat
        <4>1. \A x, y, z \in Nat : (x * y) * z = (x * z) * y /\ x * y \in Nat
          BY SMT
        <4>2. \A x, y \in Nat \ {0} : x * y \in Nat \ {0}
          BY SMT
        <4>3. al \in Nat \ {0} /\ PageSize \in Nat \ {0} /\ al \in Nat /\ PageSize \in Nat
          BY <1>1, <2>1
        <4>4. (al * m) * PageSize = (al * PageSize) * m
          BY <4>1, <4>3
        <4>5. al * PageSize \in Nat \ {0} /\ f * PageSize \in Nat
          BY <4>1, <4>2, <4>3
        <4> QED BY <3>m, <4>4, <4>5
      <3> QED BY <2>1, <3>2, NoRemainder
    <2> QED BY <1>2, <2>1, <2>2
  <1> QED BY <1>1, <1>3, <1>4

\* A request no bin holds takes a page run of its own.
LEMMA PagesKeep ==
    ASSUME IInv, NEW r \in KRequests, r.n > 0, bin_index_for(max_size(r.n, r.align)) = 0,
           r.align <= PageSize \/ need_frames(r.n) > 0,
           NEW al, al = (IF r.align > PageSize THEN align_frames(r.align) ELSE 1),
           PA!Alloc([bytes |-> r.n, needed |-> need_frames(r.n), align |-> al]),
           Give(frame' * PageSize, r, need_frames(r.n) * PageSize),
           UNCHANGED heads
    PROVE  IInv' /\ Handed(r)
PROOF
  <1> DEFINE rq == [bytes |-> r.n, needed |-> need_frames(r.n), align |-> al]
  <1>1. /\ TypeOK /\ PagesSound /\ NodesSound /\ NodesApart
        /\ BlocksSound /\ BlocksApart /\ BlocksOffLists
    BY DEF IInv
  <1>2. /\ need_frames(r.n) \in Nat \ {0} /\ al \in Nat \ {0}
        /\ r.n <= need_frames(r.n) * PageSize
        /\ \A f \in Nat \ {0} : f % al = 0 /\ r.align > 1 => (f * PageSize) % r.align = 0
    BY PageSuits
  <1>3. r.n \in Nat /\ r.align \in Nat /\ PageSize \in Nat \ {0}
    BY KRequestsAssumption, Sizes
  <1>4. PICK p : /\ pages' = pages \cup {p}
                 /\ p.start = frame' /\ p.frames = need_frames(r.n)
                 /\ p.start \in Nat \ {0} /\ p.frames \in Nat \ {0} /\ frame' % al = 0
                 /\ \A q \in pages : Apart(q.start, q.frames, p.start, p.frames)
                 /\ PagesSound'
    <2>1. rq.needed = need_frames(r.n) /\ rq.align = al
      OBVIOUS
    <2>2. PA!Alloc(rq)
      OBVIOUS
    <2> HIDE DEF rq
    <2> QED BY <1>1, <1>2, <2>1, <2>2, PageTaken
  <1>5. PICK a : a = p.start * PageSize
    OBVIOUS
  <1>6. PICK c : c = p.frames * PageSize
    OBVIOUS
  <1>7. a \in Nat \ {0} /\ c \in Nat \ {0} /\ (p.start + p.frames) * PageSize = a + c
    <2>1. \A x, y \in Nat \ {0} : x * y \in Nat \ {0}
      BY SMT
    <2>2. \A x, y, z \in Nat : (x + y) * z = x * z + y * z
      BY SMT
    <2> QED BY <1>3, <1>4, <1>5, <1>6, <2>1, <2>2
  <1>8. Inside(a, c, p)
    BY <1>5, <1>7 DEF Inside
  <1>9. PICK nb : nb = [addr |-> a, n |-> r.n, align |-> r.align, cap |-> c]
    OBVIOUS
  <1>10. /\ nb.addr = a /\ nb.n = r.n /\ nb.align = r.align /\ nb.cap = c
         /\ blocks' = blocks \cup {nb}
    BY <1>4, <1>5, <1>6, <1>9 DEF Give
  <1>11. TypeOK'
    <2>1. nb \in [addr : Nat \ {0}, n : Nat \ {0}, align : Nat, cap : Nat \ {0}]
      BY <1>3, <1>7, <1>9
    <2>2. (blocks \subseteq [addr : Nat \ {0}, n : Nat \ {0}, align : Nat, cap : Nat \ {0}])'
      BY <1>1, <1>10, <2>1 DEF TypeOK
    <2>3. avail' \subseteq Frame
      BY <1>4 DEF PagesSound, Frame
    <2> QED BY <1>1, <2>2, <2>3 DEF TypeOK, Frame
  <1>12. pages \subseteq pages' /\ p \in pages'
    BY <1>4
  <1>13. BlockSound(nb)'
    <2>1. InSomePage(nb.addr, nb.cap)'
      BY <1>8, <1>10, <1>12 DEF InSomePage, Inside
    <2>2. nb.n <= nb.cap /\ (nb.align > 1 => nb.addr % nb.align = 0)
      BY <1>2, <1>4, <1>5, <1>6, <1>10
    <2>3. Returnable(nb)'
      <3>1. bin_index_for(r.n) = 0 \/ bin_index_for(r.n) \in 1 .. BIN_COUNT
        BY <1>3, BinIndex
      <3>2. CASE bin_index_for(r.n) = 0
        BY <1>4, <1>5, <1>6, <1>10, <1>12, <3>2 DEF Returnable
      <3>3. CASE bin_index_for(r.n) \in 1 .. BIN_COUNT
        <4>1. PICK d : d = BinSizes[bin_index_for(r.n)]
          OBVIOUS
        <4>2. d \in Nat \ {0} /\ d <= PageSize /\ PageSize % d = 0
          BY <3>3, <4>1, BinInPage, Sizes
        <4>3. a % d = 0
          BY <1>3, <1>4, <1>5, <4>2, DividesProduct
        <4>4. PageSize <= c
          <5>1. 1 * PageSize <= p.frames * PageSize
            BY <1>3, <1>4, MulMono
          <5> QED BY <1>3, <1>6, <5>1
        <4>5. d <= c
          BY <1>3, <1>7, <4>2, <4>4
        <4> QED BY <1>10, <3>3, <4>1, <4>3, <4>5 DEF Returnable
      <3> QED BY <3>1, <3>2, <3>3
    <2> QED BY <2>1, <2>2, <2>3 DEF BlockSound
  <1>14. ASSUME NEW x \in Nat, NEW m \in Nat, InSomePage(x, m)
         PROVE  Apart(x, m, a, c)
    <2>1. p.start \in Nat /\ p.frames \in Nat /\ a \in Nat /\ c \in Nat
      BY <1>4, <1>7
    <2> QED BY <1>1, <1>4, <1>8, <1>14, <2>1, NewApart
  <1>15. \A b \in blocks : Apart(b.addr, b.cap, nb.addr, nb.cap)
    <2>1. ASSUME NEW b \in blocks PROVE Apart(b.addr, b.cap, a, c)
      <3>1. b.addr \in Nat /\ b.cap \in Nat /\ InSomePage(b.addr, b.cap)
        BY <1>1, BlockTypes DEF BlocksSound, BlockSound
      <3> QED BY <1>14, <3>1
    <2> QED BY <1>10, <2>1
  <1>16. heads' = heads /\ \A i : Positions(i)' = Positions(i)
    BY DEF Positions
  <1>17. NodesSound'
    <2>1. ASSUME NEW i \in 1 .. BIN_COUNT, NEW k \in Positions(i)
          PROVE  NodeSound(heads[i][k], i)'
      <3>1. NodeSound(heads[i][k], i)
        BY <1>1 DEF NodesSound
      <3> QED BY <1>12, <1>16, <3>1 DEF NodeSound, InSomePage, Inside
    <2> QED BY <1>16, <2>1 DEF NodesSound
  <1>18. NodesApart'
    BY <1>1, <1>16 DEF NodesApart
  <1>19. ASSUME NEW i \in 1 .. BIN_COUNT, NEW k \in Positions(i)'
         PROVE  /\ Apart(nb.addr, nb.cap, heads'[i][k], BinSizes[i])
                /\ \A b \in blocks : Apart(b.addr, b.cap, heads'[i][k], BinSizes[i])
    <2>1. k \in Positions(i) /\ heads'[i][k] = heads[i][k]
      BY <1>16, <1>19
    <2>2. heads[i][k] \in Nat /\ BinSizes[i] \in Nat /\ InSomePage(heads[i][k], BinSizes[i])
      BY <1>1, <2>1, NodeTypes, Sizes DEF NodeSound
    <2>3. Apart(heads[i][k], BinSizes[i], a, c)
      BY <1>14, <2>2
    <2>4. \A b \in blocks : Apart(b.addr, b.cap, heads[i][k], BinSizes[i])
      BY <1>1, <2>1 DEF BlocksOffLists
    <2> QED BY <1>10, <2>1, <2>3, <2>4, ApartSymmetric
  <1>20. IInv' /\ nb \notin blocks
    BY <1>4, <1>10, <1>11, <1>12, <1>13, <1>15, <1>17, <1>18, <1>19, BlockGiven
  <1>21. nb.addr = ret'
    BY <1>4, <1>5, <1>10 DEF Give
  <1> QED BY <1>10, <1>20, <1>21 DEF Handed

(* ---- kfree ---- *)

\* push_node: the block becomes the first node of the list its size names.
LEMMA PushKeeps ==
    ASSUME IInv, NEW b \in blocks, NEW idx, idx = bin_index_for(b.n), idx > 0,
           blocks' = blocks \ {b},
           heads' = [heads EXCEPT ![idx] = <<b.addr>> \o @],
           UNCHANGED <<map, phase, avail, pages, frame>>
    PROVE  IInv'
PROOF
  <1> DEFINE old(i, k) == IF i = idx THEN k - 1 ELSE k
             new(i, k) == i = idx /\ k = 1
  <1>1. /\ TypeOK /\ PagesSound /\ NodesSound /\ NodesApart
        /\ BlocksSound /\ BlocksApart /\ BlocksOffLists
    BY DEF IInv
  <1>2. b.addr \in Nat \ {0} /\ b.n \in Nat \ {0} /\ b.cap \in Nat \ {0}
    BY <1>1, BlockTypes
  <1>3. /\ idx \in 1 .. BIN_COUNT /\ BinSizes[idx] <= b.cap /\ b.addr % BinSizes[idx] = 0
        /\ InSomePage(b.addr, b.cap)
    <2>1. idx \in 1 .. BIN_COUNT
      BY <1>2, BinIndex
    <2> QED BY <1>1, <2>1 DEF BlocksSound, BlockSound, Returnable
  <1>4. \A i \in 1 .. BIN_COUNT : BinSizes[i] \in Nat \ {0}
    BY Sizes
  <1>5. heads[idx] \in Seq(Nat) /\ idx \in DOMAIN heads /\ Len(heads[idx]) \in Nat
    BY <1>1, <1>3 DEF TypeOK
  <1>6. PICK L : L = <<b.addr>> \o heads[idx]
    OBVIOUS
  <1>7. /\ L \in Seq(Nat) /\ Len(L) = Len(heads[idx]) + 1 /\ L[1] = b.addr
        /\ \A k \in 2 .. Len(heads[idx]) + 1 : L[k] = heads[idx][k - 1]
    BY <1>2, <1>5, <1>6
  <1>8. /\ DOMAIN heads' = 1 .. BIN_COUNT
        /\ heads'[idx] = L
        /\ \A i \in 1 .. BIN_COUNT : i # idx => heads'[i] = heads[i]
    BY <1>1, <1>3, <1>5, <1>6 DEF TypeOK
  <1>9. heads'[idx][1] = b.addr
    BY <1>7, <1>8
  <1>10. ASSUME NEW i \in 1 .. BIN_COUNT, NEW k \in Positions(i)', ~new(i, k)
         PROVE  old(i, k) \in Positions(i) /\ heads'[i][k] = heads[i][old(i, k)] /\ k \in Nat
    <2>1. CASE i = idx
      <3>1. Positions(idx)' = 1 .. Len(heads[idx]) + 1
        BY <1>7, <1>8 DEF Positions
      <3>2. k \in 2 .. Len(heads[idx]) + 1
        BY <1>5, <1>10, <2>1, <3>1
      <3>3. k - 1 \in 1 .. Len(heads[idx]) /\ k \in Nat
        BY <1>5, <3>2
      <3> QED BY <1>7, <1>8, <2>1, <3>2, <3>3 DEF Positions
    <2>2. CASE i # idx
      <3>1. Len(heads[i]) \in Nat
        BY <1>1 DEF TypeOK
      <3> QED BY <1>8, <1>10, <2>2, <3>1 DEF Positions
    <2> QED BY <2>1, <2>2
  <1> HIDE DEF old
  <1>11. TypeOK'
    <2>1. \A i \in 1 .. BIN_COUNT : heads'[i] \in Seq(Nat)
      BY <1>1, <1>7, <1>8 DEF TypeOK
    <2> QED BY <1>1, <1>8, <2>1 DEF TypeOK, Frame
  <1>12. PagesSound' /\ pages' = pages
    BY <1>1 DEF PagesSound
  <1>13. InSomePage(b.addr, BinSizes[idx])
    <2>1. PICK p \in pages : Inside(b.addr, b.cap, p)
      BY <1>3 DEF InSomePage
    <2>2. PICK e : e = (p.start + p.frames) * PageSize
      OBVIOUS
    <2>3. e \in Nat
      <3>1. p.start \in Nat /\ p.frames \in Nat /\ p.start + p.frames \in Nat /\ PageSize \in Nat
        BY <1>1, Sizes DEF PagesSound
      <3>2. \A x, y \in Nat : x * y \in Nat
        BY SMT
      <3> QED BY <2>2, <3>1, <3>2
    <2>4. b.addr + BinSizes[idx] <= e
      BY <1>2, <1>3, <1>4, <2>1, <2>2, <2>3 DEF Inside
    <2> QED BY <2>1, <2>2, <2>4 DEF Inside, InSomePage
  <1>14. ASSUME NEW a \in Nat, NEW m \in Nat, Apart(b.addr, b.cap, a, m)
         PROVE  Apart(b.addr, BinSizes[idx], a, m)
    BY <1>2, <1>3, <1>4, <1>14 DEF Apart
  <1>15. ASSUME NEW i \in 1 .. BIN_COUNT, NEW k \in Positions(i)
         PROVE  Apart(b.addr, BinSizes[idx], heads[i][k], BinSizes[i])
    <2>1. heads[i][k] \in Nat /\ BinSizes[i] \in Nat
      BY <1>1, <1>4, NodeTypes
    <2> QED BY <1>1, <1>14, <2>1 DEF BlocksOffLists
  <1>16. NodesSound'
    <2>1. ASSUME NEW i \in 1 .. BIN_COUNT, NEW k \in Positions(i)'
          PROVE  NodeSound(heads[i][k], i)'
      <3>1. CASE new(i, k)
        BY <1>2, <1>3, <1>9, <1>12, <1>13, <3>1 DEF NodeSound, InSomePage, Inside
      <3>2. CASE ~new(i, k)
        <4>1. heads'[i][k] = heads[i][old(i, k)] /\ old(i, k) \in Positions(i)
          BY <1>10, <2>1, <3>2
        <4>2. NodeSound(heads[i][old(i, k)], i)
          BY <1>1, <4>1 DEF NodesSound
        <4> QED BY <1>12, <4>1, <4>2 DEF NodeSound, InSomePage, Inside
      <3> QED BY <3>1, <3>2
    <2> QED BY <2>1 DEF NodesSound
  <1>17. NodesApart'
    <2>1. ASSUME NEW i \in 1 .. BIN_COUNT, NEW j \in 1 .. BIN_COUNT,
                 NEW k \in Positions(i)', NEW l \in Positions(j)', i # j \/ k # l
          PROVE  Apart(heads'[i][k], BinSizes[i], heads'[j][l], BinSizes[j])
      <3>1. CASE new(i, k)
        <4>1. ~new(j, l)
          BY <2>1, <3>1
        <4>2. old(j, l) \in Positions(j) /\ heads'[j][l] = heads[j][old(j, l)]
          BY <1>10, <2>1, <4>1
        <4>3. Apart(b.addr, BinSizes[idx], heads[j][old(j, l)], BinSizes[j])
          BY <1>15, <4>2
        <4> QED BY <1>9, <3>1, <4>2, <4>3
      <3>2. CASE new(j, l) /\ ~new(i, k)
        <4>1. old(i, k) \in Positions(i) /\ heads'[i][k] = heads[i][old(i, k)]
          BY <1>10, <2>1, <3>2
        <4>2. Apart(b.addr, BinSizes[idx], heads[i][old(i, k)], BinSizes[i])
          BY <1>15, <4>1
        <4> QED BY <1>9, <3>2, <4>1, <4>2, ApartSymmetric
      <3>3. CASE ~new(i, k) /\ ~new(j, l)
        <4>1. old(i, k) \in Positions(i) /\ heads'[i][k] = heads[i][old(i, k)] /\ k \in Nat
          BY <1>10, <2>1, <3>3
        <4>2. old(j, l) \in Positions(j) /\ heads'[j][l] = heads[j][old(j, l)] /\ l \in Nat
          BY <1>10, <2>1, <3>3
        <4>3. i # j \/ old(i, k) # old(j, l)
          BY <2>1, <4>1, <4>2 DEF old
        <4>4. Apart(heads[i][old(i, k)], BinSizes[i], heads[j][old(j, l)], BinSizes[j])
          BY <1>1, <4>1, <4>2, <4>3 DEF NodesApart
        <4> QED BY <4>1, <4>2, <4>4
      <3> QED BY <3>1, <3>2, <3>3
    <2> QED BY <2>1 DEF NodesApart
  <1>18. BlocksSound'
    <2>1. ASSUME NEW c \in blocks PROVE BlockSound(c)'
      BY <1>1, <1>12 DEF BlocksSound, BlockSound, Returnable, InSomePage, Inside
    <2> QED BY <2>1 DEF BlocksSound
  <1>19. BlocksApart'
    BY <1>1 DEF BlocksApart
  <1>20. BlocksOffLists'
    <2>1. ASSUME NEW c \in blocks, c # b, NEW i \in 1 .. BIN_COUNT, NEW k \in Positions(i)'
          PROVE  Apart(c.addr, c.cap, heads'[i][k], BinSizes[i])
      <3>1. CASE new(i, k)
        <4>1. Apart(b.addr, b.cap, c.addr, c.cap) /\ c.addr \in Nat /\ c.cap \in Nat
          BY <1>1, <2>1, BlockTypes DEF BlocksApart
        <4>2. Apart(b.addr, BinSizes[idx], c.addr, c.cap)
          BY <1>14, <4>1
        <4> QED BY <1>9, <3>1, <4>2, ApartSymmetric
      <3>2. CASE ~new(i, k)
        <4>1. old(i, k) \in Positions(i) /\ heads'[i][k] = heads[i][old(i, k)]
          BY <1>10, <2>1, <3>2
        <4> QED BY <1>1, <4>1 DEF BlocksOffLists
      <3> QED BY <3>1, <3>2
    <2> QED BY <2>1 DEF BlocksOffLists
  <1> QED BY <1>11, <1>12, <1>16, <1>17, <1>18, <1>19, <1>20 DEF IInv

\* page_free_bytes: the block's own page run goes back, and nothing else lies in it.
LEMMA PageFreeKeeps ==
    ASSUME IInv, NEW b \in blocks, bin_index_for(b.n) = 0,
           blocks' = blocks \ {b},
           NEW p \in pages, p.start = b.addr \div PageSize, p.frames = need_frames(b.n), PA!Free(p),
           UNCHANGED heads
    PROVE  IInv'
PROOF
  <1>1. /\ TypeOK /\ PagesSound /\ NodesSound /\ NodesApart
        /\ BlocksSound /\ BlocksApart /\ BlocksOffLists
    BY DEF IInv
  <1>2. b.addr \in Nat \ {0} /\ b.n \in Nat \ {0} /\ b.cap \in Nat \ {0} /\ PageSize \in Nat \ {0}
    BY <1>1, BlockTypes, Sizes
  <1>3. \A q \in pages : q.start \in Nat \ {0} /\ q.frames \in Nat \ {0}
    BY <1>1 DEF PagesSound
  <1>4. p.start * PageSize = b.addr /\ p.frames * PageSize = b.cap
    <2>1. PICK q \in pages : q.start * PageSize = b.addr /\ q.frames * PageSize = b.cap /\ q.frames = need_frames(b.n)
      BY <1>1 DEF BlocksSound, BlockSound, Returnable
    <2>2. b.addr = PageSize * q.start
      BY <1>2, <1>3, <2>1
    <2>3. p.start = q.start
      BY <1>2, <1>3, <2>2, NoRemainder
    <2> QED BY <2>1, <2>3
  <1>5. avail' = avail \cup Run(p.start, p.frames) /\ pages' = pages \ {p} /\ phase' = phase
    BY SameOperators DEF PA!Free
  <1>6. PagesSound'
    <2>1. (phase = "boot" => pages = {})'
      BY <1>1, <1>5 DEF PagesSound
    <2>2. 0 \notin Run(p.start, p.frames) /\ Run(p.start, p.frames) \subseteq Frame
      BY <1>1, <1>3 DEF PagesSound, Run
    <2>3. avail' \subseteq Frame \ {0}
      BY <1>1, <1>5, <2>2 DEF PagesSound
    <2>4. ASSUME NEW q \in pages, q # p
          PROVE  Run(q.start, q.frames) \subseteq Frame \ avail'
      <3>1. Apart(q.start, q.frames, p.start, p.frames)
        BY <1>1, <2>4 DEF PagesSound
      <3>2. Run(q.start, q.frames) \cap Run(p.start, p.frames) = {}
        BY <1>3, <3>1 DEF Apart, Run
      <3> QED BY <1>1, <1>5, <3>2 DEF PagesSound
    <2>5. \A q, w \in pages' : q # w => Apart(q.start, q.frames, w.start, w.frames)
      BY <1>1, <1>5 DEF PagesSound
    <2> QED BY <1>3, <1>5, <2>1, <2>3, <2>4, <2>5 DEF PagesSound, Frame, Run, Apart
  <1>7. ASSUME NEW a \in Nat, NEW m \in Nat \ {0}, Apart(b.addr, b.cap, a, m), NEW q \in pages, Inside(a, m, q)
        PROVE  q # p
    <2> SUFFICES ASSUME q = p PROVE FALSE
      OBVIOUS
    <2>1. (p.start + p.frames) * PageSize = b.addr + b.cap
      <3>1. \A x, y, z \in Nat : (x + y) * z = x * z + y * z
        BY SMT
      <3> QED BY <1>2, <1>3, <1>4, <3>1
    <2>2. b.addr <= a /\ a + m <= b.addr + b.cap
      BY <1>4, <1>7, <2>1 DEF Inside
    <2> QED BY <1>2, <1>7, <2>2 DEF Apart
  <1>8. ASSUME NEW a \in Nat, NEW m \in Nat \ {0}, Apart(b.addr, b.cap, a, m), InSomePage(a, m)
        PROVE  \E q \in pages' : Inside(a, m, q)
    BY <1>5, <1>7, <1>8 DEF InSomePage
  <1>9. heads' = heads /\ \A i : Positions(i)' = Positions(i)
    BY DEF Positions
  <1>10. TypeOK'
    <2>1. avail' \subseteq Frame
      BY <1>6 DEF PagesSound, Frame
    <2> QED BY <1>1, <2>1 DEF TypeOK, Frame
  <1>11. NodesSound'
    <2>1. ASSUME NEW i \in 1 .. BIN_COUNT, NEW k \in Positions(i)
          PROVE  NodeSound(heads[i][k], i)'
      <3>1. /\ heads[i][k] \in Nat /\ BinSizes[i] \in Nat \ {0} /\ NodeSound(heads[i][k], i)
            /\ InSomePage(heads[i][k], BinSizes[i])
        BY <1>1, NodeTypes, Sizes DEF NodeSound
      <3>2. Apart(b.addr, b.cap, heads[i][k], BinSizes[i])
        BY <1>1 DEF BlocksOffLists
      <3>3. \E q \in pages' : Inside(heads[i][k], BinSizes[i], q)
        BY <1>8, <3>1, <3>2
      <3> QED BY <1>9, <3>1, <3>3 DEF NodeSound, InSomePage, Inside
    <2> QED BY <1>9, <2>1 DEF NodesSound
  <1>12. BlocksSound'
    <2>1. ASSUME NEW c \in blocks, c # b PROVE BlockSound(c)'
      <3>1. c.addr \in Nat /\ c.cap \in Nat \ {0} /\ BlockSound(c) /\ Apart(b.addr, b.cap, c.addr, c.cap)
        BY <1>1, <2>1, BlockTypes DEF BlocksSound, BlocksApart
      <3>2. InSomePage(c.addr, c.cap)'
        <4>1. \E q \in pages' : Inside(c.addr, c.cap, q)
          BY <1>8, <3>1 DEF BlockSound
        <4> QED BY <4>1 DEF InSomePage, Inside
      <3>3. Returnable(c)'
        <4>1. CASE bin_index_for(c.n) > 0
          BY <3>1, <4>1 DEF BlockSound, Returnable
        <4>2. CASE ~(bin_index_for(c.n) > 0)
          <5>1. PICK q \in pages : /\ q.start * PageSize = c.addr
                                   /\ q.frames * PageSize = c.cap
                                   /\ q.frames = need_frames(c.n)
            BY <3>1, <4>2 DEF BlockSound, Returnable
          <5>2. Inside(c.addr, c.cap, q)
            <6>1. \A x, y, z \in Nat : (x + y) * z = x * z + y * z
              BY SMT
            <6>2. (q.start + q.frames) * PageSize = c.addr + c.cap
              BY <1>2, <1>3, <5>1, <6>1
            <6> QED BY <3>1, <5>1, <6>2 DEF Inside
          <5>3. q \in pages'
            BY <1>5, <1>7, <3>1, <5>2
          <5> QED BY <4>2, <5>1, <5>3 DEF Returnable
        <4> QED BY <4>1, <4>2
      <3> QED BY <3>1, <3>2, <3>3 DEF BlockSound
    <2> QED BY <2>1 DEF BlocksSound
  <1>13. NodesApart' /\ BlocksApart' /\ BlocksOffLists'
    BY <1>1, <1>9 DEF NodesApart, BlocksApart, BlocksOffLists
  <1> QED BY <1>6, <1>10, <1>11, <1>12, <1>13 DEF IInv

(* ---- the invariant ---- *)

LEMMA InvInit == Init => IInv
PROOF
  <1> SUFFICES ASSUME Init PROVE IInv
    OBVIOUS
  <1>1. pages = {} /\ avail = {} /\ blocks = {} /\ heads = [i \in 1 .. BIN_COUNT |-> <<>>]
    BY DEF Init, PA!Init
  <1>2. \A i \in 1 .. BIN_COUNT : Positions(i) = {} /\ heads[i] \in Seq(Nat)
    BY <1>1 DEF Positions
  <1>3. TypeOK /\ PagesSound
    BY <1>1, <1>2 DEF TypeOK, PagesSound
  <1>4. NodesSound /\ NodesApart
    BY <1>2 DEF NodesSound, NodesApart
  <1>5. BlocksSound /\ BlocksApart /\ BlocksOffLists
    BY <1>1 DEF BlocksSound, BlocksApart, BlocksOffLists
  <1> QED BY <1>3, <1>4, <1>5 DEF IInv

\* Steps that leave blocks and lists alone and only grow the pool.
LEMMA QuietKeeps ==
    ASSUME IInv, PagesSound', UNCHANGED <<heads, blocks, pages>>
    PROVE  IInv'
PROOF
  <1>1. /\ TypeOK /\ NodesSound /\ NodesApart /\ BlocksSound /\ BlocksApart /\ BlocksOffLists
    BY DEF IInv
  <1>2. \A i : Positions(i)' = Positions(i)
    BY DEF Positions
  <1>3. TypeOK'
    <2>1. avail' \subseteq Frame
      BY DEF PagesSound, Frame
    <2> QED BY <1>1, <2>1 DEF TypeOK, Frame
  <1>4. NodesSound' /\ NodesApart'
    BY <1>1, <1>2 DEF NodesSound, NodeSound, NodesApart, InSomePage, Inside
  <1>5. BlocksSound'
    BY <1>1 DEF BlocksSound, BlockSound, Returnable, InSomePage, Inside
  <1>6. BlocksApart' /\ BlocksOffLists'
    BY <1>1, <1>2 DEF BlocksApart, BlocksOffLists
  <1> QED BY <1>3, <1>4, <1>5, <1>6 DEF IInv

LEMMA BootKeeps == ASSUME IInv, Boot PROVE IInv'
PROOF
  <1>1. PagesSound /\ UNCHANGED <<heads, blocks, pages>>
    BY DEF IInv, Boot, PA!Boot, PA!Release, heap
  <1>2. PagesSound'
    <2>1. CASE PA!Boot
      <3>1. avail' \subseteq Frame \ {0} /\ pages = {}
        BY <1>1, <2>1, SameOperators DEF PA!Boot, PagesSound
      <3> QED BY <1>1, <3>1 DEF PagesSound, Frame
    <2>2. CASE PA!Release
      <3>1. avail' \subseteq Frame \ {0}
        BY <1>1, <2>2, SameOperators DEF PA!Release, PagesSound
      <3>2. phase' # "boot"
        BY <2>2 DEF PA!Release
      <3>3. ASSUME NEW q \in pages PROVE Run(q.start, q.frames) \cap PA!BootData(map) = {}
        <4> DEFINE U == {PA!Run(x.start, x.frames) : x \in pages}
        <4>1. PA!BootData(map) \cap UNION U = {}
          BY <2>2 DEF PA!Release
        <4>2. PA!Run(q.start, q.frames) \in U
          OBVIOUS
        <4> HIDE DEF U
        <4> QED BY <4>1, <4>2, SameOperators
      <3>4. \A q \in pages : Run(q.start, q.frames) \subseteq Frame \ avail'
        BY <1>1, <2>2, <3>3 DEF PA!Release, PagesSound
      <3> QED BY <1>1, <3>1, <3>2, <3>4 DEF PagesSound, Frame, Run, Apart
    <2> QED BY <2>1, <2>2 DEF Boot
  <1> QED BY <1>1, <1>2, QuietKeeps

LEMMA InitHeapKeeps == ASSUME IInv, bin_alloc_init PROVE IInv'
PROOF
  <1>1. /\ TypeOK /\ PagesSound /\ BlocksSound /\ BlocksApart
        /\ UNCHANGED <<map, phase, avail, pages, frame, blocks, ret>>
        /\ heads' = [i \in 1 .. BIN_COUNT |-> <<>>]
    BY DEF IInv, bin_alloc_init
  <1>2. \A i \in 1 .. BIN_COUNT : Positions(i)' = {} /\ heads'[i] \in Seq(Nat)
    BY <1>1 DEF Positions
  <1>3. TypeOK'
    BY <1>1, <1>2 DEF TypeOK, Frame
  <1>4. PagesSound'
    BY <1>1 DEF PagesSound
  <1>5. NodesSound' /\ NodesApart' /\ BlocksOffLists'
    BY <1>2 DEF NodesSound, NodesApart, BlocksOffLists
  <1>6. BlocksSound'
    BY <1>1 DEF BlocksSound, BlockSound, Returnable, InSomePage, Inside
  <1>7. BlocksApart'
    BY <1>1 DEF BlocksApart
  <1> QED BY <1>3, <1>4, <1>5, <1>6, <1>7 DEF IInv

\* A call that returns NULL changes nothing the invariant speaks of.
LEMMA NullKeeps ==
    ASSUME IInv, UNCHANGED <<phase, avail, pages, heads, blocks>>
    PROVE  IInv'
PROOF
  <1>1. PagesSound'
    BY DEF IInv, PagesSound
  <1> QED BY <1>1, QuietKeeps

\* kmalloc keeps the invariant, and hands out a fresh block or returns NULL.
LEMMA KmallocKeeps ==
    ASSUME IInv, NEW r \in KRequests, kmalloc(r)
    PROVE  IInv' /\ (Handed(r) \/ GiveNull)
PROOF
  <1>1. r.n > 0
    BY DEF kmalloc
  <1>2. CASE kmalloc_bin(r)
    <2>1. PICK idx : idx = bin_index_for(max_size(r.n, r.align))
      OBVIOUS
    <2>2. idx > 0
      BY <1>2, <2>1 DEF kmalloc_bin
    <2>3. CASE /\ heads[idx] # <<>>
               /\ Give(Head(heads[idx]), r, BinSizes[idx])
               /\ heads' = [heads EXCEPT ![idx] = Tail(@)]
               /\ UNCHANGED <<map, phase, avail, pages, frame>>
      BY <1>1, <2>1, <2>2, <2>3, PopKeeps
    <2>4. CASE /\ heads[idx] = <<>>
               /\ PA!Alloc(OnePage)
               /\ Give(Head(chunk_list(frame' * PageSize, BinSizes[idx])), r, BinSizes[idx])
               /\ heads' = [heads EXCEPT ![idx] = Tail(chunk_list(frame' * PageSize, BinSizes[idx]))]
      BY <1>1, <2>1, <2>2, <2>4, RefillKeeps
    <2>5. CASE PA!Fail(OnePage) /\ GiveNull /\ UNCHANGED heads
      <3>1. UNCHANGED <<phase, avail, pages, heads, blocks>>
        BY <2>5 DEF PA!Fail, GiveNull
      <3> QED BY <2>5, <3>1, NullKeeps
    <2> QED BY <1>2, <2>1, <2>3, <2>4, <2>5 DEF kmalloc_bin
  <1>3. CASE kmalloc_pages(r)
    <2>1. PICK al : al = (IF r.align > PageSize THEN align_frames(r.align) ELSE 1)
      OBVIOUS
    <2>2. PICK p : p = [bytes |-> r.n, needed |-> need_frames(r.n), align |-> al]
      OBVIOUS
    <2>3. bin_index_for(max_size(r.n, r.align)) = 0 /\ UNCHANGED heads /\ p.needed = need_frames(r.n)
      BY <1>3, <2>2 DEF kmalloc_pages
    <2>4. CASE GiveNull /\ UNCHANGED <<map, phase, avail, pages, frame>>
      <3>1. UNCHANGED <<phase, avail, pages, heads, blocks>>
        BY <2>3, <2>4 DEF GiveNull
      <3> QED BY <2>4, <3>1, NullKeeps
    <2>5. CASE /\ r.align <= PageSize \/ need_frames(r.n) > 0
               /\ PA!Alloc(p) /\ Give(frame' * PageSize, r, need_frames(r.n) * PageSize)
      BY <1>1, <2>1, <2>2, <2>3, <2>5, PagesKeep
    <2>6. CASE PA!Fail(p) /\ GiveNull
      <3>1. UNCHANGED <<phase, avail, pages, heads, blocks>>
        BY <2>3, <2>6 DEF PA!Fail, GiveNull
      <3> QED BY <2>6, <3>1, NullKeeps
    <2> QED BY <1>3, <2>1, <2>2, <2>3, <2>4, <2>5, <2>6 DEF kmalloc_pages
  <1> QED BY <1>2, <1>3 DEF kmalloc

LEMMA KfreeKeeps == ASSUME IInv, NEW b \in blocks, kfree(b) PROVE IInv'
PROOF
  <1>1. PICK idx : idx = bin_index_for(b.n)
    OBVIOUS
  <1>2. blocks' = blocks \ {b}
    BY DEF kfree
  <1>3. CASE /\ idx > 0
             /\ heads' = [heads EXCEPT ![idx] = <<b.addr>> \o @]
             /\ UNCHANGED <<map, phase, avail, pages, frame>>
    BY <1>1, <1>2, <1>3, PushKeeps
  <1>4. CASE /\ idx = 0
             /\ \E p \in pages : /\ p.start = b.addr \div PageSize
                                 /\ p.frames = need_frames(b.n)
                                 /\ PA!Free(p)
             /\ UNCHANGED heads
    BY <1>1, <1>2, <1>4, PageFreeKeeps
  <1> QED BY <1>1, <1>3, <1>4 DEF kfree

LEMMA InvStep == IInv /\ [Next]_vars => IInv'
PROOF
  <1> SUFFICES ASSUME IInv, [Next]_vars PROVE IInv'
    OBVIOUS
  <1>1. CASE Boot
    BY <1>1, BootKeeps
  <1>2. CASE bin_alloc_init
    BY <1>2, InitHeapKeeps
  <1>3. ASSUME NEW r \in KRequests, kmalloc(r) PROVE IInv'
    BY <1>3, KmallocKeeps
  <1>4. ASSUME NEW b \in blocks, kfree(b) PROVE IInv'
    BY <1>4, KfreeKeeps
  <1>5. CASE UNCHANGED vars
    <2>1. UNCHANGED <<phase, avail, pages, heads, blocks>>
      BY <1>5 DEF vars, heap
    <2> QED BY <2>1, NullKeeps
  <1> QED BY <1>1, <1>2, <1>3, <1>4, <1>5 DEF Next

LEMMA HeapInvariant == Spec => []IInv
  BY InvInit, InvStep, PTL DEF Spec

(* The types of the heap's state, for every page size, every bins that divide
   it and every set of requests: an address kmalloc hands out is not NULL. *)
THEOREM TypeCorrect == Spec => []TypeOK
PROOF
  <1>1. IInv => TypeOK
    BY DEF IInv
  <1> QED BY <1>1, HeapInvariant, PTL

(* ---- who owns which bytes ---- *)

\* A claim is a caller's block or a node of a list.
LEMMA ClaimCases ==
    ASSUME NEW c \in Claims
    PROVE  \/ \E b \in blocks : c = [who |-> "caller", pos |-> 0, addr |-> b.addr, size |-> b.cap]
           \/ \E i \in 1 .. BIN_COUNT : \E k \in Positions(i) :
                 c = [who |-> "list", pos |-> <<i, k>>, addr |-> heads[i][k], size |-> BinSizes[i]]
PROOF
  <1> DEFINE N(i) == {[who |-> "list", pos |-> <<i, k>>, addr |-> heads[i][k], size |-> BinSizes[i]]
                         : k \in 1 .. Len(heads[i])}
             U == {N(i) : i \in 1 .. BIN_COUNT}
             B == {[who |-> "caller", pos |-> 0, addr |-> b.addr, size |-> b.cap] : b \in blocks}
  <1>1. c \in B \/ c \in UNION U
    BY DEF Claims
  <1>2. CASE c \in B
    BY <1>2
  <1>3. CASE c \in UNION U
    <2>1. PICK S \in U : c \in S
      <3> HIDE DEF U
      <3> QED BY <1>3
    <2>2. PICK i \in 1 .. BIN_COUNT : S = N(i)
      <3> HIDE DEF N
      <3> QED BY <2>1
    <2>3. c \in N(i)
      BY <2>1, <2>2
    <2>4. PICK k \in 1 .. Len(heads[i]) :
             c = [who |-> "list", pos |-> <<i, k>>, addr |-> heads[i][k], size |-> BinSizes[i]]
      BY <2>3
    <2> QED BY <2>4 DEF Positions
  <1> QED BY <1>1, <1>2, <1>3

LEMMA ApartDisjoint ==
    ASSUME NEW a \in Nat, NEW m \in Nat, NEW b \in Nat, NEW n \in Nat, Apart(a, m, b, n)
    PROVE  Bytes(a, m) \cap Bytes(b, n) = {}
PROOF
  BY DEF Apart, Bytes

\* A claim's bytes: naturals, at least one of them, in a page.
LEMMA ClaimFacts ==
    ASSUME IInv, NEW c \in Claims
    PROVE  c.addr \in Nat /\ c.size \in Nat \ {0} /\ InSomePage(c.addr, c.size)
PROOF
  <1>1. TypeOK /\ NodesSound /\ BlocksSound
    BY DEF IInv
  <1>2. ASSUME NEW b \in blocks, c = [who |-> "caller", pos |-> 0, addr |-> b.addr, size |-> b.cap]
        PROVE  c.addr \in Nat /\ c.size \in Nat \ {0} /\ InSomePage(c.addr, c.size)
    <2>1. b.addr \in Nat /\ b.cap \in Nat \ {0} /\ InSomePage(b.addr, b.cap)
      BY <1>1, BlockTypes DEF BlocksSound, BlockSound
    <2>2. c.addr = b.addr /\ c.size = b.cap
      BY <1>2
    <2> QED BY <2>1, <2>2
  <1>3. ASSUME NEW i \in 1 .. BIN_COUNT, NEW k \in Positions(i),
               c = [who |-> "list", pos |-> <<i, k>>, addr |-> heads[i][k], size |-> BinSizes[i]]
        PROVE  c.addr \in Nat /\ c.size \in Nat \ {0} /\ InSomePage(c.addr, c.size)
    <2>1. heads[i][k] \in Nat /\ BinSizes[i] \in Nat \ {0} /\ InSomePage(heads[i][k], BinSizes[i])
      BY <1>1, NodeTypes, Sizes DEF NodeSound
    <2>2. c.addr = heads[i][k] /\ c.size = BinSizes[i]
      BY <1>3
    <2> QED BY <2>1, <2>2
  <1> QED BY <1>2, <1>3, ClaimCases

LEMMA ClaimsApart ==
    ASSUME IInv, NEW c \in Claims, NEW d \in Claims, c # d
    PROVE  Apart(c.addr, c.size, d.addr, d.size)
PROOF
  <1>1. NodesApart /\ BlocksApart /\ BlocksOffLists
    BY DEF IInv
  <1>2. ASSUME NEW b \in blocks, c = [who |-> "caller", pos |-> 0, addr |-> b.addr, size |-> b.cap]
        PROVE  Apart(c.addr, c.size, d.addr, d.size)
    <2>1. c.addr = b.addr /\ c.size = b.cap
      BY <1>2
    <2>2. ASSUME NEW e \in blocks, d = [who |-> "caller", pos |-> 0, addr |-> e.addr, size |-> e.cap]
          PROVE  Apart(c.addr, c.size, d.addr, d.size)
      <3>1. b # e
        BY <1>2, <2>2
      <3>2. d.addr = e.addr /\ d.size = e.cap
        BY <2>2
      <3> QED BY <1>1, <2>1, <3>1, <3>2 DEF BlocksApart
    <2>3. ASSUME NEW i \in 1 .. BIN_COUNT, NEW k \in Positions(i),
                 d = [who |-> "list", pos |-> <<i, k>>, addr |-> heads[i][k], size |-> BinSizes[i]]
          PROVE  Apart(c.addr, c.size, d.addr, d.size)
      <3>1. d.addr = heads[i][k] /\ d.size = BinSizes[i]
        BY <2>3
      <3> QED BY <1>1, <2>1, <3>1 DEF BlocksOffLists
    <2> QED BY <2>2, <2>3, ClaimCases
  <1>3. ASSUME NEW i \in 1 .. BIN_COUNT, NEW k \in Positions(i),
               c = [who |-> "list", pos |-> <<i, k>>, addr |-> heads[i][k], size |-> BinSizes[i]]
        PROVE  Apart(c.addr, c.size, d.addr, d.size)
    <2>1. c.addr = heads[i][k] /\ c.size = BinSizes[i]
      BY <1>3
    <2>2. ASSUME NEW e \in blocks, d = [who |-> "caller", pos |-> 0, addr |-> e.addr, size |-> e.cap]
          PROVE  Apart(c.addr, c.size, d.addr, d.size)
      <3>1. d.addr = e.addr /\ d.size = e.cap
        BY <2>2
      <3>2. Apart(e.addr, e.cap, heads[i][k], BinSizes[i])
        BY <1>1 DEF BlocksOffLists
      <3> QED BY <2>1, <3>1, <3>2, ApartSymmetric
    <2>3. ASSUME NEW j \in 1 .. BIN_COUNT, NEW l \in Positions(j),
                 d = [who |-> "list", pos |-> <<j, l>>, addr |-> heads[j][l], size |-> BinSizes[j]]
          PROVE  Apart(c.addr, c.size, d.addr, d.size)
      <3>1. i # j \/ k # l
        BY <1>3, <2>3
      <3>2. d.addr = heads[j][l] /\ d.size = BinSizes[j]
        BY <2>3
      <3> QED BY <1>1, <2>1, <3>1, <3>2 DEF NodesApart
    <2> QED BY <2>2, <2>3, ClaimCases
  <1> QED BY <1>2, <1>3, ClaimCases

(* No byte of the heap has two owners: blocks of callers and nodes of the free
   lists never overlap and lie in pages the page allocator has handed out,
   although kfree picks the list by the size alone and kmalloc by the larger of
   size and alignment. *)
THEOREM NoByteHasTwoOwners == Spec => []ClaimsSound
PROOF
  <1>1. ASSUME IInv PROVE ClaimsDisjoint
    <2>1. ASSUME NEW c \in Claims, NEW d \in Claims, c # d
          PROVE  Bytes(c.addr, c.size) \cap Bytes(d.addr, d.size) = {}
      <3>1. c.addr \in Nat /\ c.size \in Nat /\ d.addr \in Nat /\ d.size \in Nat
        BY <1>1, ClaimFacts
      <3> QED BY <1>1, <2>1, <3>1, ClaimsApart, ApartDisjoint
    <2> QED BY <2>1 DEF ClaimsDisjoint
  <1>2. ASSUME IInv PROVE ClaimsInPages
    <2>1. ASSUME NEW c \in Claims PROVE Bytes(c.addr, c.size) \subseteq PageBytes
      <3>1. c.addr \in Nat /\ c.size \in Nat
        BY <1>2, ClaimFacts
      <3>2. PICK p \in pages : Inside(c.addr, c.size, p)
        BY <1>2, ClaimFacts DEF InSomePage
      <3> DEFINE s == p.start * PageSize
                 f == p.frames * PageSize
      <3>3. s \in Nat /\ f \in Nat /\ (p.start + p.frames) * PageSize = s + f
        <4>1. p.start \in Nat /\ p.frames \in Nat /\ PageSize \in Nat
          BY <1>2, Sizes DEF IInv, PagesSound
        <4>2. \A x, y, z \in Nat : (x + y) * z = x * z + y * z /\ x * y \in Nat
          BY SMT
        <4> QED BY <4>1, <4>2
      <3>4. s <= c.addr /\ c.addr + c.size <= s + f
        BY <3>2, <3>3 DEF Inside
      <3> HIDE DEF s, f
      <3>5. Bytes(c.addr, c.size) \subseteq Bytes(s, f)
        BY <3>1, <3>3, <3>4 DEF Bytes
      <3> DEFINE U == {Bytes(q.start * PageSize, q.frames * PageSize) : q \in pages}
      <3>6. Bytes(s, f) \in U
        BY DEF s, f
      <3>7. PageBytes = UNION U
        BY DEF PageBytes
      <3> HIDE DEF U
      <3> QED BY <3>5, <3>6, <3>7
    <2> QED BY <2>1 DEF ClaimsInPages
  <1>3. IInv => ClaimsSound
    BY <1>1, <1>2 DEF ClaimsSound
  <1> QED BY <1>3, HeapInvariant, PTL

(* ---- the heap's promise ---- *)

\* A step that hands out a block is the promise's kmalloc.
LEMMA HandedIsKmalloc ==
    ASSUME IInv, IInv', NEW r \in KRequests, r.n > 0, Handed(r)
    PROVE  H!kmalloc(r)
PROOF
  <1>1. PICK nb : /\ nb \notin blocks /\ blocks' = blocks \cup {nb}
                  /\ nb.addr = ret' /\ nb.n = r.n /\ nb.align = r.align
    BY DEF Handed
  <1>2. /\ nb.addr \in Nat \ {0} /\ nb.n \in Nat \ {0} /\ nb.cap \in Nat \ {0} /\ nb \in blocks'
        /\ nb.n <= nb.cap /\ (nb.align > 1 => nb.addr % nb.align = 0)
    <2>1. nb \in blocks' /\ TypeOK' /\ BlocksSound'
      BY <1>1 DEF IInv
    <2>2. nb.addr \in Nat \ {0} /\ nb.n \in Nat \ {0} /\ nb.cap \in Nat \ {0}
      BY <2>1 DEF TypeOK
    <2>3. BlockSound(nb)'
      BY <2>1 DEF BlocksSound
    <2> QED BY <2>1, <2>2, <2>3 DEF BlockSound
  <1>3. ASSUME NEW b \in blocks
        PROVE  H!Bytes(ret', r.n) \cap H!Bytes(b.addr, b.n) = {}
    <2>1. Apart(nb.addr, nb.cap, b.addr, b.cap)
      BY <1>1 DEF IInv, BlocksApart
    <2>2. b.addr \in Nat /\ b.n \in Nat /\ b.cap \in Nat /\ b.n <= b.cap
      BY BlockTypes DEF IInv, BlocksSound, BlockSound
    <2>3. Apart(nb.addr, nb.n, b.addr, b.n)
      BY <1>2, <2>1, <2>2 DEF Apart
    <2> QED BY <1>1, <1>2, <2>2, <2>3 DEF H!Bytes, Apart
  <1> DEFINE live == {[addr |-> b.addr, n |-> b.n, align |-> b.align] : b \in blocks}
  <1>4. \A b \in live : H!Bytes(ret', r.n) \cap H!Bytes(b.addr, b.n) = {}
    BY <1>3
  <1>5. live' = live \cup {[addr |-> ret', n |-> r.n, align |-> r.align]}
    BY <1>1
  <1>6. ret' > 0 /\ (r.align > 1 => ret' % r.align = 0)
    BY <1>1, <1>2
  <1> QED BY <1>4, <1>5, <1>6 DEF H!kmalloc

\* kfree takes back exactly the block it is given.
LEMMA FreeIsKfree ==
    ASSUME IInv, NEW b \in blocks, kfree(b)
    PROVE  H!kfree([addr |-> b.addr, n |-> b.n, align |-> b.align])
PROOF
  <1> DEFINE proj(c) == [addr |-> c.addr, n |-> c.n, align |-> c.align]
  <1>1. blocks' = blocks \ {b} /\ ret' = ret
    BY DEF kfree
  <1>2. ASSUME NEW c \in blocks, c # b PROVE proj(c) # proj(b)
    <2>1. /\ Apart(b.addr, b.cap, c.addr, c.cap)
          /\ b.addr \in Nat /\ c.addr \in Nat /\ b.cap \in Nat \ {0} /\ c.cap \in Nat \ {0}
      BY <1>2, BlockTypes DEF IInv, BlocksApart
    <2>2. c.addr # b.addr
      BY <2>1 DEF Apart
    <2> QED BY <2>2
  <1>3. {proj(c) : c \in blocks'} = {proj(c) : c \in blocks} \ {proj(b)}
    <2> HIDE DEF proj
    <2> QED BY <1>1, <1>2
  <1> QED BY <1>1, <1>3 DEF H!kfree

(* kmalloc and kfree over the bins and the page allocator implement the heap
   bin_alloc.h promises: what kmalloc returns is NULL or memory of the size and
   the alignment asked for that overlaps no block a caller holds. *)
THEOREM HeapImplemented == Spec => ImplementsHeap
PROOF
  <1>1. Init => H!Init
    BY DEF Init, H!Init
  <1>2. IInv /\ IInv' /\ [Next]_vars => [H!Next]_(H!vars)
    <2> SUFFICES ASSUME IInv, IInv', [Next]_vars PROVE [H!Next]_(H!vars)
      OBVIOUS
    <2>1. CASE Boot
      BY <2>1 DEF Boot, heap, H!vars
    <2>2. CASE bin_alloc_init
      BY <2>2 DEF bin_alloc_init, H!vars
    <2>3. ASSUME NEW r \in KRequests, kmalloc(r) PROVE H!Next
      <3>1. r.n > 0 /\ (Handed(r) \/ GiveNull)
        BY <2>3, KmallocKeeps DEF kmalloc
      <3>2. CASE Handed(r)
        BY <2>3, <3>1, <3>2, HandedIsKmalloc DEF H!Next
      <3>3. CASE GiveNull
        <4>1. H!kmalloc(r)
          BY <3>3 DEF GiveNull, H!kmalloc
        <4> QED BY <2>3, <4>1 DEF H!Next
      <3> QED BY <3>1, <3>2, <3>3
    <2>4. ASSUME NEW b \in blocks, kfree(b) PROVE H!Next
      BY <2>4, FreeIsKfree DEF H!Next
    <2>5. CASE UNCHANGED vars
      BY <2>5 DEF vars, heap, H!vars
    <2> QED BY <2>1, <2>2, <2>3, <2>4, <2>5 DEF Next
  <1> QED BY <1>1, <1>2, HeapInvariant, PTL DEF Spec, ImplementsHeap, H!Spec
=============================================================================
