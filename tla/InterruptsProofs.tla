-------------------------- MODULE InterruptsProofs --------------------------
(***************************************************************************)
(* Proofs about Interrupts, for any devices, firmware, exceptions and      *)
(* vectors, and any number of nested exceptions: what the descriptor       *)
(* tables hold, where an interrupt's frame is on the stack and what is in  *)
(* it at each stage, and what the controllers have in service.             *)
(***************************************************************************)
EXTENDS Interrupts, SequenceTheorems, TLAPS

(* ---- words as sets of bits ---- *)

\* The weights of the bits of a 16-bit word.
LEMMA Powers ==
    /\ 2^0 = 1 /\ 2^1 = 2 /\ 2^2 = 4 /\ 2^3 = 8 /\ 2^4 = 16 /\ 2^5 = 32 /\ 2^6 = 64 /\ 2^7 = 128
    /\ 2^8 = 256 /\ 2^9 = 512 /\ 2^10 = 1024 /\ 2^11 = 2048 /\ 2^12 = 4096 /\ 2^13 = 8192
    /\ 2^14 = 16384 /\ 2^15 = 32768
PROOF
  OBVIOUS

\* Each bit of a byte by its weight.
LEMMA LowBits ==
    ASSUME NEW n \in 0 .. 255
    PROVE  /\ 0 \in BitsOf(n) <=> (n \div 1) % 2 = 1
           /\ 1 \in BitsOf(n) <=> (n \div 2) % 2 = 1
           /\ 2 \in BitsOf(n) <=> (n \div 4) % 2 = 1
           /\ 3 \in BitsOf(n) <=> (n \div 8) % 2 = 1
           /\ 4 \in BitsOf(n) <=> (n \div 16) % 2 = 1
           /\ 5 \in BitsOf(n) <=> (n \div 32) % 2 = 1
           /\ 6 \in BitsOf(n) <=> (n \div 64) % 2 = 1
           /\ 7 \in BitsOf(n) <=> (n \div 128) % 2 = 1
PROOF
<1>0. 0 \in BitsOf(n) <=> (n \div 1) % 2 = 1
  <2>1. 2^0 = 1
    BY Powers
  <2>2. 0 \in BitsOf(n) <=> (n \div 2^0) % 2 = 1
    BY DEF BitsOf
  <2> QED BY <2>1, <2>2
<1>1. 1 \in BitsOf(n) <=> (n \div 2) % 2 = 1
  <2>1. 2^1 = 2
    BY Powers
  <2>2. 1 \in BitsOf(n) <=> (n \div 2^1) % 2 = 1
    BY DEF BitsOf
  <2> QED BY <2>1, <2>2
<1>2. 2 \in BitsOf(n) <=> (n \div 4) % 2 = 1
  <2>1. 2^2 = 4
    BY Powers
  <2>2. 2 \in BitsOf(n) <=> (n \div 2^2) % 2 = 1
    BY DEF BitsOf
  <2> QED BY <2>1, <2>2
<1>3. 3 \in BitsOf(n) <=> (n \div 8) % 2 = 1
  <2>1. 2^3 = 8
    BY Powers
  <2>2. 3 \in BitsOf(n) <=> (n \div 2^3) % 2 = 1
    BY DEF BitsOf
  <2> QED BY <2>1, <2>2
<1>4. 4 \in BitsOf(n) <=> (n \div 16) % 2 = 1
  <2>1. 2^4 = 16
    BY Powers
  <2>2. 4 \in BitsOf(n) <=> (n \div 2^4) % 2 = 1
    BY DEF BitsOf
  <2> QED BY <2>1, <2>2
<1>5. 5 \in BitsOf(n) <=> (n \div 32) % 2 = 1
  <2>1. 2^5 = 32
    BY Powers
  <2>2. 5 \in BitsOf(n) <=> (n \div 2^5) % 2 = 1
    BY DEF BitsOf
  <2> QED BY <2>1, <2>2
<1>6. 6 \in BitsOf(n) <=> (n \div 64) % 2 = 1
  <2>1. 2^6 = 64
    BY Powers
  <2>2. 6 \in BitsOf(n) <=> (n \div 2^6) % 2 = 1
    BY DEF BitsOf
  <2> QED BY <2>1, <2>2
<1>7. 7 \in BitsOf(n) <=> (n \div 128) % 2 = 1
  <2>1. 2^7 = 128
    BY Powers
  <2>2. 7 \in BitsOf(n) <=> (n \div 2^7) % 2 = 1
    BY DEF BitsOf
  <2> QED BY <2>1, <2>2
<1> QED BY <1>0, <1>1, <1>2, <1>3, <1>4, <1>5, <1>6, <1>7

\* The bits of a byte.
LEMMA ByteBits ==
    ASSUME NEW n \in 0 .. 255
    PROVE  BitsOf(n) \subseteq 0 .. 7
PROOF
<1>1. ASSUME NEW b \in 8 .. 15, NEW p \in Nat, p >= 256, 2^b = p PROVE b \notin BitsOf(n)
  <2>1. n \div p = 0
    BY <1>1
  <2>2. b \in 0 .. 15 /\ 0 % 2 = 0
    OBVIOUS
  <2>3. b \in BitsOf(n) <=> (n \div 2^b) % 2 = 1
    BY <2>2 DEF BitsOf
  <2>4. (n \div 2^b) % 2 = 0
    BY <1>1, <2>1, <2>2
  <2> QED BY <2>3, <2>4
<1>2. /\ 8 \notin BitsOf(n) /\ 9 \notin BitsOf(n) /\ 10 \notin BitsOf(n) /\ 11 \notin BitsOf(n)
      /\ 12 \notin BitsOf(n) /\ 13 \notin BitsOf(n) /\ 14 \notin BitsOf(n) /\ 15 \notin BitsOf(n)
  BY <1>1, Powers
<1>3. BitsOf(n) \subseteq 0 .. 15
  BY DEF BitsOf
<1> QED BY <1>2, <1>3

\* A byte is determined by its bits.
LEMMA BitsInjective ==
    ASSUME NEW v \in 0 .. 255, NEW w \in 0 .. 255, BitsOf(v) = BitsOf(w)
    PROVE  v = w
PROOF
<1>1. ASSUME NEW b \in 0 .. 15, NEW p \in Nat \ {0}, 2^b = p PROVE (v \div p) % 2 = (w \div p) % 2
  <2>1. (v \div p) % 2 = 1 <=> (w \div p) % 2 = 1
    <3>1. b \in BitsOf(v) <=> (v \div 2^b) % 2 = 1
      BY DEF BitsOf
    <3>2. b \in BitsOf(w) <=> (w \div 2^b) % 2 = 1
      BY DEF BitsOf
    <3> QED BY <1>1, <3>1, <3>2
  <2>2. v \div p \in Nat /\ w \div p \in Nat
    OBVIOUS
  <2> QED BY <2>1, <2>2
<1>2. (v \div 128) % 2 = (w \div 128) % 2
  BY <1>1, Powers
<1>3. (v \div 64) % 2 = (w \div 64) % 2
  BY <1>1, Powers
<1>4. (v \div 32) % 2 = (w \div 32) % 2
  BY <1>1, Powers
<1>5. (v \div 16) % 2 = (w \div 16) % 2
  BY <1>1, Powers
<1>6. (v \div 8) % 2 = (w \div 8) % 2
  BY <1>1, Powers
<1>7. (v \div 4) % 2 = (w \div 4) % 2
  BY <1>1, Powers
<1>8. (v \div 2) % 2 = (w \div 2) % 2
  BY <1>1, Powers
<1>9. v % 2 = w % 2
  <2>1. (v \div 1) % 2 = (w \div 1) % 2
    BY <1>1, Powers
  <2> QED BY <2>1
<1>10. v \div 64 = w \div 64
  BY <1>2, <1>3
<1>11. v \div 16 = w \div 16
  BY <1>4, <1>5, <1>10
<1>12. v \div 4 = w \div 4
  BY <1>6, <1>7, <1>11
<1> QED
  BY <1>8, <1>9, <1>12

\* The bits of a word shifted up.
LEMMA ShlIn ==
    ASSUME NEW w \in SUBSET Nat, NEW n \in Nat
    PROVE  \A b : b \in Shl(w, n) <=> b \in Nat /\ b >= n /\ b - n \in w
PROOF
<1>1. ASSUME NEW b, b \in Shl(w, n) PROVE b \in Nat /\ b >= n /\ b - n \in w
  <2>1. PICK c \in w : b = c + n
    BY <1>1 DEF Shl
  <2>2. b \in Nat /\ b >= n /\ b - n = c
    BY <2>1
  <2> QED BY <2>1, <2>2
<1>2. ASSUME NEW b \in Nat, b - n \in w PROVE b \in Shl(w, n)
  <2>1. b = (b - n) + n
    OBVIOUS
  <2> QED BY <1>2, <2>1 DEF Shl
<1> QED BY <1>1, <1>2

\* The bits of a word shifted down.
LEMMA ShrIn ==
    ASSUME NEW w \in SUBSET Nat, NEW n \in Nat
    PROVE  \A b : b \in Shr(w, n) <=> b \in Nat /\ b + n \in w
PROOF
<1>1. ASSUME NEW b, b \in Shr(w, n) PROVE b \in Nat /\ b + n \in w
  <2>1. PICK c \in {x \in w : x >= n} : b = c - n
    BY <1>1 DEF Shr
  <2>2. c \in Nat /\ c >= n /\ b + n = c /\ b >= 0
    BY <2>1
  <2> QED BY <2>1, <2>2
<1>2. ASSUME NEW b \in Nat, b + n \in w PROVE b \in Shr(w, n)
  <2>1. b = (b + n) - n /\ b + n >= n
    OBVIOUS
  <2> QED BY <1>2, <2>1 DEF Shr
<1> QED BY <1>1, <1>2

\* The low bits of a word.
LEMMA LowIn ==
    ASSUME NEW w \in SUBSET Nat, NEW n \in Nat
    PROVE  \A b : b \in Low(w, n) <=> b \in w /\ b < n
PROOF
<1>1. \A b \in w : b \in 0 .. (n - 1) <=> b < n
  OBVIOUS
<1> QED BY <1>1 DEF Low

\* Shifts and truncations of words are words.
LEMMA Words ==
    ASSUME NEW w \in SUBSET Nat, NEW n \in Nat
    PROVE  Shl(w, n) \in SUBSET Nat /\ Shr(w, n) \in SUBSET Nat /\ Low(w, n) \in SUBSET Nat
PROOF
<1>1. Shl(w, n) \in SUBSET Nat
  BY ShlIn
<1>2. Shr(w, n) \in SUBSET Nat
  BY ShrIn
<1>3. Low(w, n) \in SUBSET Nat
  BY LowIn
<1> QED BY <1>1, <1>2, <1>3

\* The n bits of w from bit k on, moved to bit m.
LEMMA Field ==
    ASSUME NEW w \in SUBSET Nat, NEW k \in Nat, NEW n \in Nat, NEW m \in Nat
    PROVE  \A b : b \in Shl(Low(Shr(w, k), n), m) <=> b \in Nat /\ m <= b /\ b < m + n /\ (b - m) + k \in w
PROOF
<1>1. PICK u \in SUBSET Nat : u = Shr(w, k)
  BY Words
<1>2. \A b : b \in u <=> b \in Nat /\ b + k \in w
  BY <1>1, ShrIn
<1>3. PICK x \in SUBSET Nat : x = Low(u, n)
  BY Words
<1>4. \A b : b \in x <=> b \in u /\ b < n
  BY <1>3, LowIn
<1>5. \A b : b \in Shl(x, m) <=> b \in Nat /\ b >= m /\ b - m \in x
  BY ShlIn
<1>6. ASSUME NEW b \in Nat PROVE b \in Shl(x, m) <=> m <= b /\ b < m + n /\ (b - m) + k \in w
  <2>1. b >= m => b - m \in Nat /\ (b - m < n <=> b < m + n)
    OBVIOUS
  <2>2. b >= m => (b - m \in x <=> (b - m) + k \in w /\ b < m + n)
    BY <2>1, <1>2, <1>4
  <2> QED BY <2>2, <1>5
<1>7. \A b : b \in Shl(x, m) <=> b \in Nat /\ m <= b /\ b < m + n /\ (b - m) + k \in w
  BY <1>6, <1>5
<1> QED
  BY <1>7, <1>1, <1>3

\* A shift by nothing.
LEMMA Shr0 == ASSUME NEW w \in SUBSET Nat PROVE Shr(w, 0) = w
PROOF
<1>1. \A b \in Nat : b + 0 = b
  OBVIOUS
<1>2. \A b : b \in Shr(w, 0) <=> b \in w
  BY <1>1, ShrIn
<1> QED BY <1>2

\* GateTarget reads back the address idt_set_gate splits over the gate.
LEMMA Gate ==
    ASSUME NEW w \in SUBSET (0 .. 63), NEW s, NEW t
    PROVE  GateTarget(idt_set_gate(w, s, t)) = w
PROOF
<1> DEFINE g == idt_set_gate(w, s, t)
<1>1. g.offset_low = Low(w, 16) /\ g.offset_mid = Low(Shr(w, 16), 16) /\ g.offset_high = Low(Shr(w, 32), 32)
  BY DEF idt_set_gate
<1>2. w \in SUBSET Nat
  OBVIOUS
<1>3. ASSUME NEW b \in Nat PROVE b \in GateTarget(g) <=> b \in w
  <2>1. b \in Low(w, 16) <=> b \in w /\ b < 16
    BY LowIn, <1>2
  <2>2. b \in Shl(Low(Shr(w, 16), 16), 16) <=> b \in w /\ 16 <= b /\ b < 32
    <3>1. (b - 16) + 16 = b /\ 16 + 16 = 32
      OBVIOUS
    <3> QED BY Field, <1>2, <3>1
  <2>3. b \in Shl(Low(Shr(w, 32), 32), 32) <=> b \in w /\ 32 <= b /\ b < 64
    <3>1. (b - 32) + 32 = b /\ 32 + 32 = 64
      OBVIOUS
    <3> QED BY Field, <1>2, <3>1
  <2>4. b \in w => b < 64
    OBVIOUS
  <2> QED BY <1>1, <2>1, <2>2, <2>3, <2>4 DEF GateTarget
<1>4. GateTarget(g) \in SUBSET Nat
  <2>1. /\ Low(w, 16) \in SUBSET Nat
        /\ Shl(Low(Shr(w, 16), 16), 16) \in SUBSET Nat
        /\ Shl(Low(Shr(w, 32), 32), 32) \in SUBSET Nat
    BY Words, <1>2
  <2> QED BY <1>1, <2>1 DEF GateTarget
<1>5. \A b : b \in GateTarget(g) <=> b \in w
  BY <1>2, <1>3, <1>4
<1> QED
  BY <1>5

\* Where make_desc puts each bit of base, limit and access.
LEMMA MakeDesc ==
    ASSUME NEW base \in SUBSET Nat, NEW limit \in SUBSET (0 .. 15), NEW access \in SUBSET (0 .. 7),
           NEW b \in Nat
    PROVE  b \in make_desc(base, limit, access, {}) <=>
               \/ b < 16 /\ b \in limit
               \/ 16 <= b /\ b < 40 /\ b - 16 \in base
               \/ 40 <= b /\ b - 40 \in access
               \/ 56 <= b /\ b < 64 /\ b - 32 \in base
PROOF
<1>1. limit \in SUBSET Nat /\ access \in SUBSET Nat /\ {} \in SUBSET Nat
  OBVIOUS
<1>2. b \in Low(limit, 16) <=> b < 16 /\ b \in limit
  BY <1>1, LowIn
<1>3. b \in Shl(Low(base, 24), 16) <=> 16 <= b /\ b < 40 /\ b - 16 \in base
  <2>1. (b - 16) + 0 = b - 16 /\ 16 + 24 = 40
    OBVIOUS
  <2> QED BY <2>1, Field, Shr0
<1>4. b \in Shl(access, 40) <=> 40 <= b /\ b - 40 \in access
  BY <1>1, ShlIn
<1>5. b \notin Shl(Low(Shr(limit, 16), 4), 48)
  <2>1. 48 <= b => (b - 48) + 16 \notin limit
    OBVIOUS
  <2> QED BY <2>1, <1>1, Field
<1>6. b \notin Shl(Low({}, 4), 52)
  <2>1. Low({}, 4) = {}
    BY DEF Low
  <2> QED BY <2>1, <1>1, ShlIn
<1>7. b \in Shl(Low(Shr(base, 24), 8), 56) <=> 56 <= b /\ b < 64 /\ b - 32 \in base
  <2>1. (b - 56) + 24 = b - 32 /\ 56 + 8 = 64
    OBVIOUS
  <2> QED BY <2>1, Field
<1> QED BY <1>2, <1>3, <1>4, <1>5, <1>6, <1>7 DEF make_desc

\* The two halves set_tss_desc writes, busy after LTR, read back as the TSS's address.
LEMMA Tss ==
    ASSUME NEW w \in SUBSET (0 .. 63)
    PROVE  LET t == set_tss_desc(w, BitsOf(103)) IN IsBusyTss(ltr(t.low)) /\ TssBase(ltr(t.low), t.high) = w
PROOF
<1>1. BitsOf(103) \in SUBSET (0 .. 15) /\ w \in SUBSET Nat /\ {7, 3, 0} \in SUBSET (0 .. 7)
  BY DEF BitsOf
<1>2. PICK base \in SUBSET Nat : base = Low(w, 32)
  BY Words, <1>1
<1>3. \A b : b \in base <=> b \in w /\ b < 32
  BY <1>2, LowIn, <1>1
<1>4. PICK low : low = make_desc(base, BitsOf(103), {7, 3, 0}, {})
  OBVIOUS
<1>5. PICK high \in SUBSET Nat : high = Low(Shr(w, 32), 32)
  BY Words, <1>1
<1>6. set_tss_desc(w, BitsOf(103)).low = low /\ set_tss_desc(w, BitsOf(103)).high = high
  BY <1>2, <1>4, <1>5 DEF set_tss_desc
<1>7. ASSUME NEW b \in Nat
      PROVE  b \in low <=> \/ b < 16 /\ b \in BitsOf(103)
                           \/ 16 <= b /\ b < 40 /\ b - 16 \in w
                           \/ b = 47 \/ b = 43 \/ b = 40
                           \/ 56 <= b /\ b < 64 /\ b - 32 \in w
  <2>1. 40 <= b /\ b - 40 \in {7, 3, 0} <=> b = 47 \/ b = 43 \/ b = 40
    OBVIOUS
  <2>2. 16 <= b /\ b < 40 => (b - 16 \in base <=> b - 16 \in w)
    BY <1>3
  <2>3. 56 <= b /\ b < 64 => (b - 32 \in base <=> b - 32 \in w)
    BY <1>3
  <2> QED BY <1>1, <1>4, <2>1, <2>2, <2>3, MakeDesc
<1>8. IsBusyTss(low \cup {41}) /\ ltr(low) = low \cup {41}
  <2>1. 47 \in low /\ 43 \in low /\ 40 \in low /\ 44 \notin low /\ 42 \notin low /\ 41 \notin low
    BY <1>7
  <2>2. IsTss(low)
    BY <2>1 DEF IsTss
  <2>3. IsBusyTss(low \cup {41})
    BY <2>1 DEF IsBusyTss
  <2> QED BY <2>2, <2>3 DEF ltr
<1>9. low \in SUBSET Nat
  <2>1. /\ Low(BitsOf(103), 16) \in SUBSET Nat /\ Shl(Low(base, 24), 16) \in SUBSET Nat
        /\ Shl({7, 3, 0}, 40) \in SUBSET Nat /\ Shl(Low(Shr(BitsOf(103), 16), 4), 48) \in SUBSET Nat
        /\ Shl(Low({}, 4), 52) \in SUBSET Nat /\ Shl(Low(Shr(base, 24), 8), 56) \in SUBSET Nat
    <3>1. BitsOf(103) \in SUBSET Nat /\ {7, 3, 0} \in SUBSET Nat /\ {} \in SUBSET Nat
      BY <1>1
    <3>2. Low(BitsOf(103), 16) \in SUBSET Nat /\ Shl({7, 3, 0}, 40) \in SUBSET Nat
      BY <3>1, Words
    <3>3. Shl(Low(base, 24), 16) \in SUBSET Nat
      <4>1. Low(base, 24) \in SUBSET Nat
        BY Words
      <4> QED BY <4>1, Words
    <3>4. Shl(Low(Shr(BitsOf(103), 16), 4), 48) \in SUBSET Nat
      <4>1. Shr(BitsOf(103), 16) \in SUBSET Nat
        BY <3>1, Words
      <4>2. Low(Shr(BitsOf(103), 16), 4) \in SUBSET Nat
        BY <4>1, Words
      <4> QED BY <4>2, Words
    <3>5. Shl(Low({}, 4), 52) \in SUBSET Nat
      <4>1. Low({}, 4) \in SUBSET Nat
        BY <3>1, Words
      <4> QED BY <4>1, Words
    <3>6. Shl(Low(Shr(base, 24), 8), 56) \in SUBSET Nat
      <4>1. Shr(base, 24) \in SUBSET Nat
        BY Words
      <4>2. Low(Shr(base, 24), 8) \in SUBSET Nat
        BY <4>1, Words
      <4> QED BY <4>2, Words
    <3> QED BY <3>2, <3>3, <3>4, <3>5, <3>6
  <2> QED BY <1>4, <2>1 DEF make_desc
<1>10. PICK busy \in SUBSET Nat : busy = low \cup {41}
  <2>1. 41 \in Nat
    OBVIOUS
  <2>2. low \cup {41} \in SUBSET Nat
    BY <1>9, <2>1, Zenon
  <2> QED BY <2>2, Zenon
<1>11. \A b \in Nat : b # 41 => (b \in busy <=> b \in low)
  BY <1>10
<1>12. ASSUME NEW b \in Nat PROVE b \in TssBase(busy, high) <=> b \in w
  <2>1. b \in Low(Shr(busy, 16), 24) <=> b < 24 /\ b \in w
    <3>1. b \in Low(Shr(busy, 16), 24) <=> b < 24 /\ b + 16 \in busy
      BY <1>10, Words, LowIn, ShrIn
    <3>2. b < 24 => (b + 16 \in busy <=> b \in w)
      <4>1. b + 16 \in Nat /\ (b + 16) - 16 = b
        OBVIOUS
      <4> QED BY <4>1, <1>7, <1>11
    <3> QED BY <3>1, <3>2
  <2>2. b \in Shl(Shr(busy, 56), 24) <=> 24 <= b /\ b < 32 /\ b \in w
    <3>1. b \in Shl(Shr(busy, 56), 24) <=> 24 <= b /\ (b - 24) + 56 \in busy
      BY <1>10, Words, ShlIn, ShrIn
    <3>2. 24 <= b => ((b - 24) + 56 \in busy <=> b < 32 /\ b \in w)
      <4>1. 24 <= b => (b - 24) + 56 \in Nat /\ (b - 24) + 56 = b + 32 /\ (b + 32) - 32 = b /\ b + 32 >= 56
        OBVIOUS
      <4> QED BY <4>1, <1>7, <1>11
    <3> QED BY <3>1, <3>2
  <2>3. b \in Shl(Low(high, 32), 32) <=> 32 <= b /\ b \in w
    <3>1. b \in Shl(Low(high, 32), 32) <=> 32 <= b /\ b < 64 /\ b - 32 \in high
      <4>1. (b - 32) + 0 = b - 32 /\ 32 + 32 = 64
        OBVIOUS
      <4> QED BY <4>1, Field, Shr0
    <3>2. 32 <= b /\ b < 64 => (b - 32 \in high <=> b \in w)
      <4>1. 32 <= b /\ b < 64 => b - 32 \in Nat /\ (b - 32) + 32 = b /\ b - 32 < 32
        OBVIOUS
      <4>2. 32 <= b /\ b < 64 => (b - 32 \in high <=> b - 32 \in Shr(w, 32))
        BY <1>5, <4>1 DEF Low
      <4> QED BY <4>1, <4>2, <1>1, ShrIn
    <3>3. b \in w => b < 64
      OBVIOUS
    <3> QED BY <3>1, <3>2, <3>3
  <2> QED BY <2>1, <2>2, <2>3 DEF TssBase
<1>13. TssBase(busy, high) \in SUBSET Nat
  <2>1. /\ Low(Shr(busy, 16), 24) \in SUBSET Nat
        /\ Shl(Shr(busy, 56), 24) \in SUBSET Nat
        /\ Shl(Low(high, 32), 32) \in SUBSET Nat
    BY <1>10, Words
  <2> QED BY <2>1 DEF TssBase
<1>14. \A b : b \in TssBase(busy, high) <=> b \in w
  BY <1>1, <1>12, <1>13
<1>15. TssBase(busy, high) = w
  BY <1>14
<1> QED
  BY <1>6, <1>8, <1>10, <1>15

\* The address of a stub is a word, and different stubs are at different addresses.
LEMMA Stubs ==
    ASSUME NEW v \in 0 .. 255
    PROVE  /\ Stub(v) \in SUBSET (0 .. 63)
           /\ \A w \in 0 .. 255 : Stub(v) = Stub(w) => v = w
PROOF
<1>1. ASSUME NEW w \in 0 .. 255
      PROVE  /\ \A b \in Nat : b \in Shl(BitsOf(w), 4) <=> b >= 4 /\ b - 4 \in BitsOf(w)
             /\ Shl(BitsOf(w), 4) \subseteq 4 .. 11
  <2>1. BitsOf(w) \in SUBSET Nat /\ BitsOf(w) \subseteq 0 .. 7
    BY ByteBits
  <2>2. \A b : b \in Shl(BitsOf(w), 4) <=> b \in Nat /\ b >= 4 /\ b - 4 \in BitsOf(w)
    BY <2>1, ShlIn
  <2>3. ASSUME NEW b \in Shl(BitsOf(w), 4) PROVE b \in 4 .. 11
    <3>1. b \in Nat /\ b >= 4 /\ b - 4 \in 0 .. 7
      BY <2>1, <2>2
    <3> QED BY <3>1
  <2> QED BY <2>2, <2>3
<1>2. Stub(v) \in SUBSET (0 .. 63)
  BY <1>1 DEF Stub
<1>3. ASSUME NEW w \in 0 .. 255, Stub(v) = Stub(w) PROVE v = w
  <2>1. Shl(BitsOf(v), 4) = Shl(BitsOf(w), 4)
    <3>1. Shl(BitsOf(v), 4) = Stub(v) \cap (4 .. 11) /\ Shl(BitsOf(w), 4) = Stub(w) \cap (4 .. 11)
      <4>1. \A b \in {63, 32, 31, 16, 15} : b \notin 4 .. 11
        OBVIOUS
      <4>2. ASSUME NEW u, u \subseteq 4 .. 11 PROVE u = ({63, 32, 31, 16, 15} \cup u) \cap (4 .. 11)
        <5>1. \A b : b \in ({63, 32, 31, 16, 15} \cup u) \cap (4 .. 11) <=> b \in u
          BY <4>1, <4>2, Zenon
        <5> QED BY <5>1
      <4> QED BY <1>1, <4>2 DEF Stub
    <3> QED BY <1>3, <3>1
  <2>2. ASSUME NEW b \in 0 .. 7 PROVE b \in BitsOf(v) <=> b \in BitsOf(w)
    <3>1. b + 4 \in Nat /\ b + 4 >= 4 /\ (b + 4) - 4 = b
      OBVIOUS
    <3> QED BY <1>1, <2>1, <3>1
  <2>3. BitsOf(v) = BitsOf(w)
    BY <2>2, ByteBits
  <2> QED BY <2>3, BitsInjective
<1> QED BY <1>2, <1>3

\* The bytes that pic.c writes: the vector offsets, and OCW2_EOI | delta, a non-specific end
\* of interrupt.
LEMMA Bytes ==
    /\ ByteValue(BitsOf(PIC_PRIMARY_OFFSET)) = PIC_PRIMARY_OFFSET
    /\ ByteValue(BitsOf(PIC_SECONDARY_OFFSET)) = PIC_SECONDARY_OFFSET
    /\ \A irq \in 0 .. 15 :
        LET byte == {5} \cup BitsOf(pic_irq_delta(irq)) IN
        byte \subseteq 0 .. 15 /\ 4 \notin byte /\ 3 \notin byte /\ byte \cap {5, 6, 7} = {5}
PROOF
<1>1. ASSUME NEW n \in {32, 40}
      PROVE  /\ 0 \notin BitsOf(n) /\ 1 \notin BitsOf(n) /\ 2 \notin BitsOf(n) /\ 4 \notin BitsOf(n)
             /\ 5 \in BitsOf(n) /\ 6 \notin BitsOf(n) /\ 7 \notin BitsOf(n) /\ (3 \in BitsOf(n) <=> n = 40)
  <2>1. n \in 0 .. 255
    OBVIOUS
  <2>2. /\ 0 \in BitsOf(n) <=> (n \div 1) % 2 = 1
        /\ 1 \in BitsOf(n) <=> (n \div 2) % 2 = 1
        /\ 2 \in BitsOf(n) <=> (n \div 4) % 2 = 1
        /\ 3 \in BitsOf(n) <=> (n \div 8) % 2 = 1
        /\ 4 \in BitsOf(n) <=> (n \div 16) % 2 = 1
        /\ 5 \in BitsOf(n) <=> (n \div 32) % 2 = 1
        /\ 6 \in BitsOf(n) <=> (n \div 64) % 2 = 1
        /\ 7 \in BitsOf(n) <=> (n \div 128) % 2 = 1
    BY <2>1, LowBits
  <2>3. CASE n = 32
    BY <2>2, <2>3
  <2>4. CASE n = 40
    BY <2>2, <2>4
  <2> QED BY <2>3, <2>4
<1>2. ByteValue(BitsOf(32)) = 32 /\ ByteValue(BitsOf(40)) = 40
  BY <1>1, Powers DEF ByteValue
<1>3. ASSUME NEW irq \in 0 .. 15
      PROVE  LET byte == {5} \cup BitsOf(pic_irq_delta(irq)) IN
             byte \subseteq 0 .. 15 /\ 4 \notin byte /\ 3 \notin byte /\ byte \cap {5, 6, 7} = {5}
  <2>1. PICK n \in 0 .. 7 : n = pic_irq_delta(irq)
    BY DEF pic_irq_delta, pic_irq_is_primary
  <2>2. n \in 0 .. 255 /\ n \div 8 = 0 /\ n \div 16 = 0 /\ n \div 64 = 0 /\ n \div 128 = 0
    OBVIOUS
  <2>3. 3 \notin BitsOf(n) /\ 4 \notin BitsOf(n) /\ 6 \notin BitsOf(n) /\ 7 \notin BitsOf(n)
    BY <2>2, LowBits
  <2>4. BitsOf(n) \subseteq 0 .. 7
    BY <2>2, ByteBits
  <2>5. PICK byte : byte = {5} \cup BitsOf(n)
    OBVIOUS
  <2>6. byte \subseteq 0 .. 15 /\ 4 \notin byte /\ 3 \notin byte
    BY <2>3, <2>4, <2>5
  <2>7. 5 \in byte /\ 6 \notin byte /\ 7 \notin byte
    BY <2>3, <2>5
  <2>8. byte \cap {5, 6, 7} = {5}
    BY <2>7
  <2> QED BY <2>1, <2>5, <2>6, <2>8
<1> QED BY <1>2, <1>3 DEF PIC_PRIMARY_OFFSET, PIC_SECONDARY_OFFSET

\* The line of highest priority among some lines of a controller.
LEMMA Highest ==
    ASSUME NEW S \in SUBSET (0 .. 7), S # {}
    PROVE  Min(S) \in S /\ \A l \in S : Min(S) <= l
PROOF
<1>1. \E x \in S : \A y \in S : x <= y
  <2>1. CASE 0 \in S
    BY <2>1
  <2>2. CASE 0 \notin S /\ 1 \in S
    BY <2>2
  <2>3. CASE {0, 1} \cap S = {} /\ 2 \in S
    BY <2>3
  <2>4. CASE {0, 1, 2} \cap S = {} /\ 3 \in S
    BY <2>4
  <2>5. CASE {0, 1, 2, 3} \cap S = {} /\ 4 \in S
    BY <2>5
  <2>6. CASE {0, 1, 2, 3, 4} \cap S = {} /\ 5 \in S
    BY <2>6
  <2>7. CASE {0, 1, 2, 3, 4, 5} \cap S = {} /\ 6 \in S
    BY <2>7
  <2>8. CASE {0, 1, 2, 3, 4, 5, 6} \cap S = {}
    <3>1. \A b \in 0 .. 7 : b \in {0, 1, 2, 3, 4, 5, 6} \/ b = 7
      OBVIOUS
    <3>2. \A b \in S : b = 7
      BY <2>8, <3>1
    <3>3. PICK x \in S : TRUE
      OBVIOUS
    <3>4. x = 7 /\ \A y \in S : x <= y
      BY <3>2, <3>3
    <3> QED BY <3>4
  <2> QED BY <2>1, <2>2, <2>3, <2>4, <2>5, <2>6, <2>7, <2>8
<1> QED BY <1>1 DEF Min

(* ---- the initial states ---- *)

\* The registers under their names in intr_regs_t, the stack pointer twelfth.
LEMMA Registers ==
    /\ Regs = {"r8", "r9", "r10", "r11", "r12", "r13", "r14", "r15", "rdi", "rsi", "rbp", "rsp", "rbx", "rdx", "rcx", "rax"}
    /\ DOMAIN intr_regs = 1 .. 16 /\ Len(intr_regs) = 16
    /\ \A i \in 1 .. 16 : intr_regs[i] \in Regs /\ (intr_regs[i] = "rsp" <=> i = 12)
PROOF
<1>1. DOMAIN intr_regs = 1 .. 16 /\ Len(intr_regs) = 16
  BY DEF intr_regs
<1>2. ASSUME NEW r PROVE r \in Regs <=> \E i \in 1 .. 16 : r = intr_regs[i]
  BY <1>1 DEF Regs, Range
<1>3. ASSUME NEW r PROVE (\E i \in 1 .. 16 : r = intr_regs[i]) <=>
         r \in {"r8", "r9", "r10", "r11", "r12", "r13", "r14", "r15", "rdi", "rsi", "rbp", "rsp", "rbx", "rdx", "rcx", "rax"}
  BY DEF intr_regs
<1>4. \A i \in 1 .. 16 : intr_regs[i] = "rsp" <=> i = 12
  BY DEF intr_regs
<1> QED BY <1>1, <1>2, <1>3, <1>4

\* Each register has one place in intr_regs_t.
LEMMA Places ==
    ASSUME NEW r \in Regs
    PROVE  LET i == CHOOSE j \in 1 .. 16 : intr_regs[j] = r IN
           i \in 1 .. 16 /\ intr_regs[i] = r /\ (i = 12 <=> r = "rsp")
PROOF
<1>1. \E j \in 1 .. 16 : intr_regs[j] = r
  BY Registers DEF Regs, Range
<1>2. PICK i : i = CHOOSE j \in 1 .. 16 : intr_regs[j] = r
  OBVIOUS
<1>3. i \in 1 .. 16 /\ intr_regs[i] = r
  BY <1>1, <1>2
<1> QED BY <1>2, <1>3, Registers

\* The state kernelMain starts in satisfies the invariant.
LEMMA Initially == Init => IInv
PROOF
<1> SUFFICES ASSUME Init PROVE IInv
  OBVIOUS
<1>1. Control
  BY InterruptsAssumption DEF Init, Control, PreIdt, Booting, Calling
<1>2. Tables
  BY DEF Init, Tables, PreIdt
<1>3. Nesting
  BY DEF Init, Nesting
<1>4. Stack
  <2>1. PICK top \in {StackTop - 1, StackTop} :
          cpu = [regs |-> [r \in Regs |-> IF r = "rsp" THEN top
                                          ELSE 100 + (CHOOSE i \in DOMAIN intr_regs : intr_regs[i] = r)],
                 mem |-> [a \in 0 .. StackTop |-> 0], rip |-> Stub(0) \cup {20}, if |-> 0]
    BY DEF Init
  <2>2. StackTop \in Nat /\ top \in Int
    BY InterruptsAssumption
  <2>3. \A r \in Regs : (CHOOSE i \in 1 .. 16 : intr_regs[i] = r) \in 1 .. 16
    BY Places
  <2>4. cpu.regs \in [Regs -> Int] /\ cpu.regs["rsp"] = top
    <3>1. cpu.regs = [r \in Regs |-> IF r = "rsp" THEN top ELSE 100 + (CHOOSE i \in 1 .. 16 : intr_regs[i] = r)]
      BY <2>1, Registers
    <3>2. "rsp" \in Regs
      BY Registers
    <3> QED BY <2>2, <2>3, <3>1, <3>2
  <2>5. cpu.mem \in [0 .. StackTop -> Int]
    BY <2>1
  <2>6. cpu.rip \in SUBSET Nat
    <3>1. Stub(0) \in SUBSET (0 .. 63)
      <4>1. 0 \in 0 .. 255
        OBVIOUS
      <4>2. \A v \in 0 .. 255 : Stub(v) \in SUBSET (0 .. 63)
        BY Stubs
      <4> QED BY <4>1, <4>2
    <3>2. 20 \in Nat /\ \A b \in 0 .. 63 : b \in Nat
      OBVIOUS
    <3> QED BY <2>1, <3>1, <3>2
  <2>7. cpu \in Machines
    BY <2>1, <2>4, <2>5, <2>6 DEF Machines
  <2>8. active = <<>> /\ DOMAIN active = {}
    BY DEF Init
  <2> QED BY <2>1, <2>4, <2>7, <2>8 DEF Stack
<1>5. Masks
  <2>1. pic \in Firmware /\ step = 0 /\ pc = "gdt_init" /\ g_handlers = [v \in Vectors |-> "none"]
    BY DEF Init
  <2>2. pic \in [Chips -> Controllers] /\ \A c \in Chips : pic[c].icw = 0
    BY <2>1, ControllersAssumption
  <2>3. \A c \in Chips : pic[c].irr \subseteq Lines(c) /\ \A l \in Lines(c) \cup {7} : pic[c].offset + l \in Vectors
    BY <2>1, ControllersAssumption
  <2> QED BY <2>1, <2>2, <2>3 DEF Masks, icw_P, icw_S, Booting, PreIdt, Chips
<1>6. Serving
  <2>1. pic["P"].isr = {} /\ pic["S"].isr = {}
    BY ControllersAssumption DEF Init, Chips
  <2> QED BY <2>1 DEF Init, Serving, InService
<1> QED BY <1>1, <1>2, <1>3, <1>4, <1>5, <1>6 DEF IInv

(* ---- the acknowledge cycle and the delivery ---- *)

\* The lines of a controller and the devices on them.
LEMMA LineNumbers ==
    /\ \A c \in Chips : Lines(c) \subseteq 0 .. 7
    /\ \A l \in Lines("P") : l \in Devices /\ l # IRQ_CASCADE /\ pic_irq_is_primary(l) /\ Chip(l) = "P" /\ pic_irq_delta(l) = l
    /\ \A l \in Lines("S") : l + 8 \in Devices /\ ~pic_irq_is_primary(l + 8) /\ Chip(l + 8) = "S" /\ pic_irq_delta(l + 8) = l
PROOF
<1>1. \A d \in Devices : d \in 0 .. 15 /\ d # IRQ_CASCADE
  BY InterruptsAssumption
<1>2. ASSUME NEW l \in Lines("P")
      PROVE  l \in 0 .. 7 /\ l \in Devices /\ l # IRQ_CASCADE /\ pic_irq_is_primary(l) /\ Chip(l) = "P" /\ pic_irq_delta(l) = l
  <2>1. PICK d \in Devices : Chip(d) = "P" /\ l = pic_irq_delta(d)
    BY DEF Lines
  <2>2. d < 8 /\ l = d
    BY <2>1, <1>1 DEF Chip, pic_irq_delta, pic_irq_is_primary
  <2> QED BY <2>1, <2>2, <1>1 DEF Chip, pic_irq_delta, pic_irq_is_primary
<1>3. ASSUME NEW l \in Lines("S")
      PROVE  l \in 0 .. 7 /\ l + 8 \in Devices /\ ~pic_irq_is_primary(l + 8) /\ Chip(l + 8) = "S" /\ pic_irq_delta(l + 8) = l
  <2>1. PICK d \in Devices : Chip(d) = "S" /\ l = pic_irq_delta(d)
    BY DEF Lines
  <2>2. ~(d < 8) /\ l = d - 8
    BY <2>1, <1>1 DEF Chip, pic_irq_delta, pic_irq_is_primary
  <2>3. l + 8 = d /\ l \in 0 .. 7
    BY <2>2, <1>1
  <2> QED BY <2>1, <2>2, <2>3, <1>1 DEF Chip, pic_irq_delta, pic_irq_is_primary
<1> QED BY <1>2, <1>3 DEF Chips

\* Where a request that is signalled comes from.
LEMMA Asked ==
    ASSUME Masks, Signalled(pic) # {},
           NEW p, p = Min(Signalled(pic)), NEW s, s = Min(Requests(pic["S"]))
    PROVE  /\ pic["P"].icw = 0 /\ p \in 0 .. 7
           /\ p # IRQ_CASCADE => p \in pic["P"].irr \ pic["P"].imr
           /\ p = IRQ_CASCADE => s \in pic["S"].irr \ pic["S"].imr /\ pic["S"].icw = 0
PROOF
<1>1. pic["P"] \in Controllers /\ pic["S"] \in Controllers /\ pic["P"].irr \subseteq Lines("P")
  BY DEF Masks, Chips
<1>2. IRQ_CASCADE = 2 /\ IRQ_CASCADE \notin pic["P"].irr
  BY <1>1, LineNumbers DEF IRQ_CASCADE
<1>3. PICK q \in Controllers :
        /\ Signalled(pic) = Requests(q) /\ q.imr = pic["P"].imr /\ q.icw = pic["P"].icw
        /\ q.irr \subseteq pic["P"].irr \cup {2}
        /\ Requests(pic["S"]) = {} => q.irr = pic["P"].irr
  <2>1. CASE Requests(pic["S"]) = {}
    BY <2>1, <1>1 DEF Signalled
  <2>2. CASE Requests(pic["S"]) # {}
    <3>1. PICK q : q = [pic["P"] EXCEPT !.irr = @ \cup {IRQ_CASCADE}]
      OBVIOUS
    <3>2. q \in Controllers /\ q.imr = pic["P"].imr /\ q.icw = pic["P"].icw /\ q.irr = pic["P"].irr \cup {2}
      BY <3>1, <1>1, <1>2 DEF Controllers
    <3> QED BY <2>2, <3>1, <3>2 DEF Signalled
  <2> QED BY <2>1, <2>2
<1>4. Requests(q) \in SUBSET (0 .. 7) /\ Requests(q) \subseteq q.irr \ q.imr /\ (Requests(q) # {} => q.icw = 0)
  BY DEF Requests, Controllers
<1>5. p \in q.irr \ q.imr /\ q.icw = 0 /\ p \in 0 .. 7
  <2>1. PICK R \in SUBSET (0 .. 7) : R = Requests(q)
    BY <1>4
  <2>2. R # {} /\ p = Min(R)
    BY <1>3, <2>1
  <2>3. p \in R
    BY <2>2, Highest
  <2> QED BY <2>1, <2>2, <2>3, <1>4
<1>6. ASSUME p = IRQ_CASCADE PROVE s \in pic["S"].irr \ pic["S"].imr /\ pic["S"].icw = 0
  <2>1. Requests(pic["S"]) # {}
    <3>1. p \notin pic["P"].irr
      BY <1>2, <1>6
    <3> QED BY <1>3, <1>5, <3>1
  <2>2. Requests(pic["S"]) \in SUBSET (0 .. 7) /\ Requests(pic["S"]) \subseteq pic["S"].irr \ pic["S"].imr
    BY <1>1 DEF Requests, Controllers
  <2>3. s \in Requests(pic["S"])
    BY <2>1, <2>2, Highest
  <2> QED BY <2>2, <2>3 DEF Requests
<1>7. p # IRQ_CASCADE => p \in pic["P"].irr
  BY <1>2, <1>3, <1>5
<1> QED BY <1>3, <1>5, <1>6, <1>7

\* A request is answered with a vector in use, which after pic_init is the line's own.
LEMMA Answered ==
    ASSUME Masks, Control, Signalled(pic) # {},
           NEW a, a = Acknowledge(pic) \/ a = AcknowledgeSpurious(pic)
    PROVE  /\ a.vector \in Vectors /\ a.irq \in 0 .. 15
           /\ pc \notin Booting => a.vector = Vector(a.irq)
PROOF
<1>1. PICK p : p = Min(Signalled(pic))
  OBVIOUS
<1>2. PICK s : s = Min(Requests(pic["S"]))
  OBVIOUS
<1>3. /\ p \in 0 .. 7
      /\ p # IRQ_CASCADE => p \in pic["P"].irr
      /\ p = IRQ_CASCADE => s \in pic["S"].irr
  BY Asked, <1>1, <1>2
<1>4. /\ pic["P"].irr \subseteq Lines("P") /\ pic["S"].irr \subseteq Lines("S")
      /\ \A l \in Lines("P") \cup {7} : pic["P"].offset + l \in Vectors
      /\ \A l \in Lines("S") \cup {7} : pic["S"].offset + l \in Vectors
      /\ pc \notin Booting => pic["P"].offset = 32 /\ pic["S"].offset = 40
  BY DEF Masks, Control, Chips, PIC_PRIMARY_OFFSET, PIC_SECONDARY_OFFSET
<1>5. \A l \in Lines("S") : l \in 0 .. 7
  BY LineNumbers DEF Chips
<1>6. CASE p # IRQ_CASCADE
  <2>1. (a.vector = pic["P"].offset + p /\ a.irq = p) \/ (a.vector = pic["P"].offset + 7 /\ a.irq = 7)
    BY <1>1, <1>2, <1>6 DEF Acknowledge, AcknowledgeSpurious
  <2> QED BY <2>1, <1>3, <1>4, <1>6 DEF Vector, PIC_PRIMARY_OFFSET
<1>7. CASE p = IRQ_CASCADE
  <2>1. (a.vector = pic["S"].offset + s /\ a.irq = 8 + s) \/ (a.vector = pic["S"].offset + 7 /\ a.irq = 15)
    BY <1>1, <1>2, <1>7 DEF Acknowledge, AcknowledgeSpurious
  <2>2. s \in Lines("S") /\ s \in 0 .. 7
    BY <1>3, <1>4, <1>5, <1>7
  <2> QED BY <2>1, <2>2, <1>4 DEF Vector, PIC_PRIMARY_OFFSET
<1> QED BY <1>6, <1>7

\* Delivery through the gate of a vector in use enters that vector's stub.
LEMMA Delivered ==
    ASSUME Tables, Control, halted = "no", pc \notin PreIdt, NEW v \in Vectors, NEW cause, NEW irq,
           Deliver(v, cause, irq)
    PROVE  /\ halted' = "no"
           /\ cpu' = [Push(Align(cpu), << SS, cpu.regs["rsp"], cpu.if, CS, 1 >>
                             \o (IF cause = "exception" /\ v \in ErrorVectors THEN <<ErrorCode>> ELSE <<>>))
                        EXCEPT !.rip = Stub(v), !.if = 0]
           /\ active' = Append(active, [vector |-> v, cause |-> cause, irq |-> irq, early |-> pc = "boot",
                                        was |-> [regs |-> cpu.regs, rip |-> cpu.rip, if |-> cpu.if], stage |-> "stub", todo |-> <<>>])
PROOF
<1>1. idt[v] = idt_set_gate(Stub(v), CS, 14)
  BY DEF Tables
<1>2. PICK g : g = idt[v]
  OBVIOUS
<1>3. g.selector = 16 /\ g.type = 14 /\ g.p = 1
  BY <1>1, <1>2 DEF idt_set_gate, CS, sel_gdt, KERNEL_CS_IDX
<1>4. GateTarget(g) = Stub(v)
  <2>1. v \in 0 .. 255
    BY InterruptsAssumption
  <2>2. Stub(v) \in SUBSET (0 .. 63)
    BY <2>1, Stubs
  <2> QED BY <1>1, <1>2, <2>2, Gate
<1>5. g # NoGate
  <2>1. NoGate.p = 0
    BY DEF NoGate
  <2> QED BY <1>3, <2>1
<1>6. IsCode64(gdt[g.selector \div 8])
  <2>1. g.selector \div 8 = KERNEL_CS_IDX
    BY <1>3 DEF KERNEL_CS_IDX
  <2> QED BY <2>1 DEF Tables, PreIdt
<1>7. PICK frame : frame = << SS, cpu.regs["rsp"], cpu.if, CS, 1 >>
                             \o (IF cause = "exception" /\ v \in ErrorVectors THEN <<ErrorCode>> ELSE <<>>)
  OBVIOUS
<1>8. PICK m : m = Push(Align(cpu), frame)
  OBVIOUS
<1>9. ~(g = NoGate \/ ~IsCode64(gdt[g.selector \div 8]))
  BY <1>5, <1>6
<1>10. /\ UNCHANGED halted
       /\ cpu' = [m EXCEPT !.rip = GateTarget(g), !.if = IF g.type = 14 THEN 0 ELSE @]
       /\ active' = Append(active, [vector |-> v, cause |-> cause, irq |-> irq, early |-> pc = "boot",
                                    was |-> [regs |-> cpu.regs, rip |-> cpu.rip, if |-> cpu.if], stage |-> "stub", todo |-> <<>>])
  BY <1>2, <1>7, <1>8, <1>9 DEF Deliver
<1>11. cpu' = [m EXCEPT !.rip = Stub(v), !.if = 0]
  BY <1>3, <1>4, <1>10
<1> QED BY <1>7, <1>8, <1>10, <1>11

(* ---- the steps, by what they leave alone ---- *)

\* kernelMain and the driver calls it makes run while nothing is being served.
LEMMA KernelStep ==
    ASSUME Boot \/ Driver
    PROVE  /\ active = <<>> /\ halted = "no" /\ active' = active /\ halted' = halted /\ bounds' = bounds
           /\ pc # "sti" => cpu' = cpu
PROOF
<1>1. CASE Boot
  BY <1>1 DEF Boot, gdt_init, init_vectors, intr_init_all_vectors, pic_init_write, At, Running, bounds
<1>2. CASE Driver
  <2>1. ASSUME attach \/ clear_read \/ clear_write \/ detach
        PROVE  active = <<>> /\ halted = "no" /\ active' = active /\ halted' = halted /\ bounds' = bounds /\ cpu' = cpu
    BY <2>1 DEF attach, clear_read, clear_write, detach, At, Running, bounds
  <2>2. ASSUME set_read \/ set_write \/ unregister \/ register_trap
        PROVE  active = <<>> /\ halted = "no" /\ active' = active /\ halted' = halted /\ bounds' = bounds /\ cpu' = cpu
    BY <2>2 DEF set_read, set_write, unregister, register_trap, At, Running, bounds
  <2> QED BY <1>2, <2>1, <2>2 DEF Driver
<1> QED BY <1>1, <1>2

\* A driver call is made after the boot and leaves the tables but the handlers.
LEMMA DriverStep ==
    ASSUME Driver
    PROVE  /\ pc \in {"run"} \cup Calling /\ pc' \in {"run"} \cup Calling
           /\ gdt' = gdt /\ idt' = idt /\ cpu' = cpu /\ step' = step
PROOF
<1>1. ASSUME attach \/ clear_read \/ clear_write \/ detach
      PROVE  /\ pc \in {"run"} \cup Calling /\ pc' \in {"run"} \cup Calling
             /\ gdt' = gdt /\ idt' = idt /\ cpu' = cpu /\ step' = step
  BY <1>1 DEF attach, clear_read, clear_write, detach, At, Goto, tables, Calling
<1>2. ASSUME set_read \/ set_write \/ unregister \/ register_trap
      PROVE  /\ pc \in {"run"} \cup Calling /\ pc' \in {"run"} \cup Calling
             /\ gdt' = gdt /\ idt' = idt /\ cpu' = cpu /\ step' = step
  BY <1>2 DEF set_read, set_write, unregister, register_trap, At, Goto, tables, kernel, Calling
<1> QED BY <1>1, <1>2 DEF Driver

\* While an interrupt is served kernelMain, the tables and the bounds stay.
LEMMA ServiceStep ==
    ASSUME Service
    PROVE  /\ active # <<>> /\ halted = "no"
           /\ kernel' = kernel /\ tables' = tables /\ bounds' = bounds
PROOF
<1>1. ASSUME isr_stub \/ isr_common_save \/ intr_dispatch_entry
      PROVE  active # <<>> /\ halted = "no" /\ kernel' = kernel /\ tables' = tables /\ bounds' = bounds
  BY <1>1 DEF isr_stub, isr_common_save, intr_dispatch_entry, In
<1>2. ASSUME handler_eoi \/ handler_return \/ isr_common_restore
      PROVE  active # <<>> /\ halted = "no" /\ kernel' = kernel /\ tables' = tables /\ bounds' = bounds
  BY <1>2 DEF handler_eoi, handler_return, isr_common_restore, In
<1> QED BY <1>1, <1>2 DEF Service

\* A device's interrupt is taken in kernelMain only, after STI, on a vector in use.
LEMMA External ==
    ASSUME IInv, interrupt \/ spurious_interrupt
    PROVE  /\ active = <<>> /\ halted = "no" /\ pc \notin PreIdt /\ pc # "sti"
           /\ kernel' = kernel /\ tables' = tables /\ bounds' = bounds
           /\ \E v \in Vectors, irq \in 0 .. 15, cause \in {"interrupt", "spurious"} :
                Deliver(v, cause, irq) /\ (pc \notin Booting => v = Vector(irq))
PROOF
<1>1. active = <<>> /\ halted = "no" /\ cpu.if = 1
  BY DEF IInv, Nesting, interrupt, spurious_interrupt, Interruptible
<1>2. pc \notin PreIdt /\ pc # "sti"
  BY <1>1 DEF IInv, Control
<1>3. CASE interrupt
  <2>1. PICK a : a = Acknowledge(pic)
    OBVIOUS
  <2>2. Deliver(a.vector, "interrupt", a.irq) /\ Signalled(pic) # {} /\ UNCHANGED <<kernel, tables, bounds>>
    BY <1>3, <2>1 DEF interrupt
  <2>3. a.vector \in Vectors /\ a.irq \in 0 .. 15 /\ (pc \notin Booting => a.vector = Vector(a.irq))
    BY <2>1, <2>2, Answered DEF IInv
  <2> QED BY <1>1, <1>2, <2>2, <2>3
<1>4. CASE spurious_interrupt
  <2>1. PICK a : a = AcknowledgeSpurious(pic)
    OBVIOUS
  <2>2. Deliver(a.vector, "spurious", a.irq) /\ Signalled(pic) # {} /\ UNCHANGED <<kernel, tables, bounds>>
    BY <1>4, <2>1 DEF spurious_interrupt
  <2>3. a.vector \in Vectors /\ a.irq \in 0 .. 15 /\ (pc \notin Booting => a.vector = Vector(a.irq))
    BY <2>1, <2>2, Answered DEF IInv
  <2> QED BY <1>1, <1>2, <2>2, <2>3
<1> QED BY <1>3, <1>4

\* An exception while the gates are not filled in yet, and one after that.
EarlyTrap == exception /\ pc = "gates"
Trap == exception /\ pc # "gates"

\* Everything that reaches a stub got there through Delivered.
LEMMA Entered ==
    ASSUME IInv, interrupt \/ spurious_interrupt \/ Trap
    PROVE  /\ halted = "no" /\ pc \notin PreIdt /\ kernel' = kernel /\ tables' = tables
           /\ \E v \in Vectors, irq \in 0 .. 15, cause \in {"interrupt", "spurious", "exception"} :
                /\ Deliver(v, cause, irq)
                /\ IF cause = "exception" THEN v \in Exceptions
                   ELSE active = <<>> /\ pc # "sti" /\ (pc \notin Booting => v = Vector(irq))
           /\ \/ active = <<>> /\ traps' = traps
              \/ traps < MaxTraps /\ traps' = traps + 1
           /\ active # <<>> => Trap
           /\ active # <<>> => Last(active).stage = "handler"
PROOF
<1>1. CASE interrupt \/ spurious_interrupt
  <2>1. /\ active = <<>> /\ halted = "no" /\ pc \notin PreIdt /\ pc # "sti"
        /\ kernel' = kernel /\ tables' = tables /\ bounds' = bounds
    BY <1>1, External
  <2>2. PICK v \in Vectors, irq \in 0 .. 15, cause \in {"interrupt", "spurious"} :
                Deliver(v, cause, irq) /\ (pc \notin Booting => v = Vector(irq))
    BY <1>1, External
  <2>3. cause \in {"interrupt", "spurious", "exception"} /\ cause # "exception"
    BY <2>2
  <2> QED BY <2>1, <2>2, <2>3 DEF bounds
<1>2. CASE Trap
  <2>1. /\ halted = "no" /\ pc \notin PreIdt /\ kernel' = kernel /\ tables' = tables
        /\ traps < MaxTraps /\ traps' = traps + 1
        /\ active # <<>> => Last(active).stage = "handler"
    BY <1>2 DEF Trap, exception, Interruptible, PreIdt
  <2>2. PICK v \in Exceptions : Deliver(v, "exception", 0)
    BY <1>2 DEF Trap, exception
  <2>3. v \in Vectors /\ 0 \in 0 .. 15
    BY InterruptsAssumption
  <2> QED BY <1>2, <2>1, <2>2, <2>3
<1> QED BY <1>1, <1>2

\* The sequence without its last element.
LEMMA FrontOf ==
    ASSUME NEW X, NEW s \in Seq(X), s # <<>>
    PROVE  /\ Front(s) \in Seq(X) /\ Len(Front(s)) = Len(s) - 1 /\ Len(s) \in Nat /\ Len(s) >= 1
           /\ \A i \in 1 .. Len(s) - 1 : Front(s)[i] = s[i]
           /\ Last(s) = s[Len(s)] /\ Last(s) \in X
PROOF
<1>1. Len(s) \in Nat /\ Len(s) >= 1 /\ Last(s) = s[Len(s)] /\ Last(s) \in X
  BY DEF Last
<1>2. PICK n \in Nat : n = Len(s) - 1
  BY <1>1
<1>3. SubSeq(s, 1, n) \in Seq(X) /\ Len(SubSeq(s, 1, n)) = n /\ \A i \in 1 .. n : SubSeq(s, 1, n)[i] = s[i]
  BY <1>1, <1>2
<1>4. Front(s) = SubSeq(s, 1, n)
  BY <1>2 DEF Front
<1> QED BY <1>1, <1>2, <1>3, <1>4

\* The vector in the context of the dispatcher is the one that was delivered.
LEMMA Dispatched ==
    ASSUME IInv, In("dispatch")
    PROVE  vector(cpu.regs["rdi"]) = Last(active).vector
PROOF
<1>1. active # <<>> /\ Last(active).stage = "dispatch" /\ active \in Seq(Activations)
  BY DEF In, IInv, Nesting
<1>2. PICK a \in Activations : a = Last(active) /\ a = active[Len(active)] /\ Len(active) \in DOMAIN active
  BY <1>1, FrontOf
<1>3. cpu.regs["rdi"] = Ctx(a) /\ PushedByStub(cpu.mem, a)
  BY <1>1, <1>2 DEF IInv, Stack, Frame
<1>4. a.was.regs["rsp"] \in Int
  BY Registers DEF Activations
<1>5. Base(a) \in Int /\ Ctx(a) + 16 = Base(a)
  <2>1. Entry(a) \in Int
    BY <1>4 DEF Entry
  <2> QED BY <2>1 DEF Base, Ctx
<1> QED BY <1>2, <1>3, <1>5 DEF vector, PushedByStub

\* The end of an interrupt is one or two writes to command ports.
LEMMA EoiWrites ==
    ASSUME NEW irq
    PROVE  /\ pic_notify_eoi(irq) \in Seq(Commands)
           /\ Cmd(Chip(irq), {5} \cup BitsOf(pic_irq_delta(irq))) \in Commands /\ Cmd("P", {5} \cup BitsOf(IRQ_CASCADE)) \in Commands
           /\ pic_irq_is_primary(irq) => pic_notify_eoi(irq) = <<Cmd(Chip(irq), {5} \cup BitsOf(pic_irq_delta(irq)))>>
           /\ ~pic_irq_is_primary(irq) => pic_notify_eoi(irq) = <<Cmd(Chip(irq), {5} \cup BitsOf(pic_irq_delta(irq))), Cmd("P", {5} \cup BitsOf(IRQ_CASCADE))>>
PROOF
<1>1. ASSUME NEW chip \in Chips, NEW n
      PROVE  Cmd(chip, {5} \cup BitsOf(n)) \in Commands
  BY DEF Cmd, BitsOf, Commands
<1>2. Chip(irq) \in Chips /\ "P" \in Chips
  BY DEF Chip, Chips
<1>3. PICK w \in Commands : w = Cmd(Chip(irq), {5} \cup BitsOf(pic_irq_delta(irq)))
  BY <1>1, <1>2
<1>4. PICK u \in Commands : u = Cmd("P", {5} \cup BitsOf(IRQ_CASCADE))
  BY <1>1, <1>2
<1>5. pic_notify_eoi(irq) = <<w>> \o IF pic_irq_is_primary(irq) THEN <<>> ELSE <<u>>
  BY <1>3, <1>4 DEF pic_notify_eoi
<1>6. <<w>> \in Seq(Commands) /\ <<w, u>> \in Seq(Commands) /\ <<w>> \o <<>> = <<w>> /\ <<w>> \o <<u>> = <<w, u>>
  <2>1. <<w>> \in Seq(Commands)
    OBVIOUS
  <2>2. <<w, u>> \in Seq(Commands)
    OBVIOUS
  <2>3. <<w>> \o <<>> = <<w>>
    BY <2>1, ConcatEmptySeq
  <2>4. <<w>> \o <<u>> = <<w, u>>
    <3>1. <<u>> \in Seq(Commands)
      OBVIOUS
    <3>2. PICK c \in Seq(Commands) : c = <<w>> \o <<u>>
      BY <2>1, <3>1, ConcatProperties
    <3>3. Len(c) = 2 /\ c[1] = w /\ c[2] = u
      BY <3>2
    <3>4. Len(<<w, u>>) = 2 /\ <<w, u>>[1] = w /\ <<w, u>>[2] = u
      OBVIOUS
    <3>5. \A i \in 1 .. 2 : c[i] = <<w, u>>[i]
      BY <3>3, <3>4
    <3> QED BY <2>2, <3>2, <3>3, <3>4, <3>5, SeqEqual
  <2> QED BY <2>1, <2>2, <2>3, <2>4
<1>7. /\ pic_irq_is_primary(irq) => pic_notify_eoi(irq) = <<w>>
      /\ ~pic_irq_is_primary(irq) => pic_notify_eoi(irq) = <<w, u>>
  BY <1>5, <1>6
<1>8. pic_notify_eoi(irq) \in Seq(Commands)
  BY <1>6, <1>7
<1> QED BY <1>3, <1>4, <1>7, <1>8

\* What a step of the service does to the innermost interrupt: it ends it, or moves it on to
\* another stage.
LEMMA Progress ==
    ASSUME IInv, Service, NEW a, a = Last(active), NEW n, n = Len(active)
    PROVE  /\ n \in Nat /\ n >= 1 /\ a = active[n] /\ a \in Activations
           /\ \/ isr_common_restore /\ a.stage = "restore" /\ active' = Front(active) /\ halted' = halted
              \/ /\ active' \in Seq(Activations) /\ Len(active') = n /\ \A k \in 1 .. n - 1 : active'[k] = active[k]
                 /\ LET b == active'[n] IN
                    /\ b.vector = a.vector /\ b.cause = a.cause /\ b.irq = a.irq /\ b.early = a.early /\ b.was = a.was
                    /\ a.cause = "exception" /\ a.todo = <<>> => b.todo = <<>>
                    /\ \/ a.stage = "stub" /\ b.stage = "common" /\ b.todo = a.todo /\ isr_stub /\ halted' = halted
                       \/ a.stage = "common" /\ b.stage = "dispatch" /\ b.todo = a.todo /\ isr_common_save /\ halted' = halted
                       \/ /\ a.stage = "dispatch" /\ b = a /\ intr_dispatch_entry
                          /\ halted' = "unhandled" /\ g_handlers[a.vector] = "default_unhandled"
                       \/ /\ a.stage = "dispatch" /\ b.stage = "handler" /\ intr_dispatch_entry /\ halted' = halted
                          /\ b.todo = IF a.vector < PIC_PRIMARY_OFFSET THEN <<>> ELSE pic_notify_eoi(a.vector - PIC_PRIMARY_OFFSET)
                          /\ g_handlers[a.vector] = "driver"
                       \/ a.stage = "handler" /\ b.stage = "handler" /\ a.todo # <<>> /\ b.todo = Tail(a.todo) /\ handler_eoi /\ halted' = halted
                       \/ a.stage = "handler" /\ b.stage = "restore" /\ a.todo = <<>> /\ b.todo = <<>> /\ handler_return /\ halted' = halted
PROOF
<1>1. active \in Seq(Activations) /\ active # <<>> /\ a \in Activations /\ n \in Nat /\ n >= 1 /\ a = active[n]
  BY ServiceStep, FrontOf DEF IInv, Nesting
<1>2. ASSUME NEW stage \in {"common", "dispatch", "restore"}, Stage(stage)
      PROVE  /\ active' \in Seq(Activations) /\ Len(active') = n /\ \A k \in 1 .. n - 1 : active'[k] = active[k]
             /\ active'[n] = [a EXCEPT !.stage = stage]
  <2>1. PICK b : b = [a EXCEPT !.stage = stage]
    OBVIOUS
  <2>2. active' = [active EXCEPT ![n] = b]
    BY <1>1, <1>2, <2>1 DEF Stage
  <2>3. b \in Activations
    BY <1>1, <2>1 DEF Activations, Early
  <2> QED BY <1>1, <2>1, <2>2, <2>3
<1>3. CASE isr_stub
  BY <1>1, <1>2, <1>3 DEF isr_stub, In, Activations
<1>4. CASE isr_common_save
  BY <1>1, <1>2, <1>4 DEF isr_common_save, In, Activations
<1>5. CASE handler_return
  BY <1>1, <1>2, <1>5 DEF handler_return, In, Activations
<1>6. CASE isr_common_restore
  BY <1>1, <1>6 DEF isr_common_restore, In
<1>7. CASE handler_eoi
  <2>1. PICK b : b = [a EXCEPT !.todo = Tail(a.todo)]
    OBVIOUS
  <2>2. active' = [active EXCEPT ![n] = b]
    BY <1>1, <1>7, <2>1 DEF handler_eoi
  <2>3. a.todo # <<>> /\ a.stage = "handler" /\ halted' = halted
    BY <1>1, <1>7 DEF handler_eoi, In
  <2>4. /\ b \in Activations /\ b.vector = a.vector /\ b.cause = a.cause /\ b.irq = a.irq /\ b.early = a.early /\ b.was = a.was
        /\ b.stage = a.stage /\ b.todo = Tail(a.todo)
    <3>1. a.todo \in Seq(Commands)
      BY <1>1 DEF Activations
    <3>2. PICK t \in Seq(Commands) : t = Tail(a.todo)
      BY <2>3, <3>1, HeadTailProperties
    <3> QED BY <1>1, <2>1, <3>2 DEF Activations
  <2>5. active' \in Seq(Activations) /\ Len(active') = n /\ active'[n] = b /\ \A k \in 1 .. n - 1 : active'[k] = active[k]
    BY <1>1, <2>2, <2>4
  <2> QED BY <1>1, <1>7, <2>3, <2>4, <2>5
<1>8. CASE intr_dispatch_entry
  <2>1. PICK v : v = vector(cpu.regs["rdi"])
    OBVIOUS
  <2>2. v = a.vector /\ a.stage = "dispatch"
    BY <1>1, <1>8, <2>1, Dispatched DEF intr_dispatch_entry, In
  <2>3. CASE g_handlers[v] = "default_unhandled" /\ halted' = "unhandled" /\ UNCHANGED active
    BY <1>1, <1>8, <2>2, <2>3
  <2>4. CASE /\ g_handlers[v] = "driver" /\ halted' = halted
             /\ active' = [active EXCEPT ![Len(active)] =
                   [@ EXCEPT !.stage = "handler",
                          !.todo = IF v < PIC_PRIMARY_OFFSET THEN <<>> ELSE pic_notify_eoi(v - PIC_PRIMARY_OFFSET)]]
    <3>1. PICK t : t = IF v < PIC_PRIMARY_OFFSET THEN <<>> ELSE pic_notify_eoi(v - PIC_PRIMARY_OFFSET)
      OBVIOUS
    <3>2. t \in Seq(Commands)
      <4>1. <<>> \in Seq(Commands) /\ pic_notify_eoi(v - PIC_PRIMARY_OFFSET) \in Seq(Commands)
        <5>1. \A irq : pic_notify_eoi(irq) \in Seq(Commands)
          BY EoiWrites
        <5> QED BY <5>1
      <4> QED BY <3>1, <4>1
    <3>3. PICK b : b = [a EXCEPT !.stage = "handler", !.todo = t]
      OBVIOUS
    <3>4. b \in Activations /\ b.stage = "handler" /\ b.todo = t /\ b.vector = a.vector /\ b.cause = a.cause
          /\ b.irq = a.irq /\ b.early = a.early /\ b.was = a.was
      BY <1>1, <3>2, <3>3 DEF Activations
    <3>5. active' = [active EXCEPT ![n] = b]
      BY <1>1, <2>4, <3>1, <3>3
    <3>6. a.cause = "exception" => a.vector < 32
      <4>1. n \in DOMAIN active
        BY <1>1
      <4>2. a.cause = "exception" => a.vector \in Exceptions
        BY <1>1, <4>1 DEF IInv, Nesting
      <4>3. \A v1 \in Exceptions : v1 \in 0 .. 31
        BY InterruptsAssumption
      <4>4. a.cause = "exception" => a.vector \in 0 .. 31
        BY <4>2, <4>3
      <4>5. ASSUME a.cause = "exception" PROVE a.vector < 32
        <5>1. PICK u \in 0 .. 31 : u = a.vector
          BY <4>4, <4>5
        <5>2. u < 32
          OBVIOUS
        <5> QED BY <5>1, <5>2
      <4> QED BY <4>5
    <3> QED BY <1>1, <1>8, <2>2, <2>4, <3>1, <3>4, <3>5, <3>6 DEF PIC_PRIMARY_OFFSET
  <2> QED BY <1>8, <2>1, <2>3, <2>4 DEF intr_dispatch_entry
<1> QED BY <1>3, <1>4, <1>5, <1>6, <1>7, <1>8 DEF Service

(* ---- the stack ---- *)

\* A push moves the stack pointer down and leaves what is above it.
LEMMA Pushed ==
    ASSUME NEW m \in Machines, NEW words \in Seq(Int)
    PROVE  LET m2 == Push(m, words)
               sp == m.regs["rsp"]
               n == Len(words) IN
           /\ m2 \in Machines /\ m2.if = m.if /\ m2.rip = m.rip /\ sp \in Int /\ n \in Nat
           /\ m2.regs["rsp"] = sp - n /\ \A r \in Regs \ {"rsp"} : m2.regs[r] = m.regs[r]
           /\ \A a \in 0 .. StackTop : a >= sp => m2.mem[a] = m.mem[a]
           /\ \A a \in 0 .. StackTop : sp - n <= a /\ a < sp => m2.mem[a] = words[sp - a]
PROOF
<1> DEFINE m2 == Push(m, words)
           sp == m.regs["rsp"]
           n == Len(words)
<1> HIDE DEF m2, sp, n
<1>1. "rsp" \in Regs /\ m.regs \in [Regs -> Int] /\ m.mem \in [0 .. StackTop -> Int] /\ sp \in Int /\ n \in Nat
  <2>1. "rsp" \in Regs
    BY Registers
  <2>2. m.regs \in [Regs -> Int] /\ m.mem \in [0 .. StackTop -> Int]
    BY DEF Machines
  <2>3. n \in Nat
    BY LenProperties DEF n
  <2> QED BY <2>1, <2>2, <2>3 DEF sp
<1>2. PICK mem2 : mem2 = [a \in 0 .. StackTop |-> IF a \in sp - n .. sp - 1 THEN words[sp - a] ELSE m.mem[a]]
  OBVIOUS
<1>3. PICK regs2 : regs2 = [m.regs EXCEPT !["rsp"] = sp - n]
  OBVIOUS
<1>4. DOMAIN m.mem = 0 .. StackTop
  BY <1>1
<1>5. m2 = [m EXCEPT !.regs = regs2, !.mem = mem2]
  BY <1>1, <1>2, <1>3, <1>4 DEF Push, Machines, m2, sp, n
<1>6. ASSUME NEW a \in 0 .. StackTop
      PROVE  (IF a \in sp - n .. sp - 1 THEN words[sp - a] ELSE m.mem[a]) \in Int
  <2>1. a \in sp - n .. sp - 1 => sp - a \in 1 .. n
    BY <1>1
  <2>2. \A i \in 1 .. n : words[i] \in Int
    BY ElementOfSeq DEF n
  <2> QED BY <1>1, <2>1, <2>2
<1>7. mem2 \in [0 .. StackTop -> Int]
  BY <1>2, <1>6
<1>8. regs2 \in [Regs -> Int] /\ regs2["rsp"] = sp - n /\ \A r \in Regs \ {"rsp"} : regs2[r] = m.regs[r]
  BY <1>1, <1>3
<1>9. m2 \in Machines /\ m2.if = m.if /\ m2.rip = m.rip /\ m2.regs = regs2 /\ m2.mem = mem2
  BY <1>5, <1>7, <1>8 DEF Machines
<1>10. ASSUME NEW a \in 0 .. StackTop, a >= sp PROVE mem2[a] = m.mem[a]
  BY <1>1, <1>2, <1>10
<1>11. ASSUME NEW a \in 0 .. StackTop, sp - n <= a, a < sp PROVE mem2[a] = words[sp - a]
  <2>1. a \in sp - n .. sp - 1
    BY <1>1, <1>11
  <2> QED BY <1>2, <2>1
<1> QED BY <1>1, <1>8, <1>9, <1>10, <1>11 DEF m2, sp, n

\* Aligning the stack moves the stack pointer only.
LEMMA Aligned ==
    ASSUME NEW m \in Machines
    PROVE  LET m2 == Align(m)
               sp == m.regs["rsp"] IN
           /\ m2 \in Machines /\ m2.if = m.if /\ m2.rip = m.rip /\ m2.mem = m.mem /\ sp \in Int
           /\ m2.regs["rsp"] = sp - (sp % 2) /\ \A r \in Regs \ {"rsp"} : m2.regs[r] = m.regs[r]
PROOF
<1> DEFINE m2 == Align(m)
           sp == m.regs["rsp"]
<1>1. "rsp" \in Regs /\ m.regs \in [Regs -> Int] /\ sp \in Int
  BY Registers DEF Machines
<1>2. PICK regs2 : regs2 = [m.regs EXCEPT !["rsp"] = sp - (sp % 2)]
  OBVIOUS
<1>3. m2 = [m EXCEPT !.regs = regs2]
  BY <1>2 DEF Align
<1>4. regs2 \in [Regs -> Int] /\ regs2["rsp"] = sp - (sp % 2) /\ \A r \in Regs \ {"rsp"} : regs2[r] = m.regs[r]
  BY <1>1, <1>2
<1> QED BY <1>1, <1>3, <1>4 DEF Machines

\* What the processor pushes for an interrupt.
PushedFor(m, v, cause) ==
    << SS, m.regs["rsp"], m.if, CS, 1 >> \o (IF cause = "exception" /\ v \in ErrorVectors THEN <<ErrorCode>> ELSE <<>>)

\* The words the processor pushes, and where each of them is.
LEMMA HardwareFrame ==
    ASSUME NEW m \in Machines, NEW v, NEW cause
    PROVE  LET frame == PushedFor(m, v, cause) IN
           /\ frame \in Seq(Int)
           /\ cause = "exception" /\ v \in ErrorVectors => Len(frame) = 6
           /\ ~(cause = "exception" /\ v \in ErrorVectors) => Len(frame) = 5
           /\ frame[2] = m.regs["rsp"] /\ frame[3] = m.if /\ frame[4] = CS /\ frame[5] = 1
           /\ cause = "exception" /\ v \in ErrorVectors => frame[6] = ErrorCode
PROOF
<1> DEFINE frame == PushedFor(m, v, cause)
<1> HIDE DEF frame
<1>1. m.regs["rsp"] \in Int /\ m.if \in Int
  <2>1. "rsp" \in Regs
    BY Registers
  <2>2. m.regs \in [Regs -> Int] /\ m.if \in {0, 1}
    BY DEF Machines
  <2> QED BY <2>1, <2>2
<1>2. SS = 8 /\ CS = 16 /\ ErrorCode = 77
  BY DEF SS, CS, ErrorCode, sel_gdt, KERNEL_DS_IDX, KERNEL_CS_IDX
<1>3. PICK f : f = << SS, m.regs["rsp"], m.if, CS, 1 >>
  OBVIOUS
<1>4. f \in Seq(Int) /\ Len(f) = 5 /\ f[2] = m.regs["rsp"] /\ f[3] = m.if /\ f[4] = CS /\ f[5] = 1
  BY <1>1, <1>2, <1>3
<1>5. CASE cause = "exception" /\ v \in ErrorVectors
  <2>0. PICK error : error = <<ErrorCode>>
    OBVIOUS
  <2>1. frame = f \o error /\ error \in Seq(Int) /\ Len(error) = 1 /\ error[1] = ErrorCode
    BY <1>2, <1>3, <1>5, <2>0 DEF PushedFor, frame
  <2>2. frame \in Seq(Int) /\ Len(frame) = 6 /\ (\A i \in 1 .. 5 : frame[i] = f[i]) /\ frame[6] = ErrorCode
    <3>1. /\ frame \in Seq(Int) /\ Len(frame) = Len(f) + Len(error)
          /\ \A i \in 1 .. Len(f) + Len(error) : frame[i] = IF i <= Len(f) THEN f[i] ELSE error[i - Len(f)]
      BY <1>4, <2>1, ConcatProperties
    <3>2. Len(f) = 5 /\ Len(error) = 1
      BY <1>4, <2>1
    <3>3. ASSUME NEW i \in 1 .. 5 PROVE frame[i] = f[i]
      <4>1. i \in 1 .. Len(f) + Len(error) /\ i <= Len(f)
        BY <3>2
      <4> QED BY <3>1, <4>1
    <3>4. frame[6] = error[1]
      <4>1. 6 \in 1 .. Len(f) + Len(error) /\ ~(6 <= Len(f)) /\ 6 - Len(f) = 1
        BY <3>2
      <4>2. frame[6] = IF 6 <= Len(f) THEN f[6] ELSE error[6 - Len(f)]
        BY <3>1, <4>1
      <4> QED BY <4>1, <4>2
    <3>5. Len(frame) = 6
      BY <3>1, <3>2
    <3> QED BY <2>1, <3>1, <3>3, <3>4, <3>5
  <2>3. 2 \in 1 .. 5 /\ 3 \in 1 .. 5 /\ 4 \in 1 .. 5 /\ 5 \in 1 .. 5
    OBVIOUS
  <2>4. frame[2] = m.regs["rsp"] /\ frame[3] = m.if /\ frame[4] = CS /\ frame[5] = 1
    BY <1>4, <2>2, <2>3
  <2> QED BY <1>5, <2>2, <2>4 DEF frame
<1>6. CASE ~(cause = "exception" /\ v \in ErrorVectors)
  <2>1. frame = f
    <3>1. frame = f \o <<>>
      BY <1>3, <1>6 DEF PushedFor, frame
    <3> QED BY <1>4, <3>1, ConcatEmptySeq
  <2> QED BY <1>4, <1>6, <2>1 DEF frame
<1> QED BY <1>5, <1>6 DEF frame

\* The parts of an interrupt's frame, from where its stack was.
LEMMA FrameShape ==
    ASSUME NEW a \in Activations, NEW sp, sp = a.was.regs["rsp"], NEW e, e = Entry(a)
    PROVE  /\ sp \in Int /\ e \in Int /\ sp - 1 <= e /\ e <= sp /\ e = sp - (sp % 2) /\ e % 2 = 0
           /\ Misplaced(a) => Base(a) = e - 6 /\ Ctx(a) = e - 22 /\ Bottom(a) = e - 25
           /\ ~Misplaced(a) => Base(a) = e - 7 /\ Ctx(a) = e - 23 /\ Bottom(a) = e - 27
           /\ Bottom(a) % 2 = 1 /\ Bottom(a) >= sp - 28 /\ Bottom(a) < Ctx(a) - 2
           /\ (Bottom(a) + 1) + 1 = Ctx(a) - 1 \/ (Bottom(a) + 1) + 1 = Ctx(a) - 2
PROOF
<1>1. sp \in Int
  <2>1. a.was.regs \in [Regs -> Int]
    BY DEF Activations
  <2> QED BY <2>1, Registers
<1>2. e \in Int /\ sp - 1 <= e /\ e <= sp /\ e % 2 = 0 /\ e = sp - (sp % 2)
  BY <1>1 DEF Entry
<1>3. ASSUME Misplaced(a) PROVE Base(a) = e - 6 /\ Ctx(a) = e - 22 /\ Bottom(a) = e - 25
  <2>1. Base(a) = e - 6 /\ Ctx(a) = e - 22
    BY <1>2, <1>3 DEF Base, Ctx
  <2>2. ((e - 22) - 2) % 2 = 0
    BY <1>2
  <2> QED BY <1>2, <2>1, <2>2 DEF Bottom
<1>4. ASSUME ~Misplaced(a) PROVE Base(a) = e - 7 /\ Ctx(a) = e - 23 /\ Bottom(a) = e - 27
  <2>1. Base(a) = e - 7 /\ Ctx(a) = e - 23
    BY <1>2, <1>4 DEF Base, Ctx
  <2>2. ((e - 23) - 2) % 2 = 1
    BY <1>2
  <2> QED BY <1>2, <2>1, <2>2 DEF Bottom
<1>5. (e - 25) % 2 = 1 /\ (e - 27) % 2 = 1
  BY <1>2
<1> QED BY <1>1, <1>2, <1>3, <1>4, <1>5

\* What delivery does to the machine.
LEMMA EnterFrame ==
    ASSUME IInv, halted = "no", pc \notin PreIdt, NEW v \in Vectors, NEW cause, NEW irq, Deliver(v, cause, irq),
           cpu.regs["rsp"] \in 28 .. StackTop
    PROVE  LET sp == cpu.regs["rsp"]
               e == sp - (sp % 2)
               n == IF cause = "exception" /\ v \in ErrorVectors THEN 6 ELSE 5 IN
           /\ cpu' \in Machines /\ cpu'.if = 0 /\ cpu'.rip = Stub(v)
           /\ cpu'.regs["rsp"] = e - n /\ \A r \in Regs \ {"rsp"} : cpu'.regs[r] = cpu.regs[r]
           /\ \A a \in 0 .. StackTop : a >= sp => cpu'.mem[a] = cpu.mem[a]
           /\ cpu'.mem[e - 2] = sp /\ cpu'.mem[e - 3] = cpu.if /\ cpu'.mem[e - 4] = CS /\ cpu'.mem[e - 5] = 1
           /\ n = 6 => cpu'.mem[e - 6] = ErrorCode
PROOF
<1>16. PICK sp : sp = cpu.regs["rsp"]
  OBVIOUS
<1>17. PICK e : e = sp - (sp % 2)
  OBVIOUS
<1>18. PICK n : n = IF cause = "exception" /\ v \in ErrorVectors THEN 6 ELSE 5
  OBVIOUS
<1>1. cpu \in Machines
  BY DEF IInv, Stack
<1>2. PICK frame : frame = PushedFor(cpu, v, cause)
  OBVIOUS
<1>3. /\ frame \in Seq(Int) /\ Len(frame) = n
      /\ frame[2] = sp /\ frame[3] = cpu.if /\ frame[4] = CS /\ frame[5] = 1
      /\ n = 6 => frame[6] = ErrorCode
  <2>1. /\ frame \in Seq(Int)
        /\ cause = "exception" /\ v \in ErrorVectors => Len(frame) = 6
        /\ ~(cause = "exception" /\ v \in ErrorVectors) => Len(frame) = 5
        /\ frame[2] = cpu.regs["rsp"] /\ frame[3] = cpu.if /\ frame[4] = CS /\ frame[5] = 1
        /\ cause = "exception" /\ v \in ErrorVectors => frame[6] = ErrorCode
    BY <1>1, <1>2, HardwareFrame
  <2>2. cpu.regs["rsp"] = sp /\ (n = 6 <=> cause = "exception" /\ v \in ErrorVectors) /\ (n = 5 \/ n = 6)
    BY <1>16, <1>18
  <2> QED BY <2>1, <2>2
<1>4. PICK m : m = Align(cpu)
  OBVIOUS
<1>5. /\ m \in Machines /\ m.if = cpu.if /\ m.mem = cpu.mem
      /\ m.regs["rsp"] = e /\ \A r \in Regs \ {"rsp"} : m.regs[r] = cpu.regs[r]
  BY <1>1, <1>4, <1>16, <1>17, Aligned
<1>6. PICK m2 : m2 = Push(m, frame)
  OBVIOUS
<1>7. /\ m2 \in Machines /\ m2.if = m.if
      /\ m2.regs["rsp"] = e - n /\ \A r \in Regs \ {"rsp"} : m2.regs[r] = m.regs[r]
      /\ \A a \in 0 .. StackTop : a >= e => m2.mem[a] = m.mem[a]
      /\ \A a \in 0 .. StackTop : e - n <= a /\ a < e => m2.mem[a] = frame[e - a]
  <2>1. /\ m2 \in Machines /\ m2.if = m.if
        /\ m2.regs["rsp"] = m.regs["rsp"] - Len(frame) /\ \A r \in Regs \ {"rsp"} : m2.regs[r] = m.regs[r]
        /\ \A a \in 0 .. StackTop : a >= m.regs["rsp"] => m2.mem[a] = m.mem[a]
        /\ \A a \in 0 .. StackTop : m.regs["rsp"] - Len(frame) <= a /\ a < m.regs["rsp"] => m2.mem[a] = frame[m.regs["rsp"] - a]
    <3>1. m \in Machines /\ frame \in Seq(Int)
      BY <1>3, <1>5
    <3> QED BY <3>1, <1>6, Pushed
  <2>2. m.regs["rsp"] = e /\ Len(frame) = n
    BY <1>3, <1>5
  <2> QED BY <1>3, <2>1, <2>2
<1>8. cpu' = [m2 EXCEPT !.rip = Stub(v), !.if = 0]
  <2>1. Tables /\ Control
    BY DEF IInv
  <2>2. cpu' = [Push(Align(cpu), PushedFor(cpu, v, cause)) EXCEPT !.rip = Stub(v), !.if = 0]
    BY <2>1, Delivered, Zenon DEF PushedFor
  <2> QED BY <1>2, <1>4, <1>6, <2>2
<1>9. Stub(v) \in SUBSET Nat
  <2>1. v \in 0 .. 255
    BY InterruptsAssumption
  <2>2. Stub(v) \in SUBSET (0 .. 63)
    BY <2>1, Stubs, Zenon
  <2>3. \A b \in 0 .. 63 : b \in Nat
    OBVIOUS
  <2> QED BY <2>2, <2>3
<1>10. cpu' \in Machines /\ cpu'.if = 0 /\ cpu'.rip = Stub(v) /\ cpu'.regs = m2.regs /\ cpu'.mem = m2.mem
  BY <1>7, <1>8, <1>9 DEF Machines
<1>11. sp \in Int /\ e \in Int /\ sp - 1 <= e /\ e <= sp /\ StackTop \in Nat /\ n \in {5, 6} /\ e >= 27 /\ e <= StackTop
  BY <1>16, <1>17, <1>18, InterruptsAssumption
<1>12. \A a \in 0 .. StackTop : a >= sp => cpu'.mem[a] = cpu.mem[a]
  BY <1>5, <1>7, <1>10, <1>11
<1>13. ASSUME NEW i \in 1 .. n PROVE cpu'.mem[e - i] = frame[i]
  <2>1. e - i \in 0 .. StackTop /\ e - n <= e - i /\ e - i < e /\ e - (e - i) = i
    BY <1>11
  <2> QED BY <1>7, <1>10, <2>1
<1>14. /\ cpu'.mem[e - 2] = sp /\ cpu'.mem[e - 3] = cpu.if /\ cpu'.mem[e - 4] = CS /\ cpu'.mem[e - 5] = 1
       /\ n = 6 => cpu'.mem[e - 6] = ErrorCode
  <2>1. 2 \in 1 .. n /\ 3 \in 1 .. n /\ 4 \in 1 .. n /\ 5 \in 1 .. n /\ (n = 6 => 6 \in 1 .. n)
    BY <1>11
  <2> QED BY <1>3, <1>13, <2>1
<1>15. cpu'.regs["rsp"] = e - n /\ \A r \in Regs \ {"rsp"} : cpu'.regs[r] = cpu.regs[r]
  BY <1>5, <1>7, <1>10
<1> QED BY <1>10, <1>12, <1>14, <1>15, <1>16, <1>17, <1>18

\* There is room for another frame below whatever may be interrupted.
LEMMA Room ==
    ASSUME IInv, NEW n, n = Len(active), n <= MaxTraps,
           active # <<>> => Last(active).stage = "handler"
    PROVE  /\ cpu.regs["rsp"] \in StackTop - 1 - 28 * n .. StackTop /\ cpu.regs["rsp"] \in 28 .. StackTop
           /\ active # <<>> => cpu.regs["rsp"] = Bottom(active[n])
PROOF
<1>1. active \in Seq(Activations) /\ n \in Nat /\ MaxTraps \in Nat /\ StackTop \in Nat /\ StackTop > 28 * (MaxTraps + 1)
  BY InterruptsAssumption, LenProperties DEF IInv, Nesting
<1>2. StackTop - 1 - 28 * n >= 28
  BY <1>1
<1>3. CASE active = <<>>
  <2>1. cpu.regs["rsp"] \in {StackTop - 1, StackTop} /\ n = 0
    BY <1>3 DEF IInv, Stack
  <2> QED BY <1>1, <1>2, <1>3, <2>1
<1>4. CASE active # <<>>
  <2>0. Last(active) = active[n] /\ Last(active) \in Activations /\ n >= 1
    BY <1>1, <1>4, FrontOf
  <2>1. PICK a \in Activations : a = Last(active) /\ a = active[n] /\ n \in DOMAIN active /\ n >= 1
    BY <1>1, <2>0
  <2>2. cpu.regs["rsp"] = Bottom(a) /\ a.was.regs["rsp"] \in StackTop - 1 - 28 * (n - 1) .. StackTop
    BY <1>4, <2>1 DEF IInv, Stack, StackPointer
  <2>3. PICK sp : sp = a.was.regs["rsp"]
    OBVIOUS
  <2>4. sp \in Int /\ Bottom(a) \in Int /\ Bottom(a) >= sp - 28 /\ Bottom(a) <= sp
    <3>1. PICK e : e = Entry(a)
      OBVIOUS
    <3>2. /\ sp \in Int /\ e \in Int /\ e <= sp
          /\ (Bottom(a) = e - 25 \/ Bottom(a) = e - 27) /\ Bottom(a) >= sp - 28
      BY <2>3, <3>1, FrameShape
    <3> QED BY <3>2
  <2> QED BY <1>1, <1>2, <2>1, <2>2, <2>3, <2>4
<1> QED BY <1>3, <1>4

\* The innermost interrupt, its frame and what the invariant says of it.
LEMMA Innermost ==
    ASSUME IInv, active # <<>>, NEW a, a = Last(active)
    PROVE  /\ a \in Activations /\ a = active[Len(active)] /\ Len(active) \in DOMAIN active
           /\ cpu \in Machines /\ cpu.if = 0 /\ cpu.regs["rsp"] = StackPointer(a)
           /\ a.was.regs["rsp"] \in 28 .. StackTop
           /\ Frame(cpu.mem, a)
           /\ a.stage \in {"stub", "common"} => \A r \in Regs \ {"rsp"} : cpu.regs[r] = a.was.regs[r]
           /\ a.stage = "stub" => cpu.rip = Stub(a.vector)
           /\ a.cause = "exception" => a.vector \in Exceptions
           /\ a.stage \in {"handler", "restore"} => ~Misplaced(a)
PROOF
<1>1. active \in Seq(Activations)
  BY DEF IInv, Nesting
<1>2. PICK n : n = Len(active)
  OBVIOUS
<1>3. a \in Activations /\ a = active[n] /\ n \in DOMAIN active /\ n \in Nat /\ n >= 1
  BY <1>1, <1>2, FrontOf
<1>4. n <= MaxTraps + 1 /\ MaxTraps \in Nat /\ StackTop \in Nat /\ StackTop > 28 * (MaxTraps + 1)
  <2>1. traps \in 0 .. MaxTraps /\ n <= traps + 1
    BY <1>2 DEF IInv, Control
  <2> QED BY <2>1, <1>3, InterruptsAssumption
<1>5. a.was.regs["rsp"] \in StackTop - 1 - 28 * (n - 1) .. StackTop
  BY <1>3 DEF IInv, Stack
<1>6. StackTop - 1 - 28 * (n - 1) >= 28
  BY <1>3, <1>4
<1>7. a.was.regs["rsp"] \in 28 .. StackTop
  <2>1. a.was.regs["rsp"] \in Int
    BY <1>3, FrameShape
  <2> QED BY <2>1, <1>3, <1>4, <1>5, <1>6
<1>8. Frame(cpu.mem, a)
  BY <1>3 DEF IInv, Stack
<1>9. /\ cpu \in Machines /\ cpu.regs["rsp"] = StackPointer(a)
      /\ a.stage \in {"stub", "common"} => \A r \in Regs \ {"rsp"} : cpu.regs[r] = a.was.regs[r]
      /\ a.stage = "stub" => cpu.rip = Stub(a.vector)
  BY DEF IInv, Stack
<1>10. cpu.if = 0 /\ (a.cause = "exception" => a.vector \in Exceptions)
  BY <1>3 DEF IInv, Nesting
<1>11. ASSUME a.stage \in {"handler", "restore"}, Misplaced(a) PROVE FALSE
  <2>1. a.cause # "exception" /\ a.vector \in HASERR
    BY <1>11 DEF Misplaced
  <2>2. pc \notin Booting
    BY <1>3, <1>11 DEF IInv, Nesting, Early
  <2>3. a.vector = Vector(a.irq) /\ a.irq \in 0 .. 15
    BY <1>3, <2>1, <2>2 DEF IInv, Nesting, Booting, Activations
  <2>4. PICK i \in 0 .. 15 : a.vector = 32 + i
    BY <2>3 DEF Vector, PIC_PRIMARY_OFFSET
  <2>5. 32 + i \notin HASERR
    BY DEF HASERR
  <2> QED BY <2>1, <2>4, <2>5
<1> QED BY <1>2, <1>3, <1>7, <1>8, <1>9, <1>10, <1>11

\* isr_stub_v leaves the vector and an error code on the stack.
LEMMA StubEffect ==
    ASSUME IInv, isr_stub, NEW a, a = Last(active)
    PROVE  /\ cpu' \in Machines /\ cpu'.if = 0 /\ cpu'.regs["rsp"] = Base(a)
           /\ \A r \in Regs \ {"rsp"} : cpu'.regs[r] = a.was.regs[r]
           /\ \A b \in 0 .. StackTop : b >= cpu.regs["rsp"] => cpu'.mem[b] = cpu.mem[b]
           /\ cpu'.mem[Base(a)] = a.vector
           /\ ~Misplaced(a) => cpu'.mem[Base(a) + 1] = ErrorOf(a)
PROOF
<1>1. active # <<>> /\ a.stage = "stub"
  BY DEF isr_stub, In
<1>2. /\ a \in Activations /\ cpu \in Machines /\ cpu.regs["rsp"] = StackPointer(a)
      /\ a.was.regs["rsp"] \in 28 .. StackTop /\ PushedByCpu(cpu.mem, a) /\ cpu.rip = Stub(a.vector)
      /\ \A r \in Regs \ {"rsp"} : cpu.regs[r] = a.was.regs[r]
      /\ a.cause = "exception" => a.vector \in Exceptions
  BY <1>1, Innermost DEF Frame
<1>3. PICK v : v = a.vector
  OBVIOUS
<1>4. v \in Vectors /\ v \in 0 .. 255
  <2>1. v \in Vectors
    BY <1>2, <1>3 DEF Activations
  <2>2. Vectors \subseteq 0 .. 255
    BY InterruptsAssumption
  <2> QED BY <2>1, <2>2
<1>5. cpu' = [Push(cpu, IF v \in HASERR THEN <<v>> ELSE <<0, v>>) EXCEPT !.if = 0]
  <2>1. PICK w \in Vectors : cpu.rip = Stub(w) /\ cpu' = [Push(cpu, IF w \in HASERR THEN <<w>> ELSE <<0, w>>) EXCEPT !.if = 0]
    BY DEF isr_stub
  <2>2. w \in 0 .. 255 /\ Stub(v) = Stub(w)
    BY <1>2, <1>3, <2>1, InterruptsAssumption
  <2>3. v = w
    BY <1>4, <2>2, Stubs
  <2> QED BY <2>1, <2>3
<1>6. PICK words \in Seq(Int) : /\ words = IF v \in HASERR THEN <<v>> ELSE <<0, v>>
                                /\ v \in HASERR => Len(words) = 1 /\ words[1] = v
                                /\ v \notin HASERR => Len(words) = 2 /\ words[1] = 0 /\ words[2] = v
  <2>1. v \in Int
    BY <1>4
  <2>2. <<v>> \in Seq(Int) /\ Len(<<v>>) = 1 /\ <<v>>[1] = v
    BY <2>1
  <2>3. <<0, v>> \in Seq(Int) /\ Len(<<0, v>>) = 2 /\ <<0, v>>[1] = 0 /\ <<0, v>>[2] = v
    BY <2>1
  <2>4. CASE v \in HASERR
    BY <2>2, <2>4
  <2>5. CASE v \notin HASERR
    BY <2>3, <2>5
  <2> QED BY <2>4, <2>5
<1>7. PICK m : m = Push(cpu, words)
  OBVIOUS
<1>8. PICK sp : sp = cpu.regs["rsp"]
  OBVIOUS
<1>9. PICK n : n = Len(words)
  OBVIOUS
<1>10. /\ m \in Machines /\ sp \in Int /\ n \in {1, 2}
       /\ m.regs["rsp"] = sp - n /\ \A r \in Regs \ {"rsp"} : m.regs[r] = cpu.regs[r]
       /\ \A b \in 0 .. StackTop : b >= sp => m.mem[b] = cpu.mem[b]
       /\ \A b \in 0 .. StackTop : sp - n <= b /\ b < sp => m.mem[b] = words[sp - b]
  BY <1>2, <1>6, <1>7, <1>8, <1>9, Pushed
<1>11. cpu' \in Machines /\ cpu'.if = 0 /\ cpu'.regs = m.regs /\ cpu'.mem = m.mem
  BY <1>5, <1>6, <1>7, <1>10 DEF Machines
<1>12. PICK e : e = Entry(a)
  OBVIOUS
<1>13. /\ e \in Int /\ 27 <= e /\ e <= StackTop /\ StackTop \in Nat
       /\ Misplaced(a) => Base(a) = e - 6
       /\ ~Misplaced(a) => Base(a) = e - 7
  <2>1. PICK s \in 28 .. StackTop : s = a.was.regs["rsp"]
    BY <1>2
  <2>2. /\ s \in Int /\ e \in Int /\ s - 1 <= e /\ e <= s
        /\ Misplaced(a) => Base(a) = e - 6
        /\ ~Misplaced(a) => Base(a) = e - 7
    <3>1. a \in Activations
      BY <1>2
    <3> QED BY <1>12, <2>1, <3>1, FrameShape
  <2>3. StackTop \in Nat
    BY InterruptsAssumption
  <2> QED BY <2>1, <2>2, <2>3
<1>14. ErrorVectors \subseteq HASERR /\ (v \in HASERR /\ v \notin ErrorVectors => v = 20) /\ 20 \notin Exceptions /\ ErrorCode # 0
  BY InterruptsAssumption DEF ErrorVectors, HASERR, ErrorCode
<1>15. CASE a.cause = "exception" /\ v \in ErrorVectors
  <2>1. ~Misplaced(a) /\ ErrorOf(a) = ErrorCode /\ v \in HASERR
    BY <1>3, <1>14, <1>15 DEF Misplaced, ErrorOf
  <2>2. sp = e - 6 /\ cpu.mem[e - 6] = ErrorCode /\ n = 1 /\ words[1] = v
    BY <1>1, <1>2, <1>6, <1>8, <1>9, <1>12, <1>14, <2>1 DEF StackPointer, PushedByCpu
  <2>3. e - 7 \in 0 .. StackTop /\ e - 6 \in 0 .. StackTop /\ sp - n = e - 7 /\ sp - (e - 7) = 1 /\ (e - 7) + 1 = e - 6
    BY <1>13, <2>2
  <2>4. m.mem[e - 7] = v /\ m.mem[e - 6] = ErrorCode
    <3>1. sp - n <= e - 7 /\ e - 7 < sp /\ e - 6 >= sp
      BY <1>13, <2>2
    <3>2. m.mem[e - 7] = words[sp - (e - 7)] /\ m.mem[e - 6] = cpu.mem[e - 6]
      BY <1>10, <2>3, <3>1
    <3> QED BY <2>2, <2>3, <3>2
  <2> QED BY <1>2, <1>3, <1>8, <1>10, <1>11, <1>13, <2>1, <2>3, <2>4
<1>16. CASE a.cause # "exception" /\ v \in HASERR
  <2>1. Misplaced(a) /\ ErrorOf(a) = 0
    BY <1>3, <1>16 DEF Misplaced, ErrorOf
  <2>2. sp = e - 5 /\ n = 1 /\ words[1] = v
    BY <1>1, <1>2, <1>6, <1>8, <1>9, <1>12, <1>16, <2>1 DEF StackPointer
  <2>3. e - 6 \in 0 .. StackTop /\ sp - n = e - 6 /\ sp - (e - 6) = 1
    BY <1>13, <2>2
  <2>4. m.mem[e - 6] = v
    <3>1. sp - n <= e - 6 /\ e - 6 < sp
      BY <1>13, <2>2
    <3>2. m.mem[e - 6] = words[sp - (e - 6)]
      BY <1>10, <2>3, <3>1
    <3> QED BY <2>2, <2>3, <3>2
  <2> QED BY <1>2, <1>3, <1>8, <1>10, <1>11, <1>13, <2>1, <2>3, <2>4
<1>17. CASE v \notin HASERR
  <2>1. ~Misplaced(a) /\ ErrorOf(a) = 0
    BY <1>3, <1>14, <1>17 DEF Misplaced, ErrorOf
  <2>2. sp = e - 5 /\ n = 2 /\ words[1] = 0 /\ words[2] = v
    BY <1>1, <1>2, <1>6, <1>8, <1>9, <1>12, <1>17, <2>1 DEF StackPointer
  <2>3. /\ e - 7 \in 0 .. StackTop /\ sp - n = e - 7 /\ sp - (e - 7) = 2 /\ (e - 7) + 1 = e - 6
        /\ e - 6 \in 0 .. StackTop /\ sp - (e - 6) = 1
    BY <1>13, <2>2
  <2>4. m.mem[e - 7] = v /\ m.mem[e - 6] = 0
    <3>1. sp - n <= e - 7 /\ e - 7 < sp /\ sp - n <= e - 6 /\ e - 6 < sp
      BY <1>13, <2>2
    <3>2. m.mem[e - 7] = words[sp - (e - 7)] /\ m.mem[e - 6] = words[sp - (e - 6)]
      BY <1>10, <2>3, <3>1
    <3> QED BY <2>2, <2>3, <3>2
  <2> QED BY <1>2, <1>3, <1>8, <1>10, <1>11, <1>13, <2>1, <2>3, <2>4
<1>18. a.cause = "exception" /\ v \in HASERR => v \in ErrorVectors
  BY <1>2, <1>3, <1>14
<1> QED BY <1>15, <1>16, <1>17, <1>18

\* The pushes of isr_common put every register under its name.
LEMMA SavedEffect ==
    ASSUME NEW m \in Machines, NEW sp, sp = m.regs["rsp"], sp \in 16 .. StackTop
    PROVE  LET s == saved(m) IN
           /\ s \in Machines /\ s.if = m.if /\ s.rip = m.rip /\ s.regs["rsp"] = sp - 16
           /\ \A b \in 0 .. StackTop : b >= sp => s.mem[b] = m.mem[b]
           /\ \A i \in 1 .. 16 : s.mem[(sp - 16) + i - 1] = IF intr_regs[i] = "rsp" THEN (sp - 16) + i ELSE m.regs[intr_regs[i]]
PROOF
<1>1. PICK order : order = Reverse(intr_regs)
  OBVIOUS
<1>2. \A i \in 1 .. 16 : order[i] = intr_regs[(16 - i) + 1]
  BY <1>1, Registers DEF Reverse
<1>3. PICK words : words = [i \in 1 .. 16 |-> IF order[i] = "rsp" THEN m.regs["rsp"] - (i - 1) ELSE m.regs[order[i]]]
  OBVIOUS
<1>4. m.regs \in [Regs -> Int] /\ sp \in Int /\ StackTop \in Nat
  BY InterruptsAssumption DEF Machines
<1>5. ASSUME NEW i \in 1 .. 16 PROVE words[i] \in Int
  <2>1. (16 - i) + 1 \in 1 .. 16
    OBVIOUS
  <2>2. order[i] \in Regs
    BY <1>2, <2>1, Registers
  <2>3. m.regs[order[i]] \in Int
    BY <1>4, <2>2
  <2>4. sp - (i - 1) \in Int
    BY <1>4
  <2> QED BY <1>3, <2>3, <2>4
<1>6. words \in Seq(Int) /\ Len(words) = 16
  <2>1. words \in [1 .. 16 -> Int]
    BY <1>3, <1>5
  <2>2. words \in Seq(Int)
    BY <2>1, SeqDef
  <2>3. DOMAIN words = 1 .. Len(words) /\ Len(words) \in Nat /\ DOMAIN words = 1 .. 16
    BY <2>1, <2>2, LenProperties
  <2>4. PICK n \in Nat : n = Len(words) /\ 1 .. n = 1 .. 16
    BY <2>3
  <2>5. 16 \in 1 .. n /\ (n >= 1 => n \in 1 .. 16)
    BY <2>4
  <2>6. n = 16
    BY <2>5
  <2> QED BY <2>2, <2>4, <2>6
<1>7. PICK s : s = Push(m, words)
  OBVIOUS
<1>8. saved(m) = s
  BY <1>1, <1>3, <1>7 DEF saved
<1>9. /\ s \in Machines /\ s.if = m.if /\ s.rip = m.rip /\ s.regs["rsp"] = m.regs["rsp"] - Len(words)
      /\ \A b \in 0 .. StackTop : b >= m.regs["rsp"] => s.mem[b] = m.mem[b]
      /\ \A b \in 0 .. StackTop : m.regs["rsp"] - Len(words) <= b /\ b < m.regs["rsp"] => s.mem[b] = words[m.regs["rsp"] - b]
  BY <1>6, <1>7, Pushed
<1>10. /\ s.regs["rsp"] = sp - 16
       /\ \A b \in 0 .. StackTop : b >= sp => s.mem[b] = m.mem[b]
       /\ \A b \in 0 .. StackTop : sp - 16 <= b /\ b < sp => s.mem[b] = words[sp - b]
  BY <1>6, <1>9
<1>11. ASSUME NEW i \in 1 .. 16
       PROVE  s.mem[(sp - 16) + i - 1] = IF intr_regs[i] = "rsp" THEN (sp - 16) + i ELSE m.regs[intr_regs[i]]
  <2>1. PICK b : b = (sp - 16) + i - 1
    OBVIOUS
  <2>2. PICK j \in 1 .. 16 : j = 17 - i
    OBVIOUS
  <2>3. b \in 0 .. StackTop /\ sp - 16 <= b /\ b < sp /\ sp - b = j /\ (16 - j) + 1 = i /\ sp - (j - 1) = (sp - 16) + i
    BY <1>4, <2>1, <2>2
  <2>4. s.mem[b] = words[j]
    BY <1>10, <2>3
  <2>5. order[j] = intr_regs[i]
    BY <1>2, <2>3
  <2>6. words[j] = IF order[j] = "rsp" THEN sp - (j - 1) ELSE m.regs[order[j]]
    BY <1>3
  <2> QED BY <2>1, <2>3, <2>4, <2>5, <2>6
<1> QED BY <1>8, <1>9, <1>10, <1>11

\* Rounding an address down to an even one.
LEMMA AlignDown ==
    ASSUME NEW top \in Nat, NEW sp \in 4 .. top, NEW aligned \in Int, aligned = (sp - 2) - ((sp - 2) % 2)
    PROVE  aligned - 1 \in 0 .. top /\ aligned - 1 < sp - 2 /\ sp - 1 \in 0 .. top /\ sp - 2 \in 0 .. top /\ sp - 1 # sp - 2
PROOF
<1>1. aligned = sp - 2 \/ aligned = sp - 3
  OBVIOUS
<1> QED BY <1>1

\* The context pointer twice, the alignment, and the return address of the call.
LEMMA CallEffect ==
    ASSUME NEW m \in Machines, NEW sp, sp = m.regs["rsp"], sp \in 4 .. StackTop
    PROVE  LET c == call_aligned(m)
               bottom == (sp - 2) - ((sp - 2) % 2) - 1 IN
           /\ c \in Machines /\ c.if = m.if /\ c.rip = m.rip /\ c.regs["rsp"] = bottom
           /\ \A r \in Regs \ {"rsp"} : c.regs[r] = m.regs[r]
           /\ \A b \in 0 .. StackTop : b >= sp => c.mem[b] = m.mem[b]
           /\ c.mem[sp - 1] = sp /\ c.mem[sp - 2] = sp
PROOF
<1>1. m.regs \in [Regs -> Int] /\ m.mem \in [0 .. StackTop -> Int] /\ "rsp" \in Regs /\ sp \in Int /\ StackTop \in Nat
  BY InterruptsAssumption, Registers DEF Machines
<1>2. PICK aligned \in Int : aligned = (sp - 2) - ((sp - 2) % 2)
  BY <1>1
<1>3. aligned - 1 \in 0 .. StackTop /\ aligned - 1 < sp - 2 /\ sp - 1 \in 0 .. StackTop /\ sp - 2 \in 0 .. StackTop /\ sp - 1 # sp - 2
  BY <1>1, <1>2, AlignDown
<1>4. PICK mem2 : mem2 = [m.mem EXCEPT ![sp - 1] = sp, ![sp - 2] = sp, ![aligned - 1] = Junk]
  OBVIOUS
<1>5. /\ mem2 \in [0 .. StackTop -> Int] /\ mem2[sp - 1] = sp /\ mem2[sp - 2] = sp
      /\ \A b \in 0 .. StackTop : b >= sp => mem2[b] = m.mem[b]
  <2>1. Junk \in Int
    BY DEF Junk
  <2>2. mem2 \in [0 .. StackTop -> Int]
    BY <1>1, <1>4, <2>1
  <2>3. mem2[sp - 1] = sp /\ mem2[sp - 2] = sp
    <3>1. sp - 1 # aligned - 1 /\ sp - 2 # aligned - 1
      BY <1>1, <1>3
    <3>2. PICK x \in 0 .. StackTop : x = sp - 1
      BY <1>3
    <3>3. PICK y \in 0 .. StackTop : y = sp - 2
      BY <1>3
    <3>4. PICK z \in 0 .. StackTop : z = aligned - 1
      BY <1>3
    <3>5. x # y /\ x # z /\ y # z
      BY <1>3, <3>1, <3>2, <3>3, <3>4
    <3>6. mem2 = [m.mem EXCEPT ![x] = sp, ![y] = sp, ![z] = Junk]
      BY <1>4, <3>2, <3>3, <3>4
    <3>7. mem2[x] = sp /\ mem2[y] = sp
      BY <1>1, <3>5, <3>6
    <3> QED BY <3>2, <3>3, <3>7
  <2>4. ASSUME NEW b \in 0 .. StackTop, b >= sp PROVE mem2[b] = m.mem[b]
    <3>1. b \in Int /\ aligned - 1 \in Int /\ aligned - 1 < sp - 2
      BY <1>2, <1>3
    <3>2. b # sp - 1 /\ b # sp - 2 /\ b # aligned - 1
      BY <1>1, <2>4, <3>1
    <3> QED BY <1>1, <1>4, <3>2
  <2> QED BY <2>2, <2>3, <2>4
<1>6. PICK regs2 : regs2 = [m.regs EXCEPT !["rsp"] = aligned - 1]
  OBVIOUS
<1>7. regs2 \in [Regs -> Int] /\ regs2["rsp"] = aligned - 1 /\ \A r \in Regs \ {"rsp"} : regs2[r] = m.regs[r]
  BY <1>1, <1>6
<1>8. PICK c : c = [m EXCEPT !.regs = regs2, !.mem = mem2]
  OBVIOUS
<1>9. call_aligned(m) = c
  BY <1>2, <1>4, <1>6, <1>8 DEF call_aligned, Machines
<1>10. c \in Machines /\ c.if = m.if /\ c.rip = m.rip /\ c.regs = regs2 /\ c.mem = mem2
  BY <1>5, <1>7, <1>8 DEF Machines
<1> QED BY <1>2, <1>5, <1>7, <1>9, <1>10

\* isr_common builds the context and calls the dispatcher with it, on an aligned stack.
LEMMA CommonEffect ==
    ASSUME IInv, isr_common_save, NEW a, a = Last(active)
    PROVE  /\ cpu' \in Machines /\ cpu'.if = 0 /\ cpu'.regs["rsp"] = Bottom(a) /\ cpu'.regs["rdi"] = Ctx(a)
           /\ \A b \in 0 .. StackTop : b >= cpu.regs["rsp"] => cpu'.mem[b] = cpu.mem[b]
           /\ PushedByCommon(cpu'.mem, a)
PROOF
<1>0. PICK ctx : ctx = Ctx(a)
  OBVIOUS
<1>1. active # <<>> /\ a.stage = "common"
  BY DEF isr_common_save, In
<1>2. /\ a \in Activations /\ cpu \in Machines /\ cpu.if = 0 /\ cpu.regs["rsp"] = StackPointer(a)
      /\ a.was.regs["rsp"] \in 28 .. StackTop
      /\ \A r \in Regs \ {"rsp"} : cpu.regs[r] = a.was.regs[r]
  BY <1>1, Innermost
<1>3. PICK base : base = Base(a)
  OBVIOUS
<1>4. cpu.regs["rsp"] = base
  BY <1>1, <1>2, <1>3 DEF StackPointer
<1>5. base \in Int /\ ctx = base - 16 /\ base \in 20 .. StackTop /\ ctx \in 4 .. StackTop /\ StackTop \in Nat
  <2>1. PICK s \in 28 .. StackTop : s = a.was.regs["rsp"]
    BY <1>2
  <2>2. PICK e : e = Entry(a)
    OBVIOUS
  <2>3. /\ s \in Int /\ e \in Int /\ s - 1 <= e /\ e <= s
        /\ Misplaced(a) => base = e - 6 /\ ctx = e - 22
        /\ ~Misplaced(a) => base = e - 7 /\ ctx = e - 23
    BY <1>0, <1>2, <1>3, <2>1, <2>2, FrameShape
  <2>4. StackTop \in Nat
    BY InterruptsAssumption
  <2> QED BY <2>1, <2>3, <2>4
<1>6. PICK s : s = saved(cpu)
  OBVIOUS
<1>7. /\ s \in Machines /\ s.if = cpu.if /\ s.regs["rsp"] = base - 16
      /\ \A b \in 0 .. StackTop : b >= base => s.mem[b] = cpu.mem[b]
      /\ \A i \in 1 .. 16 : s.mem[(base - 16) + i - 1] = IF intr_regs[i] = "rsp" THEN (base - 16) + i ELSE cpu.regs[intr_regs[i]]
  <2>1. base \in 16 .. StackTop
    BY <1>5
  <2> QED BY <1>2, <1>4, <1>6, <2>1, SavedEffect
<1>8. PICK t : t = [s EXCEPT !.regs["rdi"] = s.regs["rsp"]]
  OBVIOUS
<1>9. t \in Machines /\ t.if = s.if /\ t.mem = s.mem /\ t.regs["rsp"] = ctx /\ t.regs["rdi"] = ctx
  <2>1. "rdi" \in Regs /\ "rsp" \in Regs /\ "rdi" # "rsp"
    BY Registers
  <2>2. s.regs \in [Regs -> Int]
    BY <1>7 DEF Machines
  <2>3. PICK regs2 : regs2 = [s.regs EXCEPT !["rdi"] = s.regs["rsp"]]
    OBVIOUS
  <2>4. regs2 \in [Regs -> Int] /\ regs2["rsp"] = ctx /\ regs2["rdi"] = ctx
    BY <1>5, <1>7, <2>1, <2>2, <2>3
  <2>5. t = [s EXCEPT !.regs = regs2]
    BY <1>8, <2>3
  <2> QED BY <1>7, <2>4, <2>5 DEF Machines
<1>10. cpu' = call_aligned(t)
  BY <1>6, <1>8 DEF isr_common_save
<1>11. /\ cpu' \in Machines /\ cpu'.if = t.if /\ cpu'.regs["rsp"] = (ctx - 2) - ((ctx - 2) % 2) - 1
       /\ \A r \in Regs \ {"rsp"} : cpu'.regs[r] = t.regs[r]
       /\ \A b \in 0 .. StackTop : b >= ctx => cpu'.mem[b] = t.mem[b]
       /\ cpu'.mem[ctx - 1] = ctx /\ cpu'.mem[ctx - 2] = ctx
  BY <1>5, <1>9, <1>10, CallEffect
<1>12. cpu'.regs["rsp"] = Bottom(a) /\ cpu'.regs["rdi"] = ctx
  BY <1>0, <1>9, <1>11, Registers DEF Bottom
<1>13. ASSUME NEW b \in 0 .. StackTop, b >= base PROVE cpu'.mem[b] = cpu.mem[b]
  BY <1>5, <1>7, <1>9, <1>11, <1>13
<1>14. ASSUME NEW i \in 1 .. 16
       PROVE  cpu'.mem[ctx + i - 1] = IF intr_regs[i] = "rsp" THEN ctx + i ELSE a.was.regs[intr_regs[i]]
  <2>1. ctx + i - 1 \in 0 .. StackTop /\ ctx + i - 1 >= ctx
    BY <1>5
  <2>2. cpu'.mem[ctx + i - 1] = s.mem[ctx + i - 1]
    BY <1>9, <1>11, <2>1
  <2>3. s.mem[ctx + i - 1] = IF intr_regs[i] = "rsp" THEN ctx + i ELSE cpu.regs[intr_regs[i]]
    BY <1>5, <1>7
  <2>4. intr_regs[i] # "rsp" => cpu.regs[intr_regs[i]] = a.was.regs[intr_regs[i]]
    BY <1>2, Registers
  <2> QED BY <2>2, <2>3, <2>4
<1>15. PushedByCommon(cpu'.mem, a)
  BY <1>0, <1>11, <1>14 DEF PushedByCommon
<1> QED BY <1>0, <1>2, <1>4, <1>7, <1>9, <1>11, <1>12, <1>13, <1>15

\* A handler's return clobbers what the caller saves, and only moves the stack pointer.
LEMMA ReturnEffect ==
    ASSUME IInv, handler_return
    PROVE  cpu' \in Machines /\ cpu'.if = cpu.if /\ cpu'.mem = cpu.mem /\ cpu'.regs["rsp"] = cpu.regs["rsp"] + 1
PROOF
<1>1. cpu \in Machines
  BY DEF IInv, Stack
<1>2. PICK regs2 : regs2 = [r \in Regs |-> IF r \in CallerSaved THEN Junk
                                           ELSE IF r = "rsp" THEN cpu.regs[r] + 1 ELSE cpu.regs[r]]
  OBVIOUS
<1>3. cpu.regs \in [Regs -> Int] /\ "rsp" \in Regs /\ "rsp" \notin CallerSaved /\ Junk \in Int
  BY <1>1, Registers DEF Machines, CallerSaved, Junk
<1>4. regs2 \in [Regs -> Int] /\ regs2["rsp"] = cpu.regs["rsp"] + 1
  BY <1>2, <1>3
<1>5. cpu' = [cpu EXCEPT !.regs = regs2]
  BY <1>2 DEF handler_return
<1> QED BY <1>1, <1>4, <1>5 DEF Machines

\* The pops and iretq bring back everything that was interrupted.
LEMMA RestoreEffect ==
    ASSUME IInv, isr_common_restore, NEW a, a = Last(active)
    PROVE  /\ cpu' \in Machines /\ cpu'.regs = a.was.regs /\ cpu'.rip = a.was.rip /\ cpu'.if = a.was.if
           /\ \A b \in 0 .. StackTop : b >= a.was.regs["rsp"] => cpu'.mem[b] = cpu.mem[b]
PROOF
<1>1. active # <<>> /\ a.stage = "restore"
  BY DEF isr_common_restore, In
<1>2. /\ a \in Activations /\ cpu \in Machines /\ cpu.regs["rsp"] = StackPointer(a)
      /\ a.was.regs["rsp"] \in 28 .. StackTop /\ PushedByCpu(cpu.mem, a) /\ PushedByCommon(cpu.mem, a) /\ ~Misplaced(a)
  BY <1>1, Innermost DEF Frame
<1>3. PICK ctx : ctx = Ctx(a)
  OBVIOUS
<1>4. PICK e : e = Entry(a)
  OBVIOUS
<1>5. PICK was \in Int : was = a.was.regs["rsp"]
  BY <1>2, FrameShape
<1>6. /\ e \in Int /\ ctx = e - 23 /\ ctx \in Int
      /\ (Bottom(a) + 1) + 1 = ctx - 1 \/ (Bottom(a) + 1) + 1 = ctx - 2
  <2>1. e \in Int /\ ctx = e - 23 /\ ((Bottom(a) + 1) + 1 = ctx - 1 \/ (Bottom(a) + 1) + 1 = ctx - 2)
    BY <1>2, <1>3, <1>4, <1>5, FrameShape
  <2> QED BY <2>1
<1>7. cpu.regs["rsp"] = Bottom(a) + 1
  BY <1>1, <1>2 DEF StackPointer
<1>8. cpu.mem[cpu.regs["rsp"] + 1] = ctx
  BY <1>2, <1>3, <1>6, <1>7 DEF PushedByCommon
<1>9. \A i \in 1 .. 16 : cpu.mem[ctx + i - 1] = IF i = 12 THEN ctx + i ELSE a.was.regs[intr_regs[i]]
  BY <1>2, <1>3, Registers DEF PushedByCommon
<1>10. cpu.mem[e - 2] = was /\ cpu.mem[e - 3] = a.was.if /\ cpu.mem[e - 5] = 1
  BY <1>2, <1>4, <1>5 DEF PushedByCpu
<1>11. PICK index : index = [r \in Regs |-> CHOOSE i \in 1 .. 16 : intr_regs[i] = r]
  OBVIOUS
<1>12. \A r \in Regs : index[r] \in 1 .. 16 /\ intr_regs[index[r]] = r /\ (index[r] = 12 <=> r = "rsp")
  BY <1>11, Places
<1>13. PICK k : k = CHOOSE i \in 1 .. 16 : intr_regs[i] = "rsp"
  OBVIOUS
<1>14. k = 12
  BY <1>13, Places, Registers
<1>15. PICK sp2 : sp2 = cpu.mem[ctx + k - 1]
  OBVIOUS
<1>16. sp2 = ctx + 12
  BY <1>9, <1>14, <1>15
<1>17. PICK regs2 : regs2 = [r \in Regs |-> IF r = "rsp" THEN sp2 + (16 - k) + 2
                                      ELSE IF index[r] < k THEN cpu.mem[ctx + index[r] - 1]
                                      ELSE cpu.mem[sp2 + index[r] - k - 1]]
  OBVIOUS
<1>18. ASSUME NEW r \in Regs, r # "rsp" PROVE regs2[r] = a.was.regs[r]
  <2>1. PICK i \in 1 .. 16 : i = index[r]
    BY <1>12
  <2>2. intr_regs[i] = r /\ i # 12
    BY <1>12, <1>18, <2>1
  <2>3. sp2 + i - k - 1 = ctx + i - 1
    BY <1>6, <1>14, <1>16
  <2>4. regs2[r] = cpu.mem[ctx + i - 1]
    BY <1>17, <1>18, <2>1, <2>3
  <2>5. cpu.mem[ctx + i - 1] = a.was.regs[intr_regs[i]]
    BY <1>9, <2>2
  <2> QED BY <2>2, <2>4, <2>5
<1>19. "rsp" \in Regs /\ regs2["rsp"] = e - 5 /\ DOMAIN regs2 = Regs
  <2>1. regs2["rsp"] = sp2 + (16 - k) + 2 /\ "rsp" \in Regs /\ DOMAIN regs2 = Regs
    BY <1>17, Registers
  <2> QED BY <1>6, <1>14, <1>16, <2>1
<1>20. PICK m : m = [cpu EXCEPT !.regs = regs2]
  OBVIOUS
<1>21. restored(cpu) = m
  BY <1>8, <1>11, <1>13, <1>15, <1>17, <1>20 DEF restored
<1>22. m.regs = regs2 /\ m.mem = cpu.mem /\ m.regs["rsp"] = e - 5
  BY <1>2, <1>19, <1>20 DEF Machines
<1>23. (e - 5) + 3 = e - 2 /\ (e - 5) + 2 = e - 3
  BY <1>6
<1>24. PICK regs3 : regs3 = [regs2 EXCEPT !["rsp"] = was]
  OBVIOUS
<1>25. regs3 = a.was.regs /\ a.was.regs \in [Regs -> Int]
  <2>1. a.was.regs \in [Regs -> Int]
    BY <1>2 DEF Activations
  <2>2. DOMAIN regs3 = Regs /\ \A r \in Regs : regs3[r] = a.was.regs[r]
    BY <1>5, <1>18, <1>19, <1>24
  <2>3. regs3 = [r \in Regs |-> regs3[r]]
    BY <1>19, <1>24
  <2> QED BY <2>1, <2>2, <2>3
<1>26. PICK mem3 : mem3 = [b \in DOMAIN cpu.mem |-> IF b < was THEN 0 ELSE cpu.mem[b]]
  OBVIOUS
<1>27. /\ mem3 \in [0 .. StackTop -> Int]
       /\ \A b \in 0 .. StackTop : b >= was => mem3[b] = cpu.mem[b]
  <2>1. cpu.mem \in [0 .. StackTop -> Int]
    BY <1>2 DEF Machines
  <2>2. mem3 \in [0 .. StackTop -> Int]
    <3>1. \A b \in 0 .. StackTop : (IF b < was THEN 0 ELSE cpu.mem[b]) \in Int
      <4>1. 0 \in Int /\ \A b \in 0 .. StackTop : cpu.mem[b] \in Int
        <5>1. PICK S : S = 0 .. StackTop
          OBVIOUS
        <5>2. \A b \in S : cpu.mem[b] \in Int
          BY <2>1, <5>1
        <5> QED BY <5>1, <5>2
      <4> QED BY <4>1, Zenon
    <3>2. mem3 = [b \in 0 .. StackTop |-> IF b < was THEN 0 ELSE cpu.mem[b]]
      BY <1>26, <2>1
    <3> QED BY <3>1, <3>2
  <2>3. ASSUME NEW b \in 0 .. StackTop, b >= was PROVE mem3[b] = cpu.mem[b]
    <3>1. ~(b < was)
      BY <1>5, <2>3
    <3> QED BY <1>26, <2>1, <3>1
  <2> QED BY <2>2, <2>3
<1>28. cpu' = [cpu EXCEPT !.regs = regs3, !.if = a.was.if, !.mem = mem3, !.rip = a.was.rip]
  <2>1. cpu' = [m EXCEPT !.regs["rsp"] = m.mem[(e - 5) + 3], !.if = m.mem[(e - 5) + 2],
                         !.mem = [b \in DOMAIN m.mem |-> IF b < m.mem[(e - 5) + 3] THEN 0 ELSE m.mem[b]],
                         !.rip = IF m.mem[e - 5] = 1 THEN a.was.rip ELSE {}]
    <3>1. cpu' = [m EXCEPT !.regs["rsp"] = m.mem[m.regs["rsp"] + 3], !.if = m.mem[m.regs["rsp"] + 2],
                         !.mem = [b \in DOMAIN m.mem |-> IF b < m.mem[m.regs["rsp"] + 3] THEN 0 ELSE m.mem[b]],
                         !.rip = IF m.mem[m.regs["rsp"]] = 1 THEN Last(active).was.rip ELSE {}]
      BY <1>21 DEF isr_common_restore
    <3>2. PICK sp : sp = m.regs["rsp"] /\ sp = e - 5
      BY <1>22
    <3>3. cpu' = [m EXCEPT !.regs["rsp"] = m.mem[sp + 3], !.if = m.mem[sp + 2],
                         !.mem = [b \in DOMAIN m.mem |-> IF b < m.mem[sp + 3] THEN 0 ELSE m.mem[b]],
                         !.rip = IF m.mem[sp] = 1 THEN a.was.rip ELSE {}]
      BY <3>1, <3>2
    <3> QED BY <3>2, <3>3
  <2>2. m.mem[(e - 5) + 3] = was /\ m.mem[(e - 5) + 2] = a.was.if /\ m.mem[e - 5] = 1
    BY <1>10, <1>22, <1>23
  <2>3. cpu' = [m EXCEPT !.regs["rsp"] = was, !.if = a.was.if, !.mem = mem3, !.rip = a.was.rip]
    BY <1>22, <1>26, <2>1, <2>2
  <2>4. cpu' = [m EXCEPT !.regs = regs3, !.if = a.was.if, !.mem = mem3, !.rip = a.was.rip]
    BY <1>22, <1>24, <2>3
  <2> QED BY <1>2, <1>20, <2>4 DEF Machines
<1>29. a.was.if \in {0, 1} /\ a.was.rip \in SUBSET Nat
  BY <1>2 DEF Activations
<1>30. cpu' \in Machines /\ cpu'.regs = regs3 /\ cpu'.if = a.was.if /\ cpu'.mem = mem3 /\ cpu'.rip = a.was.rip
  BY <1>2, <1>25, <1>27, <1>28, <1>29 DEF Machines
<1> QED BY <1>5, <1>25, <1>27, <1>30

\* A frame is kept by whatever leaves the stack alone from its stack pointer up.
LEMMA FrameKept ==
    ASSUME NEW a \in Activations, a.was.regs["rsp"] \in 28 .. StackTop, NEW mem, NEW mem2, Frame(mem, a),
           \A b \in 0 .. StackTop : b >= StackPointer(a) => mem2[b] = mem[b]
    PROVE  Frame(mem2, a)
PROOF
<1>1. PICK e : e = Entry(a)
  OBVIOUS
<1>2. /\ e \in Int /\ 27 <= e /\ e <= StackTop /\ StackTop \in Nat
      /\ Misplaced(a) => Base(a) = e - 6 /\ Ctx(a) = e - 22 /\ Bottom(a) = e - 25
      /\ ~Misplaced(a) => Base(a) = e - 7 /\ Ctx(a) = e - 23 /\ Bottom(a) = e - 27
  <2>1. PICK s \in 28 .. StackTop : s = a.was.regs["rsp"]
    OBVIOUS
  <2>2. /\ s \in Int /\ e \in Int /\ s - 1 <= e /\ e <= s
        /\ Misplaced(a) => Base(a) = e - 6 /\ Ctx(a) = e - 22 /\ Bottom(a) = e - 25
        /\ ~Misplaced(a) => Base(a) = e - 7 /\ Ctx(a) = e - 23 /\ Bottom(a) = e - 27
    BY <1>1, <2>1, FrameShape
  <2>3. StackTop \in Nat
    BY InterruptsAssumption
  <2> QED BY <2>1, <2>2, <2>3
<1>3. a.stage \in {"stub", "common", "dispatch", "handler", "restore"}
  BY DEF Activations, Early
<1>4. PICK p : p = StackPointer(a)
  OBVIOUS
<1>5. /\ a.stage = "stub" => p = e - (IF ErrorOf(a) = 0 THEN 5 ELSE 6)
      /\ a.stage = "common" => p = Base(a)
      /\ a.stage = "restore" => p = Bottom(a) + 1
      /\ a.stage \in {"dispatch", "handler"} => p = Bottom(a)
  BY <1>1, <1>3, <1>4 DEF StackPointer
<1>6. p \in Int /\ p <= e - 5 /\ (ErrorOf(a) # 0 => p <= e - 6)
      /\ (a.stage # "stub" => p <= Base(a)) /\ (a.stage \notin {"stub", "common"} => p <= Ctx(a) - 2)
  BY <1>2, <1>3, <1>5
<1>7. PushedByCpu(mem2, a)
  <2>1. e - 2 \in 0 .. StackTop /\ e - 3 \in 0 .. StackTop /\ e - 4 \in 0 .. StackTop /\ e - 5 \in 0 .. StackTop /\ e - 6 \in 0 .. StackTop
    BY <1>2
  <2>2. e - 2 >= p /\ e - 3 >= p /\ e - 4 >= p /\ e - 5 >= p /\ (ErrorOf(a) # 0 => e - 6 >= p)
    BY <1>2, <1>6
  <2>3. PushedByCpu(mem, a)
    BY DEF Frame
  <2> QED BY <1>1, <1>4, <2>1, <2>2, <2>3 DEF PushedByCpu
<1>8. ASSUME a.stage # "stub" PROVE PushedByStub(mem2, a)
  <2>1. Base(a) \in 0 .. StackTop /\ Base(a) + 1 \in 0 .. StackTop /\ Base(a) >= p /\ Base(a) + 1 >= p
    BY <1>2, <1>6, <1>8
  <2>2. PushedByStub(mem, a)
    BY <1>8 DEF Frame
  <2> QED BY <1>4, <2>1, <2>2 DEF PushedByStub
<1>9. ASSUME a.stage \notin {"stub", "common"} PROVE PushedByCommon(mem2, a)
  <2>1. PICK ctx : ctx = Ctx(a)
    OBVIOUS
  <2>2. ctx \in Int /\ ctx - 2 >= p /\ ctx \in 4 .. StackTop - 16
    BY <1>2, <1>6, <1>9, <2>1
  <2>3. PushedByCommon(mem, a)
    BY <1>9 DEF Frame
  <2>4. ASSUME NEW i \in 1 .. 16 PROVE mem2[ctx + i - 1] = mem[ctx + i - 1]
    <3>1. ctx + i - 1 \in 0 .. StackTop /\ ctx + i - 1 >= p
      BY <1>2, <1>6, <2>2
    <3> QED BY <1>4, <3>1
  <2>5. mem2[ctx - 1] = mem[ctx - 1] /\ mem2[ctx - 2] = mem[ctx - 2]
    <3>1. ctx - 1 \in 0 .. StackTop /\ ctx - 1 >= p /\ ctx - 2 \in 0 .. StackTop
      BY <1>2, <1>6, <2>2
    <3> QED BY <1>4, <2>2, <3>1
  <2> QED BY <2>1, <2>3, <2>4, <2>5 DEF PushedByCommon
<1> QED BY <1>7, <1>8, <1>9 DEF Frame

\* The frames below which the stack pointer is.
LEMMA Outer ==
    ASSUME IInv, NEW k \in DOMAIN active, NEW a, a = active[k]
    PROVE  /\ a \in Activations /\ Frame(cpu.mem, a) /\ a.was.regs["rsp"] \in 28 .. StackTop
           /\ a.was.regs["rsp"] \in StackTop - 1 - 28 * (k - 1) .. StackTop
           /\ k > 1 => a.was.regs["rsp"] = Bottom(active[k - 1])
           /\ \A j \in 1 .. k - 1 : a.was.regs["rsp"] <= Bottom(active[j])
           /\ k < Len(active) => StackPointer(a) = Bottom(a) /\ a.stage = "handler"
           /\ k \in 1 .. Len(active) /\ Len(active) \in Nat
PROOF
<1>1. active \in Seq(Activations)
  BY DEF IInv, Nesting
<1>2. PICK n \in Nat : n = Len(active)
  BY <1>1, LenProperties
<1>3. a \in Activations /\ k \in 1 .. n
  BY <1>1, <1>2
<1>4. /\ Frame(cpu.mem, a)
      /\ a.was.regs["rsp"] \in StackTop - 1 - 28 * (k - 1) .. StackTop
      /\ k > 1 => a.was.regs["rsp"] = Bottom(active[k - 1])
      /\ \A j \in 1 .. k - 1 : a.was.regs["rsp"] <= Bottom(active[j])
  BY DEF IInv, Stack
<1>5. k < n => a.stage = "handler"
  BY <1>2 DEF IInv, Nesting
<1>6. a.stage = "handler" => StackPointer(a) = Bottom(a)
  BY DEF StackPointer
<1>7. a.was.regs["rsp"] \in 28 .. StackTop
  <2>1. traps \in 0 .. MaxTraps /\ n <= traps + 1
    BY <1>2 DEF IInv, Control
  <2>2. MaxTraps \in Nat /\ StackTop \in Nat /\ StackTop > 28 * (MaxTraps + 1) /\ k <= MaxTraps + 1
    BY <2>1, <1>3, InterruptsAssumption
  <2>3. StackTop - 1 - 28 * (k - 1) >= 28
    BY <1>3, <2>2
  <2>4. a.was.regs["rsp"] \in Int
    BY <1>3, FrameShape
  <2> QED BY <1>3, <1>4, <2>2, <2>3, <2>4
<1> QED BY <1>2, <1>3, <1>4, <1>5, <1>6, <1>7

(* ---- every step keeps the invariant, part by part ---- *)

\* The kinds of step.
LEMMA Kinds ==
    ASSUME [Next]_vars
    PROVE  \/ Boot \/ Driver \/ Service \/ raise \/ UNCHANGED vars
           \/ interrupt \/ spurious_interrupt \/ Trap \/ EarlyTrap
PROOF
  BY DEF Next, Environment, Trap, EarlyTrap

\* How many interrupts are being served after a delivery, and what the others are.
LEMMA Appended ==
    ASSUME IInv, NEW b, active' = Append(active, b), b \in Activations, NEW n, n = Len(active)
    PROVE  /\ active' \in Seq(Activations) /\ n \in Nat /\ Len(active') = n + 1 /\ active'[n + 1] = b
           /\ \A k \in 1 .. n : active'[k] = active[k]
           /\ DOMAIN active' = 1 .. n + 1 /\ DOMAIN active = 1 .. n /\ Last(active') = b /\ active' # <<>>
PROOF
<1>1. active \in Seq(Activations)
  BY DEF IInv, Nesting
<1>2. n \in Nat /\ DOMAIN active = 1 .. n
  BY <1>1, LenProperties
<1>3. active' \in Seq(Activations) /\ Len(active') = n + 1 /\ active'[n + 1] = b /\ \A k \in 1 .. n : active'[k] = active[k]
  BY <1>1, AppendProperties
<1>4. DOMAIN active' = 1 .. n + 1 /\ active' # <<>>
  BY <1>2, <1>3, LenProperties
<1>5. Last(active') = b
  BY <1>3 DEF Last
<1> QED BY <1>2, <1>3, <1>4, <1>5

\* A delivery, with all that is known of it.
LEMMA Entering ==
    ASSUME IInv, interrupt \/ spurious_interrupt \/ Trap
    PROVE  \E v \in Vectors, irq \in 0 .. 15, cause \in {"interrupt", "spurious", "exception"}, b \in Activations :
             /\ Deliver(v, cause, irq) /\ halted = "no" /\ halted' = "no" /\ active' = Append(active, b)
             /\ b = [vector |-> v, cause |-> cause, irq |-> irq, early |-> pc = "boot",
                     was |-> [regs |-> cpu.regs, rip |-> cpu.rip, if |-> cpu.if], stage |-> "stub", todo |-> <<>>]
             /\ IF cause = "exception" THEN v \in Exceptions
                ELSE active = <<>> /\ pc # "sti" /\ (pc \notin Booting => v = Vector(irq))
PROOF
<1>1. halted = "no" /\ pc \notin PreIdt
  BY Entered
<1>2. PICK v \in Vectors, irq \in 0 .. 15, cause \in {"interrupt", "spurious", "exception"} :
        /\ Deliver(v, cause, irq)
        /\ IF cause = "exception" THEN v \in Exceptions
           ELSE active = <<>> /\ pc # "sti" /\ (pc \notin Booting => v = Vector(irq))
  BY Entered
<1>3. PICK b : b = [vector |-> v, cause |-> cause, irq |-> irq, early |-> pc = "boot",
                     was |-> [regs |-> cpu.regs, rip |-> cpu.rip, if |-> cpu.if], stage |-> "stub", todo |-> <<>>]
  OBVIOUS
<1>4. halted' = "no" /\ active' = Append(active, b)
  BY <1>1, <1>2, <1>3, Delivered DEF IInv
<1>5. b \in Activations
  <2>1. cpu \in Machines
    BY DEF IInv, Stack
  <2>2. [regs |-> cpu.regs, rip |-> cpu.rip, if |-> cpu.if] \in [regs : [Regs -> Int], rip : SUBSET Nat, if : {0, 1}]
    BY <2>1 DEF Machines
  <2>3. <<>> \in Seq(Commands) /\ (pc = "boot") \in BOOLEAN
    OBVIOUS
  <2> QED BY <1>3, <2>2, <2>3 DEF Activations, Early
<1> QED BY <1>1, <1>2, <1>3, <1>4, <1>5

\* The descriptor tables, at every step.
LEMMA TablesStep ==
    ASSUME IInv, [Next]_vars, ~EarlyTrap
    PROVE  Tables'
PROOF
<1>1. CASE Boot
  <2>1. halted' # "reset"
    BY <1>1, KernelStep
  <2>2. CASE gdt_init
    <3>1. PICK tss : tss = set_tss_desc(g_tss, BitsOf(103))
      OBVIOUS
    <3>2. IsBusyTss(ltr(tss.low)) /\ TssBase(ltr(tss.low), tss.high) = g_tss
      BY <3>1, Tss, InterruptsAssumption
    <3>3. IsCode64(make_code64_desc)
      BY DEF IsCode64, make_code64_desc, make_desc, Low, Shr, Shl
    <3>4. gdt' = [i \in 0 .. 4 |-> CASE i = KERNEL_DS_IDX -> make_data_desc
                   [] i = KERNEL_CS_IDX -> make_code64_desc
                   [] i = KERNEL_TSS_IDX -> ltr(tss.low)
                   [] i = KERNEL_TSS_IDX + 1 -> tss.high
                   [] OTHER -> {}]
      BY <2>2, <3>1 DEF gdt_init
    <3>5. gdt'[2] = make_code64_desc /\ gdt'[3] = ltr(tss.low) /\ gdt'[4] = tss.high /\ 0 \in DOMAIN gdt'
      BY <3>4 DEF KERNEL_DS_IDX, KERNEL_CS_IDX, KERNEL_TSS_IDX
    <3>6. gdt' # <<>>
      <4>1. 0 \notin DOMAIN <<>>
        OBVIOUS
      <4> QED BY <3>5, <4>1
    <3>7. pc' = "handlers"
      BY <2>2 DEF gdt_init, Goto
    <3> QED BY <2>1, <3>2, <3>3, <3>5, <3>6, <3>7 DEF Tables, PreIdt, KERNEL_CS_IDX, KERNEL_TSS_IDX
  <2>3. CASE init_vectors
    <3>1. gdt' = gdt /\ pc # "gdt_init" /\ pc' # "gdt_init"
      BY <2>3 DEF init_vectors, intr_init_all_vectors, At, Goto
    <3>2. pc' \notin PreIdt => \A v \in Vectors : idt'[v] = idt_set_gate(Stub(v), CS, 14)
      BY <2>3 DEF init_vectors, intr_init_all_vectors, At, Goto, IInv, Tables, PreIdt, CS
    <3>3. pc' = "gates" => \A v \in Vectors : idt'[v] = NoGate
      BY <2>3 DEF init_vectors, intr_init_all_vectors, At, Goto
    <3> QED BY <2>1, <3>1, <3>2, <3>3 DEF IInv, Tables
  <2>4. CASE pic_init_write
    <3>1. gdt' = gdt /\ idt' = idt /\ pc = "boot" /\ pc' \in {"boot", "run"}
      BY <2>4 DEF pic_init_write, tables, At, Goto
    <3> QED BY <2>1, <3>1 DEF IInv, Tables, PreIdt
  <2> QED BY <1>1, <2>2, <2>3, <2>4 DEF Boot
<1>2. CASE Driver
  <2>1. halted' # "reset"
    BY <1>2, KernelStep
  <2> QED BY <1>2, <2>1, DriverStep DEF IInv, Tables, PreIdt, Calling
<1>3. CASE Service
  <2>1. pc' = pc /\ gdt' = gdt /\ idt' = idt
    BY <1>3, ServiceStep DEF kernel, tables
  <2>2. halted' # "reset"
    <3>1. PICK a : a = Last(active)
      OBVIOUS
    <3>2. PICK n : n = Len(active)
      OBVIOUS
    <3>3. halted = "no" /\ (halted' = halted \/ halted' = "unhandled")
      BY <1>3, <3>1, <3>2, Progress, ServiceStep
    <3> QED BY <3>3
  <2> QED BY <2>1, <2>2 DEF IInv, Tables
<1>4. CASE raise \/ UNCHANGED vars
  BY <1>4 DEF raise, vars, kernel, tables, IInv, Tables
<1>5. CASE interrupt \/ spurious_interrupt \/ Trap
  <2>1. pc' = pc /\ gdt' = gdt /\ idt' = idt
    BY <1>5, Entered DEF kernel, tables
  <2>2. halted' = "no"
    BY <1>5, Entering
  <2> QED BY <2>1, <2>2 DEF IInv, Tables
<1> QED BY <1>1, <1>2, <1>3, <1>4, <1>5, Kinds

\* A delivery seen from the interrupt b that it starts: where b's frame is and what is in it.
LEMMA Arrival ==
    ASSUME IInv, interrupt \/ spurious_interrupt \/ Trap, NEW n, n = Len(active)
    PROVE  \E b \in Activations :
             /\ active' = Append(active, b) /\ halted = "no" /\ halted' = "no" /\ n \in Nat /\ n <= MaxTraps
             /\ b.stage = "stub" /\ b.todo = <<>> /\ (b.early <=> pc = "boot") /\ b.was.regs = cpu.regs /\ b.was.if = cpu.if
             /\ IF b.cause = "exception" THEN b.vector \in Exceptions
                ELSE active = <<>> /\ pc # "sti" /\ (pc \notin Booting => b.vector = Vector(b.irq))
             /\ cpu' \in Machines /\ cpu'.if = 0 /\ cpu'.rip = Stub(b.vector) /\ cpu'.regs["rsp"] = StackPointer(b)
             /\ \A r \in Regs \ {"rsp"} : cpu'.regs[r] = b.was.regs[r]
             /\ \A i \in 0 .. StackTop : i >= cpu.regs["rsp"] => cpu'.mem[i] = cpu.mem[i]
             /\ Frame(cpu'.mem, b)
             /\ b.was.regs["rsp"] \in StackTop - 1 - 28 * n .. StackTop
             /\ active # <<>> => b.was.regs["rsp"] = Bottom(active[n])
PROOF
<1>1. halted = "no" /\ pc \notin PreIdt /\ (active # <<>> => Last(active).stage = "handler")
  BY Entered
<1>2. n \in Nat /\ n <= MaxTraps
  <2>1. active \in Seq(Activations) /\ traps \in 0 .. MaxTraps /\ n <= traps + 1 /\ MaxTraps \in Nat
    BY InterruptsAssumption DEF IInv, Nesting, Control
  <2>2. n \in Nat
    BY <2>1, LenProperties
  <2>3. CASE active = <<>>
    BY <2>1, <2>3
  <2>4. CASE active # <<>>
    <3>1. traps < MaxTraps
      BY <2>4, Entered
    <3> QED BY <2>1, <2>2, <3>1
  <2> QED BY <2>2, <2>3, <2>4
<1>3. PICK v \in Vectors, irq \in 0 .. 15, cause \in {"interrupt", "spurious", "exception"}, b \in Activations :
        /\ Deliver(v, cause, irq) /\ halted = "no" /\ halted' = "no" /\ active' = Append(active, b)
        /\ b = [vector |-> v, cause |-> cause, irq |-> irq, early |-> pc = "boot",
                was |-> [regs |-> cpu.regs, rip |-> cpu.rip, if |-> cpu.if], stage |-> "stub", todo |-> <<>>]
        /\ IF cause = "exception" THEN v \in Exceptions
           ELSE active = <<>> /\ pc # "sti" /\ (pc \notin Booting => v = Vector(irq))
  BY Entering
<1>4. /\ b.vector = v /\ b.cause = cause /\ b.irq = irq /\ (b.early <=> pc = "boot") /\ b.was.regs = cpu.regs /\ b.was.if = cpu.if
      /\ b.stage = "stub" /\ b.todo = <<>>
  BY <1>3
<1>5. /\ cpu.regs["rsp"] \in StackTop - 1 - 28 * n .. StackTop /\ cpu.regs["rsp"] \in 28 .. StackTop
      /\ active # <<>> => cpu.regs["rsp"] = Bottom(active[n])
  BY <1>1, <1>2, Room
<1>6. PICK sp : sp = cpu.regs["rsp"]
  OBVIOUS
<1>7. PICK e : e = sp - (sp % 2)
  OBVIOUS
<1>8. PICK w : w = IF cause = "exception" /\ v \in ErrorVectors THEN 6 ELSE 5
  OBVIOUS
<1>9. /\ cpu' \in Machines /\ cpu'.if = 0 /\ cpu'.rip = Stub(v)
      /\ cpu'.regs["rsp"] = e - w /\ \A r \in Regs \ {"rsp"} : cpu'.regs[r] = cpu.regs[r]
      /\ \A a \in 0 .. StackTop : a >= sp => cpu'.mem[a] = cpu.mem[a]
      /\ cpu'.mem[e - 2] = sp /\ cpu'.mem[e - 3] = cpu.if /\ cpu'.mem[e - 4] = CS /\ cpu'.mem[e - 5] = 1
      /\ w = 6 => cpu'.mem[e - 6] = ErrorCode
  <2>1. Deliver(v, cause, irq) /\ sp \in 28 .. StackTop
    BY <1>3, <1>5, <1>6
  <2> QED BY <1>1, <1>6, <1>7, <1>8, <2>1, EnterFrame
<1>10. Entry(b) = e /\ b.was.regs["rsp"] = sp
  BY <1>4, <1>6, <1>7 DEF Entry
<1>11. /\ ErrorOf(b) = IF w = 6 THEN ErrorCode ELSE 0
       /\ ErrorOf(b) = 0 <=> w = 5
  BY <1>4, <1>8 DEF ErrorOf, ErrorCode
<1>12. StackPointer(b) = e - w
  BY <1>4, <1>8, <1>10, <1>11 DEF StackPointer
<1>13. PushedByCpu(cpu'.mem, b)
  BY <1>4, <1>8, <1>9, <1>10, <1>11 DEF PushedByCpu
<1>14. Frame(cpu'.mem, b)
  BY <1>4, <1>13 DEF Frame
<1>15. IF b.cause = "exception" THEN b.vector \in Exceptions
       ELSE active = <<>> /\ pc # "sti" /\ (pc \notin Booting => b.vector = Vector(b.irq))
  BY <1>3, <1>4
<1>16. /\ cpu'.rip = Stub(b.vector) /\ cpu'.regs["rsp"] = StackPointer(b)
       /\ \A r \in Regs \ {"rsp"} : cpu'.regs[r] = b.was.regs[r]
  BY <1>4, <1>9, <1>12
<1>17. \A i \in 0 .. StackTop : i >= cpu.regs["rsp"] => cpu'.mem[i] = cpu.mem[i]
  BY <1>6, <1>9
<1>18. /\ b.was.regs["rsp"] \in StackTop - 1 - 28 * n .. StackTop
       /\ active # <<>> => b.was.regs["rsp"] = Bottom(active[n])
  BY <1>5, <1>6, <1>10
<1> QED BY <1>2, <1>3, <1>4, <1>9, <1>14, <1>15, <1>16, <1>17, <1>18

\* kernelMain, the counts and where it may be interrupted.
LEMMA ControlStep ==
    ASSUME IInv, [Next]_vars, ~EarlyTrap
    PROVE  Control'
PROOF
<1>1. CASE Boot
  <2>1. active = <<>> /\ active' = <<>> /\ halted' = "no" /\ traps' = traps /\ (pc # "sti" => cpu' = cpu)
    BY <1>1, KernelStep DEF bounds
  <2>2. traps' \in 0 .. MaxTraps /\ Len(active') <= traps' + 1
    <3>1. traps \in 0 .. MaxTraps /\ Len(active) <= traps + 1
      BY DEF IInv, Control
    <3> QED BY <2>1, <3>1
  <2>3. CASE gdt_init \/ init_vectors
    <3>1. step' = step /\ attached' = attached /\ line' = line
      BY <2>3 DEF gdt_init, init_vectors
    <3>2. /\ pc \in PreIdt \cup {"sti"} /\ pc' \in PreIdt \cup {"sti", "boot"} /\ (pc = "sti" <=> pc' = "boot")
      BY <2>3 DEF gdt_init, init_vectors, intr_init_all_vectors, At, Goto, PreIdt
    <3>3. step = 0 /\ cpu.if = 0 /\ attached \subseteq Devices /\ line \in 0 .. 15
      BY <3>2 DEF IInv, Control
    <3> QED BY <2>1, <2>2, <3>1, <3>2, <3>3 DEF Control, PreIdt, Booting, Calling
  <2>4. CASE pic_init_write
    <3>1. Len(pic_init) = 10
      BY DEF pic_init
    <3>2. /\ pc = "boot" /\ step' = step + 1 /\ step < 10 /\ attached' = attached /\ line' = line
          /\ IF step' = 10 THEN pc' = "run" ELSE pc' = pc
      BY <2>4, <3>1 DEF pic_init_write, At, Goto
    <3>3. step \in 0 .. 10 /\ attached \subseteq Devices /\ line \in 0 .. 15
      BY DEF IInv, Control
    <3> QED BY <2>1, <2>2, <3>2, <3>3 DEF Control, PreIdt, Booting, Calling
  <2> QED BY <1>1, <2>3, <2>4 DEF Boot
<1>2. CASE Driver
  <2>1. active' = <<>> /\ halted' = "no" /\ traps' = traps
    BY <1>2, KernelStep DEF bounds
  <2>2. traps' \in 0 .. MaxTraps /\ Len(active') <= traps' + 1
    <3>1. traps \in 0 .. MaxTraps
      BY DEF IInv, Control
    <3> QED BY <2>1, <3>1
  <2>3. pc \in {"run"} \cup Calling /\ pc' \in {"run"} \cup Calling /\ step' = step
    BY <1>2, DriverStep
  <2>4. step = 10 /\ attached \subseteq Devices /\ line \in 0 .. 15 /\ (pc \in Calling => line \in Devices)
    BY <2>3 DEF IInv, Control, PreIdt, Booting, Calling
  <2>5. \A d \in Devices : d \in 0 .. 15
    BY InterruptsAssumption
  <2>6. attached' \subseteq Devices /\ line' \in 0 .. 15 /\ (pc' \in Calling => line' \in Devices)
    <3>1. CASE attach \/ detach
      BY <3>1, <2>4, <2>5 DEF attach, detach
    <3>2. CASE clear_read \/ clear_write \/ set_read \/ set_write \/ unregister
      BY <3>2, <2>4 DEF clear_read, clear_write, set_read, set_write, unregister, At, Calling
    <3>3. CASE register_trap
      BY <3>3, <2>4 DEF register_trap, kernel
    <3> QED BY <1>2, <3>1, <3>2, <3>3 DEF Driver
  <2> QED BY <2>1, <2>2, <2>3, <2>4, <2>6 DEF Control, PreIdt, Booting, Calling
<1>3. CASE Service
  <2>1. active # <<>> /\ halted = "no" /\ kernel' = kernel /\ traps' = traps
    BY <1>3, ServiceStep DEF bounds
  <2>2. PICK a : a = Last(active)
    OBVIOUS
  <2>3. PICK n : n = Len(active)
    OBVIOUS
  <2>4. n \in Nat /\ n >= 1 /\ a = active[n] /\ (halted' = halted \/ halted' = "unhandled") /\ (Len(active') = n \/ active' = Front(active))
    BY <1>3, <2>2, <2>3, Progress
  <2>5. Len(active') <= n /\ Len(active') \in Int
    <3>1. Len(Front(active)) = n - 1
      BY <2>1, <2>3, FrontOf DEF IInv, Nesting
    <3> QED BY <2>4, <3>1
  <2>6. pc = "sti" => cpu'.if = 0
    <3>1. SUFFICES ASSUME pc = "sti" PROVE cpu'.if = 0
      OBVIOUS
    <3>2. a.stage \in Early /\ cpu.if = 0
      <4>1. n \in DOMAIN active
        BY <2>3, <2>4, LenProperties DEF IInv, Nesting
      <4> QED BY <2>1, <2>4, <3>1, <4>1 DEF IInv, Nesting, Booting
    <3>3. isr_stub \/ isr_common_save \/ intr_dispatch_entry
      BY <1>3, <2>2, <3>2 DEF Service, handler_eoi, handler_return, isr_common_restore, In, Early
    <3>4. CASE isr_stub
      BY <2>2, <3>4, StubEffect
    <3>5. CASE isr_common_save
      BY <2>2, <3>5, CommonEffect
    <3>6. CASE intr_dispatch_entry
      BY <3>2, <3>6 DEF intr_dispatch_entry
    <3> QED BY <3>3, <3>4, <3>5, <3>6
  <2>7. pc \notin PreIdt
    BY <2>1 DEF IInv, Control
  <2> QED BY <2>1, <2>3, <2>4, <2>5, <2>6, <2>7 DEF IInv, Control, kernel
<1>4. CASE raise \/ UNCHANGED vars
  BY <1>4 DEF raise, vars, kernel, bounds, IInv, Control
<1>5. CASE interrupt \/ spurious_interrupt \/ Trap
  <2>1. PICK n : n = Len(active)
    OBVIOUS
  <2>2. PICK b \in Activations : active' = Append(active, b) /\ halted' = "no" /\ cpu'.if = 0
    BY <1>5, <2>1, Arrival
  <2>3. Len(active') = n + 1 /\ n \in Nat
    BY <2>1, <2>2, Appended
  <2>4. traps' \in 0 .. MaxTraps /\ Len(active') <= traps' + 1
    <3>1. \/ active = <<>> /\ traps' = traps
          \/ traps < MaxTraps /\ traps' = traps + 1
      BY <1>5, Entered
    <3>2. traps \in 0 .. MaxTraps /\ n <= traps + 1 /\ (active = <<>> => n = 0) /\ MaxTraps \in Nat
      BY <2>1, InterruptsAssumption DEF IInv, Control
    <3> QED BY <2>3, <3>1, <3>2
  <2>5. kernel' = kernel /\ pc \notin PreIdt
    BY <1>5, Entered
  <2> QED BY <2>2, <2>4, <2>5 DEF IInv, Control, kernel
<1> QED BY <1>1, <1>2, <1>3, <1>4, <1>5, Kinds

\* What one interrupt must satisfy, at depth k of n, while kernelMain is at p.
NestedAt(a, k, n, p) ==
    /\ a.early <=> p = "boot"
    /\ a.was.if = 1 => k = 1 /\ p # "sti"
    /\ k < n => a.stage = "handler"
    /\ IF a.cause = "exception" THEN a.vector \in Exceptions /\ a.todo = <<>>
       ELSE k = 1 /\ p \notin PreIdt \cup {"sti"} /\ (~a.early => a.vector = Vector(a.irq))
    /\ p \in Booting => a.stage \in Early

\* Nesting, one interrupt at a time.
LEMMA NestedBy ==
    Nesting <=> /\ active \in Seq(Activations)
                /\ active # <<>> => cpu.if = 0
                /\ \A k \in DOMAIN active : NestedAt(active[k], k, Len(active), pc)
PROOF
  BY DEF Nesting, NestedAt

\* The nesting of the interrupts, while one starts, moves on or ends.
LEMMA NestingStep ==
    ASSUME IInv, [Next]_vars, ~EarlyTrap
    PROVE  Nesting'
PROOF
<1>0. Nesting' <=> /\ active' \in Seq(Activations)
                   /\ active' # <<>> => cpu'.if = 0
                   /\ \A k \in DOMAIN active' : NestedAt(active'[k], k, Len(active'), pc')
  BY DEF Nesting, NestedAt
<1>1. /\ active \in Seq(Activations)
      /\ active # <<>> => cpu.if = 0
      /\ \A k \in DOMAIN active : NestedAt(active[k], k, Len(active), pc)
  BY NestedBy DEF IInv
<1>2. CASE Boot \/ Driver
  <2>1. active' = <<>>
    BY <1>2, KernelStep
  <2> QED BY <2>1, <1>0
<1>3. CASE raise \/ UNCHANGED vars
  BY <1>0, <1>1, <1>3 DEF raise, vars, kernel
<1>4. CASE interrupt \/ spurious_interrupt \/ Trap
  <2>1. PICK n : n = Len(active)
    OBVIOUS
  <2>2. PICK b \in Activations :
          /\ active' = Append(active, b) /\ cpu'.if = 0 /\ n \in Nat
          /\ b.stage = "stub" /\ b.todo = <<>> /\ (b.early <=> pc = "boot") /\ b.was.if = cpu.if
          /\ IF b.cause = "exception" THEN b.vector \in Exceptions
             ELSE active = <<>> /\ pc # "sti" /\ (pc \notin Booting => b.vector = Vector(b.irq))
    BY <1>4, <2>1, Arrival
  <2>3. /\ active' \in Seq(Activations) /\ Len(active') = n + 1 /\ active'[n + 1] = b
        /\ \A k \in 1 .. n : active'[k] = active[k]
        /\ DOMAIN active' = 1 .. n + 1 /\ DOMAIN active = 1 .. n /\ Last(active') = b /\ active' # <<>>
    BY <2>1, <2>2, Appended
  <2>4. pc' = pc /\ pc \notin PreIdt /\ (active # <<>> => Last(active).stage = "handler")
    BY <1>4, Entered DEF kernel
  <2>5. active = <<>> <=> n = 0
    BY <1>1, <2>1, <2>2
  <2>6. NestedAt(b, n + 1, n + 1, pc)
    <3>1. b.was.if = 1 => n + 1 = 1 /\ pc # "sti"
      BY <1>1, <2>2, <2>5 DEF IInv, Control
    <3>2. b.cause # "exception" => n + 1 = 1
      BY <2>2, <2>5
    <3>3. pc = "boot" \/ pc \notin Booting \/ pc = "sti"
      BY <2>4 DEF Booting
    <3> QED BY <2>2, <2>4, <3>1, <3>2, <3>3 DEF NestedAt, Early
  <2>7. ASSUME NEW k \in 1 .. n PROVE NestedAt(active[k], k, n + 1, pc)
    <3>1. NestedAt(active[k], k, n, pc)
      BY <1>1, <2>1, <2>3
    <3>2. active[k].stage = "handler"
      <4>1. CASE k < n
        BY <3>1, <4>1 DEF NestedAt
      <4>2. CASE k = n
        <5>1. active # <<>> /\ Last(active) = active[n]
          BY <2>1, <2>2, <2>5, <4>2 DEF Last
        <5> QED BY <2>4, <4>2, <5>1
      <4>3. n \in Nat
        BY <2>2
      <4>4. k < n \/ k = n
        BY <4>3
      <4> QED BY <4>1, <4>2, <4>4
    <3> QED BY <3>1, <3>2 DEF NestedAt
  <2>8. \A k \in DOMAIN active' : NestedAt(active'[k], k, n + 1, pc)
    <3>1. ASSUME NEW k \in 1 .. n + 1 PROVE NestedAt(active'[k], k, n + 1, pc)
      <4>1. CASE k \in 1 .. n
        BY <2>3, <2>7, <4>1
      <4>2. CASE k = n + 1
        BY <2>3, <2>6, <4>2
      <4>3. n \in Nat
        BY <2>2
      <4>4. k \in 1 .. n \/ k = n + 1
        BY <4>3
      <4> QED BY <4>1, <4>2, <4>4
    <3> QED BY <2>3, <3>1
  <2> QED BY <1>0, <2>2, <2>3, <2>4, <2>8
<1>5. CASE Service
  <2>1. active # <<>> /\ pc' = pc
    BY <1>5, ServiceStep DEF kernel
  <2>2. PICK a : a = Last(active)
    OBVIOUS
  <2>3. PICK n : n = Len(active)
    OBVIOUS
  <2>4. /\ n \in Nat /\ n >= 1 /\ a = active[n] /\ a \in Activations /\ n \in DOMAIN active /\ DOMAIN active = 1 .. n
        /\ NestedAt(a, n, n, pc)
    <3>1. n \in Nat /\ n >= 1 /\ a = active[n] /\ a \in Activations
      BY <1>5, <2>2, <2>3, Progress
    <3> QED BY <1>1, <2>3, <3>1
  <2>5. CASE isr_common_restore
    <3>1. active' = Front(active) /\ a.stage = "restore"
      BY <2>2, <2>5 DEF isr_common_restore, In
    <3>2. active' \in Seq(Activations) /\ Len(active') = n - 1 /\ \A i \in 1 .. n - 1 : active'[i] = active[i]
      BY <1>1, <2>1, <2>3, <3>1, FrontOf
    <3>3. cpu'.if = a.was.if
      BY <2>2, <2>5, RestoreEffect
    <3>4. active' # <<>> => cpu'.if = 0
      <4>1. SUFFICES ASSUME active' # <<>> PROVE cpu'.if = 0
        OBVIOUS
      <4>2. n - 1 # 0
        BY <3>2, <4>1
      <4>3. a.was.if \in {0, 1} /\ a.was.if # 1
        BY <2>4, <4>2 DEF NestedAt, Activations
      <4> QED BY <3>3, <4>3
    <3>5. ASSUME NEW k \in 1 .. n - 1 PROVE NestedAt(active'[k], k, n - 1, pc)
      <4>1. NestedAt(active[k], k, n, pc)
        BY <1>1, <2>3, <2>4
      <4> QED BY <2>4, <3>2, <4>1 DEF NestedAt
    <3>6. DOMAIN active' = 1 .. n - 1
      BY <3>2, LenProperties
    <3> QED BY <1>0, <2>1, <3>2, <3>4, <3>5, <3>6
  <2>6. CASE ~isr_common_restore
    <3>1. PICK b : b = active'[n]
      OBVIOUS
    <3>2. /\ active' \in Seq(Activations) /\ Len(active') = n /\ \A k \in 1 .. n - 1 : active'[k] = active[k]
          /\ b.vector = a.vector /\ b.cause = a.cause /\ b.irq = a.irq /\ b.early = a.early /\ b.was = a.was
          /\ a.cause = "exception" /\ a.todo = <<>> => b.todo = <<>>
          /\ \/ a.stage = "stub" /\ b.stage = "common"
             \/ a.stage = "common" /\ b.stage = "dispatch"
             \/ a.stage = "dispatch" /\ b = a
             \/ a.stage = "dispatch" /\ g_handlers[a.vector] = "driver"
             \/ a.stage = "handler"
      BY <1>5, <2>2, <2>3, <2>6, <3>1, Progress
    <3>3. pc \in Booting => b.stage \in Early
      <4>1. SUFFICES ASSUME pc \in Booting PROVE b.stage \in Early
        OBVIOUS
      <4>2. a.stage \in Early /\ a.vector \in Vectors
        BY <2>4, <4>1 DEF NestedAt, Activations
      <4>3. g_handlers[a.vector] # "driver"
        BY <4>1, <4>2 DEF IInv, Masks
      <4> QED BY <3>2, <4>2, <4>3 DEF Early
    <3>4. NestedAt(b, n, n, pc)
      BY <2>4, <3>2, <3>3 DEF NestedAt
    <3>5. cpu'.if = 0
      <4>1. cpu.if = 0
        BY <1>1, <2>1
      <4>2. CASE isr_stub
        BY <2>2, <4>2, StubEffect
      <4>3. CASE isr_common_save
        BY <2>2, <4>3, CommonEffect
      <4>4. CASE handler_return
        BY <4>1, <4>4, ReturnEffect
      <4>5. CASE intr_dispatch_entry \/ handler_eoi
        BY <4>1, <4>5 DEF intr_dispatch_entry, handler_eoi
      <4> QED BY <1>5, <2>6, <4>2, <4>3, <4>4, <4>5 DEF Service
    <3>6. ASSUME NEW k \in 1 .. n PROVE NestedAt(active'[k], k, n, pc)
      <4>1. NestedAt(active[k], k, n, pc)
        BY <1>1, <2>3, <2>4
      <4>2. k = n \/ k \in 1 .. n - 1
        BY <2>4
      <4> QED BY <3>1, <3>2, <3>4, <4>1, <4>2
    <3>7. DOMAIN active' = 1 .. n
      BY <3>2, LenProperties
    <3> QED BY <1>0, <2>1, <3>2, <3>5, <3>6, <3>7
  <2> QED BY <2>5, <2>6
<1> QED BY <1>2, <1>3, <1>4, <1>5, Kinds

\* Where a frame is depends on what was interrupted, by what, and on nothing that changes.
LEMMA SameFrame ==
    ASSUME NEW a, NEW b, b.vector = a.vector, b.cause = a.cause, b.was = a.was
    PROVE  /\ Entry(b) = Entry(a) /\ (Misplaced(b) <=> Misplaced(a)) /\ ErrorOf(b) = ErrorOf(a)
           /\ Base(b) = Base(a) /\ Ctx(b) = Ctx(a) /\ Bottom(b) = Bottom(a)
PROOF
<1>1. Entry(b) = Entry(a) /\ (Misplaced(b) <=> Misplaced(a)) /\ ErrorOf(b) = ErrorOf(a)
  BY DEF Entry, Misplaced, ErrorOf
<1>2. Base(b) = Base(a)
  BY <1>1 DEF Base
<1>3. Ctx(b) = Ctx(a)
  BY <1>2 DEF Ctx
<1>4. Bottom(b) = Bottom(a)
  BY <1>3 DEF Bottom
<1> QED BY <1>1, <1>2, <1>3, <1>4

\* The stack pointer of an interrupt is below what it interrupted.
LEMMA Lower ==
    ASSUME NEW a \in Activations
    PROVE  /\ a.was.regs["rsp"] \in Int /\ StackPointer(a) \in Int /\ Bottom(a) \in Int
           /\ StackPointer(a) <= a.was.regs["rsp"] /\ Bottom(a) <= a.was.regs["rsp"]
PROOF
<1>1. PICK sp : sp = a.was.regs["rsp"]
  OBVIOUS
<1>2. PICK e : e = Entry(a)
  OBVIOUS
<1>3. /\ sp \in Int /\ e \in Int /\ e <= sp
      /\ Misplaced(a) => Base(a) = e - 6 /\ Bottom(a) = e - 25
      /\ ~Misplaced(a) => Base(a) = e - 7 /\ Bottom(a) = e - 27
  BY <1>1, <1>2, FrameShape
<1>4. StackPointer(a) \in {e - 5, e - 6, Base(a), Bottom(a) + 1, Bottom(a)}
  BY <1>2 DEF StackPointer
<1>5. Bottom(a) \in Int /\ Bottom(a) <= sp
  BY <1>3
<1>6. StackPointer(a) \in Int /\ StackPointer(a) <= sp
  BY <1>3, <1>4
<1> QED BY <1>1, <1>3, <1>5, <1>6

\* What is served outside the innermost interrupt keeps its frame while the stack from
\* where that one started upwards is left alone.
LEMMA OuterKept ==
    ASSUME IInv, active # <<>>, NEW n, n = Len(active), NEW mem2,
           \A b \in 0 .. StackTop : b >= active[n].was.regs["rsp"] => mem2[b] = cpu.mem[b]
    PROVE  \A k \in 1 .. n - 1 : Frame(mem2, active[k])
PROOF
<1>1. n \in Nat /\ n >= 1 /\ DOMAIN active = 1 .. n
  BY FrontOf, LenProperties DEF IInv, Nesting
<1>2. PICK w : w = active[n].was.regs["rsp"]
  OBVIOUS
<1>3. w \in Int /\ \A j \in 1 .. n - 1 : w <= Bottom(active[j])
  <2>1. n \in DOMAIN active
    BY <1>1
  <2>2. active[n] \in Activations /\ \A j \in 1 .. n - 1 : w <= Bottom(active[j])
    BY <1>2, <2>1, Outer
  <2> QED BY <1>2, <2>2, Lower
<1>4. ASSUME NEW k \in 1 .. n - 1 PROVE Frame(mem2, active[k])
  <2>1. k \in DOMAIN active /\ k < n
    BY <1>1
  <2>2. PICK a : a = active[k]
    OBVIOUS
  <2>3. a \in Activations /\ Frame(cpu.mem, a) /\ a.was.regs["rsp"] \in 28 .. StackTop /\ StackPointer(a) = Bottom(a)
    BY <2>1, <2>2, Outer
  <2>4. w <= StackPointer(a) /\ StackPointer(a) \in Int
    BY <1>3, <2>2, <2>3, Lower
  <2>5. ASSUME NEW b \in 0 .. StackTop, b >= StackPointer(a) PROVE mem2[b] = cpu.mem[b]
    <3>1. b >= w
      BY <1>3, <2>4, <2>5
    <3> QED BY <1>2, <3>1
  <2> QED BY <2>2, <2>3, <2>5, FrameKept
<1> QED BY <1>4

\* The words of an interrupt's frame at its next stage: what was there stays, what the stage
\* pushes is added.
LEMMA FrameGrows ==
    ASSUME IInv, Service, ~isr_common_restore, NEW n, n = Len(active), NEW a, a = active[n], NEW b, b = active'[n]
    PROVE  /\ cpu' \in Machines /\ Frame(cpu'.mem, b) /\ cpu'.regs["rsp"] = StackPointer(b)
           /\ b.stage \in {"stub", "common"} => \A r \in Regs \ {"rsp"} : cpu'.regs[r] = b.was.regs[r]
           /\ b.stage # "stub"
           /\ b.stage = "dispatch" => cpu'.regs["rdi"] = Ctx(b)
           /\ \A i \in 0 .. StackTop : i >= a.was.regs["rsp"] => cpu'.mem[i] = cpu.mem[i]
PROOF
<1>1. active # <<>>
  BY ServiceStep
<1>2. a = Last(active)
  BY DEF Last
<1>3. /\ a \in Activations /\ cpu \in Machines /\ cpu.regs["rsp"] = StackPointer(a)
      /\ a.was.regs["rsp"] \in 28 .. StackTop /\ Frame(cpu.mem, a)
  BY <1>1, <1>2, Innermost
<1>4. /\ b.vector = a.vector /\ b.cause = a.cause /\ b.was = a.was
      /\ \/ a.stage = "stub" /\ b.stage = "common" /\ isr_stub
         \/ a.stage = "common" /\ b.stage = "dispatch" /\ isr_common_save
         \/ a.stage = "dispatch" /\ b = a /\ intr_dispatch_entry
         \/ a.stage = "dispatch" /\ b.stage = "handler" /\ intr_dispatch_entry
         \/ a.stage = "handler" /\ b.stage = "handler" /\ handler_eoi
         \/ a.stage = "handler" /\ b.stage = "restore" /\ handler_return
  BY <1>2, Progress
<1>5. /\ Entry(b) = Entry(a) /\ (Misplaced(b) <=> Misplaced(a)) /\ ErrorOf(b) = ErrorOf(a)
      /\ Base(b) = Base(a) /\ Ctx(b) = Ctx(a) /\ Bottom(b) = Bottom(a)
  BY <1>4, SameFrame
<1>6. ASSUME NEW mem
      PROVE  /\ PushedByCpu(mem, a) => PushedByCpu(mem, b)
             /\ PushedByStub(mem, a) => PushedByStub(mem, b)
             /\ PushedByCommon(mem, a) => PushedByCommon(mem, b)
  <2>1. PushedByCpu(mem, a) => PushedByCpu(mem, b)
    BY <1>4, <1>5 DEF PushedByCpu
  <2>2. PushedByStub(mem, a) => PushedByStub(mem, b)
    BY <1>4, <1>5 DEF PushedByStub
  <2>3. PushedByCommon(mem, a) => PushedByCommon(mem, b)
    BY <1>4, <1>5 DEF PushedByCommon
  <2> QED BY <2>1, <2>2, <2>3
<1>7. StackPointer(a) \in Int /\ StackPointer(a) <= a.was.regs["rsp"] /\ a.was.regs["rsp"] \in Int
  BY <1>3, Lower
<1>8. ASSUME \A i \in 0 .. StackTop : i >= cpu.regs["rsp"] => cpu'.mem[i] = cpu.mem[i]
      PROVE  /\ Frame(cpu'.mem, a)
             /\ \A i \in 0 .. StackTop : i >= a.was.regs["rsp"] => cpu'.mem[i] = cpu.mem[i]
  <2>1. \A i \in 0 .. StackTop : i >= StackPointer(a) => cpu'.mem[i] = cpu.mem[i]
    BY <1>3, <1>8
  <2>2. Frame(cpu'.mem, a)
    BY <1>3, <2>1, FrameKept
  <2>3. ASSUME NEW i \in 0 .. StackTop, i >= a.was.regs["rsp"] PROVE cpu'.mem[i] = cpu.mem[i]
    <3>1. i >= StackPointer(a)
      BY <1>7, <2>3
    <3> QED BY <2>1, <3>1
  <2> QED BY <2>2, <2>3
<1>9. CASE a.stage = "stub" /\ b.stage = "common" /\ isr_stub
  <2>1. /\ cpu' \in Machines /\ cpu'.regs["rsp"] = Base(a)
        /\ \A r \in Regs \ {"rsp"} : cpu'.regs[r] = a.was.regs[r]
        /\ \A i \in 0 .. StackTop : i >= cpu.regs["rsp"] => cpu'.mem[i] = cpu.mem[i]
        /\ cpu'.mem[Base(a)] = a.vector
        /\ ~Misplaced(a) => cpu'.mem[Base(a) + 1] = ErrorOf(a)
    BY <1>2, <1>9, StubEffect
  <2>2. PushedByStub(cpu'.mem, a)
    BY <2>1 DEF PushedByStub
  <2>3. PushedByCpu(cpu'.mem, a)
    BY <1>8, <2>1 DEF Frame
  <2>4. Frame(cpu'.mem, b)
    BY <1>6, <1>9, <2>2, <2>3 DEF Frame
  <2>5. StackPointer(b) = Base(a)
    BY <1>5, <1>9 DEF StackPointer
  <2> QED BY <1>4, <1>8, <1>9, <2>1, <2>4, <2>5
<1>10. CASE a.stage = "common" /\ b.stage = "dispatch" /\ isr_common_save
  <2>1. isr_common_save
    BY <1>10
  <2>2. /\ cpu' \in Machines /\ cpu'.regs["rsp"] = Bottom(a) /\ cpu'.regs["rdi"] = Ctx(a)
        /\ \A i \in 0 .. StackTop : i >= cpu.regs["rsp"] => cpu'.mem[i] = cpu.mem[i]
        /\ PushedByCommon(cpu'.mem, a)
    BY <1>2, <2>1, CommonEffect
  <2>4. PushedByCpu(cpu'.mem, a) /\ PushedByStub(cpu'.mem, a)
    BY <1>8, <1>10, <2>2 DEF Frame
  <2>5. Frame(cpu'.mem, b)
    BY <1>6, <1>10, <2>2, <2>4 DEF Frame
  <2>6. StackPointer(b) = Bottom(a)
    BY <1>5, <1>10 DEF StackPointer
  <2> QED BY <1>5, <1>8, <1>10, <2>2, <2>5, <2>6
<1>11. ASSUME a.stage \notin {"stub", "common"}, b.stage \notin {"stub", "common"}, cpu'.mem = cpu.mem
       PROVE  Frame(cpu'.mem, b)
  <2>1. PushedByCpu(cpu.mem, a) /\ PushedByStub(cpu.mem, a) /\ PushedByCommon(cpu.mem, a)
    BY <1>3, <1>11 DEF Frame
  <2> QED BY <1>6, <1>11, <2>1 DEF Frame
<1>12. CASE a.stage \in {"dispatch", "handler"} /\ b.stage \in {"dispatch", "handler"} /\ (intr_dispatch_entry \/ handler_eoi)
  <2>1. cpu' = cpu
    BY <1>12 DEF intr_dispatch_entry, handler_eoi
  <2>2. Frame(cpu'.mem, b)
    BY <1>11, <1>12, <2>1
  <2>3. StackPointer(b) = Bottom(a) /\ StackPointer(a) = Bottom(a)
    BY <1>5, <1>12 DEF StackPointer
  <2>4. b.stage = "dispatch" => cpu'.regs["rdi"] = Ctx(b)
    <3>1. a.stage = "dispatch" => cpu.regs["rdi"] = Ctx(a)
      BY <1>1, <1>2 DEF IInv, Stack
    <3>2. b.stage = "dispatch" => a.stage = "dispatch"
      BY <1>4, <1>12
    <3> QED BY <1>5, <2>1, <3>1, <3>2
  <2> QED BY <1>3, <1>12, <2>1, <2>2, <2>3, <2>4
<1>13. CASE a.stage = "handler" /\ b.stage = "restore" /\ handler_return
  <2>1. cpu' \in Machines /\ cpu'.mem = cpu.mem /\ cpu'.regs["rsp"] = cpu.regs["rsp"] + 1
    BY <1>13, ReturnEffect
  <2>2. Frame(cpu'.mem, b)
    BY <1>11, <1>13, <2>1
  <2>3. StackPointer(b) = Bottom(a) + 1 /\ StackPointer(a) = Bottom(a)
    BY <1>5, <1>13 DEF StackPointer
  <2> QED BY <1>3, <1>13, <2>1, <2>2, <2>3
<1> QED BY <1>4, <1>9, <1>10, <1>12, <1>13

\* What Stack says of the innermost interrupt a, of the machine m.
TopOf(m, a) ==
    /\ m.regs["rsp"] = StackPointer(a)
    /\ a.stage \in {"stub", "common"} => \A r \in Regs \ {"rsp"} : m.regs[r] = a.was.regs[r]
    /\ a.stage = "stub" => m.rip = Stub(a.vector)
    /\ a.stage = "dispatch" => m.regs["rdi"] = Ctx(a)

\* What it says of the k-th of the interrupts s.
FrameAt(mem, s, k) ==
    /\ s[k].was.regs["rsp"] \in StackTop - 1 - 28 * (k - 1) .. StackTop
    /\ k > 1 => s[k].was.regs["rsp"] = Bottom(s[k - 1])
    /\ \A j \in 1 .. k - 1 : s[k].was.regs["rsp"] <= Bottom(s[j])
    /\ Frame(mem, s[k])

\* The frames on the stack, while one is started, moves on or is dropped.
LEMMA StackStep ==
    ASSUME IInv, [Next]_vars, ~EarlyTrap
    PROVE  Stack'
PROOF
<1>0. Stack' <=> /\ cpu' \in Machines
                 /\ active' = <<>> => cpu'.regs["rsp"] \in {StackTop - 1, StackTop}
                 /\ active' # <<>> => TopOf(cpu', Last(active'))
                 /\ \A k \in DOMAIN active' : FrameAt(cpu'.mem, active', k)
  BY DEF Stack, TopOf, FrameAt
<1>1. /\ cpu \in Machines
      /\ active = <<>> => cpu.regs["rsp"] \in {StackTop - 1, StackTop}
      /\ active # <<>> => TopOf(cpu, Last(active))
      /\ \A k \in DOMAIN active : FrameAt(cpu.mem, active, k)
  BY DEF IInv, Stack, TopOf, FrameAt
<1>2. CASE Boot \/ Driver
  <2>1. active' = <<>> /\ active = <<>> /\ (pc # "sti" => cpu' = cpu)
    BY <1>2, KernelStep
  <2>2. cpu' \in Machines /\ cpu'.regs = cpu.regs
    <3>1. CASE pc # "sti"
      BY <1>1, <2>1, <3>1
    <3>2. CASE pc = "sti"
      <4>1. Boot
        BY <1>2, <3>2, DriverStep DEF Calling
      <4>2. init_vectors
        BY <3>2, <4>1 DEF Boot, gdt_init, pic_init_write, At
      <4>3. cpu' = [cpu EXCEPT !.if = 1]
        BY <3>2, <4>2 DEF init_vectors, intr_init_all_vectors, At
      <4> QED BY <1>1, <4>3 DEF Machines
    <3> QED BY <3>1, <3>2
  <2> QED BY <1>0, <1>1, <2>1, <2>2
<1>3. CASE raise \/ UNCHANGED vars
  <2>1. cpu' = cpu /\ active' = active
    BY <1>3 DEF raise, vars
  <2> QED BY <1>0, <1>1, <2>1
<1>4. CASE interrupt \/ spurious_interrupt \/ Trap
  <2>1. PICK n : n = Len(active)
    OBVIOUS
  <2>2. PICK b \in Activations :
          /\ active' = Append(active, b) /\ n \in Nat
          /\ b.stage = "stub"
          /\ cpu' \in Machines /\ cpu'.rip = Stub(b.vector) /\ cpu'.regs["rsp"] = StackPointer(b) /\ b.was.regs = cpu.regs
          /\ \A r \in Regs \ {"rsp"} : cpu'.regs[r] = b.was.regs[r]
          /\ \A i \in 0 .. StackTop : i >= cpu.regs["rsp"] => cpu'.mem[i] = cpu.mem[i]
          /\ Frame(cpu'.mem, b)
          /\ b.was.regs["rsp"] \in StackTop - 1 - 28 * n .. StackTop
          /\ active # <<>> => b.was.regs["rsp"] = Bottom(active[n])
    BY <1>4, <2>1, Arrival
  <2>3. /\ active' \in Seq(Activations) /\ Len(active') = n + 1 /\ active'[n + 1] = b
        /\ \A k \in 1 .. n : active'[k] = active[k]
        /\ DOMAIN active' = 1 .. n + 1 /\ DOMAIN active = 1 .. n /\ Last(active') = b /\ active' # <<>>
    BY <2>1, <2>2, Appended
  <2>4. active # <<>> => Last(active).stage = "handler"
    BY <1>4, Entered
  <2>5. TopOf(cpu', b)
    BY <2>2 DEF TopOf
  <2>6. ASSUME active # <<>>
        PROVE  /\ n >= 1 /\ active[n] \in Activations /\ b.was.regs["rsp"] = Bottom(active[n])
               /\ StackPointer(active[n]) = Bottom(active[n]) /\ Bottom(active[n]) \in Int
               /\ Bottom(active[n]) <= active[n].was.regs["rsp"] /\ active[n].was.regs["rsp"] \in Int
               /\ cpu.regs["rsp"] = Bottom(active[n])
    <3>1. PICK a : a = active[n]
      OBVIOUS
    <3>2. n >= 1 /\ a \in Activations /\ Last(active) = a
      BY <2>1, <2>6, <3>1, FrontOf DEF IInv, Nesting
    <3>3. a.stage = "handler"
      BY <2>4, <2>6, <3>2
    <3>4. StackPointer(a) = Bottom(a)
      BY <3>3 DEF StackPointer
    <3>5. Bottom(a) \in Int /\ Bottom(a) <= a.was.regs["rsp"] /\ a.was.regs["rsp"] \in Int
      BY <3>2, Lower
    <3>6. b.was.regs["rsp"] = Bottom(a) /\ cpu.regs["rsp"] = Bottom(a)
      BY <2>2, <2>6, <3>1
    <3> QED BY <3>1, <3>2, <3>4, <3>5, <3>6
  <2>7. ASSUME NEW k \in 1 .. n PROVE FrameAt(cpu'.mem, active', k)
    <3>0. n \in Nat /\ active # <<>>
      BY <2>2, <2>3
    <3>1. FrameAt(cpu.mem, active, k)
      BY <1>1, <2>3
    <3>2. Frame(cpu'.mem, active[k])
      <4>1. CASE k = n
        <5>1. PICK a : a = active[n]
          OBVIOUS
        <5>2. a \in Activations /\ StackPointer(a) = cpu.regs["rsp"]
          BY <2>6, <3>0, <5>1
        <5>3. Frame(cpu.mem, a) /\ a.was.regs["rsp"] \in 28 .. StackTop
          <6>1. n \in DOMAIN active
            BY <2>3, <4>1
          <6> QED BY <5>1, <6>1, Outer
        <5>4. \A i \in 0 .. StackTop : i >= StackPointer(a) => cpu'.mem[i] = cpu.mem[i]
          BY <2>2, <5>2
        <5>5. Frame(cpu'.mem, a)
          BY <5>2, <5>3, <5>4, FrameKept
        <5> QED BY <4>1, <5>1, <5>5
      <4>2. CASE k \in 1 .. n - 1
        <5>1. ASSUME NEW i \in 0 .. StackTop, i >= active[n].was.regs["rsp"] PROVE cpu'.mem[i] = cpu.mem[i]
          <6>1. cpu.regs["rsp"] \in Int /\ cpu.regs["rsp"] <= active[n].was.regs["rsp"] /\ active[n].was.regs["rsp"] \in Int
            BY <2>6, <3>0
          <6>2. i >= cpu.regs["rsp"]
            BY <5>1, <6>1
          <6> QED BY <2>2, <6>2
        <5> QED BY <2>1, <3>0, <4>2, <5>1, OuterKept
      <4> QED BY <3>0, <4>1, <4>2
    <3>3. active'[k] = active[k] /\ (k > 1 => active'[k - 1] = active[k - 1]) /\ \A j \in 1 .. k - 1 : active'[j] = active[j]
      BY <2>3, <3>0
    <3> QED BY <3>1, <3>2, <3>3 DEF FrameAt
  <2>8. FrameAt(cpu'.mem, active', n + 1)
    <3>1. n \in Nat /\ (n + 1) - 1 = n
      BY <2>2
    <3>2. n + 1 > 1 => b.was.regs["rsp"] = Bottom(active'[n])
      <4>1. SUFFICES ASSUME n + 1 > 1 PROVE b.was.regs["rsp"] = Bottom(active'[n])
        OBVIOUS
      <4>2. n \in 1 .. n /\ active # <<>>
        BY <2>1, <3>1, <4>1
      <4> QED BY <2>3, <2>6, <4>2
    <3>3. ASSUME NEW j \in 1 .. n PROVE b.was.regs["rsp"] <= Bottom(active'[j])
      <4>1. active # <<>> /\ active'[j] = active[j]
        BY <2>3, <3>1
      <4>2. b.was.regs["rsp"] \in Int /\ b.was.regs["rsp"] <= active[n].was.regs["rsp"] /\ active[n].was.regs["rsp"] \in Int
        BY <2>6, <4>1
      <4>3. CASE j = n
        <5>1. b.was.regs["rsp"] = Bottom(active'[j])
          BY <2>6, <4>1, <4>3
        <5> QED BY <4>2, <5>1
      <4>4. CASE j \in 1 .. n - 1
        <5>1. n \in DOMAIN active
          BY <2>3, <3>1
        <5>2. active[n].was.regs["rsp"] <= Bottom(active[j])
          BY <4>4, <5>1, Outer
        <5>3. Bottom(active[j]) \in Int
          <6>1. j \in DOMAIN active
            BY <2>3
          <6>2. active[j] \in Activations
            BY <6>1, Outer
          <6> QED BY <6>2, Lower
        <5> QED BY <4>1, <4>2, <5>2, <5>3
      <4> QED BY <3>1, <4>3, <4>4
    <3> QED BY <2>2, <2>3, <3>1, <3>2, <3>3 DEF FrameAt
  <2>9. \A k \in DOMAIN active' : FrameAt(cpu'.mem, active', k)
    <3>1. n \in Nat
      BY <2>2
    <3>2. \A k \in 1 .. n + 1 : k \in 1 .. n \/ k = n + 1
      BY <3>1
    <3> QED BY <2>3, <2>7, <2>8, <3>2
  <2> QED BY <1>0, <2>2, <2>3, <2>5, <2>9
<1>5. CASE Service
  <2>1. active # <<>>
    BY <1>5, ServiceStep
  <2>2. PICK n : n = Len(active)
    OBVIOUS
  <2>3. PICK a : a = active[n]
    OBVIOUS
  <2>4. n \in Nat /\ n >= 1 /\ a = Last(active) /\ a \in Activations /\ n \in DOMAIN active /\ DOMAIN active = 1 .. n /\ active \in Seq(Activations)
    <3>1. active \in Seq(Activations)
      BY DEF IInv, Nesting
    <3>2. n \in Nat /\ n >= 1 /\ Last(active) = active[n] /\ Last(active) \in Activations
      BY <2>1, <2>2, <3>1, FrontOf
    <3>3. DOMAIN active = 1 .. n
      BY <2>2, <3>1, LenProperties
    <3> QED BY <2>3, <3>1, <3>2, <3>3
  <2>5. CASE isr_common_restore
    <3>1. active' = Front(active)
      BY <2>5 DEF isr_common_restore
    <3>2. active' \in Seq(Activations) /\ Len(active') = n - 1 /\ \A i \in 1 .. n - 1 : active'[i] = active[i]
      BY <2>1, <2>2, <2>4, <3>1, FrontOf
    <3>3. /\ cpu' \in Machines /\ cpu'.regs = a.was.regs
          /\ \A b \in 0 .. StackTop : b >= a.was.regs["rsp"] => cpu'.mem[b] = cpu.mem[b]
      BY <2>4, <2>5, RestoreEffect
    <3>4. \A k \in 1 .. n - 1 : Frame(cpu'.mem, active[k])
      BY <2>1, <2>2, <2>3, <3>3, OuterKept
    <3>5. ASSUME NEW k \in 1 .. n - 1 PROVE FrameAt(cpu'.mem, active', k)
      <4>1. FrameAt(cpu.mem, active, k)
        BY <1>1, <2>4
      <4>2. active'[k] = active[k] /\ (k > 1 => active'[k - 1] = active[k - 1]) /\ \A j \in 1 .. k - 1 : active'[j] = active[j]
        BY <2>4, <3>2
      <4> QED BY <3>4, <4>1, <4>2 DEF FrameAt
    <3>6. DOMAIN active' = 1 .. n - 1
      BY <3>2, LenProperties
    <3>7. FrameAt(cpu.mem, active, n)
      BY <1>1, <2>4
    <3>8. active' = <<>> => cpu'.regs["rsp"] \in {StackTop - 1, StackTop}
      <4>1. SUFFICES ASSUME active' = <<>> PROVE cpu'.regs["rsp"] \in {StackTop - 1, StackTop}
        OBVIOUS
      <4>2. n = 1
        BY <2>4, <3>2, <4>1
      <4>3. a.was.regs["rsp"] \in StackTop - 1 - 28 * (1 - 1) .. StackTop
        BY <2>3, <3>7, <4>2 DEF FrameAt
      <4>4. StackTop \in Nat
        BY InterruptsAssumption
      <4> QED BY <3>3, <4>3, <4>4
    <3>9. active' # <<>> => TopOf(cpu', Last(active'))
      <4>1. SUFFICES ASSUME active' # <<>> PROVE TopOf(cpu', Last(active'))
        OBVIOUS
      <4>2. n - 1 >= 1 /\ n - 1 \in 1 .. n - 1 /\ n > 1
        BY <2>4, <3>2, <4>1
      <4>3. PICK c : c = active[n - 1]
        OBVIOUS
      <4>4. Last(active') = c
        BY <3>2, <4>2, <4>3 DEF Last
      <4>5. c.stage = "handler" /\ StackPointer(c) = Bottom(c)
        <5>1. n - 1 \in DOMAIN active /\ n - 1 < Len(active)
          BY <2>2, <2>4, <4>2
        <5> QED BY <4>3, <5>1, Outer
      <4>6. a.was.regs["rsp"] = Bottom(c)
        BY <2>3, <3>7, <4>2, <4>3 DEF FrameAt
      <4> QED BY <3>3, <4>4, <4>5, <4>6 DEF TopOf
    <3> QED BY <1>0, <3>3, <3>5, <3>6, <3>8, <3>9
  <2>6. CASE ~isr_common_restore
    <3>1. PICK b : b = active'[n]
      OBVIOUS
    <3>2. /\ active' \in Seq(Activations) /\ Len(active') = n /\ \A k \in 1 .. n - 1 : active'[k] = active[k]
          /\ b.vector = a.vector /\ b.cause = a.cause /\ b.was = a.was
      BY <1>5, <2>2, <2>4, <2>6, <3>1, Progress
    <3>3. /\ cpu' \in Machines /\ Frame(cpu'.mem, b) /\ cpu'.regs["rsp"] = StackPointer(b)
          /\ b.stage \in {"stub", "common"} => \A r \in Regs \ {"rsp"} : cpu'.regs[r] = b.was.regs[r]
          /\ b.stage # "stub"
          /\ b.stage = "dispatch" => cpu'.regs["rdi"] = Ctx(b)
          /\ \A i \in 0 .. StackTop : i >= a.was.regs["rsp"] => cpu'.mem[i] = cpu.mem[i]
      BY <1>5, <2>2, <2>3, <2>6, <3>1, FrameGrows
    <3>4. Last(active') = b /\ active' # <<>> /\ DOMAIN active' = 1 .. n
      BY <2>4, <3>1, <3>2, LenProperties DEF Last
    <3>5. TopOf(cpu', b)
      BY <3>3 DEF TopOf
    <3>6. \A k \in 1 .. n - 1 : Frame(cpu'.mem, active[k])
      BY <2>1, <2>2, <2>3, <3>3, OuterKept
    <3>7. ASSUME NEW k \in 1 .. n PROVE FrameAt(cpu'.mem, active', k)
      <4>1. FrameAt(cpu.mem, active, k)
        BY <1>1, <2>4
      <4>2. (k > 1 => active'[k - 1] = active[k - 1]) /\ \A j \in 1 .. k - 1 : active'[j] = active[j]
        BY <2>4, <3>2
      <4>3. active'[k].was = active[k].was /\ Frame(cpu'.mem, active'[k])
        <5>1. k = n \/ k \in 1 .. n - 1
          BY <2>4
        <5> QED BY <2>3, <3>1, <3>2, <3>3, <3>6, <5>1
      <4> QED BY <4>1, <4>2, <4>3 DEF FrameAt
    <3> QED BY <1>0, <3>3, <3>4, <3>5, <3>7
  <2> QED BY <2>5, <2>6
<1> QED BY <1>2, <1>3, <1>4, <1>5, Kinds

\* The vectors of the devices, once the controllers are remapped.
LEMMA DeviceVectors ==
    /\ \A d \in Devices : /\ d \in 0 .. 15 /\ d # IRQ_CASCADE /\ Vector(d) = 32 + d /\ Vector(d) \in Vectors
                          /\ Chip(d) \in Chips /\ pic_irq_delta(d) \in 0 .. 7 /\ pic_irq_delta(d) \in Lines(Chip(d))
    /\ \A d \in 0 .. 15 : Chip(d) \in Chips /\ pic_irq_delta(d) \in 0 .. 7
    /\ \A d, e \in 0 .. 15 : Chip(d) = Chip(e) /\ pic_irq_delta(d) = pic_irq_delta(e) => d = e
PROOF
<1>1. \A d \in Devices : d \in 0 .. 15 /\ d # IRQ_CASCADE
  BY InterruptsAssumption
<1>2. \A d \in 0 .. 15 : Chip(d) \in Chips /\ pic_irq_delta(d) \in 0 .. 7
  BY DEF Chip, Chips, pic_irq_delta, pic_irq_is_primary
<1>3. \A d, e \in 0 .. 15 : Chip(d) = Chip(e) /\ pic_irq_delta(d) = pic_irq_delta(e) => d = e
  BY DEF Chip, pic_irq_delta, pic_irq_is_primary
<1>4. ASSUME NEW d \in Devices PROVE Vector(d) = 32 + d /\ Vector(d) \in Vectors /\ pic_irq_delta(d) \in Lines(Chip(d))
  <2>1. pic_irq_delta(d) \in Lines(Chip(d))
    BY DEF Lines
  <2>2. Vector(d) = 32 + d
    BY DEF Vector, PIC_PRIMARY_OFFSET
  <2>3. CASE d < 8
    <3>1. d \in Lines("P")
      BY <2>1, <2>3 DEF Chip, pic_irq_delta, pic_irq_is_primary
    <3> QED BY <2>1, <2>2, <3>1, ControllersAssumption DEF PIC_PRIMARY_OFFSET
  <2>4. CASE ~(d < 8)
    <3>1. d - 8 \in Lines("S")
      BY <2>1, <2>4 DEF Chip, pic_irq_delta, pic_irq_is_primary
    <3>2. PIC_SECONDARY_OFFSET + (d - 8) \in Vectors
      BY <3>1, ControllersAssumption
    <3>3. d \in Int
      BY <1>1
    <3>4. PIC_SECONDARY_OFFSET + (d - 8) = 32 + d
      BY <3>3 DEF PIC_SECONDARY_OFFSET, PIC_PRIMARY_OFFSET
    <3> QED BY <2>1, <2>2, <3>2, <3>4
  <2> QED BY <2>3, <2>4
<1> QED BY <1>1, <1>2, <1>3, <1>4

\* ICW1 starts the initialisation.
LEMMA Icw1 ==
    ASSUME NEW c \in Controllers, NEW x, x = Command(c, {4, 0})
    PROVE  x \in Controllers /\ x.imr = {} /\ x.irr = {} /\ x.isr = {} /\ x.icw = 2 /\ x.offset = c.offset
PROOF
<1>1. x = [c EXCEPT !.imr = {}, !.irr = {}, !.isr = {}, !.icw = 2]
  BY DEF Command
<1> QED BY <1>1 DEF Controllers

\* The data port, by the state of the initialisation.
LEMMA DataPort ==
    ASSUME NEW c \in Controllers, NEW byte \in SUBSET (0 .. 7), ByteValue(byte) \in Nat
    PROVE  LET x == Data(c, byte) IN
           /\ x \in Controllers /\ x.irr = c.irr /\ x.isr = c.isr
           /\ c.icw = 2 => x.icw = 3 /\ x.offset = ByteValue(byte) /\ x.imr = c.imr
           /\ c.icw = 3 => x.icw = 4 /\ x.offset = c.offset /\ x.imr = c.imr
           /\ c.icw = 4 => x.icw = 0 /\ x.offset = c.offset /\ x.imr = c.imr
           /\ c.icw = 0 => x.icw = 0 /\ x.offset = c.offset /\ x.imr = byte
PROOF
<1>0. PICK x : x = Data(c, byte)
  OBVIOUS
<1>1. CASE c.icw = 2
  <2>1. PICK value \in Nat : value = ByteValue(byte)
    OBVIOUS
  <2>2. x = [c EXCEPT !.offset = value, !.icw = 3]
    BY <1>0, <1>1, <2>1 DEF Data
  <2>3. /\ x \in Controllers /\ x.irr = c.irr /\ x.isr = c.isr
        /\ x.icw = 3 /\ x.offset = value /\ x.imr = c.imr
    BY <2>2 DEF Controllers
  <2> QED BY <1>0, <1>1, <2>1, <2>3
<1>2. CASE c.icw = 3
  <2>1. x = [c EXCEPT !.icw = 4]
    BY <1>0, <1>2 DEF Data
  <2>2. x \in Controllers /\ x.irr = c.irr /\ x.isr = c.isr /\ x.icw = 4 /\ x.offset = c.offset /\ x.imr = c.imr
    BY <1>2, <2>1 DEF Controllers
  <2> QED BY <1>0, <1>2, <2>2
<1>3. CASE c.icw = 4
  <2>1. x = [c EXCEPT !.icw = 0]
    BY <1>0, <1>3 DEF Data
  <2>2. x \in Controllers /\ x.irr = c.irr /\ x.isr = c.isr /\ x.icw = 0 /\ x.offset = c.offset /\ x.imr = c.imr
    BY <1>3, <2>1 DEF Controllers
  <2> QED BY <1>0, <1>3, <2>2
<1>4. CASE c.icw = 0
  <2>1. x = [c EXCEPT !.imr = byte]
    BY <1>0, <1>4 DEF Data
  <2>2. x \in Controllers /\ x.irr = c.irr /\ x.isr = c.isr /\ x.icw = 0 /\ x.offset = c.offset /\ x.imr = byte
    BY <1>4, <2>1 DEF Controllers
  <2> QED BY <1>0, <1>4, <2>2
<1> QED BY <1>1, <1>2, <1>3, <1>4 DEF Controllers

\* The value of a byte is a number.
LEMMA ByteValues == ASSUME NEW byte PROVE ByteValue(byte) \in Nat
PROOF
<1> DEFINE weight(b) == IF b \in byte THEN 2^b ELSE 0
<1>1. weight(0) \in Nat /\ weight(1) \in Nat /\ weight(2) \in Nat /\ weight(3) \in Nat
  BY Powers
<1>2. weight(4) \in Nat /\ weight(5) \in Nat /\ weight(6) \in Nat /\ weight(7) \in Nat
  BY Powers
<1>3. ByteValue(byte) = weight(0) + weight(1) + weight(2) + weight(3) + weight(4) + weight(5) + weight(6) + weight(7)
  BY DEF ByteValue
<1> HIDE DEF weight
<1> QED BY <1>1, <1>2, <1>3

\* At most one line.
AtMostOne(S) == \A l1, l2 \in S : l1 = l2

\* OCW2_EOI | delta.
EoiByte(irq) == {5} \cup BitsOf(pic_irq_delta(irq))

\* An end of interrupt as pic.c writes it takes the interrupt of highest priority out of
\* service and changes nothing else.
LEMMA EndOfInterrupt ==
    ASSUME NEW c \in Controllers, NEW irq \in 0 .. 15, AtMostOne(c.isr)
    PROVE  LET x == Command(c, EoiByte(irq)) IN
           /\ x \in Controllers /\ x.imr = c.imr /\ x.irr = c.irr /\ x.icw = c.icw /\ x.offset = c.offset
           /\ x.isr = {}
PROOF
<1>0. PICK x : x = Command(c, EoiByte(irq))
  OBVIOUS
<1>1. PICK byte : byte = EoiByte(irq)
  OBVIOUS
<1>2. 4 \notin byte /\ 3 \notin byte /\ byte \cap {5, 6, 7} = {5}
  BY <1>1, Bytes DEF EoiByte
<1>3. c.isr \in SUBSET (0 .. 7)
  BY DEF Controllers
<1>4. CASE c.isr = {}
  <2>1. byte \cap {5, 6, 7} # {5, 6}
    BY <1>2
  <2>2. x = c
    BY <1>0, <1>1, <1>2, <1>4, <2>1 DEF Command
  <2> QED BY <1>0, <1>4, <2>2
<1>5. CASE c.isr # {}
  <2>1. x = [c EXCEPT !.isr = c.isr \ {Min(c.isr)}]
    BY <1>0, <1>1, <1>2, <1>5 DEF Command
  <2>2. x \in Controllers /\ x.imr = c.imr /\ x.irr = c.irr /\ x.icw = c.icw /\ x.offset = c.offset /\ x.isr = c.isr \ {Min(c.isr)}
    BY <2>1, <1>3 DEF Controllers
  <2>3. x.isr = {}
    <3>1. Min(c.isr) \in c.isr
      BY <1>3, <1>5, Highest
    <3> QED BY <2>2, <3>1 DEF AtMostOne
  <2> QED BY <1>0, <1>5, <2>2, <2>3
<1> QED BY <1>4, <1>5

\* A write to a data port.
LEMMA DataWrite ==
    ASSUME NEW p \in [Chips -> Controllers], NEW chip \in Chips, NEW byte \in SUBSET (0 .. 7)
    PROVE  LET q == outb(p, Dat(chip, byte)) IN
           /\ q \in [Chips -> Controllers] /\ \A c \in Chips \ {chip} : q[c] = p[c]
           /\ q[chip].irr = p[chip].irr /\ q[chip].isr = p[chip].isr
           /\ p[chip].icw = 2 => q[chip].icw = 3 /\ q[chip].offset = ByteValue(byte) /\ q[chip].imr = p[chip].imr
           /\ p[chip].icw = 3 => q[chip].icw = 4 /\ q[chip].offset = p[chip].offset /\ q[chip].imr = p[chip].imr
           /\ p[chip].icw = 4 => q[chip].icw = 0 /\ q[chip].offset = p[chip].offset /\ q[chip].imr = p[chip].imr
           /\ p[chip].icw = 0 => q[chip].icw = 0 /\ q[chip].offset = p[chip].offset /\ q[chip].imr = byte
PROOF
<1>1. PICK w : w = Dat(chip, byte)
  OBVIOUS
<1>2. w.chip = chip /\ w.port = "data" /\ w.byte = byte
  BY <1>1 DEF Dat
<1>3. PICK c \in Controllers : c = p[chip]
  OBVIOUS
<1>4. PICK x : x = Data(c, byte)
  OBVIOUS
<1>5. /\ x \in Controllers /\ x.irr = c.irr /\ x.isr = c.isr
      /\ c.icw = 2 => x.icw = 3 /\ x.offset = ByteValue(byte) /\ x.imr = c.imr
      /\ c.icw = 3 => x.icw = 4 /\ x.offset = c.offset /\ x.imr = c.imr
      /\ c.icw = 4 => x.icw = 0 /\ x.offset = c.offset /\ x.imr = c.imr
      /\ c.icw = 0 => x.icw = 0 /\ x.offset = c.offset /\ x.imr = byte
  BY <1>4, DataPort, ByteValues
<1>6. PICK q : q = outb(p, w)
  OBVIOUS
<1>7. q \in [Chips -> Controllers] /\ q[chip] = x /\ \A d \in Chips \ {chip} : q[d] = p[d]
  <2>1. q = [p EXCEPT ![chip] = x]
    BY <1>2, <1>3, <1>4, <1>6 DEF outb
  <2> QED BY <1>5, <2>1
<1> QED BY <1>1, <1>3, <1>5, <1>6, <1>7

\* A write of ICW1.
LEMMA Icw1Write ==
    ASSUME NEW p \in [Chips -> Controllers], NEW chip \in Chips
    PROVE  LET q == outb(p, Cmd(chip, {4, 0})) IN
           /\ q \in [Chips -> Controllers] /\ \A c \in Chips \ {chip} : q[c] = p[c]
           /\ q[chip].imr = {} /\ q[chip].irr = {} /\ q[chip].isr = {} /\ q[chip].icw = 2 /\ q[chip].offset = p[chip].offset
PROOF
<1>1. PICK w : w = Cmd(chip, {4, 0})
  OBVIOUS
<1>2. w.chip = chip /\ w.port = "cmd" /\ w.byte = {4, 0}
  BY <1>1 DEF Cmd
<1>3. PICK c \in Controllers : c = p[chip]
  OBVIOUS
<1>4. PICK x : x = Command(c, {4, 0})
  OBVIOUS
<1>5. x \in Controllers /\ x.imr = {} /\ x.irr = {} /\ x.isr = {} /\ x.icw = 2 /\ x.offset = c.offset
  BY <1>4, Icw1
<1>6. PICK q : q = outb(p, w)
  OBVIOUS
<1>7. q \in [Chips -> Controllers] /\ q[chip] = x /\ \A d \in Chips \ {chip} : q[d] = p[d]
  <2>1. q = [p EXCEPT ![chip] = x]
    BY <1>2, <1>3, <1>4, <1>6 DEF outb
  <2> QED BY <1>5, <2>1
<1> QED BY <1>1, <1>3, <1>5, <1>6, <1>7

\* A write of an end of interrupt.
LEMMA EoiWrite ==
    ASSUME NEW p \in [Chips -> Controllers], NEW chip \in Chips, NEW irq \in 0 .. 15, AtMostOne(p[chip].isr)
    PROVE  LET q == outb(p, Cmd(chip, EoiByte(irq))) IN
           /\ q \in [Chips -> Controllers] /\ \A c \in Chips \ {chip} : q[c] = p[c]
           /\ q[chip].imr = p[chip].imr /\ q[chip].irr = p[chip].irr /\ q[chip].icw = p[chip].icw /\ q[chip].offset = p[chip].offset
           /\ q[chip].isr = {}
PROOF
<1>1. PICK w : w = Cmd(chip, EoiByte(irq))
  OBVIOUS
<1>2. w.chip = chip /\ w.port = "cmd" /\ w.byte = EoiByte(irq)
  BY <1>1 DEF Cmd
<1>3. PICK c \in Controllers : c = p[chip]
  OBVIOUS
<1>4. PICK x : x = Command(c, EoiByte(irq))
  OBVIOUS
<1>5. /\ x \in Controllers /\ x.imr = c.imr /\ x.irr = c.irr /\ x.icw = c.icw /\ x.offset = c.offset
      /\ x.isr = {}
  BY <1>3, <1>4, EndOfInterrupt
<1>6. PICK q : q = outb(p, w)
  OBVIOUS
<1>7. q \in [Chips -> Controllers] /\ q[chip] = x /\ \A d \in Chips \ {chip} : q[d] = p[d]
  <2>1. q = [p EXCEPT ![chip] = x]
    BY <1>2, <1>3, <1>4, <1>6 DEF outb
  <2> QED BY <1>5, <2>1
<1> QED BY <1>1, <1>3, <1>5, <1>6, <1>7

\* A controller of the pair, in order.
Wired(c, x) ==
    x \in Controllers /\ x.irr \subseteq Lines(c) /\ x.isr = {} /\ \A l \in Lines(c) \cup {7} : x.offset + l \in Vectors

\* What a write of pic_init leaves of the controller it reaches.
LEMMA WiredKept ==
    ASSUME NEW p \in [Chips -> Controllers], NEW chip \in Chips, Wired(chip, p[chip])
    PROVE  /\ Wired(chip, outb(p, Cmd(chip, {4, 0}))[chip])
           /\ \A byte \in SUBSET (0 .. 7) :
                (p[chip].icw = 2 => \A l \in Lines(chip) \cup {7} : ByteValue(byte) + l \in Vectors)
                    => Wired(chip, outb(p, Dat(chip, byte))[chip])
PROOF
<1>1. Wired(chip, outb(p, Cmd(chip, {4, 0}))[chip])
  <2>1. PICK q : q = outb(p, Cmd(chip, {4, 0}))
    OBVIOUS
  <2>2. q \in [Chips -> Controllers] /\ q[chip].irr = {} /\ q[chip].isr = {} /\ q[chip].offset = p[chip].offset
    BY <2>1, Icw1Write
  <2> QED BY <2>1, <2>2 DEF Wired
<1>2. ASSUME NEW byte \in SUBSET (0 .. 7),
             p[chip].icw = 2 => \A l \in Lines(chip) \cup {7} : ByteValue(byte) + l \in Vectors
      PROVE  Wired(chip, outb(p, Dat(chip, byte))[chip])
  <2>1. PICK q : q = outb(p, Dat(chip, byte))
    OBVIOUS
  <2>2. /\ q \in [Chips -> Controllers]
        /\ q[chip].irr = p[chip].irr /\ q[chip].isr = p[chip].isr
        /\ p[chip].icw = 2 => q[chip].offset = ByteValue(byte)
        /\ p[chip].icw = 3 => q[chip].offset = p[chip].offset
        /\ p[chip].icw = 4 => q[chip].offset = p[chip].offset
        /\ p[chip].icw = 0 => q[chip].offset = p[chip].offset
    BY <2>1, DataWrite
  <2>3. p[chip].icw \in {0, 2, 3, 4}
    BY DEF Controllers
  <2>4. \A l \in Lines(chip) \cup {7} : q[chip].offset + l \in Vectors
    BY <1>2, <2>2, <2>3 DEF Wired
  <2> QED BY <2>1, <2>2, <2>4 DEF Wired
<1> QED BY <1>1, <1>2

\* Each controller after the first s writes of pic_init.
Remapped(s, P, S) ==
    /\ P.icw = icw_P[s + 1] /\ S.icw = icw_S[s + 1]
    /\ s >= 3 => P.offset = PIC_PRIMARY_OFFSET
    /\ s >= 4 => S.offset = PIC_SECONDARY_OFFSET
    /\ s >= 9 => P.imr = 0 .. 7
    /\ s = 10 => S.imr = 0 .. 7

\* The writes of pic_init in order: both controllers stay in step, their vectors move to the
\* devices' own, and at the end every line is masked.
LEMMA PicInitWrite ==
    ASSUME IInv, pic_init_write
    PROVE  /\ pic' \in [Chips -> Controllers] /\ Wired("P", pic'["P"]) /\ Wired("S", pic'["S"])
           /\ step \in 0 .. 9 /\ step' = step + 1 /\ Remapped(step', pic'["P"], pic'["S"])
PROOF
<1>1. /\ active = <<>> /\ step < 10 /\ step' = step + 1 /\ pic' = outb(pic, pic_init[step + 1]) /\ step \in 0 .. 10
  <2>1. Len(pic_init) = 10
    BY DEF pic_init
  <2> QED BY <2>1 DEF pic_init_write, At, Running, IInv, Control
<1>2. /\ pic \in [Chips -> Controllers] /\ Wired("P", pic["P"]) /\ Wired("S", pic["S"])
      /\ "P" \in Chips /\ "S" \in Chips /\ "S" \in Chips \ {"P"} /\ "P" \in Chips \ {"S"}
  BY <1>1 DEF IInv, Masks, Serving, InService, Wired, Chips
<1>3. /\ pic["P"].icw = icw_P[step + 1] /\ pic["S"].icw = icw_S[step + 1]
      /\ step >= 3 => pic["P"].offset = PIC_PRIMARY_OFFSET
      /\ step >= 4 => pic["S"].offset = PIC_SECONDARY_OFFSET
      /\ step = 9 => pic["P"].imr = 0 .. 7
  BY DEF IInv, Masks
<1>4. /\ icw_P[1] = 0 /\ icw_P[2] = 2 /\ icw_P[3] = 2 /\ icw_P[4] = 3 /\ icw_P[5] = 3 /\ icw_P[6] = 4
      /\ icw_P[7] = 4 /\ icw_P[8] = 0 /\ icw_P[9] = 0 /\ icw_P[10] = 0 /\ icw_P[11] = 0
  BY DEF icw_P
<1>5. /\ icw_S[1] = 0 /\ icw_S[2] = 0 /\ icw_S[3] = 2 /\ icw_S[4] = 2 /\ icw_S[5] = 3 /\ icw_S[6] = 3
      /\ icw_S[7] = 4 /\ icw_S[8] = 4 /\ icw_S[9] = 0 /\ icw_S[10] = 0 /\ icw_S[11] = 0
  BY DEF icw_S
<1>6. BitsOf(PIC_PRIMARY_OFFSET) \in SUBSET (0 .. 7) /\ BitsOf(PIC_SECONDARY_OFFSET) \in SUBSET (0 .. 7)
  <2>1. PIC_PRIMARY_OFFSET \in 0 .. 255 /\ PIC_SECONDARY_OFFSET \in 0 .. 255
    BY DEF PIC_PRIMARY_OFFSET, PIC_SECONDARY_OFFSET
  <2> QED BY <2>1, ByteBits
<1>7. /\ \A l \in Lines("P") \cup {7} : ByteValue(BitsOf(PIC_PRIMARY_OFFSET)) + l \in Vectors
      /\ \A l \in Lines("S") \cup {7} : ByteValue(BitsOf(PIC_SECONDARY_OFFSET)) + l \in Vectors
  BY Bytes, ControllersAssumption
<1>8. {0} \in SUBSET (0 .. 7) /\ {1} \in SUBSET (0 .. 7) /\ {2} \in SUBSET (0 .. 7) /\ (0 .. 7) \in SUBSET (0 .. 7)
  OBVIOUS
<1>9. CASE step = 0
  <2>1. pic' = outb(pic, Cmd("P", {4, 0}))
    BY <1>1, <1>9 DEF pic_init
  <2>2. pic["P"].icw = 0 /\ pic["S"].icw = 0
    BY <1>3, <1>4, <1>5, <1>9
  <2>3. pic' \in [Chips -> Controllers] /\ pic'["S"] = pic["S"] /\ pic'["P"].icw = 2
    BY <1>2, <2>1, Icw1Write
  <2>4. Wired("P", pic'["P"])
    BY <1>2, <2>1, WiredKept
  <2>5. Remapped(1, pic'["P"], pic'["S"])
    BY <1>3, <1>4, <1>5, <1>9, <2>2, <2>3 DEF Remapped
  <2> QED BY <1>1, <1>2, <1>9, <2>3, <2>4, <2>5
<1>10. CASE step = 1
  <2>1. pic' = outb(pic, Cmd("S", {4, 0}))
    BY <1>1, <1>10 DEF pic_init
  <2>2. pic["P"].icw = 2 /\ pic["S"].icw = 0
    BY <1>3, <1>4, <1>5, <1>10
  <2>3. pic' \in [Chips -> Controllers] /\ pic'["P"] = pic["P"] /\ pic'["S"].icw = 2
    BY <1>2, <2>1, Icw1Write
  <2>4. Wired("S", pic'["S"])
    BY <1>2, <2>1, WiredKept
  <2>5. Remapped(2, pic'["P"], pic'["S"])
    BY <1>3, <1>4, <1>5, <1>10, <2>2, <2>3 DEF Remapped
  <2> QED BY <1>1, <1>2, <1>10, <2>3, <2>4, <2>5
<1>11. CASE step = 2
  <2>1. pic' = outb(pic, Dat("P", BitsOf(PIC_PRIMARY_OFFSET)))
    BY <1>1, <1>11 DEF pic_init
  <2>2. pic["P"].icw = 2 /\ pic["S"].icw = 2
    BY <1>3, <1>4, <1>5, <1>11
  <2>3. pic' \in [Chips -> Controllers] /\ pic'["S"] = pic["S"] /\ pic'["P"].icw = 3 /\ pic'["P"].offset = PIC_PRIMARY_OFFSET
    BY <1>2, <1>6, <2>1, <2>2, DataWrite, Bytes
  <2>4. Wired("P", pic'["P"])
    BY <1>2, <1>6, <1>7, <2>1, WiredKept
  <2>5. Remapped(3, pic'["P"], pic'["S"])
    BY <1>3, <1>4, <1>5, <1>11, <2>2, <2>3 DEF Remapped
  <2> QED BY <1>1, <1>2, <1>11, <2>3, <2>4, <2>5
<1>12. CASE step = 3
  <2>1. pic' = outb(pic, Dat("S", BitsOf(PIC_SECONDARY_OFFSET)))
    BY <1>1, <1>12 DEF pic_init
  <2>2. pic["P"].icw = 3 /\ pic["S"].icw = 2
    BY <1>3, <1>4, <1>5, <1>12
  <2>3. pic' \in [Chips -> Controllers] /\ pic'["P"] = pic["P"] /\ pic'["S"].icw = 3 /\ pic'["S"].offset = PIC_SECONDARY_OFFSET
    BY <1>2, <1>6, <2>1, <2>2, DataWrite, Bytes
  <2>4. Wired("S", pic'["S"])
    BY <1>2, <1>6, <1>7, <2>1, WiredKept
  <2>5. Remapped(4, pic'["P"], pic'["S"])
    BY <1>3, <1>4, <1>5, <1>12, <2>2, <2>3 DEF Remapped
  <2> QED BY <1>1, <1>2, <1>12, <2>3, <2>4, <2>5
<1>13. CASE step = 4
  <2>1. pic' = outb(pic, Dat("P", {2}))
    BY <1>1, <1>13 DEF pic_init
  <2>2. pic["P"].icw = 3 /\ pic["S"].icw = 3
    BY <1>3, <1>4, <1>5, <1>13
  <2>3. pic' \in [Chips -> Controllers] /\ pic'["S"] = pic["S"] /\ pic'["P"].icw = 4 /\ pic'["P"].offset = pic["P"].offset
    BY <1>2, <1>8, <2>1, <2>2, DataWrite
  <2>4. Wired("P", pic'["P"])
    BY <1>2, <1>8, <2>1, <2>2, WiredKept
  <2>5. Remapped(5, pic'["P"], pic'["S"])
    BY <1>3, <1>4, <1>5, <1>13, <2>2, <2>3 DEF Remapped
  <2> QED BY <1>1, <1>2, <1>13, <2>3, <2>4, <2>5
<1>14. CASE step = 5
  <2>1. pic' = outb(pic, Dat("S", {1}))
    BY <1>1, <1>14 DEF pic_init
  <2>2. pic["P"].icw = 4 /\ pic["S"].icw = 3
    BY <1>3, <1>4, <1>5, <1>14
  <2>3. pic' \in [Chips -> Controllers] /\ pic'["P"] = pic["P"] /\ pic'["S"].icw = 4 /\ pic'["S"].offset = pic["S"].offset
    BY <1>2, <1>8, <2>1, <2>2, DataWrite
  <2>4. Wired("S", pic'["S"])
    BY <1>2, <1>8, <2>1, <2>2, WiredKept
  <2>5. Remapped(6, pic'["P"], pic'["S"])
    BY <1>3, <1>4, <1>5, <1>14, <2>2, <2>3 DEF Remapped
  <2> QED BY <1>1, <1>2, <1>14, <2>3, <2>4, <2>5
<1>15. CASE step = 6
  <2>1. pic' = outb(pic, Dat("P", {0}))
    BY <1>1, <1>15 DEF pic_init
  <2>2. pic["P"].icw = 4 /\ pic["S"].icw = 4
    BY <1>3, <1>4, <1>5, <1>15
  <2>3. pic' \in [Chips -> Controllers] /\ pic'["S"] = pic["S"] /\ pic'["P"].icw = 0 /\ pic'["P"].offset = pic["P"].offset
    BY <1>2, <1>8, <2>1, <2>2, DataWrite
  <2>4. Wired("P", pic'["P"])
    BY <1>2, <1>8, <2>1, <2>2, WiredKept
  <2>5. Remapped(7, pic'["P"], pic'["S"])
    BY <1>3, <1>4, <1>5, <1>15, <2>2, <2>3 DEF Remapped
  <2> QED BY <1>1, <1>2, <1>15, <2>3, <2>4, <2>5
<1>16. CASE step = 7
  <2>1. pic' = outb(pic, Dat("S", {0}))
    BY <1>1, <1>16 DEF pic_init
  <2>2. pic["P"].icw = 0 /\ pic["S"].icw = 4
    BY <1>3, <1>4, <1>5, <1>16
  <2>3. pic' \in [Chips -> Controllers] /\ pic'["P"] = pic["P"] /\ pic'["S"].icw = 0 /\ pic'["S"].offset = pic["S"].offset
    BY <1>2, <1>8, <2>1, <2>2, DataWrite
  <2>4. Wired("S", pic'["S"])
    BY <1>2, <1>8, <2>1, <2>2, WiredKept
  <2>5. Remapped(8, pic'["P"], pic'["S"])
    BY <1>3, <1>4, <1>5, <1>16, <2>2, <2>3 DEF Remapped
  <2> QED BY <1>1, <1>2, <1>16, <2>3, <2>4, <2>5
<1>17. CASE step = 8
  <2>1. pic' = outb(pic, Dat("P", 0 .. 7))
    BY <1>1, <1>17 DEF pic_init
  <2>2. pic["P"].icw = 0 /\ pic["S"].icw = 0
    BY <1>3, <1>4, <1>5, <1>17
  <2>3. pic' \in [Chips -> Controllers] /\ pic'["S"] = pic["S"] /\ pic'["P"].icw = 0 /\ pic'["P"].offset = pic["P"].offset /\ pic'["P"].imr = 0 .. 7
    BY <1>2, <1>8, <2>1, <2>2, DataWrite
  <2>4. Wired("P", pic'["P"])
    BY <1>2, <1>8, <2>1, <2>2, WiredKept
  <2>5. Remapped(9, pic'["P"], pic'["S"])
    BY <1>3, <1>4, <1>5, <1>17, <2>2, <2>3 DEF Remapped
  <2> QED BY <1>1, <1>2, <1>17, <2>3, <2>4, <2>5
<1>18. CASE step = 9
  <2>1. pic' = outb(pic, Dat("S", 0 .. 7))
    BY <1>1, <1>18 DEF pic_init
  <2>2. pic["P"].icw = 0 /\ pic["S"].icw = 0
    BY <1>3, <1>4, <1>5, <1>18
  <2>3. pic' \in [Chips -> Controllers] /\ pic'["P"] = pic["P"] /\ pic'["S"].icw = 0 /\ pic'["S"].offset = pic["S"].offset /\ pic'["S"].imr = 0 .. 7
    BY <1>2, <1>8, <2>1, <2>2, DataWrite
  <2>4. Wired("S", pic'["S"])
    BY <1>2, <1>8, <2>1, <2>2, WiredKept
  <2>5. Remapped(10, pic'["P"], pic'["S"])
    BY <1>3, <1>4, <1>5, <1>18, <2>2, <2>3 DEF Remapped
  <2> QED BY <1>1, <1>2, <1>18, <2>3, <2>4, <2>5
<1>19. step \in {0, 1, 2, 3, 4, 5, 6, 7, 8, 9}
  BY <1>1
<1> QED BY <1>19, <1>9, <1>10, <1>11, <1>12, <1>13, <1>14, <1>15, <1>16, <1>17, <1>18

\* A line taken by the acknowledge cycle.
LEMMA TakenLine ==
    ASSUME NEW c \in Controllers, NEW l \in 0 .. 7
    PROVE  LET x == Taken(c, l) IN
           /\ x \in Controllers /\ x.imr = c.imr /\ x.offset = c.offset /\ x.icw = c.icw
           /\ x.irr \subseteq c.irr /\ (c.isr = {} => x.isr = {l})
PROOF
<1>1. PICK x : x = Taken(c, l)
  OBVIOUS
<1>2. PICK isr2 \in SUBSET (0 .. 7) : isr2 = c.isr \cup {l}
  BY DEF Controllers
<1>3. PICK irr2 \in SUBSET (0 .. 7) : irr2 = c.irr \ {l}
  BY DEF Controllers
<1>4. x = [c EXCEPT !.irr = irr2, !.isr = isr2]
  BY <1>1, <1>2, <1>3 DEF Taken
<1>5. x \in Controllers /\ x.imr = c.imr /\ x.offset = c.offset /\ x.icw = c.icw /\ x.irr = irr2 /\ x.isr = isr2
  BY <1>4 DEF Controllers
<1> QED BY <1>1, <1>2, <1>3, <1>5

\* The interrupt that a delivery starts.
LEMMA DeliveredAs ==
    ASSUME IInv, halted = "no", pc \notin PreIdt,
           NEW v, NEW cause, NEW irq, Deliver(v, cause, irq),
           v \in Vectors, cause \in {"interrupt", "spurious", "exception"}, irq \in 0 .. 15
    PROVE  \E b \in Activations :
             active' = Append(active, b) /\ b.stage = "stub" /\ b.todo = <<>> /\ b.cause = cause /\ b.irq = irq
PROOF
<1>1. PICK b : b = [vector |-> v, cause |-> cause, irq |-> irq, early |-> pc = "boot",
                    was |-> [regs |-> cpu.regs, rip |-> cpu.rip, if |-> cpu.if], stage |-> "stub", todo |-> <<>>]
  OBVIOUS
<1>2. active' = Append(active, b)
  <2>1. Tables /\ Control
    BY DEF IInv
  <2>2. active' = Append(active, [vector |-> v, cause |-> cause, irq |-> irq, early |-> pc = "boot",
                    was |-> [regs |-> cpu.regs, rip |-> cpu.rip, if |-> cpu.if], stage |-> "stub", todo |-> <<>>])
    BY <2>1, Delivered, ZenonT(60)
  <2> QED BY <1>1, <2>2, ZenonT(60)
<1>3. b \in Activations
  <2>1. cpu \in Machines
    BY DEF IInv, Stack
  <2>2. [regs |-> cpu.regs, rip |-> cpu.rip, if |-> cpu.if] \in [regs : [Regs -> Int], rip : SUBSET Nat, if : {0, 1}]
    BY <2>1 DEF Machines
  <2>3. <<>> \in Seq(Commands) /\ (pc = "boot") \in BOOLEAN
    OBVIOUS
  <2> QED BY <1>1, <2>2, <2>3 DEF Activations, Early
<1> QED BY <1>1, <1>2, <1>3

\* The acknowledge cycle: what it takes into service is the interrupt that is delivered, of a
\* device that is not masked; spuriously, at most the cascade line.
LEMMA Acknowledged ==
    ASSUME IInv, interrupt \/ spurious_interrupt
    PROVE  \E b \in Activations :
             /\ active = <<>> /\ active' = Append(active, b) /\ b.stage = "stub" /\ b.todo = <<>>
             /\ pic' \in [Chips -> Controllers]
             /\ \A c \in Chips : /\ pic'[c].imr = pic[c].imr /\ pic'[c].offset = pic[c].offset /\ pic'[c].icw = pic[c].icw
                                 /\ pic'[c].irr \subseteq pic[c].irr
             /\ \/ /\ b.cause = "interrupt" /\ b.irq \in Devices /\ pic_irq_delta(b.irq) \notin pic[Chip(b.irq)].imr
                   /\ \/ pic_irq_is_primary(b.irq) /\ pic'["P"].isr = {b.irq} /\ pic'["S"].isr = {}
                      \/ ~pic_irq_is_primary(b.irq) /\ pic'["P"].isr = {IRQ_CASCADE} /\ pic'["S"].isr = {b.irq - 8}
                \/ /\ b.cause = "spurious"
                   /\ \/ pic_irq_is_primary(b.irq) /\ pic'["P"].isr = {} /\ pic'["S"].isr = {}
                      \/ ~pic_irq_is_primary(b.irq) /\ pic'["P"].isr = {IRQ_CASCADE} /\ pic'["S"].isr = {}
PROOF
<1>1. active = <<>> /\ halted = "no" /\ pc \notin PreIdt /\ Signalled(pic) # {}
  BY External DEF interrupt, spurious_interrupt
<1>2. /\ pic \in [Chips -> Controllers] /\ pic["P"].isr = {} /\ pic["S"].isr = {} /\ pic["P"].irr \subseteq Lines("P")
      /\ pic["S"].irr \subseteq Lines("S") /\ pic["P"] \in Controllers /\ pic["S"] \in Controllers
  BY <1>1 DEF IInv, Masks, Serving, InService, Chips
<1>3. PICK p : p = Min(Signalled(pic))
  OBVIOUS
<1>4. PICK s : s = Min(Requests(pic["S"]))
  OBVIOUS
<1>5. /\ p \in 0 .. 7
      /\ p # IRQ_CASCADE => p \in pic["P"].irr \ pic["P"].imr
      /\ p = IRQ_CASCADE => s \in pic["S"].irr \ pic["S"].imr
  BY <1>1, <1>3, <1>4, Asked DEF IInv
<1>6. ASSUME NEW v, NEW cause, NEW irq, Deliver(v, cause, irq), v \in Vectors, cause \in {"interrupt", "spurious"}, irq \in 0 .. 15
      PROVE  \E b \in Activations :
               active' = Append(active, b) /\ b.stage = "stub" /\ b.todo = <<>> /\ b.cause = cause /\ b.irq = irq
  <2>1. cause \in {"interrupt", "spurious", "exception"}
    BY <1>6
  <2> QED BY <1>1, <1>6, <2>1, DeliveredAs
<1>7. ASSUME NEW a, a = Acknowledge(pic) \/ a = AcknowledgeSpurious(pic) PROVE a.vector \in Vectors /\ a.irq \in 0 .. 15
  BY <1>1, <1>7, Answered DEF IInv
<1>8. PICK P \in Controllers : P = pic["P"]
  BY <1>2
<1>9. PICK S \in Controllers : S = pic["S"]
  BY <1>2
<1>10. ASSUME NEW x \in Controllers, NEW y \in Controllers, (pic' = [pic EXCEPT !["P"] = x] /\ y = S) \/ pic' = [P |-> x, S |-> y],
              x.imr = P.imr /\ x.offset = P.offset /\ x.icw = P.icw /\ x.irr \subseteq P.irr,
              y.imr = S.imr /\ y.offset = S.offset /\ y.icw = S.icw /\ y.irr \subseteq S.irr
       PROVE  /\ pic' \in [Chips -> Controllers] /\ pic'["P"] = x /\ pic'["S"] = y
              /\ \A c \in Chips : /\ pic'[c].imr = pic[c].imr /\ pic'[c].offset = pic[c].offset /\ pic'[c].icw = pic[c].icw
                                  /\ pic'[c].irr \subseteq pic[c].irr
  <2>1. pic' \in [Chips -> Controllers] /\ pic'["P"] = x /\ pic'["S"] = y
    BY <1>2, <1>9, <1>10 DEF Chips
  <2>2. \A c \in Chips : c = "P" \/ c = "S"
    BY DEF Chips
  <2> QED BY <1>8, <1>9, <1>10, <2>1, <2>2
<1>11. CASE interrupt
  <2>1. PICK a : a = Acknowledge(pic)
    OBVIOUS
  <2>2. Deliver(a.vector, "interrupt", a.irq) /\ pic' = a.pic
    BY <1>11, <2>1 DEF interrupt
  <2>3. PICK b \in Activations : active' = Append(active, b) /\ b.stage = "stub" /\ b.todo = <<>> /\ b.cause = "interrupt" /\ b.irq = a.irq
    BY <1>6, <1>7, <2>1, <2>2
  <2>4. CASE p # IRQ_CASCADE
    <3>1. a.irq = p /\ a.pic = [pic EXCEPT !["P"] = Taken(P, p)]
      BY <1>3, <1>8, <2>1, <2>4 DEF Acknowledge
    <3>2. PICK x : x = Taken(P, p)
      OBVIOUS
    <3>3. x \in Controllers /\ x.imr = P.imr /\ x.offset = P.offset /\ x.icw = P.icw /\ x.irr \subseteq P.irr /\ x.isr = {p}
      BY <1>2, <1>5, <1>8, <3>2, TakenLine
    <3>4. p \in Devices /\ pic_irq_is_primary(p) /\ pic_irq_delta(p) = p /\ Chip(p) = "P" /\ p \notin pic["P"].imr
      BY <1>2, <1>5, <2>4, LineNumbers
    <3>5. /\ pic' \in [Chips -> Controllers] /\ pic'["P"] = x /\ pic'["S"] = S
          /\ \A c \in Chips : /\ pic'[c].imr = pic[c].imr /\ pic'[c].offset = pic[c].offset /\ pic'[c].icw = pic[c].icw
                              /\ pic'[c].irr \subseteq pic[c].irr
      BY <1>10, <2>2, <3>1, <3>2, <3>3
    <3> QED BY <1>1, <1>2, <1>9, <2>3, <3>1, <3>3, <3>4, <3>5
  <2>5. CASE p = IRQ_CASCADE
    <3>1. a.irq = 8 + s /\ a.pic = [P |-> Taken(P, p), S |-> Taken(S, s)]
      BY <1>3, <1>4, <1>8, <1>9, <2>1, <2>5 DEF Acknowledge
    <3>2. PICK x : x = Taken(P, p)
      OBVIOUS
    <3>3. x \in Controllers /\ x.imr = P.imr /\ x.offset = P.offset /\ x.icw = P.icw /\ x.irr \subseteq P.irr /\ x.isr = {p}
      BY <1>2, <1>5, <1>8, <3>2, TakenLine
    <3>4. PICK y : y = Taken(S, s)
      OBVIOUS
    <3>5. s \in 0 .. 7 /\ s + 8 \in Devices /\ ~pic_irq_is_primary(s + 8) /\ pic_irq_delta(s + 8) = s /\ Chip(s + 8) = "S" /\ s \notin pic["S"].imr
      BY <1>2, <1>5, <2>5, LineNumbers DEF Chips
    <3>6. y \in Controllers /\ y.imr = S.imr /\ y.offset = S.offset /\ y.icw = S.icw /\ y.irr \subseteq S.irr /\ y.isr = {s}
      BY <1>2, <1>9, <3>4, <3>5, TakenLine
    <3>7. /\ pic' \in [Chips -> Controllers] /\ pic'["P"] = x /\ pic'["S"] = y
          /\ \A c \in Chips : /\ pic'[c].imr = pic[c].imr /\ pic'[c].offset = pic[c].offset /\ pic'[c].icw = pic[c].icw
                              /\ pic'[c].irr \subseteq pic[c].irr
      BY <1>10, <2>2, <3>1, <3>2, <3>3, <3>4, <3>6
    <3>8. 8 + s = s + 8 /\ (s + 8) - 8 = s
      BY <3>5
    <3> QED BY <1>1, <2>3, <2>5, <3>1, <3>3, <3>5, <3>6, <3>7, <3>8
  <2> QED BY <2>4, <2>5
<1>12. CASE spurious_interrupt
  <2>1. PICK a : a = AcknowledgeSpurious(pic)
    OBVIOUS
  <2>2. Deliver(a.vector, "spurious", a.irq) /\ pic' = a.pic
    BY <1>12, <2>1 DEF spurious_interrupt
  <2>3. PICK b \in Activations : active' = Append(active, b) /\ b.stage = "stub" /\ b.todo = <<>> /\ b.cause = "spurious" /\ b.irq = a.irq
    BY <1>6, <1>7, <2>1, <2>2
  <2>4. CASE p # IRQ_CASCADE
    <3>1. PICK x : x = [P EXCEPT !.irr = P.irr \ {p}]
      OBVIOUS
    <3>2. a.irq = 7 /\ a.pic = [pic EXCEPT !["P"] = x]
      BY <1>2, <1>3, <1>8, <2>1, <2>4, <3>1 DEF AcknowledgeSpurious, Chips
    <3>3. x \in Controllers /\ x.imr = P.imr /\ x.offset = P.offset /\ x.icw = P.icw /\ x.irr \subseteq P.irr /\ x.isr = {}
      <4>1. PICK irr2 \in SUBSET (0 .. 7) : irr2 = P.irr \ {p}
        BY DEF Controllers
      <4>2. x = [P EXCEPT !.irr = irr2]
        BY <3>1, <4>1
      <4>3. x \in Controllers /\ x.imr = P.imr /\ x.offset = P.offset /\ x.icw = P.icw /\ x.irr = irr2 /\ x.isr = P.isr
        BY <4>2 DEF Controllers
      <4> QED BY <1>2, <1>8, <4>1, <4>3
    <3>4. /\ pic' \in [Chips -> Controllers] /\ pic'["P"] = x /\ pic'["S"] = S
          /\ \A c \in Chips : /\ pic'[c].imr = pic[c].imr /\ pic'[c].offset = pic[c].offset /\ pic'[c].icw = pic[c].icw
                              /\ pic'[c].irr \subseteq pic[c].irr
      BY <1>10, <2>2, <3>2, <3>3
    <3>5. pic_irq_is_primary(7)
      BY DEF pic_irq_is_primary
    <3> QED BY <1>1, <1>2, <1>9, <2>3, <3>2, <3>3, <3>4, <3>5
  <2>5. CASE p = IRQ_CASCADE
    <3>1. PICK y : y = [S EXCEPT !.irr = S.irr \ {s}]
      OBVIOUS
    <3>2. PICK x : x = Taken(P, p)
      OBVIOUS
    <3>3. a.irq = 15 /\ a.pic = [P |-> x, S |-> y]
      BY <1>3, <1>4, <1>8, <1>9, <2>1, <2>5, <3>1, <3>2 DEF AcknowledgeSpurious
    <3>4. x \in Controllers /\ x.imr = P.imr /\ x.offset = P.offset /\ x.icw = P.icw /\ x.irr \subseteq P.irr /\ x.isr = {p}
      BY <1>2, <1>5, <1>8, <3>2, TakenLine
    <3>5. s \in 0 .. 7
      BY <1>2, <1>5, <2>5, LineNumbers DEF Chips
    <3>6. y \in Controllers /\ y.imr = S.imr /\ y.offset = S.offset /\ y.icw = S.icw /\ y.irr \subseteq S.irr /\ y.isr = {}
      <4>1. PICK irr2 \in SUBSET (0 .. 7) : irr2 = S.irr \ {s}
        BY DEF Controllers
      <4>2. y = [S EXCEPT !.irr = irr2]
        BY <3>1, <4>1
      <4>3. y \in Controllers /\ y.imr = S.imr /\ y.offset = S.offset /\ y.icw = S.icw /\ y.irr = irr2 /\ y.isr = S.isr
        BY <4>2 DEF Controllers
      <4> QED BY <1>2, <1>9, <4>1, <4>3
    <3>7. /\ pic' \in [Chips -> Controllers] /\ pic'["P"] = x /\ pic'["S"] = y
          /\ \A c \in Chips : /\ pic'[c].imr = pic[c].imr /\ pic'[c].offset = pic[c].offset /\ pic'[c].icw = pic[c].icw
                              /\ pic'[c].irr \subseteq pic[c].irr
      BY <1>10, <2>2, <3>3, <3>4, <3>6
    <3>8. ~pic_irq_is_primary(15)
      BY DEF pic_irq_is_primary
    <3> QED BY <1>1, <2>3, <2>5, <3>3, <3>4, <3>6, <3>7, <3>8
  <2> QED BY <2>4, <2>5
<1> QED BY <1>11, <1>12

\* A handler's end of interrupt: written by the outermost interrupt only, first to its own
\* controller, then for the secondary's lines to the primary.
LEMMA EoiEffect ==
    ASSUME IInv, handler_eoi, NEW a, a = Last(active)
    PROVE  /\ Len(active) = 1 /\ a = active[1] /\ a.cause # "exception" /\ a.stage = "handler"
           /\ pic' \in [Chips -> Controllers]
           /\ \A c \in Chips : /\ pic'[c].imr = pic[c].imr /\ pic'[c].offset = pic[c].offset /\ pic'[c].icw = pic[c].icw
                               /\ pic'[c].irr = pic[c].irr
           /\ \/ Tail(a.todo) = <<>> /\ pic'["P"].isr = {} /\ pic'["S"].isr = {}
              \/ /\ ~pic_irq_is_primary(a.irq) /\ Tail(a.todo) = Tail(pic_notify_eoi(a.irq))
                 /\ pic'["P"].isr = {IRQ_CASCADE} /\ pic'["S"].isr = {}
PROOF
<1>1. active # <<>> /\ a.stage = "handler" /\ a.todo # <<>> /\ pic' = outb(pic, Head(a.todo))
  BY DEF handler_eoi, In
<1>2. PICK n : n = Len(active)
  OBVIOUS
<1>3. n \in Nat /\ n >= 1 /\ a = active[n] /\ a \in Activations /\ n \in DOMAIN active
  BY <1>1, <1>2, FrontOf, LenProperties DEF IInv, Nesting
<1>4. n = 1 /\ a.cause # "exception"
  BY <1>1, <1>3 DEF IInv, Nesting
<1>5. PICK irq \in 0 .. 15 : irq = a.irq
  BY <1>3 DEF Activations
<1>6. PICK w : w = Cmd(Chip(irq), EoiByte(irq))
  OBVIOUS
<1>7. PICK u : u = Cmd("P", {5} \cup BitsOf(IRQ_CASCADE))
  OBVIOUS
<1>8. /\ pic_irq_is_primary(irq) => pic_notify_eoi(irq) = <<w>> /\ Chip(irq) = "P"
      /\ ~pic_irq_is_primary(irq) => pic_notify_eoi(irq) = <<w, u>> /\ Chip(irq) = "S"
  <2>1. /\ pic_irq_is_primary(irq) => pic_notify_eoi(irq) = <<w>>
        /\ ~pic_irq_is_primary(irq) => pic_notify_eoi(irq) = <<w, u>>
    BY <1>6, <1>7, EoiWrites DEF EoiByte
  <2> QED BY <2>1 DEF Chip
<1>9. Head(<<w>>) = w /\ Tail(<<w>>) = <<>> /\ Head(<<w, u>>) = w /\ Tail(<<w, u>>) = <<u>> /\ Head(<<u>>) = u /\ Tail(<<u>>) = <<>>
  OBVIOUS
<1>10. pic \in [Chips -> Controllers] /\ "P" \in Chips /\ "S" \in Chips /\ "P" # "S" /\ \A c \in Chips : c = "P" \/ c = "S"
  BY DEF IInv, Masks, Chips
<1>11. u = Cmd("P", EoiByte(2)) /\ 2 \in 0 .. 15
  BY <1>7 DEF EoiByte, IRQ_CASCADE, pic_irq_delta, pic_irq_is_primary
<1>12. ASSUME NEW chip \in Chips, NEW i \in 0 .. 15, AtMostOne(pic[chip].isr), pic' = outb(pic, Cmd(chip, EoiByte(i)))
       PROVE  /\ pic' \in [Chips -> Controllers]
              /\ \A c \in Chips : /\ pic'[c].imr = pic[c].imr /\ pic'[c].offset = pic[c].offset /\ pic'[c].icw = pic[c].icw
                                  /\ pic'[c].irr = pic[c].irr
              /\ \A c \in Chips \ {chip} : pic'[c].isr = pic[c].isr
              /\ pic'[chip].isr = {}
  <2>1. PICK q : q = outb(pic, Cmd(chip, EoiByte(i)))
    OBVIOUS
  <2>2. /\ q \in [Chips -> Controllers] /\ \A c \in Chips \ {chip} : q[c] = pic[c]
        /\ q[chip].imr = pic[chip].imr /\ q[chip].irr = pic[chip].irr /\ q[chip].icw = pic[chip].icw /\ q[chip].offset = pic[chip].offset
        /\ q[chip].isr = {}
    <3>1. pic \in [Chips -> Controllers]
      BY <1>10
    <3> QED BY <1>12, <2>1, <3>1, EoiWrite
  <2>3. pic' = q
    BY <1>12, <2>1
  <2> QED BY <2>2, <2>3
<1>13. \/ /\ pic_irq_is_primary(irq) /\ a.todo = <<w>> /\ pic["S"].isr = {}
          /\ pic["P"].isr = {} \/ pic["P"].isr = {irq}
       \/ /\ ~pic_irq_is_primary(irq) /\ a.todo = <<w, u>> /\ pic["P"].isr = {IRQ_CASCADE}
          /\ pic["S"].isr = {} \/ pic["S"].isr = {irq - 8}
       \/ /\ ~pic_irq_is_primary(irq) /\ a.todo = <<u>> /\ pic["P"].isr = {IRQ_CASCADE} /\ pic["S"].isr = {}
  <2>1. a = active[1]
    BY <1>3, <1>4
  <2>2. a.stage \notin Early /\ a.stage # "restore"
    BY <1>1 DEF Early
  <2>3. \/ pic_irq_is_primary(irq) /\ a.todo = pic_notify_eoi(irq) /\ InService({irq}, {})
        \/ ~pic_irq_is_primary(irq) /\ a.todo = pic_notify_eoi(irq) /\ InService({IRQ_CASCADE}, {irq - 8})
        \/ pic_irq_is_primary(irq) /\ a.todo = pic_notify_eoi(irq) /\ InService({}, {})
        \/ ~pic_irq_is_primary(irq) /\ a.todo = pic_notify_eoi(irq) /\ InService({IRQ_CASCADE}, {})
        \/ ~pic_irq_is_primary(irq) /\ a.todo = Tail(pic_notify_eoi(irq)) /\ InService({IRQ_CASCADE}, {})
    BY <1>1, <1>4, <1>5, <2>1, <2>2 DEF IInv, Serving
  <2> QED BY <1>8, <1>9, <2>3 DEF InService
<1>14. CASE /\ pic_irq_is_primary(irq) /\ a.todo = <<w>> /\ pic["S"].isr = {}
            /\ pic["P"].isr = {} \/ pic["P"].isr = {irq}
  <2>1. pic' = outb(pic, Cmd("P", EoiByte(irq)))
    BY <1>1, <1>6, <1>8, <1>9, <1>14
  <2>2. /\ pic' \in [Chips -> Controllers]
        /\ \A c \in Chips : /\ pic'[c].imr = pic[c].imr /\ pic'[c].offset = pic[c].offset /\ pic'[c].icw = pic[c].icw
                            /\ pic'[c].irr = pic[c].irr
        /\ pic'["P"].isr = {} /\ pic'["S"].isr = {}
    <3>1. AtMostOne(pic["P"].isr)
      BY <1>14 DEF AtMostOne
    <3> QED BY <1>10, <1>12, <1>14, <2>1, <3>1
  <2> QED BY <1>1, <1>2, <1>3, <1>4, <1>9, <1>14, <2>2
<1>15. CASE /\ ~pic_irq_is_primary(irq) /\ a.todo = <<w, u>> /\ pic["P"].isr = {IRQ_CASCADE}
            /\ pic["S"].isr = {} \/ pic["S"].isr = {irq - 8}
  <2>1. pic' = outb(pic, Cmd("S", EoiByte(irq)))
    BY <1>1, <1>6, <1>8, <1>9, <1>15
  <2>2. /\ pic' \in [Chips -> Controllers]
        /\ \A c \in Chips : /\ pic'[c].imr = pic[c].imr /\ pic'[c].offset = pic[c].offset /\ pic'[c].icw = pic[c].icw
                            /\ pic'[c].irr = pic[c].irr
        /\ pic'["P"].isr = {IRQ_CASCADE} /\ pic'["S"].isr = {}
    <3>1. AtMostOne(pic["S"].isr)
      BY <1>15 DEF AtMostOne
    <3> QED BY <1>10, <1>12, <1>15, <2>1, <3>1
  <2>3. Tail(a.todo) = Tail(pic_notify_eoi(a.irq))
    BY <1>5, <1>8, <1>15
  <2> QED BY <1>1, <1>2, <1>3, <1>4, <1>5, <1>15, <2>2, <2>3
<1>16. CASE ~pic_irq_is_primary(irq) /\ a.todo = <<u>> /\ pic["P"].isr = {IRQ_CASCADE} /\ pic["S"].isr = {}
  <2>1. pic' = outb(pic, Cmd("P", EoiByte(2)))
    BY <1>1, <1>9, <1>11, <1>16
  <2>2. /\ pic' \in [Chips -> Controllers]
        /\ \A c \in Chips : /\ pic'[c].imr = pic[c].imr /\ pic'[c].offset = pic[c].offset /\ pic'[c].icw = pic[c].icw
                            /\ pic'[c].irr = pic[c].irr
        /\ pic'["P"].isr = {} /\ pic'["S"].isr = {}
    <3>1. AtMostOne(pic["P"].isr)
      BY <1>16 DEF AtMostOne
    <3> QED BY <1>10, <1>11, <1>12, <1>16, <2>1, <3>1
  <2> QED BY <1>1, <1>2, <1>3, <1>4, <1>9, <1>16, <2>2
<1> QED BY <1>13, <1>14, <1>15, <1>16

\* Devices, acknowledgements and ends of interrupts leave the masks and the vectors alone.
LEMMA MasksKept ==
    ASSUME IInv, kernel' = kernel, tables' = tables, pic' \in [Chips -> Controllers],
           \A c \in Chips : /\ pic'[c].imr = pic[c].imr /\ pic'[c].offset = pic[c].offset /\ pic'[c].icw = pic[c].icw
                            /\ pic'[c].irr \subseteq Lines(c)
    PROVE  Masks'
PROOF
<1>1. /\ pc' = pc /\ step' = step /\ line' = line /\ work' = work /\ imr' = imr /\ g_handlers' = g_handlers
  BY DEF kernel, tables
<1>2. Masks
  BY DEF IInv
<1>3. "P" \in Chips /\ "S" \in Chips /\ \A d : Chip(d) \in Chips
  BY DEF Chips, Chip
<1>4. /\ pic'["P"].icw = icw_P[step' + 1] /\ pic'["S"].icw = icw_S[step' + 1]
      /\ step' >= 3 => pic'["P"].offset = PIC_PRIMARY_OFFSET
      /\ step' >= 4 => pic'["S"].offset = PIC_SECONDARY_OFFSET
      /\ step' = 9 => pic'["P"].imr = 0 .. 7
  BY <1>1, <1>2, <1>3 DEF Masks
<1>5. \A c \in Chips : pic'[c].irr \subseteq Lines(c) /\ \A l \in Lines(c) \cup {7} : pic'[c].offset + l \in Vectors
  BY <1>2 DEF Masks
<1>6. \A d : pic'[Chip(d)].imr = pic[Chip(d)].imr
  BY <1>3
<1> QED BY <1>1, <1>2, <1>4, <1>5, <1>6 DEF Masks

\* Where the controllers are once the drivers run.
LEMMA Ready ==
    ASSUME IInv, pc \notin Booting
    PROVE  /\ step = 10 /\ pic \in [Chips -> Controllers] /\ pic["P"].icw = 0 /\ pic["S"].icw = 0
           /\ pic["P"].offset = PIC_PRIMARY_OFFSET /\ pic["S"].offset = PIC_SECONDARY_OFFSET
           /\ \A c \in Chips : pic[c].irr \subseteq Lines(c) /\ \A l \in Lines(c) \cup {7} : pic[c].offset + l \in Vectors
           /\ icw_P[11] = 0 /\ icw_S[11] = 0
PROOF
<1>1. step = 10
  BY DEF IInv, Control
<1>2. icw_P[11] = 0 /\ icw_S[11] = 0
  BY DEF icw_P, icw_S
<1> QED BY <1>1, <1>2 DEF IInv, Masks

\* A driver's write of a mask register, with nothing written between its read and it.
LEMMA MaskWrite ==
    ASSUME IInv, pc \notin Booting, NEW irq \in 0 .. 15, NEW byte \in SUBSET (0 .. 7),
           pic' = outb(pic, Dat(Chip(irq), byte))
    PROVE  /\ pic' \in [Chips -> Controllers] /\ pic'["P"].icw = 0 /\ pic'["S"].icw = 0
           /\ pic'["P"].offset = PIC_PRIMARY_OFFSET /\ pic'["S"].offset = PIC_SECONDARY_OFFSET
           /\ \A c \in Chips : pic'[c].irr \subseteq Lines(c) /\ \A l \in Lines(c) \cup {7} : pic'[c].offset + l \in Vectors
           /\ \A c \in Chips : pic'[c].imr = IF c = Chip(irq) THEN byte ELSE pic[c].imr
           /\ \A c \in Chips : pic'[c].isr = pic[c].isr
PROOF
<1>1. PICK chip \in Chips : chip = Chip(irq)
  BY DeviceVectors
<1>2. /\ pic \in [Chips -> Controllers] /\ pic["P"].icw = 0 /\ pic["S"].icw = 0
      /\ pic["P"].offset = PIC_PRIMARY_OFFSET /\ pic["S"].offset = PIC_SECONDARY_OFFSET
      /\ \A c \in Chips : pic[c].irr \subseteq Lines(c) /\ \A l \in Lines(c) \cup {7} : pic[c].offset + l \in Vectors
  BY Ready
<1>3. pic[chip].icw = 0
  BY <1>2 DEF Chips
<1>4. /\ pic' \in [Chips -> Controllers] /\ \A c \in Chips \ {chip} : pic'[c] = pic[c]
      /\ pic'[chip].irr = pic[chip].irr /\ pic'[chip].isr = pic[chip].isr
      /\ pic'[chip].icw = 0 /\ pic'[chip].offset = pic[chip].offset /\ pic'[chip].imr = byte
  BY <1>1, <1>2, <1>3, DataWrite
<1>5. \A c \in Chips : /\ pic'[c].irr = pic[c].irr /\ pic'[c].isr = pic[c].isr /\ pic'[c].icw = pic[c].icw
                       /\ pic'[c].offset = pic[c].offset /\ pic'[c].imr = IF c = chip THEN byte ELSE pic[c].imr
  BY <1>3, <1>4
<1>6. "P" \in Chips /\ "S" \in Chips
  BY DEF Chips
<1> QED BY <1>1, <1>2, <1>4, <1>5, <1>6

\* Drivers: every line that is not masked has a handler, at each step of a call.
LEMMA DriverMasks ==
    ASSUME IInv, Driver
    PROVE  Masks'
PROOF
<1>1. /\ pc \in {"run"} \cup Calling /\ pc' \in {"run"} \cup Calling /\ step' = step
      /\ pc \notin Booting /\ pc' \notin Booting
  BY DriverStep DEF Calling, Booting, PreIdt
<1>2. step' = 10 /\ icw_P[11] = 0 /\ icw_S[11] = 0
  BY <1>1, Ready
<1>3. /\ pic \in [Chips -> Controllers] /\ pic["P"].icw = 0 /\ pic["S"].icw = 0
      /\ pic["P"].offset = PIC_PRIMARY_OFFSET /\ pic["S"].offset = PIC_SECONDARY_OFFSET
      /\ \A c \in Chips : pic[c].irr \subseteq Lines(c) /\ \A l \in Lines(c) \cup {7} : pic[c].offset + l \in Vectors
  BY <1>1, Ready
<1>4. /\ g_handlers \in [Vectors -> {"none", "default_unhandled", "driver"}]
      /\ \A d \in Devices : pic_irq_delta(d) \in pic[Chip(d)].imr \/ g_handlers[Vector(d)] = "driver"
  BY <1>1 DEF IInv, Masks
<1>5. pc \in Calling => line \in Devices
  BY DEF IInv, Control
<1>6. ASSUME /\ pic' \in [Chips -> Controllers] /\ pic'["P"].icw = 0 /\ pic'["S"].icw = 0
             /\ pic'["P"].offset = PIC_PRIMARY_OFFSET /\ pic'["S"].offset = PIC_SECONDARY_OFFSET
             /\ \A c \in Chips : pic'[c].irr \subseteq Lines(c) /\ \A l \in Lines(c) \cup {7} : pic'[c].offset + l \in Vectors,
             /\ g_handlers' \in [Vectors -> {"none", "default_unhandled", "driver"}]
             /\ \A d \in Devices : pic_irq_delta(d) \in pic'[Chip(d)].imr \/ g_handlers'[Vector(d)] = "driver",
             /\ pc' \in {"clear_read", "clear_write"} =>
                  /\ g_handlers'[Vector(line')] = "driver"
                  /\ work' \in {<<line'>>, <<line', IRQ_CASCADE>>, <<IRQ_CASCADE>>}
             /\ pc' = "clear_write" => imr' = pic'[Chip(Head(work'))].imr
             /\ pc' = "set_write" => imr' = pic'[Chip(line')].imr
             /\ pc' = "unregister" => pic_irq_delta(line') \in pic'[Chip(line')].imr
      PROVE  Masks'
  <2>1. step' + 1 = 11 /\ step' >= 3 /\ step' >= 4 /\ step' # 9
    BY <1>2
  <2> QED BY <1>1, <1>2, <1>6, <2>1 DEF Masks
<1>7. CASE attach
  <2>1. PICK d \in Devices \ attached :
          /\ line' = d
          /\ g_handlers' = [g_handlers EXCEPT ![Vector(d)] = "driver"]
          /\ work' = IF pic_irq_is_primary(d) THEN <<d>> ELSE <<d, IRQ_CASCADE>>
    BY <1>7 DEF attach
  <2>2. pc' = "clear_read" /\ pic' = pic
    BY <1>7 DEF attach, Goto
  <2>3. Vector(d) \in Vectors
    BY DeviceVectors
  <2>4. /\ g_handlers' \in [Vectors -> {"none", "default_unhandled", "driver"}] /\ g_handlers'[Vector(d)] = "driver"
        /\ \A v \in Vectors : g_handlers[v] = "driver" => g_handlers'[v] = "driver"
    BY <1>4, <2>1, <2>3
  <2>5. \A e \in Devices : pic_irq_delta(e) \in pic'[Chip(e)].imr \/ g_handlers'[Vector(e)] = "driver"
    BY <1>4, <2>2, <2>4, DeviceVectors
  <2>6. work' \in {<<line'>>, <<line', IRQ_CASCADE>>, <<IRQ_CASCADE>>}
    BY <2>1
  <2> QED BY <1>3, <1>6, <2>1, <2>2, <2>4, <2>5, <2>6
<1>8. CASE clear_read
  <2>1. pc = "clear_read" /\ pc' = "clear_write" /\ pic' = pic /\ g_handlers' = g_handlers /\ line' = line /\ work' = work
        /\ imr' = pic[Chip(Head(work))].imr
    BY <1>8 DEF clear_read, At, Goto, tables
  <2>2. g_handlers[Vector(line)] = "driver" /\ work \in {<<line>>, <<line, IRQ_CASCADE>>, <<IRQ_CASCADE>>}
    BY <2>1 DEF IInv, Masks
  <2> QED BY <1>3, <1>4, <1>6, <2>1, <2>2
<1>9. CASE clear_write
  <2>1. /\ pc = "clear_write" /\ pc' \in {"run", "clear_read"} /\ g_handlers' = g_handlers /\ line' = line /\ work' = Tail(work)
        /\ pic' = outb(pic, pic_clear_mask(Head(work), imr)) /\ (pc' = "clear_read" => Tail(work) # <<>>)
    BY <1>9 DEF clear_write, At, Goto, tables
  <2>2. /\ g_handlers[Vector(line)] = "driver" /\ work \in {<<line>>, <<line, IRQ_CASCADE>>, <<IRQ_CASCADE>>}
        /\ imr = pic[Chip(Head(work))].imr /\ line \in Devices
    BY <1>5, <2>1 DEF IInv, Masks, Calling
  <2>3. PICK h : h = Head(work)
    OBVIOUS
  <2>4. /\ h = line \/ h = IRQ_CASCADE
        /\ Tail(work) # <<>> => Tail(work) = <<IRQ_CASCADE>>
    <3>1. CASE work = <<line>>
      BY <2>3, <3>1
    <3>2. CASE work = <<line, IRQ_CASCADE>>
      BY <2>3, <3>2
    <3>3. CASE work = <<IRQ_CASCADE>>
      BY <2>3, <3>3
    <3> QED BY <2>2, <3>1, <3>2, <3>3
  <2>5. h \in 0 .. 15
    BY <2>2, <2>4, DeviceVectors DEF IRQ_CASCADE
  <2>6. Chip(h) \in Chips
    BY <2>5, DeviceVectors
  <2>7. PICK byte \in SUBSET (0 .. 7) : byte = pic[Chip(h)].imr \ {pic_irq_delta(h)}
    BY <1>3, <2>6 DEF Controllers
  <2>8. pic' = outb(pic, Dat(Chip(h), byte))
    BY <2>1, <2>2, <2>3, <2>7 DEF pic_clear_mask
  <2>9. /\ pic' \in [Chips -> Controllers] /\ pic'["P"].icw = 0 /\ pic'["S"].icw = 0
        /\ pic'["P"].offset = PIC_PRIMARY_OFFSET /\ pic'["S"].offset = PIC_SECONDARY_OFFSET
        /\ \A c \in Chips : pic'[c].irr \subseteq Lines(c) /\ \A l \in Lines(c) \cup {7} : pic'[c].offset + l \in Vectors
        /\ \A c \in Chips : pic'[c].imr = IF c = Chip(h) THEN byte ELSE pic[c].imr
    BY <1>1, <2>5, <2>8, MaskWrite
  <2>10. ASSUME NEW d \in Devices PROVE pic_irq_delta(d) \in pic'[Chip(d)].imr \/ g_handlers'[Vector(d)] = "driver"
    <3>1. pic_irq_delta(d) \in pic[Chip(d)].imr \/ g_handlers[Vector(d)] = "driver"
      BY <1>4
    <3>2. d \in 0 .. 15 /\ d # IRQ_CASCADE /\ Chip(d) \in Chips
      BY DeviceVectors
    <3>3. CASE d = h
      BY <2>1, <2>2, <2>4, <3>2, <3>3
    <3>4. CASE d # h
      <4>1. ~(Chip(d) = Chip(h) /\ pic_irq_delta(d) = pic_irq_delta(h))
        BY <2>5, <3>2, <3>4, DeviceVectors
      <4>2. pic_irq_delta(d) \in pic[Chip(d)].imr => pic_irq_delta(d) \in pic'[Chip(d)].imr
        BY <2>7, <2>9, <3>2, <4>1
      <4> QED BY <2>1, <3>1, <4>2
    <3> QED BY <3>3, <3>4
  <2>11. pc' = "clear_read" => work' \in {<<line'>>, <<line', IRQ_CASCADE>>, <<IRQ_CASCADE>>}
    BY <2>1, <2>4
  <2>12. g_handlers' \in [Vectors -> {"none", "default_unhandled", "driver"}]
    BY <1>4, <2>1
  <2> QED BY <1>6, <2>1, <2>2, <2>9, <2>10, <2>11, <2>12
<1>10. CASE detach
  <2>1. pc' = "set_read" /\ pic' = pic /\ g_handlers' = g_handlers
    BY <1>10 DEF detach, Goto, tables
  <2> QED BY <1>3, <1>4, <1>6, <2>1
<1>11. CASE set_read
  <2>1. pc' = "set_write" /\ pic' = pic /\ g_handlers' = g_handlers /\ imr' = pic[Chip(line)].imr /\ line' = line
    BY <1>11 DEF set_read, Goto, tables
  <2> QED BY <1>3, <1>4, <1>6, <2>1
<1>12. CASE set_write
  <2>1. pc = "set_write" /\ pc' = "unregister" /\ pic' = outb(pic, pic_set_mask(line, imr)) /\ g_handlers' = g_handlers /\ line' = line
    BY <1>12 DEF set_write, At, Goto, tables
  <2>2. imr = pic[Chip(line)].imr /\ line \in Devices
    BY <1>5, <2>1 DEF IInv, Masks, Calling
  <2>3. line \in 0 .. 15 /\ Chip(line) \in Chips /\ pic_irq_delta(line) \in 0 .. 7
    BY <2>2, DeviceVectors
  <2>4. PICK byte \in SUBSET (0 .. 7) : byte = imr \cup {pic_irq_delta(line)}
    BY <1>3, <2>2, <2>3 DEF Controllers
  <2>5. pic' = outb(pic, Dat(Chip(line), byte))
    BY <2>1, <2>4 DEF pic_set_mask
  <2>6. /\ pic' \in [Chips -> Controllers] /\ pic'["P"].icw = 0 /\ pic'["S"].icw = 0
        /\ pic'["P"].offset = PIC_PRIMARY_OFFSET /\ pic'["S"].offset = PIC_SECONDARY_OFFSET
        /\ \A c \in Chips : pic'[c].irr \subseteq Lines(c) /\ \A l \in Lines(c) \cup {7} : pic'[c].offset + l \in Vectors
        /\ \A c \in Chips : pic'[c].imr = IF c = Chip(line) THEN byte ELSE pic[c].imr
    BY <1>1, <2>3, <2>5, MaskWrite
  <2>7. \A d \in Devices : pic_irq_delta(d) \in pic'[Chip(d)].imr \/ g_handlers'[Vector(d)] = "driver"
    <3>1. \A c \in Chips : pic[c].imr \subseteq pic'[c].imr
      BY <2>2, <2>4, <2>6
    <3>2. \A d \in Devices : Chip(d) \in Chips
      BY DeviceVectors
    <3> QED BY <1>4, <2>1, <3>1, <3>2
  <2>8. pic_irq_delta(line') \in pic'[Chip(line')].imr
    BY <2>1, <2>3, <2>4, <2>6
  <2> QED BY <1>4, <1>6, <2>1, <2>6, <2>7, <2>8
<1>13. CASE unregister
  <2>1. /\ pc = "unregister" /\ pc' = "run" /\ pic' = pic
        /\ g_handlers' = [g_handlers EXCEPT ![Vector(line)] = "default_unhandled"]
    BY <1>13 DEF unregister, At, Goto
  <2>2. pic_irq_delta(line) \in pic[Chip(line)].imr /\ line \in Devices
    BY <1>5, <2>1 DEF IInv, Masks, Calling
  <2>3. Vector(line) = 32 + line /\ line \in 0 .. 15 /\ Vector(line) \in Vectors
    BY <2>2, DeviceVectors
  <2>4. /\ g_handlers' \in [Vectors -> {"none", "default_unhandled", "driver"}]
        /\ \A v \in Vectors : v # Vector(line) => g_handlers'[v] = g_handlers[v]
    BY <1>4, <2>1, <2>3
  <2>5. ASSUME NEW d \in Devices PROVE pic_irq_delta(d) \in pic'[Chip(d)].imr \/ g_handlers'[Vector(d)] = "driver"
    <3>1. d \in 0 .. 15 /\ Vector(d) = 32 + d /\ Vector(d) \in Vectors
      BY DeviceVectors
    <3>2. CASE d = line
      BY <2>1, <2>2, <3>2
    <3>3. CASE d # line
      <4>1. Vector(d) # Vector(line)
        BY <2>3, <3>1, <3>3
      <4> QED BY <1>4, <2>1, <2>4, <3>1, <4>1
    <3> QED BY <3>2, <3>3
  <2> QED BY <1>3, <1>6, <2>1, <2>4, <2>5
<1>14. CASE register_trap
  <2>1. PICK v \in Exceptions : g_handlers' = [g_handlers EXCEPT ![v] = "driver"]
    BY <1>14 DEF register_trap
  <2>2. pc = "run" /\ pc' = "run" /\ pic' = pic
    BY <1>14 DEF register_trap, At, kernel
  <2>3. v \in Vectors
    BY InterruptsAssumption
  <2>4. /\ g_handlers' \in [Vectors -> {"none", "default_unhandled", "driver"}]
        /\ \A u \in Vectors : g_handlers[u] = "driver" => g_handlers'[u] = "driver"
    BY <1>4, <2>1, <2>3
  <2>5. \A d \in Devices : pic_irq_delta(d) \in pic'[Chip(d)].imr \/ g_handlers'[Vector(d)] = "driver"
    BY <1>4, <2>2, <2>4, DeviceVectors
  <2> QED BY <1>3, <1>6, <2>2, <2>4, <2>5
<1> QED BY <1>7, <1>8, <1>9, <1>10, <1>11, <1>12, <1>13, <1>14 DEF Driver

\* Each controller, its lines and the handlers, at every step.
LEMMA MasksStep ==
    ASSUME IInv, [Next]_vars, ~EarlyTrap
    PROVE  Masks'
PROOF
<1>1. /\ pic \in [Chips -> Controllers] /\ \A c \in Chips : pic[c].irr \subseteq Lines(c)
  BY DEF IInv, Masks
<1>2. CASE gdt_init \/ init_vectors
  <2>1. pic' = pic /\ step' = step
    BY <1>2 DEF gdt_init, init_vectors
  <2>2. pc \in PreIdt \cup {"sti"} /\ pc' \in Booting
    BY <1>2 DEF gdt_init, init_vectors, intr_init_all_vectors, At, Goto, PreIdt, Booting
  <2>3. pc \in Booting /\ pc' \notin {"clear_read", "clear_write", "set_write", "unregister"}
    BY <2>2 DEF Booting, PreIdt
  <2>4. g_handlers' = g_handlers \/ g_handlers' = [v \in Vectors |-> "default_unhandled"]
    BY <1>2 DEF gdt_init, init_vectors, intr_init_all_vectors
  <2>5. g_handlers' \in [Vectors -> {"none", "default_unhandled", "driver"}] /\ \A v \in Vectors : g_handlers'[v] # "driver"
    BY <2>3, <2>4 DEF IInv, Masks
  <2>6. Masks
    BY DEF IInv
  <2> QED BY <2>1, <2>2, <2>3, <2>5, <2>6 DEF Masks
<1>3. CASE pic_init_write
  <2>1. /\ pic' \in [Chips -> Controllers] /\ Wired("P", pic'["P"]) /\ Wired("S", pic'["S"])
        /\ step \in 0 .. 9 /\ step' = step + 1 /\ Remapped(step', pic'["P"], pic'["S"])
    BY <1>3, PicInitWrite
  <2>2. pc = "boot" /\ pc' \in {"boot", "run"} /\ (pc' = "run" => step' = 10) /\ g_handlers' = g_handlers
    <3>1. Len(pic_init) = 10
      BY DEF pic_init
    <3> QED BY <1>3, <3>1 DEF pic_init_write, At, Goto, tables
  <2>3. /\ g_handlers' \in [Vectors -> {"none", "default_unhandled", "driver"}] /\ \A v \in Vectors : g_handlers'[v] # "driver"
    BY <2>2 DEF IInv, Masks, Booting
  <2>4. \A c \in Chips : pic'[c].irr \subseteq Lines(c) /\ \A l \in Lines(c) \cup {7} : pic'[c].offset + l \in Vectors
    BY <2>1 DEF Wired, Chips
  <2>5. /\ pic'["P"].icw = icw_P[step' + 1] /\ pic'["S"].icw = icw_S[step' + 1]
        /\ step' >= 3 => pic'["P"].offset = PIC_PRIMARY_OFFSET
        /\ step' >= 4 => pic'["S"].offset = PIC_SECONDARY_OFFSET
        /\ step' = 9 => pic'["P"].imr = 0 .. 7
        /\ step' = 10 => pic'["P"].imr = 0 .. 7 /\ pic'["S"].imr = 0 .. 7
    BY <2>1 DEF Remapped
  <2>6. \A d \in Devices : pc' \in Booting \/ pic_irq_delta(d) \in pic'[Chip(d)].imr
    <3>1. SUFFICES ASSUME NEW d \in Devices, pc' \notin Booting PROVE pic_irq_delta(d) \in pic'[Chip(d)].imr
      OBVIOUS
    <3>2. step' = 10
      BY <2>2, <3>1 DEF Booting
    <3>3. pic_irq_delta(d) \in 0 .. 7 /\ Chip(d) \in {"P", "S"}
      BY DeviceVectors DEF Chips
    <3> QED BY <2>5, <3>2, <3>3
  <2>7. pc' \notin {"clear_read", "clear_write", "set_write", "unregister"}
    BY <2>2
  <2> QED BY <2>1, <2>3, <2>4, <2>5, <2>6, <2>7 DEF Masks
<1>4. CASE Driver
  BY <1>4, DriverMasks
<1>5. CASE Service
  <2>1. kernel' = kernel /\ tables' = tables
    BY <1>5, ServiceStep
  <2>2. CASE handler_eoi
    <3>1. PICK a : a = Last(active)
      OBVIOUS
    <3>2. /\ pic' \in [Chips -> Controllers]
          /\ \A c \in Chips : /\ pic'[c].imr = pic[c].imr /\ pic'[c].offset = pic[c].offset /\ pic'[c].icw = pic[c].icw
                              /\ pic'[c].irr = pic[c].irr
      BY <2>2, <3>1, EoiEffect
    <3>3. \A c \in Chips : pic'[c].irr \subseteq Lines(c)
      BY <1>1, <3>2
    <3> QED BY <2>1, <3>2, <3>3, MasksKept
  <2>3. CASE ~handler_eoi
    <3>1. pic' = pic
      BY <1>5, <2>3 DEF Service, isr_stub, isr_common_save, intr_dispatch_entry, handler_return, isr_common_restore
    <3> QED BY <1>1, <2>1, <3>1, MasksKept
  <2> QED BY <2>2, <2>3
<1>6. CASE raise
  <2>1. kernel' = kernel /\ tables' = tables
    BY <1>6 DEF raise
  <2>2. PICK d \in Devices : pic' = [pic EXCEPT ![Chip(d)].irr = @ \cup {pic_irq_delta(d)}]
    BY <1>6 DEF raise
  <2>3. PICK c \in Chips : c = Chip(d)
    BY DeviceVectors
  <2>4. pic_irq_delta(d) \in 0 .. 7 /\ pic_irq_delta(d) \in Lines(c)
    BY <2>3, DeviceVectors
  <2>5. PICK irr2 \in SUBSET (0 .. 7) : irr2 = pic[c].irr \cup {pic_irq_delta(d)}
    BY <1>1, <2>4 DEF Controllers
  <2>6. PICK x : x = [pic[c] EXCEPT !.irr = irr2]
    OBVIOUS
  <2>7. x \in Controllers /\ x.imr = pic[c].imr /\ x.offset = pic[c].offset /\ x.icw = pic[c].icw /\ x.irr = irr2
    BY <1>1, <2>6 DEF Controllers
  <2>8. pic' = [pic EXCEPT ![c] = x]
    BY <1>1, <2>2, <2>3, <2>5, <2>6
  <2>9. pic' \in [Chips -> Controllers] /\ pic'[c] = x /\ \A e \in Chips \ {c} : pic'[e] = pic[e]
    BY <1>1, <2>7, <2>8
  <2>10. irr2 \subseteq Lines(c)
    BY <1>1, <2>4, <2>5
  <2>11. \A e \in Chips : /\ pic'[e].imr = pic[e].imr /\ pic'[e].offset = pic[e].offset /\ pic'[e].icw = pic[e].icw
                          /\ pic'[e].irr \subseteq Lines(e)
    BY <1>1, <2>7, <2>9, <2>10
  <2> QED BY <2>1, <2>9, <2>11, MasksKept
<1>7. CASE interrupt \/ spurious_interrupt
  <2>1. kernel' = kernel /\ tables' = tables
    BY <1>7, External
  <2>2. /\ pic' \in [Chips -> Controllers]
        /\ \A c \in Chips : /\ pic'[c].imr = pic[c].imr /\ pic'[c].offset = pic[c].offset /\ pic'[c].icw = pic[c].icw
                            /\ pic'[c].irr \subseteq pic[c].irr
    BY <1>7, Acknowledged
  <2>3. \A c \in Chips : pic'[c].irr \subseteq Lines(c)
    BY <1>1, <2>2
  <2> QED BY <2>1, <2>2, <2>3, MasksKept
<1>8. CASE Trap \/ UNCHANGED vars
  <2>1. kernel' = kernel /\ tables' = tables /\ pic' = pic
    BY <1>8 DEF Trap, exception, vars
  <2> QED BY <1>1, <2>1, MasksKept
<1> QED BY <1>2, <1>3, <1>4, <1>5, <1>6, <1>7, <1>8, Kinds DEF Boot

\* Which interrupt a is in service, P and S being what the controllers have in service.
Served(P, S, a) ==
    LET first == a.stage \in Early \/ (a.stage = "handler" /\ a.todo = pic_notify_eoi(a.irq)) IN
    \/ a.cause = "exception" /\ P = {} /\ S = {}
    \/ a.cause = "interrupt" /\ pic_irq_is_primary(a.irq) /\ first /\ P = {a.irq} /\ S = {}
    \/ a.cause = "interrupt" /\ ~pic_irq_is_primary(a.irq) /\ first /\ P = {IRQ_CASCADE} /\ S = {a.irq - 8}
    \/ a.cause = "spurious" /\ pic_irq_is_primary(a.irq) /\ first /\ P = {} /\ S = {}
    \/ a.cause = "spurious" /\ ~pic_irq_is_primary(a.irq) /\ first /\ P = {IRQ_CASCADE} /\ S = {}
    \/ /\ a.cause # "exception" /\ ~pic_irq_is_primary(a.irq) /\ a.stage = "handler"
       /\ a.todo = Tail(pic_notify_eoi(a.irq)) /\ P = {IRQ_CASCADE} /\ S = {}
    \/ a.cause # "exception" /\ a.stage \in {"handler", "restore"} /\ a.todo = <<>> /\ P = {} /\ S = {}

\* A write to a data port leaves what is in service.
LEMMA DataKeepsService ==
    ASSUME NEW p \in [Chips -> Controllers], NEW chip \in Chips, NEW byte
    PROVE  \A c \in Chips : outb(p, Dat(chip, byte))[c].isr = p[c].isr
PROOF
<1>1. PICK w : w = Dat(chip, byte)
  OBVIOUS
<1>2. w.chip = chip /\ w.port = "data" /\ w.byte = byte
  BY <1>1 DEF Dat
<1>3. PICK x : x = Data(p[chip], byte)
  OBVIOUS
<1>4. x.isr = p[chip].isr
  BY <1>3 DEF Data, Controllers
<1>5. outb(p, w) = [p EXCEPT ![chip] = x]
  BY <1>2, <1>3 DEF outb
<1> QED BY <1>1, <1>4, <1>5

\* Serving, with the variables it is about as parameters.
ServedBy(P, S, s, h, halt) ==
    /\ s = <<>> => P = {} /\ S = {}
    /\ s # <<>> => Served(P, S, s[1])
    /\ \A k \in DOMAIN s : s[k].cause = "interrupt" /\ ~s[k].early => h[s[k].vector] = "driver"
    /\ halt = "unhandled" => s # <<>> /\ h[Last(s).vector] = "default_unhandled"

\* A stage later the same interrupt is in service: until its handler runs nothing changes,
\* after it has written the ends nothing is left.
LEMMA ServedOn ==
    ASSUME NEW P, NEW S, NEW a, NEW b, Served(P, S, a), b.cause = a.cause, b.irq = a.irq
    PROVE  /\ a.stage \in Early /\ b.stage \in Early => Served(P, S, b)
           /\ a.stage \in Early /\ b.stage = "handler" /\ b.todo = pic_notify_eoi(b.irq) => Served(P, S, b)
           /\ a.cause = "exception" => Served(P, S, b)
           /\ a.stage = "handler" /\ a.todo = <<>> /\ b.todo = <<>> /\ b.stage = "restore" => Served(P, S, b)
           /\ a.stage = "restore" => P = {} /\ S = {}
PROOF
<1>1. a.stage \in Early /\ b.stage \in Early => Served(P, S, b)
  BY DEF Served, Early
<1>2. a.stage \in Early /\ b.stage = "handler" /\ b.todo = pic_notify_eoi(b.irq) => Served(P, S, b)
  BY DEF Served, Early
<1>3. a.cause = "exception" => Served(P, S, b)
  BY DEF Served
<1>4. ASSUME a.stage = "handler", a.todo = <<>>, b.todo = <<>>, b.stage = "restore" PROVE Served(P, S, b)
  <2>1. PICK w : w = Cmd(Chip(a.irq), {5} \cup BitsOf(pic_irq_delta(a.irq)))
    OBVIOUS
  <2>2. PICK u : u = Cmd("P", {5} \cup BitsOf(IRQ_CASCADE))
    OBVIOUS
  <2>3. pic_notify_eoi(a.irq) = <<w>> \/ (~pic_irq_is_primary(a.irq) /\ pic_notify_eoi(a.irq) = <<w, u>>)
    BY <2>1, <2>2, EoiWrites
  <2>4. <<w>> # <<>> /\ <<w, u>> # <<>> /\ Tail(<<w, u>>) # <<>>
    OBVIOUS
  <2>5. pic_irq_is_primary(a.irq) => pic_notify_eoi(a.irq) = <<w>>
    BY <2>1, EoiWrites
  <2>6. ~pic_irq_is_primary(a.irq) => pic_notify_eoi(a.irq) = <<w, u>>
    BY <2>1, <2>2, EoiWrites
  <2>7. pic_notify_eoi(a.irq) # <<>> /\ (~pic_irq_is_primary(a.irq) => Tail(pic_notify_eoi(a.irq)) # <<>>)
    BY <2>3, <2>4, <2>6
  <2>8. a.cause = "exception" \/ (a.cause # "exception" /\ P = {} /\ S = {})
    BY <1>4, <2>7 DEF Served, Early
  <2>9. CASE a.cause = "exception"
    BY <2>9 DEF Served
  <2>10. CASE a.cause # "exception" /\ P = {} /\ S = {}
    BY <1>4, <2>10 DEF Served
  <2> QED BY <2>8, <2>9, <2>10
<1>5. a.stage = "restore" => P = {} /\ S = {}
  BY DEF Served, Early
<1> QED BY <1>1, <1>2, <1>3, <1>4, <1>5

\* What is in service while kernelMain, a device or nothing moves.
LEMMA ServingKept ==
    ASSUME IInv, \/ Boot \/ Driver \/ raise \/ UNCHANGED vars
    PROVE  \A c \in Chips : pic'[c].isr = pic[c].isr \/ (active = <<>> /\ pic'[c].isr = {})
PROOF
<1>1. pic \in [Chips -> Controllers] /\ \A d : Chip(d) \in Chips
  BY DEF IInv, Masks, Chip, Chips
<1>2. CASE pic' = pic
  BY <1>2
<1>3. CASE pic_init_write
  <2>1. Wired("P", pic'["P"]) /\ Wired("S", pic'["S"]) /\ active = <<>>
    BY <1>3, PicInitWrite DEF pic_init_write, At, Running
  <2> QED BY <2>1 DEF Wired, Chips
<1>4. CASE clear_write \/ set_write
  <2>1. PICK chip \in Chips : \E byte : pic' = outb(pic, Dat(chip, byte))
    BY <1>1, <1>4 DEF clear_write, set_write, pic_clear_mask, pic_set_mask
  <2>2. PICK byte : pic' = outb(pic, Dat(chip, byte))
    BY <2>1
  <2> QED BY <1>1, <2>2, DataKeepsService
<1>5. CASE raise
  <2>1. PICK d \in Devices : pic' = [pic EXCEPT ![Chip(d)].irr = @ \cup {pic_irq_delta(d)}]
    BY <1>5 DEF raise
  <2>2. PICK c \in Chips : c = Chip(d)
    BY <1>1
  <2>3. PICK x : x = [pic[c] EXCEPT !.irr = @ \cup {pic_irq_delta(d)}]
    OBVIOUS
  <2>4. x.isr = pic[c].isr
    BY <1>1, <2>3 DEF Controllers
  <2>5. pic' = [pic EXCEPT ![c] = x]
    BY <2>1, <2>2, <2>3
  <2> QED BY <1>1, <2>4, <2>5
<1>6. CASE gdt_init \/ init_vectors \/ UNCHANGED vars
  BY <1>2, <1>6 DEF gdt_init, init_vectors, vars
<1>7. CASE attach \/ clear_read \/ detach \/ set_read \/ unregister \/ register_trap
  BY <1>2, <1>7 DEF attach, clear_read, detach, set_read, unregister, register_trap
<1> QED BY <1>3, <1>4, <1>5, <1>6, <1>7 DEF Boot, Driver

\* What is in service while the service of the innermost interrupt moves on.
LEMMA ServiceServing ==
    ASSUME IInv, Service
    PROVE  ServedBy(pic'["P"].isr, pic'["S"].isr, active', g_handlers', halted')
PROOF
<1>1. ServedBy(pic["P"].isr, pic["S"].isr, active, g_handlers, halted)
  BY DEF IInv, Serving, InService, ServedBy, Served
<1>2. active # <<>> /\ halted = "no" /\ g_handlers' = g_handlers /\ pc' = pc /\ active \in Seq(Activations)
  BY ServiceStep DEF kernel, tables, IInv, Nesting
<1>3. PICK a : a = Last(active)
  OBVIOUS
<1>4. PICK n : n = Len(active)
  OBVIOUS
<1>5. n \in Nat /\ n >= 1 /\ a = active[n] /\ a \in Activations /\ n \in DOMAIN active /\ DOMAIN active = 1 .. n
  BY <1>2, <1>3, <1>4, FrontOf, LenProperties
<1>6. ~handler_eoi => pic' = pic
  BY DEF Service, isr_stub, isr_common_save, intr_dispatch_entry, handler_return, isr_common_restore
<1>7. Served(pic["P"].isr, pic["S"].isr, active[1])
  BY <1>1, <1>2 DEF ServedBy
<1>8. CASE isr_common_restore /\ a.stage = "restore" /\ active' = Front(active) /\ halted' = halted
  <2>1. active' \in Seq(Activations) /\ Len(active') = n - 1 /\ \A i \in 1 .. n - 1 : active'[i] = active[i]
    BY <1>2, <1>4, <1>8, FrontOf
  <2>2. pic' = pic /\ halted' = "no"
    BY <1>2, <1>8 DEF isr_common_restore
  <2>3. \A k \in DOMAIN active' : k \in DOMAIN active /\ active'[k] = active[k]
    BY <1>5, <2>1, LenProperties
  <2>4. \A k \in DOMAIN active' : active'[k].cause = "interrupt" /\ ~active'[k].early => g_handlers'[active'[k].vector] = "driver"
    BY <1>1, <1>2, <2>3 DEF ServedBy
  <2>5. CASE n = 1
    <3>1. active' = <<>>
      BY <2>1, <2>5
    <3>2. pic["P"].isr = {} /\ pic["S"].isr = {}
      BY <1>5, <1>7, <1>8, <2>5, ServedOn
    <3> QED BY <2>2, <2>4, <3>1, <3>2 DEF ServedBy
  <2>6. CASE n > 1
    <3>1. active' # <<>> /\ active'[1] = active[1]
      BY <1>5, <2>1, <2>6
    <3> QED BY <1>7, <2>2, <2>4, <3>1 DEF ServedBy
  <2> QED BY <1>5, <2>5, <2>6
<1>9. CASE /\ active' \in Seq(Activations) /\ Len(active') = n /\ \A k \in 1 .. n - 1 : active'[k] = active[k]
           /\ ~isr_common_restore
  <2>1. PICK b : b = active'[n]
    OBVIOUS
  <2>2. b.vector = a.vector /\ b.cause = a.cause /\ b.irq = a.irq /\ b.early = a.early
    BY <1>3, <1>4, <1>9, <2>1, Progress
  <2>3. \/ a.stage \in Early /\ b.stage \in Early /\ halted' = "no" /\ ~handler_eoi
        \/ /\ a.stage \in Early /\ b = a /\ halted' = "unhandled" /\ g_handlers[a.vector] = "default_unhandled" /\ ~handler_eoi
        \/ /\ a.stage \in Early /\ b.stage = "handler" /\ halted' = "no" /\ ~handler_eoi
           /\ b.todo = IF a.vector < PIC_PRIMARY_OFFSET THEN <<>> ELSE pic_notify_eoi(a.vector - PIC_PRIMARY_OFFSET)
           /\ g_handlers[a.vector] = "driver"
        \/ a.stage = "handler" /\ b.stage = "handler" /\ b.todo = Tail(a.todo) /\ handler_eoi /\ halted' = "no"
        \/ a.stage = "handler" /\ b.stage = "restore" /\ a.todo = <<>> /\ b.todo = <<>> /\ halted' = "no" /\ ~handler_eoi
    <3>1. handler_eoi => a.stage = "handler" /\ a.todo # <<>>
      BY <1>3 DEF handler_eoi, In
    <3> QED BY <1>2, <1>3, <1>4, <1>9, <2>1, <3>1, Progress DEF Early
  <2>4. DOMAIN active' = 1 .. n /\ active' # <<>> /\ Last(active') = b
    BY <1>5, <1>9, <2>1, LenProperties DEF Last
  <2>5. \A k \in DOMAIN active' : active'[k].cause = "interrupt" /\ ~active'[k].early => g_handlers'[active'[k].vector] = "driver"
    <3>1. SUFFICES ASSUME NEW k \in 1 .. n, active'[k].cause = "interrupt", ~active'[k].early
                   PROVE  g_handlers[active'[k].vector] = "driver"
      BY <1>2, <2>4
    <3>2. active[k].cause = "interrupt" /\ ~active[k].early => g_handlers[active[k].vector] = "driver"
      BY <1>1, <1>5 DEF ServedBy
    <3>3. CASE k = n
      BY <1>5, <2>1, <2>2, <3>1, <3>2, <3>3
    <3>4. CASE k # n
      <4>1. active'[k] = active[k]
        BY <1>5, <1>9, <3>4
      <4> QED BY <3>1, <3>2, <4>1
    <3> QED BY <3>3, <3>4
  <2>6. halted' = "unhandled" => active' # <<>> /\ g_handlers'[Last(active').vector] = "default_unhandled"
    BY <1>2, <2>2, <2>3, <2>4
  <2>7. Served(pic'["P"].isr, pic'["S"].isr, active'[1])
    <3>1. CASE n > 1
      <4>1. active'[1] = active[1]
        BY <1>5, <1>9, <3>1
      <4>2. ~handler_eoi
        <5>1. handler_eoi => Len(active) = 1
          BY <1>3, EoiEffect
        <5> QED BY <1>4, <3>1, <5>1
      <4> QED BY <1>6, <1>7, <4>1, <4>2
    <3>2. CASE n = 1
      <4>1. active[1] = a /\ active'[1] = b
        BY <1>5, <2>1, <3>2
      <4>2. CASE a.stage \in Early /\ b.stage \in Early /\ ~handler_eoi
        BY <1>6, <1>7, <2>2, <4>1, <4>2, ServedOn
      <4>3. CASE b = a /\ ~handler_eoi
        BY <1>6, <1>7, <4>1, <4>3
      <4>4. CASE /\ a.stage \in Early /\ b.stage = "handler" /\ ~handler_eoi
                 /\ b.todo = IF a.vector < PIC_PRIMARY_OFFSET THEN <<>> ELSE pic_notify_eoi(a.vector - PIC_PRIMARY_OFFSET)
                 /\ g_handlers[a.vector] = "driver"
        <5>1. CASE a.cause = "exception"
          BY <1>6, <1>7, <2>2, <4>1, <4>4, <5>1, ServedOn
        <5>2. CASE a.cause # "exception"
          <6>1. pc \notin Booting
            <7>1. a.vector \in Vectors
              BY <1>5 DEF Activations
            <7> QED BY <4>4, <7>1 DEF IInv, Masks
          <6>2. a.vector = Vector(a.irq)
            BY <1>5, <4>1, <5>2, <6>1 DEF IInv, Nesting, Booting
          <6>3. PICK irq \in 0 .. 15 : irq = a.irq
            BY <1>5 DEF Activations
          <6>4. ~(a.vector < PIC_PRIMARY_OFFSET) /\ a.vector - PIC_PRIMARY_OFFSET = irq
            BY <6>2, <6>3 DEF Vector, PIC_PRIMARY_OFFSET
          <6>5. b.todo = pic_notify_eoi(b.irq)
            BY <2>2, <4>4, <6>3, <6>4
          <6> QED BY <1>6, <1>7, <2>2, <4>1, <4>4, <6>5, ServedOn
        <5> QED BY <5>1, <5>2
      <4>5. CASE a.stage = "handler" /\ b.stage = "handler" /\ b.todo = Tail(a.todo) /\ handler_eoi
        <5>1. /\ a.cause # "exception"
              /\ \/ Tail(a.todo) = <<>> /\ pic'["P"].isr = {} /\ pic'["S"].isr = {}
                 \/ /\ ~pic_irq_is_primary(a.irq) /\ Tail(a.todo) = Tail(pic_notify_eoi(a.irq))
                    /\ pic'["P"].isr = {IRQ_CASCADE} /\ pic'["S"].isr = {}
          BY <1>3, <4>5, EoiEffect
        <5> QED BY <2>2, <4>1, <4>5, <5>1 DEF Served
      <4>6. CASE a.stage = "handler" /\ b.stage = "restore" /\ a.todo = <<>> /\ b.todo = <<>> /\ ~handler_eoi
        BY <1>6, <1>7, <2>2, <4>1, <4>6, ServedOn
      <4> QED BY <2>3, <4>2, <4>3, <4>4, <4>5, <4>6
    <3> QED BY <1>5, <3>1, <3>2
  <2> QED BY <2>4, <2>5, <2>6, <2>7 DEF ServedBy
<1>10. \/ isr_common_restore /\ a.stage = "restore" /\ active' = Front(active) /\ halted' = halted
       \/ /\ active' \in Seq(Activations) /\ Len(active') = n /\ \A k \in 1 .. n - 1 : active'[k] = active[k]
          /\ ~isr_common_restore
  <2>1. isr_common_restore => active' = Front(active) /\ halted' = halted /\ a.stage = "restore"
    BY <1>3 DEF isr_common_restore, In
  <2> QED BY <1>3, <1>4, <2>1, Progress
<1> QED BY <1>8, <1>9, <1>10

\* What is in service when an interrupt or an exception starts: what the acknowledge cycle
\* took, for a device with a handler.
LEMMA EnteredServing ==
    ASSUME IInv, [Next]_vars, ~EarlyTrap, interrupt \/ spurious_interrupt \/ Trap
    PROVE  ServedBy(pic'["P"].isr, pic'["S"].isr, active', g_handlers', halted')
PROOF
<1>1. ServedBy(pic["P"].isr, pic["S"].isr, active, g_handlers, halted)
  BY DEF IInv, Serving, InService, ServedBy, Served
<1>2. halted = "no" /\ pc \notin PreIdt /\ pc' = pc /\ g_handlers' = g_handlers
  BY Entered DEF kernel, tables
<1>3. halted' = "no"
  BY Entering
<1>4. PICK n : n = Len(active)
  OBVIOUS
<1>5. CASE interrupt \/ spurious_interrupt
  <2>1. PICK b \in Activations :
          /\ active = <<>> /\ active' = Append(active, b) /\ b.stage = "stub"
          /\ \/ /\ b.cause = "interrupt" /\ b.irq \in Devices /\ pic_irq_delta(b.irq) \notin pic[Chip(b.irq)].imr
                /\ \/ pic_irq_is_primary(b.irq) /\ pic'["P"].isr = {b.irq} /\ pic'["S"].isr = {}
                   \/ ~pic_irq_is_primary(b.irq) /\ pic'["P"].isr = {IRQ_CASCADE} /\ pic'["S"].isr = {b.irq - 8}
             \/ /\ b.cause = "spurious"
                /\ \/ pic_irq_is_primary(b.irq) /\ pic'["P"].isr = {} /\ pic'["S"].isr = {}
                   \/ ~pic_irq_is_primary(b.irq) /\ pic'["P"].isr = {IRQ_CASCADE} /\ pic'["S"].isr = {}
    BY <1>5, Acknowledged
  <2>2. n = 0 /\ DOMAIN active' = 1 .. 1 /\ active'[1] = b /\ active' # <<>>
    <3>1. n = 0
      BY <1>4, <2>1
    <3> QED BY <1>4, <2>1, <3>1, Appended
  <2>3. Served(pic'["P"].isr, pic'["S"].isr, b)
    BY <2>1 DEF Served, Early
  <2>4. ASSUME b.cause = "interrupt", ~b.early PROVE g_handlers[b.vector] = "driver"
    <3>1. Nesting'
      BY NestingStep
    <3>2. pc # "boot" /\ b.vector = Vector(b.irq)
      BY <1>2, <2>2, <2>4, <3>1 DEF Nesting
    <3>3. pc # "sti"
      BY <1>5, External
    <3>4. pc \notin Booting
      BY <1>2, <3>2, <3>3 DEF Booting
    <3>5. b.irq \in Devices /\ pic_irq_delta(b.irq) \notin pic[Chip(b.irq)].imr
      BY <2>1, <2>4
    <3> QED BY <3>2, <3>4, <3>5 DEF IInv, Masks
  <2> QED BY <1>2, <1>3, <2>2, <2>3, <2>4 DEF ServedBy
<1>6. CASE Trap
  <2>1. PICK v \in Exceptions : Deliver(v, "exception", 0)
    BY <1>6 DEF Trap, exception
  <2>2. v \in Vectors /\ 0 \in 0 .. 15 /\ pic' = pic
    BY <1>6, InterruptsAssumption DEF Trap, exception
  <2>3. PICK b \in Activations : active' = Append(active, b) /\ b.cause = "exception"
    BY <1>2, <2>1, <2>2, DeliveredAs
  <2>4. /\ n \in Nat /\ active'[n + 1] = b /\ \A k \in 1 .. n : active'[k] = active[k]
        /\ DOMAIN active' = 1 .. n + 1 /\ DOMAIN active = 1 .. n /\ active' # <<>>
    BY <1>4, <2>3, Appended
  <2>5. ASSUME NEW k \in 1 .. n + 1, active'[k].cause = "interrupt", ~active'[k].early
        PROVE  g_handlers[active'[k].vector] = "driver"
    <3>1. k # n + 1
      BY <2>3, <2>4, <2>5
    <3>2. k \in 1 .. n /\ active'[k] = active[k]
      BY <2>4, <3>1
    <3> QED BY <1>1, <2>4, <2>5, <3>2 DEF ServedBy
  <2>6. Served(pic["P"].isr, pic["S"].isr, active'[1])
    <3>1. CASE n = 0
      <4>1. active = <<>> /\ active'[1] = b
        BY <1>4, <2>4, <3>1, EmptySeq DEF IInv, Nesting
      <4> QED BY <1>1, <2>3, <4>1 DEF ServedBy, Served
    <3>2. CASE n > 0
      <4>1. active # <<>> /\ active'[1] = active[1]
        BY <1>4, <2>4, <3>2
      <4> QED BY <1>1, <4>1 DEF ServedBy
    <3> QED BY <2>4, <3>1, <3>2
  <2> QED BY <1>2, <1>3, <2>2, <2>4, <2>5, <2>6 DEF ServedBy
<1> QED BY <1>5, <1>6

\* What is in service, at every step.
LEMMA ServingStep ==
    ASSUME IInv, [Next]_vars, ~EarlyTrap
    PROVE  Serving'
PROOF
<1>1. ServedBy(pic["P"].isr, pic["S"].isr, active, g_handlers, halted)
  BY DEF IInv, Serving, InService, ServedBy, Served
<1>2. SUFFICES ServedBy(pic'["P"].isr, pic'["S"].isr, active', g_handlers', halted')
  BY DEF Serving, InService, ServedBy, Served
<1>3. CASE Boot \/ Driver
  <2>1. active = <<>> /\ active' = <<>> /\ halted' = "no"
    BY <1>3, KernelStep
  <2>2. pic'["P"].isr = {} /\ pic'["S"].isr = {}
    BY <1>1, <1>3, <2>1, ServingKept DEF ServedBy, Chips
  <2> QED BY <2>1, <2>2 DEF ServedBy
<1>4. CASE raise \/ UNCHANGED vars
  <2>1. active' = active /\ halted' = halted /\ g_handlers' = g_handlers
    BY <1>4 DEF raise, vars, tables
  <2>2. pic'["P"].isr = pic["P"].isr /\ pic'["S"].isr = pic["S"].isr
    BY <1>1, <1>4, ServingKept DEF ServedBy, Chips
  <2> QED BY <1>1, <2>1, <2>2
<1>5. CASE Service
  BY <1>5, ServiceServing
<1>6. CASE interrupt \/ spurious_interrupt \/ Trap
  BY <1>6, EnteredServing
<1> QED BY <1>3, <1>4, <1>5, <1>6, Kinds

(* ---- the theorems ---- *)

\* An exception before the gates are filled in resets the machine and changes nothing else.
LEMMA EarlyTrapStep ==
    ASSUME IInv, EarlyTrap
    PROVE  IInv'
PROOF
<1>1. PICK v \in Vectors : Deliver(v, "exception", 0)
  BY InterruptsAssumption DEF EarlyTrap, exception
<1>2. idt[v] = NoGate
  BY DEF IInv, Tables, EarlyTrap
<1>3. halted' = "reset" /\ cpu' = cpu /\ active' = active
  BY <1>1, <1>2 DEF Deliver
<1>4. /\ kernel' = kernel /\ tables' = tables /\ pic' = pic
      /\ pc = "gates" /\ traps < MaxTraps /\ traps' = traps + 1
  BY DEF EarlyTrap, exception
<1>5. active = <<>> /\ cpu.if = 0
  BY <1>4 DEF IInv, Control, PreIdt
<1>6. Control'
  <2>1. traps' \in 0 .. MaxTraps /\ Len(active') <= traps' + 1
    <3>1. traps \in 0 .. MaxTraps /\ Len(active) <= traps + 1
      BY DEF IInv, Control
    <3>2. Len(active) = 0 /\ MaxTraps \in Nat
      BY <1>5, InterruptsAssumption
    <3> QED BY <1>3, <1>4, <3>1, <3>2
  <2> QED BY <1>3, <1>4, <2>1 DEF IInv, Control, kernel
<1>7. Tables'
  BY <1>3, <1>4, <1>5 DEF IInv, Tables, kernel, tables
<1>8. Nesting' /\ Stack'
  BY <1>3, <1>5 DEF IInv, Nesting, Stack
<1>9. Masks'
  <2>1. pic \in [Chips -> Controllers] /\ \A c \in Chips : pic[c].irr \subseteq Lines(c)
    BY DEF IInv, Masks
  <2> QED BY <1>4, <2>1, MasksKept
<1>10. Serving'
  BY <1>3, <1>4, <1>5 DEF IInv, Serving, InService
<1> QED BY <1>6, <1>7, <1>8, <1>9, <1>10 DEF IInv

\* Every step keeps the whole invariant.
LEMMA Step ==
    ASSUME IInv, [Next]_vars
    PROVE  IInv'
PROOF
<1>1. CASE EarlyTrap
  BY <1>1, EarlyTrapStep
<1>2. CASE ~EarlyTrap
  BY <1>2, ControlStep, TablesStep, NestingStep, StackStep, MasksStep, ServingStep DEF IInv
<1> QED BY <1>1, <1>2

\* The invariant keeps the stack pointer on the stack: 28 words are enough for each
\* interrupt that is being served.
LEMMA Types == ASSUME IInv PROVE TypeOK
PROOF
<1>1. StackTop \in Nat /\ StackTop >= 28 /\ MaxTraps \in Nat
  BY InterruptsAssumption
<1>2. cpu.regs["rsp"] \in 0 .. StackTop
  <2>1. CASE active = <<>>
    BY <1>1, <2>1 DEF IInv, Stack
  <2>2. CASE active # <<>>
    <3>1. PICK a : a = Last(active)
      OBVIOUS
    <3>2. a \in Activations /\ cpu.regs["rsp"] = StackPointer(a) /\ a.was.regs["rsp"] \in 28 .. StackTop
      BY <2>2, <3>1, Innermost
    <3>3. PICK sp \in 28 .. StackTop : sp = a.was.regs["rsp"]
      BY <3>2
    <3>4. PICK e : e = Entry(a)
      OBVIOUS
    <3>5. /\ e \in Int /\ sp - 1 <= e /\ e <= sp
          /\ Base(a) = e - 6 \/ Base(a) = e - 7
          /\ Bottom(a) = e - 25 \/ Bottom(a) = e - 27
          /\ Bottom(a) >= sp - 28
      BY <3>2, <3>3, <3>4, FrameShape
    <3>6. StackPointer(a) \in {e - 5, e - 6, Base(a), Bottom(a), Bottom(a) + 1}
      BY <3>4 DEF StackPointer
    <3> QED BY <1>1, <3>2, <3>5, <3>6
  <2> QED BY <2>1, <2>2
<1>3. cpu.if \in {0, 1}
  BY DEF IInv, Stack, Machines
<1>4. \A c \in {"P", "S"} : pic[c].imr \cup pic[c].irr \cup pic[c].isr \subseteq 0 .. 7
  <2>1. \A c \in {"P", "S"} : pic[c] \in Controllers
    BY DEF IInv, Masks, Chips
  <2> QED BY <2>1 DEF Controllers
<1> QED BY <1>2, <1>3, <1>4 DEF IInv, Control, TypeOK, Booting, PreIdt, Calling

\* The invariant's tables and its innermost interrupt give the stub.
LEMMA OwnStub == ASSUME IInv PROVE ReachesOwnStub
PROOF
<1>1. In("stub") => cpu.rip = Stub(Last(active).vector)
  BY DEF IInv, Stack, In
<1> QED BY <1>1 DEF IInv, Tables, ReachesOwnStub

\* The frame of the innermost interrupt is the context its handler gets.
LEMMA Contexts == ASSUME IInv PROVE ContextFaithful
PROOF
<1>1. SUFFICES ASSUME In("dispatch"), ~Misplaced(Last(active)), NEW a, a = Last(active), NEW ctx, ctx = cpu.regs["rdi"]
               PROVE  /\ vector(ctx) = a.vector
                      /\ error_code(ctx) = ErrorOf(a)
                      /\ cpu.mem[ctx + 18] = 1 /\ cpu.mem[ctx + 19] = CS /\ cpu.mem[ctx + 20] = a.was.if
                      /\ \A i \in DOMAIN intr_regs :
                            cpu.mem[ctx + i - 1] = IF intr_regs[i] = "rsp" THEN ctx + i ELSE a.was.regs[intr_regs[i]]
                      /\ cpu.mem[ctx + 21] = a.was.regs["rsp"]
                      /\ cpu.regs["rsp"] % 2 = 1
  BY DEF ContextFaithful, ErrorOf
<1>2. active # <<>> /\ a.stage = "dispatch"
  BY <1>1 DEF In
<1>3. /\ a \in Activations /\ cpu.regs["rsp"] = StackPointer(a)
      /\ PushedByCpu(cpu.mem, a) /\ PushedByStub(cpu.mem, a) /\ PushedByCommon(cpu.mem, a)
  BY <1>1, <1>2, Innermost DEF Frame
<1>4. ctx = Ctx(a) /\ cpu.regs["rsp"] = Bottom(a)
  BY <1>1, <1>2, <1>3 DEF IInv, Stack, StackPointer
<1>5. PICK e : e = Entry(a)
  OBVIOUS
<1>6. PICK sp : sp = a.was.regs["rsp"]
  OBVIOUS
<1>7. e \in Int /\ Base(a) = e - 7 /\ Ctx(a) = e - 23 /\ Bottom(a) % 2 = 1
  BY <1>1, <1>3, <1>5, <1>6, FrameShape
<1>8. ctx + 16 = Base(a) /\ ctx + 17 = Base(a) + 1 /\ ctx + 18 = e - 5 /\ ctx + 19 = e - 4 /\ ctx + 20 = e - 3 /\ ctx + 21 = e - 2
  BY <1>4, <1>7
<1>9. vector(ctx) = a.vector /\ error_code(ctx) = ErrorOf(a)
  BY <1>1, <1>3, <1>8 DEF vector, error_code, PushedByStub
<1>10. /\ cpu.mem[ctx + 18] = 1 /\ cpu.mem[ctx + 19] = CS /\ cpu.mem[ctx + 20] = a.was.if
       /\ cpu.mem[ctx + 21] = a.was.regs["rsp"]
  BY <1>3, <1>5, <1>8 DEF PushedByCpu
<1>11. \A i \in DOMAIN intr_regs :
         cpu.mem[ctx + i - 1] = IF intr_regs[i] = "rsp" THEN ctx + i ELSE a.was.regs[intr_regs[i]]
  BY <1>3, <1>4, Registers DEF PushedByCommon
<1> QED BY <1>4, <1>7, <1>9, <1>10, <1>11

\* A device's interrupt after pic_init has a driver, so that what stops the kernel is not one.
LEMMA Unhandled == ASSUME IInv PROVE UnhandledIsEarlyOrSpurious
PROOF
<1>1. SUFFICES ASSUME halted = "unhandled", Last(active).cause \notin {"exception", "spurious"}, ~Last(active).early PROVE FALSE
  BY DEF UnhandledIsEarlyOrSpurious
<1>2. active # <<>> /\ g_handlers[Last(active).vector] = "default_unhandled"
  BY <1>1 DEF IInv, Serving
<1>3. PICK a : a = Last(active)
  OBVIOUS
<1>4. a \in Activations /\ a = active[Len(active)] /\ Len(active) \in DOMAIN active
  BY <1>2, <1>3, Innermost
<1>5. a.cause = "interrupt" /\ ~a.early
  BY <1>1, <1>3, <1>4 DEF Activations
<1>6. g_handlers[a.vector] = "driver"
  BY <1>4, <1>5 DEF IInv, Serving
<1> QED BY <1>2, <1>3, <1>6

\* What is in service is the outermost interrupt's.
LEMMA InServiceBy == ASSUME IInv PROVE InServiceIsServed
PROOF
<1>1. ServedBy(pic["P"].isr, pic["S"].isr, active, g_handlers, halted)
  BY DEF IInv, Serving, InService, ServedBy, Served
<1>2. CASE active = <<>>
  BY <1>1, <1>2 DEF ServedBy, InServiceIsServed
<1>3. CASE active # <<>>
  <2>1. active \in Seq(Activations)
    BY DEF IInv, Nesting
  <2>2. 1 \in DOMAIN active /\ active[1] \in Activations
    BY <1>3, <2>1
  <2>3. PICK a \in Activations : a = active[1]
    BY <2>2
  <2>4. Served(pic["P"].isr, pic["S"].isr, a)
    BY <1>1, <1>3, <2>3 DEF ServedBy
  <2>5. PICK P : P = pic["P"].isr
    OBVIOUS
  <2>6. PICK S : S = pic["S"].isr
    OBVIOUS
  <2>7. \A l \in P : a.cause # "exception" /\ ((Chip(a.irq) = "P" /\ l = pic_irq_delta(a.irq)) \/ (l = IRQ_CASCADE /\ ~pic_irq_is_primary(a.irq)))
    BY <2>4, <2>5, <2>6 DEF Served, Chip, pic_irq_delta
  <2>8. \A l \in S : a.cause # "exception" /\ Chip(a.irq) = "S" /\ l = pic_irq_delta(a.irq)
    BY <2>4, <2>5, <2>6 DEF Served, Chip, pic_irq_delta
  <2> QED BY <2>2, <2>3, <2>5, <2>6, <2>7, <2>8 DEF InServiceIsServed
<1> QED BY <1>2, <1>3

\* The invariant of the interrupts: in gdt_init, intr_init_all_vectors, pic_init, the
\* drivers' calls, the stubs and the handlers, whatever devices and exceptions do, each
\* interrupt's frame stays as isr_common laid it out until isr_common reads it back, and
\* each controller has in service what the outermost handler will end.
THEOREM InvariantHolds == Spec => []IInv
PROOF
<1>1. Init => IInv
  BY Initially
<1>2. IInv /\ [Next]_vars => IInv'
  BY Step
<1> QED BY <1>1, <1>2, PTL DEF Spec

\* The pushes of nested exceptions and interrupts never leave the stack, and every mask
\* and request pic.c reads and writes is a byte.
THEOREM TypeCorrect == Spec => []TypeOK
PROOF
<1>1. IInv => TypeOK
  BY Types
<1> QED BY <1>1, InvariantHolds, PTL

\* What is taken once intr_init_all_vectors has filled in the gates enters the stub of its own
\* vector through the gate idt_set_gate built; only an exception in the window after idt_init's LIDT
\* resets the machine, with interrupts still off; the descriptor of set_tss_desc reads back as g_tss.
THEOREM StubsReached == Spec => []ReachesOwnStub
PROOF
<1>1. IInv => ReachesOwnStub
  BY OwnStub
<1> QED BY <1>1, InvariantHolds, PTL

\* intr_dispatch_entry gets the vector, the error code, the return address, the flags and
\* fifteen registers of what was interrupted, on a stack aligned as the C code expects, for
\* both alignments of the interrupted stack and at any depth of nesting.  The sixteenth, rsp, is not
\* in intr_context_t: its slot holds the stack pointer of isr_common's own push, and the interrupted
\* one is in the word above the context that the processor pushed.
THEOREM ContextsFaithful == Spec => []ContextFaithful
PROOF
<1>1. IInv => ContextFaithful
  BY Contexts
<1> QED BY <1>1, InvariantHolds, PTL

\* No device's interrupt that arrives after pic_init finds default_unhandled: a driver's
\* line is unmasked only while its handler is registered.
THEOREM UnhandledExplained == Spec => []UnhandledIsEarlyOrSpurious
PROOF
<1>1. IInv => UnhandledIsEarlyOrSpurious
  BY Unhandled
<1> QED BY <1>1, InvariantHolds, PTL

\* The ends that pic_notify_eoi writes end the interrupt they are written for: nothing else
\* is ever in service.
THEOREM ServiceMatches == Spec => []InServiceIsServed
PROOF
<1>1. IInv => InServiceIsServed
  BY InServiceBy
<1> QED BY <1>1, InvariantHolds, PTL

\* The iretq of isr_common returns to exactly what was interrupted.
THEOREM ReturnsResume == Spec => ResumesExactly
PROOF
<1>1. ASSUME IInv, [Next]_vars, Len(active') < Len(active)
      PROVE  LET was == Last(active).was IN cpu'.regs = was.regs /\ cpu'.rip = was.rip /\ cpu'.if = was.if
  <2>1. PICK a : a = Last(active)
    OBVIOUS
  <2>2. PICK n : n = Len(active)
    OBVIOUS
  <2>3. n \in Nat
    BY <2>2, LenProperties DEF IInv, Nesting
  <2>4. CASE Boot \/ Driver \/ raise \/ UNCHANGED vars \/ EarlyTrap
    <3>1. active' = active
      <4>1. CASE EarlyTrap
        <5>1. PICK v \in Vectors : Deliver(v, "exception", 0)
          BY <4>1, InterruptsAssumption DEF EarlyTrap, exception
        <5>2. idt[v] = NoGate
          BY <1>1, <4>1 DEF IInv, Tables, EarlyTrap
        <5> QED BY <5>1, <5>2 DEF Deliver
      <4> QED BY <2>4, <4>1, KernelStep DEF raise, vars
    <3> QED BY <1>1, <2>2, <2>3, <3>1
  <2>5. CASE interrupt \/ spurious_interrupt \/ Trap
    <3>1. PICK b \in Activations : active' = Append(active, b)
      BY <1>1, <2>2, <2>5, Arrival
    <3>2. Len(active') = n + 1
      BY <1>1, <2>2, <3>1, Appended
    <3> QED BY <1>1, <2>2, <2>3, <3>2
  <2>6. CASE Service
    <3>1. isr_common_restore \/ Len(active') = n
      BY <1>1, <2>1, <2>2, <2>6, Progress
    <3>2. isr_common_restore
      BY <1>1, <2>2, <2>3, <3>1
    <3> QED BY <1>1, <2>1, <3>2, RestoreEffect
  <2> QED BY <1>1, <2>4, <2>5, <2>6, Kinds
<1>2. IInv /\ [Next]_vars => [Len(active') < Len(active) =>
        LET was == Last(active).was IN cpu'.regs = was.regs /\ cpu'.rip = was.rip /\ cpu'.if = was.if]_vars
  BY <1>1
<1> QED BY <1>2, InvariantHolds, PTL DEF Spec, ResumesExactly

=============================================================================
