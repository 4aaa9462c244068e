------------------------- MODULE BrowserQueueProofs -------------------------
(***************************************************************************)
(* What the browser transport hands out is what it took, for any layout of *)
(* its memory, any sizes and any number of frames.                         *)
(***************************************************************************)
EXTENDS BrowserQueue, FiniteSetTheorems, SequenceTheorems, TLAPS

-----------------------------------------------------------------------------
(* Multiples of the alignment.                                             *)

LEMMA Multiple ==
  ASSUME NEW a \in Nat \ {0}, NEW k \in Nat
  PROVE  (k * a) % a = 0 /\ k * a \in Nat
BY SMTT(30)

LEMMA Parts ==
  ASSUME NEW a \in Nat \ {0}, NEW n \in Nat
  PROVE  /\ n \div a \in Nat /\ n % a \in 0 .. (a - 1)
         /\ n = (n \div a) * a + (n % a)
BY SMTT(30)

LEMMA NextMultiple ==
  ASSUME NEW a \in Nat \ {0}, NEW i \in Nat, NEW j \in Nat, i * a < j * a
  PROVE  i * a + a <= j * a
<1>1. i < j
  BY SMTT(30)
<1>2. PICK d \in Nat : j = i + 1 + d
  <2>1. j = i + 1 + (j - i - 1) /\ j - i - 1 \in Nat
    BY <1>1
  <2> QED
    BY <2>1
<1>3. j * a = i * a + a + d * a /\ d * a \in Nat
  BY <1>2, SMTT(30)
<1> QED
  BY <1>3

Aligned(x) == x \in Nat /\ x % Align = 0

LEMMA Layout ==
  /\ Base \in Nat \ {0} /\ Limit \in Nat \ {0} /\ Q \in Nat \ {0} /\ Cap \in Nat \ {0}
  /\ Align \in Nat \ {0} /\ KeySize \in Nat \ {0} /\ IdSize \in Nat \ {0}
  /\ Base + 2 * KeySize < Limit /\ Limit <= Q /\ IdSize <= KeySize
  /\ Aligned(Base) /\ Aligned(KeySize) /\ Aligned(IdSize) /\ Aligned(Limit)
BY LayoutAssumption DEF Aligned

LEMMA AlignedMultiple ==
  ASSUME NEW x, Aligned(x)
  PROVE  \E k \in Nat : x = k * Align
<1>1. x \div Align \in Nat /\ x = (x \div Align) * Align + (x % Align)
  BY Layout, Parts DEF Aligned
<1>2. (x \div Align) * Align \in Nat
  BY <1>1, Layout, Multiple
<1>3. x = (x \div Align) * Align
  BY <1>1, <1>2 DEF Aligned
<1> QED
  BY <1>1, <1>3

LEMMA AlignedSum ==
  ASSUME NEW x, Aligned(x), NEW y, Aligned(y)
  PROVE  Aligned(x + y)
<1>1. PICK i \in Nat : x = i * Align
  BY AlignedMultiple
<1>2. PICK j \in Nat : y = j * Align
  BY AlignedMultiple
<1> DEFINE k == i + j
<1>3. x + y = k * Align
  BY <1>1, <1>2, Layout, SMTT(30)
<1>4. k \in Nat
  OBVIOUS
<1> HIDE DEF k
<1>5. (k * Align) % Align = 0 /\ k * Align \in Nat
  BY <1>4, Layout, Multiple
<1> QED
  BY <1>3, <1>5 DEF Aligned

LEMMA AlignedApart ==
  ASSUME NEW x, Aligned(x), NEW y, Aligned(y), x < y
  PROVE  x + Align <= y
<1>1. PICK i \in Nat : x = i * Align
  BY AlignedMultiple
<1>2. PICK j \in Nat : y = j * Align
  BY AlignedMultiple
<1> QED
  BY <1>1, <1>2, Layout, NextMultiple

LEMMA AlignUpFacts ==
  ASSUME NEW a \in Nat
  PROVE  /\ Aligned(AlignUp(a))
         /\ a <= AlignUp(a) /\ AlignUp(a) < a + Align
         /\ \A y : Aligned(y) /\ a <= y => AlignUp(a) <= y
<1> DEFINE n == a + Align - 1
           up == (n \div Align) * Align
<1>1. n \in Nat
  BY Layout
<1>2. n \div Align \in Nat /\ n % Align \in 0 .. (Align - 1) /\ n = up + (n % Align)
  <2> HIDE DEF n
  <2> QED
    BY <1>1, Layout, Parts
<1>3. Aligned(up)
  <2> HIDE DEF n
  <2> QED
    BY <1>2, Layout, Multiple DEF Aligned
<1>4. up \in Nat
  BY <1>3 DEF Aligned
<1> HIDE DEF up
<1>5. a <= up /\ up < a + Align
  BY <1>2, <1>4, Layout
<1>6. ASSUME NEW y, Aligned(y), a <= y PROVE up <= y
  <2>1. y \in Nat
    BY <1>6 DEF Aligned
  <2>2. y < up => y + Align <= up
    BY <1>3, <1>6, AlignedApart
  <2> QED
    BY <1>4, <1>5, <1>6, <2>1, <2>2, Layout
<1> QED
  BY <1>3, <1>5, <1>6 DEF up, AlignUp

-----------------------------------------------------------------------------
(* The heap.                                                               *)

Heap(b) == b \in Base .. Limit /\ Aligned(b)

LEMMA AllocFacts ==
  ASSUME NEW b, Aligned(b), b >= Base, NEW n \in Nat
  PROVE  /\ Aligned(Alloc(b, n)) /\ Alloc(b, n) >= Base
         /\ Alloc(b, n) = Base \/ Alloc(b, n) + n <= Limit
BY Layout DEF Alloc, Aligned

LEMMA AfterFacts ==
  ASSUME NEW b, Aligned(b), b >= Base, NEW n \in Nat
  PROVE  /\ Aligned(After(b, n)) /\ After(b, n) >= Base
         /\ Base + n <= Limit => Heap(After(b, n)) /\ Alloc(b, n) + n <= Limit
<1> DEFINE start == Alloc(b, n)
<1>1. start \in Nat /\ start >= Base /\ (start = Base \/ start + n <= Limit)
  BY AllocFacts DEF Aligned
<1> HIDE DEF start
<1>2. /\ Aligned(AlignUp(start + n)) /\ start + n <= AlignUp(start + n)
      /\ start + n <= Limit => AlignUp(start + n) <= Limit
  BY <1>1, AlignUpFacts, Layout
<1>3. AlignUp(start + n) \in Nat
  BY <1>2 DEF Aligned
<1>4. AlignUp(start + n) >= Base
  BY <1>1, <1>2, <1>3, Layout
<1>5. Base + n <= Limit => start + n <= Limit
  BY <1>1, Layout
<1> QED
  BY <1>2, <1>3, <1>4, <1>5, Layout DEF start, After, Heap

(***************************************************************************)
(* A frame that is not larger than the memory below the queue stays out of *)
(* the queue, and the recipient put after a safe one stays out of it.      *)
(***************************************************************************)
LEMMA ArgumentsApart ==
  ASSUME NEW b, Heap(b), NEW n \in Nat
  PROVE  LET a == Alloc(b, n)
             r == Alloc(After(b, n), KeySize)
         IN  /\ a \in Nat /\ r \in Nat /\ a >= Base /\ r >= Base
             /\ r + KeySize <= Q
             /\ n <= Q - Base => a + n <= Q
             /\ n <= SafeSize => r + KeySize <= a \/ a + n <= r
<1> DEFINE a == Alloc(b, n)
           up == After(b, n)
           r == Alloc(up, KeySize)
<1>1. b \in Nat /\ b >= Base /\ Aligned(b)
  BY Layout DEF Heap
<1>2. Aligned(a) /\ a \in Nat /\ a >= Base /\ (a = Base \/ a + n <= Limit)
  BY <1>1, AllocFacts DEF Aligned
<1>3. Aligned(up) /\ up \in Nat /\ up >= Base
  BY <1>1, AfterFacts DEF Aligned
<1>4. r \in Nat /\ r >= Base /\ r = IF up + KeySize > Limit THEN Base ELSE up
  BY <1>3, AllocFacts, Layout DEF Aligned, Alloc
<1>5. a + n <= up /\ \A y : Aligned(y) /\ a + n <= y => up <= y
  <2>1. up = AlignUp(a + n) /\ a + n \in Nat
    BY <1>2 DEF After
  <2> HIDE DEF up, a
  <2> QED
    BY <2>1, AlignUpFacts
<1> HIDE DEF a, up, r
<1>6. r + KeySize <= Q
  BY <1>3, <1>4, Layout
<1>7. n <= Q - Base => a + n <= Q
  BY <1>2, Layout
<1>8. ASSUME n <= SafeSize, up + KeySize > Limit PROVE Base + KeySize <= a
  <2>1. Aligned(Limit - KeySize)
    <3>1. PICK i \in Nat : Limit = i * Align
      BY Layout, AlignedMultiple
    <3>2. PICK j \in Nat : KeySize = j * Align
      BY Layout, AlignedMultiple
    <3>3. Limit - KeySize = (i - j) * Align /\ i - j \in Nat
      BY <3>1, <3>2, Layout, SMTT(30)
    <3> QED
      BY <3>3, Layout, Multiple DEF Aligned
  <2>2. a + n > Limit - KeySize
    BY <1>2, <1>3, <1>5, <1>8, <2>1, Layout
  <2>3. a > Base + KeySize - Align
    BY <1>2, <1>8, <2>2, Layout DEF SafeSize
  <2>4. Aligned(Base + KeySize)
    BY Layout, AlignedSum
  <2>5. a < Base + KeySize => a + Align <= Base + KeySize
    BY <1>2, <2>4, AlignedApart
  <2> QED
    BY <1>2, <2>3, <2>5, Layout
<1>9. n <= SafeSize => r + KeySize <= a \/ a + n <= r
  BY <1>2, <1>3, <1>4, <1>5, <1>8, Layout
<1> QED
  BY <1>2, <1>4, <1>6, <1>7, <1>9 DEF a, r, up

-----------------------------------------------------------------------------
(* FlattenSeq.                                                             *)

(***************************************************************************)
(* Induction, for a set in place of a predicate.                           *)
(***************************************************************************)
LEMMA Induction ==
  ASSUME NEW T, T \subseteq Nat, 0 \in T, \A n \in T : n + 1 \in T
  PROVE  \A n \in Nat : n \in T
<1> DEFINE Rest == Nat \ T
<1> SUFFICES ASSUME Rest # {} PROVE FALSE
  OBVIOUS
<1> DEFINE R == OpToRel(<, Nat)
<1>1. PICK z \in Rest : \A y \in Rest : << y, z >> \notin R
  <2> HIDE DEF Rest, R
  <2>1. IsWellFoundedOn(R, Nat)
    BY NatLessThanWellFounded DEF R
  <2>2. Rest \subseteq Nat
    BY DEF Rest
  <2> QED
    BY <2>1, <2>2, WFMin
<1> HIDE DEF R
<1>2. z \in Nat /\ z # 0 /\ z - 1 \in Nat
  OBVIOUS
<1>3. z - 1 \notin T
  <2>1. z - 1 + 1 = z
    BY <1>2
  <2> QED
    BY <2>1
<1>4. << z - 1, z >> \in R
  BY <1>2 DEF R, OpToRel
<1> QED
  BY <1>1, <1>2, <1>3, <1>4

\* The prefixes of s, one after the other.
IsFlat(f, s) ==
  f = [ i \in 1 .. Len(s) |-> IF i = 1 THEN s[i] ELSE f[i - 1] \o s[i] ]

LEMMA FlatExists ==
  ASSUME NEW C, NEW s \in Seq(Seq(C))
  PROVE  \E f \in [1 .. Len(s) -> Seq(C)] : IsFlat(f, s)
<1> DEFINE Upto(n) == \E f \in [1 .. n -> Seq(C)] :
             f = [ i \in 1 .. n |-> IF i = 1 THEN s[i] ELSE f[i - 1] \o s[i] ]
           T == { n \in Nat : n <= Len(s) => Upto(n) }
<1>1. 0 \in T
  <2> DEFINE f == [ i \in 1 .. 0 |-> << >> ]
  <2>1. f \in [1 .. 0 -> Seq(C)]
    OBVIOUS
  <2>2. f = [ i \in 1 .. 0 |-> IF i = 1 THEN s[i] ELSE f[i - 1] \o s[i] ]
    OBVIOUS
  <2> QED
    BY <2>1, <2>2
<1>2. ASSUME NEW n \in T PROVE n + 1 \in T
  <2> SUFFICES ASSUME n + 1 <= Len(s) PROVE Upto(n + 1)
    <3> HIDE DEF Upto
    <3> QED
      OBVIOUS
  <2>0. Len(s) \in Nat /\ n \in Nat /\ n <= Len(s)
    OBVIOUS
  <2>1. PICK f \in [1 .. n -> Seq(C)] :
          f = [ i \in 1 .. n |-> IF i = 1 THEN s[i] ELSE f[i - 1] \o s[i] ]
    BY <2>0
  <2> DEFINE x == IF n = 0 THEN s[1] ELSE f[n] \o s[n + 1]
             g == [ i \in 1 .. (n + 1) |-> IF i = n + 1 THEN x ELSE f[i] ]
  <2>2. x \in Seq(C)
    <3>1. CASE n = 0
      BY <2>0, <3>1
    <3>2. CASE n # 0
      BY <2>0, <3>2, ConcatProperties
    <3> QED
      BY <3>1, <3>2
  <2>3. g \in [1 .. (n + 1) -> Seq(C)]
    <3> HIDE DEF x
    <3> QED
      BY <2>0, <2>2
  <2>4. ASSUME NEW i \in 1 .. (n + 1)
        PROVE  g[i] = IF i = 1 THEN s[i] ELSE g[i - 1] \o s[i]
    <3>1. CASE i = n + 1
      <4>1. CASE n = 0
        BY <3>1, <4>1
      <4>2. CASE n # 0
        <5>1. g[n] = f[n] /\ i # 1 /\ i - 1 = n
          BY <2>0, <3>1, <4>2
        <5> QED
          BY <3>1, <4>2, <5>1
      <4> QED
        BY <4>1, <4>2
    <3>2. CASE i # n + 1
      <4>1. i \in 1 .. n /\ g[i] = f[i] /\ (i # 1 => g[i - 1] = f[i - 1])
        BY <2>0, <3>2
      <4> QED
        BY <2>1, <4>1
    <3> QED
      BY <3>1, <3>2
  <2> HIDE DEF x
  <2>5. g = [ i \in 1 .. (n + 1) |-> IF i = 1 THEN s[i] ELSE g[i - 1] \o s[i] ]
    BY <2>4
  <2> QED
    BY <2>3, <2>5
<1> HIDE DEF Upto
<1>3. Len(s) \in T
  <2> HIDE DEF T
  <2>1. T \subseteq Nat
    BY DEF T
  <2>2. Len(s) \in Nat
    OBVIOUS
  <2> QED
    BY <1>1, <1>2, <2>1, <2>2, Induction
<1>4. Upto(Len(s))
  BY <1>3
<1> QED
  BY <1>4 DEF Upto, IsFlat

(***************************************************************************)
(* Sequences that agree have prefixes that agree.                          *)
(***************************************************************************)
FlatUpto(f, s, m) == \A i \in 1 .. m : f[i] = IF i = 1 THEN s[i] ELSE f[i - 1] \o s[i]

LEMMA IsFlatUpto ==
  ASSUME NEW f, NEW s, IsFlat(f, s), NEW m \in Nat, Len(s) \in Nat, m <= Len(s)
  PROVE  FlatUpto(f, s, m)
<1> SUFFICES ASSUME NEW i \in 1 .. m PROVE f[i] = IF i = 1 THEN s[i] ELSE f[i - 1] \o s[i]
  BY DEF FlatUpto
<1>1. i \in 1 .. Len(s)
  OBVIOUS
<1> QED
  BY <1>1, Zenon DEF IsFlat

LEMMA FlatAgree ==
  ASSUME NEW s, NEW t, NEW m \in Nat, \A i \in 1 .. m : s[i] = t[i],
         NEW f, FlatUpto(f, s, m), NEW g, FlatUpto(g, t, m)
  PROVE  \A i \in 1 .. m : f[i] = g[i]
<1>0. \A i \in 1 .. m : /\ f[i] = IF i = 1 THEN s[i] ELSE f[i - 1] \o s[i]
                       /\ g[i] = IF i = 1 THEN t[i] ELSE g[i - 1] \o t[i]
  BY Zenon DEF FlatUpto
<1> DEFINE T == { n \in Nat : n \in 1 .. m => f[n] = g[n] }
<1>1. 0 \in T
  OBVIOUS
<1>2. ASSUME NEW n \in T PROVE n + 1 \in T
  <2> SUFFICES ASSUME n + 1 \in 1 .. m PROVE f[n + 1] = g[n + 1]
    OBVIOUS
  <2>1. /\ f[n + 1] = IF n + 1 = 1 THEN s[n + 1] ELSE f[n + 1 - 1] \o s[n + 1]
        /\ g[n + 1] = IF n + 1 = 1 THEN t[n + 1] ELSE g[n + 1 - 1] \o t[n + 1]
    BY <1>0
  <2>2. n \in Nat /\ n + 1 - 1 = n /\ (n + 1 # 1 => f[n] = g[n])
    OBVIOUS
  <2>3. s[n + 1] = t[n + 1]
    OBVIOUS
  <2> QED
    BY <2>1, <2>2, <2>3
<1>3. \A n \in Nat : n \in T
  <2> HIDE DEF T
  <2>1. T \subseteq Nat
    BY DEF T
  <2> QED
    BY <1>1, <1>2, <2>1, Induction
<1> QED
  BY <1>3

LEMMA FlattenIsFlat ==
  ASSUME NEW C, NEW s \in Seq(Seq(C)), Len(s) # 0
  PROVE  \E f : IsFlat(f, s) /\ FlattenSeq(s) = f[Len(s)] /\ f[Len(s)] \in Seq(C)
<1>1. PICK g \in [1 .. Len(s) -> Seq(C)] : IsFlat(g, s)
  BY FlatExists
<1> DEFINE h == CHOOSE f : f = [ i \in 1 .. Len(s) |-> IF i = 1 THEN s[i] ELSE f[i - 1] \o s[i] ]
<1>2. IsFlat(h, s)
  BY <1>1 DEF IsFlat
<1>3. FlattenSeq(s) = h[Len(s)]
  BY DEF FlattenSeq
<1> HIDE DEF h
<1>4. \A i \in 1 .. Len(s) : h[i] = g[i]
  <2> DEFINE m == Len(s)
  <2>1. m \in Nat /\ FlatUpto(h, s, m) /\ FlatUpto(g, s, m)
    BY <1>1, <1>2, IsFlatUpto
  <2> HIDE DEF m
  <2>2. \A i \in 1 .. m : h[i] = g[i]
    BY <2>1, FlatAgree
  <2> QED
    BY <2>2 DEF m
<1>5. h[Len(s)] = g[Len(s)] /\ g[Len(s)] \in Seq(C)
  BY <1>4
<1> QED
  BY <1>2, <1>3, <1>5

LEMMA FunctionIsSeq ==
  ASSUME NEW n \in Nat, NEW C, NEW f \in [1 .. n -> C]
  PROVE  f \in Seq(C) /\ Len(f) = n
OBVIOUS

LEMMA FlattenAppend ==
  ASSUME NEW C, NEW s \in Seq(Seq(C)), NEW x \in Seq(C)
  PROVE  FlattenSeq(s) \in Seq(C) /\ FlattenSeq(Append(s, x)) = FlattenSeq(s) \o x
<1> DEFINE t == Append(s, x)
<1>1. /\ t \in Seq(Seq(C)) /\ Len(t) = Len(s) + 1 /\ Len(s) \in Nat /\ Len(t) # 0
      /\ \A i \in 1 .. Len(s) : s[i] = t[i]
      /\ t[Len(t)] = x
  OBVIOUS
<1> HIDE DEF t
<1>2. PICK g : IsFlat(g, t) /\ FlattenSeq(t) = g[Len(t)]
  BY <1>1, FlattenIsFlat
<1>3. g[Len(t)] = IF Len(t) = 1 THEN t[Len(t)] ELSE g[Len(t) - 1] \o t[Len(t)]
  <2>1. Len(t) \in 1 .. Len(t)
    BY <1>1
  <2> QED
    BY <1>2, <2>1, Zenon DEF IsFlat
<1>4. CASE Len(s) = 0
  <2>1. FlattenSeq(s) = << >>
    BY <1>4 DEF FlattenSeq
  <2>2. FlattenSeq(t) = x
    BY <1>1, <1>2, <1>3, <1>4
  <2> QED
    BY <2>1, <2>2, ConcatEmptySeq DEF t
<1>5. CASE Len(s) # 0
  <2>1. PICK f : IsFlat(f, s) /\ FlattenSeq(s) = f[Len(s)] /\ f[Len(s)] \in Seq(C)
    BY <1>5, FlattenIsFlat
  <2>2. f[Len(s)] = g[Len(s)]
    <3>1. \A i \in 1 .. Len(s) : f[i] = g[i]
      <4> DEFINE m == Len(s)
      <4>1. /\ Len(t) \in Nat /\ Len(s) \in Nat /\ m \in Nat /\ m <= Len(s) /\ m <= Len(t)
            /\ \A i \in 1 .. m : s[i] = t[i]
        BY <1>1
      <4>2. FlatUpto(f, s, m) /\ FlatUpto(g, t, m)
        BY <1>2, <2>1, <4>1, IsFlatUpto
      <4> HIDE DEF m
      <4>3. m \in Nat /\ \A i \in 1 .. m : s[i] = t[i]
        BY <4>1
      <4>4. \A i \in 1 .. m : f[i] = g[i]
        BY <4>2, <4>3, FlatAgree
      <4> QED
        BY <4>4 DEF m
    <3> QED
      BY <1>1, <1>5, <3>1
  <2>3. g[Len(t)] = g[Len(s)] \o x
    BY <1>1, <1>3, <1>5
  <2> QED
    BY <1>2, <2>1, <2>2, <2>3 DEF t
<1> QED
  BY <1>4, <1>5

-----------------------------------------------------------------------------
(* Frames.                                                                 *)

CellSet == [size : Nat, tag : Tags \cup {NoTag}, at : Nat]

Piece(f) == << Length(f.size) >> \o Content(f)

LEMMA FrameFacts ==
  ASSUME NEW f \in Frame
  PROVE  /\ f.size \in Nat \ {0}
         /\ Content(f) \in Seq(CellSet) /\ Len(Content(f)) = f.size
         /\ \A i \in 1 .. f.size : Content(f)[i] = Cell(f.size, f.tag, i)
         /\ Piece(f) \in Seq(CellSet) /\ Len(Piece(f)) = f.size + 1
         /\ Piece(f)[1] = Length(f.size)
         /\ \A i \in 1 .. f.size : Piece(f)[i + 1] = Cell(f.size, f.tag, i)
<1>1. f.size \in Nat \ {0} /\ f.tag \in Tags
  BY LayoutAssumption DEF Frame
<1>2. Length(f.size) \in CellSet /\ \A i \in 1 .. f.size : Cell(f.size, f.tag, i) \in CellSet
  BY <1>1 DEF Length, Cell, CellSet
<1>3. Content(f) = [i \in 1 .. f.size |-> Cell(f.size, f.tag, i)]
  BY DEF Content
<1>4. Content(f) \in [1 .. f.size -> CellSet]
  BY <1>2, <1>3
<1>5. Content(f) \in Seq(CellSet) /\ Len(Content(f)) = f.size
  BY <1>1, <1>4, FunctionIsSeq
<1>6. \A i \in 1 .. f.size : Content(f)[i] = Cell(f.size, f.tag, i)
  BY <1>3
<1> DEFINE one == << Length(f.size) >>
<1>7. one \in Seq(CellSet) /\ Len(one) = 1 /\ one[1] = Length(f.size)
  BY <1>2
<1> HIDE DEF one
<1>8. /\ Piece(f) \in Seq(CellSet) /\ Len(Piece(f)) = 1 + f.size
      /\ \A i \in 1 .. (1 + f.size) : Piece(f)[i] = IF i <= 1 THEN one[i] ELSE Content(f)[i - 1]
  <2> DEFINE rest == Content(f)
  <2>1. Piece(f) = one \o rest
    BY DEF Piece, one
  <2>2. rest \in Seq(CellSet) /\ Len(rest) = f.size
    BY <1>5
  <2> HIDE DEF rest
  <2>3. /\ one \o rest \in Seq(CellSet)
        /\ Len(one \o rest) = Len(one) + Len(rest)
        /\ \A i \in 1 .. Len(one) + Len(rest) : (one \o rest)[i] =
                     IF i <= Len(one) THEN one[i] ELSE rest[i - Len(one)]
    BY <1>7, <2>2, ConcatProperties
  <2>4. /\ Piece(f) \in Seq(CellSet) /\ Len(Piece(f)) = 1 + f.size
        /\ \A i \in 1 .. (1 + f.size) : Piece(f)[i] = IF i <= 1 THEN one[i] ELSE rest[i - 1]
    BY <1>7, <2>1, <2>2, <2>3
  <2> QED
    BY <2>4 DEF rest
<1>9. \A i \in 1 .. f.size : Piece(f)[i + 1] = Content(f)[i]
  BY <1>1, <1>8
<1> QED
  BY <1>1, <1>5, <1>6, <1>7, <1>8, <1>9

Pieces(frames) == [ i \in 1 .. Len(frames) |-> Piece(frames[i]) ]

LEMMA PiecesAppend ==
  ASSUME NEW frames \in Seq(Frame), NEW f \in Frame
  PROVE  /\ Pieces(frames) \in Seq(Seq(CellSet))
         /\ Pieces(Append(frames, f)) = Append(Pieces(frames), Piece(f))
<1> DEFINE long == Append(frames, f)
           s == Pieces(frames)
           t == Append(s, Piece(f))
<1>1. /\ Len(frames) \in Nat /\ Len(long) = Len(frames) + 1
      /\ \A i \in 1 .. Len(frames) : long[i] = frames[i] /\ frames[i] \in Frame
      /\ long[Len(frames) + 1] = f
  OBVIOUS
<1> HIDE DEF long
<1>2. s \in [1 .. Len(frames) -> Seq(CellSet)] /\ \A i \in 1 .. Len(frames) : s[i] = Piece(frames[i])
  BY <1>1, FrameFacts DEF Pieces
<1>3. s \in Seq(Seq(CellSet)) /\ Len(s) = Len(frames)
  BY <1>1, <1>2, FunctionIsSeq
<1>4. Piece(f) \in Seq(CellSet)
  BY FrameFacts
<1> HIDE DEF s
<1> DEFINE x == Piece(f)
<1>5. /\ t = [i \in 1 .. (Len(frames) + 1) |-> t[i]]
      /\ \A i \in 1 .. Len(frames) : t[i] = s[i]
      /\ t[Len(frames) + 1] = x
  <2> HIDE DEF x
  <2>1. /\ Append(s, x) \in Seq(Seq(CellSet)) /\ Len(Append(s, x)) = Len(s) + 1
        /\ \A i \in 1 .. Len(s) : Append(s, x)[i] = s[i]
        /\ Append(s, x)[Len(s) + 1] = x
    BY <1>3, <1>4 DEF x
  <2>2. t = Append(s, x)
    BY DEF x
  <2> HIDE DEF t
  <2>3. DOMAIN t = 1 .. (Len(frames) + 1) /\ t = [i \in DOMAIN t |-> t[i]]
    <3>1. Len(t) = Len(frames) + 1 /\ t \in Seq(Seq(CellSet))
      BY <1>3, <2>1, <2>2
    <3> QED
      BY <3>1, LenProperties
  <2> QED
    BY <1>1, <1>3, <2>1, <2>2, <2>3
<1> HIDE DEF t
<1>6. ASSUME NEW i \in 1 .. (Len(frames) + 1) PROVE t[i] = Piece(long[i])
  <2>1. CASE i = Len(frames) + 1
    BY <1>1, <1>5, <2>1
  <2>2. CASE i # Len(frames) + 1
    <3>1. i \in 1 .. Len(frames)
      BY <1>1, <2>2
    <3> QED
      BY <1>1, <1>2, <1>5, <3>1
  <2> QED
    BY <2>1, <2>2
<1>7. Pieces(long) = t
  BY <1>1, <1>5, <1>6 DEF Pieces
<1> QED
  BY <1>3, <1>7 DEF long, s, t

LEMMA EncodedFacts ==
  ASSUME accepted \in Seq(Frame)
  PROVE  /\ Encoded \in Seq(CellSet)
         /\ \A f \in Frame : accepted' = Append(accepted, f) => Encoded' = Encoded \o Piece(f)
<1>1. Encoded = FlattenSeq(Pieces(accepted))
  BY DEF Encoded, Pieces, Piece
<1>2. Encoded' = FlattenSeq(Pieces(accepted'))
  BY DEF Encoded, Pieces, Piece
<1>3. Pieces(accepted) \in Seq(Seq(CellSet))
  <2>1. \A i \in 1 .. Len(accepted) : Piece(accepted[i]) \in Seq(CellSet)
    BY FrameFacts
  <2>2. Pieces(accepted) \in [1 .. Len(accepted) -> Seq(CellSet)] /\ Len(accepted) \in Nat
    BY <2>1 DEF Pieces
  <2> QED
    BY <2>2, FunctionIsSeq
<1>4. FlattenSeq(Pieces(accepted)) \in Seq(CellSet)
  <2>1. << >> \in Seq(CellSet)
    OBVIOUS
  <2> QED
    BY <1>3, <2>1, FlattenAppend
<1>5. ASSUME NEW f \in Frame, accepted' = Append(accepted, f) PROVE Encoded' = Encoded \o Piece(f)
  <2>1. Piece(f) \in Seq(CellSet) /\ Pieces(accepted') = Append(Pieces(accepted), Piece(f))
    BY <1>5, FrameFacts, PiecesAppend
  <2>2. FlattenSeq(Append(Pieces(accepted), Piece(f))) = FlattenSeq(Pieces(accepted)) \o Piece(f)
    BY <1>3, <2>1, FlattenAppend
  <2> QED
    BY <1>1, <1>2, <2>1, <2>2
<1> QED
  BY <1>1, <1>4, <1>5

-----------------------------------------------------------------------------
(* Memory.                                                                 *)

LEMMA WrittenAt ==
  ASSUME NEW m, NEW p, NEW c
  PROVE  /\ DOMAIN Written(m, p, c) = DOMAIN m
         /\ \A a \in DOMAIN m : Written(m, p, c)[a] =
              IF a \in p .. (p + Len(c) - 1) THEN c[a - p + 1] ELSE m[a]
BY DEF Written

LEMMA CellsAt ==
  ASSUME NEW m, NEW p, NEW n \in Nat
  PROVE  /\ Len(Cells(m, p, n)) = n
         /\ Cells(m, p, n) \in Seq(Range(Cells(m, p, n)))
         /\ \A i \in 1 .. n : Cells(m, p, n)[i] = m[p + i - 1]
<1> DEFINE s == Cells(m, p, n)
<1>1. s = [i \in 1 .. n |-> s[i]] /\ \A i \in 1 .. n : s[i] = m[p + i - 1]
  BY DEF Cells
<1> HIDE DEF s
<1>2. s \in [1 .. n -> Range(s)]
  BY <1>1 DEF Range
<1> QED
  BY <1>1, <1>2, FunctionIsSeq DEF s

QueueOK ==
  /\ queue \in Seq(Range(queue))
  /\ Len(queue) <= Cap
  /\ accepted \in Seq(Frame)
  /\ Heap(bump)

LEMMA Arguments ==
  ASSUME QueueOK, NEW f \in Frame, f.size <= Q - Base
  PROVE  LET a == Alloc(bump, f.size)
         IN  /\ DOMAIN WithArguments(f) = Base .. Top
             /\ \A j \in 1 .. Len(queue) : WithArguments(f)[Q + j - 1] = queue[j]
             /\ a \in Nat /\ a >= Base /\ a + f.size <= Q
             /\ \A i \in 1 .. f.size :
                  f.size <= SafeSize => WithArguments(f)[a + i - 1] = Cell(f.size, f.tag, i)
<1> DEFINE n == f.size
           a == Alloc(bump, n)
           r == Alloc(After(bump, n), KeySize)
           m0 == Memory
           c1 == Content(f)
           m1 == Written(m0, a, c1)
           c2 == [i \in 1 .. KeySize |-> Other]
           m2 == Written(m1, r, c2)
<1>1. n \in Nat \ {0} /\ Len(queue) \in Nat /\ Len(queue) <= Cap
  BY FrameFacts DEF QueueOK
<1>2. Heap(bump)
  BY DEF QueueOK
<1>3. Len(c1) = n /\ \A i \in 1 .. n : c1[i] = Cell(f.size, f.tag, i)
  BY FrameFacts
<1>4. Len(c2) = KeySize
  <2>1. c2 \in [1 .. KeySize -> {Other}] /\ KeySize \in Nat
    BY Layout
  <2> HIDE DEF c2
  <2> QED
    BY <2>1, FunctionIsSeq
<1>5. /\ DOMAIN m0 = Base .. Top
      /\ \A j \in 1 .. Len(queue) : m0[Q + j - 1] = queue[j]
  <2>1. /\ DOMAIN m0 = Base .. Top
        /\ \A x \in Base .. Top :
             m0[x] = IF x \in Q .. (Q + Len(queue) - 1) THEN queue[x - Q + 1] ELSE Other
    BY DEF Memory
  <2> HIDE DEF m0
  <2>2. ASSUME NEW j \in 1 .. Len(queue) PROVE m0[Q + j - 1] = queue[j]
    <3> DEFINE x == Q + j - 1
    <3>1. x \in Base .. Top /\ x \in Q .. (Q + Len(queue) - 1) /\ x - Q + 1 = j
      BY <1>1, Layout DEF Top
    <3> HIDE DEF x
    <3>2. m0[x] = queue[j]
      BY <2>1, <3>1
    <3> QED
      BY <3>2 DEF x
  <2> QED
    BY <2>1, <2>2
<1>6. m2 = WithArguments(f)
  BY DEF WithArguments
<1> HIDE DEF n, a, r, m0, c1
<1>7. /\ a \in Nat /\ r \in Nat /\ a >= Base /\ r >= Base
      /\ r + KeySize <= Q
      /\ a + n <= Q
      /\ n <= SafeSize => r + KeySize <= a \/ a + n <= r
  <2>1. n \in Nat /\ n <= Q - Base
    BY <1>1 DEF n
  <2> QED
    BY <1>2, <2>1, ArgumentsApart DEF a, r
<1>8. /\ DOMAIN m1 = Base .. Top
      /\ \A x \in Base .. Top : m1[x] = IF x \in a .. (a + n - 1) THEN c1[x - a + 1] ELSE m0[x]
  <2>1. /\ DOMAIN m1 = DOMAIN m0
        /\ \A x \in DOMAIN m0 :
             m1[x] = IF x \in a .. (a + Len(c1) - 1) THEN c1[x - a + 1] ELSE m0[x]
    BY WrittenAt, Zenon
  <2> HIDE DEF m1
  <2> QED
    BY <1>3, <1>5, <2>1, Zenon
<1> HIDE DEF m1, c2
<1>9. /\ DOMAIN m2 = Base .. Top
      /\ \A x \in Base .. Top :
           m2[x] = IF x \in r .. (r + KeySize - 1) THEN c2[x - r + 1] ELSE m1[x]
  <2>1. /\ DOMAIN m2 = DOMAIN m1
        /\ \A x \in DOMAIN m1 :
             m2[x] = IF x \in r .. (r + Len(c2) - 1) THEN c2[x - r + 1] ELSE m1[x]
    BY WrittenAt, Zenon
  <2> HIDE DEF m2
  <2> QED
    BY <1>4, <1>8, <2>1, Zenon
<1>10. ASSUME NEW j \in 1 .. Len(queue) PROVE m2[Q + j - 1] = queue[j]
  <2> DEFINE x == Q + j - 1
  <2>1. x \in Base .. Top /\ ~ (x \in a .. (a + n - 1)) /\ ~ (x \in r .. (r + KeySize - 1))
    BY <1>1, <1>7, Layout DEF Top
  <2>2. m0[x] = queue[j]
    BY <1>5
  <2> HIDE DEF x
  <2>3. m2[x] = queue[j]
    BY <1>8, <1>9, <2>1, <2>2
  <2> QED
    BY <2>3 DEF x
<1>11. ASSUME NEW i \in 1 .. n, n <= SafeSize PROVE m2[a + i - 1] = c1[i]
  <2> DEFINE x == a + i - 1
  <2>1. x \in Base .. Top /\ x \in a .. (a + n - 1) /\ ~ (x \in r .. (r + KeySize - 1)) /\ x - a + 1 = i
    BY <1>1, <1>7, <1>11, Layout DEF Top
  <2> HIDE DEF x
  <2>2. m2[x] = c1[i]
    BY <1>8, <1>9, <2>1
  <2> QED
    BY <2>2 DEF x
<1> QED
  BY <1>3, <1>6, <1>7, <1>9, <1>10, <1>11 DEF n, a

LEMMA AppendedFacts ==
  ASSUME QueueOK, NEW f \in Frame, Fits(f)
  PROVE  LET n == f.size
             k == Len(queue)
             q == Appended(f)
         IN  /\ q \in Seq(Range(q)) /\ Len(q) = k + n + 1
             /\ n <= Q - Base =>
                  /\ \A j \in 1 .. k : q[j] = queue[j]
                  /\ q[k + 1] = Length(n)
                  /\ n <= SafeSize =>
                       \A i \in 1 .. n : q[k + 1 + i] = Cell(n, f.tag, i)
<1> DEFINE n == f.size
           k == Len(queue)
           a == Alloc(bump, n)
           w == WithArguments(f)
           dst == Q + k
           pre == << Length(n) >>
           m1 == Written(w, dst, pre)
           src == Cells(m1, a, n)
           m2 == Written(m1, dst + 1, src)
           q == Cells(m2, Q, k + n + 1)
<1>1. n \in Nat \ {0} /\ k \in Nat /\ k + n + 1 <= Cap
  BY FrameFacts DEF QueueOK, Fits
<1>2. q = Appended(f)
  BY DEF Appended
<1>3. Len(pre) = 1 /\ pre[1] = Length(n)
  OBVIOUS
<1>4. ASSUME n <= Q - Base
      PROVE  /\ DOMAIN w = Base .. Top
             /\ \A j \in 1 .. k : w[Q + j - 1] = queue[j]
             /\ a \in Nat /\ a >= Base /\ a + n <= Q
             /\ n <= SafeSize => \A i \in 1 .. n : w[a + i - 1] = Cell(n, f.tag, i)
  BY <1>4, Arguments, Zenon
<1> HIDE DEF n, k, a, w, pre
<1>5. /\ DOMAIN m1 = DOMAIN w
      /\ \A x \in DOMAIN w : m1[x] = IF x \in dst .. (dst + Len(pre) - 1) THEN pre[x - dst + 1] ELSE w[x]
  <2> HIDE DEF dst
  <2> QED
    BY WrittenAt, Zenon
<1> HIDE DEF m1
<1>6. Len(src) = n /\ \A i \in 1 .. n : src[i] = m1[a + i - 1]
  <2>1. n \in Nat
    BY <1>1
  <2> QED
    BY <2>1, CellsAt, Zenon
<1> HIDE DEF src
<1>7. /\ DOMAIN m2 = DOMAIN m1
      /\ \A x \in DOMAIN m1 :
           m2[x] = IF x \in (dst + 1) .. (dst + 1 + Len(src) - 1) THEN src[x - (dst + 1) + 1] ELSE m1[x]
  <2> DEFINE after == dst + 1
  <2> HIDE DEF after
  <2>1. /\ DOMAIN Written(m1, after, src) = DOMAIN m1
        /\ \A x \in DOMAIN m1 : Written(m1, after, src)[x] =
             IF x \in after .. (after + Len(src) - 1) THEN src[x - after + 1] ELSE m1[x]
    BY WrittenAt, Zenon
  <2> QED
    BY <2>1 DEF after
<1> HIDE DEF m2
<1>8. /\ q \in Seq(Range(q)) /\ Len(q) = k + n + 1
      /\ \A j \in 1 .. (k + n + 1) : q[j] = m2[Q + j - 1]
  <2> DEFINE len == k + n + 1
  <2>1. len \in Nat
    BY <1>1
  <2> HIDE DEF len
  <2>2. /\ Cells(m2, Q, len) \in Seq(Range(Cells(m2, Q, len))) /\ Len(Cells(m2, Q, len)) = len
        /\ \A j \in 1 .. len : Cells(m2, Q, len)[j] = m2[Q + j - 1]
    BY <2>1, CellsAt, Zenon
  <2> QED
    BY <2>2 DEF len
<1> HIDE DEF q
<1>9. ASSUME n <= Q - Base
      PROVE  /\ \A j \in 1 .. k : q[j] = queue[j]
             /\ q[k + 1] = Length(n)
             /\ n <= SafeSize => \A i \in 1 .. n : q[k + 1 + i] = Cell(n, f.tag, i)
  <2>1. ASSUME NEW j \in 1 .. k PROVE q[j] = queue[j]
    <3> DEFINE x == Q + j - 1
    <3>1. /\ x \in Base .. Top /\ ~ (x \in dst .. dst) /\ ~ (x \in (dst + 1) .. (dst + n))
          /\ j \in 1 .. (k + n + 1)
      BY <1>1, Layout DEF Top
    <3>2. w[x] = queue[j]
      BY <1>4, <1>9
    <3>3. q[j] = m2[x]
      BY <1>8, <3>1
    <3> HIDE DEF x
    <3>4. m1[x] = w[x]
      <4>1. dst + Len(pre) - 1 = dst
        BY <1>1, <1>3, Layout
      <4> QED
        BY <1>4, <1>5, <1>9, <3>1, <4>1
    <3>5. m2[x] = m1[x]
      <4>1. dst + 1 + Len(src) - 1 = dst + n
        BY <1>1, <1>6, Layout
      <4> QED
        BY <1>4, <1>5, <1>7, <1>9, <3>1, <4>1
    <3> QED
      BY <3>2, <3>3, <3>4, <3>5
  <2>2. q[k + 1] = Length(n)
    <3>1. /\ dst \in Base .. Top /\ dst \in dst .. (dst + 1 - 1) /\ ~ (dst \in (dst + 1) .. (dst + 1 + n - 1))
          /\ dst - dst + 1 = 1 /\ k + 1 \in 1 .. (k + n + 1) /\ Q + (k + 1) - 1 = dst
      BY <1>1, Layout DEF Top
    <3>2. m1[dst] = Length(n)
      <4>1. dst \in dst .. (dst + Len(pre) - 1)
        BY <1>3, <3>1
      <4> HIDE DEF dst
      <4> QED
        BY <1>3, <1>4, <1>5, <1>9, <3>1, <4>1
    <3>3. m2[dst] = m1[dst]
      <4>1. ~ (dst \in (dst + 1) .. (dst + 1 + Len(src) - 1))
        BY <1>6, <3>1
      <4> HIDE DEF dst
      <4> QED
        BY <1>4, <1>5, <1>7, <1>9, <3>1, <4>1
    <3>4. q[k + 1] = m2[dst]
      BY <1>8, <3>1
    <3> QED
      BY <3>2, <3>3, <3>4
  <2>3. ASSUME n <= SafeSize, NEW i \in 1 .. n PROVE q[k + 1 + i] = Cell(n, f.tag, i)
    <3> DEFINE x == dst + i
               y == a + i - 1
    <3>1. /\ x \in Base .. Top /\ x \in (dst + 1) .. (dst + 1 + n - 1) /\ x - (dst + 1) + 1 = i
          /\ k + 1 + i \in 1 .. (k + n + 1) /\ Q + (k + 1 + i) - 1 = x
      BY <1>1, Layout DEF Top
    <3>2. y \in Base .. Top /\ ~ (y \in dst .. (dst + 1 - 1))
      BY <1>1, <1>4, <1>9, Layout DEF Top
    <3>3. w[y] = Cell(n, f.tag, i) /\ src[i] = m1[y]
      BY <1>4, <1>6, <1>9, <2>3
    <3>4. q[k + 1 + i] = m2[x]
      BY <1>8, <3>1
    <3> HIDE DEF x, y
    <3>5. m1[y] = w[y]
      BY <1>3, <1>4, <1>5, <1>9, <3>2
    <3>6. m2[x] = src[i]
      <4>1. x \in (dst + 1) .. (dst + 1 + Len(src) - 1)
        BY <1>6, <3>1
      <4> HIDE DEF dst
      <4> QED
        BY <1>4, <1>5, <1>7, <1>9, <3>1, <4>1
    <3> QED
      BY <3>3, <3>4, <3>5, <3>6
  <2> QED
    BY <2>1, <2>2, <2>3
<1> QED
  BY <1>2, <1>8, <1>9 DEF n, k

-----------------------------------------------------------------------------
(* The inductive invariant.                                                *)

IInv ==
  /\ QueueOK
  /\ running \in BOOLEAN
  /\ overrun \in BOOLEAN
  /\ FramesIntact

LEMMA Cleared ==
  ASSUME NEW x, x = << >>
  PROVE  x \in Seq(Range(x)) /\ Len(x) = 0 /\ x \in Seq(Frame)
OBVIOUS

LEMMA EmptyFlat ==
  ASSUME NEW frames, frames = << >>
  PROVE  Len(FlattenSeq(Pieces(frames))) = 0
<1> DEFINE s == Pieces(frames)
<1>1. Len(s) = 0
  BY Cleared DEF Pieces
<1> HIDE DEF s
<1>2. FlattenSeq(s) = << >>
  BY <1>1 DEF FlattenSeq
<1> QED
  BY <1>2 DEF s

LEMMA InitOK == Init => IInv
<1> SUFFICES ASSUME Init PROVE IInv
  OBVIOUS
<1>1. FramesIntact
  <2>1. Encoded = FlattenSeq(Pieces(accepted)) /\ accepted = << >> /\ queue = << >>
    BY DEF Init, Encoded, Pieces, Piece
  <2>2. Len(Encoded) = 0 /\ Len(queue) = 0
    BY <2>1, EmptyFlat
  <2> QED
    BY <2>2 DEF FramesIntact
<1>2. QueueOK
  BY Cleared, Layout DEF Init, QueueOK, Heap, Aligned
<1> QED
  BY <1>1, <1>2 DEF Init, IInv

\* A block small enough for the heap leaves the bump pointer in the heap.
LEMMA HeapKept ==
  ASSUME NEW b, Heap(b)
  PROVE  /\ \A n \in Nat : Aligned(After(b, n)) /\ After(b, n) >= Base
         /\ Heap(After(b, IdSize))
         /\ Heap(After(After(b, IdSize), KeySize))
         /\ \A n \in Nat : Heap(After(After(b, n), KeySize))
<1>1. Aligned(b) /\ b >= Base
  BY Layout DEF Heap
<1>2. IdSize \in Nat /\ KeySize \in Nat /\ Base + IdSize <= Limit /\ Base + KeySize <= Limit
  BY Layout
<1>3. ASSUME NEW n \in Nat
      PROVE  Aligned(After(b, n)) /\ After(b, n) >= Base /\ Heap(After(After(b, n), KeySize))
  <2>1. Aligned(After(b, n)) /\ After(b, n) >= Base
    BY <1>1, AfterFacts
  <2> QED
    BY <1>2, <2>1, AfterFacts
<1> QED
  BY <1>1, <1>2, <1>3, AfterFacts

\* Nothing but the bump pointer and the switch has changed.
LEMMA QueueAlone ==
  ASSUME IInv, queue' = queue, accepted' = accepted, overrun' = overrun,
         Heap(bump'), running' \in BOOLEAN
  PROVE  IInv'
BY DEF IInv, QueueOK, FramesIntact, Encoded

LEMMA SendOK ==
  ASSUME IInv, NEW f \in Frame, Send(f)
  PROVE  IInv'
<1> DEFINE n == f.size
           k == Len(queue)
           e == Encoded
           p == Piece(f)
<1>1. /\ running /\ Fits(f) /\ queue' = Appended(f) /\ accepted' = Append(accepted, f)
      /\ running' = running /\ bump' = After(After(bump, n), KeySize)
      /\ overrun' = (overrun \/ n > Q - Base)
  BY DEF Send, Put
<1>2. QueueOK /\ Heap(bump) /\ FramesIntact /\ overrun \in BOOLEAN /\ running \in BOOLEAN
  BY DEF IInv, QueueOK
<1>3. n \in Nat \ {0} /\ k \in Nat /\ k + n + 1 <= Cap
  BY <1>1, <1>2, FrameFacts DEF Fits, QueueOK
<1>4. /\ queue' \in Seq(Range(queue')) /\ Len(queue') = k + n + 1
      /\ n <= Q - Base =>
           /\ \A j \in 1 .. k : queue'[j] = queue[j]
           /\ queue'[k + 1] = Length(n)
           /\ n <= SafeSize => \A i \in 1 .. n : queue'[k + 1 + i] = Cell(n, f.tag, i)
  BY <1>1, <1>2, AppendedFacts, Zenon
<1>5. accepted' \in Seq(Frame)
  BY <1>1, <1>2 DEF QueueOK
<1>6. Heap(bump')
  BY <1>1, <1>2, <1>3, HeapKept
<1>7. QueueOK'
  BY <1>3, <1>4, <1>5, <1>6 DEF QueueOK
<1>8. e \in Seq(CellSet) /\ Encoded' = e \o p
  BY <1>1, <1>2, EncodedFacts DEF QueueOK
<1>9. /\ p \in Seq(CellSet) /\ Len(p) = n + 1 /\ p[1] = Length(n)
      /\ \A i \in 1 .. n : p[i + 1] = Cell(n, f.tag, i)
  BY FrameFacts
<1>10. ~ overrun => Len(e) = k /\ \A j \in 1 .. k : queue[j] = e[j] \/ TooLarge(e[j])
  BY <1>2 DEF FramesIntact
<1>11. ASSUME ~ overrun' PROVE ~ overrun /\ n <= Q - Base
  <2>1. ~ overrun /\ ~ (n > Q - Base)
    BY <1>1, <1>11, Zenon
  <2> QED
    BY <1>3, <2>1, Layout
<1> HIDE DEF n, k, e, p
<1>12. /\ Len(e \o p) = Len(e) + n + 1
       /\ \A j \in 1 .. (Len(e) + n + 1) :
            (e \o p)[j] = IF j <= Len(e) THEN e[j] ELSE p[j - Len(e)]
  <2>1. /\ Len(e \o p) = Len(e) + Len(p)
        /\ \A j \in 1 .. Len(e) + Len(p) :
             (e \o p)[j] = IF j <= Len(e) THEN e[j] ELSE p[j - Len(e)]
    BY <1>8, <1>9, ConcatProperties, Zenon
  <2>2. Len(e) \in Nat /\ Len(e) + Len(p) = Len(e) + n + 1
    BY <1>3, <1>8, <1>9
  <2> QED
    BY <2>1, <2>2, Zenon
<1>13. FramesIntact'
  <2> SUFFICES ASSUME ~ overrun'
               PROVE  /\ Len(queue') = Len(Encoded')
                      /\ \A j \in 1 .. Len(queue') : queue'[j] = Encoded'[j] \/ TooLarge(Encoded'[j])
    BY DEF FramesIntact, TooLarge
  <2>1. Len(e) = k /\ \A j \in 1 .. k : queue[j] = e[j] \/ TooLarge(e[j])
    BY <1>10, <1>11
  <2>2. /\ \A j \in 1 .. k : queue'[j] = queue[j]
        /\ queue'[k + 1] = Length(n)
        /\ n <= SafeSize => \A i \in 1 .. n : queue'[k + 1 + i] = Cell(n, f.tag, i)
    BY <1>4, <1>11
  <2>3. ASSUME NEW j \in 1 .. (k + n + 1)
        PROVE  queue'[j] = (e \o p)[j] \/ TooLarge((e \o p)[j])
    <3>1. CASE j <= k
      <4>1. j \in 1 .. k /\ (e \o p)[j] = e[j]
        BY <1>3, <1>12, <2>1, <3>1
      <4> QED
        BY <2>1, <2>2, <4>1
    <3>2. CASE j = k + 1
      <4>1. (e \o p)[j] = p[1]
        BY <1>3, <1>12, <2>1, <3>2
      <4> QED
        BY <1>9, <2>2, <3>2, <4>1
    <3>3. CASE j > k + 1
      <4>1. PICK i \in 1 .. n : j = k + 1 + i
        <5>1. j - k - 1 \in 1 .. n /\ j = k + 1 + (j - k - 1)
          BY <1>3, <3>3
        <5> QED
          BY <5>1
      <4>2. (e \o p)[j] = p[i + 1]
        <5>1. ~ (j <= Len(e)) /\ j - Len(e) = i + 1
          BY <1>3, <2>1, <3>3, <4>1
        <5> QED
          BY <1>12, <2>1, <5>1
      <4>3. (e \o p)[j] = Cell(n, f.tag, i)
        BY <1>9, <4>2
      <4>4. CASE n <= SafeSize
        BY <2>2, <4>1, <4>3, <4>4
      <4>5. CASE ~ (n <= SafeSize)
        <5>1. SafeSize \in Int
          BY Layout DEF SafeSize
        <5>2. n > SafeSize
          BY <1>3, <4>5, <5>1
        <5>3. Cell(n, f.tag, i).at = i /\ Cell(n, f.tag, i).size = n
          BY DEF Cell
        <5> QED
          BY <1>3, <4>3, <5>2, <5>3 DEF TooLarge
      <4> QED
        BY <4>4, <4>5
    <3>4. j <= k \/ j = k + 1 \/ j > k + 1
      BY <1>3
    <3> QED
      BY <3>1, <3>2, <3>3, <3>4, Zenon
  <2> QED
    BY <1>4, <1>8, <1>12, <2>1, <2>3
<1> QED
  BY <1>1, <1>2, <1>7, <1>13 DEF IInv

LEMMA RefuseSendOK ==
  ASSUME IInv, NEW f \in Frame, RefuseSend(f)
  PROVE  IInv'
<1> DEFINE n == f.size
           k == Len(queue)
           w == WithArguments(f)
<1>1. /\ queue' = Cells(w, Q, k) /\ accepted' = accepted
      /\ running' = running /\ bump' = After(After(bump, n), KeySize)
      /\ overrun' = (overrun \/ n > Q - Base)
  BY DEF RefuseSend, Put
<1>2. QueueOK /\ Heap(bump) /\ FramesIntact /\ overrun \in BOOLEAN /\ running \in BOOLEAN
  BY DEF IInv, QueueOK
<1>3. n \in Nat \ {0} /\ k \in Nat /\ k <= Cap
  BY <1>2, FrameFacts DEF QueueOK
<1>4. n <= Q - Base => \A j \in 1 .. k : w[Q + j - 1] = queue[j]
  BY <1>2, Arguments, Zenon
<1> HIDE DEF w, n
<1>5. /\ Len(Cells(w, Q, k)) = k /\ Cells(w, Q, k) \in Seq(Range(Cells(w, Q, k)))
      /\ \A j \in 1 .. k : Cells(w, Q, k)[j] = w[Q + j - 1]
  <2> HIDE DEF k
  <2>1. k \in Nat
    BY <1>3
  <2> QED
    BY <2>1, CellsAt, Zenon
<1>6. Heap(bump')
  BY <1>1, <1>2, <1>3, HeapKept
<1>7. QueueOK'
  BY <1>1, <1>2, <1>3, <1>5, <1>6 DEF QueueOK
<1>8. FramesIntact'
  <2>1. ASSUME ~ overrun' PROVE ~ overrun /\ n <= Q - Base
    <3>1. ~ overrun /\ ~ (n > Q - Base)
      BY <1>1, <2>1, Zenon
    <3> QED
      BY <1>3, <3>1, Layout
  <2>2. Encoded' = Encoded
    BY <1>1 DEF Encoded
  <2>3. Len(queue') = Len(queue)
    BY <1>1, <1>5
  <2>4. ASSUME ~ overrun' PROVE \A j \in 1 .. Len(queue) : queue'[j] = queue[j]
    BY <1>1, <1>4, <1>5, <2>1, <2>4
  <2> QED
    BY <1>2, <2>1, <2>2, <2>3, <2>4 DEF FramesIntact, TooLarge
<1> QED
  BY <1>1, <1>2, <1>7, <1>8 DEF IInv

LEMMA StepOK == IInv /\ [Next]_vars => IInv'
<1> SUFFICES ASSUME IInv, [Next]_vars PROVE IInv'
  OBVIOUS
<1>0. QueueOK /\ Heap(bump) /\ running \in BOOLEAN
  BY DEF IInv, QueueOK
<1>1. CASE Start
  BY <1>0, <1>1, QueueAlone DEF Start
<1>2. CASE Stop
  BY <1>0, <1>2, QueueAlone DEF Stop
<1>3. CASE Attach
  BY <1>0, <1>3, HeapKept, QueueAlone DEF Attach
<1>4. CASE Detach
  BY <1>0, <1>4, HeapKept, QueueAlone DEF Detach
<1>5. CASE Poll
  <2>1. queue' = << >> /\ accepted' = << >> /\ overrun' = FALSE /\ Heap(bump') /\ running' \in BOOLEAN
    BY <1>0, <1>5, HeapKept DEF Poll
  <2>2. FramesIntact'
    <3>1. Encoded' = FlattenSeq(Pieces(accepted'))
      BY DEF Encoded, Pieces, Piece
    <3>2. Len(Encoded') = 0 /\ Len(queue') = 0
      BY <2>1, <3>1, EmptyFlat
    <3> QED
      BY <3>2 DEF FramesIntact
  <2>3. QueueOK'
    BY <2>1, Cleared, Layout DEF QueueOK
  <2> QED
    BY <2>1, <2>2, <2>3 DEF IInv
<1>6. ASSUME NEW f \in Frame, Send(f) PROVE IInv'
  BY <1>6, SendOK
<1>7. ASSUME NEW f \in Frame, RefuseSend(f) PROVE IInv'
  BY <1>7, RefuseSendOK
<1>8. CASE UNCHANGED vars
  BY <1>0, <1>8, QueueAlone DEF vars
<1> QED
  BY <1>1, <1>2, <1>3, <1>4, <1>5, <1>6, <1>7, <1>8 DEF Next

LEMMA Inductive == Spec => []IInv
BY InitOK, StepOK, PTL DEF Spec

-----------------------------------------------------------------------------

(***************************************************************************)
(* The bump pointer of ntx_alloc stays aligned and within memory, and the  *)
(* queue within its capacity, whatever the host has put.                   *)
(***************************************************************************)
THEOREM TypeCorrect == Spec => []TypeOK
<1>1. IInv => TypeOK
  BY Layout DEF IInv, QueueOK, Heap, Aligned, TypeOK, Top
<1> QED
  BY <1>1, Inductive, PTL

(***************************************************************************)
(* ntx_poll hands out the frames that ntx_send took, in their order and    *)
(* with their content, as long as no frame larger than the memory below    *)
(* the queue was put: in every layout of the memory, for frames of any     *)
(* size up to SafeSize.                                                    *)
(***************************************************************************)
THEOREM FramesIntactHolds == Spec => []FramesIntact
<1>1. IInv => FramesIntact
  BY DEF IInv
<1> QED
  BY <1>1, Inductive, PTL

=============================================================================
