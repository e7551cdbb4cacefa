------------------------- MODULE FragmentationProofs -------------------------
(***************************************************************************)
(* The arithmetic of the fragments of a frame, for every choice of sizes.  *)
(***************************************************************************)
EXTENDS Fragmentation, TLAPS

(* Division as the loop bound uses it. *)
LEMMA DivBounds ==
    ASSUME NEW M \in Nat, M > 0, NEW x \in Nat
    PROVE  /\ x \div M \in Nat
           /\ (x \div M) * M <= x
           /\ x < (x \div M + 1) * M
  BY SMT

LEMMA SizesAreNat ==
    /\ MAXSIZEPKT \in Nat /\ HEADERS \in Nat /\ Capacity \in Nat /\ U16 \in Nat
    /\ 0 < HEADERS /\ 0 < Capacity /\ Capacity < U16
    /\ Capacity = MAXSIZEPKT - HEADERS
  BY SizesAssumption DEF Capacity

LEMMA MaxPkt ==
    ASSUME NEW x \in Nat
    PROVE  max_pkt(x) \in Nat /\ max_pkt(x) > 0
  BY DivBounds, SizesAssumption DEF max_pkt

(* An iteration that is entered has at least a byte left to send. *)
LEMMA SomethingLeft ==
    ASSUME NEW x \in Nat, x # 0, NEW j \in Nat, j < max_pkt(x)
    PROVE  j * Capacity < x
<1>1. j * MAXSIZEPKT <= x
  <2>1. (x \div MAXSIZEPKT) * MAXSIZEPKT <= x /\ x \div MAXSIZEPKT \in Nat
    BY DivBounds, SizesAssumption
  <2>2. j <= x \div MAXSIZEPKT
    BY <2>1 DEF max_pkt
  <2>3. j * MAXSIZEPKT <= (x \div MAXSIZEPKT) * MAXSIZEPKT
    BY <2>1, <2>2, SizesAssumption, SMT
  <2>. QED
    BY <2>1, <2>3, SizesAssumption
<1>2. j * Capacity = j * MAXSIZEPKT - j * HEADERS
  BY SizesAreNat
<1>3. CASE j = 0
  BY <1>3, SizesAreNat
<1>4. CASE j > 0
  <2>1. j * HEADERS > 0
    BY <1>4, SizesAreNat, SMT
  <2>. QED
    BY <1>1, <1>2, <2>1, SizesAreNat
<1>. QED
  BY <1>3, <1>4

(* One iteration's datagram, and where it leaves the loop. *)
LEMMA Iteration ==
    ASSUME NEW x \in Nat, NEW j \in Nat, j * Capacity < x
    PROVE  LET size == MinOf(Capacity, x - Offset(x, j)) IN
           /\ Offset(x, j) = j * Capacity
           /\ Offset(x, j) \in Nat
           /\ size \in Nat /\ 0 < size /\ size <= Capacity
           /\ size % U16 = size
           /\ Offset(x, j) + size = Offset(x, j + 1)
<1>. DEFINE size == MinOf(Capacity, x - Offset(x, j))
<1>1. j * Capacity \in Nat /\ (j + 1) * Capacity = j * Capacity + Capacity
  BY SizesAreNat, SMT
<1>2. Offset(x, j) = j * Capacity
  BY <1>1 DEF Offset, MinOf
<1>3. size \in Nat /\ 0 < size /\ size <= Capacity
  BY <1>1, <1>2, SizesAreNat DEF MinOf
<1>4. size % U16 = size
  BY <1>3, SizesAreNat
<1>5. Offset(x, j) + size = Offset(x, j + 1)
  BY <1>1, <1>2, SizesAreNat DEF Offset, MinOf
<1>. QED
  BY <1>1, <1>2, <1>3, <1>4, <1>5

(* What a fragment of a frame is: not empty, and within the frame. *)
LEMMA FragmentFacts ==
    ASSUME NEW x \in Nat, NEW f \in Fragments(x)
    PROVE  /\ f.offset \in Nat /\ f.len \in Nat /\ f.len > 0
           /\ f.offset + f.len <= x
           /\ f.frameSize = x
<1>1. x # 0
  BY DEF Fragments
<1>2. PICK j \in 0 .. max_pkt(x) - 1 : f = Fragment(x, j)
  BY <1>1 DEF Fragments
<1>3. j \in Nat /\ j < max_pkt(x)
  BY MaxPkt
<1>4. j * Capacity < x
  BY <1>1, <1>3, SomethingLeft
<1>. DEFINE size == MinOf(Capacity, x - Offset(x, j))
<1>5. /\ f.offset = Offset(x, j) /\ f.len = size % U16 /\ f.frameSize = x
  BY <1>2 DEF Fragment
<1>6. /\ Offset(x, j) \in Nat
      /\ size \in Nat /\ 0 < size /\ size % U16 = size
      /\ Offset(x, j) + size = Offset(x, j + 1)
  BY <1>3, <1>4, Iteration
<1>7. Offset(x, j + 1) <= x
  BY <1>3, SizesAreNat, SMT DEF Offset, MinOf
<1>. QED
  BY <1>5, <1>6, <1>7
(* Only one fragment of a frame reaches its end. *)
LEMMA OneLastFragment ==
    ASSUME NEW x \in Nat, NEW f \in Fragments(x), NEW g \in Fragments(x),
           f.offset + f.len = x, g.offset + g.len = x
    PROVE  f = g
<1>1. x # 0
  BY DEF Fragments
<1>2. PICK i \in 0 .. max_pkt(x) - 1 : f = Fragment(x, i)
  BY <1>1 DEF Fragments
<1>3. PICK j \in 0 .. max_pkt(x) - 1 : g = Fragment(x, j)
  BY <1>1 DEF Fragments
<1>4. /\ i \in Nat /\ i < max_pkt(x) /\ j \in Nat /\ j < max_pkt(x)
  BY MaxPkt
<1>5. i * Capacity < x /\ j * Capacity < x
  BY <1>1, <1>4, SomethingLeft
<1>6. x = Offset(x, i + 1)
  BY <1>2, <1>4, <1>5, Iteration DEF Fragment
<1>7. x = Offset(x, j + 1)
  BY <1>3, <1>4, <1>5, Iteration DEF Fragment
<1>8. x <= (i + 1) * Capacity /\ x <= (j + 1) * Capacity
  BY <1>4, <1>6, <1>7, SizesAreNat, SMT DEF Offset, MinOf
<1>9. ASSUME NEW a \in Nat, NEW b \in Nat, a < b, x <= (a + 1) * Capacity, b * Capacity < x
      PROVE  FALSE
  <2>1. (a + 1) * Capacity <= b * Capacity
    BY <1>9, SizesAreNat, SMT
  <2>2. (a + 1) * Capacity \in Nat /\ b * Capacity \in Nat
    BY SizesAreNat, SMT
  <2>. QED
    BY <1>9, <2>1, <2>2
<1>10. i = j
  BY <1>4, <1>5, <1>8, <1>9
<1>. QED
  BY <1>2, <1>3, <1>10

(* The fragments of a frame do not overlap, and each but the first follows another. *)
LEMMA FragmentsApart ==
    ASSUME NEW x \in Nat, NEW f \in Fragments(x), NEW g \in Fragments(x)
    PROVE  /\ f.offset < g.offset => f.offset + f.len <= g.offset
           /\ f.offset = g.offset => f = g
<1>1. x # 0
  BY DEF Fragments
<1>2. PICK i \in 0 .. max_pkt(x) - 1 : f = Fragment(x, i)
  BY <1>1 DEF Fragments
<1>3. PICK j \in 0 .. max_pkt(x) - 1 : g = Fragment(x, j)
  BY <1>1 DEF Fragments
<1>4. i \in Nat /\ i < max_pkt(x) /\ j \in Nat /\ j < max_pkt(x)
  BY MaxPkt
<1>5. i * Capacity < x /\ j * Capacity < x
  BY <1>1, <1>4, SomethingLeft
<1>6. f.offset = i * Capacity /\ f.offset + f.len = Offset(x, i + 1) /\ g.offset = j * Capacity
  BY <1>2, <1>3, <1>4, <1>5, Iteration DEF Fragment
<1>7. Offset(x, i + 1) <= (i + 1) * Capacity /\ (i + 1) * Capacity \in Nat
  BY <1>4, SizesAreNat, SMT DEF Offset, MinOf
<1>8. ASSUME f.offset < g.offset PROVE f.offset + f.len <= g.offset
  <2>1. i < j
    BY <1>4, <1>6, <1>8, SizesAreNat, SMT
  <2>2. (i + 1) * Capacity <= j * Capacity
    BY <2>1, <1>4, SizesAreNat, SMT
  <2>3. Offset(x, i + 1) \in Int /\ j * Capacity \in Nat
    BY <1>4, SizesAreNat, SMT DEF Offset, MinOf
  <2>. QED
    BY <2>2, <2>3, <1>6, <1>7
<1>9. ASSUME f.offset = g.offset PROVE f = g
  <2>1. i = j
    BY <1>4, <1>6, <1>9, SizesAreNat, SMT
  <2>. QED
    BY <2>1, <1>2, <1>3
<1>. QED
  BY <1>8, <1>9

LEMMA FragmentBefore ==
    ASSUME NEW x \in Nat, NEW f \in Fragments(x), f.offset # 0
    PROVE  \E g \in Fragments(x) : g.offset + g.len = f.offset
<1>1. x # 0
  BY DEF Fragments
<1>2. PICK i \in 0 .. max_pkt(x) - 1 : f = Fragment(x, i)
  BY <1>1 DEF Fragments
<1>3. i \in Nat /\ i < max_pkt(x)
  BY MaxPkt
<1>4. i # 0
  BY <1>2, <1>3, SizesAreNat DEF Fragment, Offset, MinOf
<1>5. i - 1 \in Nat /\ i - 1 \in 0 .. max_pkt(x) - 1 /\ i - 1 < max_pkt(x)
  BY <1>3, <1>4, MaxPkt
<1>6. (i - 1) * Capacity < x
  BY <1>1, <1>5, SomethingLeft
<1>. DEFINE j == i - 1
<1>7. j \in Nat /\ j + 1 = i /\ j * Capacity < x
  BY <1>3, <1>5, <1>6
<1>. HIDE DEF j
<1>8. Fragment(x, j).offset + Fragment(x, j).len = Offset(x, j + 1)
  BY <1>7, Iteration DEF Fragment
<1>9. f.offset = Offset(x, i)
  BY <1>2 DEF Fragment
<1>10. Fragment(x, j) \in Fragments(x)
  BY <1>1, <1>5 DEF Fragments, j
<1>. QED
  BY <1>7, <1>8, <1>9, <1>10

=============================================================================
