----------------------------- MODULE MpoolProofs -----------------------------
(***************************************************************************)
(* The buddy allocator, for pools of every size: chunks tile the pool, the *)
(* flags find the buddy, and the caller holds chunks that fit.             *)
(*                                                                         *)
(* A block of level l starts at a multiple of Size[l].  It is a right      *)
(* block when its end, too, is a multiple of Size[l + 1], which no left    *)
(* block's end is.  The flag "parent" depends on the end of the chunk      *)
(* only: going up from a chunk through parents with the same end one comes *)
(* to a left block, and the flag tells whether the parent of that one is a *)
(* right block.                                                            *)
(***************************************************************************)
EXTENDS Mpool, FiniteSetTheorems, TLAPS

Levels == 0..maxlogsize

\* x is a multiple of the size of level l.
Multiple(x, l) == \E k \in Int : x = k * Size[l]

-----------------------------------------------------------------------------
(* Numbers *)

\* Every set of numbers that is not empty has a least member.
LEMMA Least ==
  ASSUME NEW T \in SUBSET Nat, T # {}
  PROVE  \E n \in T : \A m \in T : n <= m
<1> DEFINE Upto(n) == 0..n
           Sets == {Upto(n) : n \in T}
<1>1. ASSUME NEW n \in T PROVE Upto(n) \in FiniteSubsetsOf(Nat)
  BY FS_Interval DEF FiniteSubsetsOf
<1>2. IsWellFoundedOn(StrictSubsetOrdering(Nat), FiniteSubsetsOf(Nat))
  BY FS_StrictSubsetOrderingWellFounded
<1>3. Sets \subseteq FiniteSubsetsOf(Nat) /\ Sets # {}
  BY <1>1
<1>4. PICK X \in Sets : \A Y \in Sets : <<Y, X>> \notin StrictSubsetOrdering(Nat)
  <2>. HIDE DEF Sets
  <2>. QED
    BY <1>2, <1>3, WFMin
<1>5. PICK n \in T : X = Upto(n)
  BY <1>4
<1>6. ASSUME NEW m \in T, ~(n <= m) PROVE FALSE
  <2>1. Upto(m) \subseteq Upto(n) /\ Upto(m) # Upto(n)
    BY <1>6
  <2>2. Upto(m) \in SUBSET Nat /\ Upto(n) \in SUBSET Nat
    OBVIOUS
  <2>3. <<Upto(m), Upto(n)>> \in StrictSubsetOrdering(Nat)
    <3>. HIDE DEF Upto
    <3>. QED
      BY <2>1, <2>2 DEF StrictSubsetOrdering
  <2>. QED
    BY <1>4, <1>5, <2>3
<1>. QED
  BY <1>6

LEMMA Sizes ==
  /\ \A l \in Levels : Size[l] \in Nat \ {0}
  /\ \A l \in Levels : l > 0 => l - 1 \in Levels /\ Size[l] = 2 * Size[l - 1]
  /\ \A l \in Levels : l < maxlogsize => l + 1 \in Levels /\ Size[l + 1] = 2 * Size[l]
  /\ minlogsize \in Levels /\ minlogsize > 0
  /\ maxlogsize \in Levels /\ maxlogsize \in Nat
  /\ Logs \subseteq Levels
BY MpoolAssumption DEF Levels, Logs

LEMMA Products ==
  \A x, y, z \in Int : /\ (x + y) * z = x * z + y * z /\ (x - y) * z = x * z - y * z
                       /\ (2 * x) * z = x * (2 * z) /\ 1 * z = z /\ 0 * z = 0
                       /\ x >= 0 /\ z >= 0 => x * z >= 0
OBVIOUS

LEMMA MultipleOfHalf ==
  ASSUME NEW x \in Int, NEW l \in Levels, l > 0, Multiple(x, l) PROVE Multiple(x, l - 1)
<1>1. PICK k \in Int : x = k * Size[l]
  BY DEF Multiple
<1>2. Size[l] = 2 * Size[l - 1] /\ Size[l - 1] \in Int
  BY Sizes
<1>3. x = (2 * k) * Size[l - 1] /\ 2 * k \in Int
  BY <1>1, <1>2, Products
<1>. QED
  BY <1>3 DEF Multiple

\* A multiple of a size is a multiple of the smaller sizes.
LEMMA MultipleDown ==
  ASSUME NEW x \in Int, NEW l \in Levels, Multiple(x, l), NEW m \in Levels, m <= l
  PROVE  Multiple(x, m)
<1> DEFINE T == {d \in Nat : l - d \in Levels /\ ~Multiple(x, l - d)}
<1> SUFFICES ASSUME ~Multiple(x, m) PROVE FALSE
  OBVIOUS
<1>1. T \in SUBSET Nat /\ l - m \in T
  BY DEF Levels
<1>2. PICK d \in T : \A e \in T : d <= e
  <2>. HIDE DEF T
  <2>. QED
    BY <1>1, Least
<1>3. d \in Nat /\ d # 0 /\ l - d \in Levels /\ ~Multiple(x, l - d)
  <2>1. d \in Nat /\ l - d \in Levels /\ ~Multiple(x, l - d)
    BY <1>2
  <2>2. CASE d = 0
    BY <2>1, <2>2 DEF Levels
  <2>. QED
    BY <2>1, <2>2
<1>4. d - 1 \notin T
  BY <1>2, <1>3
<1>5. l - (d - 1) \in Levels /\ d - 1 \in Nat
  BY <1>3, Sizes DEF Levels
<1>6. Multiple(x, l - (d - 1))
  BY <1>4, <1>5
<1>7. l - (d - 1) > 0 /\ (l - (d - 1)) - 1 = l - d
  BY <1>3, <1>5 DEF Levels
<1>. QED
  BY <1>3, <1>5, <1>6, <1>7, MultipleOfHalf

LEMMA Sums ==
  ASSUME NEW x \in Int, NEW y \in Int, NEW l \in Levels, Multiple(x, l), Multiple(y, l)
  PROVE  Multiple(x + y, l) /\ Multiple(x - y, l)
<1>1. PICK j \in Int, k \in Int : x = j * Size[l] /\ y = k * Size[l]
  BY DEF Multiple
<1>2. Size[l] \in Int
  BY Sizes
<1>3. /\ x + y = (j + k) * Size[l] /\ j + k \in Int
      /\ x - y = (j - k) * Size[l] /\ j - k \in Int
  BY <1>1, <1>2, Products
<1>. QED
  BY <1>3 DEF Multiple

LEMMA SizeMultiple ==
  ASSUME NEW l \in Levels, NEW m \in Levels, m <= l PROVE Multiple(Size[l], m) /\ Multiple(0, m)
<1>1. Multiple(Size[l], l)
  <2>1. Size[l] = 1 * Size[l]
    BY Sizes, Products
  <2>. QED
    BY <2>1 DEF Multiple
<1>2. Multiple(Size[l], m)
  <2>1. Size[l] \in Int
    BY Sizes
  <2>. QED
    BY <1>1, <2>1, MultipleDown
<1>3. 0 = 0 * Size[m]
  BY Sizes, Products
<1>. QED
  BY <1>2, <1>3 DEF Multiple

\* Different multiples are at least one size apart.
LEMMA Gap ==
  ASSUME NEW x \in Int, NEW y \in Int, NEW l \in Levels, Multiple(x, l), Multiple(y, l), x < y
  PROVE  x + Size[l] <= y
<1>1. PICK j \in Int, k \in Int : x = j * Size[l] /\ y = k * Size[l]
  BY DEF Multiple
<1>2. Size[l] \in Int /\ Size[l] > 0
  BY Sizes
<1>3. ASSUME k <= j PROVE FALSE
  <2>1. (j - k) * Size[l] >= 0 /\ (j - k) * Size[l] = j * Size[l] - k * Size[l]
    BY <1>2, <1>3, Products
  <2>2. j * Size[l] \in Int /\ k * Size[l] \in Int
    BY <1>1
  <2>. QED
    BY <1>1, <2>1, <2>2
<1>4. /\ ((k - j) - 1) * Size[l] >= 0
      /\ ((k - j) - 1) * Size[l] = (k - j) * Size[l] - 1 * Size[l]
      /\ (k - j) * Size[l] = k * Size[l] - j * Size[l]
      /\ 1 * Size[l] = Size[l]
  BY <1>2, <1>3, Products
<1>. QED
  BY <1>1, <1>2, <1>4

\* Of two neighbouring multiples exactly one is a multiple of the next size.
LEMMA Alternate ==
  ASSUME NEW x \in Int, NEW l \in Levels, l < maxlogsize, Multiple(x, l)
  PROVE  Multiple(x, l + 1) <=> ~Multiple(x + Size[l], l + 1)
<1>1. PICK k \in Int : x = k * Size[l]
  BY DEF Multiple
<1>2. l + 1 \in Levels /\ Size[l + 1] = 2 * Size[l] /\ Size[l] \in Nat \ {0} /\ Size[l] > 0
  BY Sizes DEF Levels
<1>3. PICK j \in Int : k = 2 * j \/ k = 2 * j + 1
  <2>1. k \div 2 \in Int /\ (k = 2 * (k \div 2) \/ k = 2 * (k \div 2) + 1)
    OBVIOUS
  <2>. QED
    BY <2>1
<1>4. CASE k = 2 * j
  <2>1. x = j * Size[l + 1]
    BY <1>1, <1>2, <1>4, Products
  <2>2. Multiple(x, l + 1)
    BY <2>1 DEF Multiple
  <2>3. ASSUME Multiple(x + Size[l], l + 1) PROVE FALSE
    <3>1. x + Size[l + 1] <= x + Size[l]
      <4>1. x + Size[l] \in Int /\ x < x + Size[l]
        BY <1>2
      <4>. QED
        BY <1>2, <2>2, <2>3, <4>1, Gap
    <3>. QED
      BY <1>2, <3>1
  <2>. QED
    BY <2>2, <2>3
<1>5. CASE k = 2 * j + 1
  <2>1. x + Size[l] = (j + 1) * Size[l + 1]
    <3>1. x + Size[l] = k * Size[l] + 1 * Size[l]
      BY <1>1, <1>2, Products
    <3>2. k * Size[l] + 1 * Size[l] = (k + 1) * Size[l] /\ k + 1 = 2 * (j + 1)
      BY <1>2, <1>5, Products
    <3>3. (2 * (j + 1)) * Size[l] = (j + 1) * (2 * Size[l]) /\ j + 1 \in Int
      BY <1>2, Products
    <3>. QED
      BY <1>2, <3>1, <3>2, <3>3
  <2>2. Multiple(x + Size[l], l + 1)
    BY <2>1 DEF Multiple
  <2>3. ASSUME Multiple(x, l + 1) PROVE FALSE
    <3>1. x + Size[l + 1] <= x + Size[l]
      <4>1. x + Size[l] \in Int /\ x < x + Size[l]
        BY <1>2
      <4>. QED
        BY <1>2, <2>2, <2>3, <4>1, Gap
    <3>. QED
      BY <1>2, <3>1
  <2>. QED
    BY <2>2, <2>3
<1>. QED
  BY <1>3, <1>4, <1>5

-----------------------------------------------------------------------------
(* Blocks *)

\* The block of level l at a is the right half of its parent.
RightAt(a, l) == l < maxlogsize /\ Multiple(a + Size[l], l + 1)

\* e is the end of a left block of level m, or of the pool.
EndOfLeft(e, m) == Multiple(e, m) /\ (m = maxlogsize \/ ~Multiple(e, m + 1))

\* f is the flag "parent" of the chunks that end at e.
ParentFlag(e, f) ==
    \A m \in Levels : EndOfLeft(e, m) => (f <=> (m = maxlogsize \/ RightAt(e - Size[m], m + 1)))

\* A chunk at a with the header h is where it may be, and its flags are true.
IsBlock(a, h) ==
    /\ Multiple(a, h.logsize)
    /\ a + Size[h.logsize] <= Size[maxlogsize]
    /\ h.right <=> RightAt(a, h.logsize)
    /\ ParentFlag(a + Size[h.logsize], h.parent)

LEMMA LastIsUnique ==
  ASSUME NEW e \in Int, NEW m \in Levels, NEW n \in Levels, EndOfLeft(e, m), EndOfLeft(e, n)
  PROVE  m = n
<1>1. ASSUME NEW i \in Levels, NEW j \in Levels, EndOfLeft(e, i), EndOfLeft(e, j), i < j PROVE FALSE
  <2>1. i + 1 \in Levels /\ i + 1 <= j /\ i # maxlogsize
    BY <1>1, Sizes DEF Levels
  <2>2. Multiple(e, i + 1)
    BY <1>1, <2>1, MultipleDown DEF EndOfLeft
  <2>. QED
    BY <1>1, <2>1, <2>2 DEF EndOfLeft
<1>2. m < n \/ n < m \/ m = n
  BY Sizes DEF Levels
<1>. QED
  BY <1>1, <1>2

\* A left block's end is no multiple of the next size.
LEMMA LeftBlock ==
  ASSUME NEW a \in Int, NEW l \in Levels, l < maxlogsize, Multiple(a, l)
  PROVE  ~RightAt(a, l) <=> Multiple(a, l + 1)
BY Alternate DEF RightAt

LEMMA EndMultiple ==
  ASSUME NEW a \in Int, NEW l \in Levels, Multiple(a, l)
  PROVE  Multiple(a + Size[l], l)
<1>1. Size[l] \in Int /\ Multiple(Size[l], l)
  BY Sizes, SizeMultiple DEF Levels
<1>. QED
  BY <1>1, Sums

LEMMA LeftEnd ==
  ASSUME NEW a \in Int, NEW l \in Levels, l < maxlogsize, Multiple(a, l + 1)
  PROVE  /\ Multiple(a, l) /\ ~RightAt(a, l)
         /\ EndOfLeft(a + Size[l], l) /\ (a + Size[l]) - Size[l] = a
<1>1. l + 1 \in Levels
  BY Sizes DEF Levels
<1>2. Multiple(a, l)
  BY <1>1, MultipleDown DEF Levels
<1>3. Multiple(a + Size[l], l) /\ ~Multiple(a + Size[l], l + 1)
  BY <1>2, EndMultiple, Alternate
<1>4. Size[l] \in Int
  BY Sizes
<1>. QED
  BY <1>2, <1>3, <1>4 DEF RightAt, EndOfLeft

-----------------------------------------------------------------------------
(* Splitting and merging *)

LEMMA LeftHalfBlock ==
  ASSUME NEW a \in Int, NEW h \in Header, IsBlock(a, h), h.logsize - 1 \in Logs
  PROVE  LeftHalf(h) \in Header /\ IsBlock(a, LeftHalf(h))
<1> DEFINE l == h.logsize - 1
<1>1. l \in Levels /\ l + 1 = h.logsize /\ l < maxlogsize /\ l + 1 \in Levels
  BY Sizes DEF Header, Logs, Levels
<1>2. Size[l + 1] = 2 * Size[l] /\ Size[l] \in Nat \ {0} /\ Size[maxlogsize] \in Nat
  BY <1>1, Sizes
<1>3. LeftHalf(h) = [avail |-> h.avail, right |-> FALSE, parent |-> h.right, logsize |-> l]
  <2>1. h = [avail |-> h.avail, right |-> h.right, parent |-> h.parent, logsize |-> h.logsize]
    BY DEF Header
  <2>. HIDE DEF l
  <2>2. LeftHalf(h) = [h EXCEPT !.logsize = l, !.parent = h.right, !.right = FALSE]
    BY DEF LeftHalf, l
  <2>. QED
    BY <2>1, <2>2
<1>4. Multiple(a, l) /\ ~RightAt(a, l) /\ EndOfLeft(a + Size[l], l) /\ (a + Size[l]) - Size[l] = a
  BY <1>1, LeftEnd DEF IsBlock
<1>5. ParentFlag(a + Size[l], h.right)
  <2> SUFFICES ASSUME NEW m \in Levels, EndOfLeft(a + Size[l], m)
               PROVE  h.right <=> (m = maxlogsize \/ RightAt((a + Size[l]) - Size[m], m + 1))
    BY DEF ParentFlag
  <2>1. m = l
    BY <1>1, <1>2, <1>4, LastIsUnique
  <2>. QED
    BY <1>1, <1>4, <2>1 DEF IsBlock
<1>6. a + Size[l] <= Size[maxlogsize]
  BY <1>1, <1>2 DEF IsBlock
<1>7. LeftHalf(h) \in Header
  BY <1>3 DEF Header
<1>. HIDE DEF l
<1>. QED
  BY <1>3, <1>4, <1>5, <1>6, <1>7 DEF IsBlock

LEMMA RightHalfBlock ==
  ASSUME NEW a \in Int, NEW h \in Header, IsBlock(a, h), h.logsize - 1 \in Logs
  PROVE  RightHalf(h) \in Header /\ IsBlock(a + Size[h.logsize - 1], RightHalf(h))
<1> DEFINE l == h.logsize - 1
           b == a + Size[l]
<1>1. l \in Levels /\ l + 1 = h.logsize /\ l < maxlogsize /\ l + 1 \in Levels
  BY Sizes DEF Header, Logs, Levels
<1>2. Size[l + 1] = 2 * Size[l] /\ Size[l] \in Nat \ {0} /\ b \in Int
  <2>. HIDE DEF l
  <2>. QED
    BY <1>1, Sizes
<1>3. RightHalf(h) = [avail |-> TRUE, right |-> TRUE, parent |-> h.parent, logsize |-> l]
  BY DEF RightHalf
<1>4. b + Size[l] = a + Size[h.logsize]
  BY <1>1, <1>2
<1>5. Multiple(b, l)
  BY <1>1, LeftEnd, EndMultiple DEF IsBlock
<1>6. RightAt(b, l)
  BY <1>1, <1>4, EndMultiple DEF RightAt, IsBlock
<1>7. RightHalf(h) \in Header
  BY <1>3 DEF Header
<1>. HIDE DEF l, b
<1>8. IsBlock(b, RightHalf(h))
  BY <1>3, <1>4, <1>5, <1>6 DEF IsBlock
<1>. QED
  BY <1>7, <1>8 DEF b, l

LEMMA MergedBlock ==
  ASSUME NEW a \in Int, NEW lh \in Header, NEW rh \in Header, lh.logsize = rh.logsize,
         lh.logsize < maxlogsize, ~lh.right, IsBlock(a, lh), IsBlock(a + Size[lh.logsize], rh)
  PROVE  Merged(lh, rh) \in Header /\ IsBlock(a, Merged(lh, rh))
<1> DEFINE l == lh.logsize
<1>1. l \in Levels /\ l + 1 \in Levels /\ l + 1 \in Logs /\ l < maxlogsize /\ l # maxlogsize
  BY Sizes DEF Header, Logs, Levels
<1>2. Size[l + 1] = 2 * Size[l] /\ Size[l] \in Nat \ {0}
  BY <1>1, Sizes
<1>3. Merged(lh, rh) = [avail |-> TRUE, right |-> lh.parent, parent |-> rh.parent, logsize |-> l + 1]
  BY DEF Merged
<1>4. Multiple(a, l + 1)
  BY <1>1, LeftBlock DEF IsBlock
<1>5. (a + Size[l]) + Size[l] = a + Size[l + 1]
  BY <1>2
<1>6. lh.parent <=> RightAt(a, l + 1)
  <2>1. EndOfLeft(a + Size[l], l) /\ (a + Size[l]) - Size[l] = a
    BY <1>1, <1>4, LeftEnd
  <2>2. ParentFlag(a + Size[l], lh.parent)
    BY DEF IsBlock
  <2>. HIDE DEF l
  <2>. QED
    BY <1>1, <2>1, <2>2 DEF ParentFlag
<1>7. a + Size[l + 1] <= Size[maxlogsize] /\ ParentFlag(a + Size[l + 1], rh.parent)
  BY <1>5 DEF IsBlock
<1>8. Merged(lh, rh) \in Header
  BY <1>1, <1>3 DEF Header
<1>. HIDE DEF l
<1>. QED
  BY <1>3, <1>4, <1>6, <1>7, <1>8 DEF IsBlock

-----------------------------------------------------------------------------
(* The invariant *)

Blocks == \A a \in Chunks : IsBlock(a, hdr[a])
Apart == \A a, b \in Chunks : a < b => a + Size[hdr[a].logsize] <= b
Covered == \A x \in Addr : \E a \in Chunks : x \in Bytes(a)
Counted == Cardinality(Chunks) = nsplits - nmerges + 1

\* What the caller holds is used, large enough and not too large; what is used
\* the caller holds, unless it is being freed.
Fits(a) ==
    /\ a \in Chunks /\ ~hdr[a].avail
    /\ held[a] <= Size[hdr[a].logsize]
    /\ hdr[a].logsize = minlogsize \/ held[a] > Size[hdr[a].logsize - 1]
HeldIsUsed == \A a \in Addr : held[a] # 0 => Fits(a)
UsedIsHeld == \A a \in Chunks : hdr[a].avail \/ held[a] # 0 \/ (pc = "free" /\ a = node)

\* The chunk that the call in progress works on.
AtWork ==
    /\ pc # "idle" => node \in Chunks
    /\ pc = "alloc" => hdr[node].avail /\ 0 < size /\ size <= Size[hdr[node].logsize]
    /\ pc = "free" => held[node] = 0

\* A chunk is on the list of its level.
Placed(bt, h) == \A i \in 0..(nblocks - 1) : \A a \in bt[i] : h[a].logsize = maxlogsize - i

Tiles == Blocks /\ Apart /\ Covered
Uses == HeldIsUsed /\ UsedIsHeld
MpoolIInv == MpoolTypeOK /\ Tiles /\ Counted /\ Placed(blktable, hdr) /\ Uses /\ AtWork

LEMMA AddrFacts ==
  ASSUME MpoolTypeOK
  PROVE  /\ Addr \subseteq Nat /\ Chunks \subseteq Addr
         /\ \A a \in Addr : /\ a \in Int /\ a >= 0 /\ a < Size[maxlogsize]
                            /\ hdr[a] \in Header
                            /\ hdr[a].logsize \in Logs /\ hdr[a].logsize \in Levels
                            /\ hdr[a].logsize <= maxlogsize
                            /\ Size[hdr[a].logsize] \in Nat \ {0}
<1>1. Size[maxlogsize] \in Nat /\ \A l \in Logs : l \in Levels /\ l <= maxlogsize /\ Size[l] \in Nat \ {0}
  BY Sizes DEF Levels
<1>2. Chunks \subseteq Addr
  BY DEF MpoolTypeOK, Chunks
<1>3. \A a \in Addr : hdr[a] \in Header /\ hdr[a].logsize \in Logs
  BY DEF MpoolTypeOK, Header
<1>. QED
  BY <1>1, <1>2, <1>3 DEF Addr

\* The other half of a chunk's parent starts where a chunk starts.
LEMMA Sibling ==
  ASSUME MpoolTypeOK, Tiles, NEW n \in Chunks, NEW l \in Levels, l = hdr[n].logsize, l < maxlogsize,
         NEW p \in Int, Multiple(p, l + 1), NEW s \in Addr, Multiple(s, l),
         \/ n = p /\ s = p + Size[l]
         \/ s = p /\ n = p + Size[l]
  PROVE  s \in Chunks
<1>1. PICK b \in Chunks : b <= s /\ s < b + Size[hdr[b].logsize]
  <2>1. PICK b \in Chunks : s \in Bytes(b)
    BY DEF Tiles, Covered
  <2>2. b \in Int /\ Size[hdr[b].logsize] \in Int /\ s \in Int
    BY <2>1, AddrFacts
  <2>. QED
    BY <2>1, <2>2 DEF Bytes
<1> DEFINE m == hdr[b].logsize
<1>2. /\ b \in Int /\ m \in Levels /\ n \in Int /\ s \in Int /\ Size[m] \in Nat \ {0}
      /\ Size[l] \in Nat \ {0} /\ l + 1 \in Levels /\ Size[l + 1] = 2 * Size[l]
  BY AddrFacts, Sizes
<1>3. Multiple(b, m) /\ Multiple(b + Size[m], m)
  BY <1>2, EndMultiple DEF Tiles, Blocks, IsBlock
<1>. HIDE DEF m
<1>4. CASE m <= l
  <2>1. Multiple(s, m)
    BY <1>2, <1>4, MultipleDown
  <2>2. ASSUME b < s PROVE FALSE
    BY <1>1, <1>2, <1>3, <2>1, <2>2, Gap DEF m
  <2>. QED
    BY <1>1, <1>2, <2>2
<1>5. CASE l + 1 <= m
  <2>1. Multiple(b, l + 1) /\ Multiple(b + Size[m], l + 1) /\ b + Size[m] \in Int
    BY <1>2, <1>3, <1>5, MultipleDown
  <2>2. b <= p
    <3>1. ASSUME p < b PROVE FALSE
      <4>1. p + Size[l + 1] <= b
        BY <1>2, <2>1, <3>1, Gap
      <4>. QED
        BY <1>1, <1>2, <4>1
    <3>. QED
      BY <1>2, <3>1
  <2>3. p + Size[l + 1] <= b + Size[m]
    <3>1. p < b + Size[m]
      BY <1>1, <1>2 DEF m
    <3>. QED
      BY <1>2, <2>1, <3>1, Gap
  <2>4. n # b
    BY <1>2, <1>5 DEF m, Levels
  <2>5. b < n /\ n < b + Size[m]
    BY <1>2, <2>2, <2>3, <2>4
  <2>. QED
    BY <1>2, <2>5 DEF Tiles, Apart, m
<1>. QED
  BY <1>2, <1>4, <1>5, Sizes DEF Levels

\* The buddy of a chunk that is being freed is a chunk; the two are the halves
\* of a block.
LEMMA BuddyFound ==
  ASSUME MpoolTypeOK, Tiles, node \in Chunks, hdr[node].logsize # maxlogsize,
         NEW l \in Levels, l = hdr[node].logsize,
         NEW left, left = (IF hdr[node].right THEN Buddy ELSE node),
         NEW right, right = (IF hdr[node].right THEN node ELSE Buddy)
  PROVE  /\ Buddy \in Chunks
         /\ left \in Chunks /\ right \in Chunks /\ right = left + Size[l] /\ left # right
         /\ Multiple(left, l + 1)
<1>1. /\ node \in Int /\ node >= 0 /\ node < Size[maxlogsize] /\ node \in Addr
      /\ l < maxlogsize /\ l + 1 \in Levels /\ l + 1 <= maxlogsize /\ l <= l /\ l <= l + 1
      /\ Size[l] \in Nat /\ Size[l] > 0 /\ Size[l + 1] = 2 * Size[l] /\ Size[maxlogsize] \in Nat
  <2>1. l \in Int /\ l <= maxlogsize
    BY Sizes DEF Levels
  <2>. QED
    BY <2>1, AddrFacts, Sizes
<1>2. Multiple(node, l) /\ (hdr[node].right <=> RightAt(node, l))
  BY DEF Tiles, Blocks, IsBlock
<1>3. Multiple(Size[l + 1], l + 1) /\ Multiple(0, l + 1) /\ Multiple(Size[maxlogsize], l + 1)
  BY <1>1, SizeMultiple, Sizes
<1>4. CASE ~hdr[node].right
  <2>1. Multiple(node, l + 1)
    BY <1>1, <1>2, <1>4, LeftBlock
  <2>2. node + Size[l + 1] <= Size[maxlogsize]
    BY <1>1, <1>3, <2>1, Gap
  <2>3. Buddy = node + Size[l] /\ Buddy \in Addr
    BY <1>1, <1>4, <2>2 DEF Buddy, MPOOL_GET_RIGHT_BUDDY_OF, Addr
  <2>4. Multiple(Buddy, l)
    BY <1>1, <1>2, <2>3, EndMultiple
  <2>5. Buddy \in Chunks
    BY <1>1, <2>1, <2>3, <2>4, Sibling
  <2>. QED
    BY <1>1, <1>4, <2>1, <2>3, <2>5
<1>5. CASE hdr[node].right
  <2>1. Multiple(node + Size[l], l + 1)
    BY <1>2, <1>5 DEF RightAt
  <2>2. (node + Size[l]) - Size[l + 1] = node - Size[l] /\ node + Size[l] \in Int
    BY <1>1
  <2>3. Multiple(node - Size[l], l + 1)
    BY <1>1, <1>3, <2>1, <2>2, Sums
  <2>4. node > 0
    <3>1. CASE node = 0
      <4>1. Multiple(node, l + 1)
        BY <1>3, <3>1
      <4>. QED
        BY <1>1, <1>2, <1>5, <4>1, LeftBlock
    <3>. QED
      BY <1>1, <3>1
  <2>5. Multiple(0, l)
    BY <1>1, SizeMultiple
  <2>6. Size[l] <= node
    <3>1. 0 + Size[l] <= node
      BY <1>1, <1>2, <2>4, <2>5, Gap
    <3>. QED
      BY <1>1, <3>1
  <2>7. Buddy = node - Size[l] /\ Buddy \in Addr /\ Buddy \in Int /\ node = Buddy + Size[l]
    BY <1>1, <1>5, <2>6 DEF Buddy, MPOOL_GET_LEFT_BUDDY_OF, Addr
  <2>8. Multiple(Buddy, l + 1) /\ Multiple(Buddy, l)
    BY <1>1, <2>3, <2>7, MultipleDown
  <2>9. Buddy \in Chunks
    BY <1>1, <2>7, <2>8, Sibling
  <2>10. left = Buddy /\ right = node
    BY <1>5
  <2>11. Buddy # node
    <3>1. node # node - Size[l]
      BY <1>1
    <3>. QED
      BY <2>7, <3>1
  <2>. QED
    BY <2>7, <2>8, <2>9, <2>10, <2>11
<1>. QED
  BY <1>4, <1>5

\* A step that changes no chunk's place, size, side or parent.
LEMMA SameTiles ==
  ASSUME MpoolTypeOK, Tiles, Chunks' = Chunks,
         \A a \in Addr : /\ hdr'[a].logsize = hdr[a].logsize /\ hdr'[a].right = hdr[a].right
                         /\ hdr'[a].parent = hdr[a].parent
  PROVE  Tiles'
<1>1. Chunks \subseteq Addr
  BY AddrFacts
<1>2. \A a \in Chunks : IsBlock(a, hdr'[a])
  BY <1>1 DEF Tiles, Blocks, IsBlock
<1>3. \A a \in Chunks : Bytes(a)' = Bytes(a)
  BY <1>1 DEF Bytes
<1>. QED
  BY <1>1, <1>2, <1>3 DEF Tiles, Blocks, Apart, Covered, IsBlock, Addr

-----------------------------------------------------------------------------
(* The lists *)

OnLists(bt) == UNION {bt[i] : i \in 0..(nblocks - 1)}
Lists == [0..(nblocks - 1) -> SUBSET Addr]

LEMMA ListRemove ==
  ASSUME NEW bt \in Lists, NEW a
  PROVE  LIST_REMOVE(bt, a) \in Lists /\ OnLists(LIST_REMOVE(bt, a)) = OnLists(bt) \ {a}
<1>1. LIST_REMOVE(bt, a) = [i \in 0..(nblocks - 1) |-> bt[i] \ {a}]
  BY DEF LIST_REMOVE, Lists
<1>. HIDE DEF nblocks
<1>. QED
  BY <1>1 DEF Lists, OnLists

LEMMA ListInsert ==
  ASSUME NEW bt \in Lists, NEW a \in Addr, NEW l \in Logs
  PROVE  /\ LIST_INSERT_HEAD(bt, l, a) \in Lists
         /\ OnLists(LIST_INSERT_HEAD(bt, l, a)) = OnLists(bt) \cup {a}
<1>1. maxlogsize - l \in 0..(nblocks - 1)
  BY MpoolAssumption DEF Logs, nblocks
<1>2. LIST_INSERT_HEAD(bt, l, a) =
        [i \in 0..(nblocks - 1) |-> IF i = maxlogsize - l THEN bt[i] \cup {a} ELSE bt[i]]
  BY <1>1 DEF LIST_INSERT_HEAD, Lists
<1>. HIDE DEF nblocks
<1>. QED
  BY <1>1, <1>2 DEF Lists, OnLists

LEMMA PlacedSame ==
  ASSUME NEW bt \in Lists, NEW h, NEW g, Placed(bt, h),
         \A a \in OnLists(bt) : g[a].logsize = h[a].logsize
  PROVE  Placed(bt, g)
BY DEF Placed, OnLists

LEMMA PlacedRemove ==
  ASSUME NEW bt \in Lists, NEW h, Placed(bt, h), NEW a
  PROVE  Placed(LIST_REMOVE(bt, a), h)
BY DEF Placed, LIST_REMOVE, Lists

LEMMA PlacedInsert ==
  ASSUME NEW bt \in Lists, NEW h, Placed(bt, h), NEW a \in Addr, NEW l \in Logs, h[a].logsize = l
  PROVE  Placed(LIST_INSERT_HEAD(bt, l, a), h)
<1>1. maxlogsize - l \in 0..(nblocks - 1) /\ maxlogsize - (maxlogsize - l) = l
  BY MpoolAssumption DEF Logs, nblocks
<1>2. LIST_INSERT_HEAD(bt, l, a) =
        [i \in 0..(nblocks - 1) |-> IF i = maxlogsize - l THEN bt[i] \cup {a} ELSE bt[i]]
  BY <1>1 DEF LIST_INSERT_HEAD, Lists
<1>. HIDE DEF nblocks
<1>. QED
  BY <1>1, <1>2 DEF Placed

LEMMA FiniteChunks == ASSUME MpoolTypeOK PROVE IsFiniteSet(Chunks)
<1>1. IsFiniteSet(Addr)
  <2>1. Size[maxlogsize] - 1 \in Int
    BY Sizes
  <2>. QED
    BY <2>1, FS_Interval DEF Addr
<1>. QED
  BY <1>1, AddrFacts, FS_Subset

-----------------------------------------------------------------------------
(* The steps *)

LEMMA Initially == MpoolInit => MpoolIInv
<1> SUFFICES ASSUME MpoolInit PROVE MpoolIInv
  OBVIOUS
<1> DEFINE root == [avail |-> TRUE, right |-> FALSE, parent |-> TRUE, logsize |-> maxlogsize]
<1>1. /\ Size[maxlogsize] \in Nat /\ Size[maxlogsize] > 0 /\ maxlogsize \in Levels /\ maxlogsize \in Logs
      /\ maxlogsize \in Nat /\ nblocks \in Nat /\ nblocks > 0
  BY Sizes, MpoolAssumption DEF Logs, Levels, nblocks
<1>2. 0 \in Addr /\ Addr \subseteq Int /\ \A a \in Addr : a >= 0
  BY <1>1 DEF Addr
<1>3. hdr = [a \in Addr |-> root] /\ hdr[0] = root /\ root \in Header
  BY <1>1, <1>2 DEF MpoolInit, Header
<1>. HIDE DEF nblocks
<1>4. Chunks = {0}
  <2>1. 0 \in 0..(nblocks - 1)
    BY <1>1
  <2>2. blktable = [i \in 0..(nblocks - 1) |-> IF i = 0 THEN {0} ELSE {}]
    BY DEF MpoolInit
  <2>. QED
    BY <2>1, <2>2 DEF Chunks
<1>5. MpoolTypeOK
  <2>1. blktable \in [0..(nblocks - 1) -> SUBSET Addr]
    BY <1>2 DEF MpoolInit
  <2>. QED
    BY <1>2, <1>3, <2>1 DEF MpoolInit, MpoolTypeOK
<1>6. Blocks
  <2>1. Multiple(0, maxlogsize) /\ Multiple(Size[maxlogsize], maxlogsize)
    BY <1>1, SizeMultiple
  <2>2. EndOfLeft(Size[maxlogsize], maxlogsize)
    BY <2>1 DEF EndOfLeft
  <2>3. \A m \in Levels : EndOfLeft(Size[maxlogsize], m) => m = maxlogsize
    BY <1>1, <2>2, LastIsUnique
  <2>4. ParentFlag(0 + Size[maxlogsize], TRUE)
    BY <1>1, <2>3 DEF ParentFlag
  <2>5. ~RightAt(0, maxlogsize)
    BY <1>1 DEF RightAt
  <2>6. IsBlock(0, root)
    <3>1. root.logsize = maxlogsize /\ root.right = FALSE /\ root.parent = TRUE
      OBVIOUS
    <3>2. 0 + Size[maxlogsize] <= Size[maxlogsize]
      BY <1>1
    <3>. HIDE DEF root
    <3>. QED
      BY <2>1, <2>4, <2>5, <3>1, <3>2 DEF IsBlock
  <2>. QED
    BY <1>3, <1>4, <2>6 DEF Blocks
<1>7. Apart
  BY <1>2, <1>4 DEF Apart
<1>8. Covered
  <2>1. Bytes(0) = Addr
    BY <1>1, <1>3 DEF Bytes, Addr
  <2>. QED
    BY <1>4, <2>1 DEF Covered
<1>9. Counted
  <2>1. Cardinality({0}) = 1
    BY FS_Singleton
  <2>2. nsplits = 0 /\ nmerges = 0
    BY DEF MpoolInit
  <2>. QED
    BY <1>4, <2>1, <2>2 DEF Counted
<1>10. Uses /\ AtWork
  BY <1>3, <1>4 DEF Uses, HeldIsUsed, UsedIsHeld, AtWork, MpoolInit
<1>11. Placed(blktable, hdr)
  BY <1>1, <1>2, <1>3 DEF Placed, MpoolInit
<1>. QED
  BY <1>5, <1>6, <1>7, <1>8, <1>9, <1>10, <1>11 DEF MpoolIInv, Tiles

LEMMA AllocSearchKeeps == MpoolIInv /\ AllocSearch => MpoolIInv'
<1> SUFFICES ASSUME MpoolIInv, AllocSearch PROVE MpoolIInv'
  OBVIOUS
<1>0. MpoolTypeOK /\ Tiles /\ Counted /\ Placed(blktable, hdr) /\ HeldIsUsed /\ UsedIsHeld
  BY DEF MpoolIInv, Uses
<1>1. PICK blksize \in Requests, i \in 0..(nblocks - 1) :
        /\ size' = blksize + HdrSize
        /\ Suitable(i, size')
        /\ \E a \in blktable[i] : hdr[a].avail /\ node' = a
  BY DEF AllocSearch
<1>2. pc = "idle" /\ pc' = "alloc" /\ UNCHANGED <<hdr, blktable, nsplits, nmerges, held>>
  BY DEF AllocSearch
<1>3. size' \in Nat /\ size' > 0
  BY <1>1, MpoolAssumption
<1>4. node' \in Chunks /\ hdr[node'].avail /\ hdr[node'].logsize = maxlogsize - i
  BY <1>0, <1>1 DEF Chunks, Placed
<1>5. size' <= Size[hdr[node'].logsize]
  <2>1. PICK a \in blktable[i] : Size[hdr[a].logsize] >= size'
    BY <1>1 DEF Suitable
  <2>2. hdr[a].logsize = hdr[node'].logsize
    BY <1>0, <1>4 DEF Placed
  <2>3. Size[hdr[node'].logsize] \in Int
    BY <1>0, <1>4, AddrFacts
  <2>. QED
    BY <1>3, <2>1, <2>2, <2>3
<1>6. Chunks' = Chunks
  BY <1>2 DEF Chunks
<1>7. MpoolTypeOK'
  BY <1>0, <1>2, <1>3, <1>4, AddrFacts DEF MpoolTypeOK, Addr
<1>8. Tiles'
  BY <1>0, <1>2, <1>6, SameTiles
<1>9. Counted' /\ Placed(blktable, hdr)'
  BY <1>0, <1>2, <1>6 DEF Counted, Placed
<1>10. Uses'
  BY <1>0, <1>2, <1>6 DEF Uses, HeldIsUsed, UsedIsHeld, Fits, Addr
<1>11. AtWork'
  BY <1>2, <1>3, <1>4, <1>5, <1>6 DEF AtWork
<1>. QED
  BY <1>7, <1>8, <1>9, <1>10, <1>11 DEF MpoolIInv

LEMMA AllocDoneKeeps == MpoolIInv /\ AllocDone => MpoolIInv'
<1> SUFFICES ASSUME MpoolIInv, AllocDone PROVE MpoolIInv'
  OBVIOUS
<1> DEFINE l == hdr[node].logsize
<1>0. MpoolTypeOK /\ Tiles /\ Counted /\ Placed(blktable, hdr) /\ HeldIsUsed /\ UsedIsHeld /\ AtWork
  BY DEF MpoolIInv, Uses
<1>1. /\ pc = "alloc" /\ pc' = "idle" /\ NoSplit(l)
      /\ hdr' = [hdr EXCEPT ![node].avail = FALSE]
      /\ held' = [held EXCEPT ![node] = size]
      /\ UNCHANGED <<blktable, nsplits, nmerges, node, size>>
  BY DEF AllocDone
<1>2. node \in Chunks /\ node \in Addr /\ 0 < size /\ size <= Size[l] /\ size \in Nat
  BY <1>0, <1>1 DEF AtWork, MpoolTypeOK
<1>3. /\ hdr' \in [Addr -> Header]
      /\ hdr'[node] = [hdr[node] EXCEPT !.avail = FALSE]
      /\ \A a \in Addr \ {node} : hdr'[a] = hdr[a]
  BY <1>0, <1>1, <1>2 DEF MpoolTypeOK, Header
<1>4. \A a \in Addr : /\ hdr'[a].logsize = hdr[a].logsize /\ hdr'[a].right = hdr[a].right
                      /\ hdr'[a].parent = hdr[a].parent
  BY <1>0, <1>2, <1>3 DEF MpoolTypeOK, Header
<1>5. ~hdr'[node].avail
  BY <1>0, <1>2, <1>3 DEF MpoolTypeOK, Header
<1>6. Chunks' = Chunks
  BY <1>1 DEF Chunks
<1>7. MpoolTypeOK'
  BY <1>0, <1>1, <1>2, <1>3 DEF MpoolTypeOK, Addr
<1>8. Tiles'
  BY <1>0, <1>4, <1>6, SameTiles
<1>9. Counted'
  BY <1>0, <1>1, <1>6 DEF Counted
<1>10. Placed(blktable, hdr)'
  <2>1. blktable \in Lists /\ OnLists(blktable) = Chunks /\ Chunks \subseteq Addr
    BY <1>0, AddrFacts DEF MpoolTypeOK, Lists, OnLists, Chunks
  <2>2. Placed(blktable, hdr')
    BY <1>0, <1>4, <2>1, PlacedSame
  <2>. QED
    BY <1>1, <2>2 DEF Placed
<1>11. held'[node] = size /\ \A a \in Addr \ {node} : held'[a] = held[a]
  BY <1>0, <1>1, <1>2 DEF MpoolTypeOK
<1>12. l = minlogsize \/ size > Size[l - 1]
  <2>1. l \in Logs /\ l \in Levels /\ l > 0 /\ l - 1 \in Levels /\ Size[l] = 2 * Size[l - 1] /\ Size[l - 1] \in Nat \ {0}
    <3>1. l \in Logs /\ l \in Levels
      BY <1>0, <1>2, AddrFacts
    <3>2. l > 0
      BY <3>1, Sizes DEF Logs, Levels
    <3>. HIDE DEF l
    <3>. QED
      BY <3>1, <3>2, Sizes
  <2>2. CASE minlogsize > l - 1
    BY <2>1, <2>2, MpoolAssumption DEF Logs
  <2>3. CASE size = Size[l]
    BY <2>1, <2>3
  <2>. QED
    BY <1>1, <2>2, <2>3 DEF NoSplit
<1>. HIDE DEF l
<1>13. HeldIsUsed'
  <2> SUFFICES ASSUME NEW a \in Addr, held'[a] # 0 PROVE Fits(a)'
    BY DEF HeldIsUsed, Addr
  <2>1. CASE a = node
    BY <1>2, <1>4, <1>5, <1>6, <1>11, <1>12, <2>1 DEF Fits, l
  <2>2. CASE a # node
    BY <1>0, <1>3, <1>6, <1>11, <2>2 DEF Fits, HeldIsUsed
  <2>. QED
    BY <2>1, <2>2
<1>14. UsedIsHeld'
  <2> SUFFICES ASSUME NEW a \in Chunks PROVE hdr'[a].avail \/ held'[a] # 0
    BY <1>6 DEF UsedIsHeld
  <2>0. a \in Addr
    BY <1>0, AddrFacts
  <2>1. CASE a = node
    BY <1>2, <1>11, <2>1
  <2>2. CASE a # node
    BY <1>0, <1>1, <1>3, <1>11, <2>0, <2>2 DEF UsedIsHeld
  <2>. QED
    BY <2>1, <2>2
<1>15. AtWork'
  BY <1>1 DEF AtWork
<1>. QED
  BY <1>7, <1>8, <1>9, <1>10, <1>13, <1>14, <1>15 DEF MpoolIInv, Uses

LEMMA FreeCallKeeps == MpoolIInv /\ FreeCall => MpoolIInv'
<1> SUFFICES ASSUME MpoolIInv, FreeCall PROVE MpoolIInv'
  OBVIOUS
<1>0. MpoolTypeOK /\ Tiles /\ Counted /\ Placed(blktable, hdr) /\ HeldIsUsed /\ UsedIsHeld
  BY DEF MpoolIInv, Uses
<1>1. PICK n \in Addr : held[n] # 0 /\ node' = n /\ held' = [held EXCEPT ![n] = 0]
  BY DEF FreeCall
<1>2. pc = "idle" /\ pc' = "free" /\ UNCHANGED <<hdr, blktable, nsplits, nmerges, size>>
  BY DEF FreeCall
<1>3. Fits(n)
  BY <1>0, <1>1 DEF HeldIsUsed
<1>4. Chunks' = Chunks
  BY <1>2 DEF Chunks
<1>5. held' \in [Addr -> Nat] /\ held'[n] = 0 /\ \A a \in Addr \ {n} : held'[a] = held[a]
  BY <1>0, <1>1 DEF MpoolTypeOK
<1>6. MpoolTypeOK'
  BY <1>0, <1>1, <1>2, <1>5 DEF MpoolTypeOK, Addr
<1>7. Tiles'
  BY <1>0, <1>2, <1>4, SameTiles
<1>8. Counted' /\ Placed(blktable, hdr)'
  BY <1>0, <1>2, <1>4 DEF Counted, Placed
<1>9. HeldIsUsed'
  <2> SUFFICES ASSUME NEW a \in Addr, held'[a] # 0 PROVE Fits(a)'
    BY DEF HeldIsUsed, Addr
  <2>. QED
    BY <1>0, <1>2, <1>4, <1>5 DEF Fits, HeldIsUsed
<1>10. UsedIsHeld'
  <2>1. Chunks \subseteq Addr
    BY <1>0, AddrFacts
  <2>. QED
    BY <1>0, <1>1, <1>2, <1>4, <1>5, <2>1 DEF UsedIsHeld
<1>11. AtWork'
  BY <1>1, <1>2, <1>3, <1>4, <1>5 DEF AtWork, Fits
<1>. QED
  BY <1>6, <1>7, <1>8, <1>9, <1>10, <1>11 DEF MpoolIInv, Uses

LEMMA FreeDoneKeeps == MpoolIInv /\ FreeDone => MpoolIInv'
<1> SUFFICES ASSUME MpoolIInv, FreeDone PROVE MpoolIInv'
  OBVIOUS
<1>0. MpoolTypeOK /\ Tiles /\ Counted /\ Placed(blktable, hdr) /\ HeldIsUsed /\ UsedIsHeld /\ AtWork
  BY DEF MpoolIInv, Uses
<1>1. pc = "free" /\ pc' = "idle" /\ UNCHANGED <<blktable, nsplits, nmerges, node, size, held>>
  BY DEF FreeDone
<1>2. node \in Chunks /\ node \in Addr /\ held[node] = 0 /\ Chunks \subseteq Addr
  BY <1>0, <1>1, AddrFacts DEF AtWork, MpoolTypeOK
<1>3. hdr[node].logsize = maxlogsize \/ Buddy \in Addr
  BY <1>0, <1>2, BuddyFound, AddrFacts
<1>4. hdr' = [hdr EXCEPT ![node].avail = TRUE]
  BY <1>3 DEF FreeDone
<1>5. /\ hdr' \in [Addr -> Header]
      /\ hdr'[node] = [hdr[node] EXCEPT !.avail = TRUE]
      /\ \A a \in Addr \ {node} : hdr'[a] = hdr[a]
  BY <1>0, <1>2, <1>4 DEF MpoolTypeOK, Header
<1>6. \A a \in Addr : /\ hdr'[a].logsize = hdr[a].logsize /\ hdr'[a].right = hdr[a].right
                      /\ hdr'[a].parent = hdr[a].parent
  BY <1>0, <1>2, <1>5 DEF MpoolTypeOK, Header
<1>7. hdr'[node].avail
  BY <1>0, <1>2, <1>5 DEF MpoolTypeOK, Header
<1>8. Chunks' = Chunks
  BY <1>1 DEF Chunks
<1>9. MpoolTypeOK'
  BY <1>0, <1>1, <1>2, <1>5 DEF MpoolTypeOK, Addr
<1>10. Tiles'
  BY <1>0, <1>6, <1>8, SameTiles
<1>11. Counted'
  BY <1>0, <1>1, <1>8 DEF Counted
<1>12. Placed(blktable, hdr)'
  <2>1. blktable \in Lists /\ OnLists(blktable) = Chunks
    BY <1>0 DEF MpoolTypeOK, Lists, OnLists, Chunks
  <2>2. Placed(blktable, hdr')
    BY <1>0, <1>2, <1>6, <2>1, PlacedSame
  <2>. QED
    BY <1>1, <2>2 DEF Placed
<1>13. HeldIsUsed'
  <2> SUFFICES ASSUME NEW a \in Addr, held[a] # 0 PROVE Fits(a)'
    BY <1>1 DEF HeldIsUsed, Addr
  <2>1. a # node
    BY <1>2
  <2>. QED
    BY <1>0, <1>1, <1>5, <1>8, <2>1 DEF Fits, HeldIsUsed
<1>14. UsedIsHeld'
  BY <1>0, <1>1, <1>2, <1>5, <1>7, <1>8 DEF UsedIsHeld
<1>15. AtWork'
  BY <1>1 DEF AtWork
<1>. QED
  BY <1>9, <1>10, <1>11, <1>12, <1>13, <1>14, <1>15 DEF MpoolIInv, Uses

LEMMA AllocSplitKeeps == MpoolIInv /\ AllocSplit => MpoolIInv'
<1> SUFFICES ASSUME MpoolIInv, AllocSplit PROVE MpoolIInv'
  OBVIOUS
<1> DEFINE h == hdr[node]
           l == h.logsize - 1
           new == node + Size[l]
           removed == LIST_REMOVE(blktable, node)
           inserted == LIST_INSERT_HEAD(removed, l, node)
<1>0. MpoolTypeOK /\ Tiles /\ Counted /\ Placed(blktable, hdr) /\ HeldIsUsed /\ UsedIsHeld /\ AtWork
  BY DEF MpoolIInv, Uses
<1>1. /\ pc = "alloc" /\ ~NoSplit(h.logsize)
      /\ hdr' = [hdr EXCEPT ![node] = LeftHalf(h), ![new] = RightHalf(h)]
      /\ blktable' = LIST_INSERT_HEAD(inserted, l, new)
      /\ nsplits' = nsplits + 1
      /\ UNCHANGED <<nmerges, pc, node, size, held>>
  BY DEF AllocSplit
<1>2. /\ node \in Chunks /\ node \in Addr /\ node \in Int /\ h \in Header /\ h.avail
      /\ 0 < size /\ size <= Size[h.logsize] /\ size \in Nat
      /\ h.logsize \in Logs /\ h.logsize \in Levels /\ Chunks \subseteq Addr /\ node >= 0
  BY <1>0, <1>1, AddrFacts DEF AtWork, MpoolTypeOK
<1>3. l \in Logs /\ l \in Levels /\ l + 1 = h.logsize /\ minlogsize <= l
  <2>1. h.logsize - 1 >= minlogsize
    BY <1>1, <1>2, MpoolAssumption DEF NoSplit, Logs
  <2>2. minlogsize \in Nat /\ maxlogsize \in Nat
    BY MpoolAssumption
  <2>3. h.logsize \in Nat /\ h.logsize <= maxlogsize
    BY <1>2, <2>2 DEF Logs
  <2>. HIDE DEF h
  <2>. QED
    BY <2>1, <2>2, <2>3 DEF Logs, Levels
<1>4. /\ Size[l + 1] = 2 * Size[l] /\ Size[l] \in Nat /\ Size[l] > 0 /\ Size[maxlogsize] \in Nat
      /\ Size[h.logsize] = 2 * Size[l]
  <2>1. l < maxlogsize
    BY <1>2, <1>3, Sizes DEF Levels
  <2>. HIDE DEF l, h
  <2>. QED
    BY <1>3, <2>1, Sizes
<1>5. size <= Size[l]
  <2>1. ~(size > Size[l])
    BY <1>1 DEF NoSplit
  <2>. HIDE DEF l
  <2>. QED
    BY <1>2, <1>4, <2>1
<1>6. IsBlock(node, h)
  BY <1>0, <1>2 DEF Tiles, Blocks
<1>. HIDE DEF h, l
<1>7. /\ LeftHalf(h) \in Header /\ IsBlock(node, LeftHalf(h))
      /\ RightHalf(h) \in Header /\ IsBlock(new, RightHalf(h))
  BY <1>2, <1>3, <1>6, LeftHalfBlock, RightHalfBlock DEF l
<1>8. /\ new \in Addr /\ new \in Int /\ node < new /\ new # node
      /\ new + Size[l] = node + Size[h.logsize]
  <2>1. node + Size[h.logsize] <= Size[maxlogsize]
    BY <1>6 DEF IsBlock
  <2>. QED
    BY <1>2, <1>4, <2>1 DEF Addr
<1>9. new \notin Chunks
  <2> SUFFICES ASSUME new \in Chunks PROVE FALSE
    OBVIOUS
  <2>1. node + Size[h.logsize] <= new
    BY <1>0, <1>2, <1>8 DEF Tiles, Apart, h
  <2>. QED
    BY <1>2, <1>4, <2>1
<1>. HIDE DEF new
<1>10. /\ hdr' \in [Addr -> Header]
       /\ hdr'[node] = LeftHalf(h) /\ hdr'[new] = RightHalf(h)
       /\ \A a \in Addr \ {node, new} : hdr'[a] = hdr[a]
  BY <1>0, <1>1, <1>2, <1>7, <1>8 DEF MpoolTypeOK
<1>11. /\ LeftHalf(h).logsize = l /\ LeftHalf(h).avail
       /\ RightHalf(h).logsize = l /\ RightHalf(h).avail
  <2>1. h = [avail |-> h.avail, right |-> h.right, parent |-> h.parent, logsize |-> h.logsize]
    BY <1>2 DEF Header
  <2>. QED
    BY <1>2, <2>1 DEF LeftHalf, RightHalf, l
<1>12. /\ blktable \in Lists /\ OnLists(blktable) = Chunks
       /\ removed \in Lists /\ OnLists(removed) = Chunks \ {node}
       /\ inserted \in Lists /\ OnLists(inserted) = Chunks
       /\ blktable' \in Lists /\ OnLists(blktable') = Chunks \cup {new}
  <2>1. blktable \in Lists /\ OnLists(blktable) = Chunks
    BY <1>0 DEF MpoolTypeOK, Lists, OnLists, Chunks
  <2>2. removed \in Lists /\ OnLists(removed) = Chunks \ {node}
    BY <2>1, ListRemove
  <2>. HIDE DEF removed
  <2>3. inserted \in Lists /\ OnLists(inserted) = (Chunks \ {node}) \cup {node}
    BY <1>2, <1>3, <2>2, ListInsert
  <2>. HIDE DEF inserted
  <2>4. blktable' \in Lists /\ OnLists(blktable') = OnLists(inserted) \cup {new}
    BY <1>1, <1>3, <1>8, <2>3, ListInsert
  <2>. QED
    BY <1>2, <2>1, <2>2, <2>3, <2>4
<1>13. Placed(blktable, hdr)'
  <2>1. Placed(removed, hdr)
    BY <1>0, <1>12, PlacedRemove
  <2>. HIDE DEF removed
  <2>2. Placed(removed, hdr')
    BY <1>2, <1>9, <1>10, <1>12, <2>1, PlacedSame
  <2>3. Placed(inserted, hdr')
    BY <1>2, <1>3, <1>10, <1>11, <1>12, <2>2, PlacedInsert
  <2>. HIDE DEF inserted
  <2>4. Placed(blktable', hdr')
    BY <1>1, <1>3, <1>8, <1>10, <1>11, <1>12, <2>3, PlacedInsert
  <2>. QED
    BY <2>4 DEF Placed
<1>14. Chunks' = Chunks \cup {new}
  BY <1>12 DEF OnLists, Chunks
<1>. HIDE DEF removed, inserted
<1>15. MpoolTypeOK'
  <2>1. blktable' \in [0..(nblocks - 1) -> SUBSET Addr]
    BY <1>12 DEF Lists
  <2>. QED
    BY <1>0, <1>1, <1>10, <2>1 DEF MpoolTypeOK, Addr
<1>16. /\ hdr'[node].logsize = l /\ hdr'[new].logsize = l
       /\ \A a \in Chunks \ {node} : hdr'[a] = hdr[a]
  BY <1>2, <1>9, <1>10, <1>11
<1>17. Blocks'
  <2> SUFFICES ASSUME NEW a \in Chunks \cup {new} PROVE IsBlock(a, hdr'[a])
    BY <1>14 DEF Blocks, IsBlock
  <2>1. CASE a = node
    BY <1>7, <1>10, <2>1
  <2>2. CASE a = new
    BY <1>7, <1>10, <2>2
  <2>3. CASE a \in Chunks \ {node}
    BY <1>0, <1>16, <2>3 DEF Tiles, Blocks
  <2>. QED
    BY <2>1, <2>2, <2>3
<1>18. Apart'
  <2> SUFFICES ASSUME NEW a \in Chunks \cup {new}, NEW b \in Chunks \cup {new}, a < b
               PROVE  a + Size[hdr'[a].logsize] <= b
    BY <1>14 DEF Apart
  <2>0. a \in Int /\ b \in Int /\ \A c \in Chunks : c \in Int /\ Size[hdr[c].logsize] \in Nat
    BY <1>0, <1>8, AddrFacts
  <2>1. ASSUME NEW c \in Chunks, NEW d \in Chunks, c < d PROVE c + Size[hdr[c].logsize] <= d
    BY <1>0, <2>1 DEF Tiles, Apart
  <2>2. \A c \in Chunks : node < c => node + Size[h.logsize] <= c
    BY <1>2, <2>1 DEF h
  <2>3. CASE a = node
    <3>1. CASE b = new
      BY <1>16, <2>3, <3>1 DEF new
    <3>2. CASE b \in Chunks
      BY <1>2, <1>4, <1>16, <2>0, <2>2, <2>3, <3>2
    <3>. QED
      BY <3>1, <3>2
  <2>4. CASE a = new
    <3>1. b \in Chunks /\ node < b
      BY <1>2, <1>8, <2>0, <2>4
    <3>. QED
      BY <1>2, <1>8, <1>16, <2>2, <2>4, <3>1
  <2>5. CASE a \in Chunks \ {node}
    <3>1. CASE b = new
      <4>1. ASSUME node < a PROVE FALSE
        <5>1. node + Size[h.logsize] <= a
          BY <2>2, <2>5, <4>1
        <5>. QED
          BY <1>2, <1>4, <1>8, <2>0, <3>1, <5>1
      <4>2. a < node
        BY <1>2, <2>0, <2>5, <4>1
      <4>3. a + Size[hdr[a].logsize] <= node
        BY <1>2, <2>1, <2>5, <4>2
      <4>. QED
        BY <1>2, <1>8, <1>16, <2>0, <2>5, <3>1, <4>3
    <3>2. CASE b \in Chunks
      BY <1>16, <2>1, <2>5, <3>2
    <3>. QED
      BY <3>1, <3>2
  <2>. QED
    BY <2>3, <2>4, <2>5
<1>19. Covered'
  <2> SUFFICES ASSUME NEW x \in Addr
               PROVE  \E a \in Chunks \cup {new} : x \in a..(a + Size[hdr'[a].logsize] - 1)
    BY <1>14 DEF Covered, Bytes, Addr
  <2>1. PICK a \in Chunks : x \in Bytes(a)
    BY <1>0 DEF Tiles, Covered
  <2>2. x \in Int
    BY <1>0, AddrFacts
  <2>3. CASE a = node
    <3>1. node <= x /\ x < node + Size[h.logsize]
      BY <1>2, <1>4, <2>1, <2>2, <2>3 DEF Bytes, h
    <3>2. CASE x < new
      <4>1. x \in node..(node + Size[hdr'[node].logsize] - 1)
        BY <1>2, <1>4, <1>16, <2>2, <3>1, <3>2 DEF new
      <4>. QED
        BY <1>2, <4>1
    <3>3. CASE new <= x
      <4>1. x \in new..(new + Size[hdr'[new].logsize] - 1)
        BY <1>2, <1>4, <1>8, <1>16, <2>2, <3>1, <3>3
      <4>. QED
        BY <4>1
    <3>. QED
      BY <1>8, <2>2, <3>2, <3>3
  <2>4. CASE a # node
    <3>1. x \in a..(a + Size[hdr'[a].logsize] - 1)
      BY <1>16, <2>1, <2>4 DEF Bytes
    <3>. QED
      BY <3>1
  <2>. QED
    BY <2>3, <2>4
<1>20. Counted'
  <2>1. IsFiniteSet(Chunks)
    BY <1>0, FiniteChunks
  <2>2. Cardinality(Chunks \cup {new}) = Cardinality(Chunks) + 1 /\ Cardinality(Chunks) \in Nat
    BY <1>9, <2>1, FS_AddElement, FS_CardinalityType
  <2>. QED
    BY <1>0, <1>1, <1>14, <2>2 DEF Counted, MpoolTypeOK
<1>21. \A a \in Addr : held[a] # 0 => a \in Chunks \ {node}
  BY <1>0, <1>2 DEF HeldIsUsed, Fits, h
<1>22. HeldIsUsed'
  <2> SUFFICES ASSUME NEW a \in Addr, held[a] # 0 PROVE Fits(a)'
    BY <1>1 DEF HeldIsUsed, Addr
  <2>. QED
    BY <1>0, <1>1, <1>14, <1>16, <1>21 DEF Fits, HeldIsUsed
<1>23. UsedIsHeld'
  <2> SUFFICES ASSUME NEW a \in Chunks \cup {new} PROVE hdr'[a].avail \/ held[a] # 0
    BY <1>1, <1>14 DEF UsedIsHeld
  <2>1. CASE a \in {node, new}
    BY <1>10, <1>11, <2>1
  <2>2. CASE a \in Chunks \ {node}
    BY <1>0, <1>1, <1>16, <2>2 DEF UsedIsHeld
  <2>. QED
    BY <2>1, <2>2
<1>24. AtWork'
  BY <1>1, <1>2, <1>5, <1>10, <1>11, <1>14, <1>16 DEF AtWork
<1>. QED
  BY <1>13, <1>15, <1>17, <1>18, <1>19, <1>20, <1>22, <1>23, <1>24 DEF MpoolIInv, Tiles, Uses

LEMMA FreeMergeKeeps == MpoolIInv /\ FreeMerge => MpoolIInv'
<1> SUFFICES ASSUME MpoolIInv, FreeMerge PROVE MpoolIInv'
  OBVIOUS
<1> DEFINE l == hdr[node].logsize
           left == IF hdr[node].right THEN Buddy ELSE node
           right == IF hdr[node].right THEN node ELSE Buddy
           m == Merged(hdr[left], hdr[right])
           once == LIST_REMOVE(blktable, node)
           removed == LIST_REMOVE(once, Buddy)
<1>0. MpoolTypeOK /\ Tiles /\ Counted /\ Placed(blktable, hdr) /\ HeldIsUsed /\ UsedIsHeld /\ AtWork
  BY DEF MpoolIInv, Uses
<1>1. pc = "free" /\ l # maxlogsize /\ hdr[Buddy].logsize = l /\ hdr[Buddy].avail
  BY DEF FreeMerge, CanMerge
<1>2. node \in Chunks /\ node \in Addr /\ held[node] = 0 /\ Chunks \subseteq Addr
  BY <1>0, <1>1, AddrFacts DEF AtWork, MpoolTypeOK
<1>3. l \in Levels /\ l \in Logs /\ l < maxlogsize /\ l + 1 \in Levels /\ l + 1 \in Logs
  <2>1. l \in Levels /\ l \in Logs
    BY <1>0, <1>2, AddrFacts
  <2>. HIDE DEF l
  <2>. QED
    BY <1>1, <2>1, Sizes DEF Levels, Logs
<1>4. /\ Buddy \in Chunks
      /\ left \in Chunks /\ right \in Chunks /\ right = left + Size[l] /\ left # right
      /\ Multiple(left, l + 1)
  BY <1>0, <1>1, <1>2, <1>3, BuddyFound
<1>5. {left, right} = {node, Buddy} /\ hdr[left].logsize = l /\ hdr[right].logsize = l
  BY <1>1
<1>6. /\ left \in Addr /\ left \in Int /\ right \in Addr /\ right \in Int
      /\ hdr[left] \in Header /\ hdr[right] \in Header
  BY <1>0, <1>2, <1>4, AddrFacts
<1>7. ~hdr[left].right
  <2>1. ~RightAt(left, l)
    BY <1>3, <1>4, <1>6, LeftEnd
  <2>. QED
    BY <1>0, <1>4, <1>5, <2>1 DEF Tiles, Blocks, IsBlock
<1>8. /\ nmerges' = nmerges + 1
      /\ hdr' = [hdr EXCEPT ![left] = m]
      /\ blktable' = LIST_INSERT_HEAD(removed, m.logsize, left)
      /\ node' = left
      /\ UNCHANGED <<pc, nsplits, size, held>>
  <2>1. ~(hdr[node].right /\ hdr[Buddy].right)
    BY <1>7
  <2>. QED
    BY <2>1 DEF FreeMerge
<1>. HIDE DEF l, left, right
<1>9. m.logsize = l + 1 /\ m.avail
  BY <1>5 DEF Merged
<1>10. m \in Header /\ IsBlock(left, m)
  <2>1. IsBlock(left, hdr[left]) /\ IsBlock(right, hdr[right])
    BY <1>0, <1>4 DEF Tiles, Blocks
  <2>. QED
    BY <1>3, <1>4, <1>5, <1>6, <1>7, <2>1, MergedBlock
<1>. HIDE DEF m
<1>11. /\ hdr' \in [Addr -> Header] /\ hdr'[left] = m
       /\ \A a \in Addr \ {left} : hdr'[a] = hdr[a]
  BY <1>0, <1>6, <1>8, <1>10 DEF MpoolTypeOK
<1>12. /\ blktable \in Lists /\ OnLists(blktable) = Chunks
       /\ once \in Lists /\ OnLists(once) = Chunks \ {node}
       /\ removed \in Lists /\ OnLists(removed) = Chunks \ {left, right}
       /\ blktable' \in Lists /\ OnLists(blktable') = Chunks \ {right}
  <2>1. blktable \in Lists /\ OnLists(blktable) = Chunks
    BY <1>0 DEF MpoolTypeOK, Lists, OnLists, Chunks
  <2>2. once \in Lists /\ OnLists(once) = Chunks \ {node}
    BY <2>1, ListRemove
  <2>. HIDE DEF once
  <2>3. removed \in Lists /\ OnLists(removed) = (Chunks \ {node}) \ {Buddy}
    BY <2>2, ListRemove
  <2>. HIDE DEF removed
  <2>4. blktable' \in Lists /\ OnLists(blktable') = OnLists(removed) \cup {left}
    BY <1>3, <1>6, <1>8, <1>9, <2>3, ListInsert
  <2>5. OnLists(removed) = Chunks \ {left, right}
    BY <1>5, <2>3
  <2>6. (Chunks \ {left, right}) \cup {left} = Chunks \ {right}
    BY <1>4
  <2>. QED
    BY <2>1, <2>2, <2>3, <2>4, <2>5, <2>6
<1>13. Placed(blktable, hdr)'
  <2>1. Placed(once, hdr)
    BY <1>0, <1>12, PlacedRemove
  <2>. HIDE DEF once
  <2>2. Placed(removed, hdr)
    BY <1>12, <2>1, PlacedRemove
  <2>. HIDE DEF removed
  <2>3. Placed(removed, hdr')
    BY <1>2, <1>11, <1>12, <2>2, PlacedSame
  <2>4. Placed(blktable', hdr')
    BY <1>3, <1>6, <1>8, <1>9, <1>11, <1>12, <2>3, PlacedInsert
  <2>. QED
    BY <2>4 DEF Placed
<1>14. Chunks' = Chunks \ {right}
  BY <1>12 DEF OnLists, Chunks
<1>. HIDE DEF once, removed
<1>15. MpoolTypeOK'
  <2>1. blktable' \in [0..(nblocks - 1) -> SUBSET Addr]
    BY <1>12 DEF Lists
  <2>. QED
    BY <1>0, <1>6, <1>8, <1>11, <2>1 DEF MpoolTypeOK, Addr
<1>16. hdr'[left].logsize = l + 1 /\ \A a \in Chunks \ {left} : hdr'[a] = hdr[a]
  BY <1>2, <1>9, <1>11
<1>17. Blocks'
  <2> SUFFICES ASSUME NEW a \in Chunks \ {right} PROVE IsBlock(a, hdr'[a])
    BY <1>14 DEF Blocks, IsBlock
  <2>1. CASE a = left
    BY <1>10, <1>11, <2>1
  <2>2. CASE a # left
    BY <1>0, <1>16, <2>2 DEF Tiles, Blocks
  <2>. QED
    BY <2>1, <2>2
<1>18. /\ Size[l] \in Nat /\ Size[l] > 0 /\ Size[l + 1] = 2 * Size[l]
       /\ \A c \in Chunks : c \in Int /\ Size[hdr[c].logsize] \in Nat
  BY <1>0, <1>2, <1>3, Sizes, AddrFacts
<1>19. Apart'
  <2> SUFFICES ASSUME NEW a \in Chunks \ {right}, NEW b \in Chunks \ {right}, a < b
               PROVE  a + Size[hdr'[a].logsize] <= b
    BY <1>14 DEF Apart
  <2>1. ASSUME NEW c \in Chunks, NEW d \in Chunks, c < d PROVE c + Size[hdr[c].logsize] <= d
    BY <1>0, <2>1 DEF Tiles, Apart
  <2>2. CASE a = left
    <3>1. right <= b
      BY <1>4, <1>5, <1>18, <2>1, <2>2
    <3>2. right < b
      BY <1>18, <3>1, <1>6
    <3>3. right + Size[l] <= b
      BY <1>4, <1>5, <2>1, <3>2
    <3>. QED
      BY <1>4, <1>6, <1>16, <1>18, <2>2, <3>3
  <2>3. CASE a # left
    BY <1>16, <2>1, <2>3
  <2>. QED
    BY <2>2, <2>3
<1>20. Covered'
  <2> SUFFICES ASSUME NEW x \in Addr
               PROVE  \E a \in Chunks \ {right} : x \in a..(a + Size[hdr'[a].logsize] - 1)
    BY <1>14 DEF Covered, Bytes, Addr
  <2>1. PICK a \in Chunks : x \in Bytes(a)
    BY <1>0 DEF Tiles, Covered
  <2>2. x \in Int
    BY <1>0, AddrFacts
  <2>3. CASE a \in {left, right}
    <3>1. a <= x /\ x < a + Size[l]
      BY <1>5, <1>6, <1>18, <2>1, <2>2, <2>3 DEF Bytes
    <3>2. left <= x /\ x < left + Size[l + 1]
      BY <1>4, <1>6, <1>18, <2>2, <2>3, <3>1
    <3>3. x \in left..(left + Size[hdr'[left].logsize] - 1)
      BY <1>6, <1>16, <1>18, <2>2, <3>2
    <3>. QED
      BY <1>4, <3>3
  <2>4. CASE a \notin {left, right}
    BY <1>16, <2>1, <2>4 DEF Bytes
  <2>. QED
    BY <2>3, <2>4
<1>21. Counted'
  <2>1. IsFiniteSet(Chunks)
    BY <1>0, FiniteChunks
  <2>2. Cardinality(Chunks \ {right}) = Cardinality(Chunks) - 1 /\ Cardinality(Chunks) \in Nat
    BY <1>4, <2>1, FS_RemoveElement, FS_CardinalityType
  <2>. QED
    BY <1>0, <1>8, <1>14, <2>2 DEF Counted, MpoolTypeOK
<1>22. \A a \in Addr : held[a] # 0 => a \in Chunks \ {left, right}
  BY <1>0, <1>1, <1>2, <1>5 DEF HeldIsUsed, Fits
<1>23. HeldIsUsed'
  <2> SUFFICES ASSUME NEW a \in Addr, held[a] # 0 PROVE Fits(a)'
    BY <1>8 DEF HeldIsUsed, Addr
  <2>. QED
    BY <1>0, <1>8, <1>14, <1>16, <1>22 DEF Fits, HeldIsUsed
<1>24. UsedIsHeld'
  <2> SUFFICES ASSUME NEW a \in Chunks \ {right} PROVE hdr'[a].avail \/ held[a] # 0
    BY <1>8, <1>14 DEF UsedIsHeld
  <2>1. CASE a = left
    BY <1>9, <1>11, <2>1
  <2>2. CASE a # left
    <3>1. a # node
      BY <1>5, <2>2
    <3>. QED
      BY <1>0, <1>16, <2>2, <3>1 DEF UsedIsHeld
  <2>. QED
    BY <2>1, <2>2
<1>25. AtWork'
  <2>1. left \in Chunks \ {right} /\ held[left] = 0
    BY <1>4, <1>6, <1>22
  <2>. QED
    BY <1>1, <1>8, <1>14, <2>1 DEF AtWork
<1>. QED
  BY <1>13, <1>15, <1>17, <1>19, <1>20, <1>21, <1>23, <1>24, <1>25 DEF MpoolIInv, Tiles, Uses

LEMMA StutterKeeps == MpoolIInv /\ UNCHANGED mpool => MpoolIInv'
<1> SUFFICES ASSUME MpoolIInv, UNCHANGED mpool PROVE MpoolIInv'
  OBVIOUS
<1>1. UNCHANGED <<hdr, blktable, nsplits, nmerges, pc, node, size, held>> /\ Chunks' = Chunks
  BY DEF mpool, Chunks
<1>2. MpoolTypeOK'
  BY <1>1 DEF MpoolIInv, MpoolTypeOK, Addr
<1>3. Tiles'
  BY <1>1, SameTiles DEF MpoolIInv
<1>4. Counted' /\ Placed(blktable, hdr)' /\ AtWork'
  BY <1>1 DEF MpoolIInv, Counted, Placed, AtWork
<1>5. Uses'
  BY <1>1 DEF MpoolIInv, Uses, HeldIsUsed, UsedIsHeld, Fits, Addr
<1>. QED
  BY <1>2, <1>3, <1>4, <1>5 DEF MpoolIInv

-----------------------------------------------------------------------------
(* The theorems *)

MpoolSpec == MpoolInit /\ [][MpoolNext]_mpool

LEMMA MpoolStepKeeps == MpoolIInv /\ [MpoolNext]_mpool => MpoolIInv'
BY AllocSearchKeeps, AllocDoneKeeps, AllocSplitKeeps, FreeCallKeeps, FreeDoneKeeps, FreeMergeKeeps,
   StutterKeeps DEF MpoolNext

\* The invariant holds in every state the allocator reaches.
THEOREM MpoolInvariance == MpoolSpec => []MpoolIInv
BY Initially, MpoolStepKeeps, PTL DEF MpoolSpec

\* The chunks tile the pool, whatever its size: no byte is given out twice,
\* none is lost and the counters of splits and merges account for the chunks.
THEOREM AlwaysTiled == MpoolSpec => []Tiled
<1>1. MpoolIInv => Tiled
  BY DEF MpoolIInv, Tiles, Blocks, IsBlock, Apart, Covered, Counted, Tiled
<1>. QED
  BY MpoolInvariance, <1>1, PTL

\* A chunk is a right half when it is at an odd multiple of its size.
LEMMA OddPlace ==
  ASSUME NEW a \in Nat, NEW l \in Levels, l < maxlogsize, Multiple(a, l)
  PROVE  RightAt(a, l) <=> (a \div Size[l]) % 2 = 1
<1>1. PICK k \in Int : a = k * Size[l]
  BY DEF Multiple
<1>2. Size[l] \in Nat /\ Size[l] > 0 /\ Size[l + 1] = 2 * Size[l] /\ l + 1 \in Levels
  BY Sizes
<1>3. a \div Size[l] = k
  <2>1. k * Size[l] >= 0 /\ k * Size[l] \in Int
    BY <1>1
  <2>. QED
    BY <1>1, <1>2, <2>1
<1>4. PICK j \in Int : k = 2 * j \/ k = 2 * j + 1
  <2>1. k \div 2 \in Int /\ (k = 2 * (k \div 2) \/ k = 2 * (k \div 2) + 1)
    OBVIOUS
  <2>. QED
    BY <2>1
<1>5. CASE k = 2 * j
  <2>1. a = j * Size[l + 1]
    BY <1>1, <1>2, <1>5, Products
  <2>2. Multiple(a, l + 1)
    BY <2>1 DEF Multiple
  <2>3. ~RightAt(a, l)
    BY <2>2, LeftBlock
  <2>. QED
    BY <1>3, <1>5, <2>3
<1>6. CASE k = 2 * j + 1
  <2>1. a + Size[l] = (j + 1) * Size[l + 1]
    <3>1. a + Size[l] = k * Size[l] + 1 * Size[l]
      BY <1>1, <1>2, Products
    <3>2. k * Size[l] + 1 * Size[l] = (k + 1) * Size[l] /\ k + 1 = 2 * (j + 1)
      BY <1>2, <1>6, Products
    <3>3. (2 * (j + 1)) * Size[l] = (j + 1) * (2 * Size[l]) /\ j + 1 \in Int
      BY <1>2, Products
    <3>. QED
      BY <1>2, <3>1, <3>2, <3>3
  <2>2. RightAt(a, l)
    BY <2>1 DEF Multiple, RightAt
  <2>. QED
    BY <1>3, <1>6, <2>2
<1>. QED
  BY <1>4, <1>5, <1>6

\* The left/right flag always tells the truth about a chunk's address, and the
\* address mpool_free computes for the buddy is always that of a chunk.
THEOREM AlwaysFlagsTrue == MpoolSpec => []FlagsTrue
<1>1. MpoolIInv => FlagsTrue
  <2> SUFFICES ASSUME MpoolIInv PROVE FlagsTrue
    OBVIOUS
  <2>0. MpoolTypeOK /\ Tiles /\ AtWork
    BY DEF MpoolIInv
  <2>1. ASSUME NEW a \in Chunks, hdr[a].logsize < maxlogsize
        PROVE  hdr[a].right <=> (a \div Size[hdr[a].logsize]) % 2 = 1
    <3>1. a \in Nat /\ hdr[a].logsize \in Levels
      BY <2>0, AddrFacts
    <3>2. Multiple(a, hdr[a].logsize) /\ (hdr[a].right <=> RightAt(a, hdr[a].logsize))
      BY <2>0 DEF Tiles, Blocks, IsBlock
    <3>3. RightAt(a, hdr[a].logsize) <=> (a \div Size[hdr[a].logsize]) % 2 = 1
      BY <2>1, <3>1, <3>2, OddPlace
    <3>. QED
      BY <3>2, <3>3
  <2>2. ASSUME pc = "free", hdr[node].logsize # maxlogsize PROVE Buddy \in Chunks
    <3>1. node \in Chunks
      BY <2>0, <2>2 DEF AtWork
    <3>2. hdr[node].logsize \in Levels
      BY <2>0, <3>1, AddrFacts
    <3>. QED
      BY <2>0, <2>2, <3>1, <3>2, BuddyFound
  <2>. QED
    BY <2>1, <2>2 DEF FlagsTrue
<1>. QED
  BY MpoolInvariance, <1>1, PTL

\* Between calls the caller holds exactly the used chunks, and each fits its
\* request.
THEOREM AlwaysHeldFits == MpoolSpec => []HeldFits
<1>1. MpoolIInv => HeldFits
  <2> SUFFICES ASSUME MpoolIInv, pc = "idle" PROVE HeldFits
    BY DEF HeldFits
  <2>1. HeldIsUsed /\ UsedIsHeld /\ Chunks \subseteq Addr
    BY AddrFacts DEF MpoolIInv, Uses
  <2>2. Chunks \ Avail = {a \in Addr : held[a] # 0}
    BY <2>1 DEF HeldIsUsed, UsedIsHeld, Fits, Avail
  <2>. QED
    BY <2>1, <2>2 DEF HeldFits, HeldIsUsed, Fits
<1>. QED
  BY MpoolInvariance, <1>1, PTL

-----------------------------------------------------------------------------
(* Coalescing *)

\* a and b are the two halves of a block.
Halves(a, b) == hdr[a].logsize = hdr[b].logsize /\ b = a + Size[hdr[a].logsize] /\ ~hdr[a].right

\* No two available chunks can be merged, but for the one that the call in
\* progress works on.
Settled == IF pc = "idle" THEN Avail ELSE Avail \ {node}
NoHalves == \A a, b \in Settled : ~Halves(a, b)

\* The second of two halves is a right block that is not the whole pool.
LEMMA SecondIsRight ==
  ASSUME MpoolIInv, NEW a \in Chunks, NEW b \in Chunks, Halves(a, b)
  PROVE  hdr[a].logsize < maxlogsize /\ hdr[b].right
<1> DEFINE l == hdr[a].logsize
<1>1. /\ MpoolTypeOK /\ a \in Int /\ b \in Int /\ a >= 0 /\ l \in Levels /\ l <= maxlogsize
      /\ b < Size[maxlogsize]
      /\ b = a + Size[l] /\ IsBlock(a, hdr[a]) /\ IsBlock(b, hdr[b]) /\ hdr[b].logsize = l
  BY AddrFacts DEF Halves, MpoolIInv, Tiles, Blocks
<1>2. Size[l] \in Nat /\ Size[maxlogsize] \in Nat
  BY <1>1, Sizes
<1>. HIDE DEF l
<1>3. l # maxlogsize
  BY <1>1, <1>2
<1>4. l < maxlogsize /\ l + 1 \in Levels /\ Size[l + 1] = 2 * Size[l] /\ l + 1 <= l + 1
  BY <1>1, <1>3, Sizes DEF Levels
<1>5. Multiple(a, l) /\ ~RightAt(a, l)
  BY <1>1 DEF IsBlock, Halves, l
<1>6. Multiple(a, l + 1)
  BY <1>1, <1>4, <1>5, LeftBlock
<1>7. Multiple(a + Size[l + 1], l + 1) /\ a + Size[l + 1] = b + Size[l]
  BY <1>1, <1>2, <1>4, <1>6, EndMultiple
<1>8. RightAt(b, l)
  BY <1>4, <1>7 DEF RightAt
<1>. QED
  BY <1>1, <1>4, <1>8 DEF IsBlock, l

\* A chunk that cannot be merged has no other half that is available.
LEMMA MergedAsFarAsPossible ==
  ASSUME MpoolIInv, node \in Chunks, hdr[node].logsize = maxlogsize \/ ~CanMerge, NEW c \in Avail
  PROVE  ~Halves(node, c) /\ ~Halves(c, node)
<1>1. c \in Chunks /\ c \in Addr /\ c \in Int /\ node \in Int /\ hdr[c].avail
  BY AddrFacts DEF Avail, MpoolIInv
<1>2. CASE Halves(node, c)
  <2>1. hdr[node].logsize < maxlogsize /\ Buddy = c /\ hdr[c].logsize = hdr[node].logsize
    BY <1>1, <1>2, SecondIsRight DEF Halves, Buddy, MPOOL_GET_RIGHT_BUDDY_OF
  <2>. QED
    BY <1>1, <2>1, MpoolAssumption DEF CanMerge
<1>3. CASE Halves(c, node)
  <2>1. hdr[c].logsize < maxlogsize /\ hdr[node].right /\ hdr[c].logsize = hdr[node].logsize
    BY <1>1, <1>3, SecondIsRight DEF Halves
  <2>2. Size[hdr[c].logsize] \in Int /\ node = c + Size[hdr[c].logsize]
    BY <1>1, <1>3, AddrFacts DEF Halves, MpoolIInv
  <2>3. Buddy = c
    BY <1>1, <2>1, <2>2 DEF Buddy, MPOOL_GET_LEFT_BUDDY_OF
  <2>. QED
    BY <1>1, <2>1, <2>3, MpoolAssumption DEF CanMerge
<1>. QED
  BY <1>2, <1>3

\* A step that leaves the headers of the settled chunks alone.
LEMMA HalvesSame ==
  ASSUME NoHalves, Settled' \subseteq Settled,
         \A a \in Settled' : hdr'[a].logsize = hdr[a].logsize /\ hdr'[a].right = hdr[a].right
  PROVE  NoHalves'
BY DEF NoHalves, Halves

LEMMA SearchSettles == MpoolIInv /\ NoHalves /\ (AllocSearch \/ FreeCall) => NoHalves'
<1> SUFFICES ASSUME MpoolIInv, NoHalves, AllocSearch \/ FreeCall PROVE NoHalves'
  OBVIOUS
<1>1. pc = "idle" /\ UNCHANGED <<hdr, blktable>>
  BY DEF AllocSearch, FreeCall
<1>2. Settled' \subseteq Settled
  BY <1>1 DEF Settled, Avail, Chunks
<1>. QED
  BY <1>1, <1>2, HalvesSame

LEMMA DoneSettles == MpoolIInv /\ NoHalves /\ AllocDone => NoHalves'
<1> SUFFICES ASSUME MpoolIInv, NoHalves, AllocDone PROVE NoHalves'
  OBVIOUS
<1>1. /\ pc = "alloc" /\ pc' = "idle" /\ UNCHANGED <<blktable, node>>
      /\ hdr' = [hdr EXCEPT ![node].avail = FALSE] /\ MpoolTypeOK
  BY DEF AllocDone, MpoolIInv
<1>2. node \in Chunks /\ Chunks' = Chunks /\ Chunks \subseteq Addr
  BY <1>1, AddrFacts DEF MpoolIInv, AtWork, Chunks
<1>3. ~hdr'[node].avail /\ \A a \in Addr \ {node} : hdr'[a] = hdr[a]
  BY <1>1, <1>2 DEF MpoolTypeOK, Header
<1>4. Settled' \subseteq Settled /\ node \notin Settled'
  BY <1>1, <1>2, <1>3 DEF Settled, Avail
<1>5. Settled' \subseteq Addr \ {node}
  BY <1>2, <1>4 DEF Settled, Avail
<1>. QED
  BY <1>3, <1>4, <1>5, HalvesSame

\* The halves of a split are the chunk that is split further and a right half.
LEMMA SplitSettles == MpoolIInv /\ NoHalves /\ AllocSplit => NoHalves'
<1> SUFFICES ASSUME MpoolIInv, NoHalves, AllocSplit PROVE NoHalves'
  OBVIOUS
<1> DEFINE h == hdr[node]
           l == h.logsize - 1
           new == node + Size[l]
<1>1. /\ pc = "alloc" /\ ~NoSplit(h.logsize) /\ MpoolTypeOK
      /\ hdr' = [hdr EXCEPT ![node] = LeftHalf(h), ![new] = RightHalf(h)]
      /\ UNCHANGED <<pc, node>>
      /\ blktable' = LIST_INSERT_HEAD(LIST_INSERT_HEAD(LIST_REMOVE(blktable, node), l, node), l, new)
  BY DEF AllocSplit, MpoolIInv
<1>2. /\ node \in Chunks /\ node \in Addr /\ h \in Header /\ Chunks \subseteq Addr
      /\ h.logsize \in Logs /\ h.logsize \in Levels
  BY <1>1, AddrFacts DEF MpoolIInv, AtWork
<1>3. l \in Logs /\ l \in Levels
  <2>1. h.logsize - 1 >= minlogsize
    BY <1>1, <1>2, MpoolAssumption DEF NoSplit, Logs
  <2>2. minlogsize \in Nat /\ maxlogsize \in Nat
    BY MpoolAssumption
  <2>3. h.logsize \in Nat /\ h.logsize <= maxlogsize
    BY <1>2, <2>2 DEF Logs
  <2>. HIDE DEF h
  <2>. QED
    BY <2>1, <2>2, <2>3 DEF Logs, Levels
<1>4. RightHalf(h).logsize = l /\ RightHalf(h).right
  BY DEF RightHalf
<1>5. /\ Size[l] \in Nat \ {0} /\ node \in Int /\ new \in Int /\ new # node
  <2>1. Size[l] \in Nat \ {0} /\ node \in Int
    BY <1>1, <1>2, <1>3, AddrFacts, Sizes
  <2>. HIDE DEF l
  <2>. QED
    BY <2>1
<1>. HIDE DEF h, l
<1>6. /\ \A a \in Addr \ {node, new} : hdr'[a] = hdr[a]
      /\ new \in Addr => hdr'[new] = RightHalf(h)
  BY <1>1, <1>2, <1>5 DEF MpoolTypeOK
<1>. HIDE DEF new
<1>7. Chunks' \subseteq Chunks \cup {new} /\ Chunks' \subseteq Addr
  <2> DEFINE removed == LIST_REMOVE(blktable, node)
             inserted == LIST_INSERT_HEAD(removed, l, node)
  <2>1. blktable \in Lists /\ OnLists(blktable) = Chunks
    BY <1>1 DEF MpoolTypeOK, Lists, OnLists, Chunks
  <2>2. removed \in Lists /\ OnLists(removed) = Chunks \ {node}
    BY <2>1, ListRemove
  <2>3. blktable' = LIST_INSERT_HEAD(inserted, l, new)
    BY <1>1
  <2>. HIDE DEF removed
  <2>4. inserted \in Lists /\ OnLists(inserted) = (Chunks \ {node}) \cup {node}
    BY <1>2, <1>3, <2>2, ListInsert
  <2>5. MpoolIInv'
    BY AllocSplitKeeps
  <2>6. blktable' \in [0..(nblocks - 1) -> SUBSET Addr']
    BY <2>5 DEF MpoolIInv, MpoolTypeOK
  <2>7. Chunks' \subseteq Addr
    BY <2>6 DEF Chunks, Addr
  <2>. HIDE DEF inserted
  <2>8. \A i \in 0..(nblocks - 1) : blktable'[i] \subseteq inserted[i] \cup {new}
    BY <2>3, <2>4 DEF LIST_INSERT_HEAD, Lists
  <2>. QED
    BY <1>2, <2>4, <2>7, <2>8 DEF Chunks, OnLists
<1>8. \A a \in Settled' : a \in Addr /\ a # node /\ (a # new => a \in Settled)
  BY <1>1, <1>6, <1>7 DEF Settled, Avail
<1> SUFFICES ASSUME NEW a \in Settled', NEW b \in Settled', Halves(a, b)' PROVE FALSE
  BY DEF NoHalves
<1>9. /\ hdr'[a].logsize = hdr'[b].logsize /\ b = a + Size[hdr'[a].logsize] /\ ~hdr'[a].right
  BY DEF Halves
<1>10. a # new
  BY <1>4, <1>6, <1>8, <1>9
<1>11. hdr'[a] = hdr[a] /\ a \in Settled
  BY <1>6, <1>8, <1>10
<1>12. CASE b = new
  <2>1. hdr'[b].logsize = l
    BY <1>4, <1>6, <1>8, <1>12
  <2>2. a \in Int
    BY <1>1, <1>8, AddrFacts
  <2>3. hdr'[a].logsize = l /\ a + Size[l] = node + Size[l]
    BY <1>9, <1>12, <2>1 DEF new
  <2>4. a = node
    BY <1>5, <2>2, <2>3
  <2>. QED
    BY <1>8, <2>4
<1>13. CASE b # new
  <2>1. hdr'[b] = hdr[b] /\ b \in Settled
    BY <1>6, <1>8, <1>13
  <2>. QED
    BY <1>9, <1>11, <2>1 DEF NoHalves, Halves
<1>. QED
  BY <1>12, <1>13

LEMMA FreedSettles == MpoolIInv /\ NoHalves /\ FreeDone => NoHalves'
<1> SUFFICES ASSUME MpoolIInv, NoHalves, FreeDone PROVE NoHalves'
  OBVIOUS
<1>1. /\ pc = "free" /\ pc' = "idle" /\ UNCHANGED <<blktable, node>> /\ MpoolTypeOK
      /\ hdr[node].logsize = maxlogsize \/ ~CanMerge
      /\ hdr' = [hdr EXCEPT ![node].avail = TRUE] \/ hdr' = hdr
  BY DEF FreeDone, MpoolIInv
<1>2. node \in Chunks /\ node \in Addr /\ Chunks' = Chunks /\ Chunks \subseteq Addr
  BY <1>1, AddrFacts DEF MpoolIInv, AtWork, Chunks
<1>3. \A a \in Addr : /\ hdr'[a].logsize = hdr[a].logsize /\ hdr'[a].right = hdr[a].right
                      /\ a # node => hdr'[a] = hdr[a]
  BY <1>1, <1>2 DEF MpoolTypeOK, Header
<1>4. \A a \in Settled' : a \in Addr /\ (a # node => a \in Settled /\ a \in Avail)
  BY <1>1, <1>2, <1>3 DEF Settled, Avail
<1> SUFFICES ASSUME NEW a \in Settled', NEW b \in Settled', Halves(a, b)' PROVE FALSE
  BY DEF NoHalves
<1>5. Halves(a, b)
  BY <1>3, <1>4 DEF Halves
<1>6. ~(a = node /\ b = node)
  <2>1. Size[hdr[node].logsize] \in Nat \ {0} /\ node \in Int
    BY <1>1, <1>2, AddrFacts
  <2>2. node # node + Size[hdr[node].logsize]
    BY <2>1
  <2>. QED
    BY <1>5, <2>2 DEF Halves
<1>7. CASE a = node
  BY <1>1, <1>2, <1>4, <1>5, <1>6, <1>7, MergedAsFarAsPossible
<1>8. CASE b = node
  BY <1>1, <1>2, <1>4, <1>5, <1>6, <1>8, MergedAsFarAsPossible
<1>9. CASE a # node /\ b # node
  BY <1>4, <1>5, <1>9 DEF NoHalves
<1>. QED
  BY <1>7, <1>8, <1>9

LEMMA MergeSettles == MpoolIInv /\ NoHalves /\ FreeMerge => NoHalves'
<1> SUFFICES ASSUME MpoolIInv, NoHalves, FreeMerge PROVE NoHalves'
  OBVIOUS
<1> DEFINE l == hdr[node].logsize
           left == IF hdr[node].right THEN Buddy ELSE node
           right == IF hdr[node].right THEN node ELSE Buddy
           m == Merged(hdr[left], hdr[right])
           once == LIST_REMOVE(blktable, node)
           removed == LIST_REMOVE(once, Buddy)
<1>1. pc = "free" /\ l # maxlogsize /\ MpoolTypeOK /\ Tiles /\ node \in Chunks
  BY DEF FreeMerge, MpoolIInv, AtWork
<1>2. l \in Levels /\ l < maxlogsize /\ Chunks \subseteq Addr
  BY <1>1, AddrFacts, Sizes DEF Levels
<1>3. Buddy \in Chunks /\ Multiple(left, l + 1) /\ {left, right} = {node, Buddy} /\ left \in Addr
  BY <1>1, <1>2, BuddyFound
<1>4. /\ UNCHANGED pc \/ pc' = "idle"
      /\ blktable' = removed \/ blktable' = LIST_INSERT_HEAD(removed, m.logsize, left)
      /\ hdr' = hdr \/ hdr' = [hdr EXCEPT ![left] = m]
      /\ (node' = left /\ pc' = pc) \/ blktable' = removed
  BY DEF FreeMerge
<1>. HIDE DEF left, right, m
<1>5. \A a \in Addr \ {left} : hdr'[a] = hdr[a]
  BY <1>1, <1>3, <1>4 DEF MpoolTypeOK
<1>6. OnLists(removed) = Chunks \ {node, Buddy} /\ removed \in Lists
  <2>1. blktable \in Lists /\ OnLists(blktable) = Chunks
    BY <1>1 DEF MpoolTypeOK, Lists, OnLists, Chunks
  <2>2. once \in Lists /\ OnLists(once) = Chunks \ {node}
    BY <2>1, ListRemove
  <2>. HIDE DEF once
  <2>. QED
    BY <2>2, ListRemove
<1>. HIDE DEF removed
<1>7. \A i \in 0..(nblocks - 1) : blktable'[i] \subseteq removed[i] \cup {left}
  BY <1>4, <1>6 DEF LIST_INSERT_HEAD, Lists
<1>8. Chunks' \subseteq (Chunks \ {node, Buddy}) \cup {left}
  BY <1>6, <1>7 DEF Chunks, OnLists
<1>9. blktable' = removed => Chunks' = Chunks \ {node, Buddy}
  BY <1>6 DEF Chunks, OnLists
<1>10. left \notin Settled'
  BY <1>1, <1>3, <1>4, <1>9 DEF Settled, Avail
<1>11. Settled' \subseteq Chunks \ {node, Buddy}
  BY <1>8, <1>10 DEF Settled, Avail
<1>12. \A a \in Settled' : hdr'[a] = hdr[a] /\ a \in Settled
  BY <1>1, <1>2, <1>3, <1>5, <1>11 DEF Settled, Avail
<1>. QED
  BY <1>12, HalvesSame

LEMMA NoHalvesAlways == MpoolSpec => []NoHalves
<1>1. MpoolInit => NoHalves
  <2> SUFFICES ASSUME MpoolInit PROVE NoHalves
    OBVIOUS
  <2>1. MpoolIInv
    BY Initially
  <2>2. Chunks \subseteq {0}
    BY DEF MpoolInit, Chunks
  <2>3. \A a \in Chunks : a \in Int /\ Size[hdr[a].logsize] \in Nat \ {0}
    BY <2>1, AddrFacts DEF MpoolIInv
  <2>4. ASSUME NEW a \in Chunks PROVE a + Size[hdr[a].logsize] # a
    <3>1. a \in Int /\ Size[hdr[a].logsize] \in Nat /\ Size[hdr[a].logsize] > 0
      BY <2>3
    <3>. QED
      BY <3>1
  <2>. QED
    BY <2>2, <2>4 DEF NoHalves, Halves, Settled, Avail
<1>2. MpoolIInv /\ NoHalves /\ [MpoolNext]_mpool => NoHalves'
  <2> SUFFICES ASSUME MpoolIInv, NoHalves, UNCHANGED mpool PROVE NoHalves'
    BY SearchSettles, DoneSettles, SplitSettles, FreedSettles, MergeSettles DEF MpoolNext
  <2>1. UNCHANGED <<hdr, blktable, pc, node>>
    BY DEF mpool
  <2>2. Settled' = Settled
    BY <2>1 DEF Settled, Avail, Chunks
  <2>. QED
    BY <2>1, <2>2, HalvesSame
<1>. QED
  BY MpoolInvariance, <1>1, <1>2, PTL DEF MpoolSpec

\* When every chunk is available and no two can be merged there is one block:
\* the smallest chunk would have another half.
LEMMA OneBlock ==
  ASSUME MpoolIInv, Chunks \subseteq Avail, \A a, b \in Chunks : ~Halves(a, b)
  PROVE  Chunks = {0} /\ hdr[0].logsize = maxlogsize
<1> DEFINE Logsizes == {hdr[a].logsize : a \in Chunks}
<1>0. MpoolTypeOK /\ Tiles
  BY DEF MpoolIInv
<1>1. 0 \in Addr /\ Chunks # {}
  <2>1. 0 \in Addr
    BY Sizes DEF Addr
  <2>. QED
    BY <1>0, <2>1 DEF Tiles, Covered
<1>2. \A a \in Chunks : hdr[a].logsize \in Levels
  BY <1>0, AddrFacts
<1>3. PICK n \in Chunks : \A a \in Chunks : hdr[n].logsize <= hdr[a].logsize
  <2>1. Logsizes \in SUBSET Nat /\ Logsizes # {}
    BY <1>1, <1>2 DEF Levels
  <2>2. PICK k \in Logsizes : \A j \in Logsizes : k <= j
    <3>. HIDE DEF Logsizes
    <3>. QED
      BY <2>1, Least
  <2>. QED
    BY <2>2
<1> DEFINE l == hdr[n].logsize
<1>4. /\ n \in Addr /\ n \in Int /\ n >= 0 /\ n < Size[maxlogsize] /\ l \in Levels /\ l <= maxlogsize
      /\ IsBlock(n, hdr[n]) /\ Size[l] \in Nat /\ Size[l] > 0 /\ Size[maxlogsize] \in Nat
      /\ l \in Int /\ maxlogsize \in Int
  BY <1>0, AddrFacts, Sizes DEF Tiles, Blocks, Levels
<1>5. ASSUME l < maxlogsize PROVE FALSE
  <2>1. /\ l + 1 \in Levels /\ Size[l + 1] = 2 * Size[l] /\ l + 1 <= maxlogsize /\ l <= l + 1
        /\ maxlogsize \in Levels
    BY <1>4, <1>5, Sizes
  <2>2. Multiple(n, l) /\ (hdr[n].right <=> RightAt(n, l))
    BY <1>4 DEF IsBlock
  <2>. HIDE DEF l
  <2>3. CASE ~hdr[n].right
    <3> DEFINE s == n + Size[l]
    <3>1. Multiple(n, l + 1)
      BY <1>4, <1>5, <2>2, <2>3, LeftBlock
    <3>2. Multiple(Size[maxlogsize], l + 1)
      BY <2>1, SizeMultiple
    <3>3. n + Size[l + 1] <= Size[maxlogsize]
      BY <1>4, <2>1, <3>1, <3>2, Gap
    <3>4. s \in Addr /\ s \in Int /\ Multiple(s, l) /\ ~Multiple(s, l + 1)
      BY <1>4, <1>5, <2>1, <2>2, <3>1, <3>3, EndMultiple, Alternate DEF Addr
    <3>5. s \in Chunks
      BY <1>0, <1>4, <1>5, <3>1, <3>4, Sibling DEF l
    <3>6. hdr[s].logsize \in Levels /\ Multiple(s, hdr[s].logsize) /\ l <= hdr[s].logsize
      BY <1>0, <1>2, <1>3, <3>5 DEF Tiles, Blocks, IsBlock, l
    <3>. HIDE DEF s
    <3>7. hdr[s].logsize = l
      <4>1. ~(l + 1 <= hdr[s].logsize)
        BY <2>1, <3>4, <3>6, MultipleDown
      <4>. QED
        BY <1>4, <3>6, <4>1 DEF Levels
    <3>. QED
      BY <2>3, <3>5, <3>7 DEF Halves, s, l
  <2>4. CASE hdr[n].right
    <3> DEFINE s == n - Size[l]
    <3>1. Multiple(n + Size[l], l + 1) /\ ~Multiple(n, l + 1)
      BY <1>4, <1>5, <2>2, <2>4, Alternate DEF RightAt
    <3>2. Multiple(Size[l + 1], l + 1) /\ Multiple(0, l + 1) /\ Multiple(0, l) /\ Multiple(Size[l], l)
      BY <1>4, <2>1, SizeMultiple
    <3>3. (n + Size[l]) - Size[l + 1] = s /\ n + Size[l] \in Int /\ s \in Int /\ s + Size[l] = n
      BY <1>4, <2>1
    <3>4. Multiple(s, l + 1) /\ Multiple(s, l)
      <4>1. Multiple((n + Size[l]) - Size[l + 1], l + 1)
        BY <1>4, <2>1, <3>1, <3>2, <3>3, Sums
      <4>2. Multiple(s, l + 1)
        BY <3>3, <4>1
      <4>. QED
        BY <1>4, <2>1, <3>3, <4>2, MultipleDown
    <3>5. n > 0
      BY <1>4, <3>1, <3>2
    <3>6. s >= 0
      <4>1. 0 + Size[l] <= n
        BY <1>4, <2>2, <3>2, <3>5, Gap
      <4>. QED
        BY <1>4, <4>1
    <3>7. s \in Addr
      BY <1>4, <3>3, <3>6 DEF Addr
    <3>8. s \in Chunks
      BY <1>0, <1>4, <1>5, <3>3, <3>4, <3>7, Sibling DEF l
    <3>9. hdr[s].logsize \in Levels /\ l <= hdr[s].logsize /\ IsBlock(s, hdr[s])
          /\ Size[hdr[s].logsize] \in Nat
      BY <1>0, <1>2, <1>3, <3>8, Sizes DEF Tiles, Blocks, l
    <3>. HIDE DEF s
    <3>10. hdr[s].logsize = l
      <4>1. ASSUME l + 1 <= hdr[s].logsize PROVE FALSE
        <5>1. Multiple(s + Size[hdr[s].logsize], l + 1) /\ s < s + Size[hdr[s].logsize]
          <6>1. Multiple(s, hdr[s].logsize)
            BY <3>9 DEF IsBlock
          <6>2. Size[hdr[s].logsize] \in Nat \ {0}
            BY <3>9, Sizes
          <6>3. Multiple(s + Size[hdr[s].logsize], hdr[s].logsize) /\ s + Size[hdr[s].logsize] \in Int
            BY <3>3, <3>9, <6>1, <6>2, EndMultiple
          <6>. QED
            BY <2>1, <3>3, <4>1, <6>2, <6>3, <3>9, MultipleDown
        <5>2. s + Size[l + 1] <= s + Size[hdr[s].logsize]
          BY <2>1, <3>3, <3>4, <3>9, <5>1, Gap
        <5>3. s < n => s + Size[hdr[s].logsize] <= n
          BY <1>0, <3>8 DEF Tiles, Apart
        <5>. QED
          BY <1>4, <2>1, <3>3, <3>9, <5>2, <5>3
      <4>. QED
        BY <1>4, <3>9, <4>1 DEF Levels
    <3>11. ~hdr[s].right
      <4>1. ~RightAt(s, l)
        BY <1>4, <1>5, <3>3, <3>4, LeftBlock
      <4>. QED
        BY <3>9, <3>10, <4>1 DEF IsBlock
    <3>. QED
      BY <3>3, <3>8, <3>10, <3>11 DEF Halves, l
  <2>. QED
    BY <2>3, <2>4
<1>6. l = maxlogsize
  BY <1>4, <1>5
<1>7. \A a \in Chunks : hdr[a].logsize = maxlogsize
  <2>1. maxlogsize \in Int /\ hdr[n].logsize = maxlogsize
    BY <1>4, <1>6
  <2>. HIDE DEF l, Logsizes
  <2>2. \A a \in Chunks : hdr[a].logsize \in Int /\ hdr[a].logsize <= maxlogsize
    BY <1>2, <2>1 DEF Levels
  <2>. QED
    BY <1>3, <2>1, <2>2
<1>8. \A a \in Chunks : a = 0
  <2> TAKE a \in Chunks
  <2>1. a \in Int /\ a >= 0 /\ a + Size[maxlogsize] <= Size[maxlogsize]
    BY <1>0, <1>7, AddrFacts DEF Tiles, Blocks, IsBlock
  <2>. QED
    BY <1>4, <2>1
<1>. QED
  BY <1>1, <1>7, <1>8

\* Between calls there are no two available buddies of one block, so nothing
\* that would fit is refused for want of merging, and the pool is one block
\* again when the caller has given everything back.
THEOREM AlwaysCoalesced == MpoolSpec => []Coalesced
<1>1. MpoolIInv /\ NoHalves => Coalesced
  <2> SUFFICES ASSUME MpoolIInv, NoHalves, pc = "idle" PROVE
        /\ \A a, b \in Avail : hdr[a].logsize = hdr[b].logsize /\ b = a + Size[hdr[a].logsize]
                                 => hdr[a].right
        /\ (\A a \in Addr : held[a] = 0) => Chunks = {0} /\ hdr[0].logsize = maxlogsize
    BY DEF Coalesced
  <2>1. \A a, b \in Avail : ~Halves(a, b)
    BY DEF NoHalves, Settled
  <2>2. ASSUME \A a \in Addr : held[a] = 0 PROVE Chunks \subseteq Avail
    <3>1. Chunks \subseteq Addr
      BY AddrFacts DEF MpoolIInv
    <3>. QED
      BY <2>2, <3>1 DEF MpoolIInv, Uses, UsedIsHeld, Avail
  <2>3. (\A a \in Addr : held[a] = 0) => Chunks = {0} /\ hdr[0].logsize = maxlogsize
    BY <2>1, <2>2, OneBlock
  <2>. QED
    BY <2>1, <2>3 DEF Halves
<1>. QED
  BY MpoolInvariance, NoHalvesAlways, <1>1, PTL
=============================================================================
