----------------------------- MODULE EpollProofs -----------------------------
(***************************************************************************)
(* The epoll servers, for every number of connections, events and workers. *)
(*                                                                         *)
(* The four single-threaded programs lose no event and close nothing that  *)
(* was not read: the invariant of EpollInv.  Its steps are few: a step     *)
(* changes the kernel (it closes, registers, accepts, reads, waits, or a   *)
(* client acts) and it leaves the program at an event, goes on to the next *)
(* one, or to the next epoll_wait.  The lemmas follow these two sides      *)
(* apart, and the programs combine them.                                   *)
(*                                                                         *)
(* In epoll_poll.c the flag of a slot and its mutex, which are set in two  *)
(* steps by one thread and reset in two steps by another, always tell the  *)
(* same story.                                                             *)
(***************************************************************************)
EXTENDS EpollInv, FiniteSetTheorems, SequenceTheorems, TLAPS

-----------------------------------------------------------------------------
(* Numbers *)

\* Every set of numbers that is not empty has a least member.
LEMMA Least ==
  ASSUME NEW T \in SUBSET Nat, T # {}
  PROVE  \E n \in T : \A m \in T : n <= m
<1> DEFINE Upto(n) == 0..n
           Sets == {Upto(n) : n \in T}
<1>1. ASSUME NEW n \in T PROVE Upto(n) \in FiniteSubsetsOf(Nat)
  BY FS_Interval DEF FiniteSubsetsOf
<1>2. IsWellFoundedOn(StrictSubsetOrdering(Nat), FiniteSubsetsOf(Nat))
  BY FS_StrictSubsetOrderingWellFounded
<1>3. Sets \subseteq FiniteSubsetsOf(Nat) /\ Sets # {}
  BY <1>1
<1>4. PICK X \in Sets : \A Y \in Sets : <<Y, X>> \notin StrictSubsetOrdering(Nat)
  <2>. HIDE DEF Sets
  <2>. QED
    BY <1>2, <1>3, WFMin
<1>5. PICK n \in T : X = Upto(n)
  BY <1>4
<1>6. ASSUME NEW m \in T, ~(n <= m) PROVE FALSE
  <2>1. Upto(m) \subseteq Upto(n) /\ Upto(m) # Upto(n)
    BY <1>6
  <2>2. Upto(m) \in SUBSET Nat /\ Upto(n) \in SUBSET Nat
    OBVIOUS
  <2>3. <<Upto(m), Upto(n)>> \in StrictSubsetOrdering(Nat)
    <3>. HIDE DEF Upto
    <3>. QED
      BY <2>1, <2>2 DEF StrictSubsetOrdering
  <2>. QED
    BY <1>4, <1>5, <2>3
<1>. QED
  BY <1>6


-----------------------------------------------------------------------------
(* Lists *)

LEMMA AppendFacts ==
  ASSUME NEW T, NEW s \in Seq(T), NEW f \in T
  PROVE  /\ Append(s, f) \in Seq(T)
         /\ Elements(Append(s, f)) = Elements(s) \cup {f}
         /\ Distinct(s) /\ f \notin Elements(s) => Distinct(Append(s, f))
<1> DEFINE w == Append(s, f)
<1>1. /\ w \in Seq(T) /\ Len(w) = Len(s) + 1 /\ DOMAIN w = 1..(Len(s) + 1)
      /\ DOMAIN s = 1..Len(s) /\ Len(s) \in Nat
      /\ w[Len(s) + 1] = f /\ \A i \in DOMAIN s : w[i] = s[i]
  OBVIOUS
<1>. HIDE DEF w
<1>2. Elements(w) = Elements(s) \cup {f}
  BY <1>1 DEF Elements
<1>3. Distinct(s) /\ f \notin Elements(s) => Distinct(w)
  BY <1>1 DEF Elements, Distinct
<1>. QED
  BY <1>1, <1>2, <1>3 DEF w

LEMMA WokenFacts ==
  ASSUME NEW T, NEW s \in Seq(T), NEW f \in T
  PROVE  /\ Woken(f, s) \in Seq(T)
         /\ Elements(Woken(f, s)) = Elements(s) \cup {f}
         /\ Distinct(s) => Distinct(Woken(f, s))
<1>1. CASE f \in Elements(s)
  BY <1>1 DEF Woken
<1>2. CASE f \notin Elements(s)
  BY <1>2, AppendFacts DEF Woken
<1>. QED
  BY <1>1, <1>2

\* Filter is the value of a function that goes through the list.
FilterBody(s, S, F, i) ==
    IF i = 0 THEN <<>> ELSE IF s[i] \in S THEN Append(F[i - 1], s[i]) ELSE F[i - 1]
IsFilter(s, S, n, F) == F = [i \in 0..n |-> FilterBody(s, S, F, i)]

LEMMA FilterExists ==
  ASSUME NEW s, NEW S, NEW n \in Nat
  PROVE  \E F : IsFilter(s, S, n, F)
<1> DEFINE Bad == {m \in Nat : ~\E F : IsFilter(s, S, m, F)}
<1>1. ASSUME Bad # {} PROVE FALSE
  <2>1. PICK m \in Bad : \A k \in Bad : m <= k
    BY <1>1, Least
  <2>2. CASE m = 0
    <3> DEFINE F == [i \in 0..0 |-> <<>>]
    <3>1. F = [i \in 0..0 |-> FilterBody(s, S, F, i)]
      BY DEF FilterBody
    <3>. QED
      BY <2>1, <2>2, <3>1 DEF IsFilter
  <2>3. CASE m # 0
    <3>1. m - 1 \in Nat /\ m - 1 \notin Bad
      BY <2>1, <2>3
    <3>2. PICK F : IsFilter(s, S, m - 1, F)
      BY <3>1
    <3> DEFINE Last == IF s[m] \in S THEN Append(F[m - 1], s[m]) ELSE F[m - 1]
               G == [i \in 0..m |-> IF i = m THEN Last ELSE F[i]]
    <3>3. \A i \in 0..m : G[i] = IF i = m THEN Last ELSE F[i]
      OBVIOUS
    <3>4. \A i \in 0..(m - 1) : F[i] = FilterBody(s, S, F, i)
      BY <3>2 DEF IsFilter
    <3>. HIDE DEF G, Last
    <3>5. ASSUME NEW i \in 0..m PROVE G[i] = FilterBody(s, S, G, i)
      <4>1. CASE i = m
        BY <2>1, <2>3, <3>3, <4>1 DEF FilterBody, Last
      <4>2. CASE i # m
        <5>1. i \in 0..(m - 1) /\ G[i] = F[i] /\ (i # 0 => G[i - 1] = F[i - 1])
          BY <2>1, <3>3, <4>2
        <5>. QED
          BY <3>4, <5>1 DEF FilterBody
      <4>. QED
        BY <4>1, <4>2
    <3>6. G = [i \in 0..m |-> FilterBody(s, S, G, i)]
      BY <3>5 DEF G
    <3>. QED
      BY <2>1, <3>6 DEF IsFilter
  <2>. QED
    BY <2>2, <2>3
<1>. QED
  BY <1>1

LEMMA FilterIs ==
  ASSUME NEW T, NEW s \in Seq(T), NEW S
  PROVE  \E F : IsFilter(s, S, Len(s), F) /\ Filter(s, S) = F[Len(s)]
<1> DEFINE F == CHOOSE F : F = [i \in 0..Len(s) |-> FilterBody(s, S, F, i)]
<1>1. \E G : G = [i \in 0..Len(s) |-> FilterBody(s, S, G, i)]
  <2>1. Len(s) \in Nat
    OBVIOUS
  <2>2. \E G : IsFilter(s, S, Len(s), G)
    BY <2>1, FilterExists
  <2>. QED
    BY <2>2 DEF IsFilter
<1>2. F = [i \in 0..Len(s) |-> FilterBody(s, S, F, i)]
  BY <1>1
<1>3. Filter(s, S) = F[Len(s)]
  BY DEF Filter, FilterBody
<1>. QED
  BY <1>2, <1>3 DEF IsFilter

\* It keeps the members of S, and lists without repetitions.
LEMMA FilterFacts ==
  ASSUME NEW T, NEW s \in Seq(T), NEW S
  PROVE  /\ Filter(s, S) \in Seq(T)
         /\ Elements(Filter(s, S)) = Elements(s) \cap S
         /\ Distinct(s) => Distinct(Filter(s, S))
<1> DEFINE n == Len(s)
<1>1. PICK F : IsFilter(s, S, n, F) /\ Filter(s, S) = F[n]
  BY FilterIs
<1> DEFINE Upto(i) == {s[k] : k \in 1..i}
           Good(i) == /\ F[i] \in Seq(T)
                      /\ Elements(F[i]) = Upto(i) \cap S
                      /\ Distinct(s) => Distinct(F[i])
           Bad == {i \in 0..n : ~Good(i)}
<1>2. \A i \in 0..n : F[i] = FilterBody(s, S, F, i)
  BY <1>1 DEF IsFilter
<1>3. n \in Nat /\ DOMAIN s = 1..n /\ \A i \in 1..n : s[i] \in T
  OBVIOUS
<1>. HIDE DEF n
<1>4. ASSUME Bad # {} PROVE FALSE
  <2>1. PICK m \in Bad : \A k \in Bad : m <= k
    <3>1. Bad \in SUBSET Nat
      BY <1>3
    <3>. HIDE DEF Bad
    <3>. QED
      BY <1>4, <3>1, Least
  <2>2. CASE m = 0
    <3>1. F[m] = <<>>
      BY <1>2, <2>1, <2>2 DEF FilterBody
    <3>2. F[m] \in Seq(T) /\ Elements(F[m]) = {} /\ Upto(m) = {} /\ Distinct(F[m])
      BY <2>2, <3>1 DEF Elements, Distinct
    <3>. QED
      BY <2>1, <3>2
  <2>3. CASE m # 0
    <3>1. m - 1 \in 0..n /\ m \in 1..n /\ m - 1 < m
      BY <1>3, <2>1, <2>3
    <3>2. Good(m - 1)
      <4>. HIDE DEF Good
      <4>. QED
        BY <1>3, <2>1, <3>1
    <3>3. Upto(m) = Upto(m - 1) \cup {s[m]} /\ s[m] \in T
      BY <1>3, <3>1
    <3>4. CASE s[m] \in S
      <4>1. F[m] = Append(F[m - 1], s[m])
        BY <1>2, <2>3, <3>1, <3>4 DEF FilterBody
      <4>2. Distinct(s) => s[m] \notin Upto(m - 1)
        BY <1>3, <3>1 DEF Distinct
      <4>3. Distinct(s) => s[m] \notin Elements(F[m - 1])
        BY <3>2, <4>2
      <4>5. Good(m)
        <5>. HIDE DEF Upto
        <5>1. F[m] \in Seq(T) /\ Elements(F[m]) = Elements(F[m - 1]) \cup {s[m]}
          BY <3>2, <3>3, <4>1, AppendFacts
        <5>2. Distinct(s) => Distinct(F[m])
          BY <3>2, <3>3, <4>1, <4>3, AppendFacts
        <5>. QED
          BY <3>2, <3>3, <3>4, <5>1, <5>2
      <4>. QED
        BY <2>1, <4>5
    <3>5. CASE s[m] \notin S
      <4>1. F[m] = F[m - 1]
        BY <1>2, <2>3, <3>1, <3>5 DEF FilterBody
      <4>2. Upto(m) \cap S = Upto(m - 1) \cap S
        BY <3>3, <3>5
      <4>3. Good(m)
        <5>. HIDE DEF Upto
        <5>. QED
          BY <3>2, <4>1, <4>2
      <4>. QED
        BY <2>1, <4>3
    <3>. QED
      BY <3>4, <3>5
  <2>. QED
    BY <2>2, <2>3
<1>5. Good(n)
  <2>. HIDE DEF Good
  <2>. QED
    BY <1>3, <1>4
<1>6. Upto(n) = Elements(s)
  BY <1>3 DEF Elements
<1>. QED
  BY <1>1, <1>5, <1>6

LEMMA LessOrEqual == ASSUME NEW n \in Nat, NEW m \in Nat, n <= m PROVE n + 1 <= m \/ n = m
OBVIOUS

\* A list and its two parts.
LEMMA SplitFacts ==
  ASSUME NEW T, NEW s \in Seq(T), NEW n \in 0..Len(s)
  PROVE  LET a == SubSeq(s, 1, n)
             b == SubSeq(s, n + 1, Len(s))
         IN  /\ a \in Seq(T) /\ Len(a) = n /\ b \in Seq(T)
             /\ Elements(s) \subseteq Elements(a) \cup Elements(b)
             /\ Elements(a) \subseteq Elements(s) /\ Elements(b) \subseteq Elements(s)
             /\ Distinct(s) => /\ Distinct(a) /\ Distinct(b)
                               /\ Elements(a) \cap Elements(b) = {}
<1> DEFINE a == SubSeq(s, 1, n)
           b == SubSeq(s, n + 1, Len(s))
<1>1. /\ Len(s) \in Nat /\ DOMAIN s = 1..Len(s) /\ n \in Nat /\ n <= Len(s)
      /\ \A i \in 1..Len(s) : s[i] \in T
  OBVIOUS
<1>2. /\ a \in Seq(T) /\ Len(a) = n /\ DOMAIN a = 1..n
      /\ \A i \in 1..n : a[i] = s[i]
  BY <1>1
<1>3. /\ b \in Seq(T) /\ Len(b) = Len(s) - n /\ DOMAIN b = 1..(Len(s) - n)
      /\ \A i \in 1..(Len(s) - n) : b[i] = s[n + i]
  <2>1. /\ n + 1 \in 1..(Len(s) + 1) /\ Len(s) - n \in Nat
        /\ Len(s) - (n + 1) + 1 = Len(s) - n
    BY <1>1
  <2>2. b \in Seq(T) /\ Len(b) = Len(s) - n
    <3>1. n + 1 \in Int /\ Len(s) \in Int /\ \A i \in (n + 1)..Len(s) : s[i] \in T
      BY <1>1
    <3>2. b \in Seq(T) /\ Len(b) = IF n + 1 <= Len(s) THEN Len(s) - (n + 1) + 1 ELSE 0
      BY <3>1, SubSeqProperties DEF b
    <3>. HIDE DEF b
    <3>3. CASE n + 1 <= Len(s)
      BY <1>1, <2>1, <3>2, <3>3
    <3>4. CASE n = Len(s)
      <4>1. ~(n + 1 <= Len(s)) /\ Len(s) - n = 0
        BY <1>1, <3>4
      <4>2. Len(b) = 0
        BY <3>2, <4>1
      <4>. QED
        BY <3>2, <4>1, <4>2
    <3>5. n + 1 <= Len(s) \/ n = Len(s)
      BY <1>1, LessOrEqual
    <3>. QED
      BY <3>3, <3>4, <3>5
  <2>3. ASSUME NEW i \in 1..(Len(s) - n) PROVE b[i] = s[n + i]
    <3>1. n + 1 + i - 1 = n + i /\ i \in 1..(Len(s) - (n + 1) + 1)
      BY <1>1
    <3>2. b[i] = s[n + 1 + i - 1]
      BY <1>1, <2>1, <3>1
    <3>. QED
      BY <3>1, <3>2
  <2>. QED
    BY <2>2, <2>3
<1>. HIDE DEF a, b
<1>4. Elements(s) \subseteq Elements(a) \cup Elements(b)
  <2> SUFFICES ASSUME NEW i \in 1..Len(s) PROVE s[i] \in Elements(a) \cup Elements(b)
    BY <1>1 DEF Elements
  <2>1. CASE i <= n
    BY <1>1, <1>2, <2>1 DEF Elements
  <2>2. CASE i > n
    <3>1. i - n \in 1..(Len(s) - n) /\ s[i] = b[i - n]
      BY <1>1, <1>3, <2>2
    <3>. QED
      BY <1>3, <3>1 DEF Elements
  <2>. QED
    BY <1>1, <2>1, <2>2
<1>5. Elements(a) \subseteq Elements(s) /\ Elements(b) \subseteq Elements(s)
  <2>1. \A i \in 1..(Len(s) - n) : n + i \in 1..Len(s)
    BY <1>1
  <2>2. \A i \in 1..n : i \in 1..Len(s)
    BY <1>1
  <2>3. Elements(a) \subseteq Elements(s)
    BY <1>1, <1>2, <2>2 DEF Elements
  <2>. QED
    BY <1>1, <1>3, <2>1, <2>3 DEF Elements
<1>6. ASSUME Distinct(s)
      PROVE  Distinct(a) /\ Distinct(b) /\ Elements(a) \cap Elements(b) = {}
  <2>1. Distinct(a)
    BY <1>1, <1>2, <1>6 DEF Distinct
  <2>3. Distinct(b)
    <3> SUFFICES ASSUME NEW i \in 1..(Len(s) - n), NEW k \in 1..(Len(s) - n), b[i] = b[k]
                 PROVE  i = k
      BY <1>3 DEF Distinct
    <3>1. n + i \in 1..Len(s) /\ n + k \in 1..Len(s) /\ s[n + i] = s[n + k]
      BY <1>1, <1>3
    <3>2. n + i = n + k
      BY <1>1, <1>6, <3>1 DEF Distinct
    <3>. QED
      BY <1>1, <3>2
  <2>2. ASSUME NEW i \in 1..n, NEW k \in 1..(Len(s) - n), a[i] = b[k] PROVE FALSE
    <3>1. s[i] = s[n + k] /\ i \in 1..Len(s) /\ n + k \in 1..Len(s) /\ i # n + k
      BY <1>1, <1>2, <1>3, <2>2
    <3>. QED
      BY <1>1, <1>6, <3>1 DEF Distinct
  <2>. QED
    BY <1>2, <1>3, <2>1, <2>2, <2>3 DEF Elements
<1>. QED
  BY <1>2, <1>3, <1>4, <1>5, <1>6 DEF a, b

LEMMA ConcatFacts ==
  ASSUME NEW T, NEW a \in Seq(T), NEW b \in Seq(T)
  PROVE  /\ a \o b \in Seq(T)
         /\ Elements(a \o b) = Elements(a) \cup Elements(b)
         /\ Distinct(a) /\ Distinct(b) /\ Elements(a) \cap Elements(b) = {} => Distinct(a \o b)
<1> DEFINE w == a \o b
<1>1. /\ w \in Seq(T) /\ Len(a) \in Nat /\ Len(b) \in Nat
      /\ DOMAIN a = 1..Len(a) /\ DOMAIN b = 1..Len(b) /\ DOMAIN w = 1..(Len(a) + Len(b))
      /\ \A i \in 1..Len(a) : w[i] = a[i]
      /\ \A i \in 1..(Len(a) + Len(b)) : i > Len(a) => w[i] = b[i - Len(a)]
  OBVIOUS
<1>. HIDE DEF w
<1>2. \A i \in 1..Len(b) : Len(a) + i \in DOMAIN w /\ w[Len(a) + i] = b[i]
  <2> SUFFICES ASSUME NEW i \in 1..Len(b) PROVE Len(a) + i \in DOMAIN w /\ w[Len(a) + i] = b[i]
    OBVIOUS
  <2>1. Len(a) + i \in 1..(Len(a) + Len(b)) /\ Len(a) + i > Len(a) /\ Len(a) + i - Len(a) = i
    BY <1>1
  <2>. QED
    BY <1>1, <2>1
<1>3. \A i \in DOMAIN w : i \in 1..Len(a) \/ i - Len(a) \in 1..Len(b)
  BY <1>1
<1>4. Elements(w) = Elements(a) \cup Elements(b)
  <2>1. ASSUME NEW i \in DOMAIN w PROVE w[i] \in Elements(a) \cup Elements(b)
    <3>1. CASE i \in 1..Len(a)
      BY <1>1, <3>1 DEF Elements
    <3>2. CASE i \notin 1..Len(a)
      <4>1. i > Len(a) /\ i - Len(a) \in DOMAIN b /\ i \in 1..(Len(a) + Len(b))
        BY <1>1, <1>3, <3>2
      <4>. QED
        BY <1>1, <4>1 DEF Elements
    <3>. QED
      BY <3>1, <3>2
  <2>2. \A i \in DOMAIN a : i \in DOMAIN w /\ w[i] = a[i]
    BY <1>1
  <2>3. \A i \in DOMAIN b : Len(a) + i \in DOMAIN w /\ w[Len(a) + i] = b[i]
    BY <1>1, <1>2
  <2>. QED
    BY <2>1, <2>2, <2>3 DEF Elements
<1>6. \A i \in DOMAIN w : i > Len(a) => i - Len(a) \in DOMAIN b /\ w[i] = b[i - Len(a)]
  BY <1>1
<1>5. ASSUME Distinct(a), Distinct(b), Elements(a) \cap Elements(b) = {},
             NEW i \in DOMAIN w, NEW k \in DOMAIN w, w[i] = w[k]
      PROVE  i = k
  <2>1. CASE i \in 1..Len(a) /\ k \in 1..Len(a)
    BY <1>1, <1>5, <2>1 DEF Distinct
  <2>2. CASE i > Len(a) /\ k > Len(a)
    <3>1. i - Len(a) \in DOMAIN b /\ k - Len(a) \in DOMAIN b /\ b[i - Len(a)] = b[k - Len(a)]
      BY <1>1, <1>5, <2>2
    <3>2. i - Len(a) = k - Len(a)
      BY <1>5, <3>1 DEF Distinct
    <3>. QED
      BY <1>1, <3>2
  <2>3. CASE i \in 1..Len(a) /\ k > Len(a)
    <3>1. w[i] \in Elements(a)
      BY <1>1, <2>3 DEF Elements
    <3>2. w[k] \in Elements(b)
      BY <1>5, <1>6, <2>3 DEF Elements
    <3>. QED
      BY <1>5, <3>1, <3>2
  <2>4. CASE k \in 1..Len(a) /\ i > Len(a)
    <3>1. w[k] \in Elements(a)
      BY <1>1, <2>4 DEF Elements
    <3>2. w[i] \in Elements(b)
      BY <1>5, <1>6, <2>4 DEF Elements
    <3>. QED
      BY <1>5, <3>1, <3>2
  <2>. QED
    BY <1>1, <2>1, <2>2, <2>3, <2>4
<1>. QED
  BY <1>1, <1>4, <1>5 DEF w, Distinct

LEMMA TailFacts ==
  ASSUME NEW T, NEW s \in Seq(T), s # <<>>
  PROVE  /\ Head(s) \in T /\ Head(s) \in Elements(s) /\ Tail(s) \in Seq(T)
         /\ Elements(Tail(s)) \subseteq Elements(s)
         /\ Distinct(s) => Distinct(Tail(s)) /\ Head(s) \notin Elements(Tail(s))
<1> DEFINE w == Tail(s)
<1>1. /\ Len(s) \in Nat /\ Len(s) > 0 /\ DOMAIN s = 1..Len(s) /\ w \in Seq(T)
      /\ Head(s) = s[1] /\ s[1] \in T
      /\ DOMAIN w = 1..(Len(s) - 1) /\ \A i \in 1..(Len(s) - 1) : w[i] = s[i + 1]
  OBVIOUS
<1>. HIDE DEF w
<1>2. Elements(w) \subseteq Elements(s) /\ s[1] \in Elements(s)
  BY <1>1 DEF Elements
<1>3. Distinct(s) => Distinct(w) /\ s[1] \notin Elements(w)
  BY <1>1 DEF Distinct, Elements
<1>. QED
  BY <1>1, <1>2, <1>3 DEF w

-----------------------------------------------------------------------------
(* The kernel *)

Kernels == KernelTypes /\ Kernel

\* What a step must not do to the other descriptors: disturb their events.
Spared(f) ==
    /\ interest'[f] = interest[f]
    /\ "IN" \in Pending(f)' => "IN" \in Pending(f)
    /\ f \in Elements(ready) => f \in Elements(ready')

LEMMA ListenerApart == Listener \in Fds /\ Conns \subseteq Fds /\ Listener \notin Conns
BY EpollAssumption DEF Fds

\* What can be read: data, the end of the stream or a reset.
LEMMA InPending ==
  ASSUME NEW c \in Conns, Kernels
  PROVE  "IN" \in Pending(c) <=> interest[c] # {} /\ (unread[c] > 0 \/ peer[c] # "open")
<1>1. c # Listener /\ c \in Fds
  BY ListenerApart
<1>2. "IN" \in Mask(c) <=> unread[c] > 0 \/ peer[c] # "open"
  BY <1>1 DEF Mask, Events
<1>3. interest[c] # {} => "IN" \in interest[c]
  BY <1>1 DEF Kernels, Kernel
<1>. QED
  BY <1>2, <1>3 DEF Pending

\* Everything that can be reported of a connection comes with data to read or
\* is that it can be written.
LEMMA PendingConn ==
  ASSUME NEW c \in Conns, Kernels, Pending(c) # {}
  PROVE  /\ "HUP" \in Pending(c) => peer[c] = "rst" /\ "IN" \in Pending(c)
         /\ "IN" \in Pending(c) \/ (program = "epoll_server2" /\ Pending(c) = {"OUT"})
         /\ Pending(c) \subseteq Events /\ interest[c] # {}
<1>1. c # Listener /\ c \in Fds
  BY ListenerApart
<1>2. interest[c] # {} /\ Pending(c) = Mask(c) \cap (interest[c] \cup {"HUP"})
  BY DEF Pending
<1>3. /\ Mask(c) \subseteq Events
      /\ "HUP" \in Mask(c) <=> peer[c] = "rst"
      /\ "IN" \in Mask(c) <=> unread[c] > 0 \/ peer[c] # "open"
  BY <1>1 DEF Mask, Events
<1>4. "HUP" \in Pending(c) => peer[c] = "rst" /\ "IN" \in Pending(c)
  <2>1. "HUP" \in Pending(c) => peer[c] = "rst"
    BY <1>2, <1>3
  <2>2. peer[c] = "rst" => "IN" \in Pending(c)
    BY <1>2, InPending
  <2>. QED
    BY <2>1, <2>2
<1>5. "IN" \in Pending(c) \/ Pending(c) = {"OUT"}
  BY <1>2, <1>3, <1>4 DEF Events
<1>6. "OUT" \in Pending(c) => program = "epoll_server2"
  <2>1. "OUT" \in Pending(c) => "OUT" \in interest[c]
    BY <1>2
  <2>. QED
    BY <2>1 DEF Kernels, Kernel
<1>. QED
  BY <1>2, <1>3, <1>4, <1>5, <1>6

LEMMA PendingListener ==
  ASSUME Kernels
  PROVE  /\ Pending(Listener) \subseteq {"IN"}
         /\ "IN" \in Pending(Listener) <=> interest[Listener] # {} /\ backlog # <<>>
<1>1. Mask(Listener) = IF backlog # <<>> THEN {"IN"} ELSE {}
  BY DEF Mask
<1>2. interest[Listener] # {} => "IN" \in interest[Listener]
  BY ListenerApart DEF Kernels, Kernel
<1>. QED
  BY <1>1, <1>2 DEF Pending

-----------------------------------------------------------------------------
(* What the steps do to the kernel *)

\* close.
LEMMA CloseKernel ==
  ASSUME Kernels, NEW c \in Conns, CloseFd(c), sock[c] = "open", UNCHANGED <<nread, program>>
  PROVE  /\ Kernels' /\ "IN" \notin Pending(c)'
         /\ \A f \in Fds \ {c} : Spared(f)
<1>1. /\ sock' = [sock EXCEPT ![c] = "closed"] /\ interest' = [interest EXCEPT ![c] = {}]
      /\ ready' = Filter(ready, Fds \ {c})
      /\ UNCHANGED <<backlog, nsent, peer, unread>> /\ c \in Fds
  BY ListenerApart DEF CloseFd
<1>2. /\ ready' \in Seq(Fds) /\ Elements(ready') = Elements(ready) \cap (Fds \ {c})
      /\ Distinct(ready')
  BY <1>1, FilterFacts DEF Kernels, KernelTypes, Kernel
<1>3. KernelTypes'
  <2>1. sock' \in [Conns -> {"new", "backlog", "open", "closed"}]
    BY <1>1 DEF Kernels, KernelTypes
  <2>2. interest' \in [Fds -> SUBSET {"IN", "OUT", "ET"}]
    BY <1>1 DEF Kernels, KernelTypes
  <2>. QED
    BY <1>1, <1>2, <2>1, <2>2 DEF Kernels, KernelTypes
<1>4. /\ \A f \in Fds \ {c} : interest'[f] = interest[f]
      /\ \A d \in Conns \ {c} : sock'[d] = sock[d]
      /\ interest'[c] = {} /\ c \notin Elements(backlog)
  BY <1>1 DEF Kernels, KernelTypes, Kernel
<1>5. Kernel'
  <2>1. \A d \in Elements(backlog) : d \in Conns \ {c}
    BY <1>4 DEF Elements, Kernels, KernelTypes
  <2>2. \A f \in Fds : interest'[f] # {} => f # c /\ interest'[f] = interest[f]
    BY <1>4
  <2>3. \A f \in Fds : interest'[f] \subseteq interest[f]
    BY <1>4
  <2>4. Distinct(backlog') /\ \A d \in Elements(backlog') : sock'[d] = "backlog"
    BY <1>1, <1>4, <2>1 DEF Kernels, Kernel
  <2>5. \A d \in Conns : interest'[d] # {} => sock'[d] = "open"
    BY <1>4, <2>2, ListenerApart DEF Kernels, Kernel
  <2>6. \A f \in Fds : interest'[f] # {} => "IN" \in interest'[f]
    BY <2>2 DEF Kernels, Kernel
  <2>. QED
    BY <1>1, <1>2, <2>3, <2>4, <2>5, <2>6, ListenerApart DEF Kernels, Kernel
<1>6. "IN" \notin Pending(c)'
  BY <1>4 DEF Pending
<1>7. ASSUME NEW f \in Fds \ {c} PROVE Spared(f)
  <2>1. interest'[f] = interest[f] /\ (f \in Elements(ready) => f \in Elements(ready'))
    BY <1>2, <1>4, <1>7
  <2>2. Mask(f)' = Mask(f)
    BY <1>1 DEF Mask
  <2>. QED
    BY <2>1, <2>2 DEF Spared, Pending
<1>. QED
  BY <1>3, <1>5, <1>6, <1>7 DEF Kernels

\* EPOLL_CTL_ADD and EPOLL_CTL_MOD.
LEMMA RegisterFacts ==
  ASSUME Kernels, NEW f \in Fds, NEW E \in SUBSET {"IN", "OUT", "ET"}, Register(f, E)
  PROVE  /\ ready' \in Seq(Fds) /\ Distinct(ready')
         /\ Elements(ready) \subseteq Elements(ready')
         /\ interest' \in [Fds -> SUBSET {"IN", "OUT", "ET"}]
         /\ interest'[f] = E /\ \A g \in Fds \ {f} : interest'[g] = interest[g]
         /\ Mask(f) \cap (E \cup {"HUP"}) # {} => f \in Elements(ready')
<1>1. /\ interest \in [Fds -> SUBSET {"IN", "OUT", "ET"}]
      /\ ready \in Seq(Fds) /\ Distinct(ready)
      /\ interest' = [interest EXCEPT ![f] = E]
      /\ ready' = IF Mask(f) \cap (E \cup {"HUP"}) = {} THEN ready ELSE Woken(f, ready)
  BY DEF Register, Kernels, KernelTypes, Kernel
<1>2. /\ Woken(f, ready) \in Seq(Fds) /\ Distinct(Woken(f, ready))
      /\ Elements(Woken(f, ready)) = Elements(ready) \cup {f}
  BY <1>1, WokenFacts
<1>3. /\ interest' \in [Fds -> SUBSET {"IN", "OUT", "ET"}]
      /\ interest'[f] = E /\ \A g \in Fds \ {f} : interest'[g] = interest[g]
  BY <1>1
<1>4. CASE Mask(f) \cap (E \cup {"HUP"}) = {}
  BY <1>1, <1>3, <1>4
<1>5. CASE Mask(f) \cap (E \cup {"HUP"}) # {}
  BY <1>1, <1>2, <1>3, <1>5
<1>. QED
  BY <1>4, <1>5

\* epoll_ctl for the listener, or for an open connection.
LEMMA RegisterKernel ==
  ASSUME Kernels, NEW f \in Fds, NEW E \in SUBSET {"IN", "OUT", "ET"}, Register(f, E),
         f \in Conns => sock[f] = "open", "IN" \in E,
         "OUT" \in E => f # Listener /\ program = "epoll_server2",
         "ET" \in E => program # "myepoll",
         UNCHANGED <<net, unread, nread, program>>
  PROVE  /\ Kernels' /\ \A g \in Fds \ {f} : Spared(g)
         /\ "IN" \in Pending(f)' => f \in Elements(ready')
         /\ interest'[f] = E
<1>1. /\ ready' \in Seq(Fds) /\ Distinct(ready')
      /\ Elements(ready) \subseteq Elements(ready')
      /\ interest' \in [Fds -> SUBSET {"IN", "OUT", "ET"}]
      /\ interest'[f] = E /\ \A g \in Fds \ {f} : interest'[g] = interest[g]
      /\ Mask(f) \cap (E \cup {"HUP"}) # {} => f \in Elements(ready')
  BY RegisterFacts
<1>2. UNCHANGED <<backlog, sock, nsent, peer, unread, nread, program>>
  BY DEF net
<1>3. KernelTypes'
  BY <1>1, <1>2 DEF Kernels, KernelTypes
<1>4. Kernel'
  <2>1. \A d \in Conns : interest'[d] # {} => sock'[d] = "open"
    BY <1>1, <1>2, ListenerApart DEF Kernels, Kernel
  <2>2. \A g \in Fds : interest'[g] # {} => "IN" \in interest'[g]
    BY <1>1 DEF Kernels, Kernel
  <2>3. "OUT" \notin interest'[Listener]
    BY <1>1, ListenerApart DEF Kernels, Kernel
  <2>4. program' # "epoll_server2" => \A d \in Conns : "OUT" \notin interest'[d]
    BY <1>1, <1>2, ListenerApart DEF Kernels, Kernel
  <2>5. program' = "myepoll" => \A g \in Fds : "ET" \notin interest'[g]
    BY <1>1, <1>2 DEF Kernels, Kernel
  <2>6. Distinct(backlog') /\ \A c \in Elements(backlog') : sock'[c] = "backlog"
    BY <1>2 DEF Kernels, Kernel
  <2>. QED
    BY <1>1, <2>1, <2>2, <2>3, <2>4, <2>5, <2>6 DEF Kernel
<1>5. \A g \in Fds : Mask(g)' = Mask(g)
  BY <1>2 DEF Mask
<1>6. ASSUME NEW g \in Fds \ {f} PROVE Spared(g)
  BY <1>1, <1>5, <1>6 DEF Spared, Pending
<1>7. "IN" \in Pending(f)' => f \in Elements(ready')
  BY <1>1, <1>5 DEF Pending
<1>. QED
  BY <1>1, <1>3, <1>4, <1>6, <1>7 DEF Kernels

\* accept takes the first connection from the backlog.
LEMMA BacklogFacts ==
  ASSUME Kernels, backlog # <<>>
  PROVE  /\ Head(backlog) \in Conns /\ sock[Head(backlog)] = "backlog"
         /\ interest[Head(backlog)] = {}
         /\ Tail(backlog) \in Seq(Conns) /\ Distinct(Tail(backlog))
         /\ \A c \in Elements(Tail(backlog)) :
              c \in Conns \ {Head(backlog)} /\ sock[c] = "backlog"
<1>1. backlog \in Seq(Conns) /\ Distinct(backlog)
  BY DEF Kernels, KernelTypes, Kernel
<1>2. /\ Head(backlog) \in Conns /\ Head(backlog) \in Elements(backlog)
      /\ Tail(backlog) \in Seq(Conns) /\ Distinct(Tail(backlog))
      /\ Elements(Tail(backlog)) \subseteq Elements(backlog)
      /\ Head(backlog) \notin Elements(Tail(backlog))
  BY <1>1, TailFacts
<1>3. Elements(Tail(backlog)) \subseteq Conns
  BY <1>2 DEF Elements
<1>. QED
  BY <1>2, <1>3 DEF Kernels, Kernel

LEMMA AcceptKernel ==
  ASSUME Kernels, backlog # <<>>, NEW c, c = Head(backlog),
         sock' = [sock EXCEPT ![c] = "open"], backlog' = Tail(backlog),
         NEW E \in {{"IN"}, {"IN", "ET"}}, Register(c, E), program = "myepoll" => E = {"IN"},
         UNCHANGED <<nsent, peer, unread, nread, program>>
  PROVE  /\ c \in Conns /\ sock[c] = "backlog" /\ interest[c] = {} /\ interest'[c] = E
         /\ Kernels' /\ \A g \in Fds \ {c} : Spared(g)
         /\ "IN" \in Pending(c)' => c \in Elements(ready')
<1>1. /\ c \in Conns /\ c \in Fds /\ c # Listener /\ sock[c] = "backlog" /\ interest[c] = {}
      /\ backlog' \in Seq(Conns) /\ Distinct(backlog')
      /\ \A d \in Elements(backlog') : d \in Conns \ {c} /\ sock[d] = "backlog"
  BY BacklogFacts, ListenerApart
<1>2. E \in SUBSET {"IN", "OUT", "ET"} /\ "IN" \in E /\ "OUT" \notin E
  OBVIOUS
<1>3. /\ ready' \in Seq(Fds) /\ Distinct(ready')
      /\ Elements(ready) \subseteq Elements(ready')
      /\ interest' \in [Fds -> SUBSET {"IN", "OUT", "ET"}]
      /\ interest'[c] = E /\ \A g \in Fds \ {c} : interest'[g] = interest[g]
      /\ Mask(c) \cap (E \cup {"HUP"}) # {} => c \in Elements(ready')
  BY <1>1, <1>2, RegisterFacts
<1>4. /\ sock' \in [Conns -> {"new", "backlog", "open", "closed"}]
      /\ sock'[c] = "open" /\ \A d \in Conns \ {c} : sock'[d] = sock[d]
  BY <1>1 DEF Kernels, KernelTypes
<1>5. KernelTypes'
  BY <1>1, <1>3, <1>4 DEF Kernels, KernelTypes
<1>6. Kernel'
  <2>1. \A d \in Conns : interest'[d] # {} => sock'[d] = "open"
    BY <1>3, <1>4, ListenerApart DEF Kernels, Kernel
  <2>2. \A g \in Fds : interest'[g] # {} => "IN" \in interest'[g]
    BY <1>2, <1>3 DEF Kernels, Kernel
  <2>3. "OUT" \notin interest'[Listener]
    BY <1>1, <1>3, ListenerApart DEF Kernels, Kernel
  <2>4. program' # "epoll_server2" => \A d \in Conns : "OUT" \notin interest'[d]
    BY <1>2, <1>3, ListenerApart DEF Kernels, Kernel
  <2>5. program' = "myepoll" => \A g \in Fds : "ET" \notin interest'[g]
    BY <1>3 DEF Kernels, Kernel
  <2>6. \A d \in Elements(backlog') : sock'[d] = "backlog"
    BY <1>1, <1>4
  <2>. QED
    BY <1>1, <1>3, <2>1, <2>2, <2>3, <2>4, <2>5, <2>6 DEF Kernel
<1>7. \A d \in Conns : Mask(d)' = Mask(d)
  BY ListenerApart DEF Mask
<1>8. ASSUME NEW g \in Fds \ {c} PROVE Spared(g)
  <2>1. CASE g \in Conns
    BY <1>3, <1>7, <1>8, <2>1 DEF Spared, Pending
  <2>2. CASE g = Listener
    <3>1. "IN" \in Mask(Listener)' => "IN" \in Mask(Listener)
      BY DEF Mask
    <3>. QED
      BY <1>1, <1>3, <2>2, <3>1, ListenerApart DEF Spared, Pending
  <2>. QED
    BY <1>8, <2>1, <2>2 DEF Fds
<1>9. "IN" \in Pending(c)' => c \in Elements(ready')
  BY <1>1, <1>3, <1>7 DEF Pending
<1>. QED
  BY <1>1, <1>3, <1>5, <1>6, <1>8, <1>9 DEF Kernels

\* myepoll.c turns a connection away.
LEMMA RefuseKernel ==
  ASSUME Kernels, backlog # <<>>, NEW c, c = Head(backlog),
         sock' = [sock EXCEPT ![c] = "closed"], backlog' = Tail(backlog),
         UNCHANGED <<nsent, peer, unread, nread, program, interest, ready>>
  PROVE  c \in Conns /\ sock[c] = "backlog" /\ Kernels' /\ \A g \in Fds : Spared(g)
<1>1. /\ c \in Conns /\ sock[c] = "backlog" /\ interest[c] = {}
      /\ backlog' \in Seq(Conns) /\ Distinct(backlog')
      /\ \A d \in Elements(backlog') : d \in Conns \ {c} /\ sock[d] = "backlog"
  BY BacklogFacts, ListenerApart
<1>2. /\ sock' \in [Conns -> {"new", "backlog", "open", "closed"}]
      /\ \A d \in Conns \ {c} : sock'[d] = sock[d]
  BY <1>1 DEF Kernels, KernelTypes
<1>3. KernelTypes'
  BY <1>1, <1>2 DEF Kernels, KernelTypes
<1>4. Kernel'
  <2>1. \A d \in Conns : interest'[d] # {} => sock'[d] = "open"
    BY <1>1, <1>2 DEF Kernels, Kernel
  <2>2. \A d \in Elements(backlog') : sock'[d] = "backlog"
    BY <1>1, <1>2
  <2>. QED
    BY <1>1, <2>1, <2>2 DEF Kernels, Kernel
<1>5. ASSUME NEW g \in Fds PROVE Spared(g)
  <2>1. "IN" \in Mask(g)' => "IN" \in Mask(g)
    BY DEF Mask, Events
  <2>. QED
    BY <2>1 DEF Spared, Pending
<1>. QED
  BY <1>1, <1>3, <1>4, <1>5 DEF Kernels

\* read takes data from a connection.
LEMMA ReadKernel ==
  ASSUME Kernels, NEW c \in Conns, ReadSome(c), UNCHANGED program
  PROVE  /\ Kernels' /\ \A f \in Fds : Spared(f)
         /\ \A d \in Conns : nread'[d] + unread'[d] = nread[d] + unread[d] /\ unread'[d] <= unread[d]
<1>1. PICK n \in 1..Min2(unread[c], ReadSize) :
        /\ unread' = [unread EXCEPT ![c] = @ - n]
        /\ nread' = [nread EXCEPT ![c] = @ + n]
  BY DEF ReadSome
<1>2. UNCHANGED <<backlog, sock, nsent, peer, interest, ready>>
  BY DEF ReadSome, net
<1>3. unread \in [Conns -> Nat] /\ nread \in [Conns -> Nat]
  BY DEF Kernels, KernelTypes
<1>4. n \in Nat /\ n <= unread[c]
  BY <1>3, ServersAssumption DEF Min2
<1>5. unread[c] - n \in Nat /\ nread[c] + n \in Nat
      /\ (nread[c] + n) + (unread[c] - n) = nread[c] + unread[c] /\ unread[c] - n <= unread[c]
  BY <1>3, <1>4
<1>6. /\ unread' \in [Conns -> Nat] /\ nread' \in [Conns -> Nat]
      /\ unread'[c] = unread[c] - n /\ nread'[c] = nread[c] + n
      /\ \A d \in Conns \ {c} : unread'[d] = unread[d] /\ nread'[d] = nread[d]
  BY <1>1, <1>3, <1>5
<1>7. Kernels'
  BY <1>2, <1>6 DEF Kernels, KernelTypes, Kernel
<1>8. \A d \in Conns : nread'[d] + unread'[d] = nread[d] + unread[d] /\ unread'[d] <= unread[d]
  BY <1>3, <1>5, <1>6
<1>9. ASSUME NEW f \in Fds PROVE Spared(f)
  <2>1. CASE f \in Conns
    <3>1. unread'[f] > 0 => unread[f] > 0
      BY <1>3, <1>6, <1>8, <2>1
    <3>2. interest'[f] = interest[f] /\ peer'[f] = peer[f] /\ ready' = ready
      BY <1>2
    <3>3. "IN" \in Mask(f)' => "IN" \in Mask(f)
      BY <2>1, <3>1, <3>2, ListenerApart DEF Mask, Events
    <3>. QED
      BY <3>2, <3>3 DEF Spared, Pending
  <2>2. CASE f = Listener
    BY <1>2, <2>2 DEF Spared, Pending, Mask
  <2>. QED
    BY <2>1, <2>2 DEF Fds
<1>. QED
  BY <1>7, <1>8, <1>9

\* A step that leaves the kernel alone.
LEMMA QuietKernel ==
  ASSUME Kernels, UNCHANGED <<backlog, sock, nsent, peer, interest, ready, unread, nread, program>>
  PROVE  Kernels' /\ \A f \in Fds : Spared(f)
<1>1. Kernels'
  BY DEF Kernels, KernelTypes, Kernel
<1>2. \A f \in Fds : Spared(f)
  BY DEF Spared, Pending, Mask
<1>. QED
  BY <1>1, <1>2

\* epoll_wait reports each descriptor at most once, and leaves in the list what
\* it did not report and what is level-triggered.
LEMMA WaitKernel ==
  ASSUME Kernels, ready' = LeftReady, UNCHANGED <<net, interest, unread, nread, program>>
  PROVE  /\ Kernels' /\ Hot \in Seq(Fds) /\ Distinct(Hot)
         /\ \A f \in Elements(Hot) : Pending(f) # {}
         /\ \A f \in Fds : Pending(f)' = Pending(f) /\ interest'[f] = interest[f]
         /\ \A f \in Elements(ready) : Pending(f) # {} =>
              f \in Elements(ready') \/ ("ET" \in interest[f] /\ f \in Elements(Hot))
<1> DEFINE n == Min2(MAXEVENTS, Len(ready))
           rest == SubSeq(ready, Len(Batch) + 1, Len(ready))
           again == Filter(Hot, LevelTriggered)
<1>1. ready \in Seq(Fds) /\ Distinct(ready) /\ n \in 0..Len(ready)
  <2>1. ready \in Seq(Fds) /\ Distinct(ready) /\ Len(ready) \in Nat
    BY DEF Kernels, KernelTypes, Kernel
  <2>. QED
    BY <2>1, EpollAssumption DEF Min2
<1>2. /\ Batch \in Seq(Fds) /\ Len(Batch) = n /\ rest \in Seq(Fds)
      /\ Elements(ready) \subseteq Elements(Batch) \cup Elements(rest)
      /\ Distinct(Batch) /\ Distinct(rest) /\ Elements(Batch) \cap Elements(rest) = {}
  <2>. HIDE DEF n
  <2>1. Batch = SubSeq(ready, 1, n)
    BY DEF Batch, n
  <2>2. Len(SubSeq(ready, 1, n)) = n
    BY <1>1, SplitFacts
  <2>. QED
    BY <1>1, <2>1, <2>2, SplitFacts
<1>. HIDE DEF n, rest
<1>3. /\ Hot \in Seq(Fds) /\ Distinct(Hot)
      /\ Elements(Hot) = Elements(Batch) \cap {f \in Fds : Pending(f) # {}}
  BY <1>2, FilterFacts DEF Hot
<1>4. /\ again \in Seq(Fds) /\ Distinct(again) /\ Elements(again) = Elements(Hot) \cap LevelTriggered
  BY <1>3, FilterFacts
<1>5. ready' = rest \o again
  BY DEF LeftReady, rest
<1>. HIDE DEF again
<1>6. /\ ready' \in Seq(Fds) /\ Distinct(ready') /\ Elements(ready') = Elements(rest) \cup Elements(again)
  <2>1. Elements(rest) \cap Elements(again) = {}
    BY <1>2, <1>3, <1>4
  <2>. QED
    BY <1>2, <1>4, <1>5, <2>1, ConcatFacts
<1>7. UNCHANGED <<backlog, sock, nsent, peer, unread, nread, interest, program>>
  BY DEF net
<1>8. Kernels'
  BY <1>6, <1>7 DEF Kernels, KernelTypes, Kernel
<1>9. \A f \in Fds : Pending(f)' = Pending(f) /\ interest'[f] = interest[f]
  BY <1>7 DEF Pending, Mask
<1>10. \A f \in Elements(ready) : f \in Fds
  BY <1>1 DEF Elements
<1>11. ASSUME NEW f \in Elements(ready), Pending(f) # {}
       PROVE  f \in Elements(ready') \/ ("ET" \in interest[f] /\ f \in Elements(Hot))
  BY <1>2, <1>3, <1>4, <1>6, <1>10, <1>11 DEF LevelTriggered
<1>. QED
  BY <1>3, <1>8, <1>9, <1>11

\* Something that happens to a connection puts it into the list.
LEMMA HappenedFacts ==
  ASSUME Kernels, NEW f \in Fds, Happened(f)
  PROVE  /\ ready' \in Seq(Fds) /\ Distinct(ready')
         /\ Elements(ready) \subseteq Elements(ready')
         /\ interest[f] # {} => f \in Elements(ready')
<1>1. ready \in Seq(Fds) /\ Distinct(ready)
  BY DEF Kernels, KernelTypes, Kernel
<1>2. /\ Woken(f, ready) \in Seq(Fds) /\ Distinct(Woken(f, ready))
      /\ Elements(Woken(f, ready)) = Elements(ready) \cup {f}
  BY <1>1, WokenFacts
<1>3. ready' = IF interest[f] = {} THEN ready ELSE Woken(f, ready)
  BY DEF Happened
<1>. QED
  BY <1>1, <1>2, <1>3

\* The clients: what becomes readable is in the list; a connection that was
\* closed does not change, and what is sent is counted.
LEMMA ClientKernel ==
  ASSUME Kernels, NEW c \in Conns, Client(c), UNCHANGED <<nread, program>>
  PROVE  /\ Kernels' /\ UNCHANGED interest
         /\ \A f \in Fds : /\ "IN" \in Pending(f)' => f \in Elements(ready') \/ "IN" \in Pending(f)
                           /\ f \in Elements(ready) => f \in Elements(ready')
         /\ \A d \in Conns :
              /\ peer[d] = "rst" => peer'[d] = "rst"
              /\ sock[d] = "closed" => peer'[d] = peer[d] /\ unread'[d] = unread[d]
              /\ sock[d] \in {"open", "closed"} => sock'[d] = sock[d]
              /\ sock'[d] = "closed" => sock[d] = "closed"
              /\ peer'[d] # "rst" => unread'[d] - nsent'[d] = unread[d] - nsent[d]
<1>1. /\ KernelTypes /\ Kernel /\ c \in Fds /\ c # Listener
  BY ListenerApart DEF Kernels
<1>2. CASE Connect(c)
  <2>1. /\ sock[c] = "new" /\ sock' = [sock EXCEPT ![c] = "backlog"]
        /\ backlog' = Append(backlog, c) /\ Happened(Listener)
        /\ UNCHANGED <<interest, unread, nsent, peer>>
    BY <1>2 DEF Connect
  <2>2. /\ ready' \in Seq(Fds) /\ Distinct(ready')
        /\ Elements(ready) \subseteq Elements(ready')
        /\ interest[Listener] # {} => Listener \in Elements(ready')
    BY <2>1, HappenedFacts, ListenerApart
  <2>3. /\ sock' \in [Conns -> {"new", "backlog", "open", "closed"}]
        /\ sock'[c] = "backlog" /\ \A d \in Conns \ {c} : sock'[d] = sock[d]
    BY <1>1, <2>1 DEF KernelTypes
  <2>4. c \notin Elements(backlog)
    BY <1>1, <2>1 DEF Kernel
  <2>5. /\ backlog' \in Seq(Conns) /\ Distinct(backlog')
        /\ Elements(backlog') = Elements(backlog) \cup {c}
    BY <1>1, <2>1, <2>4, AppendFacts DEF KernelTypes, Kernel
  <2>6. KernelTypes'
    BY <1>1, <2>1, <2>2, <2>3, <2>5 DEF KernelTypes
  <2>7. Kernel'
    <3>1. \A d \in Elements(backlog') : sock'[d] = "backlog"
      <4>1. Elements(backlog) \subseteq Conns
        BY <1>1 DEF KernelTypes, Elements
      <4>. QED
        BY <1>1, <2>3, <2>5, <4>1 DEF Kernel
    <3>2. \A d \in Conns : interest'[d] # {} => sock'[d] = "open"
      BY <1>1, <2>1, <2>3 DEF Kernel
    <3>. QED
      BY <1>1, <2>1, <2>2, <2>5, <3>1, <3>2 DEF Kernel
  <2>8. ASSUME NEW f \in Fds, "IN" \in Pending(f)' PROVE f \in Elements(ready') \/ "IN" \in Pending(f)
    <3>1. CASE f = Listener
      BY <2>1, <2>2, <2>8, <3>1 DEF Pending
    <3>2. CASE f # Listener
      BY <2>1, <2>8, <3>2 DEF Pending, Mask
    <3>. QED
      BY <3>1, <3>2
  <2>. QED
    BY <2>1, <2>2, <2>3, <2>6, <2>7, <2>8 DEF Kernels
<1>3. CASE ClientSend(c) \/ ClientFin(c) \/ ClientReset(c)
  <2>1. /\ sock[c] \in {"backlog", "open"} /\ Happened(c)
        /\ UNCHANGED <<backlog, interest, sock>>
    BY <1>3 DEF ClientSend, ClientFin, ClientReset
  <2>2. /\ ready' \in Seq(Fds) /\ Distinct(ready')
        /\ Elements(ready) \subseteq Elements(ready')
        /\ interest[c] # {} => c \in Elements(ready')
    BY <1>1, <2>1, HappenedFacts
  <2>3. /\ unread' \in [Conns -> Nat] /\ nsent' \in [Conns -> Nat]
        /\ peer' \in [Conns -> {"open", "fin", "rst"}]
        /\ \A d \in Conns \ {c} : /\ unread'[d] = unread[d] /\ nsent'[d] = nsent[d]
                                  /\ peer'[d] = peer[d]
        /\ peer[c] = "rst" => peer'[c] = "rst"
        /\ peer'[c] # "rst" => unread'[c] - nsent'[c] = unread[c] - nsent[c]
    <3>1. /\ unread \in [Conns -> Nat] /\ nsent \in [Conns -> Nat]
          /\ peer \in [Conns -> {"open", "fin", "rst"}]
      BY <1>1 DEF KernelTypes
    <3>2. CASE ClientSend(c)
      <4>1. /\ unread' = [unread EXCEPT ![c] = @ + 1] /\ nsent' = [nsent EXCEPT ![c] = @ + 1]
            /\ peer' = peer
        BY <3>2 DEF ClientSend
      <4>2. unread[c] \in Nat /\ nsent[c] \in Nat /\ unread[c] + 1 \in Nat /\ nsent[c] + 1 \in Nat
            /\ (unread[c] + 1) - (nsent[c] + 1) = unread[c] - nsent[c]
        BY <3>1
      <4>. QED
        BY <3>1, <4>1, <4>2
    <3>3. CASE ClientFin(c)
      <4>1. UNCHANGED <<unread, nsent>> /\ peer[c] = "open" /\ peer' = [peer EXCEPT ![c] = "fin"]
        BY <3>3 DEF ClientFin
      <4>. QED
        BY <3>1, <4>1
    <3>4. CASE ClientReset(c)
      <4>1. /\ unread' = [unread EXCEPT ![c] = 0] /\ nsent' = nsent
            /\ peer' = [peer EXCEPT ![c] = "rst"]
        BY <3>4 DEF ClientReset
      <4>. QED
        BY <3>1, <4>1
    <3>. QED
      BY <1>3, <3>2, <3>3, <3>4
  <2>4. Kernels'
    BY <1>1, <2>1, <2>2, <2>3 DEF Kernels, KernelTypes, Kernel
  <2>5. ASSUME NEW f \in Fds, "IN" \in Pending(f)' PROVE f \in Elements(ready') \/ "IN" \in Pending(f)
    <3>1. CASE f = c
      BY <2>1, <2>2, <2>5, <3>1 DEF Pending
    <3>2. CASE f = Listener
      BY <2>1, <2>5, <3>2 DEF Pending, Mask
    <3>3. CASE f \in Conns \ {c}
      <4>1. Mask(f)' = Mask(f)
        BY <2>1, <2>3, <3>3, ListenerApart DEF Mask
      <4>. QED
        BY <2>1, <2>5, <4>1 DEF Pending
    <3>. QED
      BY <3>1, <3>2, <3>3 DEF Fds
  <2>. QED
    BY <2>1, <2>2, <2>3, <2>4, <2>5
<1>. QED
  BY <1>2, <1>3 DEF Client

-----------------------------------------------------------------------------
(* Where a step leaves the program *)

Lasting ==
    /\ \A c \in Conns : peer[c] = "rst" => peer'[c] = "rst"
    /\ program' = program

LEMMA EventFacts ==
  ASSUME Position
  PROVE  /\ Len(evs) \in Nat /\ DOMAIN evs = 1..Len(evs) /\ DOMAIN evs \subseteq Nat
         /\ ei \in Nat \ {0} /\ \A i \in DOMAIN evs : evs[i].fd \in Fds
<1>1. evs \in Seq(Event) /\ ei \in Nat \ {0}
  BY DEF Position
<1>2. Len(evs) \in Nat /\ DOMAIN evs = 1..Len(evs) /\ \A i \in DOMAIN evs : evs[i] \in Event
  BY <1>1
<1>. QED
  BY <1>1, <1>2 DEF Event

\* It stays at an event, or where there is none.
LEMMA StayRound ==
  ASSUME Position, Round, Lasting, UNCHANGED <<evs, ei>>,
         \A f \in Fds : interest[f] # {} => interest'[f] # {},
         pc' \in {"start", "add", "wait", "event", "accept", "read", "write", "aborted"},
         pc' \in {"start", "add", "wait"} => evs = <<>>,
         pc' = "accept" => ei \in DOMAIN evs /\ Fd = Listener,
         pc' \in {"read", "write"} => ei \in DOMAIN evs /\ Fd \in Conns,
         pc' = "read" => "IN" \in evs[ei].events
  PROVE  Position' /\ Round'
<1>1. Position'
  BY DEF Position
<1>2. \A i \in DOMAIN evs : evs[i].fd \in Fds
  BY EventFacts
<1>3. \A i \in DOMAIN evs :
         /\ evs[i].fd = Listener => evs[i].events = {"IN"}
         /\ "HUP" \in evs[i].events => evs[i].fd # Listener
         /\ "HUP" \in evs[i].events => peer[evs[i].fd] = "rst"
         /\ "IN" \in evs[i].events \/ (program = "epoll_server2" /\ evs[i].events = {"OUT"})
         /\ i >= ei => interest[evs[i].fd] # {}
  BY DEF Round
<1>4. \A i \in DOMAIN evs : "HUP" \in evs[i].events => peer'[evs[i].fd] = "rst"
  BY <1>2, <1>3 DEF Lasting, Fds
<1>. QED
  BY <1>1, <1>2, <1>3, <1>4 DEF Round, Lasting, Fd

\* It goes on to the next event, and may have closed the descriptor of this one.
LEMMA NextRound ==
  ASSUME Position, Round, Lasting, NextEvent, ei \in DOMAIN evs,
         \A f \in Fds \ {Fd} : interest[f] # {} => interest'[f] # {}
  PROVE  Position' /\ Round'
<1>1. pc' = "event" /\ ei' = ei + 1 /\ evs' = evs /\ ei \in Nat \ {0} /\ ei' \in Nat \ {0}
  BY DEF NextEvent, Position
<1>2. DOMAIN evs \subseteq Nat /\ \A i \in DOMAIN evs : evs[i].fd \in Fds
  BY EventFacts
<1>3. \A i \in DOMAIN evs :
         /\ evs[i].fd = Listener => evs[i].events = {"IN"}
         /\ "HUP" \in evs[i].events => evs[i].fd # Listener
         /\ "HUP" \in evs[i].events => peer[evs[i].fd] = "rst"
         /\ "IN" \in evs[i].events \/ (program = "epoll_server2" /\ evs[i].events = {"OUT"})
  BY DEF Round
<1>4. \A i \in DOMAIN evs : "HUP" \in evs[i].events => peer'[evs[i].fd] = "rst"
  BY <1>2, <1>3 DEF Lasting, Fds
<1>5. ASSUME NEW i \in DOMAIN evs, i >= ei' PROVE interest'[evs[i].fd] # {}
  <2>1. i >= ei /\ i # ei
    BY <1>1, <1>2, <1>5
  <2>2. evs[i].fd # Fd /\ interest[evs[i].fd] # {}
    BY <2>1 DEF Round, Fd
  <2>. QED
    BY <1>2, <2>2
<1>6. Position'
  BY <1>1 DEF Position
<1>. QED
  BY <1>1, <1>3, <1>4, <1>5, <1>6 DEF Round, Lasting

\* It goes on to the next epoll_wait.
LEMMA NextWaitRound ==
  ASSUME Position, NextWait, UNCHANGED program
  PROVE  Position' /\ Round'
<1>1. pc' = "wait" /\ evs' = <<>> /\ ei' = 1 /\ DOMAIN evs' = {}
  BY DEF NextWait
<1>. QED
  BY <1>1 DEF Position, Round

\* What was announced still is.
LEMMA StayAnnounced ==
  ASSUME Announced, UNCHANGED <<evs, ei>>, pc # "aborted", acceptFailed => acceptFailed',
         \A f \in Fds : Spared(f) \/ ("IN" \in Pending(f)' => f \in Elements(ready'))
  PROVE  Announced'
<1> SUFFICES ASSUME NEW f \in Fds, "IN" \in Pending(f)', f = Listener => ~acceptFailed',
                    f \notin Elements(ready')
             PROVE  "ET" \in interest'[f] /\ AtHand(f)'
  BY DEF Announced, Fds
<1>1. Spared(f)
  OBVIOUS
<1>2. "ET" \in interest[f] /\ AtHand(f)
  BY <1>1 DEF Spared, Announced
<1>. QED
  BY <1>1, <1>2 DEF Spared, AtHand

LEMMA NextAnnounced ==
  ASSUME Announced, Position, ei \in DOMAIN evs, NEW d, d = Fd, NextEvent,
         pc # "aborted", acceptFailed => acceptFailed',
         \A f \in Fds \ {d} : Spared(f) \/ ("IN" \in Pending(f)' => f \in Elements(ready')),
         "IN" \in Pending(d)' /\ (d = Listener => ~acceptFailed') => d \in Elements(ready')
  PROVE  Announced'
<1>1. ei' = ei + 1 /\ evs' = evs /\ ei \in Nat
  BY DEF NextEvent, Position
<1>2. d \in Fds /\ DOMAIN evs \subseteq Nat
  BY EventFacts DEF Fd
<1> SUFFICES ASSUME NEW f \in Fds, "IN" \in Pending(f)', f = Listener => ~acceptFailed',
                    f \notin Elements(ready')
             PROVE  "ET" \in interest'[f] /\ AtHand(f)'
  BY DEF Announced, Fds
<1>3. f # d
  OBVIOUS
<1>4. Spared(f)
  BY <1>3
<1>5. "ET" \in interest[f] /\ AtHand(f)
  BY <1>4 DEF Spared, Announced
<1>6. PICK i \in DOMAIN evs : i >= ei /\ evs[i].fd = f
  BY <1>5 DEF AtHand
<1>7. i # ei
  BY <1>3, <1>6 DEF Fd
<1>8. i >= ei + 1
  BY <1>1, <1>2, <1>6, <1>7
<1>. QED
  BY <1>1, <1>4, <1>5, <1>6, <1>8 DEF Spared, AtHand

LEMMA NextWaitAnnounced ==
  ASSUME Announced, Position, ~(ei \in DOMAIN evs), pc # "aborted", acceptFailed => acceptFailed',
         \A f \in Fds : Spared(f)
  PROVE  Announced'
<1> SUFFICES ASSUME NEW f \in Fds, "IN" \in Pending(f)', f = Listener => ~acceptFailed'
             PROVE  f \in Elements(ready')
  BY DEF Announced, Fds
<1>1. Len(evs) \in Nat /\ DOMAIN evs = 1..Len(evs) /\ ei \in Nat \ {0}
  BY DEF Position
<1>2. \A i \in DOMAIN evs : ~(i >= ei)
  BY <1>1
<1>3. ~AtHand(f)
  BY <1>2 DEF AtHand
<1>. QED
  BY <1>3 DEF Spared, Announced

-----------------------------------------------------------------------------
(* Steps that leave the data alone *)

Quiet == UNCHANGED <<backlog, sock, nsent, peer, interest, ready, unread, nread, program,
                     ptr_cli, index>>

LEMMA KernelQuiet == ASSUME UNCHANGED <<kernel, nread, program, ptr_cli, index>> PROVE Quiet
BY DEF Quiet, kernel, net

\* The counts and the table do not look at the program's position.
LEMMA DataSame ==
  ASSUME SingleInv, UNCHANGED <<sock, nsent, peer, unread, nread, program, ptr_cli, index>>,
         \A c \in Conns : interest'[c] # {} => interest[c] # {}
  PROVE  Counted' /\ ClosedAtEnd' /\ Table'
<1>1. Counted'
  BY DEF SingleInv, Counted
<1>2. ClosedAtEnd'
  BY DEF SingleInv, ClosedAtEnd
<1>3. Table'
  BY DEF SingleInv, Table, IndexesTrue, Clis
<1>. QED
  BY <1>1, <1>2, <1>3

LEMMA StayKeeps ==
  ASSUME SingleInv, Quiet, UNCHANGED <<evs, ei, acceptFailed>>, pc # "aborted",
         pc' \in {"start", "add", "wait", "event", "accept", "read", "write", "aborted"},
         pc' \in {"start", "add", "wait"} => evs = <<>>,
         pc' = "accept" => ei \in DOMAIN evs /\ Fd = Listener,
         pc' \in {"read", "write"} => ei \in DOMAIN evs /\ Fd \in Conns,
         pc' = "read" => "IN" \in evs[ei].events
  PROVE  SingleInv'
<1>1. Kernels' /\ \A f \in Fds : Spared(f)
  BY QuietKernel DEF SingleInv, Kernels, Quiet
<1>2. Position' /\ Round'
  BY StayRound DEF SingleInv, Lasting, Quiet
<1>3. Announced'
  BY <1>1, StayAnnounced DEF SingleInv
<1>4. Counted' /\ ClosedAtEnd' /\ Table'
  BY DataSame DEF Quiet
<1>. QED
  BY <1>1, <1>2, <1>3, <1>4 DEF SingleInv, Kernels

LEMMA SkipKeeps ==
  ASSUME SingleInv, Quiet, NextEvent, acceptFailed => acceptFailed', pc # "aborted", ei \in DOMAIN evs,
         "IN" \in Pending(Fd) /\ (Fd = Listener => ~acceptFailed') => Fd \in Elements(ready)
  PROVE  SingleInv'
<1>1. Kernels' /\ \A f \in Fds : Spared(f)
  BY QuietKernel DEF SingleInv, Kernels, Quiet
<1>2. Position' /\ Round'
  BY NextRound DEF SingleInv, Lasting, Quiet
<1>3. Announced'
  <2>1. PICK d \in Fds : d = Fd
    BY EventFacts DEF SingleInv, Fd
  <2>2. "IN" \in Pending(d)' => "IN" \in Pending(d)
    BY DEF Pending, Mask, Quiet
  <2>. QED
    BY <1>1, <2>1, <2>2, NextAnnounced DEF SingleInv, Quiet
<1>4. Counted' /\ ClosedAtEnd' /\ Table'
  BY DataSame DEF Quiet
<1>. QED
  BY <1>1, <1>2, <1>3, <1>4 DEF SingleInv, Kernels

LEMMA NextWaitKeeps ==
  ASSUME SingleInv, Quiet, NextWait, UNCHANGED acceptFailed, pc # "aborted", ei > Len(evs)
  PROVE  SingleInv'
<1>1. Kernels' /\ \A f \in Fds : Spared(f)
  BY QuietKernel DEF SingleInv, Kernels, Quiet
<1>2. Position' /\ Round'
  BY NextWaitRound DEF SingleInv, Quiet
<1>3. Announced'
  <2>1. ~(ei \in DOMAIN evs)
    BY DEF SingleInv, Position
  <2>. QED
    BY <1>1, <2>1, NextWaitAnnounced DEF SingleInv
<1>4. Counted' /\ ClosedAtEnd' /\ Table'
  BY DataSame DEF Quiet
<1>. QED
  BY <1>1, <1>2, <1>3, <1>4 DEF SingleInv, Kernels

-----------------------------------------------------------------------------
(* The handling of one event *)

\* The descriptor of the event at hand is registered, and its events say what
\* happened.
LEMMA AtEvent ==
  ASSUME SingleInv, ei \in DOMAIN evs, NEW d, d = Fd
  PROVE  /\ d \in Fds /\ interest[d] # {}
         /\ d \in Conns => sock[d] = "open" /\ d # Listener
         /\ d = Listener => evs[ei].events = {"IN"}
         /\ "HUP" \in evs[ei].events => d \in Conns /\ peer[d] = "rst"
         /\ "IN" \in evs[ei].events \/ (program = "epoll_server2" /\ evs[ei].events = {"OUT"})
<1>1. d \in Fds /\ ei >= ei
  BY EventFacts DEF SingleInv, Fd
<1>2. interest[d] # {}
  BY <1>1 DEF SingleInv, Round, Fd
<1>3. /\ d = Listener => evs[ei].events = {"IN"}
      /\ "HUP" \in evs[ei].events => peer[d] = "rst"
      /\ "IN" \in evs[ei].events \/ (program = "epoll_server2" /\ evs[ei].events = {"OUT"})
  BY DEF SingleInv, Round, Fd
<1>4. d \in Conns => sock[d] = "open" /\ d # Listener
  BY <1>2, ListenerApart DEF SingleInv, Kernel
<1>. QED
  BY <1>1, <1>2, <1>3, <1>4 DEF Fds

\* The connection of the event is closed at the end of its stream, after a reset,
\* or by the program that answers once.
LEMMA CloseParts ==
  ASSUME SingleInv, ei \in DOMAIN evs, NEW c \in Conns, c = Fd, CloseFd(c), NextEvent,
         UNCHANGED <<nread, program, acceptFailed, index>>, pc # "aborted",
         program # "epoll_server2" => AtEof(c) \/ peer[c] = "rst"
  PROVE  /\ Kernels' /\ Position' /\ Round' /\ Announced' /\ Counted' /\ ClosedAtEnd'
         /\ sock'[c] = "closed" /\ interest'[c] = {}
         /\ \A d \in Conns \ {c} : sock'[d] = sock[d] /\ interest'[d] = interest[d]
<1>1. sock[c] = "open" /\ c # Listener
  BY AtEvent
<1>2. Kernels' /\ "IN" \notin Pending(c)' /\ \A f \in Fds \ {c} : Spared(f)
  BY <1>1, CloseKernel DEF SingleInv, Kernels
<1>3. /\ sock' = [sock EXCEPT ![c] = "closed"] /\ interest' = [interest EXCEPT ![c] = {}]
      /\ UNCHANGED <<nsent, peer, unread>>
  BY DEF CloseFd
<1>4. /\ sock'[c] = "closed" /\ interest'[c] = {}
      /\ \A d \in Conns \ {c} : sock'[d] = sock[d] /\ interest'[d] = interest[d]
  BY <1>3, ListenerApart DEF SingleInv, KernelTypes
<1>5. Position' /\ Round'
  <2>1. \A f \in Fds \ {Fd} : interest[f] # {} => interest'[f] # {}
    BY <1>2 DEF Spared
  <2>. QED
    BY <1>3, <2>1, NextRound DEF SingleInv, Lasting
<1>6. Announced'
  BY <1>2, NextAnnounced DEF SingleInv
<1>7. Counted'
  BY <1>3 DEF SingleInv, Counted
<1>8. ClosedAtEnd'
  <2> SUFFICES ASSUME program' # "epoll_server2", NEW d \in Conns, sock'[d] = "closed", peer'[d] # "rst",
                      program' = "myepoll" => index'[d] # 0
               PROVE  peer'[d] = "fin" /\ unread'[d] = 0
    BY DEF ClosedAtEnd
  <2>1. CASE d = c
    <3>1. AtEof(c) /\ peer[c] \in {"open", "fin", "rst"}
      BY <1>3, <2>1 DEF SingleInv, KernelTypes
    <3>. QED
      BY <1>3, <2>1, <3>1 DEF AtEof
  <2>2. CASE d # c
    BY <1>3, <1>4, <2>2 DEF SingleInv, ClosedAtEnd
  <2>. QED
    BY <2>1, <2>2
<1>. QED
  BY <1>2, <1>4, <1>5, <1>6, <1>7, <1>8

LEMMA CloseKeeps ==
  ASSUME SingleInv, ei \in DOMAIN evs, NEW c \in Conns, c = Fd, CloseFd(c), NextEvent,
         UNCHANGED <<nread, program, acceptFailed, index>>, pc # "aborted",
         program # "epoll_server2" => AtEof(c) \/ peer[c] = "rst",
         program # "myepoll"
  PROVE  SingleInv'
<1>1. Kernels' /\ Position' /\ Round' /\ Announced' /\ Counted' /\ ClosedAtEnd'
  BY CloseParts
<1>2. Table'
  BY DEF Table
<1>. QED
  BY <1>1, <1>2 DEF SingleInv, Kernels

\* Some of the data of the event's connection is read.
LEMMA ReadKeeps ==
  ASSUME SingleInv, pc = "read", NEW c, c = Fd, ReadSome(c), pc' \in {"read", "write"},
         UNCHANGED <<evs, ei, program, acceptFailed, ptr_cli, index>>
  PROVE  SingleInv'
<1>1. ei \in DOMAIN evs /\ c \in Conns /\ "IN" \in evs[ei].events
  BY DEF SingleInv, Round
<1>2. /\ Kernels' /\ \A f \in Fds : Spared(f)
      /\ \A d \in Conns : nread'[d] + unread'[d] = nread[d] + unread[d] /\ unread'[d] <= unread[d]
  BY <1>1, ReadKernel DEF SingleInv, Kernels
<1>3. UNCHANGED <<backlog, sock, nsent, peer, interest, ready>>
  BY DEF ReadSome, net
<1>4. Position' /\ Round'
  <2>1. \A f \in Fds : interest[f] # {} => interest'[f] # {}
    BY <1>3
  <2>. QED
    BY <1>1, <1>3, <2>1, StayRound DEF SingleInv, Lasting
<1>5. Announced'
  BY <1>2, StayAnnounced DEF SingleInv
<1>6. Counted'
  BY <1>2, <1>3 DEF SingleInv, Counted
<1>7. ClosedAtEnd'
  <2>1. \A d \in Conns : unread[d] = 0 => unread'[d] = 0
    BY <1>2 DEF Kernels, KernelTypes
  <2>. QED
    BY <1>3, <2>1 DEF SingleInv, ClosedAtEnd
<1>8. Table'
  BY <1>3 DEF SingleInv, Table, IndexesTrue, Clis
<1>. QED
  BY <1>2, <1>4, <1>5, <1>6, <1>7, <1>8 DEF SingleInv, Kernels

\* A connection is taken from the backlog and registered.
LEMMA AcceptParts ==
  ASSUME SingleInv, backlog # <<>>, NEW c, c = Head(backlog),
         sock' = [sock EXCEPT ![c] = "open"], backlog' = Tail(backlog),
         NEW E \in {{"IN"}, {"IN", "ET"}}, Register(c, E), program = "myepoll" => E = {"IN"},
         \A d \in Conns \ {c} : index'[d] = index[d],
         UNCHANGED <<nsent, peer, unread, nread, program>>
  PROVE  /\ Kernels' /\ Counted' /\ ClosedAtEnd'
         /\ c \in Conns /\ sock[c] = "backlog" /\ interest[c] = {} /\ interest'[c] = E /\ sock'[c] = "open"
         /\ \A d \in Conns \ {c} : sock'[d] = sock[d]
         /\ \A g \in Fds \ {c} : Spared(g)
         /\ "IN" \in Pending(c)' => c \in Elements(ready')
<1>1. /\ c \in Conns /\ sock[c] = "backlog" /\ interest[c] = {} /\ interest'[c] = E
      /\ Kernels' /\ \A g \in Fds \ {c} : Spared(g)
      /\ "IN" \in Pending(c)' => c \in Elements(ready')
  BY AcceptKernel DEF SingleInv, Kernels
<1>2. sock'[c] = "open" /\ \A d \in Conns \ {c} : sock'[d] = sock[d]
  BY <1>1 DEF SingleInv, KernelTypes
<1>3. Counted'
  BY DEF SingleInv, Counted
<1>4. ClosedAtEnd'
  BY <1>2 DEF SingleInv, ClosedAtEnd
<1>. QED
  BY <1>1, <1>2, <1>3, <1>4

-----------------------------------------------------------------------------
(* Steps that several of the programs have *)

SameTable == UNCHANGED <<program, ptr_cli, index>>

LEMMA SingleTypes ==
  ASSUME SingleInv
  PROVE  /\ Position /\ Kernels /\ Round
         /\ pc \in {"start", "add", "wait"} => evs = <<>>
         /\ pc = "accept" => ei \in DOMAIN evs /\ Fd = Listener
         /\ pc \in {"read", "write"} => ei \in DOMAIN evs /\ Fd \in Conns
         /\ pc = "read" => "IN" \in evs[ei].events
BY DEF SingleInv, Round, Kernels

LEMMA SomeEvent ==
  ASSUME SingleInv
  PROVE  /\ ei <= Len(evs) => ei \in DOMAIN evs
         /\ ~(ei > Len(evs)) => ei <= Len(evs)
BY EventFacts DEF SingleInv

\* The listening socket is made.
LEMMA ListenStepKeeps ==
  ASSUME SingleInv, pc = "start", Goto("add") \/ Goto("aborted"), SameTable,
         UNCHANGED <<backlog, sock, nsent, peer, interest, ready, unread, nread, acceptFailed>>
  PROVE  SingleInv'
<1>1. Quiet /\ UNCHANGED <<evs, ei>> /\ pc' \in {"add", "aborted"} /\ evs = <<>>
  BY SingleTypes DEF Quiet, SameTable, Goto
<1>. QED
  BY <1>1, StayKeeps

\* The listening socket is registered.
LEMMA AddKeeps ==
  ASSUME SingleInv, pc = "add", Goto("wait"), NEW E \in {{"IN"}, {"IN", "ET"}}, Register(Listener, E),
         program = "myepoll" => E = {"IN"}, SameTable, UNCHANGED <<net, unread, nread, acceptFailed>>
  PROVE  SingleInv'
<1>1. UNCHANGED <<evs, ei>> /\ pc' = "wait" /\ evs = <<>>
  BY SingleTypes DEF Goto
<1>2. E \in SUBSET {"IN", "OUT", "ET"} /\ "IN" \in E /\ "OUT" \notin E
  OBVIOUS
<1>3. /\ Kernels' /\ \A g \in Fds \ {Listener} : Spared(g)
      /\ "IN" \in Pending(Listener)' => Listener \in Elements(ready')
      /\ interest'[Listener] = E
  BY <1>2, ListenerApart, SingleTypes, RegisterKernel DEF SameTable
<1>4. UNCHANGED <<sock, nsent, peer, unread, nread>>
  BY DEF net
<1>5. Position' /\ Round'
  <2>1. \A f \in Fds : interest[f] # {} => interest'[f] # {}
    BY <1>2, <1>3 DEF Spared
  <2>. QED
    BY <1>1, <1>4, <2>1, SingleTypes, StayRound DEF Lasting, SameTable
<1>6. Announced'
  BY <1>1, <1>3, StayAnnounced DEF SingleInv
<1>7. Counted' /\ ClosedAtEnd' /\ Table'
  <2>1. \A d \in Conns : interest'[d] # {} => interest[d] # {}
    BY <1>3, ListenerApart DEF Spared
  <2>. QED
    BY <1>4, <2>1, DataSame DEF SameTable
<1>. QED
  BY <1>3, <1>5, <1>6, <1>7 DEF SingleInv, Kernels

\* epoll_wait.
LEMMA WaitKeeps == ASSUME SingleInv, ServerWait, SameTable PROVE SingleInv'
<1>1. /\ pc = "wait" /\ pc' = "event" /\ ei' = 1 /\ evs' = Reported /\ ready' = LeftReady
      /\ UNCHANGED <<net, interest, unread, nread, acceptFailed, program, ptr_cli, index>>
  BY DEF ServerWait, SameTable
<1>2. UNCHANGED <<backlog, sock, nsent, peer>>
  BY <1>1 DEF net
<1>3. /\ Kernels' /\ Hot \in Seq(Fds) /\ Distinct(Hot)
      /\ \A f \in Elements(Hot) : Pending(f) # {}
      /\ \A f \in Fds : Pending(f)' = Pending(f) /\ interest'[f] = interest[f]
      /\ \A f \in Elements(ready) : Pending(f) # {} =>
           f \in Elements(ready') \/ ("ET" \in interest[f] /\ f \in Elements(Hot))
  BY <1>1, SingleTypes, WaitKernel
<1>4. /\ Len(Hot) \in Nat /\ DOMAIN Hot = 1..Len(Hot) /\ DOMAIN evs' = 1..Len(Hot)
      /\ \A i \in 1..Len(Hot) : /\ Hot[i] \in Fds /\ Pending(Hot[i]) # {}
                                /\ evs'[i].fd = Hot[i] /\ evs'[i].events = Pending(Hot[i])
  <2>1. Len(Hot) \in Nat /\ DOMAIN Hot = 1..Len(Hot) /\ \A i \in 1..Len(Hot) : Hot[i] \in Fds
    BY <1>3
  <2>2. \A i \in 1..Len(Hot) : Pending(Hot[i]) # {}
    BY <1>3, <2>1 DEF Elements
  <2>3. evs' = [i \in 1..Len(Hot) |-> [fd |-> Hot[i], events |-> Pending(Hot[i])]]
    BY <1>1 DEF Reported
  <2>. QED
    BY <2>1, <2>2, <2>3
<1>5. ASSUME NEW f \in Fds, Pending(f) # {}
      PROVE  /\ f = Listener => Pending(f) = {"IN"}
             /\ "HUP" \in Pending(f) => peer[f] = "rst"
             /\ "IN" \in Pending(f) \/ (program = "epoll_server2" /\ Pending(f) = {"OUT"})
             /\ Pending(f) \in SUBSET Events /\ interest[f] # {}
  <2>1. CASE f = Listener
    <3>1. Pending(f) = {"IN"}
      BY <1>5, <2>1, SingleTypes, PendingListener
    <3>2. "IN" \in Events /\ "HUP" \notin Pending(f) /\ interest[f] # {}
      BY <1>5, <3>1 DEF Events, Pending
    <3>. QED
      BY <3>1, <3>2
  <2>2. CASE f \in Conns
    BY <1>5, <2>2, ListenerApart, SingleTypes, PendingConn
  <2>. QED
    BY <2>1, <2>2 DEF Fds
<1>6. Position'
  <2>1. \A i \in 1..Len(Hot) : [fd |-> Hot[i], events |-> Pending(Hot[i])] \in Event
    BY <1>4, <1>5 DEF Event
  <2>2. evs' \in [1..Len(Hot) -> Event]
    BY <1>1, <2>1 DEF Reported
  <2>3. evs' \in Seq(Event)
    BY <1>4, <2>2, SeqDef
  <2>. QED
    BY <1>1, <2>3 DEF Position
<1>7. Round'
  <2>1. \A i, k \in DOMAIN evs' : evs'[i].fd = evs'[k].fd => i = k
    BY <1>3, <1>4 DEF Distinct
  <2>2. ASSUME NEW i \in DOMAIN evs'
        PROVE  /\ evs'[i].fd = Listener => evs'[i].events = {"IN"}
               /\ "HUP" \in evs'[i].events => peer'[evs'[i].fd] = "rst"
               /\ "IN" \in evs'[i].events \/ (program' = "epoll_server2" /\ evs'[i].events = {"OUT"})
               /\ interest'[evs'[i].fd] # {}
    <3>1. PICK f \in Fds : f = Hot[i] /\ Pending(f) # {}
      BY <1>4
    <3>2. evs'[i].fd = f /\ evs'[i].events = Pending(f)
      BY <1>4, <3>1
    <3>. QED
      BY <1>1, <1>2, <1>5, <3>1, <3>2
  <2>. QED
    BY <1>1, <2>1, <2>2 DEF Round
<1>8. Announced'
  <2> SUFFICES ASSUME NEW f \in Fds, "IN" \in Pending(f)', f = Listener => ~acceptFailed'
               PROVE  f \in Elements(ready') \/ ("ET" \in interest'[f] /\ AtHand(f)')
    BY DEF Announced, Fds
  <2>1. "IN" \in Pending(f)
    BY <1>3
  <2>2. ~(\E i \in DOMAIN evs : i >= ei /\ evs[i].fd = f)
    BY <1>1, SingleTypes
  <2>3. f \in Elements(ready)
    BY <1>1, <2>1, <2>2 DEF SingleInv, Announced, AtHand
  <2>4. CASE "ET" \in interest[f] /\ f \in Elements(Hot)
    <3>1. PICK i \in 1..Len(Hot) : Hot[i] = f
      BY <1>4, <2>4 DEF Elements
    <3>2. i \in DOMAIN evs' /\ i >= ei' /\ evs'[i].fd = f
      BY <1>1, <1>4, <3>1
    <3>. QED
      BY <1>3, <2>4, <3>2 DEF AtHand
  <2>. QED
    BY <1>3, <2>1, <2>3, <2>4
<1>9. Counted' /\ ClosedAtEnd' /\ Table'
  BY <1>1, <1>2, DataSame
<1>. QED
  BY <1>3, <1>6, <1>7, <1>8, <1>9 DEF SingleInv, Kernels

\* accept until EAGAIN: one more connection, or the end of it.
LEMMA AcceptKeeps ==
  ASSUME SingleInv, program # "myepoll", ServerAccept, SameTable
  PROVE  SingleInv'
<1>1. pc = "accept" /\ nread' = nread /\ ei \in DOMAIN evs /\ Fd = Listener
  BY SingleTypes DEF ServerAccept
<1>2. CASE /\ backlog # <<>> /\ sock' = [sock EXCEPT ![Head(backlog)] = "open"]
           /\ backlog' = Tail(backlog) /\ Register(Head(backlog), {"IN", "ET"})
           /\ Goto("accept") /\ UNCHANGED <<listening, nsent, peer, unread, acceptFailed>>
  <2>1. PICK c : c = Head(backlog)
    OBVIOUS
  <2>2. Register(c, {"IN", "ET"}) /\ sock' = [sock EXCEPT ![c] = "open"] /\ backlog' = Tail(backlog)
    BY <1>2, <2>1
  <2>3. /\ Kernels' /\ Counted' /\ ClosedAtEnd'
        /\ c \in Conns /\ interest[c] = {} /\ interest'[c] = {"IN", "ET"}
        /\ \A g \in Fds \ {c} : Spared(g)
        /\ "IN" \in Pending(c)' => c \in Elements(ready')
    <3>1. {"IN", "ET"} \in {{"IN"}, {"IN", "ET"}}
      OBVIOUS
    <3>. QED
      BY <1>1, <1>2, <2>1, <2>2, <3>1, AcceptParts DEF SameTable
  <2>4. UNCHANGED <<evs, ei>> /\ pc' = "accept"
    BY <1>2 DEF Goto
  <2>5. Position' /\ Round'
    <3>1. \A f \in Fds : interest[f] # {} => interest'[f] # {}
      BY <2>3 DEF Spared
    <3>. QED
      BY <1>1, <1>2, <2>4, <3>1, SingleTypes, StayRound DEF Lasting, SameTable
  <2>6. Announced'
    BY <1>1, <1>2, <2>3, <2>4, StayAnnounced DEF SingleInv
  <2>7. Table'
    BY DEF Table, SameTable
  <2>. QED
    BY <2>3, <2>5, <2>6, <2>7 DEF SingleInv, Kernels
<1>3. CASE /\ acceptFailed' = (acceptFailed \/ backlog # <<>>) /\ NextEvent /\ UNCHANGED kernel
  <2>1. Quiet
    BY <1>1, <1>3, KernelQuiet DEF SameTable
  <2>2. "IN" \in Pending(Fd) /\ (Fd = Listener => ~acceptFailed') => Fd \in Elements(ready)
    BY <1>1, <1>3, SingleTypes, PendingListener
  <2>. QED
    BY <1>1, <1>3, <2>1, <2>2, SkipKeeps
<1>. QED
  BY <1>2, <1>3 DEF ServerAccept, AfterAccept

\* read when there is nothing left: the end of the stream, or EAGAIN.
LEMMA RestKeeps ==
  ASSUME SingleInv, program \notin {"myepoll", "epoll_server2"}, pc = "read", ReadRest(Fd), SameTable,
         UNCHANGED acceptFailed
  PROVE  SingleInv'
<1>1. PICK c : c = Fd
  OBVIOUS
<1>2. ei \in DOMAIN evs /\ c \in Conns
  BY <1>1, SingleTypes
<1>3. NextEvent /\ nread' = nread
  BY DEF ReadRest
<1>4. CASE AtEof(c)
  <2>1. CloseFd(c)
    BY <1>1, <1>4 DEF ReadRest
  <2>. QED
    BY <1>1, <1>2, <1>3, <1>4, <2>1, CloseKeeps DEF SameTable
<1>5. CASE ~AtEof(c)
  <2>1. unread[c] = 0 /\ UNCHANGED kernel
    BY <1>1, <1>5 DEF ReadRest
  <2>2. Quiet
    BY <1>3, <2>1, KernelQuiet DEF SameTable
  <2>3. "IN" \notin Pending(c)
    <3>1. ~(unread[c] > 0) /\ peer[c] = "open"
      BY <1>5, <2>1 DEF AtEof
    <3>. QED
      BY <1>2, <3>1, SingleTypes, InPending
  <2>. QED
    BY <1>1, <1>2, <1>3, <2>2, <2>3, SkipKeeps
<1>. QED
  BY <1>4, <1>5

-----------------------------------------------------------------------------
(* epoll_server.c and epoll-example.c *)

EdgeTriggered == program \in {"epoll_server", "epoll-example"}

LEMMA ServerListenKeeps == ASSUME SingleInv, ServerListen, SameTable PROVE SingleInv'
BY ListenStepKeeps DEF ServerListen

LEMMA ServerAddKeeps == ASSUME SingleInv, EdgeTriggered, ServerAdd, SameTable PROVE SingleInv'
<1>1. {"IN", "ET"} \in {{"IN"}, {"IN", "ET"}} /\ program # "myepoll"
  BY DEF EdgeTriggered
<1>. QED
  BY <1>1, AddKeeps DEF ServerAdd

LEMMA ServerEventKeeps == ASSUME SingleInv, EdgeTriggered, ServerEvent, SameTable PROVE SingleInv'
<1>1. pc = "event" /\ UNCHANGED <<nread, acceptFailed>> /\ program \notin {"epoll_server2", "myepoll"}
  BY DEF ServerEvent, EdgeTriggered
<1>2. CASE ei > Len(evs)
  <2>1. NextWait /\ Quiet
    BY <1>1, <1>2, KernelQuiet DEF ServerEvent, SameTable
  <2>. QED
    BY <1>1, <1>2, <2>1, NextWaitKeeps
<1>3. CASE ~(ei > Len(evs))
  <2>1. ei \in DOMAIN evs
    BY <1>3, SomeEvent
  <2>2. PICK d : d = Fd
    OBVIOUS
  <2>3. /\ d \in Fds /\ "IN" \in evs[ei].events
        /\ "HUP" \in evs[ei].events => d \in Conns /\ peer[d] = "rst"
    BY <1>1, <2>1, <2>2, AtEvent
  <2>4. CASE "HUP" \in evs[ei].events
    <3>1. NextEvent /\ CloseFd(d)
      BY <1>3, <2>2, <2>4 DEF ServerEvent
    <3>. QED
      BY <1>1, <2>1, <2>2, <2>3, <2>4, <3>1, CloseKeeps DEF SameTable
  <2>5. CASE "HUP" \notin evs[ei].events
    <3>1. Goto(IF d = Listener THEN "accept" ELSE "read") /\ UNCHANGED kernel
      BY <1>3, <2>2, <2>3, <2>5 DEF ServerEvent
    <3>2. Quiet /\ UNCHANGED <<evs, ei>>
      BY <1>1, <3>1, KernelQuiet DEF SameTable, Goto
    <3>3. \/ pc' = "accept" /\ Fd = Listener
          \/ pc' = "read" /\ Fd \in Conns
      BY <2>2, <2>3, <3>1 DEF Goto, Fds
    <3>. QED
      BY <1>1, <2>1, <2>3, <3>2, <3>3, StayKeeps
  <2>. QED
    BY <2>4, <2>5
<1>. QED
  BY <1>2, <1>3

LEMMA ServerReadKeeps ==
  ASSUME SingleInv, EdgeTriggered, ServerRead \/ ExampleRead, SameTable PROVE SingleInv'
<1>1. /\ pc = "read" /\ UNCHANGED acceptFailed
      /\ (ReadSome(Fd) /\ (Goto("write") \/ Goto("read"))) \/ ReadRest(Fd)
  BY DEF ServerRead, ExampleRead
<1>2. CASE ReadSome(Fd) /\ (Goto("write") \/ Goto("read"))
  <2>1. PICK c : c = Fd
    OBVIOUS
  <2>2. ReadSome(c) /\ pc' \in {"read", "write"} /\ UNCHANGED <<evs, ei>>
    BY <1>2, <2>1 DEF Goto
  <2>. QED
    BY <1>1, <2>1, <2>2, ReadKeeps DEF SameTable
<1>3. CASE ReadRest(Fd)
  BY <1>1, <1>3, RestKeeps DEF EdgeTriggered
<1>. QED
  BY <1>1, <1>2, <1>3

LEMMA ServerWriteKeeps == ASSUME SingleInv, EdgeTriggered, ServerWrite, SameTable PROVE SingleInv'
<1>1. /\ pc = "write" /\ UNCHANGED <<kernel, nread, acceptFailed, evs, ei>>
      /\ pc' \in {"read", "aborted"}
  BY DEF ServerWrite, AfterWrite, Goto
<1>2. Quiet
  BY <1>1, KernelQuiet DEF SameTable
<1>3. ei \in DOMAIN evs /\ Fd \in Conns
  BY <1>1, SingleTypes
<1>4. "IN" \in evs[ei].events
  <2>1. PICK d : d = Fd
    OBVIOUS
  <2>. QED
    BY <1>3, <2>1, AtEvent DEF EdgeTriggered
<1>. QED
  BY <1>1, <1>2, <1>3, <1>4, StayKeeps

-----------------------------------------------------------------------------
(* epoll_server2.c *)

IsServer2 == program = "epoll_server2"

LEMMA Server2EventKeeps == ASSUME SingleInv, IsServer2, Server2Event, SameTable PROVE SingleInv'
<1>1. pc = "event" /\ UNCHANGED <<kernel, nread, acceptFailed>>
  BY DEF Server2Event
<1>2. Quiet
  BY <1>1, KernelQuiet DEF SameTable
<1>3. CASE ei > Len(evs)
  <2>1. NextWait
    <3>1. ~(ei <= Len(evs))
      BY <1>3, EventFacts, SingleTypes
    <3>. QED
      BY <1>3, <3>1 DEF Server2Event
  <2>. QED
    BY <1>1, <1>2, <1>3, <2>1, NextWaitKeeps
<1>4. CASE ~(ei > Len(evs))
  <2>1. ei \in DOMAIN evs /\ ei <= Len(evs)
    BY <1>4, SomeEvent
  <2>2. PICK d : d = Fd
    OBVIOUS
  <2>3. /\ d \in Fds /\ d = Listener => "IN" \in evs[ei].events
        /\ "IN" \in evs[ei].events \/ evs[ei].events = {"OUT"}
    BY <2>1, <2>2, AtEvent
  <2>4. \/ Fd = Listener /\ Goto("accept")
        \/ Fd # Listener /\ "IN" \in evs[ei].events /\ Goto("read")
        \/ Fd # Listener /\ "OUT" \in evs[ei].events /\ Goto("write")
    <3>1. CASE Fd = Listener
      BY <1>4, <2>1, <3>1 DEF Server2Event
    <3>2. CASE Fd # Listener /\ "IN" \in evs[ei].events
      BY <1>4, <2>1, <3>2 DEF Server2Event
    <3>3. CASE Fd # Listener /\ "IN" \notin evs[ei].events
      BY <1>4, <2>1, <2>3, <3>3 DEF Server2Event
    <3>. QED
      BY <3>1, <3>2, <3>3
  <2>5. UNCHANGED <<evs, ei>> /\ pc' \in {"accept", "read", "write"}
    BY <2>4 DEF Goto
  <2>6. Fd # Listener => Fd \in Conns
    BY <2>2, <2>3, EventFacts, SingleTypes, <2>1 DEF Fds, Fd
  <2>7. /\ pc' = "accept" => Fd = Listener
        /\ pc' \in {"read", "write"} => Fd \in Conns
        /\ pc' = "read" => "IN" \in evs[ei].events
    BY <2>4, <2>6 DEF Goto
  <2>. QED
    BY <1>1, <1>2, <2>1, <2>5, <2>7, StayKeeps
<1>. QED
  BY <1>3, <1>4

\* When everything is read, the connection waits for room to write, or goes on
\* to it.
LEMMA Server2ReadKeeps == ASSUME SingleInv, IsServer2, Server2Read, SameTable PROVE SingleInv'
<1>1. pc = "read" /\ UNCHANGED acceptFailed
  BY DEF Server2Read
<1>2. PICK c : c = Fd
  OBVIOUS
<1>3. c \in Conns /\ ei \in DOMAIN evs /\ "IN" \in evs[ei].events
  BY <1>1, <1>2, SingleTypes
<1>4. CASE ReadSome(Fd) /\ Goto("read")
  <2>1. ReadSome(c) /\ pc' \in {"read", "write"} /\ UNCHANGED <<evs, ei>>
    BY <1>2, <1>4 DEF Goto
  <2>. QED
    BY <1>1, <1>2, <2>1, ReadKeeps DEF SameTable
<1>5. CASE /\ unread[Fd] = 0 /\ Register(Fd, NewInterest)
           /\ IF "OUT" \in evs[ei].events THEN Goto("write") ELSE NextEvent
           /\ UNCHANGED <<net, unread, nread>>
  <2>1. PICK E : E = NewInterest
    OBVIOUS
  <2>2. E \in SUBSET {"IN", "OUT", "ET"} /\ "IN" \in E
    <3>1. evs[ei].events \in SUBSET Events
      <4>1. evs[ei] \in Event
        BY <1>3, SingleTypes DEF Position
      <4>. QED
        BY <4>1 DEF Event
    <3>. QED
      BY <1>3, <2>1, <3>1 DEF NewInterest, Events
  <2>3. c \in Fds /\ sock[c] = "open" /\ c # Listener /\ Register(c, E) /\ interest[c] # {}
    BY <1>2, <1>3, <1>5, <2>1, AtEvent
  <2>4. /\ Kernels' /\ \A g \in Fds \ {c} : Spared(g)
        /\ "IN" \in Pending(c)' => c \in Elements(ready')
        /\ interest'[c] = E
    BY <1>5, <2>2, <2>3, SingleTypes, RegisterKernel DEF SameTable, IsServer2
  <2>5. UNCHANGED <<sock, nsent, peer, unread, nread>>
    BY <1>5 DEF net
  <2>6. \A f \in Fds : interest[f] # {} => interest'[f] # {}
    BY <2>2, <2>4 DEF Spared
  <2>7. Lasting
    BY <2>5 DEF Lasting, SameTable
  <2>8. Counted' /\ ClosedAtEnd' /\ Table'
    <3>1. \A d \in Conns : interest'[d] # {} => interest[d] # {}
      BY <2>3, <2>4, ListenerApart DEF Spared
    <3>. QED
      BY <2>5, <3>1, DataSame DEF SameTable
  <2>9. CASE Goto("write")
    <3>1. UNCHANGED <<evs, ei>> /\ pc' = "write"
      BY <2>9 DEF Goto
    <3>2. Position' /\ Round'
      BY <1>2, <1>3, <2>6, <2>7, <3>1, SingleTypes, StayRound
    <3>3. Announced'
      BY <1>1, <2>4, <3>1, StayAnnounced DEF SingleInv
    <3>. QED
      BY <2>4, <2>8, <3>2, <3>3 DEF SingleInv, Kernels
  <2>10. CASE NextEvent
    <3>1. Position' /\ Round'
      BY <1>3, <2>6, <2>7, <2>10, SingleTypes, NextRound
    <3>2. Announced'
      BY <1>1, <1>2, <1>3, <2>4, <2>10, NextAnnounced DEF SingleInv
    <3>. QED
      BY <2>4, <2>8, <3>1, <3>2 DEF SingleInv, Kernels
  <2>. QED
    BY <1>5, <2>9, <2>10
<1>. QED
  BY <1>4, <1>5 DEF Server2Read

LEMMA Server2WriteKeeps == ASSUME SingleInv, IsServer2, Server2Write, SameTable PROVE SingleInv'
<1>1. pc = "write" /\ UNCHANGED <<nread, acceptFailed>>
  BY DEF Server2Write
<1>2. PICK c : c = Fd
  OBVIOUS
<1>3. c \in Conns /\ ei \in DOMAIN evs
  BY <1>1, <1>2, SingleTypes
<1>4. CASE CloseFd(Fd) /\ NextEvent
  BY <1>1, <1>2, <1>3, <1>4, CloseKeeps DEF SameTable, IsServer2
<1>5. CASE Goto("aborted") /\ UNCHANGED kernel
  <2>1. Quiet /\ UNCHANGED <<evs, ei>> /\ pc' = "aborted"
    BY <1>1, <1>5, KernelQuiet DEF SameTable, Goto
  <2>. QED
    BY <1>1, <2>1, StayKeeps
<1>. QED
  BY <1>4, <1>5 DEF Server2Write

-----------------------------------------------------------------------------
(* myepoll.c *)

IsMyEpoll == program = "myepoll"

LEMMA FirstFreeIsFree == ASSUME FreeClis # {} PROVE FirstFree \in FreeClis
<1>1. FreeClis \in SUBSET Nat
  BY TableAssumption DEF FreeClis, Clis
<1>2. \E i \in FreeClis : \A k \in FreeClis : i <= k
  BY <1>1, Least
<1>. QED
  BY <1>2 DEF FirstFree

LEMMA MyEventKeeps ==
  ASSUME SingleInv, IsMyEpoll, MyEvent, SameTable
  PROVE  SingleInv'
<1>1. pc = "event" /\ UNCHANGED <<kernel, nread, acceptFailed>>
  BY DEF MyEvent
<1>2. Quiet
  BY <1>1, KernelQuiet DEF SameTable
<1>3. CASE ei > Len(evs) /\ NextWait
  BY <1>1, <1>2, <1>3, NextWaitKeeps
<1>4. CASE ei <= Len(evs) /\ Fd = Listener /\ Goto("accept")
  <2>1. ei \in DOMAIN evs /\ UNCHANGED <<evs, ei>> /\ pc' = "accept"
    BY <1>4, SomeEvent DEF Goto
  <2>. QED
    BY <1>1, <1>2, <1>4, <2>1, StayKeeps
<1>5. CASE ei <= Len(evs) /\ Fd # Listener /\ Goto("read")
  <2>1. ei \in DOMAIN evs /\ UNCHANGED <<evs, ei>> /\ pc' = "read"
    BY <1>5, SomeEvent DEF Goto
  <2>2. Fd \in Conns
    BY <1>5, <2>1, EventFacts, SingleTypes DEF Fds, Fd
  <2>3. "IN" \in evs[ei].events
    <3>1. PICK d : d = Fd
      OBVIOUS
    <3>. QED
      BY <2>1, <3>1, AtEvent DEF IsMyEpoll
  <2>. QED
    BY <1>1, <1>2, <2>1, <2>2, <2>3, StayKeeps
<1>. QED
  BY <1>3, <1>4, <1>5 DEF MyEvent

\* The listener is level-triggered: what is left in the backlog is still
\* announced.
LEMMA ListenerStays ==
  ASSUME SingleInv, IsMyEpoll, pc # "aborted", "IN" \in Pending(Listener), ~acceptFailed
  PROVE  Listener \in Elements(ready)
<1>1. "ET" \notin interest[Listener]
  BY ListenerApart DEF SingleInv, Kernel, IsMyEpoll
<1>. QED
  BY <1>1, ListenerApart DEF SingleInv, Announced

LEMMA ConnStays ==
  ASSUME SingleInv, IsMyEpoll, pc # "aborted", NEW c \in Conns, "IN" \in Pending(c)
  PROVE  c \in Elements(ready)
<1>1. "ET" \notin interest[c] /\ c # Listener /\ c \in Fds
  BY ListenerApart DEF SingleInv, Kernel, IsMyEpoll
<1>. QED
  BY <1>1 DEF SingleInv, Announced

LEMMA AcceptClientKeeps ==
  ASSUME SingleInv, IsMyEpoll, do_accept_client, UNCHANGED program
  PROVE  SingleInv'
<1>1. /\ pc = "accept" /\ NextEvent /\ UNCHANGED <<nsent, peer, unread, nread>>
      /\ ei \in DOMAIN evs /\ Fd = Listener
  BY SingleTypes DEF do_accept_client
<1>2. PICK c : c = Head(backlog)
  OBVIOUS
<1>3. CASE /\ backlog # <<>> /\ backlog' = Tail(backlog)
           /\ sock' = [sock EXCEPT ![c] = "closed"]
           /\ UNCHANGED <<interest, ready, ptr_cli, index, acceptFailed>>
  <2>1. c \in Conns /\ sock[c] = "backlog" /\ Kernels' /\ \A g \in Fds : Spared(g)
    BY <1>1, <1>2, <1>3, SingleTypes, RefuseKernel
  <2>2. sock'[c] = "closed" /\ \A d \in Conns \ {c} : sock'[d] = sock[d]
    BY <1>3, <2>1 DEF SingleInv, KernelTypes
  <2>3. Position' /\ Round'
    BY <1>1, <1>3, SingleTypes, NextRound DEF Lasting
  <2>4. Announced'
    <3>1. "IN" \in Pending(Listener)' /\ ~acceptFailed' => Listener \in Elements(ready')
      BY <1>1, <1>3, <2>1, ListenerApart, ListenerStays DEF Spared
    <3>. QED
      BY <1>1, <1>3, <2>1, <3>1, NextAnnounced DEF SingleInv
  <2>5. Counted'
    BY <1>1 DEF SingleInv, Counted
  <2>6. index[c] = 0
    BY <2>1 DEF SingleInv, Table, IsMyEpoll
  <2>7. ClosedAtEnd'
    BY <1>1, <1>3, <2>2, <2>6 DEF SingleInv, ClosedAtEnd, IsMyEpoll
  <2>8. Table'
    <3>1. \A i \in Clis : ptr_cli[i].status => ptr_cli[i].fd \in Conns \ {c}
      BY <2>1 DEF SingleInv, Table, IndexesTrue, IsMyEpoll
    <3>2. \A i \in Clis : ptr_cli[i].status =>
            sock'[ptr_cli[i].fd] = "open" /\ index[ptr_cli[i].fd] = i
      BY <2>2, <3>1 DEF SingleInv, Table, IndexesTrue, IsMyEpoll
    <3>3. \A d \in Conns : index[d] # 0 => sock'[d] \in {"open", "closed"}
      BY <2>2 DEF SingleInv, Table, IsMyEpoll
    <3>. QED
      BY <1>3, <3>2, <3>3 DEF SingleInv, Table, IndexesTrue, IsMyEpoll, Clis
  <2>. QED
    BY <2>1, <2>3, <2>4, <2>5, <2>7, <2>8 DEF SingleInv, Kernels
<1>4. CASE /\ backlog # <<>> /\ backlog' = Tail(backlog) /\ FreeClis # {}
           /\ sock' = [sock EXCEPT ![c] = "open"]
           /\ ptr_cli' = [ptr_cli EXCEPT ![FirstFree] = [status |-> TRUE, fd |-> c]]
           /\ index' = [index EXCEPT ![c] = FirstFree]
           /\ Register(c, {"IN"}) /\ UNCHANGED acceptFailed
  <2>1. PICK n : n = FirstFree
    OBVIOUS
  <2>2. n \in Clis /\ ~ptr_cli[n].status /\ n # 0
    BY <1>4, <2>1, FirstFreeIsFree, TableAssumption DEF FreeClis, Clis
  <2>3. /\ ptr_cli \in [Clis -> [status : BOOLEAN, fd : Conns \cup {NONE}]]
        /\ index \in [Conns -> Clis \cup {0}]
        /\ \A d \in Conns : index[d] # 0 => sock[d] \in {"open", "closed"}
        /\ \A d \in Conns : interest[d] # {} => index[d] \in Clis
        /\ \A i \in Clis : ptr_cli[i].status => ptr_cli[i].fd \in Conns
        /\ IndexesTrue
    BY DEF SingleInv, Table, IsMyEpoll
  <2>4. \A d \in Conns \ {c} : index'[d] = index[d]
    BY <1>4, <2>3
  <2>5. /\ Kernels' /\ Counted' /\ ClosedAtEnd'
        /\ c \in Conns /\ sock[c] = "backlog" /\ interest[c] = {} /\ sock'[c] = "open"
        /\ \A d \in Conns \ {c} : sock'[d] = sock[d]
        /\ \A g \in Fds \ {c} : Spared(g)
        /\ "IN" \in Pending(c)' => c \in Elements(ready')
    <3>1. {"IN"} \in {{"IN"}, {"IN", "ET"}}
      OBVIOUS
    <3>. QED
      BY <1>1, <1>2, <1>4, <2>4, <3>1, AcceptParts
  <2>6. Position' /\ Round'
    <3>1. \A f \in Fds \ {Fd} : interest[f] # {} => interest'[f] # {}
      BY <2>5 DEF Spared
    <3>. QED
      BY <1>1, <3>1, SingleTypes, NextRound DEF Lasting
  <2>7. Announced'
    <3>1. Spared(Listener)
      BY <2>5, ListenerApart
    <3>2. "IN" \in Pending(Listener)' /\ ~acceptFailed' => Listener \in Elements(ready')
      BY <1>1, <1>4, <3>1, ListenerStays DEF Spared
    <3>. QED
      BY <1>1, <1>4, <2>5, <3>2, NextAnnounced DEF SingleInv
  <2>8. Table'
    <3>1. /\ ptr_cli' \in [Clis -> [status : BOOLEAN, fd : Conns \cup {NONE}]]
          /\ ptr_cli'[n] = [status |-> TRUE, fd |-> c]
          /\ \A i \in Clis \ {n} : ptr_cli'[i] = ptr_cli[i]
      BY <1>4, <2>1, <2>2, <2>3, <2>5
    <3>2. index' \in [Conns -> Clis \cup {0}] /\ index'[c] = n
      BY <1>4, <2>1, <2>2, <2>3, <2>5
    <3>3. \A d \in Conns \ {c} : interest'[d] = interest[d]
      BY <2>5, ListenerApart DEF Spared
    <3>4. \A d \in Conns : index'[d] # 0 => sock'[d] \in {"open", "closed"}
      BY <2>3, <2>4, <2>5
    <3>5. \A d \in Conns : interest'[d] # {} => index'[d] \in Clis
      BY <2>2, <2>3, <2>4, <3>2, <3>3
    <3>6. \A i \in Clis : ptr_cli'[i].status => ptr_cli'[i].fd \in Conns
      BY <2>3, <2>5, <3>1
    <3>7. \A d \in Conns : interest'[d] # {} => ptr_cli'[index'[d]] = [status |-> TRUE, fd |-> d]
      <4> SUFFICES ASSUME NEW d \in Conns, interest'[d] # {}
                   PROVE  ptr_cli'[index'[d]] = [status |-> TRUE, fd |-> d]
        OBVIOUS
      <4>1. CASE d = c
        BY <3>1, <3>2, <4>1
      <4>2. CASE d # c
        <5>1. /\ interest[d] # {} /\ index'[d] = index[d] /\ index[d] \in Clis
              /\ ptr_cli[index[d]] = [status |-> TRUE, fd |-> d]
          BY <2>3, <2>4, <3>3, <4>2 DEF IndexesTrue
        <5>2. index[d] # n
          BY <2>2, <5>1
        <5>. QED
          BY <3>1, <5>1, <5>2
      <4>. QED
        BY <4>1, <4>2
    <3>8. \A i \in Clis : ptr_cli'[i].status =>
            sock'[ptr_cli'[i].fd] = "open" /\ index'[ptr_cli'[i].fd] = i
      <4> SUFFICES ASSUME NEW i \in Clis, ptr_cli'[i].status
                   PROVE  sock'[ptr_cli'[i].fd] = "open" /\ index'[ptr_cli'[i].fd] = i
        OBVIOUS
      <4>1. CASE i = n
        BY <2>5, <3>1, <3>2, <4>1
      <4>2. CASE i # n
        <5>1. /\ ptr_cli'[i] = ptr_cli[i] /\ ptr_cli[i].fd \in Conns
              /\ sock[ptr_cli[i].fd] = "open" /\ index[ptr_cli[i].fd] = i
          BY <2>3, <3>1, <4>2 DEF IndexesTrue
        <5>2. ptr_cli[i].fd # c
          BY <2>5, <5>1
        <5>. QED
          BY <2>4, <2>5, <5>1, <5>2
      <4>. QED
        BY <4>1, <4>2
    <3>. QED
      BY <3>1, <3>2, <3>4, <3>5, <3>6, <3>7, <3>8 DEF Table, IndexesTrue, Clis
  <2>. QED
    BY <2>5, <2>6, <2>7, <2>8 DEF SingleInv, Kernels
<1>5. CASE acceptFailed' = TRUE /\ UNCHANGED <<backlog, sock, interest, ready, ptr_cli, index>>
  <2>1. Quiet
    BY <1>1, <1>5 DEF Quiet
  <2>. QED
    BY <1>1, <1>5, <2>1, SkipKeeps
<1>. QED
  BY <1>2, <1>3, <1>4, <1>5 DEF do_accept_client

\* The index in the event leads to the client of the event.
LEMMA ReadDataKeeps ==
  ASSUME SingleInv, IsMyEpoll, do_read_data, UNCHANGED program
  PROVE  SingleInv'
<1>1. pc = "read" /\ UNCHANGED <<acceptFailed, index, errno>>
  BY DEF do_read_data
<1>2. PICK c : c = Fd
  OBVIOUS
<1>3. ei \in DOMAIN evs /\ c \in Conns /\ interest[c] # {} /\ sock[c] = "open"
  BY <1>1, <1>2, SingleTypes, AtEvent
<1>4. /\ ptr_cli \in [Clis -> [status : BOOLEAN, fd : Conns \cup {NONE}]]
      /\ index \in [Conns -> Clis \cup {0}]
      /\ \A d \in Conns : index[d] # 0 => sock[d] \in {"open", "closed"}
      /\ \A d \in Conns : interest[d] # {} => index[d] \in Clis
      /\ \A i \in Clis : ptr_cli[i].status => ptr_cli[i].fd \in Conns
      /\ IndexesTrue
  BY DEF SingleInv, Table, IsMyEpoll
<1>5. index[c] \in Clis /\ ptr_cli[index[c]] = [status |-> TRUE, fd |-> c] /\ ptr_cli[index[c]].fd = c
  BY <1>3, <1>4 DEF IndexesTrue
<1>6. CASE ReadSome(c) /\ Goto("write") /\ UNCHANGED ptr_cli
  <2>1. pc' = "write" /\ UNCHANGED <<evs, ei>>
    BY <1>6 DEF Goto
  <2>. QED
    BY <1>1, <1>2, <1>6, <2>1, ReadKeeps
<1>7. CASE Goto("aborted") /\ UNCHANGED <<kernel, nread, ptr_cli>>
  <2>1. Quiet /\ UNCHANGED <<evs, ei>> /\ pc' = "aborted"
    BY <1>1, <1>7, KernelQuiet DEF Goto
  <2>. QED
    BY <1>1, <2>1, StayKeeps
<1>8. CASE NextEvent /\ UNCHANGED <<kernel, ptr_cli, nread>>
  <2>1. Quiet
    BY <1>1, <1>8, KernelQuiet
  <2>2. "IN" \in Pending(c) => c \in Elements(ready)
    BY <1>1, <1>3, ConnStays
  <2>. QED
    BY <1>1, <1>2, <1>3, <1>8, <2>1, <2>2, SkipKeeps
<1>9. CASE AtEof(c) /\ NextEvent /\ CloseFd(c) /\ ptr_cli' = Freed(index[c]) /\ UNCHANGED nread
  <2>1. PICK n \in Clis : n = index[c]
    BY <1>5
  <2>2. /\ Kernels' /\ Position' /\ Round' /\ Announced' /\ Counted' /\ ClosedAtEnd'
        /\ sock'[c] = "closed" /\ interest'[c] = {}
        /\ \A d \in Conns \ {c} : sock'[d] = sock[d] /\ interest'[d] = interest[d]
    BY <1>1, <1>2, <1>3, <1>9, CloseParts
  <2>3. /\ ptr_cli' \in [Clis -> [status : BOOLEAN, fd : Conns \cup {NONE}]]
        /\ ~ptr_cli'[n].status /\ \A i \in Clis \ {n} : ptr_cli'[i] = ptr_cli[i]
    BY <1>4, <1>9, <2>1 DEF Freed
  <2>4. Table'
    <3>1. \A d \in Conns : index'[d] # 0 => sock'[d] \in {"open", "closed"}
      BY <1>1, <1>4, <2>2
    <3>2. \A d \in Conns : interest'[d] # {} =>
            index'[d] \in Clis /\ ptr_cli'[index'[d]] = [status |-> TRUE, fd |-> d]
      <4> SUFFICES ASSUME NEW d \in Conns, interest'[d] # {}
                   PROVE  index'[d] \in Clis /\ ptr_cli'[index'[d]] = [status |-> TRUE, fd |-> d]
        OBVIOUS
      <4>1. d # c /\ interest[d] # {}
        BY <2>2
      <4>2. index[d] \in Clis /\ ptr_cli[index[d]] = [status |-> TRUE, fd |-> d]
        BY <1>4, <4>1 DEF IndexesTrue
      <4>3. index[d] # n
        BY <1>5, <2>1, <4>1, <4>2
      <4>. QED
        BY <1>1, <2>3, <4>2, <4>3
    <3>3. \A i \in Clis : ptr_cli'[i].status =>
            /\ ptr_cli'[i].fd \in Conns
            /\ sock'[ptr_cli'[i].fd] = "open" /\ index'[ptr_cli'[i].fd] = i
      <4> SUFFICES ASSUME NEW i \in Clis, ptr_cli'[i].status
                   PROVE  /\ ptr_cli'[i].fd \in Conns
                          /\ sock'[ptr_cli'[i].fd] = "open" /\ index'[ptr_cli'[i].fd] = i
        OBVIOUS
      <4>1. i # n /\ ptr_cli'[i] = ptr_cli[i]
        BY <2>3
      <4>2. /\ ptr_cli[i].fd \in Conns /\ sock[ptr_cli[i].fd] = "open" /\ index[ptr_cli[i].fd] = i
        BY <1>4, <4>1 DEF IndexesTrue
      <4>3. ptr_cli[i].fd # c
        BY <2>1, <4>1, <4>2
      <4>. QED
        BY <1>1, <2>2, <4>1, <4>2, <4>3
    <3>4. index' \in [Conns -> Clis \cup {0}]
      BY <1>1, <1>4
    <3>. QED
      BY <2>3, <3>1, <3>2, <3>3, <3>4 DEF Table, IndexesTrue, Clis
  <2>. QED
    BY <2>2, <2>4 DEF SingleInv, Kernels
<1>. QED
  BY <1>2, <1>5, <1>6, <1>7, <1>8, <1>9 DEF do_read_data

LEMMA MyWriteKeeps ==
  ASSUME SingleInv, IsMyEpoll, MyWrite, UNCHANGED program
  PROVE  SingleInv'
<1>1. pc = "write" /\ NextEvent /\ UNCHANGED <<kernel, nread, acceptFailed, ptr_cli, index>>
  BY DEF MyWrite
<1>2. Quiet
  BY <1>1, KernelQuiet
<1>3. PICK c : c = Fd
  OBVIOUS
<1>4. c \in Conns /\ ei \in DOMAIN evs
  BY <1>1, <1>3, SingleTypes
<1>5. "IN" \in Pending(c) => c \in Elements(ready)
  BY <1>1, <1>4, ConnStays
<1>. QED
  BY <1>1, <1>2, <1>3, <1>4, <1>5, SkipKeeps

-----------------------------------------------------------------------------
(* The theorems about the single-threaded programs *)

LEMMA SingleInitially == Init => SingleInv
<1> SUFFICES ASSUME Init PROVE SingleInv
  OBVIOUS
<1>1. /\ pc = "start" /\ evs = <<>> /\ ei = 1 /\ backlog = <<>> /\ ready = <<>>
      /\ interest = [f \in Fds |-> {}] /\ sock = [c \in Conns |-> "new"]
      /\ unread = [c \in Conns |-> 0] /\ nsent = [c \in Conns |-> 0] /\ nread = [c \in Conns |-> 0]
      /\ peer = [c \in Conns |-> "open"]
      /\ ptr_cli = [i \in Clis |-> [status |-> FALSE, fd |-> NONE]] /\ index = [c \in Conns |-> 0]
  BY DEF Init, ServersInit, EpollInit, TableInit
<1>2. Position /\ KernelTypes
  BY <1>1 DEF Position, KernelTypes
<1>3. Kernel
  BY <1>1, ListenerApart DEF Kernel, Distinct, Elements
<1>4. Round
  BY <1>1 DEF Round
<1>5. Counted /\ ClosedAtEnd
  BY <1>1 DEF Counted, ClosedAtEnd
<1>6. Announced
  BY <1>1 DEF Announced, Pending
<1>7. Table
  BY <1>1, ListenerApart DEF Table, IndexesTrue
<1>. QED
  BY <1>2, <1>3, <1>4, <1>5, <1>6, <1>7 DEF SingleInv

LEMMA ClientsKeep ==
  ASSUME SingleInv, pc # "aborted", NEW c \in Conns, Client(c), UNCHANGED <<local, table, program>>
  PROVE  SingleInv'
<1>1. UNCHANGED <<pc, evs, ei, nread, acceptFailed, ptr_cli, index, program>>
  BY DEF local, table
<1>2. /\ Kernels' /\ UNCHANGED interest
      /\ \A f \in Fds : /\ "IN" \in Pending(f)' => f \in Elements(ready') \/ "IN" \in Pending(f)
                        /\ f \in Elements(ready) => f \in Elements(ready')
      /\ \A d \in Conns :
           /\ peer[d] = "rst" => peer'[d] = "rst"
           /\ sock[d] = "closed" => peer'[d] = peer[d] /\ unread'[d] = unread[d]
           /\ sock[d] \in {"open", "closed"} => sock'[d] = sock[d]
           /\ sock'[d] = "closed" => sock[d] = "closed"
           /\ peer'[d] # "rst" => unread'[d] - nsent'[d] = unread[d] - nsent[d]
  BY <1>1, SingleTypes, ClientKernel
<1>3. Position' /\ Round'
  <2>1. /\ Lasting /\ \A f \in Fds : interest[f] # {} => interest'[f] # {}
    BY <1>1, <1>2 DEF Lasting
  <2>2. pc' \in {"start", "add", "wait", "event", "accept", "read", "write", "aborted"}
    BY <1>1 DEF SingleInv, Position
  <2>. QED
    BY <1>1, <2>1, <2>2, SingleTypes, StayRound
<1>4. Announced'
  <2>1. \A f \in Fds : Spared(f) \/ ("IN" \in Pending(f)' => f \in Elements(ready'))
    BY <1>2 DEF Spared
  <2>. QED
    BY <1>1, <2>1, StayAnnounced DEF SingleInv
<1>5. Counted'
  <2> SUFFICES ASSUME NEW d \in Conns, peer'[d] # "rst" PROVE nread'[d] + unread'[d] = nsent'[d]
    BY DEF Counted
  <2>1. nread[d] + unread[d] = nsent[d]
    BY <1>2 DEF SingleInv, Counted
  <2>2. unread'[d] - nsent'[d] = unread[d] - nsent[d] /\ nread'[d] = nread[d]
    BY <1>1, <1>2
  <2>3. /\ unread[d] \in Nat /\ nsent[d] \in Nat /\ nread[d] \in Nat
        /\ unread'[d] \in Nat /\ nsent'[d] \in Nat
    BY <1>2 DEF Kernels, KernelTypes, SingleInv
  <2>. QED
    BY <2>1, <2>2, <2>3
<1>6. ClosedAtEnd'
  BY <1>1, <1>2 DEF SingleInv, ClosedAtEnd
<1>7. Table'
  <2>1. ASSUME program = "myepoll" PROVE IndexesTrue'
    BY <1>1, <1>2, <2>1 DEF SingleInv, Table, IndexesTrue, Clis
  <2>2. ASSUME program = "myepoll" PROVE \A d \in Conns : index'[d] # 0 => sock'[d] \in {"open", "closed"}
    BY <1>1, <1>2, <2>2 DEF SingleInv, Table
  <2>. QED
    BY <1>1, <1>2, <2>1, <2>2 DEF SingleInv, Table, Clis
<1>. QED
  BY <1>2, <1>3, <1>4, <1>5, <1>6, <1>7 DEF SingleInv, Kernels

LEMMA SingleStep == ASSUME SingleInv, SingleThreaded, [Next]_vars PROVE SingleInv'
<1>1. CASE Run("epoll_server", ServerLoop) /\ UNCHANGED <<pool, table>>
  <2>1. SameTable /\ EdgeTriggered /\ ServerLoop /\ program # "myepoll"
    BY <1>1 DEF SameTable, EdgeTriggered, Run, table
  <2>. QED
    BY <2>1, ServerListenKeeps, ServerAddKeeps, WaitKeeps, ServerEventKeeps, AcceptKeeps,
       ServerReadKeeps, ServerWriteKeeps DEF ServerLoop
<1>2. CASE Run("epoll-example", ExampleLoop) /\ UNCHANGED <<pool, table>>
  <2>1. SameTable /\ EdgeTriggered /\ ExampleLoop /\ program # "myepoll"
    BY <1>2 DEF SameTable, EdgeTriggered, Run, table
  <2>. QED
    BY <2>1, ServerListenKeeps, ServerAddKeeps, WaitKeeps, ServerEventKeeps, AcceptKeeps, ServerReadKeeps
       DEF ExampleLoop, ExampleListen, ExampleAdd, ExampleWait, ExampleEvent, ExampleAccept
<1>3. CASE Run("epoll_server2", Server2Loop) /\ UNCHANGED <<pool, table>>
  <2>1. SameTable /\ IsServer2 /\ Server2Loop /\ program # "myepoll"
    BY <1>3 DEF SameTable, IsServer2, Run, table
  <2>2. ASSUME Server2Listen PROVE SingleInv'
    BY <2>1, <2>2, ListenStepKeeps DEF Server2Listen
  <2>3. ASSUME Server2Add PROVE SingleInv'
    <3>1. {"IN"} \in {{"IN"}, {"IN", "ET"}}
      OBVIOUS
    <3>. QED
      BY <2>1, <2>3, <3>1, AddKeeps DEF Server2Add
  <2>. QED
    BY <2>1, <2>2, <2>3, WaitKeeps, Server2EventKeeps, AcceptKeeps, Server2ReadKeeps, Server2WriteKeeps
       DEF Server2Loop, Server2Accept
<1>4. CASE Run("myepoll", MyLoop) /\ UNCHANGED pool
  <2>1. IsMyEpoll /\ UNCHANGED program /\ MyLoop
    BY <1>4 DEF IsMyEpoll, Run
  <2>2. CASE (MyListen \/ MyAdd \/ MyWait \/ MyEvent) /\ UNCHANGED table
    <3>1. SameTable
      BY <2>1, <2>2 DEF SameTable, table
    <3>2. ASSUME MyListen PROVE SingleInv'
      BY <3>1, <3>2, ListenStepKeeps DEF MyListen, Server2Listen
    <3>3. ASSUME MyAdd PROVE SingleInv'
      <4>1. {"IN"} \in {{"IN"}, {"IN", "ET"}}
        OBVIOUS
      <4>. QED
        BY <3>1, <3>3, <4>1, AddKeeps DEF MyAdd, Server2Add
    <3>. QED
      BY <2>1, <2>2, <3>1, <3>2, <3>3, WaitKeeps, MyEventKeeps DEF MyWait
  <2>. QED
    BY <2>1, <2>2, AcceptClientKeeps, ReadDataKeeps, MyWriteKeeps DEF MyLoop
<1>5. CASE Run("epoll_poll", PoolMain) \/ \E j \in Threads : Run("epoll_poll", Worker(j))
  BY <1>5 DEF SingleThreaded, Run
<1>6. CASE Clients
  BY <1>6, ClientsKeep DEF Clients
<1>7. CASE UNCHANGED vars
  <2>1. /\ UNCHANGED <<pc, evs, ei, nread, acceptFailed, ptr_cli, index, program>>
        /\ UNCHANGED <<backlog, sock, nsent, peer, interest, ready, unread>>
    BY <1>7 DEF vars, kernel, net, local, table
  <2>2. Kernels' /\ \A f \in Fds : Spared(f)
    BY <2>1, SingleTypes, QuietKernel
  <2>3. Position'
    BY <2>1 DEF SingleInv, Position
  <2>4. Round'
    BY <2>1 DEF SingleInv, Round, Fd
  <2>5. Announced'
    BY <2>1 DEF SingleInv, Announced, AtHand, Pending, Mask
  <2>6. Counted' /\ ClosedAtEnd' /\ Table'
    BY <2>1, DataSame
  <2>. QED
    BY <2>2, <2>3, <2>4, <2>5, <2>6 DEF SingleInv, Kernels
<1>. QED
  BY <1>1, <1>2, <1>3, <1>4, <1>5, <1>6, <1>7 DEF Next, Main, Workers

\* The invariant of the four single-threaded programs, for every number of
\* connections, events per wait, bytes and places in the table.
THEOREM SingleInvariance == Spec => []SingleIInv
<1>1. Init => SingleIInv
  BY SingleInitially DEF SingleIInv
<1>2. SingleIInv /\ [Next]_vars => SingleIInv'
  <2>1. [Next]_vars => program' = program
    BY DEF Next, Main, Workers, Clients, Run, vars
  <2>. QED
    BY <2>1, SingleStep DEF SingleIInv, SingleThreaded
<1>. QED
  BY <1>1, <1>2, PTL DEF Spec

\* Whatever can be read or accepted is in the ready list, among the events of
\* this round or at hand, and the events of myepoll.c lead to their own client.
THEOREM EdgesAreKept == Spec => []NoLostEdge
<1>1. SingleIInv => NoLostEdge
  <2> SUFFICES ASSUME SingleIInv PROVE NoLostEdge
    OBVIOUS
  <2>1. program = "myepoll" => IndexesTrue
    BY DEF SingleIInv, SingleInv, SingleThreaded, Table
  <2>2. ASSUME SingleThreaded, NEW f \in Fds, "IN" \in Pending(f), f = Listener => ~acceptFailed,
               f \notin Elements(ready), pc # "aborted"
        PROVE  pc # "wait" /\ \E i \in ei..Len(evs) : evs[i].fd = f
    <3>1. SingleInv
      BY <2>2 DEF SingleIInv
    <3>2. AtHand(f)
      BY <2>2, <3>1 DEF SingleInv, Announced
    <3>3. PICK i \in DOMAIN evs : i >= ei /\ evs[i].fd = f
      BY <3>2 DEF AtHand
    <3>4. i \in ei..Len(evs)
      BY <3>1, <3>3, EventFacts, SingleTypes
    <3>5. pc # "wait"
      BY <3>1, <3>3, SingleTypes
    <3>. QED
      BY <3>3, <3>4, <3>5
  <2>. QED
    BY <2>1, <2>2 DEF NoLostEdge
<1>. QED
  BY <1>1, SingleInvariance, PTL

\* What a client sent before it ended the stream is read before the connection
\* is closed.
THEOREM ReadBeforeClose == Spec => []EverythingRead
<1>1. SingleIInv => EverythingRead
  <2> SUFFICES ASSUME SingleIInv, program \in {"epoll_server", "epoll-example", "myepoll"},
                      NEW c \in Conns, sock[c] = "closed", peer[c] # "rst",
                      program = "myepoll" => index[c] # 0
               PROVE  peer[c] = "fin" /\ nread[c] = nsent[c]
    BY DEF EverythingRead
  <2>1. SingleInv
    BY DEF SingleIInv, SingleThreaded
  <2>2. peer[c] = "fin" /\ unread[c] = 0 /\ nread[c] + unread[c] = nsent[c]
    BY <2>1 DEF SingleInv, ClosedAtEnd, Counted
  <2>3. nread[c] \in Nat
    BY <2>1 DEF SingleInv, KernelTypes
  <2>. QED
    BY <2>2, <2>3
<1>. QED
  BY <1>1, SingleInvariance, PTL

-----------------------------------------------------------------------------
(* The pool of workers (epoll_poll.c) *)

IsPool == program = "epoll_poll"

\* Nothing is handed out before the workers are started.
NotStarted ==
    pc \in {"start", "add"} => \A j \in Threads : wpc[j] = "none" /\ ~s_thread_para[j].busy

\* The slot that main is about to hand out is free.
SlotIsFree == pc = "hand" => slot \in Threads /\ ~s_thread_para[slot].busy

\* SlotHandoff for one worker.
Agree(j) ==
    /\ s_thread_para[j].busy <=> (~locked[j] \/ AtWork(j))
    /\ ~locked[j] => ~AtWork(j)
AllAgree == pc \notin {"start", "add", "aborted"} => \A j \in Threads : Agree(j)

PoolInv == ei \in Nat /\ PoolTypeOK /\ NotStarted /\ SlotIsFree /\ AllAgree
PoolIInv == IsPool => PoolInv

Slot == [busy : BOOLEAN, fd : Fds \cup {NONE}, ev : Nat]

LEMMA IdleIsSlot == Idle \in Slot /\ ~Idle.busy
BY DEF Idle, Slot

LEMMA PoolInitially == Init => PoolIInv
<1> SUFFICES ASSUME Init PROVE PoolInv
  BY DEF PoolIInv
<1>1. PoolTypeOK
  BY PoolAssumption, IdleIsSlot DEF Init, PoolInit, PoolTypeOK, Slot
<1>2. ei \in Nat /\ pc = "start"
  BY DEF Init, ServersInit
<1>3. NotStarted
  BY IdleIsSlot DEF Init, PoolInit, NotStarted
<1>. QED
  BY <1>1, <1>2, <1>3 DEF PoolInv, SlotIsFree, AllAgree

-----------------------------------------------------------------------------
(* The steps that leave the slots alone *)

\* Such a step keeps the invariant unless it starts the program or hands out.
LEMMA SlotsUntouched ==
  ASSUME PoolInv, ei' \in Nat, UNCHANGED <<s_thread_para, locked, wpc>>,
         clientFd' \in Fds \cup {NONE}, slot' \in 1..(THREAD_MAX + 1),
         \/ pc' = pc /\ slot' = slot
         \/ pc' = "aborted"
         \/ pc = "start" /\ pc' = "add"
         \/ pc \notin {"start", "add", "aborted"} /\ pc' \notin {"start", "add", "hand"}
  PROVE  PoolInv'
<1>1. PoolTypeOK'
  BY DEF PoolInv, PoolTypeOK, Threads
<1>2. NotStarted'
  BY DEF PoolInv, NotStarted, Threads
<1>3. SlotIsFree'
  BY DEF PoolInv, SlotIsFree, Threads
<1>4. AllAgree'
  BY DEF PoolInv, AllAgree, Agree, AtWork, Threads
<1>. QED
  BY <1>1, <1>2, <1>3, <1>4 DEF PoolInv

LEMMA QuietMain ==
  ASSUME PoolInv, PoolRegister \/ PoolWait \/ PoolEvent \/ PoolAccept
  PROVE  PoolInv'
<1>1. ei \in Nat /\ clientFd \in Fds \cup {NONE} /\ slot \in 1..(THREAD_MAX + 1)
  BY DEF PoolInv, PoolTypeOK
<1>2. CASE PoolRegister
  BY <1>1, <1>2, SlotsUntouched DEF PoolRegister, Goto, pool
<1>3. CASE PoolWait
  BY <1>1, <1>3, SlotsUntouched DEF PoolWait, ServerWait, pool
<1>4. CASE PoolEvent
  <2>1. ei' \in Nat /\ pc' \in {"wait", "accept", "event", "find"} /\ pc = "event"
    BY <1>1, <1>4 DEF PoolEvent, NextWait, NextEvent, Goto
  <2>2. clientFd' \in Fds \cup {NONE}
    BY <1>1, <1>4 DEF PoolEvent, Fds
  <2>. QED
    BY <1>1, <1>4, <2>1, <2>2, SlotsUntouched DEF PoolEvent
<1>5. CASE PoolAccept
  <2>1. ei' \in Nat /\ pc' \in {"event", "aborted"} /\ pc = "accept"
    BY <1>1, <1>5 DEF PoolAccept, NextEvent, Goto
  <2>. QED
    BY <1>1, <1>5, <2>1, SlotsUntouched DEF PoolAccept, pool
<1>. QED
  BY <1>2, <1>3, <1>4, <1>5

-----------------------------------------------------------------------------
(* The main thread *)

\* Every mutex is locked and every worker at its mutex when the pool starts.
LEMMA ListenKeeps == ASSUME PoolInv, PoolListen PROVE PoolInv'
<1>1. CASE pc' = "aborted"
  <2>1. UNCHANGED pool /\ ei' = ei
    BY <1>1 DEF PoolListen, Goto
  <2>. QED
    BY <1>1, <2>1, SlotsUntouched DEF PoolInv, PoolTypeOK, pool
<1>2. CASE pc' # "aborted"
  <2>1. pc = "add" /\ pc' = "wait" /\ ei' = ei /\ init_thread_pool
    BY <1>2 DEF PoolListen, Goto
  <2>2. PoolTypeOK'
    BY <2>1 DEF PoolInv, PoolTypeOK, init_thread_pool, Threads
  <2>3. \A j \in Threads : wpc'[j] = "lock" /\ locked'[j] /\ ~s_thread_para'[j].busy
    BY <2>1 DEF PoolInv, NotStarted, init_thread_pool
  <2>4. AllAgree'
    BY <2>3 DEF AllAgree, Agree, AtWork, Threads
  <2>. QED
    BY <2>1, <2>2, <2>4 DEF PoolInv, NotStarted, SlotIsFree
<1>. QED
  BY <1>1, <1>2

\* A slot whose flag was seen free stays free until main hands it out.
LEMMA FindKeeps == ASSUME PoolInv, PoolFind PROVE PoolInv'
<1>1. /\ pc = "find" /\ UNCHANGED <<s_thread_para, locked, wpc>>
      /\ ei \in Nat /\ clientFd \in Fds \cup {NONE} /\ slot \in 1..(THREAD_MAX + 1)
  BY DEF PoolFind, PoolInv, PoolTypeOK
<1>2. CASE slot > THREAD_MAX
  <2>1. pc' = "event" /\ ei' = ei + 1 /\ clientFd' = NONE /\ slot' = 1
    BY <1>2 DEF PoolFind, NextEvent, NoClient
  <2>. QED
    BY <1>1, <2>1, PoolAssumption, SlotsUntouched
<1>3. CASE ~(slot > THREAD_MAX) /\ s_thread_para[slot].busy
  <2>1. pc' = "find" /\ ei' = ei /\ clientFd' = clientFd /\ slot' = slot + 1
    BY <1>3 DEF PoolFind, Goto
  <2>2. slot' \in 1..(THREAD_MAX + 1)
    BY <1>1, <1>3, <2>1, PoolAssumption
  <2>. QED
    BY <1>1, <2>1, <2>2, SlotsUntouched
<1>4. CASE ~(slot > THREAD_MAX) /\ ~s_thread_para[slot].busy
  <2>1. pc' = "hand" /\ ei' = ei /\ clientFd' = clientFd /\ slot' = slot
    BY <1>4 DEF PoolFind, Goto
  <2>2. slot \in Threads
    BY <1>1, <1>4, PoolAssumption DEF Threads
  <2>3. PoolTypeOK'
    BY <1>1, <2>1 DEF PoolInv, PoolTypeOK, Threads
  <2>4. SlotIsFree'
    BY <1>1, <1>4, <2>1, <2>2 DEF SlotIsFree, Threads
  <2>5. AllAgree'
    BY <1>1, <2>1 DEF PoolInv, AllAgree, Agree, AtWork, Threads
  <2>. QED
    BY <1>1, <2>1, <2>3, <2>4, <2>5 DEF PoolInv, NotStarted
<1>. QED
  BY <1>2, <1>3, <1>4

LEMMA HandKeeps == ASSUME PoolInv, PoolHand PROVE PoolInv'
<1> DEFINE para == [busy |-> TRUE, fd |-> clientFd, ev |-> ei]
<1>1. /\ pc = "hand" /\ pc' = "event" /\ ei' = ei + 1 /\ ei \in Nat
      /\ s_thread_para' = [s_thread_para EXCEPT ![slot] = para]
      /\ locked' = [locked EXCEPT ![slot] = FALSE]
      /\ wpc' = wpc /\ clientFd' = NONE /\ slot' = 1
  BY DEF PoolHand, PoolInv, NextEvent, NoClient
<1>2. slot \in Threads /\ ~s_thread_para[slot].busy /\ \A j \in Threads : Agree(j)
  BY <1>1 DEF PoolInv, SlotIsFree, AllAgree
<1>3. s_thread_para \in [Threads -> Slot] /\ locked \in [Threads -> BOOLEAN] /\ para \in Slot
  BY DEF PoolInv, PoolTypeOK, Slot
<1>4. para.busy
  OBVIOUS
<1>. HIDE DEF para
<1>5. PoolTypeOK'
  <2>1. s_thread_para' \in [Threads -> Slot] /\ locked' \in [Threads -> BOOLEAN]
    BY <1>1, <1>3
  <2>. QED
    BY <1>1, <2>1, PoolAssumption DEF PoolInv, PoolTypeOK, Slot, Threads
<1>6. /\ s_thread_para'[slot].busy /\ ~locked'[slot]
      /\ \A j \in Threads \ {slot} : s_thread_para'[j] = s_thread_para[j] /\ locked'[j] = locked[j]
  BY <1>1, <1>2, <1>3, <1>4
<1>7. AllAgree'
  <2> SUFFICES ASSUME NEW j \in Threads PROVE Agree(j)'
    BY DEF AllAgree, Threads
  <2>1. CASE j = slot
    BY <1>1, <1>2, <1>6, <2>1 DEF Agree, AtWork
  <2>2. CASE j # slot
    BY <1>1, <1>2, <1>6, <2>2 DEF Agree, AtWork
  <2>. QED
    BY <2>1, <2>2
<1>. QED
  BY <1>1, <1>5, <1>7 DEF PoolInv, NotStarted, SlotIsFree

-----------------------------------------------------------------------------
(* The workers *)

\* A step of worker j that resets its slot or not, and leaves main alone.
LEMMA WorkerStep ==
  ASSUME PoolInv, pc # "aborted", NEW j \in Threads, wpc[j] # "none",
         NEW sl \in Slot, s_thread_para' = [s_thread_para EXCEPT ![j] = sl],
         NEW lk \in BOOLEAN, locked' = [locked EXCEPT ![j] = lk],
         NEW at \in {"lock", "respond", "eof", "forget", "free"}, wpc' = [wpc EXCEPT ![j] = at],
         sl.busy => s_thread_para[j].busy,
         sl.busy <=> (~lk \/ at # "lock"), ~lk => at = "lock",
         UNCHANGED <<pc, ei, clientFd, slot>>
  PROVE  PoolInv'
<1>1. /\ s_thread_para \in [Threads -> Slot] /\ locked \in [Threads -> BOOLEAN]
      /\ wpc \in [Threads -> {"none", "lock", "respond", "eof", "forget", "free"}]
  BY DEF PoolInv, PoolTypeOK, Slot
<1>2. PoolTypeOK'
  <2>1. /\ s_thread_para' \in [Threads -> Slot] /\ locked' \in [Threads -> BOOLEAN]
        /\ wpc' \in [Threads -> {"none", "lock", "respond", "eof", "forget", "free"}]
    BY <1>1
  <2>. QED
    BY <2>1 DEF PoolInv, PoolTypeOK, Slot, Threads
<1>3. /\ s_thread_para'[j] = sl /\ locked'[j] = lk /\ wpc'[j] = at
      /\ \A i \in Threads \ {j} : /\ s_thread_para'[i] = s_thread_para[i]
                                  /\ locked'[i] = locked[i] /\ wpc'[i] = wpc[i]
  BY <1>1
<1>4. pc \notin {"start", "add", "aborted"} /\ \A i \in Threads : Agree(i)
  BY DEF PoolInv, NotStarted, AllAgree
<1>5. AllAgree'
  <2> SUFFICES ASSUME NEW i \in Threads PROVE Agree(i)'
    BY DEF AllAgree, Threads
  <2>1. CASE i = j
    BY <1>3, <2>1 DEF Agree, AtWork
  <2>2. CASE i # j
    BY <1>3, <1>4, <2>2 DEF Agree, AtWork
  <2>. QED
    BY <2>1, <2>2
<1>6. SlotIsFree'
  <2> SUFFICES ASSUME pc = "hand" PROVE slot \in Threads /\ ~s_thread_para'[slot].busy
    BY DEF SlotIsFree, Threads
  <2>1. slot \in Threads /\ ~s_thread_para[slot].busy
    BY DEF PoolInv, SlotIsFree
  <2>2. CASE slot = j
    BY <1>3, <2>1, <2>2
  <2>3. CASE slot # j
    BY <1>3, <2>1, <2>3
  <2>. QED
    BY <2>1, <2>2, <2>3
<1>. QED
  BY <1>2, <1>4, <1>5, <1>6 DEF PoolInv, NotStarted

LEMMA WorkerKeeps == ASSUME PoolInv, NEW j \in Threads, Worker(j) PROVE PoolInv'
<1> DEFINE sl == s_thread_para[j]
           lk == locked[j]
<1>1. /\ s_thread_para \in [Threads -> Slot] /\ locked \in [Threads -> BOOLEAN]
      /\ wpc \in [Threads -> {"none", "lock", "respond", "eof", "forget", "free"}]
      /\ ei \in Nat /\ clientFd \in Fds \cup {NONE} /\ slot \in 1..(THREAD_MAX + 1)
  BY DEF PoolInv, PoolTypeOK, Slot
<1>2. /\ sl \in Slot /\ lk \in BOOLEAN
      /\ s_thread_para = [s_thread_para EXCEPT ![j] = sl] /\ locked = [locked EXCEPT ![j] = lk]
  BY <1>1
<1>3. pc # "aborted" /\ wpc[j] # "none"
  BY DEF Worker, WorkerRead, WorkerRespond, WorkerEof, WorkerForget, WorkerFree
<1>4. Agree(j)
  BY <1>3 DEF PoolInv, NotStarted, AllAgree
<1>5. CASE WorkerRead(j)
  <2>1. /\ wpc[j] = "lock" /\ ~lk
        /\ locked' = [locked EXCEPT ![j] = TRUE] /\ s_thread_para' = s_thread_para
        /\ UNCHANGED <<pc, ei, clientFd, slot>>
    BY <1>5 DEF WorkerRead, Taken, Same
  <2>2. PICK at \in {"respond", "eof", "free"} : wpc' = [wpc EXCEPT ![j] = at]
    BY <1>5 DEF WorkerRead, Move
  <2>3. sl.busy
    BY <1>4, <2>1 DEF Agree
  <2>. HIDE DEF sl, lk
  <2>. QED
    BY <1>2, <1>3, <2>1, <2>2, <2>3, WorkerStep DEF sl
<1>6. CASE WorkerRespond(j)
  <2>1. CASE pc' = "aborted"
    <3>1. UNCHANGED <<s_thread_para, locked, wpc, ei, clientFd, slot>>
      BY <1>3, <1>6, <2>1 DEF WorkerRespond
    <3>. QED
      BY <1>1, <2>1, <3>1, SlotsUntouched
  <2>2. CASE pc' # "aborted"
    <3>1. /\ wpc[j] = "respond" /\ wpc' = [wpc EXCEPT ![j] = "lock"]
          /\ s_thread_para' = [s_thread_para EXCEPT ![j] = Idle]
          /\ UNCHANGED <<pc, ei, locked, clientFd, slot>>
      BY <1>6, <2>2 DEF WorkerRespond, Move
    <3>2. lk
      BY <1>4, <3>1 DEF Agree, AtWork
    <3>. HIDE DEF sl, lk
    <3>. QED
      BY <1>2, <1>3, <3>1, <3>2, IdleIsSlot, WorkerStep
  <2>. QED
    BY <2>1, <2>2
<1>7. CASE WorkerEof(j) \/ WorkerForget(j)
  <2>1. /\ wpc[j] \in {"eof", "forget"} /\ UNCHANGED <<s_thread_para, locked>>
        /\ UNCHANGED <<pc, ei, clientFd, slot>>
    BY <1>7 DEF WorkerEof, WorkerForget, Same
  <2>2. PICK at \in {"forget", "free"} : wpc' = [wpc EXCEPT ![j] = at]
    BY <1>7 DEF WorkerEof, WorkerForget, Move
  <2>3. sl.busy /\ lk
    BY <1>4, <2>1 DEF Agree, AtWork
  <2>. HIDE DEF sl, lk
  <2>. QED
    BY <1>2, <1>3, <2>1, <2>2, <2>3, WorkerStep DEF sl
<1>8. CASE WorkerFree(j)
  <2>1. /\ wpc[j] = "free" /\ wpc' = [wpc EXCEPT ![j] = "lock"]
        /\ s_thread_para' = [s_thread_para EXCEPT ![j] = Idle]
        /\ UNCHANGED <<pc, ei, locked, clientFd, slot>>
    BY <1>8 DEF WorkerFree, Move, Same
  <2>2. lk
    BY <1>4, <2>1 DEF Agree, AtWork
  <2>. HIDE DEF sl, lk
  <2>. QED
    BY <1>2, <1>3, <2>1, <2>2, IdleIsSlot, WorkerStep
<1>. QED
  BY <1>5, <1>6, <1>7, <1>8 DEF Worker

-----------------------------------------------------------------------------
(* The theorem *)

\* The flag and the mutex of every slot agree, for every number of workers and
\* clients: no slot is handed out twice, no unlock is lost and no worker works
\* on a slot that is free (epoll_poll.c).
THEOREM HandoffIsSound == Spec => []SlotHandoff
<1>1. Init => PoolIInv
  BY PoolInitially
<1>2. PoolIInv /\ [Next]_vars => PoolIInv'
  <2> SUFFICES ASSUME PoolIInv, [Next]_vars, IsPool' PROVE PoolInv'
    BY DEF PoolIInv
  <2>1. program' = program
    BY DEF Next, Main, Workers, Clients, Run, vars
  <2>2. PoolInv /\ program = "epoll_poll"
    BY <2>1 DEF PoolIInv, IsPool
  <2>3. CASE Main
    <3>1. PoolMain
      BY <2>2, <2>3 DEF Main, Run
    <3>. QED
      BY <2>2, <3>1, QuietMain, ListenKeeps, FindKeeps, HandKeeps DEF PoolMain
  <2>4. ASSUME NEW j \in Threads, Workers(j) PROVE PoolInv'
    BY <2>2, <2>4, WorkerKeeps DEF Workers, Run
  <2>5. CASE Clients \/ UNCHANGED vars
    <3>1. UNCHANGED <<pc, ei, s_thread_para, locked, wpc, clientFd, slot>>
      BY <2>5 DEF Clients, vars, local, pool
    <3>2. ei \in Nat /\ clientFd \in Fds \cup {NONE} /\ slot \in 1..(THREAD_MAX + 1)
      BY <2>2 DEF PoolInv, PoolTypeOK
    <3>. QED
      BY <2>2, <3>1, <3>2, SlotsUntouched
  <2>. QED
    BY <2>3, <2>4, <2>5 DEF Next
<1>3. PoolIInv => SlotHandoff
  BY DEF PoolIInv, IsPool, PoolInv, AllAgree, Agree, SlotHandoff
<1>. QED
  BY <1>1, <1>2, <1>3, PTL DEF Spec
=============================================================================
