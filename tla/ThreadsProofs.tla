---------------------------- MODULE ThreadsProofs ----------------------------
(***************************************************************************)
(* Safety of the programs with threads of eleutheria: the sleeping barber  *)
(* for any number of customers and seats, the multiplication of matrices   *)
(* of any sizes.                                                           *)
(***************************************************************************)
EXTENDS SleepBarber, MatrixMul, FiniteSetTheorems, TLAPS

\* seasem is free only when no thread is inside.
LockFree == seasem = 1 => ~BarberInside /\ \A c \in Customers : ~Inside(c)

\* A value that was read from freeseats is still right when it is written
\* back.
ReadsFresh ==
    /\ bpc = "write" => btmp = freeseats
    /\ \A c \in Customers : cpc[c] = "take" => ctmp[c] = freeseats /\ freeseats > 0

IInv == TypeOK /\ SeatExclusion /\ LockFree /\ ReadsFresh /\ SeatsConserved

USE BarberAssumption

LEMMA InitIInv == Init => IInv
BY DEF Init, IInv, TypeOK, SeatExclusion, LockFree, ReadsFresh, SeatsConserved, BarberInside, Inside

LEMMA BarberStep == IInv /\ Barber => IInv'
<1> SUFFICES ASSUME IInv, Barber PROVE IInv'
  OBVIOUS
<1> USE DEF IInv, TypeOK, SeatExclusion, LockFree, ReadsFresh, SeatsConserved, BarberInside, Inside
<1>1. CASE BarSleep
  BY <1>1 DEF BarSleep
<1>2. CASE BarEnter
  BY <1>2 DEF BarEnter
<1>3. CASE BarRead
  BY <1>3 DEF BarRead
<1>4. CASE BarWrite
  BY <1>4 DEF BarWrite
<1>5. CASE BarCall
  BY <1>5 DEF BarCall
<1>6. CASE BarLeave
  BY <1>6 DEF BarLeave
<1>. QED
  BY <1>1, <1>2, <1>3, <1>4, <1>5, <1>6 DEF Barber

LEMMA CustomerStep == ASSUME NEW c \in Customers PROVE IInv /\ Customer(c) => IInv'
<1> SUFFICES ASSUME IInv, Customer(c) PROVE IInv'
  OBVIOUS
<1> USE DEF IInv, TypeOK, SeatExclusion, LockFree, ReadsFresh, SeatsConserved, BarberInside, Inside
<1>1. CASE CusEnter(c)
  BY <1>1 DEF CusEnter
<1>2. CASE CusCheck(c)
  BY <1>2 DEF CusCheck
<1>3. CASE CusTake(c)
  BY <1>3 DEF CusTake
<1>4. CASE CusWake(c)
  BY <1>4 DEF CusWake
<1>5. CASE CusLeave(c)
  BY <1>5 DEF CusLeave
<1>6. CASE CusWait(c)
  BY <1>6 DEF CusWait
<1>7. CASE CusTurn(c)
  BY <1>7 DEF CusTurn
<1>. QED
  BY <1>1, <1>2, <1>3, <1>4, <1>5, <1>6, <1>7 DEF Customer

LEMMA StutterIInv == IInv /\ UNCHANGED vars => IInv'
BY DEF IInv, TypeOK, SeatExclusion, LockFree, ReadsFresh, SeatsConserved, BarberInside, Inside, vars

LEMMA Invariance == Spec => []IInv
<1>1. IInv /\ [Next]_vars => IInv'
  BY BarberStep, CustomerStep, StutterIInv DEF Next
<1>. QED
  BY InitIInv, <1>1, PTL DEF Spec

\* The semaphores and the seat count stay in range: freeseats never wraps
\* below zero and never exceeds MAX_FREESEATS.
THEOREM TypeCorrect == Spec => []TypeOK
BY Invariance, PTL DEF IInv

\* seasem keeps the barber and the customers out of each other's way.
THEOREM MutualExclusion == Spec => []SeatExclusion
BY Invariance, PTL DEF IInv

\* No seat is lost or invented.
THEOREM Conservation == Spec => []SeatsConserved
BY Invariance, PTL DEF IInv

-----------------------------------------------------------------------------
(* Haircuts: the barber's calls match the customers that took a seat. *)

LEMMA SeatedFinite == IsFiniteSet(Seated)
BY BarberAssumption, FS_Subset DEF Seated

LEMMA InitCallsMatch == Init => CallsMatch
<1> SUFFICES ASSUME Init PROVE CallsMatch
  OBVIOUS
<1>1. Seated = {}
  BY DEF Init, Seated
<1>. QED
  BY <1>1, FS_EmptySet DEF Init, CallsMatch

LEMMA BarberCalls == IInv /\ CallsMatch /\ Barber => CallsMatch'
<1> SUFFICES ASSUME IInv, CallsMatch, Barber PROVE CallsMatch'
  OBVIOUS
<1>1. Seated' = Seated
  BY DEF Barber, BarSleep, BarEnter, BarRead, BarWrite, BarCall, BarLeave, Seated
<1>2. Cardinality(Seated) \in Nat
  BY SeatedFinite, FS_CardinalityType
<1>. QED
  BY <1>1, <1>2 DEF Barber, BarSleep, BarEnter, BarRead, BarWrite, BarCall, BarLeave,
     CallsMatch, IInv, TypeOK, ReadsFresh

LEMMA CustomerCalls ==
  ASSUME NEW c \in Customers
  PROVE  IInv /\ CallsMatch /\ Customer(c) => CallsMatch'
<1> SUFFICES ASSUME IInv, CallsMatch, Customer(c) PROVE CallsMatch'
  OBVIOUS
<1>2. Cardinality(Seated) \in Nat
  BY SeatedFinite, FS_CardinalityType
<1>3. CASE CusTake(c)
  <2>1. Seated' = Seated \cup {c} /\ c \notin Seated
    BY <1>3 DEF CusTake, Seated, IInv, TypeOK
  <2>2. Cardinality(Seated') = Cardinality(Seated) + 1
    BY <2>1, SeatedFinite, FS_AddElement
  <2>. QED
    BY <1>2, <1>3, <2>2 DEF CusTake, CallsMatch, IInv, TypeOK, ReadsFresh
<1>4. CASE CusWait(c)
  <2>1. Seated' = Seated \ {c} /\ c \in Seated
    BY <1>4 DEF CusWait, Seated, IInv, TypeOK
  <2>2. Cardinality(Seated') = Cardinality(Seated) - 1
    BY <2>1, SeatedFinite, FS_RemoveElement
  <2>. QED
    BY <1>2, <1>4, <2>2 DEF CusWait, CallsMatch, IInv, TypeOK
<1>5. CASE CusEnter(c) \/ CusCheck(c) \/ CusWake(c) \/ CusLeave(c) \/ CusTurn(c)
  <2>1. Seated' = Seated
    BY <1>5 DEF CusEnter, CusCheck, CusWake, CusLeave, CusTurn, Seated, IInv, TypeOK
  <2>2. UNCHANGED <<barsem, freeseats, bpc>>
    BY <1>5 DEF CusEnter, CusCheck, CusWake, CusLeave, CusTurn
  <2>. QED
    BY <2>1, <2>2 DEF CallsMatch
<1>. QED
  BY <1>3, <1>4, <1>5 DEF Customer

\* As many calls are made as seats were taken, so a customer that waits for
\* the barber is owed a call.
THEOREM CallsMatchSeats == Spec => []CallsMatch
<1>1. IInv /\ CallsMatch /\ [Next]_vars => CallsMatch'
  BY BarberCalls, CustomerCalls DEF Next, vars, CallsMatch, Seated
<1>. QED
  BY Invariance, InitCallsMatch, <1>1, PTL DEF Spec
-----------------------------------------------------------------------------
(* Matrix multiplication: the cells are given out row by row, each is       *)
(* summed by its own thread, and main waits for all of them.                *)

\* Cell x comes before cell y, row by row.
Before(x, y) == x[1] < y[1] \/ (x[1] = y[1] /\ x[2] < y[2])

\* The threads that were started are those of the cells main has passed.
CreatedInOrder ==
    /\ mmpc \in {"read", "create"} => \A x \in Cells : mulpc[x] # "none" <=> Before(x, mm_ij)
    /\ mmpc \in {"join", "print"} => \A x \in Cells : mulpc[x] # "none"

\* A thread has its place in v, which is filled in, and its sum has as many
\* terms as it says.
ThreadSound(x) ==
    /\ mulpc[x] # "none" => arg[x] = Place(x) /\ v[arg[x]] # Unset
    /\ mulpc[x] \in {"none", "row", "col", "clear"} => term[x] = 0
    /\ mulpc[x] = "add" => term[x] \in Terms
    /\ mulpc[x] = "done" => term[x] = size[2]

\* Each thread finds its own coordinates, and what it has summed is there.
OwnCell(x) ==
    /\ mulpc[x] # "none" => v[Place(x)] = x /\ tid[Place(x)] = x
    /\ mulpc[x] \in {"col", "clear", "add", "done"} => row[x] = x[1]
    /\ mulpc[x] \in {"clear", "add", "done"} => col[x] = x[2]
    /\ mulpc[x] \in {"add", "done"} => \A t \in Terms : mat3[x][t] = IF t < term[x] THEN 1 ELSE 0

JoinedInOrder ==
    /\ mmpc = "join" =>
         \A i \in Indexes : i < mm_ij[1] => tid[i] # Unset /\ mulpc[tid[i]] = "done"
    /\ mmpc = "print" => \A i \in Indexes : tid[i] # Unset /\ mulpc[tid[i]] = "done"

MatrixIInv ==
    /\ MatrixTypeOK
    /\ CreatedInOrder
    /\ \A x \in Cells : ThreadSound(x)
    /\ JoinedInOrder
    /\ PlacesFit => \A x \in Cells : OwnCell(x)

USE SizesAssumption

LEMMA ProductGrows ==
  ASSUME NEW a \in Nat, NEW b \in Nat, NEW n \in Nat, a <= b PROVE a * n <= b * n
OBVIOUS

LEMMA SizeFacts ==
  ASSUME size \in Sizes
  PROVE  /\ size[1] \in Nat \ {0} /\ size[2] \in Nat \ {0} /\ size[3] \in Nat \ {0}
         /\ numthreads \in Nat /\ size[1] <= numthreads
         /\ 0 \in Rows /\ 0 \in Cols /\ 0 \in Terms /\ 0 \in Indexes
<1>1. size[1] \in Nat \ {0} /\ size[2] \in Nat \ {0} /\ size[3] \in Nat \ {0}
  OBVIOUS
<1>2. numthreads \in Nat
  BY <1>1 DEF numthreads
<1>3. 1 * size[1] <= size[3] * size[1]
  BY <1>1, ProductGrows
<1>4. size[1] <= numthreads
  BY <1>1, <1>2, <1>3 DEF numthreads
<1>. QED
  BY <1>1, <1>2, <1>4 DEF Rows, Cols, Terms, Indexes

LEMMA CellFacts ==
  ASSUME size \in Sizes, NEW x \in Cells
  PROVE  /\ x[1] \in Rows /\ x[2] \in Cols /\ x = <<x[1], x[2]>>
         /\ x[1] \in Nat /\ x[2] \in Nat /\ x[1] < size[1] /\ x[2] < size[3]
         /\ Place(x) \in Nat
<1>1. x[1] \in Rows /\ x[2] \in Cols /\ x = <<x[1], x[2]>>
  BY DEF Cells
<1>2. x[1] \in Nat /\ x[2] \in Nat /\ x[1] < size[1] /\ x[2] < size[3]
  BY <1>1, SizeFacts DEF Rows, Cols
<1>3. x[1] * size[1] \in Nat
  BY <1>2, SizeFacts
<1>. QED
  BY <1>1, <1>2, <1>3 DEF Place

\* Rows of length n do not overlap.
LEMMA RowsApart ==
  ASSUME NEW n \in Nat, NEW a \in Nat, NEW b \in Nat, NEW c \in Nat, NEW d \in Nat,
         d < n, a < b
  PROVE  a * n + d < b * n + c
<1>1. (a + 1) * n <= b * n
  BY ProductGrows
<1>2. (a + 1) * n = a * n + n
  OBVIOUS
<1>3. a * n \in Nat /\ b * n \in Nat
  OBVIOUS
<1>. QED
  BY <1>1, <1>2, <1>3

\* Where the cells fit, no two have one place in v.
LEMMA PlaceInjective ==
  ASSUME size \in Sizes, PlacesFit, NEW x \in Cells, NEW y \in Cells, Place(x) = Place(y)
  PROVE  x = y
<1>1. /\ x = <<x[1], x[2]>> /\ y = <<y[1], y[2]>>
      /\ x[1] \in Nat /\ x[2] \in Nat /\ y[1] \in Nat /\ y[2] \in Nat /\ size[1] \in Nat
      /\ x[1] < size[1] /\ y[1] < size[1] /\ x[2] < size[3] /\ y[2] < size[3]
  BY CellFacts, SizeFacts
<1>2. CASE size[1] = 1
  <2>1. x[1] = 0 /\ y[1] = 0
    BY <1>1, <1>2
  <2>. QED
    BY <1>1, <1>2, <2>1 DEF Place
<1>3. CASE size[1] = size[3]
  <2>1. ~(x[1] < y[1]) /\ ~(y[1] < x[1])
    BY <1>1, <1>3, RowsApart DEF Place
  <2>2. x[1] = y[1]
    BY <1>1, <2>1
  <2>. QED
    BY <1>1, <2>2 DEF Place
<1>. QED
  BY <1>2, <1>3 DEF PlacesFit

LEMMA InitMatrix == MatrixInit => MatrixIInv
<1> SUFFICES ASSUME MatrixInit PROVE MatrixIInv
  OBVIOUS
<1>1. size \in Sizes /\ mmpc = "read" /\ mm_ij = <<0, 0>> /\ \A x \in Cells : mulpc[x] = "none" /\ term[x] = 0
  BY DEF MatrixInit
<1>2. /\ 0 \in Rows /\ 0 \in Cols /\ 0 \in Indexes /\ size[2] \in Nat
  BY <1>1, SizeFacts
<1>3. MatrixTypeOK
  BY <1>1, <1>2 DEF MatrixInit, MatrixTypeOK, Cells
<1>4. \A x \in Cells : ~Before(x, mm_ij)
  BY <1>1, CellFacts DEF Before
<1>. QED
  BY <1>1, <1>3, <1>4 DEF MatrixIInv, CreatedInOrder, ThreadSound, OwnCell, JoinedInOrder

-----------------------------------------------------------------------------
(* main *)

LEMMA CreateKeeps == ASSUME MatrixIInv, CreateThread PROVE MatrixIInv'
<1> DEFINE k == Place(mm_ij)
<1>1. /\ size \in Sizes /\ size' = size /\ Cells' = Cells /\ Indexes' = Indexes /\ Terms' = Terms
      /\ Rows' = Rows /\ Cols' = Cols /\ numthreads' = numthreads
      /\ \A x : Place(x)' = Place(x)
  BY DEF CreateThread, MatrixIInv, MatrixTypeOK, Cells, Indexes, Terms, Rows, Cols, numthreads, Place
<1>2. /\ mmpc = "create" /\ mm_ij \in Cells /\ k \in Indexes
      /\ v' = [v EXCEPT ![k] = mm_ij]
      /\ row' = row /\ col' = col /\ term' = term /\ mat3' = mat3
  BY DEF CreateThread
<1>3. /\ v \in [Indexes -> Cells \cup {Unset}] /\ tid \in [Indexes -> Cells \cup {Unset}]
      /\ mulpc \in [Cells -> {"none", "row", "col", "clear", "add", "done"}]
      /\ arg \in [Cells -> Indexes]
  BY DEF MatrixIInv, MatrixTypeOK
<1>4. Unset \notin Cells
  BY <1>1, CellFacts DEF Unset
<1>5. v' \in [Indexes -> Cells \cup {Unset}] /\ v'[k] = mm_ij /\ \A i \in Indexes \ {k} : v'[i] = v[i]
  BY <1>2, <1>3
<1>. HIDE DEF k
<1>6. CASE mmpc' = "freed"
  <2>1. UNCHANGED <<mm_ij, tid, mulpc, arg>>
    BY <1>2, <1>6 DEF CreateThread
  <2>2. MatrixTypeOK'
    BY <1>1, <1>2, <1>5, <1>6, <2>1 DEF MatrixIInv, MatrixTypeOK
  <2>3. \A x \in Cells : ThreadSound(x)'
    BY <1>1, <1>2, <1>3, <1>4, <1>5, <2>1 DEF MatrixIInv, ThreadSound, Unset
  <2>4. ASSUME PlacesFit, NEW x \in Cells PROVE OwnCell(x)'
    <3>1. OwnCell(x) /\ ThreadSound(x)
      BY <2>4 DEF MatrixIInv
    <3>2. mulpc[x] # "none" /\ Place(x) = k => x = mm_ij
      BY <1>1, <1>2, <2>4, PlaceInjective DEF k
    <3>3. mulpc[x] # "none" => Place(x) \in Indexes
      BY <1>3, <3>1 DEF ThreadSound
    <3>. QED
      BY <1>1, <1>2, <1>5, <2>1, <3>1, <3>2, <3>3 DEF OwnCell
  <2>. QED
    BY <1>1, <1>6, <2>2, <2>3, <2>4 DEF MatrixIInv, CreatedInOrder, JoinedInOrder, PlacesFit
<1>7. CASE mmpc' # "freed"
  <2>1. /\ tid' = [tid EXCEPT ![k] = mm_ij]
        /\ mulpc' = [mulpc EXCEPT ![mm_ij] = "row"] /\ arg' = [arg EXCEPT ![mm_ij] = k]
        /\ mm_ij' = Following(mm_ij) /\ mmpc' = mmpc
    BY <1>2, <1>7 DEF CreateThread, k
  <2>2. /\ tid' \in [Indexes -> Cells \cup {Unset}] /\ arg' \in [Cells -> Indexes]
        /\ mulpc' \in [Cells -> {"none", "row", "col", "clear", "add", "done"}]
        /\ tid'[k] = mm_ij /\ mulpc'[mm_ij] = "row" /\ arg'[mm_ij] = k
        /\ \A i \in Indexes \ {k} : tid'[i] = tid[i]
        /\ \A x \in Cells \ {mm_ij} : mulpc'[x] = mulpc[x] /\ arg'[x] = arg[x]
    BY <1>2, <1>3, <2>1
  <2>3. mm_ij' \in Cells \cup {<<i, 0>> : i \in 0..numthreads}
    <3>1. CASE mm_ij[2] + 1 \in Cols
      BY <1>1, <1>2, <2>1, <3>1, CellFacts DEF Following, Cells
    <3>2. CASE mm_ij[2] + 1 \notin Cols
      <4>1. mm_ij' = <<mm_ij[1] + 1, 0>>
        BY <2>1, <3>2 DEF Following
      <4>2. mm_ij[1] + 1 \in 0..numthreads
        BY <1>1, <1>2, CellFacts, SizeFacts
      <4>. QED
        BY <4>1, <4>2
    <3>. QED
      BY <3>1, <3>2
  <2>4. MatrixTypeOK'
    BY <1>1, <1>2, <1>5, <2>1, <2>2, <2>3 DEF MatrixIInv, MatrixTypeOK
  <2>5. \A x \in Cells : Before(x, mm_ij') <=> Before(x, mm_ij) \/ x = mm_ij
    <3> TAKE x \in Cells
    <3>1. /\ x = <<x[1], x[2]>> /\ x[1] \in Nat /\ x[2] \in Nat /\ x[2] < size[3] /\ x[1] < size[1]
          /\ mm_ij = <<mm_ij[1], mm_ij[2]>> /\ mm_ij[1] \in Nat /\ mm_ij[2] \in Nat
          /\ mm_ij[2] < size[3] /\ size[3] \in Nat
      BY <1>1, <1>2, CellFacts, SizeFacts
    <3>2. CASE mm_ij[2] + 1 \in Cols
      <4>1. mm_ij'[1] = mm_ij[1] /\ mm_ij'[2] = mm_ij[2] + 1
        BY <2>1, <3>2 DEF Following
      <4>. QED
        BY <3>1, <4>1 DEF Before
    <3>3. CASE mm_ij[2] + 1 \notin Cols
      <4>1. mm_ij'[1] = mm_ij[1] + 1 /\ mm_ij'[2] = 0
        BY <2>1, <3>3 DEF Following
      <4>2. mm_ij[2] + 1 = size[3]
        BY <3>1, <3>3 DEF Cols
      <4>. QED
        BY <3>1, <4>1, <4>2 DEF Before
    <3>. QED
      BY <3>2, <3>3
  <2>6. \A x \in Cells : mulpc[x] # "none" <=> Before(x, mm_ij)
    BY <1>2 DEF MatrixIInv, CreatedInOrder
  <2>7. CreatedInOrder'
    <3>1. \A x \in Cells : mulpc'[x] # "none" <=> Before(x, mm_ij')
      BY <2>2, <2>5, <2>6
    <3>. QED
      BY <1>1, <1>2, <2>1, <3>1 DEF CreatedInOrder, Before
  <2>8. mulpc[mm_ij] = "none"
    BY <1>1, <1>2, <2>6, CellFacts DEF Before
  <2>9. \A x \in Cells : ThreadSound(x)'
    <3> TAKE x \in Cells
    <3>1. ThreadSound(x)
      BY DEF MatrixIInv
    <3>2. CASE x = mm_ij
      BY <1>1, <1>2, <1>4, <1>5, <2>2, <2>8, <3>1, <3>2 DEF ThreadSound, k, Unset
    <3>3. CASE x # mm_ij
      BY <1>1, <1>2, <1>3, <1>4, <1>5, <2>2, <3>1, <3>3 DEF ThreadSound, Unset
    <3>. QED
      BY <3>2, <3>3
  <2>10. ASSUME PlacesFit, NEW x \in Cells PROVE OwnCell(x)'
    <3>1. OwnCell(x) /\ ThreadSound(x)
      BY <2>10 DEF MatrixIInv
    <3>2. Place(x) = k => x = mm_ij
      BY <1>1, <1>2, <2>10, PlaceInjective DEF k
    <3>3. CASE x = mm_ij
      BY <1>1, <1>2, <1>5, <2>2, <3>3 DEF OwnCell, k
    <3>4. CASE x # mm_ij
      <4>1. mulpc[x] # "none" => Place(x) \in Indexes \ {k}
        BY <1>3, <3>1, <3>2, <3>4 DEF ThreadSound
      <4>. QED
        BY <1>1, <1>2, <1>5, <2>2, <3>1, <3>4, <4>1 DEF OwnCell
    <3>. QED
      BY <3>3, <3>4
  <2>. QED
    BY <1>1, <1>2, <2>1, <2>4, <2>7, <2>9, <2>10 DEF MatrixIInv, JoinedInOrder, PlacesFit
<1>. QED
  BY <1>6, <1>7

\* The steps of main that leave the threads and what they share alone.
LEMMA MainQuiet ==
  ASSUME MatrixIInv, UNCHANGED <<size, v, tid, mulvars>>,
         mmpc' \in {"read", "create", "join", "print", "freed", "end"},
         mm_ij' \in Cells \cup {<<i, 0>> : i \in 0..numthreads},
         CreatedInOrder', JoinedInOrder'
  PROVE  MatrixIInv'
<1>1. /\ Cells' = Cells /\ Indexes' = Indexes /\ Terms' = Terms
      /\ Rows' = Rows /\ Cols' = Cols /\ numthreads' = numthreads
      /\ \A x : Place(x)' = Place(x)
  BY DEF Cells, Indexes, Terms, Rows, Cols, numthreads, Place
<1>2. MatrixTypeOK'
  BY <1>1 DEF MatrixIInv, MatrixTypeOK, mulvars
<1>3. \A x \in Cells : ThreadSound(x)'
  BY <1>1 DEF MatrixIInv, ThreadSound, mulvars, Unset
<1>4. PlacesFit => \A x \in Cells : OwnCell(x)'
  BY <1>1 DEF MatrixIInv, OwnCell, mulvars
<1>. QED
  BY <1>1, <1>2, <1>3, <1>4 DEF MatrixIInv, PlacesFit

LEMMA MainKeeps ==
  ASSUME MatrixIInv, ReadMatrices \/ CreateDone \/ Join \/ PrintResult PROVE MatrixIInv'
<1>1. /\ UNCHANGED <<size, v, tid, mulvars>>
      /\ mmpc' \in {"read", "create", "join", "print", "freed", "end"}
  BY DEF ReadMatrices, CreateDone, Join, PrintResult, MatrixIInv, MatrixTypeOK
<1>2. /\ size \in Sizes /\ Cells' = Cells /\ Indexes' = Indexes /\ mulpc' = mulpc /\ tid' = tid
      /\ mm_ij \in Cells \cup {<<i, 0>> : i \in 0..numthreads}
      /\ tid \in [Indexes -> Cells \cup {Unset}]
  BY <1>1 DEF MatrixIInv, MatrixTypeOK, mulvars, Cells, Indexes, Rows, Cols, numthreads
<1>3. /\ size[1] \in Nat /\ size[1] # 0 /\ size[3] \in Nat /\ numthreads \in Nat
      /\ 0 \in Rows /\ 0 \in Cols /\ size[1] <= numthreads
  BY <1>2, SizeFacts
<1>4. CASE ReadMatrices
  <2>1. CreatedInOrder'
    BY <1>2, <1>4 DEF ReadMatrices, MatrixIInv, CreatedInOrder, Before
  <2>2. JoinedInOrder'
    BY <1>4 DEF ReadMatrices, JoinedInOrder
  <2>. QED
    BY <1>1, <1>2, <1>4, <2>1, <2>2, MainQuiet DEF ReadMatrices
<1>5. CASE CreateDone
  <2>1. mmpc = "create" /\ mm_ij \notin Cells /\ mmpc' = "join" /\ mm_ij' = <<0, 0>>
    BY <1>5 DEF CreateDone
  <2>2. PICK i \in 0..numthreads : mm_ij = <<i, 0>> /\ i \notin Rows
    BY <1>2, <1>3, <2>1 DEF Cells
  <2>3. i >= size[1]
    BY <1>3, <2>2 DEF Rows
  <2>4. \A x \in Cells : mulpc[x] # "none"
    <3> TAKE x \in Cells
    <3>1. Before(x, mm_ij)
      BY <1>2, <1>3, <2>2, <2>3, CellFacts DEF Before
    <3>. QED
      BY <2>1, <3>1 DEF MatrixIInv, CreatedInOrder
  <2>5. CreatedInOrder'
    BY <1>2, <2>1, <2>4 DEF CreatedInOrder
  <2>6. JoinedInOrder'
    BY <1>2, <2>1 DEF JoinedInOrder, Indexes
  <2>7. mm_ij' \in Cells \cup {<<j, 0>> : j \in 0..numthreads}
    BY <1>3, <2>1 DEF Cells
  <2>. QED
    BY <1>1, <2>5, <2>6, <2>7, MainQuiet
<1>6. CASE Join
  <2>1. mmpc = "join"
    BY <1>6 DEF Join
  <2>2. PICK i \in Nat : mm_ij[1] = i /\ i <= numthreads
    <3>1. CASE mm_ij \in Cells
      BY <1>2, <1>3, <3>1, CellFacts
    <3>2. CASE mm_ij \in {<<i, 0>> : i \in 0..numthreads}
      BY <1>3, <3>2
    <3>. QED
      BY <1>2, <3>1, <3>2
  <2>3. \A j \in Indexes : j < i => tid[j] # Unset /\ mulpc[tid[j]] = "done"
    BY <2>1, <2>2 DEF MatrixIInv, JoinedInOrder
  <2>4. CASE i = numthreads /\ mmpc' = "print" /\ mm_ij' = mm_ij
    <3>1. \A j \in Indexes : tid[j] # Unset /\ mulpc[tid[j]] = "done"
      BY <1>3, <2>3, <2>4 DEF Indexes
    <3>2. JoinedInOrder'
      BY <1>2, <2>4, <3>1 DEF JoinedInOrder, Unset
    <3>3. CreatedInOrder'
      BY <1>2, <2>1, <2>4 DEF MatrixIInv, CreatedInOrder
    <3>. QED
      BY <1>1, <1>2, <2>4, <3>2, <3>3, MainQuiet
  <2>5. CASE i < numthreads /\ tid[i] # Unset /\ Joined(tid[i]) /\ mm_ij' = <<i + 1, 0>> /\ mmpc' = mmpc
    <3>1. \A j \in Indexes : j < i + 1 => tid[j] # Unset /\ mulpc[tid[j]] = "done"
      BY <1>3, <2>2, <2>3, <2>5 DEF Joined, Indexes
    <3>2. JoinedInOrder'
      BY <1>2, <2>1, <2>5, <3>1 DEF JoinedInOrder, Unset
    <3>3. CreatedInOrder'
      BY <1>2, <2>1, <2>5 DEF MatrixIInv, CreatedInOrder
    <3>4. mm_ij' \in {<<j, 0>> : j \in 0..numthreads}
      BY <1>3, <2>2, <2>5
    <3>. QED
      BY <1>1, <3>2, <3>3, <3>4, MainQuiet
  <2>. QED
    BY <1>6, <2>2, <2>4, <2>5 DEF Join
<1>7. CASE PrintResult
  BY <1>1, <1>2, <1>7, MainQuiet DEF PrintResult, CreatedInOrder, JoinedInOrder
<1>. QED
  BY <1>4, <1>5, <1>6, <1>7

-----------------------------------------------------------------------------
(* The threads *)

\* A thread changes nothing but its own variables and, where the places fit,
\* its own cell.
LEMMA ThreadKeeps ==
  ASSUME MatrixIInv, NEW x \in Cells, mulvect(x) PROVE MatrixIInv'
<1>1. /\ size \in Sizes /\ size' = size /\ Cells' = Cells /\ Indexes' = Indexes /\ Terms' = Terms
      /\ Rows' = Rows /\ Cols' = Cols /\ numthreads' = numthreads
      /\ \A y : Place(y)' = Place(y)
  BY DEF mulvect, MatrixIInv, MatrixTypeOK, Cells, Indexes, Terms, Rows, Cols, numthreads, Place
<1>2. /\ v \in [Indexes -> Cells \cup {Unset}] /\ tid \in [Indexes -> Cells \cup {Unset}]
      /\ mulpc \in [Cells -> {"none", "row", "col", "clear", "add", "done"}]
      /\ arg \in [Cells -> Indexes]
      /\ row \in [Cells -> Rows] /\ col \in [Cells -> Cols] /\ term \in [Cells -> 0..size[2]]
      /\ mat3 \in [Cells -> [Terms -> Nat]]
  BY DEF MatrixIInv, MatrixTypeOK
<1>3. UNCHANGED <<mmpc, mm_ij, v, tid, arg>>
  BY DEF mulvect, MulRow, MulCol, MulClear, MulAdd
<1>4. PICK l \in {"col", "clear", "add", "done"} : mulpc' = [mulpc EXCEPT ![x] = l]
  BY DEF mulvect, MulRow, MulCol, MulClear, MulAdd, MulGoto
<1>5. /\ mulpc' \in [Cells -> {"none", "row", "col", "clear", "add", "done"}]
      /\ mulpc'[x] = l /\ \A y \in Cells \ {x} : mulpc'[y] = mulpc[y]
  BY <1>2, <1>4
<1>6. mulpc[x] \in {"row", "col", "clear", "add"}
  BY DEF mulvect, MulRow, MulCol, MulClear, MulAdd
<1>7. ThreadSound(x) /\ (PlacesFit => OwnCell(x))
  BY DEF MatrixIInv
<1>8. arg[x] = Place(x) /\ v[arg[x]] \in Cells
  BY <1>2, <1>6, <1>7 DEF ThreadSound
<1>9. v[arg[x]][1] \in Rows /\ v[arg[x]][2] \in Cols /\ <<row[x], col[x]>> \in Cells
  BY <1>2, <1>8 DEF Cells
<1>10. size[2] \in Nat \ {0}
  BY <1>1, SizeFacts
<1>11. CreatedInOrder'
  BY <1>1, <1>3, <1>5, <1>6 DEF MatrixIInv, CreatedInOrder, Before
<1>12. JoinedInOrder'
  <2>1. \A i \in Indexes : tid[i] # Unset /\ mulpc[tid[i]] = "done" => mulpc'[tid[i]] = "done"
    BY <1>2, <1>5, <1>6
  <2>. QED
    BY <1>1, <1>3, <2>1 DEF MatrixIInv, JoinedInOrder, Unset
<1>13. ASSUME term' \in [Cells -> 0..size[2]], row' \in [Cells -> Rows], col' \in [Cells -> Cols],
              mat3' \in [Cells -> [Terms -> Nat]],
              \A y \in Cells \ {x} : term'[y] = term[y] /\ row'[y] = row[y] /\ col'[y] = col[y],
              l \in {"col", "clear"} => term'[x] = 0,
              l = "add" => term'[x] \in Terms,
              l = "done" => term'[x] = size[2],
              PlacesFit => /\ \A y \in Cells \ {x} : mat3'[y] = mat3[y]
                           /\ row'[x] = x[1] /\ (l # "col" => col'[x] = x[2])
                           /\ l \in {"add", "done"} =>
                                \A t \in Terms : mat3'[x][t] = IF t < term'[x] THEN 1 ELSE 0
       PROVE  MatrixIInv'
  <2>1. MatrixTypeOK'
    BY <1>1, <1>3, <1>5, <1>13 DEF MatrixIInv, MatrixTypeOK
  <2>2. \A y \in Cells : ThreadSound(y)'
    <3> TAKE y \in Cells
    <3>1. ThreadSound(y)
      BY DEF MatrixIInv
    <3>2. CASE y = x
      BY <1>1, <1>3, <1>5, <1>6, <1>7, <1>13, <3>2 DEF ThreadSound, Unset
    <3>3. CASE y # x
      BY <1>1, <1>3, <1>5, <1>13, <3>1, <3>3 DEF ThreadSound, Unset
    <3>. QED
      BY <3>2, <3>3
  <2>3. ASSUME PlacesFit, NEW y \in Cells PROVE OwnCell(y)'
    <3>1. OwnCell(y)
      BY <2>3 DEF MatrixIInv
    <3>2. CASE y = x
      BY <1>1, <1>3, <1>5, <1>6, <1>13, <2>3, <3>1, <3>2 DEF OwnCell
    <3>3. CASE y # x
      <4>1. /\ mulpc'[y] = mulpc[y] /\ term'[y] = term[y] /\ row'[y] = row[y] /\ col'[y] = col[y]
            /\ mat3'[y] = mat3[y]
        BY <1>5, <1>13, <2>3, <3>3
      <4>2. v'[Place(y)'] = v[Place(y)] /\ tid'[Place(y)'] = tid[Place(y)] /\ Terms' = Terms
        BY <1>1, <1>3
      <4>3. mulpc'[y] \in {"add", "done"} => \A t \in Terms : mat3'[y][t] = IF t < term'[y] THEN 1 ELSE 0
        BY <3>1, <4>1 DEF OwnCell
      <4>. QED
        BY <3>1, <4>1, <4>2, <4>3 DEF OwnCell
    <3>. QED
      BY <3>2, <3>3
  <2>. QED
    BY <1>1, <1>11, <1>12, <2>1, <2>2, <2>3 DEF MatrixIInv, PlacesFit
<1>14. CASE MulRow(x)
  <2>1. /\ mulpc[x] = "row" /\ l = "col" /\ term' = term /\ col' = col /\ mat3' = mat3
        /\ row' = [row EXCEPT ![x] = v[arg[x]][1]]
    BY <1>2, <1>5, <1>14 DEF MulRow, MulGoto
  <2>2. row' \in [Cells -> Rows] /\ row'[x] = v[arg[x]][1] /\ \A y \in Cells \ {x} : row'[y] = row[y]
    BY <1>2, <1>9, <2>1
  <2>3. PlacesFit => v[arg[x]] = x
    BY <1>6, <1>7, <1>8 DEF OwnCell
  <2>4. term[x] = 0
    BY <1>7, <2>1 DEF ThreadSound
  <2>. QED
    BY <1>2, <1>13, <2>1, <2>2, <2>3, <2>4
<1>15. CASE MulCol(x)
  <2>1. /\ mulpc[x] = "col" /\ l = "clear" /\ term' = term /\ row' = row /\ mat3' = mat3
        /\ col' = [col EXCEPT ![x] = v[arg[x]][2]]
    BY <1>2, <1>5, <1>15 DEF MulCol, MulGoto
  <2>2. col' \in [Cells -> Cols] /\ col'[x] = v[arg[x]][2] /\ \A y \in Cells \ {x} : col'[y] = col[y]
    BY <1>2, <1>9, <2>1
  <2>3. PlacesFit => v[arg[x]] = x /\ row[x] = x[1]
    BY <1>6, <1>7, <1>8, <2>1 DEF OwnCell
  <2>4. term[x] = 0
    BY <1>7, <2>1 DEF ThreadSound
  <2>. QED
    BY <1>2, <1>13, <2>1, <2>2, <2>3, <2>4
<1>16. PlacesFit /\ mulpc[x] \in {"clear", "add"} => row[x] = x[1] /\ col[x] = x[2] /\ <<row[x], col[x]>> = x
  BY <1>1, <1>7, CellFacts DEF OwnCell
<1>17. CASE MulClear(x)
  <2> DEFINE zero == [t \in Terms |-> 0]
  <2>1. /\ mulpc[x] = "clear" /\ l = "add" /\ term' = term /\ row' = row /\ col' = col
        /\ mat3' = [mat3 EXCEPT ![<<row[x], col[x]>>] = zero]
    BY <1>2, <1>5, <1>17 DEF MulClear, MulGoto
  <2>2. zero \in [Terms -> Nat] /\ \A t \in Terms : zero[t] = 0
    OBVIOUS
  <2>. HIDE DEF zero
  <2>3. mat3' \in [Cells -> [Terms -> Nat]]
    BY <1>2, <1>9, <2>1, <2>2
  <2>4. term[x] = 0 /\ 0 \in Terms
    BY <1>7, <1>10, <2>1 DEF ThreadSound, Terms
  <2>5. PlacesFit => mat3'[x] = zero /\ \A y \in Cells \ {x} : mat3'[y] = mat3[y]
    BY <1>2, <1>16, <2>1
  <2>6. \A t \in Terms : ~(t < 0)
    BY <1>10 DEF Terms
  <2>. QED
    BY <1>2, <1>13, <1>16, <2>1, <2>2, <2>3, <2>4, <2>5, <2>6
<1>18. CASE MulAdd(x)
  <2> DEFINE c == <<row[x], col[x]>>
             sum == [mat3[c] EXCEPT ![term[x]] = @ + 1]
  <2>1. /\ mulpc[x] = "add" /\ l = (IF term[x] + 1 \in Terms THEN "add" ELSE "done")
        /\ row' = row /\ col' = col
        /\ mat3' = [mat3 EXCEPT ![c] = sum]
        /\ term' = [term EXCEPT ![x] = term[x] + 1]
    BY <1>2, <1>5, <1>18 DEF MulAdd, MulGoto
  <2>2. term[x] \in Terms /\ term[x] \in Nat /\ term[x] < size[2]
    BY <1>7, <1>10, <2>1 DEF ThreadSound, Terms
  <2>3. /\ sum \in [Terms -> Nat] /\ sum[term[x]] = mat3[c][term[x]] + 1
        /\ \A t \in Terms \ {term[x]} : sum[t] = mat3[c][t]
    <3>1. mat3[c] \in [Terms -> Nat]
      BY <1>2, <1>9
    <3>. QED
      BY <2>2, <3>1
  <2>. HIDE DEF sum
  <2>4. mat3' \in [Cells -> [Terms -> Nat]]
    BY <1>2, <1>9, <2>1, <2>3
  <2>5. term' \in [Cells -> 0..size[2]] /\ term'[x] = term[x] + 1 /\ \A y \in Cells \ {x} : term'[y] = term[y]
    BY <1>2, <1>10, <2>1, <2>2
  <2>6. (l = "add" => term'[x] \in Terms) /\ (l = "done" => term'[x] = size[2])
    BY <1>10, <2>1, <2>2, <2>5 DEF Terms
  <2>7. PlacesFit => c = x /\ mat3'[x] = sum /\ \A y \in Cells \ {x} : mat3'[y] = mat3[y]
    BY <1>2, <1>16, <2>1
  <2>8. PlacesFit => \A t \in Terms : mat3'[x][t] = IF t < term'[x] THEN 1 ELSE 0
    <3> SUFFICES ASSUME PlacesFit, NEW t \in Terms PROVE mat3'[x][t] = IF t < term[x] + 1 THEN 1 ELSE 0
      BY <2>5
    <3>1. mat3[x][t] = (IF t < term[x] THEN 1 ELSE 0) /\ mat3[x][term[x]] = 0
      BY <1>7, <2>1, <2>2 DEF OwnCell
    <3>2. t \in Nat
      BY <1>10 DEF Terms
    <3>3. CASE t = term[x]
      BY <2>2, <2>3, <2>7, <3>1, <3>3
    <3>4. CASE t # term[x]
      BY <2>2, <2>3, <2>7, <3>1, <3>2, <3>4
    <3>. QED
      BY <3>3, <3>4
  <2>9. l \in {"add", "done"}
    BY <2>1
  <2>. QED
    BY <1>2, <1>13, <1>16, <2>1, <2>4, <2>5, <2>6, <2>7, <2>8, <2>9
<1>. QED
  BY <1>14, <1>15, <1>17, <1>18 DEF mulvect

-----------------------------------------------------------------------------
(* The theorems *)

THEOREM MatrixInvariance == MatrixSpec => []MatrixIInv
<1>1. MatrixIInv /\ [MatrixNext]_matrices => MatrixIInv'
  <2> SUFFICES ASSUME MatrixIInv, [MatrixNext]_matrices PROVE MatrixIInv'
    OBVIOUS
  <2>1. CASE MatrixMain
    BY <2>1, CreateKeeps, MainKeeps DEF MatrixMain
  <2>2. CASE \E x \in Cells : mulvect(x)
    BY <2>2, ThreadKeeps
  <2>3. CASE UNCHANGED matrices
    <3>1. /\ UNCHANGED <<size, v, tid, mulvars>> /\ mmpc' = mmpc /\ mm_ij' = mm_ij
          /\ Cells' = Cells /\ Indexes' = Indexes
      BY <2>3 DEF matrices, Cells, Indexes, Rows, Cols, numthreads
    <3>2. CreatedInOrder'
      BY <3>1 DEF MatrixIInv, CreatedInOrder, Before, mulvars
    <3>3. JoinedInOrder'
      BY <3>1 DEF MatrixIInv, JoinedInOrder, Unset, mulvars
    <3>. QED
      BY <3>1, <3>2, <3>3, MainQuiet DEF MatrixIInv, MatrixTypeOK
  <2>. QED
    BY <2>1, <2>2, <2>3 DEF MatrixNext
<1>. QED
  BY InitMatrix, <1>1, PTL DEF MatrixSpec

\* Whatever the order in which the threads run, the result is the product
\* when the places of the cells fit into v: each thread computes the cell it
\* was made for and main prints when all of them are done (matrixmul.c).
THEOREM ProductIsComputed == MatrixSpec => []ResultIsProduct
<1>1. MatrixIInv => ResultIsProduct
  <2> SUFFICES ASSUME MatrixIInv, PlacesFit PROVE
        /\ \A x \in Cells : mulpc[x] \in {"clear", "add", "done"} => <<row[x], col[x]>> = x
        /\ mmpc = "print" => \A x \in Cells : \A t \in Terms : mat3[x][t] = 1
    BY DEF ResultIsProduct
  <2>1. size \in Sizes /\ arg \in [Cells -> Indexes]
    BY DEF MatrixIInv, MatrixTypeOK
  <2>2. \A x \in Cells : mulpc[x] \in {"clear", "add", "done"} => <<row[x], col[x]>> = x
    BY <2>1, CellFacts DEF MatrixIInv, OwnCell
  <2>3. ASSUME mmpc = "print", NEW x \in Cells, NEW t \in Terms PROVE mat3[x][t] = 1
    <3>1. mulpc[x] # "none" /\ OwnCell(x) /\ ThreadSound(x)
      BY <2>3 DEF MatrixIInv, CreatedInOrder
    <3>2. Place(x) \in Indexes /\ tid[Place(x)] = x
      BY <2>1, <3>1 DEF OwnCell, ThreadSound
    <3>3. mulpc[x] = "done"
      BY <2>3, <3>2 DEF MatrixIInv, JoinedInOrder
    <3>4. term[x] = size[2] /\ t < size[2]
      BY <2>1, <3>1, <3>3, SizeFacts DEF ThreadSound, Terms
    <3>. QED
      BY <3>1, <3>3, <3>4 DEF OwnCell
  <2>. QED
    BY <2>2, <2>3
<1>. QED
  BY MatrixInvariance, <1>1, PTL
=============================================================================
