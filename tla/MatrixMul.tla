----------------------------- MODULE MatrixMul -----------------------------
(***************************************************************************)
(* eleutheria/pthreads/matrixmul/matrixmul.c: main starts a thread for     *)
(* every cell of the product and gives it a pointer to its coordinates in  *)
(* v; the thread reads them later.  Matrices have a size; a cell of the    *)
(* result counts how often each term of its sum was added.                 *)
(*                                                                         *)
(* A size_t is an int, as the program supposes (it reads the numbers with  *)
(* %u and the coordinates through an int pointer).  A thread is named by   *)
(* the cell it was made for.  Where the program writes beyond v, joins a   *)
(* thread that tid does not name, or has freed what threads use, anything  *)
(* may follow: the model stops.                                            *)
(*                                                                         *)
(* A definition whose name has a suffix (Joined_Any) is a wrong variant of *)
(* the definition that follows it, which some property refutes.            *)
(***************************************************************************)
EXTENDS Integers

CONSTANT Sizes      \* <<rows of mat1, its columns, columns of mat2>>

ASSUME SizesAssumption == Sizes \subseteq (Nat \ {0}) \X (Nat \ {0}) \X (Nat \ {0})

VARIABLES
    size,
    mmpc, mm_ij,    \* main's position, its i and j or the i of the joins
    v, tid,         \* k -> coordinates, k -> thread
    mulpc,          \* each thread: "none", "row", "col", "clear", "add", "done"
    arg, row, col, term,    \* its argument, as k, and its variables
    mat3

mulvars == <<mulpc, arg, row, col, term, mat3>>
matrices == <<size, mmpc, mm_ij, v, tid, mulvars>>

Rows == 0..(size[1] - 1)
Cols == 0..(size[3] - 1)
Terms == 0..(size[2] - 1)
numthreads == size[1] * size[3]
Indexes == 0..(numthreads - 1)
Cells == Rows \X Cols
Unset == <<-1, -1>>     \* what malloc returns is not initialised

MatrixTypeOK ==
    /\ size \in Sizes
    /\ mmpc \in {"read", "create", "join", "print", "freed", "end"}
    /\ mm_ij \in Cells \cup {<<i, 0>> : i \in 0..numthreads}
    /\ v \in [Indexes -> Cells \cup {Unset}] /\ tid \in [Indexes -> Cells \cup {Unset}]
    /\ mulpc \in [Cells -> {"none", "row", "col", "clear", "add", "done"}]
    /\ arg \in [Cells -> Indexes]
    /\ row \in [Cells -> Rows] /\ col \in [Cells -> Cols] /\ term \in [Cells -> 0..size[2]]
    /\ mat3 \in [Cells -> [Terms -> Nat]]

MatrixInit ==
    /\ size \in Sizes
    /\ mmpc = "read" /\ mm_ij = <<0, 0>>
    /\ v = [k \in Indexes |-> Unset] /\ tid = [k \in Indexes |-> Unset]
    /\ mulpc = [x \in Cells |-> "none"] /\ arg = [x \in Cells |-> 0]
    /\ row = [x \in Cells |-> 0] /\ col = [x \in Cells |-> 0] /\ term = [x \in Cells |-> 0]
    /\ mat3 = [x \in Cells |-> [t \in Terms |-> 0]]

-----------------------------------------------------------------------------
(* main *)

\* A file, memory or the sizes may fail; what was allocated is freed.
ReadMatrices ==
    /\ mmpc = "read" /\ mmpc' \in {"create", "end"}
    /\ UNCHANGED <<size, mm_ij, v, tid, mulvars>>

\* The next cell, row by row.
Following(x) == IF x[2] + 1 \in Cols THEN <<x[1], x[2] + 1>> ELSE <<x[1] + 1, 0>>

\* One turn of the loops.  When a thread cannot be created the cleanup frees
\* the matrices and v, whatever the threads do.
Place_First(x) == 0
Place(x) == x[1] * size[1] + x[2]
CreateThread ==
    LET k == Place(mm_ij) IN
    /\ mmpc = "create" /\ mm_ij \in Cells /\ k \in Indexes
    /\ v' = [v EXCEPT ![k] = mm_ij]
    /\ \/ /\ tid' = [tid EXCEPT ![k] = mm_ij]
          /\ mulpc' = [mulpc EXCEPT ![mm_ij] = "row"] /\ arg' = [arg EXCEPT ![mm_ij] = k]
          /\ mm_ij' = Following(mm_ij) /\ UNCHANGED mmpc
       \/ mmpc' = "freed" /\ UNCHANGED <<mm_ij, tid, mulpc, arg>>
    /\ UNCHANGED <<size, row, col, term, mat3>>

CreateDone ==
    /\ mmpc = "create" /\ mm_ij \notin Cells
    /\ mmpc' = "join" /\ mm_ij' = <<0, 0>>
    /\ UNCHANGED <<size, v, tid, mulvars>>

\* pthread_join of tid[i].
Joined_Any(x) == TRUE
Joined(x) == mulpc[x] = "done"
Join ==
    LET i == mm_ij[1] IN
    /\ mmpc = "join"
    /\ \/ i = numthreads /\ mmpc' = "print" /\ UNCHANGED mm_ij
       \/ i < numthreads /\ tid[i] # Unset /\ Joined(tid[i])
            /\ mm_ij' = <<i + 1, 0>> /\ UNCHANGED mmpc
    /\ UNCHANGED <<size, v, tid, mulvars>>

PrintResult ==
    /\ mmpc = "print" /\ mmpc' = "end"
    /\ UNCHANGED <<size, mm_ij, v, tid, mulvars>>

MatrixMain == ReadMatrices \/ CreateThread \/ CreateDone \/ Join \/ PrintResult

-----------------------------------------------------------------------------
(* mulvect *)

MulGoto(x, l) == mulpc' = [mulpc EXCEPT ![x] = l]

MulRow(x) ==
    /\ mulpc[x] = "row" /\ MulGoto(x, "col")
    /\ row' = [row EXCEPT ![x] = v[arg[x]][1]]
    /\ UNCHANGED <<arg, col, term, mat3>>

MulCol(x) ==
    /\ mulpc[x] = "col" /\ MulGoto(x, "clear")
    /\ col' = [col EXCEPT ![x] = v[arg[x]][2]]
    /\ UNCHANGED <<arg, row, term, mat3>>

MulClear(x) ==
    /\ mulpc[x] = "clear" /\ MulGoto(x, "add")
    /\ mat3' = [mat3 EXCEPT ![<<row[x], col[x]>>] = [t \in Terms |-> 0]]
    /\ UNCHANGED <<arg, row, col, term>>

MulAdd(x) ==
    /\ mulpc[x] = "add" /\ MulGoto(x, IF term[x] + 1 \in Terms THEN "add" ELSE "done")
    /\ mat3' = [mat3 EXCEPT ![<<row[x], col[x]>>][term[x]] = @ + 1]
    /\ term' = [term EXCEPT ![x] = @ + 1]
    /\ UNCHANGED <<arg, row, col>>

mulvect(x) ==
    /\ mmpc \notin {"freed", "end"}
    /\ MulRow(x) \/ MulCol(x) \/ MulClear(x) \/ MulAdd(x)
    /\ UNCHANGED <<size, mmpc, mm_ij, v, tid>>

MatrixNext == MatrixMain \/ \E x \in Cells : mulvect(x)

MatrixSpec == MatrixInit /\ [][MatrixNext]_matrices

-----------------------------------------------------------------------------
(* Properties *)

\* The places of the cells in v are different and within it for square
\* matrices and for results of one row.
PlacesFit == size[1] = size[3] \/ size[1] = 1

\* No thread finds the coordinates of another ("v[k] holds the (i, j) pair
\* in the k-th computation"), no two threads write one cell, and main prints
\* when every term has been added to every cell once.
ResultIsProduct ==
    PlacesFit =>
        /\ \A x \in Cells : mulpc[x] \in {"clear", "add", "done"} => <<row[x], col[x]>> = x
        /\ mmpc = "print" => \A x \in Cells : \A t \in Terms : mat3[x][t] = 1
=============================================================================
