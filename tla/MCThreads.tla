----------------------------- MODULE MCThreads -----------------------------
(***************************************************************************)
(* The programs with threads of eleutheria for TLC: one behaviour runs one *)
(* of them, chosen at the start.                                           *)
(***************************************************************************)
EXTENDS SleepBarber, FsmQueue, MatrixMul

CONSTANTS c1, c2, c3, c4, alpha, num

MCSizes == {<<1, 1, 1>>, <<2, 2, 2>>, <<1, 2, 3>>, <<2, 1, 1>>}

VARIABLE program

threadvars == <<vars, queues, matrices, program>>

\* Only the program that runs has more than one initial state.
ThreadsInit ==
    /\ Init /\ QueuesInit /\ MatrixInit
    /\ program \in {"sleepbarber", "test_thread", "matrixmul"}
    /\ program # "matrixmul" => size = <<1, 1, 1>>

OfBarber(step) == program = "sleepbarber" /\ step /\ UNCHANGED <<queues, matrices, program>>
OfQueue(step) == program = "test_thread" /\ step /\ UNCHANGED <<vars, matrices, program>>
OfMatrices(step) == program = "matrixmul" /\ step /\ UNCHANGED <<vars, queues, program>>

ThreadsNext == OfBarber(Next) \/ OfQueue(QueuesNext) \/ OfMatrices(MatrixNext)

\* Every thread that is not blocked keeps running.
ThreadsSpec ==
    /\ ThreadsInit /\ [][ThreadsNext]_threadvars
    /\ WF_threadvars(OfBarber(Barber))
    /\ \A c \in Customers : WF_threadvars(OfBarber(Customer(c)))

\* EveryoneLeaves of the barber's shop: every customer is served or turned
\* away.
ShopEmpties == program = "sleepbarber" => EveryoneLeaves
=============================================================================
