----------------------------- MODULE SleepBarber -----------------------------
(***************************************************************************)
(* The sleeping barber of eleutheria/pthreads/sleepbarber.c: one barber    *)
(* thread, customer threads, and three semaphores.  A step is one          *)
(* semaphore call, one read or one write of freeseats.                     *)
(*                                                                         *)
(* A definition whose name has a suffix (BarEnter_NoLock) is a wrong       *)
(* variant of the definition that follows it, which some property refutes. *)
(***************************************************************************)
EXTENDS Integers, FiniteSets

CONSTANTS
    Customers,          \* NUM_CUSTOMERS threads
    MAX_FREESEATS

ASSUME BarberAssumption == MAX_FREESEATS \in Nat /\ IsFiniteSet(Customers)

VARIABLES
    barsem, cussem, seasem, freeseats,
    bpc, btmp,          \* barthread: position and the value read
    cpc, ctmp           \* custhread: positions and the values read

vars == <<barsem, cussem, seasem, freeseats, bpc, btmp, cpc, ctmp>>

TypeOK ==
    /\ barsem \in Nat /\ cussem \in Nat /\ seasem \in {0, 1}
    /\ freeseats \in 0..MAX_FREESEATS
    /\ bpc \in {"sleep", "enter", "read", "write", "call", "leave"}
    /\ btmp \in Nat
    /\ cpc \in [Customers -> {"enter", "check", "take", "wake", "leave", "wait", "turn", "done"}]
    /\ ctmp \in [Customers -> Nat]

Init ==
    /\ barsem = 0 /\ cussem = 0 /\ seasem = 1
    /\ freeseats = MAX_FREESEATS
    /\ bpc = "sleep" /\ btmp = 0
    /\ cpc = [c \in Customers |-> "enter"] /\ ctmp = [c \in Customers |-> 0]

-----------------------------------------------------------------------------
(* barthread *)

BarSleep ==
    /\ bpc = "sleep" /\ cussem > 0
    /\ cussem' = cussem - 1 /\ bpc' = "enter"
    /\ UNCHANGED <<barsem, seasem, freeseats, btmp, cpc, ctmp>>

BarEnter_NoLock ==
    /\ bpc = "enter"
    /\ bpc' = "read"
    /\ UNCHANGED <<barsem, cussem, seasem, freeseats, btmp, cpc, ctmp>>
BarEnter ==
    /\ bpc = "enter" /\ seasem > 0
    /\ seasem' = seasem - 1 /\ bpc' = "read"
    /\ UNCHANGED <<barsem, cussem, freeseats, btmp, cpc, ctmp>>

BarRead ==
    /\ bpc = "read"
    /\ btmp' = freeseats /\ bpc' = "write"
    /\ UNCHANGED <<barsem, cussem, seasem, freeseats, cpc, ctmp>>

BarWrite ==
    /\ bpc = "write"
    /\ freeseats' = btmp + 1 /\ bpc' = "call"
    /\ UNCHANGED <<barsem, cussem, seasem, btmp, cpc, ctmp>>

BarCall_NoPost ==
    /\ bpc = "call"
    /\ bpc' = "leave"
    /\ UNCHANGED <<barsem, cussem, seasem, freeseats, btmp, cpc, ctmp>>
BarCall ==
    /\ bpc = "call"
    /\ barsem' = barsem + 1 /\ bpc' = "leave"
    /\ UNCHANGED <<cussem, seasem, freeseats, btmp, cpc, ctmp>>

BarLeave ==
    /\ bpc = "leave"
    /\ seasem' = seasem + 1 /\ bpc' = "sleep"
    /\ UNCHANGED <<barsem, cussem, freeseats, btmp, cpc, ctmp>>

Barber == BarSleep \/ BarEnter \/ BarRead \/ BarWrite \/ BarCall \/ BarLeave

-----------------------------------------------------------------------------
(* custhread *)

CusEnter(c) ==
    /\ cpc[c] = "enter" /\ seasem > 0
    /\ seasem' = seasem - 1 /\ cpc' = [cpc EXCEPT ![c] = "check"]
    /\ UNCHANGED <<barsem, cussem, freeseats, bpc, btmp, ctmp>>

CusCheck(c) ==
    /\ cpc[c] = "check"
    /\ ctmp' = [ctmp EXCEPT ![c] = freeseats]
    /\ cpc' = [cpc EXCEPT ![c] = IF freeseats > 0 THEN "take" ELSE "turn"]
    /\ UNCHANGED <<barsem, cussem, seasem, freeseats, bpc, btmp>>

CusTake(c) ==
    /\ cpc[c] = "take"
    /\ freeseats' = ctmp[c] - 1
    /\ cpc' = [cpc EXCEPT ![c] = "wake"]
    /\ UNCHANGED <<barsem, cussem, seasem, bpc, btmp, ctmp>>

CusWake(c) ==
    /\ cpc[c] = "wake"
    /\ cussem' = cussem + 1 /\ cpc' = [cpc EXCEPT ![c] = "leave"]
    /\ UNCHANGED <<barsem, seasem, freeseats, bpc, btmp, ctmp>>

CusLeave(c) ==
    /\ cpc[c] = "leave"
    /\ seasem' = seasem + 1 /\ cpc' = [cpc EXCEPT ![c] = "wait"]
    /\ UNCHANGED <<barsem, cussem, freeseats, bpc, btmp, ctmp>>

CusWait(c) ==
    /\ cpc[c] = "wait" /\ barsem > 0
    /\ barsem' = barsem - 1 /\ cpc' = [cpc EXCEPT ![c] = "done"]
    /\ UNCHANGED <<cussem, seasem, freeseats, bpc, btmp, ctmp>>

\* No free seats: the customer leaves.
CusTurn_KeepsLock(c) ==
    /\ cpc[c] = "turn"
    /\ cpc' = [cpc EXCEPT ![c] = "done"]
    /\ UNCHANGED <<barsem, cussem, seasem, freeseats, bpc, btmp, ctmp>>
CusTurn(c) ==
    /\ cpc[c] = "turn"
    /\ seasem' = seasem + 1 /\ cpc' = [cpc EXCEPT ![c] = "done"]
    /\ UNCHANGED <<barsem, cussem, freeseats, bpc, btmp, ctmp>>

Customer(c) ==
    \/ CusEnter(c) \/ CusCheck(c) \/ CusTake(c) \/ CusWake(c)
    \/ CusLeave(c) \/ CusWait(c) \/ CusTurn(c)

-----------------------------------------------------------------------------

Next == Barber \/ \E c \in Customers : Customer(c)

Spec == Init /\ [][Next]_vars

\* Every thread that is not blocked keeps running.
FairSpec == Spec /\ WF_vars(Barber) /\ \A c \in Customers : WF_vars(Customer(c))

-----------------------------------------------------------------------------
(* Properties *)

BarberInside == bpc \in {"read", "write", "call", "leave"}
Inside(c) == cpc[c] \in {"check", "take", "wake", "leave", "turn"}

\* seasem gives "mutual exclusion for freeseats": no two threads are between
\* their sem_wait and their sem_post at the same time.
SeatExclusion ==
    /\ \A c, d \in Customers : Inside(c) /\ Inside(d) => c = d
    /\ BarberInside => \A c \in Customers : ~Inside(c)

\* Seats are neither lost nor invented, whatever the interleaving: each seat
\* is free, announced on cussem, or in the hands of one thread.
SeatsConserved ==
    freeseats + cussem
      + (IF bpc \in {"enter", "read", "write"} THEN 1 ELSE 0)
      + (IF \E c \in Customers : cpc[c] = "wake" THEN 1 ELSE 0) = MAX_FREESEATS

\* The barber calls exactly as many customers as took a seat: with a seat
\* taken from the count goes one post of barsem.
Seated == {c \in Customers : cpc[c] \in {"wake", "leave", "wait"}}
CallsMatch ==
    Cardinality(Seated)
      = barsem + (MAX_FREESEATS - freeseats) + (IF bpc = "call" THEN 1 ELSE 0)

\* Every customer gets a haircut or is turned away; nobody waits for ever.
EveryoneLeaves == \A c \in Customers : <>(cpc[c] = "done")
=============================================================================
