----------------------------- MODULE EchoService -----------------------------
(***************************************************************************)
(* What an echo server promises to each of its connections: whatever the   *)
(* client sent comes back to it, unchanged and in order, until the         *)
(* connection is closed; a closed connection gets nothing more.            *)
(***************************************************************************)
EXTENDS Naturals, Sequences

CONSTANTS Conns, MaxBytes

VARIABLES
    state,      \* "new", "open" or "closed"
    sent,       \* how many bytes the client has sent: 1, 2, ..., sent
    back        \* what has come back

svars == <<state, sent, back>>

ServiceInit ==
    /\ state = [c \in Conns |-> "new"]
    /\ sent = [c \in Conns |-> 0]
    /\ back = [c \in Conns |-> <<>>]

Open(c) ==
    /\ state[c] = "new"
    /\ state' = [state EXCEPT ![c] = "open"]
    /\ UNCHANGED <<sent, back>>

Send(c) ==
    /\ state[c] = "open" /\ sent[c] < MaxBytes
    /\ sent' = [sent EXCEPT ![c] = @ + 1]
    /\ UNCHANGED <<state, back>>

\* The next n bytes come back.
Echo(c) ==
    /\ state[c] = "open"
    /\ \E n \in 1..(sent[c] - Len(back[c])) :
         back' = [back EXCEPT ![c] = @ \o [i \in 1..n |-> Len(back[c]) + i]]
    /\ UNCHANGED <<state, sent>>

\* One or more connections are closed.
Close ==
    /\ \E S \in SUBSET {c \in Conns : state[c] = "open"} :
         state' = [c \in Conns |-> IF c \in S THEN "closed" ELSE state[c]]
    /\ UNCHANGED <<sent, back>>

ServiceNext == Close \/ \E c \in Conns : Open(c) \/ Send(c) \/ Echo(c)

ServiceSpec == ServiceInit /\ [][ServiceNext]_svars
=============================================================================
