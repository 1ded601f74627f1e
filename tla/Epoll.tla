------------------------------- MODULE Epoll -------------------------------
(***************************************************************************)
(* What the servers under epoll1 use of the kernel: a listening socket     *)
(* with its backlog, connections, and one epoll descriptor.  epoll keeps a *)
(* list of ready descriptors in the order in which they became ready.  A   *)
(* descriptor enters it when something happens to it (a connection, data,  *)
(* the end of the stream, a reset) or when it is registered while it is    *)
(* ready; epoll_wait takes descriptors from its head and puts back only    *)
(* those that are not edge-triggered.                                      *)
(*                                                                         *)
(* A connection and its descriptor have one name; descriptors are not      *)
(* reused.                                                                 *)
(***************************************************************************)
EXTENDS Integers, Sequences

CONSTANTS
    Conns,          \* the connections
    Listener,       \* the listening socket
    MAXEVENTS,      \* how many events epoll_wait may return
    MaxReq          \* bound: the bytes one client sends

ASSUME EpollAssumption ==
    Listener \notin Conns /\ MAXEVENTS \in Nat \ {0} /\ MaxReq \in Nat

Fds == Conns \cup {Listener}
Events == {"IN", "OUT", "HUP"}

VARIABLES
    listening,      \* whether listen was called
    backlog,        \* the connections that wait to be accepted
    interest,       \* what a descriptor is registered for, {} if it is not
    ready,          \* the list of ready descriptors
    sock,           \* "new", "backlog", "open" or "closed"
    unread, nsent,  \* bytes that can be read, bytes the client has sent
    peer            \* the client: "open", "fin" or "rst"

net    == <<listening, backlog, sock, nsent, peer>>
kernel == <<net, interest, ready, unread>>

EpollTypeOK ==
    /\ listening \in BOOLEAN
    /\ backlog \in Seq(Conns)
    /\ interest \in [Fds -> SUBSET {"IN", "OUT", "ET"}]
    /\ ready \in Seq(Fds)
    /\ sock \in [Conns -> {"new", "backlog", "open", "closed"}]
    /\ unread \in [Conns -> 0..MaxReq] /\ nsent \in [Conns -> 0..MaxReq]
    /\ peer \in [Conns -> {"open", "fin", "rst"}]

EpollInit ==
    /\ listening = FALSE /\ backlog = <<>>
    /\ interest = [f \in Fds |-> {}] /\ ready = <<>>
    /\ sock = [c \in Conns |-> "new"]
    /\ unread = [c \in Conns |-> 0] /\ nsent = [c \in Conns |-> 0]
    /\ peer = [c \in Conns |-> "open"]

-----------------------------------------------------------------------------
(* epoll *)

Elements(s) == {s[i] : i \in DOMAIN s}

\* The members of S in s, in their order.  (SelectSeq with a set for its test:
\* what takes an operator cannot be reasoned about for every operator.)
Filter(s, S) ==
    LET F[i \in 0..Len(s)] ==
          IF i = 0 THEN <<>> ELSE IF s[i] \in S THEN Append(F[i - 1], s[i]) ELSE F[i - 1]
    IN  F[Len(s)]

\* The events of a descriptor that it is registered for; a hang-up is always
\* reported.
Mask(f) ==
    IF f = Listener THEN {e \in {"IN"} : backlog # <<>>}
    ELSE {e \in Events : CASE e = "IN"  -> unread[f] > 0 \/ peer[f] # "open"
                           [] e = "OUT" -> TRUE
                           [] e = "HUP" -> peer[f] = "rst"}
Pending(f) == IF interest[f] = {} THEN {} ELSE Mask(f) \cap (interest[f] \cup {"HUP"})

\* The list when something has happened to f.
Woken(f, list) == IF f \in Elements(list) THEN list ELSE Append(list, f)

\* EPOLL_CTL_ADD and EPOLL_CTL_MOD.
Register(f, evs) ==
    /\ interest' = [interest EXCEPT ![f] = evs]
    /\ ready' = IF Mask(f) \cap (evs \cup {"HUP"}) = {} THEN ready ELSE Woken(f, ready)

\* close, which removes the descriptor from epoll.
CloseFd(f) ==
    /\ sock' = [sock EXCEPT ![f] = "closed"]
    /\ interest' = [interest EXCEPT ![f] = {}]
    /\ ready' = Filter(ready, Fds \ {f})
    /\ UNCHANGED <<listening, backlog, nsent, peer, unread>>

Min2(a, b) == IF a < b THEN a ELSE b

\* What epoll_wait takes from the list, the events that it returns and the
\* list that it leaves.
Batch == SubSeq(ready, 1, Min2(MAXEVENTS, Len(ready)))
Hot == Filter(Batch, {f \in Fds : Pending(f) # {}})
Reported == [i \in 1..Len(Hot) |-> [fd |-> Hot[i], events |-> Pending(Hot[i])]]
LevelTriggered == {f \in Fds : "ET" \notin interest[f]}
LeftReady == SubSeq(ready, Len(Batch) + 1, Len(ready)) \o Filter(Hot, LevelTriggered)

-----------------------------------------------------------------------------
(* The clients *)

\* Something has happened to c: it wakes epoll if c is registered.
Happened(c) == ready' = IF interest[c] = {} THEN ready ELSE Woken(c, ready)

Connect(c) ==
    /\ listening /\ sock[c] = "new"
    /\ sock' = [sock EXCEPT ![c] = "backlog"]
    /\ backlog' = Append(backlog, c)
    /\ Happened(Listener)
    /\ UNCHANGED <<listening, interest, unread, nsent, peer>>

ClientSend(c) ==
    /\ sock[c] \in {"backlog", "open"} /\ peer[c] = "open" /\ nsent[c] < MaxReq
    /\ nsent' = [nsent EXCEPT ![c] = @ + 1]
    /\ unread' = [unread EXCEPT ![c] = @ + 1]
    /\ Happened(c)
    /\ UNCHANGED <<listening, backlog, interest, sock, peer>>

ClientFin(c) ==
    /\ sock[c] \in {"backlog", "open"} /\ peer[c] = "open"
    /\ peer' = [peer EXCEPT ![c] = "fin"]
    /\ Happened(c)
    /\ UNCHANGED <<listening, backlog, interest, sock, unread, nsent>>

\* A reset, which discards what was not read yet.
ClientReset(c) ==
    /\ sock[c] \in {"backlog", "open"} /\ peer[c] # "rst"
    /\ peer' = [peer EXCEPT ![c] = "rst"]
    /\ unread' = [unread EXCEPT ![c] = 0]
    /\ Happened(c)
    /\ UNCHANGED <<listening, backlog, interest, sock, nsent>>

Client(c) == Connect(c) \/ ClientSend(c) \/ ClientFin(c) \/ ClientReset(c)
=============================================================================
