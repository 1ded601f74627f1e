---------------------------- MODULE EpollServers ----------------------------
(***************************************************************************)
(* The single-threaded servers epoll1/epoll_server.c, epoll-example.c and  *)
(* epoll_server2.c.  Each is one loop over the events of epoll_wait; a     *)
(* step is one system call.  The first two register everything            *)
(* edge-triggered and must read and accept until EAGAIN; the third has a   *)
(* level-triggered listener, answers when the connection can be written    *)
(* and then closes it.                                                     *)
(*                                                                         *)
(* A definition whose name has a suffix (AfterAccept_Once) is a wrong      *)
(* variant of the definition that follows it, which some property refutes. *)
(***************************************************************************)
EXTENDS Epoll

CONSTANTS
    ReadSize,       \* sizeof buf
    Addresses,      \* bound: how many addresses getaddrinfo returns
    Failures        \* what may fail without a cause of ours: "bind", "accept",
                    \* "full" (the socket has no room for a reply)

ASSUME ServersAssumption ==
    ReadSize \in Nat \ {0} /\ Addresses \in Nat /\ Failures \subseteq {"bind", "accept", "full"}

VARIABLES
    pc,
    evs, ei,        \* the array of events and the index of the loop
    nread,          \* how much was read from a connection: printed or answered
    acceptFailed    \* history: accept failed with a connection in the backlog

local == <<pc, evs, ei, nread, acceptFailed>>

CONSTANT NONE       \* data.fd = -1

ServersTypeOK ==
    /\ EpollTypeOK
    /\ pc \in {"start", "add", "wait", "event", "accept", "read", "write", "find", "hand",
               "aborted"}
    /\ evs \in Seq([fd : Fds \cup {NONE}, events : SUBSET Events]) /\ ei \in Nat
    /\ acceptFailed \in BOOLEAN
    /\ nread \in [Conns -> 0..MaxReq]

ServersInit ==
    /\ EpollInit
    /\ pc = "start" /\ evs = <<>> /\ ei = 1
    /\ nread = [c \in Conns |-> 0]
    /\ acceptFailed = FALSE

Fd == evs[ei].fd
Goto(l) == pc' = l /\ UNCHANGED <<evs, ei>>
NextEvent == pc' = "event" /\ ei' = ei + 1 /\ UNCHANGED evs
\* The next call of epoll_wait overwrites the events.
NextWait == pc' = "wait" /\ evs' = <<>> /\ ei' = 1

-----------------------------------------------------------------------------
(* epoll_server.c *)

\* create_and_bind: the first address for which both socket and bind succeed;
\* 0 if there is none.
create_and_bind(outcome) ==
    IF \E rp \in 1..Addresses : outcome[rp] = "bound"
      THEN CHOOSE rp \in 1..Addresses :
             outcome[rp] = "bound" /\ \A q \in 1..(rp - 1) : outcome[q] # "bound"
      ELSE 0

\* The listening socket, non-blocking; without one the program aborts.
ServerListen ==
    /\ pc = "start"
    /\ \E outcome \in [1..Addresses -> {"no socket", "not bound", "bound"}] :
         /\ "bind" \notin Failures => \A rp \in 1..Addresses : outcome[rp] = "bound"
         /\ IF create_and_bind(outcome) = 0 THEN Goto("aborted") /\ UNCHANGED listening
                                            ELSE Goto("add") /\ listening' = TRUE
    /\ UNCHANGED <<backlog, sock, nsent, peer, interest, ready, unread, nread, acceptFailed>>

ServerAdd ==
    /\ pc = "add" /\ Goto("wait")
    /\ Register(Listener, {"IN", "ET"})
    /\ UNCHANGED <<net, unread, nread, acceptFailed>>

ServerWait ==
    /\ pc = "wait" /\ ready # <<>>
    /\ evs' = Reported /\ ready' = LeftReady
    /\ ei' = 1 /\ pc' = "event"
    /\ UNCHANGED <<net, interest, unread, nread, acceptFailed>>

\* An error or a hang-up closes the descriptor.
ServerEvent ==
    /\ pc = "event"
    /\ IF ei > Len(evs) THEN NextWait /\ UNCHANGED kernel
       ELSE IF "HUP" \in evs[ei].events \/ "IN" \notin evs[ei].events
         THEN NextEvent /\ CloseFd(Fd)
       ELSE Goto(IF Fd = Listener THEN "accept" ELSE "read") /\ UNCHANGED kernel
    /\ UNCHANGED <<nread, acceptFailed>>

\* Accept until EAGAIN, or until accept fails for another reason, which
\* leaves the rest of the backlog.
AfterAccept_Once == NextEvent
AfterAccept == Goto("accept")

ServerAccept ==
    /\ pc = "accept"
    /\ \/ /\ backlog # <<>>
          /\ sock' = [sock EXCEPT ![Head(backlog)] = "open"]
          /\ backlog' = Tail(backlog)
          /\ Register(Head(backlog), {"IN", "ET"})
          /\ AfterAccept
          /\ UNCHANGED <<listening, nsent, peer, unread, acceptFailed>>
       \/ /\ backlog = <<>> \/ "accept" \in Failures
          /\ acceptFailed' = (acceptFailed \/ backlog # <<>>)
          /\ NextEvent
          /\ UNCHANGED kernel
    /\ UNCHANGED nread

\* One read: data, EAGAIN, the end of the stream or an error.
ReadSome(c) ==
    /\ \E n \in 1..Min2(unread[c], ReadSize) :
         /\ unread' = [unread EXCEPT ![c] = @ - n]
         /\ nread' = [nread EXCEPT ![c] = @ + n]
    /\ UNCHANGED <<net, interest, ready>>
AtEof_Early(c) == peer[c] # "open"
AtEof(c) == unread[c] = 0 /\ peer[c] # "open"

ReadRest(c) ==
    /\ IF AtEof(c) THEN CloseFd(c) ELSE unread[c] = 0 /\ UNCHANGED kernel
    /\ NextEvent
    /\ UNCHANGED nread

ServerRead ==
    /\ pc = "read"
    /\ \/ ReadSome(Fd) /\ Goto("write")
       \/ ReadRest(Fd)
    /\ UNCHANGED acceptFailed

\* The reply; a write that fails aborts the whole program.
AfterWrite == Goto("read")

ServerWrite ==
    /\ pc = "write"
    /\ \/ peer[Fd] # "rst" /\ AfterWrite
       \/ (peer[Fd] = "rst" \/ "full" \in Failures) /\ Goto("aborted")
    /\ UNCHANGED <<kernel, nread, acceptFailed>>

ServerLoop ==
    ServerListen \/ ServerAdd \/ ServerWait \/ ServerEvent \/ ServerAccept \/ ServerRead \/ ServerWrite

-----------------------------------------------------------------------------
(* epoll-example.c: the same program but for what it does with the data     *)
(* (and that it prints the name of the peer, which changes nothing).        *)

ExampleListen == ServerListen
ExampleAdd == ServerAdd
ExampleWait == ServerWait
ExampleEvent == ServerEvent
ExampleAccept == ServerAccept

\* The data are written to the standard output, until EAGAIN.
ExampleRead ==
    /\ pc = "read"
    /\ \/ ReadSome(Fd) /\ Goto("read")
       \/ ReadRest(Fd)
    /\ UNCHANGED acceptFailed

ExampleLoop ==
    ExampleListen \/ ExampleAdd \/ ExampleWait \/ ExampleEvent \/ ExampleAccept \/ ExampleRead

-----------------------------------------------------------------------------
(* epoll_server2.c *)

Server2Listen ==
    /\ pc = "start"
    /\ \/ Goto("add") /\ listening' = TRUE
       \/ "bind" \in Failures /\ Goto("aborted") /\ UNCHANGED listening
    /\ UNCHANGED <<backlog, sock, nsent, peer, interest, ready, unread, nread, acceptFailed>>

\* The listener is level-triggered.
Server2Add ==
    /\ pc = "add" /\ Goto("wait")
    /\ Register(Listener, {"IN"})
    /\ UNCHANGED <<net, unread, nread, acceptFailed>>

\* What is done for an event that has EPOLLIN, and for one that has only
\* EPOLLOUT.
Server2Event ==
    /\ pc = "event"
    /\ CASE ei > Len(evs) -> NextWait
         [] ei <= Len(evs) /\ Fd = Listener -> Goto("accept")
         [] ei <= Len(evs) /\ Fd # Listener /\ "IN" \in evs[ei].events -> Goto("read")
         [] ei <= Len(evs) /\ Fd # Listener /\ "IN" \notin evs[ei].events ->
              IF "OUT" \in evs[ei].events THEN Goto("write") ELSE NextEvent
    /\ UNCHANGED <<kernel, nread, acceptFailed>>

Server2Accept == ServerAccept

\* Everything is read; then the events that were reported and EPOLLOUT become
\* the interest, which is not edge-triggered any more.
NewInterest_NoOut == evs[ei].events \ {"HUP"}
NewInterest == (evs[ei].events \ {"HUP"}) \cup {"OUT"}

Server2Read ==
    /\ pc = "read"
    /\ \/ ReadSome(Fd) /\ Goto("read")
       \/ /\ unread[Fd] = 0
          /\ Register(Fd, NewInterest)
          /\ IF "OUT" \in evs[ei].events THEN Goto("write") ELSE NextEvent
          /\ UNCHANGED <<net, unread, nread>>
    /\ UNCHANGED acceptFailed

\* The reply, whole or cut off by a full socket, and the end of the
\* connection; after a reset the write fails, or SIGPIPE kills the program if
\* the reset was reported before.
Server2Write ==
    /\ pc = "write"
    /\ \/ CloseFd(Fd) /\ NextEvent
       \/ peer[Fd] = "rst" /\ Goto("aborted") /\ UNCHANGED kernel
    /\ UNCHANGED <<nread, acceptFailed>>

Server2Loop ==
    Server2Listen \/ Server2Add \/ ServerWait \/ Server2Event \/ Server2Accept
      \/ Server2Read \/ Server2Write
=============================================================================
