------------------------------ MODULE EpollInv ------------------------------
(***************************************************************************)
(* The inductive invariant of the single-threaded epoll servers, in named  *)
(* parts.                                                                  *)
(***************************************************************************)
EXTENDS MCEpoll

Distinct(s) == \A i, k \in DOMAIN s : s[i] = s[k] => i = k

\* Types, as far as the argument needs them: where the program is, and the
\* kernel with what was read.
Event == [fd : Fds, events : SUBSET Events]
Position ==
    /\ pc \in {"start", "add", "wait", "event", "accept", "read", "write", "aborted"}
    /\ evs \in Seq(Event) /\ ei \in Nat \ {0}
KernelTypes ==
    /\ backlog \in Seq(Conns) /\ ready \in Seq(Fds)
    /\ interest \in [Fds -> SUBSET {"IN", "OUT", "ET"}]
    /\ sock \in [Conns -> {"new", "backlog", "open", "closed"}]
    /\ peer \in [Conns -> {"open", "fin", "rst"}]
    /\ unread \in [Conns -> Nat] /\ nsent \in [Conns -> Nat] /\ nread \in [Conns -> Nat]

\* The kernel: what waits in the backlog is a connection of its own, only open
\* sockets are registered, and every registration has EPOLLIN.
Kernel ==
    /\ Distinct(backlog) /\ Distinct(ready)
    /\ \A c \in Elements(backlog) : sock[c] = "backlog"
    /\ \A c \in Conns : interest[c] # {} => sock[c] = "open"
    /\ \A f \in Fds : interest[f] # {} => "IN" \in interest[f]
    /\ "OUT" \notin interest[Listener]
    /\ program # "epoll_server2" => \A c \in Conns : "OUT" \notin interest[c]
    /\ program = "myepoll" => \A f \in Fds : "ET" \notin interest[f]

\* The events of a round: each is of a descriptor of its own, says something,
\* and tells of a hang-up only after a reset.  Until it is handled the descriptor
\* stays registered.
Round ==
    /\ \A i, k \in DOMAIN evs : evs[i].fd = evs[k].fd => i = k
    /\ \A i \in DOMAIN evs :
         /\ evs[i].fd = Listener => evs[i].events = {"IN"}
         /\ "HUP" \in evs[i].events => peer[evs[i].fd] = "rst"
         /\ "IN" \in evs[i].events \/ (program = "epoll_server2" /\ evs[i].events = {"OUT"})
         /\ i >= ei => interest[evs[i].fd] # {}
    /\ pc \in {"start", "add", "wait"} => evs = <<>>
    /\ pc = "accept" => ei \in DOMAIN evs /\ Fd = Listener
    /\ pc \in {"read", "write"} => ei \in DOMAIN evs /\ Fd \in Conns
    /\ pc = "read" => "IN" \in evs[ei].events

\* Nothing is lost of what was sent, unless the client resets.
Counted == \A c \in Conns : peer[c] # "rst" => nread[c] + unread[c] = nsent[c]

\* A connection that the server closed was read to the end.
ClosedAtEnd ==
    program # "epoll_server2" => \A c \in Conns :
      sock[c] = "closed" /\ peer[c] # "rst" /\ (program = "myepoll" => index[c] # 0) =>
        peer[c] = "fin" /\ unread[c] = 0

\* What can be read or accepted: a level-triggered descriptor is in the list,
\* one that is edge-triggered may be at hand instead.
AtHand(f) == \E i \in DOMAIN evs : i >= ei /\ evs[i].fd = f
Announced ==
    \A f \in Fds : "IN" \in Pending(f) /\ (f = Listener => ~acceptFailed) =>
      f \in Elements(ready) \/ pc = "aborted" \/ ("ET" \in interest[f] /\ AtHand(f))

\* myepoll.c, where every event is level-triggered: the table.
Table ==
    program = "myepoll" =>
    /\ ptr_cli \in [Clis -> [status : BOOLEAN, fd : Conns \cup {NONE}]]
    /\ index \in [Conns -> Clis \cup {0}]
    /\ \A c \in Conns : index[c] # 0 => sock[c] \in {"open", "closed"}
    /\ \A c \in Conns : interest[c] # {} => index[c] \in Clis
    /\ \A i \in Clis : ptr_cli[i].status => ptr_cli[i].fd \in Conns
    /\ IndexesTrue

SingleInv ==
    /\ Position /\ KernelTypes /\ Kernel /\ Round
    /\ Counted /\ ClosedAtEnd /\ Announced /\ Table
SingleIInv == SingleThreaded => SingleInv
=============================================================================
