------------------------------- MODULE MyEpoll -------------------------------
(***************************************************************************)
(* epoll1/myepoll.c: a single-threaded server with level-triggered events  *)
(* and a table of clients.  The event of a connection carries its index in *)
(* the table.  A message is answered with its first byte (pos, the length  *)
(* that was read before, stays 0).  lxx_net.h is not in the repository;    *)
(* its functions are those of sockets.                                     *)
(*                                                                         *)
(* recv was successful, it is told, when it did not return 0: after an     *)
(* error the reply goes to a dead connection and SIGPIPE kills the server. *)
(* The end of a stream is told from an empty socket by errno, which recv   *)
(* does not set when it returns 0.                                         *)
(***************************************************************************)
EXTENDS EpollServers, FiniteSets

CONSTANT MAX_CLIENT_SIZE

ASSUME TableAssumption == MAX_CLIENT_SIZE \in Nat

Clis == 1..MAX_CLIENT_SIZE

VARIABLES
    ptr_cli,        \* the table
    index,          \* what the event of a connection carries, 0 if nothing
    errno           \* "EAGAIN" or "other"

table == <<ptr_cli, index, errno>>

TableTypeOK ==
    /\ ptr_cli \in [Clis -> [status : BOOLEAN, fd : Conns \cup {NONE}]]
    /\ index \in [Conns -> Clis \cup {0}] /\ errno \in {"EAGAIN", "other"}

\* The memory of the table is fresh from the system: all zero.
TableInit ==
    /\ ptr_cli = [i \in Clis |-> [status |-> FALSE, fd |-> NONE]]
    /\ index = [c \in Conns |-> 0]
    /\ errno = "other"

MyListen == Server2Listen
MyAdd == Server2Add
MyWait == ServerWait

MyEvent ==
    /\ pc = "event"
    /\ \/ ei > Len(evs) /\ NextWait
       \/ ei <= Len(evs) /\ Fd = Listener /\ Goto("accept")
       \/ ei <= Len(evs) /\ Fd # Listener /\ Goto("read")
    /\ UNCHANGED <<kernel, nread, acceptFailed>>

FreeClis == {i \in Clis : ~ptr_cli[i].status}
FirstFree == CHOOSE i \in FreeClis : \A k \in FreeClis : i <= k

\* One connection per event; it is closed at once when it cannot be made
\* non-blocking or the table is full.
do_accept_client ==
    /\ pc = "accept" /\ NextEvent
    /\ \/ LET c == Head(backlog) IN
          /\ backlog # <<>> /\ backlog' = Tail(backlog)
          /\ \/ /\ FreeClis = {} \/ "accept" \in Failures
                /\ sock' = [sock EXCEPT ![c] = "closed"]
                /\ UNCHANGED <<interest, ready, ptr_cli, index>>
             \/ /\ FreeClis # {}
                /\ sock' = [sock EXCEPT ![c] = "open"]
                /\ ptr_cli' = [ptr_cli EXCEPT ![FirstFree] = [status |-> TRUE, fd |-> c]]
                /\ index' = [index EXCEPT ![c] = FirstFree]
                /\ Register(c, {"IN"})
          /\ UNCHANGED acceptFailed
       \/ /\ "accept" \in Failures /\ acceptFailed' = TRUE
          /\ UNCHANGED <<backlog, sock, interest, ready, ptr_cli, index>>
    /\ UNCHANGED <<listening, nsent, peer, unread, nread, errno>>

Freed_Not(i) == ptr_cli
Freed(i) == [ptr_cli EXCEPT ![i].status = FALSE]

\* Nobody else reads: there are data, or the end, or an error.
do_read_data ==
    LET i == index[Fd]
        c == ptr_cli[i].fd
    IN  /\ pc = "read"
        /\ \/ ReadSome(c) /\ Goto("write") /\ UNCHANGED ptr_cli
           \/ peer[c] = "rst" /\ Goto("aborted") /\ UNCHANGED <<kernel, nread, ptr_cli>>
           \/ /\ AtEof(c) /\ NextEvent
              /\ IF errno = "EAGAIN" THEN UNCHANGED <<kernel, ptr_cli>>
                                     ELSE CloseFd(c) /\ ptr_cli' = Freed(i)
              /\ UNCHANGED nread
        /\ UNCHANGED <<acceptFailed, index, errno>>

\* The reply; whether it is sent matters only for errno.
MyWrite ==
    /\ pc = "write" /\ NextEvent
    /\ \/ UNCHANGED errno
       \/ "full" \in Failures /\ errno' = "EAGAIN"
       \/ peer[Fd] = "rst" /\ errno' = "other"
    /\ UNCHANGED <<kernel, nread, acceptFailed, ptr_cli, index>>

MyLoop ==
    \/ (MyListen \/ MyAdd \/ MyWait \/ MyEvent) /\ UNCHANGED table
    \/ do_accept_client \/ do_read_data \/ MyWrite
=============================================================================
