----------------------------- MODULE IocpClient -----------------------------
(***************************************************************************)
(* The client of iocp1/client/IocpClient.Cpp: main connects a socket for   *)
(* every thread and starts it, waits for all of them and then raises       *)
(* CTRL-C for itself, whose handler closes the sockets and the threads'    *)
(* handles and sets the event that main waits for last; each EchoThread    *)
(* sends a buffer, reads as much back and compares.                        *)
(*                                                                         *)
(* All bytes of a thread are equal, so a connection is described by how    *)
(* many of them are on their way: in the buffers towards the server, in    *)
(* the server's context and in the buffers back.  The server is that of    *)
(* iocp1/server: it reads up to ServerBuf bytes and does not read again    *)
(* before all of them are written.  A step is a stretch of code with one   *)
(* access to g_ThreadInfo or one system call.                              *)
(*                                                                         *)
(* A definition whose name has a suffix (RecvDone_Any) is a wrong variant  *)
(* of the definition that follows it, which some property refutes.         *)
(***************************************************************************)
EXTENDS Integers

CONSTANTS
    nTotalThreads,  \* the option -t
    nBufSize,       \* the option -b
    ToServer,       \* how many bytes a connection buffers towards the server
    ServerBuf,      \* the size of the server's buffer
    ToClient,       \* how many bytes a connection buffers towards the client
    MaxCtrl,        \* bound: console events from outside
    Failures        \* what may fail: "connect", "thread", "server"

ASSUME ClientAssumption ==
    /\ nTotalThreads \in Nat \ {0} /\ nBufSize \in Nat \ {0}
    /\ ToServer \in Nat \ {0} /\ ServerBuf \in Nat \ {0} /\ ToClient \in Nat \ {0}
    /\ MaxCtrl \in Nat /\ Failures \subseteq {"connect", "thread", "server"}

ThreadNums == 0..(nTotalThreads - 1)

VARIABLES
    g_bEndClient, g_hCleanupEvent,
    sd,             \* g_ThreadInfo.sd: "INVALID", "new" or "connected"
    hThread,        \* g_ThreadInfo.hThread: "INVALID", "NULL" or "open"
    mpc, mi,        \* main's position and its i
    hpc, hi,        \* the handler's position and its i
    ignored,        \* whether CTRL-C is ignored now
    pending, nctrl, \* CTRL-C events not yet handled, events from outside
    tpc, nTotal,    \* each thread's position, nTotalSend or nTotalRecv
    wire            \* the bytes on their way and whether the server is there

main    == <<mpc, mi>>
handler == <<hpc, hi, ignored, pending, nctrl>>
thread  == <<tpc, nTotal>>
vars    == <<g_bEndClient, g_hCleanupEvent, sd, hThread, main, handler, thread, wire>>

NoBytes == [c2s |-> 0, held |-> 0, s2c |-> 0, server |-> TRUE]

TypeOK ==
    /\ g_bEndClient \in BOOLEAN /\ g_hCleanupEvent \in BOOLEAN
    /\ sd \in [ThreadNums -> {"INVALID", "new", "connected"}]
    /\ hThread \in [ThreadNums -> {"INVALID", "NULL", "open"}]
    /\ mpc \in {"spawn", "socket", "connect", "thread", "join", "generate", "event", "done"}
    /\ mi \in 0..nTotalThreads
    /\ hpc \in {"idle", "ignore", "end", "close", "handle", "wait", "set"}
    /\ hi \in 0..nTotalThreads /\ ignored \in BOOLEAN
    /\ pending \in 0..(MaxCtrl + 1) /\ nctrl \in 0..MaxCtrl
    /\ tpc \in [ThreadNums -> {"none", "send", "recv", "compare", "exit"}]
    /\ nTotal \in [ThreadNums -> 0..nBufSize]
    /\ wire \in [ThreadNums -> [c2s : 0..ToServer, held : 0..ServerBuf, s2c : 0..ToClient,
                                server : BOOLEAN]]

Init ==
    /\ g_bEndClient = FALSE /\ g_hCleanupEvent = FALSE
    /\ sd = [i \in ThreadNums |-> "INVALID"] /\ hThread = [i \in ThreadNums |-> "INVALID"]
    /\ mpc = "spawn" /\ mi = 0
    /\ hpc = "idle" /\ hi = 0 /\ ignored = FALSE /\ pending = 0 /\ nctrl = 0
    /\ tpc = [i \in ThreadNums |-> "none"] /\ nTotal = [i \in ThreadNums |-> 0]
    /\ wire = [i \in ThreadNums |-> NoBytes]

-----------------------------------------------------------------------------
(* The main thread *)

\* The head of the loop that spawns the threads; a flag that is set leaves it.
MainSpawn ==
    /\ mpc = "spawn"
    /\ mpc' = IF mi < nTotalThreads /\ ~g_bEndClient THEN "socket" ELSE "join"
    /\ UNCHANGED <<g_bEndClient, g_hCleanupEvent, sd, hThread, mi, handler, thread, wire>>

\* CreateConnectedSocket: the address and the socket,
MainSocket ==
    /\ mpc = "socket"
    /\ \/ /\ sd' = [sd EXCEPT ![mi] = "new"] /\ mpc' = "connect"
          /\ UNCHANGED <<mi>>
       \/ /\ "connect" \in Failures
          /\ mi' = mi + 1 /\ mpc' = "spawn"
          /\ UNCHANGED sd
    /\ UNCHANGED <<g_bEndClient, g_hCleanupEvent, hThread, handler, thread, wire>>

\* and connect, which fails on a socket that the handler has closed.
MainConnect ==
    /\ mpc = "connect"
    /\ \/ /\ sd[mi] = "new"
          /\ sd' = [sd EXCEPT ![mi] = "connected"] /\ mpc' = "thread"
          /\ UNCHANGED <<mi>>
       \/ /\ "connect" \in Failures \/ sd[mi] = "INVALID"
          /\ mi' = mi + 1 /\ mpc' = "spawn"
          /\ UNCHANGED sd
    /\ UNCHANGED <<g_bEndClient, g_hCleanupEvent, hThread, handler, thread, wire>>

\* A CreateThread that fails sets bInitError: nobody waits for the threads.
MainCreateThread ==
    /\ mpc = "thread"
    /\ \/ /\ hThread' = [hThread EXCEPT ![mi] = "open"]
          /\ tpc' = [tpc EXCEPT ![mi] = "send"]
          /\ mi' = mi + 1 /\ mpc' = "spawn"
       \/ /\ "thread" \in Failures
          /\ hThread' = [hThread EXCEPT ![mi] = "NULL"]
          /\ mpc' = "generate"
          /\ UNCHANGED <<mi, tpc>>
    /\ UNCHANGED <<g_bEndClient, g_hCleanupEvent, sd, handler, nTotal, wire>>

\* WaitForMultipleObjects returns when all threads have ended, and at once
\* when one of the handles is not valid.
MainJoin ==
    /\ mpc = "join" /\ mpc' = "generate"
    /\ \/ \E i \in ThreadNums : hThread[i] # "open"
       \/ \A i \in ThreadNums : tpc[i] = "exit"
    /\ UNCHANGED <<g_bEndClient, g_hCleanupEvent, sd, hThread, mi, handler, thread, wire>>

\* GenerateConsoleCtrlEvent.
MainGenerate ==
    /\ mpc = "generate" /\ mpc' = "event"
    /\ pending' = pending + 1
    /\ UNCHANGED <<g_bEndClient, g_hCleanupEvent, sd, hThread, mi, hpc, hi, ignored, nctrl, thread,
                   wire>>

MainEvent ==
    /\ mpc = "event" /\ g_hCleanupEvent /\ mpc' = "done"
    /\ UNCHANGED <<g_bEndClient, g_hCleanupEvent, sd, hThread, mi, handler, thread, wire>>

Main ==
    \/ MainSpawn \/ MainSocket \/ MainConnect \/ MainCreateThread
    \/ MainJoin \/ MainGenerate \/ MainEvent

-----------------------------------------------------------------------------
(* EchoThread *)

Min2(a, b) == IF a < b THEN a ELSE b

\* send and recv fail on a socket that was closed here or by the server.
Fails(i) == sd[i] # "connected" \/ ~wire[i].server

\* SendBuffer: send until the whole buffer has gone.
ThreadSend(i) ==
    /\ mpc # "done" /\ tpc[i] = "send"
    /\ \/ /\ ~Fails(i)
          /\ \E n \in 1..Min2(nBufSize - nTotal[i], ToServer - wire[i].c2s) :
               /\ wire' = [wire EXCEPT ![i].c2s = @ + n]
               /\ IF nTotal[i] + n < nBufSize
                    THEN nTotal' = [nTotal EXCEPT ![i] = @ + n] /\ UNCHANGED tpc
                    ELSE nTotal' = [nTotal EXCEPT ![i] = 0] /\ tpc' = [tpc EXCEPT ![i] = "recv"]
       \/ /\ Fails(i)
          /\ tpc' = [tpc EXCEPT ![i] = "exit"]
          /\ UNCHANGED <<nTotal, wire>>
    /\ UNCHANGED <<g_bEndClient, g_hCleanupEvent, sd, hThread, main, handler>>

\* RecvBuffer: receive until as much has come back.
RecvDone_Any(i, n) == TRUE
RecvDone_OneMore(i, n) == nTotal[i] + n > nBufSize
RecvDone(i, n) == nTotal[i] + n >= nBufSize

ThreadRecv(i) ==
    /\ mpc # "done" /\ tpc[i] = "recv"
    /\ \/ /\ ~Fails(i)
          /\ \E n \in 1..Min2(nBufSize - nTotal[i], wire[i].s2c) :
               /\ wire' = [wire EXCEPT ![i].s2c = @ - n]
               /\ IF RecvDone(i, n)
                    THEN nTotal' = [nTotal EXCEPT ![i] = 0] /\ tpc' = [tpc EXCEPT ![i] = "compare"]
                    ELSE nTotal' = [nTotal EXCEPT ![i] = @ + n] /\ UNCHANGED tpc
       \/ /\ Fails(i)
          /\ tpc' = [tpc EXCEPT ![i] = "exit"]
          /\ UNCHANGED <<nTotal, wire>>
    /\ UNCHANGED <<g_bEndClient, g_hCleanupEvent, sd, hThread, main, handler>>

\* The first and the last byte are compared: ack, and the next round.
ThreadCompare(i) ==
    /\ mpc # "done" /\ tpc[i] = "compare"
    /\ tpc' = [tpc EXCEPT ![i] = "send"]
    /\ UNCHANGED <<g_bEndClient, g_hCleanupEvent, sd, hThread, main, handler, nTotal, wire>>

Thread(i) == ThreadSend(i) \/ ThreadRecv(i) \/ ThreadCompare(i)

-----------------------------------------------------------------------------
(* The server at the other end *)

ServerReads(i) ==
    /\ sd[i] = "connected" /\ wire[i].server /\ wire[i].held = 0
    /\ \E n \in 1..Min2(wire[i].c2s, ServerBuf) :
         wire' = [wire EXCEPT ![i].c2s = @ - n, ![i].held = n]
    /\ UNCHANGED <<g_bEndClient, g_hCleanupEvent, sd, hThread, main, handler, thread>>

ServerWrites(i) ==
    /\ sd[i] = "connected" /\ wire[i].server
    /\ \E n \in 1..Min2(wire[i].held, ToClient - wire[i].s2c) :
         wire' = [wire EXCEPT ![i].held = @ - n, ![i].s2c = @ + n]
    /\ UNCHANGED <<g_bEndClient, g_hCleanupEvent, sd, hThread, main, handler, thread>>

ServerCloses(i) ==
    /\ "server" \in Failures /\ sd[i] = "connected" /\ wire[i].server
    /\ wire' = [wire EXCEPT ![i].server = FALSE]
    /\ UNCHANGED <<g_bEndClient, g_hCleanupEvent, sd, hThread, main, handler, thread>>

Server(i) == ServerReads(i) \/ ServerWrites(i)

-----------------------------------------------------------------------------
(* The console control handler *)

\* A console event from outside; CTRL-C is not delivered while it is ignored.
CtrlEvent ==
    /\ mpc # "done" /\ nctrl < MaxCtrl
    /\ nctrl' = nctrl + 1 /\ pending' = pending + 1
    /\ UNCHANGED <<g_bEndClient, g_hCleanupEvent, sd, hThread, main, hpc, hi, ignored, thread, wire>>

CtrlDeliver ==
    /\ mpc # "done" /\ hpc = "idle" /\ pending > 0
    /\ pending' = pending - 1
    /\ hpc' = IF ignored THEN "idle" ELSE "ignore"
    /\ UNCHANGED <<g_bEndClient, g_hCleanupEvent, sd, hThread, main, hi, ignored, nctrl, thread, wire>>

CtrlIgnore ==
    /\ mpc # "done" /\ hpc = "ignore" /\ hpc' = "end"
    /\ ignored' = TRUE
    /\ UNCHANGED <<g_bEndClient, g_hCleanupEvent, sd, hThread, main, hi, pending, nctrl, thread, wire>>

CtrlEnd ==
    /\ mpc # "done" /\ hpc = "end" /\ hpc' = "close"
    /\ g_bEndClient' = TRUE /\ hi' = 0
    /\ UNCHANGED <<g_hCleanupEvent, sd, hThread, main, ignored, pending, nctrl, thread, wire>>

\* The loop over the threads: an abortive closesocket for a valid socket,
CtrlClose ==
    /\ mpc # "done" /\ hpc = "close"
    /\ IF hi = nTotalThreads THEN hpc' = "set" /\ UNCHANGED <<hi, sd>>
       ELSE IF sd[hi] = "INVALID" THEN hi' = hi + 1 /\ UNCHANGED <<hpc, sd>>
       ELSE sd' = [sd EXCEPT ![hi] = "INVALID"] /\ hpc' = "handle" /\ UNCHANGED hi
    /\ UNCHANGED <<g_bEndClient, g_hCleanupEvent, hThread, main, ignored, pending, nctrl, thread, wire>>

\* then the test of the thread's handle,
CtrlHandle ==
    /\ mpc # "done" /\ hpc = "handle"
    /\ IF hThread[hi] = "INVALID" THEN hi' = hi + 1 /\ hpc' = "close"
                                  ELSE hpc' = "wait" /\ UNCHANGED hi
    /\ UNCHANGED <<g_bEndClient, g_hCleanupEvent, sd, hThread, main, ignored, pending, nctrl, thread, wire>>

\* the wait for the thread (which fails on NULL) and CloseHandle.
ThreadGone_NotWaited(i) == TRUE
ThreadGone(i) == hThread[i] = "NULL" \/ tpc[i] = "exit"

CtrlWait ==
    /\ mpc # "done" /\ hpc = "wait" /\ ThreadGone(hi)
    /\ hThread' = [hThread EXCEPT ![hi] = "INVALID"]
    /\ hi' = hi + 1 /\ hpc' = "close"
    /\ UNCHANGED <<g_bEndClient, g_hCleanupEvent, sd, main, ignored, pending, nctrl, thread, wire>>

CtrlSet_Forgotten ==
    /\ mpc # "done" /\ hpc = "set" /\ hpc' = "idle"
    /\ UNCHANGED <<g_bEndClient, g_hCleanupEvent, sd, hThread, main, hi, ignored, pending, nctrl,
                   thread, wire>>
CtrlSet ==
    /\ mpc # "done" /\ hpc = "set" /\ hpc' = "idle"
    /\ g_hCleanupEvent' = TRUE
    /\ UNCHANGED <<g_bEndClient, sd, hThread, main, hi, ignored, pending, nctrl, thread, wire>>

CtrlHandler ==
    CtrlDeliver \/ CtrlIgnore \/ CtrlEnd \/ CtrlClose \/ CtrlHandle \/ CtrlWait \/ CtrlSet

-----------------------------------------------------------------------------

Next ==
    \/ Main
    \/ CtrlEvent
    \/ CtrlHandler
    \/ \E i \in ThreadNums : Thread(i) \/ Server(i) \/ ServerCloses(i)

Spec == Init /\ [][Next]_vars

\* Every thread that can run does run, and so does the server.
FairSpec ==
    /\ Spec
    /\ WF_vars(Main) /\ WF_vars(CtrlHandler)
    /\ \A i \in ThreadNums : WF_vars(Thread(i)) /\ WF_vars(Server(i))

-----------------------------------------------------------------------------
(* Properties *)

\* The simple-minded comparison is sound only if rounds do not overlap: when
\* a thread starts a round nothing of the last one is on its way, and within
\* a round what is on its way and what has come back add up to what was sent
\* (SendBuffer, RecvBuffer).
RoundsApart ==
    \A i \in ThreadNums : LET w == wire[i] IN
        /\ tpc[i] = "send" => w.c2s + w.held + w.s2c = nTotal[i]
        /\ tpc[i] = "recv" => w.c2s + w.held + w.s2c + nTotal[i] = nBufSize

\* The handler closes a thread's handle only after the thread has exited.
HandleOutlivesThread ==
    [][\A i \in ThreadNums : hThread[i] = "open" /\ hThread'[i] # "open" => tpc[i] = "exit"]_vars

\* A buffer that fits into the buffers on the way comes back: neither side
\* waits for room that the other one does not make.
RoundCompletes ==
    \A i \in ThreadNums : tpc[i] = "send" ~> tpc[i] \in {"compare", "exit"} \/ mpc = "done"

\* The handler never waits for ever for a thread, whose socket it closes
\* first; and when the threads have gone, main ends: the event it waits for
\* is set by the handler of its own CTRL-C or of one that came before.
ClientEnds ==
    /\ hpc = "ignore" ~> hpc = "idle" \/ mpc = "done"
    /\ mpc = "generate" ~> mpc = "done"
=============================================================================
