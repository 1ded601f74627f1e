---------------------------- MODULE IocpEchoProofs ----------------------------
(***************************************************************************)
(* Of IocpServer, for every set of connections and every number of         *)
(* threads: a context has at most one operation outstanding, a client gets *)
(* back a prefix of what it sent, and EchoService is implemented.          *)
(*                                                                         *)
(* The invariant is a conjunction over the connections.  Seven kinds of    *)
(* step hand a connection on - from main to the kernel, from the kernel to *)
(* a port, from the port to a worker, from the worker to the kernel - and  *)
(* each has a lemma; every other step leaves the connection undisturbed.   *)
(***************************************************************************)
EXTENDS IocpServerProofs

\* The parts of the invariant, for one connection.
One(c) ==
    /\ WithMain(c) => ~InKernel(c)
    /\ \A r \in Runs : \A i \in DOMAIN port[r] : OnPort(c, r, i) =>
         /\ ~WithMain(c) /\ ~InKernel(c)
         /\ \A r2 \in Runs : \A i2 \in DOMAIN port[r2] : OnPort(c, r2, i2) => r = r2 /\ i = i2
    /\ \A t \in Threads : WithWorker(c, t) =>
         /\ ~WithMain(c) /\ ~InKernel(c)
         /\ \A r \in Runs : \A i \in DOMAIN port[r] : ~OnPort(c, r, i)
         /\ \A t2 \in Threads : WithWorker(c, t2) => t = t2

MainSetsUp(c) == sdAccept = c /\ mpc \in SettingUp
FreshNow(c) == sock[c] \in {"none", "backlog"} \/ MainSetsUp(c)
Start(c) == /\ FreshNow(c) => Fresh(c)
            /\ MainSetsUp(c) => sock[c] = "open"

Echo(c) ==
    /\ pend[c].op = "recv" => /\ IOOperation[c] = "ClientIoRead"
                              /\ pend[c].off = 0
                              /\ Len(echoed[c]) = nrecvd[c]
    /\ pend[c].op = "send" => /\ IOOperation[c] = "ClientIoWrite"
                              /\ pend[c].off = nSentBytes[c]
                              /\ pend[c].off + pend[c].len = nTotalBytes[c]
                              /\ NextInBuffer(c, pend[c].off, pend[c].len)
    /\ \A r \in Runs : \A i \in DOMAIN port[r] :
         OnPort(c, r, i) => AfterSuccess(c, port[r][i].size)
    /\ \A t \in Threads :
         wpc[t] \in {"got", "io"} /\ wpkt[t].ctxt = c /\ wpkt[t].ok => AfterSuccess(c, wpkt[t].size)
    /\ nrecvd[c] <= nsent[c]

Prefix(c) == /\ echoed[c] = [i \in 1..Len(echoed[c]) |-> i]
             /\ Len(echoed[c]) <= nrecvd[c]

\* The socket is open as long as someone may use it.
Held(c) == \/ \E r \in Runs : \E i \in DOMAIN port[r] : OnPort(c, r, i)
           \/ \E t \in Threads : WithWorker(c, t)
Socket(c) ==
    /\ sdAccept = c \/ c \in list.live => sock[c] \in {"open", "closed"}
    /\ InKernel(c) => sock[c] = "open"
    /\ c \in list.live /\ Held(c) => sock[c] = "open"

Good(c) == One(c) /\ Start(c) /\ Echo(c) /\ Prefix(c) /\ Socket(c)

EchoInv == TypeInv /\ SuccessOnly /\ \A c \in Ctxts : Good(c)

LEMMA EchoInvParts == EchoInv <=> IInv
<1>1. OneOperation <=> \A c \in Ctxts : One(c)
  BY DEF OneOperation, One
<1>2. FreshConnections <=> \A c \in Ctxts : Start(c)
  BY DEF FreshConnections, Start, FreshNow, MainSetsUp, SettingUp
<1>3. EchoProtocol <=> \A c \in Ctxts : Echo(c)
  BY DEF EchoProtocol, Echo
<1>4. EchoIsPrefix <=> \A c \in Ctxts : Prefix(c)
  BY DEF EchoIsPrefix, Prefix
<1>5. OpenSockets <=> \A c \in Ctxts : Socket(c)
  BY DEF OpenSockets, Socket, Held
<1>. QED
  BY <1>1, <1>2, <1>3, <1>4, <1>5, TypeInvParts DEF EchoInv, Good, IInv

-----------------------------------------------------------------------------
(* Steps that leave a connection undisturbed *)

\* What main and the ports, the workers and the kernel know of c does not
\* grow; the packets of port r move up by s[r] places.
MainKeeps(c) == /\ WithMain(c)' => WithMain(c)
                /\ FreshNow(c)' => FreshNow(c) /\ (Unseen(c) => Unseen(c)')
                /\ MainSetsUp(c)' => MainSetsUp(c) /\ sock'[c] = sock[c]
PacketsKept(c, s) ==
    \A r \in Runs : \A i \in DOMAIN port'[r] :
        port'[r][i].ctxt = c /\ port'[r][i].ok
          => i + s[r] \in DOMAIN port[r] /\ port'[r][i] = port[r][i + s[r]]
WorkersKept(c) ==
    \A t \in Threads :
        /\ WithWorker(c, t)' => WithWorker(c, t) /\ wpkt'[t] = wpkt[t]
        /\ WithWorker(c, t)' /\ wpc'[t] \in {"got", "io"} => wpc[t] \in {"got", "io"}
KernelKept(c) == pend'[c] \in {pend[c], Idle}
SocketKept(c) ==
    /\ sdAccept' = c => sdAccept = c
    /\ c \in list'.live => c \in list.live
    /\ \/ sock'[c] = sock[c]
       \/ sock[c] = "none" /\ sock'[c] = "backlog"
       \/ sock'[c] = "closed" /\ ~InKernel(c)' /\ (c \in list'.live => ~Held(c)')
DataKept(c) ==
    /\ IOOperation'[c] = IOOperation[c]
    /\ nTotalBytes'[c] = nTotalBytes[c] /\ nSentBytes'[c] = nSentBytes[c]
    /\ Buffer'[c] = Buffer[c]
    /\ nrecvd'[c] = nrecvd[c] /\ echoed'[c] = echoed[c]

LEMMA OneKept ==
  ASSUME NEW c \in Ctxts, One(c), WithMain(c)' => WithMain(c), KernelKept(c), WorkersKept(c),
         NEW s \in [Runs -> 0..1], PacketsKept(c, s), TypePort, TypePort'
  PROVE  One(c)'
<1>1. InKernel(c)' => InKernel(c)
  BY DEF KernelKept, InKernel, Idle
<1>2. ASSUME NEW r \in Runs, NEW i \in DOMAIN port'[r], OnPort(c, r, i)'
      PROVE  /\ i + s[r] \in DOMAIN port[r]
             /\ OnPort(c, r, i + s[r])
  BY <1>2 DEF PacketsKept, OnPort
<1>3. ASSUME NEW t \in Threads, WithWorker(c, t)' PROVE WithWorker(c, t)
  BY <1>3 DEF WorkersKept
<1>4. \A r \in Runs : s[r] \in Int /\ DOMAIN port'[r] \subseteq Int
  BY DEF TypePort
<1>5. (WithMain(c) => ~InKernel(c))'
  BY <1>1 DEF One
<1>6. ASSUME NEW r \in Runs, NEW i \in DOMAIN port'[r], OnPort(c, r, i)'
      PROVE  /\ ~WithMain(c)' /\ ~InKernel(c)'
             /\ \A r2 \in Runs : \A i2 \in DOMAIN port'[r2] : OnPort(c, r2, i2)' => r = r2 /\ i = i2
  <2>1. ~WithMain(c)' /\ ~InKernel(c)'
    BY <1>1, <1>2, <1>6 DEF One
  <2>2. ASSUME NEW r2 \in Runs, NEW i2 \in DOMAIN port'[r2], OnPort(c, r2, i2)'
        PROVE  r = r2 /\ i = i2
    <3>1. r = r2 /\ i + s[r] = i2 + s[r2]
      BY <1>2, <1>6, <2>2 DEF One
    <3>. QED
      BY <1>4, <3>1
  <2>. QED
    BY <2>1, <2>2
<1>7. ASSUME NEW t \in Threads, WithWorker(c, t)'
      PROVE  /\ ~WithMain(c)' /\ ~InKernel(c)'
             /\ \A r \in Runs : \A i \in DOMAIN port'[r] : ~OnPort(c, r, i)'
             /\ \A t2 \in Threads : WithWorker(c, t2)' => t = t2
  BY <1>1, <1>2, <1>3, <1>7 DEF One
<1>. QED
  BY <1>5, <1>6, <1>7 DEF One

LEMMA StartKept ==
  ASSUME NEW c \in Ctxts, Start(c), MainKeeps(c), DataKept(c)
  PROVE  Start(c)'
<1>1. FreshNow(c)' => Fresh(c)'
  BY DEF Start, MainKeeps, Fresh, DataKept
<1>2. MainSetsUp(c)' => sock'[c] = "open"
  BY DEF Start, MainKeeps
<1>. QED
  BY <1>1, <1>2 DEF Start

LEMMA EchoKept ==
  ASSUME NEW c \in Ctxts, Echo(c), KernelKept(c), WorkersKept(c), DataKept(c),
         NEW s, PacketsKept(c, s), nsent'[c] >= nsent[c], TypeClient, TypeClient'
  PROVE  Echo(c)'
<1>1. /\ pend'[c].op = "recv" => pend'[c] = pend[c]
      /\ pend'[c].op = "send" => pend'[c] = pend[c]
  BY DEF KernelKept, Idle
<1>2. ASSUME NEW n PROVE AfterSuccess(c, n)' = AfterSuccess(c, n)
  BY DEF DataKept, AfterSuccess, NextInBuffer
<1>3. NextInBuffer(c, pend[c].off, pend[c].len) =>
        (pend'[c] = pend[c] => NextInBuffer(c, pend[c].off, pend[c].len)')
  BY DEF DataKept, NextInBuffer
<1>4. ASSUME NEW r \in Runs, NEW i \in DOMAIN port'[r], OnPort(c, r, i)'
      PROVE  AfterSuccess(c, port[r][i].size)'
  BY <1>2, <1>4 DEF PacketsKept, OnPort, Echo
<1>5. ASSUME NEW t \in Threads, wpc'[t] \in {"got", "io"}, wpkt'[t].ctxt = c, wpkt'[t].ok
      PROVE  AfterSuccess(c, wpkt[t].size)'
  BY <1>2, <1>5 DEF WorkersKept, WithWorker, Echo
<1>6. nrecvd'[c] <= nsent'[c]
  BY DEF Echo, DataKept, TypeClient
<1>7. /\ pend'[c].op = "recv" => /\ IOOperation'[c] = "ClientIoRead"
                                 /\ pend'[c].off = 0
                                 /\ Len(echoed'[c]) = nrecvd'[c]
      /\ pend'[c].op = "send" => /\ IOOperation'[c] = "ClientIoWrite"
                                 /\ pend'[c].off = nSentBytes'[c]
                                 /\ pend'[c].off + pend'[c].len = nTotalBytes'[c]
                                 /\ NextInBuffer(c, pend[c].off, pend[c].len)'
  BY <1>1, <1>3 DEF Echo, DataKept
<1>. QED
  BY <1>4, <1>5, <1>6, <1>7 DEF Echo

LEMMA PrefixKept ==
  ASSUME NEW c \in Ctxts, Prefix(c), DataKept(c) PROVE Prefix(c)'
BY DEF Prefix, DataKept

LEMMA HeldKept ==
  ASSUME NEW c \in Ctxts, WorkersKept(c), NEW s, PacketsKept(c, s), Held(c)' PROVE Held(c)
BY DEF Held, WorkersKept, PacketsKept, OnPort

LEMMA SocketStays ==
  ASSUME NEW c \in Ctxts, Socket(c), KernelKept(c), WorkersKept(c), SocketKept(c),
         NEW s, PacketsKept(c, s)
  PROVE  Socket(c)'
<1>1. /\ InKernel(c)' => InKernel(c)
      /\ Held(c)' => Held(c)
  BY HeldKept DEF KernelKept, InKernel, Idle
<1>. QED
  BY <1>1 DEF Socket, SocketKept

LEMMA Undisturbed ==
  ASSUME NEW c \in Ctxts, Good(c), MainKeeps(c), KernelKept(c), WorkersKept(c), DataKept(c),
         SocketKept(c), NEW s \in [Runs -> 0..1], PacketsKept(c, s), nsent'[c] >= nsent[c],
         TypePort, TypePort', TypeClient, TypeClient'
  PROVE  Good(c)'
BY OneKept, StartKept, EchoKept, PrefixKept, SocketStays DEF Good, MainKeeps

LEMMA SuccessOnlyKept == TypeInv /\ SuccessOnly /\ [Next]_vars => SuccessOnly'
<1> SUFFICES ASSUME TypeInv, SuccessOnly, [Next]_vars PROVE SuccessOnly'
  OBVIOUS
<1>1. CASE UNCHANGED worker
  BY <1>1 DEF SuccessOnly, worker
<1>2. CASE MainCreateThreads
  <2>1. \A t \in Threads : wpc'[t] \in {wpc[t], "gqcs", "none"} /\ wpkt'[t] = wpkt[t]
    BY <1>2 DEF MainCreateThreads, TypeInv, TypeWorker
  <2>. QED
    BY <2>1 DEF SuccessOnly
<1>3. ASSUME NEW t \in Threads, Worker(t) PROVE SuccessOnly'
  <2>1. wpc \in [Threads -> {"none", "gqcs", "got", "io", "close", "exit"}] /\ wpkt \in [Threads -> Packet]
    BY DEF TypeInv, TypeWorker
  <2>2. CASE WorkerGet(t)
    <3>1. wpc'[t] \in {"exit", "got"} /\ \A u \in Threads \ {t} : wpc'[u] = wpc[u] /\ wpkt'[u] = wpkt[u]
      BY <2>1, <2>2 DEF WorkerGet
    <3>. QED
      BY <3>1 DEF SuccessOnly
  <2>3. CASE WorkerCheck(t)
    <3>1. /\ wpc'[t] = "io" => wpkt[t].ok
          /\ \A u \in Threads \ {t} : wpc'[u] = wpc[u]
          /\ wpkt' = wpkt
      BY <2>1, <2>3 DEF WorkerCheck
    <3>. QED
      BY <3>1 DEF SuccessOnly
  <2>4. CASE WorkerIo(t)
    <3>1. /\ \A u \in Threads \ {t} : wpc'[u] = wpc[u]
          /\ wpkt' = wpkt /\ wpc[t] = "io"
      BY <2>1, <2>4 DEF WorkerIo, IoRead, IoWrite, Issue
    <3>. QED
      BY <3>1 DEF SuccessOnly
  <2>5. CASE WorkerClose(t)
    <3>1. wpc'[t] = "gqcs" /\ wpkt' = wpkt /\ \A u \in Threads \ {t} : wpc'[u] = wpc[u]
      BY <2>1, <2>5 DEF WorkerClose
    <3>. QED
      BY <3>1 DEF SuccessOnly
  <2>. QED
    BY <1>3, <2>2, <2>3, <2>4, <2>5 DEF Worker
<1>4. Main => MainCreateThreads \/ UNCHANGED worker
  BY DEF Main, MainTest, MainClearRestart, MainClearEnd, CreateListenSocket1, CreateListenSocket2,
     MainAcceptCall, MainAccept, MainUpdate, MainCheckEnd, MainRecv, MainFinally, MainPost, MainWait,
     CtxtListFreeEnter, CtxtListFreeStep, CtxtListFreeLeave, MainClosePort, MainCloseSockets
<1>5. CtrlEvent \/ CtrlHandler => UNCHANGED worker
  BY DEF CtrlEvent, CtrlHandler, CtrlTake, CtrlInvalidate, CtrlEnd, CtrlClose
<1>6. ASSUME NEW c \in Ctxts, Kernel(c) \/ Client(c) PROVE UNCHANGED worker
  BY <1>6 DEF Kernel, Client, CompleteRecv, CompleteSend, Connect, ClientSend, ClientClose
<1>. QED
  BY <1>1, <1>2, <1>3, <1>4, <1>5, <1>6 DEF Next, vars

\* The steps that touch neither an operation, a packet nor a worker.
LEMMA Quiet ==
  ASSUME EchoInv, TypeInv', NEW c \in Ctxts,
         UNCHANGED <<pend, port, worker, ioctxt, nrecvd, echoed>>, nsent'[c] >= nsent[c],
         WithMain(c)' => WithMain(c), FreshNow(c)' => FreshNow(c),
         MainSetsUp(c)' => MainSetsUp(c) /\ sock'[c] = sock[c], SocketKept(c)
  PROVE  Good(c)'
<1> DEFINE s == [r \in Runs |-> 0]
<1>1. s \in [Runs -> 0..1]
  OBVIOUS
<1>2. PacketsKept(c, s)
  <2>1. ASSUME NEW r \in Runs, NEW i \in DOMAIN port[r] PROVE i + s[r] = i
    BY <2>1 DEF EchoInv, TypeInv, TypePort
  <2>. HIDE DEF s
  <2>. QED
    BY <2>1 DEF PacketsKept
<1>3. WorkersKept(c)
  BY DEF WorkersKept, WithWorker, worker
<1>4. KernelKept(c) /\ DataKept(c)
  BY DEF KernelKept, DataKept, ioctxt
<1>5. Unseen(c) => Unseen(c)'
  BY DEF Unseen, InKernel, worker
<1>6. MainKeeps(c)
  BY <1>5 DEF MainKeeps
<1>. HIDE DEF s
<1>. QED
  BY <1>1, <1>2, <1>3, <1>4, <1>6, Undisturbed DEF EchoInv, TypeInv

QuietMain == \/ MainTest \/ MainClearRestart \/ MainClearEnd \/ CreateListenSocket1
             \/ CreateListenSocket2 \/ MainAcceptCall \/ MainCheckEnd \/ MainFinally \/ MainWait
             \/ CtxtListFreeEnter \/ CtxtListFreeLeave \/ MainClosePort \/ MainCloseSockets

LEMMA QuietMainGood ==
  ASSUME EchoInv, TypeInv', QuietMain, NEW c \in Ctxts PROVE Good(c)'
<1>. USE DEF WithMain, FreshNow, MainSetsUp, SettingUp, Goto
<1>1. UNCHANGED <<pend, port, worker, ioctxt, nrecvd, echoed, nsent>>
  BY DEF QuietMain, MainTest, MainClearRestart, MainClearEnd, CreateListenSocket1,
     CreateListenSocket2, MainAcceptCall, MainCheckEnd, MainFinally, MainWait, CtxtListFreeEnter,
     CtxtListFreeLeave, MainClosePort, MainCloseSockets, client
<1>2. CASE MainCloseSockets
  <2>1. sdAccept' = NULL /\ sdAccept' # c
    BY <1>2, NullAssumption DEF MainCloseSockets
  <2>2. sock'[c] \in {"closed", sock[c]}
    BY <1>2 DEF MainCloseSockets
  <2>3. sock'[c] = "closed" /\ sock[c] # "closed" =>
          ~InKernel(c)' /\ (c \in list'.live => ~Held(c)')
    <3>1. CASE sock[c] = "backlog"
      BY <1>1, <3>1 DEF EchoInv, Good, Start, Fresh, Unseen, InKernel, Held, OnPort, WithWorker, worker
    <3>2. CASE sdAccept = c
      <4>1. ~InKernel(c) /\ ~Held(c)
        BY <1>2, <3>2 DEF EchoInv, Good, One, MainCloseSockets, Held
      <4>. QED
        BY <1>1, <4>1 DEF InKernel, Held, OnPort, WithWorker, worker
    <3>3. CASE sock[c] # "backlog" /\ sdAccept # c
      BY <1>2, <3>3 DEF MainCloseSockets, LastAccepted
    <3>. QED
      BY <3>1, <3>2, <3>3
  <2>4. SocketKept(c)
    BY <1>2, <2>1, <2>2, <2>3 DEF SocketKept, MainCloseSockets
  <2>5. nsent'[c] >= nsent[c]
    BY <1>1 DEF EchoInv, TypeInv, TypeClient
  <2>6. /\ WithMain(c)' => WithMain(c)
        /\ FreshNow(c)' => FreshNow(c)
        /\ ~MainSetsUp(c)'
    BY <2>1, <2>2
  <2>. HIDE DEF WithMain, FreshNow, MainSetsUp
  <2>. QED
    BY <1>1, <2>4, <2>5, <2>6, Quiet
<1>3. CASE MainAcceptCall
  <2>1. /\ sock' = sock /\ mpc = "accept" /\ mpc' \in {"accepting", "finally"}
        /\ mpc' = "finally" => sdAccept' # c
    BY <1>3, NullAssumption DEF MainAcceptCall
  <2>2. SocketKept(c)
    BY <1>3, NullAssumption DEF MainAcceptCall, SocketKept
  <2>. QED
    BY <1>1, <2>1, <2>2, Quiet DEF EchoInv, TypeInv, TypeClient
<1>4. CASE QuietMain /\ ~MainCloseSockets /\ ~MainAcceptCall
  <2>1. /\ sock' = sock /\ sdAccept' = sdAccept /\ list' = list
        /\ mpc \in {"accept", "accepting"} => mpc' \in {"accept", "accepting"}
        /\ mpc' \in SettingUp => mpc \in SettingUp
    BY <1>4 DEF QuietMain, MainTest, MainClearRestart, MainClearEnd, CreateListenSocket1,
       CreateListenSocket2, MainCheckEnd, MainFinally, MainWait, CtxtListFreeEnter,
       CtxtListFreeLeave, MainClosePort
  <2>2. nsent'[c] >= nsent[c]
    BY <1>1 DEF EchoInv, TypeInv, TypeClient
  <2>3. WithMain(c)' => WithMain(c)
    BY <2>1
  <2>4. /\ FreshNow(c)' => FreshNow(c)
        /\ MainSetsUp(c)' => MainSetsUp(c) /\ sock'[c] = sock[c]
    BY <2>1
  <2>5. SocketKept(c)
    BY <2>1 DEF SocketKept
  <2>. HIDE DEF WithMain, FreshNow, MainSetsUp
  <2>. QED
    BY <1>1, <2>2, <2>3, <2>4, <2>5, Quiet
<1>. QED
  BY <1>2, <1>3, <1>4

LEMMA CtrlGood ==
  ASSUME EchoInv, TypeInv', CtrlEvent \/ CtrlHandler, NEW c \in Ctxts PROVE Good(c)'
<1>. USE DEF WithMain, FreshNow, MainSetsUp, SettingUp
<1>1. UNCHANGED <<pend, port, worker, ioctxt, nrecvd, echoed, nsent, mpc, sdAccept, list>>
  BY DEF CtrlEvent, CtrlHandler, CtrlTake, CtrlInvalidate, CtrlEnd, CtrlClose, client, main
<1>2. sock' = sock \/ (sock[c] = "backlog" /\ sock'[c] = "closed") \/ sock'[c] = sock[c]
  BY DEF CtrlEvent, CtrlHandler, CtrlTake, CtrlInvalidate, CtrlEnd, CtrlClose, CloseListener
<1>3. MainSetsUp(c) => sock'[c] = sock[c]
  BY <1>2 DEF EchoInv, Good, Start
<1>4. sock[c] = "backlog" => ~InKernel(c)' /\ ~Held(c)'
  BY <1>1 DEF EchoInv, Good, Start, Fresh, Unseen, InKernel, Held, OnPort, WithWorker, worker
<1>5. SocketKept(c)
  BY <1>1, <1>2, <1>4 DEF SocketKept
<1>. QED
  BY <1>1, <1>2, <1>3, <1>5, Quiet DEF EchoInv, TypeInv, TypeClient

LEMMA ClientGood ==
  ASSUME EchoInv, TypeInv', NEW d \in Ctxts, Client(d), NEW c \in Ctxts PROVE Good(c)'
<1>. USE DEF WithMain, FreshNow, MainSetsUp, SettingUp
<1>1. UNCHANGED <<pend, port, worker, ioctxt, nrecvd, echoed, mpc, sdAccept, list>>
  BY DEF Client, Connect, ClientSend, ClientClose, client, main
<1>2. sock'[c] = sock[c] \/ (sock[c] = "none" /\ sock'[c] = "backlog")
  BY DEF Client, Connect, ClientSend, ClientClose, EchoInv, TypeInv, TypeSock
<1>3. MainSetsUp(c) => sock'[c] = sock[c]
  BY <1>2 DEF EchoInv, Good, Start
<1>4. nsent'[c] >= nsent[c]
  <2>1. nsent \in [Ctxts -> Nat]
    BY DEF EchoInv, TypeInv, TypeClient
  <2>2. nsent' = nsent \/ nsent' = [nsent EXCEPT ![d] = @ + 1]
    BY DEF Client, Connect, ClientSend, ClientClose, client
  <2>. QED
    BY <2>1, <2>2
<1>5. SocketKept(c)
  BY <1>1, <1>2 DEF SocketKept
<1>. QED
  BY <1>1, <1>2, <1>3, <1>4, <1>5, Quiet

-----------------------------------------------------------------------------
(* Steps that change a port or a worker without handing c on *)

NoShift == [r \in Runs |-> 0]

LEMMA NoShiftKeeps ==
  ASSUME TypePort, NEW c \in Ctxts,
         \A r \in Runs : \A i \in DOMAIN port'[r] :
           port'[r][i].ctxt = c /\ port'[r][i].ok => i \in DOMAIN port[r] /\ port'[r][i] = port[r][i]
  PROVE  NoShift \in [Runs -> 0..1] /\ PacketsKept(c, NoShift)
<1>1. \A r \in Runs : NoShift[r] = 0 /\ DOMAIN port[r] \subseteq Int
  BY DEF NoShift, TypePort
<1>2. ASSUME NEW r \in Runs, NEW i \in DOMAIN port[r] PROVE i + NoShift[r] = i
  BY <1>1, <1>2
<1>3. NoShift \in [Runs -> 0..1]
  BY DEF NoShift
<1>. QED
  BY <1>2, <1>3 DEF PacketsKept

LEMMA PortAppended ==
  ASSUME TypePort, NEW k, NEW p, port' = [port EXCEPT ![k] = Append(@, p)],
         NEW r \in Runs, NEW i \in DOMAIN port'[r]
  PROVE  \/ i \in DOMAIN port[r] /\ port'[r][i] = port[r][i]
         \/ r = k /\ i = Len(port[r]) + 1 /\ port'[r][i] = p
<1>1. port[r] \in Seq(Packet)
  BY DEF TypePort
<1>2. CASE r = k
  <2>1. port'[r] = Append(port[r], p)
    BY <1>2 DEF TypePort
  <2>. QED
    BY <1>1, <1>2, <2>1
<1>3. CASE r # k
  BY <1>1, <1>3 DEF TypePort
<1>. QED
  BY <1>2, <1>3

LEMMA DeletedLive ==
  ASSUME NEW l \in List, NEW d \in l.live
  PROVE  CtxtListDeleteFrom(l, d).live = l.live \ {d}
<1>1. Unlink(l, d) \in List /\ Unlink(l, d).live = l.live
  BY UseAfterFreeType DEF Unlink, UseAfterFree, List, Pointer
<1>. QED
  BY <1>1 DEF CtxtListDeleteFrom, List

LEMMA CloseClientLive ==
  ASSUME EchoInv, NEW d \in Ctxts, CloseClient(d)
  PROVE  /\ list'.live \subseteq list.live
         /\ d \in list.live => d \notin list'.live
         /\ d \notin list.live => UNCHANGED <<sock, port, pend>>
<1>1. list \in List
  BY DEF EchoInv, TypeInv, TypeList
<1>2. CASE d \in list.live
  BY <1>1, <1>2, DeletedLive DEF CloseClient
<1>3. CASE d \notin list.live
  BY <1>1, <1>3 DEF CloseClient, UseAfterFree, List
<1>. QED
  BY <1>2, <1>3

\* CloseClient adds only the report of an error, and only for d.
LEMMA CloseClientGood ==
  ASSUME EchoInv, TypeInv', NEW d \in Ctxts, CloseClient(d), NEW c \in Ctxts,
         UNCHANGED <<ioctxt, nrecvd, echoed, nsent, wpkt>>,
         sdAccept' = sdAccept, WithMain(c)' => WithMain(c),
         MainSetsUp(c)' => MainSetsUp(c) /\ c # d,
         \A t \in Threads : wpc'[t] = wpc[t] \/ wpc'[t] = "gqcs"
  PROVE  Good(c)'
<1>1. ASSUME NEW r \in Runs, NEW i \in DOMAIN port'[r]
      PROVE  \/ i \in DOMAIN port[r] /\ port'[r][i] = port[r][i]
             \/ port'[r][i] = [ctxt |-> d, size |-> 0, ok |-> FALSE]
  <2> DEFINE p == [ctxt |-> d, size |-> 0, ok |-> FALSE]
  <2>1. port' = port \/ port' = [port EXCEPT ![key[d]] = Append(@, p)]
    BY DEF CloseClient, Completed
  <2>2. TypePort
    BY DEF EchoInv, TypeInv
  <2>. HIDE DEF p
  <2>3. \/ i \in DOMAIN port[r] /\ port'[r][i] = port[r][i]
        \/ port'[r][i] = p
    <3>1. CASE port' = port
      BY <1>1, <3>1
    <3>2. CASE port' = [port EXCEPT ![key[d]] = Append(@, p)]
      BY <1>1, <2>2, <3>2, PortAppended
    <3>. QED
      BY <2>1, <3>1, <3>2
  <2>. QED
    BY <2>3 DEF p
<1>2. NoShift \in [Runs -> 0..1] /\ PacketsKept(c, NoShift)
  BY <1>1, NoShiftKeeps DEF EchoInv, TypeInv
<1>3. WorkersKept(c)
  BY DEF WorkersKept, WithWorker
<1>4. pend'[c] \in {pend[c], Idle} /\ (c # d => pend'[c] = pend[c])
  BY DEF CloseClient, EchoInv, TypeInv, TypePend
<1>5. KernelKept(c) /\ DataKept(c)
  BY <1>4 DEF KernelKept, DataKept, ioctxt
<1>6. sock'[c] \in {sock[c], "closed"} /\ (c # d => sock'[c] = sock[c])
  BY DEF CloseClient, EchoInv, TypeInv, TypeSock
<1>7. c # d => (Unseen(c) => Unseen(c)')
  BY <1>1, <1>4 DEF Unseen, InKernel
<1>8. c = d /\ FreshNow(c)' => UNCHANGED <<pend, port, sock>>
  BY <1>6 DEF FreshNow, CloseClient, EchoInv, TypeInv, TypeSock
<1>9. c = d /\ FreshNow(c)' => (Unseen(c) => Unseen(c)')
  BY <1>8 DEF Unseen, InKernel
<1>10. MainKeeps(c)
  BY <1>6, <1>7, <1>9 DEF MainKeeps, FreshNow
<1>11. nsent'[c] >= nsent[c]
  BY DEF EchoInv, TypeInv, TypeClient
<1>12. SocketKept(c)
  <2>1. CASE c # d \/ d \notin list.live
    <3>1. list'.live \subseteq list.live /\ sock'[c] = sock[c]
      BY <1>6, <2>1, CloseClientLive
    <3>. QED
      BY <3>1 DEF SocketKept
  <2>2. CASE c = d /\ d \in list.live
    <3>1. c \notin list'.live /\ sock'[c] = "closed" /\ ~InKernel(c)'
      <4>1. c \notin list'.live
        BY <2>2, CloseClientLive
      <4>2. sock'[c] = "closed"
        BY <2>2 DEF CloseClient, EchoInv, TypeInv, TypeSock
      <4>3. pend'[c] = Idle \/ (pend'[c] = pend[c] /\ pend[c].op = "none")
        BY <2>2 DEF CloseClient, EchoInv, TypeInv, TypePend
      <4>4. ~InKernel(c)'
        BY <4>3 DEF InKernel, Idle
      <4>. QED
        BY <4>1, <4>2, <4>4
    <3>. QED
      BY <3>1 DEF SocketKept
  <2>. QED
    BY <2>1, <2>2
<1>. QED
  BY <1>2, <1>3, <1>5, <1>10, <1>11, <1>12, Undisturbed DEF EchoInv, TypeInv

LEMMA CtxtListFreeStepGood ==
  ASSUME EchoInv, TypeInv', CtxtListFreeStep, NEW c \in Ctxts PROVE Good(c)'
<1>1. pTemp1 \in Ctxts /\ CloseClient(pTemp1)
  BY DEF CtxtListFreeStep, EchoInv, TypeInv, TypeList, Pointer
<1>2. UNCHANGED <<ioctxt, nrecvd, echoed, nsent, wpkt, wpc, mpc, sdAccept>> /\ mpc = "walk"
  BY DEF CtxtListFreeStep, client, worker
<1>3. (WithMain(c)' => WithMain(c)) /\ ~MainSetsUp(c)'
  BY <1>2 DEF WithMain, MainSetsUp, SettingUp
<1>. QED
  BY <1>1, <1>2, <1>3, CloseClientGood

LEMMA WorkerCloseGood ==
  ASSUME EchoInv, TypeInv', NEW t \in Threads, WorkerClose(t), NEW c \in Ctxts PROVE Good(c)'
<1> DEFINE d == wpkt[t].ctxt
<1>1. d \in Pointer
  BY DEF EchoInv, TypeInv, TypeWorker, Packet
<1>2. /\ UNCHANGED <<ioctxt, nrecvd, echoed, nsent, wpkt, mpc, sdAccept>>
      /\ \A u \in Threads : wpc'[u] = wpc[u] \/ wpc'[u] = "gqcs"
  BY DEF WorkerClose, client, main, EchoInv, TypeInv, TypeWorker
<1>3. WithMain(c)' => WithMain(c)
  BY <1>2 DEF WithMain
<1>4. MainSetsUp(c)' => MainSetsUp(c)
  BY <1>2 DEF MainSetsUp
<1>5. CASE d \in Ctxts
  <2>1. MainSetsUp(c) => c # d
    BY DEF EchoInv, Good, Start, FreshNow, Fresh, Unseen
  <2>2. CloseClient(d)
    BY DEF WorkerClose
  <2>. HIDE DEF d
  <2>. QED
    BY <1>2, <1>3, <1>4, <1>5, <2>1, <2>2, CloseClientGood
<1>6. CASE d \notin Ctxts
  <2>1. UNCHANGED <<sock, port, pend>>
    BY <1>6 DEF WorkerClose, CloseClient, EchoInv, TypeInv, TypeList, List
  <2>2. WorkersKept(c)
    BY <1>2 DEF WorkersKept, WithWorker
  <2>3. NoShift \in [Runs -> 0..1] /\ PacketsKept(c, NoShift)
    BY <2>1, NoShiftKeeps DEF EchoInv, TypeInv
  <2>4. Unseen(c) => Unseen(c)'
    BY <1>2, <2>1 DEF Unseen, InKernel
  <2>5. MainKeeps(c) /\ KernelKept(c) /\ DataKept(c)
    BY <1>2, <1>3, <1>4, <2>1, <2>4 DEF MainKeeps, FreshNow, MainSetsUp, KernelKept, DataKept, ioctxt
  <2>6. nsent'[c] >= nsent[c]
    BY <1>2 DEF EchoInv, TypeInv, TypeClient
  <2>7. list' = UseAfterFree(list) /\ list \in List
    BY <1>6 DEF WorkerClose, CloseClient, EchoInv, TypeInv, TypeList, List
  <2>8. SocketKept(c)
    BY <1>2, <2>1, <2>7 DEF SocketKept, UseAfterFree, List
  <2>. QED
    BY <2>2, <2>3, <2>5, <2>6, <2>8, Undisturbed DEF EchoInv, TypeInv
<1>. QED
  BY <1>5, <1>6

LEMMA Still ==
  ASSUME EchoInv, TypeInv', NEW c \in Ctxts,
         WorkersKept(c), KernelKept(c), DataKept(c), MainKeeps(c), SocketKept(c), nsent' = nsent,
         \A r \in Runs : \A i \in DOMAIN port'[r] :
           port'[r][i].ctxt = c /\ port'[r][i].ok => i \in DOMAIN port[r] /\ port'[r][i] = port[r][i]
  PROVE  Good(c)'
<1>1. NoShift \in [Runs -> 0..1] /\ PacketsKept(c, NoShift)
  BY NoShiftKeeps DEF EchoInv, TypeInv
<1>2. nsent'[c] >= nsent[c]
  BY DEF EchoInv, TypeInv, TypeClient
<1>. QED
  BY <1>1, <1>2, Undisturbed DEF EchoInv, TypeInv

LEMMA MainSame ==
  ASSUME NEW c \in Ctxts, UNCHANGED <<mpc, sdAccept, sock>>, Unseen(c) => Unseen(c)'
  PROVE  MainKeeps(c) /\ (list' = list => SocketKept(c))
BY DEF MainKeeps, WithMain, FreshNow, MainSetsUp, SocketKept

LEMMA MainCreateThreadsGood ==
  ASSUME EchoInv, TypeInv', MainCreateThreads, NEW c \in Ctxts PROVE Good(c)'
<1>1. /\ UNCHANGED <<pend, port, ioctxt, nrecvd, echoed, nsent, wpkt, sdAccept, sock, list>>
      /\ mpc = "threads" /\ mpc' \in {"socket", "finally"}
  BY DEF MainCreateThreads, client, Goto
<1>2. \A t \in Threads : wpc'[t] = wpc[t] \/ wpc'[t] = "gqcs"
  BY DEF MainCreateThreads
<1>3. WorkersKept(c) /\ KernelKept(c) /\ DataKept(c)
  BY <1>1, <1>2 DEF WorkersKept, WithWorker, KernelKept, DataKept, ioctxt
<1>4. Unseen(c) => Unseen(c)'
  BY <1>1 DEF Unseen, InKernel
<1>5. MainKeeps(c) /\ SocketKept(c)
  BY <1>1, <1>4 DEF MainKeeps, WithMain, FreshNow, MainSetsUp, SettingUp, SocketKept
<1>. QED
  BY <1>1, <1>3, <1>5, Still

LEMMA MainPostGood ==
  ASSUME EchoInv, TypeInv', MainPost, NEW c \in Ctxts PROVE Good(c)'
<1>1. /\ UNCHANGED <<pend, ioctxt, nrecvd, echoed, nsent, worker, sdAccept, sock, list>>
      /\ mpc = "post" /\ mpc' = "wait"
  BY DEF MainPost, client, Goto
<1>2. ASSUME NEW r \in Runs, NEW i \in DOMAIN port'[r], port'[r][i].ctxt = c
      PROVE  i \in DOMAIN port[r] /\ port'[r][i] = port[r][i]
  <2>1. CASE port' = port
    BY <1>2, <2>1
  <2>2. CASE port' = [port EXCEPT ![g_hIOCP] = @ \o ExitPackets]
    <3>1. port \in [Runs -> Seq(Packet)]
      BY DEF EchoInv, TypeInv, TypePort
    <3>2. ExitPackets \in Seq(Packet) /\ \A j \in DOMAIN ExitPackets : ExitPackets[j].ctxt # c
      <4>1. NullPacket \in Packet /\ NullPacket.ctxt # c
        BY NullAssumption, ServerAssumption DEF NullPacket, Packet, Pointer
      <4>2. ThreadCount \in Nat
        BY ServerAssumption
      <4>. QED
        BY <4>1, <4>2 DEF ExitPackets
    <3>3. CASE r # g_hIOCP
      BY <1>2, <2>2, <3>1, <3>3
    <3>4. CASE r = g_hIOCP
      <4> DEFINE old == port[r]
                 new == ExitPackets
      <4>1. port'[r] = old \o new
        BY <2>2, <3>1, <3>4
      <4>2. old \in Seq(Packet) /\ new \in Seq(Packet)
        BY <3>1, <3>2
      <4>3. \A j \in DOMAIN new : new[j].ctxt # c
        BY <3>2
      <4>. HIDE DEF old, new
      <4>4. i \in 1..(Len(old) + Len(new))
        BY <1>2, <4>1, <4>2
      <4>5. CASE i > Len(old)
        <5>1. (old \o new)[i] = new[i - Len(old)] /\ i - Len(old) \in DOMAIN new
          BY <4>2, <4>4, <4>5
        <5>. QED
          BY <1>2, <4>1, <4>3, <5>1
      <4>6. CASE i <= Len(old)
        BY <4>1, <4>2, <4>4, <4>6 DEF old
      <4>. QED
        BY <4>2, <4>4, <4>5, <4>6
    <3>. QED
      BY <3>3, <3>4
  <2>. QED
    BY <2>1, <2>2 DEF MainPost
<1>3. WorkersKept(c) /\ KernelKept(c) /\ DataKept(c)
  BY <1>1 DEF WorkersKept, WithWorker, KernelKept, DataKept, ioctxt, worker
<1>4. Unseen(c) => Unseen(c)'
  BY <1>1, <1>2 DEF Unseen, InKernel, worker
<1>5. MainKeeps(c) /\ SocketKept(c)
  BY <1>1, <1>4 DEF MainKeeps, WithMain, FreshNow, MainSetsUp, SettingUp, SocketKept
<1>. QED
  BY <1>1, <1>2, <1>3, <1>5, Still

LEMMA WorkerCheckGood ==
  ASSUME EchoInv, TypeInv', NEW t \in Threads, WorkerCheck(t), NEW c \in Ctxts PROVE Good(c)'
<1>1. UNCHANGED <<pend, port, ioctxt, nrecvd, echoed, nsent, wpkt, sdAccept, mpc, sock, list>>
  BY DEF WorkerCheck, client, main
<1>2. wpc[t] = "got" /\ \A u \in Threads \ {t} : wpc'[u] = wpc[u]
  BY DEF WorkerCheck, EchoInv, TypeInv, TypeWorker
<1>3. WorkersKept(c) /\ KernelKept(c) /\ DataKept(c)
  BY <1>1, <1>2 DEF WorkersKept, WithWorker, KernelKept, DataKept, ioctxt
<1>4. Unseen(c) => Unseen(c)'
  BY <1>1 DEF Unseen, InKernel
<1>. QED
  BY <1>1, <1>3, <1>4, MainSame, Still

-----------------------------------------------------------------------------
(* Steps of main that set up a connection *)

\* From the backlog to main.
LEMMA MainAcceptGood ==
  ASSUME EchoInv, TypeInv', MainAccept, NEW c \in Ctxts PROVE Good(c)'
<1>1. /\ UNCHANGED <<pend, port, ioctxt, nrecvd, echoed, nsent, worker, list>>
      /\ mpc = "accepting" /\ mpc' \in {"update", "finally"}
  BY DEF MainAccept, client, Goto
<1>2. CASE sdAccept' # c
  <2>1. sock'[c] = sock[c]
    BY <1>2 DEF MainAccept, EchoInv, TypeInv, TypeSock
  <2>2. (WithMain(c)' => WithMain(c)) /\ (FreshNow(c)' => FreshNow(c)) /\ ~MainSetsUp(c)'
    BY <1>2, <2>1 DEF WithMain, FreshNow, MainSetsUp
  <2>3. nsent'[c] >= nsent[c]
    BY <1>1 DEF EchoInv, TypeInv, TypeClient
  <2>4. SocketKept(c)
    BY <1>1, <1>2, <2>1 DEF SocketKept
  <2>. QED
    BY <1>1, <2>2, <2>3, <2>4, Quiet
<1>3. CASE sdAccept' = c
  <2>1. sock[c] = "backlog" /\ sock'[c] = "open"
    BY <1>3, NullAssumption DEF MainAccept, EchoInv, TypeInv, TypeSock
  <2>2. Fresh(c)
    BY <2>1 DEF EchoInv, Good, Start, FreshNow
  <2>3. Fresh(c)'
    BY <1>1, <2>2 DEF Fresh, Unseen, InKernel, worker, ioctxt
  <2>4. One(c)'
    <3>1. /\ ~InKernel(c)'
          /\ \A r \in Runs : \A i \in DOMAIN port'[r] : ~OnPort(c, r, i)'
          /\ \A t \in Threads : ~WithWorker(c, t)'
      BY <2>3 DEF Fresh, Unseen, OnPort, WithWorker
    <3>. QED
      BY <3>1 DEF One
  <2>5. Start(c)'
    BY <2>1, <2>3 DEF Start
  <2>6. Echo(c)' /\ Prefix(c)'
    <3>1. Echo(c) /\ Prefix(c)
      BY DEF EchoInv, Good
    <3>2. WorkersKept(c) /\ KernelKept(c) /\ DataKept(c)
      BY <1>1 DEF WorkersKept, WithWorker, KernelKept, DataKept, ioctxt, worker
    <3>3. NoShift \in [Runs -> 0..1] /\ PacketsKept(c, NoShift)
      BY <1>1, NoShiftKeeps DEF EchoInv, TypeInv
    <3>4. nsent'[c] >= nsent[c]
      BY <1>1 DEF EchoInv, TypeInv, TypeClient
    <3>. QED
      BY <3>1, <3>2, <3>3, <3>4, EchoKept, PrefixKept DEF EchoInv, TypeInv
  <2>7. Socket(c)'
    BY <2>1 DEF Socket
  <2>. QED
    BY <2>4, <2>5, <2>6, <2>7 DEF Good
<1>. QED
  BY <1>2, <1>3

LEMMA AddedLive ==
  ASSUME NEW l \in List, NEW c \in Ctxts
  PROVE  /\ CtxtListAddTo(l, c).live = l.live
         /\ CtxtListAddTo(CtxtAllocate(l, c), c).live = l.live \cup {c}
<1>1. ASSUME NEW m \in List PROVE CtxtListAddTo(m, c).live = m.live
  BY <1>1 DEF CtxtListAddTo, UseAfterFree, List
<1>2. CtxtAllocate(l, c) \in List /\ CtxtAllocate(l, c).live = l.live \cup {c}
  BY CtxtAllocateType DEF CtxtAllocate, List
<1>. QED
  BY <1>1, <1>2

\* The context starts out for a read.
LEMMA MainUpdateGood ==
  ASSUME EchoInv, TypeInv', MainUpdate, NEW c \in Ctxts PROVE Good(c)'
<1>1. /\ UNCHANGED <<pend, port, nrecvd, echoed, nsent, worker, sdAccept, sock>>
      /\ mpc = "update" /\ mpc' \in {"check", "finally"}
  BY DEF MainUpdate, UpdateCompletionPort, client, Goto
<1>2. Unseen(c) => Unseen(c)'
  BY <1>1 DEF Unseen, InKernel, worker
<1>3. MainKeeps(c)
  BY <1>1, <1>2 DEF MainKeeps, WithMain, FreshNow, MainSetsUp, SettingUp
<1>4. WorkersKept(c) /\ KernelKept(c)
  BY <1>1 DEF WorkersKept, WithWorker, KernelKept, worker
<1>5. CASE sdAccept # c
  <2>1. DataKept(c)
    BY <1>1, <1>5 DEF DataKept, MainUpdate, UpdateCompletionPort, ioctxt, EchoInv, TypeInv, TypeIo
  <2>2. list'.live \subseteq list.live \cup {sdAccept}
    <3>1. list \in List /\ sdAccept \in Ctxts
      BY <1>1 DEF EchoInv, TypeInv, TypeList, AcceptedSocket, Pointer
    <3>. QED
      BY <3>1, AddedLive DEF MainUpdate, UpdateCompletionPort
  <2>3. SocketKept(c)
    BY <1>1, <1>5, <2>2 DEF SocketKept
  <2>. QED
    BY <1>1, <1>3, <1>4, <2>1, <2>3, Still
<1>6. CASE sdAccept = c
  <2>1. Fresh(c) /\ sock[c] = "open"
    BY <1>1, <1>6 DEF EchoInv, Good, Start, FreshNow, MainSetsUp, SettingUp
  <2>2. IOOperation'[c] = "ClientIoRead"
    BY <2>1 DEF MainUpdate, UpdateCompletionPort, ioctxt, EchoInv, TypeInv, TypeIo, Fresh
  <2>3. Unseen(c)' /\ Fresh(c)'
    BY <1>1, <1>2, <2>1, <2>2 DEF Fresh
  <2>4. NoShift \in [Runs -> 0..1] /\ PacketsKept(c, NoShift)
    BY <1>1, NoShiftKeeps DEF EchoInv, TypeInv
  <2>5. One(c)'
    BY <1>3, <1>4, <2>4, OneKept DEF MainKeeps, EchoInv, Good, TypeInv
  <2>6. Start(c)' /\ Socket(c)'
    BY <1>1, <2>1, <2>3 DEF Start, Socket
  <2>7. Echo(c)'
    <3>1. nrecvd'[c] <= nsent'[c]
      BY <1>1 DEF EchoInv, Good, Echo
    <3>2. /\ ~InKernel(c)'
          /\ \A r \in Runs : \A i \in DOMAIN port'[r] : ~OnPort(c, r, i)'
          /\ \A t \in Threads : wpkt'[t].ctxt # c
      BY <2>3 DEF Unseen, OnPort
    <3>. QED
      BY <3>1, <3>2 DEF Echo, InKernel
  <2>8. Prefix(c)'
    BY <1>1 DEF EchoInv, Good, Prefix
  <2>. QED
    BY <2>5, <2>6, <2>7, <2>8 DEF Good
<1>. QED
  BY <1>5, <1>6

\* From main to the kernel.
LEMMA MainRecvGood ==
  ASSUME EchoInv, TypeInv', MainRecv, NEW c \in Ctxts PROVE Good(c)'
<1> DEFINE d == sdAccept
<1>1. /\ UNCHANGED <<ioctxt, nrecvd, echoed, nsent, worker, sdAccept>>
      /\ mpc = "recv" /\ mpc' = "accept"
  BY DEF MainRecv, client, Goto
<1>2. d \in Ctxts
  BY <1>1 DEF EchoInv, TypeInv, TypeList, AcceptedSocket, Pointer
<1>3. ~WithMain(c)' /\ ~MainSetsUp(c)'
  BY <1>1 DEF WithMain, MainSetsUp, SettingUp
<1>4. CASE CloseClient(d)
  <2>1. /\ UNCHANGED <<ioctxt, nrecvd, echoed, nsent, wpkt>> /\ sdAccept' = sdAccept
        /\ \A t \in Threads : wpc'[t] = wpc[t] \/ wpc'[t] = "gqcs"
    BY <1>1 DEF worker
  <2>. HIDE DEF d
  <2>. QED
    BY <1>2, <1>3, <1>4, <2>1, CloseClientGood
<1>5. CASE Post(d, "recv", 0, RecvLen) /\ UNCHANGED <<list, sock, port>>
  <2>1. WorkersKept(c) /\ DataKept(c)
    BY <1>1 DEF WorkersKept, WithWorker, DataKept, ioctxt, worker
  <2>2. CASE c # d
    <3>1. pend'[c] = pend[c]
      BY <1>5, <2>2 DEF Post, EchoInv, TypeInv, TypePend
    <3>2. Unseen(c) => Unseen(c)'
      BY <1>1, <1>5, <3>1 DEF Unseen, InKernel, worker
    <3>3. MainKeeps(c) /\ KernelKept(c)
      BY <1>3, <1>5, <3>1, <3>2 DEF MainKeeps, FreshNow, KernelKept
    <3>4. SocketKept(c)
      BY <1>1, <1>5 DEF SocketKept
    <3>. QED
      BY <1>1, <1>5, <2>1, <3>3, <3>4, Still
  <2>3. CASE c = d
    <3>1. Fresh(c) /\ sock[c] = "open"
      BY <1>1, <2>3 DEF EchoInv, Good, Start, FreshNow, MainSetsUp, SettingUp
    <3>2. /\ \A r \in Runs : \A i \in DOMAIN port'[r] : ~OnPort(c, r, i)'
          /\ \A t \in Threads : wpkt'[t].ctxt # c
      BY <1>1, <1>5, <3>1 DEF Fresh, Unseen, OnPort, worker
    <3>3. pend'[c] = [op |-> "recv", off |-> 0, len |-> RecvLen]
      BY <1>2, <1>5, <2>3 DEF Post, EchoInv, TypeInv, TypePend
    <3>4. One(c)'
      BY <1>3, <3>2 DEF One, WithWorker
    <3>5. Start(c)' /\ Socket(c)'
      BY <1>3, <1>5, <3>1 DEF Start, FreshNow, Socket
    <3>6. Echo(c)'
      <4>1. nrecvd'[c] <= nsent'[c]
        BY <1>1 DEF EchoInv, Good, Echo
      <4>2. /\ IOOperation'[c] = "ClientIoRead" /\ pend'[c].op = "recv" /\ pend'[c].off = 0
            /\ Len(echoed'[c]) = nrecvd'[c]
        BY <1>1, <3>1, <3>3 DEF Fresh, ioctxt
      <4>. QED
        BY <3>2, <4>1, <4>2 DEF Echo, OnPort
    <3>7. Prefix(c)'
      BY <1>1 DEF EchoInv, Good, Prefix
    <3>. QED
      BY <3>4, <3>5, <3>6, <3>7 DEF Good
  <2>. QED
    BY <2>2, <2>3
<1>. QED
  BY <1>4, <1>5 DEF MainRecv

-----------------------------------------------------------------------------
(* From the port to a worker *)

\* A worker whose port is closed, or whose packet is not a success of c.
LEMMA WorkerGetOther ==
  ASSUME EchoInv, TypeInv', NEW t \in Threads, WorkerGet(t), NEW c \in Ctxts,
         ~(wpkt'[t].ctxt = c /\ wpkt'[t].ok),
         NEW s \in [Runs -> 0..1],
         \A r \in Runs : \A i \in DOMAIN port'[r] :
           i + s[r] \in DOMAIN port[r] /\ port'[r][i] = port[r][i + s[r]],
         Unseen(c) => wpkt'[t].ctxt # c
  PROVE  Good(c)'
<1>1. UNCHANGED <<pend, ioctxt, nrecvd, echoed, nsent, sdAccept, mpc, sock, list>>
  BY DEF WorkerGet, client, main
<1>2. \A u \in Threads \ {t} : wpc'[u] = wpc[u] /\ wpkt'[u] = wpkt[u]
  BY DEF WorkerGet, EchoInv, TypeInv, TypeWorker
<1>3. WorkersKept(c) /\ KernelKept(c) /\ DataKept(c)
  BY <1>1, <1>2 DEF WorkersKept, WithWorker, KernelKept, DataKept, ioctxt
<1>4. PacketsKept(c, s)
  BY DEF PacketsKept
<1>5. Unseen(c) => Unseen(c)'
  <2> SUFFICES ASSUME Unseen(c) PROVE Unseen(c)'
    OBVIOUS
  <2>1. ~InKernel(c)'
    BY <1>1 DEF Unseen, InKernel
  <2>2. \A r \in Runs : \A i \in DOMAIN port'[r] : port'[r][i].ctxt # c
    BY DEF Unseen
  <2>3. \A u \in Threads : wpkt'[u].ctxt # c
    BY <1>2 DEF Unseen
  <2>. QED
    BY <2>1, <2>2, <2>3 DEF Unseen
<1>6. nsent'[c] >= nsent[c]
  BY <1>1 DEF EchoInv, TypeInv, TypeClient
<1>. QED
  BY <1>1, <1>3, <1>4, <1>5, <1>6, MainSame, Undisturbed DEF EchoInv, TypeInv

LEMMA WorkerGetSuccess ==
  ASSUME EchoInv, TypeInv', NEW t \in Threads, WorkerGet(t), NEW c \in Ctxts,
         wpkt'[t].ctxt = c, wpkt'[t].ok,
         NEW s \in [Runs -> 0..1],
         \A r \in Runs : \A i \in DOMAIN port'[r] :
           i + s[r] \in DOMAIN port[r] /\ port'[r][i] = port[r][i + s[r]],
         NEW k \in Runs, 1 \in DOMAIN port[k], wpkt'[t] = port[k][1], s[k] = 1
  PROVE  Good(c)'
<1>1. UNCHANGED <<pend, ioctxt, nrecvd, echoed, nsent, sdAccept, mpc, sock, list>>
  BY DEF WorkerGet, client, main
<1>2. \A u \in Threads \ {t} : wpc'[u] = wpc[u] /\ wpkt'[u] = wpkt[u]
  BY DEF WorkerGet, EchoInv, TypeInv, TypeWorker
<1>3. OnPort(c, k, 1)
  BY DEF OnPort
<1>4. /\ ~WithMain(c) /\ ~InKernel(c)
      /\ \A r \in Runs : \A i \in DOMAIN port[r] : OnPort(c, r, i) => r = k /\ i = 1
      /\ \A u \in Threads : ~WithWorker(c, u)
  BY <1>3 DEF EchoInv, Good, One
<1>5. ~WithMain(c)' /\ ~InKernel(c)'
  BY <1>1, <1>4 DEF WithMain, InKernel
<1>6. \A r \in Runs : \A i \in DOMAIN port'[r] : ~OnPort(c, r, i)'
  <2> SUFFICES ASSUME NEW r \in Runs, NEW i \in DOMAIN port'[r], OnPort(c, r, i)' PROVE FALSE
    OBVIOUS
  <2>1. OnPort(c, r, i + s[r])
    BY DEF OnPort
  <2>2. r = k /\ i + s[r] = 1
    BY <1>4, <2>1
  <2>3. i \in Nat /\ i >= 1
    BY DEF TypeInv, TypePort
  <2>. QED
    BY <2>2, <2>3
<1>7. \A u \in Threads : WithWorker(c, u)' => u = t
  BY <1>2, <1>4 DEF WithWorker
<1>8. One(c)'
  BY <1>5, <1>6, <1>7 DEF One
<1>9. Start(c)'
  <2>1. ~FreshNow(c)
    BY <1>3 DEF EchoInv, Good, Start, Fresh, Unseen, OnPort
  <2>. QED
    BY <1>1, <2>1 DEF Start, FreshNow, MainSetsUp
<1>10. Echo(c)'
  <2>1. Echo(c) /\ TypeClient
    BY DEF EchoInv, Good, TypeInv
  <2>2. ASSUME NEW n PROVE AfterSuccess(c, n)' = AfterSuccess(c, n)
    BY <1>1 DEF AfterSuccess, NextInBuffer, ioctxt
  <2>3. AfterSuccess(c, wpkt'[t].size)
    BY <1>3, <2>1 DEF Echo
  <2>4. ASSUME NEW u \in Threads, wpc'[u] \in {"got", "io"}, wpkt'[u].ctxt = c, wpkt'[u].ok
        PROVE  AfterSuccess(c, wpkt[u].size)'
    <3>1. u = t
      BY <1>7, <2>4 DEF WithWorker
    <3>. QED
      BY <2>2, <2>3, <3>1
  <2>5. nrecvd'[c] <= nsent'[c]
    BY <1>1, <2>1 DEF Echo
  <2>6. pend'[c].op = "none"
    BY <1>5 DEF InKernel
  <2>. QED
    BY <1>6, <2>4, <2>5, <2>6 DEF Echo
<1>11. Prefix(c)' /\ Socket(c)'
  <2>1. Held(c)
    BY <1>3 DEF Held
  <2>. QED
    BY <1>1, <1>5, <2>1 DEF EchoInv, Good, Prefix, Socket
<1>. QED
  BY <1>8, <1>9, <1>10, <1>11 DEF Good

LEMMA WorkerGetGood ==
  ASSUME EchoInv, TypeInv', NEW t \in Threads, WorkerGet(t), NEW c \in Ctxts PROVE Good(c)'
<1>1. /\ port \in [Runs -> Seq(Packet)]
      /\ wpkt \in [Threads -> Packet]
      /\ t[1] \in Runs
  BY DEF EchoInv, TypeInv, TypePort, TypeWorker, Threads
<1>2. CASE /\ port[t[1]] # <<>>
           /\ wpkt' = [wpkt EXCEPT ![t] = Head(port[t[1]])]
           /\ port' = [port EXCEPT ![t[1]] = Tail(@)]
  <2> DEFINE k == t[1]
             s == [r \in Runs |-> IF r = k THEN 1 ELSE 0]
  <2>1. s \in [Runs -> 0..1] /\ s[k] = 1 /\ \A r \in Runs \ {k} : s[r] = 0
    BY <1>1
  <2>2. 1 \in DOMAIN port[k] /\ wpkt'[t] = port[k][1]
    BY <1>1, <1>2
  <2>3. ASSUME NEW r \in Runs, NEW i \in DOMAIN port'[r]
        PROVE  i + s[r] \in DOMAIN port[r] /\ port'[r][i] = port[r][i + s[r]]
    <3>1. CASE r = k
      <4>1. port'[r] = Tail(port[r]) /\ port[r] \in Seq(Packet) /\ port[r] # <<>>
        BY <1>1, <1>2, <3>1
      <4>2. s[r] = 1
        BY <2>1, <3>1
      <4>. HIDE DEF s, k
      <4>3. i \in 1..(Len(port[r]) - 1)
        BY <2>3, <4>1
      <4>4. port'[r][i] = port[r][i + 1]
        BY <4>1, <4>3
      <4>. QED
        BY <4>1, <4>2, <4>3, <4>4
    <3>2. CASE r # k
      <4>1. port'[r] = port[r] /\ s[r] = 0
        BY <1>1, <1>2, <2>1, <3>2
      <4>2. i \in Int
        BY <1>1, <2>3, <4>1
      <4>. QED
        BY <2>3, <4>1, <4>2
    <3>. QED
      BY <3>1, <3>2
  <2>4. Unseen(c) => wpkt'[t].ctxt # c
    BY <1>1, <2>2 DEF Unseen
  <2>. HIDE DEF s, k
  <2>5. k \in Runs
    BY <1>1 DEF k
  <2>. QED
    BY <2>1, <2>2, <2>3, <2>4, <2>5, WorkerGetOther, WorkerGetSuccess
<1>3. CASE /\ wpkt' = [wpkt EXCEPT ![t].ok = FALSE]
           /\ UNCHANGED port
  <2>1. wpkt'[t].ok = FALSE /\ wpkt'[t].ctxt = wpkt[t].ctxt
    BY <1>1, <1>3 DEF Packet
  <2>2. /\ NoShift \in [Runs -> 0..1]
        /\ \A r \in Runs : \A i \in DOMAIN port[r] : i + NoShift[r] = i
    BY <1>1 DEF NoShift
  <2>3. Unseen(c) => wpkt'[t].ctxt # c
    BY <2>1 DEF Unseen
  <2>. QED
    BY <1>3, <2>1, <2>2, <2>3, WorkerGetOther
<1>. QED
  BY <1>2, <1>3 DEF WorkerGet

-----------------------------------------------------------------------------
(* From the worker back to the kernel *)

\* The call is accepted, and the operation is the one the protocol calls
\* for; or it is refused and the worker goes on to close the connection.
LEMMA IssuedGood ==
  ASSUME EchoInv, TypeInv', NEW t \in Threads, NEW c \in Ctxts, WithWorker(c, t),
         UNCHANGED <<port, nrecvd, echoed, nsent, wpkt, sdAccept, mpc, sock, list>>,
         c \in list.live, \A u \in Threads \ {t} : wpc'[u] = wpc[u],
         \/ wpc'[t] = "close" /\ pend'[c] = pend[c]
         \/ wpc'[t] = "gqcs" /\ pend'[c].op = "recv" /\ IOOperation'[c] = "ClientIoRead"
              /\ pend'[c].off = 0 /\ Len(echoed[c]) = nrecvd[c]
         \/ wpc'[t] = "gqcs" /\ pend'[c].op = "send" /\ IOOperation'[c] = "ClientIoWrite"
              /\ pend'[c].off = nSentBytes'[c]
              /\ pend'[c].off + pend'[c].len = nTotalBytes'[c]
              /\ NextInBuffer(c, pend[c].off, pend[c].len)'
  PROVE  Good(c)'
<1>1. /\ ~WithMain(c) /\ ~InKernel(c)
      /\ \A r \in Runs : \A i \in DOMAIN port[r] : ~OnPort(c, r, i)
      /\ \A u \in Threads : WithWorker(c, u) => u = t
  BY DEF EchoInv, Good, One
<1>2. /\ ~WithMain(c)'
      /\ \A r \in Runs : \A i \in DOMAIN port'[r] : ~OnPort(c, r, i)'
      /\ \A u \in Threads : WithWorker(c, u)' => u = t /\ wpc'[t] = "close" /\ pend'[c] = pend[c]
  BY <1>1 DEF WithMain, OnPort, WithWorker
<1>3. One(c)'
  BY <1>1, <1>2 DEF One, InKernel
<1>4. Start(c)'
  <2>1. ~FreshNow(c)
    BY DEF EchoInv, Good, Start, Fresh, Unseen, WithWorker
  <2>. QED
    BY <2>1 DEF Start, FreshNow, MainSetsUp
<1>5. Echo(c)'
  <2>1. nrecvd'[c] <= nsent'[c]
    BY DEF EchoInv, Good, Echo
  <2>2. \A u \in Threads : ~(wpc'[u] \in {"got", "io"} /\ wpkt'[u].ctxt = c /\ wpkt'[u].ok)
    BY <1>2 DEF WithWorker
  <2>3. /\ pend'[c].op = "recv" => /\ IOOperation'[c] = "ClientIoRead"
                                   /\ pend'[c].off = 0
                                   /\ Len(echoed'[c]) = nrecvd'[c]
        /\ pend'[c].op = "send" => /\ IOOperation'[c] = "ClientIoWrite"
                                   /\ pend'[c].off = nSentBytes'[c]
                                   /\ pend'[c].off + pend'[c].len = nTotalBytes'[c]
                                   /\ NextInBuffer(c, pend[c].off, pend[c].len)'
    BY <1>1 DEF InKernel
  <2>. QED
    BY <1>2, <2>1, <2>2, <2>3 DEF Echo
<1>6. Prefix(c)' /\ Socket(c)'
  <2>1. sock[c] = "open"
    BY DEF EchoInv, Good, Socket, Held
  <2>. QED
    BY <2>1 DEF EchoInv, Good, Prefix, Socket
<1>. QED
  BY <1>3, <1>4, <1>5, <1>6 DEF Good

LEMMA WorkerIoGood ==
  ASSUME EchoInv, TypeInv', NEW t \in Threads, WorkerIo(t), NEW c \in Ctxts PROVE Good(c)'
<1> DEFINE d == wpkt[t].ctxt
           size == wpkt[t].size
<1>1. /\ UNCHANGED <<Buffer, port, nrecvd, echoed, nsent, wpkt, sdAccept, mpc, sock>>
      /\ wpc[t] = "io"
  BY DEF WorkerIo, client, main
<1>2. /\ \A u \in Threads \ {t} : wpc'[u] = wpc[u]
      /\ wpc'[t] \in {"io", "gqcs", "close"}
  BY <1>1 DEF WorkerIo, IoRead, IoWrite, Issue, EchoInv, TypeInv, TypeWorker
<1>3. size \in 0..MAX_BUFF_SIZE /\ wpkt[t].ok
  BY <1>1 DEF EchoInv, TypeInv, TypeWorker, Packet, SuccessOnly
<1>4. CASE c # d \/ d \notin list.live
  <2>1. /\ pend'[c] = pend[c] /\ IOOperation'[c] = IOOperation[c]
        /\ nTotalBytes'[c] = nTotalBytes[c] /\ nSentBytes'[c] = nSentBytes[c]
    <3>1. CASE d \notin list.live
      BY <3>1 DEF WorkerIo
    <3>2. CASE d \in list.live
      <4>1. /\ pend \in [Ctxts -> Operation] /\ IOOperation \in [Ctxts -> {"ClientIoRead", "ClientIoWrite"}]
            /\ nTotalBytes \in [Ctxts -> 0..MAX_BUFF_SIZE] /\ nSentBytes \in [Ctxts -> Nat]
        BY DEF EchoInv, TypeInv, TypePend, TypeIo
      <4>2. c # d
        BY <1>4, <3>2
      <4>3. IoRead(t, d, size) \/ IoWrite(t, d, size)
        BY <3>2 DEF WorkerIo
      <4>. HIDE DEF d, size
      <4>4. IoRead(t, d, size) =>
              /\ pend'[c] = pend[c] /\ IOOperation'[c] = IOOperation[c]
              /\ nTotalBytes'[c] = nTotalBytes[c] /\ nSentBytes'[c] = nSentBytes[c]
        BY <4>1, <4>2 DEF IoRead, Issue, Post
      <4>5. IoWrite(t, d, size) =>
              /\ pend'[c] = pend[c] /\ IOOperation'[c] = IOOperation[c]
              /\ nTotalBytes'[c] = nTotalBytes[c] /\ nSentBytes'[c] = nSentBytes[c]
        BY <4>1, <4>2 DEF IoWrite, Issue, Post
      <4>. QED
        BY <4>3, <4>4, <4>5
    <3>. QED
      BY <3>1, <3>2
  <2>2. Unseen(c) => Unseen(c)'
    BY <1>1, <2>1 DEF Unseen, InKernel
  <2>3. ASSUME NEW u \in Threads, WithWorker(c, u)'
        PROVE  /\ WithWorker(c, u) /\ wpkt'[u] = wpkt[u]
               /\ wpc'[u] \in {"got", "io"} => wpc[u] \in {"got", "io"}
    BY <1>1, <1>2, <2>3 DEF WithWorker
  <2>4. WorkersKept(c)
    BY <2>3 DEF WorkersKept
  <2>5. KernelKept(c) /\ DataKept(c)
    BY <1>1, <2>1 DEF KernelKept, DataKept
  <2>6. list'.live = list.live
    BY DEF WorkerIo, UseAfterFree, EchoInv, TypeInv, TypeList, List
  <2>7. SocketKept(c)
    BY <1>1, <2>6 DEF SocketKept
  <2>. QED
    BY <1>1, <2>2, <2>4, <2>5, <2>7, MainSame, Still
<1>5. CASE c = d /\ d \in list.live
  <2>1. WithWorker(c, t)
    BY <1>1, <1>3, <1>5 DEF WithWorker
  <2>2. AfterSuccess(c, size)
    BY <1>1, <1>3, <1>5 DEF EchoInv, Good, Echo
  <2>3. /\ pend \in [Ctxts -> Operation] /\ IOOperation \in [Ctxts -> {"ClientIoRead", "ClientIoWrite"}]
        /\ nTotalBytes \in [Ctxts -> 0..MAX_BUFF_SIZE] /\ nSentBytes \in [Ctxts -> Nat]
        /\ echoed \in [Ctxts -> Seq(0..MaxBytes)] /\ MAX_BUFF_SIZE \in Nat
        /\ wpc \in [Threads -> {"none", "gqcs", "got", "io", "close", "exit"}]
    BY ServerAssumption DEF EchoInv, TypeInv, TypePend, TypeIo, TypeClient, TypeWorker
  <2>4. Len(echoed[c]) \in Nat /\ nTotalBytes[c] \in Nat /\ nSentBytes[c] \in Nat
    BY <2>3
  <2>5. (IoRead(t, c, size) \/ IoWrite(t, c, size)) /\ list' = list /\ c \in list.live
    BY <1>5 DEF WorkerIo
  <2>. HIDE DEF d, size
  <2>6. ASSUME NEW op, NEW off, NEW len, Issue(t, c, op, off, len)
        PROVE  \/ wpc'[t] = "close" /\ pend'[c] = pend[c]
               \/ wpc'[t] = "gqcs" /\ pend'[c] = [op |-> op, off |-> off, len |-> len]
    BY <2>3, <2>6 DEF Issue, Post
  <2>7. CASE IoRead(t, c, size)
    <3>1. /\ IOOperation'[c] = "ClientIoWrite" /\ nTotalBytes'[c] = size /\ nSentBytes'[c] = 0
          /\ IOOperation[c] = "ClientIoRead"
      BY <2>3, <2>7 DEF IoRead
    <3>2. NextInBuffer(c, 0, size)
      BY <2>2, <3>1 DEF AfterSuccess
    <3>3. \/ wpc'[t] = "close" /\ pend'[c] = pend[c]
          \/ wpc'[t] = "gqcs" /\ pend'[c] = [op |-> "send", off |-> 0, len |-> size]
      BY <2>6, <2>7 DEF IoRead
    <3>4. CASE wpc'[t] = "close" /\ pend'[c] = pend[c]
      BY <1>1, <1>2, <2>1, <2>5, <3>4, IssuedGood
    <3>5. CASE wpc'[t] = "gqcs" /\ pend'[c] = [op |-> "send", off |-> 0, len |-> size]
      <4>1. /\ pend'[c].op = "send" /\ pend'[c].off = nSentBytes'[c]
            /\ pend'[c].off + pend'[c].len = nTotalBytes'[c]
        BY <1>3, <3>1, <3>5 DEF size
      <4>2. NextInBuffer(c, pend[c].off, pend[c].len)'
        BY <1>1, <3>2, <3>5 DEF NextInBuffer
      <4>. QED
        BY <1>1, <1>2, <2>1, <2>5, <3>1, <3>5, <4>1, <4>2, IssuedGood
    <3>. QED
      BY <3>3, <3>4, <3>5
  <2>8. CASE IoWrite(t, c, size)
    <3> DEFINE sent == nSentBytes[c] + size
               rest == nTotalBytes[c] - sent
    <3>1. /\ IOOperation[c] = "ClientIoWrite" /\ nSentBytes'[c] = sent
          /\ nTotalBytes'[c] = nTotalBytes[c]
      BY <2>3, <2>8 DEF IoWrite, SentSoFar
    <3>2. sent <= nTotalBytes[c] /\ NextInBuffer(c, sent, rest) /\ sent \in Nat
      BY <1>3, <2>2, <2>4, <3>1 DEF AfterSuccess, size
    <3>3. IF sent < nTotalBytes[c]
            THEN Issue(t, c, "send", sent, rest) /\ UNCHANGED IOOperation
            ELSE IOOperation' = [IOOperation EXCEPT ![c] = "ClientIoRead"]
                   /\ Issue(t, c, "recv", 0, RecvLen)
      BY <2>8 DEF IoWrite, SentSoFar
    <3>. HIDE DEF sent
    <3>4. CASE wpc'[t] = "close" /\ pend'[c] = pend[c]
      BY <1>1, <1>2, <2>1, <2>5, <3>4, IssuedGood
    <3>5. CASE sent < nTotalBytes[c] /\ pend'[c] = [op |-> "send", off |-> sent, len |-> rest]
                 /\ wpc'[t] = "gqcs"
      <4>1. sent + rest = nTotalBytes[c]
        BY <2>4, <3>2
      <4>2. IOOperation'[c] = "ClientIoWrite"
        BY <3>1, <3>3, <3>5
      <4>. HIDE DEF rest
      <4>3. /\ pend'[c].op = "send" /\ pend'[c].off = nSentBytes'[c]
            /\ pend'[c].off + pend'[c].len = nTotalBytes'[c]
        BY <3>1, <3>5, <4>1
      <4>4. NextInBuffer(c, pend[c].off, pend[c].len)'
        BY <1>1, <3>2, <3>5 DEF NextInBuffer
      <4>. QED
        BY <1>1, <1>2, <2>1, <2>5, <3>5, <4>2, <4>3, <4>4, IssuedGood
    <3>6. CASE ~(sent < nTotalBytes[c]) /\ pend'[c] = [op |-> "recv", off |-> 0, len |-> RecvLen]
                 /\ wpc'[t] = "gqcs"
      <4>1. rest = 0
        BY <2>4, <3>2, <3>6
      <4>2. nrecvd[c] = Len(echoed[c])
        BY <2>4, <3>2, <4>1 DEF NextInBuffer
      <4>3. IOOperation'[c] = "ClientIoRead"
        BY <2>3, <3>3, <3>6
      <4>. QED
        BY <1>1, <1>2, <2>1, <2>5, <3>6, <4>2, <4>3, IssuedGood
    <3>. QED
      BY <2>6, <3>3, <3>4, <3>5, <3>6
  <2>. QED
    BY <2>5, <2>7, <2>8
<1>. QED
  BY <1>4, <1>5

-----------------------------------------------------------------------------
(* From the kernel to the port *)

LEMMA CompletedPackets ==
  ASSUME TypePort, NEW d \in Ctxts, NEW n, NEW ok \in BOOLEAN, Completed(d, n, ok),
         NEW r \in Runs, NEW i \in DOMAIN port'[r]
  PROVE  \/ i \in DOMAIN port[r] /\ port'[r][i] = port[r][i]
         \/ r = key[d] /\ i = Len(port[r]) + 1 /\ port'[r][i] = [ctxt |-> d, size |-> n, ok |-> ok]
<1> DEFINE p == [ctxt |-> d, size |-> n, ok |-> ok]
<1>1. port' = [port EXCEPT ![key[d]] = Append(@, p)]
  BY DEF Completed
<1>. HIDE DEF p
<1>2. \/ i \in DOMAIN port[r] /\ port'[r][i] = port[r][i]
      \/ r = key[d] /\ i = Len(port[r]) + 1 /\ port'[r][i] = p
  BY <1>1, PortAppended
<1>. QED
  BY <1>2 DEF p

LEMMA CompletedOther ==
  ASSUME EchoInv, TypeInv', NEW d \in Ctxts, NEW c \in Ctxts,
         UNCHANGED <<worker, nsent, mpc, sdAccept, sock, list>>,
         NEW n, NEW ok \in BOOLEAN, Completed(d, n, ok), DataKept(c),
         pend' = [pend EXCEPT ![d] = Idle], InKernel(d),
         c = d => ~ok
  PROVE  Good(c)'
<1>1. WorkersKept(c)
  BY DEF WorkersKept, WithWorker, worker
<1>2. KernelKept(c) /\ (c # d => pend'[c] = pend[c])
  BY DEF KernelKept, EchoInv, TypeInv, TypePend
<1>3. ASSUME NEW r \in Runs, NEW i \in DOMAIN port'[r], port'[r][i].ctxt = c, port'[r][i].ok \/ c # d
      PROVE  i \in DOMAIN port[r] /\ port'[r][i] = port[r][i]
  <2>1. \/ i \in DOMAIN port[r] /\ port'[r][i] = port[r][i]
        \/ port'[r][i] = [ctxt |-> d, size |-> n, ok |-> ok]
    BY <1>3, CompletedPackets DEF EchoInv, TypeInv
  <2>. QED
    BY <1>3, <2>1
<1>4. Unseen(c) => Unseen(c)'
  <2>1. CASE c = d
    BY <2>1 DEF Unseen
  <2>2. CASE c # d
    BY <1>2, <1>3, <2>2 DEF Unseen, InKernel, worker
  <2>. QED
    BY <2>1, <2>2
<1>5. MainKeeps(c) /\ SocketKept(c)
  BY <1>4, MainSame
<1>. QED
  BY <1>1, <1>2, <1>3, <1>5, Still

LEMMA CompletedSuccess ==
  ASSUME EchoInv, TypeInv', NEW c \in Ctxts,
         UNCHANGED <<worker, mpc, sdAccept, sock, list>>,
         NEW n, Completed(c, n, TRUE),
         pend' = [pend EXCEPT ![c] = Idle], InKernel(c),
         AfterSuccess(c, n)', nrecvd'[c] <= nsent'[c], Prefix(c)'
  PROVE  Good(c)'
<1>1. /\ ~WithMain(c)
      /\ \A r \in Runs : \A i \in DOMAIN port[r] : ~OnPort(c, r, i)
      /\ \A u \in Threads : ~WithWorker(c, u)
  BY DEF EchoInv, Good, One
<1>2. pend'[c] = Idle
  BY DEF EchoInv, TypeInv, TypePend
<1>3. /\ ~WithMain(c)' /\ ~InKernel(c)'
      /\ \A u \in Threads : ~WithWorker(c, u)'
  BY <1>1, <1>2 DEF WithMain, InKernel, Idle, WithWorker, worker
<1>4. ASSUME NEW r \in Runs, NEW i \in DOMAIN port'[r], OnPort(c, r, i)'
      PROVE  r = key[c] /\ i = Len(port[r]) + 1 /\ port'[r][i].size = n
  <2> DEFINE p == [ctxt |-> c, size |-> n, ok |-> TRUE]
  <2>1. \/ i \in DOMAIN port[r] /\ port'[r][i] = port[r][i]
        \/ r = key[c] /\ i = Len(port[r]) + 1 /\ port'[r][i] = p
    <3>1. port' = [port EXCEPT ![key[c]] = Append(@, p)]
      BY DEF Completed
    <3>2. TypePort
      BY DEF EchoInv, TypeInv
    <3>. HIDE DEF p
    <3>. QED
      BY <1>4, <3>1, <3>2, PortAppended
  <2>2. ~(i \in DOMAIN port[r] /\ port'[r][i] = port[r][i])
    BY <1>1, <1>4 DEF OnPort
  <2>. QED
    BY <2>1, <2>2
<1>5. One(c)'
  BY <1>3, <1>4 DEF One
<1>6. Start(c)'
  <2>1. ~FreshNow(c)
    BY DEF EchoInv, Good, Start, Fresh, Unseen
  <2>. QED
    BY <2>1 DEF Start, FreshNow, MainSetsUp
<1>7. Echo(c)'
  <2>1. pend'[c].op = "none"
    BY <1>2 DEF Idle
  <2>2. ASSUME NEW r \in Runs, NEW i \in DOMAIN port'[r], OnPort(c, r, i)'
        PROVE  AfterSuccess(c, port[r][i].size)'
    BY <1>4, <2>2 DEF AfterSuccess, NextInBuffer
  <2>3. ASSUME NEW u \in Threads, wpc'[u] \in {"got", "io"}, wpkt'[u].ctxt = c, wpkt'[u].ok
        PROVE  FALSE
    BY <1>3, <2>3 DEF WithWorker
  <2>. QED
    BY <2>1, <2>2, <2>3 DEF Echo
<1>8. Socket(c)'
  BY <1>3 DEF EchoInv, Good, Socket
<1>. QED
  BY <1>5, <1>6, <1>7, <1>8 DEF Good

LEMMA CompleteRecvGood ==
  ASSUME EchoInv, TypeInv', NEW d \in Ctxts, CompleteRecv(d), NEW c \in Ctxts PROVE Good(c)'
<1>1. /\ UNCHANGED <<worker, nsent, mpc, sdAccept, sock, list, echoed, IOOperation, nTotalBytes, nSentBytes>>
      /\ pend' = [pend EXCEPT ![d] = Idle] /\ pend[d].op = "recv" /\ InKernel(d)
  BY DEF CompleteRecv, main, InKernel
<1>2. CASE UNCHANGED <<Buffer, nrecvd>> /\ Completed(d, 0, FALSE)
  <2>1. DataKept(c)
    BY <1>1, <1>2 DEF DataKept
  <2>. QED
    BY <1>1, <1>2, <2>1, CompletedOther
<1>3. ASSUME NEW n \in 0..(nsent[d] - nrecvd[d]), n <= MAX_BUFF_SIZE,
             Buffer' = [Buffer EXCEPT ![d] =
                          [i \in 1..MAX_BUFF_SIZE |-> IF i <= n THEN nrecvd[d] + i ELSE @[i]]],
             nrecvd' = [nrecvd EXCEPT ![d] = @ + n],
             Completed(d, n, TRUE)
      PROVE  Good(c)'
  <2>1. /\ Buffer \in [Ctxts -> [1..MAX_BUFF_SIZE -> 0..MaxBytes]]
        /\ nrecvd \in [Ctxts -> 0..MaxBytes] /\ nsent \in [Ctxts -> 0..MaxBytes]
        /\ echoed \in [Ctxts -> Seq(0..MaxBytes)] /\ MAX_BUFF_SIZE \in Nat /\ MaxBytes \in Nat
    BY ServerAssumption DEF EchoInv, TypeInv, TypeIo, TypeClient
  <2>2. CASE c # d
    <3>1. Buffer'[c] = Buffer[c]
      BY <1>3, <2>1, <2>2
    <3>2. nrecvd'[c] = nrecvd[c]
      BY <1>3, <2>1, <2>2
    <3>3. DataKept(c)
      BY <1>1, <3>1, <3>2 DEF DataKept
    <3>. QED
      BY <1>1, <1>3, <2>2, <3>3, CompletedOther
  <2>3. CASE c = d
    <3>1. /\ IOOperation[c] = "ClientIoRead" /\ Len(echoed[c]) = nrecvd[c]
          /\ nrecvd[c] <= nsent[c] /\ Prefix(c)
      BY <1>1, <2>3 DEF EchoInv, Good, Echo
    <3>2. nrecvd'[c] = nrecvd[c] + n
      BY <1>3, <2>1, <2>3
    <3>3. \A j \in 1..n : Buffer'[c][0 + j] = nrecvd[c] + j
      BY <1>3, <2>1, <2>3
    <3>4. n \in Nat /\ nrecvd[c] \in Nat /\ nsent[c] \in Nat
      BY <1>3, <2>1
    <3>5. NextInBuffer(c, 0, n)'
      <4>1. Len(echoed'[c]) = nrecvd[c]
        BY <1>1, <3>1
      <4>2. 0 + n <= MAX_BUFF_SIZE /\ Len(echoed'[c]) + n = nrecvd'[c]
        BY <1>3, <3>2, <3>4, <4>1
      <4>3. \A j \in 1..n : Buffer'[c][0 + j] = Len(echoed'[c]) + j
        BY <3>3, <4>1
      <4>. QED
        BY <4>2, <4>3 DEF NextInBuffer
    <3>6. AfterSuccess(c, n)'
      BY <1>1, <3>1, <3>5 DEF AfterSuccess
    <3>7. nrecvd'[c] <= nsent'[c]
      BY <1>1, <1>3, <2>3, <3>2, <3>4
    <3>8. Prefix(c)'
      <4>1. Len(echoed[c]) <= nrecvd'[c]
        BY <3>1, <3>2, <3>4
      <4>. QED
        BY <1>1, <3>1, <4>1 DEF Prefix
    <3>. QED
      BY <1>1, <1>3, <2>3, <3>6, <3>7, <3>8, CompletedSuccess
  <2>. QED
    BY <2>2, <2>3
<1>4. CASE UNCHANGED <<Buffer, nrecvd>> /\ Completed(d, 0, TRUE)
  <2>1. CASE c # d
    <3>1. DataKept(c)
      BY <1>1, <1>4 DEF DataKept
    <3>. QED
      BY <1>1, <1>4, <2>1, <3>1, CompletedOther
  <2>2. CASE c = d
    <3>1. /\ IOOperation[c] = "ClientIoRead" /\ Len(echoed[c]) = nrecvd[c]
          /\ nrecvd[c] <= nsent[c] /\ Prefix(c) /\ nrecvd[c] \in Nat
      BY <1>1, <2>2 DEF EchoInv, Good, Echo, TypeInv, TypeClient
    <3>2. MAX_BUFF_SIZE \in Nat
      BY ServerAssumption
    <3>3. AfterSuccess(c, 0)'
      BY <1>1, <1>4, <3>1, <3>2 DEF AfterSuccess, NextInBuffer
    <3>4. Prefix(c)' /\ nrecvd'[c] <= nsent'[c]
      BY <1>1, <1>4, <3>1 DEF Prefix
    <3>. QED
      BY <1>1, <1>4, <2>2, <3>3, <3>4, CompletedSuccess
  <2>. QED
    BY <2>1, <2>2
<1>5. \A n \in 1..Min2(nsent[d] - nrecvd[d], pend[d].len) :
        n \in 0..(nsent[d] - nrecvd[d]) /\ n <= MAX_BUFF_SIZE
  <2>1. nsent[d] \in Int /\ nrecvd[d] \in Int /\ pend[d].len \in 0..MAX_BUFF_SIZE /\ MAX_BUFF_SIZE \in Nat
    BY ServerAssumption DEF EchoInv, TypeInv, TypeClient, TypePend, Operation
  <2> DEFINE a == nsent[d] - nrecvd[d]
             b == pend[d].len
  <2>2. a \in Int /\ b \in Int /\ b <= MAX_BUFF_SIZE
    BY <2>1
  <2>. HIDE DEF a, b
  <2>3. \A n \in 1..Min2(a, b) : n \in 0..a /\ n <= MAX_BUFF_SIZE
    BY <2>1, <2>2 DEF Min2
  <2>. QED
    BY <2>3 DEF a, b
<1>. QED
  BY <1>2, <1>3, <1>4, <1>5 DEF CompleteRecv

LEMMA PrefixExtended ==
  ASSUME NEW S, NEW s \in Seq(S), s = [i \in 1..Len(s) |-> i], NEW n \in Nat,
         NEW f, f = [i \in 1..n |-> Len(s) + i]
  PROVE  Len(s \o f) = Len(s) + n /\ s \o f = [i \in 1..Len(s \o f) |-> i]
<1>1. f \in Seq(Nat) /\ Len(f) = n
  <2>1. f \in [1..n -> Nat]
    OBVIOUS
  <2>. QED
    BY <2>1
<1>2. s \in Seq(Nat)
  <2>1. s \in [1..Len(s) -> Nat]
    OBVIOUS
  <2>. QED
    BY <2>1
<1>3. Len(s \o f) = Len(s) + n /\ s \o f \in Seq(Nat)
  BY <1>1, <1>2
<1>4. ASSUME NEW i \in 1..Len(s \o f) PROVE (s \o f)[i] = i
  <2>1. CASE i <= Len(s)
    <3>1. (s \o f)[i] = s[i]
      BY <1>1, <1>2, <1>3, <1>4, <2>1
    <3>. QED
      BY <1>3, <1>4, <2>1, <3>1
  <2>2. CASE i > Len(s)
    <3>1. (s \o f)[i] = f[i - Len(s)] /\ i - Len(s) \in 1..n
      BY <1>1, <1>2, <1>3, <1>4, <2>2
    <3>. QED
      BY <3>1, <1>4
  <2>. QED
    BY <1>2, <1>4, <2>1, <2>2
<1>. QED
  BY <1>3, <1>4

LEMMA CompleteSendGood ==
  ASSUME EchoInv, TypeInv', NEW d \in Ctxts, CompleteSend(d), NEW c \in Ctxts PROVE Good(c)'
<1>1. /\ UNCHANGED <<worker, nsent, nrecvd, mpc, sdAccept, sock, list, ioctxt>>
      /\ pend' = [pend EXCEPT ![d] = Idle] /\ pend[d].op = "send" /\ InKernel(d)
  BY DEF CompleteSend, main, InKernel
<1>2. CASE UNCHANGED echoed /\ Completed(d, 0, FALSE)
  <2>1. DataKept(c)
    BY <1>1, <1>2 DEF DataKept, ioctxt
  <2>. QED
    BY <1>1, <1>2, <2>1, CompletedOther
<1>3. ASSUME NEW n \in 1..pend[d].len,
             echoed' = [echoed EXCEPT ![d] = @ \o [i \in 1..n |-> Buffer[d][pend[d].off + i]]],
             Completed(d, n, TRUE)
      PROVE  Good(c)'
  <2>1. /\ Buffer \in [Ctxts -> [1..MAX_BUFF_SIZE -> 0..MaxBytes]]
        /\ nrecvd \in [Ctxts -> 0..MaxBytes] /\ nsent \in [Ctxts -> 0..MaxBytes]
        /\ echoed \in [Ctxts -> Seq(0..MaxBytes)] /\ MAX_BUFF_SIZE \in Nat /\ MaxBytes \in Nat
        /\ nTotalBytes \in [Ctxts -> 0..MAX_BUFF_SIZE] /\ nSentBytes \in [Ctxts -> Nat]
        /\ pend[d].len \in 0..MAX_BUFF_SIZE /\ pend[d].off \in 0..MAX_BUFF_SIZE
    BY ServerAssumption DEF EchoInv, TypeInv, TypeIo, TypeClient, TypePend, Operation
  <2>2. CASE c # d
    <3>1. echoed'[c] = echoed[c]
      BY <1>3, <2>1, <2>2
    <3>2. DataKept(c)
      BY <1>1, <3>1 DEF DataKept, ioctxt
    <3>. QED
      BY <1>1, <1>3, <2>2, <3>2, CompletedOther
  <2>3. CASE c = d
    <3> DEFINE len == pend[c].len
               off == pend[c].off
               got == Len(echoed[c])
               f == [i \in 1..n |-> Buffer[c][off + i]]
    <3>1. /\ IOOperation[c] = "ClientIoWrite" /\ off = nSentBytes[c]
          /\ off + len = nTotalBytes[c]
          /\ NextInBuffer(c, off, len)
          /\ nrecvd[c] <= nsent[c] /\ Prefix(c)
      BY <1>1, <2>3 DEF EchoInv, Good, Echo
    <3>2. echoed'[c] = echoed[c] \o f
      BY <1>3, <2>1, <2>3
    <3>3. /\ n \in 1..len /\ len \in Nat /\ off \in Nat /\ got \in Nat /\ nrecvd[c] \in Nat
          /\ nTotalBytes[c] \in Nat
      BY <1>3, <2>1, <2>3
    <3>4. got + len = nrecvd[c] /\ \A j \in 1..len : Buffer[c][off + j] = got + j
      BY <3>1 DEF NextInBuffer
    <3>5. f = [i \in 1..n |-> got + i]
      BY <3>3, <3>4
    <3>6. Len(echoed'[c]) = got + n /\ echoed'[c] = [i \in 1..Len(echoed'[c]) |-> i]
      <4>1. echoed[c] \in Seq(0..MaxBytes) /\ n \in Nat
        BY <2>1, <3>3
      <4>2. echoed[c] = [i \in 1..Len(echoed[c]) |-> i]
        BY <3>1 DEF Prefix
      <4>. HIDE DEF f
      <4>. QED
        BY <3>2, <3>5, <4>1, <4>2, PrefixExtended
    <3>. HIDE DEF f, got, off, len
    <3>7. Prefix(c)'
      <4>1. got + n <= nrecvd[c]
        BY <3>3, <3>4
      <4>. QED
        BY <1>1, <3>6, <4>1 DEF Prefix
    <3>8. AfterSuccess(c, n)'
      <4>1. off + n <= nTotalBytes[c]
        BY <3>1, <3>3
      <4>2. off + n + (nTotalBytes[c] - (off + n)) <= MAX_BUFF_SIZE
        BY <2>1, <3>3
      <4>3. Len(echoed'[c]) + (nTotalBytes[c] - (off + n)) = nrecvd[c]
        BY <3>1, <3>3, <3>4, <3>6
      <4>4. ASSUME NEW j \in 1..(nTotalBytes[c] - (off + n))
            PROVE  Buffer[c][off + n + j] = Len(echoed'[c]) + j
        <5>1. n + j \in 1..len /\ off + (n + j) = off + n + j /\ got + (n + j) = got + n + j
          BY <3>1, <3>3, <4>4
        <5>2. Buffer[c][off + (n + j)] = got + (n + j)
          BY <3>4, <5>1
        <5>. QED
          BY <3>6, <5>1, <5>2
      <4>5. /\ IOOperation'[c] = "ClientIoWrite" /\ nSentBytes'[c] = off
            /\ nTotalBytes'[c] = nTotalBytes[c] /\ Buffer'[c] = Buffer[c] /\ nrecvd'[c] = nrecvd[c]
        BY <1>1, <3>1 DEF ioctxt
      <4>. QED
        BY <4>1, <4>2, <4>3, <4>4, <4>5 DEF AfterSuccess, NextInBuffer
    <3>9. nrecvd'[c] <= nsent'[c]
      BY <1>1, <3>1
    <3>. QED
      BY <1>1, <1>3, <2>3, <3>7, <3>8, <3>9, CompletedSuccess
  <2>. QED
    BY <2>2, <2>3
<1>. QED
  BY <1>2, <1>3 DEF CompleteSend

-----------------------------------------------------------------------------

LEMMA InitEchoInv == Init => EchoInv
<1> SUFFICES ASSUME Init PROVE EchoInv
  OBVIOUS
<1>1. TypeInv
  BY InitTypeInv
<1>2. SuccessOnly
  BY DEF Init, SuccessOnly
<1>3. ASSUME NEW c \in Ctxts PROVE Good(c)
  <2>1. /\ pend[c] = Idle /\ nrecvd[c] = 0 /\ nsent[c] = 0 /\ echoed[c] = <<>>
        /\ IOOperation[c] = "ClientIoRead" /\ sdAccept = NULL /\ sdAccept # c
    BY <1>3, NullAssumption DEF Init
  <2>2. \A r \in Runs : port[r] = <<>>
    BY DEF Init
  <2>3. \A t \in Threads : wpkt[t].ctxt # c
    BY <1>3, NullAssumption DEF Init, NullPacket
  <2>4. \A r \in Runs : DOMAIN port[r] = {}
    BY <2>2
  <2>5. Idle.op = "none"
    BY DEF Idle
  <2>6. One(c)
    BY <2>1, <2>3, <2>4, <2>5 DEF One, InKernel, WithMain, WithWorker
  <2>7. Start(c)
    BY <2>1, <2>3, <2>4, <2>5 DEF Start, MainSetsUp, Fresh, Unseen, InKernel
  <2>8. Echo(c)
    BY <2>1, <2>3, <2>4, <2>5 DEF Echo
  <2>9. Prefix(c) /\ Socket(c)
    <3>1. list.live = {}
      BY DEF Init, EmptyList
    <3>. QED
      BY <2>1, <2>5, <3>1 DEF Prefix, Socket, InKernel
  <2>. QED
    BY <2>6, <2>7, <2>8, <2>9 DEF Good
<1>. QED
  BY <1>1, <1>2, <1>3 DEF EchoInv

LEMMA StepEchoInv == EchoInv /\ [Next]_vars => EchoInv'
<1> SUFFICES ASSUME EchoInv, [Next]_vars PROVE EchoInv'
  OBVIOUS
<1>1. TypeInv'
  BY StepTypeInv DEF EchoInv
<1>2. SuccessOnly'
  BY SuccessOnlyKept DEF EchoInv
<1>3. ASSUME NEW c \in Ctxts PROVE Good(c)'
  <2>1. CASE UNCHANGED vars
    <3>1. UNCHANGED <<pend, port, worker, ioctxt, nrecvd, echoed, nsent, mpc, sdAccept, sock, list>>
      BY <2>1 DEF vars, main, client
    <3>2. nsent'[c] >= nsent[c]
      BY <3>1 DEF EchoInv, TypeInv, TypeClient
    <3>. QED
      BY <1>1, <3>1, <3>2, Quiet DEF WithMain, FreshNow, MainSetsUp, SocketKept
  <2>2. CASE Main
    BY <1>1, <2>2, QuietMainGood, MainCreateThreadsGood, MainAcceptGood, MainUpdateGood,
       MainRecvGood, MainPostGood, CtxtListFreeStepGood DEF Main, QuietMain
  <2>3. ASSUME NEW t \in Threads, Worker(t) PROVE Good(c)'
    BY <1>1, <2>3, WorkerGetGood, WorkerCheckGood, WorkerIoGood, WorkerCloseGood DEF Worker
  <2>4. CASE CtrlEvent \/ CtrlHandler
    BY <1>1, <2>4, CtrlGood
  <2>5. ASSUME NEW d \in Ctxts, Kernel(d) \/ Client(d) PROVE Good(c)'
    BY <1>1, <2>5, CompleteRecvGood, CompleteSendGood, ClientGood DEF Kernel
  <2>. QED
    BY <2>1, <2>2, <2>3, <2>4, <2>5 DEF Next
<1>. QED
  BY <1>1, <1>2, <1>3 DEF EchoInv

LEMMA EchoInvAlways == Spec => []EchoInv
BY InitEchoInv, StepEchoInv, PTL DEF Spec

\* The inductive invariant of the server (main, WorkerThread, CtrlHandler)
\* holds in every state, however many connections and threads there are.
THEOREM Invariance == Spec => []IInv
BY EchoInvParts, EchoInvAlways, PTL

\* At any time at most one party - the kernel, a packet that reports a
\* success, a worker, or main while it sets the connection up - may touch
\* the PER_IO_CONTEXT of a connection (WorkerThread, main): the lock-free
\* use of the contexts is sound for every number of workers and clients.
THEOREM OneOwner == Spec => []OneOperation
<1>1. EchoInv => OneOperation
  BY EchoInvParts DEF IInv
<1>. QED
  BY <1>1, EchoInvAlways, PTL

\* A client gets back a prefix of what the server has read from it, byte for
\* byte, whatever the sizes of the reads, the writes and the buffer
\* (WorkerThread, the cases ClientIoRead and ClientIoWrite).
THEOREM EchoCorrect == Spec => []EchoIsPrefix
<1>1. EchoInv => EchoIsPrefix
  BY EchoInvParts DEF IInv
<1>. QED
  BY <1>1, EchoInvAlways, PTL

-----------------------------------------------------------------------------
(* IocpServer implements EchoService: under the refinement mapping of the    *)
(* instance Service, every step of the server is a step of the service or    *)
(* leaves it as it is.                                                       *)

State == [c \in Ctxts |-> CASE sock[c] = "none" -> "new"
                            [] sock[c] = "closed" -> "closed"
                            [] OTHER -> "open"]
StateOf(x) == IF x = "none" THEN "new" ELSE IF x = "closed" THEN "closed" ELSE "open"

LEMMA StateIs == ASSUME NEW c \in Ctxts PROVE State[c] = StateOf(sock[c])
BY DEF State, StateOf

LEMMA StateIsNext == ASSUME NEW c \in Ctxts PROVE State'[c] = StateOf(sock'[c])
BY DEF State, StateOf

\* A socket is opened or closed, never reopened.
Moves(c) == \/ sock'[c] = sock[c]
            \/ sock[c] = "backlog" /\ sock'[c] = "open"
            \/ sock[c] # "none" /\ sock'[c] = "closed"

LEMMA CloseClientMoves ==
  ASSUME EchoInv, NEW d, CloseClient(d), NEW c \in Ctxts PROVE Moves(c)
<1>1. sock \in [Ctxts -> {"none", "backlog", "open", "closed"}] /\ list.live \subseteq Ctxts
  BY DEF EchoInv, TypeInv, TypeSock, TypeList, List
<1>2. CASE d \notin list.live
  BY <1>2 DEF CloseClient, Moves
<1>3. CASE d \in list.live
  <2>1. d \in Ctxts /\ sock[d] # "none"
    BY <1>1, <1>3 DEF EchoInv, Good, Socket
  <2>. QED
    BY <1>1, <1>3, <2>1 DEF CloseClient, Moves
<1>. QED
  BY <1>2, <1>3

LEMMA CloseSocketsMoves ==
  ASSUME EchoInv, MainCloseSockets, NEW c \in Ctxts PROVE Moves(c)
<1>1. sdAccept = c => sock[c] # "none"
  BY DEF EchoInv, Good, Socket
<1>. QED
  BY <1>1 DEF MainCloseSockets, LastAccepted, Moves

LEMMA AllMoves ==
  ASSUME EchoInv, [Next]_vars, ~(\E d \in Ctxts : Connect(d)), NEW c \in Ctxts PROVE Moves(c)
<1>1. CASE UNCHANGED vars
  BY <1>1 DEF vars, Moves
<1>2. CASE Main
  <2>1. CASE MainRecv \/ CtxtListFreeStep
    <3>1. (\E d : CloseClient(d)) \/ sock' = sock
      BY <2>1 DEF MainRecv, CtxtListFreeStep
    <3>. QED
      BY <3>1, CloseClientMoves DEF Moves
  <2>2. CASE MainAccept
    BY <2>2 DEF MainAccept, Moves, EchoInv, TypeInv, TypeSock
  <2>3. CASE ~(MainRecv \/ CtxtListFreeStep) /\ ~MainAccept /\ ~MainCloseSockets
    <3>1. sock' = sock
      BY <1>2, <2>3 DEF Main, MainTest, MainClearRestart, MainClearEnd, MainCreateThreads,
         CreateListenSocket1, CreateListenSocket2, MainAcceptCall, MainUpdate, MainCheckEnd,
         MainFinally, MainPost, MainWait, CtxtListFreeEnter, CtxtListFreeLeave, MainClosePort
    <3>. QED
      BY <3>1 DEF Moves
  <2>. QED
    BY <2>1, <2>2, <2>3, CloseSocketsMoves
<1>3. ASSUME NEW t \in Threads, Worker(t) PROVE Moves(c)
  <2>1. (\E d : CloseClient(d)) \/ sock' = sock
    BY <1>3 DEF Worker, WorkerGet, WorkerCheck, WorkerIo, WorkerClose
  <2>. QED
    BY <2>1, CloseClientMoves DEF Moves
<1>4. CASE CtrlEvent \/ CtrlHandler
  BY <1>4 DEF CtrlEvent, CtrlHandler, CtrlTake, CtrlInvalidate, CtrlEnd, CtrlClose, CloseListener, Moves
<1>5. ASSUME NEW d \in Ctxts, Kernel(d) \/ Client(d) PROVE Moves(c)
  BY <1>5 DEF Kernel, Client, CompleteRecv, CompleteSend, ClientSend, ClientClose, Moves
<1>. QED
  BY <1>1, <1>2, <1>3, <1>4, <1>5 DEF Next

\* Who changes what a client has sent or got back.
LEMMA DataMoves ==
  ASSUME [Next]_vars,
         ~(\E d \in Ctxts : ClientSend(d)), ~(\E d \in Ctxts : CompleteSend(d))
  PROVE  UNCHANGED <<nsent, echoed>>
<1>1. CASE UNCHANGED vars
  BY <1>1 DEF vars, client
<1>2. CASE Main
  BY <1>2 DEF Main, MainTest, MainClearRestart, MainClearEnd, MainCreateThreads,
     CreateListenSocket1, CreateListenSocket2, MainAcceptCall, MainAccept, MainUpdate, MainCheckEnd,
     MainRecv, MainFinally, MainPost, MainWait, CtxtListFreeEnter, CtxtListFreeStep,
     CtxtListFreeLeave, MainClosePort, MainCloseSockets, client
<1>3. ASSUME NEW t \in Threads, Worker(t) PROVE UNCHANGED <<nsent, echoed>>
  BY <1>3 DEF Worker, WorkerGet, WorkerCheck, WorkerIo, WorkerClose, client
<1>4. CASE CtrlEvent \/ CtrlHandler
  BY <1>4 DEF CtrlEvent, CtrlHandler, CtrlTake, CtrlInvalidate, CtrlEnd, CtrlClose, client
<1>5. ASSUME NEW d \in Ctxts, Kernel(d) \/ Client(d) PROVE UNCHANGED <<nsent, echoed>>
  BY <1>5 DEF Kernel, Client, CompleteRecv, Connect, ClientClose, client
<1>. QED
  BY <1>1, <1>2, <1>3, <1>4, <1>5 DEF Next

-----------------------------------------------------------------------------
(* The steps of the service *)

LEMMA OpenStep ==
  ASSUME EchoInv, NEW d \in Ctxts, Connect(d) PROVE Service!Open(d)
<1>1. sock[d] = "none" /\ sock' = [sock EXCEPT ![d] = "backlog"] /\ UNCHANGED <<nsent, echoed>>
  BY DEF Connect, client
<1>2. ASSUME NEW c \in Ctxts PROVE State'[c] = IF c = d THEN "open" ELSE State[c]
  BY <1>1, <1>2, StateIs, StateIsNext DEF StateOf, EchoInv, TypeInv, TypeSock
<1>3. State[d] = "new"
  BY <1>1, StateIs DEF StateOf
<1>4. State' = [State EXCEPT ![d] = "open"]
  <2>1. State' = [c \in Ctxts |-> State'[c]] /\ State = [c \in Ctxts |-> State[c]]
    BY DEF State
  <2>. QED
    BY <1>2, <2>1
<1>. QED
  BY <1>1, <1>3, <1>4 DEF Service!Open, State

LEMMA SendStep ==
  ASSUME EchoInv, NEW d \in Ctxts, ClientSend(d) PROVE Service!Send(d)
<1>1. State[d] = "open"
  BY StateIs DEF StateOf, ClientSend
<1>2. State' = State
  BY DEF State, ClientSend
<1>. QED
  BY <1>1, <1>2 DEF Service!Send, State, ClientSend

LEMMA EchoStep ==
  ASSUME EchoInv, NEW d \in Ctxts, CompleteSend(d), echoed' # echoed PROVE Service!Echo(d)
<1>1. PICK n \in 1..pend[d].len :
        echoed' = [echoed EXCEPT ![d] = @ \o [i \in 1..n |-> Buffer[d][pend[d].off + i]]]
  BY DEF CompleteSend
<1>2. /\ pend[d].op = "send" /\ sock' = sock /\ nsent' = nsent
      /\ NextInBuffer(d, pend[d].off, pend[d].len) /\ nrecvd[d] <= nsent[d]
      /\ sock[d] = "open"
  BY DEF CompleteSend, EchoInv, Good, Echo, Socket, InKernel
<1>3. /\ Len(echoed[d]) \in Nat /\ pend[d].len \in Nat /\ pend[d].off \in Nat
      /\ nrecvd[d] \in Nat /\ nsent[d] \in Nat
  BY ServerAssumption DEF EchoInv, TypeInv, TypeClient, TypePend, Operation
<1>4. \A i \in 1..n : Buffer[d][pend[d].off + i] = Len(echoed[d]) + i
  BY <1>1, <1>2, <1>3 DEF NextInBuffer
<1>5. n \in 1..(nsent[d] - Len(echoed[d]))
  BY <1>1, <1>2, <1>3 DEF NextInBuffer
<1>6. [i \in 1..n |-> Buffer[d][pend[d].off + i]] = [i \in 1..n |-> Len(echoed[d]) + i]
  BY <1>4
<1>7. echoed' = [echoed EXCEPT ![d] = @ \o [i \in 1..n |-> Len(echoed[d]) + i]]
  BY <1>1, <1>6
<1>8. State[d] = "open" /\ State' = State
  BY <1>2, StateIs DEF State, StateOf
<1>. QED
  BY <1>2, <1>5, <1>7, <1>8 DEF Service!Echo, State

LEMMA CloseStep ==
  ASSUME EchoInv, UNCHANGED <<nsent, echoed>>, \A c \in Ctxts : Moves(c)
  PROVE  Service!Close
<1> DEFINE S == {c \in Ctxts : sock'[c] = "closed" /\ sock[c] # "closed"}
<1>1. ASSUME NEW c \in Ctxts
      PROVE  /\ State'[c] = IF c \in S THEN "closed" ELSE State[c]
             /\ c \in S => State[c] = "open"
  BY <1>1, StateIs, StateIsNext DEF Moves, StateOf
<1>2. S \in SUBSET {c \in Ctxts : State[c] = "open"}
  BY <1>1
<1>3. State' = [c \in Ctxts |-> IF c \in S THEN "closed" ELSE State[c]]
  <2>1. State' = [c \in Ctxts |-> State'[c]]
    BY DEF State
  <2>. HIDE DEF S
  <2>. QED
    BY <1>1, <2>1
<1>. HIDE DEF S
<1>. QED
  BY <1>2, <1>3 DEF Service!Close, State

LEMMA ServiceStep == EchoInv /\ [Next]_vars => [Service!ServiceNext]_(Service!svars)
<1> SUFFICES ASSUME EchoInv, [Next]_vars PROVE [Service!ServiceNext]_(Service!svars)
  OBVIOUS
<1>1. ASSUME NEW d \in Ctxts, Connect(d) PROVE Service!ServiceNext
  BY <1>1, OpenStep DEF Service!ServiceNext
<1>2. ASSUME NEW d \in Ctxts, ClientSend(d) PROVE Service!ServiceNext
  BY <1>2, SendStep DEF Service!ServiceNext
<1>3. ASSUME NEW d \in Ctxts, CompleteSend(d), echoed' # echoed PROVE Service!ServiceNext
  BY <1>3, EchoStep DEF Service!ServiceNext
<1>4. ASSUME NEW d \in Ctxts, CompleteSend(d), echoed' = echoed
      PROVE  UNCHANGED <<nsent, echoed, sock>>
  BY <1>4 DEF CompleteSend
<1>5. ASSUME UNCHANGED <<nsent, echoed>>, \A c \in Ctxts : Moves(c) PROVE Service!ServiceNext
  BY <1>5, CloseStep DEF Service!ServiceNext
<1>6. CASE \E d \in Ctxts : CompleteSend(d) /\ echoed' = echoed
  BY <1>4, <1>5, <1>6 DEF Moves
<1>7. CASE /\ ~(\E d \in Ctxts : Connect(d))
           /\ ~(\E d \in Ctxts : ClientSend(d))
           /\ ~(\E d \in Ctxts : CompleteSend(d))
  BY <1>5, <1>7, AllMoves, DataMoves
<1>. QED
  BY <1>1, <1>2, <1>3, <1>6, <1>7

LEMMA ServiceStart == Init => Service!ServiceInit
<1> SUFFICES ASSUME Init PROVE Service!ServiceInit
  OBVIOUS
<1>1. State = [c \in Ctxts |-> "new"]
  BY DEF Init, State
<1>. QED
  BY <1>1 DEF Init, Service!ServiceInit, State

\* The server (main, WorkerThread, the cleanup) keeps what EchoService
\* promises: connections are opened and closed once, and what comes back on
\* an open one is always the next bytes the client has sent.
THEOREM Implements == Spec => ImplementsEchoService
BY EchoInvAlways, ServiceStart, ServiceStep, PTL
   DEF Spec, ImplementsEchoService, Service!ServiceSpec
=============================================================================
