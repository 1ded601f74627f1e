------------------------- MODULE IocpServerExProofs -------------------------
(***************************************************************************)
(* Safety of the server that accepts with AcceptEx, for any number of      *)
(* connections, workers and console events, any buffer size and any set of *)
(* failing system calls: IInv is inductive, and so is CleanIInv where      *)
(* connections do not overlap.                                             *)
(*                                                                         *)
(* Two things are handed on: the listening context with the accept, and    *)
(* each connection with its operation.  The steps that hand one of them on *)
(* have a lemma each; every other step leaves them as they are.            *)
(***************************************************************************)
EXTENDS IocpServerExInv, TLAPS

-----------------------------------------------------------------------------
(* The context list *)

LEMMA UseAfterFreeType ==
  ASSUME NEW l \in List PROVE UseAfterFree(l) \in List /\ UseAfterFree(l).live = l.live
BY DEF UseAfterFree, List

LEMMA CtxtAllocateType ==
  ASSUME NEW l \in List, NEW c \in Ctxts
  PROVE  CtxtAllocate(l, c) \in List /\ CtxtAllocate(l, c).live = l.live \cup {c}
BY DEF CtxtAllocate, List, Pointer

LEMMA CtxtListAddToType ==
  ASSUME NEW l \in List, NEW c \in Ctxts
  PROVE  CtxtListAddTo(l, c) \in List /\ CtxtListAddTo(l, c).live = l.live
<1>1. CtxtListAddTo(l, c) \in List
  BY UseAfterFreeType DEF CtxtListAddTo, List, Pointer
<1>2. CtxtListAddTo(l, c).live = l.live
  BY DEF CtxtListAddTo, UseAfterFree, List
<1>. QED
  BY <1>1, <1>2

LEMMA CtxtListDeleteFromType ==
  ASSUME NEW l \in List, NEW c \in Ctxts
  PROVE  /\ CtxtListDeleteFrom(l, c) \in List
         /\ c \in l.live => CtxtListDeleteFrom(l, c).live = l.live \ {c}
<1>1. Unlink(l, c) \in List /\ Unlink(l, c).live = l.live
  BY UseAfterFreeType DEF Unlink, UseAfterFree, List, Pointer
<1>. QED
  BY <1>1, UseAfterFreeType DEF CtxtListDeleteFrom, UseAfterFree, List

-----------------------------------------------------------------------------
(* Closing a client and posting an operation *)

\* What CloseClient may do, for whichever context it is called.
LEMMA CloseClientDoes ==
  ASSUME TypeOK, NEW c \in Pointer, CloseClient(c)
  PROVE  /\ list' \in List /\ list'.live = list.live \ {c}
         /\ c \notin list.live => UNCHANGED <<sock, pend, port>>
         /\ c \in list.live => sock' = [sock EXCEPT ![c] = "closed"] /\ Cancelled(c)
<1>1. list \in List
  BY DEF TypeOK
<1>2. CASE c \in list.live
  <2>1. c \in Ctxts
    BY <1>1, <1>2 DEF List
  <2>. QED
    BY <1>1, <1>2, <2>1, CtxtListDeleteFromType DEF CloseClient, Deleted
<1>3. CASE c \notin list.live
  BY <1>1, <1>3, UseAfterFreeType DEF CloseClient
<1>. QED
  BY <1>2, <1>3

\* The packet of a completed operation is the last of its port.
LEMMA PortAppended ==
  ASSUME port \in [Runs -> Seq(Packet)], NEW k, NEW p, port' = [port EXCEPT ![k] = Append(@, p)],
         NEW r \in Runs, NEW i \in DOMAIN port'[r]
  PROVE  \/ i \in DOMAIN port[r] /\ port'[r][i] = port[r][i]
         \/ r = k /\ i = Len(port[r]) + 1 /\ port'[r][i] = p
<1>1. port[r] \in Seq(Packet)
  OBVIOUS
<1>2. CASE r = k
  <2>1. port'[r] = Append(port[r], p)
    BY <1>2
  <2>. QED
    BY <1>1, <1>2, <2>1
<1>3. CASE r # k
  BY <1>1, <1>3
<1>. QED
  BY <1>2, <1>3

LEMMA CompletedPackets ==
  ASSUME port \in [Runs -> Seq(Packet)], NEW d, NEW n, NEW ok \in BOOLEAN, Completed(d, n, ok),
         NEW r \in Runs, NEW i \in DOMAIN port'[r]
  PROVE  \/ i \in DOMAIN port[r] /\ port'[r][i] = port[r][i]
         \/ r = key[d] /\ i = Len(port[r]) + 1 /\ port'[r][i] = [ctxt |-> d, size |-> n, ok |-> ok]
<1> DEFINE p == [ctxt |-> d, size |-> n, ok |-> ok]
<1>1. port' = [port EXCEPT ![key[d]] = Append(@, p)]
  BY DEF Completed
<1>. HIDE DEF p
<1>2. \/ i \in DOMAIN port[r] /\ port'[r][i] = port[r][i]
      \/ r = key[d] /\ i = Len(port[r]) + 1 /\ port'[r][i] = p
  BY <1>1, PortAppended
<1>. QED
  BY <1>2 DEF p

LEMMA CancelledPackets ==
  ASSUME port \in [Runs -> Seq(Packet)], NEW d, Cancelled(d),
         NEW r \in Runs, NEW i \in DOMAIN port'[r]
  PROVE  \/ i \in DOMAIN port[r] /\ port'[r][i] = port[r][i]
         \/ InKernel(d) /\ r = key[d] /\ port'[r][i] = [ctxt |-> d, size |-> 0, ok |-> FALSE]
<1>1. CASE port' = port
  BY <1>1
<1>2. CASE InKernel(d) /\ Completed(d, 0, FALSE)
  <2> DEFINE p == [ctxt |-> d, size |-> 0, ok |-> FALSE]
  <2>1. port' = [port EXCEPT ![key[d]] = Append(@, p)]
    BY <1>2 DEF Completed
  <2>. HIDE DEF p
  <2>2. \/ i \in DOMAIN port[r] /\ port'[r][i] = port[r][i]
        \/ r = key[d] /\ i = Len(port[r]) + 1 /\ port'[r][i] = p
    BY <2>1, PortAppended
  <2>. QED
    BY <1>2, <2>2 DEF p
<1>. QED
  BY <1>1, <1>2 DEF Cancelled, InKernel

-----------------------------------------------------------------------------
(* A worker that follows the pointers of its packet *)

\* The packet is the one of the accept of this pass, or of a connection that
\* has been set up.
LEMMA AtIo ==
  ASSUME IInv, NEW t \in Threads, wpc[t] \in {"io", "first", "repost"}, Allocated(t)
  PROVE  /\ wpkt[t].ctxt \in list.live /\ wpkt[t].ctxt \in Ctxts
         /\ wpkt[t].ctxt = Listen => /\ g_pCtxtListenSocket = Listen /\ t[1] = run
                                     /\ io[wpkt[t].ctxt].IOOperation = "ClientIoAccept"
         /\ wpkt[t].ctxt # Listen => /\ wpkt[t].ctxt \in Conns /\ wpc[t] = "io"
                                     /\ ~IsNew(wpkt[t].ctxt) /\ sock[wpkt[t].ctxt] = "open"
<1>1. wpkt[t].ctxt \in list.live /\ list \in List
  BY DEF Allocated, IInv, TypeOK
<1>2. wpkt[t].ctxt \in Ctxts
  BY <1>1 DEF List
<1>3. CASE wpkt[t].ctxt = Listen
  <2>1. g_pCtxtListenSocket \in {Listen, NULL}
    BY DEF IInv, TypeOK
  <2>2. ListenContext
    BY DEF IInv, Control
  <2>3. g_pCtxtListenSocket = Listen /\ io[Listen].IOOperation = "ClientIoAccept"
    BY <1>1, <1>3, <2>1, <2>2 DEF ListenContext
  <2>. QED
    BY <1>1, <1>2, <1>3, <2>3 DEF Allocated
<1>4. CASE wpkt[t].ctxt # Listen
  <2>1. wpkt[t].ctxt \in Conns
    BY <1>2, <1>4 DEF Conns
  <2>2. New(wpkt[t].ctxt) /\ Socket(wpkt[t].ctxt) /\ WorkerPackets
    BY <2>1 DEF IInv, Good, Control
  <2>3. wpc[t] = "io"
    BY <1>4, <2>2 DEF WorkerPackets
  <2>4. ~IsNew(wpkt[t].ctxt)
    BY <2>2 DEF New, Unseen
  <2>. QED
    BY <1>1, <1>2, <1>4, <2>1, <2>2, <2>3, <2>4 DEF Socket
<1>. QED
  BY <1>3, <1>4

\* Whoever has the listening context of this pass has it alone.
LEMMA OnlyListener ==
  ASSUME IInv, NEW t \in Threads, WithWorker(Listen, t)
  PROVE  /\ ~InKernel(Listen)
         /\ \A r \in Runs : \A i \in DOMAIN port[r] : ~OnPort(Listen, r, i)
         /\ \A u \in Threads : WithWorker(Listen, u) => u = t
<1>1. OneHolder(Listen)
  BY ServerExAssumption DEF IInv, OneOperation
<1>. QED
  BY <1>1 DEF OneHolder

\* A worker of the pass that sets up a connection has the listening context.
LEMMA SettingUp ==
  ASSUME IInv, NEW t \in Threads, t[1] = run, wpc[t] \in {"first", "repost"}
  PROVE  WithWorker(Listen, t) /\ g_pCtxtListenSocket = Listen /\ cs = NoThread
<1>1. wpkt[t].ok /\ wpkt[t].ctxt = Listen
  BY DEF IInv, Control, WorkerPackets
<1>2. g_pCtxtListenSocket # NULL /\ g_pCtxtListenSocket \in {Listen, NULL}
  BY DEF IInv, Control, ListenContext, TypeOK
<1>3. cs = NoThread
  BY DEF IInv, Control, Section
<1>. QED
  BY <1>1, <1>2, <1>3 DEF WithWorker, OfPass

LEMMA HasAccept ==
  ASSUME IInv, NEW t \in Threads, wpc[t] \in {"io", "first", "repost"}, Allocated(t),
         wpkt[t].ctxt = Listen, wpkt[t].ok
  PROVE  /\ SocketAccept \in Conns /\ WithWorker(Listen, t)
         /\ \A u \in Threads : u[1] = run /\ wpc[u] \in {"first", "repost"} => u = t
         /\ wpc[t] # "repost" =>
              /\ IsNew(SocketAccept) /\ Unseen(SocketAccept) /\ sock[SocketAccept] = "open"
              /\ conn[SocketAccept].echoed = <<>>
              /\ FirstData(SocketAccept, wpkt[t].size)
<1>1. g_pCtxtListenSocket = Listen /\ t[1] = run
  BY AtIo
<1>2. WithWorker(Listen, t)
  BY <1>1 DEF WithWorker, OfPass
<1>3. SocketAccept \in Conns
  BY <1>1, <1>2 DEF IInv, Control, Accepted
<1>4. \A u \in Threads : u[1] = run /\ wpc[u] \in {"first", "repost"} => u = t
  BY <1>2, SettingUp, OnlyListener
<1>5. ASSUME wpc[t] # "repost"
      PROVE  /\ IsNew(SocketAccept) /\ Unseen(SocketAccept) /\ sock[SocketAccept] = "open"
             /\ conn[SocketAccept].echoed = <<>>
             /\ FirstData(SocketAccept, wpkt[t].size)
  <2>1. Good(SocketAccept)
    BY <1>3 DEF IInv
  <2>2. IsNew(SocketAccept)
    BY <1>4, <1>5, <2>1 DEF Good, Accepting, WorkerOfPass
  <2>3. FirstData(SocketAccept, wpkt[t].size)
    BY <1>2, <1>5, <2>1 DEF Good, Accepting
  <2>. QED
    BY <2>1, <2>2, <2>3 DEF Good, New, Socket
<1>. QED
  BY <1>2, <1>3, <1>4, <1>5

-----------------------------------------------------------------------------
(* What the steps of each actor leave alone *)

MainSteps == {"test", "clearRestart", "clearEnd", "reset", "threads", "listen", "accept", "serve",
              "finally", "post", "join", "closeListen", "freeListen", "free", "walk",
              "closePort", "done"}
WorkerSteps == {"none", "gqcs", "got", "io", "first", "repost", "exit"}

LEMMA MainFrame ==
  Main => /\ UNCHANGED <<wpkt, handler, conn>>
          /\ ~MainCreateThreads => UNCHANGED wpc
          /\ ~MainResetEvent => UNCHANGED run
          /\ ~MainCreateThreads /\ ~MainJoin => UNCHANGED g_ThreadHandles
          /\ ~MainCreateAcceptSocket /\ ~MainFreeListen => UNCHANGED <<g_pCtxtListenSocket, SocketAccept>>
          /\ ~MainCreateAcceptSocket => UNCHANGED <<io, key>>
BY DEF Main, MainTest, MainClearRestart, MainClearEnd, MainResetEvent, MainCreateThreads,
   CreateListenSocket, MainCreateAcceptSocket, MainServe, MainFinally, MainPost, MainJoin,
   MainCloseListen, MainFreeListen, CtxtListFreeEnter, CtxtListFreeStep, CtxtListFreeLeave,
   MainClosePort, globals, main, worker, memory, kernel

LEMMA WorkerFrame ==
  ASSUME TypeOK, NEW t \in Threads, Worker(t)
  PROVE  /\ UNCHANGED <<g_bEndServer, g_bRestart, g_sdListen, g_pCtxtListenSocket, main, handler,
                        conn, openPorts>>
         /\ wpc[t] \in {"gqcs", "got", "io", "first", "repost"}
         /\ \A u \in Threads : u # t => wpc'[u] = wpc[u] /\ wpkt'[u] = wpkt[u]
         /\ ~WorkerGet(t) => wpkt' = wpkt
         /\ ~WorkerIo(t) => UNCHANGED <<globals, memory, pend, key, sock>>
<1>1. wpc \in [Threads -> WorkerSteps] /\ wpkt \in [Threads -> Packet]
  BY DEF TypeOK, WorkerSteps
<1>2. CASE WorkerGet(t)
  BY <1>1, <1>2 DEF WorkerGet, globals, flags
<1>3. CASE WorkerCheck(t)
  BY <1>1, <1>3 DEF WorkerCheck, globals, flags, kernel, worker
<1>4. CASE WorkerIo(t)
  <2>. DEFINE Frame == /\ UNCHANGED <<g_bEndServer, g_bRestart, g_sdListen, g_pCtxtListenSocket,
                                      main, handler, conn, openPorts, wpkt>>
                       /\ \A u \in Threads : u # t => wpc'[u] = wpc[u]
  <2>1. CASE Allocated(t)
    <3>1. WorkerAccept(t) => Frame
      BY <1>1 DEF WorkerAccept
    <3>2. WorkerFirst(t) => Frame
      BY <1>1 DEF WorkerFirst, flags, globals
    <3>3. WorkerRepost(t) => Frame
      BY <1>1 DEF WorkerRepost
    <3>4. WorkerDropped(t) => Frame
      BY <1>1 DEF WorkerDropped, flags, globals
    <3>5. WorkerRead(t) => Frame
      BY <1>1 DEF WorkerRead, flags, globals
    <3>6. WorkerWrite(t) => Frame
      BY <1>1 DEF WorkerWrite, flags, globals
    <3>. QED
      BY <1>4, <2>1, <3>1, <3>2, <3>3, <3>4, <3>5, <3>6 DEF WorkerIo
  <2>2. CASE ~Allocated(t)
    BY <1>4, <2>2 DEF WorkerIo, flags, globals, worker, kernel
  <2>. QED
    BY <1>4, <2>1, <2>2 DEF WorkerIo
<1>. QED
  BY <1>2, <1>3, <1>4 DEF Worker

LEMMA CtrlFrame ==
  CtrlEvent \/ CtrlHandler => UNCHANGED <<globals, main, worker, memory, kernel, conn>>
BY DEF CtrlEvent, CtrlHandler, CtrlEnd, CtrlSetEvent

LEMMA KernelFrame ==
  ASSUME NEW c \in Conns, Kernel(c) \/ Client(c)
  PROVE  /\ UNCHANGED <<flags, g_hIOCP, g_sdListen, g_pCtxtListenSocket, main, worker, handler,
                        list, cs, key, openPorts>>
         /\ ~AcceptConnect(c) => UNCHANGED SocketAccept
         /\ ~AcceptConnect(c) /\ ~Connect(c) => UNCHANGED sock
         /\ ~CompleteRecv(c) => UNCHANGED io
         /\ ~CompleteRecv(c) /\ ~CompleteSend(c) => UNCHANGED <<pend, port>>
<1>1. CASE Kernel(c)
  BY <1>1 DEF Kernel, AcceptConnect, CompleteRecv, CompleteSend, globals, memory
<1>2. CASE Client(c)
  BY <1>2 DEF Client, Connect, ClientSend, ClientClose, globals, memory, kernel
<1>. QED
  BY <1>1, <1>2

-----------------------------------------------------------------------------
(* Types.  The variables fall into groups.                                   *)

TypeMain ==
    /\ g_bEndServer \in BOOLEAN /\ g_bRestart \in BOOLEAN /\ g_hCleanupEvent \in BOOLEAN
    /\ mpc \in MainSteps /\ run \in Runs \cup {0}
    /\ hpc \in {"idle", "end", "set"} /\ nctrl \in 0..MaxCtrl
    /\ RunBound
TypeHandles ==
    /\ g_hIOCP \in Runs \cup {INVALID} /\ g_sdListen \in {"invalid", "open", "listening"}
    /\ g_pCtxtListenSocket \in {Listen, NULL} /\ SocketAccept \in Pointer
    /\ g_ThreadHandles \in [1..ThreadCount -> Threads \cup {NoThread}]
    /\ cs \in Threads \cup {NoThread, MainThread, Leaked} /\ openPorts \subseteq Runs
TypeList == list \in List /\ pTemp1 \in Pointer
TypeWorker == wpc \in [Threads -> WorkerSteps] /\ wpkt \in [Threads -> Packet]
IoContext == [IOOperation : {"ClientIoAccept", "ClientIoRead", "ClientIoWrite"},
              nTotalBytes : Size, nSentBytes : Nat, Buffer : [1..MAX_BUFF_SIZE -> 0..MaxBytes]]
TypeIo == io \in [Ctxts -> IoContext] /\ key \in [Ctxts -> Runs \cup {INVALID}]
Operation == [op : {"none", "accept", "recv", "send"}, off : Size, len : Size]
TypePend == pend \in [Ctxts -> Operation]
TypePort == port \in [Runs -> Seq(Packet)]
TypeSock == sock \in [Conns -> {"none", "backlog", "open", "closed"}]
Connection == [nsent : 0..MaxBytes, nrecvd : 0..MaxBytes, echoed : Seq(0..MaxBytes),
               peer : {"open", "fin", "rst"}]
TypeConn == conn \in [Conns -> Connection]

LEMMA TypeParts ==
  TypeOK /\ RunBound <=> /\ TypeMain /\ TypeHandles /\ TypeList /\ TypeWorker /\ TypeIo
                         /\ TypePend /\ TypePort /\ TypeSock /\ TypeConn
BY DEF TypeOK, TypeMain, TypeHandles, TypeList, TypeWorker, TypeIo, TypePend, TypePort, TypeSock,
   TypeConn, MainSteps, WorkerSteps, IoContext, Operation, Connection

LEMMA IInvTypes ==
  IInv => /\ TypeMain /\ TypeHandles /\ TypeList /\ TypeWorker /\ TypeIo
          /\ TypePend /\ TypePort /\ TypeSock /\ TypeConn
BY TypeParts DEF IInv

\* The flags are set and reset, nothing else.
LEMMA FlagsStay ==
  ASSUME TypeMain, [Next]_vars
  PROVE  /\ g_bEndServer' \in BOOLEAN /\ g_bRestart' \in BOOLEAN /\ g_hCleanupEvent' \in BOOLEAN
<1>. USE DEF TypeMain
<1>1. CASE UNCHANGED vars
  BY <1>1 DEF vars, flags
<1>2. CASE Main
  BY <1>2 DEF Main, MainTest, MainClearRestart, MainClearEnd, MainResetEvent, MainCreateThreads,
     CreateListenSocket, MainCreateAcceptSocket, MainServe, MainFinally, MainPost, MainJoin,
     MainCloseListen, MainFreeListen, CtxtListFreeEnter, CtxtListFreeStep, CtxtListFreeLeave,
     MainClosePort, flags
<1>3. ASSUME NEW t \in Threads, Worker(t)
      PROVE  g_bEndServer' \in BOOLEAN /\ g_bRestart' \in BOOLEAN /\ g_hCleanupEvent' \in BOOLEAN
  <2>1. g_hCleanupEvent' \in {g_hCleanupEvent, TRUE} /\ UNCHANGED <<g_bEndServer, g_bRestart>>
    BY <1>3 DEF Worker, WorkerGet, WorkerCheck, WorkerIo, WorkerAccept, WorkerFirst, WorkerRepost,
       WorkerDropped, WorkerRead, WorkerWrite, flags
  <2>. QED
    BY <2>1
<1>4. CASE CtrlEvent \/ CtrlHandler
  BY <1>4 DEF CtrlEvent, CtrlHandler, CtrlEnd, CtrlSetEvent
<1>5. ASSUME NEW c \in Conns, Kernel(c) \/ Client(c) PROVE UNCHANGED flags
  BY <1>5, KernelFrame
<1>. QED
  BY <1>1, <1>2, <1>3, <1>4, <1>5 DEF Next, flags

\* Main between the reset of the event and the closing of the port.
Busy == {"threads", "listen", "accept", "serve", "finally", "post", "join", "closeListen",
         "freeListen", "free", "walk", "closePort"}
MainWorks == \/ MainCreateThreads \/ CreateListenSocket \/ MainCreateAcceptSocket \/ MainServe
             \/ MainFinally \/ MainPost \/ MainJoin \/ MainCloseListen \/ MainFreeListen
             \/ CtxtListFreeEnter \/ CtxtListFreeStep \/ CtxtListFreeLeave \/ MainClosePort

LEMMA MainMoves ==
  MainWorks => /\ mpc \in Busy /\ mpc' \in (Busy \cup {"test"}) \ {"threads"}
               /\ UNCHANGED <<g_bRestart, run, handler>>
BY DEF MainWorks, MainCreateThreads, CreateListenSocket, MainCreateAcceptSocket, MainServe, MainFinally,
   MainPost, MainJoin, MainCloseListen, MainFreeListen, CtxtListFreeEnter, CtxtListFreeStep,
   CtxtListFreeLeave, MainClosePort, Busy, flags

LEMMA StepMain == ASSUME IInv, [Next]_vars PROVE TypeMain'
<1>1. TypeMain
  BY IInvTypes
<1>2. g_bEndServer' \in BOOLEAN /\ g_bRestart' \in BOOLEAN /\ g_hCleanupEvent' \in BOOLEAN
  BY <1>1, FlagsStay
<1>3. /\ run \in Nat /\ nctrl \in 0..MaxCtrl /\ MaxCtrl \in Nat /\ mpc \in MainSteps
      /\ hpc \in {"idle", "end", "set"} /\ g_bRestart \in BOOLEAN
      /\ RunBound
  BY <1>1, ServerExAssumption DEF TypeMain, Runs
<1>4. ASSUME mpc' \in MainSteps, run' \in Nat, nctrl' \in 0..MaxCtrl, hpc' \in {"idle", "end", "set"},
             RunBound'
      PROVE  TypeMain'
  <2>1. run' <= MaxCtrl + 1
    <3> DEFINE a == IF mpc' \in {"clearEnd", "reset"} THEN 1 ELSE 0
               b == IF g_bRestart' THEN 1 ELSE 0
               r == run'
               n == nctrl'
    <3>1. r + a + b <= n + 1
      BY <1>4 DEF RunBound
    <3>2. a \in 0..1 /\ b \in 0..1
      OBVIOUS
    <3>3. n \in Nat /\ n <= MaxCtrl /\ r \in Nat /\ MaxCtrl \in Nat
      BY <1>3, <1>4
    <3>. HIDE DEF a, b, r, n
    <3>4. r <= MaxCtrl + 1
      BY <3>1, <3>2, <3>3
    <3>. QED
      BY <3>4 DEF r
  <2>2. run' \in Runs \cup {0}
    BY <1>3, <1>4, <2>1 DEF Runs
  <2>. QED
    BY <1>2, <1>4, <2>2 DEF TypeMain
<1>5. CASE UNCHANGED <<g_bRestart, mpc, run, hpc, nctrl>>
  BY <1>3, <1>4, <1>5 DEF RunBound
<1>6. CASE MainTest
  <2>1. mpc = "test" /\ mpc' = (IF g_bRestart THEN "clearRestart" ELSE "done")
        /\ UNCHANGED <<g_bRestart, run, hpc, nctrl>>
    BY <1>6 DEF MainTest, flags, handler
  <2>2. RunBound'
    BY <1>3, <2>1 DEF RunBound
  <2>. QED
    BY <1>3, <1>4, <2>1, <2>2 DEF MainSteps
<1>7. CASE MainClearRestart
  <2>1. mpc = "clearRestart" /\ mpc' = "clearEnd" /\ g_bRestart' = FALSE /\ UNCHANGED <<run, hpc, nctrl>>
    BY <1>7 DEF MainClearRestart, handler
  <2>2. RunBound'
    BY <1>3, <2>1 DEF RunBound
  <2>. QED
    BY <1>3, <1>4, <2>1, <2>2 DEF MainSteps
<1>8. CASE MainClearEnd
  <2>1. mpc = "clearEnd" /\ mpc' = "reset" /\ UNCHANGED <<g_bRestart, run, hpc, nctrl>>
    BY <1>8 DEF MainClearEnd, handler
  <2>2. RunBound'
    BY <1>3, <2>1 DEF RunBound
  <2>. QED
    BY <1>3, <1>4, <2>1, <2>2 DEF MainSteps
<1>9. CASE MainResetEvent
  <2>1. mpc = "reset" /\ mpc' = "threads" /\ run' = run + 1 /\ UNCHANGED <<g_bRestart, hpc, nctrl>>
    BY <1>9 DEF MainResetEvent, handler
  <2>2. RunBound'
    BY <1>3, <2>1 DEF RunBound
  <2>. QED
    BY <1>3, <1>4, <2>1, <2>2 DEF MainSteps
<1>10. CASE MainWorks
  <2>1. /\ mpc \in Busy /\ mpc' \in (Busy \cup {"test"}) \ {"threads"}
        /\ UNCHANGED <<g_bRestart, run, hpc, nctrl>>
    BY <1>10, MainMoves DEF handler
  <2>2. RunBound'
    BY <1>3, <2>1 DEF RunBound, Busy
  <2>. QED
    BY <1>3, <1>4, <2>1, <2>2 DEF MainSteps, Busy
<1>11. CASE CtrlEvent
  <2>1. nctrl < MaxCtrl /\ nctrl' = nctrl + 1 /\ hpc' = "end" /\ UNCHANGED <<mpc, run>>
        /\ g_bRestart' \in {g_bRestart, TRUE}
    BY <1>11 DEF CtrlEvent, main
  <2>2. g_bRestart => g_bRestart'
    BY <2>1
  <2>3. RunBound'
    BY <1>3, <2>1, <2>2 DEF RunBound
  <2>. QED
    BY <1>3, <1>4, <2>1, <2>3
<1>12. CASE CtrlHandler
  <2>1. hpc' \in {"idle", "set"} /\ UNCHANGED <<g_bRestart, mpc, run, nctrl>>
    BY <1>12 DEF CtrlHandler, CtrlEnd, CtrlSetEvent, main
  <2>2. RunBound'
    BY <1>3, <2>1 DEF RunBound
  <2>. QED
    BY <1>3, <1>4, <2>1, <2>2
<1>13. ASSUME NEW t \in Threads, Worker(t) PROVE UNCHANGED <<g_bRestart, mpc, run, hpc, nctrl>>
  BY <1>13, WorkerFrame DEF IInv, main, handler
<1>14. ASSUME NEW c \in Conns, Kernel(c) \/ Client(c) PROVE UNCHANGED <<g_bRestart, mpc, run, hpc, nctrl>>
  BY <1>14, KernelFrame DEF flags, main, handler
<1>15. UNCHANGED vars => UNCHANGED <<g_bRestart, mpc, run, hpc, nctrl>>
  BY DEF vars, flags, main, handler
<1>16. Main => MainTest \/ MainClearRestart \/ MainClearEnd \/ MainResetEvent \/ MainWorks
  BY DEF Main, MainWorks
<1>. QED
  BY <1>5, <1>6, <1>7, <1>8, <1>9, <1>10, <1>11, <1>12, <1>13, <1>14, <1>15, <1>16 DEF Next

LEMMA RunIsRun ==
  ASSUME IInv, mpc \in Busy PROVE run \in Runs
<1>1. TypeMain
  BY IInvTypes
<1>. QED
  BY <1>1 DEF TypeMain, RunBound, Busy

LEMMA StepHandles == ASSUME IInv, [Next]_vars PROVE TypeHandles'
<1>1. TypeHandles
  BY IInvTypes
<1>2. CASE UNCHANGED <<globals, g_ThreadHandles, cs, openPorts>>
  BY <1>1, <1>2 DEF TypeHandles, globals
<1>3. CASE MainCreateThreads
  <2>1. run \in Runs
    BY <1>3, RunIsRun DEF MainCreateThreads, Busy
  <2>2. g_hIOCP' \in {INVALID, run} /\ openPorts' \in {openPorts, openPorts \cup {run}}
    BY <1>3 DEF MainCreateThreads
  <2>3. g_ThreadHandles' \in [1..ThreadCount -> Threads \cup {NoThread}]
    BY <1>1, <1>3, <2>1 DEF MainCreateThreads, TypeHandles, Threads
  <2>4. UNCHANGED <<g_sdListen, g_pCtxtListenSocket, SocketAccept, cs>>
    BY <1>3 DEF MainCreateThreads, memory
  <2>. QED
    BY <1>1, <2>1, <2>2, <2>3, <2>4 DEF TypeHandles
<1>4. CASE CreateListenSocket
  BY <1>1, <1>4 DEF CreateListenSocket, TypeHandles, memory, kernel
<1>5. CASE MainCreateAcceptSocket
  <2>1. /\ g_hIOCP' \in {g_hIOCP, INVALID} /\ cs' \in {cs, Leaked}
        /\ g_pCtxtListenSocket' \in {Listen, NULL} /\ SocketAccept' \in {SocketAccept, Listen, NULL}
        /\ UNCHANGED <<g_sdListen, g_ThreadHandles, openPorts>>
    BY <1>5 DEF MainCreateAcceptSocket, Updated, UpdateFailed
  <2>. QED
    BY <1>1, <2>1, ServerExAssumption DEF TypeHandles, Pointer
<1>6. CASE MainJoin
  <2>1. g_ThreadHandles' \in [1..ThreadCount -> Threads \cup {NoThread}]
    BY <1>1, <1>6 DEF MainJoin, TypeHandles
  <2>. QED
    BY <1>1, <1>6, <2>1 DEF MainJoin, TypeHandles, globals, memory, kernel
<1>7. CASE MainCloseListen \/ MainFreeListen
  BY <1>1, <1>7 DEF MainCloseListen, MainFreeListen, TypeHandles, memory, Pointer
<1>8. CASE CtxtListFreeEnter \/ CtxtListFreeStep \/ CtxtListFreeLeave
  BY <1>1, <1>8 DEF CtxtListFreeEnter, CtxtListFreeStep, CtxtListFreeLeave, TypeHandles, globals, kernel
<1>9. CASE MainClosePort
  BY <1>1, <1>9 DEF MainClosePort, TypeHandles, memory
<1>10. CASE MainTest \/ MainClearRestart \/ MainClearEnd \/ MainResetEvent \/ MainServe \/ MainFinally
            \/ MainPost
  <2>1. UNCHANGED <<globals, g_ThreadHandles, cs, openPorts>>
    BY <1>10 DEF MainTest, MainClearRestart, MainClearEnd, MainResetEvent, MainServe, MainFinally,
       MainPost, memory, kernel
  <2>. QED
    BY <1>2, <2>1
<1>11. ASSUME NEW t \in Threads, Worker(t) PROVE TypeHandles'
  <2>1. UNCHANGED <<g_sdListen, g_pCtxtListenSocket, g_ThreadHandles, openPorts>>
    BY <1>11, WorkerFrame DEF main, IInv
  <2>2. /\ g_hIOCP' \in {g_hIOCP, INVALID} /\ cs' \in {cs, t}
        /\ SocketAccept' \in {SocketAccept, Listen, NULL}
    <3>1. CASE ~WorkerIo(t)
      BY <1>11, <3>1, WorkerFrame DEF globals, memory, IInv
    <3>2. CASE WorkerIo(t)
      <4>1. t # MainThread
        BY DEF Threads, Runs, MainThread
      <4>. QED
        BY <3>2, <4>1 DEF WorkerIo, WorkerAccept, WorkerFirst, WorkerRepost, WorkerDropped, WorkerRead,
           WorkerWrite, Updated, UpdateFailed, globals, memory
    <3>. QED
      BY <3>1, <3>2
  <2>. QED
    BY <1>1, <2>1, <2>2, ServerExAssumption DEF TypeHandles, Pointer
<1>12. CtrlEvent \/ CtrlHandler => UNCHANGED <<globals, g_ThreadHandles, cs, openPorts>>
  BY CtrlFrame DEF main, memory, kernel
<1>13. ASSUME NEW c \in Conns, Kernel(c) \/ Client(c) PROVE TypeHandles'
  <2>1. UNCHANGED <<g_hIOCP, g_sdListen, g_pCtxtListenSocket, g_ThreadHandles, cs, openPorts>>
    BY <1>13, KernelFrame DEF main
  <2>2. SocketAccept' \in {SocketAccept, c}
    BY <1>13, KernelFrame DEF AcceptConnect
  <2>. QED
    BY <1>1, <2>1, <2>2 DEF TypeHandles, Pointer, Conns
<1>14. UNCHANGED vars => UNCHANGED <<globals, g_ThreadHandles, cs, openPorts>>
  BY DEF vars, main, memory, kernel
<1>. QED
  BY <1>2, <1>3, <1>4, <1>5, <1>6, <1>7, <1>8, <1>9, <1>10, <1>11, <1>12, <1>13, <1>14 DEF Next, Main

\* The routines of the list are called for one context of the server.
LEMMA StepList == ASSUME IInv, [Next]_vars PROVE TypeList'
<1>1. TypeList /\ TypeHandles /\ TypeWorker /\ TypeOK
  BY IInvTypes DEF IInv
<1>2. CASE UNCHANGED <<list, pTemp1>>
  BY <1>1, <1>2 DEF TypeList
<1>3. CASE MainCreateAcceptSocket
  <2>1. list' \in {list, NewContext(Listen), UseAfterFree(list)} /\ pTemp1' = pTemp1
    BY <1>3 DEF MainCreateAcceptSocket, Updated
  <2>. QED
    BY <1>1, <2>1, ServerExAssumption, UseAfterFreeType, CtxtAllocateType DEF TypeList, NewContext
<1>4. CASE MainFreeListen
  BY <1>1, <1>4 DEF MainFreeListen, TypeList, List
<1>5. CASE CtxtListFreeEnter
  BY <1>1, <1>5 DEF CtxtListFreeEnter, TypeList, List
<1>6. CASE CtxtListFreeStep
  <2>1. list' \in List
    BY <1>1, <1>6, CloseClientDoes DEF CtxtListFreeStep, TypeList
  <2>2. pTemp1' \in Pointer
    BY <1>1, <1>6 DEF CtxtListFreeStep, TypeList, List, Pointer
  <2>. QED
    BY <2>1, <2>2 DEF TypeList
<1>7. CASE Main /\ ~MainCreateAcceptSocket /\ ~MainFreeListen /\ ~CtxtListFreeEnter /\ ~CtxtListFreeStep
  <2>1. UNCHANGED <<list, pTemp1>>
    BY <1>7 DEF Main, MainTest, MainClearRestart, MainClearEnd, MainResetEvent, MainCreateThreads,
       CreateListenSocket, MainServe, MainFinally, MainPost, MainJoin, MainCloseListen,
       CtxtListFreeLeave, MainClosePort, memory
  <2>. QED
    BY <1>2, <2>1
<1>8. ASSUME NEW t \in Threads, Worker(t), list' # list PROVE list' \in List
  <2>1. WorkerIo(t)
    BY <1>8, WorkerFrame DEF IInv, memory
  <2>2. CASE ~Allocated(t)
    BY <1>1, <2>1, <2>2, UseAfterFreeType DEF WorkerIo, TypeList
  <2>3. CASE Allocated(t)
    <3>1. /\ wpc[t] \in {"io", "first", "repost"}
          /\ WorkerAccept(t) \/ WorkerFirst(t) \/ WorkerRepost(t) \/ WorkerDropped(t) \/ WorkerRead(t)
             \/ WorkerWrite(t)
      BY <2>1, <2>3 DEF WorkerIo
    <3>2. CASE WorkerAccept(t)
      <4>1. wpkt[t].ctxt = Listen
        BY <2>3, <3>1, <3>2, AtIo DEF WorkerAccept, IsNew
      <4>2. wpkt[t].ok /\ Updated(SocketAccept)
        BY <1>8, <3>2 DEF WorkerAccept
      <4>3. SocketAccept \in Conns
        BY <2>3, <3>1, <4>1, <4>2, HasAccept
      <4>4. list' \in {Listed(SocketAccept), UseAfterFree(list)} /\ SocketAccept \in Ctxts
        BY <4>2, <4>3 DEF Updated, Conns
      <4>. QED
        BY <1>1, <4>4, UseAfterFreeType, CtxtAllocateType, CtxtListAddToType
           DEF TypeList, Listed, NewContext
    <3>3. CASE ~WorkerAccept(t)
      <4>1. CloseClient(SocketAccept) \/ CloseClient(wpkt[t].ctxt)
        BY <1>8, <3>1, <3>3 DEF WorkerFirst, WorkerRepost, WorkerDropped, WorkerRead, WorkerWrite,
           Issue, memory
      <4>2. SocketAccept \in Pointer /\ wpkt[t].ctxt \in Pointer
        BY <1>1 DEF TypeHandles, TypeWorker, Packet
      <4>. QED
        BY <1>1, <4>1, <4>2, CloseClientDoes
    <3>. QED
      BY <3>2, <3>3
  <2>. QED
    BY <2>2, <2>3
<1>9. ASSUME NEW t \in Threads, Worker(t) PROVE TypeList'
  BY <1>1, <1>8, <1>9, WorkerFrame DEF IInv, TypeList, main
<1>10. CtrlEvent \/ CtrlHandler => UNCHANGED <<list, pTemp1>>
  BY CtrlFrame DEF main, memory
<1>11. ASSUME NEW c \in Conns, Kernel(c) \/ Client(c) PROVE UNCHANGED <<list, pTemp1>>
  BY <1>11, KernelFrame DEF main
<1>12. UNCHANGED vars => UNCHANGED <<list, pTemp1>>
  BY DEF vars, main, memory
<1>. QED
  BY <1>2, <1>3, <1>4, <1>5, <1>6, <1>7, <1>9, <1>10, <1>11, <1>12 DEF Next

LEMMA StepWorker == ASSUME IInv, [Next]_vars PROVE TypeWorker'
<1>1. TypeWorker /\ TypePort
  BY IInvTypes
<1>2. CASE UNCHANGED worker
  BY <1>1, <1>2 DEF TypeWorker, worker
<1>3. CASE MainCreateThreads
  <2>1. wpkt' = wpkt /\ \A t \in Threads : wpc'[t] \in {wpc[t], "gqcs"}
    BY <1>1, <1>3 DEF MainCreateThreads, TypeWorker
  <2>2. wpc' \in [Threads -> WorkerSteps]
    BY <1>1, <1>3 DEF MainCreateThreads, TypeWorker, WorkerSteps
  <2>. QED
    BY <1>1, <2>1, <2>2 DEF TypeWorker
<1>4. CASE Main /\ ~MainCreateThreads
  BY <1>2, <1>4, MainFrame DEF worker
<1>5. ASSUME NEW t \in Threads, WorkerGet(t) PROVE TypeWorker'
  <2>1. wpkt' \in [Threads -> Packet]
    <3>1. CASE port[t[1]] # <<>> /\ wpkt' = [wpkt EXCEPT ![t] = Head(port[t[1]])]
      <4>1. port[t[1]] \in Seq(Packet)
        BY <1>1 DEF TypePort, Threads
      <4>2. Head(port[t[1]]) \in Packet
        BY <3>1, <4>1
      <4>. QED
        BY <1>1, <3>1, <4>2 DEF TypeWorker
    <3>2. CASE wpkt' = [wpkt EXCEPT ![t].ok = FALSE]
      BY <1>1, <3>2 DEF TypeWorker, Packet
    <3>. QED
      BY <1>5, <3>1, <3>2 DEF WorkerGet
  <2>2. wpc' \in [Threads -> WorkerSteps]
    BY <1>1, <1>5 DEF WorkerGet, TypeWorker, WorkerSteps
  <2>. QED
    BY <2>1, <2>2 DEF TypeWorker
<1>6. ASSUME NEW t \in Threads, Worker(t), ~WorkerGet(t) PROVE TypeWorker'
  <2>1. wpkt' = wpkt
    BY <1>6, WorkerFrame DEF IInv
  <2>2. \/ wpc' = wpc
        \/ \E s \in WorkerSteps : wpc' = [wpc EXCEPT ![t] = s]
    BY <1>6 DEF Worker, WorkerCheck, WorkerIo, WorkerAccept, WorkerFirst, WorkerRepost, WorkerDropped,
       WorkerRead, WorkerWrite, worker, WorkerSteps
  <2>. QED
    BY <1>1, <2>1, <2>2 DEF TypeWorker
<1>7. CtrlEvent \/ CtrlHandler => UNCHANGED worker
  BY CtrlFrame
<1>8. ASSUME NEW c \in Conns, Kernel(c) \/ Client(c) PROVE UNCHANGED worker
  BY <1>8, KernelFrame
<1>9. UNCHANGED vars => UNCHANGED worker
  BY DEF vars
<1>. QED
  BY <1>2, <1>3, <1>4, <1>5, <1>6, <1>7, <1>8, <1>9 DEF Next, Worker

LEMMA FreshIoType == FreshIo("ClientIoAccept") \in IoContext
<1>1. [i \in 1..MAX_BUFF_SIZE |-> 0] \in [1..MAX_BUFF_SIZE -> 0..MaxBytes]
  BY ServerExAssumption
<1>2. 0 \in Size
  BY ServerExAssumption DEF Size
<1>. QED
  BY <1>1, <1>2 DEF FreshIo, IoContext

LEMMA CopiedType ==
  ASSUME NEW b \in [1..MAX_BUFF_SIZE -> 0..MaxBytes]
  PROVE  Copied(b) \in [1..MAX_BUFF_SIZE -> 0..MaxBytes]
BY ServerExAssumption DEF Copied

\* What a packet of n bytes from the connection c needs.
LEMMA ReceivedSizes ==
  ASSUME IInv, NEW x \in Ctxts, NEW c \in Conns,
         NEW n \in 1..Min2(conn[c].nsent - conn[c].nrecvd, pend[x].len)
  PROVE  /\ n \in Nat /\ n > 0 /\ n <= pend[x].len /\ n \in Size
         /\ conn[c].nrecvd \in Nat /\ conn[c].nsent \in 0..MaxBytes
         /\ conn[c].nrecvd + n <= conn[c].nsent /\ conn[c].nrecvd + n \in 0..MaxBytes
<1> DEFINE a == conn[c].nsent - conn[c].nrecvd
           b == pend[x].len
<1>1. /\ conn[c].nsent \in 0..MaxBytes /\ conn[c].nrecvd \in 0..MaxBytes
      /\ b \in Size /\ MAX_BUFF_SIZE \in Nat /\ MaxBytes \in Nat
  BY IInvTypes, ServerExAssumption DEF TypeConn, TypePend, Connection, Operation
<1>2. a \in Int /\ b \in Int /\ b <= MAX_BUFF_SIZE
  BY <1>1 DEF Size
<1>3. \A m \in 1..Min2(a, b) : m \in Nat /\ m > 0 /\ m <= a /\ m <= b /\ m <= MAX_BUFF_SIZE
  <2>. HIDE DEF a, b
  <2>. QED
    BY <1>1, <1>2 DEF Min2
<1>4. n \in Nat /\ n > 0 /\ n <= a /\ n <= b /\ n <= MAX_BUFF_SIZE
  BY <1>3
<1>. QED
  BY <1>1, <1>4 DEF Size

LEMMA StepIo == ASSUME IInv, [Next]_vars PROVE TypeIo'
<1>1. TypeIo /\ TypeHandles /\ TypeWorker
  BY IInvTypes
<1>2. CASE UNCHANGED <<io, key>>
  BY <1>1, <1>2 DEF TypeIo
<1>3. CASE MainCreateAcceptSocket
  <2>1. /\ io' \in {io, [io EXCEPT ![Listen] = FreshIo("ClientIoAccept")]}
        /\ key' \in {key, [key EXCEPT ![Listen] = g_hIOCP]}
    BY <1>3 DEF MainCreateAcceptSocket, Updated
  <2>. QED
    BY <1>1, <2>1, FreshIoType DEF TypeIo, TypeHandles
<1>4. CASE Main /\ ~MainCreateAcceptSocket
  BY <1>2, <1>4, MainFrame
<1>5. ASSUME NEW t \in Threads, WorkerIo(t) PROVE TypeIo'
  <2>. DEFINE c == wpkt[t].ctxt
              size == wpkt[t].size
  <2>1. size \in Size /\ c \in Pointer
    BY <1>1 DEF TypeWorker, Packet
  <2>2. CASE WorkerAccept(t)
    <3>1. /\ io' \in {io, [io EXCEPT ![SocketAccept] = FreshIo("ClientIoAccept")]}
          /\ key' \in {key, [key EXCEPT ![SocketAccept] = g_hIOCP]}
      BY <2>2 DEF WorkerAccept, Updated
    <3>. QED
      BY <1>1, <3>1, FreshIoType DEF TypeIo, TypeHandles
  <2>3. CASE WorkerFirst(t)
    <3>1. Copied(io[Listen].Buffer) \in [1..MAX_BUFF_SIZE -> 0..MaxBytes] /\ 0 \in Nat
      BY <1>1, CopiedType, ServerExAssumption DEF TypeIo, IoContext
    <3>2. [IOOperation |-> "ClientIoWrite", nTotalBytes |-> size, nSentBytes |-> 0,
           Buffer |-> Copied(io[Listen].Buffer)] \in IoContext
      BY <2>1, <3>1 DEF IoContext
    <3>3. key' = key
      BY <2>3 DEF WorkerFirst
    <3>4. CASE io' = [io EXCEPT ![SocketAccept] = [IOOperation |-> "ClientIoWrite", nTotalBytes |-> size,
                                 nSentBytes |-> 0, Buffer |-> Copied(io[Listen].Buffer)]]
      BY <1>1, <3>2, <3>3, <3>4 DEF TypeIo
    <3>5. CASE io' = [io EXCEPT ![SocketAccept].IOOperation = "ClientIoRead"]
      BY <1>1, <3>3, <3>5 DEF TypeIo, IoContext
    <3>. QED
      BY <2>3, <3>4, <3>5 DEF WorkerFirst
  <2>4. CASE WorkerRead(t)
    <3>1. key' = key /\ io' = [io EXCEPT ![c].IOOperation = "ClientIoWrite", ![c].nTotalBytes = size,
                                         ![c].nSentBytes = 0]
      BY <2>4 DEF WorkerRead
    <3>. QED
      <4>1. CASE c \in Ctxts
        <5>1. io[c] \in IoContext
          BY <1>1, <4>1 DEF TypeIo
        <5>2. [io[c] EXCEPT !.IOOperation = "ClientIoWrite", !.nTotalBytes = size, !.nSentBytes = 0]
                \in IoContext
          BY <2>1, <5>1 DEF IoContext
        <5>3. io' = [io EXCEPT ![c] = [io[c] EXCEPT !.IOOperation = "ClientIoWrite",
                                       !.nTotalBytes = size, !.nSentBytes = 0]]
          BY <1>1, <3>1, <4>1 DEF TypeIo
        <5>. QED
          BY <1>1, <3>1, <4>1, <5>2, <5>3 DEF TypeIo
      <4>2. CASE c \notin Ctxts
        <5>1. io' = io
          BY <1>1, <3>1, <4>2 DEF TypeIo
        <5>. QED
          BY <1>1, <3>1, <5>1 DEF TypeIo
      <4>. QED
        BY <4>1, <4>2
  <2>5. CASE WorkerWrite(t) /\ Allocated(t)
    <3>1. c \in Ctxts
      BY <1>5, <2>5, AtIo DEF WorkerIo
    <3>2. SentSoFar(c, size) \in Nat
      BY <1>1, <2>1, <3>1 DEF TypeIo, IoContext, SentSoFar, Size
    <3>3. key' = key /\ \/ io' = [io EXCEPT ![c].nSentBytes = SentSoFar(c, size)]
                        \/ io' = [io EXCEPT ![c].nSentBytes = SentSoFar(c, size),
                                            ![c].IOOperation = "ClientIoRead"]
      BY <2>5 DEF WorkerWrite
    <3>. DEFINE sent == SentSoFar(c, size)
    <3>4. sent \in Nat /\ \/ io' = [io EXCEPT ![c].nSentBytes = sent]
                          \/ io' = [io EXCEPT ![c].nSentBytes = sent, ![c].IOOperation = "ClientIoRead"]
      BY <3>2, <3>3
    <3>. HIDE DEF sent, c
    <3>5. CASE io' = [io EXCEPT ![c].nSentBytes = sent]
      BY <1>1, <3>3, <3>4, <3>5 DEF TypeIo, IoContext
    <3>6. CASE io' = [io EXCEPT ![c].nSentBytes = sent, ![c].IOOperation = "ClientIoRead"]
      <4> DEFINE old == io[c]
                 new == [old EXCEPT !.nSentBytes = sent, !.IOOperation = "ClientIoRead"]
      <4>1. io' = [io EXCEPT ![c] = new]
        BY <3>6
      <4>2. old \in IoContext
        BY <1>1, <3>1 DEF TypeIo
      <4>3. new \in IoContext
        <5>. HIDE DEF old
        <5>1. [old EXCEPT !.nSentBytes = sent] \in IoContext
          BY <3>4, <4>2 DEF IoContext
        <5>. DEFINE mid == [old EXCEPT !.nSentBytes = sent]
        <5>. HIDE DEF mid
        <5>2. [mid EXCEPT !.IOOperation = "ClientIoRead"] \in IoContext
          BY <5>1 DEF IoContext, mid
        <5>. QED
          BY <5>2 DEF mid
      <4>. HIDE DEF new
      <4>. QED
        BY <1>1, <3>3, <4>1, <4>3 DEF TypeIo
    <3>. QED
      BY <3>4, <3>5, <3>6
  <2>6. CASE WorkerRepost(t) \/ WorkerDropped(t) \/ ~Allocated(t)
    <3>1. UNCHANGED <<io, key>>
      BY <1>5, <2>6 DEF WorkerIo, WorkerRepost, WorkerDropped, memory, kernel
    <3>. QED
      BY <1>2, <3>1
  <2>. QED
    BY <1>5, <2>2, <2>3, <2>4, <2>5, <2>6 DEF WorkerIo
<1>6. ASSUME NEW t \in Threads, Worker(t), ~WorkerIo(t) PROVE UNCHANGED <<io, key>>
  BY <1>6, WorkerFrame DEF IInv, memory
<1>7. CtrlEvent \/ CtrlHandler => UNCHANGED <<io, key>>
  BY CtrlFrame DEF memory, kernel
<1>8. ASSUME NEW c \in Conns, NEW x \in Ctxts, Received(x, c), key' = key PROVE TypeIo'
  <2>1. ASSUME NEW n \in 1..Min2(conn[c].nsent - conn[c].nrecvd, pend[x].len),
               io' = [io EXCEPT ![x].Buffer =
                        [i \in 1..MAX_BUFF_SIZE |-> IF i <= n THEN Byte(conn[c].nrecvd + i) ELSE @[i]]]
        PROVE  io' \in [Ctxts -> IoContext]
    <3>. DEFINE b == [i \in 1..MAX_BUFF_SIZE |->
                        IF i <= n THEN Byte(conn[c].nrecvd + i) ELSE io[x].Buffer[i]]
    <3>1. \A i \in 1..MAX_BUFF_SIZE : i <= n => Byte(conn[c].nrecvd + i) \in 0..MaxBytes
      <4>1. /\ conn[c].nrecvd \in Nat /\ n \in Nat /\ conn[c].nrecvd + n <= MaxBytes
            /\ MAX_BUFF_SIZE \in Nat /\ MaxBytes \in Nat
        BY ReceivedSizes, ServerExAssumption
      <4>. QED
        BY <4>1 DEF Byte
    <3>2. io[x].Buffer \in [1..MAX_BUFF_SIZE -> 0..MaxBytes]
      BY <1>1 DEF TypeIo, IoContext
    <3>3. b \in [1..MAX_BUFF_SIZE -> 0..MaxBytes]
      BY <3>1, <3>2
    <3>4. io' = [io EXCEPT ![x].Buffer = b]
      BY <2>1
    <3>. HIDE DEF b
    <3>. QED
      BY <1>1, <3>3, <3>4 DEF TypeIo, IoContext
  <2>. QED
    BY <1>1, <1>8, <2>1 DEF Received, TypeIo
<1>9. ASSUME NEW c \in Conns, Kernel(c) \/ Client(c) PROVE TypeIo'
  <2>1. CASE CompleteRecv(c)
    BY <1>8, <2>1, ServerExAssumption DEF CompleteRecv, Conns
  <2>. QED
    BY <1>2, <1>9, <2>1, KernelFrame
<1>10. UNCHANGED vars => UNCHANGED <<io, key>>
  BY DEF vars, memory, kernel
<1>. QED
  BY <1>2, <1>3, <1>4, <1>5, <1>6, <1>7, <1>9, <1>10 DEF Next

LEMMA IdleType == Idle \in Operation
BY ServerExAssumption DEF Idle, Operation, Size

\* An operation is posted, completed or cancelled.
LEMMA StepPend == ASSUME IInv, [Next]_vars PROVE TypePend'
<1>1. TypePend /\ TypeIo /\ TypeHandles /\ TypeWorker
  BY IInvTypes
<1>2. CASE UNCHANGED pend
  BY <1>1, <1>2 DEF TypePend
<1>3. ASSUME NEW x, pend' = [pend EXCEPT ![x] = Idle] PROVE TypePend'
  BY <1>1, <1>3, IdleType DEF TypePend
<1>4. AcceptPosted => TypePend'
  <2>1. [op |-> "accept", off |-> 0, len |-> MAX_BUFF_SIZE - AddrSize] \in Operation
    BY ServerExAssumption DEF Operation, Size
  <2>. QED
    BY <1>1, <2>1 DEF AcceptPosted, TypePend
<1>5. ASSUME NEW x, CloseClient(x) PROVE TypePend'
  BY <1>2, <1>3, <1>5 DEF CloseClient, Cancelled, Completed
<1>6. ASSUME NEW t, NEW c, NEW op \in {"recv", "send"}, NEW off \in Size, NEW len \in Size,
             Issue(t, c, op, off, len)
      PROVE  TypePend'
  <2>1. [op |-> op, off |-> off, len |-> len] \in Operation
    BY DEF Operation
  <2>. QED
    BY <1>1, <1>5, <1>6, <2>1 DEF Issue, TypePend
<1>7. ASSUME Main PROVE TypePend'
  <2>1. CASE MainCreateAcceptSocket
    BY <1>2, <1>4, <2>1 DEF MainCreateAcceptSocket
  <2>2. CASE MainCloseListen
    BY <1>2, <1>3, <2>2 DEF MainCloseListen, Cancelled, Completed
  <2>3. CASE CtxtListFreeStep
    BY <1>5, <2>3 DEF CtxtListFreeStep
  <2>4. CASE ~MainCreateAcceptSocket /\ ~MainCloseListen /\ ~CtxtListFreeStep
    <3>1. pend' = pend
      BY <1>7, <2>4 DEF Main, MainTest, MainClearRestart, MainClearEnd, MainResetEvent, MainCreateThreads,
         CreateListenSocket, MainServe, MainFinally, MainPost, MainJoin, MainFreeListen,
         CtxtListFreeEnter, CtxtListFreeLeave, MainClosePort, kernel
    <3>. QED
      BY <1>2, <3>1
  <2>. QED
    BY <2>1, <2>2, <2>3, <2>4
<1>8. ASSUME NEW t \in Threads, WorkerIo(t) PROVE TypePend'
  <2>. DEFINE c == wpkt[t].ctxt
              size == wpkt[t].size
  <2>1. size \in Size /\ 0 \in Size /\ MAX_BUFF_SIZE \in Size
    BY <1>1, ServerExAssumption DEF TypeWorker, Packet, Size
  <2>2. CASE WorkerFirst(t)
    <3>1. Issue(t, SocketAccept, "send", 0, size) \/ Issue(t, SocketAccept, "recv", 0, MAX_BUFF_SIZE)
      BY <2>2 DEF WorkerFirst
    <3>. HIDE DEF size
    <3>. QED
      BY <1>6, <2>1, <3>1
  <2>3. CASE WorkerRead(t)
    <3>1. Issue(t, c, "send", 0, size)
      BY <2>3 DEF WorkerRead
    <3>. HIDE DEF size, c
    <3>. QED
      BY <1>6, <2>1, <3>1
  <2>4. CASE WorkerWrite(t) /\ Allocated(t)
    <3>. DEFINE sent == SentSoFar(c, size)
                rest == io[c].nTotalBytes - sent
    <3>1. c \in Ctxts
      BY <1>8, <2>4, AtIo DEF WorkerIo
    <3>2. CASE sent < io[c].nTotalBytes /\ Issue(t, c, "send", sent, rest)
      <4>1. sent \in Size /\ rest \in Size
        <5> DEFINE total == io[c].nTotalBytes
                   before == io[c].nSentBytes
        <5>1. before \in Nat /\ total \in 0..MAX_BUFF_SIZE /\ size \in 0..MAX_BUFF_SIZE
          BY <1>1, <2>1, <3>1 DEF TypeIo, IoContext, Size
        <5>2. sent = before + size /\ rest = total - sent /\ sent < total
          BY <3>2 DEF SentSoFar
        <5>. HIDE DEF total, before, size, sent, rest
        <5>. QED
          BY <5>1, <5>2, ServerExAssumption DEF Size
      <4>2. Issue(t, c, "send", sent, rest)
        BY <3>2
      <4>. HIDE DEF sent, rest, c
      <4>. QED
        BY <1>6, <4>1, <4>2
    <3>3. CASE Issue(t, c, "recv", 0, MAX_BUFF_SIZE)
      BY <1>6, <2>1, <3>3
    <3>. QED
      BY <2>4, <3>2, <3>3 DEF WorkerWrite
  <2>5. CASE WorkerRepost(t)
    BY <1>2, <1>4, <2>5 DEF WorkerRepost
  <2>6. CASE WorkerDropped(t)
    BY <1>5, <2>6 DEF WorkerDropped
  <2>7. CASE WorkerAccept(t) \/ ~Allocated(t)
    <3>1. pend' = pend
      BY <1>8, <2>7 DEF WorkerIo, WorkerAccept, kernel
    <3>. QED
      BY <1>2, <3>1
  <2>. QED
    BY <1>8, <2>2, <2>3, <2>4, <2>5, <2>6, <2>7 DEF WorkerIo
<1>9. ASSUME NEW t \in Threads, Worker(t), ~WorkerIo(t) PROVE UNCHANGED pend
  BY <1>9, WorkerFrame DEF IInv
<1>10. CtrlEvent \/ CtrlHandler => UNCHANGED pend
  BY CtrlFrame DEF kernel
<1>11. ASSUME NEW c \in Conns, Kernel(c) \/ Client(c) PROVE TypePend'
  <2>1. CASE CompleteRecv(c) \/ CompleteSend(c)
    <3>1. pend' = [pend EXCEPT ![c] = Idle] \/ pend' = [pend EXCEPT ![Listen] = Idle]
      BY <2>1 DEF CompleteRecv, CompleteSend, Received, Completed
    <3>. QED
      BY <1>3, <3>1
  <2>. QED
    BY <1>2, <1>11, <2>1, KernelFrame
<1>12. UNCHANGED vars => UNCHANGED pend
  BY DEF vars, kernel
<1>. QED
  BY <1>2, <1>7, <1>8, <1>9, <1>10, <1>11, <1>12 DEF Next

LEMMA CompletedType ==
  ASSUME IInv, NEW d \in Pointer, NEW n \in Size, NEW ok \in BOOLEAN, Completed(d, n, ok)
  PROVE  TypePort'
<1> DEFINE p == [ctxt |-> d, size |-> n, ok |-> ok]
<1>1. p \in Packet
  BY DEF Packet
<1>2. port' = [port EXCEPT ![key[d]] = Append(@, p)]
  BY DEF Completed
<1>3. port \in [Runs -> Seq(Packet)]
  BY IInvTypes DEF TypePort
<1>. HIDE DEF p
<1>4. key[d] \in Runs => Append(port[key[d]], p) \in Seq(Packet)
  BY <1>1, <1>3
<1>. QED
  BY <1>2, <1>3, <1>4 DEF TypePort

\* What the steps do with the operations, the ports and the sockets.
LEMMA MainKernel ==
  ASSUME Main
  PROVE  \/ MainCreateThreads /\ UNCHANGED <<pend, port, sock, key>>
         \/ MainCreateAcceptSocket /\ UNCHANGED <<port, openPorts, sock>>
         \/ MainPost /\ UNCHANGED <<pend, sock, openPorts>>
         \/ MainCloseListen /\ UNCHANGED openPorts
         \/ MainFreeListen /\ UNCHANGED <<pend, port, openPorts>>
         \/ CtxtListFreeStep /\ UNCHANGED openPorts
         \/ MainClosePort /\ UNCHANGED <<pend, sock>>
         \/ UNCHANGED kernel
BY DEF Main, MainTest, MainClearRestart, MainClearEnd, MainResetEvent, MainCreateThreads,
   CreateListenSocket, MainCreateAcceptSocket, MainServe, MainFinally, MainPost, MainJoin,
   MainCloseListen, MainFreeListen, CtxtListFreeEnter, CtxtListFreeStep, CtxtListFreeLeave,
   MainClosePort, kernel

LEMMA WorkerKernel ==
  ASSUME NEW t \in Threads, WorkerIo(t), Allocated(t)
  PROVE  \/ WorkerAccept(t) /\ UNCHANGED <<pend, port, sock>>
         \/ WorkerRepost(t) /\ UNCHANGED <<port, sock>>
         \/ WorkerDropped(t) /\ CloseClient(wpkt[t].ctxt)
         \/ /\ WorkerFirst(t) /\ \/ UNCHANGED <<port, sock, list>>
                                 \/ CanLock(t) /\ CloseClient(SocketAccept)
         \/ /\ WorkerRead(t) \/ WorkerWrite(t)
            /\ \/ UNCHANGED <<port, sock, list>>
               \/ CanLock(t) /\ CloseClient(wpkt[t].ctxt)
<1>1. WorkerAccept(t) => UNCHANGED <<pend, port, sock>>
  BY DEF WorkerAccept
<1>2. WorkerRepost(t) => UNCHANGED <<port, sock>>
  BY DEF WorkerRepost
<1>3. WorkerDropped(t) => CloseClient(wpkt[t].ctxt)
  BY DEF WorkerDropped
<1>4. WorkerFirst(t) => \/ UNCHANGED <<port, sock, list>>
                        \/ CanLock(t) /\ CloseClient(SocketAccept)
  BY DEF WorkerFirst, Issue
<1>5. WorkerRead(t) \/ WorkerWrite(t) => \/ UNCHANGED <<port, sock, list>>
                                         \/ CanLock(t) /\ CloseClient(wpkt[t].ctxt)
  BY DEF WorkerRead, WorkerWrite, Issue
<1>. QED
  BY <1>1, <1>2, <1>3, <1>4, <1>5 DEF WorkerIo

LEMMA StepPort == ASSUME IInv, [Next]_vars PROVE TypePort'
<1>1. TypePort /\ TypeHandles /\ TypeWorker /\ TypeList
  BY IInvTypes
<1>2. CASE UNCHANGED port
  BY <1>1, <1>2 DEF TypePort
<1>3. 0 \in Size
  BY ServerExAssumption DEF Size
<1>4. ASSUME NEW d \in Pointer, CloseClient(d) PROVE TypePort'
  BY <1>2, <1>3, <1>4, CompletedType DEF CloseClient, Cancelled
<1>5. CASE MainPost
  <2>1. NullPacket \in Packet
    BY <1>3 DEF NullPacket, Packet, Pointer
  <2>2. ExitPackets \in Seq(Packet)
    BY <2>1, ServerExAssumption DEF ExitPackets
  <2>3. g_hIOCP \in Runs => port[g_hIOCP] \o ExitPackets \in Seq(Packet)
    BY <1>1, <2>2 DEF TypePort
  <2>. DEFINE new == port[g_hIOCP] \o ExitPackets
  <2>4. port' = port \/ port' = [port EXCEPT ![g_hIOCP] = new]
    BY <1>5 DEF MainPost
  <2>5. g_hIOCP \in Runs => new \in Seq(Packet)
    BY <2>3
  <2>. HIDE DEF new
  <2>. QED
    BY <1>1, <2>4, <2>5 DEF TypePort
<1>6. CASE MainCloseListen
  <2>1. Listen \in Pointer
    BY ServerExAssumption DEF Pointer
  <2>. QED
    BY <1>2, <1>3, <1>6, <2>1, CompletedType DEF MainCloseListen, Cancelled
<1>7. CASE MainClosePort
  <2>1. <<>> \in Seq(Packet)
    OBVIOUS
  <2>2. port' = [r \in Runs |-> IF r = g_hIOCP THEN <<>> ELSE port[r]]
    BY <1>7 DEF MainClosePort
  <2>3. ASSUME NEW r \in Runs PROVE port'[r] \in Seq(Packet)
    BY <1>1, <2>1, <2>2 DEF TypePort
  <2>4. port' = [r \in Runs |-> port'[r]]
    BY <2>2
  <2>. QED
    BY <2>3, <2>4 DEF TypePort
<1>8. CASE Main
  <2>1. CtxtListFreeStep => TypePort'
    BY <1>1, <1>4 DEF CtxtListFreeStep, TypeList
  <2>. QED
    BY <1>2, <1>5, <1>6, <1>7, <1>8, <2>1, MainKernel DEF kernel
<1>9. ASSUME NEW t \in Threads, Worker(t) PROVE TypePort'
  <2>1. CASE WorkerGet(t)
    <3>1. CASE port[t[1]] # <<>> /\ port' = [port EXCEPT ![t[1]] = Tail(@)]
      <4>1. t[1] \in Runs
        BY DEF Threads
      <4>2. port[t[1]] \in Seq(Packet)
        BY <1>1, <4>1 DEF TypePort
      <4>3. Tail(port[t[1]]) \in Seq(Packet)
        BY <3>1, <4>2
      <4>. QED
        BY <1>1, <3>1, <4>3 DEF TypePort
    <3>. QED
      BY <1>2, <2>1, <3>1 DEF WorkerGet
  <2>2. CASE WorkerIo(t) /\ ~Allocated(t)
    BY <1>2, <2>2 DEF WorkerIo, kernel
  <2>3. CASE WorkerIo(t) /\ Allocated(t)
    <3>1. SocketAccept \in Pointer /\ wpkt[t].ctxt \in Pointer
      BY <1>1 DEF TypeHandles, TypeWorker, Packet
    <3>. QED
      BY <1>2, <1>4, <2>3, <3>1, WorkerKernel
  <2>4. CASE WorkerCheck(t)
    BY <1>2, <2>4 DEF WorkerCheck, kernel
  <2>. QED
    BY <1>9, <2>1, <2>2, <2>3, <2>4 DEF Worker
<1>10. CtrlEvent \/ CtrlHandler => UNCHANGED port
  BY CtrlFrame DEF kernel
<1>11. ASSUME NEW x \in Ctxts, NEW c \in Conns, Received(x, c) PROVE TypePort'
  <2>1. ASSUME NEW n \in 1..Min2(conn[c].nsent - conn[c].nrecvd, pend[x].len), Completed(x, n, TRUE)
        PROVE  TypePort'
    <3>1. n \in Size /\ x \in Pointer
      BY ReceivedSizes DEF Pointer
    <3>. QED
      BY <2>1, <3>1, CompletedType
  <2>2. x \in Pointer
    BY DEF Pointer
  <2>. QED
    BY <1>3, <1>11, <2>1, <2>2, CompletedType DEF Received
<1>12. ASSUME NEW c \in Conns, CompleteSend(c) PROVE TypePort'
  <2>1. pend[c].len \in Size /\ c \in Pointer
    BY IInvTypes DEF TypePend, Operation, Conns, Pointer
  <2>2. \A n \in 1..pend[c].len : n \in Size
    BY <2>1, ServerExAssumption DEF Size
  <2>. QED
    BY <1>3, <1>12, <2>1, <2>2, CompletedType DEF CompleteSend
<1>13. ASSUME NEW c \in Conns, Kernel(c) \/ Client(c) PROVE TypePort'
  <2>1. CompleteRecv(c) => TypePort'
    BY <1>11, ServerExAssumption DEF CompleteRecv, Conns
  <2>. QED
    BY <1>2, <1>12, <1>13, <2>1, KernelFrame
<1>14. UNCHANGED vars => UNCHANGED port
  BY DEF vars, kernel
<1>. QED
  BY <1>2, <1>8, <1>9, <1>10, <1>13, <1>14 DEF Next

LEMMA StepSock == ASSUME IInv, [Next]_vars PROVE TypeSock'
<1>1. TypeSock
  BY IInvTypes
<1>2. CASE UNCHANGED sock
  BY <1>1, <1>2 DEF TypeSock
<1>3. ASSUME NEW d, CloseClient(d) PROVE TypeSock'
  BY <1>1, <1>2, <1>3 DEF CloseClient, TypeSock
<1>4. CASE Main
  <2>1. MainCloseListen \/ MainFreeListen => TypeSock'
    BY <1>1, <1>2 DEF MainCloseListen, MainFreeListen, TypeSock
  <2>2. CtxtListFreeStep => TypeSock'
    BY <1>3 DEF CtxtListFreeStep
  <2>. QED
    BY <1>2, <1>4, <2>1, <2>2, MainKernel DEF kernel, MainClosePort
<1>5. ASSUME NEW t \in Threads, Worker(t) PROVE TypeSock'
  <2>1. WorkerIo(t) /\ Allocated(t) => TypeSock'
    BY <1>2, <1>3, WorkerKernel
  <2>2. WorkerIo(t) /\ ~Allocated(t) => UNCHANGED sock
    BY DEF WorkerIo, kernel
  <2>. QED
    BY <1>2, <1>5, <2>1, <2>2, WorkerFrame DEF IInv
<1>6. CtrlEvent \/ CtrlHandler => UNCHANGED sock
  BY CtrlFrame DEF kernel
<1>7. ASSUME NEW c \in Conns, Kernel(c) \/ Client(c) PROVE TypeSock'
  <2>1. AcceptConnect(c) \/ Connect(c) => TypeSock'
    BY <1>1 DEF AcceptConnect, Connect, TypeSock
  <2>. QED
    BY <1>2, <1>7, <2>1, KernelFrame
<1>8. UNCHANGED vars => UNCHANGED sock
  BY DEF vars, kernel
<1>. QED
  BY <1>2, <1>4, <1>5, <1>6, <1>7, <1>8 DEF Next

LEMMA SequenceOf ==
  ASSUME NEW S, NEW n \in Nat, NEW f, f = [i \in 1..n |-> f[i]], \A i \in 1..n : f[i] \in S
  PROVE  f \in Seq(S)
<1>1. f \in [1..n -> S]
  OBVIOUS
<1>. QED
  BY <1>1

LEMMA StepConn == ASSUME IInv, [Next]_vars PROVE TypeConn'
<1>1. TypeConn
  BY IInvTypes
<1>2. CASE UNCHANGED conn
  BY <1>1, <1>2 DEF TypeConn
<1>3. ASSUME NEW x \in Ctxts, NEW c \in Conns, Received(x, c) PROVE TypeConn'
  <2>1. ASSUME NEW n \in 1..Min2(conn[c].nsent - conn[c].nrecvd, pend[x].len),
               conn' = [conn EXCEPT ![c].nrecvd = @ + n]
        PROVE  TypeConn'
    <3> DEFINE m == conn[c].nrecvd + n
    <3>1. m \in 0..MaxBytes
      BY ReceivedSizes
    <3>2. conn' = [conn EXCEPT ![c].nrecvd = m]
      BY <2>1
    <3>. HIDE DEF m
    <3>. QED
      BY <1>1, <3>1, <3>2 DEF TypeConn, Connection
  <2>. QED
    BY <1>2, <1>3, <2>1 DEF Received
<1>4. ASSUME NEW c \in Conns, CompleteSend(c) PROVE TypeConn'
  <2>1. ASSUME NEW n \in 1..pend[c].len,
               conn' = [conn EXCEPT ![c].echoed =
                          @ \o [i \in 1..n |-> io[c].Buffer[pend[c].off + i]]]
        PROVE  TypeConn'
    <3> DEFINE f == [i \in 1..n |-> io[c].Buffer[pend[c].off + i]]
    <3>1. /\ io[c].Buffer \in [1..MAX_BUFF_SIZE -> 0..MaxBytes]
          /\ pend[c].off \in 0..MAX_BUFF_SIZE /\ pend[c].len \in 0..MAX_BUFF_SIZE
          /\ MAX_BUFF_SIZE \in Nat
      BY IInvTypes, ServerExAssumption DEF TypeIo, IoContext, TypePend, Operation, Size, Conns
    <3>2. pend[c].off + pend[c].len <= MAX_BUFF_SIZE
      BY <1>4 DEF CompleteSend, IInv, Good, Echo, NextInBuffer
    <3>3. \A i \in 1..n : pend[c].off + i \in 1..MAX_BUFF_SIZE
      <4> DEFINE off == pend[c].off
                 len == pend[c].len
      <4>1. off \in Nat /\ len \in Nat /\ off + len <= MAX_BUFF_SIZE /\ n \in 1..len
        BY <2>1, <3>1, <3>2
      <4>. HIDE DEF off, len
      <4>2. \A i \in 1..n : off + i \in 1..MAX_BUFF_SIZE
        BY <3>1, <4>1
      <4>. QED
        BY <4>2 DEF off
    <3>4. f \in Seq(0..MaxBytes)
      <4>1. \A i \in 1..n : f[i] \in 0..MaxBytes
        BY <3>1, <3>3
      <4>2. n \in Nat
        BY <2>1, <3>1
      <4>3. f = [i \in 1..n |-> f[i]]
        OBVIOUS
      <4>. HIDE DEF f
      <4>. QED
        BY <4>1, <4>2, <4>3, SequenceOf
    <3>5. conn[c].echoed \in Seq(0..MaxBytes)
      BY <1>1 DEF TypeConn, Connection
    <3>6. conn' = [conn EXCEPT ![c].echoed = conn[c].echoed \o f]
      BY <2>1
    <3>. DEFINE e == conn[c].echoed \o f
    <3>. HIDE DEF f
    <3>7. e \in Seq(0..MaxBytes)
      BY <3>4, <3>5
    <3>8. conn' = [conn EXCEPT ![c].echoed = e]
      BY <3>6
    <3>. HIDE DEF e
    <3>. QED
      BY <1>1, <3>7, <3>8 DEF TypeConn, Connection
  <2>. QED
    BY <1>2, <1>4, <2>1 DEF CompleteSend
<1>5. ASSUME NEW c \in Conns, Client(c) PROVE TypeConn'
  <2>1. Connect(c) => UNCHANGED conn
    BY DEF Connect
  <2>2. CASE ClientSend(c)
    <3> DEFINE m == conn[c].nsent + 1
    <3>1. conn[c].nsent \in 0..MaxBytes /\ conn[c].nsent < MaxBytes /\ MaxBytes \in Nat
      BY <1>1, <2>2, ServerExAssumption DEF TypeConn, Connection, ClientSend
    <3>2. m \in 0..MaxBytes /\ conn' = [conn EXCEPT ![c].nsent = m]
      BY <2>2, <3>1 DEF ClientSend
    <3>. HIDE DEF m
    <3>. QED
      BY <1>1, <3>2 DEF TypeConn, Connection
  <2>3. CASE ClientClose(c)
    BY <1>1, <2>3 DEF ClientClose, TypeConn, Connection
  <2>. QED
    BY <1>2, <1>5, <2>1, <2>2, <2>3 DEF Client
<1>6. Main => UNCHANGED conn
  BY MainFrame
<1>7. ASSUME NEW t \in Threads, Worker(t) PROVE UNCHANGED conn
  BY <1>7, WorkerFrame DEF IInv
<1>8. CtrlEvent \/ CtrlHandler => UNCHANGED conn
  BY CtrlFrame
<1>9. ASSUME NEW c \in Conns, Kernel(c) PROVE TypeConn'
  <2>1. CompleteRecv(c) => TypeConn'
    BY <1>3, ServerExAssumption DEF CompleteRecv, Conns
  <2>2. AcceptConnect(c) => UNCHANGED conn
    BY DEF AcceptConnect
  <2>. QED
    BY <1>2, <1>4, <1>9, <2>1, <2>2 DEF Kernel
<1>10. UNCHANGED vars => UNCHANGED conn
  BY DEF vars
<1>. QED
  BY <1>2, <1>5, <1>6, <1>7, <1>8, <1>9, <1>10 DEF Next

LEMMA StepTypes == IInv /\ [Next]_vars => TypeOK' /\ RunBound'
<1>1. IInv /\ [Next]_vars =>
        /\ TypeMain' /\ TypeHandles' /\ TypeList' /\ TypeWorker' /\ TypeIo'
        /\ TypePend' /\ TypePort' /\ TypeSock' /\ TypeConn'
  BY StepMain, StepHandles, StepList, StepWorker, StepIo, StepPend, StepPort, StepSock, StepConn
<1>. QED
  BY <1>1, TypeParts, PTL

LEMMA InitTypes == Init => TypeOK /\ RunBound
<1> SUFFICES ASSUME Init PROVE TypeOK /\ RunBound
  OBVIOUS
<1>1. 0 \in Size /\ 0 \in 0..MaxBytes /\ 0 \in 0..MaxCtrl /\ MAX_BUFF_SIZE \in Nat
  BY ServerExAssumption DEF Size
<1>2. NULL \in Pointer /\ Idle \in Operation /\ NullPacket \in Packet
  BY <1>1, IdleType DEF Pointer, NullPacket, Packet
<1>3. TypeMain /\ RunBound
  <2>1. /\ g_bEndServer = FALSE /\ g_bRestart = TRUE /\ g_hCleanupEvent = FALSE
        /\ mpc = "test" /\ run = 0 /\ hpc = "idle" /\ nctrl = 0
    BY DEF Init
  <2>2. RunBound
    BY <2>1 DEF RunBound
  <2>3. mpc \in MainSteps
    BY <2>1 DEF MainSteps
  <2>. QED
    BY <1>1, <2>1, <2>2, <2>3 DEF TypeMain
<1>4. TypeHandles
  BY <1>2 DEF Init, TypeHandles
<1>5. TypeList
  BY <1>2 DEF Init, TypeList, EmptyList, List
<1>6. TypeWorker
  BY <1>2 DEF Init, TypeWorker, WorkerSteps
<1>7. TypeIo
  BY FreshIoType DEF Init, TypeIo
<1>8. TypePend
  BY <1>2 DEF Init, TypePend
<1>9. TypePort
  <2>1. <<>> \in Seq(Packet)
    OBVIOUS
  <2>. QED
    BY <2>1 DEF Init, TypePort
<1>10. TypeSock
  BY DEF Init, TypeSock
<1>11. TypeConn
  <2>1. <<>> \in Seq(0..MaxBytes)
    OBVIOUS
  <2>. QED
    BY <1>1, <2>1 DEF Init, TypeConn, Connection
<1>. QED
  BY <1>3, <1>4, <1>5, <1>6, <1>7, <1>8, <1>9, <1>10, <1>11, TypeParts

-----------------------------------------------------------------------------
(* Who changes what: for each piece of state, the steps that change it.      *)

\* A worker handles a packet whose context is allocated.
IoOf(t) == WorkerIo(t) /\ Allocated(t)
AcceptOperation == [op |-> "accept", off |-> 0, len |-> MAX_BUFF_SIZE - AddrSize]

LEMMA Freed ==
  ASSUME IInv, NEW t \in Threads, Worker(t), ~WorkerGet(t), ~WorkerCheck(t), ~IoOf(t)
  PROVE  /\ UNCHANGED <<flags, globals, main, worker, handler, cs, io, kernel, conn>>
         /\ list'.live = list.live /\ list'.uaf
<1>1. WorkerIo(t) /\ ~Allocated(t)
  BY DEF Worker, IoOf
<1>2. list \in List
  BY DEF IInv, TypeOK
<1>. QED
  BY <1>1, <1>2 DEF WorkerIo, UseAfterFree, List

LEMMA IoOfIs ==
  ASSUME NEW t \in Threads, IoOf(t)
  PROVE  /\ wpc[t] \in {"io", "first", "repost"} /\ Allocated(t)
         /\ WorkerAccept(t) \/ WorkerFirst(t) \/ WorkerRepost(t) \/ WorkerDropped(t) \/ WorkerRead(t)
            \/ WorkerWrite(t)
BY DEF IoOf, WorkerIo

\* The socket of a client is a connection or the listening socket.
LEMMA Pointers ==
  IInv => SocketAccept \in Pointer /\ \A t \in Threads : wpkt[t] \in Packet /\ wpkt[t].ctxt \in Pointer
<1> SUFFICES ASSUME IInv PROVE SocketAccept \in Pointer /\ \A t \in Threads : wpkt[t] \in Packet /\ wpkt[t].ctxt \in Pointer
  OBVIOUS
<1>1. TypeHandles /\ TypeWorker
  BY IInvTypes
<1>. QED
  BY <1>1 DEF TypeHandles, TypeWorker, Packet

LEMMA ListenIsNone == NULL \notin Conns /\ Listen \notin Conns /\ Listen # NULL /\ Listen \in Ctxts /\ Listen \in Pointer
BY NullAssumption, ServerExAssumption DEF Conns, Pointer

\* Who posts an operation on x.
LEMMA PendMoves ==
  ASSUME IInv, [Next]_vars, NEW x \in Ctxts, pend'[x] # pend[x], pend'[x] # Idle
  PROVE  \/ /\ x = Listen /\ pend'[x] = AcceptOperation
            /\ MainCreateAcceptSocket \/ \E t \in Threads : IoOf(t) /\ WorkerRepost(t)
         \/ \E t \in Threads :
              /\ IoOf(t) /\ UNCHANGED <<port, sock, list>>
              /\ \/ WorkerFirst(t) /\ x = SocketAccept
                 \/ (WorkerRead(t) \/ WorkerWrite(t)) /\ x = wpkt[t].ctxt
<1>1. pend \in [Ctxts -> Operation]
  BY IInvTypes DEF TypePend
<1>2. UNCHANGED pend => FALSE
  OBVIOUS
<1>3. ASSUME NEW d, pend' = [pend EXCEPT ![d] = Idle] PROVE FALSE
  BY <1>1, <1>3
<1>4. ASSUME NEW d, CloseClient(d) PROVE FALSE
  BY <1>2, <1>3, <1>4 DEF CloseClient, Cancelled, Completed
<1>5. ASSUME AcceptPosted PROVE x = Listen /\ pend'[x] = AcceptOperation
  BY <1>1, <1>2, <1>5 DEF AcceptPosted, AcceptOperation
<1>6. CASE Main
  <2>1. MainCreateAcceptSocket => AcceptPosted
    BY <1>2 DEF MainCreateAcceptSocket
  <2>2. ~MainCloseListen
    BY <1>2, <1>3 DEF MainCloseListen, Cancelled, Completed
  <2>3. ~CtxtListFreeStep
    BY <1>4 DEF CtxtListFreeStep
  <2>. QED
    BY <1>2, <1>5, <1>6, <2>1, <2>2, <2>3, MainKernel DEF kernel
<1>7. ASSUME NEW t \in Threads, Worker(t)
      PROVE  \/ x = Listen /\ pend'[x] = AcceptOperation /\ IoOf(t) /\ WorkerRepost(t)
             \/ /\ IoOf(t) /\ UNCHANGED <<port, sock, list>>
                /\ \/ WorkerFirst(t) /\ x = SocketAccept
                   \/ (WorkerRead(t) \/ WorkerWrite(t)) /\ x = wpkt[t].ctxt
  <2>1. IoOf(t)
    BY <1>2, <1>7, Freed, WorkerFrame DEF kernel, IInv, WorkerGet, WorkerCheck
  <2>2. WorkerRepost(t) => AcceptPosted
    BY <1>2 DEF WorkerRepost
  <2>3. ASSUME NEW c, NEW op, NEW off, NEW len, Issue(t, c, op, off, len)
        PROVE  x = c /\ UNCHANGED <<port, sock, list>>
    BY <1>1, <1>4, <2>3 DEF Issue
  <2>4. ~WorkerDropped(t) /\ ~WorkerAccept(t)
    BY <1>2, <1>4 DEF WorkerDropped, WorkerAccept
  <2>5. WorkerFirst(t) => x = SocketAccept /\ UNCHANGED <<port, sock, list>>
    BY <2>3 DEF WorkerFirst
  <2>6. WorkerRead(t) \/ WorkerWrite(t) => x = wpkt[t].ctxt /\ UNCHANGED <<port, sock, list>>
    BY <2>3 DEF WorkerRead, WorkerWrite
  <2>. QED
    BY <1>5, <2>1, <2>2, <2>4, <2>5, <2>6, IoOfIs
<1>8. CtrlEvent \/ CtrlHandler => UNCHANGED pend
  BY CtrlFrame DEF kernel
<1>9. ASSUME NEW c \in Conns, Kernel(c) \/ Client(c) PROVE FALSE
  <2>1. CompleteRecv(c) \/ CompleteSend(c) =>
          pend' = [pend EXCEPT ![c] = Idle] \/ pend' = [pend EXCEPT ![Listen] = Idle]
    BY DEF CompleteRecv, CompleteSend, Received, Completed
  <2>. QED
    BY <1>2, <1>3, <1>9, <2>1, KernelFrame
<1>10. UNCHANGED vars => UNCHANGED pend
  BY DEF vars, kernel
<1>. QED
  BY <1>2, <1>6, <1>7, <1>8, <1>9, <1>10 DEF Next

\* Who changes the PER_IO_CONTEXT of x.
LEMMA IoMoves ==
  ASSUME IInv, [Next]_vars, NEW x \in Ctxts, io'[x] # io[x]
  PROVE  \/ MainCreateAcceptSocket /\ x = Listen /\ io'[x] = FreshIo("ClientIoAccept")
         \/ \E t \in Threads :
              /\ IoOf(t)
              /\ \/ WorkerAccept(t) /\ wpkt[t].ok /\ x = SocketAccept /\ io'[x] = FreshIo("ClientIoAccept")
                 \/ WorkerFirst(t) /\ x = SocketAccept
                 \/ (WorkerRead(t) \/ WorkerWrite(t)) /\ x = wpkt[t].ctxt
         \/ \E c \in Conns : /\ CompleteRecv(c)
                             /\ (x = c /\ pend[c].op = "recv") \/ (x = Listen /\ InKernel(Listen))
                             /\ io'[x].IOOperation = io[x].IOOperation
<1>1. io \in [Ctxts -> IoContext]
  BY IInvTypes DEF TypeIo
<1>2. CASE Main
  <2>1. MainCreateAcceptSocket
    BY <1>2, MainFrame
  <2>2. io' = io \/ io' = [io EXCEPT ![Listen] = FreshIo("ClientIoAccept")]
    BY <2>1 DEF MainCreateAcceptSocket
  <2>. QED
    BY <1>1, <2>1, <2>2
<1>3. ASSUME NEW t \in Threads, Worker(t)
      PROVE  /\ IoOf(t)
             /\ \/ WorkerAccept(t) /\ wpkt[t].ok /\ x = SocketAccept /\ io'[x] = FreshIo("ClientIoAccept")
                \/ WorkerFirst(t) /\ x = SocketAccept
                \/ (WorkerRead(t) \/ WorkerWrite(t)) /\ x = wpkt[t].ctxt
  <2>1. IoOf(t)
    BY <1>3, Freed, WorkerFrame DEF memory, IInv, WorkerGet, WorkerCheck
  <2>2. ~WorkerRepost(t) /\ ~WorkerDropped(t)
    BY DEF WorkerRepost, WorkerDropped, memory
  <2>3. WorkerAccept(t) => wpkt[t].ok /\ x = SocketAccept /\ io'[x] = FreshIo("ClientIoAccept")
    BY <1>1 DEF WorkerAccept
  <2>4. WorkerFirst(t) => x = SocketAccept
    BY <1>1 DEF WorkerFirst
  <2>5. WorkerRead(t) \/ WorkerWrite(t) => x = wpkt[t].ctxt
    BY <1>1 DEF WorkerRead, WorkerWrite
  <2>. QED
    BY <2>1, <2>2, <2>3, <2>4, <2>5, IoOfIs
<1>4. CtrlEvent \/ CtrlHandler => UNCHANGED io
  BY CtrlFrame DEF memory
<1>5. ASSUME NEW c \in Conns, Kernel(c) \/ Client(c)
      PROVE  /\ CompleteRecv(c)
             /\ (x = c /\ pend[c].op = "recv") \/ (x = Listen /\ InKernel(Listen))
             /\ io'[x].IOOperation = io[x].IOOperation
  <2>1. CompleteRecv(c)
    BY <1>5, KernelFrame
  <2>2. ASSUME NEW y, Received(y, c) PROVE x = y /\ io'[x].IOOperation = io[x].IOOperation
    <3>1. CASE io' = io
      BY <3>1
    <3>2. ASSUME NEW b, io' = [io EXCEPT ![y].Buffer = b]
          PROVE  x = y /\ io'[x].IOOperation = io[x].IOOperation
      BY <1>1, <3>2 DEF IoContext
    <3>3. ASSUME NEW n, io' = [io EXCEPT ![y].Buffer =
                     [i \in 1..MAX_BUFF_SIZE |-> IF i <= n THEN Byte(conn[c].nrecvd + i) ELSE @[i]]]
          PROVE  \E b : io' = [io EXCEPT ![y].Buffer = b]
      BY <3>3
    <3>. QED
      BY <2>2, <3>1, <3>2, <3>3 DEF Received
  <2>. QED
    BY <2>1, <2>2 DEF CompleteRecv, InKernel
<1>6. UNCHANGED vars => UNCHANGED io
  BY DEF vars, memory
<1>. QED
  BY <1>2, <1>3, <1>4, <1>5, <1>6 DEF Next

LEMMA ConnMoves ==
  ASSUME IInv, [Next]_vars, NEW c \in Conns, conn'[c] # conn[c]
  PROVE  CompleteRecv(c) \/ CompleteSend(c) \/ ClientSend(c) \/ ClientClose(c)
<1>1. conn \in [Conns -> Connection]
  BY IInvTypes DEF TypeConn
<1>2. Main => UNCHANGED conn
  BY MainFrame
<1>3. ASSUME NEW t \in Threads, Worker(t) PROVE UNCHANGED conn
  BY <1>3, WorkerFrame DEF IInv
<1>4. CtrlEvent \/ CtrlHandler => UNCHANGED conn
  BY CtrlFrame
<1>5. ASSUME NEW d \in Conns, Kernel(d) \/ Client(d)
      PROVE  d = c /\ (CompleteRecv(c) \/ CompleteSend(c) \/ ClientSend(c) \/ ClientClose(c))
  <2>1. ASSUME NEW y, Received(y, d) PROVE d = c
    BY <1>1, <2>1 DEF Received
  <2>2. CompleteRecv(d) => d = c
    BY <2>1 DEF CompleteRecv
  <2>3. CompleteSend(d) \/ ClientSend(d) \/ ClientClose(d) => d = c
    BY <1>1 DEF CompleteSend, ClientSend, ClientClose
  <2>4. ~AcceptConnect(d) /\ ~Connect(d)
    BY DEF AcceptConnect, Connect
  <2>. QED
    BY <1>5, <2>2, <2>3, <2>4 DEF Kernel, Client
<1>6. UNCHANGED vars => UNCHANGED conn
  BY DEF vars
<1>. QED
  BY <1>2, <1>3, <1>4, <1>5, <1>6 DEF Next

\* Closing the client x: the context goes, nothing is pending.
LEMMA ClosedClient ==
  ASSUME IInv, NEW d, CloseClient(d), NEW c \in Conns, sock'[c] # sock[c]
  PROVE  c = d /\ sock'[c] = "closed" /\ c \in list.live /\ c \notin list'.live /\ ~InKernel(c)'
<1>1. sock \in [Conns -> {"none", "backlog", "open", "closed"}] /\ pend \in [Ctxts -> Operation]
      /\ list \in List /\ TypeOK
  BY IInvTypes DEF TypeSock, TypePend, TypeList, IInv
<1>2. d \in list.live
  BY DEF CloseClient
<1>3. c = d /\ sock'[c] = "closed" /\ d \in Ctxts
  BY <1>1, <1>2 DEF CloseClient, List
<1>4. list'.live = list.live \ {d}
  BY <1>1, <1>3, CloseClientDoes DEF Pointer
<1>5. pend'[c] = Idle \/ (pend'[c] = pend[c] /\ pend[c].op = "none")
  BY <1>1, <1>2, <1>3 DEF CloseClient, Cancelled, Completed
<1>6. ~InKernel(c)'
  BY <1>5 DEF InKernel, Idle
<1>. QED
  BY <1>2, <1>3, <1>4, <1>6

LEMMA SockMoves ==
  ASSUME IInv, [Next]_vars, NEW c \in Conns, sock'[c] # sock[c]
  PROVE  \/ /\ sock'[c] = "closed" /\ c \in list.live /\ c \notin list'.live /\ ~InKernel(c)'
            /\ \/ CtxtListFreeStep
               \/ \E t \in Threads :
                    /\ IoOf(t)
                    /\ \/ WorkerFirst(t) /\ c = SocketAccept
                       \/ (WorkerDropped(t) \/ WorkerRead(t) \/ WorkerWrite(t)) /\ c = wpkt[t].ctxt
         \/ /\ sock'[c] = "closed" /\ MainFreeListen /\ c = SocketAccept /\ g_pCtxtListenSocket # NULL
         \/ sock'[c] = "closed" /\ MainCloseListen /\ sock[c] = "backlog"
         \/ AcceptConnect(c) /\ sock[c] = "backlog" /\ sock'[c] = "open"
         \/ Connect(c) /\ sock[c] = "none" /\ sock'[c] = "backlog"
<1>1. sock \in [Conns -> {"none", "backlog", "open", "closed"}]
  BY IInvTypes DEF TypeSock
<1>2. UNCHANGED sock => FALSE
  OBVIOUS
<1>3. CASE Main
  <2>1. MainCloseListen => sock'[c] = "closed" /\ sock[c] = "backlog"
    BY DEF MainCloseListen
  <2>2. MainFreeListen => sock'[c] = "closed" /\ c = SocketAccept /\ g_pCtxtListenSocket # NULL
    BY DEF MainFreeListen, LeftAccepted
  <2>3. CtxtListFreeStep => sock'[c] = "closed" /\ c \in list.live /\ c \notin list'.live /\ ~InKernel(c)'
    BY ClosedClient DEF CtxtListFreeStep
  <2>. QED
    BY <1>2, <1>3, <2>1, <2>2, <2>3, MainKernel DEF kernel
<1>4. ASSUME NEW t \in Threads, Worker(t)
      PROVE  /\ sock'[c] = "closed" /\ c \in list.live /\ c \notin list'.live /\ ~InKernel(c)'
             /\ IoOf(t)
             /\ \/ WorkerFirst(t) /\ c = SocketAccept
                \/ (WorkerDropped(t) \/ WorkerRead(t) \/ WorkerWrite(t)) /\ c = wpkt[t].ctxt
  <2>1. IoOf(t)
    BY <1>2, <1>4, Freed, WorkerFrame DEF kernel, IInv, WorkerGet, WorkerCheck
  <2>2. \/ WorkerFirst(t) /\ CloseClient(SocketAccept)
        \/ (WorkerDropped(t) \/ WorkerRead(t) \/ WorkerWrite(t)) /\ CloseClient(wpkt[t].ctxt)
    BY <1>2, <2>1, WorkerKernel DEF IoOf
  <2>. QED
    BY <2>1, <2>2, ClosedClient
<1>5. CtrlEvent \/ CtrlHandler => UNCHANGED sock
  BY CtrlFrame DEF kernel
<1>6. ASSUME NEW d \in Conns, Kernel(d) \/ Client(d)
      PROVE  \/ AcceptConnect(c) /\ sock[c] = "backlog" /\ sock'[c] = "open"
             \/ Connect(c) /\ sock[c] = "none" /\ sock'[c] = "backlog"
  <2>1. AcceptConnect(d) \/ Connect(d)
    BY <1>2, <1>6, KernelFrame
  <2>2. d = c
    BY <1>1, <2>1 DEF AcceptConnect, Connect
  <2>. QED
    BY <1>1, <2>1, <2>2 DEF AcceptConnect, Connect
<1>7. UNCHANGED vars => UNCHANGED sock
  BY DEF vars, kernel
<1>. QED
  BY <1>2, <1>3, <1>4, <1>5, <1>6, <1>7 DEF Next

LEMMA SocketAcceptMoves ==
  ASSUME IInv, [Next]_vars, SocketAccept' # SocketAccept
  PROVE  \/ MainCreateAcceptSocket /\ SocketAccept' \in {Listen, NULL} /\ SocketAccept' \notin Conns
         \/ MainFreeListen /\ SocketAccept' = NULL /\ SocketAccept' \notin Conns
         \/ \E t \in Threads : IoOf(t) /\ WorkerRepost(t) /\ SocketAccept' \in {Listen, NULL} /\ SocketAccept' \notin Conns
         \/ \E c \in Conns : AcceptConnect(c) /\ SocketAccept' = c /\ InKernel(Listen)
<1>1. CASE Main
  BY <1>1, MainFrame, ListenIsNone DEF MainCreateAcceptSocket, MainFreeListen
<1>2. ASSUME NEW t \in Threads, Worker(t)
      PROVE  IoOf(t) /\ WorkerRepost(t) /\ SocketAccept' \in {Listen, NULL} /\ SocketAccept' \notin Conns
  <2>1. IoOf(t)
    BY <1>2, Freed, WorkerFrame DEF globals, IInv, WorkerGet, WorkerCheck
  <2>2. WorkerRepost(t)
    BY <2>1, IoOfIs DEF WorkerAccept, WorkerFirst, WorkerDropped, WorkerRead, WorkerWrite, globals
  <2>. QED
    BY <2>1, <2>2, ListenIsNone DEF WorkerRepost
<1>3. CtrlEvent \/ CtrlHandler => UNCHANGED SocketAccept
  BY CtrlFrame DEF globals
<1>4. ASSUME NEW c \in Conns, Kernel(c) \/ Client(c)
      PROVE  AcceptConnect(c) /\ SocketAccept' = c /\ InKernel(Listen)
  BY <1>4, KernelFrame DEF AcceptConnect, InKernel
<1>5. UNCHANGED vars => UNCHANGED SocketAccept
  BY DEF vars, globals
<1>. QED
  BY <1>1, <1>2, <1>3, <1>4, <1>5 DEF Next

LEMMA LiveMoves ==
  ASSUME IInv, [Next]_vars, NEW x \in Ctxts, x \in list'.live, x \notin list.live
  PROVE  \/ MainCreateAcceptSocket /\ x = Listen /\ g_pCtxtListenSocket' = Listen
         \/ \E t \in Threads : /\ IoOf(t) /\ WorkerAccept(t) /\ wpkt[t].ok /\ x = SocketAccept
                               /\ wpc'[t] = "first"
<1>1. list \in List /\ TypeOK /\ TypeWorker /\ TypeHandles /\ TypeList
  BY IInvTypes DEF IInv, TypeList
<1>2. ASSUME NEW d \in Pointer, CloseClient(d) PROVE FALSE
  BY <1>1, <1>2, CloseClientDoes
<1>3. ASSUME NEW y \in Ctxts, Updated(y) PROVE x = y
  <2>1. UseAfterFree(list).live = list.live /\ NewContext(y) \in List
        /\ NewContext(y).live = list.live \cup {y}
    BY <1>1, UseAfterFreeType, CtxtAllocateType DEF NewContext
  <2>2. Listed(y).live = list.live \cup {y}
    BY <2>1, CtxtListAddToType DEF Listed
  <2>. QED
    BY <1>3, <2>1, <2>2 DEF Updated
<1>4. UNCHANGED list => FALSE
  OBVIOUS
<1>5. CASE Main
  <2>1. MainCreateAcceptSocket => x = Listen /\ g_pCtxtListenSocket' = Listen
    BY <1>3, <1>4, ListenIsNone DEF MainCreateAcceptSocket
  <2>2. ~MainFreeListen
    BY <1>1, <1>4 DEF MainFreeListen, List
  <2>3. ~CtxtListFreeStep
    BY <1>1, <1>2 DEF CtxtListFreeStep, TypeList
  <2>. QED
    BY <1>4, <1>5, <2>1, <2>2, <2>3 DEF Main, MainTest, MainClearRestart, MainClearEnd, MainResetEvent,
       MainCreateThreads, CreateListenSocket, MainServe, MainFinally, MainPost, MainJoin,
       MainCloseListen, CtxtListFreeEnter, CtxtListFreeLeave, MainClosePort, memory
<1>6. ASSUME NEW t \in Threads, Worker(t)
      PROVE  /\ IoOf(t) /\ WorkerAccept(t) /\ wpkt[t].ok /\ x = SocketAccept
             /\ wpc'[t] = "first"
  <2>1. IoOf(t)
    BY <1>4, <1>6, Freed, WorkerFrame DEF memory, IInv, WorkerGet, WorkerCheck
  <2>2. ~WorkerRepost(t)
    BY <1>4 DEF WorkerRepost, memory
  <2>3. WorkerAccept(t)
    BY <1>2, <1>4, <2>1, <2>2, WorkerKernel, IoOfIs, Pointers DEF IoOf
  <2>4. wpkt[t].ok /\ Updated(SocketAccept) /\ wpc'[t] = "first"
    BY <1>1, <1>4, <2>3 DEF WorkerAccept, TypeWorker
  <2>5. wpkt[t].ctxt = Listen
    BY <2>1, <2>3, IoOfIs, AtIo DEF WorkerAccept, IsNew
  <2>6. SocketAccept \in Ctxts
    BY <2>1, <2>4, <2>5, IoOfIs, HasAccept DEF Conns
  <2>. QED
    BY <1>3, <2>1, <2>3, <2>4, <2>6
<1>7. CtrlEvent \/ CtrlHandler => UNCHANGED list
  BY CtrlFrame DEF memory
<1>8. ASSUME NEW d \in Conns, Kernel(d) \/ Client(d) PROVE UNCHANGED list
  BY <1>8, KernelFrame
<1>9. UNCHANGED vars => UNCHANGED list
  BY DEF vars, memory
<1>. QED
  BY <1>4, <1>5, <1>6, <1>7, <1>8, <1>9 DEF Next

\* The moves of a worker.
LEMMA WpcMoves ==
  ASSUME IInv, [Next]_vars, NEW t \in Threads, wpc'[t] # wpc[t]
  PROVE  \/ MainCreateThreads /\ t[1] = run /\ wpc'[t] = "gqcs"
         \/ WorkerGet(t) /\ wpc[t] = "gqcs"
            /\ wpc'[t] = IF wpkt'[t].ctxt = NULL THEN "exit" ELSE "got"
         \/ WorkerCheck(t) /\ wpc[t] = "got" /\ wpc'[t] = IF g_bEndServer THEN "exit" ELSE "io"
         \/ IoOf(t) /\ WorkerAccept(t) /\ wpc[t] = "io" /\ wpc'[t] = "first" /\ wpkt[t].ok /\ CanLock(t)
         \/ IoOf(t) /\ WorkerAccept(t) /\ wpc[t] = "io" /\ wpc'[t] = "exit" /\ g_hCleanupEvent'
         \/ IoOf(t) /\ WorkerFirst(t) /\ wpc[t] = "first" /\ wpc'[t] = "repost"
         \/ IoOf(t) /\ WorkerRepost(t) /\ wpc[t] = "repost" /\ wpc'[t] \in {"gqcs", "exit"}
         \/ /\ IoOf(t) /\ wpc[t] = "io" /\ wpc'[t] = "gqcs"
            /\ WorkerDropped(t) \/ WorkerRead(t) \/ WorkerWrite(t)
<1>1. wpc \in [Threads -> WorkerSteps]
  BY IInvTypes DEF TypeWorker
<1>2. CASE Main
  <2>1. MainCreateThreads
    BY <1>2, MainFrame
  <2>. QED
    BY <1>1, <2>1 DEF MainCreateThreads
<1>3. ASSUME NEW u \in Threads, Worker(u) PROVE u = t
  BY <1>3, WorkerFrame DEF IInv
<1>4. CASE Worker(t)
  <2>1. CASE WorkerGet(t)
    BY <1>1, <2>1 DEF WorkerGet
  <2>2. CASE WorkerCheck(t)
    BY <1>1, <2>2 DEF WorkerCheck
  <2>3. CASE ~WorkerGet(t) /\ ~WorkerCheck(t)
    <3>1. IoOf(t)
      BY <1>4, <2>3, Freed DEF worker
    <3>2. WorkerAccept(t) => /\ wpc[t] = "io"
                             /\ (wpc'[t] = "first" /\ wpkt[t].ok /\ CanLock(t)) \/ (wpc'[t] = "exit" /\ g_hCleanupEvent')
      BY <1>1 DEF WorkerAccept
    <3>3. WorkerFirst(t) => wpc[t] = "first" /\ wpc'[t] = "repost"
      BY <1>1 DEF WorkerFirst
    <3>4. WorkerRepost(t) => wpc[t] = "repost" /\ wpc'[t] \in {"gqcs", "exit"}
      BY <1>1 DEF WorkerRepost
    <3>5. WorkerDropped(t) \/ WorkerRead(t) \/ WorkerWrite(t) => wpc[t] = "io" /\ wpc'[t] = "gqcs"
      BY <1>1 DEF WorkerDropped, WorkerRead, WorkerWrite
    <3>. QED
      BY <3>1, <3>2, <3>3, <3>4, <3>5, IoOfIs
  <2>. QED
    BY <2>1, <2>2, <2>3
<1>5. CtrlEvent \/ CtrlHandler => UNCHANGED wpc
  BY CtrlFrame DEF worker
<1>6. ASSUME NEW c \in Conns, Kernel(c) \/ Client(c) PROVE UNCHANGED wpc
  BY <1>6, KernelFrame DEF worker
<1>7. UNCHANGED vars => UNCHANGED wpc
  BY DEF vars, worker
<1>. QED
  BY <1>2, <1>3, <1>4, <1>5, <1>6, <1>7 DEF Next

\* A packet is taken from the head of the port, or the last one is used again.
LEMMA WpktMoves ==
  ASSUME IInv, [Next]_vars, NEW t \in Threads, wpkt'[t] # wpkt[t]
  PROVE  /\ WorkerGet(t) /\ wpc[t] = "gqcs" /\ wpc'[t] \in {"exit", "got"}
         /\ \/ wpkt'[t].ctxt = wpkt[t].ctxt /\ ~wpkt'[t].ok
            \/ /\ 1 \in DOMAIN port[t[1]] /\ wpkt'[t] = port[t[1]][1]
               /\ port' = [port EXCEPT ![t[1]] = Tail(@)]
<1>1. wpkt \in [Threads -> Packet] /\ wpc \in [Threads -> WorkerSteps]
  BY IInvTypes DEF TypeWorker
<1>2. Main => UNCHANGED wpkt
  BY MainFrame
<1>3. ASSUME NEW u \in Threads, Worker(u) PROVE u = t /\ WorkerGet(t)
  BY <1>3, WorkerFrame DEF IInv
<1>4. CtrlEvent \/ CtrlHandler => UNCHANGED wpkt
  BY CtrlFrame DEF worker
<1>5. ASSUME NEW c \in Conns, Kernel(c) \/ Client(c) PROVE UNCHANGED wpkt
  BY <1>5, KernelFrame DEF worker
<1>6. UNCHANGED vars => UNCHANGED wpkt
  BY DEF vars, worker
<1>7. WorkerGet(t)
  BY <1>2, <1>3, <1>4, <1>5, <1>6 DEF Next
<1>8. wpc[t] = "gqcs" /\ wpc'[t] \in {"exit", "got"}
  BY <1>1, <1>7 DEF WorkerGet
<1>9. CASE wpkt' = [wpkt EXCEPT ![t].ok = FALSE]
  BY <1>1, <1>7, <1>8, <1>9 DEF Packet
<1>10. CASE /\ port[t[1]] # <<>> /\ wpkt' = [wpkt EXCEPT ![t] = Head(port[t[1]])]
            /\ port' = [port EXCEPT ![t[1]] = Tail(@)]
  <2>1. t[1] \in Runs
    BY DEF Threads
  <2>2. port[t[1]] \in Seq(Packet)
    BY <2>1, IInvTypes DEF TypePort
  <2>3. 1 \in DOMAIN port[t[1]] /\ Head(port[t[1]]) = port[t[1]][1]
    BY <1>10, <2>2
  <2>. QED
    BY <1>1, <1>7, <1>8, <1>10, <2>3
<1>. QED
  BY <1>7, <1>9, <1>10 DEF WorkerGet

\* Only the steps of main move main, and only the reset begins a new pass.
LEMMA PassMoves ==
  ASSUME IInv, [Next]_vars
  PROVE  /\ mpc' # mpc => Main
         /\ run' # run => MainResetEvent
         /\ g_pCtxtListenSocket' # g_pCtxtListenSocket => MainCreateAcceptSocket \/ MainFreeListen
         /\ \A x \in Ctxts : key'[x] # key[x] =>
              \/ MainCreateAcceptSocket /\ key'[x] = g_hIOCP
              \/ \E t \in Threads : IoOf(t) /\ WorkerAccept(t) /\ wpkt[t].ok /\ x = SocketAccept /\ key'[x] = g_hIOCP
<1>1. CASE Main
  <2>1. key \in [Ctxts -> Runs \cup {INVALID}]
    BY IInvTypes DEF TypeIo
  <2>2. MainCreateAcceptSocket => key' \in {key, [key EXCEPT ![Listen] = g_hIOCP]}
    BY DEF MainCreateAcceptSocket, Updated
  <2>3. \A x \in Ctxts : key'[x] # key[x] => MainCreateAcceptSocket /\ key'[x] = g_hIOCP
    BY <1>1, <2>1, <2>2, MainFrame
  <2>. QED
    BY <1>1, <2>3, MainFrame
<1>2. ASSUME NEW t \in Threads, Worker(t)
      PROVE  /\ UNCHANGED <<mpc, run, g_pCtxtListenSocket>>
             /\ \A x \in Ctxts : key'[x] # key[x] =>
                  IoOf(t) /\ WorkerAccept(t) /\ wpkt[t].ok /\ x = SocketAccept /\ key'[x] = g_hIOCP
  <2>1. key \in [Ctxts -> Runs \cup {INVALID}]
    BY IInvTypes DEF TypeIo
  <2>2. UNCHANGED key \/ IoOf(t)
    BY <1>2, Freed DEF kernel, WorkerGet, WorkerCheck
  <2>3. IoOf(t) => UNCHANGED key \/ WorkerAccept(t)
    BY IoOfIs DEF WorkerFirst, WorkerRepost, WorkerDropped, WorkerRead, WorkerWrite
  <2>4. WorkerAccept(t) => UNCHANGED key \/ (wpkt[t].ok /\ key' = [key EXCEPT ![SocketAccept] = g_hIOCP])
    BY DEF WorkerAccept, Updated
  <2>5. UNCHANGED <<mpc, run, g_pCtxtListenSocket>>
    BY <1>2, WorkerFrame DEF IInv, main
  <2>. QED
    BY <2>1, <2>2, <2>3, <2>4, <2>5
<1>3. CtrlEvent \/ CtrlHandler => UNCHANGED <<mpc, run, g_pCtxtListenSocket, key>>
  BY CtrlFrame DEF main, globals, kernel
<1>4. ASSUME NEW c \in Conns, Kernel(c) \/ Client(c) PROVE UNCHANGED <<mpc, run, g_pCtxtListenSocket, key>>
  BY <1>4, KernelFrame DEF main
<1>5. UNCHANGED vars => UNCHANGED <<mpc, run, g_pCtxtListenSocket, key>>
  BY DEF vars, main, globals, kernel
<1>. QED
  BY <1>1, <1>2, <1>3, <1>4, <1>5 DEF Next

\* The steps of main that change neither a context, a packet nor a worker.
QuietMain == \/ MainTest \/ MainClearRestart \/ MainClearEnd \/ CreateListenSocket \/ MainServe
             \/ MainFinally \/ MainJoin \/ CtxtListFreeEnter \/ CtxtListFreeLeave

LEMMA MainMovesOn ==
  ASSUME Main, mpc' # mpc
  PROVE  \/ MainTest /\ mpc = "test" /\ mpc' \in {"clearRestart", "done"}
         \/ MainClearRestart /\ mpc = "clearRestart" /\ mpc' = "clearEnd"
         \/ MainClearEnd /\ mpc = "clearEnd" /\ mpc' = "reset"
         \/ MainResetEvent /\ mpc = "reset" /\ mpc' = "threads"
         \/ MainCreateThreads /\ mpc = "threads" /\ mpc' \in {"listen", "finally"}
         \/ CreateListenSocket /\ mpc = "listen" /\ mpc' \in {"accept", "finally"}
         \/ MainCreateAcceptSocket /\ mpc = "accept" /\ mpc' \in {"serve", "finally"}
         \/ MainServe /\ mpc = "serve" /\ mpc' = "finally"
         \/ MainFinally /\ mpc = "finally" /\ mpc' = "post"
         \/ MainPost /\ mpc = "post" /\ mpc' = "join"
         \/ MainJoin /\ mpc = "join" /\ mpc' = "closeListen"
         \/ MainCloseListen /\ mpc = "closeListen" /\ mpc' = "freeListen"
         \/ MainFreeListen /\ mpc = "freeListen" /\ mpc' = "free"
         \/ CtxtListFreeEnter /\ mpc = "free" /\ mpc' = "walk"
         \/ CtxtListFreeLeave /\ mpc = "walk" /\ mpc' = "closePort"
         \/ MainClosePort /\ mpc = "closePort" /\ mpc' = "test"
BY DEF Main, MainTest, MainClearRestart, MainClearEnd, MainResetEvent, MainCreateThreads,
   CreateListenSocket, MainCreateAcceptSocket, MainServe, MainFinally, MainPost, MainJoin,
   MainCloseListen, MainFreeListen, CtxtListFreeEnter, CtxtListFreeStep, CtxtListFreeLeave,
   MainClosePort

\* When the listening context exists.
LEMMA ListenWhen ==
  ASSUME IInv
  PROVE  /\ g_pCtxtListenSocket \in {Listen, NULL}
         /\ g_pCtxtListenSocket # NULL <=> g_pCtxtListenSocket = Listen
         /\ g_pCtxtListenSocket # NULL => mpc \in {"serve", "finally", "post", "join", "closeListen", "freeListen"}
         /\ InKernel(Listen) => g_pCtxtListenSocket = Listen /\ key[Listen] = run /\ run \in Runs
<1>1. g_pCtxtListenSocket \in {Listen, NULL}
  BY DEF IInv, TypeOK
<1>2. ListenContext
  BY DEF IInv, Control
<1>3. mpc \in {"serve", "finally", "post", "join", "closeListen", "freeListen"} => run \in Runs
  BY RunIsRun DEF Busy
<1>. QED
  BY <1>1, <1>2, <1>3, ListenIsNone DEF ListenContext

\* A worker that handles an accept has the listening context of the pass.
LEMMA AcceptHandler ==
  ASSUME IInv, NEW t \in Threads, IoOf(t), WorkerAccept(t) \/ WorkerFirst(t) \/ WorkerRepost(t)
  PROVE  /\ wpkt[t].ctxt = Listen /\ t[1] = run /\ g_pCtxtListenSocket = Listen
         /\ wpkt[t].ok \/ WorkerAccept(t)
         /\ wpkt[t].ok => /\ SocketAccept \in Conns /\ WithWorker(Listen, t) /\ ~InKernel(Listen)
                          /\ \A r \in Runs : \A i \in DOMAIN port[r] : ~OnPort(Listen, r, i)
                          /\ \A u \in Threads : WithWorker(Listen, u) => u = t
                          /\ \A u \in Threads : u[1] = run /\ wpc[u] \in {"first", "repost"} => u = t
         /\ wpkt[t].ok /\ ~WorkerRepost(t) =>
              /\ IsNew(SocketAccept) /\ Unseen(SocketAccept) /\ sock[SocketAccept] = "open"
              /\ conn[SocketAccept].echoed = <<>>
              /\ FirstData(SocketAccept, wpkt[t].size)
<1>1. wpc[t] \in {"io", "first", "repost"} /\ Allocated(t)
  BY IoOfIs
<1>2. wpkt[t].ctxt = Listen
  <2>1. CASE WorkerAccept(t)
    BY <1>1, <2>1, AtIo DEF WorkerAccept, IsNew
  <2>2. CASE wpc[t] \in {"first", "repost"}
    BY <2>2 DEF IInv, Control, WorkerPackets
  <2>. QED
    BY <2>1, <2>2 DEF WorkerFirst, WorkerRepost
<1>3. wpkt[t].ok \/ WorkerAccept(t)
  BY DEF WorkerFirst, WorkerRepost, IInv, Control, WorkerPackets
<1>4. t[1] = run /\ g_pCtxtListenSocket = Listen
  BY <1>1, <1>2, AtIo
<1>5. ~WorkerRepost(t) => wpc[t] # "repost"
  BY DEF WorkerAccept, WorkerFirst
<1>6. wpkt[t].ok => /\ SocketAccept \in Conns /\ WithWorker(Listen, t)
                    /\ \A u \in Threads : u[1] = run /\ wpc[u] \in {"first", "repost"} => u = t
                    /\ wpc[t] # "repost" =>
                       /\ IsNew(SocketAccept) /\ Unseen(SocketAccept) /\ sock[SocketAccept] = "open"
                       /\ conn[SocketAccept].echoed = <<>>
                       /\ FirstData(SocketAccept, wpkt[t].size)
  BY <1>1, <1>2, HasAccept
<1>7. WithWorker(Listen, t) => /\ ~InKernel(Listen)
                               /\ \A r \in Runs : \A i \in DOMAIN port[r] : ~OnPort(Listen, r, i)
                               /\ \A u \in Threads : WithWorker(Listen, u) => u = t
  BY OnlyListener
<1>. QED
  BY <1>2, <1>3, <1>4, <1>5, <1>6, <1>7

\* A worker that handles a read or a write has a connection that is set up.
LEMMA ConnHandler ==
  ASSUME IInv, NEW t \in Threads, IoOf(t), WorkerDropped(t) \/ WorkerRead(t) \/ WorkerWrite(t)
  PROVE  /\ wpkt[t].ctxt \in Conns /\ wpkt[t].ctxt # Listen /\ wpc[t] = "io"
         /\ ~IsNew(wpkt[t].ctxt) /\ sock[wpkt[t].ctxt] = "open" /\ wpkt[t].ctxt \in list.live
<1>1. wpc[t] \in {"io", "first", "repost"} /\ Allocated(t)
  BY IoOfIs
<1>2. io[wpkt[t].ctxt].IOOperation # "ClientIoAccept"
  BY DEF WorkerDropped, WorkerRead, WorkerWrite
<1>. QED
  BY <1>1, <1>2, AtIo

-----------------------------------------------------------------------------
(* What is on the ports *)

NoShift == [r \in Runs |-> 0]
\* The operation on x ends in this step, and when successfully by whom.
Ends(x) == InKernel(x) /\ pend'[x].op = "none"
Succeeds(x) == IF x = Listen THEN CompleteRecv(SocketAccept) /\ SocketAccept \in Conns
                             ELSE CompleteRecv(x) \/ CompleteSend(x)
PacketsFrom(s) ==
    \A r \in Runs : \A i \in DOMAIN port'[r] :
        \/ i + s[r] \in DOMAIN port[r] /\ port'[r][i] = port[r][i + s[r]]
        \/ port'[r][i].ctxt = NULL /\ MainPost /\ r = g_hIOCP
        \/ \E x \in Ctxts : /\ Ends(x) /\ port'[r][i].ctxt = x /\ (port'[r][i].ok => Succeeds(x))
                           /\ r = key[x] /\ i = Len(port[r]) + 1

LEMMA FromUnchanged ==
  ASSUME IInv,
         \A r \in Runs : \A i \in DOMAIN port'[r] :
           \/ i \in DOMAIN port[r] /\ port'[r][i] = port[r][i]
           \/ port'[r][i].ctxt = NULL /\ MainPost /\ r = g_hIOCP
           \/ \E x \in Ctxts : /\ Ends(x) /\ port'[r][i].ctxt = x /\ (port'[r][i].ok => Succeeds(x))
                              /\ r = key[x] /\ i = Len(port[r]) + 1
  PROVE  NoShift \in [Runs -> 0..1] /\ PacketsFrom(NoShift)
<1>1. \A r \in Runs : NoShift[r] = 0 /\ DOMAIN port[r] \subseteq Int
  BY IInvTypes DEF NoShift, TypePort
<1>2. ASSUME NEW r \in Runs, NEW i \in DOMAIN port[r] PROVE i + NoShift[r] = i
  BY <1>1, <1>2
<1>3. NoShift \in [Runs -> 0..1]
  BY DEF NoShift
<1>. QED
  BY <1>2, <1>3 DEF PacketsFrom

LEMMA FromCompleted ==
  ASSUME IInv, NEW d \in Ctxts, NEW n, NEW ok \in BOOLEAN, Completed(d, n, ok), InKernel(d),
         ok => Succeeds(d)
  PROVE  NoShift \in [Runs -> 0..1] /\ PacketsFrom(NoShift)
<1>1. pend \in [Ctxts -> Operation] /\ port \in [Runs -> Seq(Packet)]
  BY IInvTypes DEF TypePend, TypePort
<1>2. Ends(d)
  BY <1>1 DEF Completed, Ends, Idle
<1>3. ASSUME NEW r \in Runs, NEW i \in DOMAIN port'[r]
      PROVE  \/ i \in DOMAIN port[r] /\ port'[r][i] = port[r][i]
             \/ /\ port'[r][i].ctxt = d /\ (port'[r][i].ok => Succeeds(d))
                /\ r = key[d] /\ i = Len(port[r]) + 1
  <2>1. \/ i \in DOMAIN port[r] /\ port'[r][i] = port[r][i]
        \/ r = key[d] /\ i = Len(port[r]) + 1 /\ port'[r][i] = [ctxt |-> d, size |-> n, ok |-> ok]
    BY <1>1, <1>3, CompletedPackets
  <2>2. CASE r = key[d] /\ i = Len(port[r]) + 1 /\ port'[r][i] = [ctxt |-> d, size |-> n, ok |-> ok]
    <3>1. port'[r][i].ctxt = d /\ port'[r][i].ok = ok
      BY <2>2
    <3>. QED
      BY <2>2, <3>1
  <2>. QED
    BY <2>1, <2>2
<1>. QED
  BY <1>2, <1>3, FromUnchanged

LEMMA FromCloseClient ==
  ASSUME IInv, NEW d, CloseClient(d)
  PROVE  NoShift \in [Runs -> 0..1] /\ PacketsFrom(NoShift)
<1>1. CASE UNCHANGED port
  BY <1>1, FromUnchanged
<1>2. CASE d \in list.live /\ InKernel(d) /\ Completed(d, 0, FALSE)
  <2>1. d \in Ctxts
    BY <1>2, IInvTypes DEF TypeList, List
  <2>. QED
    BY <1>2, <2>1, FromCompleted
<1>. QED
  BY <1>1, <1>2 DEF CloseClient, Cancelled, InKernel

\* Every packet was there before, perhaps one place up, asks a worker of the
\* pass to exit, or reports the end of an operation and is the last.
LEMMA PacketMoves ==
  ASSUME IInv, [Next]_vars PROVE \E s \in [Runs -> 0..1] : PacketsFrom(s)
<1>1. port \in [Runs -> Seq(Packet)]
  BY IInvTypes DEF TypePort
<1>2. CASE UNCHANGED port
  BY <1>2, FromUnchanged
<1>3. CASE MainPost
  <2>1. ASSUME NEW r \in Runs, NEW i \in DOMAIN port'[r]
        PROVE  \/ i \in DOMAIN port[r] /\ port'[r][i] = port[r][i]
               \/ port'[r][i].ctxt = NULL /\ r = g_hIOCP
    <3>1. CASE port' = port
      BY <2>1, <3>1
    <3>2. CASE port' = [port EXCEPT ![g_hIOCP] = @ \o ExitPackets] /\ r # g_hIOCP
      BY <1>1, <2>1, <3>2
    <3>3. CASE port' = [port EXCEPT ![g_hIOCP] = @ \o ExitPackets] /\ r = g_hIOCP
      <4> DEFINE old == port[r]
                 new == ExitPackets
      <4>1. port'[r] = old \o new
        BY <1>1, <3>3
      <4>2. old \in Seq(Packet) /\ new \in Seq(Packet) /\ \A j \in DOMAIN new : new[j].ctxt = NULL
        <5>1. NullPacket \in Packet /\ NullPacket.ctxt = NULL
          BY ServerExAssumption DEF NullPacket, Packet, Pointer, Size
        <5>. QED
          BY <1>1, <5>1, ServerExAssumption DEF ExitPackets
      <4>. HIDE DEF old, new
      <4>3. i \in 1..(Len(old) + Len(new))
        BY <2>1, <4>1, <4>2
      <4>4. CASE i > Len(old)
        <5>1. (old \o new)[i] = new[i - Len(old)] /\ i - Len(old) \in DOMAIN new
          BY <4>2, <4>3, <4>4
        <5>. QED
          BY <3>3, <4>1, <4>2, <5>1
      <4>5. CASE i <= Len(old)
        BY <4>1, <4>2, <4>3, <4>5 DEF old
      <4>. QED
        BY <4>2, <4>3, <4>4, <4>5
    <3>. QED
      BY <1>3, <3>1, <3>2, <3>3 DEF MainPost
  <2>. QED
    BY <1>3, <2>1, FromUnchanged
<1>4. CASE MainClosePort
  <2>1. ASSUME NEW r \in Runs, NEW i \in DOMAIN port'[r]
        PROVE  i \in DOMAIN port[r] /\ port'[r][i] = port[r][i]
    <3>1. port'[r] = <<>> \/ port'[r] = port[r]
      BY <1>4 DEF MainClosePort
    <3>. QED
      BY <2>1, <3>1
  <2>. QED
    BY <2>1, FromUnchanged
<1>5. CASE MainCloseListen
  <2>1. UNCHANGED port \/ (InKernel(Listen) /\ Completed(Listen, 0, FALSE))
    BY <1>5 DEF MainCloseListen, Cancelled, InKernel
  <2>. QED
    BY <1>2, <2>1, FromCompleted, ListenIsNone
<1>6. CASE CtxtListFreeStep
  BY <1>6, FromCloseClient DEF CtxtListFreeStep
<1>7. CASE Main
  BY <1>2, <1>3, <1>4, <1>5, <1>6, <1>7, MainKernel DEF kernel
<1>8. ASSUME NEW t \in Threads, Worker(t) PROVE \E s \in [Runs -> 0..1] : PacketsFrom(s)
  <2>1. CASE WorkerGet(t) /\ port[t[1]] # <<>> /\ port' = [port EXCEPT ![t[1]] = Tail(@)]
    <3> DEFINE s == [r \in Runs |-> IF r = t[1] THEN 1 ELSE 0]
    <3>1. s \in [Runs -> 0..1]
      OBVIOUS
    <3>2. ASSUME NEW r \in Runs, NEW i \in DOMAIN port'[r]
          PROVE  i + s[r] \in DOMAIN port[r] /\ port'[r][i] = port[r][i + s[r]]
      <4>1. port[r] \in Seq(Packet)
        BY <1>1
      <4>2. CASE r = t[1]
        <5>1. port'[r] = Tail(port[r]) /\ port[r] # <<>> /\ s[r] = 1
          BY <1>1, <2>1, <4>2
        <5>. HIDE DEF s
        <5>. QED
          BY <3>2, <4>1, <5>1
      <4>3. CASE r # t[1]
        <5>1. port'[r] = port[r] /\ s[r] = 0
          BY <1>1, <2>1, <4>3
        <5>. HIDE DEF s
        <5>. QED
          BY <3>2, <4>1, <5>1
      <4>. QED
        BY <4>2, <4>3
    <3>. HIDE DEF s
    <3>. QED
      BY <3>1, <3>2 DEF PacketsFrom
  <2>2. CASE UNCHANGED port
    BY <1>2, <2>2
  <2>3. CASE IoOf(t)
    BY <1>2, <2>3, WorkerKernel, FromCloseClient DEF IoOf
  <2>. QED
    BY <1>8, <2>1, <2>2, <2>3, Freed DEF WorkerGet, WorkerCheck, kernel
<1>9. CtrlEvent \/ CtrlHandler => UNCHANGED port
  BY CtrlFrame DEF kernel
<1>10. ASSUME NEW c \in Conns, Kernel(c) \/ Client(c) PROVE \E s \in [Runs -> 0..1] : PacketsFrom(s)
  <2>1. c \in Ctxts /\ c # Listen
    BY DEF Conns
  <2>2. CASE CompleteSend(c)
    <3>1. \E n : \E ok \in BOOLEAN : Completed(c, n, ok)
      BY <2>2 DEF CompleteSend
    <3>2. InKernel(c) /\ Succeeds(c)
      BY <2>1, <2>2 DEF CompleteSend, InKernel, Succeeds
    <3>. QED
      BY <2>1, <3>1, <3>2, FromCompleted
  <2>3. CASE CompleteRecv(c)
    <3>1. \E x \in Ctxts : InKernel(x) /\ Received(x, c) /\ (x = c \/ (x = Listen /\ SocketAccept = c))
      BY <2>1, <2>3, ListenIsNone DEF CompleteRecv, InKernel
    <3>2. PICK x \in Ctxts : InKernel(x) /\ Received(x, c) /\ (x = c \/ (x = Listen /\ SocketAccept = c))
      BY <3>1
    <3>3. \E n : \E ok \in BOOLEAN : Completed(x, n, ok)
      BY <3>2 DEF Received
    <3>4. Succeeds(x)
      BY <2>1, <2>3, <3>2 DEF Succeeds
    <3>. QED
      BY <3>2, <3>3, <3>4, FromCompleted
  <2>. QED
    BY <1>2, <1>10, <2>2, <2>3, KernelFrame
<1>11. UNCHANGED vars => UNCHANGED port
  BY DEF vars, kernel
<1>. QED
  BY <1>2, <1>7, <1>8, <1>9, <1>10, <1>11 DEF Next

-----------------------------------------------------------------------------
(* The control part of the invariant *)

\* Types that the steps need, together.
LEMMA Nums ==
  ASSUME IInv
  PROVE  /\ run \in Nat /\ INVALID = 0 /\ INVALID \notin Runs
         /\ \A t \in Threads : t[1] \in Runs /\ t[1] \in Nat /\ t[2] \in 1..ThreadCount
         /\ \A x \in Ctxts : key[x] \in Runs \cup {INVALID}
         /\ g_hIOCP \in Runs \cup {INVALID}
<1>1. run \in Runs \cup {0} /\ key \in [Ctxts -> Runs \cup {INVALID}] /\ g_hIOCP \in Runs \cup {INVALID}
  BY IInvTypes DEF TypeMain, TypeIo, TypeHandles
<1>2. MaxCtrl \in Nat
  BY ServerExAssumption
<1>. QED
  BY <1>1, <1>2 DEF Runs, Threads, INVALID

LEMMA StepPasses == ASSUME IInv, [Next]_vars PROVE Passes'
<1>1. Passes
  BY DEF IInv, Control
<1>2. /\ run \in Nat /\ INVALID = 0
      /\ \A t \in Threads : t[1] \in Nat
      /\ \A x \in Ctxts : key[x] \in Nat
      /\ g_hIOCP \in Nat
  BY Nums DEF Runs
<1>3. \A t \in Threads : t[1] > run' \/ (t[1] = run' /\ mpc' = "threads") => wpc'[t] = "none"
  <2>1. ASSUME NEW t \in Threads, t[1] > run' \/ (t[1] = run' /\ mpc' = "threads")
        PROVE  wpc[t] = "none"
    <3>1. CASE MainResetEvent
      BY <1>1, <1>2, <2>1, <3>1 DEF MainResetEvent, Passes
    <3>2. CASE ~MainResetEvent
      <4>1. run' = run
        BY <3>2, PassMoves
      <4>2. mpc' = "threads" => mpc = "threads"
        BY <3>2, PassMoves, MainMovesOn
      <4>. QED
        BY <1>1, <2>1, <4>1, <4>2 DEF Passes
    <3>. QED
      BY <3>1, <3>2
  <2>2. ASSUME NEW t \in Threads, wpc[t] = "none", wpc'[t] # "none"
        PROVE  MainCreateThreads /\ t[1] = run
    BY <2>2, WpcMoves
  <2>3. MainCreateThreads => run' = run /\ mpc' # "threads" /\ mpc = "threads"
    BY DEF MainCreateThreads
  <2>4. ASSUME NEW t \in Threads, t[1] = run PROVE ~(t[1] > run)
    BY <1>2, <2>4
  <2>. QED
    BY <2>1, <2>2, <2>3, <2>4
<1>4. \A x \in Ctxts : key'[x] <= run'
  <2>1. run <= run' /\ run' \in Nat
    <3>1. CASE run' = run
      BY <1>2, <3>1
    <3>2. CASE run' = run + 1
      BY <1>2, <3>2
    <3>. QED
      BY <3>1, <3>2, PassMoves DEF MainResetEvent
  <2>2. ASSUME NEW x \in Ctxts PROVE key'[x] \in Nat /\ key'[x] <= run
    <3>1. key'[x] = key[x] \/ key'[x] = g_hIOCP
      BY PassMoves
    <3>. QED
      BY <1>1, <1>2, <3>1 DEF Passes
  <2> DEFINE r == run'
  <2>. HIDE DEF r
  <2>3. ASSUME NEW k \in Nat, k <= run PROVE k <= r
    BY <1>2, <2>1, <2>3 DEF r
  <2>. QED
    BY <2>2, <2>3 DEF r
<1>5. CASE UNCHANGED <<g_hIOCP, mpc, run>>
  BY <1>1, <1>3, <1>4, <1>5 DEF Passes
<1>6. CASE Main
  <2>1. \/ g_hIOCP' = g_hIOCP /\ run' = run /\ (mpc' = "accept" => mpc = "listen" \/ mpc = "accept")
           /\ (mpc' = "listen" => mpc = "listen")
           /\ (mpc' \in {"test", "clearRestart", "clearEnd", "reset", "threads", "done"} =>
                 mpc \in {"test", "clearRestart", "clearEnd", "reset", "threads", "done"})
        \/ MainResetEvent /\ g_hIOCP' = g_hIOCP
        \/ MainCreateThreads
        \/ MainCreateAcceptSocket
        \/ MainClosePort
    BY <1>6 DEF Main, MainTest, MainClearRestart, MainClearEnd, MainResetEvent, MainCreateThreads,
       CreateListenSocket, MainCreateAcceptSocket, MainServe, MainFinally, MainPost, MainJoin,
       MainCloseListen, MainFreeListen, CtxtListFreeEnter, CtxtListFreeStep, CtxtListFreeLeave,
       MainClosePort, globals
  <2>2. MainResetEvent => mpc = "reset" /\ mpc' = "threads"
    BY DEF MainResetEvent
  <2>3. MainCreateThreads => run' = run /\ mpc' \in {"listen", "finally"}
          /\ (g_hIOCP' = run \/ (g_hIOCP' = INVALID /\ mpc' = "finally"))
    BY DEF MainCreateThreads
  <2>4. MainCreateAcceptSocket => run' = run /\ mpc' \in {"serve", "finally"} /\ g_hIOCP' \in {g_hIOCP, INVALID}
    BY DEF MainCreateAcceptSocket, Updated, UpdateFailed
  <2>5. MainClosePort => run' = run /\ mpc' = "test" /\ g_hIOCP' = INVALID
    BY DEF MainClosePort
  <2>6. g_hIOCP' \in {INVALID, run'}
    BY <1>1, <2>1, <2>2, <2>3, <2>4, <2>5 DEF Passes
  <2>7. mpc' \in {"test", "clearRestart", "clearEnd", "reset", "threads", "done"} => g_hIOCP' = INVALID
    BY <1>1, <2>1, <2>2, <2>3, <2>4, <2>5 DEF Passes
  <2>8. mpc' \in {"listen", "accept"} => g_hIOCP' = run'
    BY <1>1, <2>1, <2>2, <2>3, <2>4, <2>5 DEF Passes
  <2>. QED
    BY <1>3, <1>4, <2>6, <2>7, <2>8 DEF Passes
<1>7. ASSUME NEW t \in Threads, Worker(t) PROVE Passes'
  <2>1. mpc' = mpc /\ run' = run
    BY <1>7, WorkerFrame DEF IInv, main
  <2>2. CASE g_hIOCP' = g_hIOCP
    BY <1>5, <2>1, <2>2
  <2>3. CASE g_hIOCP' # g_hIOCP
    <3>1. IoOf(t)
      BY <1>7, <2>3, Freed DEF WorkerGet, WorkerCheck, globals
    <3>2. WorkerAccept(t) /\ g_hIOCP' = INVALID
      BY <2>3, <3>1, IoOfIs DEF WorkerAccept, Updated, UpdateFailed, WorkerFirst, WorkerRepost,
         WorkerDropped, WorkerRead, WorkerWrite, globals
    <3>3. mpc \notin {"listen", "accept"}
      BY <3>1, <3>2, AcceptHandler, ListenWhen, ListenIsNone
    <3>. QED
      BY <1>3, <1>4, <2>1, <3>2, <3>3 DEF Passes
  <2>. QED
    BY <2>2, <2>3
<1>8. CtrlEvent \/ CtrlHandler => UNCHANGED <<g_hIOCP, mpc, run>>
  BY CtrlFrame DEF globals, main
<1>9. ASSUME NEW c \in Conns, Kernel(c) \/ Client(c) PROVE UNCHANGED <<g_hIOCP, mpc, run>>
  BY <1>9, KernelFrame DEF main
<1>10. UNCHANGED vars => UNCHANGED <<g_hIOCP, mpc, run>>
  BY DEF vars, globals, main
<1>. QED
  BY <1>5, <1>6, <1>7, <1>8, <1>9, <1>10 DEF Next

LEMMA NotYetBefore ==
  ASSUME IInv, [Next]_vars, NEW r \in Runs, NotYet(r)' PROVE NotYet(r)
<1>1. run \in Nat /\ r \in Nat
  BY Nums DEF Runs
<1>2. CASE MainResetEvent
  BY <1>1, <1>2 DEF MainResetEvent, NotYet
<1>3. CASE ~MainResetEvent
  <2>1. run' = run
    BY <1>3, PassMoves
  <2>2. mpc' \in {"threads", "listen", "accept"} => mpc \in {"threads", "listen", "accept"}
    BY <1>3, PassMoves, MainMovesOn
  <2>. QED
    BY <2>1, <2>2 DEF NotYet
<1>. QED
  BY <1>2, <1>3

LEMMA StepNoAcceptYet == ASSUME IInv, [Next]_vars PROVE NoAcceptYet'
<1> SUFFICES ASSUME NEW r \in Runs, NotYet(r)'
             PROVE  /\ \A i \in DOMAIN port'[r] : port'[r][i].ctxt # Listen
                    /\ \A t \in Threads : t[1] = r => wpkt'[t].ctxt # Listen
  BY DEF NoAcceptYet
<1>1. NotYet(r)
  BY NotYetBefore
<1>2. /\ \A i \in DOMAIN port[r] : port[r][i].ctxt # Listen
      /\ \A t \in Threads : t[1] = r => wpkt[t].ctxt # Listen
  BY <1>1 DEF IInv, Control, NoAcceptYet
<1>3. ~(r = key[Listen] /\ InKernel(Listen))
  <2>1. SUFFICES ASSUME InKernel(Listen), r = run PROVE FALSE
    BY ListenWhen
  <2>2. mpc \notin {"threads", "listen", "accept"}
    BY <2>1, ListenWhen, ListenIsNone
  <2>3. ~(r > run)
    BY <2>1, Nums
  <2>. QED
    BY <1>1, <2>1, <2>2, <2>3 DEF NotYet
<1>4. PICK s \in [Runs -> 0..1] : PacketsFrom(s)
  BY PacketMoves
<1>5. ASSUME NEW i \in DOMAIN port'[r], port'[r][i].ctxt = Listen PROVE FALSE
  BY <1>2, <1>3, <1>4, <1>5, ListenIsNone DEF PacketsFrom, Ends
<1>6. ASSUME NEW t \in Threads, t[1] = r PROVE wpkt'[t].ctxt # Listen
  BY <1>2, <1>6, WpktMoves
<1>. QED
  BY <1>5, <1>6

LEMMA StepListenContext == ASSUME IInv, [Next]_vars PROVE ListenContext'
<1>1. ListenContext /\ Passes
  BY DEF IInv, Control
<1>2. ASSUME g_pCtxtListenSocket' = NULL
      PROVE  /\ Listen \notin list'.live /\ ~InKernel(Listen)' /\ SocketAccept' \notin Conns
             /\ \A t \in Threads : t[1] = run' => wpc'[t] \notin {"first", "repost"}
  <2>1. CASE MainFreeListen /\ g_pCtxtListenSocket # NULL
    <3>1. /\ pend[Listen].op = "none" /\ SocketAccept' = NULL /\ mpc = "freeListen"
          /\ list' = [list EXCEPT !.live = @ \ {Listen}] /\ UNCHANGED <<pend, wpc, run>>
      BY <2>1 DEF MainFreeListen, worker
    <3>2. list'.live = list.live \ {Listen}
      BY <3>1, IInvTypes DEF TypeList, List
    <3>3. \A t \in Threads : t[1] = run => wpc[t] \in {"gqcs", "got", "io", "exit"}
      BY <2>1, <3>1, ListenWhen DEF IInv, Control, Ending
    <3>. QED
      BY <3>1, <3>2, <3>3, ListenIsNone DEF InKernel
  <2>2. CASE ~(MainFreeListen /\ g_pCtxtListenSocket # NULL)
    <3>1. g_pCtxtListenSocket = NULL
      <4>1. MainCreateAcceptSocket => mpc = "accept"
        BY DEF MainCreateAcceptSocket
      <4>. QED
        BY <1>2, <2>2, <4>1, PassMoves, ListenWhen
    <3>2. /\ Listen \notin list.live /\ ~InKernel(Listen) /\ SocketAccept \notin Conns
          /\ \A t \in Threads : t[1] = run => wpc[t] \notin {"first", "repost"}
      BY <1>1, <3>1 DEF ListenContext
    <3>3. ASSUME NEW t \in Threads, IoOf(t), WorkerAccept(t) \/ WorkerFirst(t) \/ WorkerRepost(t)
          PROVE  FALSE
      BY <3>1, <3>3, AcceptHandler, ListenIsNone
    <3>4. Listen \notin list'.live
      <4>1. Listen \in list'.live => MainCreateAcceptSocket /\ g_pCtxtListenSocket' = Listen
        BY <3>2, <3>3, LiveMoves, ListenIsNone
      <4>. QED
        BY <1>2, <4>1, ListenIsNone
    <3>5. ~InKernel(Listen)'
      <4>1. MainCreateAcceptSocket => UNCHANGED pend
        BY <1>2, ListenIsNone DEF MainCreateAcceptSocket
      <4>2. ASSUME NEW t \in Threads, IoOf(t), WorkerRead(t) \/ WorkerWrite(t) PROVE wpkt[t].ctxt # Listen
        BY <4>2, ConnHandler
      <4>3. pend'[Listen] = pend[Listen] \/ pend'[Listen] = Idle
        BY <3>3, <4>1, <4>2, PendMoves, ListenIsNone
      <4>. QED
        BY <3>2, <4>3 DEF InKernel, Idle
    <3>6. SocketAccept' \notin Conns
      BY <3>2, <3>3, SocketAcceptMoves
    <3>7. ASSUME NEW t \in Threads, t[1] = run', wpc'[t] \in {"first", "repost"} PROVE FALSE
      <4>1. wpc'[t] = wpc[t]
        BY <3>3, <3>7, WpcMoves
      <4>2. run' # run
        BY <3>2, <3>7, <4>1
      <4>3. run' = run + 1
        BY <4>2, PassMoves DEF MainResetEvent
      <4>4. t[1] > run
        BY <3>7, <4>3, Nums
      <4>. QED
        BY <1>1, <3>7, <4>1, <4>4 DEF Passes
    <3>. QED
      BY <3>4, <3>5, <3>6, <3>7
  <2>. QED
    BY <2>1, <2>2
<1>3. ASSUME g_pCtxtListenSocket' = Listen PROVE key'[Listen] = run'
  <2>1. CASE MainCreateAcceptSocket
    <3>1. key' = [key EXCEPT ![Listen] = g_hIOCP] /\ mpc = "accept" /\ run' = run
      BY <1>3, <2>1, ListenIsNone DEF MainCreateAcceptSocket, Updated
    <3>2. g_hIOCP = run
      BY <1>1, <3>1 DEF Passes
    <3>. QED
      BY <3>1, <3>2, ListenIsNone, IInvTypes DEF TypeIo
  <2>2. CASE ~MainCreateAcceptSocket
    <3>1. g_pCtxtListenSocket = Listen
      BY <1>3, <2>2, PassMoves, ListenIsNone DEF MainFreeListen
    <3>2. key[Listen] = run
      BY <1>1, <3>1 DEF ListenContext
    <3>3. key'[Listen] = key[Listen]
      BY <2>2, PassMoves, AcceptHandler, ListenIsNone
    <3>4. run' = run
      BY <3>1, PassMoves, ListenWhen, ListenIsNone DEF MainResetEvent
    <3>. QED
      BY <3>2, <3>3, <3>4
  <2>. QED
    BY <2>1, <2>2
<1>4. mpc' \notin {"serve", "finally", "post", "join", "closeListen", "freeListen"}
         => g_pCtxtListenSocket' = NULL
  <2>1. MainCreateAcceptSocket => mpc' \in {"serve", "finally"}
    BY DEF MainCreateAcceptSocket
  <2>2. MainFreeListen => g_pCtxtListenSocket' = NULL
    BY DEF MainFreeListen
  <2>3. g_pCtxtListenSocket' = g_pCtxtListenSocket \/ MainCreateAcceptSocket \/ MainFreeListen
    BY PassMoves
  <2>4. g_pCtxtListenSocket # NULL => mpc \in {"serve", "finally", "post", "join", "closeListen", "freeListen"}
    BY ListenWhen
  <2>5. mpc \in {"serve", "finally", "post", "join", "closeListen", "freeListen"} =>
          MainFreeListen \/ mpc' \in {"serve", "finally", "post", "join", "closeListen", "freeListen"}
    BY PassMoves, MainMovesOn
  <2>. QED
    BY <2>1, <2>2, <2>3, <2>4, <2>5
<1>5. io'[Listen].IOOperation = "ClientIoAccept"
  <2>1. io[Listen].IOOperation = "ClientIoAccept"
    BY <1>1 DEF ListenContext
  <2>2. ASSUME NEW t \in Threads, IoOf(t), WorkerAccept(t), wpkt[t].ok PROVE SocketAccept # Listen
    BY <2>2, AcceptHandler, ListenIsNone
  <2>3. ASSUME NEW t \in Threads, IoOf(t), WorkerFirst(t) PROVE SocketAccept # Listen
    BY <2>3, AcceptHandler, ListenIsNone DEF WorkerAccept, WorkerFirst
  <2>4. ASSUME NEW t \in Threads, IoOf(t), WorkerRead(t) \/ WorkerWrite(t) PROVE wpkt[t].ctxt # Listen
    BY <2>4, ConnHandler
  <2>5. FreshIo("ClientIoAccept").IOOperation = "ClientIoAccept"
    BY DEF FreshIo
  <2>. QED
    BY <2>1, <2>2, <2>3, <2>4, <2>5, IoMoves, ListenIsNone
<1>6. InKernel(Listen)' => pend'[Listen] = AcceptOperation
  <2>1. InKernel(Listen) => pend[Listen] = AcceptOperation
    BY <1>1 DEF ListenContext, AcceptOperation
  <2>2. ASSUME NEW t \in Threads, IoOf(t), WorkerFirst(t) PROVE SocketAccept # Listen
    BY <2>2, AcceptHandler, ListenIsNone DEF WorkerAccept, WorkerFirst
  <2>3. ASSUME NEW t \in Threads, IoOf(t), WorkerRead(t) \/ WorkerWrite(t) PROVE wpkt[t].ctxt # Listen
    BY <2>3, ConnHandler
  <2>4. pend'[Listen] \in {pend[Listen], Idle, AcceptOperation}
    BY <2>2, <2>3, PendMoves, ListenIsNone
  <2>. QED
    BY <2>1, <2>4 DEF InKernel, Idle
<1>. QED
  BY <1>2, <1>3, <1>4, <1>5, <1>6 DEF ListenContext, AcceptOperation

LEMMA StepWorkerPackets == ASSUME IInv, [Next]_vars PROVE WorkerPackets'
<1>1. WorkerPackets
  BY DEF IInv, Control
<1> SUFFICES ASSUME NEW t \in Threads
             PROVE  /\ wpc'[t] \in {"got", "io", "first", "repost"} => wpkt'[t].ctxt # NULL
                    /\ wpc'[t] \in {"first", "repost"} => wpkt'[t].ok /\ wpkt'[t].ctxt = Listen
  BY DEF WorkerPackets
<1>2. CASE WorkerGet(t)
  <2>1. wpc'[t] = (IF wpkt'[t].ctxt = NULL THEN "exit" ELSE "got")
    BY <1>2, IInvTypes DEF TypeWorker, WorkerGet
  <2>. QED
    BY <2>1
<1>3. CASE ~WorkerGet(t)
  <2>1. wpkt'[t] = wpkt[t]
    BY <1>3, WpktMoves
  <2>2. IoOf(t) /\ WorkerAccept(t) /\ wpkt[t].ok => wpkt[t].ctxt = Listen
    BY AcceptHandler
  <2>3. wpc'[t] # wpc[t] => \/ wpc'[t] \notin {"got", "io", "first", "repost"}
                            \/ wpc[t] = "got" /\ wpc'[t] = "io"
                            \/ wpc[t] = "io" /\ wpc'[t] = "first" /\ wpkt[t].ok /\ IoOf(t) /\ WorkerAccept(t)
                            \/ wpc[t] = "first" /\ wpc'[t] = "repost"
    BY <1>3, WpcMoves
  <2>. QED
    BY <1>1, <2>1, <2>2, <2>3 DEF WorkerPackets
<1>. QED
  BY <1>2, <1>3

\* Who enters the critical section and stays in it.
LEMMA CsMoves ==
  ASSUME IInv, [Next]_vars, cs' # cs
  PROVE  \/ MainCreateAcceptSocket /\ cs' = Leaked
         \/ CtxtListFreeEnter \/ CtxtListFreeLeave
         \/ \E t \in Threads : IoOf(t) /\ WorkerAccept(t) /\ wpkt[t].ok /\ cs' = t /\ wpc'[t] = "exit"
<1>1. CASE Main
  BY <1>1 DEF Main, MainTest, MainClearRestart, MainClearEnd, MainResetEvent, MainCreateThreads,
     CreateListenSocket, MainCreateAcceptSocket, MainServe, MainFinally, MainPost, MainJoin,
     MainCloseListen, MainFreeListen, CtxtListFreeStep, MainClosePort, memory, Updated, UpdateFailed,
     CtxtListFreeEnter, CtxtListFreeLeave
<1>2. ASSUME NEW t \in Threads, Worker(t)
      PROVE  IoOf(t) /\ WorkerAccept(t) /\ wpkt[t].ok /\ cs' = t /\ wpc'[t] = "exit"
  <2>1. IoOf(t)
    BY <1>2, Freed, WorkerFrame DEF memory, IInv, WorkerGet, WorkerCheck
  <2>2. WorkerAccept(t)
    BY <2>1, IoOfIs DEF WorkerFirst, WorkerRepost, WorkerDropped, WorkerRead, WorkerWrite, memory
  <2>3. t # MainThread
    BY ServerExAssumption DEF Threads, Runs, MainThread
  <2>4. wpkt[t].ok /\ cs' = t /\ wpc' = [wpc EXCEPT ![t] = "exit"]
    BY <2>2, <2>3 DEF WorkerAccept, Updated, UpdateFailed
  <2>. QED
    BY <2>1, <2>2, <2>4, IInvTypes DEF TypeWorker
<1>3. CtrlEvent \/ CtrlHandler => UNCHANGED cs
  BY CtrlFrame DEF memory
<1>4. ASSUME NEW c \in Conns, Kernel(c) \/ Client(c) PROVE UNCHANGED cs
  BY <1>4, KernelFrame
<1>5. UNCHANGED vars => UNCHANGED cs
  BY DEF vars, memory
<1>. QED
  BY <1>1, <1>2, <1>3, <1>4, <1>5 DEF Next

\* Not one of the workers.
LEMMA NotWorkers == NoThread \notin Threads /\ MainThread \notin Threads /\ Leaked \notin Threads
BY ServerExAssumption DEF Threads, Runs, NoThread, MainThread, Leaked

LEMMA StepSection == ASSUME IInv, [Next]_vars PROVE Section'
<1>1. Section /\ ListenContext /\ Passes
  BY DEF IInv, Control
<1>2. ASSUME NEW t \in Threads, wpc[t] = "exit" PROVE wpc'[t] = "exit"
  <2>1. MainCreateThreads /\ t[1] = run => FALSE
    BY <1>1, <1>2 DEF Passes, MainCreateThreads
  <2>. QED
    BY <1>2, <2>1, WpcMoves
<1>3. ASSUME cs' \in Threads PROVE wpc'[cs'] = "exit"
  <2>1. CASE cs' = cs
    BY <1>1, <1>2, <1>3, <2>1 DEF Section
  <2>2. CASE cs' # cs
    BY <1>3, <2>2, CsMoves, NotWorkers DEF CtxtListFreeEnter, CtxtListFreeLeave
  <2>. QED
    BY <2>1, <2>2
<1>4. ASSUME cs' # NoThread, NEW t \in Threads, t[1] = run', wpc'[t] \in {"first", "repost"} PROVE FALSE
  <2>1. run' = run
    <3>1. CASE wpc'[t] = wpc[t]
      <4>1. run' # run => run' = run + 1
        BY PassMoves DEF MainResetEvent
      <4>2. run' = run + 1 => t[1] > run
        BY <1>4, Nums
      <4>. QED
        BY <1>1, <1>4, <3>1, <4>1, <4>2 DEF Passes
    <3>2. CASE wpc'[t] # wpc[t]
      <4>1. IoOf(t)
        BY <1>4, <3>2, WpcMoves
      <4>2. WorkerIo(t) /\ Worker(t)
        BY <4>1 DEF IoOf, Worker
      <4>. QED
        BY <4>2, WorkerFrame DEF IInv, main
    <3>. QED
      BY <3>1, <3>2
  <2>2. CASE wpc[t] \in {"first", "repost"}
    <3>1. cs = NoThread /\ WithWorker(Listen, t) /\ g_pCtxtListenSocket = Listen
      BY <1>4, <2>1, <2>2, SettingUp
    <3>2. cs' # cs
      BY <1>4, <3>1
    <3>3. mpc \in {"serve", "finally", "post", "join", "closeListen", "freeListen"}
      BY <3>1, ListenWhen, ListenIsNone
    <3>4. PICK u \in Threads : IoOf(u) /\ WorkerAccept(u) /\ wpkt[u].ok /\ wpc'[u] = "exit"
      BY <3>2, <3>3, CsMoves DEF MainCreateAcceptSocket, CtxtListFreeEnter, CtxtListFreeLeave
    <3>5. u = t
      BY <3>1, <3>4, AcceptHandler
    <3>. QED
      BY <1>4, <3>4, <3>5
  <2>3. CASE wpc[t] \notin {"first", "repost"}
    <3>1. IoOf(t) /\ WorkerAccept(t) /\ wpc'[t] = "first" /\ wpkt[t].ok /\ CanLock(t) /\ wpc[t] = "io"
      BY <1>4, <2>3, WpcMoves
    <3>2. cs' = cs
      <4>1. ~MainCreateAcceptSocket /\ ~CtxtListFreeEnter /\ ~CtxtListFreeLeave
        <5>1. WorkerIo(t) /\ Worker(t)
          BY <3>1 DEF IoOf, Worker
        <5>2. wpc' = wpc \/ ~Main
          BY <3>1, MainFrame DEF MainCreateThreads, MainCreateAcceptSocket, CtxtListFreeEnter, CtxtListFreeLeave
        <5>3. wpc' # wpc
          BY <3>1
        <5>. QED
          BY <5>2, <5>3 DEF Main
      <4>2. ASSUME NEW u \in Threads, IoOf(u), WorkerAccept(u), wpkt[u].ok, wpc'[u] = "exit" PROVE FALSE
        <5>1. u = t
          BY <3>1, <4>2, AcceptHandler
        <5>. QED
          BY <3>1, <4>2, <5>1
      <4>. QED
        BY <4>1, <4>2, CsMoves
    <3>3. cs \in {NoThread, t}
      BY <3>1, NotWorkers DEF CanLock
    <3>. QED
      BY <1>1, <1>4, <3>1, <3>2, <3>3 DEF Section
  <2>. QED
    BY <2>2, <2>3
<1>. QED
  BY <1>3, <1>4 DEF Section

\* The flag that ends the workers is reset only before the threads are made.
LEMMA EndServerStays ==
  ASSUME IInv, [Next]_vars, g_bEndServer, ~MainClearEnd PROVE g_bEndServer'
<1>1. CASE Main
  BY <1>1 DEF Main, MainTest, MainClearRestart, MainResetEvent, MainCreateThreads,
     CreateListenSocket, MainCreateAcceptSocket, MainServe, MainFinally, MainPost, MainJoin,
     MainCloseListen, MainFreeListen, CtxtListFreeEnter, CtxtListFreeStep, CtxtListFreeLeave,
     MainClosePort, flags
<1>2. ASSUME NEW t \in Threads, Worker(t) PROVE UNCHANGED g_bEndServer
  BY <1>2, WorkerFrame DEF IInv
<1>3. CtrlEvent \/ CtrlHandler => g_bEndServer'
  BY DEF CtrlEvent, CtrlHandler, CtrlEnd, CtrlSetEvent
<1>4. ASSUME NEW c \in Conns, Kernel(c) \/ Client(c) PROVE UNCHANGED g_bEndServer
  BY <1>4, KernelFrame DEF flags
<1>5. UNCHANGED vars => UNCHANGED g_bEndServer
  BY DEF vars, flags
<1>. QED
  BY <1>1, <1>2, <1>3, <1>4, <1>5 DEF Next

\* After the join no worker of the pass sets up a connection.
AfterJoin(t) == /\ wpc[t] \in {"gqcs", "got", "io", "exit"}
                /\ wpc[t] = "io" => ~CanLock(t)

LEMMA AfterJoinStays ==
  ASSUME IInv, [Next]_vars, mpc \in {"closeListen", "freeListen"}, NEW t \in Threads, AfterJoin(t)
  PROVE  AfterJoin(t)'
<1>1. g_bEndServer
  BY DEF IInv, Control, Ending
<1>2. /\ wpc'[t] \in {"gqcs", "got", "io", "exit"}
      /\ wpc'[t] = "io" => wpc[t] = "io"
  BY <1>1, WpcMoves DEF AfterJoin, MainCreateThreads
<1>3. ASSUME wpc'[t] = "io", cs' # cs PROVE cs' \notin {NoThread, t} /\ t # MainThread
  <2>1. PICK u \in Threads : cs' = u /\ wpc'[u] = "exit"
    BY <1>3, CsMoves DEF MainCreateAcceptSocket, CtxtListFreeEnter, CtxtListFreeLeave
  <2>. QED
    BY <1>3, <2>1, NotWorkers
<1>4. wpc'[t] = "io" => ~CanLock(t)'
  BY <1>2, <1>3 DEF CanLock, AfterJoin
<1>. QED
  BY <1>2, <1>4 DEF AfterJoin

LEMMA StepEnding == ASSUME IInv, [Next]_vars PROVE Ending'
<1>1. Ending
  BY DEF IInv, Control
<1>2. mpc' \in {"post", "join", "closeListen", "freeListen"} => g_bEndServer'
  <2>1. MainFinally => g_bEndServer'
    BY DEF MainFinally
  <2>2. MainClearEnd => mpc' = "reset"
    BY DEF MainClearEnd
  <2>3. mpc' \in {"post", "join", "closeListen", "freeListen"} =>
          MainFinally \/ mpc \in {"post", "join", "closeListen", "freeListen"}
    BY PassMoves, MainMovesOn
  <2>. QED
    BY <1>1, <2>1, <2>2, <2>3, EndServerStays DEF Ending
<1>3. g_pCtxtListenSocket' = Listen =>
        \/ MainCreateAcceptSocket /\ mpc = "accept" /\ mpc' \in {"serve", "finally"}
        \/ /\ g_pCtxtListenSocket = Listen
           /\ mpc \in {"serve", "finally", "post", "join", "closeListen", "freeListen"}
  BY PassMoves, ListenWhen, ListenIsNone DEF MainCreateAcceptSocket, MainFreeListen
<1>4. ASSUME mpc' \in {"listen", "accept"} \/ (g_pCtxtListenSocket' = Listen /\ mpc' \in {"serve", "finally", "post", "join"})
      PROVE  \A i \in 1..ThreadCount : g_ThreadHandles'[i] = <<run', i>>
  <2>1. CASE MainCreateThreads
    <3>1. mpc = "threads" /\ mpc' \in {"listen", "finally"} /\ run' = run
      BY <2>1 DEF MainCreateThreads
    <3>2. mpc' = "listen"
      BY <1>3, <1>4, <3>1
    <3>3. PICK n \in 0..ThreadCount :
            /\ g_ThreadHandles' = [i \in 1..ThreadCount |->
                                        IF i <= n THEN <<run, i>> ELSE g_ThreadHandles[i]]
            /\ mpc' = IF n = ThreadCount THEN "listen" ELSE "finally"
      BY <2>1, <3>2 DEF MainCreateThreads
    <3>4. n = ThreadCount
      BY <3>2, <3>3
    <3>. QED
      BY <3>1, <3>3, <3>4, ServerExAssumption
  <2>2. CASE ~MainCreateThreads
    <3>1. MainJoin => mpc' = "closeListen"
      BY DEF MainJoin
    <3>2. g_ThreadHandles' = g_ThreadHandles
      <4>1. CASE Main
        BY <1>4, <2>2, <3>1, <4>1, MainFrame
      <4>2. ASSUME NEW t \in Threads, Worker(t) PROVE UNCHANGED g_ThreadHandles
        BY <4>2, WorkerFrame DEF IInv, main
      <4>3. ASSUME NEW c \in Conns, Kernel(c) \/ Client(c) PROVE UNCHANGED g_ThreadHandles
        BY <4>3, KernelFrame DEF main
      <4>. QED
        BY <4>1, <4>2, <4>3, CtrlFrame DEF Next, vars, main
    <3>3. run' = run
      BY <1>4, PassMoves DEF MainResetEvent
    <3>4. mpc' = "listen" => mpc = "listen"
      BY <2>2, PassMoves, MainMovesOn
    <3>5. mpc' = "accept" => mpc \in {"listen", "accept"}
      BY PassMoves, MainMovesOn
    <3>6. mpc' \in {"serve", "finally", "post", "join"} => mpc \notin {"closeListen", "freeListen"}
      BY PassMoves, MainMovesOn
    <3>. QED
      BY <1>1, <1>3, <1>4, <3>2, <3>3, <3>4, <3>5, <3>6 DEF Ending
  <2>. QED
    BY <2>1, <2>2
<1>5. ASSUME g_pCtxtListenSocket' = Listen, mpc' \in {"closeListen", "freeListen"},
             NEW t \in Threads, t[1] = run'
      PROVE  AfterJoin(t)'
  <2>1. g_pCtxtListenSocket = Listen /\ run' = run /\ mpc \in {"join", "closeListen", "freeListen"}
    <3>1. mpc' \in {"closeListen", "freeListen"} => mpc \in {"join", "closeListen", "freeListen"}
      BY PassMoves, MainMovesOn
    <3>. QED
      BY <1>3, <1>5, <3>1, PassMoves DEF MainResetEvent
  <2>2. CASE mpc = "join"
    <3>1. MainJoin
      BY <1>5, <2>2, PassMoves, MainMovesOn
    <3>2. \A i \in 1..ThreadCount : g_ThreadHandles[i] = <<run, i>>
      BY <1>1, <2>1, <2>2 DEF Ending
    <3>3. t = <<run, t[2]>> /\ t[2] \in 1..ThreadCount
      BY <1>5, <2>1 DEF Threads
    <3>4. \A i \in 1..ThreadCount : g_ThreadHandles[i] # NoThread
      BY <2>2, <3>2, RunIsRun, Nums DEF NoThread, Busy, INVALID
    <3>5. wpc[t] = "exit" \/ Stuck(t)
      BY <3>1, <3>2, <3>3, <3>4 DEF MainJoin
    <3>6. wpc[t] = "first" => CanLock(t)
      BY <1>5, <2>1, SettingUp DEF CanLock
    <3>7. AfterJoin(t)
      BY <3>5, <3>6 DEF Stuck, AfterJoin
    <3>8. UNCHANGED <<wpc, cs>>
      BY <3>1 DEF MainJoin, worker, memory
    <3>. QED
      BY <3>7, <3>8 DEF AfterJoin, CanLock
  <2>3. CASE mpc # "join"
    <3>1. AfterJoin(t)
      BY <1>1, <1>5, <2>1, <2>3 DEF Ending, AfterJoin
    <3>. QED
      BY <2>1, <2>3, <3>1, AfterJoinStays
  <2>. QED
    BY <2>2, <2>3
<1>. QED
  BY <1>2, <1>4, <1>5 DEF Ending, AfterJoin

-----------------------------------------------------------------------------
(* Who has a context *)

LEMMA GetDoes ==
  ASSUME IInv, NEW t \in Threads, WorkerGet(t)
  PROVE  /\ wpc[t] = "gqcs" /\ wpc'[t] \in {"got", "exit"} /\ UNCHANGED <<pend, SocketAccept, run>>
         /\ \/ ~wpkt'[t].ok
            \/ /\ 1 \in DOMAIN port[t[1]] /\ wpkt'[t] = port[t[1]][1]
               /\ \A r \in Runs : \A i \in DOMAIN port'[r] :
                    LET j == IF r = t[1] THEN i + 1 ELSE i IN
                    j \in DOMAIN port[r] /\ port'[r][i] = port[r][j] /\ (r = t[1] => j # 1)
<1>1. wpkt \in [Threads -> Packet] /\ wpc \in [Threads -> WorkerSteps] /\ port \in [Runs -> Seq(Packet)]
  BY IInvTypes DEF TypeWorker, TypePort
<1>2. wpc[t] = "gqcs" /\ wpc'[t] \in {"got", "exit"} /\ UNCHANGED <<pend, SocketAccept, run>>
  BY <1>1 DEF WorkerGet, globals, main
<1>3. CASE wpkt' = [wpkt EXCEPT ![t].ok = FALSE]
  BY <1>1, <1>2, <1>3 DEF Packet
<1>4. CASE /\ port[t[1]] # <<>> /\ wpkt' = [wpkt EXCEPT ![t] = Head(port[t[1]])]
           /\ port' = [port EXCEPT ![t[1]] = Tail(@)]
  <2>1. t[1] \in Runs
    BY DEF Threads
  <2>2. port[t[1]] \in Seq(Packet)
    BY <1>1, <2>1
  <2>3. 1 \in DOMAIN port[t[1]] /\ Head(port[t[1]]) = port[t[1]][1]
    BY <1>4, <2>2
  <2>4. ASSUME NEW r \in Runs, NEW i \in DOMAIN port'[r], r = t[1]
        PROVE  i + 1 \in DOMAIN port[r] /\ port'[r][i] = port[r][i + 1] /\ i + 1 # 1
    <3>1. port'[r] = Tail(port[r]) /\ port[r] \in Seq(Packet) /\ port[r] # <<>>
      BY <1>1, <1>4, <2>1, <2>4
    <3>2. i + 1 \in DOMAIN port[r] /\ port'[r][i] = port[r][i + 1]
      BY <2>4, <3>1
    <3>3. i \in Nat /\ i # 0
      BY <2>4, <3>1
    <3>. QED
      BY <3>2, <3>3
  <2>5. ASSUME NEW r \in Runs, NEW i \in DOMAIN port'[r], r # t[1]
        PROVE  i \in DOMAIN port[r] /\ port'[r][i] = port[r][i]
    BY <1>1, <1>4, <2>5
  <2>. QED
    BY <1>1, <1>2, <1>4, <2>3, <2>4, <2>5
<1>. QED
  BY <1>3, <1>4 DEF WorkerGet

\* How x comes to a worker: it was there, it comes from the port, or it is the
\* connection that the accept has brought.
LEMMA WithWorkerMoves ==
  ASSUME IInv, [Next]_vars, NEW x \in Ctxts, NEW t \in Threads, WithWorker(x, t)'
  PROVE  \/ WithWorker(x, t) /\ wpkt'[t] = wpkt[t]
         \/ /\ WorkerGet(t) /\ wpc[t] = "gqcs" /\ wpc'[t] = "got" /\ 1 \in DOMAIN port[t[1]]
            /\ OnPort(x, t[1], 1) /\ wpkt'[t] = port[t[1]][1]
         \/ /\ IoOf(t) /\ WorkerAccept(t) /\ wpc[t] = "io" /\ wpc'[t] = "first" /\ wpkt[t].ok
            /\ x = SocketAccept
<1>1. Passes /\ WorkerPackets /\ WorkerPackets'
  BY StepWorkerPackets DEF IInv, Control
<1>2. run' # run => MainResetEvent /\ run' = run + 1 /\ UNCHANGED <<wpc, wpkt, SocketAccept>>
  BY PassMoves DEF MainResetEvent, worker, globals
<1>3. t[1] = run' /\ wpc[t] # "none" => run' = run
  BY <1>1, <1>2, Nums DEF Passes
<1>4. wpkt'[t].ok /\ wpc'[t] \in {"got", "io", "first", "repost"}
  BY DEF WithWorker
<1>5. CASE WorkerGet(t)
  <2>1. wpc[t] = "gqcs" /\ wpc'[t] = "got" /\ 1 \in DOMAIN port[t[1]] /\ wpkt'[t] = port[t[1]][1]
        /\ run' = run
    BY <1>4, <1>5, GetDoes
  <2>2. wpkt'[t].ctxt = x /\ OfPass(x, t[1])
    BY <2>1 DEF WithWorker, OfPass
  <2>. QED
    BY <1>4, <1>5, <2>1, <2>2 DEF OnPort
<1>6. CASE ~WorkerGet(t)
  <2>1. wpkt'[t] = wpkt[t]
    BY <1>6, WpktMoves
  <2>2. CASE wpkt[t].ctxt = x
    <3>1. OfPass(x, t[1])'
      BY <1>1, <2>1, <2>2 DEF WithWorker, WorkerPackets, OfPass
    <3>2. wpc[t] \in {"got", "io", "first", "repost"}
      BY <1>4, <1>6, WpcMoves
    <3>3. OfPass(x, t[1])
      BY <1>3, <3>1, <3>2 DEF OfPass
    <3>. QED
      BY <1>4, <2>1, <2>2, <3>2, <3>3 DEF WithWorker
  <2>3. CASE wpkt[t].ctxt # x
    <3>1. wpc'[t] = "first" /\ t[1] = run' /\ SocketAccept' = x
      BY <2>1, <2>3 DEF WithWorker
    <3>2. x # Listen /\ x \in Conns
      BY <1>1, <2>1, <2>3, <3>1 DEF WorkerPackets, Conns
    <3>3. CASE wpc[t] = "first"
      <4>1. run' = run
        BY <1>3, <3>1, <3>3
      <4>2. ~InKernel(Listen)
        BY <3>1, <3>3, <4>1, SettingUp, OnlyListener
      <4>3. SocketAccept' = SocketAccept
        BY <3>1, <3>2, <4>2, SocketAcceptMoves
      <4>. QED
        BY <1>4, <2>1, <3>1, <3>3, <4>1, <4>3 DEF WithWorker
    <3>4. CASE wpc[t] # "first"
      <4>1. IoOf(t) /\ WorkerAccept(t) /\ wpc[t] = "io" /\ wpkt[t].ok
        BY <3>1, <3>4, WpcMoves
      <4>2. SocketAccept' = SocketAccept
        BY <4>1 DEF WorkerAccept
      <4>. QED
        BY <3>1, <4>1, <4>2
    <3>. QED
      BY <3>3, <3>4
  <2>. QED
    BY <2>2, <2>3
<1>. QED
  BY <1>5, <1>6

\* How a successful report for x comes to a port.
LEMMA OnPortMoves ==
  ASSUME IInv, [Next]_vars, NEW s \in [Runs -> 0..1], PacketsFrom(s),
         NEW x \in Ctxts, NEW r \in Runs, NEW i \in DOMAIN port'[r], OnPort(x, r, i)'
  PROVE  \/ i + s[r] \in DOMAIN port[r] /\ OnPort(x, r, i + s[r]) /\ port'[r][i] = port[r][i + s[r]]
         \/ Ends(x) /\ Succeeds(x) /\ r = key[x] /\ i = Len(port[r]) + 1
<1>1. port'[r][i].ctxt = x /\ port'[r][i].ok /\ x # NULL
  BY NullAssumption DEF OnPort
<1>2. CASE i + s[r] \in DOMAIN port[r] /\ port'[r][i] = port[r][i + s[r]]
  <2>1. ASSUME x = Listen, r = run' PROVE r = run
    <3>1. r = run + 1 => ~(run' = r /\ mpc' = "threads")
      <4>1. NoAcceptYet'
        BY StepNoAcceptYet
      <4>. QED
        BY <1>1, <2>1, <4>1 DEF NoAcceptYet, NotYet
    <3>. QED
      BY <2>1, <3>1, PassMoves DEF MainResetEvent
  <2>2. OfPass(x, r)
    BY <2>1 DEF OnPort, OfPass
  <2>. QED
    BY <1>1, <1>2, <2>2 DEF OnPort
<1>. QED
  BY <1>1, <1>2 DEF PacketsFrom

\* Nobody posts an operation on a context that a port or a worker has.
LEMMA NotPosted ==
  ASSUME IInv, [Next]_vars, NEW x \in Ctxts, ~InKernel(x), InKernel(x)'
  PROVE  /\ \A r \in Runs : \A i \in DOMAIN port[r] : ~OnPort(x, r, i)
         /\ \A t \in Threads : WithWorker(x, t) => IoOf(t) /\ wpc'[t] \notin {"got", "io", "first"}
                                                   /\ (wpc'[t] = "repost" => wpkt[t].ctxt # x)
         /\ UNCHANGED port
<1>1. pend'[x] # pend[x] /\ pend'[x] # Idle
  BY DEF InKernel, Idle
<1>2. TypeWorker
  BY IInvTypes
<1>3. CASE MainCreateAcceptSocket /\ x = Listen
  <2>1. mpc = "accept" /\ run \in Runs /\ NoAcceptYet
    BY <1>3, RunIsRun DEF MainCreateAcceptSocket, Busy, IInv, Control
  <2>2. NotYet(run)
    BY <2>1 DEF NotYet
  <2>3. \A t \in Threads : WithWorker(x, t) => wpkt[t].ctxt = Listen /\ t[1] = run
    BY <1>3 DEF WithWorker, OfPass, IInv, Control, WorkerPackets
  <2>. QED
    BY <1>3, <2>1, <2>2, <2>3 DEF NoAcceptYet, OnPort, OfPass, MainCreateAcceptSocket
<1>4. ASSUME NEW t \in Threads, IoOf(t), WorkerRepost(t), x = Listen
      PROVE  /\ \A r \in Runs : \A i \in DOMAIN port[r] : ~OnPort(x, r, i)
             /\ \A u \in Threads : WithWorker(x, u) => u = t
             /\ wpc'[t] \in {"gqcs", "exit"} /\ UNCHANGED port
  <2>1. wpc'[t] \in {"gqcs", "exit"} /\ UNCHANGED port
    BY <1>2, <1>4 DEF WorkerRepost, TypeWorker
  <2>. QED
    BY <1>4, <2>1, AcceptHandler DEF WorkerRepost, WorkerAccept
<1>5. ASSUME NEW t \in Threads, IoOf(t), WorkerFirst(t), x = SocketAccept
      PROVE  /\ \A r \in Runs : \A i \in DOMAIN port[r] : ~OnPort(x, r, i)
             /\ \A u \in Threads : WithWorker(x, u) => u = t
             /\ wpc'[t] = "repost" /\ wpkt[t].ctxt # x
  <2>1. wpc'[t] = "repost" /\ wpc[t] = "first"
    BY <1>2, <1>5 DEF WorkerFirst, TypeWorker
  <2>2. Unseen(x) /\ t[1] = run /\ wpkt[t].ok /\ wpkt[t].ctxt # x
    <3>1. ~WorkerAccept(t) /\ ~WorkerRepost(t)
      BY <2>1 DEF WorkerAccept, WorkerRepost
    <3>2. /\ wpkt[t].ctxt = Listen /\ t[1] = run /\ wpkt[t].ok
          /\ SocketAccept \in Conns /\ Unseen(SocketAccept)
      BY <1>5, <3>1, AcceptHandler
    <3>. QED
      BY <1>5, <3>2, ListenIsNone
  <2>3. WithWorker(x, t)
    BY <1>5, <2>1, <2>2 DEF WithWorker
  <2>. QED
    BY <2>1, <2>2, <2>3 DEF Unseen, OnPort, IInv, OneOperation, OneHolder
<1>6. ASSUME NEW t \in Threads, IoOf(t), WorkerRead(t) \/ WorkerWrite(t), x = wpkt[t].ctxt
      PROVE  /\ \A r \in Runs : \A i \in DOMAIN port[r] : ~OnPort(x, r, i)
             /\ \A u \in Threads : WithWorker(x, u) => u = t
             /\ wpc'[t] = "gqcs"
  <2>1. wpc'[t] = "gqcs" /\ wpkt[t].ok /\ wpc[t] = "io"
    BY <1>2, <1>6 DEF WorkerRead, WorkerWrite, TypeWorker
  <2>2. WithWorker(x, t)
    BY <1>6, <2>1, ConnHandler DEF WithWorker, OfPass
  <2>. QED
    BY <2>1, <2>2 DEF IInv, OneOperation, OneHolder
<1>7. \/ MainCreateAcceptSocket /\ x = Listen
      \/ \E t \in Threads : IoOf(t) /\ WorkerRepost(t) /\ x = Listen
      \/ \E t \in Threads : IoOf(t) /\ UNCHANGED port /\ WorkerFirst(t) /\ x = SocketAccept
      \/ \E t \in Threads : IoOf(t) /\ UNCHANGED port /\ (WorkerRead(t) \/ WorkerWrite(t)) /\ x = wpkt[t].ctxt
  BY <1>1, PendMoves
<1>8. CASE \E t \in Threads : IoOf(t) /\ WorkerRepost(t) /\ x = Listen
  BY <1>4, <1>8
<1>9. CASE \E t \in Threads : IoOf(t) /\ UNCHANGED port /\ WorkerFirst(t) /\ x = SocketAccept
  BY <1>5, <1>9
<1>10. CASE \E t \in Threads : IoOf(t) /\ UNCHANGED port /\ (WorkerRead(t) \/ WorkerWrite(t)) /\ x = wpkt[t].ctxt
  BY <1>6, <1>10
<1>. QED
  BY <1>3, <1>7, <1>8, <1>9, <1>10

LEMMA StepOneHolder ==
  ASSUME IInv, [Next]_vars, NEW x \in Ctxts PROVE OneHolder(x)'
<1>1. OneHolder(x)
  BY DEF IInv, OneOperation
<1>2. PICK s \in [Runs -> 0..1] : PacketsFrom(s)
  BY PacketMoves
<1> DEFINE Old(r, i) == i + s[r] \in DOMAIN port[r] /\ OnPort(x, r, i + s[r]) /\ port'[r][i] = port[r][i + s[r]]
           New0(r, i) == Ends(x) /\ Succeeds(x) /\ r = key[x] /\ i = Len(port[r]) + 1
           Got(t) == /\ WorkerGet(t) /\ wpc[t] = "gqcs" /\ wpc'[t] = "got" /\ 1 \in DOMAIN port[t[1]]
                     /\ OnPort(x, t[1], 1) /\ wpkt'[t] = port[t[1]][1]
           Met(t) == /\ IoOf(t) /\ WorkerAccept(t) /\ wpc[t] = "io" /\ wpc'[t] = "first" /\ wpkt[t].ok
                     /\ x = SocketAccept
<1>3. ASSUME NEW r \in Runs, NEW i \in DOMAIN port'[r], OnPort(x, r, i)' PROVE Old(r, i) \/ New0(r, i)
  BY <1>2, <1>3, OnPortMoves
<1>4. ASSUME NEW t \in Threads, WithWorker(x, t)' PROVE (WithWorker(x, t) /\ wpkt'[t] = wpkt[t]) \/ Got(t) \/ Met(t)
  BY <1>4, WithWorkerMoves
<1>5. \A r \in Runs : s[r] \in 0..1 /\ DOMAIN port[r] \subseteq Int /\ DOMAIN port'[r] \subseteq Int
  BY <1>2, IInvTypes, StepPort DEF TypePort
<1>6. ASSUME NEW t \in Threads, Got(t)
      PROVE  /\ ~InKernel(x) /\ UNCHANGED pend /\ \A u \in Threads : ~WithWorker(x, u)
             /\ \A r \in Runs : \A i \in DOMAIN port'[r] : ~OnPort(x, r, i)'
  <2>1. ~InKernel(x) /\ \A u \in Threads : ~WithWorker(x, u)
    BY <1>1, <1>6 DEF OneHolder, Threads
  <2>2. UNCHANGED <<pend, run>>
    BY <1>6, GetDoes
  <2>3. wpkt'[t].ok
    BY <1>6 DEF OnPort
  <2>4. ASSUME NEW r \in Runs, NEW i \in DOMAIN port'[r], OnPort(x, r, i)' PROVE FALSE
    <3> DEFINE j == IF r = t[1] THEN i + 1 ELSE i
    <3>1. j \in DOMAIN port[r] /\ port'[r][i] = port[r][j] /\ (r = t[1] => j # 1)
      BY <1>6, <2>3, <2>4, GetDoes
    <3>2. OnPort(x, r, j)
      BY <2>2, <2>4, <3>1 DEF OnPort, OfPass
    <3>3. r = t[1] /\ j = 1
      BY <1>1, <1>6, <3>1, <3>2 DEF OneHolder, Threads
    <3>. QED
      BY <3>1, <3>3
  <2>. QED
    BY <2>1, <2>2, <2>4
<1>7. ASSUME NEW t \in Threads, Met(t)
      PROVE  /\ ~InKernel(x) /\ UNCHANGED pend /\ \A u \in Threads : ~WithWorker(x, u)
             /\ \A r \in Runs : \A i \in DOMAIN port[r] : ~OnPort(x, r, i)
  <2>1. UNCHANGED pend /\ ~WorkerRepost(t)
    BY <1>7 DEF WorkerAccept, WorkerRepost
  <2>2. Unseen(x) /\ \A u \in Threads : u[1] = run /\ wpc[u] \in {"first", "repost"} => u = t
    BY <1>7, <2>1, AcceptHandler
  <2>. QED
    BY <1>7, <2>1, <2>2 DEF Unseen, WithWorker, OnPort
<1>8. ASSUME NEW r \in Runs, NEW i \in DOMAIN port'[r], OnPort(x, r, i)', InKernel(x)' PROVE FALSE
  <2>1. Old(r, i) => ~InKernel(x)
    BY <1>1 DEF OneHolder
  <2>2. New0(r, i) => ~InKernel(x)'
    BY DEF Ends, InKernel
  <2>. QED
    BY <1>3, <1>8, <2>1, <2>2, NotPosted
<1>9. ASSUME NEW t \in Threads, WithWorker(x, t)', InKernel(x)' PROVE FALSE
  <2>1. CASE WithWorker(x, t) /\ wpkt'[t] = wpkt[t]
    <3>1. ~InKernel(x)
      BY <1>1, <2>1 DEF OneHolder
    <3>2. IoOf(t) /\ wpc'[t] \notin {"got", "io", "first"} /\ (wpc'[t] = "repost" => wpkt[t].ctxt # x)
      BY <1>9, <2>1, <3>1, NotPosted
    <3>. QED
      BY <1>9, <2>1, <3>2 DEF WithWorker
  <2>2. CASE Got(t) \/ Met(t)
    BY <1>6, <1>7, <1>9, <2>2 DEF InKernel
  <2>. QED
    BY <1>4, <1>9, <2>1, <2>2
<1>10. ASSUME NEW r \in Runs, NEW i \in DOMAIN port'[r], OnPort(x, r, i)',
              NEW r2 \in Runs, NEW i2 \in DOMAIN port'[r2], OnPort(x, r2, i2)'
       PROVE  r = r2 /\ i = i2
  <2>1. CASE Old(r, i) /\ Old(r2, i2)
    <3>1. r = r2 /\ i + s[r] = i2 + s[r2]
      BY <1>1, <2>1 DEF OneHolder
    <3>2. i \in Int /\ i2 \in Int /\ s[r] \in Int
      BY <1>5
    <3>3. ASSUME NEW a \in Int, NEW b \in Int, NEW d \in Int, a + d = b + d PROVE a = b
      BY <3>3
    <3>. QED
      BY <3>1, <3>2, <3>3
  <2>2. CASE New0(r, i) /\ New0(r2, i2)
    BY <2>2
  <2>3. Old(r, i) => ~Ends(x)
    BY <1>1 DEF OneHolder, Ends
  <2>4. Old(r2, i2) => ~Ends(x)
    BY <1>1 DEF OneHolder, Ends
  <2>. QED
    BY <1>3, <1>10, <2>1, <2>2, <2>3, <2>4
<1>11. ASSUME NEW t \in Threads, WithWorker(x, t)',
              NEW r \in Runs, NEW i \in DOMAIN port'[r], OnPort(x, r, i)'
       PROVE  FALSE
  <2>1. ~Got(t)
    BY <1>6, <1>11
  <2>2. Met(t) => ~Old(r, i) /\ ~New0(r, i)
    BY <1>7 DEF Ends
  <2>3. WithWorker(x, t) => ~Old(r, i) /\ ~New0(r, i)
    BY <1>1 DEF OneHolder, Ends
  <2>. QED
    BY <1>3, <1>4, <1>11, <2>1, <2>2, <2>3
<1>12. ASSUME NEW t \in Threads, WithWorker(x, t)', NEW t2 \in Threads, WithWorker(x, t2)' PROVE t = t2
  <2>1. CASE WithWorker(x, t) /\ WithWorker(x, t2)
    BY <1>1, <2>1 DEF OneHolder
  <2>2. Got(t) \/ Met(t) => ~WithWorker(x, t2)
    BY <1>6, <1>7
  <2>3. Got(t2) \/ Met(t2) => ~WithWorker(x, t)
    BY <1>6, <1>7
  <2>4. CASE (Got(t) \/ Met(t)) /\ (Got(t2) \/ Met(t2))
    <3>1. Worker(t) /\ wpc'[t] # wpc[t]
      BY <2>4 DEF Worker, IoOf
    <3>2. Worker(t2) /\ wpc'[t2] # wpc[t2]
      BY <2>4 DEF Worker, IoOf
    <3>. QED
      BY <3>1, <3>2, WorkerFrame DEF IInv
  <2>. QED
    BY <1>4, <1>12, <2>1, <2>2, <2>3, <2>4
<1>. QED
  BY <1>8, <1>9, <1>10, <1>11, <1>12 DEF OneHolder

LEMMA StepAccepted == ASSUME IInv, [Next]_vars PROVE Accepted'
<1>1. Accepted /\ NoAcceptYet
  BY DEF IInv, Control
<1>2. PICK s \in [Runs -> 0..1] : PacketsFrom(s)
  BY PacketMoves
<1>3. Listen \in Ctxts /\ Listen \notin Conns
  BY ListenIsNone
<1> SUFFICES ASSUME g_pCtxtListenSocket' = Listen
             PROVE  /\ \A r \in Runs : \A i \in DOMAIN port'[r] : OnPort(Listen, r, i)' => SocketAccept' \in Conns
                    /\ \A t \in Threads : WithWorker(Listen, t)' => SocketAccept' \in Conns
  BY DEF Accepted
<1>4. CASE MainCreateAcceptSocket
  <2>1. mpc = "accept" /\ run \in Runs /\ UNCHANGED <<port, worker, run>>
    BY <1>4, RunIsRun DEF MainCreateAcceptSocket, Busy
  <2>2. NotYet(run)
    BY <2>1 DEF NotYet
  <2>3. WorkerPackets'
    BY StepWorkerPackets
  <2>4. \A t \in Threads : WithWorker(Listen, t)' => wpkt'[t].ctxt = Listen /\ t[1] = run'
    BY <2>3 DEF WithWorker, OfPass, WorkerPackets
  <2>. QED
    BY <1>1, <2>1, <2>2, <2>4 DEF NoAcceptYet, OnPort, OfPass, worker
<1>5. CASE ~MainCreateAcceptSocket
  <2>1. g_pCtxtListenSocket = Listen /\ ~MainFreeListen
    BY <1>5, PassMoves, ListenIsNone DEF MainFreeListen
  <2>2. SocketAccept' = SocketAccept \/ SocketAccept' \in Conns
        \/ \E t \in Threads : IoOf(t) /\ WorkerRepost(t)
    BY <1>5, <2>1, SocketAcceptMoves
  <2>3. ASSUME NEW t \in Threads, IoOf(t), WorkerRepost(t)
        PROVE  /\ ~InKernel(Listen) /\ wpc'[t] \in {"gqcs", "exit"}
               /\ \A r \in Runs : \A i \in DOMAIN port[r] : ~OnPort(Listen, r, i)
               /\ \A u \in Threads : WithWorker(Listen, u) => u = t
    <3>1. wpc'[t] \in {"gqcs", "exit"} /\ wpkt[t].ok
      BY <2>3, AcceptHandler, IInvTypes DEF WorkerRepost, TypeWorker, WorkerAccept
    <3>. QED
      BY <2>3, <3>1, AcceptHandler
  <2>4. ASSUME NEW r \in Runs, NEW i \in DOMAIN port'[r], OnPort(Listen, r, i)' PROVE SocketAccept' \in Conns
    <3>1. CASE i + s[r] \in DOMAIN port[r] /\ OnPort(Listen, r, i + s[r])
      BY <1>1, <2>1, <2>2, <2>3, <3>1 DEF Accepted
    <3>2. CASE Ends(Listen) /\ Succeeds(Listen)
      BY <3>2, <1>5, <2>2, <2>3 DEF Ends, Succeeds
    <3>. QED
      BY <1>2, <1>3, <2>4, <3>1, <3>2, OnPortMoves
  <2>5. ASSUME NEW t \in Threads, WithWorker(Listen, t)' PROVE SocketAccept' \in Conns
    <3>1. CASE WithWorker(Listen, t) /\ wpkt'[t] = wpkt[t]
      <4>1. ~\E u \in Threads : IoOf(u) /\ WorkerRepost(u)
        BY <2>3, <2>5, <3>1 DEF WithWorker
      <4>. QED
        BY <1>1, <2>1, <2>2, <3>1, <4>1 DEF Accepted
    <3>2. CASE WorkerGet(t) /\ 1 \in DOMAIN port[t[1]] /\ OnPort(Listen, t[1], 1)
      <4>1. SocketAccept \in Conns
        BY <1>1, <2>1, <3>2 DEF Accepted, Threads
      <4>. QED
        BY <3>2, <4>1, GetDoes
    <3>3. CASE IoOf(t) /\ WorkerAccept(t) /\ wpkt[t].ok
      BY <3>3, AcceptHandler DEF WorkerAccept
    <3>. QED
      BY <1>3, <2>5, <3>1, <3>2, <3>3, WithWorkerMoves
  <2>. QED
    BY <2>4, <2>5
<1>. QED
  BY <1>4, <1>5

-----------------------------------------------------------------------------
(* The accept goes on *)

LEMMA EventStays ==
  ASSUME IInv, [Next]_vars, g_hCleanupEvent, ~MainResetEvent PROVE g_hCleanupEvent'
<1>1. CASE Main
  BY <1>1 DEF Main, MainTest, MainClearRestart, MainClearEnd, MainCreateThreads,
     CreateListenSocket, MainCreateAcceptSocket, MainServe, MainFinally, MainPost, MainJoin,
     MainCloseListen, MainFreeListen, CtxtListFreeEnter, CtxtListFreeStep, CtxtListFreeLeave,
     MainClosePort, flags
<1>2. ASSUME NEW t \in Threads, Worker(t) PROVE g_hCleanupEvent'
  BY <1>2 DEF Worker, WorkerGet, WorkerCheck, WorkerIo, WorkerAccept, WorkerFirst, WorkerRepost,
     WorkerDropped, WorkerRead, WorkerWrite, flags
<1>3. CtrlEvent \/ CtrlHandler => g_hCleanupEvent'
  BY DEF CtrlEvent, CtrlHandler, CtrlEnd, CtrlSetEvent
<1>4. ASSUME NEW c \in Conns, Kernel(c) \/ Client(c) PROVE UNCHANGED g_hCleanupEvent
  BY <1>4, KernelFrame DEF flags
<1>5. UNCHANGED vars => UNCHANGED g_hCleanupEvent
  BY DEF vars, flags
<1>. QED
  BY <1>1, <1>2, <1>3, <1>4, <1>5 DEF Next

LEMMA NextIsAlive == Next => Alive
<1>1. Main => Alive
  BY DEF Main, MainTest, MainClearRestart, MainClearEnd, MainResetEvent, MainCreateThreads,
     CreateListenSocket, MainCreateAcceptSocket, MainServe, MainFinally, MainPost, MainJoin,
     MainCloseListen, MainFreeListen, CtxtListFreeEnter, CtxtListFreeStep, CtxtListFreeLeave,
     MainClosePort
<1>2. ASSUME NEW t \in Threads, Worker(t) PROVE Alive
  BY <1>2 DEF Worker, WorkerGet, WorkerCheck, WorkerIo
<1>3. CtrlEvent \/ CtrlHandler => Alive
  BY DEF CtrlEvent, CtrlHandler, CtrlEnd, CtrlSetEvent
<1>4. ASSUME NEW c \in Conns, Kernel(c) \/ Client(c) PROVE Alive
  BY <1>4 DEF Kernel, Client, AcceptConnect, CompleteRecv, CompleteSend, Connect, ClientSend, ClientClose
<1>. QED
  BY <1>1, <1>2, <1>3, <1>4 DEF Next

\* The packet of a completed operation is on the port of its key.
LEMMA CompletedIsThere ==
  ASSUME port \in [Runs -> Seq(Packet)], NEW d, key[d] \in Runs, NEW n, NEW ok \in BOOLEAN, Completed(d, n, ok)
  PROVE  \E i \in DOMAIN port'[key[d]] : port'[key[d]][i].ctxt = d
<1> DEFINE p == [ctxt |-> d, size |-> n, ok |-> ok]
           q == port[key[d]]
<1>1. p.ctxt = d /\ q \in Seq(Packet)
  OBVIOUS
<1>2. port'[key[d]] = Append(q, p)
  BY DEF Completed
<1>. HIDE DEF p, q
<1>3. Len(q) + 1 \in DOMAIN Append(q, p) /\ Append(q, p)[Len(q) + 1] = p
  BY <1>1
<1>. QED
  BY <1>1, <1>2, <1>3

LEMMA AppendKeeps ==
  ASSUME port \in [Runs -> Seq(Packet)], NEW k, NEW p, port' = [port EXCEPT ![k] = Append(@, p)],
         NEW r \in Runs, NEW i \in DOMAIN port[r]
  PROVE  i \in DOMAIN port'[r] /\ port'[r][i] = port[r][i]
<1>1. port[r] \in Seq(Packet)
  OBVIOUS
<1>2. CASE r = k
  <2>1. port'[r] = Append(port[r], p)
    BY <1>2
  <2>. QED
    BY <1>1, <2>1
<1>3. CASE r # k
  BY <1>3
<1>. QED
  BY <1>2, <1>3

LEMMA CompletedKeeps ==
  ASSUME port \in [Runs -> Seq(Packet)], NEW d, NEW n, NEW ok, Completed(d, n, ok),
         NEW r \in Runs, NEW i \in DOMAIN port[r]
  PROVE  i \in DOMAIN port'[r] /\ port'[r][i] = port[r][i]
<1> DEFINE p == [ctxt |-> d, size |-> n, ok |-> ok]
<1>1. port' = [port EXCEPT ![key[d]] = Append(@, p)]
  BY DEF Completed
<1>. HIDE DEF p
<1>. QED
  BY <1>1, AppendKeeps

LEMMA CloseClientKeeps ==
  ASSUME port \in [Runs -> Seq(Packet)], NEW d, CloseClient(d), NEW r \in Runs, NEW i \in DOMAIN port[r]
  PROVE  i \in DOMAIN port'[r] /\ port'[r][i] = port[r][i]
<1>1. UNCHANGED port \/ Completed(d, 0, FALSE)
  BY DEF CloseClient, Cancelled
<1>. QED
  BY <1>1, CompletedKeeps

\* While main serves, a packet leaves its port only with a worker.
LEMMA PacketsStay ==
  ASSUME IInv, [Next]_vars, mpc = "serve", NEW r \in Runs, NEW i \in DOMAIN port[r]
  PROVE  \/ \E j \in DOMAIN port'[r] : port'[r][j] = port[r][i]
         \/ \E t \in Threads : WorkerGet(t) /\ t[1] = r /\ wpkt'[t] = port[r][i]
<1>1. port \in [Runs -> Seq(Packet)] /\ wpkt \in [Threads -> Packet]
  BY IInvTypes DEF TypePort, TypeWorker
<1>2. CASE UNCHANGED port
  BY <1>2
<1>3. Main => UNCHANGED port
  BY MainKernel DEF MainPost, MainCloseListen, CtxtListFreeStep, MainClosePort, kernel
<1>4. ASSUME NEW t \in Threads, Worker(t)
      PROVE  \/ \E j \in DOMAIN port'[r] : port'[r][j] = port[r][i]
             \/ WorkerGet(t) /\ t[1] = r /\ wpkt'[t] = port[r][i]
  <2>1. CASE WorkerGet(t) /\ port[t[1]] # <<>> /\ wpkt' = [wpkt EXCEPT ![t] = Head(port[t[1]])]
             /\ port' = [port EXCEPT ![t[1]] = Tail(@)]
    <3>1. CASE t[1] # r
      BY <1>1, <2>1, <3>1
    <3>2. CASE t[1] = r
      <4> DEFINE q == port[r]
      <4>1. port'[r] = Tail(q) /\ q # <<>> /\ q \in Seq(Packet) /\ wpkt'[t] = Head(q) /\ i \in DOMAIN q
        BY <1>1, <2>1, <3>2
      <4>. HIDE DEF q
      <4>2. CASE i = 1
        BY <2>1, <3>2, <4>1, <4>2 DEF q
      <4>3. CASE i # 1
        <5>1. i - 1 \in DOMAIN Tail(q) /\ Tail(q)[i - 1] = q[i]
          BY <4>1, <4>3
        <5>. QED
          BY <4>1, <5>1 DEF q
      <4>. QED
        BY <4>2, <4>3
    <3>. QED
      BY <3>1, <3>2
  <2>2. CASE IoOf(t)
    <3>1. UNCHANGED port \/ CloseClient(SocketAccept) \/ CloseClient(wpkt[t].ctxt)
      BY <2>2, WorkerKernel DEF IoOf
    <3>. QED
      BY <1>1, <3>1, CloseClientKeeps
  <2>. QED
    BY <1>4, <2>1, <2>2, Freed DEF WorkerGet, WorkerCheck, kernel
<1>5. CtrlEvent \/ CtrlHandler => UNCHANGED port
  BY CtrlFrame DEF kernel
<1>6. ASSUME NEW c \in Conns, Kernel(c) \/ Client(c) PROVE \E j \in DOMAIN port'[r] : port'[r][j] = port[r][i]
  <2>1. UNCHANGED port \/ \E x, n, ok : Completed(x, n, ok)
    BY <1>6, KernelFrame DEF CompleteRecv, CompleteSend, Received
  <2>. QED
    BY <1>1, <2>1, CompletedKeeps
<1>7. UNCHANGED vars => UNCHANGED port
  BY DEF vars, kernel
<1>. QED
  BY <1>2, <1>3, <1>4, <1>5, <1>6, <1>7 DEF Next

\* An operation ends with a packet on the port of its key.
LEMMA EndsWith ==
  ASSUME IInv, [Next]_vars, NEW x \in Ctxts, Ends(x)
  PROVE  \E n \in Size : \E ok \in BOOLEAN : Completed(x, n, ok)
<1>1. pend \in [Ctxts -> Operation] /\ 0 \in Size
  BY IInvTypes, ServerExAssumption DEF TypePend, Size
<1>2. UNCHANGED pend => FALSE
  BY DEF Ends, InKernel
<1>3. ASSUME NEW d, NEW n, NEW ok, Completed(d, n, ok) PROVE x = d
  BY <1>1, <1>3 DEF Completed, Ends, InKernel
<1>4. ASSUME NEW d, CloseClient(d) PROVE Completed(x, 0, FALSE)
  BY <1>2, <1>3, <1>4 DEF CloseClient, Cancelled
<1>5. ~AcceptPosted
  BY <1>1, <1>2 DEF AcceptPosted, Ends, InKernel
<1>6. CASE Main
  <2>1. ~MainCreateAcceptSocket
    BY <1>2, <1>5 DEF MainCreateAcceptSocket
  <2>2. MainCloseListen => Completed(x, 0, FALSE)
    BY <1>2, <1>3 DEF MainCloseListen, Cancelled
  <2>3. CtxtListFreeStep => Completed(x, 0, FALSE)
    BY <1>4 DEF CtxtListFreeStep
  <2>. QED
    BY <1>1, <1>2, <1>6, <2>1, <2>2, <2>3, MainKernel DEF kernel
<1>7. ASSUME NEW t \in Threads, Worker(t) PROVE Completed(x, 0, FALSE)
  <2>1. IoOf(t)
    BY <1>2, <1>7, Freed, WorkerFrame DEF kernel, IInv, WorkerGet, WorkerCheck
  <2>2. ~WorkerRepost(t) /\ ~WorkerAccept(t)
    BY <1>2, <1>5 DEF WorkerRepost, WorkerAccept
  <2>3. ASSUME NEW c, NEW op \in {"recv", "send"}, NEW off, NEW len, Issue(t, c, op, off, len) PROVE Completed(x, 0, FALSE)
    <3>1. pend' # [pend EXCEPT ![c] = [op |-> op, off |-> off, len |-> len]]
      BY <1>1 DEF Ends, InKernel
    <3>. QED
      BY <1>4, <2>3, <3>1 DEF Issue
  <2>4. WorkerFirst(t) => Completed(x, 0, FALSE)
    BY <2>3 DEF WorkerFirst
  <2>5. WorkerRead(t) \/ WorkerWrite(t) => Completed(x, 0, FALSE)
    BY <2>3 DEF WorkerRead, WorkerWrite
  <2>6. WorkerDropped(t) => Completed(x, 0, FALSE)
    BY <1>4 DEF WorkerDropped
  <2>. QED
    BY <2>1, <2>2, <2>4, <2>5, <2>6, IoOfIs
<1>8. CtrlEvent \/ CtrlHandler => UNCHANGED pend
  BY CtrlFrame DEF kernel
<1>9. ASSUME NEW c \in Conns, Kernel(c) \/ Client(c)
      PROVE  \E n \in Size : \E ok \in BOOLEAN : Completed(x, n, ok)
  <2>1. CASE CompleteRecv(c)
    <3>1. ASSUME NEW y \in Ctxts, Received(y, c) PROVE \E n \in Size : \E ok \in BOOLEAN : Completed(y, n, ok)
      BY <1>1, <3>1, ReceivedSizes DEF Received
    <3>. QED
      BY <1>3, <2>1, <3>1, ListenIsNone DEF CompleteRecv, Conns
  <2>2. CASE CompleteSend(c)
    <3>1. c \in Ctxts /\ pend[c].len \in 0..MAX_BUFF_SIZE /\ MAX_BUFF_SIZE \in Nat
      BY <1>1, ServerExAssumption DEF Conns, Operation, Size
    <3>2. \A n \in 1..pend[c].len : n \in Size
      BY <3>1 DEF Size
    <3>. QED
      BY <1>1, <1>3, <2>2, <3>2 DEF CompleteSend
  <2>. QED
    BY <1>2, <1>9, <2>1, <2>2, KernelFrame
<1>10. UNCHANGED vars => UNCHANGED pend
  BY DEF vars, kernel
<1>. QED
  BY <1>1, <1>2, <1>6, <1>7, <1>8, <1>9, <1>10 DEF Next

LEMMA StepAcceptGoesOn == ASSUME IInv, [Next]_vars PROVE AcceptGoesOn'
<1> SUFFICES ASSUME mpc' = "serve", ~g_hCleanupEvent', ~g_bEndServer', ~list'.uaf, "acceptex" \notin Failures
             PROVE  \/ InKernel(Listen)'
                    \/ \E i \in DOMAIN port'[run'] : port'[run'][i].ctxt = Listen
                    \/ \E t \in Threads : /\ t[1] = run' /\ wpkt'[t].ctxt = Listen
                                          /\ wpc'[t] \in {"got", "io", "first", "repost"}
  BY DEF AcceptGoesOn
<1>1. AcceptPosted => InKernel(Listen)'
  BY IInvTypes, ListenIsNone DEF AcceptPosted, InKernel, TypePend
<1>2. CASE mpc # "serve"
  <2>1. MainCreateAcceptSocket
    BY <1>2, PassMoves, MainMovesOn
  <2>. QED
    BY <1>1, <2>1 DEF MainCreateAcceptSocket
<1>3. CASE mpc = "serve"
  <2>1. run' = run /\ ~g_hCleanupEvent /\ ~g_bEndServer /\ ~list.uaf /\ run \in Runs
    <3>1. ~list.uaf
      BY NextIsAlive DEF Alive, vars, memory
    <3>. QED
      BY <1>3, <3>1, PassMoves, EventStays, EndServerStays, RunIsRun
         DEF MainResetEvent, MainClearEnd, Busy
  <2>2. \/ InKernel(Listen)
        \/ \E i \in DOMAIN port[run] : port[run][i].ctxt = Listen
        \/ \E t \in Threads : /\ t[1] = run /\ wpkt[t].ctxt = Listen
                              /\ wpc[t] \in {"got", "io", "first", "repost"}
    BY <1>3, <2>1 DEF IInv, Control, AcceptGoesOn
  <2>3. CASE InKernel(Listen) /\ ~InKernel(Listen)'
    <3>1. Ends(Listen)
      BY <2>3 DEF Ends, InKernel
    <3>2. \E n \in Size : \E ok \in BOOLEAN : Completed(Listen, n, ok)
      BY <3>1, EndsWith, ListenIsNone
    <3>3. key[Listen] = run
      BY <2>3, ListenWhen
    <3>. QED
      BY <2>1, <3>2, <3>3, CompletedIsThere, IInvTypes DEF TypePort
  <2>4. ASSUME NEW i \in DOMAIN port[run], port[run][i].ctxt = Listen
        PROVE  \/ \E j \in DOMAIN port'[run] : port'[run][j].ctxt = Listen
               \/ \E t \in Threads : t[1] = run /\ wpkt'[t].ctxt = Listen /\ wpc'[t] = "got"
    <3>1. CASE \E j \in DOMAIN port'[run] : port'[run][j] = port[run][i]
      BY <2>4, <3>1
    <3>2. ASSUME NEW t \in Threads, WorkerGet(t), t[1] = run, wpkt'[t] = port[run][i]
          PROVE  wpkt'[t].ctxt = Listen /\ wpc'[t] = "got"
      BY <2>4, <3>2, ListenIsNone, IInvTypes DEF WorkerGet, TypeWorker
    <3>. QED
      BY <1>3, <2>1, <3>1, <3>2, PacketsStay
  <2>5. ASSUME NEW t \in Threads, t[1] = run, wpkt[t].ctxt = Listen, wpc[t] \in {"got", "io", "first", "repost"}
        PROVE  InKernel(Listen)' \/ (wpkt'[t].ctxt = Listen /\ wpc'[t] \in {"got", "io", "first", "repost"})
    <3>1. wpkt'[t] = wpkt[t]
      BY <2>5, WpktMoves
    <3>2. WorkerRepost(t) => InKernel(Listen)'
      BY <1>1 DEF WorkerRepost
    <3>3. IoOf(t) /\ (WorkerDropped(t) \/ WorkerRead(t) \/ WorkerWrite(t)) => FALSE
      BY <2>5, ConnHandler
    <3>4. ~MainCreateThreads /\ (WorkerGet(t) => wpc[t] = "gqcs")
      BY <1>3 DEF MainCreateThreads, WorkerGet
    <3>5. wpc'[t] # wpc[t] => InKernel(Listen)' \/ wpc'[t] \in {"io", "first", "repost"}
      BY <2>1, <2>5, <3>2, <3>3, <3>4, WpcMoves
    <3>. QED
      BY <2>5, <3>1, <3>5
  <2>. QED
    BY <2>1, <2>2, <2>3, <2>4, <2>5
<1>. QED
  BY <1>2, <1>3

-----------------------------------------------------------------------------
(* Every connection *)

\* The first operation makes a connection old for good, and until then
\* nothing points to it.
LEMMA NewBefore ==
  ASSUME IInv, [Next]_vars, NEW c \in Conns, IsNew(c)'
  PROVE  /\ IsNew(c) /\ Unseen(c) /\ conn[c].echoed = <<>>
         /\ \A t \in Threads : IoOf(t) /\ WorkerFirst(t) => SocketAccept # c
         /\ \A t \in Threads : IoOf(t) /\ (WorkerDropped(t) \/ WorkerRead(t) \/ WorkerWrite(t)) => wpkt[t].ctxt # c
<1>1. io \in [Ctxts -> IoContext] /\ c \in Ctxts /\ c # Listen
  BY IInvTypes DEF TypeIo, Conns
<1>2. ASSUME NEW t \in Threads, IoOf(t), WorkerFirst(t), SocketAccept = c PROVE FALSE
  <2>1. io'[c].IOOperation \in {"ClientIoRead", "ClientIoWrite"}
    BY <1>1, <1>2 DEF WorkerFirst, IoContext
  <2>. QED
    BY <2>1 DEF IsNew
<1>3. ASSUME NEW t \in Threads, IoOf(t), WorkerRead(t) \/ WorkerWrite(t), wpkt[t].ctxt = c
      PROVE  FALSE
  <2>1. ~IsNew(c)
    BY <1>3, ConnHandler
  <2>2. WorkerRead(t) => io'[c].IOOperation = "ClientIoWrite"
    BY <1>1, <1>3 DEF WorkerRead, IoContext
  <2>3. WorkerWrite(t) => io'[c].IOOperation \in {"ClientIoWrite", "ClientIoRead"}
    BY <1>1, <1>3 DEF WorkerWrite, IoContext
  <2>. QED
    BY <1>3, <2>2, <2>3 DEF IsNew
<1>4. IsNew(c)
  <2>1. ASSUME NEW t \in Threads, IoOf(t), WorkerAccept(t), wpkt[t].ok, c = SocketAccept PROVE IsNew(c)
    <3>1. ~WorkerRepost(t)
      BY <2>1 DEF WorkerAccept, WorkerRepost
    <3>. QED
      BY <2>1, <3>1, AcceptHandler
  <2>2. io'[c].IOOperation = io[c].IOOperation => IsNew(c)
    BY DEF IsNew
  <2>. QED
    BY <1>1, <1>2, <1>3, <2>1, <2>2, IoMoves
<1>5. ASSUME NEW t \in Threads, IoOf(t), WorkerDropped(t) PROVE wpkt[t].ctxt # c
  BY <1>4, <1>5, ConnHandler
<1>6. New(c)
  BY DEF IInv, Good
<1>. QED
  BY <1>2, <1>3, <1>4, <1>5, <1>6 DEF New

LEMMA UnseenStays ==
  ASSUME IInv, [Next]_vars, NEW c \in Conns, Unseen(c), ~InKernel(c)' PROVE Unseen(c)'
<1>1. PICK s \in [Runs -> 0..1] : PacketsFrom(s)
  BY PacketMoves
<1>2. c \in Ctxts /\ c # NULL
  BY NullAssumption DEF Conns
<1>3. ASSUME NEW r \in Runs, NEW i \in DOMAIN port'[r] PROVE port'[r][i].ctxt # c
  BY <1>1, <1>2 DEF PacketsFrom, Unseen, Ends
<1>4. ASSUME NEW t \in Threads PROVE wpkt'[t].ctxt # c
  BY WpktMoves DEF Unseen, Threads
<1>. QED
  BY <1>3, <1>4 DEF Unseen

LEMMA StepNew == ASSUME IInv, [Next]_vars, NEW c \in Conns PROVE New(c)'
<1>1. New(c) /\ c \in Ctxts /\ c # Listen
  BY DEF IInv, Good, Conns
<1>2. conn \in [Conns -> Connection]
  BY IInvTypes DEF TypeConn
<1>3. CompleteRecv(c) => /\ conn'[c].echoed = conn[c].echoed
                         /\ InKernel(c) \/ SocketAccept = c \/ conn'[c] = conn[c]
  BY <1>2 DEF CompleteRecv, Received, InKernel, Connection
<1>4. ClientSend(c) \/ ClientClose(c) => conn'[c].echoed = conn[c].echoed /\ conn'[c].nrecvd = conn[c].nrecvd
  BY <1>2 DEF ClientSend, ClientClose, Connection
<1>5. CompleteSend(c) => InKernel(c)
  BY DEF CompleteSend, InKernel
<1>6. ASSUME IsNew(c)' PROVE Unseen(c)' /\ conn'[c].echoed = <<>>
  <2>1. /\ IsNew(c) /\ Unseen(c) /\ conn[c].echoed = <<>>
        /\ \A t \in Threads : IoOf(t) /\ WorkerFirst(t) => SocketAccept # c
        /\ \A t \in Threads : IoOf(t) /\ (WorkerDropped(t) \/ WorkerRead(t) \/ WorkerWrite(t)) => wpkt[t].ctxt # c
    BY <1>6, NewBefore
  <2>2. ~InKernel(c)'
    <3>1. pend'[c] = pend[c] \/ pend'[c] = Idle
      BY <1>1, <2>1, PendMoves
    <3>. QED
      BY <2>1, <3>1 DEF Unseen, InKernel, Idle
  <2>3. conn'[c].echoed = conn[c].echoed
    BY <1>3, <1>4, <1>5, <2>1, ConnMoves DEF Unseen
  <2>. QED
    BY <2>1, <2>2, <2>3, UnseenStays
<1>7. ASSUME sock'[c] \in {"none", "backlog"}
      PROVE  IsNew(c)' /\ conn'[c].nrecvd = 0 /\ SocketAccept' # c
  <2>1. sock[c] \in {"none", "backlog"} /\ ~AcceptConnect(c)
    BY <1>7, SockMoves, IInvTypes DEF AcceptConnect, TypeSock
  <2>2. IsNew(c) /\ conn[c].nrecvd = 0 /\ SocketAccept # c /\ ~InKernel(c)
    BY <1>1, <2>1 DEF New, Unseen
  <2>3. ASSUME NEW t \in Threads, IoOf(t), WorkerRead(t) \/ WorkerWrite(t) PROVE wpkt[t].ctxt # c
    BY <2>2, <2>3, ConnHandler
  <2>4. IsNew(c)'
    BY <1>1, <2>2, <2>3, IoMoves DEF IsNew
  <2>5. conn'[c].nrecvd = 0
    BY <1>3, <1>4, <1>5, <2>2, ConnMoves
  <2>6. SocketAccept' # c
    BY <2>1, <2>2, SocketAcceptMoves
  <2>. QED
    BY <2>4, <2>5, <2>6
<1>. QED
  BY <1>6, <1>7 DEF New

\* When a worker of the pass sets up the connection c.
LEMMA InSetup ==
  ASSUME IInv, [Next]_vars, NEW t \in Threads, t[1] = run, wpc[t] \in {"first", "repost"}
  PROVE  /\ run' = run /\ ~MainCreateAcceptSocket /\ ~MainFreeListen /\ ~CtxtListFreeStep
         /\ ~InKernel(Listen) /\ WithWorker(Listen, t)
<1>1. g_pCtxtListenSocket = Listen /\ WithWorker(Listen, t)
  BY SettingUp
<1>2. mpc \in {"serve", "finally", "post", "join", "closeListen", "freeListen"}
  BY <1>1, ListenWhen, ListenIsNone
<1>3. mpc # "freeListen"
  BY <1>1 DEF IInv, Control, Ending
<1>. QED
  BY <1>1, <1>2, <1>3, PassMoves, OnlyListener
     DEF MainResetEvent, MainCreateAcceptSocket, MainFreeListen, CtxtListFreeStep

LEMMA StepSocket == ASSUME IInv, [Next]_vars, NEW c \in Conns PROVE Socket(c)'
<1>1. Socket(c) /\ New(c) /\ Accepting(c) /\ c \in Ctxts /\ c # Listen
  BY DEF IInv, Good, Conns
<1> SUFFICES ASSUME InKernel(c)' \/ c \in list'.live \/ (SocketAccept' = c /\ IsNew(c)')
             PROVE  sock'[c] = "open"
  BY DEF Socket
<1>2. ASSUME NEW t \in Threads, IoOf(t), WorkerFirst(t) \/ (WorkerAccept(t) /\ wpkt[t].ok)
      PROVE  sock[SocketAccept] = "open"
  <2>1. ~WorkerRepost(t) /\ wpkt[t].ok
    BY <1>2, AcceptHandler DEF WorkerAccept, WorkerFirst, WorkerRepost
  <2>. QED
    BY <1>2, <2>1, AcceptHandler
<1>3. InKernel(c)' => sock[c] = "open"
  <2>1. CASE InKernel(c)
    BY <1>1, <2>1 DEF Socket
  <2>2. CASE InKernel(c)' /\ ~InKernel(c)
    <3>1. pend'[c] # pend[c] /\ pend'[c] # Idle
      BY <2>2 DEF InKernel, Idle
    <3>. QED
      BY <1>1, <1>2, <3>1, PendMoves, ConnHandler
  <2>. QED
    BY <2>1, <2>2
<1>4. c \in list'.live => sock[c] = "open"
  <2>1. c \in list.live => sock[c] = "open"
    BY <1>1 DEF Socket
  <2>. QED
    BY <1>1, <1>2, <2>1, LiveMoves
<1>5. SocketAccept' = c /\ IsNew(c)' => sock[c] = "open" \/ sock'[c] = "open"
  <2>1. SocketAccept = c /\ IsNew(c) => sock[c] = "open"
    BY <1>1 DEF Socket
  <2>2. AcceptConnect(c) => sock'[c] = "open"
    BY IInvTypes DEF AcceptConnect, TypeSock
  <2>. QED
    BY <2>1, <2>2, NewBefore, SocketAcceptMoves
<1>6. CASE sock[c] = "open" /\ sock'[c] # "open"
  <2>1. CASE /\ c \in list.live /\ c \notin list'.live /\ ~InKernel(c)'
             /\ \/ CtxtListFreeStep
                \/ \E t \in Threads :
                     /\ IoOf(t)
                     /\ \/ WorkerFirst(t) /\ c = SocketAccept
                        \/ (WorkerDropped(t) \/ WorkerRead(t) \/ WorkerWrite(t)) /\ c = wpkt[t].ctxt
    <3>1. SocketAccept' = c /\ IsNew(c)'
      BY <2>1
    <3>2. IsNew(c) /\ CtxtListFreeStep
      BY <2>1, <3>1, NewBefore
    <3>3. WorkerOfPass("first")
      BY <1>1, <2>1, <3>2 DEF Accepting
    <3>. QED
      BY <3>2, <3>3, InSetup DEF WorkerOfPass
  <2>2. CASE MainFreeListen /\ c = SocketAccept /\ g_pCtxtListenSocket # NULL
    <3>1. mpc = "freeListen" /\ SocketAccept' = NULL /\ UNCHANGED pend /\ list'.live \subseteq list.live
      BY <2>2, IInvTypes DEF MainFreeListen, TypeList, List
    <3>2. ~WorkerOfPass("first") /\ ~WorkerOfPass("repost")
      BY <2>2, InSetup DEF WorkerOfPass
    <3>3. IsNew(c)
      BY <1>1, <2>2, <3>2 DEF Accepting
    <3>4. ~InKernel(c) /\ c \notin list.live
      BY <1>1, <3>2, <3>3 DEF New, Unseen, Accepting
    <3>. QED
      BY <1>1, <3>1, <3>4, NullAssumption DEF InKernel
  <2>. QED
    BY <1>6, <2>1, <2>2, SockMoves
<1>. QED
  BY <1>3, <1>4, <1>5, <1>6

\* The first data of c wait in the buffer of the listening context.
LEMMA FirstDataStays ==
  ASSUME IInv, [Next]_vars, NEW c \in Conns, SocketAccept = c, IsNew(c), ~InKernel(Listen),
         ~MainCreateAcceptSocket, NEW n, FirstData(c, n)
  PROVE  FirstData(c, n)'
<1>1. New(c) /\ c \in Ctxts /\ c # Listen /\ Listen \in Ctxts
  BY ListenIsNone DEF IInv, Good, Conns
<1>2. conn \in [Conns -> Connection]
  BY IInvTypes DEF TypeConn
<1>3. ~InKernel(c)
  BY <1>1 DEF New, Unseen
<1>4. ~CompleteRecv(c) /\ ~CompleteSend(c)
  BY <1>3 DEF CompleteRecv, CompleteSend, InKernel
<1>5. conn'[c].nrecvd = conn[c].nrecvd
  <2>1. ClientSend(c) \/ ClientClose(c) => conn'[c].nrecvd = conn[c].nrecvd
    BY <1>2 DEF ClientSend, ClientClose, Connection
  <2>. QED
    BY <1>4, <2>1, ConnMoves
<1>6. io'[Listen] = io[Listen]
  <2>1. ASSUME NEW t \in Threads, IoOf(t), WorkerRead(t) \/ WorkerWrite(t) PROVE wpkt[t].ctxt # Listen
    BY <2>1, ConnHandler
  <2>. QED
    BY <1>1, <2>1, IoMoves DEF Conns
<1>. QED
  BY <1>5, <1>6 DEF FirstData

LEMMA LastPacket ==
  ASSUME port \in [Runs -> Seq(Packet)], NEW d, NEW n, NEW ok \in BOOLEAN, Completed(d, n, ok),
         NEW r \in Runs, NEW i \in DOMAIN port'[r], i \notin DOMAIN port[r]
  PROVE  port'[r][i].size = n /\ port'[r][i].ctxt = d
<1>1. port'[r][i] = [ctxt |-> d, size |-> n, ok |-> ok]
  BY CompletedPackets
<1>. QED
  BY <1>1

\* The accept completes with the first data of its connection.
LEMMA FirstDataComes ==
  ASSUME IInv, NEW c \in Conns, CompleteRecv(c), SocketAccept = c, Ends(Listen),
         NEW i \in DOMAIN port'[run], i \notin DOMAIN port[run]
  PROVE  \E n : port'[run][i].size = n /\ FirstData(c, n)'
<1>1. /\ conn[c].nrecvd = 0 /\ pend[Listen] = AcceptOperation /\ run \in Runs
      /\ c # Listen /\ c \in Ctxts /\ Listen \in Ctxts /\ InKernel(Listen)
  BY ListenWhen, ListenIsNone DEF Ends, IInv, Good, Accepting, Control, ListenContext, Conns, AcceptOperation
<1>2. /\ io \in [Ctxts -> IoContext] /\ conn \in [Conns -> Connection] /\ pend \in [Ctxts -> Operation]
      /\ port \in [Runs -> Seq(Packet)]
      /\ MAX_BUFF_SIZE \in Nat /\ AddrSize \in 0..(MAX_BUFF_SIZE - 1)
  BY IInvTypes, ServerExAssumption DEF TypeIo, TypeConn, TypePend, TypePort
<1>3. Received(Listen, c)
  <2>1. Received(c, c) => ~Ends(Listen)
    BY <1>1, <1>2 DEF Received, Completed, Ends, InKernel
  <2>. QED
    BY <2>1 DEF CompleteRecv
<1>4. ASSUME NEW n \in 1..Min2(conn[c].nsent - conn[c].nrecvd, pend[Listen].len),
             io' = [io EXCEPT ![Listen].Buffer =
                     [j \in 1..MAX_BUFF_SIZE |-> IF j <= n THEN Byte(conn[c].nrecvd + j) ELSE @[j]]],
             conn' = [conn EXCEPT ![c].nrecvd = @ + n],
             \E ok \in BOOLEAN : Completed(Listen, n, ok)
      PROVE  port'[run][i].size = n /\ FirstData(c, n)'
  <2>1. n \in Nat /\ n > 0 /\ n <= MAX_BUFF_SIZE - AddrSize /\ n <= MAX_BUFF_SIZE
    <3>1. n \in Nat /\ n > 0 /\ n <= pend[Listen].len
      BY <1>1, ReceivedSizes
    <3>2. pend[Listen].len = MAX_BUFF_SIZE - AddrSize
      BY <1>1 DEF AcceptOperation
    <3>. QED
      BY <1>2, <3>1, <3>2
  <2>2. port'[run][i].size = n
    <3>1. PICK ok \in BOOLEAN : Completed(Listen, n, ok)
      BY <1>4
    <3>. QED
      BY <1>1, <1>2, <3>1, LastPacket
  <2>3. conn'[c].nrecvd = n
    <3> DEFINE m == conn[c].nrecvd + n
    <3>1. m = n
      BY <1>1, <2>1
    <3>2. conn' = [conn EXCEPT ![c].nrecvd = m]
      BY <1>4
    <3>. HIDE DEF m
    <3>. QED
      BY <1>2, <3>1, <3>2 DEF Connection
  <2>4. ASSUME ZeroBytes = {}, NEW j \in 1..n PROVE io'[Listen].Buffer[j] = j
    <3> DEFINE b == [k \in 1..MAX_BUFF_SIZE |-> IF k <= n THEN Byte(conn[c].nrecvd + k) ELSE io[Listen].Buffer[k]]
    <3>1. io' = [io EXCEPT ![Listen].Buffer = b]
      BY <1>4
    <3>2. b[j] = j
      <4>1. j \in 1..MAX_BUFF_SIZE /\ j <= n /\ conn[c].nrecvd + j = j
        BY <1>1, <1>2, <2>1
      <4>. QED
        BY <2>4, <4>1 DEF Byte
    <3>. HIDE DEF b
    <3>3. io'[Listen].Buffer = b
      BY <1>1, <1>2, <3>1 DEF IoContext
    <3>. QED
      BY <3>2, <3>3
  <2>. QED
    BY <2>1, <2>2, <2>3, <2>4 DEF FirstData
<1>5. ASSUME UNCHANGED conn, \E ok \in BOOLEAN : Completed(Listen, 0, ok)
      PROVE  port'[run][i].size = 0 /\ FirstData(c, 0)'
  <2>1. port'[run][i].size = 0
    <3>1. PICK ok \in BOOLEAN : Completed(Listen, 0, ok)
      BY <1>5
    <3>. QED
      BY <1>1, <1>2, <3>1, LastPacket
  <2>2. conn'[c].nrecvd = 0 /\ 0 <= MAX_BUFF_SIZE - AddrSize
    BY <1>1, <1>2, <1>5
  <2>. QED
    BY <2>1, <2>2 DEF FirstData
<1>6. CASE UNCHANGED <<io, conn>> /\ \E ok \in BOOLEAN : Completed(Listen, 0, ok)
  <2>1. port'[run][i].size = 0 /\ FirstData(c, 0)'
    BY <1>5, <1>6
  <2>. QED
    BY <2>1
<1>7. ASSUME NEW n \in 1..Min2(conn[c].nsent - conn[c].nrecvd, pend[Listen].len),
             io' = [io EXCEPT ![Listen].Buffer =
                     [j \in 1..MAX_BUFF_SIZE |-> IF j <= n THEN Byte(conn[c].nrecvd + j) ELSE @[j]]],
             conn' = [conn EXCEPT ![c].nrecvd = @ + n],
             Completed(Listen, n, TRUE)
      PROVE  \E m : port'[run][i].size = m /\ FirstData(c, m)'
  <2>1. \E ok \in BOOLEAN : Completed(Listen, n, ok)
    BY <1>7
  <2>. QED
    BY <1>4, <1>7, <2>1
<1>. QED
  BY <1>3, <1>6, <1>7 DEF Received

LEMMA StepAccepting == ASSUME IInv, [Next]_vars, NEW c \in Conns PROVE Accepting(c)'
<1>1. /\ Accepting(c) /\ New(c) /\ c \in Ctxts /\ c # Listen /\ c # NULL /\ Listen \in Ctxts
      /\ OneHolder(Listen)
  BY NullAssumption, ListenIsNone DEF IInv, Good, Conns, OneOperation
<1>2. conn \in [Conns -> Connection]
  BY IInvTypes DEF TypeConn
<1>3. ASSUME NEW t \in Threads, t[1] = run, wpc[t] \in {"first", "repost"}, SocketAccept = c, ~WorkerRepost(t)
      PROVE  SocketAccept' = c
  <2>1. ~MainCreateAcceptSocket /\ ~MainFreeListen /\ ~InKernel(Listen)
    BY <1>3, InSetup
  <2>2. ASSUME NEW u \in Threads, IoOf(u), WorkerRepost(u) PROVE u = t
    <3>1. wpkt[u].ok
      BY <2>2, AcceptHandler DEF WorkerRepost, WorkerAccept
    <3>. QED
      BY <1>3, <2>2, <3>1, AcceptHandler
  <2>. QED
    BY <1>3, <2>1, <2>2, SocketAcceptMoves
<1>4. ASSUME IsNew(c)', c \in list'.live PROVE SocketAccept' = c /\ WorkerOfPass("first")'
  <2>1. IsNew(c) /\ \A t \in Threads : IoOf(t) /\ WorkerFirst(t) => SocketAccept # c
    BY <1>4, NewBefore
  <2>2. CASE c \in list.live
    <3>1. SocketAccept = c /\ WorkerOfPass("first")
      BY <1>1, <2>1, <2>2 DEF Accepting
    <3>2. PICK t \in Threads : t[1] = run /\ wpc[t] = "first"
      BY <3>1 DEF WorkerOfPass
    <3>3. SocketAccept' = c
      BY <1>3, <3>1, <3>2 DEF WorkerRepost
    <3>4. wpc'[t] = "first" /\ run' = run
      BY <2>1, <3>1, <3>2, WpcMoves, InSetup DEF WorkerGet, MainCreateThreads, IInv, Control, Passes
    <3>. QED
      BY <3>2, <3>3, <3>4 DEF WorkerOfPass
  <2>3. CASE c \notin list.live
    <3>1. PICK t \in Threads : IoOf(t) /\ WorkerAccept(t) /\ wpkt[t].ok /\ c = SocketAccept /\ wpc'[t] = "first"
      BY <1>1, <1>4, <2>3, LiveMoves
    <3>2. t[1] = run /\ SocketAccept' = SocketAccept /\ run' = run
      BY <3>1, AcceptHandler DEF WorkerAccept, main
    <3>. QED
      BY <3>1, <3>2 DEF WorkerOfPass
  <2>. QED
    BY <2>2, <2>3
<1>5. CASE SocketAccept' = c /\ SocketAccept # c
  <2>1. AcceptConnect(c) /\ InKernel(Listen)
    BY <1>5, <1>1, SocketAcceptMoves, ListenIsNone DEF AcceptConnect
  <2>2. IsNew(c) /\ conn[c].nrecvd = 0
    BY <1>1, <2>1 DEF New, AcceptConnect
  <2>3. UNCHANGED <<io, conn, port, wpkt, wpc, run>>
    BY <2>1 DEF AcceptConnect, main, worker, memory
  <2>4. IsNew(c)' /\ conn'[c].nrecvd = 0
    BY <2>2, <2>3 DEF IsNew
  <2>5. (\A i \in DOMAIN port[run] : ~OnPort(Listen, run, i))'
    <3>1. run \in Runs
      BY <2>1, ListenWhen
    <3>. QED
      BY <1>1, <2>1, <2>3, <3>1 DEF OneHolder, OnPort, OfPass
  <2>6. \A t \in Threads : ~WithWorker(Listen, t)'
    <3>1. ASSUME NEW t \in Threads, WithWorker(Listen, t)' PROVE WithWorker(Listen, t)
      BY <1>1, <1>5, <2>3, <3>1 DEF WithWorker, OfPass
    <3>. QED
      BY <1>1, <2>1, <3>1 DEF OneHolder
  <2>7. (InKernel(Listen) => conn[c].nrecvd = 0)'
    BY <2>4
  <2>8. (\A i \in DOMAIN port[run] : OnPort(Listen, run, i) => FirstData(c, port[run][i].size))'
    BY <2>5
  <2>9. (\A t \in Threads : WithWorker(Listen, t) /\ wpc[t] # "repost" => FirstData(c, wpkt[t].size))'
    BY <2>6
  <2>. QED
    BY <1>4, <2>4, <2>7, <2>8, <2>9 DEF Accepting
<1>6. CASE SocketAccept' = c /\ SocketAccept = c
  <2>1. /\ IsNew(c) \/ WorkerOfPass("repost")
        /\ InKernel(Listen) => conn[c].nrecvd = 0
        /\ \A i \in DOMAIN port[run] : OnPort(Listen, run, i) => FirstData(c, port[run][i].size)
        /\ \A t \in Threads : WithWorker(Listen, t) /\ wpc[t] # "repost" => FirstData(c, wpkt[t].size)
    BY <1>1, <1>6 DEF Accepting
  <2>2. IsNew(c)' \/ WorkerOfPass("repost")'
    <3>1. CASE IsNew(c)
      <4>1. ASSUME NEW t \in Threads, IoOf(t), WorkerRead(t) \/ WorkerWrite(t) PROVE wpkt[t].ctxt # c
        BY <3>1, <4>1, ConnHandler
      <4>2. FreshIo("ClientIoAccept").IOOperation = "ClientIoAccept"
        BY DEF FreshIo
      <4>3. IsNew(c)' \/ \E t \in Threads : IoOf(t) /\ WorkerFirst(t)
        BY <1>1, <3>1, <4>1, <4>2, IoMoves DEF IsNew
      <4>4. ASSUME NEW t \in Threads, IoOf(t), WorkerFirst(t) PROVE WorkerOfPass("repost")'
        <5>1. t[1] = run /\ run' = run /\ wpc'[t] = "repost"
          BY <4>4, AcceptHandler, IInvTypes DEF WorkerFirst, main, TypeWorker
        <5>. QED
          BY <5>1 DEF WorkerOfPass
      <4>. QED
        BY <4>3, <4>4
    <3>2. CASE WorkerOfPass("repost")
      <4>1. PICK t \in Threads : t[1] = run /\ wpc[t] = "repost"
        BY <3>2 DEF WorkerOfPass
      <4>2. run' = run
        BY <4>1, InSetup
      <4>3. ~WorkerRepost(t)
        BY <1>1, <1>6 DEF WorkerRepost
      <4>4. wpc'[t] = "repost"
        BY <4>1, <4>3, WpcMoves DEF MainCreateThreads, IInv, Control, Passes
      <4>. QED
        BY <4>1, <4>2, <4>4 DEF WorkerOfPass
    <3>. QED
      BY <2>1, <3>1, <3>2
  <2>3. ~MainCreateAcceptSocket /\ \A t \in Threads : IoOf(t) => ~WorkerRepost(t)
    <3>1. MainCreateAcceptSocket => g_pCtxtListenSocket = NULL
      BY ListenWhen DEF MainCreateAcceptSocket
    <3>2. g_pCtxtListenSocket = NULL => SocketAccept \notin Conns
      BY DEF IInv, Control, ListenContext
    <3>. QED
      BY <1>1, <1>6, <3>1, <3>2 DEF WorkerRepost
  <2>4. InKernel(Listen)' => InKernel(Listen)
    <3>1. ASSUME InKernel(Listen)', ~InKernel(Listen) PROVE pend'[Listen] # pend[Listen] /\ pend'[Listen] # Idle
      BY <3>1 DEF InKernel, Idle
    <3>2. ASSUME NEW t \in Threads, IoOf(t), WorkerRead(t) \/ WorkerWrite(t) PROVE wpkt[t].ctxt # Listen
      BY <3>2, ConnHandler
    <3>. QED
      BY <1>1, <1>6, <2>3, <3>1, <3>2, PendMoves
  <2>5. ASSUME InKernel(Listen)' PROVE conn'[c].nrecvd = 0
    <3>1. conn[c].nrecvd = 0 /\ InKernel(Listen)
      BY <2>1, <2>4, <2>5
    <3>2. ~WorkerOfPass("repost")
      BY <3>1, InSetup DEF WorkerOfPass
    <3>3. ~InKernel(c)
      BY <1>1, <2>1, <3>2 DEF New, Unseen
    <3>4. ~CompleteRecv(c) /\ ~CompleteSend(c)
      <4>1. Received(Listen, c) => pend' = [pend EXCEPT ![Listen] = Idle]
        BY DEF Received, Completed
      <4>2. Received(Listen, c) => ~InKernel(Listen)'
        BY <1>1, <4>1, IInvTypes DEF InKernel, TypePend, Idle
      <4>. QED
        BY <2>5, <3>3, <4>2 DEF CompleteRecv, CompleteSend, InKernel
    <3>5. ClientSend(c) \/ ClientClose(c) => conn'[c].nrecvd = conn[c].nrecvd
      BY <1>2 DEF ClientSend, ClientClose, Connection
    <3>. QED
      BY <3>1, <3>4, <3>5, ConnMoves
  <2>6. ASSUME NEW r \in Runs, r = run, NEW i \in DOMAIN port'[r], OnPort(Listen, r, i)'
        PROVE  \E m : m = port'[r][i].size /\ FirstData(c, m)'
    <3>1. PICK s \in [Runs -> 0..1] : PacketsFrom(s)
      BY PacketMoves
    <3>2. CASE i + s[r] \in DOMAIN port[r] /\ OnPort(Listen, r, i + s[r]) /\ port'[r][i] = port[r][i + s[r]]
      <4>1. ~InKernel(Listen) /\ ~WorkerOfPass("repost")
        BY <1>1, <3>2, SettingUp DEF OneHolder, WorkerOfPass
      <4>2. IsNew(c) /\ FirstData(c, port[r][i + s[r]].size)
        BY <2>1, <2>6, <3>2, <4>1
      <4>3. ASSUME NEW m, FirstData(c, m) PROVE FirstData(c, m)'
        BY <1>6, <2>3, <4>1, <4>2, <4>3, FirstDataStays
      <4>4. PICK m : m = port[r][i + s[r]].size /\ FirstData(c, m)'
        BY <4>2, <4>3
      <4>. QED
        BY <3>2, <4>4
    <3>3. CASE Ends(Listen) /\ Succeeds(Listen) /\ i = Len(port[r]) + 1
      <4>1. CompleteRecv(c)
        BY <1>6, <3>3 DEF Succeeds
      <4>2. i \notin DOMAIN port[r]
        BY <3>3, IInvTypes DEF TypePort
      <4>. QED
        BY <1>6, <2>6, <3>3, <4>1, <4>2, FirstDataComes
    <3>. QED
      BY <1>1, <2>6, <3>1, <3>2, <3>3, OnPortMoves
  <2>7. ASSUME NEW t \in Threads, WithWorker(Listen, t)', wpc'[t] # "repost"
        PROVE  FirstData(c, wpkt[t].size)'
    <3>1. CASE WithWorker(Listen, t) /\ wpkt'[t] = wpkt[t]
      <4>1. wpc[t] # "repost"
        BY <2>3, <2>7, <3>1, WpcMoves DEF WithWorker
      <4>2. ~InKernel(Listen) /\ ~WorkerOfPass("repost")
        BY <3>1, <4>1, OnlyListener, SettingUp DEF WorkerOfPass
      <4>3. IsNew(c) /\ FirstData(c, wpkt[t].size)
        BY <2>1, <3>1, <4>1, <4>2
      <4>4. ASSUME NEW m, FirstData(c, m) PROVE FirstData(c, m)'
        BY <1>6, <2>3, <4>2, <4>3, <4>4, FirstDataStays
      <4>5. PICK m : m = wpkt[t].size /\ FirstData(c, m)'
        BY <4>3, <4>4
      <4>6. m = wpkt'[t].size
        BY <3>1, <4>5
      <4>. QED
        BY <4>5, <4>6 DEF FirstData
    <3>2. CASE WorkerGet(t) /\ 1 \in DOMAIN port[t[1]] /\ OnPort(Listen, t[1], 1) /\ wpkt'[t] = port[t[1]][1]
      <4>1. t[1] = run
        BY <3>2 DEF OnPort, OfPass
      <4>2. FirstData(c, port[run][1].size)
        BY <2>1, <3>2, <4>1
      <4>3. UNCHANGED <<conn, io>>
        BY <3>2 DEF WorkerGet, memory
      <4>4. PICK m : m = port[run][1].size /\ FirstData(c, m)
        BY <4>2
      <4>5. FirstData(c, m)' /\ m = wpkt'[t].size
        BY <3>2, <4>1, <4>3, <4>4 DEF FirstData
      <4>. QED
        BY <4>5 DEF FirstData
    <3>3. CASE IoOf(t) /\ WorkerAccept(t) /\ Listen = SocketAccept
      BY <1>1, <1>6, <3>3
    <3>. QED
      BY <1>1, <2>7, <3>1, <3>2, <3>3, WithWorkerMoves
  <2>8. (\A i \in DOMAIN port[run] : OnPort(Listen, run, i) => FirstData(c, port[run][i].size))'
    <3>1. g_pCtxtListenSocket = Listen
      BY <1>1, <1>6, ListenWhen DEF IInv, Control, ListenContext
    <3>2. run' = run /\ run \in Runs
      BY <3>1, PassMoves, ListenWhen, ListenIsNone, RunIsRun DEF MainResetEvent, Busy
    <3>3. PICK r \in Runs : r = run
      BY <3>2
    <3>4. SUFFICES ASSUME NEW i \in DOMAIN port'[run'], OnPort(Listen, run, i)'
                   PROVE  FirstData(c, port[run][i].size)'
      OBVIOUS
    <3>5. OnPort(Listen, r, i)' /\ i \in DOMAIN port'[r]
      BY <3>2, <3>3, <3>4 DEF OnPort, OfPass
    <3>6. PICK m : m = port'[r][i].size /\ FirstData(c, m)'
      BY <2>6, <3>3, <3>5
    <3>7. m = port'[run'][i].size
      BY <3>2, <3>3, <3>6
    <3>. QED
      BY <3>6, <3>7 DEF FirstData
  <2>9. (\A t \in Threads : WithWorker(Listen, t) /\ wpc[t] # "repost" => FirstData(c, wpkt[t].size))'
    BY <2>7
  <2>10. (InKernel(Listen) => conn[c].nrecvd = 0)'
    BY <2>5
  <2>. QED
    BY <1>4, <2>2, <2>8, <2>9, <2>10 DEF Accepting
<1>. QED
  BY <1>4, <1>5, <1>6 DEF Accepting

-----------------------------------------------------------------------------
(* The echo protocol *)

EchoPend(c) ==
    /\ pend[c].op # "accept"
    /\ pend[c].op = "recv" => /\ io[c].IOOperation = "ClientIoRead"
                              /\ pend[c].off = 0
                              /\ Len(conn[c].echoed) = conn[c].nrecvd
    /\ pend[c].op = "send" => /\ io[c].IOOperation = "ClientIoWrite"
                              /\ pend[c].off = io[c].nSentBytes
                              /\ pend[c].off + pend[c].len = io[c].nTotalBytes
                              /\ NextInBuffer(c, pend[c].off, pend[c].len)
EchoPort(c) ==
    \A r \in Runs : \A i \in DOMAIN port[r] : OnPort(c, r, i) => AfterSuccess(c, port[r][i].size)
EchoWorker(c) ==
    \A t \in Threads :
        wpc[t] \in {"got", "io"} /\ wpkt[t].ctxt = c /\ wpkt[t].ok => AfterSuccess(c, wpkt[t].size)
NotAhead(c) == conn[c].nrecvd <= conn[c].nsent

LEMMA EchoParts ==
  ASSUME NEW c PROVE Echo(c) <=> EchoPend(c) /\ EchoPort(c) /\ EchoWorker(c) /\ NotAhead(c)
BY DEF Echo, EchoPend, EchoPort, EchoWorker, NotAhead

LEMMA EchoPartsNext ==
  ASSUME NEW c, EchoPend(c)', EchoPort(c)', EchoWorker(c)', NotAhead(c)' PROVE Echo(c)'
BY DEF Echo, EchoPend, EchoPort, EchoWorker, NotAhead

LEMMA StepNotAhead == ASSUME IInv, [Next]_vars, NEW c \in Conns PROVE NotAhead(c)'
<1>1. /\ conn \in [Conns -> Connection] /\ NotAhead(c) /\ MaxBytes \in Nat
      /\ c \in Ctxts /\ Listen \in Ctxts
  BY IInvTypes, ServerExAssumption DEF TypeConn, IInv, Good, Echo, NotAhead, Conns
<1>2. ASSUME NEW x \in Ctxts, Received(x, c) PROVE NotAhead(c)'
  <2>1. ASSUME NEW n \in 1..Min2(conn[c].nsent - conn[c].nrecvd, pend[x].len),
               conn' = [conn EXCEPT ![c].nrecvd = @ + n]
        PROVE  NotAhead(c)'
    <3> DEFINE m == conn[c].nrecvd + n
    <3>1. m <= conn[c].nsent
      BY ReceivedSizes
    <3>2. conn' = [conn EXCEPT ![c].nrecvd = m]
      BY <2>1
    <3>. HIDE DEF m
    <3>3. conn'[c].nrecvd = m /\ conn'[c].nsent = conn[c].nsent
      BY <1>1, <3>2 DEF Connection
    <3>. QED
      BY <3>1, <3>3 DEF NotAhead
  <2>2. CASE UNCHANGED conn
    BY <1>1, <2>2 DEF NotAhead
  <2>. QED
    BY <1>2, <2>1, <2>2 DEF Received
<1>3. CASE CompleteSend(c)
  <2>1. conn'[c].nrecvd = conn[c].nrecvd /\ conn'[c].nsent = conn[c].nsent
    BY <1>1, <1>3 DEF CompleteSend, Connection
  <2>. QED
    BY <1>1, <2>1 DEF NotAhead
<1>4. CASE ClientSend(c)
  <2>1. conn'[c].nrecvd = conn[c].nrecvd /\ conn'[c].nsent = conn[c].nsent + 1
    BY <1>1, <1>4 DEF ClientSend, Connection
  <2>2. conn[c].nrecvd \in Nat /\ conn[c].nsent \in Nat
    BY <1>1 DEF Connection
  <2>. QED
    BY <1>1, <2>1, <2>2 DEF NotAhead
<1>5. CASE ClientClose(c)
  <2>1. conn'[c].nrecvd = conn[c].nrecvd /\ conn'[c].nsent = conn[c].nsent
    BY <1>1, <1>5 DEF ClientClose, Connection
  <2>. QED
    BY <1>1, <2>1 DEF NotAhead
<1>6. CASE conn'[c] = conn[c]
  BY <1>1, <1>6 DEF NotAhead
<1>. QED
  BY <1>1, <1>2, <1>3, <1>4, <1>5, <1>6, ConnMoves DEF CompleteRecv

\* Nothing is known of what nobody has.
LEMMA EchoOfUnseen ==
  ASSUME IInv, [Next]_vars, NEW c \in Conns, Unseen(c)' PROVE Echo(c)'
<1>1. pend'[c].op = "none"
  BY DEF Unseen, InKernel
<1>2. EchoPend(c)'
  BY <1>1 DEF EchoPend
<1>3. EchoPort(c)'
  BY DEF EchoPort, Unseen, OnPort
<1>4. EchoWorker(c)'
  BY DEF EchoWorker, Unseen
<1>. QED
  BY <1>2, <1>3, <1>4, StepNotAhead, EchoPartsNext

LEMMA Nobody ==
  ASSUME NEW c \in Conns,
         (\A r \in Runs : \A i \in DOMAIN port[r] : ~OnPort(c, r, i))',
         (\A t \in Threads : ~WithWorker(c, t))'
  PROVE  EchoPort(c)' /\ EchoWorker(c)'
<1>1. EchoPort(c)'
  BY DEF EchoPort
<1>2. EchoWorker(c)'
  BY ListenIsNone DEF EchoWorker, WithWorker, OfPass
<1>. QED
  BY <1>1, <1>2

\* A successful operation of c has ended: the packet says how.
LEMMA EchoReported ==
  ASSUME IInv, [Next]_vars, NEW c \in Conns, InKernel(c), NEW n,
         \E ok \in BOOLEAN : Completed(c, n, ok), AfterSuccess(c, n)'
  PROVE  EchoPend(c)' /\ EchoPort(c)' /\ EchoWorker(c)'
<1>1. /\ c \in Ctxts /\ c # Listen /\ OneHolder(c) /\ New(c)
      /\ pend \in [Ctxts -> Operation] /\ port \in [Runs -> Seq(Packet)]
  BY IInvTypes, ListenIsNone DEF TypePend, TypePort, Conns, IInv, OneOperation, Good
<1>2. PICK ok \in BOOLEAN : Completed(c, n, ok)
  OBVIOUS
<1>3. EchoPend(c)'
  BY <1>1, <1>2 DEF Completed, Idle, EchoPend
<1>4. ~IsNew(c)
  BY <1>1 DEF New, Unseen
<1>5. PICK s \in [Runs -> 0..1] : PacketsFrom(s)
  BY PacketMoves
<1>6. ASSUME NEW r \in Runs, NEW i \in DOMAIN port'[r], OnPort(c, r, i)'
      PROVE  port'[r][i].size = n
  <2>1. i = Len(port[r]) + 1
    BY <1>1, <1>5, <1>6, OnPortMoves DEF OneHolder
  <2>2. i \notin DOMAIN port[r]
    BY <1>1, <2>1
  <2>. QED
    BY <1>1, <1>2, <2>2, LastPacket
<1>7. ASSUME NEW t \in Threads, WithWorker(c, t)' PROVE FALSE
  <2>1. ASSUME IoOf(t), WorkerAccept(t), wpkt[t].ok, c = SocketAccept PROVE FALSE
    <3>1. ~WorkerRepost(t)
      BY <2>1 DEF WorkerAccept, WorkerRepost
    <3>. QED
      BY <1>4, <2>1, <3>1, AcceptHandler
  <2>. QED
    BY <1>1, <1>7, <2>1, WithWorkerMoves DEF OneHolder, Threads
<1>8. EchoPort(c)'
  <2>1. SUFFICES ASSUME NEW r \in Runs, NEW i \in DOMAIN port'[r], OnPort(c, r, i)'
                 PROVE  AfterSuccess(c, port[r][i].size)'
    BY DEF EchoPort
  <2>2. port'[r][i].size = n
    BY <1>6, <2>1
  <2>. QED
    BY <2>2 DEF AfterSuccess
<1>9. EchoWorker(c)'
  BY <1>1, <1>7 DEF EchoWorker, WithWorker, OfPass
<1>. QED
  BY <1>3, <1>8, <1>9

\* What is known of c holds while neither its buffer nor its data change.
LEMMA EchoKept ==
  ASSUME IInv, [Next]_vars, NEW c \in Conns, ~IsNew(c), io'[c] = io[c], pend'[c] \in {pend[c], Idle},
         conn'[c].echoed = conn[c].echoed, conn'[c].nrecvd = conn[c].nrecvd, ~Succeeds(c),
         \A t \in Threads : IoOf(t) /\ (WorkerRead(t) \/ WorkerWrite(t)) => wpkt[t].ctxt # c
  PROVE  EchoPend(c)' /\ EchoPort(c)' /\ EchoWorker(c)'
<1>1. c \in Ctxts /\ c # Listen /\ EchoPend(c) /\ EchoPort(c) /\ EchoWorker(c)
  BY EchoParts, ListenIsNone DEF IInv, Good, Conns
<1>2. ASSUME NEW n, AfterSuccess(c, n) PROVE AfterSuccess(c, n)'
  BY <1>2 DEF AfterSuccess, NextInBuffer
<1>3. EchoPend(c)'
  BY <1>1 DEF EchoPend, NextInBuffer, Idle
<1>4. PICK s \in [Runs -> 0..1] : PacketsFrom(s)
  BY PacketMoves
<1>5. ASSUME NEW r \in Runs, NEW i \in DOMAIN port'[r], OnPort(c, r, i)'
      PROVE  \E m : m = port'[r][i].size /\ AfterSuccess(c, m)'
  <2>1. /\ i + s[r] \in DOMAIN port[r] /\ OnPort(c, r, i + s[r])
        /\ port'[r][i] = port[r][i + s[r]]
    BY <1>1, <1>4, <1>5, OnPortMoves
  <2>2. AfterSuccess(c, port[r][i + s[r]].size)
    BY <1>1, <2>1 DEF EchoPort
  <2>3. PICK m : m = port[r][i + s[r]].size /\ AfterSuccess(c, m)'
    BY <1>2, <2>2
  <2>. QED
    BY <2>1, <2>3
<1>6. ASSUME NEW t \in Threads, WithWorker(c, t)', wpc'[t] \in {"got", "io"}
      PROVE  \E m : m = wpkt'[t].size /\ AfterSuccess(c, m)'
  <2>1. CASE WithWorker(c, t) /\ wpkt'[t] = wpkt[t]
    <3>1. CASE wpc[t] \in {"got", "io"} /\ wpkt[t].ctxt = c
      <4>1. AfterSuccess(c, wpkt[t].size)
        BY <1>1, <2>1, <3>1 DEF EchoWorker, WithWorker
      <4>2. PICK m : m = wpkt[t].size /\ AfterSuccess(c, m)'
        BY <1>2, <4>1
      <4>. QED
        BY <2>1, <4>2
    <3>2. CASE ~(wpc[t] \in {"got", "io"} /\ wpkt[t].ctxt = c)
      <4>1. wpc[t] \in {"first", "repost"}
        BY <1>1, <2>1, <3>2 DEF WithWorker, IInv, Control, WorkerPackets
      <4>2. wpc'[t] \notin {"got", "io"}
        BY <4>1, WpcMoves
      <4>. QED
        BY <1>6, <4>2
    <3>. QED
      BY <3>1, <3>2
  <2>2. CASE WorkerGet(t) /\ OnPort(c, t[1], 1) /\ 1 \in DOMAIN port[t[1]] /\ wpkt'[t] = port[t[1]][1]
    <3>1. AfterSuccess(c, port[t[1]][1].size)
      BY <1>1, <2>2 DEF EchoPort, Threads
    <3>2. PICK m : m = port[t[1]][1].size /\ AfterSuccess(c, m)'
      BY <1>2, <3>1
    <3>. QED
      BY <2>2, <3>2
  <2>. QED
    BY <1>1, <1>6, <2>1, <2>2, WithWorkerMoves
<1>7. EchoPort(c)'
  <2>1. SUFFICES ASSUME NEW r \in Runs, NEW i \in DOMAIN port'[r], OnPort(c, r, i)'
                 PROVE  AfterSuccess(c, port[r][i].size)'
    BY DEF EchoPort
  <2>2. PICK m : m = port'[r][i].size /\ AfterSuccess(c, m)'
    BY <1>5, <2>1
  <2>. QED
    BY <2>2 DEF AfterSuccess
<1>8. EchoWorker(c)'
  <2>1. SUFFICES ASSUME NEW t \in Threads, wpc'[t] \in {"got", "io"}, wpkt'[t].ctxt = c, wpkt'[t].ok
                 PROVE  AfterSuccess(c, wpkt[t].size)'
    BY DEF EchoWorker
  <2>2. WithWorker(c, t)'
    BY <1>1, <2>1 DEF WithWorker, OfPass
  <2>3. PICK m : m = wpkt'[t].size /\ AfterSuccess(c, m)'
    BY <1>6, <2>1, <2>2
  <2>. QED
    BY <2>3 DEF AfterSuccess
<1>. QED
  BY <1>3, <1>7, <1>8

LEMMA PostedOrClosed ==
  ASSUME IInv, NEW t \in Threads, NEW c \in Conns, NEW op, NEW off, NEW len, Issue(t, c, op, off, len)
  PROVE  \/ pend'[c] = [op |-> op, off |-> off, len |-> len]
         \/ InKernel(c)' => pend'[c] = pend[c]
<1>1. pend \in [Ctxts -> Operation] /\ c \in Ctxts
  BY IInvTypes DEF TypePend, Conns
<1>2. CASE pend' = [pend EXCEPT ![c] = [op |-> op, off |-> off, len |-> len]]
  BY <1>1, <1>2
<1>3. CASE CloseClient(c)
  <2>1. Cancelled(c) => pend' = pend \/ pend' = [pend EXCEPT ![c] = Idle]
    BY DEF Cancelled, Completed
  <2>2. pend' = pend \/ pend' = [pend EXCEPT ![c] = Idle]
    BY <1>3, <2>1 DEF CloseClient
  <2>. QED
    BY <1>1, <2>2 DEF InKernel, Idle
<1>. QED
  BY <1>2, <1>3 DEF Issue

LEMMA SendPosted ==
  ASSUME NEW c, NEW a, NEW b,
         pend'[c] = [op |-> "send", off |-> a, len |-> b],
         io'[c].IOOperation = "ClientIoWrite", io'[c].nSentBytes = a, io'[c].nTotalBytes = a + b,
         a + b <= MAX_BUFF_SIZE, Len(conn'[c].echoed) + b = conn'[c].nrecvd,
         ZeroBytes = {} => \A j \in 1..b : io'[c].Buffer[a + j] = Len(conn'[c].echoed) + j
  PROVE  EchoPend(c)'
<1>1. NextInBuffer(c, pend[c].off, pend[c].len)'
  BY DEF NextInBuffer
<1>2. (pend[c].op = "send" => /\ io[c].IOOperation = "ClientIoWrite"
                              /\ pend[c].off = io[c].nSentBytes
                              /\ pend[c].off + pend[c].len = io[c].nTotalBytes
                              /\ NextInBuffer(c, pend[c].off, pend[c].len))'
  BY <1>1
<1>. QED
  BY <1>2 DEF EchoPend

\* The first operation on a connection.
LEMMA FirstEcho ==
  ASSUME IInv, [Next]_vars, NEW c \in Conns, NEW t \in Threads, IoOf(t), WorkerFirst(t), c = SocketAccept,
         InKernel(c)'
  PROVE  EchoPend(c)'
<1> DEFINE size == wpkt[t].size
<1>1. /\ Unseen(c) /\ conn[c].echoed = <<>> /\ FirstData(c, size)
  <2>1. wpkt[t].ok /\ ~WorkerRepost(t)
    BY AcceptHandler DEF WorkerFirst, WorkerAccept, WorkerRepost
  <2>. QED
    BY <2>1, AcceptHandler
<1>2. /\ c \in Ctxts /\ Listen \in Ctxts /\ conn' = conn /\ size \in Nat /\ MAX_BUFF_SIZE \in Nat
      /\ AddrSize \in Nat /\ io \in [Ctxts -> IoContext] /\ conn \in [Conns -> Connection]
  BY IInvTypes, ServerExAssumption, ListenIsNone
     DEF WorkerFirst, Conns, TypeWorker, Packet, Size, TypeIo, TypeConn
<1>3. /\ conn[c].nrecvd = size /\ size <= MAX_BUFF_SIZE
      /\ ZeroBytes = {} => \A j \in 1..size : io[Listen].Buffer[j] = j
  BY <1>1, <1>2 DEF FirstData
<1>4. ~InKernel(c) /\ Len(conn[c].echoed) = 0
  BY <1>1 DEF Unseen
<1>5. CASE size > 0
  <2>1. /\ io' = [io EXCEPT ![c] = [IOOperation |-> "ClientIoWrite", nTotalBytes |-> size,
                                    nSentBytes |-> 0, Buffer |-> Copied(io[Listen].Buffer)]]
        /\ Issue(t, c, "send", 0, size)
    BY <1>5 DEF WorkerFirst
  <2>2. pend'[c] = [op |-> "send", off |-> 0, len |-> size]
    BY <1>4, <2>1, PostedOrClosed DEF InKernel
  <2>3. /\ io'[c].IOOperation = "ClientIoWrite" /\ io'[c].nTotalBytes = size /\ io'[c].nSentBytes = 0
        /\ io'[c].Buffer = Copied(io[Listen].Buffer)
    BY <1>2, <2>1
  <2>4. ASSUME ZeroBytes = {}, NEW j \in 1..size PROVE io'[c].Buffer[j] = j
    <3>1. j \in 1..MAX_BUFF_SIZE /\ \A k \in 1..j : k \in 1..size /\ k # 0
      BY <1>2, <1>3
    <3>2. \A k \in 1..j : io[Listen].Buffer[k] = k
      BY <1>3, <2>4, <3>1
    <3>3. j \in 1..j
      BY <3>1, <1>2
    <3>. QED
      BY <2>3, <3>1, <3>2, <3>3 DEF Copied
  <2>5. 0 + size <= MAX_BUFF_SIZE /\ Len(conn'[c].echoed) + size = conn'[c].nrecvd /\ 0 + size = size
    BY <1>2, <1>3, <1>4
  <2>6. ASSUME ZeroBytes = {}, NEW j \in 1..size PROVE io'[c].Buffer[0 + j] = Len(conn'[c].echoed) + j
    <3>1. 0 + j = j /\ Len(conn'[c].echoed) + j = j
      BY <1>2, <1>4
    <3>. QED
      BY <2>4, <2>6, <3>1
  <2>. HIDE DEF size
  <2>. QED
    BY <2>2, <2>3, <2>5, <2>6, SendPosted
<1>6. CASE ~(size > 0)
  <2>1. size = 0
    BY <1>2, <1>6
  <2>2. io' = [io EXCEPT ![c].IOOperation = "ClientIoRead"] /\ Issue(t, c, "recv", 0, MAX_BUFF_SIZE)
    BY <1>6 DEF WorkerFirst
  <2>3. pend'[c] = [op |-> "recv", off |-> 0, len |-> MAX_BUFF_SIZE]
    BY <1>4, <2>2, PostedOrClosed DEF InKernel
  <2>4. io'[c].IOOperation = "ClientIoRead"
    BY <1>2, <2>2 DEF IoContext
  <2>. QED
    BY <1>2, <1>3, <1>4, <2>1, <2>3, <2>4 DEF EchoPend
<1>. QED
  BY <1>5, <1>6

\* A worker passes its connection on to the kernel, or closes it.
LEMMA HandedOn ==
  ASSUME IInv, [Next]_vars, NEW c \in Conns, NEW t \in Threads, IoOf(t),
         WorkerRead(t) \/ WorkerWrite(t), c = wpkt[t].ctxt
  PROVE  /\ wpkt[t].ok /\ WithWorker(c, t) /\ ~InKernel(c) /\ AfterSuccess(c, wpkt[t].size)
         /\ EchoPort(c)' /\ EchoWorker(c)'
<1>1. /\ wpc[t] = "io" /\ wpkt[t].ok /\ wpc'[t] = "gqcs" /\ c # Listen /\ c \in Ctxts /\ ~IsNew(c)
  BY ConnHandler, IInvTypes, ListenIsNone DEF WorkerRead, WorkerWrite, TypeWorker, Conns
<1>2. WithWorker(c, t)
  BY <1>1 DEF WithWorker, OfPass
<1>3. AfterSuccess(c, wpkt[t].size)
  BY <1>1 DEF IInv, Good, Echo
<1>4. OneHolder(c) /\ OneHolder(c)'
  BY <1>1, StepOneHolder DEF IInv, OneOperation
<1>5. ~InKernel(c)
  BY <1>2, <1>4 DEF OneHolder
<1>6. PICK s \in [Runs -> 0..1] : PacketsFrom(s)
  BY PacketMoves
<1>7. ASSUME NEW r \in Runs, NEW i \in DOMAIN port'[r], OnPort(c, r, i)' PROVE FALSE
  BY <1>1, <1>2, <1>4, <1>5, <1>6, <1>7, OnPortMoves DEF OneHolder, Ends
<1>8. ASSUME NEW u \in Threads, WithWorker(c, u)' PROVE FALSE
  <2>1. WithWorker(c, u) => u = t
    BY <1>2, <1>4 DEF OneHolder
  <2>2. ~WithWorker(c, t)'
    BY <1>1 DEF WithWorker
  <2>3. ~(1 \in DOMAIN port[u[1]] /\ OnPort(c, u[1], 1))
    BY <1>2, <1>4 DEF OneHolder, Threads
  <2>4. ~(IoOf(u) /\ WorkerAccept(u) /\ wpkt[u].ok /\ c = SocketAccept)
    BY <1>1, AcceptHandler DEF WorkerAccept, WorkerRepost
  <2>. QED
    BY <1>1, <1>8, <2>1, <2>2, <2>3, <2>4, WithWorkerMoves
<1>9. EchoPort(c)' /\ EchoWorker(c)'
  <2>1. (\A r \in Runs : \A i \in DOMAIN port[r] : ~OnPort(c, r, i))'
    BY <1>7
  <2>2. (\A u \in Threads : ~WithWorker(c, u))'
    BY <1>8
  <2>. QED
    BY <2>1, <2>2, Nobody
<1>. QED
  BY <1>1, <1>2, <1>3, <1>5, <1>9

LEMMA ReadEcho ==
  ASSUME IInv, [Next]_vars, NEW c \in Conns, NEW t \in Threads, IoOf(t), WorkerRead(t), c = wpkt[t].ctxt
  PROVE  EchoPend(c)'
<1> DEFINE size == wpkt[t].size
<1>1. ~InKernel(c) /\ AfterSuccess(c, size) /\ c \in Ctxts
  BY HandedOn DEF Conns
<1>2. /\ io[c].IOOperation = "ClientIoRead" /\ conn' = conn
      /\ io' = [io EXCEPT ![c].IOOperation = "ClientIoWrite", ![c].nTotalBytes = size,
                          ![c].nSentBytes = 0]
      /\ Issue(t, c, "send", 0, size)
  BY DEF WorkerRead
<1>3. io \in [Ctxts -> IoContext] /\ size \in Nat
  BY IInvTypes, ServerExAssumption DEF TypeIo, TypeWorker, Packet, Size
<1>4. /\ io'[c].IOOperation = "ClientIoWrite" /\ io'[c].nTotalBytes = size /\ io'[c].nSentBytes = 0
      /\ io'[c].Buffer = io[c].Buffer
  BY <1>1, <1>2, <1>3 DEF IoContext
<1>5. /\ 0 + size <= MAX_BUFF_SIZE /\ Len(conn'[c].echoed) + size = conn'[c].nrecvd
      /\ ZeroBytes = {} => \A j \in 1..size : io'[c].Buffer[0 + j] = Len(conn'[c].echoed) + j
  BY <1>1, <1>2, <1>4 DEF AfterSuccess, NextInBuffer
<1>6. 0 + size = size
  BY <1>3
<1>7. CASE pend'[c] = [op |-> "send", off |-> 0, len |-> size]
  <2>. HIDE DEF size
  <2>. QED
    BY <1>4, <1>5, <1>6, <1>7, SendPosted
<1>8. CASE ~InKernel(c)'
  BY <1>8 DEF InKernel, EchoPend
<1>. QED
  BY <1>1, <1>2, <1>7, <1>8, PostedOrClosed DEF InKernel

LEMMA WriteEcho ==
  ASSUME IInv, [Next]_vars, NEW c \in Conns, NEW t \in Threads, IoOf(t), WorkerWrite(t), c = wpkt[t].ctxt
  PROVE  EchoPend(c)'
<1> DEFINE size == wpkt[t].size
           sofar == io[c].nSentBytes + size
           total == io[c].nTotalBytes
           rest == total - sofar
<1>1. ~InKernel(c) /\ AfterSuccess(c, size) /\ c \in Ctxts
  BY HandedOn DEF Conns
<1>2. io[c].IOOperation = "ClientIoWrite" /\ conn' = conn
  BY DEF WorkerWrite
<1>3. /\ io \in [Ctxts -> IoContext] /\ conn \in [Conns -> Connection]
      /\ sofar \in Nat /\ total \in Nat /\ Len(conn[c].echoed) \in Nat /\ conn[c].nrecvd \in Nat
  <2>1. /\ io \in [Ctxts -> IoContext] /\ conn \in [Conns -> Connection] /\ wpkt[t].size \in Size
        /\ MAX_BUFF_SIZE \in Nat
    BY IInvTypes, ServerExAssumption DEF TypeIo, TypeConn, TypeWorker, Packet
  <2>2. io[c] \in IoContext /\ conn[c] \in Connection
    BY <1>1, <2>1
  <2>3. io[c].nSentBytes \in Nat /\ io[c].nTotalBytes \in Size
    BY <2>2 DEF IoContext
  <2>4. size \in Nat /\ io[c].nTotalBytes \in Nat
    BY <2>1, <2>3 DEF Size
  <2>5. conn[c].echoed \in Seq(0..MaxBytes) /\ conn[c].nrecvd \in Nat
    BY <2>2 DEF Connection
  <2>6. Len(conn[c].echoed) \in Nat
    BY <2>5
  <2>. QED
    BY <2>1, <2>3, <2>4, <2>5, <2>6
<1>4. sofar <= total /\ NextInBuffer(c, sofar, rest)
  BY <1>1, <1>2 DEF AfterSuccess
<1>5. /\ sofar < total => /\ io' = [io EXCEPT ![c].nSentBytes = sofar]
                          /\ Issue(t, c, "send", sofar, rest)
      /\ ~(sofar < total) => /\ io' = [io EXCEPT ![c].nSentBytes = sofar, ![c].IOOperation = "ClientIoRead"]
                             /\ Issue(t, c, "recv", 0, MAX_BUFF_SIZE)
  BY DEF WorkerWrite, SentSoFar
<1>6. rest \in Nat /\ sofar + rest = total /\ (~(sofar < total) => rest = 0)
  BY <1>3, <1>4
<1>. HIDE DEF sofar, total, rest
<1>7. CASE sofar < total
  <2>1. /\ io'[c].IOOperation = "ClientIoWrite" /\ io'[c].nTotalBytes = total /\ io'[c].nSentBytes = sofar
        /\ io'[c].Buffer = io[c].Buffer
    BY <1>1, <1>2, <1>3, <1>5, <1>7 DEF IoContext, total
  <2>2. /\ sofar + rest <= MAX_BUFF_SIZE /\ Len(conn'[c].echoed) + rest = conn'[c].nrecvd
        /\ ZeroBytes = {} => \A j \in 1..rest : io'[c].Buffer[sofar + j] = Len(conn'[c].echoed) + j
    BY <1>2, <1>4, <2>1 DEF NextInBuffer
  <2>3. CASE pend'[c] = [op |-> "send", off |-> sofar, len |-> rest]
    BY <1>6, <2>1, <2>2, <2>3, SendPosted
  <2>4. CASE ~InKernel(c)'
    BY <2>4 DEF InKernel, EchoPend
  <2>. QED
    BY <1>1, <1>5, <1>7, <2>3, <2>4, PostedOrClosed DEF InKernel
<1>8. CASE ~(sofar < total)
  <2>1. io'[c].IOOperation = "ClientIoRead"
    BY <1>1, <1>3, <1>5, <1>8 DEF IoContext
  <2>2. Len(conn[c].echoed) = conn[c].nrecvd
    <3>1. rest = 0 /\ Len(conn[c].echoed) + rest = conn[c].nrecvd
      BY <1>4, <1>6, <1>8 DEF NextInBuffer
    <3>. QED
      BY <1>3, <3>1
  <2>3. CASE pend'[c] = [op |-> "recv", off |-> 0, len |-> MAX_BUFF_SIZE]
    BY <1>2, <2>1, <2>2, <2>3 DEF EchoPend
  <2>4. CASE ~InKernel(c)'
    BY <2>4 DEF InKernel, EchoPend
  <2>. QED
    BY <1>1, <1>5, <1>8, <2>3, <2>4, PostedOrClosed DEF InKernel
<1>. QED
  BY <1>7, <1>8

\* What was read goes to the beginning of the buffer.
LEMMA RecvEcho ==
  ASSUME IInv, [Next]_vars, NEW c \in Conns, ~IsNew(c), CompleteRecv(c)
  PROVE  EchoPend(c)' /\ EchoPort(c)' /\ EchoWorker(c)'
<1>1. /\ c \in Ctxts /\ io \in [Ctxts -> IoContext] /\ conn \in [Conns -> Connection]
      /\ pend \in [Ctxts -> Operation] /\ MAX_BUFF_SIZE \in Nat /\ EchoPend(c) /\ Accepting(c)
  BY IInvTypes, ServerExAssumption, EchoParts DEF Conns, TypeIo, TypeConn, TypePend, IInv, Good
<1>2. pend[c].op = "recv" /\ Received(c, c)
  <2>1. ~(pend[Listen].op = "accept" /\ SocketAccept = c)
    BY <1>1, InSetup DEF Accepting, WorkerOfPass, InKernel
  <2>. QED
    BY <2>1 DEF CompleteRecv
<1>3. /\ InKernel(c) /\ io[c].IOOperation = "ClientIoRead" /\ Len(conn[c].echoed) = conn[c].nrecvd
      /\ pend[c].len <= MAX_BUFF_SIZE /\ conn[c].nrecvd \in Nat
  <2>1. pend[c] \in Operation
    BY <1>1
  <2>. QED
    BY <1>1, <1>2, <2>1 DEF EchoPend, InKernel, Operation, Size, Connection
<1>4. ASSUME NEW n \in 1..Min2(conn[c].nsent - conn[c].nrecvd, pend[c].len),
             io' = [io EXCEPT ![c].Buffer =
                     [j \in 1..MAX_BUFF_SIZE |-> IF j <= n THEN Byte(conn[c].nrecvd + j) ELSE @[j]]],
             conn' = [conn EXCEPT ![c].nrecvd = @ + n],
             \E ok \in BOOLEAN : Completed(c, n, ok)
      PROVE  EchoPend(c)' /\ EchoPort(c)' /\ EchoWorker(c)'
  <2>1. n \in Nat /\ n <= MAX_BUFF_SIZE
    <3>1. n \in Nat /\ n <= pend[c].len /\ pend[c].len \in Size
      BY <1>1, ReceivedSizes DEF Operation
    <3>. QED
      BY <1>1, <1>3, <3>1 DEF Size
  <2>2. conn'[c].nrecvd = Len(conn[c].echoed) + n /\ conn'[c].echoed = conn[c].echoed
    <3> DEFINE m == conn[c].nrecvd + n
    <3>1. conn' = [conn EXCEPT ![c].nrecvd = m] /\ m = Len(conn[c].echoed) + n
      BY <1>3, <1>4
    <3>. HIDE DEF m
    <3>. QED
      BY <1>1, <3>1 DEF Connection
  <2> DEFINE b == [k \in 1..MAX_BUFF_SIZE |-> IF k <= n THEN Byte(conn[c].nrecvd + k) ELSE io[c].Buffer[k]]
  <2>3. io' = [io EXCEPT ![c].Buffer = b]
    BY <1>4
  <2>4. ASSUME ZeroBytes = {}, NEW j \in 1..n PROVE b[0 + j] = Len(conn'[c].echoed) + j
    <3>1. j \in 1..MAX_BUFF_SIZE /\ j <= n /\ 0 + j = j
      BY <1>1, <2>1
    <3>. QED
      BY <1>3, <2>2, <2>4, <3>1 DEF Byte
  <2>. HIDE DEF b
  <2>5. io'[c].IOOperation = "ClientIoRead" /\ io'[c].Buffer = b
    BY <1>1, <1>3, <2>3 DEF IoContext
  <2>6. 0 + n <= MAX_BUFF_SIZE
    BY <2>1
  <2>7. AfterSuccess(c, n)'
    BY <2>2, <2>4, <2>5, <2>6 DEF AfterSuccess, NextInBuffer
  <2>. QED
    BY <1>3, <1>4, <2>7, EchoReported
<1>5. ASSUME UNCHANGED <<io, conn>>, \E ok \in BOOLEAN : Completed(c, 0, ok)
      PROVE  EchoPend(c)' /\ EchoPort(c)' /\ EchoWorker(c)'
  <2>1. 0 + 0 <= MAX_BUFF_SIZE /\ Len(conn[c].echoed) + 0 = conn[c].nrecvd /\ 1..0 = {}
    BY <1>1, <1>3
  <2>2. AfterSuccess(c, 0)'
    BY <1>3, <1>5, <2>1 DEF AfterSuccess, NextInBuffer
  <2>. QED
    BY <1>3, <1>5, <2>2, EchoReported
<1>6. ASSUME NEW n \in 1..Min2(conn[c].nsent - conn[c].nrecvd, pend[c].len),
             io' = [io EXCEPT ![c].Buffer =
                     [j \in 1..MAX_BUFF_SIZE |-> IF j <= n THEN Byte(conn[c].nrecvd + j) ELSE @[j]]],
             conn' = [conn EXCEPT ![c].nrecvd = @ + n],
             Completed(c, n, TRUE)
      PROVE  EchoPend(c)' /\ EchoPort(c)' /\ EchoWorker(c)'
  <2>1. \E ok \in BOOLEAN : Completed(c, n, ok)
    BY <1>6
  <2>. QED
    BY <1>4, <1>6, <2>1
<1>7. CASE UNCHANGED <<io, conn>> /\ \E ok \in BOOLEAN : Completed(c, 0, ok)
  BY <1>5, <1>7
<1>. QED
  BY <1>2, <1>6, <1>7 DEF Received

\* The numbers in the sequence that came back.
LEMMA NextExtended ==
  ASSUME NEW s \in Seq(0..MaxBytes), NEW n \in Nat, NEW f, f = [i \in 1..n |-> f[i]],
         \A i \in 1..n : f[i] \in 0..MaxBytes
  PROVE  Len(s \o f) = Len(s) + n
<1>1. f \in Seq(0..MaxBytes)
  BY SequenceOf
<1>2. DOMAIN f = 1..n
  OBVIOUS
<1>3. Len(f) = n
  BY <1>1, <1>2
<1>. QED
  BY <1>1, <1>3

LEMMA SendEcho ==
  ASSUME IInv, [Next]_vars, NEW c \in Conns, CompleteSend(c)
  PROVE  EchoPend(c)' /\ EchoPort(c)' /\ EchoWorker(c)'
<1> DEFINE len == pend[c].len
           off == pend[c].off
           got == Len(conn[c].echoed)
           total == io[c].nTotalBytes
<1>1. /\ c \in Ctxts /\ io \in [Ctxts -> IoContext] /\ conn \in [Conns -> Connection]
      /\ pend \in [Ctxts -> Operation] /\ MAX_BUFF_SIZE \in Nat /\ EchoPend(c)
  BY IInvTypes, ServerExAssumption, EchoParts DEF Conns, TypeIo, TypeConn, TypePend, IInv, Good
<1>2. /\ io[c].IOOperation = "ClientIoWrite" /\ off = io[c].nSentBytes /\ off + len = total
      /\ NextInBuffer(c, off, len) /\ InKernel(c) /\ io' = io
  BY <1>1 DEF CompleteSend, EchoPend, InKernel, memory
<1>3. /\ len \in Nat /\ off \in Nat /\ got \in Nat /\ total \in Nat /\ conn[c].nrecvd \in Nat
      /\ conn[c].echoed \in Seq(0..MaxBytes) /\ io[c].Buffer \in [1..MAX_BUFF_SIZE -> 0..MaxBytes]
  BY <1>1 DEF Operation, Size, IoContext, Connection
<1>4. /\ off + len <= MAX_BUFF_SIZE /\ got + len = conn[c].nrecvd
      /\ ZeroBytes = {} => \A j \in 1..len : io[c].Buffer[off + j] = got + j
  BY <1>2 DEF NextInBuffer
<1>. HIDE DEF len, off, got, total
<1>5. ASSUME NEW n \in 0..len, Len(conn'[c].echoed) = got + n, conn'[c].nrecvd = conn[c].nrecvd,
             \E ok \in BOOLEAN : Completed(c, n, ok)
      PROVE  EchoPend(c)' /\ EchoPort(c)' /\ EchoWorker(c)'
  <2>1. off + n <= total /\ (off + n) + (total - (off + n)) <= MAX_BUFF_SIZE
    BY <1>1, <1>2, <1>3, <1>4
  <2>2. Len(conn'[c].echoed) + (total - (off + n)) = conn'[c].nrecvd
    BY <1>2, <1>3, <1>4, <1>5
  <2>3. ASSUME ZeroBytes = {}, NEW j \in 1..(total - (off + n))
        PROVE  io[c].Buffer[off + n + j] = Len(conn'[c].echoed) + j
    <3>1. n + j \in 1..len /\ off + (n + j) = off + n + j /\ got + (n + j) = got + n + j
      <4>1. off \in Nat /\ n \in Nat /\ len \in Nat /\ total \in Nat /\ got \in Nat /\ off + len = total
        BY <1>2, <1>3
      <4>2. j \in Int /\ 1 <= j /\ j <= total - (off + n)
        BY <2>3, <4>1
      <4>. QED
        BY <4>1, <4>2, SMTT(30)
    <3>2. io[c].Buffer[off + (n + j)] = got + (n + j)
      BY <1>4, <2>3, <3>1
    <3>. QED
      BY <1>5, <3>1, <3>2
  <2>4. AfterSuccess(c, n)'
    <3>1. /\ io'[c].IOOperation = "ClientIoWrite" /\ io'[c].nSentBytes = off
          /\ io'[c].nTotalBytes = total /\ io'[c].Buffer = io[c].Buffer
      BY <1>2 DEF total
    <3>. QED
      BY <2>1, <2>2, <2>3, <3>1 DEF AfterSuccess, NextInBuffer
  <2>. QED
    BY <1>2, <1>5, <2>4, EchoReported
<1>6. ASSUME NEW n \in 1..pend[c].len,
             conn' = [conn EXCEPT ![c].echoed = @ \o [i \in 1..n |-> io[c].Buffer[pend[c].off + i]]],
             Completed(c, n, TRUE)
      PROVE  EchoPend(c)' /\ EchoPort(c)' /\ EchoWorker(c)'
  <2> DEFINE f == [i \in 1..n |-> io[c].Buffer[off + i]]
             new == conn[c].echoed \o f
  <2>1. n \in 1..len /\ n \in 0..len /\ n \in Nat
    BY <1>3, <1>6 DEF len
  <2>2. \A i \in 1..n : off + i \in 1..MAX_BUFF_SIZE
    BY <1>1, <1>3, <1>4, <2>1
  <2>3. f = [i \in 1..n |-> f[i]] /\ \A i \in 1..n : f[i] \in 0..MaxBytes
    BY <1>3, <2>2
  <2>4. conn' = [conn EXCEPT ![c].echoed = new]
    BY <1>6 DEF off
  <2>. HIDE DEF f
  <2>5. Len(new) = got + n
    BY <1>3, <2>1, <2>3, NextExtended DEF got
  <2>. HIDE DEF new
  <2>6. conn'[c].echoed = new /\ conn'[c].nrecvd = conn[c].nrecvd
    BY <1>1, <2>4 DEF Connection
  <2>7. \E ok \in BOOLEAN : Completed(c, n, ok)
    BY <1>6
  <2>. QED
    BY <1>5, <2>1, <2>5, <2>6, <2>7
<1>7. CASE UNCHANGED conn /\ \E ok \in BOOLEAN : Completed(c, 0, ok)
  <2>1. 0 \in 0..len /\ Len(conn'[c].echoed) = got + 0 /\ conn'[c].nrecvd = conn[c].nrecvd
    BY <1>3, <1>7 DEF got
  <2>. QED
    BY <1>5, <1>7, <2>1
<1>. QED
  BY <1>6, <1>7 DEF CompleteSend

LEMMA StepEcho == ASSUME IInv, [Next]_vars, NEW c \in Conns PROVE Echo(c)'
<1>1. /\ c \in Ctxts /\ c # Listen /\ New(c) /\ conn \in [Conns -> Connection]
  BY IInvTypes, ListenIsNone DEF Conns, IInv, Good, TypeConn
<1>2. CASE Unseen(c) /\ ~Unseen(c)'
  <2>1. InKernel(c)' /\ ~InKernel(c)
    BY <1>2, UnseenStays DEF Unseen
  <2>2. pend'[c] # pend[c] /\ pend'[c] # Idle
    BY <2>1 DEF InKernel, Idle
  <2>3. ASSUME NEW t \in Threads, IoOf(t), WorkerRead(t) \/ WorkerWrite(t) PROVE wpkt[t].ctxt # c
    BY <1>2 DEF Unseen
  <2>4. PICK t \in Threads : IoOf(t) /\ WorkerFirst(t) /\ c = SocketAccept
    BY <1>1, <2>2, <2>3, PendMoves
  <2>5. EchoPend(c)'
    BY <2>1, <2>4, FirstEcho
  <2>6. OneHolder(c)'
    BY <1>1, StepOneHolder
  <2>7. (\A r \in Runs : \A i \in DOMAIN port[r] : ~OnPort(c, r, i))'
    BY <2>1, <2>6 DEF OneHolder
  <2>8. (\A u \in Threads : ~WithWorker(c, u))'
    BY <2>1, <2>6 DEF OneHolder
  <2>. QED
    BY <2>5, <2>7, <2>8, Nobody, StepNotAhead, EchoPartsNext
<1>3. CASE ~Unseen(c)
  <2>1. ~IsNew(c)
    BY <1>1, <1>3 DEF New
  <2>2. CASE \E t \in Threads : IoOf(t) /\ (WorkerRead(t) \/ WorkerWrite(t)) /\ wpkt[t].ctxt = c
    <3>1. PICK t \in Threads : IoOf(t) /\ (WorkerRead(t) \/ WorkerWrite(t)) /\ wpkt[t].ctxt = c
      BY <2>2
    <3>. QED
      BY <3>1, HandedOn, ReadEcho, WriteEcho, StepNotAhead, EchoPartsNext
  <2>3. CASE CompleteRecv(c)
    BY <2>1, <2>3, RecvEcho, StepNotAhead, EchoPartsNext
  <2>4. CASE CompleteSend(c)
    BY <2>4, SendEcho, StepNotAhead, EchoPartsNext
  <2>5. CASE /\ ~(\E t \in Threads : IoOf(t) /\ (WorkerRead(t) \/ WorkerWrite(t)) /\ wpkt[t].ctxt = c)
             /\ ~CompleteRecv(c) /\ ~CompleteSend(c)
    <3>1. ASSUME NEW t \in Threads, IoOf(t), WorkerFirst(t) \/ (WorkerAccept(t) /\ wpkt[t].ok)
          PROVE  SocketAccept # c
      <4>1. ~WorkerRepost(t) /\ wpkt[t].ok
        BY <3>1, AcceptHandler DEF WorkerFirst, WorkerAccept, WorkerRepost
      <4>. QED
        BY <2>1, <3>1, <4>1, AcceptHandler
    <3>2. io'[c] = io[c]
      BY <1>1, <2>5, <3>1, IoMoves
    <3>3. pend'[c] \in {pend[c], Idle}
      BY <1>1, <2>5, <3>1, PendMoves
    <3>4. ClientSend(c) \/ ClientClose(c) => conn'[c].echoed = conn[c].echoed /\ conn'[c].nrecvd = conn[c].nrecvd
      BY <1>1 DEF ClientSend, ClientClose, Connection
    <3>5. conn'[c].echoed = conn[c].echoed /\ conn'[c].nrecvd = conn[c].nrecvd
      BY <2>5, <3>4, ConnMoves
    <3>6. ~Succeeds(c)
      BY <1>1, <2>5 DEF Succeeds
    <3>. QED
      BY <2>1, <2>5, <3>2, <3>3, <3>5, <3>6, EchoKept, StepNotAhead, EchoPartsNext
  <2>. QED
    BY <2>2, <2>3, <2>4, <2>5
<1>. QED
  BY <1>2, <1>3, EchoOfUnseen

-----------------------------------------------------------------------------
(* The invariant *)

LEMMA InitControl == ASSUME Init PROVE Control
<1>1. /\ run = 0 /\ mpc = "test" /\ g_hIOCP = INVALID /\ g_pCtxtListenSocket = NULL /\ SocketAccept = NULL
      /\ cs = NoThread /\ list = EmptyList
      /\ \A x \in Ctxts : key[x] = 0 /\ pend[x] = Idle /\ io[x] = FreshIo("ClientIoAccept")
      /\ \A t \in Threads : wpc[t] = "none" /\ wpkt[t] = NullPacket
      /\ \A r \in Runs : port[r] = <<>>
  BY DEF Init, INVALID
<1>2. /\ NULL \notin Conns /\ Listen # NULL /\ Listen \in Ctxts
  BY ListenIsNone
<1>3. Passes
  BY <1>1 DEF Passes, INVALID
<1>4. NoAcceptYet
  BY <1>1, <1>2 DEF NoAcceptYet, NullPacket
<1>5. ListenContext
  <2>1. list.live = {} /\ ~InKernel(Listen) /\ io[Listen].IOOperation = "ClientIoAccept"
    BY <1>1, <1>2 DEF EmptyList, InKernel, Idle, FreshIo
  <2>. QED
    BY <1>1, <1>2, <2>1 DEF ListenContext
<1>6. WorkerPackets
  BY <1>1 DEF WorkerPackets
<1>7. Section
  BY <1>1, NotWorkers DEF Section
<1>8. Ending
  BY <1>1, <1>2 DEF Ending
<1>9. Accepted
  BY <1>1, <1>2 DEF Accepted
<1>10. AcceptGoesOn
  BY <1>1 DEF AcceptGoesOn
<1>. QED
  BY <1>3, <1>4, <1>5, <1>6, <1>7, <1>8, <1>9, <1>10 DEF Control

LEMMA InitOneHolder == ASSUME Init, NEW x \in Ctxts PROVE OneHolder(x)
<1>1. \A t \in Threads : wpc[t] = "none"
  BY DEF Init
<1>2. \A r \in Runs : DOMAIN port[r] = {}
  BY DEF Init
<1>. QED
  BY <1>1, <1>2 DEF OneHolder, WithWorker

LEMMA InitGood == ASSUME Init, NEW c \in Conns PROVE Good(c)
<1>1. /\ c \in Ctxts /\ c # NULL /\ NULL \notin Conns
  BY ListenIsNone DEF Conns
<1>2. /\ pend[c] = Idle /\ io[c] = FreshIo("ClientIoAccept") /\ list = EmptyList /\ SocketAccept = NULL
      /\ conn[c] = [nsent |-> 0, nrecvd |-> 0, echoed |-> <<>>, peer |-> "open"]
      /\ \A t \in Threads : wpc[t] = "none" /\ wpkt[t] = NullPacket
      /\ \A r \in Runs : DOMAIN port[r] = {}
  BY <1>1 DEF Init
<1>3. ~InKernel(c) /\ Unseen(c) /\ IsNew(c)
  BY <1>1, <1>2 DEF InKernel, Unseen, IsNew, Idle, FreshIo, NullPacket
<1>4. New(c)
  BY <1>1, <1>2, <1>3 DEF New
<1>5. Socket(c)
  BY <1>1, <1>2, <1>3 DEF Socket, EmptyList
<1>6. Accepting(c)
  BY <1>1, <1>2 DEF Accepting, EmptyList
<1>7. Echo(c)
  BY <1>2 DEF Echo, Idle
<1>. QED
  BY <1>4, <1>5, <1>6, <1>7 DEF Good

LEMMA InitIInv == Init => IInv
BY InitTypes, InitControl, InitOneHolder, InitGood DEF IInv, OneOperation

LEMMA StepControl == ASSUME IInv, [Next]_vars PROVE Control'
BY StepPasses, StepNoAcceptYet, StepListenContext, StepWorkerPackets, StepSection, StepEnding,
   StepAccepted, StepAcceptGoesOn DEF Control

LEMMA StepGood == ASSUME IInv, [Next]_vars, NEW c \in Conns PROVE Good(c)'
BY StepNew, StepSocket, StepAccepting, StepEcho DEF Good

LEMMA StepIInv == IInv /\ [Next]_vars => IInv'
<1> SUFFICES ASSUME IInv, [Next]_vars PROVE IInv'
  OBVIOUS
<1>1. TypeOK' /\ RunBound'
  BY StepTypes
<1>2. Control'
  BY StepControl
<1>3. OneOperation'
  BY StepOneHolder DEF OneOperation
<1>4. (\A c \in Conns : Good(c))'
  BY StepGood
<1>. QED
  BY <1>1, <1>2, <1>3, <1>4 DEF IInv

\* The inductive invariant of the server (main, WorkerThread, CtrlHandler)
\* holds in every state, whatever fails, for every number of threads,
\* connections and passes through main's loop.
THEOREM Invariance == Spec => []IInv
BY InitIInv, StepIInv, PTL DEF Spec

\* Every variable of the server keeps its type: no count of a
\* PER_IO_CONTEXT leaves the buffer, no packet names an unknown context
\* (main, WorkerThread).
THEOREM TypeCorrect == Spec => []TypeOK
<1>1. IInv => TypeOK
  BY DEF IInv
<1>. QED
  BY <1>1, Invariance, PTL

\* One overlapped operation is outstanding on the listening socket and on
\* every connection, and no two threads work on the same PER_IO_CONTEXT
\* (WorkerThread, CreateAcceptSocket): the use of the contexts without a
\* lock is sound for every number of workers, also when calls fail and when
\* workers of an earlier pass are left over.
THEOREM OneOwner == Spec => []OneOperation
<1>1. IInv => OneOperation
  BY DEF IInv
<1>. QED
  BY <1>1, Invariance, PTL

\* While main waits for the event and nobody has set it or asked the pass to
\* end, an AcceptEx is outstanding, completed, or about to be posted again
\* (WorkerThread, the case ClientIoAccept): no sequence of errors on
\* connections stops the server from accepting.
THEOREM NeverDeaf == Spec => []AcceptGoesOn
<1>1. IInv => AcceptGoesOn
  BY DEF IInv, Control
<1>. QED
  BY <1>1, Invariance, PTL

-----------------------------------------------------------------------------
(* The server implements EchoService *)

State == [c \in Conns |-> CASE sock[c] = "none" -> "new"
                            [] sock[c] = "closed" -> "closed"
                            [] OTHER -> "open"]
Sent == [c \in Conns |-> conn[c].nsent]
Back == [c \in Conns |-> conn[c].echoed]
StateOf(x) == IF x = "none" THEN "new" ELSE IF x = "closed" THEN "closed" ELSE "open"

LEMMA StateIs ==
  ASSUME NEW c \in Conns
  PROVE  State[c] = StateOf(sock[c]) /\ State'[c] = StateOf(sock'[c])
BY DEF State, StateOf

LEMMA Mapped ==
  /\ Service!svars = <<State, Sent, Back>>
  /\ \A d : Service!Open(d) <=> /\ State[d] = "new" /\ State' = [State EXCEPT ![d] = "open"]
                                /\ UNCHANGED <<Sent, Back>>
  /\ \A d : Service!Send(d) <=> /\ State[d] = "open" /\ Sent[d] < MaxBytes
                                /\ Sent' = [Sent EXCEPT ![d] = @ + 1]
                                /\ UNCHANGED <<State, Back>>
  /\ \A d : Service!Echo(d) <=>
       /\ State[d] = "open"
       /\ \E n \in 1..(Sent[d] - Len(Back[d])) :
            Back' = [Back EXCEPT ![d] = @ \o [i \in 1..n |-> Len(Back[d]) + i]]
       /\ UNCHANGED <<State, Sent>>
  /\ Service!Close <=> /\ \E S \in SUBSET {c \in Conns : State[c] = "open"} :
                            State' = [c \in Conns |-> IF c \in S THEN "closed" ELSE State[c]]
                       /\ UNCHANGED <<Sent, Back>>
BY DEF Service!svars, Service!Open, Service!Send, Service!Echo, Service!Close, State, Sent, Back

\* A socket is opened or closed, never reopened.
LEMMA SocketMoves ==
  ASSUME IInv, [Next]_vars, NEW c \in Conns
  PROVE  \/ State'[c] = State[c]
         \/ State[c] = "open" /\ State'[c] = "closed"
         \/ Connect(c) /\ State[c] = "new" /\ State'[c] = "open"
<1>1. New(c) /\ Socket(c) /\ sock[c] \in {"none", "backlog", "open", "closed"}
  BY IInvTypes DEF IInv, Good, TypeSock
<1>2. CASE sock'[c] = sock[c]
  BY <1>2, StateIs
<1>3. CASE sock'[c] = "closed" /\ sock[c] # "none"
  BY <1>3, StateIs DEF StateOf
<1>4. CASE sock[c] = "backlog" /\ sock'[c] = "open"
  BY <1>4, StateIs DEF StateOf
<1>5. CASE Connect(c) /\ sock[c] = "none" /\ sock'[c] = "backlog"
  BY <1>5, StateIs DEF StateOf
<1>6. c \in list.live \/ c = SocketAccept => sock[c] # "none"
  BY <1>1 DEF New, Socket
<1>. QED
  BY <1>2, <1>3, <1>4, <1>5, <1>6, SockMoves

LEMMA DataMoves ==
  ASSUME IInv, [Next]_vars, NEW c \in Conns
  PROVE  /\ Sent'[c] # Sent[c] => ClientSend(c)
         /\ Back'[c] # Back[c] => CompleteSend(c)
<1>1. conn \in [Conns -> Connection]
  BY IInvTypes DEF TypeConn
<1>2. Sent[c] = conn[c].nsent /\ Back[c] = conn[c].echoed /\ Sent'[c] = conn'[c].nsent /\ Back'[c] = conn'[c].echoed
  BY DEF Sent, Back
<1>3. CompleteRecv(c) \/ ClientClose(c) => conn'[c].nsent = conn[c].nsent /\ conn'[c].echoed = conn[c].echoed
  BY <1>1 DEF CompleteRecv, Received, ClientClose, Connection
<1>4. CompleteSend(c) => conn'[c].nsent = conn[c].nsent
  BY <1>1 DEF CompleteSend, Connection
<1>5. ClientSend(c) => conn'[c].echoed = conn[c].echoed
  BY <1>1 DEF ClientSend, Connection
<1>. QED
  BY <1>2, <1>3, <1>4, <1>5, ConnMoves

LEMMA OpenStep ==
  ASSUME IInv, [Next]_vars, NEW d \in Conns, Connect(d) PROVE Service!Open(d)
<1>1. /\ sock[d] = "none" /\ sock' = [sock EXCEPT ![d] = "backlog"] /\ conn' = conn
      /\ sock \in [Conns -> {"none", "backlog", "open", "closed"}]
  BY IInvTypes DEF Connect, TypeSock
<1>2. ASSUME NEW c \in Conns PROVE State'[c] = IF c = d THEN "open" ELSE State[c]
  BY <1>1, <1>2, StateIs DEF StateOf
<1>3. State[d] = "new" /\ Sent' = Sent /\ Back' = Back
  BY <1>1, StateIs DEF StateOf, Sent, Back
<1>4. State' = [State EXCEPT ![d] = "open"]
  <2>1. State' = [c \in Conns |-> State'[c]] /\ State = [c \in Conns |-> State[c]]
    BY DEF State
  <2>. QED
    BY <1>2, <2>1
<1>. QED
  BY <1>3, <1>4, Mapped

LEMMA SendStep ==
  ASSUME IInv, [Next]_vars, NEW d \in Conns, ClientSend(d) PROVE Service!Send(d)
<1>1. /\ sock[d] \in {"backlog", "open"} /\ sock' = sock /\ conn[d].nsent < MaxBytes
      /\ conn' = [conn EXCEPT ![d].nsent = @ + 1] /\ conn \in [Conns -> Connection]
  BY IInvTypes DEF ClientSend, kernel, TypeConn
<1>2. State[d] = "open" /\ State' = State /\ Sent[d] < MaxBytes
  BY <1>1, StateIs DEF StateOf, State, Sent
<1>3. Sent' = [Sent EXCEPT ![d] = @ + 1]
  BY <1>1 DEF Sent, Connection
<1>4. Back' = Back
  BY <1>1 DEF Back, Connection
<1>. QED
  BY <1>2, <1>3, <1>4, Mapped

LEMMA EchoStep ==
  ASSUME IInv, [Next]_vars, ZeroBytes = {}, NEW d \in Conns, CompleteSend(d), conn' # conn
  PROVE  Service!Echo(d)
<1>1. PICK n \in 1..pend[d].len :
        conn' = [conn EXCEPT ![d].echoed = @ \o [i \in 1..n |-> io[d].Buffer[pend[d].off + i]]]
  BY DEF CompleteSend
<1>2. /\ sock' = sock /\ InKernel(d) /\ NextInBuffer(d, pend[d].off, pend[d].len)
      /\ conn[d].nrecvd <= conn[d].nsent /\ sock[d] = "open"
  BY DEF CompleteSend, InKernel, IInv, Good, Echo, Socket
<1>3. /\ conn \in [Conns -> Connection] /\ Len(conn[d].echoed) \in Nat
      /\ pend[d].len \in Nat /\ pend[d].off \in Nat
      /\ conn[d].nrecvd \in Nat /\ conn[d].nsent \in Nat
  BY IInvTypes, ServerExAssumption DEF TypeConn, Connection, TypePend, Operation, Size, Conns
<1>4. \A i \in 1..n : io[d].Buffer[pend[d].off + i] = Len(conn[d].echoed) + i
  <2>1. \A i \in 1..pend[d].len : io[d].Buffer[pend[d].off + i] = Len(conn[d].echoed) + i
    BY <1>2 DEF NextInBuffer
  <2>2. \A i \in 1..n : i \in 1..pend[d].len
    <3>1. ASSUME NEW len \in Nat, NEW m \in 1..len, NEW i \in 1..m PROVE i \in 1..len
      BY <3>1
    <3>. QED
      BY <1>3, <3>1
  <2>. QED
    BY <2>1, <2>2
<1>5. n \in 1..(conn[d].nsent - Len(conn[d].echoed))
  <2>1. Len(conn[d].echoed) + pend[d].len = conn[d].nrecvd
    BY <1>2 DEF NextInBuffer
  <2>2. ASSUME NEW len \in Nat, NEW m \in 1..len, NEW got \in Nat, NEW read \in Nat, NEW sent \in Nat,
               got + len = read, read <= sent
        PROVE  m \in 1..(sent - got)
    BY <2>2
  <2>. QED
    BY <1>2, <1>3, <2>1, <2>2
<1>6. [i \in 1..n |-> io[d].Buffer[pend[d].off + i]] = [i \in 1..n |-> Len(conn[d].echoed) + i]
  BY <1>4
<1> DEFINE f == [i \in 1..n |-> Len(conn[d].echoed) + i]
<1>7. conn' = [conn EXCEPT ![d].echoed = @ \o f]
  BY <1>1, <1>6
<1>8. Back[d] = conn[d].echoed /\ Sent[d] = conn[d].nsent
  BY DEF Back, Sent
<1>9. f = [i \in 1..n |-> Len(Back[d]) + i]
  BY <1>8
<1>. HIDE DEF f
<1>10. Back' = [Back EXCEPT ![d] = @ \o f]
  BY <1>3, <1>7 DEF Back, Connection
<1>11. Sent' = Sent
  BY <1>3, <1>7 DEF Sent, Connection
<1>12. State[d] = "open" /\ State' = State
  BY <1>2, StateIs DEF State, StateOf
<1>13. Back' = [Back EXCEPT ![d] = @ \o [i \in 1..n |-> Len(Back[d]) + i]]
  BY <1>9, <1>10
<1>14. n \in 1..(Sent[d] - Len(Back[d]))
  BY <1>5, <1>8
<1>. QED
  BY <1>11, <1>12, <1>13, <1>14, Mapped

LEMMA CloseStep ==
  ASSUME UNCHANGED <<Sent, Back>>,
         \A c \in Conns : State'[c] = State[c] \/ (State[c] = "open" /\ State'[c] = "closed")
  PROVE  Service!Close
<1> DEFINE S == {c \in Conns : State[c] = "open" /\ State'[c] = "closed"}
<1>1. S \in SUBSET {c \in Conns : State[c] = "open"}
  OBVIOUS
<1>2. \A c \in Conns : State'[c] = IF c \in S THEN "closed" ELSE State[c]
  OBVIOUS
<1>3. State' = [c \in Conns |-> State'[c]]
  BY DEF State
<1>. HIDE DEF S
<1>4. State' = [c \in Conns |-> IF c \in S THEN "closed" ELSE State[c]]
  BY <1>2, <1>3
<1>. QED
  BY <1>1, <1>4, Mapped

LEMMA ServiceStep ==
  IInv /\ ZeroBytes = {} /\ [Next]_vars => [Service!ServiceNext]_(Service!svars)
<1> SUFFICES ASSUME IInv, ZeroBytes = {}, [Next]_vars PROVE [Service!ServiceNext]_(Service!svars)
  OBVIOUS
<1>1. ASSUME NEW d \in Conns, Connect(d) PROVE Service!ServiceNext
  BY <1>1, OpenStep DEF Service!ServiceNext
<1>2. ASSUME NEW d \in Conns, ClientSend(d) PROVE Service!ServiceNext
  BY <1>2, SendStep DEF Service!ServiceNext
<1>3. ASSUME NEW d \in Conns, CompleteSend(d), conn' # conn PROVE Service!ServiceNext
  BY <1>3, EchoStep DEF Service!ServiceNext
<1>4. CASE /\ ~(\E d \in Conns : Connect(d))
           /\ ~(\E d \in Conns : ClientSend(d))
           /\ ~(\E d \in Conns : CompleteSend(d) /\ conn' # conn)
  <2>1. \A c \in Conns : State'[c] = State[c] \/ (State[c] = "open" /\ State'[c] = "closed")
    BY <1>4, SocketMoves
  <2>2. conn' = conn => UNCHANGED <<Sent, Back>>
    BY DEF Sent, Back
  <2>3. ASSUME conn' # conn PROVE UNCHANGED <<Sent, Back>>
    <3>1. \A c \in Conns : Sent'[c] = Sent[c] /\ Back'[c] = Back[c]
      BY <1>4, <2>3, DataMoves
    <3>2. /\ Sent' = [c \in Conns |-> Sent'[c]] /\ Sent = [c \in Conns |-> Sent[c]]
          /\ Back' = [c \in Conns |-> Back'[c]] /\ Back = [c \in Conns |-> Back[c]]
      BY DEF Sent, Back
    <3>. QED
      BY <3>1, <3>2
  <2>. QED
    BY <2>1, <2>2, <2>3, CloseStep DEF Service!ServiceNext
<1>. QED
  BY <1>1, <1>2, <1>3, <1>4

LEMMA ServiceStart == Init => Service!ServiceInit
<1> SUFFICES ASSUME Init PROVE Service!ServiceInit
  OBVIOUS
<1>1. State = [c \in Conns |-> "new"]
  BY DEF Init, State
<1>2. Sent = [c \in Conns |-> 0] /\ Back = [c \in Conns |-> <<>>]
  BY DEF Init, Sent, Back
<1>. QED
  BY <1>1, <1>2 DEF Service!ServiceInit, State, Sent, Back

\* When no client sends a NUL character, which StringCbCopyN stops at, the
\* server keeps what EchoService promises (main, WorkerThread, the cleanup):
\* connections are opened and closed once, and what comes back on an open
\* one is always the next bytes the client has sent.
THEOREM Implements ==
  ASSUME ZeroBytes = {}
  PROVE  Spec => ImplementsEchoService
<1>1. IInv /\ [Next]_vars => [Service!ServiceNext]_(Service!svars)
  BY ServiceStep
<1>. QED
  BY <1>1, Invariance, ServiceStart, PTL DEF Spec, ImplementsEchoService, Service!ServiceSpec

-----------------------------------------------------------------------------
(* Connections that do not overlap: the list of contexts *)

\* The first context on an empty list, and the deletion of the only one.
LEMMA FirstListed ==
  ASSUME NEW l \in List, NEW c \in Ctxts, l.g_pCtxtList = NULL, ~l.uaf
  PROVE  /\ CtxtListAddTo(CtxtAllocate(l, c), c).live = l.live \cup {c}
         /\ CtxtListAddTo(CtxtAllocate(l, c), c).g_pCtxtList = c
         /\ CtxtListAddTo(CtxtAllocate(l, c), c).pCtxtBack[c] = NULL
         /\ CtxtListAddTo(CtxtAllocate(l, c), c).pCtxtForward[c] = NULL
         /\ ~CtxtListAddTo(CtxtAllocate(l, c), c).uaf
<1> DEFINE m == CtxtAllocate(l, c)
<1>1. m \in List /\ m.live = l.live \cup {c} /\ m.g_pCtxtList = NULL /\ ~m.uaf
  BY CtxtAllocateType DEF CtxtAllocate, List
<1>. HIDE DEF m
<1>2. CtxtListAddTo(m, c) = [m EXCEPT !.g_pCtxtList = c, !.pCtxtBack[c] = NULL, !.pCtxtForward[c] = NULL]
  BY <1>1 DEF CtxtListAddTo
<1>3. /\ CtxtListAddTo(m, c).live = l.live \cup {c} /\ CtxtListAddTo(m, c).g_pCtxtList = c
      /\ CtxtListAddTo(m, c).pCtxtBack[c] = NULL /\ CtxtListAddTo(m, c).pCtxtForward[c] = NULL
      /\ ~CtxtListAddTo(m, c).uaf
  BY <1>1, <1>2 DEF List
<1>. QED
  BY <1>3 DEF m

LEMMA OnlyDeleted ==
  ASSUME NEW l \in List, NEW c \in l.live, l.pCtxtBack[c] = NULL, l.pCtxtForward[c] = NULL, ~l.uaf
  PROVE  /\ CtxtListDeleteFrom(l, c).live = l.live \ {c}
         /\ CtxtListDeleteFrom(l, c).g_pCtxtList = NULL
         /\ ~CtxtListDeleteFrom(l, c).uaf
<1>1. Unlink(l, c) = [l EXCEPT !.g_pCtxtList = NULL]
  BY DEF Unlink
<1>2. CtxtListDeleteFrom(l, c) = [[l EXCEPT !.g_pCtxtList = NULL] EXCEPT !.live = @ \ {c}]
  BY <1>1 DEF CtxtListDeleteFrom
<1>. QED
  BY <1>2 DEF List

\* What a step does to the list when the connections do not overlap.
SameHead == /\ list'.g_pCtxtList = list.g_pCtxtList /\ ~list'.uaf
            /\ \A d \in Conns : /\ list'.pCtxtBack[d] = list.pCtxtBack[d]
                                /\ list'.pCtxtForward[d] = list.pCtxtForward[d]
ListenAllocated == MainCreateAcceptSocket /\ list'.live = list.live \cup {Listen} /\ SameHead
                   /\ g_pCtxtListenSocket' = Listen /\ key' = [key EXCEPT ![Listen] = g_hIOCP]
ListenFreed == MainFreeListen /\ g_pCtxtListenSocket = Listen /\ list'.live = list.live \ {Listen} /\ SameHead
SetUp(t, c) ==
    /\ IoOf(t) /\ WorkerAccept(t) /\ wpkt[t].ok /\ CanLock(t) /\ wpc'[t] = "first" /\ c = SocketAccept
    /\ list.live \cap Conns = {} /\ list'.live = list.live \cup {c} /\ list'.g_pCtxtList = c
    /\ list'.pCtxtBack[c] = NULL /\ list'.pCtxtForward[c] = NULL /\ ~list'.uaf
    /\ key' = [key EXCEPT ![c] = g_hIOCP] /\ UNCHANGED cs
ClosedBy(c) ==
    \/ CtxtListFreeStep /\ pTemp1 = c
    \/ \E t \in Threads : /\ IoOf(t) /\ CanLock(t)
                          /\ \/ WorkerFirst(t) /\ c = SocketAccept
                             \/ (WorkerDropped(t) \/ WorkerRead(t) \/ WorkerWrite(t)) /\ c = wpkt[t].ctxt
Closes(c) ==
    /\ ClosedBy(c) /\ c \in list.live /\ list'.live = list.live \ {c} /\ list'.g_pCtxtList = NULL
    /\ ~list'.uaf /\ sock' = [sock EXCEPT ![c] = "closed"] /\ Cancelled(c)
Stray == \E t \in Threads : /\ WorkerIo(t) /\ ~Allocated(t) /\ CanLock(t) /\ list' = UseAfterFree(list)
                            /\ wpc[t] \in {"io", "first", "repost"}

LEMMA LiveIsOpen ==
  ASSUME IInv, NEW c \in Conns, c \in list.live PROVE sock[c] = "open"
BY DEF IInv, Good, Socket

\* A worker that sets up the connection finds the list empty.
LEMMA NoneServed ==
  ASSUME IInv, Structure, NEW t \in Threads, IoOf(t), WorkerAccept(t), wpkt[t].ok
  PROVE  /\ SocketAccept \in Conns /\ list.live \cap Conns = {} /\ list.g_pCtxtList = NULL
         /\ sock[SocketAccept] = "open" /\ wpc[t] = "io"
<1>1. SocketAccept \in Conns /\ sock[SocketAccept] = "open" /\ IsNew(SocketAccept) /\ wpc[t] = "io"
      /\ \A u \in Threads : u[1] = run /\ wpc[u] \in {"first", "repost"} => u = t
  BY AcceptHandler DEF WorkerAccept, WorkerRepost
<1>2. SocketAccept \notin list.live
  BY <1>1 DEF IInv, Good, Accepting, WorkerOfPass
<1>3. ASSUME NEW c \in Conns \cap list.live PROVE FALSE
  BY <1>1, <1>2, <1>3, LiveIsOpen DEF Structure, OneConnection
<1>4. list.live \subseteq Ctxts
  BY IInvTypes DEF TypeList, List
<1>5. list.live \subseteq {Listen}
  BY <1>3, <1>4 DEF Conns
<1>. QED
  BY <1>1, <1>3, <1>5 DEF Structure, SingleContext

LEMMA ClosesOne ==
  ASSUME IInv, Structure, ~list.uaf, NEW c \in Conns, c \in list.live, CloseClient(c), ClosedBy(c)
  PROVE  Closes(c)
<1>1. list \in List
  BY IInvTypes DEF TypeList
<1>2. list.pCtxtBack[c] = NULL /\ list.pCtxtForward[c] = NULL
  BY DEF Structure, SingleContext
<1>3. list' = CtxtListDeleteFrom(list, c) /\ sock' = [sock EXCEPT ![c] = "closed"] /\ Cancelled(c)
  BY DEF CloseClient, Deleted
<1>. QED
  BY <1>1, <1>2, <1>3, OnlyDeleted DEF Closes

LEMMA AcceptedIsSetUp ==
  ASSUME IInv, OneByOne, Structure, ~list.uaf, NEW t \in Threads, IoOf(t), WorkerAccept(t), wpc'[t] = "first"
  PROVE  SocketAccept \in Conns /\ SetUp(t, SocketAccept)
<1>1. list \in List /\ "ioctxt" \notin Failures /\ wpc \in [Threads -> WorkerSteps]
  BY IInvTypes DEF TypeList, OneByOne, TypeWorker
<1>2. wpkt[t].ok /\ CanLock(t) /\ Updated(SocketAccept)
  BY <1>1 DEF WorkerAccept
<1>3. SocketAccept \in Conns /\ list.live \cap Conns = {} /\ list.g_pCtxtList = NULL
  BY <1>2, NoneServed
<1>4. list' = CtxtListAddTo(CtxtAllocate(list, SocketAccept), SocketAccept) /\ UNCHANGED cs
      /\ key' = [key EXCEPT ![SocketAccept] = g_hIOCP]
  BY <1>1, <1>2, <1>3, ListenIsNone DEF Updated, Listed, NewContext
<1>. QED
  BY <1>1, <1>2, <1>3, <1>4, FirstListed DEF SetUp, Conns

LEMMA ListMoves ==
  ASSUME IInv, OneByOne, Structure, ~list.uaf, [Next]_vars
  PROVE  \/ list' = list \/ ListenAllocated \/ ListenFreed
         \/ \E t \in Threads : \E c \in Conns : SetUp(t, c)
         \/ \E c \in Conns : Closes(c)
         \/ Stray
<1>1. list \in List /\ "ioctxt" \notin Failures /\ pTemp1 \in Pointer
  BY IInvTypes DEF TypeList, OneByOne
<1>2. CASE Main
  <2>1. CASE MainCreateAcceptSocket
    <3>1. CASE UNCHANGED list
      BY <3>1
    <3>2. CASE list' = CtxtAllocate(list, Listen) /\ g_pCtxtListenSocket' = Listen
               /\ key' = [key EXCEPT ![Listen] = g_hIOCP]
      <4>1. list'.live = list.live \cup {Listen}
        BY <1>1, <3>2, ListenIsNone, CtxtAllocateType
      <4>2. SameHead
        BY <1>1, <3>2, ListenIsNone DEF CtxtAllocate, List, SameHead, Conns
      <4>. QED
        BY <2>1, <3>2, <4>1, <4>2 DEF ListenAllocated
    <3>. QED
      BY <1>1, <2>1, <3>1, <3>2 DEF MainCreateAcceptSocket, Updated, NewContext
  <2>2. CASE MainFreeListen
    <3>1. CASE UNCHANGED list
      BY <3>1
    <3>2. CASE list' = [list EXCEPT !.live = @ \ {Listen}] /\ g_pCtxtListenSocket # NULL
      BY <1>1, <2>2, <3>2, ListenWhen DEF ListenFreed, SameHead, List
    <3>. QED
      BY <2>2, <3>1, <3>2 DEF MainFreeListen
  <2>3. CASE CtxtListFreeStep
    <3>1. pTemp1 = list.g_pCtxtList /\ pTemp1 # NULL /\ CloseClient(pTemp1)
      BY <2>3 DEF CtxtListFreeStep, Structure, SingleContext
    <3>2. PICK c \in list.live : c # Listen
      BY <3>1 DEF Structure, SingleContext
    <3>3. c \in Conns /\ c = pTemp1
      BY <1>1, <3>1, <3>2 DEF Conns, List, Structure, SingleContext
    <3>. QED
      BY <2>3, <3>1, <3>2, <3>3, ClosesOne DEF ClosedBy
  <2>. QED
    BY <1>2, <2>1, <2>2, <2>3 DEF Main, MainTest, MainClearRestart, MainClearEnd, MainResetEvent,
       MainCreateThreads, CreateListenSocket, MainServe, MainFinally, MainPost, MainJoin,
       MainCloseListen, CtxtListFreeEnter, CtxtListFreeLeave, MainClosePort, memory
<1>3. ASSUME NEW t \in Threads, Worker(t)
      PROVE  \/ list' = list \/ (\E c \in Conns : SetUp(t, c)) \/ (\E c \in Conns : Closes(c)) \/ Stray
  <2>1. CASE WorkerGet(t) \/ WorkerCheck(t)
    BY <2>1 DEF WorkerGet, WorkerCheck, memory
  <2>2. CASE WorkerIo(t) /\ ~Allocated(t)
    BY <2>2 DEF WorkerIo, Stray
  <2>3. CASE IoOf(t) /\ WorkerAccept(t)
    <3>1. CASE UNCHANGED list
      BY <3>1
    <3>2. CASE wpc' = [wpc EXCEPT ![t] = "first"]
      <4>1. wpc'[t] = "first"
        BY <3>2, IInvTypes DEF TypeWorker
      <4>. QED
        BY <2>3, <4>1, AcceptedIsSetUp
    <3>. QED
      BY <2>3, <3>1, <3>2 DEF WorkerAccept
  <2>4. CASE IoOf(t) /\ WorkerRepost(t)
    BY <2>4 DEF WorkerRepost, memory
  <2>5. CASE IoOf(t) /\ WorkerFirst(t)
    <3>1. SocketAccept \in Conns /\ t[1] = run
      BY <2>5, AcceptHandler DEF WorkerFirst, WorkerAccept
    <3>2. SocketAccept \in list.live
      BY <2>5, <3>1 DEF WorkerFirst, Structure, BeingSetUp
    <3>3. UNCHANGED list \/ (CanLock(t) /\ CloseClient(SocketAccept))
      BY <2>5 DEF WorkerFirst, Issue
    <3>. QED
      BY <2>5, <3>1, <3>2, <3>3, ClosesOne DEF ClosedBy
  <2>6. CASE IoOf(t) /\ (WorkerDropped(t) \/ WorkerRead(t) \/ WorkerWrite(t))
    <3>1. wpkt[t].ctxt \in Conns /\ wpkt[t].ctxt \in list.live
      BY <2>6, ConnHandler
    <3>2. UNCHANGED list \/ (CanLock(t) /\ CloseClient(wpkt[t].ctxt))
      BY <2>6 DEF WorkerDropped, WorkerRead, WorkerWrite, Issue
    <3>. QED
      BY <2>6, <3>1, <3>2, ClosesOne DEF ClosedBy
  <2>. QED
    BY <1>3, <2>1, <2>2, <2>3, <2>4, <2>5, <2>6, IoOfIs DEF Worker, IoOf
<1>4. CtrlEvent \/ CtrlHandler => UNCHANGED list
  BY CtrlFrame DEF memory
<1>5. ASSUME NEW d \in Conns, Kernel(d) \/ Client(d) PROVE UNCHANGED list
  BY <1>5, KernelFrame
<1>6. UNCHANGED vars => UNCHANGED list
  BY DEF vars, memory
<1>. QED
  BY <1>2, <1>3, <1>4, <1>5, <1>6 DEF Next

-----------------------------------------------------------------------------
(* The structure is kept *)

LEMMA NoStray ==
  ASSUME IInv, Stray PROVE list'.uaf
BY IInvTypes DEF Stray, TypeList, List, UseAfterFree

\* While main frees the list, no worker can enter the section.
LEMMA MainHolds ==
  ASSUME IInv, Structure, mpc = "walk", NEW t \in Threads PROVE ~CanLock(t)
BY NotWorkers DEF Structure, Lock, CanLock, MainThread, Leaked, NoThread

LEMMA StepSingleContext ==
  ASSUME IInv, OneByOne, Structure, ~list.uaf, [Next]_vars, ~list'.uaf PROVE SingleContext'
<1>1. SingleContext /\ Listen \notin Conns /\ NULL \notin Conns
  BY ListenIsNone DEF Structure
<1>2. \/ list' = list \/ ListenAllocated \/ ListenFreed
      \/ \E t \in Threads : \E c \in Conns : SetUp(t, c)
      \/ \E c \in Conns : Closes(c)
  BY ListMoves, NoStray
<1>3. /\ \A c \in Conns \cap list'.live : /\ list'.g_pCtxtList = c
                                          /\ list'.pCtxtBack[c] = NULL /\ list'.pCtxtForward[c] = NULL
      /\ list'.live \subseteq {Listen} => list'.g_pCtxtList = NULL
  <2>1. CASE list' = list
    BY <1>1, <2>1 DEF SingleContext
  <2>2. CASE ListenAllocated \/ ListenFreed
    BY <1>1, <2>2 DEF SingleContext, ListenAllocated, ListenFreed, SameHead
  <2>3. CASE \E t \in Threads : \E c \in Conns : SetUp(t, c)
    BY <1>1, <2>3 DEF SetUp
  <2>4. CASE \E c \in Conns : Closes(c)
    BY <1>1, <2>4 DEF SingleContext, Closes
  <2>. QED
    BY <1>2, <2>1, <2>2, <2>3, <2>4
<1>4. ASSUME mpc' = "walk" PROVE pTemp1' = list'.g_pCtxtList
  <2>1. CASE CtxtListFreeEnter
    BY <2>1 DEF CtxtListFreeEnter
  <2>2. CASE CtxtListFreeStep
    <3>1. PICK c \in Conns : Closes(c)
      <4>1. pTemp1 = list.g_pCtxtList /\ pTemp1 # NULL /\ CloseClient(pTemp1)
        BY <2>2 DEF CtxtListFreeStep, Structure, SingleContext
      <4>2. PICK c \in list.live : c # Listen
        BY <4>1 DEF Structure, SingleContext
      <4>3. c \in Conns /\ c = pTemp1
        BY <4>1, <4>2, IInvTypes DEF TypeList, Conns, List, Structure, SingleContext
      <4>. QED
        BY <2>2, <4>1, <4>2, <4>3, ClosesOne DEF ClosedBy
    <3>2. pTemp1 = c
      BY <1>1, <2>2, <3>1 DEF Closes, CtxtListFreeStep, SingleContext
    <3>. QED
      BY <1>1, <2>2, <3>1, <3>2 DEF Closes, CtxtListFreeStep, SingleContext
  <2>3. CASE ~CtxtListFreeEnter /\ ~CtxtListFreeStep
    <3>1. mpc = "walk"
      BY <1>4, <2>3, PassMoves, MainMovesOn
    <3>2. ~ListenAllocated /\ ~ListenFreed
      BY <3>1 DEF ListenAllocated, ListenFreed, MainCreateAcceptSocket, MainFreeListen
    <3>3. ~(\E t \in Threads : \E c \in Conns : SetUp(t, c)) /\ ~(\E c \in Conns : Closes(c))
      BY <2>3, <3>1, MainHolds DEF SetUp, Closes, ClosedBy
    <3>4. UNCHANGED pTemp1
      <4>1. Main => UNCHANGED pTemp1
        BY <2>3 DEF Main, MainTest, MainClearRestart, MainClearEnd, MainResetEvent, MainCreateThreads,
           CreateListenSocket, MainCreateAcceptSocket, MainServe, MainFinally, MainPost, MainJoin,
           MainCloseListen, MainFreeListen, CtxtListFreeLeave, MainClosePort
      <4>2. ASSUME NEW t \in Threads, Worker(t) PROVE UNCHANGED pTemp1
        BY <4>2, WorkerFrame DEF IInv, main
      <4>3. ASSUME NEW c \in Conns, Kernel(c) \/ Client(c) PROVE UNCHANGED pTemp1
        BY <4>3, KernelFrame DEF main
      <4>. QED
        BY <4>1, <4>2, <4>3, CtrlFrame DEF Next, vars, main
    <3>. QED
      BY <1>1, <1>2, <3>1, <3>2, <3>3, <3>4 DEF SingleContext
  <2>. QED
    BY <2>1, <2>2, <2>3
<1>. QED
  BY <1>3, <1>4 DEF SingleContext

LEMMA ListenSocketMoves ==
  ASSUME IInv, [Next]_vars, g_sdListen' # g_sdListen
  PROVE  \/ CreateListenSocket /\ (g_sdListen' = "listening" => mpc' = "accept")
         \/ MainCloseListen /\ g_sdListen' = "invalid"
<1>1. Main => CreateListenSocket \/ MainCloseListen
  BY DEF Main, MainTest, MainClearRestart, MainClearEnd, MainResetEvent, MainCreateThreads,
     MainCreateAcceptSocket, MainServe, MainFinally, MainPost, MainJoin,
     MainFreeListen, CtxtListFreeEnter, CtxtListFreeStep, CtxtListFreeLeave, MainClosePort, globals
<1>2. ASSUME NEW t \in Threads, Worker(t) PROVE FALSE
  BY <1>2, WorkerFrame DEF IInv
<1>3. ASSUME NEW c \in Conns, Kernel(c) \/ Client(c) PROVE FALSE
  BY <1>3, KernelFrame
<1>. QED
  BY <1>1, <1>2, <1>3, CtrlFrame DEF Next, vars, globals, CreateListenSocket, MainCloseListen

\* Who takes a connection that is served off the list closes its socket.
LEMMA LiveEnds ==
  ASSUME IInv, OneByOne, Structure, ~list.uaf, [Next]_vars, ~list'.uaf,
         NEW c \in Conns, c \in list.live, c \notin list'.live
  PROVE  Closes(c) /\ sock'[c] = "closed"
<1>1. Closes(c)
  <2>1. ~ListenAllocated /\ ~ListenFreed /\ list' # list
    BY ListenIsNone DEF ListenAllocated, ListenFreed
  <2>2. ~(\E t \in Threads : \E d \in Conns : SetUp(t, d))
    BY DEF SetUp
  <2>3. PICK d \in Conns : Closes(d)
    BY <2>1, <2>2, ListMoves, NoStray
  <2>. QED
    BY <2>3 DEF Closes
<1>. QED
  BY <1>1, IInvTypes DEF Closes, TypeSock

LEMMA StepOneConnection ==
  ASSUME IInv, OneByOne, Structure, ~list.uaf, [Next]_vars, ~list'.uaf PROVE OneConnection'
<1>1. OneConnection /\ ListenContext
  BY DEF Structure, IInv, Control
<1>2. ASSUME NEW c \in Conns, NEW d \in Conns, sock'[c] \in {"backlog", "open"}, sock'[d] \in {"backlog", "open"}
      PROVE  c = d
  <2>1. ASSUME NEW a \in Conns, sock'[a] \in {"backlog", "open"}, sock[a] \notin {"backlog", "open"}
        PROVE  Connect(a)
    BY <2>1, SockMoves
  <2>2. ASSUME NEW a \in Conns, NEW b \in Conns, Connect(a), sock'[b] \in {"backlog", "open"}
        PROVE  a = b
    BY <2>2, IInvTypes DEF Connect, OneByOne, TypeSock
  <2>. QED
    BY <1>1, <1>2, <2>1, <2>2 DEF OneConnection
<1>3. ASSUME NEW c \in Conns, sock'[c] = "open" PROVE c \in list'.live \/ SocketAccept' = c
  <2>1. CASE sock[c] # "open"
    BY <1>3, <2>1, SockMoves DEF AcceptConnect
  <2>2. CASE sock[c] = "open" /\ c \in list.live
    BY <1>3, <2>2, LiveEnds
  <2>3. CASE sock[c] = "open" /\ SocketAccept = c /\ SocketAccept' # c
    <3>1. ~MainCreateAcceptSocket
      BY <1>1, <2>3 DEF MainCreateAcceptSocket, ListenContext
    <3>2. ~MainFreeListen
      BY <1>1, <1>3, <2>3 DEF MainFreeListen, ListenContext, LeftAccepted
    <3>3. ~\E d \in Conns : AcceptConnect(d)
      BY <2>3, ListenIsNone DEF AcceptConnect
    <3>4. PICK t \in Threads : IoOf(t) /\ WorkerRepost(t)
      BY <2>3, <3>1, <3>2, <3>3, SocketAcceptMoves
    <3>5. wpc[t] = "repost" /\ t[1] = run /\ UNCHANGED list
      BY <3>4, AcceptHandler DEF WorkerRepost, memory
    <3>6. c \in list.live
      BY <2>3, <3>5 DEF Structure, BeingSetUp
    <3>. QED
      BY <3>5, <3>6
  <2>. QED
    BY <1>1, <2>1, <2>2, <2>3 DEF OneConnection
<1>4. ASSUME NEW c \in Conns, sock'[c] = "backlog" PROVE g_sdListen' = "listening"
  <2>1. CASE sock[c] # "backlog"
    BY <1>4, <2>1, SockMoves, KernelFrame DEF Connect, Client
  <2>2. CASE sock[c] = "backlog"
    <3>1. ~CreateListenSocket
      BY <1>1, <2>2 DEF CreateListenSocket, OneConnection
    <3>2. ~MainCloseListen
      BY <1>4 DEF MainCloseListen
    <3>. QED
      BY <1>1, <2>2, <3>1, <3>2, ListenSocketMoves DEF OneConnection
  <2>. QED
    BY <2>1, <2>2
<1>5. ASSUME g_sdListen' = "listening"
      PROVE  mpc' \in {"accept", "serve", "finally", "post", "join", "closeListen"}
  <2>1. CASE g_sdListen # "listening"
    BY <1>5, <2>1, ListenSocketMoves
  <2>2. CASE g_sdListen = "listening"
    <3>1. mpc \in {"accept", "serve", "finally", "post", "join", "closeListen"}
      BY <1>1, <2>2 DEF OneConnection
    <3>2. ~MainCloseListen
      BY <1>5 DEF MainCloseListen
    <3>. QED
      BY <3>1, <3>2, PassMoves, MainMovesOn
  <2>. QED
    BY <2>1, <2>2
<1>. QED
  BY <1>2, <1>3, <1>4, <1>5 DEF OneConnection

LEMMA StepListener ==
  ASSUME IInv, OneByOne, Structure, ~list.uaf, [Next]_vars, ~list'.uaf PROVE Listener'
<1>1. Listener /\ ListenContext /\ Listen \notin Conns /\ Listen # NULL /\ NULL \notin Conns
  BY ListenIsNone DEF Structure, IInv, Control
<1>2. /\ list' # list => \/ ListenAllocated \/ ListenFreed
                         \/ \E t \in Threads : \E c \in Conns : SetUp(t, c)
                         \/ \E c \in Conns : Closes(c)
  BY ListMoves, NoStray
<1>3. list.live \subseteq Ctxts /\ list'.live \subseteq Ctxts
  BY IInvTypes, StepList DEF TypeList, List
<1>4. ASSUME g_pCtxtListenSocket' = Listen PROVE Listen \in list'.live
  <2>1. CASE g_pCtxtListenSocket = Listen
    <3>1. Listen \in list.live /\ ~MainFreeListen
      BY <1>1, <1>4, <2>1 DEF Listener, MainFreeListen
    <3>. QED
      BY <1>1, <1>2, <3>1 DEF ListenAllocated, ListenFreed, SetUp, Closes
  <2>2. CASE g_pCtxtListenSocket # Listen
    <3>1. MainCreateAcceptSocket
      BY <1>1, <1>4, <2>2, PassMoves DEF MainFreeListen
    <3>2. list' = CtxtAllocate(list, Listen)
      BY <1>1, <1>4, <3>1 DEF MainCreateAcceptSocket, Updated, NewContext, OneByOne
    <3>. QED
      BY <1>1, <3>2, IInvTypes, CtxtAllocateType, ListenIsNone DEF TypeList
  <2>. QED
    BY <2>1, <2>2
<1>5. ASSUME g_pCtxtListenSocket' = NULL PROVE SocketAccept' = NULL
  <2>1. CASE g_pCtxtListenSocket = NULL
    <3>1. SocketAccept = NULL
      BY <1>1, <2>1 DEF Listener
    <3>2. MainCreateAcceptSocket => SocketAccept' = NULL
      BY <1>1, <1>5, <3>1 DEF MainCreateAcceptSocket
    <3>3. ASSUME NEW t \in Threads, IoOf(t), WorkerRepost(t) PROVE FALSE
      BY <1>1, <2>1, <3>3, AcceptHandler
    <3>4. ~InKernel(Listen)
      BY <1>1, <2>1, ListenWhen
    <3>. QED
      BY <3>1, <3>2, <3>3, <3>4, SocketAcceptMoves
  <2>2. CASE g_pCtxtListenSocket # NULL
    <3>1. ~MainCreateAcceptSocket
      BY <1>1, <2>2, ListenWhen DEF MainCreateAcceptSocket
    <3>2. MainFreeListen
      BY <1>5, <2>2, <3>1, PassMoves
    <3>. QED
      BY <2>2, <3>2 DEF MainFreeListen
  <2>. QED
    BY <2>1, <2>2
<1>6. ASSUME g_pCtxtListenSocket' = NULL, mpc' \notin {"free", "walk"} PROVE list'.live = {}
  <2>1. g_pCtxtListenSocket = NULL
    <3>1. ~MainFreeListen
      BY <1>6 DEF MainFreeListen
    <3>2. MainCreateAcceptSocket => g_pCtxtListenSocket = NULL
      BY <1>1, ListenWhen DEF MainCreateAcceptSocket
    <3>. QED
      BY <1>6, <3>1, <3>2, PassMoves
  <2>2. ~ListenAllocated /\ ~ListenFreed
    BY <1>1, <1>6, <2>1 DEF ListenAllocated, ListenFreed
  <2>3. ~(\E t \in Threads : \E c \in Conns : SetUp(t, c))
    BY <1>1, <2>1, AcceptHandler DEF SetUp
  <2>4. list'.live \subseteq list.live
    BY <1>2, <2>2, <2>3 DEF Closes
  <2>5. CASE mpc \notin {"free", "walk"}
    BY <1>1, <2>1, <2>4, <2>5 DEF Listener
  <2>6. CASE mpc \in {"free", "walk"}
    <3>1. CtxtListFreeLeave
      BY <1>6, <2>6, PassMoves, MainMovesOn
    <3>2. list.g_pCtxtList = NULL
      BY <3>1 DEF CtxtListFreeLeave, Structure, SingleContext
    <3>3. Conns \cap list.live = {}
      BY <1>1, <3>2 DEF Structure, SingleContext
    <3>4. Listen \notin list.live
      BY <1>1, <2>1 DEF ListenContext
    <3>. QED
      BY <1>3, <2>4, <3>3, <3>4 DEF Conns
  <2>. QED
    BY <2>5, <2>6
<1>. QED
  BY <1>4, <1>5, <1>6 DEF Listener

\* The connection that t sets up stays the one that was accepted, and no
\* other worker has its context.
LEMMA SetupGoesOn ==
  ASSUME IInv, OneByOne, Structure, ~list.uaf, [Next]_vars, ~list'.uaf,
         NEW t \in Threads, t[1] = run, wpc[t] \in {"first", "repost"}
  PROVE  /\ ~(IoOf(t) /\ WorkerRepost(t)) => UNCHANGED SocketAccept
         /\ wpc[t] = "first" /\ ~(IoOf(t) /\ WorkerFirst(t)) => SocketAccept \in list'.live
<1>1. run' = run /\ ~MainCreateAcceptSocket /\ ~MainFreeListen /\ ~CtxtListFreeStep
      /\ ~InKernel(Listen) /\ WithWorker(Listen, t)
  BY InSetup
<1>2. ASSUME NEW u \in Threads, IoOf(u), WorkerFirst(u) \/ WorkerRepost(u) PROVE u = t
  BY <1>2, AcceptHandler DEF WorkerFirst, WorkerRepost, WorkerAccept
<1>3. ~(IoOf(t) /\ WorkerRepost(t)) => UNCHANGED SocketAccept
  BY <1>1, <1>2, SocketAcceptMoves
<1>4. ASSUME wpc[t] = "first", ~(IoOf(t) /\ WorkerFirst(t)) PROVE SocketAccept \in list'.live
  <2>1. g_pCtxtListenSocket = Listen /\ wpkt[t].ctxt = Listen /\ wpkt[t].ok
    BY SettingUp, <1>4 DEF IInv, Control, WorkerPackets
  <2>2. Allocated(t)
    BY <2>1 DEF Structure, Listener, Allocated
  <2>3. SocketAccept \in Conns /\ IsNew(SocketAccept) /\ SocketAccept \in list.live
    BY <1>4, <2>1, <2>2, HasAccept DEF Structure, BeingSetUp
  <2>4. ~ClosedBy(SocketAccept)
    BY <1>1, <1>2, <1>4, <2>3, ConnHandler DEF ClosedBy
  <2>. QED
    BY <2>3, <2>4, LiveEnds DEF Closes
<1>. QED
  BY <1>3, <1>4

LEMMA StepBeingSetUp ==
  ASSUME IInv, OneByOne, Structure, ~list.uaf, [Next]_vars, ~list'.uaf PROVE BeingSetUp'
<1> SUFFICES ASSUME NEW t \in Threads, t[1] = run', wpc'[t] \in {"first", "repost"}
             PROVE  /\ wpc'[t] = "first" => SocketAccept' \in list'.live
                    /\ wpc'[t] = "repost" /\ SocketAccept' \in Conns =>
                         SocketAccept' \in list'.live \/ sock'[SocketAccept'] = "closed"
  BY DEF BeingSetUp
<1>1. t[1] = run
  <2>1. CASE run' # run
    <3>1. MainResetEvent /\ run' = run + 1 /\ wpc'[t] = wpc[t]
      BY <2>1, PassMoves DEF MainResetEvent, worker
    <3>2. t[1] > run
      BY <3>1, Nums
    <3>. QED
      BY <3>1, <3>2 DEF IInv, Control, Passes
  <2>. QED
    BY <2>1
<1>2. CASE wpc[t] \notin {"first", "repost"}
  <2>1. IoOf(t) /\ WorkerAccept(t) /\ wpc'[t] = "first"
    BY <1>2, WpcMoves
  <2>2. SocketAccept \in Conns /\ SetUp(t, SocketAccept) /\ UNCHANGED SocketAccept
    BY <2>1, AcceptedIsSetUp DEF WorkerAccept
  <2>. QED
    BY <2>1, <2>2 DEF SetUp
<1>3. CASE wpc[t] = "first" /\ wpc'[t] = "first"
  <2>1. ~(IoOf(t) /\ WorkerFirst(t)) /\ ~(IoOf(t) /\ WorkerRepost(t))
    BY <1>3, IInvTypes DEF WorkerFirst, WorkerRepost, TypeWorker
  <2>. QED
    BY <1>1, <1>3, <2>1, SetupGoesOn
<1>4. CASE wpc[t] \in {"first", "repost"} /\ wpc'[t] = "repost"
  <2>1. UNCHANGED SocketAccept
    <3>1. ~(IoOf(t) /\ WorkerRepost(t))
      BY <1>4, IInvTypes DEF WorkerRepost, TypeWorker
    <3>. QED
      BY <1>1, <1>4, <3>1, SetupGoesOn
  <2>2. ASSUME SocketAccept \in Conns, SocketAccept \notin list'.live PROVE sock'[SocketAccept] = "closed"
    <3>1. CASE SocketAccept \in list.live
      BY <2>2, <3>1, LiveEnds
    <3>2. CASE SocketAccept \notin list.live
      <4>1. sock[SocketAccept] = "closed"
        BY <1>1, <1>4, <2>2, <3>2 DEF Structure, BeingSetUp
      <4>. QED
        BY <2>2, <4>1, SockMoves
    <3>. QED
      BY <3>1, <3>2
  <2>. QED
    BY <1>4, <2>1, <2>2
<1>5. wpc'[t] = "first" => wpc[t] # "repost"
  BY WpcMoves
<1>. QED
  BY <1>2, <1>3, <1>4, <1>5

LEMMA StepLock ==
  ASSUME IInv, OneByOne, Structure, ~list.uaf, [Next]_vars, ~list'.uaf PROVE Lock'
<1>1. Lock /\ MainThread \notin Threads /\ MainThread # Leaked /\ MainThread # NoThread
  BY NotWorkers DEF Structure, MainThread, Leaked, NoThread
<1>2. ASSUME cs' = MainThread PROVE mpc' = "walk"
  <2>1. CASE cs = MainThread
    <3>1. mpc = "walk"
      BY <1>1, <2>1 DEF Lock
    <3>. QED
      BY <1>1, <1>2, <3>1, PassMoves, MainMovesOn DEF CtxtListFreeLeave
  <2>2. CASE cs # MainThread
    BY <1>1, <1>2, <2>2, CsMoves DEF CtxtListFreeEnter, CtxtListFreeLeave
  <2>. QED
    BY <2>1, <2>2
<1>3. ASSUME mpc' = "walk" PROVE cs' \in {MainThread, Leaked}
  <2>1. CASE CtxtListFreeEnter
    BY <2>1 DEF CtxtListFreeEnter
  <2>2. CASE ~CtxtListFreeEnter
    <3>1. mpc = "walk"
      BY <1>3, <2>2, PassMoves, MainMovesOn
    <3>2. ~MainCreateAcceptSocket /\ ~CtxtListFreeLeave
      BY <1>3, <3>1 DEF MainCreateAcceptSocket, CtxtListFreeLeave
    <3>3. ASSUME NEW t \in Threads, IoOf(t), WorkerAccept(t) PROVE FALSE
      BY <3>1, <3>3, AcceptHandler, ListenWhen, ListenIsNone
    <3>. QED
      BY <1>1, <2>2, <3>1, <3>2, <3>3, CsMoves DEF Lock
  <2>. QED
    BY <2>1, <2>2
<1>4. ASSUME cs' \notin {NoThread, MainThread} PROVE list'.live \subseteq {Listen}
  <2>1. CASE cs \in {NoThread, MainThread}
    <3>1. \/ MainCreateAcceptSocket /\ cs' = Leaked
          \/ \E t \in Threads : IoOf(t) /\ WorkerAccept(t) /\ wpkt[t].ok /\ cs' = t /\ wpc'[t] = "exit"
      BY <1>1, <1>4, <2>1, CsMoves DEF CtxtListFreeEnter, CtxtListFreeLeave, Lock
    <3>2. CASE MainCreateAcceptSocket /\ cs' = Leaked
      <4>1. UNCHANGED list
        BY <1>4, <2>1, <3>2 DEF MainCreateAcceptSocket, Updated
      <4>2. list.live = {}
        BY <3>2, ListenWhen DEF MainCreateAcceptSocket, Structure, Listener
      <4>. QED
        BY <4>1, <4>2
    <3>3. CASE \E t \in Threads : IoOf(t) /\ WorkerAccept(t) /\ wpkt[t].ok /\ cs' = t /\ wpc'[t] = "exit"
      <4>1. PICK t \in Threads : IoOf(t) /\ WorkerAccept(t) /\ wpkt[t].ok /\ wpc'[t] = "exit"
        BY <3>3
      <4>2. UNCHANGED list
        BY <4>1, IInvTypes DEF WorkerAccept, TypeWorker
      <4>3. list.live \cap Conns = {} /\ list.live \subseteq Ctxts
        BY <4>1, NoneServed, IInvTypes DEF TypeList, List
      <4>. QED
        BY <4>2, <4>3 DEF Conns
    <3>. QED
      BY <3>1, <3>2, <3>3
  <2>2. CASE cs \notin {NoThread, MainThread}
    <3>1. ASSUME NEW t \in Threads, CanLock(t), IoOf(t), WorkerAccept(t) PROVE FALSE
      <4>1. wpc[t] # "exit" /\ cs = t
        BY <1>1, <2>2, <3>1 DEF CanLock, WorkerAccept
      <4>. QED
        BY <4>1 DEF IInv, Control, Section
    <3>2. ~(\E t \in Threads : \E c \in Conns : SetUp(t, c))
      BY <3>1 DEF SetUp
    <3>3. list.live \subseteq {Listen}
      BY <1>1, <2>2 DEF Lock
    <3>. QED
      BY <3>2, <3>3, ListMoves, NoStray DEF ListenAllocated, ListenFreed, Closes
  <2>. QED
    BY <2>1, <2>2
<1>. QED
  BY <1>2, <1>3, <1>4 DEF Lock

LEMMA StepStructure ==
  ASSUME IInv, OneByOne, Structure, ~list.uaf, [Next]_vars, ~list'.uaf PROVE Structure'
BY StepSingleContext, StepOneConnection, StepListener, StepBeingSetUp, StepLock DEF Structure

-----------------------------------------------------------------------------
(* Ports *)

LEMMA PortsMove ==
  ASSUME IInv, [Next]_vars
  PROVE  /\ openPorts' # openPorts =>
              \/ MainCreateThreads /\ openPorts' = openPorts \cup {run} /\ g_hIOCP' = run
              \/ MainClosePort /\ openPorts' = openPorts \ {g_hIOCP} /\ g_hIOCP' = INVALID
         /\ g_hIOCP' # g_hIOCP =>
              \/ MainCreateThreads /\ openPorts' = openPorts \cup {run} /\ g_hIOCP' = run
              \/ g_hIOCP' = INVALID
<1>1. CASE Main
  <2>1. CASE MainCreateThreads \/ MainClosePort
    BY <2>1 DEF MainCreateThreads, MainClosePort
  <2>2. CASE MainCreateAcceptSocket
    BY <2>2 DEF MainCreateAcceptSocket, Updated, UpdateFailed
  <2>3. CASE ~MainCreateThreads /\ ~MainClosePort /\ ~MainCreateAcceptSocket
    BY <1>1, <2>3 DEF Main, MainTest, MainClearRestart, MainClearEnd, MainResetEvent,
       CreateListenSocket, MainServe, MainFinally, MainPost, MainJoin,
       MainCloseListen, MainFreeListen, CtxtListFreeEnter, CtxtListFreeStep, CtxtListFreeLeave,
       globals, kernel
  <2>. QED
    BY <2>1, <2>2, <2>3
<1>2. ASSUME NEW t \in Threads, Worker(t) PROVE UNCHANGED openPorts /\ (g_hIOCP' # g_hIOCP => g_hIOCP' = INVALID)
  <2>1. UNCHANGED openPorts
    BY <1>2, WorkerFrame DEF IInv
  <2>2. IoOf(t) => g_hIOCP' = g_hIOCP \/ g_hIOCP' = INVALID
    <3>1. WorkerAccept(t) => g_hIOCP' = g_hIOCP \/ g_hIOCP' = INVALID
      BY DEF WorkerAccept, Updated, UpdateFailed
    <3>. QED
      BY <3>1, IoOfIs DEF WorkerFirst, WorkerRepost, WorkerDropped, WorkerRead, WorkerWrite, globals
  <2>. QED
    BY <1>2, <2>1, <2>2, Freed DEF WorkerGet, WorkerCheck, globals
<1>3. CtrlEvent \/ CtrlHandler => UNCHANGED <<openPorts, g_hIOCP>>
  BY CtrlFrame DEF globals, kernel
<1>4. ASSUME NEW c \in Conns, Kernel(c) \/ Client(c) PROVE UNCHANGED <<openPorts, g_hIOCP>>
  BY <1>4, KernelFrame
<1>5. UNCHANGED vars => UNCHANGED <<openPorts, g_hIOCP>>
  BY DEF vars, globals, kernel
<1>. QED
  BY <1>1, <1>2, <1>3, <1>4, <1>5 DEF Next

LEMMA RunMoves ==
  ASSUME IInv, [Next]_vars
  PROVE  run' = run \/ (MainResetEvent /\ run' = run + 1 /\ mpc = "reset" /\ mpc' = "threads")
BY PassMoves DEF MainResetEvent

LEMMA StepOpenedOnce ==
  ASSUME IInv, OpenedOnce, [Next]_vars PROVE OpenedOnce'
<1>1. openPorts \subseteq Runs /\ run \in Nat
  BY IInvTypes, Nums DEF TypeHandles
<1>2. ASSUME NEW r \in openPorts' PROVE r <= run' /\ (mpc' = "threads" => r < run')
  <2>1. CASE r \notin openPorts
    <3>1. MainCreateThreads /\ r = run
      BY <1>2, <2>1, PortsMove
    <3>. QED
      BY <1>1, <3>1 DEF MainCreateThreads
  <2>2. CASE r \in openPorts
    <3>1. r \in Nat /\ r <= run
      BY <1>1, <2>2, Nums DEF OpenedOnce, Runs
    <3>2. CASE run' = run
      <4>1. mpc' = "threads" => mpc = "threads"
        <5>1. ~MainResetEvent
          BY <1>1, <3>2 DEF MainResetEvent
        <5>. QED
          BY <5>1, PassMoves, MainMovesOn
      <4>. QED
        BY <1>1, <2>2, <3>1, <3>2, <4>1 DEF OpenedOnce
    <3>3. CASE run' = run + 1
      BY <1>1, <3>1, <3>3
    <3>. QED
      BY <3>2, <3>3, RunMoves
  <2>. QED
    BY <2>1, <2>2
<1>. QED
  BY <1>2 DEF OpenedOnce

\* A port that is lost is lost for good.
LEMMA LostStays ==
  ASSUME IInv, OpenedOnce, [Next]_vars, NoneLost' PROVE NoneLost
<1>1. openPorts \subseteq Runs /\ INVALID \notin Runs /\ run \in Nat
  BY IInvTypes, Nums DEF TypeHandles
<1>2. CASE MainCreateThreads /\ openPorts' = openPorts \cup {run} /\ g_hIOCP' = run
  <2>1. mpc = "threads"
    BY <1>2 DEF MainCreateThreads
  <2>2. ASSUME NEW r \in openPorts PROVE FALSE
    <3>1. r < run /\ r = run
      BY <1>2, <2>1, <2>2 DEF NoneLost, OpenedOnce
    <3>. QED
      BY <1>1, <3>1
  <2>. QED
    BY <2>2 DEF NoneLost
<1>3. CASE MainClosePort /\ openPorts' = openPorts \ {g_hIOCP} /\ g_hIOCP' = INVALID
  BY <1>1, <1>3 DEF NoneLost
<1>4. CASE openPorts' = openPorts /\ g_hIOCP' \in {g_hIOCP, INVALID}
  BY <1>1, <1>4 DEF NoneLost
<1>. QED
  BY <1>2, <1>3, <1>4, PortsMove

-----------------------------------------------------------------------------
(* Who works on contexts *)

Clean == IInv /\ OneByOne /\ OpenedOnce /\ Structure /\ ~list.uaf /\ NoneLost /\ Holding

LEMMA DeadCannotLock ==
  ASSUME IInv, NEW t \in Threads, Dead(t), wpc[t] \notin {"none", "exit"} PROVE wpc[t] = "io" /\ ~CanLock(t)
<1>1. wpc[t] = "io" /\ cs \notin {NoThread, MainThread}
  BY DEF Dead
<1>2. cs # t
  BY <1>1 DEF IInv, Control, Section
<1>. QED
  BY <1>1, <1>2, NotWorkers DEF CanLock

LEMMA SettledCannotLock ==
  ASSUME IInv, NEW t \in Threads, Settled(t), wpc[t] \in {"got", "io", "first", "repost"}
  PROVE  wpc[t] = "io" /\ ~CanLock(t) /\ cs \notin {NoThread, MainThread}
BY DeadCannotLock DEF Settled, Dead

\* A thread that has not settled is one of the pass, before the join.
LEMMA NotSettled ==
  ASSUME Clean, NEW t \in Threads, ~Settled(t) PROVE t[1] = run /\ mpc \in Serving
BY DEF Clean, Holding, PassesApart

\* Every worker that does more than end belongs to the pass.
LEMMA Actors ==
  ASSUME Clean, NEW t \in Threads, IoOf(t), ~WorkerAccept(t) \/ CanLock(t)
  PROVE  t[1] = run /\ mpc \in Serving
<1> SUFFICES ASSUME Settled(t) PROVE FALSE
  BY NotSettled
<1>1. wpc[t] = "io" /\ ~CanLock(t) /\ cs \notin {NoThread, MainThread}
  BY IoOfIs, SettledCannotLock DEF Clean
<1>2. WorkerDropped(t) \/ WorkerRead(t) \/ WorkerWrite(t)
  BY <1>1, IoOfIs DEF WorkerFirst, WorkerRepost
<1>3. wpkt[t].ctxt \in Conns /\ wpkt[t].ctxt \in list.live
  BY <1>2, ConnHandler DEF Clean
<1>4. list.live \subseteq {Listen}
  BY <1>1 DEF Clean, Structure, Lock
<1>. QED
  BY <1>3, <1>4, ListenIsNone

\* No step follows a pointer to a freed context.
LEMMA NoUseAfterFree ==
  ASSUME Clean, [Next]_vars PROVE ~list'.uaf
<1>1. ASSUME Stray PROVE FALSE
  <2>1. PICK t \in Threads : ~Allocated(t) /\ CanLock(t) /\ wpc[t] \in {"io", "first", "repost"}
    BY <1>1 DEF Stray
  <2>2. CASE Settled(t)
    BY <2>1, <2>2, SettledCannotLock DEF Clean
  <2>3. CASE ~Settled(t)
    <3>1. t[1] = run /\ mpc \in Serving
      BY <2>3, NotSettled
    <3>2. wpkt[t].ctxt \in list.live
      BY <2>1, <3>1 DEF Clean, Holding, Held, WorkerHolds, AtWork
    <3>. QED
      BY <2>1, <3>1, <3>2 DEF Allocated
  <2>. QED
    BY <2>2, <2>3
<1>2. \/ list' = list \/ ListenAllocated \/ ListenFreed
      \/ \E t \in Threads : \E c \in Conns : SetUp(t, c)
      \/ \E c \in Conns : Closes(c)
  BY <1>1, ListMoves DEF Clean
<1>. QED
  BY <1>2 DEF Clean, ListenAllocated, ListenFreed, SameHead, SetUp, Closes

\* While a pass has a listening context its port is open and known.
LEMMA OwnPort ==
  ASSUME Clean, mpc \in {"listen", "accept"} \/ g_pCtxtListenSocket = Listen
  PROVE  run \in openPorts /\ g_hIOCP = run /\ run \in Runs
<1>1. run \in openPorts
  BY ListenWhen, ListenIsNone DEF Clean, Holding, Ports, Serving
<1>. QED
  BY <1>1, IInvTypes DEF Clean, NoneLost, TypeHandles

LEMMA StepPorts ==
  ASSUME Clean, [Next]_vars PROVE Ports'
<1>1. Ports /\ IInv /\ Passes
  BY DEF Clean, Holding, IInv, Control
<1>2. ASSUME mpc' \in {"listen", "accept"} PROVE run' \in openPorts'
  <2>1. run' = run
    BY <1>1, <1>2, RunMoves
  <2>2. ~MainClosePort
    BY <1>2 DEF MainClosePort
  <2>3. CASE MainCreateThreads
    BY <1>2, <2>1, <2>3 DEF MainCreateThreads
  <2>4. CASE ~MainCreateThreads
    <3>1. openPorts' = openPorts
      BY <1>1, <2>2, <2>4, PortsMove
    <3>2. mpc \in {"listen", "accept"}
      BY <1>1, <1>2, <2>4, PassMoves, MainMovesOn
    <3>. QED
      BY <1>1, <2>1, <3>1, <3>2 DEF Ports
  <2>. QED
    BY <2>3, <2>4
<1>3. ASSUME g_hIOCP' # INVALID PROVE g_hIOCP' \in openPorts'
  BY <1>1, <1>3, PortsMove DEF Ports
<1>4. ASSUME mpc' \in (Serving \cup {"closeListen", "freeListen", "free", "walk", "closePort"}) \ {"threads"},
             run' \notin openPorts'
      PROVE  /\ g_pCtxtListenSocket' = NULL
             /\ \A t \in Threads : t[1] = run' => wpc'[t] = "none"
  <2>1. run' = run
    BY <1>1, <1>4, RunMoves
  <2>2. CASE MainCreateThreads
    <3>1. UNCHANGED wpc
      BY <1>4, <2>1, <2>2 DEF MainCreateThreads
    <3>2. mpc = "threads" /\ UNCHANGED g_pCtxtListenSocket
      BY <2>2 DEF MainCreateThreads
    <3>. QED
      BY <1>1, <2>1, <3>1, <3>2, ListenWhen DEF Passes
  <2>3. CASE ~MainCreateThreads
    <3>1. ~MainClosePort
      BY <1>4 DEF MainClosePort, Serving
    <3>2. openPorts' = openPorts
      BY <1>1, <2>3, <3>1, PortsMove
    <3>3. mpc \in (Serving \cup {"closeListen", "freeListen", "free", "walk", "closePort"}) \ {"threads"}
      BY <1>1, <1>4, <2>3, PassMoves, MainMovesOn DEF Serving
    <3>4. g_pCtxtListenSocket = NULL /\ \A t \in Threads : t[1] = run => wpc[t] = "none"
      BY <1>1, <1>4, <2>1, <3>2, <3>3 DEF Ports
    <3>5. ~MainCreateAcceptSocket
      BY <1>1, <1>4, <2>1, <3>2 DEF MainCreateAcceptSocket, Ports
    <3>6. g_pCtxtListenSocket' = NULL
      BY <1>1, <3>4, <3>5, PassMoves DEF MainFreeListen
    <3>7. ASSUME NEW t \in Threads, t[1] = run, wpc'[t] # wpc[t] PROVE FALSE
      <4>1. wpc[t] = "none"
        BY <3>4, <3>7
      <4>. QED
        BY <1>1, <2>3, <3>7, <4>1, WpcMoves
    <3>. QED
      BY <2>1, <3>4, <3>6, <3>7
  <2>. QED
    BY <2>2, <2>3
<1>. QED
  BY <1>2, <1>3, <1>4 DEF Ports

-----------------------------------------------------------------------------
(* Contexts of the pass *)

\* A worker of the pass closes the connection c or posts an operation on it.
Handles(t, c) ==
    /\ IoOf(t) /\ t[1] = run /\ mpc \in Serving /\ c \in list.live
    /\ \/ WorkerFirst(t) /\ c = SocketAccept /\ Unseen(c)
       \/ /\ WorkerDropped(t) \/ WorkerRead(t) \/ WorkerWrite(t)
          /\ c = wpkt[t].ctxt /\ wpc[t] = "io" /\ wpc'[t] = "gqcs"

LEMMA IsHandled ==
  ASSUME Clean, NEW t \in Threads, NEW c \in Conns, IoOf(t),
         \/ WorkerFirst(t) /\ c = SocketAccept
         \/ (WorkerDropped(t) \/ WorkerRead(t) \/ WorkerWrite(t)) /\ c = wpkt[t].ctxt
  PROVE  Handles(t, c)
<1>1. wpc \in [Threads -> WorkerSteps] /\ IInv
  BY IInvTypes DEF Clean, TypeWorker
<1>2. CASE WorkerFirst(t) /\ c = SocketAccept
  <2>1. wpc[t] = "first" /\ ~WorkerRepost(t) /\ ~WorkerAccept(t)
    BY <1>2 DEF WorkerFirst, WorkerRepost, WorkerAccept
  <2>2. Unseen(c) /\ t[1] = run /\ mpc \in Serving
    BY <1>1, <1>2, <2>1, AcceptHandler, Actors
  <2>3. c \in list.live
    BY <1>2, <2>1, <2>2 DEF Clean, Structure, BeingSetUp
  <2>. QED
    BY <1>2, <2>2, <2>3 DEF Handles
<1>3. CASE (WorkerDropped(t) \/ WorkerRead(t) \/ WorkerWrite(t)) /\ c = wpkt[t].ctxt
  <2>1. ~WorkerAccept(t)
    BY <1>3 DEF WorkerAccept, WorkerDropped, WorkerRead, WorkerWrite
  <2>2. t[1] = run /\ mpc \in Serving
    BY <2>1, Actors
  <2>3. wpc[t] = "io" /\ wpc'[t] = "gqcs"
    BY <1>1, <1>3 DEF WorkerDropped, WorkerRead, WorkerWrite
  <2>4. c \in list.live
    BY <1>1, <1>3, ConnHandler
  <2>. QED
    BY <1>3, <2>2, <2>3, <2>4 DEF Handles
<1>. QED
  BY <1>2, <1>3

LEMMA HandledAlone ==
  ASSUME Clean, NEW t \in Threads, NEW c \in Conns, Handles(t, c)
  PROVE  /\ ~InKernel(c)
         /\ \A i \in DOMAIN port[run] : port[run][i].ctxt # c
         /\ \A u \in Threads : u[1] = run /\ AtWork(u) /\ wpkt[u].ctxt = c => u = t /\ wpc'[u] = "gqcs"
<1>1. CASE Unseen(c)
  <2>1. run \in Runs
    BY RunIsRun DEF Handles, Serving, Busy, Clean
  <2>. QED
    BY <1>1, <2>1 DEF Unseen
<1>2. CASE c = wpkt[t].ctxt /\ wpc[t] = "io" /\ wpc'[t] = "gqcs"
  <2>1. WorkerHolds(t) /\ AtWork(t) /\ t[1] = run
    BY <1>2 DEF Handles, Clean, Holding, Held, AtWork
  <2>. QED
    BY <1>2, <2>1 DEF WorkerHolds
<1>. QED
  BY <1>1, <1>2 DEF Handles

LEMMA ClosedByHandler ==
  ASSUME Clean, NEW c \in Conns, Closes(c)
  PROVE  CtxtListFreeStep \/ \E t \in Threads : Handles(t, c)
BY IsHandled DEF Closes, ClosedBy

LEMMA PostedByHandler ==
  ASSUME Clean, [Next]_vars, NEW c \in Conns, ~InKernel(c), InKernel(c)'
  PROVE  \E t \in Threads : Handles(t, c) /\ UNCHANGED <<list, port>>
<1>1. pend'[c] # pend[c] /\ pend'[c] # Idle /\ c # Listen /\ c \in Ctxts /\ IInv
  BY ListenIsNone DEF InKernel, Idle, Clean, Conns
<1>2. PICK t \in Threads :
        /\ IoOf(t) /\ UNCHANGED <<port, sock, list>>
        /\ \/ WorkerFirst(t) /\ c = SocketAccept
           \/ (WorkerRead(t) \/ WorkerWrite(t)) /\ c = wpkt[t].ctxt
  BY <1>1, PendMoves
<1>. QED
  BY <1>2, IsHandled

\* Who takes a context off the list.
LEMMA ContextEnds ==
  ASSUME Clean, [Next]_vars, NEW x \in list.live, x \notin list'.live
  PROVE  (ListenFreed /\ x = Listen) \/ (x \in Conns /\ Closes(x))
<1>1. \/ list' = list \/ ListenAllocated \/ ListenFreed
      \/ \E t \in Threads : \E c \in Conns : SetUp(t, c)
      \/ \E c \in Conns : Closes(c)
  BY ListMoves, NoUseAfterFree, NoStray DEF Clean
<1>2. CASE ListenFreed
  BY <1>2 DEF ListenFreed
<1>3. CASE \E c \in Conns : Closes(c)
  BY <1>3 DEF Closes
<1>. QED
  BY <1>1, <1>2, <1>3 DEF ListenAllocated, SetUp

\* While main serves, a context stays as long as somebody has it.
LEMMA ContextStays ==
  ASSUME Clean, [Next]_vars, mpc \in Serving, NEW x \in list.live,
         x \in Conns => \A t \in Threads : ~Handles(t, x)
  PROVE  x \in list'.live
<1>1. ~ListenFreed /\ ~CtxtListFreeStep
  BY DEF ListenFreed, MainFreeListen, CtxtListFreeStep, Serving
<1>. QED
  BY <1>1, ContextEnds, ClosedByHandler

LEMMA StepOfThisPass ==
  ASSUME Clean, [Next]_vars PROVE OfThisPass'
<1>1. IInv /\ OfThisPass /\ Passes /\ list.live \subseteq Ctxts /\ list'.live \subseteq Ctxts
      /\ key \in [Ctxts -> Runs \cup {INVALID}] /\ pend \in [Ctxts -> Operation]
  BY IInvTypes, StepList DEF Clean, Holding, TypeList, List, IInv, Control, TypeIo, TypePend
<1>2. ASSUME NEW x \in list'.live PROVE key'[x] = run'
  <2>1. CASE MainResetEvent
    <3>1. list' = list
      BY <2>1 DEF MainResetEvent, memory
    <3>2. list.live = {}
      BY <1>1, <2>1, ListenWhen DEF MainResetEvent, Clean, Structure, Listener
    <3>. QED
      BY <1>2, <3>1, <3>2
  <2>2. CASE run' = run
    <3>1. ASSUME MainCreateAcceptSocket PROVE g_hIOCP = run
      BY <3>1, OwnPort DEF MainCreateAcceptSocket
    <3>2. ASSUME NEW t \in Threads, IoOf(t), WorkerAccept(t) PROVE g_hIOCP = run
      BY <1>1, <3>2, AcceptHandler, OwnPort
    <3>3. key'[x] # key[x] => key'[x] = run
      BY <1>1, <1>2, <3>1, <3>2, PassMoves
    <3>4. CASE x \in list.live
      BY <1>1, <2>2, <3>3, <3>4 DEF OfThisPass
    <3>5. CASE x \notin list.live
      <4>1. \/ list' = list \/ ListenAllocated \/ ListenFreed
            \/ \E t \in Threads : \E c \in Conns : SetUp(t, c)
            \/ \E c \in Conns : Closes(c)
        BY ListMoves, NoUseAfterFree, NoStray DEF Clean
      <4>2. CASE ListenAllocated
        <5>1. x = Listen
          BY <1>2, <3>5, <4>2 DEF ListenAllocated
        <5>. QED
          BY <1>1, <2>2, <3>1, <4>2, <5>1, ListenIsNone DEF ListenAllocated
      <4>3. CASE \E t \in Threads : \E c \in Conns : SetUp(t, c)
        <5>1. PICK t \in Threads : \E c \in Conns : SetUp(t, c)
          BY <4>3
        <5>2. key' = [key EXCEPT ![x] = g_hIOCP] /\ IoOf(t) /\ WorkerAccept(t)
          BY <1>2, <3>5, <5>1 DEF SetUp
        <5>. QED
          BY <1>1, <1>2, <2>2, <3>2, <5>2
      <4>. QED
        BY <1>2, <3>5, <4>1, <4>2, <4>3 DEF ListenFreed, Closes
    <3>. QED
      BY <3>4, <3>5
  <2>. QED
    BY <1>1, <2>1, <2>2, RunMoves
<1>3. ASSUME NEW x \in Ctxts, InKernel(x)' PROVE x \in list'.live
  <2>1. CASE x = Listen
    <3>1. IInv' /\ Structure'
      BY NoUseAfterFree, StepIInv, StepStructure DEF Clean
    <3>2. g_pCtxtListenSocket' = Listen
      BY <1>3, <2>1, <3>1 DEF IInv, Control, ListenContext, TypeOK
    <3>. QED
      BY <2>1, <3>1, <3>2 DEF Structure, Listener
  <2>2. CASE x \in Conns /\ ~InKernel(x)
    BY <1>3, <2>2, PostedByHandler DEF Handles
  <2>3. CASE x \in Conns /\ InKernel(x)
    <3>1. x \in list.live
      BY <1>1, <2>3 DEF OfThisPass
    <3>2. ~Closes(x)
      BY <1>1, <1>3 DEF Closes, Cancelled, Completed, InKernel, Idle
    <3>. QED
      BY <2>3, <3>1, <3>2, ContextEnds, ListenIsNone
  <2>. QED
    BY <2>1, <2>2, <2>3 DEF Conns
<1>. QED
  BY <1>2, <1>3 DEF OfThisPass

LEMMA StepUntouched ==
  ASSUME Clean, [Next]_vars PROVE Untouched'
<1>1. IInv /\ Untouched /\ Passes /\ port \in [Runs -> Seq(Packet)] /\ port' \in [Runs -> Seq(Packet)]
      /\ run \in Nat /\ INVALID \notin Runs
  BY IInvTypes, StepPort, Nums DEF Clean, Holding, IInv, Control, TypePort
<1>2. run' >= run
  BY <1>1, RunMoves
<1>3. ASSUME NEW r \in Runs, r > run' PROVE port'[r] = <<>>
  <2>1. r > run /\ r # run
    BY <1>1, <1>2, <1>3, RunMoves DEF Runs
  <2>2. PICK s \in [Runs -> 0..1] : PacketsFrom(s)
    BY <1>1, PacketMoves
  <2>3. ASSUME NEW i \in DOMAIN port'[r] PROVE FALSE
    <3>1. port[r] = <<>> /\ DOMAIN port[r] = {}
      BY <1>1, <2>1 DEF Untouched
    <3>2. r # g_hIOCP
      BY <1>1, <2>1 DEF Passes
    <3>3. PICK x \in Ctxts : Ends(x) /\ r = key[x]
      BY <2>2, <2>3, <3>1, <3>2 DEF PacketsFrom
    <3>4. key[x] = run
      BY <3>3 DEF Ends, Clean, Holding, OfThisPass
    <3>. QED
      BY <2>1, <3>3, <3>4
  <2> DEFINE q == port'[r]
  <2>4. q \in Seq(Packet) /\ \A i \in DOMAIN q : FALSE
    BY <1>1, <2>3
  <2>. HIDE DEF q
  <2>5. Len(q) = 0
    BY <2>4
  <2>6. q = <<>>
    BY <2>4, <2>5
  <2>. QED
    BY <2>6 DEF q
<1>4. ASSUME NEW t \in Threads, t[1] > run' PROVE wpkt'[t].ctxt = NULL
  <2>1. t[1] > run
    BY <1>1, <1>2, <1>4, RunMoves, Nums
  <2>2. wpc[t] = "none" /\ wpkt[t].ctxt = NULL
    BY <1>1, <2>1 DEF Passes, Untouched
  <2>. QED
    BY <1>1, <2>2, WpktMoves
<1>. QED
  BY <1>3, <1>4 DEF Untouched

LEMMA StepPacketHolds ==
  ASSUME Clean, [Next]_vars, mpc \in Serving, run' = run, NEW i \in DOMAIN port'[run],
         NEW x, x = port'[run][i].ctxt, x # NULL
  PROVE  /\ x \in list'.live
         /\ x \in Conns => /\ ~InKernel(x)'
                           /\ \A j \in DOMAIN port'[run] : port'[run][j].ctxt = x => i = j
<1>1. IInv /\ run \in Runs /\ port \in [Runs -> Seq(Packet)] /\ port' \in [Runs -> Seq(Packet)]
      /\ \A j \in DOMAIN port[run] : PacketHolds(j)
  BY RunIsRun, IInvTypes, StepPort DEF Clean, Holding, Held, Serving, Busy, TypePort
<1>2. PICK s \in [Runs -> 0..1] : PacketsFrom(s)
  BY <1>1, PacketMoves
<1>3. /\ DOMAIN port'[run] \subseteq Int /\ s[run] \in Int
  <2> DEFINE q == port'[run]
  <2>1. q \in Seq(Packet)
    BY <1>1
  <2>. HIDE DEF q
  <2>2. DOMAIN q \subseteq Int
    BY <2>1
  <2>. QED
    BY <1>1, <2>2 DEF q
<1>4. ASSUME NEW j \in DOMAIN port'[run], port'[run][j].ctxt # NULL
      PROVE  \/ j + s[run] \in DOMAIN port[run] /\ port'[run][j] = port[run][j + s[run]]
             \/ Ends(port'[run][j].ctxt) /\ port'[run][j].ctxt \in Ctxts /\ j = Len(port[run]) + 1
  BY <1>1, <1>2, <1>4 DEF PacketsFrom
<1>5. CASE i + s[run] \in DOMAIN port[run] /\ port'[run][i] = port[run][i + s[run]]
  <2>1. /\ x \in list.live
        /\ x \in Conns => /\ ~InKernel(x)
                          /\ \A j \in DOMAIN port[run] : port[run][j].ctxt = x => i + s[run] = j
    BY <1>1, <1>5 DEF PacketHolds
  <2>2. ASSUME x \in Conns, NEW t \in Threads, Handles(t, x) PROVE FALSE
    BY <1>5, <2>2, HandledAlone
  <2>3. x \in list'.live
    BY <2>1, <2>2, ContextStays
  <2>4. x \in Conns => ~InKernel(x)'
    BY <2>1, <2>2, PostedByHandler
  <2>5. ASSUME x \in Conns, NEW j \in DOMAIN port'[run], port'[run][j].ctxt = x PROVE i = j
    <3>1. j + s[run] \in DOMAIN port[run] /\ port'[run][j] = port[run][j + s[run]]
      BY <1>4, <2>1, <2>5 DEF Ends
    <3>2. i + s[run] = j + s[run]
      BY <2>1, <2>5, <3>1
    <3>. QED
      BY <1>3, <3>2
  <2>. QED
    BY <2>3, <2>4, <2>5
<1>6. CASE Ends(x) /\ x \in Ctxts /\ i = Len(port[run]) + 1
  <2>1. InKernel(x) /\ ~InKernel(x)'
    BY <1>6 DEF Ends, InKernel
  <2>2. x \in list.live
    BY <1>6, <2>1 DEF Clean, Holding, OfThisPass
  <2>3. x \in list'.live
    BY <2>1, <2>2, HandledAlone, ContextStays
  <2>4. ASSUME x \in Conns, NEW j \in DOMAIN port'[run], port'[run][j].ctxt = x PROVE i = j
    <3>1. ASSUME j + s[run] \in DOMAIN port[run], port'[run][j] = port[run][j + s[run]] PROVE FALSE
      BY <1>1, <2>1, <2>4, <3>1 DEF PacketHolds
    <3>. QED
      BY <1>4, <1>6, <2>4, <3>1
  <2>. QED
    BY <2>1, <2>3, <2>4
<1>. QED
  BY <1>4, <1>5, <1>6

\* A worker has its packet from before, or it took the first of the port.
LEMMA WorkerHad ==
  ASSUME Clean, [Next]_vars, NEW t \in Threads, t[1] = run, mpc \in Serving, AtWork(t)'
  PROVE  \/ AtWork(t) /\ wpkt'[t] = wpkt[t]
         \/ /\ WorkerGet(t) /\ 1 \in DOMAIN port[run] /\ wpkt'[t] = port[run][1]
            /\ UNCHANGED <<list, pend>> /\ wpkt'[t].ctxt # NULL
            /\ \A i \in DOMAIN port'[run] : i + 1 \in DOMAIN port[run] /\ port'[run][i] = port[run][i + 1]
                                            /\ i + 1 # 1
            /\ \A u \in Threads : u # t => wpc'[u] = wpc[u] /\ wpkt'[u] = wpkt[u]
<1>1. IInv /\ wpc \in [Threads -> WorkerSteps] /\ wpkt \in [Threads -> Packet] /\ run \in Runs
      /\ port \in [Runs -> Seq(Packet)]
  BY IInvTypes, RunIsRun DEF Clean, TypeWorker, TypePort, Serving, Busy
<1>2. CASE WorkerGet(t)
  <2>1. wpc[t] = "gqcs" /\ wpc'[t] = (IF wpkt'[t].ctxt = NULL THEN "exit" ELSE "got")
    BY <1>1, <1>2 DEF WorkerGet
  <2>2. run \in openPorts
    BY <2>1 DEF Clean, Holding, Ports, Serving, IInv, Control, Passes
  <2>3. port[run] # <<>> /\ wpkt'[t] = Head(port[run]) /\ port' = [port EXCEPT ![run] = Tail(@)]
    BY <1>1, <1>2, <2>2 DEF WorkerGet
  <2> DEFINE q == port[run]
  <2>4. q \in Seq(Packet) /\ q # <<>> /\ port'[run] = Tail(q) /\ wpkt'[t] = Head(q)
    BY <1>1, <2>3
  <2>. HIDE DEF q
  <2>5. 1 \in DOMAIN q /\ wpkt'[t] = q[1]
        /\ \A i \in DOMAIN Tail(q) : i + 1 \in DOMAIN q /\ Tail(q)[i] = q[i + 1] /\ i + 1 # 1
    BY <2>4
  <2>6. /\ 1 \in DOMAIN port[run] /\ wpkt'[t] = port[run][1]
        /\ \A i \in DOMAIN port'[run] : i + 1 \in DOMAIN port[run] /\ port'[run][i] = port[run][i + 1]
                                        /\ i + 1 # 1
    BY <2>4, <2>5 DEF q
  <2>7. UNCHANGED <<list, pend>>
    BY <1>2 DEF WorkerGet, memory
  <2>8. \A u \in Threads : u # t => wpc'[u] = wpc[u] /\ wpkt'[u] = wpkt[u]
    BY <1>1, <1>2, WorkerFrame DEF Worker, IInv
  <2>. QED
    BY <1>2, <2>1, <2>6, <2>7, <2>8 DEF AtWork
<1>3. CASE ~WorkerGet(t)
  <2>1. wpkt'[t] = wpkt[t]
    BY <1>1, <1>3, WpktMoves
  <2>2. AtWork(t)
    BY <1>1, <1>3, WpcMoves DEF AtWork
  <2>. QED
    BY <2>1, <2>2
<1>. QED
  BY <1>2, <1>3

LEMMA StepWorkerHolds ==
  ASSUME Clean, [Next]_vars, mpc \in Serving, run' = run, NEW t \in Threads, t[1] = run, AtWork(t)',
         NEW x, x = wpkt'[t].ctxt
  PROVE  /\ x \in list'.live
         /\ x \in Conns =>
              /\ ~InKernel(x)'
              /\ \A i \in DOMAIN port'[run] : port'[run][i].ctxt # x
              /\ \A u \in Threads : u[1] = run /\ AtWork(u)' /\ wpkt'[u].ctxt = x => u = t
<1>1. IInv /\ run \in Runs /\ (\A j \in DOMAIN port[run] : PacketHolds(j)) /\ (\A u \in Threads : WorkerHolds(u))
  BY RunIsRun DEF Clean, Holding, Held, Serving, Busy
<1>2. CASE AtWork(t) /\ wpkt'[t] = wpkt[t]
  <2>1. /\ x \in list.live
        /\ x \in Conns =>
             /\ ~InKernel(x)
             /\ \A i \in DOMAIN port[run] : port[run][i].ctxt # x
             /\ \A u \in Threads : u[1] = run /\ AtWork(u) /\ wpkt[u].ctxt = x => u = t
    BY <1>1, <1>2 DEF WorkerHolds
  <2>2. ASSUME x \in Conns, NEW u \in Threads, Handles(u, x) PROVE FALSE
    <3>1. wpc'[t] = "gqcs"
      BY <1>2, <2>2, HandledAlone
    <3>. QED
      BY <3>1 DEF AtWork
  <2>3. x \in list'.live
    BY <2>1, <2>2, ContextStays
  <2>4. x \in Conns => ~InKernel(x)'
    BY <2>1, <2>2, PostedByHandler
  <2>5. ASSUME x \in Conns, NEW i \in DOMAIN port'[run], port'[run][i].ctxt = x PROVE FALSE
    <3>1. PICK s \in [Runs -> 0..1] : PacketsFrom(s)
      BY <1>1, PacketMoves
    <3>. QED
      BY <1>1, <2>1, <2>5, <3>1, ListenIsNone DEF PacketsFrom, Ends
  <2>6. ASSUME x \in Conns, NEW u \in Threads, u[1] = run, AtWork(u)', wpkt'[u].ctxt = x PROVE u = t
    BY <2>1, <2>6, WorkerHad
  <2>. QED
    BY <2>3, <2>4, <2>5, <2>6
<1>3. CASE /\ 1 \in DOMAIN port[run] /\ wpkt'[t] = port[run][1]
           /\ UNCHANGED <<list, pend>> /\ wpkt'[t].ctxt # NULL
           /\ \A i \in DOMAIN port'[run] : i + 1 \in DOMAIN port[run] /\ port'[run][i] = port[run][i + 1]
                                           /\ i + 1 # 1
           /\ \A u \in Threads : u # t => wpc'[u] = wpc[u] /\ wpkt'[u] = wpkt[u]
  <2>1. /\ x \in list.live
        /\ x \in Conns => /\ ~InKernel(x)
                          /\ \A j \in DOMAIN port[run] : port[run][j].ctxt = x => 1 = j
    BY <1>1, <1>3 DEF PacketHolds
  <2>2. ASSUME x \in Conns, NEW i \in DOMAIN port'[run], port'[run][i].ctxt = x PROVE FALSE
    BY <1>3, <2>1, <2>2
  <2>3. ASSUME x \in Conns, NEW u \in Threads, u[1] = run, AtWork(u)', wpkt'[u].ctxt = x PROVE u = t
    <3> SUFFICES ASSUME u # t PROVE FALSE
      OBVIOUS
    <3>1. AtWork(u) /\ wpkt[u].ctxt = x
      BY <1>3, <2>3 DEF AtWork
    <3>. QED
      BY <1>1, <1>3, <2>3, <3>1 DEF WorkerHolds
  <2>. QED
    BY <1>3, <2>1, <2>2, <2>3 DEF InKernel
<1>. QED
  BY <1>2, <1>3, WorkerHad

LEMMA StepHeld ==
  ASSUME Clean, [Next]_vars PROVE Held'
<1> SUFFICES ASSUME mpc' \in Serving
             PROVE  /\ \A i \in DOMAIN port'[run'] : PacketHolds(i)'
                    /\ \A t \in Threads : WorkerHolds(t)'
                    /\ g_pCtxtListenSocket' = NULL => \A t \in Threads : t[1] = run' => wpkt'[t].ctxt = NULL
  BY DEF Held
<1>1. IInv /\ run \in Nat /\ Untouched /\ Passes /\ Held
  BY Nums DEF Clean, Holding, IInv, Control
<1>2. CASE MainResetEvent
  <2>1. run' = run + 1 /\ UNCHANGED <<port, wpc, wpkt>> /\ mpc = "reset" /\ mpc' = "threads"
    BY <1>2 DEF MainResetEvent, worker, kernel
  <2>2. run' \in Runs /\ run' > run
    BY <1>1, <2>1, StepIInv, RunIsRun, StepMain, IInvTypes DEF TypeMain, Runs
  <2>3. port'[run'] = <<>>
    BY <1>1, <2>1, <2>2 DEF Untouched
  <2>4. ASSUME NEW t \in Threads, t[1] = run' PROVE wpc'[t] = "none" /\ wpkt'[t].ctxt = NULL
    BY <1>1, <2>1, <2>2, <2>4 DEF Untouched, Passes
  <2>5. \A t \in Threads : WorkerHolds(t)'
    BY <2>4 DEF WorkerHolds, AtWork
  <2>. QED
    BY <2>3, <2>4, <2>5
<1>3. CASE mpc \in Serving /\ run' = run
  <2>1. ASSUME g_pCtxtListenSocket' = NULL, NEW t \in Threads, t[1] = run PROVE wpkt'[t].ctxt = NULL
    <3>1. g_pCtxtListenSocket = NULL
      <4>1. MainCreateAcceptSocket => g_pCtxtListenSocket = NULL
        BY <1>1, ListenWhen DEF MainCreateAcceptSocket
      <4>2. ~MainFreeListen
        BY <1>3 DEF MainFreeListen, Serving
      <4>. QED
        BY <1>1, <2>1, <4>1, <4>2, PassMoves
    <3>2. list.live = {}
      BY <1>3, <3>1 DEF Clean, Structure, Listener, Serving
    <3>3. wpkt[t].ctxt = NULL /\ \A i \in DOMAIN port[run] : port[run][i].ctxt = NULL
      BY <1>1, <1>3, <2>1, <3>1, <3>2 DEF Held, PacketHolds
    <3>. QED
      BY <1>1, <2>1, <3>3, WpktMoves
  <2>2. ASSUME NEW i \in DOMAIN port'[run] PROVE PacketHolds(i)'
    BY <1>3, <2>2, StepPacketHolds DEF PacketHolds, InKernel
  <2>3. ASSUME NEW t \in Threads PROVE WorkerHolds(t)'
    BY <1>3, <2>3, StepWorkerHolds DEF WorkerHolds, InKernel
  <2>. QED
    BY <1>3, <2>1, <2>2, <2>3
<1>. QED
  BY <1>1, <1>2, <1>3, RunMoves, PassMoves, MainMovesOn DEF Serving

-----------------------------------------------------------------------------
(* The threads that have ended, and the join *)

\* A thread that has ended, or waits for good, stays so.
LEMMA DeadStays ==
  ASSUME Clean, [Next]_vars, NEW t \in Threads, Dead(t), ~(MainCreateThreads /\ t[1] = run)
  PROVE  Dead(t)'
<1>1. IInv /\ IInv'
  BY StepIInv DEF Clean
<1>2. CASE wpc[t] \in {"none", "exit"}
  <2>1. wpc'[t] = wpc[t]
    BY <1>1, <1>2, WpcMoves
  <2>. QED
    BY <1>2, <2>1 DEF Dead
<1>3. CASE wpc[t] = "io" /\ cs \notin {NoThread, MainThread}
  <2>1. ~CanLock(t) /\ list.live \subseteq {Listen}
    BY <1>1, <1>3, DeadCannotLock DEF Clean, Structure, Lock
  <2>2. ASSUME IoOf(t), WorkerDropped(t) \/ WorkerRead(t) \/ WorkerWrite(t) PROVE FALSE
    BY <1>1, <2>1, <2>2, ConnHandler
  <2>3. wpc'[t] \in {"io", "exit"}
    BY <1>1, <1>3, <2>1, <2>2, WpcMoves
  <2>4. cs' \notin {NoThread, MainThread}
    <3>1. CASE CtxtListFreeEnter
      BY <1>3, <3>1, NotWorkers DEF CtxtListFreeEnter, CanLock
    <3>2. CASE CtxtListFreeLeave
      <4>1. cs = Leaked
        BY <1>3, <3>2 DEF CtxtListFreeLeave, Clean, Structure, Lock
      <4>. QED
        BY <1>3, <3>2, <4>1 DEF CtxtListFreeLeave
    <3>. QED
      BY <1>1, <1>3, <3>1, <3>2, CsMoves, NotWorkers DEF Leaked, NoThread, MainThread
  <2>. QED
    BY <2>3, <2>4 DEF Dead
<1>. QED
  BY <1>2, <1>3 DEF Dead

LEMMA SettledStays ==
  ASSUME Clean, [Next]_vars, NEW t \in Threads, Settled(t), ~(MainCreateThreads /\ t[1] = run),
         t[1] # run \/ list.live = {}
  PROVE  Settled(t)'
<1>1. CASE Dead(t)
  BY <1>1, DeadStays DEF Settled
<1>2. CASE /\ wpc[t] = "gqcs" /\ wpkt[t].ctxt = NULL
           /\ \A i \in DOMAIN port[t[1]] : port[t[1]][i].ctxt = NULL
  <2>1. IInv /\ t[1] \in Runs
    BY Nums DEF Clean
  <2>2. wpkt'[t].ctxt = NULL
    BY <1>2, <2>1, WpktMoves
  <2>3. wpc'[t] \in {"gqcs", "exit"}
    BY <1>2, <2>1, <2>2, WpcMoves
  <2>4. \A i \in DOMAIN port'[t[1]] : port'[t[1]][i].ctxt = NULL
    <3>1. PICK s \in [Runs -> 0..1] : PacketsFrom(s)
      BY <2>1, PacketMoves
    <3>2. ASSUME NEW x \in Ctxts, Ends(x), key[x] = t[1] PROVE FALSE
      <4>1. x \in list.live /\ key[x] = run
        BY <3>2 DEF Ends, Clean, Holding, OfThisPass
      <4>. QED
        BY <3>2, <4>1
    <3>. QED
      BY <1>2, <2>1, <3>1, <3>2 DEF PacketsFrom
  <2>. QED
    BY <2>2, <2>3, <2>4 DEF Settled, Dead
<1>. QED
  BY <1>1, <1>2 DEF Settled

\* When main has waited, the threads of the pass have settled.
LEMMA Joined ==
  ASSUME Clean, MainJoin, NEW t \in Threads, t[1] = run
  PROVE  Settled(t) /\ (list.live # {} => Dead(t))
<1>1. IInv /\ mpc = "join" /\ Ending /\ Section /\ run \in Runs
  BY RunIsRun DEF Clean, IInv, Control, MainJoin, Busy
<1>2. CASE g_pCtxtListenSocket = Listen
  <2>1. PICK i \in 1..ThreadCount : t = <<run, i>>
    BY Nums, <1>1 DEF Threads
  <2>2. \A j \in 1..ThreadCount : g_ThreadHandles[j] = <<run, j>>
    BY <1>1, <1>2 DEF Ending
  <2>3. \A j \in 1..ThreadCount : g_ThreadHandles[j] # NoThread
    BY <1>1, <2>2, Nums DEF NoThread
  <2>4. wpc[t] = "exit" \/ Stuck(t)
    BY <2>1, <2>2, <2>3 DEF MainJoin
  <2>5. CASE wpc[t] = "gqcs" /\ port[run] = <<>>
    <3>1. PICK f \in [1..ThreadCount -> 0..Len(port[run])] :
            \A j \in 1..ThreadCount : wpc[<<run, j>>] # "exit" => f[j] # 0
      BY <1>1, <1>2 DEF Clean, Holding, ExitForEach
    <3>2. f[i] \in 0..0 /\ f[i] # 0
      BY <2>1, <2>5, <3>1
    <3>. QED
      BY <3>2
  <2>6. CASE wpc[t] \in {"io", "first"} /\ ~CanLock(t)
    <3>1. cs # NoThread /\ cs # MainThread
      BY <1>1, <2>6 DEF CanLock, Clean, Structure, Lock
    <3>2. wpc[t] = "io"
      BY <1>1, <2>6, <3>1 DEF Section
    <3>. QED
      BY <3>1, <3>2 DEF Dead, Settled
  <2>. QED
    BY <2>4, <2>5, <2>6 DEF Stuck, Dead, Settled
<1>3. CASE g_pCtxtListenSocket = NULL
  <2>1. list.live = {}
    BY <1>1, <1>3 DEF Clean, Structure, Listener
  <2>2. mpc \in Serving
    BY <1>1 DEF Serving
  <2>3. wpkt[t].ctxt = NULL /\ (\A i \in DOMAIN port[run] : PacketHolds(i)) /\ WorkerHolds(t)
    BY <1>3, <2>2 DEF Clean, Holding, Held
  <2>4. wpc[t] \in {"none", "gqcs", "exit"}
    BY <1>1, <2>1, <2>3, IInvTypes DEF WorkerHolds, AtWork, TypeWorker, WorkerSteps
  <2>5. \A i \in DOMAIN port[run] : port[run][i].ctxt = NULL
    BY <2>1, <2>3 DEF PacketHolds
  <2>. QED
    BY <2>1, <2>3, <2>4, <2>5 DEF Settled, Dead
<1>. QED
  BY <1>1, <1>2, <1>3, ListenWhen

LEMMA StepPassesApart ==
  ASSUME Clean, [Next]_vars PROVE PassesApart'
<1>1. IInv /\ PassesApart /\ Passes
  BY DEF Clean, Holding, IInv, Control
<1>2. CASE MainJoin
  <2>1. UNCHANGED <<run, wpc, wpkt, port, cs, list>> /\ mpc = "join"
    BY <1>2 DEF MainJoin, worker, kernel, memory
  <2>2. \A t \in Threads : Settled(t) /\ (t[1] = run /\ list.live # {} => Dead(t))
    BY <1>1, <1>2, Joined DEF PassesApart
  <2>. QED
    BY <2>1, <2>2 DEF PassesApart, Settled, Dead
<1>3. CASE ~MainJoin
  <2>1. mpc' \notin Serving => mpc \notin Serving
    BY <1>1, <1>3, PassMoves, MainMovesOn DEF Serving
  <2>2. MainResetEvent => list.live = {} /\ mpc \notin Serving
    BY <1>1, ListenWhen DEF MainResetEvent, Clean, Structure, Listener, Serving
  <2>3. mpc \notin Serving => list'.live \subseteq list.live
    <3>1. SUFFICES ASSUME mpc \notin Serving, NEW x \in list'.live, x \notin list.live PROVE FALSE
      OBVIOUS
    <3>2. x \in Ctxts
      BY <1>1, StepList DEF TypeList, List
    <3>3. ~MainCreateAcceptSocket
      BY <3>1 DEF MainCreateAcceptSocket, Serving
    <3>4. PICK t \in Threads : IoOf(t) /\ WorkerAccept(t) /\ wpkt[t].ok /\ wpc'[t] = "first"
      BY <1>1, <3>1, <3>2, <3>3, LiveMoves
    <3>5. CanLock(t)
      BY <1>1, <3>4, IInvTypes DEF WorkerAccept, TypeWorker
    <3>. QED
      BY <3>1, <3>4, <3>5, Actors
  <2>4. ASSUME NEW t \in Threads, t[1] # run' \/ mpc' \notin Serving PROVE Settled(t)'
    <3>1. t[1] # run \/ mpc \notin Serving
      BY <1>1, <2>1, <2>2, <2>4, RunMoves
    <3>2. Settled(t)
      BY <1>1, <3>1 DEF PassesApart
    <3>3. ~(MainCreateThreads /\ t[1] = run)
      BY <3>1 DEF MainCreateThreads, Serving
    <3>4. CASE t[1] # run \/ list.live = {}
      BY <3>2, <3>3, <3>4, SettledStays
    <3>5. CASE t[1] = run /\ list.live # {}
      BY <1>1, <3>1, <3>3, <3>5, DeadStays DEF PassesApart, Settled
    <3>. QED
      BY <3>4, <3>5
  <2>5. ASSUME mpc' \notin Serving, list'.live # {}, NEW t \in Threads, t[1] = run' PROVE Dead(t)'
    <3>1. mpc \notin Serving /\ list.live # {}
      BY <2>1, <2>3, <2>5
    <3>2. t[1] = run
      BY <1>1, <2>2, <2>5, <3>1, RunMoves
    <3>3. ~(MainCreateThreads /\ t[1] = run)
      BY <3>1 DEF MainCreateThreads, Serving
    <3>. QED
      BY <1>1, <3>1, <3>2, <3>3, DeadStays DEF PassesApart
  <2>. QED
    BY <2>4, <2>5 DEF PassesApart
<1>. QED
  BY <1>2, <1>3

\* While main waits, a packet leaves the port only with a worker.
LEMMA PacketsKept ==
  ASSUME IInv, [Next]_vars, mpc \in {"post", "join"}, NEW r \in Runs,
         \A t \in Threads : WorkerGet(t) => t[1] # r, NEW i \in DOMAIN port[r]
  PROVE  i \in DOMAIN port'[r] /\ port'[r][i] = port[r][i]
<1>1. port \in [Runs -> Seq(Packet)]
  BY IInvTypes DEF TypePort
<1>2. CASE UNCHANGED port
  BY <1>2
<1>3. CASE Main
  <2>1. CASE MainPost
    <3>1. CASE r = g_hIOCP /\ port'[r] = port[r] \o ExitPackets
      <4> DEFINE old == port[r]
                 new == ExitPackets
      <4>1. old \in Seq(Packet) /\ i \in DOMAIN old
        BY <1>1
      <4>2. new \in Seq(Packet)
        <5>1. NullPacket \in Packet
          BY ServerExAssumption DEF NullPacket, Packet, Pointer, Size
        <5>. QED
          BY <5>1, ServerExAssumption DEF ExitPackets
      <4>. HIDE DEF old, new
      <4>3. i \in DOMAIN (old \o new) /\ (old \o new)[i] = old[i]
        BY <4>1, <4>2
      <4>. QED
        BY <3>1, <4>3 DEF old, new
    <3>2. port'[r] = port[r] \/ (r = g_hIOCP /\ port'[r] = port[r] \o ExitPackets)
      BY <1>1, <2>1 DEF MainPost
    <3>. QED
      BY <3>1, <3>2
  <2>. QED
    BY <1>2, <1>3, <2>1, MainKernel DEF MainCloseListen, CtxtListFreeStep, MainClosePort, kernel
<1>4. ASSUME NEW t \in Threads, Worker(t) PROVE i \in DOMAIN port'[r] /\ port'[r][i] = port[r][i]
  <2>1. CASE WorkerGet(t) /\ port' = [port EXCEPT ![t[1]] = Tail(@)]
    BY <1>1, <2>1
  <2>2. CASE IoOf(t)
    <3>1. UNCHANGED port \/ CloseClient(SocketAccept) \/ CloseClient(wpkt[t].ctxt)
      BY <2>2, WorkerKernel DEF IoOf
    <3>. QED
      BY <1>1, <3>1, CloseClientKeeps
  <2>. QED
    BY <1>4, <2>1, <2>2, Freed DEF WorkerGet, WorkerCheck, kernel
<1>5. CtrlEvent \/ CtrlHandler => UNCHANGED port
  BY CtrlFrame DEF kernel
<1>6. ASSUME NEW c \in Conns, Kernel(c) \/ Client(c) PROVE i \in DOMAIN port'[r] /\ port'[r][i] = port[r][i]
  <2>1. UNCHANGED port \/ \E x, n, ok : Completed(x, n, ok)
    BY <1>6, KernelFrame DEF CompleteRecv, CompleteSend, Received
  <2>. QED
    BY <1>1, <2>1, CompletedKeeps
<1>7. UNCHANGED vars => UNCHANGED port
  BY DEF vars, kernel
<1>. QED
  BY <1>2, <1>3, <1>4, <1>5, <1>6, <1>7 DEF Next

\* Each thread in S has a packet of its own with a NULL key in q.
Served(S, q, f) ==
    \A i \in S : /\ f[i] # 0 /\ q[f[i]].ctxt = NULL
                 /\ \A j \in S : f[i] = f[j] => i = j
Begins(q, p) == \A i \in DOMAIN q : i \in DOMAIN p /\ p[i] = q[i]
Remaining == {i \in 1..ThreadCount : wpc[<<run, i>>] # "exit"}

LEMMA ServedIs ==
  ExitForEach <=> (mpc = "join" /\ g_pCtxtListenSocket = Listen =>
                     \E f \in [1..ThreadCount -> 0..Len(port[run])] : Served(Remaining, port[run], f))
BY DEF ExitForEach, Served, Remaining

LEMMA ServedIsNext ==
  ASSUME mpc' = "join" /\ g_pCtxtListenSocket' = Listen =>
           \E f \in [1..ThreadCount -> 0..Len(port'[run'])] : Served(Remaining', port'[run'], f)
  PROVE  ExitForEach'
BY DEF ExitForEach, Served, Remaining

\* MainPost adds a packet for each thread.
LEMMA PostedForEach ==
  ASSUME NEW q \in Seq(Packet), NEW S \in SUBSET (1..ThreadCount)
  PROVE  \E f \in [1..ThreadCount -> 0..Len(q \o ExitPackets)] : Served(S, q \o ExitPackets, f)
<1> DEFINE p == ExitPackets
           f == [i \in 1..ThreadCount |-> Len(q) + i]
<1>1. p \in Seq(Packet) /\ Len(p) = ThreadCount /\ ThreadCount \in Nat /\ \A i \in 1..ThreadCount : p[i].ctxt = NULL
  <2>1. NullPacket \in Packet /\ NullPacket.ctxt = NULL
    BY ServerExAssumption DEF NullPacket, Packet, Pointer, Size
  <2>. QED
    BY <2>1, ServerExAssumption DEF ExitPackets
<1>. HIDE DEF p
<1>2. ASSUME NEW i \in 1..ThreadCount
      PROVE  Len(q) + i \in 0..Len(q \o p) /\ Len(q) + i # 0 /\ (q \o p)[Len(q) + i] = p[i]
  BY <1>1, <1>2
<1>3. f \in [1..ThreadCount -> 0..Len(q \o p)]
  BY <1>2
<1>4. \A i \in 1..ThreadCount : f[i] = Len(q) + i
  OBVIOUS
<1>. HIDE DEF f
<1>5. ASSUME NEW i \in S, NEW j \in S, f[i] = f[j] PROVE i = j
  BY <1>1, <1>4, <1>5
<1>6. ASSUME NEW i \in S PROVE f[i] # 0 /\ (q \o p)[f[i]].ctxt = NULL
  <2>1. i \in 1..ThreadCount /\ f[i] = Len(q) + i
    BY <1>4
  <2>. QED
    BY <1>1, <1>2, <2>1
<1>7. Served(S, q \o p, f)
  BY <1>5, <1>6 DEF Served
<1>. QED
  BY <1>3, <1>7 DEF p

\* What is added at the end takes no thread its packet.
LEMMA ServedStill ==
  ASSUME NEW q \in Seq(Packet), NEW p \in Seq(Packet), NEW S \in SUBSET (1..ThreadCount), NEW T \in SUBSET S,
         NEW f \in [1..ThreadCount -> 0..Len(q)], Served(S, q, f),
         Begins(q, p)
  PROVE  \E g \in [1..ThreadCount -> 0..Len(p)] : Served(T, p, g)
<1>1. Len(q) <= Len(p)
  <2>1. CASE Len(q) = 0
    BY <2>1
  <2>2. CASE Len(q) # 0
    <3>1. Len(q) \in DOMAIN q
      BY <2>2
    <3>. QED
      BY <3>1 DEF Begins
  <2>. QED
    BY <2>1, <2>2
<1>2. \A i \in 1..ThreadCount : f[i] \in 0..Len(q)
  OBVIOUS
<1>3. \A i \in 1..ThreadCount : f[i] \in 0..Len(p)
  BY <1>1, <1>2
<1>4. f \in [1..ThreadCount -> 0..Len(p)]
  BY <1>3
<1>5. \A i \in S : f[i] \in DOMAIN q
  BY <1>2 DEF Served
<1>6. Served(T, p, f)
  BY <1>5 DEF Served, Begins
<1>. QED
  BY <1>4, <1>6

\* When n takes the first packet, whoever was to end by it ends by the one
\* that was for n.
LEMMA ServedOn ==
  ASSUME NEW q \in Seq(Packet), q # <<>>, NEW S \in SUBSET (1..ThreadCount), NEW T \in SUBSET S, NEW n \in S,
         q[1].ctxt = NULL => n \notin T, NEW p, p = Tail(q),
         NEW f \in [1..ThreadCount -> 0..Len(q)], Served(S, q, f)
  PROVE  \E g \in [1..ThreadCount -> 0..Len(p)] : Served(T, p, g)
<1> DEFINE k(i) == IF f[i] = 1 THEN f[n] ELSE f[i]
           g == [i \in 1..ThreadCount |-> IF k(i) = 0 THEN 0 ELSE k(i) - 1]
<1>1. Len(q) \in Nat /\ Len(q) > 0 /\ Len(Tail(q)) = Len(q) - 1
      /\ \A i \in 1..(Len(q) - 1) : Tail(q)[i] = q[i + 1]
  OBVIOUS
<1>2. \A i \in 1..ThreadCount : f[i] \in 0..Len(q)
  OBVIOUS
<1>3. ASSUME NEW i \in 1..ThreadCount PROVE k(i) \in 0..Len(q) /\ g[i] = IF k(i) = 0 THEN 0 ELSE k(i) - 1
  BY <1>2
<1>4. g \in [1..ThreadCount -> 0..Len(Tail(q))]
  <2>1. ASSUME NEW i \in 1..ThreadCount PROVE g[i] \in 0..Len(Tail(q))
    <3>1. k(i) \in 0..Len(q) /\ g[i] = IF k(i) = 0 THEN 0 ELSE k(i) - 1
      BY <1>3
    <3>2. Len(q) \in Nat /\ Len(q) > 0 /\ Len(Tail(q)) = Len(q) - 1
      BY <1>1
    <3>3. \A a, b, c \in Int : a > 0 /\ b \in 0..a /\ c = (IF b = 0 THEN 0 ELSE b - 1) => c \in 0..(a - 1)
      OBVIOUS
    <3>. HIDE DEF g, k
    <3>4. k(i) \in Int /\ g[i] \in Int /\ Len(q) \in Int
      BY <3>1, <3>2
    <3>5. g[i] \in 0..(Len(q) - 1)
      BY <3>1, <3>2, <3>3, <3>4
    <3>. QED
      BY <3>2, <3>5
  <2>. QED
    BY <2>1
<1>. HIDE DEF g
<1>5. ASSUME NEW i \in T PROVE k(i) \in 2..Len(q) /\ q[k(i)].ctxt = NULL
  <2>1. f[i] \in 1..Len(q) /\ q[f[i]].ctxt = NULL /\ f[n] \in 1..Len(q) /\ q[f[n]].ctxt = NULL
    BY <1>2 DEF Served
  <2>2. CASE f[i] = 1
    <3>1. i # n
      BY <2>1, <2>2
    <3>2. f[n] # 1
      BY <2>2, <3>1 DEF Served
    <3>. QED
      BY <1>1, <2>1, <2>2, <3>2
  <2>3. CASE f[i] # 1
    BY <1>1, <2>1, <2>3
  <2>. QED
    BY <2>2, <2>3
<1>6. ASSUME NEW i \in T, NEW j \in T, k(i) = k(j) PROVE i = j
  <2>1. ASSUME NEW a \in T, NEW b \in T, f[a] = 1, f[b] # 1, f[b] = f[n] PROVE FALSE
    <3>1. b = n /\ q[1].ctxt = NULL
      BY <2>1 DEF Served
    <3>. QED
      BY <2>1, <3>1
  <2>. QED
    BY <1>6, <2>1 DEF Served
<1>7. ASSUME NEW i \in T PROVE g[i] = k(i) - 1
  BY <1>3, <1>5
<1>. HIDE DEF k
<1>8. ASSUME NEW i \in T PROVE g[i] # 0 /\ Tail(q)[g[i]].ctxt = NULL
  <2>1. k(i) \in 2..Len(q) /\ q[k(i)].ctxt = NULL /\ g[i] = k(i) - 1
    BY <1>5, <1>7
  <2>2. g[i] \in 1..(Len(q) - 1) /\ g[i] + 1 = k(i)
    BY <1>1, <2>1
  <2>. QED
    BY <1>1, <2>1, <2>2
<1>9. ASSUME NEW i \in T, NEW j \in T, g[i] = g[j] PROVE i = j
  <2>1. k(i) \in 2..Len(q) /\ k(j) \in 2..Len(q) /\ g[i] = k(i) - 1 /\ g[j] = k(j) - 1
    BY <1>5, <1>7
  <2>2. \A a, b \in Nat : a - 1 = b - 1 => a = b
    OBVIOUS
  <2>3. k(i) \in Nat /\ k(j) \in Nat
    BY <1>1, <2>1
  <2>4. k(i) = k(j)
    BY <1>9, <2>1, <2>2, <2>3
  <2>. QED
    BY <1>6, <2>4
<1>10. Served(T, Tail(q), g)
  BY <1>8, <1>9 DEF Served
<1>11. g \in [1..ThreadCount -> 0..Len(p)] /\ Served(T, p, g)
  BY <1>4, <1>10
<1>. QED
  BY <1>11

LEMMA StepExitForEach ==
  ASSUME Clean, [Next]_vars PROVE ExitForEach'
<1> SUFFICES ASSUME mpc' = "join", g_pCtxtListenSocket' = Listen
             PROVE  \E f \in [1..ThreadCount -> 0..Len(port'[run'])] : Served(Remaining', port'[run'], f)
  BY ServedIsNext
<1>1. IInv /\ port \in [Runs -> Seq(Packet)] /\ port' \in [Runs -> Seq(Packet)] /\ run' = run
  BY IInvTypes, StepPort, RunMoves DEF Clean, TypePort
<1>2. mpc \in {"post", "join"} /\ g_pCtxtListenSocket = Listen
  <2>1. mpc \in {"post", "join"}
    BY <1>1, PassMoves, MainMovesOn
  <2>2. ~MainCreateAcceptSocket
    BY <2>1 DEF MainCreateAcceptSocket
  <2>3. ~MainFreeListen
    BY <2>1 DEF MainFreeListen
  <2>. QED
    BY <1>1, <2>1, <2>2, <2>3, PassMoves
<1>3. run \in openPorts /\ g_hIOCP = run /\ run \in Runs
  BY <1>2, OwnPort
<1> DEFINE q == port[run]
           p == port'[run]
           S == Remaining
           T == Remaining'
<1>4. q \in Seq(Packet) /\ p \in Seq(Packet) /\ S \in SUBSET (1..ThreadCount) /\ T \in SUBSET (1..ThreadCount)
  BY <1>1, <1>3 DEF Remaining
<1>5. T \subseteq S
  <2>1. ASSUME NEW i \in 1..ThreadCount, wpc[<<run, i>>] = "exit" PROVE wpc'[<<run, i>>] = "exit"
    <3> DEFINE t == <<run, i>>
    <3>1. t \in Threads /\ wpc[t] = "exit"
      BY <1>3, <2>1 DEF Threads
    <3>. HIDE DEF t
    <3>2. wpc'[t] = "exit"
      BY <1>1, <1>2, <3>1, WpcMoves DEF MainCreateThreads
    <3>. QED
      BY <3>2 DEF t
  <2>. QED
    BY <1>1, <2>1 DEF Remaining
<1>6. CASE MainPost
  <2>1. p = q \o ExitPackets
    BY <1>1, <1>3, <1>6, ServerExAssumption DEF MainPost, INVALID, Runs
  <2>. HIDE DEF q, p, S, T
  <2>2. \E f \in [1..ThreadCount -> 0..Len(p)] : Served(T, p, f)
    BY <1>4, <2>1, PostedForEach
  <2>. QED
    BY <1>1, <2>2 DEF p, T
<1>7. CASE mpc = "join"
  <2>1. PICK f \in [1..ThreadCount -> 0..Len(q)] : Served(S, q, f)
    BY <1>2, <1>7, ServedIs DEF Clean, Holding
  <2>2. CASE \A t \in Threads : WorkerGet(t) => t[1] # run
    <3>1. Begins(q, p)
      BY <1>1, <1>2, <1>3, <2>2, PacketsKept DEF Begins
    <3>. HIDE DEF q, p, S, T
    <3>2. \E g \in [1..ThreadCount -> 0..Len(p)] : Served(T, p, g)
      <4>1. T \in SUBSET S
        BY <1>5
      <4>. QED
        BY <1>4, <2>1, <3>1, <4>1, ServedStill
    <3>. QED
      BY <1>1, <3>2 DEF p, T
  <2>3. ASSUME NEW t \in Threads, WorkerGet(t), t[1] = run
        PROVE  \E g \in [1..ThreadCount -> 0..Len(p)] : Served(T, p, g)
    <3>1. q # <<>> /\ p = Tail(q) /\ wpkt'[t] = Head(q)
      BY <1>1, <1>3, <2>3, IInvTypes DEF WorkerGet, TypeWorker
    <3>2. wpc[t] = "gqcs" /\ wpc'[t] = (IF wpkt'[t].ctxt = NULL THEN "exit" ELSE "got")
      BY <1>1, <2>3, IInvTypes DEF WorkerGet, TypeWorker
    <3>3. PICK n \in 1..ThreadCount : t = <<run, n>>
      BY <2>3 DEF Threads
    <3>4. n \in S /\ (q[1].ctxt = NULL => n \notin T)
      <4>1. n \in S
        BY <3>2, <3>3 DEF Remaining
      <4>2. Head(q) = q[1]
        BY <3>1
      <4>3. q[1].ctxt = NULL => wpc'[<<run', n>>] = "exit"
        BY <1>1, <3>1, <3>2, <3>3, <4>2
      <4>. QED
        BY <4>1, <4>3 DEF Remaining
    <3>. HIDE DEF q, p, S, T
    <3>5. q # <<>> /\ p = Tail(q) /\ T \in SUBSET S /\ n \in S
      BY <1>5, <3>1, <3>4
    <3>. QED
      BY ONLY <1>4, <2>1, <3>4, <3>5, ServedOn
  <2>. QED
    BY <1>1, <2>2, <2>3
<1>. QED
  BY <1>2, <1>6, <1>7, PassMoves, <1>1, MainMovesOn

-----------------------------------------------------------------------------
(* The cleanup *)

LEMMA StepHolding ==
  ASSUME Clean, [Next]_vars PROVE Holding'
BY StepPorts, StepOfThisPass, StepHeld, StepPassesApart, StepExitForEach, StepUntouched DEF Holding

\* main ends with its memory intact, and then nothing runs.
LEMMA StepReturn ==
  ASSUME IInv, list.uaf => mpc # "done", [Next]_vars PROVE list'.uaf => mpc' # "done"
<1>1. CASE UNCHANGED vars
  BY <1>1 DEF vars, main, memory
<1>2. CASE Next
  <2>1. mpc # "done" /\ ~list.uaf
    BY <1>2, NextIsAlive DEF Alive
  <2>2. ASSUME mpc' = "done" PROVE list' = list
    <3>1. Main
      BY <1>2, <2>1, <2>2, PassMoves
    <3>2. MainTest
      BY <2>1, <2>2, <3>1, MainMovesOn
    <3>. QED
      BY <3>2 DEF MainTest, memory
  <2>. QED
    BY <2>1, <2>2
<1>. QED
  BY <1>1, <1>2

LEMMA InitClean == Init => CleanIInv
<1> SUFFICES ASSUME Init, OneByOne
             PROVE  OpenedOnce /\ ~list.uaf /\ Structure /\ Holding
  BY DEF CleanIInv
<1>1. /\ g_hIOCP = INVALID /\ g_sdListen = "invalid" /\ g_pCtxtListenSocket = NULL /\ SocketAccept = NULL
      /\ mpc = "test" /\ run = 0 /\ openPorts = {} /\ cs = NoThread
      /\ list.live = {} /\ ~list.uaf /\ list.g_pCtxtList = NULL
  BY DEF Init, EmptyList
<1>2. /\ \A t \in Threads : wpc[t] = "none" /\ wpkt[t].ctxt = NULL
      /\ \A x \in Ctxts : pend[x].op = "none"
      /\ \A r \in Runs : port[r] = <<>>
      /\ \A c \in Conns : sock[c] = "none"
  BY DEF Init, NullPacket, Idle
<1>3. MainThread # NoThread
  BY NotWorkers DEF MainThread, NoThread
<1>4. Listen # NULL
  BY ListenIsNone
<1>5. Structure
  <2>1. SingleContext
    BY <1>1 DEF SingleContext
  <2>2. OneConnection
    BY <1>1, <1>2 DEF OneConnection
  <2>3. Listener
    BY <1>1, <1>4 DEF Listener
  <2>4. BeingSetUp
    BY <1>2 DEF BeingSetUp
  <2>5. Lock
    BY <1>1, <1>3 DEF Lock
  <2>. QED
    BY <2>1, <2>2, <2>3, <2>4, <2>5 DEF Structure
<1>6. Holding
  <2>1. Ports
    BY <1>1 DEF Ports, Serving
  <2>2. OfThisPass
    BY <1>1, <1>2 DEF OfThisPass, InKernel
  <2>3. Held /\ ExitForEach
    BY <1>1 DEF Held, ExitForEach, Serving
  <2>4. PassesApart
    BY <1>1, <1>2 DEF PassesApart, Settled, Dead
  <2>5. Untouched
    BY <1>2 DEF Untouched
  <2>. QED
    BY <2>1, <2>2, <2>3, <2>4, <2>5 DEF Holding
<1>. QED
  BY <1>1, <1>5, <1>6 DEF OpenedOnce

LEMMA StepClean == ASSUME IInv, CleanIInv, [Next]_vars PROVE CleanIInv'
<1> SUFFICES ASSUME OneByOne
             PROVE  /\ OpenedOnce' /\ (list'.uaf => mpc' # "done")
                    /\ ~list'.uaf => Structure'
                    /\ NoneLost' => ~list'.uaf /\ Holding'
  BY DEF CleanIInv, OneByOne
<1>1. /\ OpenedOnce /\ (list.uaf => mpc # "done")
      /\ ~list.uaf => Structure
      /\ NoneLost => ~list.uaf /\ Holding
  BY DEF CleanIInv
<1>2. OpenedOnce'
  BY <1>1, StepOpenedOnce
<1>3. list'.uaf => mpc' # "done"
  BY <1>1, StepReturn
<1>4. ASSUME ~list'.uaf PROVE Structure'
  <2>1. ~list.uaf
    BY <1>4, NextIsAlive DEF Alive, vars, memory
  <2>. QED
    BY <1>1, <1>4, <2>1, StepStructure
<1>5. ASSUME NoneLost' PROVE ~list'.uaf /\ Holding'
  <2>1. NoneLost
    BY <1>1, <1>5, LostStays
  <2>2. Clean
    BY <1>1, <2>1 DEF Clean
  <2>. QED
    BY <2>2, NoUseAfterFree, StepHolding
<1>. QED
  BY <1>2, <1>3, <1>4, <1>5

\* What the cleanup rests on: with connections that do not overlap, a pass
\* through main's loop serves at most one context besides the listening one;
\* unless a failed association has lost a port, no operation, packet or thread
\* keeps a pointer to a context after CtxtListFree or CloseClient freed it.
THEOREM CleanInvariance == Spec => []CleanIInv
<1>1. Init => CleanIInv
  BY InitClean
<1>2. IInv /\ CleanIInv /\ [Next]_vars => CleanIInv'
  BY StepClean
<1>3. Spec => []IInv
  BY Invariance
<1>. QED
  BY <1>1, <1>2, <1>3, PTL DEF Spec

LEMMA CleanImplies == ASSUME IInv, CleanIInv, OneByOne PROVE CleanupSafe
<1>1. /\ list.uaf => mpc # "done"
      /\ ~list.uaf => Structure
      /\ NoneLost => ~list.uaf
  BY DEF CleanIInv
<1>2. ASSUME mpc = "done"
      PROVE  /\ list.live = {} /\ SocketAccept = NULL
             /\ \A c \in Conns : sock[c] # "open"
  <2>1. Structure
    BY <1>1, <1>2
  <2>2. g_pCtxtListenSocket = NULL
    BY <1>2 DEF IInv, Control, ListenContext
  <2>3. list.live = {} /\ SocketAccept = NULL
    BY <1>2, <2>1, <2>2 DEF Structure, Listener
  <2>4. NULL \notin Conns
    BY ListenIsNone
  <2>. QED
    BY <2>1, <2>3, <2>4 DEF Structure, OneConnection
<1>. QED
  BY <1>1, <1>2 DEF CleanupSafe, NoneLost

\* Unless CtxtAllocate returns a context that it freed, the cleanup of
\* connections that do not overlap follows no pointer to a freed context as
\* long as no failed association lost a port, and when main returns every
\* context is freed and every accepted socket closed, whatever else failed.
\* Main gives up on threads that never exit, not on one that is only slow.
THEOREM CleanupIsSafe == ASSUME OneByOne PROVE Spec => []CleanupSafe
<1>1. IInv /\ CleanIInv => CleanupSafe
  BY CleanImplies
<1>. QED
  BY <1>1, Invariance, CleanInvariance, PTL
=============================================================================
