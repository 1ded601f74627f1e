-------------------------- MODULE IocpServerProofs --------------------------
(***************************************************************************)
(* Safety of the echo server for any number of connections and threads and *)
(* any buffer size: the types for any set of failing system calls, with    *)
(* and without timeouts; the list of contexts where connections do not     *)
(* overlap (OneByOne).                                                     *)
(***************************************************************************)
EXTENDS IocpServerInv, TLAPS

-----------------------------------------------------------------------------
(* The context list *)

LEMMA UseAfterFreeType == ASSUME NEW l \in List PROVE UseAfterFree(l) \in List
BY DEF UseAfterFree, List

LEMMA CtxtAllocateType ==
  ASSUME NEW l \in List, NEW c \in Ctxts PROVE CtxtAllocate(l, c) \in List
BY DEF CtxtAllocate, List, Pointer

LEMMA CtxtListAddToType ==
  ASSUME NEW l \in List, NEW c \in Ctxts
  PROVE  CtxtListAddTo(l, c) \in List
BY UseAfterFreeType DEF CtxtListAddTo, List, Pointer

LEMMA CtxtListDeleteFromType ==
  ASSUME NEW l \in List, NEW c \in Ctxts
  PROVE  /\ CtxtListDeleteFrom(l, c) \in List
         /\ CtxtListDeleteFrom(l, c).live \subseteq l.live
         /\ c \notin CtxtListDeleteFrom(l, c).live \/ CtxtListDeleteFrom(l, c).uaf
<1>1. Unlink(l, c) \in List /\ Unlink(l, c).live = l.live
  BY UseAfterFreeType DEF Unlink, UseAfterFree, List, Pointer
<1>. QED
  BY <1>1, UseAfterFreeType DEF CtxtListDeleteFrom, UseAfterFree, List

-----------------------------------------------------------------------------
(* Types *)

USE NullAssumption, ServerAssumption


LEMMA InitTypeOK == Init => TypeOK
<1> SUFFICES ASSUME Init PROVE TypeOK
  OBVIOUS
<1> USE DEF Init, TypeOK
<1>1. list \in List
  BY DEF EmptyList, List, Pointer
<1>2. wpkt \in [Threads -> Packet] /\ port \in [Runs -> Seq(Packet)]
  BY DEF NullPacket, Packet, Pointer
<1>3. pend \in [Ctxts -> Operation] /\ echoed \in [Ctxts -> Seq(0..MaxBytes)]
  BY DEF Idle, Operation
<1>4. Buffer \in [Ctxts -> [1..MAX_BUFF_SIZE -> 0..MaxBytes]]
  OBVIOUS
<1>5. g_ThreadHandles \in [1..ThreadCount -> Threads \cup {NoThread}]
  OBVIOUS
<1>6. g_hIOCP \in Runs \cup {INVALID} /\ g_sdListen \in Runs \cup {INVALID}
  OBVIOUS
<1>7. /\ wpc \in [Threads -> {"none", "gqcs", "got", "io", "close", "exit"}]
      /\ sockTemp \in Runs \cup {INVALID} /\ nctrl \in 0..MaxCtrl
      /\ key \in [Ctxts -> Runs \cup {INVALID}]
  OBVIOUS
<1>8. /\ IOOperation \in [Ctxts -> {"ClientIoRead", "ClientIoWrite"}]
      /\ nTotalBytes \in [Ctxts -> 0..MAX_BUFF_SIZE] /\ nSentBytes \in [Ctxts -> Nat]
      /\ nsent \in [Ctxts -> 0..MaxBytes] /\ nrecvd \in [Ctxts -> 0..MaxBytes]
  OBVIOUS
<1>9. /\ openPorts \subseteq Runs
      /\ lsock \in [Runs -> {"none", "open", "listening", "closed"}]
      /\ sock \in [Ctxts -> {"none", "backlog", "open", "closed"}]
      /\ peer \in [Ctxts -> {"open", "fin", "rst"}]
  OBVIOUS
<1>10. mpc \in MainSteps /\ run \in Runs \cup {0} /\ sdAccept \in Pointer /\ pTemp1 \in Pointer
  BY DEF MainSteps, Pointer
<1>. QED
  BY <1>1, <1>2, <1>3, <1>4, <1>5, <1>6, <1>7, <1>8, <1>9, <1>10

LEMMA CompletedType ==
  ASSUME port \in [Runs -> Seq(Packet)],
         NEW c \in Ctxts, NEW size \in 0..MAX_BUFF_SIZE, NEW ok \in BOOLEAN,
         Completed(c, size, ok)
  PROVE  port' \in [Runs -> Seq(Packet)]
<1> DEFINE p == [ctxt |-> c, size |-> size, ok |-> ok]
<1>1. p \in Packet
  BY DEF Packet, Pointer
<1>2. \A r \in Runs : Append(port[r], p) \in Seq(Packet)
  BY <1>1
<1>3. port' = [port EXCEPT ![key[c]] = Append(@, p)]
  BY DEF Completed
<1> HIDE DEF p
<1>. QED
  BY <1>2, <1>3

LEMMA IdleType == Idle \in Operation
BY DEF Idle, Operation

LEMMA CloseClientType ==
  ASSUME TypeOK, NEW c \in Ctxts, CloseClient(c)
  PROVE  /\ list' \in List
         /\ sock' \in [Ctxts -> {"none", "backlog", "open", "closed"}]
         /\ port' \in [Runs -> Seq(Packet)]
         /\ pend' \in [Ctxts -> Operation]
<1>1. /\ list \in List
      /\ sock \in [Ctxts -> {"none", "backlog", "open", "closed"}]
      /\ port \in [Runs -> Seq(Packet)]
      /\ pend \in [Ctxts -> Operation]
  BY DEF TypeOK
<1>2. list' = CtxtListDeleteFrom(list, c) \/ list' = UseAfterFree(list)
  BY DEF CloseClient
<1>3. list' \in List
  BY <1>1, <1>2, UseAfterFreeType, CtxtListDeleteFromType
<1>4. sock' \in [Ctxts -> {"none", "backlog", "open", "closed"}]
  BY <1>1 DEF CloseClient
<1>5. pend' = [pend EXCEPT ![c] = Idle] \/ pend' = pend
  BY DEF CloseClient
<1>6. pend' \in [Ctxts -> Operation]
  BY <1>1, <1>5, IdleType
<1>7. Completed(c, 0, FALSE) \/ port' = port
  BY DEF CloseClient
<1>8. port' \in [Runs -> Seq(Packet)]
  <2>1. CASE port' = port
    BY <1>1, <2>1
  <2>2. CASE Completed(c, 0, FALSE)
    <3>1. 0 \in 0..MAX_BUFF_SIZE
      OBVIOUS
    <3>. QED
      BY <1>1, <2>2, <3>1, CompletedType
  <2>. QED
    BY <1>7, <2>1, <2>2
<1>. QED
  BY <1>3, <1>4, <1>6, <1>8

-----------------------------------------------------------------------------
(* TypeOK, RunBound and PendInBuffer are inductive together.  The variables  *)
(* fall into groups; most steps leave most groups alone.                     *)

TypeMain ==
    /\ g_bEndServer \in BOOLEAN /\ g_bRestart \in BOOLEAN
    /\ mpc \in MainSteps /\ run \in Runs \cup {0} /\ cs \in BOOLEAN
    /\ hpc \in {"idle", "take", "invalidate", "end", "close"} /\ nctrl \in 0..MaxCtrl
    /\ RunBound
TypeHandles ==
    /\ g_hIOCP \in Runs \cup {INVALID} /\ g_sdListen \in Runs \cup {INVALID}
    /\ g_ThreadHandles \in [1..ThreadCount -> Threads \cup {NoThread}]
    /\ sockTemp \in Runs \cup {INVALID} /\ openPorts \subseteq Runs
    /\ lsock \in [Runs -> {"none", "open", "listening", "closed"}]
TypeList == list \in List /\ sdAccept \in Pointer /\ pTemp1 \in Pointer
SettingUp == {"update", "check", "recv"}
TypeWorker ==
    /\ wpc \in [Threads -> {"none", "gqcs", "got", "io", "close", "exit"}]
    /\ wpkt \in [Threads -> Packet]
TypeIo ==
    /\ IOOperation \in [Ctxts -> {"ClientIoRead", "ClientIoWrite"}]
    /\ nTotalBytes \in [Ctxts -> 0..MAX_BUFF_SIZE] /\ nSentBytes \in [Ctxts -> Nat]
    /\ Buffer \in [Ctxts -> [1..MAX_BUFF_SIZE -> 0..MaxBytes]]
    /\ key \in [Ctxts -> Runs \cup {INVALID}]
TypePend == pend \in [Ctxts -> Operation] /\ PendInBuffer
TypePort == port \in [Runs -> Seq(Packet)]
TypeSock == sock \in [Ctxts -> {"none", "backlog", "open", "closed"}]
TypeClient ==
    /\ nsent \in [Ctxts -> 0..MaxBytes] /\ nrecvd \in [Ctxts -> 0..MaxBytes]
    /\ echoed \in [Ctxts -> Seq(0..MaxBytes)]
    /\ peer \in [Ctxts -> {"open", "fin", "rst"}]

TypeInv == /\ TypeMain /\ TypeHandles /\ TypeList /\ TypeWorker /\ TypeIo
           /\ TypePend /\ TypePort /\ TypeSock /\ TypeClient /\ AcceptedSocket

LEMMA TypeInvParts == TypeInv <=> TypeOK /\ RunBound /\ AcceptedSocket /\ PendInBuffer
BY DEF TypeInv, TypeOK, TypeMain, TypeHandles, TypeList, TypeWorker, TypeIo, TypePend, TypePort,
       TypeSock, TypeClient

\* What a group needs in order to keep its type.
LEMMA Unmoved ==
  /\ TypeMain /\ UNCHANGED <<g_bEndServer, g_bRestart, mpc, run, cs, hpc, nctrl>> => TypeMain'
  /\ TypeHandles /\ UNCHANGED <<g_hIOCP, g_sdListen, g_ThreadHandles, sockTemp, openPorts, lsock>>
       => TypeHandles'
  /\ TypeList /\ UNCHANGED <<list, sdAccept, pTemp1>> => TypeList'
  /\ TypeWorker /\ UNCHANGED <<wpc, wpkt>> => TypeWorker'
  /\ TypeIo /\ UNCHANGED <<IOOperation, nTotalBytes, nSentBytes, Buffer, key>> => TypeIo'
  /\ TypePend /\ UNCHANGED pend => TypePend'
  /\ TypePort /\ UNCHANGED port => TypePort'
  /\ TypeSock /\ UNCHANGED sock => TypeSock'
  /\ TypeClient /\ UNCHANGED <<nsent, nrecvd, echoed, peer>> => TypeClient'
  /\ AcceptedSocket /\ sdAccept' = sdAccept /\ (mpc' = mpc \/ mpc' \notin SettingUp) => AcceptedSocket'
<1>1. TypeMain /\ UNCHANGED <<g_bEndServer, g_bRestart, mpc, run, cs, hpc, nctrl>> => TypeMain'
  BY DEF TypeMain, RunBound
<1>2. TypeHandles /\ UNCHANGED <<g_hIOCP, g_sdListen, g_ThreadHandles, sockTemp, openPorts, lsock>>
        => TypeHandles'
  BY DEF TypeHandles
<1>3. TypeList /\ UNCHANGED <<list, sdAccept, pTemp1>> => TypeList'
  BY DEF TypeList
<1>4. TypeWorker /\ UNCHANGED <<wpc, wpkt>> => TypeWorker'
  BY DEF TypeWorker
<1>5. TypeIo /\ UNCHANGED <<IOOperation, nTotalBytes, nSentBytes, Buffer, key>> => TypeIo'
  BY DEF TypeIo
<1>6. TypePend /\ UNCHANGED pend => TypePend'
  BY DEF TypePend, PendInBuffer
<1>7. TypePort /\ UNCHANGED port => TypePort'
  BY DEF TypePort
<1>8. TypeSock /\ UNCHANGED sock => TypeSock'
  BY DEF TypeSock
<1>9. TypeClient /\ UNCHANGED <<nsent, nrecvd, echoed, peer>> => TypeClient'
  BY DEF TypeClient
<1>10. AcceptedSocket /\ sdAccept' = sdAccept /\ (mpc' = mpc \/ mpc' \notin SettingUp)
         => AcceptedSocket'
  BY DEF AcceptedSocket, SettingUp
<1>. QED
  BY <1>1, <1>2, <1>3, <1>4, <1>5, <1>6, <1>7, <1>8, <1>9, <1>10

\* The steps that only move main, the handler, the flags and the run.
Housekeeping == MainTest \/ MainClearRestart \/ MainClearEnd \/ MainCheckEnd \/ MainFinally
                  \/ CtxtListFreeLeave \/ CtrlEvent \/ CtrlEnd

LEMMA HousekeepingType == TypeInv /\ Housekeeping => TypeInv'
<1> SUFFICES ASSUME TypeInv, Housekeeping PROVE TypeInv'
  OBVIOUS
<1>. USE DEF TypeInv
<1>1. UNCHANGED <<g_hIOCP, g_sdListen, list, sdAccept, pTemp1, g_ThreadHandles, worker, sockTemp,
                  ioctxt, pend, key, port, openPorts, lsock, sock, client>>
  BY DEF Housekeeping, MainTest, MainClearRestart, MainClearEnd, MainCheckEnd, MainFinally,
         CtxtListFreeLeave, CtrlEvent, CtrlEnd, main, handler, worker, ioctxt, client
<1>2. TypeMain'
  <2>. USE DEF TypeMain, RunBound, Goto, MainSteps, Runs
  <2>1. CASE MainTest
    <3>1. RunBound'
      BY <2>1 DEF MainTest, flags, handler
    <3>2. /\ g_bEndServer' \in BOOLEAN /\ g_bRestart' \in BOOLEAN
          /\ mpc' \in MainSteps /\ run' \in Runs \cup {0} /\ cs' \in BOOLEAN
          /\ hpc' \in {"idle", "take", "invalidate", "end", "close"} /\ nctrl' \in 0..MaxCtrl
      BY <2>1 DEF MainTest, flags, handler
    <3>. HIDE DEF RunBound, MainSteps, Runs, TypeInv, Goto
    <3>. QED
      BY <3>1, <3>2
  <2>2. CASE MainClearRestart
    <3>1. RunBound'
      BY <2>2 DEF MainClearRestart, handler
    <3>2. /\ g_bEndServer' \in BOOLEAN /\ g_bRestart' \in BOOLEAN
          /\ mpc' \in MainSteps /\ run' \in Runs \cup {0} /\ cs' \in BOOLEAN
          /\ hpc' \in {"idle", "take", "invalidate", "end", "close"} /\ nctrl' \in 0..MaxCtrl
      BY <2>2 DEF MainClearRestart, handler
    <3>. HIDE DEF RunBound, MainSteps, Runs, TypeInv, Goto
    <3>. QED
      BY <3>1, <3>2
  <2>3. CASE MainClearEnd
    <3>1. RunBound'
      BY <2>3 DEF MainClearEnd, handler
    <3>2. run' = run + 1 /\ mpc = "clearEnd" /\ mpc' = "threads" /\ g_bEndServer' = FALSE
      BY <2>3 DEF MainClearEnd
    <3>3. g_bRestart' = g_bRestart /\ cs' = cs /\ hpc' = hpc /\ nctrl' = nctrl
      BY <2>3 DEF MainClearEnd, handler
    <3>4. run' \in Runs
      BY <3>2
    <3>5. mpc' \in MainSteps
      BY <3>2
    <3>6. /\ g_bRestart \in BOOLEAN /\ cs \in BOOLEAN /\ nctrl \in 0..MaxCtrl
          /\ hpc \in {"idle", "take", "invalidate", "end", "close"}
      OBVIOUS
    <3>. HIDE DEF RunBound, MainSteps, Runs, TypeInv, Goto
    <3>. QED
      BY <3>1, <3>2, <3>3, <3>4, <3>5, <3>6
  <2>4. CASE MainCheckEnd
    BY <2>4 DEF MainCheckEnd, flags, handler
  <2>5. CASE MainFinally
    BY <2>5 DEF MainFinally, handler
  <2>6. CASE CtxtListFreeLeave
    <3>1. RunBound'
      BY <2>6 DEF CtxtListFreeLeave, flags, handler
    <3>2. /\ g_bEndServer' \in BOOLEAN /\ g_bRestart' \in BOOLEAN
          /\ mpc' \in MainSteps /\ run' \in Runs \cup {0} /\ cs' \in BOOLEAN
          /\ hpc' \in {"idle", "take", "invalidate", "end", "close"} /\ nctrl' \in 0..MaxCtrl
      BY <2>6 DEF CtxtListFreeLeave, flags, handler
    <3>. HIDE DEF RunBound, MainSteps, Runs, TypeInv, Goto
    <3>. QED
      BY <3>1, <3>2
  <2>7. CASE CtrlEvent
    <3>1. /\ nctrl < MaxCtrl /\ nctrl' = nctrl + 1 /\ hpc' = "take"
          /\ run' = run /\ mpc' = mpc /\ cs' = cs /\ g_bEndServer' = g_bEndServer
      BY <2>7 DEF CtrlEvent, main
    <3>2. g_bRestart' \in {g_bRestart, TRUE}
      BY <2>7 DEF CtrlEvent
    <3>3. g_bRestart' \in BOOLEAN /\ (g_bRestart => g_bRestart')
      BY <3>2, Zenon DEF TypeMain
    <3>4. nctrl \in Nat /\ run \in Nat /\ RunBound
      OBVIOUS
    <3>5. RunBound'
      BY <3>1, <3>3, <3>4
    <3>6. nctrl' \in 0..MaxCtrl
      BY <3>1
    <3>7. /\ g_bEndServer \in BOOLEAN /\ mpc \in MainSteps /\ run \in Runs \cup {0}
          /\ cs \in BOOLEAN
      OBVIOUS
    <3>. HIDE DEF RunBound, MainSteps, Runs, TypeInv, Goto
    <3>. QED
      BY <3>1, <3>3, <3>5, <3>6, <3>7
  <2>8. CASE CtrlEnd
    BY <2>8 DEF CtrlEnd, main
  <2>. QED
    BY <2>1, <2>2, <2>3, <2>4, <2>5, <2>6, <2>7, <2>8 DEF Housekeeping
<1>3. AcceptedSocket'
  BY <1>1 DEF Housekeeping, MainTest, MainClearRestart, MainClearEnd, MainCheckEnd, MainFinally,
     CtxtListFreeLeave, CtrlEvent, CtrlEnd, main, Goto, AcceptedSocket
<1>. QED
  BY <1>1, <1>2, <1>3, Unmoved DEF worker, ioctxt, client

\* The other steps of main and of the handler keep the account of the runs.
Busy == MainSteps \ {"test", "clearRestart", "clearEnd", "done"}

LEMMA MainMoves ==
  ASSUME TypeMain, mpc \in Busy, mpc' \in Busy \cup {"test"}, cs' \in BOOLEAN,
         UNCHANGED <<g_bEndServer, g_bRestart, run, hpc, nctrl>>
  PROVE  TypeMain'
<1>1. RunBound'
  BY DEF TypeMain, RunBound, Busy, MainSteps
<1>2. mpc' \in MainSteps
  BY DEF Busy, MainSteps
<1>. QED
  BY <1>1, <1>2 DEF TypeMain

LEMMA HandlerMoves ==
  ASSUME TypeMain, hpc' \in {"idle", "take", "invalidate", "end", "close"},
         UNCHANGED <<g_bEndServer, g_bRestart, mpc, run, cs, nctrl>>
  PROVE  TypeMain'
<1>1. RunBound'
  BY DEF TypeMain, RunBound
<1>. QED
  BY <1>1 DEF TypeMain

LEMMA RunIsRun == TypeMain /\ mpc \in Busy => run \in Runs
BY DEF TypeMain, RunBound, Busy, MainSteps, Runs

\* Steps of main and the handler that touch handles but no context.
LEMMA MainCreateThreadsType == TypeInv /\ MainCreateThreads => TypeInv'
<1> SUFFICES ASSUME TypeInv, MainCreateThreads PROVE TypeInv'
  OBVIOUS
<1>1. UNCHANGED <<list, sdAccept, pTemp1, ioctxt, key, pend, port, sock, client, wpkt>>
  BY DEF MainCreateThreads
<1>2. TypeMain'
  <2>1. /\ mpc = "threads" /\ mpc' \in {"finally", "socket"}
        /\ UNCHANGED <<g_bEndServer, g_bRestart, run, cs, hpc, nctrl>>
    BY DEF MainCreateThreads, Goto, flags, handler
  <2>. QED
    BY <2>1, MainMoves DEF TypeInv, TypeMain, Busy, MainSteps
<1>3. run \in Runs
  BY RunIsRun DEF TypeInv, MainCreateThreads, Busy, MainSteps
<1>4. TypeHandles'
  <2>1. g_hIOCP' \in {INVALID, run}
    BY DEF MainCreateThreads
  <2>2. openPorts' \in {openPorts, openPorts \cup {run}}
    BY DEF MainCreateThreads
  <2>3. g_ThreadHandles' \in [1..ThreadCount -> Threads \cup {NoThread}]
    BY <1>3 DEF MainCreateThreads, TypeInv, TypeHandles, Threads
  <2>4. UNCHANGED <<g_sdListen, sockTemp, lsock>>
    BY DEF MainCreateThreads, handler
  <2>. QED
    BY <1>3, <2>1, <2>2, <2>3, <2>4 DEF TypeInv, TypeHandles
<1>5. TypeWorker'
  BY <1>1 DEF MainCreateThreads, TypeInv, TypeWorker
<1>6. AcceptedSocket'
  BY <1>1 DEF MainCreateThreads, Goto, AcceptedSocket
<1>. QED
  BY <1>1, <1>2, <1>4, <1>5, <1>6, Unmoved DEF TypeInv, ioctxt, client

LEMMA CreateListenSocketType ==
  TypeInv /\ (CreateListenSocket1 \/ CreateListenSocket2) => TypeInv'
<1> SUFFICES ASSUME TypeInv, CreateListenSocket1 \/ CreateListenSocket2 PROVE TypeInv'
  OBVIOUS
<1>1. UNCHANGED <<list, sdAccept, pTemp1, worker, ioctxt, key, pend, port, sock, client,
                  g_hIOCP, g_ThreadHandles, sockTemp, openPorts>>
  BY DEF CreateListenSocket1, CreateListenSocket2, handler
<1>2. /\ mpc \in {"socket", "bind"} /\ mpc' \in {"bind", "accept", "finally"}
      /\ UNCHANGED <<g_bEndServer, g_bRestart, run, cs, hpc, nctrl>>
  BY DEF CreateListenSocket1, CreateListenSocket2, Goto, flags, handler
<1>3. TypeMain'
  BY <1>2, MainMoves DEF TypeInv, TypeMain, Busy, MainSteps
<1>4. run \in Runs
  BY <1>2, RunIsRun DEF TypeInv, Busy, MainSteps
<1>5. g_sdListen' \in {g_sdListen, INVALID, run}
  BY DEF CreateListenSocket1, CreateListenSocket2
<1>6. lsock' \in [Runs -> {"none", "open", "listening", "closed"}]
  BY DEF CreateListenSocket1, CreateListenSocket2, TypeInv, TypeHandles
<1>7. TypeHandles'
  BY <1>1, <1>4, <1>5, <1>6 DEF TypeInv, TypeHandles
<1>8. AcceptedSocket'
  BY <1>1, <1>2 DEF AcceptedSocket
<1>. QED
  BY <1>1, <1>3, <1>7, <1>8, Unmoved DEF TypeInv, worker, ioctxt, client

LEMMA MainAcceptType == TypeInv /\ (MainAcceptCall \/ MainAccept) => TypeInv'
<1> SUFFICES ASSUME TypeInv, MainAcceptCall \/ MainAccept PROVE TypeInv'
  OBVIOUS
<1>1. UNCHANGED <<list, pTemp1, worker, ioctxt, key, pend, port, client,
                  g_hIOCP, g_sdListen, lsock, g_ThreadHandles, sockTemp, openPorts>>
  BY DEF MainAcceptCall, MainAccept, handler
<1>2. /\ mpc \in {"accept", "accepting"} /\ mpc' \in {"accepting", "update", "finally"}
      /\ UNCHANGED <<g_bEndServer, g_bRestart, run, cs, hpc, nctrl>>
  BY DEF MainAcceptCall, MainAccept, Goto, flags, handler
<1>3. TypeMain'
  BY <1>2, MainMoves DEF TypeInv, TypeMain, Busy, MainSteps
<1>4. TypeList'
  BY <1>1 DEF MainAcceptCall, MainAccept, TypeInv, TypeList, Pointer
<1>5. TypeSock'
  BY DEF MainAcceptCall, MainAccept, TypeInv, TypeSock
<1>6. AcceptedSocket'
  BY NullAssumption DEF MainAcceptCall, MainAccept, Goto, AcceptedSocket
<1>. QED
  BY <1>1, <1>3, <1>4, <1>5, <1>6, Unmoved DEF TypeInv, worker, ioctxt, client

LEMMA MainUpdateType == TypeInv /\ MainUpdate => TypeInv'
<1> SUFFICES ASSUME TypeInv, MainUpdate PROVE TypeInv'
  OBVIOUS
<1>1. UNCHANGED <<sdAccept, pTemp1, worker, pend, port, sock, client,
                  g_sdListen, lsock, g_ThreadHandles, sockTemp, openPorts>>
  BY DEF MainUpdate, handler
<1>2. /\ mpc = "update" /\ mpc' \in {"check", "finally"}
      /\ UNCHANGED <<g_bEndServer, g_bRestart, run, cs, hpc, nctrl>>
  BY DEF MainUpdate, UpdateCompletionPort, Goto, flags, handler
<1>3. TypeMain'
  BY <1>2, MainMoves DEF TypeInv, TypeMain, Busy, MainSteps
<1>4. g_hIOCP' \in {g_hIOCP, INVALID}
  BY DEF MainUpdate, UpdateCompletionPort
<1>5. TypeHandles'
  BY <1>1, <1>4 DEF TypeInv, TypeHandles
<1>6. TypeIo'
  <2>1. /\ key' \in {key, [key EXCEPT ![sdAccept] = g_hIOCP]}
        /\ IOOperation' \in {IOOperation, [IOOperation EXCEPT ![sdAccept] = "ClientIoRead"]}
        /\ nTotalBytes' \in {nTotalBytes, [nTotalBytes EXCEPT ![sdAccept] = 0]}
        /\ nSentBytes' \in {nSentBytes, [nSentBytes EXCEPT ![sdAccept] = 0]}
        /\ Buffer' \in {Buffer, [Buffer EXCEPT ![sdAccept] = [i \in 1..MAX_BUFF_SIZE |-> 0]]}
    BY DEF MainUpdate, UpdateCompletionPort, ioctxt
  <2>2. key' \in [Ctxts -> Runs \cup {INVALID}]
    BY <2>1 DEF TypeInv, TypeIo, TypeHandles
  <2>3. IOOperation' \in [Ctxts -> {"ClientIoRead", "ClientIoWrite"}]
    BY <2>1 DEF TypeInv, TypeIo
  <2>4. nTotalBytes' \in [Ctxts -> 0..MAX_BUFF_SIZE] /\ nSentBytes' \in [Ctxts -> Nat]
    BY <2>1 DEF TypeInv, TypeIo
  <2>5. Buffer' \in [Ctxts -> [1..MAX_BUFF_SIZE -> 0..MaxBytes]]
    <3>. DEFINE bufs == [1..MAX_BUFF_SIZE -> 0..MaxBytes]
                zero == [i \in 1..MAX_BUFF_SIZE |-> 0]
    <3>1. zero \in bufs
      OBVIOUS
    <3>2. Buffer \in [Ctxts -> bufs] /\ Buffer' \in {Buffer, [Buffer EXCEPT ![sdAccept] = zero]}
      BY <2>1 DEF TypeInv, TypeIo
    <3>. HIDE DEF bufs, zero
    <3>3. Buffer' \in [Ctxts -> bufs]
      BY <3>1, <3>2
    <3>. QED
      BY <3>3 DEF bufs
  <2>. QED
    BY <2>2, <2>3, <2>4, <2>5 DEF TypeIo
<1>7. TypeList'
  <2>1. list' \in {list, CtxtListAddTo(list, sdAccept),
                   CtxtListAddTo(CtxtAllocate(list, sdAccept), sdAccept)}
    BY DEF MainUpdate, UpdateCompletionPort
  <2>2. list \in List /\ sdAccept \in Ctxts /\ pTemp1 \in Pointer
    BY DEF TypeInv, TypeList, AcceptedSocket, MainUpdate, Pointer
  <2>. QED
    BY <1>1, <2>1, <2>2, CtxtAllocateType, CtxtListAddToType DEF TypeList, Pointer
<1>8. AcceptedSocket'
  BY <1>1, <1>2 DEF AcceptedSocket, TypeInv
<1>. QED
  BY <1>1, <1>3, <1>5, <1>6, <1>7, <1>8, Unmoved DEF TypeInv, worker, client

\* Closing a client, by main, by the walk over the list or by a worker.
LEMMA CloseClientGroups ==
  ASSUME TypeInv, NEW c \in Ctxts, CloseClient(c)
  PROVE  list' \in List /\ TypeSock' /\ TypePort' /\ TypePend'
<1>1. TypeOK /\ PendInBuffer
  BY TypeInvParts
<1>2. /\ list' \in List
      /\ sock' \in [Ctxts -> {"none", "backlog", "open", "closed"}]
      /\ port' \in [Runs -> Seq(Packet)]
      /\ pend' \in [Ctxts -> Operation]
  BY <1>1, CloseClientType
<1>3. PendInBuffer'
  <2>1. pend' \in {pend, [pend EXCEPT ![c] = Idle]}
    BY DEF CloseClient
  <2>2. pend \in [Ctxts -> Operation]
    BY <1>1 DEF TypeOK
  <2>3. \A d \in Ctxts : pend'[d] \in {pend[d], Idle}
    BY <2>1, <2>2
  <2>4. Idle.off + Idle.len <= MAX_BUFF_SIZE
    BY DEF Idle
  <2>. QED
    BY <1>1, <2>3, <2>4 DEF PendInBuffer
<1>. QED
  BY <1>2, <1>3 DEF TypeSock, TypePort, TypePend

\* Starting an operation within the buffer.
LEMMA PostType ==
  ASSUME TypePend, NEW c \in Ctxts, NEW op \in {"recv", "send"},
         NEW off \in 0..MAX_BUFF_SIZE, NEW len \in 0..MAX_BUFF_SIZE, off + len <= MAX_BUFF_SIZE,
         Post(c, op, off, len)
  PROVE  TypePend'
<1>. DEFINE o == [op |-> op, off |-> off, len |-> len]
<1>1. o \in Operation /\ o.off + o.len <= MAX_BUFF_SIZE
  BY DEF Operation
<1>2. pend' = [pend EXCEPT ![c] = o]
  BY DEF Post
<1>. HIDE DEF o
<1>. QED
  BY <1>1, <1>2 DEF TypePend, PendInBuffer

LEMMA MainRecvType == TypeInv /\ MainRecv => TypeInv'
<1> SUFFICES ASSUME TypeInv, MainRecv PROVE TypeInv'
  OBVIOUS
<1>1. UNCHANGED <<sdAccept, pTemp1, worker, ioctxt, key, client,
                  g_hIOCP, g_sdListen, lsock, g_ThreadHandles, sockTemp, openPorts>>
  BY DEF MainRecv, handler
<1>2. /\ mpc = "recv" /\ mpc' = "accept"
      /\ UNCHANGED <<g_bEndServer, g_bRestart, run, cs, hpc, nctrl>>
  BY DEF MainRecv, Goto, flags, handler
<1>3. TypeMain'
  BY <1>2, MainMoves DEF TypeInv, TypeMain, Busy, MainSteps
<1>4. sdAccept \in Ctxts /\ list \in List
  BY <1>2 DEF TypeInv, TypeList, AcceptedSocket, Pointer
<1>5. list' \in List /\ TypeSock' /\ TypePort' /\ TypePend'
  <2>1. CASE Post(sdAccept, "recv", 0, RecvLen) /\ UNCHANGED <<list, sock, port>>
    <3>1. TypePend'
      BY <1>4, <2>1, PostType DEF TypeInv, RecvLen
    <3>. QED
      BY <1>4, <2>1, <3>1, Unmoved DEF TypeInv
  <2>2. CASE CloseClient(sdAccept)
    BY <1>4, <2>2, CloseClientGroups
  <2>. QED
    BY <2>1, <2>2 DEF MainRecv
<1>6. TypeList' /\ AcceptedSocket'
  BY <1>1, <1>2, <1>5 DEF TypeInv, TypeList, AcceptedSocket
<1>. QED
  BY <1>1, <1>3, <1>5, <1>6, Unmoved DEF TypeInv, worker, ioctxt, client

LEMMA MainPostType == TypeInv /\ MainPost => TypeInv'
<1> SUFFICES ASSUME TypeInv, MainPost PROVE TypeInv'
  OBVIOUS
<1>1. UNCHANGED <<list, sdAccept, pTemp1, worker, ioctxt, key, pend, sock, client,
                  g_hIOCP, g_sdListen, lsock, g_ThreadHandles, sockTemp, openPorts>>
  BY DEF MainPost, handler
<1>2. /\ mpc = "post" /\ mpc' = "wait"
      /\ UNCHANGED <<g_bEndServer, g_bRestart, run, cs, hpc, nctrl>>
  BY DEF MainPost, Goto, flags, handler
<1>3. TypeMain' /\ AcceptedSocket'
  BY <1>2, MainMoves DEF TypeInv, TypeMain, Busy, MainSteps, AcceptedSocket
<1>4. TypePort'
  <2>1. ExitPackets \in Seq(Packet)
    BY DEF ExitPackets, NullPacket, Packet, Pointer
  <2>2. \A r \in Runs : port[r] \o ExitPackets \in Seq(Packet)
    BY <2>1 DEF TypeInv, TypePort
  <2>3. port' = port \/ port' = [port EXCEPT ![g_hIOCP] = @ \o ExitPackets]
    BY DEF MainPost
  <2>. HIDE DEF ExitPackets
  <2>. QED
    BY <2>2, <2>3 DEF TypeInv, TypePort
<1>. QED
  BY <1>1, <1>3, <1>4, Unmoved DEF TypeInv, worker, ioctxt, client

\* The wait, the walk and the closing of the handles.
LEMMA CleanupType ==
  TypeInv /\ (MainWait \/ CtxtListFreeEnter \/ MainClosePort \/ MainCloseSockets) => TypeInv'
<1> SUFFICES ASSUME TypeInv, MainWait \/ CtxtListFreeEnter \/ MainClosePort \/ MainCloseSockets
             PROVE  TypeInv'
  OBVIOUS
<1>1. UNCHANGED <<list, worker, ioctxt, key, pend, port, client, sockTemp>>
  BY DEF MainWait, CtxtListFreeEnter, MainClosePort, MainCloseSockets, handler
<1>2. /\ mpc \in {"wait", "free", "closePort", "closeSockets"}
      /\ mpc' \in {"free", "walk", "closeSockets", "test"}
      /\ cs' \in {cs, TRUE}
      /\ UNCHANGED <<g_bEndServer, g_bRestart, run, hpc, nctrl>>
  BY DEF MainWait, CtxtListFreeEnter, MainClosePort, MainCloseSockets, Goto, flags, handler
<1>3. TypeMain' /\ AcceptedSocket'
  BY <1>2, MainMoves DEF TypeInv, TypeMain, Busy, MainSteps, AcceptedSocket
<1>4. TypeList'
  BY <1>1 DEF MainWait, CtxtListFreeEnter, MainClosePort, MainCloseSockets, TypeInv, TypeList,
              List, Pointer
<1>5. TypeSock'
  BY DEF MainWait, CtxtListFreeEnter, MainClosePort, MainCloseSockets, TypeInv, TypeSock
<1>6. /\ openPorts' \subseteq openPorts /\ g_hIOCP' \in {g_hIOCP, INVALID}
      /\ g_sdListen' \in {g_sdListen, INVALID}
  BY DEF MainWait, CtxtListFreeEnter, MainClosePort, MainCloseSockets
<1>7. lsock' \in [Runs -> {"none", "open", "listening", "closed"}]
  BY DEF MainWait, CtxtListFreeEnter, MainClosePort, MainCloseSockets, TypeInv, TypeHandles
<1>8. g_ThreadHandles' \in [1..ThreadCount -> Threads \cup {NoThread}]
  BY DEF MainWait, CtxtListFreeEnter, MainClosePort, MainCloseSockets, TypeInv, TypeHandles
<1>9. TypeHandles'
  BY <1>1, <1>6, <1>7, <1>8 DEF TypeInv, TypeHandles
<1>. QED
  BY <1>1, <1>3, <1>4, <1>5, <1>9, Unmoved DEF TypeInv, worker, ioctxt, client

LEMMA CtxtListFreeStepType == TypeInv /\ CtxtListFreeStep => TypeInv'
<1> SUFFICES ASSUME TypeInv, CtxtListFreeStep PROVE TypeInv'
  OBVIOUS
<1>1. UNCHANGED <<sdAccept, worker, ioctxt, key, client, g_bEndServer, g_bRestart, mpc, run, cs,
                  hpc, nctrl, g_hIOCP, g_sdListen, lsock, g_ThreadHandles, sockTemp, openPorts>>
  BY DEF CtxtListFreeStep, handler, flags
<1>2. pTemp1 \in Ctxts /\ list.pCtxtBack \in [Ctxts -> Pointer]
  BY DEF CtxtListFreeStep, TypeInv, TypeList, Pointer, List
<1>3. list' \in List /\ TypeSock' /\ TypePort' /\ TypePend'
  BY <1>2, CloseClientGroups DEF CtxtListFreeStep
<1>4. TypeList'
  BY <1>1, <1>2, <1>3 DEF CtxtListFreeStep, TypeInv, TypeList
<1>. QED
  BY <1>1, <1>3, <1>4, Unmoved DEF TypeInv, worker, ioctxt, client

LEMMA CtrlType == TypeInv /\ (CtrlTake \/ CtrlInvalidate \/ CtrlClose) => TypeInv'
<1> SUFFICES ASSUME TypeInv, CtrlTake \/ CtrlInvalidate \/ CtrlClose PROVE TypeInv'
  OBVIOUS
<1>1. UNCHANGED <<list, main, worker, ioctxt, key, pend, port, client, flags, nctrl,
                  g_hIOCP, openPorts>>
  BY DEF CtrlTake, CtrlInvalidate, CtrlClose
<1>2. hpc' \in {"invalidate", "end", "idle"}
  BY DEF CtrlTake, CtrlInvalidate, CtrlClose
<1>3. TypeMain'
  BY <1>1, <1>2, HandlerMoves DEF main, flags, TypeInv
<1>4. TypeSock'
  BY DEF CtrlTake, CtrlInvalidate, CtrlClose, CloseListener, TypeInv, TypeSock
<1>5. /\ sockTemp' \in {sockTemp, g_sdListen, INVALID} /\ g_sdListen' \in {g_sdListen, INVALID}
  BY DEF CtrlTake, CtrlInvalidate, CtrlClose
<1>6. lsock' \in [Runs -> {"none", "open", "listening", "closed"}]
  BY DEF CtrlTake, CtrlInvalidate, CtrlClose, CloseListener, TypeInv, TypeHandles
<1>7. TypeHandles'
  BY <1>1, <1>5, <1>6 DEF TypeInv, TypeHandles, main
<1>. QED
  BY <1>1, <1>3, <1>4, <1>7, Unmoved DEF TypeInv, main, worker, ioctxt, client

-----------------------------------------------------------------------------
(* Steps of the workers *)

LEMMA WorkerGetType == ASSUME NEW t \in Threads PROVE TypeInv /\ WorkerGet(t) => TypeInv'
<1> SUFFICES ASSUME TypeInv, WorkerGet(t) PROVE TypeInv'
  OBVIOUS
<1>1. UNCHANGED <<flags, g_hIOCP, g_sdListen, list, main, handler, ioctxt, pend, key, openPorts,
                  lsock, sock, client>>
  BY DEF WorkerGet
<1>2. /\ wpkt \in [Threads -> Packet] /\ port \in [Runs -> Seq(Packet)]
      /\ wpc \in [Threads -> {"none", "gqcs", "got", "io", "close", "exit"}]
      /\ t[1] \in Runs
  BY DEF TypeInv, TypeWorker, TypePort, Threads
<1>3. wpkt' \in [Threads -> Packet] /\ port' \in [Runs -> Seq(Packet)]
  <2>1. CASE /\ port[t[1]] # <<>>
             /\ wpkt' = [wpkt EXCEPT ![t] = Head(port[t[1]])]
             /\ port' = [port EXCEPT ![t[1]] = Tail(@)]
    <3>1. port[t[1]] \in Seq(Packet)
      BY <1>2
    <3>2. Head(port[t[1]]) \in Packet /\ Tail(port[t[1]]) \in Seq(Packet)
      BY <2>1, <3>1
    <3>. QED
      BY <1>2, <2>1, <3>2
  <2>2. CASE wpkt' = [wpkt EXCEPT ![t].ok = FALSE] /\ UNCHANGED port
    BY <1>2, <2>2 DEF Packet
  <2>. QED
    BY <2>1, <2>2 DEF WorkerGet
<1>4. wpc' \in [Threads -> {"none", "gqcs", "got", "io", "close", "exit"}]
  BY <1>2 DEF WorkerGet
<1>5. TypeWorker' /\ TypePort'
  BY <1>3, <1>4 DEF TypeWorker, TypePort
<1>. QED
  BY <1>1, <1>5, Unmoved DEF TypeInv, flags, main, handler, ioctxt, client

LEMMA WorkerCheckType == ASSUME NEW t \in Threads PROVE TypeInv /\ WorkerCheck(t) => TypeInv'
<1> SUFFICES ASSUME TypeInv, WorkerCheck(t) PROVE TypeInv'
  OBVIOUS
<1>1. UNCHANGED <<flags, g_hIOCP, g_sdListen, list, main, wpkt, handler, ioctxt, pend, key, port,
                  openPorts, lsock, sock, client>>
  BY DEF WorkerCheck
<1>2. TypeWorker'
  BY DEF WorkerCheck, TypeInv, TypeWorker
<1>. QED
  BY <1>1, <1>2, Unmoved DEF TypeInv, flags, main, handler, ioctxt, client

LEMMA IssueType ==
  ASSUME TypeInv, NEW t \in Threads, NEW c \in Ctxts, NEW op \in {"recv", "send"},
         NEW off \in 0..MAX_BUFF_SIZE, NEW len \in 0..MAX_BUFF_SIZE, off + len <= MAX_BUFF_SIZE,
         Issue(t, c, op, off, len)
  PROVE  TypePend' /\ wpc' \in [Threads -> {"none", "gqcs", "got", "io", "close", "exit"}]
<1>1. wpc' \in [Threads -> {"none", "gqcs", "got", "io", "close", "exit"}]
  BY DEF Issue, TypeInv, TypeWorker
<1>2. Post(c, op, off, len) \/ UNCHANGED pend
  BY DEF Issue
<1>3. TypePend
  BY DEF TypeInv
<1>4. TypePend'
  BY <1>2, <1>3, PostType, Unmoved
<1>. QED
  BY <1>1, <1>4

LEMMA WorkerIoType == ASSUME NEW t \in Threads PROVE TypeInv /\ WorkerIo(t) => TypeInv'
<1> SUFFICES ASSUME TypeInv, WorkerIo(t) PROVE TypeInv'
  OBVIOUS
<1>. DEFINE c == wpkt[t].ctxt
            size == wpkt[t].size
<1>1. UNCHANGED <<flags, g_hIOCP, g_sdListen, main, wpkt, handler, Buffer, key, port,
                  openPorts, lsock, sock, client>>
  BY DEF WorkerIo
<1>2. size \in 0..MAX_BUFF_SIZE
  BY DEF TypeInv, TypeWorker, Packet
<1>3. list \in List /\ wpkt \in [Threads -> Packet]
  BY DEF TypeInv, TypeList, TypeWorker
<1>4. list' \in List /\ TypeList'
  <2>1. list' = list \/ list' = UseAfterFree(list)
    BY DEF WorkerIo
  <2>. QED
    BY <1>1, <1>3, <2>1, UseAfterFreeType DEF TypeInv, TypeList, main
<1>5. CASE c \notin list.live
  <2>1. UNCHANGED <<wpc, pend, IOOperation, nTotalBytes, nSentBytes>>
    BY <1>5 DEF WorkerIo
  <2>. QED
    BY <1>1, <1>4, <2>1, Unmoved DEF TypeInv, flags, main, handler, client
<1>6. CASE c \in list.live
  <2>1. c \in Ctxts
    BY <1>3, <1>6 DEF List
  <2>2. IoRead(t, c, size) \/ IoWrite(t, c, size)
    BY <1>6 DEF WorkerIo
  <2>3. /\ nTotalBytes[c] \in 0..MAX_BUFF_SIZE /\ nSentBytes[c] \in Nat
        /\ nTotalBytes \in [Ctxts -> 0..MAX_BUFF_SIZE] /\ nSentBytes \in [Ctxts -> Nat]
        /\ IOOperation \in [Ctxts -> {"ClientIoRead", "ClientIoWrite"}]
    BY <2>1 DEF TypeInv, TypeIo
  <2>4. TypePend' /\ wpc' \in [Threads -> {"none", "gqcs", "got", "io", "close", "exit"}]
    <3>1. CASE IoRead(t, c, size)
      <4>1. Issue(t, c, "send", 0, size)
        BY <3>1 DEF IoRead
      <4>. QED
        BY <1>2, <2>1, <4>1, IssueType
    <3>2. CASE /\ SentSoFar(c, size) < nTotalBytes[c]
               /\ Issue(t, c, "send", SentSoFar(c, size), nTotalBytes[c] - SentSoFar(c, size))
      <4>. DEFINE off == SentSoFar(c, size)
                  len == nTotalBytes[c] - off
      <4>1. off \in 0..MAX_BUFF_SIZE /\ len \in 0..MAX_BUFF_SIZE /\ off + len <= MAX_BUFF_SIZE
        BY <1>2, <2>3, <3>2 DEF SentSoFar
      <4>2. Issue(t, c, "send", off, len)
        BY <3>2
      <4>. HIDE DEF off, len, c
      <4>. QED
        BY <2>1, <4>1, <4>2, IssueType
    <3>3. CASE Issue(t, c, "recv", 0, RecvLen)
      BY <2>1, <3>3, IssueType DEF RecvLen
    <3>. QED
      BY <2>2, <3>1, <3>2, <3>3 DEF IoWrite
  <2>5. /\ nTotalBytes' \in [Ctxts -> 0..MAX_BUFF_SIZE] /\ nSentBytes' \in [Ctxts -> Nat]
        /\ IOOperation' \in [Ctxts -> {"ClientIoRead", "ClientIoWrite"}]
    <3>1. CASE IoRead(t, c, size)
      BY <1>2, <2>3, <3>1 DEF IoRead
    <3>2. CASE IoWrite(t, c, size)
      BY <1>2, <2>1, <2>3, <3>2 DEF IoWrite, SentSoFar
    <3>. QED
      BY <2>2, <3>1, <3>2
  <2>6. TypeIo' /\ TypeWorker'
    BY <1>1, <2>4, <2>5 DEF TypeInv, TypeIo, TypeWorker
  <2>. QED
    BY <1>1, <1>4, <2>4, <2>6, Unmoved DEF TypeInv, flags, main, handler, client
<1>. QED
  BY <1>5, <1>6

\* The packet of a worker that got past WorkerGet has a context.
LEMMA WorkerCloseType ==
  ASSUME NEW t \in Threads PROVE TypeInv /\ WorkerClose(t) => TypeInv'
<1> SUFFICES ASSUME TypeInv, WorkerClose(t) PROVE TypeInv'
  OBVIOUS
<1>. DEFINE c == wpkt[t].ctxt
<1>1. UNCHANGED <<flags, g_hIOCP, g_sdListen, main, wpkt, handler, ioctxt, key, openPorts,
                  lsock, client>>
  BY DEF WorkerClose
<1>2. CloseClient(c) /\ c \in Pointer /\ list \in List
  BY DEF WorkerClose, TypeInv, TypeWorker, TypeList, Packet
<1>3. list' \in List /\ TypeSock' /\ TypePort' /\ TypePend'
  <2>1. CASE c \in Ctxts
    BY <1>2, <2>1, CloseClientGroups
  <2>2. CASE c = NULL
    <3>1. c \notin list.live
      BY <1>2, <2>2 DEF List
    <3>2. list' = UseAfterFree(list) /\ UNCHANGED <<sock, port, pend>>
      BY <1>2, <3>1 DEF CloseClient
    <3>. QED
      BY <1>2, <3>2, UseAfterFreeType, Unmoved DEF TypeInv
  <2>. QED
    BY <1>2, <2>1, <2>2 DEF Pointer
<1>4. TypeList'
  BY <1>1, <1>3 DEF TypeInv, TypeList, main
<1>5. TypeWorker'
  BY <1>1 DEF WorkerClose, TypeInv, TypeWorker
<1>. QED
  BY <1>1, <1>3, <1>4, <1>5, Unmoved DEF TypeInv, flags, main, handler, ioctxt, client

-----------------------------------------------------------------------------
(* Steps of the kernel and of the clients *)

LEMMA Min2Least ==
  ASSUME NEW a \in Int, NEW b \in Int, NEW n \in 1..Min2(a, b) PROVE n <= a /\ n <= b
BY DEF Min2

LEMMA CompleteRecvType == ASSUME NEW c \in Ctxts PROVE TypeInv /\ CompleteRecv(c) => TypeInv'
<1> SUFFICES ASSUME TypeInv, CompleteRecv(c) PROVE TypeInv'
  OBVIOUS
<1>1. UNCHANGED <<flags, g_hIOCP, g_sdListen, list, main, worker, handler, IOOperation,
                  nTotalBytes, nSentBytes, key, openPorts, lsock, sock, nsent, echoed, peer>>
  BY DEF CompleteRecv
<1>2. TypePend'
  <2>1. pend' = [pend EXCEPT ![c] = Idle]
    BY DEF CompleteRecv
  <2>2. pend \in [Ctxts -> Operation] /\ PendInBuffer /\ Idle.off + Idle.len <= MAX_BUFF_SIZE
    BY DEF TypeInv, TypePend, Idle
  <2>. QED
    BY <2>1, <2>2, IdleType DEF TypePend, PendInBuffer
<1>3. /\ port \in [Runs -> Seq(Packet)] /\ pend[c].len \in 0..MAX_BUFF_SIZE
      /\ nsent[c] \in 0..MaxBytes /\ nrecvd[c] \in 0..MaxBytes
      /\ nrecvd \in [Ctxts -> 0..MaxBytes]
      /\ Buffer \in [Ctxts -> [1..MAX_BUFF_SIZE -> 0..MaxBytes]]
  BY DEF TypeInv, TypePort, TypePend, TypeClient, TypeIo, Operation
<1>4. /\ port' \in [Runs -> Seq(Packet)] /\ nrecvd' \in [Ctxts -> 0..MaxBytes]
      /\ Buffer' \in [Ctxts -> [1..MAX_BUFF_SIZE -> 0..MaxBytes]]
  <2>1. ASSUME NEW n \in 1..Min2(nsent[c] - nrecvd[c], pend[c].len),
               Buffer' = [Buffer EXCEPT ![c] =
                            [i \in 1..MAX_BUFF_SIZE |-> IF i <= n THEN nrecvd[c] + i ELSE @[i]]],
               nrecvd' = [nrecvd EXCEPT ![c] = @ + n],
               Completed(c, n, TRUE)
        PROVE  /\ port' \in [Runs -> Seq(Packet)] /\ nrecvd' \in [Ctxts -> 0..MaxBytes]
               /\ Buffer' \in [Ctxts -> [1..MAX_BUFF_SIZE -> 0..MaxBytes]]
    <3>1. n \in 0..MAX_BUFF_SIZE /\ n \in 1..MAX_BUFF_SIZE /\ nrecvd[c] + n \in 0..MaxBytes
      BY <1>3, Min2Least
    <3>2. port' \in [Runs -> Seq(Packet)]
      <4>1. Completed(c, n, TRUE) /\ port \in [Runs -> Seq(Packet)]
        BY <1>3, <2>1
      <4>. QED
        BY <3>1, <4>1, CompletedType
    <3>3. nrecvd' \in [Ctxts -> 0..MaxBytes]
      BY <1>3, <2>1, <3>1
    <3>. DEFINE bufs == [1..MAX_BUFF_SIZE -> 0..MaxBytes]
                b == [i \in 1..MAX_BUFF_SIZE |-> IF i <= n THEN nrecvd[c] + i ELSE Buffer[c][i]]
    <3>4. Buffer[c] \in bufs
      BY <1>3
    <3>5. \A i \in 1..MAX_BUFF_SIZE : i <= n => nrecvd[c] + i \in 0..MaxBytes
      BY <1>3, <3>1
    <3>6. b \in bufs
      BY <3>4, <3>5
    <3>7. Buffer' = [Buffer EXCEPT ![c] = b] /\ Buffer \in [Ctxts -> bufs]
      BY <1>3, <2>1
    <3>. HIDE DEF b, bufs
    <3>8. Buffer' \in [Ctxts -> bufs]
      BY <3>6, <3>7
    <3>. QED
      BY <3>2, <3>3, <3>8 DEF bufs
  <2>2. ASSUME NEW ok \in BOOLEAN, Completed(c, 0, ok), UNCHANGED <<Buffer, nrecvd>>
        PROVE  /\ port' \in [Runs -> Seq(Packet)] /\ nrecvd' \in [Ctxts -> 0..MaxBytes]
               /\ Buffer' \in [Ctxts -> [1..MAX_BUFF_SIZE -> 0..MaxBytes]]
    <3>1. 0 \in 0..MAX_BUFF_SIZE
      OBVIOUS
    <3>. QED
      BY <1>3, <2>2, <3>1, CompletedType
  <2>. QED
    BY <2>1, <2>2 DEF CompleteRecv
<1>5. TypePort' /\ TypeIo' /\ TypeClient'
  BY <1>1, <1>4 DEF TypeInv, TypePort, TypeIo, TypeClient
<1>. QED
  BY <1>1, <1>2, <1>5, Unmoved DEF TypeInv, flags, main, worker, handler

LEMMA CompleteSendType == ASSUME NEW c \in Ctxts PROVE TypeInv /\ CompleteSend(c) => TypeInv'
<1> SUFFICES ASSUME TypeInv, CompleteSend(c) PROVE TypeInv'
  OBVIOUS
<1>1. UNCHANGED <<flags, g_hIOCP, g_sdListen, list, main, worker, handler, ioctxt,
                  key, openPorts, lsock, sock, nsent, nrecvd, peer>>
  BY DEF CompleteSend
<1>2. TypePend'
  <2>1. pend' = [pend EXCEPT ![c] = Idle]
    BY DEF CompleteSend
  <2>2. pend \in [Ctxts -> Operation] /\ PendInBuffer /\ Idle.off + Idle.len <= MAX_BUFF_SIZE
    BY DEF TypeInv, TypePend, Idle
  <2>. QED
    BY <2>1, <2>2, IdleType DEF TypePend, PendInBuffer
<1>3. /\ port \in [Runs -> Seq(Packet)]
      /\ pend[c].len \in 0..MAX_BUFF_SIZE /\ pend[c].off \in 0..MAX_BUFF_SIZE
      /\ pend[c].off + pend[c].len <= MAX_BUFF_SIZE
      /\ echoed \in [Ctxts -> Seq(0..MaxBytes)]
      /\ Buffer[c] \in [1..MAX_BUFF_SIZE -> 0..MaxBytes]
  BY DEF TypeInv, TypePort, TypePend, TypeClient, TypeIo, Operation, PendInBuffer
<1>4. port' \in [Runs -> Seq(Packet)] /\ echoed' \in [Ctxts -> Seq(0..MaxBytes)]
  <2>1. ASSUME NEW n \in 1..pend[c].len,
               echoed' = [echoed EXCEPT ![c] = @ \o [i \in 1..n |-> Buffer[c][pend[c].off + i]]],
               Completed(c, n, TRUE)
        PROVE  port' \in [Runs -> Seq(Packet)] /\ echoed' \in [Ctxts -> Seq(0..MaxBytes)]
    <3>1. n \in 0..MAX_BUFF_SIZE /\ n \in 1..MAX_BUFF_SIZE
      BY <1>3
    <3>2. port' \in [Runs -> Seq(Packet)]
      <4>1. Completed(c, n, TRUE) /\ port \in [Runs -> Seq(Packet)]
        BY <1>3, <2>1
      <4>. QED
        BY <3>1, <4>1, CompletedType
    <3>. DEFINE new == [i \in 1..n |-> Buffer[c][pend[c].off + i]]
    <3>3. \A i \in 1..n : pend[c].off + i \in 1..MAX_BUFF_SIZE
      BY <1>3
    <3>4. new \in [1..n -> 0..MaxBytes]
      BY <1>3, <3>3
    <3>5. new \in Seq(0..MaxBytes)
      BY <3>1, <3>4
    <3>6. echoed' = [echoed EXCEPT ![c] = @ \o new]
      BY <2>1
    <3>. HIDE DEF new
    <3>7. echoed[c] \o new \in Seq(0..MaxBytes)
      BY <1>3, <3>5
    <3>. QED
      BY <1>3, <3>2, <3>6, <3>7
  <2>2. ASSUME Completed(c, 0, FALSE), UNCHANGED echoed
        PROVE  port' \in [Runs -> Seq(Packet)] /\ echoed' \in [Ctxts -> Seq(0..MaxBytes)]
    <3>1. 0 \in 0..MAX_BUFF_SIZE
      OBVIOUS
    <3>. QED
      BY <1>3, <2>2, <3>1, CompletedType
  <2>. QED
    BY <2>1, <2>2 DEF CompleteSend
<1>5. TypePort' /\ TypeClient'
  BY <1>1, <1>4 DEF TypeInv, TypePort, TypeClient
<1>. QED
  BY <1>1, <1>2, <1>5, Unmoved DEF TypeInv, flags, main, worker, handler, ioctxt

LEMMA ClientType == ASSUME NEW c \in Ctxts PROVE TypeInv /\ Client(c) => TypeInv'
<1> SUFFICES ASSUME TypeInv, Client(c) PROVE TypeInv'
  OBVIOUS
<1>1. UNCHANGED <<flags, g_hIOCP, g_sdListen, list, main, worker, handler, ioctxt, pend, key,
                  port, openPorts, lsock, nrecvd, echoed>>
  BY DEF Client, Connect, ClientSend, ClientClose, client
<1>2. TypeSock'
  BY DEF Client, Connect, ClientSend, ClientClose, TypeInv, TypeSock
<1>3. nsent' \in [Ctxts -> 0..MaxBytes]
  <2>1. nsent \in [Ctxts -> 0..MaxBytes]
    BY DEF TypeInv, TypeClient
  <2>2. \/ nsent' = nsent
        \/ nsent[c] < MaxBytes /\ nsent' = [nsent EXCEPT ![c] = @ + 1]
    BY DEF Client, Connect, ClientSend, ClientClose, client
  <2>. QED
    BY <2>1, <2>2
<1>4. peer' \in [Ctxts -> {"open", "fin", "rst"}]
  BY DEF Client, Connect, ClientSend, ClientClose, client, TypeInv, TypeClient
<1>5. TypeClient'
  BY <1>1, <1>3, <1>4 DEF TypeInv, TypeClient
<1>. QED
  BY <1>1, <1>2, <1>5, Unmoved DEF TypeInv, flags, main, worker, handler, ioctxt

-----------------------------------------------------------------------------

LEMMA InitTypeInv == Init => TypeInv
<1>1. Init => RunBound /\ AcceptedSocket
  BY DEF Init, RunBound, AcceptedSocket
<1>2. ASSUME Init PROVE PendInBuffer
  <2>1. ASSUME NEW c \in Ctxts PROVE pend[c] = Idle
    BY <1>2, <2>1 DEF Init
  <2>2. Idle.off + Idle.len <= MAX_BUFF_SIZE
    BY ServerAssumption DEF Idle
  <2>. QED
    BY <2>1, <2>2 DEF PendInBuffer
<1>. QED
  BY <1>1, <1>2, InitTypeOK, TypeInvParts

LEMMA StepTypeInv == TypeInv /\ [Next]_vars => TypeInv'
<1> SUFFICES ASSUME TypeInv, [Next]_vars PROVE TypeInv'
  OBVIOUS
<1>1. CASE UNCHANGED vars
  BY <1>1, Unmoved DEF TypeInv, vars, flags, main, worker, handler, ioctxt, client
<1>2. CASE Main
  BY <1>2, HousekeepingType, MainCreateThreadsType, CreateListenSocketType, MainAcceptType,
     MainUpdateType, MainRecvType, MainPostType, CleanupType, CtxtListFreeStepType
     DEF Main, Housekeeping
<1>3. ASSUME NEW t \in Threads, Worker(t) PROVE TypeInv'
  BY <1>3, WorkerGetType, WorkerCheckType, WorkerIoType, WorkerCloseType DEF Worker
<1>4. CASE CtrlEvent \/ CtrlHandler
  BY <1>4, HousekeepingType, CtrlType DEF CtrlHandler, Housekeeping
<1>5. ASSUME NEW c \in Ctxts, Kernel(c) \/ Client(c) PROVE TypeInv'
  BY <1>5, CompleteRecvType, CompleteSendType, ClientType DEF Kernel
<1>. QED
  BY <1>1, <1>2, <1>3, <1>4, <1>5 DEF Next

\* Every variable of the server stays in its type, however many connections
\* and threads there are: in particular every operation stays within the
\* buffer of its context (WorkerThread), and main never sets up a connection
\* it does not have.
THEOREM TypeCorrect == Spec => []TypeOK
<1>1. TypeInv => TypeOK
  BY TypeInvParts
<1>. QED
  BY <1>1, InitTypeInv, StepTypeInv, PTL DEF Spec

-----------------------------------------------------------------------------
(* Connections that do not overlap *)

\* A list with one context or none.
LEMMA AddedFirst ==
  ASSUME NEW l \in List, NEW c \in Ctxts, l.live = {}, ~l.uaf, l.g_pCtxtList = NULL
  PROVE  LET m == CtxtListAddTo(CtxtAllocate(l, c), c)
         IN  /\ ~m.uaf /\ m.live = {c} /\ m.g_pCtxtList = c
             /\ m.pCtxtBack[c] = NULL /\ m.pCtxtForward[c] = NULL
BY DEF CtxtListAddTo, CtxtAllocate, List

LEMMA DeletedLast ==
  ASSUME NEW l \in List, NEW c \in Ctxts, l.live = {c}, ~l.uaf, l.g_pCtxtList = c,
         l.pCtxtBack[c] = NULL, l.pCtxtForward[c] = NULL
  PROVE  LET m == CtxtListDeleteFrom(l, c)
         IN  ~m.uaf /\ m.live = {} /\ m.g_pCtxtList = NULL
BY DEF CtxtListDeleteFrom, Unlink, List

LEMMA OnlyContext == ASSUME TypeInv, SingleContext, NEW c \in list.live PROVE list.live = {c} /\ c \in Ctxts
BY DEF SingleContext, TypeInv, TypeList, List

\* The only context is closed: nothing is left.
LEMMA CloseOnly ==
  ASSUME TypeInv, SingleContext, NEW c \in list.live, CloseClient(c)
  PROVE  /\ ~list'.uaf /\ list'.live = {} /\ list'.g_pCtxtList = NULL
         /\ sock' = [sock EXCEPT ![c] = "closed"]
         /\ ~InKernel(c) => UNCHANGED <<port, pend>>
         /\ InKernel(c) => Completed(c, 0, FALSE) /\ pend' = [pend EXCEPT ![c] = Idle]
<1>1. list.live = {c} /\ c \in Ctxts
  BY OnlyContext
<1>2. /\ list \in List /\ ~list.uaf /\ list.g_pCtxtList = c
      /\ list.pCtxtBack[c] = NULL /\ list.pCtxtForward[c] = NULL
  BY DEF SingleContext, TypeInv, TypeList
<1>3. list' = CtxtListDeleteFrom(list, c)
  BY DEF CloseClient
<1>4. ~list'.uaf /\ list'.live = {} /\ list'.g_pCtxtList = NULL
  BY <1>1, <1>2, <1>3, DeletedLast
<1>. QED
  BY <1>4 DEF CloseClient, InKernel

\* What keeps each part.
LEMMA SafeFrames ==
  /\ SingleContext /\ UNCHANGED list /\ (mpc' = "walk" => mpc = "walk" /\ pTemp1' = pTemp1)
       => SingleContext'
  /\ OneConnection /\ UNCHANGED <<sock, list, key, run, sdAccept, mpc>> => OneConnection'
  /\ OneHolder /\ UNCHANGED <<pend, list, sdAccept, mpc, port, run, wpc, wpkt>> => OneHolder'
  /\ PassesApart /\ UNCHANGED <<wpc, wpkt, port, run, mpc, list>> => PassesApart'
  /\ PassSetUp /\ UNCHANGED <<mpc, run, g_ThreadHandles, g_hIOCP, openPorts, wpc, wpkt, port, list>>
       => PassSetUp'
<1>1. SingleContext /\ UNCHANGED list /\ (mpc' = "walk" => mpc = "walk" /\ pTemp1' = pTemp1)
        => SingleContext'
  BY DEF SingleContext
<1>2. OneConnection /\ UNCHANGED <<sock, list, key, run, sdAccept, mpc>> => OneConnection'
  BY DEF OneConnection
<1>3. OneHolder /\ UNCHANGED <<pend, list, sdAccept, mpc, port, run, wpc, wpkt>> => OneHolder'
  BY DEF OneHolder, InKernel, WithMain, AtWork
<1>4. PassesApart /\ UNCHANGED <<wpc, wpkt, port, run, mpc, list>> => PassesApart'
  BY DEF PassesApart, Settled, AllSettled, Gone
<1>5. PassSetUp /\ UNCHANGED <<mpc, run, g_ThreadHandles, g_hIOCP, openPorts, wpc, wpkt, port, list>>
        => PassSetUp'
  BY DEF PassSetUp, Settled, AllSettled, Gone
<1>. QED
  BY <1>1, <1>2, <1>3, <1>4, <1>5

\* Steps of main that go on to the next place.
LEMMA Tidy ==
  ASSUME TypeInv, SafeInv,
         UNCHANGED <<list, sock, key, pend, port, run, wpc, wpkt, g_hIOCP, openPorts, g_ThreadHandles,
                     sdAccept, pTemp1>>,
         \/ mpc = "test" /\ mpc' \in {"clearRestart", "done"}
         \/ mpc = "clearRestart" /\ mpc' = "clearEnd"
         \/ mpc = "socket" /\ mpc' \in {"bind", "finally"}
         \/ mpc = "bind" /\ mpc' \in {"accept", "finally"}
         \/ mpc = "accept" /\ mpc' = "accepting"
         \/ mpc = "check" /\ mpc' \in {"recv", "finally"}
         \/ mpc = "finally" /\ mpc' = "post"
         \/ mpc = "walk" /\ mpc' = "closePort" /\ pTemp1 = NULL
  PROVE  SafeInv'
<1>. USE DEF SafeInv
<1>1. SingleContext'
  BY DEF SingleContext
<1>2. OneConnection'
  <2>1. mpc = "walk" /\ pTemp1 = NULL => list.live = {}
    BY DEF SingleContext, TypeInv, TypeList, List
  <2>. QED
    BY <2>1 DEF OneConnection, NoContexts, EndOfPass
<1>3. OneHolder'
  BY DEF OneHolder, OneConnection, InKernel, WithMain, AtWork, Serving, NoContexts
<1>4. PassesApart'
  <2>1. (\A t \in Threads : Settled(t)) => \A t \in Threads : Settled(t)'
    BY DEF Settled, Gone
  <2>2. \A t \in Threads : Settled(t) => Settled(t)'
    BY DEF Settled, Gone
  <2>. QED
    BY <2>1, <2>2 DEF PassesApart, AllSettled, Serving, Gone
<1>5. PassSetUp'
  BY DEF PassSetUp, SetUp, EndOfPass, AllSettled, Settled, Gone
<1>. QED
  BY <1>1, <1>2, <1>3, <1>4, <1>5

LEMMA ThreadRuns == \A t \in Threads : t[1] \in Runs /\ t[1] \in Nat
BY DEF Threads, Runs

LEMMA MainClearEndSafe == ASSUME TypeInv, SafeInv, MainClearEnd, TypeInv' PROVE SafeInv'
<1>. USE DEF SafeInv
<1>1. /\ UNCHANGED <<list, sock, key, pend, port, wpc, wpkt, g_hIOCP, openPorts, g_ThreadHandles,
                     sdAccept, pTemp1>>
      /\ mpc = "clearEnd" /\ mpc' = "threads" /\ run' = run + 1
  BY DEF MainClearEnd, Goto, worker
<1>2. run \in Nat /\ run' \in Runs /\ list.live = {}
  BY <1>1, RunIsRun DEF TypeInv, TypeMain, Runs, Busy, MainSteps, OneConnection, NoContexts
<1>3. AllSettled /\ port[run'] = <<>>
  BY <1>1, <1>2 DEF PassesApart, Serving
<1>4. SingleContext'
  BY <1>1, SafeFrames
<1>5. OneConnection'
  BY <1>1, <1>2 DEF OneConnection, NoContexts, EndOfPass
<1>6. OneHolder'
  <2>1. \A t \in Threads : ~AtWork(t)'
    BY <1>1, <1>3 DEF AllSettled, Settled, AtWork, Gone
  <2>2. \A c \in Ctxts : ~InKernel(c)'
    BY <1>1, <1>2 DEF OneHolder, InKernel
  <2>3. DOMAIN port'[run'] = {}
    BY <1>1, <1>3
  <2>. QED
    BY <2>1, <2>2, <2>3 DEF OneHolder
<1>7. PassesApart'
  <2>1. AllSettled'
    BY <1>1, <1>3 DEF AllSettled, Settled, Gone
  <2>2. \A r \in Runs : r > run' => r > run
    BY <1>1, <1>2 DEF Runs
  <2>3. \A t \in Threads : t[1] > run' \/ t[1] = run' => t[1] > run
    BY <1>1, <1>2, ThreadRuns
  <2>. QED
    BY <1>1, <2>1, <2>2, <2>3 DEF PassesApart, AllSettled
<1>8. PassSetUp'
  BY <1>1 DEF PassSetUp, SetUp, EndOfPass
<1>. QED
  BY <1>4, <1>5, <1>6, <1>7, <1>8

LEMMA MainCreateThreadsSafe == ASSUME TypeInv, SafeInv, MainCreateThreads PROVE SafeInv'
<1>. USE DEF SafeInv
<1>1. /\ UNCHANGED <<list, sock, key, pend, port, wpkt, sdAccept, pTemp1, run>>
      /\ mpc = "threads" /\ mpc' \in {"socket", "finally"}
  BY DEF MainCreateThreads, Goto
<1>2. run \in Runs /\ list.live = {}
  BY <1>1, RunIsRun DEF TypeInv, Busy, MainSteps, OneConnection, NoContexts
<1>3. wpc \in [Threads -> {"none", "gqcs", "got", "io", "close", "exit"}]
  BY DEF TypeInv, TypeWorker
<1>4. \A i \in DOMAIN port[run] : port[run][i].ctxt = NULL
  BY <1>1, <1>2 DEF OneHolder, Serving
<1>5. \A t \in Threads : /\ wpc'[t] = wpc[t] \/ wpc'[t] = "gqcs"
                         /\ t[1] # run => wpc'[t] = wpc[t]
  BY <1>3 DEF MainCreateThreads
<1>6. AllSettled'
  <2> SUFFICES ASSUME NEW t \in Threads PROVE Settled(t)'
    BY DEF AllSettled
  <2>1. CASE t[1] = run
    <3>1. wpc[t] = "none" /\ wpkt[t].ctxt = NULL
      BY <1>1, <2>1 DEF PassesApart
    <3>. QED
      BY <1>1, <1>4, <1>5, <2>1, <3>1 DEF Settled, Gone
  <2>2. CASE t[1] # run
    BY <1>1, <1>5, <2>2 DEF PassesApart, Settled, Gone
  <2>. QED
    BY <2>1, <2>2
<1>7. SingleContext'
  BY <1>1, SafeFrames
<1>8. OneConnection'
  BY <1>1, <1>2 DEF OneConnection, NoContexts, EndOfPass
<1>9. OneHolder'
  <2>1. \A t \in Threads : ~AtWork(t)'
    BY <1>6 DEF AllSettled, Settled, AtWork, Gone
  <2>2. \A c \in Ctxts : ~InKernel(c)'
    BY <1>1, <1>2 DEF OneHolder, InKernel
  <2>. QED
    BY <1>1, <1>4, <2>1, <2>2 DEF OneHolder
<1>10. PassesApart'
  <2>1. \A t \in Threads : t[1] > run => t[1] # run
    BY <1>2, ThreadRuns DEF Runs
  <2>2. \A t \in Threads : t[1] > run => wpc'[t] = "none" /\ wpkt'[t].ctxt = NULL
    BY <1>1, <1>5, <2>1 DEF PassesApart
  <2>. QED
    BY <1>1, <1>6, <2>2 DEF PassesApart, AllSettled
<1>11. PassSetUp'
  <2>1. g_ThreadHandles[ThreadCount] = NoThread
    BY <1>1 DEF PassSetUp, SetUp, EndOfPass
  <2>2. CASE g_hIOCP' = INVALID /\ mpc' = "finally" /\ UNCHANGED g_ThreadHandles
    BY <1>1, <1>2, <1>6, <2>1, <2>2 DEF PassSetUp, SetUp, EndOfPass
  <2>3. CASE /\ g_hIOCP' = run
             /\ openPorts' = openPorts \cup {run}
             /\ \E n \in 0..ThreadCount :
                  /\ g_ThreadHandles' = [i \in 1..ThreadCount |->
                                           IF i <= n THEN <<run, i>> ELSE g_ThreadHandles[i]]
                  /\ mpc' = IF n = ThreadCount THEN "socket" ELSE "finally"
    <3>1. PICK n \in 0..ThreadCount :
             /\ g_ThreadHandles' = [i \in 1..ThreadCount |->
                                      IF i <= n THEN <<run, i>> ELSE g_ThreadHandles[i]]
             /\ mpc' = IF n = ThreadCount THEN "socket" ELSE "finally"
      BY <2>3
    <3>2. CASE n = ThreadCount
      <4>1. \A i \in 1..ThreadCount : g_ThreadHandles'[i] = <<run, i>>
        BY <3>1, <3>2
      <4>. QED
        BY <1>1, <2>3, <3>1, <3>2, <4>1 DEF PassSetUp, SetUp, EndOfPass
    <3>3. CASE n # ThreadCount
      <4>1. g_ThreadHandles'[ThreadCount] = NoThread
        BY <2>1, <3>1, <3>3
      <4>. QED
        BY <1>1, <1>2, <1>6, <2>3, <3>1, <3>3, <4>1 DEF PassSetUp, SetUp, EndOfPass
    <3>. QED
      BY <3>2, <3>3
  <2>. QED
    BY <2>2, <2>3 DEF MainCreateThreads, Goto
<1>. QED
  BY <1>7, <1>8, <1>9, <1>10, <1>11

\* Whether a thread meets a context again depends on threads and ports only.
LEMMA SettledStays ==
  ASSUME UNCHANGED <<wpc, wpkt, port>>
  PROVE  (\A t \in Threads : Settled(t)' <=> Settled(t)) /\ (AllSettled' <=> AllSettled)
BY DEF AllSettled, Settled, Gone

LEMMA MainAcceptSafe ==
  ASSUME TypeInv, SafeInv, MainAcceptCall \/ MainAccept, TypeInv' PROVE SafeInv'
<1>. USE DEF SafeInv
<1>1. /\ UNCHANGED <<list, key, pend, port, run, wpc, wpkt, g_hIOCP, openPorts, g_ThreadHandles, pTemp1>>
      /\ mpc \in {"accept", "accepting"}
  BY DEF MainAcceptCall, MainAccept, worker
<1>2. CASE mpc = "accept" /\ mpc' = "accepting" /\ UNCHANGED <<sdAccept, sock>>
  BY <1>1, <1>2, Tidy
<1>3. CASE mpc' = "finally" /\ sdAccept' = NULL /\ UNCHANGED sock
  <2>1. SingleContext'
    BY <1>1, <1>3, SafeFrames
  <2>2. OneConnection'
    BY <1>1, <1>3 DEF OneConnection, NoContexts, EndOfPass
  <2>3. OneHolder'
    <3>1. \A c \in Ctxts : ~WithMain(c)'
      BY <1>3 DEF WithMain
    <3>2. list.live \subseteq Ctxts /\ mpc \in Serving
      BY <1>1 DEF TypeInv, TypeList, List, Serving
    <3>. QED
      BY <1>1, <1>3, <3>1, <3>2 DEF OneHolder, InKernel, AtWork, Serving
  <2>4. PassesApart'
    BY <1>1, <1>3, SettledStays DEF PassesApart, Serving
  <2>5. PassSetUp'
    BY <1>1, <1>3, SettledStays DEF PassSetUp, SetUp, EndOfPass
  <2>. QED
    BY <2>1, <2>2, <2>3, <2>4, <2>5
<1>4. ASSUME NEW c \in Ctxts, sock[c] = "backlog", sdAccept' = c,
             sock' = [sock EXCEPT ![c] = "open"], mpc = "accepting", mpc' = "update"
      PROVE  SafeInv'
  <2>1. list.live = {}
    BY <1>4 DEF OneConnection, TypeInv, TypeList, List
  <2>2. sock'[c] = "open" /\ \A d \in Ctxts : d # c => sock'[d] = sock[d] /\ sock[d] \notin {"backlog", "open"}
    BY <1>4 DEF OneConnection, TypeInv, TypeSock
  <2>3. SingleContext'
    BY <1>1, <1>4, SafeFrames
  <2>4. OneConnection'
    BY <1>1, <1>4, <2>1, <2>2 DEF OneConnection, NoContexts, EndOfPass
  <2>5. OneHolder'
    BY <1>1, <1>4, <2>1 DEF OneHolder, InKernel, AtWork, Serving
  <2>6. PassesApart'
    BY <1>1, <1>4, SettledStays DEF PassesApart, Serving
  <2>7. PassSetUp'
    BY <1>1, <1>4, SettledStays DEF PassSetUp, SetUp, EndOfPass
  <2>. QED
    BY <2>3, <2>4, <2>5, <2>6, <2>7
<1>. QED
  BY <1>2, <1>3, <1>4 DEF MainAcceptCall, MainAccept, Goto

LEMMA MainUpdateSafe ==
  ASSUME TypeInv, SafeInv, MainUpdate, "ioctxt" \notin Failures PROVE SafeInv'
<1>. USE DEF SafeInv
<1>1. /\ UNCHANGED <<sock, pend, port, run, wpc, wpkt, openPorts, g_ThreadHandles, sdAccept, pTemp1>>
      /\ mpc = "update" /\ mpc' \in {"check", "finally"}
  BY DEF MainUpdate, UpdateCompletionPort, Goto, worker
<1>2. /\ sdAccept \in Ctxts /\ sdAccept \notin list.live /\ sock[sdAccept] = "open"
      /\ list \in List /\ key \in [Ctxts -> Runs \cup {INVALID}]
  BY <1>1 DEF TypeInv, AcceptedSocket, TypeList, TypeIo, Pointer, OneConnection
<1>3. list.live = {}
  BY <1>2 DEF OneConnection, List
<1>4. ~list.uaf /\ list.g_pCtxtList = NULL
  BY <1>3 DEF SingleContext
<1>5. /\ \A c \in Ctxts : ~InKernel(c)
      /\ \A t \in Threads : ~AtWork(t)
      /\ \A i \in DOMAIN port[run] : port[run][i].ctxt = NULL
  BY <1>1, <1>3 DEF OneHolder, Serving
<1>6. OneHolder'
  BY <1>1, <1>5 DEF OneHolder, InKernel, AtWork
<1>7. CASE UNCHANGED <<list, key>> /\ mpc' = "finally" /\ g_hIOCP' \in {g_hIOCP, INVALID}
  <2>1. SingleContext'
    BY <1>1, <1>7, SafeFrames
  <2>2. OneConnection'
    BY <1>1, <1>7 DEF OneConnection, NoContexts, EndOfPass
  <2>3. PassesApart'
    BY <1>1, <1>7, SettledStays DEF PassesApart, Serving
  <2>4. PassSetUp'
    BY <1>1, <1>7, SettledStays DEF PassSetUp, SetUp, EndOfPass
  <2>. QED
    BY <1>6, <2>1, <2>2, <2>3, <2>4
<1>8. CASE /\ list' = CtxtListAddTo(CtxtAllocate(list, sdAccept), sdAccept)
           /\ key' = [key EXCEPT ![sdAccept] = g_hIOCP]
           /\ mpc' = "check" /\ UNCHANGED g_hIOCP
  <2>1. /\ ~list'.uaf /\ list'.live = {sdAccept} /\ list'.g_pCtxtList = sdAccept
        /\ list'.pCtxtBack[sdAccept] = NULL /\ list'.pCtxtForward[sdAccept] = NULL
    BY <1>2, <1>3, <1>4, <1>8, AddedFirst
  <2>2. key'[sdAccept] = run
    BY <1>1, <1>2, <1>8 DEF PassSetUp, SetUp
  <2>3. SingleContext'
    BY <1>8, <2>1 DEF SingleContext
  <2>4. OneConnection'
    BY <1>1, <1>2, <1>8, <2>1, <2>2 DEF OneConnection, NoContexts
  <2>5. PassesApart'
    BY <1>1, <1>8, SettledStays DEF PassesApart, Serving
  <2>6. PassSetUp'
    BY <1>1, <1>8 DEF PassSetUp, SetUp, EndOfPass
  <2>. QED
    BY <1>6, <2>3, <2>4, <2>5, <2>6
<1>. QED
  BY <1>7, <1>8 DEF MainUpdate, UpdateCompletionPort, Goto, ioctxt

LEMMA MainRecvSafe == ASSUME TypeInv, SafeInv, MainRecv PROVE SafeInv'
<1>. USE DEF SafeInv
<1>1. /\ UNCHANGED <<key, run, wpc, wpkt, g_hIOCP, openPorts, g_ThreadHandles, sdAccept, pTemp1>>
      /\ mpc = "recv" /\ mpc' = "accept"
  BY DEF MainRecv, Goto, worker
<1>2. sdAccept \in list.live /\ list.live = {sdAccept} /\ sdAccept \in Ctxts /\ WithMain(sdAccept)
  BY <1>1, OnlyContext DEF OneConnection, WithMain
<1>3. /\ \A c \in Ctxts : ~InKernel(c)
      /\ \A t \in Threads : ~AtWork(t)
      /\ \A i \in DOMAIN port[run] : port[run][i].ctxt = NULL
  BY <1>1, <1>2 DEF OneHolder, Serving
<1>4. UNCHANGED port => PassesApart'
  BY <1>1, SettledStays DEF PassesApart, Serving
<1>5. UNCHANGED port => PassSetUp'
  BY <1>1, SettledStays DEF PassSetUp, SetUp, EndOfPass
<1>6. CASE Post(sdAccept, "recv", 0, RecvLen) /\ UNCHANGED <<list, sock, port>>
  <2>1. SingleContext'
    BY <1>1, <1>6, SafeFrames
  <2>2. OneConnection'
    BY <1>1, <1>2, <1>6 DEF OneConnection, NoContexts, EndOfPass
  <2>3. OneHolder'
    <3>1. \A c \in Ctxts : InKernel(c)' => c = sdAccept
      BY <1>3, <1>6 DEF InKernel, Post, TypeInv, TypePend
    <3>2. \A c \in Ctxts : ~WithMain(c)'
      BY <1>1 DEF WithMain
    <3>. QED
      BY <1>1, <1>2, <1>3, <1>6, <3>1, <3>2 DEF OneHolder, AtWork
  <2>. QED
    BY <1>4, <1>5, <1>6, <2>1, <2>2, <2>3
<1>7. CASE CloseClient(sdAccept)
  <2>1. /\ ~list'.uaf /\ list'.live = {} /\ list'.g_pCtxtList = NULL
        /\ sock' = [sock EXCEPT ![sdAccept] = "closed"] /\ UNCHANGED <<port, pend>>
    BY <1>2, <1>3, <1>7, CloseOnly
  <2>2. SingleContext'
    BY <1>1, <2>1 DEF SingleContext
  <2>3. \A d \in Ctxts : sock'[d] \notin {"backlog", "open"}
    BY <1>2, <2>1 DEF OneConnection, TypeInv, TypeSock
  <2>4. OneConnection'
    BY <1>1, <2>1, <2>3 DEF OneConnection
  <2>5. OneHolder'
    BY <1>1, <1>3, <2>1 DEF OneHolder, InKernel, AtWork
  <2>. QED
    BY <1>4, <1>5, <2>1, <2>2, <2>4, <2>5
<1>. QED
  BY <1>6, <1>7 DEF MainRecv

LEMMA PostedNull ==
  ASSUME NEW s \in Seq(Packet)
  PROVE  \A i \in DOMAIN (s \o ExitPackets) :
           \/ i \in DOMAIN s /\ (s \o ExitPackets)[i] = s[i]
           \/ (s \o ExitPackets)[i].ctxt = NULL
<1>1. ExitPackets \in Seq(Packet) /\ \A i \in DOMAIN ExitPackets : ExitPackets[i] = NullPacket
  BY DEF ExitPackets, NullPacket, Packet, Pointer
<1> DEFINE e == ExitPackets
<1>2. ASSUME NEW i \in DOMAIN (s \o e)
      PROVE  \/ i \in DOMAIN s /\ (s \o e)[i] = s[i]
             \/ \E j \in DOMAIN e : (s \o e)[i] = e[j]
  <2>. HIDE DEF e
  <2>1. e \in Seq(Packet)
    BY <1>1 DEF e
  <2>2. CASE i \in DOMAIN s
    BY <2>1, <2>2
  <2>3. CASE i \notin DOMAIN s
    <3>1. i - Len(s) \in DOMAIN e /\ (s \o e)[i] = e[i - Len(s)]
      BY <1>2, <2>1, <2>3
    <3>. QED
      BY <3>1
  <2>. QED
    BY <2>2, <2>3
<1>3. NullPacket.ctxt = NULL
  BY DEF NullPacket
<1>. QED
  BY <1>1, <1>2, <1>3

LEMMA MainPostSafe == ASSUME TypeInv, SafeInv, MainPost PROVE SafeInv'
<1>. USE DEF SafeInv
<1>1. /\ UNCHANGED <<list, sock, key, pend, run, wpc, wpkt, g_hIOCP, openPorts, g_ThreadHandles,
                     sdAccept, pTemp1>>
      /\ mpc = "post" /\ mpc' = "wait"
      /\ port' = IF g_hIOCP = INVALID THEN port ELSE [port EXCEPT ![g_hIOCP] = @ \o ExitPackets]
  BY DEF MainPost, Goto, worker
<1>2. /\ port \in [Runs -> Seq(Packet)] /\ g_hIOCP \in {run, INVALID} /\ run \in Runs
  BY <1>1, RunIsRun DEF TypeInv, TypePort, PassSetUp, EndOfPass, Busy, MainSteps
<1>3. ASSUME NEW r \in Runs
      PROVE  /\ \A i \in DOMAIN port'[r] : \/ i \in DOMAIN port[r] /\ port'[r][i] = port[r][i]
                                           \/ port'[r][i].ctxt = NULL
             /\ r # run => port'[r] = port[r]
  <2>1. CASE r = g_hIOCP /\ g_hIOCP # INVALID
    <3>1. port'[r] = port[r] \o ExitPackets /\ port[r] \in Seq(Packet) /\ r = run
      BY <1>1, <1>2, <2>1
    <3>. QED
      BY <3>1, PostedNull
  <2>2. CASE ~(r = g_hIOCP /\ g_hIOCP # INVALID)
    <3>1. port'[r] = port[r]
      BY <1>1, <1>2, <2>2
    <3>. QED
      BY <3>1
  <2>. QED
    BY <2>1, <2>2
<1>4. \A t \in Threads : Settled(t) => Settled(t)'
  BY <1>1, <1>3, ThreadRuns DEF Settled, Gone
<1>5. SingleContext'
  BY <1>1, SafeFrames
<1>6. OneConnection'
  BY <1>1 DEF OneConnection, NoContexts, EndOfPass
<1>7. OneHolder'
  <2>1. \A i \in DOMAIN port'[run] : port'[run][i].ctxt # NULL =>
          i \in DOMAIN port[run] /\ port'[run][i] = port[run][i]
    BY <1>2, <1>3
  <2>2. \A c : WithMain(c)' <=> WithMain(c)
    BY <1>1 DEF WithMain
  <2>3. \A c : InKernel(c)' <=> InKernel(c)
    BY <1>1 DEF InKernel
  <2>4. \A t : AtWork(t)' <=> AtWork(t)
    BY <1>1 DEF AtWork
  <2>5. mpc \in Serving /\ mpc' \in Serving
    BY <1>1 DEF Serving
  <2>. QED
    BY <1>1, <2>1, <2>2, <2>3, <2>4, <2>5 DEF OneHolder
<1>8. PassesApart'
  <2>1. \A r \in Runs : r > run => port'[r] = <<>>
    <3>1. \A r \in Runs : r > run => r # run
      BY <1>2 DEF Runs
    <3>. QED
      BY <1>3, <3>1 DEF PassesApart
  <2>. QED
    BY <1>1, <1>4, <2>1 DEF PassesApart, Serving
<1>9. PassSetUp'
  <2>1. AllSettled => AllSettled'
    BY <1>4 DEF AllSettled
  <2>. QED
    BY <1>1, <2>1 DEF PassSetUp, SetUp, EndOfPass
<1>. QED
  BY <1>5, <1>6, <1>7, <1>8, <1>9

\* The wait ends when the threads of this pass have: a thread handle that is
\* not valid means that they never met a context.
LEMMA MainWaitSafe == ASSUME TypeInv, SafeInv, MainWait, ~Timeouts PROVE SafeInv'
<1>. USE DEF SafeInv
<1>1. /\ UNCHANGED <<list, sock, key, pend, port, run, wpc, wpkt, g_hIOCP, openPorts, sdAccept, pTemp1>>
      /\ mpc = "wait" /\ mpc' = "free"
  BY DEF MainWait, Goto, worker
<1>2. run \in Runs /\ run \in Nat \ {0}
  BY <1>1, RunIsRun DEF TypeInv, Busy, MainSteps, Runs
<1>3. /\ AllSettled
      /\ list.live # {} => \A t \in Threads : t[1] = run => Gone(t)
      /\ g_ThreadHandles'[ThreadCount] = NoThread
  <2>1. ThreadCount \in 1..ThreadCount
    OBVIOUS
  <2>2. CASE \A i \in 1..ThreadCount : g_ThreadHandles[i] = <<run, i>>
    <3>1. \A i \in 1..ThreadCount : g_ThreadHandles[i] # NoThread
      BY <1>2, <2>2 DEF NoThread
    <3>2. /\ \A i \in 1..ThreadCount : wpc[<<run, i>>] = "exit"
          /\ g_ThreadHandles' = [i \in 1..ThreadCount |-> NoThread]
      BY <2>2, <3>1 DEF MainWait
    <3>3. \A t \in Threads : t[1] = run => Gone(t)
      BY <3>2 DEF Threads, Gone
    <3>. QED
      BY <1>2, <2>1, <3>2, <3>3 DEF PassesApart, AllSettled, Settled
  <2>3. CASE g_ThreadHandles[ThreadCount] = NoThread /\ AllSettled /\ list.live = {}
    BY <2>1, <2>3 DEF MainWait
  <2>. QED
    BY <1>1, <2>2, <2>3 DEF PassSetUp, EndOfPass
<1>4. SingleContext'
  BY <1>1, SafeFrames
<1>5. OneConnection'
  BY <1>1 DEF OneConnection, NoContexts, EndOfPass
<1>6. OneHolder'
  <2>1. \A t \in Threads : ~AtWork(t)'
    BY <1>1, <1>3 DEF AllSettled, Settled, AtWork, Gone
  <2>2. \A c : WithMain(c)' <=> WithMain(c)
    BY <1>1 DEF WithMain
  <2>3. \A c : InKernel(c)' <=> InKernel(c)
    BY <1>1 DEF InKernel
  <2>4. mpc' \notin Serving
    BY <1>1 DEF Serving
  <2>. QED
    BY <1>1, <2>1, <2>2, <2>3, <2>4 DEF OneHolder
<1>7. AllSettled'
  BY <1>1, <1>3, SettledStays
<1>8. PassesApart'
  <2>1. list.live # {} => \A t \in Threads : t[1] = run => Gone(t)'
    BY <1>1, <1>3 DEF Gone
  <2>. QED
    BY <1>1, <1>7, <2>1 DEF PassesApart, AllSettled
<1>9. PassSetUp'
  BY <1>1, <1>3 DEF PassSetUp, SetUp, EndOfPass
<1>. QED
  BY <1>4, <1>5, <1>6, <1>8, <1>9

LEMMA CtxtListFreeEnterSafe == ASSUME TypeInv, SafeInv, CtxtListFreeEnter PROVE SafeInv'
<1>. USE DEF SafeInv
<1>1. /\ UNCHANGED <<list, sock, key, pend, port, run, wpc, wpkt, g_hIOCP, openPorts,
                     g_ThreadHandles, sdAccept>>
      /\ mpc = "free" /\ mpc' = "walk" /\ pTemp1' = list.g_pCtxtList
  BY DEF CtxtListFreeEnter, Goto, worker
<1>2. SingleContext'
  BY <1>1 DEF SingleContext
<1>3. OneConnection'
  BY <1>1 DEF OneConnection, NoContexts, EndOfPass
<1>4. OneHolder'
  BY <1>1 DEF OneHolder, InKernel, AtWork, WithMain, Serving
<1>5. PassesApart'
  BY <1>1, SettledStays DEF PassesApart, Serving, Gone
<1>6. PassSetUp'
  BY <1>1 DEF PassSetUp, SetUp, EndOfPass
<1>. QED
  BY <1>2, <1>3, <1>4, <1>5, <1>6

\* A packet for the only context goes to the port of this pass.
LEMMA CompletedHere ==
  ASSUME TypeInv, NEW c \in Ctxts, key[c] = run, run \in Runs,
         NEW size \in 0..MAX_BUFF_SIZE, NEW ok \in BOOLEAN, Completed(c, size, ok)
  PROVE  /\ \A r \in Runs : r # run => port'[r] = port[r]
         /\ \A i \in DOMAIN port'[run] :
              \/ i \in DOMAIN port[run] /\ port'[run][i] = port[run][i]
              \/ i = Len(port[run]) + 1 /\ port'[run][i].ctxt = c
<1> DEFINE s == port[run]
           p == [ctxt |-> c, size |-> size, ok |-> ok]
<1>1. port \in [Runs -> Seq(Packet)] /\ p \in Packet /\ p.ctxt = c
  BY DEF TypeInv, TypePort, Packet, Pointer
<1>2. port' = [port EXCEPT ![run] = Append(s, p)]
  BY DEF Completed
<1>3. \A r \in Runs : r # run => port'[r] = port[r]
  BY <1>1, <1>2
<1>4. port'[run] = Append(s, p) /\ s \in Seq(Packet)
  BY <1>1, <1>2
<1>. HIDE DEF s, p
<1>5. \A i \in DOMAIN Append(s, p) :
        (i \in DOMAIN s /\ Append(s, p)[i] = s[i]) \/ (i = Len(s) + 1 /\ Append(s, p)[i] = p)
  BY <1>1, <1>4
<1>. QED
  BY <1>1, <1>3, <1>4, <1>5 DEF s

LEMMA CtxtListFreeStepSafe == ASSUME TypeInv, SafeInv, CtxtListFreeStep PROVE SafeInv'
<1>. USE DEF SafeInv
<1>1. /\ UNCHANGED <<key, run, wpc, wpkt, g_hIOCP, openPorts, g_ThreadHandles, sdAccept, mpc>>
      /\ mpc = "walk" /\ pTemp1 # NULL /\ pTemp1' = list.pCtxtBack[pTemp1] /\ CloseClient(pTemp1)
  BY DEF CtxtListFreeStep, worker
<1>2. run \in Runs
  BY <1>1, RunIsRun DEF TypeInv, Busy, MainSteps
<1>3. pTemp1 \in list.live /\ list.live = {pTemp1} /\ pTemp1 \in Ctxts /\ list.pCtxtBack[pTemp1] = NULL
  <2>1. pTemp1 \in list.live
    BY <1>1 DEF SingleContext
  <2>. QED
    BY <2>1, OnlyContext DEF SingleContext
<1>4. /\ ~list'.uaf /\ list'.live = {} /\ list'.g_pCtxtList = NULL
      /\ sock' = [sock EXCEPT ![pTemp1] = "closed"]
      /\ ~InKernel(pTemp1) => UNCHANGED <<port, pend>>
      /\ InKernel(pTemp1) => Completed(pTemp1, 0, FALSE) /\ pend' = [pend EXCEPT ![pTemp1] = Idle]
  BY <1>1, <1>3, CloseOnly
<1>5. SingleContext'
  BY <1>1, <1>3, <1>4 DEF SingleContext
<1>6. OneConnection'
  <2>1. \A d \in Ctxts : sock'[d] \notin {"backlog", "open"}
    BY <1>3, <1>4 DEF OneConnection, TypeInv, TypeSock
  <2>. QED
    BY <1>1, <1>4, <2>1 DEF OneConnection
<1>7. OneHolder'
  <2>1. ASSUME NEW c \in Ctxts PROVE ~InKernel(c)'
    <3>1. pend \in [Ctxts -> Operation]
      BY DEF TypeInv, TypePend
    <3>2. InKernel(c) => c = pTemp1
      BY <1>3 DEF OneHolder
    <3>3. Idle.op = "none"
      BY DEF Idle
    <3>. QED
      BY <1>3, <1>4, <3>1, <3>2, <3>3 DEF InKernel
  <2>2. \A t \in Threads : ~AtWork(t)'
    BY <1>1 DEF PassesApart, AllSettled, Settled, AtWork, Gone, Serving
  <2>3. mpc' \notin Serving
    BY <1>1 DEF Serving
  <2>. QED
    BY <2>1, <2>2, <2>3 DEF OneHolder
<1>8. \A r \in Runs : r # run => port'[r] = port[r]
  <2>1. key[pTemp1] = run /\ 0 \in 0..MAX_BUFF_SIZE
    BY <1>3 DEF OneConnection
  <2>2. CASE InKernel(pTemp1)
    BY <1>2, <1>3, <1>4, <2>1, <2>2, CompletedHere
  <2>3. CASE ~InKernel(pTemp1)
    BY <1>4, <2>3
  <2>. QED
    BY <2>2, <2>3
<1>9. PassesApart'
  <2>1. \A t \in Threads : t[1] = run => Gone(t)
    BY <1>1, <1>3 DEF PassesApart
  <2>2. \A t \in Threads : Settled(t)'
    BY <1>1, <1>8, <2>1, ThreadRuns DEF PassesApart, AllSettled, Settled, Gone, Serving
  <2>3. \A r \in Runs : r > run => port'[r] = <<>>
    <3>1. \A r \in Runs : r > run => r # run
      BY <1>2 DEF Runs
    <3>. QED
      BY <1>8, <3>1 DEF PassesApart
  <2>. QED
    BY <1>1, <1>4, <2>2, <2>3 DEF PassesApart, AllSettled
<1>10. PassSetUp'
  BY <1>1 DEF PassSetUp, SetUp, EndOfPass
<1>. QED
  BY <1>5, <1>6, <1>7, <1>9, <1>10

LEMMA ClosingSafe == ASSUME TypeInv, SafeInv, MainClosePort \/ MainCloseSockets PROVE SafeInv'
<1>. USE DEF SafeInv
<1>1. /\ UNCHANGED <<list, key, pend, port, run, wpc, wpkt, g_ThreadHandles, pTemp1>>
      /\ \/ mpc = "closePort" /\ mpc' = "closeSockets" /\ UNCHANGED <<sock, sdAccept>>
         \/ mpc = "closeSockets" /\ mpc' = "test" /\ sdAccept' = NULL
  BY DEF MainClosePort, MainCloseSockets, Goto, worker
<1>2. list.live = {}
  BY <1>1 DEF OneConnection, NoContexts
<1>3. SingleContext'
  BY <1>1, SafeFrames
<1>4. OneConnection'
  <2>1. CASE mpc = "closePort"
    BY <1>1, <2>1 DEF OneConnection, NoContexts, EndOfPass
  <2>2. CASE mpc = "closeSockets"
    <3>1. \A c \in Ctxts : sock'[c] = sock[c] \/ sock'[c] = "closed"
      BY <1>1, <2>2 DEF MainClosePort, MainCloseSockets
    <3>2. \A c \in Ctxts : c = sdAccept => sock'[c] = "closed"
      BY <1>1, <2>2 DEF MainClosePort, MainCloseSockets, LastAccepted
    <3>3. \A c \in Ctxts : sock[c] = "open" => c = sdAccept
      BY <1>2 DEF OneConnection
    <3>. QED
      BY <1>1, <1>2, <2>2, <3>1, <3>2, <3>3 DEF OneConnection
  <2>. QED
    BY <1>1, <2>1, <2>2
<1>5. OneHolder'
  BY <1>1, <1>2 DEF OneHolder, InKernel, AtWork, Serving
<1>6. PassesApart'
  BY <1>1, <1>2, SettledStays DEF PassesApart, Serving
<1>7. PassSetUp'
  BY <1>1 DEF PassSetUp, SetUp, EndOfPass
<1>. QED
  BY <1>3, <1>4, <1>5, <1>6, <1>7

LEMMA HandlerSafe ==
  ASSUME TypeInv, SafeInv, CtrlEvent \/ CtrlHandler PROVE SafeInv'
<1>. USE DEF SafeInv
<1>1. /\ UNCHANGED <<list, key, pend, port, run, wpc, wpkt, g_hIOCP, openPorts, g_ThreadHandles,
                     sdAccept, pTemp1, mpc>>
      /\ \A c \in Ctxts : sock'[c] = sock[c] \/ (sock[c] = "backlog" /\ sock'[c] = "closed")
  <2>1. CASE ~CtrlClose
    BY <2>1 DEF CtrlEvent, CtrlHandler, CtrlTake, CtrlInvalidate, CtrlEnd, main, worker
  <2>2. CASE CtrlClose
    BY <2>2 DEF CtrlClose, CloseListener, main, worker
  <2>. QED
    BY <2>1, <2>2
<1>2. OneConnection'
  <2>1. list.live \subseteq Ctxts /\ (mpc = "update" => sdAccept \in Ctxts)
    BY DEF TypeInv, TypeList, List, AcceptedSocket, Pointer
  <2>. QED
    BY <1>1, <2>1 DEF OneConnection
<1>. QED
  BY <1>1, <1>2, SafeFrames

\* GetQueuedCompletionStatus: a thread of this pass may become the holder of
\* the context whose packet it takes; one of an earlier pass takes NULL keys only.
LEMMA WorkerGetSafe ==
  ASSUME TypeInv, SafeInv, NEW t \in Threads, WorkerGet(t) PROVE SafeInv'
<1>. USE DEF SafeInv
<1>1. /\ UNCHANGED <<list, sock, key, pend, run, g_hIOCP, openPorts, g_ThreadHandles, sdAccept,
                     pTemp1, mpc>>
      /\ wpc[t] = "gqcs"
      /\ wpc' = [wpc EXCEPT ![t] = IF wpkt'[t].ctxt = NULL THEN "exit" ELSE "got"]
      /\ \A u \in Threads : u # t => wpkt'[u] = wpkt[u]
  BY DEF WorkerGet, main, TypeInv, TypeWorker
<1>2. /\ wpc \in [Threads -> {"none", "gqcs", "got", "io", "close", "exit"}]
      /\ wpkt \in [Threads -> Packet] /\ port \in [Runs -> Seq(Packet)] /\ t[1] \in Runs
  BY ThreadRuns DEF TypeInv, TypeWorker, TypePort
<1>3. /\ wpc'[t] = IF wpkt'[t].ctxt = NULL THEN "exit" ELSE "got"
      /\ \A u \in Threads : u # t => wpc'[u] = wpc[u]
  BY <1>1, <1>2
<1>4. /\ \A r \in Runs : r # t[1] => port'[r] = port[r]
      /\ port'[t[1]] \in Seq(Packet)
      /\ \/ port'[t[1]] = port[t[1]] /\ t[1] \notin openPorts /\ wpkt'[t].ctxt = wpkt[t].ctxt
         \/ /\ 1 \in DOMAIN port[t[1]] /\ wpkt'[t] = port[t[1]][1]
            /\ \A i \in DOMAIN port'[t[1]] :
                 i + 1 \in DOMAIN port[t[1]] /\ i + 1 # 1 /\ port'[t[1]][i] = port[t[1]][i + 1]
  <2>1. CASE port[t[1]] # <<>> /\ wpkt' = [wpkt EXCEPT ![t] = Head(port[t[1]])]
             /\ port' = [port EXCEPT ![t[1]] = Tail(@)]
    <3>1. wpkt'[t] = Head(port[t[1]]) /\ port'[t[1]] = Tail(port[t[1]]) /\ port[t[1]] \in Seq(Packet)
          /\ \A r \in Runs : r # t[1] => port'[r] = port[r]
      BY <1>2, <2>1
    <3> DEFINE s == port[t[1]]
    <3>2. s \in Seq(Packet) /\ s # <<>> /\ port'[t[1]] = Tail(s) /\ wpkt'[t] = Head(s)
      BY <2>1, <3>1
    <3>. HIDE DEF s
    <3>3. /\ 1 \in DOMAIN s /\ Head(s) = s[1] /\ Tail(s) \in Seq(Packet)
          /\ \A i \in DOMAIN Tail(s) : i + 1 \in DOMAIN s /\ i + 1 # 1 /\ Tail(s)[i] = s[i + 1]
      BY <3>2
    <3>4. /\ 1 \in DOMAIN s /\ wpkt'[t] = s[1] /\ port'[t[1]] \in Seq(Packet)
          /\ \A i \in DOMAIN port'[t[1]] :
               i + 1 \in DOMAIN s /\ i + 1 # 1 /\ port'[t[1]][i] = s[i + 1]
      BY <3>2, <3>3
    <3>. QED
      BY <3>1, <3>4 DEF s
  <2>2. CASE t[1] \notin openPorts /\ wpkt' = [wpkt EXCEPT ![t].ok = FALSE] /\ UNCHANGED port
    <3>1. wpkt'[t] = [wpkt[t] EXCEPT !.ok = FALSE] /\ wpkt[t] \in Packet
      BY <1>2, <2>2
    <3>2. wpkt'[t].ctxt = wpkt[t].ctxt
      BY <3>1 DEF Packet
    <3>. QED
      BY <1>2, <2>2, <3>2
  <2>3. \/ /\ port[t[1]] # <<>> /\ wpkt' = [wpkt EXCEPT ![t] = Head(port[t[1]])]
           /\ port' = [port EXCEPT ![t[1]] = Tail(@)]
        \/ t[1] \notin openPorts /\ wpkt' = [wpkt EXCEPT ![t].ok = FALSE] /\ UNCHANGED port
    BY DEF WorkerGet
  <2>. QED
    BY <2>1, <2>2, <2>3
<1>5. \A u \in Threads : Settled(u) => Settled(u)'
  <2> SUFFICES ASSUME NEW u \in Threads, Settled(u) PROVE Settled(u)'
    OBVIOUS
  <2>1. u[1] \in Runs
    BY ThreadRuns
  <2>2. (\A i \in DOMAIN port[u[1]] : port[u[1]][i].ctxt = NULL)
          => \A i \in DOMAIN port'[u[1]] : port'[u[1]][i].ctxt = NULL
    BY <1>4, <2>1
  <2>3. CASE u = t
    BY <1>1, <1>3, <1>4, <2>3 DEF Settled, Gone
  <2>4. CASE u # t
    BY <1>1, <1>3, <2>2, <2>4 DEF Settled, Gone
  <2>. QED
    BY <2>3, <2>4
<1>6. SingleContext' /\ OneConnection'
  BY <1>1, SafeFrames
<1>7. PassesApart'
  <2>1. ~(t[1] > run) /\ ~(t[1] = run /\ mpc = "threads")
    BY <1>1 DEF PassesApart
  <2>2. \A r \in Runs : r > run => port'[r] = <<>>
    BY <1>1, <1>4, <2>1 DEF PassesApart
  <2>3. \A u \in Threads : u[1] > run \/ (u[1] = run /\ mpc = "threads") => u # t
    BY <2>1
  <2>4. mpc \notin Serving => AllSettled'
    BY <1>5 DEF PassesApart, AllSettled
  <2>5. \A u \in Threads : Gone(u) => Gone(u)'
    BY <1>1, <1>3 DEF Gone
  <2>. QED
    BY <1>1, <1>3, <1>5, <2>2, <2>3, <2>4, <2>5 DEF PassesApart
<1>8. PassSetUp'
  <2>1. AllSettled => AllSettled'
    BY <1>5 DEF AllSettled
  <2>. QED
    BY <1>1, <2>1 DEF PassSetUp
<1>9. OneHolder'
  <2>1. (\A c : WithMain(c)' <=> WithMain(c)) /\ (\A c : InKernel(c)' <=> InKernel(c))
    BY <1>1 DEF WithMain, InKernel
  <2>2. \A u \in Threads : u # t => (AtWork(u)' <=> AtWork(u)) /\ wpkt'[u] = wpkt[u]
    BY <1>1, <1>3 DEF AtWork
  <2>3. CASE Settled(t)
    <3>1. ~AtWork(t)' /\ ~AtWork(t)
      BY <1>1, <1>5, <2>3 DEF Settled, AtWork, Gone
    <3>2. mpc \in Serving => run \in Runs
      BY RunIsRun DEF TypeInv, Busy, MainSteps, Serving
    <3>3. ASSUME mpc \in Serving, NEW i \in DOMAIN port'[run], port'[run][i].ctxt # NULL
          PROVE  run # t[1]
      <4>1. run = t[1] => \A j \in DOMAIN port[run] : port[run][j].ctxt = NULL
        BY <1>1, <2>3 DEF Settled, Gone
      <4>. QED
        BY <1>4, <3>3, <4>1
    <3>4. mpc \in Serving => \A i \in DOMAIN port'[run] : port'[run][i].ctxt # NULL => port'[run] = port[run]
      BY <1>4, <3>2, <3>3
    <3>5. \A u \in Threads : AtWork(u)' =>
            mpc \in Serving /\ \A i \in DOMAIN port'[run] : port'[run][i].ctxt = NULL
      BY <2>2, <3>1, <3>4 DEF OneHolder
    <3>6. \A u \in Threads : AtWork(u)' => AtWork(u) /\ wpkt'[u] = wpkt[u]
      BY <2>2, <3>1
    <3>. QED
      BY <1>1, <2>1, <3>4, <3>5, <3>6 DEF OneHolder
  <2>4. CASE ~Settled(t)
    <3>1. t[1] = run /\ mpc \in Serving /\ run \in Runs
      BY <1>2, <2>4 DEF PassesApart, AllSettled
    <3>2. /\ 1 \in DOMAIN port[run] /\ wpkt'[t] = port[run][1]
          /\ \A i \in DOMAIN port'[run] :
               i + 1 \in DOMAIN port[run] /\ i + 1 # 1 /\ port'[run][i] = port[run][i + 1]
      <4>1. run \in openPorts
        <5>1. mpc # "threads"
          BY <1>1, <3>1 DEF PassesApart
        <5>. QED
          BY <2>4, <3>1, <5>1 DEF PassSetUp, AllSettled, Serving, SetUp, EndOfPass
      <4>. QED
        BY <1>4, <3>1, <4>1
    <3>3. CASE wpkt'[t].ctxt = NULL
      <4>1. ~AtWork(t)'
        BY <1>3, <3>3 DEF AtWork
      <4>2. \A u \in Threads : AtWork(u)' => AtWork(u) /\ wpkt'[u] = wpkt[u]
        BY <2>2, <4>1
      <4>3. ASSUME NEW i \in DOMAIN port'[run], port'[run][i].ctxt # NULL
            PROVE  /\ port'[run][i].ctxt \in list.live
                   /\ ~WithMain(port'[run][i].ctxt) /\ ~InKernel(port'[run][i].ctxt)
                   /\ \A j \in DOMAIN port'[run] : port'[run][j].ctxt # NULL => i = j
        <5>1. i + 1 \in DOMAIN port[run] /\ port[run][i + 1].ctxt # NULL
              /\ port'[run][i] = port[run][i + 1]
          BY <3>2, <4>3
        <5>2. \A j \in DOMAIN port'[run] : port'[run][j].ctxt # NULL => i + 1 = j + 1
          BY <3>1, <3>2, <5>1 DEF OneHolder
        <5>3. \A j \in DOMAIN port'[run] : i \in Int /\ j \in Int
          <6>1. port'[run] \in Seq(Packet)
            BY <1>4, <3>1
          <6>. QED
            BY <6>1
        <5>4. \A j \in DOMAIN port'[run] : port'[run][j].ctxt # NULL => i = j
          BY <5>2, <5>3
        <5>. QED
          BY <3>1, <5>1, <5>4 DEF OneHolder
      <4>4. \A u \in Threads : AtWork(u)' => \A i \in DOMAIN port'[run] : port'[run][i].ctxt = NULL
        BY <3>2, <4>2 DEF OneHolder
      <4>. QED
        BY <1>1, <2>1, <4>2, <4>3, <4>4 DEF OneHolder
    <3>4. CASE wpkt'[t].ctxt # NULL
      <4>1. /\ wpkt'[t].ctxt \in list.live
            /\ ~WithMain(wpkt'[t].ctxt) /\ ~InKernel(wpkt'[t].ctxt)
            /\ \A j \in DOMAIN port[run] : port[run][j].ctxt # NULL => 1 = j
        BY <3>1, <3>2, <3>4 DEF OneHolder
      <4>2. \A i \in DOMAIN port'[run] : port'[run][i].ctxt = NULL
        BY <3>2, <4>1
      <4>3. \A u \in Threads : ~AtWork(u)
        BY <3>2, <3>4 DEF OneHolder
      <4>4. \A u \in Threads : AtWork(u)' => u = t
        BY <2>2, <4>3
      <4>. QED
        BY <1>1, <2>1, <3>1, <4>1, <4>2, <4>4 DEF OneHolder
    <3>. QED
      BY <3>3, <3>4
  <2>. QED
    BY <2>3, <2>4
<1>. QED
  BY <1>6, <1>7, <1>8, <1>9

\* A worker that has a context: all others have none.
LEMMA WorkerAlone ==
  ASSUME TypeInv, SafeInv, NEW t \in Threads, AtWork(t)
  PROVE  /\ mpc \in Serving /\ t[1] = run /\ wpkt[t].ctxt \in list.live
         /\ list.live = {wpkt[t].ctxt} /\ wpkt[t].ctxt \in Ctxts
         /\ ~WithMain(wpkt[t].ctxt) /\ \A c \in Ctxts : ~InKernel(c)
         /\ \A i \in DOMAIN port[run] : port[run][i].ctxt = NULL
         /\ \A u \in Threads : AtWork(u) => u = t
         /\ ~Settled(t) /\ mpc # "threads"
<1>1. wpkt[t].ctxt \in list.live /\ mpc \in Serving /\ t[1] = run
  BY DEF SafeInv, OneHolder
<1>2. list.live = {wpkt[t].ctxt} /\ wpkt[t].ctxt \in Ctxts
  BY <1>1, OnlyContext DEF SafeInv
<1>3. ~Settled(t) /\ mpc # "threads"
  BY <1>1, <1>2 DEF Settled, Gone, AtWork, SafeInv, OneConnection, NoContexts
<1>. QED
  BY <1>1, <1>2, <1>3 DEF SafeInv, OneHolder

\* What does not depend on the thread that has a context.
LEMMA WorkerMoves ==
  ASSUME TypeInv, SafeInv, NEW t \in Threads, AtWork(t),
         UNCHANGED <<port, run, wpkt, mpc, g_hIOCP, openPorts, g_ThreadHandles>>,
         \A u \in Threads : u # t => wpc'[u] = wpc[u], list'.live \subseteq list.live
  PROVE  PassesApart' /\ PassSetUp'
<1>1. mpc \in Serving /\ t[1] = run /\ list.live # {} /\ ~Settled(t) /\ mpc # "threads"
  BY WorkerAlone
<1>2. \A u \in Threads : Settled(u) => Settled(u)'
  BY <1>1 DEF Settled, Gone
<1>3. PassesApart'
  <2>1. run \in Nat
    BY <1>1, RunIsRun DEF TypeInv, Busy, MainSteps, Serving, Runs
  <2>2. ~(t[1] > run)
    BY <1>1, <2>1
  <2>. QED
    BY <1>1, <1>2, <2>2 DEF PassesApart, SafeInv, Serving
<1>4. PassSetUp'
  BY <1>1 DEF PassSetUp, SafeInv, SetUp, EndOfPass, AllSettled
<1>. QED
  BY <1>3, <1>4

LEMMA WorkerCheckSafe ==
  ASSUME TypeInv, SafeInv, NEW t \in Threads, WorkerCheck(t) PROVE SafeInv'
<1>1. /\ UNCHANGED <<list, sock, key, pend, port, run, wpkt, g_hIOCP, openPorts, g_ThreadHandles,
                     sdAccept, pTemp1, mpc>>
      /\ AtWork(t) /\ \A u \in Threads : u # t => wpc'[u] = wpc[u]
  BY DEF WorkerCheck, main, AtWork, TypeInv, TypeWorker
<1>2. PassesApart' /\ PassSetUp'
  BY <1>1, WorkerMoves
<1>3. SingleContext' /\ OneConnection'
  BY <1>1, SafeFrames DEF SafeInv
<1>4. OneHolder'
  <2>1. \A u \in Threads : AtWork(u)' => AtWork(u)
    BY <1>1 DEF AtWork
  <2>2. (\A c : WithMain(c)' <=> WithMain(c)) /\ (\A c : InKernel(c)' <=> InKernel(c))
    BY <1>1 DEF WithMain, InKernel
  <2>. QED
    BY <1>1, <2>1, <2>2 DEF OneHolder, SafeInv
<1>. QED
  BY <1>2, <1>3, <1>4 DEF SafeInv

LEMMA WorkerIoSafe ==
  ASSUME TypeInv, SafeInv, NEW t \in Threads, WorkerIo(t) PROVE SafeInv'
<1> DEFINE c == wpkt[t].ctxt
<1>1. AtWork(t)
  BY DEF WorkerIo, AtWork
<1>2. /\ mpc \in Serving /\ t[1] = run /\ list.live = {c} /\ c \in Ctxts
      /\ ~WithMain(c) /\ \A d \in Ctxts : ~InKernel(d)
      /\ \A i \in DOMAIN port[run] : port[run][i].ctxt = NULL
      /\ \A u \in Threads : AtWork(u) => u = t
  BY <1>1, WorkerAlone
<1>3. IoRead(t, c, wpkt[t].size) \/ IoWrite(t, c, wpkt[t].size)
  BY <1>2 DEF WorkerIo
<1>4. /\ UNCHANGED <<list, sock, key, port, run, wpkt, g_hIOCP, openPorts, g_ThreadHandles,
                     sdAccept, pTemp1, mpc>>
  BY <1>2 DEF WorkerIo, main
<1>5. PICK op, off, len : Issue(t, c, op, off, len)
  BY <1>3, Zenon DEF IoRead, IoWrite
<1>6. \/ Post(c, op, off, len) /\ wpc' = [wpc EXCEPT ![t] = "gqcs"]
      \/ wpc' = [wpc EXCEPT ![t] = "close"] /\ UNCHANGED pend
  BY <1>5 DEF Issue
<1>. HIDE DEF c
<1>7. wpc \in [Threads -> {"none", "gqcs", "got", "io", "close", "exit"}] /\ pend \in [Ctxts -> Operation]
  BY DEF TypeInv, TypeWorker, TypePend
<1>8. \A u \in Threads : u # t => wpc'[u] = wpc[u]
  BY <1>6, <1>7
<1>9. PassesApart' /\ PassSetUp'
  BY <1>1, <1>4, <1>8, WorkerMoves
<1>10. SingleContext' /\ OneConnection'
  BY <1>4, SafeFrames DEF SafeInv
<1>11. OneHolder'
  <2>1. \A d : WithMain(d)' <=> WithMain(d)
    BY <1>4 DEF WithMain
  <2>2. CASE Post(c, op, off, len) /\ wpc' = [wpc EXCEPT ![t] = "gqcs"]
    <3>1. \A u \in Threads : ~AtWork(u)'
      BY <1>2, <1>7, <2>2 DEF AtWork
    <3>2. \A d \in Ctxts : InKernel(d)' => d = c
      BY <1>2, <1>7, <2>2 DEF InKernel, Post
    <3>. QED
      BY <1>2, <1>4, <2>1, <3>1, <3>2 DEF OneHolder
  <2>3. CASE wpc' = [wpc EXCEPT ![t] = "close"] /\ UNCHANGED pend
    <3>1. \A u \in Threads : AtWork(u)' => u = t
      BY <1>2, <1>7, <2>3 DEF AtWork
    <3>2. \A d \in Ctxts : ~InKernel(d)'
      BY <1>2, <2>3 DEF InKernel
    <3>. QED
      BY <1>2, <1>4, <2>1, <3>1, <3>2 DEF OneHolder, c
  <2>. QED
    BY <1>6, <2>2, <2>3
<1>. QED
  BY <1>9, <1>10, <1>11 DEF SafeInv

LEMMA WorkerCloseSafe ==
  ASSUME TypeInv, SafeInv, NEW t \in Threads, WorkerClose(t) PROVE SafeInv'
<1> DEFINE c == wpkt[t].ctxt
<1>1. AtWork(t) /\ CloseClient(c)
  BY DEF WorkerClose, AtWork
<1>2. /\ mpc \in Serving /\ t[1] = run /\ list.live = {c} /\ c \in Ctxts
      /\ ~WithMain(c) /\ \A d \in Ctxts : ~InKernel(d)
      /\ \A i \in DOMAIN port[run] : port[run][i].ctxt = NULL
      /\ \A u \in Threads : AtWork(u) => u = t
  BY <1>1, WorkerAlone
<1>3. /\ UNCHANGED <<key, run, wpkt, g_hIOCP, openPorts, g_ThreadHandles, sdAccept, pTemp1, mpc>>
      /\ wpc' = [wpc EXCEPT ![t] = "gqcs"]
  BY DEF WorkerClose, main
<1>. HIDE DEF c
<1>4. /\ ~list'.uaf /\ list'.live = {} /\ list'.g_pCtxtList = NULL
      /\ sock' = [sock EXCEPT ![c] = "closed"] /\ UNCHANGED <<port, pend>>
  BY <1>1, <1>2, CloseOnly DEF SafeInv
<1>5. wpc \in [Threads -> {"none", "gqcs", "got", "io", "close", "exit"}]
  BY DEF TypeInv, TypeWorker
<1>6. PassesApart' /\ PassSetUp'
  <2>1. \A u \in Threads : u # t => wpc'[u] = wpc[u]
    BY <1>3, <1>5
  <2>. QED
    BY <1>1, <1>3, <1>4, <2>1, WorkerMoves
<1>7. SingleContext'
  BY <1>2, <1>3, <1>4 DEF SingleContext, Serving
<1>8. OneConnection'
  <2>1. \A d \in Ctxts : sock'[d] \notin {"backlog", "open"}
    BY <1>2, <1>4 DEF SafeInv, OneConnection, TypeInv, TypeSock
  <2>2. mpc \notin {"check", "recv"}
    BY <1>2 DEF SafeInv, OneConnection, WithMain
  <2>3. mpc # "update"
    <3>1. sock[c] = "open"
      BY <1>2 DEF SafeInv, OneConnection
    <3>2. mpc = "update" => sdAccept \in Ctxts /\ sock[sdAccept] = "open" /\ sdAccept # c
      BY <1>2 DEF SafeInv, OneConnection, TypeInv, AcceptedSocket, TypeList, Pointer
    <3>. QED
      BY <1>2, <3>1, <3>2 DEF SafeInv, OneConnection
  <2>. QED
    BY <1>3, <1>4, <2>1, <2>2, <2>3 DEF OneConnection
<1>9. OneHolder'
  <2>1. \A u \in Threads : ~AtWork(u)'
    BY <1>2, <1>3, <1>5 DEF AtWork
  <2>2. \A d \in Ctxts : ~InKernel(d)'
    BY <1>2, <1>4 DEF InKernel
  <2>. QED
    BY <1>2, <1>3, <1>4, <2>1, <2>2 DEF OneHolder
<1>. QED
  BY <1>6, <1>7, <1>8, <1>9 DEF SafeInv

\* An operation ends: its packet is the only one of the pass.
LEMMA KernelSafe ==
  ASSUME TypeInv, SafeInv, NEW c \in Ctxts, Kernel(c) PROVE SafeInv'
<1>1. /\ UNCHANGED <<list, sock, key, run, wpc, wpkt, g_hIOCP, openPorts, g_ThreadHandles,
                     sdAccept, pTemp1, mpc>>
      /\ InKernel(c) /\ pend' = [pend EXCEPT ![c] = Idle]
  BY DEF Kernel, CompleteRecv, CompleteSend, main, worker, InKernel
<1>2. c \in list.live /\ list.live = {c} /\ key[c] = run /\ ~WithMain(c)
  <2>1. c \in list.live /\ ~WithMain(c)
    BY <1>1 DEF SafeInv, OneHolder
  <2>. QED
    BY <2>1, OnlyContext DEF SafeInv, OneConnection
<1>3. mpc \in Serving \cup {"free", "walk"} /\ mpc # "threads" /\ run \in Runs /\ run \in Nat
  <2>1. mpc \in MainSteps /\ mpc \notin NoContexts
    BY <1>2 DEF SafeInv, OneConnection, TypeInv, TypeMain
  <2>. QED
    BY <2>1, RunIsRun DEF TypeInv, Busy, MainSteps, Serving, NoContexts, Runs
<1>4. \E size \in 0..MAX_BUFF_SIZE, ok \in BOOLEAN : Completed(c, size, ok)
  <2>1. pend[c].len \in 0..MAX_BUFF_SIZE /\ nsent[c] \in Nat /\ nrecvd[c] \in Nat
    BY DEF TypeInv, TypePend, Operation, TypeClient
  <2>2. Min2(nsent[c] - nrecvd[c], pend[c].len) \in Int
        /\ Min2(nsent[c] - nrecvd[c], pend[c].len) <= pend[c].len
    BY <2>1 DEF Min2
  <2>3. \A n \in 1..Min2(nsent[c] - nrecvd[c], pend[c].len) : n \in 0..MAX_BUFF_SIZE
    BY <2>1, <2>2
  <2>4. (\A n \in 1..pend[c].len : n \in 0..MAX_BUFF_SIZE) /\ 0 \in 0..MAX_BUFF_SIZE
    BY <2>1
  <2>5. CASE CompleteRecv(c)
    BY <2>3, <2>4, <2>5, Zenon DEF CompleteRecv
  <2>6. CASE CompleteSend(c)
    BY <2>4, <2>6, Zenon DEF CompleteSend
  <2>. QED
    BY <2>5, <2>6 DEF Kernel
<1>5. /\ \A r \in Runs : r # run => port'[r] = port[r]
      /\ \A i \in DOMAIN port'[run] :
           \/ i \in DOMAIN port[run] /\ port'[run][i] = port[run][i]
           \/ i = Len(port[run]) + 1 /\ port'[run][i].ctxt = c
  BY <1>2, <1>3, <1>4, CompletedHere
<1>6. SingleContext' /\ OneConnection'
  BY <1>1, SafeFrames DEF SafeInv
<1>7. \A d \in Ctxts : ~InKernel(d)'
  <2>1. \A d \in Ctxts : InKernel(d) => d = c
    BY <1>2 DEF SafeInv, OneHolder
  <2>2. Idle.op = "none" /\ pend \in [Ctxts -> Operation]
    BY DEF Idle, TypeInv, TypePend
  <2>. QED
    BY <1>1, <2>1, <2>2 DEF InKernel
<1>8. \A t \in Threads : ~AtWork(t)
  BY <1>1, WorkerAlone
<1>9. OneHolder'
  <2>1. mpc \in Serving => \A i \in DOMAIN port[run] : port[run][i].ctxt = NULL
    BY <1>1, <1>2 DEF SafeInv, OneHolder
  <2>2. mpc \in Serving => \A i \in DOMAIN port'[run] :
          port'[run][i].ctxt # NULL => port'[run][i].ctxt = c /\ i = Len(port[run]) + 1
    BY <1>5, <2>1
  <2>3. \A t \in Threads : ~AtWork(t)'
    BY <1>1, <1>8 DEF AtWork
  <2>4. ~WithMain(c)'
    BY <1>1, <1>2 DEF WithMain
  <2>. QED
    BY <1>1, <1>2, <1>7, <2>2, <2>3, <2>4 DEF OneHolder
<1>10. \A t \in Threads : t[1] # run => (Settled(t) => Settled(t)')
  BY <1>1, <1>5, ThreadRuns DEF Settled, Gone
<1>11. \A t \in Threads : Gone(t) => Gone(t)' /\ Settled(t)'
  BY <1>1 DEF Settled, Gone
<1>12. PassesApart'
  <2>1. \A r \in Runs : r > run => port'[r] = <<>>
    <3>1. \A r \in Runs : r > run => r # run
      BY <1>3 DEF Runs
    <3>. QED
      BY <1>5, <3>1 DEF SafeInv, PassesApart
  <2>2. mpc \notin Serving => AllSettled'
    BY <1>2, <1>3, <1>10, <1>11 DEF SafeInv, PassesApart, AllSettled
  <2>. QED
    BY <1>1, <1>2, <1>10, <1>11, <2>1, <2>2 DEF SafeInv, PassesApart
<1>13. PassSetUp'
  BY <1>1, <1>2 DEF SafeInv, PassSetUp
<1>. QED
  BY <1>6, <1>9, <1>12, <1>13 DEF SafeInv

LEMMA ClientSafe ==
  ASSUME TypeInv, SafeInv, OneAtATime, NEW c \in Ctxts, Client(c) PROVE SafeInv'
<1>1. UNCHANGED <<list, key, pend, port, run, wpc, wpkt, g_hIOCP, openPorts, g_ThreadHandles,
                  sdAccept, pTemp1, mpc>>
  BY DEF Client, Connect, ClientSend, ClientClose, main, worker
<1>2. SingleContext' /\ OneHolder' /\ PassesApart' /\ PassSetUp'
  BY <1>1, SafeFrames DEF SafeInv
<1>3. CASE UNCHANGED sock
  BY <1>1, <1>2, <1>3, SafeFrames DEF SafeInv
<1>4. CASE Connect(c)
  <2>1. /\ list.live = {} /\ \A d \in Ctxts : sock[d] \in {"none", "closed"}
        /\ sock' = [sock EXCEPT ![c] = "backlog"]
    BY <1>4 DEF Connect
  <2>2. sock'[c] = "backlog" /\ \A d \in Ctxts : d # c => sock'[d] \in {"none", "closed"}
    BY <2>1 DEF TypeInv, TypeSock
  <2>3. mpc # "update"
    BY <2>1 DEF SafeInv, OneConnection, TypeInv, AcceptedSocket, TypeList, Pointer
  <2>4. OneConnection'
    BY <1>1, <2>1, <2>2, <2>3 DEF SafeInv, OneConnection
  <2>. QED
    BY <1>2, <2>4 DEF SafeInv
<1>. QED
  BY <1>3, <1>4 DEF Client, ClientSend, ClientClose

LEMMA InitSafe == Init => SafeInv
<1> SUFFICES ASSUME Init PROVE SafeInv
  OBVIOUS
<1> USE DEF Init
<1>1. SingleContext
  BY DEF SingleContext, EmptyList
<1>2. OneConnection
  BY DEF OneConnection, EmptyList, EndOfPass
<1>3. \A t \in Threads : wpc[t] = "none" /\ wpkt[t].ctxt = NULL
  BY DEF NullPacket
<1>4. OneHolder
  <2>1. \A c \in Ctxts : ~InKernel(c)
    BY DEF InKernel, Idle
  <2>. QED
    BY <1>3, <2>1 DEF OneHolder, AtWork, Serving
<1>5. PassesApart
  BY <1>3 DEF PassesApart, AllSettled, Settled, Gone, Serving, EmptyList
<1>6. PassSetUp
  BY DEF PassSetUp, SetUp, EndOfPass
<1>. QED
  BY <1>1, <1>2, <1>4, <1>5, <1>6 DEF SafeInv

LEMMA StepSafe == ASSUME OneByOne PROVE TypeInv /\ SafeInv /\ [Next]_vars => SafeInv'
<1> SUFFICES ASSUME TypeInv, SafeInv, [Next]_vars PROVE SafeInv'
  OBVIOUS
<1>1. TypeInv'
  BY StepTypeInv
<1>2. OneAtATime /\ ~Timeouts /\ "ioctxt" \notin Failures
  BY DEF OneByOne
<1>3. CASE UNCHANGED vars
  BY <1>3, SafeFrames DEF SafeInv, vars, main, worker
<1>4. CASE MainTest \/ MainClearRestart \/ CreateListenSocket1 \/ CreateListenSocket2
             \/ MainCheckEnd \/ MainFinally \/ CtxtListFreeLeave
  BY <1>4, Tidy DEF MainTest, MainClearRestart, CreateListenSocket1, CreateListenSocket2,
     MainCheckEnd, MainFinally, CtxtListFreeLeave, Goto, worker
<1>5. CASE Main
  BY <1>1, <1>2, <1>4, <1>5, MainClearEndSafe, MainCreateThreadsSafe, MainAcceptSafe, MainUpdateSafe,
     MainRecvSafe, MainPostSafe, MainWaitSafe, CtxtListFreeEnterSafe, CtxtListFreeStepSafe, ClosingSafe
     DEF Main
<1>6. ASSUME NEW t \in Threads, Worker(t) PROVE SafeInv'
  BY <1>6, WorkerGetSafe, WorkerCheckSafe, WorkerIoSafe, WorkerCloseSafe DEF Worker
<1>7. CASE CtrlEvent \/ CtrlHandler
  BY <1>7, HandlerSafe
<1>8. ASSUME NEW c \in Ctxts, Kernel(c) \/ Client(c) PROVE SafeInv'
  BY <1>2, <1>8, KernelSafe, ClientSafe
<1>. QED
  BY <1>3, <1>5, <1>6, <1>7, <1>8 DEF Next

\* SafeIInv holds in every reachable state: where connections do not overlap,
\* the wait for the workers has no timeout and CtxtAllocate returns no context
\* that it freed, one of main, kernel, port and workers has the only context,
\* and no thread of an earlier pass will meet one (main, CtxtListFree).
THEOREM SafeInvariance == Spec => []SafeIInv
<1>1. ASSUME OneByOne PROVE Spec => [](TypeInv /\ SafeInv)
  <2>1. Init => TypeInv /\ SafeInv
    BY InitTypeInv, InitSafe
  <2>2. TypeInv /\ SafeInv /\ [Next]_vars => (TypeInv /\ SafeInv)'
    BY <1>1, StepTypeInv, StepSafe
  <2>. QED
    BY <2>1, <2>2, PTL DEF Spec
<1>2. CASE OneByOne
  <2>1. TypeInv /\ SafeInv => SafeIInv
    BY DEF SafeIInv
  <2>. QED
    BY <1>1, <1>2, <2>1, PTL
<1>3. CASE ~OneByOne
  <2>1. SafeIInv
    BY <1>3 DEF SafeIInv
  <2>. QED
    BY <2>1, PTL
<1>. QED
  BY <1>2, <1>3

\* NoUseAfterFree of the echo server, for any number of connections, workers,
\* console events and passes, one connection after the other: no thread follows
\* a pointer to a context that was freed.
THEOREM NothingDangles == ASSUME OneByOne PROVE Spec => []NoUseAfterFree
<1>1. SafeIInv => NoUseAfterFree
  BY DEF SafeIInv, SafeInv, SingleContext, NoUseAfterFree
<1>. QED
  BY <1>1, SafeInvariance, PTL

\* CleanShutdown of the echo server under the same assumptions: when main has
\* returned, no context is left allocated and no accepted socket is left open.
THEOREM NothingLeft == ASSUME OneByOne PROVE Spec => []CleanShutdown
<1>1. SafeIInv => CleanShutdown
  BY DEF SafeIInv, SafeInv, OneConnection, NoContexts, EndOfPass, CleanShutdown
<1>. QED
  BY <1>1, SafeInvariance, PTL

LEMMA ToldToLeaveKept == ToldToLeave /\ [Next]_vars => ToldToLeave'
<1> SUFFICES ASSUME ToldToLeave, [Next]_vars PROVE ToldToLeave'
  OBVIOUS
<1>. USE DEF ToldToLeave
<1>1. CASE UNCHANGED <<mpc, g_bEndServer>>
  BY <1>1
<1>2. CASE UNCHANGED vars
  BY <1>1, <1>2 DEF vars, flags, main
<1>3. CASE MainTest \/ MainClearRestart \/ MainClearEnd \/ MainFinally \/ MainClosePort
           \/ MainCloseSockets \/ CtxtListFreeLeave
  BY <1>3 DEF MainTest, MainClearRestart, MainClearEnd, MainFinally, MainClosePort,
              MainCloseSockets, CtxtListFreeLeave, Goto
<1>4. CASE MainCreateThreads \/ CreateListenSocket1 \/ CreateListenSocket2 \/ MainAcceptCall
           \/ MainAccept \/ MainCheckEnd \/ MainRecv
  BY <1>4 DEF MainCreateThreads, CreateListenSocket1, CreateListenSocket2, MainAcceptCall,
              MainAccept, MainCheckEnd, MainRecv, Goto
<1>5. CASE MainUpdate
  BY <1>5 DEF MainUpdate, UpdateCompletionPort, Goto
<1>6. CASE MainPost \/ MainWait \/ CtxtListFreeEnter \/ CtxtListFreeStep
  BY <1>6 DEF MainPost, MainWait, CtxtListFreeEnter, CtxtListFreeStep, flags, Goto
<1>7. ASSUME NEW t \in Threads, Worker(t) PROVE ToldToLeave'
  BY <1>1, <1>7 DEF Worker, WorkerGet, WorkerCheck, WorkerIo, WorkerClose, flags, main
<1>8. CASE CtrlEvent \/ CtrlHandler
  BY <1>8 DEF CtrlEvent, CtrlHandler, CtrlTake, CtrlInvalidate, CtrlEnd, CtrlClose, flags, main
<1>9. ASSUME NEW c \in Ctxts, Kernel(c) \/ Client(c) PROVE ToldToLeave'
  BY <1>1, <1>9 DEF Kernel, CompleteRecv, CompleteSend, Client, Connect, ClientSend, ClientClose,
                    flags, main
<1>. QED
  BY <1>2, <1>3, <1>4, <1>5, <1>6, <1>7, <1>8, <1>9 DEF Next, Main

\* Contexts are freed by CloseClient only.
LEMMA FreedByClose ==
  ASSUME TypeInv, SafeInv, [Next]_vars, NEW c \in list.live, c \notin list'.live
  PROVE  \/ MainRecv /\ sdAccept = c
         \/ mpc = "walk"
         \/ \E t \in Threads : WorkerClose(t) /\ wpkt[t].ctxt = c
<1>1. list \in List
  BY DEF TypeInv, TypeList
<1>2. ASSUME NEW l \in List, NEW d \in Ctxts
      PROVE  /\ CtxtAllocate(l, d) \in List
             /\ l.live \subseteq CtxtAllocate(l, d).live
             /\ CtxtListAddTo(l, d).live = l.live
             /\ UseAfterFree(l).live = l.live
  BY <1>2, CtxtAllocateType DEF CtxtAllocate, CtxtListAddTo, UseAfterFree, List
<1>3. ASSUME NEW d, CloseClient(d) PROVE d = c
  <2>1. d \in list.live
    BY <1>1, <1>3 DEF CloseClient, UseAfterFree, List
  <2>. QED
    BY <2>1, OnlyContext DEF SafeInv
<1>4. list' # list
  OBVIOUS
<1>5. CASE UNCHANGED vars
  BY <1>4, <1>5 DEF vars
<1>6. CASE Main
  <2>1. CASE MainUpdate
    <3>1. sdAccept \in Ctxts
      BY <2>1 DEF MainUpdate, TypeInv, TypeList, AcceptedSocket, Pointer
    <3>2. CtxtAllocate(list, sdAccept) \in List /\ list.live \subseteq CtxtAllocate(list, sdAccept).live
          /\ CtxtListAddTo(CtxtAllocate(list, sdAccept), sdAccept).live = CtxtAllocate(list, sdAccept).live
          /\ CtxtListAddTo(list, sdAccept).live = list.live
      BY <1>1, <1>2, <3>1
    <3>. QED
      BY <1>4, <2>1, <3>2 DEF MainUpdate, UpdateCompletionPort
  <2>2. CASE MainRecv
    BY <1>3, <1>4, <2>2 DEF MainRecv
  <2>3. CASE CtxtListFreeStep
    BY <2>3 DEF CtxtListFreeStep
  <2>. QED
    BY <1>4, <1>6, <2>1, <2>2, <2>3
       DEF Main, MainTest, MainClearRestart, MainClearEnd, MainCreateThreads, CreateListenSocket1,
           CreateListenSocket2, MainAcceptCall, MainAccept, MainCheckEnd, MainFinally, MainPost,
           MainWait, CtxtListFreeEnter, CtxtListFreeLeave, MainClosePort, MainCloseSockets
<1>7. ASSUME NEW t \in Threads, Worker(t)
      PROVE  WorkerClose(t) /\ wpkt[t].ctxt = c
  <2>1. CASE WorkerClose(t)
    BY <1>3, <2>1 DEF WorkerClose
  <2>2. CASE WorkerIo(t)
    BY <1>1, <1>4, <2>2 DEF WorkerIo, UseAfterFree, List
  <2>. QED
    BY <1>4, <1>7, <2>1, <2>2 DEF Worker, WorkerGet, WorkerCheck
<1>8. CASE CtrlEvent \/ CtrlHandler
  BY <1>4, <1>8 DEF CtrlEvent, CtrlHandler, CtrlTake, CtrlInvalidate, CtrlEnd, CtrlClose
<1>9. ASSUME NEW d \in Ctxts, Kernel(d) \/ Client(d) PROVE FALSE
  BY <1>4, <1>9 DEF Kernel, CompleteRecv, CompleteSend, Client, Connect, ClientSend, ClientClose
<1>. QED
  BY <1>5, <1>6, <1>7, <1>8, <1>9 DEF Next

\* NoFreeInFlight of the echo server under the same assumptions: outside of a
\* shutdown the OVERLAPPED structure of a pending operation is not freed, since
\* whoever closes a context, main or a worker, is the one that holds it.
THEOREM NoneFreedInFlight == ASSUME OneByOne PROVE Spec => NoFreeInFlight
<1>1. ASSUME TypeInv, SafeInv, ToldToLeave, [Next]_vars,
             NEW c \in Ctxts, c \in list.live, c \notin list'.live
      PROVE  pend[c].op = "none" \/ g_bEndServer
  <2>1. CASE MainRecv /\ sdAccept = c
    BY <1>1, <2>1 DEF MainRecv, SafeInv, OneHolder, InKernel, WithMain
  <2>2. CASE mpc = "walk"
    BY <1>1, <2>2 DEF ToldToLeave
  <2>3. ASSUME NEW t \in Threads, WorkerClose(t), wpkt[t].ctxt = c
        PROVE  pend[c].op = "none"
    BY <1>1, <2>3 DEF WorkerClose, AtWork, SafeInv, OneHolder, InKernel
  <2>. QED
    BY <1>1, <2>1, <2>2, <2>3, FreedByClose
<1>2. TypeInv /\ SafeInv /\ ToldToLeave /\ [Next]_vars
        => [\A c \in Ctxts : c \in list.live /\ c \notin list'.live
                               => pend[c].op = "none" \/ g_bEndServer]_vars
  BY <1>1
<1>3. Init => TypeInv /\ SafeInv /\ ToldToLeave
  BY InitTypeInv, InitSafe DEF Init, ToldToLeave
<1>4. TypeInv /\ SafeInv /\ ToldToLeave /\ [Next]_vars => (TypeInv /\ SafeInv /\ ToldToLeave)'
  BY StepTypeInv, StepSafe, ToldToLeaveKept
<1>. QED
  BY <1>2, <1>3, <1>4, PTL DEF Spec, NoFreeInFlight
=============================================================================
