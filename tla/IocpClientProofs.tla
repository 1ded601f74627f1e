--------------------------- MODULE IocpClientProofs ---------------------------
(***************************************************************************)
(* Theorems about IocpClient, for any number of threads and any sizes of   *)
(* the buffers: types, the rounds of a thread do not overlap, and no       *)
(* handle is closed under its thread.                                      *)
(***************************************************************************)
EXTENDS IocpClient, TLAPS

\* The bytes of thread i on their way.
OnWire(i) == wire[i].c2s + wire[i].held + wire[i].s2c

\* Before main starts a thread it has neither a position nor a handle.
MainTurn ==
    /\ mpc \in {"spawn", "socket", "connect", "thread"} =>
         \A i \in ThreadNums : i >= mi => tpc[i] = "none" /\ hThread[i] = "INVALID"
    /\ mpc \in {"socket", "connect", "thread"} => mi < nTotalThreads

\* The handler works on a thread that exists.
HandlerTurn == hpc \in {"handle", "wait"} => hi < nTotalThreads

\* Main raises one CTRL-C itself, all others come from outside.
EventsPaid ==
    /\ pending <= nctrl + 1
    /\ mpc \notin {"event", "done"} => pending <= nctrl

\* Between two rounds nothing is on its way.
RoundOver == \A i \in ThreadNums : tpc[i] \in {"none", "compare"} => OnWire(i) = 0 /\ nTotal[i] = 0

\* The parts of the type invariant that a step moves together.
MainTypes ==
    /\ mpc \in {"spawn", "socket", "connect", "thread", "join", "generate", "event", "done"}
    /\ mi \in 0..nTotalThreads
HandlerTypes ==
    /\ g_bEndClient \in BOOLEAN /\ g_hCleanupEvent \in BOOLEAN
    /\ hpc \in {"idle", "ignore", "end", "close", "handle", "wait", "set"}
    /\ ignored \in BOOLEAN
CountTypes == hi \in 0..nTotalThreads /\ pending \in 0..(MaxCtrl + 1) /\ nctrl \in 0..MaxCtrl
InfoTypes ==
    /\ sd \in [ThreadNums -> {"INVALID", "new", "connected"}]
    /\ hThread \in [ThreadNums -> {"INVALID", "NULL", "open"}]
ThreadTypes ==
    /\ tpc \in [ThreadNums -> {"none", "send", "recv", "compare", "exit"}]
    /\ nTotal \in [ThreadNums -> 0..nBufSize]
WireRecord == [c2s : 0..ToServer, held : 0..ServerBuf, s2c : 0..ToClient, server : BOOLEAN]
WireTypes == wire \in [ThreadNums -> WireRecord]

Types == MainTypes /\ HandlerTypes /\ CountTypes /\ InfoTypes /\ ThreadTypes /\ WireTypes

LEMMA TypeParts == TypeOK <=> Types
  BY DEF TypeOK, Types, MainTypes, HandlerTypes, CountTypes, InfoTypes, ThreadTypes, WireTypes, WireRecord

Turns == MainTurn /\ HandlerTurn /\ EventsPaid
Rounds == RoundOver /\ RoundsApart
IInv == Types /\ Turns /\ Rounds

LEMMA Initially == Init => IInv
<1> SUFFICES ASSUME Init PROVE IInv
  OBVIOUS
<1> USE ClientAssumption DEF Init
<1>1. MainTypes /\ HandlerTypes /\ CountTypes /\ InfoTypes
  <2>1. MainTypes BY DEF MainTypes
  <2>4. HandlerTypes BY DEF HandlerTypes
  <2>2. CountTypes BY DEF CountTypes
  <2>3. InfoTypes BY DEF InfoTypes
  <2> QED BY <2>1, <2>2, <2>3, <2>4
<1>2. ThreadTypes
  BY DEF ThreadTypes
<1>3. NoBytes \in WireRecord
  BY DEF NoBytes, WireRecord
<1>4. WireTypes
  BY <1>3 DEF WireTypes
<1>5. Turns
  BY DEF Turns, MainTurn, HandlerTurn, EventsPaid, ThreadNums
<1>6. Rounds
  BY DEF Rounds, RoundOver, RoundsApart, OnWire, NoBytes
<1> QED BY <1>1, <1>2, <1>4, <1>5, <1>6 DEF IInv, Types

\* Steps that move no thread and no byte keep the rounds.
LEMMA NoRound ==
  ASSUME Rounds, UNCHANGED <<thread, wire>>
  PROVE  ThreadTypes /\ WireTypes => ThreadTypes' /\ WireTypes' /\ Rounds'
  BY DEF Rounds, RoundOver, RoundsApart, OnWire, thread, ThreadTypes, WireTypes

LEMMA MainSteps == ASSUME IInv, Main PROVE IInv'
<1> USE ClientAssumption DEF IInv, Types, main, handler, thread
<1>1. CASE MainSpawn
  <2> USE <1>1 DEF MainSpawn
  <2>1. MainTypes' /\ HandlerTypes' BY DEF MainTypes, HandlerTypes, Turns, MainTurn, ThreadNums
  <2>2. CountTypes' BY DEF CountTypes, Turns, HandlerTurn, EventsPaid
  <2>3. InfoTypes' BY DEF InfoTypes
  <2>4. Turns' BY DEF Turns, MainTurn, HandlerTurn, EventsPaid, MainTypes, HandlerTypes, CountTypes, InfoTypes, ThreadNums
  <2> QED BY <2>1, <2>2, <2>3, <2>4, NoRound
<1>2. CASE MainSocket
  <2> USE <1>2 DEF MainSocket
  <2>1. MainTypes' /\ HandlerTypes' BY DEF MainTypes, HandlerTypes, Turns, MainTurn, ThreadNums
  <2>2. CountTypes' BY DEF CountTypes, Turns, HandlerTurn, EventsPaid
  <2>3. InfoTypes' BY DEF InfoTypes
  <2>4. Turns' BY DEF Turns, MainTurn, HandlerTurn, EventsPaid, MainTypes, HandlerTypes, CountTypes, InfoTypes, ThreadNums
  <2> QED BY <2>1, <2>2, <2>3, <2>4, NoRound
<1>3. CASE MainConnect
  <2> USE <1>3 DEF MainConnect
  <2>1. MainTypes' /\ HandlerTypes' BY DEF MainTypes, HandlerTypes, Turns, MainTurn, ThreadNums
  <2>2. CountTypes' BY DEF CountTypes, Turns, HandlerTurn, EventsPaid
  <2>3. InfoTypes' BY DEF InfoTypes
  <2>4. Turns' BY DEF Turns, MainTurn, HandlerTurn, EventsPaid, MainTypes, HandlerTypes, CountTypes, InfoTypes, ThreadNums
  <2> QED BY <2>1, <2>2, <2>3, <2>4, NoRound
<1>4. CASE MainJoin
  <2> USE <1>4 DEF MainJoin
  <2>1. MainTypes' /\ HandlerTypes' BY DEF MainTypes, HandlerTypes, Turns, MainTurn, ThreadNums
  <2>2. CountTypes' BY DEF CountTypes, Turns, HandlerTurn, EventsPaid
  <2>3. InfoTypes' BY DEF InfoTypes
  <2>4. Turns' BY DEF Turns, MainTurn, HandlerTurn, EventsPaid, MainTypes, HandlerTypes, CountTypes, InfoTypes, ThreadNums
  <2> QED BY <2>1, <2>2, <2>3, <2>4, NoRound
<1>5. CASE MainGenerate
  <2> USE <1>5 DEF MainGenerate
  <2>1. MainTypes' /\ HandlerTypes' BY DEF MainTypes, HandlerTypes, Turns, MainTurn, ThreadNums
  <2>2. CountTypes' BY DEF CountTypes, Turns, HandlerTurn, EventsPaid
  <2>3. InfoTypes' BY DEF InfoTypes
  <2>4. Turns' BY DEF Turns, MainTurn, HandlerTurn, EventsPaid, MainTypes, HandlerTypes, CountTypes, InfoTypes, ThreadNums
  <2> QED BY <2>1, <2>2, <2>3, <2>4, NoRound
<1>6. CASE MainEvent
  <2> USE <1>6 DEF MainEvent
  <2>1. MainTypes' /\ HandlerTypes' BY DEF MainTypes, HandlerTypes, Turns, MainTurn, ThreadNums
  <2>2. CountTypes' BY DEF CountTypes, Turns, HandlerTurn, EventsPaid
  <2>3. InfoTypes' BY DEF InfoTypes
  <2>4. Turns' BY DEF Turns, MainTurn, HandlerTurn, EventsPaid, MainTypes, HandlerTypes, CountTypes, InfoTypes, ThreadNums
  <2> QED BY <2>1, <2>2, <2>3, <2>4, NoRound
<1>7. CASE MainCreateThread
  <2> USE <1>7 DEF MainCreateThread
  <2>1. mi \in ThreadNums /\ tpc[mi] = "none" /\ hThread[mi] = "INVALID"
    BY DEF Turns, MainTurn, MainTypes, ThreadNums
  <2>2. MainTypes' /\ HandlerTypes' BY DEF MainTypes, HandlerTypes, Turns, MainTurn, ThreadNums
  <2>3. CountTypes' /\ WireTypes' BY DEF CountTypes, WireTypes
  <2>4. InfoTypes' BY DEF InfoTypes
  <2>5. ThreadTypes' BY DEF ThreadTypes
  <2>6. MainTurn'
    <3>1. ASSUME NEW i \in ThreadNums, i >= mi', mpc' = "spawn"
          PROVE  i # mi /\ tpc[i] = "none" /\ hThread[i] = "INVALID"
      BY <3>1 DEF Turns, MainTurn, MainTypes, ThreadNums
    <3>2. ASSUME NEW i \in ThreadNums, i >= mi', mpc' = "spawn"
          PROVE  tpc'[i] = "none" /\ hThread'[i] = "INVALID"
      BY <3>1, <3>2 DEF ThreadTypes, InfoTypes
    <3> QED BY <3>2 DEF MainTurn
  <2>7. HandlerTurn' /\ EventsPaid' BY DEF Turns, HandlerTurn, EventsPaid, CountTypes
  <2>8. RoundOver'
    BY <2>1 DEF Rounds, RoundOver, OnWire, ThreadTypes
  <2>9. RoundsApart'
    BY <2>1 DEF Rounds, RoundOver, RoundsApart, OnWire, ThreadTypes
  <2> QED BY <2>2, <2>3, <2>4, <2>5, <2>6, <2>7, <2>8, <2>9 DEF Turns, Rounds
<1> QED BY <1>1, <1>2, <1>3, <1>4, <1>5, <1>6, <1>7 DEF Main

LEMMA HandlerSteps == ASSUME IInv, CtrlEvent \/ CtrlHandler PROVE IInv'
<1> USE ClientAssumption DEF IInv, Types, main, handler, thread
<1>1. CASE CtrlEvent
  <2> USE <1>1 DEF CtrlEvent
  <2>1. MainTypes' /\ HandlerTypes' BY DEF MainTypes, HandlerTypes, Turns, MainTurn, ThreadNums
  <2>2. CountTypes' BY DEF CountTypes, Turns, HandlerTurn, EventsPaid
  <2>3. InfoTypes' BY DEF InfoTypes
  <2>4. Turns' BY DEF Turns, MainTurn, HandlerTurn, EventsPaid, MainTypes, HandlerTypes, CountTypes, InfoTypes, ThreadNums
  <2> QED BY <2>1, <2>2, <2>3, <2>4, NoRound
<1>2. CASE CtrlDeliver
  <2> USE <1>2 DEF CtrlDeliver
  <2>1. MainTypes' /\ HandlerTypes' BY DEF MainTypes, HandlerTypes, Turns, MainTurn, ThreadNums
  <2>2. CountTypes' BY DEF CountTypes, Turns, HandlerTurn, EventsPaid
  <2>3. InfoTypes' BY DEF InfoTypes
  <2>4. Turns' BY DEF Turns, MainTurn, HandlerTurn, EventsPaid, MainTypes, HandlerTypes, CountTypes, InfoTypes, ThreadNums
  <2> QED BY <2>1, <2>2, <2>3, <2>4, NoRound
<1>3. CASE CtrlIgnore
  <2> USE <1>3 DEF CtrlIgnore
  <2>1. MainTypes' /\ HandlerTypes' BY DEF MainTypes, HandlerTypes, Turns, MainTurn, ThreadNums
  <2>2. CountTypes' BY DEF CountTypes, Turns, HandlerTurn, EventsPaid
  <2>3. InfoTypes' BY DEF InfoTypes
  <2>4. Turns' BY DEF Turns, MainTurn, HandlerTurn, EventsPaid, MainTypes, HandlerTypes, CountTypes, InfoTypes, ThreadNums
  <2> QED BY <2>1, <2>2, <2>3, <2>4, NoRound
<1>4. CASE CtrlEnd
  <2> USE <1>4 DEF CtrlEnd
  <2>1. MainTypes' /\ HandlerTypes' BY DEF MainTypes, HandlerTypes, Turns, MainTurn, ThreadNums
  <2>2. CountTypes' BY DEF CountTypes, Turns, HandlerTurn, EventsPaid
  <2>3. InfoTypes' BY DEF InfoTypes
  <2>4. Turns' BY DEF Turns, MainTurn, HandlerTurn, EventsPaid, MainTypes, HandlerTypes, CountTypes, InfoTypes, ThreadNums
  <2> QED BY <2>1, <2>2, <2>3, <2>4, NoRound
<1>5. CASE CtrlClose
  <2> USE <1>5 DEF CtrlClose
  <2>1. MainTypes' /\ HandlerTypes' BY DEF MainTypes, HandlerTypes, Turns, MainTurn, ThreadNums
  <2>2. CountTypes' BY DEF CountTypes, Turns, HandlerTurn, EventsPaid
  <2>3. InfoTypes' BY DEF InfoTypes
  <2>4. Turns' BY DEF Turns, MainTurn, HandlerTurn, EventsPaid, MainTypes, HandlerTypes, CountTypes, InfoTypes, ThreadNums
  <2> QED BY <2>1, <2>2, <2>3, <2>4, NoRound
<1>6. CASE CtrlHandle
  <2> USE <1>6 DEF CtrlHandle
  <2>1. MainTypes' /\ HandlerTypes' BY DEF MainTypes, HandlerTypes, Turns, MainTurn, ThreadNums
  <2>2. CountTypes' BY DEF CountTypes, Turns, HandlerTurn, EventsPaid
  <2>3. InfoTypes' BY DEF InfoTypes
  <2>4. Turns' BY DEF Turns, MainTurn, HandlerTurn, EventsPaid, MainTypes, HandlerTypes, CountTypes, InfoTypes, ThreadNums
  <2> QED BY <2>1, <2>2, <2>3, <2>4, NoRound
<1>7. CASE CtrlWait
  <2> USE <1>7 DEF CtrlWait
  <2>1. MainTypes' /\ HandlerTypes' BY DEF MainTypes, HandlerTypes, Turns, MainTurn, ThreadNums
  <2>2. CountTypes' BY DEF CountTypes, Turns, HandlerTurn, EventsPaid
  <2>3. InfoTypes' BY DEF InfoTypes
  <2>4. Turns' BY DEF Turns, MainTurn, HandlerTurn, EventsPaid, MainTypes, HandlerTypes, CountTypes, InfoTypes, ThreadNums
  <2> QED BY <2>1, <2>2, <2>3, <2>4, NoRound
<1>8. CASE CtrlSet
  <2> USE <1>8 DEF CtrlSet
  <2>1. MainTypes' /\ HandlerTypes' BY DEF MainTypes, HandlerTypes, Turns, MainTurn, ThreadNums
  <2>2. CountTypes' BY DEF CountTypes, Turns, HandlerTurn, EventsPaid
  <2>3. InfoTypes' BY DEF InfoTypes
  <2>4. Turns' BY DEF Turns, MainTurn, HandlerTurn, EventsPaid, MainTypes, HandlerTypes, CountTypes, InfoTypes, ThreadNums
  <2> QED BY <2>1, <2>2, <2>3, <2>4, NoRound
<1> QED BY <1>1, <1>2, <1>3, <1>4, <1>5, <1>6, <1>7, <1>8 DEF CtrlHandler

\* What thread i and its connection know of the round.
RoundAt(i) ==
    /\ tpc[i] = "send" => OnWire(i) = nTotal[i]
    /\ tpc[i] = "recv" => OnWire(i) + nTotal[i] = nBufSize
    /\ tpc[i] \in {"none", "compare"} => OnWire(i) = 0 /\ nTotal[i] = 0

LEMMA RoundsAt == Rounds <=> \A i \in ThreadNums : RoundAt(i)
  BY DEF Rounds, RoundOver, RoundsApart, RoundAt, OnWire

\* A step of one thread or connection that keeps its round keeps the invariant.
LEMMA OneRound ==
  ASSUME IInv, NEW i \in ThreadNums,
         UNCHANGED <<g_bEndClient, g_hCleanupEvent, sd, hThread, main, handler>>,
         ThreadTypes', WireTypes',
         \A j \in ThreadNums \ {i} : tpc'[j] = tpc[j] /\ nTotal'[j] = nTotal[j] /\ wire'[j] = wire[j],
         tpc[i] = "none" => tpc'[i] = "none",
         RoundAt(i)'
  PROVE  IInv'
<1> USE DEF main, handler
<1>1. MainTypes' /\ HandlerTypes' /\ CountTypes' /\ InfoTypes'
  BY DEF IInv, Types, MainTypes, HandlerTypes, CountTypes, InfoTypes
<1>2. MainTurn'
  <2>1. \A j \in ThreadNums : tpc[j] = "none" => tpc'[j] = "none"
    OBVIOUS
  <2> QED BY <2>1 DEF IInv, Turns, MainTurn
<1>3. HandlerTurn' /\ EventsPaid'
  BY DEF IInv, Turns, HandlerTurn, EventsPaid
<1>4. \A j \in ThreadNums : RoundAt(j)'
  <2> SUFFICES ASSUME NEW j \in ThreadNums, j # i PROVE RoundAt(j)'
    OBVIOUS
  <2>1. RoundAt(j)
    BY RoundsAt DEF IInv
  <2> QED BY <2>1 DEF RoundAt, OnWire
<1>5. Rounds'
  BY <1>4 DEF Rounds, RoundOver, RoundsApart, RoundAt, OnWire
<1> QED BY <1>1, <1>2, <1>3, <1>5 DEF IInv, Types, Turns

\* The bytes of a thread and its connection as numbers.
LEMMA Amounts ==
  ASSUME IInv, NEW i \in ThreadNums
  PROVE  /\ wire[i].c2s \in 0..ToServer /\ wire[i].held \in 0..ServerBuf /\ wire[i].s2c \in 0..ToClient
         /\ nTotal[i] \in 0..nBufSize
         /\ wire[i].c2s \in Nat /\ wire[i].held \in Nat /\ wire[i].s2c \in Nat /\ nTotal[i] \in Nat
         /\ RoundAt(i)
         /\ wire[i] \in WireRecord /\ tpc \in [ThreadNums -> {"none", "send", "recv", "compare", "exit"}]
         /\ wire \in [ThreadNums -> WireRecord]
<1>1. RoundAt(i)
  BY RoundsAt DEF IInv
<1>2. wire[i] \in WireRecord
  BY DEF IInv, Types, WireTypes
<1>3. nTotal[i] \in 0..nBufSize
  BY DEF IInv, Types, ThreadTypes
<1> QED BY <1>1, <1>2, <1>3, ClientAssumption DEF WireRecord, IInv, Types, ThreadTypes, WireTypes

LEMMA ServerSteps ==
  ASSUME IInv, NEW i \in ThreadNums, Server(i) \/ ServerCloses(i)
  PROVE  IInv'
<1> USE ClientAssumption, Amounts DEF thread, Min2
<1>1. CASE ServerReads(i)
  <2>1. PICK n \in 1..Min2(wire[i].c2s, ServerBuf) :
          wire' = [wire EXCEPT ![i].c2s = @ - n, ![i].held = n]
    BY <1>1 DEF ServerReads
  <2>2. /\ wire[i].held = 0 /\ n \in Nat /\ n <= wire[i].c2s /\ n <= ServerBuf
        /\ UNCHANGED <<g_bEndClient, g_hCleanupEvent, sd, hThread, main, handler, tpc, nTotal>>
    BY <1>1, <2>1 DEF ServerReads
  <2>3. /\ wire'[i].c2s = wire[i].c2s - n /\ wire'[i].held = n /\ wire'[i].s2c = wire[i].s2c
        /\ \A j \in ThreadNums \ {i} : wire'[j] = wire[j]
    BY <2>1 DEF WireRecord
  <2>4. WireTypes'
    BY <2>1, <2>2 DEF WireTypes, WireRecord
  <2>5. ThreadTypes'
    BY <2>2 DEF IInv, Types, ThreadTypes
  <2>6. RoundAt(i)'
    BY <2>2, <2>3 DEF RoundAt, OnWire
  <2> QED BY <2>2, <2>3, <2>4, <2>5, <2>6, OneRound
<1>2. CASE ServerWrites(i)
  <2>1. PICK n \in 1..Min2(wire[i].held, ToClient - wire[i].s2c) :
          wire' = [wire EXCEPT ![i].held = @ - n, ![i].s2c = @ + n]
    BY <1>2 DEF ServerWrites
  <2>2. /\ n \in Nat /\ n <= wire[i].held /\ n <= ToClient - wire[i].s2c
        /\ UNCHANGED <<g_bEndClient, g_hCleanupEvent, sd, hThread, main, handler, tpc, nTotal>>
    BY <1>2, <2>1 DEF ServerWrites
  <2>3. /\ wire'[i].c2s = wire[i].c2s /\ wire'[i].held = wire[i].held - n /\ wire'[i].s2c = wire[i].s2c + n
        /\ \A j \in ThreadNums \ {i} : wire'[j] = wire[j]
    BY <2>1 DEF WireRecord
  <2>4. WireTypes'
    BY <2>1, <2>2 DEF WireTypes, WireRecord
  <2>5. ThreadTypes'
    BY <2>2 DEF IInv, Types, ThreadTypes
  <2>6. RoundAt(i)'
    BY <2>2, <2>3 DEF RoundAt, OnWire
  <2> QED BY <2>2, <2>3, <2>4, <2>5, <2>6, OneRound
<1>3. CASE ServerCloses(i)
  <2>1. /\ wire' = [wire EXCEPT ![i].server = FALSE]
        /\ UNCHANGED <<g_bEndClient, g_hCleanupEvent, sd, hThread, main, handler, tpc, nTotal>>
    BY <1>3 DEF ServerCloses
  <2>2. /\ wire'[i].c2s = wire[i].c2s /\ wire'[i].held = wire[i].held /\ wire'[i].s2c = wire[i].s2c
        /\ \A j \in ThreadNums \ {i} : wire'[j] = wire[j]
    BY <2>1 DEF WireRecord
  <2>3. WireTypes'
    BY <2>1 DEF WireTypes, WireRecord
  <2>4. ThreadTypes'
    BY <2>1 DEF IInv, Types, ThreadTypes
  <2>5. RoundAt(i)'
    BY <2>1, <2>2 DEF RoundAt, OnWire
  <2> QED BY <2>1, <2>2, <2>3, <2>4, <2>5, OneRound
<1> QED BY <1>1, <1>2, <1>3 DEF Server

\* A thread that leaves because its socket failed moves no byte.
LEMMA ThreadLeaves ==
  ASSUME IInv, NEW i \in ThreadNums, tpc[i] # "none",
         tpc' = [tpc EXCEPT ![i] = "exit"], UNCHANGED <<nTotal, wire>>,
         UNCHANGED <<g_bEndClient, g_hCleanupEvent, sd, hThread, main, handler>>
  PROVE  IInv'
<1>1. ThreadTypes' /\ WireTypes'
  BY DEF IInv, Types, ThreadTypes, WireTypes
<1>2. tpc'[i] = "exit" /\ \A j \in ThreadNums \ {i} : tpc'[j] = tpc[j]
  BY DEF IInv, Types, ThreadTypes
<1>3. RoundAt(i)'
  BY <1>2 DEF RoundAt
<1> QED BY <1>1, <1>2, <1>3, OneRound

LEMMA SendStep == ASSUME IInv, NEW i \in ThreadNums, ThreadSend(i) PROVE IInv'
<1> USE ClientAssumption, Amounts DEF thread, Min2
<1>1. CASE Fails(i)
  BY <1>1, ThreadLeaves DEF ThreadSend
<1>2. CASE ~Fails(i)
  <2>1. PICK n \in 1..Min2(nBufSize - nTotal[i], ToServer - wire[i].c2s) :
          /\ wire' = [wire EXCEPT ![i].c2s = @ + n]
          /\ IF nTotal[i] + n < nBufSize
               THEN nTotal' = [nTotal EXCEPT ![i] = @ + n] /\ UNCHANGED tpc
               ELSE nTotal' = [nTotal EXCEPT ![i] = 0] /\ tpc' = [tpc EXCEPT ![i] = "recv"]
    BY <1>2 DEF ThreadSend
  <2>2. /\ tpc[i] = "send" /\ n \in Nat /\ n <= nBufSize - nTotal[i] /\ n <= ToServer - wire[i].c2s
        /\ UNCHANGED <<g_bEndClient, g_hCleanupEvent, sd, hThread, main, handler>>
    BY <1>2, <2>1 DEF ThreadSend
  <2>3. /\ wire'[i].c2s = wire[i].c2s + n /\ wire'[i].held = wire[i].held /\ wire'[i].s2c = wire[i].s2c
        /\ \A j \in ThreadNums \ {i} : wire'[j] = wire[j]
    BY <2>1 DEF WireRecord
  <2>4. WireTypes'
    BY <2>1, <2>2 DEF WireTypes, WireRecord
  <2>5. CASE nTotal[i] + n < nBufSize
    <3>1. nTotal' = [nTotal EXCEPT ![i] = @ + n] /\ UNCHANGED tpc
      BY <2>1, <2>5
    <3>2. ThreadTypes'
      BY <2>2, <2>5, <3>1 DEF IInv, Types, ThreadTypes
    <3>3. nTotal'[i] = nTotal[i] + n /\ \A j \in ThreadNums \ {i} : nTotal'[j] = nTotal[j]
      BY <3>1 DEF IInv, Types, ThreadTypes
    <3>4. RoundAt(i)'
      BY <2>2, <2>3, <3>1, <3>3 DEF RoundAt, OnWire
    <3> QED BY <2>2, <2>3, <2>4, <3>1, <3>2, <3>3, <3>4, OneRound
  <2>6. CASE ~(nTotal[i] + n < nBufSize)
    <3>1. nTotal' = [nTotal EXCEPT ![i] = 0] /\ tpc' = [tpc EXCEPT ![i] = "recv"]
      BY <2>1, <2>6
    <3>2. ThreadTypes'
      BY <2>2, <3>1 DEF IInv, Types, ThreadTypes
    <3>3. /\ nTotal'[i] = 0 /\ tpc'[i] = "recv" /\ nTotal[i] + n = nBufSize
          /\ \A j \in ThreadNums \ {i} : nTotal'[j] = nTotal[j] /\ tpc'[j] = tpc[j]
      BY <2>2, <2>6, <3>1 DEF IInv, Types, ThreadTypes
    <3>4. RoundAt(i)'
      BY <2>2, <2>3, <3>3 DEF RoundAt, OnWire
    <3> QED BY <2>2, <2>3, <2>4, <3>2, <3>3, <3>4, OneRound
  <2> QED BY <2>5, <2>6
<1> QED BY <1>1, <1>2

LEMMA RecvStep == ASSUME IInv, NEW i \in ThreadNums, ThreadRecv(i) PROVE IInv'
<1> USE ClientAssumption, Amounts DEF thread, Min2, RecvDone
<1>1. CASE Fails(i)
  BY <1>1, ThreadLeaves DEF ThreadRecv
<1>2. CASE ~Fails(i)
  <2>1. PICK n \in 1..Min2(nBufSize - nTotal[i], wire[i].s2c) :
          /\ wire' = [wire EXCEPT ![i].s2c = @ - n]
          /\ IF RecvDone(i, n)
               THEN nTotal' = [nTotal EXCEPT ![i] = 0] /\ tpc' = [tpc EXCEPT ![i] = "compare"]
               ELSE nTotal' = [nTotal EXCEPT ![i] = @ + n] /\ UNCHANGED tpc
    BY <1>2 DEF ThreadRecv
  <2>2. /\ tpc[i] = "recv" /\ n \in Nat /\ n <= nBufSize - nTotal[i] /\ n <= wire[i].s2c
        /\ UNCHANGED <<g_bEndClient, g_hCleanupEvent, sd, hThread, main, handler>>
    BY <1>2, <2>1 DEF ThreadRecv
  <2>3. /\ wire'[i].c2s = wire[i].c2s /\ wire'[i].held = wire[i].held /\ wire'[i].s2c = wire[i].s2c - n
        /\ \A j \in ThreadNums \ {i} : wire'[j] = wire[j]
    BY <2>1 DEF WireRecord
  <2>4. WireTypes'
    BY <2>1, <2>2 DEF WireTypes, WireRecord
  <2>5. CASE ~RecvDone(i, n)
    <3>1. nTotal' = [nTotal EXCEPT ![i] = @ + n] /\ UNCHANGED tpc
      BY <2>1, <2>5
    <3>2. ThreadTypes'
      BY <2>2, <2>5, <3>1 DEF IInv, Types, ThreadTypes
    <3>3. nTotal'[i] = nTotal[i] + n /\ \A j \in ThreadNums \ {i} : nTotal'[j] = nTotal[j]
      BY <3>1 DEF IInv, Types, ThreadTypes
    <3>4. RoundAt(i)'
      BY <2>2, <2>3, <3>1, <3>3 DEF RoundAt, OnWire
    <3> QED BY <2>2, <2>3, <2>4, <3>1, <3>2, <3>3, <3>4, OneRound
  <2>6. CASE RecvDone(i, n)
    <3>1. nTotal' = [nTotal EXCEPT ![i] = 0] /\ tpc' = [tpc EXCEPT ![i] = "compare"]
      BY <2>1, <2>6
    <3>2. ThreadTypes'
      BY <2>2, <3>1 DEF IInv, Types, ThreadTypes
    <3>3. /\ nTotal'[i] = 0 /\ tpc'[i] = "compare" /\ nTotal[i] + n = nBufSize
          /\ \A j \in ThreadNums \ {i} : nTotal'[j] = nTotal[j] /\ tpc'[j] = tpc[j]
      BY <2>2, <2>6, <3>1 DEF IInv, Types, ThreadTypes
    <3>4. RoundAt(i)'
      BY <2>2, <2>3, <3>3 DEF RoundAt, OnWire
    <3> QED BY <2>2, <2>3, <2>4, <3>2, <3>3, <3>4, OneRound
  <2> QED BY <2>5, <2>6
<1> QED BY <1>1, <1>2

LEMMA CompareStep == ASSUME IInv, NEW i \in ThreadNums, ThreadCompare(i) PROVE IInv'
<1> USE DEF ThreadCompare
<1>1. ThreadTypes' /\ WireTypes'
  BY DEF IInv, Types, ThreadTypes, WireTypes
<1>2. /\ tpc[i] = "compare" /\ tpc'[i] = "send" /\ nTotal' = nTotal /\ wire' = wire
      /\ \A j \in ThreadNums \ {i} : tpc'[j] = tpc[j]
  BY DEF IInv, Types, ThreadTypes
<1>3. RoundAt(i)'
  BY <1>2, Amounts DEF RoundAt, OnWire
<1> QED BY <1>1, <1>2, <1>3, OneRound

THEOREM Invariance == Spec => []IInv
<1>1. IInv /\ [Next]_vars => IInv'
  <2> SUFFICES ASSUME IInv, [Next]_vars PROVE IInv'
    OBVIOUS
  <2>1. CASE UNCHANGED vars
    <3>1. Types' /\ Turns'
      BY <2>1 DEF vars, main, handler, thread, IInv, Types, MainTypes, HandlerTypes, CountTypes, InfoTypes,
                  ThreadTypes, WireTypes, Turns, MainTurn, HandlerTurn, EventsPaid
    <3>2. Rounds'
      BY <2>1, NoRound DEF vars, IInv, Types
    <3> QED BY <3>1, <3>2 DEF IInv
  <2>2. CASE Next
    BY <2>2, MainSteps, HandlerSteps, ServerSteps, SendStep, RecvStep, CompareStep DEF Next, Thread
  <2> QED BY <2>1, <2>2
<1> QED BY Initially, <1>1, PTL DEF Spec

\* Every variable keeps its type, whatever fails and whenever a console event
\* comes.
THEOREM TypeCorrect == Spec => []TypeOK
<1>1. IInv => TypeOK
  BY TypeParts DEF IInv
<1> QED BY Invariance, <1>1, PTL

\* SendBuffer, RecvBuffer and an echo server that keeps its promise never mix
\* the bytes of two rounds, whatever the sizes of all buffers.
THEOREM RoundsNeverMix == Spec => []RoundsApart
<1>1. IInv => RoundsApart
  BY DEF IInv, Rounds
<1> QED BY Invariance, <1>1, PTL

\* CtrlHandler closes the handle of a thread only when the thread has exited,
\* and main never overwrites the handle of a thread that runs.
THEOREM HandlesOutliveThreads == Spec => HandleOutlivesThread
<1> DEFINE Closes(i) == hThread[i] = "open" /\ hThread'[i] # "open"
<1>1. ASSUME IInv, [Next]_vars, NEW i \in ThreadNums, Closes(i) PROVE tpc[i] = "exit"
  <2>1. CASE MainCreateThread
    <3>1. hThread[mi] = "INVALID" /\ mi \in ThreadNums
      <4>1. mpc = "thread" BY <2>1 DEF MainCreateThread
      <4>2. mi \in ThreadNums
        BY <1>1, <4>1, ClientAssumption DEF IInv, Turns, MainTurn, Types, MainTypes, ThreadNums
      <4> QED BY <1>1, <4>1, <4>2 DEF IInv, Turns, MainTurn, ThreadNums
    <3> QED BY <1>1, <2>1, <3>1 DEF MainCreateThread, IInv, Types, InfoTypes
  <2>2. CASE CtrlWait
    BY <1>1, <2>2 DEF CtrlWait, ThreadGone, IInv, Types, InfoTypes
  <2>3. CASE UNCHANGED hThread
    BY <1>1, <2>3
  <2>4. MainCreateThread \/ CtrlWait \/ UNCHANGED hThread
    BY <1>1 DEF Next, Main, MainSpawn, MainSocket, MainConnect, MainJoin, MainGenerate, MainEvent, CtrlEvent,
                CtrlHandler, CtrlDeliver, CtrlIgnore, CtrlEnd, CtrlClose, CtrlHandle, CtrlSet, Thread,
                ThreadSend, ThreadRecv, ThreadCompare, Server, ServerReads, ServerWrites, ServerCloses, vars
  <2> QED BY <2>1, <2>2, <2>3, <2>4
<1>2. IInv /\ [Next]_vars => [\A i \in ThreadNums : Closes(i) => tpc[i] = "exit"]_vars
  BY <1>1
<1> QED BY Invariance, <1>2, PTL DEF Spec, HandleOutlivesThread
=============================================================================
