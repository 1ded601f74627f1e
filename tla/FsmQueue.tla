------------------------------ MODULE FsmQueue ------------------------------
(***************************************************************************)
(* The priority queues of eleutheria/fsm/fsm.c (fsm_queue_event and        *)
(* fsm_dequeue_event), used by threads as in test_thread.c: producers      *)
(* queue events and one consumer handles them.  A queue is a STAILQ: first *)
(* points to a node, last to the link that ends the list, which is in a    *)
(* node or in the head of the list.  queue_event takes the lock to insert; *)
(* dequeue_event never takes it.                                           *)
(*                                                                         *)
(* Nodes are numbered as they are allocated and not used again.            *)
(*                                                                         *)
(* A definition whose name has a suffix (QueueLock_NoWait) is a wrong      *)
(* variant of the definition that follows it, which some property refutes. *)
(***************************************************************************)
EXTENDS Integers, Sequences, FiniteSets

CONSTANTS
    Producers,
    nqueues,
    MaxEvents,      \* bound: how many events are queued
    Serial,         \* the caller lets nobody queue events during a dequeue
    NOBODY

ASSUME QueueAssumption ==
    /\ nqueues \in Nat \ {0} /\ MaxEvents \in Nat
    /\ Serial \in BOOLEAN /\ NOBODY \notin Producers

Pnodes == 1..MaxEvents
HEAD == 0           \* last points to the head of the list
NIL == 0            \* NULL
Prios == 0..(nqueues - 1)

VARIABLES
    qfirst, qlast, qnext,       \* pqtable and the links of the nodes
    mobj,                       \* the mutex: its holder
    made,                       \* how many nodes were allocated
    qpc, qnode, qprio,          \* fsm_queue_event of each producer
    dpc, dprio, dnode,          \* fsm_dequeue_event
    processed, queued           \* history: events handled, events queued

dequeuing == <<dpc, dprio, dnode, processed>>
queuing == <<mobj, made, qpc, qnode, qprio, queued>>
links == <<qfirst, qlast, qnext>>
queues == <<links, queuing, dequeuing>>

QueuesTypeOK ==
    /\ qfirst \in [Prios -> Pnodes \cup {NIL}] /\ qlast \in [Prios -> Pnodes \cup {HEAD}]
    /\ qnext \in [Pnodes -> Pnodes \cup {NIL}]
    /\ mobj \in Producers \cup {NOBODY} /\ made \in 0..MaxEvents
    /\ qpc \in [Producers -> {"idle", "lock", "link", "tail"}]
    /\ qnode \in [Producers -> Pnodes \cup {NIL}] /\ qprio \in [Producers -> Prios]
    /\ dpc \in {"idle", "scan", "process", "remove", "reset"}
    /\ dprio \in Prios /\ dnode \in Pnodes \cup {NIL}
    /\ processed \in Seq(Pnodes) /\ queued \subseteq Pnodes

QueuesInit ==
    /\ qfirst = [i \in Prios |-> NIL] /\ qlast = [i \in Prios |-> HEAD]
    /\ qnext = [n \in Pnodes |-> NIL]
    /\ mobj = NOBODY /\ made = 0
    /\ qpc = [t \in Producers |-> "idle"]
    /\ qnode = [t \in Producers |-> NIL] /\ qprio = [t \in Producers |-> 0]
    /\ dpc = "idle" /\ dprio = 0 /\ dnode = NIL
    /\ processed = <<>> /\ queued = {}

-----------------------------------------------------------------------------
(* fsm_queue_event *)

QGoto(t, l) == qpc' = [qpc EXCEPT ![t] = l]

\* A node is allocated and filled in before the lock is taken.  (A priority
\* out of range and a failed allocation change nothing.)
QueueCall(t) ==
    /\ qpc[t] = "idle" /\ made < MaxEvents
    /\ Serial => dpc = "idle"
    /\ made' = made + 1
    /\ qnode' = [qnode EXCEPT ![t] = made + 1]
    /\ \E i \in Prios : qprio' = [qprio EXCEPT ![t] = i]
    /\ QGoto(t, "lock")
    /\ UNCHANGED <<links, mobj, queued, dequeuing>>

QueueLock_NoWait(t) ==
    /\ qpc[t] = "lock"
    /\ mobj' = t /\ QGoto(t, "link")
    /\ UNCHANGED <<links, made, qnode, qprio, queued, dequeuing>>
QueueLock(t) ==
    /\ qpc[t] = "lock" /\ mobj = NOBODY
    /\ mobj' = t /\ QGoto(t, "link")
    /\ UNCHANGED <<links, made, qnode, qprio, queued, dequeuing>>

\* STAILQ_INSERT_TAIL: the link that ends the list, then the end of the list.
QueueLink(t) ==
    LET i == qprio[t]  n == qnode[t] IN
    /\ qpc[t] = "link" /\ QGoto(t, "tail")
    /\ IF qlast[i] = HEAD THEN qfirst' = [qfirst EXCEPT ![i] = n] /\ UNCHANGED qnext
                          ELSE qnext' = [qnext EXCEPT ![qlast[i]] = n] /\ UNCHANGED qfirst
    /\ UNCHANGED <<qlast, mobj, made, qnode, qprio, queued, dequeuing>>

QueueTail(t) ==
    /\ qpc[t] = "tail" /\ QGoto(t, "idle")
    /\ qlast' = [qlast EXCEPT ![qprio[t]] = qnode[t]]
    /\ mobj' = NOBODY
    /\ queued' = queued \cup {qnode[t]}
    /\ UNCHANGED <<qfirst, qnext, made, qnode, qprio, dequeuing>>

Producer(t) == QueueCall(t) \/ QueueLock(t) \/ QueueLink(t) \/ QueueTail(t)

-----------------------------------------------------------------------------
(* fsm_dequeue_event *)

\* The scan starts with the biggest priority.
DequeueCall ==
    /\ dpc = "idle"
    /\ Serial => \A t \in Producers : qpc[t] = "idle"
    /\ dpc' = "scan" /\ dprio' = nqueues - 1
    /\ UNCHANGED <<links, queuing, dnode, processed>>

\* FSM_EMPTY when no queue has an event.
DequeueScan ==
    /\ dpc = "scan"
    /\ \/ qfirst[dprio] # NIL /\ dpc' = "process" /\ dnode' = qfirst[dprio] /\ UNCHANGED dprio
       \/ qfirst[dprio] = NIL /\ dprio > 0 /\ dprio' = dprio - 1 /\ UNCHANGED <<dpc, dnode>>
       \/ qfirst[dprio] = NIL /\ dprio = 0 /\ dpc' = "idle" /\ UNCHANGED <<dprio, dnode>>
    /\ UNCHANGED <<links, queuing, processed>>

\* fsm_process_event of the first event, whatever it returns.
DequeueProcess ==
    /\ dpc = "process" /\ dpc' = "remove"
    /\ processed' = Append(processed, dnode)
    /\ UNCHANGED <<links, queuing, dprio, dnode>>

\* STAILQ_REMOVE_HEAD of what is first now: the head of the list, then, if
\* the list is empty, its end.  The node is freed.
DequeueRemove ==
    LET n == qfirst[dprio] IN
    /\ dpc = "remove"
    /\ qfirst' = [qfirst EXCEPT ![dprio] = qnext[n]]
    /\ dnode' = NIL
    /\ dpc' = IF qnext[n] = NIL THEN "reset" ELSE "idle"
    /\ UNCHANGED <<qlast, qnext, queuing, dprio, processed>>

DequeueReset_KeepsEnd ==
    /\ dpc = "reset" /\ dpc' = "idle"
    /\ UNCHANGED <<links, queuing, dprio, dnode, processed>>
DequeueReset ==
    /\ dpc = "reset" /\ dpc' = "idle"
    /\ qlast' = [qlast EXCEPT ![dprio] = HEAD]
    /\ UNCHANGED <<qfirst, qnext, queuing, dprio, dnode, processed>>

Consumer == DequeueCall \/ DequeueScan \/ DequeueProcess \/ DequeueRemove \/ DequeueReset

QueuesNext == (\E t \in Producers : Producer(t)) \/ Consumer

QueuesSpec == QueuesInit /\ [][QueuesNext]_queues

-----------------------------------------------------------------------------
(* Properties *)

\* The nodes on the way from "first" along the links, and those that the list
\* of priority i reaches (fsm_get_queued_events counts them).
Along(first, next) ==
    LET at[k \in Pnodes] ==
          IF k = 1 THEN first
          ELSE LET n == at[k - 1] IN IF n = NIL THEN NIL ELSE next[n]
    IN  [k \in 1..Cardinality({k \in Pnodes : at[k] # NIL}) |-> at[k]]
Listed(i) == Along(qfirst[i], qnext)

\* The lists keep the promise of EventQueue: an event that has been handled
\* does not wait any more, even before it is taken off its list.
Queue == INSTANCE EventQueue WITH
    Events <- Pnodes,
    queue <- [i \in Prios |-> IF dpc = "remove" /\ dprio = i THEN Tail(Listed(i)) ELSE Listed(i)],
    handled <- processed

ImplementsEventQueue == Queue!EventQueueSpec

\* "Insert new event in tail (we serve from head)", fsm.c:182: an event that
\* was queued waits in a list until it is handled.
NoLostEvent ==
    \A n \in queued :
        \/ \E j \in DOMAIN processed : processed[j] = n
        \/ \E i \in Prios : \E j \in DOMAIN Listed(i) : Listed(i)[j] = n
=============================================================================
