----------------------------- MODULE EventQueue -----------------------------
(***************************************************************************)
(* What the event queues of the state machine library promise: an event is *)
(* handled once, after the events of its priority that were queued before  *)
(* it, and when nothing of a higher priority waits.                        *)
(***************************************************************************)
EXTENDS Integers, Sequences

CONSTANTS nqueues, Events

VARIABLES
    queue,      \* the events that wait, per priority
    handled     \* the events that were handled, in order

QueueTypeOK == queue \in [0..(nqueues - 1) -> Seq(Events)] /\ handled \in Seq(Events)

EventQueueInit == queue = [i \in 0..(nqueues - 1) |-> <<>>] /\ handled = <<>>

Waiting == UNION {{queue[i][j] : j \in DOMAIN queue[i]} : i \in DOMAIN queue}
Past == {handled[j] : j \in DOMAIN handled}

Enqueue(n, i) ==
    /\ n \notin Waiting \cup Past
    /\ queue' = [queue EXCEPT ![i] = Append(@, n)]
    /\ UNCHANGED handled

Dequeue(i) ==
    /\ queue[i] # <<>>
    /\ \A j \in (i + 1)..(nqueues - 1) : queue[j] = <<>>
    /\ handled' = Append(handled, Head(queue[i]))
    /\ queue' = [queue EXCEPT ![i] = Tail(@)]

EventQueueNext == \E i \in 0..(nqueues - 1) : Dequeue(i) \/ \E n \in Events : Enqueue(n, i)

EventQueueSpec == EventQueueInit /\ [][EventQueueNext]_<<queue, handled>>
=============================================================================
