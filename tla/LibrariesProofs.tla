--------------------------- MODULE LibrariesProofs ---------------------------
(***************************************************************************)
(* The libraries of eleutheria, for all sizes.                             *)
(*                                                                         *)
(* The reachability marks of the state machine library are true for every  *)
(* graph of states and every table.  Marks are made in one pass over the   *)
(* table, which the model writes as a recursive function: what it computes *)
(* is shown with the least key at which it would go wrong.                 *)
(*                                                                         *)
(* The event queues keep the promise of EventQueue for any number of       *)
(* producers, priorities and events, when nobody queues during a dequeue.  *)
(* What the links lead to is a sequence of nodes, which insertion extends  *)
(* and removal shortens.                                                   *)
(*                                                                         *)
(* The hash table is a dictionary for its callers, its counters are right  *)
(* and its iterator returns what it should, for every hash function and    *)
(* size.  Rehashing, too, is a recursive function: the nodes are followed  *)
(* one by one from the old chains to the new ones.                         *)
(*                                                                         *)
(* The comment filter prints every text without its comments: what it has  *)
(* printed, with what the reference function leaves of the text from the   *)
(* place it has reached, stays the same.                                   *)
(*                                                                         *)
(* Where one of the libraries is used, the others keep their invariants.   *)
(***************************************************************************)
EXTENDS MCLibraries, FsmQueue, MpoolProofs

-----------------------------------------------------------------------------
(* One pass over the table *)

\* g gives the marks after each of the first n keys, f those before.
Passes(f, g, n) == g = [k \in 0..n |-> IF k = 0 THEN f ELSE MarkTargets(g[k - 1], sttable[k])]

LEMMA PassesExist == ASSUME NEW f, NEW n \in Nat PROVE \E g : Passes(f, g, n)
<1> DEFINE T == {m \in Nat : ~\E g : Passes(f, g, m)}
<1> SUFFICES ASSUME T # {} PROVE FALSE
  OBVIOUS
<1>1. PICK m \in T : \A i \in T : m <= i
  <2>1. T \in SUBSET Nat
    OBVIOUS
  <2>. HIDE DEF T
  <2>. QED
    BY <2>1, Least
<1>2. m # 0
  <2>1. Passes(f, [k \in 0..0 |-> f], 0)
    BY DEF Passes
  <2>. QED
    BY <2>1
<1>3. PICK g : Passes(f, g, m - 1)
  <2>1. m - 1 \in Nat /\ m - 1 \notin T
    BY <1>1, <1>2
  <2>. QED
    BY <2>1
<1> DEFINE h == [k \in 0..m |-> IF k = m THEN MarkTargets(g[m - 1], sttable[m]) ELSE g[k]]
<1>4. \A k \in 0..(m - 1) : h[k] = g[k]
  BY <1>1
<1>5. \A k \in 0..(m - 1) : g[k] = IF k = 0 THEN f ELSE MarkTargets(g[k - 1], sttable[k])
  BY <1>3 DEF Passes
<1>6. \A k \in 0..m : h[k] = IF k = 0 THEN f ELSE MarkTargets(h[k - 1], sttable[k])
  <2> TAKE k \in 0..m
  <2>1. CASE k = m
    <3>1. h[m - 1] = g[m - 1] /\ h[m] = MarkTargets(g[m - 1], sttable[m])
      BY <1>2, <1>4
    <3>. QED
      BY <1>2, <2>1, <3>1
  <2>2. CASE k # m
    <3>1. k \in 0..(m - 1) /\ (k # 0 => k - 1 \in 0..(m - 1))
      BY <2>2
    <3>. QED
      BY <1>4, <1>5, <3>1
  <2>. QED
    BY <2>1, <2>2
<1>7. h = [k \in 0..m |-> h[k]]
  OBVIOUS
<1>. HIDE DEF h
<1>8. Passes(f, h, m)
  BY <1>6, <1>7 DEF Passes
<1>. QED
  BY <1>1, <1>8

\* A pass marks nothing outside a set that has the marks it starts from and
\* that no transition leaves.
LEMMA MarksStayInside ==
  ASSUME FsmTypeOK, NEW f \in [States -> BOOLEAN], NEW C \in SUBSET States, Closed(C),
         \A s \in States : f[s] => s \in C
  PROVE  Marked(f) \in [States -> BOOLEAN] /\ \A s \in States : Marked(f)[s] => s \in C
<1>1. PICK g : Passes(f, g, MaxKey) /\ Marked(f) = g[MaxKey]
  <2>1. \E g : Passes(f, g, MaxKey)
    BY FsmAssumption, PassesExist
  <2>. QED
    BY <2>1 DEF Marked, Passes
<1>2. \A k \in 0..MaxKey : g[k] = IF k = 0 THEN f ELSE MarkTargets(g[k - 1], sttable[k])
  BY <1>1 DEF Passes
<1> DEFINE Inside(n) == g[n] \in [States -> BOOLEAN] /\ \A s \in States : g[n][s] => s \in C
           T == {n \in Nat : n <= MaxKey /\ ~Inside(n)}
<1>3. ASSUME T # {} PROVE FALSE
  <2>1. PICK n \in T : \A i \in T : n <= i
    <3>1. T \in SUBSET Nat
      OBVIOUS
    <3>. HIDE DEF T
    <3>. QED
      BY <1>3, <3>1, Least
  <2>2. n \in Nat /\ n <= MaxKey /\ n \in 0..MaxKey /\ MaxKey \in Nat
    BY <2>1, FsmAssumption
  <2>3. n # 0
    BY <1>2, <2>1, <2>2
  <2>4. Inside(n - 1)
    <3>1. n - 1 \in Nat /\ n - 1 <= MaxKey /\ n - 1 \notin T
      BY <2>1, <2>2, <2>3
    <3>. QED
      BY <3>1
  <2>5. g[n] = MarkTargets(g[n - 1], sttable[n])
    BY <1>2, <2>2, <2>3
  <2>6. sttable[n] \in States \cup {NoState}
    BY <2>2, <2>3 DEF FsmTypeOK
  <2>7. Inside(n)
    BY <2>4, <2>5, <2>6 DEF MarkTargets, Closed
  <2>. QED
    BY <2>1, <2>7
<1>4. Inside(MaxKey)
  BY <1>3, FsmAssumption
<1>. QED
  BY <1>1, <1>4

-----------------------------------------------------------------------------
(* The invariant *)

\* C has every state that was set, and no transition leaves it.
Surrounds(C) == starts \subseteq C /\ Closed(C)

\* Marks and the current state are inside every such set.
MarksInside ==
    ~removed => \A C \in SUBSET States : Surrounds(C) =>
        /\ \A s \in States : flag[s] => s \in C
        /\ cstate # NoState => cstate \in C

FsmIInv == FsmTypeOK /\ MarksInside

\* As long as transitions are only added, a set that surrounds the new graph
\* surrounds the old one.
LEMMA OnlyAdded ==
  ASSUME FsmTypeOK, FsmCalls \/ UNCHANGED graph, ~removed', NEW C \in SUBSET States, Surrounds(C)'
  PROVE  ~removed /\ Surrounds(C) /\ starts \subseteq starts'
<1>1. ~removed /\ starts \subseteq starts'
  <2>1. ASSUME NEW s \in States, NEW e \in Evts, state_rem_evt(s, e)
        PROVE  ~removed /\ starts \subseteq starts'
    BY <2>1 DEF state_rem_evt
  <2>2. ASSUME NEW k \in 1..MaxKey, fsm_set_state(k)
        PROVE  ~removed /\ starts \subseteq starts'
    BY <2>2 DEF fsm_set_state
  <2>3. CASE UNCHANGED <<removed, starts>>
    BY <2>3
  <2>. QED
    BY <2>1, <2>2, <2>3 DEF FsmCalls, state_add_evt, fsm_add_state, fsm_process_event,
       fsm_mark_reachable_states, fsm_minimize, graph
<1>2. \A s \in States, e \in Evts : evttable[s][e] # NoState => evttable'[s][e] = evttable[s][e]
  <2>1. CASE UNCHANGED evttable
    BY <2>1
  <2>2. ASSUME NEW s \in States, NEW e \in Evts, state_rem_evt(s, e)
        PROVE  UNCHANGED evttable
    <3>1. evttable[s][e] = NoState /\ evttable' = [evttable EXCEPT ![s] = [@ EXCEPT ![e] = NoState]]
      BY <2>2 DEF state_rem_evt
    <3>2. evttable \in [States -> [Evts -> States \cup {NoState}]]
      BY DEF FsmTypeOK
    <3>. QED
      BY <3>1, <3>2
  <2>3. ASSUME NEW s \in States, NEW e \in Evts, NEW new \in States, state_add_evt(s, e, new)
        PROVE  \A q \in States, d \in Evts : evttable[q][d] # NoState => evttable'[q][d] = evttable[q][d]
    BY <2>3 DEF state_add_evt, FsmTypeOK
  <2>. QED
    BY <2>1, <2>2, <2>3 DEF FsmCalls, fsm_add_state, fsm_set_state, fsm_process_event,
       fsm_mark_reachable_states, fsm_minimize, graph
<1>3. \A s \in States : Targets(s) \subseteq Targets(s)'
  BY <1>2 DEF Targets
<1>. QED
  BY <1>1, <1>3 DEF Surrounds, Closed

LEMMA StepKeepsTypes == FsmTypeOK /\ [FsmCalls]_graph => FsmTypeOK'
<1> SUFFICES ASSUME FsmTypeOK, [FsmCalls]_graph PROVE FsmTypeOK'
  OBVIOUS
<1> USE DEF FsmTypeOK
<1>1. ASSUME NEW f \in [States -> BOOLEAN] PROVE Marked(f) \in [States -> BOOLEAN]
  <2>1. Closed(States)
    BY DEF Closed, Targets
  <2>. QED
    BY <2>1, MarksStayInside
<1>2. ASSUME NEW s \in States, NEW e \in Evts, NEW new \in States \cup {NoState},
             evttable' = [evttable EXCEPT ![s] = [@ EXCEPT ![e] = new]]
      PROVE  evttable' \in [States -> [Evts -> States \cup {NoState}]]
  <2>1. [evttable[s] EXCEPT ![e] = new] \in [Evts -> States \cup {NoState}]
    OBVIOUS
  <2>. QED
    BY <1>2, <2>1
<1>3. ASSUME NEW s \in States, NEW e \in Evts, state_rem_evt(s, e) PROVE FsmTypeOK'
  <2>2. evttable' = [evttable EXCEPT ![s] = [@ EXCEPT ![e] = NoState]]
    BY <1>3 DEF state_rem_evt
  <2>3. evttable' \in [States -> [Evts -> States \cup {NoState}]]
    BY <1>2, <2>2
  <2>. QED
    BY <1>3, <2>3 DEF state_rem_evt
<1>4. ASSUME NEW s \in States, NEW e \in Evts, NEW new \in States, state_add_evt(s, e, new)
      PROVE  FsmTypeOK'
  <2> DEFINE kept == IF evttable[s][e] = NoState THEN new ELSE evttable[s][e]
  <2>2. evttable' = [evttable EXCEPT ![s] = [@ EXCEPT ![e] = kept]] /\ kept \in States \cup {NoState}
    BY <1>4 DEF state_add_evt
  <2>3. evttable' \in [States -> [Evts -> States \cup {NoState}]]
    <3>. HIDE DEF kept
    <3>. QED
      BY <1>2, <2>2
  <2>. QED
    BY <1>4, <2>3 DEF state_add_evt
<1>5. ASSUME NEW s \in States, NEW k \in StKeys[s], fsm_add_state(s, k) PROVE FsmTypeOK'
  <2>2. k \in 1..MaxKey /\ k \in 0..MaxKey
    BY FsmAssumption
  <2>3. st_key' \in [States -> 0..MaxKey]
    BY <1>5, <2>2 DEF fsm_add_state
  <2>4. sttable' \in [1..MaxKey -> States \cup {NoState}]
    BY <1>5, <2>2 DEF fsm_add_state
  <2>. QED
    BY <1>5, <2>3, <2>4 DEF fsm_add_state
<1>6. CASE \E k \in 1..MaxKey : fsm_set_state(k)
  BY <1>1, <1>6 DEF fsm_set_state
<1>7. CASE \E e \in Evts : fsm_process_event(e)
  BY <1>7 DEF fsm_process_event
<1>8. CASE fsm_mark_reachable_states
  BY <1>1, <1>8 DEF fsm_mark_reachable_states
<1>9. CASE UNCHANGED graph
  BY <1>9 DEF graph
<1>. QED
  BY <1>3, <1>4, <1>5, <1>6, <1>7, <1>8, <1>9 DEF FsmCalls, fsm_minimize

LEMMA StepKeepsMarks == FsmIInv /\ [FsmCalls]_graph => MarksInside'
<1> SUFFICES ASSUME FsmIInv, [FsmCalls]_graph, ~removed', NEW C \in SUBSET States, Surrounds(C)'
             PROVE  /\ \A s \in States : flag'[s] => s \in C
                    /\ cstate' # NoState => cstate' \in C
  BY DEF MarksInside, Surrounds, Closed, Targets
<1>1. FsmTypeOK /\ ~removed /\ Surrounds(C) /\ starts' \subseteq C
  BY OnlyAdded DEF FsmIInv, Surrounds
<1>2. (\A s \in States : flag[s] => s \in C) /\ (cstate # NoState => cstate \in C)
  BY <1>1 DEF FsmIInv, MarksInside
<1>3. ASSUME NEW f \in [States -> BOOLEAN], \A s \in States : f[s] => s \in C
      PROVE  \A s \in States : Marked(f)[s] => s \in C
  BY <1>1, <1>3, MarksStayInside DEF Surrounds
<1>4. CASE \E k \in 1..MaxKey : fsm_set_state(k)
  <2>1. PICK k \in 1..MaxKey : fsm_set_state(k)
    BY <1>4
  <2>2. sttable[k] \in States /\ sttable[k] \in C
    BY <1>1, <2>1 DEF FsmTypeOK, fsm_set_state
  <2> DEFINE f == [flag EXCEPT ![sttable[k]] = TRUE]
  <2>3. f \in [States -> BOOLEAN] /\ \A s \in States : f[s] => s \in C
    BY <1>1, <1>2, <2>2 DEF FsmTypeOK
  <2>4. flag' = Marked(f) /\ cstate' = sttable[k]
    BY <2>1 DEF fsm_set_state
  <2>. HIDE DEF f
  <2>. QED
    BY <1>3, <2>2, <2>3, <2>4
<1>5. CASE fsm_mark_reachable_states
  BY <1>1, <1>2, <1>3, <1>5 DEF fsm_mark_reachable_states, FsmTypeOK
<1>6. CASE \E e \in Evts : fsm_process_event(e)
  <2>1. PICK e \in Evts : fsm_process_event(e)
    BY <1>6
  <2>2. /\ cstate \in C /\ flag' = flag
        /\ evttable[cstate][e] # NoState /\ cstate' \in {cstate, evttable[cstate][e]}
    BY <1>2, <2>1 DEF fsm_process_event
  <2>3. evttable[cstate][e] \in Targets(cstate)
    BY <2>2 DEF Targets
  <2>. QED
    BY <1>1, <1>2, <2>2, <2>3 DEF Surrounds, Closed
<1>7. CASE UNCHANGED <<flag, cstate>>
  BY <1>2, <1>7
<1>. QED
  BY <1>4, <1>5, <1>6, <1>7 DEF FsmCalls, state_add_evt, state_rem_evt, fsm_add_state, fsm_minimize, graph

-----------------------------------------------------------------------------
(* The theorem *)

LEMMA FsmStarts == FsmInit => FsmIInv
<1> SUFFICES ASSUME FsmInit PROVE FsmIInv
  OBVIOUS
<1>1. 0 \in 0..MaxKey
  BY FsmAssumption
<1>2. FsmTypeOK
  BY <1>1 DEF FsmInit, FsmTypeOK
<1>3. cstate = NoState /\ \A s \in States : ~flag[s]
  BY DEF FsmInit
<1>. QED
  BY <1>2, <1>3 DEF FsmIInv, MarksInside

LEMMA FsmStepKeeps == FsmIInv /\ [FsmCalls]_graph => FsmIInv'
BY StepKeepsTypes, StepKeepsMarks DEF FsmIInv

\* The graph, the table and the marks keep their types.
THEOREM FsmInvariance == FsmSpec => []FsmIInv
BY FsmStarts, FsmStepKeeps, PTL DEF FsmSpec

\* As long as transitions are only added, a state that is marked reachable, and
\* the current state, can be reached from a state that was set (fsm.c).
THEOREM MarksAlwaysTrue == FsmSpec => []MarksAreTrue
<1>1. FsmIInv => MarksAreTrue
  BY DEF FsmIInv, FsmTypeOK, MarksInside, Surrounds, MarksAreTrue, ReachableFrom
<1>. QED
  BY FsmInvariance, <1>1, PTL

-----------------------------------------------------------------------------
(* The event queues *)

\* The k-th node of s, NULL behind the end.
Nth(s, k) == IF k \in DOMAIN s THEN s[k] ELSE NIL

\* s is the list from first along next.
NodesOf(s, first, next) ==
    /\ s \in Seq(Pnodes) /\ \A j, k \in DOMAIN s : s[j] = s[k] => j = k
    /\ first = Nth(s, 1)
    /\ \A k \in DOMAIN s : next[s[k]] = Nth(s, k + 1)

Members(s) == {s[k] : k \in DOMAIN s}
EndOf(s) == IF s = <<>> THEN HEAD ELSE s[Len(s)]

\* Every list has an end, and no node is in two lists.
ListsSound ==
    /\ \A i \in Prios : NodesOf(Listed(i), qfirst[i], qnext)
    /\ \A i, j \in Prios : i # j => Members(Listed(i)) \cap Members(Listed(j)) = {}

\* "last" is the end of the list, but for an insertion or a removal in
\* progress.
Inserting(t, i) == qpc[t] = "tail" /\ qprio[t] = i
Removing(i) == dpc = "reset" /\ dprio = i
Ends ==
    \A i \in Prios :
      /\ Removing(i) => Listed(i) = <<>>
      /\ \A t \in Producers : Inserting(t, i) => Listed(i) # <<>> /\ EndOf(Listed(i)) = qnode[t]
      /\ Removing(i) \/ (\E t \in Producers : Inserting(t, i)) \/ qlast[i] = EndOf(Listed(i))

\* A node that is not inserted yet is unknown to the lists and the consumer,
\* and belongs to one producer.
Offered(t) == qpc[t] \in {"lock", "link"}
Unknown(n) ==
    /\ qnext[n] = NIL
    /\ \A i \in Prios : n \notin Members(Listed(i))
    /\ n \notin Members(processed)
NewNodes ==
    /\ \A n \in Pnodes : n > made \/ (\E t \in Producers : Offered(t) /\ qnode[t] = n) => Unknown(n)
    /\ \A t \in Producers : Offered(t) => qnode[t] \in 1..made
    /\ \A t, u \in Producers : Offered(t) /\ Offered(u) /\ qnode[t] = qnode[u] => t = u

\* An event that was handled is in no list, but for the one that is about to
\* be removed.
Once ==
    \A i \in Prios : \A n \in Members(Listed(i)) : n \in Members(processed) => dpc = "remove" /\ n = dnode

\* The mutex, and the caller that keeps queueing and dequeuing apart.
Turns ==
    /\ \A t \in Producers : qpc[t] \in {"link", "tail"} <=> mobj = t
    /\ dpc # "idle" => \A t \in Producers : qpc[t] = "idle"

\* The consumer has passed over the empty queues and found the first event.
Found ==
    \A i \in Prios :
      /\ dpc \in {"scan", "process"} /\ i > dprio => qfirst[i] = NIL
      /\ dpc \in {"process", "remove"} /\ i = dprio => qfirst[i] = dnode /\ dnode # NIL

QueueIInv == QueuesTypeOK /\ ListsSound /\ Ends /\ NewNodes /\ Once /\ Turns /\ Found

-----------------------------------------------------------------------------
(* Lists of nodes *)

\* Along is the value of a function that goes along the links.
AlongBody(first, next, f, k) ==
    IF k = 1 THEN first ELSE LET n == f[k - 1] IN IF n = NIL THEN NIL ELSE next[n]

LEMMA ChainFacts ==
  ASSUME NEW s, NEW first, NEW next, NodesOf(s, first, next)
  PROVE  /\ s \in Seq(Pnodes) /\ Len(s) \in Nat /\ DOMAIN s = 1..Len(s)
         /\ \A k \in 1..Len(s) : s[k] \in Pnodes /\ s[k] # NIL
         /\ s = <<>> <=> Len(s) = 0
         /\ s = <<>> <=> first = NIL
         /\ s # <<>> => EndOf(s) \in Members(s) /\ EndOf(s) \in Pnodes /\ EndOf(s) # HEAD
<1>1. /\ s \in Seq(Pnodes) /\ Len(s) \in Nat /\ DOMAIN s = 1..Len(s)
      /\ \A k \in 1..Len(s) : s[k] \in Pnodes
      /\ s = <<>> <=> Len(s) = 0
  BY DEF NodesOf
<1>2. \A n \in Pnodes : n # NIL /\ n # HEAD
  BY QueueAssumption DEF Pnodes, NIL, HEAD
<1>3. s = <<>> <=> first = NIL
  <2>1. first = IF 1 \in 1..Len(s) THEN s[1] ELSE NIL
    BY <1>1 DEF NodesOf, Nth
  <2>2. 1 \in 1..Len(s) <=> Len(s) # 0
    BY <1>1
  <2>. QED
    BY <1>1, <1>2, <2>1, <2>2
<1>4. ASSUME s # <<>> PROVE EndOf(s) \in Members(s) /\ EndOf(s) \in Pnodes
  <2>1. Len(s) \in 1..Len(s)
    BY <1>1, <1>4
  <2>. QED
    BY <1>1, <1>4, <2>1 DEF EndOf, Members
<1>. QED
  BY <1>1, <1>2, <1>3, <1>4

LEMMA IntervalSize ==
  ASSUME NEW n \in Nat PROVE IsFiniteSet(1..n) /\ Cardinality(1..n) = n
<1>1. IsFiniteSet(1..n) /\ Cardinality(1..n) = IF 1 > n THEN 0 ELSE n - 1 + 1
  BY FS_Interval
<1>2. CASE n = 0
  BY <1>1, <1>2
<1>3. CASE n # 0
  <2>1. ~(1 > n) /\ n - 1 + 1 = n
    BY <1>3
  <2>. QED
    BY <1>1, <2>1
<1>. QED
  BY <1>2, <1>3

\* A list has no more nodes than there are.
LEMMA ChainBound ==
  ASSUME NEW s, NEW first, NEW next, NodesOf(s, first, next)
  PROVE  Len(s) <= MaxEvents
<1>1. Len(s) \in Nat /\ MaxEvents \in Nat
  BY ChainFacts, QueueAssumption
<1> SUFFICES ASSUME ~(Len(s) <= MaxEvents) PROVE FALSE
  OBVIOUS
<1>2. /\ IsFiniteSet(1..Len(s)) /\ Cardinality(1..Len(s)) = Len(s)
      /\ IsFiniteSet(Pnodes) /\ Cardinality(Pnodes) = MaxEvents
  BY <1>1, IntervalSize DEF Pnodes
<1>3. Cardinality(Pnodes) < Cardinality(1..Len(s))
  BY <1>1, <1>2
<1>4. s \in [1..Len(s) -> Pnodes]
  BY ChainFacts
<1>5. \E x, y \in 1..Len(s) : x # y /\ s[x] = s[y]
  BY <1>2, <1>3, <1>4, FS_PigeonHole
<1>. QED
  BY <1>5, ChainFacts DEF NodesOf

\* It is what going along the links comes by.
LEMMA AlongIs ==
  ASSUME NEW s, NEW first, NEW next, NodesOf(s, first, next)
  PROVE  Along(first, next) = s
<1>1. /\ s \in Seq(Pnodes) /\ Len(s) \in Nat /\ DOMAIN s = 1..Len(s)
      /\ \A k \in 1..Len(s) : s[k] \in Pnodes /\ s[k] # NIL
      /\ Len(s) <= MaxEvents /\ MaxEvents \in Nat
  BY ChainFacts, ChainBound, QueueAssumption
<1>2. first = Nth(s, 1) /\ \A k \in 1..Len(s) : next[s[k]] = Nth(s, k + 1)
  BY <1>1 DEF NodesOf
<1>3. \A k \in Nat : Nth(s, k) = IF k \in 1..Len(s) THEN s[k] ELSE NIL
  BY <1>1 DEF Nth
<1> DEFINE at == CHOOSE f : f = [k \in Pnodes |-> AlongBody(first, next, f, k)]
<1>4. \E f : f = [k \in Pnodes |-> AlongBody(first, next, f, k)]
  <2> DEFINE G == [k \in Pnodes |-> Nth(s, k)]
  <2>1. ASSUME NEW k \in Pnodes PROVE G[k] = AlongBody(first, next, G, k)
    <3>1. k \in Nat /\ k # 0 /\ k <= MaxEvents /\ G[k] = Nth(s, k)
      BY <1>1 DEF Pnodes
    <3>2. CASE k = 1
      BY <1>2, <3>1, <3>2 DEF AlongBody
    <3>3. CASE k # 1
      <4>1. k - 1 \in Pnodes /\ k - 1 \in Nat /\ k = (k - 1) + 1
        BY <1>1, <3>1, <3>3 DEF Pnodes
      <4>2. G[k - 1] = Nth(s, k - 1)
        BY <4>1
      <4>3. CASE k - 1 \in 1..Len(s)
        <5>1. Nth(s, k - 1) = s[k - 1] /\ s[k - 1] # NIL
          BY <1>1, <1>3, <4>1, <4>3
        <5>2. next[s[k - 1]] = Nth(s, k)
          BY <1>2, <4>1, <4>3
        <5>. QED
          BY <3>1, <3>3, <4>2, <5>1, <5>2 DEF AlongBody
      <4>4. CASE k - 1 \notin 1..Len(s)
        <5>1. k \notin 1..Len(s)
          BY <1>1, <3>1, <3>3, <4>4
        <5>2. Nth(s, k - 1) = NIL /\ Nth(s, k) = NIL
          BY <1>3, <3>1, <4>1, <4>4, <5>1
        <5>. QED
          BY <3>1, <3>3, <4>2, <5>2 DEF AlongBody
      <4>. QED
        BY <4>3, <4>4
    <3>. QED
      BY <3>2, <3>3
  <2>2. G = [k \in Pnodes |-> AlongBody(first, next, G, k)]
    BY <2>1
  <2>. HIDE DEF G
  <2>. QED
    BY <2>2
<1>5. at = [k \in Pnodes |-> AlongBody(first, next, at, k)]
  BY <1>4
<1>6. Along(first, next) = [k \in 1..Cardinality({k \in Pnodes : at[k] # NIL}) |-> at[k]]
  BY DEF Along, AlongBody
<1>. HIDE DEF at
<1>7. \A k \in Pnodes : at[k] = Nth(s, k)
  <2> DEFINE Bad == {k \in Nat : k \in Pnodes /\ at[k] # Nth(s, k)}
  <2> SUFFICES ASSUME Bad # {} PROVE FALSE
    BY <1>1 DEF Pnodes
  <2>1. PICK k \in Bad : \A j \in Bad : k <= j
    <3>1. Bad \in SUBSET Nat
      OBVIOUS
    <3>. HIDE DEF Bad
    <3>. QED
      BY <3>1, Least
  <2>2. k \in Nat /\ k \in Pnodes /\ k # 0 /\ k <= MaxEvents /\ at[k] = AlongBody(first, next, at, k)
    <3>1. k \in Nat /\ k \in Pnodes
      BY <2>1
    <3>2. k # 0 /\ k <= MaxEvents
      BY <1>1, <3>1 DEF Pnodes
    <3>3. at[k] = AlongBody(first, next, at, k)
      BY <1>5, <3>1
    <3>. QED
      BY <3>1, <3>2, <3>3
  <2>3. CASE k = 1
    BY <1>2, <2>1, <2>2, <2>3 DEF AlongBody
  <2>4. CASE k # 1
    <3>1. k - 1 \in Pnodes /\ k - 1 \in Nat /\ k = (k - 1) + 1 /\ k - 1 \notin Bad
      <4>1. k - 1 \in Pnodes /\ k - 1 \in Nat /\ ~(k <= k - 1) /\ k = (k - 1) + 1
        BY <1>1, <2>2, <2>4 DEF Pnodes
      <4>. QED
        BY <2>1, <4>1
    <3>2. at[k - 1] = Nth(s, k - 1)
      BY <3>1
    <3>3. CASE k - 1 \in 1..Len(s)
      <4>1. Nth(s, k - 1) = s[k - 1] /\ s[k - 1] # NIL
        BY <1>1, <1>3, <3>1, <3>3
      <4>2. next[s[k - 1]] = Nth(s, k)
        BY <1>2, <3>1, <3>3
      <4>. QED
        BY <2>1, <2>2, <2>4, <3>2, <4>1, <4>2 DEF AlongBody
    <3>4. CASE k - 1 \notin 1..Len(s)
      <4>1. k \notin 1..Len(s)
        BY <1>1, <2>2, <2>4, <3>4
      <4>2. Nth(s, k - 1) = NIL /\ Nth(s, k) = NIL
        BY <1>3, <2>2, <3>1, <3>4, <4>1
      <4>. QED
        BY <2>1, <2>2, <2>4, <3>2, <4>2 DEF AlongBody
    <3>. QED
      BY <3>3, <3>4
  <2>. QED
    BY <2>3, <2>4
<1>8. {k \in Pnodes : at[k] # NIL} = 1..Len(s)
  BY <1>1, <1>3, <1>7 DEF Pnodes
<1>9. Cardinality(1..Len(s)) = Len(s)
  BY <1>1, IntervalSize
<1>10. \A k \in 1..Len(s) : at[k] = s[k]
  BY <1>1, <1>3, <1>7 DEF Pnodes
<1>11. s = [k \in 1..Len(s) |-> s[k]]
  BY <1>1
<1>. QED
  BY <1>6, <1>8, <1>9, <1>10, <1>11

\* STAILQ_INSERT_TAIL.
LEMMA ChainAppend ==
  ASSUME NEW s, NEW first, NEW next, NodesOf(s, first, next),
         NEW n \in Pnodes, n \notin Members(s), next[n] = NIL,
         NEW first2, first2 = (IF s = <<>> THEN n ELSE first),
         NEW next2, \A m \in Pnodes : next2[m] = IF s # <<>> /\ m = EndOf(s) THEN n ELSE next[m]
  PROVE  /\ NodesOf(Append(s, n), first2, next2)
         /\ Members(Append(s, n)) = Members(s) \cup {n}
         /\ EndOf(Append(s, n)) = n /\ Append(s, n) # <<>>
<1> DEFINE w == Append(s, n)
           e == EndOf(s)
<1>1. /\ s \in Seq(Pnodes) /\ Len(s) \in Nat /\ DOMAIN s = 1..Len(s)
      /\ \A k \in 1..Len(s) : s[k] \in Pnodes /\ s[k] # NIL
      /\ s = <<>> <=> Len(s) = 0
      /\ s # <<>> => EndOf(s) \in Members(s) /\ EndOf(s) \in Pnodes
  BY ChainFacts
<1>2. /\ w \in Seq(Pnodes) /\ Len(w) = Len(s) + 1 /\ DOMAIN w = 1..(Len(s) + 1)
      /\ w[Len(s) + 1] = n /\ \A k \in 1..Len(s) : w[k] = s[k]
      /\ w # <<>>
  <2>1. /\ w \in Seq(Pnodes) /\ Len(w) = Len(s) + 1 /\ w[Len(s) + 1] = n
        /\ \A k \in 1..Len(s) : w[k] = s[k]
    BY <1>1
  <2>2. DOMAIN w = 1..(Len(s) + 1)
    BY <1>1
  <2>3. Len(s) + 1 # 0
    BY <1>1
  <2>4. w # <<>>
    <3>. HIDE DEF w
    <3>. QED
      BY <2>1, <2>3
  <2>. QED
    BY <2>1, <2>2, <2>4
<1>3. \A j, k \in 1..Len(s) : s[j] = s[k] => j = k
  BY <1>1 DEF NodesOf
<1>4. first = Nth(s, 1) /\ \A k \in 1..Len(s) : next[s[k]] = Nth(s, k + 1)
  BY <1>1 DEF NodesOf
<1>. HIDE DEF w
<1>5. Members(w) = Members(s) \cup {n} /\ EndOf(w) = n
  BY <1>1, <1>2 DEF Members, EndOf
<1>6. \A j, k \in DOMAIN w : w[j] = w[k] => j = k
  <2>1. \A k \in 1..Len(s) : s[k] # n
    BY <1>1 DEF Members
  <2>. QED
    BY <1>1, <1>2, <1>3, <2>1
<1>7. ASSUME s = <<>> PROVE NodesOf(w, first2, next2)
  <2>1. DOMAIN w = {1} /\ w[1] = n
    BY <1>1, <1>2, <1>7
  <2>2. Nth(w, 1) = n /\ Nth(w, 2) = NIL
    BY <2>1 DEF Nth
  <2>3. first2 = n /\ next2[n] = NIL
    BY <1>7
  <2>. QED
    BY <1>2, <1>6, <2>1, <2>2, <2>3 DEF NodesOf
<1>8. ASSUME s # <<>> PROVE NodesOf(w, first2, next2)
  <2>1. Len(s) \in 1..Len(s) /\ e = s[Len(s)] /\ 1 \in 1..Len(s)
    BY <1>1, <1>8 DEF EndOf
  <2>2. Nth(w, 1) = first2
    BY <1>1, <1>2, <1>4, <1>8, <2>1 DEF Nth
  <2>3. ASSUME NEW k \in DOMAIN w PROVE next2[w[k]] = Nth(w, k + 1)
    <3>1. CASE k = Len(s) + 1
      <4>1. w[k] = n /\ n # e /\ k + 1 \notin DOMAIN w
        BY <1>1, <1>2, <1>8, <3>1
      <4>. QED
        BY <4>1 DEF Nth
    <3>2. CASE k = Len(s)
      <4>1. w[k] = e /\ k + 1 \in DOMAIN w /\ w[k + 1] = n
        BY <1>1, <1>2, <2>1, <3>2
      <4>. QED
        BY <1>1, <1>8, <4>1 DEF Nth
    <3>3. CASE k # Len(s) + 1 /\ k # Len(s)
      <4>1. k \in 1..Len(s) /\ k + 1 \in 1..Len(s) /\ k # Len(s)
        BY <1>1, <1>2, <3>3
      <4>2. w[k] = s[k] /\ s[k] # e /\ w[k + 1] = s[k + 1]
        BY <1>2, <1>3, <2>1, <4>1
      <4>3. next[s[k]] = s[k + 1] /\ Nth(w, k + 1) = s[k + 1]
        BY <1>1, <1>2, <1>4, <4>1, <4>2 DEF Nth
      <4>4. s[k] \in Pnodes
        BY <1>1, <4>1
      <4>. QED
        BY <4>2, <4>3, <4>4
    <3>. QED
      BY <3>1, <3>2, <3>3
  <2>. QED
    BY <1>2, <1>6, <2>2, <2>3 DEF NodesOf
<1>. QED
  BY <1>2, <1>5, <1>7, <1>8 DEF w

\* A link of a node that is not in the list does not matter.
LEMMA ChainApart ==
  ASSUME NEW s, NEW first, NEW next \in [Pnodes -> Pnodes \cup {NIL}], NodesOf(s, first, next),
         NEW m, m \notin Members(s), NEW n
  PROVE  NodesOf(s, first, [next EXCEPT ![m] = n])
<1>1. ASSUME NEW k \in DOMAIN s PROVE [next EXCEPT ![m] = n][s[k]] = next[s[k]]
  <2>1. s[k] \in Pnodes /\ s[k] # m
    BY ChainFacts DEF Members
  <2>. QED
    BY <2>1
<1>. QED
  BY <1>1 DEF NodesOf

LEMMA UpToLast == ASSUME NEW n \in Nat PROVE \A k \in 1..n : k \in 1..(n - 1) \/ k = n
OBVIOUS

\* STAILQ_REMOVE_HEAD.
LEMMA ChainTail ==
  ASSUME NEW s, NEW first, NEW next, NodesOf(s, first, next), first # NIL
  PROVE  /\ s # <<>> /\ Head(s) = first /\ NodesOf(Tail(s), next[first], next)
         /\ Members(Tail(s)) = Members(s) \ {first} /\ first \in Members(s)
         /\ Tail(s) # <<>> => EndOf(Tail(s)) = EndOf(s)
         /\ next[first] = NIL <=> Tail(s) = <<>>
<1> DEFINE w == Tail(s)
<1>1. /\ s \in Seq(Pnodes) /\ Len(s) \in Nat /\ DOMAIN s = 1..Len(s)
      /\ s # <<>> /\ Len(s) # 0 /\ 1 \in 1..Len(s)
  BY ChainFacts
<1>2. /\ w \in Seq(Pnodes) /\ Len(w) = Len(s) - 1 /\ Len(w) \in Nat /\ DOMAIN w = 1..(Len(s) - 1)
      /\ \A k \in 1..(Len(s) - 1) : w[k] = s[k + 1]
      /\ Head(s) = s[1]
  BY <1>1
<1>3. \A j, k \in 1..Len(s) : s[j] = s[k] => j = k
  BY <1>1 DEF NodesOf
<1>4. first = s[1] /\ \A k \in 1..Len(s) : next[s[k]] = Nth(s, k + 1)
  BY <1>1 DEF NodesOf, Nth
<1>. HIDE DEF w
<1>5. w = <<>> <=> Len(w) = 0
  BY <1>2
<1>6. \A k \in 1..(Len(s) - 1) : k + 1 \in 1..Len(s) /\ k \in Int
  BY <1>1
<1>8. \A k \in 1..(Len(s) - 1) : Nth(w, k) = Nth(s, k + 1)
  BY <1>1, <1>2, <1>6 DEF Nth
<1>9. Nth(w, Len(s)) = NIL /\ Nth(s, Len(s) + 1) = NIL
  <2>1. Len(s) \notin 1..(Len(s) - 1) /\ Len(s) + 1 \notin 1..Len(s)
    BY <1>1
  <2>. QED
    BY <1>1, <1>2, <2>1 DEF Nth
<1>10. \A k \in 1..Len(s) : Nth(w, k) = Nth(s, k + 1)
  <2>1. \A k \in 1..Len(s) : k \in 1..(Len(s) - 1) \/ k = Len(s)
    BY <1>1, UpToLast
  <2>. QED
    BY <1>8, <1>9, <2>1
<1>11. NodesOf(w, next[first], next)
  <2>1. \A j, k \in DOMAIN w : w[j] = w[k] => j = k
    <3> SUFFICES ASSUME NEW j \in DOMAIN w, NEW k \in DOMAIN w, w[j] = w[k] PROVE j = k
      OBVIOUS
    <3>1. j \in Int /\ k \in Int /\ j + 1 = k + 1
      BY <1>2, <1>3, <1>6
    <3>. QED
      BY <3>1
  <2>2. next[first] = Nth(w, 1)
    BY <1>1, <1>4, <1>10
  <2>3. ASSUME NEW k \in DOMAIN w PROVE next[w[k]] = Nth(w, k + 1)
    <3>1. w[k] = s[k + 1] /\ k + 1 \in 1..Len(s)
      BY <1>2, <1>6
    <3>. QED
      BY <1>4, <1>10, <3>1
  <2>. QED
    BY <1>2, <2>1, <2>2, <2>3 DEF NodesOf
<1>12. Members(w) = Members(s) \ {first} /\ first \in Members(s)
  <2>1. ASSUME NEW k \in 1..Len(s), k # 1 PROVE k - 1 \in 1..(Len(s) - 1) /\ w[k - 1] = s[k]
    <3>1. k - 1 \in 1..(Len(s) - 1) /\ (k - 1) + 1 = k
      BY <1>1, <2>1
    <3>. QED
      BY <1>2, <3>1
  <2>2. ASSUME NEW k \in 1..(Len(s) - 1) PROVE k + 1 \in 1..Len(s) /\ k + 1 # 1
    BY <1>1
  <2>3. \A k \in 1..(Len(s) - 1) : w[k] # first
    BY <1>1, <1>2, <1>3, <1>4, <2>2
  <2>4. Members(w) \subseteq Members(s) \ {first}
    BY <1>1, <1>2, <2>2, <2>3 DEF Members
  <2>5. Members(s) \ {first} \subseteq Members(w)
    BY <1>1, <1>2, <1>4, <2>1 DEF Members
  <2>6. first \in Members(s)
    BY <1>1, <1>4 DEF Members
  <2>. QED
    BY <2>4, <2>5, <2>6
<1>13. ASSUME w # <<>> PROVE EndOf(w) = EndOf(s)
  <2>1. Len(s) - 1 \in 1..(Len(s) - 1) /\ (Len(s) - 1) + 1 = Len(s)
    BY <1>1, <1>2, <1>5, <1>13
  <2>. QED
    BY <1>1, <1>2, <1>13, <2>1 DEF EndOf
<1>14. next[first] = NIL <=> w = <<>>
  BY <1>11, ChainFacts
<1>. QED
  BY <1>1, <1>2, <1>4, <1>11, <1>12, <1>13, <1>14 DEF w

-----------------------------------------------------------------------------
(* The queues: producers *)

LEMMA SameLists == ASSUME UNCHANGED links PROVE \A i \in Prios : Listed(i)' = Listed(i)
BY DEF links, Listed

LEMMA QueuesStart == QueuesInit => QueueIInv
<1> SUFFICES ASSUME QueuesInit PROVE QueueIInv
  OBVIOUS
<1>1. \A i \in Prios : NodesOf(<<>>, qfirst[i], qnext)
  BY DEF QueuesInit, NodesOf, Nth, Prios
<1>2. \A i \in Prios : Listed(i) = <<>>
  BY <1>1, AlongIs DEF Listed
<1>3. 0 \in Prios /\ NOBODY \notin Producers
  BY QueueAssumption DEF Prios
<1>4. QueuesTypeOK
  BY <1>3, QueueAssumption DEF QueuesInit, QueuesTypeOK, Pnodes
<1>5. Members(<<>>) = {}
  BY DEF Members
<1>6. ListsSound
  BY <1>1, <1>2, <1>5 DEF ListsSound
<1>7. Ends
  <2>1. \A i \in Prios : ~Removing(i) /\ qlast[i] = HEAD
    BY DEF QueuesInit, Removing
  <2>2. \A t \in Producers, i \in Prios : ~Inserting(t, i)
    BY DEF QueuesInit, Inserting
  <2>. QED
    BY <1>2, <2>1, <2>2 DEF Ends, EndOf
<1>8. NewNodes
  BY <1>2, <1>5 DEF QueuesInit, NewNodes, Unknown, Offered
<1>9. Once /\ Turns /\ Found
  BY <1>2, <1>3, <1>5 DEF QueuesInit, Once, Turns, Found
<1>. QED
  BY <1>4, <1>6, <1>7, <1>8, <1>9 DEF QueueIInv

LEMMA QueueCallKeeps ==
  ASSUME Serial, QueueIInv, NEW t \in Producers, QueueCall(t)
  PROVE  QueueIInv'
<1>1. QueuesTypeOK /\ ListsSound /\ Ends /\ NewNodes /\ Once /\ Turns /\ Found
  BY DEF QueueIInv
<1>2. /\ \A i \in Prios : Listed(i)' = Listed(i)
      /\ UNCHANGED <<qfirst, qlast, qnext, mobj, queued, dpc, dprio, dnode, processed>>
  BY SameLists DEF QueueCall, links, dequeuing
<1>3. /\ qpc[t] = "idle" /\ made < MaxEvents /\ dpc = "idle" /\ made' = made + 1
      /\ qnode' = [qnode EXCEPT ![t] = made + 1]
      /\ \E i \in Prios : qprio' = [qprio EXCEPT ![t] = i]
      /\ qpc' = [qpc EXCEPT ![t] = "lock"]
  BY DEF QueueCall, QGoto
<1>4. /\ made \in Nat /\ made + 1 \in Pnodes /\ MaxEvents \in Nat /\ made + 1 > made
      /\ qpc \in [Producers -> {"idle", "lock", "link", "tail"}]
      /\ qnode \in [Producers -> Pnodes \cup {NIL}] /\ qprio \in [Producers -> Prios]
  BY <1>1, <1>3, QueueAssumption DEF QueuesTypeOK, Pnodes
<1>5. QueuesTypeOK'
  <2>1. made' \in 0..MaxEvents
    BY <1>3, <1>4
  <2>2. /\ qpc' \in [Producers -> {"idle", "lock", "link", "tail"}]
        /\ qnode' \in [Producers -> Pnodes \cup {NIL}] /\ qprio' \in [Producers -> Prios]
    BY <1>3, <1>4
  <2>. QED
    BY <1>1, <1>2, <2>1, <2>2 DEF QueuesTypeOK
<1>6. ListsSound'
  BY <1>1, <1>2 DEF ListsSound
<1>7. \A u \in Producers : u # t => qpc'[u] = qpc[u] /\ qnode'[u] = qnode[u] /\ qprio'[u] = qprio[u]
  BY <1>3, <1>4
<1>8. qpc'[t] = "lock" /\ qnode'[t] = made + 1
  BY <1>3, <1>4
<1>9. Ends'
  BY <1>1, <1>2, <1>3, <1>7, <1>8 DEF Ends, Inserting, Removing
<1>10. \A n \in Pnodes : Unknown(n)' <=> Unknown(n)
  BY <1>2 DEF Unknown
<1>11. NewNodes'
  <2>2. \A u \in Producers : Offered(u)' => u = t \/ Offered(u)
    BY <1>7 DEF Offered
  <2>3. Unknown(made + 1)
    BY <1>1, <1>4 DEF NewNodes
  <2>4. \A u \in Producers : Offered(u) => qnode[u] \in 1..made' /\ qnode[u] # made + 1
    BY <1>1, <1>3, <1>4 DEF NewNodes
  <2>5. made + 1 \in 1..made'
    BY <1>3, <1>4
  <2>6. \A u \in Producers : Offered(u)' => qnode'[u] \in 1..made'
    BY <1>7, <1>8, <2>2, <2>4, <2>5
  <2>8. \A n \in Pnodes : n > made' \/ (\E u \in Producers : Offered(u)' /\ qnode'[u] = n) => Unknown(n)'
    <3> SUFFICES ASSUME NEW n \in Pnodes, n > made' \/ (\E u \in Producers : Offered(u)' /\ qnode'[u] = n)
                 PROVE  Unknown(n)
      BY <1>10
    <3>1. CASE n > made'
      <4>1. n > made
        BY <1>3, <1>4, <3>1 DEF Pnodes
      <4>. QED
        BY <1>1, <4>1 DEF NewNodes
    <3>2. ASSUME NEW u \in Producers, Offered(u)', qnode'[u] = n PROVE Unknown(n)
      <4>1. CASE u = t
        BY <1>8, <2>3, <3>2, <4>1
      <4>2. CASE u # t
        BY <1>1, <1>7, <2>2, <3>2, <4>2 DEF NewNodes
      <4>. QED
        BY <4>1, <4>2
    <3>. QED
      BY <3>1, <3>2
  <2>7. \A u, v \in Producers : Offered(u)' /\ Offered(v)' /\ qnode'[u] = qnode'[v] => u = v
    BY <1>1, <1>7, <1>8, <2>2, <2>4 DEF NewNodes
  <2>. QED
    BY <2>6, <2>7, <2>8 DEF NewNodes
<1>12. Once' /\ Found'
  BY <1>1, <1>2 DEF Once, Found
<1>13. Turns'
  BY <1>1, <1>2, <1>3, <1>7, <1>8 DEF Turns
<1>. QED
  BY <1>5, <1>6, <1>9, <1>11, <1>12, <1>13 DEF QueueIInv

LEMMA QueueLockKeeps ==
  ASSUME Serial, QueueIInv, NEW t \in Producers, QueueLock(t)
  PROVE  QueueIInv'
<1>1. QueuesTypeOK /\ ListsSound /\ Ends /\ NewNodes /\ Once /\ Turns /\ Found
  BY DEF QueueIInv
<1>2. /\ \A i \in Prios : Listed(i)' = Listed(i)
      /\ UNCHANGED <<qfirst, qlast, qnext, made, qnode, qprio, queued, dpc, dprio, dnode, processed>>
  BY SameLists DEF QueueLock, links, dequeuing
<1>3. qpc[t] = "lock" /\ mobj = NOBODY /\ mobj' = t /\ qpc' = [qpc EXCEPT ![t] = "link"]
  BY DEF QueueLock, QGoto
<1>4. qpc \in [Producers -> {"idle", "lock", "link", "tail"}] /\ NOBODY \notin Producers
  BY <1>1, QueueAssumption DEF QueuesTypeOK
<1>5. QueuesTypeOK'
  BY <1>1, <1>2, <1>3, <1>4 DEF QueuesTypeOK
<1>6. ListsSound' /\ Once' /\ Found'
  BY <1>1, <1>2 DEF ListsSound, Once, Found
<1>7. qpc'[t] = "link" /\ \A u \in Producers : u # t => qpc'[u] = qpc[u]
  BY <1>3, <1>4
<1>8. \A u \in Producers : Offered(u)' <=> Offered(u)
  BY <1>3, <1>7 DEF Offered
<1>9. \A u \in Producers : qpc'[u] = "tail" <=> qpc[u] = "tail"
  BY <1>3, <1>7
<1>10. Ends'
  BY <1>1, <1>2, <1>9 DEF Ends, Inserting, Removing
<1>11. NewNodes'
  <2>1. \A m \in Pnodes : Unknown(m)' <=> Unknown(m)
    BY <1>2 DEF Unknown
  <2>. QED
    BY <1>1, <1>2, <1>8, <2>1 DEF NewNodes
<1>12. Turns'
  <2>1. dpc = "idle"
    BY <1>1, <1>3 DEF Turns
  <2>2. \A u \in Producers : u # t => qpc[u] \notin {"link", "tail"}
    BY <1>1, <1>3, <1>4 DEF Turns
  <2>. QED
    BY <1>2, <1>3, <1>7, <2>1, <2>2 DEF Turns
<1>. QED
  BY <1>5, <1>6, <1>10, <1>11, <1>12 DEF QueueIInv

\* What QueueLink does to the lists: the node becomes the last of its list.
LEMMA QueueLinkDoes ==
  ASSUME Serial, QueueIInv, NEW t \in Producers, QueueLink(t),
         NEW i, i = qprio[t], NEW n, n = qnode[t]
  PROVE  /\ i \in Prios /\ n \in Pnodes /\ Unknown(n) /\ dpc = "idle"
         /\ \A u \in Producers : qpc[u] # "tail"
         /\ \A j \in Prios : NodesOf(Listed(j)', qfirst'[j], qnext')
         /\ Listed(i)' = Append(Listed(i), n) /\ EndOf(Listed(i)') = n /\ Listed(i)' # <<>>
         /\ Members(Listed(i)') = Members(Listed(i)) \cup {n}
         /\ \A j \in Prios : j # i => Listed(j)' = Listed(j)
         /\ \A m \in Pnodes : m # n /\ Unknown(m) => qnext'[m] = qnext[m]
         /\ qfirst' \in [Prios -> Pnodes \cup {NIL}] /\ qnext' \in [Pnodes -> Pnodes \cup {NIL}]
<1>1. QueuesTypeOK /\ ListsSound /\ Ends /\ NewNodes /\ Once /\ Turns /\ Found
  BY DEF QueueIInv
<1>2. /\ i \in Prios /\ Offered(t) /\ n \in 1..made /\ Unknown(n) /\ qpc[t] = "link"
      /\ qnext \in [Pnodes -> Pnodes \cup {NIL}] /\ qfirst \in [Prios -> Pnodes \cup {NIL}]
  <2>1. i \in Prios /\ Offered(t) /\ qpc[t] = "link"
    BY <1>1 DEF QueueLink, Offered, QueuesTypeOK
  <2>2. /\ qnext \in [Pnodes -> Pnodes \cup {NIL}] /\ qfirst \in [Prios -> Pnodes \cup {NIL}]
        /\ n \in 1..made
    BY <1>1, <2>1 DEF NewNodes, QueuesTypeOK
  <2>3. n \in Pnodes
    <3>1. made \in Nat /\ made <= MaxEvents
      BY <1>1, QueueAssumption DEF QueuesTypeOK
    <3>. QED
      BY <2>2, <3>1, QueueAssumption DEF Pnodes
  <2>4. Unknown(n)
    BY <1>1, <2>1, <2>3 DEF NewNodes
  <2>. QED
    BY <2>1, <2>2, <2>3, <2>4
<1>3. n \in Pnodes
  <2>1. made \in Nat /\ made <= MaxEvents
    BY <1>1, QueueAssumption DEF QueuesTypeOK
  <2>. QED
    BY <1>2, <2>1, QueueAssumption DEF Pnodes
<1>4. dpc = "idle" /\ \A u \in Producers : qpc[u] # "tail"
  BY <1>1, <1>2 DEF Turns
<1>5. qlast[i] = EndOf(Listed(i))
  BY <1>1, <1>2, <1>4 DEF Ends, Removing, Inserting
<1> DEFINE s == Listed(i)
           e == EndOf(s)
<1>6. /\ NodesOf(s, qfirst[i], qnext) /\ n \notin Members(s) /\ qnext[n] = NIL
      /\ s = <<>> <=> e = HEAD
      /\ s # <<>> => e \in Members(s) /\ e \in Pnodes
  <2>1. NodesOf(s, qfirst[i], qnext) /\ n \notin Members(s) /\ qnext[n] = NIL
    BY <1>1, <1>2 DEF ListsSound, Unknown
  <2>2. s # <<>> => e \in Members(s) /\ e \in Pnodes /\ e # HEAD
    BY <2>1, ChainFacts
  <2>. QED
    BY <2>1, <2>2 DEF EndOf
<1>7. IF e = HEAD THEN qfirst' = [qfirst EXCEPT ![i] = n] /\ qnext' = qnext
                  ELSE qnext' = [qnext EXCEPT ![e] = n] /\ qfirst' = qfirst
  BY <1>5 DEF QueueLink
<1>. HIDE DEF e, s
<1>8. /\ NodesOf(Append(s, n), qfirst'[i], qnext')
      /\ Members(Append(s, n)) = Members(s) \cup {n}
      /\ EndOf(Append(s, n)) = n /\ Append(s, n) # <<>>
  <2>1. qfirst'[i] = IF s = <<>> THEN n ELSE qfirst[i]
    BY <1>2, <1>6, <1>7
  <2>2. \A m \in Pnodes : qnext'[m] = IF s # <<>> /\ m = EndOf(s) THEN n ELSE qnext[m]
    BY <1>2, <1>6, <1>7 DEF e
  <2>. QED
    BY <1>3, <1>6, <2>1, <2>2, ChainAppend
<1>9. ASSUME NEW j \in Prios, j # i PROVE NodesOf(Listed(j), qfirst'[j], qnext')
  <2>1. NodesOf(Listed(j), qfirst[j], qnext) /\ Members(Listed(j)) \cap Members(s) = {}
    BY <1>1, <1>2, <1>9 DEF ListsSound, s
  <2>2. CASE e = HEAD
    BY <1>2, <1>7, <1>9, <2>1, <2>2
  <2>3. CASE e # HEAD
    <3>1. e \notin Members(Listed(j))
      BY <1>6, <2>1, <2>3
    <3>2. NodesOf(Listed(j), qfirst[j], [qnext EXCEPT ![e] = n])
      BY <1>2, <2>1, <3>1, ChainApart
    <3>. QED
      BY <1>7, <2>3, <3>2
  <2>. QED
    BY <2>2, <2>3
<1>10. Listed(i)' = Append(s, n)
  BY <1>8, AlongIs DEF Listed
<1>11. ASSUME NEW j \in Prios, j # i PROVE Listed(j)' = Listed(j)
  <2>1. PICK w : w = Listed(j)
    OBVIOUS
  <2>2. NodesOf(w, qfirst'[j], qnext')
    BY <1>9, <1>11, <2>1
  <2>3. Along(qfirst'[j], qnext') = w
    BY <2>2, AlongIs
  <2>. QED
    BY <2>1, <2>3 DEF Listed
<1>12. \A j \in Prios : NodesOf(Listed(j)', qfirst'[j], qnext')
  BY <1>8, <1>9, <1>10, <1>11
<1>13. \A m \in Pnodes : m # n /\ Unknown(m) => qnext'[m] = qnext[m]
  <2>1. \A m \in Pnodes : Unknown(m) => m \notin Members(s)
    BY <1>2 DEF Unknown, s
  <2>. QED
    BY <1>2, <1>6, <1>7, <2>1
<1>15. qfirst' \in [Prios -> Pnodes \cup {NIL}] /\ qnext' \in [Pnodes -> Pnodes \cup {NIL}]
  BY <1>2, <1>3, <1>7
<1>. QED
  BY <1>2, <1>3, <1>4, <1>8, <1>10, <1>11, <1>12, <1>13, <1>15 DEF s

LEMMA QueueLinkKeeps ==
  ASSUME Serial, QueueIInv, NEW t \in Producers, QueueLink(t)
  PROVE  QueueIInv'
<1>1. QueuesTypeOK /\ ListsSound /\ Ends /\ NewNodes /\ Once /\ Turns /\ Found
  BY DEF QueueIInv
<1>2. PICK i, n : i = qprio[t] /\ n = qnode[t]
  OBVIOUS
<1>3. /\ i \in Prios /\ n \in Pnodes /\ Unknown(n) /\ dpc = "idle"
      /\ \A u \in Producers : qpc[u] # "tail"
      /\ \A j \in Prios : NodesOf(Listed(j)', qfirst'[j], qnext')
      /\ EndOf(Listed(i)') = n /\ Listed(i)' # <<>>
      /\ Members(Listed(i)') = Members(Listed(i)) \cup {n}
      /\ \A j \in Prios : j # i => Listed(j)' = Listed(j)
      /\ \A m \in Pnodes : m # n /\ Unknown(m) => qnext'[m] = qnext[m]
      /\ qfirst' \in [Prios -> Pnodes \cup {NIL}] /\ qnext' \in [Pnodes -> Pnodes \cup {NIL}]
  BY <1>2, QueueLinkDoes
<1>4. /\ qpc[t] = "link" /\ qpc' = [qpc EXCEPT ![t] = "tail"]
      /\ UNCHANGED <<qlast, mobj, made, qnode, qprio, queued, dpc, dprio, dnode, processed>>
  BY DEF QueueLink, QGoto, dequeuing
<1>5. qpc \in [Producers -> {"idle", "lock", "link", "tail"}]
  BY <1>1 DEF QueuesTypeOK
<1>6. qpc'[t] = "tail" /\ \A u \in Producers : u # t => qpc'[u] = qpc[u]
  BY <1>4, <1>5
<1>7. QueuesTypeOK'
  BY <1>1, <1>3, <1>4, <1>5 DEF QueuesTypeOK
<1>8. ListsSound'
  <2>1. \A j \in Prios : n \notin Members(Listed(j))
    BY <1>3 DEF Unknown
  <2>2. \A j, k \in Prios : j # k => Members(Listed(j)) \cap Members(Listed(k)) = {}
    BY <1>1 DEF ListsSound
  <2>3. \A j, k \in Prios : j # k => Members(Listed(j)') \cap Members(Listed(k)') = {}
    BY <1>3, <2>1, <2>2
  <2>. QED
    BY <1>3, <2>3 DEF ListsSound
<1>9. Ends'
  <2>1. \A j \in Prios : ~Removing(j)' /\ ~Removing(j)
    BY <1>3, <1>4 DEF Removing
  <2>2. \A j \in Prios, u \in Producers : Inserting(u, j)' <=> u = t /\ j = i
    BY <1>2, <1>3, <1>4, <1>6 DEF Inserting
  <2>3. \A j \in Prios, u \in Producers : ~Inserting(u, j)
    BY <1>3 DEF Inserting
  <2>4. \A j \in Prios : j # i => qlast'[j] = EndOf(Listed(j)')
    BY <1>1, <1>3, <1>4, <2>1, <2>3 DEF Ends
  <2>5. \A j \in Prios : \A u \in Producers :
          Inserting(u, j)' => Listed(j)' # <<>> /\ EndOf(Listed(j)') = qnode'[u]
    BY <1>2, <1>3, <1>4, <2>2
  <2>. QED
    BY <2>1, <2>2, <2>4, <2>5 DEF Ends
<1>10. \A m \in Pnodes : m # n /\ Unknown(m) => Unknown(m)'
  BY <1>3, <1>4 DEF Unknown
<1>11. NewNodes'
  <2>1. Offered(t) /\ n \in 1..made /\ made \in Nat
    BY <1>1, <1>2, <1>4 DEF NewNodes, Offered, QueuesTypeOK
  <2>3. \A u \in Producers : Offered(u)' => u # t /\ Offered(u) /\ qnode[u] # n
    BY <1>1, <1>2, <1>6, <2>1 DEF NewNodes, Offered
  <2>4. ~(n > made)
    BY <2>1
  <2>2. \A m \in Pnodes : m > made' \/ (\E u \in Producers : Offered(u)' /\ qnode'[u] = m) => Unknown(m)'
    <3> TAKE m \in Pnodes
    <3>1. m > made' \/ (\E u \in Producers : Offered(u)' /\ qnode'[u] = m) => m # n /\ Unknown(m)
      BY <1>1, <1>4, <2>3, <2>4 DEF NewNodes
    <3>. QED
      BY <1>10, <3>1
  <2>5. \A u \in Producers : Offered(u)' => qnode'[u] \in 1..made'
    BY <1>1, <1>4, <2>3 DEF NewNodes
  <2>6. \A u, v \in Producers : Offered(u)' /\ Offered(v)' /\ qnode'[u] = qnode'[v] => u = v
    BY <1>1, <1>4, <2>3 DEF NewNodes
  <2>. QED
    BY <2>2, <2>5, <2>6 DEF NewNodes
<1>12. Once'
  <2>1. n \notin Members(processed)
    BY <1>3 DEF Unknown
  <2>2. \A j \in Prios : \A m \in Members(Listed(j)) : m \notin Members(processed)
    BY <1>1, <1>3 DEF Once
  <2>. QED
    BY <1>3, <1>4, <2>1, <2>2 DEF Once
<1>13. Turns'
  BY <1>1, <1>3, <1>4, <1>6 DEF Turns
<1>14. Found'
  BY <1>3, <1>4 DEF Found
<1>. QED
  BY <1>7, <1>8, <1>9, <1>11, <1>12, <1>13, <1>14 DEF QueueIInv

LEMMA QueueTailKeeps ==
  ASSUME Serial, QueueIInv, NEW t \in Producers, QueueTail(t)
  PROVE  QueueIInv'
<1>1. QueuesTypeOK /\ ListsSound /\ Ends /\ NewNodes /\ Once /\ Turns /\ Found
  BY DEF QueueIInv
<1>2. /\ \A i \in Prios : Listed(i)' = Listed(i)
      /\ UNCHANGED <<qfirst, qnext, made, qnode, qprio, dpc, dprio, dnode, processed>>
  BY DEF QueueTail, dequeuing, Listed
<1>3. /\ qpc[t] = "tail" /\ qpc' = [qpc EXCEPT ![t] = "idle"] /\ mobj' = NOBODY
      /\ qlast' = [qlast EXCEPT ![qprio[t]] = qnode[t]] /\ queued' = queued \cup {qnode[t]}
  BY DEF QueueTail, QGoto
<1>4. PICK i, n : i = qprio[t] /\ n = qnode[t]
  OBVIOUS
<1>5. /\ qpc \in [Producers -> {"idle", "lock", "link", "tail"}] /\ NOBODY \notin Producers
      /\ i \in Prios /\ qlast \in [Prios -> Pnodes \cup {HEAD}] /\ queued \subseteq Pnodes
  BY <1>1, <1>4, QueueAssumption DEF QueuesTypeOK
<1>6. Listed(i) # <<>> /\ EndOf(Listed(i)) = n /\ n \in Pnodes
  <2>1. Inserting(t, i)
    BY <1>3, <1>4 DEF Inserting
  <2>2. Listed(i) # <<>> /\ EndOf(Listed(i)) = n
    BY <1>1, <1>4, <1>5, <2>1 DEF Ends
  <2>3. NodesOf(Listed(i), qfirst[i], qnext)
    BY <1>1, <1>5 DEF ListsSound
  <2>. QED
    BY <2>2, <2>3, ChainFacts
<1>7. QueuesTypeOK'
  <2>1. /\ qpc' \in [Producers -> {"idle", "lock", "link", "tail"}] /\ mobj' \in Producers \cup {NOBODY}
        /\ qlast' \in [Prios -> Pnodes \cup {HEAD}] /\ queued' \subseteq Pnodes
    BY <1>3, <1>4, <1>5, <1>6
  <2>. QED
    BY <1>1, <1>2, <2>1 DEF QueuesTypeOK
<1>8. ListsSound' /\ Once' /\ Found'
  BY <1>1, <1>2 DEF ListsSound, Once, Found
<1>9. qpc'[t] = "idle" /\ \A u \in Producers : u # t => qpc'[u] = qpc[u]
  BY <1>3, <1>5
<1>10. dpc = "idle" /\ \A u \in Producers : u # t => qpc[u] \notin {"link", "tail"}
  BY <1>1, <1>3 DEF Turns
<1>11. Ends'
  <2>1. \A j \in Prios : ~Removing(j)' /\ ~Removing(j)
    BY <1>2, <1>10 DEF Removing
  <2>2. \A j \in Prios, u \in Producers : ~Inserting(u, j)'
    BY <1>9, <1>10 DEF Inserting
  <2>3. \A j \in Prios, u \in Producers : Inserting(u, j) => j = i
    BY <1>4, <1>10 DEF Inserting
  <2>4. \A j \in Prios : j # i => qlast'[j] = qlast[j]
    BY <1>3, <1>4, <1>5
  <2>5. qlast'[i] = n
    BY <1>3, <1>4, <1>5
  <2>6. \A j \in Prios : qlast'[j] = EndOf(Listed(j)')
    BY <1>1, <1>2, <1>6, <2>1, <2>3, <2>4, <2>5 DEF Ends
  <2>. QED
    BY <2>1, <2>2, <2>6 DEF Ends
<1>12. NewNodes'
  <2>1. \A u \in Producers : Offered(u)' => Offered(u)
    BY <1>9 DEF Offered
  <2>2. \A m \in Pnodes : Unknown(m)' <=> Unknown(m)
    BY <1>2 DEF Unknown
  <2>. QED
    BY <1>1, <1>2, <2>1, <2>2 DEF NewNodes
<1>13. Turns'
  BY <1>2, <1>3, <1>5, <1>9, <1>10 DEF Turns
<1>. QED
  BY <1>7, <1>8, <1>11, <1>12, <1>13 DEF QueueIInv

-----------------------------------------------------------------------------
(* The queues: the consumer *)

LEMMA ConsumerTypes ==
  ASSUME QueuesTypeOK
  PROVE  /\ dprio \in Prios /\ nqueues - 1 \in Prios /\ dnode \in Pnodes \cup {NIL}
         /\ \A i \in Prios : i \in Int /\ 0 <= i /\ i <= nqueues - 1
         /\ \A i \in Prios : i > 0 => i - 1 \in Prios
         /\ qfirst \in [Prios -> Pnodes \cup {NIL}] /\ qlast \in [Prios -> Pnodes \cup {HEAD}]
         /\ qnext \in [Pnodes -> Pnodes \cup {NIL}]
         /\ NIL \notin Pnodes
         /\ processed \in Seq(Pnodes)
BY QueueAssumption DEF QueuesTypeOK, Prios, Pnodes, NIL

\* Steps that leave the lists and the producers alone.
LEMMA OnlyConsumer ==
  ASSUME QueueIInv, UNCHANGED <<links, queuing>>, processed' = processed, dpc # "remove" \/ dpc' = dpc,
         dnode' = dnode \/ dpc # "remove"
  PROVE  ListsSound' /\ NewNodes' /\ Once'
<1>1. QueuesTypeOK /\ ListsSound /\ NewNodes /\ Once
  BY DEF QueueIInv
<1>2. \A i \in Prios : Listed(i)' = Listed(i)
  BY SameLists
<1>3. UNCHANGED <<qfirst, qlast, qnext, made, qpc, qnode>>
  BY DEF links, queuing
<1>4. ListsSound'
  BY <1>1, <1>2, <1>3 DEF ListsSound
<1>5. NewNodes'
  BY <1>1, <1>2, <1>3 DEF NewNodes, Unknown, Offered
<1>6. Once'
  BY <1>1, <1>2 DEF Once
<1>. QED
  BY <1>4, <1>5, <1>6

LEMMA EndsSame ==
  ASSUME QueueIInv, UNCHANGED <<links, queuing>>, dpc # "reset", dpc' # "reset"
  PROVE  Ends'
<1>1. Ends /\ \A i \in Prios : Listed(i)' = Listed(i)
  BY SameLists DEF QueueIInv
<1>2. UNCHANGED <<qlast, qpc, qnode, qprio>>
  BY DEF links, queuing
<1>. QED
  BY <1>1, <1>2 DEF Ends, Removing, Inserting

LEMMA DequeueCallKeeps == ASSUME Serial, QueueIInv, DequeueCall PROVE QueueIInv'
<1>1. QueuesTypeOK /\ Turns
  BY DEF QueueIInv
<1>2. /\ dpc = "idle" /\ dpc' = "scan" /\ dprio' = nqueues - 1
      /\ \A t \in Producers : qpc[t] = "idle"
      /\ UNCHANGED <<links, queuing, dnode, processed>>
  BY DEF DequeueCall
<1>3. UNCHANGED <<qfirst, qlast, qnext, mobj, made, qpc, qnode, qprio, queued>>
  BY <1>2 DEF links, queuing
<1>4. QueuesTypeOK'
  BY <1>1, <1>2, <1>3, ConsumerTypes DEF QueuesTypeOK
<1>5. ListsSound' /\ NewNodes' /\ Once' /\ Ends'
  BY <1>2, OnlyConsumer, EndsSame
<1>6. Turns'
  BY <1>1, <1>2, <1>3 DEF Turns
<1>7. Found'
  <2>1. \A i \in Prios : ~(i > dprio')
    BY <1>1, <1>2, ConsumerTypes
  <2>. QED
    BY <1>2, <2>1 DEF Found
<1>. QED
  BY <1>4, <1>5, <1>6, <1>7 DEF QueueIInv

LEMMA DequeueScanKeeps == ASSUME Serial, QueueIInv, DequeueScan PROVE QueueIInv'
<1>1. QueuesTypeOK /\ Turns /\ Found
  BY DEF QueueIInv
<1>2. dpc = "scan" /\ UNCHANGED <<links, queuing, processed>>
  BY DEF DequeueScan
<1>3. UNCHANGED <<qfirst, qlast, qnext, mobj, made, qpc, qnode, qprio, queued>>
  BY <1>2 DEF links, queuing
<1>4. \/ qfirst[dprio] # NIL /\ dpc' = "process" /\ dnode' = qfirst[dprio] /\ dprio' = dprio
      \/ qfirst[dprio] = NIL /\ dprio > 0 /\ dprio' = dprio - 1 /\ dpc' = dpc /\ dnode' = dnode
      \/ qfirst[dprio] = NIL /\ dprio = 0 /\ dpc' = "idle" /\ dprio' = dprio /\ dnode' = dnode
  BY DEF DequeueScan
<1>5. QueuesTypeOK'
  <2>1. dprio' \in Prios /\ dnode' \in Pnodes \cup {NIL}
    BY <1>1, <1>4, ConsumerTypes
  <2>2. dpc' \in {"idle", "scan", "process", "remove", "reset"}
    BY <1>2, <1>4
  <2>. QED
    BY <1>1, <1>2, <1>3, <2>1, <2>2 DEF QueuesTypeOK
<1>6. ListsSound' /\ NewNodes' /\ Once' /\ Ends'
  <2>1. dpc # "remove" /\ dpc # "reset" /\ dpc' # "reset"
    BY <1>2, <1>4
  <2>. QED
    BY <1>2, <2>1, OnlyConsumer, EndsSame
<1>7. Turns'
  BY <1>1, <1>2, <1>3 DEF Turns
<1>8. Found'
  <2>1. \A i \in Prios : i > dprio => qfirst'[i] = NIL
    BY <1>1, <1>2, <1>3 DEF Found
  <2>2. CASE dpc' = "process"
    <3>1. qfirst[dprio] # NIL /\ dnode' = qfirst[dprio] /\ dprio' = dprio
      BY <1>2, <1>4, <2>2
    <3>. QED
      BY <1>3, <2>1, <2>2, <3>1 DEF Found
  <2>3. CASE dpc' = "scan"
    <3>1. qfirst'[dprio] = NIL /\ dprio' = dprio - 1
      BY <1>2, <1>3, <1>4, <2>3
    <3>2. \A i \in Prios : i > dprio' => i > dprio \/ i = dprio
      BY <1>1, <3>1, ConsumerTypes
    <3>. QED
      BY <2>1, <2>3, <3>1, <3>2 DEF Found
  <2>4. CASE dpc' = "idle"
    BY <2>4 DEF Found
  <2>. QED
    BY <1>2, <1>4, <2>2, <2>3, <2>4
<1>. QED
  BY <1>5, <1>6, <1>7, <1>8 DEF QueueIInv

LEMMA DequeueProcessKeeps == ASSUME Serial, QueueIInv, DequeueProcess PROVE QueueIInv'
<1>1. QueuesTypeOK /\ ListsSound /\ Ends /\ NewNodes /\ Once /\ Turns /\ Found
  BY DEF QueueIInv
<1>2. /\ dpc = "process" /\ dpc' = "remove" /\ processed' = Append(processed, dnode)
      /\ UNCHANGED <<links, queuing, dprio, dnode>>
  BY DEF DequeueProcess
<1>3. UNCHANGED <<qfirst, qlast, qnext, mobj, made, qpc, qnode, qprio, queued>>
  BY <1>2 DEF links, queuing
<1>4. \A i \in Prios : Listed(i)' = Listed(i)
  BY <1>2, SameLists
<1>5. PICK i : i = dprio
  OBVIOUS
<1>6. i \in Prios /\ qfirst[i] = dnode /\ dnode # NIL /\ dnode \in Pnodes
  BY <1>1, <1>2, <1>5, ConsumerTypes DEF Found
<1>7. dnode \in Members(Listed(i))
  BY <1>1, <1>6, ChainTail DEF ListsSound
<1>8. Members(processed') = Members(processed) \cup {dnode} /\ processed' \in Seq(Pnodes)
  <2>1. processed \in Seq(Pnodes)
    BY <1>1, ConsumerTypes
  <2>2. /\ processed' \in Seq(Pnodes) /\ DOMAIN processed' = 1..(Len(processed) + 1)
        /\ DOMAIN processed = 1..Len(processed) /\ Len(processed) \in Nat
        /\ processed'[Len(processed) + 1] = dnode
        /\ \A k \in 1..Len(processed) : processed'[k] = processed[k]
    BY <1>2, <1>6, <2>1
  <2>3. \A k : k \in DOMAIN processed' <=> k \in DOMAIN processed \/ k = Len(processed) + 1
    BY <2>2
  <2>. QED
    BY <2>2, <2>3 DEF Members
<1>9. QueuesTypeOK'
  BY <1>1, <1>2, <1>3, <1>8 DEF QueuesTypeOK
<1>10. ListsSound' /\ Ends' /\ Turns' /\ Found'
  <2>1. ListsSound'
    BY <1>1, <1>3, <1>4 DEF ListsSound
  <2>2. Ends'
    BY <1>2, EndsSame
  <2>3. Turns'
    BY <1>1, <1>2, <1>3 DEF Turns
  <2>4. Found'
    BY <1>1, <1>2, <1>3 DEF Found
  <2>. QED
    BY <2>1, <2>2, <2>3, <2>4
<1>11. NewNodes'
  <2>1. \A m \in Pnodes : Unknown(m) => m # dnode
    BY <1>6, <1>7 DEF Unknown
  <2>2. \A m \in Pnodes : Unknown(m) => Unknown(m)'
    BY <1>3, <1>4, <1>8, <2>1 DEF Unknown
  <2>3. \A t \in Producers : ~Offered(t)'
    BY <1>1, <1>2, <1>3 DEF Turns, Offered
  <2>. QED
    BY <1>1, <1>3, <2>2, <2>3 DEF NewNodes
<1>12. Once'
  BY <1>1, <1>2, <1>4, <1>8 DEF Once
<1>. QED
  BY <1>9, <1>10, <1>11, <1>12 DEF QueueIInv

\* What DequeueRemove does to the lists: the first node of one is gone.
LEMMA DequeueRemoveDoes ==
  ASSUME QueueIInv, DequeueRemove, NEW i, i = dprio, NEW n, n = dnode
  PROVE  /\ i \in Prios /\ n \in Pnodes /\ qfirst[i] = n /\ NodesOf(Listed(i), qfirst[i], qnext)
         /\ qfirst' = [qfirst EXCEPT ![i] = qnext[n]] /\ qnext' = qnext
         /\ qfirst' \in [Prios -> Pnodes \cup {NIL}]
         /\ Listed(i)' = Tail(Listed(i)) /\ NodesOf(Listed(i)', qfirst'[i], qnext')
         /\ \A j \in Prios : j # i => Listed(j)' = Listed(j) /\ qfirst'[j] = qfirst[j]
<1>1. QueuesTypeOK /\ ListsSound /\ Found
  BY DEF QueueIInv
<1>2. /\ dpc = "remove" /\ qnext' = qnext
      /\ qfirst' = [qfirst EXCEPT ![dprio] = qnext[qfirst[dprio]]]
  BY DEF DequeueRemove
<1>3. i \in Prios /\ n \in Pnodes /\ n # NIL /\ qfirst[i] = n /\ NodesOf(Listed(i), qfirst[i], qnext)
  BY <1>1, <1>2, ConsumerTypes DEF Found, ListsSound
<1>4. qfirst' = [qfirst EXCEPT ![i] = qnext[n]]
  BY <1>2, <1>3
<1>5. /\ qfirst'[i] = qnext[n] /\ qnext[n] \in Pnodes \cup {NIL}
      /\ \A j \in Prios : j # i => qfirst'[j] = qfirst[j]
      /\ qfirst' \in [Prios -> Pnodes \cup {NIL}]
  BY <1>1, <1>3, <1>4, ConsumerTypes
<1>6. NodesOf(Tail(Listed(i)), qfirst'[i], qnext')
  BY <1>2, <1>3, <1>5, ChainTail
<1>7. Listed(i)' = Tail(Listed(i))
  <2>1. PICK w : w = Tail(Listed(i))
    OBVIOUS
  <2>2. Along(qfirst'[i], qnext') = w
    BY <1>6, <2>1, AlongIs
  <2>. QED
    BY <2>1, <2>2 DEF Listed
<1>8. \A j \in Prios : j # i => Listed(j)' = Listed(j)
  BY <1>2, <1>5 DEF Listed
<1>. QED
  BY <1>2, <1>3, <1>4, <1>5, <1>6, <1>7, <1>8

LEMMA DequeueRemoveKeeps == ASSUME Serial, QueueIInv, DequeueRemove PROVE QueueIInv'
<1>1. QueuesTypeOK /\ ListsSound /\ Ends /\ NewNodes /\ Once /\ Turns /\ Found
  BY DEF QueueIInv
<1>2. PICK i, n : i = dprio /\ n = dnode
  OBVIOUS
<1>3. /\ i \in Prios /\ n \in Pnodes /\ qfirst[i] = n /\ NodesOf(Listed(i), qfirst[i], qnext)
      /\ qnext' = qnext /\ qfirst' \in [Prios -> Pnodes \cup {NIL}]
      /\ Listed(i)' = Tail(Listed(i)) /\ NodesOf(Listed(i)', qfirst'[i], qnext')
      /\ \A j \in Prios : j # i => Listed(j)' = Listed(j) /\ qfirst'[j] = qfirst[j]
  BY <1>2, DequeueRemoveDoes
<1>4. n # NIL
  BY <1>1, <1>3, ConsumerTypes
<1>5. /\ Members(Listed(i)') = Members(Listed(i)) \ {n} /\ n \in Members(Listed(i))
      /\ Listed(i)' # <<>> => EndOf(Listed(i)') = EndOf(Listed(i))
      /\ qnext[n] = NIL <=> Listed(i)' = <<>>
  BY <1>3, <1>4, ChainTail
<1>6. /\ dpc = "remove" /\ dnode' = NIL
      /\ dpc' = IF qnext[n] = NIL THEN "reset" ELSE "idle"
      /\ UNCHANGED <<qlast, qnext, queuing, dprio, processed>>
  BY <1>2, <1>3 DEF DequeueRemove
<1>7. UNCHANGED <<mobj, made, qpc, qnode, qprio, queued>>
  BY <1>6 DEF queuing
<1>8. QueuesTypeOK'
  BY <1>1, <1>3, <1>6, <1>7 DEF QueuesTypeOK
<1>9. \A j \in Prios : Members(Listed(j)') \subseteq Members(Listed(j))
  BY <1>3, <1>5
<1>10. ListsSound'
  <2>1. \A j \in Prios : NodesOf(Listed(j)', qfirst'[j], qnext')
    BY <1>1, <1>3 DEF ListsSound
  <2>2. \A j, k \in Prios : j # k => Members(Listed(j)) \cap Members(Listed(k)) = {}
    BY <1>1 DEF ListsSound
  <2>3. \A j, k \in Prios : j # k => Members(Listed(j)') \cap Members(Listed(k)') = {}
    BY <1>9, <2>2
  <2>. QED
    BY <2>1, <2>3 DEF ListsSound
<1>11. Ends'
  <2>1. \A j \in Prios, t \in Producers : ~Inserting(t, j) /\ ~Inserting(t, j)'
    BY <1>1, <1>6, <1>7 DEF Turns, Inserting
  <2>2. \A j \in Prios : qlast[j] = EndOf(Listed(j))
    BY <1>1, <1>6, <2>1 DEF Ends, Removing
  <2>3. \A j \in Prios : Removing(j)' => j = i /\ Listed(j)' = <<>>
    BY <1>2, <1>5, <1>6 DEF Removing
  <2>4. \A j \in Prios : Removing(j)' \/ qlast'[j] = EndOf(Listed(j)')
    <3> TAKE j \in Prios
    <3>1. CASE j # i
      BY <1>3, <1>6, <2>2, <3>1
    <3>2. CASE j = i /\ Listed(i)' # <<>>
      BY <1>5, <1>6, <2>2, <3>2
    <3>3. CASE j = i /\ Listed(i)' = <<>>
      BY <1>2, <1>5, <1>6, <3>3 DEF Removing
    <3>. QED
      BY <3>1, <3>2, <3>3
  <2>. QED
    BY <2>1, <2>3, <2>4 DEF Ends
<1>12. NewNodes'
  <2>1. \A m \in Pnodes : Unknown(m) => Unknown(m)'
    BY <1>3, <1>6, <1>9 DEF Unknown
  <2>2. \A t \in Producers : ~Offered(t)'
    BY <1>1, <1>6, <1>7 DEF Turns, Offered
  <2>. QED
    BY <1>1, <1>7, <2>1, <2>2 DEF NewNodes
<1>13. Once'
  <2>1. \A j \in Prios : \A m \in Members(Listed(j)) : m \in Members(processed) => m = n
    BY <1>1, <1>2 DEF Once
  <2>2. \A j \in Prios : n \notin Members(Listed(j)')
    BY <1>1, <1>3, <1>5 DEF ListsSound
  <2>3. \A j \in Prios : \A m \in Members(Listed(j)') : m \notin Members(processed)
    BY <1>9, <2>1, <2>2
  <2>. QED
    BY <1>6, <2>3 DEF Once
<1>14. Turns' /\ Found'
  <2>1. Turns'
    BY <1>1, <1>6, <1>7 DEF Turns
  <2>2. Found'
    BY <1>6 DEF Found
  <2>. QED
    BY <2>1, <2>2
<1>. QED
  BY <1>8, <1>10, <1>11, <1>12, <1>13, <1>14 DEF QueueIInv

LEMMA DequeueResetKeeps == ASSUME Serial, QueueIInv, DequeueReset PROVE QueueIInv'
<1>1. QueuesTypeOK /\ ListsSound /\ Ends /\ NewNodes /\ Once /\ Turns /\ Found
  BY DEF QueueIInv
<1>2. /\ dpc = "reset" /\ dpc' = "idle" /\ qlast' = [qlast EXCEPT ![dprio] = HEAD]
      /\ UNCHANGED <<qfirst, qnext, queuing, dprio, dnode, processed>>
  BY DEF DequeueReset
<1>3. UNCHANGED <<mobj, made, qpc, qnode, qprio, queued>>
  BY <1>2 DEF queuing
<1>4. \A i \in Prios : Listed(i)' = Listed(i)
  BY <1>2 DEF Listed
<1>5. PICK i : i = dprio
  OBVIOUS
<1>6. i \in Prios /\ qlast \in [Prios -> Pnodes \cup {HEAD}]
  BY <1>1, <1>5, ConsumerTypes
<1>7. QueuesTypeOK'
  <2>1. qlast' \in [Prios -> Pnodes \cup {HEAD}]
    BY <1>2, <1>6
  <2>. QED
    BY <1>1, <1>2, <1>3, <2>1 DEF QueuesTypeOK
<1>8. ListsSound'
  BY <1>1, <1>2, <1>4 DEF ListsSound
<1>9. Ends'
  <2>1. \A j \in Prios, t \in Producers : ~Inserting(t, j) /\ ~Inserting(t, j)'
    BY <1>1, <1>2, <1>3 DEF Turns, Inserting
  <2>2. \A j \in Prios : Removing(j) <=> j = i
    BY <1>2, <1>5 DEF Removing
  <2>3. \A j \in Prios : ~Removing(j)'
    BY <1>2 DEF Removing
  <2>4. Listed(i) = <<>> /\ qlast'[i] = HEAD
    BY <1>1, <1>2, <1>5, <1>6, <2>2 DEF Ends
  <2>5. \A j \in Prios : j # i => qlast'[j] = qlast[j]
    BY <1>2, <1>5, <1>6
  <2>6. \A j \in Prios : qlast'[j] = EndOf(Listed(j)')
    <3> TAKE j \in Prios
    <3>1. CASE j = i
      BY <1>4, <2>4, <3>1 DEF EndOf
    <3>2. CASE j # i
      BY <1>1, <1>4, <2>1, <2>2, <2>5, <3>2 DEF Ends
    <3>. QED
      BY <3>1, <3>2
  <2>. QED
    BY <2>1, <2>3, <2>6 DEF Ends
<1>10. NewNodes'
  <2>1. \A m \in Pnodes : Unknown(m)' <=> Unknown(m)
    BY <1>2, <1>4 DEF Unknown
  <2>2. \A t \in Producers : ~Offered(t)'
    BY <1>1, <1>2, <1>3 DEF Turns, Offered
  <2>. QED
    BY <1>1, <1>3, <2>1, <2>2 DEF NewNodes
<1>11. Once' /\ Turns' /\ Found'
  <2>1. Once'
    BY <1>1, <1>2, <1>4 DEF Once
  <2>2. Turns'
    BY <1>1, <1>2, <1>3 DEF Turns
  <2>3. Found'
    BY <1>2 DEF Found
  <2>. QED
    BY <2>1, <2>2, <2>3
<1>. QED
  BY <1>7, <1>8, <1>9, <1>10, <1>11 DEF QueueIInv

LEMMA QueuesStutter == ASSUME QueueIInv, UNCHANGED queues PROVE QueueIInv'
<1>1. \A i \in Prios : Listed(i)' = Listed(i)
  BY SameLists DEF queues
<1>2. UNCHANGED <<qfirst, qlast, qnext, mobj, made, qpc, qnode, qprio, queued, dpc, dprio, dnode, processed>>
  BY DEF queues, links, queuing, dequeuing
<1>3. QueuesTypeOK' /\ Turns' /\ Found'
  BY <1>2 DEF QueueIInv, QueuesTypeOK, Turns, Found
<1>4. ListsSound' /\ Once'
  BY <1>1, <1>2 DEF QueueIInv, ListsSound, Once
<1>5. Ends'
  BY <1>1, <1>2 DEF QueueIInv, Ends, Removing, Inserting
<1>6. NewNodes'
  BY <1>1, <1>2 DEF QueueIInv, NewNodes, Unknown, Offered
<1>. QED
  BY <1>3, <1>4, <1>5, <1>6 DEF QueueIInv

\* As long as the caller lets nobody queue events during a dequeue, the
\* inductive invariant of the queues holds: lists, their ends, nodes and
\* threads agree (fsm_queue_event, fsm_dequeue_event).
THEOREM QueueInvariance ==
  ASSUME Serial
  PROVE  QueuesSpec => []QueueIInv
<1>1. QueueIInv /\ [QueuesNext]_queues => QueueIInv'
  <2> SUFFICES ASSUME QueueIInv, [QueuesNext]_queues PROVE QueueIInv'
    OBVIOUS
  <2>1. ASSUME NEW t \in Producers, Producer(t) PROVE QueueIInv'
    BY <2>1, QueueCallKeeps, QueueLockKeeps, QueueLinkKeeps, QueueTailKeeps DEF Producer
  <2>2. CASE Consumer
    BY <2>2, DequeueCallKeeps, DequeueScanKeeps, DequeueProcessKeeps, DequeueRemoveKeeps,
       DequeueResetKeeps DEF Consumer
  <2>3. CASE UNCHANGED queues
    BY <2>3, QueuesStutter
  <2>. QED
    BY <2>1, <2>2, <2>3 DEF QueuesNext
<1>. QED
  BY <1>1, QueuesStart, PTL DEF QueuesSpec

-----------------------------------------------------------------------------
(* The queues implement EventQueue *)

Waiting(i) == IF dpc = "remove" /\ dprio = i THEN Tail(Listed(i)) ELSE Listed(i)
WaitingOf == [i \in Prios |-> Waiting(i)]

LEMMA QueueMapped ==
  /\ Queue!EventQueueInit <=> WaitingOf = [i \in Prios |-> <<>>] /\ processed = <<>>
  /\ \A n, i : Queue!Enqueue(n, i) <=>
       /\ \A j \in Prios : \A k \in DOMAIN WaitingOf[j] : WaitingOf[j][k] # n
       /\ \A k \in DOMAIN processed : processed[k] # n
       /\ WaitingOf' = [WaitingOf EXCEPT ![i] = Append(@, n)]
       /\ UNCHANGED processed
  /\ \A i : Queue!Dequeue(i) <=>
       /\ WaitingOf[i] # <<>>
       /\ \A j \in (i + 1)..(nqueues - 1) : WaitingOf[j] = <<>>
       /\ processed' = Append(processed, Head(WaitingOf[i]))
       /\ WaitingOf' = [WaitingOf EXCEPT ![i] = Tail(@)]
<1>1. WaitingOf = [i \in Prios |-> IF dpc = "remove" /\ dprio = i THEN Tail(Listed(i)) ELSE Listed(i)]
  BY DEF WaitingOf, Waiting
<1>2. Queue!EventQueueInit <=> WaitingOf = [i \in Prios |-> <<>>] /\ processed = <<>>
  BY <1>1 DEF Queue!EventQueueInit, Prios
<1>3. \A n, i : Queue!Enqueue(n, i) <=>
       /\ n \notin Queue!Waiting \cup Queue!Past
       /\ WaitingOf' = [WaitingOf EXCEPT ![i] = Append(@, n)]
       /\ UNCHANGED processed
  BY DEF Queue!Enqueue, WaitingOf, Waiting
<1>4. \A i : Queue!Dequeue(i) <=>
       /\ WaitingOf[i] # <<>>
       /\ \A j \in (i + 1)..(nqueues - 1) : WaitingOf[j] = <<>>
       /\ processed' = Append(processed, Head(WaitingOf[i]))
       /\ WaitingOf' = [WaitingOf EXCEPT ![i] = Tail(@)]
  BY DEF Queue!Dequeue, WaitingOf, Waiting
<1>5. Queue!Waiting = UNION {{WaitingOf[i][j] : j \in DOMAIN WaitingOf[i]} : i \in DOMAIN WaitingOf}
  BY DEF Queue!Waiting, WaitingOf, Waiting
<1>6. DOMAIN WaitingOf = Prios
  BY DEF WaitingOf
<1>. HIDE DEF WaitingOf
<1>7. \A n : n \notin Queue!Waiting <=> \A j \in Prios : \A k \in DOMAIN WaitingOf[j] : WaitingOf[j][k] # n
  BY <1>5, <1>6
<1>8. \A n : n \notin Queue!Past <=> \A k \in DOMAIN processed : processed[k] # n
  BY DEF Queue!Past
<1>. QED
  BY <1>2, <1>3, <1>4, <1>7, <1>8

LEMMA WaitingIs ==
  /\ WaitingOf = [i \in Prios |-> Waiting(i)]
  /\ WaitingOf' = [i \in Prios |-> Waiting(i)']
BY DEF WaitingOf

\* An event waits in the abstract queue as soon as it is linked.
LEMMA QueueLinkEnqueues ==
  ASSUME Serial, QueueIInv, NEW t \in Producers, QueueLink(t)
  PROVE  Queue!EventQueueNext
<1>1. PICK i, n : i = qprio[t] /\ n = qnode[t]
  OBVIOUS
<1>2. /\ i \in Prios /\ n \in Pnodes /\ Unknown(n) /\ dpc = "idle"
      /\ Listed(i)' = Append(Listed(i), n)
      /\ \A j \in Prios : j # i => Listed(j)' = Listed(j)
  BY <1>1, QueueLinkDoes
<1>3. dpc' = dpc /\ processed' = processed
  BY DEF QueueLink, dequeuing
<1>4. /\ \A j \in Prios : Waiting(j) = Listed(j)
      /\ \A j \in Prios : Waiting(j)' = Listed(j)'
  BY <1>2, <1>3 DEF Waiting
<1>5. WaitingOf' = [WaitingOf EXCEPT ![i] = Append(@, n)]
  <2>1. \A j \in Prios : Waiting(j)' = IF j = i THEN Append(Waiting(i), n) ELSE Waiting(j)
    BY <1>2, <1>4
  <2>. QED
    BY <1>2, <2>1, WaitingIs
<1>6. \A j \in Prios : \A k \in DOMAIN WaitingOf[j] : WaitingOf[j][k] # n
  BY <1>2, <1>4, WaitingIs DEF Unknown, Members
<1>7. \A k \in DOMAIN processed : processed[k] # n
  BY <1>2 DEF Unknown, Members
<1>8. Queue!Enqueue(n, i)
  BY <1>3, <1>5, <1>6, <1>7, QueueMapped
<1>. QED
  BY <1>2, <1>8 DEF Queue!EventQueueNext, Prios

\* It is handled before it is taken off its list.
LEMMA DequeueProcessDequeues ==
  ASSUME QueueIInv, DequeueProcess
  PROVE  Queue!EventQueueNext
<1>1. PICK i : i = dprio
  OBVIOUS
<1>2. QueuesTypeOK /\ Found /\ ListsSound
  BY DEF QueueIInv
<1>3. /\ dpc = "process" /\ dpc' = "remove" /\ processed' = Append(processed, dnode)
      /\ dprio' = dprio /\ \A j \in Prios : Listed(j)' = Listed(j)
  BY SameLists DEF DequeueProcess
<1>4. /\ i \in Prios /\ qfirst[i] = dnode /\ dnode # NIL
      /\ \A j \in Prios : j > i => qfirst[j] = NIL
  BY <1>1, <1>2, <1>3, ConsumerTypes DEF Found
<1>5. \A j \in Prios : NodesOf(Listed(j), qfirst[j], qnext)
  BY <1>2 DEF ListsSound
<1>6. Listed(i) # <<>> /\ Head(Listed(i)) = dnode
  BY <1>4, <1>5, ChainTail
<1>7. \A j \in Prios : Waiting(j) = Listed(j) /\ Waiting(j)' = IF j = i THEN Tail(Listed(i)) ELSE Listed(j)
  BY <1>1, <1>3 DEF Waiting
<1>8. WaitingOf[i] = Listed(i) /\ WaitingOf' = [WaitingOf EXCEPT ![i] = Tail(@)]
  BY <1>4, <1>7, WaitingIs
<1>9. \A j \in (i + 1)..(nqueues - 1) : WaitingOf[j] = <<>>
  <2> TAKE j \in (i + 1)..(nqueues - 1)
  <2>1. j \in Prios /\ j > i
    BY <1>2, <1>4, QueueAssumption DEF Prios
  <2>2. Listed(j) = <<>>
    BY <1>4, <1>5, <2>1, ChainFacts
  <2>. QED
    BY <1>7, <2>1, <2>2, WaitingIs
<1>10. Queue!Dequeue(i)
  BY <1>3, <1>6, <1>8, <1>9, QueueMapped
<1>. QED
  BY <1>4, <1>10 DEF Queue!EventQueueNext, Prios

\* All other steps leave the abstract queue alone.
LEMMA OthersStutter ==
  ASSUME QueueIInv,
         \/ \E t \in Producers : QueueCall(t) \/ QueueLock(t) \/ QueueTail(t)
         \/ DequeueCall \/ DequeueScan \/ DequeueRemove \/ DequeueReset
         \/ UNCHANGED queues
  PROVE  WaitingOf' = WaitingOf /\ processed' = processed
<1>1. processed' = processed
  BY DEF QueueCall, QueueLock, QueueTail, DequeueCall, DequeueScan, DequeueRemove, DequeueReset,
     queues, dequeuing
<1>2. CASE DequeueRemove
  <2>1. PICK i, n : i = dprio /\ n = dnode
    OBVIOUS
  <2>2. /\ Listed(i)' = Tail(Listed(i)) /\ \A j \in Prios : j # i => Listed(j)' = Listed(j)
        /\ dpc = "remove" /\ dpc' # "remove"
    BY <1>2, <2>1, DequeueRemoveDoes DEF DequeueRemove
  <2>3. \A j \in Prios : Waiting(j)' = Waiting(j)
    BY <2>1, <2>2 DEF Waiting
  <2>. QED
    BY <1>1, <2>3, WaitingIs
<1>3. CASE ~DequeueRemove
  <2>1. \A j \in Prios : Listed(j)' = Listed(j)
    <3>1. UNCHANGED <<qfirst, qnext>>
      BY <1>3 DEF QueueCall, QueueLock, QueueTail, DequeueCall, DequeueScan, DequeueReset, queues, links
    <3>. QED
      BY <3>1 DEF Listed
  <2>2. (dpc = "remove") = (dpc = "remove")' /\ (dpc = "remove" => dprio' = dprio)
    BY <1>3 DEF QueueCall, QueueLock, QueueTail, DequeueCall, DequeueScan, DequeueReset, queues, dequeuing
  <2>3. \A j \in Prios : Waiting(j)' = Waiting(j)
    BY <2>1, <2>2 DEF Waiting
  <2>. QED
    BY <1>1, <2>3, WaitingIs
<1>. QED
  BY <1>2, <1>3

\* As long as nobody queues events during a dequeue the queues keep the
\* promise of EventQueue: an event is handled once, after those of its priority
\* that were queued before it, and when nothing of a higher priority waits
\* (fsm_queue_event, fsm_dequeue_event).
THEOREM QueuesImplement ==
  ASSUME Serial
  PROVE  QueuesSpec => ImplementsEventQueue
<1>1. QueuesInit => Queue!EventQueueInit
  <2> SUFFICES ASSUME QueuesInit PROVE Queue!EventQueueInit
    OBVIOUS
  <2>1. \A i \in Prios : NodesOf(<<>>, qfirst[i], qnext)
    BY DEF QueuesInit, NodesOf, Nth, Prios
  <2>2. \A i \in Prios : Waiting(i) = <<>>
    BY <2>1, AlongIs DEF Listed, Waiting, QueuesInit
  <2>3. processed = <<>>
    BY DEF QueuesInit
  <2>. QED
    BY <2>2, <2>3, WaitingIs, QueueMapped
<1>2. QueueIInv /\ [QueuesNext]_queues => [Queue!EventQueueNext]_<<WaitingOf, processed>>
  <2> SUFFICES ASSUME QueueIInv, [QueuesNext]_queues
               PROVE  Queue!EventQueueNext \/ (WaitingOf' = WaitingOf /\ processed' = processed)
    OBVIOUS
  <2>1. CASE \E t \in Producers : QueueLink(t)
    BY <2>1, QueueLinkEnqueues
  <2>2. CASE DequeueProcess
    BY <2>2, DequeueProcessDequeues
  <2>3. CASE \/ \E t \in Producers : QueueCall(t) \/ QueueLock(t) \/ QueueTail(t)
             \/ DequeueCall \/ DequeueScan \/ DequeueRemove \/ DequeueReset
             \/ UNCHANGED queues
    BY <2>3, OthersStutter
  <2>. QED
    BY <2>1, <2>2, <2>3 DEF QueuesNext, Producer, Consumer
<1>3. [Queue!EventQueueNext]_<<WaitingOf, processed>> =>
        [Queue!EventQueueNext]_<<[i \in Prios |-> IF dpc = "remove" /\ dprio = i
                                                   THEN Tail(Listed(i)) ELSE Listed(i)], processed>>
  BY DEF WaitingOf, Waiting
<1>. QED
  BY <1>1, <1>2, <1>3, QueueInvariance, PTL DEF QueuesSpec, ImplementsEventQueue, Queue!EventQueueSpec

-----------------------------------------------------------------------------
(* No event is lost *)

InSomeList(n) == \E i \in Prios : n \in Members(Listed(i))
NothingLost ==
    /\ \A n \in queued : n \in Members(processed) \/ InSomeList(n)
    /\ dpc = "remove" => dnode \in Members(processed)

LEMMA NothingLostKept ==
  ASSUME Serial, QueueIInv, NothingLost, [QueuesNext]_queues
  PROVE  NothingLost'
<1>1. QueuesTypeOK /\ ListsSound /\ Ends
  BY DEF QueueIInv
<1>2. ASSUME NEW t \in Producers, QueueLink(t) PROVE NothingLost'
  <2>1. PICK i, n : i = qprio[t] /\ n = qnode[t]
    OBVIOUS
  <2>2. /\ dpc = "idle"
        /\ Members(Listed(i)') = Members(Listed(i)) \cup {n}
        /\ \A j \in Prios : j # i => Listed(j)' = Listed(j)
    BY <1>2, <2>1, QueueLinkDoes
  <2>3. dpc' = dpc /\ processed' = processed /\ queued' = queued
    BY <1>2 DEF QueueLink, dequeuing
  <2>4. \A m : InSomeList(m) => InSomeList(m)'
    BY <2>2 DEF InSomeList
  <2>. QED
    BY <2>2, <2>3, <2>4 DEF NothingLost
<1>3. ASSUME NEW t \in Producers, QueueTail(t) PROVE NothingLost'
  <2>1. PICK i, n : i = qprio[t] /\ n = qnode[t]
    OBVIOUS
  <2>2. /\ qpc[t] = "tail" /\ queued' = queued \cup {n} /\ dpc' = dpc /\ processed' = processed
        /\ dnode' = dnode /\ UNCHANGED <<qfirst, qnext>> /\ i \in Prios
    BY <1>1, <1>3, <2>1 DEF QueueTail, dequeuing, QueuesTypeOK
  <2>3. \A m : InSomeList(m)' <=> InSomeList(m)
    BY <2>2 DEF InSomeList, Listed
  <2>4. Listed(i) # <<>> /\ EndOf(Listed(i)) = n
    BY <1>1, <2>1, <2>2 DEF Ends, Inserting
  <2>5. InSomeList(n)
    BY <1>1, <2>2, <2>4, ChainFacts DEF ListsSound, InSomeList
  <2>. QED
    BY <2>2, <2>3, <2>5 DEF NothingLost
<1>4. CASE DequeueProcess
  <2>1. /\ processed' = Append(processed, dnode) /\ dnode' = dnode
        /\ UNCHANGED <<qfirst, qnext, queued>>
    BY <1>4 DEF DequeueProcess, links, queuing
  <2>2. \A m : InSomeList(m)' <=> InSomeList(m)
    BY <2>1 DEF InSomeList, Listed
  <2>3. Members(processed) \cup {dnode} \subseteq Members(processed')
    <3>1. processed \in Seq(Pnodes)
      BY <1>1 DEF QueuesTypeOK
    <3>2. /\ DOMAIN processed' = 1..(Len(processed) + 1) /\ DOMAIN processed = 1..Len(processed)
          /\ Len(processed) \in Nat /\ processed'[Len(processed) + 1] = dnode
          /\ \A k \in 1..Len(processed) : processed'[k] = processed[k]
      BY <2>1, <3>1
    <3>3. \A k : k \in DOMAIN processed \/ k = Len(processed) + 1 => k \in DOMAIN processed'
      BY <3>2
    <3>. QED
      BY <3>2, <3>3 DEF Members
  <2>. QED
    BY <2>1, <2>2, <2>3 DEF NothingLost
<1>5. CASE DequeueRemove
  <2>1. PICK i, n : i = dprio /\ n = dnode
    OBVIOUS
  <2>2. /\ n \in Pnodes /\ qfirst[i] = n /\ NodesOf(Listed(i), qfirst[i], qnext)
        /\ Listed(i)' = Tail(Listed(i)) /\ \A j \in Prios : j # i => Listed(j)' = Listed(j)
    BY <1>5, <2>1, DequeueRemoveDoes
  <2>3. Members(Listed(i)') = Members(Listed(i)) \ {n}
    BY <1>1, <2>2, ChainTail, ConsumerTypes
  <2>4. n \in Members(processed) /\ dpc' # "remove" /\ processed' = processed /\ queued' = queued
    BY <1>5, <2>1 DEF NothingLost, DequeueRemove, queuing
  <2>5. \A m : InSomeList(m) => m = n \/ InSomeList(m)'
    BY <2>2, <2>3 DEF InSomeList
  <2>. QED
    BY <2>4, <2>5 DEF NothingLost
<1>6. CASE \/ \E t \in Producers : QueueCall(t) \/ QueueLock(t)
           \/ DequeueCall \/ DequeueScan \/ DequeueReset \/ UNCHANGED queues
  <2>1. UNCHANGED <<qfirst, qnext, queued, processed>> /\ (dpc' = "remove" => dpc = "remove" /\ dnode' = dnode)
    BY <1>6 DEF QueueCall, QueueLock, DequeueCall, DequeueScan, DequeueReset, queues, links, queuing, dequeuing
  <2>2. \A m : InSomeList(m)' <=> InSomeList(m)
    BY <2>1 DEF InSomeList, Listed
  <2>. QED
    BY <2>1, <2>2 DEF NothingLost
<1>. QED
  BY <1>2, <1>3, <1>4, <1>5, <1>6 DEF QueuesNext, Producer, Consumer

\* As long as nobody queues events during a dequeue an event that was queued
\* waits in a list until it is handled ("insert new event in tail (we serve
\* from head)", fsm_queue_event): what loses events is the dequeue without the
\* lock, and only that.
THEOREM NoneLost ==
  ASSUME Serial
  PROVE  QueuesSpec => []NoLostEvent
<1>1. QueuesInit => NothingLost
  BY DEF QueuesInit, NothingLost
<1>2. QueueIInv /\ NothingLost /\ [QueuesNext]_queues => NothingLost'
  BY NothingLostKept
<1>3. NothingLost => NoLostEvent
  <2> SUFFICES ASSUME NothingLost, NEW n \in queued
               PROVE  \/ \E j \in DOMAIN processed : processed[j] = n
                      \/ \E i \in Prios : \E j \in DOMAIN Listed(i) : Listed(i)[j] = n
    BY DEF NoLostEvent
  <2>. QED
    BY DEF NothingLost, InSomeList, Members
<1>. QED
  BY <1>1, <1>2, <1>3, QueueInvariance, PTL DEF QueuesSpec

-----------------------------------------------------------------------------
(* The hash table *)

\* Every node is in the chain of its key, and no chain has a key twice.
Sorted(t, sz) ==
    /\ t \in [0..(sz - 1) -> Seq(HTableNode)]
    /\ \A i \in 0..(sz - 1) : \A j \in DOMAIN t[i] : Bucket(t[i][j].key, sz) = i
    /\ \A i \in 0..(sz - 1) : \A j, k \in DOMAIN t[i] : t[i][j].key = t[i][k].key => j = k

AllNodes(t) == UNION {Range(t[i]) : i \in DOMAIN t}

\* The keys in the first n chains.
KeysBelow(t, n) == UNION {{t[i][j].key : j \in DOMAIN t[i]} : i \in 0..(n - 1)}

KeysUpTo(s, j) == {s[k].key : k \in 1..j}

TableCounted ==
    /\ ht_used = Cardinality(AllNodes(ht_table))
    /\ ht_limit = ht_factor * ht_size
    /\ ht_factor > 0 /\ ht_used > ht_limit => 2 * ht_size > MaxSize

\* What the iterator has returned are the keys of the chains behind it, and
\* those of its own chain up to its node; in the last chain it is at the first.
Walked(c, j) ==
    /\ ht_table[c][j].key = it_pnode
    /\ ToSet(visited) = KeysBelow(ht_table, c) \cup KeysUpTo(ht_table[c], j)
    /\ c = ht_size - 1 => j = 1

IteratorSound ==
    /\ iterating = "no" => it_pos = 0 /\ it_pnode = NULL /\ visited = <<>>
    /\ iterating = "yes" /\ it_pos = 0 => it_pnode = NULL /\ visited = <<>>
    /\ iterating = "yes" /\ it_pos > 0 => \E j \in DOMAIN ht_table[it_pos - 1] : Walked(it_pos - 1, j)
    /\ IteratorVisits

-----------------------------------------------------------------------------
(* Chains *)

LEMMA ConcatFacts ==
  ASSUME NEW T, NEW s \in Seq(T), NEW w \in Seq(T)
  PROVE  /\ s \o w \in Seq(T) /\ Range(s \o w) = Range(s) \cup Range(w)
         /\ IsInjective(s) /\ IsInjective(w) /\ Range(s) \cap Range(w) = {} => IsInjective(s \o w)
<1> DEFINE v == s \o w
<1>1. /\ v \in Seq(T) /\ DOMAIN v = 1..(Len(s) + Len(w)) /\ Len(s) \in Nat /\ Len(w) \in Nat
      /\ DOMAIN s = 1..Len(s) /\ DOMAIN w = 1..Len(w)
  OBVIOUS
<1>2. \A i \in 1..Len(s) : v[i] = s[i]
  BY <1>1
<1>3. \A i \in 1..Len(w) : v[Len(s) + i] = w[i]
  BY <1>1
<1>4. \A i \in DOMAIN v : i \in 1..Len(s) \/ \E k \in 1..Len(w) : i = Len(s) + k
  <2> SUFFICES ASSUME NEW i \in DOMAIN v, i \notin 1..Len(s) PROVE \E k \in 1..Len(w) : i = Len(s) + k
    OBVIOUS
  <2>1. i - Len(s) \in 1..Len(w) /\ i = Len(s) + (i - Len(s))
    BY <1>1
  <2>. QED
    BY <2>1
<1>5. \A k \in 1..Len(w) : Len(s) + k \in DOMAIN v
  BY <1>1
<1>6. \A k \in 1..Len(s) : k \in DOMAIN v
  BY <1>1
<1>. HIDE DEF v
<1>7. Range(v) = Range(s) \cup Range(w)
  <2>1. Range(v) \subseteq Range(s) \cup Range(w)
    <3> SUFFICES ASSUME NEW i \in DOMAIN v PROVE v[i] \in Range(s) \cup Range(w)
      BY DEF Range
    <3>1. CASE i \in 1..Len(s)
      BY <1>1, <1>2, <3>1 DEF Range
    <3>2. ASSUME NEW k \in 1..Len(w), i = Len(s) + k PROVE v[i] \in Range(w)
      BY <1>1, <1>3, <3>2 DEF Range
    <3>. QED
      BY <1>4, <3>1, <3>2
  <2>2. Range(s) \subseteq Range(v)
    BY <1>1, <1>2, <1>6 DEF Range
  <2>3. Range(w) \subseteq Range(v)
    BY <1>1, <1>3, <1>5 DEF Range
  <2>. QED
    BY <2>1, <2>2, <2>3
<1>8. ASSUME IsInjective(s), IsInjective(w), Range(s) \cap Range(w) = {} PROVE IsInjective(v)
  <2> SUFFICES ASSUME NEW a \in DOMAIN v, NEW b \in DOMAIN v, v[a] = v[b] PROVE a = b
    BY DEF IsInjective
  <2>1. CASE a \in 1..Len(s) /\ b \in 1..Len(s)
    BY <1>1, <1>2, <1>8, <2>1 DEF IsInjective
  <2>2. CASE a \notin 1..Len(s) /\ b \notin 1..Len(s)
    <3>1. PICK k \in 1..Len(w) : a = Len(s) + k
      BY <1>4, <2>2
    <3>2. PICK m \in 1..Len(w) : b = Len(s) + m
      BY <1>4, <2>2
    <3>3. w[k] = w[m]
      BY <1>3, <3>1, <3>2
    <3>. QED
      BY <1>1, <1>8, <3>1, <3>2, <3>3 DEF IsInjective
  <2>3. ASSUME NEW c \in 1..Len(s), NEW d \in DOMAIN v, d \notin 1..Len(s), v[c] = v[d] PROVE FALSE
    <3>1. PICK k \in 1..Len(w) : d = Len(s) + k
      BY <1>4, <2>3
    <3>2. s[c] = w[k]
      BY <1>2, <1>3, <2>3, <3>1
    <3>. QED
      BY <1>1, <1>8, <3>2 DEF Range
  <2>. QED
    BY <2>1, <2>2, <2>3
<1>. QED
  BY <1>1, <1>7, <1>8 DEF v

LEMMA AppendToChain ==
  ASSUME NEW T, NEW s \in Seq(T), NEW n \in T
  PROVE  /\ Append(s, n) \in Seq(T)
         /\ DOMAIN Append(s, n) = (DOMAIN s) \cup {Len(s) + 1} /\ Len(s) + 1 \notin DOMAIN s
         /\ Append(s, n)[Len(s) + 1] = n /\ \A i \in DOMAIN s : Append(s, n)[i] = s[i]
         /\ Range(Append(s, n)) = Range(s) \cup {n}
<1> DEFINE w == Append(s, n)
<1>1. /\ w \in Seq(T) /\ DOMAIN w = 1..(Len(s) + 1) /\ DOMAIN s = 1..Len(s) /\ Len(s) \in Nat
      /\ w[Len(s) + 1] = n /\ \A i \in DOMAIN s : w[i] = s[i]
  OBVIOUS
<1>2. 1..(Len(s) + 1) = (1..Len(s)) \cup {Len(s) + 1} /\ Len(s) + 1 \notin 1..Len(s)
  BY <1>1
<1>. HIDE DEF w
<1>3. Range(w) = Range(s) \cup {n}
  BY <1>1, <1>2 DEF Range
<1>. QED
  BY <1>1, <1>2, <1>3 DEF w

\* RemoveAt closes the gap.
LEMMA RemoveFromChain ==
  ASSUME NEW T, NEW s \in Seq(T), NEW i \in DOMAIN s
  PROVE  LET w == RemoveAt(s, i)
         IN  /\ w \in Seq(T)
             /\ \A k \in DOMAIN w : \E m \in DOMAIN s : m # i /\ w[k] = s[m] /\ m = IF k < i THEN k ELSE k + 1
             /\ \A m \in DOMAIN s : m # i => \E k \in DOMAIN w : w[k] = s[m]
<1> DEFINE a == SubSeq(s, 1, i - 1)
           b == SubSeq(s, i + 1, Len(s))
           w == a \o b
<1>1. i \in 1..Len(s) /\ DOMAIN s = 1..Len(s) /\ Len(s) \in Nat /\ \A k \in 1..Len(s) : s[k] \in T
  OBVIOUS
<1>2. a \in Seq(T) /\ Len(a) = i - 1 /\ \A k \in 1..(i - 1) : a[k] = s[k]
  BY <1>1
<1>3. b \in Seq(T) /\ Len(b) = Len(s) - i
  BY <1>1
<1>4. \A k \in 1..(Len(s) - i) : b[k] = s[i + k]
  BY <1>1
<1>. HIDE DEF a, b
<1>5. w \in Seq(T) /\ DOMAIN w = 1..(Len(s) - 1)
  <2>1. w \in Seq(T) /\ Len(w) = Len(a) + Len(b) /\ DOMAIN w = 1..Len(w)
    BY <1>2, <1>3
  <2>2. Len(a) + Len(b) = Len(s) - 1
    BY <1>1, <1>2, <1>3
  <2>. QED
    BY <2>1, <2>2
<1>6. \A k \in DOMAIN w : w[k] = IF k < i THEN a[k] ELSE b[k - (i - 1)]
  BY <1>1, <1>2, <1>3
<1>. HIDE DEF w
<1>7. ASSUME NEW k \in DOMAIN w PROVE w[k] = IF k < i THEN s[k] ELSE s[k + 1]
  <2>1. CASE k < i
    BY <1>1, <1>2, <1>5, <1>6, <2>1
  <2>2. CASE ~(k < i)
    <3>1. k - (i - 1) \in 1..(Len(s) - i) /\ i + (k - (i - 1)) = k + 1
      BY <1>1, <1>5, <2>2
    <3>. QED
      BY <1>4, <1>6, <2>2, <3>1
  <2>. QED
    BY <2>1, <2>2
<1>8. ASSUME NEW k \in DOMAIN w
      PROVE  \E m \in DOMAIN s : m # i /\ w[k] = s[m] /\ m = IF k < i THEN k ELSE k + 1
  <2>1. CASE k < i
    BY <1>1, <1>5, <1>7, <2>1
  <2>2. CASE ~(k < i)
    BY <1>1, <1>5, <1>7, <2>2
  <2>. QED
    BY <2>1, <2>2
<1>9. ASSUME NEW m \in DOMAIN s, m # i PROVE \E k \in DOMAIN w : w[k] = s[m]
  <2>1. CASE m < i
    BY <1>1, <1>5, <1>7, <2>1
  <2>2. CASE m > i
    <3>1. m - 1 \in DOMAIN w /\ ~(m - 1 < i) /\ (m - 1) + 1 = m
      BY <1>1, <1>5, <2>2
    <3>. QED
      BY <1>7, <3>1
  <2>. QED
    BY <1>1, <1>9, <2>1, <2>2
<1>. QED
  BY <1>5, <1>8, <1>9 DEF RemoveAt, w, a, b

\* A list without repetitions is as long as it has members.
LEMMA LengthIsCardinality ==
  ASSUME NEW T, NEW s \in Seq(T), IsInjective(s)
  PROVE  IsFiniteSet(Range(s)) /\ Cardinality(Range(s)) = Len(s)
<1>1. Len(s) \in Nat /\ DOMAIN s = 1..Len(s) /\ s \in [1..Len(s) -> Range(s)]
  BY DEF Range
<1>2. IsFiniteSet(1..Len(s)) /\ Cardinality(1..Len(s)) = Len(s)
  <2>1. 1 \in Int /\ Len(s) \in Int
    BY <1>1
  <2>2. IsFiniteSet(1..Len(s)) /\ Cardinality(1..Len(s)) = IF 1 > Len(s) THEN 0 ELSE Len(s) - 1 + 1
    BY <2>1, FS_Interval
  <2>. QED
    BY <1>1, <2>2
<1>3. s \in Bijection(1..Len(s), Range(s))
  BY <1>1 DEF Bijection, Injection, Surjection, IsInjective, Range
<1>4. ExistsBijection(1..Len(s), Range(s))
  BY <1>3 DEF ExistsBijection
<1>. QED
  BY <1>2, <1>4, FS_Bijection

-----------------------------------------------------------------------------
(* Tables *)

\* A key of the table is the key of one node only.
LEMMA OneNodePerKey ==
  ASSUME NEW t, NEW sz, Sorted(t, sz), NEW m \in AllNodes(t), NEW n \in AllNodes(t), m.key = n.key
  PROVE  m = n
<1>1. PICK i \in 0..(sz - 1) : \E a \in DOMAIN t[i] : m = t[i][a]
  BY DEF AllNodes, Range, Sorted
<1>2. PICK j \in 0..(sz - 1) : \E b \in DOMAIN t[j] : n = t[j][b]
  BY DEF AllNodes, Range, Sorted
<1>3. i = j
  BY <1>1, <1>2 DEF Sorted
<1>. QED
  BY <1>1, <1>2, <1>3 DEF Sorted

LEMMA BucketType ==
  ASSUME NEW k \in Keys, NEW sz \in Nat \ {0} PROVE Bucket(k, sz) \in 0..(sz - 1)
<1>1. Hash[k] \in Nat
  BY HTableAssumption
<1>. QED
  BY <1>1 DEF Bucket

LEMMA NodeTypes ==
  ASSUME NEW t, NEW sz, Sorted(t, sz)
  PROVE  \A n \in AllNodes(t) : n \in HTableNode /\ n.key \in Keys /\ n.data \in Data
<1>1. \A i \in 0..(sz - 1) : \A j \in DOMAIN t[i] : t[i][j] \in HTableNode
  BY DEF Sorted
<1>. QED
  BY <1>1 DEF AllNodes, Range, Sorted, HTableNode

\* A node with a new key at the tail of its chain.
LEMMA InsertTailFacts ==
  ASSUME NEW t, NEW sz \in Nat \ {0}, Sorted(t, sz), NEW n \in HTableNode,
         \A m \in AllNodes(t) : m.key # n.key
  PROVE  /\ Sorted(InsertTail(t, sz, n), sz)
         /\ AllNodes(InsertTail(t, sz, n)) = AllNodes(t) \cup {n}
<1> DEFINE b == Bucket(n.key, sz)
           w == Append(t[b], n)
           u == InsertTail(t, sz, n)
<1>1. b \in 0..(sz - 1)
  BY BucketType DEF HTableNode
<1>2. t[b] \in Seq(HTableNode)
  BY <1>1 DEF Sorted
<1>3. /\ w \in Seq(HTableNode)
      /\ DOMAIN w = (DOMAIN t[b]) \cup {Len(t[b]) + 1} /\ Len(t[b]) + 1 \notin DOMAIN t[b]
      /\ w[Len(t[b]) + 1] = n /\ \A i \in DOMAIN t[b] : w[i] = t[b][i]
      /\ Range(w) = Range(t[b]) \cup {n}
  BY <1>2, AppendToChain
<1>4. DOMAIN t = 0..(sz - 1)
  BY DEF Sorted
<1>5. u = [t EXCEPT ![b] = w]
  BY DEF InsertTail
<1>6. DOMAIN u = 0..(sz - 1) /\ u[b] = w /\ \A i \in 0..(sz - 1) : i # b => u[i] = t[i]
  BY <1>1, <1>4, <1>5
<1>. HIDE DEF w, u
<1>7. ASSUME NEW j \in DOMAIN t[b] PROVE t[b][j] \in AllNodes(t)
  BY <1>1, <1>4 DEF AllNodes, Range
<1>8. Sorted(u, sz)
  <2>1. u \in [0..(sz - 1) -> Seq(HTableNode)]
    BY <1>1, <1>3, <1>5 DEF Sorted
  <2>2. \A i \in 0..(sz - 1) : \A j \in DOMAIN u[i] : Bucket(u[i][j].key, sz) = i
    <3> TAKE i \in 0..(sz - 1)
    <3> TAKE j \in DOMAIN u[i]
    <3>1. CASE i = b /\ j = Len(t[b]) + 1
      BY <1>3, <1>6, <3>1
    <3>2. CASE i = b /\ j # Len(t[b]) + 1
      BY <1>3, <1>6, <3>2 DEF Sorted
    <3>3. CASE i # b
      BY <1>6, <3>3 DEF Sorted
    <3>. QED
      BY <3>1, <3>2, <3>3
  <2>3. \A i \in 0..(sz - 1) : \A j, k \in DOMAIN u[i] : u[i][j].key = u[i][k].key => j = k
    <3> TAKE i \in 0..(sz - 1)
    <3>1. CASE i # b
      BY <1>6, <3>1 DEF Sorted
    <3>2. CASE i = b
      <4>1. \A j, k \in DOMAIN t[b] : t[b][j].key = t[b][k].key => j = k
        BY <1>1 DEF Sorted
      <4>2. \A j \in DOMAIN t[b] : t[b][j].key # n.key
        BY <1>7
      <4>. QED
        BY <1>3, <1>6, <3>2, <4>1, <4>2
    <3>. QED
      BY <3>1, <3>2
  <2>. QED
    BY <2>1, <2>2, <2>3 DEF Sorted
<1>9. AllNodes(u) = AllNodes(t) \cup {n}
  <2>1. \A i \in 0..(sz - 1) : Range(u[i]) = IF i = b THEN Range(t[i]) \cup {n} ELSE Range(t[i])
    BY <1>3, <1>6
  <2>. QED
    BY <1>1, <1>4, <1>6, <2>1 DEF AllNodes
<1>. QED
  BY <1>8, <1>9 DEF u

\* Without the node i of chain b.
LEMMA RemoveFacts ==
  ASSUME NEW t, NEW sz \in Nat \ {0}, Sorted(t, sz), NEW b \in 0..(sz - 1), NEW i \in DOMAIN t[b],
         NEW u, u = [c \in 0..(sz - 1) |-> IF c = b THEN RemoveAt(t[b], i) ELSE t[c]]
  PROVE  Sorted(u, sz) /\ AllNodes(u) = AllNodes(t) \ {t[b][i]}
<1> DEFINE w == RemoveAt(t[b], i)
<1>1. t[b] \in Seq(HTableNode) /\ DOMAIN t = 0..(sz - 1) /\ DOMAIN t[b] \subseteq Nat
  BY DEF Sorted
<1>2. /\ w \in Seq(HTableNode) /\ DOMAIN w \subseteq Nat
      /\ \A k \in DOMAIN w : \E m \in DOMAIN t[b] : m # i /\ w[k] = t[b][m] /\ m = IF k < i THEN k ELSE k + 1
      /\ \A m \in DOMAIN t[b] : m # i => \E k \in DOMAIN w : w[k] = t[b][m]
  <2>1. w \in Seq(HTableNode) => DOMAIN w \subseteq Nat
    <3>. HIDE DEF w
    <3>. QED
      OBVIOUS
  <2>. QED
    BY <1>1, <2>1, RemoveFromChain
<1>3. DOMAIN u = 0..(sz - 1) /\ u[b] = w /\ \A j \in 0..(sz - 1) : j # b => u[j] = t[j]
  BY <1>1
<1>. HIDE DEF w
<1>4. u \in [0..(sz - 1) -> Seq(HTableNode)]
  <2>1. \A c \in 0..(sz - 1) : t[c] \in Seq(HTableNode)
    BY DEF Sorted
  <2>2. u = [c \in 0..(sz - 1) |-> IF c = b THEN w ELSE t[c]]
    BY DEF w
  <2>. QED
    BY <1>2, <2>1, <2>2
<1>5. Sorted(u, sz)
  <2>1. \A c \in 0..(sz - 1) : \A j \in DOMAIN u[c] : Bucket(u[c][j].key, sz) = c
    <3> TAKE c \in 0..(sz - 1)
    <3>1. CASE c = b
      BY <1>2, <1>3, <3>1 DEF Sorted
    <3>2. CASE c # b
      BY <1>3, <3>2 DEF Sorted
    <3>. QED
      BY <3>1, <3>2
  <2>2. \A c \in 0..(sz - 1) : \A j, k \in DOMAIN u[c] : u[c][j].key = u[c][k].key => j = k
    <3> TAKE c \in 0..(sz - 1)
    <3>1. CASE c # b
      BY <1>3, <3>1 DEF Sorted
    <3>2. ASSUME c = b, NEW j \in DOMAIN w, NEW k \in DOMAIN w, w[j].key = w[k].key PROVE j = k
      <4>1. PICK m \in DOMAIN t[b] : w[j] = t[b][m] /\ m = IF j < i THEN j ELSE j + 1
        BY <1>2, <3>2
      <4>2. PICK n \in DOMAIN t[b] : w[k] = t[b][n] /\ n = IF k < i THEN k ELSE k + 1
        BY <1>2, <3>2
      <4>3. m = n
        BY <3>2, <4>1, <4>2 DEF Sorted
      <4>4. j \in Nat /\ k \in Nat /\ i \in Nat
        BY <1>1, <1>2, <3>2
      <4>. QED
        BY <4>1, <4>2, <4>3, <4>4
    <3>. QED
      BY <1>3, <3>1, <3>2
  <2>. QED
    BY <1>4, <2>1, <2>2 DEF Sorted
<1>6. t[b][i] \in Range(t[b])
  BY DEF Range
<1>7. Range(w) = Range(t[b]) \ {t[b][i]}
  <2>1. \A m \in DOMAIN t[b] : t[b][m] = t[b][i] => m = i
    BY DEF Sorted
  <2>2. Range(w) \subseteq Range(t[b]) \ {t[b][i]}
    BY <1>2, <2>1 DEF Range
  <2>3. Range(t[b]) \ {t[b][i]} \subseteq Range(w)
    <3> SUFFICES ASSUME NEW m \in DOMAIN t[b], t[b][m] # t[b][i] PROVE t[b][m] \in Range(w)
      BY DEF Range
    <3>1. PICK k \in DOMAIN w : w[k] = t[b][m]
      BY <1>2
    <3>. QED
      BY <3>1 DEF Range
  <2>. QED
    BY <2>2, <2>3
<1>8. ASSUME NEW c \in 0..(sz - 1), c # b PROVE t[b][i] \notin Range(t[c])
  <2> SUFFICES ASSUME NEW j \in DOMAIN t[c], t[c][j] = t[b][i] PROVE FALSE
    BY DEF Range
  <2>1. Bucket(t[c][j].key, sz) = c /\ Bucket(t[b][i].key, sz) = b
    BY DEF Sorted
  <2>. QED
    BY <1>8, <2>1
<1>9. AllNodes(u) = AllNodes(t) \ {t[b][i]}
  BY <1>1, <1>3, <1>7, <1>8 DEF AllNodes
<1>. QED
  BY <1>5, <1>9

-----------------------------------------------------------------------------
(* Growing *)

\* FlattenSeq is the value of a function that goes through the chains.
FlatBody(c, F, i) == IF i = 1 THEN c[i] ELSE F[i - 1] \o c[i]
IsFlat(c, n, F) == F = [i \in 1..n |-> FlatBody(c, F, i)]

LEMMA FlatExists == ASSUME NEW c, NEW n \in Nat PROVE \E F : IsFlat(c, n, F)
<1> DEFINE Bad == {m \in Nat : ~\E F : IsFlat(c, m, F)}
<1> SUFFICES ASSUME Bad # {} PROVE FALSE
  OBVIOUS
<1>1. PICK m \in Bad : \A k \in Bad : m <= k
  <2>1. Bad \in SUBSET Nat
    OBVIOUS
  <2>. HIDE DEF Bad
  <2>. QED
    BY <2>1, Least
<1>2. CASE m = 0
  <2> DEFINE F == [i \in 1..0 |-> c[i]]
  <2>1. F = [i \in 1..0 |-> FlatBody(c, F, i)]
    <3>1. \A i : i \notin 1..0
      OBVIOUS
    <3>. QED
      BY <3>1
  <2>. QED
    BY <1>1, <1>2, <2>1 DEF IsFlat
<1>3. CASE m # 0
  <2>1. m \in Nat /\ m - 1 \in Nat /\ m - 1 \notin Bad
    BY <1>1, <1>3
  <2>2. PICK F : IsFlat(c, m - 1, F)
    BY <2>1
  <2> DEFINE last == IF m = 1 THEN c[m] ELSE F[m - 1] \o c[m]
             G == [i \in 1..m |-> IF i = m THEN last ELSE F[i]]
  <2>3. \A i \in 1..m : G[i] = IF i = m THEN last ELSE F[i]
    OBVIOUS
  <2>4. \A i \in 1..(m - 1) : F[i] = FlatBody(c, F, i)
    BY <2>2 DEF IsFlat
  <2>. HIDE DEF G, last
  <2>5. ASSUME NEW i \in 1..m PROVE G[i] = FlatBody(c, G, i)
    <3>1. CASE i = m
      <4>1. m # 1 => m - 1 \in 1..m /\ m - 1 # m
        BY <1>3, <2>1
      <4>2. m # 1 => G[m - 1] = F[m - 1]
        BY <2>3, <4>1
      <4>. QED
        BY <2>3, <3>1, <4>2 DEF FlatBody, last
    <3>2. CASE i # m
      <4>1. i \in 1..(m - 1) /\ G[i] = F[i]
        BY <2>1, <2>3, <3>2
      <4>2. i # 1 => i - 1 \in 1..m /\ i - 1 # m
        BY <2>1, <4>1
      <4>. QED
        BY <2>3, <2>4, <4>1, <4>2 DEF FlatBody
    <3>. QED
      BY <3>1, <3>2
  <2>6. G = [i \in 1..m |-> FlatBody(c, G, i)]
    BY <2>5 DEF G
  <2>. QED
    BY <1>1, <2>6 DEF IsFlat
<1>. QED
  BY <1>2, <1>3

\* All nodes of the table, chain after chain.
Flattened(t, sz) == FlattenSeq([i \in 1..sz |-> t[i - 1]])

LEMMA FlattenedIs ==
  ASSUME NEW t, NEW sz \in Nat \ {0}
  PROVE  \E F : /\ Flattened(t, sz) = F[sz]
                /\ \A i \in 1..sz : F[i] = IF i = 1 THEN t[0] ELSE F[i - 1] \o t[i - 1]
<1> DEFINE c == [i \in 1..sz |-> t[i - 1]]
           F == CHOOSE F : F = [i \in 1..Len(c) |-> IF i = 1 THEN c[i] ELSE F[i - 1] \o c[i]]
<1>1. Len(c) = sz
  OBVIOUS
<1>2. \A i \in 1..sz : c[i] = t[i - 1]
  OBVIOUS
<1>. HIDE DEF c
<1>3. \E G : G = [i \in 1..Len(c) |-> IF i = 1 THEN c[i] ELSE G[i - 1] \o c[i]]
  <2>1. \E G : IsFlat(c, Len(c), G)
    BY <1>1, FlatExists
  <2>. QED
    BY <2>1 DEF IsFlat, FlatBody
<1>4. F = [i \in 1..Len(c) |-> IF i = 1 THEN c[i] ELSE F[i - 1] \o c[i]]
  BY <1>3
<1>5. FlattenSeq(c) = F[sz]
  BY <1>1 DEF FlattenSeq
<1>. HIDE DEF F
<1>6. \A i \in 1..sz : F[i] = IF i = 1 THEN c[1] ELSE F[i - 1] \o c[i]
  BY <1>1, <1>4
<1>7. Flattened(t, sz) = F[sz]
  BY <1>5 DEF Flattened, c
<1>8. 1 \in 1..sz /\ c[1] = t[0]
  BY <1>2
<1>. QED
  BY <1>2, <1>6, <1>7, <1>8

LEMMA FlattenedFacts ==
  ASSUME NEW t, NEW sz \in Nat \ {0}, Sorted(t, sz)
  PROVE  /\ Flattened(t, sz) \in Seq(HTableNode) /\ IsInjective(Flattened(t, sz))
         /\ Range(Flattened(t, sz)) = AllNodes(t)
<1>1. PICK F : /\ Flattened(t, sz) = F[sz]
               /\ \A i \in 1..sz : F[i] = IF i = 1 THEN t[0] ELSE F[i - 1] \o t[i - 1]
  BY FlattenedIs
<1> DEFINE Upto(n) == UNION {Range(t[c]) : c \in 0..(n - 1)}
           Good(n) == F[n] \in Seq(HTableNode) /\ IsInjective(F[n]) /\ Range(F[n]) = Upto(n)
           Bad == {n \in 1..sz : ~Good(n)}
<1>2. \A c \in 0..(sz - 1) : t[c] \in Seq(HTableNode) /\ IsInjective(t[c])
  BY DEF Sorted, IsInjective
<1>3. ASSUME NEW n \in 1..sz, n # 1 PROVE Range(t[n - 1]) \cap Upto(n - 1) = {}
  <2> SUFFICES ASSUME NEW c \in 0..(n - 2), NEW x, x \in Range(t[c]), x \in Range(t[n - 1]) PROVE FALSE
    BY <1>3
  <2>1. c \in 0..(sz - 1) /\ n - 1 \in 0..(sz - 1) /\ c # n - 1
    BY <1>3
  <2>2. PICK j \in DOMAIN t[c] : x = t[c][j]
    BY DEF Range
  <2>3. PICK k \in DOMAIN t[n - 1] : x = t[n - 1][k]
    BY DEF Range
  <2>4. Bucket(x.key, sz) = c
    BY <2>1, <2>2 DEF Sorted
  <2>5. Bucket(x.key, sz) = n - 1
    BY <2>1, <2>3 DEF Sorted
  <2>. QED
    BY <2>1, <2>4, <2>5
<1>4. ASSUME Bad # {} PROVE FALSE
  <2>1. PICK n \in Bad : \A k \in Bad : n <= k
    <3>1. Bad \in SUBSET Nat
      OBVIOUS
    <3>. HIDE DEF Bad
    <3>. QED
      BY <1>4, <3>1, Least
  <2>2. n \in 1..sz /\ ~Good(n)
    BY <2>1
  <2>3. CASE n = 1
    <3>1. F[1] = t[0] /\ 0 \in 0..(sz - 1)
      BY <1>1
    <3>2. 0..(1 - 1) = {0}
      OBVIOUS
    <3>3. Upto(1) = Range(t[0])
      BY <3>2
    <3>4. Good(1)
      <4>. HIDE DEF Upto
      <4>. QED
        BY <1>2, <3>1, <3>3
    <3>. QED
      BY <2>2, <2>3, <3>4
  <2>4. CASE n # 1
    <3>1. n - 1 \in 1..sz /\ n - 1 \in 0..(sz - 1) /\ ~(n <= n - 1)
      BY <2>2, <2>4
    <3>2. Good(n - 1)
      <4>. HIDE DEF Good
      <4>. QED
        BY <2>1, <3>1
    <3>3. 0..(n - 1) = (0..((n - 1) - 1)) \cup {n - 1}
      BY <3>1
    <3>4. Upto(n) = Upto(n - 1) \cup Range(t[n - 1])
      BY <3>3
    <3>5. F[n] = F[n - 1] \o t[n - 1]
      BY <1>1, <2>2, <2>4
    <3>6. Range(t[n - 1]) \cap Upto(n - 1) = {}
      BY <1>3, <2>2, <2>4
    <3>7. Good(n)
      <4>. HIDE DEF Upto
      <4>. QED
        BY <1>2, <3>1, <3>2, <3>4, <3>5, <3>6, ConcatFacts
    <3>. QED
      BY <2>2, <3>7
  <2>. QED
    BY <2>3, <2>4
<1>5. Good(sz)
  <2>. HIDE DEF Good
  <2>1. sz \in 1..sz
    OBVIOUS
  <2>. QED
    BY <1>4, <2>1
<1>6. Upto(sz) = AllNodes(t)
  BY DEF AllNodes, Sorted
<1>. QED
  <2>. HIDE DEF Upto
  <2>. QED
    BY <1>1, <1>5, <1>6

\* Counting the nodes.
LEMMA CountOfNodes ==
  ASSUME NEW t, NEW sz \in Nat \ {0}, Sorted(t, sz)
  PROVE  /\ IsFiniteSet(AllNodes(t)) /\ Cardinality(AllNodes(t)) \in Nat
         /\ Len(Flattened(t, sz)) = Cardinality(AllNodes(t))
<1>1. /\ Flattened(t, sz) \in Seq(HTableNode) /\ IsInjective(Flattened(t, sz))
      /\ Range(Flattened(t, sz)) = AllNodes(t)
  BY FlattenedFacts
<1>2. Len(Flattened(t, sz)) \in Nat
  BY <1>1
<1>. QED
  BY <1>1, <1>2, LengthIsCardinality

\* The nodes are moved one after the other.
MovedBody(nodes, newsize, M, n) ==
    IF n = 0 THEN [j \in 0..(newsize - 1) |-> <<>>] ELSE InsertTail(M[n - 1], newsize, nodes[n])
IsMoved(nodes, newsize, m, M) == M = [n \in 0..m |-> MovedBody(nodes, newsize, M, n)]

LEMMA MovedExists ==
  ASSUME NEW nodes, NEW newsize, NEW n \in Nat
  PROVE  \E M : IsMoved(nodes, newsize, n, M)
<1> DEFINE Bad == {m \in Nat : ~\E M : IsMoved(nodes, newsize, m, M)}
<1> SUFFICES ASSUME Bad # {} PROVE FALSE
  OBVIOUS
<1>1. PICK m \in Bad : \A k \in Bad : m <= k
  <2>1. Bad \in SUBSET Nat
    OBVIOUS
  <2>. HIDE DEF Bad
  <2>. QED
    BY <2>1, Least
<1>2. CASE m = 0
  <2> DEFINE M == [k \in 0..0 |-> [j \in 0..(newsize - 1) |-> <<>>]]
  <2>1. M = [k \in 0..0 |-> MovedBody(nodes, newsize, M, k)]
    BY DEF MovedBody
  <2>. QED
    BY <1>1, <1>2, <2>1 DEF IsMoved
<1>3. CASE m # 0
  <2>1. m \in Nat /\ m - 1 \in Nat /\ m - 1 \notin Bad
    BY <1>1, <1>3
  <2>2. PICK F : IsMoved(nodes, newsize, m - 1, F)
    BY <2>1
  <2> DEFINE last == InsertTail(F[m - 1], newsize, nodes[m])
             G == [i \in 0..m |-> IF i = m THEN last ELSE F[i]]
  <2>3. \A i \in 0..m : G[i] = IF i = m THEN last ELSE F[i]
    OBVIOUS
  <2>4. \A i \in 0..(m - 1) : F[i] = MovedBody(nodes, newsize, F, i)
    BY <2>2 DEF IsMoved
  <2>. HIDE DEF G, last
  <2>5. ASSUME NEW i \in 0..m PROVE G[i] = MovedBody(nodes, newsize, G, i)
    <3>1. CASE i = m
      <4>1. m - 1 \in 0..m /\ m - 1 # m
        BY <1>3, <2>1
      <4>2. G[m - 1] = F[m - 1]
        BY <2>3, <4>1
      <4>. QED
        BY <1>3, <2>3, <3>1, <4>2 DEF MovedBody, last
    <3>2. CASE i # m
      <4>1. i \in 0..(m - 1) /\ G[i] = F[i]
        BY <2>1, <2>3, <3>2
      <4>2. i # 0 => i - 1 \in 0..m /\ i - 1 # m
        BY <2>1, <4>1
      <4>. QED
        BY <2>3, <2>4, <4>1, <4>2 DEF MovedBody
    <3>. QED
      BY <3>1, <3>2
  <2>6. G = [i \in 0..m |-> MovedBody(nodes, newsize, G, i)]
    BY <2>5 DEF G
  <2>. QED
    BY <1>1, <2>6 DEF IsMoved
<1>. QED
  BY <1>2, <1>3

LEMMA RehashIs ==
  ASSUME NEW t, NEW sz \in Nat \ {0}, Sorted(t, sz), NEW newsize
  PROVE  \E M : /\ Rehash(t, sz, newsize) = M[Len(Flattened(t, sz))]
                /\ \A n \in 0..Len(Flattened(t, sz)) :
                     M[n] = MovedBody(Flattened(t, sz), newsize, M, n)
<1> DEFINE nodes == Flattened(t, sz)
           M == CHOOSE M : M = [n \in 0..Len(nodes) |-> MovedBody(nodes, newsize, M, n)]
<1>1. Len(nodes) \in Nat
  BY FlattenedFacts
<1>2. \E G : G = [n \in 0..Len(nodes) |-> MovedBody(nodes, newsize, G, n)]
  <2>1. \E G : IsMoved(nodes, newsize, Len(nodes), G)
    BY <1>1, MovedExists
  <2>. QED
    BY <2>1 DEF IsMoved
<1>3. M = [n \in 0..Len(nodes) |-> MovedBody(nodes, newsize, M, n)]
  BY <1>2
<1>4. Rehash(t, sz, newsize) = M[Len(nodes)]
  BY DEF Rehash, Flattened, MovedBody
<1>. HIDE DEF M
<1>. QED
  BY <1>3, <1>4

\* The new table has the nodes of the old one, each in the chain of its key.
LEMMA RehashFacts ==
  ASSUME NEW t, NEW sz \in Nat \ {0}, Sorted(t, sz), NEW newsize \in Nat \ {0}
  PROVE  Sorted(Rehash(t, sz, newsize), newsize) /\ AllNodes(Rehash(t, sz, newsize)) = AllNodes(t)
<1> DEFINE nodes == Flattened(t, sz)
<1>1. PICK M : /\ Rehash(t, sz, newsize) = M[Len(nodes)]
               /\ \A n \in 0..Len(nodes) : M[n] = MovedBody(nodes, newsize, M, n)
  BY RehashIs
<1>2. /\ nodes \in Seq(HTableNode) /\ IsInjective(nodes) /\ Range(nodes) = AllNodes(t)
  BY FlattenedFacts
<1>3. /\ Len(nodes) \in Nat /\ DOMAIN nodes = 1..Len(nodes) /\ \A i \in 1..Len(nodes) : nodes[i] \in HTableNode
  BY <1>2
<1>. HIDE DEF nodes
<1>4. ASSUME NEW i \in 1..Len(nodes), NEW j \in 1..Len(nodes), nodes[i].key = nodes[j].key PROVE i = j
  <2>1. nodes[i] \in AllNodes(t) /\ nodes[j] \in AllNodes(t)
    BY <1>2, <1>3 DEF Range
  <2>2. nodes[i] = nodes[j]
    BY <1>4, <2>1, OneNodePerKey
  <2>. QED
    BY <1>2, <1>3, <2>2 DEF IsInjective
<1> DEFINE Upto(n) == {nodes[k] : k \in 1..n}
           Good(n) == Sorted(M[n], newsize) /\ AllNodes(M[n]) = Upto(n)
           Bad == {n \in 0..Len(nodes) : ~Good(n)}
<1>5. ASSUME Bad # {} PROVE FALSE
  <2>1. PICK n \in Bad : \A k \in Bad : n <= k
    <3>1. Bad \in SUBSET Nat
      OBVIOUS
    <3>. HIDE DEF Bad
    <3>. QED
      BY <1>5, <3>1, Least
  <2>2. n \in 0..Len(nodes) /\ ~Good(n)
    BY <2>1
  <2>3. CASE n = 0
    <3>1. M[0] = [j \in 0..(newsize - 1) |-> <<>>]
      BY <1>1, <2>2, <2>3 DEF MovedBody
    <3>2. Sorted(M[0], newsize)
      BY <3>1 DEF Sorted
    <3>3. AllNodes(M[0]) = {} /\ Upto(0) = {}
      BY <3>1 DEF AllNodes, Range
    <3>. QED
      BY <2>2, <2>3, <3>2, <3>3
  <2>4. CASE n # 0
    <3>1. n - 1 \in 0..Len(nodes) /\ n \in 1..Len(nodes) /\ ~(n <= n - 1)
      BY <1>3, <2>2, <2>4
    <3>2. Good(n - 1)
      <4>. HIDE DEF Good
      <4>. QED
        BY <2>1, <3>1
    <3>3. 1..n = (1..(n - 1)) \cup {n} /\ n \notin 1..(n - 1) /\ 1..(n - 1) \subseteq 1..Len(nodes)
      BY <1>3, <3>1
    <3>4. Upto(n) = Upto(n - 1) \cup {nodes[n]}
      BY <3>3
    <3>5. M[n] = InsertTail(M[n - 1], newsize, nodes[n])
      BY <1>1, <2>2, <2>4 DEF MovedBody
    <3>6. \A m \in Upto(n - 1) : m.key # nodes[n].key
      BY <1>4, <3>1, <3>3
    <3>7. Good(n)
      <4>. HIDE DEF Upto
      <4>. QED
        BY <1>3, <3>1, <3>2, <3>4, <3>5, <3>6, InsertTailFacts
    <3>. QED
      BY <2>2, <3>7
  <2>. QED
    BY <2>3, <2>4
<1>6. Good(Len(nodes))
  <2>. HIDE DEF Good
  <2>. QED
    BY <1>3, <1>5
<1>7. Upto(Len(nodes)) = AllNodes(t)
  BY <1>2, <1>3 DEF Range
<1>. QED
  <2>. HIDE DEF Upto
  <2>. QED
    BY <1>1, <1>6, <1>7

-----------------------------------------------------------------------------
(* The calls that change the table *)

TableInv ==
    /\ ht_size \in Nat \ {0} /\ ht_used \in Nat /\ ht_limit \in Nat /\ ht_grows \in Nat
    /\ Sorted(ht_table, ht_size) /\ TableCounted

LEMMA HTableConstants ==
  /\ ht_factor \in Nat /\ MaxSize \in Nat /\ InitSize \in Nat \ {0} /\ MaxGrows \in Nat
  /\ NULL \notin Keys /\ NULL \notin Data
BY HTableAssumption

\* A search goes through the one chain where the key can be.
LEMMA PlacesFacts ==
  ASSUME TableInv, NEW k \in Keys
  PROVE  /\ Places(k) = {} <=> \A n \in AllNodes(ht_table) : n.key # k
         /\ \A i \in Places(k) : /\ i \in DOMAIN Chain(k)
                                 /\ Chain(k)[i] \in AllNodes(ht_table) /\ Chain(k)[i].key = k
         /\ \A i, j \in Places(k) : i = j
<1> DEFINE b == Bucket(k, ht_size)
<1>1. b \in 0..(ht_size - 1) /\ Sorted(ht_table, ht_size)
  BY BucketType DEF TableInv
<1>2. Chain(k) = ht_table[b] /\ DOMAIN ht_table = 0..(ht_size - 1)
  BY <1>1 DEF Chain, Sorted
<1>. HIDE DEF b
<1>3. ASSUME NEW i \in Places(k)
      PROVE  i \in DOMAIN Chain(k) /\ Chain(k)[i] \in AllNodes(ht_table) /\ Chain(k)[i].key = k
  BY <1>1, <1>2 DEF Places, AllNodes, Range
<1>4. ASSUME NEW n \in AllNodes(ht_table), n.key = k PROVE Places(k) # {}
  <2>1. PICK i \in 0..(ht_size - 1) : \E j \in DOMAIN ht_table[i] : n = ht_table[i][j]
    BY <1>2 DEF AllNodes, Range
  <2>2. i = b
    BY <1>1, <1>4, <2>1 DEF Sorted, b
  <2>. QED
    BY <1>2, <1>4, <2>1, <2>2 DEF Places
<1>5. \A i, j \in Places(k) : i = j
  BY <1>1, <1>2 DEF Places, Sorted
<1>. QED
  BY <1>3, <1>4, <1>5

LEMMA LeastPlace ==
  ASSUME TableInv, NEW k \in Keys, Places(k) # {}
  PROVE  (CHOOSE i \in Places(k) : \A j \in Places(k) : i <= j) \in Places(k)
<1>1. PICK i \in Places(k) : TRUE
  OBVIOUS
<1>2. \A j \in Places(k) : j = i
  BY PlacesFacts
<1>3. i \in Nat
  <2>1. Bucket(k, ht_size) \in 0..(ht_size - 1)
    BY BucketType DEF TableInv
  <2>2. Chain(k) \in Seq(HTableNode)
    BY <2>1 DEF TableInv, Sorted, Chain
  <2>. QED
    BY <2>2 DEF Places
<1>4. \A j \in Places(k) : i <= j
  BY <1>2, <1>3
<1>. QED
  BY <1>4

LEMMA GrowFacts ==
  ASSUME TableInv, NEW t, Sorted(t, ht_size), Grow(t)
  PROVE  /\ ht_size' \in Nat \ {0} /\ ht_limit' \in Nat
         /\ Sorted(ht_table', ht_size') /\ AllNodes(ht_table') = AllNodes(t)
         /\ ht_limit' = ht_factor * ht_size'
         /\ \/ 2 * ht_size <= MaxSize /\ ht_size' = 2 * ht_size /\ ht_limit' = 2 * ht_limit
            \/ ~(2 * ht_size <= MaxSize) /\ UNCHANGED <<ht_size, ht_limit>>
<1>0. ht_size \in Nat \ {0} /\ ht_limit = ht_factor * ht_size /\ ht_limit \in Nat /\ ht_factor \in Nat
  BY HTableConstants DEF TableInv, TableCounted
<1>1. CASE 2 * ht_size <= MaxSize
  <2>1. /\ ht_table' = Rehash(t, ht_size, 2 * ht_size) /\ ht_size' = 2 * ht_size
        /\ ht_limit' = ht_factor * (2 * ht_size)
    BY <1>1 DEF Grow
  <2>2. 2 * ht_size \in Nat \ {0}
    BY <1>0
  <2>3. /\ Sorted(Rehash(t, ht_size, 2 * ht_size), 2 * ht_size)
        /\ AllNodes(Rehash(t, ht_size, 2 * ht_size)) = AllNodes(t)
    BY <1>0, <2>2, RehashFacts
  <2>4. ht_factor * (2 * ht_size) = 2 * (ht_factor * ht_size)
    BY <1>0
  <2>5. ht_limit' = 2 * ht_limit /\ ht_limit' \in Nat
    BY <1>0, <2>1, <2>4
  <2>. QED
    BY <1>1, <2>1, <2>2, <2>3, <2>5
<1>2. CASE ~(2 * ht_size <= MaxSize)
  BY <1>0, <1>2 DEF Grow
<1>. QED
  BY <1>1, <1>2

\* What one insertion does to the contents.
Inserted(k, d) ==
    \/ /\ \E n \in AllNodes(ht_table) : n.key = k
       /\ ret' = "HT_EXISTS" /\ AllNodes(ht_table') = AllNodes(ht_table)
    \/ /\ \A n \in AllNodes(ht_table) : n.key # k
       /\ \/ ret' = "HT_NOMEM" /\ AllNodes(ht_table') = AllNodes(ht_table)
          \/ /\ ret' = "HT_OK"
             /\ AllNodes(ht_table') = AllNodes(ht_table) \cup {[key |-> k, data |-> d]}

LEMMA CountAfterInsert ==
  ASSUME NEW u \in Nat, NEW l \in Nat, NEW m \in Nat, m > 0 => u <= l, l > 0
  PROVE  m > 0 => u + 1 <= 2 * l
OBVIOUS

LEMMA ProductPositive == ASSUME NEW a \in Nat, NEW b \in Nat \ {0}, a > 0 PROVE a * b > 0
OBVIOUS

LEMMA InsertKeeps ==
  ASSUME TableInv, NEW k \in Keys, NEW d \in Data, htable_insert(k, d)
  PROVE  TableInv' /\ Inserted(k, d)
<1> DEFINE n == [key |-> k, data |-> d]
           t == InsertTail(ht_table, ht_size, n)
<1>1. n \in HTableNode /\ n.key = k
  BY DEF HTableNode
<1>2. CASE UNCHANGED table
  <2>1. TableInv'
    BY <1>2 DEF TableInv, TableCounted, table
  <2>2. \/ ret' = "HT_EXISTS" /\ Places(k) # {}
        \/ ret' = "HT_NOMEM" /\ Places(k) = {}
        \/ ht_used' = ht_used + 1
    BY DEF htable_insert
  <2>3. ht_used' = ht_used /\ ht_used \in Nat /\ ht_table' = ht_table
    BY <1>2 DEF table, TableInv
  <2>. QED
    BY <2>1, <2>2, <2>3, PlacesFacts DEF Inserted
<1>3. CASE /\ Places(k) = {} /\ ret' = "HT_OK" /\ ht_used' = ht_used + 1
           /\ IF ht_used + 1 > ht_limit
                THEN Grow(t) /\ ht_grows' = ht_grows + 1
                ELSE ht_table' = t /\ UNCHANGED <<ht_size, ht_limit, ht_grows>>
  <2>1. \A m \in AllNodes(ht_table) : m.key # n.key
    BY <1>1, <1>3, PlacesFacts
  <2>2. Sorted(t, ht_size) /\ AllNodes(t) = AllNodes(ht_table) \cup {n}
    BY <1>1, <2>1, InsertTailFacts DEF TableInv
  <2>3. /\ IsFiniteSet(AllNodes(ht_table)) /\ ht_used = Cardinality(AllNodes(ht_table))
        /\ ht_used \in Nat /\ ht_limit \in Nat /\ ht_size \in Nat \ {0} /\ ht_grows \in Nat
        /\ ht_limit = ht_factor * ht_size /\ ht_factor \in Nat
        /\ (ht_factor > 0 /\ ht_used > ht_limit => 2 * ht_size > MaxSize)
    BY CountOfNodes, HTableConstants DEF TableInv, TableCounted
  <2>4. Cardinality(AllNodes(ht_table) \cup {n}) = ht_used + 1
    BY <2>1, <2>3, FS_AddElement
  <2>. HIDE DEF t, n
  <2>5. CASE ht_used + 1 > ht_limit
    <3>1. Grow(t) /\ ht_grows' = ht_grows + 1
      BY <1>3, <2>5
    <3>2. /\ ht_size' \in Nat \ {0} /\ ht_limit' \in Nat
          /\ Sorted(ht_table', ht_size') /\ AllNodes(ht_table') = AllNodes(t)
          /\ ht_limit' = ht_factor * ht_size'
          /\ \/ 2 * ht_size <= MaxSize /\ ht_size' = 2 * ht_size /\ ht_limit' = 2 * ht_limit
             \/ ~(2 * ht_size <= MaxSize) /\ UNCHANGED <<ht_size, ht_limit>>
      BY <2>2, <3>1, GrowFacts
    <3>3. ASSUME ht_factor > 0, ht_used' > ht_limit' PROVE 2 * ht_size' > MaxSize
      <4>1. CASE 2 * ht_size <= MaxSize /\ ht_limit' = 2 * ht_limit
        <5>1. ht_used <= ht_limit
          BY <2>3, <3>3, <4>1, HTableConstants
        <5>2. ht_limit > 0
          BY <2>3, <3>3, ProductPositive
        <5>3. ht_used + 1 <= 2 * ht_limit
          BY <2>3, <5>1, <5>2
        <5>. QED
          BY <1>3, <2>3, <3>3, <4>1, <5>3
      <4>2. CASE ~(2 * ht_size <= MaxSize) /\ ht_size' = ht_size
        BY <2>3, <4>2, HTableConstants
      <4>. QED
        BY <3>2, <4>1, <4>2
    <3>4. AllNodes(ht_table') = AllNodes(ht_table) \cup {n} /\ ht_used' = Cardinality(AllNodes(ht_table'))
      BY <1>3, <2>2, <2>4, <3>2
    <3>5. TableInv'
      <4>1. TableCounted'
        BY <3>2, <3>3, <3>4 DEF TableCounted
      <4>2. ht_used' \in Nat /\ ht_grows' \in Nat
        BY <1>3, <2>3, <3>1
      <4>. QED
        BY <3>2, <4>1, <4>2 DEF TableInv
    <3>. QED
      BY <1>1, <1>3, <2>1, <3>4, <3>5 DEF Inserted, n
  <2>6. CASE ~(ht_used + 1 > ht_limit)
    <3>1. ht_table' = t /\ UNCHANGED <<ht_size, ht_limit, ht_grows>>
      BY <1>3, <2>6
    <3>2. AllNodes(ht_table') = AllNodes(ht_table) \cup {n} /\ ht_used' = Cardinality(AllNodes(ht_table'))
      BY <1>3, <2>2, <2>4, <3>1
    <3>3. ~(ht_used' > ht_limit')
      BY <1>3, <2>6, <3>1
    <3>4. TableCounted'
      BY <2>3, <3>1, <3>2, <3>3 DEF TableCounted
    <3>5. Sorted(ht_table', ht_size')
      BY <2>2, <3>1
    <3>6. ht_used' \in Nat /\ ht_size' \in Nat \ {0} /\ ht_limit' \in Nat /\ ht_grows' \in Nat
      BY <1>3, <2>3, <3>1
    <3>7. TableInv'
      BY <3>4, <3>5, <3>6 DEF TableInv
    <3>. QED
      BY <1>1, <1>3, <2>1, <3>2, <3>7 DEF Inserted, n
  <2>. QED
    BY <2>5, <2>6
<1>. QED
  BY <1>2, <1>3 DEF htable_insert

\* What one removal does to the contents.
Deleted(k) ==
    \/ /\ \A n \in AllNodes(ht_table) : n.key # k
       /\ ret' = "HT_NOTFOUND" /\ AllNodes(ht_table') = AllNodes(ht_table)
    \/ /\ ret' = "HT_OK"
       /\ \E n \in AllNodes(ht_table) :
            n.key = k /\ AllNodes(ht_table') = AllNodes(ht_table) \ {n}

LEMMA RemoveKeeps ==
  ASSUME TableInv, NEW k \in Keys, htable_remove(k)
  PROVE  TableInv' /\ Deleted(k)
<1>1. CASE Places(k) = {}
  <2>1. ret' = "HT_NOTFOUND" /\ UNCHANGED table
    BY <1>1 DEF htable_remove
  <2>2. TableInv' /\ ht_table' = ht_table
    BY <2>1 DEF TableInv, TableCounted, table
  <2>. QED
    BY <1>1, <2>1, <2>2, PlacesFacts DEF Deleted
<1>2. CASE Places(k) # {}
  <2> DEFINE i == CHOOSE i \in Places(k) : \A j \in Places(k) : i <= j
             b == Bucket(k, ht_size)
  <2>1. i \in Places(k)
    BY <1>2, LeastPlace
  <2>2. /\ ret' = "HT_OK"
        /\ ht_table' = [ht_table EXCEPT ![b] = RemoveAt(@, i)]
        /\ ht_used' = ht_used - 1 /\ UNCHANGED <<ht_size, ht_limit, ht_grows>>
    BY <1>2 DEF htable_remove, Removed
  <2>. HIDE DEF i
  <2>3. b \in 0..(ht_size - 1) /\ Chain(k) = ht_table[b]
    BY BucketType DEF TableInv, Chain
  <2>. HIDE DEF b
  <2>4. /\ i \in DOMAIN ht_table[b] /\ ht_table[b][i] \in AllNodes(ht_table)
        /\ ht_table[b][i].key = k
    BY <2>1, <2>3, PlacesFacts
  <2>5. Sorted(ht_table', ht_size) /\ AllNodes(ht_table') = AllNodes(ht_table) \ {ht_table[b][i]}
    <3>1. Sorted(ht_table, ht_size) /\ ht_size \in Nat \ {0}
      BY DEF TableInv
    <3>2. DOMAIN ht_table = 0..(ht_size - 1)
      BY <3>1 DEF Sorted
    <3>3. ht_table' = [c \in 0..(ht_size - 1) |-> IF c = b THEN RemoveAt(ht_table[b], i) ELSE ht_table[c]]
      BY <2>2, <3>2
    <3>. QED
      BY <2>3, <2>4, <3>1, <3>3, RemoveFacts
  <2>6. /\ IsFiniteSet(AllNodes(ht_table)) /\ ht_used = Cardinality(AllNodes(ht_table))
        /\ ht_used \in Nat /\ ht_limit \in Nat
        /\ ht_limit = ht_factor * ht_size
        /\ (ht_factor > 0 /\ ht_used > ht_limit => 2 * ht_size > MaxSize)
    BY CountOfNodes DEF TableInv, TableCounted
  <2>7. Cardinality(AllNodes(ht_table')) = ht_used - 1 /\ Cardinality(AllNodes(ht_table')) \in Nat
    <3>1. Cardinality(AllNodes(ht_table) \ {ht_table[b][i]}) = ht_used - 1
      BY <2>4, <2>6, FS_RemoveElement
    <3>2. Cardinality(AllNodes(ht_table')) \in Nat
      BY <2>5, CountOfNodes DEF TableInv
    <3>. QED
      BY <2>5, <3>1, <3>2
  <2>8. ht_used' > ht_limit' => ht_used > ht_limit
    BY <2>2, <2>6, <2>7
  <2>9. TableCounted'
    BY <2>2, <2>6, <2>7, <2>8 DEF TableCounted
  <2>10. TableInv'
    BY <2>2, <2>5, <2>7, <2>9 DEF TableInv
  <2>. QED
    BY <2>2, <2>4, <2>5, <2>10 DEF Deleted
<1>. QED
  BY <1>1, <1>2

LEMMA GrowKeeps ==
  ASSUME TableInv, htable_grow
  PROVE  TableInv' /\ AllNodes(ht_table') = AllNodes(ht_table)
<1>1. Grow(ht_table) /\ UNCHANGED <<ht_used, ht_grows>>
  BY DEF htable_grow
<1>2. /\ ht_size' \in Nat \ {0} /\ ht_limit' \in Nat
      /\ Sorted(ht_table', ht_size') /\ AllNodes(ht_table') = AllNodes(ht_table)
      /\ ht_limit' = ht_factor * ht_size'
      /\ \/ 2 * ht_size <= MaxSize /\ ht_size' = 2 * ht_size /\ ht_limit' = 2 * ht_limit
         \/ ~(2 * ht_size <= MaxSize) /\ UNCHANGED <<ht_size, ht_limit>>
  BY <1>1, GrowFacts DEF TableInv
<1>3. /\ ht_used = Cardinality(AllNodes(ht_table)) /\ ht_used \in Nat /\ ht_limit \in Nat
      /\ ht_size \in Nat
      /\ (ht_factor > 0 /\ ht_used > ht_limit => 2 * ht_size > MaxSize)
  BY DEF TableInv, TableCounted
<1>4. ASSUME ht_factor > 0, ht_used' > ht_limit' PROVE 2 * ht_size' > MaxSize
  <2>1. CASE 2 * ht_size <= MaxSize /\ ht_limit' = 2 * ht_limit
    <3>1. ht_used > ht_limit
      BY <1>1, <1>3, <1>4, <2>1
    <3>2. 2 * ht_size > MaxSize
      BY <1>3, <1>4, <3>1
    <3>. QED
      BY <1>3, <2>1, <3>2, HTableConstants
  <2>2. CASE ~(2 * ht_size <= MaxSize) /\ ht_size' = ht_size
    BY <1>3, <2>2, HTableConstants
  <2>. QED
    BY <1>2, <2>1, <2>2
<1>5. TableCounted'
  BY <1>1, <1>2, <1>3, <1>4 DEF TableCounted
<1>. QED
  BY <1>1, <1>2, <1>5 DEF TableInv

-----------------------------------------------------------------------------
(* The iterator *)

ChainKeys(s) == {s[j].key : j \in DOMAIN s}

\* Two places with the same key are one.
LEMMA KeysApart ==
  ASSUME NEW t, NEW sz, Sorted(t, sz), NEW c \in 0..(sz - 1), NEW e \in 0..(sz - 1),
         NEW i \in DOMAIN t[c], NEW j \in DOMAIN t[e], t[c][i].key = t[e][j].key
  PROVE  c = e /\ i = j
<1>1. c = e
  BY DEF Sorted
<1>. QED
  BY <1>1 DEF Sorted

LEMMA BelowNext ==
  ASSUME NEW t, NEW c \in Nat
  PROVE  KeysBelow(t, c + 1) = KeysBelow(t, c) \cup ChainKeys(t[c])
<1>1. 0..((c + 1) - 1) = (0..(c - 1)) \cup {c}
  OBVIOUS
<1>. QED
  BY <1>1 DEF KeysBelow, ChainKeys

\* Empty chains add no key.
LEMMA BelowEmpty ==
  ASSUME NEW t, NEW c \in Nat, NEW e \in Nat, c <= e, \A i \in c..(e - 1) : t[i] = <<>>
  PROVE  KeysBelow(t, e) = KeysBelow(t, c)
<1>1. \A i \in 0..(e - 1) : i \in 0..(c - 1) \/ i \in c..(e - 1)
  OBVIOUS
<1>2. \A i \in 0..(c - 1) : i \in 0..(e - 1)
  OBVIOUS
<1>3. \A i \in c..(e - 1) : {t[i][j].key : j \in DOMAIN t[i]} = {}
  <2>1. DOMAIN <<>> = {}
    OBVIOUS
  <2>. QED
    BY <2>1
<1>. QED
  BY <1>1, <1>2, <1>3 DEF KeysBelow

LEMMA StoredKeys ==
  ASSUME TableInv PROVE Stored = KeysBelow(ht_table, ht_size)
<1>1. DOMAIN ht_table = 0..(ht_size - 1)
  BY DEF TableInv, Sorted
<1>. QED
  BY <1>1 DEF Stored, KeysBelow

\* A key of chain c is not below c.
LEMMA NotBelow ==
  ASSUME NEW t, NEW sz \in Nat, Sorted(t, sz), NEW c \in 0..(sz - 1), NEW j \in DOMAIN t[c]
  PROVE  t[c][j].key \notin KeysBelow(t, c)
<1> SUFFICES ASSUME NEW e \in 0..(c - 1), NEW i \in DOMAIN t[e], t[e][i].key = t[c][j].key PROVE FALSE
  BY DEF KeysBelow
<1>1. e \in 0..(sz - 1) /\ e # c
  OBVIOUS
<1>. QED
  BY <1>1, KeysApart

LEMMA UpToNext ==
  ASSUME NEW s, NEW j \in Nat PROVE KeysUpTo(s, j + 1) = KeysUpTo(s, j) \cup {s[j + 1].key}
<1>1. 1..(j + 1) = (1..j) \cup {j + 1}
  OBVIOUS
<1>. QED
  BY <1>1 DEF KeysUpTo

LEMMA VisitedNext ==
  ASSUME NEW T, NEW s \in Seq(T), NEW k \in T, IsInjective(s), k \notin ToSet(s)
  PROVE  /\ Append(s, k) \in Seq(T) /\ IsInjective(Append(s, k))
         /\ ToSet(Append(s, k)) = ToSet(s) \cup {k}
<1>1. /\ Append(s, k) \in Seq(T)
      /\ DOMAIN Append(s, k) = (DOMAIN s) \cup {Len(s) + 1} /\ Len(s) + 1 \notin DOMAIN s
      /\ Append(s, k)[Len(s) + 1] = k /\ \A i \in DOMAIN s : Append(s, k)[i] = s[i]
      /\ Range(Append(s, k)) = Range(s) \cup {k}
  BY AppendToChain
<1>2. \A i \in DOMAIN s : s[i] # k
  BY DEF ToSet
<1> DEFINE w == Append(s, k)
<1>. HIDE DEF w
<1>3. ASSUME NEW a \in DOMAIN w, NEW b \in DOMAIN w, w[a] = w[b] PROVE a = b
  BY <1>1, <1>2, <1>3 DEF IsInjective, w
<1>4. ToSet(w) = ToSet(s) \cup {k}
  BY <1>1 DEF ToSet, Range, w
<1>. QED
  BY <1>1, <1>3, <1>4 DEF IsInjective, w

\* The iterator leaves what it has finished, with all chains before it_pos
\* behind it, and looks for the next chain that is not empty.
LEMMA ScanStep ==
  ASSUME TableInv, HTableTypeOK, IsInjective(visited), it_pos < ht_size,
         ToSet(visited) = KeysBelow(ht_table, it_pos),
         NEW first, first = (CHOOSE j \in FirstFrom(it_pos) : \A k \in FirstFrom(it_pos) : j <= k),
         UNCHANGED <<table, ret>>,
         \/ /\ FirstFrom(it_pos) = {}
            /\ it_pnode' = NULL /\ it_pos' = ht_size /\ iterating' = "end" /\ visited' = visited
         \/ /\ FirstFrom(it_pos) # {}
            /\ it_pnode' = ht_table[first][1].key /\ it_pos' = first + 1 /\ iterating' = "yes"
            /\ visited' = Append(visited, it_pnode')
  PROVE  HTableTypeOK' /\ IteratorSound'
<1>1. it_pos \in Nat /\ ht_size \in Nat \ {0} /\ Sorted(ht_table, ht_size) /\ visited \in Seq(Keys)
  BY DEF HTableTypeOK, TableInv
<1>2. ht_table' = ht_table /\ ht_size' = ht_size
  BY DEF table
<1>3. Stored' = Stored
  BY <1>2 DEF Stored
<1>4. CASE FirstFrom(it_pos) = {}
  <2>1. it_pnode' = NULL /\ it_pos' = ht_size /\ iterating' = "end" /\ visited' = visited
    BY <1>4
  <2>2. \A i \in it_pos..(ht_size - 1) : ht_table[i] = <<>>
    BY <1>4 DEF FirstFrom
  <2>3. ToSet(visited) = Stored
    BY <1>1, <2>2, BelowEmpty, StoredKeys
  <2>4. ht_table[ht_size - 1] = <<>>
    BY <1>1, <2>2
  <2>5. {ht_table[ht_size - 1][j].key : j \in DOMAIN ht_table[ht_size - 1] \ {1}} = {}
    <3>1. DOMAIN <<>> = {}
      OBVIOUS
    <3>. QED
      BY <2>4, <3>1
  <2>6. HTableTypeOK'
    BY <1>1, <2>1 DEF HTableTypeOK, table
  <2>7. ToSet(visited') = Stored' \ {ht_table'[ht_size' - 1][j].key : j \in DOMAIN ht_table'[ht_size' - 1] \ {1}}
    BY <1>2, <1>3, <2>1, <2>3, <2>5
  <2>. QED
    BY <2>1, <2>6, <2>7 DEF IteratorSound, IteratorVisits
<1>5. CASE FirstFrom(it_pos) # {}
  <2>1. /\ it_pnode' = ht_table[first][1].key /\ it_pos' = first + 1 /\ iterating' = "yes"
        /\ visited' = Append(visited, it_pnode')
    BY <1>5
  <2>2. first \in FirstFrom(it_pos) /\ \A k \in FirstFrom(it_pos) : first <= k
    <3>1. FirstFrom(it_pos) \in SUBSET Nat
      BY <1>1 DEF FirstFrom
    <3>2. \E j \in FirstFrom(it_pos) : \A k \in FirstFrom(it_pos) : j <= k
      BY <1>5, <3>1, Least
    <3>. QED
      BY <3>2
  <2>3. /\ first \in 0..(ht_size - 1) /\ first \in Nat /\ it_pos <= first /\ ht_table[first] # <<>>
        /\ first + 1 \in 0..ht_size /\ (first + 1) - 1 = first /\ first + 1 > 0
    <3>1. first \in it_pos..(ht_size - 1) /\ ht_table[first] # <<>>
      BY <2>2 DEF FirstFrom
    <3>2. ASSUME NEW o \in Nat, NEW z \in Nat \ {0}, NEW f \in o..(z - 1)
          PROVE  /\ f \in 0..(z - 1) /\ f \in Nat /\ o <= f
                 /\ f + 1 \in 0..z /\ (f + 1) - 1 = f /\ f + 1 > 0
      OBVIOUS
    <3>. QED
      BY <1>1, <3>1, <3>2
  <2>4. \A i \in it_pos..(first - 1) : ht_table[i] = <<>>
    <3> SUFFICES ASSUME NEW i \in it_pos..(first - 1), ht_table[i] # <<>> PROVE FALSE
      OBVIOUS
    <3>1. i \in it_pos..(ht_size - 1) /\ ~(first <= i)
      BY <1>1, <2>3
    <3>. QED
      BY <2>2, <3>1 DEF FirstFrom
  <2>5. KeysBelow(ht_table, first) = ToSet(visited)
    BY <1>1, <2>3, <2>4, BelowEmpty
  <2>6. 1 \in DOMAIN ht_table[first] /\ ht_table[first] \in Seq(HTableNode)
    BY <1>1, <2>3 DEF Sorted
  <2>7. ht_table[first][1].key \in Keys
    <3>1. ht_table[first][1] \in HTableNode
      BY <2>6
    <3>. QED
      BY <3>1 DEF HTableNode
  <2>8. ht_table[first][1].key \notin ToSet(visited)
    BY <1>1, <2>3, <2>5, <2>6, NotBelow
  <2>9. /\ visited' \in Seq(Keys) /\ IsInjective(visited')
        /\ ToSet(visited') = ToSet(visited) \cup {ht_table[first][1].key}
    <3> DEFINE k == ht_table[first][1].key
    <3>1. visited' = Append(visited, k)
      BY <2>1
    <3>2. k \in Keys /\ k \notin ToSet(visited)
      BY <2>7, <2>8
    <3>. HIDE DEF k
    <3>3. /\ Append(visited, k) \in Seq(Keys) /\ IsInjective(Append(visited, k))
          /\ ToSet(Append(visited, k)) = ToSet(visited) \cup {k}
      BY <1>1, <3>2, VisitedNext
    <3>. QED
      BY <3>1, <3>3 DEF k
  <2>10. HTableTypeOK'
    BY <2>1, <2>3, <2>7, <2>9 DEF HTableTypeOK, table
  <2>11. KeysUpTo(ht_table[first], 1) = {ht_table[first][1].key}
    <3>1. 1..1 = {1}
      OBVIOUS
    <3>. QED
      BY <3>1 DEF KeysUpTo
  <2>12. /\ ht_table'[it_pos' - 1][1].key = it_pnode'
         /\ ToSet(visited') = KeysBelow(ht_table', it_pos' - 1) \cup KeysUpTo(ht_table'[it_pos' - 1], 1)
         /\ 1 \in DOMAIN ht_table'[it_pos' - 1]
    BY <1>2, <2>1, <2>3, <2>5, <2>6, <2>9, <2>11
  <2>13. \E j \in DOMAIN ht_table'[it_pos' - 1] : Walked(it_pos - 1, j)'
    BY <2>12 DEF Walked
  <2>14. IteratorSound'
    <3>1. iterating' = "yes" /\ it_pos' > 0 /\ it_pos' # 0
      BY <2>1, <2>3
    <3>2. IteratorVisits'
      BY <2>9, <3>1 DEF IteratorVisits
    <3>. QED
      BY <2>13, <3>1, <3>2 DEF IteratorSound
  <2>. QED
    BY <2>10, <2>14
<1>. QED
  BY <1>4, <1>5

\* The call at the last chain ends.
LEMMA EndStep ==
  ASSUME TableInv, HTableTypeOK, IsInjective(visited), NEW j \in DOMAIN ht_table[ht_size - 1],
         Walked(ht_size - 1, j), UNCHANGED <<table, ret>>,
         it_pnode' = NULL, it_pos' = ht_size, iterating' = "end", visited' = visited
  PROVE  HTableTypeOK' /\ IteratorSound'
<1> DEFINE c == ht_size - 1
<1>1. ht_size \in Nat \ {0} /\ Sorted(ht_table, ht_size) /\ c \in Nat /\ c + 1 = ht_size /\ c \in 0..(ht_size - 1)
  BY DEF TableInv
<1>2. ht_table' = ht_table /\ ht_size' = ht_size
  BY DEF table
<1>3. HTableTypeOK'
  BY <1>1 DEF HTableTypeOK, table
<1>. HIDE DEF c
<1>4. j = 1 /\ 1 \in DOMAIN ht_table[c]
  BY DEF Walked, c
<1>5. ToSet(visited) = KeysBelow(ht_table, c) \cup {ht_table[c][1].key}
  <2>1. KeysUpTo(ht_table[c], 1) = {ht_table[c][1].key}
    <3>1. 1..1 = {1}
      OBVIOUS
    <3>. QED
      BY <3>1 DEF KeysUpTo
  <2>. QED
    BY <1>4, <2>1 DEF Walked, c
<1>6. Stored = KeysBelow(ht_table, c) \cup ChainKeys(ht_table[c])
  BY <1>1, StoredKeys, BelowNext
<1> DEFINE Behind == {ht_table[c][i].key : i \in DOMAIN ht_table[c] \ {1}}
<1>7. ChainKeys(ht_table[c]) = {ht_table[c][1].key} \cup Behind
  BY <1>4 DEF ChainKeys
<1>8. ht_table[c][1].key \notin Behind
  BY <1>1, <1>4, KeysApart
<1>9. KeysBelow(ht_table, c) \cap Behind = {}
  BY <1>1, NotBelow
<1>10. ToSet(visited) = Stored \ Behind
  <2>. HIDE DEF Behind
  <2>. QED
    BY <1>5, <1>6, <1>7, <1>8, <1>9
<1>11. Stored' = Stored
  BY <1>2 DEF Stored
<1>12. ToSet(visited') = Stored' \ {ht_table'[ht_size' - 1][i].key : i \in DOMAIN ht_table'[ht_size' - 1] \ {1}}
  BY <1>2, <1>10, <1>11 DEF c
<1>. QED
  BY <1>3, <1>12 DEF IteratorSound, IteratorVisits

\* A step to the next node of the chain.
LEMMA StayStep ==
  ASSUME TableInv, HTableTypeOK, IsInjective(visited), it_pos \in 1..(ht_size - 1),
         NEW j \in DOMAIN ht_table[it_pos - 1], Walked(it_pos - 1, j),
         j + 1 \in DOMAIN ht_table[it_pos - 1], UNCHANGED <<table, ret>>,
         it_pnode' = ht_table[it_pos - 1][j + 1].key, it_pos' = it_pos, iterating' = "yes",
         visited' = Append(visited, it_pnode')
  PROVE  HTableTypeOK' /\ IteratorSound'
<1> DEFINE c == it_pos - 1
           s == ht_table[c]
<1>1. /\ ht_size \in Nat \ {0} /\ Sorted(ht_table, ht_size) /\ c \in Nat /\ c \in 0..(ht_size - 1)
      /\ c # ht_size - 1 /\ it_pos > 0 /\ visited \in Seq(Keys)
  BY DEF TableInv, HTableTypeOK
<1>2. ht_table' = ht_table /\ ht_size' = ht_size
  BY DEF table
<1>3. s \in Seq(HTableNode) /\ j \in Nat
  <2>1. s \in Seq(HTableNode)
    BY <1>1 DEF Sorted
  <2>. QED
    BY <2>1
<1>4. s[j + 1].key \in Keys
  <2>1. s[j + 1] \in HTableNode
    BY <1>3
  <2>. QED
    BY <2>1 DEF HTableNode
<1>5. ToSet(visited) = KeysBelow(ht_table, c) \cup KeysUpTo(s, j)
  BY DEF Walked
<1>6. s[j + 1].key \notin ToSet(visited)
  <2>1. s[j + 1].key \notin KeysBelow(ht_table, c)
    BY <1>1, NotBelow
  <2>2. s[j + 1].key \notin KeysUpTo(s, j)
    <3> SUFFICES ASSUME NEW i \in 1..j, s[i].key = s[j + 1].key PROVE FALSE
      BY DEF KeysUpTo
    <3>1. i \in DOMAIN s /\ i # j + 1
      BY <1>3
    <3>. QED
      BY <1>1, <3>1, KeysApart
  <2>. QED
    BY <1>5, <2>1, <2>2
<1>. HIDE DEF c, s
<1>7. /\ visited' \in Seq(Keys) /\ IsInjective(visited')
      /\ ToSet(visited') = ToSet(visited) \cup {s[j + 1].key}
  BY <1>1, <1>4, <1>6, VisitedNext DEF s, c
<1>8. HTableTypeOK'
  BY <1>2, <1>4, <1>7 DEF HTableTypeOK, table, s, c
<1>9. ToSet(visited') = KeysBelow(ht_table, c) \cup KeysUpTo(s, j + 1)
  BY <1>3, <1>5, <1>7, UpToNext
<1>10. /\ j + 1 \in DOMAIN ht_table'[it_pos' - 1]
       /\ ht_table'[it_pos' - 1][j + 1].key = it_pnode'
       /\ ToSet(visited') = KeysBelow(ht_table', it_pos' - 1) \cup KeysUpTo(ht_table'[it_pos' - 1], j + 1)
       /\ it_pos' - 1 # ht_size' - 1
  BY <1>1, <1>2, <1>9 DEF s, c
<1>. QED
  BY <1>1, <1>7, <1>8, <1>10 DEF IteratorSound, IteratorVisits, Walked

LEMMA NextElmKeeps ==
  ASSUME TableInv, HTableTypeOK, IteratorSound, htable_get_next_elm
  PROVE  HTableTypeOK' /\ IteratorSound'
<1> DEFINE first == CHOOSE j \in FirstFrom(it_pos) : \A k \in FirstFrom(it_pos) : j <= k
<1>1. /\ it_pos \in 0..ht_size /\ ht_size \in Nat \ {0} /\ iterating = "yes" /\ IsInjective(visited)
      /\ UNCHANGED <<table, ret>>
  BY DEF HTableTypeOK, IteratorSound, IteratorVisits, htable_get_next_elm
<1>2. ASSUME it_pos < ht_size, NextInChain = {} \/ it_pos = 0
      PROVE  \/ /\ FirstFrom(it_pos) = {}
                /\ it_pnode' = NULL /\ it_pos' = ht_size /\ iterating' = "end" /\ visited' = visited
             \/ /\ FirstFrom(it_pos) # {}
                /\ it_pnode' = ht_table[first][1].key /\ it_pos' = first + 1 /\ iterating' = "yes"
                /\ visited' = Append(visited, it_pnode')
  <2>1. ~(it_pos > ht_size - 1)
    BY <1>1, <1>2
  <2>. QED
    BY <1>2, <2>1 DEF htable_get_next_elm
<1>. HIDE DEF first
<1>3. CASE it_pos = 0
  <2>1. visited = <<>> /\ it_pos < ht_size
    BY <1>1, <1>3 DEF IteratorSound
  <2>2. ToSet(visited) = {} /\ KeysBelow(ht_table, it_pos) = {}
    BY <1>3, <2>1 DEF ToSet, KeysBelow
  <2>. QED
    BY <1>1, <1>2, <1>3, <2>1, <2>2, ScanStep DEF first
<1>4. CASE it_pos = ht_size
  <2>1. it_pos > 0 /\ it_pos > ht_size - 1
    BY <1>1, <1>4
  <2>2. PICK j \in DOMAIN ht_table[ht_size - 1] : Walked(ht_size - 1, j)
    BY <1>1, <1>4, <2>1 DEF IteratorSound
  <2>3. it_pnode' = NULL /\ it_pos' = ht_size /\ iterating' = "end" /\ visited' = visited
    BY <2>1 DEF htable_get_next_elm
  <2>. QED
    BY <1>1, <2>2, <2>3, EndStep
<1>5. CASE it_pos \in 1..(ht_size - 1)
  <2>1. PICK j \in DOMAIN ht_table[it_pos - 1] : Walked(it_pos - 1, j)
    BY <1>1, <1>5 DEF IteratorSound
  <2> DEFINE c == it_pos - 1
  <2>2. /\ c \in 0..(ht_size - 1) /\ Sorted(ht_table, ht_size) /\ c \in Nat /\ c + 1 = it_pos
        /\ ~(it_pos > ht_size - 1) /\ it_pos # 0 /\ it_pos < ht_size
    BY <1>1, <1>5 DEF TableInv
  <2>3. it_pnode = ht_table[c][j].key /\ it_pnode \in Keys /\ it_pnode # NULL
    <3>1. it_pnode = ht_table[c][j].key
      BY <2>1 DEF Walked
    <3>2. ht_table[c][j] \in HTableNode
      BY <2>1, <2>2 DEF Sorted
    <3>. QED
      BY <3>1, <3>2, HTableConstants DEF HTableNode
  <2>4. Chain(it_pnode) = ht_table[c]
    BY <2>1, <2>2, <2>3 DEF Chain, Sorted
  <2>5. Places(it_pnode) = {j}
    BY <2>1, <2>2, <2>3, <2>4 DEF Places, Sorted
  <2>6. j \in Nat /\ DOMAIN ht_table[c] = 1..Len(ht_table[c]) /\ Len(ht_table[c]) \in Nat /\ j \in 1..Len(ht_table[c])
    BY <2>1, <2>2 DEF Sorted
  <2>7. CASE j + 1 \in DOMAIN ht_table[c]
    <3>1. NextInChain = {ht_table[c][j + 1].key}
      BY <2>3, <2>4, <2>5, <2>7 DEF NextInChain
    <3>2. (CHOOSE k \in NextInChain : TRUE) = ht_table[c][j + 1].key /\ NextInChain # {}
      BY <3>1
    <3>3. /\ it_pnode' = ht_table[c][j + 1].key /\ it_pos' = it_pos /\ iterating' = "yes"
          /\ visited' = Append(visited, it_pnode')
      BY <2>2, <3>2 DEF htable_get_next_elm
    <3>. QED
      BY <1>1, <1>5, <2>1, <2>7, <3>3, StayStep
  <2>8. CASE j + 1 \notin DOMAIN ht_table[c]
    <3>1. NextInChain = {}
      BY <2>3, <2>4, <2>5, <2>8 DEF NextInChain
    <3>2. j = Len(ht_table[c])
      BY <2>6, <2>8
    <3>3. KeysUpTo(ht_table[c], j) = ChainKeys(ht_table[c])
      BY <2>6, <3>2 DEF KeysUpTo, ChainKeys
    <3>4. ToSet(visited) = KeysBelow(ht_table, it_pos)
      <4>1. ToSet(visited) = KeysBelow(ht_table, c) \cup KeysUpTo(ht_table[c], j)
        BY <2>1 DEF Walked
      <4>. QED
        BY <2>2, <3>3, <4>1, BelowNext
    <3>. QED
      BY <1>1, <1>2, <2>2, <3>1, <3>4, ScanStep DEF first
  <2>. QED
    BY <2>7, <2>8
<1>. QED
  BY <1>1, <1>3, <1>4, <1>5

-----------------------------------------------------------------------------
(* The invariant of the table and its iterator *)

HTableIInv == HTableTypeOK /\ TableInv /\ IteratorSound

Answers == {"HT_OK", "HT_EXISTS", "HT_NOMEM", "HT_NOTFOUND", NULL} \cup Data

\* A call that leaves the iterator alone, when there is none.
LEMMA IteratorIdle ==
  ASSUME HTableIInv, TableInv', iterating = "no", UNCHANGED iterator, ret' \in Answers
  PROVE  HTableIInv'
<1>1. /\ it_pos' = 0 /\ it_pnode' = NULL /\ iterating' = "no" /\ visited' = <<>>
  BY DEF HTableIInv, IteratorSound, iterator
<1>2. HTableTypeOK'
  <2>1. ht_size' \in Nat \ {0} /\ 0 \in 0..ht_size'
    BY DEF TableInv
  <2>2. ht_table' \in [0..(ht_size' - 1) -> Seq(HTableNode)]
    BY DEF TableInv, Sorted
  <2>3. ht_used' \in Nat /\ ht_limit' \in Nat /\ ht_grows' \in Nat
    BY DEF TableInv
  <2>4. visited' \in Seq(Keys)
    BY <1>1
  <2>. QED
    BY <1>1, <2>1, <2>2, <2>3, <2>4 DEF HTableTypeOK, Answers
<1>3. IsInjective(visited')
  BY <1>1 DEF IsInjective
<1>4. IteratorSound'
  BY <1>1, <1>3 DEF IteratorSound, IteratorVisits
<1>. QED
  BY <1>2, <1>4 DEF HTableIInv

\* What a search answers.
LEMMA SearchFinds ==
  ASSUME TableInv, NEW k \in Keys, htable_search(k)
  PROVE  /\ (\A n \in AllNodes(ht_table) : n.key # k) => ret' = NULL
         /\ \A n \in AllNodes(ht_table) : n.key = k => ret' = n.data
         /\ ret' \in Answers
<1>1. CASE Places(k) = {}
  <2>1. ret' = NULL
    BY <1>1 DEF htable_search
  <2>. QED
    BY <1>1, <2>1, PlacesFacts DEF Answers
<1>2. CASE Places(k) # {}
  <2> DEFINE i == CHOOSE i \in Places(k) : \A j \in Places(k) : i <= j
  <2>1. i \in Places(k)
    BY <1>2, LeastPlace
  <2>2. ret' = Chain(k)[i].data
    BY <1>2 DEF htable_search
  <2>. HIDE DEF i
  <2>3. Chain(k)[i] \in AllNodes(ht_table) /\ Chain(k)[i].key = k
    BY <2>1, PlacesFacts
  <2>4. Chain(k)[i].data \in Data
    BY <2>3, NodeTypes DEF TableInv
  <2>5. \A n \in AllNodes(ht_table) : n.key = k => n = Chain(k)[i]
    BY <2>3, OneNodePerKey DEF TableInv
  <2>. QED
    BY <2>2, <2>3, <2>4, <2>5 DEF Answers
<1>. QED
  BY <1>1, <1>2

LEMMA InitHTable == HTableInit => HTableIInv
<1> SUFFICES ASSUME HTableInit PROVE HTableIInv
  OBVIOUS
<1>1. /\ ht_size = InitSize /\ ht_table = [i \in 0..(InitSize - 1) |-> <<>>]
      /\ ht_used = 0 /\ ht_limit = ht_factor * InitSize /\ ht_grows = 0 /\ ret = "HT_OK"
      /\ it_pos = 0 /\ it_pnode = NULL /\ iterating = "no" /\ visited = <<>>
  BY DEF HTableInit
<1>2. InitSize \in Nat \ {0} /\ ht_factor \in Nat /\ ht_factor * InitSize \in Nat /\ 0 \in 0..InitSize
  BY HTableConstants
<1>3. Sorted(ht_table, ht_size)
  BY <1>1, <1>2 DEF Sorted
<1>4. AllNodes(ht_table) = {}
  BY <1>1 DEF AllNodes, Range
<1>5. Cardinality(AllNodes(ht_table)) = 0
  BY <1>4, FS_EmptySet
<1>6. TableCounted
  <2>1. ~(0 > ht_factor * InitSize)
    BY <1>2
  <2>. QED
    BY <1>1, <1>5, <2>1 DEF TableCounted
<1>7. TableInv
  BY <1>1, <1>2, <1>3, <1>6 DEF TableInv
<1>8. HTableTypeOK
  BY <1>1, <1>2, <1>3 DEF HTableTypeOK, Sorted
<1>9. IteratorSound
  BY <1>1 DEF IteratorSound, IteratorVisits, IsInjective
<1>. QED
  BY <1>7, <1>8, <1>9 DEF HTableIInv

LEMMA StepHTable == HTableIInv /\ [HTableCalls]_htable => HTableIInv'
<1> SUFFICES ASSUME HTableIInv, [HTableCalls]_htable PROVE HTableIInv'
  OBVIOUS
<1>1. TableInv /\ HTableTypeOK /\ IteratorSound
  BY DEF HTableIInv
<1>2. ASSUME NEW k \in Keys, htable_remove(k) PROVE HTableIInv'
  <2>1. TableInv' /\ Deleted(k)
    BY <1>1, <1>2, RemoveKeeps
  <2>2. ret' \in Answers /\ iterating = "no" /\ UNCHANGED iterator
    BY <1>2, <2>1 DEF Deleted, Answers, htable_remove
  <2>. QED
    BY <2>1, <2>2, IteratorIdle
<1>3. ASSUME NEW k \in Keys, htable_search(k) PROVE HTableIInv'
  <2>1. ret' \in Answers /\ iterating = "no" /\ UNCHANGED <<table, iterator>>
    BY <1>1, <1>3, SearchFinds DEF htable_search
  <2>2. TableInv'
    BY <1>1, <2>1 DEF TableInv, TableCounted, table
  <2>. QED
    BY <2>1, <2>2, IteratorIdle
<1>4. ASSUME NEW k \in Keys, NEW d \in Data, htable_insert(k, d) PROVE HTableIInv'
  <2>1. TableInv' /\ Inserted(k, d)
    BY <1>1, <1>4, InsertKeeps
  <2>2. ret' \in Answers /\ iterating = "no" /\ UNCHANGED iterator
    BY <1>4, <2>1 DEF Inserted, Answers, htable_insert
  <2>. QED
    BY <2>1, <2>2, IteratorIdle
<1>5. CASE htable_grow
  <2>1. TableInv'
    BY <1>1, <1>5, GrowKeeps
  <2>2. ret' \in Answers /\ iterating = "no" /\ UNCHANGED iterator
    BY <1>5 DEF Answers, htable_grow
  <2>. QED
    BY <2>1, <2>2, IteratorIdle
<1>6. CASE htable_iterator_init
  <2>1. /\ it_pos' = 0 /\ it_pnode' = NULL /\ iterating' = "yes" /\ visited' = <<>>
        /\ UNCHANGED <<table, ret>>
    BY <1>6 DEF htable_iterator_init
  <2>2. TableInv'
    BY <1>1, <2>1 DEF TableInv, TableCounted, table
  <2>3. ht_size \in Nat /\ 0 \in 0..ht_size
    BY <1>1 DEF TableInv
  <2>4. HTableTypeOK'
    BY <1>1, <2>1, <2>3 DEF HTableTypeOK, table
  <2>5. IteratorSound'
    BY <2>1 DEF IteratorSound, IteratorVisits, IsInjective
  <2>. QED
    BY <2>2, <2>4, <2>5 DEF HTableIInv
<1>7. CASE htable_get_next_elm
  <2>1. HTableTypeOK' /\ IteratorSound'
    BY <1>1, <1>7, NextElmKeeps
  <2>2. TableInv'
    BY <1>1, <1>7 DEF TableInv, TableCounted, table, htable_get_next_elm
  <2>. QED
    BY <2>1, <2>2 DEF HTableIInv
<1>8. CASE StopIterating
  <2>1. /\ it_pos' = 0 /\ it_pnode' = NULL /\ iterating' = "no" /\ visited' = <<>>
        /\ UNCHANGED <<table, ret>>
    BY <1>8 DEF StopIterating
  <2>2. TableInv'
    BY <1>1, <2>1 DEF TableInv, TableCounted, table
  <2>3. ht_size \in Nat /\ 0 \in 0..ht_size
    BY <1>1 DEF TableInv
  <2>4. HTableTypeOK'
    BY <1>1, <2>1, <2>3 DEF HTableTypeOK, table
  <2>5. IteratorSound'
    BY <2>1 DEF IteratorSound, IteratorVisits, IsInjective
  <2>. QED
    BY <2>2, <2>4, <2>5 DEF HTableIInv
<1>9. CASE UNCHANGED htable
  <2>1. TableInv'
    BY <1>1, <1>9 DEF TableInv, TableCounted, table, htable
  <2>2. HTableTypeOK'
    BY <1>1, <1>9 DEF HTableTypeOK, table, iterator, htable
  <2>3. UNCHANGED <<ht_table, ht_size, it_pos, it_pnode, iterating, visited>>
    BY <1>9 DEF table, iterator, htable
  <2>4. IteratorSound'
    BY <1>1, <2>3 DEF IteratorSound, IteratorVisits, Walked, Stored
  <2>. QED
    BY <2>1, <2>2, <2>4 DEF HTableIInv
<1>. QED
  BY <1>2, <1>3, <1>4, <1>5, <1>6, <1>7, <1>8, <1>9 DEF HTableCalls

\* Every node stays in the chain of its key, no key is there twice, and the
\* counters and the iterator are right.
THEOREM HTableInvariance == HTableSpec => []HTableIInv
BY InitHTable, StepHTable, PTL DEF HTableSpec

\* ht_used counts the nodes, ht_limit belongs to the size, and a table past
\* its limit had no memory to grow, when the factor is not 0 (htable_grow).
THEOREM CountersAlwaysAgree == ASSUME ht_factor > 0 PROVE HTableSpec => []CountersAgree
<1>1. HTableIInv => CountersAgree
  <2> SUFFICES ASSUME HTableIInv PROVE CountersAgree
    OBVIOUS
  <2>1. TableInv
    BY DEF HTableIInv
  <2>2. Len(Flattened(ht_table, ht_size)) = Cardinality(AllNodes(ht_table))
    BY <2>1, CountOfNodes DEF TableInv
  <2>. QED
    BY <2>1, <2>2 DEF TableInv, TableCounted, CountersAgree, Flattened
<1>. QED
  BY <1>1, HTableInvariance, PTL

\* An iteration returns no key twice; one that ended has returned every key
\* but those behind the first node of the last chain (htable_get_next_elm).
THEOREM IterationsVisit == HTableSpec => []IteratorVisits
<1>1. HTableIInv => IteratorVisits
  BY DEF HTableIInv, IteratorSound
<1>. QED
  BY <1>1, HTableInvariance, PTL

-----------------------------------------------------------------------------
(* The dictionary *)

KeysOf(N) == {n.key : n \in N}
DictOf(N) == [k \in KeysOf(N) |-> (CHOOSE n \in N : n.key = k).data]
KeysDiffer(N) == \A m, n \in N : m.key = n.key => m = n

LEMMA DictIs ==
  ASSUME NEW N, KeysDiffer(N)
  PROVE  /\ DOMAIN DictOf(N) = KeysOf(N)
         /\ \A n \in N : DictOf(N)[n.key] = n.data
<1>1. ASSUME NEW n \in N PROVE DictOf(N)[n.key] = n.data
  <2>1. n.key \in KeysOf(N)
    BY DEF KeysOf
  <2>2. (CHOOSE m \in N : m.key = n.key) = n
    BY DEF KeysDiffer
  <2>. QED
    BY <2>1, <2>2 DEF DictOf
<1>. QED
  BY <1>1 DEF DictOf

LEMMA DictAdds ==
  ASSUME NEW N, KeysDiffer(N), NEW n, n.key \notin KeysOf(N)
  PROVE  DictOf(N \cup {n}) = Dict!Put(DictOf(N), n.key, n.data)
<1> DEFINE M == N \cup {n}
<1>1. KeysDiffer(M) /\ KeysOf(M) = KeysOf(N) \cup {n.key}
  BY DEF KeysDiffer, KeysOf
<1>2. \A m \in M : DictOf(M)[m.key] = m.data
  BY <1>1, DictIs
<1>3. DOMAIN DictOf(N) = KeysOf(N) /\ \A m \in N : DictOf(N)[m.key] = m.data
  BY DictIs
<1>4. ASSUME NEW x \in KeysOf(N) \cup {n.key}
      PROVE  DictOf(M)[x] = IF x = n.key THEN n.data ELSE DictOf(N)[x]
  <2>1. CASE x = n.key
    BY <1>2, <2>1
  <2>2. CASE x # n.key
    <3>1. PICK m \in N : x = m.key
      BY <1>4, <2>2 DEF KeysOf
    <3>. QED
      BY <1>2, <1>3, <2>2, <3>1
  <2>. QED
    BY <2>1, <2>2
<1>5. DictOf(M) = [x \in KeysOf(M) |-> DictOf(M)[x]]
  BY DEF DictOf
<1>. HIDE DEF M
<1>6. DictOf(M) = [x \in KeysOf(N) \cup {n.key} |-> IF x = n.key THEN n.data ELSE DictOf(N)[x]]
  BY <1>1, <1>4, <1>5
<1>. QED
  BY <1>3, <1>6 DEF Dict!Put, M

LEMMA DictLoses ==
  ASSUME NEW N, KeysDiffer(N), NEW n \in N
  PROVE  DictOf(N \ {n}) = Dict!Remove(DictOf(N), n.key)
<1> DEFINE M == N \ {n}
<1>1. KeysDiffer(M) /\ KeysOf(M) = KeysOf(N) \ {n.key}
  BY DEF KeysDiffer, KeysOf
<1>2. \A m \in M : DictOf(M)[m.key] = m.data
  BY <1>1, DictIs
<1>3. DOMAIN DictOf(N) = KeysOf(N) /\ \A m \in N : DictOf(N)[m.key] = m.data
  BY DictIs
<1>4. ASSUME NEW x \in KeysOf(N) \ {n.key} PROVE DictOf(M)[x] = DictOf(N)[x]
  <2>1. PICK m \in N : x = m.key
    BY DEF KeysOf
  <2>2. m \in M
    BY <2>1
  <2>. QED
    BY <1>2, <1>3, <2>1, <2>2
<1>5. DictOf(M) = [x \in KeysOf(M) |-> DictOf(M)[x]]
  BY DEF DictOf
<1>. HIDE DEF M
<1>6. DictOf(M) = [x \in KeysOf(N) \ {n.key} |-> DictOf(N)[x]]
  BY <1>1, <1>4, <1>5
<1>. QED
  BY <1>3, <1>6 DEF Dict!Remove, M

\* The contents are the nodes, whatever chains they are in.
LEMMA ContentsAre == TableInv => Contents = DictOf(AllNodes(ht_table))
<1> SUFFICES ASSUME TableInv PROVE Contents = DictOf(AllNodes(ht_table))
  OBVIOUS
<1>1. Stored = KeysOf(AllNodes(ht_table))
  <2>1. ASSUME NEW x \in Stored PROVE x \in KeysOf(AllNodes(ht_table))
    BY DEF Stored, KeysOf, AllNodes, Range
  <2>2. ASSUME NEW x \in KeysOf(AllNodes(ht_table)) PROVE x \in Stored
    BY DEF Stored, KeysOf, AllNodes, Range
  <2>. QED
    BY <2>1, <2>2
<1>. QED
  BY <1>1 DEF Contents, DictOf, AllNodes

\* The hash table is a dictionary for its callers: its answers and its
\* contents are those of a partial function from keys to data (htable.c).
THEOREM TableImplements == HTableSpec => ImplementsDictionary
<1>1. HTableInit => Dict!DictInit
  <2> SUFFICES ASSUME HTableInit PROVE Dict!DictInit
    OBVIOUS
  <2>1. ret = "HT_OK" /\ ht_table = [i \in 0..(InitSize - 1) |-> <<>>]
    BY DEF HTableInit
  <2>2. Stored = {}
    BY <2>1 DEF Stored
  <2>3. Contents = [x \in {} |-> NULL]
    BY <2>2 DEF Contents
  <2>. QED
    BY <2>1, <2>3 DEF Dict!DictInit
<1>2. HTableIInv /\ HTableIInv' /\ [HTableCalls]_htable => [Dict!DictNext]_(Dict!dvars)
  <2> SUFFICES ASSUME HTableIInv, HTableIInv', [HTableCalls]_htable PROVE [Dict!DictNext]_(Dict!dvars)
    OBVIOUS
  <2> DEFINE N == AllNodes(ht_table)
  <2>1. TableInv /\ Contents = DictOf(N)
    BY ContentsAre DEF HTableIInv
  <2>2. Contents' = DictOf(AllNodes(ht_table'))
    <3>1. TableInv'
      BY DEF HTableIInv
    <3>2. (TableInv => Contents = DictOf(AllNodes(ht_table)))'
      BY ContentsAre, PTL
    <3>. QED
      BY <3>1, <3>2
  <2>3. KeysDiffer(N)
    BY <2>1, OneNodePerKey DEF KeysDiffer, TableInv
  <2>4. /\ DOMAIN DictOf(N) = KeysOf(N)
        /\ \A n \in N : DictOf(N)[n.key] = n.data
    BY <2>3, DictIs
  <2>. HIDE DEF N
  <2>5. ASSUME NEW k \in Keys, htable_remove(k) PROVE Dict!DictNext
    <3>1. Deleted(k)
      BY <2>1, <2>5, RemoveKeeps
    <3>2. CASE ret' = "HT_NOTFOUND" /\ (\A n \in N : n.key # k) /\ AllNodes(ht_table') = N
      <4>1. k \notin DOMAIN Contents /\ Contents' = Contents
        BY <2>1, <2>2, <2>4, <3>2 DEF KeysOf
      <4>. QED
        BY <3>2, <4>1 DEF Dict!DictNext, Dict!Delete
    <3>3. CASE ret' = "HT_OK" /\ \E n \in N : n.key = k /\ AllNodes(ht_table') = N \ {n}
      <4>1. PICK n \in N : n.key = k /\ AllNodes(ht_table') = N \ {n}
        BY <3>3
      <4>2. k \in DOMAIN Contents
        BY <2>1, <2>4, <4>1 DEF KeysOf
      <4>3. Contents' = Dict!Remove(Contents, k)
        BY <2>1, <2>2, <2>3, <4>1, DictLoses
      <4>. QED
        BY <3>3, <4>2, <4>3 DEF Dict!DictNext, Dict!Delete
    <3>. QED
      BY <3>1, <3>2, <3>3 DEF Deleted, N
  <2>6. ASSUME NEW k \in Keys, NEW d \in Data, htable_insert(k, d) PROVE Dict!DictNext
    <3>1. Inserted(k, d)
      BY <2>1, <2>6, InsertKeeps
    <3>2. CASE ret' = "HT_EXISTS" /\ (\E n \in N : n.key = k) /\ AllNodes(ht_table') = N
      <4>1. k \in DOMAIN Contents /\ Contents' = Contents
        BY <2>1, <2>2, <2>4, <3>2 DEF KeysOf
      <4>. QED
        BY <3>2, <4>1 DEF Dict!DictNext, Dict!Insert
    <3>3. CASE ret' = "HT_NOMEM" /\ (\A n \in N : n.key # k) /\ AllNodes(ht_table') = N
      <4>1. k \notin DOMAIN Contents /\ Contents' = Contents
        BY <2>1, <2>2, <2>4, <3>3 DEF KeysOf
      <4>. QED
        BY <3>3, <4>1 DEF Dict!DictNext, Dict!Insert
    <3>4. CASE /\ ret' = "HT_OK" /\ \A n \in N : n.key # k
               /\ AllNodes(ht_table') = N \cup {[key |-> k, data |-> d]}
      <4> DEFINE n == [key |-> k, data |-> d]
      <4>1. n.key = k /\ n.data = d /\ k \notin KeysOf(N)
        BY <3>4 DEF KeysOf
      <4>. HIDE DEF n
      <4>2. DictOf(N \cup {n}) = Dict!Put(DictOf(N), k, d)
        BY <2>3, <4>1, DictAdds
      <4>3. Contents' = Dict!Put(Contents, k, d)
        BY <2>1, <2>2, <3>4, <4>2 DEF n
      <4>4. k \notin DOMAIN Contents
        BY <2>1, <2>4, <4>1
      <4>. QED
        BY <3>4, <4>3, <4>4 DEF Dict!DictNext, Dict!Insert
    <3>. QED
      BY <3>1, <3>2, <3>3, <3>4 DEF Inserted, N
  <2>7. ASSUME NEW k \in Keys, htable_search(k) PROVE Dict!DictNext
    <3>1. /\ (\A n \in N : n.key # k) => ret' = NULL
          /\ \A n \in N : n.key = k => ret' = n.data
      BY <2>1, <2>7, SearchFinds DEF N
    <3>2. Contents' = Contents
      BY <2>1, <2>2, <2>7 DEF htable_search, table, N
    <3>3. ret' = IF k \in DOMAIN Contents THEN Contents[k] ELSE NULL
      BY <2>1, <2>4, <3>1 DEF KeysOf
    <3>. QED
      BY <3>2, <3>3 DEF Dict!DictNext, Dict!Search
  <2>8. CASE htable_grow
    <3>1. Contents' = Contents
      BY <2>1, <2>2, <2>8, GrowKeeps DEF N
    <3>2. ret' \in {"HT_OK", "HT_NOMEM"}
      BY <2>8 DEF htable_grow
    <3>. QED
      BY <3>1, <3>2 DEF Dict!DictNext, Dict!Grow
  <2>9. CASE htable_iterator_init \/ htable_get_next_elm \/ StopIterating \/ UNCHANGED htable
    <3>1. UNCHANGED <<table, ret>>
      BY <2>9 DEF htable_iterator_init, htable_get_next_elm, StopIterating, htable
    <3>2. Contents' = Contents
      BY <2>1, <2>2, <3>1 DEF table, N
    <3>. QED
      BY <3>1, <3>2 DEF Dict!dvars
  <2>. QED
    BY <2>5, <2>6, <2>7, <2>8, <2>9 DEF HTableCalls
<1>. QED
  BY <1>1, <1>2, HTableInvariance, PTL DEF HTableSpec, ImplementsDictionary, Dict!DictSpec

-----------------------------------------------------------------------------
(* The comment filter *)

LEMMA EarliestIs ==
  ASSUME NEW T \in SUBSET Nat, T # {}
  PROVE  Earliest(T) \in T /\ \A n \in T : Earliest(T) <= n
<1>1. \E n \in T : \A m \in T : n <= m
  BY Least
<1>. QED
  BY <1>1 DEF Earliest

\* Ends of comments: a place is one or is passed over.
LEMMA EndsFacts ==
  ASSUME NEW s \in Seq(Chars), NEW i \in Nat \ {0}
  PROVE  /\ EndsFrom(s, i) \in SUBSET Nat
         /\ \A j \in EndsFrom(s, i) : j >= i /\ j < Len(s)
         /\ ~MarkAt(s, i, "*", "/") => EndsFrom(s, i) = EndsFrom(s, i + 1)
         /\ MarkAt(s, i, "*", "/") => i \in EndsFrom(s, i) /\ Earliest(EndsFrom(s, i)) = i
         /\ i > Len(s) => EndsFrom(s, i) = {}
<1>1. Len(s) \in Nat
  OBVIOUS
<1>2. \A j : j \in EndsFrom(s, i) <=> j \in i..Len(s) /\ MarkAt(s, j, "*", "/")
  BY DEF EndsFrom
<1>3. \A j : j \in EndsFrom(s, i + 1) <=> j \in (i + 1)..Len(s) /\ MarkAt(s, j, "*", "/")
  BY DEF EndsFrom
<1>4. EndsFrom(s, i) \in SUBSET Nat /\ \A j \in EndsFrom(s, i) : j >= i /\ j < Len(s)
  BY <1>1, <1>2 DEF MarkAt
<1>5. ASSUME ~MarkAt(s, i, "*", "/") PROVE EndsFrom(s, i) = EndsFrom(s, i + 1)
  <2>1. \A j : j \in i..Len(s) /\ j # i <=> j \in (i + 1)..Len(s)
    BY <1>1
  <2>2. \A j : j \in EndsFrom(s, i) <=> j \in EndsFrom(s, i + 1)
    BY <1>2, <1>3, <1>5, <2>1
  <2>. QED
    BY <2>2
<1>6. ASSUME MarkAt(s, i, "*", "/")
      PROVE  i \in EndsFrom(s, i) /\ Earliest(EndsFrom(s, i)) = i
  <2>1. i \in i..Len(s)
    BY <1>1, <1>6 DEF MarkAt
  <2>2. i \in EndsFrom(s, i)
    BY <1>2, <1>6, <2>1
  <2>3. Earliest(EndsFrom(s, i)) \in EndsFrom(s, i) /\ Earliest(EndsFrom(s, i)) <= i
    BY <1>4, <2>2, EarliestIs
  <2>. QED
    BY <1>4, <2>2, <2>3
<1>7. i > Len(s) => EndsFrom(s, i) = {}
  BY <1>1, <1>2
<1>. QED
  BY <1>4, <1>5, <1>6, <1>7

\* The function by which Remainder is defined, from place i on.
RemainderBody(s, from, i) ==
    IF i > Len(s) THEN <<>>
    ELSE IF ~MarkAt(s, i, "/", "*") THEN <<s[i]>> \o from[i + 1]
    ELSE IF EndsFrom(s, i + 2) = {} THEN <<>>
    ELSE from[Earliest(EndsFrom(s, i + 2)) + 2]
IsRemainder(s, from, first) ==
    from = [i \in first..(Len(s) + 2) |-> RemainderBody(s, from, i)]

\* The function looks only at later places.
LEMMA BodyLooksAhead ==
  ASSUME NEW s \in Seq(Chars), NEW i \in 1..(Len(s) + 2), NEW F, NEW G,
         \A j \in (i + 1)..(Len(s) + 2) : F[j] = G[j]
  PROVE  RemainderBody(s, F, i) = RemainderBody(s, G, i)
<1>1. Len(s) \in Nat /\ i \in Nat \ {0} /\ i + 2 \in Nat \ {0}
  OBVIOUS
<1>2. i <= Len(s) => i + 1 \in (i + 1)..(Len(s) + 2)
  BY <1>1
<1>3. EndsFrom(s, i + 2) # {} =>
        Earliest(EndsFrom(s, i + 2)) + 2 \in (i + 1)..(Len(s) + 2)
  <2>1. EndsFrom(s, i + 2) \in SUBSET Nat
        /\ \A j \in EndsFrom(s, i + 2) : j >= i + 2 /\ j < Len(s)
    BY <1>1, EndsFacts
  <2>2. EndsFrom(s, i + 2) # {} => Earliest(EndsFrom(s, i + 2)) \in EndsFrom(s, i + 2)
    BY <2>1, EarliestIs
  <2>. QED
    BY <1>1, <2>1, <2>2
<1>4. ~(i > Len(s)) <=> i <= Len(s)
  BY <1>1
<1>. QED
  BY <1>2, <1>3, <1>4 DEF RemainderBody

LEMMA RemainderExists == ASSUME NEW s \in Seq(Chars) PROVE \E from : IsRemainder(s, from, 1)
<1> DEFINE Bad == {m \in Nat : m <= Len(s) + 1 /\ ~\E from : IsRemainder(s, from, Len(s) + 2 - m)}
<1>1. Len(s) \in Nat
  OBVIOUS
<1>2. ASSUME Bad # {} PROVE FALSE
  <2>1. PICK m \in Bad : \A k \in Bad : m <= k
    <3>1. Bad \in SUBSET Nat
      OBVIOUS
    <3>. HIDE DEF Bad
    <3>. QED
      BY <1>2, <3>1, Least
  <2>2. m \in Nat /\ m <= Len(s) + 1 /\ ~\E from : IsRemainder(s, from, Len(s) + 2 - m)
    BY <2>1
  <2> DEFINE first == Len(s) + 2 - m
  <2>3. first \in 1..(Len(s) + 2)
    BY <1>1, <2>2
  <2>4. PICK F : \A i \in (first + 1)..(Len(s) + 2) : F[i] = RemainderBody(s, F, i)
    <3>1. CASE m = 0
      <4>1. \A i : i \notin (first + 1)..(Len(s) + 2)
        BY <1>1, <3>1
      <4>. QED
        BY <4>1
    <3>2. CASE m # 0
      <4>1. m - 1 \in Nat /\ m - 1 <= Len(s) + 1 /\ ~(m <= m - 1)
        BY <1>1, <2>2, <3>2
      <4>2. m - 1 \notin Bad
        BY <2>1, <4>1
      <4>3. PICK F : IsRemainder(s, F, Len(s) + 2 - (m - 1))
        BY <4>1, <4>2
      <4>4. Len(s) + 2 - (m - 1) = first + 1
        BY <1>1, <2>2
      <4>. QED
        BY <4>3, <4>4 DEF IsRemainder
    <3>. QED
      BY <3>1, <3>2
  <2> DEFINE G == [i \in first..(Len(s) + 2) |-> IF i = first THEN RemainderBody(s, F, i) ELSE F[i]]
  <2>5. \A i \in first..(Len(s) + 2) : G[i] = IF i = first THEN RemainderBody(s, F, i) ELSE F[i]
    OBVIOUS
  <2>6. G = [i \in first..(Len(s) + 2) |-> G[i]]
    OBVIOUS
  <2>. HIDE DEF G, first
  <2>7. ASSUME NEW i \in first..(Len(s) + 2) PROVE G[i] = RemainderBody(s, G, i)
    <3>1. i \in 1..(Len(s) + 2)
      BY <1>1, <2>3
    <3>2. \A j \in (i + 1)..(Len(s) + 2) : j \in first..(Len(s) + 2) /\ j # first
      BY <1>1, <2>3
    <3>3. \A j \in (i + 1)..(Len(s) + 2) : F[j] = G[j]
      BY <2>5, <3>2
    <3>4. RemainderBody(s, F, i) = RemainderBody(s, G, i)
      BY <3>1, <3>3, BodyLooksAhead
    <3>5. i # first => i \in (first + 1)..(Len(s) + 2)
      BY <1>1, <2>3
    <3>. QED
      BY <2>4, <2>5, <3>4, <3>5
  <2>8. IsRemainder(s, G, first)
    BY <2>6, <2>7 DEF IsRemainder
  <2>. QED
    BY <2>2, <2>8 DEF first
<1>3. Len(s) + 1 \in Nat /\ Len(s) + 1 <= Len(s) + 1 /\ Len(s) + 2 - (Len(s) + 1) = 1
  BY <1>1
<1>4. Len(s) + 1 \notin Bad
  <2>. HIDE DEF Bad
  <2>. QED
    BY <1>2
<1>5. \E from : IsRemainder(s, from, Len(s) + 2 - (Len(s) + 1))
  BY <1>3, <1>4
<1>. QED
  BY <1>3, <1>5

LEMMA RemainderIs ==
  ASSUME NEW s \in Seq(Chars)
  PROVE  \A i \in 1..(Len(s) + 2) : Remainder(s)[i] = RemainderBody(s, Remainder(s), i)
<1> DEFINE F == CHOOSE from : from =
      [i \in 1..(Len(s) + 2) |->
          IF i > Len(s) THEN <<>>
          ELSE IF ~MarkAt(s, i, "/", "*") THEN <<s[i]>> \o from[i + 1]
          ELSE IF EndsFrom(s, i + 2) = {} THEN <<>>
          ELSE from[Earliest(EndsFrom(s, i + 2)) + 2]]
<1>1. Remainder(s) = F
  BY DEF Remainder
<1>2. F = [i \in 1..(Len(s) + 2) |-> RemainderBody(s, F, i)]
  BY RemainderExists DEF IsRemainder, RemainderBody
<1>. HIDE DEF F
<1>. QED
  BY <1>1, <1>2

LEMMA RemainderType ==
  ASSUME NEW s \in Seq(Chars)
  PROVE  \A i \in 1..(Len(s) + 2) : Remainder(s)[i] \in Seq(Chars)
<1> DEFINE Bad == {m \in Nat : m <= Len(s) + 1 /\ Remainder(s)[Len(s) + 2 - m] \notin Seq(Chars)}
<1>1. Len(s) \in Nat
  OBVIOUS
<1>2. ASSUME Bad # {} PROVE FALSE
  <2>1. PICK m \in Bad : \A k \in Bad : m <= k
    <3>1. Bad \in SUBSET Nat
      OBVIOUS
    <3>. HIDE DEF Bad
    <3>. QED
      BY <1>2, <3>1, Least
  <2> DEFINE i == Len(s) + 2 - m
  <2>2. i \in 1..(Len(s) + 2) /\ i \in Nat \ {0} /\ Remainder(s)[i] \notin Seq(Chars)
    BY <1>1, <2>1
  <2>3. \A j \in (i + 1)..(Len(s) + 2) : Remainder(s)[j] \in Seq(Chars)
    <3>1. TAKE j \in (i + 1)..(Len(s) + 2)
    <3>2. Len(s) + 2 - j \in Nat /\ Len(s) + 2 - j <= Len(s) + 1 /\ ~(m <= Len(s) + 2 - j)
          /\ Len(s) + 2 - (Len(s) + 2 - j) = j
      BY <1>1, <2>1
    <3>3. Len(s) + 2 - j \notin Bad
      BY <2>1, <3>2
    <3>. QED
      BY <3>2, <3>3
  <2>. HIDE DEF i, Bad
  <2>4. i <= Len(s) => i + 1 \in (i + 1)..(Len(s) + 2) /\ s[i] \in Chars
    BY <1>1, <2>2
  <2>5. EndsFrom(s, i + 2) # {} =>
          Earliest(EndsFrom(s, i + 2)) + 2 \in (i + 1)..(Len(s) + 2)
    <3>1. i + 2 \in Nat \ {0}
      BY <2>2
    <3>2. EndsFrom(s, i + 2) \in SUBSET Nat
          /\ \A j \in EndsFrom(s, i + 2) : j >= i + 2 /\ j < Len(s)
      BY <3>1, EndsFacts
    <3>3. EndsFrom(s, i + 2) # {} => Earliest(EndsFrom(s, i + 2)) \in EndsFrom(s, i + 2)
      BY <3>2, EarliestIs
    <3>. QED
      BY <1>1, <2>2, <3>2, <3>3
  <2>6. RemainderBody(s, Remainder(s), i) \in Seq(Chars)
    <3>1. CASE i > Len(s)
      BY <3>1 DEF RemainderBody
    <3>2. CASE ~(i > Len(s)) /\ ~MarkAt(s, i, "/", "*")
      <4>1. s[i] \in Chars /\ Remainder(s)[i + 1] \in Seq(Chars)
        BY <1>1, <2>2, <2>3, <2>4, <3>2
      <4>2. <<s[i]>> \o Remainder(s)[i + 1] \in Seq(Chars)
        BY <4>1
      <4>. QED
        BY <3>2, <4>2 DEF RemainderBody
    <3>3. CASE ~(i > Len(s)) /\ MarkAt(s, i, "/", "*")
      BY <2>3, <2>5, <3>3 DEF RemainderBody
    <3>. QED
      BY <3>1, <3>2, <3>3
  <2>. QED
    BY <2>2, <2>6, RemainderIs
<1>3. ASSUME NEW i \in 1..(Len(s) + 2) PROVE Remainder(s)[i] \in Seq(Chars)
  <2>1. Len(s) + 2 - i \in Nat /\ Len(s) + 2 - i <= Len(s) + 1
        /\ Len(s) + 2 - (Len(s) + 2 - i) = i
    BY <1>1
  <2>. QED
    BY <1>2, <2>1
<1>. QED
  BY <1>3

\* What is left from a place that starts no comment, from one that does, and
\* from the end; inside a comment, and at its end.
LEMMA RemainderFacts ==
  ASSUME NEW s \in Seq(Chars), NEW i \in 1..(Len(s) + 1)
  PROVE  /\ i > Len(s) => Remainder(s)[i] = <<>> /\ AfterEnd(s, i) = <<>>
         /\ i <= Len(s) /\ ~MarkAt(s, i, "/", "*") =>
              Remainder(s)[i] = <<s[i]>> \o Remainder(s)[i + 1]
         /\ MarkAt(s, i, "/", "*") => Remainder(s)[i] = AfterEnd(s, i + 2)
         /\ ~MarkAt(s, i, "*", "/") => AfterEnd(s, i) = AfterEnd(s, i + 1)
         /\ MarkAt(s, i, "*", "/") => AfterEnd(s, i) = Remainder(s)[i + 2]
<1>1. Len(s) \in Nat /\ i \in Nat \ {0} /\ i \in 1..(Len(s) + 2)
  OBVIOUS
<1>2. Remainder(s)[i] = RemainderBody(s, Remainder(s), i)
  BY <1>1, RemainderIs
<1>3. /\ ~MarkAt(s, i, "*", "/") => EndsFrom(s, i) = EndsFrom(s, i + 1)
      /\ MarkAt(s, i, "*", "/") => i \in EndsFrom(s, i) /\ Earliest(EndsFrom(s, i)) = i
      /\ i > Len(s) => EndsFrom(s, i) = {}
  BY <1>1, EndsFacts
<1>4. i > Len(s) => Remainder(s)[i] = <<>> /\ AfterEnd(s, i) = <<>>
  BY <1>2, <1>3 DEF RemainderBody, AfterEnd
<1>5. i <= Len(s) /\ ~MarkAt(s, i, "/", "*") =>
        Remainder(s)[i] = <<s[i]>> \o Remainder(s)[i + 1]
  <2>1. i <= Len(s) => ~(i > Len(s))
    BY <1>1
  <2>. QED
    BY <1>2, <2>1 DEF RemainderBody
<1>6. MarkAt(s, i, "/", "*") => Remainder(s)[i] = AfterEnd(s, i + 2)
  <2>1. MarkAt(s, i, "/", "*") => ~(i > Len(s))
    BY <1>1 DEF MarkAt
  <2>. QED
    BY <1>2, <2>1 DEF RemainderBody, AfterEnd
<1>7. ~MarkAt(s, i, "*", "/") => AfterEnd(s, i) = AfterEnd(s, i + 1)
  BY <1>3 DEF AfterEnd
<1>8. MarkAt(s, i, "*", "/") => AfterEnd(s, i) = Remainder(s)[i + 2]
  BY <1>3 DEF AfterEnd
<1>. QED
  BY <1>4, <1>5, <1>6, <1>7, <1>8

LEMMA AfterEndType ==
  ASSUME NEW s \in Seq(Chars), NEW i \in Nat \ {0}
  PROVE  AfterEnd(s, i) \in Seq(Chars)
<1>1. EndsFrom(s, i) \in SUBSET Nat /\ \A j \in EndsFrom(s, i) : j >= i /\ j < Len(s)
  BY EndsFacts
<1>2. CASE EndsFrom(s, i) = {}
  BY <1>2 DEF AfterEnd
<1>3. CASE EndsFrom(s, i) # {}
  <2>1. Earliest(EndsFrom(s, i)) \in EndsFrom(s, i)
    BY <1>1, <1>3, EarliestIs
  <2>2. Len(s) \in Nat /\ Earliest(EndsFrom(s, i)) + 2 \in 1..(Len(s) + 2)
    BY <1>1, <2>1
  <2>. QED
    BY <1>3, <2>2, RemainderType DEF AfterEnd
<1>. QED
  BY <1>2, <1>3

LEMMA FilterStarts == FilterInit => FilterIInv
<1> SUFFICES ASSUME FilterInit PROVE FilterIInv
  OBVIOUS
<1>1. text \in Seq(Chars)
  <2>1. PICK n \in 0..MaxText : text \in [1..n -> Chars]
    BY DEF FilterInit
  <2>2. n \in Nat
    BY FilterAssumption
  <2>. QED
    BY <2>1, <2>2
<1>2. /\ rest = text /\ buf = <<>> /\ p = 1 /\ comment = FALSE /\ printed = <<>>
      /\ Len(text) \in Nat /\ Len(buf) = 0
  BY <1>1 DEF FilterInit
<1>3. FilterTypeOK
  <2>1. p \in 1..(Len(buf) + 1)
    BY <1>2
  <2>2. <<>> \in Seq(Chars)
    OBVIOUS
  <2>. QED
    BY <1>1, <1>2, <2>1, <2>2 DEF FilterTypeOK
<1>4. Before = 0 /\ Place = 1
  <2>1. Len(rest) = Len(text) /\ Len(text) \in Nat /\ Len(buf) = 0 /\ p = 1
    BY <1>2
  <2>. QED
    BY <2>1 DEF Before, Place
<1>5. ReadInOrder
  BY <1>1, <1>2, <1>4 DEF ReadInOrder
<1>6. LinesEnd
  BY <1>2 DEF LinesEnd
<1>7. PrintedSoFar
  <2>1. Remainder(text)[1] \in Seq(Chars)
    <3>1. 1 \in 1..(Len(text) + 2)
      BY <1>2
    <3>. QED
      BY <1>1, <3>1, RemainderType
  <2>2. <<>> \o Remainder(text)[1] = Remainder(text)[1]
    BY <2>1
  <2>. QED
    BY <1>2, <1>4, <2>2 DEF PrintedSoFar, Stripped
<1>. QED
  BY <1>3, <1>5, <1>6, <1>7 DEF FilterIInv

\* What fgets reads is not empty and, where lines fit, ends with a line or with
\* the text.
LEMMA ReadFacts ==
  ASSUME NEW s \in Seq(Chars), s # <<>>
  PROVE  /\ LineLen(s) \in 1..Len(s)
         /\ LineLen(s) = Len(s) \/ LineLen(s) = BufSize - 1 \/ s[LineLen(s)] = "newline"
         /\ (\E j \in 1..(BufSize - 1) : j <= Len(s) /\ s[j] = "newline")
              => s[LineLen(s)] = "newline"
<1> DEFINE full == IF Len(s) < BufSize - 1 THEN Len(s) ELSE BufSize - 1
           ends == {i \in 1..full : s[i] = "newline"}
<1>1. Len(s) \in Nat \ {0} /\ BufSize \in Nat \ {0, 1}
  BY FilterAssumption
<1>2. full \in 1..Len(s) /\ (full = Len(s) \/ full = BufSize - 1)
  BY <1>1
<1>3. LineLen(s) = IF ends = {} THEN full ELSE Earliest(ends)
  BY DEF LineLen
<1>4. ASSUME ends # {} PROVE Earliest(ends) \in ends
  <2>1. ends \in SUBSET Nat
    BY <1>1
  <2>. HIDE DEF ends
  <2>. QED
    BY <1>4, <2>1, EarliestIs
<1>5. ASSUME NEW j \in 1..(BufSize - 1), j <= Len(s), s[j] = "newline" PROVE j \in ends
  BY <1>1, <1>5
<1>6. \A j \in ends : j \in 1..Len(s) /\ s[j] = "newline"
  BY <1>1, <1>2
<1>. HIDE DEF full, ends
<1>. QED
  BY <1>1, <1>2, <1>3, <1>4, <1>5, <1>6

LEMMA fgetsKeeps == ASSUME LinesFit, ArgsFromRight, FilterIInv, fgets PROVE FilterIInv'
<1>1. FilterTypeOK /\ ReadInOrder /\ LinesEnd /\ PrintedSoFar
  BY DEF FilterIInv
<1> DEFINE n == LineLen(rest)
<1>2. /\ text \in Seq(Chars) /\ rest \in Seq(Chars) /\ buf \in Seq(Chars) /\ printed \in Seq(Chars)
      /\ Len(text) \in Nat /\ Len(rest) \in Nat /\ Len(buf) \in Nat
      /\ p = Len(buf) + 1 /\ rest # <<>> /\ comment \in BOOLEAN
  BY <1>1 DEF FilterTypeOK, fgets
<1>3. /\ n \in 1..Len(rest)
      /\ n = Len(rest) \/ n = BufSize - 1 \/ rest[n] = "newline"
      /\ (\E j \in 1..(BufSize - 1) : j <= Len(rest) /\ rest[j] = "newline")
           => rest[n] = "newline"
  BY <1>2, ReadFacts
<1>4. /\ buf' = SubSeq(rest, 1, n) /\ rest' = SubSeq(rest, n + 1, Len(rest))
      /\ p' = 1 /\ UNCHANGED <<text, comment, printed>>
  BY DEF fgets
<1>. HIDE DEF n
<1>5. /\ buf' \in Seq(Chars) /\ Len(buf') = n /\ \A i \in 1..n : buf'[i] = rest[i]
  BY <1>2, <1>3, <1>4
<1>6. /\ rest' \in Seq(Chars) /\ Len(rest') = Len(rest) - n
      /\ \A i \in 1..(Len(rest) - n) : rest'[i] = rest[n + i]
  BY <1>2, <1>3, <1>4
<1>7. /\ Before = Len(text) - Len(rest) - Len(buf) /\ Before \in Nat
      /\ \A i \in 1..Len(rest) : rest[i] = text[Before + Len(buf) + i]
  BY <1>1 DEF ReadInOrder, Before
<1>8. Before' = Before + Len(buf) /\ Place' = Place
  <2>1. /\ Len(text') = Len(text) /\ Len(rest') = Len(rest) - n /\ Len(buf') = n /\ p' = 1
        /\ Len(text) \in Nat /\ Len(rest) \in Nat /\ Len(buf) \in Nat /\ n \in Nat
        /\ p = Len(buf) + 1
    BY <1>2, <1>3, <1>4, <1>5, <1>6
  <2>2. Before' = Len(text) - (Len(rest) - n) - n
    BY <2>1 DEF Before
  <2>3. Before' = Before + Len(buf)
    <3>1. Before = Len(text) - Len(rest) - Len(buf)
      BY <1>7
    <3>2. Len(text) \in Nat /\ Len(rest) \in Nat /\ Len(buf) \in Nat /\ n \in Nat
      BY <2>1
    <3>. QED
      BY ONLY <2>2, <3>1, <3>2
  <2>. QED
    BY <1>7, <2>1, <2>3 DEF Place
<1>9. FilterTypeOK'
  BY <1>2, <1>3, <1>4, <1>5, <1>6 DEF FilterTypeOK
<1>10. ReadInOrder'
  <2>1. Before' \in Nat
    BY <1>2, <1>7, <1>8
  <2>2. ASSUME NEW i \in 1..Len(buf') PROVE buf'[i] = text'[Before' + i]
    BY <1>2, <1>3, <1>4, <1>5, <1>7, <1>8
  <2>3. ASSUME NEW i \in 1..Len(rest') PROVE rest'[i] = text'[Before' + Len(buf') + i]
    <3>1. i \in Nat /\ n + i \in 1..Len(rest) /\ rest'[i] = rest[n + i]
      BY <1>2, <1>3, <1>6
    <3>2. rest[n + i] = text[Before + Len(buf) + (n + i)]
      BY <1>7, <3>1
    <3>3. Before + Len(buf) + (n + i) = Before' + Len(buf') + i
      BY <1>2, <1>3, <1>5, <1>7, <1>8, <3>1
    <3>. QED
      BY <1>4, <3>1, <3>2, <3>3
  <2>. QED
    BY <2>1, <2>2, <2>3 DEF ReadInOrder
<1>11. LinesEnd'
  <2>1. CASE n = Len(rest)
    BY <1>2, <1>6, <2>1 DEF LinesEnd
  <2>2. CASE rest[n] = "newline"
    BY <1>3, <1>5, <2>2 DEF LinesEnd
  <2>3. CASE n = BufSize - 1 /\ n # Len(rest)
    <3> DEFINE i == Before + Len(buf)
    <3>1. /\ Len(text) \in Nat /\ Len(rest) \in Nat /\ i \in Nat /\ BufSize \in Nat
          /\ Len(rest) = Len(text) - i /\ BufSize - 1 < Len(rest)
      <4>1. BufSize \in Nat /\ BufSize - 1 < Len(rest)
        <5>1. n <= Len(rest) /\ n # Len(rest) /\ n \in Nat
          BY <1>2, <1>3, <2>3
        <5>. QED
          BY <1>2, <2>3, <5>1, FilterAssumption
      <4>2. i \in Nat /\ Len(rest) = Len(text) - i
        BY <1>2, <1>7
      <4>. QED
        BY <1>2, <4>1, <4>2
    <3>. HIDE DEF i
    <3>2. PICK j \in (i + 1)..(i + BufSize - 1) : text[j] = "newline"
      <4>1. i \in 0..Len(text) /\ i + BufSize - 1 < Len(text)
        BY <3>1
      <4>. QED
        BY <4>1 DEF LinesFit
    <3>3. j - i \in 1..(BufSize - 1) /\ j - i \in 1..Len(rest) /\ i + (j - i) = j
      BY <3>1
    <3>4. rest[j - i] = "newline"
      BY <1>7, <3>2, <3>3 DEF i
    <3>5. rest[n] = "newline"
      BY <1>2, <1>3, <3>3, <3>4
    <3>. QED
      BY <2>2, <3>5
  <2>. QED
    BY <1>3, <2>1, <2>2, <2>3
<1>12. PrintedSoFar'
  BY <1>1, <1>4, <1>8 DEF PrintedSoFar
<1>. QED
  BY <1>9, <1>10, <1>11, <1>12 DEF FilterIInv

\* A mark is not cut by the end of the buffer, so the buffer shows what the
\* text has.
LEMMA MarksSeen ==
  ASSUME FilterTypeOK, ReadInOrder, LinesEnd, p <= Len(buf),
         NEW a \in {"/", "*"}, NEW b \in {"/", "*"}
  PROVE  /\ Place \in 1..Len(text) /\ At(p) = text[Place]
         /\ At(p) = a /\ At(p + 1) = b <=> MarkAt(text, Place, a, b)
         /\ At(p) = a /\ At(p + 1) = b => p + 2 \in 1..(Len(buf) + 1)
<1>1. /\ text \in Seq(Chars) /\ rest \in Seq(Chars) /\ buf \in Seq(Chars)
      /\ Len(text) \in Nat /\ Len(rest) \in Nat /\ Len(buf) \in Nat /\ p \in 1..Len(buf)
  BY DEF FilterTypeOK
<1>2. /\ Before = Len(text) - Len(rest) - Len(buf) /\ Before \in Nat
      /\ \A i \in 1..Len(buf) : buf[i] = text[Before + i]
  BY DEF ReadInOrder, Before
<1>3. Place = Before + p /\ Place \in 1..Len(text) /\ At(p) = text[Place]
  BY <1>1, <1>2 DEF Place, At
<1>4. CASE p < Len(buf)
  <2>1. p + 1 \in 1..Len(buf) /\ Before + (p + 1) = Place + 1 /\ Place < Len(text)
    <3>1. p + 1 \in 1..Len(buf)
      BY <1>1, <1>4
    <3>2. Before + (p + 1) = Place + 1
      BY <1>1, <1>2, <1>3
    <3>3. Place < Len(text)
      BY <1>1, <1>2, <1>3, <1>4
    <3>. QED
      BY <3>1, <3>2, <3>3
  <2>2. At(p + 1) = text[Place + 1]
    BY <1>1, <1>2, <2>1 DEF At
  <2>. QED
    BY <1>1, <1>3, <2>1, <2>2 DEF MarkAt
<1>5. CASE p = Len(buf)
  <2>1. At(p + 1) = NUL
    BY <1>1, <1>5 DEF At
  <2>2. ASSUME MarkAt(text, Place, a, b) PROVE FALSE
    <3>1. Len(rest) # 0
      BY <1>1, <1>2, <1>3, <1>5, <2>2 DEF MarkAt
    <3>2. At(p) = "newline"
      BY <1>1, <1>5, <3>1 DEF LinesEnd, At
    <3>. QED
      BY <1>3, <2>2, <3>2 DEF MarkAt
  <2>. QED
    BY <1>3, <2>1, <2>2 DEF NUL
<1>. QED
  BY <1>1, <1>4, <1>5

LEMMA ProcessKeeps == ASSUME LinesFit, ArgsFromRight, FilterIInv, Process PROVE FilterIInv'
<1>1. FilterTypeOK /\ ReadInOrder /\ LinesEnd /\ PrintedSoFar
  BY DEF FilterIInv
<1>2. /\ text \in Seq(Chars) /\ rest \in Seq(Chars) /\ buf \in Seq(Chars) /\ printed \in Seq(Chars)
      /\ Len(text) \in Nat /\ Len(rest) \in Nat /\ Len(buf) \in Nat
      /\ p \in 1..Len(buf) /\ comment \in BOOLEAN
  BY <1>1 DEF FilterTypeOK, Process
<1> DEFINE begins == MarkAt(text, Place, "/", "*")
           stops == MarkAt(text, Place, "*", "/")
<1>3. /\ Place \in 1..Len(text) /\ At(p) = text[Place]
      /\ At(p) = "/" /\ At(p + 1) = "*" <=> begins
      /\ At(p) = "*" /\ At(p + 1) = "/" <=> stops
      /\ begins \/ stops => p + 2 \in 1..(Len(buf) + 1)
  BY <1>1, <1>2, MarksSeen
<1>4. Place \in 1..(Len(text) + 1) /\ Place + 1 \in Nat \ {0} /\ Place + 2 \in Nat \ {0}
      /\ Place \in Nat /\ Place <= Len(text)
  BY <1>2, <1>3
<1>5. /\ ~begins => Remainder(text)[Place] = <<text[Place]>> \o Remainder(text)[Place + 1]
      /\ begins => Remainder(text)[Place] = AfterEnd(text, Place + 2)
      /\ ~stops => AfterEnd(text, Place) = AfterEnd(text, Place + 1)
      /\ stops => AfterEnd(text, Place) = Remainder(text)[Place + 2]
  BY <1>2, <1>4, RemainderFacts
<1>6. UNCHANGED <<text, rest, buf>> /\ Before' = Before /\ Before \in Nat
  BY <1>1 DEF Process, Before, ReadInOrder
<1>. HIDE DEF begins, stops
<1>7. ReadInOrder' /\ LinesEnd'
  BY <1>1, <1>6 DEF ReadInOrder, LinesEnd
<1>8. ASSUME p' \in 1..(Len(buf) + 1), comment' \in BOOLEAN, printed' \in Seq(Chars), PrintedSoFar'
      PROVE  FilterIInv'
  <2>1. FilterTypeOK'
    BY <1>2, <1>6, <1>8 DEF FilterTypeOK
  <2>. QED
    BY <1>7, <1>8, <2>1 DEF FilterIInv
<1>9. ASSUME p' \in Nat PROVE Place' = Before + p' /\ Place = Before + p
  BY <1>6 DEF Place
<1>10. CASE ~comment /\ begins
  <2>1. p' = p + 2 /\ comment' = TRUE /\ printed' = printed
    BY <1>3, <1>10 DEF Process, get_evt_key, Moves
  <2>2. Place' = Place + 2
    BY <1>2, <1>6, <1>9, <2>1
  <2>3. PrintedSoFar'
    BY <1>1, <1>5, <1>6, <1>10, <2>1, <2>2 DEF PrintedSoFar
  <2>. QED
    BY <1>2, <1>3, <1>8, <1>10, <2>1, <2>3
<1>11. CASE ~comment /\ ~begins
  <2>1. p' = p + 1 /\ comment' = FALSE /\ printed' = Append(printed, text[Place])
    BY <1>3, <1>11 DEF Process, get_evt_key, Moves
  <2>2. Place' = Place + 1
    BY <1>2, <1>6, <1>9, <2>1
  <2>3. text[Place] \in Chars
    BY <1>2, <1>3
  <2>4. Remainder(text)[Place + 1] \in Seq(Chars)
    <3>1. Place + 1 \in 1..(Len(text) + 2)
      BY <1>2, <1>3
    <3>. QED
      BY <1>2, <3>1, RemainderType
  <2>5. ASSUME NEW c \in Chars, NEW tail \in Seq(Chars)
        PROVE  Append(printed, c) \o tail = printed \o (<<c>> \o tail)
    BY <1>2
  <2>6. PrintedSoFar'
    <3>1. printed' \o Remainder(text)[Place + 1] = printed \o Remainder(text)[Place]
      BY <1>5, <1>11, <2>1, <2>3, <2>4, <2>5
    <3>. QED
      BY <1>1, <1>6, <1>11, <2>1, <2>2, <3>1 DEF PrintedSoFar
  <2>7. p' \in 1..(Len(buf) + 1) /\ printed' \in Seq(Chars)
    BY <1>2, <2>1, <2>3
  <2>. QED
    BY <1>8, <2>1, <2>6, <2>7
<1>12. CASE comment /\ stops
  <2>1. p' = p + 2 /\ comment' = FALSE /\ printed' = printed
    BY <1>3, <1>12 DEF Process, get_evt_key, Moves
  <2>2. Place' = Place + 2
    BY <1>2, <1>6, <1>9, <2>1
  <2>3. PrintedSoFar'
    BY <1>1, <1>5, <1>6, <1>12, <2>1, <2>2 DEF PrintedSoFar
  <2>. QED
    BY <1>2, <1>3, <1>8, <1>12, <2>1, <2>3
<1>13. CASE comment /\ ~stops
  <2>1. p' = p + 1 /\ comment' = TRUE /\ printed' = printed
    BY <1>2, <1>3, <1>13 DEF Process, get_evt_key, Moves
  <2>2. Place' = Place + 1
    BY <1>2, <1>6, <1>9, <2>1
  <2>3. PrintedSoFar'
    BY <1>1, <1>5, <1>6, <1>13, <2>1, <2>2 DEF PrintedSoFar
  <2>4. p' \in 1..(Len(buf) + 1)
    BY <1>2, <2>1
  <2>. QED
    BY <1>2, <1>8, <2>1, <2>3, <2>4
<1>. QED
  BY <1>10, <1>11, <1>12, <1>13

\* FilterIInv holds of every behaviour of the comment filter: at each step what
\* was printed, with what is left of the text from the place reached, is the
\* text without its comments.
THEOREM FilterInvariance == FilterSpec => []FilterIInv
<1>1. FilterInit => FilterIInv
  BY FilterStarts
<1>2. FilterIInv /\ [FilterSteps]_filter => FilterIInv'
  <2> SUFFICES ASSUME FilterIInv, [FilterSteps]_filter PROVE FilterIInv'
    OBVIOUS
  <2>1. text' = text
    BY DEF FilterSteps, fgets, Process, filter
  <2>2. CASE ~(LinesFit /\ ArgsFromRight)
    BY <2>1, <2>2 DEF FilterIInv, LinesFit
  <2>3. CASE LinesFit /\ ArgsFromRight /\ fgets
    BY <2>3, fgetsKeeps
  <2>4. CASE LinesFit /\ ArgsFromRight /\ Process
    BY <2>4, ProcessKeeps
  <2>5. CASE UNCHANGED filter
    BY <2>5 DEF filter, FilterIInv, LinesFit, FilterTypeOK, ReadInOrder, LinesEnd, PrintedSoFar,
                Before, Place
  <2>. QED
    BY <2>2, <2>3, <2>4, <2>5 DEF FilterSteps
<1>. QED
  BY <1>1, <1>2, PTL DEF FilterSpec

\* StripsComments of the comment filter, for every text, buffer size and length:
\* where no line is cut and the arguments are evaluated from the right, the
\* program has printed the text without its comments when it has read it all.
THEOREM CommentsStripped == ASSUME ArgsFromRight PROVE FilterSpec => []StripsComments
<1>1. FilterIInv => StripsComments
  <2> SUFFICES ASSUME FilterIInv, LinesFit, rest = <<>>, p > Len(buf)
               PROVE  printed = Stripped(text)
    BY DEF StripsComments
  <2>1. FilterTypeOK /\ ReadInOrder /\ PrintedSoFar
    BY DEF FilterIInv
  <2>2. /\ text \in Seq(Chars) /\ printed \in Seq(Chars) /\ Len(text) \in Nat
        /\ Len(buf) \in Nat /\ p = Len(buf) + 1 /\ Len(rest) = 0 /\ comment \in BOOLEAN
    BY <2>1 DEF FilterTypeOK
  <2>3. Place = Len(text) + 1
    BY <2>2 DEF Place, Before
  <2>4. Remainder(text)[Place] = <<>> /\ AfterEnd(text, Place) = <<>>
    <3>1. Place \in 1..(Len(text) + 1) /\ Place > Len(text)
      BY <2>2, <2>3
    <3>. QED
      BY <2>2, <3>1, RemainderFacts
  <2>5. printed \o <<>> = printed
    BY <2>2
  <2>. QED
    BY <2>1, <2>2, <2>4, <2>5 DEF PrintedSoFar
<1>. QED
  BY <1>1, FilterInvariance, PTL

-----------------------------------------------------------------------------
(* The libraries together *)

LibrariesIInv == MpoolIInv /\ HTableIInv /\ FsmIInv

\* A call of one library leaves the others alone, so each keeps its invariant
\* whichever the program uses.
THEOREM LibrariesInvariance == LibrariesSpec => []LibrariesIInv
<1>1. LibrariesInit => LibrariesIInv
  BY Initially, InitHTable, FsmStarts DEF LibrariesInit, LibrariesIInv
<1>2. LibrariesIInv /\ [LibrariesNext]_librariesvars => LibrariesIInv'
  <2> SUFFICES ASSUME LibrariesIInv, [LibrariesNext]_librariesvars PROVE LibrariesIInv'
    OBVIOUS
  <2>1. [MpoolNext]_mpool
    BY DEF LibrariesNext, OfMpool, OfHTable, OfFsm, OfFilter, librariesvars
  <2>2. [HTableCalls]_htable
    BY DEF LibrariesNext, OfMpool, OfHTable, OfFsm, OfFilter, librariesvars
  <2>3. [FsmCalls]_graph
    BY DEF LibrariesNext, OfMpool, OfHTable, OfFsm, OfFilter, librariesvars
  <2>. QED
    BY <2>1, <2>2, <2>3, MpoolStepKeeps, StepHTable, FsmStepKeeps DEF LibrariesIInv
<1>. QED
  BY <1>1, <1>2, PTL DEF LibrariesSpec

\* Headers and addresses of mpool.c, chains and counters of htable.c, keys and
\* marks of fsm.c stay in their ranges, whichever calls are made.
THEOREM LibrariesTypes == LibrariesSpec => []TypesOK
<1>1. LibrariesIInv => TypesOK
  BY DEF LibrariesIInv, MpoolIInv, HTableIInv, FsmIInv, TypesOK
<1>. QED
  BY LibrariesInvariance, <1>1, PTL
=============================================================================
