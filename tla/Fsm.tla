-------------------------------- MODULE Fsm --------------------------------
(***************************************************************************)
(* The state graph of eleutheria/fsm: states.c (states and the events they *)
(* handle) and fsm.c (the table of states, the current state, reachability *)
(* marks).  Each library call is one step.  A state that is in no table    *)
(* may have transitions to it; its key is not initialised before           *)
(* fsm_add_state.  The table is large enough for one chain per key, so its *)
(* order is that of the keys.                                              *)
(*                                                                         *)
(* A definition whose name has a suffix (Marked_All) is a wrong variant of *)
(* the definition that follows it, which some property refutes.            *)
(***************************************************************************)
EXTENDS Integers

CONSTANTS
    States, Evts,
    StKeys,         \* StKeys[s]: the keys under which s may be added
    MaxKey,         \* keys are 1..MaxKey, in the order of the hash table
    NoState         \* NULL

ASSUME FsmAssumption ==
    /\ MaxKey \in Nat /\ StKeys \in [States -> SUBSET (1..MaxKey)]
    /\ NoState \notin States

VARIABLES
    st_key,         \* 0: not initialised
    sttable,        \* key -> state
    evttable,       \* per state: event -> new state
    flag,           \* STATE_REACHABLE
    cstate,
    starts,         \* history: the arguments of fsm_set_state
    removed         \* history: a transition was removed

graph == <<st_key, sttable, evttable, flag, cstate, starts, removed>>

FsmTypeOK ==
    /\ st_key \in [States -> 0..MaxKey]
    /\ sttable \in [1..MaxKey -> States \cup {NoState}]
    /\ evttable \in [States -> [Evts -> States \cup {NoState}]]
    /\ flag \in [States -> BOOLEAN]
    /\ cstate \in States \cup {NoState}
    /\ starts \subseteq States /\ removed \in BOOLEAN

\* fsm_init, and state_init of every state.
FsmInit ==
    /\ st_key = [s \in States |-> 0]
    /\ sttable = [k \in 1..MaxKey |-> NoState]
    /\ evttable = [s \in States |-> [e \in Evts |-> NoState]]
    /\ flag = [s \in States |-> FALSE]
    /\ cstate = NoState
    /\ starts = {} /\ removed = FALSE

Targets(s) == {evttable[s][e] : e \in Evts} \ {NoState}

-----------------------------------------------------------------------------
(* states.c *)

\* An event that the state already has (ST_EXISTS) is left as it is.
state_add_evt(s, e, new) ==
    /\ evttable' = [evttable EXCEPT ![s][e] = IF @ = NoState THEN new ELSE @]
    /\ UNCHANGED <<st_key, sttable, flag, cstate, starts, removed>>

state_rem_evt(s, e) ==
    /\ removed' = (removed \/ evttable[s][e] # NoState)
    /\ evttable' = [evttable EXCEPT ![s][e] = NoState]
    /\ UNCHANGED <<st_key, sttable, flag, cstate, starts>>

-----------------------------------------------------------------------------
(* fsm.c *)

\* A state gets its key even when the table has another state of this key.
fsm_add_state(s, k) ==
    /\ st_key[s] = 0
    /\ st_key' = [st_key EXCEPT ![s] = k]
    /\ sttable' = [sttable EXCEPT ![k] = IF @ = NoState THEN s ELSE @]
    /\ UNCHANGED <<evttable, flag, cstate, starts, removed>>

\* fsm_mark_reachable_states: one pass over the states of the table.
Marked_All(f) == [s \in States |-> f[s] \/ \E q \in States : s \in Targets(q)]
MarkTargets(f, s) ==
    IF s # NoState /\ f[s] THEN [t \in States |-> f[t] \/ t \in Targets(s)] ELSE f
Marked(f) ==
    LET pass[k \in 0..MaxKey] == IF k = 0 THEN f ELSE MarkTargets(pass[k - 1], sttable[k])
    IN  pass[MaxKey]

fsm_mark_reachable_states ==
    /\ flag' = Marked(flag)
    /\ UNCHANGED <<st_key, sttable, evttable, cstate, starts, removed>>

\* FSM_ENOTFOUND changes nothing.
fsm_set_state(k) ==
    /\ sttable[k] # NoState
    /\ flag' = Marked([flag EXCEPT ![sttable[k]] = TRUE])
    /\ cstate' = sttable[k]
    /\ starts' = starts \cup {sttable[k]}
    /\ UNCHANGED <<st_key, sttable, evttable, removed>>

\* The new state must be in the table: its key is looked up.  A key that is
\* not initialised may be that of some state or not.
Known(s) == IF st_key[s] = 0 THEN {b \in BOOLEAN : b => \E k \in 1..MaxKey : sttable[k] # NoState}
            ELSE {sttable[st_key[s]] # NoState}

fsm_process_event(e) ==
    /\ cstate # NoState
    /\ LET new == evttable[cstate][e] IN
       /\ new # NoState
       /\ \E known \in Known(new) : cstate' = IF known THEN new ELSE cstate
    /\ UNCHANGED <<st_key, sttable, evttable, flag, starts, removed>>

\* fsm_minimize calls fsm_remove_unreachable_state, which is empty.
fsm_minimize == UNCHANGED graph

FsmCalls ==
    \/ \E s \in States, e \in Evts :
         state_rem_evt(s, e) \/ \E new \in States : state_add_evt(s, e, new)
    \/ \E s \in States : \E k \in StKeys[s] : fsm_add_state(s, k)
    \/ \E k \in 1..MaxKey : fsm_set_state(k)
    \/ \E e \in Evts : fsm_process_event(e)
    \/ fsm_mark_reachable_states \/ fsm_minimize

FsmSpec == FsmInit /\ [][FsmCalls]_graph

-----------------------------------------------------------------------------
(* Properties *)

\* The states that transitions lead to from S, any number of them: those of
\* every set that has S and that no transition leaves.
Closed(C) == \A s \in C : Targets(s) \subseteq C
ReachableFrom(S) == {s \in States : \A C \in SUBSET States : S \subseteq C /\ Closed(C) => s \in C}

\* A mark is never wrong as long as transitions are only added ("we mark a
\* state as reachable only if there exist transitions to this state from
\* other reachable states", fsm_mark_reachable_states), and the current state
\* can always be reached from a state that was set.
MarksAreTrue ==
    ~removed =>
        /\ \A s \in States : flag[s] => s \in ReachableFrom(starts)
        /\ cstate # NoState => cstate \in ReachableFrom(starts)
=============================================================================
