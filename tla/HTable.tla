------------------------------- MODULE HTable -------------------------------
(***************************************************************************)
(* The chained hash table of eleutheria/genstructs/htable/htable.c, and    *)
(* its iterator.  A chain is a sequence of nodes.  The table is used by    *)
(* one thread; each library call is one step.  The number of chains is a   *)
(* power of two, so masking a hash with ht_size - 1 is its remainder.      *)
(* Callers do not change the table while they iterate over it (fsm.c and   *)
(* states.c never do).                                                     *)
(*                                                                         *)
(* A definition whose name has a suffix (Rehash_SameBucket) is a wrong     *)
(* variant of the definition that follows it, which some property refutes. *)
(***************************************************************************)
EXTENDS Integers, Sequences, SequencesExt

CONSTANTS
    Keys, Data, NULL,
    Hash,           \* ht_hashf
    InitSize,       \* the size given to htable_init
    ht_factor,
    MaxSize,        \* bound: malloc has no memory for a larger table
    MaxGrows        \* bound: the value of ht_grows

ASSUME HTableAssumption ==
    /\ Hash \in [Keys -> Nat]
    /\ InitSize \in Nat \ {0} /\ MaxSize \in Nat /\ MaxGrows \in Nat
    /\ ht_factor \in Nat
    /\ NULL \notin Keys /\ NULL \notin Data

VARIABLES
    ht_table, ht_size, ht_used, ht_limit, ht_grows,
    ret,                    \* what the last call returned
    it_pos, it_pnode,       \* the iterator: its node is named by its key
    iterating,              \* "no", "yes", or "end": the last call gave NULL
    visited                 \* the keys the iterator has returned, in order

table == <<ht_table, ht_size, ht_used, ht_limit, ht_grows>>
iterator == <<it_pos, it_pnode, iterating, visited>>
htable == <<table, ret, iterator>>

HTableNode == [key : Keys, data : Data]

HTableTypeOK ==
    /\ ht_size \in Nat \ {0}
    /\ ht_table \in [0..(ht_size - 1) -> Seq(HTableNode)]
    /\ ht_used \in Nat /\ ht_limit \in Nat /\ ht_grows \in Nat
    /\ ret \in {"HT_OK", "HT_EXISTS", "HT_NOMEM", "HT_NOTFOUND", NULL} \cup Data
    /\ it_pos \in 0..ht_size /\ it_pnode \in Keys \cup {NULL}
    /\ iterating \in {"no", "yes", "end"} /\ visited \in Seq(Keys)

\* htable_init and htable_iterator_init.
HTableInit ==
    /\ ht_size = InitSize
    /\ ht_table = [i \in 0..(InitSize - 1) |-> <<>>]
    /\ ht_used = 0 /\ ht_limit = ht_factor * InitSize /\ ht_grows = 0
    /\ ret = "HT_OK"
    /\ it_pos = 0 /\ it_pnode = NULL /\ iterating = "no" /\ visited = <<>>

-----------------------------------------------------------------------------

Bucket(k, size) == Hash[k] % size
Chain(k) == ht_table[Bucket(k, ht_size)]

\* The places in the chain of k where k is stored.
Places(k) == {i \in DOMAIN Chain(k) : Chain(k)[i].key = k}

\* TAILQ_INSERT_TAIL into the chain of n.
InsertTail(t, size, n) == [t EXCEPT ![Bucket(n.key, size)] = Append(@, n)]

\* The nodes of all old chains, in order, go to the tails of the new chains.
Rehash_SameBucket(t, size, newsize) ==
    [j \in 0..(newsize - 1) |-> IF j < size THEN t[j] ELSE <<>>]
Rehash(t, size, newsize) ==
    LET nodes == FlattenSeq([i \in 1..size |-> t[i - 1]])
        moved[n \in 0..Len(nodes)] ==
          IF n = 0 THEN [j \in 0..(newsize - 1) |-> <<>>]
          ELSE InsertTail(moved[n - 1], newsize, nodes[n])
    IN  moved[Len(nodes)]

\* htable_grow, started from the table t; without memory nothing changes.
Grow(t) ==
    IF 2 * ht_size <= MaxSize
      THEN /\ ht_table' = Rehash(t, ht_size, 2 * ht_size)
           /\ ht_size' = 2 * ht_size
           /\ ht_limit' = ht_factor * (2 * ht_size)
      ELSE /\ ht_table' = t
           /\ UNCHANGED <<ht_size, ht_limit>>

htable_grow ==
    /\ iterating = "no"
    /\ Grow(ht_table)
    /\ ret' = IF 2 * ht_size <= MaxSize THEN "HT_OK" ELSE "HT_NOMEM"
    /\ UNCHANGED <<ht_used, ht_grows, iterator>>

\* A new key goes to the tail of its chain; past the limit the table grows,
\* and the growth is counted whether or not there was memory for it.
htable_insert(k, d) ==
    /\ iterating = "no" /\ ht_grows < MaxGrows
    /\ \/ /\ Places(k) # {}
          /\ ret' = "HT_EXISTS"
          /\ UNCHANGED table
       \/ /\ Places(k) = {}
          /\ ret' = "HT_NOMEM"
          /\ UNCHANGED table
       \/ /\ Places(k) = {}
          /\ ret' = "HT_OK"
          /\ ht_used' = ht_used + 1
          /\ LET t == InsertTail(ht_table, ht_size, [key |-> k, data |-> d])
             IN  IF ht_used + 1 > ht_limit
                   THEN Grow(t) /\ ht_grows' = ht_grows + 1
                   ELSE ht_table' = t /\ UNCHANGED <<ht_size, ht_limit, ht_grows>>
    /\ UNCHANGED iterator

Removed_KeepsUsed(k) == ht_used
Removed(k) == ht_used - 1

\* htable_remove, and htable_free_obj as far as the table is concerned.
htable_remove(k) ==
    /\ iterating = "no"
    /\ IF Places(k) = {}
         THEN ret' = "HT_NOTFOUND" /\ UNCHANGED table
         ELSE /\ ret' = "HT_OK"
              /\ ht_table' = [ht_table EXCEPT ![Bucket(k, ht_size)] =
                                RemoveAt(@, CHOOSE i \in Places(k) : \A j \in Places(k) : i <= j)]
              /\ ht_used' = Removed(k)
              /\ UNCHANGED <<ht_size, ht_limit, ht_grows>>
    /\ UNCHANGED iterator

htable_search(k) ==
    /\ iterating = "no"
    /\ ret' = IF Places(k) = {} THEN NULL
              ELSE Chain(k)[CHOOSE i \in Places(k) : \A j \in Places(k) : i <= j].data
    /\ UNCHANGED <<table, iterator>>

-----------------------------------------------------------------------------
(* The iterator *)

htable_iterator_init ==
    /\ iterating \in {"no", "end"}
    /\ it_pos' = 0 /\ it_pnode' = NULL /\ iterating' = "yes" /\ visited' = <<>>
    /\ UNCHANGED <<table, ret>>

\* The successor of the iterator's node in its chain, as a set of at most one.
NextInChain ==
    IF it_pnode = NULL THEN {}
    ELSE {Chain(it_pnode)[i + 1].key :
            i \in {j \in Places(it_pnode) : j + 1 \in DOMAIN Chain(it_pnode)}}

\* The scan for a chain that is not empty starts at pos and moves pos.
FirstFrom_Skips(i) == {j \in (i + 1)..(ht_size - 1) : ht_table[j] # <<>>}
FirstFrom(i) == {j \in i..(ht_size - 1) : ht_table[j] # <<>>}

\* The call gives NULL at once when pos is past the last chain, even if the
\* iterator is still on that chain.
htable_get_next_elm ==
    /\ iterating = "yes"
    /\ LET here == IF it_pos > ht_size - 1 THEN {} ELSE NextInChain
           later == IF it_pos > ht_size - 1 THEN {} ELSE FirstFrom(it_pos)
           stays == here # {} /\ it_pos # 0
           ends == ~stays /\ later = {}
           first == CHOOSE j \in later : \A k \in later : j <= k
       IN  /\ it_pnode' = IF stays THEN CHOOSE k \in here : TRUE
                          ELSE IF ends THEN NULL ELSE ht_table[first][1].key
           /\ it_pos' = IF stays THEN it_pos ELSE IF ends THEN ht_size ELSE first + 1
           /\ iterating' = IF ends THEN "end" ELSE "yes"
           /\ visited' = IF ends THEN visited ELSE Append(visited, it_pnode')
    /\ UNCHANGED <<table, ret>>

\* The caller forgets the iterator.
StopIterating ==
    /\ iterating # "no"
    /\ iterating' = "no" /\ it_pos' = 0 /\ it_pnode' = NULL /\ visited' = <<>>
    /\ UNCHANGED <<table, ret>>

-----------------------------------------------------------------------------

HTableCalls ==
    \/ \E k \in Keys : htable_remove(k) \/ htable_search(k) \/ \E d \in Data : htable_insert(k, d)
    \/ htable_iterator_init \/ htable_get_next_elm \/ StopIterating
    \/ htable_grow

HTableSpec == HTableInit /\ [][HTableCalls]_htable

-----------------------------------------------------------------------------
(* Properties *)

Stored == UNION {{ht_table[i][j].key : j \in DOMAIN ht_table[i]} : i \in DOMAIN ht_table}

\* ht_used counts the nodes and ht_limit belongs to the size the table has,
\* so the table grows when it should ("If used items exceed limit").
CountersAgree ==
    /\ ht_used = Len(FlattenSeq([i \in 1..ht_size |-> ht_table[i - 1]]))
    /\ ht_limit = ht_factor * ht_size
    /\ ht_used > ht_limit => 2 * ht_size > MaxSize

\* A full iteration returns no key twice, and every key except those behind
\* the first node of the last chain (htable_get_next_elm).
IteratorVisits ==
    /\ IsInjective(visited)
    /\ iterating = "end" =>
         ToSet(visited) = Stored \ {ht_table[ht_size - 1][j].key : j \in DOMAIN ht_table[ht_size - 1] \ {1}}

\* The table is a dictionary: the contents behind the chains and every
\* answer are those of a partial function.
Contents ==
    [k \in Stored |-> (CHOOSE n \in UNION {Range(ht_table[i]) : i \in DOMAIN ht_table} : n.key = k).data]

Dict == INSTANCE Dictionary WITH dict <- Contents, answer <- ret
ImplementsDictionary == Dict!DictSpec
=============================================================================
