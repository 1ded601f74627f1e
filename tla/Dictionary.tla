----------------------------- MODULE Dictionary -----------------------------
(***************************************************************************)
(* What a hash table promises its callers: a partial function from keys    *)
(* to data, and truthful answers about it.                                 *)
(***************************************************************************)
CONSTANTS Keys, Data, NULL

VARIABLES
    dict,       \* a function whose domain is a set of keys
    answer      \* what the last call returned

dvars == <<dict, answer>>

Put(f, k, d) == [x \in (DOMAIN f) \cup {k} |-> IF x = k THEN d ELSE f[x]]
Remove(f, k) == [x \in (DOMAIN f) \ {k} |-> f[x]]

DictInit == dict = [x \in {} |-> NULL] /\ answer = "HT_OK"

\* A key that is present keeps its data; memory may run out.
Insert(k, d) ==
    \/ /\ k \in DOMAIN dict
       /\ answer' = "HT_EXISTS" /\ UNCHANGED dict
    \/ /\ k \notin DOMAIN dict
       /\ \/ answer' = "HT_OK" /\ dict' = Put(dict, k, d)
          \/ answer' = "HT_NOMEM" /\ UNCHANGED dict

Delete(k) ==
    IF k \in DOMAIN dict
      THEN answer' = "HT_OK" /\ dict' = Remove(dict, k)
      ELSE answer' = "HT_NOTFOUND" /\ UNCHANGED dict

Search(k) ==
    /\ answer' = IF k \in DOMAIN dict THEN dict[k] ELSE NULL
    /\ UNCHANGED dict

\* Growing is nobody's business but the table's.
Grow == answer' \in {"HT_OK", "HT_NOMEM"} /\ UNCHANGED dict

DictNext ==
    \/ \E k \in Keys : Delete(k) \/ Search(k) \/ \E d \in Data : Insert(k, d)
    \/ Grow

DictSpec == DictInit /\ [][DictNext]_dvars
=============================================================================
