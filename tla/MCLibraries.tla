---------------------------- MODULE MCLibraries ----------------------------
(***************************************************************************)
(* The sequential libraries of eleutheria for TLC, and the program that    *)
(* uses the state machines: one behaviour exercises one of them, chosen at *)
(* the start; the others stay as they are at the beginning.                *)
(***************************************************************************)
EXTENDS Mpool, HTable, Fsm, CommentFilter

CONSTANTS s1, s2, s3

MCSize == [l \in 0..maxlogsize |-> 2^l]
MCHash == [k \in Keys |-> k]      \* fsm_hashf
MCStKeys == [s \in States |-> CASE s = s1 -> {1} [] s = s2 -> {2} [] s = s3 -> {3, 1}]

VARIABLE program

librariesvars == <<mpool, htable, graph, filter, program>>

\* Only test_rmcom has a text.
LibrariesInit ==
    /\ program \in {"mpool", "htable", "fsm", "test_rmcom"}
    /\ MpoolInit /\ HTableInit /\ FsmInit /\ FilterInit
    /\ program # "test_rmcom" => text = <<>>

OfMpool(step) == program = "mpool" /\ step /\ UNCHANGED <<htable, graph, filter, program>>
OfHTable == program = "htable" /\ HTableCalls /\ UNCHANGED <<mpool, graph, filter, program>>
OfFsm == program = "fsm" /\ FsmCalls /\ UNCHANGED <<mpool, htable, filter, program>>
OfFilter == program = "test_rmcom" /\ FilterSteps /\ UNCHANGED <<mpool, htable, graph, program>>

LibrariesNext == OfMpool(MpoolNext) \/ OfHTable \/ OfFsm \/ OfFilter

\* A call of the pool that was made runs to its end.
LibrariesSpec ==
    /\ LibrariesInit /\ [][LibrariesNext]_librariesvars
    /\ WF_librariesvars(OfMpool(InCall))

\* The types of the libraries: addresses and headers, buckets and counters,
\* keys and marks stay in their ranges.
TypesOK == MpoolTypeOK /\ HTableTypeOK /\ FsmTypeOK
=============================================================================
