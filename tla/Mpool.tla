-------------------------------- MODULE Mpool --------------------------------
(***************************************************************************)
(* The buddy memory allocator of eleutheria/buddy/mpool.c.  An address is  *)
(* an offset into the pool.  Every chunk starts with a blknode header; hdr *)
(* gives the header stored at each address, which stays in memory when the *)
(* chunk is merged away.  blktable[i] is the set of chunks on list i (of   *)
(* the available chunks on a list mpool_alloc takes the first: here, any). *)
(*                                                                         *)
(* mpool_alloc and mpool_free are loops over labels (AGAIN, CHUNK_FOUND);  *)
(* pc tells where a call is, and one step is one turn of the loop.         *)
(*                                                                         *)
(* A definition whose name has a suffix (FreeMerge_Once) is a wrong        *)
(* variant of the definition that follows it, which some property refutes. *)
(***************************************************************************)
EXTENDS Integers, FiniteSets

CONSTANTS
    maxlogsize, minlogsize,
    HdrSize,        \* sizeof(blknode_t)
    Size,           \* Size[l] is 1 << l
    Requests,       \* the sizes callers ask for
    MaxSplits       \* bound: the splits counted by nsplits

ASSUME MpoolAssumption ==
    /\ maxlogsize \in Nat /\ minlogsize \in Nat /\ minlogsize <= maxlogsize
    /\ HdrSize \in Nat \ {0}
    /\ Size \in [0..maxlogsize -> Nat \ {0}]
    /\ Size[0] = 1
    /\ \A l \in 1..maxlogsize : Size[l] = 2 * Size[l - 1]
    /\ Size[minlogsize] > HdrSize
    /\ Requests \subseteq Nat
    /\ MaxSplits \in Nat

VARIABLES
    hdr, blktable, nsplits, nmerges,
    pc,         \* "idle", "alloc" (at AGAIN) or "free" (at CHUNK_FOUND)
    node,       \* pavailnode or pnode of the call in progress
    size,       \* the size mpool_alloc looks for
    held        \* what the caller has: chunk -> the size it asked for, or 0

mpool == <<hdr, blktable, nsplits, nmerges, pc, node, size, held>>

Addr == 0..(Size[maxlogsize] - 1)
Logs == minlogsize..maxlogsize
nblocks == maxlogsize - minlogsize + 1
Header == [avail : BOOLEAN, right : BOOLEAN, parent : BOOLEAN, logsize : Logs]

Chunks == UNION {blktable[i] : i \in 0..(nblocks - 1)}
Avail == {a \in Chunks : hdr[a].avail}

MpoolTypeOK ==
    /\ hdr \in [Addr -> Header]
    /\ blktable \in [0..(nblocks - 1) -> SUBSET Addr]
    /\ nsplits \in Nat /\ nmerges \in Nat
    /\ pc \in {"idle", "alloc", "free"}
    /\ node \in Addr
    /\ size \in Nat
    /\ held \in [Addr -> Nat]

\* mpool_init: one available block of length 2^maxlogsize in blktable[0].
MpoolInit ==
    /\ hdr = [a \in Addr |-> [avail |-> TRUE, right |-> FALSE, parent |-> TRUE, logsize |-> maxlogsize]]
    /\ blktable = [i \in 0..(nblocks - 1) |-> IF i = 0 THEN {0} ELSE {}]
    /\ nsplits = 0 /\ nmerges = 0
    /\ pc = "idle" /\ node = 0 /\ size = 0
    /\ held = [a \in Addr |-> 0]

-----------------------------------------------------------------------------
(* Block lists *)

LIST_REMOVE(bt, a) == [i \in DOMAIN bt |-> bt[i] \ {a}]
LIST_INSERT_HEAD(bt, l, a) == [bt EXCEPT ![maxlogsize - l] = @ \cup {a}]

MPOOL_GET_LEFT_BUDDY_OF(a) == a - Size[hdr[a].logsize]
MPOOL_GET_RIGHT_BUDDY_OF(a) == a + Size[hdr[a].logsize]

-----------------------------------------------------------------------------
(* mpool_alloc *)

\* List i has an available chunk that is large enough.
Suitable(i, s) == \E a \in blktable[i] : hdr[a].avail /\ Size[hdr[a].logsize] >= s

\* The search visits all lists and keeps the last suitable one; if there is
\* none the call returns NULL and changes nothing.
AllocSearch ==
    /\ pc = "idle" /\ nsplits + maxlogsize <= MaxSplits
    /\ \E blksize \in Requests, i \in 0..(nblocks - 1) :
         /\ size' = blksize + HdrSize
         /\ Suitable(i, size')
         /\ \A j \in (i + 1)..(nblocks - 1) : ~Suitable(j, size')
         /\ \E a \in blktable[i] : hdr[a].avail /\ node' = a
    /\ pc' = "alloc"
    /\ UNCHANGED <<hdr, blktable, nsplits, nmerges, held>>

NoSplit_IgnoreMin(l) ==
    \/ size = Size[l]
    \/ size > Size[l - 1]
NoSplit_AtHalf(l) == size >= Size[l - 1] \/ minlogsize > l - 1
NoSplit(l) ==
    \/ size = Size[l]
    \/ size > Size[l - 1]
    \/ minlogsize > l - 1

\* The chunk is right: mark it used and return it.
AllocDone ==
    /\ pc = "alloc" /\ NoSplit(hdr[node].logsize)
    /\ hdr' = [hdr EXCEPT ![node].avail = FALSE]
    /\ held' = [held EXCEPT ![node] = size]
    /\ pc' = "idle"
    /\ UNCHANGED <<blktable, nsplits, nmerges, node, size>>

\* The headers of the two halves.  The left half remembers on which side its
\* parent was, the right half what its parent remembered.
LeftHalf(h) == [h EXCEPT !.logsize = @ - 1, !.parent = h.right, !.right = FALSE]
RightHalf_ForgetsParent(h) ==
    [avail |-> TRUE, right |-> TRUE, parent |-> FALSE, logsize |-> h.logsize - 1]
RightHalf(h) ==
    [avail |-> TRUE, right |-> TRUE, parent |-> h.parent, logsize |-> h.logsize - 1]

AllocSplit ==
    /\ pc = "alloc" /\ ~NoSplit(hdr[node].logsize)
    /\ LET h == hdr[node]
           l == h.logsize - 1
           new == node + Size[l]
       IN  /\ hdr' = [hdr EXCEPT ![node] = LeftHalf(h), ![new] = RightHalf(h)]
           /\ blktable' = LIST_INSERT_HEAD(LIST_INSERT_HEAD(LIST_REMOVE(blktable, node), l, node), l, new)
    /\ nsplits' = nsplits + 1
    /\ UNCHANGED <<nmerges, pc, node, size, held>>

-----------------------------------------------------------------------------
(* mpool_free *)

\* The caller gives back a chunk it holds.
FreeCall ==
    /\ pc = "idle"
    /\ \E a \in Addr :
         /\ held[a] # 0
         /\ node' = a
         /\ held' = [held EXCEPT ![a] = 0]
    /\ pc' = "free"
    /\ UNCHANGED <<hdr, blktable, nsplits, nmerges, size>>

Buddy == IF hdr[node].right THEN MPOOL_GET_LEFT_BUDDY_OF(node)
                            ELSE MPOOL_GET_RIGHT_BUDDY_OF(node)

\* The buddy is inside the pool, has the same size and is not in use.
CanMerge_AnySize == Buddy \in Addr /\ hdr[Buddy].avail
CanMerge ==
    /\ Buddy \in Addr
    /\ hdr[Buddy].logsize = hdr[node].logsize
    /\ hdr[Buddy].avail

FreeDone_NoReturn ==
    /\ pc = "free"
    /\ hdr[node].logsize = maxlogsize \/ ~CanMerge
    /\ hdr' = [hdr EXCEPT ![node].avail = TRUE]
    /\ UNCHANGED <<blktable, nsplits, nmerges, pc, node, size, held>>

\* A chunk that cannot be merged is marked available.  One whose buddy lies
\* outside the pool is left as it is.
FreeDone ==
    /\ pc = "free"
    /\ hdr[node].logsize = maxlogsize \/ ~CanMerge
    /\ hdr' = IF hdr[node].logsize = maxlogsize \/ Buddy \in Addr
                THEN [hdr EXCEPT ![node].avail = TRUE] ELSE hdr
    /\ pc' = "idle"
    /\ UNCHANGED <<blktable, nsplits, nmerges, node, size, held>>

\* The header of the merged chunk: l and r were its halves.
Merged(l, r) ==
    [avail |-> TRUE, right |-> l.parent, parent |-> r.parent, logsize |-> l.logsize + 1]

FreeMerge_Once ==
    LET left == IF hdr[node].right THEN Buddy ELSE node
        right == IF hdr[node].right THEN node ELSE Buddy
        m == Merged(hdr[left], hdr[right])
    IN  /\ pc = "free" /\ hdr[node].logsize # maxlogsize /\ CanMerge
        /\ hdr' = [hdr EXCEPT ![left] = m]
        /\ blktable' = LIST_INSERT_HEAD(LIST_REMOVE(LIST_REMOVE(blktable, node), Buddy), m.logsize, left)
        /\ node' = left
        /\ nmerges' = nmerges + 1
        /\ pc' = "idle"
        /\ UNCHANGED <<nsplits, size, held>>

\* Coalesce.  Two chunks that both claim to be right halves are taken off
\* their lists and the call returns.
FreeMerge ==
    LET left == IF hdr[node].right THEN Buddy ELSE node
        right == IF hdr[node].right THEN node ELSE Buddy
        m == Merged(hdr[left], hdr[right])
        removed == LIST_REMOVE(LIST_REMOVE(blktable, node), Buddy)
    IN  /\ pc = "free" /\ hdr[node].logsize # maxlogsize /\ CanMerge
        /\ nmerges' = nmerges + 1
        /\ IF hdr[node].right /\ hdr[Buddy].right
             THEN blktable' = removed /\ pc' = "idle" /\ UNCHANGED <<hdr, node>>
             ELSE /\ hdr' = [hdr EXCEPT ![left] = m]
                  /\ blktable' = LIST_INSERT_HEAD(removed, m.logsize, left)
                  /\ node' = left
                  /\ UNCHANGED pc
        /\ UNCHANGED <<nsplits, size, held>>

-----------------------------------------------------------------------------

MpoolNext == AllocSearch \/ AllocDone \/ AllocSplit \/ FreeCall \/ FreeDone \/ FreeMerge

\* The steps of a call after its first.
InCall == AllocDone \/ AllocSplit \/ FreeDone \/ FreeMerge

-----------------------------------------------------------------------------
(* Properties *)

\* The bytes of the chunk at a.
Bytes(a) == a..(a + Size[hdr[a].logsize] - 1)

\* Splitting and merging by address arithmetic never makes two chunks that
\* share a byte, never one that reaches beyond the pool, and no byte of the
\* pool is lost: no two callers are given the same memory (mpool_alloc,
\* mpool_free).  nsplits and nmerges account for the chunks (MPOOL_STATS).
Tiled ==
    /\ \A a \in Chunks :
         /\ a + Size[hdr[a].logsize] <= Size[maxlogsize]
         /\ \A b \in Chunks : a < b => a + Size[hdr[a].logsize] <= b
    /\ \A x \in Addr : \E a \in Chunks : x \in Bytes(a)
    /\ Cardinality(Chunks) = nsplits - nmerges + 1

\* The left/right flag that mpool_free trusts to find the buddy tells the
\* truth about the chunk's address, after any sequence of splits and merges,
\* and whenever mpool_free reads the header of the buddy there is a chunk with
\* a valid header at that address, not a stale header or a caller's data.
FlagsTrue ==
    /\ \A a \in Chunks : hdr[a].logsize < maxlogsize =>
         (hdr[a].right <=> (a \div Size[hdr[a].logsize]) % 2 = 1)
    /\ pc = "free" /\ hdr[node].logsize # maxlogsize => Buddy \in Chunks

\* Between calls no two available buddies are left unmerged, so a request
\* that would fit into the merged block never fails (mpool_free's loop), and
\* when everything has been given back the pool is one block again.
Coalesced ==
    pc = "idle" =>
        /\ \A a, b \in Avail : hdr[a].logsize = hdr[b].logsize /\ b = a + Size[hdr[a].logsize]
                                 => hdr[a].right
        /\ (\A a \in Addr : held[a] = 0) => Chunks = {0} /\ hdr[0].logsize = maxlogsize

\* Between calls the used chunks are the ones the caller holds, and each is
\* large enough for the request and its header, and not twice as large as it
\* need be ("the smallest possible value of j").
HeldFits ==
    pc = "idle" =>
        /\ Chunks \ Avail = {a \in Addr : held[a] # 0}
        /\ \A a \in Chunks \ Avail :
             /\ held[a] <= Size[hdr[a].logsize]
             /\ hdr[a].logsize = minlogsize \/ held[a] > Size[hdr[a].logsize - 1]

\* Every call returns: the loops through AGAIN and CHUNK_FOUND end.
CallsReturn == pc # "idle" ~> pc = "idle"
=============================================================================
