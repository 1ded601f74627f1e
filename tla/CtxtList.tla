------------------------------ MODULE CtxtList ------------------------------
(***************************************************************************)
(* The global list of PER_SOCKET_CONTEXT structures of the I/O completion  *)
(* port servers (iocp1/server/IocpServer.Cpp): the pointer g_pCtxtList,    *)
(* the links pCtxtBack and pCtxtForward of every context, and which        *)
(* contexts are allocated on the heap.  The routines run under             *)
(* g_CriticalSection, so each is a function from list to list.             *)
(*                                                                         *)
(* A context is named by the connection it serves; a freed context is not  *)
(* handed out again.  Following a pointer to a context that is not         *)
(* allocated is undefined behaviour: it sets the field "uaf", after which  *)
(* nothing more is said about the program.                                 *)
(***************************************************************************)
CONSTANTS
    Ctxts,      \* the contexts that may be allocated
    NULL        \* the null pointer

ASSUME NullAssumption == NULL \notin Ctxts

Pointer == Ctxts \cup {NULL}

List == [ g_pCtxtList  : Pointer,
          pCtxtBack    : [Ctxts -> Pointer],
          pCtxtForward : [Ctxts -> Pointer],
          live         : SUBSET Ctxts,
          uaf          : BOOLEAN ]

EmptyList == [ g_pCtxtList  |-> NULL,
               pCtxtBack    |-> [c \in Ctxts |-> NULL],
               pCtxtForward |-> [c \in Ctxts |-> NULL],
               live         |-> {},
               uaf          |-> FALSE ]

UseAfterFree(l) == [l EXCEPT !.uaf = TRUE]

-----------------------------------------------------------------------------

\* Both structures were allocated: the links start out as NULL.
CtxtAllocate(l, c) ==
    [l EXCEPT !.live = @ \cup {c},
              !.pCtxtBack[c] = NULL,
              !.pCtxtForward[c] = NULL]

\* The new node becomes the head; its pCtxtBack is the old head.
CtxtListAddTo(l, c) ==
    LET pTemp == l.g_pCtxtList
        linked == [l EXCEPT !.g_pCtxtList = c,
                            !.pCtxtBack[c] = pTemp,
                            !.pCtxtForward[c] = NULL]
    IN  IF c \notin l.live THEN UseAfterFree(l)
        ELSE IF pTemp = NULL THEN linked
        ELSE IF pTemp \notin l.live THEN UseAfterFree(l)
        ELSE [linked EXCEPT !.pCtxtForward[pTemp] = c]

\* A wrong variant: the head survives the deletion of the only node.
Unlink_KeepsHead(l, c) == l

\* Unlinking as the four branches of the code do it: the node without a
\* pCtxtBack is taken for the start of the list, the node without a
\* pCtxtForward for its end.
Unlink(l, c) ==
    LET pBack == l.pCtxtBack[c]
        pForward == l.pCtxtForward[c]
    IN  IF (pBack # NULL /\ pBack \notin l.live) \/ (pForward # NULL /\ pForward \notin l.live)
          THEN UseAfterFree(l)
        ELSE IF pBack = NULL /\ pForward = NULL
          THEN [l EXCEPT !.g_pCtxtList = NULL]
        ELSE IF pBack = NULL
          THEN [l EXCEPT !.pCtxtBack[pForward] = NULL, !.g_pCtxtList = pForward]
        ELSE IF pForward = NULL
          THEN [l EXCEPT !.pCtxtForward[pBack] = NULL]
        ELSE [l EXCEPT !.pCtxtForward[pBack] = pForward, !.pCtxtBack[pForward] = pBack]

\* ... and then both structures are freed.
CtxtListDeleteFrom(l, c) ==
    IF c \notin l.live THEN UseAfterFree(l)
                       ELSE [Unlink(l, c) EXCEPT !.live = @ \ {c}]

-----------------------------------------------------------------------------

\* The contexts that a walk from g_pCtxtList along pCtxtBack meets before it
\* runs into a freed one: the least set that holds the head and, with an
\* allocated context, the pCtxtBack of it.
Reachable(l) ==
    LET closed(S) == /\ l.g_pCtxtList \in S
                     /\ \A c \in S \cap l.live : l.pCtxtBack[c] \in S
    IN  {c \in Ctxts : \A S \in SUBSET Pointer : closed(S) => c \in S}
=============================================================================
