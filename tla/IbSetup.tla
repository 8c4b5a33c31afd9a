------------------------------- MODULE IbSetup ------------------------------
(***************************************************************************)
(* Setup and teardown of src/src/ib.c, the module for the older Mellanox    *)
(* interface.  Its control is that of ibv.c, call for call, except that     *)
(* Init chooses messages that need no address of a buffer.  Each definition *)
(* stands for the lines of ib.c that the map names.                         *)
(***************************************************************************)
CONSTANT Orders

VARIABLES pc, up, open, chan, held, qp, dest, failed

vars == <<pc, up, open, chan, held, qp, dest, failed>>

V == INSTANCE IbvSetup WITH Stack <- "vapi"

Init == V!Init

SetupFails(p) == V!SetupFails(p)
establish(p) == V!Listen(p) \/ (p = "rcv" /\ V!Accept) \/ (p = "tr" /\ V!Connect)

Create(p) == V!Create(p)
InitIBFails(p) == V!InitIBFails(p)
ExchangeAddress(p) == V!Tell(p) \/ V!ReadPeer(p)
ModifyQP(p) == V!ModifyQP(p)
Sync(p) == V!SyncWrite(p) \/ V!SyncRead(p)

FirstRepeats(p) == V!FirstRepeats(p)
MyMalloc(p) == V!MyMalloc(p)

CleanUp(p) == V!QuitWrite(p) \/ V!QuitRead(p) \/ V!Close(p)

\* Variant of finalizeIB that destroys the completion queues under the queue pair.
finalizeIBQueuesFirst(p) ==
    /\ V!Goto(p, "finalize", "exit")
    /\ held' = [held EXCEPT ![p] = V!Remaining(<<"rcq", "scq", "qp", "smr", "rmr", "pd", "ctx">>, @)]
    /\ qp' = [qp EXCEPT ![p] = "none"]
    /\ UNCHANGED <<up, open, chan, dest, failed>>

finalizeIB(p) == V!finalizeIB(p)

Step(p) ==
    \/ SetupFails(p) \/ establish(p)
    \/ Create(p) \/ InitIBFails(p) \/ ExchangeAddress(p) \/ ModifyQP(p)
    \/ Sync(p) \/ FirstRepeats(p) \/ MyMalloc(p)
    \/ CleanUp(p) \/ finalizeIB(p)

Next == \E p \in {"tr", "rcv"} : Step(p)

Spec == Init /\ [][Next]_vars /\ \A p \in {"tr", "rcv"} : WF_vars(Step(p))
=============================================================================
