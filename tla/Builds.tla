------------------------------- MODULE Builds -------------------------------
(***************************************************************************)
(* The driver is linked with one protocol module at a time, and a behaviour *)
(* belongs to one such build: the one-sided modules, MPI and TCGMSG, the    *)
(* all-to-all program, GM, PVM, the address list of ARMCI ("heap"), the     *)
(* memory copy ("copy"), or the test pattern that all of them share         *)
(* ("pattern").  At this commit setup.py builds three programs: TCP, MPI    *)
(* and the all-to-all one; the other modules are under the driver they      *)
(* were written for.  Components that have a variable of the same name and  *)
(* meaning share it here; what a build does not have stays at 0.            *)
(***************************************************************************)
EXTENDS Integers, Sequences

CONSTANTS
    Orders,                \* whether Init runs after tr was set or before, see Gm and Pvm
    Requests,              \* Requests[build]: pairs <<size in bytes, nrepeat>>
    Pattern,               \* last octets of the sizes of the one-sided modules
    MaxCalls, MaxRuns,     \* bounds on the measurements
    Ranks,                 \* ranks of the all-to-all program
    Repeats,               \* values of nrepeat for MPI
    Addr, MaxAllocs,       \* see ArmciHeap
    Addresses, CopySizes,  \* see MemCopy
    Sizes, Arrivals        \* see BufferData

ASSUME BoundsAssumption ==
    /\ MaxCalls \in Nat /\ MaxRuns \in Nat /\ MaxAllocs \in Nat
    /\ Ranks \in Nat \ {0, 1} /\ Repeats \subseteq Nat \ {0}
    /\ \A b \in {"mailbox", "atoa", "gm", "pvm"} : Requests[b] \subseteq Nat \X Nat
    /\ Addresses \subseteq Int /\ CopySizes \subseteq Nat
    /\ Sizes \subseteq Nat \ {0} /\ DOMAIN Arrivals = Sizes

VARIABLES
    built,
    pc, left, arg, k, req, calls, runs, lib, mail, n,     \* of several builds
    flag, slot, offset, last, net, got, taken,
    eager, back, nrepeat, recvPosted, epoch, flying, buf, done,
    ops,
    lrpt, sends, given, events, need, live,
    tasks, othertid,
    made, list, owner, failed,
    width, at, off, copied,
    i, lfsr_data, r_buff, s_buff, came, bad

mailboxOnly == <<flag, slot, offset, last, net, got, taken>>
mpiOnly == <<eager, back, nrepeat, recvPosted, epoch, flying, buf, done>>
atoaOnly == <<ops>>
gmOnly == <<lrpt, sends, given, events, need, live>>
pvmOnly == <<tasks, othertid>>
heapOnly == <<made, list, owner, failed>>
copyOnly == <<width, at, off, copied>>
patternOnly == <<i, lfsr_data, r_buff, s_buff, came, bad>>
vars == <<built, pc, left, arg, k, req, calls, runs, lib, mail, n,
          mailboxOnly, mpiOnly, atoaOnly, gmOnly, pvmOnly,
          heapOnly, copyOnly, patternOnly>>

MB == INSTANCE Mailbox WITH Libraries <- {"shmem", "armci", "lapi"}, Requests <- Requests["mailbox"]
MP == INSTANCE Mpi WITH N <- 2, AsyncReceive <- TRUE
AT == INSTANCE Atoa WITH N <- Ranks, Requests <- Requests["atoa"]
GM == INSTANCE Gm WITH Requests <- Requests["gm"]
PV == INSTANCE Pvm WITH Others <- {}, Requests <- Requests["pvm"]
AH == INSTANCE ArmciHeap
MC == INSTANCE MemCopy WITH Sizes <- CopySizes
BD == INSTANCE BufferData WITH Polls <- FALSE

NoMailbox == flag = 0 /\ slot = 0 /\ offset = 0 /\ last = 0 /\ net = 0 /\ got = 0 /\ taken = 0
NoMpi == eager = 0 /\ back = 0 /\ nrepeat = 0 /\ recvPosted = 0 /\ epoch = 0 /\ flying = 0 /\ buf = 0 /\ done = 0
NoAtoa == ops = 0
NoGm == lrpt = 0 /\ sends = 0 /\ given = 0 /\ events = 0 /\ need = 0 /\ live = 0
NoPvm == tasks = 0 /\ othertid = 0
NoHeap == made = 0 /\ list = 0 /\ owner = 0 /\ failed = 0
NoCopy == width = 0 /\ at = 0 /\ off = 0 /\ copied = 0
NoPattern == i = 0 /\ lfsr_data = 0 /\ r_buff = 0 /\ s_buff = 0 /\ came = 0 /\ bad = 0

-----------------------------------------------------------------------------

Init ==
    \/ /\ built = "mailbox" /\ MB!Init
       /\ NoMpi /\ NoAtoa /\ NoGm /\ NoPvm /\ NoHeap /\ NoCopy /\ NoPattern
       /\ runs = 0 /\ mail = 0 /\ n = 0
    \/ /\ built = "mpi" /\ MP!Init
       /\ NoMailbox /\ NoAtoa /\ NoGm /\ NoPvm /\ NoHeap /\ NoCopy /\ NoPattern
       /\ req = 0 /\ arg = 0 /\ k = 0 /\ calls = 0 /\ n = 0
    \/ /\ built = "atoa" /\ AT!Init
       /\ NoMailbox /\ NoMpi /\ NoGm /\ NoPvm /\ NoHeap /\ NoCopy /\ NoPattern
       /\ req = 0 /\ calls = 0 /\ lib = 0 /\ mail = 0 /\ n = 0
    \/ /\ built = "gm" /\ GM!Init
       /\ NoMailbox /\ NoMpi /\ NoAtoa /\ NoPvm /\ NoHeap /\ NoCopy /\ NoPattern
       /\ lib = 0 /\ runs = 0 /\ mail = 0 /\ n = 0
    \/ /\ built = "pvm" /\ PV!Init
       /\ NoMailbox /\ NoMpi /\ NoAtoa /\ NoGm /\ NoHeap /\ NoCopy /\ NoPattern
       /\ req = 0 /\ lib = 0 /\ runs = 0 /\ n = 0
    \/ /\ built = "heap" /\ AH!Init
       /\ NoMailbox /\ NoMpi /\ NoAtoa /\ NoGm /\ NoPvm /\ NoCopy /\ NoPattern
       /\ pc = 0 /\ req = 0 /\ arg = 0 /\ k = 0 /\ left = 0 /\ calls = 0 /\ lib = 0 /\ runs = 0 /\ mail = 0 /\ n = 0
    \/ /\ built = "copy" /\ MC!Init
       /\ NoMailbox /\ NoMpi /\ NoAtoa /\ NoGm /\ NoPvm /\ NoHeap /\ NoPattern
       /\ req = 0 /\ arg = 0 /\ k = 0 /\ calls = 0 /\ lib = 0 /\ runs = 0 /\ mail = 0
    \/ /\ built = "pattern" /\ BD!Init
       /\ NoMailbox /\ NoMpi /\ NoAtoa /\ NoGm /\ NoPvm /\ NoHeap /\ NoCopy
       /\ req = 0 /\ arg = 0 /\ k = 0 /\ left = 0 /\ calls = 0 /\ lib = 0 /\ runs = 0 /\ mail = 0

MailboxStep ==
    /\ built = "mailbox" /\ MB!Next
    /\ UNCHANGED <<built, mpiOnly, atoaOnly, gmOnly, pvmOnly, heapOnly, copyOnly,
                   patternOnly, runs, mail, n>>

MpiStep ==
    /\ built = "mpi" /\ MP!Next
    /\ UNCHANGED <<built, mailboxOnly, atoaOnly, gmOnly, pvmOnly, heapOnly, copyOnly,
                   patternOnly, req, arg, k, calls, n>>

AtoaStep ==
    /\ built = "atoa" /\ AT!Next
    /\ UNCHANGED <<built, mailboxOnly, mpiOnly, gmOnly, pvmOnly, heapOnly, copyOnly,
                   patternOnly, req, calls, lib, mail, n>>

GmStep ==
    /\ built = "gm" /\ GM!Next
    /\ UNCHANGED <<built, mailboxOnly, mpiOnly, atoaOnly, pvmOnly, heapOnly, copyOnly,
                   patternOnly, lib, runs, mail, n>>

PvmStep ==
    /\ built = "pvm" /\ PV!Next
    /\ UNCHANGED <<built, mailboxOnly, mpiOnly, atoaOnly, gmOnly, heapOnly, copyOnly,
                   patternOnly, req, lib, runs, n>>

HeapStep ==
    /\ built = "heap" /\ AH!Next
    /\ UNCHANGED <<built, mailboxOnly, mpiOnly, atoaOnly, gmOnly, pvmOnly, copyOnly,
                   patternOnly, pc, req, arg, k, left, calls, lib, runs, mail, n>>

CopyStep ==
    /\ built = "copy" /\ MC!Next
    /\ UNCHANGED <<built, mailboxOnly, mpiOnly, atoaOnly, gmOnly, pvmOnly, heapOnly,
                   patternOnly, req, arg, k, calls, lib, runs, mail>>

PatternStep ==
    /\ built = "pattern" /\ BD!Next
    /\ UNCHANGED <<built, mailboxOnly, mpiOnly, atoaOnly, gmOnly, pvmOnly, heapOnly,
                   copyOnly, req, arg, k, left, calls, lib, runs, mail>>

Next ==
    \/ MailboxStep \/ MpiStep \/ AtoaStep \/ GmStep \/ PvmStep
    \/ HeapStep \/ CopyStep \/ PatternStep

\* As long as anyone can take a step, someone does.  No more is needed: with a
\* bounded number of measurements every process, adapter and network comes to rest.
Spec == Init /\ [][Next]_vars /\ WF_vars(Next)

-----------------------------------------------------------------------------
(* Properties of run_iters over the libraries, put together from those of their *)
(* modules, each of which has its type invariant in one of them.                  *)

\* RecvData returns once for each message that has arrived, whether it watches an
\* octet, a counter or a fence (RecvData).
ReceivedMeansArrived ==
    /\ built = "mailbox" => MB!ReceivedMeansArrived
    /\ built = "mpi" => MP!ReceivedMeansArrived

\* No message is lost before RecvData has returned it: a put is not erased by the
\* InitBufferData of a slower process ("Sync to prevent timing artifacts and race
\* condition"), no message of MPI, MPI-2 or TCGMSG is overwritten by the next one or
\* left over, and "outstanding receive!" is never printed (run_iters, SendData,
\* PrepareToReceive).
NoMessageLost ==
    /\ built = "mailbox" => MB!MessageKept
    /\ built = "mpi" => MP!TypeOK /\ MP!NothingOverwritten /\ MP!NoOutstandingReceive

\* The second RecvRepeat returns nrepeat, although nothing says which of the two
\* values the mailbox slot (SHMEM, ARMCI, LAPI) or the one buffer (GM) holds
\* (SendRepeat, RecvRepeat).
NrepeatIsRight ==
    /\ built = "mailbox" => MB!TypeOK /\ MB!NrepeatIsRight
    /\ built = "gm" => GM!NrepeatIsRight

\* A message lands in the buffer that was meant for it: a put never before MyMalloc or
\* after FreeBuff; over GM, where counts, "Syncme" and small data are of one size
\* class, and over PVM, where tags are not looked at, by the order of the calls alone
\* (SendData, FreeBuff, readFully, RecvRepeat).
LandsInItsBuffer ==
    /\ built = "mailbox" => MB!PutFindsBuffer
    /\ built = "gm" => GM!TypeOK /\ GM!LandsInItsBuffer
    /\ built = "pvm" => PV!TypeOK /\ PV!UnpacksWhatWasPacked

\* The ranks of the all-to-all program are in step: they make the same collective
\* calls in the same order and with the same counts, nobody still allocates while one
\* is in the timed loop, and no two are in the loops of different measurements
\* (run_iters, SendRepeat, RecvRepeat, Sync).
RanksInStep ==
    built = "atoa" =>
        AT!TypeOK /\ AT!CollectivesMatch /\ AT!NobodyStillPrepares /\ AT!SameMeasurement

At(build, p, place) == built = build /\ pc[p] = place

\* A measurement comes to its end: RecvData of LAPI, which counts, comes back at any
\* size (that of SHMEM and ARMCI does not, see RecvDataReturns of Mailbox); two
\* processes of MPI finish whether or not MPI_Send waits, GM's when both sides agree
\* on the size, PVM's without any synchronization (run_iters).
RunEnds ==
    /\ \A p \in {"tr", "rcv"} :
           (At("mailbox", p, "recv") /\ lib = "lapi") ~> ~At("mailbox", p, "recv")
    /\ At("mpi", 0, "size") ~> At("mpi", 0, "idle")
    /\ At("atoa", 0, "bcast") ~> At("atoa", 0, "script")
    /\ (At("gm", "tr", "sync") /\ At("gm", "rcv", "sync") /\ arg["tr"] = arg["rcv"])
           ~> At("gm", "tr", "idle")
    /\ (At("pvm", "tr", "repeat") /\ othertid["tr"] = "rcv") ~> At("pvm", "tr", "idle")

-----------------------------------------------------------------------------
(* Properties of the memory they work on. *)

\* A put goes into the peer's part of the same allocation, whatever addresses were
\* handed out before: the list holds exactly what is allocated and not freed, and
\* ARMCI_Error("Cannot find pointer in linked list") is never called (mlink_front,
\* munlink, mfind, remote_ptr).
RemoteIsPartner ==
    built = "heap" => AH!TypeOK /\ AH!ListIsLive /\ AH!PointerIsFound /\ AH!RemoteIsPartner

\* The three pieces of a copy write every octet exactly once and none after the end,
\* and the main one starts on a boundary unless the first would not have fitted, also
\* when the address is negative as an int (memcpy_8, memcpy_16).
EachOctetOnce == built = "copy" => MC!EachOctetOnce /\ MC!MainOnBoundary

\* The test pattern tells buffers apart: its register never runs empty and keeps to
\* 23 bits, the patterns of 'a' and 'b' differ in every whole word ("the send buffer
\* starts out containing different values from the receive buffer"), and the last
\* octets, on which polling depends, are those of the values of Pattern (lfsr23,
\* InitBufferData).
PatternsDiffer ==
    built = "pattern" => BD!TypeOK /\ BD!RegisterAlive /\ BD!WordsDiffer /\ BD!LastOctets

\* CheckBufferData reports exactly the octets that are not what the peer sent, those
\* after the last whole word included, and never takes a message that lacks a word
\* for a complete one (lfsrcheck).
ReportsExactly == built = "pattern" => BD!ReportsExactly /\ BD!MissingWordReported
=============================================================================
