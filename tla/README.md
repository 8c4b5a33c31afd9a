# NetPIPE 5: a TLA+ verification project

NetPIPE measures a network by bouncing messages of growing size between two
processes. `src/netpipe.c` is a Python extension whose method `run_iters(size,
nrepeat)` runs one measurement; a *protocol module* (`tcp.c`, `mpi.c`, ...)
compiled with it supplies `Setup`, `Sync`, `SendData`, `RecvData`, `SendRepeat`,
`RecvRepeat` and the rest of the interface; a Python script
(`NPtcp-local`) chooses the sizes. This directory models the driver, its protocol
modules and the scripts, checks them with TLC and proves the main results with
TLAPS. Paths below are relative to the repository. `setup.py` builds three
programs: TCP, MPI and MPI all-to-all. `shmem.c`, `armci.c`, `lapi.c`, `mpi2.c`,
`tcgmsg.c`, `gm.c`, `pvm.c`, `ib.c` and `ibv.c` are in the tree but do not compile at this
commit: they still define `Init(ArgStruct *, ...)` and `SendRepeat(ArgStruct *, int)`, where
`netpipe.h:294` and `:312` now declare other types. They are modelled with the calls
that the driver makes and with what their functions do in them, which is what a port of
the nine signatures would run.

## Inventory

| Part | State | Operations | Interaction | Hard |
|---|---|---|---|---|
| Driver, `src/netpipe.c` | `size`, `nrepeat`, `j`, buffers | `run_iters`, `netpipe_object` | called by a script, calls the protocol module; two processes, no framing between them | two loops that must agree without a word; early returns |
| TCP data path, `src/tcp.c` | `commfd`, offsets of the pending read or write | `readFully`, `Sync`, `SendData`, `RecvData`, `SendRepeat`, `RecvRepeat` | one octet stream each way | partial transfers, full buffers, end of file, reset |
| TCP connection, `src/tcp.c` | `servicefd`, `commfd`, `doing_reset` | `Setup`, `establish`, `CleanUp`, `Reset` | connect against listen, accept and close; the interpreter lock | accept queue races, blocking with a lock held |
| Size sweep, `NPtcp-local` | `n`, `inc`, `permSize`, `pert`, `count`, `iterationTime` | the loop, `incFunc`, `pertFunc`, `iterFunc` | calls `run_iters`; times measured feed back | state carried across blocks, division by a measured time, int width |
| Data pattern, `src/netpipe.c` | `lfsr_data` | `lfsrset`, `lfsrcheck`, `lfsr23`, `InitBufferData`, `CheckBufferData` | fills and checks the buffers | register width, tail octets, octets that modules use as flags |
| InfiniBand connection, `ibv.c` `ib.c` | verbs objects, queue pair state, the peer's address | `Setup`, `initIB`, `CleanUp`, `finalizeIB` | an unframed TCP connection beside the adapter | failure on one side only, order across processes |
| InfiniBand data path, `ibv.c` `ib.c` | send queue, keys, the last octet of a buffer | the module interface by work requests | main thread and adapter | stale keys, a queue that is never emptied, freed buffers, an octet that is there by chance |
| Mailboxes, `shmem.c` `armci.c` `lapi.c` | a flag or a counter, one slot, the last octet of a buffer | the module interface by remote puts | the peer writes into one's memory | overwriting an unread slot, a flag value that is there by chance |
| ARMCI address list, `armci.c` | a linked list of address pairs | `armci_malloc`, `armci_free`, `remote_ptr` | both processes allocate together and free alone | addresses that are used again |
| MPI and TCGMSG, `mpi.c` `mpi2.c` `tcgmsg.c` | a posted request, a window | the module interface by messages or puts and fences | n ranks | ranks that take no part, pairing of fences |
| All-to-all, `mpi_atoa.c`, `NPmpi_atoa` | buffers | the module interface by collectives; the script's loops | n ranks | matching collectives, end of the receivers' loop |
| GM, `gm.c` | tokens, provided buffers, `lrpt` | the module interface by sends with callbacks | adapter reads buffers later | buffers reused or freed before they are sent |
| PVM, `pvm.c` | `othertid` | the module interface by untagged messages | tasks of the virtual machine | no `Sync`, choice of the partner |
| Memory copies, `MP_memcpy.c` `memcpy.c` | none | `memcpy_8`, `memcpy_16` | | alignment of signed addresses, short sizes |
| Shell and plot scripts, `bin/` | none | | | |

What makes the parts correct: the two `run_iters` agree on the arguments and
stay in step; no octet is read for what it is not; every call comes back and
nobody is left waiting; a result stands for messages that really came back;
both sides talk on the same connection; the sweep tries growing sizes and ends;
a receive returns once for each message that arrived; nothing is sent from or
written to memory that has been given back; a failed set-up leaves nothing behind.
`PROJECT.json` lists under `hazards` the places where this could go wrong, and
which property watches each.

## Modules

| Module | Models | State and actions |
|---|---|---|
| `PingPong` | `run_iters` on both sides at the level of messages: what the driver promises | `pc`, `size`, `nrepeat`, `j`, `chan` (messages on their way), `ret` (results). One action per library call of `run_iters`: `Call`, `SendRepeat`, `RecvSize`, `RecvNrepeat`, `SyncWrite`, `SyncRead`, `SendData`, `RecvData`, `RecvDataEOF`, `Return`, and `Stop` for a process that ends |
| `TcpRun` | the same over `tcp.c`, octet by octet | adds `off`, `got`, `rbuf` (the receive buffer), `rst`, `code` (exit status). `WriteSome`, `ReadMore`, `ReadDone` transfer any number of octets that fit; `WriteLost`, `WriteFails`, `EndOfFile`, `ReadFails` are the error paths with their exit codes; `Killed`, `AllocFails` end a process |
| `TcpConn` | `netpipe_object`, `Setup`, `establish`, `CleanUp`, `Reset` | `listening`, `backlog`, `commfd` (which connection), `quit`, `doing_reset`, `gil`. One action per socket call that matters to the other side |
| `Schedule` | the loop of `NPtcp-local` | the script's variables. `Block` (up to the for loop), `Run` (one size), `Stop`, and the exceptions `ZeroTime` (the rate is a division by the measured time) and `TooLarge` |
| `IbvSetup` | `Init`, `Setup`, `establish`, `initIB`, first steps of `run_iters`, `CleanUp`, `finalizeIB` of `ibv.c` | `chan` (octets by the kind of message they belong to), `held` (verbs objects), `qp`, `dest`, `failed`. Each library call that can fail has an action `...Fails` or `GiveUp` |
| `IbSetup` | the same of `ib.c` | instantiates `IbvSetup`; its actions are the steps of `ib.c` in its own order |
| `IbvRun` | the data path of `ibv.c` with the options its `Init` sets | `sq`, `unreaped` (slots of the send queue taken up), `err`, `key`, `rkey`, `last` (last octet of the receive buffer); program and adapter (`Transmit`) are separate processes |
| `IbRun` | the data path of `ib.c` with the options its `Init` sets | instantiates `IbvRun`: the same loop with sends, for which no receive is ever posted |
| `Infiniband` | both InfiniBand modules | composes `IbvSetup`, `IbSetup` and `IbvRun`: a behaviour is one of `ibv.c` or `ib.c` (`stack`), in its set-up or in its measurements (`phase`). The measurements of `ib.c` end at their first message and stay in `IbRun` |
| `Mailbox` | `shmem.c`, `armci.c`, `lapi.c` under `run_iters` | `flag`, `slot`, `offset`, `last`, `net` (puts on their way); `Deliver` lets one arrive |
| `ArmciHeap` | the address list of `armci.c` | `made` (allocations so far), `list`, `owner` |
| `BufferData` | `lfsrset`, `lfsrcheck` and the registers | a word is the set of its one bits; one turn of a loop is one step |
| `Mpi` | `mpi.c`, `mpi2.c`, `tcgmsg.c` under `run_iters` | `mail`, `recvPosted`, `epoch` (calls of all ranks), `flying` (puts), `buf` |
| `Atoa` | `mpi_atoa.c` under `NPmpi_atoa` | the collectives each rank has entered |
| `Gm` | `gm.c` under `run_iters` | `sends`, `given`, `events`, `need`, `lrpt`, `live` |
| `Pvm` | `pvm.c` under `run_iters` | `tasks`, `othertid`, `mail` |
| `MemCopy` | `memcpy_8`, `memcpy_16` | a copy in three steps: to the boundary, wide words, the rest |
| `Builds` | the driver linked with one of the libraries | composes the modules from `Mailbox` to `MemCopy`: a behaviour is that of one build (`built`); variables that mean the same in several modules are shared, the others are 0 |
| `PingPongProofs`, `ScheduleProofs`, `TcpRunProofs`, `TcpConnProofs`, `ArmciHeapProofs`, `InfinibandProofs` | theorems about the module of that name | |
| `MessageProofs`, `BuildsProofs` | invariants of the message-passing builds; the other builds and all theorems about `Builds` | |
| `MC*` | values of the constants for TLC | |

`TcpRun` instantiates `PingPong` with a refinement mapping: a message is on its
way from the moment its last octet is written until that octet is read, and the
local step `alloc` counts as the beginning of `Sync`. `PromiseKept` says that
the byte streams implement the message exchange.

Faithfulness. Short reads and writes are every split the socket buffers allow.
A closed or reset socket behaves as Linux does: octets already received can
still be read, the first write to a closed peer is accepted and lost, later ones
fail (Python ignores SIGPIPE), closing with unread octets resets the connection
and may lose the tail of what was written. `malloc`, `Py_BuildValue` and the
kernel are modelled from how the code uses them. Payload octets are numbered
by their place in the buffer, which tells two places apart as the pattern
of `lfsrset` is meant to. Clock readings appear only in `Schedule`, where a
measured time is any member of a set.

The libraries under the other modules are modelled from their use: a put, a
message or a work request takes effect some time after it is issued, requests of
one process in order; a barrier, a fence or a collective waits for those it
synchronizes, and for no more than the module asks; an adapter reads the buffer when it
carries out the request; a queue pair whose request fails breaks the connection. What a
build decides (reading into a string literal, an eager or a waiting `MPI_Send`)
is a choice. `commtype` and `comptype` are what `Init` of `ibv.c` and `ib.c` sets them to (RDMA writes
and sends, both with local polling), and nothing changes them; `cache` and `preburst` are 0. `asyncReceive` is never
set either, so `run_iters` does not call `PrepareToReceive`; for MPI, whose code for it is complete, `Builds` sets it. A failed allocation in
these modules ends the process before the peer has anything in flight and is
left out. Last octets of messages (`Pattern`) are the ones `BufferData` computes, which
`LastOctets` checks.

Who transmits. `netpipe_object` sets `tr` for the process that was given a host (`netpipe.c:166`) and calls `Init`
afterwards (`:189`); `Init` of `ibv.c`, `ib.c`, `gm.c` and `pvm.c` sets `tr = 0` and `rcv = 1`. Under this driver both processes
are then receivers and wait for each other for good. The constant `Orders` of these models holds the orders looked at:
"hostFirst" is the driver's, "initFirst" the one that `pvm.c:29` speaks of. The runs take both; what they show of a
connection, and of a measurement over these libraries, is about "initFirst", since with "hostFirst" none is reached.

Definitions named "Variant of ..." are deliberately wrong forms of the definition
after them. They are not used by any specification; each one is the
mutation that the named property in `PROJECT.json` must catch.

## Runs

| Run | What it shows | States |
|---|---|---|
| `pingpong` | alignment, lockstep, clean timing and agreeing results of the message exchange, and that the inductive invariant `InStep` holds | 3172 |
| `tcp` | alignment of octets, intact buffers, `Sync` fails only alone, every call returns, nobody is left behind, `PromiseKept`; with `nrepeat` 0 and a message larger than the socket buffers | 42005 |
| `conn` | resets keep both sides on one connection; QUIT does not deadlock | 192 |
| `sweep` | growing sizes near the right values, end of the sweep | 477 |
| `infiniband` | set-up of `ibv.c` and `ib.c`, measurements of `ibv.c`, with room in the send queue and without | 33724 |
| `builds` | the other libraries under `run_iters`, the address list, the copies and the test pattern | 55052 |

The properties of the last two put together those of the component modules, so
that one name stands for one promise in whatever code has to keep it:

| Property | What it contains |
|---|---|
| `Infiniband!PairedWithPeer` | `PairedWithPeer`, `SendsToReadyPeer`: a queue pair is brought up towards the peer's address, and sends only to a peer that can receive |
| `Infiniband!NothingLeaked` | after `CleanUp` no verbs object is left, wherever `initIB` gave up |
| `Infiniband!FailureEnds` | a failed `initIB` leaves nobody waiting, except in the case listed below under `FailureCleansUp` |
| `Infiniband!ReceivedMeansArrived` | one return of `RecvData` for each message that arrived, also when `SendData` drops some |
| `Infiniband!AimsAtLiveBuffer` | a write under way aims at the buffer that its peer has registered now, although no completion is waited for |
| `Builds!ReceivedMeansArrived` | the same of `Mailbox` and `Mpi` |
| `Builds!NoMessageLost` | `MessageKept` of `Mailbox`; `NothingOverwritten`, `NoOutstandingReceive` of `Mpi` |
| `Builds!NrepeatIsRight` | the same of `Mailbox` and `Gm` |
| `Builds!LandsInItsBuffer` | `PutFindsBuffer` of `Mailbox`, `LandsInItsBuffer` of `Gm`, `UnpacksWhatWasPacked` of `Pvm` |
| `Builds!RanksInStep` | `CollectivesMatch`, `NobodyStillPrepares`, `SameMeasurement` of `Atoa` |
| `Builds!RunEnds` | `RecvData` of LAPI comes back at every size; `RunEnds` of `Mpi` (two ranks), `Atoa`, `Gm`, `Pvm` |
| `Builds!RemoteIsPartner` | `ListIsLive`, `PointerIsFound`, `RemoteIsPartner` of `ArmciHeap` |
| `Builds!EachOctetOnce` | `EachOctetOnce`, `MainOnBoundary` of `MemCopy` |
| `Builds!PatternsDiffer` | `RegisterAlive`, `WordsDiffer`, `LastOctets` of `BufferData` |
| `Builds!ReportsExactly` | `ReportsExactly`, `MissingWordReported` of `BufferData` |

Six more runs exhibit a disagreement between what the repository says and what
the code does; each has an entry under `findings`:

* `tcp_test_args`: the receiver of `tests/test-r.py` passes arguments; `run_iters`
  then leaves the transmitter's arguments in the stream and `Sync` exits.
* `tcp_eof`: after an end of file `RecvData` returns as if the message had come
  back, and `run_iters` may report a time.
* `tcp_signal`: a size of 0 should let the receiver's script see `None` and end with status 0;
  `Py_BuildValue("None")` is no `None`, and the script gets an exception or the process dies.
* `conn_reset`: in a reset the transmitter can be queued on the listening socket
  that the receiver is about to close. No caller of `Reset` exists at this
  commit; the race is in the module's exported operation.
* `conn_threads`: `tests/test-threaded.py` creates both objects in one
  interpreter; the constructor blocks with the lock held, or exits.
* `atoa_end`: the sweep of `NPmpi_atoa` ends and the receivers stay in `MPI_Bcast`.

### Properties that do not hold

The modules for the libraries that `setup.py` does not build (and `Mpi` with a third rank) also state what
the code or a comment suggests and TLC refutes. They are checked on the module
by itself and belong to no run; where there is a `.cfg` for it, the table names it, and
the entries under `hazards` name the places.

| Property | Refuted with | Why |
|---|---|---|
| `Infiniband!TransmitterConnects` | `MCIbRoles.cfg` | "Specify the name of the receiver host to connect to (TCP, PVM, IB, GM)" (`dox/netpipe.1:317`): `Init` makes a receiver of the process with a host (`ibv.c:72`, `ib.c:79`, `gm.c:9`) |
| `Pvm!ReceiverIsTold` | `MCPvmRoles.cfg` | "The transmitter will be set using the -h host flag" (`pvm.c:29`): it was set before, and `Init` undoes it |
| `Infiniband!QueueHasRoom` | `MCIbvQueue.cfg` | "`Reset` is used after a trial to empty the work request queues" (`ibv.c:826`): nothing calls `Reset` or polls for a send, so the queue fills up |
| `IbRun!SendFindsReceive` | `MCIbRun.cfg` | "Infiniband requires use of asynchronous communications" (`netpipe.c:75`): nothing sets `asyncReceive`, and the first send finds no receive posted |
| `Mailbox!RecvDataReturns` | `MCMailboxHang.cfg` | the buffers hold the pattern of `lfsrset` now, and its last octet is not the 'b' that `RecvData` polls for, at 4 octets and nearly every other size (`shmem.c:66`, `armci.c:277`; `ibv.c:766` and `ib.c:680` likewise) |
| `Mailbox!ReceivedMeansArrived` | `MCMailboxEarly.cfg` | at 599 octets, the octet that is polled for is in the buffer before the message |
| `Mailbox!SizeIsRight` | `MCMailboxSize.cfg`; also LAPI; `Gm!SizeIsRight` | `run_iters` calls `SendRepeat` twice in a row, and these modules keep one value; with SHMEM the second `RecvRepeat` may then wait for ever (`RecvRepeatReturns`) |
| `Mpi!RunEnds` | `MCMpiThree.cfg` | `Sync` is a barrier of all ranks, and the middle one, which `Setup` accepts, has left `run_iters` (`mpi.c:51`, `netpipe.c:38`) |
| `IbvSetup!FailureCleansUp` | "initFirst" | a transmitter that fails after the last `Sync` of `initIB` waits in `CleanUp` for a QUIT that the receiver never sends |
| `IbvRun!BouncedIsDelivered`, `Gm!SentFromLiveBuffer` | any | `FreeBuff` takes the buffer of the last bounced message away while the adapter may still have to read it (`netpipe.c:103`) |
| `BufferData!NoZeroOctet` | sizes from 4 | "lfsr will never produce 0" is true of the register, not of its octets (`netpipe.c:568`) |
| `BufferData!IntactIsSilent` | `Polls` TRUE | a polling `RecvData` resets the last octet, and the check reports it (`netpipe.c:371-374`) |
| `Pvm!TimingIsClean` | any | `Sync` is empty |
| `Pvm!FindsReceiver` | a task left in `Others` | any second task is taken for the receiver (`pvm.c:82`) |

Bounds. Three calls (`MaxCalls`) suffice for a call that follows and one that
precedes another on both sides, so that messages of two calls can be in flight
together; requests of 0, 1 and 2 repetitions cover an empty loop, a first turn that is also the last, and
a later turn; messages of 2 and 7 octets can be split in every way, and the last is larger than
`Cap` = 6, the smallest buffer in which both may write the
synchronization string first. Both processes may be killed at any point
(`Mortal`). Five resets (`MaxResets`) exceed what a connection's state can
remember. `Schedule` runs with an int of 12 bits and a sign, so that the sweep meets
the limit after 38 sizes and `MaxN` is never reached. TLC needs the
widths small; the proofs hold for every value.

In the other modules two or three calls (`MaxCalls`, `MaxRuns`) let what one
call leaves behind meet the next; one and two repetitions make a turn that is
the last and one that is not. `MaxWq` = 5 stands for the 50000 entries of the send
queue: two measurements may fit and a third exceeds it. The watched sizes are 103, whose message ends in
the awaited octet, and 4, whose message, like that of nearly every size, does not: a process then waits in `RecvData`
for good, and what the safety properties say goes for it as well. `Atoa` has three ranks: every rank is one of
first, middle and last; `Mpi` has two, because of `RunEnds` above. `ArmciHeap` has three addresses per process and
three allocations, enough to reuse an address while others are live and to
free in any order. `BufferData` uses the
real 32-bit registers, all sizes to 33 octets with every octet damaged or every tail missing, and
the sizes 103, 134 and 599, whose last octets decide whether polling works, undamaged. `MemCopy` takes every alignment on both sides of zero and all
sizes to 50, three wide words and a rest.

Deadlock is checked in `pingpong` and `tcp`. In `conn` the receiver waits in
`accept()` for good once the transmitter has lost the race above and exited,
in `sweep` the script ends, and in `infiniband` and `builds` the transmitter makes a
bounded number of calls, after which its receiver waits for ever, or waits for an octet that never comes; `RunEnds` and
`FailureEnds` state as liveness what does come to an end there.

Fairness. `TcpRun!FairSpec` is weak fairness of each process's own steps: a
process that can run is scheduled, and TCP delivers what it accepted; being
killed or failing to allocate is never required to happen. `TcpConn!Spec` is the same for
the threads or processes. `Schedule!FairSpec` assumes that the script runs on,
that is, that its calls of `run_iters` return, which is `CallsReturn`. The other
modules assume weak fairness of each process and of each adapter or
network: what can be delivered is delivered. `Infiniband` and `Builds` ask for
less, that as long as anyone can take a step someone does: with a bounded number of
measurements everyone comes to rest. Starting a new measurement
is part of a process's steps; failing is never required.

## Proofs

`PingPongProofs` proves, for every set of requests and every number of calls,
`TypeOK`, `InStep`, `StreamAligned`, `Lockstep`, `TimingIsClean`, `ResultsAgree`
and `ResultsAreFull`. The properties are not inductive: that the stream is
aligned now follows only from where *both* processes are and from all that is still
in flight. `InStep` says this: `Phase` lists the combinations of places the two
can be in and what each stream then holds, `RcvReadable` and `TrReadable` cover
a peer that has stopped, `SameArgs`, `LoopCounters` and `Repeats` relate the local
variables, `NothingLost`, `CallCount` and `AheadByOne` count results and complete messages. The
preservation proof has one step per action; a process that has stopped leaves
prefixes of what was in flight.

`ScheduleProofs` proves `TypeOK`, `Increasing` and `Nearby` for
every set of times, STOPTM, RUNTM, TRIALS and int width, and any number of sizes. The
inductive invariant `Ladder` gives increment, `permSize` and perturbations of the block that started at
`n` in closed form, ties `count` to `n` (so that `count % 6 = 0` is
recognised as "n is odd") and names the size tried last.

`TcpRunProofs` proves `TypeOK`, `OctetsAligned`, `BufferIntact` and the action
property `SyncFailsOnlyAlone` of `TcpRun` for every set of `uint32_t` requests, every
capacity of the sockets in which the synchronization string fits, any number of
calls and any process that may be killed. They suppose `~RcvPassesArgs`: with
arguments on the receiver's side alignment is false, as `tcp_test_args` shows. `OctetsAligned` speaks of the octet at hand; to keep
it one has to know every octet in flight. In the invariant `Inv`, `Local`, `Gathered` and `Buffered`
say what one process has transferred; `RcvStream` and `TrStream` say which messages
the octets on a stream spell, from the one the pending read has begun (`Carries`), also when
the peer has ended and left only a beginning; `Phase` lists, while both
are up, the places the two can be in together and how many octets lie between them. `StreamsAligned` then
says that a read takes the octet it is after, wherever `read` and `write` cut.

`MessagesExchanged` is the refinement: under the same condition `TcpRun` implements `PingPong` (`PromiseKept`). The
messages on a stream are the octets that are the last of their message, in order (`Ends`, `Messages`). An induction over
the stream is not needed, because the k-th message is defined by counting: it ends at the place up to which there are k
ends. Octets appended with at most one end, at their end, add at most that message (`MessageAdded`);
octets dropped up to the first end take away the first (`MessageTaken`); a beginning of a stream holds a
beginning of its messages (`BeginningHolds`). `Inv` says which octets a read or write is about, and so `StepMaps` finds for each
action the action of `PingPong` it is, or that nothing changes there.

`TcpConnProofs` proves `TypeOK`, `SameConnection` and the action property `NeverTurnedAway`
of `TcpConn` for any number of resets; the last one for scripts started in order (`RcvFirst`): a
transmitter that starts before the receiver listens is refused. Of the invariant, `Reachable` ties `listening` to the receiver's place,
`Queue` says that only the transmitter's new connection is ever queued, `Together` where the receiver can
be for each place of the transmitter, `Numbered` that the transmitter's connection is the newest, and
`FirstSetup` that the receiver stays with its first connection until the transmitter resets.

`ArmciHeapProofs` proves that the list of each process holds exactly its live
blocks, that no pointer is missing from it, and hence that `remote_ptr` gives the
peer's part of the same allocation, for every set of addresses.

`MessageProofs` and `BuildsProofs` are about `Builds`. A step of one build leaves the
variables of the others alone, so each component has an invariant under `built = ...`, and a
property of `Builds` follows from those of the builds it names.

* *One-sided modules*, `MailInv`: the pair of processes is between measurements (`Asking`: which of
  the puts of `SendRepeat` have arrived, and what a waiting receiver may have seen of them), before the loop
  (`Preparing`: where the peer's buffer address is), in the loop (`Looping`: at most one message
  is under way, and a process without one has neither flag nor octet that looks like it), or beyond
  what is modelled, because the two have different sizes (`Undefined`).
* *MPI, MPI-2, TCGMSG*, `MpInv`: a rank's `Place` is where it will be when the call
  it is in returns. `MpAsking` counts the values passed and the collective calls made (`Abreast`:
  no rank is ahead by more than the call it waits in); `MpLooping` has at most one message under
  way; `MpFencing` counts fences, and `PutUnderWay` says that a put which has not arrived was made by a rank
  that is still in the fence after it. `MpFenced` concludes that the buffer holds the message of this
  turn: half of a rank's own fences are the messages it has received, half of its partner's the ones put.
* *GM*, `GmInv`, and *PVM*, `PvInv`: neither library tells the messages apart, so both
  invariants number them and say what number `x` is. The PVM transmitter may run whole measurements ahead, but only
  with `nrepeat` 0, which is why an older count on its way is always 0 (`PvControl`).
* *All-to-all*, `Synchronous`: the ranks' places and counts, for any number of ranks.
* *Copies*, `CopyInv`: the octets before the place reached, and only those, have been written,
  and place and rest add up to the length. That each octet has been written once at the end says nothing about a copy under way.
* *Address list*, `HeapInv`: that of `ArmciHeapProofs`.
* *Test pattern*, `PatternInv`: the register is always the word stored last, read back from the buffer (`Before`), so
  that `Follows` says without recursion that a buffer holds the pattern of a seed: each word is one step of the register
  from the word before. The step can be undone, hence the register never runs empty (`Alive`) and two
  patterns that differ in one word differ in the next (`Differ`). While the buffers are compared, exactly the wrong
  octets up to the word reached have been reported (`Wrong`). The last octets at 103, 134 and 599
  follow from the recurrence of the register's lowest bits applied to itself (`Sequence`, `Doubled`) in a few steps.

The theorems are `CopiesExactly`, `PutsReachPartner`, `AllInStep`, `NrepeatArrives`, `EachInItsBuffer`,
`ReturnsWithMessage` and `EveryMessageKept`, for every set of requests, any number of measurements and ranks, and
`ChecksExactly` and `PatternsTold`, for every length.
Two conditions are named where they are used. `PatternsTellApart`: `InitBufferData` does not leave in a receive
buffer the octet that a one-sided `RecvData` waits for. `LastOctets` checks it
for the sizes measured; with 599 octets it fails and so does `ReceivedMeansArrived` (see above).
`MessagesHaveOctets`: no size of 0 over GM, for which `readFully` would not wait.

`InfinibandProofs` proves `PairedWithPeer` and `NothingLeaked` for both InfiniBand modules and both
orders of `Init`. The steps of `ibv.c` and `ib.c` are first shown to be of a few common kinds
(`AnyStep`). `SetupInv` adds to the types what a process's place says of its own
objects (`Local`) and what is on the stream to it (`Stream`): the peer's whole address, or less than
two reads need, and then the peer has given up.

`ArrivedFirst` and `WritesAimRight` are about the measurements: `ReceivedMeansArrived` and
`AimsAtLiveBuffer` for `ibv.c`, any number of measurements and turns and any length of the send queue, one that is too short
for them included, under `PatternsTellApart` (below). No completion is waited for and `Sync` says nothing of the adapters, so the
invariant `Running` has to find in the two programs why a write cannot be late. It holds for each process its `Course`
(loop variables, its own buffer, slots taken up, and counts: what arrived was sent, what was taken arrived), and for the pair one
of three situations.

* `Apart`: the transmitter is between two calls, or in the next one before the exchange of keys, while the receiver has not begun that one. No write
  is under way, and what is written and not yet read on the TCP connection is a function of the two places.
* `Coupled`: both are in the same call. Each has or will read the key of the buffer the other has registered now, and what has arrived and what is
  under way is together at most what the other has sent (`got[q] + Len(sq[p]) <= SentBy(p)`). A write that could come too late would belong to a turn
  that its receiver has finished, and a receiver finishes a turn only with a message taken, hence arrived: the counts leave no room for it.
* `Broken`: a process has found no memory in `MyMalloc` and exited; no write is under way, and the other, if it is in the same call,
  gets no further than the exchange of keys.

A dropped message (`SendData` on a full queue) and a queue pair that breaks, because `FreeBuff` took a buffer away under the receiver's last answer, leave
the two in `Coupled`, where a process may wait for good; the counts are inequalities for their sake.

### Assumptions

`TcpRun` is proved under `~RcvPassesArgs`, the one-sided modules under the two conditions above, the InfiniBand measurements
under the first of them, each stated as a hypothesis of its theorem. `PatternsTellApart` is a condition on sizes only: it says nothing of the octet that
a message ends in, so that the theorems cover the sizes at which `RecvData` never returns. It is needed: with 599 octets both
kinds of module return before the message.

Besides these conditions, the proofs use the assumptions of the modules: requests are pairs of natural
numbers (in `TcpRun` of `uint32_t`, as `PyArg_ParseTuple` delivers them), bounds are natural numbers, `Cap` is at least
the 6 octets of the synchronization string, `Mortal` is a set of processes, `Ranks` is at least 2, `Addresses` are integers.
`ArmciHeap` takes addresses of live blocks to be distinct, as an allocator does.

### Only model-checked

Liveness, which rests on fairness and so on `ENABLED`, is beyond the prover: `CallsReturn`, `NobodyLeftBehind`,
`FirstPairing`, `CleanUpEnds`, `SweepEnds`, `FailureEnds`, `RunEnds`. Every safety property that a
passing run checks, and the refinement, is a theorem.

## Not modelled

`SendTime`, `RecvTime` and the functions inside `#if 0` have no caller. The values
of the clock, output and the getters carry no control. `run_iters` of a receiver
without arguments leaves a Python exception pending after `PyArg_ParseTuple`
failed; what the interpreter makes of it later is outside the models. Name
lookup and socket options fail with an exit before anything is shared.
`NPmpi_atoa` has the same sweep as `NPtcp-local`, with other times to start and to stop.

* `gpshmem.c` uses members of `ArgStruct` that no longer exist and does not compile;
  its protocol is that of `shmem.c`. The loop head at `MP_memcpy.c:162` is
  damaged, so the non-temporal copies are left out. `memcpy.c` is one library
  call per operation in one process.
* InfiniBand: `PrepareToReceive` is called only when `asyncReceive` is set, which it never is; `Reset` has no caller; `comptype` is never
  anything but local polling, so that completion polling and the event handlers do not run. The thread that `ibv.c` would start for
  events waits on a channel that is null (`ibv.c:200`) and the completion queues are made without one (`:283`, `:296`): no event would reach it.
* `run_iters` frees `s_buff` and then `r_buff`, and `MyMalloc` of SHMEM has swapped the two on one side (`shmem.c:151-152`): the processes call the
  symmetric `shfree` with different blocks. What that does is undefined; in `Mailbox` the behaviour ends there or goes on as if it were harmless.
* ARMCI exchanges offsets by `MPI_Send` on both sides before either receives (`armci.c:366`); the four octets are taken to be accepted
  without a receiver, as MPI implementations do.
* `response` in `Sync` of `ibv.c` and `ib.c` is not initialized: when the peer is gone it may hold the right letters from an earlier call. The
  set-up models and `IbRun` leave both outcomes open.
* `SetIntegrityData`, `VerifyIntegrity`, `AlignBuffer`, the `Advance*Ptr` functions,
  `flushcache` and `lfsr32` have no caller.
* The options `use_get` and `no_fence` of `mpi2.c` are off and nothing sets them.
* In the all-to-all build `netpipe.c:124` refers to a `CheckBufferData` that the
  build does not define; the check is left out of `Atoa`.
* `bin/` holds shell and plotting scripts around data files.

## Plan

1. `PingPong`, `TcpRun`, their refinement, runs and proofs (done).
2. `TcpConn`, `Schedule` and the proofs about the sweep (done).
3. `IbvSetup`, `IbvRun`, and `ib.c` as instances of them (done).
4. `Mailbox`, `ArmciHeap`, `Mpi`, `Atoa`, `Gm`, `Pvm` (done).
5. `BufferData` and `MemCopy` (done).
6. The compositions `Infiniband` and `Builds`; `EachOctetOnce` of `MemCopy` proved (done).
7. Proofs about `TcpRun`, `TcpConn`, `ArmciHeap`, the set-up of `Infiniband` and all builds (done).
8. The refinement of `PingPong` by `TcpRun` and the data path of `Infiniband` proved (done).
9. `IbvRun` and `IbRun` with the options that `Init` sets, the order of `Init` and the choice of the transmitter (done).
10. Open: the liveness properties, by hand-made rankings if a prover for them becomes available; `PrepareToReceive`, `Reset` and the
    event mode of the InfiniBand modules, should the driver come to use them.
