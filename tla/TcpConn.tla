------------------------------ MODULE TcpConn -------------------------------
(***************************************************************************)
(* How the TCP module gets a connection and renews it.  netpipe_object      *)
(* (src/src/netpipe.c) calls Setup, and Setup establish, when a script      *)
(* creates its object; CleanUp and Reset (src/src/tcp.c) are operations     *)
(* every protocol module exports and that the driver does not call at       *)
(* present: MaxResets = 0 is the program as it is built, MaxResets > 0 the  *)
(* module under a driver that resets the connection between trials.         *)
(*                                                                          *)
(* The kernel completes a connection as soon as a listening socket is there *)
(* to queue it; accept() takes it from that queue later, or never: closing  *)
(* the listening socket resets what is still queued.                        *)
(***************************************************************************)
EXTENDS Naturals, Sequences, FiniteSets, SequencesExt

CONSTANTS
    MaxResets,        \* bound on the calls of Reset each side makes
    RcvFirst,         \* the transmitter's script starts once the receiver listens
    OneInterpreter    \* both objects are created by threads of one Python process

ASSUME MaxResetsAssumption == MaxResets \in Nat
ASSUME RcvFirstAssumption == RcvFirst \in BOOLEAN
ASSUME OneInterpreterAssumption == OneInterpreter \in BOOLEAN

VARIABLES
    pc,           \* pc[p]: where p is in Setup, a trial or Reset
    listening,    \* servicefd is open and listen() has been called on it
    backlog,      \* connections queued on servicefd and not accepted
    commfd,       \* commfd[p]: the connection p talks on, 0 when it has none
    used,         \* connections made so far; connection k is the k-th
    quit,         \* quit[p]: connections with an unread "QUIT" for p
    doing_reset,  \* doing_reset[p]: the global flag of p's process
    resets,       \* resets[p]: calls of Reset so far
    gil           \* who holds the interpreter lock, when there is one interpreter

vars == <<pc, listening, backlog, commfd, used, quit, doing_reset, resets, gil>>

Proc == {"tr", "rcv"}
Peer(p) == IF p = "tr" THEN "rcv" ELSE "tr"

Labels == {"start", "connect", "listen", "accept", "connected", "done",
           "quitWrite", "quitRead", "closeComm", "closeService", "exited"}

Init ==
    /\ pc = [p \in Proc |-> "start"]
    /\ listening = FALSE
    /\ backlog = <<>>
    /\ commfd = [p \in Proc |-> 0]
    /\ used = 0
    /\ quit = [p \in Proc |-> {}]
    /\ doing_reset = [p \in Proc |-> FALSE]
    /\ resets = [p \in Proc |-> 0]
    /\ gil = "free"

Goto(p, l) == pc' = [pc EXCEPT ![p] = l]

\* exit() ends the process; with one interpreter it ends both.
Exits(p) == pc' = [q \in Proc |-> IF q = p \/ OneInterpreter THEN "exited" ELSE pc[q]]

\* The other end of p's connection still exists, accepted or queued.
Alive(p) ==
    \/ commfd[Peer(p)] = commfd[p]
    \/ p = "tr" /\ commfd[p] \in ToSet(backlog)

\* Both ends hold the same connection.
Paired == commfd["tr"] # 0 /\ commfd["tr"] = commfd["rcv"]

-----------------------------------------------------------------------------

\* Setup opens the socket; the receiver also binds it, which its own closed
\* predecessor does not prevent (SO_REUSEADDR).  The constructor holds the
\* interpreter lock until it returns.
Setup(p) ==
    /\ pc[p] = "start"
    /\ (RcvFirst /\ p = "tr" /\ ~doing_reset[p]) => listening
    /\ OneInterpreter => gil = "free"
    /\ gil' = IF OneInterpreter THEN p ELSE gil
    /\ Goto(p, IF p = "tr" THEN "connect" ELSE "listen")
    /\ UNCHANGED <<listening, backlog, commfd, used, quit, doing_reset, resets>>

Released(p) == IF gil = p THEN "free" ELSE gil

\* connect() succeeds: the connection is queued.
Connect(p) ==
    /\ pc[p] = "connect" /\ p = "tr"
    /\ listening
    /\ used' = used + 1
    /\ backlog' = Append(backlog, used + 1)
    /\ commfd' = [commfd EXCEPT ![p] = used + 1]
    /\ Goto(p, "connected")
    /\ gil' = Released(p)
    /\ UNCHANGED <<listening, quit, doing_reset, resets>>

\* Variant of Refused that gives up in a reset, too.
RefusedGivesUp(p) ==
    /\ pc[p] = "connect" /\ p = "tr"
    /\ ~listening
    /\ Exits(p)
    /\ UNCHANGED <<listening, backlog, commfd, used, quit, doing_reset, resets, gil>>

\* connect() fails with ECONNREFUSED: outside a reset exit(-10), in a reset again.
Refused(p) ==
    /\ pc[p] = "connect" /\ p = "tr"
    /\ ~listening
    /\ IF doing_reset[p] THEN UNCHANGED pc ELSE Exits(p)
    /\ UNCHANGED <<listening, backlog, commfd, used, quit, doing_reset, resets, gil>>

\* Variant of Listen without the listen() call.
ListenForgotten(p) ==
    /\ pc[p] = "listen" /\ p = "rcv"
    /\ Goto(p, "accept")
    /\ UNCHANGED <<listening, backlog, commfd, used, quit, doing_reset, resets, gil>>

Listen(p) ==
    /\ pc[p] = "listen" /\ p = "rcv"
    /\ listening' = TRUE
    /\ Goto(p, "accept")
    /\ UNCHANGED <<backlog, commfd, used, quit, doing_reset, resets, gil>>

Accept(p) ==
    /\ pc[p] = "accept" /\ p = "rcv"
    /\ backlog # <<>>
    /\ commfd' = [commfd EXCEPT ![p] = Head(backlog)]
    /\ backlog' = Tail(backlog)
    /\ Goto(p, "connected")
    /\ gil' = Released(p)
    /\ UNCHANGED <<listening, used, quit, doing_reset, resets>>

\* A trial, from Sync to the result, needs both processes on one connection.
Trial ==
    /\ \A p \in Proc : pc[p] = "connected"
    /\ Paired
    /\ pc' = [p \in Proc |-> "done"]
    /\ UNCHANGED <<listening, backlog, commfd, used, quit, doing_reset, resets, gil>>

\* On a connection whose other end is gone the first Sync fails: exit(3).
TrialFails(p) ==
    /\ pc[p] = "connected"
    /\ ~Alive(p)
    /\ Exits(p)
    /\ commfd' = [commfd EXCEPT ![p] = 0]
    /\ UNCHANGED <<listening, backlog, used, quit, doing_reset, resets, gil>>

-----------------------------------------------------------------------------
(* Reset: CleanUp, then Setup.  The transmitter writes first. *)

Reset(p) ==
    /\ pc[p] = "done"
    /\ resets[p] < MaxResets
    /\ resets' = [resets EXCEPT ![p] = @ + 1]
    /\ doing_reset' = [doing_reset EXCEPT ![p] = TRUE]
    /\ Goto(p, IF p = "tr" THEN "quitWrite" ELSE "quitRead")
    /\ UNCHANGED <<listening, backlog, commfd, used, quit, gil>>

\* Variant of QuitWrite at a transmitter that reads first, as the receiver does.
QuitWriteAfterReading(p) ==
    /\ pc[p] = "quitWrite"
    /\ p = "tr" => commfd[p] \in quit[p] \/ ~Alive(p)
    /\ quit' = IF Alive(p) THEN [quit EXCEPT ![Peer(p)] = @ \cup {commfd[p]}] ELSE quit
    /\ Goto(p, IF p = "tr" THEN "quitRead" ELSE "closeComm")
    /\ UNCHANGED <<listening, backlog, commfd, used, doing_reset, resets, gil>>

\* write(p->commfd, quit, 5); on a connection without another end it is lost.
QuitWrite(p) ==
    /\ pc[p] = "quitWrite"
    /\ quit' = IF Alive(p) THEN [quit EXCEPT ![Peer(p)] = @ \cup {commfd[p]}] ELSE quit
    /\ Goto(p, IF p = "tr" THEN "quitRead" ELSE "closeComm")
    /\ UNCHANGED <<listening, backlog, commfd, used, doing_reset, resets, gil>>

\* Variant of QuitRead that does not block.
QuitReadNoWait(p) ==
    /\ pc[p] = "quitRead"
    /\ Goto(p, IF p = "tr" THEN "closeComm" ELSE "quitWrite")
    /\ UNCHANGED <<listening, backlog, commfd, used, quit, doing_reset, resets, gil>>

\* read() waits for octets or the end of the connection.  It is given a string
\* literal to read into, so the octets stay where they are (EFAULT, ignored).
QuitRead(p) ==
    /\ pc[p] = "quitRead"
    /\ commfd[p] \in quit[p] \/ ~Alive(p)
    /\ Goto(p, IF p = "tr" THEN "closeComm" ELSE "quitWrite")
    /\ UNCHANGED <<listening, backlog, commfd, used, quit, doing_reset, resets, gil>>

\* Closing drops what has not been read.
CloseComm(p) ==
    /\ pc[p] = "closeComm"
    /\ quit' = [quit EXCEPT ![p] = @ \ {commfd[p]}]
    /\ commfd' = [commfd EXCEPT ![p] = 0]
    /\ Goto(p, IF p = "tr" THEN "start" ELSE "closeService")
    /\ UNCHANGED <<listening, backlog, used, doing_reset, resets, gil>>

\* Variant of CloseService that counts the reset a second time.
CloseServiceCounts(p) ==
    /\ pc[p] = "closeService"
    /\ listening' = FALSE
    /\ backlog' = <<>>
    /\ resets' = [resets EXCEPT ![p] = @ + 1]
    /\ Goto(p, "start")
    /\ UNCHANGED <<commfd, used, quit, doing_reset, gil>>

\* The connections queued on servicefd are reset with it.
CloseService(p) ==
    /\ pc[p] = "closeService"
    /\ listening' = FALSE
    /\ backlog' = <<>>
    /\ Goto(p, "start")
    /\ UNCHANGED <<commfd, used, quit, doing_reset, resets, gil>>

\* Both scripts are through, or a process has exited and the other one with it or
\* after its last trial.
Finished ==
    /\ \A p \in Proc : pc[p] = "exited" \/ (pc[p] = "done" /\ resets[p] = MaxResets)
    /\ UNCHANGED vars

Step(p) ==
    \/ Setup(p) \/ Connect(p) \/ Refused(p) \/ Listen(p) \/ Accept(p) \/ TrialFails(p)
    \/ Reset(p) \/ QuitWrite(p) \/ QuitRead(p) \/ CloseComm(p) \/ CloseService(p)

Next == (\E p \in Proc : Step(p)) \/ Trial \/ Finished

\* Threads and processes that can run are scheduled.
Spec == Init /\ [][Next]_vars /\ (\A p \in Proc : WF_vars(Step(p))) /\ WF_vars(Trial)

-----------------------------------------------------------------------------

TypeOK ==
    /\ pc \in [Proc -> Labels]
    /\ listening \in BOOLEAN
    /\ backlog \in Seq(1..used)
    /\ commfd \in [Proc -> 0..used]
    /\ used \in Nat
    /\ quit \in [Proc -> SUBSET (1..used)]
    /\ doing_reset \in [Proc -> BOOLEAN]
    /\ resets \in [Proc -> 0..MaxResets]
    /\ gil \in Proc \cup {"free"}

\* When both processes are between Setup and Reset they are on one connection: the
\* transmitter is never through Setup on a new connection while the receiver still
\* works on the old one, nor the other way round.
SameConnection ==
    \A p, q \in Proc :
        (pc[p] \in {"connected", "done"} /\ pc[q] \in {"connected", "done"})
            => commfd[p] = commfd[q]

\* establish: a script that starts after the receiver listens is never turned away,
\* neither at first nor when it comes back before the receiver does in a reset.
NeverTurnedAway == [][pc["tr"] = "connect" => pc'["tr"] # "exited"]_vars

\* Setup on both sides leads to a connection between them.
FirstPairing == <>Paired

\* CleanUp: the two sides exchange "QUIT" in opposite orders, so neither is left
\* waiting for the other's.
CleanUpEnds == \A p \in Proc : pc[p] = "quitRead" ~> pc[p] = "closeComm"

\* Reset: the comment in establish promises that the transmitter keeps trying until
\* it has success, that is, until both are connected again.
ResetReconnects ==
    \A p \in Proc : pc[p] = "closeComm" ~> (Paired /\ pc[p] = "connected")

=============================================================================
