--------------------------- MODULE TcpConnProofs ----------------------------
(***************************************************************************)
(* Machine-checked proofs about TcpConn, for any number of resets and with  *)
(* the scripts started in any order.                                        *)
(***************************************************************************)
EXTENDS TcpConn, TLAPS

-----------------------------------------------------------------------------
(* The inductive invariant *)

\* The receiver has no connection, or is giving up the old one.
Between == {"closeComm", "closeService", "start", "listen", "accept"}

\* The receiver can be reached from its call of listen() until it closes servicefd.
Reachable ==
    /\ pc["rcv"] \in {"start", "listen"} => ~listening
    /\ pc["rcv"] \in Labels \ {"start", "listen", "exited"} => listening

\* Nothing is queued that is not the transmitter's new connection.
Queue ==
    backlog # <<>> =>
        /\ pc["tr"] = "connected" /\ backlog = <<commfd["tr"]>>
        /\ pc["rcv"] \in {"accept", "closeComm", "closeService"}

\* The octets of a "QUIT" on the connection of both.
Quits(p) == commfd["tr"] \in quit[p]

\* Where the receiver can be, for each place of the transmitter.
Together ==
    LET rp == pc["rcv"] IN
    /\ pc["tr"] \notin {"listen", "accept", "closeService"} /\ rp # "connect"
    /\ pc["tr"] \in {"start", "connect"} => rp \in Between
    /\ pc["tr"] = "connected" =>
          \/ rp = "connected" /\ Paired /\ backlog = <<>>
          \/ rp \in {"accept", "closeComm", "closeService"} /\ backlog # <<>>
          \/ rp \in {"start", "listen", "accept"} /\ backlog = <<>>
    /\ pc["tr"] \in {"done", "quitWrite"} =>
          rp \in {"done", "quitRead"} /\ Paired /\ ~Quits("rcv") /\ ~Quits("tr")
    /\ pc["tr"] = "quitRead" =>
          \/ rp \in {"done", "quitRead", "quitWrite"} /\ Paired /\ ~Quits("tr")
          \/ rp \in Between
    /\ pc["tr"] = "closeComm" => rp \in Between
    /\ pc["tr"] = "exited" => rp \in {"start", "listen", "accept", "exited"}

\* Connections are numbered, and only the transmitter makes them: the number of the
\* one it holds is the highest, and no "QUIT" is on a connection that is not yet used.
Numbered ==
    /\ pc["tr"] \in {"connected", "done", "quitWrite", "quitRead", "closeComm"} =>
          commfd["tr"] = used /\ used > 0
    /\ pc["tr"] = "connected" => ~Quits("rcv") /\ ~Quits("tr")

\* Until its first reset the transmitter has not let the receiver out of its first
\* connection, and a script that starts after the receiver listens finds it waiting.
FirstSetup ==
    ~doing_reset["tr"] =>
        /\ pc["tr"] \notin {"quitWrite", "quitRead", "closeComm"}
        /\ pc["rcv"] \in {"start", "listen", "accept", "connected", "done", "quitRead", "exited"}
        /\ pc["tr"] = "connect" /\ RcvFirst => pc["rcv"] = "accept"

\* Every step of Next preserves this.
Inv == TypeOK /\ Reachable /\ Queue /\ Together /\ Numbered /\ FirstSetup

-----------------------------------------------------------------------------
(* Types *)

USE DEF Proc

\* A sequence of connection numbers stays one when more connections are made.
LEMMA MoreConnections ==
    ASSUME NEW n \in Nat, NEW s \in Seq(1..n)
    PROVE  s \in Seq(1..(n + 1)) /\ Append(s, n + 1) \in Seq(1..(n + 1))
<1>1. s \in Seq(1..(n + 1))
  <2>1. Len(s) \in Nat /\ DOMAIN s = 1..Len(s) /\ \A i \in 1..Len(s) : s[i] \in 1..(n + 1)
    OBVIOUS
  <2> QED  BY <2>1
<1> QED  BY <1>1

LEMMA NoConnections ==
    ASSUME NEW S
    PROVE  <<>> \in Seq(S)
  OBVIOUS

\* What exit() does to the program counters.
LEMMA ExitsType ==
    ASSUME TypeOK, NEW p \in Proc, Exits(p)
    PROVE  pc' \in [Proc -> Labels] /\ pc'[p] = "exited"
  BY DEF TypeOK, Exits, Labels

LEMMA TypeStep ==
    ASSUME TypeOK, [Next]_vars, \A p \in Proc : pc[p] = "quitWrite" => commfd[p] # 0
    PROVE  TypeOK'
<1>1. ASSUME NEW p \in Proc, Setup(p)  PROVE TypeOK'
  BY <1>1 DEF TypeOK, Setup, Goto, Labels
<1>2. ASSUME NEW p \in Proc, Connect(p)  PROVE TypeOK'
  <2>1. backlog' \in Seq(1..used')
    BY <1>2, MoreConnections DEF TypeOK, Connect
  <2>2. commfd' \in [Proc -> 0..used'] /\ quit' \in [Proc -> SUBSET (1..used')] /\ used' \in Nat
    BY <1>2 DEF TypeOK, Connect
  <2>3. pc' \in [Proc -> Labels] /\ gil' \in Proc \cup {"free"}
    BY <1>2 DEF TypeOK, Connect, Goto, Labels, Released
  <2> QED  BY <1>2, <2>1, <2>2, <2>3 DEF TypeOK, Connect
<1>3. ASSUME NEW p \in Proc, Refused(p)  PROVE TypeOK'
  BY <1>3, ExitsType DEF TypeOK, Refused
<1>4. ASSUME NEW p \in Proc, Listen(p)  PROVE TypeOK'
  BY <1>4 DEF TypeOK, Listen, Goto, Labels
<1>5. ASSUME NEW p \in Proc, Accept(p)  PROVE TypeOK'
  <2>1. Head(backlog) \in 1..used /\ backlog' \in Seq(1..used)
    BY <1>5 DEF TypeOK, Accept
  <2> QED  BY <1>5, <2>1 DEF TypeOK, Accept, Goto, Labels, Released
<1>6. CASE Trial
  BY <1>6 DEF TypeOK, Trial, Labels
<1>7. ASSUME NEW p \in Proc, TrialFails(p)  PROVE TypeOK'
  BY <1>7, ExitsType DEF TypeOK, TrialFails
<1>8. ASSUME NEW p \in Proc, Reset(p)  PROVE TypeOK'
  BY <1>8, MaxResetsAssumption DEF TypeOK, Reset, Goto, Labels
<1>9. ASSUME NEW p \in Proc, QuitWrite(p)  PROVE TypeOK'
  BY <1>9 DEF TypeOK, QuitWrite, Goto, Labels, Peer
<1>10. ASSUME NEW p \in Proc, QuitRead(p)  PROVE TypeOK'
  BY <1>10 DEF TypeOK, QuitRead, Goto, Labels
<1>11. ASSUME NEW p \in Proc, CloseComm(p)  PROVE TypeOK'
  BY <1>11 DEF TypeOK, CloseComm, Goto, Labels
<1>12. ASSUME NEW p \in Proc, CloseService(p)  PROVE TypeOK'
  <2>1. backlog' \in Seq(1..used') /\ pc' \in [Proc -> Labels] /\ listening' \in BOOLEAN
    BY <1>12, NoConnections DEF TypeOK, CloseService, Goto, Labels
  <2> QED  BY <1>12, <2>1 DEF TypeOK, CloseService
<1>13. CASE UNCHANGED vars
  BY <1>13 DEF TypeOK, vars
<1> QED
  BY <1>1, <1>2, <1>3, <1>4, <1>5, <1>6, <1>7, <1>8, <1>9, <1>10, <1>11, <1>12, <1>13
     DEF Next, Step, Finished

-----------------------------------------------------------------------------
(* The invariant *)

LEMMA Starts == Init => Inv
<1> SUFFICES ASSUME Init  PROVE Inv
  OBVIOUS
<1>1. backlog \in Seq(1..used)
  BY NoConnections DEF Init
<1>2. TypeOK
  <2>1. pc \in [Proc -> Labels] /\ listening \in BOOLEAN /\ used \in Nat
    BY DEF Init, Labels
  <2>2. commfd \in [Proc -> 0..used] /\ resets \in [Proc -> 0..MaxResets]
    BY MaxResetsAssumption DEF Init
  <2>3. quit \in [Proc -> SUBSET (1..used)]
    BY DEF Init
  <2>4. doing_reset \in [Proc -> BOOLEAN] /\ gil \in Proc \cup {"free"}
    BY DEF Init
  <2> QED  BY <1>1, <2>1, <2>2, <2>3, <2>4 DEF TypeOK
<1> QED
  BY <1>2 DEF Init, Inv, Reachable, Queue, Together, Numbered, FirstSetup, Between

LEMMA TypeInInv ==
    ASSUME Inv, [Next]_vars
    PROVE  TypeOK'
<1>1. ASSUME NEW p \in Proc, pc[p] = "quitWrite"  PROVE commfd[p] # 0
  BY <1>1 DEF Inv, Together, Numbered, Paired, Between, TypeOK, Labels
<1> QED  BY <1>1, TypeStep DEF Inv

LEMMA Inductive ==
    ASSUME Inv, [Next]_vars
    PROVE  Inv'
<1> USE DEF Inv, Reachable, Queue, Together, Numbered, FirstSetup, Between, Quits, Paired
<1>0. TypeOK'
  BY TypeInInv
<1>1. ASSUME NEW p \in Proc, Setup(p)  PROVE Inv'
  BY <1>0, <1>1 DEF TypeOK, Setup, Goto, Labels
<1>2. ASSUME NEW p \in Proc, Connect(p)  PROVE Inv'
  <2>1. /\ p = "tr" /\ backlog = <<>> /\ used' = used + 1 /\ backlog' = <<used + 1>>
        /\ pc' = [pc EXCEPT !["tr"] = "connected"]
        /\ commfd' = [commfd EXCEPT !["tr"] = used + 1]
    <3>1. p = "tr" /\ pc["tr"] = "connect" /\ backlog = <<>>
      BY <1>2 DEF Connect
    <3> QED  BY <1>2, <3>1 DEF Connect, Goto
  <2>2. backlog' # <<>> /\ used + 1 > 0
    BY <2>1 DEF TypeOK
  <2>3. \A q \in Proc : used + 1 \notin quit[q]
    BY DEF TypeOK
  <2>4. pc["rcv"] \in {"accept", "closeComm", "closeService"}
    BY <1>2 DEF Connect, TypeOK, Labels
  <2> QED  BY <1>0, <1>2, <2>1, <2>2, <2>3, <2>4 DEF TypeOK, Connect, Labels
<1>3. ASSUME NEW p \in Proc, Refused(p)  PROVE Inv'
  BY <1>0, <1>3 DEF TypeOK, Refused, Exits, Labels
<1>4. ASSUME NEW p \in Proc, Listen(p)  PROVE Inv'
  BY <1>0, <1>4 DEF TypeOK, Listen, Goto, Labels
<1>5. ASSUME NEW p \in Proc, Accept(p)  PROVE Inv'
  <2>1. /\ p = "rcv" /\ pc["tr"] = "connected" /\ backlog = <<commfd["tr"]>>
        /\ pc' = [pc EXCEPT !["rcv"] = "connected"]
    BY <1>5 DEF Accept, Goto
  <2>2. backlog' = <<>> /\ commfd' = [commfd EXCEPT !["rcv"] = commfd["tr"]]
    BY <1>5, <2>1 DEF Accept
  <2> QED  BY <1>0, <1>5, <2>1, <2>2 DEF TypeOK, Accept, Labels
<1>6. CASE Trial
  BY <1>0, <1>6 DEF TypeOK, Trial, Labels
<1>7. ASSUME NEW p \in Proc, TrialFails(p)  PROVE Inv'
  <2>1. /\ p = "tr" /\ backlog = <<>> /\ pc["rcv"] \in {"start", "listen", "accept"}
    <3>1. backlog # <<>> => commfd["tr"] \in ToSet(backlog)
      <4>1. SUFFICES ASSUME backlog = <<commfd["tr"]>>  PROVE commfd["tr"] \in ToSet(backlog)
        OBVIOUS
      <4>2. 1 \in DOMAIN backlog /\ backlog[1] = commfd["tr"]
        BY <4>1
      <4> QED  BY <4>2 DEF ToSet
    <3> QED  BY <1>7, <3>1 DEF TrialFails, Alive, Peer, TypeOK, Labels
  <2> QED  BY <1>0, <1>7, <2>1 DEF TypeOK, TrialFails, Exits, Labels
<1>8. ASSUME NEW p \in Proc, Reset(p)  PROVE Inv'
  BY <1>0, <1>8 DEF TypeOK, Reset, Goto, Labels
<1>9. ASSUME NEW p \in Proc, QuitWrite(p)  PROVE Inv'
  BY <1>0, <1>9 DEF TypeOK, QuitWrite, Alive, Peer, Goto, Labels
<1>10. ASSUME NEW p \in Proc, QuitRead(p)  PROVE Inv'
  <2>1. CASE p = "tr"
    <3>1. pc["rcv"] \in Between
      BY <1>10, <2>1 DEF QuitRead, Alive, Peer
    <3> QED  BY <1>0, <1>10, <2>1, <3>1 DEF TypeOK, QuitRead, Goto, Labels
  <2>2. CASE p = "rcv"
    <3>1. pc["tr"] = "quitRead"
      BY <1>10, <2>2 DEF QuitRead, Alive, Peer, TypeOK, Labels
    <3> QED  BY <1>0, <1>10, <2>2, <3>1 DEF TypeOK, QuitRead, Goto, Labels
  <2> QED  BY <2>1, <2>2
<1>11. ASSUME NEW p \in Proc, CloseComm(p)  PROVE Inv'
  <2>1. CASE p = "tr"
    BY <1>0, <1>11, <2>1 DEF TypeOK, CloseComm, Goto, Labels
  <2>2. CASE p = "rcv"
    <3>1. pc["tr"] \in {"start", "connect", "connected", "quitRead", "closeComm"}
      BY <1>11, <2>2 DEF CloseComm, TypeOK, Labels
    <3> QED  BY <1>0, <1>11, <2>2, <3>1 DEF TypeOK, CloseComm, Goto, Labels
  <2> QED  BY <2>1, <2>2
<1>12. ASSUME NEW p \in Proc, CloseService(p)  PROVE Inv'
  BY <1>0, <1>12 DEF TypeOK, CloseService, Goto, Labels
<1>13. CASE UNCHANGED vars
  BY <1>13 DEF TypeOK, vars
<1> QED
  BY <1>1, <1>2, <1>3, <1>4, <1>5, <1>6, <1>7, <1>8, <1>9, <1>10, <1>11, <1>12, <1>13
     DEF Next, Step, Finished

LEMMA Invariance == Spec => []Inv
  BY Starts, Inductive, PTL DEF Spec

-----------------------------------------------------------------------------

\* Every variable of the connection set-up keeps its type: no "QUIT" is written to a
\* socket that is not there, and connect() never meets more than MaxResets resets.
THEOREM TypeCorrect == Spec => []TypeOK
<1>1. Inv => TypeOK
  BY DEF Inv
<1> QED  BY <1>1, Invariance, PTL

\* After any number of resets, whoever starts first and however the two processes
\* interleave, both are on one connection whenever both are between Setup and Reset
\* (Setup, establish, CleanUp, Reset).
THEOREM ConnectionIsShared == Spec => []SameConnection
<1>1. Inv => SameConnection
  BY DEF Inv, TypeOK, Labels, Together, Between, Paired, SameConnection
<1> QED  BY <1>1, Invariance, PTL

\* A transmitter whose script starts once the receiver listens is never turned away,
\* neither at first nor in a reset (establish).
THEOREM NeverRefused == RcvFirst /\ Spec => NeverTurnedAway
<1> SUFFICES ASSUME RcvFirst  PROVE Spec => NeverTurnedAway
  OBVIOUS
<1>1. Inv /\ [Next]_vars => [pc["tr"] = "connect" => pc'["tr"] # "exited"]_vars
  <2> SUFFICES ASSUME Inv, [Next]_vars, pc["tr"] = "connect"
               PROVE  pc'["tr"] # "exited"
    OBVIOUS
  <2> USE DEF Inv, TypeOK
  <2>1. pc["rcv"] \in Between /\ (~doing_reset["tr"] => listening)
    BY DEF Together, FirstSetup, Reachable, Labels
  <2>2. ASSUME NEW p \in Proc, Refused(p)  PROVE pc'["tr"] # "exited"
    BY <2>1, <2>2 DEF Refused
  <2>3. ASSUME NEW p \in Proc, TrialFails(p)  PROVE FALSE
    BY <2>1, <2>3 DEF TrialFails, Between
  <2>4. ASSUME NEW p \in Proc,
               \/ Setup(p) \/ Connect(p) \/ Listen(p) \/ Accept(p) \/ Reset(p)
               \/ QuitWrite(p) \/ QuitRead(p) \/ CloseComm(p) \/ CloseService(p)
        PROVE  pc'["tr"] # "exited"
    BY <2>4 DEF Setup, Connect, Listen, Accept, Reset, QuitWrite, QuitRead, CloseComm,
                CloseService, Goto
  <2>5. CASE Trial \/ Finished \/ UNCHANGED vars
    BY <2>5 DEF Trial, Finished, vars
  <2> QED  BY <2>2, <2>3, <2>4, <2>5 DEF Next, Step
<1> QED  BY <1>1, Invariance, PTL DEF Spec, NeverTurnedAway
=============================================================================
