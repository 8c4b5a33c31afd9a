--------------------------- MODULE MessageProofs ----------------------------
(***************************************************************************)
(* Machine-checked invariants of the builds of Builds that pass messages:   *)
(* GM, PVM, and MPI with MPI-2 and TCGMSG.  BuildsProofs draws the theorems *)
(* from them.  A step of one build leaves the variables of the others       *)
(* alone, so that a property of a build needs an invariant of its component *)
(* only.                                                                    *)
(***************************************************************************)
EXTENDS Builds, SequenceTheorems, TLAPS

\* No step changes which library is linked (setup.py).
LEMMA SameBuild == [Next]_vars => built' = built
  BY DEF Next, vars, MailboxStep, MpiStep, AtoaStep, GmStep, PvmStep, HeapStep,
         CopyStep, PatternStep

-----------------------------------------------------------------------------
(* GM: the inductive invariant *)

\* readFully would not wait for a message without octets.
MessagesHaveOctets == \A r \in Requests["gm"] : r[1] > 0

GmIn == {"hello", "inRepeat", "inSync", "inRecv"}
GmClass == {7} \cup {GM!gm_min_size_for_length(len) : len \in Nat}
GmMessage == [buf : {"hello", "lrpt", "sync", "s_buff"}, size : GmClass, len : Nat]
GmProvided == [buf : {"hello", "lrpt", "sync1", "r_buff"}, size : GmClass]
Given(p) == given[p] # <<>>

\* The buffer a process in readFully has provided, and the octets it waits for.
GmBuffer(p) ==
    IF pc[p] = "hello" THEN "hello" ELSE IF pc[p] = "inRepeat" THEN "lrpt"
    ELSE IF pc[p] = "inSync" THEN "sync1" ELSE "r_buff"
GmOctets(p) ==
    IF pc[p] = "hello" THEN 20 ELSE IF pc[p] = "inRepeat" THEN 8
    ELSE IF pc[p] = "inSync" THEN 7 ELSE arg[p][1]

GmTypes ==
    /\ pc \in [GM!Proc -> GM!Labels] /\ k \in [GM!Proc -> 1..2]
    /\ arg \in [GM!Proc -> [1..2 -> Nat]] /\ left \in [GM!Proc -> Nat]
    /\ req \in [1..2 -> Nat]
    /\ calls \in [GM!Proc -> Nat] /\ lrpt \in [GM!Proc -> Nat] /\ need \in [GM!Proc -> Int]
    /\ sends \in [GM!Proc -> Seq(GmMessage)] /\ given \in [GM!Proc -> Seq(GmProvided)]
    /\ events \in [GM!Proc -> Seq(Nat)]

\* A process that waits has provided one buffer, or its message has come, or
\* the event of it has been counted.
GmLocal(p) ==
    /\ GmOctets(p) > 0 \/ pc[p] # "inRecv"
    /\ Given(p) => /\ pc[p] \in GmIn /\ Len(given[p]) = 1 /\ given[p][1].buf = GmBuffer(p)
                   /\ events[p] = <<>> /\ need[p] = GmOctets(p)
    /\ events[p] # <<>> => pc[p] \in GmIn /\ Len(events[p]) = 1 /\ need[p] = GmOctets(p)
    /\ k[p] = 2 => pc[p] \in {"repeat", "inRepeat"}

\* The receiver is still in its set-up or in the measurement before.
Behind == pc["rcv"] \in {"await", "hello"} \/ calls["rcv"] < calls["tr"]

\* Messages of its measurement that the transmitter has sent and the receiver has
\* taken; -1 when the greeting or the last "Syncme" is still to come.
GmSent ==
    IF pc["tr"] = "greet" THEN 0 - 1
    ELSE IF pc["tr"] = "idle" THEN 0 ELSE IF pc["tr"] = "repeat" THEN k["tr"] - 1
    ELSE IF pc["tr"] = "inSync" THEN 3 ELSE 2
GmTaken ==
    IF Behind THEN (IF pc["rcv"] = "await" \/ Given("rcv") THEN 0 - 1 ELSE 0)
    ELSE IF pc["rcv"] = "repeat" THEN k["rcv"] - 1
    ELSE IF pc["rcv"] = "inRepeat" THEN (IF Given("rcv") THEN k["rcv"] - 1 ELSE k["rcv"])
    ELSE IF pc["rcv"] = "inSync" /\ ~Given("rcv") THEN 3 ELSE 2
GmKind(x) ==
    IF x = 0 THEN (IF pc["rcv"] \in {"await", "hello"} THEN "hello" ELSE "sync")
    ELSE IF x = 3 THEN "sync" ELSE "lrpt"

\* The transmitter sends what the script asked for.
GmScripted ==
    /\ pc["tr"] \notin {"greet", "idle"} => arg["tr"] = req /\ req[1] > 0
    /\ pc["tr"] = "repeat" /\ k["tr"] = 2 => lrpt["tr"] = req[1]
    /\ pc["tr"] \in {"malloc", "sync", "inSync"} => lrpt["tr"] = req[2]
    /\ pc["tr"] \in {"sync", "inSync"} => left["tr"] = req[2]

GmStream ==
    /\ GmTaken <= GmSent /\ Len(sends["tr"]) = GmSent - GmTaken
    /\ \A x \in 1..Len(sends["tr"]) : sends["tr"][x].buf = GmKind(GmTaken + x)

\* The receiver may take nrepeat for the size, but never the size for nrepeat.
Told(v) == v \in {req[1], req[2]}
GmHeard ==
    /\ GmTaken = 1 /\ pc["rcv"] = "inRepeat" /\ k["rcv"] = 1 => Told(lrpt["rcv"])
    /\ k["rcv"] = 2 => Told(arg["rcv"][1])
    /\ GmTaken = 2 /\ pc["rcv"] = "inRepeat" => lrpt["rcv"] = req[2]
    /\ ~Behind /\ pc["rcv"] \in {"malloc", "sync", "inSync"} => Told(arg["rcv"][1]) /\ arg["rcv"][2] = req[2]
    /\ ~Behind /\ pc["rcv"] \in {"sync", "inSync"} => left["rcv"] = req[2]

OneMessage(p, b) == Len(sends[p]) = 1 /\ sends[p][1].buf = b
NoMessage(p) == Len(sends[p]) = 0

\* Up to Sync.
GmAsking ==
    /\ pc["tr"] \in {"greet", "idle", "repeat", "malloc", "sync", "inSync"}
    /\ pc["rcv"] \in {"await", "hello", "free", "repeat", "inRepeat", "malloc", "sync", "inSync"}
    /\ calls["rcv"] \in {calls["tr"], calls["tr"] - 1}
    /\ calls["rcv"] < calls["tr"] => pc["rcv"] \in {"inSync", "free"} /\ left["rcv"] = 0
    /\ pc["rcv"] = "free" => calls["rcv"] < calls["tr"]
    /\ pc["tr"] = "greet" => pc["rcv"] \in {"await", "hello"}
    /\ GmStream /\ GmHeard
    /\ pc["tr"] = "inSync" /\ ~Given("tr") => pc["rcv"] = "inSync" /\ ~Behind
    /\ IF pc["rcv"] = "inSync" /\ ~Behind /\ (pc["tr"] = "inSync" => Given("tr"))
       THEN OneMessage("rcv", "sync") ELSE NoMessage("rcv")

\* The receiver has nothing to do for this measurement any more.
GmThrough ==
    \/ pc["rcv"] = "free" /\ calls["rcv"] = calls["tr"]
    \/ /\ calls["rcv"] = calls["tr"] + 1 /\ k["rcv"] = 1
       /\ pc["rcv"] = "repeat" \/ (pc["rcv"] = "inRepeat" /\ Given("rcv"))

\* It waits for the next message of this measurement, or for none.
GmAwaits ==
    IF left["rcv"] = 0 THEN GmThrough
    ELSE /\ calls["rcv"] = calls["tr"] /\ arg["rcv"][1] > 0
         /\ pc["rcv"] = "recv" \/ (pc["rcv"] = "inRecv" /\ Given("rcv"))

\* The receiver has left Sync first.
GmAhead ==
    /\ pc["tr"] = "inSync" /\ left["rcv"] = left["tr"] /\ GmAwaits
    /\ NoMessage("tr") /\ IF Given("tr") THEN OneMessage("rcv", "sync") ELSE NoMessage("rcv")

\* The receiver is still in Sync, with more messages behind the transmitter's "Syncme".
GmMeeting == pc["rcv"] = "inSync" /\ calls["rcv"] = calls["tr"] /\ (left["rcv"] > 0 => arg["rcv"][1] > 0)

GmLooping ==
    \/ /\ pc["tr"] \in {"send", "free"} /\ left["tr"] = left["rcv"] /\ NoMessage("rcv")
       /\ pc["tr"] = "send" <=> left["tr"] > 0
       /\ \/ GmMeeting /\ IF Given("rcv") THEN OneMessage("tr", "sync") ELSE NoMessage("tr")
          \/ GmAwaits /\ NoMessage("tr")
    \/ /\ pc["tr"] = "recv" \/ (pc["tr"] = "inRecv" /\ Given("tr"))
       /\ left["tr"] = left["rcv"] /\ left["tr"] > 0 /\ NoMessage("rcv")
       /\ \/ GmMeeting /\ Given("rcv") /\ Len(sends["tr"]) = 2 /\ sends["tr"][1].buf = "sync" /\ sends["tr"][2].buf = "s_buff"
          \/ GmMeeting /\ ~Given("rcv") /\ OneMessage("tr", "s_buff")
          \/ GmAwaits /\ OneMessage("tr", "s_buff")
          \/ /\ pc["rcv"] = "send" \/ (pc["rcv"] = "inRecv" /\ ~Given("rcv"))
             /\ calls["rcv"] = calls["tr"] /\ arg["rcv"][1] > 0 /\ NoMessage("tr")
    \/ /\ pc["tr"] \in {"recv", "inRecv"} /\ left["tr"] = left["rcv"] + 1
       /\ GmAwaits /\ NoMessage("tr")
       /\ IF pc["tr"] = "inRecv" /\ ~Given("tr") THEN NoMessage("rcv") ELSE OneMessage("rcv", "s_buff")

GmInv ==
    /\ GmTypes /\ GmScripted /\ \A p \in GM!Proc : GmLocal(p)
    /\ GmAsking \/ GmAhead \/ GmLooping

\* When Init has made receivers of both, each waits for a greeting.
GmDeaf ==
    /\ pc \in [GM!Proc -> {"await", "hello"}] /\ k \in [GM!Proc -> 1..2] /\ left \in [GM!Proc -> Nat]
    /\ sends = [p \in GM!Proc |-> <<>>] /\ events = [p \in GM!Proc |-> <<>>]
    /\ \A p \in GM!Proc : IF pc[p] = "await" THEN given[p] = <<>> ELSE Len(given[p]) = 1 /\ need[p] = 20
    /\ given \in [GM!Proc -> Seq(GmProvided)] /\ need \in [GM!Proc -> Int]

GmAlways == GmInv \/ GmDeaf

-----------------------------------------------------------------------------
(* GM: every step keeps the invariant *)

\* What a send and a delivery do to a queue.
LEMMA QueueMore ==
    ASSUME NEW S, NEW s \in Seq(S), NEW e \in S
    PROVE  /\ Append(s, e) \in Seq(S) /\ Len(Append(s, e)) = Len(s) + 1 /\ Len(s) \in Nat
           /\ \A x \in 1..Len(s) : Append(s, e)[x] = s[x]
           /\ Append(s, e)[Len(s) + 1] = e
  OBVIOUS

LEMMA QueueLess ==
    ASSUME NEW S, NEW s \in Seq(S), s # <<>>
    PROVE  /\ Len(s) \in Nat \ {0} /\ Head(s) = s[1] /\ Head(s) \in S
           /\ Tail(s) \in Seq(S) /\ Len(Tail(s)) = Len(s) - 1
           /\ \A x \in 1..(Len(s) - 1) : Tail(s)[x] = s[x + 1]
  OBVIOUS

LEMMA QueueEmpty ==
    ASSUME NEW S, NEW s \in Seq(S)
    PROVE  Len(s) \in Nat /\ (Len(s) = 0 <=> s = <<>>)
  OBVIOUS

LEMMA GmTyped ==
    ASSUME GmTypes
    PROVE  /\ pc \in [GM!Proc -> GM!Labels] /\ k \in [GM!Proc -> 1..2]
           /\ arg \in [GM!Proc -> [1..2 -> Nat]] /\ left \in [GM!Proc -> Nat]
           /\ req \in [1..2 -> Nat]
           /\ calls \in [GM!Proc -> Nat] /\ lrpt \in [GM!Proc -> Nat] /\ need \in [GM!Proc -> Int]
           /\ sends \in [GM!Proc -> Seq(GmMessage)] /\ given \in [GM!Proc -> Seq(GmProvided)]
           /\ events \in [GM!Proc -> Seq(Nat)]
  BY DEF GmTypes

LEMMA GmStarts == GM!Init => GmAlways
<1> SUFFICES ASSUME GM!Init, ~GmDeaf PROVE GmInv
  BY DEF GmAlways
<1> USE DEF GM!Init, GM!Proc, GM!All
<1>0. pc = [p \in GM!Proc |-> IF p = "tr" THEN "greet" ELSE "await"]
  <2>1. ASSUME pc = [p \in GM!Proc |-> "await"]  PROVE FALSE
    BY <2>1 DEF GmDeaf
  <2>2. PICK order \in Orders :
            pc = [p \in GM!Proc |-> IF p = "tr" /\ order = "initFirst" THEN "greet" ELSE "await"]
    BY DEF GM!Init
  <2> QED  BY <2>1, <2>2
<1>1. GmTypes
  <2>1. <<0, 0>> \in [1..2 -> Nat]
    OBVIOUS
  <2> QED  BY <1>0, <2>1 DEF GmTypes, GM!Labels
<1>2. GmScripted
  BY <1>0 DEF GmScripted
<1>3. \A p \in GM!Proc : GmLocal(p)
  BY DEF GmLocal, Given
<1>4. GmTaken = 0 - 1 /\ GmSent = 0 - 1 /\ Behind /\ Len(sends["tr"]) = 0 /\ Len(sends["rcv"]) = 0
  BY <1>0 DEF GmTaken, GmSent, Behind
<1>5. GmStream /\ GmHeard
  BY <1>0, <1>4 DEF GmStream, GmHeard
<1>6. GmAsking
  BY <1>0, <1>4, <1>5 DEF GmAsking, NoMessage
<1> QED  BY <1>1, <1>2, <1>3, <1>6 DEF GmInv

\* A process that is not in readFully, or whose readFully is done, has provided nothing.
LEMMA GmIdle ==
    ASSUME GmInv, NEW p \in GM!Proc, pc[p] \notin GmIn \/ need[p] <= 0
    PROVE  given[p] = <<>> /\ events[p] = <<>> /\ ~Given(p)
<1>1. GmLocal(p) /\ GmTypes /\ need[p] \in Int
  BY GmTyped DEF GmInv
<1>2. pc[p] \in GmIn => GmOctets(p) \in Int /\ GmOctets(p) > 0
  BY <1>1, GmTyped DEF GmLocal, GmOctets, GmIn
<1> QED  BY <1>1, <1>2 DEF GmLocal, Given

\* The stream grows by the next message of the transmitter.
LEMMA GmGrows ==
    ASSUME GmTypes, GmStream, NEW m \in GmMessage, sends'["tr"] = Append(sends["tr"], m),
           GmTaken' = GmTaken, GmSent' = GmSent + 1, GmTaken \in Int, GmSent \in Int,
           m.buf = GmKind(GmSent + 1), pc'["rcv"] = pc["rcv"]
    PROVE  GmStream'
<1> DEFINE s == sends["tr"]
<1>1. s \in Seq(GmMessage)
  BY GmTyped DEF GM!Proc
<1>2. /\ Len(s') = Len(s) + 1 /\ Len(s) \in Nat /\ s'[Len(s) + 1] = m
      /\ \A x \in 1..Len(s) : s'[x] = s[x]
  BY <1>1, QueueMore
<1>3. GmTaken' <= GmSent' /\ Len(s') = GmSent' - GmTaken'
  BY <1>2 DEF GmStream
<1>4. ASSUME NEW x \in 1..Len(s')  PROVE s'[x].buf = GmKind(GmTaken + x)'
  <2>1. GmKind(GmTaken + x)' = GmKind(GmTaken + x)
    BY DEF GmKind
  <2>2. CASE x \in 1..Len(s)
    BY <1>2, <2>1, <2>2 DEF GmStream
  <2>3. CASE x = Len(s) + 1
    <3>1. GmTaken + x = GmSent + 1
      BY <1>2, <2>3 DEF GmStream
    <3> QED  BY <1>2, <2>1, <2>3, <3>1
  <2> QED  BY <1>2, <2>2, <2>3
<1> QED  BY <1>3, <1>4 DEF GmStream

\* The stream is unchanged.
LEMMA GmStays ==
    ASSUME GmStream, sends'["tr"] = sends["tr"], GmTaken' = GmTaken, GmSent' = GmSent,
           (pc'["rcv"] \in {"await", "hello"} <=> pc["rcv"] \in {"await", "hello"}) \/ GmTaken = 0,
           GmTaken \in Int, Len(sends["tr"]) \in Nat
    PROVE  GmStream'
<1>1. \A x \in 1..Len(sends["tr"]) : GmKind(GmTaken + x)' = GmKind(GmTaken + x)
  BY DEF GmKind
<1> QED  BY <1>1 DEF GmStream

LEMMA GmCounts ==
    ASSUME GmTypes
    PROVE  GmTaken \in Int /\ GmSent \in Int /\ Len(sends["tr"]) \in Nat /\ Len(sends["rcv"]) \in Nat
<1>1. k["tr"] \in 1..2 /\ k["rcv"] \in 1..2 /\ sends["tr"] \in Seq(GmMessage) /\ sends["rcv"] \in Seq(GmMessage)
  BY GmTyped DEF GM!Proc
<1> QED  BY <1>1, QueueEmpty DEF GmTaken, GmSent

LEMMA GmLocalStays ==
    ASSUME NEW p \in GM!Proc, GmLocal(p), pc'[p] = pc[p], k'[p] = k[p], arg'[p] = arg[p],
           given'[p] = given[p], events'[p] = events[p], need'[p] = need[p]
    PROVE  GmLocal(p)'
  BY DEF GmLocal, Given, GmOctets, GmBuffer

LEMMA GmLocalOut ==
    ASSUME NEW p \in GM!Proc, given'[p] = <<>>, events'[p] = <<>>, pc'[p] # "inRecv",
           k'[p] = 2 => pc'[p] \in {"repeat", "inRepeat"}
    PROVE  GmLocal(p)'
  BY DEF GmLocal, Given

\* The greeting.
LEMMA GmEstablish ==
    ASSUME GmInv, NEW p \in GM!Proc, GM!establish(p)
    PROVE  GmInv'
<1> USE DEF GM!Proc
<1>0. GmTypes
  BY DEF GmInv
<1>1. UNCHANGED <<k, arg, req, left, calls, lrpt, events>>
  BY DEF GM!establish
<1>2. pc[p] \in {"greet", "await", "hello"}
  BY DEF GM!establish, GM!Goto
<1>3. GmAsking /\ pc["tr"] \notin {"await", "hello"} /\ pc["rcv"] # "greet"
  BY <1>2 DEF GmInv, GmAhead, GmLooping, GmMeeting, GmAwaits, GmThrough, GmAsking
<1>4. GmTaken \in Int /\ GmSent \in Int /\ Len(sends["tr"]) \in Nat /\ k["rcv"] \in 1..2 /\ k["tr"] \in 1..2
  BY <1>0, GmCounts, GmTyped
<1>5. CASE p = "tr"
  <2> DEFINE m == [buf |-> "hello", size |-> 7, len |-> 20]
  <2>1. /\ pc["tr"] = "greet" /\ pc' = [pc EXCEPT !["tr"] = "idle"]
        /\ sends' = [sends EXCEPT !["tr"] = Append(@, m)] /\ UNCHANGED <<given, need>>
    BY <1>3, <1>5 DEF GM!establish, GM!Goto, GM!Send, GM!HelloLen
  <2>2. m \in GmMessage
    BY DEF GmMessage, GmClass
  <2>3. /\ pc'["tr"] = "idle" /\ pc'["rcv"] = pc["rcv"] /\ sends'["rcv"] = sends["rcv"]
        /\ sends'["tr"] = Append(sends["tr"], m) /\ sends["tr"] \in Seq(GmMessage)
    BY <1>0, <2>1, GmTyped
  <2>4. GmTypes'
    <3>1. pc' \in [GM!Proc -> GM!Labels]
      BY <1>0, <2>1, GmTyped DEF GM!Labels
    <3>2. Append(sends["tr"], m) \in Seq(GmMessage)
      BY <2>2, <2>3, QueueMore
    <3>3. sends' \in [GM!Proc -> Seq(GmMessage)]
      BY <1>0, <2>1, <3>2, GmTyped
    <3> QED  BY <1>0, <1>1, <2>1, <3>1, <3>3 DEF GmTypes
  <2>5. GmSent = 0 - 1 /\ GmSent' = 0 /\ pc["rcv"] \in {"await", "hello"} /\ Behind /\ Behind'
    BY <1>3, <2>1, <2>3 DEF GmSent, GmAsking, Behind
  <2>6. GmTaken' = GmTaken /\ GmTaken \in {0 - 1, 0}
    BY <2>1, <2>3, <2>5 DEF GmTaken, Given
  <2>7. GmStream'
    <3>1. m.buf = GmKind(GmSent + 1) /\ GmSent' = GmSent + 1
      BY <2>5 DEF GmKind
    <3> QED  BY <1>0, <1>3, <1>4, <2>2, <2>3, <2>6, <3>1, GmGrows DEF GmAsking
  <2>8. GmHeard'
    BY <1>1, <1>3, <2>3, <2>5, <2>6 DEF GmHeard, GmAsking, Told
  <2>9. GmScripted'
    BY <2>3 DEF GmScripted
  <2>10. GmLocal("tr")' /\ GmLocal("rcv")'
    <3>1. given["tr"] = <<>> /\ events["tr"] = <<>>
      BY <2>1, GmIdle DEF GmIn
    <3>2. k["tr"] = 1
      BY <1>4, <2>1 DEF GmInv, GmLocal
    <3> QED  BY <1>1, <2>1, <2>3, <3>1, <3>2, GmLocalOut, GmLocalStays DEF GmInv
  <2>11. GmAsking'
    BY <1>1, <1>3, <2>1, <2>3, <2>5, <2>7, <2>8 DEF GmAsking, OneMessage, NoMessage
  <2> QED  BY <2>4, <2>9, <2>10, <2>11 DEF GmInv
<1>6. CASE p = "rcv" /\ pc["rcv"] = "await"
  <2> DEFINE g == [buf |-> "hello", size |-> 7]
  <2>1. /\ pc' = [pc EXCEPT !["rcv"] = "hello"] /\ sends' = sends
        /\ given' = [given EXCEPT !["rcv"] = Append(@, g)] /\ need' = [need EXCEPT !["rcv"] = 20]
    BY <1>6 DEF GM!establish, GM!Goto, GM!Provide, GM!HelloLen
  <2>2. given["rcv"] = <<>> /\ events["rcv"] = <<>> /\ k["rcv"] = 1
    BY <1>4, <1>6, GmIdle DEF GmIn, GmInv, GmLocal
  <2>3. g \in GmProvided /\ given["rcv"] \in Seq(GmProvided)
    BY <1>0, GmTyped DEF GmProvided, GmClass
  <2>4. /\ pc'["tr"] = pc["tr"] /\ pc'["rcv"] = "hello" /\ given'["tr"] = given["tr"]
        /\ given'["rcv"] = Append(given["rcv"], g) /\ need'["tr"] = need["tr"] /\ need'["rcv"] = 20
    BY <1>0, <2>1, GmTyped
  <2>5. given'["rcv"] \in Seq(GmProvided) /\ Len(given'["rcv"]) = 1 /\ given'["rcv"][1] = g
    BY <2>2, <2>3, <2>4, QueueMore
  <2>6. GmTypes'
    <3>1. pc' \in [GM!Proc -> GM!Labels]
      BY <1>0, <2>1, GmTyped DEF GM!Labels
    <3>2. given' \in [GM!Proc -> Seq(GmProvided)]
      BY <1>0, <2>1, <2>4, <2>5, GmTyped
    <3>3. need' \in [GM!Proc -> Int]
      BY <1>0, <2>1, GmTyped
    <3> QED  BY <1>0, <1>1, <2>1, <3>1, <3>2, <3>3 DEF GmTypes
  <2>7. Given("rcv")' /\ Given("tr")' = Given("tr")
    BY <2>4, <2>5 DEF Given
  <2>8. Behind /\ Behind' /\ GmTaken' = GmTaken /\ GmSent' = GmSent
    BY <1>1, <1>6, <2>4, <2>7 DEF Behind, GmTaken, GmSent
  <2>9. GmStream'
    BY <1>3, <1>4, <1>6, <2>1, <2>4, <2>8, GmStays DEF GmAsking
  <2>10. GmHeard'
    BY <1>1, <1>6, <2>2, <2>4, <2>8 DEF GmHeard, GmAsking, Told
  <2>11. GmScripted'
    BY <1>1, <2>4 DEF GmScripted, GmInv
  <2>12. GmLocal("tr")' /\ GmLocal("rcv")'
    <3>1. GmBuffer("rcv")' = "hello" /\ GmOctets("rcv")' = 20
      BY <2>4 DEF GmBuffer, GmOctets
    <3>2. GmLocal("rcv")'
      <4>1. pc'["rcv"] \in GmIn /\ events'["rcv"] = <<>> /\ k'["rcv"] = 1
        BY <1>1, <2>2, <2>4 DEF GmIn
      <4>2. given'["rcv"][1].buf = "hello"
        BY <2>5
      <4> QED  BY <2>4, <2>5, <3>1, <4>1, <4>2 DEF GmLocal, Given
    <3> QED  BY <1>1, <2>4, <3>2, GmLocalStays DEF GmInv
  <2>13. GmAsking'
    BY <1>1, <1>3, <1>6, <2>1, <2>4, <2>7, <2>8, <2>9, <2>10 DEF GmAsking, OneMessage, NoMessage
  <2> QED  BY <2>6, <2>11, <2>12, <2>13 DEF GmInv
<1>7. CASE p = "rcv" /\ pc["rcv"] = "hello"
  <2>1. /\ pc' = [pc EXCEPT !["rcv"] = "repeat"] /\ need["rcv"] <= 0 /\ UNCHANGED <<sends, given, need>>
    BY <1>7 DEF GM!establish, GM!Goto
  <2>2. given["rcv"] = <<>> /\ events["rcv"] = <<>> /\ ~Given("rcv") /\ k["rcv"] = 1
    BY <1>4, <1>7, <2>1, GmIdle DEF GmInv, GmLocal
  <2>3. pc'["tr"] = pc["tr"] /\ pc'["rcv"] = "repeat" /\ pc' \in [GM!Proc -> GM!Labels]
    BY <1>0, <2>1, GmTyped DEF GM!Labels
  <2>4. GmTypes'
    BY <1>0, <1>1, <2>1, <2>3 DEF GmTypes
  <2>5. Given("rcv")' = Given("rcv") /\ Given("tr")' = Given("tr")
    BY <2>1 DEF Given
  <2>12. calls["rcv"] = calls["tr"] /\ calls["tr"] \in Nat
    <3>1. calls["tr"] \in Nat
      BY <1>0, GmTyped
    <3> QED  BY <1>3, <1>7, <3>1 DEF GmAsking
  <2>6. ~Behind' /\ Behind /\ GmTaken = 0 /\ GmTaken' = 0 /\ GmSent' = GmSent
    BY <1>1, <1>7, <2>2, <2>3, <2>5, <2>12 DEF Behind, GmTaken, GmSent
  <2>7. GmStream'
    BY <1>3, <1>4, <2>1, <2>6, GmStays DEF GmAsking
  <2>8. GmHeard'
    BY <1>1, <2>2, <2>3, <2>6 DEF GmHeard
  <2>9. GmScripted'
    BY <1>1, <2>3 DEF GmScripted, GmInv
  <2>10. GmLocal("tr")' /\ GmLocal("rcv")'
    BY <1>1, <2>1, <2>2, <2>3, GmLocalOut, GmLocalStays DEF GmInv
  <2>13. pc["tr"] # "greet"
    BY <1>3, <2>6 DEF GmAsking, GmStream, GmSent
  <2>11. GmAsking'
    BY <1>1, <1>3, <1>7, <2>13, <2>1, <2>3, <2>5, <2>6, <2>7, <2>8, <2>12 DEF GmAsking, OneMessage, NoMessage
  <2> QED  BY <2>4, <2>9, <2>10, <2>11 DEF GmInv
<1> QED  BY <1>2, <1>3, <1>5, <1>6, <1>7

LEMMA GmCall ==
    ASSUME MessagesHaveOctets, GmInv, NEW p \in GM!Proc, GM!Call(p)
    PROVE  GmInv'
<1> USE DEF GM!Proc
<1>0. GmTypes
  BY DEF GmInv
<1>1. /\ p = "tr" /\ pc["tr"] = "idle" /\ pc' = [pc EXCEPT !["tr"] = "repeat"]
      /\ k' = [k EXCEPT !["tr"] = 1] /\ UNCHANGED <<left, calls, lrpt, sends, given, events, need>>
  BY DEF GM!Call, GM!Goto
<1>2. PICK r \in Requests["gm"] : req' = r /\ arg' = [arg EXCEPT !["tr"] = r]
  BY <1>1 DEF GM!Call
<1>3. r \in [1..2 -> Nat] /\ r[1] > 0
  BY BoundsAssumption DEF MessagesHaveOctets
<1>4. GmAsking
  BY <1>1 DEF GmInv, GmAhead, GmLooping
<1>5. GmTaken \in Int /\ GmSent = 0 /\ Len(sends["tr"]) \in Nat /\ k["rcv"] \in 1..2
  BY <1>0, <1>1, GmCounts, GmTyped DEF GmSent
<1>6. /\ pc'["tr"] = "repeat" /\ pc'["rcv"] = pc["rcv"] /\ k'["tr"] = 1 /\ k'["rcv"] = k["rcv"]
      /\ arg'["tr"] = r /\ arg'["rcv"] = arg["rcv"]
  BY <1>0, <1>1, <1>2, GmTyped
<1>7. GmTypes'
  <2>1. pc' \in [GM!Proc -> GM!Labels]
    BY <1>0, <1>1, GmTyped DEF GM!Labels
  <2>2. k' \in [GM!Proc -> 1..2]
    BY <1>0, <1>1, GmTyped
  <2>3. arg' \in [GM!Proc -> [1..2 -> Nat]]
    BY <1>0, <1>2, <1>3, GmTyped
  <2> QED  BY <1>0, <1>1, <1>2, <1>3, <2>1, <2>2, <2>3 DEF GmTypes
<1>8. GmScripted'
  BY <1>2, <1>3, <1>6 DEF GmScripted
<1>9. GmSent' = 0 /\ GmTaken' = GmTaken /\ Behind' = Behind /\ GmTaken <= 0
  BY <1>1, <1>4, <1>5, <1>6 DEF GmSent, GmTaken, Behind, Given, GmAsking, GmStream
<1>10. GmStream'
  BY <1>1, <1>4, <1>5, <1>6, <1>9, GmStays DEF GmAsking
<1>11. k["rcv"] = 1 /\ (Behind \/ pc["rcv"] \in {"repeat", "inRepeat"})
  <2>1. k["rcv"] = 2 => pc["rcv"] \in {"repeat", "inRepeat"}
    BY DEF GmInv, GmLocal
  <2>2. k["rcv"] = 2 => ~Behind
    BY <1>4, <2>1 DEF Behind, GmAsking
  <2> QED  BY <1>4, <1>5, <1>9, <2>1, <2>2 DEF GmTaken, GmAsking
<1>12. GmHeard'
  BY <1>5, <1>6, <1>9, <1>11 DEF GmHeard
<1>13. GmLocal("tr")' /\ GmLocal("rcv")'
  <2>1. given["tr"] = <<>> /\ events["tr"] = <<>>
    BY <1>1, GmIdle DEF GmIn
  <2> QED  BY <1>1, <1>6, <2>1, GmLocalOut, GmLocalStays DEF GmInv
<1>14. GmAsking'
  BY <1>1, <1>4, <1>6, <1>9, <1>10, <1>12 DEF GmAsking, OneMessage, NoMessage
<1> QED  BY <1>7, <1>8, <1>13, <1>14 DEF GmInv

LEMMA GmClasses == \A len \in Nat : GM!gm_min_size_for_length(len) \in GmClass
  BY DEF GmClass

LEMMA GmSendRepeat ==
    ASSUME GmInv, NEW p \in GM!Proc, GM!SendRepeat(p)
    PROVE  GmInv'
<1> USE DEF GM!Proc
<1> DEFINE m == [buf |-> "lrpt", size |-> GM!gm_min_size_for_length(8), len |-> 8]
<1>0. GmTypes
  BY DEF GmInv
<1>1. /\ p = "tr" /\ pc["tr"] = "repeat" /\ pc' = [pc EXCEPT !["tr"] = IF k["tr"] = 1 THEN "repeat" ELSE "malloc"]
      /\ k' = [k EXCEPT !["tr"] = 3 - k["tr"]] /\ lrpt' = [lrpt EXCEPT !["tr"] = arg["tr"][k["tr"]]]
      /\ sends' = [sends EXCEPT !["tr"] = Append(@, m)]
      /\ UNCHANGED <<arg, req, left, calls, given, events, need>>
  BY DEF GM!SendRepeat, GM!Send, GM!RepeatLen
<1>2. GmAsking
  BY <1>1 DEF GmInv, GmAhead, GmLooping
<1>3. /\ GmTaken \in Int /\ GmSent \in Int /\ Len(sends["tr"]) \in Nat /\ k["tr"] \in 1..2
      /\ arg["tr"] \in [1..2 -> Nat]
  BY <1>0, GmCounts, GmTyped
<1>4. m \in GmMessage
  BY GmClasses DEF GmMessage
<1>5. /\ pc'["tr"] = (IF k["tr"] = 1 THEN "repeat" ELSE "malloc") /\ pc'["rcv"] = pc["rcv"]
      /\ k'["tr"] = 3 - k["tr"] /\ k'["rcv"] = k["rcv"]
      /\ lrpt'["tr"] = arg["tr"][k["tr"]] /\ lrpt'["rcv"] = lrpt["rcv"]
      /\ sends'["tr"] = Append(sends["tr"], m) /\ sends'["rcv"] = sends["rcv"]
  BY <1>0, <1>1, GmTyped
<1>6. GmTypes'
  <2>1. pc' \in [GM!Proc -> GM!Labels]
    BY <1>0, <1>1, GmTyped DEF GM!Labels
  <2>2. k' \in [GM!Proc -> 1..2]
    <3>1. 3 - k["tr"] \in 1..2
      BY <1>3
    <3> QED  BY <1>0, <1>1, <3>1, GmTyped
  <2>3. lrpt' \in [GM!Proc -> Nat]
    BY <1>0, <1>1, <1>3, GmTyped
  <2>4. sends' \in [GM!Proc -> Seq(GmMessage)]
    <3>1. sends \in [GM!Proc -> Seq(GmMessage)]
      BY <1>0, GmTyped
    <3>2. Append(sends["tr"], m) \in Seq(GmMessage)
      BY <1>4, <3>1, QueueMore
    <3> QED  BY <1>1, <3>1, <3>2
  <2> QED  BY <1>0, <1>1, <2>1, <2>2, <2>3, <2>4 DEF GmTypes
<1>7. GmScripted'
  BY <1>1, <1>3, <1>5 DEF GmScripted, GmInv
<1>8. GmSent' = GmSent + 1 /\ GmTaken' = GmTaken /\ Behind' = Behind /\ GmSent \in {0, 1}
  BY <1>1, <1>3, <1>5 DEF GmSent, GmTaken, Behind, Given
<1>9. GmStream'
  <2>1. m.buf = GmKind(GmSent + 1)
    BY <1>8 DEF GmKind
  <2> QED  BY <1>0, <1>2, <1>3, <1>4, <1>5, <1>8, <2>1, GmGrows DEF GmAsking
<1>10. GmHeard'
  BY <1>1, <1>2, <1>5, <1>8 DEF GmHeard, GmAsking, Told
<1>11. GmLocal("tr")' /\ GmLocal("rcv")'
  <2>1. given["tr"] = <<>> /\ events["tr"] = <<>>
    BY <1>1, GmIdle DEF GmIn
  <2>2. k'["tr"] = 2 => pc'["tr"] = "repeat"
    BY <1>3, <1>5
  <2> QED  BY <1>1, <1>5, <2>1, <2>2, GmLocalOut, GmLocalStays DEF GmInv
<1>12. GmAsking'
  BY <1>1, <1>2, <1>5, <1>8, <1>9, <1>10 DEF GmAsking, OneMessage, NoMessage, Given
<1> QED  BY <1>6, <1>7, <1>11, <1>12 DEF GmInv

\* A buffer is provided for the next message.
LEMMA GmProvides ==
    ASSUME GmTypes, NEW p \in GM!Proc, given[p] = <<>>, NEW g \in GmProvided,
           given' = [given EXCEPT ![p] = Append(@, g)]
    PROVE  /\ given' \in [GM!Proc -> Seq(GmProvided)] /\ Given(p)'
           /\ Len(given'[p]) = 1 /\ given'[p][1] = g
           /\ \A q \in GM!Proc : q # p => given'[q] = given[q] /\ Given(q)' = Given(q)
<1>1. given \in [GM!Proc -> Seq(GmProvided)] /\ given[p] \in Seq(GmProvided)
  BY GmTyped
<1>2. Append(given[p], g) \in Seq(GmProvided) /\ Len(Append(given[p], g)) = 1 /\ Append(given[p], g)[1] = g
  BY <1>1, QueueMore
<1>3. given' \in [GM!Proc -> Seq(GmProvided)] /\ given'[p] = Append(given[p], g)
  BY <1>1, <1>2
<1>4. \A q \in GM!Proc : q # p => given'[q] = given[q]
  BY <1>1
<1>5. given'[p] # <<>>
  BY <1>2, <1>3
<1> QED  BY <1>2, <1>3, <1>4, <1>5 DEF Given

LEMMA GmRecvRepeat ==
    ASSUME GmInv, NEW p \in GM!Proc, GM!RecvRepeat(p)
    PROVE  GmInv'
<1> USE DEF GM!Proc
<1>0. GmTypes
  BY DEF GmInv
<1>1. p = "rcv"
  BY DEF GM!RecvRepeat, GM!Goto, GmInv, GmAsking, GmAhead, GmLooping
<1>2. /\ GmTaken \in Int /\ GmSent \in Int /\ Len(sends["tr"]) \in Nat /\ k["rcv"] \in 1..2
      /\ arg \in [GM!Proc -> [1..2 -> Nat]] /\ lrpt["rcv"] \in Nat /\ calls["tr"] \in Nat /\ calls["rcv"] \in Nat
  BY <1>0, GmCounts, GmTyped
<1>3. CASE pc["rcv"] = "repeat"
  <2> DEFINE g == [buf |-> "lrpt", size |-> GM!gm_min_size_for_length(8)]
  <2>1. /\ pc' = [pc EXCEPT !["rcv"] = "inRepeat"] /\ need' = [need EXCEPT !["rcv"] = 8]
        /\ given' = [given EXCEPT !["rcv"] = Append(@, g)]
        /\ UNCHANGED <<k, arg, req, left, calls, lrpt, sends, events>>
    BY <1>1, <1>3 DEF GM!RecvRepeat, GM!Goto, GM!Provide, GM!RepeatLen
  <2>2. given["rcv"] = <<>> /\ events["rcv"] = <<>> /\ ~Given("rcv")
    BY <1>3, GmIdle DEF GmIn
  <2>3. g \in GmProvided
    BY GmClasses DEF GmProvided
  <2>4. /\ given' \in [GM!Proc -> Seq(GmProvided)] /\ Given("rcv")' /\ Len(given'["rcv"]) = 1
        /\ given'["rcv"][1] = g /\ given'["tr"] = given["tr"] /\ Given("tr")' = Given("tr")
    BY <1>0, <2>1, <2>2, <2>3, GmProvides
  <2>5. /\ pc'["rcv"] = "inRepeat" /\ pc'["tr"] = pc["tr"] /\ need'["rcv"] = 8 /\ need'["tr"] = need["tr"]
    BY <1>0, <2>1, GmTyped
  <2>6. GmTypes'
    <3>1. pc' \in [GM!Proc -> GM!Labels]
      BY <1>0, <2>1, GmTyped DEF GM!Labels
    <3>2. need' \in [GM!Proc -> Int]
      BY <1>0, <2>1, GmTyped
    <3> QED  BY <1>0, <2>1, <2>4, <3>1, <3>2 DEF GmTypes
  <2>7. GmScripted'
    BY <2>1, <2>5 DEF GmScripted, GmInv
  <2>8. GmLocal("tr")' /\ GmLocal("rcv")'
    <3>1. GmBuffer("rcv")' = "lrpt" /\ GmOctets("rcv")' = 8 /\ given'["rcv"][1].buf = "lrpt"
      BY <2>4, <2>5 DEF GmBuffer, GmOctets
    <3>2. GmLocal("rcv")'
      BY <2>1, <2>2, <2>4, <2>5, <3>1 DEF GmLocal, GmIn
    <3> QED  BY <2>1, <2>4, <2>5, <3>2, GmLocalStays DEF GmInv
  <2>9. CASE GmAsking
    <3>1. ~Behind /\ ~Behind'
      BY <1>3, <2>1, <2>5, <2>9 DEF Behind, GmAsking
    <3>2. GmTaken = k["rcv"] - 1 /\ GmTaken' = k["rcv"] - 1 /\ GmSent' = GmSent
      BY <1>3, <2>1, <2>4, <2>5, <3>1 DEF GmTaken, GmSent
    <3>3. GmStream'
      BY <1>2, <1>3, <2>1, <2>5, <2>9, <3>2, GmStays DEF GmAsking
    <3>4. GmHeard'
      BY <1>2, <1>3, <2>1, <2>5, <2>9, <3>1, <3>2 DEF GmHeard, GmAsking, Told
    <3>5. GmAsking'
      BY <1>2, <1>3, <2>1, <2>4, <2>5, <2>9, <3>1, <3>3, <3>4 DEF GmAsking, OneMessage, NoMessage
    <3> QED  BY <2>6, <2>7, <2>8, <3>5 DEF GmInv
  <2>10. CASE GmAhead \/ GmLooping
    <3>1. GmThrough => GmThrough'
      BY <1>3, <2>1, <2>4, <2>5 DEF GmThrough
    <3>2. GmAwaits => GmAwaits'
      BY <1>3, <2>1, <3>1 DEF GmAwaits
    <3>3. GmAhead => GmAhead'
      BY <2>1, <2>4, <2>5, <3>2 DEF GmAhead, NoMessage, OneMessage
    <3>4. GmLooping => GmLooping'
      BY <1>3, <2>1, <2>4, <2>5, <3>2 DEF GmLooping, GmMeeting, NoMessage, OneMessage
    <3> QED  BY <2>6, <2>7, <2>8, <2>10, <3>3, <3>4 DEF GmInv
  <2> QED  BY <2>9, <2>10 DEF GmInv
<1>4. CASE pc["rcv"] = "inRepeat"
  <2>1. /\ pc' = [pc EXCEPT !["rcv"] = IF k["rcv"] = 1 THEN "repeat" ELSE "malloc"] /\ need["rcv"] <= 0
        /\ arg' = [arg EXCEPT !["rcv"][k["rcv"]] = lrpt["rcv"]]
        /\ k' = [k EXCEPT !["rcv"] = 3 - k["rcv"]]
        /\ UNCHANGED <<req, left, calls, lrpt, sends, given, events, need>>
    BY <1>1, <1>4 DEF GM!RecvRepeat, GM!Goto
  <2>2. given["rcv"] = <<>> /\ events["rcv"] = <<>> /\ ~Given("rcv")
    BY <2>1, GmIdle
  <2>3. GmAsking /\ ~Behind
    BY <1>4, <2>2 DEF GmInv, GmAhead, GmLooping, GmMeeting, GmAwaits, GmThrough, GmAsking, Behind
  <2>4. /\ pc'["rcv"] = (IF k["rcv"] = 1 THEN "repeat" ELSE "malloc") /\ pc'["tr"] = pc["tr"]
        /\ k'["rcv"] = 3 - k["rcv"] /\ k'["tr"] = k["tr"]
    BY <1>0, <2>1, GmTyped
  <2>5. arg'["tr"] = arg["tr"] /\ arg'["rcv"] = [arg["rcv"] EXCEPT ![k["rcv"]] = lrpt["rcv"]]
    BY <1>2, <2>1
  <2>6. GmTypes'
    <3>1. pc' \in [GM!Proc -> GM!Labels]
      BY <1>0, <2>1, GmTyped DEF GM!Labels
    <3>2. k' \in [GM!Proc -> 1..2]
      <4>1. 3 - k["rcv"] \in 1..2
        BY <1>2
      <4> QED  BY <1>0, <2>1, <4>1, GmTyped
    <3>3. arg' \in [GM!Proc -> [1..2 -> Nat]]
      <4>1. [arg["rcv"] EXCEPT ![k["rcv"]] = lrpt["rcv"]] \in [1..2 -> Nat]
        BY <1>2
      <4> QED  BY <1>2, <2>1, <2>5, <4>1
    <3> QED  BY <1>0, <2>1, <3>1, <3>2, <3>3 DEF GmTypes
  <2>7. GmScripted'
    BY <2>1, <2>4, <2>5 DEF GmScripted, GmInv
  <2>8. GmLocal("tr")' /\ GmLocal("rcv")'
    <3>1. k'["rcv"] = 2 => pc'["rcv"] = "repeat"
      BY <1>2, <2>4
    <3>2. GmLocal("rcv")'
      BY <2>1, <2>2, <2>4, <3>1, GmLocalOut
    <3> QED  BY <2>1, <2>4, <2>5, <3>2, GmLocalStays DEF GmInv
  <2>9. ~Behind'
    BY <2>1, <2>3, <2>4 DEF Behind
  <2>10. GmTaken = k["rcv"] /\ GmTaken' = k["rcv"] /\ GmSent' = GmSent
    BY <1>2, <1>4, <2>1, <2>2, <2>3, <2>4, <2>9 DEF GmTaken, GmSent
  <2>11. GmStream'
    <3>1. pc'["rcv"] \in {"await", "hello"} <=> pc["rcv"] \in {"await", "hello"}
      BY <1>4, <2>4
    <3> QED  BY <1>2, <2>1, <2>3, <2>10, <3>1, GmStays DEF GmAsking
  <2>12. GmHeard'
    <3>1. CASE k["rcv"] = 1
      <4>1. arg'["rcv"][1] = lrpt["rcv"]
        BY <1>2, <2>5, <3>1
      <4>2. Told(lrpt["rcv"])
        BY <1>4, <2>3, <2>10, <3>1 DEF GmAsking, GmHeard
      <4> QED  BY <2>1, <2>4, <2>9, <2>10, <3>1, <4>1, <4>2 DEF GmHeard, Told
    <3>2. CASE k["rcv"] = 2
      <4>1. arg'["rcv"][1] = arg["rcv"][1] /\ arg'["rcv"][2] = lrpt["rcv"]
        BY <1>2, <2>5, <3>2
      <4>2. Told(arg["rcv"][1]) /\ lrpt["rcv"] = req[2]
        BY <1>4, <2>3, <2>10, <3>2 DEF GmAsking, GmHeard
      <4> QED  BY <2>1, <2>4, <2>9, <2>10, <3>2, <4>1, <4>2 DEF GmHeard, Told
    <3> QED  BY <1>2, <3>1, <3>2
  <2>13. GmAsking'
    BY <1>2, <1>4, <2>1, <2>3, <2>4, <2>9, <2>11, <2>12 DEF GmAsking, OneMessage, NoMessage, Given
  <2> QED  BY <2>6, <2>7, <2>8, <2>13 DEF GmInv
<1>5. pc["rcv"] \in {"repeat", "inRepeat"}
  BY <1>1 DEF GM!RecvRepeat, GM!Goto
<1> QED  BY <1>3, <1>4, <1>5

LEMMA GmMyMalloc ==
    ASSUME GmInv, NEW p \in GM!Proc, GM!MyMalloc(p)
    PROVE  GmInv'
<1> USE DEF GM!Proc
<1>0. GmTypes
  BY DEF GmInv
<1>1. /\ pc[p] = "malloc" /\ pc' = [pc EXCEPT ![p] = "sync"] /\ left' = [left EXCEPT ![p] = arg[p][2]]
      /\ UNCHANGED <<k, arg, req, calls, lrpt, sends, given, events, need>>
  BY DEF GM!MyMalloc, GM!Goto
<1>2. GmAsking
  BY <1>1 DEF GmInv, GmAhead, GmLooping, GmMeeting, GmAwaits, GmThrough
<1>3. GmTaken \in Int /\ GmSent \in Int /\ Len(sends["tr"]) \in Nat /\ k[p] \in 1..2 /\ arg[p] \in [1..2 -> Nat]
  BY <1>0, GmCounts, GmTyped
<1>4. /\ pc'[p] = "sync" /\ left'[p] = arg[p][2]
      /\ \A q \in GM!Proc : q # p => pc'[q] = pc[q] /\ left'[q] = left[q]
  BY <1>0, <1>1, GmTyped
<1>5. GmTypes'
  <2>1. pc' \in [GM!Proc -> GM!Labels]
    BY <1>0, <1>1, GmTyped DEF GM!Labels
  <2>2. left' \in [GM!Proc -> Nat]
    <3>1. arg[p][2] \in Nat /\ left \in [GM!Proc -> Nat]
      BY <1>0, <1>3, GmTyped
    <3> QED  BY <1>1, <3>1
  <2> QED  BY <1>0, <1>1, <2>1, <2>2 DEF GmTypes
<1>6. GmLocal("tr")' /\ GmLocal("rcv")'
  <2>1. given[p] = <<>> /\ events[p] = <<>> /\ k[p] = 1
    BY <1>1, <1>3, GmIdle DEF GmIn, GmInv, GmLocal
  <2>2. GmLocal(p)'
    BY <1>1, <1>4, <2>1, GmLocalOut
  <2>3. \A q \in GM!Proc : q # p => GmLocal(q)'
    BY <1>1, <1>4, GmLocalStays DEF GmInv
  <2> QED  BY <2>2, <2>3
<1>7. GmScripted'
  <2>1. CASE p = "tr"
    BY <1>1, <1>4, <2>1 DEF GmScripted, GmInv
  <2>2. CASE p = "rcv"
    BY <1>1, <1>4, <2>2 DEF GmScripted, GmInv
  <2> QED  BY <2>1, <2>2
<1>8. GmSent' = GmSent /\ Behind' = Behind
  <2>1. CASE p = "tr"
    BY <1>1, <1>4, <2>1 DEF GmSent, Behind
  <2>2. CASE p = "rcv"
    BY <1>1, <1>4, <2>2 DEF GmSent, Behind
  <2> QED  BY <2>1, <2>2
<1>9. p = "rcv" => ~Behind
  BY <1>1, <1>2 DEF Behind, GmAsking
<1>10. GmTaken' = GmTaken
  <2>1. CASE p = "tr"
    BY <1>1, <1>4, <1>8, <2>1 DEF GmTaken, Given
  <2>2. CASE p = "rcv"
    BY <1>1, <1>4, <1>8, <1>9, <2>2 DEF GmTaken, Given
  <2> QED  BY <2>1, <2>2
<1>11. GmStream'
  <2>1. pc'["rcv"] \in {"await", "hello"} <=> pc["rcv"] \in {"await", "hello"}
    BY <1>1, <1>4
  <2> QED  BY <1>1, <1>2, <1>3, <1>8, <1>10, <2>1, GmStays DEF GmAsking
<1>12. CASE p = "tr"
  <2>1. GmHeard'
    BY <1>1, <1>2, <1>4, <1>8, <1>10, <1>12 DEF GmHeard, GmAsking, Told
  <2>2. GmAsking'
    BY <1>1, <1>2, <1>4, <1>8, <1>11, <1>12, <2>1 DEF GmAsking, OneMessage, NoMessage, Given
  <2> QED  BY <1>5, <1>6, <1>7, <2>2 DEF GmInv
<1>13. CASE p = "rcv"
  <2>1. GmHeard'
    BY <1>1, <1>2, <1>4, <1>8, <1>9, <1>10, <1>13 DEF GmHeard, GmAsking, Told
  <2>2. GmAsking'
    BY <1>1, <1>2, <1>4, <1>8, <1>9, <1>11, <1>13, <2>1 DEF GmAsking, OneMessage, NoMessage, Given
  <2> QED  BY <1>5, <1>6, <1>7, <2>2 DEF GmInv
<1> QED  BY <1>12, <1>13

\* "Syncme" is queued and a buffer provided for the peer's.
LEMMA GmSyncSend ==
    ASSUME GmInv, NEW p \in GM!Proc, GM!Sync(p), pc[p] = "sync"
    PROVE  GmInv'
<1> USE DEF GM!Proc
<1> DEFINE m == [buf |-> "sync", size |-> GM!SyncClass, len |-> 7]
<1> DEFINE g == [buf |-> "sync1", size |-> GM!SyncClass]
<1>0. GmTypes
  BY DEF GmInv
<1>1. /\ pc' = [pc EXCEPT ![p] = "inSync"] /\ need' = [need EXCEPT ![p] = 7]
      /\ sends' = [sends EXCEPT ![p] = Append(@, m)] /\ given' = [given EXCEPT ![p] = Append(@, g)]
      /\ UNCHANGED <<k, arg, req, left, calls, lrpt, events>>
  BY DEF GM!Sync, GM!Goto, GM!Send, GM!Provide, GM!SyncLen
<1>2. GmAsking
  BY DEF GmInv, GmAhead, GmLooping, GmMeeting, GmAwaits, GmThrough
<1>3. GmTaken \in Int /\ GmSent \in Int /\ Len(sends["tr"]) \in Nat /\ k[p] \in 1..2
  BY <1>0, GmCounts, GmTyped
<1>4. given[p] = <<>> /\ events[p] = <<>> /\ k[p] = 1
  BY <1>3, GmIdle DEF GmIn, GmInv, GmLocal
<1>5. m \in GmMessage /\ g \in GmProvided
  <2>1. GM!SyncClass \in GmClass
    BY GmClasses DEF GM!SyncClass, GM!SyncLen
  <2> QED  BY <2>1 DEF GmMessage, GmProvided
<1>6. /\ given' \in [GM!Proc -> Seq(GmProvided)] /\ Given(p)' /\ Len(given'[p]) = 1 /\ given'[p][1] = g
      /\ \A q \in GM!Proc : q # p => given'[q] = given[q] /\ Given(q)' = Given(q)
  BY <1>0, <1>1, <1>4, <1>5, GmProvides
<1>7. /\ pc'[p] = "inSync" /\ need'[p] = 7
      /\ \A q \in GM!Proc : q # p => pc'[q] = pc[q] /\ need'[q] = need[q] /\ sends'[q] = sends[q]
  BY <1>0, <1>1, GmTyped
<1>8. sends[p] \in Seq(GmMessage) /\ sends'[p] = Append(sends[p], m)
  BY <1>0, <1>1, GmTyped
<1>9. GmTypes'
  <2>1. pc' \in [GM!Proc -> GM!Labels]
    BY <1>0, <1>1, GmTyped DEF GM!Labels
  <2>2. need' \in [GM!Proc -> Int]
    <3>1. need \in [GM!Proc -> Int]
      BY <1>0, GmTyped
    <3> QED  BY <1>1, <3>1
  <2>3. Append(sends[p], m) \in Seq(GmMessage)
    BY <1>5, <1>8, QueueMore
  <2>4. sends' \in [GM!Proc -> Seq(GmMessage)]
    BY <1>0, <1>1, <2>3, GmTyped
  <2> QED  BY <1>0, <1>1, <1>6, <2>1, <2>2, <2>4 DEF GmTypes
<1>10. GmLocal("tr")' /\ GmLocal("rcv")'
  <2>1. GmBuffer(p)' = "sync1" /\ GmOctets(p)' = 7 /\ given'[p][1].buf = "sync1"
    BY <1>6, <1>7 DEF GmBuffer, GmOctets
  <2>2. GmLocal(p)'
    BY <1>1, <1>4, <1>6, <1>7, <2>1 DEF GmLocal, GmIn
  <2>3. \A q \in GM!Proc : q # p => GmLocal(q)'
    BY <1>1, <1>6, <1>7, GmLocalStays DEF GmInv
  <2> QED  BY <2>2, <2>3
<1>11. CASE p = "tr"
  <2>1. GmScripted'
    BY <1>1, <1>7, <1>11 DEF GmScripted, GmInv
  <2>2. GmSent = 2 /\ GmSent' = 3 /\ Behind' = Behind
    BY <1>1, <1>7, <1>11 DEF GmSent, Behind
  <2>3. GmTaken' = GmTaken
    BY <1>1, <1>6, <1>7, <1>11, <2>2 DEF GmTaken
  <2>4. GmStream'
    <3>1. m.buf = GmKind(GmSent + 1) /\ GmSent' = GmSent + 1
      BY <2>2 DEF GmKind
    <3>2. pc'["rcv"] = pc["rcv"] /\ sends'["tr"] = Append(sends["tr"], m)
      BY <1>7, <1>8, <1>11
    <3> QED  BY <1>0, <1>2, <1>3, <1>5, <2>3, <3>1, <3>2, GmGrows DEF GmAsking
  <2>5. GmHeard'
    BY <1>1, <1>2, <1>7, <1>11, <2>2, <2>3 DEF GmHeard, GmAsking, Told
  <2>6. GmAsking'
    BY <1>1, <1>2, <1>6, <1>7, <1>11, <2>2, <2>4, <2>5 DEF GmAsking, OneMessage, NoMessage
  <2> QED  BY <1>9, <1>10, <2>1, <2>6 DEF GmInv
<1>12. CASE p = "rcv"
  <2>1. GmScripted'
    BY <1>1, <1>7, <1>12 DEF GmScripted, GmInv
  <2>2. ~Behind /\ ~Behind' /\ GmSent' = GmSent
    BY <1>1, <1>2, <1>7, <1>12 DEF GmSent, Behind, GmAsking
  <2>3. GmTaken = 2 /\ GmTaken' = 2
    BY <1>6, <1>7, <1>12, <2>2 DEF GmTaken
  <2>4. GmStream'
    <3>1. pc'["rcv"] \in {"await", "hello"} <=> pc["rcv"] \in {"await", "hello"}
      BY <1>7, <1>12
    <3>2. sends'["tr"] = sends["tr"]
      BY <1>7, <1>12
    <3> QED  BY <1>2, <1>3, <2>2, <2>3, <3>1, <3>2, GmStays DEF GmAsking
  <2>5. GmHeard'
    BY <1>1, <1>2, <1>7, <1>12, <2>2, <2>3 DEF GmHeard, GmAsking, Told
  <2>6. NoMessage("rcv") /\ (pc["tr"] = "inSync" => Given("tr"))
    BY <1>2, <1>12 DEF GmAsking
  <2>7. OneMessage("rcv", "sync")'
    <3>1. Len(sends'["rcv"]) = 1 /\ sends'["rcv"][1] = m
      <4> DEFINE s == sends["rcv"]
      <4>1. s \in Seq(GmMessage) /\ Len(s) = 0 /\ sends'["rcv"] = Append(s, m)
        BY <1>8, <1>12, <2>6 DEF NoMessage
      <4>2. Len(Append(s, m)) = Len(s) + 1 /\ Append(s, m)[Len(s) + 1] = m
        BY <1>5, <4>1, QueueMore
      <4> QED  BY <4>1, <4>2
    <3> QED  BY <3>1 DEF OneMessage
  <2>8. GmAsking'
    BY <1>1, <1>2, <1>6, <1>7, <1>12, <2>2, <2>4, <2>5, <2>6, <2>7 DEF GmAsking
  <2> QED  BY <1>9, <1>10, <2>1, <2>8 DEF GmInv
<1> QED  BY <1>11, <1>12

\* A process that has provided nothing goes on.
LEMMA GmMoves ==
    ASSUME GmInv, NEW p \in GM!Proc, NEW to \in GM!Labels, to # "inRecv", pc' = [pc EXCEPT ![p] = to],
           given[p] = <<>>, events[p] = <<>>, pc[p] \notin {"repeat", "inRepeat"},
           UNCHANGED <<k, arg, given, events, need>>
    PROVE  /\ pc' \in [GM!Proc -> GM!Labels] /\ pc'[p] = to
           /\ \A q \in GM!Proc : q # p => pc'[q] = pc[q]
           /\ \A q \in GM!Proc : GmLocal(q)' /\ Given(q)' = Given(q)
           /\ k[p] = 1
<1>0. GmTypes
  BY DEF GmInv
<1>1. pc' \in [GM!Proc -> GM!Labels] /\ pc'[p] = to /\ \A q \in GM!Proc : q # p => pc'[q] = pc[q]
  BY <1>0, GmTyped
<1>2. k[p] = 1
  <2>1. k[p] \in 1..2
    BY <1>0, GmTyped
  <2> QED  BY <2>1 DEF GmInv, GmLocal
<1>3. GmLocal(p)'
  BY <1>1, <1>2, GmLocalOut
<1>4. \A q \in GM!Proc : q # p => GmLocal(q)'
  BY <1>1, GmLocalStays DEF GmInv
<1> QED  BY <1>1, <1>2, <1>3, <1>4 DEF Given

\* The transmitter leaves Sync for its loop.
LEMMA GmSyncLeaveTr ==
    ASSUME GmInv, GM!Sync("tr"), pc["tr"] = "inSync"
    PROVE  GmInv'
<1> USE DEF GM!Proc
<1>0. GmTypes
  BY DEF GmInv
<1>1. /\ pc' = [pc EXCEPT !["tr"] = IF left["tr"] = 0 THEN "free" ELSE "send"] /\ need["tr"] <= 0
      /\ UNCHANGED <<k, arg, req, left, calls, lrpt, sends, given, events, need>>
  BY DEF GM!Sync, GM!Goto, GM!LoopHead
<1>2. /\ left["tr"] \in Nat /\ left["rcv"] \in Nat /\ calls["tr"] \in Nat /\ calls["rcv"] \in Nat
      /\ arg["rcv"] \in [1..2 -> Nat] /\ req \in [1..2 -> Nat]
  BY <1>0, GmTyped
<1>3. given["tr"] = <<>> /\ events["tr"] = <<>> /\ ~Given("tr")
  BY <1>1, GmIdle
<1>4. /\ pc' \in [GM!Proc -> GM!Labels] /\ pc'["tr"] = (IF left["tr"] = 0 THEN "free" ELSE "send")
      /\ pc'["rcv"] = pc["rcv"] /\ GmLocal("tr")' /\ GmLocal("rcv")' /\ Given("rcv")' = Given("rcv")
  <2>1. (IF left["tr"] = 0 THEN "free" ELSE "send") \in GM!Labels
    BY DEF GM!Labels
  <2> QED  BY <1>1, <1>3, <2>1, GmMoves
<1>5. GmTypes'
  BY <1>0, <1>1, <1>4 DEF GmTypes
<1>6. GmScripted'
  BY <1>1, <1>4 DEF GmScripted, GmInv
<1>7. CASE GmAsking
  <2>1. pc["rcv"] = "inSync" /\ ~Behind /\ NoMessage("rcv") /\ calls["rcv"] = calls["tr"]
    BY <1>2, <1>3, <1>7 DEF GmAsking, Behind
  <2>2. left["rcv"] = left["tr"] /\ (left["rcv"] > 0 => arg["rcv"][1] > 0)
    BY <1>2, <1>7, <2>1 DEF GmInv, GmScripted, GmAsking, GmHeard, Told
  <2>3. GmSent = 3 /\ GmTaken = IF Given("rcv") THEN 2 ELSE 3
    BY <2>1 DEF GmSent, GmTaken
  <2>4. IF Given("rcv") THEN OneMessage("tr", "sync") ELSE NoMessage("tr")
    <3>1. Len(sends["tr"]) = 3 - GmTaken
      BY <1>7, <2>3 DEF GmAsking, GmStream
    <3>2. CASE Given("rcv")
      <4>1. Len(sends["tr"]) = 1 /\ sends["tr"][1].buf = GmKind(3)
        BY <1>7, <2>3, <3>1, <3>2 DEF GmAsking, GmStream
      <4> QED  BY <3>2, <4>1 DEF OneMessage, GmKind
    <3>3. CASE ~Given("rcv")
      BY <2>3, <3>1, <3>3 DEF NoMessage
    <3> QED  BY <3>2, <3>3
  <2>5. GmMeeting'
    BY <1>1, <1>4, <2>1, <2>2 DEF GmMeeting
  <2>6. GmLooping'
    BY <1>1, <1>2, <1>4, <2>1, <2>2, <2>4, <2>5 DEF GmLooping, NoMessage, OneMessage
  <2> QED  BY <1>4, <1>5, <1>6, <2>6 DEF GmInv
<1>8. CASE GmAhead
  <2>1. GmAwaits'
    BY <1>1, <1>4, <1>8 DEF GmAhead, GmAwaits, GmThrough
  <2>2. GmLooping'
    BY <1>1, <1>2, <1>3, <1>4, <1>8, <2>1 DEF GmAhead, GmLooping, NoMessage
  <2> QED  BY <1>4, <1>5, <1>6, <2>2 DEF GmInv
<1> QED  BY <1>7, <1>8 DEF GmInv, GmLooping

\* The receiver leaves Sync for its loop.
LEMMA GmSyncLeaveRcv ==
    ASSUME GmInv, GM!Sync("rcv"), pc["rcv"] = "inSync"
    PROVE  GmInv'
<1> USE DEF GM!Proc
<1>0. GmTypes
  BY DEF GmInv
<1>1. /\ pc' = [pc EXCEPT !["rcv"] = IF left["rcv"] = 0 THEN "free" ELSE "recv"] /\ need["rcv"] <= 0
      /\ UNCHANGED <<k, arg, req, left, calls, lrpt, sends, given, events, need>>
  BY DEF GM!Sync, GM!Goto, GM!LoopHead
<1>2. /\ left["tr"] \in Nat /\ left["rcv"] \in Nat /\ calls["tr"] \in Nat /\ calls["rcv"] \in Nat
      /\ arg["rcv"] \in [1..2 -> Nat] /\ req \in [1..2 -> Nat] /\ k["tr"] \in 1..2
      /\ GmTaken \in Int /\ GmSent \in Int /\ Len(sends["tr"]) \in Nat
  BY <1>0, GmTyped, GmCounts
<1>3. given["rcv"] = <<>> /\ events["rcv"] = <<>> /\ ~Given("rcv")
  BY <1>1, GmIdle
<1>4. /\ pc' \in [GM!Proc -> GM!Labels] /\ pc'["rcv"] = (IF left["rcv"] = 0 THEN "free" ELSE "recv")
      /\ pc'["tr"] = pc["tr"] /\ GmLocal("tr")' /\ GmLocal("rcv")' /\ k["rcv"] = 1
      /\ Given("tr")' = Given("tr") /\ Given("rcv")' = Given("rcv")
  <2>1. (IF left["rcv"] = 0 THEN "free" ELSE "recv") \in GM!Labels
    BY DEF GM!Labels
  <2> QED  BY <1>1, <1>3, <2>1, GmMoves
<1>5. GmTypes'
  BY <1>0, <1>1, <1>4 DEF GmTypes
<1>6. GmScripted'
  BY <1>1, <1>4 DEF GmScripted, GmInv
<1>7. CASE GmAsking /\ Behind
  <2>1. calls["rcv"] < calls["tr"] /\ left["rcv"] = 0 /\ pc'["rcv"] = "free" /\ Behind'
    BY <1>1, <1>4, <1>7 DEF GmAsking, Behind
  <2>2. GmTaken = 0 /\ GmTaken' = 0 /\ GmSent' = GmSent
    BY <1>1, <1>3, <1>4, <1>7, <2>1 DEF GmTaken, GmSent
  <2>3. GmStream'
    BY <1>1, <1>2, <1>7, <2>2, GmStays DEF GmAsking
  <2>4. GmHeard'
    BY <1>1, <1>4, <2>1, <2>2 DEF GmHeard
  <2>5. GmAsking'
    BY <1>1, <1>4, <1>7, <2>1, <2>3, <2>4 DEF GmAsking, OneMessage, NoMessage
  <2> QED  BY <1>4, <1>5, <1>6, <2>5 DEF GmInv
<1>8. CASE GmAsking /\ ~Behind
  <2>1. GmTaken = 3 /\ calls["rcv"] = calls["tr"]
    BY <1>2, <1>3, <1>8 DEF GmTaken, GmAsking, Behind
  <2>2. pc["tr"] = "inSync" /\ GmSent = 3
    BY <1>2, <1>8, <2>1 DEF GmAsking, GmStream, GmSent
  <2>3. NoMessage("tr")
    BY <1>8, <2>1, <2>2 DEF GmAsking, GmStream, NoMessage
  <2>4. left["rcv"] = left["tr"] /\ (left["rcv"] > 0 => arg["rcv"][1] > 0)
    BY <1>2, <1>8, <2>2 DEF GmInv, GmScripted, GmAsking, GmHeard, Told
  <2>5. GmAwaits'
    BY <1>1, <1>2, <1>4, <2>1, <2>4 DEF GmAwaits, GmThrough
  <2>6. IF Given("tr") THEN OneMessage("rcv", "sync") ELSE NoMessage("rcv")
    BY <1>8, <2>2 DEF GmAsking
  <2>7. GmAhead'
    BY <1>1, <1>4, <2>2, <2>3, <2>4, <2>5, <2>6 DEF GmAhead, NoMessage, OneMessage
  <2> QED  BY <1>4, <1>5, <1>6, <2>7 DEF GmInv
<1>9. CASE GmLooping
  <2>1. GmMeeting /\ ~GmAwaits
    BY <1>9 DEF GmLooping, GmAwaits, GmThrough
  <2>2. GmAwaits'
    BY <1>1, <1>2, <1>4, <2>1 DEF GmMeeting, GmAwaits, GmThrough
  <2>3. GmLooping'
    BY <1>1, <1>3, <1>4, <1>9, <2>1, <2>2 DEF GmLooping, NoMessage, OneMessage
  <2> QED  BY <1>4, <1>5, <1>6, <2>3 DEF GmInv
<1> QED  BY <1>7, <1>8, <1>9 DEF GmInv, GmAhead, GmAwaits, GmThrough

LEMMA GmSync ==
    ASSUME GmInv, NEW p \in GM!Proc, GM!Sync(p)
    PROVE  GmInv'
<1>1. pc[p] \in {"sync", "inSync"}
  BY DEF GM!Sync, GM!Goto
<1> QED  BY <1>1, GmSyncSend, GmSyncLeaveTr, GmSyncLeaveRcv DEF GM!Proc

\* The transmitter is done with its measurement.
LEMMA GmFreeBuffTr ==
    ASSUME GmInv, GM!FreeBuff("tr")
    PROVE  GmInv'
<1> USE DEF GM!Proc
<1>0. GmTypes
  BY DEF GmInv
<1>1. /\ pc["tr"] = "free" /\ pc' = [pc EXCEPT !["tr"] = "idle"] /\ calls' = [calls EXCEPT !["tr"] = @ + 1]
      /\ UNCHANGED <<k, arg, req, left, lrpt, sends, given, events, need>>
  BY DEF GM!FreeBuff, GM!Goto
<1>2. /\ left["tr"] \in Nat /\ left["rcv"] \in Nat /\ calls["tr"] \in Nat /\ calls["rcv"] \in Nat
      /\ k["rcv"] \in 1..2 /\ calls \in [GM!Proc -> Nat]
  BY <1>0, GmTyped
<1>3. given["tr"] = <<>> /\ events["tr"] = <<>>
  BY <1>1, GmIdle DEF GmIn
<1>4. /\ pc' \in [GM!Proc -> GM!Labels] /\ pc'["tr"] = "idle" /\ pc'["rcv"] = pc["rcv"]
      /\ GmLocal("tr")' /\ GmLocal("rcv")' /\ Given("rcv")' = Given("rcv")
  <2>1. "idle" \in GM!Labels
    BY DEF GM!Labels
  <2> QED  BY <1>1, <1>3, <2>1, GmMoves
<1>5. calls' \in [GM!Proc -> Nat] /\ calls'["tr"] = calls["tr"] + 1 /\ calls'["rcv"] = calls["rcv"]
  <2>1. calls["tr"] + 1 \in Nat
    BY <1>2
  <2> QED  BY <1>1, <1>2, <2>1
<1>6. GmTypes'
  BY <1>0, <1>1, <1>4, <1>5 DEF GmTypes
<1>7. GmScripted'
  BY <1>4 DEF GmScripted
<1>8. left["rcv"] = 0 /\ NoMessage("rcv") /\ GmSent' = 0
  BY <1>1, <1>2, <1>4 DEF GmInv, GmAsking, GmAhead, GmLooping, GmSent
<1>9. \/ GmMeeting /\ IF Given("rcv") THEN OneMessage("tr", "sync") ELSE NoMessage("tr")
      \/ GmThrough /\ NoMessage("tr")
  BY <1>1, <1>8 DEF GmInv, GmAsking, GmAhead, GmLooping, GmAwaits
<1>10. CASE GmMeeting /\ IF Given("rcv") THEN OneMessage("tr", "sync") ELSE NoMessage("tr")
  <2>1. pc["rcv"] = "inSync" /\ calls'["rcv"] < calls'["tr"] /\ calls'["rcv"] = calls'["tr"] - 1 /\ Behind' /\ k["rcv"] = 1
    BY <1>2, <1>4, <1>5, <1>10 DEF GmMeeting, Behind, GmInv, GmLocal
  <2>2. GmTaken' = IF Given("rcv") THEN 0 - 1 ELSE 0
    BY <1>4, <2>1 DEF GmTaken
  <2>3. GmStream'
    <3>1. CASE Given("rcv")
      <4>1. GmKind(0)' = "sync"
        BY <1>4, <2>1 DEF GmKind
      <4>2. GmTaken' = 0 - 1 /\ Len(sends'["tr"]) = 1 /\ sends'["tr"][1].buf = "sync"
        BY <1>1, <1>10, <2>2, <3>1 DEF OneMessage
      <4>3. \A x \in 1..Len(sends'["tr"]) : sends'["tr"][x].buf = GmKind(GmTaken + x)'
        BY <4>1, <4>2
      <4> QED  BY <1>8, <4>2, <4>3 DEF GmStream
    <3>2. CASE ~Given("rcv")
      BY <1>1, <1>8, <1>10, <2>2, <3>2 DEF GmStream, NoMessage
    <3> QED  BY <3>1, <3>2
  <2>4. GmHeard'
    BY <1>1, <2>1, <2>2 DEF GmHeard
  <2>5. GmAsking'
    BY <1>1, <1>4, <1>8, <2>1, <2>3, <2>4 DEF GmAsking, NoMessage
  <2> QED  BY <1>4, <1>6, <1>7, <2>5 DEF GmInv
<1>11. CASE GmThrough /\ NoMessage("tr")
  <2>1. k["rcv"] = 1
    BY <1>2, <1>11 DEF GmThrough, GmInv, GmLocal
  <2>2. pc["rcv"] = "free" => ~Given("rcv")
    BY GmIdle DEF GmIn
  <2>3. CASE pc["rcv"] = "free" /\ calls["rcv"] = calls["tr"]
    <3>1. Behind' /\ GmTaken' = 0 /\ calls'["rcv"] < calls'["tr"] /\ calls'["rcv"] = calls'["tr"] - 1
      BY <1>2, <1>4, <1>5, <2>2, <2>3 DEF Behind, GmTaken
    <3>2. GmStream'
      BY <1>1, <1>8, <1>11, <3>1 DEF GmStream, NoMessage
    <3>3. GmHeard'
      BY <1>1, <2>1, <3>1 DEF GmHeard
    <3>4. GmAsking'
      BY <1>1, <1>4, <1>8, <2>3, <3>1, <3>2, <3>3 DEF GmAsking, NoMessage
    <3> QED  BY <1>4, <1>6, <1>7, <3>4 DEF GmInv
  <2>4. CASE calls["rcv"] = calls["tr"] + 1 /\ (pc["rcv"] = "repeat" \/ (pc["rcv"] = "inRepeat" /\ Given("rcv")))
    <3>1. ~Behind' /\ GmTaken' = 0 /\ calls'["rcv"] = calls'["tr"]
      BY <1>1, <1>2, <1>4, <1>5, <2>1, <2>4 DEF Behind, GmTaken
    <3>2. GmStream'
      BY <1>1, <1>8, <1>11, <3>1 DEF GmStream, NoMessage
    <3>3. GmHeard'
      BY <1>1, <1>4, <2>1, <2>4, <3>1 DEF GmHeard
    <3>4. GmAsking'
      BY <1>1, <1>2, <1>4, <1>5, <1>8, <2>4, <3>1, <3>2, <3>3 DEF GmAsking, NoMessage
    <3> QED  BY <1>4, <1>6, <1>7, <3>4 DEF GmInv
  <2> QED  BY <1>11, <2>3, <2>4 DEF GmThrough
<1> QED  BY <1>9, <1>10, <1>11

\* The receiver is done with its measurement.
LEMMA GmFreeBuffRcv ==
    ASSUME GmInv, GM!FreeBuff("rcv")
    PROVE  GmInv'
<1> USE DEF GM!Proc
<1>0. GmTypes
  BY DEF GmInv
<1>1. /\ pc["rcv"] = "free" /\ pc' = [pc EXCEPT !["rcv"] = "repeat"] /\ calls' = [calls EXCEPT !["rcv"] = @ + 1]
      /\ UNCHANGED <<k, arg, req, left, lrpt, sends, given, events, need>>
  BY DEF GM!FreeBuff, GM!Goto
<1>2. /\ left["tr"] \in Nat /\ left["rcv"] \in Nat /\ calls["tr"] \in Nat /\ calls["rcv"] \in Nat
      /\ k["rcv"] \in 1..2 /\ calls \in [GM!Proc -> Nat]
      /\ GmTaken \in Int /\ GmSent \in Int /\ Len(sends["tr"]) \in Nat
  BY <1>0, GmTyped, GmCounts
<1>3. given["rcv"] = <<>> /\ events["rcv"] = <<>> /\ ~Given("rcv")
  BY <1>1, GmIdle DEF GmIn
<1>4. /\ pc' \in [GM!Proc -> GM!Labels] /\ pc'["rcv"] = "repeat" /\ pc'["tr"] = pc["tr"] /\ k["rcv"] = 1
      /\ GmLocal("tr")' /\ GmLocal("rcv")' /\ Given("tr")' = Given("tr")
  <2>1. "repeat" \in GM!Labels
    BY DEF GM!Labels
  <2> QED  BY <1>1, <1>3, <2>1, GmMoves
<1>5. calls' \in [GM!Proc -> Nat] /\ calls'["rcv"] = calls["rcv"] + 1 /\ calls'["tr"] = calls["tr"]
  <2>1. calls["rcv"] + 1 \in Nat
    BY <1>2
  <2> QED  BY <1>1, <1>2, <2>1
<1>6. GmTypes'
  BY <1>0, <1>1, <1>4, <1>5 DEF GmTypes
<1>7. GmScripted'
  BY <1>1, <1>4 DEF GmScripted, GmInv
<1>8. CASE GmAsking
  <2>1. Behind /\ ~Behind' /\ calls'["rcv"] = calls'["tr"] /\ pc["tr"] # "greet"
    BY <1>1, <1>2, <1>4, <1>5, <1>8 DEF GmAsking, Behind
  <2>2. GmTaken = 0 /\ GmTaken' = 0 /\ GmSent' = GmSent
    BY <1>1, <1>3, <1>4, <2>1 DEF GmTaken, GmSent
  <2>3. GmStream'
    BY <1>1, <1>2, <1>8, <2>2, GmStays DEF GmAsking
  <2>4. GmHeard'
    BY <1>1, <1>4, <2>2 DEF GmHeard
  <2>5. pc["tr"] = "inSync" => Given("tr")
    BY <1>1, <1>8 DEF GmAsking
  <2>6. NoMessage("rcv")
    BY <1>1, <1>8 DEF GmAsking
  <2>7. GmAsking'
    BY <1>1, <1>2, <1>4, <1>5, <1>8, <2>1, <2>3, <2>4, <2>5, <2>6 DEF GmAsking, NoMessage
  <2> QED  BY <1>4, <1>6, <1>7, <2>7 DEF GmInv
<1>9. CASE GmAhead \/ GmLooping
  <2>1. GmAwaits => left["rcv"] = 0 /\ GmAwaits'
    BY <1>1, <1>2, <1>4, <1>5 DEF GmAwaits, GmThrough
  <2>2. GmAhead => GmAhead'
    BY <1>1, <1>4, <2>1 DEF GmAhead, NoMessage, OneMessage
  <2>3. ~GmMeeting
    BY <1>1 DEF GmMeeting
  <2>4. GmLooping => GmLooping'
    BY <1>1, <1>2, <1>4, <2>1, <2>3 DEF GmLooping, NoMessage, OneMessage, Given
  <2> QED  BY <1>4, <1>6, <1>7, <1>9, <2>2, <2>4 DEF GmInv
<1> QED  BY <1>8, <1>9 DEF GmInv

LEMMA GmFreeBuff ==
    ASSUME GmInv, NEW p \in GM!Proc, GM!FreeBuff(p)
    PROVE  GmInv'
  BY GmFreeBuffTr, GmFreeBuffRcv DEF GM!Proc

LEMMA GmSendDataTr ==
    ASSUME GmInv, GM!SendData("tr")
    PROVE  GmInv'
<1> USE DEF GM!Proc
<1> DEFINE m == [buf |-> "s_buff", size |-> GM!DataClass("tr"), len |-> arg["tr"][1]]
<1>0. GmTypes
  BY DEF GmInv
<1>1. /\ pc["tr"] = "send" /\ pc' = [pc EXCEPT !["tr"] = "recv"] /\ sends' = [sends EXCEPT !["tr"] = Append(@, m)]
      /\ UNCHANGED <<k, arg, req, calls, lrpt, given, events, need>>
  BY DEF GM!SendData, GM!Send
<1>2. left' = left
  <2>1. left' = [left EXCEPT !["tr"] = left["tr"]] /\ left \in [GM!Proc -> Nat]
    BY <1>0, GmTyped DEF GM!SendData
  <2> QED  BY <2>1
<1>3. left["tr"] \in Nat /\ left["rcv"] \in Nat /\ arg["tr"] \in [1..2 -> Nat]
  BY <1>0, GmTyped
<1>4. given["tr"] = <<>> /\ events["tr"] = <<>>
  BY <1>1, GmIdle DEF GmIn
<1>5. /\ pc' \in [GM!Proc -> GM!Labels] /\ pc'["tr"] = "recv" /\ pc'["rcv"] = pc["rcv"]
      /\ GmLocal("tr")' /\ GmLocal("rcv")' /\ Given("tr")' = Given("tr") /\ Given("rcv")' = Given("rcv")
  <2>1. "recv" \in GM!Labels
    BY DEF GM!Labels
  <2> QED  BY <1>1, <1>4, <2>1, GmMoves
<1>6. m \in GmMessage
  <2>1. GM!DataClass("tr") \in GmClass /\ arg["tr"][1] \in Nat
    BY <1>3, GmClasses DEF GM!DataClass
  <2> QED  BY <2>1 DEF GmMessage
<1>7. sends["tr"] \in Seq(GmMessage) /\ sends'["tr"] = Append(sends["tr"], m) /\ sends'["rcv"] = sends["rcv"]
  BY <1>0, <1>1, GmTyped
<1>8. /\ sends'["tr"] \in Seq(GmMessage) /\ Len(sends'["tr"]) = Len(sends["tr"]) + 1 /\ Len(sends["tr"]) \in Nat
      /\ sends'["tr"][Len(sends["tr"]) + 1] = m /\ \A x \in 1..Len(sends["tr"]) : sends'["tr"][x] = sends["tr"][x]
  BY <1>6, <1>7, QueueMore
<1>9. GmTypes'
  <2>1. sends' \in [GM!Proc -> Seq(GmMessage)]
    BY <1>0, <1>1, <1>7, <1>8, GmTyped
  <2> QED  BY <1>0, <1>1, <1>2, <1>5, <2>1 DEF GmTypes
<1>10. GmScripted'
  BY <1>1, <1>5 DEF GmScripted, GmInv
<1>11. /\ left["tr"] = left["rcv"] /\ left["tr"] > 0 /\ NoMessage("rcv")
       /\ \/ GmMeeting /\ IF Given("rcv") THEN OneMessage("tr", "sync") ELSE NoMessage("tr")
          \/ GmAwaits /\ NoMessage("tr")
  BY <1>1 DEF GmInv, GmAsking, GmAhead, GmLooping
<1>12. NoMessage("tr") => OneMessage("tr", "s_buff")'
  BY <1>8 DEF NoMessage, OneMessage
<1>13. OneMessage("tr", "sync") => Len(sends'["tr"]) = 2 /\ sends'["tr"][1].buf = "sync" /\ sends'["tr"][2].buf = "s_buff"
  BY <1>8 DEF OneMessage
<1>14. (GmMeeting => GmMeeting') /\ (GmAwaits => GmAwaits')
  BY <1>1, <1>2, <1>5 DEF GmMeeting, GmAwaits, GmThrough
<1>15. NoMessage("rcv")' /\ left'["tr"] = left'["rcv"] /\ left'["tr"] > 0
  BY <1>2, <1>7, <1>11 DEF NoMessage
<1>16. GmLooping'
  <2>1. CASE GmMeeting /\ Given("rcv") /\ OneMessage("tr", "sync")
    BY <1>5, <1>13, <1>14, <1>15, <2>1 DEF GmLooping
  <2>2. CASE GmMeeting /\ ~Given("rcv") /\ NoMessage("tr")
    BY <1>5, <1>12, <1>14, <1>15, <2>2 DEF GmLooping
  <2>3. CASE GmAwaits /\ NoMessage("tr")
    BY <1>5, <1>12, <1>14, <1>15, <2>3 DEF GmLooping
  <2> QED  BY <1>11, <2>1, <2>2, <2>3
<1> QED  BY <1>5, <1>9, <1>10, <1>16 DEF GmInv

LEMMA GmSendDataRcv ==
    ASSUME GmInv, GM!SendData("rcv")
    PROVE  GmInv'
<1> USE DEF GM!Proc
<1> DEFINE m == [buf |-> "s_buff", size |-> GM!DataClass("rcv"), len |-> arg["rcv"][1]]
<1> DEFINE to == IF left["rcv"] - 1 = 0 THEN "free" ELSE "recv"
<1>0. GmTypes
  BY DEF GmInv
<1>1. /\ pc["rcv"] = "send" /\ pc' = [pc EXCEPT !["rcv"] = to] /\ sends' = [sends EXCEPT !["rcv"] = Append(@, m)]
      /\ left' = [left EXCEPT !["rcv"] = left["rcv"] - 1]
      /\ UNCHANGED <<k, arg, req, calls, lrpt, given, events, need>>
  BY DEF GM!SendData, GM!Send, GM!LoopHead
<1>3. left["tr"] \in Nat /\ left["rcv"] \in Nat /\ arg["rcv"] \in [1..2 -> Nat] /\ left \in [GM!Proc -> Nat]
  BY <1>0, GmTyped
<1>4. given["rcv"] = <<>> /\ events["rcv"] = <<>>
  BY <1>1, GmIdle DEF GmIn
<1>5. /\ pc' \in [GM!Proc -> GM!Labels] /\ pc'["rcv"] = to /\ pc'["tr"] = pc["tr"]
      /\ GmLocal("tr")' /\ GmLocal("rcv")' /\ Given("tr")' = Given("tr") /\ Given("rcv")' = Given("rcv")
  <2>1. to \in GM!Labels /\ to # "inRecv"
    BY DEF GM!Labels
  <2> HIDE DEF to
  <2> QED  BY <1>1, <1>4, <2>1, GmMoves
<1>6. m \in GmMessage
  <2>1. GM!DataClass("rcv") \in GmClass /\ arg["rcv"][1] \in Nat
    BY <1>3, GmClasses DEF GM!DataClass
  <2> QED  BY <2>1 DEF GmMessage
<1>7. sends["rcv"] \in Seq(GmMessage) /\ sends'["rcv"] = Append(sends["rcv"], m) /\ sends'["tr"] = sends["tr"]
  BY <1>0, <1>1, GmTyped
<1>8. /\ sends'["rcv"] \in Seq(GmMessage) /\ Len(sends'["rcv"]) = Len(sends["rcv"]) + 1 /\ Len(sends["rcv"]) \in Nat
      /\ sends'["rcv"][Len(sends["rcv"]) + 1] = m
  BY <1>6, <1>7, QueueMore
<1>10. GmScripted'
  <2>1. left'["tr"] = left["tr"]
    BY <1>1, <1>3
  <2> QED  BY <1>1, <1>5, <2>1 DEF GmScripted, GmInv
<1>11. /\ pc["tr"] = "recv" \/ (pc["tr"] = "inRecv" /\ Given("tr"))
       /\ left["tr"] = left["rcv"] /\ left["tr"] > 0 /\ NoMessage("rcv") /\ NoMessage("tr")
       /\ calls["rcv"] = calls["tr"] /\ arg["rcv"][1] > 0
  BY <1>1 DEF GmInv, GmAsking, GmAhead, GmLooping, GmMeeting, GmAwaits, GmThrough
<1>12. left'["rcv"] = left["rcv"] - 1 /\ left'["tr"] = left["tr"] /\ left' \in [GM!Proc -> Nat]
  <2>1. left["rcv"] - 1 \in Nat
    BY <1>3, <1>11
  <2> QED  BY <1>1, <1>3, <2>1
<1>9. GmTypes'
  <2>1. sends' \in [GM!Proc -> Seq(GmMessage)]
    BY <1>0, <1>1, <1>7, <1>8, GmTyped
  <2> QED  BY <1>0, <1>1, <1>5, <1>12, <2>1 DEF GmTypes
<1>13. OneMessage("rcv", "s_buff")' /\ NoMessage("tr")'
  BY <1>7, <1>8, <1>11 DEF NoMessage, OneMessage
<1>14. GmAwaits'
  BY <1>1, <1>3, <1>5, <1>11, <1>12 DEF GmAwaits, GmThrough
<1>15. left'["tr"] = left'["rcv"] + 1
  BY <1>3, <1>11, <1>12
<1>16. GmLooping'
  BY <1>5, <1>11, <1>13, <1>14, <1>15 DEF GmLooping
<1> QED  BY <1>5, <1>9, <1>10, <1>16 DEF GmInv

\* A buffer is provided for the data.
LEMMA GmRecvProvide ==
    ASSUME GmInv, NEW p \in GM!Proc, GM!RecvData(p), pc[p] = "recv"
    PROVE  GmInv'
<1> USE DEF GM!Proc
<1> DEFINE g == [buf |-> "r_buff", size |-> GM!DataClass(p)]
<1>0. GmTypes
  BY DEF GmInv
<1>1. /\ pc' = [pc EXCEPT ![p] = "inRecv"] /\ need' = [need EXCEPT ![p] = arg[p][1]]
      /\ given' = [given EXCEPT ![p] = Append(@, g)]
      /\ UNCHANGED <<k, arg, req, left, calls, lrpt, sends, events>>
  BY DEF GM!RecvData, GM!Goto, GM!Provide
<1>2. k[p] \in 1..2 /\ arg[p] \in [1..2 -> Nat] /\ need \in [GM!Proc -> Int] /\ left["tr"] \in Nat /\ left["rcv"] \in Nat
  BY <1>0, GmTyped
<1>3. given[p] = <<>> /\ events[p] = <<>> /\ k[p] = 1
  BY <1>2, GmIdle DEF GmIn, GmInv, GmLocal
<1>4. g \in GmProvided
  <2>1. GM!DataClass(p) \in GmClass
    BY <1>2, GmClasses DEF GM!DataClass
  <2> QED  BY <2>1 DEF GmProvided
<1>5. /\ given' \in [GM!Proc -> Seq(GmProvided)] /\ Given(p)' /\ Len(given'[p]) = 1 /\ given'[p][1] = g
      /\ \A q \in GM!Proc : q # p => given'[q] = given[q] /\ Given(q)' = Given(q)
  BY <1>0, <1>1, <1>3, <1>4, GmProvides
<1>6. /\ pc'[p] = "inRecv" /\ need'[p] = arg[p][1]
      /\ \A q \in GM!Proc : q # p => pc'[q] = pc[q] /\ need'[q] = need[q]
  BY <1>0, <1>1, GmTyped
<1>7. GmTypes'
  <2>1. pc' \in [GM!Proc -> GM!Labels]
    BY <1>0, <1>1, GmTyped DEF GM!Labels
  <2>2. need' \in [GM!Proc -> Int]
    <3>1. arg[p][1] \in Int
      BY <1>2
    <3> QED  BY <1>1, <1>2, <3>1
  <2> QED  BY <1>0, <1>1, <1>5, <2>1, <2>2 DEF GmTypes
<1>8. arg[p][1] > 0
  <2>1. CASE p = "tr"
    BY <2>1 DEF GmInv, GmScripted
  <2>2. CASE p = "rcv"
    BY <1>2, <2>2 DEF GmInv, GmAsking, GmAhead, GmLooping, GmMeeting, GmAwaits, GmThrough
  <2> QED  BY <2>1, <2>2
<1>9. GmLocal("tr")' /\ GmLocal("rcv")'
  <2>1. GmBuffer(p)' = "r_buff" /\ GmOctets(p)' = arg[p][1] /\ given'[p][1].buf = "r_buff"
    BY <1>1, <1>5, <1>6 DEF GmBuffer, GmOctets
  <2>2. GmLocal(p)'
    BY <1>1, <1>3, <1>5, <1>6, <1>8, <2>1 DEF GmLocal, GmIn
  <2>3. \A q \in GM!Proc : q # p => GmLocal(q)'
    BY <1>1, <1>5, <1>6, GmLocalStays DEF GmInv
  <2> QED  BY <2>2, <2>3
<1>10. CASE p = "tr"
  <2>1. GmScripted'
    BY <1>1, <1>6, <1>10 DEF GmScripted, GmInv
  <2>2. pc["tr"] = "recv" /\ pc'["tr"] = "inRecv" /\ pc'["rcv"] = pc["rcv"] /\ Given("tr")' /\ Given("rcv")' = Given("rcv")
    BY <1>5, <1>6, <1>10
  <2>3. (GmMeeting => GmMeeting') /\ (GmAwaits => GmAwaits')
    BY <1>1, <2>2 DEF GmMeeting, GmAwaits, GmThrough
  <2>4. GmLooping
    BY <2>2 DEF GmInv, GmAsking, GmAhead
  <2>5. GmLooping'
    BY <1>1, <2>2, <2>3, <2>4 DEF GmLooping, NoMessage, OneMessage
  <2> QED  BY <1>7, <1>9, <2>1, <2>5 DEF GmInv
<1>11. CASE p = "rcv"
  <2>1. GmScripted'
    BY <1>1, <1>6, <1>11 DEF GmScripted, GmInv
  <2>2. pc["rcv"] = "recv" /\ pc'["rcv"] = "inRecv" /\ pc'["tr"] = pc["tr"] /\ Given("rcv")' /\ Given("tr")' = Given("tr")
    BY <1>5, <1>6, <1>11
  <2>3. ~GmMeeting /\ (GmAwaits => GmAwaits')
    BY <1>1, <2>2 DEF GmMeeting, GmAwaits, GmThrough
  <2>4. GmAhead \/ GmLooping
    BY <2>2 DEF GmInv, GmAsking
  <2>5. GmAhead => GmAhead'
    BY <1>1, <2>2, <2>3 DEF GmAhead, NoMessage, OneMessage
  <2>6. GmLooping => GmLooping'
    BY <1>1, <2>2, <2>3 DEF GmLooping, NoMessage, OneMessage
  <2> QED  BY <1>7, <1>9, <2>1, <2>4, <2>5, <2>6 DEF GmInv
<1> QED  BY <1>10, <1>11

\* The data has come.
LEMMA GmRecvDone ==
    ASSUME GmInv, NEW p \in GM!Proc, GM!RecvData(p), pc[p] = "inRecv"
    PROVE  GmInv'
<1> USE DEF GM!Proc
<1>0. GmTypes
  BY DEF GmInv
<1>1. /\ need[p] <= 0 /\ UNCHANGED <<k, arg, req, calls, lrpt, sends, given, events, need>>
      /\ pc' = [pc EXCEPT ![p] = IF p = "tr" THEN GM!LoopHead(p, left[p] - 1) ELSE "send"]
      /\ left' = [left EXCEPT ![p] = IF p = "tr" THEN left[p] - 1 ELSE left[p]]
  BY DEF GM!RecvData, GM!Goto
<1>2. left["tr"] \in Nat /\ left["rcv"] \in Nat /\ left \in [GM!Proc -> Nat]
  BY <1>0, GmTyped
<1>3. given[p] = <<>> /\ events[p] = <<>> /\ ~Given(p)
  BY <1>1, GmIdle
<1>4. CASE p = "tr"
  <2> DEFINE to == IF left["tr"] - 1 = 0 THEN "free" ELSE "send"
  <2>1. pc' = [pc EXCEPT !["tr"] = to] /\ left' = [left EXCEPT !["tr"] = left["tr"] - 1]
    BY <1>1, <1>4 DEF GM!LoopHead
  <2>2. /\ pc' \in [GM!Proc -> GM!Labels] /\ pc'["tr"] = to /\ pc'["rcv"] = pc["rcv"]
        /\ GmLocal("tr")' /\ GmLocal("rcv")' /\ Given("rcv")' = Given("rcv")
    <3>1. to \in GM!Labels /\ to # "inRecv"
      BY DEF GM!Labels
    <3> HIDE DEF to
    <3> QED  BY <1>1, <1>3, <1>4, <2>1, <3>1, GmMoves
  <2>3. left["tr"] = left["rcv"] + 1 /\ GmAwaits /\ NoMessage("tr") /\ NoMessage("rcv")
    BY <1>3, <1>4 DEF GmInv, GmAsking, GmAhead, GmLooping
  <2>4. left' \in [GM!Proc -> Nat] /\ left'["tr"] = left["rcv"] /\ left'["rcv"] = left["rcv"]
    BY <1>2, <2>1, <2>3
  <2>5. GmTypes'
    BY <1>0, <1>1, <2>2, <2>4 DEF GmTypes
  <2>6. GmScripted'
    BY <1>1, <1>4, <2>2 DEF GmScripted, GmInv
  <2>7. GmAwaits'
    BY <1>1, <2>2, <2>3, <2>4 DEF GmAwaits, GmThrough
  <2>8. GmLooping'
    <3>1. pc'["tr"] \in {"send", "free"} /\ (pc'["tr"] = "send" <=> left'["tr"] > 0)
      BY <1>2, <2>2, <2>3, <2>4
    <3> QED  BY <1>1, <2>3, <2>4, <2>7, <3>1 DEF GmLooping, NoMessage
  <2> QED  BY <2>2, <2>5, <2>6, <2>8 DEF GmInv
<1>5. CASE p = "rcv"
  <2>1. pc' = [pc EXCEPT !["rcv"] = "send"] /\ left' = left
    BY <1>1, <1>2, <1>5
  <2>2. /\ pc' \in [GM!Proc -> GM!Labels] /\ pc'["rcv"] = "send" /\ pc'["tr"] = pc["tr"]
        /\ GmLocal("tr")' /\ GmLocal("rcv")' /\ Given("tr")' = Given("tr")
    <3>1. "send" \in GM!Labels
      BY DEF GM!Labels
    <3> QED  BY <1>1, <1>3, <1>5, <2>1, <3>1, GmMoves
  <2>3. /\ pc["tr"] = "recv" \/ (pc["tr"] = "inRecv" /\ Given("tr"))
        /\ left["tr"] = left["rcv"] /\ left["tr"] > 0 /\ NoMessage("rcv") /\ NoMessage("tr")
        /\ calls["rcv"] = calls["tr"] /\ arg["rcv"][1] > 0
    BY <1>3, <1>5 DEF GmInv, GmAsking, GmAhead, GmLooping, GmMeeting, GmAwaits, GmThrough
  <2>4. GmTypes'
    BY <1>0, <1>1, <2>1, <2>2 DEF GmTypes
  <2>5. GmScripted'
    BY <1>1, <2>1, <2>2 DEF GmScripted, GmInv
  <2>6. GmLooping'
    BY <1>1, <2>1, <2>2, <2>3 DEF GmLooping, NoMessage
  <2> QED  BY <2>2, <2>4, <2>5, <2>6 DEF GmInv
<1> QED  BY <1>4, <1>5

LEMMA GmData ==
    ASSUME GmInv, NEW p \in GM!Proc, GM!SendData(p) \/ GM!RecvData(p)
    PROVE  GmInv'
<1>1. GM!RecvData(p) => pc[p] \in {"recv", "inRecv"}
  BY DEF GM!RecvData, GM!Goto
<1> QED  BY <1>1, GmSendDataTr, GmSendDataRcv, GmRecvProvide, GmRecvDone DEF GM!Proc

\* readFully counts an event.
LEMMA GmReadFully ==
    ASSUME GmInv, NEW p \in GM!Proc, GM!readFully(p)
    PROVE  GmInv'
<1> USE DEF GM!Proc
<1>0. GmTypes
  BY DEF GmInv
<1>1. /\ events[p] # <<>> /\ need' = [need EXCEPT ![p] = @ - Head(events[p])]
      /\ events' = [events EXCEPT ![p] = Tail(@)]
      /\ UNCHANGED <<pc, k, arg, req, left, calls, lrpt, sends, given>>
  BY DEF GM!readFully
<1>2. need \in [GM!Proc -> Int] /\ events \in [GM!Proc -> Seq(Nat)] /\ events[p] \in Seq(Nat) /\ need[p] \in Int
  BY <1>0, GmTyped
<1>3. Len(events[p]) = 1 /\ pc[p] \in GmIn /\ ~Given(p)
  BY <1>1 DEF GmInv, GmLocal
<1>4. Head(events[p]) \in Nat /\ Tail(events[p]) \in Seq(Nat) /\ Len(Tail(events[p])) = 0
  BY <1>1, <1>2, <1>3, QueueLess
<1>5. /\ events'[p] = Tail(events[p]) /\ \A q \in GM!Proc : q # p => events'[q] = events[q] /\ need'[q] = need[q]
  BY <1>1, <1>2
<1>6. GmTypes'
  <2>1. need' \in [GM!Proc -> Int]
    <3>1. need[p] - Head(events[p]) \in Int
      BY <1>2, <1>4
    <3> QED  BY <1>1, <1>2, <3>1
  <2>2. events' \in [GM!Proc -> Seq(Nat)]
    BY <1>1, <1>2, <1>4
  <2> QED  BY <1>0, <1>1, <2>1, <2>2 DEF GmTypes
<1>7. GmLocal(p)'
  <2>1. events'[p] = <<>>
    BY <1>4, <1>5, QueueEmpty
  <2> QED  BY <1>1, <1>3, <2>1 DEF GmLocal, Given, GmInv, GmOctets
<1>8. \A q \in GM!Proc : q # p => GmLocal(q)'
  BY <1>1, <1>5, GmLocalStays DEF GmInv
<1>9. GmScripted'
  BY <1>1 DEF GmScripted, GmInv
<1>10. Behind' = Behind /\ GmSent' = GmSent /\ \A q \in GM!Proc : Given(q)' = Given(q)
  BY <1>1 DEF Behind, GmSent, Given
<1>11. GmTaken' = GmTaken
  BY <1>1, <1>10 DEF GmTaken
<1>12. GmStream => GmStream'
  BY <1>1, <1>10, <1>11 DEF GmStream, GmKind
<1>13. GmHeard => GmHeard'
  BY <1>1, <1>10, <1>11 DEF GmHeard, Told
<1>14. GmAsking => GmAsking'
  BY <1>1, <1>10, <1>12, <1>13 DEF GmAsking, OneMessage, NoMessage
<1>15. (GmMeeting => GmMeeting') /\ (GmAwaits => GmAwaits')
  BY <1>1, <1>10 DEF GmMeeting, GmAwaits, GmThrough
<1>16. GmAhead => GmAhead'
  BY <1>1, <1>10, <1>15 DEF GmAhead, OneMessage, NoMessage
<1>17. GmLooping => GmLooping'
  BY <1>1, <1>10, <1>15 DEF GmLooping, OneMessage, NoMessage
<1> QED  BY <1>6, <1>7, <1>8, <1>9, <1>14, <1>16, <1>17 DEF GmInv

\* A message is delivered into the one buffer that is there.
LEMMA GmDelivery ==
    ASSUME GmInv, NEW p \in GM!Proc, GM!Transmit(p), NEW q, q = GM!Peer(p)
    PROVE  /\ q \in GM!Proc /\ q # p /\ Given(q) /\ sends[p] # <<>>
           /\ pc[q] \in GmIn /\ given[q][1].buf = GmBuffer(q)
           /\ GmTypes' /\ (\A r \in GM!Proc : GmLocal(r)')
           /\ UNCHANGED <<pc, k, arg, req, left, calls, need>>
           /\ sends'[p] = Tail(sends[p]) /\ sends'[q] = sends[q]
           /\ ~Given(q)' /\ Given(p)' = Given(p)
           /\ lrpt'[q] = IF sends[p][1].buf = "lrpt" /\ given[q][1].buf = "lrpt" THEN lrpt[p] ELSE lrpt[q]
           /\ lrpt'[p] = lrpt[p]
<1> USE DEF GM!Proc
<1> DEFINE m == Head(sends[p])
           fit == GM!Fitting(q, m.size)
           x == CHOOSE j \in fit : \A h \in fit : j <= h
<1>0. GmTypes
  BY DEF GmInv
<1>1. /\ sends[p] # <<>> /\ fit # {} /\ sends' = [sends EXCEPT ![p] = Tail(@)]
      /\ given' = [given EXCEPT ![q] = SubSeq(@, 1, x - 1) \o SubSeq(@, x + 1, Len(@))]
      /\ lrpt' = [lrpt EXCEPT ![q] = IF m.buf = "lrpt" /\ given[q][x].buf = "lrpt" THEN lrpt[p] ELSE @]
      /\ events' = [events EXCEPT ![q] = Append(@, m.len)]
      /\ UNCHANGED <<pc, k, arg, req, left, calls, need>>
  BY DEF GM!Transmit
<1>2. q \in GM!Proc /\ q # p
  BY DEF GM!Peer
<1>3. /\ sends \in [GM!Proc -> Seq(GmMessage)] /\ given \in [GM!Proc -> Seq(GmProvided)]
      /\ events \in [GM!Proc -> Seq(Nat)] /\ lrpt \in [GM!Proc -> Nat]
      /\ sends[p] \in Seq(GmMessage) /\ given[q] \in Seq(GmProvided) /\ events[q] \in Seq(Nat)
  BY <1>0, <1>2, GmTyped
<1>4. m = sends[p][1] /\ m \in GmMessage /\ Tail(sends[p]) \in Seq(GmMessage) /\ m.len \in Nat
  <2>1. m = sends[p][1] /\ m \in GmMessage /\ Tail(sends[p]) \in Seq(GmMessage)
    BY <1>1, <1>3, QueueLess
  <2> QED  BY <2>1 DEF GmMessage
<1>5. Given(q)
  <2>1. PICK j \in DOMAIN given[q] : TRUE
    BY <1>1 DEF GM!Fitting
  <2>2. j \in 1..Len(given[q])
    BY <1>3, <2>1, SMTT(30)
  <2> QED  BY <1>3, <2>2, QueueEmpty DEF Given
<1>6. Len(given[q]) = 1 /\ pc[q] \in GmIn /\ given[q][1].buf = GmBuffer(q) /\ events[q] = <<>> /\ need[q] = GmOctets(q)
  BY <1>2, <1>5 DEF GmInv, GmLocal
<1>7. fit = {1}
  <2>1. DOMAIN given[q] = {1}
    BY <1>3, <1>6
  <2> QED  BY <1>1, <2>1 DEF GM!Fitting
<1>8. x = 1
  <2>1. 1 \in fit /\ \A h \in fit : 1 <= h
    BY <1>7
  <2>2. x \in fit
    BY <2>1
  <2> QED  BY <1>7, <2>2
<1> HIDE DEF x, fit
<1>9. given'[q] = <<>>
  <2>1. SubSeq(given[q], 1, 1 - 1) \o SubSeq(given[q], 1 + 1, Len(given[q])) = <<>>
    BY <1>3, <1>6
  <2> QED  BY <1>1, <1>2, <1>3, <1>8, <2>1
<1>10. given'[p] = given[p] /\ events'[p] = events[p] /\ sends'[q] = sends[q] /\ lrpt'[p] = lrpt[p]
  BY <1>1, <1>2, <1>3
<1>11. sends'[p] = Tail(sends[p]) /\ events'[q] = Append(events[q], m.len)
  BY <1>1, <1>2, <1>3
<1>12. lrpt'[q] = IF sends[p][1].buf = "lrpt" /\ given[q][1].buf = "lrpt" THEN lrpt[p] ELSE lrpt[q]
  BY <1>1, <1>2, <1>3, <1>4, <1>8
<1>13. Append(events[q], m.len) \in Seq(Nat) /\ Len(Append(events[q], m.len)) = 1
  BY <1>3, <1>4, <1>6, QueueMore
<1>14. GmTypes'
  <2>1. sends' \in [GM!Proc -> Seq(GmMessage)]
    BY <1>1, <1>3, <1>4
  <2>2. given' \in [GM!Proc -> Seq(GmProvided)]
    <3>1. <<>> \in Seq(GmProvided)
      OBVIOUS
    <3>2. given' = [given EXCEPT ![q] = <<>>]
      BY <1>1, <1>2, <1>3, <1>9
    <3> QED  BY <1>3, <3>1, <3>2
  <2>3. events' \in [GM!Proc -> Seq(Nat)]
    BY <1>1, <1>3, <1>13
  <2>4. lrpt' \in [GM!Proc -> Nat]
    BY <1>1, <1>2, <1>3
  <2> QED  BY <1>0, <1>1, <2>1, <2>2, <2>3, <2>4 DEF GmTypes
<1>15. GmLocal(q)'
  <2>1. GmOctets(q)' = GmOctets(q)
    BY <1>1 DEF GmOctets
  <2>2. ~Given(q)' /\ Len(events'[q]) = 1 /\ pc'[q] \in GmIn /\ need'[q] = GmOctets(q)'
    BY <1>1, <1>6, <1>9, <1>11, <1>13, <2>1 DEF Given
  <2> QED  BY <1>1, <1>2, <2>1, <2>2 DEF GmLocal, GmInv
<1>16. GmLocal(p)'
  BY <1>1, <1>10, GmLocalStays DEF GmInv
<1>17. \A r \in GM!Proc : GmLocal(r)'
  BY <1>2, <1>15, <1>16
<1> QED  BY <1>1, <1>2, <1>5, <1>6, <1>9, <1>10, <1>11, <1>12, <1>14, <1>17 DEF Given

LEMMA GmTransmitTr ==
    ASSUME GmInv, GM!Transmit("tr")
    PROVE  GmInv'
<1> USE DEF GM!Proc
<1>0. GmTypes
  BY DEF GmInv
<1> DEFINE s == sends["tr"]
<1>1. /\ Given("rcv") /\ s # <<>> /\ pc["rcv"] \in GmIn /\ given["rcv"][1].buf = GmBuffer("rcv")
      /\ GmTypes' /\ GmLocal("tr")' /\ GmLocal("rcv")'
      /\ UNCHANGED <<pc, k, arg, req, left, calls, need>>
      /\ s' = Tail(s) /\ sends'["rcv"] = sends["rcv"] /\ ~Given("rcv")' /\ Given("tr")' = Given("tr")
      /\ lrpt'["rcv"] = (IF s[1].buf = "lrpt" /\ given["rcv"][1].buf = "lrpt" THEN lrpt["tr"] ELSE lrpt["rcv"])
      /\ lrpt'["tr"] = lrpt["tr"]
  BY GmDelivery DEF GM!Peer
<1>2. s \in Seq(GmMessage) /\ GmTaken \in Int /\ GmSent \in Int /\ k["rcv"] \in 1..2 /\ k["tr"] \in 1..2 /\ left["rcv"] \in Nat
  BY <1>0, GmTyped, GmCounts
<1>3. Len(s) \in Nat \ {0} /\ Len(s') = Len(s) - 1 /\ \A x \in 1..(Len(s) - 1) : s'[x] = s[x + 1]
  BY <1>1, <1>2, QueueLess
<1>4. GmScripted'
  BY <1>1 DEF GmScripted, GmInv
<1>5. CASE GmAsking
  <2>1. pc["rcv"] \in {"hello", "inRepeat", "inSync"} /\ Behind' = Behind /\ GmSent' = GmSent
    BY <1>1, <1>5 DEF GmAsking, GmIn, Behind, GmSent
  <2>2. GmTaken' = GmTaken + 1
    <3>1. CASE Behind
      BY <1>1, <2>1, <3>1 DEF GmTaken
    <3>2. CASE ~Behind /\ pc["rcv"] = "inRepeat"
      BY <1>1, <1>2, <2>1, <3>2 DEF GmTaken
    <3>3. CASE ~Behind /\ pc["rcv"] = "inSync"
      BY <1>1, <2>1, <3>3 DEF GmTaken
    <3> QED  BY <2>1, <3>1, <3>2, <3>3 DEF Behind
  <2>3. GmStream'
    <3>1. GmTaken' <= GmSent' /\ Len(s') = GmSent' - GmTaken'
      BY <1>2, <1>3, <1>5, <2>1, <2>2 DEF GmAsking, GmStream
    <3>2. ASSUME NEW x \in 1..Len(s')  PROVE s'[x].buf = GmKind(GmTaken + x)'
      <4>1. x + 1 \in 1..Len(s) /\ x \in 1..(Len(s) - 1)
        BY <1>3
      <4>2. s[x + 1].buf = GmKind(GmTaken + (x + 1))
        BY <1>5, <4>1 DEF GmAsking, GmStream
      <4>3. GmTaken' + x = GmTaken + (x + 1)
        BY <1>2, <1>3, <2>2
      <4>4. GmKind(GmTaken + x)' = GmKind(GmTaken + (x + 1))
        BY <1>1, <4>3 DEF GmKind
      <4> QED  BY <1>3, <4>1, <4>2, <4>4
    <3> QED  BY <3>1, <3>2 DEF GmStream
  <2>4. GmHeard'
    <3>1. CASE pc["rcv"] # "inRepeat"
      <4>1. k["rcv"] = 1
        BY <1>2, <2>1, <3>1 DEF GmInv, GmLocal
      <4> QED  BY <1>1, <1>5, <2>1, <3>1, <4>1 DEF GmAsking, GmHeard, Told
    <3>2. CASE pc["rcv"] = "inRepeat"
      <4>1. GmTaken = k["rcv"] - 1 /\ ~Behind
        BY <1>1, <1>5, <3>2 DEF GmTaken, Behind, GmAsking
      <4>2. s[1].buf = "lrpt" /\ given["rcv"][1].buf = "lrpt"
        <5>1. s[1].buf = GmKind(GmTaken + 1)
          BY <1>3, <1>5 DEF GmAsking, GmStream
        <5>2. GmKind(GmTaken + 1) = "lrpt"
          BY <1>2, <4>1 DEF GmKind
        <5> QED  BY <1>1, <3>2, <5>1, <5>2 DEF GmBuffer
      <4>3. lrpt'["rcv"] = lrpt["tr"]
        BY <1>1, <4>2
      <4>4. GmSent >= k["rcv"]
        BY <1>2, <1>3, <1>5, <4>1 DEF GmAsking, GmStream
      <4>5. CASE k["rcv"] = 1
        <5>1. Told(lrpt["tr"])
          BY <1>2, <1>5, <4>4, <4>5 DEF GmAsking, GmSent, GmInv, GmScripted, Told
        <5> QED  BY <1>1, <2>1, <2>2, <3>2, <4>1, <4>3, <4>5, <5>1 DEF GmHeard, Told
      <4>6. CASE k["rcv"] = 2
        <5>1. lrpt["tr"] = req[2]
          BY <1>2, <1>5, <4>4, <4>6 DEF GmAsking, GmSent, GmInv, GmScripted
        <5> QED  BY <1>1, <1>5, <2>1, <2>2, <3>2, <4>1, <4>3, <4>6, <5>1 DEF GmAsking, GmHeard, Told
      <4> QED  BY <1>2, <4>5, <4>6
    <3> QED  BY <3>1, <3>2
  <2>5. GmAsking'
    BY <1>1, <1>5, <2>1, <2>3, <2>4 DEF GmAsking, OneMessage, NoMessage
  <2> QED  BY <1>1, <1>4, <2>5 DEF GmInv
<1>6. CASE GmLooping
  <2>1. ~NoMessage("tr")
    BY <1>3 DEF NoMessage
  <2>2. GmMeeting => GmMeeting'
    BY <1>1 DEF GmMeeting
  <2>3. (Len(s) = 1 => Len(s') = 0) /\ (Len(s) = 2 => Len(s') = 1 /\ s'[1] = s[2])
    BY <1>3
  <2>4. CASE pc["tr"] \in {"send", "free"}
    <3>1. GmLooping'
      BY <1>1, <1>6, <2>1, <2>2, <2>3, <2>4 DEF GmLooping, NoMessage, OneMessage
    <3> QED  BY <1>1, <1>4, <3>1 DEF GmInv
  <2>5. CASE pc["tr"] \notin {"send", "free"} /\ GmMeeting
    <3>1. ~GmAwaits
      BY <2>5 DEF GmMeeting, GmAwaits, GmThrough
    <3>2. /\ pc["tr"] = "recv" \/ (pc["tr"] = "inRecv" /\ Given("tr"))
          /\ left["tr"] = left["rcv"] /\ left["tr"] > 0 /\ NoMessage("rcv")
          /\ Len(s) = 2 /\ s[2].buf = "s_buff"
      BY <1>1, <1>6, <2>1, <2>5, <3>1 DEF GmLooping, GmMeeting
    <3>3. OneMessage("tr", "s_buff")' /\ NoMessage("rcv")'
      BY <1>1, <2>3, <3>2 DEF OneMessage, NoMessage
    <3>4. GmLooping'
      BY <1>1, <2>2, <2>5, <3>2, <3>3 DEF GmLooping
    <3> QED  BY <1>1, <1>4, <3>4 DEF GmInv
  <2>6. CASE pc["tr"] \notin {"send", "free"} /\ ~GmMeeting
    <3>1. /\ pc["tr"] = "recv" \/ (pc["tr"] = "inRecv" /\ Given("tr"))
          /\ left["tr"] = left["rcv"] /\ left["tr"] > 0 /\ NoMessage("rcv")
          /\ GmAwaits /\ OneMessage("tr", "s_buff")
      BY <1>6, <2>1, <2>6 DEF GmLooping
    <3>2. pc["rcv"] = "inRecv" /\ calls["rcv"] = calls["tr"] /\ arg["rcv"][1] > 0
      BY <1>1, <1>2, <3>1 DEF GmAwaits, GmIn
    <3>3. NoMessage("tr")' /\ NoMessage("rcv")'
      BY <1>1, <2>3, <3>1 DEF NoMessage, OneMessage
    <3>4. GmLooping'
      BY <1>1, <3>1, <3>2, <3>3 DEF GmLooping
    <3> QED  BY <1>1, <1>4, <3>4 DEF GmInv
  <2> QED  BY <2>4, <2>5, <2>6
<1>7. ~GmAhead
  BY <1>3 DEF GmAhead, NoMessage
<1> QED  BY <1>5, <1>6, <1>7 DEF GmInv

LEMMA GmTransmitRcv ==
    ASSUME GmInv, GM!Transmit("rcv")
    PROVE  GmInv'
<1> USE DEF GM!Proc
<1>0. GmTypes
  BY DEF GmInv
<1> DEFINE s == sends["rcv"]
<1>1. /\ Given("tr") /\ s # <<>> /\ pc["tr"] \in GmIn
      /\ GmTypes' /\ GmLocal("tr")' /\ GmLocal("rcv")'
      /\ UNCHANGED <<pc, k, arg, req, left, calls, need>>
      /\ s' = Tail(s) /\ sends'["tr"] = sends["tr"] /\ ~Given("tr")' /\ Given("rcv")' = Given("rcv")
      /\ lrpt'["tr"] = (IF s[1].buf = "lrpt" /\ given["tr"][1].buf = "lrpt" THEN lrpt["rcv"] ELSE lrpt["tr"])
      /\ lrpt'["rcv"] = lrpt["rcv"]
  BY GmDelivery DEF GM!Peer
<1>2. s \in Seq(GmMessage) /\ GmTaken \in Int /\ GmSent \in Int
  BY <1>0, GmTyped, GmCounts
<1>3. Len(s) \in Nat \ {0} /\ Len(s') = Len(s) - 1 /\ ~NoMessage("rcv")
  BY <1>1, <1>2, QueueLess DEF NoMessage
<1>4. OneMessage("rcv", "sync") \/ OneMessage("rcv", "s_buff")
  BY <1>3 DEF GmInv, GmAsking, GmAhead, GmLooping
<1>5. NoMessage("rcv")' /\ lrpt'["tr"] = lrpt["tr"]
  BY <1>1, <1>3, <1>4 DEF OneMessage, NoMessage
<1>6. GmScripted'
  BY <1>1, <1>5 DEF GmScripted, GmInv
<1>7. (GmMeeting => GmMeeting') /\ (GmAwaits => GmAwaits')
  BY <1>1 DEF GmMeeting, GmAwaits, GmThrough
<1>8. CASE GmAsking
  <2>1. pc["rcv"] = "inSync" /\ ~Behind /\ pc["tr"] = "inSync"
    BY <1>1, <1>3, <1>8 DEF GmAsking, GmIn
  <2>2. Behind' = Behind /\ GmSent' = GmSent
    BY <1>1 DEF Behind, GmSent
  <2>3. GmTaken' = GmTaken
    BY <1>1, <2>2 DEF GmTaken
  <2>4. GmStream'
    BY <1>0, <1>1, <1>2, <1>8, <2>2, <2>3, GmStays, GmCounts DEF GmAsking
  <2>5. GmHeard'
    BY <1>1, <1>8, <2>2, <2>3 DEF GmAsking, GmHeard, Told
  <2>6. GmAsking'
    BY <1>1, <1>5, <1>8, <2>1, <2>2, <2>4, <2>5 DEF GmAsking
  <2> QED  BY <1>1, <1>6, <2>6 DEF GmInv
<1>9. CASE GmAhead
  <2>1. GmAhead'
    BY <1>1, <1>5, <1>7, <1>9 DEF GmAhead, NoMessage
  <2> QED  BY <1>1, <1>6, <2>1 DEF GmInv
<1>10. CASE GmLooping
  <2>1. pc["tr"] = "inRecv" /\ left["tr"] = left["rcv"] + 1 /\ GmAwaits /\ NoMessage("tr")
    BY <1>1, <1>3, <1>10 DEF GmLooping, GmIn
  <2>2. GmLooping'
    BY <1>1, <1>5, <1>7, <2>1 DEF GmLooping, NoMessage
  <2> QED  BY <1>1, <1>6, <2>2 DEF GmInv
<1> QED  BY <1>8, <1>9, <1>10 DEF GmInv

LEMMA GmSteps == MessagesHaveOctets /\ GmInv /\ GM!Next => GmInv'
<1> SUFFICES ASSUME MessagesHaveOctets, GmInv, NEW p \in GM!Proc, GM!Step(p) \/ GM!Transmit(p)
             PROVE  GmInv'
  BY DEF GM!Next
<1>1. CASE GM!Step(p)
  BY <1>1, GmEstablish, GmCall, GmSendRepeat, GmRecvRepeat, GmMyMalloc, GmSync, GmData, GmFreeBuff, GmReadFully
     DEF GM!Step
<1>2. CASE GM!Transmit(p)
  BY <1>2, GmTransmitTr, GmTransmitRcv DEF GM!Proc
<1> QED  BY <1>1, <1>2

LEMMA GmStutters ==
    ASSUME GmInv, UNCHANGED <<pc, k, arg, req, left, calls, lrpt, sends, given, events, need>>
    PROVE  GmInv'
<1>1. GmTypes' /\ GmScripted'
  BY DEF GmInv, GmTypes, GmScripted
<1>2. \A p \in GM!Proc : GmLocal(p)'
  BY GmLocalStays DEF GmInv
<1>3. Behind' = Behind /\ GmSent' = GmSent /\ \A q \in GM!Proc : Given(q)' = Given(q)
  BY DEF Behind, GmSent, Given
<1>4. GmTaken' = GmTaken
  BY <1>3 DEF GmTaken, GM!Proc
<1>5. GmStream => GmStream'
  BY <1>3, <1>4 DEF GmStream, GmKind
<1>6. GmHeard => GmHeard'
  BY <1>3, <1>4 DEF GmHeard, Told
<1>7. GmAsking => GmAsking'
  BY <1>3, <1>5, <1>6 DEF GmAsking, OneMessage, NoMessage, GM!Proc
<1>8. (GmMeeting => GmMeeting') /\ (GmAwaits => GmAwaits')
  BY <1>3 DEF GmMeeting, GmAwaits, GmThrough, GM!Proc
<1>9. GmAhead => GmAhead'
  BY <1>3, <1>8 DEF GmAhead, OneMessage, NoMessage, GM!Proc
<1>10. GmLooping => GmLooping'
  BY <1>3, <1>8 DEF GmLooping, OneMessage, NoMessage, GM!Proc
<1> QED  BY <1>1, <1>2, <1>7, <1>9, <1>10 DEF GmInv

LEMMA GmDeafSteps == GmDeaf /\ (GM!Next \/ UNCHANGED <<pc, k, arg, req, left, calls, lrpt, sends, given, events, need>>) => GmDeaf'
<1> USE DEF GM!Proc
<1>1. CASE UNCHANGED <<pc, k, arg, req, left, calls, lrpt, sends, given, events, need>>
  BY <1>1 DEF GmDeaf
<1>2. ASSUME GmDeaf, NEW p \in GM!Proc, GM!Step(p) \/ GM!Transmit(p)
      PROVE  GmDeaf'
  <2>1. pc[p] \in {"await", "hello"} /\ sends[p] = <<>> /\ events[p] = <<>> /\ (pc[p] = "hello" => need[p] = 20)
    BY <1>2 DEF GmDeaf
  <2>2. GM!establish(p)
    BY <1>2, <2>1 DEF GM!Step, GM!Transmit, GM!readFully, GM!Call, GM!SendRepeat, GM!RecvRepeat, GM!MyMalloc,
                      GM!Sync, GM!SendData, GM!RecvData, GM!FreeBuff, GM!Goto
  <2> DEFINE g == [buf |-> "hello", size |-> 7]
  <2>3. /\ pc[p] = "await" /\ pc' = [pc EXCEPT ![p] = "hello"] /\ UNCHANGED <<k, left, sends, events>>
        /\ given' = [given EXCEPT ![p] = Append(@, g)] /\ need' = [need EXCEPT ![p] = 20]
    BY <2>1, <2>2 DEF GM!establish, GM!Goto, GM!Provide, GM!HelloLen
  <2>4. given[p] = <<>> /\ g \in GmProvided
    BY <1>2, <2>3 DEF GmDeaf, GmProvided, GmClass
  <2>5. Append(given[p], g) \in Seq(GmProvided) /\ Len(Append(given[p], g)) = 1
    BY <2>4
  <2>6. pc' \in [GM!Proc -> {"await", "hello"}] /\ given' \in [GM!Proc -> Seq(GmProvided)] /\ need' \in [GM!Proc -> Int]
    BY <1>2, <2>3, <2>5 DEF GmDeaf
  <2>7. \A q \in GM!Proc : IF pc'[q] = "await" THEN given'[q] = <<>> ELSE Len(given'[q]) = 1 /\ need'[q] = 20
    BY <1>2, <2>3, <2>5 DEF GmDeaf
  <2> QED  BY <1>2, <2>3, <2>6, <2>7 DEF GmDeaf
<1> QED  BY <1>1, <1>2 DEF GM!Next

GmBuildInv == built = "gm" => GmAlways

LEMMA GmInvariance == MessagesHaveOctets /\ Spec => []GmBuildInv
<1> SUFFICES ASSUME MessagesHaveOctets  PROVE Spec => []GmBuildInv
  OBVIOUS
<1>1. Init => GmBuildInv
  BY GmStarts DEF Init, GmBuildInv
<1>2. GmBuildInv /\ [Next]_vars => GmBuildInv'
  <2> SUFFICES ASSUME GmBuildInv, [Next]_vars, built' = "gm" PROVE GmAlways'
    BY DEF GmBuildInv
  <2>1. built = "gm" /\ GmAlways
    BY SameBuild DEF GmBuildInv
  <2>2. GmStep \/ UNCHANGED <<pc, k, arg, req, left, calls, lrpt, sends, given, events, need>>
    <3>1. CASE Next
      BY <2>1, <3>1 DEF Next, MailboxStep, MpiStep, AtoaStep, PvmStep, HeapStep, CopyStep, PatternStep
    <3>2. CASE UNCHANGED vars
      BY <3>2 DEF vars, gmOnly
    <3> QED  BY <3>1, <3>2
  <2>3. CASE GmInv
    BY <2>2, <2>3, GmSteps, GmStutters DEF GmStep, GmAlways
  <2>4. CASE GmDeaf
    BY <2>2, <2>4, GmDeafSteps DEF GmStep, GmAlways
  <2> QED  BY <2>1, <2>3, <2>4 DEF GmAlways
<1> QED  BY <1>1, <1>2, PTL DEF Spec

\* What the invariant means when both ends wait to be greeted.
LEMMA GmDeafPromises == GmDeaf => GM!TypeOK /\ GM!NrepeatIsRight /\ GM!LandsInItsBuffer
<1> SUFFICES ASSUME GmDeaf  PROVE GM!TypeOK /\ GM!NrepeatIsRight /\ GM!LandsInItsBuffer
  OBVIOUS
<1> USE DEF GM!Proc
<1>1. pc \in [GM!Proc -> GM!Labels]
  BY DEF GmDeaf, GM!Labels
<1>2. ASSUME NEW p \in GM!Proc  PROVE Len(events[p]) <= 1 /\ Len(given[p]) <= 1
  <2>1. events[p] = <<>> /\ (given[p] = <<>> \/ Len(given[p]) = 1)
    BY <1>2 DEF GmDeaf
  <2>2. Len(events[p]) = 0
    BY <2>1
  <2>3. CASE given[p] = <<>>
    <3>1. Len(given[p]) = 0
      BY <2>3
    <3> QED  BY <2>2, <3>1
  <2>4. CASE Len(given[p]) = 1
    BY <2>2, <2>4
  <2> QED  BY <2>1, <2>3, <2>4
<1>3. GM!TypeOK
  BY <1>1, <1>2 DEF GmDeaf, GM!TypeOK
<1> QED  BY <1>3 DEF GmDeaf, GM!NrepeatIsRight, GM!LandsInItsBuffer

\* What the invariant means for the calls of run_iters.
LEMMA GmPromises ==
    ASSUME GmInv
    PROVE  GM!TypeOK /\ GM!NrepeatIsRight /\ GM!LandsInItsBuffer
<1> USE DEF GM!Proc
<1>0. GmTypes
  BY DEF GmInv
<1>1. GM!TypeOK
  <2>1. ASSUME NEW p \in GM!Proc PROVE Len(events[p]) <= 1 /\ Len(given[p]) <= 1
    <3>1. events[p] \in Seq(Nat) /\ given[p] \in Seq(GmProvided)
      BY <1>0, GmTyped
    <3>2. GmLocal(p)
      BY DEF GmInv
    <3>3. Len(events[p]) \in Nat /\ (Len(events[p]) = 0 <=> events[p] = <<>>)
      BY <3>1, QueueEmpty
    <3>4. Len(given[p]) \in Nat /\ (Len(given[p]) = 0 <=> given[p] = <<>>)
      BY <3>1, QueueEmpty
    <3>5. Len(events[p]) = 0 \/ Len(events[p]) = 1
      BY <3>2, <3>3 DEF GmLocal
    <3>6. Len(given[p]) = 0 \/ Len(given[p]) = 1
      BY <3>2, <3>4 DEF GmLocal, Given
    <3>7. \A x \in Nat : (x = 0 \/ x = 1) => x <= 1
      OBVIOUS
    <3> QED  BY <3>3, <3>4, <3>5, <3>6, <3>7, Zenon
  <2> QED  BY <1>0, <2>1, GmTyped DEF GM!TypeOK
<1>2. GM!NrepeatIsRight
  BY DEF GM!NrepeatIsRight, GmInv, GmAsking, GmHeard, Behind, GmAhead, GmLooping, GmMeeting, GmAwaits, GmThrough
<1>3. GM!LandsInItsBuffer
  <2> SUFFICES ASSUME NEW p \in GM!Proc, sends[p] # <<>>,
                      NEW x \in GM!Fitting(GM!Peer(p), Head(sends[p]).size)
               PROVE  <<Head(sends[p]).buf, given[GM!Peer(p)][x].buf>>
                          \in {<<"hello", "hello">>, <<"lrpt", "lrpt">>, <<"sync", "sync1">>, <<"s_buff", "r_buff">>}
    BY DEF GM!LandsInItsBuffer
  <2> DEFINE q == GM!Peer(p)
  <2>1. q \in GM!Proc /\ q # p
    BY DEF GM!Peer
  <2>2. sends[p] \in Seq(GmMessage) /\ given[q] \in Seq(GmProvided) /\ GmTaken \in Int /\ GmSent \in Int /\ k["rcv"] \in 1..2 /\ left["rcv"] \in Nat
    BY <1>0, <2>1, GmTyped, GmCounts
  <2>3. Given(q) /\ x \in DOMAIN given[q]
    BY <2>2 DEF GM!Fitting, Given
  <2>4. Len(given[q]) = 1 /\ pc[q] \in GmIn /\ given[q][1].buf = GmBuffer(q)
    BY <2>1, <2>3 DEF GmInv, GmLocal
  <2>5. x = 1 /\ Head(sends[p]) = sends[p][1] /\ Len(sends[p]) \in Nat \ {0}
    BY <2>2, <2>3, <2>4, QueueLess
  <2>6. <<sends[p][1].buf, GmBuffer(q)>>
            \in {<<"hello", "hello">>, <<"lrpt", "lrpt">>, <<"sync", "sync1">>, <<"s_buff", "r_buff">>}
    <3>1. CASE p = "tr" /\ GmAsking
      <4>1. q = "rcv" /\ sends["tr"][1].buf = GmKind(GmTaken + 1)
        BY <2>5, <3>1 DEF GM!Peer, GmAsking, GmStream
      <4>2. CASE pc["rcv"] = "hello"
        <5>1. GmTaken = 0 - 1
          BY <2>3, <4>1, <4>2 DEF GmTaken, Behind
        <5> QED  BY <3>1, <4>1, <4>2, <5>1 DEF GmKind, GmBuffer
      <4>3. CASE pc["rcv"] = "inRepeat"
        <5>1. GmTaken = k["rcv"] - 1
          BY <2>3, <3>1, <4>1, <4>3 DEF GmTaken, Behind, GmAsking
        <5> QED  BY <2>2, <3>1, <4>1, <4>3, <5>1 DEF GmKind, GmBuffer
      <4>4. CASE pc["rcv"] = "inSync"
        <5>1. GmTaken \in {0 - 1, 2}
          BY <2>3, <4>1, <4>4 DEF GmTaken
        <5> QED  BY <3>1, <4>1, <4>4, <5>1 DEF GmKind, GmBuffer
      <4> QED  BY <2>4, <3>1, <4>1, <4>2, <4>3, <4>4 DEF GmAsking, GmIn
    <3>2. CASE p = "tr" /\ GmLooping
      <4>1. ~NoMessage("tr") /\ q = "rcv"
        BY <2>5, <3>2 DEF NoMessage, GM!Peer
      <4>2. CASE GmMeeting
        BY <2>3, <3>2, <4>1, <4>2 DEF GmLooping, GmMeeting, GmAwaits, GmThrough, GmBuffer, OneMessage
      <4>3. CASE ~GmMeeting
        <5>1. GmAwaits /\ OneMessage("tr", "s_buff") /\ left["rcv"] > 0
          BY <3>2, <4>1, <4>3 DEF GmLooping
        <5>2. pc["rcv"] = "inRecv"
          BY <2>2, <2>4, <4>1, <5>1 DEF GmAwaits, GmIn
        <5> QED  BY <3>2, <4>1, <5>1, <5>2 DEF GmBuffer, OneMessage
      <4> QED  BY <4>2, <4>3
    <3>3. CASE p = "rcv"
      <4>1. ~NoMessage("rcv") /\ q = "tr"
        BY <2>5, <3>3 DEF NoMessage, GM!Peer
      <4>2. CASE GmAsking
        BY <2>4, <3>3, <4>1, <4>2 DEF GmAsking, GmIn, GmBuffer, OneMessage
      <4>3. CASE GmAhead
        BY <3>3, <4>1, <4>3 DEF GmAhead, GmBuffer, OneMessage
      <4>4. CASE GmLooping
        <5>1. pc["tr"] = "inRecv" /\ OneMessage("rcv", "s_buff")
          BY <2>4, <4>1, <4>4 DEF GmLooping, GmIn
        <5> QED  BY <3>3, <4>1, <5>1 DEF GmBuffer, OneMessage
      <4> QED  BY <4>2, <4>3, <4>4 DEF GmInv
    <3>4. p = "tr" => ~GmAhead
      BY <2>5 DEF GmAhead, NoMessage
    <3> QED  BY <3>1, <3>2, <3>3, <3>4 DEF GmInv
  <2> QED  BY <2>4, <2>5, <2>6
<1> QED  BY <1>1, <1>2, <1>3

-----------------------------------------------------------------------------
(* PVM: the inductive invariant *)

PvMessage == [what : {"tid", "size", "nrepeat", "data"}, v : Nat]
PvUnset == {"joinTr", "joinRcv", "find", "await", "exit"}

PvTypes ==
    /\ pc \in [PV!Proc -> PV!Labels] /\ k \in [PV!Proc -> 1..2]
    /\ arg \in [PV!Proc -> [1..2 -> Nat]] /\ left \in [PV!Proc -> Nat] /\ calls \in [PV!Proc -> Nat]
    /\ mail \in [PV!Proc -> Seq(PvMessage)]
    /\ tasks \subseteq PV!Proc /\ othertid \in [PV!Proc -> PV!Proc \cup {"none"}]

PvLocal ==
    /\ IF pc["tr"] \in PvUnset THEN calls["tr"] = 0 ELSE othertid["tr"] = "rcv"
    /\ IF pc["rcv"] \in PvUnset THEN calls["rcv"] = 0 ELSE othertid["rcv"] = "tr"
    /\ pc["rcv"] \notin {"idle", "exit", "joinTr", "find"} /\ pc["tr"] \notin {"joinRcv", "await"}
    /\ \A p \in PV!Proc : k[p] = 2 => pc[p] = "repeat"
    /\ calls["tr"] <= MaxCalls /\ (pc["tr"] \notin PvUnset \cup {"idle"} => calls["tr"] < MaxCalls)

\* The task identifier, the sizes and the repeat counts, numbered from 1: how many the
\* transmitter has sent and the receiver has taken.
PvAsked ==
    IF pc["tr"] \in PvUnset THEN 0
    ELSE 1 + 2 * calls["tr"] + (IF pc["tr"] = "idle" THEN 0 ELSE IF pc["tr"] = "repeat" THEN k["tr"] - 1 ELSE 2)
PvTold ==
    IF pc["rcv"] \in PvUnset THEN 0
    ELSE 1 + 2 * calls["rcv"] + (IF pc["rcv"] = "repeat" THEN k["rcv"] - 1 ELSE 2)

\* Message number x.  The transmitter goes on to the next measurement without an
\* answer only when there was nothing to repeat.
PvControl(x, m) ==
    /\ x = 1 => m.what = "tid"
    /\ \A c \in Nat :
        /\ x = 2 + 2 * c => m.what = "size" /\ (c = calls["tr"] => m.v = arg["tr"][1])
        /\ x = 3 + 2 * c => m.what = "nrepeat" /\ m.v = IF c = calls["tr"] THEN arg["tr"][2] ELSE 0

PvData == [what |-> "data", v |-> arg["tr"][1]]

\* What is on its way to the receiver, d messages of data among it.
PvStream(d) ==
    /\ PvTold <= PvAsked /\ Len(mail["rcv"]) = PvAsked - PvTold + d
    /\ \A x \in 1..(PvAsked - PvTold) : PvControl(PvTold + x, mail["rcv"][x])
    /\ d = 1 => mail["rcv"][PvAsked - PvTold + 1] = PvData

\* Where the receiver can be: a measurement or more behind, in the same one, or done.
PvReceiver ==
    /\ calls["rcv"] < calls["tr"] =>
        /\ pc["rcv"] \in {"joinRcv", "await", "repeat", "malloc", "init", "free"}
        /\ pc["rcv"] = "malloc" => arg["rcv"][2] = 0
        /\ pc["rcv"] \in {"init", "free"} => left["rcv"] = 0
    /\ calls["rcv"] = calls["tr"] =>
        /\ pc["rcv"] = "repeat" /\ k["rcv"] = 2 => arg["rcv"][1] = arg["tr"][1]
        /\ pc["rcv"] \notin {"joinRcv", "await", "repeat"} => arg["rcv"] = arg["tr"]
        /\ pc["rcv"] = "init" => left["rcv"] = arg["tr"][2]
        /\ pc["rcv"] \in {"recv", "send"} => left["rcv"] > 0
        /\ pc["rcv"] = "free" => left["rcv"] = 0
    /\ calls["rcv"] > calls["tr"] => calls["rcv"] = calls["tr"] + 1 /\ pc["rcv"] = "repeat" /\ k["rcv"] = 1

\* Repetitions the receiver has before it, or will have.
PvExpects ==
    IF calls["rcv"] > calls["tr"] THEN 0
    ELSE IF calls["rcv"] = calls["tr"] /\ pc["rcv"] \in {"init", "recv", "send", "free"} THEN left["rcv"]
    ELSE arg["tr"][2]

PvAsking ==
    /\ pc["tr"] \in PvUnset \cup {"idle", "repeat"} /\ pc["rcv"] # "send"
    /\ PvStream(0) /\ mail["tr"] = <<>>

PvStands ==
    /\ pc["tr"] \in {"malloc", "init", "send", "free"} /\ pc["rcv"] # "send"
    /\ PvStream(0) /\ mail["tr"] = <<>>
    /\ PvExpects = IF pc["tr"] = "malloc" THEN arg["tr"][2] ELSE left["tr"]
    /\ pc["tr"] = "send" => left["tr"] > 0
    /\ pc["tr"] = "free" => left["tr"] = 0

PvWaits ==
    /\ pc["tr"] = "recv" /\ left["tr"] > 0
    /\ \/ PvStream(1) /\ mail["tr"] = <<>> /\ PvExpects = left["tr"] /\ pc["rcv"] # "send"
       \/ /\ PvStream(0) /\ mail["tr"] = <<>> /\ pc["rcv"] = "send"
          /\ calls["rcv"] = calls["tr"] /\ left["rcv"] = left["tr"]
       \/ /\ PvStream(0) /\ mail["tr"] = <<PvData>> /\ left["tr"] = PvExpects + 1 /\ pc["rcv"] # "send"

PvInv == PvTypes /\ PvLocal /\ PvReceiver /\ (PvAsking \/ PvStands \/ PvWaits)

\* When Init has made receivers of both, each waits for a task identifier.
PvDeaf ==
    /\ pc \in [PV!Proc -> {"joinRcv", "await"}] /\ k \in [PV!Proc -> 1..2] /\ left \in [PV!Proc -> Nat]
    /\ tasks \subseteq PV!Proc /\ othertid \in [PV!Proc -> PV!Proc \cup {"none"}]
    /\ mail = [p \in PV!Proc |-> <<>>]

PvAlways == PvInv \/ PvDeaf

-----------------------------------------------------------------------------
(* PVM: every step keeps the invariant *)

LEMMA PvTyped ==
    ASSUME PvTypes
    PROVE  /\ pc \in [PV!Proc -> PV!Labels] /\ k \in [PV!Proc -> 1..2]
           /\ arg \in [PV!Proc -> [1..2 -> Nat]] /\ left \in [PV!Proc -> Nat] /\ calls \in [PV!Proc -> Nat]
           /\ mail \in [PV!Proc -> Seq(PvMessage)]
  BY DEF PvTypes

LEMMA PvNumbers ==
    ASSUME PvTypes
    PROVE  /\ PvAsked \in Int /\ PvTold \in Int
           /\ mail["rcv"] \in Seq(PvMessage) /\ mail["tr"] \in Seq(PvMessage)
           /\ Len(mail["rcv"]) \in Nat
           /\ k["tr"] \in 1..2 /\ k["rcv"] \in 1..2 /\ calls["tr"] \in Nat /\ calls["rcv"] \in Nat
           /\ left["tr"] \in Nat /\ left["rcv"] \in Nat
           /\ arg["tr"] \in [1..2 -> Nat] /\ arg["rcv"] \in [1..2 -> Nat]
<1>1. /\ mail["rcv"] \in Seq(PvMessage) /\ mail["tr"] \in Seq(PvMessage)
      /\ k["tr"] \in 1..2 /\ k["rcv"] \in 1..2 /\ calls["tr"] \in Nat /\ calls["rcv"] \in Nat
      /\ left["tr"] \in Nat /\ left["rcv"] \in Nat
      /\ arg["tr"] \in [1..2 -> Nat] /\ arg["rcv"] \in [1..2 -> Nat]
  BY PvTyped DEF PV!Proc
<1>2. Len(mail["rcv"]) \in Nat
  BY <1>1, QueueEmpty
<1>3. PvAsked \in Int /\ PvTold \in Int
  <2>1. PvAsked \in Int
    <3>1. (IF pc["tr"] = "idle" THEN 0 ELSE IF pc["tr"] = "repeat" THEN k["tr"] - 1 ELSE 2) \in Int
      BY <1>1
    <3> QED  BY <1>1, <3>1 DEF PvAsked
  <2>2. PvTold \in Int
    <3>1. (IF pc["rcv"] = "repeat" THEN k["rcv"] - 1 ELSE 2) \in Int
      BY <1>1
    <3> QED  BY <1>1, <3>1 DEF PvTold
  <2> QED  BY <2>1, <2>2
<1> QED  BY <1>1, <1>2, <1>3

\* The receiver takes the next of the counts.
LEMMA PvTakes ==
    ASSUME PvTypes, NEW d \in {0, 1}, PvStream(d), PvTold < PvAsked,
           mail'["rcv"] = Tail(mail["rcv"]), PvTold' = PvTold + 1, PvAsked' = PvAsked,
           arg'["tr"] = arg["tr"], calls'["tr"] = calls["tr"]
    PROVE  PvStream(d)'
<1> DEFINE s == mail["rcv"]
<1>1. s \in Seq(PvMessage) /\ Len(s) \in Nat /\ PvAsked \in Int /\ PvTold \in Int
  BY PvNumbers
<1>2. s # <<>>
  BY <1>1, QueueEmpty DEF PvStream
<1>3. Len(s') = Len(s) - 1 /\ \A x \in 1..(Len(s) - 1) : s'[x] = s[x + 1]
  BY <1>1, <1>2, QueueLess
<1>4. PvTold' <= PvAsked' /\ Len(s') = PvAsked' - PvTold' + d
  BY <1>1, <1>3 DEF PvStream
<1>5. ASSUME NEW x \in 1..(PvAsked' - PvTold')  PROVE PvControl(PvTold + x, mail["rcv"][x])'
  <2>1. x + 1 \in 1..(PvAsked - PvTold) /\ x \in 1..(Len(s) - 1)
    BY <1>1 DEF PvStream
  <2>2. PvControl(PvTold + (x + 1), s[x + 1])
    BY <2>1 DEF PvStream
  <2>3. PvTold' + x = PvTold + (x + 1) /\ s'[x] = s[x + 1]
    BY <1>1, <1>3, <2>1
  <2> QED  BY <2>2, <2>3 DEF PvControl
<1>6. d = 1 => s'[PvAsked' - PvTold' + 1] = PvData'
  <2> SUFFICES ASSUME d = 1 PROVE s'[PvAsked' - PvTold' + 1] = PvData'
    OBVIOUS
  <2>1. PvAsked' - PvTold' + 1 = PvAsked - PvTold /\ PvAsked - PvTold \in 1..(Len(s) - 1)
    BY <1>1 DEF PvStream
  <2>2. s'[PvAsked - PvTold] = s[PvAsked - PvTold + 1]
    BY <1>3, <2>1
  <2> QED  BY <2>1, <2>2 DEF PvStream, PvData
<1> QED  BY <1>4, <1>5, <1>6 DEF PvStream

\* The transmitter sends the next of the counts.
LEMMA PvPuts ==
    ASSUME PvTypes, PvStream(0), NEW m \in PvMessage, mail'["rcv"] = Append(mail["rcv"], m),
           PvAsked' = PvAsked + 1, PvTold' = PvTold, PvControl(PvAsked + 1, m),
           arg'["tr"] = arg["tr"], calls'["tr"] = calls["tr"]
    PROVE  PvStream(0)'
<1> DEFINE s == mail["rcv"]
<1>1. s \in Seq(PvMessage) /\ Len(s) \in Nat /\ PvAsked \in Int /\ PvTold \in Int
  BY PvNumbers
<1>2. Len(s') = Len(s) + 1 /\ s'[Len(s) + 1] = m /\ \A x \in 1..Len(s) : s'[x] = s[x]
  BY <1>1, QueueMore
<1>3. PvTold' <= PvAsked' /\ Len(s') = PvAsked' - PvTold' + 0 /\ Len(s) = PvAsked - PvTold
  BY <1>1, <1>2 DEF PvStream
<1>4. ASSUME NEW x \in 1..(PvAsked' - PvTold')  PROVE PvControl(PvTold + x, mail["rcv"][x])'
  <2>1. CASE x \in 1..Len(s)
    <3>1. PvControl(PvTold + x, s[x]) /\ s'[x] = s[x]
      BY <1>2, <1>3, <2>1 DEF PvStream
    <3> QED  BY <3>1 DEF PvControl
  <2>2. CASE x = Len(s) + 1
    <3>1. s'[x] = m /\ PvTold' + x = PvAsked + 1
      BY <1>1, <1>2, <1>3, <2>2
    <3> QED  BY <3>1 DEF PvControl
  <2> QED  BY <1>1, <1>3, <2>1, <2>2
<1>5. 0 # 1
  OBVIOUS
<1> QED  BY <1>3, <1>4, <1>5, Zenon DEF PvStream

LEMMA PvStays ==
    ASSUME NEW d, PvStream(d), mail'["rcv"] = mail["rcv"], PvTold' = PvTold, PvAsked' = PvAsked,
           arg'["tr"] = arg["tr"], calls'["tr"] = calls["tr"]
    PROVE  PvStream(d)'
  BY DEF PvStream, PvControl, PvData

\* The mode stays while the transmitter does.
LEMMA PvKeeps ==
    ASSUME PvAsking \/ PvStands \/ PvWaits, pc["rcv"] # "send", pc'["rcv"] # "send",
           pc'["tr"] = pc["tr"], arg'["tr"] = arg["tr"], left'["tr"] = left["tr"], mail'["tr"] = mail["tr"],
           PvStream(0) => PvStream(0)', PvStream(1) => PvStream(1)', PvExpects' = PvExpects
    PROVE  (PvAsking \/ PvStands \/ PvWaits)'
<1>1. PvAsking => PvAsking'
  BY DEF PvAsking
<1>2. PvStands => PvStands'
  BY DEF PvStands
<1>3. PvWaits => PvWaits'
  BY DEF PvWaits, PvData
<1> QED  BY <1>1, <1>2, <1>3

LEMMA PvStarts == PV!Init => PvAlways
<1> SUFFICES ASSUME PV!Init, ~PvDeaf PROVE PvInv
  BY DEF PvAlways
<1> USE DEF PV!Init, PV!Proc, PV!All
<1>0. mail = [t \in PV!Proc |-> <<>>] /\ tasks = {}
  OBVIOUS
<1>9. pc = [p \in PV!Proc |-> IF p = "tr" THEN "joinTr" ELSE "joinRcv"]
  <2>1. ASSUME pc = [p \in PV!Proc |-> "joinRcv"]  PROVE FALSE
    BY <1>0, <2>1 DEF PvDeaf
  <2>2. PICK order \in Orders :
            pc = [p \in PV!Proc |-> IF p = "tr" /\ order = "initFirst" THEN "joinTr" ELSE "joinRcv"]
    BY DEF PV!Init
  <2> QED  BY <2>1, <2>2
<1>1. PvTypes
  <2>1. <<0, 0>> \in [1..2 -> Nat]
    OBVIOUS
  <2>2. <<>> \in Seq(PvMessage)
    OBVIOUS
  <2> QED  BY <1>0, <1>9, <2>1, <2>2 DEF PvTypes, PV!Labels
<1>2. PvLocal
  BY <1>9, BoundsAssumption DEF PvLocal, PvUnset
<1>3. PvReceiver
  BY <1>9 DEF PvReceiver
<1>4. PvAsked = 0 /\ PvTold = 0 /\ Len(mail["rcv"]) = 0 /\ mail["tr"] = <<>>
  BY <1>0, <1>9 DEF PvAsked, PvTold, PvUnset
<1>5. PvStream(0)
  BY <1>4 DEF PvStream
<1> QED  BY <1>1, <1>2, <1>3, <1>4, <1>5, <1>9 DEF PvInv, PvAsking, PvUnset

\* The receiver is somewhere on the way of its measurement.
LEMMA PvTypeSteps ==
    ASSUME PvTypes, NEW p \in PV!Proc, NEW to \in PV!Labels, pc' = [pc EXCEPT ![p] = to]
    PROVE  /\ pc' \in [PV!Proc -> PV!Labels] /\ pc'[p] = to
           /\ \A q \in PV!Proc : q # p => pc'[q] = pc[q]
  BY PvTyped

LEMMA PvJoin ==
    ASSUME PvInv, NEW p \in PV!Proc, PV!Join(p)
    PROVE  PvInv'
<1> USE DEF PV!Proc
<1>0. PvTypes
  BY DEF PvInv
<1>1. /\ tasks' = tasks \cup {p} /\ UNCHANGED <<othertid, k, arg, left, calls, mail>>
      /\ \/ p = "tr" /\ pc[p] = "joinTr" /\ pc' = [pc EXCEPT ![p] = "find"]
         \/ p = "rcv" /\ pc[p] = "joinRcv" /\ pc' = [pc EXCEPT ![p] = "await"]
  BY DEF PV!Join, PV!Goto, PvInv, PvLocal
<1>2. /\ pc' \in [PV!Proc -> PV!Labels] /\ pc'[p] = (IF p = "tr" THEN "find" ELSE "await")
      /\ \A q \in PV!Proc : q # p => pc'[q] = pc[q]
  <2>1. "find" \in PV!Labels /\ "await" \in PV!Labels
    BY DEF PV!Labels
  <2> QED  BY <1>0, <1>1, <2>1, PvTypeSteps
<1>3. PvTypes'
  BY <1>0, <1>1, <1>2 DEF PvTypes
<1>4. PvLocal'
  BY <1>1, <1>2 DEF PvLocal, PvInv, PvUnset
<1>5. PvReceiver'
  BY <1>1, <1>2 DEF PvReceiver, PvInv
<1>6. PvAsked' = PvAsked /\ PvTold' = PvTold
  BY <1>1, <1>2 DEF PvAsked, PvTold, PvUnset
<1>7. \A d \in {0, 1} : PvStream(d) => PvStream(d)'
  BY <1>1, <1>6, PvStays
<1>8. PvExpects' = PvExpects
  BY <1>1, <1>2 DEF PvExpects
<1>9. CASE p = "rcv"
  BY <1>1, <1>2, <1>3, <1>4, <1>5, <1>7, <1>8, <1>9, PvKeeps DEF PvInv
<1>10. CASE p = "tr"
  <2>1. PvAsking
    BY <1>1, <1>10 DEF PvInv, PvStands, PvWaits
  <2>2. PvAsking'
    BY <1>1, <1>2, <1>7, <1>10, <2>1 DEF PvAsking, PvUnset
  <2> QED  BY <1>3, <1>4, <1>5, <2>2 DEF PvInv
<1> QED  BY <1>9, <1>10

LEMMA PvFind ==
    ASSUME PvInv, PV!Find
    PROVE  PvInv'
<1> USE DEF PV!Proc
<1>0. PvTypes
  BY DEF PvInv
<1>1. pc["tr"] = "find" /\ UNCHANGED <<tasks, k, arg, left, calls>>
  BY DEF PV!Find
<1>2. PvAsking /\ calls["tr"] = 0
  BY <1>1 DEF PvInv, PvStands, PvWaits, PvLocal, PvUnset
<1>3. CASE pc' = [pc EXCEPT !["tr"] = "exit"] /\ UNCHANGED <<othertid, mail>>
  <2>1. pc' \in [PV!Proc -> PV!Labels] /\ pc'["tr"] = "exit" /\ pc'["rcv"] = pc["rcv"]
    <3>1. "exit" \in PV!Labels
      BY DEF PV!Labels
    <3> QED  BY <1>0, <1>3, <3>1, PvTypeSteps
  <2>2. PvTypes' /\ PvLocal' /\ PvReceiver'
    BY <1>0, <1>1, <1>3, <2>1 DEF PvTypes, PvLocal, PvReceiver, PvInv, PvUnset
  <2>3. PvAsked' = PvAsked /\ PvTold' = PvTold
    BY <1>1, <2>1 DEF PvAsked, PvTold, PvUnset
  <2>4. PvStream(0)'
    BY <1>1, <1>2, <1>3, <2>3, PvStays DEF PvAsking
  <2> QED  BY <1>2, <1>3, <2>1, <2>2, <2>4 DEF PvInv, PvAsking, PvUnset
<1>4. CASE ~(pc' = [pc EXCEPT !["tr"] = "exit"] /\ UNCHANGED <<othertid, mail>>)
  <2> DEFINE m == [what |-> "tid", v |-> 0]
  <2>1. PICK t \in tasks : /\ t # "tr" /\ othertid' = [othertid EXCEPT !["tr"] = t]
                           /\ mail' = [mail EXCEPT ![t] = Append(@, m)] /\ pc' = [pc EXCEPT !["tr"] = "idle"]
    BY <1>4 DEF PV!Find, PV!Send
  <2>2. t = "rcv" /\ othertid \in [PV!Proc -> PV!Proc \cup {"none"}]
    BY <1>0, <2>1 DEF PvTypes
  <2>3. pc' \in [PV!Proc -> PV!Labels] /\ pc'["tr"] = "idle" /\ pc'["rcv"] = pc["rcv"]
    <3>1. "idle" \in PV!Labels
      BY DEF PV!Labels
    <3> QED  BY <1>0, <2>1, <3>1, PvTypeSteps
  <2>4. m \in PvMessage /\ mail["rcv"] \in Seq(PvMessage) /\ mail \in [PV!Proc -> Seq(PvMessage)]
    BY <1>0, PvTyped DEF PvMessage
  <2>5. mail'["rcv"] = Append(mail["rcv"], m) /\ mail'["tr"] = mail["tr"] /\ mail' \in [PV!Proc -> Seq(PvMessage)]
    <3>1. Append(mail["rcv"], m) \in Seq(PvMessage)
      BY <2>4, QueueMore
    <3> QED  BY <2>1, <2>2, <2>4, <3>1
  <2>6. PvTypes'
    <3>1. othertid' \in [PV!Proc -> PV!Proc \cup {"none"}]
      BY <2>1, <2>2
    <3> QED  BY <1>0, <1>1, <2>3, <2>5, <3>1 DEF PvTypes
  <2>7. othertid'["tr"] = "rcv" /\ othertid'["rcv"] = othertid["rcv"]
    BY <2>1, <2>2
  <2>8. PvLocal' /\ PvReceiver'
    BY <1>1, <1>2, <2>3, <2>7 DEF PvLocal, PvReceiver, PvInv, PvUnset
  <2>9. PvAsked = 0 /\ PvAsked' = 1 /\ PvTold' = PvTold
    BY <1>1, <1>2, <2>3 DEF PvAsked, PvTold, PvUnset
  <2>10. PvStream(0)'
    <3>1. PvControl(PvAsked + 1, m)
      BY <2>9 DEF PvControl
    <3> QED  BY <1>0, <1>1, <1>2, <2>4, <2>5, <2>9, <3>1, PvPuts DEF PvAsking
  <2>11. PvAsking'
    BY <1>2, <2>3, <2>5, <2>10 DEF PvAsking
  <2> QED  BY <2>6, <2>8, <2>11 DEF PvInv
<1> QED  BY <1>3, <1>4

LEMMA PvFound ==
    ASSUME PvInv, NEW p \in PV!Proc, PV!Found(p)
    PROVE  PvInv'
<1> USE DEF PV!Proc
<1>0. PvTypes
  BY DEF PvInv
<1>1. /\ pc["rcv"] = "await" /\ pc' = [pc EXCEPT !["rcv"] = "repeat"] /\ mail["rcv"] # <<>>
      /\ mail' = [mail EXCEPT !["rcv"] = Tail(@)] /\ othertid' = [othertid EXCEPT !["rcv"] = "tr"]
      /\ UNCHANGED <<tasks, k, arg, left, calls>>
  <2>1. pc[p] = "await"
    BY DEF PV!Found, PV!Goto
  <2>2. p = "rcv"
    BY <2>1 DEF PvInv, PvLocal
  <2> QED  BY <2>2 DEF PV!Found, PV!Goto, PV!Recv, PV!Peer
<1>2. /\ PvAsked \in Int /\ mail["rcv"] \in Seq(PvMessage) /\ k["rcv"] \in 1..2 /\ calls["tr"] \in Nat
      /\ Len(mail["rcv"]) \in Nat /\ k["tr"] \in 1..2
  BY <1>0, PvNumbers
<1>3. pc' \in [PV!Proc -> PV!Labels] /\ pc'["rcv"] = "repeat" /\ pc'["tr"] = pc["tr"]
  <2>1. "repeat" \in PV!Labels
    BY DEF PV!Labels
  <2> QED  BY <1>0, <1>1, <2>1, PvTypeSteps
<1>4. calls["rcv"] = 0 /\ k["rcv"] = 1 /\ PvTold = 0 /\ PvTold' = 1 /\ PvAsked' = PvAsked
  <2>1. calls["rcv"] = 0 /\ k["rcv"] = 1
    BY <1>1, <1>2 DEF PvInv, PvLocal, PvUnset
  <2> QED  BY <1>1, <1>3, <2>1 DEF PvTold, PvAsked, PvUnset
<1>5. mail'["rcv"] = Tail(mail["rcv"]) /\ mail'["tr"] = mail["tr"] /\ mail' \in [PV!Proc -> Seq(PvMessage)]
  <2>1. Tail(mail["rcv"]) \in Seq(PvMessage) /\ mail \in [PV!Proc -> Seq(PvMessage)]
    BY <1>0, <1>1, <1>2, QueueLess, PvTyped
  <2> QED  BY <1>1, <2>1
<1>6. othertid' \in [PV!Proc -> PV!Proc \cup {"none"}] /\ othertid'["rcv"] = "tr" /\ othertid'["tr"] = othertid["tr"]
  BY <1>0, <1>1 DEF PvTypes
<1>7. PvTypes'
  BY <1>0, <1>1, <1>3, <1>5, <1>6 DEF PvTypes
<1>8. PvLocal'
  BY <1>1, <1>3, <1>6 DEF PvLocal, PvInv, PvUnset
<1>9. PvReceiver'
  BY <1>1, <1>2, <1>3, <1>4 DEF PvReceiver
<1>10. PvExpects' = PvExpects
  BY <1>1, <1>3 DEF PvExpects
<1>11. PvTold < PvAsked
  <2>1. Len(mail["rcv"]) > 0
    BY <1>1, <1>2, QueueEmpty
  <2>2. PvStream(0) => PvAsked > 0
    BY <1>2, <1>4, <2>1 DEF PvStream
  <2>3. pc["tr"] = "recv" => PvAsked > 0
    BY <1>2 DEF PvAsked, PvUnset
  <2> QED  BY <1>2, <1>4, <2>2, <2>3 DEF PvInv, PvAsking, PvStands, PvWaits
<1>12. \A d \in {0, 1} : PvStream(d) => PvStream(d)'
  <2>1. PvTold' = PvTold + 1
    BY <1>4
  <2> QED  BY <1>0, <1>1, <1>4, <1>5, <1>11, <2>1, PvTakes
<1>13. (PvAsking \/ PvStands \/ PvWaits)'
  BY <1>1, <1>3, <1>5, <1>10, <1>12, PvKeeps DEF PvInv
<1> QED  BY <1>7, <1>8, <1>9, <1>13 DEF PvInv

LEMMA PvCall ==
    ASSUME PvInv, NEW p \in PV!Proc, PV!Call(p)
    PROVE  PvInv'
<1> USE DEF PV!Proc
<1>0. PvTypes
  BY DEF PvInv
<1>1. /\ p = "tr" /\ pc["tr"] = "idle" /\ pc' = [pc EXCEPT !["tr"] = "repeat"] /\ calls["tr"] < MaxCalls
      /\ UNCHANGED <<tasks, othertid, k, left, calls, mail>>
  BY DEF PV!Call, PV!Goto
<1>2. PICK r \in Requests["pvm"] : arg' = [arg EXCEPT !["tr"] = r]
  BY <1>1 DEF PV!Call
<1>3. r \in [1..2 -> Nat]
  BY BoundsAssumption
<1>4. /\ PvAsked \in Int /\ PvTold \in Int /\ k["rcv"] \in 1..2 /\ k["tr"] \in 1..2
      /\ calls["tr"] \in Nat /\ calls["rcv"] \in Nat
  BY <1>0, PvNumbers
<1>5. pc' \in [PV!Proc -> PV!Labels] /\ pc'["tr"] = "repeat" /\ pc'["rcv"] = pc["rcv"]
  <2>1. "repeat" \in PV!Labels
    BY DEF PV!Labels
  <2> QED  BY <1>0, <1>1, <2>1, PvTypeSteps
<1>6. arg' \in [PV!Proc -> [1..2 -> Nat]] /\ arg'["tr"] = r /\ arg'["rcv"] = arg["rcv"]
  BY <1>0, <1>2, <1>3, PvTyped
<1>7. PvTypes'
  BY <1>0, <1>1, <1>5, <1>6 DEF PvTypes
<1>8. PvLocal' /\ k["tr"] = 1
  BY <1>1, <1>4, <1>5 DEF PvLocal, PvInv, PvUnset
<1>9. PvAsked = 1 + 2 * calls["tr"] /\ PvAsked' = PvAsked /\ PvTold' = PvTold
  BY <1>1, <1>4, <1>5, <1>8 DEF PvAsked, PvTold, PvUnset
<1>10. PvAsking
  BY <1>1 DEF PvInv, PvStands, PvWaits
<1>11. /\ calls["rcv"] <= calls["tr"]
       /\ calls["rcv"] = calls["tr"] => pc["rcv"] \in {"joinRcv", "await"} \/ (pc["rcv"] = "repeat" /\ k["rcv"] = 1)
  <2>1. PvTold <= 1 + 2 * calls["tr"]
    BY <1>9, <1>10 DEF PvAsking, PvStream
  <2>2. pc["rcv"] \in PvUnset => calls["rcv"] = 0 /\ pc["rcv"] \in {"joinRcv", "await"}
    BY DEF PvInv, PvLocal, PvUnset
  <2>3. pc["rcv"] \notin PvUnset /\ pc["rcv"] # "repeat" => PvTold = 3 + 2 * calls["rcv"]
    BY <1>4 DEF PvTold
  <2>4. pc["rcv"] = "repeat" => PvTold = k["rcv"] + 2 * calls["rcv"]
    BY <1>4 DEF PvTold, PvUnset
  <2> QED  BY <1>4, <2>1, <2>2, <2>3, <2>4
<1>12. PvReceiver'
  BY <1>1, <1>4, <1>5, <1>6, <1>11 DEF PvReceiver, PvInv
<1>13. PvStream(0)'
  <2>1. ASSUME NEW x \in 1..(PvAsked - PvTold)  PROVE PvControl(PvTold + x, mail["rcv"][x])'
    <3>1. PvControl(PvTold + x, mail["rcv"][x])
      BY <1>10 DEF PvAsking, PvStream
    <3>2. PvTold + x \in Int /\ PvTold + x <= 1 + 2 * calls["tr"]
      BY <1>4, <1>9
    <3>3. \A c \in Nat : PvTold + x = 2 + 2 * c => c # calls["tr"]
      BY <1>4, <3>2
    <3>4. \A c \in Nat : PvTold + x = 3 + 2 * c => c # calls["tr"]
      BY <1>4, <3>2
    <3> QED  BY <1>1, <1>9, <3>1, <3>3, <3>4 DEF PvControl
  <2> QED  BY <1>1, <1>9, <1>10, <2>1 DEF PvAsking, PvStream
<1>14. PvAsking'
  BY <1>1, <1>5, <1>10, <1>13 DEF PvAsking
<1> QED  BY <1>7, <1>8, <1>12, <1>14 DEF PvInv

LEMMA PvSendRepeat ==
    ASSUME PvInv, NEW p \in PV!Proc, PV!SendRepeat(p)
    PROVE  PvInv'
<1> USE DEF PV!Proc
<1> DEFINE m == [what |-> IF k["tr"] = 1 THEN "size" ELSE "nrepeat", v |-> arg["tr"][k["tr"]]]
           to == IF k["tr"] = 1 THEN "repeat" ELSE "malloc"
<1>0. PvTypes
  BY DEF PvInv
<1>1. /\ p = "tr" /\ pc["tr"] = "repeat" /\ pc' = [pc EXCEPT !["tr"] = to]
      /\ mail' = [mail EXCEPT ![othertid["tr"]] = Append(@, m)] /\ k' = [k EXCEPT !["tr"] = 3 - k["tr"]]
      /\ UNCHANGED <<tasks, othertid, arg, left, calls>>
  BY DEF PV!SendRepeat, PV!Goto, PV!Send
<1>2. /\ PvAsked \in Int /\ PvTold \in Int /\ k["rcv"] \in 1..2 /\ k["tr"] \in 1..2
      /\ calls["tr"] \in Nat /\ calls["rcv"] \in Nat /\ arg["tr"] \in [1..2 -> Nat] /\ mail["rcv"] \in Seq(PvMessage)
  BY <1>0, PvNumbers
<1>3. pc' \in [PV!Proc -> PV!Labels] /\ pc'["tr"] = to /\ pc'["rcv"] = pc["rcv"]
  <2>1. to \in PV!Labels
    BY DEF PV!Labels
  <2> HIDE DEF to
  <2> QED  BY <1>0, <1>1, <2>1, PvTypeSteps
<1>4. k' \in [PV!Proc -> 1..2] /\ k'["tr"] = 3 - k["tr"] /\ k'["rcv"] = k["rcv"]
  <2>1. 3 - k["tr"] \in 1..2 /\ k \in [PV!Proc -> 1..2]
    BY <1>0, <1>2, PvTyped
  <2> QED  BY <1>1, <2>1
<1>5. m \in PvMessage
  <2>1. arg["tr"][k["tr"]] \in Nat
    BY <1>2
  <2> QED  BY <2>1 DEF PvMessage
<1>6. othertid["tr"] = "rcv" /\ mail \in [PV!Proc -> Seq(PvMessage)]
  BY <1>0, <1>1, PvTyped DEF PvInv, PvLocal, PvUnset
<1>7. mail'["rcv"] = Append(mail["rcv"], m) /\ mail'["tr"] = mail["tr"] /\ mail' \in [PV!Proc -> Seq(PvMessage)]
  <2>1. Append(mail["rcv"], m) \in Seq(PvMessage)
    BY <1>2, <1>5, QueueMore
  <2> QED  BY <1>1, <1>6, <2>1
<1>8. PvTypes'
  BY <1>0, <1>1, <1>3, <1>4, <1>7 DEF PvTypes
<1>9. PvLocal'
  <2>1. k'["tr"] = 2 => pc'["tr"] = "repeat"
    BY <1>2, <1>3, <1>4
  <2> QED  BY <1>1, <1>3, <1>4, <2>1 DEF PvLocal, PvInv, PvUnset
<1>10. PvReceiver'
  BY <1>1, <1>3, <1>4 DEF PvReceiver, PvInv
<1>11. PvAsked = k["tr"] + 2 * calls["tr"] /\ PvAsked' = PvAsked + 1 /\ PvTold' = PvTold
  <2>1. PvTold' = PvTold
    BY <1>1, <1>3, <1>4 DEF PvTold
  <2>2. CASE k["tr"] = 1
    BY <1>1, <1>2, <1>3, <1>4, <2>1, <2>2 DEF PvAsked, PvUnset
  <2>3. CASE k["tr"] = 2
    BY <1>1, <1>2, <1>3, <1>4, <2>1, <2>3 DEF PvAsked, PvUnset
  <2> QED  BY <1>2, <2>2, <2>3
<1>12. PvAsking
  BY <1>1 DEF PvInv, PvStands, PvWaits
<1>13. PvControl(PvAsked + 1, m)
  <2>1. CASE k["tr"] = 1
    <3>1. PvAsked + 1 = 2 + 2 * calls["tr"] /\ m.what = "size" /\ m.v = arg["tr"][1]
      BY <1>2, <1>11, <2>1
    <3> HIDE DEF m
    <3> QED  BY <1>2, <3>1 DEF PvControl
  <2>2. CASE k["tr"] = 2
    <3>1. PvAsked + 1 = 3 + 2 * calls["tr"] /\ m.what = "nrepeat" /\ m.v = arg["tr"][2]
      BY <1>2, <1>11, <2>2
    <3> HIDE DEF m
    <3> QED  BY <1>2, <3>1 DEF PvControl
  <2> QED  BY <1>2, <2>1, <2>2
<1>14. PvStream(0)'
  <2> HIDE DEF m
  <2> QED  BY <1>0, <1>1, <1>5, <1>7, <1>11, <1>12, <1>13, PvPuts DEF PvAsking
<1>15. CASE k["tr"] = 1
  <2>1. PvAsking'
    BY <1>3, <1>7, <1>12, <1>14, <1>15 DEF PvAsking
  <2> QED  BY <1>8, <1>9, <1>10, <2>1 DEF PvInv
<1>16. CASE k["tr"] = 2
  <2>1. PvTold <= 2 + 2 * calls["tr"]
    BY <1>2, <1>11, <1>12, <1>16 DEF PvAsking, PvStream
  <2>2. pc["rcv"] \in PvUnset => calls["rcv"] = 0 /\ pc["rcv"] \in {"joinRcv", "await"}
    BY DEF PvInv, PvLocal, PvUnset
  <2>3. pc["rcv"] \notin PvUnset /\ pc["rcv"] # "repeat" => PvTold = 3 + 2 * calls["rcv"]
    BY <1>2 DEF PvTold
  <2>4. pc["rcv"] = "repeat" => PvTold = k["rcv"] + 2 * calls["rcv"]
    BY <1>2 DEF PvTold, PvUnset
  <2>5. calls["rcv"] <= calls["tr"] /\ (calls["rcv"] = calls["tr"] => pc["rcv"] \in {"joinRcv", "await", "repeat"})
    <3>1. CASE pc["rcv"] \in PvUnset
      BY <1>2, <2>2, <3>1
    <3>2. CASE pc["rcv"] = "repeat"
      BY <1>2, <2>1, <2>4, <3>2
    <3>3. CASE pc["rcv"] \notin PvUnset /\ pc["rcv"] # "repeat"
      BY <1>2, <2>1, <2>3, <3>3
    <3> QED  BY <3>1, <3>2, <3>3
  <2>6. PvExpects' = arg["tr"][2]
    BY <1>1, <1>2, <1>3, <2>5 DEF PvExpects
  <2>7. PvStands'
    BY <1>1, <1>3, <1>7, <1>12, <1>14, <1>16, <2>6 DEF PvStands, PvAsking
  <2> QED  BY <1>8, <1>9, <1>10, <2>7 DEF PvInv
<1> QED  BY <1>2, <1>15, <1>16

LEMMA PvRecvRepeat ==
    ASSUME PvInv, NEW p \in PV!Proc, PV!RecvRepeat(p)
    PROVE  PvInv'
<1> USE DEF PV!Proc
<1> DEFINE to == IF k["rcv"] = 1 THEN "repeat" ELSE "malloc"
           m == Head(mail["rcv"])
<1>0. PvTypes
  BY DEF PvInv
<1>1. /\ p = "rcv" /\ pc["rcv"] = "repeat" /\ pc' = [pc EXCEPT !["rcv"] = to] /\ mail["rcv"] # <<>>
      /\ mail' = [mail EXCEPT !["rcv"] = Tail(@)] /\ k' = [k EXCEPT !["rcv"] = 3 - k["rcv"]]
      /\ arg' = [arg EXCEPT !["rcv"][k["rcv"]] = m.v]
      /\ UNCHANGED <<tasks, othertid, left, calls>>
  BY DEF PV!RecvRepeat, PV!Goto, PV!Recv
<1>2. /\ PvAsked \in Int /\ PvTold \in Int /\ k["rcv"] \in 1..2 /\ k["tr"] \in 1..2
      /\ calls["tr"] \in Nat /\ calls["rcv"] \in Nat /\ arg["tr"] \in [1..2 -> Nat] /\ arg["rcv"] \in [1..2 -> Nat]
      /\ mail["rcv"] \in Seq(PvMessage) /\ left["tr"] \in Nat /\ Len(mail["rcv"]) \in Nat
  BY <1>0, PvNumbers
<1>3. pc' \in [PV!Proc -> PV!Labels] /\ pc'["rcv"] = to /\ pc'["tr"] = pc["tr"]
  <2>1. to \in PV!Labels
    BY DEF PV!Labels
  <2> HIDE DEF to
  <2> QED  BY <1>0, <1>1, <2>1, PvTypeSteps
<1>4. k' \in [PV!Proc -> 1..2] /\ k'["rcv"] = 3 - k["rcv"] /\ k'["tr"] = k["tr"]
  <2>1. 3 - k["rcv"] \in 1..2 /\ k \in [PV!Proc -> 1..2]
    BY <1>0, <1>2, PvTyped
  <2> QED  BY <1>1, <2>1
<1>5. m \in PvMessage /\ m.v \in Nat /\ m = mail["rcv"][1]
  <2>1. m \in PvMessage /\ m = mail["rcv"][1]
    BY <1>1, <1>2, QueueLess
  <2> QED  BY <2>1 DEF PvMessage
<1>6. mail'["rcv"] = Tail(mail["rcv"]) /\ mail'["tr"] = mail["tr"] /\ mail' \in [PV!Proc -> Seq(PvMessage)]
  <2>1. Tail(mail["rcv"]) \in Seq(PvMessage) /\ mail \in [PV!Proc -> Seq(PvMessage)]
    BY <1>0, <1>1, <1>2, QueueLess, PvTyped
  <2> QED  BY <1>1, <2>1
<1> HIDE DEF m
<1>7. /\ arg' \in [PV!Proc -> [1..2 -> Nat]] /\ arg'["tr"] = arg["tr"]
      /\ arg'["rcv"] = [arg["rcv"] EXCEPT ![k["rcv"]] = m.v]
  <2>1. arg \in [PV!Proc -> [1..2 -> Nat]]
    BY <1>0, PvTyped
  <2>2. [arg["rcv"] EXCEPT ![k["rcv"]] = m.v] \in [1..2 -> Nat]
    BY <1>2, <1>5
  <2> QED  BY <1>1, <2>1, <2>2
<1>8. PvTypes'
  BY <1>0, <1>1, <1>3, <1>4, <1>6, <1>7 DEF PvTypes
<1>9. PvLocal'
  <2>1. k'["rcv"] = 2 => pc'["rcv"] = "repeat"
    BY <1>2, <1>3, <1>4
  <2> QED  BY <1>1, <1>3, <1>4, <2>1 DEF PvLocal, PvInv, PvUnset
<1>10. PvTold = k["rcv"] + 2 * calls["rcv"] /\ PvTold' = PvTold + 1 /\ PvAsked' = PvAsked
  <2>1. PvAsked' = PvAsked
    BY <1>1, <1>3, <1>4 DEF PvAsked
  <2>2. CASE k["rcv"] = 1
    BY <1>1, <1>2, <1>3, <1>4, <2>1, <2>2 DEF PvTold, PvUnset
  <2>3. CASE k["rcv"] = 2
    <3>1. pc'["rcv"] = "malloc" /\ calls'["rcv"] = calls["rcv"] /\ calls["rcv"] \in Nat
      BY <1>1, <1>2, <1>3, <2>3
    <3>2. PvTold' = 1 + 2 * calls["rcv"] + 2
      BY <3>1 DEF PvTold, PvUnset
    <3>3. PvTold = 1 + 2 * calls["rcv"] + (2 - 1)
      BY <1>1, <2>3 DEF PvTold, PvUnset
    <3> QED  BY <2>1, <2>3, <3>1, <3>2, <3>3
  <2> QED  BY <1>2, <2>2, <2>3
<1>11. /\ PvTold < PvAsked /\ \E d \in {0, 1} : PvStream(d)
  <2>1. Len(mail["rcv"]) > 0
    BY <1>1, <1>2, QueueEmpty
  <2>2. PvStream(0) => PvTold < PvAsked
    BY <1>2, <2>1 DEF PvStream
  <2>3. ASSUME PvStream(1), pc["tr"] = "recv", PvExpects = left["tr"], left["tr"] > 0  PROVE PvTold < PvAsked
    <3>1. PvAsked = 3 + 2 * calls["tr"] /\ PvTold <= PvAsked
      BY <1>2, <2>3 DEF PvAsked, PvUnset, PvStream
    <3>2. calls["rcv"] <= calls["tr"]
      BY <1>2, <2>3 DEF PvExpects
    <3>3. \A a, b \in Nat : \A j \in 1..2 : a <= b => j + 2 * a < 3 + 2 * b
      OBVIOUS
    <3>4. k["rcv"] + 2 * calls["rcv"] < 3 + 2 * calls["tr"]
      BY <1>2, <3>2, <3>3
    <3> QED  BY <1>10, <3>1, <3>4
  <2> QED  BY <1>1, <2>2, <2>3 DEF PvInv, PvAsking, PvStands, PvWaits
<1>12. PvControl(PvTold + 1, m) /\ calls["rcv"] <= calls["tr"]
  <2>1. PICK d \in {0, 1} : PvStream(d)
    BY <1>11
  <2>2. PvControl(PvTold + 1, m)
    BY <1>2, <1>5, <1>11, <2>1 DEF PvStream
  <2>3. PvAsked <= 3 + 2 * calls["tr"]
    BY <1>2 DEF PvAsked
  <2>4. calls["rcv"] <= calls["tr"]
    <3>1. \A a, b \in Nat : \A j \in 1..2 : \A c \in Int : (j + 2 * a < c /\ c <= 3 + 2 * b) => a <= b
      OBVIOUS
    <3>2. k["rcv"] + 2 * calls["rcv"] < PvAsked
      BY <1>10, <1>11
    <3> QED  BY <1>2, <2>3, <3>1, <3>2
  <2> QED  BY <2>2, <2>4
<1>13. PvReceiver'
  <2>1. CASE k["rcv"] = 1
    <3>1. calls["rcv"] = calls["tr"] => m.v = arg["tr"][1]
      <4>1. PvTold + 1 = 2 + 2 * calls["rcv"]
        BY <1>2, <1>10, <2>1
      <4> QED  BY <1>2, <1>12, <4>1 DEF PvControl
    <3>2. arg'["rcv"][1] = m.v
      BY <1>2, <1>7, <2>1
    <3> QED  BY <1>1, <1>2, <1>3, <1>7, <1>12, <2>1, <3>1, <3>2 DEF PvReceiver
  <2>2. CASE k["rcv"] = 2
    <3>1. m.v = IF calls["rcv"] = calls["tr"] THEN arg["tr"][2] ELSE 0
      <4>1. PvTold + 1 = 3 + 2 * calls["rcv"]
        BY <1>2, <1>10, <2>2
      <4> QED  BY <1>2, <1>12, <4>1 DEF PvControl
    <3>2. arg'["rcv"][2] = m.v /\ arg'["rcv"][1] = arg["rcv"][1] /\ arg'["rcv"] \in [1..2 -> Nat]
      BY <1>2, <1>5, <1>7, <2>2
    <3>3. calls["rcv"] = calls["tr"] => arg["rcv"][1] = arg["tr"][1]
      BY <1>1, <2>2 DEF PvInv, PvReceiver
    <3>4. calls["rcv"] = calls["tr"] => arg'["rcv"] = arg["tr"]
      BY <1>2, <3>1, <3>2, <3>3
    <3> QED  BY <1>1, <1>2, <1>3, <1>7, <1>12, <2>2, <3>1, <3>2, <3>4 DEF PvReceiver
  <2> QED  BY <1>2, <2>1, <2>2
<1>14. PvExpects' = PvExpects
  BY <1>1, <1>2, <1>3, <1>7, <1>12 DEF PvExpects
<1>15. \A d \in {0, 1} : PvStream(d) => PvStream(d)'
  BY <1>0, <1>1, <1>6, <1>7, <1>10, <1>11, PvTakes
<1>16. (PvAsking \/ PvStands \/ PvWaits)'
  BY <1>1, <1>3, <1>6, <1>7, <1>14, <1>15, PvKeeps DEF PvInv
<1> QED  BY <1>8, <1>9, <1>13, <1>16 DEF PvInv

LEMMA PvMyMalloc ==
    ASSUME PvInv, NEW p \in PV!Proc, PV!MyMalloc(p)
    PROVE  PvInv'
<1> USE DEF PV!Proc
<1>0. PvTypes
  BY DEF PvInv
<1>1. /\ pc[p] = "malloc" /\ pc' = [pc EXCEPT ![p] = "init"] /\ left' = [left EXCEPT ![p] = arg[p][2]]
      /\ UNCHANGED <<tasks, othertid, k, arg, calls, mail>>
  BY DEF PV!MyMalloc, PV!Goto
<1>2. arg[p] \in [1..2 -> Nat] /\ left \in [PV!Proc -> Nat] /\ calls["tr"] \in Nat /\ calls["rcv"] \in Nat
  BY <1>0, PvTyped
<1>3. pc' \in [PV!Proc -> PV!Labels] /\ pc'[p] = "init" /\ \A q \in PV!Proc : q # p => pc'[q] = pc[q]
  <2>1. "init" \in PV!Labels
    BY DEF PV!Labels
  <2> QED  BY <1>0, <1>1, <2>1, PvTypeSteps
<1>4. left' \in [PV!Proc -> Nat] /\ left'[p] = arg[p][2] /\ \A q \in PV!Proc : q # p => left'[q] = left[q]
  <2>1. arg[p][2] \in Nat
    BY <1>2
  <2> QED  BY <1>1, <1>2, <2>1
<1>5. PvTypes'
  BY <1>0, <1>1, <1>3, <1>4 DEF PvTypes
<1>6. PvLocal'
  BY <1>1, <1>3 DEF PvLocal, PvInv, PvUnset
<1>7. PvAsked' = PvAsked /\ PvTold' = PvTold
  BY <1>1, <1>3 DEF PvAsked, PvTold, PvUnset
<1>8. \A d \in {0, 1} : PvStream(d) => PvStream(d)'
  BY <1>1, <1>7, PvStays
<1>9. CASE p = "tr"
  <2>1. PvReceiver' /\ PvExpects' = PvExpects
    BY <1>1, <1>3, <1>4, <1>9 DEF PvReceiver, PvInv, PvExpects
  <2>2. PvStands
    BY <1>1, <1>9 DEF PvInv, PvAsking, PvWaits, PvUnset
  <2>3. PvStands'
    BY <1>1, <1>3, <1>4, <1>8, <1>9, <2>1, <2>2 DEF PvStands
  <2> QED  BY <1>5, <1>6, <2>1, <2>3 DEF PvInv
<1>10. CASE p = "rcv"
  <2>1. PvReceiver'
    BY <1>1, <1>3, <1>4, <1>10 DEF PvReceiver, PvInv
  <2>2. PvExpects' = PvExpects
    <3>1. calls["rcv"] = calls["tr"] => arg["rcv"] = arg["tr"]
      BY <1>1, <1>10 DEF PvInv, PvReceiver
    <3> QED  BY <1>1, <1>3, <1>4, <1>10, <3>1 DEF PvExpects
  <2>3. (PvAsking \/ PvStands \/ PvWaits)'
    BY <1>1, <1>3, <1>4, <1>8, <1>10, <2>2, PvKeeps DEF PvInv
  <2> QED  BY <1>5, <1>6, <2>1, <2>3 DEF PvInv
<1> QED  BY <1>9, <1>10

LEMMA PvSync ==
    ASSUME PvInv, NEW p \in PV!Proc, PV!Sync(p)
    PROVE  PvInv'
<1> USE DEF PV!Proc
<1> DEFINE to == PV!LoopHead(p, left[p])
<1>0. PvTypes
  BY DEF PvInv
<1>1. /\ pc[p] = "init" /\ pc' = [pc EXCEPT ![p] = to]
      /\ UNCHANGED <<tasks, othertid, k, arg, left, calls, mail>>
  BY DEF PV!Sync, PV!Goto
<1>2. left["tr"] \in Nat /\ left["rcv"] \in Nat /\ calls["tr"] \in Nat /\ calls["rcv"] \in Nat
  BY <1>0, PvTyped
<1>3. pc' \in [PV!Proc -> PV!Labels] /\ pc'[p] = to /\ \A q \in PV!Proc : q # p => pc'[q] = pc[q]
  <2>1. to \in PV!Labels
    BY DEF PV!Labels, PV!LoopHead
  <2> HIDE DEF to
  <2> QED  BY <1>0, <1>1, <2>1, PvTypeSteps
<1>4. to = IF left[p] = 0 THEN "free" ELSE IF p = "tr" THEN "send" ELSE "recv"
  BY DEF PV!LoopHead
<1> HIDE DEF to
<1>5. PvTypes'
  BY <1>0, <1>1, <1>3 DEF PvTypes
<1>6. PvLocal'
  BY <1>1, <1>3, <1>4 DEF PvLocal, PvInv, PvUnset
<1>7. PvAsked' = PvAsked /\ PvTold' = PvTold
  BY <1>1, <1>3, <1>4 DEF PvAsked, PvTold, PvUnset
<1>8. \A d \in {0, 1} : PvStream(d) => PvStream(d)'
  BY <1>1, <1>7, PvStays
<1>9. CASE p = "tr"
  <2>1. PvReceiver' /\ PvExpects' = PvExpects
    BY <1>1, <1>3, <1>9 DEF PvReceiver, PvInv, PvExpects
  <2>2. PvStands
    BY <1>1, <1>9 DEF PvInv, PvAsking, PvWaits, PvUnset
  <2>3. PvStands'
    BY <1>1, <1>2, <1>3, <1>4, <1>8, <1>9, <2>1, <2>2 DEF PvStands
  <2> QED  BY <1>5, <1>6, <2>1, <2>3 DEF PvInv
<1>10. CASE p = "rcv"
  <2>1. PvReceiver'
    BY <1>1, <1>2, <1>3, <1>4, <1>10 DEF PvReceiver, PvInv
  <2>2. PvExpects' = PvExpects
    BY <1>1, <1>2, <1>3, <1>4, <1>10 DEF PvExpects
  <2>3. (PvAsking \/ PvStands \/ PvWaits)'
    BY <1>1, <1>3, <1>4, <1>8, <1>10, <2>2, PvKeeps DEF PvInv
  <2> QED  BY <1>5, <1>6, <2>1, <2>3 DEF PvInv
<1> QED  BY <1>9, <1>10

LEMMA PvFreeBuff ==
    ASSUME PvInv, NEW p \in PV!Proc, PV!FreeBuff(p)
    PROVE  PvInv'
<1> USE DEF PV!Proc
<1> DEFINE to == IF p = "tr" THEN "idle" ELSE "repeat"
<1>0. PvTypes
  BY DEF PvInv
<1>1. /\ pc[p] = "free" /\ pc' = [pc EXCEPT ![p] = to] /\ calls' = [calls EXCEPT ![p] = @ + 1]
      /\ UNCHANGED <<tasks, othertid, k, arg, left, mail>>
  BY DEF PV!FreeBuff, PV!Goto
<1>2. /\ left["tr"] \in Nat /\ left["rcv"] \in Nat /\ calls["tr"] \in Nat /\ calls["rcv"] \in Nat
      /\ k["rcv"] \in 1..2 /\ k["tr"] \in 1..2 /\ PvAsked \in Int /\ PvTold \in Int /\ calls \in [PV!Proc -> Nat]
  BY <1>0, PvTyped, PvNumbers
<1>3. pc' \in [PV!Proc -> PV!Labels] /\ pc'[p] = to /\ \A q \in PV!Proc : q # p => pc'[q] = pc[q]
  <2>1. to \in PV!Labels
    BY DEF PV!Labels
  <2> HIDE DEF to
  <2> QED  BY <1>0, <1>1, <2>1, PvTypeSteps
<1>4. calls' \in [PV!Proc -> Nat] /\ calls'[p] = calls[p] + 1 /\ \A q \in PV!Proc : q # p => calls'[q] = calls[q]
  <2>1. calls[p] + 1 \in Nat
    BY <1>2
  <2> QED  BY <1>1, <1>2, <2>1
<1>5. PvTypes'
  BY <1>0, <1>1, <1>3, <1>4 DEF PvTypes
<1>6. k[p] = 1
  BY <1>1, <1>2 DEF PvInv, PvLocal
<1>7. CASE p = "tr"
  <2>1. pc["tr"] = "free" /\ pc'["tr"] = "idle" /\ pc'["rcv"] = pc["rcv"]
        /\ calls'["tr"] = calls["tr"] + 1 /\ calls'["rcv"] = calls["rcv"]
    BY <1>1, <1>3, <1>4, <1>7
  <2>2. PvLocal'
    <3>1. calls["tr"] + 1 <= MaxCalls
      BY <1>2, <2>1, BoundsAssumption DEF PvLocal, PvInv, PvUnset
    <3> QED  BY <1>1, <2>1, <3>1 DEF PvLocal, PvInv, PvUnset
  <2>3. PvStands /\ PvExpects = 0
    BY <2>1 DEF PvInv, PvAsking, PvStands, PvWaits, PvUnset
  <2>4. /\ pc["rcv"] \notin {"recv", "send"}
        /\ calls["rcv"] = calls["tr"] /\ pc["rcv"] = "malloc" => arg["rcv"][2] = 0
        /\ calls["rcv"] <= calls["tr"] /\ pc["rcv"] \in {"init", "free"} => left["rcv"] = 0
    BY <1>2, <2>3 DEF PvInv, PvReceiver, PvExpects, PvStands
  <2>5. PvReceiver'
    <3>1. CASE calls["rcv"] < calls["tr"]
      BY <1>1, <1>2, <2>1, <3>1 DEF PvReceiver, PvInv
    <3>2. CASE calls["rcv"] = calls["tr"]
      <4>1. pc["rcv"] \in {"joinRcv", "await", "repeat", "malloc", "init", "free"}
        <5>1. pc["rcv"] \in PV!Labels
          BY <1>0, PvTyped
        <5> QED  BY <2>4, <5>1 DEF PV!Labels, PvInv, PvLocal
      <4> QED  BY <1>1, <1>2, <2>1, <2>4, <3>2, <4>1 DEF PvReceiver
    <3>3. CASE calls["rcv"] > calls["tr"]
      BY <1>1, <1>2, <2>1, <3>3 DEF PvReceiver, PvInv
    <3> QED  BY <1>2, <3>1, <3>2, <3>3
  <2>6. PvAsked = 3 + 2 * calls["tr"] /\ PvAsked' = PvAsked /\ PvTold' = PvTold
    BY <1>1, <1>2, <2>1 DEF PvAsked, PvTold, PvUnset
  <2>7. PvTold < 3 + 2 * calls["tr"] => arg["tr"][2] = 0
    <3>1. calls["rcv"] > calls["tr"] => PvTold = 3 + 2 * calls["tr"]
      BY <1>2 DEF PvInv, PvReceiver, PvTold, PvUnset
    <3>2. calls["rcv"] = calls["tr"] /\ pc["rcv"] \in {"init", "recv", "send", "free"} => PvTold = 3 + 2 * calls["tr"]
      BY <1>2 DEF PvTold, PvUnset
    <3> QED  BY <1>2, <2>3, <3>1, <3>2 DEF PvExpects
  <2>8. PvStream(0)'
    <3>1. ASSUME NEW x \in 1..(PvAsked - PvTold)  PROVE PvControl(PvTold + x, mail["rcv"][x])'
      <4>1. PvControl(PvTold + x, mail["rcv"][x])
        BY <2>3 DEF PvStands, PvStream
      <4>2. PvTold + x \in Int /\ PvTold + x <= 3 + 2 * calls["tr"] /\ arg["tr"][2] = 0
        BY <1>2, <2>6, <2>7
      <4>3. \A c \in Nat : PvTold + x = 2 + 2 * c => c # calls["tr"] + 1
        BY <1>2, <4>2
      <4>4. \A c \in Nat : PvTold + x = 3 + 2 * c => c # calls["tr"] + 1
        BY <1>2, <4>2
      <4> QED  BY <1>1, <2>1, <2>6, <4>1, <4>2, <4>3, <4>4 DEF PvControl
    <3> QED  BY <1>1, <2>3, <2>6, <3>1 DEF PvStands, PvStream
  <2>9. PvAsking'
    BY <1>1, <2>1, <2>3, <2>8 DEF PvStands, PvAsking
  <2> QED  BY <1>5, <2>2, <2>5, <2>9 DEF PvInv
<1>8. CASE p = "rcv"
  <2>1. pc["rcv"] = "free" /\ pc'["rcv"] = "repeat" /\ pc'["tr"] = pc["tr"]
        /\ calls'["rcv"] = calls["rcv"] + 1 /\ calls'["tr"] = calls["tr"]
    BY <1>1, <1>3, <1>4, <1>8
  <2>2. PvLocal'
    BY <1>1, <2>1 DEF PvLocal, PvInv, PvUnset
  <2>3. calls["rcv"] <= calls["tr"] /\ left["rcv"] = 0
    BY <1>2, <2>1 DEF PvInv, PvReceiver
  <2>4. PvReceiver'
    BY <1>1, <1>2, <1>6, <1>8, <2>1, <2>3 DEF PvReceiver
  <2>5. PvAsked' = PvAsked /\ PvTold' = PvTold
    <3>1. PvTold = 3 + 2 * calls["rcv"] /\ PvTold' = 1 + 2 * (calls["rcv"] + 1) + 0
      BY <1>1, <1>2, <1>6, <1>8, <2>1 DEF PvTold, PvUnset
    <3>2. PvAsked' = PvAsked
      BY <1>1, <2>1 DEF PvAsked
    <3> QED  BY <1>2, <3>1, <3>2
  <2>6. \A d \in {0, 1} : PvStream(d) => PvStream(d)'
    BY <1>1, <2>1, <2>5, PvStays
  <2>7. PvExpects' = PvExpects
    BY <1>1, <1>2, <2>1, <2>3 DEF PvExpects
  <2>8. (PvAsking \/ PvStands \/ PvWaits)'
    BY <1>1, <2>1, <2>6, <2>7, PvKeeps DEF PvInv
  <2> QED  BY <1>5, <2>2, <2>4, <2>8 DEF PvInv
<1> QED  BY <1>7, <1>8

\* SendData of the transmitter: data behind the counts.
LEMMA PvSendDataTr ==
    ASSUME PvInv, PV!SendData("tr")
    PROVE  PvInv'
<1> USE DEF PV!Proc
<1>0. PvTypes
  BY DEF PvInv
<1>1. /\ pc["tr"] = "send" /\ pc' = [pc EXCEPT !["tr"] = "recv"]
      /\ mail' = [mail EXCEPT ![othertid["tr"]] = Append(@, PvData)]
      /\ UNCHANGED <<tasks, othertid, k, arg, calls>>
  BY DEF PV!SendData, PV!Send, PvData
<1>2. left' = left
  <2>1. left' = [left EXCEPT !["tr"] = left["tr"]] /\ left \in [PV!Proc -> Nat]
    BY <1>0, PvTyped DEF PV!SendData
  <2> QED  BY <2>1
<1>3. /\ PvAsked \in Int /\ PvTold \in Int /\ arg["tr"] \in [1..2 -> Nat] /\ mail["rcv"] \in Seq(PvMessage)
      /\ mail \in [PV!Proc -> Seq(PvMessage)]
  BY <1>0, PvNumbers, PvTyped
<1>4. pc' \in [PV!Proc -> PV!Labels] /\ pc'["tr"] = "recv" /\ pc'["rcv"] = pc["rcv"]
  <2>1. "recv" \in PV!Labels
    BY DEF PV!Labels
  <2> QED  BY <1>0, <1>1, <2>1, PvTypeSteps
<1>5. othertid["tr"] = "rcv"
  BY <1>1 DEF PvInv, PvLocal, PvUnset
<1>6. PvData \in PvMessage
  BY <1>3 DEF PvData, PvMessage
<1>7. /\ Append(mail["rcv"], PvData) \in Seq(PvMessage) /\ Len(mail["rcv"]) \in Nat
      /\ Len(Append(mail["rcv"], PvData)) = Len(mail["rcv"]) + 1
      /\ Append(mail["rcv"], PvData)[Len(mail["rcv"]) + 1] = PvData
      /\ \A x \in 1..Len(mail["rcv"]) : Append(mail["rcv"], PvData)[x] = mail["rcv"][x]
  BY <1>3, <1>6, QueueMore
<1>8. mail'["rcv"] = Append(mail["rcv"], PvData) /\ mail'["tr"] = mail["tr"] /\ mail' \in [PV!Proc -> Seq(PvMessage)]
  BY <1>1, <1>3, <1>5, <1>7
<1>9. PvTypes'
  BY <1>0, <1>1, <1>2, <1>4, <1>8 DEF PvTypes
<1>10. PvLocal'
  BY <1>1, <1>4 DEF PvLocal, PvInv, PvUnset
<1>11. PvReceiver' /\ PvExpects' = PvExpects
  BY <1>1, <1>2, <1>4 DEF PvReceiver, PvInv, PvExpects
<1>12. PvAsked' = PvAsked /\ PvTold' = PvTold /\ PvData' = PvData
  BY <1>1, <1>4 DEF PvAsked, PvTold, PvUnset, PvData
<1>13. PvStands
  BY <1>1 DEF PvInv, PvAsking, PvWaits, PvUnset
<1>14. Len(mail["rcv"]) = PvAsked - PvTold
  BY <1>3, <1>13 DEF PvStands, PvStream
<1>15. PvStream(1)'
  <2>1. ASSUME NEW x \in 1..(PvAsked - PvTold)  PROVE PvControl(PvTold + x, mail["rcv"][x])'
    <3>1. PvControl(PvTold + x, mail["rcv"][x]) /\ mail'["rcv"][x] = mail["rcv"][x]
      BY <1>7, <1>8, <1>13, <1>14 DEF PvStands, PvStream
    <3> QED  BY <1>1, <1>12, <3>1 DEF PvControl
  <2>2. Len(mail'["rcv"]) = PvAsked - PvTold + 1 /\ mail'["rcv"][PvAsked - PvTold + 1] = PvData
    BY <1>7, <1>8, <1>14
  <2>3. PvTold <= PvAsked
    BY <1>13 DEF PvStands, PvStream
  <2> QED  BY <1>12, <2>1, <2>2, <2>3 DEF PvStream
<1>16. PvWaits'
  BY <1>1, <1>2, <1>4, <1>8, <1>11, <1>13, <1>15 DEF PvStands, PvWaits
<1> QED  BY <1>9, <1>10, <1>11, <1>16 DEF PvInv

\* SendData of the receiver: the answer.
LEMMA PvSendDataRcv ==
    ASSUME PvInv, PV!SendData("rcv")
    PROVE  PvInv'
<1> USE DEF PV!Proc
<1> DEFINE to == IF left["rcv"] - 1 = 0 THEN "free" ELSE "recv"
           m == [what |-> "data", v |-> arg["rcv"][1]]
<1>0. PvTypes
  BY DEF PvInv
<1>1. /\ pc["rcv"] = "send" /\ pc' = [pc EXCEPT !["rcv"] = to]
      /\ mail' = [mail EXCEPT ![othertid["rcv"]] = Append(@, m)]
      /\ left' = [left EXCEPT !["rcv"] = left["rcv"] - 1]
      /\ UNCHANGED <<tasks, othertid, k, arg, calls>>
  BY DEF PV!SendData, PV!Send, PV!LoopHead
<1>2. /\ pc["tr"] = "recv" /\ left["tr"] > 0 /\ PvStream(0) /\ mail["tr"] = <<>>
      /\ calls["rcv"] = calls["tr"] /\ left["rcv"] = left["tr"]
  BY <1>1 DEF PvInv, PvAsking, PvStands, PvWaits
<1>3. /\ arg["tr"] \in [1..2 -> Nat] /\ mail \in [PV!Proc -> Seq(PvMessage)] /\ left \in [PV!Proc -> Nat]
      /\ left["rcv"] \in Nat /\ left["tr"] \in Nat /\ calls["tr"] \in Nat
  BY <1>0, PvNumbers, PvTyped
<1>4. pc' \in [PV!Proc -> PV!Labels] /\ pc'["rcv"] = to /\ pc'["tr"] = pc["tr"]
  <2>1. to \in PV!Labels
    BY DEF PV!Labels
  <2> HIDE DEF to
  <2> QED  BY <1>0, <1>1, <2>1, PvTypeSteps
<1>5. othertid["rcv"] = "tr" /\ arg["rcv"] = arg["tr"]
  BY <1>1, <1>2 DEF PvInv, PvLocal, PvUnset, PvReceiver
<1>6. m = PvData /\ PvData \in PvMessage
  BY <1>3, <1>5 DEF PvData, PvMessage
<1>7. Append(<<>>, PvData) = <<PvData>> /\ <<PvData>> \in Seq(PvMessage)
  BY <1>6
<1>8. mail'["tr"] = <<PvData>> /\ mail'["rcv"] = mail["rcv"] /\ mail' \in [PV!Proc -> Seq(PvMessage)]
  <2>1. mail' = [mail EXCEPT !["tr"] = <<PvData>>]
    BY <1>1, <1>2, <1>3, <1>5, <1>6, <1>7
  <2> QED  BY <1>3, <1>7, <2>1
<1>9. left' \in [PV!Proc -> Nat] /\ left'["rcv"] = left["rcv"] - 1 /\ left'["tr"] = left["tr"]
  <2>1. left["rcv"] - 1 \in Nat
    BY <1>2, <1>3
  <2> QED  BY <1>1, <1>3, <2>1
<1>10. PvTypes'
  BY <1>0, <1>1, <1>4, <1>8, <1>9 DEF PvTypes
<1>11. PvLocal'
  BY <1>1, <1>4 DEF PvLocal, PvInv, PvUnset
<1>12. PvReceiver'
  BY <1>1, <1>2, <1>3, <1>4, <1>5, <1>9 DEF PvReceiver
<1>13. PvAsked' = PvAsked /\ PvTold' = PvTold /\ PvData' = PvData
  BY <1>1, <1>4 DEF PvAsked, PvTold, PvUnset, PvData
<1>14. PvStream(0)'
  BY <1>1, <1>2, <1>8, <1>13, PvStays
<1>15. PvExpects' = left["rcv"] - 1
  BY <1>1, <1>2, <1>3, <1>4, <1>9 DEF PvExpects
<1>16. PvWaits'
  <2>1. left'["tr"] = PvExpects' + 1 /\ pc'["rcv"] # "send"
    BY <1>2, <1>3, <1>4, <1>9, <1>15
  <2> QED  BY <1>2, <1>4, <1>8, <1>9, <1>13, <1>14, <2>1 DEF PvWaits
<1> QED  BY <1>10, <1>11, <1>12, <1>16 DEF PvInv

LEMMA PvRecvDataTr ==
    ASSUME PvInv, PV!RecvData("tr")
    PROVE  PvInv'
<1> USE DEF PV!Proc
<1> DEFINE to == IF left["tr"] - 1 = 0 THEN "free" ELSE "send"
<1>0. PvTypes
  BY DEF PvInv
<1>1. /\ pc["tr"] = "recv" /\ pc' = [pc EXCEPT !["tr"] = to] /\ mail["tr"] # <<>>
      /\ mail' = [mail EXCEPT !["tr"] = Tail(@)]
      /\ left' = [left EXCEPT !["tr"] = left["tr"] - 1]
      /\ UNCHANGED <<tasks, othertid, k, arg, calls>>
  BY DEF PV!RecvData, PV!Recv, PV!LoopHead
<1>2. /\ left["tr"] > 0 /\ PvStream(0) /\ mail["tr"] = <<PvData>> /\ left["tr"] = PvExpects + 1 /\ pc["rcv"] # "send"
  BY <1>1 DEF PvInv, PvAsking, PvStands, PvWaits, PvUnset
<1>3. /\ mail \in [PV!Proc -> Seq(PvMessage)] /\ left \in [PV!Proc -> Nat]
      /\ left["rcv"] \in Nat /\ left["tr"] \in Nat /\ arg["tr"][2] \in Nat
  BY <1>0, PvNumbers, PvTyped
<1>4. pc' \in [PV!Proc -> PV!Labels] /\ pc'["tr"] = to /\ pc'["rcv"] = pc["rcv"]
  <2>1. to \in PV!Labels
    BY DEF PV!Labels
  <2> HIDE DEF to
  <2> QED  BY <1>0, <1>1, <2>1, PvTypeSteps
<1>5. mail'["tr"] = <<>> /\ mail'["rcv"] = mail["rcv"] /\ mail' \in [PV!Proc -> Seq(PvMessage)]
  <2>1. Tail(<<PvData>>) = <<>> /\ <<>> \in Seq(PvMessage)
    OBVIOUS
  <2>2. mail' = [mail EXCEPT !["tr"] = <<>>]
    BY <1>1, <1>2, <1>3, <2>1
  <2> QED  BY <1>3, <2>1, <2>2
<1>6. left' \in [PV!Proc -> Nat] /\ left'["tr"] = left["tr"] - 1 /\ left'["rcv"] = left["rcv"]
  <2>1. left["tr"] - 1 \in Nat
    BY <1>2, <1>3
  <2> QED  BY <1>1, <1>3, <2>1
<1>7. PvTypes'
  BY <1>0, <1>1, <1>4, <1>5, <1>6 DEF PvTypes
<1>8. PvLocal'
  BY <1>1, <1>4 DEF PvLocal, PvInv, PvUnset
<1>9. PvReceiver' /\ PvExpects' = PvExpects
  BY <1>1, <1>4, <1>6 DEF PvReceiver, PvInv, PvExpects
<1>10. PvAsked' = PvAsked /\ PvTold' = PvTold
  BY <1>1, <1>4 DEF PvAsked, PvTold, PvUnset
<1>11. PvStream(0)'
  BY <1>1, <1>2, <1>5, <1>10, PvStays
<1>12. PvStands'
  <2>1. PvExpects \in Int
    BY <1>3 DEF PvExpects
  <2>2. /\ PvExpects' = left'["tr"] /\ (pc'["tr"] = "send" => left'["tr"] > 0)
        /\ (pc'["tr"] = "free" => left'["tr"] = 0) /\ pc'["tr"] \in {"send", "free"}
    BY <1>2, <1>3, <1>4, <1>6, <1>9, <2>1
  <2> QED  BY <1>2, <1>4, <1>5, <1>11, <2>2 DEF PvStands
<1> QED  BY <1>7, <1>8, <1>9, <1>12 DEF PvInv

\* A receiver in recv has taken all the counts, so what is there is the data.
LEMMA PvReceiving ==
    ASSUME PvInv, pc["rcv"] = "recv", mail["rcv"] # <<>>
    PROVE  /\ pc["tr"] = "recv" /\ PvStream(1) /\ mail["tr"] = <<>> /\ left["rcv"] = left["tr"]
           /\ calls["rcv"] = calls["tr"] /\ arg["rcv"] = arg["tr"] /\ PvTold = PvAsked
           /\ Len(mail["rcv"]) = 1 /\ mail["rcv"][1] = PvData
<1>0. PvTypes
  BY DEF PvInv
<1>1. /\ PvAsked \in Int /\ PvTold \in Int /\ k["tr"] \in 1..2 /\ calls["tr"] \in Nat /\ calls["rcv"] \in Nat
      /\ mail["rcv"] \in Seq(PvMessage) /\ Len(mail["rcv"]) \in Nat
  BY <1>0, PvNumbers
<1>2. calls["rcv"] = calls["tr"] /\ arg["rcv"] = arg["tr"]
  BY <1>1 DEF PvInv, PvReceiver
<1>3. PvTold = 3 + 2 * calls["tr"]
  BY <1>1, <1>2 DEF PvTold, PvUnset
<1>4. PvAsked <= 3 + 2 * calls["tr"]
  BY <1>1 DEF PvAsked
<1>5. Len(mail["rcv"]) > 0
  BY <1>1, QueueEmpty
<1>6. ~PvStream(0)
  <2> SUFFICES ASSUME PvStream(0)  PROVE FALSE
    OBVIOUS
  <2>1. Len(mail["rcv"]) = PvAsked - PvTold + 0
    BY DEF PvStream
  <2>2. PvAsked - PvTold <= 0
    BY <1>1, <1>3, <1>4
  <2> QED  BY <1>1, <1>5, <2>1, <2>2
<1>7. pc["tr"] = "recv" /\ PvStream(1) /\ mail["tr"] = <<>> /\ PvExpects = left["tr"]
  BY <1>6 DEF PvInv, PvAsking, PvStands, PvWaits
<1>8. left["rcv"] = left["tr"]
  BY <1>1, <1>2, <1>7 DEF PvExpects
<1>9. PvTold = PvAsked /\ Len(mail["rcv"]) = 1 /\ mail["rcv"][1] = PvData
  <2>1. PvTold = PvAsked
    BY <1>1, <1>3, <1>4, <1>7 DEF PvStream
  <2>2. PvAsked - PvTold = 0
    BY <1>1, <2>1
  <2> QED  BY <1>7, <2>1, <2>2 DEF PvStream
<1> QED  BY <1>2, <1>7, <1>8, <1>9

LEMMA PvRecvDataRcv ==
    ASSUME PvInv, PV!RecvData("rcv")
    PROVE  PvInv'
<1> USE DEF PV!Proc
<1>0. PvTypes
  BY DEF PvInv
<1>1. /\ pc["rcv"] = "recv" /\ pc' = [pc EXCEPT !["rcv"] = "send"] /\ mail["rcv"] # <<>>
      /\ mail' = [mail EXCEPT !["rcv"] = Tail(@)]
      /\ UNCHANGED <<tasks, othertid, k, arg, calls>>
  BY DEF PV!RecvData, PV!Recv
<1>2. left' = left
  <2>1. left' = [left EXCEPT !["rcv"] = left["rcv"]] /\ left \in [PV!Proc -> Nat]
    BY <1>0, PvTyped DEF PV!RecvData
  <2> QED  BY <2>1
<1>3. /\ pc["tr"] = "recv" /\ mail["tr"] = <<>> /\ left["rcv"] = left["tr"]
      /\ calls["rcv"] = calls["tr"] /\ arg["rcv"] = arg["tr"] /\ PvTold = PvAsked /\ Len(mail["rcv"]) = 1
  BY <1>1, PvReceiving
<1>4. /\ mail \in [PV!Proc -> Seq(PvMessage)] /\ mail["rcv"] \in Seq(PvMessage) /\ left["tr"] \in Nat /\ calls["tr"] \in Nat
      /\ PvAsked \in Int
  BY <1>0, PvNumbers, PvTyped
<1>5. pc' \in [PV!Proc -> PV!Labels] /\ pc'["rcv"] = "send" /\ pc'["tr"] = pc["tr"]
  <2>1. "send" \in PV!Labels
    BY DEF PV!Labels
  <2> QED  BY <1>0, <1>1, <2>1, PvTypeSteps
<1>6. Tail(mail["rcv"]) \in Seq(PvMessage) /\ Len(Tail(mail["rcv"])) = 0
  BY <1>1, <1>3, <1>4, QueueLess
<1>7. mail'["rcv"] = Tail(mail["rcv"]) /\ mail'["tr"] = mail["tr"] /\ mail' \in [PV!Proc -> Seq(PvMessage)]
  BY <1>1, <1>4, <1>6
<1>8. PvTypes'
  BY <1>0, <1>1, <1>2, <1>5, <1>7 DEF PvTypes
<1>9. PvLocal'
  BY <1>1, <1>5 DEF PvLocal, PvInv, PvUnset
<1>10. left["tr"] > 0
  BY <1>3 DEF PvInv, PvAsking, PvStands, PvWaits, PvUnset
<1>11. PvReceiver'
  BY <1>1, <1>2, <1>3, <1>4, <1>5, <1>10 DEF PvReceiver
<1>12. PvAsked' = PvAsked /\ PvTold' = PvTold
  BY <1>1, <1>5 DEF PvAsked, PvTold, PvUnset
<1>13. PvStream(0)'
  <2>1. PvAsked' - PvTold' = 0 /\ PvAsked' - PvTold' + 0 = 0 /\ PvTold' <= PvAsked' /\ Len(mail'["rcv"]) = 0
    BY <1>3, <1>4, <1>6, <1>7, <1>12
  <2> QED  BY <2>1 DEF PvStream
<1>14. PvWaits'
  BY <1>1, <1>2, <1>3, <1>5, <1>7, <1>10, <1>13 DEF PvWaits
<1> QED  BY <1>8, <1>9, <1>11, <1>14 DEF PvInv

LEMMA PvSteps == PvInv /\ PV!Next => PvInv'
<1> SUFFICES ASSUME PvInv, NEW p \in PV!Proc, PV!Step(p)
             PROVE  PvInv'
  BY DEF PV!Next
<1>1. PV!SendData(p) => PvInv'
  BY PvSendDataTr, PvSendDataRcv DEF PV!Proc
<1>2. PV!RecvData(p) => PvInv'
  BY PvRecvDataTr, PvRecvDataRcv DEF PV!Proc
<1> QED  BY <1>1, <1>2, PvJoin, PvFind, PvFound, PvCall, PvSendRepeat, PvRecvRepeat, PvMyMalloc, PvSync, PvFreeBuff
            DEF PV!Step

LEMMA PvStutters ==
    ASSUME PvInv, UNCHANGED <<tasks, othertid, pc, k, arg, left, calls, mail>>
    PROVE  PvInv'
<1>1. PvTypes' /\ PvLocal' /\ PvReceiver'
  BY DEF PvInv, PvTypes, PvLocal, PvReceiver
<1>2. PvAsked' = PvAsked /\ PvTold' = PvTold /\ PvExpects' = PvExpects /\ PvData' = PvData
  BY DEF PvAsked, PvTold, PvExpects, PvData
<1>3. (PvStream(0) => PvStream(0)') /\ (PvStream(1) => PvStream(1)')
  BY <1>2, PvStays
<1>4. (PvAsking \/ PvStands \/ PvWaits)'
  BY <1>2, <1>3 DEF PvInv, PvAsking, PvStands, PvWaits
<1> QED  BY <1>1, <1>4 DEF PvInv

LEMMA PvDeafSteps ==
    ASSUME PvDeaf, PV!Next \/ UNCHANGED <<tasks, othertid, pc, k, arg, left, calls, mail>>
    PROVE  PvDeaf'
<1> USE DEF PV!Proc
<1>1. CASE UNCHANGED <<tasks, othertid, pc, k, arg, left, calls, mail>>
  BY <1>1 DEF PvDeaf
<1>2. ASSUME NEW p \in PV!Proc, PV!Step(p)  PROVE PvDeaf'
  <2>1. pc[p] \in {"joinRcv", "await"} /\ mail[p] = <<>>
    BY DEF PvDeaf
  <2>2. PV!Join(p)
    BY <1>2, <2>1 DEF PV!Step, PV!Find, PV!Found, PV!Recv, PV!Call, PV!SendRepeat, PV!RecvRepeat, PV!MyMalloc,
                      PV!Sync, PV!SendData, PV!RecvData, PV!FreeBuff, PV!Goto
  <2> QED  BY <2>1, <2>2 DEF PV!Join, PV!Goto, PvDeaf
<1> QED  BY <1>1, <1>2 DEF PV!Next

PvmInv == built = "pvm" => PvAlways

LEMMA PvmInvariance == Spec => []PvmInv
<1>1. Init => PvmInv
  BY PvStarts DEF Init, PvmInv
<1>2. PvmInv /\ [Next]_vars => PvmInv'
  <2> SUFFICES ASSUME PvmInv, [Next]_vars, built' = "pvm"  PROVE PvAlways'
    BY DEF PvmInv
  <2>1. built = "pvm" /\ PvAlways
    BY SameBuild DEF PvmInv
  <2>2. PvmStep \/ UNCHANGED vars
    BY <2>1 DEF Next, MailboxStep, MpiStep, AtoaStep, GmStep, HeapStep, CopyStep, PatternStep
  <2>3. PV!Next \/ UNCHANGED <<tasks, othertid, pc, k, arg, left, calls, mail>>
    BY <2>2 DEF PvmStep, vars, pvmOnly
  <2>4. CASE PvInv
    BY <2>3, <2>4, PvSteps, PvStutters DEF PvAlways
  <2>5. CASE PvDeaf
    BY <2>3, <2>5, PvDeafSteps DEF PvAlways
  <2> QED  BY <2>1, <2>4, <2>5 DEF PvAlways
<1> QED  BY <1>1, <1>2, PTL DEF Spec

\* What the invariant means when both ends wait to be greeted.
LEMMA PvDeafPromises == PvDeaf => PV!TypeOK /\ PV!UnpacksWhatWasPacked
<1> SUFFICES ASSUME PvDeaf  PROVE PV!TypeOK /\ PV!UnpacksWhatWasPacked
  OBVIOUS
<1> USE DEF PV!Proc
<1>1. pc \in [PV!Proc -> PV!Labels]
  BY DEF PvDeaf, PV!Labels
<1>2. ASSUME NEW p \in PV!Proc  PROVE mail[p] = <<>> /\ Len(mail[p]) <= 2 * MaxCalls + 2
  BY BoundsAssumption DEF PvDeaf
<1>3. PV!TypeOK
  BY <1>1, <1>2 DEF PvDeaf, PV!TypeOK
<1> QED  BY <1>2, <1>3 DEF PV!UnpacksWhatWasPacked

\* What the invariant means for the calls of run_iters.
LEMMA PvPromises ==
    ASSUME PvInv
    PROVE  PV!TypeOK /\ PV!UnpacksWhatWasPacked
<1> USE DEF PV!Proc
<1>0. PvTypes
  BY DEF PvInv
<1>1. /\ PvAsked \in Int /\ PvTold \in Int /\ k["tr"] \in 1..2 /\ k["rcv"] \in 1..2
      /\ calls["tr"] \in Nat /\ calls["rcv"] \in Nat /\ MaxCalls \in Nat
      /\ mail["rcv"] \in Seq(PvMessage) /\ mail["tr"] \in Seq(PvMessage) /\ Len(mail["rcv"]) \in Nat
  BY <1>0, PvNumbers, BoundsAssumption
<1>2. PV!TypeOK
  <2>1. Len(mail["tr"]) <= 2 * MaxCalls + 2
    <3>1. Len(<<>>) = 0 /\ Len(<<PvData>>) = 1
      OBVIOUS
    <3>2. mail["tr"] = <<>> \/ mail["tr"] = <<PvData>>
      BY DEF PvInv, PvAsking, PvStands, PvWaits
    <3>3. 0 <= 2 * MaxCalls + 2 /\ 1 <= 2 * MaxCalls + 2
      BY <1>1
    <3> QED  BY <3>1, <3>2, <3>3, Zenon
  <2>2. PvTold >= 0
    BY <1>1 DEF PvTold
  <2>3. PvStream(0) => Len(mail["rcv"]) <= PvAsked
    BY <1>1, <2>2 DEF PvStream
  <2>4. PvStream(1) => Len(mail["rcv"]) <= PvAsked + 1
    BY <1>1, <2>2 DEF PvStream
  <2>5. PvAsked <= 2 * MaxCalls + 1
    <3>1. CASE pc["tr"] \in PvUnset
      BY <1>1, <3>1 DEF PvAsked
    <3>2. CASE pc["tr"] = "idle"
      BY <1>1, <3>2 DEF PvAsked, PvUnset, PvInv, PvLocal
    <3>3. CASE pc["tr"] \notin PvUnset \cup {"idle"}
      <4>1. calls["tr"] < MaxCalls
        BY <3>3 DEF PvInv, PvLocal
      <4>2. PvAsked <= 3 + 2 * calls["tr"]
        BY <1>1, <3>3 DEF PvAsked
      <4> QED  BY <1>1, <4>1, <4>2
    <3> QED  BY <3>1, <3>2, <3>3
  <2>6. PvStream(0) \/ PvStream(1)
    BY DEF PvInv, PvAsking, PvStands, PvWaits
  <2>7. Len(mail["rcv"]) <= 2 * MaxCalls + 2
    BY <1>1, <2>3, <2>4, <2>5, <2>6
  <2> QED  BY <1>0, <2>1, <2>7 DEF PV!TypeOK, PvTypes
<1>3. ASSUME mail["tr"] # <<>>
      PROVE  pc["tr"] = "recv" /\ Head(mail["tr"]) = [what |-> "data", v |-> arg["tr"][1]]
  <2>1. pc["tr"] = "recv" /\ mail["tr"] = <<PvData>>
    BY <1>3 DEF PvInv, PvAsking, PvStands, PvWaits
  <2> QED  BY <2>1 DEF PvData
<1>4. ASSUME mail["rcv"] # <<>>, pc["rcv"] \in {"await", "repeat"}
      PROVE  PvControl(PvTold + 1, Head(mail["rcv"]))
  <2>1. Len(mail["rcv"]) > 0 /\ Head(mail["rcv"]) = mail["rcv"][1]
    BY <1>1, <1>4, QueueLess
  <2>2. PvStream(0) => PvTold < PvAsked
    BY <1>1, <2>1 DEF PvStream
  <2>3. ASSUME PvStream(1), pc["tr"] = "recv", PvExpects = left["tr"], left["tr"] > 0  PROVE PvTold < PvAsked
    <3>1. PvAsked = 3 + 2 * calls["tr"] /\ PvTold <= PvAsked
      BY <1>1, <2>3 DEF PvAsked, PvUnset, PvStream
    <3>2. calls["rcv"] <= calls["tr"]
      BY <1>1, <2>3 DEF PvExpects
    <3>3. CASE pc["rcv"] = "await"
      BY <1>1, <3>1, <3>3 DEF PvTold, PvUnset
    <3>4. CASE pc["rcv"] = "repeat"
      <4>1. PvTold = k["rcv"] + 2 * calls["rcv"]
        BY <1>1, <3>4 DEF PvTold, PvUnset
      <4>2. \A a, b \in Nat : \A j \in 1..2 : a <= b => j + 2 * a < 3 + 2 * b
        OBVIOUS
      <4>3. k["rcv"] + 2 * calls["rcv"] < 3 + 2 * calls["tr"]
        BY <1>1, <3>2, <4>2
      <4> QED  BY <3>1, <4>1, <4>3
    <3> QED  BY <1>4, <3>3, <3>4
  <2>4. PvTold < PvAsked
    BY <1>4, <2>2, <2>3 DEF PvInv, PvAsking, PvStands, PvWaits
  <2> QED  BY <1>1, <2>1, <2>4 DEF PvInv, PvAsking, PvStands, PvWaits, PvStream
<1>5. ASSUME mail["rcv"] # <<>>
      PROVE  /\ pc["rcv"] = "await" => Head(mail["rcv"]).what = "tid"
             /\ pc["rcv"] = "repeat" => Head(mail["rcv"]).what = IF k["rcv"] = 1 THEN "size" ELSE "nrepeat"
             /\ pc["rcv"] = "recv" => Head(mail["rcv"]) = [what |-> "data", v |-> arg["rcv"][1]]
  <2>1. CASE pc["rcv"] = "await"
    <3>1. PvTold + 1 = 1
      BY <2>1 DEF PvTold, PvUnset
    <3> QED  BY <1>4, <1>5, <2>1, <3>1 DEF PvControl
  <2>2. CASE pc["rcv"] = "repeat"
    <3>1. CASE k["rcv"] = 1
      <4>1. PvTold + 1 = 2 + 2 * calls["rcv"]
        BY <1>1, <2>2, <3>1 DEF PvTold, PvUnset
      <4> QED  BY <1>1, <1>4, <1>5, <2>2, <3>1, <4>1 DEF PvControl
    <3>2. CASE k["rcv"] = 2
      <4>1. PvTold + 1 = 3 + 2 * calls["rcv"]
        BY <1>1, <2>2, <3>2 DEF PvTold, PvUnset
      <4> QED  BY <1>1, <1>4, <1>5, <2>2, <3>2, <4>1 DEF PvControl
    <3> QED  BY <1>1, <3>1, <3>2
  <2>3. CASE pc["rcv"] = "recv"
    <3>1. mail["rcv"][1] = PvData /\ arg["rcv"] = arg["tr"]
      BY <1>5, <2>3, PvReceiving
    <3>2. Head(mail["rcv"]) = mail["rcv"][1]
      BY <1>1, <1>5, QueueLess
    <3> QED  BY <2>3, <3>1, <3>2 DEF PvData
  <2> QED  BY <2>1, <2>2, <2>3
<1>6. PV!UnpacksWhatWasPacked
  BY <1>3, <1>5 DEF PV!UnpacksWhatWasPacked
<1> QED  BY <1>2, <1>6

-----------------------------------------------------------------------------
(* MPI, MPI-2 and TCGMSG: the inductive invariant *)

\* Where a rank is, or will be when the call it is in returns.
Place(r) == IF pc[r] \in {"inAll", "inSend"} THEN back[r] ELSE pc[r]
First(r) == IF r = 0 THEN "send" ELSE "recv"
Second(r) == IF r = 0 THEN "recv" ELSE "send"

MpMessage == [tag : {1, 2}, v : Nat]

MpTypes ==
    /\ lib \in {"mpi", "mpi2", "tcgmsg"}
    /\ pc \in [MP!Rank -> MP!Labels \ {"ended"}] /\ back \in [MP!Rank -> MP!Labels]
    /\ nrepeat \in [MP!Rank -> Nat] /\ left \in [MP!Rank -> Nat]
    /\ mail \in [MP!Rank -> Seq(MpMessage)] /\ recvPosted \in [MP!Rank -> BOOLEAN]
    /\ epoch \in [MP!Rank -> Nat] /\ flying \in [MP!Rank -> Nat]
    /\ buf \in [MP!Rank -> Nat] /\ done \in [MP!Rank -> Nat]

\* The call a rank is in, and what its place says of its loop.
MpCalls(r) ==
    /\ pc[r] = "inSend" => back[r] \in IF r = 0 THEN {"repeat", "malloc", "recv"} ELSE {"echoed"}
    /\ pc[r] = "inSend" /\ lib = "mpi2" => back[r] \in {"repeat", "malloc"}
    /\ pc[r] = "inAll" => back[r] \in IF lib = "mpi2" THEN {"prepare", "send", "recv", "echoed"} ELSE {First(r)}
    /\ pc[r] = "win" => lib = "mpi2"
    /\ recvPosted[r] => lib = "mpi" /\ Place(r) \in {"sync", "recv", First(r)}

MpCounts(r) ==
    /\ Place(r) \in {"idle", "free", "size", "repeat", "malloc"} => left[r] = 0
    /\ Place(r) \in {"free", "idle"} \/ (Place(r) = "size" /\ r = 1) => done[r] = nrepeat[r]
    /\ Place(r) \in {"win", "prepare", "sync"} => left[r] = nrepeat[r] /\ done[r] = 0
    /\ Place(r) \in {"malloc", "win", "prepare", "sync"} => nrepeat[r] > 0
    /\ Place(r) \in {"size", "repeat"} /\ r = 0 => nrepeat[r] > 0
    /\ Place(r) \in {"send", "recv", "echoed"} =>
        /\ left[r] \in 1..nrepeat[r]
        /\ done[r] = nrepeat[r] - left[r] + IF Place(r) \in {"echoed", MP!AfterRecv(r)} THEN 1 ELSE 0

\* Before the loop: the two values that the transmitter has sent and the receiver has
\* taken, and the calls that wait for all ranks.
Passed(r) ==
    CASE Place(r) \in {"idle", "free", "size", "echoed"} -> 0
      [] Place(r) = "repeat" -> 1
      [] OTHER -> 2
Entered(r) ==
    CASE Place(r) = First(r) -> IF lib = "mpi2" THEN 2 ELSE 1
      [] Place(r) \in {"prepare", "sync"} -> IF lib = "mpi2" THEN 1 ELSE 0
      [] OTHER -> 0

Early(r) ==
    \/ Place(r) \in {"idle", "free", "size", "repeat", "malloc", "win", "prepare", "sync"}
    \/ Place(r) = First(r) /\ pc[r] = "inAll" /\ left[r] = nrepeat[r]
    \/ r = 1 /\ Place(r) = "echoed" /\ left[r] = 1

\* Nobody is ahead of the other by more than the call it is in.
Abreast(c0, c1) ==
    /\ epoch[0] + c1 = epoch[1] + c0
    /\ epoch[0] <= epoch[1] + 1 /\ (epoch[0] > epoch[1] => pc[0] = "inAll")
    /\ epoch[1] <= epoch[0] + 1 /\ (epoch[1] > epoch[0] => pc[1] = "inAll")

MpAsking ==
    /\ Early(0) /\ Early(1) /\ ~(Place(0) = First(0) /\ Place(1) = First(1))
    /\ Passed(1) <= Passed(0) /\ Len(mail[1]) = Passed(0) - Passed(1) /\ mail[0] = <<>>
    /\ \A x \in 1..Len(mail[1]) : mail[1][x].tag = 2
    /\ Passed(0) = 2 /\ Passed(1) < 2 => mail[1][Len(mail[1])].v = nrepeat[0]
    /\ Passed(1) = 2 => nrepeat[1] = nrepeat[0]
    /\ Abreast(Entered(0), Entered(1))
    /\ \A r \in MP!Rank : flying[r] = 0 /\ buf[r] = done[r]

\* The loop over messages.  Turns the receiver has before it after the message under way.
Ahead == left[1] - IF Place(1) = "echoed" THEN 1 ELSE 0
MpData == [tag |-> 1, v |-> nrepeat[0] - left[0] + 1]
Finishing == {"echoed", "recv", "free", "idle", "size"}

MpLooping ==
    /\ lib # "mpi2" /\ nrepeat[1] = nrepeat[0] /\ epoch[0] = epoch[1]
    /\ \A r \in MP!Rank : flying[r] = 0 /\ buf[r] = done[r]
    /\ \/ /\ Place(0) = "send" /\ mail[1] = <<>> /\ mail[0] = <<>>
          /\ Place(1) \in {"recv", "echoed"} /\ Ahead = left[0]
       \/ /\ Place(0) = "recv" /\ mail[1] = <<MpData>> /\ mail[0] = <<>>
          /\ Place(1) \in {"recv", "echoed"} /\ Ahead = left[0]
       \/ /\ Place(0) = "recv" /\ mail[1] = <<>> /\ mail[0] = <<>>
          /\ Place(1) = "send" /\ left[1] = left[0]
       \/ /\ Place(0) = "recv" /\ mail[1] = <<>> /\ mail[0] = <<MpData>>
          /\ Place(1) \in Finishing /\ Ahead + 1 = left[0]
       \/ /\ Place(0) = "echoed" /\ mail[1] = <<>> /\ mail[0] = <<>>
          /\ Place(1) \in Finishing /\ Ahead + 1 = left[0]

\* The loop over puts: fences made in it, and puts made.
Fences(r) ==
    2 * (nrepeat[r] - left[r])
    + IF Place(r) = "echoed" THEN 2 ELSE IF Place(r) = Second(r) THEN 1 ELSE 0
PutsDone(r) ==
    nrepeat[r] - left[r] + IF Place(r) \in {"echoed", MP!AfterSend(r)} THEN 1 ELSE 0

\* A put that has not arrived was made by a rank that is in the fence after it, which
\* nobody has left.
PutUnderWay(r, s) ==
    IF flying[r] = 0 THEN buf[r] = PutsDone(s)
    ELSE /\ flying[r] = PutsDone(s) /\ buf[r] = flying[r] - 1
         /\ pc[s] = "inAll" /\ Place(s) = MP!AfterSend(s)
         /\ epoch[r] < epoch[s] \/ (epoch[r] = epoch[s] /\ pc[r] = "inAll")

MpFencing ==
    /\ lib = "mpi2" /\ nrepeat[1] = nrepeat[0] /\ mail[0] = <<>> /\ mail[1] = <<>>
    /\ Place(0) \in {"send", "recv", "echoed"}
    /\ \/ Place(1) \in {"send", "recv", "echoed"}
       \/ Place(0) = "echoed" /\ Place(1) \in {"free", "idle", "size"}
    /\ Abreast(Fences(0), Fences(1))
    /\ PutUnderWay(0, 1) /\ PutUnderWay(1, 0)

MpInv ==
    /\ MpTypes
    /\ \A r \in MP!Rank : MpCalls(r) /\ MpCounts(r)
    /\ MpAsking \/ MpLooping \/ MpFencing

LEMMA MpRanks ==
    /\ MP!Rank = {0, 1} /\ MP!tr = 0 /\ MP!rcv = 1 /\ MP!nbor(0) = 1 /\ MP!nbor(1) = 0
    /\ MP!AfterSend(0) = "recv" /\ MP!AfterSend(1) = "echoed"
    /\ MP!AfterRecv(0) = "echoed" /\ MP!AfterRecv(1) = "send"
    /\ First(0) = "send" /\ First(1) = "recv" /\ Second(0) = "recv" /\ Second(1) = "send"
<1>1. MP!Rank = {0, 1}
  BY DEF MP!Rank
<1>2. MP!tr = 0 /\ MP!rcv = 1
  BY DEF MP!tr, MP!rcv
<1> QED  BY <1>1, <1>2 DEF MP!nbor, MP!AfterSend, MP!AfterRecv, First, Second

\* What a rank does leaves the state of the other alone, but for its mail and its memory.
Still(s) ==
    /\ pc'[s] = pc[s] /\ back'[s] = back[s] /\ nrepeat'[s] = nrepeat[s] /\ left'[s] = left[s]
    /\ recvPosted'[s] = recvPosted[s] /\ epoch'[s] = epoch[s] /\ done'[s] = done[s]

LEMMA MpKept ==
    ASSUME NEW s \in {0, 1}, lib' = lib, Still(s), MpCalls(s), MpCounts(s)
    PROVE  MpCalls(s)' /\ MpCounts(s)' /\ Place(s)' = Place(s)
<1>1. Place(s)' = Place(s)
  BY DEF Place, Still
<1>2. MpCalls(s)'
  BY <1>1 DEF MpCalls, Still, First
<1>3. MpCounts(s)'
  BY <1>1 DEF MpCounts, Still, MP!AfterRecv
<1> QED  BY <1>1, <1>2, <1>3

\* Taking the oldest message of a queue whose messages all have the tag.
LEMMA MpTaken ==
    ASSUME MpTypes, NEW r \in MP!Rank, NEW g \in {1, 2}, mail[r] # <<>>,
           \A x \in 1..Len(mail[r]) : mail[r][x].tag = g, MP!Take(r, g)
    PROVE  /\ MP!Oldest(r, g) = 1
           /\ Len(mail[r]) \in Nat \ {0}
           /\ mail' \in [MP!Rank -> Seq(MpMessage)]
           /\ Len(mail'[r]) = Len(mail[r]) - 1
           /\ \A x \in 1..Len(mail'[r]) : mail'[r][x] = mail[r][x + 1]
           /\ \A s \in MP!Rank \ {r} : mail'[s] = mail[s]
<1> DEFINE q == mail[r]
<1>1. q \in Seq(MpMessage) /\ Len(q) \in Nat /\ DOMAIN q = 1..Len(q)
  BY DEF MpTypes
<1>2. Len(q) # 0
  BY <1>1
<1>3. 1 \in DOMAIN q /\ q[1].tag = g /\ \A h \in 1..(1 - 1) : q[h].tag # g
  BY <1>1, <1>2
<1>4. MP!Oldest(r, g) = 1
  <2> DEFINE o == MP!Oldest(r, g)
  <2>1. o \in DOMAIN q /\ q[o].tag = g /\ \A h \in 1..(o - 1) : q[h].tag # g
    BY <1>3 DEF MP!Oldest
  <2>2. o \in 1..Len(q) /\ (o > 1 => 1 \in 1..(o - 1))
    BY <1>1, <2>1
  <2> QED  BY <1>3, <2>1, <2>2
<1>5. SubSeq(q, 1, 0) = <<>>
  BY <1>1
<1>6. /\ SubSeq(q, 2, Len(q)) \in Seq(MpMessage) /\ Len(SubSeq(q, 2, Len(q))) = Len(q) - 1
      /\ \A x \in 1..(Len(q) - 1) : SubSeq(q, 2, Len(q))[x] = q[x + 1]
  BY <1>1, <1>2
<1>7. mail' = [mail EXCEPT ![r] = SubSeq(q, 1, 0) \o SubSeq(q, 2, Len(q))]
  BY <1>4 DEF MP!Take
<1>8. SubSeq(q, 1, 0) \o SubSeq(q, 2, Len(q)) = SubSeq(q, 2, Len(q))
  BY <1>5, <1>6
<1>9. mail' = [mail EXCEPT ![r] = SubSeq(q, 2, Len(q))]
  BY <1>7, <1>8
<1> HIDE DEF q
<1>10. mail'[r] = SubSeq(q, 2, Len(q)) /\ \A s \in MP!Rank \ {r} : mail'[s] = mail[s]
  BY <1>9 DEF MpTypes
<1>11. mail' \in [MP!Rank -> Seq(MpMessage)]
  BY <1>6, <1>9 DEF MpTypes
<1> QED  BY <1>1, <1>2, <1>4, <1>6, <1>10, <1>11 DEF q

\* Sending.
LEMMA MpSent ==
    ASSUME MpTypes, NEW r \in MP!Rank, NEW g \in {1, 2}, NEW v \in Nat, NEW b \in MP!Labels,
           MP!Send(r, g, v, b)
    PROVE  /\ mail' \in [MP!Rank -> Seq(MpMessage)]
           /\ mail'[MP!nbor(r)] = Append(mail[MP!nbor(r)], [tag |-> g, v |-> v])
           /\ mail'[r] = mail[r]
           /\ pc' \in [MP!Rank -> MP!Labels \ {"ended"}] /\ pc'[r] = "inSend"
           /\ back' \in [MP!Rank -> MP!Labels] /\ back'[r] = b
           /\ \A s \in MP!Rank \ {r} : pc'[s] = pc[s] /\ back'[s] = back[s]
<1> DEFINE o == MP!nbor(r)
           m == [tag |-> g, v |-> v]
<1>1. o \in MP!Rank /\ o # r /\ m \in MpMessage
  BY MpRanks DEF MpMessage
<1>2. mail' = [mail EXCEPT ![o] = Append(mail[o], m)]
  BY DEF MP!Send
<1> HIDE DEF o, m
<1>3. mail[o] \in Seq(MpMessage) /\ Append(mail[o], m) \in Seq(MpMessage)
  BY <1>1 DEF MpTypes
<1>4. mail' \in [MP!Rank -> Seq(MpMessage)] /\ mail'[o] = Append(mail[o], m) /\ mail'[r] = mail[r]
  BY <1>1, <1>2, <1>3 DEF MpTypes
<1>5. "inSend" \in MP!Labels \ {"ended"}
  BY DEF MP!Labels
<1>6. pc' \in [MP!Rank -> MP!Labels \ {"ended"}] /\ pc'[r] = "inSend"
  BY <1>5 DEF MP!Send, MpTypes
<1>7. back' \in [MP!Rank -> MP!Labels] /\ back'[r] = b
  BY DEF MP!Send, MpTypes
<1>8. \A s \in MP!Rank \ {r} : pc'[s] = pc[s] /\ back'[s] = back[s]
  BY DEF MP!Send, MpTypes
<1> QED  BY <1>4, <1>6, <1>7, <1>8 DEF o, m

\* Entering a call that waits for all ranks.
LEMMA MpEntered ==
    ASSUME MpTypes, NEW r \in MP!Rank, NEW b \in MP!Labels, MP!Enter(r, b)
    PROVE  /\ pc' \in [MP!Rank -> MP!Labels \ {"ended"}] /\ pc'[r] = "inAll"
           /\ back' \in [MP!Rank -> MP!Labels] /\ back'[r] = b
           /\ epoch' \in [MP!Rank -> Nat] /\ epoch'[r] = epoch[r] + 1
           /\ \A s \in MP!Rank \ {r} : pc'[s] = pc[s] /\ back'[s] = back[s] /\ epoch'[s] = epoch[s]
<1>1. "inAll" \in MP!Labels \ {"ended"}
  BY DEF MP!Labels
<1>2. pc' \in [MP!Rank -> MP!Labels \ {"ended"}] /\ pc'[r] = "inAll"
  BY <1>1 DEF MP!Enter, MpTypes
<1>3. back' \in [MP!Rank -> MP!Labels] /\ back'[r] = b
  BY DEF MP!Enter, MpTypes
<1>4. epoch' \in [MP!Rank -> Nat] /\ epoch'[r] = epoch[r] + 1
  BY DEF MP!Enter, MpTypes
<1>5. \A s \in MP!Rank \ {r} : pc'[s] = pc[s] /\ back'[s] = back[s] /\ epoch'[s] = epoch[s]
  BY DEF MP!Enter, MpTypes
<1> QED  BY <1>2, <1>3, <1>4, <1>5

LEMMA MpScalars ==
    ASSUME MpTypes, NEW r \in {0, 1}
    PROVE  /\ pc[r] \in MP!Labels \ {"ended"} /\ back[r] \in MP!Labels
           /\ nrepeat[r] \in Nat /\ left[r] \in Nat /\ epoch[r] \in Nat
           /\ flying[r] \in Nat /\ buf[r] \in Nat /\ done[r] \in Nat
           /\ mail[r] \in Seq(MpMessage) /\ Len(mail[r]) \in Nat /\ recvPosted[r] \in BOOLEAN
<1>1. r \in MP!Rank
  BY MpRanks
<1> QED  BY <1>1 DEF MpTypes

LEMMA MpAbreastSame ==
    ASSUME MpTypes, NEW c, NEW d, Abreast(c, d), epoch' = epoch,
           \A r \in {0, 1} : pc[r] = "inAll" =>
               pc'[r] = "inAll" \/ (epoch[0] >= epoch[r] /\ epoch[1] >= epoch[r])
    PROVE  /\ epoch'[0] + d = epoch'[1] + c
           /\ epoch'[0] <= epoch'[1] + 1 /\ (epoch'[0] > epoch'[1] => pc'[0] = "inAll")
           /\ epoch'[1] <= epoch'[0] + 1 /\ (epoch'[1] > epoch'[0] => pc'[1] = "inAll")
<1>1. epoch[0] \in Nat /\ epoch[1] \in Nat
  BY MpScalars
<1> QED  BY <1>1 DEF Abreast

\* Coming back from a call that sends or waits for all ranks.
LEMMA MpReturned ==
    ASSUME MpInv, NEW r \in {0, 1}, pc[r] \in {"inAll", "inSend"}, pc' = [pc EXCEPT ![r] = back[r]],
           UNCHANGED <<lib, eager, back, nrepeat, left, runs, mail, recvPosted, epoch, flying, buf, done>>,
           pc[r] = "inAll" => /\ epoch[0] >= epoch[r] /\ epoch[1] >= epoch[r]
                              /\ flying[0] = 0 /\ flying[1] = 0
    PROVE  MpInv'
<1>1. /\ MpTypes /\ MpCalls(0) /\ MpCounts(0) /\ MpCalls(1) /\ MpCounts(1) /\ r \in MP!Rank
      /\ MpAsking \/ MpLooping \/ MpFencing
  BY MpRanks DEF MpInv
<1>2. back[r] \in {"repeat", "malloc", "prepare", "send", "recv", "echoed"} /\ MpCalls(r) /\ MpCounts(r)
  BY <1>1 DEF MpCalls, First
<1>3. pc'[r] = back[r] /\ \A s \in {0, 1} \ {r} : pc'[s] = pc[s]
  BY <1>1, MpRanks DEF MpTypes
<1>4. MpTypes'
  <2>1. back[r] \in MP!Labels \ {"ended"}
    BY <1>2 DEF MP!Labels
  <2>2. pc' \in [MP!Rank -> MP!Labels \ {"ended"}]
    BY <1>1, <2>1 DEF MpTypes
  <2> QED  BY <1>1, <2>2 DEF MpTypes
<1>5. Place(0)' = Place(0) /\ Place(1)' = Place(1)
  BY <1>2, <1>3 DEF Place
<1>6. MpCalls(r)' /\ MpCounts(r)'
  <2>1. Place(r)' = Place(r)
    BY <1>5
  <2>2. MpCalls(r)'
    BY <1>2, <1>3, <2>1 DEF MpCalls, First
  <2>3. MpCounts(r)'
    BY <1>2, <2>1 DEF MpCounts, MP!AfterRecv
  <2> QED  BY <2>2, <2>3
<1>7. MpCalls(0)' /\ MpCounts(0)' /\ MpCalls(1)' /\ MpCounts(1)'
  <2>1. ASSUME NEW s \in {0, 1}, s # r  PROVE MpCalls(s)' /\ MpCounts(s)'
    BY <1>1, <1>3, <2>1, MpKept DEF Still
  <2> QED  BY <1>6, <2>1
<1>8. epoch' = epoch /\ \A s \in {0, 1} : pc[s] = "inAll" =>
          pc'[s] = "inAll" \/ (epoch[0] >= epoch[s] /\ epoch[1] >= epoch[s])
  BY <1>3
<1>9. \A s \in {0, 1} : /\ epoch[s] \in Nat /\ epoch'[s] = epoch[s] /\ nrepeat'[s] = nrepeat[s]
                        /\ left'[s] = left[s] /\ mail'[s] = mail[s] /\ flying'[s] = flying[s]
                        /\ buf'[s] = buf[s] /\ done'[s] = done[s]
  BY <1>1, MpScalars
<1>10. CASE MpAsking
  <2>1. Entered(0)' = Entered(0) /\ Entered(1)' = Entered(1) /\ Passed(0)' = Passed(0) /\ Passed(1)' = Passed(1)
    BY <1>5 DEF Entered, Passed, First
  <2>2. ~(pc[r] = "inAll" /\ Place(r) = First(r))
    <3> SUFFICES ASSUME pc[r] = "inAll", Place(r) = First(r)  PROVE FALSE
      OBVIOUS
    <3>1. Entered(r) = IF lib = "mpi2" THEN 2 ELSE 1
      BY DEF Entered, First
    <3>2. ASSUME NEW s \in {0, 1}, s # r  PROVE Entered(s) \in 0..1 /\ (lib # "mpi2" => Entered(s) = 0)
      <4>1. Place(s) # First(s)
        BY <1>10, <3>2 DEF MpAsking
      <4> QED  BY <4>1 DEF Entered
    <3> QED  BY <1>9, <1>10, <3>1, <3>2 DEF MpAsking, Abreast
  <2>3. Early(0)' /\ Early(1)'
    BY <1>3, <1>5, <1>9, <1>10, <2>2 DEF MpAsking, Early, First
  <2>4. Abreast(Entered(0), Entered(1))'
    BY <1>1, <1>8, <1>10, <2>1, MpAbreastSame DEF MpAsking, Abreast
  <2> QED  BY <1>4, <1>5, <1>7, <1>9, <1>10, <2>1, <2>3, <2>4, MpRanks DEF MpInv, MpAsking, First
<1>11. CASE MpLooping
  <2>1. MpData' = MpData /\ Ahead' = Ahead
    BY <1>5, <1>9 DEF MpData, Ahead
  <2>2. MpLooping'
    BY <1>5, <1>9, <1>11, <2>1, MpRanks DEF MpLooping
  <2> QED  BY <1>4, <1>7, <2>2, MpRanks DEF MpInv
<1>12. CASE MpFencing
  <2>1. \A s \in {0, 1} : Fences(s)' = Fences(s) /\ PutsDone(s)' = PutsDone(s)
    BY <1>5, <1>9 DEF Fences, PutsDone, Second, MP!AfterSend
  <2>2. Abreast(Fences(0), Fences(1))'
    BY <1>1, <1>8, <1>12, <2>1, MpAbreastSame DEF MpFencing, Abreast
  <2>3. PutUnderWay(0, 1)' /\ PutUnderWay(1, 0)'
    <3>1. CASE pc[r] = "inAll"
      <4>1. flying'[0] = 0 /\ flying'[1] = 0
        BY <1>9, <3>1
      <4> QED  BY <1>9, <1>12, <2>1, <3>1, <4>1 DEF MpFencing, PutUnderWay
    <3>2. CASE pc[r] # "inAll"
      <4>1. \A s \in {0, 1} : pc[s] = "inAll" => pc'[s] = "inAll"
        BY <1>3, <3>2
      <4> QED  BY <1>5, <1>9, <1>12, <2>1, <4>1 DEF MpFencing, PutUnderWay, MP!AfterSend
    <3> QED  BY <3>1, <3>2
  <2>4. MpFencing'
    BY <1>5, <1>9, <1>12, <2>2, <2>3 DEF MpFencing
  <2> QED  BY <1>4, <1>7, <2>4, MpRanks DEF MpInv
<1> QED  BY <1>1, <1>10, <1>11, <1>12

LEMMA MpSendReturns ==
    ASSUME MpInv, NEW r \in MP!Rank, MP!SendReturns(r)
    PROVE  MpInv'
  BY MpReturned, MpRanks DEF MP!SendReturns

LEMMA MpAllReturn ==
    ASSUME MpInv, NEW r \in MP!Rank, MP!AllReturn(r)
    PROVE  MpInv'
<1>1. epoch[0] >= epoch[r] /\ epoch[1] >= epoch[r]
  BY MpRanks DEF MP!AllReturn
<1>2. flying[0] = 0 /\ flying[1] = 0
  BY MpRanks DEF MP!AllReturn, MP!All
<1> QED  BY <1>1, <1>2, MpReturned, MpRanks DEF MP!AllReturn

\* A put arrives: somebody is in the fence after it.
LEMMA MpLand ==
    ASSUME MpInv, NEW r \in MP!Rank, MP!Land(r)
    PROVE  MpInv'
<1>1. /\ MpTypes /\ MpCalls(0) /\ MpCounts(0) /\ MpCalls(1) /\ MpCounts(1) /\ r \in {0, 1}
      /\ MpAsking \/ MpLooping \/ MpFencing
  BY MpRanks DEF MpInv
<1>2. flying[r] # 0 /\ flying'[r] = 0 /\ buf'[r] = flying[r]
      /\ \A s \in {0, 1} \ {r} : flying'[s] = flying[s] /\ buf'[s] = buf[s]
  BY <1>1, MpRanks DEF MP!Land, MpTypes
<1>3. /\ lib' = lib /\ pc' = pc /\ back' = back /\ nrepeat' = nrepeat /\ left' = left /\ mail' = mail
      /\ recvPosted' = recvPosted /\ epoch' = epoch /\ done' = done
  BY DEF MP!Land
<1>4. MpTypes'
  <2>1. flying' \in [MP!Rank -> Nat] /\ buf' \in [MP!Rank -> Nat]
    BY <1>1 DEF MpTypes, MP!Land
  <2> QED  BY <1>1, <1>3, <2>1 DEF MpTypes
<1>5. \A s \in {0, 1} : MpCalls(s)' /\ MpCounts(s)' /\ Place(s)' = Place(s)
  BY <1>1, <1>3, MpKept DEF Still
<1>6. MpFencing
  BY <1>1, <1>2, MpRanks DEF MpAsking, MpLooping
<1>7. \A s \in {0, 1} : Fences(s)' = Fences(s) /\ PutsDone(s)' = PutsDone(s)
  BY <1>3, <1>5 DEF Fences, PutsDone, Second, MP!AfterSend
<1>8. Abreast(Fences(0), Fences(1))'
  BY <1>3, <1>6, <1>7 DEF MpFencing, Abreast
<1>9. PutUnderWay(0, 1)' /\ PutUnderWay(1, 0)'
  BY <1>1, <1>2, <1>3, <1>5, <1>6, <1>7 DEF MpFencing, PutUnderWay, MP!AfterSend
<1>10. MpFencing'
  BY <1>3, <1>5, <1>6, <1>8, <1>9 DEF MpFencing
<1> QED  BY <1>4, <1>5, <1>10, MpRanks DEF MpInv

\* A step of one rank that the other can see at most by its place, and in which no
\* rank enters or leaves a call: the calls and counts of the two are kept.
LEMMA MpAside ==
    ASSUME MpInv, NEW r \in {0, 1}, lib' = lib, MpCalls(r)', MpCounts(r)',
           \A s \in {0, 1} \ {r} : Still(s)
    PROVE  /\ \A s \in {0, 1} : MpCalls(s)' /\ MpCounts(s)'
           /\ \A s \in {0, 1} \ {r} : Place(s)' = Place(s)
<1>1. \A s \in {0, 1} : MpCalls(s) /\ MpCounts(s)
  BY MpRanks DEF MpInv
<1> QED  BY <1>1, MpKept

\* The call of run_iters, and its end: the place changes, and the transmitter's nrepeat.
LEMMA MpBetween ==
    ASSUME MpInv, NEW r \in {0, 1}, NEW from, NEW to, NEW x \in Nat,
           (from = "idle" /\ to = "size") \/ (from = "free" /\ to = "idle" /\ x = nrepeat[r]),
           r = 0 /\ to = "size" => x > 0, r = 1 => x = nrepeat[r],
           pc[r] = from, pc' = [pc EXCEPT ![r] = to], nrepeat' = [nrepeat EXCEPT ![r] = x],
           UNCHANGED <<lib, eager, back, left, mail, recvPosted, epoch, flying, buf, done>>
    PROVE  MpInv'
<1>1. /\ MpTypes /\ MpCalls(0) /\ MpCounts(0) /\ MpCalls(1) /\ MpCounts(1) /\ r \in {0, 1}
      /\ MpAsking \/ MpLooping \/ MpFencing
  BY MpRanks DEF MpInv
<1>4. /\ lib' = lib /\ back' = back /\ left' = left /\ mail' = mail /\ recvPosted' = recvPosted
      /\ epoch' = epoch /\ flying' = flying /\ buf' = buf /\ done' = done
  OBVIOUS
<1>5. pc'[r] = to /\ nrepeat'[r] = x /\ \A s \in {0, 1} \ {r} : pc'[s] = pc[s] /\ nrepeat'[s] = nrepeat[s]
  BY <1>1, <1>4, MpRanks DEF MpTypes
<1>6. MpTypes'
  <2>1. to \in MP!Labels \ {"ended"}
    BY DEF MP!Labels
  <2>2. pc' \in [MP!Rank -> MP!Labels \ {"ended"}]
    BY <1>1, <1>4, <2>1 DEF MpTypes
  <2>3. nrepeat' \in [MP!Rank -> Nat]
    BY <1>1 DEF MpTypes
  <2> QED  BY <1>1, <1>4, <2>2, <2>3 DEF MpTypes
<1>7. Place(r) = from /\ Place(r)' = to
  BY <1>4, <1>5 DEF Place
<1>8. MpCalls(r)' /\ MpCounts(r)'
  <2>1. MpCalls(r) /\ MpCounts(r)
    BY <1>1
  <2>2. MpCalls(r)'
    BY <1>4, <1>5, <1>7, <2>1 DEF MpCalls, First
  <2>3. MpCounts(r)'
    BY <1>4, <1>5, <1>7, <2>1 DEF MpCounts
  <2> QED  BY <2>2, <2>3
<1>9. /\ \A s \in {0, 1} : MpCalls(s)' /\ MpCounts(s)'
      /\ \A s \in {0, 1} \ {r} : Place(s)' = Place(s)
  BY <1>1, <1>4, <1>5, <1>8, MpAside DEF Still
<1>10. CASE MpAsking
  <2>1. \A s \in {0, 1} : Entered(s)' = Entered(s) /\ Passed(s)' = Passed(s)
    BY <1>4, <1>7, <1>9 DEF Entered, Passed, First
  <2>2. \A s \in {0, 1} : Early(s)'
    BY <1>4, <1>5, <1>7, <1>9, <1>10 DEF MpAsking, Early, First
  <2>3. Abreast(Entered(0), Entered(1))'
    BY <1>4, <1>5, <1>10, <2>1 DEF MpAsking, Abreast
  <2>4. r = 0 => Passed(0) = 0 /\ Passed(1) = 0
    BY <1>7, <1>10 DEF MpAsking, Passed
  <2>5. /\ Passed(0)' = 2 /\ Passed(1)' < 2 => mail'[1][Len(mail'[1])].v = nrepeat'[0]
        /\ Passed(1)' = 2 => nrepeat'[1] = nrepeat'[0]
    BY <1>1, <1>4, <1>5, <1>10, <2>1, <2>4 DEF MpAsking
  <2>6. ~(Place(0) = First(0) /\ Place(1) = First(1))'
    BY <1>1, <1>7 DEF First
  <2>7. MpAsking'
    BY <1>4, <1>10, <2>1, <2>2, <2>3, <2>5, <2>6 DEF MpAsking
  <2> QED  BY <1>6, <1>9, <2>7, MpRanks DEF MpInv
<1>11. CASE MpLooping
  <2>1. r = 1
    BY <1>1, <1>7, <1>11 DEF MpLooping
  <2>2. \A s \in {0, 1} : nrepeat'[s] = nrepeat[s]
    BY <1>5, <2>1
  <2>3. Ahead' = Ahead /\ MpData' = MpData
    BY <1>4, <1>7, <1>9, <2>1, <2>2 DEF Ahead, MpData
  <2>4. MpLooping'
    BY <1>4, <1>7, <1>9, <1>11, <2>1, <2>2, <2>3, MpRanks DEF MpLooping, Finishing
  <2> QED  BY <1>6, <1>9, <2>4, MpRanks DEF MpInv
<1>12. CASE MpFencing
  <2>1. r = 1
    BY <1>1, <1>7, <1>12 DEF MpFencing
  <2>2. \A s \in {0, 1} : nrepeat'[s] = nrepeat[s]
    BY <1>5, <2>1
  <2>3. \A s \in {0, 1} : Fences(s)' = Fences(s) /\ PutsDone(s)' = PutsDone(s)
    BY <1>4, <1>7, <1>9, <2>1, <2>2 DEF Fences, PutsDone, Second, MP!AfterSend
  <2>4. Abreast(Fences(0), Fences(1))'
    BY <1>4, <1>5, <1>12, <2>3 DEF MpFencing, Abreast
  <2>5. PutUnderWay(0, 1)' /\ PutUnderWay(1, 0)'
    BY <1>4, <1>5, <1>7, <1>9, <1>12, <2>1, <2>3 DEF MpFencing, PutUnderWay, MP!AfterSend
  <2>6. MpFencing'
    BY <1>4, <1>7, <1>9, <1>12, <2>1, <2>2, <2>4, <2>5 DEF MpFencing
  <2> QED  BY <1>6, <1>9, <2>6, MpRanks DEF MpInv
<1> QED  BY <1>1, <1>10, <1>11, <1>12

LEMMA MpCall ==
    ASSUME MpInv, NEW r \in MP!Rank, MP!Call(r)
    PROVE  MpInv'
<1>1. r \in {0, 1} /\ MpTypes
  BY MpRanks DEF MpInv
<1>2. PICK x \in IF r = 0 THEN Repeats ELSE {nrepeat[r]} : nrepeat' = [nrepeat EXCEPT ![r] = x]
  BY MpRanks DEF MP!Call
<1>3. Repeats \subseteq Nat \ {0}
  BY BoundsAssumption
<1>4. nrepeat[r] \in Nat
  BY <1>1, MpScalars
<1>5. x \in Nat /\ (r = 0 => x > 0) /\ (r = 1 => x = nrepeat[r])
  BY <1>1, <1>2, <1>3, <1>4
<1>6. /\ pc[r] = "idle" /\ pc' = [pc EXCEPT ![r] = "size"]
      /\ UNCHANGED <<lib, eager, back, left, mail, recvPosted, epoch, flying, buf, done>>
  BY <1>1, MpRanks DEF MP!Call, MP!Goto
<1>7. (r = 0 /\ "size" = "size" => x > 0)
      /\ (("idle" = "idle" /\ "size" = "size") \/ ("idle" = "free" /\ "size" = "idle" /\ x = nrepeat[r]))
  BY <1>1, <1>5
<1> QED  BY <1>1, <1>2, <1>5, <1>6, <1>7, MpBetween, Zenon

LEMMA MpFreeBuff ==
    ASSUME MpInv, NEW r \in MP!Rank, MP!FreeBuff(r)
    PROVE  MpInv'
<1>1. r \in {0, 1} /\ MpTypes
  BY MpRanks DEF MpInv
<1>2. nrepeat[r] \in Nat
  BY <1>1, MpScalars
<1>3. nrepeat' = [nrepeat EXCEPT ![r] = nrepeat[r]]
  BY <1>1 DEF MP!FreeBuff, MpTypes
<1>4. /\ pc[r] = "free" /\ pc' = [pc EXCEPT ![r] = "idle"]
      /\ UNCHANGED <<lib, eager, back, left, mail, recvPosted, epoch, flying, buf, done>>
  BY DEF MP!FreeBuff, MP!Goto
<1> QED  BY <1>1, <1>2, <1>3, <1>4, MpBetween

\* Only the argument exchange knows these places.
LEMMA MpEarlyPlaces ==
    ASSUME MpInv, NEW r \in {0, 1},
           \/ Place(r) \in {"repeat", "malloc", "win", "prepare", "sync"}
           \/ r = 0 /\ Place(r) \in {"idle", "free", "size"}
    PROVE  MpAsking
  BY DEF MpInv, MpLooping, MpFencing, Finishing

\* Two values that the transmitter sends.
LEMMA MpSendRepeat ==
    ASSUME MpInv, NEW r \in MP!Rank, MP!SendRepeat(r)
    PROVE  MpInv'
<1>1. MpTypes /\ MpCalls(0) /\ MpCounts(0) /\ MpCalls(1) /\ MpCounts(1) /\ r = 0
  BY MpRanks DEF MpInv, MP!SendRepeat
<1>2. nrepeat[0] \in Nat /\ mail[1] \in Seq(MpMessage) /\ Len(mail[1]) \in Nat
  BY <1>1, MpScalars
<1>3. PICK from \in {"size", "repeat"}, to \in {"repeat", "malloc"}, v \in Nat :
        /\ (from = "size" /\ to = "repeat") \/ (from = "repeat" /\ to = "malloc" /\ v = nrepeat[0])
        /\ pc[0] = from /\ MP!Send(0, 2, v, to)
  <2>1. \/ pc[0] = "size" /\ MP!Send(0, 2, 1, "repeat")
        \/ pc[0] = "repeat" /\ MP!Send(0, 2, nrepeat[0], "malloc")
    BY <1>1 DEF MP!SendRepeat
  <2>2. CASE pc[0] = "size" /\ MP!Send(0, 2, 1, "repeat")
    BY <2>2
  <2>3. CASE pc[0] = "repeat" /\ MP!Send(0, 2, nrepeat[0], "malloc")
    BY <1>2, <2>3
  <2> QED  BY <2>1, <2>2, <2>3
<1>4. /\ lib' = lib /\ nrepeat' = nrepeat /\ left' = left /\ recvPosted' = recvPosted
      /\ epoch' = epoch /\ flying' = flying /\ buf' = buf /\ done' = done
  BY DEF MP!SendRepeat
<1> DEFINE m == [tag |-> 2, v |-> v]
<1>5. /\ mail' \in [MP!Rank -> Seq(MpMessage)] /\ mail'[1] = Append(mail[1], m) /\ mail'[0] = mail[0]
      /\ pc' \in [MP!Rank -> MP!Labels \ {"ended"}] /\ pc'[0] = "inSend" /\ pc'[1] = pc[1]
      /\ back' \in [MP!Rank -> MP!Labels] /\ back'[0] = to /\ back'[1] = back[1]
  <2>1. to \in MP!Labels /\ 0 \in MP!Rank /\ 1 \in MP!Rank
    BY MpRanks DEF MP!Labels
  <2> QED  BY <1>1, <1>3, <2>1, MpSent, MpRanks
<1>6. MpTypes'
  BY <1>1, <1>4, <1>5 DEF MpTypes
<1>7. Place(0) = from /\ Place(0)' = to
  BY <1>3, <1>5 DEF Place
<1>8. MpCalls(0)' /\ MpCounts(0)'
  <2>1. MpCalls(0)'
    BY <1>1, <1>3, <1>4, <1>5, <1>7 DEF MpCalls, First
  <2>2. MpCounts(0)'
    BY <1>1, <1>3, <1>4, <1>7 DEF MpCounts
  <2> QED  BY <2>1, <2>2
<1>9. MpCalls(1)' /\ MpCounts(1)' /\ Place(1)' = Place(1)
  BY <1>1, <1>4, <1>5, MpKept DEF Still
<1>10. MpAsking
  BY <1>3, <1>7, MpEarlyPlaces
<1>11. /\ Entered(0)' = Entered(0) /\ Entered(1)' = Entered(1)
       /\ Passed(0)' = Passed(0) + 1 /\ Passed(1)' = Passed(1) /\ Passed(1) \in 0..2
       /\ Passed(0) = (IF from = "size" THEN 0 ELSE 1)
  BY <1>3, <1>4, <1>7, <1>9 DEF Entered, Passed, First
<1>12. /\ Len(mail'[1]) = Len(mail[1]) + 1 /\ mail'[1][Len(mail'[1])] = m
       /\ \A x \in 1..Len(mail'[1]) : mail'[1][x].tag = 2
  <2>1. m.tag = 2
    OBVIOUS
  <2> HIDE DEF m
  <2>2. /\ Len(mail'[1]) = Len(mail[1]) + 1 /\ mail'[1][Len(mail[1]) + 1] = m
        /\ \A x \in 1..Len(mail[1]) : mail'[1][x] = mail[1][x]
    BY <1>2, <1>5
  <2>3. \A x \in 1..Len(mail'[1]) : x \in 1..Len(mail[1]) \/ x = Len(mail[1]) + 1
    BY <1>2, <2>2
  <2> QED  BY <1>10, <2>1, <2>2, <2>3 DEF MpAsking
<1>13. Early(0)' /\ Early(1)'
  BY <1>3, <1>4, <1>5, <1>7, <1>9, <1>10 DEF MpAsking, Early, First
<1>14. Abreast(Entered(0), Entered(1))'
  <2>1. pc[0] # "inAll" /\ epoch[0] \in Nat /\ epoch[1] \in Nat
    BY <1>1, <1>3, MpScalars
  <2> QED  BY <1>4, <1>5, <1>10, <1>11, <2>1 DEF MpAsking, Abreast
<1>15. Passed(0)' = 2 => mail'[1][Len(mail'[1])].v = nrepeat'[0]
  BY <1>3, <1>4, <1>11, <1>12
<1>16. ~(Place(0) = First(0) /\ Place(1) = First(1))'
  BY <1>3, <1>7 DEF First
<1>17. Passed(1)' <= Passed(0)' /\ Len(mail'[1]) = Passed(0)' - Passed(1)' /\ Passed(1)' # 2
  BY <1>2, <1>10, <1>11, <1>12 DEF MpAsking
<1>18. mail'[0] = <<>> /\ \A s \in MP!Rank : flying'[s] = 0 /\ buf'[s] = done'[s]
  BY <1>4, <1>5, <1>10 DEF MpAsking
<1>19. MpAsking'
  BY <1>12, <1>13, <1>14, <1>15, <1>16, <1>17, <1>18 DEF MpAsking
<1> QED  BY <1>6, <1>8, <1>9, <1>19, MpRanks DEF MpInv

\* Two values that the receiver takes, in the order in which they were sent.
LEMMA MpRecvRepeat ==
    ASSUME MpInv, NEW r \in MP!Rank, MP!RecvRepeat(r)
    PROVE  MpInv'
<1>1. /\ MpTypes /\ MpCalls(0) /\ MpCounts(0) /\ MpCalls(1) /\ MpCounts(1) /\ r = 1 /\ 1 \in MP!Rank
      /\ MpAsking \/ MpLooping \/ MpFencing
  BY MpRanks DEF MpInv, MP!RecvRepeat
<1>2. \A s \in {0, 1} : nrepeat[s] \in Nat /\ mail[s] \in Seq(MpMessage) /\ Len(mail[s]) \in Nat
  BY <1>1, MpScalars
<1>3. PICK from \in {"size", "repeat"}, to \in {"repeat", "malloc"} :
        /\ \/ from = "size" /\ to = "repeat" /\ nrepeat' = nrepeat
           \/ from = "repeat" /\ to = "malloc" /\ nrepeat' = [nrepeat EXCEPT ![1] = mail[1][MP!Oldest(1, 2)].v]
        /\ pc[1] = from /\ pc' = [pc EXCEPT ![1] = to]
  BY <1>1 DEF MP!RecvRepeat, MP!Goto
<1>4. /\ lib' = lib /\ back' = back /\ left' = left /\ recvPosted' = recvPosted
      /\ epoch' = epoch /\ flying' = flying /\ buf' = buf /\ done' = done
      /\ MP!Waiting(1, 2) /\ MP!Take(1, 2)
  BY <1>1 DEF MP!RecvRepeat
<1>5. pc'[1] = to /\ pc'[0] = pc[0] /\ Place(1) = from /\ Place(1)' = to
  <2>1. pc'[1] = to /\ pc'[0] = pc[0]
    BY <1>1, <1>3, MpRanks DEF MpTypes
  <2> QED  BY <1>3, <2>1 DEF Place
<1>6. mail[1] # <<>> /\ \E x \in 1..Len(mail[1]) : mail[1][x].tag = 2
  BY <1>2, <1>4 DEF MP!Waiting
<1>7. MpAsking
  <2>1. CASE MpLooping
    <3>1. mail[1] = <<>>
      BY <1>3, <1>5, <2>1 DEF MpLooping
    <3> QED  BY <1>6, <3>1
  <2>2. CASE MpFencing
    BY <1>6, <2>2 DEF MpFencing
  <2> QED  BY <1>1, <2>1, <2>2
<1>8. \A x \in 1..Len(mail[1]) : mail[1][x].tag = 2
  BY <1>7 DEF MpAsking
<1>9. /\ MP!Oldest(1, 2) = 1 /\ Len(mail[1]) \in Nat \ {0} /\ mail' \in [MP!Rank -> Seq(MpMessage)]
      /\ Len(mail'[1]) = Len(mail[1]) - 1 /\ \A x \in 1..Len(mail'[1]) : mail'[1][x] = mail[1][x + 1]
      /\ mail'[0] = mail[0]
  BY <1>1, <1>4, <1>6, <1>8, MpTaken, MpRanks
<1>10. /\ Passed(1) = (IF from = "size" THEN 0 ELSE 1) /\ Passed(1)' = Passed(1) + 1
       /\ Entered(0)' = Entered(0) /\ Entered(1)' = Entered(1) /\ Passed(0)' = Passed(0) /\ Place(0)' = Place(0)
  <2>1. Place(0)' = Place(0)
    BY <1>4, <1>5 DEF Place
  <2> QED  BY <1>3, <1>4, <1>5, <2>1 DEF Entered, Passed, First
<1>11. Passed(0) \in 0..2 /\ Len(mail[1]) = Passed(0) - Passed(1) /\ Passed(1) < Passed(0)
  <2>1. Passed(0) \in 0..2
    BY DEF Passed
  <2> QED  BY <1>7, <1>9, <1>10, <2>1 DEF MpAsking
<1>12. Passed(0) = 2 => nrepeat[0] > 0
  BY <1>1, <1>2, <1>7 DEF Passed, MpAsking, Early, First, MpCounts
<1>13. from = "repeat" => nrepeat' = [nrepeat EXCEPT ![1] = nrepeat[0]] /\ nrepeat[0] > 0
  <2> SUFFICES ASSUME from = "repeat"  PROVE nrepeat' = [nrepeat EXCEPT ![1] = nrepeat[0]] /\ nrepeat[0] > 0
    OBVIOUS
  <2>1. Passed(0) = 2 /\ Passed(1) = 1 /\ Len(mail[1]) = 1
    BY <1>10, <1>11
  <2>2. mail[1][1].v = nrepeat[0]
    BY <1>7, <2>1 DEF MpAsking
  <2> QED  BY <1>3, <1>9, <1>12, <2>1, <2>2
<1>14. /\ nrepeat' \in [MP!Rank -> Nat] /\ nrepeat'[0] = nrepeat[0]
       /\ from = "repeat" => nrepeat'[1] = nrepeat[0]
       /\ from = "size" => nrepeat'[1] = nrepeat[1]
  <2>1. CASE from = "repeat"
    BY <1>1, <1>2, <1>13, <2>1, MpRanks DEF MpTypes
  <2>2. CASE from = "size"
    BY <1>1, <1>3, <2>2 DEF MpTypes
  <2> QED  BY <1>3, <2>1, <2>2
<1>15. MpTypes'
  <2>1. to \in MP!Labels \ {"ended"}
    BY <1>3 DEF MP!Labels
  <2>2. pc' \in [MP!Rank -> MP!Labels \ {"ended"}]
    BY <1>1, <1>3, <2>1 DEF MpTypes
  <2> QED  BY <1>1, <1>4, <1>9, <1>14, <2>2 DEF MpTypes
<1>16. MpCalls(1)' /\ MpCounts(1)'
  <2>1. MpCalls(1)'
    BY <1>1, <1>3, <1>4, <1>5 DEF MpCalls, First
  <2>2. MpCounts(1)'
    BY <1>1, <1>3, <1>4, <1>5, <1>13, <1>14 DEF MpCounts
  <2> QED  BY <2>1, <2>2
<1>17. MpCalls(0)' /\ MpCounts(0)'
  BY <1>1, <1>4, <1>5, <1>14, MpKept DEF Still
<1>18. Early(0)' /\ Early(1)'
  BY <1>3, <1>4, <1>5, <1>7, <1>10, <1>14 DEF MpAsking, Early, First
<1>19. Abreast(Entered(0), Entered(1))'
  <2>1. pc[1] # "inAll" /\ epoch[0] \in Nat /\ epoch[1] \in Nat
    BY <1>1, <1>3, MpScalars
  <2> QED  BY <1>4, <1>5, <1>7, <1>10, <2>1 DEF MpAsking, Abreast
<1>20. ~(Place(0) = First(0) /\ Place(1) = First(1))'
  BY <1>3, <1>5 DEF First
<1>21. Passed(1)' <= Passed(0)' /\ Len(mail'[1]) = Passed(0)' - Passed(1)' /\ (Passed(1)' = 2 => from = "repeat")
  <2>1. Passed(1) \in 0..1 /\ (Passed(1) = 1 => from = "repeat")
    BY <1>3, <1>10
  <2>2. Passed(1)' = Passed(1) + 1 /\ Passed(0)' = Passed(0)
    BY <1>10
  <2> QED  BY <1>9, <1>11, <2>1, <2>2
<1>22. \A x \in 1..Len(mail'[1]) : mail'[1][x].tag = 2
  <2> SUFFICES ASSUME NEW x \in 1..Len(mail'[1])  PROVE mail'[1][x].tag = 2
    OBVIOUS
  <2>1. x + 1 \in 1..Len(mail[1])
    BY <1>9
  <2> QED  BY <1>8, <1>9, <2>1
<1>23. Passed(0)' = 2 /\ Passed(1)' < 2 => mail'[1][Len(mail'[1])].v = nrepeat'[0]
  <2> SUFFICES ASSUME Passed(0)' = 2, Passed(1)' < 2  PROVE mail'[1][Len(mail'[1])].v = nrepeat'[0]
    OBVIOUS
  <2>1. Len(mail[1]) = 2 /\ Len(mail'[1]) = 1
    BY <1>9, <1>10, <1>11
  <2>2. mail'[1][1] = mail[1][2] /\ mail[1][2].v = nrepeat[0]
    BY <1>7, <1>9, <1>10, <1>11, <2>1 DEF MpAsking
  <2> QED  BY <1>14, <2>1, <2>2
<1>24. mail'[0] = <<>> /\ \A s \in MP!Rank : flying'[s] = 0 /\ buf'[s] = done'[s]
  BY <1>4, <1>7, <1>9 DEF MpAsking
<1>25. MpAsking'
  BY <1>14, <1>18, <1>19, <1>20, <1>21, <1>22, <1>23, <1>24 DEF MpAsking
<1> QED  BY <1>15, <1>16, <1>17, <1>25, MpRanks DEF MpInv

\* Entering a call from a place outside one.
LEMMA MpAbreastEnters ==
    ASSUME MpTypes, NEW r \in {0, 1}, NEW c \in Int, NEW d \in Int, Abreast(c, d),
           pc[r] # "inAll", pc'[r] = "inAll", epoch'[r] = epoch[r] + 1,
           \A s \in {0, 1} \ {r} : epoch'[s] = epoch[s] /\ pc'[s] = pc[s]
    PROVE  Abreast(IF r = 0 THEN c + 1 ELSE c, IF r = 1 THEN d + 1 ELSE d)'
<1>1. epoch[0] \in Nat /\ epoch[1] \in Nat
  BY MpScalars
<1>2. CASE r = 0
  BY <1>1, <1>2 DEF Abreast
<1>3. CASE r = 1
  BY <1>1, <1>3 DEF Abreast
<1> QED  BY <1>2, <1>3

\* A step of the argument exchange in which nothing is sent or taken.
LEMMA MpAskingOn ==
    ASSUME MpInv, MpAsking, NEW r \in {0, 1}, lib' = lib, mail' = mail, nrepeat' = nrepeat, flying' = flying,
           MpTypes', MpCalls(r)', MpCounts(r)', \A s \in {0, 1} \ {r} : Still(s) /\ buf'[s] = buf[s],
           buf'[r] = done'[r], Passed(r)' = Passed(r), Early(r)', Abreast(Entered(0), Entered(1))',
           ~(Place(0)' = First(0) /\ Place(1)' = First(1))
    PROVE  MpInv'
<1>1. /\ \A s \in {0, 1} : MpCalls(s)' /\ MpCounts(s)'
      /\ \A s \in {0, 1} \ {r} : Place(s)' = Place(s)
  BY MpAside
<1>2. \A s \in {0, 1} \ {r} : Passed(s)' = Passed(s) /\ Early(s)'
  BY <1>1 DEF MpAsking, Passed, Early, Still, First
<1>3. Passed(0)' = Passed(0) /\ Passed(1)' = Passed(1) /\ Early(0)' /\ Early(1)'
  BY <1>2
<1>4. \A s \in {0, 1} : flying'[s] = 0 /\ buf'[s] = done'[s]
  BY MpRanks DEF MpAsking, Still
<1>5. MpAsking'
  BY <1>3, <1>4, MpRanks DEF MpAsking, First
<1> QED  BY <1>1, <1>5, MpRanks DEF MpInv

LEMMA MpMyMalloc ==
    ASSUME MpInv, NEW r \in MP!Rank, MP!MyMalloc(r)
    PROVE  MpInv'
<1>1. r \in {0, 1} /\ MpTypes /\ MpCalls(r) /\ MpCounts(r)
  BY MpRanks DEF MpInv
<1>2. PICK to \in {"win", "prepare"} :
        pc[r] = "malloc" /\ pc' = [pc EXCEPT ![r] = to] /\ (to = "win" <=> lib = "mpi2")
  BY DEF MP!MyMalloc, MP!Goto
<1>3. /\ lib' = lib /\ back' = back /\ nrepeat' = nrepeat /\ mail' = mail /\ recvPosted' = recvPosted
      /\ epoch' = epoch /\ flying' = flying /\ left' = [left EXCEPT ![r] = nrepeat[r]]
      /\ buf' = [buf EXCEPT ![r] = 0] /\ done' = [done EXCEPT ![r] = 0]
  BY DEF MP!MyMalloc
<1>4. /\ pc'[r] = to /\ left'[r] = nrepeat[r] /\ buf'[r] = 0 /\ done'[r] = 0
      /\ \A s \in {0, 1} \ {r} : pc'[s] = pc[s] /\ left'[s] = left[s] /\ buf'[s] = buf[s] /\ done'[s] = done[s]
  BY <1>1, <1>2, <1>3, MpRanks DEF MpTypes
<1>5. MpTypes'
  <2>1. to \in MP!Labels \ {"ended"} /\ nrepeat[r] \in Nat
    BY <1>1, <1>2, MpScalars DEF MP!Labels
  <2>2. pc' \in [MP!Rank -> MP!Labels \ {"ended"}]
    BY <1>1, <1>2, <2>1 DEF MpTypes
  <2>3. left' \in [MP!Rank -> Nat]
    BY <1>1, <1>3, <2>1 DEF MpTypes
  <2>4. buf' \in [MP!Rank -> Nat] /\ done' \in [MP!Rank -> Nat]
    BY <1>1, <1>3 DEF MpTypes
  <2> QED  BY <1>1, <1>3, <2>2, <2>3, <2>4 DEF MpTypes
<1>6. Place(r) = "malloc" /\ Place(r)' = to
  BY <1>2, <1>4 DEF Place
<1>7. MpAsking
  BY <1>1, <1>6, MpEarlyPlaces
<1>8. MpCalls(r)'
  BY <1>1, <1>2, <1>3, <1>4, <1>6 DEF MpCalls, First
<1>9. MpCounts(r)'
  BY <1>1, <1>2, <1>3, <1>4, <1>6 DEF MpCounts
<1>10. \A s \in {0, 1} \ {r} : Still(s) /\ Place(s)' = Place(s)
  BY <1>3, <1>4 DEF Still, Place
<1>11. \A s \in {0, 1} : Entered(s)' = Entered(s)
  BY <1>2, <1>3, <1>6, <1>10 DEF Entered, First
<1>12. Abreast(Entered(0), Entered(1))'
  <2>1. \A s \in {0, 1} : pc[s] = "inAll" => pc'[s] = "inAll"
    BY <1>2, <1>4
  <2> QED  BY <1>1, <1>3, <1>7, <1>11, <2>1, MpAbreastSame DEF MpAsking, Abreast
<1>13. Passed(r)' = Passed(r) /\ Early(r)' /\ ~(Place(0)' = First(0) /\ Place(1)' = First(1))
  BY <1>1, <1>2, <1>6 DEF Passed, Early, First
<1> QED  BY <1>1, <1>3, <1>4, <1>5, <1>7, <1>8, <1>9, <1>10, <1>12, <1>13, MpAskingOn

LEMMA MpPrepareToReceive ==
    ASSUME MpInv, NEW r \in MP!Rank, MP!PrepareToReceive(r)
    PROVE  MpInv'
<1>1. r \in {0, 1} /\ MpTypes /\ MpCalls(r) /\ MpCounts(r)
  BY MpRanks DEF MpInv
<1>2. pc[r] = "prepare" /\ Place(r) = "prepare" /\ ~recvPosted[r]
  BY <1>1 DEF MP!PrepareToReceive, Place, MpCalls, First
<1>3. /\ pc' = [pc EXCEPT ![r] = "sync"]
      /\ recvPosted' = [recvPosted EXCEPT ![r] = lib = "mpi"]
      /\ lib' = lib /\ back' = back /\ nrepeat' = nrepeat /\ mail' = mail /\ left' = left
      /\ epoch' = epoch /\ flying' = flying /\ buf' = buf /\ done' = done
  <2>1. pc' = [pc EXCEPT ![r] = "sync"]
    BY <1>2 DEF MP!PrepareToReceive
  <2>2. recvPosted' = [recvPosted EXCEPT ![r] = recvPosted[r] \/ (TRUE /\ lib = "mpi")]
    BY <1>1 DEF MP!PrepareToReceive, MpTypes
  <2>3. (recvPosted[r] \/ (TRUE /\ lib = "mpi")) = (lib = "mpi")
    BY <1>2
  <2> QED  BY <2>1, <2>2, <2>3 DEF MP!PrepareToReceive
<1>4. /\ pc'[r] = "sync" /\ (recvPosted'[r] => lib = "mpi")
      /\ \A s \in {0, 1} \ {r} : pc'[s] = pc[s] /\ recvPosted'[s] = recvPosted[s]
  BY <1>1, <1>3, MpRanks DEF MpTypes
<1>5. MpTypes'
  <2>1. "sync" \in MP!Labels \ {"ended"}
    BY DEF MP!Labels
  <2>2. pc' \in [MP!Rank -> MP!Labels \ {"ended"}]
    BY <1>1, <1>3, <2>1 DEF MpTypes
  <2>3. recvPosted' \in [MP!Rank -> BOOLEAN]
    BY <1>1, <1>3 DEF MpTypes
  <2> QED  BY <1>1, <1>3, <2>2, <2>3 DEF MpTypes
<1>6. Place(r)' = "sync"
  BY <1>4 DEF Place
<1>7. MpAsking
  BY <1>1, <1>2, MpEarlyPlaces
<1>8. MpCalls(r)'
  BY <1>1, <1>3, <1>4, <1>6 DEF MpCalls, First
<1>9. MpCounts(r)'
  BY <1>1, <1>2, <1>3, <1>6 DEF MpCounts
<1>10. \A s \in {0, 1} \ {r} : Still(s) /\ Place(s)' = Place(s) /\ buf'[s] = buf[s]
  BY <1>3, <1>4 DEF Still, Place
<1>11. \A s \in {0, 1} : Entered(s)' = Entered(s)
  BY <1>2, <1>3, <1>6, <1>10 DEF Entered, First
<1>12. Abreast(Entered(0), Entered(1))'
  <2>1. \A s \in {0, 1} : pc[s] = "inAll" => pc'[s] = "inAll"
    BY <1>2, <1>4
  <2> QED  BY <1>1, <1>3, <1>7, <1>11, <2>1, MpAbreastSame DEF MpAsking, Abreast
<1>13. Passed(r)' = Passed(r) /\ Early(r)' /\ ~(Place(0)' = First(0) /\ Place(1)' = First(1))
  BY <1>1, <1>2, <1>6 DEF Passed, Early, First
<1>14. buf'[r] = done'[r]
  BY <1>1, <1>3, <1>7, MpRanks DEF MpAsking
<1> QED  BY <1>1, <1>3, <1>5, <1>7, <1>8, <1>9, <1>10, <1>12, <1>13, <1>14, MpAskingOn

\* MPI_Win_create, which waits for all ranks.
LEMMA MpAfterAlignmentInit ==
    ASSUME MpInv, NEW r \in MP!Rank, MP!AfterAlignmentInit(r)
    PROVE  MpInv'
<1>1. r \in {0, 1} /\ MpTypes /\ MpCalls(r) /\ MpCounts(r)
  BY MpRanks DEF MpInv
<1>2. pc[r] = "win" /\ Place(r) = "win" /\ lib = "mpi2" /\ MP!Enter(r, "prepare")
  BY <1>1 DEF MP!AfterAlignmentInit, Place, MpCalls
<1>3. /\ lib' = lib /\ nrepeat' = nrepeat /\ mail' = mail /\ left' = left /\ recvPosted' = recvPosted
      /\ flying' = flying /\ buf' = buf /\ done' = done
  BY DEF MP!AfterAlignmentInit
<1>4. /\ pc' \in [MP!Rank -> MP!Labels \ {"ended"}] /\ pc'[r] = "inAll"
      /\ back' \in [MP!Rank -> MP!Labels] /\ back'[r] = "prepare"
      /\ epoch' \in [MP!Rank -> Nat] /\ epoch'[r] = epoch[r] + 1
      /\ \A s \in {0, 1} \ {r} : pc'[s] = pc[s] /\ back'[s] = back[s] /\ epoch'[s] = epoch[s]
  <2>1. "prepare" \in MP!Labels
    BY DEF MP!Labels
  <2> QED  BY <1>1, <1>2, <2>1, MpEntered, MpRanks
<1>5. MpTypes'
  BY <1>1, <1>3, <1>4 DEF MpTypes
<1>6. Place(r)' = "prepare"
  BY <1>4 DEF Place
<1>7. MpAsking
  BY <1>1, <1>2, MpEarlyPlaces
<1>8. MpCalls(r)'
  BY <1>1, <1>2, <1>3, <1>4, <1>6 DEF MpCalls, First
<1>9. MpCounts(r)'
  BY <1>1, <1>2, <1>3, <1>6 DEF MpCounts
<1>10. \A s \in {0, 1} \ {r} : Still(s) /\ Place(s)' = Place(s) /\ buf'[s] = buf[s]
  BY <1>3, <1>4 DEF Still, Place
<1>11. /\ \A s \in {0, 1} \ {r} : Entered(s)' = Entered(s)
       /\ Entered(r) = 0 /\ Entered(r)' = 1 /\ Entered(0) \in Int /\ Entered(1) \in Int
  BY <1>1, <1>2, <1>3, <1>6, <1>10 DEF Entered, First
<1>12. Abreast(Entered(0), Entered(1))'
  <2>1. Abreast(Entered(0), Entered(1))
    BY <1>7 DEF MpAsking
  <2> QED  BY <1>1, <1>2, <1>4, <1>11, <2>1, MpAbreastEnters DEF Abreast
<1>13. Passed(r)' = Passed(r) /\ Early(r)' /\ ~(Place(0)' = First(0) /\ Place(1)' = First(1))
  BY <1>1, <1>2, <1>6 DEF Passed, Early, First
<1>14. buf'[r] = done'[r]
  BY <1>1, <1>3, <1>7, MpRanks DEF MpAsking
<1> QED  BY <1>1, <1>3, <1>5, <1>7, <1>8, <1>9, <1>10, <1>12, <1>13, <1>14, MpAskingOn

\* Barrier or fence before the loop: the second rank to come starts it.
LEMMA MpSync ==
    ASSUME MpInv, NEW r \in MP!Rank, MP!Sync(r)
    PROVE  MpInv'
<1>1. r \in {0, 1} /\ MpTypes /\ MpCalls(r) /\ MpCounts(r)
  BY MpRanks DEF MpInv
<1>2. pc[r] = "sync" /\ Place(r) = "sync" /\ left[r] = nrepeat[r] /\ nrepeat[r] \in Nat /\ nrepeat[r] > 0
  BY <1>1, MpScalars DEF MP!Sync, Place, MpCounts
<1>3. MP!Enter(r, First(r)) /\ First(r) \in {"send", "recv"}
  <2>1. MP!LoopHead(r, left[r]) = First(r)
    BY <1>1, <1>2, MpRanks DEF MP!LoopHead
  <2> QED  BY <2>1 DEF MP!Sync, First
<1>4. /\ lib' = lib /\ nrepeat' = nrepeat /\ mail' = mail /\ left' = left /\ recvPosted' = recvPosted
      /\ flying' = flying /\ buf' = buf /\ done' = done
  BY DEF MP!Sync
<1>5. /\ pc' \in [MP!Rank -> MP!Labels \ {"ended"}] /\ pc'[r] = "inAll"
      /\ back' \in [MP!Rank -> MP!Labels] /\ back'[r] = First(r)
      /\ epoch' \in [MP!Rank -> Nat] /\ epoch'[r] = epoch[r] + 1
      /\ \A s \in {0, 1} \ {r} : pc'[s] = pc[s] /\ back'[s] = back[s] /\ epoch'[s] = epoch[s]
  <2>1. First(r) \in MP!Labels
    BY <1>3 DEF MP!Labels
  <2> QED  BY <1>1, <1>3, <2>1, MpEntered, MpRanks
<1>6. MpTypes'
  BY <1>1, <1>4, <1>5 DEF MpTypes
<1>7. Place(r)' = First(r)
  BY <1>5 DEF Place
<1>8. MpAsking
  BY <1>1, <1>2, MpEarlyPlaces
<1>9. MpCalls(r)'
  BY <1>1, <1>2, <1>3, <1>4, <1>5, <1>7 DEF MpCalls, First
<1>10. MpCounts(r)'
  BY <1>1, <1>2, <1>3, <1>4, <1>7 DEF MpCounts, First, MP!AfterRecv, MP!tr
<1>11. \A s \in {0, 1} \ {r} : Still(s) /\ Place(s)' = Place(s) /\ buf'[s] = buf[s]
  BY <1>4, <1>5 DEF Still, Place
<1>12. /\ \A s \in {0, 1} \ {r} : Entered(s)' = Entered(s)
       /\ Entered(r) \in Int /\ Entered(r)' = Entered(r) + 1 /\ Entered(0) \in Int /\ Entered(1) \in Int
  BY <1>1, <1>2, <1>3, <1>4, <1>7, <1>11 DEF Entered, First
<1>13. Abreast(Entered(0), Entered(1))'
  <2>1. Abreast(Entered(0), Entered(1))
    BY <1>8 DEF MpAsking
  <2> QED  BY <1>1, <1>2, <1>5, <1>12, <2>1, MpAbreastEnters DEF Abreast
<1>14. Passed(r) = 2 /\ Passed(r)' = Passed(r) /\ Early(r)'
  BY <1>1, <1>2, <1>3, <1>4, <1>5, <1>7 DEF Passed, Early
<1>15. buf'[r] = done'[r]
  BY <1>1, <1>4, <1>8, MpRanks DEF MpAsking
<1>16. CASE \E s \in {0, 1} \ {r} : Place(s) # First(s)
  <2>1. ~(Place(0)' = First(0) /\ Place(1)' = First(1))
    BY <1>1, <1>11, <1>16
  <2> QED  BY <1>1, <1>4, <1>6, <1>8, <1>9, <1>10, <1>11, <1>13, <1>14, <1>15, <2>1, MpAskingOn
<1>17. CASE \A s \in {0, 1} \ {r} : Place(s) = First(s)
  <2>1. Place(0)' = "send" /\ Place(1)' = "recv"
    BY <1>1, <1>7, <1>11, <1>17, MpRanks
  <2>2. \A s \in {0, 1} : MpCalls(s)' /\ MpCounts(s)'
    BY <1>1, <1>4, <1>9, <1>10, <1>11, MpAside
  <2>3. \A s \in {0, 1} : Passed(s) = 2 /\ left'[s] = nrepeat'[s] /\ nrepeat'[s] \in Nat
    <3>1. ASSUME NEW s \in {0, 1} \ {r}  PROVE Passed(s) = 2 /\ left[s] = nrepeat[s]
      BY <1>8, <1>17, <3>1 DEF MpAsking, Early, Passed, First
    <3>2. ASSUME NEW s \in {0, 1}  PROVE nrepeat'[s] \in Nat
      BY <1>4, <1>1, MpScalars
    <3> QED  BY <1>1, <1>2, <1>4, <1>14, <3>1, <3>2
  <2>4. /\ mail'[0] = <<>> /\ mail'[1] = <<>> /\ nrepeat'[1] = nrepeat'[0]
        /\ \A s \in {0, 1} : flying'[s] = 0 /\ buf'[s] = done'[s]
    <3>1. Len(mail[1]) = 0 /\ mail[1] \in Seq(MpMessage)
      BY <1>1, <1>8, <2>3, MpScalars DEF MpAsking
    <3> QED  BY <1>4, <1>8, <2>3, <3>1, MpRanks DEF MpAsking
  <2>5. epoch'[0] = epoch'[1] /\ epoch'[0] \in Nat
    <3>1. Entered(0)' = Entered(1)'
      BY <1>4, <2>1 DEF Entered, First
    <3>2. epoch'[0] \in Nat /\ epoch'[1] \in Nat
      BY <1>5, MpRanks
    <3>3. Entered(0)' \in Int
      BY <2>1 DEF Entered, First
    <3> QED  BY <1>13, <3>1, <3>2, <3>3 DEF Abreast
  <2>6. \A s \in {0, 1} : done'[s] = 0
    BY <2>1, <2>2, <2>3, MpRanks DEF MpCounts
  <2>7. CASE lib # "mpi2"
    <3>1. Ahead' = left'[0]
      BY <2>1, <2>3, <2>4 DEF Ahead
    <3>2. MpLooping'
      BY <1>4, <2>1, <2>4, <2>5, <2>7, <3>1, MpRanks DEF MpLooping
    <3> QED  BY <1>6, <2>2, <3>2, MpRanks DEF MpInv
  <2>8. CASE lib = "mpi2"
    <3>1. \A s \in {0, 1} : Fences(s)' = 0 /\ PutsDone(s)' = 0
      BY <2>1, <2>3, MpRanks DEF Fences, PutsDone
    <3>2. Abreast(Fences(0), Fences(1))'
      BY <2>5, <3>1 DEF Abreast
    <3>3. PutUnderWay(0, 1)' /\ PutUnderWay(1, 0)'
      BY <2>4, <2>6, <3>1 DEF PutUnderWay
    <3>4. MpFencing'
      BY <1>4, <2>1, <2>4, <2>8, <3>2, <3>3 DEF MpFencing
    <3> QED  BY <1>6, <2>2, <3>4, MpRanks DEF MpInv
  <2> QED  BY <2>7, <2>8
<1> QED  BY <1>16, <1>17

\* A rank that has left the call before the loop, and is not at its end, is in the loop.
LEMMA MpInLoop ==
    ASSUME MpInv, NEW r \in {0, 1}, pc[r] \in {"send", "recv"}
    PROVE  /\ Place(r) = pc[r] /\ ~MpAsking
           /\ lib # "mpi2" => MpLooping
           /\ lib = "mpi2" => MpFencing
<1>1. Place(r) = pc[r]
  BY DEF Place
<1>2. ~MpAsking
  BY <1>1 DEF MpAsking, Early
<1> QED  BY <1>1, <1>2 DEF MpInv, MpLooping, MpFencing

LEMMA MpSendMessage ==
    ASSUME MpInv, NEW r \in MP!Rank, MP!SendData(r), MP!SendMessage(r)
    PROVE  MpInv'
<1>1. r \in {0, 1} /\ MpTypes /\ MpCalls(r) /\ MpCounts(r) /\ lib # "mpi2" /\ pc[r] = "send"
  BY MpRanks DEF MpInv, MP!SendData, MP!SendMessage
<1>2. Place(r) = "send" /\ MpLooping
  BY <1>1, MpInLoop
<1>3. \A s \in {0, 1} : nrepeat[s] \in Nat /\ left[s] \in Nat
  BY <1>1, MpScalars
<1>4. left[r] \in 1..nrepeat[r] /\ nrepeat[r] - left[r] + 1 \in Nat
  BY <1>1, <1>2, <1>3 DEF MpCounts
<1> DEFINE to == MP!AfterSend(r)
           m == [tag |-> 1, v |-> nrepeat[r] - left[r] + 1]
<1>5. /\ lib' = lib /\ nrepeat' = nrepeat /\ left' = left /\ recvPosted' = recvPosted
      /\ epoch' = epoch /\ flying' = flying /\ buf' = buf /\ done' = done
      /\ MP!Send(r, 1, nrepeat[r] - left[r] + 1, to)
  BY DEF MP!SendData, MP!SendMessage, MP!Message
<1>6. to = (IF r = 0 THEN "recv" ELSE "echoed") /\ to \in MP!Labels
  BY <1>1, MpRanks DEF MP!Labels
<1> HIDE DEF to
<1>7. /\ mail' \in [MP!Rank -> Seq(MpMessage)]
      /\ mail'[MP!nbor(r)] = Append(mail[MP!nbor(r)], m) /\ mail'[r] = mail[r]
      /\ pc' \in [MP!Rank -> MP!Labels \ {"ended"}] /\ pc'[r] = "inSend"
      /\ back' \in [MP!Rank -> MP!Labels] /\ back'[r] = to
      /\ \A s \in {0, 1} \ {r} : pc'[s] = pc[s] /\ back'[s] = back[s]
  BY <1>1, <1>4, <1>5, <1>6, MpSent, MpRanks
<1>8. MpTypes'
  BY <1>1, <1>5, <1>7 DEF MpTypes
<1>9. Place(r)' = to
  BY <1>7 DEF Place
<1>10. MpCalls(r)' /\ MpCounts(r)'
  <2>1. MpCalls(r)'
    BY <1>1, <1>2, <1>5, <1>6, <1>7, <1>9 DEF MpCalls, First
  <2>2. MpCounts(r)'
    BY <1>1, <1>2, <1>4, <1>5, <1>6, <1>9, MpRanks DEF MpCounts
  <2> QED  BY <2>1, <2>2
<1>11. /\ \A s \in {0, 1} : MpCalls(s)' /\ MpCounts(s)'
       /\ \A s \in {0, 1} \ {r} : Place(s)' = Place(s)
  BY <1>1, <1>5, <1>7, <1>10, MpAside DEF Still
<1>12. MpLooping'
  <2>1. CASE r = 0
    <3>1. mail[1] = <<>> /\ mail[0] = <<>> /\ Place(1) \in {"recv", "echoed"} /\ Ahead = left[0]
      BY <1>2, <2>1 DEF MpLooping
    <3>2. m = MpData'
      BY <1>5, <2>1 DEF MpData
    <3>3. mail'[1] = <<MpData'>> /\ mail'[0] = <<>>
      BY <1>7, <2>1, <3>1, <3>2, MpRanks
    <3>4. Ahead' = Ahead
      BY <1>5, <1>11, <2>1 DEF Ahead
    <3> QED  BY <1>2, <1>5, <1>6, <1>9, <1>11, <2>1, <3>1, <3>3, <3>4, MpRanks DEF MpLooping
  <2>2. CASE r = 1
    <3>1. Place(0) = "recv" /\ mail[1] = <<>> /\ mail[0] = <<>> /\ left[1] = left[0] /\ nrepeat[1] = nrepeat[0]
      BY <1>2, <2>2 DEF MpLooping, Finishing
    <3>2. m = MpData'
      BY <1>5, <2>2, <3>1 DEF MpData
    <3>3. mail'[0] = <<MpData'>> /\ mail'[1] = <<>>
      BY <1>7, <2>2, <3>1, <3>2, MpRanks
    <3>4. Ahead' + 1 = left'[0]
      BY <1>3, <1>5, <1>6, <1>9, <2>2, <3>1 DEF Ahead
    <3> QED  BY <1>2, <1>5, <1>6, <1>9, <1>11, <2>2, <3>1, <3>3, <3>4, MpRanks DEF MpLooping, Finishing
  <2> QED  BY <1>1, <2>1, <2>2
<1> QED  BY <1>8, <1>11, <1>12, MpRanks DEF MpInv

LEMMA MpTakeMessage ==
    ASSUME MpInv, NEW r \in MP!Rank, MP!RecvData(r), MP!TakeMessage(r)
    PROVE  MpInv'
<1>1. r \in {0, 1} /\ MpTypes /\ MpCalls(r) /\ MpCounts(r) /\ lib # "mpi2" /\ pc[r] = "recv"
  BY MpRanks DEF MpInv, MP!RecvData, MP!TakeMessage
<1>2. Place(r) = "recv" /\ MpLooping
  BY <1>1, MpInLoop
<1>3. \A s \in {0, 1} : /\ nrepeat[s] \in Nat /\ left[s] \in Nat /\ done[s] \in Nat
                        /\ mail[s] \in Seq(MpMessage) /\ Len(mail[s]) \in Nat
  BY <1>1, MpScalars
<1>4. /\ lib' = lib /\ nrepeat' = nrepeat /\ left' = left /\ back' = back /\ epoch' = epoch /\ flying' = flying
      /\ MP!Waiting(r, 1) /\ MP!Take(r, 1)
      /\ buf' = [buf EXCEPT ![r] = mail[r][MP!Oldest(r, 1)].v]
      /\ recvPosted' = [recvPosted EXCEPT ![r] = FALSE]
      /\ pc' = [pc EXCEPT ![r] = MP!AfterRecv(r)]
      /\ done' = [done EXCEPT ![r] = done[r] + 1]
  BY DEF MP!RecvData, MP!TakeMessage
<1>5. mail[r] # <<>>
  BY <1>1, <1>3, <1>4 DEF MP!Waiting
<1>6. /\ mail[r] = <<MpData>> /\ left[0] \in 1..nrepeat[0] /\ Place(0) = "recv"
      /\ IF r = 1 THEN mail[0] = <<>> /\ left[1] = left[0]
         ELSE mail[1] = <<>> /\ Place(1) \in Finishing /\ Ahead + 1 = left[0]
  <2>1. left[0] \in 1..nrepeat[0]
    BY <1>2 DEF MpLooping, MpInv, MpCounts, MP!Rank
  <2>2. CASE r = 0
    BY <1>2, <1>5, <2>1, <2>2 DEF MpLooping
  <2>3. CASE r = 1
    BY <1>2, <1>3, <1>5, <2>1, <2>3 DEF MpLooping, Ahead
  <2> QED  BY <1>1, <2>2, <2>3
<1>7. \A x \in 1..Len(mail[r]) : mail[r][x].tag = 1
  BY <1>6 DEF MpData
<1>8. /\ MP!Oldest(r, 1) = 1 /\ mail' \in [MP!Rank -> Seq(MpMessage)] /\ Len(mail'[r]) = Len(mail[r]) - 1
      /\ \A s \in {0, 1} \ {r} : mail'[s] = mail[s]
  BY <1>1, <1>4, <1>5, <1>7, MpTaken, MpRanks
<1>9. mail'[0] = <<>> /\ mail'[1] = <<>>
  <2>1. Len(mail[r]) = 1
    BY <1>6
  <2>2. mail'[r] \in Seq(MpMessage) /\ Len(mail'[r]) = 0
    BY <1>8, <2>1
  <2>3. mail'[r] = <<>>
    BY <2>2
  <2> QED  BY <1>1, <1>6, <1>8, <2>3
<1> DEFINE to == MP!AfterRecv(r)
<1>10. to = (IF r = 0 THEN "echoed" ELSE "send") /\ to \in MP!Labels \ {"ended"}
  BY <1>1, MpRanks DEF MP!Labels
<1>11. mail[r][1].v = nrepeat[0] - left[0] + 1 /\ nrepeat[0] - left[0] + 1 \in Nat
  BY <1>3, <1>6 DEF MpData
<1> HIDE DEF to
<1>12. /\ pc'[r] = to /\ recvPosted'[r] = FALSE /\ done'[r] = done[r] + 1 /\ buf'[r] = nrepeat[0] - left[0] + 1
       /\ \A s \in {0, 1} \ {r} : /\ pc'[s] = pc[s] /\ recvPosted'[s] = recvPosted[s]
                                  /\ done'[s] = done[s] /\ buf'[s] = buf[s]
  BY <1>1, <1>4, <1>8, <1>11, MpRanks DEF MpTypes, to
<1>13. MpTypes'
  <2>1. pc' \in [MP!Rank -> MP!Labels \ {"ended"}]
    BY <1>1, <1>4, <1>10 DEF MpTypes, to
  <2>2. recvPosted' \in [MP!Rank -> BOOLEAN]
    BY <1>1, <1>4 DEF MpTypes
  <2>3. done[r] + 1 \in Nat
    BY <1>1, <1>3
  <2>4. done' \in [MP!Rank -> Nat]
    BY <1>1, <1>4, <2>3 DEF MpTypes
  <2>5. buf' \in [MP!Rank -> Nat]
    BY <1>1, <1>4, <1>8, <1>11 DEF MpTypes
  <2> QED  BY <1>1, <1>4, <1>8, <2>1, <2>2, <2>4, <2>5 DEF MpTypes
<1>14. Place(r)' = to
  BY <1>10, <1>12 DEF Place
<1>15. MpCalls(r)' /\ MpCounts(r)'
  <2>1. MpCalls(r)'
    BY <1>1, <1>4, <1>10, <1>12, <1>14 DEF MpCalls
  <2>2. MpCounts(r)'
    BY <1>1, <1>2, <1>3, <1>4, <1>10, <1>12, <1>14, MpRanks DEF MpCounts
  <2> QED  BY <2>1, <2>2
<1>16. /\ \A s \in {0, 1} : MpCalls(s)' /\ MpCounts(s)'
       /\ \A s \in {0, 1} \ {r} : Place(s)' = Place(s)
  BY <1>1, <1>4, <1>12, <1>15, MpAside DEF Still
<1>17. buf'[r] = done'[r]
  <2>1. done[r] = nrepeat[r] - left[r] /\ nrepeat[1] = nrepeat[0] /\ left[r] = left[0]
    BY <1>1, <1>2, <1>3, <1>6, MpRanks DEF MpCounts, MpLooping
  <2> QED  BY <1>1, <1>12, <1>3, <2>1
<1>18. MpLooping'
  <2>1. \A s \in {0, 1} : flying'[s] = 0 /\ buf'[s] = done'[s]
    BY <1>2, <1>4, <1>12, <1>17, MpRanks DEF MpLooping
  <2>2. CASE r = 0
    <3>1. Ahead' = Ahead
      BY <1>4, <1>16, <2>2 DEF Ahead
    <3> QED  BY <1>2, <1>4, <1>6, <1>9, <1>10, <1>14, <1>16, <2>1, <2>2, <3>1, MpRanks DEF MpLooping
  <2>3. CASE r = 1
    BY <1>2, <1>4, <1>6, <1>9, <1>10, <1>14, <1>16, <2>1, <2>3, MpRanks DEF MpLooping
  <2> QED  BY <1>1, <2>2, <2>3
<1> QED  BY <1>13, <1>16, <1>18, MpRanks DEF MpInv

\* In the loop over puts: the counts, and that fences are even before a turn.
LEMMA MpTurns ==
    ASSUME MpInv, MpFencing
    PROVE  /\ \A s \in {0, 1} : /\ nrepeat[s] \in Nat /\ left[s] \in 0..nrepeat[s] /\ epoch[s] \in Nat
                                /\ flying[s] \in Nat /\ buf[s] \in Nat /\ done[s] \in Nat
                                /\ Fences(s) \in Nat /\ PutsDone(s) \in Nat
           /\ left[0] # 0 /\ (left[1] = 0 <=> Place(1) \in {"free", "idle", "size"})
           /\ nrepeat[1] = nrepeat[0]
<1>1. \A s \in {0, 1} : /\ nrepeat[s] \in Nat /\ left[s] \in Nat /\ epoch[s] \in Nat
                        /\ flying[s] \in Nat /\ buf[s] \in Nat /\ done[s] \in Nat
  BY MpScalars DEF MpInv
<1>2. /\ left[0] \in 1..nrepeat[0]
      /\ Place(1) \in {"send", "recv", "echoed"} => left[1] \in 1..nrepeat[1]
      /\ Place(1) \in {"free", "idle", "size"} => left[1] = 0
      /\ Place(1) \in {"send", "recv", "echoed", "free", "idle", "size"}
  BY MpRanks DEF MpInv, MpCounts, MpFencing
<1>3. \A s \in {0, 1} : left[s] \in 0..nrepeat[s]
  BY <1>1, <1>2
<1>4. \A s \in {0, 1} : 2 * (nrepeat[s] - left[s]) \in Nat /\ nrepeat[s] - left[s] \in Nat
  BY <1>1, <1>3
<1>5. \A s \in {0, 1} : Fences(s) \in Nat /\ PutsDone(s) \in Nat
  BY <1>4 DEF Fences, PutsDone
<1>6. left[0] # 0 /\ (left[1] = 0 <=> Place(1) \in {"free", "idle", "size"})
  BY <1>1, <1>2
<1> QED  BY <1>1, <1>3, <1>5, <1>6 DEF MpFencing

\* MPI_Put and the fence after it.
LEMMA MpPutAndFence ==
    ASSUME MpInv, NEW r \in MP!Rank, MP!SendData(r), MP!PutAndFence(r)
    PROVE  MpInv'
<1>1. r \in {0, 1} /\ MpTypes /\ MpCalls(r) /\ MpCounts(r) /\ lib = "mpi2" /\ pc[r] = "send"
  BY MpRanks DEF MpInv, MP!SendData, MP!PutAndFence
<1>2. Place(r) = "send" /\ MpFencing
  BY <1>1, MpInLoop
<1> DEFINE to == MP!AfterSend(r)
           v == nrepeat[r] - left[r] + 1
<1>3. to = (IF r = 0 THEN "recv" ELSE "echoed") /\ to \in MP!Labels
  BY <1>1, MpRanks DEF MP!Labels
<1>4. left[r] \in 1..nrepeat[r] /\ nrepeat[r] \in Nat /\ v \in Nat \ {0}
  BY <1>1, <1>2, MpTurns DEF MpCounts
<1>5. /\ lib' = lib /\ nrepeat' = nrepeat /\ left' = left /\ recvPosted' = recvPosted
      /\ mail' = mail /\ buf' = buf /\ done' = done
      /\ flying' = [flying EXCEPT ![MP!nbor(r)] = v] /\ MP!Enter(r, to)
  BY DEF MP!SendData, MP!PutAndFence, MP!Message
<1> HIDE DEF to, v
<1>6. /\ pc' \in [MP!Rank -> MP!Labels \ {"ended"}] /\ pc'[r] = "inAll"
      /\ back' \in [MP!Rank -> MP!Labels] /\ back'[r] = to
      /\ epoch' \in [MP!Rank -> Nat] /\ epoch'[r] = epoch[r] + 1
      /\ \A s \in {0, 1} \ {r} : pc'[s] = pc[s] /\ back'[s] = back[s] /\ epoch'[s] = epoch[s]
  BY <1>1, <1>3, <1>5, MpEntered, MpRanks
<1>7. flying' \in [MP!Rank -> Nat] /\ flying'[r] = flying[r] /\ \A s \in {0, 1} \ {r} : flying'[s] = v
  BY <1>1, <1>4, <1>5, MpRanks DEF MpTypes
<1>8. MpTypes'
  BY <1>1, <1>5, <1>6, <1>7 DEF MpTypes
<1>9. Place(r)' = to
  BY <1>6 DEF Place
<1>10. MpCalls(r)' /\ MpCounts(r)'
  <2>1. MpCalls(r)'
    BY <1>1, <1>2, <1>3, <1>5, <1>6, <1>9 DEF MpCalls, First
  <2>2. MpCounts(r)'
    BY <1>1, <1>2, <1>3, <1>4, <1>5, <1>9, MpRanks DEF MpCounts
  <2> QED  BY <2>1, <2>2
<1>11. /\ \A s \in {0, 1} : MpCalls(s)' /\ MpCounts(s)'
       /\ \A s \in {0, 1} \ {r} : Place(s)' = Place(s)
  BY <1>1, <1>5, <1>6, <1>10, MpAside DEF Still
<1>12. /\ \A s \in {0, 1} \ {r} : Fences(s)' = Fences(s) /\ PutsDone(s)' = PutsDone(s)
       /\ Fences(r)' = Fences(r) + 1 /\ PutsDone(r) = v - 1 /\ PutsDone(r)' = v
  <2>1. \A s \in {0, 1} \ {r} : Fences(s)' = Fences(s) /\ PutsDone(s)' = PutsDone(s)
    BY <1>5, <1>11 DEF Fences, PutsDone
  <2>2. nrepeat[r] - left[r] \in Nat
    BY <1>4
  <2>3. Fences(r)' = Fences(r) + 1
    BY <1>1, <1>2, <1>3, <1>5, <1>9, <2>2, MpRanks DEF Fences
  <2>4. PutsDone(r) = v - 1 /\ PutsDone(r)' = v
    BY <1>1, <1>2, <1>3, <1>5, <1>9, <2>2, MpRanks DEF PutsDone, v
  <2> QED  BY <2>1, <2>3, <2>4
<1>13. Abreast(Fences(0), Fences(1))'
  <2>1. Abreast(Fences(0), Fences(1)) /\ Fences(0) \in Int /\ Fences(1) \in Int
    BY <1>2, MpTurns DEF MpFencing
  <2> QED  BY <1>1, <1>6, <1>12, <2>1, MpAbreastEnters DEF Abreast
<1>even. /\ epoch[0] \in Nat /\ epoch[1] \in Nat /\ Fences(0) \in Nat /\ Fences(1) \in Nat
         /\ Abreast(Fences(0), Fences(1))
  <2>1. epoch[0] \in Nat /\ epoch[1] \in Nat /\ Fences(0) \in Nat /\ Fences(1) \in Nat
    BY <1>2, MpTurns
  <2> QED  BY <1>2, <2>1 DEF MpFencing
<1>14. CASE r = 0
  <2>1. flying[1] = 0 /\ buf[1] = v - 1
    BY <1>1, <1>2, <1>12, <1>14 DEF MpFencing, PutUnderWay
  <2>2. epoch[0] <= epoch[1] /\ epoch[1] <= epoch[0] + 1 /\ (epoch[1] > epoch[0] => pc[1] = "inAll")
        /\ epoch[0] \in Nat /\ epoch[1] \in Nat
    BY <1>1, <1>even, <1>14 DEF Abreast
  <2>3. PutUnderWay(1, 0)'
    BY <1>3, <1>4, <1>5, <1>6, <1>7, <1>9, <1>12, <1>14, <2>1, <2>2, MpRanks DEF PutUnderWay
  <2>4. flying[0] = 0
    <3> SUFFICES ASSUME flying[0] # 0  PROVE FALSE
      OBVIOUS
    <3>1. epoch[0] < epoch[1] /\ Place(1) = "echoed"
      BY <1>1, <1>2, <1>14, MpRanks DEF MpFencing, PutUnderWay
    <3>2. Fences(1) = Fences(0) + 1
      BY <1>even, <2>2, <3>1 DEF Abreast
    <3>3. Fences(0) = 2 * (nrepeat[0] - left[0]) /\ Fences(1) = 2 * (nrepeat[1] - left[1]) + 2
      BY <1>2, <1>14, <3>1, MpTurns, MpRanks DEF Fences
    <3>4. nrepeat[0] - left[0] \in Int /\ nrepeat[1] - left[1] \in Int
      BY <1>2, MpTurns
    <3> QED  BY <3>2, <3>3, <3>4
  <2>5. PutUnderWay(0, 1)'
    BY <1>2, <1>5, <1>7, <1>12, <1>14, <2>4 DEF MpFencing, PutUnderWay
  <2>6. MpFencing'
    BY <1>2, <1>3, <1>5, <1>9, <1>11, <1>13, <1>14, <2>3, <2>5 DEF MpFencing
  <2> QED  BY <1>8, <1>11, <2>6, MpRanks DEF MpInv
<1>15. CASE r = 1
  <2>1. flying[0] = 0 /\ buf[0] = v - 1
    BY <1>1, <1>2, <1>12, <1>15 DEF MpFencing, PutUnderWay
  <2>2. epoch[1] <= epoch[0] /\ epoch[0] <= epoch[1] + 1 /\ (epoch[0] > epoch[1] => pc[0] = "inAll")
        /\ epoch[0] \in Nat /\ epoch[1] \in Nat
    BY <1>1, <1>even, <1>15 DEF Abreast
  <2>3. PutUnderWay(0, 1)'
    BY <1>3, <1>4, <1>5, <1>6, <1>7, <1>9, <1>12, <1>15, <2>1, <2>2, MpRanks DEF PutUnderWay
  <2>4. flying[1] = 0
    <3> SUFFICES ASSUME flying[1] # 0  PROVE FALSE
      OBVIOUS
    <3>1. epoch[1] < epoch[0] /\ Place(0) = "recv"
      BY <1>1, <1>2, <1>15, MpRanks DEF MpFencing, PutUnderWay
    <3>2. Fences(0) = Fences(1) + 1
      BY <1>even, <2>2, <3>1 DEF Abreast
    <3>3. Fences(0) = 2 * (nrepeat[0] - left[0]) + 1 /\ Fences(1) = 2 * (nrepeat[1] - left[1]) + 1
      BY <1>2, <1>15, <3>1, MpTurns, MpRanks DEF Fences
    <3>4. nrepeat[0] - left[0] \in Int /\ nrepeat[1] - left[1] \in Int
      BY <1>2, MpTurns
    <3> QED  BY <3>2, <3>3, <3>4
  <2>5. PutUnderWay(1, 0)'
    BY <1>2, <1>5, <1>7, <1>12, <1>15, <2>4 DEF MpFencing, PutUnderWay
  <2>6. MpFencing'
    BY <1>2, <1>3, <1>5, <1>9, <1>11, <1>13, <1>15, <2>3, <2>5 DEF MpFencing
  <2> QED  BY <1>8, <1>11, <2>6, MpRanks DEF MpInv
<1> QED  BY <1>1, <1>14, <1>15

\* RecvData of mpi2.c: the fence that the put of the peer ends with.
LEMMA MpFence ==
    ASSUME MpInv, NEW r \in MP!Rank, MP!RecvData(r), MP!Fence(r)
    PROVE  MpInv'
<1>1. r \in {0, 1} /\ MpTypes /\ MpCalls(r) /\ MpCounts(r) /\ lib = "mpi2" /\ pc[r] = "recv"
  BY MpRanks DEF MpInv, MP!RecvData, MP!Fence
<1>2. Place(r) = "recv" /\ MpFencing
  BY <1>1, MpInLoop
<1> DEFINE to == MP!AfterRecv(r)
<1>3. to = (IF r = 0 THEN "echoed" ELSE "send") /\ to \in MP!Labels
  BY <1>1, MpRanks DEF MP!Labels
<1>4. left[r] \in 1..nrepeat[r] /\ nrepeat[r] \in Nat /\ done[r] \in Nat
  BY <1>1, <1>2, MpTurns DEF MpCounts
<1>5. /\ lib' = lib /\ nrepeat' = nrepeat /\ left' = left /\ recvPosted' = recvPosted
      /\ mail' = mail /\ buf' = buf /\ flying' = flying /\ done' = [done EXCEPT ![r] = done[r] + 1]
      /\ MP!Enter(r, to)
  BY DEF MP!RecvData, MP!Fence
<1> HIDE DEF to
<1>6. /\ pc' \in [MP!Rank -> MP!Labels \ {"ended"}] /\ pc'[r] = "inAll"
      /\ back' \in [MP!Rank -> MP!Labels] /\ back'[r] = to
      /\ epoch' \in [MP!Rank -> Nat] /\ epoch'[r] = epoch[r] + 1
      /\ \A s \in {0, 1} \ {r} : pc'[s] = pc[s] /\ back'[s] = back[s] /\ epoch'[s] = epoch[s]
  BY <1>1, <1>3, <1>5, MpEntered, MpRanks
<1>7. done' \in [MP!Rank -> Nat] /\ done'[r] = done[r] + 1 /\ \A s \in {0, 1} \ {r} : done'[s] = done[s]
  <2>1. done[r] + 1 \in Nat
    BY <1>4
  <2>2. done' \in [MP!Rank -> Nat]
    BY <1>1, <1>5, <2>1 DEF MpTypes
  <2>3. done'[r] = done[r] + 1 /\ \A s \in {0, 1} \ {r} : done'[s] = done[s]
    BY <1>1, <1>5, MpRanks DEF MpTypes
  <2> QED  BY <2>2, <2>3
<1>8. MpTypes'
  BY <1>1, <1>5, <1>6, <1>7 DEF MpTypes
<1>9. Place(r)' = to
  BY <1>6 DEF Place
<1>10. MpCalls(r)' /\ MpCounts(r)'
  <2>1. MpCalls(r)'
    BY <1>1, <1>2, <1>3, <1>5, <1>6, <1>9 DEF MpCalls, First
  <2>2. MpCounts(r)'
    BY <1>1, <1>2, <1>3, <1>4, <1>5, <1>7, <1>9, MpRanks DEF MpCounts
  <2> QED  BY <2>1, <2>2
<1>11. /\ \A s \in {0, 1} : MpCalls(s)' /\ MpCounts(s)'
       /\ \A s \in {0, 1} \ {r} : Place(s)' = Place(s)
  BY <1>1, <1>5, <1>6, <1>7, <1>10, MpAside DEF Still
<1>12. /\ \A s \in {0, 1} \ {r} : Fences(s)' = Fences(s)
       /\ \A s \in {0, 1} : PutsDone(s)' = PutsDone(s)
       /\ Fences(r)' = Fences(r) + 1
  <2>1. \A s \in {0, 1} \ {r} : Fences(s)' = Fences(s) /\ PutsDone(s)' = PutsDone(s)
    BY <1>5, <1>11 DEF Fences, PutsDone
  <2>2. nrepeat[r] - left[r] \in Nat
    BY <1>4
  <2>3. Fences(r)' = Fences(r) + 1
    BY <1>1, <1>2, <1>3, <1>5, <1>9, <2>2, MpRanks DEF Fences
  <2>4. PutsDone(r)' = PutsDone(r)
    BY <1>1, <1>2, <1>3, <1>5, <1>9, <2>2, MpRanks DEF PutsDone
  <2> QED  BY <2>1, <2>3, <2>4
<1>13. Abreast(Fences(0), Fences(1))'
  <2>1. Abreast(Fences(0), Fences(1)) /\ Fences(0) \in Int /\ Fences(1) \in Int
    BY <1>2, MpTurns DEF MpFencing
  <2> QED  BY <1>1, <1>6, <1>12, <2>1, MpAbreastEnters DEF Abreast
<1>14. epoch[0] \in Nat /\ epoch[1] \in Nat
  BY <1>2, MpTurns
<1>15. PutUnderWay(0, 1)' /\ PutUnderWay(1, 0)'
  <2>1. CASE r = 0
    <3>1. flying[1] = 0
      BY <1>1, <1>2, <2>1 DEF MpFencing, PutUnderWay
    <3>2. PutUnderWay(1, 0)'
      BY <1>2, <1>5, <1>12, <3>1 DEF MpFencing, PutUnderWay
    <3>3. flying[0] # 0 => epoch'[0] < epoch'[1] \/ (epoch'[0] = epoch'[1] /\ pc'[0] = "inAll")
      BY <1>1, <1>2, <1>6, <1>14, <2>1 DEF MpFencing, PutUnderWay
    <3> QED  BY <1>2, <1>5, <1>6, <1>11, <1>12, <2>1, <3>2, <3>3, MpRanks DEF MpFencing, PutUnderWay
  <2>2. CASE r = 1
    <3>1. flying[0] = 0
      BY <1>1, <1>2, <2>2 DEF MpFencing, PutUnderWay
    <3>2. PutUnderWay(0, 1)'
      BY <1>2, <1>5, <1>12, <3>1 DEF MpFencing, PutUnderWay
    <3>3. flying[1] # 0 => epoch'[1] < epoch'[0] \/ (epoch'[1] = epoch'[0] /\ pc'[1] = "inAll")
      BY <1>1, <1>2, <1>6, <1>14, <2>2 DEF MpFencing, PutUnderWay
    <3> QED  BY <1>2, <1>5, <1>6, <1>11, <1>12, <2>2, <3>2, <3>3, MpRanks DEF MpFencing, PutUnderWay
  <2> QED  BY <1>1, <2>1, <2>2
<1>16. MpFencing'
  BY <1>1, <1>2, <1>3, <1>5, <1>9, <1>11, <1>13, <1>15 DEF MpFencing
<1> QED  BY <1>8, <1>11, <1>16, MpRanks DEF MpInv

\* The end of a turn.  The transmitter's last one leads back to the argument exchange.
LEMMA MpEndTurn ==
    ASSUME MpInv, NEW r \in MP!Rank, MP!EndTurn(r)
    PROVE  MpInv'
<1>1. /\ r \in {0, 1} /\ MpTypes /\ MpCalls(r) /\ MpCounts(r) /\ pc[r] = "echoed"
      /\ MpAsking \/ MpLooping \/ MpFencing
  BY MpRanks DEF MpInv, MP!EndTurn, MP!Goto
<1>2. Place(r) = "echoed"
  BY <1>1 DEF Place
<1>3. \A s \in {0, 1} : nrepeat[s] \in Nat /\ left[s] \in Nat /\ done[s] \in Nat
  BY <1>1, MpScalars
<1>4. left[r] \in 1..nrepeat[r] /\ left[r] - 1 \in Nat
  BY <1>1, <1>2, <1>3 DEF MpCounts
<1> DEFINE to == IF left[r] - 1 = 0 THEN "free" ELSE First(r)
<1>5. /\ pc' = [pc EXCEPT ![r] = to] /\ left' = [left EXCEPT ![r] = left[r] - 1]
      /\ lib' = lib /\ nrepeat' = nrepeat /\ back' = back /\ recvPosted' = recvPosted /\ epoch' = epoch
      /\ mail' = mail /\ buf' = buf /\ flying' = flying /\ done' = done
  <2>1. MP!LoopHead(r, left[r] - 1) = to
    BY <1>1, MpRanks DEF MP!LoopHead
  <2> QED  BY <2>1 DEF MP!EndTurn, MP!Goto
<1>6. to \in {"free", "send", "recv"} /\ (left[r] - 1 = 0 => to = "free") /\ (left[r] - 1 # 0 => to = First(r))
  BY DEF First
<1> HIDE DEF to
<1>7. /\ pc'[r] = to /\ left'[r] = left[r] - 1
      /\ \A s \in {0, 1} \ {r} : pc'[s] = pc[s] /\ left'[s] = left[s]
  BY <1>1, <1>5, MpRanks DEF MpTypes
<1>8. MpTypes'
  <2>1. to \in MP!Labels \ {"ended"}
    BY <1>6 DEF MP!Labels
  <2>2. pc' \in [MP!Rank -> MP!Labels \ {"ended"}]
    BY <1>1, <1>5, <2>1 DEF MpTypes
  <2>3. left' \in [MP!Rank -> Nat]
    BY <1>1, <1>4, <1>5 DEF MpTypes
  <2> QED  BY <1>1, <1>5, <2>2, <2>3 DEF MpTypes
<1>9. Place(r)' = to
  BY <1>6, <1>7 DEF Place
<1>10. MpCalls(r)' /\ MpCounts(r)'
  <2>1. MpCalls(r)'
    BY <1>1, <1>2, <1>5, <1>6, <1>7, <1>9 DEF MpCalls, First
  <2>2. done[r] = nrepeat[r] - left[r] + 1
    BY <1>1, <1>2 DEF MpCounts
  <2>3. CASE left[r] - 1 = 0
    <3>1. left'[r] = 0 /\ done'[r] = nrepeat'[r] /\ Place(r)' = "free"
      BY <1>1, <1>3, <1>4, <1>5, <1>6, <1>7, <1>9, <2>2, <2>3
    <3>2. Place(r)' \notin {"win", "prepare", "sync", "malloc", "size", "repeat", "send", "recv", "echoed"}
      BY <3>1
    <3> QED  BY <2>1, <3>1, <3>2 DEF MpCounts
  <2>4. CASE left[r] - 1 # 0
    <3>1. left'[r] \in 1..nrepeat'[r] /\ done'[r] = nrepeat'[r] - left'[r] + 0
      BY <1>1, <1>3, <1>4, <1>5, <1>7, <2>2, <2>4
    <3>2. Place(r)' \notin {"echoed", MP!AfterRecv(r)} /\ Place(r)' \in {"send", "recv"}
      BY <1>1, <1>6, <1>9, <2>4, MpRanks
    <3>3. ~(Place(r) \in {"echoed", MP!AfterRecv(r)})'
      BY <3>2 DEF MP!AfterRecv
    <3>4. Place(r)' \notin {"idle", "free", "size", "repeat", "malloc", "win", "prepare", "sync"}
      BY <3>2
    <3> QED  BY <2>1, <3>1, <3>2, <3>3, <3>4 DEF MpCounts
  <2> QED  BY <2>3, <2>4
<1>11. /\ \A s \in {0, 1} : MpCalls(s)' /\ MpCounts(s)'
       /\ \A s \in {0, 1} \ {r} : Place(s)' = Place(s)
  BY <1>1, <1>5, <1>7, <1>10, MpAside DEF Still
<1>12. CASE MpAsking
  <2>1. r = 1 /\ left[1] = 1 /\ to = "free"
    BY <1>1, <1>2, <1>6, <1>12 DEF MpAsking, Early, First
  <2>2. Passed(1) = 0 /\ Passed(1)' = 0 /\ Entered(1) = 0 /\ Entered(1)' = 0 /\ Early(1)'
    BY <1>2, <1>9, <2>1 DEF Passed, Entered, Early, First
  <2>3. Entered(0)' = Entered(0)
    BY <1>5, <1>11, <2>1 DEF Entered, First
  <2>4. Abreast(Entered(0), Entered(1))'
    <3>1. \A s \in {0, 1} : pc[s] = "inAll" => pc'[s] = "inAll"
      BY <1>1, <1>7
    <3> QED  BY <1>1, <1>5, <1>12, <2>2, <2>3, <3>1, MpAbreastSame DEF MpAsking, Abreast
  <2>5. ~(Place(0)' = First(0) /\ Place(1)' = First(1))
    BY <1>9, <2>1 DEF First
  <2>6. \A s \in {0, 1} \ {1} : Still(s) /\ buf'[s] = buf[s]
    BY <1>5, <1>7, <2>1 DEF Still
  <2>7. buf'[1] = done'[1]
    BY <1>5, <1>12, MpRanks DEF MpAsking
  <2> QED  BY <1>5, <1>8, <1>10, <1>12, <2>1, <2>2, <2>4, <2>5, <2>6, <2>7, MpAskingOn
<1>13. CASE MpLooping
  <2>1. MpCounts(1) /\ MpCounts(0)
    BY MpRanks DEF MpInv
  <2>2. CASE r = 0
    <3>1. /\ mail[1] = <<>> /\ mail[0] = <<>> /\ Place(1) \in Finishing /\ Ahead + 1 = left[0]
          /\ \A s \in {0, 1} : flying'[s] = 0 /\ buf'[s] = done'[s]
      BY <1>2, <1>5, <1>13, <2>2, MpRanks DEF MpLooping
    <3>2. Ahead' = Ahead /\ Ahead' = left'[0] /\ Place(1)' = Place(1) /\ left'[1] = left[1] /\ pc'[1] = pc[1]
      <4>1. Ahead' = Ahead
        BY <1>7, <1>11, <2>2 DEF Ahead
      <4>2. Ahead \in Int
        BY <1>3 DEF Ahead
      <4> QED  BY <1>3, <1>7, <1>11, <2>2, <3>1, <4>1, <4>2
    <3>3. CASE left[0] - 1 = 0
      <4>1. Place(0)' = "free"
        BY <1>6, <1>9, <2>2, <3>3
      <4>2. Place(1) # "recv" /\ (Place(1) = "echoed" => left[1] = 1)
        <5>1. left'[0] = 0
          BY <1>7, <2>2, <3>3
        <5> QED  BY <1>3, <2>1, <3>2, <5>1 DEF Ahead, MpCounts
      <4>3. Early(0)' /\ Early(1)' /\ Passed(0)' = 0 /\ Passed(1)' = 0 /\ Entered(0)' = 0 /\ Entered(1)' = 0
        BY <3>1, <3>2, <4>1, <4>2 DEF Early, Passed, Entered, First, Finishing
      <4>4. Abreast(Entered(0), Entered(1))'
        <5>1. epoch'[0] = epoch'[1] /\ epoch'[0] \in Nat
          BY <1>1, <1>5, <1>13, MpScalars DEF MpLooping
        <5> QED  BY <4>3, <5>1 DEF Abreast
      <4>5. mail'[0] = <<>> /\ Len(mail'[1]) = 0
        BY <1>5, <3>1
      <4>6. ~(Place(0) = First(0) /\ Place(1) = First(1))'
        BY <4>1 DEF First
      <4>7. MpAsking'
        BY <3>1, <4>3, <4>4, <4>5, <4>6, MpRanks DEF MpAsking
      <4> QED  BY <1>8, <1>11, <4>7, MpRanks DEF MpInv
    <3>4. CASE left[0] - 1 # 0
      <4>1. Place(0)' = "send"
        BY <1>6, <1>9, <2>2, <3>4, MpRanks
      <4>2. Place(1) \in {"recv", "echoed"}
        <5>1. left'[0] # 0
          BY <1>7, <2>2, <3>4
        <5> QED  BY <1>3, <2>1, <3>1, <3>2, <5>1 DEF Ahead, MpCounts, Finishing
      <4>3. MpLooping'
        BY <1>5, <1>13, <3>1, <3>2, <4>1, <4>2, MpRanks DEF MpLooping
      <4> QED  BY <1>8, <1>11, <4>3, MpRanks DEF MpInv
    <3> QED  BY <3>3, <3>4
  <2>3. CASE r = 1
    <3>1. Ahead' = Ahead /\ Ahead = left[1] - 1 /\ MpData' = MpData
      BY <1>2, <1>3, <1>4, <1>5, <1>6, <1>7, <1>9, <2>3 DEF Ahead, MpData
    <3>2. Place(0)' = Place(0) /\ left'[0] = left[0] /\ (Place(1)' = "recv" <=> left[1] - 1 # 0)
          /\ Place(1)' \in {"recv", "free"}
      BY <1>6, <1>7, <1>9, <1>11, <2>3, MpRanks
    <3>3. Place(0) = "send" => left[0] # 0
      BY <1>3, <2>1 DEF MpCounts
    <3>4. Place(0) = "recv" => left[0] # 0
      BY <1>3, <2>1 DEF MpCounts
    <3>5. MpLooping'
      <4>1. Place(1)' \in Finishing /\ (Ahead # 0 => Place(1)' \in {"recv", "echoed"})
        BY <3>1, <3>2 DEF Finishing
      <4> QED  BY <1>2, <1>5, <1>13, <2>3, <3>1, <3>2, <3>3, <3>4, <4>1, MpRanks DEF MpLooping
    <3> QED  BY <1>8, <1>11, <3>5, MpRanks DEF MpInv
  <2> QED  BY <1>1, <2>2, <2>3
<1>14. CASE MpFencing
  <2>1. /\ \A s \in {0, 1} : epoch[s] \in Nat /\ Fences(s) \in Nat /\ PutsDone(s) \in Nat /\ left[s] \in 0..nrepeat[s]
        /\ left[0] # 0 /\ (left[1] = 0 <=> Place(1) \in {"free", "idle", "size"}) /\ nrepeat[1] = nrepeat[0]
    BY <1>14, MpTurns
  <2>nat. /\ nrepeat[0] \in Nat /\ left[0] \in 1..nrepeat[0] /\ nrepeat[1] = nrepeat[0] /\ left[1] \in 0..nrepeat[0]
          /\ Fences(0) \in Nat /\ Fences(1) \in Nat
    BY <1>3, <2>1
  <2>2. Abreast(Fences(0), Fences(1)) /\ PutUnderWay(0, 1) /\ PutUnderWay(1, 0)
    BY <1>14 DEF MpFencing
  <2>3. \A s \in {0, 1} : Fences(s)' = Fences(s) /\ PutsDone(s)' = PutsDone(s)
    <3>1. \A s \in {0, 1} \ {r} : Fences(s)' = Fences(s) /\ PutsDone(s)' = PutsDone(s)
      BY <1>5, <1>7, <1>11 DEF Fences, PutsDone
    <3>2. Place(r)' \notin {"echoed", Second(r), MP!AfterSend(r)} /\ Second(r) # "echoed"
      BY <1>1, <1>6, <1>9, MpRanks
    <3>3. /\ Fences(r) = 2 * (nrepeat[r] - left[r]) + 2 /\ Fences(r)' = 2 * (nrepeat[r] - (left[r] - 1)) + 0
          /\ PutsDone(r) = nrepeat[r] - left[r] + 1 /\ PutsDone(r)' = nrepeat[r] - (left[r] - 1) + 0
      BY <1>2, <1>5, <1>7, <3>2 DEF Fences, PutsDone, MP!AfterSend, Second
    <3>4. Fences(r)' = Fences(r) /\ PutsDone(r)' = PutsDone(r)
      BY <1>1, <1>3, <3>3
    <3> QED  BY <3>1, <3>4
  <2>4. Abreast(Fences(0), Fences(1))'
    <3>1. \A s \in {0, 1} : pc[s] = "inAll" => pc'[s] = "inAll"
      BY <1>1, <1>7
    <3> QED  BY <1>1, <1>5, <2>2, <2>3, <3>1, MpAbreastSame DEF Abreast
  <2>5. PutUnderWay(0, 1)' /\ PutUnderWay(1, 0)'
    <3>1. \A s \in {0, 1} : flying[s] # 0 => s = r
      BY <1>1, <2>2 DEF PutUnderWay
    <3>2. \A s \in {0, 1} : pc[s] = "inAll" => pc'[s] = "inAll" /\ Place(s)' = Place(s)
      BY <1>1, <1>7, <1>11
    <3> QED  BY <1>1, <1>5, <2>2, <2>3, <3>1, <3>2, MpRanks DEF PutUnderWay
  <2>6. CASE r = 0
    <3>1. epoch[0] <= epoch[1] /\ Fences(0) <= Fences(1) /\ Fences(1) <= Fences(0) + 1
      BY <1>1, <2>1, <2>2, <2>6 DEF Abreast
    <3>2. Fences(0) = 2 * (nrepeat[0] - left[0]) + 2
      BY <1>2, <2>6 DEF Fences
    <3>3. CASE left[0] - 1 = 0
      <4>1. Place(0)' = "free" /\ Place(1)' = Place(1) /\ left'[1] = left[1]
        BY <1>6, <1>7, <1>9, <1>11, <2>6, <3>3
      <4>2. left[1] # 0 => Place(1) = "echoed" /\ left[1] = 1
        <5>1. left[1] # 0 => Place(1) \in {"send", "recv", "echoed"}
          BY <1>14, <2>1 DEF MpFencing
        <5>2. Fences(0) = 2 * nrepeat[0]
          BY <2>nat, <3>2, <3>3
        <5>3. \/ Place(1) = "echoed" /\ Fences(1) = 2 * (nrepeat[1] - left[1]) + 2
              \/ Place(1) # "echoed" /\ (Fences(1) = 2 * (nrepeat[1] - left[1]) + 1 \/ Fences(1) = 2 * (nrepeat[1] - left[1]))
          BY <2>nat DEF Fences, Second
        <5> QED  BY <2>nat, <3>1, <5>1, <5>2, <5>3
      <4>3. Fences(1) = 2 * nrepeat[0] /\ Fences(0) = 2 * nrepeat[0] /\ PutsDone(1) = nrepeat[0] /\ PutsDone(0) = nrepeat[0]
        <5>1. Fences(0) = 2 * nrepeat[0]
          BY <2>nat, <3>2, <3>3
        <5>2. Fences(1) = 2 * nrepeat[0] /\ PutsDone(1) = nrepeat[0]
          <6>1. CASE left[1] = 0
            <7>1. Place(1) \notin {"echoed", "send", "recv"}
              BY <2>1, <6>1
            <7> QED  BY <2>nat, <6>1, <7>1, MpRanks DEF Fences, PutsDone
          <6>2. CASE left[1] # 0
            BY <2>nat, <4>2, <6>2, MpRanks DEF Fences, PutsDone
          <6> QED  BY <6>1, <6>2
        <5>3. PutsDone(0) = nrepeat[0]
          BY <1>2, <2>nat, <2>6, <3>3, MpRanks DEF PutsDone
        <5> QED  BY <5>1, <5>2, <5>3
      <4>4. epoch[0] = epoch[1]
        BY <2>1, <2>2, <4>3 DEF Abreast
      <4>5. flying[0] = 0 /\ flying[1] = 0 /\ buf[0] = nrepeat[0] /\ buf[1] = nrepeat[0]
        <5>1. flying[0] = 0 /\ flying[1] = 0
          BY <1>1, <2>1, <2>2, <2>6, <4>4 DEF PutUnderWay
        <5> QED  BY <2>2, <4>3, <5>1 DEF PutUnderWay
      <4>6. done[0] = nrepeat[0] /\ done[1] = nrepeat[0]
        <5>1. MpCounts(0) /\ MpCounts(1)
          BY MpRanks DEF MpInv
        <5>2. done[0] = nrepeat[0]
          BY <1>2, <1>3, <2>6, <3>3, <5>1 DEF MpCounts
        <5>3. CASE left[1] = 0
          <6>1. Place(1) \in {"free", "idle", "size"}
            BY <2>1, <5>3
          <6>2. done[1] = nrepeat[1]
            BY <5>1, <6>1 DEF MpCounts
          <6> QED  BY <2>nat, <5>2, <6>2
        <5>4. CASE left[1] # 0
          <6>1. Place(1) = "echoed" /\ left[1] = 1
            BY <4>2, <5>4
          <6>2. done[1] = nrepeat[1] - left[1] + 1
            BY <5>1, <6>1 DEF MpCounts
          <6> QED  BY <2>nat, <5>2, <6>1, <6>2
        <5> QED  BY <5>3, <5>4
      <4>7. Early(0)' /\ Early(1)' /\ Passed(0)' = 0 /\ Passed(1)' = 0 /\ Entered(0)' = 0 /\ Entered(1)' = 0
        BY <2>1, <4>1, <4>2 DEF Early, Passed, Entered, First
      <4>8. Abreast(Entered(0), Entered(1))'
        BY <1>5, <2>1, <4>4, <4>7 DEF Abreast
      <4>9. mail'[0] = <<>> /\ Len(mail'[1]) = 0
        BY <1>5, <1>14 DEF MpFencing
      <4>10. ~(Place(0) = First(0) /\ Place(1) = First(1))'
        BY <4>1 DEF First
      <4>11. \A s \in {0, 1} : flying'[s] = 0 /\ buf'[s] = done'[s]
        BY <1>5, <4>5, <4>6
      <4>12. MpAsking'
        BY <4>7, <4>8, <4>9, <4>10, <4>11, MpRanks DEF MpAsking
      <4> QED  BY <1>8, <1>11, <4>12, MpRanks DEF MpInv
    <3>4. CASE left[0] - 1 # 0
      <4>1. Place(0)' = "send" /\ Place(1)' = Place(1)
        BY <1>6, <1>9, <1>11, <2>6, <3>4, MpRanks
      <4>2. left[1] # 0
        <5> SUFFICES ASSUME left[1] = 0  PROVE FALSE
          OBVIOUS
        <5>1. Fences(1) = 2 * nrepeat[0]
          BY <2>1, <2>nat DEF Fences, Second
        <5> QED  BY <2>nat, <3>1, <3>2, <3>4, <5>1
      <4>3. MpFencing'
        BY <1>5, <1>14, <2>1, <2>4, <2>5, <4>1, <4>2 DEF MpFencing
      <4> QED  BY <1>8, <1>11, <4>3, MpRanks DEF MpInv
    <3> QED  BY <3>3, <3>4
  <2>7. CASE r = 1
    <3>1. epoch[1] <= epoch[0] /\ Fences(1) <= Fences(0) /\ Fences(0) <= Fences(1) + 1
      BY <1>1, <2>1, <2>2, <2>7 DEF Abreast
    <3>2. left[1] - 1 = 0 => Place(0) = "echoed"
      <4>1. Fences(1) = 2 * (nrepeat[1] - left[1]) + 2
        BY <1>2, <2>7 DEF Fences
      <4>2. Place(0) # "echoed" => Fences(0) <= 2 * (nrepeat[0] - left[0]) + 1
        BY <2>nat DEF Fences, Second
      <4> QED  BY <2>nat, <3>1, <4>1, <4>2
    <3>3. Place(1)' \in {"recv", "free"} /\ (Place(1)' = "free" => left[1] - 1 = 0) /\ Place(0)' = Place(0)
      BY <1>6, <1>9, <1>11, <2>7, MpRanks
    <3>4. MpFencing'
      BY <1>5, <1>14, <2>4, <2>5, <3>2, <3>3 DEF MpFencing
    <3> QED  BY <1>8, <1>11, <3>4, MpRanks DEF MpInv
  <2> QED  BY <1>1, <2>6, <2>7
<1> QED  BY <1>1, <1>12, <1>13, <1>14

-----------------------------------------------------------------------------
\* All calls together.
LEMMA MpStarts == MP!Init => MpInv
<1> SUFFICES ASSUME MP!Init  PROVE MpInv
  OBVIOUS
<1>1. /\ lib \in {"mpi", "mpi2", "tcgmsg"} /\ pc = [r \in {0, 1} |-> "idle"] /\ back = [r \in {0, 1} |-> "idle"]
      /\ nrepeat = [r \in {0, 1} |-> 0] /\ left = [r \in {0, 1} |-> 0] /\ mail = [r \in {0, 1} |-> <<>>]
      /\ recvPosted = [r \in {0, 1} |-> FALSE] /\ epoch = [r \in {0, 1} |-> 0]
      /\ flying = [r \in {0, 1} |-> 0] /\ buf = [r \in {0, 1} |-> 0] /\ done = [r \in {0, 1} |-> 0]
  BY MpRanks DEF MP!Init, MP!All
<1>2. MpTypes
  <2>1. <<>> \in Seq(MpMessage) /\ "idle" \in MP!Labels \ {"ended"} /\ 0 \in Nat
    BY DEF MP!Labels
  <2>2. mail \in [MP!Rank -> Seq(MpMessage)]
    BY <1>1, <2>1, MpRanks, Zenon
  <2>3. pc \in [MP!Rank -> MP!Labels \ {"ended"}] /\ back \in [MP!Rank -> MP!Labels]
    BY <1>1, <2>1, MpRanks, Zenon
  <2>4. /\ nrepeat \in [MP!Rank -> Nat] /\ left \in [MP!Rank -> Nat] /\ epoch \in [MP!Rank -> Nat]
        /\ flying \in [MP!Rank -> Nat] /\ buf \in [MP!Rank -> Nat] /\ done \in [MP!Rank -> Nat]
    BY <1>1, MpRanks
  <2>5. recvPosted \in [MP!Rank -> BOOLEAN]
    BY <1>1, MpRanks
  <2> QED  BY <1>1, <2>2, <2>3, <2>4, <2>5 DEF MpTypes
<1>3. \A r \in {0, 1} : /\ pc[r] = "idle" /\ nrepeat[r] = 0 /\ left[r] = 0 /\ done[r] = 0 /\ epoch[r] = 0
                        /\ flying[r] = 0 /\ buf[r] = 0 /\ mail[r] = <<>> /\ recvPosted[r] = FALSE
  BY <1>1
<1>4. \A r \in {0, 1} : Place(r) = "idle"
  BY <1>3 DEF Place
<1>5. \A r \in {0, 1} : MpCalls(r) /\ MpCounts(r)
  BY <1>3, <1>4 DEF MpCalls, MpCounts
<1>6. \A r \in {0, 1} : Passed(r) = 0 /\ Entered(r) = 0 /\ Early(r)
  BY <1>4 DEF Passed, Entered, Early, First
<1>7. Abreast(Entered(0), Entered(1))
  BY <1>3, <1>6 DEF Abreast
<1>8. MpAsking
  BY <1>3, <1>4, <1>6, <1>7, MpRanks DEF MpAsking
<1> QED  BY <1>2, <1>5, <1>8, MpRanks DEF MpInv

LEMMA MpStep ==
    ASSUME MpInv, MP!Next
    PROVE  MpInv'
<1>1. PICK r \in MP!Rank : MP!Step(r) \/ MP!Land(r)
  BY DEF MP!Next
<1>2. CASE MP!SendData(r)
  BY <1>2, MpSendMessage, MpPutAndFence DEF MP!SendData
<1>3. CASE MP!RecvData(r)
  BY <1>3, MpTakeMessage, MpFence DEF MP!RecvData
<1> QED  BY <1>1, <1>2, <1>3, MpCall, MpSendRepeat, MpRecvRepeat, MpMyMalloc, MpAfterAlignmentInit, MpPrepareToReceive,
           MpSync, MpEndTurn, MpFreeBuff, MpSendReturns, MpAllReturn, MpLand DEF MP!Step

LEMMA MpStutters ==
    ASSUME MpInv, UNCHANGED <<lib, pc, back, nrepeat, left, mail, recvPosted, epoch, flying, buf, done>>
    PROVE  MpInv'
<1>1. MpTypes'
  BY DEF MpInv, MpTypes
<1>2. \A r \in {0, 1} : MpCalls(r)' /\ MpCounts(r)' /\ Place(r)' = Place(r)
  BY MpKept, MpRanks DEF MpInv, Still
<1>3. CASE MpAsking
  <2>1. \A r \in {0, 1} : Passed(r)' = Passed(r) /\ Entered(r)' = Entered(r) /\ (Early(r) => Early(r)')
    BY <1>2 DEF Passed, Entered, Early, First
  <2>2. MpAsking'
    BY <1>2, <1>3, <2>1, MpRanks DEF MpAsking, Abreast
  <2> QED  BY <1>1, <1>2, <2>2, MpRanks DEF MpInv
<1>4. CASE MpLooping
  <2>1. Ahead' = Ahead /\ MpData' = MpData
    BY <1>2 DEF Ahead, MpData
  <2>2. MpLooping'
    BY <1>2, <1>4, <2>1, MpRanks DEF MpLooping
  <2> QED  BY <1>1, <1>2, <2>2, MpRanks DEF MpInv
<1>5. CASE MpFencing
  <2>1. \A r \in {0, 1} : Fences(r)' = Fences(r) /\ PutsDone(r)' = PutsDone(r)
    BY <1>2 DEF Fences, PutsDone
  <2>2. PutUnderWay(0, 1)' /\ PutUnderWay(1, 0)'
    BY <1>2, <1>5, <2>1 DEF MpFencing, PutUnderWay
  <2>3. Abreast(Fences(0), Fences(1))'
    BY <1>5, <2>1 DEF MpFencing, Abreast
  <2>4. MpFencing'
    BY <1>2, <1>5, <2>2, <2>3 DEF MpFencing
  <2> QED  BY <1>1, <1>2, <2>4, MpRanks DEF MpInv
<1> QED  BY <1>3, <1>4, <1>5 DEF MpInv

MpiInv == built = "mpi" => MpInv

LEMMA MpiInvariance == Spec => []MpiInv
<1>1. Init => MpiInv
  BY MpStarts DEF Init, MpiInv
<1>2. MpiInv /\ [Next]_vars => MpiInv'
  <2> SUFFICES ASSUME MpiInv, [Next]_vars, built' = "mpi"  PROVE MpInv'
    BY DEF MpiInv
  <2>1. built = "mpi" /\ MpInv
    BY SameBuild DEF MpiInv
  <2>2. MpiStep \/ UNCHANGED vars
    BY <2>1 DEF Next, MailboxStep, AtoaStep, GmStep, PvmStep, HeapStep, CopyStep, PatternStep
  <2>3. CASE MpiStep
    BY <2>1, <2>3, MpStep DEF MpiStep
  <2>4. CASE UNCHANGED vars
    BY <2>1, <2>4, MpStutters DEF vars, mpiOnly
  <2> QED  BY <2>2, <2>3, <2>4
<1> QED  BY <1>1, <1>2, PTL DEF Spec

\* Between fences, the message a rank has been told of is there and the one after it
\* has not replaced it: a rank's own fences, halved, are what it has received, its
\* partner's what has been put.
LEMMA MpFenced ==
    ASSUME MpInv, MpFencing, NEW r \in {0, 1}
    PROVE  buf[r] <= done[r] + 1 /\ (pc[r] \notin {"inAll", "inSend"} => done[r] <= buf[r])
<1>1. /\ nrepeat[0] \in Nat /\ nrepeat[1] = nrepeat[0] /\ left[0] \in 0..nrepeat[0] /\ left[1] \in 0..nrepeat[0]
      /\ epoch[0] \in Nat /\ epoch[1] \in Nat /\ flying[0] \in Nat /\ flying[1] \in Nat
      /\ buf[0] \in Nat /\ buf[1] \in Nat /\ done[0] \in Nat /\ done[1] \in Nat
      /\ Fences(0) \in Nat /\ Fences(1) \in Nat /\ PutsDone(0) \in Nat /\ PutsDone(1) \in Nat
      /\ left[1] = 0 <=> Place(1) \in {"free", "idle", "size"}
  BY MpTurns
<1>2. MpCounts(0) /\ MpCounts(1)
  BY MpRanks DEF MpInv
<1>3. /\ 2 * done[0] \in {Fences(0), Fences(0) - 1} /\ 2 * PutsDone(0) \in {Fences(0), Fences(0) + 1}
      /\ Place(0) = "recv" => 2 * PutsDone(0) = Fences(0) + 1
  <2>1. Place(0) \in {"send", "recv", "echoed"}
    BY DEF MpFencing
  <2>2. done[0] = nrepeat[0] - left[0] + IF Place(0) \in {"echoed", MP!AfterRecv(0)} THEN 1 ELSE 0
    BY <1>2, <2>1 DEF MpCounts
  <2>3. CASE Place(0) = "send"
    <3>1. done[0] = nrepeat[0] - left[0] + 0 /\ Fences(0) = 2 * (nrepeat[0] - left[0]) + 0
          /\ PutsDone(0) = nrepeat[0] - left[0] + 0
      BY <2>2, <2>3, MpRanks DEF Fences, PutsDone
    <3> QED  BY <1>1, <2>3, <3>1
  <2>4. CASE Place(0) = "recv"
    <3>1. done[0] = nrepeat[0] - left[0] + 0 /\ Fences(0) = 2 * (nrepeat[0] - left[0]) + 1
          /\ PutsDone(0) = nrepeat[0] - left[0] + 1
      BY <2>2, <2>4, MpRanks DEF Fences, PutsDone
    <3> QED  BY <1>1, <2>4, <3>1
  <2>5. CASE Place(0) = "echoed"
    <3>1. done[0] = nrepeat[0] - left[0] + 1 /\ Fences(0) = 2 * (nrepeat[0] - left[0]) + 2
          /\ PutsDone(0) = nrepeat[0] - left[0] + 1
      BY <2>2, <2>5, MpRanks DEF Fences, PutsDone
    <3> QED  BY <1>1, <2>5, <3>1
  <2> QED  BY <2>1, <2>3, <2>4, <2>5
<1>4. /\ 2 * done[1] \in {Fences(1), Fences(1) + 1} /\ 2 * PutsDone(1) \in {Fences(1), Fences(1) - 1}
      /\ Place(1) = "echoed" => 2 * PutsDone(1) = Fences(1)
  <2>1. Place(1) \in {"send", "recv", "echoed", "free", "idle", "size"}
    BY DEF MpFencing
  <2>2. Place(1) \in {"send", "recv", "echoed"} =>
            done[1] = nrepeat[1] - left[1] + IF Place(1) \in {"echoed", MP!AfterRecv(1)} THEN 1 ELSE 0
    BY <1>2 DEF MpCounts
  <2>3. CASE Place(1) = "recv"
    <3>1. done[1] = nrepeat[1] - left[1] + 0 /\ Fences(1) = 2 * (nrepeat[1] - left[1]) + 0
          /\ PutsDone(1) = nrepeat[1] - left[1] + 0
      BY <2>2, <2>3, MpRanks DEF Fences, PutsDone
    <3> QED  BY <1>1, <2>3, <3>1
  <2>4. CASE Place(1) = "send"
    <3>1. done[1] = nrepeat[1] - left[1] + 1 /\ Fences(1) = 2 * (nrepeat[1] - left[1]) + 1
          /\ PutsDone(1) = nrepeat[1] - left[1] + 0
      BY <2>2, <2>4, MpRanks DEF Fences, PutsDone
    <3> QED  BY <1>1, <2>4, <3>1
  <2>5. CASE Place(1) = "echoed"
    <3>1. done[1] = nrepeat[1] - left[1] + 1 /\ Fences(1) = 2 * (nrepeat[1] - left[1]) + 2
          /\ PutsDone(1) = nrepeat[1] - left[1] + 1
      BY <2>2, <2>5, MpRanks DEF Fences, PutsDone
    <3> QED  BY <1>1, <2>5, <3>1
  <2>6. CASE Place(1) \in {"free", "idle", "size"}
    <3>1. Fences(1) = 2 * (nrepeat[1] - left[1]) + 0 /\ PutsDone(1) = nrepeat[1] - left[1] + 0
      BY <2>6, MpRanks DEF Fences, PutsDone
    <3>2. done[1] = nrepeat[1] /\ left[1] = 0
      BY <1>1, <1>2, <2>6 DEF MpCounts
    <3> QED  BY <1>1, <2>6, <3>1, <3>2
  <2> QED  BY <2>1, <2>3, <2>4, <2>5, <2>6
<1>5. /\ epoch[0] + Fences(1) = epoch[1] + Fences(0) /\ epoch[0] <= epoch[1] + 1 /\ epoch[1] <= epoch[0] + 1
      /\ pc[0] # "inAll" => epoch[0] <= epoch[1]
      /\ pc[1] # "inAll" => epoch[1] <= epoch[0]
  <2>1. /\ epoch[0] + Fences(1) = epoch[1] + Fences(0) /\ epoch[0] <= epoch[1] + 1 /\ epoch[1] <= epoch[0] + 1
        /\ pc[0] # "inAll" => ~(epoch[0] > epoch[1])
        /\ pc[1] # "inAll" => ~(epoch[1] > epoch[0])
    BY DEF MpFencing, Abreast
  <2> QED  BY <1>1, <2>1
<1>6. CASE r = 0
  <2>1. \/ buf[0] = PutsDone(1)
        \/ /\ buf[0] = PutsDone(1) - 1 /\ Place(1) = "echoed"
           /\ pc[0] # "inAll" => epoch[0] < epoch[1]
    BY MpRanks DEF MpFencing, PutUnderWay
  <2>2. buf[0] <= done[0] + 1
    BY <1>1, <1>3, <1>4, <1>5, <2>1
  <2>3. pc[0] # "inAll" => done[0] <= buf[0]
    BY <1>1, <1>3, <1>4, <1>5, <2>1
  <2> QED  BY <1>6, <2>2, <2>3
<1>7. CASE r = 1
  <2>1. \/ buf[1] = PutsDone(0)
        \/ /\ buf[1] = PutsDone(0) - 1 /\ Place(0) = "recv"
           /\ pc[1] # "inAll" => epoch[1] < epoch[0]
    BY MpRanks DEF MpFencing, PutUnderWay
  <2>2. buf[1] <= done[1] + 1
    BY <1>1, <1>3, <1>4, <1>5, <2>1
  <2>3. pc[1] # "inAll" => done[1] <= buf[1]
    BY <1>1, <1>3, <1>4, <1>5, <2>1
  <2> QED  BY <1>7, <2>2, <2>3
<1> QED  BY <1>6, <1>7

\* What the invariant means for the calls of run_iters.
LEMMA MpPromises ==
    ASSUME MpInv
    PROVE  MP!TypeOK /\ MP!ReceivedMeansArrived /\ MP!NothingOverwritten /\ MP!NoOutstandingReceive
<1>1. MpTypes /\ \A r \in {0, 1} : MpCalls(r) /\ MpCounts(r)
  BY MpRanks DEF MpInv
<1>2. ASSUME NEW r \in {0, 1}
      PROVE  buf[r] <= done[r] + 1 /\ (pc[r] \notin {"inAll", "inSend"} => done[r] <= buf[r])
  <2>1. buf[r] \in Nat /\ done[r] \in Nat
    BY <1>1, MpScalars
  <2>2. CASE MpAsking \/ MpLooping
    <3>1. buf[r] = done[r]
      BY <2>2, MpRanks DEF MpAsking, MpLooping
    <3> QED  BY <2>1, <3>1
  <2>3. CASE MpFencing
    BY <2>3, MpFenced
  <2> QED  BY <2>2, <2>3 DEF MpInv
<1>3. ASSUME NEW r \in {0, 1}, pc[r] = "malloc"
      PROVE  ~MP!Waiting(r, 1) /\ flying[r] = 0
  <2>1. MpAsking
    BY <1>3, MpEarlyPlaces DEF Place
  <2>2. mail[0] = <<>> /\ \A x \in 1..Len(mail[1]) : mail[1][x].tag = 2
    BY <2>1 DEF MpAsking
  <2>3. mail[r] \in Seq(MpMessage)
    BY <1>1, MpRanks DEF MpTypes
  <2>4. DOMAIN mail[r] = 1..Len(mail[r])
    BY <2>3
  <2>5. flying[r] = 0
    BY <2>1, MpRanks DEF MpAsking
  <2>6. ~MP!Waiting(r, 1)
    BY <2>2, <2>4 DEF MP!Waiting
  <2> QED  BY <2>5, <2>6
<1>4. ASSUME NEW r \in {0, 1}  PROVE left[r] <= nrepeat[r]
  <2>1. nrepeat[r] \in Nat /\ left[r] \in Nat /\ pc[r] \in MP!Labels \ {"ended"}
    BY <1>1, MpScalars
  <2>2. Place(r) \in MP!Labels \ {"ended", "inAll", "inSend"}
    BY <1>1, <2>1 DEF MpCalls, Place, First, MP!Labels
  <2>3. \/ Place(r) \in {"idle", "free", "size", "repeat", "malloc"}
        \/ Place(r) \in {"win", "prepare", "sync"}
        \/ Place(r) \in {"send", "recv", "echoed"}
    BY <2>2 DEF MP!Labels
  <2>4. left[r] = 0 \/ left[r] = nrepeat[r] \/ left[r] \in 1..nrepeat[r]
    BY <1>1, <2>3 DEF MpCounts
  <2> QED  BY <2>1, <2>4
<1>5. ASSUME NEW r \in {0, 1}  PROVE Len(mail[r]) <= 2
  <2>1. Len(<<>>) = 0 /\ Len(<<MpData>>) = 1
    OBVIOUS
  <2>2. CASE MpAsking
    <3>1. Passed(0) \in {0, 1, 2} /\ Passed(1) \in {0, 1, 2}
      BY DEF Passed
    <3>2. Len(mail[0]) = 0 /\ Len(mail[1]) = Passed(0) - Passed(1)
      BY <2>1, <2>2 DEF MpAsking
    <3> QED  BY <3>1, <3>2
  <2>3. CASE MpLooping \/ MpFencing
    <3>1. mail[r] = <<>> \/ mail[r] = <<MpData>>
      BY <2>3 DEF MpLooping, MpFencing
    <3>2. 0 <= 2 /\ 1 <= 2
      OBVIOUS
    <3> QED  BY <2>1, <3>1, <3>2, Zenon
  <2> QED  BY <2>2, <2>3 DEF MpInv
<1>6. MP!TypeOK
  <2>1. pc \in [MP!Rank -> MP!Labels]
    BY <1>1 DEF MpTypes
  <2> QED  BY <1>1, <1>4, <1>5, <2>1, MpRanks DEF MpTypes, MP!TypeOK
<1>7. MP!ReceivedMeansArrived
  BY <1>2, MpRanks DEF MP!ReceivedMeansArrived
<1>8. MP!NothingOverwritten
  BY <1>2, <1>3, MpRanks DEF MP!NothingOverwritten
<1>9. MP!NoOutstandingReceive
  <2> SUFFICES ASSUME NEW r \in {0, 1}, pc[r] = "prepare"  PROVE ~recvPosted[r]
    BY MpRanks DEF MP!NoOutstandingReceive
  <2>1. Place(r) = "prepare" /\ MpCalls(r)
    BY <1>1 DEF Place
  <2> QED  BY <2>1 DEF MpCalls, First
<1> QED  BY <1>6, <1>7, <1>8, <1>9
=============================================================================
