--------------------------- MODULE PingPongProofs ---------------------------
(***************************************************************************)
(* Machine-checked proofs about PingPong, for every set of requests and     *)
(* every number of calls.                                                   *)
(***************************************************************************)
EXTENDS PingPong, SequenceTheorems, TLAPS

\* A prefix of a sequence is a sequence over the same set.
LEMMA PrefixType ==
    ASSUME NEW S, NEW s \in Seq(S), NEW k \in 0..Len(s)
    PROVE  SubSeq(s, 1, k) \in Seq(S)
  OBVIOUS

-----------------------------------------------------------------------------
(* Types *)

USE DEF Proc

LEMMA BytesType ==
    ASSUME NEW n \in Nat
    PROVE  Bytes(n) \in Nat
<1>1. n + 7 \in Nat
  OBVIOUS
<1>2. \A m \in Nat : m \div 8 \in Nat
  OBVIOUS
<1> QED
  BY <1>1, <1>2 DEF Bytes

LEMMA MessageTypes ==
    ASSUME TypeOK, NEW p \in Proc
    PROVE  /\ SizeMsg(size[p]) \in Message
           /\ NrepeatMsg(nrepeat[p]) \in Message
           /\ SyncMsg \in Message
           /\ DataMsg(size[p]) \in Message
  BY BytesType DEF TypeOK, SizeMsg, NrepeatMsg, SyncMsg, DataMsg, Message

LEMMA EmitType ==
    ASSUME TypeOK, NEW p \in Proc, NEW m \in Message, Emit(p, m)
    PROVE  chan' \in [Proc -> Seq(Message)]
  BY DEF TypeOK, Emit, Peer

LEMMA HaltType ==
    ASSUME TypeOK, NEW p \in Proc, Halt(p)
    PROVE  TypeOK'
<1>1. PICK k \in 0..Len(chan[Peer(p)]) :
         chan' = [q \in Proc |-> IF q = p THEN <<>> ELSE SubSeq(chan[q], 1, k)]
  BY DEF Halt
<1>2. chan' \in [Proc -> Seq(Message)]
  <2>1. \A q \in Proc : q # p => q = Peer(p)
    BY DEF Peer
  <2>2. SubSeq(chan[Peer(p)], 1, k) \in Seq(Message)
    BY PrefixType DEF TypeOK, Peer
  <2> QED
    BY <1>1, <2>1, <2>2
<1> QED
  BY <1>2 DEF TypeOK, Halt, Goto, Labels

LEMMA ConsumeType ==
    ASSUME TypeOK, NEW p \in Proc, Consume(p)
    PROVE  chan' \in [Proc -> Seq(Message)] /\ Head(chan[p]) \in Message
  BY DEF TypeOK, Consume

LEMMA TypeStep ==
    ASSUME TypeOK, [Next]_vars
    PROVE  TypeOK'
<1>1. ASSUME NEW p \in Proc, Call(p)
      PROVE  TypeOK'
  BY <1>1, RequestsAssumption, SMTT(30) DEF TypeOK, Call, Goto, Labels
<1>2. ASSUME NEW p \in Proc, SendRepeat(p)
      PROVE  TypeOK'
  BY <1>2, MessageTypes, EmitType DEF TypeOK, SendRepeat, Goto, Labels
<1>3. ASSUME NEW p \in Proc, RecvSize(p)
      PROVE  TypeOK'
  BY <1>3, ConsumeType DEF TypeOK, RecvSize, Goto, Labels, Message
<1>4. ASSUME NEW p \in Proc, RecvNrepeat(p)
      PROVE  TypeOK'
  BY <1>4, ConsumeType DEF TypeOK, RecvNrepeat, Goto, Labels, Message
<1>5. ASSUME NEW p \in Proc, SyncWrite(p)
      PROVE  TypeOK'
  BY <1>5, MessageTypes, EmitType DEF TypeOK, SyncWrite, Goto, Labels
<1>6. ASSUME NEW p \in Proc, SyncRead(p)
      PROVE  TypeOK'
  BY <1>6, ConsumeType DEF TypeOK, SyncRead, Goto, Labels, LoopHead
<1>7. ASSUME NEW p \in Proc, SendData(p)
      PROVE  TypeOK'
  BY <1>7, MessageTypes, EmitType, SMTT(30) DEF TypeOK, SendData, Goto, Labels, LoopHead
<1>8. ASSUME NEW p \in Proc, RecvData(p)
      PROVE  TypeOK'
  <2>1. chan' \in [Proc -> Seq(Message)]
    BY <1>8, ConsumeType DEF RecvData
  <2>2. pc' \in [Proc -> Labels] /\ j' \in [Proc -> Nat]
    BY <1>8 DEF TypeOK, RecvData, AfterRecvData, Goto, Labels, LoopHead
  <2>3. whole' \in [Proc -> Nat]
    BY <1>8 DEF TypeOK, RecvData
  <2>4. UNCHANGED <<size, nrepeat, ret>>
    BY <1>8 DEF RecvData
  <2> QED
    BY <2>1, <2>2, <2>3, <2>4 DEF TypeOK
<1>9. ASSUME NEW p \in Proc, Return(p)
      PROVE  TypeOK'
  BY <1>9 DEF TypeOK, Return, Goto, Labels, Result
<1>10. ASSUME NEW p \in Proc, RecvDataEOF(p)
       PROVE  TypeOK'
  BY <1>10 DEF TypeOK, RecvDataEOF, AfterRecvData, Goto, Labels, LoopHead
<1>11. ASSUME NEW p \in Proc, Stop(p)
       PROVE  TypeOK'
  BY <1>11, HaltType DEF Stop
<1>12. CASE UNCHANGED vars
  BY <1>12 DEF TypeOK, vars
<1> QED
  BY <1>1, <1>2, <1>3, <1>4, <1>5, <1>6, <1>7, <1>8, <1>9, <1>10, <1>11, <1>12
     DEF Next, Terminated

\* Every variable of the message-level protocol keeps its type.
THEOREM TypeCorrect == Spec => []TypeOK
<1>1. Init => TypeOK
  BY DEF Init, TypeOK, Labels
<1> QED
  BY <1>1, TypeStep, PTL DEF Spec

-----------------------------------------------------------------------------
(* Sequences of up to three elements *)

LEMMA AppendShort ==
    ASSUME NEW S, NEW a \in S, NEW b \in S, NEW c \in S
    PROVE  /\ Append(<<>>, a) = <<a>>
           /\ Append(<<a>>, b) = <<a, b>>
           /\ Append(<<a, b>>, c) = <<a, b, c>>
<1>1. Append(<<>>, a) = <<a>>
  OBVIOUS
<1>2. Append(<<a>>, b) = <<a, b>>
  <2> DEFINE s == Append(<<a>>, b)  t == <<a, b>>
  <2>1. s \in Seq(S) /\ Len(s) = 2 /\ s[1] = a /\ s[2] = b
    <3>1. <<a>> \in Seq(S) /\ Len(<<a>>) = 1 /\ <<a>>[1] = a
      OBVIOUS
    <3> QED
      BY <3>1, AppendProperties
  <2>2. t \in Seq(S) /\ Len(t) = 2 /\ t[1] = a /\ t[2] = b
    OBVIOUS
  <2> HIDE DEF s, t
  <2>3. s = t
    BY <2>1, <2>2, SeqEqual
  <2> QED
    BY <2>3 DEF s, t
<1>3. Append(<<a, b>>, c) = <<a, b, c>>
  <2> DEFINE s == Append(<<a, b>>, c)  t == <<a, b, c>>
  <2>1. s \in Seq(S) /\ Len(s) = 3 /\ s[1] = a /\ s[2] = b /\ s[3] = c
    <3>1. <<a, b>> \in Seq(S) /\ Len(<<a, b>>) = 2 /\ <<a, b>>[1] = a /\ <<a, b>>[2] = b
      OBVIOUS
    <3> QED
      BY <3>1, AppendProperties
  <2>2. t \in Seq(S) /\ Len(t) = 3 /\ t[1] = a /\ t[2] = b /\ t[3] = c
    OBVIOUS
  <2> HIDE DEF s, t
  <2>3. s = t
    BY <2>1, <2>2, SeqEqual
  <2> QED
    BY <2>3 DEF s, t
<1> QED
  BY <1>1, <1>2, <1>3

LEMMA TailShort ==
    ASSUME NEW a, NEW b, NEW c
    PROVE  /\ Tail(<<a>>) = <<>>
           /\ Tail(<<a, b>>) = <<b>>
           /\ Tail(<<a, b, c>>) = <<b, c>>
  OBVIOUS

LEMMA ShortSequence ==
    ASSUME NEW S, NEW a \in S, NEW b \in S, NEW c \in S, NEW s \in Seq(S)
    PROVE  /\ Len(s) = 0 => s = <<>>
           /\ Len(s) = 1 /\ s[1] = a => s = <<a>>
           /\ Len(s) = 2 /\ s[1] = a /\ s[2] = b => s = <<a, b>>
           /\ Len(s) = 3 /\ s[1] = a /\ s[2] = b /\ s[3] = c => s = <<a, b, c>>
  OBVIOUS

\* Cutting a short sequence leaves a shorter one with the same beginning.
LEMMA PrefixShort ==
    ASSUME NEW S, NEW a \in S, NEW b \in S, NEW c \in S, NEW s, NEW k \in 0..Len(s)
    PROVE  /\ s = <<>> => SubSeq(s, 1, k) = <<>>
           /\ s = <<a>> => SubSeq(s, 1, k) \in {<<>>, <<a>>}
           /\ s = <<a, b>> => SubSeq(s, 1, k) \in {<<>>, <<a>>, <<a, b>>}
           /\ s = <<a, b, c>> => SubSeq(s, 1, k) \in {<<>>, <<a>>, <<a, b>>, <<a, b, c>>}
<1> DEFINE u == SubSeq(s, 1, k)
<1>0. ASSUME s \in Seq(S) PROVE u \in Seq(S) /\ Len(u) = k /\ \A i \in 1..k : u[i] = s[i]
  BY <1>0
<1> HIDE DEF u
<1>1. CASE s = <<>>
  <2>1. s \in Seq(S) /\ Len(s) = 0
    BY <1>1
  <2> QED
    BY <1>0, <1>1, <2>1 DEF u
<1>2. CASE s = <<a>>
  <2>1. s \in Seq(S) /\ Len(s) = 1 /\ s[1] = a
    BY <1>2
  <2>2. u \in {<<>>, <<a>>}
    BY <1>0, <2>1, ShortSequence
  <2> QED
    BY <1>2, <2>2 DEF u
<1>3. CASE s = <<a, b>>
  <2>1. s \in Seq(S) /\ Len(s) = 2 /\ s[1] = a /\ s[2] = b
    BY <1>3
  <2>2. u \in {<<>>, <<a>>, <<a, b>>}
    BY <1>0, <2>1, ShortSequence
  <2> QED
    BY <1>3, <2>2 DEF u
<1>4. CASE s = <<a, b, c>>
  <2>1. s \in Seq(S) /\ Len(s) = 3 /\ s[1] = a /\ s[2] = b /\ s[3] = c
    BY <1>4
  <2>2. u \in {<<>>, <<a>>, <<a, b>>, <<a, b, c>>}
    BY <1>0, <2>1, ShortSequence
  <2> QED
    BY <1>4, <2>2 DEF u
<1> QED
  BY <1>1, <1>2, <1>3, <1>4

LEMMA ShortLengths ==
    ASSUME NEW a, NEW b, NEW c
    PROVE  /\ Len(<<>>) = 0
           /\ Len(<<a>>) = 1
           /\ Len(<<a, b>>) = 2
           /\ Len(<<a, b, c>>) = 3
  OBVIOUS

-----------------------------------------------------------------------------
(* The joint state: one lemma per action.  Each first states what the action does to *)
(* the two processes, then goes through the conjuncts of InStep.                     *)

\* Appending to the pipes, in all the contents they can have.
LEMMA Pipes ==
    ASSUME TypeOK
    PROVE  \A d \in Message :
              /\ Append(<<>>, Sz) = <<Sz>> /\ Append(<<>>, Sy) = <<Sy>>
              /\ Append(<<Sz>>, Nr) = <<Sz, Nr>> /\ Append(<<Sz, Nr>>, Sy) = <<Sz, Nr, Sy>>
              /\ Append(<<>>, Nr) = <<Nr>> /\ Append(<<Nr>>, Sy) = <<Nr, Sy>>
              /\ Append(<<>>, d) = <<d>> /\ Append(<<Sy>>, d) = <<Sy, d>>
  BY MessageTypes, AppendShort, ZenonT(40) DEF Sz, Nr, Sy

LEMMA CallStep ==
    ASSUME InStep, NEW p \in Proc, Call(p), TypeOK'
    PROVE  InStep'
<1>0. TypeOK /\ LoopCounters /\ Repeats /\ RcvReadable /\ TrReadable /\ AheadByOne /\ SameResults
  BY DEF InStep
<1>1. CASE p = "tr"
  <2>1. /\ pc["tr"] = "idle" /\ pc'["tr"] = "sendSize" /\ pc'["rcv"] = pc["rcv"]
        /\ size'["rcv"] = size["rcv"]
        /\ nrepeat'["tr"] >= 1 /\ nrepeat'["rcv"] = nrepeat["rcv"]
        /\ j'["tr"] = 0 /\ j'["rcv"] = j["rcv"]
        /\ whole'["tr"] = 0 /\ whole'["rcv"] = whole["rcv"]
        /\ chan' = chan /\ ret' = ret
    BY <1>0, <1>1, RequestsAssumption, SMTT(30) DEF TypeOK, Call, Goto
  <2>2. chan["rcv"] = <<>>
    BY <2>1, <1>0 DEF InStep, Phase, BothUp, Up, LoopCounters
  <2>3. LoopCounters'
    BY <2>1, <2>2, <1>0 DEF LoopCounters, Up
  <2>4. Repeats'
    BY <2>1, <2>2, <1>0 DEF Repeats, Up
  <2>5. RcvReadable'
    BY <2>1, <2>2, <1>0 DEF Repeats, RcvReadable, Between
  <2>6. TrReadable'
    BY <2>1, <2>2, <1>0 DEF TrReadable
  <2>7. ASSUME BothUp' PROVE Phase' /\ SameArgs' /\ NothingLost' /\ CallCount'
    <3>0. BothUp /\ Phase /\ SameArgs /\ NothingLost /\ CallCount
      BY <2>1, <2>7 DEF InStep, BothUp, Up
    <3>1. Phase'
      BY <2>1, <2>2, <1>0, <3>0 DEF Phase, Between, SameArgs, LoopCounters, Repeats, BothUp, Up
    <3>2. SameArgs'
      BY <2>1, <2>2, <1>0, <3>0 DEF SameArgs, Phase, Between
    <3>3. NothingLost'
      BY <2>1, <2>2, <1>0, <2>7, <3>0 DEF NothingLost, ResultsAreFull, LoopCounters, BothUp, Up
    <3>4. CallCount'
      BY <2>1, <2>2, <1>0, <3>0 DEF CallCount, TrPast, RcvPast, Phase, Between, Repeats
    <3> QED
      BY <3>1, <3>2, <3>3, <3>4
  <2>8. AheadByOne'
    BY <2>1, <2>2, <1>0 DEF AheadByOne, Up
  <2>9. SameResults'
    BY <2>1, <2>2, <1>0 DEF SameResults
  <2> QED
    BY <2>3, <2>4, <2>5, <2>6, <2>7, <2>8, <2>9 DEF InStep
<1>2. CASE p = "rcv"
  <2>1. /\ pc["rcv"] = "idle" /\ pc'["rcv"] = "recvSize" /\ pc'["tr"] = pc["tr"]
        /\ size' = size /\ nrepeat' = nrepeat
        /\ j'["rcv"] = 0 /\ j'["tr"] = j["tr"]
        /\ whole'["rcv"] = 0 /\ whole'["tr"] = whole["tr"]
        /\ chan' = chan /\ ret' = ret
        /\ Sz' = Sz /\ Nr' = Nr /\ Sy' = Sy
    BY <1>0, <1>2 DEF TypeOK, Call, Goto, Sz, Nr, Sy
  <2>2. LoopCounters'
    BY <2>1, <1>0 DEF LoopCounters, Up
  <2>3. Repeats'
    BY <2>1, <1>0 DEF Repeats, Up
  <2>4. RcvReadable'
    BY <2>1, <1>0 DEF Repeats, RcvReadable, Between
  <2>5. TrReadable'
    BY <2>1, <1>0 DEF TrReadable
  <2>6. ASSUME BothUp' PROVE Phase' /\ SameArgs' /\ NothingLost' /\ CallCount'
    <3>0. BothUp /\ Phase /\ SameArgs /\ NothingLost /\ CallCount
      BY <2>1, <2>6 DEF InStep, BothUp, Up
    <3>1. Phase'
      BY <2>1, <1>0, <3>0 DEF Phase, Between, SameArgs, LoopCounters, Repeats, BothUp, Up
    <3>2. SameArgs'
      BY <2>1, <1>0, <3>0 DEF SameArgs, Phase, Between
    <3>3. NothingLost'
      BY <2>1, <1>0, <2>6, <3>0 DEF NothingLost, ResultsAreFull, LoopCounters, BothUp, Up
    <3>4. CallCount'
      BY <2>1, <1>0, <3>0 DEF CallCount, TrPast, RcvPast, Phase, Between, Repeats
    <3> QED
      BY <3>1, <3>2, <3>3, <3>4
  <2>7. AheadByOne'
    BY <2>1, <1>0 DEF AheadByOne, Up
  <2>8. SameResults'
    BY <2>1, <1>0 DEF SameResults
  <2> QED
    BY <2>2, <2>3, <2>4, <2>5, <2>6, <2>7, <2>8 DEF InStep
<1> QED
  BY <1>1, <1>2

LEMMA SendRepeatStep ==
    ASSUME InStep, NEW p \in Proc, SendRepeat(p), TypeOK'
    PROVE  InStep'
<1>0. TypeOK /\ LoopCounters /\ Repeats /\ RcvReadable /\ TrReadable /\ AheadByOne /\ SameResults
  BY DEF InStep
<1>1. CASE p = "tr"
  <2>1. /\ \/ /\ pc["tr"] = "sendSize" /\ pc'["tr"] = "sendNrepeat"
              /\ chan'["rcv"] = IF Up("rcv") THEN Append(chan["rcv"], Sz) ELSE chan["rcv"]
           \/ /\ pc["tr"] = "sendNrepeat" /\ pc'["tr"] = "syncWrite"
              /\ chan'["rcv"] = IF Up("rcv") THEN Append(chan["rcv"], Nr) ELSE chan["rcv"]
        /\ pc'["rcv"] = pc["rcv"] /\ chan'["tr"] = chan["tr"]
        /\ size' = size /\ nrepeat' = nrepeat /\ j' = j /\ whole' = whole /\ ret' = ret
        /\ Sz' = Sz /\ Nr' = Nr /\ Sy' = Sy
    BY <1>0, <1>1 DEF TypeOK, SendRepeat, Emit, Peer, Goto, Sz, Nr, Sy
  <2>2. /\ Append(<<>>, Sz) = <<Sz>>
        /\ Append(<<>>, Nr) = <<Nr>> /\ Append(<<Sz>>, Nr) = <<Sz, Nr>>
    BY <1>0, Pipes, MessageTypes DEF Sz
  <2>3. /\ Up("rcv") => BothUp /\ Phase
        /\ ~Up("rcv") => chan'["rcv"] = <<>> /\ chan["rcv"] = <<>>
    BY <2>1, <1>0 DEF InStep, BothUp, Up, LoopCounters
  <2>4. /\ Up("rcv") /\ pc["tr"] = "sendSize" => chan["rcv"] = <<>> /\ pc["rcv"] \in Between
        /\ Up("rcv") /\ pc["tr"] = "sendNrepeat" =>
              \/ chan["rcv"] = <<Sz>> /\ pc["rcv"] \in Between
              \/ chan["rcv"] = <<>> /\ pc["rcv"] = "recvNrepeat"
    BY <2>1, <2>3 DEF Phase
  <2>5. LoopCounters'
    BY <2>1, <2>2, <2>3, <2>4, <1>0 DEF LoopCounters, Up
  <2>6. Repeats'
    BY <2>1, <2>2, <2>3, <2>4, <1>0 DEF Repeats, Up
  <2>7. RcvReadable'
    BY <2>1, <2>2, <2>3, <2>4, <1>0 DEF Repeats, RcvReadable, Between
  <2>8. TrReadable'
    BY <2>1, <2>2, <2>3, <2>4, <1>0 DEF TrReadable
  <2>9. ASSUME BothUp' PROVE Phase' /\ SameArgs' /\ NothingLost' /\ CallCount'
    <3>0. BothUp /\ Phase /\ SameArgs /\ NothingLost /\ CallCount
      BY <2>1, <2>9 DEF InStep, BothUp, Up
    <3>1. Phase'
      BY <2>1, <2>2, <2>3, <2>4, <1>0, <3>0 DEF Phase, Between, SameArgs, LoopCounters, Repeats, BothUp, Up
    <3>2. SameArgs'
      BY <2>1, <2>2, <2>3, <2>4, <1>0, <3>0 DEF SameArgs, Phase, Between
    <3>3. NothingLost'
      BY <2>1, <2>2, <2>3, <2>4, <1>0, <2>9, <3>0 DEF NothingLost, ResultsAreFull, LoopCounters, BothUp, Up
    <3>4. CallCount'
      BY <2>1, <2>2, <2>3, <2>4, <1>0, <3>0 DEF CallCount, TrPast, RcvPast, Phase, Between, Repeats
    <3> QED
      BY <3>1, <3>2, <3>3, <3>4
  <2>10. AheadByOne'
    BY <2>1, <2>2, <2>3, <2>4, <1>0 DEF AheadByOne, Up
  <2>11. SameResults'
    BY <2>1, <2>2, <2>3, <2>4, <1>0 DEF SameResults
  <2> QED
    BY <2>5, <2>6, <2>7, <2>8, <2>9, <2>10, <2>11 DEF InStep
<1>2. CASE p = "rcv"
  BY <1>0, <1>2 DEF SendRepeat, RcvReadable
<1> QED
  BY <1>1, <1>2

LEMMA RecvSizeStep ==
    ASSUME InStep, NEW p \in Proc, RecvSize(p), TypeOK'
    PROVE  InStep'
<1>0. TypeOK /\ LoopCounters /\ Repeats /\ RcvReadable /\ TrReadable /\ AheadByOne /\ SameResults
  BY DEF InStep
<1>1. CASE p = "tr"
  BY <1>0, <1>1 DEF RecvSize, TrReadable
<1>2. CASE p = "rcv"
  <2>1. /\ pc["rcv"] = "recvSize" /\ pc'["rcv"] = "recvNrepeat" /\ pc'["tr"] = pc["tr"]
        /\ chan["rcv"] # <<>> /\ chan'["rcv"] = Tail(chan["rcv"]) /\ chan'["tr"] = chan["tr"]
        /\ size'["rcv"] = Head(chan["rcv"]).v /\ size'["tr"] = size["tr"]
        /\ nrepeat' = nrepeat /\ j' = j /\ whole' = whole /\ ret' = ret
        /\ Sz' = Sz /\ Nr' = Nr /\ Sy' = Sy
    BY <1>0, <1>2 DEF TypeOK, RecvSize, Consume, Goto, Sz, Nr, Sy
  <2>2. \/ chan["rcv"] = <<Sz>>
        \/ chan["rcv"] = <<Sz, Nr>>
        \/ chan["rcv"] = <<Sz, Nr, Sy>>
    BY <2>1, <1>0 DEF RcvReadable, Between
  <2>3. Tail(<<Sz>>) = <<>> /\ Tail(<<Sz, Nr>>) = <<Nr>> /\ Tail(<<Sz, Nr, Sy>>) = <<Nr, Sy>>
    BY TailShort
  <2>4. \/ chan["rcv"] = <<Sz>> /\ chan'["rcv"] = <<>>
        \/ chan["rcv"] = <<Sz, Nr>> /\ chan'["rcv"] = <<Nr>>
        \/ chan["rcv"] = <<Sz, Nr, Sy>> /\ chan'["rcv"] = <<Nr, Sy>>
    BY <2>1, <2>2, <2>3
  <2>5. size'["rcv"] = size["tr"]
    BY <2>1, <2>2 DEF Sz, SizeMsg
  <2>6. LoopCounters'
    BY <2>1, <2>2, <2>3, <2>4, <2>5, <1>0 DEF LoopCounters, Up
  <2>7. Repeats'
    BY <2>1, <2>2, <2>3, <2>4, <2>5, <1>0 DEF Repeats, Up
  <2>8. RcvReadable'
    BY <2>1, <2>2, <2>3, <2>4, <2>5, <1>0 DEF Repeats, RcvReadable, Between
  <2>9. TrReadable'
    BY <2>1, <2>2, <2>3, <2>4, <2>5, <1>0 DEF TrReadable
  <2>10. ASSUME BothUp' PROVE Phase' /\ SameArgs' /\ NothingLost' /\ CallCount'
    <3>0. BothUp /\ Phase /\ SameArgs /\ NothingLost /\ CallCount
      BY <2>1, <2>10 DEF InStep, BothUp, Up
    <3>1. Phase'
      BY <2>1, <2>2, <2>3, <2>4, <2>5, <1>0, <3>0 DEF Phase, Between, SameArgs, LoopCounters, Repeats, BothUp, Up
    <3>2. SameArgs'
      BY <2>1, <2>2, <2>3, <2>4, <2>5, <1>0, <3>0 DEF SameArgs, Phase, Between
    <3>3. NothingLost'
      BY <2>1, <2>2, <2>3, <2>4, <2>5, <1>0, <2>10, <3>0 DEF NothingLost, ResultsAreFull, LoopCounters, BothUp, Up
    <3>4. CallCount'
      BY <2>1, <2>2, <2>3, <2>4, <2>5, <1>0, <3>0 DEF CallCount, TrPast, RcvPast, Phase, Between, Repeats
    <3> QED
      BY <3>1, <3>2, <3>3, <3>4
  <2>11. AheadByOne'
    BY <2>1, <2>2, <2>3, <2>4, <2>5, <1>0 DEF AheadByOne, Up
  <2>12. SameResults'
    BY <2>1, <2>2, <2>3, <2>4, <2>5, <1>0 DEF SameResults
  <2> QED
    BY <2>6, <2>7, <2>8, <2>9, <2>10, <2>11, <2>12 DEF InStep
<1> QED
  BY <1>1, <1>2

LEMMA RecvNrepeatStep ==
    ASSUME InStep, NEW p \in Proc, RecvNrepeat(p), TypeOK'
    PROVE  InStep'
<1>0. TypeOK /\ LoopCounters /\ Repeats /\ RcvReadable /\ TrReadable /\ AheadByOne /\ SameResults
  BY DEF InStep
<1>1. CASE p = "tr"
  BY <1>0, <1>1 DEF RecvNrepeat, TrReadable
<1>2. CASE p = "rcv"
  <2>1. /\ pc["rcv"] = "recvNrepeat" /\ pc'["tr"] = pc["tr"]
        /\ pc'["rcv"] = IF size["rcv"] = 0 THEN "exitSignal" ELSE "syncWrite"
        /\ chan["rcv"] # <<>> /\ chan'["rcv"] = Tail(chan["rcv"]) /\ chan'["tr"] = chan["tr"]
        /\ nrepeat'["rcv"] = Head(chan["rcv"]).v /\ nrepeat'["tr"] = nrepeat["tr"]
        /\ size' = size /\ j' = j /\ whole' = whole /\ ret' = ret
        /\ Sz' = Sz /\ Nr' = Nr /\ Sy' = Sy
    BY <1>0, <1>2 DEF TypeOK, RecvNrepeat, Consume, Goto, Sz, Nr, Sy
  <2>2. \/ chan["rcv"] = <<Nr>>
        \/ chan["rcv"] = <<Nr, Sy>>
    BY <2>1, <1>0 DEF RcvReadable
  <2>3. Tail(<<Nr>>) = <<>> /\ Tail(<<Nr, Sy>>) = <<Sy>>
    BY TailShort
  <2>4. \/ chan["rcv"] = <<Nr>> /\ chan'["rcv"] = <<>>
        \/ chan["rcv"] = <<Nr, Sy>> /\ chan'["rcv"] = <<Sy>>
    BY <2>1, <2>2, <2>3
  <2>5. nrepeat'["rcv"] = nrepeat["tr"]
    BY <2>1, <2>2 DEF Nr, NrepeatMsg
  <2>6. LoopCounters'
    BY <2>1, <2>2, <2>3, <2>4, <2>5, <1>0 DEF LoopCounters, Up
  <2>7. Repeats'
    BY <2>1, <2>2, <2>3, <2>4, <2>5, <1>0 DEF Repeats, Up
  <2>8. RcvReadable'
    BY <2>1, <2>2, <2>3, <2>4, <2>5, <1>0 DEF Repeats, RcvReadable, Between
  <2>9. TrReadable'
    BY <2>1, <2>2, <2>3, <2>4, <2>5, <1>0 DEF TrReadable
  <2>10. ASSUME BothUp' PROVE Phase' /\ SameArgs' /\ NothingLost' /\ CallCount'
    <3>0. BothUp /\ Phase /\ SameArgs /\ NothingLost /\ CallCount
      BY <2>1, <2>10 DEF InStep, BothUp, Up
    <3>1. Phase'
      BY <2>1, <2>2, <2>3, <2>4, <2>5, <1>0, <3>0 DEF Phase, Between, SameArgs, LoopCounters, Repeats, BothUp, Up
    <3>2. SameArgs'
      BY <2>1, <2>2, <2>3, <2>4, <2>5, <1>0, <3>0 DEF SameArgs, Phase, Between
    <3>3. NothingLost'
      BY <2>1, <2>2, <2>3, <2>4, <2>5, <1>0, <2>10, <3>0 DEF NothingLost, ResultsAreFull, LoopCounters, BothUp, Up
    <3>4. CallCount'
      BY <2>1, <2>2, <2>3, <2>4, <2>5, <1>0, <3>0 DEF CallCount, TrPast, RcvPast, Phase, Between, Repeats
    <3> QED
      BY <3>1, <3>2, <3>3, <3>4
  <2>11. AheadByOne'
    BY <2>1, <2>2, <2>3, <2>4, <2>5, <1>0 DEF AheadByOne, Up
  <2>12. SameResults'
    BY <2>1, <2>2, <2>3, <2>4, <2>5, <1>0 DEF SameResults
  <2> QED
    BY <2>6, <2>7, <2>8, <2>9, <2>10, <2>11, <2>12 DEF InStep
<1> QED
  BY <1>1, <1>2

LEMMA SyncWriteStep ==
    ASSUME InStep, NEW p \in Proc, SyncWrite(p), TypeOK'
    PROVE  InStep'
<1>0. TypeOK /\ LoopCounters /\ Repeats /\ RcvReadable /\ TrReadable /\ AheadByOne /\ SameResults
  BY DEF InStep
<1>1. CASE p = "tr"
  <2>1. /\ pc["tr"] = "syncWrite" /\ pc'["tr"] = "syncRead" /\ pc'["rcv"] = pc["rcv"]
        /\ chan'["rcv"] = IF Up("rcv") THEN Append(chan["rcv"], Sy) ELSE chan["rcv"]
        /\ chan'["tr"] = chan["tr"]
        /\ size' = size /\ nrepeat' = nrepeat /\ j' = j /\ whole' = whole /\ ret' = ret
        /\ Sz' = Sz /\ Nr' = Nr /\ Sy' = Sy
    BY <1>0, <1>1 DEF TypeOK, SyncWrite, Emit, Peer, Goto, Sz, Nr, Sy
  <2>2. /\ Append(<<>>, Sy) = <<Sy>> /\ Append(<<Nr>>, Sy) = <<Nr, Sy>>
        /\ Append(<<Sz, Nr>>, Sy) = <<Sz, Nr, Sy>>
    BY <1>0, Pipes, MessageTypes DEF Sz
  <2>3. /\ Up("rcv") => BothUp /\ Phase
        /\ ~Up("rcv") => chan'["rcv"] = <<>> /\ chan["rcv"] = <<>>
    BY <2>1, <1>0 DEF InStep, BothUp, Up, LoopCounters
  <2>4. Up("rcv") =>
           \/ pc["rcv"] \in Between /\ chan'["rcv"] = <<Sz, Nr, Sy>>
           \/ pc["rcv"] = "recvNrepeat" /\ chan'["rcv"] = <<Nr, Sy>>
           \/ pc["rcv"] \in {"exitSignal", "syncWrite", "syncRead"} /\ chan'["rcv"] = <<Sy>>
    BY <2>1, <2>2, <2>3 DEF Phase
  <2>5. LoopCounters'
    BY <2>1, <2>2, <2>3, <2>4, <1>0 DEF LoopCounters, Up
  <2>6. Repeats'
    BY <2>1, <2>2, <2>3, <2>4, <1>0 DEF Repeats, Up
  <2>7. RcvReadable'
    BY <2>1, <2>2, <2>3, <2>4, <1>0 DEF Repeats, RcvReadable, Between
  <2>8. TrReadable'
    BY <2>1, <2>2, <2>3, <2>4, <1>0 DEF TrReadable
  <2>9. ASSUME BothUp' PROVE Phase' /\ SameArgs' /\ NothingLost' /\ CallCount'
    <3>0. BothUp /\ Phase /\ SameArgs /\ NothingLost /\ CallCount
      BY <2>1, <2>9 DEF InStep, BothUp, Up
    <3>1. Phase'
      BY <2>1, <2>2, <2>3, <2>4, <1>0, <3>0 DEF Phase, Between, SameArgs, LoopCounters, Repeats, BothUp, Up
    <3>2. SameArgs'
      BY <2>1, <2>2, <2>3, <2>4, <1>0, <3>0 DEF SameArgs, Phase, Between
    <3>3. NothingLost'
      BY <2>1, <2>2, <2>3, <2>4, <1>0, <2>9, <3>0 DEF NothingLost, ResultsAreFull, LoopCounters, BothUp, Up
    <3>4. CallCount'
      BY <2>1, <2>2, <2>3, <2>4, <1>0, <3>0 DEF CallCount, TrPast, RcvPast, Phase, Between, Repeats
    <3> QED
      BY <3>1, <3>2, <3>3, <3>4
  <2>10. AheadByOne'
    BY <2>1, <2>2, <2>3, <2>4, <1>0 DEF AheadByOne, Up
  <2>11. SameResults'
    BY <2>1, <2>2, <2>3, <2>4, <1>0 DEF SameResults
  <2> QED
    BY <2>5, <2>6, <2>7, <2>8, <2>9, <2>10, <2>11 DEF InStep
<1>2. CASE p = "rcv"
  <2>1. /\ pc["rcv"] = "syncWrite" /\ pc'["rcv"] = "syncRead" /\ pc'["tr"] = pc["tr"]
        /\ chan'["tr"] = IF Up("tr") THEN Append(chan["tr"], Sy) ELSE chan["tr"]
        /\ chan'["rcv"] = chan["rcv"]
        /\ size' = size /\ nrepeat' = nrepeat /\ j' = j /\ whole' = whole /\ ret' = ret
        /\ Sz' = Sz /\ Nr' = Nr /\ Sy' = Sy
    BY <1>0, <1>2 DEF TypeOK, SyncWrite, Emit, Peer, Goto, Sz, Nr, Sy
  <2>2. /\ Append(<<>>, Sy) = <<Sy>> /\ Append(<<Nr>>, Sy) = <<Nr, Sy>>
        /\ Append(<<Sz, Nr>>, Sy) = <<Sz, Nr, Sy>>
    BY <1>0, Pipes, MessageTypes DEF Sz
  <2>3. /\ Up("tr") => BothUp /\ Phase
        /\ ~Up("tr") => chan'["tr"] = <<>> /\ chan["tr"] = <<>>
    BY <2>1, <1>0 DEF InStep, BothUp, Up, LoopCounters
  <2>4. Up("tr") => pc["tr"] \in {"syncWrite", "syncRead"} /\ chan'["tr"] = <<Sy>>
    BY <2>1, <2>2, <2>3, <1>0 DEF Phase, Between, TypeOK, Labels, Up, TrReadable
  <2>5. LoopCounters'
    BY <2>1, <2>2, <2>3, <2>4, <1>0 DEF LoopCounters, Up
  <2>6. Repeats'
    BY <2>1, <2>2, <2>3, <2>4, <1>0 DEF Repeats, Up
  <2>7. RcvReadable'
    BY <2>1, <2>2, <2>3, <2>4, <1>0 DEF Repeats, RcvReadable, Between
  <2>8. TrReadable'
    BY <2>1, <2>2, <2>3, <2>4, <1>0 DEF TrReadable
  <2>9. ASSUME BothUp' PROVE Phase' /\ SameArgs' /\ NothingLost' /\ CallCount'
    <3>0. BothUp /\ Phase /\ SameArgs /\ NothingLost /\ CallCount
      BY <2>1, <2>9 DEF InStep, BothUp, Up
    <3>1. Phase'
      BY <2>1, <2>2, <2>3, <2>4, <1>0, <3>0 DEF Phase, Between, SameArgs, LoopCounters, Repeats, BothUp, Up
    <3>2. SameArgs'
      BY <2>1, <2>2, <2>3, <2>4, <1>0, <3>0 DEF SameArgs, Phase, Between
    <3>3. NothingLost'
      BY <2>1, <2>2, <2>3, <2>4, <1>0, <2>9, <3>0 DEF NothingLost, ResultsAreFull, LoopCounters, BothUp, Up
    <3>4. CallCount'
      BY <2>1, <2>2, <2>3, <2>4, <1>0, <3>0 DEF CallCount, TrPast, RcvPast, Phase, Between, Repeats
    <3> QED
      BY <3>1, <3>2, <3>3, <3>4
  <2>10. AheadByOne'
    BY <2>1, <2>2, <2>3, <2>4, <1>0 DEF AheadByOne, Up
  <2>11. SameResults'
    BY <2>1, <2>2, <2>3, <2>4, <1>0 DEF SameResults
  <2> QED
    BY <2>5, <2>6, <2>7, <2>8, <2>9, <2>10, <2>11 DEF InStep
<1> QED
  BY <1>1, <1>2

LEMMA SyncReadStep ==
    ASSUME InStep, NEW p \in Proc, SyncRead(p), TypeOK'
    PROVE  InStep'
<1>0. TypeOK /\ LoopCounters /\ Repeats /\ RcvReadable /\ TrReadable /\ AheadByOne /\ SameResults
  BY DEF InStep
<1>1. CASE p = "tr"
  <2>1. /\ pc["tr"] = "syncRead" /\ pc'["rcv"] = pc["rcv"]
        /\ pc'["tr"] = IF 0 < nrepeat["tr"] THEN "send" ELSE "check"
        /\ chan["tr"] # <<>> /\ chan'["tr"] = Tail(chan["tr"]) /\ chan'["rcv"] = chan["rcv"]
        /\ size' = size /\ nrepeat' = nrepeat /\ j' = j /\ whole' = whole /\ ret' = ret
        /\ Sz' = Sz /\ Nr' = Nr /\ Sy' = Sy
    BY <1>0, <1>1 DEF TypeOK, SyncRead, Consume, LoopHead, Goto, Sz, Nr, Sy
  <2>2. chan["tr"] = <<Sy>> /\ chan'["tr"] = <<>>
    BY <2>1, <1>0, TailShort DEF TrReadable
  <2>3. nrepeat["tr"] \in Nat /\ nrepeat["rcv"] \in Nat /\ j["tr"] \in Nat /\ j["rcv"] \in Nat
    BY <1>0 DEF TypeOK
  <2>4. LoopCounters'
    BY <2>1, <2>2, <2>3, <1>0 DEF LoopCounters, Up
  <2>5. Repeats'
    BY <2>1, <2>2, <2>3, <1>0 DEF Repeats, Up
  <2>6. RcvReadable'
    BY <2>1, <2>2, <2>3, <1>0 DEF Repeats, RcvReadable, Between
  <2>7. TrReadable'
    BY <2>1, <2>2, <2>3, <1>0 DEF TrReadable
  <2>8. ASSUME BothUp' PROVE Phase' /\ SameArgs' /\ NothingLost' /\ CallCount'
    <3>0. BothUp /\ Phase /\ SameArgs /\ NothingLost /\ CallCount
      BY <2>1, <2>8 DEF InStep, BothUp, Up
    <3>1. Phase'
      BY <2>1, <2>2, <2>3, <1>0, <3>0 DEF Phase, Between, SameArgs, LoopCounters, Repeats, BothUp, Up
    <3>2. SameArgs'
      BY <2>1, <2>2, <2>3, <1>0, <3>0 DEF SameArgs, Phase, Between
    <3>3. NothingLost'
      BY <2>1, <2>2, <2>3, <1>0, <2>8, <3>0 DEF NothingLost, ResultsAreFull, LoopCounters, BothUp, Up
    <3>4. CallCount'
      BY <2>1, <2>2, <2>3, <1>0, <3>0 DEF CallCount, TrPast, RcvPast, Phase, Between, Repeats
    <3> QED
      BY <3>1, <3>2, <3>3, <3>4
  <2>9. AheadByOne'
    BY <2>1, <2>2, <2>3, <1>0 DEF AheadByOne, Up
  <2>10. SameResults'
    BY <2>1, <2>2, <2>3, <1>0 DEF SameResults
  <2> QED
    BY <2>4, <2>5, <2>6, <2>7, <2>8, <2>9, <2>10 DEF InStep
<1>2. CASE p = "rcv"
  <2>1. /\ pc["rcv"] = "syncRead" /\ pc'["tr"] = pc["tr"]
        /\ pc'["rcv"] = IF 0 < nrepeat["rcv"] THEN "recv" ELSE "check"
        /\ chan["rcv"] # <<>> /\ chan'["rcv"] = Tail(chan["rcv"]) /\ chan'["tr"] = chan["tr"]
        /\ size' = size /\ nrepeat' = nrepeat /\ j' = j /\ whole' = whole /\ ret' = ret
        /\ Sz' = Sz /\ Nr' = Nr /\ Sy' = Sy
    BY <1>0, <1>2 DEF TypeOK, SyncRead, Consume, LoopHead, Goto, Sz, Nr, Sy
  <2>2. \/ chan["rcv"] = <<Sy>>
        \/ chan["rcv"] = <<Sy, DataMsg(size["rcv"])>>
    BY <2>1, <1>0 DEF RcvReadable
  <2>3. Tail(<<Sy>>) = <<>> /\ Tail(<<Sy, DataMsg(size["rcv"])>>) = <<DataMsg(size["rcv"])>>
    BY TailShort
  <2>4. \/ chan["rcv"] = <<Sy>> /\ chan'["rcv"] = <<>>
        \/ /\ chan["rcv"] = <<Sy, DataMsg(size["rcv"])>>
           /\ chan'["rcv"] = <<DataMsg(size["rcv"])>>
    BY <2>1, <2>2, <2>3
  <2>5. nrepeat["tr"] \in Nat /\ nrepeat["rcv"] \in Nat /\ j["tr"] \in Nat /\ j["rcv"] \in Nat
    BY <1>0 DEF TypeOK
  <2>6. pc'["rcv"] = "recv" /\ j["rcv"] = 0
    BY <2>1, <2>5, <1>0 DEF Repeats, LoopCounters
  <2>7. LoopCounters'
    BY <2>1, <2>2, <2>3, <2>4, <2>5, <2>6, <1>0 DEF LoopCounters, Up
  <2>8. Repeats'
    BY <2>1, <2>2, <2>3, <2>4, <2>5, <2>6, <1>0 DEF Repeats, Up
  <2>9. RcvReadable'
    BY <2>1, <2>2, <2>3, <2>4, <2>5, <2>6, <1>0 DEF Repeats, RcvReadable, Between
  <2>10. TrReadable'
    BY <2>1, <2>2, <2>3, <2>4, <2>5, <2>6, <1>0 DEF TrReadable
  <2>11. ASSUME BothUp' PROVE Phase' /\ SameArgs' /\ NothingLost' /\ CallCount'
    <3>0. BothUp /\ Phase /\ SameArgs /\ NothingLost /\ CallCount
      BY <2>1, <2>11 DEF InStep, BothUp, Up
    <3>1. Phase'
      BY <2>1, <2>2, <2>3, <2>4, <2>5, <2>6, <1>0, <3>0 DEF Phase, Between, SameArgs, LoopCounters, Repeats, BothUp, Up
    <3>2. SameArgs'
      BY <2>1, <2>2, <2>3, <2>4, <2>5, <2>6, <1>0, <3>0 DEF SameArgs, Phase, Between
    <3>3. NothingLost'
      BY <2>1, <2>2, <2>3, <2>4, <2>5, <2>6, <1>0, <2>11, <3>0 DEF NothingLost, ResultsAreFull, LoopCounters, BothUp, Up
    <3>4. CallCount'
      BY <2>1, <2>2, <2>3, <2>4, <2>5, <2>6, <1>0, <3>0 DEF CallCount, TrPast, RcvPast, Phase, Between, Repeats
    <3> QED
      BY <3>1, <3>2, <3>3, <3>4
  <2>12. AheadByOne'
    BY <2>1, <2>2, <2>3, <2>4, <2>5, <2>6, <1>0 DEF AheadByOne, Up
  <2>13. SameResults'
    BY <2>1, <2>2, <2>3, <2>4, <2>5, <2>6, <1>0 DEF SameResults
  <2> QED
    BY <2>7, <2>8, <2>9, <2>10, <2>11, <2>12, <2>13 DEF InStep
<1> QED
  BY <1>1, <1>2

LEMMA SendDataStep ==
    ASSUME InStep, NEW p \in Proc, SendData(p), TypeOK'
    PROVE  InStep'
<1>0. TypeOK /\ LoopCounters /\ Repeats /\ RcvReadable /\ TrReadable /\ AheadByOne /\ SameResults
  BY DEF InStep
<1>1. CASE p = "tr"
  <2>1. /\ pc["tr"] = "send" /\ pc'["rcv"] = pc["rcv"]
        /\ pc'["tr"] = "recv" /\ j' = j
        /\ chan'["rcv"] = IF Up("rcv") THEN Append(chan["rcv"], DataMsg(size["tr"])) ELSE chan["rcv"]
        /\ chan'["tr"] = chan["tr"]
        /\ size' = size /\ nrepeat' = nrepeat /\ whole' = whole /\ ret' = ret
        /\ Sz' = Sz /\ Nr' = Nr /\ Sy' = Sy
    BY <1>0, <1>1 DEF TypeOK, SendData, Emit, LoopHead, Peer, Goto, Sz, Nr, Sy
  <2>2. /\ Append(<<>>, DataMsg(size["tr"])) = <<DataMsg(size["tr"])>>
        /\ Append(<<Sy>>, DataMsg(size["tr"])) = <<Sy, DataMsg(size["tr"])>>
    BY <1>0, Pipes, MessageTypes
  <2>3. /\ Up("rcv") => BothUp /\ Phase /\ SameArgs
        /\ ~Up("rcv") => chan'["rcv"] = <<>> /\ chan["rcv"] = <<>>
    BY <2>1, <1>0 DEF InStep, BothUp, Up, LoopCounters
  <2>4. nrepeat["tr"] \in Nat /\ nrepeat["rcv"] \in Nat /\ j["tr"] \in Nat /\ j["rcv"] \in Nat
    BY <1>0 DEF TypeOK
  <2>5. Up("rcv") =>
           /\ DataMsg(size["tr"]) = DataMsg(size["rcv"])
           /\ \/ pc["rcv"] = "syncRead" /\ chan'["rcv"] = <<Sy, DataMsg(size["tr"])>>
              \/ pc["rcv"] = "recv" /\ chan'["rcv"] = <<DataMsg(size["tr"])>>
    BY <2>1, <2>2, <2>3 DEF Phase, SameArgs
  <2>6. LoopCounters'
    BY <2>1, <2>2, <2>3, <2>4, <2>5, <1>0 DEF LoopCounters, Up
  <2>7. Repeats'
    BY <2>1, <2>2, <2>3, <2>4, <2>5, <1>0 DEF Repeats, Up
  <2>8. RcvReadable'
    BY <2>1, <2>2, <2>3, <2>4, <2>5, <1>0 DEF Repeats, RcvReadable, Between
  <2>9. TrReadable'
    BY <2>1, <2>2, <2>3, <2>4, <2>5, <1>0 DEF TrReadable
  <2>10. ASSUME BothUp' PROVE Phase' /\ SameArgs' /\ NothingLost' /\ CallCount'
    <3>0. BothUp /\ Phase /\ SameArgs /\ NothingLost /\ CallCount
      BY <2>1, <2>10 DEF InStep, BothUp, Up
    <3>1. Phase'
      BY <2>1, <2>2, <2>3, <2>4, <2>5, <1>0, <3>0 DEF Phase, Between, SameArgs, LoopCounters, Repeats, BothUp, Up
    <3>2. SameArgs'
      BY <2>1, <2>2, <2>3, <2>4, <2>5, <1>0, <3>0 DEF SameArgs, Phase, Between
    <3>3. NothingLost'
      BY <2>1, <2>2, <2>3, <2>4, <2>5, <1>0, <2>10, <3>0 DEF NothingLost, ResultsAreFull, LoopCounters, BothUp, Up
    <3>4. CallCount'
      BY <2>1, <2>2, <2>3, <2>4, <2>5, <1>0, <3>0 DEF CallCount, TrPast, RcvPast, Phase, Between, Repeats
    <3> QED
      BY <3>1, <3>2, <3>3, <3>4
  <2>11. AheadByOne'
    BY <2>1, <2>2, <2>3, <2>4, <2>5, <1>0 DEF AheadByOne, Up
  <2>12. SameResults'
    BY <2>1, <2>2, <2>3, <2>4, <2>5, <1>0 DEF SameResults
  <2> QED
    BY <2>6, <2>7, <2>8, <2>9, <2>10, <2>11, <2>12 DEF InStep
<1>2. CASE p = "rcv"
  <2>1. /\ pc["rcv"] = "send" /\ pc'["tr"] = pc["tr"]
        /\ pc'["rcv"] = IF j["rcv"] + 1 < nrepeat["rcv"] THEN "recv" ELSE "check"
        /\ j'["rcv"] = j["rcv"] + 1 /\ j'["tr"] = j["tr"]
        /\ chan'["tr"] = IF Up("tr") THEN Append(chan["tr"], DataMsg(size["rcv"])) ELSE chan["tr"]
        /\ chan'["rcv"] = chan["rcv"]
        /\ size' = size /\ nrepeat' = nrepeat /\ whole' = whole /\ ret' = ret
        /\ Sz' = Sz /\ Nr' = Nr /\ Sy' = Sy
    BY <1>0, <1>2 DEF TypeOK, SendData, Emit, LoopHead, Peer, Goto, Sz, Nr, Sy
  <2>2. /\ Append(<<>>, DataMsg(size["rcv"])) = <<DataMsg(size["rcv"])>>
        /\ Append(<<Sy>>, DataMsg(size["rcv"])) = <<Sy, DataMsg(size["rcv"])>>
    BY <1>0, Pipes, MessageTypes
  <2>3. /\ Up("tr") => BothUp /\ Phase /\ SameArgs
        /\ ~Up("tr") => chan'["tr"] = <<>> /\ chan["tr"] = <<>>
    BY <2>1, <1>0 DEF InStep, BothUp, Up, LoopCounters
  <2>4. nrepeat["tr"] \in Nat /\ nrepeat["rcv"] \in Nat /\ j["tr"] \in Nat /\ j["rcv"] \in Nat
    BY <1>0 DEF TypeOK
  <2>5. Up("tr") =>
           /\ DataMsg(size["tr"]) = DataMsg(size["rcv"])
           /\ pc["tr"] = "recv" /\ chan'["tr"] = <<DataMsg(size["tr"])>>
    BY <2>1, <2>2, <2>3, <1>0 DEF Phase, SameArgs, Between, TypeOK, Labels, Up, TrReadable
  <2>6. LoopCounters'
    BY <2>1, <2>2, <2>3, <2>4, <2>5, <1>0 DEF LoopCounters, Up
  <2>7. Repeats'
    BY <2>1, <2>2, <2>3, <2>4, <2>5, <1>0 DEF Repeats, Up
  <2>8. RcvReadable'
    BY <2>1, <2>2, <2>3, <2>4, <2>5, <1>0 DEF Repeats, RcvReadable, Between
  <2>9. TrReadable'
    BY <2>1, <2>2, <2>3, <2>4, <2>5, <1>0 DEF TrReadable
  <2>10. ASSUME BothUp' PROVE Phase' /\ SameArgs' /\ NothingLost' /\ CallCount'
    <3>0. BothUp /\ Phase /\ SameArgs /\ NothingLost /\ CallCount
      BY <2>1, <2>10 DEF InStep, BothUp, Up
    <3>1. Phase'
      BY <2>1, <2>2, <2>3, <2>4, <2>5, <1>0, <3>0 DEF Phase, Between, SameArgs, LoopCounters, Repeats, BothUp, Up
    <3>2. SameArgs'
      BY <2>1, <2>2, <2>3, <2>4, <2>5, <1>0, <3>0 DEF SameArgs, Phase, Between
    <3>3. NothingLost'
      BY <2>1, <2>2, <2>3, <2>4, <2>5, <1>0, <2>10, <3>0 DEF NothingLost, ResultsAreFull, LoopCounters, BothUp, Up
    <3>4. CallCount'
      BY <2>1, <2>2, <2>3, <2>4, <2>5, <1>0, <3>0 DEF CallCount, TrPast, RcvPast, Phase, Between, Repeats
    <3> QED
      BY <3>1, <3>2, <3>3, <3>4
  <2>11. AheadByOne'
    BY <2>1, <2>2, <2>3, <2>4, <2>5, <1>0 DEF AheadByOne, Up
  <2>12. SameResults'
    BY <2>1, <2>2, <2>3, <2>4, <2>5, <1>0 DEF SameResults
  <2> QED
    BY <2>6, <2>7, <2>8, <2>9, <2>10, <2>11, <2>12 DEF InStep
<1> QED
  BY <1>1, <1>2

LEMMA RecvDataStep ==
    ASSUME InStep, NEW p \in Proc, RecvData(p), TypeOK'
    PROVE  InStep'
<1>0. TypeOK /\ LoopCounters /\ Repeats /\ RcvReadable /\ TrReadable /\ AheadByOne /\ SameResults
  BY DEF InStep
<1>1. CASE p = "tr"
  <2>1. /\ pc["tr"] = "recv" /\ pc'["rcv"] = pc["rcv"]
        /\ pc'["tr"] = IF j["tr"] + 1 < nrepeat["tr"] THEN "send" ELSE "check"
        /\ j'["tr"] = j["tr"] + 1 /\ j'["rcv"] = j["rcv"]
        /\ chan["tr"] # <<>> /\ chan'["tr"] = Tail(chan["tr"]) /\ chan'["rcv"] = chan["rcv"]
        /\ whole'["tr"] = whole["tr"] + 1 /\ whole'["rcv"] = whole["rcv"]
        /\ size' = size /\ nrepeat' = nrepeat /\ ret' = ret
        /\ Sz' = Sz /\ Nr' = Nr /\ Sy' = Sy
    BY <1>0, <1>1 DEF TypeOK, RecvData, Consume, AfterRecvData, LoopHead, Goto, Sz, Nr, Sy
  <2>2. chan["tr"] = <<DataMsg(size["tr"])>> /\ chan'["tr"] = <<>>
    BY <2>1, <1>0, TailShort DEF TrReadable
  <2>3. nrepeat["tr"] \in Nat /\ nrepeat["rcv"] \in Nat /\ j["tr"] \in Nat /\ j["rcv"] \in Nat
    BY <1>0 DEF TypeOK
  <2>4. whole["tr"] \in Nat /\ whole["rcv"] \in Nat
    BY <1>0 DEF TypeOK
  <2>5. LoopCounters'
    BY <2>1, <2>2, <2>3, <2>4, <1>0 DEF LoopCounters, Up
  <2>6. Repeats'
    BY <2>1, <2>2, <2>3, <2>4, <1>0 DEF Repeats, Up
  <2>7. RcvReadable'
    BY <2>1, <2>2, <2>3, <2>4, <1>0 DEF Repeats, RcvReadable, Between
  <2>8. TrReadable'
    BY <2>1, <2>2, <2>3, <2>4, <1>0 DEF TrReadable
  <2>9. ASSUME BothUp' PROVE Phase' /\ SameArgs' /\ NothingLost' /\ CallCount'
    <3>0. BothUp /\ Phase /\ SameArgs /\ NothingLost /\ CallCount
      BY <2>1, <2>9 DEF InStep, BothUp, Up
    <3>1. Phase'
      BY <2>1, <2>2, <2>3, <2>4, <1>0, <3>0 DEF Phase, Between, SameArgs, LoopCounters, Repeats, BothUp, Up
    <3>2. SameArgs'
      BY <2>1, <2>2, <2>3, <2>4, <1>0, <3>0 DEF SameArgs, Phase, Between
    <3>3. NothingLost'
      BY <2>1, <2>2, <2>3, <2>4, <1>0, <2>9, <3>0 DEF NothingLost, ResultsAreFull, LoopCounters, BothUp, Up
    <3>4. CallCount'
      BY <2>1, <2>2, <2>3, <2>4, <1>0, <3>0 DEF CallCount, TrPast, RcvPast, Phase, Between, Repeats
    <3> QED
      BY <3>1, <3>2, <3>3, <3>4
  <2>10. AheadByOne'
    BY <2>1, <2>2, <2>3, <2>4, <1>0 DEF AheadByOne, Up
  <2>11. SameResults'
    BY <2>1, <2>2, <2>3, <2>4, <1>0 DEF SameResults
  <2> QED
    BY <2>5, <2>6, <2>7, <2>8, <2>9, <2>10, <2>11 DEF InStep
<1>2. CASE p = "rcv"
  <2>1. /\ pc["rcv"] = "recv" /\ pc'["tr"] = pc["tr"]
        /\ pc'["rcv"] = "send" /\ j' = j
        /\ chan["rcv"] # <<>> /\ chan'["rcv"] = Tail(chan["rcv"]) /\ chan'["tr"] = chan["tr"]
        /\ whole'["rcv"] = whole["rcv"] + 1 /\ whole'["tr"] = whole["tr"]
        /\ size' = size /\ nrepeat' = nrepeat /\ ret' = ret
        /\ Sz' = Sz /\ Nr' = Nr /\ Sy' = Sy
    BY <1>0, <1>2 DEF TypeOK, RecvData, Consume, AfterRecvData, LoopHead, Goto, Sz, Nr, Sy
  <2>2. chan["rcv"] = <<DataMsg(size["rcv"])>> /\ chan'["rcv"] = <<>>
    BY <2>1, <1>0, TailShort DEF RcvReadable
  <2>3. nrepeat["tr"] \in Nat /\ nrepeat["rcv"] \in Nat /\ j["tr"] \in Nat /\ j["rcv"] \in Nat
    BY <1>0 DEF TypeOK
  <2>4. whole["tr"] \in Nat /\ whole["rcv"] \in Nat
    BY <1>0 DEF TypeOK
  <2>5. LoopCounters'
    BY <2>1, <2>2, <2>3, <2>4, <1>0 DEF LoopCounters, Up
  <2>6. Repeats'
    BY <2>1, <2>2, <2>3, <2>4, <1>0 DEF Repeats, Up
  <2>7. RcvReadable'
    BY <2>1, <2>2, <2>3, <2>4, <1>0 DEF Repeats, RcvReadable, Between
  <2>8. TrReadable'
    BY <2>1, <2>2, <2>3, <2>4, <1>0 DEF TrReadable
  <2>9. ASSUME BothUp' PROVE Phase' /\ SameArgs' /\ NothingLost' /\ CallCount'
    <3>0. BothUp /\ Phase /\ SameArgs /\ NothingLost /\ CallCount
      BY <2>1, <2>9 DEF InStep, BothUp, Up
    <3>1. Phase'
      BY <2>1, <2>2, <2>3, <2>4, <1>0, <3>0 DEF Phase, Between, SameArgs, LoopCounters, Repeats, BothUp, Up
    <3>2. SameArgs'
      BY <2>1, <2>2, <2>3, <2>4, <1>0, <3>0 DEF SameArgs, Phase, Between
    <3>3. NothingLost'
      BY <2>1, <2>2, <2>3, <2>4, <1>0, <2>9, <3>0 DEF NothingLost, ResultsAreFull, LoopCounters, BothUp, Up
    <3>4. CallCount'
      BY <2>1, <2>2, <2>3, <2>4, <1>0, <3>0 DEF CallCount, TrPast, RcvPast, Phase, Between, Repeats
    <3> QED
      BY <3>1, <3>2, <3>3, <3>4
  <2>10. AheadByOne'
    BY <2>1, <2>2, <2>3, <2>4, <1>0 DEF AheadByOne, Up
  <2>11. SameResults'
    BY <2>1, <2>2, <2>3, <2>4, <1>0 DEF SameResults
  <2> QED
    BY <2>5, <2>6, <2>7, <2>8, <2>9, <2>10, <2>11 DEF InStep
<1> QED
  BY <1>1, <1>2

LEMMA RecvDataEOFStep ==
    ASSUME InStep, NEW p \in Proc, RecvDataEOF(p), TypeOK'
    PROVE  InStep'
<1>0. TypeOK /\ LoopCounters /\ Repeats /\ RcvReadable /\ TrReadable /\ AheadByOne /\ SameResults
  BY DEF InStep
<1>1. CASE p = "tr"
  <2>1. /\ pc["tr"] = "recv" /\ pc'["rcv"] = pc["rcv"]
        /\ pc'["tr"] = IF j["tr"] + 1 < nrepeat["tr"] THEN "send" ELSE "check"
        /\ j'["tr"] = j["tr"] + 1 /\ j'["rcv"] = j["rcv"]
        /\ pc["rcv"] = "stopped" /\ chan["tr"] = <<>>
        /\ chan' = chan /\ whole' = whole /\ size' = size /\ nrepeat' = nrepeat /\ ret' = ret
        /\ Sz' = Sz /\ Nr' = Nr /\ Sy' = Sy
    BY <1>0, <1>1 DEF TypeOK, RecvDataEOF, AfterRecvData, LoopHead, Goto, Up, Peer, Sz, Nr, Sy
  <2>2. nrepeat["tr"] \in Nat /\ nrepeat["rcv"] \in Nat /\ j["tr"] \in Nat /\ j["rcv"] \in Nat
    BY <1>0 DEF TypeOK
  <2>3. LoopCounters'
    BY <2>1, <2>2, <1>0 DEF LoopCounters, Up
  <2>4. Repeats'
    BY <2>1, <2>2, <1>0 DEF Repeats, Up
  <2>5. RcvReadable'
    BY <2>1, <2>2, <1>0 DEF Repeats, RcvReadable, Between
  <2>6. TrReadable'
    BY <2>1, <2>2, <1>0 DEF TrReadable
  <2>7. ASSUME BothUp' PROVE Phase' /\ SameArgs' /\ NothingLost' /\ CallCount'
    <3>0. BothUp /\ Phase /\ SameArgs /\ NothingLost /\ CallCount
      BY <2>1, <2>7 DEF InStep, BothUp, Up
    <3>1. Phase'
      BY <2>1, <2>2, <1>0, <3>0 DEF Phase, Between, SameArgs, LoopCounters, Repeats, BothUp, Up
    <3>2. SameArgs'
      BY <2>1, <2>2, <1>0, <3>0 DEF SameArgs, Phase, Between
    <3>3. NothingLost'
      BY <2>1, <2>2, <1>0, <2>7, <3>0 DEF NothingLost, ResultsAreFull, LoopCounters, BothUp, Up
    <3>4. CallCount'
      BY <2>1, <2>2, <1>0, <3>0 DEF CallCount, TrPast, RcvPast, Phase, Between, Repeats
    <3> QED
      BY <3>1, <3>2, <3>3, <3>4
  <2>8. AheadByOne'
    BY <2>1, <2>2, <1>0 DEF AheadByOne, Up
  <2>9. SameResults'
    BY <2>1, <2>2, <1>0 DEF SameResults
  <2> QED
    BY <2>3, <2>4, <2>5, <2>6, <2>7, <2>8, <2>9 DEF InStep
<1>2. CASE p = "rcv"
  <2>1. /\ pc["rcv"] = "recv" /\ pc'["tr"] = pc["tr"]
        /\ pc'["rcv"] = "send" /\ j' = j
        /\ pc["tr"] = "stopped" /\ chan["rcv"] = <<>>
        /\ chan' = chan /\ whole' = whole /\ size' = size /\ nrepeat' = nrepeat /\ ret' = ret
        /\ Sz' = Sz /\ Nr' = Nr /\ Sy' = Sy
    BY <1>0, <1>2 DEF TypeOK, RecvDataEOF, AfterRecvData, LoopHead, Goto, Up, Peer, Sz, Nr, Sy
  <2>2. nrepeat["tr"] \in Nat /\ nrepeat["rcv"] \in Nat /\ j["tr"] \in Nat /\ j["rcv"] \in Nat
    BY <1>0 DEF TypeOK
  <2>3. LoopCounters'
    BY <2>1, <2>2, <1>0 DEF LoopCounters, Up
  <2>4. Repeats'
    BY <2>1, <2>2, <1>0 DEF Repeats, Up
  <2>5. RcvReadable'
    BY <2>1, <2>2, <1>0 DEF Repeats, RcvReadable, Between
  <2>6. TrReadable'
    BY <2>1, <2>2, <1>0 DEF TrReadable
  <2>7. ASSUME BothUp' PROVE Phase' /\ SameArgs' /\ NothingLost' /\ CallCount'
    <3>0. BothUp /\ Phase /\ SameArgs /\ NothingLost /\ CallCount
      BY <2>1, <2>7 DEF InStep, BothUp, Up
    <3>1. Phase'
      BY <2>1, <2>2, <1>0, <3>0 DEF Phase, Between, SameArgs, LoopCounters, Repeats, BothUp, Up
    <3>2. SameArgs'
      BY <2>1, <2>2, <1>0, <3>0 DEF SameArgs, Phase, Between
    <3>3. NothingLost'
      BY <2>1, <2>2, <1>0, <2>7, <3>0 DEF NothingLost, ResultsAreFull, LoopCounters, BothUp, Up
    <3>4. CallCount'
      BY <2>1, <2>2, <1>0, <3>0 DEF CallCount, TrPast, RcvPast, Phase, Between, Repeats
    <3> QED
      BY <3>1, <3>2, <3>3, <3>4
  <2>8. AheadByOne'
    BY <2>1, <2>2, <1>0 DEF AheadByOne, Up
  <2>9. SameResults'
    BY <2>1, <2>2, <1>0 DEF SameResults
  <2> QED
    BY <2>3, <2>4, <2>5, <2>6, <2>7, <2>8, <2>9 DEF InStep
<1> QED
  BY <1>1, <1>2

LEMMA ReturnStep ==
    ASSUME InStep, NEW p \in Proc, Return(p), TypeOK'
    PROVE  InStep'
<1>0. TypeOK /\ LoopCounters /\ Repeats /\ RcvReadable /\ TrReadable /\ AheadByOne /\ SameResults
  BY DEF InStep
<1>1. CASE p = "tr"
  <2> DEFINE n == Len(ret["tr"]) + 1
  <2>1. /\ pc["tr"] = "check" /\ pc'["tr"] = "idle" /\ pc'["rcv"] = pc["rcv"]
        /\ chan' = chan /\ size' = size /\ nrepeat' = nrepeat /\ j' = j /\ whole' = whole
        /\ ret'["rcv"] = ret["rcv"]
        /\ ret'["tr"] = Append(ret["tr"], [size |-> size["tr"], nrepeat |-> nrepeat["tr"],
                                          full |-> whole["tr"] = nrepeat["tr"]])
        /\ Sz' = Sz /\ Nr' = Nr /\ Sy' = Sy
    BY <1>0, <1>1 DEF TypeOK, Return, Goto, Sz, Nr, Sy
  <2>2. /\ Len(ret["tr"]) \in Nat /\ Len(ret["rcv"]) \in Nat
        /\ Len(ret'["tr"]) = n
        /\ \A k \in 1..Len(ret["tr"]) : ret'["tr"][k] = ret["tr"][k]
        /\ ret'["tr"][n].size = size["tr"]
        /\ ret'["tr"][n].nrepeat = nrepeat["tr"]
        /\ ret'["tr"][n].full = (whole["tr"] = nrepeat["tr"])
    BY <2>1, <1>0, SMTT(30) DEF TypeOK, Result
  <2>3. Up("rcv") => BothUp /\ Phase /\ SameArgs /\ NothingLost /\ CallCount
    BY <2>1 DEF InStep, BothUp, Up
  <2>4. Up("rcv") =>
           \/ pc["rcv"] = "check" /\ Len(ret["tr"]) = Len(ret["rcv"])
           \/ pc["rcv"] \in {"idle", "recvSize"} /\ Len(ret["rcv"]) = Len(ret["tr"]) + 1
    BY <2>1, <2>3 DEF Phase, CallCount, TrPast, RcvPast, Between, Up, TypeOK, Labels
  <2> HIDE DEF n
  <2>5. LoopCounters' /\ Repeats'
    BY <2>1, <1>0 DEF LoopCounters, Repeats
  <2>6. RcvReadable' /\ TrReadable'
    BY <2>1, <1>0 DEF RcvReadable, TrReadable, Between
  <2>7. ASSUME BothUp' PROVE Phase' /\ SameArgs' /\ NothingLost' /\ CallCount'
    <3>0. Up("rcv")
      BY <2>1, <2>7 DEF BothUp, Up
    <3>1. Phase'
      BY <2>1, <2>3, <3>0 DEF Phase, Between
    <3>2. SameArgs'
      BY <2>1, <2>3, <3>0 DEF SameArgs
    <3>3. ret'["tr"][n].full
      BY <2>1, <2>2, <2>3, <3>0, <1>0 DEF NothingLost, LoopCounters
    <3>4. \A k \in 1..Len(ret'["tr"]) : ret'["tr"][k].full
      BY <2>1, <2>2, <2>3, <3>0, <3>3 DEF NothingLost, ResultsAreFull, n
    <3>5. NothingLost'
      BY <2>1, <2>3, <3>0, <3>4 DEF NothingLost, ResultsAreFull
    <3>6. CallCount'
      BY <2>1, <2>2, <2>3, <2>4, <3>0 DEF CallCount, TrPast, RcvPast, Phase, Between, n
    <3> QED
      BY <3>1, <3>2, <3>5, <3>6
  <2>8. AheadByOne'
    BY <2>1, <2>2, <2>3, <2>4, <1>0 DEF AheadByOne, SameArgs, TrPast, Up, n
  <2>9. SameResults'
    <3> SUFFICES ASSUME NEW k \in 1..Len(ret'["tr"]), k \in 1..Len(ret'["rcv"])
                 PROVE  /\ ret'["tr"][k].size = ret'["rcv"][k].size
                        /\ ret'["tr"][k].nrepeat = ret'["rcv"][k].nrepeat
      BY DEF SameResults
    <3>1. CASE k = n
      BY <3>1, <2>1, <2>2, <1>0 DEF AheadByOne, Up, n
    <3>2. CASE k # n
      <4>1. k \in 1..Len(ret["tr"])
        BY <3>2, <2>2 DEF n
      <4> QED
        BY <4>1, <2>1, <2>2, <1>0 DEF SameResults
    <3> QED
      BY <3>1, <3>2
  <2> QED
    BY <2>5, <2>6, <2>7, <2>8, <2>9 DEF InStep
<1>2. CASE p = "rcv"
  <2> DEFINE n == Len(ret["rcv"]) + 1
  <2>1. /\ pc["rcv"] = "check" /\ pc'["rcv"] = "idle" /\ pc'["tr"] = pc["tr"]
        /\ chan' = chan /\ size' = size /\ nrepeat' = nrepeat /\ j' = j /\ whole' = whole
        /\ ret'["tr"] = ret["tr"]
        /\ ret'["rcv"] = Append(ret["rcv"], [size |-> size["rcv"], nrepeat |-> nrepeat["rcv"],
                                          full |-> whole["rcv"] = nrepeat["rcv"]])
        /\ Sz' = Sz /\ Nr' = Nr /\ Sy' = Sy
    BY <1>0, <1>2 DEF TypeOK, Return, Goto, Sz, Nr, Sy
  <2>2. /\ Len(ret["tr"]) \in Nat /\ Len(ret["rcv"]) \in Nat
        /\ Len(ret'["rcv"]) = n
        /\ \A k \in 1..Len(ret["rcv"]) : ret'["rcv"][k] = ret["rcv"][k]
        /\ ret'["rcv"][n].size = size["rcv"]
        /\ ret'["rcv"][n].nrepeat = nrepeat["rcv"]
        /\ ret'["rcv"][n].full = (whole["rcv"] = nrepeat["rcv"])
    BY <2>1, <1>0, SMTT(30) DEF TypeOK, Result
  <2>3. Up("tr") => BothUp /\ Phase /\ SameArgs /\ NothingLost /\ CallCount
    BY <2>1 DEF InStep, BothUp, Up
  <2>4. Up("tr") =>
           \/ TrPast /\ Len(ret["tr"]) = Len(ret["rcv"]) + 1
           \/ /\ pc["tr"] = "check" \/ (pc["tr"] = "recv" /\ j["tr"] + 1 = nrepeat["tr"])
              /\ Len(ret["tr"]) = Len(ret["rcv"])
    <3>1. Up("tr") => \/ TrPast
                      \/ pc["tr"] = "check"
                      \/ pc["tr"] = "recv" /\ j["tr"] + 1 = nrepeat["tr"]
      <4>1. Up("tr") => pc["tr"] \in {"idle", "sendSize", "sendNrepeat", "syncWrite", "syncRead",
                                      "send", "recv", "check"}
        BY <1>0 DEF TypeOK, Labels, Up, TrReadable
      <4> QED
        BY <4>1, <2>1, <2>3 DEF Phase, TrPast
    <3>2. Up("tr") /\ ~TrPast => Len(ret["tr"]) = Len(ret["rcv"])
      BY <2>1, <2>3 DEF CallCount, RcvPast
    <3>3. Up("tr") /\ TrPast => Len(ret["tr"]) = Len(ret["rcv"]) + 1
      BY <2>3 DEF CallCount
    <3> QED
      BY <3>1, <3>2, <3>3
  <2> HIDE DEF n
  <2>5. LoopCounters' /\ Repeats'
    BY <2>1, <1>0 DEF LoopCounters, Repeats
  <2>6. RcvReadable' /\ TrReadable'
    BY <2>1, <1>0 DEF RcvReadable, TrReadable, Between
  <2>7. ASSUME BothUp' PROVE Phase' /\ SameArgs' /\ NothingLost' /\ CallCount'
    <3>0. Up("tr")
      BY <2>1, <2>7 DEF BothUp, Up
    <3>1. Phase'
      BY <2>1, <2>3, <3>0 DEF Phase, Between
    <3>2. SameArgs'
      BY <2>1, <2>3, <3>0 DEF SameArgs
    <3>3. ret'["rcv"][n].full
      BY <2>1, <2>2, <2>3, <3>0, <1>0 DEF NothingLost, LoopCounters
    <3>4. \A k \in 1..Len(ret'["rcv"]) : ret'["rcv"][k].full
      BY <2>1, <2>2, <2>3, <3>0, <3>3 DEF NothingLost, ResultsAreFull, n
    <3>5. NothingLost'
      BY <2>1, <2>3, <3>0, <3>4 DEF NothingLost, ResultsAreFull
    <3>6. CallCount'
      BY <2>1, <2>2, <2>3, <2>4, <3>0 DEF CallCount, TrPast, RcvPast, Phase, Between, n
    <3> QED
      BY <3>1, <3>2, <3>5, <3>6
  <2>8. AheadByOne'
    BY <2>1, <2>2, <2>3, <2>4, <1>0 DEF AheadByOne, SameArgs, TrPast, Up, n
  <2>9. SameResults'
    <3> SUFFICES ASSUME NEW k \in 1..Len(ret'["tr"]), k \in 1..Len(ret'["rcv"])
                 PROVE  /\ ret'["tr"][k].size = ret'["rcv"][k].size
                        /\ ret'["tr"][k].nrepeat = ret'["rcv"][k].nrepeat
      BY DEF SameResults
    <3>1. CASE k = n
      BY <3>1, <2>1, <2>2, <1>0 DEF AheadByOne, Up, n
    <3>2. CASE k # n
      <4>1. k \in 1..Len(ret["rcv"])
        BY <3>2, <2>2 DEF n
      <4> QED
        BY <4>1, <2>1, <2>2, <1>0 DEF SameResults
    <3> QED
      BY <3>1, <3>2
  <2> QED
    BY <2>5, <2>6, <2>7, <2>8, <2>9 DEF InStep
<1> QED
  BY <1>1, <1>2

LEMMA PipePrefix ==
    ASSUME NEW s, NEW u, NEW k \in 0..Len(s), u = SubSeq(s, 1, k)
    PROVE  \A a, b, c \in Message :
              /\ s = <<>> => u = <<>>
              /\ s = <<a>> => u \in {<<>>, <<a>>}
              /\ s = <<a, b>> => u \in {<<>>, <<a>>, <<a, b>>}
              /\ s = <<a, b, c>> => u \in {<<>>, <<a>>, <<a, b>>, <<a, b, c>>}
  BY PrefixShort, ZenonT(40)

LEMMA StopStep ==
    ASSUME InStep, NEW p \in Proc, Stop(p), TypeOK'
    PROVE  InStep'
<1>0. TypeOK /\ LoopCounters /\ Repeats /\ RcvReadable /\ TrReadable /\ AheadByOne /\ SameResults
  BY DEF InStep
<1>1. PICK k \in 0..Len(chan[Peer(p)]) :
         chan' = [q \in Proc |-> IF q = p THEN <<>> ELSE SubSeq(chan[q], 1, k)]
  BY DEF Stop, Halt
<1>2. /\ pc'[p] = "stopped" /\ pc'[Peer(p)] = pc[Peer(p)] /\ Peer(p) \in Proc /\ Peer(p) # p
      /\ chan'[p] = <<>> /\ chan'[Peer(p)] = SubSeq(chan[Peer(p)], 1, k)
      /\ size' = size /\ nrepeat' = nrepeat /\ j' = j /\ whole' = whole /\ ret' = ret
      /\ Sz' = Sz /\ Nr' = Nr /\ Sy' = Sy
  BY <1>0, <1>1 DEF TypeOK, Stop, Halt, Goto, Peer, Sz, Nr, Sy
<1>3. ~BothUp'
  BY <1>2 DEF BothUp, Up
<1>4. AheadByOne' /\ SameResults'
  BY <1>0, <1>2 DEF AheadByOne, SameResults, Up, Peer
<1>5. CASE p = "tr"
  <2>1. /\ pc'["tr"] = "stopped" /\ pc'["rcv"] = pc["rcv"]
        /\ chan'["tr"] = <<>> /\ chan'["rcv"] = SubSeq(chan["rcv"], 1, k) /\ k \in 0..Len(chan["rcv"])
    BY <1>2, <1>5 DEF Peer
  <2>2. /\ Sz \in Message /\ Nr \in Message /\ Sy \in Message /\ DataMsg(size["rcv"]) \in Message
    BY <1>0, MessageTypes DEF Sz, Nr, Sy
  <2>3. \A a, b, c \in Message :
            /\ chan["rcv"] = <<>> => chan'["rcv"] = <<>>
            /\ chan["rcv"] = <<a>> => chan'["rcv"] \in {<<>>, <<a>>}
            /\ chan["rcv"] = <<a, b>> => chan'["rcv"] \in {<<>>, <<a>>, <<a, b>>}
            /\ chan["rcv"] = <<a, b, c>> => chan'["rcv"] \in {<<>>, <<a>>, <<a, b>>, <<a, b, c>>}
    BY <2>1, PipePrefix, Zenon
  <2>4. /\ chan["rcv"] = <<>> => chan'["rcv"] = <<>>
        /\ chan["rcv"] = <<Sz>> => chan'["rcv"] \in {<<>>, <<Sz>>}
        /\ chan["rcv"] = <<Sz, Nr>> => chan'["rcv"] \in {<<>>, <<Sz>>, <<Sz, Nr>>}
        /\ chan["rcv"] = <<Sz, Nr, Sy>> =>
              chan'["rcv"] \in {<<>>, <<Sz>>, <<Sz, Nr>>, <<Sz, Nr, Sy>>}
    BY <2>2, <2>3
  <2>5. /\ chan["rcv"] = <<Nr>> => chan'["rcv"] \in {<<>>, <<Nr>>}
        /\ chan["rcv"] = <<Nr, Sy>> => chan'["rcv"] \in {<<>>, <<Nr>>, <<Nr, Sy>>}
        /\ chan["rcv"] = <<Sy>> => chan'["rcv"] \in {<<>>, <<Sy>>}
    BY <2>2, <2>3
  <2>6. LET D == DataMsg(size["rcv"]) IN
        /\ chan["rcv"] = <<Sy, D>> => chan'["rcv"] \in {<<>>, <<Sy>>, <<Sy, D>>}
        /\ chan["rcv"] = <<D>> => chan'["rcv"] \in {<<>>, <<D>>}
    BY <2>2, <2>3
  <2>7. LoopCounters'
    BY <1>0, <1>2, <2>1, <2>4 DEF LoopCounters
  <2>8. Repeats'
    BY <1>0, <1>2, <2>1, <2>4 DEF Repeats
  <2>9. RcvReadable'
    BY <1>0, <1>2, <2>1, <2>4, <2>5, <2>6 DEF RcvReadable, Between
  <2>10. TrReadable'
    BY <2>1 DEF TrReadable
  <2> QED
    BY <1>3, <1>4, <2>7, <2>8, <2>9, <2>10 DEF InStep
<1>6. CASE p = "rcv"
  <2>1. /\ pc'["rcv"] = "stopped" /\ pc'["tr"] = pc["tr"]
        /\ chan'["rcv"] = <<>> /\ chan'["tr"] = SubSeq(chan["tr"], 1, k) /\ k \in 0..Len(chan["tr"])
    BY <1>2, <1>6 DEF Peer
  <2>2. /\ Sy \in Message /\ DataMsg(size["tr"]) \in Message
    BY <1>0, MessageTypes DEF Sy
  <2>3. LET D == DataMsg(size["tr"]) IN
        /\ chan["tr"] = <<>> => chan'["tr"] = <<>>
        /\ chan["tr"] = <<Sy>> => chan'["tr"] \in {<<>>, <<Sy>>}
        /\ chan["tr"] = <<D>> => chan'["tr"] \in {<<>>, <<D>>}
    BY <2>1, <2>2, PipePrefix
  <2>4. LoopCounters'
    BY <1>0, <1>2, <2>1, <2>3 DEF LoopCounters
  <2>5. Repeats'
    BY <1>0, <1>2, <2>1 DEF Repeats
  <2>6. RcvReadable'
    BY <2>1 DEF RcvReadable, Between
  <2>7. TrReadable'
    BY <1>0, <1>2, <2>1, <2>3 DEF TrReadable
  <2> QED
    BY <1>3, <1>4, <2>4, <2>5, <2>6, <2>7 DEF InStep
<1> QED
  BY <1>5, <1>6

-----------------------------------------------------------------------------
(* The theorems *)

LEMMA InStepStep ==
    ASSUME InStep, [Next]_vars
    PROVE  InStep'
<1>1. TypeOK'
  BY TypeStep DEF InStep
<1>2. CASE UNCHANGED vars
  <2>1. LoopCounters' = LoopCounters /\ Repeats' = Repeats
    BY <1>2 DEF vars, LoopCounters, Repeats
  <2>2. RcvReadable' = RcvReadable /\ TrReadable' = TrReadable
    BY <1>2 DEF vars, RcvReadable, TrReadable, Sz, Nr, Sy
  <2>3. BothUp' = BothUp /\ Phase' = Phase /\ SameArgs' = SameArgs
    BY <1>2 DEF vars, BothUp, Up, Phase, Sz, Nr, Sy, SameArgs
  <2>4. NothingLost' = NothingLost /\ CallCount' = CallCount
    BY <1>2 DEF vars, NothingLost, ResultsAreFull, BothUp, Up, CallCount, TrPast, RcvPast
  <2>5. AheadByOne' = AheadByOne /\ SameResults' = SameResults
    BY <1>2 DEF vars, AheadByOne, Up, SameResults
  <2> QED
    BY <1>1, <2>1, <2>2, <2>3, <2>4, <2>5 DEF InStep
<1> QED
  BY <1>1, <1>2, CallStep, SendRepeatStep, RecvSizeStep, RecvNrepeatStep, SyncWriteStep, SyncReadStep,
     SendDataStep, RecvDataStep, ReturnStep, RecvDataEOFStep, StopStep
     DEF Next, Terminated

LEMMA InStepInit == Init => InStep
  BY DEF Init, InStep, TypeOK, Labels, LoopCounters, Repeats, RcvReadable, TrReadable, Phase, SameArgs,
         NothingLost, ResultsAreFull, CallCount, TrPast, RcvPast, AheadByOne, SameResults,
         BothUp, Up, Between

\* At every moment the two processes, the pipes between them and the results they
\* have returned are in one of the joint states InStep describes.
THEOREM JointState == Spec => []InStep
  BY InStepInit, InStepStep, PTL DEF Spec

\* No call of the library reads what another call of the peer has written, whatever
\* sizes and repeat counts are asked for and wherever a process stops.
THEOREM Aligned == Spec => []StreamAligned
<1>1. InStep => StreamAligned
  <2> SUFFICES ASSUME InStep, NEW p \in Proc, pc[p] \in Reading, chan[p] # <<>>
               PROVE  /\ Head(chan[p]).t = Wanted(p)
                      /\ pc[p] = "recv" => Head(chan[p]).v = Bytes(size[p])
    BY DEF StreamAligned
  <2>1. CASE p = "tr"
    <3>1. \/ pc["tr"] = "syncRead" /\ chan["tr"] = <<Sy>>
          \/ pc["tr"] = "recv" /\ chan["tr"] = <<DataMsg(size["tr"])>>
      BY <2>1 DEF InStep, TrReadable, Reading
    <3> QED
      BY <2>1, <3>1 DEF Wanted, Sy, SyncMsg, DataMsg
  <2>2. CASE p = "rcv"
    <3>1. \/ pc["rcv"] = "recvSize" /\ Head(chan["rcv"]) = Sz
          \/ pc["rcv"] = "recvNrepeat" /\ Head(chan["rcv"]) = Nr
          \/ pc["rcv"] = "syncRead" /\ Head(chan["rcv"]) = Sy
          \/ pc["rcv"] = "recv" /\ Head(chan["rcv"]) = DataMsg(size["rcv"])
      BY <2>2 DEF InStep, RcvReadable, Reading, Between
    <3> QED
      BY <2>2, <3>1 DEF Wanted, Sz, SizeMsg, Nr, NrepeatMsg, Sy, SyncMsg, DataMsg
  <2> QED
    BY <2>1, <2>2
<1> QED
  BY <1>1, JointState, PTL

\* The two timed loops advance together, on the same size and repeat count.
THEOREM LoopsInLockstep == Spec => []Lockstep
<1>1. InStep => Lockstep
  BY DEF InStep, Lockstep, InLoop, BothUp, Up, Phase, SameArgs, Between
<1> QED
  BY <1>1, JointState, PTL

\* While the transmitter's clock runs the receiver is in the loop of the same call, or
\* has bounced the last message.
THEOREM CleanTiming == Spec => []TimingIsClean
<1>1. InStep => TimingIsClean
  BY ShortLengths DEF InStep, TimingIsClean, InLoop, Phase, Between
<1> QED
  BY <1>1, JointState, PTL

\* Both scripts get the same list of measurements, up to the one under way.
THEOREM AgreedResults == Spec => []ResultsAgree
<1>1. InStep => ResultsAgree
  <2> SUFFICES ASSUME InStep PROVE ResultsAgree
    OBVIOUS
  <2>1. Len(ret["tr"]) \in Nat /\ Len(ret["rcv"]) \in Nat
    BY DEF InStep, TypeOK
  <2> QED
    BY <2>1 DEF InStep, ResultsAgree, CallCount
<1> QED
  BY <1>1, JointState, PTL

\* Every result returned while both processes are up stands for nrepeat messages that
\* arrived.
THEOREM FullResults == Spec => []ResultsAreFull
<1>1. InStep => ResultsAreFull
  BY DEF InStep, NothingLost, ResultsAreFull
<1> QED
  BY <1>1, JointState, PTL

=============================================================================
