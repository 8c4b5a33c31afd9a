----------------------------- MODULE BufferData -----------------------------
(***************************************************************************)
(* The test pattern of src/src/netpipe.c: InitBufferData fills the two      *)
(* buffers from a shift register, a message arrives (or only part of it     *)
(* does), and CheckBufferData compares what is in the receive buffer with   *)
(* the pattern the peer sent.  A word is the set of its bits that are one   *)
(* and an octet likewise, so that the 32-bit register needs no arithmetic.  *)
(***************************************************************************)
EXTENDS Integers

CONSTANTS
    Sizes,      \* lengths of the buffers, in bytes
    Arrivals,   \* Arrivals[size], what may arrive: "intact", "cut" (a prefix), "flip" (one bit wrong)
    Polls       \* RecvData is one that waits for, and then resets, the last octet

VARIABLES
    pc, n, i,          \* the loop, bufflen, the word it is at
    lfsr_data,         \* the register
    r_buff, s_buff,    \* [0..n-1 -> octet]
    came, bad          \* octets that arrived in order, -1 if not, and what lfsrcheck reported

vars == <<pc, n, i, lfsr_data, r_buff, s_buff, came, bad>>

Labels == {"setR", "setS", "arrive", "check", "done"}

a == {0, 5, 6}   \* 'a' = 97
b == {1, 5, 6}   \* 'b' = 98

Xor(v, w) == (v \ w) \cup (w \ v)
ShiftRight(w) == {x - 1 : x \in w \ {0}}

\* One step of a Galois register with the taps of a mask.
Galois(w, mask) == Xor(ShiftRight(w), IF 0 \in w THEN mask ELSE {})

\* The mask 0x200002000000000 has no bit below 32, and the register has no other.
lfsr58(w) == Galois(w, {57, 37} \cap (0..31))

lfsr23(w) == Galois(w, {22, 4})

LFSR(w) == lfsr23(w)

\* Octet j of a word, in the order of a little-endian machine.
Octet(w, j) == {x - 8 * j : x \in w \cap ((8 * j)..(8 * j + 7))}

-----------------------------------------------------------------------------

Init ==
    /\ pc = "setR" /\ n \in Sizes /\ i = 0 /\ lfsr_data = a
    /\ r_buff = [k \in 0..(n - 1) |-> {}] /\ s_buff = r_buff
    /\ came = 0 /\ bad = {}

Whole == 4 * (i + 1) <= n

\* The octets this turn of a loop is about: a word, or the 0 to 3 octets left.
Here == {k \in 0..(n - 1) : k \div 4 = i}

\* Variant of lfsrset that takes the last word once more for the rest.
lfsrsetTailStale(buf) ==
    LET w == IF Whole THEN LFSR(lfsr_data) ELSE lfsr_data
    IN [k \in 0..(n - 1) |-> IF k \div 4 = i THEN Octet(w, k % 4) ELSE buf[k]]

\* The octets lfsrset stores in one turn.
lfsrset(buf) ==
    LET w == LFSR(lfsr_data)
    IN [k \in 0..(n - 1) |-> IF k \div 4 = i THEN Octet(w, k % 4) ELSE buf[k]]

\* The register goes on, or starts again from the next seed after the rest.
Turn(next, seed) ==
    /\ pc' = IF Whole THEN pc ELSE next
    /\ i' = IF Whole THEN i + 1 ELSE 0
    /\ lfsr_data' = IF Whole THEN LFSR(lfsr_data) ELSE seed

\* InitBufferData: the receive buffer from 'a', the send buffer from 'b'.
InitBufferData ==
    \/ /\ pc = "setR" /\ Turn("setS", b)
       /\ r_buff' = lfsrset(r_buff)
       /\ UNCHANGED <<n, s_buff, came, bad>>
    \/ /\ pc = "setS" /\ Turn("arrive", b)
       /\ s_buff' = lfsrset(s_buff)
       /\ UNCHANGED <<n, r_buff, came, bad>>

\* The peer's send buffer holds the same pattern as ours.  Modules that poll the
\* buffer have put 'a' into its last octet before they return.
Arrive(what, m, buf) ==
    /\ pc = "arrive" /\ what \in Arrivals[n]
    /\ came' = m
    /\ r_buff' = IF Polls THEN [buf EXCEPT ![n - 1] = a] ELSE buf
    /\ pc' = "check"
    /\ UNCHANGED <<n, i, lfsr_data, s_buff, bad>>

RecvData ==
    \/ Arrive("intact", n, s_buff)
    \/ \E m \in 0..(n - 1) :
          Arrive("cut", m, [k \in 0..(n - 1) |-> IF k < m THEN s_buff[k] ELSE r_buff[k]])
    \/ \E k \in 0..(n - 1) : Arrive("flip", -1, [s_buff EXCEPT ![k] = Xor(@, {0})])

\* Variant of lfsrcheck that compares whole words only.
lfsrcheckWords ==
    {k \in Here : Whole /\ r_buff[k] # Octet(LFSR(lfsr_data), k % 4)}

\* What lfsrcheck finds wrong in one turn (it prints whole words by their index).
lfsrcheck ==
    {k \in Here : r_buff[k] # Octet(LFSR(lfsr_data), k % 4)}

CheckBufferData ==
    /\ pc = "check" /\ Turn("done", b)
    /\ bad' = bad \cup lfsrcheck
    /\ UNCHANGED <<n, r_buff, s_buff, came>>

Next == InitBufferData \/ RecvData \/ CheckBufferData

Spec == Init /\ [][Next]_vars

-----------------------------------------------------------------------------
(* Properties. *)

\* The indices and the register of lfsrset and lfsrcheck stay within the buffer and
\* within 32 bits.
TypeOK ==
    /\ pc \in Labels /\ n \in Sizes /\ i \in 0..n
    /\ lfsr_data \subseteq 0..31
    /\ bad \subseteq 0..(n - 1)

\* The register never runs empty, so the pattern never becomes constant, and
\* keeps to the 23 bits of its polynomial (lfsr23).
RegisterAlive == lfsr_data # {} /\ lfsr_data \subseteq 0..22

\* "the send buffer starts out containing different values from the receive
\* buffer": the patterns of 'a' and 'b' differ in every whole word, at every
\* length (InitBufferData).
WordsDiffer ==
    pc = "arrive" => \A w \in 0..(n \div 4 - 1) : \E k \in (4 * w)..(4 * w + 3) : r_buff[k] # s_buff[k]

\* CheckBufferData reports exactly the octets that are not what the peer sent,
\* those after the last whole word included (lfsrcheck).
ReportsExactly ==
    pc = "done" => bad = {k \in 0..(n - 1) : r_buff[k] # s_buff[k]}

\* A message that lacks a whole word is never taken for a complete one, because
\* of what the receive buffer held before (InitBufferData, CheckBufferData).
MissingWordReported == pc = "done" /\ came \in 0..(4 * (n \div 4) - 4) => bad # {}

\* The last octets of the sizes that modules IbvRun, IbRun and Mailbox use.
LastOctets ==
    pc = "arrive" =>
        /\ n = 4 => r_buff[3] = {} /\ s_buff[3] = {}
        /\ n \in {103, 134} => r_buff[n - 1] # b /\ s_buff[n - 1] = b
        /\ n = 599 => r_buff[598] = b /\ s_buff[598] # b

\* "lfsr will never produce 0": no octet of a buffer is zero (InitBufferData).
NoZeroOctet == pc = "arrive" => \A k \in 0..(n - 1) : r_buff[k] # {}

\* A message that arrived as it was sent is reported as such: the octet that
\* marks the end of a receive is an extra one (SetIntegrityData's comment).
IntactIsSilent == pc = "done" /\ came = n => bad = {}
=============================================================================
