------------------------------- MODULE MemCopy ------------------------------
(***************************************************************************)
(* memcpy_8 and memcpy_16 of src/src/MP_memcpy.c: a copy in up to three     *)
(* pieces, the first of which brings the address to a boundary.  Addresses  *)
(* are cast to int before their remainder is taken, so they may be          *)
(* negative, and the remainder with them.                                   *)
(***************************************************************************)
EXTENDS Integers

CONSTANTS
    Addresses,   \* values of (int) dest, or of (long int) src
    Sizes        \* values of nbytes

VARIABLES
    width,          \* 8 for memcpy_8, 16 for memcpy_16
    at, n,          \* the address that is brought to a boundary, and nbytes
    pc, off, left,  \* the piece, the place reached, nbytes as the code counts it down
    copied          \* copied[k]: how many times octet k was written

vars == <<width, at, n, pc, off, left, copied>>

Widths == {8, 16}

Init ==
    /\ width \in Widths /\ at \in Addresses /\ n \in Sizes
    /\ pc = "before" /\ off = 0 /\ left = n
    /\ copied = [k \in 0..(n + 1) |-> 0]

\* The remainder of C, which has the sign of x.
Remainder(x, m) == IF x >= 0 THEN x % m ELSE -((-x) % m)

nb_b4 == width - Remainder(at, width)

nb_after == left % width

Copy(from, len) ==
    copied' = [k \in DOMAIN copied |-> IF k \in from..(from + len - 1) THEN copied[k] + 1 ELSE copied[k]]

\* Variant of Before that goes on with the number of octets it was given.
BeforeKeepsCount ==
    /\ pc = "before" /\ pc' = "main"
    /\ IF nb_b4 # width /\ nb_b4 <= left
       THEN Copy(0, nb_b4) /\ off' = nb_b4 /\ UNCHANGED left
       ELSE UNCHANGED <<copied, off, left>>
    /\ UNCHANGED <<width, at, n>>

\* Variant of Before that does not go to the boundary when it is one octet away.
BeforeOneLess ==
    /\ pc = "before" /\ pc' = "main"
    /\ IF nb_b4 # width /\ nb_b4 < left
       THEN Copy(0, nb_b4 - 1) /\ off' = nb_b4 - 1 /\ left' = left - nb_b4 + 1
       ELSE UNCHANGED <<copied, off, left>>
    /\ UNCHANGED <<width, at, n>>

\* Up to the boundary, when the buffer reaches that far.
Before ==
    /\ pc = "before" /\ pc' = "main"
    /\ IF nb_b4 # width /\ nb_b4 <= left
       THEN Copy(0, nb_b4) /\ off' = nb_b4 /\ left' = left - nb_b4
       ELSE UNCHANGED <<copied, off, left>>
    /\ UNCHANGED <<width, at, n>>

\* All whole pieces of the given width.
Main ==
    /\ pc = "main" /\ pc' = "after"
    /\ Copy(off, left - nb_after)
    /\ off' = off + left - nb_after
    /\ left' = nb_after
    /\ UNCHANGED <<width, at, n>>

After ==
    /\ pc = "after" /\ pc' = "done"
    /\ Copy(off, left)
    /\ UNCHANGED <<width, at, n, off, left>>

Next == Before \/ Main \/ After

Spec == Init /\ [][Next]_vars

-----------------------------------------------------------------------------
(* Properties. *)

\* The three pieces cover the buffer: every octet is written exactly once, and
\* none after its end, for every address and length (memcpy_8, memcpy_16).
EachOctetOnce ==
    pc = "done" => \A k \in DOMAIN copied : copied[k] = IF k < n THEN 1 ELSE 0

\* The main piece starts on a boundary unless the first one would not have fitted,
\* also when the address is negative as an int (memcpy_16).
MainOnBoundary ==
    pc = "main" => (at + off) % width = 0 \/ nb_b4 > n
=============================================================================
