---------------------------- MODULE OutputBuffer ----------------------------
(***************************************************************************)
(* The growing buffer of the coder (lib/util/buffer/outputBuffer.ts): how   *)
(* many bytes are used and how many there are.  The capacity is doubled     *)
(* with a 32-bit shift, which turns negative at 2^31.                       *)
(***************************************************************************)
EXTENDS Integers

CONSTANTS
    Sizes,       \* initial sizes (BUFFER_SIZE_DEFAULT is 32)
    Word,        \* 2^32 in JavaScript
    MaxCount     \* bound: bytes written

ASSUME SizesAssumption == Sizes \subseteq Nat \ {0}
ASSUME WordAssumption  == Word \in Nat \ {0, 1}
ASSUME BoundAssumption == MaxCount \in Nat

VARIABLES
    count,       \* bytes written
    capacity,    \* buf.length
    high         \* history: the largest end of a write

bufVars == <<count, capacity, high>>

BufInit ==
    /\ capacity \in Sizes
    /\ count = 0 /\ high = 0

(* x << 1 *)
ShiftLeft(x) ==
    LET y == (2 * x) % Word IN IF 2 * y >= Word THEN y - Word ELSE y

(* Mutant: the doubled capacity is taken as it comes. *)
GrownDouble(old, minCapacity) == ShiftLeft(old)

(* grow; it throws only when both are negative, and minCapacity is not. *)
Grown(old, minCapacity) ==
    IF ShiftLeft(old) - minCapacity < 0 THEN minCapacity ELSE ShiftLeft(old)

EnsureCapacity(len) ==
    capacity' = IF count + len > capacity THEN Grown(capacity, count + len) ELSE capacity

(* One of the write methods, with len bytes to write. *)
Put(len) ==
    /\ count + len <= MaxCount
    /\ EnsureCapacity(len)
    /\ high' = count + len
    /\ count' = count + len

BufNext == \E len \in 1..MaxCount : Put(len)

BufSpec == BufInit /\ [][BufNext]_bufVars

-----------------------------------------------------------------------------
(* PROPERTIES *)

(* What is written lies within the buffer, whatever the initial size, the    *)
(* lengths of the writes, and the point at which the shift overflows.        *)
Fits == high <= capacity /\ count <= capacity
=============================================================================
