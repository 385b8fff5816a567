-------------------------- MODULE EthashDifficulty --------------------------
(***************************************************************************)
(* The proof-of-work boundary check of libccmash/internal.h:35-63: the     *)
(* accessors of a 256-bit hash and ccmash_check_difficulty, which compares *)
(* a hash with the boundary 2^256 / difficulty byte by byte.               *)
(*                                                                         *)
(* A hash is a function from 1..HashSize to bytes; byte i of the C array   *)
(* is element i + 1.  The program around the check is a caller that fills  *)
(* in a hash and a boundary with the accessors and then asks.              *)
(***************************************************************************)
EXTENDS Integers, Sequences, TLC

CONSTANTS
    HashSize,       \* the bytes of a hash: 32 in the code
    MaxByte         \* the largest value of a byte: 255 in the code

VARIABLES
    hash,           \* the hash to check
    boundary,       \* the boundary, big endian
    answer          \* what ccmash_check_difficulty returned for them, or "none"

vars == <<hash, boundary, answer>>

Bytes  == 0..MaxByte
Hashes == [1..HashSize -> Bytes]

ccmash_h256_get(h, i) == h[i + 1]

\* Mutant: the byte is written at the index of the array, one place early.
ccmash_h256_set_unshifted(h, i, v) == (i :> v) @@ h

ccmash_h256_set(h, i, v) == [h EXCEPT ![i + 1] = v]

ccmash_h256_reset == [i \in 1..HashSize |-> 0]

\* Mutant: the loop runs from the last byte to the first.
CheckFromLastByte(h, b) ==
    LET differ == {i \in 0..HashSize - 1 :
                      ccmash_h256_get(h, i) # ccmash_h256_get(b, i)}
    IN  \/ differ = {}
        \/ LET i == CHOOSE d \in differ : \A e \in differ : e <= d
           IN  ccmash_h256_get(h, i) < ccmash_h256_get(b, i)

\* ccmash_check_difficulty: the first byte in which the two differ decides,
\* and equal hashes pass.
ccmash_check_difficulty(h, b) ==
    LET differ == {i \in 0..HashSize - 1 :
                      ccmash_h256_get(h, i) # ccmash_h256_get(b, i)}
    IN  \/ differ = {}
        \/ LET i == CHOOSE d \in differ : \A e \in differ : d <= e
           IN  ccmash_h256_get(h, i) < ccmash_h256_get(b, i)

-----------------------------------------------------------------------------

Init ==
    /\ hash = ccmash_h256_reset
    /\ boundary = ccmash_h256_reset
    /\ answer = "none"

\* The caller clears the hash.
Reset ==
    /\ hash' = ccmash_h256_reset
    /\ answer' = "none"
    /\ UNCHANGED boundary

\* The caller writes a byte of the hash.
SetHash(i, v) ==
    /\ hash' = ccmash_h256_set(hash, i, v)
    /\ answer' = "none"
    /\ UNCHANGED boundary

\* The caller writes a byte of the boundary.
SetBoundary(i, v) ==
    /\ boundary' = ccmash_h256_set(boundary, i, v)
    /\ answer' = "none"
    /\ UNCHANGED hash

\* The caller asks.
Check ==
    /\ answer = "none"
    /\ answer' = IF ccmash_check_difficulty(hash, boundary) THEN "true" ELSE "false"
    /\ UNCHANGED <<hash, boundary>>

Next ==
    \/ Reset
    \/ \E i \in 0..HashSize - 1, v \in Bytes : SetHash(i, v) \/ SetBoundary(i, v)
    \/ Check

Spec == Init /\ [][Next]_vars

-----------------------------------------------------------------------------
(* Properties *)

HashTypeOK ==
    /\ hash \in Hashes
    /\ boundary \in Hashes
    /\ answer \in {"none", "true", "false"}

\* The number a hash stands for, read big endian.
RECURSIVE Number(_, _)
Number(h, n) ==
    IF n = 0 THEN 0 ELSE Number(h, n - 1) * (MaxByte + 1) + h[n]

\* "Returns if hash is less than or equal to boundary (2^256/difficulty)":
\* the byte-wise loop of ccmash_check_difficulty, with its early return at
\* the first differing byte, decides the order of the two numbers, the
\* boundary being big endian.
AnswerIsNumericOrder ==
    answer # "none" =>
        (answer = "true") = (Number(hash, HashSize) <= Number(boundary, HashSize))

=============================================================================
