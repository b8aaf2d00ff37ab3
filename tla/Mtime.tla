------------------------------- MODULE Mtime -------------------------------
(***************************************************************************)
(* A 64-bit counter register of the hardware (mtime of the CLINT, mcycle   *)
(* and minstret of the hart) as a 32-bit program sees it: two words that   *)
(* are read one at a time, with a carry from the low into the high word.   *)
(* A value is a pair <<h, l>>; pairs are compared word by word, the high   *)
(* one first, so that no definition multiplies.                            *)
(***************************************************************************)
EXTENDS Integers

CONSTANTS
    Word,      \* values of a word: 2^32 in the hardware, small for TLC
    LastHigh   \* bound: the counter stops in front of <<LastHigh + 1, 0>>

ASSUME CounterAssumption == Word \in Nat \ {0} /\ LastHigh \in Nat

VARIABLES
    high,      \* the word at CLINT_MTIME + 4, or mcycleh
    low        \* the word at CLINT_MTIME, or mcycle

Highs  == 0..LastHigh
Lows   == 0..(Word - 1)
Times  == Highs \X Lows

Now == <<high, low>>

(***************************************************************************)
(* a is no later than b.                                                   *)
(***************************************************************************)
NoLater(a, b) == a[1] < b[1] \/ (a[1] = b[1] /\ a[2] <= b[2])

CounterInit == high \in Highs /\ low \in Lows

Increment ==
    /\ low < Word - 1
    /\ low' = low + 1
    /\ high' = high

Carry ==
    /\ low = Word - 1
    /\ high < LastHigh
    /\ low' = 0
    /\ high' = high + 1

Tick == Increment \/ Carry
=============================================================================
