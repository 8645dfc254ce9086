------------------------------- MODULE Allocator -------------------------------
(***************************************************************************)
(* What the heaps promise a program: a buffer is a stretch of free cells,  *)
(* as long as it was asked to be and aligned as it was asked to be, which  *)
(* is nobody else's until the program frees it.  Without memory for their  *)
(* own bookkeeping the heaps may fail to keep track of free cells: of      *)
(* those that a buffer had, or of a stretch they were about to hand out.   *)
(***************************************************************************)
EXTENDS Integers

CONSTANTS Sizes, Alignments

VARIABLES free,     \* the cells that can be handed out
          taken,    \* buffer in use -> the cells that went with it
          aligned   \* buffer in use -> the alignment it was asked to have

vars == <<free, taken, aligned>>

Init == DOMAIN taken = {}

(* first and last cell of each stretch of free cells *)
Stretches == {s \in free \X free : s[1] <= s[2] /\ s[1] .. s[2] \subseteq free}

Allocate(size, align) ==
  \E s \in Stretches :
    LET b == [base |-> s[1], size |-> size]
    IN /\ s[1] % align = 0
       /\ s[1] + size <= s[2] + 1
       /\ free' = free \ (s[1] .. s[2])
       /\ taken' = [c \in DOMAIN taken \cup {b} |-> IF c = b THEN s[1] .. s[2] ELSE taken[c]]
       /\ aligned' = [c \in DOMAIN taken' |-> IF c = b THEN align ELSE aligned[c]]

Free(b) ==
  /\ taken' = [c \in DOMAIN taken \ {b} |-> taken[c]]
  /\ aligned' = [c \in DOMAIN taken' |-> aligned[c]]
  /\ free' = free \cup taken[b] \/ free' = free

Mislay ==
  /\ \E s \in Stretches : free' = free \ (s[1] .. s[2])
  /\ UNCHANGED <<taken, aligned>>

Next == \/ \E size \in Sizes, align \in Alignments : Allocate(size, align)
        \/ \E b \in DOMAIN taken : Free(b)
        \/ Mislay

Spec == Init /\ [][Next]_vars
================================================================================
