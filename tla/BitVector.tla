----------------------------- MODULE BitVector -----------------------------
(***************************************************************************)
(* bit_vector.h, bit_vector.cpp: bits packed in words.  A word is the set  *)
(* of its bits that are one, a vector its size and its words (_array), a   *)
(* file a sequence of words.  A size_t takes two words, the low one first. *)
(***************************************************************************)
EXTENDS Integers, Sequences

CONSTANTS
    BYTE,           \* bits of a byte
    WORD            \* kBitFactor: bits of a word

ASSUME BitVectorAssumption == BYTE \in Nat \ {0} /\ WORD \in {BYTE * n : n \in 1 .. 8}

WordBits == 0 .. WORD - 1

\* The word that holds a number: half[b] is what is left of it without its lowest
\* b bits.  The number that a word holds: number[k] is that of its highest k bits.
WordOf(n) ==
    LET half[b \in 0 .. WORD] == IF b = 0 THEN n ELSE half[b - 1] \div 2
    IN {b \in WordBits : half[b] % 2 = 1}
NumberOf(w) ==
    LET number[k \in 0 .. WORD] ==
            IF k = 0 THEN 0 ELSE 2 * number[k - 1] + IF WORD - k \in w THEN 1 ELSE 0
    IN number[WORD]

\* ReverseN() of a word: its bytes in the other order.
Reversed(w) == {WORD - BYTE - (b - (b % BYTE)) + (b % BYTE) : b \in w}

WordLength(size) == (size + WORD - 1) \div WORD

Filled(size, w) == [size |-> size, words |-> [k \in 1 .. WordLength(size) |-> w]]
NewBits(size) == Filled(size, {})

SetAllFalse(v) == Filled(v.size, {})
SetAllTrue(v) == Filled(v.size, WordBits)

\* Every index in range is looked for in the first word.
WordIndex(v, i) == IF i < v.size THEN 0 ELSE i \div WORD

\* Fault: the modulus is the bits of a byte.
BitMaskOfByte(i) == {i % BYTE}

BitMask(i) == {i % WORD}

SetBit(v, i) == [v EXCEPT !.words[WordIndex(v, i) + 1] = @ \cup BitMask(i)]
ResetBit(v, i) == [v EXCEPT !.words[WordIndex(v, i) + 1] = @ \ BitMask(i)]
At(v, i) == BitMask(i) \subseteq v.words[WordIndex(v, i) + 1]

\* The size is written as a size_t, and read as one word.
Serialize(v) == <<WordOf(v.size), {}>> \o v.words

\* Whether it succeeds, and the vector: not all of it if the file is too short.
DeSerialize(file, swap) ==
    IF file = <<>> THEN [ok |-> FALSE, v |-> NewBits(0)]
    ELSE LET Read(w) == IF swap THEN Reversed(w) ELSE w
             n == NumberOf(Read(file[1]))
             present == 1 + WordLength(n) <= Len(file)
         IN [ok |-> present,
             v |-> IF present
                   THEN [size |-> n, words |-> [k \in 1 .. WordLength(n) |-> Read(file[k + 1])]]
                   ELSE NewBits(n)]

-----------------------------------------------------------------------------
(***************************************************************************)
(* A vector of at most one word keeps in each bit what was last put there  *)
(* (told).  What Serialize() wrote is read back, with the right size; a    *)
(* file that has not even the words the reader asks for is refused; and    *)
(* turning a word's bytes round twice, or taking a number's bits, loses    *)
(* nothing.  Said of nothing: the bits of longer vectors, which are packed *)
(* in one word, and the words that are read back, which are not those      *)
(* written (Promises).                                                     *)
(***************************************************************************)
BitsKept(v, told) ==
    LET copy == DeSerialize(Serialize(v), FALSE)
    IN /\ v.size <= WORD => \A i \in DOMAIN told : At(v, i) = told[i]
       /\ copy.ok /\ copy.v.size = v.size
       /\ v.size > WORD => ~DeSerialize(SubSeq(Serialize(v), 1, 2), FALSE).ok
       /\ \A w \in SUBSET WordBits : Reversed(Reversed(w)) = w /\ WordOf(NumberOf(w)) = w
=============================================================================
