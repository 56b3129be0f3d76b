------------------------------- MODULE Mcopy -------------------------------
(***************************************************************************)
(* testMCOPYGasComparison of ETH/eip5656_mcopy/contract.sol: a byte array  *)
(* is copied by MCOPY and by a loop over words, as the other tests do with *)
(* MCOPY alone.  Memory is byte-addressed and laid out as Solidity         *)
(* allocates it: the data, the two results, each rounded up to whole       *)
(* words, and one word of somebody else.                                   *)
(***************************************************************************)
EXTENDS Integers

CONSTANTS WordLen, \* bytes of a word (0x20)
          Bytes,   \* values of a byte; 0 is one
          MaxLen   \* bound: bytes of the data

McopyAssumption ==
  /\ WordLen \in Nat \ {0}
  /\ 0 \in Bytes /\ Bytes \subseteq Nat
  /\ MaxLen \in Nat

VARIABLES memory, length,
          i,    \* the loop's offset
          phase \* the next step of testMCOPYGasComparison

vars == <<memory, length, i, phase>>

Rounded(n) == ((n + WordLen - 1) \div WordLen) * WordLen
data == 0
mcopyResult == Rounded(length)
manualResult == 2 * Rounded(length)
End == 3 * Rounded(length) + WordLen

Word(m, at) == [k \in 0 .. WordLen - 1 |-> m[at + k]]
mstore(m, at, word) ==
  [a \in DOMAIN m |-> IF a \in at .. at + WordLen - 1 THEN word[a - at] ELSE m[a]]
(* All of the source is read before the destination is written. *)
mcopy(m, to, from, n) ==
  [a \in DOMAIN m |-> IF a \in to .. to + n - 1 THEN m[from + a - to] ELSE m[a]]

TypeOK ==
  /\ length \in 0 .. MaxLen
  /\ memory \in [0 .. End - 1 -> Bytes]
  /\ i \in 0 .. Rounded(length)
  /\ phase \in {"mcopy", "loop", "remaining", "stopped"}

(* The decoder pads the data with zeros, new bytes() clears the results. *)
Init ==
  /\ length \in 0 .. MaxLen
  /\ \E bytes \in [0 .. length - 1 -> Bytes], rest \in Bytes :
       memory = [a \in 0 .. End - 1 |->
                   IF a < length THEN bytes[a] ELSE IF a >= End - WordLen THEN rest ELSE 0]
  /\ i = 0
  /\ phase = "mcopy"

-----------------------------------------------------------------------------
CopyAtOnce ==
  /\ phase = "mcopy"
  /\ memory' = mcopy(memory, mcopyResult, data, length)
  /\ phase' = "loop"
  /\ UNCHANGED <<length, i>>

(* Mutant: one word too many. *)
InLoopInclusive(offset) == offset <= length

(* Mutant: stops before the last word. *)
InLoopShort(offset) == offset + WordLen < length

InLoop(offset) == offset < length

CopyWord ==
  /\ phase = "loop"
  /\ InLoop(i)
  /\ memory' = mstore(memory, manualResult + i, Word(memory, data + i))
  /\ i' = i + WordLen
  /\ UNCHANGED <<length, phase>>

LoopOver ==
  /\ phase = "loop"
  /\ ~InLoop(i)
  /\ phase' = "remaining"
  /\ UNCHANGED <<memory, length, i>>

(* The last word is written again when it is not full. *)
CopyRemaining ==
  /\ phase = "remaining"
  /\ LET remaining == length % WordLen
         at == length - remaining IN
     memory' = IF remaining = 0 THEN memory
               ELSE mstore(memory, manualResult + at, Word(memory, data + at))
  /\ phase' = "stopped"
  /\ UNCHANGED <<length, i>>

Stopped == phase = "stopped" /\ UNCHANGED vars

Next == CopyAtOnce \/ CopyWord \/ LoopOver \/ CopyRemaining \/ Stopped

Spec == Init /\ [][Next]_vars

-----------------------------------------------------------------------------
(* When the loop and its last step are over, both results hold the data, for
   every length and not only the multiples of a word the suite measures; and the
   padding and the word after them are what they were, although the loop copies
   whole words of a source that may end within one. *)
ManualAsMcopy ==
  phase = "stopped" =>
    \E rest \in Bytes :
      memory = [a \in 0 .. End - 1 |->
                  IF a >= End - WordLen THEN rest
                  ELSE IF a % mcopyResult < length THEN memory[a % mcopyResult] ELSE 0]
=============================================================================
