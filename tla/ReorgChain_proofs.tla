-------------------------- MODULE ReorgChain_proofs --------------------------
(***************************************************************************)
(* What every step of the chain preserves: its types, and the blocks its   *)
(* clients may rely on.                                                    *)
(***************************************************************************)
EXTENDS ReorgChain, FiniteSetTheorems, TLAPS

(* The positions of the account's extrinsics can be counted. *)
LEMMA OwnAtCount ==
  ASSUME NEW c, NEW from \in Int, NEW to \in Int
  PROVE  /\ IsFiniteSet(OwnAt(c, from, to))
         /\ Cardinality(OwnAt(c, from, to)) \in Nat
<1>1. IsFiniteSet(from .. to) /\ IsFiniteSet(1 .. MaxBlockLen)
  BY FS_Interval, ReorgChainAssumption DEF ReorgChainAssumption
<1>2. IsFiniteSet((from .. to) \X (1 .. MaxBlockLen))
  BY <1>1, FS_Product
<1>3. IsFiniteSet(OwnAt(c, from, to))
  BY <1>2, FS_Subset, SMT DEF OwnAt
<1> QED
  BY <1>3, FS_CardinalityType

(* What Adopt leaves in the pool are extrinsics of the account. *)
LEMMA AdoptPool ==
  ASSUME NEW c, NEW h, NEW first, pool \subseteq Tx, Adopt(c, h, first)
  PROVE  pool' \in SUBSET Tx /\ height' = h /\ chain' = c
<1>1. Own(chain, first, height) \subseteq Tx
  BY DEF Own, OwnAt
<1> QED
  BY <1>1 DEF Adopt

(* The guarantees of a chain step: blocks up to the finalized one stay what
   they are, and without a reorg all blocks do; heights and the count of reorgs
   never go back. *)
Advance ==
  /\ height' >= height
  /\ finalized' >= finalized
  /\ reorgs' >= reorgs
  /\ \A n \in 1 .. finalized : chain'[n] = chain[n]
  /\ reorgs' = reorgs => \A n \in 1 .. height : chain'[n] = chain[n]

(* A new block is put on top of the others. *)
LEMMA ProduceAdvances ==
  ASSUME ChainTypeOK, Produce
  PROVE  ChainTypeOK' /\ Advance
<1> DEFINE Longer(b) == [n \in 1 .. height + 1 |-> IF n <= height THEN chain[n] ELSE b]
<1>1. PICK b \in BlocksOver(pool \cup Others) : Adopt(Longer(b), height + 1, height + 1)
  BY DEF Produce
<1>2. pool' \in SUBSET Tx /\ height' = height + 1 /\ chain' = Longer(b)
  BY <1>1, AdoptPool DEF ChainTypeOK
<1>3. IsBlock(b)
  BY DEF BlocksOver, IsBlock, ChainTypeOK
<1>4. finalized' = finalized /\ reorgs' = reorgs
  BY DEF Produce
<1>5. \A n \in 1 .. height : chain'[n] = chain[n]
  BY <1>2 DEF ChainTypeOK
<1>6. chain'[height + 1] = b
  BY <1>2 DEF ChainTypeOK
<1>7. \A n \in 1 .. height' : IsBlock(chain'[n])
  <2> TAKE n \in 1 .. height'
  <2>1. CASE n \in 1 .. height
    BY <1>5, <2>1 DEF ChainTypeOK
  <2>2. CASE n = height + 1
    BY <1>3, <1>6, <2>2
  <2> QED
    BY <2>1, <2>2, <1>2 DEF ChainTypeOK
<1>8. ChainTypeOK'
  <2>1. chain' = [n \in 1 .. height' |-> chain'[n]]
    BY <1>2
  <2>2. height' \in Nat /\ finalized' \in 0 .. height' /\ reorgs' \in 0 .. MaxReorgs
    BY <1>2, <1>4 DEF ChainTypeOK
  <2>3. (\A n \in 1 .. height : IsBlock(chain[n]))'
    BY <1>7 DEF IsBlock
  <2> QED
    BY <1>2, <2>1, <2>2, <2>3 DEF ChainTypeOK
<1> QED
  BY <1>2, <1>4, <1>5, <1>8 DEF Advance, ChainTypeOK

(* A reorg keeps the finalized blocks. *)
LEMMA ReorgAdvances ==
  ASSUME ChainTypeOK, Reorg
  PROVE  ChainTypeOK' /\ Advance
<1> DEFINE Switched(fork, suffix) ==
             [n \in 1 .. height |-> IF n <= fork THEN chain[n] ELSE suffix[n]]
<1> DEFINE Fresh(fork) == BlocksOver(pool \cup Others \cup Own(chain, fork + 1, height))
<1>1. PICK fork \in finalized .. height - 1 :
        \E suffix \in [fork + 1 .. height -> Fresh(fork)] :
           Adopt(Switched(fork, suffix), height, fork + 1)
  BY DEF Reorg
<1>2. PICK suffix \in [fork + 1 .. height -> Fresh(fork)] :
        Adopt(Switched(fork, suffix), height, fork + 1)
  BY <1>1
<1> HIDE DEF Fresh
<1>3. pool' \in SUBSET Tx /\ height' = height /\ chain' = Switched(fork, suffix)
  BY <1>2, AdoptPool DEF ChainTypeOK
<1>4. \A b \in Fresh(fork) : IsBlock(b)
  <2>1. pool \cup Others \cup Own(chain, fork + 1, height) \subseteq Tx \cup Others
    BY DEF Own, OwnAt, ChainTypeOK
  <2> QED
    BY <2>1 DEF Fresh, BlocksOver, IsBlock
<1>5. finalized' = finalized /\ reorgs' = reorgs + 1 /\ reorgs < MaxReorgs
  BY DEF Reorg
<1>6. \A n \in 1 .. finalized : chain'[n] = chain[n]
  BY <1>3 DEF ChainTypeOK
<1>7. \A n \in 1 .. height : IsBlock(chain'[n])
  <2> TAKE n \in 1 .. height
  <2>1. CASE n <= fork
    BY <1>3, <2>1 DEF ChainTypeOK
  <2>2. CASE n > fork
    <3>1. chain'[n] = suffix[n] /\ n \in fork + 1 .. height
      BY <1>3, <2>2 DEF ChainTypeOK
    <3> QED
      BY <3>1, <1>2, <1>4
  <2> QED
    BY <2>1, <2>2 DEF ChainTypeOK
<1>8. ChainTypeOK'
  <2>1. chain' = [n \in 1 .. height' |-> chain'[n]]
    BY <1>3
  <2>2. height' \in Nat /\ finalized' \in 0 .. height' /\ reorgs' \in 0 .. MaxReorgs
    BY <1>3, <1>5, ReorgChainAssumption DEF ChainTypeOK, ReorgChainAssumption
  <2>3. (\A n \in 1 .. height : IsBlock(chain[n]))'
    BY <1>3, <1>7 DEF IsBlock
  <2> QED
    BY <1>3, <2>1, <2>2, <2>3 DEF ChainTypeOK
<1> QED
  BY <1>3, <1>5, <1>6, <1>8 DEF Advance, ChainTypeOK

(* Finalization changes no block. *)
LEMMA FinalizeAdvances ==
  ASSUME ChainTypeOK, Finalize
  PROVE  ChainTypeOK' /\ Advance
BY DEF ChainTypeOK, Finalize, Advance, IsBlock

(* An eviction changes the pool alone. *)
LEMMA EvictAdvances ==
  ASSUME ChainTypeOK, Evict
  PROVE  ChainTypeOK' /\ Advance
BY DEF ChainTypeOK, Evict, Advance, IsBlock

(* Whatever the chain does next, its clients keep the finalized blocks, and all
   blocks unless it is a reorg. *)
LEMMA ChainStepAdvances ==
  ASSUME ChainTypeOK, ChainStep
  PROVE  ChainTypeOK' /\ Advance
BY ProduceAdvances, ReorgAdvances, FinalizeAdvances, EvictAdvances DEF ChainStep

(* The chain starts empty and well typed. *)
LEMMA ChainInitTypeOK ==
  ASSUME ChainInit
  PROVE  ChainTypeOK
<1>1. chain = [n \in 1 .. height |-> chain[n]] /\ 1 .. height = {}
  BY DEF ChainInit
<1> QED
  BY <1>1, ReorgChainAssumption DEF ChainInit, ChainTypeOK, ReorgChainAssumption

(* Two positions of nonce 0 in nonce order are the same position. *)
LEMMA SamePosition ==
  ASSUME NEW c, NEW to \in Nat, NonceOrdered(c, to),
         \A p \in OwnAt(c, 1, to) : c[p[1]][p[2]].nonce = 0,
         NEW p \in OwnAt(c, 1, to), NEW q \in OwnAt(c, 1, to)
  PROVE  p = q
<1> DEFINE Places == OwnAt(c, 1, to)
<1>1. IsFiniteSet(Places)
  BY OwnAtCount
<1>2. \A r \in Places : r[1] \in Int /\ r[2] \in Int /\ r = <<r[1], r[2]>>
  BY DEF OwnAt
<1>3. ASSUME NEW r \in Places, NEW s \in Places, Earlier(r, s) PROVE FALSE
  <2> DEFINE B == {u \in Places : Earlier(u, s)}
  <2>1. Cardinality(B) = 0
    BY DEF NonceOrdered
  <2>2. IsFiniteSet(B)
    BY <1>1, FS_Subset
  <2>3. B = {}
    BY <2>1, <2>2, FS_EmptySet
  <2> QED
    BY <1>3, <2>3
<1>4. ~Earlier(p, q) /\ ~Earlier(q, p)
  BY <1>3
<1>5. p[1] = q[1] /\ p[2] = q[2]
  BY <1>2, <1>4 DEF Earlier
<1> QED
  BY <1>2, <1>5

(* On a chain that keeps the order of nonces, the transactions of the sender that all
   have nonce 0 are at most one. *)
LEMMA OnePosition ==
  ASSUME NEW c, NEW to \in Nat, NonceOrdered(c, to),
         \A p \in OwnAt(c, 1, to) : c[p[1]][p[2]].nonce = 0
  PROVE  Cardinality(OwnAt(c, 1, to)) <= 1
<1>1. CASE OwnAt(c, 1, to) = {}
  <2>1. Cardinality(OwnAt(c, 1, to)) = 0
    BY <1>1, FS_EmptySet
  <2> QED
    BY <2>1
<1>2. CASE OwnAt(c, 1, to) # {}
  <2>1. PICK p \in OwnAt(c, 1, to) : TRUE
    BY <1>2
  <2>2. OwnAt(c, 1, to) = {p}
    BY <2>1, SamePosition
  <2>3. Cardinality(OwnAt(c, 1, to)) = 1
    BY <2>2, FS_Singleton
  <2> QED
    BY <2>3
<1> QED
  BY <1>1, <1>2

(* A new block takes the account's extrinsics from the pool, which does not keep
   what the block has. *)
LEMMA ProduceAdds ==
  ASSUME ChainTypeOK, Produce
  PROVE  /\ height' = height + 1 /\ finalized' = finalized /\ reorgs' = reorgs
         /\ \A n \in 1 .. height : chain'[n] = chain[n]
         /\ \A t \in Tx : Holds(chain'[height + 1], t) => t \in pool
         /\ pool' \subseteq pool
         /\ \A t \in pool' : ~Holds(chain'[height + 1], t)
<1> DEFINE Longer(b) == [n \in 1 .. height + 1 |-> IF n <= height THEN chain[n] ELSE b]
<1>1. PICK b \in BlocksOver(pool \cup Others) : Adopt(Longer(b), height + 1, height + 1)
  BY DEF Produce
<1>2. height \in Nat /\ pool \subseteq Tx
  BY DEF ChainTypeOK
<1>3. Own(chain, height + 1, height) = {}
  BY <1>2 DEF Own, OwnAt
<1>4. \A n \in 1 .. height : Longer(b)[n] = chain[n]
  BY <1>2
<1>5. Longer(b)[height + 1] = b
  BY <1>2
<1>6. \A t \in Tx : Holds(b, t) => t \in pool
  BY ReorgChainAssumption DEF BlocksOver, Holds, ReorgChainAssumption
<1> HIDE DEF Longer
<1>7. ASSUME NEW t \in Tx, Holds(b, t)
      PROVE  t \in Own(Longer(b), height + 1, height + 1)
  <2>1. PICK i \in DOMAIN b : b[i] = t
    BY <1>7 DEF Holds
  <2>2. i \in 1 .. MaxBlockLen
    BY <2>1, ReorgChainAssumption DEF BlocksOver, ReorgChainAssumption
  <2>3. <<height + 1, i>> \in OwnAt(Longer(b), height + 1, height + 1)
    BY <1>2, <1>5, <2>1, <2>2 DEF OwnAt
  <2> QED
    BY <1>5, <2>1, <2>3 DEF Own
<1>8. finalized' = finalized /\ reorgs' = reorgs
  BY DEF Produce
<1>9. pool' \subseteq pool /\ \A t \in pool' : t \notin Own(Longer(b), height + 1, height + 1)
  BY <1>1, <1>3 DEF Adopt
<1>10. chain' = Longer(b) /\ height' = height + 1
  BY <1>1 DEF Adopt
<1> QED
  BY <1>2, <1>4, <1>5, <1>6, <1>7, <1>8, <1>9, <1>10
=============================================================================
