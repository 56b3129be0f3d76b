----------------------------- MODULE ReorgChain -----------------------------
(***************************************************************************)
(* The parachain as the tools see it over RPC: a best chain of numbered    *)
(* blocks, a finalized height below which nothing changes, and a pool of   *)
(* the extrinsics one account has submitted.  The node is not part of the  *)
(* repository; this is what its clients assume of it.  Extrinsics of other *)
(* accounts are the opaque members of Others.                              *)
(***************************************************************************)
EXTENDS Integers, FiniteSets

CONSTANTS Attempts,      \* names of the extrinsics the account signs
          Others,        \* extrinsics of everybody else
          MaxBlockLen,   \* bound: extrinsics in a block
          MaxReorgs,     \* bound: best-chain switches in a behaviour
          MaxReorgDepth, \* bound: blocks one switch replaces
          PoolLife       \* bound: blocks a pooled extrinsic waits before it is
                         \* included or evicted

(* An extrinsic is told apart by the attempt that signed it (signatures are
   randomised, so two attempts never share a hash); born is the height at its
   submission and only serves PoolLife. *)
Tx == [id : Attempts, nonce : Nat, born : Nat]

ASSUME ReorgChainAssumption ==
  /\ Attempts \subseteq Nat
  /\ Others \cap Tx = {}
  /\ MaxBlockLen \in Nat
  /\ MaxReorgs \in Nat
  /\ MaxReorgDepth \in Nat
  /\ PoolLife \in Nat

VARIABLES height,     \* number of the best block; block 0 is the genesis
          chain,      \* chain[n] is the block at number n of the best chain
          finalized,  \* number of the finalized head
          pool,       \* submitted extrinsics not on the best chain
          reorgs      \* best-chain switches so far

chainVars == <<height, chain, finalized, pool, reorgs>>

BlocksOver(S) == UNION {[1 .. len -> S] : len \in 0 .. MaxBlockLen}
IsBlock(b) == \E len \in 0 .. MaxBlockLen : b \in [1 .. len -> Tx \cup Others]

(* The positions of a chain (blocks from..to) that hold the account's own
   extrinsics, and those extrinsics. *)
OwnAt(c, from, to) == {p \in (from .. to) \X (1 .. MaxBlockLen) :
                         p[2] \in DOMAIN c[p[1]] /\ c[p[1]][p[2]] \in Tx}
Own(c, from, to) == {c[p[1]][p[2]] : p \in OwnAt(c, from, to)}

Earlier(p, q) == p[1] < q[1] \/ (p[1] = q[1] /\ p[2] < q[2])

(* Extrinsics of one account execute in nonce order without gaps. *)
NonceOrdered(c, to) ==
  \A p \in OwnAt(c, 1, to) :
     c[p[1]][p[2]].nonce = Cardinality({q \in OwnAt(c, 1, to) : Earlier(q, p)})

(* The account nonce the best chain's state reports. *)
AccountNonce == Cardinality(OwnAt(chain, 1, height))

Position(b, t) == CHOOSE i \in DOMAIN b : b[i] = t
Holds(b, t) == \E i \in DOMAIN b : b[i] = t

ChainTypeOK ==
  /\ height \in Nat
  /\ chain = [n \in 1 .. height |-> chain[n]]
  /\ \A n \in 1 .. height : IsBlock(chain[n])
  /\ finalized \in 0 .. height
  /\ pool \in SUBSET Tx
  /\ reorgs \in 0 .. MaxReorgs

ChainInit ==
  /\ height = 0
  /\ chain = [n \in 1 .. 0 |-> <<>>]
  /\ finalized = 0
  /\ pool = {}
  /\ reorgs = 0

-----------------------------------------------------------------------------
(* The best chain becomes c of height h, its blocks from first on being new:
   they hold pooled or retracted extrinsics; what they leave over stays in the
   pool unless its nonce is used up or it is too old. *)
Adopt(c, h, first) ==
  LET avail == pool \cup Own(chain, first, height) IN
  /\ Own(c, first, h) \subseteq avail
  /\ NonceOrdered(c, h)
  /\ pool' = {t \in avail \ Own(c, first, h) :
                /\ t.nonce >= Cardinality(OwnAt(c, 1, h))
                /\ h < t.born + PoolLife}
  /\ height' = h
  /\ chain' = c

Produce ==
  /\ \E b \in BlocksOver(pool \cup Others) :
        Adopt([n \in 1 .. height + 1 |-> IF n <= height THEN chain[n] ELSE b],
              height + 1, height + 1)
  /\ UNCHANGED <<finalized, reorgs>>

(* The best chain switches to a fork of the same height that agrees with it up
   to block number fork; finalized blocks are never replaced. *)
Reorg ==
  /\ reorgs < MaxReorgs
  /\ \E fork \in finalized .. height - 1 :
       /\ height - fork <= MaxReorgDepth
       /\ \E suffix \in [fork + 1 .. height ->
                           BlocksOver(pool \cup Others \cup Own(chain, fork + 1, height))] :
            Adopt([n \in 1 .. height |-> IF n <= fork THEN chain[n] ELSE suffix[n]],
                  height, fork + 1)
  /\ reorgs' = reorgs + 1
  /\ UNCHANGED finalized

Finalize ==
  /\ \E n \in finalized + 1 .. height : finalized' = n
  /\ UNCHANGED <<height, chain, pool, reorgs>>

(* The pool forgets an extrinsic: limits, bans, a node restart. *)
Evict ==
  /\ \E t \in pool : pool' = pool \ {t}
  /\ UNCHANGED <<height, chain, finalized, reorgs>>

(* What the pool answers to author_submitExtrinsic: an outdated nonce is
   "Invalid Transaction", a second extrinsic of equal nonce "Priority is too
   low", one already pooled "Already Imported". *)
Accepts(t) == t.nonce >= AccountNonce /\ \A u \in pool : u.nonce # t.nonce

ChainStep == Produce \/ Reorg \/ Finalize \/ Evict
=============================================================================
