-------------------------- MODULE EvmSubmit_proofs --------------------------
(***************************************************************************)
(* An Ethereum transaction is executed at most once, however often the     *)
(* client signs and sends it again: all its signed forms share a nonce.    *)
(* The call implements the one-shot call of OneShot.                       *)
(***************************************************************************)
EXTENDS EvmSubmit, ReorgChain_proofs

(* Everything the account has signed carries the nonce 0 of the call. *)
OneNonce ==
  /\ tx.nonce = 0
  /\ \A t \in pool : t.nonce = 0
  /\ \A p \in OwnAt(chain, 1, height) : chain[p[1]][p[2]].nonce = 0

NonceInv == TypeOK /\ OneNonce /\ NonceOrdered(chain, height)

-----------------------------------------------------------------------------
(* A chain the node adopts takes its new blocks from the pool and from the
   blocks it replaces. *)
LEMMA AdoptOneNonce ==
  ASSUME NEW c, NEW h \in Nat, NEW first \in Nat \ {0}, height \in Nat,
         Adopt(c, h, first), OneNonce,
         \A n \in 1 .. first - 1 : n <= height /\ c[n] = chain[n],
         UNCHANGED tx
  PROVE  OneNonce' /\ NonceOrdered(chain', height')
<1>1. chain' = c /\ height' = h /\ NonceOrdered(c, h)
        /\ Own(c, first, h) \subseteq pool \cup Own(chain, first, height)
        /\ pool' \subseteq pool \cup Own(chain, first, height)
  BY DEF Adopt
<1>2. \A t \in Own(chain, first, height) : t.nonce = 0
  BY DEF Own, OwnAt, OneNonce
<1>3. \A t \in pool' : t.nonce = 0
  BY <1>1, <1>2 DEF OneNonce
<1>4. ASSUME NEW p \in OwnAt(c, 1, h) PROVE c[p[1]][p[2]].nonce = 0
  <2>1. p[1] \in 1 .. h /\ p[2] \in 1 .. MaxBlockLen
    BY DEF OwnAt
  <2>2. CASE p[1] < first
    <3>1. p \in OwnAt(chain, 1, height) /\ c[p[1]] = chain[p[1]]
      BY <2>1, <2>2 DEF OwnAt
    <3> QED
      BY <3>1 DEF OneNonce
  <2>3. CASE p[1] >= first
    <3>1. p \in OwnAt(c, first, h)
      BY <2>1, <2>3 DEF OwnAt
    <3>2. c[p[1]][p[2]] \in Own(c, first, h)
      BY <3>1 DEF Own
    <3> QED
      BY <1>1, <1>2, <3>2 DEF OneNonce
  <2> QED
    BY <2>1, <2>2, <2>3
<1> QED
  BY <1>1, <1>3, <1>4 DEF OneNonce

-----------------------------------------------------------------------------
(* What the wait has seen, from one attempt's wait to its lookup. *)
SeenInv ==
  /\ pc = "await_final" => seen # 0
  /\ pc = "lookup" => seen <= finalized
  /\ pc \in {"await_final", "lookup"} /\ reorgs = 0 /\ seen # 0 =>
       Holds(chain[seen], tx)
  /\ pc # "stopped" => result.kind = "none"

IndInv == NonceInv /\ SeenInv /\ ReceiptTrue

(* The invariant holds before the call. *)
LEMMA InitIndInv == ASSUME Init PROVE IndInv
<1>1. ChainTypeOK
  <2>1. tx \in Tx
    BY EvmSubmitAssumption, OwnAtCount DEF Init, Tx, AccountNonce, EvmSubmitAssumption
  <2>2. chain = [n \in 1 .. height |-> chain[n]] /\ 1 .. height = {}
    BY DEF Init
  <2> QED
    BY <2>1, <2>2, ReorgChainAssumption DEF Init, ChainTypeOK, ReorgChainAssumption
<1>2. OwnAt(chain, 1, height) = {}
  BY DEF Init, OwnAt
<1>3. tx = [id |-> 1, nonce |-> 0, born |-> 0]
  BY <1>2, FS_EmptySet DEF Init, AccountNonce
<1>4. TypeOK
  BY <1>1, <1>3, EvmSubmitAssumption DEF Init, TypeOK, Tx, Result, EvmSubmitAssumption
<1>5. OneNonce /\ NonceOrdered(chain, height)
  BY <1>2, <1>3 DEF Init, OneNonce, NonceOrdered
<1>6. SeenInv /\ ReceiptTrue
  BY DEF Init, SeenInv, ReceiptTrue
<1> QED
  BY <1>4, <1>5, <1>6 DEF IndInv, NonceInv

(* The call changes the chain's state only by adding tx to the pool. *)
LEMMA CallNonceInv ==
  ASSUME NonceInv, Call
  PROVE  NonceInv'
<1> USE DEF NonceInv
<1>1. Attempts = 1 .. Sends /\ Lookups \in Nat /\ Sends \in Nat
  BY EvmSubmitAssumption DEF EvmSubmitAssumption
<1>2. UNCHANGED <<height, chain, finalized, reorgs>> /\ pool' \subseteq pool \cup {tx}
        /\ tx' \in Tx /\ tx'.nonce = tx.nonce
  <2>1. CASE Resign
    <3>1. tx' = [tx EXCEPT !.id = attempt', !.born = height] /\ attempt' \in Attempts
      BY <1>1, <2>1 DEF Resign, TypeOK
    <3>2. tx \in Tx /\ height \in Nat
      BY DEF TypeOK, ChainTypeOK
    <3>3. tx' \in Tx /\ tx'.nonce = tx.nonce
      BY <3>1, <3>2 DEF Tx
    <3> QED
      BY <2>1, <3>3 DEF Resign, chainVars
  <2>2. CASE Call /\ ~Resign
    BY <2>2 DEF Call, Send, SendKnown, SendRefused, ReceiptSeen, ReceiptTimeout,
       FinalReached, LookupHit, LookupMiss, GiveUp, TypeOK, chainVars
  <2> QED
    BY <2>1, <2>2
<1>3. ChainTypeOK'
  BY <1>2 DEF TypeOK, ChainTypeOK, IsBlock
<1>4. OneNonce' /\ NonceOrdered(chain, height)'
  BY <1>2 DEF OneNonce, OwnAt, NonceOrdered
<1>5. TypeOK'
  <2>1. CASE Send \/ SendKnown \/ FinalReached
    BY <1>2, <1>3, <2>1 DEF Send, SendKnown, FinalReached, TypeOK
  <2>2. CASE SendRefused \/ GiveUp
    BY <1>2, <1>3, <2>2 DEF SendRefused, GiveUp, Raise, TypeOK, Result
  <2>3. CASE ReceiptSeen \/ ReceiptTimeout
    BY <1>2, <1>3, <2>3 DEF ReceiptSeen, ReceiptTimeout, TypeOK, ChainTypeOK
  <2>4. CASE LookupHit
    BY <1>2, <1>3, <2>4 DEF LookupHit, TypeOK, ChainTypeOK, Result
  <2>5. CASE LookupMiss
    BY <1>1, <1>2, <1>3, <2>5 DEF LookupMiss, TypeOK
  <2>6. CASE Resign
    BY <1>1, <1>2, <1>3, <2>6 DEF Resign, TypeOK
  <2> QED
    BY <2>1, <2>2, <2>3, <2>4, <2>5, <2>6 DEF Call
<1> QED
  BY <1>4, <1>5

(* Without reorgs the lookup finds the transaction where the wait has seen it,
   since it is executed only once. *)
LEMMA LookupFindsSeen ==
  ASSUME NonceInv, SeenInv, pc = "lookup", reorgs = 0, seen # 0,
         NEW n \in 1 .. height, Holds(chain[n], tx)
  PROVE  n = seen
<1> USE DEF NonceInv
<1>1. height \in Nat /\ tx \in Tx /\ seen \in 1 .. height
  BY DEF TypeOK, ChainTypeOK
<1>2. Holds(chain[seen], tx)
  BY DEF SeenInv
<1>3. ASSUME NEW m \in 1 .. height, Holds(chain[m], tx)
      PROVE  \E i : <<m, i>> \in OwnAt(chain, 1, height)
  <2>1. PICK len \in 0 .. MaxBlockLen : chain[m] \in [1 .. len -> Tx \cup Others]
    BY DEF TypeOK, ChainTypeOK, IsBlock
  <2>2. PICK i \in 1 .. len : chain[m][i] = tx
    BY <1>3, <2>1 DEF Holds
  <2>3. i \in 1 .. MaxBlockLen /\ i \in DOMAIN chain[m]
    BY <2>1, ReorgChainAssumption DEF ReorgChainAssumption
  <2> QED
    BY <1>1, <2>2, <2>3 DEF OwnAt
<1>4. PICK i, j : <<n, i>> \in OwnAt(chain, 1, height) /\ <<seen, j>> \in OwnAt(chain, 1, height)
  BY <1>1, <1>2, <1>3
<1>5. <<n, i>> = <<seen, j>>
  BY <1>1, <1>4, SamePosition DEF OneNonce
<1> QED
  BY <1>5

(* What the call has seen, and the receipt it holds, stay true while the call runs. *)
LEMMA CallSeenInv ==
  ASSUME IndInv, Call
  PROVE  SeenInv' /\ ReceiptTrue'
<1> USE DEF IndInv
<1>1. height \in Nat /\ finalized \in 0 .. height /\ seen \in 0 .. height
  BY DEF NonceInv, TypeOK, ChainTypeOK
<1>2. CASE Send \/ SendKnown \/ Resign
  BY <1>2 DEF Send, SendKnown, Resign, SeenInv, ReceiptTrue
<1>3. CASE SendRefused \/ GiveUp
  BY <1>3 DEF SendRefused, GiveUp, Raise, SeenInv, ReceiptTrue
<1>4. CASE ReceiptSeen
  BY <1>1, <1>4 DEF ReceiptSeen, SeenInv, ReceiptTrue, chainVars, Holds
<1>5. CASE ReceiptTimeout
  BY <1>1, <1>5 DEF ReceiptTimeout, SeenInv, ReceiptTrue, chainVars
<1>6. CASE FinalReached
  BY <1>1, <1>6 DEF FinalReached, SeenInv, ReceiptTrue, chainVars, Holds
<1>7. CASE LookupHit
  <2>1. PICK n \in 1 .. height : Holds(chain[n], tx) /\ result' = [kind |-> "receipt", num |-> n]
    BY <1>7 DEF LookupHit
  <2>2. ASSUME reorgs = 0, seen # 0 PROVE n <= finalized
    <3>1. n = seen
      BY <1>7, <2>1, <2>2, LookupFindsSeen DEF LookupHit
    <3> QED
      BY <1>7, <3>1 DEF LookupHit, SeenInv
  <2> QED
    BY <1>7, <2>1, <2>2 DEF LookupHit, SeenInv, ReceiptTrue, chainVars, Holds
<1>8. CASE LookupMiss
  BY <1>8 DEF LookupMiss, SeenInv, ReceiptTrue, chainVars, Holds
<1> QED
  BY <1>2, <1>3, <1>4, <1>5, <1>6, <1>7, <1>8 DEF Call

(* Every step of the chain keeps the invariant. *)
LEMMA EnvIndInv ==
  ASSUME IndInv, Env
  PROVE  IndInv'
<1> USE DEF IndInv, NonceInv
<1>1. UNCHANGED clientVars
  BY DEF Env
<1>2. ChainTypeOK' /\ Advance
  BY ChainStepAdvances DEF Env, ProduceBounded, ChainStep, TypeOK
<1>3. height \in Nat /\ finalized \in 0 .. height /\ seen \in 0 .. height /\ reorgs \in Nat
  BY ReorgChainAssumption DEF TypeOK, ChainTypeOK, ReorgChainAssumption
<1>4. height' \in Nat /\ finalized' \in 0 .. height' /\ reorgs' \in Nat
  BY <1>2, ReorgChainAssumption DEF ChainTypeOK, ReorgChainAssumption
<1>5. TypeOK'
  BY <1>1, <1>2, <1>3, <1>4 DEF TypeOK, clientVars, Advance
<1>6. OneNonce' /\ NonceOrdered(chain', height')
  <2>1. CASE ProduceBounded
    <3> DEFINE Longer(b) == [n \in 1 .. height + 1 |-> IF n <= height THEN chain[n] ELSE b]
    <3>1. PICK b \in BlocksOver(pool \cup Others) :
            Adopt(Longer(b), height + 1, height + 1)
      BY <2>1 DEF ProduceBounded, Produce
    <3>2. \A n \in 1 .. (height + 1) - 1 : n <= height /\ Longer(b)[n] = chain[n]
      BY <1>3
    <3> HIDE DEF Longer
    <3> QED
      BY <1>1, <1>3, <3>1, <3>2, AdoptOneNonce DEF clientVars
  <2>2. CASE Reorg
    <3> DEFINE Switched(fork, suffix) ==
                 [n \in 1 .. height |-> IF n <= fork THEN chain[n] ELSE suffix[n]]
    <3>1. PICK fork \in finalized .. height - 1 :
            \E suffix : Adopt(Switched(fork, suffix), height, fork + 1)
      BY <2>2 DEF Reorg
    <3>2. PICK suffix : Adopt(Switched(fork, suffix), height, fork + 1)
      BY <3>1
    <3>3. \A n \in 1 .. (fork + 1) - 1 : n <= height /\ Switched(fork, suffix)[n] = chain[n]
      BY <1>3
    <3>4. fork + 1 \in Nat \ {0}
      BY <1>3
    <3> HIDE DEF Switched
    <3> QED
      BY <1>1, <1>3, <3>2, <3>3, <3>4, AdoptOneNonce DEF clientVars
  <2>3. CASE Finalize \/ Evict
    BY <1>1, <2>3 DEF Finalize, Evict, clientVars, OneNonce, NonceOrdered, OwnAt
  <2> QED
    BY <2>1, <2>2, <2>3 DEF Env
<1>7. ASSUME reorgs' = 0, NEW n \in 1 .. height PROVE reorgs = 0 /\ chain'[n] = chain[n]
  BY <1>2, <1>3, <1>4, <1>7 DEF Advance
<1>8. SeenInv'
  BY <1>1, <1>2, <1>3, <1>4, <1>7 DEF SeenInv, clientVars, Advance, Holds
<1>9. ReceiptTrue'
  BY <1>1, <1>2, <1>3, <1>4, <1>7 DEF ReceiptTrue, clientVars, Advance, Holds
<1> QED
  BY <1>5, <1>6, <1>8, <1>9 DEF NonceOrdered

(* Every state of a call satisfies the inductive invariant. *)
THEOREM Inductive == Spec => []IndInv
<1>1. Init => IndInv
  BY InitIndInv
<1>2. IndInv /\ [Next]_vars => IndInv'
  <2> SUFFICES ASSUME IndInv, [Next]_vars PROVE IndInv'
    OBVIOUS
  <2>1. CASE Call
    BY <2>1, CallNonceInv, CallSeenInv DEF IndInv
  <2>2. CASE Env
    BY <2>2, EnvIndInv
  <2>3. CASE UNCHANGED vars
    <3>1. UNCHANGED <<height, chain, finalized, pool, reorgs, pc, attempt, tx, seen,
                      misses, result>>
      BY <2>3 DEF vars, chainVars, clientVars
    <3>2. TypeOK'
      BY <3>1 DEF IndInv, NonceInv, TypeOK, ChainTypeOK, IsBlock
    <3>3. OneNonce' /\ NonceOrdered(chain, height)'
      BY <3>1 DEF IndInv, NonceInv, OneNonce, NonceOrdered, OwnAt
    <3>4. SeenInv' /\ ReceiptTrue'
      BY <3>1 DEF IndInv, SeenInv, ReceiptTrue, Holds
    <3> QED
      BY <3>2, <3>3, <3>4 DEF IndInv, NonceInv
  <2> QED
    BY <2>1, <2>2, <2>3 DEF Next, Stopped
<1> QED
  BY <1>1, <1>2, PTL DEF Spec

(* The variables keep their types. *)
THEOREM TypeCorrect == Spec => []TypeOK
<1>1. IndInv => TypeOK
  BY DEF IndInv, NonceInv
<1> QED
  BY <1>1, Inductive, PTL

(* The transaction is executed at most once, for every number of sends, pool
   behaviour and reorg. *)
THEOREM AtMostOnce == Spec => []ExecutedAtMostOnce
<1>1. IndInv => ExecutedAtMostOnce
  BY OnePosition DEF IndInv, NonceInv, OneNonce, ExecutedAtMostOnce, TypeOK, ChainTypeOK
<1> QED
  BY <1>1, Inductive, PTL

(* Without reorgs a returned receipt is of a block that holds the transaction,
   and of a finalized one unless the wait timed out. *)
THEOREM ReceiptIsTrue == Spec => []ReceiptTrue
<1>1. IndInv => ReceiptTrue
  BY DEF IndInv
<1> QED
  BY <1>1, Inductive, PTL

-----------------------------------------------------------------------------
(* What the one-shot transaction sees of the chain. *)
Executed == Cardinality(OwnAt(chain, 1, height))
Settled == Cardinality(OwnAt(chain, 1, finalized))

(* At most one transaction is executed, and what is settled is executed. *)
LEMMA Counts ==
  ASSUME IndInv
  PROVE  Executed \in {0, 1} /\ Settled \in {0, 1} /\ Settled <= Executed
<1>1. height \in Nat /\ finalized \in 0 .. height
  BY DEF IndInv, NonceInv, TypeOK, ChainTypeOK
<1>2. OwnAt(chain, 1, finalized) \subseteq OwnAt(chain, 1, height)
  BY <1>1 DEF OwnAt
<1>3. IsFiniteSet(OwnAt(chain, 1, height)) /\ Executed \in Nat /\ Settled \in Nat
  BY <1>1, OwnAtCount DEF Executed, Settled
<1>4. Settled <= Executed
  BY <1>2, <1>3, FS_Subset DEF Executed, Settled
<1>5. Executed <= 1
  BY <1>1, OnePosition DEF Executed, IndInv, NonceInv, OneNonce
<1> QED
  BY <1>3, <1>4, <1>5

(* A transaction the chain holds is executed. *)
LEMMA HeldIsExecuted ==
  ASSUME IndInv, NEW n \in 1 .. height, Holds(chain[n], tx)
  PROVE  Executed = 1
<1>1. height \in Nat /\ tx \in Tx
  BY DEF IndInv, NonceInv, TypeOK, ChainTypeOK
<1>2. PICK len \in 0 .. MaxBlockLen : chain[n] \in [1 .. len -> Tx \cup Others]
  BY DEF IndInv, NonceInv, TypeOK, ChainTypeOK, IsBlock
<1>3. PICK i \in 1 .. len : chain[n][i] = tx
  BY <1>2 DEF Holds
<1>4. <<n, i>> \in OwnAt(chain, 1, height)
  BY <1>1, <1>2, <1>3, ReorgChainAssumption DEF OwnAt, ReorgChainAssumption
<1>5. Executed # 0
  BY <1>1, <1>4, OwnAtCount, FS_EmptySet DEF Executed
<1> QED
  BY <1>5, Counts

(* A step of the call is an answer of the abstract service, or nothing. *)
LEMMA CallIsOneShot ==
  ASSUME IndInv, Call
  PROVE  UNCHANGED <<Executed, Settled>> /\ (O!Answer \/ UNCHANGED result)
<1>1. UNCHANGED <<height, chain, finalized>>
  BY DEF Call, Send, SendKnown, SendRefused, ReceiptSeen, ReceiptTimeout, FinalReached,
     LookupHit, LookupMiss, Resign, GiveUp, chainVars
<1>2. UNCHANGED <<Executed, Settled>>
  BY <1>1 DEF Executed, Settled, OwnAt
<1>3. CASE SendRefused \/ GiveUp
  <2>1. result.kind = "none" /\ result'.kind \in {"ValueError", "IOError"}
    BY <1>3 DEF SendRefused, GiveUp, Raise, IndInv, SeenInv
  <2> QED
    BY <1>2, <2>1 DEF O!Answer, Executed, Settled
<1>4. CASE LookupHit
  <2>1. PICK n \in 1 .. height : Holds(chain[n], tx) /\ result' = [kind |-> "receipt", num |-> n]
    BY <1>4 DEF LookupHit
  <2>2. Executed = 1
    BY <2>1, HeldIsExecuted
  <2>3. result.kind = "none" /\ result'.kind = "receipt"
    BY <1>4, <2>1 DEF LookupHit, IndInv, SeenInv
  <2> QED
    BY <1>2, <2>2, <2>3 DEF O!Answer, Executed, Settled
<1>5. CASE Call /\ ~SendRefused /\ ~GiveUp /\ ~LookupHit
  BY <1>2, <1>5 DEF Call, Send, SendKnown, ReceiptSeen, ReceiptTimeout, FinalReached,
     LookupMiss, Resign
<1> QED
  BY <1>2, <1>3, <1>4, <1>5

(* A step of the chain executes, retracts or settles, or is nothing to the service. *)
LEMMA EnvIsOneShot ==
  ASSUME IndInv, IndInv', Env
  PROVE  [O!Execute \/ O!Retract \/ O!Settle]_<<Executed, Settled, result.kind>>
<1>1. UNCHANGED result
  BY DEF Env, clientVars
<1>2. /\ Executed \in {0, 1} /\ Settled \in {0, 1} /\ Settled <= Executed
      /\ Executed' \in {0, 1} /\ Settled' \in {0, 1} /\ Settled' <= Executed'
  <2>1. IndInv => Executed \in {0, 1} /\ Settled \in {0, 1} /\ Settled <= Executed
    BY Counts
  <2>2. (IndInv => Executed \in {0, 1} /\ Settled \in {0, 1} /\ Settled <= Executed)'
    BY Counts, PTL
  <2> QED
    BY <2>1, <2>2
<1>3. CASE Finalize
  <2>1. Executed' = Executed
    BY <1>3 DEF Finalize, Executed, OwnAt
  <2>2. finalized' >= finalized /\ finalized \in Nat /\ finalized' \in Nat /\ chain' = chain
    BY <1>3 DEF Finalize, IndInv, NonceInv, TypeOK, ChainTypeOK
  <2>3. OwnAt(chain, 1, finalized) \subseteq OwnAt(chain', 1, finalized')
    BY <2>2 DEF OwnAt
  <2>4. Settled <= Settled'
    BY <2>2, <2>3, OwnAtCount, FS_Subset DEF Settled
  <2> QED
    BY <1>1, <1>2, <2>1, <2>4 DEF O!Settle, Executed, Settled
<1>4. CASE ProduceBounded \/ Reorg \/ Evict
  <2>1. finalized' = finalized
    BY <1>4 DEF ProduceBounded, Produce, Reorg, Evict
  <2>2. \A n \in 1 .. finalized : chain'[n] = chain[n]
    BY <1>4, ChainStepAdvances DEF IndInv, NonceInv, TypeOK, ProduceBounded, ChainStep, Advance
  <2>3. OwnAt(chain', 1, finalized') = OwnAt(chain, 1, finalized)
    BY <2>1, <2>2 DEF OwnAt
  <2>4. Settled' = Settled
    BY <2>3 DEF Settled
  <2> QED
    BY <1>1, <1>2, <2>4 DEF O!Execute, O!Retract, Executed, Settled
<1> QED
  BY <1>3, <1>4 DEF Env

(* The call implements a one-shot transaction: resends, pool and reorgs are
   stutters or its executions and their retractions. *)
THEOREM Refinement == Spec => OneShotCall
<1>1. Init => O!Init
  <2> SUFFICES ASSUME Init PROVE O!Init
    OBVIOUS
  <2>1. OwnAt(chain, 1, height) = {} /\ OwnAt(chain, 1, finalized) = {}
    BY DEF Init, OwnAt
  <2>2. result.kind = "none"
    BY DEF Init
  <2> QED
    BY <2>1, <2>2, FS_EmptySet DEF O!Init
<1>2. IndInv /\ IndInv' /\ [Next]_vars => [O!Next]_(O!vars)
  <2> SUFFICES ASSUME IndInv, IndInv', [Next]_vars PROVE [O!Next]_(O!vars)
    OBVIOUS
  <2>1. CASE Call
    BY <2>1, CallIsOneShot DEF O!Next, O!vars, Executed, Settled
  <2>2. CASE Env
    BY <2>2, EnvIsOneShot DEF O!Next, O!vars, Executed, Settled
  <2>3. CASE UNCHANGED vars
    <3>1. UNCHANGED <<height, chain, finalized, result>>
      BY <2>3 DEF vars, chainVars, clientVars
    <3> QED
      BY <3>1 DEF O!vars, OwnAt
  <2> QED
    BY <2>1, <2>2, <2>3 DEF Next, Stopped
<1> QED
  BY <1>1, <1>2, Inductive, PTL DEF Spec, OneShotCall, O!Spec
=============================================================================
