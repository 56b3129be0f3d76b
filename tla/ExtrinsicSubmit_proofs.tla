----------------------- MODULE ExtrinsicSubmit_proofs -----------------------
(***************************************************************************)
(* Type correctness of ExtrinsicSubmit, its receipt invariants, and what   *)
(* is known of an abandoned and of a pending attempt, for every value of   *)
(* the constants.                                                          *)
(***************************************************************************)
EXTENDS ExtrinsicSubmit, ReorgChain_proofs

(* No receipt exists before the call resolves an identifier, and the fee
   recorder only sees receipts of the submission. *)
ReceiptStage ==
  /\ pc \notin {"fee", "stopped"} => receipt.kind = "none"
  /\ pc = "fee" => receipt.kind = "submit"

(* An identifier names a block of the chain, finalized by the time the
   submission resolves it. *)
FoundStage ==
  /\ pc \in {"await_final", "resolve"} => found.num \in 1 .. height
  /\ pc = "resolve" /\ round = 0 => found.num <= finalized

(* Until a reorg happens the identifier stays that of the extrinsic. *)
FoundOwn ==
  pc \in {"await_final", "resolve"} /\ reorgs = 0 =>
    /\ found.idx \in DOMAIN chain[found.num]
    /\ chain[found.num][found.idx] = tx

ReceiptInv ==
  /\ ReceiptStage
  /\ FoundStage
  /\ FoundOwn
  /\ ReceiptFinal
  /\ ReceiptOwnWithoutReorg
  /\ FeeCheckedBlock

IndInv == TypeOK /\ ReceiptInv

-----------------------------------------------------------------------------
(* The invariant holds before the call. *)
LEMMA InitIndInv == ASSUME Init PROVE IndInv
<1>1. ChainTypeOK
  BY ChainInitTypeOK DEF Init
<1>2. TypeOK
  <2>1. tx \in Tx
    BY ExtrinsicSubmitAssumption DEF Init, Tx, ExtrinsicSubmitAssumption
  <2>2. attempt \in Attempts /\ round \in 0 .. BacktraceRounds /\ now \in 0 .. height
    BY ExtrinsicSubmitAssumption DEF Init, ChainInit, ExtrinsicSubmitAssumption
  <2> QED
    BY <1>1, <2>1, <2>2 DEF Init, TypeOK, Receipt, NoPos, Pos
<1>3. ReceiptInv
  BY DEF Init, ReceiptInv, ReceiptStage, FoundStage, FoundOwn, ReceiptFinal,
         ReceiptOwnWithoutReorg, FeeCheckedBlock, Returned
<1> QED
  BY <1>2, <1>3 DEF IndInv

(* A nonce is a number. *)
LEMMA AccountNonceType == ASSUME height \in Nat PROVE AccountNonce \in Nat
BY OwnAtCount DEF AccountNonce

(* The steps of the call that leave the chain alone, and the two that add to
   the pool, keep the types. *)
LEMMA CallTypeOK ==
  ASSUME IndInv, Call
  PROVE  TypeOK'
<1> USE DEF IndInv
<1>1. WaitBlocks \in Nat /\ BacktraceRounds \in Nat \ {0} /\ Attempts = 1 .. RetryTimes
        /\ RetryTimes \in Nat
  BY ExtrinsicSubmitAssumption DEF ExtrinsicSubmitAssumption
<1>2. height \in Nat
  BY DEF TypeOK, ChainTypeOK
<1>3. ASSUME UNCHANGED chainVars PROVE ChainTypeOK'
  BY <1>3 DEF TypeOK, ChainTypeOK, chainVars, IsBlock
<1>4. ASSUME NEW reason \in {"rejected", "unindexed", "vanished", "rpc", "exhausted"},
             Raise(reason)
      PROVE  receipt' \in Receipt /\ pc' = "stopped"
  BY <1>4 DEF Raise, Receipt
<1>5. ASSUME NEW r \in 0 .. BacktraceRounds, WaitForBlocks(r)
      PROVE  round' \in 0 .. BacktraceRounds /\ target' \in Nat /\ found' \in Pos
               /\ pc' = "wait"
  BY <1>1, <1>2, <1>5 DEF WaitForBlocks, NoPos, Pos
<1>6. CASE Compose
  <2>1. tx' \in Tx
    BY <1>2, <1>6, AccountNonceType DEF Compose, Tx, TypeOK
  <2> QED
    BY <1>3, <1>6, <2>1 DEF Compose, TypeOK, chainVars
<1>7. ASSUME tx' = [tx EXCEPT !.born = height], pool' = pool \cup {tx'},
             UNCHANGED <<height, chain, finalized, reorgs>>
      PROVE  ChainTypeOK' /\ tx' \in Tx
  <2>1. tx' \in Tx
    BY <1>2, <1>7 DEF TypeOK, Tx
  <2> QED
    BY <1>7, <2>1 DEF TypeOK, ChainTypeOK, IsBlock
<1>8. CASE Submit
  BY <1>1, <1>5, <1>7, <1>8 DEF Submit, TypeOK
<1>9. CASE SubmitRejected
  BY <1>3, <1>4, <1>9 DEF SubmitRejected, TypeOK, chainVars
<1>10. CASE SubmitResent
  BY <1>4, <1>7, <1>10 DEF SubmitResent, TypeOK
<1>11. CASE WaitDone
  BY <1>2, <1>3, <1>11 DEF WaitDone, TypeOK, chainVars
<1>12. CASE ScanHit
  <2>1. Position(chain[Scanned], tx) \in Nat
    <3>1. Scanned \in 1 .. height
      BY <1>2, <1>12 DEF ScanHit, Scanned, TypeOK
    <3>2. PICK len \in 0 .. MaxBlockLen : chain[Scanned] \in [1 .. len -> Tx \cup Others]
      BY <3>1 DEF TypeOK, ChainTypeOK, IsBlock
    <3>3. DOMAIN chain[Scanned] \subseteq Nat
      BY <3>2
    <3>4. \E i \in DOMAIN chain[Scanned] : chain[Scanned][i] = tx
      BY <1>12 DEF ScanHit, Holds
    <3> QED
      BY <3>3, <3>4 DEF Position
  <2> QED
    BY <1>2, <1>3, <1>12, <2>1 DEF ScanHit, Scanned, TypeOK, Pos, chainVars
<1>13. CASE ScanMiss
  BY <1>3, <1>13 DEF ScanMiss, TypeOK, chainVars
<1>14. CASE ScanBelowGenesis
  BY <1>3, <1>4, <1>14 DEF ScanBelowGenesis, TypeOK, chainVars
<1>15. CASE NextRound
  <2>1. round + 1 \in 0 .. BacktraceRounds
    BY <1>1, <1>15 DEF NextRound, TypeOK
  <2> QED
    BY <1>3, <1>5, <1>15, <2>1 DEF NextRound, TypeOK, chainVars
<1>16. CASE Retry
  BY <1>1, <1>3, <1>16 DEF Retry, TypeOK, chainVars
<1>17. CASE GiveUp
  BY <1>3, <1>4, <1>17 DEF GiveUp, TypeOK, chainVars
<1>18. CASE AwaitFinal
  BY <1>3, <1>18 DEF AwaitFinal, TypeOK, chainVars
<1>19. CASE Resolve
  <2>1. chain[found.num][found.idx] \in Tx \cup Others
    <3>1. found.num \in 1 .. height
      BY <1>19 DEF Resolve, ReceiptInv, FoundStage
    <3> QED
      BY <1>19, <3>1 DEF Resolve, TypeOK, ChainTypeOK, IsBlock
  <2>2. receipt' \in Receipt
    BY <1>19, <2>1 DEF Resolve, TypeOK, Pos, Receipt
  <2> QED
    BY <1>3, <1>19, <2>2 DEF Resolve, TypeOK, chainVars
<1>20. CASE ResolveRetry
  BY <1>1, <1>3, <1>5, <1>20 DEF ResolveRetry, TypeOK, chainVars
<1>21. CASE ResolveRaise
  BY <1>3, <1>4, <1>21 DEF ResolveRaise, TypeOK, chainVars
<1>22. CASE FeeRecorded
  BY <1>3, <1>22 DEF FeeRecorded, TypeOK, chainVars
<1>23. CASE FeeMissing
  BY <1>3, <1>4, <1>23 DEF FeeMissing, TypeOK, chainVars
<1> QED
  BY <1>6, <1>8, <1>9, <1>10, <1>11, <1>12, <1>13, <1>14, <1>15, <1>16, <1>17,
     <1>18, <1>19, <1>20, <1>21, <1>22, <1>23 DEF Call

(* The call's steps keep the receipt invariants.  Most of them only move
   between stages; ScanHit, AwaitFinal and Resolve establish what a receipt
   rests on. *)
LEMMA CallReceiptInv ==
  ASSUME IndInv, Call
  PROVE  ReceiptInv'
<1> USE DEF IndInv
<1>1. BacktraceRounds \in Nat \ {0} /\ height \in Nat
  BY ExtrinsicSubmitAssumption DEF ExtrinsicSubmitAssumption, TypeOK, ChainTypeOK
<1> DEFINE Early == pc' \notin {"fee", "stopped", "await_final", "resolve"}
                      /\ receipt'.kind = "none"
<1>2. ASSUME Early PROVE ReceiptInv'
  BY <1>2 DEF ReceiptInv, ReceiptStage, FoundStage, FoundOwn, ReceiptFinal,
              ReceiptOwnWithoutReorg, FeeCheckedBlock, Returned
<1>3. ASSUME NEW reason, Raise(reason) PROVE ReceiptInv'
  BY <1>3 DEF Raise, ReceiptInv, ReceiptStage, FoundStage, FoundOwn, ReceiptFinal,
              ReceiptOwnWithoutReorg, FeeCheckedBlock, Returned
<1> HIDE DEF Early
<1>4. CASE Compose \/ Submit \/ WaitDone \/ ScanMiss \/ NextRound \/ Retry \/ ResolveRetry
  <2>1. Early
    BY <1>4 DEF Early, Compose, Submit, WaitDone, ScanMiss, NextRound, Retry,
                ResolveRetry, WaitForBlocks, ReceiptInv, ReceiptStage
  <2> QED
    BY <1>2, <2>1
<1>5. CASE SubmitRejected \/ SubmitResent \/ ScanBelowGenesis \/ GiveUp
             \/ ResolveRaise \/ FeeMissing
  BY <1>3, <1>5 DEF SubmitRejected, SubmitResent, ScanBelowGenesis, GiveUp,
                    ResolveRaise, FeeMissing
<1>6. CASE ScanHit
  <2>1. found'.num \in 1 .. height /\ found'.num = Scanned
    BY <1>1, <1>6 DEF ScanHit, Scanned, TypeOK
  <2>2. found'.idx \in DOMAIN chain[Scanned] /\ chain[Scanned][found'.idx] = tx
    BY <1>6 DEF ScanHit, Holds, Position
  <2>3. receipt'.kind = "none" /\ pc' \in {"await_final", "resolve"}
    BY <1>6 DEF ScanHit, ReceiptInv, ReceiptStage
  <2>4. ~(pc' = "resolve" /\ round' = 0)
    BY <1>6 DEF ScanHit
  <2> QED
    BY <1>6, <2>1, <2>2, <2>3, <2>4
       DEF ScanHit, chainVars, ReceiptInv, ReceiptStage, FoundStage, FoundOwn,
           ReceiptFinal, ReceiptOwnWithoutReorg, FeeCheckedBlock, Returned
<1>7. CASE AwaitFinal
  BY <1>7 DEF AwaitFinal, chainVars, TypeOK, Pos, ChainTypeOK, ReceiptInv,
              ReceiptStage, FoundStage, FoundOwn, ReceiptFinal,
              ReceiptOwnWithoutReorg, FeeCheckedBlock, Returned
<1>8. CASE Resolve
  <2>1. receipt'.kind \in {"submit", "backtrace"} /\ receipt'.held = chain[found.num][found.idx]
          /\ receipt'.num = found.num /\ receipt'.idx = found.idx
    BY <1>8 DEF Resolve
  <2>2. ReceiptFinal'
    <3>1. ASSUME receipt'.kind = "submit" PROVE found.num \in 1 .. finalized
      BY <1>8, <3>1, <1>1 DEF Resolve, ReceiptInv, FoundStage, TypeOK, ChainTypeOK
    <3> QED
      BY <1>8, <2>1, <3>1 DEF Resolve, ReceiptFinal, chainVars
  <2>3. ReceiptOwnWithoutReorg'
    BY <1>8, <2>1 DEF Resolve, ReceiptInv, FoundOwn, ReceiptOwnWithoutReorg,
                      Returned, chainVars
  <2>4. ReceiptStage' /\ FoundStage' /\ FoundOwn' /\ FeeCheckedBlock'
    BY <1>8 DEF Resolve, ReceiptStage, FoundStage, FoundOwn, FeeCheckedBlock
  <2> QED
    BY <2>2, <2>3, <2>4 DEF ReceiptInv
<1>9. CASE FeeRecorded
  BY <1>9 DEF FeeRecorded, chainVars, Holds, ReceiptInv, ReceiptStage, FoundStage,
              FoundOwn, ReceiptFinal, ReceiptOwnWithoutReorg, FeeCheckedBlock, Returned
<1> QED
  BY <1>4, <1>5, <1>6, <1>7, <1>8, <1>9 DEF Call

(* The chain's steps keep them too: a finalized position stays what it is, and
   any other only changes with the count of reorgs. *)
LEMMA EnvIndInv ==
  ASSUME IndInv, Env
  PROVE  IndInv'
<1> USE DEF IndInv
<1>1. UNCHANGED clientVars
  BY DEF Env
<1>2. ChainTypeOK' /\ Advance
  BY ChainStepAdvances DEF Env, ProduceBounded, ChainStep, TypeOK
<1>3. height \in Nat /\ finalized \in 0 .. height /\ reorgs \in Nat /\ now \in 0 .. height
  BY ReorgChainAssumption DEF TypeOK, ChainTypeOK, ReorgChainAssumption
<1>4. height' \in Nat /\ finalized' \in 0 .. height' /\ reorgs' \in Nat
  BY <1>2, ReorgChainAssumption DEF ChainTypeOK, ReorgChainAssumption
<1>5. TypeOK'
  BY <1>1, <1>2, <1>3, <1>4 DEF TypeOK, clientVars, Advance
<1>6. ASSUME NEW n \in 1 .. finalized PROVE n \in 1 .. finalized' /\ chain'[n] = chain[n]
  BY <1>2, <1>3, <1>4, <1>6 DEF Advance
<1>7. ASSUME reorgs' = 0, NEW n \in 1 .. height PROVE reorgs = 0 /\ chain'[n] = chain[n]
  BY <1>2, <1>3, <1>4, <1>7 DEF Advance
<1>8. ReceiptStage' /\ FoundStage'
  BY <1>1, <1>2, <1>3, <1>4 DEF clientVars, Advance, ReceiptInv, ReceiptStage,
                                FoundStage, TypeOK, Pos
<1>9. FoundOwn'
  BY <1>1, <1>7 DEF clientVars, ReceiptInv, FoundOwn, FoundStage
<1>10. ReceiptFinal'
  BY <1>1, <1>6 DEF clientVars, ReceiptInv, ReceiptFinal
<1>11. ReceiptOwnWithoutReorg'
  BY <1>1, <1>2, <1>3, <1>4 DEF clientVars, Advance, ReceiptInv,
                                ReceiptOwnWithoutReorg, Returned
<1>12. FeeCheckedBlock'
  BY <1>1, <1>6 DEF clientVars, ReceiptInv, FeeCheckedBlock, Holds
<1> QED
  BY <1>5, <1>8, <1>9, <1>10, <1>11, <1>12 DEF ReceiptInv

(* Every state of a call against a reorganising chain satisfies the inductive
   invariant. *)
THEOREM Inductive == Spec => []IndInv
<1>1. Init => IndInv
  BY InitIndInv
<1>2. IndInv /\ [Next]_vars => IndInv'
  <2> SUFFICES ASSUME IndInv, [Next]_vars PROVE IndInv'
    OBVIOUS
  <2>1. CASE Call
    BY <2>1, CallTypeOK, CallReceiptInv DEF IndInv
  <2>2. CASE Env
    BY <2>2, EnvIndInv
  <2>3. CASE UNCHANGED vars
    BY <2>3 DEF vars, chainVars, clientVars, IndInv, TypeOK, ChainTypeOK, IsBlock,
                ReceiptInv, ReceiptStage, FoundStage, FoundOwn, ReceiptFinal,
                ReceiptOwnWithoutReorg, FeeCheckedBlock, Returned, Holds
  <2> QED
    BY <2>1, <2>2, <2>3 DEF Next, Stopped
<1> QED
  BY <1>1, <1>2, PTL DEF Spec

(* The variables keep their types. *)
THEOREM TypeCorrect == Spec => []TypeOK
<1>1. IndInv => TypeOK
  BY DEF IndInv
<1> QED
  BY <1>1, Inductive, PTL

(* A receipt of submit_extrinsic reads from a finalized position, which keeps
   the extrinsic the receipt was read from. *)
THEOREM SubmittedReceiptIsFinal == Spec => []ReceiptFinal
<1>1. IndInv => ReceiptFinal
  BY DEF IndInv, ReceiptInv
<1> QED
  BY <1>1, Inductive, PTL

(* While no reorg has happened, every receipt is of the extrinsic it names. *)
THEOREM ReceiptIsOwnWithoutReorg == Spec => []ReceiptOwnWithoutReorg
<1>1. IndInv => ReceiptOwnWithoutReorg
  BY DEF IndInv, ReceiptInv
<1> QED
  BY <1>1, Inductive, PTL

(* Under pytest a receipt of submit_extrinsic is of a finalized block that
   contains the extrinsic, whatever reorgs there were. *)
THEOREM FeeRecorderGuardsReceipt == Spec => []FeeCheckedBlock
<1>1. IndInv => FeeCheckedBlock
  BY DEF IndInv, ReceiptInv
<1> QED
  BY <1>1, Inductive, PTL

-----------------------------------------------------------------------------
(* What the searches leave out.  Each reaches back to where the one before it began,
   if the head is no more than MaxLag blocks ahead of a wait. *)
SearchesMeet ==
  /\ WaitBlocks + MaxLag <= SearchDepth
  /\ WaitBlocks + 2 * MaxLag <= BacktraceDepth

(* The extrinsic is in none of the blocks from lo to hi. *)
Clear(lo, hi) == \A n \in 1 .. height : lo <= n /\ n <= hi => ~Holds(chain[n], tx)

(* Pending or on the chain. *)
Known(t) == t \in pool \/ \E n \in 1 .. height : Holds(chain[n], t)

(* No attempt is known before it is submitted. *)
Numbered ==
  /\ pc # "compose" => tx.id = attempt
  /\ \A t \in Tx : Known(t) =>
       t.id <= attempt /\ (pc \in {"compose", "submit"} => t.id # attempt)

(* A wait begins where the blocks up to the submission, or up to the last head, are
   known not to have the extrinsic. *)
WaitStage ==
  pc = "wait" =>
    IF round = 0 THEN target - WaitBlocks <= height /\ Clear(1, target - WaitBlocks)
                 ELSE target <= now + WaitBlocks + MaxLag /\ Clear(1, now)

(* What a search has looked at, and what it need not look at. *)
ScanStage ==
  pc = "scan" =>
    /\ now >= target
    /\ offset \in 0 .. Depth
    /\ Clear(now - offset + 1, now)
    /\ Clear(1, now - Depth)

SearchInv == reorgs = 0 => Numbered /\ WaitStage /\ ScanStage

(* The bound on the chain, whatever reorgs there are. *)
PaceInv == height <= target + MaxLag

(* What the assumptions say of the constants. *)
LEMMA SearchConstants ==
  /\ WaitBlocks \in Nat \ {0} /\ SearchDepth \in Nat \ {0} /\ BacktraceDepth \in Nat \ {0}
  /\ BacktraceRounds \in Nat \ {0} /\ MaxLag \in Nat
BY ExtrinsicSubmitAssumption DEF ExtrinsicSubmitAssumption

(* No step of the call touches the chain, and only two of them the pool. *)
LEMMA CallChain ==
  ASSUME Call
  PROVE  /\ UNCHANGED <<height, chain, finalized, reorgs>>
         /\ Submit \/ SubmitResent \/ pool' = pool
BY DEF Call, Compose, Submit, SubmitRejected, SubmitResent, WaitDone, ScanHit, ScanMiss,
   ScanBelowGenesis, NextRound, Retry, GiveUp, AwaitFinal, Resolve, ResolveRetry,
   ResolveRaise, FeeRecorded, FeeMissing, chainVars

(* Clear says the same as long as neither the chain nor the extrinsic changes. *)
LEMMA ClearKept ==
  ASSUME UNCHANGED <<height, chain, tx>>
  PROVE  \A lo, hi : Clear(lo, hi)' <=> Clear(lo, hi)
BY DEF Clear, Holds

(* In the stages that neither wait nor search, numbers are all there is to keep. *)
LEMMA NumberedKept ==
  ASSUME Numbered, UNCHANGED <<height, chain, pool, tx, attempt>>, pc # "compose",
         pc' \notin {"compose", "submit"}
  PROVE  Numbered'
BY DEF Numbered, Known, Holds

(* A search that is over has seen all blocks up to its head, together with the
   searches before it. *)
LEMMA SearchedAll ==
  ASSUME IndInv, SearchInv, reorgs = 0, pc = "scan", ScanOver
  PROVE  Clear(1, now)
<1>1. height \in Nat /\ now \in 0 .. height
  BY DEF IndInv, TypeOK, ChainTypeOK
<1>2. offset \in Nat /\ Clear(now - offset + 1, now) /\ Clear(1, now - Depth)
  BY SearchConstants DEF SearchInv, ScanStage, Depth
<1>3. CASE offset = Depth
  BY <1>1, <1>2, <1>3 DEF Clear
<1>4. CASE Scanned < 1
  BY <1>1, <1>2, <1>4 DEF Clear, Scanned
<1> QED
  BY <1>3, <1>4 DEF ScanOver

(* Submitting makes a new extrinsic known: no block has it. *)
LEMMA SubmitSearch ==
  ASSUME IndInv, SearchInv, reorgs = 0, Submit \/ SubmitResent
  PROVE  Numbered' /\ WaitStage' /\ ScanStage'
<1>1. height \in Nat /\ tx \in Tx /\ attempt \in Nat
  BY ExtrinsicSubmitAssumption DEF IndInv, TypeOK, ChainTypeOK, ExtrinsicSubmitAssumption
<1>2. /\ tx' = [tx EXCEPT !.born = height] /\ pool' = pool \cup {tx'} /\ attempt' = attempt
      /\ UNCHANGED <<height, chain, reorgs>> /\ pc = "submit"
      /\ \/ pc' = "wait" /\ round' = 0 /\ target' = height + WaitBlocks
         \/ pc' = "stopped"
  BY DEF Submit, SubmitResent, WaitForBlocks, Raise
<1>3. tx' \in Tx /\ tx'.id = tx.id
  BY <1>1, <1>2 DEF Tx
<1>4. Numbered /\ tx.id = attempt
  BY <1>2 DEF SearchInv, Numbered
<1>5. ~Known(tx')
  BY <1>2, <1>3, <1>4 DEF Numbered
<1>6. Numbered'
  <2>1. \A t \in Tx : Known(t)' => Known(t) \/ t = tx'
    BY <1>2 DEF Known, Holds
  <2>2. \A t \in Tx : Known(t) => t.id <= attempt
    BY <1>4 DEF Numbered
  <2>3. tx'.id = attempt /\ attempt <= attempt /\ attempt' = attempt
    BY <1>1, <1>2, <1>3, <1>4
  <2>4. \A t \in Tx : Known(t)' => t.id <= attempt
    BY <2>1, <2>2, <2>3
  <2>5. pc' \notin {"compose", "submit"}
    BY <1>2
  <2> QED
    BY <2>3, <2>4, <2>5 DEF Numbered
<1>7. \A lo, hi : Clear(lo, hi)'
  BY <1>2, <1>5 DEF Clear, Known, Holds
<1> QED
  BY <1>1, <1>2, <1>6, <1>7, SearchConstants DEF WaitStage, ScanStage

(* A search begins above what is known to be clear, if it reaches back far enough. *)
LEMMA WaitDoneSearch ==
  ASSUME IndInv, SearchInv, PaceInv, SearchesMeet, reorgs = 0, WaitDone
  PROVE  Numbered' /\ WaitStage' /\ ScanStage'
<1>1. /\ height \in Nat /\ now \in 0 .. height /\ target \in Nat /\ round \in Nat
      /\ height <= target + MaxLag
  BY SearchConstants DEF IndInv, TypeOK, ChainTypeOK, PaceInv
<1>2. UNCHANGED <<height, chain, pool, tx, target, round, attempt>> /\ pc = "wait"
        /\ pc' = "scan" /\ now' = height /\ offset' = 0 /\ height >= target
  BY DEF WaitDone, chainVars
<1>3. Numbered'
  BY <1>2, NumberedKept DEF SearchInv
<1>4. Depth' \in Nat /\ Depth' = Depth
  BY <1>2, SearchConstants DEF Depth
<1>5. Clear(height + 1, height) /\ Clear(1, height - Depth)
  <2>1. CASE round = 0
    BY <1>1, <1>2, <2>1, SearchConstants DEF SearchInv, WaitStage, Clear, Depth, SearchesMeet
  <2>2. CASE round # 0
    BY <1>1, <1>2, <2>2, SearchConstants DEF SearchInv, WaitStage, Clear, Depth, SearchesMeet
  <2> QED
    BY <2>1, <2>2
<1>6. ScanStage'
  BY <1>1, <1>2, <1>4, <1>5, ClearKept DEF ScanStage
<1> QED
  BY <1>2, <1>3, <1>6 DEF WaitStage

(* A block without the extrinsic is one more that is clear. *)
LEMMA ScanMissSearch ==
  ASSUME IndInv, SearchInv, reorgs = 0, ScanMiss
  PROVE  Numbered' /\ WaitStage' /\ ScanStage'
<1>1. height \in Nat /\ now \in 0 .. height /\ offset \in Nat
  BY DEF IndInv, TypeOK, ChainTypeOK
<1>2. /\ UNCHANGED <<height, chain, pool, tx, target, round, attempt, now, pc>> /\ pc = "scan"
      /\ offset' = offset + 1 /\ offset # Depth
      /\ Scanned >= 1 => ~Holds(chain[Scanned], tx)
  BY <1>1 DEF ScanMiss, ScanOver, Scanned, chainVars
<1>3. Numbered'
  BY <1>2, NumberedKept DEF SearchInv
<1>4. ScanStage
  BY DEF SearchInv
<1>5. Depth \in Nat /\ Depth' = Depth
  BY <1>2, SearchConstants DEF Depth
<1>6. offset' \in 0 .. Depth
  BY <1>1, <1>2, <1>4, <1>5 DEF ScanStage
<1>7. Clear(now - (offset + 1) + 1, now)
  BY <1>1, <1>2, <1>4 DEF ScanStage, Clear, Scanned
<1>8. ScanStage'
  BY <1>2, <1>4, <1>5, <1>6, <1>7, ClearKept DEF ScanStage
<1> QED
  BY <1>2, <1>3, <1>8 DEF WaitStage

(* The next round begins where all blocks up to the last head are clear. *)
LEMMA NextRoundSearch ==
  ASSUME IndInv, SearchInv, PaceInv, reorgs = 0, NextRound
  PROVE  Numbered' /\ WaitStage' /\ ScanStage'
<1>1. height \in Nat /\ now \in 0 .. height /\ target \in Nat /\ round \in Nat
  BY SearchConstants DEF IndInv, TypeOK, ChainTypeOK
<1>2. /\ UNCHANGED <<height, chain, pool, tx, attempt, now>> /\ pc = "scan" /\ pc' = "wait"
      /\ ScanOver /\ round' = round + 1 /\ target' = height + WaitBlocks
  BY DEF NextRound, WaitForBlocks, chainVars
<1>3. Numbered'
  BY <1>2, NumberedKept DEF SearchInv
<1>4. Clear(1, now)
  BY <1>2, SearchedAll
<1>5. now >= target /\ height <= target + MaxLag
  BY <1>2 DEF SearchInv, ScanStage, PaceInv
<1>6. round' # 0 /\ target' <= now + WaitBlocks + MaxLag
  BY <1>1, <1>2, <1>5, SearchConstants
<1>7. WaitStage'
  BY <1>2, <1>4, <1>6, ClearKept DEF WaitStage
<1> QED
  BY <1>2, <1>3, <1>7 DEF ScanStage

(* The steps of the call keep SearchInv. *)
LEMMA CallSearch ==
  ASSUME IndInv, SearchInv, PaceInv, SearchesMeet, Call
  PROVE  SearchInv' /\ PaceInv'
<1>1. height \in Nat /\ target \in Nat /\ attempt \in Nat
  BY ExtrinsicSubmitAssumption DEF IndInv, TypeOK, ChainTypeOK, ExtrinsicSubmitAssumption
<1>2. UNCHANGED <<height, chain, reorgs>>
  BY CallChain
<1>3. target' = target \/ target' = height + WaitBlocks
  BY DEF Call, Compose, Submit, SubmitRejected, SubmitResent, WaitDone, ScanHit, ScanMiss,
     ScanBelowGenesis, NextRound, Retry, GiveUp, AwaitFinal, Resolve, ResolveRetry,
     ResolveRaise, FeeRecorded, FeeMissing, WaitForBlocks
<1>4. PaceInv'
  BY <1>1, <1>2, <1>3, SearchConstants DEF PaceInv
<1>5. SUFFICES ASSUME reorgs = 0 PROVE Numbered' /\ WaitStage' /\ ScanStage'
  BY <1>2, <1>4 DEF SearchInv
<1>6. Numbered
  BY <1>5 DEF SearchInv
<1>7. CASE Compose
  <2>1. /\ UNCHANGED <<height, chain, pool, attempt>> /\ pc = "compose" /\ pc' = "submit"
        /\ tx'.id = attempt
    BY <1>7 DEF Compose, chainVars
  <2> QED
    BY <1>6, <2>1 DEF Numbered, Known, Holds, WaitStage, ScanStage
<1>8. CASE Submit \/ SubmitResent
  BY <1>5, <1>8, SubmitSearch
<1>9. CASE WaitDone
  BY <1>5, <1>9, WaitDoneSearch
<1>10. CASE ScanMiss
  BY <1>5, <1>10, ScanMissSearch
<1>11. CASE NextRound
  BY <1>5, <1>11, NextRoundSearch
<1>12. CASE Retry
  <2>1. /\ UNCHANGED <<height, chain, pool, tx>> /\ pc' = "compose" /\ attempt' = attempt + 1
        /\ \A t \in Tx : t.id \in Nat
    BY <1>12, ExtrinsicSubmitAssumption DEF Retry, chainVars, Tx, ExtrinsicSubmitAssumption
  <2>2. \A t \in Tx : Known(t)' => t.id <= attempt
    BY <1>6, <2>1 DEF Numbered, Known, Holds
  <2>3. Numbered'
    BY <1>1, <2>1, <2>2 DEF Numbered
  <2> QED
    BY <2>1, <2>3 DEF WaitStage, ScanStage
<1>13. CASE ResolveRetry
  BY <1>5, <1>13 DEF ResolveRetry, IndInv, ReceiptInv, FoundOwn
<1>14. CASE SubmitRejected \/ ScanHit \/ ScanBelowGenesis \/ GiveUp \/ AwaitFinal \/ Resolve
              \/ ResolveRaise \/ FeeRecorded \/ FeeMissing
  <2>1. /\ UNCHANGED <<height, chain, pool, tx, attempt>> /\ pc # "compose"
        /\ pc' \in {"await_final", "resolve", "fee", "stopped"}
    BY <1>14 DEF SubmitRejected, ScanHit, ScanBelowGenesis, GiveUp, AwaitFinal, Resolve,
       ResolveRaise, FeeRecorded, FeeMissing, Raise, chainVars
  <2> QED
    BY <1>6, <2>1, NumberedKept DEF WaitStage, ScanStage
<1> QED
  BY <1>7, <1>8, <1>9, <1>10, <1>11, <1>12, <1>13, <1>14 DEF Call

(* The steps of the chain keep it: a new block lies above all that was searched. *)
LEMMA EnvSearch ==
  ASSUME IndInv, SearchInv, PaceInv, Env
  PROVE  SearchInv' /\ PaceInv'
<1>1. /\ height \in Nat /\ now \in 0 .. height /\ target \in Nat /\ reorgs \in Nat
      /\ ChainTypeOK
  BY ReorgChainAssumption DEF IndInv, TypeOK, ChainTypeOK, ReorgChainAssumption
<1>2. UNCHANGED <<pc, attempt, tx, target, now, offset, round>>
  BY DEF Env, clientVars
<1>3. CASE ProduceBounded
  <2>1. Produce /\ height < target + MaxLag
    BY <1>3 DEF ProduceBounded
  <2>2. /\ height' = height + 1 /\ reorgs' = reorgs
        /\ \A n \in 1 .. height : chain'[n] = chain[n]
        /\ \A t \in Tx : Holds(chain'[height + 1], t) => t \in pool
        /\ pool' \subseteq pool
    BY <1>1, <2>1, ProduceAdds
  <2>3. PaceInv'
    BY <1>1, <1>2, <2>1, <2>2, SearchConstants DEF PaceInv
  <2>4. SUFFICES ASSUME reorgs = 0, Numbered, WaitStage, ScanStage
                 PROVE  Numbered' /\ WaitStage' /\ ScanStage'
    BY <2>2, <2>3 DEF SearchInv
  <2>5. ASSUME NEW t \in Tx, Known(t)' PROVE Known(t)
    BY <1>1, <2>2, <2>5 DEF Known, Holds
  <2>6. Numbered'
    BY <1>2, <2>4, <2>5 DEF Numbered
  <2>7. ASSUME NEW lo, NEW hi \in Int, hi <= height, Clear(lo, hi) PROVE Clear(lo, hi)'
    BY <1>1, <1>2, <2>2, <2>7 DEF Clear, Holds
  <2>8. WaitStage'
    BY <1>1, <1>2, <2>2, <2>4, <2>7, SearchConstants DEF WaitStage
  <2>9. ScanStage'
    <3>1. Depth' = Depth /\ Depth \in Nat
      BY <1>2, SearchConstants DEF Depth
    <3>2. now - Depth \in Int /\ now - Depth <= height /\ now <= height /\ now \in Int
      BY <1>1, <3>1
    <3> QED
      BY <1>2, <2>4, <2>7, <3>1, <3>2 DEF ScanStage
  <2> QED
    BY <2>6, <2>8, <2>9
<1>4. CASE Reorg
  BY <1>1, <1>2, <1>4 DEF Reorg, Adopt, SearchInv, PaceInv
<1>5. CASE Finalize \/ Evict
  <2>1. UNCHANGED <<height, chain, reorgs>> /\ pool' \subseteq pool
    BY <1>5 DEF Finalize, Evict
  <2>2. Numbered => Numbered'
    BY <1>2, <2>1 DEF Numbered, Known, Holds
  <2>3. (WaitStage => WaitStage') /\ (ScanStage => ScanStage')
    BY <1>2, <2>1 DEF WaitStage, ScanStage, Clear, Holds, Depth
  <2> QED
    BY <1>2, <2>1, <2>2, <2>3 DEF SearchInv, PaceInv
<1> QED
  BY <1>3, <1>4, <1>5 DEF Env

(* SearchInv is an invariant where the searches meet. *)
LEMMA SearchInvariant ==
  ASSUME SearchesMeet
  PROVE  Spec => [](SearchInv /\ PaceInv)
<1>1. Init => SearchInv /\ PaceInv
  <2> SUFFICES ASSUME Init PROVE SearchInv /\ PaceInv
    OBVIOUS
  <2>1. 1 .. height = {} /\ pool = {} /\ height = 0 /\ pc = "compose" /\ target = 0
    BY DEF Init, ChainInit
  <2>2. Numbered /\ WaitStage /\ ScanStage
    BY <2>1 DEF Numbered, Known, WaitStage, ScanStage
  <2> QED
    BY <2>1, <2>2, SearchConstants DEF SearchInv, PaceInv
<1>2. IndInv /\ (SearchInv /\ PaceInv) /\ [Next]_vars => (SearchInv /\ PaceInv)'
  <2> SUFFICES ASSUME IndInv, SearchInv, PaceInv, [Next]_vars PROVE SearchInv' /\ PaceInv'
    OBVIOUS
  <2>1. CASE UNCHANGED vars
    <3>1. UNCHANGED <<height, chain, pool, reorgs>>
            /\ UNCHANGED <<pc, attempt, tx, target, now, offset, round>>
      BY <2>1 DEF vars, chainVars, clientVars
    <3>2. (Numbered => Numbered') /\ (WaitStage => WaitStage') /\ (ScanStage => ScanStage')
      BY <3>1 DEF Numbered, Known, WaitStage, ScanStage, Clear, Holds, Depth
    <3> QED
      BY <3>1, <3>2 DEF SearchInv, PaceInv
  <2> QED
    BY <2>1, CallSearch, EnvSearch DEF Next, Stopped
<1> QED
  BY <1>1, <1>2, Inductive, PTL DEF Spec

(* Only a search that is over abandons an attempt. *)
LEMMA AbandonedAfterSearch ==
  ASSUME [Next]_vars, attempt' # attempt \/ (GaveUp' /\ ~GaveUp)
  PROVE  pc = "scan" /\ ScanOver
<1>1. CASE Retry \/ GiveUp
  BY <1>1 DEF Retry, GiveUp
<1>2. CASE Env \/ UNCHANGED vars
  BY <1>2 DEF Env, vars, clientVars, GaveUp
<1>3. CASE SubmitRejected \/ SubmitResent \/ ScanBelowGenesis \/ ResolveRaise \/ FeeMissing
             \/ Resolve
  <2>1. attempt' = attempt /\ ~GaveUp'
    BY <1>3 DEF SubmitRejected, SubmitResent, ScanBelowGenesis, ResolveRaise, FeeMissing,
       Resolve, Raise, GaveUp
  <2> QED
    BY <2>1
<1>4. CASE Compose \/ Submit \/ WaitDone \/ ScanHit \/ ScanMiss \/ NextRound \/ AwaitFinal
             \/ ResolveRetry \/ FeeRecorded
  <2>1. attempt' = attempt /\ receipt' = receipt
    BY <1>4 DEF Compose, Submit, WaitDone, ScanHit, ScanMiss, NextRound, AwaitFinal,
       ResolveRetry, FeeRecorded
  <2> QED
    BY <2>1 DEF GaveUp
<1> QED
  BY <1>1, <1>2, <1>3, <1>4 DEF Next, Call, Stopped

(* Where the searches meet, an attempt abandoned without a reorg is in no block up to
   the head of its last search, however long the pool keeps it. *)
THEOREM AbandonedAttemptsUnseen ==
  ASSUME SearchesMeet
  PROVE  Spec => AbandonedUnseen
<1> DEFINE Unseen ==
      attempt' # attempt \/ (GaveUp' /\ ~GaveUp) =>
        (reorgs = 0 => \A n \in 1 .. now : ~Holds(chain[n], tx))
<1>1. IndInv /\ SearchInv /\ [Next]_vars => Unseen
  <2> SUFFICES ASSUME IndInv, SearchInv, [Next]_vars, reorgs = 0,
                      attempt' # attempt \/ (GaveUp' /\ ~GaveUp)
               PROVE  \A n \in 1 .. now : ~Holds(chain[n], tx)
    OBVIOUS
  <2>1. Clear(1, now)
    BY AbandonedAfterSearch, SearchedAll
  <2>2. height \in Nat /\ now \in 0 .. height
    BY DEF IndInv, TypeOK, ChainTypeOK
  <2> QED
    BY <2>1, <2>2 DEF Clear
<1>2. Unseen =>
        (/\ attempt' # attempt \/ (GaveUp' /\ ~GaveUp)
         /\ reorgs = 0
         => \A n \in 1 .. now : ~Holds(chain[n], tx))
  OBVIOUS
<1> HIDE DEF Unseen
<1> QED
  BY <1>1, <1>2, Inductive, SearchInvariant, PTL DEF Spec, AbandonedUnseen

-----------------------------------------------------------------------------
(* Attempts compete.  A pending extrinsic has the account's nonce, and the one being
   submitted none above it. *)
QueueInv ==
  reorgs = 0 =>
    /\ OnePending
    /\ \A t \in pool : t.nonce = AccountNonce
    /\ pc = "submit" => tx.nonce <= AccountNonce

(* A block never lowers the nonce, and leaves it unless it takes a pending extrinsic. *)
LEMMA ProduceNonce ==
  ASSUME ChainTypeOK, Produce
  PROVE  /\ AccountNonce \in Nat /\ AccountNonce' \in Nat /\ AccountNonce <= AccountNonce'
         /\ (\A t \in pool : ~Holds(chain'[height + 1], t)) => AccountNonce' = AccountNonce
<1>1. height \in Nat
  BY DEF ChainTypeOK
<1>2. /\ height' = height + 1
      /\ \A n \in 1 .. height : chain'[n] = chain[n]
      /\ \A t \in Tx : Holds(chain'[height + 1], t) => t \in pool
  BY ProduceAdds
<1> DEFINE Before == OwnAt(chain, 1, height)
           After == OwnAt(chain', 1, height + 1)
<1>3. AccountNonce = Cardinality(Before) /\ AccountNonce' = Cardinality(After)
  BY <1>2 DEF AccountNonce, OwnAt
<1>4. Before \subseteq After
  BY <1>1, <1>2 DEF OwnAt
<1>5. IsFiniteSet(After) /\ Cardinality(After) \in Nat /\ Cardinality(Before) \in Nat
  BY <1>1, OwnAtCount
<1>6. Cardinality(Before) <= Cardinality(After)
  BY <1>4, <1>5, FS_Subset
<1>7. ASSUME \A t \in pool : ~Holds(chain'[height + 1], t) PROVE After \subseteq Before
  <2> SUFFICES ASSUME NEW p \in After PROVE p \in Before
    OBVIOUS
  <2>1. p[1] \in 1 .. height + 1 /\ p[2] \in DOMAIN chain'[p[1]] /\ chain'[p[1]][p[2]] \in Tx
    BY DEF OwnAt
  <2>2. p[1] # height + 1
    BY <1>2, <1>7, <2>1 DEF Holds
  <2>3. p[1] \in 1 .. height
    BY <1>1, <2>1, <2>2
  <2> QED
    BY <1>2, <2>3 DEF OwnAt
<1> QED
  BY <1>3, <1>4, <1>5, <1>6, <1>7

(* The steps of the call keep QueueInv: what the pool accepts has a nonce of its own,
   and no nonce below the account's. *)
LEMMA CallQueue ==
  ASSUME IndInv, QueueInv, Call
  PROVE  QueueInv'
<1>1. height \in Nat /\ tx \in Tx /\ pool \subseteq Tx
  BY DEF IndInv, TypeOK, ChainTypeOK
<1>2. UNCHANGED <<height, chain, reorgs>>
  BY CallChain
<1>3. AccountNonce' = AccountNonce /\ AccountNonce \in Nat
  BY <1>1, <1>2, AccountNonceType DEF AccountNonce, OwnAt
<1>4. SUFFICES ASSUME reorgs = 0, OnePending, \A t \in pool : t.nonce = AccountNonce,
                      pc = "submit" => tx.nonce <= AccountNonce
               PROVE  QueueInv'
  BY <1>2 DEF QueueInv
<1>5. CASE Compose
  <2>1. pool' = pool /\ tx'.nonce = AccountNonce
    BY <1>5 DEF Compose, chainVars
  <2> QED
    BY <1>3, <1>4, <2>1 DEF QueueInv, OnePending
<1>6. CASE Submit \/ SubmitResent
  <2>1. /\ Accepts(tx) /\ tx' = [tx EXCEPT !.born = height] /\ pool' = pool \cup {tx'}
        /\ pc = "submit" /\ pc' # "submit"
    BY <1>6 DEF Submit, SubmitResent, WaitForBlocks, Raise
  <2>2. tx'.nonce = tx.nonce /\ tx.nonce \in Nat
    BY <1>1, <2>1 DEF Tx
  <2>3. tx.nonce = AccountNonce /\ \A t \in pool : t.nonce # tx.nonce
    BY <1>3, <1>4, <2>1, <2>2 DEF Accepts
  <2>4. pool' = {tx'}
    BY <1>4, <2>1, <2>3
  <2> QED
    BY <1>3, <2>1, <2>2, <2>3, <2>4 DEF QueueInv, OnePending
<1>7. CASE ~Compose /\ ~Submit /\ ~SubmitResent
  <2>1. pool' = pool
    BY <1>7, CallChain
  <2>2. pc' # "submit"
    BY <1>7 DEF Call, SubmitRejected, WaitDone, ScanHit, ScanMiss, ScanBelowGenesis, NextRound,
       Retry, GiveUp, AwaitFinal, Resolve, ResolveRetry, ResolveRaise, FeeRecorded, FeeMissing,
       WaitForBlocks, Raise
  <2> QED
    BY <1>3, <1>4, <2>1, <2>2 DEF QueueInv, OnePending
<1> QED
  BY <1>5, <1>6, <1>7

(* So do the steps of the chain: what a block leaves in the pool keeps its nonce. *)
LEMMA EnvQueue ==
  ASSUME IndInv, QueueInv, Env
  PROVE  QueueInv'
<1>1. /\ height \in Nat /\ pool \subseteq Tx /\ tx \in Tx /\ reorgs \in Nat
      /\ ChainTypeOK
  BY ReorgChainAssumption DEF IndInv, TypeOK, ChainTypeOK, ReorgChainAssumption
<1>2. UNCHANGED <<pc, tx>>
  BY DEF Env, clientVars
<1>3. CASE ProduceBounded
  <2>1. Produce
    BY <1>3 DEF ProduceBounded
  <2>2. /\ pool' \subseteq pool /\ reorgs' = reorgs
        /\ \A t \in pool' : ~Holds(chain'[height + 1], t)
    BY <1>1, <2>1, ProduceAdds
  <2>3. SUFFICES ASSUME reorgs = 0, OnePending, \A t \in pool : t.nonce = AccountNonce,
                        pc = "submit" => tx.nonce <= AccountNonce
                 PROVE  QueueInv'
    BY <2>2 DEF QueueInv
  <2>4. AccountNonce \in Nat /\ AccountNonce' \in Nat /\ AccountNonce <= AccountNonce'
    BY <1>1, <2>1, ProduceNonce
  <2>5. ASSUME NEW t \in pool' PROVE t.nonce = AccountNonce'
    <3>1. \A u \in pool : ~Holds(chain'[height + 1], u)
      BY <2>2, <2>3, <2>5 DEF OnePending
    <3> QED
      BY <1>1, <2>1, <2>2, <2>3, <2>5, <3>1, ProduceNonce
  <2>6. tx.nonce \in Nat
    BY <1>1 DEF Tx
  <2>7. OnePending'
    BY <2>2, <2>3 DEF OnePending
  <2> QED
    BY <1>2, <2>3, <2>4, <2>5, <2>6, <2>7 DEF QueueInv
<1>4. CASE Reorg
  BY <1>1, <1>4 DEF Reorg, QueueInv
<1>5. CASE Finalize \/ Evict
  <2>1. UNCHANGED <<height, chain, reorgs>> /\ pool' \subseteq pool
    BY <1>5 DEF Finalize, Evict
  <2>2. AccountNonce' = AccountNonce
    BY <2>1 DEF AccountNonce, OwnAt
  <2> QED
    BY <1>2, <2>1, <2>2 DEF QueueInv, OnePending
<1> QED
  BY <1>3, <1>4, <1>5 DEF Env

(* Without reorgs two attempts are never pending at the same time. *)
THEOREM AttemptsDoNotQueue == Spec => []OnePending
<1>1. Init => QueueInv
  BY DEF Init, ChainInit, QueueInv, OnePending
<1>2. IndInv /\ QueueInv /\ [Next]_vars => QueueInv'
  <2> SUFFICES ASSUME IndInv, QueueInv, [Next]_vars PROVE QueueInv'
    OBVIOUS
  <2>1. CASE UNCHANGED vars
    BY <2>1 DEF vars, chainVars, clientVars, QueueInv, OnePending, AccountNonce, OwnAt
  <2> QED
    BY <2>1, CallQueue, EnvQueue DEF Next, Stopped
<1>3. QueueInv => OnePending
  BY DEF QueueInv, OnePending
<1> QED
  BY <1>1, <1>2, <1>3, Inductive, PTL DEF Spec
=============================================================================
