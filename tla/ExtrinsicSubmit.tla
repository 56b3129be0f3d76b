-------------------------- MODULE ExtrinsicSubmit --------------------------
(***************************************************************************)
(* One call of the patched ExtrinsicBatch._execute_extrinsic_batch         *)
(* (tools/monkey/monkey_reorg_batch.py) over the patched                   *)
(* SubstrateInterface.submit_extrinsic (tools/monkey/                      *)
(* monkey_3rd_substrate_interface.py), against a chain that reorganises.   *)
(* Under pytest the fee recorder of tests/substrate_utils.py wraps the     *)
(* submission.  Every RPC is a step of its own, so blocks are produced,    *)
(* finalized and replaced between any two of them.                         *)
(***************************************************************************)
EXTENDS ReorgChain

CONSTANTS WaitBlocks,      \* wait_for_n_blocks(4)
          SearchDepth,     \* range(8)
          BacktraceDepth,  \* BACKTRACE_BLOCK_NUM
          BacktraceRounds, \* range(4)
          RetryTimes,      \* RETRY_TIMES
          UnderPytest,     \* conftest.py has installed the fee recorder, and the
                           \* call goes to the parachain: it records no other
          MaxLag,          \* bound: blocks produced beyond the awaited one
          MaxOthers        \* bound: extrinsics of everybody else on the chain

ASSUME ExtrinsicSubmitAssumption ==
  /\ {WaitBlocks, SearchDepth, BacktraceDepth, BacktraceRounds, RetryTimes}
       \subseteq Nat \ {0}
  /\ Attempts = 1 .. RetryTimes
  /\ UnderPytest \in BOOLEAN
  /\ {MaxLag, MaxOthers} \subseteq Nat

VARIABLES pc,      \* the step the call is at
          attempt, \* i + 1 of the retry loop
          tx,      \* the signed extrinsic (self.submit_extrinsic)
          target,  \* the height wait_for_n_blocks waits for
          now,     \* now_block_num
          offset,  \* i of the block scan
          round,   \* 0: search of submit_extrinsic, j + 1: backtrace j
          found,   \* the identifier "number-index", or NoPos
          receipt  \* what is returned or raised

clientVars == <<pc, attempt, tx, target, now, offset, round, found, receipt>>
vars == <<chainVars, clientVars>>

NoPos == [num |-> 0, idx |-> 0]
Pos == [num : Nat, idx : Nat]

(* held is the extrinsic the receipt's events come from; the hash written into
   the receipt is always that of tx. *)
Receipt ==
  [kind : {"none"}] \cup
  [kind : {"submit", "backtrace"}, num : Nat, idx : Nat, held : Tx \cup Others] \cup
  [kind : {"raised"}, reason : {"rejected", "unindexed", "vanished", "rpc", "exhausted"}]

Returned == receipt.kind \in {"submit", "backtrace"}
GaveUp == receipt.kind = "raised" /\ receipt.reason = "exhausted"

TypeOK ==
  /\ ChainTypeOK
  /\ pc \in {"compose", "submit", "wait", "scan", "await_final", "resolve",
             "fee", "stopped"}
  /\ attempt \in Attempts
  /\ tx \in Tx
  /\ target \in Nat
  /\ now \in 0 .. height
  /\ offset \in Nat
  /\ round \in 0 .. BacktraceRounds
  /\ found \in Pos
  /\ receipt \in Receipt

Init ==
  /\ ChainInit
  /\ pc = "compose"
  /\ attempt = 1
  /\ tx = [id |-> 1, nonce |-> 0, born |-> 0]
  /\ target = 0
  /\ now = 0
  /\ offset = 0
  /\ round = 0
  /\ found = NoPos
  /\ receipt = [kind |-> "none"]

-----------------------------------------------------------------------------
Raise(reason) ==
  /\ receipt' = [kind |-> "raised", reason |-> reason]
  /\ pc' = "stopped"

(* wait_for_n_blocks(substrate, 4), then a scan from the head down. *)
WaitForBlocks(r) ==
  /\ round' = r
  /\ target' = height + WaitBlocks
  /\ found' = NoPos
  /\ pc' = "wait"

(* Mutant: counts the nonce up by itself. *)
ComposeCounting ==
  /\ pc = "compose"
  /\ tx' = [id |-> attempt, nonce |-> attempt - 1, born |-> height]
  /\ pc' = "submit"
  /\ UNCHANGED <<chainVars, attempt, target, now, offset, round, found, receipt>>

(* origin_execute_extrinsic_batch composes the batch, reads the account nonce
   from the best block and signs. *)
Compose ==
  /\ pc = "compose"
  /\ tx' = [id |-> attempt, nonce |-> AccountNonce, born |-> height]
  /\ pc' = "submit"
  /\ UNCHANGED <<chainVars, attempt, target, now, offset, round, found, receipt>>

(* author_submitExtrinsic answers with a hash. *)
Submit ==
  /\ pc = "submit"
  /\ Accepts(tx)
  /\ tx' = [tx EXCEPT !.born = height]
  /\ pool' = pool \cup {tx'}
  /\ WaitForBlocks(0)
  /\ UNCHANGED <<height, chain, finalized, reorgs, attempt, now, offset, receipt>>

(* It answers with an error: "Invalid Transaction" or "Priority is too low",
   which the batch level does not take for 'invalid'. *)
SubmitRejected ==
  /\ pc = "submit"
  /\ ~Accepts(tx)
  /\ Raise("rejected")
  /\ UNCHANGED <<chainVars, attempt, tx, target, now, offset, round, found>>

(* The reply is lost: patched_rpc_request reconnects and sends the extrinsic a
   second time, and the pool answers "Already Imported". *)
SubmitResent ==
  /\ pc = "submit"
  /\ Accepts(tx)
  /\ tx' = [tx EXCEPT !.born = height]
  /\ pool' = pool \cup {tx'}
  /\ Raise("rejected")
  /\ UNCHANGED <<height, chain, finalized, reorgs, attempt, target, now, offset,
                 round, found>>

(* Mutant: takes the awaited height for the head without looking. *)
WaitDoneBlind ==
  /\ pc = "wait"
  /\ now' = target
  /\ offset' = 0
  /\ pc' = "scan"
  /\ UNCHANGED <<chainVars, attempt, tx, target, round, found, receipt>>

WaitDone ==
  /\ pc = "wait"
  /\ height >= target
  /\ now' = height
  /\ offset' = 0
  /\ pc' = "scan"
  /\ UNCHANGED <<chainVars, attempt, tx, target, round, found, receipt>>

Scanned == now - offset

(* Mutant: a search looks as many blocks back as were waited for. *)
DepthAsWaited == WaitBlocks

Depth == IF round = 0 THEN SearchDepth ELSE BacktraceDepth
(* Only submit_extrinsic stops before the genesis block. *)
ScanOver == offset = Depth \/ (round = 0 /\ Scanned < 1)

(* Mutant: builds the identifier from the head's number. *)
ScanHitAtHead ==
  /\ pc = "scan"
  /\ ~ScanOver
  /\ Scanned >= 1
  /\ Holds(chain[Scanned], tx)
  /\ found' = [num |-> now, idx |-> Position(chain[Scanned], tx)]
  /\ pc' = IF round = 0 THEN "await_final" ELSE "resolve"
  /\ UNCHANGED <<chainVars, attempt, tx, target, now, offset, round, receipt>>

ScanHit ==
  /\ pc = "scan"
  /\ ~ScanOver
  /\ Scanned >= 1
  /\ Holds(chain[Scanned], tx)
  /\ found' = [num |-> Scanned, idx |-> Position(chain[Scanned], tx)]
  /\ pc' = IF round = 0 THEN "await_final" ELSE "resolve"
  /\ UNCHANGED <<chainVars, attempt, tx, target, now, offset, round, receipt>>

(* Mutant: asks for the same block again. *)
ScanMissAgain ==
  /\ pc = "scan"
  /\ ~ScanOver
  /\ Scanned = 0 \/ (Scanned >= 1 /\ ~Holds(chain[Scanned], tx))
  /\ UNCHANGED <<chainVars, pc, attempt, tx, target, now, offset, round, found, receipt>>

ScanMiss ==
  /\ pc = "scan"
  /\ ~ScanOver
  /\ Scanned = 0 \/ (Scanned >= 1 /\ ~Holds(chain[Scanned], tx))
  /\ offset' = offset + 1
  /\ UNCHANGED <<chainVars, pc, attempt, tx, target, now, round, found, receipt>>

(* _backtrace_blocks_by_extrinsic asks for a negative block number. *)
ScanBelowGenesis ==
  /\ pc = "scan"
  /\ ~ScanOver
  /\ Scanned < 0
  /\ Raise("rpc")
  /\ UNCHANGED <<chainVars, attempt, tx, target, now, offset, round, found>>

(* Not found: submit_extrinsic raises '... invalid' and the batch level starts
   to backtrace, or a backtrace round ends and the next begins. *)
NextRound ==
  /\ pc = "scan"
  /\ ScanOver
  /\ round < BacktraceRounds
  /\ WaitForBlocks(round + 1)
  /\ UNCHANGED <<chainVars, attempt, tx, now, offset, receipt>>

(* All rounds failed: the batch is composed and signed again. *)
Retry ==
  /\ pc = "scan"
  /\ ScanOver
  /\ round = BacktraceRounds
  /\ attempt < RetryTimes
  /\ attempt' = attempt + 1
  /\ round' = 0
  /\ pc' = "compose"
  /\ UNCHANGED <<chainVars, tx, target, now, offset, found, receipt>>

GiveUp ==
  /\ pc = "scan"
  /\ ScanOver
  /\ round = BacktraceRounds
  /\ attempt = RetryTimes
  /\ Raise("exhausted")
  /\ UNCHANGED <<chainVars, attempt, tx, target, now, offset, round, found>>

(* Mutant: one block short. *)
AwaitFinalEarly ==
  /\ pc = "await_final"
  /\ finalized >= found.num - 1
  /\ pc' = "resolve"
  /\ UNCHANGED <<chainVars, attempt, tx, target, now, offset, round, found, receipt>>

(* _wait_finalization compares block numbers only. *)
AwaitFinal ==
  /\ pc = "await_final"
  /\ finalized >= found.num
  /\ pc' = "resolve"
  /\ UNCHANGED <<chainVars, attempt, tx, target, now, offset, round, found, receipt>>

(* create_from_extrinsic_identifier and retrieve_extrinsic: whatever the best
   chain has at "number-index" now. *)
Resolve ==
  /\ pc = "resolve"
  /\ found.idx \in DOMAIN chain[found.num]
  /\ receipt' = [kind |-> IF round = 0 THEN "submit" ELSE "backtrace",
                 num |-> found.num, idx |-> found.idx,
                 held |-> chain[found.num][found.idx]]
  /\ pc' = IF round = 0 /\ UnderPytest THEN "fee" ELSE "stopped"
  /\ UNCHANGED <<chainVars, attempt, tx, target, now, offset, round, found>>

(* ExtrinsicNotFound: submit_extrinsic turns it into '... invalid'. *)
ResolveRetry ==
  /\ pc = "resolve"
  /\ round = 0
  /\ found.idx \notin DOMAIN chain[found.num]
  /\ WaitForBlocks(1)
  /\ UNCHANGED <<chainVars, attempt, tx, now, offset, receipt>>

(* ExtrinsicNotFound inside the batch level's handler goes to the caller. *)
ResolveRaise ==
  /\ pc = "resolve"
  /\ round > 0
  /\ found.idx \notin DOMAIN chain[found.num]
  /\ Raise("vanished")
  /\ UNCHANGED <<chainVars, attempt, tx, target, now, offset, round, found>>

(* Mutant: records the fee without looking for the hash. *)
FeeRecordedUnchecked ==
  /\ pc = "fee"
  /\ pc' = "stopped"
  /\ UNCHANGED <<chainVars, attempt, tx, target, now, offset, round, found, receipt>>

(* monkey_submit_extrinsic_for_fee_weight looks for the hash in the receipt's
   block, at any index. *)
FeeRecorded ==
  /\ pc = "fee"
  /\ Holds(chain[receipt.num], tx)
  /\ pc' = "stopped"
  /\ UNCHANGED <<chainVars, attempt, tx, target, now, offset, round, found, receipt>>

FeeMissing ==
  /\ pc = "fee"
  /\ ~Holds(chain[receipt.num], tx)
  /\ Raise("unindexed")
  /\ UNCHANGED <<chainVars, attempt, tx, target, now, offset, round, found>>

Stopped == pc = "stopped" /\ UNCHANGED vars

-----------------------------------------------------------------------------
Call ==
  \/ Compose \/ Submit \/ SubmitRejected \/ SubmitResent
  \/ WaitDone
  \/ ScanHit \/ ScanMiss \/ ScanBelowGenesis \/ NextRound \/ Retry \/ GiveUp
  \/ AwaitFinal \/ Resolve \/ ResolveRetry \/ ResolveRaise
  \/ FeeRecorded \/ FeeMissing

(* The bound on the chain: production pauses MaxLag blocks past the height the
   call waits for, so the call is never starved by it. *)
ProduceBounded == height < target + MaxLag /\ Produce

OthersBounded ==
  Cardinality({p \in (1 .. height) \X (1 .. MaxBlockLen) :
                 p[2] \in DOMAIN chain[p[1]] /\ chain[p[1]][p[2]] \in Others}) <= MaxOthers

Env ==
  /\ ProduceBounded \/ Reorg \/ Finalize \/ Evict
  /\ OthersBounded'
  /\ UNCHANGED clientVars

Next == Call \/ Env \/ Stopped

Spec == Init /\ [][Next]_vars

(* Collators keep producing, the relay chain keeps finalizing, and the process
   that runs the call is scheduled. *)
Fairness ==
  /\ WF_vars(Call)
  /\ WF_vars(ProduceBounded /\ OthersBounded' /\ UNCHANGED clientVars)
  /\ WF_vars(Finalize /\ UNCHANGED clientVars)

FairSpec == Spec /\ Fairness

-----------------------------------------------------------------------------
(* A receipt of submit_extrinsic is of a finalized position, and that position
   still holds the extrinsic whose events the receipt carries: no later reorg
   can take back what the caller has read. *)
ReceiptFinal ==
  receipt.kind = "submit" =>
    /\ receipt.num \in 1 .. finalized
    /\ receipt.idx \in DOMAIN chain[receipt.num]
    /\ chain[receipt.num][receipt.idx] = receipt.held

(* Without reorgs every receipt, found by the submission's own search or by a
   backtrace, carries the events of the extrinsic whose hash it is labelled
   with. *)
ReceiptOwnWithoutReorg ==
  reorgs = 0 /\ Returned => receipt.held = tx

(* Under pytest, reorgs or not, a receipt of submit_extrinsic that reaches the
   caller is of a finalized block that contains the submitted extrinsic: the fee
   recorder's search turns the other cases into an exception. *)
FeeCheckedBlock ==
  UnderPytest /\ pc = "stopped" /\ receipt.kind = "submit" =>
    /\ receipt.num \in 1 .. finalized
    /\ Holds(chain[receipt.num], tx)

(* Without reorgs an attempt is abandoned, for the next one or for good, only when
   no block up to the head of its last search has its extrinsic: the searches leave
   no block out, however many come between a wait and the reading of the head. *)
AbandonedUnseen ==
  [][/\ attempt' # attempt \/ (GaveUp' /\ ~GaveUp)
     /\ reorgs = 0
     => \A n \in 1 .. now : ~Holds(chain[n], tx)]_vars

(* Without reorgs two attempts are never pending at the same time, however long the
   pool keeps them: a retry takes its nonce from the chain, so that it competes with
   a pending attempt, and is refused, instead of queueing up behind it. *)
OnePending == reorgs = 0 => \A t, u \in pool : t = u

(* A call that returns has executed its batch once: a test that transfers a token
   with one call reads the balances right after it, and asserts that they differ by
   the amount of one transfer. *)
ExecutedOnce == Returned => Cardinality(OwnAt(chain, 1, height)) = 1

(* The hash in the receipt is that of the extrinsic the receipt reads from: "The
   extrinsic disappears, might due to reorg, the upper level should retry". *)
ReceiptOwn == Returned => receipt.held = tx

(* Every call returns or raises. *)
CallEnds == <>(pc = "stopped")
=============================================================================
