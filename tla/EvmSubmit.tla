----------------------------- MODULE EvmSubmit -----------------------------
(***************************************************************************)
(* One call of sign_and_submit_evm_transaction (tools/peaq_eth_utils.py):  *)
(* an Ethereum transaction of a fixed nonce is sent, waited for, looked up *)
(* by its hash, and on failure sent again with a byte appended to its      *)
(* data, which changes the hash and keeps the nonce.                       *)
(***************************************************************************)
EXTENDS ReorgChain

CONSTANTS Sends,   \* range(3) of the outer loop
          Lookups, \* range(3) of the inner loop
          MaxAhead \* bound: blocks produced in a behaviour

ASSUME EvmSubmitAssumption ==
  /\ {Sends, Lookups} \subseteq Nat \ {0}
  /\ Attempts = 1 .. Sends
  /\ MaxAhead \in Nat

VARIABLES pc,      \* the step the call is at
          attempt, \* number of the send
          tx,      \* the transaction as signed for this attempt
          seen,    \* receipt.blockNumber of wait_w3_tx; 0 once it timed out
          misses,  \* TransactionNotFound answers in the inner loop
          result   \* what is returned or raised

clientVars == <<pc, attempt, tx, seen, misses, result>>
vars == <<chainVars, clientVars>>

Result == [kind : {"none", "ValueError", "IOError"}] \cup [kind : {"receipt"}, num : Nat]

TypeOK ==
  /\ ChainTypeOK
  /\ pc \in {"sign", "await_receipt", "await_final", "lookup", "stopped"}
  /\ attempt \in Attempts
  /\ tx \in Tx
  /\ seen \in 0 .. height
  /\ misses \in 0 .. Lookups
  /\ result \in Result

(* The caller has read the nonce.  Signatures are deterministic, so the pool may
   know the first transaction from a call that was interrupted. *)
Init ==
  /\ height = 0
  /\ chain = [n \in 1 .. 0 |-> <<>>]
  /\ finalized = 0
  /\ reorgs = 0
  /\ pc = "sign"
  /\ attempt = 1
  /\ tx = [id |-> 1, nonce |-> AccountNonce, born |-> 0]
  /\ pool \in {{}, {tx}}
  /\ seen = 0
  /\ misses = 0
  /\ result = [kind |-> "none"]

-----------------------------------------------------------------------------
Raise(kind) == result' = [kind |-> kind] /\ pc' = "stopped"

(* Mutant: reads the account nonce again for every attempt. *)
SendWithFreshNonce ==
  /\ pc = "sign"
  /\ tx' = [tx EXCEPT !.nonce = AccountNonce]
  /\ Accepts(tx')
  /\ pool' = pool \cup {tx'}
  /\ pc' = "await_receipt"
  /\ UNCHANGED <<height, chain, finalized, reorgs, attempt, seen, misses, result>>

(* send_raw_tx hands out the hash. *)
Send ==
  /\ pc = "sign"
  /\ Accepts(tx)
  /\ pool' = pool \cup {tx}
  /\ pc' = "await_receipt"
  /\ UNCHANGED <<height, chain, finalized, reorgs, attempt, tx, seen, misses, result>>

(* "already known" is no error: the hash of the signed transaction is used. *)
SendKnown ==
  /\ pc = "sign"
  /\ tx \in pool
  /\ pc' = "await_receipt"
  /\ UNCHANGED <<chainVars, attempt, tx, seen, misses, result>>

(* Every other refusal, a used nonce or a pooled transaction of equal nonce, is
   raised as it is. *)
SendRefused ==
  /\ pc = "sign"
  /\ tx \notin pool /\ ~Accepts(tx)
  /\ Raise("ValueError")
  /\ UNCHANGED <<chainVars, attempt, tx, seen, misses>>

(* wait_for_transaction_receipt finds tx in the best chain's block n. *)
ReceiptSeen ==
  /\ pc = "await_receipt"
  /\ \E n \in 1 .. height : Holds(chain[n], tx) /\ seen' = n
  /\ pc' = "await_final"
  /\ UNCHANGED <<chainVars, attempt, tx, misses, result>>

(* TimeExhausted after ETH_TIMEOUT seconds is swallowed. *)
ReceiptTimeout ==
  /\ pc = "await_receipt"
  /\ seen' = 0
  /\ pc' = "lookup"
  /\ UNCHANGED <<chainVars, attempt, tx, misses, result>>

(* Mutant: does not look at the finalized head. *)
FinalAssumed ==
  /\ pc = "await_final"
  /\ pc' = "lookup"
  /\ UNCHANGED <<chainVars, attempt, tx, seen, misses, result>>

(* The finalized head has reached the block number of the first receipt. *)
FinalReached ==
  /\ pc = "await_final"
  /\ finalized >= seen
  /\ pc' = "lookup"
  /\ UNCHANGED <<chainVars, attempt, tx, seen, misses, result>>

LookupHit ==
  /\ pc = "lookup"
  /\ misses < Lookups
  /\ \E n \in 1 .. height :
       Holds(chain[n], tx) /\ result' = [kind |-> "receipt", num |-> n]
  /\ pc' = "stopped"
  /\ UNCHANGED <<chainVars, attempt, tx, seen, misses>>

(* Mutant: the misses are not counted. *)
LookupMissForever ==
  /\ pc = "lookup"
  /\ misses < Lookups
  /\ \A n \in 1 .. height : ~Holds(chain[n], tx)
  /\ UNCHANGED <<chainVars, pc, attempt, tx, seen, misses, result>>

(* Mutant: one lookup too many. *)
LookupMissOnceMore ==
  /\ pc = "lookup"
  /\ misses <= Lookups
  /\ \A n \in 1 .. height : ~Holds(chain[n], tx)
  /\ misses' = misses + 1
  /\ UNCHANGED <<chainVars, pc, attempt, tx, seen, result>>

LookupMiss ==
  /\ pc = "lookup"
  /\ misses < Lookups
  /\ \A n \in 1 .. height : ~Holds(chain[n], tx)
  /\ misses' = misses + 1
  /\ UNCHANGED <<chainVars, pc, attempt, tx, seen, result>>

(* The inner loop's else: '00' is appended to the data and the outer loop signs
   again, with the nonce of tx. *)
Resign ==
  /\ pc = "lookup"
  /\ misses = Lookups
  /\ attempt < Sends
  /\ attempt' = attempt + 1
  /\ tx' = [tx EXCEPT !.id = attempt', !.born = height]
  /\ misses' = 0
  /\ pc' = "sign"
  /\ UNCHANGED <<chainVars, seen, result>>

GiveUp ==
  /\ pc = "lookup"
  /\ misses = Lookups
  /\ attempt = Sends
  /\ Raise("IOError")
  /\ UNCHANGED <<chainVars, attempt, tx, seen, misses>>

Stopped == pc = "stopped" /\ UNCHANGED vars

-----------------------------------------------------------------------------
Call ==
  \/ Send \/ SendKnown \/ SendRefused
  \/ ReceiptSeen \/ ReceiptTimeout \/ FinalReached
  \/ LookupHit \/ LookupMiss \/ Resign \/ GiveUp

ProduceBounded == height < MaxAhead /\ Produce

Env == (ProduceBounded \/ Reorg \/ Finalize \/ Evict) /\ UNCHANGED clientVars

Next == Call \/ Env \/ Stopped

Spec == Init /\ [][Next]_vars

(* The process is scheduled and the relay chain finalizes; a stalled block
   production only lets the wait time out. *)
FairSpec ==
  Spec /\ WF_vars(Call) /\ WF_vars(Finalize /\ UNCHANGED clientVars)

-----------------------------------------------------------------------------
(* However often it is signed again, the transaction is executed at most once. *)
ExecutedAtMostOnce == Cardinality(OwnAt(chain, 1, height)) <= 1

(* The call is a one-shot transaction: its resends, the pool and the reorgs do not
   show but in when it is executed. *)
O == INSTANCE OneShot
       WITH executed <- Cardinality(OwnAt(chain, 1, height)),
            settled <- Cardinality(OwnAt(chain, 1, finalized)),
            answer <- result.kind

OneShotCall == O!Spec

(* Without reorgs a returned receipt is of a block that holds the transaction of
   the last attempt, and of a finalized one unless the wait timed out. *)
ReceiptTrue ==
  result.kind = "receipt" /\ reorgs = 0 =>
    /\ result.num \in 1 .. height
    /\ Holds(chain[result.num], tx)
    /\ seen # 0 => result.num <= finalized

(* Every call returns or raises. *)
CallEnds == <>(pc = "stopped")
=============================================================================
