------------------------------- MODULE MCEvm -------------------------------
(***************************************************************************)
(* What the EVM suites rest on, one at a time: the submission of their     *)
(* transactions (EvmSubmit) and the contracts these call (MCContracts).    *)
(***************************************************************************)
EXTENDS EvmSubmit, MCContracts

VARIABLE running \* what this behaviour is about

contractVars == <<contract, transientVars, storageVars, memoryVars, callVars>>
evmVars == <<running, vars, contractVars>>

AtRest == contract = "storagetest" /\ length = 0 /\ memory[0] = 0

EvmInit ==
  /\ running \in {"submission", "contracts"}
  /\ Init
  /\ MCInit
  /\ running = "submission" => AtRest
  /\ running = "contracts" => pool = {}

Submitting(A) == running = "submission" /\ A /\ UNCHANGED <<running, contractVars>>

EvmNext ==
  \/ Submitting(Next)
  \/ running = "contracts" /\ MCNext /\ UNCHANGED <<running, vars>>

(* The fairness of EvmSubmit. *)
EvmSpec ==
  /\ EvmInit /\ [][EvmNext]_evmVars
  /\ WF_evmVars(Submitting(Call))
  /\ WF_evmVars(Submitting(Finalize /\ UNCHANGED clientVars))

-----------------------------------------------------------------------------
(* EvmSubmit: every call of sign_and_submit_evm_transaction returns or raises. *)
SubmissionEnds == running = "submission" => CallEnds
=============================================================================
