--------------------------- MODULE DelegatorStress ---------------------------
(***************************************************************************)
(* The delegator stress tools (tools/stress/stress_delegator_multi_*.py):  *)
(* in every iteration one delegator joins a collator, delegates to others, *)
(* is counted and rewarded, and leaves.  The chain takes one delegation    *)
(* per delegator and round; the tools wait for a new session in between.   *)
(* The EVM variant forces rounds and checks statuses, the substrate        *)
(* variant has both commented out.                                         *)
(***************************************************************************)
EXTENDS Integers, FiniteSets

CONSTANTS Validators, \* number of collators the chain lists
          Number,     \* --number
          MaxRound,   \* bound: rounds in a behaviour
          MaxIter     \* bound: iterations of main's loop (10000)

DelegatorStressAssumption ==
  {Validators, Number, MaxRound, MaxIter} \subseteq Nat \ {0}

VARIABLES
  evm,      \* the variant that runs
  round,    \* the chain's session, and round
  mine,     \* collators the delegator delegates to
  last,     \* round of its last delegation
  pc, idx,  \* the step of the tool, and delegations after the first one
  base,     \* session of the block of the last delegation
  clean,    \* every delegation was executed, every wait saw its session
  iter      \* completed iterations

chain == <<evm, round>>
delegator == <<mine, last>>
vars == <<chain, delegator, pc, idx, base, clean, iter>>

TypeOK ==
  /\ evm \in BOOLEAN
  /\ round \in 1 .. MaxRound
  /\ mine \subseteq 1 .. Validators
  /\ last \in 0 .. round
  /\ pc \in {"start", "leave_first", "join", "force", "wait", "delegate", "count",
             "reward", "leave", "returned", "IOError", "ValueError", "KeyError"}
  /\ idx \in 0 .. Validators - 1
  /\ base \in 0 .. round
  /\ clean \in BOOLEAN
  /\ iter \in 0 .. MaxIter

(* A former run may have left delegations behind. *)
Init ==
  /\ evm \in BOOLEAN
  /\ round = 1
  /\ mine \in {{}, {1}}
  /\ last \in {0, 1}
  /\ pc = "start"
  /\ idx = 0
  /\ base = 0
  /\ clean = TRUE
  /\ iter = 0

-----------------------------------------------------------------------------
NewRound ==
  /\ round < MaxRound
  /\ round' = round + 1
  /\ UNCHANGED <<evm, delegator, pc, idx, base, clean, iter>>

CanJoin == mine = {} /\ last # round
CanDelegate(v) == mine # {} /\ v \notin mine /\ last # round

(* main, up to the loop. *)
Start ==
  /\ pc = "start"
  /\ pc' = IF Validators < Number THEN "returned"
           ELSE IF evm THEN "leave_first" ELSE "join"
  /\ UNCHANGED <<chain, delegator, idx, base, clean, iter>>

(* The first forced round is not waited for.  A delegator that has nothing to
   leave makes the gas estimation raise, which is caught here. *)
LeaveFirst ==
  /\ pc = "leave_first"
  /\ mine' = {}
  /\ pc' = "join"
  /\ UNCHANGED <<chain, last, idx, base, clean, iter>>

(* A forced round, or a leave, that fails. *)
Fail ==
  /\ \/ pc = "force" /\ evm
     \/ pc \in {"leave_first", "leave"}
  /\ pc' = "IOError"
  /\ UNCHANGED <<chain, delegator, idx, base, clean, iter>>

-----------------------------------------------------------------------------
Executed(v) ==
  /\ mine' = mine \cup {v}
  /\ last' = round
  /\ UNCHANGED clean

NotExecuted == clean' = FALSE /\ UNCHANGED delegator

(* setup_delegators.  The session is remembered of the delegation's own block. *)
Join ==
  /\ pc = "join"
  /\ CanJoin
  /\ Executed(1)
  /\ base' = round
  /\ pc' = IF Number = 1 THEN "count" ELSE "force"
  /\ idx' = 0
  /\ UNCHANGED <<chain, iter>>

(* A call that cannot be executed: the EVM variant's gas estimation raises, the
   substrate variant does not look at its receipt. *)
JoinRefused ==
  /\ pc = "join"
  /\ ~CanJoin
  /\ NotExecuted
  /\ base' = round
  /\ pc' = IF evm THEN "ValueError" ELSE IF Number = 1 THEN "count" ELSE "force"
  /\ idx' = 0
  /\ UNCHANGED <<chain, iter>>

(* A join that passes the estimation and is reverted in its block raises. *)
JoinReverted ==
  /\ pc = "join"
  /\ evm
  /\ CanJoin
  /\ NotExecuted
  /\ pc' = "IOError"
  /\ UNCHANGED <<chain, idx, base, iter>>

(* Mutant: the list of collators is taken to be long enough. *)
OthersUnsliced == Number

(* The slice validators[1:][:number]. *)
Others == IF Number < Validators - 1 THEN Number ELSE Validators - 1

(* Mutant: the next delegation does not wait. *)
DelegationDoneUnforced ==
  pc' = IF idx' < Others THEN "delegate" ELSE "count"

DelegationDone == pc' = "force"

Delegate ==
  /\ pc = "delegate"
  /\ idx < Others
  /\ CanDelegate(idx + 2)
  /\ Executed(idx + 2)
  /\ idx' = idx + 1
  /\ base' = round
  /\ DelegationDone
  /\ UNCHANGED <<chain, iter>>

DelegateRefused ==
  /\ pc = "delegate"
  /\ idx < Others
  /\ ~CanDelegate(idx + 2)
  /\ NotExecuted
  /\ idx' = idx + 1
  /\ base' = round
  /\ IF evm THEN pc' = "ValueError" ELSE DelegationDone
  /\ UNCHANGED <<chain, iter>>

(* A delegation that passes the estimation and is reverted in its block: its
   status is not looked at. *)
DelegateReverted ==
  /\ pc = "delegate"
  /\ idx < Others
  /\ evm
  /\ CanDelegate(idx + 2)
  /\ NotExecuted
  /\ idx' = idx + 1
  /\ base' = round
  /\ DelegationDone
  /\ UNCHANGED <<chain, iter>>

ForceRound ==
  /\ pc = "force"
  /\ pc' = "wait"
  /\ UNCHANGED <<chain, delegator, idx, base, clean, iter>>

AfterWait == pc' = IF idx < Others THEN "delegate" ELSE "count"

(* wait_next_session *)
SessionSeen ==
  /\ pc = "wait"
  /\ round # base
  /\ AfterWait
  /\ UNCHANGED <<chain, delegator, idx, base, clean, iter>>

(* After 20 polls it prints that it failed, and returns. *)
WaitFailed ==
  /\ pc = "wait"
  /\ round = base
  /\ AfterWait
  /\ clean' = FALSE
  /\ UNCHANGED <<chain, delegator, idx, base, iter>>

-----------------------------------------------------------------------------
(* check_delegator_number: another number is reported by a field that does not
   exist. *)
Count ==
  /\ pc = "count"
  /\ pc' = IF mine = {} THEN "IOError"
           ELSE IF Cardinality(mine) = Number THEN "reward" ELSE "KeyError"
  /\ UNCHANGED <<chain, delegator, idx, base, clean, iter>>

(* check_delegator_reward_event: every sampled block rewards, or one does not. *)
Reward ==
  /\ pc = "reward"
  /\ pc' \in {"leave", "IOError"}
  /\ UNCHANGED <<chain, delegator, idx, base, clean, iter>>

(* Leaving, the check for no delegations, and the next iteration. *)
Leave ==
  /\ pc = "leave"
  /\ iter < MaxIter
  /\ mine' = {}
  /\ iter' = iter + 1
  /\ pc' = "join"
  /\ UNCHANGED <<chain, last, idx, base, clean>>

Stopped ==
  /\ \/ pc \in {"returned", "IOError", "ValueError", "KeyError"}
     \/ iter = MaxIter
  /\ UNCHANGED vars

Next ==
  \/ NewRound \/ Start \/ LeaveFirst \/ Fail \/ Join \/ JoinRefused \/ JoinReverted \/ Delegate
  \/ DelegateRefused \/ DelegateReverted \/ ForceRound \/ SessionSeen \/ WaitFailed
  \/ Count \/ Reward \/ Leave \/ Stopped

Spec == Init /\ [][Next]_vars

-----------------------------------------------------------------------------
(* --number is the "Number of collators one delegator want to delegate": as long as
   no wait has failed and every delegation was executed, a setup leaves the
   delegator with the number of collators asked for.  The slice does so only for
   one, and for as many as there are. *)
AsManyAsAsked == pc = "count" /\ clean => Cardinality(mine) = Number

(* Unless a wait has failed, the tool delegates only in rounds that are fresh for
   the delegator, in the first round of a later iteration too. *)
FreshRound ==
  clean /\ (pc = "delegate" \/ (pc = "join" /\ iter > 0)) => last # round
=============================================================================
