------------------------------ MODULE MCStaking ------------------------------
(***************************************************************************)
(* The tools that set parachain staking up, exercise it and audit it, one  *)
(* at a time: the set-up scripts (S), the delegator stress test (D), the   *)
(* token economy check against honest chains with varying deposits and     *)
(* rounds (H) and against longer chains with one fault (B), and the check  *)
(* of the first token economy (R).                                         *)
(***************************************************************************)
EXTENDS Integers

CONSTANTS Validators, Number, MaxRound, MaxIter,
          Authors, Backers, AtStake, Unit, MinRound,
          HonestDeposits, HonestRound, HonestHeight, FaultyDeposits, FaultyHeight,
          Old, New, Kept, Stake, Each, FundBatch, Few, MaxSelected,
          Stakes, Amounts, Coefficient, RewardHeight

VARIABLES tool,
          evm, round, mine, last, pc, idx, base, clean, iter,
          blocks, due, fault,
          candidates, queued, validators, force, refused, funded, purse, delegations, used, pool,
          pcS, idxS, listed, done, through, cleanS,
          pools, blocksR, faultR

(* Two collators with different stakes and commissions, and delegators of both. *)
Unequal ==
  LET rich == CHOOSE c \in Authors : TRUE IN
  [c \in Authors |->
     IF c = rich THEN [stake |-> 2, commission |-> 1, delegated |-> [d \in Backers |-> 1]]
                 ELSE [stake |-> 1, commission |-> 0, delegated |-> [d \in Backers |-> 3]]]

(* Every collator of the set-up has a stake of its own. *)
Growing == [c \in Old \cup New |-> c]

D == INSTANCE DelegatorStress

H == INSTANCE TokenEconomy
       WITH Collators <- Authors, Delegators <- Backers,
            Deposits <- HonestDeposits, MaxRound <- HonestRound, Faults <- {"none"},
            MaxHeight <- HonestHeight

B == INSTANCE TokenEconomy
       WITH Collators <- Authors, Delegators <- Backers,
            Deposits <- FaultyDeposits, MaxRound <- MinRound,
            Faults <- {"none", "shifted", "unpaid", "misnoted", "leak"},
            MaxHeight <- FaultyHeight

S == INSTANCE StakingSetup
       WITH Number <- Each, pc <- pcS, idx <- idxS, clean <- cleanS

R == INSTANCE RewardCheckV1
       WITH Collators <- Authors, Delegators <- Backers,
            MaxHeight <- RewardHeight, blocks <- blocksR, fault <- faultR

ASSUME StakingAssumption ==
  /\ D!DelegatorStressAssumption
  /\ H!TokenEconomyAssumption /\ B!TokenEconomyAssumption
  /\ S!StakingSetupAssumption /\ R!RewardCheckV1Assumption

delegatorVars == <<evm, round, mine, last, pc, idx, base, clean, iter>>
economyVars == <<blocks, due, fault>>
setupVars == <<candidates, queued, validators, force, refused, funded, purse, delegations, used,
               pool, pcS, idxS, listed, done, through, cleanS>>
rewardVars == <<pools, blocksR, faultR>>
MCVars == <<tool, delegatorVars, economyVars, setupVars, rewardVars>>

MCInit ==
  /\ tool \in {"delegators", "honest", "faulty", "setup", "rewards"}
  /\ D!Init
  /\ tool # "delegators" => evm = TRUE /\ mine = {} /\ last = 0
  /\ H!Init
  /\ S!Init
  /\ R!Init
  /\ tool # "rewards" => \A c \in Authors : R!Pool(0)[c] = [stake |-> 1, delegators |-> <<>>]

MCNext ==
  \/ tool = "delegators" /\ D!Next /\ UNCHANGED <<tool, economyVars, setupVars, rewardVars>>
  \/ tool = "honest" /\ H!Next /\ UNCHANGED <<tool, delegatorVars, setupVars, rewardVars>>
  \/ tool = "faulty" /\ B!Next /\ UNCHANGED <<tool, delegatorVars, setupVars, rewardVars>>
  \/ tool = "setup" /\ S!Next /\ UNCHANGED <<tool, delegatorVars, economyVars, rewardVars>>
  \/ tool = "rewards" /\ R!Next /\ UNCHANGED <<tool, delegatorVars, economyVars, setupVars>>

MCSpec == MCInit /\ [][MCNext]_MCVars

-----------------------------------------------------------------------------
(* The variables of all tools keep their types. *)
TypesOK == D!TypeOK /\ B!TypeOK /\ S!TypeOK /\ R!TypeOK

(* DelegatorStress: a setup without failures leaves the delegator with the number
   of collators asked for. *)
AsManyAsAsked == D!AsManyAsAsked

(* DelegatorStress: the tool delegates only in rounds that are fresh for the
   delegator. *)
FreshRound == D!FreshRound

(* TokenEconomy: a chain that does everything right passes each check. *)
HonestChainPasses == IF tool = "honest" THEN H!HonestChainPasses ELSE B!HonestChainPasses

(* TokenEconomy: a fault of the chain does not stay unseen. *)
FaultsAreSeen == B!FaultsAreSeen

(* StakingSetup: the collators set up serve once the forced rounds have begun. *)
CollatorsServe == S!CollatorsServe

(* StakingSetup: every collator gets the number of delegators asked for. *)
EvenlySpread == S!EvenlySpread

(* RewardCheckV1: the check passes exactly on rightly paid blocks. *)
VerdictTrue == R!VerdictTrue
=============================================================================
