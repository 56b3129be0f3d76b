----------------------------- MODULE MCOperator -----------------------------
(***************************************************************************)
(* The scripts an operator runs against the chains, one at a time: the     *)
(* runtime upgrade (RuntimeUpgrade, extended), the funding of the sudo     *)
(* account (F), the launch of the local network with its cores (L), the    *)
(* paying out of a multisig wallet (W) and the set-up of assets (A).  The  *)
(* state of the scripts that do not run stays what it was.                 *)
(***************************************************************************)
EXTENDS RuntimeUpgrade

CONSTANTS Candidates, MaxBalance,
          CoreMap, ToolCores, NumCores, MaxTries, MaxLaunches,
          Services, Amounts, Deposit,
          Callers, Fixed, FirstId, LastId, NoId, Tokens

VARIABLES script,
          pcF, kp, sudo, balance, initial, outcomeF,
          pcL, owner, tries, ids, missed, setup, reported, runs,
          flow, now, wallet, open, pcW, served, cost, info, events, met, outcomeW,
          assets, located, priced, pcA, id, step, got, made, minted, approved

F == INSTANCE SudoFunding WITH pc <- pcF, outcome <- outcomeF

L == INSTANCE CoretimeLaunch WITH pc <- pcL

(* What the runs take for CoreMap: parachains of two cores and of one core. *)
TwoAndOne == <<2, 1>>

W == INSTANCE Multisig WITH pc <- pcW, outcome <- outcomeW

A == INSTANCE AssetSetup WITH pc <- pcA, First <- FirstId, Last <- LastId

ASSUME OperatorAssumption ==
       /\ F!SudoFundingAssumption /\ L!CoretimeLaunchAssumption
       /\ W!MultisigAssumption /\ A!AssetSetupAssumption

fundVars == <<pcF, kp, sudo, balance, initial, outcomeF>>
launchVars == <<pcL, owner, tries, ids, missed, setup, reported, runs>>
multisigVars == <<flow, now, wallet, open, pcW, served, cost, info, events, met, outcomeW>>
assetVars == <<assets, located, priced, pcA, id, step, got, made, minted, approved>>
MCVars == <<script, vars, fundVars, launchVars, multisigVars, assetVars>>

MCInit ==
  /\ script \in {"upgrade", "fund", "launch", "multisig", "assets"}
  /\ Init
  /\ F!Init
  /\ script # "fund" => sudo = 0 /\ \A k \in F!Kps : balance[k] = 0
  /\ L!Init
  /\ W!Init
  /\ script # "multisig" => flow = "service" /\ \A a \in Amounts : Deposit - a \in Amounts => cost <= a
  /\ A!Init

MCNext ==
  \/ script = "upgrade" /\ Next
     /\ UNCHANGED <<script, fundVars, launchVars, multisigVars, assetVars>>
  \/ script = "fund" /\ F!Next
     /\ UNCHANGED <<script, vars, launchVars, multisigVars, assetVars>>
  \/ script = "launch" /\ L!Next
     /\ UNCHANGED <<script, vars, fundVars, multisigVars, assetVars>>
  \/ script = "multisig" /\ W!Next
     /\ UNCHANGED <<script, vars, fundVars, launchVars, assetVars>>
  \/ script = "assets" /\ A!Next
     /\ UNCHANGED <<script, vars, fundVars, launchVars, multisigVars>>

MCSpec == MCInit /\ [][MCNext]_MCVars

-----------------------------------------------------------------------------
(* The variables of all scripts keep their types. *)
TypesOK == TypeOK /\ F!TypeOK /\ L!TypeOK /\ W!TypeOK /\ A!TypeOK

(* SudoFunding: when every candidate can afford the transfer, funding cannot
   fail. *)
RichCandidatesSuffice == F!RichCandidatesSuffice

(* SudoFunding: the script gives up on a poor sudo account only when no candidate
   can help. *)
GivesUpOnlyWithoutHelp == F!GivesUpOnlyWithoutHelp

(* CoretimeLaunch: a restart that returns has given every parachain whose id it
   read its mapped cores. *)
ServedAfterRestart == L!ServedAfterRestart

(* CoretimeLaunch: setting one parachain up takes no core from the other. *)
NoTakeover == L!NoTakeover

(* CoretimeLaunch: the cores a setup reports do serve its parachain. *)
ReportedCoresServe == L!ReportedCoresServe

(* Multisig: when all is approved and no call was proposed twice at a time, all
   that was deposited has been paid out. *)
PaidOut == W!PaidOut

(* AssetSetup: whoever saw nothing but success has the assets it asked for. *)
SetUpReady == A!SetUpReady
=============================================================================
