---------------------------- MODULE SudoFunding ----------------------------
(***************************************************************************)
(* fund_account of tools/runtime_upgrade.py, called by setup_actions and   *)
(* restart_with_setup when the sudo account is poor: candidates with money *)
(* transfer to it, then it mints for all related accounts, itself among    *)
(* them.  Amounts are in units of 0.5 token.                               *)
(***************************************************************************)
EXTENDS Integers

CONSTANTS Candidates,  \* the two key pairs of kps are 1 and 2
          MaxBalance   \* bound: units an account starts with

SudoMin == 1      \* 0.5 * 10 ** 18
CandidateMin == 2 \* 1 * 10 ** 18, to be exceeded
Transfer == 6     \* 3 * 10 ** 18
FinalMin == 2     \* 1 * 10 ** 18
Minted == 604462  \* 302231 * 10 ** 18

SudoFundingAssumption ==
  /\ Candidates \in Nat \ {0}
  /\ MaxBalance \in Nat

VARIABLES pc,       \* the step the script is at
          kp,       \* candidate of the loop
          sudo,     \* balance of KP_GLOBAL_SUDO
          balance,  \* balances of the candidates
          initial,  \* their balances at the start
          outcome   \* "running", "returned" or what was raised

vars == <<pc, kp, sudo, balance, initial, outcome>>

Kps == 1 .. Candidates

TypeOK ==
  /\ pc \in {"setup", "candidate", "sudo", "check", "mint", "final", "stopped"}
  /\ kp \in 1 .. Candidates + 1
  /\ sudo \in Nat
  /\ balance \in [Kps -> Nat]
  /\ initial \in [Kps -> Nat]
  /\ outcome \in {"running", "returned", "transfer_failed", "still_poor"}

Init ==
  /\ pc = "setup"
  /\ kp = 1
  /\ sudo \in 0 .. MaxBalance
  /\ balance \in [Kps -> 0 .. MaxBalance]
  /\ initial = balance
  /\ outcome = "running"

-----------------------------------------------------------------------------
Stop(how) == outcome' = how /\ pc' = "stopped"

(* The callers fund only a sudo account below half a token. *)
Setup ==
  /\ pc = "setup"
  /\ IF sudo < SudoMin
       THEN pc' = "candidate" /\ UNCHANGED outcome
       ELSE Stop("returned")
  /\ UNCHANGED <<kp, sudo, balance, initial>>

(* Mutant: a transfer is taken to succeed. *)
TransferFromOverdrawn ==
  /\ pc = "candidate"
  /\ kp \in Kps
  /\ balance[kp] > CandidateMin
  /\ balance' = [balance EXCEPT ![kp] = @ - Transfer]
  /\ sudo' = sudo + Transfer
  /\ pc' = "sudo"
  /\ UNCHANGED <<kp, initial, outcome>>

(* A candidate above the threshold transfers; transfer_keep_alive fails when it
   could not keep its account. *)
TransferFrom ==
  /\ pc = "candidate"
  /\ kp \in Kps
  /\ balance[kp] > CandidateMin
  /\ IF balance[kp] > Transfer
       THEN /\ balance' = [balance EXCEPT ![kp] = @ - Transfer]
            /\ sudo' = sudo + Transfer
            /\ pc' = "sudo"
            /\ UNCHANGED outcome
       ELSE Stop("transfer_failed") /\ UNCHANGED <<balance, sudo>>
  /\ UNCHANGED <<kp, initial>>

(* Mutant: asks for more than the transfer needs. *)
SkipCandidateRich ==
  /\ pc = "candidate"
  /\ kp \in Kps
  /\ balance[kp] <= 2 * Transfer
  /\ pc' = "sudo"
  /\ UNCHANGED <<kp, sudo, balance, initial, outcome>>

SkipCandidate ==
  /\ pc = "candidate"
  /\ kp \in Kps
  /\ balance[kp] <= CandidateMin
  /\ pc' = "sudo"
  /\ UNCHANGED <<kp, sudo, balance, initial, outcome>>

(* The loop is left when the sudo account is still poor; otherwise the script
   prints that it is and goes on to the next candidate. *)
LeaveLoop ==
  /\ pc = "sudo"
  /\ sudo < SudoMin
  /\ pc' = "check"
  /\ UNCHANGED <<kp, sudo, balance, initial, outcome>>

NextCandidate ==
  /\ pc = "sudo"
  /\ sudo >= SudoMin
  /\ kp' = kp + 1
  /\ pc' = IF kp' \in Kps THEN "candidate" ELSE "check"
  /\ UNCHANGED <<sudo, balance, initial, outcome>>

Check ==
  /\ pc = "check"
  /\ IF sudo < SudoMin THEN Stop("still_poor") ELSE pc' = "mint" /\ UNCHANGED outcome
  /\ UNCHANGED <<kp, sudo, balance, initial>>

(* fund_all_retated_accounts: a failing batch is only printed. *)
Mint ==
  /\ pc = "mint"
  /\ sudo' \in {sudo, sudo + Minted}
  /\ pc' = "final"
  /\ UNCHANGED <<kp, balance, initial, outcome>>

Final ==
  /\ pc = "final"
  /\ Stop(IF sudo < FinalMin THEN "still_poor" ELSE "returned")
  /\ UNCHANGED <<kp, sudo, balance, initial>>

Stopped == pc = "stopped" /\ UNCHANGED vars

Next ==
  \/ Setup \/ TransferFrom \/ SkipCandidate \/ LeaveLoop \/ NextCandidate
  \/ Check \/ Mint \/ Final \/ Stopped

Spec == Init /\ [][Next]_vars

-----------------------------------------------------------------------------
(* When every candidate can afford the transfer, funding cannot fail. *)
RichCandidatesSuffice ==
  (\A k \in Kps : initial[k] > Transfer) => outcome \in {"running", "returned"}

(* The script gives up on a poor sudo account only when no candidate can help:
   "not have enough balance becaues ... balance is ..." is what it says of a
   candidate before it turns to the next. *)
GivesUpOnlyWithoutHelp ==
  outcome = "still_poor" => \A k \in Kps : balance[k] <= Transfer
=============================================================================
