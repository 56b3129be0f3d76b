------------------------------ MODULE Multisig ------------------------------
(***************************************************************************)
(* The multi-signature helpers of tools/utils.py, with the sending of      *)
(* tools/payload.py: the charging service, where the provider proposes to  *)
(* be paid and to refund the rest and the consumer's monitor approves what *)
(* the events of the delivered service tell it, and the proposal, approval *)
(* and execution of the multisig test.  The pallet is external.            *)
(***************************************************************************)
EXTENDS Integers, Sequences, Functions

CONSTANTS Services,  \* times the service is used
          Amounts,   \* what it may cost, and what may be refunded
          Deposit    \* token_deposit

MultisigAssumption ==
  /\ Services \in Nat \ {0}
  /\ Amounts \subseteq Nat \ {0}
  /\ Deposit \in Nat

VARIABLES flow,   \* "service" or "test"
          now,    \* the next timepoint
          wallet, \* balance of the multisig account
          open,   \* what the pallet keeps of a call that waits for approval
          pc, served, \* step of the provider, or of the test, and services so far
          cost,   \* what the running service costs
          info,   \* what the last proposal returned
          events, \* infos of ServiceDelivered events the monitor has not handled
          met,    \* a proposal met an open one of the same call
          outcome \* of the call the test looks at

pallet == <<now, wallet, open>>
vars == <<flow, pallet, pc, served, cost, info, events, met, outcome>>

(* The threshold is two. *)
Parties == {"consumer", "provider"}

(* A transfer out of the wallet; its hash is the call. *)
Calls == [to : Parties, value : Amounts]
Spent == [to |-> "provider", value |-> cost]
Refund == [to |-> "consumer", value |-> Deposit - cost]

TypeOK ==
  /\ flow \in {"service", "test"}
  /\ {now, wallet, served} \subseteq Nat
  /\ \A c \in DOMAIN open :
       c \in Calls /\ open[c] \in [when : 0 .. now, approvals : SUBSET Parties, stored : BOOLEAN]
  /\ pc \in {"deposit", "spent", "deliver_spent", "refund", "deliver_refund",
             "propose", "approve", "execute", "end"}
  /\ cost \in Amounts
  /\ info \in [call : Calls, timepoint : Nat]
  /\ events \in Seq([call : Calls, timepoint : Nat])
  /\ met \in BOOLEAN /\ outcome \in BOOLEAN

Init ==
  /\ flow \in {"service", "test"}
  /\ now = 1 /\ wallet = 0 /\ open = [c \in {} |-> 0]
  /\ pc = "deposit" /\ served = 0
  /\ cost \in Amounts /\ Deposit - cost \in Amounts
  /\ info = [call |-> Spent, timepoint |-> 0]
  /\ events = <<>> /\ met = FALSE /\ outcome = TRUE

-----------------------------------------------------------------------------
(* The pallet.  None is timepoint 0. *)
Execute(call) ==
  /\ wallet' = IF wallet >= call.value THEN wallet - call.value ELSE wallet
  /\ open' = Restrict(open, DOMAIN open \ {call})

Refused == outcome' = FALSE /\ UNCHANGED <<wallet, open>>

as_multi(who, call, timepoint, stored) ==
  /\ now' = now + 1
  /\ IF call \notin DOMAIN open /\ timepoint = 0
       THEN /\ open' = [c \in DOMAIN open \cup {call} |->
                         IF c \in DOMAIN open THEN open[c]
                         ELSE [when |-> now, approvals |-> {who}, stored |-> stored]]
            /\ UNCHANGED <<wallet, outcome>>
       ELSE IF call \in DOMAIN open /\ timepoint = open[call].when
               /\ open[call].approvals \cup {who} = Parties
       THEN Execute(call) /\ UNCHANGED outcome
       ELSE Refused

(* Enough approvals execute a call whose text the pallet has. *)
approve_as_multi(who, call, timepoint) ==
  /\ now' = now + 1
  /\ IF call \in DOMAIN open /\ timepoint = open[call].when /\ who \notin open[call].approvals
       THEN /\ IF open[call].stored THEN Execute(call)
               ELSE /\ open' = [open EXCEPT ![call].approvals = @ \cup {who}]
                    /\ UNCHANGED wallet
            /\ UNCHANGED outcome
       ELSE Refused

-----------------------------------------------------------------------------
(* deposit_money_to_multsig_wallet and send_service_request; the test's transfer. *)
DepositMoney ==
  /\ pc = "deposit"
  /\ wallet' = wallet + Deposit
  /\ now' = now + 1
  /\ \E c \in Amounts : cost' = c /\ Deposit - c \in Amounts
  /\ pc' = IF flow = "service" THEN "spent" ELSE "propose"
  /\ UNCHANGED <<flow, open, served, info, events, met, outcome>>

(* send_spent_token_... and send_refund_token_from_multisig_wallet: the timepoint is
   that of the extrinsic, whatever became of it. *)
Propose(call) ==
  /\ as_multi("provider", call, 0, TRUE)
  /\ info' = [call |-> call, timepoint |-> now]
  /\ met' = (met \/ call \in DOMAIN open)
  /\ UNCHANGED <<flow, served, cost, events>>

ProposeSpent == pc = "spent" /\ Propose(Spent) /\ pc' = "deliver_spent"
ProposeRefund == pc = "refund" /\ Propose(Refund) /\ pc' = "deliver_refund"

(* send_..._token_service_delievered emits the event that has the info. *)
Delivered ==
  /\ events' = Append(events, info)
  /\ now' = now + 1
  /\ UNCHANGED <<flow, wallet, open, cost, info, met, outcome>>

DeliverSpent == pc = "deliver_spent" /\ Delivered /\ pc' = "refund" /\ UNCHANGED served

DeliverRefund ==
  /\ pc = "deliver_refund"
  /\ Delivered
  /\ served' = served + 1
  /\ pc' = IF served' < Services THEN "deposit" ELSE "end"

(* Mutant: the monitor approves with the timepoint of the last proposal. *)
ApproveLatest ==
  /\ events # <<>>
  /\ approve_as_multi("consumer", Head(events).call, info.timepoint)
  /\ events' = Tail(events)
  /\ UNCHANGED <<flow, pc, served, cost, info, met>>

(* _approve_token, of the monitor. *)
ApproveToken ==
  /\ events # <<>>
  /\ approve_as_multi("consumer", Head(events).call, Head(events).timepoint)
  /\ events' = Tail(events)
  /\ UNCHANGED <<flow, pc, served, cost, info, met>>

-----------------------------------------------------------------------------
(* The test: every receipt must be a success. *)
Step(from, to) ==
  /\ pc = from
  /\ pc' = IF outcome' THEN to ELSE "end"
  /\ UNCHANGED <<flow, served, cost, events, met>>

(* send_proposal, of a transfer to the proposer, and get_as_multi_extrinsic_id *)
SendProposal ==
  /\ as_multi("consumer", Refund, 0, FALSE)
  /\ info' = [call |-> Refund, timepoint |-> now]
  /\ Step("propose", "approve")

(* send_approval *)
SendApproval ==
  /\ approve_as_multi("provider", info.call, info.timepoint)
  /\ Step("approve", "execute")
  /\ UNCHANGED info

SendFinal ==
  /\ as_multi("consumer", info.call, info.timepoint, FALSE)
  /\ Step("execute", "end")
  /\ UNCHANGED info

Ended == pc = "end" /\ events = <<>> /\ UNCHANGED vars

Next ==
  \/ DepositMoney
  \/ ProposeSpent \/ DeliverSpent \/ ProposeRefund \/ DeliverRefund \/ ApproveToken
  \/ SendProposal \/ SendApproval \/ SendFinal
  \/ Ended

Spec == Init /\ [][Next]_vars

-----------------------------------------------------------------------------
(* When everything is approved, nothing is left of what was deposited and no call
   waits, however late the monitor approves, as long as no proposal was made while
   the same call of an earlier service was open: that one would be refused, and its
   timepoint approve nothing.  Of the test, only the proposed call has left the
   wallet. *)
PaidOut ==
  pc = "end" /\ events = <<>> /\ ~met =>
    outcome /\ open = <<>> /\ wallet = IF flow = "service" THEN 0 ELSE cost
=============================================================================
