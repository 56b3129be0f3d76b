---------------------------- MODULE TokenEconomy ----------------------------
(***************************************************************************)
(* tools/stress/stress_token_economy_v2.py: the checks it makes of past    *)
(* sessions (traverse, block, distribution), as predicates of a chain.     *)
(* The chain is external: it notes authors, rewards the staking pot in     *)
(* every block and pays a session's collators one block after the other    *)
(* when the next one has begun; once, it may get one of these wrong.       *)
(* Amounts are exact: the tolerances stand for the chain's rounding.       *)
(***************************************************************************)
EXTENDS Integers, Sequences, FiniteSetsExt

CONSTANTS Collators,
          Delegators,
          AtStake,   \* what every collator and its delegators have at stake
          Unit,      \* a commission is a number of Unit-ths (10 ** 6)
          Deposits,  \* what a block may put into the pot
          MinRound,  \* shortest session
          MaxRound,  \* bound: longest session
          Faults,    \* the faults the chain may have
          MaxHeight  \* bound: blocks of the chain

TokenEconomyAssumption ==
  /\ IsFiniteSet(Collators) /\ IsFiniteSet(Delegators) /\ Collators \cap Delegators = {}
  /\ AtStake \in [Collators -> [stake : Nat, commission : 0 .. Unit,
                                delegated : [Delegators -> Nat]]]
  /\ Deposits \subseteq Nat
  /\ {Unit, MinRound, MaxRound, MaxHeight} \subseteq Nat \ {0}
  /\ Faults \subseteq {"none", "shifted", "unpaid", "misnoted", "leak"}

VARIABLES blocks, \* the chain above genesis
          due,    \* collators of the last session still to be paid
          fault   \* the fault the chain has had, and at which block

vars == <<blocks, due, fault>>

-----------------------------------------------------------------------------
(* Queries at a block of chain bs. *)
Round(bs, h) == IF h = 0 THEN 0 ELSE bs[h].round
First(bs, h) == CHOOSE f \in 0 .. h :
                  /\ Round(bs, f) = Round(bs, h)
                  /\ \A g \in 0 .. h : Round(bs, g) = Round(bs, h) => f <= g

(* CollatorBlocks of a session, at block h. *)
CollatorBlocks(bs, session, c, h) ==
  Cardinality({i \in 1 .. h : bs[i].noted = session /\ bs[i].author = c})

-----------------------------------------------------------------------------
(* calculate_total_staking_ratio of a count of blocks per collator: numerators
   over Unit * StakingNum. *)
Delegated(c) == MapThenSumSet(LAMBDA d : AtStake[c].delegated[d], Delegators)

StakingNum(count) ==
  MapThenSumSet(LAMBDA c : count[c] * (AtStake[c].stake + Delegated(c)), Collators)

StakingRatio(count, c) ==
  [a \in {c} \cup Delegators |->
     count[c] * IF a = c
       THEN AtStake[c].stake * Unit + AtStake[c].commission * Delegated(c)
       ELSE (Unit - AtStake[c].commission) * AtStake[c].delegated[a]]

(* calculate_reward *)
Reward(count, c, total) ==
  [a \in {c} \cup Delegators |-> StakingRatio(count, c)[a] * total]

-----------------------------------------------------------------------------
(* The chain.  A payout names its collator, who is rewarded first, the amounts,
   and their common denominator. *)
NoPay == [of |-> "nobody", amounts |-> <<>>, over |-> 1]

Rewards(bs, first, end) ==
  LET deposited[h \in first - 1 .. end - 1] ==
        IF h < first THEN 0
        ELSE deposited[h - 1] + IF h = 0 THEN 0 ELSE bs[h].deposit
  IN  deposited[end - 1]

Honest(bs, c) ==
  LET h == Len(bs)
      start == First(bs, h)
      session == Round(bs, h) - 1
      count == [x \in Collators |-> CollatorBlocks(bs, session, x, start)]
  IN  [of |-> c,
       amounts |-> Reward(count, c, Rewards(bs, First(bs, start - 1), start)),
       over |-> Unit * StakingNum(count)]

(* A delegator's amount goes to the collator, or is not paid at all. *)
Faulty(pay, how) ==
  LET robbed == CHOOSE d \in Delegators : pay.amounts[d] > 0 IN
  CASE how = "shifted" ->
         [pay EXCEPT !.amounts[robbed] = 0,
                     !.amounts[pay.of] = @ + pay.amounts[robbed]]
    [] how = "unpaid" ->
         [pay EXCEPT !.amounts = [a \in DOMAIN @ \ {robbed} |-> @[a]]]
    [] OTHER -> pay

Noted(bs, s) == {c \in Collators : CollatorBlocks(bs, s, c, Len(bs)) > 0}

(* Mutant: sessions may be as short as the payouts let them. *)
MayRotateSoon == due = {}

Blocks == Len(blocks) + 1 - First(blocks, Len(blocks))
MayRotate == due = {} /\ Blocks >= MinRound

(* A block notes its author for the session that was on before it. *)
Produce(how) ==
  /\ Len(blocks) < MaxHeight
  /\ \E c \in Collators, deposit \in Deposits, new \in BOOLEAN :
       LET now == Round(blocks, Len(blocks))
           block == [author |-> c,
                     round |-> IF new THEN now + 1 ELSE now,
                     noted |-> IF how = "misnoted" THEN now + 1 ELSE now,
                     deposit |-> deposit,
                     credited |-> IF how = "leak" THEN deposit - 1 ELSE deposit,
                     pay |-> NoPay]
           bs == Append(blocks, block)
           unpaid == IF new THEN Noted(bs, now) ELSE due
       IN  /\ IF new THEN MayRotate ELSE Blocks < MaxRound
           /\ how = "misnoted" => new
           /\ how = "leak" => deposit > 0
           /\ \/ /\ unpaid = {}
                 /\ how \notin {"shifted", "unpaid"}
                 /\ blocks' = bs
                 /\ due' = {}
              \/ \E p \in unpaid :
                   LET pay == Honest(bs, p) IN
                   /\ how \in {"shifted", "unpaid"} =>
                        \E d \in Delegators : pay.amounts[d] > 0
                   /\ blocks' = [bs EXCEPT ![Len(bs)].pay = Faulty(pay, how)]
                   /\ due' = unpaid \ {p}

Init ==
  /\ blocks = <<>>
  /\ due = {}
  /\ fault = [how |-> "none", at |-> 0]

GoodBlock == Produce("none") /\ UNCHANGED fault

BadBlock(how) ==
  /\ fault.how = "none"
  /\ Produce(how)
  /\ fault' = [how |-> how, at |-> Len(blocks')]

Full == Len(blocks) = MaxHeight /\ UNCHANGED vars

Next == GoodBlock \/ (\E how \in Faults \ {"none"} : BadBlock(how)) \/ Full

Spec == Init /\ [][Next]_vars

-----------------------------------------------------------------------------
(* The tool, run when block height is the head. *)
height == Len(blocks)

(* get_pervious_session_block: from the block before the current round back,
   up to the round that begins at genesis. *)
Sessions ==
  {[first |-> First(blocks, e - 1), length |-> e - First(blocks, e - 1),
    idx |-> Round(blocks, e - 1)] :
     e \in {e \in 1 .. height : First(blocks, e) = e /\ First(blocks, e - 1) > 0}}

(* Sessions whose payouts are complete at the head. *)
Settled == {s \in Sessions : s.idx < Round(blocks, height) - 1 \/ due = {}}

(* traverse_single_blocks_and_check *)
TraverseOK(s) ==
  \A i \in s.first + 1 .. s.first + s.length - 1 :
    CollatorBlocks(blocks, s.idx, blocks[i].author, i)
      = Cardinality({j \in s.first + 1 .. i : blocks[j].author = blocks[i].author})

(* block_check: what the pot has gained, payouts added, against the deposits. *)
BlockOK(h) == ~(blocks[h].deposit - blocks[h].credited > 0)

(* Mutant: the author of the new session's block is forgotten. *)
CollatorBlockInfoShort(s) ==
  [c \in Collators |-> CollatorBlocks(blocks, s.idx, c, s.first + s.length - 1)]

(* calculate_collator_block_info *)
CollatorBlockInfo(s) ==
  LET end == s.first + s.length IN
  [c \in Collators |->
     CollatorBlocks(blocks, s.idx, c, end - 1) + IF blocks[end].author = c THEN 1 ELSE 0]

(* get_reward_info: payouts from the next session's first block on, until a block
   rewards nobody. *)
RewardInfo(s) ==
  LET end == s.first + s.length
      paid == {h \in end .. end + s.length - 1 :
                 \A g \in end .. h : g <= height /\ blocks[g].pay # NoPay}
  IN  {blocks[h].pay : h \in paid}

Total(pay) == MapThenSumSet(LAMBDA a : pay.amounts[a], DOMAIN pay.amounts)

PaidInFull(info, total) ==
  \A p \in info : MapThenSumSet(Total, info) = total * p.over

(* Mutant: only the total is compared. *)
CheckRewardTotal(s, count, total) == PaidInFull(RewardInfo(s), total)

(* check_reward: the sum of the amounts, then each of them. *)
CheckReward(s, count, total) ==
  /\ PaidInFull(RewardInfo(s), total)
  /\ \A p \in RewardInfo(s), a \in Delegators \cup Collators :
       a \in DOMAIN p.amounts =>
         p.amounts[a] * Unit * StakingNum(count) = Reward(count, p.of, total)[a] * p.over

(* check_single_session_distribution *)
DistributionOK(s) ==
  LET count == CollatorBlockInfo(s) IN
  /\ MapThenSumSet(LAMBDA c : count[c], Collators) = s.length
  /\ Cardinality(RewardInfo(s)) = Cardinality({c \in Collators : count[c] > 0})
  /\ CheckReward(s, count, Rewards(blocks, s.first, s.first + s.length))

-----------------------------------------------------------------------------
TypeOK ==
  /\ \A h \in 1 .. height :
       /\ blocks[h].author \in Collators
       /\ blocks[h].round \in 0 .. h \div MinRound
       /\ blocks[h].noted \in 0 .. blocks[h].round
  /\ due \subseteq Collators
  /\ fault \in [how : Faults, at : 0 .. height]

(* A chain that does everything right passes each of the tool's checks, of every
   session the tool looks at once its payouts are complete. *)
HonestChainPasses ==
  fault.how = "none" =>
    /\ \A s \in Sessions : TraverseOK(s)
    /\ \A h \in 1 .. height - 1 : BlockOK(h)
    /\ \A s \in Settled : DistributionOK(s)

(* A fault does not stay unseen: when the faulty block's session and the one paid
   in it are settled, some check fails. *)
FaultsAreSeen ==
  LET session == Round(blocks, fault.at) IN
  fault.how # "none" /\ {session - 1, session} \subseteq {s.idx : s \in Settled} =>
    \/ \E s \in Sessions : ~TraverseOK(s)
    \/ \E h \in 1 .. height - 1 : ~BlockOK(h)
    \/ \E s \in Settled : ~DistributionOK(s)
=============================================================================
