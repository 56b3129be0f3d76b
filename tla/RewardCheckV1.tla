---------------------------- MODULE RewardCheckV1 ----------------------------
(***************************************************************************)
(* tools/check_reward_v1.py: the check of the rewards of the last blocks   *)
(* under the first token economy, where a block's author and its           *)
(* delegators share the pot of the block before.  The chain is external:   *)
(* it pays by the candidate pool of the block before, stakes change at any *)
(* block, and once it may pay a block wrongly.  Amounts are exact.         *)
(***************************************************************************)
EXTENDS Integers, Sequences, FiniteSetsExt, Functions

CONSTANTS Collators, Delegators,
          Stakes,      \* what a collator may have at stake
          Amounts,     \* what a delegator may have at stake
          Coefficient, \* --coefficient
          MaxHeight    \* bound: blocks of the chain

RewardCheckV1Assumption ==
  /\ IsFiniteSet(Delegators) /\ Collators \cap Delegators = {}
  /\ Stakes \cup Amounts \subseteq Nat \ {0}
  /\ {Coefficient, MaxHeight} \subseteq Nat \ {0}

VARIABLES pools,  \* CandidatePool at genesis and after every block
          blocks, \* author and rewards of every block
          fault   \* the block that paid wrongly, or 0

vars == <<pools, blocks, fault>>

height == Len(blocks)
Pool(h) == pools[h + 1]

(* Delegators of a collator, by what they have at stake. *)
Books == UNION {[ds -> Amounts] : ds \in SUBSET Delegators}

TypeOK ==
  /\ Len(pools) = height + 1
  /\ \A h \in 0 .. height : Pool(h) \in [Collators -> [stake : Stakes, delegators : Books]]
  /\ \A h \in 1 .. height : blocks[h].author \in Collators
  /\ fault \in 0 .. height

-----------------------------------------------------------------------------
(* Shares of a pot, over the denominator. *)
AllOf(f) == FoldFunction(+, 0, f)
Denominator(info) == Coefficient * info.stake + AllOf(info.delegators)

Shares(c, info) ==
  [a \in {c} \cup DOMAIN info.delegators |->
     IF a = c THEN Coefficient * info.stake ELSE info.delegators[a]]

Pay(c, info) == [to |-> Shares(c, info), over |-> Denominator(info)]

Alike(p, q) ==
  DOMAIN p.to = DOMAIN q.to /\ \A a \in DOMAIN p.to : p.to[a] * q.over = q.to[a] * p.over

Init ==
  /\ pools \in {<<[c \in Collators |-> [stake |-> s, delegators |-> b]]>> :
                  s \in Stakes, b \in Books}
  /\ blocks = <<>>
  /\ fault = 0

Restaked(pool) ==
  {pool} \cup {[pool EXCEPT ![c] = [stake |-> s, delegators |-> b]] :
                 c \in Collators, s \in Stakes, b \in Books}

(* A share that goes to the collator, that is not paid, or the shares of the stakes
   after the block. *)
Wrong(c, info, later) ==
  LET good == Pay(c, info) IN
  ({[good EXCEPT !.to[c] = @ + 1, !.to[d] = @ - 1] : d \in DOMAIN info.delegators}
   \cup {[good EXCEPT !.to = Restrict(@, DOMAIN @ \ {a})] : a \in DOMAIN good.to}
   \cup {p \in {Pay(c, later)} : ~Alike(p, good)})

Produce ==
  /\ height < MaxHeight
  /\ \E c \in Collators, pool \in Restaked(Pool(height)) :
       /\ pools' = Append(pools, pool)
       /\ \/ /\ blocks' = Append(blocks, [author |-> c, pay |-> Pay(c, Pool(height)[c])])
             /\ fault = 0 \/ fault = height
             /\ UNCHANGED fault
          \/ \E pay \in Wrong(c, Pool(height)[c], pool[c]) :
               /\ fault = 0
               /\ blocks' = Append(blocks, [author |-> c, pay |-> pay])
               /\ fault' = height + 1

Full == (height = MaxHeight \/ fault \in 1 .. height - 1) /\ UNCHANGED vars

Next == Produce \/ Full

Spec == Init /\ [][Next]_vars

-----------------------------------------------------------------------------
(* Mutant: the candidate pool is read at the block itself. *)
staking_info_now(h) == Pool(h)[blocks[h].author]

staking_info(h) == Pool(h - 1)[blocks[h].author]

(* The body of the loop over the blocks: the total against the pot, the collator's
   reward, and that of every delegator rewarded; an account that is missing in one
   of the dictionaries raises as well.  The targets are shares of the issuance read
   at the head, which here is what every pot holds: it only changes by governance. *)
BlockOK(h) ==
  LET info == staking_info(h)
      author == blocks[h].author
      reward_info == blocks[h].pay.to
      pot == blocks[h].pay.over
  IN  /\ AllOf(reward_info) = pot
      /\ author \in DOMAIN reward_info
      /\ reward_info[author] * Denominator(info) = Coefficient * info.stake * pot
      /\ \A a \in DOMAIN reward_info \ {author} :
           /\ a \in DOMAIN info.delegators
           /\ reward_info[a] * Denominator(info) = info.delegators[a] * pot

(* The blocks of --num, the head not among them.  The genesis has no author. *)
Checked(num) == height - num .. height - 1

Passes(num) == \A h \in Checked(num) : h # 0 /\ BlockOK(h)

(* The check passes on a chain that pays everyone the share of the stakes of the
   block before, and does not pass when a block among those checked paid otherwise;
   a rewarded stranger, a delegator left out and a shift between two accounts are
   told from a change of the stakes at the same block. *)
VerdictTrue ==
  \A num \in 1 .. height - 1 : Passes(num) <=> fault \notin Checked(num)
=============================================================================
