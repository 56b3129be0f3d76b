---------------------------- MODULE StakingSetup ----------------------------
(***************************************************************************)
(* The scripts that set parachain staking up, run one after the other on   *)
(* one chain: setup_collator.py, setup_delegator.py,                       *)
(* setup_delegator_mulit_collators.py and force_collator_leave.py.  None   *)
(* looks at a receipt.  The chain is external: a new round takes the       *)
(* collators queued at the last one and queues those at stake.             *)
(***************************************************************************)
EXTENDS Integers, Sequences, FiniteSetsExt

CONSTANTS Old,         \* collators at stake from the start
          New,         \* those setup_collator adds (NUMBER of them)
          Kept,        \* COLLATOR, the one that need not leave
          Stake,       \* what every collator has at stake
          Number,      \* --number of both delegator scripts
          FundBatch,   \* batch_num
          Few,         \* pending extrinsics that are not waited for
          MaxSelected  \* collators of a session

StakingSetupAssumption ==
  /\ Old \cup New \subseteq Nat /\ IsFiniteSet(Old \cup New) /\ Old \cap New = {} /\ Kept \in Old
  /\ Stake \in [Old \cup New -> Nat]
  /\ {Number, FundBatch, Few, MaxSelected} \subseteq Nat \ {0}

VARIABLES candidates,  \* collators at stake
          queued,      \* collators of the next session
          validators,  \* Session.Validators
          force,       \* the next block begins a new round
          refused,     \* a round setup_collator forces was not
          funded,      \* new collators that have money
          purse,       \* free balance of the delegators
          delegations, \* pairs of a delegator and a collator
          used,        \* delegators that have delegated in this round
          pool,        \* joins sent without waiting: delegator, collator, amount
          pc, idx, listed, \* step, position and collators of the running script
          done,        \* scripts started
          through,     \* collators that setup_delegator goes or went through
          clean        \* everything submitted was executed

chain == <<candidates, queued, validators, force, refused>>
stakers == <<funded, purse, delegations, used, pool>>
script == <<pc, idx, listed, done, through>>
vars == <<chain, stakers, script, clean>>

Collators == Old \cup New

(* The members of a set of numbers, in ascending order. *)
Ascending(set) ==
  CHOOSE s \in [1 .. Cardinality(set) -> set] :
    \A i, j \in DOMAIN s : i < j => s[i] < s[j]

Delegators == 0 .. Number * Cardinality(Collators)

TypeOK ==
  /\ candidates \subseteq Collators /\ queued \subseteq Collators
  /\ validators \subseteq Collators
  /\ force \in BOOLEAN /\ refused \in BOOLEAN /\ clean \in BOOLEAN
  /\ funded \subseteq New
  /\ purse \in [Delegators -> Nat]
  /\ delegations \subseteq Delegators \X Collators
  /\ used \subseteq Delegators
  /\ pool \subseteq Delegators \X Collators \X Nat
  /\ pc \in {"idle", "fund_addrs", "setup", "force_1", "force_2", "leave",
             "fund_single", "send", "drain", "fund_multi", "join", "delegate", "wait"}
  /\ idx \in Nat
  /\ listed \in Seq(Collators)
  /\ done \subseteq {"collators", "single", "multi", "leave"}
  /\ through \subseteq Collators

Init ==
  /\ candidates = Old /\ queued = Old /\ validators = Old
  /\ force = FALSE /\ refused = FALSE
  /\ funded = {} /\ purse = [d \in Delegators |-> 0]
  /\ delegations = {} /\ used = {} /\ pool = {}
  /\ pc = "idle" /\ idx = 1 /\ listed = <<>> /\ done = {} /\ through = {}
  /\ clean = TRUE

-----------------------------------------------------------------------------
(* The chain. *)
Selection ==
  IF Cardinality(candidates) <= MaxSelected THEN {candidates}
  ELSE kSubset(MaxSelected, candidates)

NewRound ==
  /\ validators' = queued
  /\ queued' \in Selection
  /\ force' = FALSE
  /\ used' = {}
  /\ UNCHANGED <<candidates, refused, funded, purse, delegations, pool, script, clean>>

Accepted(d, c, amount) == c \in candidates /\ purse[d] > amount /\ d \notin used

(* A call that is refused leaves no trace but its fee. *)
Delegated(d, c, amount, ok) ==
  IF ok
    THEN /\ delegations' = delegations \cup {<<d, c>>}
         /\ purse' = [purse EXCEPT ![d] = @ - amount]
         /\ used' = used \cup {d}
         /\ UNCHANGED clean
    ELSE clean' = FALSE /\ UNCHANGED <<delegations, purse, used>>

Joinable(d) == \A c \in Collators : <<d, c>> \notin delegations

IncludeJoin ==
  \E p \in pool :
    /\ pool' = pool \ {p}
    /\ Delegated(p[1], p[2], p[3], Joinable(p[1]) /\ Accepted(p[1], p[2], p[3]))
    /\ UNCHANGED <<chain, funded, script>>

-----------------------------------------------------------------------------
(* The scripts. *)
End == pc' = "idle" /\ UNCHANGED <<idx, listed, done, through>>

Goto(step, i) == pc' = step /\ idx' = i /\ UNCHANGED <<listed, done, through>>

Begin(name, step, of) ==
  /\ pc = "idle" /\ name \notin done
  /\ done' = done \cup {name}
  /\ pc' = step /\ idx' = 1 /\ listed' = of
  /\ through' = IF step = "fund_single" THEN Range(of) ELSE through
  /\ UNCHANGED <<chain, stakers, clean>>

Listed == Ascending(validators)

(* get_collator_stake fails for a collator of the session that has left. *)
Known(cs) == \A i \in DOMAIN cs : cs[i] \in candidates

BeginSingle ==
  \E of \in {Listed} \cup {<<c>> : c \in candidates} :
    Begin("single", IF Known(SubSeq(of, 1, 1)) THEN "fund_single" ELSE "idle", of)

(* Fewer collators than asked for end the script. *)
BeginMulti ==
  Begin("multi",
        IF Len(Listed) >= Number /\ Known(SubSeq(Listed, 1, Number)) THEN "fund_multi"
        ELSE "idle",
        Listed)

BeginScript ==
  \/ Begin("collators", "fund_addrs", <<>>)
  \/ Begin("leave", "leave", <<>>)
  \/ BeginSingle
  \/ BeginMulti

Fails == clean' = FALSE

(* setup_collator.py: fund_addrs *)
FundAddrs ==
  /\ pc = "fund_addrs"
  /\ \/ funded' = New /\ UNCHANGED clean
     \/ UNCHANGED funded /\ Fails
  /\ Goto("setup", 1)
  /\ UNCHANGED <<chain, purse, delegations, used, pool>>

(* setup_collator: keys and candidacy in one batch. *)
SetupCollator ==
  /\ pc = "setup"
  /\ LET c == Ascending(New)[idx] IN
     IF c \in funded
       THEN candidates' = candidates \cup {c} /\ UNCHANGED clean
       ELSE UNCHANGED candidates /\ Fails
  /\ IF idx < Cardinality(New) THEN Goto("setup", idx + 1) ELSE Goto("force_1", 1)
  /\ UNCHANGED <<queued, validators, force, refused, stakers>>

(* Mutant: the batch with force_new_round is executed once. *)
ForceNewRoundOnce ==
  /\ pc \in {"force_1", "force_2"} /\ ~force
  /\ force' = TRUE
  /\ End
  /\ UNCHANGED <<candidates, queued, validators, refused, stakers, clean>>

AfterForcing == IF pc = "force_1" THEN Goto("force_2", 1) ELSE End

(* The batch is executed twice; the block that has the second begins the round
   of the first.  It may fail, which is not looked at, or raise. *)
ForceNewRound ==
  /\ pc \in {"force_1", "force_2"} /\ ~force
  /\ \/ force' = TRUE /\ AfterForcing /\ UNCHANGED <<refused, clean>>
     \/ refused' = TRUE /\ Fails /\ (AfterForcing \/ End) /\ UNCHANGED force
  /\ UNCHANGED <<candidates, queued, validators, stakers>>

(* force_collator_leave.py: one batch, on a chain where Kept is at stake. *)
ForceLeave ==
  /\ pc = "leave" /\ ~force
  /\ candidates' = {Kept}
  /\ delegations' = {d \in delegations : d[2] = Kept}
  /\ force' = TRUE
  /\ End
  /\ UNCHANGED <<queued, validators, refused, funded, purse, used, pool, clean>>

(* fund_delegators: batches of FundBatch accounts. *)
FundDelegators(ds, amount) ==
  \/ /\ purse' = [d \in Delegators |-> IF d \in ds THEN purse[d] + amount ELSE purse[d]]
     /\ UNCHANGED clean
  \/ UNCHANGED purse /\ Fails

(* setup_delegator.py *)
Wanted == Number * Len(listed)

FundSingle ==
  /\ pc = "fund_single"
  /\ FundDelegators(idx .. Min({idx + FundBatch - 1, Wanted}), 2 * Stake[listed[1]])
  /\ IF idx + FundBatch <= Wanted THEN Goto("fund_single", idx + FundBatch)
     ELSE Goto("send", 1)
  /\ UNCHANGED <<chain, funded, delegations, used, pool>>

(* kps[number * idx : number * (idx + 1)] *)
Slice(i) == Number * (i - 1) + 1 .. Number * i

(* delegate_delegators: every join has the amount of the first collator. *)
SendJoins ==
  /\ pc = "send"
  /\ pool' = pool \cup {<<d, listed[idx], Stake[listed[1]]>> : d \in Slice(idx)}
  /\ Goto("drain", idx)
  /\ UNCHANGED <<chain, funded, purse, delegations, used, clean>>

(* Mutant: the last collator is left out. *)
DrainedShort ==
  /\ pc = "drain"
  /\ Cardinality(pool) < Few
  /\ IF idx < Len(listed) - 1 THEN Goto("send", idx + 1) ELSE End
  /\ UNCHANGED <<chain, stakers, clean>>

Drained ==
  /\ pc = "drain"
  /\ Cardinality(pool) < Few
  /\ IF idx < Len(listed) THEN Goto("send", idx + 1) ELSE End
  /\ UNCHANGED <<chain, stakers, clean>>

-----------------------------------------------------------------------------
(* setup_delegator_mulit_collators.py, with delegator 0. *)
StakeOfFirst(n) == FoldFunctionOnSet(+, 0, [i \in 1 .. n |-> Stake[listed[i]]], 1 .. n)

FundValue == 3 * StakeOfFirst(Number)

FundMulti ==
  /\ pc = "fund_multi"
  /\ FundDelegators({0}, FundValue)
  /\ Goto("join", 1)
  /\ UNCHANGED <<chain, funded, delegations, used, pool>>

(* delegate_join_delegators *)
Join ==
  /\ pc = "join"
  /\ LET c == listed[1] IN
     Delegated(0, c, Stake[c], Joinable(0) /\ Accepted(0, c, Stake[c]))
  /\ IF Number = 1 \/ Len(listed) = 1 THEN End ELSE Goto("delegate", 2)
  /\ UNCHANGED <<chain, funded, pool>>

(* delegate_delegators, after a sleep that is no wait for a round. *)
Delegate ==
  /\ pc = "delegate"
  /\ LET c == listed[idx] IN
     Delegated(0, c, Stake[c],
       ~Joinable(0) /\ <<0, c>> \notin delegations /\ Accepted(0, c, Stake[c]))
  /\ Goto("wait", idx)
  /\ UNCHANGED <<chain, funded, pool>>

(* The slice validators[1:][:number] ends after Number + 1 collators. *)
Waited ==
  /\ pc = "wait"
  /\ Cardinality(pool) < Few
  /\ IF idx < Min({Number + 1, Len(listed)}) THEN Goto("delegate", idx + 1) ELSE End
  /\ UNCHANGED <<chain, stakers, clean>>

Rest == pc = "idle" /\ UNCHANGED vars

Next ==
  \/ NewRound \/ IncludeJoin
  \/ BeginScript
  \/ FundAddrs \/ SetupCollator \/ ForceNewRound \/ ForceLeave
  \/ FundSingle \/ SendJoins \/ Drained
  \/ FundMulti \/ Join \/ Delegate \/ Waited
  \/ Rest

Spec == Init /\ [][Next]_vars

-----------------------------------------------------------------------------
(* Once the rounds that setup_collator.py forces have begun, unless one of them
   was refused, every collator it has put at stake and that has not left is in the
   session: one round would only queue it. *)
CollatorsServe ==
  /\ "collators" \in done /\ pc \notin {"fund_addrs", "setup", "force_1", "force_2"}
  /\ ~force /\ ~refused
  /\ Cardinality(candidates) <= MaxSelected
  => New \cap candidates \subseteq validators

Crowd(c) == {d \in Delegators \ {0} : <<d, c>> \in delegations}

(* setup_delegator.py: --number is the "Number of delegators you want to setup":
   when all that was sent has been included and executed, every collator it went
   through and that has not left has exactly that many new delegators, and no
   other collator has one, whatever scripts and rounds came in between. *)
EvenlySpread ==
  "single" \in done /\ pc \notin {"fund_single", "send", "drain"} /\ pool = {} /\ clean =>
    \A c \in Collators :
      Cardinality(Crowd(c)) = IF c \in through \cap candidates THEN Number ELSE 0
=============================================================================
