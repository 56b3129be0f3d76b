--------------------------- MODULE Staking_proofs ---------------------------
(***************************************************************************)
(* The tools that set parachain staking up, exercise it and audit it,      *)
(* proved for every number of collators, delegators and rounds.  Each tool *)
(* has an inductive invariant of its own; the last section carries the     *)
(* results over to the composition of MCStaking.                           *)
(***************************************************************************)
EXTENDS MCStaking, FiniteInduction

-----------------------------------------------------------------------------
(* DelegatorStress *)

(* What the delegator has once the joins of an iteration are over. *)
Asked == 1 .. (IF Number = 1 THEN 1 ELSE D!Others + 1)

(* While nothing has failed: after the first collator of an iteration the delegator
   has one more per delegation, and the delegation last made is what the next wait
   compares the session with. *)
JoinedInv ==
  /\ pc \in {"force", "wait", "delegate"} =>
       Number # 1 /\ mine = 1 .. idx + 1 /\ idx <= D!Others
  /\ pc = "delegate" => idx < D!Others
  /\ pc = "count" => mine = Asked

(* After a wait the delegator's round is over, and rounds do not come back. *)
RestedInv ==
  /\ pc \in {"force", "wait"} => last = base
  /\ Number # 1 /\ (pc \in {"delegate", "count", "reward", "leave"}
                      \/ (pc = "join" /\ iter > 0)) => last < round

(* The tool goes on only where there are enough collators. *)
StressInv ==
  /\ D!TypeOK
  /\ pc \notin {"start", "returned"} => Validators >= Number
  /\ pc \in {"start", "leave_first"} => iter = 0
  /\ clean => JoinedInv /\ RestedInv

(* What the assumption says of the constants, and how long the slice is. *)
LEMMA StressConstants ==
  /\ Validators \in Nat \ {0} /\ Number \in Nat \ {0} /\ MaxRound \in Nat \ {0}
  /\ MaxIter \in Nat \ {0}
  /\ D!Others \in 0 .. Validators - 1
  /\ Number # 1 /\ Validators >= Number => D!Others >= 1
BY StakingAssumption DEF D!DelegatorStressAssumption, D!Others

(* StressInv holds before the tool is started. *)
LEMMA StressInitial == D!Init => StressInv
<1> SUFFICES ASSUME D!Init PROVE StressInv
  OBVIOUS
<1>1. D!TypeOK
  BY StressConstants DEF D!Init, D!TypeOK
<1> QED
  BY <1>1 DEF D!Init, StressInv, JoinedInv, RestedInv

(* Every step of the tool and of the chain keeps StressInv. *)
LEMMA StressStep == StressInv /\ [D!Next]_(D!vars) => StressInv'
<1> SUFFICES ASSUME StressInv, [D!Next]_(D!vars) PROVE StressInv'
  OBVIOUS
<1> USE StressConstants
<1>0. /\ round \in Nat /\ last \in Nat /\ base \in Nat /\ iter \in Nat /\ idx \in Nat
      /\ D!Others \in Nat
  BY DEF StressInv, D!TypeOK
<1>1. CASE D!NewRound
  BY <1>0, <1>1 DEF D!NewRound, D!delegator, StressInv, D!TypeOK, JoinedInv, RestedInv, Asked
<1>2. CASE D!Start
  <2>1. /\ pc = "start" /\ pc' \in {"returned", "leave_first", "join"}
        /\ pc' # "returned" => Validators >= Number
    BY <1>2 DEF D!Start
  <2>2. UNCHANGED <<evm, round, mine, last, idx, base, clean, iter>>
    BY <1>2 DEF D!Start, D!chain, D!delegator
  <2> QED
    BY <1>0, <2>1, <2>2 DEF StressInv, D!TypeOK, JoinedInv, RestedInv
<1>3. CASE D!LeaveFirst
  BY <1>0, <1>3 DEF D!LeaveFirst, D!chain, StressInv, D!TypeOK, JoinedInv, RestedInv
<1>4. CASE D!Fail
  BY <1>0, <1>4 DEF D!Fail, D!chain, D!delegator, StressInv, D!TypeOK, JoinedInv, RestedInv
<1>5. CASE D!Join
  BY <1>0, <1>5 DEF D!Join, D!CanJoin, D!Executed, D!chain, StressInv, D!TypeOK, JoinedInv,
     RestedInv, Asked
<1>6. CASE D!JoinRefused
  <2>1. pc = "join" /\ pc' \in {"ValueError", "count", "force"} /\ clean' = FALSE
    BY <1>6 DEF D!JoinRefused, D!NotExecuted
  <2>2. UNCHANGED <<evm, round, mine, last, iter>> /\ base' = round /\ idx' = 0
    BY <1>6 DEF D!JoinRefused, D!NotExecuted, D!chain, D!delegator
  <2>3. clean' \in BOOLEAN /\ ~clean' /\ evm' \in BOOLEAN
    BY <2>1, <2>2 DEF StressInv, D!TypeOK
  <2>4. D!TypeOK'
    BY <1>0, <2>1, <2>2, <2>3 DEF StressInv, D!TypeOK
  <2> QED
    BY <2>1, <2>3, <2>4 DEF StressInv
<1>7. CASE D!Delegate
  <2>1. 1 .. idx + 2 = 1 .. idx + 1 \cup {idx + 2}
    BY <1>0
  <2> QED
    BY <1>0, <1>7, <2>1 DEF D!Delegate, D!CanDelegate, D!Executed, D!DelegationDone, D!chain,
       StressInv, D!TypeOK, JoinedInv, RestedInv
<1>8. CASE D!DelegateRefused \/ D!DelegateReverted
  <2>1. pc = "delegate" /\ idx < D!Others /\ pc' \in {"ValueError", "force"} /\ clean' = FALSE
    BY <1>8 DEF D!DelegateRefused, D!DelegateReverted, D!NotExecuted, D!DelegationDone
  <2>2. UNCHANGED <<evm, round, mine, last, iter>> /\ base' = round /\ idx' = idx + 1
    BY <1>8 DEF D!DelegateRefused, D!DelegateReverted, D!NotExecuted, D!chain, D!delegator
  <2>3. clean' \in BOOLEAN /\ ~clean' /\ evm' \in BOOLEAN
    BY <2>1, <2>2 DEF StressInv, D!TypeOK
  <2>4. D!TypeOK'
    BY <1>0, <2>1, <2>2, <2>3 DEF StressInv, D!TypeOK
  <2> QED
    BY <2>1, <2>3, <2>4 DEF StressInv
<1>9. CASE D!ForceRound
  BY <1>0, <1>9 DEF D!ForceRound, D!chain, D!delegator, StressInv, D!TypeOK, JoinedInv, RestedInv
<1>10. CASE D!SessionSeen
  BY <1>0, <1>10 DEF D!SessionSeen, D!AfterWait, D!chain, D!delegator, StressInv, D!TypeOK,
     JoinedInv, RestedInv, Asked
<1>11. CASE D!WaitFailed
  BY <1>0, <1>11 DEF D!WaitFailed, D!AfterWait, D!chain, D!delegator, StressInv, D!TypeOK
<1>12. CASE D!Count
  BY <1>0, <1>12 DEF D!Count, D!chain, D!delegator, StressInv, D!TypeOK, JoinedInv, RestedInv
<1>13. CASE D!Reward
  BY <1>0, <1>13 DEF D!Reward, D!chain, D!delegator, StressInv, D!TypeOK, JoinedInv, RestedInv
<1>14. CASE D!Leave
  BY <1>0, <1>14 DEF D!Leave, D!chain, StressInv, D!TypeOK, JoinedInv, RestedInv
<1>15. CASE D!JoinReverted
  <2>1. /\ pc' = "IOError" /\ clean' = FALSE /\ ~clean' /\ clean' \in BOOLEAN
        /\ UNCHANGED <<evm, round, mine, last, idx, base, iter>> /\ pc = "join"
    BY <1>15 DEF D!JoinReverted, D!NotExecuted, D!chain, D!delegator
  <2>2. D!TypeOK'
    BY <1>0, <2>1 DEF StressInv, D!TypeOK
  <2> QED
    BY <2>1, <2>2 DEF StressInv
<1>16. CASE UNCHANGED D!vars
  BY <1>16 DEF D!vars, D!chain, D!delegator, StressInv, D!TypeOK, JoinedInv, RestedInv, Asked
<1> QED
  BY <1>1, <1>2, <1>3, <1>4, <1>5, <1>6, <1>7, <1>8, <1>9, <1>10, <1>11, <1>12, <1>13, <1>14,
     <1>15, <1>16 DEF D!Next, D!Stopped

(* StressInv is an invariant of the stress test. *)
LEMMA StressInvariant == D!Spec => []StressInv
BY StressInitial, StressStep, PTL DEF D!Spec

(* The cardinality the module speaks of is the library's. *)
LEMMA SameCardinality == \A set : D!Cardinality(set) = Cardinality(set)
BY DEF D!Cardinality, Cardinality

(* A setup without failures leaves the delegator with as many collators as the slice
   reaches: the number asked for, if that is one or all there are, and one more
   otherwise. *)
LEMMA CollatorsOfASetup ==
  ASSUME StressInv, pc = "count", clean
  PROVE  D!Cardinality(mine) = IF Number \in {1, Validators} THEN Number ELSE Number + 1
<1>1. mine = Asked /\ Validators >= Number
  BY DEF StressInv, JoinedInv
<1>2. \A n \in Nat : Cardinality(1 .. n) = n
  <2> TAKE n \in Nat
  <2>1. Cardinality(1 .. n) = IF 1 > n THEN 0 ELSE n - 1 + 1
    BY FS_Interval
  <2> QED
    BY <2>1
<1>3. PICK n \in Nat : n = IF Number = 1 THEN 1 ELSE D!Others + 1
  BY StressConstants
<1>4. n = IF Number \in {1, Validators} THEN Number ELSE Number + 1
  BY <1>1, <1>3, StressConstants DEF D!Others
<1>5. mine = 1 .. n
  BY <1>1, <1>3 DEF Asked
<1> QED
  BY <1>2, <1>4, <1>5, SameCardinality

-----------------------------------------------------------------------------
(* StakingSetup: types *)

(* Collators there are in all. *)
Crew == S!Cardinality(S!Collators)

(* There is always a collator at stake, so that a session is never empty, and a
   script's position is within the collators it goes through. *)
SetupTypes ==
  /\ S!TypeOK
  /\ Kept \in candidates /\ queued # {} /\ validators # {}
  /\ pcS \in {"fund_single", "send", "drain"} => S!Len(listed) \in 1 .. Crew
  /\ pcS \in {"send", "drain"} => idxS \in 1 .. S!Len(listed)
  /\ pcS \in {"fund_multi", "join", "delegate", "wait"} =>
       S!Len(listed) >= Each /\ S!Len(listed) >= 1
  /\ pcS \in {"delegate", "wait"} => idxS \in 1 .. S!Len(listed)

(* The cardinality of the set-up is the library's as well. *)
LEMMA SetupCount == \A set : S!Cardinality(set) = Cardinality(set)
BY DEF S!Cardinality, Cardinality

(* What the assumption says of the collators. *)
LEMMA SetupConstants ==
  /\ Old \cup New = S!Collators /\ S!Collators \subseteq Nat /\ IsFiniteSet(S!Collators)
  /\ Kept \in S!Collators /\ Kept \notin New /\ Stake \in [S!Collators -> Nat]
  /\ Each \in Nat \ {0} /\ FundBatch \in Nat \ {0} /\ MaxSelected \in Nat \ {0}
  /\ Crew \in Nat \ {0} /\ S!Delegators = 0 .. Each * Crew
<1>1. /\ Old \cup New = S!Collators /\ S!Collators \subseteq Nat
      /\ IsFiniteSet(S!Collators)
      /\ Kept \in S!Collators /\ Kept \notin New /\ Stake \in [S!Collators -> Nat]
      /\ Each \in Nat \ {0} /\ FundBatch \in Nat \ {0} /\ MaxSelected \in Nat \ {0}
  <2>1. IsFiniteSet(S!Collators)
    BY StakingAssumption DEF S!StakingSetupAssumption, S!Collators, S!IsFiniteSet, IsFiniteSet
  <2> QED
    BY <2>1, StakingAssumption DEF S!StakingSetupAssumption, S!Collators
<1>2. Crew \in Nat /\ Crew # 0
  BY <1>1, SetupCount, FS_CardinalityType, FS_EmptySet DEF Crew
<1> QED
  BY <1>1, <1>2 DEF S!Delegators, Crew

(* Products grow with their factors. *)
LEMMA ProductGrows ==
  ASSUME NEW e \in Nat, NEW i \in Nat, NEW k \in Nat, i <= k
  PROVE  e * i \in Nat /\ e * k \in Nat /\ e * i <= e * k
<1>1. PICK d \in Nat : k = i + d
  <2>1. k - i \in Nat /\ k = i + (k - i)
    OBVIOUS
  <2> QED
    BY <2>1
<1>2. e * k = e * i + e * d
  BY <1>1
<1>3. e * d \in Nat /\ e * i \in Nat /\ e * k \in Nat
  OBVIOUS
<1> QED
  BY <1>2, <1>3

(* The slices are of the delegators, none of them delegator 0, and of one size. *)
LEMMA SliceOfDelegators ==
  ASSUME NEW i \in 1 .. Crew
  PROVE  /\ S!Slice(i) \subseteq S!Delegators \ {0}
         /\ Cardinality(S!Slice(i)) = Each
<1>1. PICK a \in Nat : a = Each * (i - 1)
  BY SetupConstants, ProductGrows
<1>2. PICK b \in Nat : b = Each * i
  BY SetupConstants, ProductGrows
<1>3. PICK e \in Nat : e = Each * Crew
  BY SetupConstants, ProductGrows
<1>4. b = a + Each
  BY <1>1, <1>2, SetupConstants
<1>5. b <= e
  BY <1>2, <1>3, SetupConstants, ProductGrows
<1>6. S!Slice(i) = a + 1 .. b /\ S!Delegators = 0 .. e
  BY <1>1, <1>2, <1>3, SetupConstants DEF S!Slice
<1>7. Cardinality(a + 1 .. b) = IF a + 1 > b THEN 0 ELSE b - (a + 1) + 1
  BY FS_Interval
<1> QED
  BY <1>4, <1>5, <1>6, <1>7, SetupConstants

(* The session's collators are listed in ascending order, each of them once. *)
LEMMA ListedInOrder ==
  ASSUME NEW V \in SUBSET S!Collators, V # {}
  PROVE  /\ S!Ascending(V) \in S!Seq(V) /\ S!Ascending(V) \in S!Seq(S!Collators)
         /\ S!Len(S!Ascending(V)) \in 1 .. Crew
         /\ \A i, j \in 1 .. S!Len(S!Ascending(V)) :
              i # j => S!Ascending(V)[i] # S!Ascending(V)[j]
<1>1. V \in SUBSET Nat /\ IsFiniteSet(V)
  BY SetupConstants, FS_Subset
<1>2. PICK n \in Nat : n = Cardinality(V)
  BY <1>1, FS_CardinalityType
<1>3. n >= 1 /\ n <= Crew
  <2>1. Cardinality(V) # 0
    BY <1>1, FS_EmptySet
  <2>2. Cardinality(V) <= Cardinality(S!Collators)
    BY SetupConstants, FS_Subset
  <2> QED
    BY <1>2, <2>1, <2>2, SetupCount DEF Crew
<1> DEFINE s == S!Ascending(V)
<1>4. s \in [1 .. n -> V] /\ \A i, j \in DOMAIN s : i < j => s[i] < s[j]
  <2>1. \E t \in [1 .. n -> V] : \A i, j \in DOMAIN t : i < j => t[i] < t[j]
    BY <1>1, <1>2, AscendingEnumeration
  <2>2. s = CHOOSE t \in [1 .. n -> V] : \A i, j \in DOMAIN t : i < j => t[i] < t[j]
    BY <1>2, SetupCount DEF S!Ascending
  <2> HIDE DEF s
  <2> QED
    BY <2>1, <2>2
<1> HIDE DEF s
<1>5. s \in S!Seq(V) /\ s \in S!Seq(S!Collators) /\ S!Len(s) = n
  BY <1>4
<1>6. ASSUME NEW i \in 1 .. n, NEW j \in 1 .. n, i # j PROVE s[i] # s[j]
  <2>1. s[i] \in Nat /\ s[j] \in Nat
    BY <1>1, <1>4
  <2>2. i < j \/ j < i
    BY <1>6
  <2>3. s[i] < s[j] \/ s[j] < s[i]
    BY <1>4, <2>2
  <2> QED
    BY <2>1, <2>3
<1>7. S!Len(s) \in 1 .. Crew
  BY <1>2, <1>3, <1>5, SetupConstants
<1> QED
  BY <1>5, <1>6, <1>7 DEF s

(* SetupTypes holds before the first script. *)
LEMMA SetupInitial == S!Init => SetupTypes
<1> SUFFICES ASSUME S!Init PROVE SetupTypes
  OBVIOUS
<1>1. Kept \in Old /\ Old \subseteq S!Collators
  BY StakingAssumption DEF S!StakingSetupAssumption, S!Collators
<1>2. [d \in S!Delegators |-> 0] \in [S!Delegators -> Nat]
  OBVIOUS
<1>3. S!TypeOK
  <2>1. <<>> \in S!Seq(S!Collators)
    OBVIOUS
  <2>2. purse \in [S!Delegators -> Nat] /\ listed \in S!Seq(S!Collators)
    BY <1>2, <2>1 DEF S!Init
  <2> QED
    BY <1>1, <2>2 DEF S!Init, S!TypeOK
<1> QED
  BY <1>1, <1>3 DEF S!Init, SetupTypes

(* A call leaves the delegators' money and delegations well formed. *)
LEMMA DelegatedTyped ==
  ASSUME NEW d \in S!Delegators, NEW c \in S!Collators, NEW amount \in Nat, NEW ok,
         S!TypeOK, ok => purse[d] > amount, S!Delegated(d, c, amount, ok)
  PROVE  /\ purse' \in [S!Delegators -> Nat]
         /\ delegations' \subseteq S!Delegators \X S!Collators
         /\ used' \subseteq S!Delegators
         /\ cleanS' \in BOOLEAN
<1>1. CASE ok
  <2>1. purse \in [S!Delegators -> Nat] /\ purse' = [purse EXCEPT ![d] = purse[d] - amount]
    BY <1>1 DEF S!Delegated, S!TypeOK
  <2>2. purse[d] - amount \in Nat
    BY <1>1, <2>1
  <2>3. purse' \in [S!Delegators -> Nat]
    BY <2>1, <2>2
  <2>4. /\ delegations' = delegations \cup {<<d, c>>} /\ used' = used \cup {d}
        /\ cleanS' = cleanS
    BY <1>1 DEF S!Delegated
  <2> QED
    BY <2>3, <2>4 DEF S!TypeOK
<1>2. CASE ~ok
  BY <1>2 DEF S!Delegated, S!TypeOK
<1> QED
  BY <1>1, <1>2

(* What the delegators are given is money. *)
LEMMA FundedTyped ==
  ASSUME NEW ds, NEW amount \in Nat, S!TypeOK, S!FundDelegators(ds, amount)
  PROVE  purse' \in [S!Delegators -> Nat] /\ cleanS' \in BOOLEAN
<1>1. purse \in [S!Delegators -> Nat] /\ cleanS \in BOOLEAN
  BY DEF S!TypeOK
<1>2. CASE UNCHANGED cleanS /\ purse' = [d \in S!Delegators |->
                                           IF d \in ds THEN purse[d] + amount ELSE purse[d]]
  <2>1. ASSUME NEW d \in S!Delegators
        PROVE  (IF d \in ds THEN purse[d] + amount ELSE purse[d]) \in Nat
    BY <1>1
  <2> QED
    BY <1>1, <1>2, <2>1
<1>3. CASE UNCHANGED purse /\ cleanS' = FALSE
  BY <1>1, <1>3
<1> QED
  BY <1>2, <1>3 DEF S!FundDelegators, S!Fails

(* The money for all of a delegator's delegations. *)
LEMMA FundValueTyped ==
  ASSUME listed \in S!Seq(S!Collators), S!Len(listed) >= Each
  PROVE  S!FundValue \in Nat
<1> DEFINE f == [i \in 1 .. Each |-> Stake[listed[i]]]
<1>1. \A s \in S!Seq(S!Collators) : s \in [1 .. S!Len(s) -> S!Collators] /\ S!Len(s) \in Nat
  OBVIOUS
<1>2. \A i \in 1 .. Each : f[i] \in Nat
  BY <1>1, SetupConstants
<1>3. SumOver(f, 1 .. Each) \in Nat
  <2>1. IsFiniteSet(1 .. Each) /\ Nat \in {Nat, Int}
    BY FS_Interval, SetupConstants
  <2> HIDE DEF f
  <2> QED
    BY <1>2, <2>1, SumTyped
<1>4. S!StakeOfFirst(Each) = SumOver(f, 1 .. Each)
  BY DEF S!StakeOfFirst, S!FoldFunctionOnSet, S!MapThenFoldSet, SumOver, SumsTo, Chosen
<1> QED
  BY <1>3, <1>4 DEF S!FundValue

(* What a listed collator is, and where the list ends. *)
LEMMA ListTyped ==
  ASSUME S!TypeOK
  PROVE  /\ S!Len(listed) \in Nat
         /\ \A i \in 1 .. S!Len(listed) :
              listed[i] \in S!Collators /\ Stake[listed[i]] \in Nat
<1>1. \A s \in S!Seq(S!Collators) :
        S!Len(s) \in Nat /\ s \in [1 .. S!Len(s) -> S!Collators]
  OBVIOUS
<1>2. listed \in S!Seq(S!Collators)
  BY DEF S!TypeOK
<1> QED
  BY <1>1, <1>2, SetupConstants

(* Whatever happens, the collators noted are collators. *)
LEMMA HistoryTyped ==
  ASSUME SetupTypes, [S!Next]_(S!vars)
  PROVE  refused' \in BOOLEAN /\ through' \subseteq S!Collators
<1>1. refused \in BOOLEAN /\ through \subseteq S!Collators
  BY DEF SetupTypes, S!TypeOK
<1>2. CASE S!BeginScript
  <2>1. UNCHANGED refused
    BY <1>2 DEF S!BeginScript, S!BeginSingle, S!BeginMulti, S!Begin, S!chain
  <2>2. UNCHANGED through \/ S!BeginSingle
    BY <1>2 DEF S!BeginScript, S!BeginMulti, S!Begin
  <2>3. ASSUME S!BeginSingle PROVE through' \subseteq S!Collators
    <3>1. PICK of \in {S!Listed} \cup {<<c>> : c \in candidates} :
            S!Begin("single", IF S!Known(S!SubSeq(of, 1, 1)) THEN "fund_single" ELSE "idle", of)
      BY <2>3 DEF S!BeginSingle
    <3>2. through' \in {through, S!Range(of)}
      BY <3>1 DEF S!Begin
    <3>3. of \in S!Seq(S!Collators)
      <4>1. S!Listed \in S!Seq(S!Collators)
        BY ListedInOrder DEF S!Listed, SetupTypes, S!TypeOK
      <4>2. \A c \in S!Collators : <<c>> \in S!Seq(S!Collators)
        OBVIOUS
      <4>3. candidates \subseteq S!Collators
        BY DEF SetupTypes, S!TypeOK
      <4> QED
        BY <4>1, <4>2, <4>3
    <3>4. \A s \in S!Seq(S!Collators) : \A i \in DOMAIN s : s[i] \in S!Collators
      OBVIOUS
    <3> QED
      BY <1>1, <3>2, <3>3, <3>4 DEF S!Range
  <2> QED
    BY <1>1, <2>1, <2>2, <2>3
<1>3. CASE S!ForceNewRound
  BY <1>1, <1>3 DEF S!ForceNewRound, S!AfterForcing, S!Goto, S!End
<1>4. CASE S!NewRound \/ S!IncludeJoin \/ S!FundAddrs \/ S!SetupCollator \/ S!ForceLeave
  BY <1>1, <1>4 DEF S!NewRound, S!IncludeJoin, S!FundAddrs, S!SetupCollator, S!ForceLeave,
     S!Goto, S!End, S!chain, S!script
<1>5. CASE S!FundSingle \/ S!SendJoins \/ S!Drained
  BY <1>1, <1>5 DEF S!FundSingle, S!SendJoins, S!Drained, S!Goto, S!End, S!chain
<1>6. CASE S!FundMulti \/ S!Join \/ S!Delegate \/ S!Waited
  BY <1>1, <1>6 DEF S!FundMulti, S!Join, S!Delegate, S!Waited, S!Goto, S!End, S!chain
<1>7. CASE UNCHANGED S!vars
  BY <1>1, <1>7 DEF S!vars, S!chain, S!script
<1> QED
  BY <1>2, <1>3, <1>4, <1>5, <1>6, <1>7 DEF S!Next, S!Rest

(* The scripts begin with the collators of the session. *)
LEMMA BeginTyped ==
  ASSUME SetupTypes, S!BeginScript
  PROVE  SetupTypes'
<1>0. refused' \in BOOLEAN /\ through' \subseteq S!Collators
  BY HistoryTyped DEF S!Next
<1> USE DEF SetupTypes, S!TypeOK
<1>1. /\ S!Listed \in S!Seq(S!Collators) /\ S!Len(S!Listed) \in 1 .. Crew
  BY ListedInOrder DEF S!Listed
<1>2. \A c \in S!Collators :
        <<c>> \in S!Seq(S!Collators) /\ S!Len(<<c>>) \in 1 .. Crew
  BY SetupConstants
<1>3. <<>> \in S!Seq(S!Collators)
  OBVIOUS
<1>4. /\ UNCHANGED <<candidates, queued, validators, force, funded, purse, delegations, used,
                     pool, cleanS>>
      /\ idxS' = 1
      /\ done' \subseteq {"collators", "single", "multi", "leave"}
  BY DEF S!BeginScript, S!BeginSingle, S!BeginMulti, S!Begin, S!chain, S!stakers
<1>5. ASSUME listed' \in S!Seq(S!Collators),
             \/ pcS' \in {"idle", "fund_addrs", "leave"}
             \/ pcS' = "fund_single" /\ S!Len(listed') \in 1 .. Crew
             \/ pcS' = "fund_multi" /\ S!Len(listed') \in 1 .. Crew /\ S!Len(listed') >= Each
      PROVE  SetupTypes'
  <2>1. S!TypeOK'
    BY <1>0, <1>4, <1>5
  <2> QED
    BY <1>4, <1>5, <2>1
<1>6. CASE S!BeginSingle
  <2>1. PICK of \in {S!Listed} \cup {<<c>> : c \in candidates} :
          S!Begin("single", IF S!Known(S!SubSeq(of, 1, 1)) THEN "fund_single" ELSE "idle", of)
    BY <1>6 DEF S!BeginSingle
  <2>2. of \in S!Seq(S!Collators) /\ S!Len(of) \in 1 .. Crew
    BY <1>1, <1>2
  <2>3. listed' = of /\ pcS' \in {"fund_single", "idle"}
    BY <2>1 DEF S!Begin
  <2> QED
    BY <1>5, <2>2, <2>3
<1>7. CASE S!BeginMulti
  <2>1. listed' = S!Listed /\ pcS' \in {"fund_multi", "idle"}
    BY <1>7 DEF S!BeginMulti, S!Begin
  <2>2. pcS' = "fund_multi" => S!Len(S!Listed) >= Each
    BY <1>7 DEF S!BeginMulti, S!Begin
  <2> QED
    BY <1>1, <1>5, <2>1, <2>2
<1>8. CASE S!Begin("collators", "fund_addrs", <<>>) \/ S!Begin("leave", "leave", <<>>)
  <2>1. listed' = <<>> /\ pcS' \in {"fund_addrs", "leave"}
    BY <1>8 DEF S!Begin
  <2> QED
    BY <1>3, <1>5, <2>1
<1> QED
  BY <1>6, <1>7, <1>8 DEF S!BeginScript

(* A new round has a session of collators at stake. *)
LEMMA SelectionTyped ==
  ASSUME S!TypeOK, candidates # {}, NEW q \in S!Selection
  PROVE  q \subseteq candidates /\ q # {}
<1>1. CASE q = candidates
  BY <1>1
<1>2. CASE q \in S!kSubset(MaxSelected, candidates)
  <2>1. q \subseteq candidates /\ Cardinality(q) = MaxSelected
    BY <1>2, SetupCount DEF S!kSubset
  <2> QED
    BY <2>1, SetupConstants, FS_EmptySet
<1> QED
  BY <1>1, <1>2 DEF S!Selection

(* The least of two numbers. *)
LEMMA LeastOfTwo ==
  ASSUME NEW a \in Nat, NEW b \in Nat
  PROVE  S!Min({a, b}) = IF a <= b THEN a ELSE b
<1>1. \A x \in {a, b} : (\A y \in {a, b} : x =< y) <=> x = IF a <= b THEN a ELSE b
  OBVIOUS
<1>2. (IF a <= b THEN a ELSE b) \in {a, b}
  OBVIOUS
<1> QED
  BY <1>1, <1>2 DEF S!Min

(* Every step of the scripts and of the chain keeps SetupTypes. *)
LEMMA SetupStep == SetupTypes /\ [S!Next]_(S!vars) => SetupTypes'
<1> SUFFICES ASSUME SetupTypes, [S!Next]_(S!vars) PROVE SetupTypes'
  OBVIOUS
<1>0. S!TypeOK
  BY DEF SetupTypes
<1>h. refused' \in BOOLEAN /\ through' \subseteq S!Collators
  BY HistoryTyped
<1> USE <1>h
<1>a. /\ S!Len(listed) \in Nat /\ idxS \in Nat
      /\ \A i \in 1 .. S!Len(listed) : listed[i] \in S!Collators /\ Stake[listed[i]] \in Nat
  BY <1>0, ListTyped DEF S!TypeOK
<1>b. Crew \in Nat /\ New \subseteq S!Collators
  BY SetupConstants
<1>c. 0 \in S!Delegators /\ Each + 1 \in Nat
  <2>1. Each * Crew \in Nat
    BY SetupConstants, ProductGrows
  <2> QED
    BY <2>1, SetupConstants
<1>1. CASE S!NewRound
  <2>1. queued' \subseteq candidates /\ queued' # {} /\ validators' = queued
    BY <1>0, <1>1, SelectionTyped DEF S!NewRound, SetupTypes
  <2> QED
    BY <1>1, <2>1 DEF S!NewRound, S!script, SetupTypes, S!TypeOK
<1>2. CASE S!IncludeJoin
  <2>1. PICK p \in pool :
          /\ pool' = pool \ {p}
          /\ S!Delegated(p[1], p[2], p[3],
               S!Joinable(p[1]) /\ S!Accepted(p[1], p[2], p[3]))
    BY <1>2 DEF S!IncludeJoin
  <2>2. p[1] \in S!Delegators /\ p[2] \in S!Collators /\ p[3] \in Nat
    BY <1>0 DEF S!TypeOK
  <2>3. /\ purse' \in [S!Delegators -> Nat] /\ used' \subseteq S!Delegators
        /\ delegations' \subseteq S!Delegators \X S!Collators /\ cleanS' \in BOOLEAN
    BY <1>0, <2>1, <2>2, DelegatedTyped DEF S!Accepted
  <2>4. UNCHANGED <<candidates, queued, validators, force, funded, pcS, idxS, listed, done>>
    BY <1>2 DEF S!IncludeJoin, S!chain, S!script
  <2> QED
    BY <2>1, <2>3, <2>4 DEF SetupTypes, S!TypeOK
<1>3. CASE S!BeginScript
  BY <1>3, BeginTyped
<1>4. CASE S!FundAddrs
  BY <1>4 DEF S!FundAddrs, S!Fails, S!Goto, S!chain, SetupTypes, S!TypeOK
<1>5. CASE S!SetupCollator
  <2>1. /\ UNCHANGED <<queued, validators, force, funded, purse, delegations, used, pool,
                       listed, done>>
        /\ pcS' \in {"setup", "force_1"} /\ idxS' \in Nat
    BY <1>5, <1>a DEF S!SetupCollator, S!stakers, S!Goto
  <2>2. PICK c : IF c \in funded THEN candidates' = candidates \cup {c} /\ UNCHANGED cleanS
                 ELSE UNCHANGED candidates /\ S!Fails
    BY <1>5 DEF S!SetupCollator
  <2>3. candidates \subseteq candidates' /\ candidates' \subseteq S!Collators
    BY <1>0, <1>b, <2>2 DEF S!TypeOK
  <2>4. cleanS' \in BOOLEAN
    BY <1>0, <2>2 DEF S!TypeOK, S!Fails
  <2> QED
    BY <2>1, <2>3, <2>4 DEF SetupTypes, S!TypeOK
<1>6. CASE S!ForceNewRound
  <2>1. /\ UNCHANGED <<candidates, queued, validators, funded, purse, delegations, used, pool,
                       listed, done>>
        /\ pcS' \in {"force_2", "idle"} /\ idxS' \in Nat
    BY <1>6, <1>a DEF S!ForceNewRound, S!AfterForcing, S!stakers, S!Goto, S!End
  <2>2. force' = TRUE \/ UNCHANGED force
    BY <1>6 DEF S!ForceNewRound
  <2>3. cleanS' = FALSE \/ UNCHANGED cleanS
    BY <1>6 DEF S!ForceNewRound, S!Fails
  <2>4. force' \in BOOLEAN /\ cleanS' \in BOOLEAN
    BY <1>0, <2>2, <2>3 DEF S!TypeOK
  <2> QED
    BY <2>1, <2>4 DEF SetupTypes, S!TypeOK
<1>7. CASE S!ForceLeave
  BY <1>7, SetupConstants DEF S!ForceLeave, S!End, SetupTypes, S!TypeOK
<1>8. CASE S!FundSingle
  <2>1. /\ UNCHANGED <<candidates, queued, validators, force, funded, delegations, used, pool,
                       listed, done>>
        /\ pcS' \in {"fund_single", "send"} /\ idxS' \in Nat
        /\ pcS' = "send" => idxS' = 1
    BY <1>8, <1>a, SetupConstants DEF S!FundSingle, S!Goto, S!chain
  <2>2. purse' \in [S!Delegators -> Nat] /\ cleanS' \in BOOLEAN
    <3>1. S!Len(listed) \in 1 .. Crew
      BY <1>8 DEF S!FundSingle, SetupTypes
    <3>2. Stake[listed[1]] \in Nat
      BY <1>a, <3>1
    <3>3. 2 * Stake[listed[1]] \in Nat
      BY <3>2
    <3> QED
      BY <1>0, <1>8, <3>3, FundedTyped DEF S!FundSingle
  <2>3. S!Len(listed) \in 1 .. Crew
    BY <1>8 DEF S!FundSingle, SetupTypes
  <2>4. S!TypeOK'
    BY <2>1, <2>2, <1>0 DEF S!TypeOK
  <2> QED
    BY <2>1, <2>3, <2>4 DEF SetupTypes
<1>9. CASE S!SendJoins
  <2>1. S!Len(listed) \in 1 .. Crew /\ idxS \in 1 .. S!Len(listed)
    BY <1>9 DEF S!SendJoins, SetupTypes
  <2>2. /\ S!Slice(idxS) \subseteq S!Delegators /\ listed[idxS] \in S!Collators
        /\ Stake[listed[1]] \in Nat
    <3>1. idxS \in 1 .. Crew /\ 1 \in 1 .. S!Len(listed)
      BY <1>b, <2>1
    <3> QED
      BY <1>a, <2>1, <3>1, SliceOfDelegators
  <2>3. pool' \subseteq S!Delegators \X S!Collators \X Nat
    BY <1>0, <1>9, <2>2 DEF S!SendJoins, S!TypeOK
  <2>4. /\ UNCHANGED <<candidates, queued, validators, force, funded, purse, delegations, used,
                       listed, done, cleanS>>
        /\ pcS' = "drain" /\ idxS' = idxS
    BY <1>9 DEF S!SendJoins, S!Goto, S!chain
  <2> QED
    BY <2>1, <2>3, <2>4 DEF SetupTypes, S!TypeOK
<1>10. CASE S!Drained
  <2>1. S!Len(listed) \in 1 .. Crew /\ idxS \in 1 .. S!Len(listed)
    BY <1>10 DEF S!Drained, SetupTypes
  <2>2. /\ UNCHANGED <<candidates, queued, validators, force, funded, purse, delegations, used,
                       pool, listed, done, cleanS>>
        /\ pcS' \in {"send", "idle"} /\ idxS' \in 1 .. S!Len(listed)
    BY <1>10, <2>1 DEF S!Drained, S!Goto, S!End, S!chain, S!stakers
  <2> QED
    BY <2>1, <2>2 DEF SetupTypes, S!TypeOK
<1>11. CASE S!FundMulti
  <2>1. /\ UNCHANGED <<candidates, queued, validators, force, funded, delegations, used, pool,
                       listed, done>>
        /\ pcS' = "join" /\ idxS' = 1
    BY <1>11 DEF S!FundMulti, S!Goto, S!chain
  <2>2. S!Len(listed) >= Each /\ S!Len(listed) >= 1
    BY <1>11 DEF S!FundMulti, SetupTypes
  <2>3. purse' \in [S!Delegators -> Nat] /\ cleanS' \in BOOLEAN
    <3>1. S!FundValue \in Nat
      BY <1>0, <2>2, FundValueTyped DEF S!TypeOK
    <3> QED
      BY <1>0, <1>11, <3>1, FundedTyped DEF S!FundMulti
  <2> QED
    BY <2>1, <2>2, <2>3 DEF SetupTypes, S!TypeOK
<1>12. CASE S!Join
  <2>1. S!Len(listed) >= Each /\ S!Len(listed) >= 1 /\ 1 \in 1 .. S!Len(listed)
    BY <1>12, <1>a DEF S!Join, SetupTypes
  <2>2. /\ UNCHANGED <<candidates, queued, validators, force, funded, pool, listed, done>>
        /\ \/ pcS' = "idle" /\ idxS' = idxS
           \/ pcS' = "delegate" /\ idxS' = 2 /\ S!Len(listed) # 1
    BY <1>12 DEF S!Join, S!Goto, S!End, S!chain
  <2>3. /\ purse' \in [S!Delegators -> Nat] /\ used' \subseteq S!Delegators
        /\ delegations' \subseteq S!Delegators \X S!Collators /\ cleanS' \in BOOLEAN
    BY <1>0, <1>a, <1>c, <1>12, <2>1, DelegatedTyped DEF S!Join, S!Accepted
  <2>4. pcS' = "delegate" => idxS' \in 1 .. S!Len(listed)
    <3>1. PICK n \in Nat : n = S!Len(listed)
      BY <1>a
    <3>2. n # 1 => 2 \in 1 .. n
      BY <2>1, <3>1
    <3> QED
      BY <2>2, <3>1, <3>2
  <2> QED
    BY <2>1, <2>2, <2>3, <2>4 DEF SetupTypes, S!TypeOK
<1>13. CASE S!Delegate
  <2>1. S!Len(listed) >= Each /\ S!Len(listed) >= 1 /\ idxS \in 1 .. S!Len(listed)
    BY <1>13 DEF S!Delegate, SetupTypes
  <2>2. /\ UNCHANGED <<candidates, queued, validators, force, funded, pool, listed, done>>
        /\ pcS' = "wait" /\ idxS' = idxS
    BY <1>13 DEF S!Delegate, S!Goto, S!chain
  <2>3. /\ purse' \in [S!Delegators -> Nat] /\ used' \subseteq S!Delegators
        /\ delegations' \subseteq S!Delegators \X S!Collators /\ cleanS' \in BOOLEAN
    BY <1>0, <1>a, <1>c, <1>13, <2>1, DelegatedTyped DEF S!Delegate, S!Accepted
  <2> QED
    BY <2>1, <2>2, <2>3 DEF SetupTypes, S!TypeOK
<1>14. CASE S!Waited
  <2>1. S!Len(listed) >= Each /\ S!Len(listed) >= 1 /\ idxS \in 1 .. S!Len(listed)
    BY <1>14 DEF S!Waited, SetupTypes
  <2>2. S!Min({Each + 1, S!Len(listed)}) <= S!Len(listed)
        /\ S!Min({Each + 1, S!Len(listed)}) \in Nat
    BY <1>a, <1>c, LeastOfTwo
  <2>3. /\ UNCHANGED <<candidates, queued, validators, force, funded, purse, delegations, used,
                       pool, listed, done, cleanS>>
        /\ pcS' \in {"delegate", "idle"} /\ idxS' \in 1 .. S!Len(listed)
    BY <1>a, <1>14, <2>1, <2>2 DEF S!Waited, S!Goto, S!End, S!chain, S!stakers
  <2> QED
    BY <2>1, <2>3 DEF SetupTypes, S!TypeOK
<1>15. CASE UNCHANGED S!vars
  BY <1>15 DEF S!vars, S!chain, S!stakers, S!script, SetupTypes, S!TypeOK
<1> QED
  BY <1>1, <1>2, <1>3, <1>4, <1>5, <1>6, <1>7, <1>8, <1>9, <1>10, <1>11, <1>12, <1>13, <1>14,
     <1>15 DEF S!Next, S!Rest

(* SetupTypes is an invariant of the set-up. *)
LEMMA SetupTyped == S!Spec => []SetupTypes
BY SetupInitial, SetupStep, PTL DEF S!Spec

-----------------------------------------------------------------------------
(* StakingSetup: the collators that were set up *)

(* Once the first of the forced rounds has begun, what was put at stake is queued;
   once the second has, it is in the session: unless one of them was refused. *)
ServeInv ==
  "collators" \in done /\ pcS \notin {"fund_addrs", "setup", "force_1"} /\ ~refused
    /\ S!Cardinality(candidates) <= MaxSelected =>
    /\ pcS # "force_2" \/ ~force => New \cap candidates \subseteq queued
    /\ pcS # "force_2" /\ ~force => New \cap candidates \subseteq validators

(* No step of the scripts or of the chain breaks ServeInv. *)
LEMMA ServeStep == SetupTypes /\ ServeInv /\ [S!Next]_(S!vars) => ServeInv'
<1> SUFFICES ASSUME SetupTypes, ServeInv, [S!Next]_(S!vars) PROVE ServeInv'
  OBVIOUS
<1>1. CASE S!NewRound
  <2>1. /\ UNCHANGED <<candidates, refused, pcS, done>>
        /\ validators' = queued /\ queued' \in S!Selection /\ force' = FALSE
    BY <1>1 DEF S!NewRound, S!script
  <2>2. S!Cardinality(candidates) <= MaxSelected => queued' = candidates
    BY <2>1 DEF S!Selection
  <2> QED
    BY <2>1, <2>2 DEF ServeInv
<1>2. CASE UNCHANGED <<candidates, queued, validators, force, refused>>
             /\ pcS \notin {"fund_addrs", "setup", "force_1", "force_2"}
             /\ ("collators" \in done' /\ pcS' # "fund_addrs" => "collators" \in done)
  BY <1>2 DEF ServeInv
<1>3. CASE S!BeginScript
  <2>1. UNCHANGED <<candidates, queued, validators, force, refused>> /\ pcS = "idle"
    BY <1>3 DEF S!BeginScript, S!BeginSingle, S!BeginMulti, S!Begin, S!chain
  <2>2. "collators" \in done' /\ pcS' # "fund_addrs" => "collators" \in done
    BY <1>3 DEF S!BeginScript, S!BeginSingle, S!BeginMulti, S!Begin
  <2> QED
    BY <1>2, <2>1, <2>2
<1>4. CASE S!FundAddrs \/ S!SetupCollator
  <2>1. pcS' \in {"setup", "force_1"}
    BY <1>4 DEF S!FundAddrs, S!SetupCollator, S!Goto
  <2> QED
    BY <2>1 DEF ServeInv
<1>5. CASE S!ForceNewRound
  <2>1. UNCHANGED <<candidates, queued, validators, done>> /\ ~force
    BY <1>5 DEF S!ForceNewRound, S!AfterForcing, S!Goto, S!End
  <2>2. CASE force' = TRUE /\ UNCHANGED refused
    <3>1. (pcS = "force_1" /\ pcS' = "force_2") \/ (pcS = "force_2" /\ pcS' = "idle")
            \/ refused' = TRUE
      BY <1>5 DEF S!ForceNewRound, S!AfterForcing, S!Goto, S!End
    <3> QED
      BY <2>1, <2>2, <3>1 DEF ServeInv
  <2>3. CASE refused' = TRUE
    BY <2>3 DEF ServeInv
  <2> QED
    BY <1>5, <2>2, <2>3 DEF S!ForceNewRound
<1>6. CASE S!ForceLeave
  <2>1. New \cap candidates' = {}
    BY <1>6, SetupConstants DEF S!ForceLeave
  <2> QED
    BY <2>1 DEF ServeInv
<1>7. CASE S!FundSingle \/ S!SendJoins \/ S!Drained \/ S!FundMulti \/ S!Join \/ S!Delegate
             \/ S!Waited
  BY <1>2, <1>7 DEF S!FundSingle, S!SendJoins, S!Drained, S!FundMulti, S!Join, S!Delegate,
     S!Waited, S!Goto, S!End, S!chain
<1>8. CASE S!IncludeJoin \/ UNCHANGED S!vars
  <2>1. UNCHANGED <<candidates, queued, validators, force, refused, pcS, done>>
    BY <1>8 DEF S!IncludeJoin, S!vars, S!chain, S!script
  <2> QED
    BY <2>1 DEF ServeInv
<1> QED
  BY <1>1, <1>3, <1>4, <1>5, <1>6, <1>7, <1>8 DEF S!Next, S!Rest

(* ServeInv is an invariant of the set-up. *)
LEMMA ServeInvariant == S!Spec => []ServeInv
<1>1. S!Init => ServeInv
  BY DEF S!Init, ServeInv
<1> QED
  BY <1>1, ServeStep, SetupTyped, PTL DEF S!Spec

(* The collators set up serve, after any history of the other scripts. *)
LEMMA SetUpServe == ServeInv => S!CollatorsServe
BY DEF ServeInv, S!CollatorsServe

-----------------------------------------------------------------------------
(* StakingSetup: the delegators of every collator *)

(* The new delegators a collator has, or has been promised by a pending join. *)
Row(c) ==
  {d \in S!Delegators \ {0} : <<d, c>> \in delegations \/ \E p \in pool : p[1] = d /\ p[2] = c}

(* Setting collators up is over for this one. *)
Settled(c) == c \in Old \/ ("collators" \in done /\ pcS \notin {"fund_addrs", "setup"})

(* A collator has no new delegators, or a whole slice of them; those of one that left
   are gone, and what is still pending for it can only fail. *)
EvenRow(c) ==
  Row(c) # {} =>
    /\ Settled(c)
    /\ \/ \E j \in 1 .. Crew : Row(c) = S!Slice(j)
       \/ c \notin candidates /\ \A d \in S!Delegators \ {0} : <<d, c>> \notin delegations

(* The script goes through collators that are settled, each of them once, and those
   still to come have no new delegators. *)
EvenList ==
  /\ pcS \in {"fund_single", "send", "drain"} =>
       /\ \A i, j \in 1 .. S!Len(listed) : i # j => listed[i] # listed[j]
       /\ \A i \in 1 .. S!Len(listed) : \A c \in S!Collators : c = listed[i] => Settled(c)
  /\ "single" \notin done \/ pcS = "fund_single" => \A c \in S!Collators : Row(c) = {}
  /\ pcS \in {"send", "drain"} =>
       \A i \in 1 .. S!Len(listed) : \A c \in S!Collators :
         c = listed[i] /\ (i > idxS \/ (i = idxS /\ pcS = "send")) => Row(c) = {}

(* As long as all that was submitted was executed, the collators' new delegators are
   whole slices.  A script that is under way has begun, and new collators are known only
   once theirs has. *)
EvenInv ==
  /\ pcS \in {"fund_addrs", "setup", "force_1", "force_2"} => "collators" \in done
  /\ pcS \in {"fund_single", "send", "drain"} => "single" \in done
  /\ \A c \in candidates \cup queued \cup validators : c \in Old \/ "collators" \in done
  /\ cleanS => EvenList /\ \A c \in S!Collators : EvenRow(c)

(* The steps that leave every collator its new delegators, and that settle no fewer
   collators, leave the rows even. *)
LEMMA RowsKept ==
  ASSUME EvenInv, cleanS' => cleanS, candidates' = candidates,
         \A c \in S!Collators : Row(c)' = Row(c) /\ (Settled(c) => Settled(c)'),
         \A c \in S!Collators \ candidates : \A d \in S!Delegators \ {0} :
           <<d, c>> \in delegations' => <<d, c>> \in delegations
  PROVE  cleanS' => \A c \in S!Collators : EvenRow(c)'
BY DEF EvenInv, EvenRow

(* The same delegations and pending joins are the same rows. *)
LEMMA SameRows ==
  ASSUME UNCHANGED <<delegations, pool>>
  PROVE  \A c \in S!Collators : Row(c)' = Row(c)
BY DEF Row

(* A join that is executed was pending for a collator at stake. *)
LEMMA RowsAfterJoin ==
  ASSUME SetupTypes, S!IncludeJoin, cleanS'
  PROVE  /\ cleanS
         /\ \A c \in S!Collators : Row(c)' = Row(c)
         /\ \A c \in S!Collators \ candidates : \A d \in S!Delegators \ {0} :
              <<d, c>> \in delegations' => <<d, c>> \in delegations
<1>1. PICK p \in pool :
        /\ pool' = pool \ {p}
        /\ S!Delegated(p[1], p[2], p[3],
             S!Joinable(p[1]) /\ S!Accepted(p[1], p[2], p[3]))
  BY DEF S!IncludeJoin
<1>2. /\ p[2] \in candidates /\ UNCHANGED cleanS
      /\ delegations' = delegations \cup {<<p[1], p[2]>>}
  BY <1>1 DEF S!Delegated, S!Accepted
<1>3. ASSUME NEW c \in S!Collators PROVE Row(c)' = Row(c)
  <2>1. ASSUME NEW d \in S!Delegators \ {0}
        PROVE  (<<d, c>> \in delegations' \/ \E q \in pool' : q[1] = d /\ q[2] = c)
                 <=> (<<d, c>> \in delegations \/ \E q \in pool : q[1] = d /\ q[2] = c)
    BY <1>1, <1>2
  <2> QED
    BY <2>1 DEF Row
<1> QED
  BY <1>2, <1>3

(* Delegator 0 is not one of the new delegators. *)
LEMMA RowsOfTheFirst ==
  ASSUME S!Join \/ S!Delegate, cleanS'
  PROVE  /\ cleanS
         /\ \A c \in S!Collators : Row(c)' = Row(c)
         /\ \A c \in S!Collators \ candidates : \A d \in S!Delegators \ {0} :
              <<d, c>> \in delegations' => <<d, c>> \in delegations
<1>1. PICK c0, amount, ok : S!Delegated(0, c0, amount, ok)
  BY DEF S!Join, S!Delegate
<1>2. UNCHANGED <<pool, cleanS>> /\ delegations' = delegations \cup {<<0, c0>>}
  BY <1>1 DEF S!Join, S!Delegate, S!Delegated
<1>3. \A d \in S!Delegators \ {0} : \A c \in S!Collators :
        <<d, c>> \in delegations' <=> <<d, c>> \in delegations
  BY <1>2
<1> QED
  BY <1>2, <1>3 DEF Row

(* The joins of one collator are a slice of the delegators. *)
LEMMA RowsAfterSending ==
  ASSUME SetupTypes, S!SendJoins, NEW c0 \in S!Collators, c0 = listed[idxS], Row(c0) = {}
  PROVE  /\ idxS \in 1 .. Crew
         /\ Row(c0)' = S!Slice(idxS)
         /\ \A c \in S!Collators \ {c0} : Row(c)' = Row(c)
<1>1. idxS \in 1 .. Crew
  <2>1. PICK n \in Nat : n = S!Len(listed)
    BY ListTyped DEF SetupTypes
  <2>2. Crew \in Nat
    BY SetupConstants
  <2> QED
    BY <2>1, <2>2 DEF S!SendJoins, SetupTypes
<1>2. S!Slice(idxS) \subseteq S!Delegators \ {0}
  BY <1>1, SliceOfDelegators
<1>3. PICK a : a = Stake[listed[1]]
  OBVIOUS
<1>4. pool' = pool \cup {<<d, c0, a>> : d \in S!Slice(idxS)} /\ delegations' = delegations
  BY <1>3 DEF S!SendJoins
<1>5. ASSUME NEW c \in S!Collators, NEW d \in S!Delegators \ {0}
      PROVE  (\E p \in pool' : p[1] = d /\ p[2] = c) <=>
               (\E p \in pool : p[1] = d /\ p[2] = c) \/ (c = c0 /\ d \in S!Slice(idxS))
  <2>1. ASSUME c = c0, d \in S!Slice(idxS) PROVE \E p \in pool' : p[1] = d /\ p[2] = c
    <3>1. <<d, c0, a>> \in pool'
      BY <1>4, <2>1
    <3> QED
      BY <2>1, <3>1
  <2> QED
    BY <1>4, <2>1
<1> HIDE DEF S!Slice
<1>6. Row(c0)' = S!Slice(idxS)
  BY <1>2, <1>4, <1>5 DEF Row
<1>7. \A c \in S!Collators \ {c0} : Row(c)' = Row(c)
  BY <1>4, <1>5 DEF Row
<1> QED
  BY <1>1, <1>6, <1>7

(* The list of a script that is about to begin or goes on. *)
LEMMA BegunEven ==
  ASSUME SetupTypes, EvenInv, S!BeginScript
  PROVE  EvenInv'
<1>1. /\ UNCHANGED <<candidates, queued, validators, delegations, pool, cleanS>> /\ pcS = "idle"
      /\ done \subseteq done'
  BY DEF S!BeginScript, S!BeginSingle, S!BeginMulti, S!Begin, S!chain, S!stakers
<1>2. \/ pcS' = "fund_addrs" /\ "collators" \notin done /\ "collators" \in done'
      \/ pcS' \in {"idle", "leave", "fund_single", "fund_multi"}
  BY DEF S!BeginScript, S!BeginSingle, S!BeginMulti, S!Begin
<1>3. \A c \in S!Collators : Row(c)' = Row(c)
  BY <1>1, SameRows
<1>4. \A c : Settled(c) => Settled(c)'
  BY <1>1, <1>2 DEF Settled
<1>5. cleanS' => \A c \in S!Collators : EvenRow(c)'
  BY <1>1, <1>3, <1>4, RowsKept
<1>6. pcS' = "fund_single" =>
        /\ "single" \notin done
        /\ \A i, j \in 1 .. S!Len(listed') : i # j => listed'[i] # listed'[j]
        /\ \A i \in 1 .. S!Len(listed') : listed'[i] \in candidates \cup validators
  <2> SUFFICES ASSUME pcS' = "fund_single"
      PROVE  /\ "single" \notin done
             /\ \A i, j \in 1 .. S!Len(listed') : i # j => listed'[i] # listed'[j]
             /\ \A i \in 1 .. S!Len(listed') : listed'[i] \in candidates \cup validators
    OBVIOUS
  <2>1. S!BeginSingle
    BY DEF S!BeginScript, S!BeginMulti, S!Begin
  <2>2. PICK of \in {S!Listed} \cup {<<c>> : c \in candidates} :
          S!Begin("single", IF S!Known(S!SubSeq(of, 1, 1)) THEN "fund_single" ELSE "idle", of)
    BY <2>1 DEF S!BeginSingle
  <2>3. listed' = of /\ "single" \notin done
    BY <2>2 DEF S!Begin
  <2>4. CASE of = S!Listed
    <3>1. validators \in SUBSET S!Collators /\ validators # {}
      BY DEF SetupTypes, S!TypeOK
    <3>2. /\ S!Listed \in S!Seq(validators)
          /\ \A i, j \in 1 .. S!Len(S!Listed) : i # j => S!Listed[i] # S!Listed[j]
      BY <3>1, ListedInOrder DEF S!Listed
    <3>3. \A s \in S!Seq(validators) : \A i \in 1 .. S!Len(s) : s[i] \in validators
      OBVIOUS
    <3> QED
      BY <2>3, <2>4, <3>2, <3>3
  <2>5. CASE of \in {<<c>> : c \in candidates}
    <3>1. PICK c \in candidates : of = <<c>>
      BY <2>5
    <3>2. S!Len(<<c>>) = 1 /\ <<c>>[1] = c
      OBVIOUS
    <3> QED
      BY <2>3, <3>1, <3>2
  <2> QED
    BY <2>2, <2>4, <2>5
<1>7. cleanS' => EvenList'
  <2>1. pcS' = "fund_single" =>
          \A i \in 1 .. S!Len(listed') : \A c \in S!Collators : c = listed'[i] => Settled(c)'
    BY <1>1, <1>2, <1>6 DEF Settled, EvenInv
  <2>2. ASSUME cleanS', "single" \notin done' \/ pcS' = "fund_single"
        PROVE  \A c \in S!Collators : Row(c)' = {}
    BY <1>1, <1>3, <1>6, <2>2 DEF EvenInv, EvenList
  <2> QED
    BY <1>2, <1>6, <2>1, <2>2 DEF EvenList
<1>8. pcS' = "fund_single" => "single" \in done'
  BY DEF S!BeginScript, S!BeginSingle, S!BeginMulti, S!Begin
<1> QED
  BY <1>1, <1>2, <1>5, <1>7, <1>8 DEF EvenInv

(* Every step keeps the new delegators even. *)
LEMMA EvenStep == SetupTypes /\ EvenInv /\ [S!Next]_(S!vars) => EvenInv'
<1> SUFFICES ASSUME SetupTypes, EvenInv, [S!Next]_(S!vars) PROVE EvenInv'
  OBVIOUS
<1>0. /\ New \subseteq S!Collators /\ Old \subseteq S!Collators /\ Old \cap New = {}
      /\ candidates \subseteq S!Collators
      /\ Kept \in Old
  BY StakingAssumption DEF S!StakingSetupAssumption, S!Collators, SetupTypes, S!TypeOK
<1>1. CASE S!NewRound
  <2>1. /\ UNCHANGED <<candidates, delegations, pool, pcS, idxS, listed, done, cleanS>>
        /\ validators' = queued
    BY <1>1 DEF S!NewRound, S!script
  <2>2. queued' \subseteq candidates
    BY <1>1, SelectionTyped DEF S!NewRound, SetupTypes
  <2>3. \A c : Settled(c)' = Settled(c)
    BY <2>1 DEF Settled
  <2>4. cleanS' => \A c \in S!Collators : EvenRow(c)'
    BY <2>1, <2>3, SameRows, RowsKept
  <2>5. cleanS' => EvenList'
    BY <2>1, <2>3, SameRows DEF EvenInv, EvenList
  <2> QED
    BY <2>1, <2>2, <2>4, <2>5 DEF EvenInv
<1>2. CASE S!IncludeJoin
  <2>1. UNCHANGED <<candidates, queued, validators, pcS, idxS, listed, done>>
    BY <1>2 DEF S!IncludeJoin, S!chain, S!script
  <2>2. \A c : Settled(c)' = Settled(c)
    BY <2>1 DEF Settled
  <2>3. cleanS' => \A c \in S!Collators : EvenRow(c)'
    BY <1>2, <2>1, <2>2, RowsAfterJoin, RowsKept
  <2>4. cleanS' => EvenList'
    BY <1>2, <2>1, <2>2, RowsAfterJoin DEF EvenInv, EvenList
  <2> QED
    BY <2>1, <2>3, <2>4 DEF EvenInv
<1>3. CASE S!BeginScript
  BY <1>3, BegunEven
<1>4. CASE S!FundAddrs
  <2>2. /\ UNCHANGED <<candidates, queued, validators, delegations, pool, listed, done>>
        /\ pcS = "fund_addrs" /\ pcS' = "setup" /\ (cleanS' => cleanS)
    BY <1>4 DEF S!FundAddrs, S!Goto, S!chain, S!Fails
  <2>3. \A c : Settled(c)' = Settled(c)
    BY <2>2 DEF Settled
  <2>4. cleanS' => \A c \in S!Collators : EvenRow(c)'
    BY <2>2, <2>3, SameRows, RowsKept
  <2>5. cleanS' => EvenList'
    BY <2>2, <2>3, SameRows DEF EvenInv, EvenList
  <2> QED
    BY <2>2, <2>4, <2>5 DEF EvenInv
<1>5. CASE S!SetupCollator
  <2>1. /\ UNCHANGED <<queued, validators, delegations, pool, listed, done>>
        /\ pcS = "setup" /\ pcS' \in {"setup", "force_1"}
    BY <1>5 DEF S!SetupCollator, S!Goto, S!stakers
  <2>2. PICK c0 : IF c0 \in funded THEN candidates' = candidates \cup {c0} /\ UNCHANGED cleanS
                  ELSE UNCHANGED candidates /\ S!Fails
    BY <1>5 DEF S!SetupCollator
  <2>3. candidates' \subseteq candidates \cup New /\ (cleanS' => cleanS)
    BY <2>2 DEF S!Fails, SetupTypes, S!TypeOK
  <2>4. "collators" \in done
    BY <2>1 DEF EvenInv
  <2>5. \A c : Settled(c) => Settled(c)' /\ c \in Old
    BY <2>1, <2>4 DEF Settled
  <2>6. cleanS' => \A c \in S!Collators : EvenRow(c)'
    <3> SUFFICES ASSUME cleanS', NEW c \in S!Collators, Row(c)' # {}
                 PROVE  EvenRow(c)'
      BY DEF EvenRow
    <3>1. Row(c)' = Row(c) /\ EvenRow(c)
      BY <2>1, <2>3, SameRows DEF EvenInv
    <3>2. c \in Old /\ Settled(c)'
      BY <2>5, <3>1 DEF EvenRow
    <3>3. c \notin candidates => c \notin candidates'
      BY <1>0, <2>3, <3>2
    <3> QED
      BY <2>1, <3>1, <3>2, <3>3 DEF EvenRow
  <2>7. cleanS' => EvenList'
    BY <2>1, <2>3, SameRows DEF EvenInv, EvenList
  <2> QED
    BY <2>1, <2>3, <2>4, <2>6, <2>7 DEF EvenInv
<1>6. CASE S!ForceNewRound
  <2>1. /\ UNCHANGED <<candidates, queued, validators, delegations, pool, listed, done>>
        /\ pcS \in {"force_1", "force_2"} /\ pcS' \in {"force_2", "idle"}
        /\ (cleanS' => cleanS)
    BY <1>6 DEF S!ForceNewRound, S!AfterForcing, S!Fails, S!Goto, S!End, S!stakers
  <2>2. \A c : Settled(c) => Settled(c)'
    BY <2>1 DEF Settled
  <2>3. cleanS' => \A c \in S!Collators : EvenRow(c)'
    BY <2>1, <2>2, SameRows, RowsKept
  <2>4. cleanS' => EvenList'
    BY <2>1, SameRows DEF EvenInv, EvenList
  <2>5. "collators" \in done
    BY <2>1 DEF EvenInv
  <2> QED
    BY <2>1, <2>3, <2>4, <2>5 DEF EvenInv
<1>7. CASE S!ForceLeave
  <2>1. /\ UNCHANGED <<queued, validators, pool, listed, done, cleanS>>
        /\ candidates' = {Kept} /\ pcS = "leave" /\ pcS' = "idle"
        /\ delegations' = {d \in delegations : d[2] = Kept}
    BY <1>7 DEF S!ForceLeave, S!End
  <2>2. ASSUME NEW c \in S!Collators
        PROVE  Row(c)' \subseteq Row(c) /\ (c = Kept => Row(c)' = Row(c))
    <3>1. \A d : <<d, c>>[2] = c
      OBVIOUS
    <3> QED
      BY <2>1, <3>1 DEF Row
  <2>3. \A c : Settled(c) => Settled(c)'
    BY <2>1 DEF Settled
  <2>4. cleanS' => \A c \in S!Collators : EvenRow(c)'
    <3> SUFFICES ASSUME cleanS', NEW c \in S!Collators, Row(c)' # {}
                 PROVE  EvenRow(c)'
      BY DEF EvenRow
    <3>1. EvenRow(c) /\ Row(c) # {} /\ Settled(c)'
      BY <2>1, <2>2, <2>3 DEF EvenInv, EvenRow
    <3>2. CASE c = Kept
      <4>1. c \in candidates
        BY <3>2 DEF SetupTypes
      <4> QED
        BY <2>2, <3>1, <3>2, <4>1 DEF EvenRow
    <3>3. CASE c # Kept
      <4>1. \A d : <<d, c>>[2] = c
        OBVIOUS
      <4> QED
        BY <2>1, <3>1, <3>3, <4>1 DEF EvenRow
    <3> QED
      BY <3>2, <3>3
  <2>5. cleanS' => EvenList'
    BY <2>1, <2>2 DEF EvenInv, EvenList
  <2> QED
    BY <1>0, <2>1, <2>4, <2>5 DEF EvenInv
<1>8. CASE S!FundSingle
  <2>1. /\ UNCHANGED <<candidates, queued, validators, delegations, pool, listed, done>>
        /\ pcS = "fund_single" /\ pcS' \in {"fund_single", "send"} /\ (cleanS' => cleanS)
    BY <1>8 DEF S!FundSingle, S!FundDelegators, S!Fails, S!Goto, S!chain
  <2>2. \A c : Settled(c) => Settled(c)'
    BY <2>1 DEF Settled
  <2>3. cleanS' => \A c \in S!Collators : EvenRow(c)'
    BY <2>1, <2>2, SameRows, RowsKept
  <2>4. cleanS' => EvenList'
    BY <2>1, <2>2, SameRows DEF EvenInv, EvenList
  <2> QED
    BY <2>1, <2>3, <2>4 DEF EvenInv
<1>9. CASE S!SendJoins
  <2>1. /\ UNCHANGED <<candidates, queued, validators, delegations, listed, done, cleanS>>
        /\ pcS = "send" /\ pcS' = "drain" /\ idxS' = idxS
    BY <1>9 DEF S!SendJoins, S!Goto, S!chain
  <2>2. \A c : Settled(c) => Settled(c)'
    BY <2>1 DEF Settled
  <2>3. idxS \in 1 .. S!Len(listed) /\ idxS \in Nat
    BY <2>1 DEF SetupTypes, S!TypeOK
  <2>4. PICK c0 \in S!Collators : c0 = listed[idxS]
    BY <2>3, ListTyped DEF SetupTypes
  <2>5. cleanS => Settled(c0) /\ Row(c0) = {}
    BY <2>1, <2>3, <2>4 DEF EvenInv, EvenList
  <2>6. cleanS => /\ idxS \in 1 .. Crew /\ Row(c0)' = S!Slice(idxS)
                  /\ \A c \in S!Collators \ {c0} : Row(c)' = Row(c)
    BY <1>9, <2>4, <2>5, RowsAfterSending
  <2>7. cleanS' => \A c \in S!Collators : EvenRow(c)'
    <3> SUFFICES ASSUME cleanS', NEW c \in S!Collators PROVE EvenRow(c)'
      OBVIOUS
    <3>1. CASE c = c0
      BY <2>1, <2>2, <2>5, <2>6, <3>1 DEF EvenRow
    <3>2. CASE c # c0
      BY <2>1, <2>2, <2>6, <3>2 DEF EvenInv, EvenRow
    <3> QED
      BY <3>1, <3>2
  <2>8. cleanS' => EvenList'
    <3> SUFFICES ASSUME cleanS' PROVE EvenList'
      OBVIOUS
    <3>1. \A i \in 1 .. S!Len(listed) : i > idxS => listed[i] # c0
      BY <2>1, <2>3, <2>4 DEF EvenInv, EvenList
    <3>2. "single" \in done
      BY <2>1 DEF EvenInv
    <3> QED
      BY <2>1, <2>2, <2>5, <2>6, <3>1, <3>2 DEF EvenInv, EvenList
  <2> QED
    BY <2>1, <2>7, <2>8 DEF EvenInv
<1>10. CASE S!Drained
  <2>1. /\ UNCHANGED <<candidates, queued, validators, delegations, pool, listed, done, cleanS>>
        /\ pcS = "drain"
        /\ (pcS' = "send" /\ idxS' = idxS + 1) \/ pcS' = "idle"
    BY <1>10 DEF S!Drained, S!Goto, S!End, S!chain, S!stakers
  <2>2. \A c : Settled(c) => Settled(c)'
    BY <2>1 DEF Settled
  <2>3. cleanS' => \A c \in S!Collators : EvenRow(c)'
    BY <2>1, <2>2, SameRows, RowsKept
  <2>4. cleanS' => EvenList'
    <3> SUFFICES ASSUME cleanS' PROVE EvenList'
      OBVIOUS
    <3>1. PICK n \in Nat : n = idxS
      BY DEF SetupTypes, S!TypeOK
    <3>2. \A i \in 1 .. S!Len(listed) : i >= n + 1 => i > n
      BY <3>1, ListTyped DEF SetupTypes
    <3>3. pcS' = "send" => \A i \in 1 .. S!Len(listed) :
             i > idxS' \/ (i = idxS' /\ pcS' = "send") => i > n
      BY <2>1, <3>1, ListTyped DEF SetupTypes
    <3> QED
      BY <2>1, <2>2, <3>1, <3>3, SameRows DEF EvenInv, EvenList
  <2> QED
    BY <2>1, <2>3, <2>4 DEF EvenInv
<1>11. CASE S!FundMulti \/ S!Waited
  <2>1. /\ UNCHANGED <<candidates, queued, validators, delegations, pool, listed, done>>
        /\ pcS \in {"fund_multi", "wait"} /\ pcS' \in {"join", "delegate", "idle"}
        /\ (cleanS' => cleanS)
    BY <1>11 DEF S!FundMulti, S!Waited, S!FundDelegators, S!Fails, S!Goto, S!End, S!chain,
       S!stakers
  <2>2. \A c : Settled(c) => Settled(c)'
    BY <2>1 DEF Settled
  <2>3. cleanS' => \A c \in S!Collators : EvenRow(c)'
    BY <2>1, <2>2, SameRows, RowsKept
  <2>4. cleanS' => EvenList'
    BY <2>1, SameRows DEF EvenInv, EvenList
  <2> QED
    BY <2>1, <2>3, <2>4 DEF EvenInv
<1>12. CASE S!Join \/ S!Delegate
  <2>1. /\ UNCHANGED <<candidates, queued, validators, listed, done>>
        /\ pcS \in {"join", "delegate"} /\ pcS' \in {"delegate", "wait", "idle"}
    BY <1>12 DEF S!Join, S!Delegate, S!Goto, S!End, S!chain
  <2>2. \A c : Settled(c) => Settled(c)'
    BY <2>1 DEF Settled
  <2>3. cleanS' => \A c \in S!Collators : EvenRow(c)'
    BY <1>12, <2>1, <2>2, RowsOfTheFirst, RowsKept
  <2>4. cleanS' => EvenList'
    BY <1>12, <2>1, RowsOfTheFirst DEF EvenInv, EvenList
  <2> QED
    BY <2>1, <2>3, <2>4 DEF EvenInv
<1>13. CASE UNCHANGED S!vars
  BY <1>13, SameRows DEF S!vars, S!chain, S!stakers, S!script, EvenInv, EvenList, EvenRow,
     Settled
<1> QED
  BY <1>1, <1>2, <1>3, <1>4, <1>5, <1>6, <1>7, <1>8, <1>9, <1>10, <1>11, <1>12, <1>13
     DEF S!Next, S!Rest

(* EvenInv is an invariant of the set-up. *)
LEMMA EvenInvariant == S!Spec => []EvenInv
<1>1. S!Init => EvenInv
  BY DEF S!Init, EvenInv, EvenList, EvenRow, Row
<1> QED
  BY <1>1, EvenStep, SetupTyped, PTL DEF S!Spec

(* The collator is on the list of the script, and its joins are still to be sent. *)
Coming(c) ==
  \/ pcS = "fund_single"
  \/ /\ pcS \in {"send", "drain"}
     /\ \E i \in 1 .. S!Len(listed) : c = listed[i] /\ (i > idxS \/ (i = idxS /\ pcS = "send"))

(* The script goes through the collators of its list, all of them settled, and only
   collators at stake have delegators.  As long as all that was submitted was executed,
   only a collator it goes through has new ones, and one at stake that has none is
   still to come. *)
ThroughInv ==
  /\ pcS \in {"fund_single", "send", "drain"} => through = S!Range(listed)
  /\ \A c \in through : Settled(c)
  /\ \A c \in S!Collators \ candidates : \A d \in S!Delegators : <<d, c>> \notin delegations
  /\ cleanS => \A c \in S!Collators : Row(c) # {} => c \in through
  /\ cleanS => \A c \in through \cap candidates : Row(c) = {} => Coming(c)

(* A step that changes neither the rows nor the list, and forgets no collator that is
   still to come, keeps ThroughInv. *)
LEMMA ThroughKept ==
  ASSUME SetupTypes, ThroughInv, UNCHANGED <<candidates, listed, through>>, cleanS' => cleanS,
         pcS' \in {"fund_single", "send", "drain"} => pcS \in {"fund_single", "send", "drain"},
         \A c \in S!Collators : Settled(c) => Settled(c)',
         cleanS' => \A c \in S!Collators : Row(c)' = Row(c) /\ (Coming(c) => Coming(c)'),
         \A c \in S!Collators \ candidates : \A d \in S!Delegators :
           <<d, c>> \in delegations' => <<d, c>> \in delegations
  PROVE  ThroughInv'
<1>1. through \subseteq S!Collators
  BY DEF SetupTypes, S!TypeOK
<1> QED
  BY <1>1 DEF ThroughInv

(* A script begins to go through the collators of its list: none has a new delegator
   before, and all are still to come. *)
LEMMA BegunThrough ==
  ASSUME SetupTypes, EvenInv, ThroughInv, S!BeginScript
  PROVE  ThroughInv'
<1>1. /\ UNCHANGED <<candidates, delegations, pool, cleanS>> /\ pcS = "idle"
      /\ done \subseteq done'
      /\ pcS' # "send" /\ pcS' # "drain"
  BY DEF S!BeginScript, S!BeginSingle, S!BeginMulti, S!Begin, S!chain, S!stakers
<1>2. \/ pcS' = "fund_addrs" /\ "collators" \notin done /\ "collators" \in done'
      \/ pcS' \in {"idle", "leave", "fund_single", "fund_multi"}
  BY DEF S!BeginScript, S!BeginSingle, S!BeginMulti, S!Begin
<1>3. \A c \in S!Collators : Row(c)' = Row(c)
  BY <1>1, SameRows
<1>4. \A c : Settled(c) => Settled(c)'
  BY <1>1, <1>2 DEF Settled
<1>5. \A c : ~Coming(c)
  BY <1>1 DEF Coming
<1>6. CASE pcS' # "fund_single"
  <2>1. UNCHANGED through
    BY <1>6 DEF S!BeginScript, S!BeginSingle, S!BeginMulti, S!Begin
  <2>2. through \subseteq S!Collators
    BY DEF SetupTypes, S!TypeOK
  <2> QED
    BY <1>1, <1>3, <1>4, <1>5, <1>6, <2>1, <2>2 DEF ThroughInv
<1>7. CASE pcS' = "fund_single"
  <2>1. S!BeginSingle
    BY <1>7 DEF S!BeginScript, S!BeginMulti, S!Begin
  <2>2. PICK of \in {S!Listed} \cup {<<c>> : c \in candidates} :
          S!Begin("single", IF S!Known(S!SubSeq(of, 1, 1)) THEN "fund_single" ELSE "idle", of)
    BY <2>1 DEF S!BeginSingle
  <2>3. listed' = of /\ through' = S!Range(of) /\ "single" \notin done
    BY <1>7, <2>2 DEF S!Begin
  <2>4. \A i \in DOMAIN of : of[i] \in candidates \cup validators
    <3>1. CASE of = S!Listed
      <4>1. validators \in SUBSET S!Collators /\ validators # {}
        BY DEF SetupTypes, S!TypeOK
      <4>2. S!Listed \in S!Seq(validators)
        BY <4>1, ListedInOrder DEF S!Listed
      <4>3. \A s \in S!Seq(validators) : \A i \in DOMAIN s : s[i] \in validators
        OBVIOUS
      <4> QED
        BY <3>1, <4>2, <4>3
    <3>2. CASE of \in {<<c>> : c \in candidates}
      <4>1. \A c : DOMAIN <<c>> = {1} /\ <<c>>[1] = c
        OBVIOUS
      <4> QED
        BY <3>2, <4>1
    <3> QED
      BY <2>2, <3>1, <3>2
  <2>5. \A c \in through' : Settled(c)'
    BY <1>1, <1>7, <2>3, <2>4 DEF S!Range, Settled, EvenInv
  <2>6. cleanS' => \A c \in S!Collators : Row(c)' = {}
    BY <1>1, <1>3, <2>3 DEF EvenInv, EvenList
  <2>7. \A c : Coming(c)'
    BY <1>7 DEF Coming
  <2> QED
    BY <1>1, <2>3, <2>5, <2>6, <2>7 DEF ThroughInv
<1> QED
  BY <1>6, <1>7

(* Sending the joins of one collator gives it its row, and it is no longer to come. *)
LEMMA SentThrough ==
  ASSUME SetupTypes, EvenInv, ThroughInv, S!SendJoins
  PROVE  ThroughInv'
<1>1. /\ UNCHANGED <<candidates, delegations, listed, done, cleanS, through>>
      /\ pcS = "send" /\ pcS' = "drain" /\ idxS' = idxS
  BY DEF S!SendJoins, S!Goto, S!chain
<1>2. idxS \in 1 .. S!Len(listed) /\ idxS \in Nat
  BY <1>1 DEF SetupTypes, S!TypeOK
<1>3. PICK c0 \in S!Collators : c0 = listed[idxS]
  BY <1>2, ListTyped DEF SetupTypes
<1>4. c0 \in through
  <2>1. \A s \in S!Seq(S!Collators) : DOMAIN s = 1 .. S!Len(s)
    OBVIOUS
  <2>2. idxS \in DOMAIN listed
    BY <1>2, <2>1 DEF SetupTypes, S!TypeOK
  <2> QED
    BY <1>1, <1>3, <2>2 DEF ThroughInv, S!Range
<1>5. \A c : Settled(c) => Settled(c)'
  BY <1>1 DEF Settled
<1>6. through \subseteq S!Collators
  BY DEF SetupTypes, S!TypeOK
<1>7. cleanS => /\ Row(c0)' # {}
                /\ \A c \in S!Collators \ {c0} : Row(c)' = Row(c)
  <2> SUFFICES ASSUME cleanS
               PROVE  Row(c0)' # {} /\ \A c \in S!Collators \ {c0} : Row(c)' = Row(c)
    OBVIOUS
  <2>1. Row(c0) = {}
    BY <1>1, <1>2, <1>3 DEF EvenInv, EvenList
  <2>2. /\ idxS \in 1 .. Crew /\ Row(c0)' = S!Slice(idxS)
        /\ \A c \in S!Collators \ {c0} : Row(c)' = Row(c)
    BY <1>3, <2>1, RowsAfterSending
  <2>3. Cardinality(S!Slice(idxS)) # 0
    BY <2>2, SliceOfDelegators, SetupConstants
  <2> QED
    BY <2>2, <2>3, FS_EmptySet
<1>8. \A c \in S!Collators \ {c0} : Coming(c) => Coming(c)'
  BY <1>1, <1>3 DEF Coming
<1> QED
  BY <1>1, <1>4, <1>5, <1>6, <1>7, <1>8 DEF ThroughInv

(* Going on to the next collator leaves those still to come what they are. *)
LEMMA StillToCome ==
  ASSUME SetupTypes, S!FundSingle \/ S!Drained, NEW c \in through, ThroughInv, Coming(c)
  PROVE  Coming(c)'
<1>1. UNCHANGED listed
  BY DEF S!FundSingle, S!Drained, S!Goto, S!End
<1>2. PICK n \in Nat : n = S!Len(listed)
  BY ListTyped DEF SetupTypes
<1>3. PICK k \in Nat : k = idxS
  BY DEF SetupTypes, S!TypeOK
<1>4. CASE S!FundSingle
  <2>1. pcS = "fund_single" /\ (pcS' = "fund_single" \/ (pcS' = "send" /\ idxS' = 1))
    BY <1>4 DEF S!FundSingle, S!Goto
  <2>2. PICK i \in 1 .. n : c = listed[i]
    <3>1. \A s \in S!Seq(S!Collators) : DOMAIN s = 1 .. S!Len(s)
      OBVIOUS
    <3> QED
      BY <1>2, <2>1, <3>1 DEF ThroughInv, S!Range, SetupTypes, S!TypeOK
  <2>3. i > 1 \/ i = 1
    BY <2>2
  <2> QED
    BY <1>1, <1>2, <2>1, <2>2, <2>3 DEF Coming
<1>5. CASE S!Drained
  <2>1. pcS = "drain"
    BY <1>5 DEF S!Drained
  <2>2. PICK i \in 1 .. n : c = listed[i] /\ i > k
    BY <1>2, <1>3, <2>1 DEF Coming
  <2>3. k < n
    BY <2>2
  <2>4. pcS' = "send" /\ idxS' = k + 1
    BY <1>2, <1>3, <1>5, <2>3 DEF S!Drained, S!Goto
  <2>5. i > k + 1 \/ i = k + 1
    BY <2>2
  <2> QED
    BY <1>1, <1>2, <2>2, <2>4, <2>5 DEF Coming
<1> QED
  BY <1>4, <1>5

(* Every step of the scripts and of the chain keeps ThroughInv. *)
LEMMA ThroughStep == SetupTypes /\ EvenInv /\ ThroughInv /\ [S!Next]_(S!vars) => ThroughInv'
<1> SUFFICES ASSUME SetupTypes, EvenInv, ThroughInv, [S!Next]_(S!vars) PROVE ThroughInv'
  OBVIOUS
<1>0. /\ through \subseteq S!Collators /\ candidates \subseteq S!Collators
      /\ Old \cap New = {} /\ New \subseteq S!Collators
  BY StakingAssumption DEF S!StakingSetupAssumption, S!Collators, SetupTypes, S!TypeOK
<1>1. CASE S!NewRound \/ UNCHANGED S!vars
  <2>1. UNCHANGED <<candidates, listed, through, cleanS, pcS, idxS, delegations, pool, done>>
    BY <1>1 DEF S!NewRound, S!vars, S!chain, S!stakers, S!script
  <2>2. \A c : Settled(c)' = Settled(c) /\ Coming(c)' = Coming(c)
    BY <2>1 DEF Settled, Coming
  <2> QED
    BY <2>1, <2>2, SameRows, ThroughKept
<1>2. CASE S!IncludeJoin
  <2>1. UNCHANGED <<candidates, listed, through, pcS, idxS, done>>
    BY <1>2 DEF S!IncludeJoin, S!chain, S!script
  <2>2. \A c : Settled(c)' = Settled(c) /\ Coming(c)' = Coming(c)
    BY <2>1 DEF Settled, Coming
  <2>3. PICK p \in pool : S!Delegated(p[1], p[2], p[3],
                            S!Joinable(p[1]) /\ S!Accepted(p[1], p[2], p[3]))
    BY <1>2 DEF S!IncludeJoin
  <2>4. \A c \in S!Collators \ candidates : \A d \in S!Delegators :
          <<d, c>> \in delegations' => <<d, c>> \in delegations
    BY <2>3 DEF S!Delegated, S!Accepted
  <2>5. cleanS' => cleanS
    BY <1>2, RowsAfterJoin
  <2>6. cleanS' => \A c \in S!Collators : Row(c)' = Row(c)
    BY <1>2, RowsAfterJoin
  <2> QED
    BY <2>1, <2>2, <2>4, <2>5, <2>6, ThroughKept
<1>3. CASE S!BeginScript
  BY <1>3, BegunThrough
<1>4. CASE S!FundAddrs \/ S!ForceNewRound \/ S!FundMulti \/ S!Waited
  <2>1. /\ UNCHANGED <<candidates, listed, through, delegations, pool, done>>
        /\ pcS \in {"fund_addrs", "force_1", "force_2", "fund_multi", "wait"}
        /\ pcS' \in {"setup", "force_2", "idle", "join", "delegate"}
        /\ pcS' = "setup" => pcS = "fund_addrs"
        /\ (cleanS' => cleanS)
    BY <1>4 DEF S!FundAddrs, S!ForceNewRound, S!AfterForcing, S!FundMulti, S!FundDelegators,
       S!Waited, S!Fails, S!Goto, S!End, S!chain, S!stakers
  <2>2. \A c : (Settled(c) => Settled(c)') /\ ~Coming(c)
    BY <2>1 DEF Settled, Coming
  <2> QED
    BY <2>1, <2>2, SameRows, ThroughKept
<1>5. CASE S!SetupCollator
  <2>1. /\ UNCHANGED <<delegations, pool, listed, done, through>>
        /\ pcS = "setup" /\ pcS' \in {"setup", "force_1"}
    BY <1>5 DEF S!SetupCollator, S!Goto, S!stakers
  <2>2. PICK c0 : IF c0 \in funded THEN candidates' = candidates \cup {c0} /\ UNCHANGED cleanS
                  ELSE UNCHANGED candidates /\ S!Fails
    BY <1>5 DEF S!SetupCollator
  <2>3. /\ candidates \subseteq candidates' /\ candidates' \subseteq candidates \cup New
        /\ (cleanS' => cleanS)
    BY <2>2 DEF S!Fails, SetupTypes, S!TypeOK
  <2>4. \A c : (Settled(c) => Settled(c)' /\ c \in Old) /\ ~Coming(c)
    BY <2>1 DEF Settled, Coming
  <2>5. \A c \in through : c \in candidates' => c \in candidates
    BY <1>0, <2>3, <2>4 DEF ThroughInv
  <2> QED
    BY <1>0, <2>1, <2>3, <2>4, <2>5, SameRows DEF ThroughInv
<1>6. CASE S!ForceLeave
  <2>1. /\ UNCHANGED <<pool, listed, done, cleanS, through>>
        /\ candidates' = {Kept} /\ pcS = "leave" /\ pcS' = "idle"
        /\ delegations' = {d \in delegations : d[2] = Kept}
    BY <1>6 DEF S!ForceLeave, S!End
  <2>2. \A d, c : <<d, c>>[2] = c
    OBVIOUS
  <2>3. \A c \in S!Collators : Row(c)' \subseteq Row(c) /\ (c = Kept => Row(c)' = Row(c))
    BY <2>1, <2>2 DEF Row
  <2>4. \A c : (Settled(c) => Settled(c)') /\ ~Coming(c)
    BY <2>1 DEF Settled, Coming
  <2>5. Kept \in candidates
    BY DEF SetupTypes
  <2> QED
    BY <1>0, <2>1, <2>2, <2>3, <2>4, <2>5 DEF ThroughInv
<1>7. CASE S!FundSingle \/ S!Drained
  <2>1. /\ UNCHANGED <<candidates, listed, through, delegations, pool, done>>
        /\ pcS \in {"fund_single", "drain"} /\ pcS' \in {"fund_single", "send", "idle"}
        /\ (cleanS' => cleanS)
    BY <1>7 DEF S!FundSingle, S!Drained, S!FundDelegators, S!Fails, S!Goto, S!End, S!chain,
       S!stakers
  <2>2. \A c : Settled(c) => Settled(c)'
    BY <2>1 DEF Settled
  <2>3. \A c \in S!Collators : Row(c)' = Row(c)
    BY <2>1, SameRows
  <2>4. \A c \in through : Coming(c) => Coming(c)'
    BY <1>7, StillToCome
  <2> QED
    BY <1>0, <2>1, <2>2, <2>3, <2>4 DEF ThroughInv
<1>8. CASE S!SendJoins
  BY <1>8, SentThrough
<1>9. CASE S!Join \/ S!Delegate
  <2>1. /\ UNCHANGED <<candidates, listed, through, done>>
        /\ pcS \in {"join", "delegate"} /\ pcS' \in {"delegate", "wait", "idle"}
    BY <1>9 DEF S!Join, S!Delegate, S!Goto, S!End, S!chain
  <2>2. \A c : (Settled(c) => Settled(c)') /\ ~Coming(c)
    BY <2>1 DEF Settled, Coming
  <2>3. PICK c0, amount, ok : S!Delegated(0, c0, amount, ok) /\ (ok => c0 \in candidates)
    BY <1>9 DEF S!Join, S!Delegate, S!Accepted
  <2>4. \A c \in S!Collators \ candidates : \A d \in S!Delegators :
          <<d, c>> \in delegations' => <<d, c>> \in delegations
    BY <2>3 DEF S!Delegated
  <2>5. cleanS' => cleanS
    BY <1>9, RowsOfTheFirst
  <2>6. cleanS' => \A c \in S!Collators : Row(c)' = Row(c)
    BY <1>9, RowsOfTheFirst
  <2> QED
    BY <2>1, <2>2, <2>4, <2>5, <2>6, ThroughKept
<1> QED
  BY <1>1, <1>2, <1>3, <1>4, <1>5, <1>6, <1>7, <1>8, <1>9 DEF S!Next, S!Rest

(* ThroughInv is an invariant of the set-up. *)
LEMMA ThroughInvariant == S!Spec => []ThroughInv
<1>1. S!Init => ThroughInv
  BY DEF S!Init, ThroughInv, Row
<1> QED
  BY <1>1, ThroughStep, EvenInvariant, SetupTyped, PTL DEF S!Spec

(* When nothing is pending, the rows are the delegators the collators have. *)
LEMMA EvenlySet ==
  ASSUME SetupTypes, EvenInv, ThroughInv
  PROVE  S!EvenlySpread
<1> SUFFICES ASSUME pcS \notin {"fund_single", "send", "drain"}, pool = {}, cleanS,
                    NEW c \in S!Collators
             PROVE  S!Cardinality(S!Crowd(c)) =
                      IF c \in through \cap candidates THEN Each ELSE 0
  BY DEF S!EvenlySpread
<1>1. S!Crowd(c) = Row(c)
  BY DEF S!Crowd, Row
<1>2. CASE c \in through \cap candidates
  <2>1. Row(c) # {}
    BY <1>2 DEF ThroughInv, Coming
  <2>2. PICK j \in 1 .. Crew : Row(c) = S!Slice(j)
    BY <1>2, <2>1 DEF EvenInv, EvenRow
  <2> QED
    BY <1>1, <1>2, <2>2, SetupCount, SliceOfDelegators
<1>3. CASE c \notin through \cap candidates
  <2>1. S!Crowd(c) = {}
    BY <1>1, <1>3 DEF ThroughInv, S!Crowd
  <2> QED
    BY <1>3, <2>1, SetupCount, FS_EmptySet
<1> QED
  BY <1>2, <1>3

-----------------------------------------------------------------------------
(* TokenEconomy: sums and queries *)

(* The assumptions, stated with the sets of this module. *)
LEMMA EconomySets ==
  /\ IsFiniteSet(Authors) /\ IsFiniteSet(Backers) /\ Authors \cap Backers = {}
  /\ AtStake \in [Authors -> [stake : Nat, commission : 0 .. Unit, delegated : [Backers -> Nat]]]
  /\ Unit \in Nat \ {0} /\ MinRound \in Nat \ {0} /\ HonestRound \in Nat \ {0}
  /\ FaultyDeposits \subseteq Nat /\ HonestDeposits \subseteq Nat
<1>1. \A set : B!IsFiniteSet(set) <=> IsFiniteSet(set)
  BY DEF B!IsFiniteSet, IsFiniteSet
<1> QED
  BY <1>1, StakingAssumption DEF H!TokenEconomyAssumption, B!TokenEconomyAssumption

(* The instances count finite sets as this module does. *)
LEMMA EconomyCount == \A set : B!Cardinality(set) = Cardinality(set)
BY DEF B!Cardinality, Cardinality

(* The stake delegated to a collator is a sum over its delegators. *)
LEMMA DelegatedIsSum ==
  ASSUME NEW c \in Authors
  PROVE  B!Delegated(c) = SumOver(AtStake[c].delegated, Backers) /\ B!Delegated(c) \in Nat
<1>1. B!Delegated(c) = SumOver(AtStake[c].delegated, Backers)
  BY DEF B!Delegated, B!MapThenSumSet, B!MapThenFoldSet, SumOver, SumsTo, Chosen
<1>2. IsFiniteSet(Backers) /\ \A d \in Backers : AtStake[c].delegated[d] \in Nat
  BY EconomySets
<1>3. Nat \in {Nat, Int}
  OBVIOUS
<1> HIDE DEF B!Delegated
<1>4. SumOver(AtStake[c].delegated, Backers) \in Nat
  BY <1>2, <1>3, SumTyped
<1> QED
  BY <1>1, <1>4

(* A fold through a finite set ends in the sum. *)
LEMMA FoldIsSum ==
  ASSUME NEW f, NEW set, IsFiniteSet(set), NEW it, SumsTo(f, set, it)
  PROVE  it[set] = SumOver(f, set)
<1> DEFINE other == CHOOSE o : SumsTo(f, set, o)
<1>1. SumsTo(f, set, other)
  BY SumsExist
<1>2. it[set] = other[set]
  <2> HIDE DEF other
  <2> QED
    BY <1>1, SumsAgree
<1> QED
  BY <1>2 DEF SumOver

(* What a collator and its delegators weigh in the sum of the stakes. *)
Weights(count) == [c \in Authors |-> count[c] * (AtStake[c].stake + B!Delegated(c))]

(* calculate_total_staking_ratio adds up the weights. *)
LEMMA StakingNumIsSum ==
  ASSUME NEW count
  PROVE  B!StakingNum(count) = SumOver(Weights(count), Authors)
<1> DEFINE Folds(it) == it = [s \in SUBSET Authors |->
                                IF s = {} THEN 0
                                ELSE count[Chosen(s)]
                                       * (AtStake[Chosen(s)].stake + B!Delegated(Chosen(s)))
                                     + it[s \ {Chosen(s)}]]
           fold == CHOOSE it : Folds(it)
<1>1. ASSUME NEW it PROVE Folds(it) <=> SumsTo(Weights(count), Authors, it)
  <2>1. ASSUME NEW s \in SUBSET Authors, s # {}
        PROVE  Weights(count)[Chosen(s)]
                 = count[Chosen(s)] * (AtStake[Chosen(s)].stake + B!Delegated(Chosen(s)))
    <3>1. Chosen(s) \in s
      BY <2>1 DEF Chosen
    <3> QED
      BY <3>1 DEF Weights
  <2> QED
    BY <2>1 DEF SumsTo
<1>2. B!StakingNum(count) = fold[Authors]
  BY DEF B!StakingNum, B!MapThenSumSet, B!MapThenFoldSet, Chosen
<1>3. Folds(fold)
  <2> HIDE DEF Folds
  <2>1. \E it : Folds(it)
    BY <1>1, SumsExist, EconomySets
  <2> QED
    BY <2>1
<1> HIDE DEF fold, Folds
<1> QED
  BY <1>1, <1>2, <1>3, FoldIsSum, EconomySets

(* The check's total of a payout is the sum of the amounts. *)
LEMMA TotalIsSum == \A pay : B!Total(pay) = SumOver(pay.amounts, DOMAIN pay.amounts)
BY DEF B!Total, B!MapThenSumSet, B!MapThenFoldSet, SumOver, SumsTo, Chosen

(* PaidInFull compares the sum of the totals. *)
LEMMA PaidInFullIsSum ==
  ASSUME NEW info, IsFiniteSet(info), NEW total
  PROVE  B!PaidInFull(info, total) <=>
           \A p \in info : SumOver([q \in info |-> B!Total(q)], info) = total * p.over
<1> DEFINE totals == [q \in info |-> B!Total(q)]
           Folds(it) == it = [s \in SUBSET info |->
                                IF s = {} THEN 0
                                ELSE B!Total(Chosen(s)) + it[s \ {Chosen(s)}]]
           fold == CHOOSE it : Folds(it)
<1>1. ASSUME NEW it PROVE Folds(it) <=> SumsTo(totals, info, it)
  <2>1. ASSUME NEW s \in SUBSET info, s # {}
        PROVE  totals[Chosen(s)] = B!Total(Chosen(s))
    <3>1. Chosen(s) \in s
      BY <2>1 DEF Chosen
    <3> QED
      BY <3>1
  <2> QED
    BY <2>1 DEF SumsTo
<1>2. B!PaidInFull(info, total) <=> \A p \in info : fold[info] = total * p.over
  BY DEF B!PaidInFull, B!MapThenSumSet, B!MapThenFoldSet, Chosen
<1>3. Folds(fold)
  <2> HIDE DEF Folds, totals
  <2>1. \E it : Folds(it)
    BY <1>1, SumsExist
  <2> QED
    BY <2>1
<1> HIDE DEF fold, Folds
<1>4. fold[info] = SumOver(totals, info)
  <2> HIDE DEF totals
  <2> QED
    BY <1>1, <1>3, FoldIsSum
<1> QED
  BY <1>2, <1>4

(* The three parts of check_block_reward_in_session_with_distribution. *)
LEMMA DistributionParts ==
  ASSUME NEW s
  PROVE  LET count == B!CollatorBlockInfo(s) IN
         B!DistributionOK(s) <=>
           /\ SumOver(count, Authors) = s.length
           /\ Cardinality(B!RewardInfo(s)) = Cardinality({c \in Authors : count[c] > 0})
           /\ B!CheckReward(s, count, B!Rewards(blocks, s.first, s.first + s.length))
BY EconomyCount DEF B!DistributionOK, B!MapThenSumSet, B!MapThenFoldSet, SumOver, SumsTo, Chosen

(* The session of a block begins with its first block. *)
LEMMA FirstIs ==
  ASSUME NEW bs, NEW h \in Nat
  PROVE  /\ B!First(bs, h) \in 0 .. h
         /\ B!Round(bs, B!First(bs, h)) = B!Round(bs, h)
         /\ \A g \in 0 .. h : B!Round(bs, g) = B!Round(bs, h) => B!First(bs, h) <= g
<1> DEFINE Same == {f \in 0 .. h : B!Round(bs, f) = B!Round(bs, h)}
<1>1. Same \in SUBSET Nat /\ h \in Same
  OBVIOUS
<1>2. PICK f \in Same : \A g \in Same : f <= g
  BY <1>1, LeastNumber
<1>3. \E f0 \in 0 .. h :
        /\ B!Round(bs, f0) = B!Round(bs, h)
        /\ \A g \in 0 .. h : B!Round(bs, g) = B!Round(bs, h) => f0 <= g
  BY <1>2
<1> QED
  BY <1>3 DEF B!First

(* and by that it is known. *)
LEMMA FirstUnique ==
  ASSUME NEW bs, NEW h \in Nat, NEW f \in 0 .. h, B!Round(bs, f) = B!Round(bs, h),
         \A g \in 0 .. h : B!Round(bs, g) = B!Round(bs, h) => f <= g
  PROVE  B!First(bs, h) = f
<1>1. PICK g \in 0 .. h : g = B!First(bs, h)
  BY FirstIs
<1>2. f <= g /\ g <= f
  BY <1>1, FirstIs
<1> QED
  BY <1>1, <1>2

(* What the chain computes payouts from. *)
Alike(bs, cs, n) ==
  \A h \in 1 .. n : /\ bs[h].author = cs[h].author /\ bs[h].round = cs[h].round
                    /\ bs[h].noted = cs[h].noted /\ bs[h].deposit = cs[h].deposit

(* The queries at a block look at no later one, and at no payout. *)
LEMMA QueriesAlike ==
  ASSUME NEW bs, NEW cs, NEW n \in Nat, Alike(bs, cs, n), NEW h \in 0 .. n
  PROVE  /\ B!Round(bs, h) = B!Round(cs, h)
         /\ B!First(bs, h) = B!First(cs, h)
         /\ \A session, c : B!CollatorBlocks(bs, session, c, h) = B!CollatorBlocks(cs, session, c, h)
<1>1. \A g \in 0 .. n : B!Round(bs, g) = B!Round(cs, g)
  BY DEF Alike, B!Round
<1>2. B!First(bs, h) = B!First(cs, h)
  <2>1. PICK f \in 0 .. h : f = B!First(cs, h)
    BY FirstIs
  <2>2. \A g \in 0 .. h : B!Round(bs, g) = B!Round(cs, g)
    BY <1>1
  <2>3. B!Round(bs, f) = B!Round(bs, h)
    BY <2>1, <2>2, FirstIs
  <2>4. \A g \in 0 .. h : B!Round(bs, g) = B!Round(bs, h) => f <= g
    BY <2>1, <2>2, FirstIs
  <2> QED
    BY <2>1, <2>3, <2>4, FirstUnique
<1>3. ASSUME NEW session, NEW c
      PROVE  B!CollatorBlocks(bs, session, c, h) = B!CollatorBlocks(cs, session, c, h)
  <2>1. {i \in 1 .. h : bs[i].noted = session /\ bs[i].author = c}
          = {i \in 1 .. h : cs[i].noted = session /\ cs[i].author = c}
    BY DEF Alike
  <2> QED
    BY <2>1 DEF B!CollatorBlocks
<1> QED
  BY <1>1, <1>2, <1>3

(* What the blocks put into the pot, none of it at genesis. *)
Put(bs, n) == [h \in 0 .. n |-> IF h = 0 THEN 0 ELSE bs[h].deposit]

(* The equations of the sum over a session. *)
AddsUp(f, bs, first, end) ==
  f = [h \in first - 1 .. end - 1 |->
         IF h < first THEN 0 ELSE f[h - 1] + IF h = 0 THEN 0 ELSE bs[h].deposit]

(* The rewards of a session are the sum of what its blocks put into the pot. *)
LEMMA RewardsAreSum ==
  ASSUME NEW bs, NEW n \in Nat, \A h \in 1 .. n : bs[h].deposit \in Nat,
         NEW end \in 0 .. n + 1, NEW first \in 0 .. end
  PROVE  /\ B!Rewards(bs, first, end) = SumOver(Put(bs, n), first .. end - 1)
         /\ B!Rewards(bs, first, end) \in Nat
<1> DEFINE g == [h \in first - 1 .. end - 1 |-> SumOver(Put(bs, n), first .. h)]
           f == CHOOSE f : AddsUp(f, bs, first, end)
<1>1. \A h \in 0 .. n : Put(bs, n)[h] \in Nat /\ Put(bs, n)[h] = IF h = 0 THEN 0 ELSE bs[h].deposit
  BY DEF Put
<1>2. ASSUME NEW h \in first - 1 .. end - 1
      PROVE  SumOver(Put(bs, n), first .. h) \in Nat
  <2>1. IsFiniteSet(first .. h) /\ \A x \in first .. h : Put(bs, n)[x] \in Nat
    <3>1. first \in Int /\ h \in Int /\ \A x \in first .. h : x \in 0 .. n
      OBVIOUS
    <3>2. IsFiniteSet(first .. h)
      BY <3>1, FS_Interval
    <3> QED
      BY <1>1, <3>1, <3>2
  <2>2. Nat \in {Nat, Int}
    OBVIOUS
  <2> QED
    BY <2>1, <2>2, SumTyped
<1>3. ASSUME NEW h \in first .. end - 1
      PROVE  SumOver(Put(bs, n), first .. h)
               = SumOver(Put(bs, n), first .. h - 1) + IF h = 0 THEN 0 ELSE bs[h].deposit
  <2>1. IsFiniteSet(first .. h) /\ \A x \in first .. h : Put(bs, n)[x] \in Int
    <3>1. first \in Int /\ h \in Int /\ \A x \in first .. h : x \in 0 .. n
      OBVIOUS
    <3>2. IsFiniteSet(first .. h)
      BY <3>1, FS_Interval
    <3> QED
      BY <1>1, <3>1, <3>2
  <2>2. h \in 0 .. n /\ first \in Int /\ h \in Int /\ first <= h
    OBVIOUS
  <2>3. SumOver(Put(bs, n), first .. h) = SumOver(Put(bs, n), first .. h - 1) + Put(bs, n)[h]
    BY <2>1, <2>2, SumOfInterval
  <2> QED
    BY <1>1, <2>2, <2>3
<1>4. AddsUp(g, bs, first, end)
  <2>1. ASSUME NEW h \in first - 1 .. end - 1
        PROVE  g[h] = IF h < first THEN 0 ELSE g[h - 1] + IF h = 0 THEN 0 ELSE bs[h].deposit
    <3>1. CASE h < first
      <4>1. first .. h = {}
        BY <3>1
      <4> QED
        BY <3>1, <4>1, SumUnfold, FS_EmptySet
    <3>2. CASE h >= first
      <4>1. h - 1 \in first - 1 .. end - 1 /\ h \in first .. end - 1 /\ ~(h < first)
        BY <3>2
      <4>2. g[h] = SumOver(Put(bs, n), first .. h) /\ g[h - 1] = SumOver(Put(bs, n), first .. h - 1)
        BY <4>1
      <4> HIDE DEF g
      <4> QED
        BY <1>3, <4>1, <4>2
    <3> QED
      BY <3>1, <3>2
  <2>2. g = [h \in first - 1 .. end - 1 |-> g[h]]
    OBVIOUS
  <2> HIDE DEF g
  <2> QED
    BY <2>1, <2>2 DEF AddsUp
<1>5. AddsUp(f, bs, first, end)
  BY <1>4
<1> HIDE DEF f
<1> DEFINE Bad == {k \in Nat : first - 1 + k <= end - 1 /\ f[first - 1 + k] # g[first - 1 + k]}
<1>6. Bad = {}
  <2>1. SUFFICES ASSUME Bad # {} PROVE FALSE
    OBVIOUS
  <2>2. PICK k \in Bad : \A j \in Bad : k <= j
    <3>1. Bad \in SUBSET Nat
      OBVIOUS
    <3> HIDE DEF Bad
    <3> QED
      BY <2>1, <3>1, LeastNumber
  <2> DEFINE h == first - 1 + k
  <2>3. h \in first - 1 .. end - 1 /\ f[h] # g[h] /\ k \in Nat
    OBVIOUS
  <2>4. f[h] = IF h < first THEN 0 ELSE f[h - 1] + IF h = 0 THEN 0 ELSE bs[h].deposit
    BY <1>5, <2>3 DEF AddsUp
  <2>5. g[h] = IF h < first THEN 0 ELSE g[h - 1] + IF h = 0 THEN 0 ELSE bs[h].deposit
    <3> HIDE DEF g
    <3> QED
      BY <1>4, <2>3 DEF AddsUp
  <2>6. ~(h < first) => f[h - 1] = g[h - 1]
    <3>1. SUFFICES ASSUME ~(h < first) PROVE f[h - 1] = g[h - 1]
      OBVIOUS
    <3>0. first \in Int /\ end \in Int /\ k \in Int
      BY <2>3
    <3>2. k - 1 \in Nat /\ k - 1 < k /\ first - 1 + (k - 1) = h - 1 /\ h - 1 <= end - 1
      <4> HIDE DEF Bad, g
      <4> QED
        BY <2>3, <3>0, <3>1
    <3>3. k - 1 \notin Bad
      <4> HIDE DEF Bad
      <4> QED
        BY <2>2, <2>3, <3>2
    <3> HIDE DEF g
    <3> QED
      BY <3>2, <3>3
  <2> HIDE DEF g, h
  <2> QED
    BY <2>3, <2>4, <2>5, <2>6
<1>7. f[end - 1] = g[end - 1]
  <2> DEFINE k == end - first
  <2>1. k \in Nat /\ first - 1 + k = end - 1
    OBVIOUS
  <2> HIDE DEF g, k
  <2>2. k \notin Bad /\ first - 1 + k <= end - 1
    <3> HIDE DEF Bad
    <3> QED
      BY <1>6, <2>1
  <2>3. f[first - 1 + k] = g[first - 1 + k]
    BY <2>1, <2>2, Zenon
  <2> QED
    BY <2>1, <2>3, Zenon
<1>8. end - 1 \in first - 1 .. end - 1
  OBVIOUS
<1>9. B!Rewards(bs, first, end) = f[end - 1]
  BY DEF B!Rewards, AddsUp, f
<1> QED
  BY <1>2, <1>7, <1>8, <1>9

(* So are the rewards of chains that are alike. *)
LEMMA RewardsAlike ==
  ASSUME NEW bs, NEW cs, NEW n \in Nat, Alike(bs, cs, n),
         \A h \in 1 .. n : bs[h].deposit \in Nat,
         NEW end \in 0 .. n + 1, NEW first \in 0 .. end
  PROVE  B!Rewards(bs, first, end) = B!Rewards(cs, first, end)
<1>1. \A h \in 1 .. n : cs[h].deposit \in Nat
  BY DEF Alike
<1>2. Put(bs, n) = Put(cs, n)
  BY DEF Put, Alike
<1>3. B!Rewards(bs, first, end) = SumOver(Put(bs, n), first .. end - 1)
  BY RewardsAreSum
<1>4. B!Rewards(cs, first, end) = SumOver(Put(cs, n), first .. end - 1)
  BY <1>1, RewardsAreSum
<1> QED
  BY <1>2, <1>3, <1>4

(* What collator c gets for the session before the one that begins with block e. *)
PayOf(bs, e, c) ==
  LET count == [x \in Authors |-> B!CollatorBlocks(bs, B!Round(bs, e) - 1, x, e)]
  IN  [of |-> c,
       amounts |-> B!Reward(count, c, B!Rewards(bs, B!First(bs, e - 1), e)),
       over |-> Unit * B!StakingNum(count)]

(* Who gets something for it. *)
Owed(bs, e) == {c \in Authors : B!CollatorBlocks(bs, B!Round(bs, e) - 1, c, e) > 0}

(* An honest chain pays that. *)
LEMMA HonestIsPayOf ==
  ASSUME NEW bs, B!Len(bs) \in Nat, NEW c
  PROVE  B!Honest(bs, c) = PayOf(bs, B!First(bs, B!Len(bs)), c)
<1>1. B!Round(bs, B!First(bs, B!Len(bs))) = B!Round(bs, B!Len(bs))
  BY FirstIs
<1> QED
  BY <1>1 DEF B!Honest, PayOf

(* and chains that are alike pay alike. *)
LEMMA PayAlike ==
  ASSUME NEW bs, NEW cs, NEW n \in Nat, Alike(bs, cs, n),
         \A h \in 1 .. n : bs[h].deposit \in Nat, NEW e \in 1 .. n
  PROVE  Owed(bs, e) = Owed(cs, e) /\ \A c : PayOf(bs, e, c) = PayOf(cs, e, c)
<1>1. /\ B!Round(bs, e) = B!Round(cs, e)
      /\ \A session, c : B!CollatorBlocks(bs, session, c, e) = B!CollatorBlocks(cs, session, c, e)
  BY e \in 0 .. n, QueriesAlike
<1>2. B!First(bs, e - 1) = B!First(cs, e - 1)
  BY e - 1 \in 0 .. n, QueriesAlike
<1>3. B!First(bs, e - 1) \in 0 .. e - 1
  BY e - 1 \in Nat, FirstIs
<1>4. B!Rewards(bs, B!First(bs, e - 1), e) = B!Rewards(cs, B!First(bs, e - 1), e)
  <2>1. e \in 0 .. n + 1 /\ B!First(bs, e - 1) \in 0 .. e
    BY <1>3
  <2> QED
    BY <2>1, RewardsAlike
<1>5. [x \in Authors |-> B!CollatorBlocks(bs, B!Round(bs, e) - 1, x, e)]
        = [x \in Authors |-> B!CollatorBlocks(cs, B!Round(cs, e) - 1, x, e)]
  BY <1>1
<1>6. \A c : PayOf(bs, e, c) = PayOf(cs, e, c)
  BY <1>2, <1>4, <1>5 DEF PayOf
<1>7. Owed(bs, e) = Owed(cs, e)
  BY <1>1 DEF Owed
<1> QED
  BY <1>6, <1>7

(* Rounds go up one by one, none is shorter than MinRound or longer than longest, and
   every block says of itself what it should. *)
Ordered(bs, n, longest) ==
  /\ \A h \in 1 .. n : /\ bs[h].author \in Authors /\ bs[h].noted = B!Round(bs, h - 1)
                       /\ bs[h].deposit \in Nat /\ bs[h].credited = bs[h].deposit
                       /\ B!Round(bs, h) \in {B!Round(bs, h - 1), B!Round(bs, h - 1) + 1}
  /\ \A h \in 0 .. n : B!Round(bs, h) \in Nat /\ h + 1 - B!First(bs, h) <= longest
  /\ \A g, h \in 0 .. n : g <= h => B!Round(bs, g) <= B!Round(bs, h)
  /\ \A h \in 1 .. n : B!Round(bs, h) # B!Round(bs, h - 1)
                         => h - B!First(bs, h - 1) >= MinRound

(* The payout of block h is that of collator c. *)
PaidAt(bs, h, c) == bs[h].pay # B!NoPay /\ bs[h].pay.of = c

(* Block h pays one of those that are owed something and have not been paid; if it
   pays nobody, all have been, and so they have if the next session begins. *)
PayRight(bs, h) ==
  LET e == B!First(bs, h)
      f == B!First(bs, h - 1)
  IN  /\ bs[h].pay # B!NoPay =>
           /\ e > 0 /\ bs[h].pay.of \in Owed(bs, e) /\ bs[h].pay = PayOf(bs, e, bs[h].pay.of)
           /\ \A g \in e .. h - 1 : ~PaidAt(bs, g, bs[h].pay.of)
      /\ bs[h].pay = B!NoPay /\ e > 0 =>
           \A c \in Owed(bs, e) : \E g \in e .. h - 1 : PaidAt(bs, g, c)
      /\ B!Round(bs, h) # B!Round(bs, h - 1) /\ f > 0 =>
           \A c \in Owed(bs, f) : \E g \in f .. h - 1 : PaidAt(bs, g, c)

(* Due are those who are owed something and have not been paid. *)
DueRight(bs, n, unpaid) ==
  LET e == B!First(bs, n) IN
  IF e = 0 THEN unpaid = {}
  ELSE unpaid = {c \in Owed(bs, e) : \A g \in e .. n : ~PaidAt(bs, g, c)}

(* A chain of n blocks without a fault. *)
Honestly(bs, n, unpaid, longest) ==
  /\ Ordered(bs, n, longest)
  /\ \A h \in 1 .. n : PayRight(bs, h)
  /\ DueRight(bs, n, unpaid)

(* The first block of the session a block is added to. *)
LEMMA NextFirst ==
  ASSUME NEW bs, NEW n \in Nat, NEW new \in BOOLEAN,
         \A g, h \in 0 .. n : g <= h => B!Round(bs, g) <= B!Round(bs, h),
         \A h \in 0 .. n : B!Round(bs, h) \in Nat,
         B!Round(bs, n + 1) = IF new THEN B!Round(bs, n) + 1 ELSE B!Round(bs, n)
  PROVE  B!First(bs, n + 1) = IF new THEN n + 1 ELSE B!First(bs, n)
<1>1. CASE new
  <2>1. \A g \in 0 .. n + 1 : B!Round(bs, g) = B!Round(bs, n + 1) => n + 1 <= g
    <3> SUFFICES ASSUME NEW g \in 0 .. n + 1, g # n + 1, B!Round(bs, g) = B!Round(bs, n) + 1
                 PROVE  FALSE
      BY <1>1
    <3>1. g \in 0 .. n /\ n \in 0 .. n /\ g <= n
      OBVIOUS
    <3>2. B!Round(bs, g) <= B!Round(bs, n) /\ B!Round(bs, n) \in Nat
      BY <3>1
    <3> QED
      BY <3>2
  <2>2. n + 1 \in 0 .. n + 1 /\ n + 1 \in Nat
    OBVIOUS
  <2> QED
    BY <1>1, <2>1, <2>2, FirstUnique
<1>2. CASE ~new
  <2>1. PICK f \in 0 .. n : f = B!First(bs, n)
    BY FirstIs
  <2>2. B!Round(bs, f) = B!Round(bs, n + 1)
    BY <1>2, <2>1, FirstIs
  <2>3. \A g \in 0 .. n + 1 : B!Round(bs, g) = B!Round(bs, n + 1) => f <= g
    <3> SUFFICES ASSUME NEW g \in 0 .. n + 1, B!Round(bs, g) = B!Round(bs, n)
                 PROVE  f <= g
      BY <1>2
    <3>1. CASE g \in 0 .. n
      BY <2>1, <3>1, FirstIs
    <3>2. CASE g \notin 0 .. n
      BY <3>2
    <3> QED
      BY <3>1, <3>2
  <2>4. f \in 0 .. n + 1 /\ n + 1 \in Nat
    OBVIOUS
  <2> QED
    BY <1>2, <2>1, <2>2, <2>3, <2>4, FirstUnique
<1> QED
  BY <1>1, <1>2

-----------------------------------------------------------------------------
(* TokenEconomy: types *)

(* The chain is a sequence, and no session is shorter than MinRound: the round of a
   block, times MinRound, is at most the block's height. *)
EconomyInv ==
  /\ \E W : blocks \in B!Seq(W)
  /\ \A h \in 1 .. B!Len(blocks) :
       /\ blocks[h].author \in Authors
       /\ blocks[h].round \in Nat /\ blocks[h].round * MinRound <= h
       /\ blocks[h].noted \in 0 .. blocks[h].round
  /\ due \subseteq Authors
  /\ fault.how \in {"none", "shifted", "unpaid", "misnoted", "leak"}
  /\ fault = [how |-> fault.how, at |-> fault.at] /\ fault.at \in 0 .. B!Len(blocks)

(* What the assumption says of the chains. *)
LEMMA EconomyConstants == MinRound \in Nat \ {0}
BY StakingAssumption DEF B!TokenEconomyAssumption

(* A quotient is at least what fits. *)
LEMMA Fits ==
  ASSUME NEW m \in Nat \ {0}, NEW h \in Nat, NEW r \in Nat, r * m <= h
  PROVE  r \in 0 .. h \div m
<1>1. h \div m \in Nat
  OBVIOUS
<1>2. r <= h \div m
  BY Z3
<1> QED
  BY <1>1, <1>2

(* EconomyInv gives the types. *)
LEMMA EconomyTyped == EconomyInv => B!TypeOK
<1> SUFFICES ASSUME EconomyInv PROVE B!TypeOK
  OBVIOUS
<1>1. B!Len(blocks) \in Nat
  BY DEF EconomyInv
<1>2. ASSUME NEW h \in 1 .. B!Len(blocks)
      PROVE  blocks[h].round \in 0 .. h \div MinRound
  <2>1. PICK r \in Nat : r = blocks[h].round
    BY DEF EconomyInv
  <2>2. r * MinRound <= h /\ h \in Nat
    BY <1>1, <2>1 DEF EconomyInv
  <2> QED
    BY <2>1, <2>2, EconomyConstants, Fits
<1>3. fault \in [how : {"none", "shifted", "unpaid", "misnoted", "leak"},
                 at : 0 .. B!Len(blocks)]
  BY DEF EconomyInv
<1> QED
  BY <1>2, <1>3 DEF EconomyInv, B!TypeOK, B!height

(* What a chain adds whose sessions are at most longest. *)
AddsThis(how, longest, c, deposit, new, now, block, bs, unpaid) ==
  /\ now = B!Round(blocks, B!Len(blocks))
  /\ block = [author |-> c,
              round |-> IF new THEN now + 1 ELSE now,
              noted |-> IF how = "misnoted" THEN now + 1 ELSE now,
              deposit |-> deposit,
              credited |-> IF how = "leak" THEN deposit - 1 ELSE deposit,
              pay |-> B!NoPay]
  /\ bs = B!Append(blocks, block)
  /\ unpaid = IF new THEN B!Noted(bs, now) ELSE due
  /\ IF new THEN B!MayRotate ELSE B!Blocks < longest
  /\ how = "misnoted" => new
  /\ how = "leak" => deposit > 0
  /\ \/ /\ unpaid = {} /\ how \notin {"shifted", "unpaid"}
        /\ blocks' = bs /\ due' = {}
     \/ \E p \in unpaid :
          /\ how \in {"shifted", "unpaid"} => \E a \in Backers : B!Honest(bs, p).amounts[a] > 0
          /\ blocks' = [bs EXCEPT ![B!Len(bs)].pay = B!Faulty(B!Honest(bs, p), how)]
          /\ due' = unpaid \ {p}

Adds(how, longest) ==
  \E c \in Authors, deposit \in Nat, new \in BOOLEAN : \E now, block, bs, unpaid :
    AddsThis(how, longest, c, deposit, new, now, block, bs, unpaid)

(* Both chains are the same program. *)
LEMMA SameProgram ==
  /\ H!NoPay = B!NoPay /\ H!Blocks = B!Blocks /\ H!MayRotate = B!MayRotate
  /\ \A bs, h : H!Round(bs, h) = B!Round(bs, h) /\ H!First(bs, h) = B!First(bs, h)
  /\ \A bs, s : H!Noted(bs, s) = B!Noted(bs, s)
  /\ \A bs, p : H!Honest(bs, p) = B!Honest(bs, p)
  /\ \A pay, how : H!Faulty(pay, how) = B!Faulty(pay, how)
<1>1. H!NoPay = B!NoPay
  BY DEF H!NoPay, B!NoPay
<1>2. \A bs, h : H!Round(bs, h) = B!Round(bs, h) /\ H!First(bs, h) = B!First(bs, h)
  BY DEF H!Round, B!Round, H!First, B!First
<1>3. H!Blocks = B!Blocks /\ H!MayRotate = B!MayRotate
  BY <1>2 DEF H!Blocks, B!Blocks, H!MayRotate, B!MayRotate
<1>4. \A bs, session, c, h :
        H!CollatorBlocks(bs, session, c, h) = B!CollatorBlocks(bs, session, c, h)
  BY DEF H!CollatorBlocks, B!CollatorBlocks, H!Cardinality, B!Cardinality
<1>5. \A bs, s : H!Noted(bs, s) = B!Noted(bs, s)
  BY <1>4 DEF H!Noted, B!Noted
<1>6. \A bs, first, end : H!Rewards(bs, first, end) = B!Rewards(bs, first, end)
  BY DEF H!Rewards, B!Rewards
<1>7. \A count : H!StakingNum(count) = B!StakingNum(count)
  BY DEF H!StakingNum, B!StakingNum, H!Delegated, B!Delegated, H!MapThenSumSet,
         B!MapThenSumSet, H!MapThenFoldSet, B!MapThenFoldSet
<1>8. \A count, c, total : H!Reward(count, c, total) = B!Reward(count, c, total)
  BY DEF H!Reward, B!Reward, H!StakingRatio, B!StakingRatio, H!Delegated, B!Delegated,
         H!MapThenSumSet, B!MapThenSumSet, H!MapThenFoldSet, B!MapThenFoldSet
<1>9. \A bs, p : H!Honest(bs, p) = B!Honest(bs, p)
  BY <1>2, <1>4, <1>6, <1>7, <1>8 DEF H!Honest, B!Honest
<1>10. \A pay, how : H!Faulty(pay, how) = B!Faulty(pay, how)
  BY DEF H!Faulty, B!Faulty
<1> QED
  BY <1>1, <1>2, <1>3, <1>5, <1>9, <1>10

(* They differ in how long a session may be. *)
LEMMA Produced ==
  ASSUME NEW how
  PROVE  (B!Produce(how) => Adds(how, MinRound)) /\ (H!Produce(how) => Adds(how, HonestRound))
<1>1. FaultyDeposits \subseteq Nat /\ HonestDeposits \subseteq Nat
  BY EconomySets
<1>2. B!Produce(how) => Adds(how, MinRound)
  <2> SUFFICES ASSUME B!Produce(how) PROVE Adds(how, MinRound)
    OBVIOUS
  <2>1. PICK c \in Authors, deposit \in FaultyDeposits, new \in BOOLEAN :
          LET now == B!Round(blocks, B!Len(blocks))
              block == [author |-> c,
                        round |-> IF new THEN now + 1 ELSE now,
                        noted |-> IF how = "misnoted" THEN now + 1 ELSE now,
                        deposit |-> deposit,
                        credited |-> IF how = "leak" THEN deposit - 1 ELSE deposit,
                        pay |-> B!NoPay]
              bs == B!Append(blocks, block)
              unpaid == IF new THEN B!Noted(bs, now) ELSE due
          IN  /\ IF new THEN B!MayRotate ELSE B!Blocks < MinRound
              /\ how = "misnoted" => new
              /\ how = "leak" => deposit > 0
              /\ \/ /\ unpaid = {}
                    /\ how \notin {"shifted", "unpaid"}
                    /\ blocks' = bs
                    /\ due' = {}
                 \/ \E p \in unpaid :
                      LET pay == B!Honest(bs, p) IN
                      /\ how \in {"shifted", "unpaid"} =>
                           \E d \in Backers : pay.amounts[d] > 0
                      /\ blocks' = [bs EXCEPT ![B!Len(bs)].pay = B!Faulty(pay, how)]
                      /\ due' = unpaid \ {p}
    BY Zenon DEF B!Produce
  <2>2. PICK now : now = B!Round(blocks, B!Len(blocks))
    OBVIOUS
  <2>3. PICK block :
          block = [author |-> c,
                   round |-> IF new THEN now + 1 ELSE now,
                   noted |-> IF how = "misnoted" THEN now + 1 ELSE now,
                   deposit |-> deposit,
                   credited |-> IF how = "leak" THEN deposit - 1 ELSE deposit,
                   pay |-> B!NoPay]
    OBVIOUS
  <2>4. PICK bs : bs = B!Append(blocks, block)
    OBVIOUS
  <2>5. PICK unpaid : unpaid = IF new THEN B!Noted(bs, now) ELSE due
    OBVIOUS
  <2>6. /\ IF new THEN B!MayRotate ELSE B!Blocks < MinRound
        /\ how = "misnoted" => new
        /\ how = "leak" => deposit > 0
        /\ \/ /\ unpaid = {} /\ how \notin {"shifted", "unpaid"}
              /\ blocks' = bs /\ due' = {}
           \/ \E p \in unpaid :
                /\ how \in {"shifted", "unpaid"} =>
                     \E a \in Backers : B!Honest(bs, p).amounts[a] > 0
                /\ blocks' = [bs EXCEPT ![B!Len(bs)].pay = B!Faulty(B!Honest(bs, p), how)]
                /\ due' = unpaid \ {p}
    BY <2>1, <2>2, <2>3, <2>4, <2>5
  <2>7. deposit \in Nat
    BY <1>1
  <2>8. AddsThis(how, MinRound, c, deposit, new, now, block, bs, unpaid)
    BY <2>2, <2>3, <2>4, <2>5, <2>6 DEF AddsThis
  <2> QED
    BY <2>7, <2>8 DEF Adds
<1>3. H!Produce(how) => Adds(how, HonestRound)
  <2> SUFFICES ASSUME H!Produce(how) PROVE Adds(how, HonestRound)
    OBVIOUS
  <2>1. PICK c \in Authors, deposit \in HonestDeposits, new \in BOOLEAN :
          LET now == H!Round(blocks, H!Len(blocks))
              block == [author |-> c,
                        round |-> IF new THEN now + 1 ELSE now,
                        noted |-> IF how = "misnoted" THEN now + 1 ELSE now,
                        deposit |-> deposit,
                        credited |-> IF how = "leak" THEN deposit - 1 ELSE deposit,
                        pay |-> H!NoPay]
              bs == H!Append(blocks, block)
              unpaid == IF new THEN H!Noted(bs, now) ELSE due
          IN  /\ IF new THEN H!MayRotate ELSE H!Blocks < HonestRound
              /\ how = "misnoted" => new
              /\ how = "leak" => deposit > 0
              /\ \/ /\ unpaid = {}
                    /\ how \notin {"shifted", "unpaid"}
                    /\ blocks' = bs
                    /\ due' = {}
                 \/ \E p \in unpaid :
                      LET pay == H!Honest(bs, p) IN
                      /\ how \in {"shifted", "unpaid"} =>
                           \E d \in Backers : pay.amounts[d] > 0
                      /\ blocks' = [bs EXCEPT ![H!Len(bs)].pay = H!Faulty(pay, how)]
                      /\ due' = unpaid \ {p}
    BY Zenon DEF H!Produce
  <2>2. PICK now : now = H!Round(blocks, H!Len(blocks))
    OBVIOUS
  <2>3. PICK block :
          block = [author |-> c,
                   round |-> IF new THEN now + 1 ELSE now,
                   noted |-> IF how = "misnoted" THEN now + 1 ELSE now,
                   deposit |-> deposit,
                   credited |-> IF how = "leak" THEN deposit - 1 ELSE deposit,
                   pay |-> H!NoPay]
    OBVIOUS
  <2>4. PICK bs : bs = H!Append(blocks, block)
    OBVIOUS
  <2>5. PICK unpaid : unpaid = IF new THEN H!Noted(bs, now) ELSE due
    OBVIOUS
  <2>6. /\ IF new THEN H!MayRotate ELSE H!Blocks < HonestRound
        /\ how = "misnoted" => new
        /\ how = "leak" => deposit > 0
        /\ \/ /\ unpaid = {} /\ how \notin {"shifted", "unpaid"}
              /\ blocks' = bs /\ due' = {}
           \/ \E p \in unpaid :
                /\ how \in {"shifted", "unpaid"} =>
                     \E a \in Backers : H!Honest(bs, p).amounts[a] > 0
                /\ blocks' = [bs EXCEPT ![H!Len(bs)].pay = H!Faulty(H!Honest(bs, p), how)]
                /\ due' = unpaid \ {p}
    BY <2>1, <2>2, <2>3, <2>4, <2>5
  <2>7. deposit \in Nat
    BY <1>1
  <2>8. AddsThis(how, HonestRound, c, deposit, new, now, block, bs, unpaid)
    BY <2>2, <2>3, <2>4, <2>5, <2>6, SameProgram DEF AddsThis
  <2> QED
    BY <2>7, <2>8 DEF Adds
<1> QED
  BY <1>2, <1>3

(* What a chain adds, whichever it is and whether it goes wrong or not. *)
LEMMA NextBlock ==
  ASSUME EconomyInv, NEW how, B!Produce(how) \/ H!Produce(how)
  PROVE  /\ \E V : blocks' \in B!Seq(V)
         /\ B!Len(blocks') = B!Len(blocks) + 1
         /\ \A h \in 1 .. B!Len(blocks) : blocks'[h] = blocks[h]
         /\ due' \subseteq Authors
         /\ \E c \in Authors, new \in BOOLEAN :
              LET now == B!Round(blocks, B!Len(blocks))
                  top == blocks'[B!Len(blocks) + 1]
              IN  /\ top.author = c
                  /\ top.round = IF new THEN now + 1 ELSE now
                  /\ top.noted = IF how = "misnoted" THEN now + 1 ELSE now
                  /\ new => B!Blocks >= MinRound
                  /\ how = "misnoted" => new
<1>1. PICK W : blocks \in B!Seq(W)
  BY DEF EconomyInv
<1>2. \E block :
        /\ \E c \in Authors, new \in BOOLEAN :
             LET now == B!Round(blocks, B!Len(blocks))
             IN  /\ block.author = c
                 /\ block.round = IF new THEN now + 1 ELSE now
                 /\ block.noted = IF how = "misnoted" THEN now + 1 ELSE now
                 /\ new => B!Blocks >= MinRound
                 /\ how = "misnoted" => new
        /\ block = [author |-> block.author, round |-> block.round, noted |-> block.noted,
                    deposit |-> block.deposit, credited |-> block.credited, pay |-> block.pay]
        /\ due' \subseteq Authors
        /\ LET bs == B!Append(blocks, block) IN
           blocks' = bs \/ \E pay : blocks' = [bs EXCEPT ![B!Len(bs)].pay = pay]
  <2>1. PICK longest : Adds(how, longest)
    BY Produced
  <2>2. PICK c \in Authors, deposit \in Nat, new \in BOOLEAN :
          \E now, block, bs, unpaid :
            AddsThis(how, longest, c, deposit, new, now, block, bs, unpaid)
    BY <2>1 DEF Adds
  <2>3. PICK here, block, bs, unpaid :
          AddsThis(how, longest, c, deposit, new, here, block, bs, unpaid)
    BY <2>2
  <2>4. unpaid \subseteq Authors
    BY <2>3 DEF AddsThis, B!Noted, EconomyInv
  <2>5. due' \subseteq Authors
    BY <2>3, <2>4 DEF AddsThis
  <2>6. LET now == B!Round(blocks, B!Len(blocks))
        IN  /\ block.author = c
            /\ block.round = IF new THEN now + 1 ELSE now
            /\ block.noted = IF how = "misnoted" THEN now + 1 ELSE now
            /\ new => B!Blocks >= MinRound
            /\ how = "misnoted" => new
    BY <2>3 DEF AddsThis, B!MayRotate
  <2>7. block = [author |-> block.author, round |-> block.round, noted |-> block.noted,
                 deposit |-> block.deposit, credited |-> block.credited, pay |-> block.pay]
    BY <2>3 DEF AddsThis
  <2>8. bs = B!Append(blocks, block)
    BY <2>3 DEF AddsThis
  <2>9. blocks' = bs \/ \E pay : blocks' = [bs EXCEPT ![B!Len(bs)].pay = pay]
    BY <2>3 DEF AddsThis
  <2>10. LET chain == B!Append(blocks, block) IN
         blocks' = chain \/ \E pay : blocks' = [chain EXCEPT ![B!Len(chain)].pay = pay]
    BY <2>8, <2>9
  <2>11. \E author \in Authors, next \in BOOLEAN :
           LET now == B!Round(blocks, B!Len(blocks))
           IN  /\ block.author = author
               /\ block.round = IF next THEN now + 1 ELSE now
               /\ block.noted = IF how = "misnoted" THEN now + 1 ELSE now
               /\ next => B!Blocks >= MinRound
               /\ how = "misnoted" => next
    BY <2>6
  <2> QED
    BY <2>5, <2>7, <2>10, <2>11
<1>3. PICK block :
        /\ \E c \in Authors, new \in BOOLEAN :
             LET now == B!Round(blocks, B!Len(blocks))
             IN  /\ block.author = c
                 /\ block.round = IF new THEN now + 1 ELSE now
                 /\ block.noted = IF how = "misnoted" THEN now + 1 ELSE now
                 /\ new => B!Blocks >= MinRound
                 /\ how = "misnoted" => new
        /\ block = [author |-> block.author, round |-> block.round, noted |-> block.noted,
                    deposit |-> block.deposit, credited |-> block.credited, pay |-> block.pay]
        /\ due' \subseteq Authors
        /\ LET bs == B!Append(blocks, block) IN
           blocks' = bs \/ \E pay : blocks' = [bs EXCEPT ![B!Len(bs)].pay = pay]
  BY <1>2
<1>4. PICK s, longer : s = blocks /\ longer = blocks'
  OBVIOUS
<1>5. PICK bs : bs = B!Append(s, block)
  OBVIOUS
<1>6. longer = bs \/ \E pay : longer = [bs EXCEPT ![B!Len(bs)].pay = pay]
  BY <1>3, <1>4, <1>5
<1>7. PICK pay : longer = bs \/ longer = [bs EXCEPT ![B!Len(bs)].pay = pay]
  BY <1>6
<1>8. block = [author |-> block.author, round |-> block.round, noted |-> block.noted,
               deposit |-> block.deposit, credited |-> block.credited, pay |-> block.pay]
  BY <1>3
<1>9. s \in B!Seq(W)
  BY <1>1, <1>4
<1>10. PICK n \in Nat : n = B!Len(s)
  BY <1>9
<1>11. \A V : \A q \in B!Seq(V) : B!Len(q) \in Nat /\ q \in [1 .. B!Len(q) -> V]
  OBVIOUS
<1>12. /\ bs \in B!Seq(W \cup {block}) /\ B!Len(bs) = n + 1
       /\ \A h \in 1 .. n : bs[h] = s[h]
       /\ bs[n + 1] = block
  BY <1>5, <1>9, <1>10
<1>13. bs \in [1 .. n + 1 -> W \cup {block}]
  BY <1>11, <1>12
<1>14. /\ \E V : longer \in B!Seq(V)
       /\ B!Len(longer) = n + 1
       /\ \A h \in 1 .. n : longer[h] = s[h]
       /\ longer[n + 1].author = block.author
       /\ longer[n + 1].round = block.round
       /\ longer[n + 1].noted = block.noted
  <2>1. CASE longer = bs
    BY <1>12, <2>1
  <2>2. CASE longer = [bs EXCEPT ![B!Len(bs)].pay = pay]
    <3>1. PICK paid : paid = [block EXCEPT !.pay = pay]
      OBVIOUS
    <3>2. paid.author = block.author /\ paid.round = block.round /\ paid.noted = block.noted
      BY <1>8, <3>1
    <3>3. longer = [bs EXCEPT ![n + 1] = paid]
      BY <1>12, <2>2, <3>1
    <3>4. PICK V : V = W \cup {block, paid}
      OBVIOUS
    <3>5. /\ longer \in [1 .. n + 1 -> V] /\ longer[n + 1] = paid
          /\ \A h \in 1 .. n : longer[h] = bs[h]
      BY <1>13, <3>3, <3>4
    <3>6. longer \in B!Seq(V) /\ n + 1 \in Nat
      BY <3>5
    <3>7. B!Len(longer) = n + 1
      BY <1>11, <3>5, <3>6
    <3> QED
      BY <1>12, <3>2, <3>5, <3>6, <3>7
  <2> QED
    BY <1>7, <2>1, <2>2
<1> QED
  BY <1>3, <1>4, <1>10, <1>14

(* A session's first block is found, and is not above the head. *)
LEMMA FirstOfRound ==
  ASSUME EconomyInv, NEW n \in Nat, n = B!Len(blocks)
  PROVE  /\ B!First(blocks, n) \in 0 .. n
         /\ B!Round(blocks, B!First(blocks, n)) = B!Round(blocks, n)
BY FirstIs

(* No block's round, times MinRound, is above its height; so too for genesis. *)
LEMMA RoundFits ==
  ASSUME EconomyInv, NEW h \in 0 .. B!Len(blocks)
  PROVE  B!Round(blocks, h) \in Nat /\ B!Round(blocks, h) * MinRound <= h
<1>1. B!Len(blocks) \in Nat
  BY DEF EconomyInv
<1>2. CASE h = 0
  <2>1. 0 * MinRound = 0
    BY EconomyConstants
  <2> QED
    BY <1>2, <2>1 DEF B!Round
<1>3. CASE h # 0
  <2>1. h \in 1 .. B!Len(blocks)
    BY <1>1, <1>3
  <2> QED
    BY <1>3, <2>1 DEF B!Round, EconomyInv
<1> QED
  BY <1>2, <1>3

(* The chain may only begin a session that is as long as it has to be. *)
LEMMA NextFits ==
  ASSUME EconomyInv, NEW n \in Nat, n = B!Len(blocks), NEW new \in BOOLEAN,
         new => B!Blocks >= MinRound,
         NEW r, r = IF new THEN B!Round(blocks, n) + 1 ELSE B!Round(blocks, n)
  PROVE  r \in Nat /\ r * MinRound <= n + 1
<1>1. PICK now \in Nat : now = B!Round(blocks, n) /\ now * MinRound <= n
  BY RoundFits
<1>2. PICK m \in Nat : m = MinRound
  BY EconomyConstants
<1>3. PICK a \in Nat : a = now * m
  <2>1. now * m \in Nat
    BY <1>1, <1>2
  <2> QED
    BY <2>1
<1>4. CASE ~new
  <2>1. r = now /\ a <= n
    BY <1>1, <1>2, <1>3, <1>4
  <2>2. a <= n + 1
    BY <2>1
  <2> QED
    BY <1>2, <1>3, <2>1, <2>2
<1>5. CASE new
  <2>1. PICK f \in 0 .. n : f = B!First(blocks, n) /\ B!Round(blocks, f) = now
    BY <1>1, FirstOfRound
  <2>2. now * MinRound <= f
    BY <1>1, <2>1, RoundFits
  <2>3. n + 1 - f >= m
    BY <1>2, <1>5, <2>1 DEF B!Blocks
  <2>4. (now + 1) * m = a + m
    BY <1>3
  <2>5. a + m <= n + 1
    BY <1>2, <1>3, <2>1, <2>2, <2>3
  <2>6. r = now + 1
    BY <1>1, <1>5
  <2> QED
    BY <1>2, <2>4, <2>5, <2>6
<1> QED
  BY <1>4, <1>5

(* A step that adds a block keeps what is known of the chain. *)
LEMMA ChainGrows ==
  ASSUME EconomyInv, NEW how, B!Produce(how) \/ H!Produce(how),
         \/ UNCHANGED fault
         \/ /\ how \in {"shifted", "unpaid", "misnoted", "leak"}
            /\ fault' = [how |-> how, at |-> B!Len(blocks')]
  PROVE  EconomyInv'
<1>1. PICK n \in Nat : n = B!Len(blocks)
  BY DEF EconomyInv
<1>2. /\ \E V : blocks' \in B!Seq(V)
      /\ B!Len(blocks') = n + 1
      /\ \A h \in 1 .. n : blocks'[h] = blocks[h]
      /\ due' \subseteq Authors
      /\ \E c \in Authors, new \in BOOLEAN :
           LET now == B!Round(blocks, n)
               top == blocks'[n + 1]
           IN  /\ top.author = c
               /\ top.round = IF new THEN now + 1 ELSE now
               /\ top.noted = IF how = "misnoted" THEN now + 1 ELSE now
               /\ new => B!Blocks >= MinRound
               /\ how = "misnoted" => new
  BY <1>1, NextBlock
<1>3. PICK c \in Authors, new \in BOOLEAN :
        /\ blocks'[n + 1].author = c
        /\ blocks'[n + 1].round = IF new THEN B!Round(blocks, n) + 1 ELSE B!Round(blocks, n)
        /\ blocks'[n + 1].noted =
             IF how = "misnoted" THEN B!Round(blocks, n) + 1 ELSE B!Round(blocks, n)
        /\ new => B!Blocks >= MinRound
        /\ how = "misnoted" => new
  BY <1>2
<1>4. PICK now \in Nat : now = B!Round(blocks, n)
  BY <1>1, RoundFits
<1>5. PICK r, top : top = blocks'[n + 1] /\ r = top.round
  OBVIOUS
<1>6. r \in Nat /\ r * MinRound <= n + 1
  BY <1>1, <1>3, <1>5, NextFits
<1>7. top.noted \in 0 .. r
  BY <1>3, <1>4, <1>5
<1>8. ASSUME NEW h \in 1 .. n + 1
      PROVE  /\ blocks'[h].author \in Authors
             /\ blocks'[h].round \in Nat /\ blocks'[h].round * MinRound <= h
             /\ blocks'[h].noted \in 0 .. blocks'[h].round
  <2>1. CASE h = n + 1
    BY <1>3, <1>5, <1>6, <1>7, <2>1
  <2>2. CASE h # n + 1
    <3>1. h \in 1 .. n
      BY <2>2
    <3> QED
      BY <1>1, <1>2, <3>1 DEF EconomyInv
  <2> QED
    BY <2>1, <2>2
<1>9. /\ fault'.how \in {"none", "shifted", "unpaid", "misnoted", "leak"}
      /\ fault' = [how |-> fault'.how, at |-> fault'.at]
      /\ fault'.at \in 0 .. n + 1
  <2>1. CASE UNCHANGED fault
    BY <1>1, <2>1 DEF EconomyInv
  <2>2. CASE /\ how \in {"shifted", "unpaid", "misnoted", "leak"}
             /\ fault' = [how |-> how, at |-> B!Len(blocks')]
    BY <1>2, <2>2
  <2> QED
    BY <2>1, <2>2
<1> QED
  BY <1>2, <1>8, <1>9 DEF EconomyInv

(* Every step of a chain, honest or not, keeps EconomyInv. *)
LEMMA EconomyStep ==
  EconomyInv /\ ([H!Next]_(H!vars) \/ [B!Next]_(B!vars)) => EconomyInv'
<1> SUFFICES ASSUME EconomyInv, [H!Next]_(H!vars) \/ [B!Next]_(B!vars)
             PROVE  EconomyInv'
  OBVIOUS
<1>1. CASE UNCHANGED <<blocks, due, fault>>
  BY <1>1 DEF EconomyInv
<1>2. CASE B!GoodBlock \/ H!GoodBlock
  BY <1>2, ChainGrows DEF B!GoodBlock, H!GoodBlock
<1>3. CASE \E how \in {"none", "shifted", "unpaid", "misnoted", "leak"} \ {"none"} :
             B!BadBlock(how)
  <2>1. PICK how \in {"none", "shifted", "unpaid", "misnoted", "leak"} \ {"none"} :
          B!BadBlock(how)
    BY <1>3
  <2>2. how \in {"shifted", "unpaid", "misnoted", "leak"} /\ B!Produce(how)
        /\ fault' = [how |-> how, at |-> B!Len(blocks')]
    BY <2>1 DEF B!BadBlock
  <2> QED
    BY <2>2, ChainGrows
<1> QED
  BY <1>1, <1>2, <1>3 DEF H!Next, B!Next, H!Full, B!Full, H!vars, B!vars

(* EconomyInv holds at genesis. *)
LEMMA EconomyInitial == H!Init => EconomyInv
<1> SUFFICES ASSUME H!Init PROVE EconomyInv
  OBVIOUS
<1>1. blocks = <<>> /\ due = {} /\ fault = [how |-> "none", at |-> 0]
  BY DEF H!Init
<1>2. <<>> \in B!Seq({}) /\ B!Len(<<>>) = 0
  OBVIOUS
<1> QED
  BY <1>1, <1>2 DEF EconomyInv

-----------------------------------------------------------------------------
(* TokenEconomy: chains without a fault *)

(* A payout is something. *)
LEMMA PayIsSome == \A bs, e, c : PayOf(bs, e, c) # B!NoPay /\ PayOf(bs, e, c).of = c
<1> SUFFICES ASSUME NEW bs, NEW e, NEW c
             PROVE  PayOf(bs, e, c) # B!NoPay /\ PayOf(bs, e, c).of = c
  OBVIOUS
<1>1. PICK count, total : PayOf(bs, e, c) = [of |-> c, amounts |-> B!Reward(count, c, total),
                                             over |-> Unit * B!StakingNum(count)]
  BY DEF PayOf
<1>2. c \in DOMAIN B!Reward(count, c, total)
  BY DEF B!Reward
<1>3. PayOf(bs, e, c).amounts = B!Reward(count, c, total) /\ PayOf(bs, e, c).of = c
  BY <1>1
<1>4. B!NoPay.amounts = <<>> /\ c \notin DOMAIN <<>>
  BY DEF B!NoPay
<1> QED
  BY <1>2, <1>3, <1>4

(* A block with the right round and deposit keeps the chain in order. *)
LEMMA OrderGrows ==
  ASSUME NEW bs, NEW cs, NEW n \in Nat, NEW longest \in Nat \ {0}, NEW new \in BOOLEAN,
         Ordered(bs, n, longest), \A h \in 1 .. n : cs[h] = bs[h],
         cs[n + 1].author \in Authors,
         cs[n + 1].round = IF new THEN B!Round(bs, n) + 1 ELSE B!Round(bs, n),
         cs[n + 1].noted = B!Round(bs, n),
         cs[n + 1].deposit \in Nat, cs[n + 1].credited = cs[n + 1].deposit,
         IF new THEN n + 1 - B!First(bs, n) >= MinRound ELSE n + 1 - B!First(bs, n) < longest
  PROVE  /\ Ordered(cs, n + 1, longest)
         /\ B!First(cs, n + 1) = IF new THEN n + 1 ELSE B!First(bs, n)
         /\ B!Round(cs, n + 1) = IF new THEN B!Round(bs, n) + 1 ELSE B!Round(bs, n)
<1>1. Alike(bs, cs, n) /\ Alike(cs, bs, n)
  BY DEF Alike
<1>2. \A h \in 0 .. n : B!Round(cs, h) = B!Round(bs, h) /\ B!First(cs, h) = B!First(bs, h)
  BY <1>1, QueriesAlike
<1>3. B!Round(cs, n + 1) = IF new THEN B!Round(cs, n) + 1 ELSE B!Round(cs, n)
  BY <1>2, n + 1 # 0, n \in 0 .. n DEF B!Round
<1>4. /\ \A h \in 0 .. n : B!Round(cs, h) \in Nat /\ h + 1 - B!First(cs, h) <= longest
      /\ \A g, h \in 0 .. n : g <= h => B!Round(cs, g) <= B!Round(cs, h)
  BY <1>2 DEF Ordered
<1>5. B!First(cs, n + 1) = IF new THEN n + 1 ELSE B!First(cs, n)
  BY <1>3, <1>4, NextFirst
<1>6. PICK now \in Nat, f \in 0 .. n : now = B!Round(cs, n) /\ f = B!First(cs, n)
  BY <1>4, FirstIs
<1>7. n \in 0 .. n /\ f = B!First(bs, n) /\ now = B!Round(bs, n)
  BY <1>2, <1>6
<1>8. \A h \in 0 .. n + 1 : h = n + 1 \/ h \in 0 .. n
  OBVIOUS
<1>9. \A h \in 1 .. n + 1 : h = n + 1 \/ h \in 1 .. n
  OBVIOUS
<1>10. \A h \in 1 .. n : h - 1 \in 0 .. n /\ h \in 0 .. n
  OBVIOUS
<1>11. ASSUME NEW h \in 1 .. n + 1
       PROVE  /\ cs[h].author \in Authors /\ cs[h].noted = B!Round(cs, h - 1)
              /\ cs[h].deposit \in Nat /\ cs[h].credited = cs[h].deposit
              /\ B!Round(cs, h) \in {B!Round(cs, h - 1), B!Round(cs, h - 1) + 1}
              /\ B!Round(cs, h) # B!Round(cs, h - 1) => h - B!First(cs, h - 1) >= MinRound
  <2>1. CASE h \in 1 .. n
    BY <1>2, <1>10, <2>1 DEF Ordered
  <2>2. CASE h = n + 1
    <3>1. h - 1 = n
      BY <2>2
    <3>2. /\ cs[n + 1].author \in Authors /\ cs[n + 1].noted = now
          /\ cs[n + 1].deposit \in Nat /\ cs[n + 1].credited = cs[n + 1].deposit
          /\ B!Round(cs, n + 1) \in {now, now + 1}
      BY <1>3, <1>6, <1>7
    <3>3. B!Round(cs, n + 1) # now => n + 1 - f >= MinRound
      BY <1>3, <1>6, <1>7
    <3> QED
      BY <1>6, <2>2, <3>1, <3>2, <3>3
  <2> QED
    BY <1>9, <2>1, <2>2
<1>12. ASSUME NEW h \in 0 .. n + 1
       PROVE  B!Round(cs, h) \in Nat /\ h + 1 - B!First(cs, h) <= longest
  <2>1. CASE h = n + 1
    <3>1. CASE new
      BY <1>3, <1>5, <1>6, <2>1, <3>1
    <3>2. CASE ~new
      <4>1. n + 1 - f < longest
        BY <1>7, <3>2
      <4>2. n + 2 - f <= longest
        BY <4>1
      <4> QED
        BY <1>3, <1>5, <1>6, <2>1, <3>2, <4>2
    <3> QED
      BY <3>1, <3>2
  <2> QED
    BY <1>4, <1>8, <2>1
<1>13. ASSUME NEW g \in 0 .. n + 1, NEW h \in 0 .. n + 1, g <= h
       PROVE  B!Round(cs, g) <= B!Round(cs, h)
  <2>1. CASE h \in 0 .. n
    <3>1. g \in 0 .. n
      BY <1>13, <2>1
    <3> QED
      BY <1>4, <1>13, <2>1, <3>1
  <2>2. CASE h = n + 1 /\ g \in 0 .. n
    <3>1. B!Round(cs, g) <= now /\ B!Round(cs, g) \in Nat
      <4>1. g <= n /\ g \in 0 .. n /\ n \in 0 .. n
        BY <2>2
      <4>2. B!Round(cs, g) <= B!Round(cs, n) /\ B!Round(cs, g) \in Nat
        BY <1>4, <4>1
      <4> QED
        BY <1>6, <4>2
    <3> QED
      BY <1>3, <1>6, <2>2, <3>1
  <2>3. CASE h = n + 1 /\ g = n + 1
    BY <1>12, <2>3
  <2> QED
    BY <1>8, <2>1, <2>2, <2>3
<1> QED
  BY <1>2, <1>3, <1>5, <1>7, <1>11, <1>12, <1>13 DEF Ordered

(* What is right of a payout stays right. *)
LEMMA PayStaysRight ==
  ASSUME NEW bs, NEW cs, NEW n \in Nat, \A h \in 1 .. n : cs[h] = bs[h],
         \A h \in 1 .. n : bs[h].deposit \in Nat,
         NEW h \in 1 .. n, PayRight(bs, h)
  PROVE  PayRight(cs, h)
<1>1. Alike(bs, cs, n)
  BY DEF Alike
<1>2. h \in 0 .. n /\ h - 1 \in 0 .. n /\ h \in Nat /\ h - 1 \in Nat
  OBVIOUS
<1>3. PICK e \in 0 .. h : e = B!First(bs, h) /\ e = B!First(cs, h)
  BY <1>1, <1>2, FirstIs, QueriesAlike
<1>4. PICK f \in 0 .. h - 1 : f = B!First(bs, h - 1) /\ f = B!First(cs, h - 1)
  BY <1>1, <1>2, FirstIs, QueriesAlike
<1>5. B!Round(bs, h) = B!Round(cs, h) /\ B!Round(bs, h - 1) = B!Round(cs, h - 1)
  BY <1>1, <1>2, QueriesAlike
<1>6. ASSUME NEW k \in 0 .. h, k > 0
      PROVE  /\ Owed(bs, k) = Owed(cs, k)
             /\ \A c : PayOf(bs, k, c) = PayOf(cs, k, c)
             /\ \A g \in k .. h - 1 : \A c : PaidAt(bs, g, c) <=> PaidAt(cs, g, c)
  <2>1. k \in 1 .. n /\ \A g \in k .. h - 1 : g \in 1 .. n
    BY <1>6
  <2> QED
    BY <1>1, <2>1, PayAlike DEF PaidAt
<1>7. bs[h].pay = cs[h].pay
  OBVIOUS
<1>8. e > 0 => /\ Owed(bs, e) = Owed(cs, e)
               /\ \A c : PayOf(bs, e, c) = PayOf(cs, e, c)
               /\ \A g \in e .. h - 1 : \A c : PaidAt(bs, g, c) <=> PaidAt(cs, g, c)
  BY <1>6
<1>9. f > 0 => /\ Owed(bs, f) = Owed(cs, f)
               /\ \A g \in f .. h - 1 : \A c : PaidAt(bs, g, c) <=> PaidAt(cs, g, c)
  <2>1. f \in 0 .. h
    OBVIOUS
  <2> QED
    BY <1>6, <2>1
<1>10. /\ bs[h].pay # B!NoPay =>
           /\ e > 0 /\ bs[h].pay.of \in Owed(bs, e) /\ bs[h].pay = PayOf(bs, e, bs[h].pay.of)
           /\ \A g \in e .. h - 1 : ~PaidAt(bs, g, bs[h].pay.of)
       /\ bs[h].pay = B!NoPay /\ e > 0 =>
           \A c \in Owed(bs, e) : \E g \in e .. h - 1 : PaidAt(bs, g, c)
       /\ B!Round(bs, h) # B!Round(bs, h - 1) /\ f > 0 =>
           \A c \in Owed(bs, f) : \E g \in f .. h - 1 : PaidAt(bs, g, c)
  BY <1>3, <1>4 DEF PayRight
<1>11. /\ cs[h].pay # B!NoPay =>
           /\ e > 0 /\ cs[h].pay.of \in Owed(cs, e) /\ cs[h].pay = PayOf(cs, e, cs[h].pay.of)
           /\ \A g \in e .. h - 1 : ~PaidAt(cs, g, cs[h].pay.of)
  BY <1>7, <1>8, <1>10
<1>12. cs[h].pay = B!NoPay /\ e > 0 =>
           \A c \in Owed(cs, e) : \E g \in e .. h - 1 : PaidAt(cs, g, c)
  BY <1>7, <1>8, <1>10
<1>13. B!Round(cs, h) # B!Round(cs, h - 1) /\ f > 0 =>
           \A c \in Owed(cs, f) : \E g \in f .. h - 1 : PaidAt(cs, g, c)
  BY <1>5, <1>9, <1>10
<1> QED
  BY <1>3, <1>4, <1>11, <1>12, <1>13 DEF PayRight

(* A chain without a fault grows by a block without one. *)
LEMMA HonestGrows ==
  ASSUME NEW bs, NEW cs, NEW n \in Nat, NEW longest \in Nat \ {0}, NEW new \in BOOLEAN,
         NEW d, NEW d2, NEW unpaid,
         Honestly(bs, n, d, longest), \A h \in 1 .. n : cs[h] = bs[h],
         cs[n + 1].author \in Authors,
         cs[n + 1].round = IF new THEN B!Round(bs, n) + 1 ELSE B!Round(bs, n),
         cs[n + 1].noted = B!Round(bs, n),
         cs[n + 1].deposit \in Nat, cs[n + 1].credited = cs[n + 1].deposit,
         IF new THEN d = {} /\ n + 1 - B!First(bs, n) >= MinRound
                ELSE n + 1 - B!First(bs, n) < longest,
         unpaid = IF new THEN Owed(cs, n + 1) ELSE d,
         \/ unpaid = {} /\ cs[n + 1].pay = B!NoPay /\ d2 = {}
         \/ \E p \in unpaid : /\ cs[n + 1].pay = PayOf(cs, B!First(cs, n + 1), p)
                              /\ d2 = unpaid \ {p}
  PROVE  Honestly(cs, n + 1, d2, longest)
<1>1. Ordered(bs, n, longest) /\ DueRight(bs, n, d) /\ \A h \in 1 .. n : PayRight(bs, h)
  BY DEF Honestly
<1>2. /\ Ordered(cs, n + 1, longest)
      /\ B!First(cs, n + 1) = IF new THEN n + 1 ELSE B!First(bs, n)
      /\ B!Round(cs, n + 1) = IF new THEN B!Round(bs, n) + 1 ELSE B!Round(bs, n)
  BY <1>1, OrderGrows
<1>3. Alike(bs, cs, n) /\ \A h \in 1 .. n : bs[h].deposit \in Nat
  BY <1>1 DEF Alike, Ordered
<1>4. \A h \in 1 .. n : PayRight(cs, h)
  BY <1>1, <1>3, PayStaysRight
<1>5. PICK f \in 0 .. n : f = B!First(bs, n)
  BY FirstIs
<1>6. B!First(cs, n) = f /\ B!Round(cs, n) = B!Round(bs, n)
  BY <1>3, <1>5, QueriesAlike, n \in 0 .. n
<1>7. f > 0 => /\ Owed(cs, f) = Owed(bs, f)
               /\ \A g \in f .. n : \A c : PaidAt(bs, g, c) <=> PaidAt(cs, g, c)
  <2> SUFFICES ASSUME f > 0
               PROVE  /\ Owed(cs, f) = Owed(bs, f)
                      /\ \A g \in f .. n : \A c : PaidAt(bs, g, c) <=> PaidAt(cs, g, c)
    OBVIOUS
  <2>1. f \in 1 .. n /\ \A g \in f .. n : g \in 1 .. n
    OBVIOUS
  <2> QED
    BY <1>3, <2>1, PayAlike DEF PaidAt
<1>8. IF f = 0 THEN d = {} ELSE d = {c \in Owed(bs, f) : \A g \in f .. n : ~PaidAt(bs, g, c)}
  BY <1>1, <1>5 DEF DueRight
<1>9. IF f = 0 THEN d = {} ELSE d = {c \in Owed(cs, f) : \A g \in f .. n : ~PaidAt(cs, g, c)}
  <2>1. CASE f = 0
    BY <1>8, <2>1
  <2>2. CASE f # 0
    <3>1. f > 0
      BY <2>2
    <3> QED
      BY <1>7, <1>8, <2>2, <3>1
  <2> QED
    BY <2>1, <2>2
<1>10. PICK e \in 0 .. n + 1 : e = B!First(cs, n + 1) /\ e = IF new THEN n + 1 ELSE f
  BY <1>2, <1>5
<1>11. e = 0 => ~new /\ unpaid = {}
  BY <1>9, <1>10
<1>12. e > 0 => unpaid = {c \in Owed(cs, e) : \A g \in e .. n : ~PaidAt(cs, g, c)}
  <2>1. CASE new
    <3>1. e = n + 1 /\ e .. n = {}
      BY <1>10, <2>1
    <3> QED
      BY <2>1, <3>1
  <2>2. CASE ~new
    BY <1>9, <1>10, <2>2
  <2> QED
    BY <2>1, <2>2
<1>13. \/ unpaid = {} /\ cs[n + 1].pay = B!NoPay /\ d2 = {}
       \/ \E p \in unpaid : /\ cs[n + 1].pay = PayOf(cs, e, p) /\ d2 = unpaid \ {p}
                            /\ cs[n + 1].pay # B!NoPay /\ cs[n + 1].pay.of = p
  BY <1>10, PayIsSome
<1>14. /\ cs[n + 1].pay # B!NoPay =>
           /\ e > 0 /\ cs[n + 1].pay.of \in Owed(cs, e)
           /\ cs[n + 1].pay = PayOf(cs, e, cs[n + 1].pay.of)
           /\ \A g \in e .. n : ~PaidAt(cs, g, cs[n + 1].pay.of)
  BY <1>11, <1>12, <1>13
<1>15. cs[n + 1].pay = B!NoPay /\ e > 0 =>
           \A c \in Owed(cs, e) : \E g \in e .. n : PaidAt(cs, g, c)
  BY <1>12, <1>13
<1>16. B!Round(cs, n + 1) # B!Round(cs, n) /\ f > 0 =>
           \A c \in Owed(cs, f) : \E g \in f .. n : PaidAt(cs, g, c)
  BY <1>2, <1>6, <1>9
<1>17. PayRight(cs, n + 1)
  <2>1. n + 1 - 1 = n
    OBVIOUS
  <2> QED
    BY <1>6, <1>10, <1>14, <1>15, <1>16, <2>1 DEF PayRight
<1>18. DueRight(cs, n + 1, d2)
  <2>1. CASE e = 0
    BY <1>10, <1>11, <1>13, <2>1 DEF DueRight
  <2>2. CASE e # 0
    <3>1. \A g : g \in e .. n + 1 <=> g \in e .. n \/ g = n + 1
      BY <1>10
    <3>2. e > 0
      BY <2>2
    <3>3. d2 = {c \in Owed(cs, e) : \A g \in e .. n + 1 : ~PaidAt(cs, g, c)}
      BY <1>12, <1>13, <3>1, <3>2 DEF PaidAt
    <3> QED
      BY <1>10, <2>2, <3>3 DEF DueRight
  <2> QED
    BY <2>1, <2>2
<1>19. \A h \in 1 .. n + 1 : h \in 1 .. n \/ h = n + 1
  OBVIOUS
<1> QED
  BY <1>2, <1>4, <1>17, <1>18, <1>19 DEF Honestly

(* What a chain of n blocks is like once it has grown by one, with what is due before
   and after. *)
GrowsBy(how, longest, bs, cs, n, d, d2, new, unpaid) ==
  LET now == B!Round(bs, n)
      e == B!First(cs, n + 1)
  IN  /\ \A h \in 1 .. n : cs[h] = bs[h]
      /\ cs[n + 1].author \in Authors /\ cs[n + 1].deposit \in Nat
      /\ cs[n + 1].round = IF new THEN now + 1 ELSE now
      /\ cs[n + 1].noted = IF how = "misnoted" THEN now + 1 ELSE now
      /\ cs[n + 1].credited
           = IF how = "leak" THEN cs[n + 1].deposit - 1 ELSE cs[n + 1].deposit
      /\ how = "misnoted" => new
      /\ IF new THEN d = {} /\ n + 1 - B!First(bs, n) >= MinRound
                ELSE n + 1 - B!First(bs, n) < longest
      /\ unpaid = IF new THEN Owed(cs, n + 1) ELSE d
      /\ \/ /\ unpaid = {} /\ how \notin {"shifted", "unpaid"}
            /\ cs[n + 1].pay = B!NoPay /\ d2 = {}
         \/ \E p \in unpaid : \E pay :
              /\ e > 0 => pay = PayOf(cs, e, p)
              /\ how \in {"shifted", "unpaid"} => \E a \in Backers : pay.amounts[a] > 0
              /\ cs[n + 1].pay = B!Faulty(pay, how)
              /\ d2 = unpaid \ {p}

Grows(how, longest, bs, cs, n, d, d2) ==
  \E new \in BOOLEAN : \E unpaid : GrowsBy(how, longest, bs, cs, n, d, d2, new, unpaid)

(* That is what the next block does. *)
LEMMA Grown ==
  ASSUME NEW how, NEW longest, EconomyInv, Adds(how, longest),
         \A h \in 1 .. B!Len(blocks) : blocks[h].deposit \in Nat
  PROVE  /\ Grows(how, longest, blocks, blocks', B!Len(blocks), due, due')
         /\ B!Len(blocks') = B!Len(blocks) + 1
<1>1. PICK c \in Authors, deposit \in Nat, new \in BOOLEAN :
        \E now, block, bs, unpaid :
          AddsThis(how, longest, c, deposit, new, now, block, bs, unpaid)
  BY DEF Adds
<1>2. PICK now, block, bs, unpaid :
        AddsThis(how, longest, c, deposit, new, now, block, bs, unpaid)
  BY <1>1
<1>3. PICK s, longer, d, d2 : s = blocks /\ longer = blocks' /\ d = due /\ d2 = due'
  OBVIOUS
<1>4. PICK W : s \in B!Seq(W)
  BY <1>3 DEF EconomyInv
<1>5. PICK n \in Nat : n = B!Len(s)
  BY <1>4
<1>6. B!Round(s, n) \in Nat /\ \A h \in 1 .. n : s[h].deposit \in Nat
  <2>1. B!Len(blocks) \in 0 .. B!Len(blocks)
    BY <1>3, <1>5
  <2>2. B!Round(blocks, B!Len(blocks)) \in Nat
    BY <2>1, RoundFits
  <2> QED
    BY <1>3, <1>5, <2>2
<1>7. /\ now = B!Round(s, n)
      /\ block = [author |-> c, round |-> IF new THEN now + 1 ELSE now,
                  noted |-> IF how = "misnoted" THEN now + 1 ELSE now,
                  deposit |-> deposit,
                  credited |-> IF how = "leak" THEN deposit - 1 ELSE deposit,
                  pay |-> B!NoPay]
      /\ bs = B!Append(s, block)
      /\ unpaid = IF new THEN B!Noted(bs, now) ELSE d
      /\ IF new THEN d = {} /\ n + 1 - B!First(s, n) >= MinRound
                ELSE n + 1 - B!First(s, n) < longest
      /\ how = "misnoted" => new
  BY <1>2, <1>3, <1>5 DEF AddsThis, B!MayRotate, B!Blocks
<1>8. /\ bs \in B!Seq(W \cup {block}) /\ B!Len(bs) = n + 1
      /\ \A h \in 1 .. n : bs[h] = s[h]
      /\ bs[n + 1] = block
  BY <1>4, <1>5, <1>7
<1>9. \A V : \A q \in B!Seq(V) : B!Len(q) \in Nat /\ q \in [1 .. B!Len(q) -> V]
  OBVIOUS
<1>10. bs \in [1 .. n + 1 -> W \cup {block}]
  BY <1>8, <1>9
<1>11. \/ unpaid = {} /\ how \notin {"shifted", "unpaid"} /\ longer = bs /\ d2 = {}
       \/ \E p \in unpaid : \E pay :
            /\ pay = B!Honest(bs, p)
            /\ how \in {"shifted", "unpaid"} => \E a \in Backers : pay.amounts[a] > 0
            /\ longer = [bs EXCEPT ![n + 1].pay = B!Faulty(pay, how)]
            /\ d2 = unpaid \ {p}
  <2>1. \/ /\ unpaid = {} /\ how \notin {"shifted", "unpaid"}
           /\ longer = bs /\ d2 = {}
        \/ \E p \in unpaid :
             /\ how \in {"shifted", "unpaid"} =>
                  \E a \in Backers : B!Honest(bs, p).amounts[a] > 0
             /\ longer = [bs EXCEPT ![B!Len(bs)].pay = B!Faulty(B!Honest(bs, p), how)]
             /\ d2 = unpaid \ {p}
    BY <1>2, <1>3 DEF AddsThis
  <2>2. ASSUME NEW p \in unpaid,
               how \in {"shifted", "unpaid"} =>
                 \E a \in Backers : B!Honest(bs, p).amounts[a] > 0,
               longer = [bs EXCEPT ![B!Len(bs)].pay = B!Faulty(B!Honest(bs, p), how)],
               d2 = unpaid \ {p}
        PROVE  \E pay :
                 /\ pay = B!Honest(bs, p)
                 /\ how \in {"shifted", "unpaid"} => \E a \in Backers : pay.amounts[a] > 0
                 /\ longer = [bs EXCEPT ![n + 1].pay = B!Faulty(pay, how)]
                 /\ d2 = unpaid \ {p}
    <3>1. PICK pay : pay = B!Honest(bs, p)
      OBVIOUS
    <3>2. longer = [bs EXCEPT ![n + 1].pay = B!Faulty(pay, how)]
      BY <1>8, <2>2, <3>1
    <3> QED
      BY <2>2, <3>1, <3>2
  <2> QED
    BY <2>1, <2>2
<1>12. /\ B!Len(longer) = n + 1
       /\ \A h \in 1 .. n : longer[h] = s[h]
       /\ longer[n + 1].author = c
       /\ longer[n + 1].round = IF new THEN now + 1 ELSE now
       /\ longer[n + 1].noted = IF how = "misnoted" THEN now + 1 ELSE now
       /\ longer[n + 1].deposit = deposit
       /\ longer[n + 1].credited = IF how = "leak" THEN deposit - 1 ELSE deposit
       /\ \/ /\ unpaid = {} /\ how \notin {"shifted", "unpaid"}
             /\ longer[n + 1].pay = B!NoPay /\ d2 = {}
          \/ \E p \in unpaid : \E pay :
               /\ pay = B!Honest(bs, p)
               /\ how \in {"shifted", "unpaid"} => \E a \in Backers : pay.amounts[a] > 0
               /\ longer[n + 1].pay = B!Faulty(pay, how)
               /\ d2 = unpaid \ {p}
  <2>1. CASE unpaid = {} /\ how \notin {"shifted", "unpaid"} /\ longer = bs /\ d2 = {}
    BY <1>7, <1>8, <2>1
  <2>2. ASSUME NEW p \in unpaid, NEW pay, pay = B!Honest(bs, p),
               how \in {"shifted", "unpaid"} => \E a \in Backers : pay.amounts[a] > 0,
               longer = [bs EXCEPT ![n + 1].pay = B!Faulty(pay, how)], d2 = unpaid \ {p}
        PROVE  /\ B!Len(longer) = n + 1
               /\ \A h \in 1 .. n : longer[h] = s[h]
               /\ longer[n + 1].author = c
               /\ longer[n + 1].round = IF new THEN now + 1 ELSE now
               /\ longer[n + 1].noted = IF how = "misnoted" THEN now + 1 ELSE now
               /\ longer[n + 1].deposit = deposit
               /\ longer[n + 1].credited = IF how = "leak" THEN deposit - 1 ELSE deposit
               /\ longer[n + 1].pay = B!Faulty(pay, how)
    <3>1. PICK wrong : wrong = B!Faulty(pay, how)
      OBVIOUS
    <3>2. PICK paid : paid = [block EXCEPT !.pay = wrong]
      OBVIOUS
    <3>3. /\ paid.author = c /\ paid.round = (IF new THEN now + 1 ELSE now)
          /\ paid.noted = (IF how = "misnoted" THEN now + 1 ELSE now)
          /\ paid.deposit = deposit
          /\ paid.credited = (IF how = "leak" THEN deposit - 1 ELSE deposit)
          /\ paid.pay = wrong
      BY <1>7, <3>2
    <3>4. longer = [bs EXCEPT ![n + 1] = paid]
      BY <1>8, <2>2, <3>1, <3>2
    <3>5. PICK V : V = W \cup {block, paid}
      OBVIOUS
    <3>6. /\ longer \in [1 .. n + 1 -> V] /\ longer[n + 1] = paid
          /\ \A h \in 1 .. n : longer[h] = bs[h]
      BY <1>10, <3>4, <3>5
    <3>7. longer \in B!Seq(V) /\ n + 1 \in Nat
      BY <3>6
    <3>8. B!Len(longer) = n + 1
      BY <1>9, <3>6, <3>7
    <3> QED
      BY <1>8, <3>1, <3>3, <3>6, <3>8
  <2> QED
    BY <1>11, <2>1, <2>2
<1>13. PICK m \in Nat : m = n + 1
  OBVIOUS
<1>14. Alike(bs, longer, m) /\ \A h \in 1 .. m : bs[h].deposit \in Nat
  <2> SUFFICES ASSUME NEW h \in 1 .. m
               PROVE  /\ bs[h].author = longer[h].author /\ bs[h].round = longer[h].round
                      /\ bs[h].noted = longer[h].noted /\ bs[h].deposit = longer[h].deposit
                      /\ bs[h].deposit \in Nat
    BY DEF Alike
  <2>1. CASE h \in 1 .. n
    BY <1>6, <1>8, <1>12, <2>1
  <2>2. CASE h = n + 1
    BY <1>7, <1>8, <1>12, <2>2
  <2> QED
    BY <1>13, <2>1, <2>2
<1>15. /\ B!Round(bs, m) = B!Round(longer, m) /\ B!First(bs, m) = B!First(longer, m)
       /\ \A session, a : B!CollatorBlocks(bs, session, a, m)
                            = B!CollatorBlocks(longer, session, a, m)
  BY <1>14, m \in 0 .. m, QueriesAlike
<1>16. unpaid = IF new THEN Owed(longer, m) ELSE d
  <2>1. CASE new
    <3>1. B!Round(longer, m) - 1 = now
      <4>1. longer[m].round = now + 1 /\ m # 0
        BY <1>12, <1>13, <2>1
      <4> QED
        BY <1>6, <1>7, <4>1 DEF B!Round
    <3> QED
      BY <1>7, <1>8, <1>13, <1>15, <2>1, <3>1 DEF B!Noted, Owed
  <2>2. CASE ~new
    BY <1>7, <2>2
  <2> QED
    BY <2>1, <2>2
<1>17. \A p : B!First(longer, m) > 0 =>
                B!Honest(bs, p) = PayOf(longer, B!First(longer, m), p)
  <2> SUFFICES ASSUME NEW p, B!First(longer, m) > 0
               PROVE  B!Honest(bs, p) = PayOf(longer, B!First(longer, m), p)
    OBVIOUS
  <2>1. B!Honest(bs, p) = PayOf(bs, B!First(bs, m), p)
    <3>1. B!Len(bs) \in Nat
      BY <1>8
    <3> QED
      BY <1>8, <1>13, <3>1, HonestIsPayOf
  <2>2. PICK e \in 1 .. m : e = B!First(longer, m)
    BY FirstIs
  <2>3. PayOf(bs, e, p) = PayOf(longer, e, p)
    BY <1>14, PayAlike
  <2> QED
    BY <1>15, <2>1, <2>2, <2>3
<1>18. \/ /\ unpaid = {} /\ how \notin {"shifted", "unpaid"}
          /\ longer[n + 1].pay = B!NoPay /\ d2 = {}
       \/ \E p \in unpaid : \E pay :
            /\ B!First(longer, n + 1) > 0 => pay = PayOf(longer, B!First(longer, n + 1), p)
            /\ how \in {"shifted", "unpaid"} => \E a \in Backers : pay.amounts[a] > 0
            /\ longer[n + 1].pay = B!Faulty(pay, how)
            /\ d2 = unpaid \ {p}
  BY <1>12, <1>13, <1>17
<1>19. Grows(how, longest, s, longer, n, d, d2)
  <2>1. /\ longer[n + 1].author \in Authors /\ longer[n + 1].deposit \in Nat
        /\ longer[n + 1].round = IF new THEN B!Round(s, n) + 1 ELSE B!Round(s, n)
        /\ longer[n + 1].noted = IF how = "misnoted" THEN B!Round(s, n) + 1 ELSE B!Round(s, n)
        /\ longer[n + 1].credited
             = IF how = "leak" THEN longer[n + 1].deposit - 1 ELSE longer[n + 1].deposit
    BY <1>7, <1>12
  <2>2. unpaid = IF new THEN Owed(longer, n + 1) ELSE d
    BY <1>13, <1>16
  <2>3. \A h \in 1 .. n : longer[h] = s[h]
    BY <1>12
  <2>4. /\ how = "misnoted" => new
        /\ IF new THEN d = {} /\ n + 1 - B!First(s, n) >= MinRound
                  ELSE n + 1 - B!First(s, n) < longest
    BY <1>7
  <2> QED
    BY <1>18, <2>1, <2>2, <2>3, <2>4 DEF Grows, GrowsBy
<1> QED
  BY <1>3, <1>5, <1>12, <1>19

(* Blocks that differ in what they pay at most. *)
SameBlock(block, other) ==
  /\ block.author = other.author /\ block.round = other.round
  /\ block.noted = other.noted /\ block.deposit = other.deposit
  /\ block.credited = other.credited

(* A chain that differs from one without a fault in payouts only grows by a block that,
   but for what it pays, is one without a fault. *)
LEMMA GrowsHonestly ==
  ASSUME NEW bs, NEW cs, NEW os, NEW n \in Nat, NEW longest \in Nat \ {0}, NEW d, NEW d2,
         NEW how \in {"none", "shifted", "unpaid"}, Grows(how, longest, bs, cs, n, d, d2),
         Honestly(os, n, d, longest), Alike(os, bs, n)
  PROVE  \E pay :
           /\ \A ps : (\A h \in 1 .. n : ps[h] = os[h]) /\ SameBlock(ps[n + 1], cs[n + 1])
                        /\ ps[n + 1].pay = pay
                        => Honestly(ps, n + 1, d2, longest)
           /\ how = "none" => pay = cs[n + 1].pay
           /\ how # "none" => /\ pay # B!NoPay /\ \E a \in Backers : pay.amounts[a] > 0
                              /\ cs[n + 1].pay = B!Faulty(pay, how)
<1>1. PICK m \in Nat : m = n + 1
  OBVIOUS
<1>2. PICK new \in BOOLEAN : \E unpaid : GrowsBy(how, longest, bs, cs, n, d, d2, new, unpaid)
  BY DEF Grows
<1>3. PICK unpaid : GrowsBy(how, longest, bs, cs, n, d, d2, new, unpaid)
  BY <1>2
<1>4. /\ \A h \in 1 .. n : cs[h] = bs[h]
      /\ cs[m].author \in Authors /\ cs[m].deposit \in Nat
      /\ cs[m].round = IF new THEN B!Round(bs, n) + 1 ELSE B!Round(bs, n)
      /\ cs[m].noted = B!Round(bs, n)
      /\ cs[m].credited = cs[m].deposit
      /\ IF new THEN d = {} /\ m - B!First(bs, n) >= MinRound
                ELSE m - B!First(bs, n) < longest
      /\ unpaid = IF new THEN Owed(cs, m) ELSE d
      /\ \/ /\ unpaid = {} /\ how \notin {"shifted", "unpaid"}
            /\ cs[m].pay = B!NoPay /\ d2 = {}
         \/ \E p \in unpaid : \E pay :
              /\ B!First(cs, m) > 0 => pay = PayOf(cs, B!First(cs, m), p)
              /\ how \in {"shifted", "unpaid"} => \E a \in Backers : pay.amounts[a] > 0
              /\ cs[m].pay = B!Faulty(pay, how)
              /\ d2 = unpaid \ {p}
  <2>1. how # "misnoted" /\ how # "leak"
    OBVIOUS
  <2>2. /\ \A h \in 1 .. n : cs[h] = bs[h]
        /\ cs[n + 1].author \in Authors /\ cs[n + 1].deposit \in Nat
        /\ cs[n + 1].round = IF new THEN B!Round(bs, n) + 1 ELSE B!Round(bs, n)
        /\ cs[n + 1].noted = B!Round(bs, n)
        /\ cs[n + 1].credited = cs[n + 1].deposit
        /\ IF new THEN d = {} /\ n + 1 - B!First(bs, n) >= MinRound
                  ELSE n + 1 - B!First(bs, n) < longest
        /\ unpaid = IF new THEN Owed(cs, n + 1) ELSE d
    BY <1>3, <2>1 DEF GrowsBy
  <2>3. \/ /\ unpaid = {} /\ how \notin {"shifted", "unpaid"}
           /\ cs[n + 1].pay = B!NoPay /\ d2 = {}
        \/ \E p \in unpaid : \E pay :
             /\ B!First(cs, n + 1) > 0 => pay = PayOf(cs, B!First(cs, n + 1), p)
             /\ how \in {"shifted", "unpaid"} => \E a \in Backers : pay.amounts[a] > 0
             /\ cs[n + 1].pay = B!Faulty(pay, how)
             /\ d2 = unpaid \ {p}
    BY <1>3 DEF GrowsBy
  <2>4. B!First(bs, n) \in 0 .. n
    BY FirstIs
  <2> QED
    BY <1>1, <2>2, <2>3, <2>4
<1>5. /\ Ordered(os, n, longest)
      /\ \A h \in 1 .. n : os[h].deposit \in Nat
  BY DEF Honestly, Ordered
<1>6. B!Round(os, n) = B!Round(bs, n) /\ B!First(os, n) = B!First(bs, n)
  BY n \in 0 .. n, QueriesAlike
<1>7. ASSUME NEW ps, \A h \in 1 .. n : ps[h] = os[h], SameBlock(ps[m], cs[m])
      PROVE  /\ B!First(ps, m) = B!First(cs, m)
             /\ unpaid = IF new THEN Owed(ps, m) ELSE d
             /\ unpaid # {} => B!First(ps, m) \in 1 .. m
             /\ \A p : B!First(ps, m) > 0 =>
                         PayOf(cs, B!First(cs, m), p) = PayOf(ps, B!First(ps, m), p)
             /\ ps[m].author \in Authors
             /\ ps[m].round = IF new THEN B!Round(os, n) + 1 ELSE B!Round(os, n)
             /\ ps[m].noted = B!Round(os, n)
             /\ ps[m].deposit \in Nat /\ ps[m].credited = ps[m].deposit
             /\ IF new THEN d = {} /\ m - B!First(os, n) >= MinRound
                       ELSE m - B!First(os, n) < longest
  <2>1. /\ ps[m].author \in Authors
        /\ ps[m].round = IF new THEN B!Round(os, n) + 1 ELSE B!Round(os, n)
        /\ ps[m].noted = B!Round(os, n)
        /\ ps[m].deposit \in Nat /\ ps[m].credited = ps[m].deposit
        /\ IF new THEN d = {} /\ m - B!First(os, n) >= MinRound
                  ELSE m - B!First(os, n) < longest
    BY <1>4, <1>6, <1>7 DEF SameBlock
  <2>2. Alike(ps, cs, m) /\ \A h \in 1 .. m : ps[h].deposit \in Nat
    <3> SUFFICES ASSUME NEW h \in 1 .. m
                 PROVE  /\ ps[h].author = cs[h].author /\ ps[h].round = cs[h].round
                        /\ ps[h].noted = cs[h].noted /\ ps[h].deposit = cs[h].deposit
                        /\ ps[h].deposit \in Nat
      BY DEF Alike
    <3>1. CASE h \in 1 .. n
      BY <1>4, <1>5, <1>7, <3>1 DEF Alike
    <3>2. CASE h = m
      BY <1>7, <2>1, <3>2 DEF SameBlock
    <3> QED
      BY <1>1, <3>1, <3>2
  <2>3. B!First(ps, m) = B!First(cs, m)
    BY <2>2, m \in 0 .. m, QueriesAlike
  <2>4. Owed(ps, m) = Owed(cs, m)
    BY <1>1, <2>2, m \in 1 .. m, PayAlike
  <2>5. B!First(ps, m) = IF new THEN m ELSE B!First(os, n)
    <3>1. /\ ps[n + 1].author \in Authors
          /\ ps[n + 1].round = IF new THEN B!Round(os, n) + 1 ELSE B!Round(os, n)
          /\ ps[n + 1].noted = B!Round(os, n)
          /\ ps[n + 1].deposit \in Nat /\ ps[n + 1].credited = ps[n + 1].deposit
      BY <1>1, <2>1
    <3>2. IF new THEN n + 1 - B!First(os, n) >= MinRound
                 ELSE n + 1 - B!First(os, n) < longest
      <4>1. B!First(os, n) \in 0 .. n
        BY FirstIs
      <4> QED
        BY <1>1, <2>1, <4>1
    <3>3. Ordered(os, n, longest) /\ \A h \in 1 .. n : ps[h] = os[h]
      BY <1>5, <1>7
    <3>4. B!First(ps, n + 1) = IF new THEN n + 1 ELSE B!First(os, n)
      BY <3>1, <3>2, <3>3, OrderGrows
    <3> QED
      BY <1>1, <3>4
  <2>6. unpaid = IF new THEN Owed(ps, m) ELSE d
    BY <1>4, <2>4
  <2>7. unpaid # {} => B!First(ps, m) \in 1 .. m
    <3>1. ~new => (B!First(os, n) = 0 => d = {})
      BY DEF Honestly, DueRight
    <3>2. B!First(ps, m) \in 0 .. m
      BY FirstIs
    <3> QED
      BY <1>1, <2>5, <2>6, <3>1, <3>2
  <2>8. ASSUME NEW p, B!First(ps, m) > 0
        PROVE  PayOf(cs, B!First(cs, m), p) = PayOf(ps, B!First(ps, m), p)
    <3>1. PICK e \in 1 .. m : e = B!First(ps, m)
      BY <2>8, FirstIs
    <3>2. PayOf(ps, e, p) = PayOf(cs, e, p)
      BY <2>2, PayAlike
    <3> QED
      BY <2>3, <3>1, <3>2
  <2> QED
    BY <2>1, <2>3, <2>6, <2>7, <2>8
<1>8. ASSUME NEW pay, NEW ps, \A h \in 1 .. n : ps[h] = os[h], SameBlock(ps[m], cs[m]),
             ps[m].pay = pay,
             \/ unpaid = {} /\ pay = B!NoPay /\ d2 = {}
             \/ \E p \in unpaid : /\ B!First(cs, m) > 0 => pay = PayOf(cs, B!First(cs, m), p)
                                  /\ d2 = unpaid \ {p}
      PROVE  Honestly(ps, n + 1, d2, longest)
  <2>1. \/ unpaid = {} /\ ps[m].pay = B!NoPay /\ d2 = {}
        \/ \E p \in unpaid : /\ ps[m].pay = PayOf(ps, B!First(ps, m), p)
                             /\ d2 = unpaid \ {p}
    BY <1>7, <1>8
  <2>2. /\ ps[n + 1].author \in Authors
        /\ ps[n + 1].round = IF new THEN B!Round(os, n) + 1 ELSE B!Round(os, n)
        /\ ps[n + 1].noted = B!Round(os, n)
        /\ ps[n + 1].deposit \in Nat /\ ps[n + 1].credited = ps[n + 1].deposit
        /\ IF new THEN d = {} /\ n + 1 - B!First(os, n) >= MinRound
                  ELSE n + 1 - B!First(os, n) < longest
        /\ unpaid = IF new THEN Owed(ps, n + 1) ELSE d
    <3>1. B!First(os, n) \in 0 .. n
      BY FirstIs
    <3> QED
      BY <1>1, <1>7, <1>8, <3>1
  <2>3. \/ unpaid = {} /\ ps[n + 1].pay = B!NoPay /\ d2 = {}
        \/ \E p \in unpaid : /\ ps[n + 1].pay = PayOf(ps, B!First(ps, n + 1), p)
                             /\ d2 = unpaid \ {p}
    BY <1>1, <2>1
  <2>4. Honestly(os, n, d, longest) /\ \A h \in 1 .. n : ps[h] = os[h]
    BY <1>8
  <2> QED
    BY <2>2, <2>3, <2>4, HonestGrows
<1>9. CASE /\ unpaid = {} /\ how \notin {"shifted", "unpaid"}
           /\ cs[m].pay = B!NoPay /\ d2 = {}
  BY <1>1, <1>8, <1>9
<1>10. ASSUME NEW p \in unpaid, NEW pay,
             B!First(cs, m) > 0 => pay = PayOf(cs, B!First(cs, m), p),
             how \in {"shifted", "unpaid"} => \E a \in Backers : pay.amounts[a] > 0,
             cs[m].pay = B!Faulty(pay, how), d2 = unpaid \ {p}
      PROVE  /\ \A ps : (\A h \in 1 .. n : ps[h] = os[h]) /\ SameBlock(ps[n + 1], cs[n + 1])
                          /\ ps[n + 1].pay = pay
                          => Honestly(ps, n + 1, d2, longest)
             /\ how = "none" => pay = cs[n + 1].pay
             /\ how # "none" => /\ pay # B!NoPay /\ \E a \in Backers : pay.amounts[a] > 0
                                /\ cs[n + 1].pay = B!Faulty(pay, how)
  <2>1. B!Faulty(pay, "none") = pay
    BY DEF B!Faulty
  <2>2. how = "none" => pay = cs[m].pay
    BY <1>10, <2>1
  <2>3. pay # B!NoPay
    <3>1. PICK ps : ps = [h \in 1 .. m |-> IF h = m THEN cs[m] ELSE os[h]]
      OBVIOUS
    <3>2. (\A h \in 1 .. n : ps[h] = os[h]) /\ SameBlock(ps[m], cs[m])
      BY <1>1, <3>1 DEF SameBlock
    <3>3. B!First(cs, m) > 0
      BY <1>7, <1>10, <3>2
    <3> QED
      BY <1>10, <3>3, PayIsSome
  <2> QED
    BY <1>1, <1>8, <1>10, <2>2, <2>3
<1> QED
  BY <1>4, <1>9, <1>10

(* A step without a fault adds a block without one. *)
LEMMA HonestStep ==
  ASSUME NEW longest \in Nat \ {0}, EconomyInv, Adds("none", longest),
         Honestly(blocks, B!Len(blocks), due, longest)
  PROVE  Honestly(blocks', B!Len(blocks'), due', longest)
<1>1. PICK s, longer, d, d2 : s = blocks /\ longer = blocks' /\ d = due /\ d2 = due'
  OBVIOUS
<1>2. PICK n \in Nat : n = B!Len(s)
  BY <1>1 DEF EconomyInv
<1>3. Grows("none", longest, s, longer, n, d, d2) /\ B!Len(longer) = n + 1
  <2>1. \A h \in 1 .. B!Len(blocks) : blocks[h].deposit \in Nat
    BY DEF Honestly, Ordered
  <2> QED
    BY <1>1, <1>2, <2>1, Grown
<1>4. Honestly(s, n, d, longest) /\ Alike(s, s, n)
  BY <1>1, <1>2 DEF Alike
<1>5. Honestly(longer, n + 1, d2, longest)
  <2>1. \A h \in 1 .. n : longer[h] = s[h]
    BY <1>3 DEF Grows, GrowsBy
  <2>2. SameBlock(longer[n + 1], longer[n + 1])
    BY DEF SameBlock
  <2> QED
    BY <1>3, <1>4, <2>1, <2>2, GrowsHonestly
<1> QED
  BY <1>1, <1>3, <1>5

(* The longest session of the chain that is audited. *)
Longest == IF tool = "honest" THEN HonestRound ELSE MinRound

(* As long as there was no fault, the chain has none. *)
HonestInv == fault.how = "none" => Honestly(blocks, B!Len(blocks), due, Longest)

(* A chain without blocks has no fault. *)
LEMMA HonestInitial == H!Init => HonestInv
<1> SUFFICES ASSUME H!Init PROVE Honestly(blocks, B!Len(blocks), due, Longest)
  BY DEF HonestInv
<1>1. blocks = <<>> /\ due = {} /\ B!Len(<<>>) = 0
  BY DEF H!Init
<1>2. B!First(blocks, 0) = 0 /\ B!Round(blocks, 0) = 0
  <2>1. B!First(blocks, 0) \in 0 .. 0
    BY FirstIs
  <2> QED
    BY <2>1 DEF B!Round
<1>3. Longest \in Nat \ {0}
  BY EconomySets DEF Longest
<1>4. \A h \in 0 .. 0 : h = 0
  OBVIOUS
<1>5. Ordered(blocks, 0, Longest)
  <2>1. 0 + 1 - 0 <= Longest
    BY <1>3
  <2>2. \A h \in 0 .. 0 : B!Round(blocks, h) \in Nat /\ h + 1 - B!First(blocks, h) <= Longest
    BY <1>2, <1>4, <2>1
  <2>3. \A g, h \in 0 .. 0 : B!Round(blocks, g) <= B!Round(blocks, h)
    BY <1>2, <1>4
  <2> QED
    BY <2>2, <2>3 DEF Ordered
<1>6. DueRight(blocks, 0, due)
  BY <1>1, <1>2 DEF DueRight
<1> QED
  BY <1>1, <1>5, <1>6 DEF Honestly

(* Both chains stay without a fault until they make one. *)
LEMMA HonestInvStep ==
  ASSUME EconomyInv, HonestInv, UNCHANGED tool,
         \/ tool = "honest" /\ [H!Next]_(H!vars)
         \/ tool # "honest" /\ [B!Next]_(B!vars)
  PROVE  HonestInv'
<1>1. SUFFICES ASSUME fault'.how = "none"
               PROVE  Honestly(blocks', B!Len(blocks'), due', Longest)
  BY DEF HonestInv, Longest
<1>2. Longest \in Nat \ {0}
  BY EconomySets DEF Longest
<1>3. CASE UNCHANGED <<blocks, due, fault>>
  BY <1>1, <1>3 DEF HonestInv
<1>4. CASE UNCHANGED fault /\ Adds("none", Longest)
  BY <1>1, <1>2, <1>4, HonestStep DEF HonestInv
<1>5. tool = "honest" /\ H!GoodBlock => UNCHANGED fault /\ Adds("none", Longest)
  BY Produced DEF H!GoodBlock, Longest
<1>6. tool # "honest" /\ B!GoodBlock => UNCHANGED fault /\ Adds("none", Longest)
  BY Produced DEF B!GoodBlock, Longest
<1>7. ASSUME NEW how \in {"none", "shifted", "unpaid", "misnoted", "leak"} \ {"none"},
             B!BadBlock(how)
      PROVE  FALSE
  BY <1>1, <1>7 DEF B!BadBlock
<1>8. \A how \in {"none"} \ {"none"} : ~H!BadBlock(how)
  OBVIOUS
<1> QED
  BY <1>3, <1>4, <1>5, <1>6, <1>7, <1>8 DEF H!Next, B!Next, H!Full, B!Full, H!vars, B!vars

-----------------------------------------------------------------------------
(* TokenEconomy: the checks *)

(* The blocks after f, up to h, that collator c is the author of. *)
Authored(bs, f, h, c) == {i \in f + 1 .. h : bs[i].author = c}

(* The session before the one that begins with block e: its round, and the blocks that
   are noted for it. *)
LEMMA NotedForSession ==
  ASSUME NEW bs, NEW n \in Nat, NEW longest, Ordered(bs, n, longest),
         NEW e \in 1 .. n, B!First(bs, e) = e
  PROVE  LET f == B!First(bs, e - 1)
             session == B!Round(bs, e - 1)
         IN  /\ f \in 0 .. e - 1 /\ session \in Nat /\ B!Round(bs, e) = session + 1
             /\ \A h \in f .. e : \A c :
                  B!CollatorBlocks(bs, session, c, h)
                    = Cardinality(Authored(bs, f, h, c))
<1> DEFINE f == B!First(bs, e - 1)
           session == B!Round(bs, e - 1)
<1> HIDE DEF f, session
<1>1. e - 1 \in Nat /\ e - 1 \in 0 .. n /\ e - 1 \in 0 .. e /\ e \in Nat
  OBVIOUS
<1>2. /\ f \in 0 .. e - 1 /\ B!Round(bs, f) = session
      /\ \A g \in 0 .. e - 1 : B!Round(bs, g) = session => f <= g
  BY <1>1, FirstIs DEF f, session
<1>3. session \in Nat
  BY <1>1 DEF Ordered, session
<1>4. B!Round(bs, e) = session + 1
  <2>1. B!Round(bs, e) \in {session, session + 1}
    BY DEF Ordered, session
  <2>2. B!Round(bs, e) # session
    <3> SUFFICES ASSUME B!Round(bs, e) = session PROVE FALSE
      OBVIOUS
    <3>1. B!First(bs, e) <= e - 1
      BY <1>1, FirstIs DEF session
    <3> QED
      BY <3>1
  <2> QED
    BY <2>1, <2>2
<1>5. ASSUME NEW h \in f .. e, NEW c
      PROVE  {i \in 1 .. h : bs[i].noted = session /\ bs[i].author = c}
               = {i \in f + 1 .. h : bs[i].author = c}
  <2>1. ASSUME NEW i \in 1 .. h
        PROVE  bs[i].noted = session <=> i \in f + 1 .. h
    <3>1. i \in 1 .. n /\ i - 1 \in 0 .. e - 1 /\ i - 1 \in 0 .. n
      BY <1>2
    <3>2. bs[i].noted = B!Round(bs, i - 1)
      BY <3>1 DEF Ordered
    <3>3. CASE i \in f + 1 .. h
      <4>1. f <= i - 1 /\ i - 1 <= e - 1 /\ f \in 0 .. n
        BY <1>2, <3>1, <3>3
      <4>2. B!Round(bs, f) <= B!Round(bs, i - 1) /\ B!Round(bs, i - 1) <= B!Round(bs, e - 1)
        BY <1>1, <3>1, <4>1 DEF Ordered
      <4> USE DEF session
      <4>3. B!Round(bs, i - 1) \in Nat
        BY <3>1 DEF Ordered
      <4> QED
        BY <1>2, <1>3, <3>2, <3>3, <4>2, <4>3
    <3>4. CASE i \notin f + 1 .. h
      <4>1. ~(f <= i - 1)
        BY <1>2, <3>4
      <4> QED
        BY <1>2, <3>1, <3>2, <3>4, <4>1
    <3> QED
      BY <3>3, <3>4
  <2>2. \A i \in f + 1 .. h : i \in 1 .. h
    BY <1>2
  <2> QED
    BY <2>1, <2>2
<1>6. \A h \in f .. e : \A c : B!CollatorBlocks(bs, session, c, h)
                                 = Cardinality(Authored(bs, f, h, c))
  BY <1>5, EconomyCount DEF B!CollatorBlocks, Authored
<1> QED
  BY <1>2, <1>3, <1>4, <1>6 DEF f, session

(* The session that begins with block e: where it ends. *)
LEMMA SessionEnds ==
  ASSUME NEW bs, NEW n \in Nat, NEW longest, Ordered(bs, n, longest),
         NEW e \in 1 .. n, B!First(bs, e) = e
  PROVE  \E l \in e .. n :
           /\ \A g \in e .. l : B!First(bs, g) = e /\ B!Round(bs, g) = B!Round(bs, e)
           /\ l # n => B!Round(bs, l + 1) # B!Round(bs, l) /\ l + 1 - e >= MinRound
<1> DEFINE Same == {h \in 0 .. n : B!Round(bs, h) = B!Round(bs, e)}
<1>1. Same \in SUBSET Nat /\ e \in Same /\ IsFiniteSet(Same)
  <2>1. IsFiniteSet(0 .. n)
    BY FS_Interval
  <2> QED
    BY <2>1, FS_Subset
<1>2. PICK l \in Same : \A h \in Same : h <= l
  <2> HIDE DEF Same
  <2> QED
    BY <1>1, GreatestNumber
<1>3. l \in e .. n /\ B!Round(bs, l) = B!Round(bs, e)
  BY <1>1, <1>2
<1>4. ASSUME NEW g \in e .. l
      PROVE  B!First(bs, g) = e /\ B!Round(bs, g) = B!Round(bs, e)
  <2>1. g \in 0 .. n /\ e \in 0 .. n /\ l \in 0 .. n /\ e <= g /\ g <= l /\ g \in Nat
    BY <1>3
  <2>2. B!Round(bs, e) <= B!Round(bs, g) /\ B!Round(bs, g) <= B!Round(bs, e)
    BY <1>3, <2>1 DEF Ordered
  <2>3. B!Round(bs, e) \in Nat /\ B!Round(bs, g) \in Nat
    BY <2>1 DEF Ordered
  <2>4. B!Round(bs, g) = B!Round(bs, e)
    BY <2>2, <2>3
  <2>5. \A k \in 0 .. g : B!Round(bs, k) = B!Round(bs, g) => e <= k
    <3> SUFFICES ASSUME NEW k \in 0 .. g, B!Round(bs, k) = B!Round(bs, e), ~(e <= k)
                 PROVE  FALSE
      BY <2>4
    <3>1. k \in 0 .. e /\ e \in Nat
      OBVIOUS
    <3>2. B!First(bs, e) <= k
      BY <3>1, FirstIs
    <3> QED
      BY <3>2
  <2>6. e \in 0 .. g
    BY <2>1
  <2> QED
    BY <2>1, <2>4, <2>5, <2>6, FirstUnique
<1>5. l # n => B!Round(bs, l + 1) # B!Round(bs, l) /\ l + 1 - e >= MinRound
  <2> SUFFICES ASSUME l # n
               PROVE  B!Round(bs, l + 1) # B!Round(bs, l) /\ l + 1 - e >= MinRound
    OBVIOUS
  <2>1. l + 1 \in 1 .. n /\ l + 1 - 1 = l /\ l + 1 \in 0 .. n /\ ~(l + 1 <= l)
    BY <1>3
  <2>2. l + 1 \notin Same
    <3> HIDE DEF Same
    <3> QED
      BY <1>2, <2>1
  <2>3. B!Round(bs, l + 1) # B!Round(bs, l)
    BY <1>3, <2>1, <2>2
  <2>4. l \in e .. l /\ B!First(bs, l) = e
    BY <1>3, <1>4
  <2>5. l + 1 - e >= MinRound
    <3>1. PICK k \in 1 .. n : k = l + 1 /\ k - 1 = l
      BY <2>1
    <3>2. B!Round(bs, k) # B!Round(bs, k - 1)
      BY <2>3, <3>1
    <3>3. k - B!First(bs, k - 1) >= MinRound
      BY <3>2 DEF Ordered
    <3>4. B!First(bs, k - 1) = e
      BY <2>4, <3>1
    <3>5. k - e >= MinRound
      BY <3>3, <3>4
    <3> QED
      BY <3>1, <3>5
  <2> QED
    BY <2>3, <2>5
<1> QED
  BY <1>3, <1>4, <1>5

(* There are no more collators of a session than blocks in it. *)
LEMMA FewAreOwed ==
  ASSUME NEW bs, NEW n \in Nat, NEW longest, Ordered(bs, n, longest),
         NEW e \in 1 .. n, B!First(bs, e) = e
  PROVE  /\ IsFiniteSet(Owed(bs, e)) /\ Cardinality(Owed(bs, e)) \in Nat
         /\ Cardinality(Owed(bs, e)) <= e - B!First(bs, e - 1)
         /\ Cardinality(Owed(bs, e)) <= Cardinality(Authors)
<1> DEFINE f == B!First(bs, e - 1)
           session == B!Round(bs, e - 1)
<1>2. /\ f \in 0 .. e - 1 /\ B!Round(bs, e) = session + 1 /\ session \in Nat
      /\ \A c : B!CollatorBlocks(bs, session, c, e)
                  = Cardinality(Authored(bs, f, e, c))
  <2>1. /\ f \in 0 .. e - 1 /\ B!Round(bs, e) = session + 1 /\ session \in Nat
        /\ \A h \in f .. e : \A c :
             B!CollatorBlocks(bs, session, c, h)
               = Cardinality(Authored(bs, f, h, c))
    BY NotedForSession
  <2> HIDE DEF f, session
  <2>2. e \in f .. e
    BY <2>1
  <2> QED
    BY <2>1, <2>2
<1> HIDE DEF f, session
<1> DEFINE name == [i \in f + 1 .. e |-> bs[i].author]
           names == Named(name, f + 1 .. e)
<1>3. Owed(bs, e) \subseteq names
  <2> SUFFICES ASSUME NEW c \in Owed(bs, e) PROVE \E i \in f + 1 .. e : bs[i].author = c
    BY DEF Named
  <2>1. B!CollatorBlocks(bs, session, c, e) > 0
    <3>1. session + 1 - 1 = session
      BY <1>2
    <3> QED
      BY <1>2, <3>1 DEF Owed, session
  <2>2. Cardinality({i \in f + 1 .. e : bs[i].author = c}) > 0
    BY <1>2, <2>1 DEF Authored
  <2>3. {i \in f + 1 .. e : bs[i].author = c} # {}
    BY <2>2, FS_EmptySet
  <2> QED
    BY <2>3
<1>4. IsFiniteSet(f + 1 .. e) /\ Cardinality(f + 1 .. e) = e - f
  <2>1. f + 1 \in Int /\ e \in Int /\ ~(f + 1 > e) /\ e - (f + 1) + 1 = e - f
    BY <1>2
  <2>2. /\ IsFiniteSet(f + 1 .. e)
        /\ Cardinality(f + 1 .. e) = IF f + 1 > e THEN 0 ELSE e - (f + 1) + 1
    BY <2>1, FS_Interval
  <2> QED
    BY <2>1, <2>2
<1>5. IsFiniteSet(names) /\ Cardinality(names) <= e - f
  <2> HIDE DEF name
  <2> QED
    BY <1>4, NamesCounted
<1>6. IsFiniteSet(Owed(bs, e)) /\ Cardinality(Owed(bs, e)) <= Cardinality(names)
  <2> HIDE DEF names
  <2> QED
    BY <1>3, <1>5, FS_Subset
<1>7. Cardinality(Owed(bs, e)) <= Cardinality(Authors)
  <2>1. Owed(bs, e) \subseteq Authors
    BY DEF Owed
  <2> QED
    BY <2>1, EconomySets, FS_Subset
<1>8. Cardinality(Owed(bs, e)) \in Nat /\ Cardinality(names) \in Nat
  BY <1>5, <1>6, FS_CardinalityType
<1>9. Cardinality(Owed(bs, e)) <= e - f
  <2> HIDE DEF names
  <2> QED
    BY <1>2, <1>5, <1>6, <1>8
<1> QED
  BY <1>6, <1>7, <1>8, <1>9 DEF f

(* The payouts the check collects for the session before block e, of a chain of n
   blocks, and those the chain owes. *)
Collected(bs, n, e, length) ==
  LET paid == {h \in e .. e + length - 1 : \A g \in e .. h : g <= n /\ bs[g].pay # B!NoPay}
  IN  {bs[h].pay : h \in paid}

Payouts(bs, e) == {PayOf(bs, e, c) : c \in Owed(bs, e)}

(* They are the same, each of them paid once. *)
LEMMA RightlyPaid ==
  ASSUME NEW bs, NEW n \in Nat, NEW longest \in Nat, NEW d, Honestly(bs, n, d, longest),
         NEW e \in 1 .. n, B!First(bs, e) = e, NEW length, length = e - B!First(bs, e - 1),
         B!Round(bs, e - 1) < B!Round(bs, n) - 1 \/ d = {},
         Cardinality(Authors) < MinRound \/ longest <= MinRound
  PROVE  Collected(bs, n, e, length) = Payouts(bs, e)
<1> DEFINE paid == {h \in e .. e + length - 1 : \A g \in e .. h : g <= n /\ bs[g].pay # B!NoPay}
<1>1. /\ Ordered(bs, n, longest) /\ DueRight(bs, n, d) /\ \A h \in 1 .. n : PayRight(bs, h)
  BY DEF Honestly
<1>2. PICK l \in e .. n :
           /\ \A g \in e .. l : B!First(bs, g) = e /\ B!Round(bs, g) = B!Round(bs, e)
           /\ l # n => B!Round(bs, l + 1) # B!Round(bs, l) /\ l + 1 - e >= MinRound
  BY <1>1, SessionEnds
<1>3. \A h \in e .. l : h \in 1 .. n /\ e > 0
  OBVIOUS
<1>4. ASSUME NEW h \in e .. l
      PROVE  /\ bs[h].pay # B!NoPay =>
                  /\ bs[h].pay.of \in Owed(bs, e) /\ bs[h].pay = PayOf(bs, e, bs[h].pay.of)
                  /\ \A g \in e .. h - 1 : ~PaidAt(bs, g, bs[h].pay.of)
             /\ bs[h].pay = B!NoPay =>
                  \A c \in Owed(bs, e) : \E g \in e .. h - 1 : PaidAt(bs, g, c)
  BY <1>1, <1>2, <1>3 DEF PayRight
<1>5. ASSUME NEW c \in Owed(bs, e) PROVE \E g \in e .. l : PaidAt(bs, g, c)
  <2>1. l \in e .. l /\ e \in 0 .. n
    OBVIOUS
  <2>2. B!First(bs, l) = e /\ B!Round(bs, l) = B!Round(bs, e)
    BY <1>2, <2>1
  <2>3. CASE l = n
    <3>1. d = {}
      <4>1. B!Round(bs, e) = B!Round(bs, e - 1) + 1 /\ B!Round(bs, e - 1) \in Nat
        BY <1>1, NotedForSession
      <4> QED
        BY <2>2, <2>3, <4>1
    <3>2. d = {x \in Owed(bs, e) : \A g \in e .. n : ~PaidAt(bs, g, x)}
      BY <1>1, <2>2, <2>3 DEF DueRight
    <3> QED
      BY <2>3, <3>1, <3>2
  <2>4. CASE l # n
    <3>1. l + 1 \in 1 .. n /\ l + 1 - 1 = l
      BY <2>4
    <3>2. PayRight(bs, l + 1) /\ B!Round(bs, l + 1) # B!Round(bs, l)
      BY <1>1, <1>2, <2>4, <3>1
    <3> QED
      BY <2>2, <3>1, <3>2 DEF PayRight
  <2> QED
    BY <2>3, <2>4
<1> DEFINE Paying == {h \in e .. l : bs[h].pay # B!NoPay}
<1>6. ASSUME NEW h \in Paying, NEW g \in e .. h PROVE g \in Paying
  <2>1. g \in e .. l /\ h \in e .. l /\ bs[h].pay # B!NoPay
    OBVIOUS
  <2> SUFFICES ASSUME bs[g].pay = B!NoPay PROVE FALSE
    BY <2>1
  <2>2. bs[h].pay.of \in Owed(bs, e) /\ \A k \in e .. h - 1 : ~PaidAt(bs, k, bs[h].pay.of)
    BY <1>4, <2>1
  <2>3. PICK k \in e .. g - 1 : PaidAt(bs, k, bs[h].pay.of)
    BY <1>4, <2>1, <2>2
  <2>4. k \in e .. h - 1
    OBVIOUS
  <2> QED
    BY <2>2, <2>3, <2>4
<1>7. ASSUME NEW h \in Paying, NEW k \in Paying, bs[h].pay.of = bs[k].pay.of
      PROVE  h = k
  <2>0. h \in e .. l /\ k \in e .. l /\ bs[h].pay # B!NoPay /\ bs[k].pay # B!NoPay
    OBVIOUS
  <2>1. CASE h < k
    <3>1. h \in e .. k - 1
      BY <2>0, <2>1
    <3>2. ~PaidAt(bs, h, bs[k].pay.of)
      BY <1>4, <2>0, <3>1
    <3> QED
      BY <1>7, <2>0, <3>2 DEF PaidAt
  <2>2. CASE k < h
    <3>1. k \in e .. h - 1
      BY <2>0, <2>2
    <3>2. ~PaidAt(bs, k, bs[h].pay.of)
      BY <1>4, <2>0, <3>1
    <3> QED
      BY <1>7, <2>0, <3>2 DEF PaidAt
  <2> QED
    BY <2>0, <2>1, <2>2
<1>8. ASSUME NEW h \in Paying PROVE h - e + 1 <= Cardinality(Owed(bs, e))
  <2> DEFINE name == [x \in e .. h |-> bs[x].pay.of]
             names == Named(name, e .. h)
  <2>1. \A x \in e .. h : x \in Paying /\ x \in e .. l
    BY <1>6
  <2>2. names \subseteq Owed(bs, e)
    BY <1>4, <2>1 DEF Named
  <2>3. \A x, y \in e .. h : name[x] = name[y] => x = y
    <3> HIDE DEF Paying
    <3> QED
      BY <1>7, <2>1
  <2>4. IsFiniteSet(e .. h) /\ Cardinality(e .. h) = h - e + 1
    <3>1. h \in Int /\ e \in Int /\ ~(e > h)
      OBVIOUS
    <3> QED
      BY <3>1, FS_Interval
  <2>5. Cardinality(names) = h - e + 1
    <3> HIDE DEF name
    <3> QED
      BY <2>3, <2>4, NamesCounted
  <2>6. IsFiniteSet(Owed(bs, e))
    BY <1>1, FewAreOwed
  <2>7. Cardinality(names) <= Cardinality(Owed(bs, e))
    <3> HIDE DEF names
    <3> QED
      BY <2>2, <2>6, FS_Subset
  <2> QED
    BY <2>5, <2>7
<1>9. PICK owed \in Nat : /\ owed = Cardinality(Owed(bs, e)) /\ owed <= length
                          /\ owed <= Cardinality(Authors)
  BY <1>1, FewAreOwed
<1>10. PICK f \in 0 .. e - 1 : f = B!First(bs, e - 1)
  BY e - 1 \in Nat, FirstIs
<1>11. length = e - f
  BY <1>10
<1>12. Paying \subseteq paid
  <2> SUFFICES ASSUME NEW h \in Paying PROVE h \in paid
    OBVIOUS
  <2>1. h \in e .. l
    OBVIOUS
  <2>2. h - e + 1 <= owed
    BY <1>8, <1>9
  <2>3. h \in e .. e + length - 1
    BY <1>9, <1>11, <2>1, <2>2
  <2>4. \A g \in e .. h : g <= n /\ bs[g].pay # B!NoPay
    BY <1>6
  <2> QED
    BY <2>3, <2>4
<1>13. paid \subseteq Paying
  <2> SUFFICES ASSUME NEW h \in paid, h \notin Paying PROVE FALSE
    OBVIOUS
  <2>1. h \in e .. e + length - 1 /\ \A g \in e .. h : g <= n /\ bs[g].pay # B!NoPay
    OBVIOUS
  <2>2. h \in Int /\ h <= e + length - 1 /\ e <= h
    BY <1>11, <2>1
  <2>3. h <= n /\ bs[h].pay # B!NoPay
    BY <2>1, <2>2
  <2>4. h > l
    BY <2>2, <2>3
  <2>5. l \in Paying /\ l # n
    BY <2>1, <2>2, <2>3, <2>4
  <2>6. l - e + 1 <= owed
    <3> HIDE DEF Paying
    <3> QED
      BY <1>8, <1>9, <2>5
  <2>7. l + 1 - e >= MinRound
    BY <1>2, <2>5
  <2>8. MinRound \in Nat /\ Cardinality(Authors) \in Nat
    BY EconomySets, FS_CardinalityType
  <2>9. longest <= MinRound
    BY <1>9, <2>6, <2>7, <2>8
  <2>10. length <= longest
    <3>1. PICK k \in 0 .. n : k = e - 1
      OBVIOUS
    <3>2. k + 1 - B!First(bs, k) <= longest
      BY <1>1 DEF Ordered
    <3> QED
      BY <1>10, <1>11, <3>1, <3>2
  <2> QED
    BY <1>11, <2>2, <2>4, <2>7, <2>8, <2>9, <2>10
<1>14. paid = Paying
  BY <1>12, <1>13
<1>15. ASSUME NEW c \in Owed(bs, e)
       PROVE  \E h \in Paying : bs[h].pay = PayOf(bs, e, c)
  BY <1>4, <1>5 DEF PaidAt
<1>16. ASSUME NEW h \in Paying
       PROVE  \E c \in Owed(bs, e) : bs[h].pay = PayOf(bs, e, c)
  BY <1>4
<1>17. Collected(bs, n, e, length) = {bs[h].pay : h \in paid}
  BY DEF Collected
<1> HIDE DEF Paying, paid
<1> QED
  BY <1>14, <1>15, <1>16, <1>17 DEF Payouts

(* The collators' blocks of the session before the one that begins with block e. *)
Counted(bs, e) == [x \in Authors |-> B!CollatorBlocks(bs, B!Round(bs, e) - 1, x, e)]

(* Counts of the blocks of a session add up to its length. *)
LEMMA CountsAddUp ==
  ASSUME NEW bs, NEW n \in Nat, NEW longest, Ordered(bs, n, longest),
         NEW e \in 1 .. n, B!First(bs, e) = e
  PROVE  /\ \A c \in Authors : Counted(bs, e)[c] \in Nat
         /\ SumOver(Counted(bs, e), Authors) = e - B!First(bs, e - 1)
<1> DEFINE f == B!First(bs, e - 1)
           session == B!Round(bs, e - 1)
<1>1. /\ f \in 0 .. e - 1 /\ session \in Nat /\ B!Round(bs, e) = session + 1
      /\ \A h \in f .. e : \A c :
           B!CollatorBlocks(bs, session, c, h) = Cardinality(Authored(bs, f, h, c))
  BY NotedForSession
<1> HIDE DEF f, session
<1>2. e \in f .. e /\ B!Round(bs, e) - 1 = session
  BY <1>1
<1>3. Counted(bs, e) = [c \in Authors |-> Cardinality(Authored(bs, f, e, c))]
  BY <1>1, <1>2 DEF Counted
<1>4. IsFiniteSet(f + 1 .. e) /\ Cardinality(f + 1 .. e) = e - f
  <2>1. f + 1 \in Int /\ e \in Int /\ ~(f + 1 > e) /\ e - (f + 1) + 1 = e - f
    BY <1>1
  <2>2. /\ IsFiniteSet(f + 1 .. e)
        /\ Cardinality(f + 1 .. e) = IF f + 1 > e THEN 0 ELSE e - (f + 1) + 1
    BY <2>1, FS_Interval
  <2> QED
    BY <2>1, <2>2
<1> DEFINE class == [i \in f + 1 .. e |-> bs[i].author]
           counts == CountsBy(class, f + 1 .. e, Authors)
<1>5. SumOver(counts, Authors) = e - f
  <2>1. \A i \in f + 1 .. e : class[i] \in Authors
    <3> TAKE i \in f + 1 .. e
    <3>1. i \in 1 .. n
      BY <1>1
    <3> QED
      BY <3>1 DEF Ordered
  <2> HIDE DEF class
  <2>2. SumOver(counts, Authors) = Cardinality(f + 1 .. e)
    BY <1>4, <2>1, EconomySets, CountedByClass
  <2> QED
    BY <1>4, <2>2
<1>6. \A c : {i \in f + 1 .. e : class[i] = c} = Authored(bs, f, e, c)
  BY DEF Authored
<1>7. counts = Counted(bs, e)
  BY <1>3, <1>6 DEF CountsBy
<1>8. ASSUME NEW c \in Authors PROVE Counted(bs, e)[c] \in Nat
  <2>1. IsFiniteSet(Authored(bs, f, e, c))
    BY <1>4, FS_Subset DEF Authored
  <2> QED
    BY <1>3, <2>1, FS_CardinalityType
<1> HIDE DEF counts
<1> QED
  BY <1>5, <1>7, <1>8 DEF f

(* Who has a block is owed something. *)
LEMMA OwedCounted ==
  ASSUME NEW bs, NEW e
  PROVE  Owed(bs, e) = {c \in Authors : Counted(bs, e)[c] > 0}
BY DEF Owed, Counted

(* What collators at stake have, and what they and their delegators weigh. *)
LEMMA WeightsTyped ==
  ASSUME NEW count, NEW c \in Authors, count[c] \in Nat
  PROVE  /\ AtStake[c].stake \in Nat /\ AtStake[c].commission \in 0 .. Unit
         /\ \A a \in Backers : AtStake[c].delegated[a] \in Nat
         /\ Weights(count)[c] = count[c] * (AtStake[c].stake + B!Delegated(c))
         /\ Weights(count)[c] \in Nat
<1>1. /\ AtStake[c].stake \in Nat /\ AtStake[c].commission \in 0 .. Unit
      /\ \A a \in Backers : AtStake[c].delegated[a] \in Nat
  BY EconomySets
<1>2. Weights(count)[c] = count[c] * (AtStake[c].stake + B!Delegated(c))
  BY DEF Weights
<1>3. PICK k \in Nat, v \in Nat, w \in Nat : k = count[c] /\ v = AtStake[c].stake
                                            /\ w = B!Delegated(c)
  BY <1>1, DelegatedIsSum
<1>4. k * (v + w) \in Nat
  OBVIOUS
<1> QED
  BY <1>1, <1>2, <1>3, <1>4

(* A payout's amounts. *)
LEMMA RewardIs ==
  ASSUME NEW count, NEW c \in Authors, count[c] \in Nat, NEW total \in Nat
  PROVE  LET v == AtStake[c].stake
             m == AtStake[c].commission
             w == B!Delegated(c)
         IN  /\ DOMAIN B!Reward(count, c, total) = {c} \cup Backers
             /\ B!Reward(count, c, total)[c] = count[c] * (v * Unit + m * w) * total
             /\ \A a \in Backers : B!Reward(count, c, total)[a]
                                     = AtStake[c].delegated[a] * (count[c] * (Unit - m) * total)
             /\ \A a \in {c} \cup Backers : B!Reward(count, c, total)[a] \in Int
<1>1. PICK k \in Nat, v \in Nat, w \in Nat, m \in Nat, u \in Nat :
        /\ k = count[c] /\ v = AtStake[c].stake /\ w = B!Delegated(c)
        /\ m = AtStake[c].commission /\ u = Unit
  <2>1. AtStake[c].commission \in Nat /\ Unit \in Nat
    BY WeightsTyped, EconomySets
  <2> QED
    BY <2>1, WeightsTyped, DelegatedIsSum
<1>2. c \notin Backers
  BY EconomySets
<1>3. DOMAIN B!Reward(count, c, total) = {c} \cup Backers
  BY DEF B!Reward
<1>4. B!Reward(count, c, total)[c] = k * (v * u + m * w) * total
  BY <1>1 DEF B!Reward, B!StakingRatio
<1>5. ASSUME NEW a \in Backers
      PROVE  B!Reward(count, c, total)[a] = AtStake[c].delegated[a] * (k * (u - m) * total)
  <2>1. PICK x \in Nat : x = AtStake[c].delegated[a]
    BY WeightsTyped
  <2>2. B!Reward(count, c, total)[a] = k * ((u - m) * x) * total
    BY <1>1, <1>2, <2>1 DEF B!Reward, B!StakingRatio
  <2>3. PICK y \in Int : y = u - m
    OBVIOUS
  <2>4. k * (y * x) * total = x * (k * y * total)
    BY Z3
  <2> QED
    BY <2>1, <2>2, <2>3, <2>4
<1>6. ASSUME NEW a \in {c} \cup Backers PROVE B!Reward(count, c, total)[a] \in Int
  <2>1. CASE a = c
    <3>1. k * (v * u + m * w) * total \in Int
      OBVIOUS
    <3> QED
      BY <1>4, <2>1, <3>1
  <2>2. CASE a \in Backers
    <3>1. PICK x \in Nat : x = AtStake[c].delegated[a]
      BY <2>2, WeightsTyped
    <3>2. x * (k * (u - m) * total) \in Int
      OBVIOUS
    <3> QED
      BY <1>5, <2>2, <3>1, <3>2
  <2> QED
    BY <2>1, <2>2
<1> QED
  BY <1>1, <1>3, <1>4, <1>5, <1>6

(* The amounts of a payout add up to what the collator and its delegators weigh. *)
LEMMA AmountsAddUp ==
  ASSUME NEW count, NEW c \in Authors, count[c] \in Nat, NEW total \in Nat, NEW pay,
         pay.amounts = B!Reward(count, c, total)
  PROVE  B!Total(pay) = Weights(count)[c] * (Unit * total)
<1>1. PICK k \in Nat, v \in Nat, w \in Nat, m \in Nat, u \in Nat :
        /\ k = count[c] /\ v = AtStake[c].stake /\ w = B!Delegated(c)
        /\ m = AtStake[c].commission /\ u = Unit
  <2>1. AtStake[c].commission \in Nat /\ Unit \in Nat
    BY WeightsTyped, EconomySets
  <2> QED
    BY <2>1, WeightsTyped, DelegatedIsSum
<1>2. PICK reward : reward = B!Reward(count, c, total)
  OBVIOUS
<1>3. /\ DOMAIN reward = {c} \cup Backers
      /\ reward[c] = k * (v * u + m * w) * total
      /\ \A a \in Backers : reward[a] = AtStake[c].delegated[a] * (k * (u - m) * total)
      /\ \A a \in {c} \cup Backers : reward[a] \in Int
  <2>1. /\ DOMAIN B!Reward(count, c, total) = {c} \cup Backers
        /\ B!Reward(count, c, total)[c]
             = count[c] * (AtStake[c].stake * Unit + AtStake[c].commission * B!Delegated(c)) * total
        /\ \A a \in Backers :
             B!Reward(count, c, total)[a]
               = AtStake[c].delegated[a] * (count[c] * (Unit - AtStake[c].commission) * total)
        /\ \A a \in {c} \cup Backers : B!Reward(count, c, total)[a] \in Int
    BY RewardIs
  <2> QED
    BY <1>1, <1>2, <2>1
<1>4. B!Total(pay) = SumOver(reward, {c} \cup Backers)
  BY <1>2, <1>3, TotalIsSum
<1>5. IsFiniteSet({c} \cup Backers) /\ IsFiniteSet(Backers) /\ c \notin Backers
  BY EconomySets, FS_AddElement
<1>6. SumOver(reward, {c} \cup Backers) = reward[c] + SumOver(reward, Backers)
  <2>1. ({c} \cup Backers) \ {c} = Backers
    BY <1>5
  <2>2. SumOver(reward, {c} \cup Backers)
          = reward[c] + SumOver(reward, ({c} \cup Backers) \ {c})
    BY <1>3, <1>5, SumRemove, c \in {c} \cup Backers
  <2> QED
    BY <2>1, <2>2
<1>7. PICK s \in Int : s = k * (u - m) * total
  OBVIOUS
<1>8. SumOver(reward, Backers) = w * s
  <2>1. PICK delegated : delegated = AtStake[c].delegated
    OBVIOUS
  <2>2. \A a \in Backers : delegated[a] \in Int /\ reward[a] = delegated[a] * s
    <3> TAKE a \in Backers
    <3>1. PICK x \in Nat : x = delegated[a]
      BY <2>1, WeightsTyped
    <3>2. reward[a] = x * (k * (u - m) * total)
      BY <1>3, <2>1, <3>1
    <3> QED
      BY <1>7, <3>1, <3>2
  <2>3. SumOver(reward, Backers) = SumOver(delegated, Backers) * s
    BY <1>5, <2>2, SumScaled
  <2> QED
    BY <1>1, <2>1, <2>3, DelegatedIsSum
<1>9. k * (v * u + m * w) * total + w * (k * (u - m) * total) = k * (v + w) * (u * total)
  BY Z3
<1>10. Weights(count)[c] = k * (v + w)
  BY <1>1, WeightsTyped
<1>11. reward[c] + SumOver(reward, Backers) = k * (v + w) * (u * total)
  BY <1>3, <1>7, <1>8, <1>9
<1> QED
  BY <1>1, <1>4, <1>6, <1>10, <1>11

(* The payouts of a session's collators are paid in full, and each amount is the one
   the check computes. *)
LEMMA PayoutsPass ==
  ASSUME NEW bs, NEW e, \A c \in Authors : Counted(bs, e)[c] \in Nat,
         NEW total \in Nat, total = B!Rewards(bs, B!First(bs, e - 1), e)
  PROVE  /\ B!PaidInFull(Payouts(bs, e), total)
         /\ Cardinality(Payouts(bs, e)) = Cardinality(Owed(bs, e))
         /\ \A p \in Payouts(bs, e) : \A a \in DOMAIN p.amounts :
              p.amounts[a] * Unit * B!StakingNum(Counted(bs, e))
                = B!Reward(Counted(bs, e), p.of, total)[a] * p.over
<1>1. PICK count : count = Counted(bs, e)
  OBVIOUS
<1>2. PICK owed : owed = Owed(bs, e)
  OBVIOUS
<1>3. IsFiniteSet(owed) /\ owed = {c \in Authors : count[c] > 0} /\ owed \in SUBSET Authors
  <2>1. owed = {c \in Authors : count[c] > 0}
    BY <1>1, <1>2, OwedCounted
  <2> QED
    BY <2>1, EconomySets, FS_Subset
<1> DEFINE name == [c \in owed |-> PayOf(bs, e, c)]
<1>4. \A c : PayOf(bs, e, c) = [of |-> c, amounts |-> B!Reward(count, c, total),
                                over |-> Unit * B!StakingNum(count)]
  BY <1>1 DEF PayOf, Counted
<1>5. /\ \A c \in owed : /\ name[c].of = c /\ name[c].amounts = B!Reward(count, c, total)
                         /\ name[c].over = Unit * B!StakingNum(count)
      /\ Payouts(bs, e) = Named(name, owed)
  BY <1>2, <1>4 DEF Named, Payouts
<1> HIDE DEF name
<1> DEFINE payouts == Named(name, owed)
<1>6. \A c, x \in owed : name[c] = name[x] => c = x
  BY <1>5
<1>7. IsFiniteSet(payouts) /\ Cardinality(payouts) = Cardinality(owed)
  BY <1>3, <1>5, <1>6, NamesCounted
<1>8. \A c \in Authors : count[c] \in Nat
  BY <1>1
<1>9. PICK u \in Nat : u = Unit
  BY EconomySets
<1>10. \A c \in Authors : Weights(count)[c] \in Nat
  BY <1>8, WeightsTyped
<1>11. PICK num \in Nat : num = B!StakingNum(count) /\ num = SumOver(Weights(count), Authors)
  <2>1. SumOver(Weights(count), Authors) \in Nat
    BY <1>10, EconomySets, SumTyped, Nat \in {Nat, Int}
  <2> QED
    BY <2>1, StakingNumIsSum
<1> DEFINE totals == [q \in payouts |-> B!Total(q)]
           terms == ByName(totals, name, owed)
<1>12. ASSUME NEW c \in owed
       PROVE  /\ name[c] \in payouts /\ totals[name[c]] \in Int
              /\ Weights(count)[c] \in Int /\ terms[c] = Weights(count)[c] * (u * total)
  <2>1. name[c] \in payouts /\ c \in Authors
    BY <1>3, <1>5 DEF Named
  <2>2. B!Total(name[c]) = Weights(count)[c] * (u * total)
    BY <1>5, <1>8, <1>9, <2>1, AmountsAddUp
  <2>3. PICK w \in Nat : w = Weights(count)[c]
    BY <1>10, <2>1
  <2>4. w * (u * total) \in Int
    OBVIOUS
  <2> QED
    BY <2>1, <2>2, <2>3, <2>4 DEF ByName
<1>13. SumOver(totals, payouts) = SumOver(terms, owed)
  <2> HIDE DEF totals
  <2>1. \A c \in owed : totals[name[c]] \in Int
    BY <1>12
  <2> QED
    BY <1>3, <1>6, <2>1, SumReindexed
<1>14. SumOver(terms, owed) = SumOver(Weights(count), owed) * (u * total)
  <2> HIDE DEF terms, totals
  <2>1. PICK k \in Int : k = u * total
    OBVIOUS
  <2>2. \A c \in owed : Weights(count)[c] \in Int /\ terms[c] = Weights(count)[c] * k
    BY <1>12, <2>1
  <2>3. SumOver(terms, owed) = SumOver(Weights(count), owed) * k
    BY <1>3, <2>2, SumScaled
  <2> QED
    BY <2>1, <2>3
<1>15. SumOver(Weights(count), owed) = num
  <2>1. ASSUME NEW c \in Authors \ owed PROVE Weights(count)[c] = 0
    <3>1. count[c] = 0
      BY <1>3, <1>8, <2>1
    <3>2. PICK v \in Nat : v = AtStake[c].stake + B!Delegated(c)
      <4>1. AtStake[c].stake \in Nat /\ B!Delegated(c) \in Nat
        BY <1>8, WeightsTyped, DelegatedIsSum
      <4> QED
        BY <4>1
    <3>3. 0 * v = 0
      OBVIOUS
    <3> QED
      BY <1>8, <3>1, <3>2, <3>3, WeightsTyped
  <2>2. \A c \in Authors : Weights(count)[c] \in Int
    BY <1>10
  <2> QED
    BY <1>3, <1>11, <2>1, <2>2, EconomySets, SumOfSupport
<1>16. num * (u * total) = total * (u * num)
  BY Z3
<1>17. B!PaidInFull(payouts, total)
  <2>1. \A p \in payouts : p.over = u * num
    BY <1>5, <1>9, <1>11 DEF Named
  <2>2. SumOver(totals, payouts) = total * (u * num)
    BY <1>13, <1>14, <1>15, <1>16
  <2>3. \A p \in payouts : SumOver(totals, payouts) = total * p.over
    BY <2>1, <2>2
  <2> QED
    BY <1>7, <2>3, PaidInFullIsSum
<1>18. ASSUME NEW p \in payouts, NEW a \in DOMAIN p.amounts
       PROVE  p.amounts[a] * Unit * B!StakingNum(count)
                = B!Reward(count, p.of, total)[a] * p.over
  <2>1. PICK c \in owed : p = name[c]
    BY <1>5 DEF Named
  <2>2. p.of = c /\ p.amounts = B!Reward(count, c, total) /\ p.over = u * num
    BY <1>5, <1>9, <1>11, <2>1
  <2>3. c \in Authors /\ count[c] \in Nat
    BY <1>3, <1>8
  <2>4. PICK x \in Int : x = B!Reward(count, c, total)[a]
    <3>1. /\ DOMAIN B!Reward(count, c, total) = {c} \cup Backers
          /\ \A b \in {c} \cup Backers : B!Reward(count, c, total)[b] \in Int
      BY <2>3, RewardIs
    <3> QED
      BY <2>2, <3>1
  <2>5. x * u * num = x * (u * num)
    OBVIOUS
  <2> QED
    BY <1>9, <1>11, <2>2, <2>4, <2>5
<1>19. Payouts(bs, e) = payouts
  BY <1>5
<1> HIDE DEF payouts
<1> QED
  BY <1>1, <1>2, <1>7, <1>17, <1>18, <1>19

(* What the check counts is what the chain has counted. *)
LEMMA SameBlocksCounted ==
  ASSUME NEW n \in Nat, NEW longest, Ordered(blocks, n, longest),
         NEW e \in 1 .. n, B!First(blocks, e) = e,
         NEW s, s = [first |-> B!First(blocks, e - 1), length |-> e - B!First(blocks, e - 1),
                     idx |-> B!Round(blocks, e - 1)]
  PROVE  B!CollatorBlockInfo(s) = Counted(blocks, e) /\ s.first + s.length = e
<1>1. PICK f \in 0 .. e - 1, session \in Nat :
        /\ f = B!First(blocks, e - 1) /\ session = B!Round(blocks, e - 1)
        /\ B!Round(blocks, e) = session + 1
  BY NotedForSession
<1>2. s.first + s.length = e /\ s.idx = session
  BY <1>1
<1>3. blocks[e].noted = session
  BY <1>1 DEF Ordered
<1>4. ASSUME NEW c \in Authors
      PROVE  B!CollatorBlocks(blocks, session, c, e - 1)
               + (IF blocks[e].author = c THEN 1 ELSE 0)
             = B!CollatorBlocks(blocks, session, c, e)
  <2> DEFINE before == {i \in 1 .. e - 1 : blocks[i].noted = session /\ blocks[i].author = c}
             all == {i \in 1 .. e : blocks[i].noted = session /\ blocks[i].author = c}
  <2>1. IsFiniteSet(before)
    <3>1. IsFiniteSet(1 .. e - 1)
      BY FS_Interval
    <3> QED
      BY <3>1, FS_Subset
  <2>2. e \notin before /\ all = IF blocks[e].author = c THEN before \cup {e} ELSE before
    BY <1>3
  <2>3. /\ B!CollatorBlocks(blocks, session, c, e - 1) = Cardinality(before)
        /\ B!CollatorBlocks(blocks, session, c, e) = Cardinality(all)
    BY EconomyCount DEF B!CollatorBlocks
  <2> HIDE DEF before, all
  <2>4. Cardinality(before) \in Nat
    BY <2>1, FS_CardinalityType
  <2>5. CASE blocks[e].author = c
    <3>1. Cardinality(all) = Cardinality(before) + 1
      BY <2>1, <2>2, <2>5, FS_AddElement
    <3> QED
      BY <2>3, <2>5, <3>1
  <2>6. CASE blocks[e].author # c
    BY <2>2, <2>3, <2>4, <2>6
  <2> QED
    BY <2>5, <2>6
<1>5. B!CollatorBlockInfo(s)
        = [c \in Authors |-> B!CollatorBlocks(blocks, session, c, e - 1)
                               + IF blocks[e].author = c THEN 1 ELSE 0]
  BY <1>2 DEF B!CollatorBlockInfo
<1>6. Counted(blocks, e) = [c \in Authors |-> B!CollatorBlocks(blocks, session, c, e)]
  <2>1. B!Round(blocks, e) - 1 = session
    BY <1>1
  <2> QED
    BY <2>1 DEF Counted
<1> QED
  BY <1>2, <1>4, <1>5, <1>6

(* A session the check looks at: its first block, and the next one's. *)
LEMMA SessionIs ==
  ASSUME NEW s \in B!Sessions
  PROVE  \E e \in 1 .. B!Len(blocks) :
           /\ B!First(blocks, e) = e /\ B!First(blocks, e - 1) > 0
           /\ s = [first |-> B!First(blocks, e - 1), length |-> e - B!First(blocks, e - 1),
                   idx |-> B!Round(blocks, e - 1)]
BY DEF B!Sessions, B!height

(* The traversal finds every block noted for its author. *)
LEMMA TraversePasses ==
  ASSUME EconomyInv, NEW longest, Ordered(blocks, B!Len(blocks), longest), NEW s \in B!Sessions
  PROVE  B!TraverseOK(s)
<1>1. PICK n \in Nat : n = B!Len(blocks)
  BY DEF EconomyInv
<1>2. PICK e \in 1 .. n :
        /\ B!First(blocks, e) = e
        /\ s = [first |-> B!First(blocks, e - 1), length |-> e - B!First(blocks, e - 1),
                idx |-> B!Round(blocks, e - 1)]
  BY <1>1, SessionIs
<1> DEFINE f == B!First(blocks, e - 1)
           session == B!Round(blocks, e - 1)
<1>3. /\ f \in 0 .. e - 1 /\ session \in Nat /\ B!Round(blocks, e) = session + 1
      /\ \A h \in f .. e : \A c :
           B!CollatorBlocks(blocks, session, c, h) = Cardinality(Authored(blocks, f, h, c))
  BY <1>1, <1>2, NotedForSession
<1>4. s.first = f /\ s.length = e - f /\ s.idx = session
  BY <1>2
<1> HIDE DEF f, session
<1>5. s.first + s.length = e
  BY <1>3, <1>4
<1>6. ASSUME NEW h \in s.first + 1 .. s.first + s.length - 1
      PROVE  B!CollatorBlocks(blocks, s.idx, blocks[h].author, h)
               = Cardinality(Authored(blocks, s.first, h, blocks[h].author))
  <2>1. h \in f .. e
    BY <1>3, <1>4, <1>5
  <2> QED
    BY <1>3, <1>4, <2>1
<1> QED
  BY <1>6, EconomyCount DEF B!TraverseOK, Authored

(* No block has credited less than it put into the pot. *)
LEMMA BlocksPass ==
  ASSUME EconomyInv, NEW longest, Ordered(blocks, B!Len(blocks), longest),
         NEW h \in 1 .. B!Len(blocks)
  PROVE  B!BlockOK(h)
<1>1. PICK x \in Nat : x = blocks[h].deposit /\ x = blocks[h].credited
  BY DEF Ordered
<1>2. ~(x - x > 0)
  OBVIOUS
<1> QED
  BY <1>1, <1>2 DEF B!BlockOK

(* The distribution of a settled session passes. *)
LEMMA DistributionPasses ==
  ASSUME EconomyInv, NEW longest \in Nat, Honestly(blocks, B!Len(blocks), due, longest),
         Cardinality(Authors) < MinRound \/ longest <= MinRound, NEW s \in B!Settled
  PROVE  B!DistributionOK(s)
<1>1. PICK n \in Nat : n = B!Len(blocks)
  BY DEF EconomyInv
<1>2. s \in B!Sessions /\ (s.idx < B!Round(blocks, n) - 1 \/ due = {})
  BY <1>1 DEF B!Settled, B!height
<1>3. PICK e \in 1 .. n :
        /\ B!First(blocks, e) = e
        /\ s = [first |-> B!First(blocks, e - 1), length |-> e - B!First(blocks, e - 1),
                idx |-> B!Round(blocks, e - 1)]
  BY <1>1, <1>2, SessionIs
<1>4. Honestly(blocks, n, due, longest) /\ Ordered(blocks, n, longest)
  BY <1>1 DEF Honestly
<1>5. PICK f \in 0 .. e - 1 : f = B!First(blocks, e - 1)
  BY e - 1 \in Nat, FirstIs
<1>6. PICK length : length = e - B!First(blocks, e - 1)
  OBVIOUS
<1>7. /\ s.first = f /\ s.length = length /\ s.idx = B!Round(blocks, e - 1)
      /\ s.first + s.length = e /\ length = e - f
  BY <1>3, <1>5, <1>6
<1>8. PICK count : count = Counted(blocks, e) /\ count = B!CollatorBlockInfo(s)
  BY <1>3, <1>4, SameBlocksCounted
<1>9. /\ \A c \in Authors : Counted(blocks, e)[c] \in Nat
      /\ SumOver(count, Authors) = s.length
  BY <1>3, <1>4, <1>7, <1>8, CountsAddUp
<1>10. PICK total \in Nat : total = B!Rewards(blocks, f, e)
  <2>1. \A h \in 1 .. n : blocks[h].deposit \in Nat
    BY <1>4 DEF Ordered
  <2>2. e \in 0 .. n + 1 /\ f \in 0 .. e
    OBVIOUS
  <2>3. B!Rewards(blocks, f, e) \in Nat
    BY <2>1, <2>2, RewardsAreSum
  <2> QED
    BY <2>3
<1>11. B!RewardInfo(s) = Collected(blocks, n, e, length)
  BY <1>1, <1>7 DEF B!RewardInfo, B!height, Collected
<1>12. Collected(blocks, n, e, length) = Payouts(blocks, e)
  <2>1. B!Round(blocks, e - 1) < B!Round(blocks, n) - 1 \/ due = {}
    BY <1>2, <1>7
  <2> QED
    BY <1>3, <1>4, <1>6, <2>1, RightlyPaid
<1> DEFINE info == Payouts(blocks, e)
<1>13. /\ B!PaidInFull(info, total)
       /\ Cardinality(info) = Cardinality(Owed(blocks, e))
       /\ \A p \in info : \A a \in DOMAIN p.amounts :
            p.amounts[a] * Unit * B!StakingNum(Counted(blocks, e))
              = B!Reward(Counted(blocks, e), p.of, total)[a] * p.over
  BY <1>5, <1>9, <1>10, PayoutsPass
<1>14. B!RewardInfo(s) = info
  BY <1>11, <1>12
<1> HIDE DEF info
<1>15. B!CheckReward(s, count, total)
  BY <1>8, <1>13, <1>14 DEF B!CheckReward
<1>16. Cardinality(B!RewardInfo(s)) = Cardinality({c \in Authors : count[c] > 0})
  BY <1>8, <1>13, <1>14, OwedCounted
<1> QED
  BY <1>7, <1>8, <1>9, <1>10, <1>15, <1>16, DistributionParts

(* The tool checks both chains alike. *)
LEMMA SameChecks == H!HonestChainPasses <=> B!HonestChainPasses
<1>1. \A bs, h : H!Round(bs, h) = B!Round(bs, h) /\ H!First(bs, h) = B!First(bs, h)
  BY SameProgram
<1>2. H!Sessions = B!Sessions /\ H!Settled = B!Settled /\ H!height = B!height
  BY <1>1 DEF H!Sessions, B!Sessions, H!Settled, B!Settled, H!height, B!height
<1>3. \A bs, session, c, h :
        H!CollatorBlocks(bs, session, c, h) = B!CollatorBlocks(bs, session, c, h)
  BY DEF H!CollatorBlocks, B!CollatorBlocks, H!Cardinality, B!Cardinality
<1>4. \A s : H!TraverseOK(s) <=> B!TraverseOK(s)
  BY <1>3 DEF H!TraverseOK, B!TraverseOK, H!Cardinality, B!Cardinality
<1>5. \A h : H!BlockOK(h) <=> B!BlockOK(h)
  BY DEF H!BlockOK, B!BlockOK
<1>6. \A s : H!CollatorBlockInfo(s) = B!CollatorBlockInfo(s)
  BY <1>3 DEF H!CollatorBlockInfo, B!CollatorBlockInfo
<1>7. \A s : H!RewardInfo(s) = B!RewardInfo(s)
  BY DEF H!RewardInfo, B!RewardInfo, H!height, B!height, H!NoPay, B!NoPay
<1>8. \A bs, first, end : H!Rewards(bs, first, end) = B!Rewards(bs, first, end)
  BY DEF H!Rewards, B!Rewards
<1>9. \A count : H!StakingNum(count) = B!StakingNum(count)
  BY DEF H!StakingNum, B!StakingNum, H!Delegated, B!Delegated, H!MapThenSumSet,
         B!MapThenSumSet, H!MapThenFoldSet, B!MapThenFoldSet
<1>10. \A count, c, total : H!Reward(count, c, total) = B!Reward(count, c, total)
  BY DEF H!Reward, B!Reward, H!StakingRatio, B!StakingRatio, H!Delegated, B!Delegated,
         H!MapThenSumSet, B!MapThenSumSet, H!MapThenFoldSet, B!MapThenFoldSet
<1>11. \A info, total : H!PaidInFull(info, total) <=> B!PaidInFull(info, total)
  BY DEF H!PaidInFull, B!PaidInFull, H!Total, B!Total, H!MapThenSumSet,
         B!MapThenSumSet, H!MapThenFoldSet, B!MapThenFoldSet
<1>12. \A s, count, total : H!CheckReward(s, count, total) <=> B!CheckReward(s, count, total)
  BY <1>7, <1>9, <1>10, <1>11 DEF H!CheckReward, B!CheckReward
<1>13. \A set : H!Cardinality(set) = Cardinality(set)
  BY DEF H!Cardinality, Cardinality
<1>14. ASSUME NEW s PROVE H!DistributionOK(s) <=> B!DistributionOK(s)
  <2>1. LET count == H!CollatorBlockInfo(s) IN
        H!DistributionOK(s) <=>
          /\ SumOver(count, Authors) = s.length
          /\ Cardinality(H!RewardInfo(s)) = Cardinality({c \in Authors : count[c] > 0})
          /\ H!CheckReward(s, count, H!Rewards(blocks, s.first, s.first + s.length))
    BY <1>13 DEF H!DistributionOK, H!MapThenSumSet, H!MapThenFoldSet, SumOver, SumsTo, Chosen
  <2>2. LET count == B!CollatorBlockInfo(s) IN
        B!DistributionOK(s) <=>
          /\ SumOver(count, Authors) = s.length
          /\ Cardinality(B!RewardInfo(s)) = Cardinality({c \in Authors : count[c] > 0})
          /\ B!CheckReward(s, count, B!Rewards(blocks, s.first, s.first + s.length))
    BY DistributionParts
  <2>3. PICK count : count = H!CollatorBlockInfo(s) /\ count = B!CollatorBlockInfo(s)
    BY <1>6
  <2> QED
    BY <1>7, <1>8, <1>12, <2>1, <2>2, <2>3
<1> QED
  BY <1>2, <1>4, <1>5, <1>14 DEF H!HonestChainPasses, B!HonestChainPasses

(* No honest session is so long, with so many collators, that the blocks that pay it
   run into the next session's. *)
PayoutsEnd == Cardinality(Authors) < MinRound \/ HonestRound <= MinRound

(* A chain without a fault passes each of the checks. *)
LEMMA HonestPasses == PayoutsEnd /\ EconomyInv /\ HonestInv => HonestChainPasses
<1> SUFFICES ASSUME PayoutsEnd, EconomyInv, HonestInv, fault.how = "none"
             PROVE  /\ \A s \in B!Sessions : B!TraverseOK(s)
                    /\ \A h \in 1 .. B!height - 1 : B!BlockOK(h)
                    /\ \A s \in B!Settled : B!DistributionOK(s)
  BY SameChecks DEF HonestChainPasses, B!HonestChainPasses
<1>1. Longest \in Nat /\ (Cardinality(Authors) < MinRound \/ Longest <= MinRound)
  BY EconomySets DEF Longest, PayoutsEnd
<1>2. Honestly(blocks, B!Len(blocks), due, Longest) /\ Ordered(blocks, B!Len(blocks), Longest)
  BY DEF HonestInv, Honestly
<1>3. \A h \in 1 .. B!height - 1 : h \in 1 .. B!Len(blocks)
  BY DEF B!height, EconomyInv
<1> QED
  BY <1>1, <1>2, <1>3, TraversePasses, BlocksPass, DistributionPasses

-----------------------------------------------------------------------------
(* TokenEconomy: chains with a fault *)

(* A session begins where its rounds do. *)
LEMMA FirstAlike ==
  ASSUME NEW bs, NEW cs, NEW n \in Nat, \A h \in 1 .. n : bs[h].round = cs[h].round,
         NEW h \in 0 .. n
  PROVE  B!Round(bs, h) = B!Round(cs, h) /\ B!First(bs, h) = B!First(cs, h)
<1>1. \A g \in 0 .. n : B!Round(bs, g) = B!Round(cs, g)
  BY DEF B!Round
<1>2. h \in Nat /\ \A g \in 0 .. h : g \in 0 .. n
  OBVIOUS
<1>3. PICK f : f = B!First(cs, h)
  OBVIOUS
<1>4. /\ f \in 0 .. h /\ B!Round(cs, f) = B!Round(cs, h)
      /\ \A g \in 0 .. h : B!Round(cs, g) = B!Round(cs, h) => f <= g
  BY <1>2, <1>3, FirstIs
<1>5. B!First(bs, h) = f
  BY <1>1, <1>2, <1>4, FirstUnique
<1> QED
  BY <1>1, <1>3, <1>5

(* Whatever goes wrong with a block, one with what it should say keeps the order. *)
LEMMA GrowsOrdered ==
  ASSUME NEW bs, NEW cs, NEW os, NEW ps, NEW n \in Nat, NEW longest \in Nat \ {0}, NEW d, NEW d2,
         NEW how, Grows(how, longest, bs, cs, n, d, d2),
         Ordered(os, n, longest), \A h \in 1 .. n : os[h].round = bs[h].round,
         \A h \in 1 .. n : ps[h] = os[h],
         ps[n + 1].author = cs[n + 1].author, ps[n + 1].round = cs[n + 1].round,
         ps[n + 1].noted = B!Round(bs, n), ps[n + 1].deposit = cs[n + 1].deposit,
         ps[n + 1].credited = cs[n + 1].deposit
  PROVE  Ordered(ps, n + 1, longest)
<1>1. PICK new \in BOOLEAN : \E unpaid : GrowsBy(how, longest, bs, cs, n, d, d2, new, unpaid)
  BY DEF Grows
<1>2. B!Round(os, n) = B!Round(bs, n) /\ B!First(os, n) = B!First(bs, n)
  BY n \in 0 .. n, FirstAlike
<1>3. /\ ps[n + 1].author \in Authors
      /\ ps[n + 1].round = IF new THEN B!Round(os, n) + 1 ELSE B!Round(os, n)
      /\ ps[n + 1].noted = B!Round(os, n)
      /\ ps[n + 1].deposit \in Nat /\ ps[n + 1].credited = ps[n + 1].deposit
      /\ IF new THEN n + 1 - B!First(os, n) >= MinRound ELSE n + 1 - B!First(os, n) < longest
  BY <1>1, <1>2 DEF GrowsBy
<1> QED
  BY <1>3, OrderGrows

(* Chain cs is chain bs but for what went wrong with block at. *)
Mends(cs, bs, n, at) ==
  \A h \in 1 .. n : /\ cs[h].author = bs[h].author /\ cs[h].round = bs[h].round
                    /\ cs[h].deposit = bs[h].deposit
                    /\ h # at => cs[h] = bs[h]

(* Block at has kept something back. *)
Leaked(cs, bs, n, at) ==
  /\ Mends(cs, bs, n, at) /\ Ordered(cs, n, MinRound)
  /\ bs[at].deposit - bs[at].credited > 0

(* It is the first of its session, and noted for this one already. *)
Misnoted(cs, bs, n, at) ==
  /\ Mends(cs, bs, n, at) /\ Ordered(cs, n, MinRound)
  /\ bs[at].noted = bs[at].round /\ B!Round(bs, at) # B!Round(bs, at - 1)

(* It has paid a delegator's amount to the collator, or not at all; all others pay as if
   it had been right. *)
Mispaid(cs, bs, n, at, how, d) ==
  /\ Mends(cs, bs, n, at) /\ Honestly(cs, n, d, MinRound)
  /\ SameBlock(cs[at], bs[at])
  /\ bs[at].pay = B!Faulty(cs[at].pay, how)
  /\ cs[at].pay # B!NoPay /\ \E a \in Backers : cs[at].pay.amounts[a] > 0

WentWrong(how, at, bs, n, d) ==
  \E cs : \/ how = "leak" /\ Leaked(cs, bs, n, at)
          \/ how = "misnoted" /\ Misnoted(cs, bs, n, at)
          \/ how \in {"shifted", "unpaid"} /\ Mispaid(cs, bs, n, at, how, d)

(* The chain before a fault was right, and so is a chain with its last block mended. *)
LEMMA Breaks ==
  ASSUME NEW bs, NEW cs, NEW n \in Nat, NEW d, NEW d2,
         NEW how \in {"shifted", "unpaid", "misnoted", "leak"},
         Honestly(bs, n, d, MinRound), Grows(how, MinRound, bs, cs, n, d, d2)
  PROVE  WentWrong(how, n + 1, cs, n + 1, d2)
<1>1. MinRound \in Nat \ {0}
  BY EconomySets
<1>2. PICK new \in BOOLEAN : \E unpaid : GrowsBy(how, MinRound, bs, cs, n, d, d2, new, unpaid)
  BY DEF Grows
<1>3. /\ \A h \in 1 .. n : cs[h] = bs[h]
      /\ cs[n + 1].deposit \in Nat
      /\ cs[n + 1].round = IF new THEN B!Round(bs, n) + 1 ELSE B!Round(bs, n)
      /\ cs[n + 1].noted = IF how = "misnoted" THEN B!Round(bs, n) + 1 ELSE B!Round(bs, n)
      /\ cs[n + 1].credited
           = IF how = "leak" THEN cs[n + 1].deposit - 1 ELSE cs[n + 1].deposit
      /\ how = "misnoted" => new
  BY <1>2 DEF GrowsBy
<1>4. Ordered(bs, n, MinRound) /\ B!Round(bs, n) \in Nat
  BY n \in 0 .. n DEF Honestly, Ordered
<1>5. CASE how \in {"misnoted", "leak"}
  <2>1. PICK block : block = [author |-> cs[n + 1].author, round |-> cs[n + 1].round,
                              noted |-> B!Round(bs, n), deposit |-> cs[n + 1].deposit,
                              credited |-> cs[n + 1].deposit]
    OBVIOUS
  <2>2. PICK ps : ps = [h \in 1 .. n + 1 |-> IF h = n + 1 THEN block ELSE bs[h]]
    OBVIOUS
  <2>3. (\A h \in 1 .. n : ps[h] = bs[h]) /\ ps[n + 1] = block
    BY <2>2
  <2>4. Ordered(ps, n + 1, MinRound)
    <3>1. \A h \in 1 .. n : bs[h].round = bs[h].round
      OBVIOUS
    <3>2. /\ ps[n + 1].author = cs[n + 1].author /\ ps[n + 1].round = cs[n + 1].round
          /\ ps[n + 1].noted = B!Round(bs, n) /\ ps[n + 1].deposit = cs[n + 1].deposit
          /\ ps[n + 1].credited = cs[n + 1].deposit
      BY <2>1, <2>3
    <3>3. Ordered(bs, n, MinRound) /\ \A h \in 1 .. n : ps[h] = bs[h]
      BY <1>4, <2>3
    <3> QED
      BY <1>1, <3>1, <3>2, <3>3, GrowsOrdered
  <2>5. Mends(ps, cs, n + 1, n + 1)
    BY <1>3, <2>1, <2>3 DEF Mends
  <2>6. CASE how = "leak"
    <3>1. cs[n + 1].deposit - cs[n + 1].credited > 0
      BY <1>3, <2>6
    <3> QED
      BY <2>4, <2>5, <2>6, <3>1 DEF WentWrong, Leaked
  <2>7. CASE how = "misnoted"
    <3>1. B!Round(cs, n) = B!Round(bs, n)
      BY <1>3 DEF B!Round
    <3>2. PICK m \in Nat : m = n + 1
      OBVIOUS
    <3>3. B!Round(cs, m) = cs[m].round
      BY <3>2 DEF B!Round
    <3>4. cs[n + 1].noted = cs[n + 1].round /\ B!Round(cs, n + 1) # B!Round(cs, n + 1 - 1)
      BY <1>3, <1>4, <2>7, <3>1, <3>2, <3>3
    <3> QED
      BY <2>4, <2>5, <2>7, <3>4 DEF WentWrong, Misnoted
  <2> QED
    BY <1>5, <2>6, <2>7
<1>6. CASE how \in {"shifted", "unpaid"}
  <2>1. PICK pay :
          /\ \A ps : (\A h \in 1 .. n : ps[h] = bs[h]) /\ SameBlock(ps[n + 1], cs[n + 1])
                       /\ ps[n + 1].pay = pay
                       => Honestly(ps, n + 1, d2, MinRound)
          /\ pay # B!NoPay /\ \E a \in Backers : pay.amounts[a] > 0
          /\ cs[n + 1].pay = B!Faulty(pay, how)
    <3>1. Alike(bs, bs, n) /\ how \in {"none", "shifted", "unpaid"} /\ how # "none"
      BY <1>6 DEF Alike
    <3> QED
      BY <1>1, <3>1, GrowsHonestly
  <2>2. PICK block : block = [author |-> cs[n + 1].author, round |-> cs[n + 1].round,
                              noted |-> cs[n + 1].noted, deposit |-> cs[n + 1].deposit,
                              credited |-> cs[n + 1].credited, pay |-> pay]
    OBVIOUS
  <2>3. PICK ps : ps = [h \in 1 .. n + 1 |-> IF h = n + 1 THEN block ELSE bs[h]]
    OBVIOUS
  <2>4. (\A h \in 1 .. n : ps[h] = bs[h]) /\ ps[n + 1] = block
    BY <2>3
  <2>5. SameBlock(ps[n + 1], cs[n + 1]) /\ ps[n + 1].pay = pay
    BY <2>2, <2>4 DEF SameBlock
  <2>6. Honestly(ps, n + 1, d2, MinRound)
    BY <2>1, <2>4, <2>5
  <2>7. Mends(ps, cs, n + 1, n + 1)
    BY <1>3, <2>2, <2>4 DEF Mends
  <2> QED
    BY <1>6, <2>1, <2>5, <2>6, <2>7 DEF WentWrong, Mispaid
<1> QED
  BY <1>5, <1>6

(* What went wrong does so for good, and nothing else does. *)
LEMMA StaysWrong ==
  ASSUME NEW bs, NEW cs, NEW n \in Nat, NEW d, NEW d2, NEW how, NEW at \in 1 .. n,
         WentWrong(how, at, bs, n, d), Grows("none", MinRound, bs, cs, n, d, d2)
  PROVE  WentWrong(how, at, cs, n + 1, d2)
<1>1. MinRound \in Nat \ {0}
  BY EconomySets
<1>2. PICK os : \/ how = "leak" /\ Leaked(os, bs, n, at)
                \/ how = "misnoted" /\ Misnoted(os, bs, n, at)
                \/ how \in {"shifted", "unpaid"} /\ Mispaid(os, bs, n, at, how, d)
  BY DEF WentWrong
<1>3. PICK ps : ps = [h \in 1 .. n + 1 |-> IF h = n + 1 THEN cs[n + 1] ELSE os[h]]
  OBVIOUS
<1>4. (\A h \in 1 .. n : ps[h] = os[h]) /\ ps[n + 1] = cs[n + 1]
  BY <1>3
<1>5. /\ \A h \in 1 .. n : cs[h] = bs[h]
      /\ cs[n + 1].noted = B!Round(bs, n) /\ cs[n + 1].credited = cs[n + 1].deposit
  BY DEF Grows, GrowsBy
<1>6. Mends(os, bs, n, at) => Mends(ps, cs, n + 1, at)
  BY <1>4, <1>5 DEF Mends
<1>7. Mends(os, bs, n, at) /\ Ordered(os, n, MinRound) => Ordered(ps, n + 1, MinRound)
  <2> SUFFICES ASSUME Mends(os, bs, n, at), Ordered(os, n, MinRound)
               PROVE  Ordered(ps, n + 1, MinRound)
    OBVIOUS
  <2>1. \A h \in 1 .. n : os[h].round = bs[h].round
    BY DEF Mends
  <2> QED
    BY <1>1, <1>4, <1>5, <2>1, GrowsOrdered
<1>8. cs[at] = bs[at] /\ ps[at] = os[at]
  BY <1>4, <1>5
<1>9. CASE how = "leak" /\ Leaked(os, bs, n, at)
  BY <1>6, <1>7, <1>8, <1>9 DEF Leaked, WentWrong
<1>10. CASE how = "misnoted" /\ Misnoted(os, bs, n, at)
  <2>1. B!Round(cs, at) = B!Round(bs, at) /\ B!Round(cs, at - 1) = B!Round(bs, at - 1)
    BY <1>5 DEF B!Round
  <2> QED
    BY <1>6, <1>7, <1>8, <1>10, <2>1 DEF Misnoted, WentWrong
<1>11. CASE how \in {"shifted", "unpaid"} /\ Mispaid(os, bs, n, at, how, d)
  <2>1. Alike(os, bs, n)
    <3> SUFFICES ASSUME NEW h \in 1 .. n PROVE os[h].noted = bs[h].noted
      BY <1>11 DEF Alike, Mispaid, Mends
    <3> QED
      BY <1>11 DEF Mispaid, Mends, SameBlock
  <2>2. SameBlock(ps[n + 1], cs[n + 1]) /\ ps[n + 1].pay = cs[n + 1].pay
    BY <1>4 DEF SameBlock
  <2>3. Honestly(os, n, d, MinRound)
    BY <1>11 DEF Mispaid
  <2>4. Honestly(ps, n + 1, d2, MinRound)
    BY <1>1, <1>4, <2>1, <2>2, <2>3, GrowsHonestly
  <2> QED
    BY <1>6, <1>8, <1>11, <2>4 DEF Mispaid, WentWrong
<1> QED
  BY <1>2, <1>9, <1>10, <1>11

(* A fault is the audited chain's only one, and the rest of the chain is right. *)
FaultInv ==
  fault.how # "none" =>
    /\ tool # "honest" /\ fault.at \in 1 .. B!Len(blocks)
    /\ WentWrong(fault.how, fault.at, blocks, B!Len(blocks), due)

(* What goes wrong leaves the deposits what they are. *)
LEMMA DepositsOfWrong ==
  ASSUME NEW how, NEW at, NEW bs, NEW n \in Nat, NEW d, WentWrong(how, at, bs, n, d)
  PROVE  \A h \in 1 .. n : bs[h].deposit \in Nat
<1>1. PICK cs : Mends(cs, bs, n, at) /\ Ordered(cs, n, MinRound)
  BY DEF WentWrong, Leaked, Misnoted, Mispaid, Honestly
<1> QED
  BY <1>1 DEF Mends, Ordered

(* Every step of a chain keeps it. *)
LEMMA FaultInvStep ==
  ASSUME EconomyInv, HonestInv, FaultInv, UNCHANGED tool,
         \/ tool = "honest" /\ [H!Next]_(H!vars)
         \/ tool # "honest" /\ [B!Next]_(B!vars)
  PROVE  FaultInv'
<1>1. PICK n \in Nat : n = B!Len(blocks)
  BY DEF EconomyInv
<1>2. CASE UNCHANGED <<blocks, due, fault>>
  BY <1>2 DEF FaultInv
<1>3. CASE tool = "honest" /\ UNCHANGED fault
  BY <1>3 DEF FaultInv
<1>4. ASSUME tool # "honest", B!GoodBlock PROVE FaultInv'
  <2>1. UNCHANGED fault /\ Adds("none", MinRound)
    BY <1>4, Produced DEF B!GoodBlock
  <2>2. SUFFICES ASSUME fault.how # "none"
                 PROVE  /\ fault.at \in 1 .. B!Len(blocks')
                        /\ WentWrong(fault.how, fault.at, blocks', B!Len(blocks'), due')
    BY <1>4, <2>1 DEF FaultInv
  <2>3. fault.at \in 1 .. n /\ WentWrong(fault.how, fault.at, blocks, n, due)
    BY <1>1, <2>2 DEF FaultInv
  <2>4. \A h \in 1 .. n : blocks[h].deposit \in Nat
    BY <2>3, DepositsOfWrong
  <2>5. Grows("none", MinRound, blocks, blocks', n, due, due') /\ B!Len(blocks') = n + 1
    BY <1>1, <2>1, <2>4, Grown
  <2>6. WentWrong(fault.how, fault.at, blocks', n + 1, due')
    BY <2>3, <2>5, StaysWrong
  <2> QED
    BY <2>3, <2>5, <2>6
<1>5. ASSUME tool # "honest", NEW how \in {"shifted", "unpaid", "misnoted", "leak"}, B!BadBlock(how)
      PROVE  FaultInv'
  <2>1. /\ fault.how = "none" /\ Adds(how, MinRound)
        /\ fault' = [how |-> how, at |-> B!Len(blocks')]
    BY <1>5, Produced DEF B!BadBlock
  <2>2. Honestly(blocks, n, due, MinRound)
    BY <1>1, <1>5, <2>1 DEF HonestInv, Longest
  <2>3. \A h \in 1 .. n : blocks[h].deposit \in Nat
    BY <2>2 DEF Honestly, Ordered
  <2>4. Grows(how, MinRound, blocks, blocks', n, due, due') /\ B!Len(blocks') = n + 1
    BY <1>1, <2>1, <2>3, Grown
  <2>5. WentWrong(how, n + 1, blocks', n + 1, due')
    BY <2>2, <2>4, Breaks
  <2> QED
    BY <1>5, <2>1, <2>4, <2>5 DEF FaultInv
<1>6. tool = "honest" /\ H!GoodBlock => UNCHANGED fault
  BY DEF H!GoodBlock
<1>7. \A how \in {"none"} \ {"none"} : ~H!BadBlock(how)
  OBVIOUS
<1>8. CASE tool = "honest" /\ [H!Next]_(H!vars)
  BY <1>2, <1>3, <1>6, <1>7, <1>8 DEF H!Next, H!Full, H!vars
<1>9. CASE tool # "honest" /\ [B!Next]_(B!vars)
  BY <1>2, <1>4, <1>5, <1>9 DEF B!Next, B!Full, B!vars
<1> QED
  BY <1>8, <1>9

(* A chain that differs from one in order in payouts only is in order. *)
LEMMA OrderedAlike ==
  ASSUME NEW bs, NEW cs, NEW n \in Nat, NEW longest, Ordered(cs, n, longest),
         \A h \in 1 .. n : SameBlock(cs[h], bs[h])
  PROVE  Ordered(bs, n, longest) /\ Alike(bs, cs, n)
<1>1. \A h \in 1 .. n : bs[h].round = cs[h].round
  BY DEF SameBlock
<1>2. \A h \in 0 .. n : B!Round(bs, h) = B!Round(cs, h) /\ B!First(bs, h) = B!First(cs, h)
  BY <1>1, FirstAlike
<1>3. \A h \in 1 .. n : h \in 0 .. n /\ h - 1 \in 0 .. n
  OBVIOUS
<1>4. \A h \in 1 .. n : /\ bs[h].author \in Authors /\ bs[h].noted = B!Round(bs, h - 1)
                        /\ bs[h].deposit \in Nat /\ bs[h].credited = bs[h].deposit
                        /\ B!Round(bs, h) \in {B!Round(bs, h - 1), B!Round(bs, h - 1) + 1}
  BY <1>2, <1>3 DEF Ordered, SameBlock
<1>5. /\ \A h \in 0 .. n : B!Round(bs, h) \in Nat /\ h + 1 - B!First(bs, h) <= longest
      /\ \A g, h \in 0 .. n : g <= h => B!Round(bs, g) <= B!Round(bs, h)
      /\ \A h \in 1 .. n : B!Round(bs, h) # B!Round(bs, h - 1)
                             => h - B!First(bs, h - 1) >= MinRound
  BY <1>2, <1>3 DEF Ordered
<1>6. Alike(bs, cs, n)
  BY DEF Alike, SameBlock
<1> QED
  BY <1>4, <1>5, <1>6 DEF Ordered

(* The sessions that are settled: the faulty block's, with the blocks it is between. *)
LEMMA SettledSession ==
  ASSUME NEW cs, NEW n \in Nat, n = B!Len(blocks), Ordered(cs, n, MinRound),
         \A h \in 1 .. n : cs[h].round = blocks[h].round,
         NEW s \in B!Sessions, NEW at \in 1 .. n, s.idx = B!Round(blocks, at)
  PROVE  \E e \in 1 .. n :
           /\ at < e /\ B!First(blocks, e) = e
           /\ B!Round(cs, e) = B!Round(cs, at) + 1
           /\ s = [first |-> B!First(blocks, e - 1), length |-> e - B!First(blocks, e - 1),
                   idx |-> B!Round(blocks, e - 1)]
           /\ B!Round(cs, e - 1) = B!Round(cs, at)
           /\ B!First(cs, at) = B!First(blocks, e - 1)
           /\ B!First(cs, at) > 0
<1>1. PICK e \in 1 .. n :
        /\ B!First(blocks, e) = e /\ B!First(blocks, e - 1) > 0
        /\ s = [first |-> B!First(blocks, e - 1), length |-> e - B!First(blocks, e - 1),
                idx |-> B!Round(blocks, e - 1)]
  BY SessionIs
<1>2. PICK p \in 0 .. n : p = e - 1
  OBVIOUS
<1>3. e \in 0 .. n /\ at \in 0 .. n
  OBVIOUS
<1>4. \A h \in 0 .. n : B!Round(blocks, h) = B!Round(cs, h) /\ B!First(blocks, h) = B!First(cs, h)
  BY FirstAlike
<1>5. /\ \A h \in 0 .. n : B!Round(cs, h) \in Nat
      /\ \A g, h \in 0 .. n : g <= h => B!Round(cs, g) <= B!Round(cs, h)
      /\ B!Round(cs, e) \in {B!Round(cs, p), B!Round(cs, p) + 1}
  BY <1>2 DEF Ordered
<1>6. B!Round(cs, p) = B!Round(cs, at)
  BY <1>1, <1>2, <1>3, <1>4
<1>7. B!Round(cs, e) # B!Round(cs, p)
  <2>1. p \in 0 .. e /\ p < e
    BY <1>2
  <2>2. \A g \in 0 .. e : B!Round(cs, g) = B!Round(cs, e) => B!First(cs, e) <= g
    BY <1>3, FirstIs
  <2> QED
    BY <1>1, <1>3, <1>4, <2>1, <2>2
<1>8. at < e
  BY <1>3, <1>5, <1>6, <1>7
<1>9. B!First(cs, at) = B!First(cs, p)
  <2>1. PICK f : f = B!First(cs, p)
    OBVIOUS
  <2>2. /\ f \in 0 .. p /\ B!Round(cs, f) = B!Round(cs, p)
        /\ \A g \in 0 .. p : B!Round(cs, g) = B!Round(cs, p) => f <= g
    BY <1>2, <2>1, FirstIs
  <2>3. at \in 0 .. p
    BY <1>2, <1>8
  <2>4. f <= at /\ f \in 0 .. at
    BY <1>6, <2>2, <2>3
  <2>5. \A g \in 0 .. at : B!Round(cs, g) = B!Round(cs, at) => f <= g
    BY <1>6, <2>2, <2>3
  <2> QED
    BY <1>6, <2>1, <2>2, <2>4, <2>5, FirstUnique
<1>10. B!Round(cs, e) = B!Round(cs, at) + 1
  BY <1>5, <1>6, <1>7
<1> QED
  BY <1>1, <1>2, <1>4, <1>6, <1>8, <1>9, <1>10

(* A payout to collator c and its delegators, and what a fault makes of its amounts. *)
Pays(pay, c, amounts, over) ==
  /\ pay = [of |-> c, amounts |-> amounts, over |-> over]
  /\ amounts = [a \in {c} \cup Backers |-> amounts[a]]

Robs(how, c, amounts, robbed, kept) ==
  /\ amounts[robbed] > 0
  /\ how = "shifted" => DOMAIN kept = {c} \cup Backers /\ kept[robbed] = 0
  /\ how = "unpaid" => /\ DOMAIN kept = ({c} \cup Backers) \ {robbed}
                       /\ \A a \in DOMAIN kept : kept[a] = amounts[a]

(* A payout that robs a delegator. *)
LEMMA WrongPayout ==
  ASSUME NEW c \in Authors, NEW amounts, NEW over, NEW pay, Pays(pay, c, amounts, over),
         \E a \in Backers : amounts[a] > 0, NEW how \in {"shifted", "unpaid"}
  PROVE  \E robbed \in Backers : \E kept :
           /\ Robs(how, c, amounts, robbed, kept)
           /\ B!Faulty(pay, how) = [of |-> c, amounts |-> kept, over |-> over]
<1>1. PICK robbed : robbed = CHOOSE d \in Backers : amounts[d] > 0
  OBVIOUS
<1> USE DEF Pays, Robs
<1>2. robbed \in Backers /\ amounts[robbed] > 0
  BY <1>1
<1>3. robbed # c
  BY <1>2, EconomySets
<1>4. pay.of = c /\ pay.amounts = amounts /\ pay.over = over
  OBVIOUS
<1>5. robbed = CHOOSE d \in Backers : pay.amounts[d] > 0
  BY <1>1, <1>4
<1>6. CASE how = "shifted"
  <2>1. PICK gain : gain = amounts[c] + amounts[robbed]
    OBVIOUS
  <2>2. PICK poor : poor = [amounts EXCEPT ![robbed] = 0]
    OBVIOUS
  <2>3. PICK kept : kept = [poor EXCEPT ![c] = poor[c] + amounts[robbed]]
    OBVIOUS
  <2>4. DOMAIN kept = {c} \cup Backers /\ kept[robbed] = 0
    BY <1>2, <1>3, <2>2, <2>3
  <2>5. B!Faulty(pay, how) = [pay EXCEPT !.amounts[robbed] = 0,
                                         !.amounts[pay.of] = @ + pay.amounts[robbed]]
    BY <1>5, <1>6 DEF B!Faulty
  <2>6. B!Faulty(pay, how) = [pay EXCEPT !.amounts = kept]
    BY <1>2, <1>3, <1>4, <2>2, <2>3, <2>5
  <2>7. [pay EXCEPT !.amounts = kept] = [of |-> c, amounts |-> kept, over |-> over]
    OBVIOUS
  <2> QED
    BY <1>2, <1>6, <2>4, <2>6, <2>7
<1>7. CASE how = "unpaid"
  <2>1. PICK kept : kept = [a \in ({c} \cup Backers) \ {robbed} |-> amounts[a]]
    OBVIOUS
  <2>2. DOMAIN amounts = {c} \cup Backers
    OBVIOUS
  <2>3. B!Faulty(pay, how)
          = [pay EXCEPT !.amounts = [a \in DOMAIN pay.amounts \ {robbed} |-> pay.amounts[a]]]
    BY <1>5, <1>7 DEF B!Faulty
  <2>4. [a \in DOMAIN pay.amounts \ {robbed} |-> pay.amounts[a]] = kept
    BY <1>4, <2>1, <2>2
  <2>5. B!Faulty(pay, how) = [pay EXCEPT !.amounts = kept]
    BY <2>3, <2>4
  <2>6. [pay EXCEPT !.amounts = kept] = [of |-> c, amounts |-> kept, over |-> over]
    OBVIOUS
  <2>7. DOMAIN kept = ({c} \cup Backers) \ {robbed} /\ \A a \in DOMAIN kept : kept[a] = amounts[a]
    BY <2>1
  <2> QED
    BY <1>2, <1>7, <2>5, <2>6, <2>7
<1> QED
  BY <1>6, <1>7

(* The session that begins with block e is that of block at, and ends before block next. *)
SessionOf(bs, at, e, next) ==
  /\ B!First(bs, at) = e
  /\ B!First(bs, next) = next /\ B!First(bs, next - 1) = e /\ at < next

(* One payout of a set is replaced. *)
Replaced(info, all, pay, wrong) == info = (all \ {pay}) \cup {wrong}

(* The check collects a wrong payout in the place of the right one: that one is owed, all
   others are paid as they are in the mended chain, and none of them twice. *)
LEMMA WrongIsCollected ==
  ASSUME NEW bs, NEW cs, NEW n \in Nat, NEW d, Honestly(cs, n, d, MinRound), NEW at \in 1 .. n,
         \A h \in 1 .. n : h # at => bs[h].pay = cs[h].pay,
         cs[at].pay # B!NoPay, bs[at].pay # B!NoPay,
         NEW e \in 1 .. n, NEW next \in 1 .. n, SessionOf(cs, at, e, next),
         NEW length, length = e - B!First(cs, e - 1),
         Collected(cs, n, e, length) = Payouts(cs, e)
  PROVE  /\ cs[at].pay \in Payouts(cs, e)
         /\ cs[at].pay.of \in Authors /\ cs[at].pay = PayOf(cs, e, cs[at].pay.of)
         /\ Replaced(Collected(bs, n, e, length), Payouts(cs, e), cs[at].pay, bs[at].pay)
<1> DEFINE paid == {h \in e .. e + length - 1 : \A g \in e .. h : g <= n /\ cs[g].pay # B!NoPay}
           paidB == {h \in e .. e + length - 1 : \A g \in e .. h : g <= n /\ bs[g].pay # B!NoPay}
<1> USE DEF SessionOf
<1>1. Ordered(cs, n, MinRound) /\ \A h \in 1 .. n : PayRight(cs, h)
  BY DEF Honestly
<1>2. MinRound \in Nat \ {0}
  BY EconomySets
<1>3. PICK f \in 0 .. e - 1 : f = B!First(cs, e - 1)
  BY e - 1 \in Nat, FirstIs
<1>4. length \in Int /\ length = e - f /\ length <= MinRound
  <2>1. PICK p \in 0 .. n : p = e - 1
    OBVIOUS
  <2>2. p + 1 - B!First(cs, p) <= MinRound
    BY <1>1, <2>1 DEF Ordered
  <2> QED
    BY <1>2, <1>3, <2>1, <2>2
<1>5. next - e >= MinRound /\ \A g \in e .. next - 1 : B!First(cs, g) = e
  <2>1. PICK p \in 0 .. n : p = next - 1
    OBVIOUS
  <2>2. /\ e \in 0 .. p /\ B!Round(cs, e) = B!Round(cs, p)
        /\ \A g \in 0 .. p : B!Round(cs, g) = B!Round(cs, p) => e <= g
    BY <2>1, FirstIs
  <2>3. /\ \A g, h \in 0 .. n : g <= h => B!Round(cs, g) <= B!Round(cs, h)
        /\ \A h \in 0 .. n : B!Round(cs, h) \in Nat
    BY <1>1 DEF Ordered
  <2>4. ASSUME NEW g \in e .. p PROVE B!First(cs, g) = e
    <3>1. g \in 0 .. n /\ e \in 0 .. n /\ p \in 0 .. n
      OBVIOUS
    <3>2. B!Round(cs, g) = B!Round(cs, p)
      <4>1. B!Round(cs, e) <= B!Round(cs, g) /\ B!Round(cs, g) <= B!Round(cs, p)
        BY <2>3, <3>1
      <4> QED
        BY <2>2, <2>3, <3>1, <4>1
    <3>3. e \in 0 .. g /\ \A k \in 0 .. g : B!Round(cs, k) = B!Round(cs, g) => e <= k
      BY <2>2, <3>2
    <3> QED
      BY <2>2, <3>1, <3>2, <3>3, FirstUnique
  <2>5. B!Round(cs, next) # B!Round(cs, p)
    <3>1. \A g \in 0 .. next : B!Round(cs, g) = B!Round(cs, next) => next <= g
      BY FirstIs
    <3>2. p \in 0 .. next /\ p < next
      BY <2>1
    <3> QED
      BY <3>1, <3>2
  <2>6. next - B!First(cs, p) >= MinRound
    BY <1>1, <2>1, <2>5 DEF Ordered
  <2> QED
    BY <2>1, <2>4, <2>6
<1>6. PICK c : c = cs[at].pay.of
  OBVIOUS
<1>7. /\ c \in Owed(cs, e) /\ cs[at].pay = PayOf(cs, e, c)
      /\ \A g \in e .. at - 1 : ~PaidAt(cs, g, c)
  BY <1>1, <1>6 DEF PayRight
<1>8. cs[at].pay \in Payouts(cs, e) /\ c \in Authors
  BY <1>7 DEF Payouts, Owed
<1>9. paidB = paid
  <2>1. \A g \in 1 .. n : bs[g].pay # B!NoPay <=> cs[g].pay # B!NoPay
    OBVIOUS
  <2>2. ASSUME NEW h \in e .. e + length - 1
        PROVE  (\A g \in e .. h : g <= n /\ bs[g].pay # B!NoPay)
                 <=> (\A g \in e .. h : g <= n /\ cs[g].pay # B!NoPay)
    <3>1. \A g \in e .. h : g <= n => g \in 1 .. n
      BY <1>4
    <3> QED
      BY <2>1, <3>1
  <2> QED
    BY <2>2
<1>10. /\ Collected(cs, n, e, length) = {cs[h].pay : h \in paid}
       /\ Collected(bs, n, e, length) = {bs[h].pay : h \in paid}
  <2>1. Collected(bs, n, e, length) = {bs[h].pay : h \in paidB}
    BY DEF Collected
  <2> HIDE DEF paidB
  <2> QED
    BY <1>9, <2>1 DEF Collected
<1>11. \A h \in paid : /\ h \in e .. e + length - 1 /\ h \in 1 .. n /\ h >= e
                       /\ \A g \in e .. h : g \in paid
                       /\ cs[h].pay # B!NoPay
  <2> SUFFICES ASSUME NEW h \in paid
               PROVE  /\ h \in 1 .. n /\ \A g \in e .. h : g \in paid
                      /\ cs[h].pay # B!NoPay
    BY <1>4
  <2>1. h \in e .. h
    BY <1>4
  <2>2. \A g \in e .. h : g \in e .. e + length - 1
    BY <1>4
  <2> QED
    BY <1>4, <2>1, <2>2
<1> HIDE DEF paid, paidB
<1>12. at >= e
  <2>1. B!First(cs, at) \in 0 .. at
    BY FirstIs
  <2> QED
    BY <2>1
<1>13. at \in paid
  <2>1. PICK h \in paid : cs[h].pay = cs[at].pay
    BY <1>8, <1>10
  <2>2. h \in 1 .. n /\ h >= e
    BY <1>11
  <2>3. ~(h < at)
    <3> SUFFICES ASSUME h < at PROVE FALSE
      OBVIOUS
    <3>1. PaidAt(cs, h, c)
      BY <1>6, <2>1 DEF PaidAt
    <3> QED
      BY <1>7, <2>2, <3>1
  <2> QED
    BY <1>11, <1>12, <2>2, <2>3
<1>14. ASSUME NEW g \in paid, g # at PROVE cs[g].pay # cs[at].pay
  <2> SUFFICES ASSUME cs[g].pay = cs[at].pay PROVE FALSE
    OBVIOUS
  <2>1. g \in 1 .. n /\ g >= e /\ g \in e .. e + length - 1
    BY <1>11
  <2>2. PaidAt(cs, g, c) /\ PaidAt(cs, at, c) /\ cs[g].pay.of = c
    BY <1>6 DEF PaidAt
  <2>3. CASE g < at
    BY <1>7, <2>1, <2>2, <2>3
  <2>4. CASE g > at
    <3>1. g \in e .. next - 1
      BY <1>2, <1>4, <1>5, <2>1
    <3>2. B!First(cs, g) = e
      BY <1>5, <3>1
    <3>3. \A k \in e .. g - 1 : ~PaidAt(cs, k, c)
      BY <1>1, <2>1, <2>2, <3>2 DEF PayRight
    <3>4. at \in e .. g - 1
      BY <1>12, <2>1, <2>4
    <3> QED
      BY <2>2, <3>3, <3>4
  <2> QED
    BY <1>14, <2>1, <2>3, <2>4
<1>15. \A h \in paid : h # at => bs[h].pay = cs[h].pay
  BY <1>11
<1>16. {bs[h].pay : h \in paid} = ({cs[h].pay : h \in paid} \ {cs[at].pay}) \cup {bs[at].pay}
  BY <1>13, <1>14, <1>15
<1> QED
  BY <1>6, <1>7, <1>8, <1>10, <1>16 DEF Replaced

(* A collator with a delegator that gets something weighs more than nothing. *)
LEMMA SomethingIsWeighed ==
  ASSUME NEW count, \A x \in Authors : count[x] \in Nat, NEW c \in Authors, NEW total \in Nat,
         NEW robbed \in Backers, B!Reward(count, c, total)[robbed] > 0
  PROVE  B!StakingNum(count) \in Nat /\ B!StakingNum(count) > 0
<1>1. PICK k \in Nat, v \in Nat, w \in Nat, m \in Nat, u \in Nat :
        /\ k = count[c] /\ v = AtStake[c].stake /\ w = B!Delegated(c)
        /\ m = AtStake[c].commission /\ u = Unit
  <2>1. AtStake[c].commission \in Nat /\ Unit \in Nat
    BY WeightsTyped, EconomySets
  <2> QED
    BY <2>1, WeightsTyped, DelegatedIsSum
<1>2. PICK delegated : delegated = AtStake[c].delegated
  OBVIOUS
<1>3. \A a \in Backers : delegated[a] \in Nat
  BY <1>2, WeightsTyped
<1>4. PICK x \in Nat : x = delegated[robbed]
  BY <1>3
<1>5. x * (k * (u - m) * total) > 0
  <2>1. B!Reward(count, c, total)[robbed]
          = AtStake[c].delegated[robbed] * (count[c] * (Unit - AtStake[c].commission) * total)
    BY RewardIs
  <2> QED
    BY <1>1, <1>2, <1>4, <2>1
<1>6. x > 0 /\ k > 0
  <2>1. CASE x = 0
    BY <1>5, <2>1
  <2>2. CASE k = 0
    <3>1. x * (0 * (u - m) * total) = 0
      BY Z3
    <3> QED
      BY <1>5, <2>2, <3>1
  <2> QED
    BY <2>1, <2>2
<1>7. w > 0
  <2>1. SumOver(delegated, Backers) = delegated[robbed] + SumOver(delegated, Backers \ {robbed})
    BY <1>3, EconomySets, SumRemove
  <2>2. SumOver(delegated, Backers \ {robbed}) \in Nat
    <3>1. IsFiniteSet(Backers \ {robbed})
      BY EconomySets, FS_Subset
    <3> QED
      BY <1>3, <3>1, SumTyped, Nat \in {Nat, Int}
  <2> QED
    BY <1>1, <1>2, <1>4, <1>6, <2>1, <2>2, DelegatedIsSum
<1>8. PICK own \in Nat : own = Weights(count)[c] /\ own = k * (v + w)
  BY <1>1, WeightsTyped
<1>9. own > 0
  <2>1. PICK y \in Nat : y = v + w /\ y > 0
    BY <1>7
  <2>2. k * y > 0
    BY <1>6, <2>1, Z3
  <2> QED
    BY <1>8, <2>1, <2>2
<1>10. \A x2 \in Authors : Weights(count)[x2] \in Nat
  BY WeightsTyped
<1>11. SumOver(Weights(count), Authors) = own + SumOver(Weights(count), Authors \ {c})
  <2>1. IsFiniteSet(Authors) /\ \A z \in Authors : Weights(count)[z] \in Int
    BY <1>10, EconomySets
  <2>2. SumOver(Weights(count), Authors)
          = Weights(count)[c] + SumOver(Weights(count), Authors \ {c})
    BY <2>1, SumRemove
  <2> QED
    BY <1>8, <2>2
<1>12. SumOver(Weights(count), Authors \ {c}) \in Nat
  <2>1. IsFiniteSet(Authors \ {c})
    BY EconomySets, FS_Subset
  <2> QED
    BY <1>10, <2>1, SumTyped, Nat \in {Nat, Int}
<1>13. B!StakingNum(count) = SumOver(Weights(count), Authors)
  BY StakingNumIsSum
<1>14. PICK others \in Nat : others = SumOver(Weights(count), Authors \ {c})
  BY <1>12
<1>15. B!StakingNum(count) = own + others
  BY <1>11, <1>13, <1>14
<1> QED
  BY <1>9, <1>15

(* An amount that is gone is not what the check computes. *)
LEMMA ShiftedAmountFails ==
  ASSUME NEW count, \A x \in Authors : count[x] \in Nat, NEW c \in Authors, NEW total \in Nat,
         NEW robbed \in Backers, B!Reward(count, c, total)[robbed] > 0,
         NEW over, over = Unit * B!StakingNum(count)
  PROVE  0 * Unit * B!StakingNum(count) # B!Reward(count, c, total)[robbed] * over
<1>1. PICK num \in Nat : num = B!StakingNum(count) /\ num > 0
  BY SomethingIsWeighed
<1>2. PICK u \in Nat : u = Unit /\ u > 0
  BY EconomySets
<1>3. PICK r \in Int : r = B!Reward(count, c, total)[robbed] /\ r > 0
  <2>1. robbed \in {c} \cup Backers
    OBVIOUS
  <2>2. \A a \in {c} \cup Backers : B!Reward(count, c, total)[a] \in Int
    BY RewardIs
  <2> QED
    BY <2>1, <2>2
<1>4. u * num > 0
  BY <1>1, <1>2, Z3
<1>5. PICK o \in Int : o = u * num /\ o > 0
  BY <1>4
<1>6. r * o > 0
  BY <1>3, <1>5, Z3
<1>7. 0 * u * num = 0
  BY Z3
<1> QED
  BY <1>1, <1>2, <1>3, <1>5, <1>6, <1>7

(* Payouts that leave out an amount do not add up to the rewards. *)
LEMMA MissingAmountFails ==
  ASSUME NEW bs, NEW e, \A x \in Authors : Counted(bs, e)[x] \in Nat,
         NEW total \in Nat, total = B!Rewards(bs, B!First(bs, e - 1), e),
         NEW c \in Owed(bs, e), NEW pay, pay = PayOf(bs, e, c),
         NEW robbed \in Backers, NEW kept, Robs("unpaid", c, pay.amounts, robbed, kept),
         NEW wrong, wrong = [of |-> c, amounts |-> kept, over |-> pay.over],
         NEW info, Replaced(info, Payouts(bs, e), pay, wrong)
  PROVE  ~B!PaidInFull(info, total)
<1> USE DEF Robs, Replaced
<1>1. PICK count : count = Counted(bs, e)
  OBVIOUS
<1>2. PICK all : all = Payouts(bs, e)
  OBVIOUS
<1>3. \A x : PayOf(bs, e, x) = [of |-> x, amounts |-> B!Reward(count, x, total),
                                over |-> Unit * B!StakingNum(count)]
  BY <1>1 DEF PayOf, Counted
<1>4. ASSUME NEW p \in all
      PROVE  /\ p.over = pay.over /\ robbed \in DOMAIN p.amounts /\ B!Total(p) \in Int
  <2>1. PICK x \in Owed(bs, e) : p = PayOf(bs, e, x)
    BY <1>2 DEF Payouts
  <2>2. x \in Authors /\ count[x] \in Nat
    BY <1>1 DEF Owed
  <2>3. p.amounts = B!Reward(count, x, total) /\ p.over = pay.over
    BY <1>3, <2>1
  <2>4. robbed \in DOMAIN p.amounts
    <3>1. DOMAIN B!Reward(count, x, total) = {x} \cup Backers
      BY <2>2, RewardIs
    <3> QED
      BY <2>3, <3>1
  <2>5. B!Total(p) = Weights(count)[x] * (Unit * total)
    BY <2>2, <2>3, AmountsAddUp
  <2>6. PICK y \in Nat, u \in Nat : y = Weights(count)[x] /\ u = Unit
    BY <2>2, WeightsTyped, EconomySets
  <2>7. y * (u * total) \in Int
    OBVIOUS
  <2> QED
    BY <2>3, <2>4, <2>5, <2>6, <2>7
<1>5. pay \in all /\ wrong \notin all /\ wrong.over = pay.over
  <2>1. pay \in all
    BY <1>2 DEF Payouts
  <2>2. wrong.over = pay.over /\ robbed \notin DOMAIN wrong.amounts
    OBVIOUS
  <2> QED
    BY <1>4, <2>1, <2>2
<1>6. IsFiniteSet(all)
  <2>1. PICK name : name = [x \in Owed(bs, e) |-> PayOf(bs, e, x)]
    OBVIOUS
  <2>2. IsFiniteSet(Owed(bs, e))
    <3>1. Owed(bs, e) \subseteq Authors
      BY DEF Owed
    <3> QED
      BY <3>1, EconomySets, FS_Subset
  <2>3. all = Named(name, Owed(bs, e))
    BY <1>2, <2>1 DEF Payouts, Named
  <2> QED
    BY <2>2, <2>3, NamesCounted
<1>7. PICK rest : rest = all \ {pay}
  OBVIOUS
<1>8. IsFiniteSet(rest) /\ wrong \notin rest /\ info = rest \cup {wrong}
  BY <1>2, <1>5, <1>6, <1>7, FS_Subset
<1>9. IsFiniteSet(info) /\ info \ {wrong} = rest
  BY <1>8, FS_AddElement
<1>10. PICK reward : reward = B!Reward(count, c, total)
  OBVIOUS
<1>11. /\ pay.amounts = reward /\ DOMAIN reward = {c} \cup Backers
       /\ \A a \in {c} \cup Backers : reward[a] \in Int
  <2>1. c \in Authors /\ count[c] \in Nat
    BY <1>1 DEF Owed
  <2>2. pay.amounts = reward
    BY <1>3, <1>10
  <2>3. /\ DOMAIN B!Reward(count, c, total) = {c} \cup Backers
        /\ \A a \in {c} \cup Backers : B!Reward(count, c, total)[a] \in Int
    BY <2>1, RewardIs
  <2> QED
    BY <1>10, <2>2, <2>3
<1>12. IsFiniteSet({c} \cup Backers) /\ IsFiniteSet(({c} \cup Backers) \ {robbed})
  <2>1. PICK whole : whole = {c} \cup Backers
    OBVIOUS
  <2>2. IsFiniteSet(Backers)
    BY EconomySets
  <2>3. IsFiniteSet(whole)
    BY <2>1, <2>2, FS_AddElement
  <2>4. IsFiniteSet(whole \ {robbed})
    BY <2>3, FS_Subset
  <2> QED
    BY <2>1, <2>3, <2>4
<1>13. PICK left \in Int : left = B!Total(wrong) /\ B!Total(pay) = reward[robbed] + left
  <2>1. B!Total(pay) = SumOver(reward, {c} \cup Backers)
    BY <1>11, TotalIsSum
  <2>2. B!Total(wrong) = SumOver(kept, ({c} \cup Backers) \ {robbed})
    BY TotalIsSum
  <2>3. robbed \in {c} \cup Backers
    OBVIOUS
  <2>4. SumOver(reward, {c} \cup Backers)
          = reward[robbed] + SumOver(reward, ({c} \cup Backers) \ {robbed})
    BY <1>11, <1>12, <2>3, SumRemove
  <2>5. SumOver(kept, ({c} \cup Backers) \ {robbed}) = SumOver(reward, ({c} \cup Backers) \ {robbed})
    BY <1>11, <1>12, SumSame
  <2>6. SumOver(reward, ({c} \cup Backers) \ {robbed}) \in Int
    BY <1>11, <1>12, SumTyped, Int \in {Nat, Int}
  <2> QED
    BY <2>1, <2>2, <2>4, <2>5, <2>6
<1> DEFINE totals == [q \in all |-> B!Total(q)]
           totals2 == [q \in info |-> B!Total(q)]
<1>14. PICK others \in Int : /\ others = SumOver(totals, rest)
                             /\ SumOver(totals, all) = totals[pay] + others
  <2> HIDE DEF totals
  <2>1. \A q \in all : totals[q] \in Int
    BY <1>4 DEF totals
  <2>2. SumOver(totals, all) = totals[pay] + SumOver(totals, all \ {pay})
    BY <1>5, <1>6, <2>1, SumRemove
  <2>3. SumOver(totals, rest) \in Int
    BY <1>7, <1>8, <2>1, SumTyped, Int \in {Nat, Int}
  <2> QED
    BY <1>7, <2>2, <2>3
<1>15. SumOver(totals2, info) = totals2[wrong] + others
  <2>1. \A q \in rest : totals2[q] = totals[q] /\ q \in all
    BY <1>7, <1>8
  <2>2. \A q \in info : totals2[q] \in Int
    BY <1>4, <1>7, <1>8, <1>13
  <2> HIDE DEF totals, totals2
  <2>3. SumOver(totals2, info) = totals2[wrong] + SumOver(totals2, info \ {wrong})
    BY <1>8, <1>9, <2>2, SumRemove
  <2>4. SumOver(totals2, rest) = SumOver(totals, rest)
    BY <1>8, <2>1, SumSame
  <2> QED
    BY <1>9, <1>14, <2>3, <2>4
<1>16. totals[pay] = B!Total(pay) /\ totals2[wrong] = left
  BY <1>5, <1>8, <1>13
<1>17. SumOver(totals, all) = total * pay.over
  <2>1. B!PaidInFull(all, total)
    BY <1>2, PayoutsPass
  <2> QED
    BY <1>5, <1>6, <2>1, PaidInFullIsSum
<1>18. B!PaidInFull(info, total) => SumOver(totals2, info) = total * wrong.over
  BY <1>8, <1>9, PaidInFullIsSum
<1> HIDE DEF totals, totals2
<1>19. reward[robbed] > 0 /\ reward[robbed] \in Int
  BY <1>11
<1> QED
  BY <1>5, <1>13, <1>14, <1>15, <1>16, <1>17, <1>18, <1>19

(* The first block of a session that is noted for it is counted twice over: for its own
   session as well as, by the tool, for the one before. *)
LEMMA MisnotedFails ==
  ASSUME NEW cs, NEW n \in Nat, n = B!Len(blocks), NEW at \in 1 .. n,
         Misnoted(cs, blocks, n, at), NEW s \in B!Sessions, s.idx = B!Round(blocks, at)
  PROVE  ~B!DistributionOK(s)
<1>1. /\ Ordered(cs, n, MinRound) /\ blocks[at].noted = blocks[at].round
      /\ B!Round(blocks, at) # B!Round(blocks, at - 1)
      /\ \A h \in 1 .. n : /\ cs[h].round = blocks[h].round /\ cs[h].author = blocks[h].author
                           /\ h # at => cs[h] = blocks[h]
  BY DEF Misnoted, Mends
<1>2. PICK e \in 1 .. n :
        /\ at < e
        /\ s = [first |-> B!First(blocks, e - 1), length |-> e - B!First(blocks, e - 1),
                idx |-> B!Round(blocks, e - 1)]
        /\ B!Round(cs, e - 1) = B!Round(cs, at)
        /\ B!First(cs, at) = B!First(blocks, e - 1)
  BY <1>1, SettledSession
<1>3. \A h \in 0 .. n : B!Round(blocks, h) = B!Round(cs, h)
  BY <1>1, FirstAlike
<1>4. PICK p \in 0 .. n : p = at - 1
  OBVIOUS
<1>5. PICK l \in 0 .. n : l = e - 1
  OBVIOUS
<1>6. /\ \A h \in 0 .. n : B!Round(cs, h) \in Nat
      /\ \A g, h \in 0 .. n : g <= h => B!Round(cs, g) <= B!Round(cs, h)
      /\ \A h \in 1 .. n : cs[h].noted = B!Round(cs, h - 1) /\ cs[h].author \in Authors
  BY <1>1 DEF Ordered
<1>7. PICK r \in Nat : r = B!Round(cs, at) /\ r = B!Round(cs, l) /\ r = s.idx /\ B!Round(cs, p) < r
  <2>1. at \in 0 .. n /\ p <= at
    BY <1>4
  <2>2. B!Round(cs, p) # B!Round(cs, at)
    BY <1>1, <1>3, <1>4, <2>1
  <2>3. B!Round(cs, at) \in Nat /\ B!Round(cs, p) \in Nat /\ B!Round(cs, p) <= B!Round(cs, at)
    BY <1>6, <2>1
  <2> QED
    BY <1>2, <1>3, <1>5, <2>1, <2>2, <2>3
<1>8. B!First(cs, at) = at
  <2>1. ASSUME NEW g \in 0 .. at, B!Round(cs, g) = B!Round(cs, at), ~(at <= g) PROVE FALSE
    <3>1. g \in 0 .. n /\ g <= p
      BY <1>4, <2>1
    <3>2. B!Round(cs, g) <= B!Round(cs, p) /\ B!Round(cs, g) \in Nat /\ B!Round(cs, p) \in Nat
      BY <1>6, <3>1
    <3>3. B!Round(cs, g) = r /\ B!Round(cs, p) < r
      BY <1>7, <2>1
    <3> QED
      BY <3>2, <3>3
  <2>2. at \in 0 .. at /\ at \in Nat
    OBVIOUS
  <2> QED
    BY <2>1, <2>2, FirstUnique
<1>9. s.first = at /\ s.length = e - at /\ s.first + s.length = e
  BY <1>2, <1>8
<1>10. ASSUME NEW i \in 1 .. e PROVE blocks[i].noted = r <=> i \in at .. e
  <2>1. CASE i = at
    <3>1. blocks[at].round = B!Round(blocks, at)
      BY DEF B!Round
    <3> QED
      BY <1>1, <1>3, <1>7, <2>1, <3>1
  <2>2. CASE i # at
    <3>1. PICK j \in 0 .. n : j = i - 1
      OBVIOUS
    <3>2. blocks[i].noted = B!Round(cs, j)
      <4>1. i \in 1 .. n
        OBVIOUS
      <4>2. cs[i] = blocks[i] /\ cs[i].noted = B!Round(cs, i - 1)
        BY <1>1, <1>6, <2>2, <4>1
      <4> QED
        BY <3>1, <4>2
    <3>3. CASE i < at
      <4>1. j <= p
        BY <1>4, <3>1, <3>3
      <4>2. B!Round(cs, j) <= B!Round(cs, p) /\ B!Round(cs, j) \in Nat /\ B!Round(cs, p) \in Nat
        BY <1>6, <4>1
      <4> QED
        BY <1>7, <3>2, <3>3, <4>2
    <3>4. CASE at < i
      <4>1. at <= j /\ j <= l /\ at \in 0 .. n
        BY <1>5, <3>1, <3>4
      <4>2. /\ B!Round(cs, at) <= B!Round(cs, j) /\ B!Round(cs, j) <= B!Round(cs, l)
            /\ B!Round(cs, j) \in Nat
        BY <1>6, <4>1
      <4>3. B!Round(cs, j) = r
        BY <1>7, <4>2
      <4> QED
        BY <3>2, <3>4, <4>3
    <3> QED
      BY <2>2, <3>3, <3>4
  <2> QED
    BY <2>1, <2>2
<1> DEFINE class == [i \in at .. e |-> blocks[i].author]
           counts == CountsBy(class, at .. e, Authors)
<1>11. IsFiniteSet(at .. e) /\ Cardinality(at .. e) = e - at + 1
  <2>1. at \in Int /\ e \in Int /\ ~(at > e)
    BY <1>2
  <2>2. /\ IsFiniteSet(at .. e) /\ Cardinality(at .. e) = IF at > e THEN 0 ELSE e - at + 1
    BY <2>1, FS_Interval
  <2> QED
    BY <2>1, <2>2
<1>12. SumOver(counts, Authors) = e - at + 1
  <2>1. \A i \in at .. e : class[i] \in Authors
    <3> TAKE i \in at .. e
    <3>1. i \in 1 .. n
      OBVIOUS
    <3> QED
      BY <1>1, <1>6, <3>1
  <2> HIDE DEF class
  <2>2. SumOver(counts, Authors) = Cardinality(at .. e)
    BY <1>11, <2>1, EconomySets, CountedByClass
  <2> QED
    BY <1>11, <2>2
<1>13. ASSUME NEW c \in Authors
       PROVE  B!CollatorBlocks(blocks, r, c, e - 1) + (IF blocks[e].author = c THEN 1 ELSE 0)
                = Cardinality({i \in at .. e : class[i] = c})
  <2> DEFINE before == {i \in 1 .. e - 1 : blocks[i].noted = r /\ blocks[i].author = c}
             all == {i \in at .. e : class[i] = c}
  <2>1. IsFiniteSet(before)
    <3>1. IsFiniteSet(1 .. e - 1)
      BY FS_Interval
    <3> QED
      BY <3>1, FS_Subset
  <2>2. e \notin before /\ all = IF blocks[e].author = c THEN before \cup {e} ELSE before
    <3>1. \A i \in 1 .. e - 1 : i \in 1 .. e /\ i # e
      OBVIOUS
    <3>2. e \in 1 .. e /\ e \in at .. e
      BY <1>2
    <3>3. \A i \in at .. e : i # e => i \in 1 .. e - 1
      OBVIOUS
    <3>4. \A i \in 1 .. e - 1 : i \in before <=> i \in at .. e /\ blocks[i].author = c
      BY <1>10, <3>1
    <3>5. \A i \in at .. e : i \in all <=> blocks[i].author = c
      OBVIOUS
    <3>6. \A i : i \in all <=> i \in (IF blocks[e].author = c THEN before \cup {e} ELSE before)
      BY <3>1, <3>2, <3>3, <3>4, <3>5
    <3> QED
      BY <3>1, <3>6
  <2>3. B!CollatorBlocks(blocks, r, c, e - 1) = Cardinality(before)
    BY EconomyCount DEF B!CollatorBlocks
  <2> HIDE DEF before, all
  <2>4. Cardinality(before) \in Nat
    BY <2>1, FS_CardinalityType
  <2>5. CASE blocks[e].author = c
    <3>1. Cardinality(all) = Cardinality(before) + 1
      BY <2>1, <2>2, <2>5, FS_AddElement
    <3> QED
      BY <2>3, <2>5, <3>1 DEF all
  <2>6. CASE blocks[e].author # c
    <3>1. Cardinality(all) = Cardinality(before)
      BY <2>2, <2>6
    <3> QED
      BY <2>3, <2>4, <2>6, <3>1 DEF all
  <2> QED
    BY <2>5, <2>6
<1>14. B!CollatorBlockInfo(s)
         = [c \in Authors |-> B!CollatorBlocks(blocks, r, c, e - 1)
                                + IF blocks[e].author = c THEN 1 ELSE 0]
  BY <1>7, <1>9 DEF B!CollatorBlockInfo
<1>15. B!CollatorBlockInfo(s) = counts
  <2> HIDE DEF class
  <2> QED
    BY <1>13, <1>14 DEF CountsBy
<1> HIDE DEF counts
<1>16. SumOver(B!CollatorBlockInfo(s), Authors) # s.length
  BY <1>9, <1>12, <1>15
<1> QED
  BY <1>16, DistributionParts

(* A block that has kept something back is looked at once its session is over. *)
LEMMA LeakFails ==
  ASSUME NEW cs, NEW n \in Nat, n = B!Len(blocks), NEW at \in 1 .. n,
         Leaked(cs, blocks, n, at), NEW s \in B!Sessions, s.idx = B!Round(blocks, at)
  PROVE  at \in 1 .. n - 1 /\ ~B!BlockOK(at)
<1>1. Ordered(cs, n, MinRound) /\ \A h \in 1 .. n : cs[h].round = blocks[h].round
  BY DEF Leaked, Mends
<1>2. PICK e \in 1 .. n : at < e
  BY <1>1, SettledSession
<1>3. blocks[at].deposit - blocks[at].credited > 0
  BY DEF Leaked
<1> QED
  BY <1>2, <1>3 DEF B!BlockOK

(* The session that the payout of block at is for is the one t looks at; it begins with
   block e, the session of block at. *)
LEMMA PaidSession ==
  ASSUME NEW cs, NEW n \in Nat, n = B!Len(blocks), NEW longest,
         Ordered(blocks, n, longest), Alike(blocks, cs, n),
         NEW at \in 1 .. n, NEW e \in 1 .. n, B!First(cs, at) = e,
         NEW t \in B!Sessions, t.idx = B!Round(blocks, at) - 1
  PROVE  /\ B!First(blocks, e) = e /\ B!First(cs, e) = e
         /\ t = [first |-> B!First(blocks, e - 1), length |-> e - B!First(blocks, e - 1),
                 idx |-> B!Round(blocks, e - 1)]
<1>1. PICK g \in 1 .. n :
        /\ B!First(blocks, g) = g
        /\ t = [first |-> B!First(blocks, g - 1), length |-> g - B!First(blocks, g - 1),
                idx |-> B!Round(blocks, g - 1)]
  BY SessionIs
<1>2. B!Round(blocks, g) = t.idx + 1 /\ t.idx \in Nat
  BY <1>1, NotedForSession
<1>3. \A h \in 0 .. n : /\ B!Round(blocks, h) = B!Round(cs, h)
                        /\ B!First(blocks, h) = B!First(cs, h)
  BY QueriesAlike
<1>4. at \in 0 .. n /\ e \in 0 .. n /\ g \in 0 .. n /\ at \in Nat /\ g \in Nat /\ e \in Nat
  OBVIOUS
<1>5. e \in 0 .. at /\ B!Round(cs, e) = B!Round(cs, at)
      /\ \A k \in 0 .. at : B!Round(cs, k) = B!Round(cs, at) => e <= k
  BY <1>4, FirstIs
<1>6. B!First(cs, e) = e
  <2>1. \A k \in 0 .. e : k \in 0 .. at
    BY <1>5
  <2>2. \A k \in 0 .. e : B!Round(cs, k) = B!Round(cs, e) => e <= k
    BY <1>5, <2>1
  <2>3. e \in 0 .. e
    OBVIOUS
  <2> QED
    BY <1>4, <2>2, <2>3, FirstUnique
<1>7. B!Round(blocks, at) \in Nat
  BY <1>4 DEF Ordered
<1>8. B!Round(cs, g) = B!Round(cs, e) /\ B!First(cs, g) = g
  BY <1>1, <1>2, <1>3, <1>4, <1>5, <1>7
<1>9. g = e
  <2>1. CASE g <= e
    <3>1. g \in 0 .. e
      BY <2>1
    <3>2. e <= g
      BY <1>4, <1>6, <1>8, <3>1, FirstIs
    <3> QED
      BY <2>1, <3>2
  <2>2. CASE e <= g
    <3>1. e \in 0 .. g
      BY <2>2
    <3>2. g <= e
      BY <1>4, <1>8, <3>1, FirstIs
    <3> QED
      BY <2>2, <3>2
  <2> QED
    BY <2>1, <2>2
<1> QED
  BY <1>1, <1>6, <1>9

(* A wrong payout is noticed by the check of the session it is for. *)
LEMMA MispaidFails ==
  ASSUME NEW cs, NEW n \in Nat, n = B!Len(blocks), NEW at \in 1 .. n,
         NEW how \in {"shifted", "unpaid"}, Mispaid(cs, blocks, n, at, how, due),
         NEW s \in B!Sessions, s.idx = B!Round(blocks, at),
         NEW t \in B!Sessions, t.idx = B!Round(blocks, at) - 1
  PROVE  ~B!DistributionOK(t)
<1>1. /\ Honestly(cs, n, due, MinRound) /\ Ordered(cs, n, MinRound)
      /\ \A h \in 1 .. n : PayRight(cs, h)
      /\ \A h \in 1 .. n : cs[h].round = blocks[h].round /\ (h # at => cs[h] = blocks[h])
      /\ SameBlock(cs[at], blocks[at])
      /\ blocks[at].pay = B!Faulty(cs[at].pay, how)
      /\ cs[at].pay # B!NoPay /\ \E a \in Backers : cs[at].pay.amounts[a] > 0
  BY DEF Mispaid, Mends, Honestly
<1>2. \A h \in 1 .. n : SameBlock(cs[h], blocks[h])
  <2> SUFFICES ASSUME NEW h \in 1 .. n, h # at PROVE SameBlock(cs[h], blocks[h])
    BY <1>1
  <2> QED
    BY <1>1 DEF SameBlock
<1>3. Ordered(blocks, n, MinRound) /\ Alike(blocks, cs, n)
  BY <1>1, <1>2, OrderedAlike
<1>4. PICK next \in 1 .. n :
        /\ at < next /\ B!First(blocks, next) = next
        /\ B!Round(cs, next) = B!Round(cs, at) + 1
        /\ B!First(cs, at) = B!First(blocks, next - 1) /\ B!First(cs, at) > 0
  BY <1>1, SettledSession
<1>5. PICK e \in 1 .. n : e = B!First(cs, at)
  <2>1. B!First(cs, at) \in 0 .. at
    BY FirstIs
  <2> QED
    BY <1>4, <2>1
<1>6. \A h \in 0 .. n : /\ B!Round(blocks, h) = B!Round(cs, h)
                        /\ B!First(blocks, h) = B!First(cs, h)
  BY <1>3, QueriesAlike
<1>7. e - 1 \in 0 .. n /\ next - 1 \in 0 .. n /\ next \in 0 .. n /\ at \in 0 .. n /\ n \in 0 .. n
  OBVIOUS
<1>8. B!First(cs, next) = next /\ B!First(cs, next - 1) = e
  BY <1>4, <1>5, <1>6, <1>7
<1>9. /\ B!First(blocks, e) = e /\ B!First(cs, e) = e
      /\ t = [first |-> B!First(blocks, e - 1), length |-> e - B!First(blocks, e - 1),
              idx |-> B!Round(blocks, e - 1)]
  BY <1>3, <1>5, PaidSession
<1>10. PICK length : length = e - B!First(cs, e - 1)
  OBVIOUS
<1>11. PICK f \in 0 .. e - 1 : f = B!First(cs, e - 1)
  BY e - 1 \in Nat, FirstIs
<1>12. t.first = f /\ t.length = length /\ t.first + t.length = e
  BY <1>6, <1>7, <1>9, <1>10, <1>11
<1>13. B!Round(cs, e - 1) < B!Round(cs, n) - 1
  <2>1. B!Round(cs, e - 1) = B!Round(cs, at) - 1
    BY <1>6, <1>7, <1>9
  <2>2. B!Round(cs, next) <= B!Round(cs, n) /\ B!Round(cs, n) \in Nat /\ B!Round(cs, at) \in Nat
    BY <1>1, <1>7 DEF Ordered
  <2> QED
    BY <1>4, <2>1, <2>2
<1>14. Collected(cs, n, e, length) = Payouts(cs, e)
  <2>1. MinRound \in Nat
    BY EconomySets
  <2>2. Cardinality(Authors) < MinRound \/ MinRound <= MinRound
    BY <2>1
  <2> QED
    BY <1>1, <1>9, <1>10, <1>13, <2>1, <2>2, RightlyPaid
<1>15. PICK c \in Authors : /\ c = cs[at].pay.of /\ c \in Owed(cs, e)
                            /\ cs[at].pay = PayOf(cs, e, c)
  BY <1>1, <1>4, <1>5 DEF PayRight, Owed
<1>16. PICK count : count = Counted(cs, e)
  OBVIOUS
<1>17. \A x \in Authors : count[x] \in Nat
  BY <1>1, <1>9, <1>16, CountsAddUp
<1>18. PICK total \in Nat : total = B!Rewards(cs, f, e) /\ total = B!Rewards(blocks, f, e)
  <2>1. \A h \in 1 .. n : cs[h].deposit \in Nat /\ blocks[h].deposit \in Nat
    BY <1>1, <1>3 DEF Ordered
  <2>2. e \in 0 .. n + 1 /\ f \in 0 .. e
    OBVIOUS
  <2>3. B!Rewards(cs, f, e) \in Nat
    BY <2>1, <2>2, RewardsAreSum
  <2>4. B!Rewards(blocks, f, e) = B!Rewards(cs, f, e)
    BY <1>3, <2>1, <2>2, RewardsAlike
  <2> QED
    BY <2>3, <2>4
<1>19. PICK amounts : amounts = B!Reward(count, c, total)
  OBVIOUS
<1>20. PICK over : over = Unit * B!StakingNum(count)
  OBVIOUS
<1>21. PICK pay : pay = cs[at].pay
  OBVIOUS
<1>22. pay.amounts = amounts /\ pay = [of |-> c, amounts |-> amounts, over |-> over]
  BY <1>11, <1>15, <1>16, <1>18, <1>19, <1>20, <1>21 DEF PayOf, Counted
<1>23. Pays(pay, c, amounts, over)
  <2>1. amounts = [a \in {c} \cup Backers |-> amounts[a]]
    BY <1>19 DEF B!Reward
  <2> QED
    BY <1>22, <2>1 DEF Pays
<1>24. \E robbed \in Backers : \E kept :
         /\ Robs(how, c, amounts, robbed, kept)
         /\ B!Faulty(pay, how) = [of |-> c, amounts |-> kept, over |-> over]
  <2>1. \E a \in Backers : amounts[a] > 0
    BY <1>1, <1>21, <1>22
  <2> QED
    BY <1>23, <2>1, WrongPayout
<1>25. PICK robbed \in Backers :
         \E kept : /\ Robs(how, c, amounts, robbed, kept)
                   /\ B!Faulty(pay, how) = [of |-> c, amounts |-> kept, over |-> over]
  BY <1>24
<1>26. PICK kept :
         /\ Robs(how, c, amounts, robbed, kept)
         /\ B!Faulty(pay, how) = [of |-> c, amounts |-> kept, over |-> over]
  BY <1>25
<1>27. /\ amounts[robbed] > 0
       /\ how = "shifted" => DOMAIN kept = {c} \cup Backers /\ kept[robbed] = 0
       /\ how = "unpaid" => /\ DOMAIN kept = ({c} \cup Backers) \ {robbed}
                            /\ \A a \in DOMAIN kept : kept[a] = amounts[a]
  BY <1>26 DEF Robs
<1>28. PICK wrong : wrong = [of |-> c, amounts |-> kept, over |-> over]
  OBVIOUS
<1>29. blocks[at].pay = wrong /\ wrong # B!NoPay
  <2>1. c \notin Backers
    BY EconomySets
  <2>2. c \in DOMAIN kept
    BY <1>27, <2>1
  <2>3. B!NoPay.amounts = <<>> /\ c \notin DOMAIN <<>>
    BY DEF B!NoPay
  <2>4. wrong.amounts = kept
    BY <1>28
  <2> QED
    BY <1>1, <1>21, <1>28, <1>26, <2>2, <2>3, <2>4
<1>30. B!RewardInfo(t) = (Payouts(cs, e) \ {pay}) \cup {wrong}
  <2>1. B!RewardInfo(t) = Collected(blocks, n, e, length)
    BY <1>12 DEF B!RewardInfo, B!height, Collected
  <2>2. \A h \in 1 .. n : h # at => blocks[h].pay = cs[h].pay
    BY <1>1
  <2>3. Replaced(Collected(blocks, n, e, length), Payouts(cs, e), cs[at].pay, blocks[at].pay)
    <3>1. Honestly(cs, n, due, MinRound) /\ cs[at].pay # B!NoPay /\ blocks[at].pay # B!NoPay
      BY <1>1, <1>29
    <3>2. SessionOf(cs, at, e, next)
      BY <1>4, <1>5, <1>8 DEF SessionOf
    <3> QED
      BY <1>10, <1>14, <2>2, <3>1, <3>2, WrongIsCollected
  <2> QED
    BY <1>21, <1>29, <2>1, <2>3 DEF Replaced
<1>31. B!CollatorBlockInfo(t) = count
  <2>1. B!CollatorBlockInfo(t) = Counted(blocks, e)
    BY <1>3, <1>9, SameBlocksCounted
  <2>2. e \in 0 .. n
    OBVIOUS
  <2>3. /\ B!Round(blocks, e) = B!Round(cs, e)
        /\ \A session, x : B!CollatorBlocks(blocks, session, x, e)
                             = B!CollatorBlocks(cs, session, x, e)
    BY <1>3, <2>2, QueriesAlike
  <2> QED
    BY <1>16, <2>1, <2>3 DEF Counted
<1>32. ~B!CheckReward(t, count, total)
  <2>1. CASE how = "shifted"
    <3>1. wrong \in B!RewardInfo(t) /\ robbed \in DOMAIN wrong.amounts
      BY <1>28, <1>30, <1>27, <2>1
    <3>2. wrong.amounts[robbed] = 0 /\ wrong.of = c /\ wrong.over = over
      BY <1>28, <1>27, <2>1
    <3>3. B!Reward(count, c, total)[robbed] > 0
      BY <1>19, <1>27
    <3>4. 0 * Unit * B!StakingNum(count) # B!Reward(count, c, total)[robbed] * over
      BY <1>17, <1>20, <3>3, ShiftedAmountFails
    <3>5. wrong.amounts[robbed] * Unit * B!StakingNum(count)
            # B!Reward(count, wrong.of, total)[robbed] * wrong.over
      BY <3>2, <3>4
    <3> QED
      BY <3>1, <3>5 DEF B!CheckReward
  <2>2. CASE how = "unpaid"
    <3>1. \A x \in Authors : Counted(cs, e)[x] \in Nat
      BY <1>16, <1>17
    <3>2. total = B!Rewards(cs, B!First(cs, e - 1), e)
      BY <1>11, <1>18
    <3>3. pay = PayOf(cs, e, c) /\ pay.amounts = amounts /\ pay.over = over
      BY <1>15, <1>21, <1>22
    <3>4. Robs("unpaid", c, pay.amounts, robbed, kept)
      BY <1>26, <2>2, <3>3
    <3>5. PICK info : info = (Payouts(cs, e) \ {pay}) \cup {wrong}
      OBVIOUS
    <3>6. /\ c \in Owed(cs, e) /\ pay = PayOf(cs, e, c)
          /\ Replaced(info, Payouts(cs, e), pay, wrong)
          /\ wrong = [of |-> c, amounts |-> kept, over |-> pay.over]
      BY <1>15, <1>28, <3>3, <3>5 DEF Replaced
    <3>7. ~B!PaidInFull(info, total)
      BY <3>1, <3>2, <3>4, <3>6, MissingAmountFails
    <3>8. ~B!PaidInFull(B!RewardInfo(t), total)
      BY <1>30, <3>5, <3>7
    <3> QED
      BY <3>8 DEF B!CheckReward
  <2> QED
    BY <2>1, <2>2
<1>33. B!Rewards(blocks, t.first, t.first + t.length) = total
  BY <1>12, <1>18
<1> QED
  BY <1>31, <1>32, <1>33, DistributionParts

(* Whatever goes wrong is seen by one of the checks. *)
LEMMA FaultsShow == FaultInv /\ EconomyInv => FaultsAreSeen
<1> SUFFICES ASSUME FaultInv, EconomyInv, fault.how # "none",
                    {B!Round(blocks, fault.at) - 1, B!Round(blocks, fault.at)}
                      \subseteq {s.idx : s \in B!Settled}
             PROVE  \/ \E h \in 1 .. B!height - 1 : ~B!BlockOK(h)
                    \/ \E s \in B!Settled : ~B!DistributionOK(s)
  BY DEF FaultsAreSeen, B!FaultsAreSeen
<1>1. PICK n \in Nat : n = B!Len(blocks) /\ n = B!height
  BY DEF EconomyInv, B!height
<1>2. PICK at \in 1 .. n : at = fault.at
  BY <1>1 DEF FaultInv
<1>3. PICK s \in B!Settled : s.idx = B!Round(blocks, at)
  BY <1>2
<1>4. PICK t \in B!Settled : t.idx = B!Round(blocks, at) - 1
  BY <1>2
<1>5. s \in B!Sessions /\ t \in B!Sessions
  BY DEF B!Settled
<1>6. PICK cs : \/ fault.how = "leak" /\ Leaked(cs, blocks, n, at)
                \/ fault.how = "misnoted" /\ Misnoted(cs, blocks, n, at)
                \/ /\ fault.how \in {"shifted", "unpaid"}
                   /\ Mispaid(cs, blocks, n, at, fault.how, due)
  BY <1>1, <1>2 DEF FaultInv, WentWrong
<1>7. CASE Leaked(cs, blocks, n, at)
  <2>1. at \in 1 .. n - 1 /\ ~B!BlockOK(at)
    BY <1>1, <1>3, <1>5, <1>7, LeakFails
  <2> QED
    BY <1>1, <2>1
<1>8. CASE Misnoted(cs, blocks, n, at)
  <2>1. ~B!DistributionOK(s)
    BY <1>1, <1>3, <1>5, <1>8, MisnotedFails
  <2> QED
    BY <2>1
<1>9. CASE fault.how \in {"shifted", "unpaid"} /\ Mispaid(cs, blocks, n, at, fault.how, due)
  <2>1. ~B!DistributionOK(t)
    BY <1>1, <1>3, <1>4, <1>5, <1>9, MispaidFails
  <2> QED
    BY <2>1
<1> QED
  BY <1>6, <1>7, <1>8, <1>9

-----------------------------------------------------------------------------
(* RewardCheckV1 *)

(* A candidate's stake and its delegators', and the pool of all candidates. *)
Candidate == [stake : Stakes, delegators : R!Books]
Candidates == [Authors -> Candidate]

(* Every block but the faulty one paid its author and the author's delegators the
   shares of the stakes of the block before, and the faulty one did not. *)
RewardInv ==
  /\ pools \in R!Seq(Candidates) /\ R!Len(pools) = R!Len(blocksR) + 1
  /\ \E W : blocksR \in R!Seq(W)
  /\ faultR \in 0 .. R!Len(blocksR)
  /\ \A h \in 1 .. R!Len(blocksR) : \A c \in {blocksR[h].author} :
       /\ c \in Authors
       /\ h # faultR => blocksR[h].pay = R!Pay(c, pools[h][c])
       /\ h = faultR => blocksR[h].pay \in R!Wrong(c, pools[h][c], pools[h + 1][c])

(* What the assumption says of the stakes. *)
LEMMA RewardConstants ==
  /\ IsFiniteSet(Backers) /\ Authors \cap Backers = {}
  /\ Stakes \subseteq Nat \ {0} /\ Amounts \subseteq Nat \ {0}
  /\ Coefficient \in Nat \ {0}
<1>1. R!IsFiniteSet(Backers) <=> IsFiniteSet(Backers)
  BY DEF R!IsFiniteSet, IsFiniteSet
<1> QED
  BY <1>1, StakingAssumption DEF R!RewardCheckV1Assumption

(* The check's total of a dictionary is a sum over its keys. *)
LEMMA AllOfIsSum == \A f : R!AllOf(f) = SumOver(f, DOMAIN f)
BY DEF R!AllOf, R!FoldFunction, R!FoldFunctionOnSet, R!MapThenFoldSet, SumOver, SumsTo, Chosen

(* The shares of a candidate: positive, and adding up to the denominator. *)
LEMMA SharesAddUp ==
  ASSUME NEW c \in Authors, NEW info \in Candidate
  PROVE  /\ DOMAIN R!Shares(c, info) = {c} \cup DOMAIN info.delegators
         /\ DOMAIN info.delegators \subseteq Backers /\ c \notin DOMAIN info.delegators
         /\ IsFiniteSet(DOMAIN R!Shares(c, info))
         /\ \A a \in DOMAIN R!Shares(c, info) : R!Shares(c, info)[a] \in Nat \ {0}
         /\ R!Shares(c, info)[c] = Coefficient * info.stake
         /\ \A a \in DOMAIN info.delegators : R!Shares(c, info)[a] = info.delegators[a]
         /\ R!Denominator(info) \in Nat \ {0}
         /\ SumOver(R!Shares(c, info), DOMAIN R!Shares(c, info)) = R!Denominator(info)
<1> DEFINE ds == DOMAIN info.delegators
           v == R!Shares(c, info)
<1>1. PICK s \in Nat \ {0} : s = info.stake
  BY RewardConstants DEF Candidate
<1>2. PICK t \in SUBSET Backers : info.delegators \in [t -> Amounts]
  BY DEF Candidate, R!Books
<1>3. ds = t /\ c \notin ds /\ IsFiniteSet(ds)
  BY <1>2, RewardConstants, FS_Subset
<1>4. /\ DOMAIN v = {c} \cup ds
      /\ v[c] = Coefficient * info.stake
      /\ \A a \in ds : v[a] = info.delegators[a]
  BY <1>3 DEF R!Shares
<1>5. PICK p \in Nat \ {0} : p = Coefficient * s
  <2>1. PICK k \in Nat, l \in Nat : Coefficient = k + 1 /\ s = l + 1
    <3>1. /\ Coefficient - 1 \in Nat /\ Coefficient = (Coefficient - 1) + 1
          /\ s - 1 \in Nat /\ s = (s - 1) + 1
      BY RewardConstants
    <3> QED
      BY <3>1
  <2>2. (k + 1) * (l + 1) = k * l + k + l + 1 /\ k * l \in Nat
    OBVIOUS
  <2> QED
    BY <2>1, <2>2
<1>6. \A a \in ds : info.delegators[a] \in Nat \ {0}
  BY <1>2, <1>3, RewardConstants
<1>7. \A a \in DOMAIN v : v[a] \in Nat \ {0}
  BY <1>1, <1>4, <1>5, <1>6
<1>8. IsFiniteSet(DOMAIN v)
  BY <1>3, <1>4, FS_AddElement
<1>9. PICK q \in Nat : q = SumOver(info.delegators, ds)
  <2>1. Nat \in {Nat, Int} /\ \A a \in ds : info.delegators[a] \in Nat
    BY <1>6
  <2> HIDE DEF ds
  <2> QED
    BY <1>3, <2>1, SumTyped
<1>10. R!Denominator(info) = p + q
  BY <1>1, <1>5, <1>9, AllOfIsSum DEF R!Denominator
<1>11. SumOver(v, DOMAIN v) = v[c] + SumOver(v, ds)
  <2>1. \A a \in DOMAIN v : v[a] \in Int
    BY <1>7
  <2>2. (DOMAIN v) \ {c} = ds /\ c \in DOMAIN v
    BY <1>3, <1>4
  <2> HIDE DEF v, ds
  <2>3. SumOver(v, DOMAIN v) = v[c] + SumOver(v, (DOMAIN v) \ {c})
    BY <1>8, <2>1, <2>2, SumRemove
  <2> QED
    BY <2>2, <2>3
<1>12. SumOver(v, ds) = SumOver(info.delegators, ds)
  <2> HIDE DEF v, ds
  <2> QED
    BY <1>3, <1>4, SumSame
<1>13. SumOver(v, DOMAIN v) = p + q
  BY <1>1, <1>4, <1>5, <1>9, <1>11, <1>12
<1>14. p + q \in Nat \ {0}
  OBVIOUS
<1> QED
  BY <1>2, <1>3, <1>4, <1>7, <1>8, <1>10, <1>13, <1>14

(* What the check asks of a block: its author, the stakes it reads, what was paid. *)
Accepts(c, info, pay) ==
  /\ R!AllOf(pay.to) = pay.over
  /\ c \in DOMAIN pay.to
  /\ pay.to[c] * R!Denominator(info) = Coefficient * info.stake * pay.over
  /\ \A a \in DOMAIN pay.to \ {c} :
       /\ a \in DOMAIN info.delegators
       /\ pay.to[a] * R!Denominator(info) = info.delegators[a] * pay.over

(* The shares of the stakes are accepted. *)
LEMMA SharesPass ==
  ASSUME NEW c \in Authors, NEW info \in Candidate
  PROVE  Accepts(c, info, R!Pay(c, info))
<1> DEFINE v == R!Shares(c, info)
<1>1. R!Pay(c, info).to = v /\ R!Pay(c, info).over = R!Denominator(info)
  BY DEF R!Pay
<1>2. /\ DOMAIN v = {c} \cup DOMAIN info.delegators
      /\ v[c] = Coefficient * info.stake
      /\ \A a \in DOMAIN info.delegators : v[a] = info.delegators[a]
      /\ SumOver(v, DOMAIN v) = R!Denominator(info)
  BY SharesAddUp
<1>3. R!AllOf(v) = SumOver(v, DOMAIN v)
  BY AllOfIsSum
<1> HIDE DEF v
<1> QED
  BY <1>1, <1>2, <1>3 DEF Accepts

(* A product with a positive factor tells numbers apart. *)
LEMMA Cancel ==
  ASSUME NEW x \in Int, NEW y \in Int, NEW k \in Nat \ {0}, x * k = y * k
  PROVE  x = y
BY Z3

(* A share shifted from a delegator to the collator fails: the collator has more than
   its own. *)
LEMMA ShiftFails ==
  ASSUME NEW c \in Authors, NEW info \in Candidate, NEW d \in DOMAIN info.delegators,
         NEW pay, pay = [R!Pay(c, info) EXCEPT !.to[c] = @ + 1, !.to[d] = @ - 1]
  PROVE  ~Accepts(c, info, pay)
<1> DEFINE v == R!Shares(c, info)
<1>1. R!Pay(c, info) = [to |-> v, over |-> R!Denominator(info)]
  BY DEF R!Pay
<1>2. /\ c \in DOMAIN v /\ c # d
      /\ v[c] = Coefficient * info.stake /\ v[c] \in Nat
      /\ R!Denominator(info) \in Nat \ {0}
  <2>1. /\ DOMAIN v = {c} \cup DOMAIN info.delegators /\ c \notin DOMAIN info.delegators
        /\ \A a \in DOMAIN v : v[a] \in Nat \ {0}
        /\ v[c] = Coefficient * info.stake
        /\ R!Denominator(info) \in Nat \ {0}
    BY SharesAddUp
  <2> HIDE DEF v
  <2>2. c \in DOMAIN v /\ c # d
    BY <2>1
  <2> QED
    BY <2>1, <2>2
<1> HIDE DEF v
<1>3. /\ pay.to = [v EXCEPT ![c] = @ + 1, ![d] = @ - 1]
      /\ pay.over = R!Denominator(info)
  <2>1. PICK good : good = R!Pay(c, info)
    OBVIOUS
  <2>2. good.to = v /\ good.over = R!Denominator(info) /\ DOMAIN good = {"to", "over"}
    BY <1>1, <2>1
  <2>3. pay = [good EXCEPT !.to[c] = @ + 1, !.to[d] = @ - 1]
    BY <2>1
  <2> QED
    BY <2>2, <2>3
<1>4. pay.to[c] = v[c] + 1
  BY <1>2, <1>3
<1>5. PICK k \in Nat \ {0}, x \in Nat : k = R!Denominator(info) /\ x = v[c]
  BY <1>2
<1>6. x + 1 # x /\ x + 1 \in Int /\ x \in Int
  OBVIOUS
<1>7. (x + 1) * k # x * k
  BY <1>6, Cancel
<1> QED
  BY <1>2, <1>3, <1>4, <1>5, <1>7 DEF Accepts

(* A share that is not paid at all fails: the author's is asked for, and without a
   delegator's the total is short. *)
LEMMA UnpaidFails ==
  ASSUME NEW c \in Authors, NEW info \in Candidate,
         NEW a \in DOMAIN R!Shares(c, info),
         NEW pay, pay.over = R!Denominator(info), DOMAIN pay.to = DOMAIN R!Shares(c, info) \ {a},
         \A x \in DOMAIN pay.to : pay.to[x] = R!Shares(c, info)[x]
  PROVE  ~Accepts(c, info, pay)
<1> DEFINE v == R!Shares(c, info)
<1>1. /\ IsFiniteSet(DOMAIN v) /\ \A x \in DOMAIN v : v[x] \in Nat \ {0}
      /\ SumOver(v, DOMAIN v) = R!Denominator(info)
  BY SharesAddUp
<1> HIDE DEF v
<1>2. IsFiniteSet(DOMAIN v \ {a}) /\ a \in DOMAIN v
  BY <1>1, FS_Subset DEF v
<1>3. SumOver(v, DOMAIN v) = v[a] + SumOver(v, DOMAIN v \ {a})
  <2>1. \A x \in DOMAIN v : v[x] \in Int
    BY <1>1
  <2> QED
    BY <1>1, <1>2, <2>1, SumRemove
<1>4. PICK p \in Nat \ {0} : p = v[a]
  BY <1>1, <1>2
<1>5. PICK q \in Nat : q = SumOver(v, DOMAIN v \ {a})
  <2>1. Nat \in {Nat, Int} /\ \A x \in DOMAIN v \ {a} : v[x] \in Nat
    BY <1>1
  <2> QED
    BY <1>2, <2>1, SumTyped
<1>6. SumOver(pay.to, DOMAIN pay.to) = q
  <2>1. DOMAIN pay.to = DOMAIN v \ {a} /\ \A x \in DOMAIN v \ {a} : pay.to[x] = v[x]
    BY DEF v
  <2>2. SumOver(pay.to, DOMAIN v \ {a}) = SumOver(v, DOMAIN v \ {a})
    BY <1>2, <2>1, SumSame
  <2> QED
    BY <1>5, <2>1, <2>2
<1>7. R!AllOf(pay.to) = q
  BY <1>6, AllOfIsSum
<1>8. R!AllOf(pay.to) # pay.over
  BY <1>1, <1>3, <1>4, <1>5, <1>7
<1> QED
  BY <1>8 DEF Accepts

(* The shares of other stakes fail: the ratios of those paid would have to be those of
   the stakes read, whose total leaves no room for a delegator that was not paid. *)
LEMMA OthersFail ==
  ASSUME NEW c \in Authors, NEW info \in Candidate, NEW later \in Candidate,
         ~R!Alike(R!Pay(c, later), R!Pay(c, info))
  PROVE  ~Accepts(c, info, R!Pay(c, later))
<1> SUFFICES ASSUME Accepts(c, info, R!Pay(c, later)) PROVE FALSE
  OBVIOUS
<1> DEFINE v == R!Shares(c, info)
           w == R!Shares(c, later)
<1>1. PICK k \in Nat \ {0}, l \in Nat \ {0} :
        k = R!Denominator(info) /\ l = R!Denominator(later)
  BY SharesAddUp
<1>2. /\ DOMAIN v = {c} \cup DOMAIN info.delegators
      /\ DOMAIN w = {c} \cup DOMAIN later.delegators
      /\ IsFiniteSet(DOMAIN v) /\ IsFiniteSet(DOMAIN w)
      /\ \A a \in DOMAIN v : v[a] \in Nat \ {0}
      /\ \A a \in DOMAIN w : w[a] \in Nat \ {0}
      /\ v[c] = Coefficient * info.stake
      /\ \A a \in DOMAIN info.delegators : v[a] = info.delegators[a]
      /\ SumOver(v, DOMAIN v) = k /\ SumOver(w, DOMAIN w) = l
  BY <1>1, SharesAddUp
<1>3. R!Pay(c, later) = [to |-> w, over |-> l] /\ R!Pay(c, info) = [to |-> v, over |-> k]
  BY <1>1 DEF R!Pay
<1> HIDE DEF v, w
<1>4. /\ w[c] * k = v[c] * l
      /\ \A a \in DOMAIN w \ {c} : a \in DOMAIN info.delegators /\ w[a] * k = v[a] * l
  BY <1>1, <1>2, <1>3 DEF Accepts
<1>5. DOMAIN w \subseteq DOMAIN v /\ \A a \in DOMAIN w : w[a] * k = v[a] * l
  BY <1>2, <1>4
<1>6. PICK b \in DOMAIN v : b \notin DOMAIN w
  <2> SUFFICES ASSUME DOMAIN v \subseteq DOMAIN w PROVE FALSE
    OBVIOUS
  <2>1. DOMAIN w = DOMAIN v
    BY <1>5
  <2>2. PICK paid, asked : paid = R!Pay(c, later) /\ asked = R!Pay(c, info)
    OBVIOUS
  <2>3. paid.to = w /\ paid.over = l /\ asked.to = v /\ asked.over = k
    BY <1>3, <2>2
  <2>4. R!Alike(paid, asked)
    BY <1>5, <2>1, <2>3, Zenon DEF R!Alike
  <2> QED
    BY <2>2, <2>4, Zenon
<1>7. PICK q \in Nat : q = SumOver(v, DOMAIN w)
  <2>1. Nat \in {Nat, Int} /\ \A a \in DOMAIN w : v[a] \in Nat
    BY <1>2, <1>5
  <2> QED
    BY <1>2, <2>1, SumTyped
<1>8. l * k = q * l
  <2> DEFINE g == [a \in DOMAIN w |-> w[a] * k]
  <2>1. \A a \in DOMAIN w : w[a] \in Int /\ g[a] = w[a] * k
    BY <1>2
  <2>2. \A a \in DOMAIN w : v[a] \in Int /\ g[a] = v[a] * l
    BY <1>2, <1>5
  <2>3. k \in Int /\ l \in Int /\ IsFiniteSet(DOMAIN w)
    BY <1>2
  <2> HIDE DEF g
  <2>4. SumOver(g, DOMAIN w) = SumOver(w, DOMAIN w) * k
    BY <2>1, <2>3, SumScaled
  <2>5. SumOver(g, DOMAIN w) = SumOver(v, DOMAIN w) * l
    BY <2>2, <2>3, SumScaled
  <2> QED
    BY <1>2, <1>7, <2>4, <2>5
<1>9. k = q
  <2>1. l * k = k * l /\ k \in Int /\ q \in Int
    OBVIOUS
  <2>2. k * l = q * l
    BY <1>8, <2>1
  <2> QED
    BY <2>1, <2>2, Cancel
<1>10. PICK p \in Nat \ {0}, r \in Nat : p = v[b] /\ r = SumOver(v, DOMAIN v \ {b})
                                         /\ k = p + r
  <2>1. IsFiniteSet(DOMAIN v \ {b}) /\ \A a \in DOMAIN v \ {b} : v[a] \in Nat
    BY <1>2, FS_Subset
  <2>2. Nat \in {Nat, Int} /\ \A a \in DOMAIN v : v[a] \in Int
    BY <1>2
  <2>3. SumOver(v, DOMAIN v \ {b}) \in Nat
    BY <2>1, <2>2, SumTyped
  <2>4. SumOver(v, DOMAIN v) = v[b] + SumOver(v, DOMAIN v \ {b})
    BY <1>2, <1>6, <2>2, SumRemove
  <2> QED
    BY <1>2, <1>6, <2>3, <2>4
<1>11. q <= r
  <2>1. IsFiniteSet(DOMAIN v \ {b}) /\ \A a \in DOMAIN v \ {b} : v[a] \in Nat
    BY <1>2, FS_Subset
  <2>2. DOMAIN w \in SUBSET (DOMAIN v \ {b})
    BY <1>5, <1>6
  <2> QED
    BY <1>7, <1>10, <2>1, <2>2, SumOfPart
<1> QED
  BY <1>9, <1>10, <1>11

(* What a faulty chain pays is never accepted. *)
LEMMA WrongFails ==
  ASSUME NEW c \in Authors, NEW info \in Candidate, NEW later \in Candidate,
         NEW pay \in R!Wrong(c, info, later)
  PROVE  ~Accepts(c, info, pay)
<1> DEFINE good == R!Pay(c, info)
<1>1. good = [to |-> R!Shares(c, info), over |-> R!Denominator(info)]
  BY DEF R!Pay
<1> HIDE DEF good
<1>2. CASE \E d \in DOMAIN info.delegators :
             pay = [good EXCEPT !.to[c] = @ + 1, !.to[d] = @ - 1]
  BY <1>2, ShiftFails DEF good
<1>3. CASE \E a \in DOMAIN good.to : pay = [good EXCEPT !.to = R!Restrict(@, DOMAIN @ \ {a})]
  <2>1. PICK a \in DOMAIN good.to : pay = [good EXCEPT !.to = R!Restrict(@, DOMAIN @ \ {a})]
    BY <1>3
  <2>2. pay.over = R!Denominator(info)
        /\ pay.to = [x \in DOMAIN good.to \ {a} |-> good.to[x]]
    BY <1>1, <2>1 DEF R!Restrict
  <2>3. good.to = R!Shares(c, info)
    BY <1>1
  <2>4. /\ DOMAIN pay.to = DOMAIN R!Shares(c, info) \ {a}
        /\ \A x \in DOMAIN pay.to : pay.to[x] = R!Shares(c, info)[x]
        /\ a \in DOMAIN R!Shares(c, info)
    BY <2>1, <2>2, <2>3
  <2> QED
    BY <2>2, <2>4, UnpaidFails
<1>4. CASE pay = R!Pay(c, later) /\ ~R!Alike(pay, good)
  BY <1>4, OthersFail DEF good
<1> QED
  BY <1>2, <1>3, <1>4 DEF R!Wrong, good

(* A block passes the check exactly if it is not the faulty one. *)
LEMMA BlockVerdict ==
  ASSUME RewardInv, NEW h \in 1 .. R!Len(blocksR)
  PROVE  R!BlockOK(h) <=> h # faultR
<1>1. PICK n \in Nat : n = R!Len(blocksR)
  BY DEF RewardInv
<1>2. PICK c \in Authors : c = blocksR[h].author
  BY DEF RewardInv
<1>3. PICK info \in Candidate, later \in Candidate :
        info = pools[h][c] /\ later = pools[h + 1][c]
  <2>1. \A s \in R!Seq(Candidates) : \A i \in 1 .. R!Len(s) : s[i] \in Candidates
    OBVIOUS
  <2>2. h \in 1 .. n + 1 /\ h + 1 \in 1 .. n + 1
    BY <1>1
  <2>3. pools[h] \in Candidates /\ pools[h + 1] \in Candidates
    BY <1>1, <2>1, <2>2 DEF RewardInv
  <2> QED
    BY <2>3 DEF Candidates
<1>4. R!staking_info(h) = info
  <2>1. h - 1 + 1 = h
    OBVIOUS
  <2> QED
    BY <1>2, <1>3, <2>1 DEF R!staking_info, R!Pool
<1>5. R!BlockOK(h) <=> Accepts(c, info, blocksR[h].pay)
  BY <1>2, <1>4 DEF R!BlockOK, Accepts
<1>6. CASE h # faultR
  <2>1. blocksR[h].pay = R!Pay(c, info)
    BY <1>2, <1>3, <1>6 DEF RewardInv
  <2> QED
    BY <1>5, <1>6, <2>1, SharesPass
<1>7. CASE h = faultR
  <2>1. blocksR[h].pay \in R!Wrong(c, info, later)
    BY <1>2, <1>3, <1>7 DEF RewardInv
  <2> QED
    BY <1>5, <1>7, <2>1, WrongFails
<1> QED
  BY <1>6, <1>7

(* The verdict on the last blocks, the head not among them. *)
LEMMA Verdict == RewardInv => R!VerdictTrue
<1> SUFFICES ASSUME RewardInv, NEW num \in 1 .. R!height - 1
             PROVE  R!Passes(num) <=> faultR \notin R!Checked(num)
  BY DEF R!VerdictTrue
<1>1. PICK n \in Nat : n = R!Len(blocksR)
  BY DEF RewardInv
<1>2. R!Checked(num) = n - num .. n - 1 /\ num \in 1 .. n - 1
  BY <1>1 DEF R!Checked, R!height
<1>3. \A h \in R!Checked(num) : h \in 1 .. n /\ h # 0
  BY <1>2
<1>4. \A h \in R!Checked(num) : R!BlockOK(h) <=> h # faultR
  BY <1>1, <1>3, BlockVerdict
<1> QED
  BY <1>3, <1>4 DEF R!Passes

(* RewardInv gives the types. *)
LEMMA RewardTyped == RewardInv => R!TypeOK
<1> SUFFICES ASSUME RewardInv PROVE R!TypeOK
  OBVIOUS
<1>1. PICK n \in Nat : n = R!Len(blocksR)
  BY DEF RewardInv
<1>2. \A s \in R!Seq(Candidates) : \A i \in 1 .. R!Len(s) : s[i] \in Candidates
  OBVIOUS
<1>3. ASSUME NEW h \in 0 .. n
      PROVE  R!Pool(h) \in [Authors -> [stake : Stakes, delegators : R!Books]]
  <2>1. h + 1 \in 1 .. n + 1
    OBVIOUS
  <2> QED
    BY <1>1, <1>2, <2>1 DEF RewardInv, R!Pool, Candidates, Candidate
<1> QED
  BY <1>1, <1>3 DEF RewardInv, R!TypeOK, R!height

(* RewardInv holds at genesis. *)
LEMMA RewardInitial == R!Init => RewardInv
<1> SUFFICES ASSUME R!Init PROVE RewardInv
  OBVIOUS
<1>1. PICK s \in Stakes, b \in R!Books :
        pools = <<[c \in Authors |-> [stake |-> s, delegators |-> b]]>>
  BY DEF R!Init
<1>2. PICK first : first = [c \in Authors |-> [stake |-> s, delegators |-> b]]
  OBVIOUS
<1>3. first \in Candidates
  BY <1>2 DEF Candidates, Candidate
<1>4. pools \in R!Seq(Candidates) /\ R!Len(pools) = 1
  BY <1>1, <1>2, <1>3
<1>5. blocksR = <<>> /\ faultR = 0 /\ <<>> \in R!Seq({}) /\ R!Len(<<>>) = 0
  BY DEF R!Init
<1> QED
  BY <1>4, <1>5 DEF RewardInv

(* Every block the chain adds keeps RewardInv. *)
LEMMA RewardStep == RewardInv /\ [R!Next]_(R!vars) => RewardInv'
<1> SUFFICES ASSUME RewardInv, [R!Next]_(R!vars) PROVE RewardInv'
  OBVIOUS
<1>1. CASE R!Produce
  <2>1. PICK n \in Nat : n = R!Len(blocksR) /\ n + 1 = R!Len(pools)
    BY DEF RewardInv
  <2>2. PICK W : blocksR \in R!Seq(W)
    BY DEF RewardInv
  <2>3. PICK c \in Authors, pool0 \in R!Restaked(R!Pool(n)) :
          /\ pools' = R!Append(pools, pool0)
          /\ \/ /\ blocksR' = R!Append(blocksR, [author |-> c, pay |-> R!Pay(c, R!Pool(n)[c])])
                /\ faultR = 0 \/ faultR = n
                /\ UNCHANGED faultR
             \/ \E pay \in R!Wrong(c, R!Pool(n)[c], pool0[c]) :
                  /\ faultR = 0
                  /\ blocksR' = R!Append(blocksR, [author |-> c, pay |-> pay])
                  /\ faultR' = n + 1
    BY <1>1, <2>1 DEF R!Produce, R!height
  <2>4. PICK old : old = pools[n + 1] /\ old = R!Pool(n)
    BY DEF R!Pool
  <2>5. old \in Candidates
    <3>1. \A s \in R!Seq(Candidates) : \A i \in 1 .. R!Len(s) : s[i] \in Candidates
      OBVIOUS
    <3>2. n + 1 \in 1 .. R!Len(pools)
      BY <2>1
    <3> QED
      BY <2>4, <3>1, <3>2 DEF RewardInv
  <2>6. pool0 \in Candidates
    <3>1. \A b \in R!Books, s \in Stakes : [stake |-> s, delegators |-> b] \in Candidate
      BY DEF Candidate
    <3> QED
      BY <2>3, <2>4, <2>5, <3>1 DEF R!Restaked, Candidates
  <2>7. PICK pay :
          /\ blocksR' = R!Append(blocksR, [author |-> c, pay |-> pay])
          /\ \/ pay = R!Pay(c, old[c]) /\ UNCHANGED faultR
             \/ pay \in R!Wrong(c, old[c], pool0[c]) /\ faultR = 0 /\ faultR' = n + 1
    BY <2>3, <2>4
  <2>8. /\ pools' \in R!Seq(Candidates) /\ R!Len(pools') = n + 2
        /\ pools'[n + 2] = pool0
        /\ \A i \in 1 .. n + 1 : pools'[i] = pools[i]
    BY <2>1, <2>3, <2>6 DEF RewardInv
  <2>9. PICK block : block = [author |-> c, pay |-> pay]
    OBVIOUS
  <2>10. /\ blocksR' \in R!Seq(W \cup {block}) /\ R!Len(blocksR') = n + 1
         /\ blocksR'[n + 1] = block
         /\ \A i \in 1 .. n : blocksR'[i] = blocksR[i]
    BY <2>1, <2>2, <2>7, <2>9
  <2>11. faultR \in 0 .. n /\ faultR' \in 0 .. n + 1 /\ faultR' \in {faultR, n + 1}
    BY <2>1, <2>7 DEF RewardInv
  <2>12. ASSUME NEW h \in 1 .. n + 1, NEW a, a = blocksR'[h].author
         PROVE  /\ a \in Authors
                /\ h # faultR' => blocksR'[h].pay = R!Pay(a, pools'[h][a])
                /\ h = faultR' => blocksR'[h].pay \in R!Wrong(a, pools'[h][a], pools'[h + 1][a])
    <3>1. CASE h = n + 1
      <4>1. a = c /\ blocksR'[h].pay = pay
        BY <2>9, <2>10, <2>12, <3>1
      <4>2. pools'[h] = old /\ pools'[h + 1] = pool0
        <5>1. n + 1 \in 1 .. n + 1 /\ h + 1 = n + 2
          BY <3>1
        <5> QED
          BY <2>4, <2>8, <3>1, <5>1
      <4>3. h = faultR' <=> faultR' # faultR
        BY <2>7, <2>11, <3>1
      <4> QED
        BY <2>7, <2>11, <3>1, <4>1, <4>2, <4>3
    <3>2. CASE h # n + 1
      <4>1. h \in 1 .. n /\ h \in 1 .. n + 1 /\ h + 1 \in 1 .. n + 1
        BY <3>2
      <4>2. blocksR'[h] = blocksR[h] /\ pools'[h] = pools[h] /\ pools'[h + 1] = pools[h + 1]
        BY <2>8, <2>10, <4>1
      <4>3. h = faultR' <=> h = faultR
        BY <2>7, <2>11, <4>1
      <4> QED
        BY <2>1, <2>12, <4>1, <4>2, <4>3 DEF RewardInv
    <3> QED
      BY <3>1, <3>2
  <2> QED
    BY <2>8, <2>10, <2>11, <2>12 DEF RewardInv
<1>2. CASE UNCHANGED R!vars
  BY <1>2 DEF R!vars, RewardInv
<1> QED
  BY <1>1, <1>2 DEF R!Next, R!Full

-----------------------------------------------------------------------------
(* The composition *)

(* Each tool runs on variables of its own, or on those of the chain it audits. *)
LEMMA EveryToolRuns == MCSpec => D!Spec /\ S!Spec /\ []EconomyInv /\ []RewardInv
<1>1. MCInit => D!Init /\ S!Init /\ H!Init /\ R!Init
  BY DEF MCInit
<1>2. [MCNext]_MCVars =>
        /\ [D!Next]_(D!vars)
        /\ [S!Next]_(S!vars)
        /\ [H!Next]_(H!vars) \/ [B!Next]_(B!vars)
        /\ [R!Next]_(R!vars)
  <2> SUFFICES ASSUME [MCNext]_MCVars
               PROVE  /\ [D!Next]_(D!vars)
                      /\ [S!Next]_(S!vars)
                      /\ [H!Next]_(H!vars) \/ [B!Next]_(B!vars)
                      /\ [R!Next]_(R!vars)
    OBVIOUS
  <2>1. UNCHANGED delegatorVars => UNCHANGED D!vars
    BY DEF delegatorVars, D!vars, D!chain, D!delegator
  <2>2. UNCHANGED economyVars => UNCHANGED H!vars /\ UNCHANGED B!vars
    BY DEF economyVars, H!vars, B!vars
  <2>3. UNCHANGED setupVars => UNCHANGED S!vars
    BY DEF setupVars, S!vars, S!chain, S!stakers, S!script
  <2>4. UNCHANGED rewardVars => UNCHANGED R!vars
    BY DEF rewardVars, R!vars
  <2>5. CASE MCNext
    BY <2>1, <2>2, <2>3, <2>4, <2>5 DEF MCNext
  <2>6. CASE UNCHANGED MCVars
    BY <2>1, <2>2, <2>3, <2>4, <2>6 DEF MCVars
  <2> QED
    BY <2>5, <2>6
<1>3. EconomyInv /\ [MCNext]_MCVars => EconomyInv'
  BY <1>2, EconomyStep
<1> QED
  BY <1>1, <1>2, <1>3, EconomyInitial, RewardInitial, RewardStep, PTL
     DEF MCSpec, D!Spec, S!Spec

(* Whichever chain is audited has no fault as long as it has made none. *)
LEMMA HonestKept == MCSpec => []HonestInv
<1>1. MCInit => HonestInv
  BY HonestInitial DEF MCInit
<1>2. EconomyInv /\ HonestInv /\ [MCNext]_MCVars => HonestInv'
  <2> SUFFICES ASSUME EconomyInv, HonestInv, [MCNext]_MCVars PROVE HonestInv'
    OBVIOUS
  <2>1. UNCHANGED economyVars => UNCHANGED H!vars /\ UNCHANGED B!vars
    BY DEF economyVars, H!vars, B!vars
  <2>2. \/ tool' = tool /\ tool = "honest" /\ [H!Next]_(H!vars)
        \/ tool' = tool /\ tool # "honest" /\ [B!Next]_(B!vars)
    <3>1. CASE MCNext
      BY <2>1, <3>1 DEF MCNext
    <3>2. CASE UNCHANGED MCVars
      BY <2>1, <3>2 DEF MCVars
    <3> QED
      BY <3>1, <3>2
  <2> QED
    BY <2>2, HonestInvStep
<1> QED
  BY <1>1, <1>2, EveryToolRuns, PTL DEF MCSpec

(* The audited chain has at most the one fault it has had. *)
LEMMA FaultKept == MCSpec => []FaultInv
<1>1. MCInit => FaultInv
  BY DEF MCInit, H!Init, FaultInv
<1>2. EconomyInv /\ HonestInv /\ FaultInv /\ [MCNext]_MCVars => FaultInv'
  <2> SUFFICES ASSUME EconomyInv, HonestInv, FaultInv, [MCNext]_MCVars PROVE FaultInv'
    OBVIOUS
  <2>1. UNCHANGED economyVars => UNCHANGED H!vars /\ UNCHANGED B!vars
    BY DEF economyVars, H!vars, B!vars
  <2>2. \/ tool' = tool /\ tool = "honest" /\ [H!Next]_(H!vars)
        \/ tool' = tool /\ tool # "honest" /\ [B!Next]_(B!vars)
    <3>1. CASE MCNext
      BY <2>1, <3>1 DEF MCNext
    <3>2. CASE UNCHANGED MCVars
      BY <2>1, <3>2 DEF MCVars
    <3> QED
      BY <3>1, <3>2
  <2> QED
    BY <2>2, FaultInvStep
<1> QED
  BY <1>1, <1>2, EveryToolRuns, HonestKept, PTL DEF MCSpec

(* The variables of all staking tools keep their types, whatever the chains do; so no
   session of theirs is shorter than the chain allows. *)
THEOREM StakingTyped == MCSpec => []TypesOK
<1>1. StressInv => D!TypeOK
  BY DEF StressInv
<1>2. SetupTypes => S!TypeOK
  BY DEF SetupTypes
<1>3. D!TypeOK /\ B!TypeOK /\ S!TypeOK /\ R!TypeOK => TypesOK
  BY DEF TypesOK
<1> QED
  BY <1>1, <1>2, <1>3, EveryToolRuns, StressInvariant, SetupTyped, EconomyTyped, RewardTyped,
     PTL

(* DelegatorStress: unless one collator is asked for, or all there are, a setup without
   failures gives the delegator one more than asked for: the slice leaves the first of
   the collators out and is as long as the number. *)
THEOREM DelegatesOneMore ==
  ASSUME Number \notin {1, Validators}
  PROVE  MCSpec => [](pc = "count" /\ clean => D!Cardinality(mine) = Number + 1)
<1>1. StressInv => (pc = "count" /\ clean => D!Cardinality(mine) = Number + 1)
  BY CollatorsOfASetup
<1> QED
  BY <1>1, EveryToolRuns, StressInvariant, PTL

(* DelegatorStress: with more than one collator asked for there is a wait between any
   two calls of the delegator, and no wait ends in the round of the call before it. *)
THEOREM RoundsAreFresh ==
  ASSUME Number # 1
  PROVE  MCSpec => []FreshRound
<1>1. StressInv => FreshRound
  BY DEF StressInv, RestedInv, D!TypeOK, FreshRound, D!FreshRound
<1> QED
  BY <1>1, EveryToolRuns, StressInvariant, PTL

(* StakingSetup: the collators set up serve once the rounds forced have begun, for
   every number of collators, in every order of the scripts. *)
THEOREM NewCollatorsServe == MCSpec => []CollatorsServe
<1>1. ServeInv => CollatorsServe
  BY SetUpServe DEF CollatorsServe
<1> QED
  BY <1>1, EveryToolRuns, ServeInvariant, PTL

(* StakingSetup: when all that was sent was executed, every collator the delegator
   script went through and that is still at stake has exactly the number of new
   delegators asked for and no other collator has any, in every order of the scripts,
   of their joins and of the rounds. *)
THEOREM DelegatorsSpread == MCSpec => []EvenlySpread
<1>1. SetupTypes /\ EvenInv /\ ThroughInv => EvenlySpread
  BY EvenlySet DEF EvenlySpread
<1> QED
  BY <1>1, EveryToolRuns, SetupTyped, EvenInvariant, ThroughInvariant, PTL

(* TokenEconomy: a chain that does everything right passes each of the tool's checks,
   for all collators, delegators, stakes, commissions, deposits and any number of
   blocks, as long as the payouts of a session end before the next one begins. *)
THEOREM HonestChainsPass ==
  ASSUME PayoutsEnd
  PROVE  MCSpec => []HonestChainPasses
<1>1. EconomyInv /\ HonestInv => HonestChainPasses
  BY HonestPasses
<1> QED
  BY <1>1, EveryToolRuns, HonestKept, PTL

(* TokenEconomy: whatever the chain does wrong, one of the tool's checks fails once the
   sessions concerned are settled, for all collators, delegators, stakes, commissions,
   deposits and any number of blocks. *)
THEOREM FaultsSeen == MCSpec => []FaultsAreSeen
<1>1. FaultInv /\ EconomyInv => FaultsAreSeen
  BY FaultsShow
<1> QED
  BY <1>1, EveryToolRuns, FaultKept, PTL

(* RewardCheckV1: the check passes exactly on the blocks that were rightly paid, for
   all stakes, any number of delegators and any number of blocks looked at. *)
THEOREM CheckTellsFaults == MCSpec => []VerdictTrue
<1>1. RewardInv => VerdictTrue
  BY Verdict DEF VerdictTrue
<1> QED
  BY <1>1, EveryToolRuns, PTL
=============================================================================
