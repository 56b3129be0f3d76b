-------------------------- MODULE Operator_proofs --------------------------
(***************************************************************************)
(* The scripts of an operator, proved for every number of candidates,      *)
(* cores, services and callers.  Each script has an inductive invariant of *)
(* its own; the last section carries the results over to the composition   *)
(* of MCOperator, in which one script runs and the others stand still.     *)
(***************************************************************************)
EXTENDS MCOperator, FiniteInduction, SequenceTheorems

-----------------------------------------------------------------------------
(* RuntimeUpgrade: a failure is reported only for a rejected upgrade, for every pace
   of the parachain and every delay of the relay chain, when the parachain blocks the
   script lets pass cover the lag of their relay parents, the upgrade is announced
   before the receipt of its batch is returned, and no other parachain upgrades. *)

(* What the script relies on: 15 blocks cover the lag, and nobody interferes. *)
Covered ==
  /\ ParentLag >= 1
  /\ Settle > Pace * ParentLag
  /\ AnnounceLag < FinalityLag
  /\ OtherUpgrades = {}

(* An upgrade that waits to be announced is never older than AnnounceLag. *)
AnnouncedInTime == Due => relay <= enacted + AnnounceLag

(* From the query on, a pending upgrade has been announced. *)
KnownAfterReceipt ==
  pc \in {"query", "relay_wait", "settle"} =>
    /\ code # "none"
    /\ code = "pending" => announced # None

(* The script waits past the announced height, unless it has been reached. *)
GoalCovers ==
  /\ pc = "relay_wait" /\ code = "pending" => goal = announced + 1
  /\ pc = "settle" /\ code = "pending" => relay >= announced

(* The parachain blocks seen while settling are bounded by the relay blocks whose
   parents may still be below the announced height. *)
Settling == pc = "settle" /\ code = "pending"
Seen == para - (goal - Settle)

SeenPerRelay ==
  Settling /\ relay < announced + ParentLag =>
    Seen <= Pace * (relay - announced) + burst

SeenBounded == Settling => Seen <= Pace * ParentLag

NotBefore ==
  /\ code = "none" => pc = "execute" \/ pc = "stopped"
  /\ pc \in {"execute", "receipt"} => outcome = "running"
  /\ outcome = "upgrade_fails" => pc = "stopped"
  /\ announced # None => code = "pending"
  /\ pc = "execute" => code = "none"

UpgradeInv ==
  /\ TypeOK
  /\ AnnouncedInTime
  /\ NotBefore
  /\ KnownAfterReceipt
  /\ GoalCovers
  /\ SeenPerRelay
  /\ SeenBounded
  /\ FailureIsReal

(* A product with the pace grows with its other factor. *)
LEMMA PaceMonotone ==
  ASSUME NEW i \in Int, NEW j \in Int, i <= j
  PROVE  Pace * i <= Pace * j /\ Pace * i \in Int
<1>1. Pace \in Nat BY RuntimeUpgradeAssumption DEF RuntimeUpgradeAssumption
<1>2. j - i \in Nat OBVIOUS
<1>3. Pace * (j - i) >= 0 BY <1>1, <1>2
<1>4. Pace * (j - i) = Pace * j - Pace * i BY <1>1
<1> QED BY <1>1, <1>3, <1>4

(* None is told from every block. *)
LEMMA NoneIsNoHeight == None \in Int /\ None \notin Nat
BY DEF None

(* UpgradeInv holds before the script starts. *)
LEMMA UpgradeInitial == Init => UpgradeInv
BY RuntimeUpgradeAssumption, NoneIsNoHeight
   DEF RuntimeUpgradeAssumption, Init, UpgradeInv, TypeOK, AnnouncedInTime, NotBefore,
       KnownAfterReceipt, GoalCovers, SeenPerRelay, SeenBounded, Settling, Due, FailureIsReal

(* The type invariant is inductive by itself. *)
LEMMA UpgradeTypes == TypeOK /\ [Next]_vars => TypeOK'
<1> SUFFICES ASSUME TypeOK, [Next]_vars PROVE TypeOK' OBVIOUS
<1> USE RuntimeUpgradeAssumption DEF RuntimeUpgradeAssumption
<1>0. Pace \in Nat /\ Settle \in Nat /\ UpgradeDelay \in Nat OBVIOUS
<1> USE <1>0 DEF TypeOK, Due
<1>1. CASE RelayBlock /\ UNCHANGED <<pc, goal, outcome>> BY <1>1 DEF RelayBlock
<1>2. CASE Announce /\ UNCHANGED <<pc, goal, outcome>> BY <1>2 DEF Announce, Due
<1>3. CASE Abort /\ UNCHANGED <<pc, goal, outcome>> BY <1>3 DEF Abort, Due
<1>4. CASE ParaBlock /\ UNCHANGED <<pc, goal, outcome>> BY <1>4 DEF ParaBlock
<1>5. CASE Execute BY <1>5 DEF Execute
<1>6. CASE ExecuteFails BY <1>6 DEF ExecuteFails, Raise, chains
<1>7. CASE ReceiptReturned BY <1>7 DEF ReceiptReturned, chains
<1>8. CASE Query BY <1>8 DEF Query, chains, Upcoming
<1>9. CASE NoUpgradeScheduled BY <1>9 DEF NoUpgradeScheduled, chains
<1>10. CASE RelayReached BY <1>10 DEF RelayReached, chains
<1>11. CASE Settled BY <1>11 DEF Settled, Raise, chains
<1>12. CASE UNCHANGED vars BY <1>12 DEF vars
<1> QED BY <1>1, <1>2, <1>3, <1>4, <1>5, <1>6, <1>7, <1>8, <1>9, <1>10, <1>11, <1>12
        DEF Next, Script, Chains, Stopped

(* One step keeps the rest, under the assumption Covered: one step per action. *)
LEMMA UpgradeStep ==
  ASSUME Covered, UpgradeInv, [Next]_vars
  PROVE  UpgradeInv'
<1> USE RuntimeUpgradeAssumption DEF RuntimeUpgradeAssumption
<1>t. TypeOK' BY UpgradeTypes DEF UpgradeInv
<1> USE <1>t, NoneIsNoHeight DEF UpgradeInv, TypeOK, AnnouncedInTime, NotBefore, KnownAfterReceipt,
              GoalCovers, SeenPerRelay, SeenBounded, Settling, Seen, Due, FailureIsReal, Covered
<1>1. CASE RelayBlock /\ UNCHANGED <<pc, goal, outcome>>
  <2>1. SeenPerRelay'
    <3>1. SUFFICES ASSUME Settling', relay' < announced + ParentLag
                   PROVE  Seen <= Pace * (relay' - announced)
      BY <1>1 DEF RelayBlock
    <3>2. Seen <= Pace * (relay - announced) + Pace BY <1>1, <3>1 DEF RelayBlock
    <3>3. Pace * (relay - announced) + Pace = Pace * (relay + 1 - announced)
      BY <1>1, <3>1 DEF RelayBlock
    <3> QED BY <1>1, <3>1, <3>2, <3>3 DEF RelayBlock
  <2> QED BY <1>1, <2>1 DEF RelayBlock
<1>2. CASE Announce /\ UNCHANGED <<pc, goal, outcome>> BY <1>2 DEF Announce
<1>3. CASE Abort /\ UNCHANGED <<pc, goal, outcome>> BY <1>3 DEF Abort
<1>4. CASE ParaBlock /\ UNCHANGED <<pc, goal, outcome>>
  <2>1. CASE Settling'
    <3>1. Settling /\ announced' = announced /\ announced \in Nat BY <1>4, <2>1 DEF ParaBlock
    <3>2. relay < announced + ParentLag BY <1>4, <2>1, <3>1 DEF ParaBlock
    <3>3. Seen' <= Pace * (relay - announced) + burst' BY <1>4, <3>1, <3>2 DEF ParaBlock
    <3>4. Pace * (relay - announced) <= Pace * (ParentLag - 1)
      BY <3>1, <3>2, PaceMonotone
    <3>5. Pace * (ParentLag - 1) + Pace = Pace * ParentLag BY <3>1
    <3>6. Seen' <= Pace * ParentLag
      BY <1>4, <3>1, <3>3, <3>4, <3>5, PaceMonotone DEF ParaBlock
    <3> QED BY <1>4, <2>1, <3>1, <3>2, <3>3, <3>6 DEF ParaBlock
  <2>2. CASE ~Settling' BY <1>4, <2>2 DEF ParaBlock
  <2> QED BY <2>1, <2>2
<1>5. CASE Execute BY <1>5 DEF Execute
<1>6. CASE ExecuteFails BY <1>6 DEF ExecuteFails, Raise, chains
<1>7. CASE ReceiptReturned BY <1>7 DEF ReceiptReturned, chains
<1>8. CASE Query BY <1>8 DEF Query, chains, Upcoming
<1>9. CASE NoUpgradeScheduled
  <2>1. Seen' = 0 /\ UNCHANGED chains BY <1>9 DEF NoUpgradeScheduled, chains
  <2>2. code = "pending" => announced \in Nat /\ relay >= announced
    BY <1>9 DEF NoUpgradeScheduled, Upcoming
  <2>3. Pace * ParentLag >= 0 BY PaceMonotone
  <2>4. Settling' => Pace * (relay - announced) >= 0
    BY <1>9, <2>2, PaceMonotone DEF NoUpgradeScheduled, chains
  <2> QED BY <1>9, <2>1, <2>2, <2>3, <2>4 DEF NoUpgradeScheduled, chains
<1>10. CASE RelayReached
  <2>1. Seen' = 0 /\ UNCHANGED chains BY <1>10 DEF RelayReached, chains
  <2>2. Pace * ParentLag >= 0 BY PaceMonotone
  <2>3. Settling' => Pace * (relay - announced) >= 0
    BY <1>10, PaceMonotone DEF RelayReached, chains
  <2> QED BY <1>10, <2>1, <2>2, <2>3 DEF RelayReached, chains
<1>11. CASE Settled
  <2>1. code # "pending"
    BY <1>11, PaceMonotone DEF Settled
  <2> QED BY <1>11, <2>1 DEF Settled, Raise, chains
<1>12. CASE UNCHANGED vars BY <1>12 DEF vars
<1> QED BY <1>1, <1>2, <1>3, <1>4, <1>5, <1>6, <1>7, <1>8, <1>9, <1>10, <1>11, <1>12
        DEF Next, Script, Chains, Stopped

(* The script's and the chains' variables keep their types, whatever the delays. *)
THEOREM UpgradeTyped == Spec => []TypeOK
<1>1. Init => TypeOK BY UpgradeInitial DEF UpgradeInv
<1> QED BY <1>1, UpgradeTypes, PTL DEF Spec

(* "Runtime ugprade fails" is raised only for an upgrade the relay chain has
   rejected, when the constants are Covered. *)
THEOREM UpgradeFailureIsReal ==
  ASSUME Covered
  PROVE  Spec => []FailureIsReal
<1>1. Init => UpgradeInv BY UpgradeInitial
<1>2. UpgradeInv /\ [Next]_vars => UpgradeInv' BY UpgradeStep
<1>3. UpgradeInv => FailureIsReal BY DEF UpgradeInv
<1> QED BY <1>1, <1>2, <1>3, PTL DEF Spec

-----------------------------------------------------------------------------
(* SudoFunding *)

Rich == \A k \in F!Kps : initial[k] > F!Transfer

(* The candidates whose turn is still to come have what they had. *)
Untouched(k) ==
  \/ pcF \in {"setup", "candidate"} /\ k >= kp
  \/ pcF = "sudo" /\ k > kp

FundInv ==
  /\ F!TypeOK
  /\ pcF \in {"setup", "candidate", "sudo"} => kp \in F!Kps
  /\ \A k \in F!Kps : Untouched(k) => balance[k] = initial[k]
  /\ Rich => /\ outcomeF \in {"running", "returned"}
             /\ pcF \in {"sudo", "check", "mint", "final"} => sudo >= F!Transfer

(* The limits of the script, in order. *)
LEMMA FundConstants ==
  /\ F!SudoMin \in Nat /\ F!CandidateMin \in Nat /\ F!Transfer \in Nat
  /\ F!FinalMin \in Nat /\ F!Minted \in Nat
  /\ F!CandidateMin < F!Transfer /\ F!SudoMin < F!Transfer /\ F!FinalMin < F!Transfer
BY SMT DEF F!SudoMin, F!CandidateMin, F!Transfer, F!Minted, F!FinalMin

(* FundInv holds when the script starts. *)
LEMMA FundInitial == F!Init => FundInv
<1> SUFFICES ASSUME F!Init PROVE FundInv
  OBVIOUS
<1>1. F!TypeOK /\ kp \in F!Kps
  BY OperatorAssumption DEF F!SudoFundingAssumption, F!Init, F!TypeOK, F!Kps
<1> QED
  BY <1>1 DEF F!Init, FundInv, Untouched

(* Every step of the funding keeps FundInv. *)
LEMMA FundStep == FundInv /\ [F!Next]_(F!vars) => FundInv'
<1> SUFFICES ASSUME FundInv, [F!Next]_(F!vars) PROVE FundInv'
  OBVIOUS
<1> USE FundConstants, OperatorAssumption
    DEF F!SudoFundingAssumption, FundInv, F!TypeOK, F!Kps, Rich, Untouched
<1>1. CASE F!Setup
  BY <1>1 DEF F!Setup, F!Stop
<1>2. CASE F!TransferFrom
  <2>1. balance[kp] \in Nat /\ kp \in F!Kps /\ pcF = "candidate"
    BY <1>2 DEF F!TransferFrom
  <2>2. CASE balance[kp] > F!Transfer
    <3>1. /\ balance' = [balance EXCEPT ![kp] = @ - F!Transfer]
          /\ sudo' = sudo + F!Transfer /\ pcF' = "sudo"
          /\ UNCHANGED <<kp, initial, outcomeF>>
      BY <1>2, <2>2 DEF F!TransferFrom
    <3>2. balance[kp] - F!Transfer \in Nat
      BY <2>1, <2>2
    <3>3. balance' \in [F!Kps -> Nat] /\ sudo' \in Nat /\ sudo' >= F!Transfer
      BY <2>1, <3>1, <3>2
    <3>4. ASSUME NEW k \in F!Kps, Untouched(k)' PROVE balance'[k] = initial'[k]
      <4>1. k > kp /\ Untouched(k)
        BY <2>1, <3>1, <3>4
      <4>2. balance'[k] = balance[k]
        BY <3>1, <4>1
      <4> QED
        BY <3>1, <4>1, <4>2
    <3>5. F!TypeOK'
      BY <2>1, <3>1, <3>3
    <3> QED
      BY <2>1, <3>1, <3>3, <3>4, <3>5
  <2>3. CASE ~(balance[kp] > F!Transfer)
    <3>1. ~Rich /\ pcF' = "stopped" /\ outcomeF' = "transfer_failed"
          /\ UNCHANGED <<kp, sudo, balance, initial>>
      BY <1>2, <2>1, <2>3 DEF F!TransferFrom, F!Stop
    <3> QED
      BY <3>1
  <2> QED
    BY <2>2, <2>3
<1>3. CASE F!SkipCandidate
  <2>1. balance[kp] = initial[kp] /\ ~Rich
    BY <1>3 DEF F!SkipCandidate
  <2> QED
    BY <1>3, <2>1 DEF F!SkipCandidate
<1>4. CASE F!LeaveLoop
  BY <1>4 DEF F!LeaveLoop
<1>5. CASE F!NextCandidate
  BY <1>5 DEF F!NextCandidate
<1>6. CASE F!Check
  BY <1>6 DEF F!Check, F!Stop
<1>7. CASE F!Mint
  BY <1>7 DEF F!Mint
<1>8. CASE F!Final
  BY <1>8 DEF F!Final, F!Stop
<1>9. CASE UNCHANGED F!vars
  BY <1>9 DEF F!vars
<1> QED
  BY <1>1, <1>2, <1>3, <1>4, <1>5, <1>6, <1>7, <1>8, <1>9 DEF F!Next, F!Stopped

(* FundInv is an invariant of the funding script. *)
LEMMA FundInvariant == F!Spec => []FundInv
BY FundInitial, FundStep, PTL DEF F!Spec

-----------------------------------------------------------------------------
(* CoretimeLaunch *)

(* The relay chain has a core for every core of the map. *)
EnoughCores == CoreMap[1] + CoreMap[2] <= NumCores

(* The cores a restart that reads the first id gives to a parachain. *)
Share(p) == IF p = 1 THEN 0 .. CoreMap[1] - 1 ELSE CoreMap[1] .. CoreMap[1] + CoreMap[2] - 1

(* No parachain has a core of the other's share, and each has all of its own or
   none. *)
Placed == \A p \in L!Paras : L!CoresOf(p) \in {{}, Share(p)}

Tooling == setup.tool /\ pcL \notin {"connect", "first", "second"}

(* The setup that runs is the one the round has read the id for. *)
SetupFits ==
  /\ ids = 1 .. setup.para
  /\ setup.from = IF setup.para = 1 THEN 0 ELSE CoreMap[1]
  /\ setup.cores = CoreMap[setup.para]

LaunchInv ==
  /\ L!TypeOK
  /\ pcL \in {"first", "second", "setup", "assign"} /\ ~Tooling => tries < MaxTries
  /\ ~missed /\ ~Tooling =>
       /\ Placed
       /\ pcL \in {"setup", "assign"} => SetupFits
       /\ pcL = "second" => ids = {1} /\ ~setup.tool

(* What is set up before the present parachain has its share, if there is one. *)
ServedInv ==
  ~missed /\ ~Tooling =>
    /\ pcL \in {"setup", "assign"} => \A p \in ids \ {setup.para} : L!CoresOf(p) = Share(p)
    /\ pcL \in {"second", "returned"} => \A p \in ids : L!CoresOf(p) = Share(p)

(* What the assumption says of the constants of the launch. *)
LEMMA LaunchBounds ==
  ToolCores \in Nat /\ NumCores \in Nat /\ MaxTries \in Nat /\ MaxLaunches \in Nat
BY OperatorAssumption DEF L!CoretimeLaunchAssumption

(* Both parachains want a core. *)
LEMMA MapType == CoreMap[1] \in Nat \ {0} /\ CoreMap[2] \in Nat \ {0}
BY OperatorAssumption DEF L!CoretimeLaunchAssumption, L!Paras

(* The cardinality the launch module speaks of is the library's. *)
LEMMA SameCount == ASSUME NEW S PROVE L!Cardinality(S) = Cardinality(S)
BY DEF L!Cardinality, Cardinality

(* The cores of a parachain can be counted. *)
LEMMA CoresCounted ==
  ASSUME NEW p PROVE L!Cardinality(L!CoresOf(p)) \in Nat
<1>1. IsFiniteSet(L!Core)
  BY LaunchBounds, FS_Interval DEF L!Core
<1>2. L!CoresOf(p) \subseteq L!Core
  BY DEF L!CoresOf
<1>3. IsFiniteSet(L!CoresOf(p))
  BY <1>1, <1>2, FS_Subset
<1> QED
  BY <1>3, FS_CardinalityType, SameCount

(* An interval has as many members as its bounds are apart, and one. *)
LEMMA IntervalCounted ==
  ASSUME NEW a \in Int, NEW b \in Int, NEW n \in Nat, b = a + n - 1
  PROVE  Cardinality(a .. b) = n
<1>1. Cardinality(a .. b) = IF a > b THEN 0 ELSE b - a + 1
  BY FS_Interval
<1> QED
  BY <1>1

(* A share has as many cores as the map says. *)
LEMMA ShareCounted ==
  ASSUME NEW p \in L!Paras PROVE L!Cardinality(Share(p)) = CoreMap[p]
<1>1. CASE p = 1
  <2>1. CoreMap[1] - 1 \in Int /\ CoreMap[1] - 1 = 0 + CoreMap[1] - 1
    BY MapType
  <2>2. Cardinality(0 .. CoreMap[1] - 1) = CoreMap[1]
    BY <2>1, MapType, IntervalCounted, 0 \in Int
  <2> QED
    BY <1>1, <2>2, SameCount DEF Share
<1>2. CASE p = 2
  <2>1. CoreMap[1] + CoreMap[2] - 1 \in Int /\ CoreMap[1] \in Int
    BY MapType
  <2>2. Cardinality(CoreMap[1] .. CoreMap[1] + CoreMap[2] - 1) = CoreMap[2]
    BY <2>1, MapType, IntervalCounted
  <2> QED
    BY <1>2, <2>2, SameCount DEF Share
<1> QED
  BY <1>1, <1>2 DEF L!Paras

(* The two shares have no core in common and neither is empty. *)
LEMMA SharesDisjoint == Share(1) \cap Share(2) = {} /\ Share(1) # {} /\ Share(2) # {}
<1>1. 0 \in Share(1) /\ CoreMap[1] \in Share(2)
  BY MapType DEF Share
<1> QED
  BY <1>1, MapType DEF Share

(* What a setup asks for is the share of its parachain. *)
LEMMA WantedIsShare ==
  ASSUME SetupFits, setup.para \in L!Paras PROVE L!Wanted = Share(setup.para)
BY MapType DEF SetupFits, L!Wanted, L!Paras, Share

(* An executed batch gives a parachain its share and takes no core from the
   other one. *)
LEMMA ExecutedKeepsShares ==
  ASSUME LaunchInv, ~missed, ~Tooling, pcL = "assign", L!Executable, L!Executed,
         setup' = setup
  PROVE  /\ Placed'
         /\ (L!CoresOf(setup.para))' = Share(setup.para)
         /\ \A p \in L!Paras \ {setup.para} : (L!CoresOf(p))' = L!CoresOf(p)
         /\ owner' \in [L!Core -> L!Paras \cup {L!Free}]
<1>1. Placed /\ SetupFits /\ setup.para \in L!Paras
       /\ owner \in [L!Core -> L!Paras \cup {L!Free}]
  BY DEF LaunchInv, L!TypeOK
<1>2. /\ L!Wanted = Share(setup.para) /\ Share(setup.para) \subseteq L!Core
      /\ owner' = [c \in L!Core |-> IF c \in Share(setup.para) THEN setup.para ELSE owner[c]]
  BY <1>1, WantedIsShare DEF L!Executable, L!Executed
<1>3. (L!CoresOf(setup.para))' = Share(setup.para)
  BY <1>1, <1>2 DEF Placed, L!CoresOf
<1>4. ASSUME NEW p \in L!Paras \ {setup.para} PROVE (L!CoresOf(p))' = L!CoresOf(p)
  <2>1. Share(p) \cap Share(setup.para) = {}
    BY <1>1, SharesDisjoint DEF L!Paras
  <2>2. L!CoresOf(p) \cap Share(setup.para) = {}
    BY <1>1, <2>1 DEF Placed
  <2> QED
    BY <1>1, <1>2, <2>2 DEF L!CoresOf
<1>5. ASSUME NEW p \in L!Paras PROVE (L!CoresOf(p))' \in {{}, Share(p)}
  <2>1. CASE p = setup.para
    BY <1>3, <2>1
  <2>2. CASE p # setup.para
    BY <1>1, <1>4, <2>2 DEF Placed
  <2> QED
    BY <2>1, <2>2
<1>6. Placed'
  BY <1>5 DEF Placed, Share, L!Paras
<1> QED
  BY <1>1, <1>2, <1>3, <1>4, <1>6

(* Where no core changes hands, the parachains have what they had. *)
LEMMA OwnerKept ==
  ASSUME owner' = owner
  PROVE  (\A p \in L!Paras : (L!CoresOf(p))' = L!CoresOf(p)) /\ Placed' = Placed
<1>1. \A p \in L!Paras : (L!CoresOf(p))' = L!CoresOf(p)
  BY DEF L!CoresOf
<1> QED
  BY <1>1 DEF Placed, Share

(* A restart frees every core. *)
LEMMA FreePlaced ==
  ASSUME owner = [c \in L!Core |-> L!Free] PROVE Placed
BY DEF Placed, L!CoresOf, L!Free, L!Paras

(* Both invariants hold before the first launch. *)
LEMMA LaunchInitial == L!Init => LaunchInv /\ ServedInv
<1> SUFFICES ASSUME L!Init PROVE LaunchInv /\ ServedInv
  OBVIOUS
<1>1. Placed
  BY FreePlaced DEF L!Init
<1>2. L!TypeOK
  <2>1. owner \in [L!Core -> L!Paras \cup {L!Free}]
    BY DEF L!Init
  <2>2. /\ setup \in [para : L!Paras, from : Nat, cores : Nat, tool : BOOLEAN]
        /\ reported \in [para : L!Paras, cores : Nat]
    BY DEF L!Init, L!NoSetup, L!NoReport, L!Paras
  <2>3. /\ pcL = "idle" /\ ids \subseteq L!Paras
        /\ tries \in 0 .. MaxTries /\ runs \in 0 .. MaxLaunches
    BY LaunchBounds DEF L!Init
  <2>4. missed \in BOOLEAN
    BY DEF L!Init
  <2> QED
    BY <2>1, <2>2, <2>3, <2>4 DEF L!TypeOK
<1> QED
  BY <1>1, <1>2 DEF L!Init, LaunchInv, ServedInv, Tooling

(* The variables of the launch keep their types. *)
LEMMA LaunchTyped == LaunchInv /\ [L!Next]_(L!vars) => L!TypeOK'
<1> SUFFICES ASSUME LaunchInv, [L!Next]_(L!vars) PROVE L!TypeOK'
  OBVIOUS
<1>t. L!TypeOK
  BY DEF LaunchInv
<1>r. pcL \in {"setup", "assign"} /\ ~setup.tool => tries < MaxTries
  BY DEF LaunchInv, Tooling
<1> USE <1>t, LaunchBounds, MapType DEF L!TypeOK, L!Paras
<1>1. CASE L!Restart
  <2>1. owner' \in [L!Core -> L!Paras \cup {L!Free}]
    BY <1>1 DEF L!Restart
  <2>2. reported' \in [para : L!Paras, cores : Nat]
    BY <1>1 DEF L!Restart, L!NoReport
  <2>3. runs' \in 0 .. MaxLaunches /\ tries' \in 0 .. MaxTries
    BY <1>1 DEF L!Restart
  <2> QED
    BY <1>1, <2>1, <2>2, <2>3 DEF L!Restart
<1>2. CASE L!RestartRefused
  BY <1>2 DEF L!RestartRefused
<1>3. CASE L!Connect \/ L!OutOfTries \/ L!MissFirstId \/ L!MissSecondId
  BY <1>3 DEF L!Connect, L!OutOfTries, L!MissFirstId, L!MissSecondId
<1>4. CASE L!ConnectionReset
  <2>1. tries < MaxTries
    BY <1>4, <1>r DEF L!ConnectionReset
  <2> QED
    BY <1>4, <2>1 DEF L!ConnectionReset
<1>5. CASE L!OtherError \/ L!NotSetUp \/ L!StorageUnread
  BY <1>5 DEF L!OtherError, L!NotSetUp, L!StorageUnread
<1>6. CASE L!ReadFirstId
  BY <1>6 DEF L!ReadFirstId, L!NoReport
<1>7. CASE L!ReadSecondId
  BY <1>7 DEF L!ReadSecondId, L!NoReport
<1>8. CASE L!AlreadySetUp
  <2>1. L!Cardinality(L!Existing) \in Nat
    BY CoresCounted DEF L!Existing
  <2>2. reported' = reported \/ reported' = [para |-> setup.para, cores |-> L!Cardinality(L!Existing)]
    BY <1>8 DEF L!AlreadySetUp
  <2>4. reported' \in [para : L!Paras, cores : Nat]
    BY <2>1, <2>2
  <2>3. pcL' \in {"raised", "second", "returned"}
    BY <1>8 DEF L!AlreadySetUp, L!Continue
  <2> QED
    BY <1>8, <2>4, <2>3 DEF L!AlreadySetUp
<1>9. CASE L!Assign
  BY <1>9 DEF L!Assign, L!Executed, L!Continue
<1>10. CASE L!AssignRefused
  BY <1>10 DEF L!AssignRefused, L!Continue
<1>11. CASE L!AssignThenReset
  <2>1. tries < MaxTries
    BY <1>11, <1>r DEF L!AssignThenReset
  <2> QED
    BY <1>11, <2>1 DEF L!AssignThenReset, L!Executed
<1>12. CASE L!RunTool
  BY <1>12 DEF L!RunTool, L!NoReport
<1>13. CASE UNCHANGED L!vars
  BY <1>13 DEF L!vars
<1> QED
  BY <1>1, <1>2, <1>3, <1>4, <1>5, <1>6, <1>7, <1>8, <1>9, <1>10, <1>11, <1>12, <1>13
  DEF L!Next, L!Finished

(* Every step of the launch keeps LaunchInv. *)
LEMMA LaunchStep == LaunchInv /\ [L!Next]_(L!vars) => LaunchInv'
<1> SUFFICES ASSUME LaunchInv, [L!Next]_(L!vars) PROVE LaunchInv'
  OBVIOUS
<1>t. L!TypeOK' /\ L!TypeOK
  BY LaunchTyped DEF LaunchInv
<1>i. setup.para \in {1, 2} /\ 1 .. 1 = {1}
  BY <1>t DEF L!TypeOK, L!Paras
<1>k. owner' = owner => Placed' = Placed
  BY OwnerKept
<1> USE <1>t, <1>k, MapType DEF LaunchInv, Tooling
<1>1. CASE L!Restart
  <2>1. Placed'
    BY <1>1 DEF L!Restart, Placed, L!CoresOf, L!Free, L!Paras
  <2> QED
    BY <1>1, <2>1 DEF L!Restart
<1>2. CASE L!RestartRefused
  BY <1>2 DEF L!RestartRefused, L!Ended
<1>3. CASE L!Connect \/ L!OutOfTries \/ L!MissFirstId \/ L!MissSecondId
  BY <1>3 DEF L!Connect, L!OutOfTries, L!MissFirstId, L!MissSecondId
<1>4. CASE L!ConnectionReset \/ L!OtherError
  BY <1>4 DEF L!ConnectionReset, L!OtherError
<1>5. CASE L!NotSetUp \/ L!StorageUnread
  BY <1>5 DEF L!NotSetUp, L!StorageUnread, SetupFits
<1>6. CASE L!ReadFirstId
  BY <1>6 DEF L!ReadFirstId, SetupFits
<1>7. CASE L!ReadSecondId
  BY <1>7 DEF L!ReadSecondId, SetupFits
<1>8. CASE L!AlreadySetUp
  BY <1>8, <1>i DEF L!AlreadySetUp, L!Continue, SetupFits
<1>9. CASE L!Assign
  <2>1. ~missed /\ ~Tooling => Placed'
    BY <1>9, ExecutedKeepsShares DEF L!Assign
  <2> QED
    BY <1>9, <1>i, <2>1 DEF L!Assign, L!Continue, SetupFits
<1>10. CASE L!AssignRefused
  BY <1>10, <1>i DEF L!AssignRefused, L!Continue, SetupFits
<1>11. CASE L!AssignThenReset
  BY <1>11, ExecutedKeepsShares DEF L!AssignThenReset
<1>12. CASE L!RunTool
  BY <1>12 DEF L!RunTool
<1>13. CASE UNCHANGED L!vars
  BY <1>13 DEF L!vars, SetupFits
<1> QED
  BY <1>1, <1>2, <1>3, <1>4, <1>5, <1>6, <1>7, <1>8, <1>9, <1>10, <1>11, <1>12, <1>13
  DEF L!Next, L!Finished

(* With enough cores, a batch that the relay chain refuses asked for a core that
   the parachain has already. *)
LEMMA RefusedHasShare ==
  ASSUME EnoughCores, LaunchInv, ~missed, ~Tooling, pcL = "assign", L!Refusable
  PROVE  L!CoresOf(setup.para) = Share(setup.para)
<1>1. /\ Placed /\ SetupFits /\ setup.para \in L!Paras
      /\ owner \in [L!Core -> L!Paras \cup {L!Free}]
  BY DEF LaunchInv, L!TypeOK
<1>2. L!Wanted = Share(setup.para)
  BY <1>1, WantedIsShare
<1>3. Share(setup.para) \subseteq L!Core
  BY <1>1, MapType, LaunchBounds DEF EnoughCores, Share, L!Core, L!Paras
<1>4. PICK c \in Share(setup.para) : owner[c] # L!Free /\ c \in L!Core
  BY <1>2, <1>3 DEF L!Refusable
<1>5. owner[c] \in L!Paras /\ c \in L!CoresOf(owner[c])
  BY <1>1, <1>4 DEF L!CoresOf
<1>6. c \in Share(owner[c])
  BY <1>1, <1>5 DEF Placed
<1>7. owner[c] = setup.para
  BY <1>1, <1>4, <1>5, <1>6, SharesDisjoint DEF L!Paras
<1> QED
  BY <1>1, <1>5, <1>7 DEF Placed

(* With enough cores every step keeps ServedInv as well. *)
LEMMA ServedStep ==
  ASSUME EnoughCores, LaunchInv, ServedInv, [L!Next]_(L!vars)
  PROVE  ServedInv'
<1>k. owner' = owner => \A p \in L!Paras : (L!CoresOf(p))' = L!CoresOf(p)
  BY OwnerKept
<1>t. setup.para \in L!Paras /\ ids \subseteq L!Paras
  BY DEF LaunchInv, L!TypeOK
<1>f. ~missed /\ ~Tooling /\ pcL \in {"setup", "assign"} =>
        /\ Placed /\ SetupFits
        /\ \A p \in ids \ {setup.para} : L!CoresOf(p) = Share(p)
  BY DEF LaunchInv, ServedInv
<1> USE <1>t DEF Tooling, Share
<1>1. CASE L!Restart \/ L!RestartRefused \/ L!RunTool
  BY <1>1 DEF L!Restart, L!RestartRefused, L!RunTool, L!Ended, ServedInv
<1>2. CASE L!Connect \/ L!OutOfTries \/ L!ConnectionReset \/ L!OtherError \/ L!MissFirstId
  BY <1>2 DEF L!Connect, L!OutOfTries, L!ConnectionReset, L!OtherError, L!MissFirstId, ServedInv
<1>3. CASE L!ReadFirstId
  BY <1>3 DEF L!ReadFirstId, ServedInv
<1>4. CASE L!ReadSecondId
  <2>1. ids' \ {setup'.para} \subseteq ids /\ owner' = owner /\ pcL' = "setup" /\ pcL = "second"
        /\ missed' = missed
    BY <1>4 DEF L!ReadSecondId
  <2> QED
    BY <2>1, <1>k DEF ServedInv
<1>5. CASE L!MissSecondId
  BY <1>5, <1>k DEF L!MissSecondId, ServedInv
<1>6. CASE L!NotSetUp \/ L!StorageUnread
  BY <1>6, <1>k DEF L!NotSetUp, L!StorageUnread, ServedInv
<1>7. CASE L!AlreadySetUp
  <2>1. ~missed /\ ~Tooling => L!CoresOf(setup.para) = Share(setup.para)
    BY <1>7, <1>f DEF L!AlreadySetUp, L!Existing, Placed
  <2> QED
    BY <1>7, <1>f, <1>k, <2>1 DEF L!AlreadySetUp, L!Continue, ServedInv
<1>8. CASE L!Assign
  <2>1. ~missed /\ ~Tooling => \A p \in ids : (L!CoresOf(p))' = Share(p)
    BY <1>8, <1>f, ExecutedKeepsShares DEF L!Assign
  <2> QED
    BY <1>8, <2>1 DEF L!Assign, L!Continue, ServedInv
<1>9. CASE L!AssignRefused
  <2>1. ~missed /\ ~Tooling => L!CoresOf(setup.para) = Share(setup.para)
    BY <1>9, RefusedHasShare DEF L!AssignRefused
  <2> QED
    BY <1>9, <1>f, <1>k, <2>1 DEF L!AssignRefused, L!Continue, ServedInv
<1>10. CASE L!AssignThenReset
  BY <1>10 DEF L!AssignThenReset, ServedInv
<1>11. CASE UNCHANGED L!vars
  BY <1>11, <1>k DEF L!vars, ServedInv
<1> QED
  BY <1>1, <1>2, <1>3, <1>4, <1>5, <1>6, <1>7, <1>8, <1>9, <1>10, <1>11 DEF L!Next, L!Finished

(* LaunchInv is an invariant of the launch. *)
LEMMA LaunchInvariant == L!Spec => []LaunchInv
BY LaunchInitial, LaunchStep, PTL DEF L!Spec

(* A restart that returns has served what it read, with enough cores. *)
LEMMA LaunchServed == ASSUME EnoughCores PROVE L!Spec => []L!ServedAfterRestart
<1>1. L!Init => LaunchInv /\ ServedInv
  BY LaunchInitial
<1>2. LaunchInv /\ ServedInv /\ [L!Next]_(L!vars) => (LaunchInv /\ ServedInv)'
  BY LaunchStep, ServedStep
<1>3. LaunchInv /\ ServedInv => L!ServedAfterRestart
  <2> SUFFICES ASSUME LaunchInv, ServedInv, pcL = "returned", ~setup.tool, ~missed, NEW p \in ids
               PROVE  L!Cardinality(L!CoresOf(p)) = CoreMap[p]
    BY DEF L!ServedAfterRestart
  <2>1. p \in L!Paras /\ L!CoresOf(p) = Share(p)
    BY DEF LaunchInv, L!TypeOK, ServedInv, Tooling
  <2> QED
    BY <2>1, ShareCounted
<1> QED
  BY <1>1, <1>2, <1>3, PTL DEF L!Spec

(* A step of a restart that assigns cores takes none from the other parachain. *)
LEMMA LaunchTakesNone ==
  LaunchInv /\ [L!Next]_(L!vars) =>
    (~missed /\ ~setup.tool /\ pcL = "assign" =>
       \A p \in L!Paras \ {setup.para} : L!CoresOf(p) \subseteq (L!CoresOf(p))')
<1> SUFFICES ASSUME LaunchInv, [L!Next]_(L!vars), ~missed, ~setup.tool, pcL = "assign",
                    NEW p \in L!Paras \ {setup.para}
             PROVE  L!CoresOf(p) \subseteq (L!CoresOf(p))'
  OBVIOUS
<1>1. CASE L!Assign \/ L!AssignThenReset
  <2>1. ~Tooling /\ L!Executable /\ L!Executed /\ setup' = setup
    BY <1>1 DEF Tooling, L!Assign, L!AssignThenReset
  <2> QED
    BY <2>1, ExecutedKeepsShares
<1>2. CASE owner' = owner
  BY <1>2 DEF L!CoresOf
<1>3. \/ L!Assign \/ L!AssignThenReset \/ owner' = owner
  BY DEF L!Next, L!vars, L!Restart, L!RestartRefused, L!Ended, L!Connect, L!OutOfTries,
         L!ConnectionReset, L!OtherError, L!ReadFirstId, L!MissFirstId, L!ReadSecondId,
         L!MissSecondId, L!AlreadySetUp, L!NotSetUp, L!StorageUnread, L!AssignRefused,
         L!RunTool, L!Finished
<1> QED
  BY <1>1, <1>2, <1>3

(* An assignment takes no core from the other parachain. *)
LEMMA LaunchNoTakeover == L!Spec => L!NoTakeover
<1> USE DEF L!NoTakeover
<1>1. LaunchInv /\ [L!Next]_(L!vars) =>
        [~missed /\ ~setup.tool /\ pcL = "assign" =>
           \A p \in L!Paras \ {setup.para} : L!CoresOf(p) \subseteq (L!CoresOf(p))']_(L!vars)
  BY LaunchTakesNone
<1> QED
  BY <1>1, LaunchInvariant, PTL DEF L!Spec

-----------------------------------------------------------------------------
(* Multisig *)

(* What the provider has proposed and the monitor has not approved, in order. *)
Pending == IF pcW \in {"deliver_spent", "deliver_refund"} THEN Append(events, info) ELSE events

(* What remains of the deposit after the proposals of the running service. *)
Rest ==
  IF pcW = "spent" THEN Deposit
  ELSE IF pcW \in {"deliver_spent", "refund"} THEN Deposit - cost
  ELSE 0

Infos == [call : W!Calls, timepoint : Nat]

(* The proposals in s are the calls the pallet keeps in o, each once, with the
   timepoint of its own, and all of them wait for the consumer only. *)
Matched(s, o) ==
  /\ \A i \in 1 .. Len(s) : s[i].call \in DOMAIN o /\ o[s[i].call].when = s[i].timepoint
  /\ \A c \in DOMAIN o :
       /\ o[c].approvals = {"provider"} /\ o[c].stored = TRUE
       /\ \E i \in 1 .. Len(s) : s[i].call = c
  /\ \A i, j \in 1 .. Len(s) : s[i].call = s[j].call => i = j

(* b is what a wallet that holds so much will hold after each of the approvals
   in s, of which the last one leaves the rest. *)
Budget(b, s, held, rest) ==
  /\ b \in [0 .. Len(s) -> Nat]
  /\ b[0] = held /\ b[Len(s)] = rest
  /\ \A i \in 1 .. Len(s) : b[i - 1] = b[i] + s[i].call.value

Funded(s, held, rest) == \E b : Budget(b, s, held, rest)

(* The test proposes, approves and executes one call. *)
Kept(approvals) ==
  /\ DOMAIN open = {W!Refund} /\ info.call = W!Refund
  /\ open[W!Refund].when = info.timepoint
  /\ open[W!Refund].approvals = approvals /\ open[W!Refund].stored = FALSE

TestInv ==
  /\ events = <<>> /\ outcomeW = TRUE
  /\ pcW \in {"deposit", "propose", "approve", "execute", "end"}
  /\ pcW = "deposit" => wallet = 0
  /\ pcW \in {"propose", "approve", "execute"} => wallet = Deposit
  /\ pcW \in {"deposit", "propose", "end"} => DOMAIN open = {}
  /\ pcW = "approve" => Kept({"consumer"})
  /\ pcW = "execute" => Kept(W!Parties)
  /\ pcW = "end" => wallet = cost

(* What the pallet keeps is well formed. *)
PalletOK ==
  /\ now \in Nat /\ wallet \in Nat /\ outcomeW \in BOOLEAN
  /\ open = [c \in DOMAIN open |-> open[c]]
  /\ \A c \in DOMAIN open :
       c \in W!Calls /\ open[c] \in [when : 0 .. now, approvals : SUBSET W!Parties, stored : BOOLEAN]

PayTypes == W!TypeOK /\ PalletOK /\ Deposit - cost \in Amounts

ServiceInv ==
  /\ pcW \in {"deposit", "spent", "deliver_spent", "refund", "deliver_refund", "end"}
  /\ ~met => outcomeW = TRUE /\ Matched(Pending, open) /\ Funded(Pending, wallet, Rest)

PayInv ==
  /\ PayTypes
  /\ flow = "service" => ServiceInv
  /\ flow = "test" => TestInv

(* What the assumption says of the constants of the wallet. *)
LEMMA PayConstants == Amounts \subseteq Nat \ {0} /\ Deposit \in Nat /\ Services \in Nat
BY OperatorAssumption DEF W!MultisigAssumption

(* The two calls of the multisig test, which differ in their value. *)
LEMMA CallTypes ==
  ASSUME PayTypes
  PROVE  /\ W!Spent \in W!Calls /\ W!Refund \in W!Calls
         /\ W!Spent.value = cost /\ W!Refund.value = Deposit - cost
         /\ W!Spent # W!Refund
BY DEF PayTypes, W!TypeOK, W!Spent, W!Refund, W!Calls, W!Parties

(* An executed call leaves the wallet and the open calls what they are by type. *)
LEMMA ExecuteTyped ==
  ASSUME PalletOK, NEW call \in W!Calls, now' = now + 1, outcomeW' \in BOOLEAN, W!Execute(call)
  PROVE  PalletOK'
<1>1. call.value \in Nat
  BY PayConstants DEF W!Calls
<1>2. wallet' \in Nat
  BY <1>1 DEF W!Execute, PalletOK
<1>3. open' = [c \in DOMAIN open \ {call} |-> open[c]]
  BY DEF W!Execute, W!Restrict
<1>4. \A c \in DOMAIN open' :
        c \in W!Calls /\ open'[c] \in [when : 0 .. now', approvals : SUBSET W!Parties, stored : BOOLEAN]
  BY <1>3 DEF PalletOK
<1> QED
  BY <1>2, <1>3, <1>4 DEF PalletOK

(* as_multi keeps the types, whichever of its outcomes it has. *)
LEMMA AsMultiTyped ==
  ASSUME PalletOK, NEW who \in W!Parties, NEW call \in W!Calls, NEW timepoint \in Nat,
         NEW stored \in BOOLEAN, W!as_multi(who, call, timepoint, stored)
  PROVE  PalletOK'
<1>1. now' = now + 1
  BY DEF W!as_multi
<1>2. CASE /\ open' = [c \in DOMAIN open \cup {call} |->
                         IF c \in DOMAIN open THEN open[c]
                         ELSE [when |-> now, approvals |-> {who}, stored |-> stored]]
           /\ UNCHANGED <<wallet, outcomeW>>
  BY <1>1, <1>2 DEF PalletOK
<1>3. CASE W!Execute(call) /\ UNCHANGED outcomeW
  BY <1>1, <1>3, ExecuteTyped DEF PalletOK
<1>4. CASE W!Refused
  <2>1. outcomeW' \in BOOLEAN
    BY <1>4 DEF W!Refused
  <2> QED
    BY <1>1, <1>4, <2>1 DEF W!Refused, PalletOK
<1> QED
  BY <1>2, <1>3, <1>4 DEF W!as_multi

(* approve_as_multi keeps the types, whichever of its outcomes it has. *)
LEMMA ApproveTyped ==
  ASSUME PalletOK, NEW who \in W!Parties, NEW call \in W!Calls, NEW timepoint \in Nat,
         W!approve_as_multi(who, call, timepoint)
  PROVE  PalletOK'
<1>1. now' = now + 1
  BY DEF W!approve_as_multi
<1>2. CASE /\ open' = [open EXCEPT ![call].approvals = @ \cup {who}]
           /\ call \in DOMAIN open
           /\ UNCHANGED <<wallet, outcomeW>>
  <2>1. /\ DOMAIN open' = DOMAIN open
        /\ open' = [c \in DOMAIN open |-> IF c = call
                      THEN [open[call] EXCEPT !.approvals = @ \cup {who}] ELSE open[c]]
    BY <1>2
  <2>2. \A c \in DOMAIN open' :
          c \in W!Calls /\ open'[c] \in [when : 0 .. now', approvals : SUBSET W!Parties, stored : BOOLEAN]
    BY <1>1, <2>1 DEF PalletOK
  <2>3. open' = [c \in DOMAIN open' |-> open'[c]]
    BY <2>1
  <2> QED
    BY <1>1, <1>2, <2>2, <2>3 DEF PalletOK
<1>3. CASE W!Execute(call) /\ UNCHANGED outcomeW
  BY <1>1, <1>3, ExecuteTyped DEF PalletOK
<1>4. CASE W!Refused
  <2>1. outcomeW' \in BOOLEAN
    BY <1>4 DEF W!Refused
  <2> QED
    BY <1>1, <1>4, <2>1 DEF W!Refused, PalletOK
<1> QED
  BY <1>2, <1>3, <1>4 DEF W!approve_as_multi

(* Every step of the payments keeps PayTypes. *)
LEMMA PayTyped == PayTypes /\ [W!Next]_(W!vars) => PayTypes'
<1> SUFFICES ASSUME PayTypes, [W!Next]_(W!vars) PROVE PayTypes'
  OBVIOUS
<1>t. /\ PalletOK /\ W!TypeOK /\ Deposit - cost \in Amounts /\ W!Spent \in W!Calls /\ W!Refund \in W!Calls
      /\ "provider" \in W!Parties /\ "consumer" \in W!Parties
  BY CallTypes DEF PayTypes, W!Parties
<1> DEFINE Others ==
      /\ flow \in {"service", "test"} /\ served \in Nat
      /\ pcW \in {"deposit", "spent", "deliver_spent", "refund", "deliver_refund",
                  "propose", "approve", "execute", "end"}
      /\ cost \in Amounts /\ Deposit - cost \in Amounts
      /\ info \in [call : W!Calls, timepoint : Nat]
      /\ events \in Seq([call : W!Calls, timepoint : Nat])
      /\ met \in BOOLEAN
<1>o. Others
  BY <1>t DEF W!TypeOK
<1>q. ASSUME PalletOK', Others' PROVE PayTypes'
  BY <1>q DEF PayTypes, W!TypeOK, PalletOK
<1>i. ASSUME NEW call \in W!Calls PROVE [call |-> call, timepoint |-> now] \in [call : W!Calls, timepoint : Nat]
  BY <1>t DEF PalletOK
<1>1. CASE W!DepositMoney
  <2>1. PalletOK'
    BY <1>1, <1>t, PayConstants DEF W!DepositMoney, PalletOK
  <2>2. Others'
    BY <1>1, <1>o DEF W!DepositMoney
  <2> QED
    BY <2>1, <2>2, <1>q
<1>2. CASE W!ProposeSpent
  <2>1. PalletOK'
    BY <1>2, <1>t, AsMultiTyped, 0 \in Nat DEF W!ProposeSpent, W!Propose
  <2>2. Others'
    BY <1>2, <1>o, <1>i, <1>t DEF W!ProposeSpent, W!Propose
  <2> QED
    BY <2>1, <2>2, <1>q
<1>3. CASE W!ProposeRefund
  <2>1. PalletOK'
    BY <1>3, <1>t, AsMultiTyped, 0 \in Nat DEF W!ProposeRefund, W!Propose
  <2>2. Others'
    BY <1>3, <1>o, <1>i, <1>t DEF W!ProposeRefund, W!Propose
  <2> QED
    BY <2>1, <2>2, <1>q
<1>4. CASE W!DeliverSpent \/ W!DeliverRefund
  <2>1. PalletOK'
    BY <1>4, <1>t DEF W!DeliverSpent, W!DeliverRefund, W!Delivered, PalletOK
  <2>2. Others'
    <3>1. Append(events, info) \in Seq([call : W!Calls, timepoint : Nat])
      BY <1>o, AppendProperties
    <3>2. served' \in Nat /\ pcW' \in {"refund", "deposit", "end"}
      BY <1>4, <1>o DEF W!DeliverSpent, W!DeliverRefund
    <3>3. events' = Append(events, info) /\ UNCHANGED <<flow, cost, info, met>>
      BY <1>4 DEF W!DeliverSpent, W!DeliverRefund, W!Delivered
    <3> QED
      BY <1>o, <3>1, <3>2, <3>3
  <2> QED
    BY <2>1, <2>2, <1>q
<1>5. CASE W!ApproveToken
  <2>1. Head(events) \in [call : W!Calls, timepoint : Nat] /\ Tail(events) \in Seq([call : W!Calls, timepoint : Nat])
    BY <1>5, <1>o, HeadTailProperties DEF W!ApproveToken
  <2>2. PalletOK'
    BY <1>5, <1>t, <2>1, ApproveTyped DEF W!ApproveToken
  <2>3. Others'
    BY <1>5, <1>o, <2>1 DEF W!ApproveToken
  <2> QED
    BY <2>2, <2>3, <1>q
<1>6. CASE W!SendProposal
  <2>1. PalletOK'
    BY <1>6, <1>t, AsMultiTyped, 0 \in Nat DEF W!SendProposal
  <2>2. Others'
    BY <1>6, <1>o, <1>i, <1>t DEF W!SendProposal, W!Step
  <2> QED
    BY <2>1, <2>2, <1>q
<1>7. CASE W!SendApproval \/ W!SendFinal
  <2>1. info.call \in W!Calls /\ info.timepoint \in Nat
    BY <1>o
  <2>2. PalletOK'
    BY <1>7, <1>t, <2>1, ApproveTyped, AsMultiTyped DEF W!SendApproval, W!SendFinal
  <2>3. Others'
    BY <1>7, <1>o DEF W!SendApproval, W!SendFinal, W!Step
  <2> QED
    BY <2>2, <2>3, <1>q
<1>8. CASE UNCHANGED W!vars
  BY <1>8, <1>t DEF W!vars, W!pallet, PayTypes, PalletOK, W!TypeOK
<1> QED
  BY <1>1, <1>2, <1>3, <1>4, <1>5, <1>6, <1>7, <1>8 DEF W!Next, W!Ended

(* What is noted of a proposal is a call with a value and its block. *)
LEMMA InfoValue == ASSUME NEW e \in Infos PROVE e.call \in W!Calls /\ e.call.value \in Nat /\ e.timepoint \in Nat
BY PayConstants DEF Infos, W!Calls

(* A wallet that has only what nothing noted needs is the rest and no more. *)
LEMMA FundedNone ==
  ASSUME NEW held \in Nat, NEW rest PROVE Funded(<<>>, held, rest) <=> held = rest
<1>1. ASSUME held = rest PROVE Funded(<<>>, held, rest)
  <2>1. Budget([i \in 0 .. 0 |-> held], <<>>, held, rest)
    BY <1>1 DEF Budget
  <2> QED
    BY <2>1 DEF Funded
<1> QED
  BY <1>1 DEF Funded, Budget

(* More in the wallet is so much more of a rest. *)
LEMMA FundedMore ==
  ASSUME NEW s \in Seq(Infos), NEW held \in Nat, NEW rest \in Nat, NEW more \in Nat,
         Funded(s, held, rest)
  PROVE  Funded(s, held + more, rest + more)
<1>1. PICK b : Budget(b, s, held, rest)
  BY DEF Funded
<1>2. Len(s) \in Nat
  BY LenProperties
<1> DEFINE d == [i \in 0 .. Len(s) |-> b[i] + more]
<1>3. d \in [0 .. Len(s) -> Nat]
  BY <1>1 DEF Budget
<1>4. \A i \in 0 .. Len(s) : d[i] = b[i] + more /\ b[i] \in Nat
  BY <1>1 DEF Budget
<1>5. ASSUME NEW i \in 1 .. Len(s) PROVE d[i - 1] = d[i] + s[i].call.value
  <2>1. i \in 0 .. Len(s) /\ i - 1 \in 0 .. Len(s) /\ s[i].call.value \in Nat
    BY <1>2, ElementOfSeq, InfoValue
  <2>2. b[i - 1] = b[i] + s[i].call.value
    BY <1>1 DEF Budget
  <2>3. d[i - 1] = b[i - 1] + more /\ d[i] = b[i] + more /\ b[i] \in Nat
    BY <1>4, <2>1
  <2> HIDE DEF d
  <2> QED
    BY <2>1, <2>2, <2>3
<1>6. d[0] = held + more /\ d[Len(s)] = rest + more
  BY <1>1, <1>2, <1>4 DEF Budget
<1>7. Budget(d, s, held + more, rest + more)
  BY <1>3, <1>5, <1>6 DEF Budget
<1> QED
  BY <1>7 DEF Funded

(* A proposal of no more than what remains can be paid after all the others. *)
LEMMA FundedAppend ==
  ASSUME NEW s \in Seq(Infos), NEW e \in Infos, NEW held \in Nat, NEW rest \in Nat, NEW left \in Nat,
         rest = left + e.call.value, Funded(s, held, rest)
  PROVE  Funded(Append(s, e), held, left)
<1>1. PICK b : Budget(b, s, held, rest)
  BY DEF Funded
<1>2. /\ Len(s) \in Nat /\ Len(Append(s, e)) = Len(s) + 1
      /\ \A i \in 1 .. Len(s) : Append(s, e)[i] = s[i]
      /\ Append(s, e)[Len(s) + 1] = e
  BY LenProperties, AppendProperties
<1> DEFINE d == [i \in 0 .. Len(s) + 1 |-> IF i <= Len(s) THEN b[i] ELSE left]
<1>3. d \in [0 .. Len(s) + 1 -> Nat]
  BY <1>1, <1>2 DEF Budget
<1>4. (\A i \in 0 .. Len(s) : d[i] = b[i]) /\ d[Len(s) + 1] = left
  BY <1>2
<1> HIDE DEF d
<1>5. ASSUME NEW i \in 1 .. Len(s) + 1 PROVE d[i - 1] = d[i] + Append(s, e)[i].call.value
  <2>1. CASE i = Len(s) + 1
    BY <1>1, <1>2, <1>4, <2>1 DEF Budget
  <2>2. CASE i # Len(s) + 1
    BY <1>1, <1>2, <1>4, <2>2 DEF Budget
  <2> QED
    BY <2>1, <2>2
<1>6. d[0] = held
  BY <1>1, <1>2, <1>4 DEF Budget
<1>7. Budget(d, Append(s, e), held, left)
  BY <1>2, <1>3, <1>4, <1>5, <1>6 DEF Budget
<1> QED
  BY <1>7 DEF Funded

(* The wallet can pay the first of the approvals, and the others after it. *)
LEMMA FundedTail ==
  ASSUME NEW s \in Seq(Infos), s # <<>>, NEW held \in Nat, NEW rest \in Nat, Funded(s, held, rest)
  PROVE  /\ held - Head(s).call.value \in Nat
         /\ Funded(Tail(s), held - Head(s).call.value, rest)
<1>1. PICK b : Budget(b, s, held, rest)
  BY DEF Funded
<1>2. /\ Len(s) \in Nat \ {0} /\ Len(Tail(s)) = Len(s) - 1
      /\ \A i \in 1 .. Len(s) - 1 : Tail(s)[i] = s[i + 1]
      /\ Head(s) = s[1]
  BY EmptySeq, HeadTailProperties
<1>3. Head(s).call.value \in Nat
  BY HeadTailProperties, InfoValue
<1> DEFINE d == [i \in 0 .. Len(s) - 1 |-> b[i + 1]]
<1>4. d \in [0 .. Len(s) - 1 -> Nat]
  BY <1>1, <1>2 DEF Budget
<1>5. \A i \in 0 .. Len(s) - 1 : d[i] = b[i + 1]
  OBVIOUS
<1>6. b[1] \in Nat /\ held = b[1] + Head(s).call.value
  BY <1>1, <1>2 DEF Budget
<1> HIDE DEF d
<1>7. ASSUME NEW i \in 1 .. Len(s) - 1 PROVE d[i - 1] = d[i] + Tail(s)[i].call.value
  <2>1. b[i] = b[i + 1] + s[i + 1].call.value
    BY <1>1, <1>2 DEF Budget
  <2>2. i \in 0 .. Len(s) - 1 /\ i - 1 \in 0 .. Len(s) - 1 /\ (i - 1) + 1 = i
    BY <1>2
  <2> QED
    BY <1>2, <1>5, <2>1, <2>2
<1>8. d[0] = b[1] /\ d[Len(s) - 1] = rest
  BY <1>1, <1>2, <1>5 DEF Budget
<1>9. Budget(d, Tail(s), held - Head(s).call.value, rest)
  BY <1>2, <1>3, <1>4, <1>6, <1>7, <1>8 DEF Budget
<1> QED
  BY <1>3, <1>6, <1>9 DEF Funded

(* A new call that is noted last matches what is open. *)
LEMMA MatchedAppend ==
  ASSUME NEW s \in Seq(Infos), NEW o, NEW e \in Infos, e.call \notin DOMAIN o, Matched(s, o),
         NEW p, p = [c \in DOMAIN o \cup {e.call} |->
                      IF c \in DOMAIN o THEN o[c]
                      ELSE [when |-> e.timepoint, approvals |-> {"provider"}, stored |-> TRUE]]
  PROVE  Matched(Append(s, e), p)
<1> DEFINE k == [when |-> e.timepoint, approvals |-> {"provider"}, stored |-> TRUE]
<1>1. /\ Len(s) \in Nat /\ Len(Append(s, e)) = Len(s) + 1
      /\ \A i \in 1 .. Len(s) : Append(s, e)[i] = s[i]
      /\ Append(s, e)[Len(s) + 1] = e
  BY LenProperties, AppendProperties
<1>2. DOMAIN p = DOMAIN o \cup {e.call} /\ p[e.call] = k /\ \A c \in DOMAIN o : p[c] = o[c]
  OBVIOUS
<1>3. k.when = e.timepoint /\ k.approvals = {"provider"} /\ k.stored = TRUE
  OBVIOUS
<1> HIDE DEF k
<1>4. \A i \in 1 .. Len(s) : s[i].call \in DOMAIN o /\ s[i].call # e.call
  BY DEF Matched
<1>5. ASSUME NEW i \in 1 .. Len(s) + 1
      PROVE  /\ Append(s, e)[i].call \in DOMAIN p
             /\ p[Append(s, e)[i].call].when = Append(s, e)[i].timepoint
  BY <1>1, <1>2, <1>4, <1>3 DEF Matched
<1>6. ASSUME NEW c \in DOMAIN p
      PROVE  /\ p[c].approvals = {"provider"} /\ p[c].stored = TRUE
             /\ \E i \in 1 .. Len(s) + 1 : Append(s, e)[i].call = c
  <2>1. CASE c = e.call
    BY <1>1, <1>2, <1>3, <2>1
  <2>2. CASE c \in DOMAIN o
    BY <1>1, <1>2, <2>2 DEF Matched
  <2> QED
    BY <1>2, <2>1, <2>2
<1>7. \A i, j \in 1 .. Len(s) + 1 : Append(s, e)[i].call = Append(s, e)[j].call => i = j
  <2>1. \A i, j \in 1 .. Len(s) : s[i].call = s[j].call => i = j
    BY DEF Matched
  <2>2. \A i \in 1 .. Len(s) + 1 : i = Len(s) + 1 \/ i \in 1 .. Len(s)
    BY <1>1
  <2> SUFFICES ASSUME NEW i \in 1 .. Len(s) + 1, NEW j \in 1 .. Len(s) + 1,
                      Append(s, e)[i].call = Append(s, e)[j].call
               PROVE  i = j
    OBVIOUS
  <2> QED
    BY <1>1, <1>4, <2>1, <2>2
<1> QED
  BY <1>1, <1>5, <1>6, <1>7 DEF Matched

(* The first call noted is executed: the others match what stays open. *)
LEMMA MatchedTail ==
  ASSUME NEW s \in Seq(Infos), s # <<>>, NEW o, Matched(s, o)
  PROVE  /\ Head(s).call \in DOMAIN o /\ o[Head(s).call].when = Head(s).timepoint
         /\ o[Head(s).call].approvals = {"provider"} /\ o[Head(s).call].stored = TRUE
         /\ Matched(Tail(s), [c \in DOMAIN o \ {Head(s).call} |-> o[c]])
<1> DEFINE p == [c \in DOMAIN o \ {Head(s).call} |-> o[c]]
<1>1. /\ Len(s) \in Nat \ {0} /\ Len(Tail(s)) = Len(s) - 1
      /\ \A i \in 1 .. Len(s) - 1 : Tail(s)[i] = s[i + 1]
      /\ Head(s) = s[1]
  BY EmptySeq, HeadTailProperties
<1>2. DOMAIN p = DOMAIN o \ {Head(s).call} /\ \A c \in DOMAIN p : p[c] = o[c]
  OBVIOUS
<1> HIDE DEF p
<1>3. Head(s).call \in DOMAIN o /\ o[Head(s).call].when = Head(s).timepoint
  BY <1>1 DEF Matched
<1>4. \A i \in 1 .. Len(s) - 1 : s[i + 1].call \in DOMAIN o \ {Head(s).call}
  BY <1>1 DEF Matched
<1>5. \A i \in 1 .. Len(s) - 1 :
        Tail(s)[i].call \in DOMAIN p /\ p[Tail(s)[i].call].when = Tail(s)[i].timepoint
  BY <1>1, <1>2, <1>4 DEF Matched
<1>6. ASSUME NEW c \in DOMAIN p
      PROVE  /\ p[c].approvals = {"provider"} /\ p[c].stored = TRUE
             /\ \E i \in 1 .. Len(s) - 1 : Tail(s)[i].call = c
  <2>1. PICK i \in 1 .. Len(s) : s[i].call = c
    BY <1>2 DEF Matched
  <2>2. i # 1 /\ i - 1 \in 1 .. Len(s) - 1 /\ (i - 1) + 1 = i
    BY <1>1, <1>2, <2>1
  <2>3. Tail(s)[i - 1].call = c
    BY <1>1, <2>1, <2>2
  <2>4. p[c].approvals = {"provider"} /\ p[c].stored = TRUE
    BY <1>2 DEF Matched
  <2> QED
    BY <2>2, <2>3, <2>4
<1>7. \A i, j \in 1 .. Len(s) - 1 : Tail(s)[i].call = Tail(s)[j].call => i = j
  <2> SUFFICES ASSUME NEW i \in 1 .. Len(s) - 1, NEW j \in 1 .. Len(s) - 1,
                      Tail(s)[i].call = Tail(s)[j].call
               PROVE  i = j
    OBVIOUS
  <2>1. s[i + 1].call = s[j + 1].call /\ i + 1 \in 1 .. Len(s) /\ j + 1 \in 1 .. Len(s)
    BY <1>1
  <2>2. i + 1 = j + 1
    BY <2>1 DEF Matched
  <2> QED
    BY <2>2
<1>8. Matched(Tail(s), p)
  BY <1>1, <1>5, <1>6, <1>7 DEF Matched
<1> QED
  BY <1>3, <1>8 DEF p, Matched

(* The calls still to be executed are a sequence of notes. *)
LEMMA PendingType == PayTypes => Pending \in Seq(Infos) /\ info \in Infos /\ Rest \in Nat
<1> SUFFICES ASSUME PayTypes PROVE Pending \in Seq(Infos) /\ info \in Infos /\ Rest \in Nat
  OBVIOUS
<1>1. events \in Seq(Infos) /\ info \in Infos /\ cost \in Amounts /\ Deposit - cost \in Amounts
  BY DEF PayTypes, W!TypeOK, Infos
<1>2. Append(events, info) \in Seq(Infos)
  BY <1>1, AppendProperties
<1> QED
  BY <1>1, <1>2, PayConstants DEF Pending, Rest

(* PayInv holds when the wallet is created. *)
LEMMA PayInitial == W!Init => PayInv
<1> SUFFICES ASSUME W!Init PROVE PayInv
  OBVIOUS
<1>1. events \in Seq(Infos) /\ DOMAIN open = {} /\ open = [c \in DOMAIN open |-> open[c]]
  BY EmptySeq DEF W!Init
<1>2. W!Spent \in W!Calls /\ info = [call |-> W!Spent, timepoint |-> 0]
  BY DEF W!Init, W!Spent, W!Calls, W!Parties
<1>3. PalletOK
  <2>1. outcomeW \in BOOLEAN /\ now \in Nat /\ wallet \in Nat
    BY DEF W!Init
  <2> QED
    BY <1>1, <2>1 DEF PalletOK
<1>4. PayTypes
  <2>1. met \in BOOLEAN /\ served \in Nat
    BY DEF W!Init
  <2>2. info \in [call : W!Calls, timepoint : Nat]
    BY <1>2
  <2> QED
    BY <1>1, <1>3, <2>1, <2>2 DEF W!Init, PayTypes, PalletOK, W!TypeOK, Infos
<1>5. Pending = <<>> /\ Rest = 0 /\ wallet = 0
  BY DEF W!Init, Pending, Rest
<1>6. Funded(Pending, wallet, Rest)
  BY <1>5, FundedNone
<1>7. Matched(Pending, open)
  BY <1>1, <1>5 DEF Matched
<1> QED
  BY <1>1, <1>4, <1>6, <1>7 DEF W!Init, PayInv, ServiceInv, TestInv

(* A proposal of a call that does not wait yet adds it to what is pending. *)
LEMMA ProposeKeeps ==
  ASSUME PayTypes, Matched(events, open), Funded(events, wallet, Rest), outcomeW = TRUE,
         NEW call \in W!Calls, call \notin DOMAIN open, W!Propose(call),
         NEW left \in Nat, Rest = left + call.value
  PROVE  /\ Matched(Append(events', info'), open') /\ outcomeW' = TRUE
         /\ Funded(Append(events', info'), wallet', left)
<1>1. events \in Seq(Infos) /\ Rest \in Nat /\ wallet \in Nat /\ now \in Nat
  BY PendingType DEF PayTypes, W!TypeOK, Infos, PalletOK
<1>2. /\ info' = [call |-> call, timepoint |-> now] /\ events' = events
      /\ UNCHANGED <<wallet, outcomeW>>
      /\ open' = [c \in DOMAIN open \cup {call} |->
                   IF c \in DOMAIN open THEN open[c]
                   ELSE [when |-> now, approvals |-> {"provider"}, stored |-> TRUE]]
  BY DEF W!Propose, W!as_multi
<1>3. info' \in Infos
  BY <1>1, <1>2 DEF Infos
<1>4. Funded(Append(events, info'), wallet, left)
  BY <1>1, <1>2, <1>3, FundedAppend
<1>5. info'.call = call /\ info'.timepoint = now
  BY <1>2
<1>6. Matched(Append(events, info'), open')
  BY <1>1, <1>2, <1>3, <1>5, MatchedAppend
<1> QED
  BY <1>2, <1>4, <1>6

(* The approval of the first pending call executes it. *)
LEMMA ApproveKeeps ==
  ASSUME PayTypes, Matched(Pending, open), Funded(Pending, wallet, Rest), outcomeW = TRUE,
         W!ApproveToken
  PROVE  Matched(Pending', open') /\ Funded(Pending', wallet', Rest') /\ outcomeW' = TRUE
<1>1. /\ events \in Seq(Infos) /\ events # <<>> /\ Pending \in Seq(Infos) /\ Rest \in Nat
      /\ info \in Infos /\ wallet \in Nat
  BY PendingType DEF PayTypes, W!TypeOK, Infos, PalletOK, W!ApproveToken
<1>2. /\ events' = Tail(events) /\ UNCHANGED <<pcW, info, cost>>
      /\ W!approve_as_multi("consumer", Head(events).call, Head(events).timepoint)
  BY DEF W!ApproveToken
<1>3. Head(Pending) = Head(events) /\ Pending # <<>> /\ Pending' = Tail(Pending)
  <2>1. CASE pcW \in {"deliver_spent", "deliver_refund"}
    <3>1. Pending = Append(events, info) /\ Pending' = Append(Tail(events), info)
      BY <1>2, <2>1 DEF Pending
    <3>2. Head(Append(events, info)) = Head(events) /\ Append(events, info) # <<>>
            /\ Append(Tail(events), info) = Tail(Append(events, info))
      BY <1>1
    <3> QED
      BY <3>1, <3>2
  <2>2. CASE pcW \notin {"deliver_spent", "deliver_refund"}
    BY <1>1, <1>2, <2>2 DEF Pending
  <2> QED
    BY <2>1, <2>2
<1>4. /\ Head(Pending).call \in DOMAIN open
      /\ open[Head(Pending).call].when = Head(Pending).timepoint
      /\ open[Head(Pending).call].approvals = {"provider"} /\ open[Head(Pending).call].stored = TRUE
      /\ Matched(Tail(Pending), [c \in DOMAIN open \ {Head(Pending).call} |-> open[c]])
  BY <1>1, <1>3, MatchedTail
<1>5. W!Execute(Head(Pending).call) /\ UNCHANGED outcomeW
  <2>1. "consumer" \notin open[Head(Pending).call].approvals
    BY <1>4
  <2>2. W!approve_as_multi("consumer", Head(Pending).call, Head(Pending).timepoint)
    BY <1>2, <1>3
  <2> QED
    BY <1>4, <2>1, <2>2 DEF W!approve_as_multi
<1>6. /\ wallet - Head(Pending).call.value \in Nat
      /\ Funded(Tail(Pending), wallet - Head(Pending).call.value, Rest)
  BY <1>1, <1>3, FundedTail
<1>7. Head(Pending).call.value \in Nat
  BY <1>1, <1>3, HeadTailProperties, InfoValue
<1>8. wallet' = wallet - Head(Pending).call.value
  BY <1>1, <1>5, <1>6, <1>7 DEF W!Execute
<1>9. open' = [c \in DOMAIN open \ {Head(Pending).call} |-> open[c]]
  BY <1>5 DEF W!Execute, W!Restrict
<1>10. Rest' = Rest
  BY <1>2 DEF Rest
<1> QED
  BY <1>3, <1>4, <1>5, <1>6, <1>8, <1>9, <1>10

(* Every step of the paying service keeps its part of PayInv. *)
LEMMA ServiceStep ==
  ASSUME PayInv, W!Next, flow = "service" PROVE flow' = "service" /\ ServiceInv'
<1>t. PayTypes /\ ServiceInv /\ Rest \in Nat /\ wallet \in Nat /\ cost \in Nat /\ Deposit - cost \in Nat
  BY PendingType, PayConstants DEF PayInv, PayTypes, W!TypeOK, PalletOK
<1>1. CASE W!DepositMoney
  <2>1. /\ pcW = "deposit" /\ pcW' = "spent" /\ wallet' = wallet + Deposit
        /\ UNCHANGED <<flow, open, events, met, outcomeW>>
    BY <1>1 DEF W!DepositMoney
  <2>2. Pending' = Pending /\ Rest = 0 /\ Rest' = 0 + Deposit
    BY <2>1, PayConstants DEF Pending, Rest
  <2>3. ASSUME ~met PROVE Funded(Pending', wallet', Rest')
    BY <1>t, <2>1, <2>2, <2>3, FundedMore, PendingType, PayConstants DEF ServiceInv
  <2> QED
    BY <1>t, <2>1, <2>2, <2>3 DEF ServiceInv
<1>2. CASE W!ProposeSpent
  <2>1. /\ pcW = "spent" /\ pcW' = "deliver_spent" /\ W!Propose(W!Spent) /\ flow' = flow /\ cost' = cost
        /\ met' = (met \/ W!Spent \in DOMAIN open)
    BY <1>2 DEF W!ProposeSpent, W!Propose
  <2>2. Pending = events /\ Rest = (Deposit - cost) + cost /\ Rest' = Deposit - cost
        /\ Pending' = Append(events', info')
    BY <1>t, <2>1, PayConstants DEF Pending, Rest
  <2>3. ASSUME ~met' PROVE Matched(Pending', open') /\ Funded(Pending', wallet', Rest') /\ outcomeW' = TRUE
    <3>1. ~met /\ W!Spent \notin DOMAIN open
      BY <2>1, <2>3
    <3>2. Matched(events, open) /\ Funded(events, wallet, Rest) /\ outcomeW = TRUE
      BY <1>t, <2>2, <3>1 DEF ServiceInv
    <3>3. W!Spent \in W!Calls /\ W!Spent.value = cost
      BY <1>t, CallTypes
    <3> QED
      BY <1>t, <2>1, <2>2, <3>1, <3>2, <3>3, ProposeKeeps
  <2> QED
    BY <2>1, <2>3 DEF ServiceInv
<1>3. CASE W!ProposeRefund
  <2>1. /\ pcW = "refund" /\ pcW' = "deliver_refund" /\ W!Propose(W!Refund) /\ flow' = flow
        /\ met' = (met \/ W!Refund \in DOMAIN open)
    BY <1>3 DEF W!ProposeRefund, W!Propose
  <2>2. Pending = events /\ Rest = 0 + (Deposit - cost) /\ Rest' = 0 /\ 0 \in Nat
        /\ Pending' = Append(events', info')
    BY <1>t, <2>1, PayConstants DEF Pending, Rest
  <2>3. ASSUME ~met' PROVE Matched(Pending', open') /\ Funded(Pending', wallet', Rest') /\ outcomeW' = TRUE
    <3>1. ~met /\ W!Refund \notin DOMAIN open
      BY <2>1, <2>3
    <3>2. Matched(events, open) /\ Funded(events, wallet, Rest) /\ outcomeW = TRUE
      BY <1>t, <2>2, <3>1 DEF ServiceInv
    <3>3. W!Refund \in W!Calls /\ W!Refund.value = Deposit - cost
      BY <1>t, CallTypes
    <3> QED
      BY <1>t, <2>1, <2>2, <3>1, <3>2, <3>3, ProposeKeeps
  <2> QED
    BY <2>1, <2>3 DEF ServiceInv
<1>4. CASE W!DeliverSpent \/ W!DeliverRefund
  <2>1. /\ \/ pcW = "deliver_spent" /\ pcW' = "refund"
           \/ pcW = "deliver_refund" /\ pcW' \in {"deposit", "end"}
        /\ events' = Append(events, info) /\ UNCHANGED <<flow, wallet, open, cost, met, outcomeW>>
    BY <1>4 DEF W!DeliverSpent, W!DeliverRefund, W!Delivered
  <2>2. Pending' = Pending /\ Rest' = Rest
    BY <2>1 DEF Pending, Rest
  <2> QED
    BY <1>t, <2>1, <2>2 DEF ServiceInv
<1>5. CASE W!ApproveToken
  <2>1. UNCHANGED <<flow, pcW, met>>
    BY <1>5 DEF W!ApproveToken
  <2>2. ASSUME ~met PROVE Matched(Pending', open') /\ Funded(Pending', wallet', Rest') /\ outcomeW' = TRUE
    BY <1>t, <1>5, <2>2, ApproveKeeps DEF ServiceInv
  <2> QED
    BY <1>t, <2>1, <2>2 DEF ServiceInv
<1>6. CASE W!Ended
  BY <1>6, <1>t DEF W!Ended, W!vars, W!pallet, ServiceInv, Pending, Rest
<1>7. ~(W!SendProposal \/ W!SendApproval \/ W!SendFinal)
  BY <1>t DEF ServiceInv, W!SendProposal, W!SendApproval, W!SendFinal, W!Step
<1> QED
  BY <1>1, <1>2, <1>3, <1>4, <1>5, <1>6, <1>7 DEF W!Next

(* Every step of the multisig test keeps its part of PayInv. *)
LEMMA TestStep ==
  ASSUME PayInv, W!Next, flow = "test" PROVE flow' = "test" /\ TestInv'
<1>t. /\ PayTypes /\ TestInv /\ wallet \in Nat /\ cost \in Nat /\ Deposit \in Nat
      /\ Deposit - cost \in Nat /\ W!Refund.value = Deposit - cost /\ now \in Nat
  BY CallTypes, PayConstants DEF PayInv, PayTypes, W!TypeOK, PalletOK
<1>1. CASE W!DepositMoney
  <2>1. /\ pcW = "deposit" /\ pcW' = "propose" /\ wallet' = wallet + Deposit
        /\ UNCHANGED <<flow, open, events, outcomeW>>
    BY <1>1 DEF W!DepositMoney
  <2> QED
    BY <1>t, <2>1 DEF TestInv
<1>2. CASE W!SendProposal
  <2>1. /\ pcW = "propose" /\ W!as_multi("consumer", W!Refund, 0, FALSE)
        /\ info' = [call |-> W!Refund, timepoint |-> now]
        /\ UNCHANGED <<flow, cost, events>>
    BY <1>2 DEF W!SendProposal, W!Step
  <2>2. DOMAIN open = {} /\ wallet = Deposit /\ outcomeW = TRUE /\ events = <<>>
    BY <1>t, <2>1 DEF TestInv
  <2>3. /\ open' = [c \in DOMAIN open \cup {W!Refund} |->
                     IF c \in DOMAIN open THEN open[c]
                     ELSE [when |-> now, approvals |-> {"consumer"}, stored |-> FALSE]]
        /\ UNCHANGED <<wallet, outcomeW>>
    BY <2>1, <2>2 DEF W!as_multi
  <2>4. /\ DOMAIN open' = {W!Refund}
        /\ open'[W!Refund] = [when |-> now, approvals |-> {"consumer"}, stored |-> FALSE]
    BY <2>2, <2>3
  <2>5. W!Refund' = W!Refund
    BY <2>1 DEF W!Refund
  <2>6. Kept({"consumer"})'
    BY <2>1, <2>4, <2>5 DEF Kept
  <2>7. pcW' = "approve"
    BY <1>2, <2>2, <2>3 DEF W!SendProposal, W!Step
  <2> QED
    BY <2>1, <2>2, <2>3, <2>6, <2>7 DEF TestInv
<1>3. CASE W!SendApproval
  <2>1. /\ pcW = "approve" /\ W!approve_as_multi("provider", info.call, info.timepoint)
        /\ UNCHANGED <<flow, cost, events, info>>
    BY <1>3 DEF W!SendApproval, W!Step
  <2>2. Kept({"consumer"}) /\ wallet = Deposit /\ outcomeW = TRUE /\ events = <<>>
    BY <1>t, <2>1 DEF TestInv
  <2>3. "provider" \notin open[W!Refund].approvals
    BY <2>2 DEF Kept
  <2>4. /\ open' = [open EXCEPT ![W!Refund].approvals = @ \cup {"provider"}]
        /\ UNCHANGED <<wallet, outcomeW>>
    BY <2>1, <2>2, <2>3 DEF Kept, W!approve_as_multi
  <2>5. open[W!Refund] \in [when : 0 .. now, approvals : SUBSET W!Parties, stored : BOOLEAN]
    BY <1>t, <2>2 DEF PayTypes, PalletOK, Kept
  <2>6. /\ DOMAIN open' = {W!Refund} /\ open'[W!Refund].when = open[W!Refund].when
        /\ open'[W!Refund].stored = open[W!Refund].stored
        /\ open'[W!Refund].approvals = {"consumer"} \cup {"provider"}
    BY <2>2, <2>4, <2>5 DEF Kept
  <2>7. W!Refund' = W!Refund
    BY <2>1 DEF W!Refund
  <2>8. Kept(W!Parties)'
    BY <2>1, <2>2, <2>6, <2>7 DEF Kept, W!Parties
  <2>9. pcW' = "execute"
    BY <1>3, <2>2, <2>4 DEF W!SendApproval, W!Step
  <2> QED
    BY <2>1, <2>2, <2>4, <2>8, <2>9 DEF TestInv
<1>4. CASE W!SendFinal
  <2>1. /\ pcW = "execute" /\ W!as_multi("consumer", info.call, info.timepoint, FALSE)
        /\ UNCHANGED <<flow, cost, events>>
    BY <1>4 DEF W!SendFinal, W!Step
  <2>2. Kept(W!Parties) /\ wallet = Deposit /\ outcomeW = TRUE /\ events = <<>>
    BY <1>t, <2>1 DEF TestInv
  <2>3. W!Parties \cup {"consumer"} = W!Parties
    BY DEF W!Parties
  <2>4. W!Execute(W!Refund) /\ UNCHANGED outcomeW
    BY <2>1, <2>2, <2>3 DEF Kept, W!as_multi
  <2>5. wallet' = cost
    BY <1>t, <2>2, <2>4 DEF W!Execute
  <2>6. DOMAIN open' = {}
    BY <2>2, <2>4 DEF W!Execute, W!Restrict, Kept
  <2>7. pcW' = "end"
    BY <1>4, <2>2, <2>4 DEF W!SendFinal, W!Step
  <2> QED
    BY <2>1, <2>2, <2>4, <2>5, <2>6, <2>7 DEF TestInv
<1>5. CASE W!Ended
  BY <1>5, <1>t DEF W!Ended, W!vars, W!pallet, TestInv, Kept, W!Refund
<1>6. ~(W!ProposeSpent \/ W!DeliverSpent \/ W!ProposeRefund \/ W!DeliverRefund \/ W!ApproveToken)
  BY <1>t DEF TestInv, W!ProposeSpent, W!DeliverSpent, W!ProposeRefund, W!DeliverRefund,
              W!ApproveToken
<1> QED
  BY <1>1, <1>2, <1>3, <1>4, <1>5, <1>6 DEF W!Next

(* Every step of the payments keeps PayInv. *)
LEMMA PayStep == PayInv /\ [W!Next]_(W!vars) => PayInv'
<1> SUFFICES ASSUME PayInv, [W!Next]_(W!vars) PROVE PayInv'
  OBVIOUS
<1>1. PayTypes'
  BY PayTyped DEF PayInv
<1>2. CASE UNCHANGED W!vars
  BY <1>1, <1>2
  DEF W!vars, W!pallet, PayInv, ServiceInv, TestInv, Kept, Pending, Rest, W!Refund
<1>3. CASE W!Next
  <2>1. flow \in {"service", "test"}
    BY DEF PayInv, PayTypes, W!TypeOK
  <2> QED
    BY <1>1, <1>3, <2>1, ServiceStep, TestStep DEF PayInv
<1> QED
  BY <1>2, <1>3

(* PayInv is an invariant, and all that was deposited is paid out. *)
LEMMA PaidInvariant == W!Spec => [](PayInv /\ W!PaidOut)
<1>1. PayInv => W!PaidOut
  <2> SUFFICES ASSUME PayInv, pcW = "end", events = <<>>, ~met
               PROVE  outcomeW /\ open = <<>> /\ wallet = IF flow = "service" THEN 0 ELSE cost
    BY DEF W!PaidOut
  <2>1. flow \in {"service", "test"} /\ open = [c \in DOMAIN open |-> open[c]] /\ wallet \in Nat
    BY DEF PayInv, PayTypes, W!TypeOK, PalletOK
  <2>2. DOMAIN open = {} => open = <<>>
    BY <2>1
  <2>3. CASE flow = "service"
    <3>1. Pending = <<>> /\ Rest = 0
      BY DEF Pending, Rest
    <3>2. outcomeW = TRUE /\ Matched(<<>>, open) /\ Funded(<<>>, wallet, 0)
      BY <2>3, <3>1 DEF PayInv, ServiceInv
    <3>3. DOMAIN open = {}
      BY <3>2, Len(<<>>) = 0, 1 .. 0 = {} DEF Matched
    <3>4. wallet = 0
      BY <2>1, <3>2, FundedNone
    <3> QED
      BY <2>2, <2>3, <3>2, <3>3, <3>4
  <2>4. CASE flow = "test"
    <3>1. outcomeW = TRUE /\ DOMAIN open = {} /\ wallet = cost
      BY <2>4 DEF PayInv, TestInv
    <3> QED
      BY <2>2, <2>4, <3>1
  <2> QED
    BY <2>1, <2>3, <2>4
<1> QED
  BY <1>1, PayInitial, PayStep, PTL DEF W!Spec

-----------------------------------------------------------------------------
(* AssetSetup *)

(* The price of a location comes with the location, and whoever creates a shared
   asset gives it metadata in the same batch. *)
ChainOK ==
  /\ located \subseteq priced
  /\ \A a \in Fixed \cap DOMAIN assets : assets[a].metadata = TRUE

CallerOK(c) ==
  /\ pcA[c] \in {"asset", "create", "location", "register", "ready"} => id[c] \in Fixed
  /\ pcA[c] \in {"location", "register", "ready"} => id[c] \in DOMAIN assets
  /\ pcA[c] = "ready" => id[c] \in priced
  /\ pcA[c] = "owned" => id[c] \in DOMAIN assets /\ assets[id[c]].owner = c

ScriptOK ==
  /\ step = "force" => got \in FirstId .. LastId
  /\ step \in {"fund", "pick", "force"} => Len(made) < Tokens
  /\ step \in {"mint", "approve", "end"} => Len(made) = Tokens
  /\ step \in {"fund", "pick", "force"} => minted = 0
  /\ step \in {"fund", "pick", "force", "mint"} => approved = 0
  /\ step = "mint" => minted < Tokens
  /\ step = "approve" => approved < Tokens - 1
  /\ \A k \in 1 .. Len(made) : made[k] \in DOMAIN assets /\ assets[made[k]].owner = "owner"
  /\ \A j, k \in 1 .. Len(made) : made[j] = made[k] => j = k

SetUpInv ==
  /\ A!TypeOK
  /\ ChainOK
  /\ \A c \in Callers : CallerOK(c)
  /\ ScriptOK

(* What the assumption says of the ids and the tokens. *)
LEMMA SetUpConstants ==
  /\ Fixed \subseteq Nat /\ FirstId \in Nat /\ LastId \in Nat /\ Fixed \cap FirstId .. LastId = {}
  /\ NoId \notin Nat /\ Tokens \in Nat /\ Tokens > 1
BY OperatorAssumption DEF A!AssetSetupAssumption

(* The id that is picked is free. *)
LEMMA PickedId ==
  \/ A!get_valid_asset_id = NoId
  \/ A!get_valid_asset_id \in (FirstId .. LastId) \ DOMAIN assets
<1>1. CASE FirstId .. LastId \subseteq DOMAIN assets
  BY <1>1 DEF A!get_valid_asset_id
<1>2. CASE ~(FirstId .. LastId \subseteq DOMAIN assets)
  <2>1. (FirstId .. LastId) \ DOMAIN assets \in SUBSET Nat /\ (FirstId .. LastId) \ DOMAIN assets # {}
    BY <1>2, SetUpConstants
  <2>2. A!get_valid_asset_id = A!Min((FirstId .. LastId) \ DOMAIN assets)
    BY <1>2 DEF A!get_valid_asset_id
  <2> QED
    BY <2>1, <2>2, LeastNumber DEF A!Min
<1> QED
  BY <1>1, <1>2

(* No batch changes an asset that exists, or takes a price back. *)
Grows ==
  /\ \A a \in DOMAIN assets : a \in DOMAIN assets' /\ assets'[a] = assets[a]
  /\ priced \subseteq priced'

(* A creation adds one asset and touches no other. *)
LEMMA CreatesGrows ==
  ASSUME A!TypeOK, ChainOK, NEW a, NEW who \in A!Owners, NEW metadata \in BOOLEAN,
         a \in Fixed => metadata = TRUE, A!Creates(a, who, metadata), UNCHANGED <<located, priced>>
  PROVE  /\ Grows /\ ChainOK'
         /\ a \in A!Ids \ DOMAIN assets /\ DOMAIN assets' = DOMAIN assets \cup {a}
         /\ assets'[a] = [owner |-> who, metadata |-> metadata]
         /\ DOMAIN assets' \subseteq A!Ids
         /\ assets' \in [DOMAIN assets' -> [owner : A!Owners, metadata : BOOLEAN]]
<1>1. /\ a \in A!Ids \ DOMAIN assets
      /\ assets' = [x \in DOMAIN assets \cup {a} |->
                     IF x = a THEN [owner |-> who, metadata |-> metadata] ELSE assets[x]]
  BY DEF A!Creates
<1>2. /\ DOMAIN assets' = DOMAIN assets \cup {a}
      /\ assets'[a] = [owner |-> who, metadata |-> metadata]
      /\ \A x \in DOMAIN assets : assets'[x] = assets[x]
  BY <1>1
<1>3. DOMAIN assets \subseteq A!Ids /\ \A x \in DOMAIN assets : assets[x] \in [owner : A!Owners, metadata : BOOLEAN]
  BY DEF A!TypeOK
<1>4. assets' \in [DOMAIN assets' -> [owner : A!Owners, metadata : BOOLEAN]]
  BY <1>1, <1>3
<1>5. assets'[a].metadata = metadata
  BY <1>2
<1> QED
  BY <1>1, <1>2, <1>3, <1>4, <1>5 DEF Grows, ChainOK

(* A caller that does nothing keeps what it has, and so does the script. *)
LEMMA OthersKept ==
  ASSUME A!TypeOK, Grows, NEW c \in Callers, CallerOK(c), pcA'[c] = pcA[c], id'[c] = id[c]
  PROVE  CallerOK(c)'
BY DEF Grows, CallerOK

(* The set-up script keeps its assets while the chain only grows. *)
LEMMA ScriptKept ==
  ASSUME A!TypeOK, Grows, ScriptOK, UNCHANGED A!script PROVE ScriptOK'
BY DEF Grows, ScriptOK, A!script

(* SetUpInv holds before anything is set up. *)
LEMMA SetUpInitial == A!Init => SetUpInv
<1> SUFFICES ASSUME A!Init PROVE SetUpInv
  OBVIOUS
<1>1. DOMAIN assets = {} /\ assets \in [DOMAIN assets -> [owner : A!Owners, metadata : BOOLEAN]]
  BY DEF A!Init
<1>2. made \in Seq(A!Ids) /\ Len(made) = 0
  BY EmptySeq DEF A!Init
<1>3. A!TypeOK
  BY <1>1, <1>2, SetUpConstants DEF A!Init, A!TypeOK
<1>4. ChainOK
  BY <1>1 DEF A!Init, ChainOK
<1>5. ASSUME NEW c \in Callers PROVE CallerOK(c)
  BY DEF A!Init, CallerOK
<1>6. ScriptOK
  BY <1>2, SetUpConstants DEF A!Init, ScriptOK
<1> QED
  BY <1>3, <1>4, <1>5, <1>6 DEF SetUpInv

(* What a step does to the chain, so far as types go. *)
ChainTyped ==
  /\ DOMAIN assets \subseteq A!Ids
  /\ assets \in [DOMAIN assets -> [owner : A!Owners, metadata : BOOLEAN]]
  /\ priced \subseteq located /\ located \subseteq A!Ids

CallersTyped ==
  /\ pcA \in [Callers -> {"idle", "asset", "create", "location", "register", "ready",
                          "pick", "own", "owned", "failed"}]
  /\ id \in [Callers -> A!Ids \cup {NoId}]

(* It is enough to look at the caller that moves. *)
LEMMA CallerMoves ==
  ASSUME SetUpInv, NEW c \in Callers, UNCHANGED A!script,
         Grows, ChainTyped', ChainOK', CallersTyped', CallerOK(c)',
         \A d \in Callers \ {c} : pcA'[d] = pcA[d] /\ id'[d] = id[d]
  PROVE  SetUpInv'
<1>1. ScriptOK'
  BY ScriptKept DEF SetUpInv
<1>2. ASSUME NEW d \in Callers PROVE CallerOK(d)'
  <2>1. CASE d = c
    BY <2>1
  <2>2. CASE d # c
    BY <2>2, OthersKept DEF SetUpInv
  <2> QED
    BY <2>1, <2>2
<1>3. /\ minted' \in 0 .. Tokens /\ approved' \in 0 .. Tokens
      /\ step' \in {"fund", "pick", "force", "mint", "approve", "end", "raised"}
      /\ got' \in A!Ids \cup {NoId}
      /\ made' \in Seq(A!Ids)
  BY DEF SetUpInv, A!TypeOK, A!script
<1>4. A!TypeOK'
  BY <1>3 DEF ChainTyped, CallersTyped, A!TypeOK
<1> QED
  BY <1>1, <1>2, <1>4 DEF SetUpInv

(* A step of a caller that leaves the chain alone. *)
LEMMA CallerLooks ==
  ASSUME SetUpInv, NEW c \in Callers, UNCHANGED A!script, UNCHANGED A!chain,
         CallersTyped', CallerOK(c)',
         \A d \in Callers \ {c} : pcA'[d] = pcA[d] /\ id'[d] = id[d]
  PROVE  SetUpInv'
<1>1. Grows /\ ChainTyped' /\ ChainOK'
  BY DEF SetUpInv, A!TypeOK, A!chain, Grows, ChainTyped, ChainOK
<1> QED
  BY <1>1, CallerMoves

(* The steps of a caller that leave its asset what it is. *)
LEMMA CallerGoes ==
  ASSUME SetUpInv, NEW c \in Callers,
         NEW to \in {"idle", "asset", "create", "location", "register", "ready",
                     "pick", "own", "owned", "failed"},
         A!Goto(c, to), UNCHANGED id
  PROVE  /\ CallersTyped' /\ pcA'[c] = to /\ id'[c] = id[c] /\ id[c] \in A!Ids \cup {NoId}
         /\ \A d \in Callers \ {c} : pcA'[d] = pcA[d] /\ id'[d] = id[d]
BY DEF A!Goto, SetUpInv, A!TypeOK, CallersTyped

(* A step of a caller that turns to another asset, or to none. *)
LEMMA CallerTurns ==
  ASSUME SetUpInv, NEW c \in Callers,
         NEW to \in {"idle", "asset", "create", "location", "register", "ready",
                     "pick", "own", "owned", "failed"},
         NEW a \in A!Ids \cup {NoId},
         A!Goto(c, to), id' = [id EXCEPT ![c] = a]
  PROVE  /\ CallersTyped' /\ pcA'[c] = to /\ id'[c] = a
         /\ \A d \in Callers \ {c} : pcA'[d] = pcA[d] /\ id'[d] = id[d]
BY DEF A!Goto, SetUpInv, A!TypeOK, CallersTyped

(* Every step of a test keeps SetUpInv. *)
LEMMA CallerStep ==
  ASSUME SetUpInv, NEW c \in Callers, A!Caller(c)
  PROVE  SetUpInv'
<1> USE DEF A!At
<1>0. CallerOK(c) /\ A!TypeOK /\ ChainOK
  BY DEF SetUpInv
<1>1. CASE A!Start(c)
  <2>1. UNCHANGED A!script /\ UNCHANGED A!chain
    BY <1>1 DEF A!Start
  <2>2. CASE \E a \in Fixed : id' = [id EXCEPT ![c] = a] /\ A!Goto(c, "asset")
    <3>1. PICK a \in Fixed : id' = [id EXCEPT ![c] = a] /\ A!Goto(c, "asset")
      BY <2>2
    <3>2. a \in A!Ids \cup {NoId}
      BY DEF A!Ids
    <3>3. CallersTyped' /\ pcA'[c] = "asset" /\ id'[c] = a
          /\ \A d \in Callers \ {c} : pcA'[d] = pcA[d] /\ id'[d] = id[d]
      BY <3>1, <3>2, CallerTurns
    <3>4. CallerOK(c)'
      BY <3>3 DEF CallerOK
    <3> QED
      BY <2>1, <3>3, <3>4, CallerLooks
  <2>3. CASE A!Goto(c, "pick") /\ UNCHANGED id
    <3>1. CallersTyped' /\ pcA'[c] = "pick"
          /\ \A d \in Callers \ {c} : pcA'[d] = pcA[d] /\ id'[d] = id[d]
      BY <2>3, CallerGoes
    <3>2. CallerOK(c)'
      BY <3>1 DEF CallerOK
    <3> QED
      BY <2>1, <3>1, <3>2, CallerLooks
  <2> QED
    BY <1>1, <2>2, <2>3 DEF A!Start
<1>2. CASE A!FindAsset(c)
  <2> DEFINE to == IF id[c] \in DOMAIN assets THEN "location" ELSE "create"
  <2>1. /\ UNCHANGED A!script /\ UNCHANGED A!chain /\ UNCHANGED id
        /\ pcA[c] = "asset" /\ A!Goto(c, to)
    BY <1>2 DEF A!FindAsset, A!Elsewhere, A!chain
  <2>2. /\ CallersTyped' /\ pcA'[c] = to /\ id'[c] = id[c]
        /\ \A d \in Callers \ {c} : pcA'[d] = pcA[d] /\ id'[d] = id[d]
    BY <2>1, CallerGoes
  <2>3. CallerOK(c)'
    BY <1>0, <2>1, <2>2 DEF CallerOK, A!chain
  <2> QED
    BY <2>1, <2>2, <2>3, CallerLooks
<1>3. CASE A!CreateAsset(c)
  <2>1. UNCHANGED A!script /\ UNCHANGED id /\ pcA[c] = "create"
    BY <1>3 DEF A!CreateAsset, A!Elsewhere
  <2>2. CASE A!Creates(id[c], "sudo", TRUE) /\ A!Goto(c, "location") /\ UNCHANGED <<located, priced>>
    <3>1. /\ CallersTyped' /\ pcA'[c] = "location" /\ id'[c] = id[c]
          /\ \A d \in Callers \ {c} : pcA'[d] = pcA[d] /\ id'[d] = id[d]
      BY <2>1, <2>2, CallerGoes
    <3>2. "sudo" \in A!Owners
      BY DEF A!Owners
    <3>3. /\ Grows /\ ChainOK' /\ DOMAIN assets' = DOMAIN assets \cup {id[c]}
          /\ DOMAIN assets' \subseteq A!Ids
          /\ assets' \in [DOMAIN assets' -> [owner : A!Owners, metadata : BOOLEAN]]
      BY <1>0, <2>2, <3>2, CreatesGrows
    <3>4. ChainTyped'
      BY <1>0, <2>2, <3>3 DEF ChainTyped, A!TypeOK
    <3>5. CallerOK(c)'
      BY <1>0, <2>1, <3>1, <3>3 DEF CallerOK
    <3> QED
      BY <2>1, <3>1, <3>3, <3>4, <3>5, CallerMoves
  <2>3. CASE A!Fails(c)
    <3>1. /\ CallersTyped' /\ pcA'[c] = "failed" /\ UNCHANGED A!chain
          /\ \A d \in Callers \ {c} : pcA'[d] = pcA[d] /\ id'[d] = id[d]
      BY <2>1, <2>3, CallerGoes DEF A!Fails, A!chain
    <3>2. CallerOK(c)'
      BY <3>1 DEF CallerOK
    <3> QED
      BY <2>1, <3>1, <3>2, CallerLooks
  <2> QED
    BY <1>3, <2>2, <2>3 DEF A!CreateAsset
<1>4. CASE A!FindLocation(c)
  <2> DEFINE to == IF id[c] \in located THEN "ready" ELSE "register"
  <2>1. /\ UNCHANGED A!script /\ UNCHANGED A!chain /\ UNCHANGED id
        /\ pcA[c] = "location" /\ A!Goto(c, to)
    BY <1>4 DEF A!FindLocation, A!Elsewhere, A!chain
  <2>2. /\ CallersTyped' /\ pcA'[c] = to /\ id'[c] = id[c]
        /\ \A d \in Callers \ {c} : pcA'[d] = pcA[d] /\ id'[d] = id[d]
    BY <2>1, CallerGoes
  <2>3. CallerOK(c)'
    BY <1>0, <2>1, <2>2 DEF CallerOK, ChainOK, A!chain
  <2> QED
    BY <2>1, <2>2, <2>3, CallerLooks
<1>5. CASE A!Register(c)
  <2>1. UNCHANGED A!script /\ UNCHANGED id /\ pcA[c] = "register"
    BY <1>5 DEF A!Register, A!Elsewhere
  <2>2. CASE /\ located' = located \cup {id[c]} /\ priced' = priced \cup {id[c]}
             /\ A!Goto(c, "ready") /\ UNCHANGED assets
    <3>1. /\ CallersTyped' /\ pcA'[c] = "ready" /\ id'[c] = id[c]
          /\ \A d \in Callers \ {c} : pcA'[d] = pcA[d] /\ id'[d] = id[d]
      BY <2>1, <2>2, CallerGoes
    <3>2. id[c] \in Fixed /\ id[c] \in DOMAIN assets
      BY <1>0, <2>1 DEF CallerOK
    <3>3. Grows /\ ChainOK' /\ ChainTyped'
      BY <1>0, <2>2, <3>2 DEF Grows, ChainOK, ChainTyped, A!TypeOK, A!Ids
    <3>4. CallerOK(c)'
      BY <2>2, <3>1, <3>2 DEF CallerOK
    <3> QED
      BY <2>1, <3>1, <3>3, <3>4, CallerMoves
  <2>3. CASE A!Fails(c)
    <3>1. /\ CallersTyped' /\ pcA'[c] = "failed" /\ UNCHANGED A!chain
          /\ \A d \in Callers \ {c} : pcA'[d] = pcA[d] /\ id'[d] = id[d]
      BY <2>1, <2>3, CallerGoes DEF A!Fails, A!chain
    <3>2. CallerOK(c)'
      BY <3>1 DEF CallerOK
    <3> QED
      BY <2>1, <3>1, <3>2, CallerLooks
  <2> QED
    BY <1>5, <2>2, <2>3 DEF A!Register
<1>6. CASE A!Pick(c)
  <2> DEFINE to == IF A!get_valid_asset_id = NoId THEN "failed" ELSE "own"
  <2>1. /\ UNCHANGED A!script /\ UNCHANGED A!chain
        /\ id' = [id EXCEPT ![c] = A!get_valid_asset_id] /\ A!Goto(c, to)
    BY <1>6 DEF A!Pick
  <2>2. A!get_valid_asset_id \in A!Ids \cup {NoId}
    BY PickedId DEF A!Ids
  <2>3. /\ CallersTyped' /\ pcA'[c] = to
        /\ \A d \in Callers \ {c} : pcA'[d] = pcA[d] /\ id'[d] = id[d]
    BY <2>1, <2>2, CallerTurns
  <2>4. CallerOK(c)'
    BY <2>3 DEF CallerOK
  <2> QED
    BY <2>1, <2>3, <2>4, CallerLooks
<1>7. CASE A!CreateOwn(c)
  <2>1. UNCHANGED A!script /\ UNCHANGED id
    BY <1>7 DEF A!CreateOwn, A!Elsewhere
  <2>2. CASE A!Creates(id[c], c, TRUE) /\ A!Goto(c, "owned") /\ UNCHANGED <<located, priced>>
    <3>1. /\ CallersTyped' /\ pcA'[c] = "owned" /\ id'[c] = id[c]
          /\ \A d \in Callers \ {c} : pcA'[d] = pcA[d] /\ id'[d] = id[d]
      BY <2>1, <2>2, CallerGoes
    <3>2. c \in A!Owners
      BY DEF A!Owners
    <3>3. /\ Grows /\ ChainOK' /\ DOMAIN assets' = DOMAIN assets \cup {id[c]}
          /\ DOMAIN assets' \subseteq A!Ids
          /\ assets'[id[c]] = [owner |-> c, metadata |-> TRUE]
          /\ assets' \in [DOMAIN assets' -> [owner : A!Owners, metadata : BOOLEAN]]
      BY <1>0, <2>2, <3>2, CreatesGrows
    <3>4. ChainTyped'
      BY <1>0, <2>2, <3>3 DEF ChainTyped, A!TypeOK
    <3>5. CallerOK(c)'
      BY <3>1, <3>3 DEF CallerOK
    <3> QED
      BY <2>1, <3>1, <3>3, <3>4, <3>5, CallerMoves
  <2>3. CASE A!Fails(c)
    <3>1. /\ CallersTyped' /\ pcA'[c] = "failed" /\ UNCHANGED A!chain
          /\ \A d \in Callers \ {c} : pcA'[d] = pcA[d] /\ id'[d] = id[d]
      BY <2>1, <2>3, CallerGoes DEF A!Fails, A!chain
    <3>2. CallerOK(c)'
      BY <3>1 DEF CallerOK
    <3> QED
      BY <2>1, <3>1, <3>2, CallerLooks
  <2> QED
    BY <1>7, <2>2, <2>3 DEF A!CreateOwn
<1>8. CASE A!Again(c)
  <2>1. /\ UNCHANGED A!script /\ UNCHANGED A!chain
        /\ id' = [id EXCEPT ![c] = NoId] /\ A!Goto(c, "idle")
    BY <1>8 DEF A!Again
  <2>2. /\ CallersTyped' /\ pcA'[c] = "idle"
        /\ \A d \in Callers \ {c} : pcA'[d] = pcA[d] /\ id'[d] = id[d]
    BY <2>1, CallerTurns
  <2>3. CallerOK(c)'
    BY <2>2 DEF CallerOK
  <2> QED
    BY <2>1, <2>2, <2>3, CallerLooks
<1> QED
  BY <1>1, <1>2, <1>3, <1>4, <1>5, <1>6, <1>7, <1>8 DEF A!Caller

(* The steps of the Uniswap set-up leave the callers alone. *)
LEMMA ScriptMoves ==
  ASSUME SetUpInv, A!Script, Grows, ChainTyped', ChainOK', ScriptOK',
         minted' \in 0 .. Tokens, approved' \in 0 .. Tokens,
         step' \in {"fund", "pick", "force", "mint", "approve", "end", "raised"},
         got' \in A!Ids \cup {NoId}, made' \in Seq(A!Ids)
  PROVE  SetUpInv'
<1>1. ASSUME NEW c \in Callers PROVE CallerOK(c)'
  <2>1. CallerOK(c) /\ A!TypeOK /\ pcA'[c] = pcA[c] /\ id'[c] = id[c]
    BY DEF SetUpInv, A!Script
  <2> QED
    BY <2>1, OthersKept
<1>2. A!TypeOK'
  BY DEF SetUpInv, A!Script, ChainTyped, A!TypeOK
<1> QED
  BY <1>1, <1>2 DEF SetUpInv

(* Every step of the Uniswap set-up keeps SetUpInv. *)
LEMMA ScriptStep ==
  ASSUME SetUpInv, A!FundUsers \/ A!PickToken \/ A!ForceCreate \/ A!MintAsset \/ A!ApprovalAsset
  PROVE  SetUpInv'
<1>0. A!TypeOK /\ ChainOK /\ ScriptOK
  BY DEF SetUpInv
<1>1. /\ made \in Seq(A!Ids) /\ minted \in 0 .. Tokens /\ approved \in 0 .. Tokens
      /\ got \in A!Ids \cup {NoId} /\ Len(made) \in Nat
      /\ step \in {"fund", "pick", "force", "mint", "approve", "end", "raised"}
  BY <1>0 DEF A!TypeOK
<1>2. ASSUME UNCHANGED <<assets, located, priced>> PROVE Grows /\ ChainTyped' /\ ChainOK'
  BY <1>0, <1>2 DEF Grows, ChainTyped, ChainOK, A!TypeOK
<1>3. CASE A!FundUsers
  <2>1. /\ step = "fund" /\ step' = "pick" /\ A!Script
        /\ UNCHANGED <<assets, minted, approved, got, made>>
    BY <1>3 DEF A!FundUsers
  <2>2. UNCHANGED <<assets, located, priced>>
    BY <2>1 DEF A!Script
  <2>3. ScriptOK'
    BY <1>0, <2>1 DEF ScriptOK
  <2> QED
    BY <1>1, <1>2, <2>1, <2>2, <2>3, ScriptMoves
<1>4. CASE A!PickToken
  <2>1. /\ step = "pick" /\ got' = A!get_valid_asset_id
        /\ step' = (IF got' = NoId THEN "raised" ELSE "force") /\ A!Script
        /\ UNCHANGED <<assets, minted, approved, made>>
    BY <1>4 DEF A!PickToken
  <2>2. UNCHANGED <<assets, located, priced>>
    BY <2>1 DEF A!Script
  <2>3. /\ got' \in A!Ids \cup {NoId}
        /\ step' \in {"raised", "force"}
        /\ step' = "force" => got' \in FirstId .. LastId
    BY <2>1, PickedId DEF A!Ids
  <2>4. ScriptOK'
    BY <1>0, <2>1, <2>3 DEF ScriptOK
  <2> QED
    BY <1>1, <1>2, <2>1, <2>2, <2>3, <2>4, ScriptMoves
<1>5. CASE A!ForceCreate
  <2>1. step = "force" /\ A!Script /\ UNCHANGED <<minted, approved, got>>
    BY <1>5 DEF A!ForceCreate
  <2>2. CASE UNCHANGED <<assets, made>> /\ step' = "raised"
    <3>1. UNCHANGED <<assets, located, priced>>
      BY <2>1, <2>2 DEF A!Script
    <3>2. ScriptOK'
      BY <1>0, <2>1, <2>2 DEF ScriptOK
    <3> QED
      BY <1>1, <1>2, <2>1, <2>2, <3>1, <3>2, ScriptMoves
  <2>3. CASE /\ A!Creates(got, "owner", FALSE)
             /\ made' = Append(made, got)
             /\ step' = IF Len(made') < Tokens THEN "pick" ELSE "mint"
    <3>1. got \in FirstId .. LastId /\ got \in A!Ids /\ got \notin Fixed
      BY <1>0, <2>1, SetUpConstants DEF ScriptOK, A!Ids
    <3>2. "owner" \in A!Owners /\ UNCHANGED <<located, priced>>
      BY <2>1 DEF A!Owners, A!Script
    <3>3. /\ Grows /\ ChainOK' /\ got \notin DOMAIN assets
          /\ DOMAIN assets' = DOMAIN assets \cup {got}
          /\ assets'[got] = [owner |-> "owner", metadata |-> FALSE]
          /\ DOMAIN assets' \subseteq A!Ids
          /\ assets' \in [DOMAIN assets' -> [owner : A!Owners, metadata : BOOLEAN]]
      BY <1>0, <2>3, <3>1, <3>2, CreatesGrows
    <3>4. ChainTyped'
      BY <1>0, <3>2, <3>3 DEF ChainTyped, A!TypeOK
    <3>5. /\ made' \in Seq(A!Ids) /\ Len(made') = Len(made) + 1
          /\ made'[Len(made) + 1] = got
          /\ \A k \in 1 .. Len(made) : made'[k] = made[k]
      BY <1>1, <2>3, <3>1
    <3>6. Len(made) < Tokens /\ Tokens \in Nat
      BY <1>0, <2>1, SetUpConstants DEF ScriptOK
    <3>7. ASSUME NEW k \in 1 .. Len(made')
          PROVE  /\ made'[k] \in DOMAIN assets' /\ assets'[made'[k]].owner = "owner"
                 /\ k # Len(made) + 1 => k \in 1 .. Len(made) /\ made'[k] \in DOMAIN assets
      <4>1. CASE k = Len(made) + 1
        BY <3>3, <3>5, <4>1
      <4>2. CASE k \in 1 .. Len(made)
        <5>1. made'[k] = made[k] /\ made[k] \in DOMAIN assets /\ assets[made[k]].owner = "owner"
          BY <1>0, <3>5, <4>2 DEF ScriptOK
        <5> QED
          BY <3>3, <4>2, <5>1 DEF Grows
      <4> QED
        BY <1>1, <3>5, <4>1, <4>2
    <3>8. ASSUME NEW j \in 1 .. Len(made'), NEW k \in 1 .. Len(made'), made'[j] = made'[k]
          PROVE  j = k
      <4>1. (j = Len(made) + 1) <=> (made'[j] = got)
        BY <3>3, <3>5, <3>7
      <4>2. (k = Len(made) + 1) <=> (made'[k] = got)
        BY <3>3, <3>5, <3>7
      <4>3. CASE j = Len(made) + 1 \/ k = Len(made) + 1
        BY <3>8, <4>1, <4>2, <4>3
      <4>4. CASE j # Len(made) + 1 /\ k # Len(made) + 1
        <5>1. j \in 1 .. Len(made) /\ k \in 1 .. Len(made)
          BY <3>7, <4>4
        <5>2. made[j] = made[k]
          BY <3>5, <3>8, <5>1
        <5> QED
          BY <1>0, <5>1, <5>2 DEF ScriptOK
      <4> QED
        BY <4>3, <4>4
    <3>9. /\ step' \in {"pick", "mint"} /\ minted' = 0 /\ approved' = 0
          /\ step' = "pick" => Len(made') < Tokens
          /\ step' = "mint" => Len(made') = Tokens /\ minted' < Tokens
      <4>1. minted = 0 /\ approved = 0
        BY <1>0, <2>1 DEF ScriptOK
      <4> QED
        BY <1>1, <2>1, <2>3, <3>5, <3>6, <4>1
    <3>10. ScriptOK'
      BY <3>7, <3>8, <3>9 DEF ScriptOK
    <3> QED
      BY <1>1, <2>1, <3>3, <3>4, <3>5, <3>9, <3>10, ScriptMoves
  <2> QED
    BY <1>5, <2>2, <2>3 DEF A!ForceCreate
<1>6. CASE A!MintAsset
  <2>1. step = "mint" /\ A!Script /\ UNCHANGED <<assets, approved, got, made>>
    BY <1>6 DEF A!MintAsset
  <2>2. UNCHANGED <<assets, located, priced>>
    BY <2>1 DEF A!Script
  <2>3. minted < Tokens /\ Len(made) = Tokens /\ approved = 0 /\ Tokens \in Nat /\ Tokens > 1
    BY <1>0, <2>1, SetUpConstants DEF ScriptOK
  <2>4. /\ minted' \in 0 .. Tokens
        /\ step' \in {"mint", "approve", "raised"} /\ (step' = "mint" => minted' < Tokens)
    BY <1>1, <1>6, <2>1, <2>3 DEF A!MintAsset
  <2>5. ScriptOK'
    BY <1>0, <2>1, <2>3, <2>4 DEF ScriptOK
  <2> QED
    BY <1>1, <1>2, <2>1, <2>2, <2>4, <2>5, ScriptMoves
<1>7. CASE A!ApprovalAsset
  <2>1. step = "approve" /\ A!Script /\ UNCHANGED <<assets, minted, got, made>>
    BY <1>7 DEF A!ApprovalAsset
  <2>2. UNCHANGED <<assets, located, priced>>
    BY <2>1 DEF A!Script
  <2>3. approved < Tokens - 1 /\ Len(made) = Tokens /\ Tokens \in Nat
    BY <1>0, <2>1, SetUpConstants DEF ScriptOK
  <2>4. /\ approved' \in 0 .. Tokens
        /\ step' \in {"approve", "end", "raised"} /\ (step' = "approve" => approved' < Tokens - 1)
    BY <1>1, <1>7, <2>1, <2>3 DEF A!ApprovalAsset
  <2>5. ScriptOK'
    BY <1>0, <2>1, <2>3, <2>4 DEF ScriptOK
  <2> QED
    BY <1>1, <1>2, <2>1, <2>2, <2>4, <2>5, ScriptMoves
<1> QED
  BY <1>3, <1>4, <1>5, <1>6, <1>7

(* SetUpInv is an invariant, and success means what it says. *)
LEMMA SetUpInvariant == A!Spec => [](SetUpInv /\ A!SetUpReady)
<1>1. ASSUME SetUpInv, [A!Next]_(A!vars) PROVE SetUpInv'
  <2>1. CASE A!Next
    BY <1>1, <2>1, CallerStep, ScriptStep DEF A!Next
  <2>2. CASE UNCHANGED A!vars
    <3>1. UNCHANGED <<assets, located, priced, pcA, id, step, got, made, minted, approved>>
      BY <2>2 DEF A!vars, A!chain, A!script
    <3> QED
      BY <1>1, <3>1 DEF SetUpInv, ChainOK, CallerOK, ScriptOK, A!TypeOK
  <2> QED
    BY <1>1, <2>1, <2>2
<1>2. SetUpInv => A!SetUpReady
  <2> SUFFICES ASSUME SetUpInv PROVE A!SetUpReady
    OBVIOUS
  <2>1. ASSUME NEW c \in Callers
        PROVE  /\ pcA[c] = "ready" =>
                    id[c] \in DOMAIN assets /\ assets[id[c]].metadata /\ id[c] \in priced
               /\ pcA[c] = "owned" => assets[id[c]].owner = c
    BY DEF SetUpInv, CallerOK, ChainOK
  <2>2. ASSUME step = "end"
        PROVE  /\ A!IsInjective(made) /\ Len(made) = Tokens
               /\ \A k \in DOMAIN made : assets[made[k]].owner = "owner"
    <3>1. DOMAIN made = 1 .. Len(made)
      BY DEF SetUpInv, A!TypeOK
    <3>2. A!IsInjective(made)
      BY <3>1 DEF SetUpInv, ScriptOK, A!IsInjective
    <3> QED
      BY <2>2, <3>1, <3>2 DEF SetUpInv, ScriptOK
  <2> QED
    BY <2>1, <2>2 DEF A!SetUpReady
<1> QED
  BY <1>1, <1>2, SetUpInitial, PTL DEF A!Spec

-----------------------------------------------------------------------------
(* The composition *)

(* One script runs and the others stand still: whatever the composition does is,
   for each script, a step of its own or none. *)
LEMMA EveryScriptRuns == MCSpec => Spec /\ F!Spec /\ L!Spec /\ W!Spec /\ A!Spec
<1>1. MCInit => Init /\ F!Init /\ L!Init /\ W!Init /\ A!Init
  BY DEF MCInit
<1>2. ASSUME [MCNext]_MCVars
      PROVE  /\ [Next]_vars /\ [F!Next]_(F!vars) /\ [L!Next]_(L!vars)
             /\ [W!Next]_(W!vars) /\ [A!Next]_(A!vars)
  <2>1. Next \/ UNCHANGED vars
    BY <1>2 DEF MCNext, MCVars
  <2>2. F!Next \/ UNCHANGED fundVars
    BY <1>2 DEF MCNext, MCVars
  <2>3. L!Next \/ UNCHANGED launchVars
    BY <1>2 DEF MCNext, MCVars
  <2>4. W!Next \/ UNCHANGED multisigVars
    BY <1>2 DEF MCNext, MCVars
  <2>5. A!Next \/ UNCHANGED assetVars
    BY <1>2 DEF MCNext, MCVars
  <2>6. UNCHANGED fundVars => UNCHANGED F!vars
    BY DEF fundVars, F!vars
  <2>7. UNCHANGED launchVars => UNCHANGED L!vars
    BY DEF launchVars, L!vars
  <2>8. UNCHANGED multisigVars => UNCHANGED W!vars
    BY DEF multisigVars, W!vars, W!pallet
  <2>9. UNCHANGED assetVars => UNCHANGED A!vars
    BY DEF assetVars, A!vars, A!chain, A!script
  <2> QED
    BY <2>1, <2>2, <2>3, <2>4, <2>5, <2>6, <2>7, <2>8, <2>9
<1> QED
  BY <1>1, <1>2, PTL DEF MCSpec, Spec, F!Spec, L!Spec, W!Spec, A!Spec

(* The variables of every script keep their types, for all values of the
   constants. *)
THEOREM ScriptsTyped == MCSpec => []TypesOK
<1>1. FundInv => F!TypeOK
  BY DEF FundInv
<1>2. LaunchInv => L!TypeOK
  BY DEF LaunchInv
<1>3. PayInv => W!TypeOK
  BY DEF PayInv, PayTypes
<1>4. SetUpInv => A!TypeOK
  BY DEF SetUpInv
<1>5. TypeOK /\ F!TypeOK /\ L!TypeOK /\ W!TypeOK /\ A!TypeOK => TypesOK
  BY DEF TypesOK
<1> QED
  BY <1>1, <1>2, <1>3, <1>4, <1>5, EveryScriptRuns, UpgradeTyped, FundInvariant,
     LaunchInvariant, PaidInvariant, SetUpInvariant, PTL

(* SudoFunding: however many candidates there are and whatever they own, a
   transfer each of them can afford is found. *)
THEOREM FundingSucceeds == MCSpec => []RichCandidatesSuffice
<1>1. FundInv => RichCandidatesSuffice
  BY DEF FundInv, Rich, RichCandidatesSuffice, F!RichCandidatesSuffice
<1> QED
  BY <1>1, EveryScriptRuns, FundInvariant, PTL

(* CoretimeLaunch: with as many cores as the map asks for, every restart that
   returns has given both parachains what it read, in whatever order the relay
   chain answers and whoever used the cores before. *)
THEOREM RestartServes ==
  ASSUME EnoughCores
  PROVE  MCSpec => []ServedAfterRestart
<1>1. L!ServedAfterRestart => ServedAfterRestart
  BY DEF ServedAfterRestart
<1> QED
  BY <1>1, EveryScriptRuns, LaunchServed, PTL

(* CoretimeLaunch: an assignment after a read without a miss takes no core from
   the other parachain. *)
THEOREM CoresStay == MCSpec => NoTakeover
<1>1. L!Spec => NoTakeover
  BY LaunchNoTakeover DEF NoTakeover
<1> QED
  BY <1>1, EveryScriptRuns, PTL

(* Multisig: all that was deposited has been paid out when all is approved, for
   every number of services and every sum. *)
THEOREM WalletPaysOut == MCSpec => []PaidOut
<1>1. W!PaidOut => PaidOut
  BY DEF PaidOut
<1> QED
  BY <1>1, EveryScriptRuns, PaidInvariant, PTL

(* AssetSetup: whoever saw nothing but success has the assets it asked for,
   whatever any number of other tests does between its look and its batch. *)
THEOREM SuccessIsReady == MCSpec => []SetUpReady
<1>1. A!SetUpReady => SetUpReady
  BY DEF SetUpReady
<1> QED
  BY <1>1, EveryScriptRuns, SetUpInvariant, PTL

(* RuntimeUpgrade: a reported failure of the composition is a rejected upgrade, when
   the constants are Covered. *)
THEOREM ComposedFailureIsReal ==
  ASSUME Covered
  PROVE  MCSpec => []FailureIsReal
BY EveryScriptRuns, UpgradeFailureIsReal, PTL
=============================================================================
