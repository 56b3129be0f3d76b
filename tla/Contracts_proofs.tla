-------------------------- MODULE Contracts_proofs --------------------------
(***************************************************************************)
(* The contracts of the migration suites, proved for every sequence of     *)
(* calls and all arguments, lengths and amounts.  Each contract has an     *)
(* inductive invariant of its own; the last section carries the results    *)
(* over to the composition of MCContracts.                                 *)
(***************************************************************************)
EXTENDS MCContracts, Integers, Sequences, FiniteInduction


-----------------------------------------------------------------------------
(* TransientStorage *)

(* Between calls the slot of testTransientIsolation is clear, so it was when its
   frames were entered, and its own call is not counted before it returns. *)
TransientInv ==
  /\ V!TypeOK
  /\ IF frames = "none" THEN transient[2] = 0 ELSE calls < MaxCalls
  /\ before[2] = 0
  /\ answer.call \in {"basic", "regular", "loop"} => answer.arg \in Arguments
  /\ V!AnswersAsAlone

(* What the assumption says of arguments. *)
LEMMA TransientConstants == Arguments \subseteq Nat /\ MaxCalls \in Nat
BY ContractsAssumption DEF V!TransientStorageAssumption

(* The sums of the numbers below k, one after the other. *)
LEMMA HalfProduct ==
  ASSUME NEW k \in Nat
  PROVE  /\ (k * (k - 1)) \div 2 \in Nat
         /\ k # 0 => (k * (k - 1)) \div 2 = ((k - 1) * ((k - 1) - 1)) \div 2 + k - 1
         /\ k = 0 => (k * (k - 1)) \div 2 = 0
<1>1. k * (k - 1) \in Nat
  <2>1. CASE k = 0
    BY <2>1
  <2>2. CASE k # 0
    <3>1. k - 1 \in Nat
      BY <2>2
    <3>2. PICK j \in Nat : j = k - 1
      BY <3>1
    <3>3. k * j \in Nat
      BY Z3
    <3> QED
      BY <3>2, <3>3
  <2> QED
    BY <2>1, <2>2
<1>2. k * (k - 1) = (k - 1) * ((k - 1) - 1) + 2 * (k - 1)
  BY Z3
<1>3. PICK a \in Int, b \in Int : a = k * (k - 1) /\ b = (k - 1) * ((k - 1) - 1)
  BY Z3
<1>4. a \in Nat /\ a = b + 2 * (k - 1)
  BY <1>1, <1>2, <1>3
<1>5. a \div 2 \in Nat /\ a \div 2 = b \div 2 + (k - 1)
  BY <1>4
<1>6. b \div 2 \in Int
  OBVIOUS
<1>7. b \div 2 + (k - 1) = b \div 2 + k - 1
  BY <1>6
<1>8. k = 0 => k * (k - 1) = 0
  OBVIOUS
<1> QED
  BY <1>3, <1>5, <1>7, <1>8

(* The equations of testTransientLoop's sum over n iterations, from transient storage t. *)
LoopSums(f, t, n) ==
  f = [k \in 0 .. n |-> IF k = 0 THEN 0 ELSE [t EXCEPT ![4] = f[k - 1]][4] + k - 1]

(* The half products solve them. *)
LEMMA LoopSumsExist ==
  ASSUME NEW n \in Nat, NEW t \in [V!Slots -> Nat]
  PROVE  \E f : LoopSums(f, t, n)
<1> DEFINE g == [k \in 0 .. n |-> (k * (k - 1)) \div 2]
<1>1. ASSUME NEW k \in 0 .. n
      PROVE  g[k] = IF k = 0 THEN 0 ELSE [t EXCEPT ![4] = g[k - 1]][4] + k - 1
  <2>1. k \in Nat
    OBVIOUS
  <2>2. g[k] = (k * (k - 1)) \div 2
    OBVIOUS
  <2>3. CASE k = 0
    BY <2>1, <2>2, <2>3, HalfProduct
  <2>4. CASE k # 0
    <3>1. k - 1 \in 0 .. n
      BY <2>1, <2>4
    <3>2. g[k - 1] = ((k - 1) * ((k - 1) - 1)) \div 2
      BY <3>1
    <3>3. [t EXCEPT ![4] = g[k - 1]][4] = g[k - 1]
      BY DEF V!Slots
    <3> HIDE DEF g
    <3> QED
      BY <2>1, <2>2, <2>4, <3>2, <3>3, HalfProduct
  <2> QED
    BY <2>3, <2>4
<1>2. g = [k \in 0 .. n |-> g[k]]
  OBVIOUS
<1> HIDE DEF g
<1>3. g = [k \in 0 .. n |-> IF k = 0 THEN 0 ELSE [t EXCEPT ![4] = g[k - 1]][4] + k - 1]
  BY <1>1, <1>2
<1> QED
  BY <1>3 DEF LoopSums

(* Every solution ends in the half product. *)
LEMMA LoopSumsAre ==
  ASSUME NEW n \in Nat, NEW t \in [V!Slots -> Nat], NEW f, LoopSums(f, t, n)
  PROVE  f[n] = (n * (n - 1)) \div 2
<1> DEFINE Bad == {k \in 0 .. n : f[k] # (k * (k - 1)) \div 2}
<1>1. SUFFICES ASSUME Bad # {} PROVE FALSE
  <2>1. n \in 0 .. n
    OBVIOUS
  <2>2. f[n] # (n * (n - 1)) \div 2 => n \in Bad
    BY <2>1, Zenon
  <2> QED
    BY <2>2, Zenon
<1>2. PICK m \in Bad : \A k \in Bad : m <= k
  <2>1. Bad \in SUBSET Nat
    OBVIOUS
  <2> HIDE DEF Bad
  <2> QED
    BY <1>1, <2>1, LeastNumber
<1>3. m \in 0 .. n /\ m \in Nat /\ f[m] # (m * (m - 1)) \div 2
  OBVIOUS
<1>4. f[m] = IF m = 0 THEN 0 ELSE [t EXCEPT ![4] = f[m - 1]][4] + m - 1
  BY <1>3 DEF LoopSums
<1>5. m # 0
  BY <1>3, <1>4, HalfProduct
<1>6. m - 1 \in 0 .. n /\ m - 1 \notin Bad
  <2> HIDE DEF Bad
  <2> QED
    BY <1>2, <1>3, <1>5
<1>7. f[m - 1] = ((m - 1) * ((m - 1) - 1)) \div 2
  BY <1>6
<1>8. [t EXCEPT ![4] = f[m - 1]][4] = f[m - 1]
  BY DEF V!Slots
<1> QED
  BY <1>3, <1>4, <1>5, <1>7, <1>8, HalfProduct

(* What testTransientLoop returns. *)
LEMMA LoopReturns ==
  ASSUME NEW n \in Nat, V!TypeOK, V!testTransientLoop(n)
  PROVE  /\ answer' = [call |-> "loop", arg |-> n, result |-> (n * (n - 1)) \div 2]
         /\ calls' = calls + 1 /\ transient' = [transient EXCEPT ![4] = 0]
         /\ regularStorage' = regularStorage /\ frames' = frames /\ V!TopLevel
<1> DEFINE sum == CHOOSE f : LoopSums(f, transient, n)
<1>1. LoopSums(sum, transient, n)
  BY LoopSumsExist DEF V!TypeOK
<1>2. sum[n] = (n * (n - 1)) \div 2
  <2> HIDE DEF sum
  <2> QED
    BY <1>1, LoopSumsAre DEF V!TypeOK
<1>3. answer' = [call |-> "loop", arg |-> n, result |-> sum[n]]
  BY DEF V!testTransientLoop, V!Return, V!With, LoopSums
<1>4. /\ calls' = calls + 1 /\ transient' = [transient EXCEPT ![4] = 0]
      /\ regularStorage' = regularStorage /\ frames' = frames /\ V!TopLevel
  BY DEF V!testTransientLoop, V!Return, V!With, V!frameVars
<1> QED
  BY <1>2, <1>3, <1>4

(* TransientInv holds before the first transaction. *)
LEMMA TransientInitial == V!Init => TransientInv
BY TransientConstants
   DEF V!Init, TransientInv, V!TypeOK, V!NoAnswer, V!Empty, V!Slots, V!AnswersAsAlone, V!Alone

(* An answer that is right when its call is alone. *)
RightAnswer(a) ==
  /\ a \in [call : {"none", "basic", "isolation", "empty", "regular", "loop", "slots"},
            arg : Nat, result : Nat]
  /\ a.call \in {"basic", "regular", "loop"} => a.arg \in Arguments
  /\ a.call = "basic" => a.result = a.arg
  /\ a.call = "regular" => a.result = 1
  /\ a.call = "loop" => a.result = (a.arg * (a.arg - 1)) \div 2
  /\ a.call \in {"empty", "slots"} => a.result = 1

(* That is what TypeOK and AnswersAsAlone say of the answer, before a step ... *)
LEMMA RightAlone ==
  RightAnswer(answer) <=>
    /\ answer \in [call : {"none", "basic", "isolation", "empty", "regular", "loop", "slots"},
                   arg : Nat, result : Nat]
    /\ answer.call \in {"basic", "regular", "loop"} => answer.arg \in Arguments
    /\ V!AnswersAsAlone
BY TransientConstants DEF RightAnswer, V!AnswersAsAlone, V!Alone

(* ... and after it. *)
LEMMA RightAloneNext ==
  RightAnswer(answer)' <=>
    /\ answer' \in [call : {"none", "basic", "isolation", "empty", "regular", "loop", "slots"},
                    arg : Nat, result : Nat]
    /\ answer'.call \in {"basic", "regular", "loop"} => answer'.arg \in Arguments
    /\ V!AnswersAsAlone'
BY TransientConstants DEF RightAnswer, V!AnswersAsAlone, V!Alone

(* What a step leaves behind for TransientInv. *)
LEMMA TransientKept ==
  ASSUME transient' \in [V!Slots -> Nat], transient'[2] \in {0, 42},
         regularStorage' \in Arguments \cup {0},
         frames' \in {"none", "outer", "inner", "isolated", "seen"},
         IF frames' = "none" THEN transient'[2] = 0 ELSE calls' < MaxCalls,
         calls' \in 0 .. MaxCalls, RightAnswer(answer)',
         before' \in [V!Slots -> Nat], before'[2] = 0
  PROVE  TransientInv'
BY RightAloneNext DEF TransientInv, V!TypeOK

(* Clearing another slot leaves that of testTransientIsolation alone. *)
LEMMA SlotCleared ==
  ASSUME NEW t \in [V!Slots -> Nat], NEW slot, slot # 2
  PROVE  [t EXCEPT ![slot] = 0] \in [V!Slots -> Nat] /\ [t EXCEPT ![slot] = 0][2] = t[2]
<1>1. [t EXCEPT ![slot] = 0] \in [V!Slots -> Nat]
  OBVIOUS
<1>2. 2 \in V!Slots
  BY DEF V!Slots
<1>3. [t EXCEPT ![slot] = 0][2] = t[2]
  BY <1>2
<1> QED
  BY <1>1, <1>3

(* A rolled back call leaves the slot of testTransientIsolation clear. *)
LEMMA BeforeKept ==
  ASSUME TransientInv, [V!Next]_(V!vars)
  PROVE  before' \in [V!Slots -> Nat] /\ before'[2] = 0
<1>1. /\ before \in [V!Slots -> Nat] /\ before[2] = 0
      /\ transient \in [V!Slots -> Nat] /\ (frames = "none" => transient[2] = 0)
  BY DEF TransientInv, V!TypeOK
<1>2. CASE V!SetIsolated
  BY <1>1, <1>2 DEF V!SetIsolated, V!TopLevel
<1>3. CASE before' = before
  BY <1>1, <1>3
<1>4. CASE V!Next
  <2>1. V!Next /\ ~V!SetIsolated => before' = before
    <3>1. ASSUME NEW v \in Arguments,
                 V!testBasicTransient(v) \/ V!testTransientVsRegular(v) \/ V!testTransientLoop(v)
          PROVE  before' = before
      BY <3>1 DEF V!testBasicTransient, V!testTransientVsRegular, V!testTransientLoop, V!frameVars
    <3>2. V!checkTransientEmpty \/ V!testMultipleSlots \/ V!EndTransaction => before' = before
      BY DEF V!checkTransientEmpty, V!testMultipleSlots, V!EndTransaction, V!frameVars
    <3>3. V!CallSelf \/ V!ReturnToSelf \/ V!FinishIsolated \/ V!OutOfGas => before' = before
      BY DEF V!CallSelf, V!ReturnToSelf, V!FinishIsolated, V!OutOfGas
    <3> QED
      BY <3>1, <3>2, <3>3 DEF V!Next
  <2> QED
    BY <1>2, <1>3, <1>4, <2>1
<1>5. CASE UNCHANGED V!vars
  BY <1>3, <1>5 DEF V!vars, V!frameVars
<1> QED
  BY <1>4, <1>5

(* No call breaks TransientInv. *)
LEMMA TransientStep == TransientInv /\ [V!Next]_(V!vars) => TransientInv'
<1> SUFFICES ASSUME TransientInv, [V!Next]_(V!vars) PROVE TransientInv'
  OBVIOUS
<1>0. before' \in [V!Slots -> Nat] /\ before'[2] = 0
  BY BeforeKept
<1>1. /\ transient \in [V!Slots -> Nat] /\ transient[2] \in {0, 42}
      /\ regularStorage \in Arguments \cup {0}
      /\ frames \in {"none", "outer", "inner", "isolated", "seen"}
      /\ IF frames = "none" THEN transient[2] = 0 ELSE calls < MaxCalls
      /\ calls \in 0 .. MaxCalls /\ V!TypeOK
  BY DEF TransientInv, V!TypeOK
<1>2. RightAnswer(answer)
  BY RightAlone DEF TransientInv, V!TypeOK
<1>3. 2 \in V!Slots /\ 1 \in V!Slots /\ 3 \in V!Slots /\ 4 \in V!Slots
  BY DEF V!Slots
<1>4. V!TopLevel => /\ calls + 1 \in 0 .. MaxCalls /\ calls < MaxCalls
                    /\ frames = "none" /\ transient[2] = 0
  BY <1>1, TransientConstants DEF V!TopLevel
<1>5. ASSUME NEW v \in Arguments, V!testBasicTransient(v) PROVE TransientInv'
  <2>1. /\ answer' = [call |-> "basic", arg |-> v, result |-> v] /\ calls' = calls + 1
        /\ transient' = [transient EXCEPT ![1] = 0]
        /\ regularStorage' = regularStorage /\ frames' = frames /\ V!TopLevel
    BY <1>1, <1>3, <1>5 DEF V!testBasicTransient, V!frameVars, V!Return, V!With
  <2>2. RightAnswer(answer)'
    BY <2>1, TransientConstants DEF RightAnswer
  <2> QED
    BY <1>1, <1>3, <1>4, <2>1, <2>2, <1>0, TransientKept
<1>6. ASSUME NEW v \in Arguments, V!testTransientVsRegular(v) PROVE TransientInv'
  <2>1. /\ answer' = [call |-> "regular", arg |-> v, result |-> 1] /\ calls' = calls + 1
        /\ transient' = [transient EXCEPT ![3] = 0]
        /\ regularStorage' = v /\ frames' = frames /\ V!TopLevel
    BY <1>1, <1>3, <1>6 DEF V!testTransientVsRegular, V!frameVars, V!Return, V!With, V!Word
  <2>2. RightAnswer(answer)'
    BY <2>1, TransientConstants DEF RightAnswer
  <2> QED
    BY <1>1, <1>3, <1>4, <2>1, <2>2, <1>0, TransientKept
<1>7. ASSUME NEW v \in Arguments, V!testTransientLoop(v) PROVE TransientInv'
  <2>1. v \in Nat
    BY TransientConstants
  <2>2. /\ answer' = [call |-> "loop", arg |-> v, result |-> (v * (v - 1)) \div 2]
        /\ calls' = calls + 1 /\ transient' = [transient EXCEPT ![4] = 0]
        /\ regularStorage' = regularStorage /\ frames' = frames /\ V!TopLevel
    BY <1>1, <1>7, <2>1, LoopReturns
  <2>3. PICK r \in Nat : r = (v * (v - 1)) \div 2
    BY <2>1, HalfProduct
  <2>4. RightAnswer(answer)'
    BY <2>1, <2>2, <2>3 DEF RightAnswer
  <2> QED
    BY <1>1, <1>3, <1>4, <2>2, <2>4, <1>0, TransientKept
<1>8. CASE V!checkTransientEmpty
  <2>1. /\ answer' = [call |-> "empty", arg |-> 0, result |-> 1] /\ calls' = calls + 1
        /\ transient' = transient /\ regularStorage' = regularStorage /\ frames' = frames
        /\ V!TopLevel
    BY <1>4, <1>8 DEF V!checkTransientEmpty, V!frameVars, V!Return, V!Word
  <2>2. RightAnswer(answer)'
    BY <2>1 DEF RightAnswer
  <2> QED
    BY <1>1, <1>4, <2>1, <2>2, <1>0, TransientKept
<1>9. CASE V!testMultipleSlots
  <2>1. /\ answer' = [call |-> "slots", arg |-> 0, result |-> 1] /\ calls' = calls + 1
        /\ transient' = [transient EXCEPT ![16] = 0, ![32] = 0, ![48] = 0]
        /\ regularStorage' = regularStorage /\ frames' = frames /\ V!TopLevel
    BY <1>1, <1>9 DEF V!testMultipleSlots, V!frameVars, V!Return, V!Word, V!Slots
  <2>2. RightAnswer(answer)'
    BY <2>1 DEF RightAnswer
  <2>3. transient' \in [V!Slots -> Nat] /\ transient'[2] = transient[2]
    <3>1. PICK t : t = [transient EXCEPT ![16] = 0]
      OBVIOUS
    <3>2. PICK u : u = [t EXCEPT ![32] = 0]
      OBVIOUS
    <3>3. transient' = [u EXCEPT ![48] = 0]
      BY <2>1, <3>1, <3>2
    <3>4. t \in [V!Slots -> Nat] /\ t[2] = transient[2]
      BY <1>1, <3>1, SlotCleared
    <3>5. u \in [V!Slots -> Nat] /\ u[2] = transient[2]
      BY <3>2, <3>4, SlotCleared
    <3> QED
      BY <3>3, <3>5, SlotCleared
  <2> QED
    BY <1>1, <1>4, <2>1, <2>2, <2>3, <1>0, TransientKept
<1>10. CASE V!SetIsolated
  <2>1. /\ transient' = [transient EXCEPT ![2] = 42] /\ frames' = "outer"
        /\ regularStorage' = regularStorage /\ answer' = answer /\ calls' = calls
        /\ V!TopLevel
    BY <1>10 DEF V!SetIsolated, V!With
  <2>2. RightAnswer(answer)'
    BY <1>2, <2>1 DEF RightAnswer
  <2> QED
    BY <1>1, <1>3, <1>4, <2>1, <2>2, <1>0, TransientKept
<1>11. CASE V!CallSelf \/ V!ReturnToSelf
  <2>1. /\ transient' = transient /\ frames' \in {"inner", "isolated", "seen"} /\ frames # "none"
        /\ regularStorage' = regularStorage /\ answer' = answer /\ calls' = calls
    BY <1>11 DEF V!CallSelf, V!ReturnToSelf
  <2>2. RightAnswer(answer)'
    BY <1>2, <2>1 DEF RightAnswer
  <2> QED
    BY <1>1, <2>1, <2>2, <1>0, TransientKept
<1>12. CASE V!FinishIsolated
  <2>1. /\ \E r \in {0, 1} : answer' = [call |-> "isolation", arg |-> 0, result |-> r]
        /\ transient' = [transient EXCEPT ![2] = 0] /\ frames' = "none"
        /\ regularStorage' = regularStorage /\ calls' = calls + 1 /\ frames # "none"
    BY <1>12 DEF V!FinishIsolated, V!Return, V!With, V!Word
  <2>2. RightAnswer(answer)'
    BY <2>1 DEF RightAnswer
  <2>3. calls' \in 0 .. MaxCalls
    BY <1>1, <2>1, TransientConstants
  <2> QED
    BY <1>1, <1>3, <2>1, <2>2, <2>3, <1>0, TransientKept
<1>13. CASE V!OutOfGas
  <2>1. /\ answer' = [call |-> "none", arg |-> 0, result |-> 0]
        /\ transient' = before /\ frames' = "none"
        /\ regularStorage' = regularStorage /\ calls' = calls + 1 /\ frames # "none"
        /\ before \in [V!Slots -> Nat] /\ before[2] = 0
    BY <1>13 DEF V!OutOfGas, V!NoAnswer, TransientInv, V!TypeOK
  <2>2. RightAnswer(answer)'
    BY <2>1 DEF RightAnswer
  <2>3. calls' \in 0 .. MaxCalls
    BY <1>1, <2>1, TransientConstants
  <2> QED
    BY <1>1, <1>3, <2>1, <2>2, <2>3, <1>0, TransientKept
<1>14. CASE V!EndTransaction
  <2>1. /\ answer' = [call |-> "none", arg |-> 0, result |-> 0]
        /\ transient' = V!Empty /\ frames' = "none"
        /\ regularStorage' = regularStorage /\ calls' = 0
    BY <1>1, <1>14 DEF V!EndTransaction, V!frameVars, V!NoAnswer
  <2>2. RightAnswer(answer)'
    BY <2>1 DEF RightAnswer
  <2>3. transient' \in [V!Slots -> Nat] /\ transient'[2] = 0 /\ calls' \in 0 .. MaxCalls
    BY <1>3, <2>1, TransientConstants DEF V!Empty
  <2> QED
    BY <1>1, <2>1, <2>2, <2>3, <1>0, TransientKept
<1>15. CASE UNCHANGED V!vars
  <2>1. /\ transient' = transient /\ frames' = frames /\ regularStorage' = regularStorage
        /\ answer' = answer /\ calls' = calls
    BY <1>15 DEF V!vars, V!frameVars
  <2>2. RightAnswer(answer)'
    BY <1>2, <2>1 DEF RightAnswer
  <2> QED
    BY <1>1, <2>1, <2>2, <1>0, TransientKept
<1> QED
  BY <1>5, <1>6, <1>7, <1>8, <1>9, <1>10, <1>11, <1>12, <1>13, <1>14, <1>15 DEF V!Next

(* TransientInv is an invariant of the contract. *)
LEMMA TransientInvariant == V!Spec => []TransientInv
BY TransientInitial, TransientStep, PTL DEF V!Spec

-----------------------------------------------------------------------------
(* StorageLayout *)

(* A storage of words. *)
Words == [S!Places -> 0 .. S!Word - 1]

(* The first slot is back at its value when the third test counts it up. *)
StorageInv ==
  /\ storage \in Words
  /\ \E T : reports \in Seq(T)
  /\ Len(reports) <= 6 * Runs
  /\ Len(reports) % 6 \in {1, 2} => storage[S!Slot(0)] = S!Digits(1)

(* What the assumption says of words. *)
LEMMA StorageConstants ==
  Half = 256 /\ Runs \in Nat /\ S!Word \in Nat /\ S!Word >= 65536 /\ S!Word <= 65536
BY ContractsAssumption DEF S!StorageLayoutAssumption, S!Word

(* What the suite writes to are places, and different ones. *)
LEMMA PlaceNames ==
  /\ S!Slot(0) \in S!Places /\ S!Slot(1) \in S!Places /\ S!Slot(4) \in S!Places
  /\ \A k \in S!Keys : S!Entry(6, k) \in S!Places /\ S!Entry(6, k) # S!Slot(0)
  /\ S!Slot(0) # S!Slot(1) /\ S!Slot(0) # S!Slot(4)
BY DEF S!Slot, S!Entry, S!Places, S!Keys

(* The values the suite writes and restores are words. *)
LEMMA ValuesTyped ==
  /\ S!Digits(1) \in 0 .. S!Word - 1 /\ S!Digits(1) + 3 < S!Word
  /\ \A lower, upper \in Nat :
       lower < 256 /\ upper < 256 => S!Pack(lower, upper) \in 0 .. S!Word - 1
<1>1. S!Digits(1) \in Nat /\ S!Digits(1) < 65000
  BY DEF S!Digits
<1>2. ASSUME NEW lower \in Nat, NEW upper \in Nat, lower < 256, upper < 256
      PROVE  S!Pack(lower, upper) \in 0 .. S!Word - 1
  BY <1>2, StorageConstants DEF S!Pack
<1> QED
  BY <1>1, <1>2, StorageConstants

(* The constructor writes words. *)
LEMMA ConstructedTyped == S!Constructed \in Words
<1> DEFINE W == 0 .. S!Word - 1
<1>1. /\ S!Digits(1) \in W /\ S!Digits(3) \in W /\ S!Digits(6) \in W
      /\ S!Digits(7) \in W /\ S!Digits(9) \in W /\ S!String \in W
      /\ \h0AAA \in W /\ 2 \in W /\ 0 \in W
  BY StorageConstants DEF S!Digits, S!String
<1>2. /\ S!Pack(\h22, 1) \in W /\ S!Pack(\h44, \h55) \in W /\ S!Pack(\hBB, 1) \in W
  BY StorageConstants DEF S!Pack
<1>3. S!Constructed \in [S!Places -> W]
  <2> HIDE DEF W
  <2> QED
    BY <1>1, <1>2 DEF S!Constructed
<1> QED
  BY <1>3 DEF Words

(* StorageInv holds of the contract as deployed. *)
LEMMA StorageInitial == S!Init => StorageInv
<1> SUFFICES ASSUME S!Init PROVE StorageInv
  OBVIOUS
<1>1. storage = S!Constructed /\ reports = <<>>
  BY DEF S!Init
<1>2. reports \in Seq({}) /\ Len(reports) = 0
  BY <1>1
<1>3. Len(reports) <= 6 * Runs /\ Len(reports) % 6 = 0
  BY <1>2, StorageConstants
<1> QED
  BY <1>1, <1>2, <1>3, ConstructedTyped DEF StorageInv

(* The first n + 1 terms of a sum. *)
LEMMA SumLast ==
  ASSUME NEW n \in Nat, NEW f, \A k \in 0 .. n : f[k] \in Int
  PROVE  SumOver(f, 0 .. n) = f[n] + SumOver(f, 0 .. n - 1)
<1>1. IsFiniteSet(0 .. n)
  BY FS_Interval
<1>2. n \in 0 .. n /\ (0 .. n) \ {n} = 0 .. n - 1
  OBVIOUS
<1> QED
  BY <1>1, <1>2, SumRemove

(* The exclusive or of two words is a word. *)
LEMMA XorTyped == \A m, n : S!xor(m, n) \in 0 .. S!Word - 1
<1> TAKE m, n
<1> DEFINE f == [k \in 0 .. 15 |-> IF S!Bit(m, k) = S!Bit(n, k) THEN 0 ELSE 2 ^ k]
<1>1. S!xor(m, n) = SumOver(f, 0 .. 15)
  BY DEF S!xor, S!SumFunction, S!SumFunctionOnSet, S!FoldFunctionOnSet, S!MapThenFoldSet,
         SumOver, SumsTo, Chosen
<1>2. \A k \in 0 .. 15 : f[k] \in {0, 2 ^ k}
  OBVIOUS
<1> HIDE DEF f
<1>3. /\ 2 ^ 0 = 1 /\ 2 ^ 1 = 2 /\ 2 ^ 2 = 4 /\ 2 ^ 3 = 8 /\ 2 ^ 4 = 16 /\ 2 ^ 5 = 32
      /\ 2 ^ 6 = 64 /\ 2 ^ 7 = 128 /\ 2 ^ 8 = 256 /\ 2 ^ 9 = 512 /\ 2 ^ 10 = 1024
      /\ 2 ^ 11 = 2048 /\ 2 ^ 12 = 4096 /\ 2 ^ 13 = 8192 /\ 2 ^ 14 = 16384 /\ 2 ^ 15 = 32768
  OBVIOUS
<1>4. /\ f[0] \in {0, 1} /\ f[1] \in {0, 2} /\ f[2] \in {0, 4} /\ f[3] \in {0, 8}
      /\ f[4] \in {0, 16} /\ f[5] \in {0, 32} /\ f[6] \in {0, 64} /\ f[7] \in {0, 128}
      /\ f[8] \in {0, 256} /\ f[9] \in {0, 512} /\ f[10] \in {0, 1024} /\ f[11] \in {0, 2048}
      /\ f[12] \in {0, 4096} /\ f[13] \in {0, 8192} /\ f[14] \in {0, 16384}
      /\ f[15] \in {0, 32768}
  BY <1>2, <1>3
<1>5. \A k \in 0 .. 15 : f[k] \in Int
  BY <1>4
<1> DEFINE Below(terms) == SumOver(f, 0 .. terms - 1)
<1>6. Below(0) = 0
  <2>1. IsFiniteSet({}) /\ 0 .. 0 - 1 = {}
    BY FS_EmptySet
  <2> QED
    BY <2>1, SumUnfold
<1>7. ASSUME NEW j \in Nat, j < 16 PROVE Below(j + 1) = f[j] + Below(j)
  <2>1. \A k \in 0 .. j : f[k] \in Int
    BY <1>5, <1>7
  <2>2. (j + 1) - 1 = j
    OBVIOUS
  <2> QED
    BY <2>1, <2>2, SumLast
<1>8. S!xor(m, n) = Below(16)
  BY <1>1
<1> HIDE DEF Below
<1>9. /\ Below(1) = f[0] + Below(0) /\ Below(2) = f[1] + Below(1) /\ Below(3) = f[2] + Below(2)
      /\ Below(4) = f[3] + Below(3) /\ Below(5) = f[4] + Below(4) /\ Below(6) = f[5] + Below(5)
      /\ Below(7) = f[6] + Below(6) /\ Below(8) = f[7] + Below(7) /\ Below(9) = f[8] + Below(8)
      /\ Below(10) = f[9] + Below(9) /\ Below(11) = f[10] + Below(10)
      /\ Below(12) = f[11] + Below(11) /\ Below(13) = f[12] + Below(12)
      /\ Below(14) = f[13] + Below(13) /\ Below(15) = f[14] + Below(14)
      /\ Below(16) = f[15] + Below(15)
  BY <1>7
<1>10. Below(4) \in Nat /\ Below(4) <= 15
  BY <1>4, <1>6, <1>9
<1>11. Below(8) \in Nat /\ Below(8) <= 255
  BY <1>4, <1>9, <1>10
<1>12. Below(12) \in Nat /\ Below(12) <= 4095
  BY <1>4, <1>9, <1>11
<1>13. Below(16) \in Nat /\ Below(16) <= 65535
  BY <1>4, <1>9, <1>12
<1> QED
  BY <1>8, <1>13, StorageConstants

(* A write of one word ... *)
Write(s, p, w) == [s EXCEPT ![p] = w]

(* ... changes nothing else. *)
LEMMA WriteTyped ==
  ASSUME NEW s \in Words, NEW p \in S!Places, NEW w \in 0 .. S!Word - 1
  PROVE  /\ Write(s, p, w) \in Words /\ Write(s, p, w)[p] = w
         /\ \A q \in S!Places : q # p => Write(s, p, w)[q] = s[q]
<1>1. Write(s, p, w) \in Words
  BY DEF Words, Write
<1>2. Write(s, p, w)[p] = w
  BY DEF Words, Write
<1>3. \A q \in S!Places : q # p => Write(s, p, w)[q] = s[q]
  BY DEF Words, Write
<1> QED
  BY <1>1, <1>2, <1>3

(* What a test leaves behind for StorageInv. *)
LEMMA StorageKept ==
  ASSUME StorageInv, NEW test \in 1 .. 6, S!Due(test), NEW result, S!Report(result),
         storage' \in Words,
         test \in {1, 2} => storage'[S!Slot(0)] = S!Digits(1)
  PROVE  StorageInv'
<1>1. PICK T : reports \in Seq(T)
  BY DEF StorageInv
<1>2. reports' = Append(reports, result) /\ reports \in Seq(T \cup {result})
  BY <1>1 DEF S!Report
<1>3. reports' \in Seq(T \cup {result}) /\ Len(reports') = Len(reports) + 1
  BY <1>2
<1>4. PICK n \in Nat : n = Len(reports)
  BY <1>1
<1>5. n < 6 * Runs /\ n % 6 = test - 1 /\ Len(reports') = n + 1
  BY <1>3, <1>4 DEF S!Due
<1>6. (n + 1) % 6 \in {1, 2} => test \in {1, 2}
  BY <1>5
<1>7. n + 1 <= 6 * Runs
  BY <1>5, StorageConstants
<1> QED
  BY <1>3, <1>5, <1>6, <1>7 DEF StorageInv

-----------------------------------------------------------------------------
(* One iteration of complexStorageTest. *)
Counted(t) ==
  S!writeStorageSlot(S!writeStorageSlot(t, 0, t[S!Slot(0)] + 1), 1,
                     S!xor(t[S!Slot(1)], t[S!Slot(0)]))

(* It adds one to the first slot and leaves a storage of words. *)
LEMMA CountedTyped ==
  ASSUME NEW t \in Words, t[S!Slot(0)] + 1 < S!Word
  PROVE  /\ Counted(t) \in Words /\ Counted(t)[S!Slot(0)] = t[S!Slot(0)] + 1
<1>1. t[S!Slot(0)] + 1 \in 0 .. S!Word - 1
  BY PlaceNames, StorageConstants DEF Words
<1>2. PICK w \in 0 .. S!Word - 1 : w = t[S!Slot(0)] + 1
  BY <1>1
<1>3. PICK u : u = Write(t, S!Slot(0), w)
  OBVIOUS
<1>4. u \in Words /\ u[S!Slot(0)] = w
  BY <1>3, WriteTyped, PlaceNames
<1>5. PICK x \in 0 .. S!Word - 1 : x = S!xor(t[S!Slot(1)], t[S!Slot(0)])
  BY XorTyped
<1>6. PICK v : v = Counted(t)
  OBVIOUS
<1>7. v = Write(u, S!Slot(1), x)
  BY <1>2, <1>3, <1>5, <1>6 DEF Write, Counted, S!writeStorageSlot
<1>8. v \in Words /\ v[S!Slot(0)] = u[S!Slot(0)]
  <2>1. u \in Words /\ S!Slot(1) \in S!Places
    BY <1>4, PlaceNames
  <2>2. v \in Words
    BY <1>7, <2>1, WriteTyped
  <2>3. \A q \in S!Places : q # S!Slot(1) => v[q] = u[q]
    BY <1>7, <2>1, WriteTyped
  <2> QED
    BY <2>2, <2>3, PlaceNames
<1> QED
  BY <1>2, <1>4, <1>6, <1>8

(* Three iterations, as the recursive function of the contract's loop. *)
Iterations(f, s) ==
  f = [k \in 0 .. 3 |->
         IF k = 0 THEN s
         ELSE S!writeStorageSlot(S!writeStorageSlot(f[k - 1], 0, f[k - 1][S!Slot(0)] + 1), 1,
                                 S!xor(f[k - 1][S!Slot(1)], f[k - 1][S!Slot(0)]))]

(* What the loop leaves, iteration by iteration. *)
LEMMA ThreeIterations ==
  \A s : S!complexStorageTest(s, 3) = Counted(Counted(Counted(s)))
<1> TAKE s
<1> DEFINE g == [k \in 0 .. 3 |-> IF k = 0 THEN s ELSE IF k = 1 THEN Counted(s)
                                  ELSE IF k = 2 THEN Counted(Counted(s))
                                  ELSE Counted(Counted(Counted(s)))]
           f == CHOOSE f : Iterations(f, s)
<1>1. \A k \in 0 .. 3 : g[k] = IF k = 0 THEN s ELSE Counted(g[k - 1])
  OBVIOUS
<1>2. g = [k \in 0 .. 3 |-> IF k = 0 THEN s ELSE Counted(g[k - 1])]
  <2>1. g = [k \in 0 .. 3 |-> g[k]]
    OBVIOUS
  <2> HIDE DEF g
  <2> QED
    BY <1>1, <2>1
<1>3. Iterations(g, s)
  <2> HIDE DEF g
  <2> QED
    BY <1>2 DEF Iterations, Counted
<1>4. Iterations(f, s)
  <2> HIDE DEF g
  <2> QED
    BY <1>3, Zenon
<1>5. S!complexStorageTest(s, 3) = f[3]
  BY Zenon DEF S!complexStorageTest, Iterations
<1> HIDE DEF f
<1>6. f = [k \in 0 .. 3 |-> IF k = 0 THEN s ELSE Counted(f[k - 1])]
  BY <1>4 DEF Iterations, Counted
<1>7. f[0] = s /\ f[1] = Counted(f[0]) /\ f[2] = Counted(f[1]) /\ f[3] = Counted(f[2])
  BY <1>6
<1> QED
  BY <1>5, <1>7

(* Two halves written to the fifth slot. *)
LEMMA PackedTyped ==
  ASSUME NEW s \in Words, NEW lower \in Nat, NEW upper \in Nat, lower < 256, upper < 256
  PROVE  /\ S!writePackedValues(s, lower, upper) \in Words
         /\ S!writePackedValues(s, lower, upper)[S!Slot(0)] = s[S!Slot(0)]
<1>1. PICK w \in 0 .. S!Word - 1 : w = S!Pack(lower, upper)
  BY ValuesTyped
<1>2. PICK t : t = S!writePackedValues(s, lower, upper)
  OBVIOUS
<1>3. t = Write(s, S!Slot(4), w)
  BY <1>1, <1>2 DEF Write, S!writePackedValues, S!writeStorageSlot
<1>4. t \in Words /\ t[S!Slot(0)] = s[S!Slot(0)]
  BY <1>3, WriteTyped, PlaceNames
<1> QED
  BY <1>2, <1>4

(* A value written to the mapping. *)
LEMMA MappedTyped ==
  ASSUME NEW s \in Words, NEW k \in S!Keys
  PROVE  /\ S!writeMappingValue(s, k, 16 * k) \in Words
<1>1. PICK w \in 0 .. S!Word - 1 : w = 16 * k
  BY StorageConstants DEF S!Keys
<1>2. PICK t : t = S!writeMappingValue(s, k, 16 * k)
  OBVIOUS
<1>3. t = Write(s, S!Entry(6, k), w)
  BY <1>1, <1>2 DEF Write, S!writeMappingValue
<1>4. t \in Words
  BY <1>3, WriteTyped, PlaceNames
<1> QED
  BY <1>2, <1>4

(* The mapping test's three writes, as the recursive function of its loop. *)
Mapped(f, s) ==
  f = [k \in {0} \cup S!Keys |->
         IF k = 0 THEN s ELSE S!writeMappingValue(f[k - 1], k, \h10 * k)]

(* They leave a storage of words. *)
LEMMA ThreeMapped ==
  ASSUME NEW s \in Words
  PROVE  (CHOOSE f : Mapped(f, s))[3] \in Words
<1> DEFINE to(t, k) == S!writeMappingValue(t, k, \h10 * k)
           g == [k \in {0} \cup S!Keys |->
                   IF k = 0 THEN s ELSE IF k = 1 THEN to(s, 1)
                   ELSE IF k = 2 THEN to(to(s, 1), 2) ELSE to(to(to(s, 1), 2), 3)]
           f == CHOOSE f : Mapped(f, s)
<1> HIDE DEF to
<1>1. \A k \in {0} \cup S!Keys : g[k] = IF k = 0 THEN s ELSE to(g[k - 1], k)
  BY DEF S!Keys
<1>2. g = [k \in {0} \cup S!Keys |-> IF k = 0 THEN s ELSE to(g[k - 1], k)]
  <2>1. g = [k \in {0} \cup S!Keys |-> g[k]]
    OBVIOUS
  <2> HIDE DEF g
  <2> QED
    BY <1>1, <2>1
<1>3. Mapped(g, s)
  <2> HIDE DEF g
  <2> QED
    BY <1>2 DEF Mapped, to
<1>4. Mapped(f, s)
  <2> HIDE DEF g
  <2> QED
    BY <1>3, Zenon
<1> HIDE DEF f
<1>5. f = [k \in {0} \cup S!Keys |-> IF k = 0 THEN s ELSE to(f[k - 1], k)]
  BY <1>4 DEF Mapped, to
<1>6. 1 \in S!Keys /\ 2 \in S!Keys /\ 3 \in S!Keys
  BY DEF S!Keys
<1>7. f[0] = s /\ f[1] = to(f[0], 1) /\ f[2] = to(f[1], 2) /\ f[3] = to(f[2], 3)
  BY <1>5, <1>6
<1>8. \A t \in Words, k \in S!Keys : to(t, k) \in Words
  BY MappedTyped DEF to
<1>9. f[3] \in Words
  BY <1>6, <1>7, <1>8
<1> QED
  BY <1>9 DEF f

(* The packed test's four writes, as the recursive function of its loop. *)
Cases == <<<<\h78, \h21>>, <<\hFF, 0>>, <<0, \hFF>>, <<\h0A, \h55>>>>

PackedCases(f, s) ==
  f = [k \in 0 .. 4 |->
         IF k = 0 THEN s ELSE S!writePackedValues(f[k - 1], Cases[k][1], Cases[k][2])]

(* They leave a storage of words. *)
LEMMA FourPacked ==
  ASSUME NEW s \in Words
  PROVE  /\ (CHOOSE f : PackedCases(f, s))[4] \in Words
<1> DEFINE to(t, k) == S!writePackedValues(t, Cases[k][1], Cases[k][2])
           g == [k \in 0 .. 4 |->
                   IF k = 0 THEN s ELSE IF k = 1 THEN to(s, 1)
                   ELSE IF k = 2 THEN to(to(s, 1), 2) ELSE IF k = 3 THEN to(to(to(s, 1), 2), 3)
                   ELSE to(to(to(to(s, 1), 2), 3), 4)]
           f == CHOOSE f : PackedCases(f, s)
<1> HIDE DEF to
<1>1. \A k \in 0 .. 4 : g[k] = IF k = 0 THEN s ELSE to(g[k - 1], k)
  OBVIOUS
<1>2. g = [k \in 0 .. 4 |-> IF k = 0 THEN s ELSE to(g[k - 1], k)]
  <2>1. g = [k \in 0 .. 4 |-> g[k]]
    OBVIOUS
  <2> HIDE DEF g
  <2> QED
    BY <1>1, <2>1
<1>3. PackedCases(g, s)
  <2> HIDE DEF g
  <2> QED
    BY <1>2 DEF PackedCases, to
<1>4. PackedCases(f, s)
  <2> HIDE DEF g
  <2> QED
    BY <1>3, Zenon
<1> HIDE DEF f
<1>5. f = [k \in 0 .. 4 |-> IF k = 0 THEN s ELSE to(f[k - 1], k)]
  BY <1>4 DEF PackedCases, to
<1>6. /\ f[0] = s /\ f[1] = to(f[0], 1) /\ f[2] = to(f[1], 2) /\ f[3] = to(f[2], 3)
      /\ f[4] = to(f[3], 4)
  BY <1>5
<1>7. \A k \in 1 .. 4 : /\ Cases[k][1] \in Nat /\ Cases[k][1] < 256
                        /\ Cases[k][2] \in Nat /\ Cases[k][2] < 256
  BY DEF Cases
<1>8. \A t \in Words, k \in 1 .. 4 : to(t, k) \in Words
  BY <1>7, PackedTyped DEF to
<1>9. f[4] \in Words
  BY <1>6, <1>8
<1> QED
  BY <1>9 DEF f

(* No test of the suite breaks StorageInv. *)
LEMMA StorageStep == StorageInv /\ [S!Next]_(S!vars) => StorageInv'
<1> SUFFICES ASSUME StorageInv, [S!Next]_(S!vars) PROVE StorageInv'
  OBVIOUS
<1>1. storage \in Words
  BY DEF StorageInv
<1>2. CASE S!basic_storage_tests
  <2> DEFINE result == <<S!getStorageSnapshot(storage), S!readStorageRange(storage, 10),
                         S!writeStorageSlot(storage, 0, \hFE89)[S!Slot(0)]>>
  <2>1. S!Due(1) /\ S!Report(result)
    BY <1>2 DEF S!basic_storage_tests
  <2> HIDE DEF result
  <2>2. PICK w \in 0 .. S!Word - 1, d \in 0 .. S!Word - 1 : w = \hFE89 /\ d = S!Digits(1)
    BY StorageConstants, ValuesTyped
  <2>3. PICK u : u = Write(storage, S!Slot(0), w)
    OBVIOUS
  <2>4. storage' = Write(u, S!Slot(0), d)
    BY <1>2, <2>2, <2>3 DEF S!basic_storage_tests, S!writeStorageSlot, Write
  <2>5. u \in Words
    BY <1>1, <2>3, WriteTyped, PlaceNames
  <2>6. storage' \in Words /\ storage'[S!Slot(0)] = d
    BY <2>4, <2>5, WriteTyped, PlaceNames
  <2> QED
    BY <2>1, <2>2, <2>5, <2>6, StorageKept
<1>3. CASE S!assembly_storage_tests
  <2> DEFINE result == <<S!readStorageRange(storage, 5), S!readPackedValues(storage),
                         S!readPackedValues(S!writePackedValues(storage, \h11, \h22))>>
  <2>1. S!Due(2) /\ S!Report(result)
    BY <1>3 DEF S!assembly_storage_tests
  <2> HIDE DEF result
  <2>2. PICK a \in Nat, b \in Nat, c \in Nat, d \in Nat :
          a = \h11 /\ b = \h22 /\ c = \h44 /\ d = \h55
    OBVIOUS
  <2> DEFINE u == S!writePackedValues(storage, a, b)
  <2>3. /\ storage' = S!writePackedValues(u, c, d)
        /\ a < 256 /\ b < 256 /\ c < 256 /\ d < 256
    BY <1>3, <2>2 DEF S!assembly_storage_tests
  <2>4. u \in Words /\ u[S!Slot(0)] = storage[S!Slot(0)]
    BY <1>1, <2>2, <2>3, PackedTyped
  <2>5. storage' \in Words /\ storage'[S!Slot(0)] = u[S!Slot(0)]
    BY <2>3, <2>4, PackedTyped
  <2>6. storage[S!Slot(0)] = S!Digits(1)
    BY <2>1 DEF S!Due, StorageInv
  <2> QED
    BY <2>1, <2>4, <2>5, <2>6, StorageKept
<1>4. CASE S!complex_storage_tests
  <2> DEFINE result == <<S!readArrayElement(storage, 0), S!readArrayElement(storage, 1),
                         S!readMappingValue(storage, 1)>>
  <2>1. S!Due(3) /\ S!Report(result)
    BY <1>4 DEF S!complex_storage_tests
  <2> HIDE DEF result
  <2>2. storage' = Counted(Counted(Counted(storage)))
    BY <1>4, ThreeIterations DEF S!complex_storage_tests
  <2>3. PICK d \in Nat : d = storage[S!Slot(0)] /\ d + 3 < S!Word
    <3>1. storage[S!Slot(0)] = S!Digits(1)
      BY <2>1 DEF S!Due, StorageInv
    <3> QED
      BY <3>1, ValuesTyped, StorageConstants
  <2>4. PICK t, u : t = Counted(storage) /\ u = Counted(t)
    OBVIOUS
  <2>5. t \in Words /\ t[S!Slot(0)] = d + 1
    BY <1>1, <2>3, <2>4, CountedTyped, StorageConstants
  <2>6. u \in Words /\ u[S!Slot(0)] = d + 2
    BY <2>3, <2>4, <2>5, CountedTyped, StorageConstants
  <2>7. storage' \in Words
    BY <2>2, <2>3, <2>4, <2>6, CountedTyped, StorageConstants
  <2> QED
    BY <2>1, <2>7, StorageKept
<1>5. CASE S!mapping_storage_tests
  <2> DEFINE written == CHOOSE f : Mapped(f, storage)
             result == [k \in S!Keys |-> <<S!readMappingValue(written[k], k),
                                           S!addressToValue(written[k], k)>>]
  <2>1. S!Due(4) /\ S!Report(result) /\ storage' = written[3]
    BY <1>5 DEF S!mapping_storage_tests, Mapped
  <2>2. written[3] \in Words
    BY <1>1, ThreeMapped
  <2> HIDE DEF result, written
  <2> QED
    BY <2>1, <2>2, StorageKept
<1>6. CASE S!packed_storage_tests
  <2> DEFINE initial == S!readPackedValues(storage)
             written == CHOOSE f : PackedCases(f, storage)
             result == <<initial, [k \in 1 .. 4 |-> S!readPackedValues(written[k])]>>
  <2>1. /\ S!Due(5) /\ S!Report(result)
        /\ storage' = S!writePackedValues(written[4], initial[1], initial[2])
    BY <1>6 DEF S!packed_storage_tests, PackedCases, Cases
  <2>2. written[4] \in Words
    BY <1>1, FourPacked
  <2>3. PICK m \in Nat : m = storage[S!Slot(4)] /\ m < 65536
    BY <1>1, PlaceNames, StorageConstants DEF Words
  <2>4. initial[1] = m % 256 /\ initial[2] = m \div 256
    BY <2>3, StorageConstants DEF S!readPackedValues
  <2> HIDE DEF result, written, initial
  <2>5. /\ initial[1] \in Nat /\ initial[1] < 256
        /\ initial[2] \in Nat /\ initial[2] < 256
    BY <2>3, <2>4
  <2>6. storage' \in Words
    BY <2>1, <2>2, <2>5, PackedTyped
  <2> QED
    BY <2>1, <2>2, <2>6, StorageKept
<1>7. CASE S!integrity_tests
  <2>1. S!Due(6) /\ (\E result : S!Report(result)) /\ storage' = storage
    BY <1>7 DEF S!integrity_tests
  <2> QED
    BY <1>1, <2>1, StorageKept
<1>8. CASE UNCHANGED S!vars
  BY <1>8 DEF S!vars, StorageInv, S!Constructed
<1> QED
  BY <1>2, <1>3, <1>4, <1>5, <1>6, <1>7, <1>8 DEF S!Next, S!Finished

(* StorageInv is an invariant of the contract under its suite. *)
LEMMA StorageInvariant == S!Spec => []StorageInv
BY StorageInitial, StorageStep, PTL DEF S!Spec

(* It bounds what TLC checks of the contract's types. *)
LEMMA StorageSafe == StorageInv => S!TypeOK
BY DEF StorageInv, S!TypeOK, Words

-----------------------------------------------------------------------------
(* Mcopy *)

(* The memory between two steps: the data padded with zeros, MCOPY's result once
   it is made, the words the loop has copied, and the word after them. *)
CopyInv ==
  LET R == M!Rounded(length) IN
  /\ M!TypeOK
  /\ \E q \in Nat : i = q * WordLen
  /\ \A a \in 0 .. R - 1 : a >= length => memory[a] = 0
  /\ \A a \in 0 .. R - 1 : memory[R + a] = IF phase = "mcopy" THEN 0 ELSE memory[a]
  /\ \A a \in 0 .. R - 1 : memory[2 * R + a] = IF a < i THEN memory[a] ELSE 0
  /\ \E rest \in Bytes : \A a \in 3 * R .. M!End - 1 : memory[a] = rest
  /\ phase = "mcopy" => i = 0
  /\ phase \in {"remaining", "stopped"} => i >= length

(* What the assumption says of words. *)
LEMMA WordConstants ==
  WordLen \in Nat /\ WordLen > 0 /\ 0 \in Bytes /\ Bytes \subseteq Nat /\ MaxLen \in Nat
BY ContractsAssumption DEF M!McopyAssumption

(* Rounded(n) is the least number of whole words that has room for n bytes. *)
LEMMA RoundedIs ==
  ASSUME NEW n \in Nat
  PROVE  /\ M!Rounded(n) \in Nat /\ M!Rounded(n) >= n /\ M!Rounded(n) < n + WordLen
         /\ \E q \in Nat : M!Rounded(n) = q * WordLen
<1> DEFINE q == (n + WordLen - 1) \div WordLen
<1>1. WordLen \in Nat /\ WordLen > 0 /\ n + WordLen - 1 \in Nat
  BY WordConstants
<1>2. q \in Nat /\ q * WordLen <= n + WordLen - 1 /\ n + WordLen - 1 < q * WordLen + WordLen
  BY <1>1, Z3
<1>3. M!Rounded(n) = q * WordLen
  BY DEF M!Rounded
<1> HIDE DEF q
<1>4. q * WordLen \in Nat
  BY <1>1, <1>2, Z3
<1> QED
  BY <1>1, <1>2, <1>3, <1>4

(* Of two multiples of the word length the smaller is a word below the greater. *)
LEMMA WordBelow ==
  ASSUME NEW p \in Nat, NEW q \in Nat, p * WordLen < q * WordLen
  PROVE  p * WordLen + WordLen <= q * WordLen
<1>1. WordLen \in Nat /\ WordLen > 0
  BY WordConstants
<1>2. p < q
  BY <1>1, Z3
<1>3. p + 1 <= q
  BY <1>2
<1>4. (p + 1) * WordLen <= q * WordLen
  BY <1>1, <1>3, Z3
<1>5. (p + 1) * WordLen = p * WordLen + WordLen
  BY <1>1, Z3
<1> QED
  BY <1>4, <1>5

(* The numbers the copies are made with. *)
LEMMA CopySizes ==
  ASSUME M!TypeOK
  PROVE  /\ length \in Nat /\ M!Rounded(length) \in Nat /\ M!Rounded(length) >= length
         /\ i \in Nat /\ i <= M!Rounded(length)
         /\ WordLen \in Nat /\ WordLen > 0
         /\ M!End = 3 * M!Rounded(length) + WordLen /\ M!End \in Nat
         /\ memory \in [0 .. M!End - 1 -> Bytes]
<1>1. length \in Nat
  BY WordConstants DEF M!TypeOK
<1>2. PICK R \in Nat : R = M!Rounded(length) /\ R >= length
  BY <1>1, RoundedIs
<1>3. i \in 0 .. R /\ M!End = 3 * R + WordLen /\ memory \in [0 .. M!End - 1 -> Bytes]
  BY <1>2 DEF M!TypeOK, M!End
<1>4. i \in Nat /\ i <= R /\ 3 * R + WordLen \in Nat
  BY <1>2, <1>3, WordConstants
<1> QED
  BY <1>1, <1>2, <1>3, <1>4, WordConstants

(* Words that reach the end of the data fill its last word. *)
LEMMA AllCopied ==
  ASSUME CopyInv, i >= length
  PROVE  i = M!Rounded(length)
<1>1. /\ length \in Nat /\ M!Rounded(length) \in Nat /\ i \in Nat /\ i <= M!Rounded(length)
      /\ WordLen \in Nat
  BY CopySizes DEF CopyInv
<1>2. PICK q \in Nat : M!Rounded(length) = q * WordLen
  BY <1>1, RoundedIs
<1>3. PICK p \in Nat : i = p * WordLen
  BY DEF CopyInv
<1>4. i < M!Rounded(length) => i + WordLen <= M!Rounded(length)
  BY <1>2, <1>3, WordBelow
<1>5. M!Rounded(length) < length + WordLen
  BY <1>1, RoundedIs
<1>6. PICK R \in Nat : R = M!Rounded(length)
  BY <1>1
<1> QED
  BY <1>1, <1>4, <1>5, <1>6

(* CopyInv holds of a memory just laid out. *)
LEMMA CopyInitial == M!Init => CopyInv
<1> SUFFICES ASSUME M!Init PROVE CopyInv
  OBVIOUS
<1> DEFINE R == M!Rounded(length)
<1>1. length \in Nat /\ length \in 0 .. MaxLen
  BY WordConstants DEF M!Init
<1>2. /\ R \in Nat /\ R >= length /\ WordLen \in Nat /\ WordLen > 0 /\ 0 \in Bytes
      /\ M!End = 3 * R + WordLen
  BY <1>1, RoundedIs, WordConstants DEF M!End
<1>3. PICK bytes \in [0 .. length - 1 -> Bytes], rest \in Bytes :
        memory = [a \in 0 .. M!End - 1 |->
                    IF a < length THEN bytes[a] ELSE IF a >= M!End - WordLen THEN rest ELSE 0]
  BY Zenon DEF M!Init
<1>4. i = 0 /\ phase = "mcopy"
  BY DEF M!Init
<1> HIDE DEF R
<1>5. memory \in [0 .. M!End - 1 -> Bytes]
  BY <1>1, <1>2, <1>3
<1>6. M!TypeOK
  BY <1>1, <1>2, <1>4, <1>5 DEF M!TypeOK, R
<1>7. \A a \in 0 .. R - 1 : /\ a >= length => memory[a] = 0
                            /\ memory[R + a] = 0 /\ memory[2 * R + a] = 0
  BY <1>1, <1>2, <1>3
<1>8. \A a \in 3 * R .. M!End - 1 : memory[a] = rest
  BY <1>1, <1>2, <1>3
<1>9. 0 \in Nat /\ i = 0 * WordLen
  BY <1>2, <1>4
<1> QED
  BY <1>4, <1>6, <1>7, <1>8, <1>9 DEF CopyInv, R

(* No step of the copies breaks CopyInv. *)
LEMMA CopyStep == CopyInv /\ [M!Next]_(M!vars) => CopyInv'
<1> SUFFICES ASSUME CopyInv, [M!Next]_(M!vars) PROVE CopyInv'
  OBVIOUS
<1>0. PICK R : R = M!Rounded(length)
  OBVIOUS
<1>1. /\ length \in Nat /\ R \in Nat /\ R >= length /\ i \in Nat /\ i <= R
      /\ WordLen \in Nat /\ WordLen > 0 /\ M!End = 3 * R + WordLen
      /\ memory \in [0 .. M!End - 1 -> Bytes]
  BY <1>0, CopySizes DEF CopyInv
<1>2. PICK q \in Nat : R = q * WordLen
  BY <1>0, <1>1, RoundedIs
<1>3. PICK p \in Nat : i = p * WordLen
  BY DEF CopyInv
<1>4. /\ \A a \in 0 .. R - 1 : a >= length => memory[a] = 0
      /\ \A a \in 0 .. R - 1 : memory[R + a] = IF phase = "mcopy" THEN 0 ELSE memory[a]
      /\ \A a \in 0 .. R - 1 : memory[2 * R + a] = IF a < i THEN memory[a] ELSE 0
      /\ phase = "mcopy" => i = 0
      /\ phase \in {"remaining", "stopped"} => i >= length
  BY <1>0 DEF CopyInv
<1>5. PICK rest \in Bytes : \A a \in 3 * R .. M!End - 1 : memory[a] = rest
  BY <1>0 DEF CopyInv
<1>6. length' = length
  BY DEF M!Next, M!CopyAtOnce, M!CopyWord, M!LoopOver, M!CopyRemaining, M!Stopped, M!vars
<1>7. M!Rounded(length)' = R /\ M!End' = M!End
  BY <1>0, <1>6 DEF M!Rounded, M!End
<1>8. i < length => i + WordLen <= R
  BY <1>1, <1>2, <1>3, WordBelow
<1>9. SUFFICES /\ memory' \in [0 .. M!End - 1 -> Bytes]
               /\ i' \in 0 .. R /\ phase' \in {"mcopy", "loop", "remaining", "stopped"}
               /\ \E r \in Nat : i' = r * WordLen
               /\ \A a \in 0 .. R - 1 : a >= length => memory'[a] = 0
               /\ \A a \in 0 .. R - 1 : memory'[R + a] = IF phase' = "mcopy" THEN 0 ELSE memory'[a]
               /\ \A a \in 0 .. R - 1 : memory'[2 * R + a] = IF a < i' THEN memory'[a] ELSE 0
               /\ \A a \in 3 * R .. M!End - 1 : memory'[a] = rest
               /\ phase' = "mcopy" => i' = 0
               /\ phase' \in {"remaining", "stopped"} => i' >= length
  BY <1>6, <1>7 DEF CopyInv, M!TypeOK
<1>10. CASE M!CopyAtOnce
  <2>1. /\ memory' = [a \in 0 .. M!End - 1 |->
                        IF a \in R .. R + length - 1 THEN memory[a - R] ELSE memory[a]]
        /\ phase = "mcopy" /\ phase' = "loop" /\ i' = i
    <3>1. DOMAIN memory = 0 .. M!End - 1
      BY <1>1
    <3>2. \A a \in 0 .. M!End - 1 : 0 + a - R = a - R
      BY <1>1
    <3> QED
      BY <1>0, <3>1, <3>2, <1>10 DEF M!CopyAtOnce, M!mcopy, M!mcopyResult, M!data
  <2>2. \A a \in 0 .. R - 1 : memory'[a] = memory[a]
    BY <1>1, <2>1
  <2>3. \A a \in 0 .. R - 1 : memory'[R + a] = IF a < length THEN memory[a] ELSE memory[R + a]
    BY <1>1, <2>1
  <2>4. \A a \in 2 * R .. M!End - 1 : memory'[a] = memory[a]
    BY <1>1, <2>1
  <2>5. memory' \in [0 .. M!End - 1 -> Bytes]
    BY <1>1, <2>1
  <2>6. \A a \in 0 .. R - 1 : memory'[2 * R + a] = memory[2 * R + a]
    BY <1>1, <2>4
  <2>7. \A a \in 3 * R .. M!End - 1 : memory'[a] = rest
    BY <1>1, <1>5, <2>4
  <2>8. \A a \in 0 .. R - 1 : memory'[R + a] = memory'[a]
    <3> TAKE a \in 0 .. R - 1
    <3>1. memory[R + a] = 0 /\ (a >= length => memory[a] = 0)
      BY <1>4, <2>1
    <3> QED
      BY <1>1, <2>2, <2>3, <3>1
  <2>9. \A a \in 0 .. R - 1 : a >= length => memory'[a] = 0
    BY <1>4, <2>2
  <2>10. \A a \in 0 .. R - 1 : memory'[2 * R + a] = IF a < i' THEN memory'[a] ELSE 0
    BY <1>4, <2>1, <2>2, <2>6
  <2>11. i' \in 0 .. R /\ i' = p * WordLen
    BY <1>1, <1>3, <2>1
  <2> QED
    BY <2>1, <2>5, <2>7, <2>8, <2>9, <2>10, <2>11
<1>11. CASE M!CopyWord
  <2>1. /\ memory' = [a \in 0 .. M!End - 1 |->
                        IF a \in 2 * R + i .. 2 * R + i + WordLen - 1 THEN memory[a - 2 * R]
                        ELSE memory[a]]
        /\ i < length /\ phase = "loop" /\ phase' = phase /\ i' = i + WordLen
    <3>1. DOMAIN memory = 0 .. M!End - 1
      BY <1>1
    <3>2. /\ memory' = [a \in DOMAIN memory |->
                          IF a \in 2 * R + i .. 2 * R + i + WordLen - 1
                            THEN [k \in 0 .. WordLen - 1 |-> memory[0 + i + k]][a - (2 * R + i)]
                            ELSE memory[a]]
          /\ i < length /\ phase = "loop" /\ phase' = phase /\ i' = i + WordLen
      BY <1>0, <1>11 DEF M!CopyWord, M!mstore, M!Word, M!manualResult, M!data, M!InLoop
    <3>3. \A a \in 2 * R + i .. 2 * R + i + WordLen - 1 :
            [k \in 0 .. WordLen - 1 |-> memory[0 + i + k]][a - (2 * R + i)] = memory[a - 2 * R]
      BY <1>1
    <3> QED
      BY <3>1, <3>2, <3>3
  <2>2. i + WordLen <= R
    BY <1>8, <2>1
  <2>3. \A a \in 0 .. 2 * R - 1 : memory'[a] = memory[a]
    BY <1>1, <2>1
  <2>4. \A a \in 0 .. R - 1 :
          memory'[2 * R + a] = IF a \in i .. i + WordLen - 1 THEN memory[a] ELSE memory[2 * R + a]
    BY <1>1, <2>1, <2>2
  <2>5. \A a \in 3 * R .. M!End - 1 : memory'[a] = rest
    BY <1>1, <1>5, <2>1, <2>2
  <2>6. memory' \in [0 .. M!End - 1 -> Bytes]
    BY <1>1, <2>1, <2>2
  <2>7. \A a \in 0 .. R - 1 : memory'[a] = memory[a] /\ memory'[R + a] = memory[R + a]
    BY <1>1, <2>3
  <2>8. \A a \in 0 .. R - 1 : memory'[2 * R + a] = IF a < i' THEN memory'[a] ELSE 0
    <3> TAKE a \in 0 .. R - 1
    <3>1. memory[2 * R + a] = IF a < i THEN memory[a] ELSE 0
      BY <1>4
    <3>2. memory'[2 * R + a] = IF a \in i .. i + WordLen - 1 THEN memory[a] ELSE memory[2 * R + a]
      BY <2>4
    <3>3. memory'[a] = memory[a] /\ a \in Nat
      BY <2>7
    <3>4. CASE a < i
      BY <1>1, <2>1, <3>1, <3>2, <3>3, <3>4
    <3>5. CASE a >= i /\ a < i + WordLen
      <4>1. a \in i .. i + WordLen - 1
        BY <1>1, <3>3, <3>5
      <4> QED
        BY <2>1, <3>2, <3>3, <3>5, <4>1
    <3>6. CASE a >= i + WordLen
      BY <1>1, <2>1, <3>1, <3>2, <3>3, <3>6
    <3> QED
      BY <1>1, <3>3, <3>4, <3>5, <3>6
  <2>9. p + 1 \in Nat /\ i' = (p + 1) * WordLen
    BY <1>1, <1>3, <2>1, Z3
  <2>10. \A a \in 0 .. R - 1 : a >= length => memory'[a] = 0
    BY <1>4, <2>7
  <2>11. \A a \in 0 .. R - 1 : memory'[R + a] = memory'[a]
    BY <1>4, <2>1, <2>7
  <2>12. i' \in 0 .. R
    BY <1>1, <2>1, <2>2
  <2> QED
    BY <2>1, <2>5, <2>6, <2>8, <2>9, <2>10, <2>11, <2>12
<1>12. CASE M!LoopOver
  <2>1. memory' = memory /\ i' = i /\ phase = "loop" /\ phase' = "remaining" /\ ~(i < length)
    BY <1>12 DEF M!LoopOver, M!InLoop
  <2> QED
    BY <1>1, <1>3, <1>4, <1>5, <2>1
<1>13. CASE M!CopyRemaining
  <2>1. i' = i /\ phase = "remaining" /\ phase' = "stopped"
    BY <1>13 DEF M!CopyRemaining
  <2>2. i = R
    BY <1>0, <1>4, <2>1, AllCopied
  <2>3. memory' = memory
    <3> DEFINE remaining == length % WordLen
               at == length - remaining
    <3>1. /\ remaining \in Nat /\ at \in Nat
          /\ at = (length \div WordLen) * WordLen /\ length \div WordLen \in Nat
      BY <1>1, Z3
    <3>2. memory' = IF remaining = 0 THEN memory
                    ELSE M!mstore(memory, M!manualResult + at, M!Word(memory, M!data + at))
      BY <1>13 DEF M!CopyRemaining
    <3>3. PICK c \in Nat : at = c * WordLen
      BY <3>1
    <3> HIDE DEF at
    <3>4. at = length - remaining
      BY DEF at
    <3> HIDE DEF remaining
    <3>5. CASE remaining # 0
      <4>1. at < R
        BY <1>1, <3>1, <3>4, <3>5
      <4>2. at + WordLen <= R
        BY <1>2, <3>3, <4>1, WordBelow
      <4>3. DOMAIN memory = 0 .. M!End - 1
        BY <1>1
      <4>4. memory' = [a \in DOMAIN memory |->
                         IF a \in 2 * R + at .. 2 * R + at + WordLen - 1
                           THEN [k \in 0 .. WordLen - 1 |-> memory[0 + at + k]][a - (2 * R + at)]
                           ELSE memory[a]]
        BY <1>0, <3>2, <3>5 DEF M!mstore, M!Word, M!manualResult, M!data
      <4>5. \A a \in 2 * R + at .. 2 * R + at + WordLen - 1 :
              [k \in 0 .. WordLen - 1 |-> memory[0 + at + k]][a - (2 * R + at)] = memory[a - 2 * R]
        BY <1>1, <3>1
      <4>6. \A a \in 2 * R + at .. 2 * R + at + WordLen - 1 : memory[a - 2 * R] = memory[a]
        <5> TAKE a \in 2 * R + at .. 2 * R + at + WordLen - 1
        <5>1. a - 2 * R \in 0 .. R - 1 /\ a - 2 * R < i /\ 2 * R + (a - 2 * R) = a
          BY <1>1, <2>2, <3>1, <4>2
        <5> QED
          BY <1>4, <5>1
      <4>7. \A a \in DOMAIN memory : memory'[a] = memory[a]
        BY <4>4, <4>5, <4>6
      <4> QED
        BY <1>1, <4>3, <4>4, <4>7
    <3> QED
      BY <3>2, <3>5
  <2> QED
    BY <1>1, <1>3, <1>4, <1>5, <2>1, <2>3
<1>14. CASE UNCHANGED M!vars
  <2>1. memory' = memory /\ i' = i /\ phase' = phase
    BY <1>14 DEF M!vars
  <2>2. phase \in {"mcopy", "loop", "remaining", "stopped"}
    BY DEF CopyInv, M!TypeOK
  <2> QED
    BY <1>1, <1>3, <1>4, <1>5, <2>1, <2>2
<1> QED
  BY <1>10, <1>11, <1>12, <1>13, <1>14 DEF M!Next, M!Stopped

(* CopyInv is an invariant of the copies. *)
LEMMA CopyInvariant == M!Spec => []CopyInv
BY CopyInitial, CopyStep, PTL DEF M!Spec

(* The three parts of the memory, at an address counted from the first of them. *)
LEMMA Residue ==
  ASSUME NEW R \in Nat, NEW a \in 0 .. 3 * R - 1
  PROVE  \/ a < R /\ a % R = a
         \/ a - R \in 0 .. R - 1 /\ a % R = a - R
         \/ a - 2 * R \in 0 .. R - 1 /\ a % R = a - 2 * R
<1>1. R > 0
  OBVIOUS
<1>2. a < R => a % R = a
  BY <1>1, Z3
<1>3. a >= R /\ a < 2 * R => a % R = a - R
  BY <1>1, Z3
<1>4. a >= 2 * R => a % R = a - 2 * R
  BY <1>1, Z3
<1> QED
  BY <1>1, <1>2, <1>3, <1>4

(* At the end both results are the data. *)
LEMMA CopiesAgree == CopyInv => M!ManualAsMcopy
<1> SUFFICES ASSUME CopyInv, phase = "stopped" PROVE M!ManualAsMcopy
  BY DEF M!ManualAsMcopy
<1>0. PICK R : R = M!Rounded(length)
  OBVIOUS
<1>1. /\ length \in Nat /\ R \in Nat /\ R >= length /\ i \in Nat /\ i <= R
      /\ WordLen \in Nat /\ WordLen > 0 /\ M!End = 3 * R + WordLen
      /\ memory \in [0 .. M!End - 1 -> Bytes]
  BY <1>0, CopySizes DEF CopyInv
<1>4. i = R
  BY <1>0, AllCopied DEF CopyInv
<1>5. /\ \A a \in 0 .. R - 1 : a >= length => memory[a] = 0
      /\ \A a \in 0 .. R - 1 : memory[R + a] = memory[a]
      /\ \A a \in 0 .. R - 1 : memory[2 * R + a] = memory[a]
  BY <1>0, <1>1, <1>4 DEF CopyInv
<1>6. PICK rest \in Bytes : \A a \in 3 * R .. M!End - 1 : memory[a] = rest
  BY <1>0 DEF CopyInv
<1>7. \A a \in 0 .. 3 * R - 1 :
        memory[a] = IF a % R < length THEN memory[a % R] ELSE 0
  <2> TAKE a \in 0 .. 3 * R - 1
  <2>1. \E b \in 0 .. R - 1 : a % R = b /\ memory[a] = memory[b]
    <3>1. CASE a < R /\ a % R = a
      BY <1>1, <3>1
    <3>2. CASE a - R \in 0 .. R - 1 /\ a % R = a - R
      <4>1. R + (a - R) = a
        BY <1>1
      <4> QED
        BY <1>5, <3>2, <4>1
    <3>3. CASE a - 2 * R \in 0 .. R - 1 /\ a % R = a - 2 * R
      <4>1. 2 * R + (a - 2 * R) = a
        BY <1>1
      <4> QED
        BY <1>5, <3>3, <4>1
    <3> QED
      BY <1>1, <3>1, <3>2, <3>3, Residue
  <2>2. PICK b \in 0 .. R - 1 : a % R = b /\ memory[a] = memory[b]
    BY <2>1
  <2> QED
    BY <1>1, <1>5, <2>2
<1>8. \A a \in 0 .. M!End - 1 :
        memory[a] = IF a >= M!End - WordLen THEN rest
                    ELSE IF a % R < length THEN memory[a % R] ELSE 0
  <2> TAKE a \in 0 .. M!End - 1
  <2>1. a >= M!End - WordLen <=> a \in 3 * R .. M!End - 1
    BY <1>1
  <2>2. ~(a >= M!End - WordLen) => a \in 0 .. 3 * R - 1
    BY <1>1
  <2> QED
    BY <1>6, <1>7, <2>1, <2>2
<1>9. memory = [a \in 0 .. M!End - 1 |->
                  IF a >= M!End - WordLen THEN rest
                  ELSE IF a % R < length THEN memory[a % R] ELSE 0]
  BY <1>1, <1>8
<1> QED
  BY <1>0, <1>9 DEF M!ManualAsMcopy, M!mcopyResult
-----------------------------------------------------------------------------
(* CallContext *)

(* The header of lastCallData is 0, or the payment of a delegatecall. *)
CallInv ==
  /\ C!TypeOK
  /\ slots.data \in paid \cup {0}
  /\ C!PanicNeedsPayment

(* What the assumption says of addresses and amounts. *)
LEMMA CallConstants ==
  /\ Users \subseteq Nat /\ Values \subseteq Nat /\ Payments \subseteq Nat
  /\ Target \in Nat /\ Caller \in Nat
BY ContractsAssumption DEF C!CallContextAssumption

(* CallInv holds of the contracts as deployed. *)
LEMMA CallInitial == C!Init => CallInv
BY CallConstants DEF C!Init, CallInv, C!TypeOK, C!PanicNeedsPayment

(* An amount that is the header of no byte array is odd if it is less than 64. *)
LEMMA Malformed ==
  ASSUME NEW n \in Nat, ~C!Encoded(n)
  PROVE  n > 0 /\ (n < 64 => n % 2 = 1)
<1>1. n = 0 => C!Encoded(n)
  BY DEF C!Encoded
<1>2. n % 2 = 0 \/ n % 2 = 1
  OBVIOUS
<1>3. n < 64 => n \div 2 < 32 /\ n \div 2 >= 0
  OBVIOUS
<1>4. ASSUME n < 64 PROVE (n \div 2) % 128 = n \div 2
  BY <1>3, <1>4
<1> QED
  BY <1>1, <1>2, <1>3, <1>4 DEF C!Encoded

(* A bool written to a slot leaves a word. *)
LEMMA SuccessTyped ==
  ASSUME NEW n \in Nat PROVE (n \div 256) * 256 + (IF C!Accepts THEN 1 ELSE 0) \in Nat
OBVIOUS

(* What setValue leaves in the target has the target's types. *)
LEMMA TargetTyped ==
  ASSUME CallInv, NEW v \in Values, NEW u \in Users, NEW p \in Payments \cup {0},
         C!SetInTarget(v, u, p)
  PROVE  target' \in [value : Values \cup {42}, sender : {0, Caller},
                      origin : Users \cup {0}, msgValue : Payments \cup {0}]
BY DEF C!SetInTarget, CallInv, C!TypeOK

(* What setValue leaves in the caller by delegatecall has the types of the caller's
   slots. *)
LEMMA CallerTyped ==
  ASSUME CallInv, NEW v \in Values, NEW u \in Users, NEW p \in Payments \cup {0}
  PROVE  /\ C!SetInCaller(v, u, p) \in [target : Values \cup {Target}, result : Users \cup {0},
                                        success : Nat, data : Payments \cup {0}]
         /\ C!SetInCaller(v, u, p).data \in {p, slots.data}
BY CallConstants DEF C!SetInCaller, CallInv, C!TypeOK

(* Recording a call clears the header, or panics because of it. *)
LEMMA RecordTyped ==
  ASSUME CallInv, NEW s \in [target : Values \cup {Target}, result : Users \cup {0},
                             success : Nat, data : Payments \cup {0}],
         s.data \in paid \cup {0},
         NEW otherwise \in BOOLEAN, C!Record(s, otherwise),
         otherwise => /\ paid' \subseteq Payments \cup {0}
                      /\ target' \in [value : Values \cup {42}, sender : {0, Caller},
                                      origin : Users \cup {0}, msgValue : Payments \cup {0}]
  PROVE  CallInv'
<1>1. CASE C!Encoded(s.data)
  <2>1. slots' = [C!WithSuccess(s) EXCEPT !.data = 0] /\ otherwise
        /\ outcome' \in {"success", "failure"}
    BY <1>1 DEF C!Record, C!Told
  <2>2. slots' \in [target : Values \cup {Target}, result : Users \cup {0},
                    success : Nat, data : Payments \cup {0}] /\ slots'.data = 0
    <3>1. PICK n \in Nat : n = (s.success \div 256) * 256 + (IF C!Accepts THEN 1 ELSE 0)
      BY SuccessTyped
    <3>2. C!WithSuccess(s) = [s EXCEPT !.success = n]
      BY <3>1 DEF C!WithSuccess
    <3>3. slots' = [[s EXCEPT !.success = n] EXCEPT !.data = 0]
      BY <2>1, <3>2
    <3>4. [s EXCEPT !.success = n] \in [target : Values \cup {Target}, result : Users \cup {0},
                                       success : Nat, data : Payments \cup {0}]
      BY <3>1
    <3> QED
      BY <3>3, <3>4
  <2> QED
    BY <2>1, <2>2 DEF CallInv, C!TypeOK, C!PanicNeedsPayment
<1>2. CASE ~C!Encoded(s.data)
  <2>1. UNCHANGED <<slots, target, paid>> /\ outcome' = "panic"
    BY <1>2 DEF C!Record
  <2>2. s.data \in Payments \cup {0}
    OBVIOUS
  <2>3. s.data \in Nat
    <3>1. Payments \cup {0} \subseteq Nat
      BY CallConstants
    <3> QED
      BY <2>2, <3>1, Zenon
  <2>4. s.data > 0 /\ (s.data < 64 => s.data % 2 = 1)
    BY <1>2, <2>3, Malformed
  <2>5. s.data \in paid'
    BY <2>1, <2>3, <2>4
  <2>6. \E p \in paid' : p > 0 /\ (p < 64 => p % 2 = 1)
    BY <2>4, <2>5
  <2> QED
    BY <2>1, <2>6 DEF CallInv, C!TypeOK, C!PanicNeedsPayment
<1> QED
  BY <1>1, <1>2

(* No call breaks CallInv. *)
LEMMA CallStep == CallInv /\ [C!Next]_(C!vars) => CallInv'
<1> SUFFICES ASSUME CallInv, [C!Next]_(C!vars) PROVE CallInv'
  OBVIOUS
<1>0. slots \in [target : Values \cup {Target}, result : Users \cup {0},
                 success : Nat, data : Payments \cup {0}] /\ paid \subseteq Payments \cup {0}
  BY DEF CallInv, C!TypeOK
<1>1. ASSUME NEW v \in Values, NEW u \in Users, NEW p \in Payments, C!testCall(v, u, p)
      PROVE  CallInv'
  <2> DEFINE otherwise == C!SetInTarget(v, u, p) /\ paid' = paid
  <2>1. C!Record(slots, otherwise)
    BY <1>1 DEF C!testCall
  <2>2. otherwise => /\ paid' \subseteq Payments \cup {0}
                     /\ target' \in [value : Values \cup {42}, sender : {0, Caller},
                                     origin : Users \cup {0}, msgValue : Payments \cup {0}]
    BY <1>0, TargetTyped
  <2>3. otherwise \in BOOLEAN /\ slots.data \in paid \cup {0}
    BY DEF CallInv
  <2> HIDE DEF otherwise
  <2> QED
    BY <1>0, <2>1, <2>2, <2>3, RecordTyped
<1>2. ASSUME NEW v \in Values, NEW u \in Users, C!testDelegatecall(v, u)
      PROVE  CallInv'
  <2> DEFINE otherwise == target' = target /\ paid' = paid \cup {0}
             s == C!SetInCaller(v, u, 0)
  <2>1. C!Record(s, otherwise)
    BY <1>2 DEF C!testDelegatecall
  <2>2. otherwise => /\ paid' \subseteq Payments \cup {0}
                     /\ target' \in [value : Values \cup {42}, sender : {0, Caller},
                                     origin : Users \cup {0}, msgValue : Payments \cup {0}]
    BY <1>0 DEF CallInv, C!TypeOK
  <2>3. otherwise \in BOOLEAN /\ s.data \in paid \cup {0}
        /\ s \in [target : Values \cup {Target}, result : Users \cup {0},
                  success : Nat, data : Payments \cup {0}]
    BY CallerTyped DEF CallInv
  <2> HIDE DEF otherwise, s
  <2> QED
    BY <1>0, <2>1, <2>2, <2>3, RecordTyped
<1>3. ASSUME NEW v \in Values, NEW u \in Users, NEW p \in Payments,
             C!testDelegatecallContext(v, u, p)
      PROVE  CallInv'
  <2>1. /\ slots' = C!SetInCaller(v, u, p)
        /\ paid' = paid \cup {p} /\ outcome' \in {"success", "failure"} /\ target' = target
    BY <1>3 DEF C!testDelegatecallContext, C!Told
  <2>2. /\ slots' \in [target : Values \cup {Target}, result : Users \cup {0},
                       success : Nat, data : Payments \cup {0}]
        /\ slots'.data \in {p, slots.data}
    BY <2>1, CallerTyped
  <2> QED
    BY <1>0, <2>1, <2>2 DEF CallInv, C!TypeOK, C!PanicNeedsPayment
<1>4. ASSUME NEW v \in Values, NEW u \in Users, NEW p \in Payments, C!testCallWithGas(v, u, p)
      PROVE  CallInv'
  <2>1. target' \in [value : Values \cup {42}, sender : {0, Caller},
                     origin : Users \cup {0}, msgValue : Payments \cup {0}]
    BY <1>4, TargetTyped DEF C!testCallWithGas, CallInv, C!TypeOK
  <2> QED
    BY <1>4, <2>1 DEF C!testCallWithGas, C!Told, CallInv, C!TypeOK, C!PanicNeedsPayment
<1>5. ASSUME NEW v \in Values, NEW u \in Users, C!testBatchCalls(v, u)
      PROVE  CallInv'
  <2>1. target' \in [value : Values \cup {42}, sender : {0, Caller},
                     origin : Users \cup {0}, msgValue : Payments \cup {0}]
    BY <1>5, TargetTyped DEF C!testBatchCalls
  <2> QED
    BY <1>5, <2>1 DEF C!testBatchCalls, C!Told, CallInv, C!TypeOK, C!PanicNeedsPayment
<1>6. CASE /\ C!testFallbackCall \/ C!testRevertCall \/ C!testStaticcallModify
           /\ UNCHANGED <<slots, target, paid>>
  BY <1>6 DEF C!testFallbackCall, C!testRevertCall, C!testStaticcallModify, C!Told,
              CallInv, C!TypeOK, C!PanicNeedsPayment
<1>7. CASE /\ C!testStaticcall \/ C!getCallContext
           /\ UNCHANGED <<slots, target, paid>>
  BY <1>7 DEF C!testStaticcall, C!getCallContext, CallInv, C!TypeOK, C!PanicNeedsPayment
<1>8. CASE UNCHANGED C!vars
  BY <1>8 DEF C!vars, CallInv, C!TypeOK, C!PanicNeedsPayment
<1> QED
  BY <1>1, <1>2, <1>3, <1>4, <1>5, <1>6, <1>7, <1>8 DEF C!Next

(* CallInv is an invariant of the two contracts. *)
LEMMA CallInvariant == C!Spec => []CallInv
BY CallInitial, CallStep, PTL DEF C!Spec

-----------------------------------------------------------------------------
(* The contracts together *)

(* A behaviour of the composition is one of each contract. *)
LEMMA EachContract == MCSpec => V!Spec /\ S!Spec /\ M!Spec /\ C!Spec
<1>1. MCInit => V!Init /\ S!Init /\ M!Init /\ C!Init
  BY DEF MCInit
<1>2. [MCNext]_MCVars => [V!Next]_(V!vars)
  BY DEF MCNext, MCVars, transientVars, V!vars, V!frameVars
<1>3. [MCNext]_MCVars => [S!Next]_(S!vars)
  BY DEF MCNext, MCVars, storageVars, S!vars
<1>4. [MCNext]_MCVars => [M!Next]_(M!vars)
  BY DEF MCNext, MCVars, memoryVars, M!vars
<1>5. [MCNext]_MCVars => [C!Next]_(C!vars)
  BY DEF MCNext, MCVars, callVars, C!vars
<1> QED
  BY <1>1, <1>2, <1>3, <1>4, <1>5, PTL DEF MCSpec, V!Spec, S!Spec, M!Spec, C!Spec

(* TypesOK: the variables of all four contracts keep their types, for all arguments,
   amounts and lengths and every number of calls and runs.  In particular nothing
   the storage suite writes, counts up or combines outgrows a word, and the copy
   loop's offset never passes the words that hold the data. *)
THEOREM ContractsTyped == MCSpec => []TypesOK
<1>1. TransientInv /\ StorageInv /\ CopyInv /\ CallInv => TypesOK
  BY StorageSafe DEF TransientInv, CopyInv, CallInv, TypesOK
<1> QED
  BY <1>1, EachContract, TransientInvariant, StorageInvariant, CopyInvariant, CallInvariant, PTL

(* AnswersAsAlone (testTransientLoop and the other calls of
   ETH/eip1153_transient/contract.sol): whatever calls of the same transaction came
   before it, finished or run out of gas, a call returns what it returns alone. *)
THEOREM AnswersIndependent == MCSpec => []AnswersAsAlone
<1>1. TransientInv => AnswersAsAlone
  BY DEF TransientInv, AnswersAsAlone
<1> QED
  BY <1>1, EachContract, TransientInvariant, PTL

(* ManualAsMcopy (testMCOPYGasComparison of ETH/eip5656_mcopy/contract.sol): for
   every length of the data and of a word, the loop over words and MCOPY leave the
   same result and nothing else. *)
THEOREM LoopIsMcopy == MCSpec => []ManualAsMcopy
<1>1. CopyInv => ManualAsMcopy
  BY CopiesAgree DEF ManualAsMcopy
<1> QED
  BY <1>1, EachContract, CopyInvariant, PTL

(* PanicNeedsPayment (lastCallData of ETH/calltest/contract.sol): whatever calls users
   make, assigning lastCallData panics only after a delegatecall that carried ether,
   an odd amount if it is less than 64. *)
THEOREM PanicIsPaid == MCSpec => []PanicNeedsPayment
<1>1. CallInv => PanicNeedsPayment
  BY DEF CallInv, PanicNeedsPayment
<1> QED
  BY <1>1, EachContract, CallInvariant, PTL

=============================================================================
