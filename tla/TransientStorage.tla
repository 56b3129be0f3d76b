-------------------------- MODULE TransientStorage --------------------------
(***************************************************************************)
(* ETH/eip1153_transient/contract.sol, called in transactions that may     *)
(* make several calls (the batch precompile).  Transient storage lives as  *)
(* long as the transaction; a call that runs out of gas is rolled back     *)
(* and the batch goes on.                                                  *)
(***************************************************************************)
EXTENDS Integers

CONSTANTS Values,   \* arguments of the calls
          MaxCalls  \* bound: calls in a transaction

TransientStorageAssumption == Values \subseteq Nat /\ MaxCalls \in Nat

Slots == {1, 2, 3, 4, 16, 32, 48}
Empty == [s \in Slots |-> 0]

VARIABLES transient, \* the contract's transient storage
          regularStorage,
          frames,    \* frames of testTransientIsolation on the stack
          before,    \* transient storage when they were entered
          answer,    \* the last call of the batch, and what it returned
          calls      \* calls made in this transaction

frameVars == <<frames, before>>

vars == <<transient, regularStorage, frameVars, answer, calls>>

NoAnswer == [call |-> "none", arg |-> 0, result |-> 0]

TypeOK ==
  /\ {transient, before} \subseteq [Slots -> Nat]
  /\ {transient[2], before[2]} \subseteq {0, 42}
  /\ regularStorage \in Values \cup {0}
  /\ frames \in {"none", "outer", "inner", "isolated", "seen"}
  /\ answer \in [call : {"none", "basic", "isolation", "empty", "regular", "loop", "slots"},
                 arg : Nat, result : Nat]
  /\ calls \in 0 .. MaxCalls

Init ==
  /\ transient = Empty /\ before = Empty
  /\ regularStorage = 0
  /\ frames = "none"
  /\ answer = NoAnswer
  /\ calls = 0

-----------------------------------------------------------------------------
Return(call, arg, result) ==
  /\ answer' = [call |-> call, arg |-> arg, result |-> result]
  /\ calls' = calls + 1

Word(truth) == IF truth THEN 1 ELSE 0

TopLevel == frames = "none" /\ calls < MaxCalls

With(slot, value) == [transient EXCEPT ![slot] = value]

testBasicTransient(value) ==
  /\ TopLevel
  /\ Return("basic", value, With(1, value)[1])
  /\ transient' = With(1, 0)
  /\ UNCHANGED <<regularStorage, frameVars>>

checkTransientEmpty ==
  /\ TopLevel
  /\ Return("empty", 0, Word(transient[2] = 0))
  /\ UNCHANGED <<transient, regularStorage, frameVars>>

testTransientVsRegular(value) ==
  /\ TopLevel
  /\ regularStorage' = value
  /\ Return("regular", value, Word(regularStorage' = With(3, value)[3]))
  /\ transient' = With(3, 0)
  /\ UNCHANGED frameVars

(* Mutant: the sum is kept in the slot of testTransientIsolation and not cleared. *)
LoopUncleared(iterations) ==
  LET sum[i \in 0 .. iterations] == IF i = 0 THEN 0 ELSE sum[i - 1] + i - 1 IN
  /\ TopLevel
  /\ Return("loop", iterations, sum[iterations])
  /\ transient' = IF iterations = 0 THEN transient ELSE With(2, sum[iterations - 1])
  /\ UNCHANGED <<regularStorage, frameVars>>

(* The sum goes through slot 4 in every iteration. *)
testTransientLoop(iterations) ==
  LET sum[i \in 0 .. iterations] ==
        IF i = 0 THEN 0 ELSE With(4, sum[i - 1])[4] + i - 1 IN
  /\ TopLevel
  /\ Return("loop", iterations, sum[iterations])
  /\ transient' = With(4, 0)
  /\ UNCHANGED <<regularStorage, frameVars>>

testMultipleSlots ==
  /\ TopLevel
  /\ LET set == [transient EXCEPT ![16] = 100, ![32] = 200, ![48] = 300] IN
     Return("slots", 0, Word(set[16] = 100 /\ set[32] = 200 /\ set[48] = 300))
  /\ transient' = [transient EXCEPT ![16] = 0, ![32] = 0, ![48] = 0]
  /\ UNCHANGED <<regularStorage, frameVars>>

-----------------------------------------------------------------------------
(* testTransientIsolation: the value is set, the contract calls itself, and the
   call reads the same slots, being of the same transaction. *)
SetIsolated ==
  /\ TopLevel
  /\ transient' = With(2, 42)
  /\ before' = transient
  /\ frames' = "outer"
  /\ UNCHANGED <<regularStorage, answer, calls>>

CallSelf ==
  /\ frames = "outer"
  /\ frames' = "inner"
  /\ UNCHANGED <<transient, before, regularStorage, answer, calls>>

ReturnToSelf ==
  /\ frames = "inner"
  /\ frames' = IF transient[2] = 0 THEN "isolated" ELSE "seen"
  /\ UNCHANGED <<transient, before, regularStorage, answer, calls>>

(* Mutant: the value is left behind. *)
FinishIsolatedUncleared ==
  /\ frames \in {"isolated", "seen"}
  /\ Return("isolation", 0, Word(frames = "isolated" /\ transient[2] = 42))
  /\ frames' = "none"
  /\ UNCHANGED <<transient, before, regularStorage>>

FinishIsolated ==
  /\ frames \in {"isolated", "seen"}
  /\ Return("isolation", 0, Word(frames = "isolated" /\ transient[2] = 42))
  /\ transient' = With(2, 0)
  /\ frames' = "none"
  /\ UNCHANGED <<before, regularStorage>>

(* The frame, or the self call in it, runs out of gas and is rolled back. *)
OutOfGas ==
  /\ frames # "none"
  /\ transient' = before
  /\ frames' = "none"
  /\ answer' = NoAnswer
  /\ calls' = calls + 1
  /\ UNCHANGED <<before, regularStorage>>

(* The transaction ends and its transient storage is discarded. *)
EndTransaction ==
  /\ frames = "none"
  /\ calls > 0
  /\ transient' = Empty
  /\ answer' = NoAnswer
  /\ calls' = 0
  /\ UNCHANGED <<regularStorage, frameVars>>

Next ==
  \/ \E v \in Values : testBasicTransient(v) \/ testTransientVsRegular(v) \/ testTransientLoop(v)
  \/ checkTransientEmpty \/ testMultipleSlots
  \/ SetIsolated \/ CallSelf \/ ReturnToSelf \/ FinishIsolated
  \/ OutOfGas \/ EndTransaction

Spec == Init /\ [][Next]_vars

-----------------------------------------------------------------------------
Alone ==
  [basic |-> [v \in Values |-> v],
   regular |-> [v \in Values |-> 1],
   loop |-> [v \in Values |-> (v * (v - 1)) \div 2]]

(* What a call returns does not depend on the calls made before it in the same
   transaction, reverted ones included. *)
AnswersAsAlone ==
  CASE answer.call \in DOMAIN Alone -> answer.result = Alone[answer.call][answer.arg]
    [] answer.call \in {"empty", "slots"} -> answer.result = 1
    [] OTHER -> TRUE
=============================================================================
