---------------------------- MODULE CallContext ----------------------------
(***************************************************************************)
(* ETH/calltest/contract.sol: a caller contract and its target.  A         *)
(* delegatecall of setValue writes the target's layout into the caller's   *)
(* slots: value over the pointer to the target (slot 0), sender over       *)
(* lastCallResult (1), origin over lastCallSuccess (2) and msgValue over   *)
(* the header of lastCallData (3).  The variables meant for it, slots 4 to *)
(* 8, nobody writes.  Users call in any order.                             *)
(***************************************************************************)
EXTENDS Integers

CONSTANTS Users,     \* addresses of the accounts that call
          Target,    \* the target's address
          Caller,    \* the caller contract's address
          Values,    \* arguments of setValue; as addresses they have no code
                     \* unless they name one of the two contracts
          Payments,  \* what msg.value may be
          Addresses  \* addresses there are: an address is the rest of a word

CallContextAssumption ==
  /\ Users \cup Values \cup Payments \cup {Target, Caller} \subseteq Nat
  /\ Addresses \in Nat \ {0}
  /\ Users \cup {Target, Caller} \subseteq 1 .. Addresses - 1
  /\ Target # Caller /\ Users \cap {Target, Caller} = {}

VARIABLES slots,   \* slots 0 to 3 of the caller contract
          target,  \* the storage of the target
          paid,    \* msg.value of the delegatecalls made so far
          outcome  \* how the last transaction ended

vars == <<slots, target, paid, outcome>>

TypeOK ==
  /\ slots \in [target : Values \cup {Target}, result : Users \cup {0},
                success : Nat, data : Payments \cup {0}]
  /\ target \in [value : Values \cup {42}, sender : {0, Caller},
                 origin : Users \cup {0}, msgValue : Payments \cup {0}]
  /\ paid \subseteq Payments \cup {0}
  /\ outcome \in {"none", "success", "failure", "panic", "revert"}

Init ==
  /\ slots = [target |-> Target, result |-> 0, success |-> 0, data |-> 0]
  /\ target = [value |-> 42, sender |-> 0, origin |-> 0, msgValue |-> 0]
  /\ paid = {}
  /\ outcome = "none"

-----------------------------------------------------------------------------
(* What the pointer names: the low bytes of slot 0. *)
Pointee == slots.target % Addresses

(* It still names the contract that has setValue. *)
Reaches == Pointee = Target

(* The target's fallback and an address without code accept any call, the caller
   contract has neither setValue nor a fallback. *)
Accepts == Pointee # Caller

Told(success) == outcome' = IF success THEN "success" ELSE "failure"

(* setValue by call, in the target's context: the sender is this contract. *)
SetInTarget(value, user, payment) ==
  target' = IF Reaches
    THEN [value |-> value, sender |-> Caller, origin |-> user, msgValue |-> payment]
    ELSE target

(* Mutant: setValue writes its four variables in the reverse order. *)
SetInCallerReversed(value, user, payment) ==
  IF Reaches
    THEN [target |-> payment, result |-> user, success |-> user, data |-> value]
    ELSE slots

(* setValue by delegatecall, in this contract's context. *)
SetInCaller(value, user, payment) ==
  IF Reaches
    THEN [target |-> value, result |-> user, success |-> user, data |-> payment]
    ELSE slots

(* A bool is the lowest byte of its slot. *)
WithSuccess(s) == [s EXCEPT !.success = (@ \div 256) * 256 + IF Accepts THEN 1 ELSE 0]

(* The header of a bytes variable: twice the length when short, which is less
   than 32, twice the length plus one when long.  Anything else panics when the
   variable is assigned. *)
Encoded(word) ==
  \/ word % 2 = 0 /\ (word \div 2) % 128 < 32
  \/ word % 2 = 1 /\ word \div 2 >= 32

(* lastCallSuccess = success; lastCallData = data, which is empty. *)
Record(s, otherwise) ==
  IF Encoded(s.data)
    THEN slots' = [WithSuccess(s) EXCEPT !.data = 0] /\ otherwise /\ Told(Accepts)
    ELSE UNCHANGED <<slots, target, paid>> /\ outcome' = "panic"

testCall(value, user, payment) ==
  Record(slots, SetInTarget(value, user, payment) /\ UNCHANGED paid)

testDelegatecall(value, user) ==
  Record(SetInCaller(value, user, 0), UNCHANGED target /\ paid' = paid \cup {0})

testDelegatecallContext(value, user, payment) ==
  /\ slots' = SetInCaller(value, user, payment)
  /\ paid' = paid \cup {payment}
  /\ Told(Accepts)
  /\ UNCHANGED target

(* The gas may not be enough for the target; an address without code needs none. *)
testCallWithGas(value, user, payment) ==
  /\ \/ SetInTarget(value, user, payment) /\ Told(Accepts)
     \/ Reaches /\ Told(FALSE) /\ UNCHANGED target
  /\ UNCHANGED <<slots, paid>>

(* The values are set one after the other, without ether; the last one stays. *)
testBatchCalls(value, user) ==
  /\ SetInTarget(value, user, 0)
  /\ Told(Accepts)
  /\ UNCHANGED <<slots, paid>>

(* The target's fallback only emits an event. *)
testFallbackCall == Told(Accepts)

(* revertFunction reverts; only an address without code lets it pass. *)
testRevertCall == Told(Pointee \notin {Target, Caller})

-----------------------------------------------------------------------------
(* Without code there is no answer to decode. *)
testStaticcall ==
  outcome' = CASE Pointee = Target -> "success"
               [] Pointee = Caller -> "failure"
               [] OTHER -> "revert"

testStaticcallModify == Told(Pointee \notin {Target, Caller})

(* Calls of the getters of another contract, which must have code; the caller has
   getters of the same names. *)
getCallContext ==
  outcome' = IF Pointee \in {Target, Caller} THEN "success" ELSE "revert"

Next ==
  \/ \E v \in Values, u \in Users, p \in Payments :
       testCall(v, u, p) \/ testDelegatecallContext(v, u, p) \/ testCallWithGas(v, u, p)
  \/ \E v \in Values, u \in Users : testDelegatecall(v, u) \/ testBatchCalls(v, u)
  \/ /\ testFallbackCall \/ testRevertCall
        \/ testStaticcall \/ testStaticcallModify \/ getCallContext
     /\ UNCHANGED <<slots, target, paid>>

Spec == Init /\ [][Next]_vars

-----------------------------------------------------------------------------
(* Assigning lastCallData panics only after a delegatecall has left an amount of
   ether in its slot that is no header of a byte array: below 64 that is an odd
   one, above it depends on the amount. *)
PanicNeedsPayment ==
  outcome = "panic" => \E p \in paid : p > 0 /\ (p < 64 => p % 2 = 1)
=============================================================================
