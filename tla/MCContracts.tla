---------------------------- MODULE MCContracts ----------------------------
(***************************************************************************)
(* The contracts of the migration suites, one at a time: transient storage *)
(* (V), the storage layout and its suite (S), the memory copies (M) and    *)
(* the call contexts (C).                                                  *)
(***************************************************************************)
EXTENDS Naturals

CONSTANTS Arguments, MaxCalls,
          Half, Runs,
          WordLen, Bytes, MaxLen,
          Users, Target, Caller, Values, Payments, Addresses

VARIABLES contract,
          transient, regularStorage, frames, before, answer, calls,
          storage, reports,
          memory, length, i, phase,
          slots, target, paid, outcome

V == INSTANCE TransientStorage WITH Values <- Arguments
S == INSTANCE StorageLayout
M == INSTANCE Mcopy
C == INSTANCE CallContext

ASSUME ContractsAssumption ==
  /\ V!TransientStorageAssumption /\ S!StorageLayoutAssumption
  /\ M!McopyAssumption /\ C!CallContextAssumption

transientVars == <<transient, regularStorage, frames, before, answer, calls>>
storageVars == <<storage, reports>>
memoryVars == <<memory, length, i, phase>>
callVars == <<slots, target, paid, outcome>>
MCVars == <<contract, transientVars, storageVars, memoryVars, callVars>>

MCInit ==
  /\ contract \in {"eip1153_transient", "storagetest", "eip5656_mcopy", "calltest"}
  /\ V!Init
  /\ S!Init
  /\ M!Init
  /\ contract # "eip5656_mcopy" => length = 0 /\ memory[0] = 0
  /\ C!Init

MCNext ==
  \/ /\ contract = "eip1153_transient" /\ V!Next
     /\ UNCHANGED <<contract, storageVars, memoryVars, callVars>>
  \/ /\ contract = "storagetest" /\ S!Next
     /\ UNCHANGED <<contract, transientVars, memoryVars, callVars>>
  \/ /\ contract = "eip5656_mcopy" /\ M!Next
     /\ UNCHANGED <<contract, transientVars, storageVars, callVars>>
  \/ /\ contract = "calltest" /\ C!Next
     /\ UNCHANGED <<contract, transientVars, storageVars, memoryVars>>

MCSpec == MCInit /\ [][MCNext]_MCVars

-----------------------------------------------------------------------------
(* The variables of all four contracts keep their types. *)
TypesOK == V!TypeOK /\ S!TypeOK /\ M!TypeOK /\ C!TypeOK

(* TransientStorage: a call answers as if it were alone in its transaction. *)
AnswersAsAlone == V!AnswersAsAlone

(* StorageLayout: a run of the suite reports what the run before it has. *)
SameBehavior == S!SameBehavior


(* Mcopy: the loop's result is MCOPY's. *)
ManualAsMcopy == M!ManualAsMcopy

(* CallContext: only ether sent along with a delegatecall makes a call panic. *)
PanicNeedsPayment == C!PanicNeedsPayment
=============================================================================
