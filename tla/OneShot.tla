------------------------------ MODULE OneShot ------------------------------
(***************************************************************************)
(* What the submission of a transaction promises its caller: the chain     *)
(* executes it once or not at all, whatever is sent how often; a reorg can *)
(* take the execution back until it is settled and not after; and the one  *)
(* answer is a receipt only of something executed at that moment.          *)
(***************************************************************************)
EXTENDS Integers

VARIABLES executed, \* executions on the best chain
          settled,  \* those that are final
          answer    \* what the caller got: "none" yet, "receipt", or an error

vars == <<executed, settled, answer>>

Init == executed = 0 /\ settled = 0 /\ answer = "none"

Execute == executed = 0 /\ executed' = 1 /\ UNCHANGED <<settled, answer>>

Retract == executed = 1 /\ settled = 0 /\ executed' = 0 /\ UNCHANGED <<settled, answer>>

Settle == executed = 1 /\ settled = 0 /\ settled' = 1 /\ UNCHANGED <<executed, answer>>

Answer ==
  /\ answer = "none"
  /\ \/ answer' = "receipt" /\ executed = 1
     \/ answer' \in {"ValueError", "IOError"}
  /\ UNCHANGED <<executed, settled>>

Next == Execute \/ Retract \/ Settle \/ Answer

Spec == Init /\ [][Next]_vars
=============================================================================
