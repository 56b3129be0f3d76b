-------------------------- MODULE SafeUpgradeTime --------------------------
(***************************************************************************)
(* tools/show_safe_upgrade_time.py: from the head's number, the head's     *)
(* timestamp and the staking round, read one after the other while blocks  *)
(* keep coming, the times of blocks of this session and the next two.      *)
(* The chain is external.  Time is counted in units of one block.          *)
(***************************************************************************)
EXTENDS Integers

CONSTANTS Average,   \* AVERAGE_BLOCK_TIME_SECONDS
          Offsets,   \* {0, 100, 1500}
          Gaps,      \* times the chain takes for a block
          Length,    \* blocks of a round when the behaviour starts
          MaxHeight  \* bound: blocks of the chain

SafeUpgradeTimeAssumption ==
  /\ {Average, Length, MaxHeight} \subseteq Nat \ {0}
  /\ Offsets \cup Gaps \subseteq Nat

Sessions == {"Current", "Next", "Two Sessions Ahead"}

VARIABLES stamps,  \* stamps[n]: Timestamp.Now of block n
          rounds,  \* rounds[n]: ParachainStaking.Round at block n
          forced,  \* governance has interfered with the rounds
          step,    \* the read that is next
          current, \* current_block_number
          time,    \* current_block_time
          round,   \* parachain_staking_round_data
          lines    \* lines[session][offset]: the block and the time printed

vars == <<stamps, rounds, forced, step, current, time, round, lines>>

head == CHOOSE n \in DOMAIN stamps : n + 1 \notin DOMAIN stamps
NoRound == [first |-> 0, length |-> 0]
NoLines == [s \in {} |-> 0]

TypeOK ==
  /\ stamps \in [0 .. head -> Nat]
  /\ rounds \in [0 .. head -> [first : 0 .. head, length : Nat]]
  /\ forced \in BOOLEAN
  /\ step \in {"number", "time", "round", "print", "stopped"}
  /\ current \in 0 .. head
  /\ time \in Nat
  /\ round.first \in Nat
  /\ lines = NoLines \/ lines \in [Sessions -> [Offsets -> [block : Nat, time : Nat]]]

Init ==
  /\ stamps = [n \in {0} |-> 0]
  /\ rounds = [n \in {0} |-> [first |-> 0, length |-> Length]]
  /\ forced = FALSE
  /\ step = "number"
  /\ current = 0
  /\ time = 0
  /\ round = NoRound
  /\ lines = NoLines

-----------------------------------------------------------------------------
Extend(f, x) == [n \in 0 .. head + 1 |-> IF n <= head THEN f[n] ELSE x]
Started(r) == IF head + 1 >= r.first + r.length THEN [r EXCEPT !.first = head + 1] ELSE r

(* A forced round, or another length.  Bound: once in a behaviour. *)
Interfere ==
  /\ ~forced
  /\ forced' = TRUE
  /\ \/ rounds' = Extend(rounds, [rounds[head] EXCEPT !.first = head + 1])
     \/ rounds' = Extend(rounds, [Started(rounds[head]) EXCEPT !.length = Length + 1])

Block ==
  /\ head < MaxHeight
  /\ \E gap \in Gaps : stamps' = Extend(stamps, stamps[head] + gap)
  /\ \/ rounds' = Extend(rounds, Started(rounds[head])) /\ UNCHANGED forced
     \/ Interfere
  /\ UNCHANGED <<step, current, time, round, lines>>

ReadNumber ==
  /\ step = "number"
  /\ current' = head
  /\ step' = "time"
  /\ UNCHANGED <<stamps, rounds, forced, time, round, lines>>

(* The head may not be block current any more. *)
ReadTime ==
  /\ step = "time"
  /\ time' = stamps[head]
  /\ step' = "round"
  /\ UNCHANGED <<stamps, rounds, forced, current, round, lines>>

ReadRound ==
  /\ step = "round"
  /\ round' = rounds[head]
  /\ step' = "print"
  /\ UNCHANGED <<stamps, rounds, forced, current, time, lines>>

(* Mutant: the block the head is at counts among those to come. *)
TimeOfInclusive(block) ==
  IF block < current THEN stamps[block] ELSE time + (block - current - 1) * Average

(* get_block_timestamp *)
TimeOf(block) ==
  IF block <= current THEN stamps[block] ELSE time + (block - current) * Average

(* Mutant: one block short. *)
BaseShort(session) ==
  CASE session = "Current" -> round.first
    [] session = "Next" -> round.first + round.length - 1
    [] OTHER -> round.first + 2 * round.length - 1

Base(session) ==
  CASE session = "Current" -> round.first
    [] session = "Next" -> round.first + round.length
    [] OTHER -> round.first + 2 * round.length

(* print_session_times, three times *)
PrintTimes ==
  /\ step = "print"
  /\ lines' = [s \in Sessions |-> [o \in Offsets |->
                 [block |-> Base(s) + o, time |-> TimeOf(Base(s) + o)]]]
  /\ step' = "stopped"
  /\ UNCHANGED <<stamps, rounds, forced, current, time, round>>

Stopped == step = "stopped" /\ UNCHANGED vars

Next == Block \/ ReadNumber \/ ReadTime \/ ReadRound \/ PrintTimes \/ Stopped

Spec == Init /\ [][Next]_vars

-----------------------------------------------------------------------------
Printed == {lines[s][o] : s \in DOMAIN lines, o \in Offsets}

(* Rounds that nobody interferes with begin at the blocks printed for the next
   session and the one after, whenever in a round the tool is run. *)
PredictionHolds ==
  step = "stopped" /\ ~forced =>
    \A s \in {"Next", "Two Sessions Ahead"} :
      Base(s) <= head => rounds[Base(s)].first = Base(s)

(* While no block takes longer than the average, none comes later than printed:
   an upgrade planned for a printed time finds its block there. *)
EstimateNotEarly ==
  (\A n \in 1 .. head : stamps[n] - stamps[n - 1] <= Average) =>
    \A l \in Printed : l.block <= head => stamps[l.block] <= l.time
=============================================================================
