----------------------------- MODULE EventWait -----------------------------
(***************************************************************************)
(* wait_for_event (tools/utils.py): the blocks since block_idx_prev are    *)
(* scanned one by one, then the head is polled until the timeout.  Events  *)
(* are the members of Others, told apart by what _is_it_this_event makes   *)
(* of them.                                                                *)
(***************************************************************************)
EXTENDS ReorgChain

CONSTANTS Wanted,   \* events that match module, name and attributes
          Odd,      \* matching events that lack an attribute asked for
          MaxAhead, \* bound: blocks produced in a behaviour
          HeadPace  \* bound: head changes between two reads of the head

ASSUME EventWaitAssumption ==
  /\ Wanted \cup Odd \subseteq Others
  /\ Wanted \cap Odd = {}
  /\ Attempts = {}
  /\ MaxAhead \in Nat
  /\ HeadPace \in Nat

VARIABLES pc,    \* the step the call is at
          prev,  \* block_idx_prev
          now,   \* now_block, later the number of cur_bl
          next,  \* bl_idx, the block the first loop asks for
          cur,   \* cur_bl: the head last searched, or NoHead
          since, \* head changes since the call last read the head
          out    \* "searching", "found", "none" or "KeyError"

clientVars == <<pc, prev, now, next, cur, out>>
vars == <<chainVars, clientVars, since>>

NoHead == [num |-> 0, block |-> <<>>]
Head == [num |-> height, block |-> IF height = 0 THEN <<>> ELSE chain[height]]

TypeOK ==
  /\ ChainTypeOK
  /\ pc \in {"call", "previous", "future", "stopped"}
  /\ prev \in Nat
  /\ now \in 0 .. height
  /\ next \in Nat
  /\ cur.num \in 0 .. height /\ IsBlock(cur.block)
  /\ since \in 0 .. HeadPace
  /\ out \in {"searching", "found", "none", "KeyError"}

Init ==
  /\ ChainInit
  /\ pc = "call"
  /\ prev \in 0 .. 1
  /\ now = 0
  /\ next = 0
  /\ cur = NoHead
  /\ since = 0
  /\ out = "searching"

-----------------------------------------------------------------------------
(* The events of a block are looked at in order until one decides: a match ends
   the search, a missing attribute raises KeyError. *)
Deciding(b) == {i \in DOMAIN b : b[i] \in Wanted \cup Odd}
FirstDeciding(b) == CHOOSE i \in Deciding(b) : \A j \in Deciding(b) : i <= j

(* Mutant: an event without the attribute counts as a match. *)
VerdictLenient(b) == IF Deciding(b) = {} THEN "searching" ELSE "found"

Verdict(b) ==
  IF Deciding(b) = {} THEN "searching"
  ELSE IF b[FirstDeciding(b)] \in Wanted THEN "found" ELSE "KeyError"

Conclude(verdict, then) ==
  /\ out' = verdict
  /\ pc' = IF verdict = "searching" THEN then ELSE "stopped"

(* Mutant: starts a block before the one asked for. *)
StartEarlier ==
  /\ pc = "call"
  /\ prev' = IF prev = 0 THEN height ELSE prev
  /\ now' = height
  /\ next' = prev' - 1
  /\ pc' = "previous"
  /\ since' = 0
  /\ UNCHANGED <<chainVars, cur, out>>

(* A missing block_idx_prev is the current block; now_block is read from the
   head. *)
Start ==
  /\ pc = "call"
  /\ prev' = IF prev = 0 THEN height ELSE prev
  /\ now' = height
  /\ next' = prev'
  /\ pc' = "previous"
  /\ since' = 0
  /\ UNCHANGED <<chainVars, cur, out>>

ScanPrevious ==
  /\ pc = "previous"
  /\ next <= now
  /\ Conclude(Verdict(IF next = 0 THEN <<>> ELSE chain[next]), pc)
  /\ next' = next + 1
  /\ UNCHANGED <<chainVars, prev, now, cur, since>>

(* Mutant: takes the head for one already searched. *)
PreviousDoneUnsearched ==
  /\ pc = "previous"
  /\ next > now
  /\ pc' = "future"
  /\ cur' = Head
  /\ now' = height
  /\ since' = 0
  /\ UNCHANGED <<chainVars, prev, next, out>>

(* nxt_bl is the head, which is searched in the first pass of the loop. *)
PreviousDone ==
  /\ pc = "previous"
  /\ next > now
  /\ Conclude(Verdict(Head.block), "future")
  /\ cur' = Head
  /\ now' = height
  /\ since' = 0
  /\ UNCHANGED <<chainVars, prev, next>>

(* A head with another hash is searched; the same head is not. *)
Poll ==
  /\ pc = "future"
  /\ Head # cur
  /\ Conclude(Verdict(Head.block), "future")
  /\ cur' = Head
  /\ now' = height
  /\ since' = 0
  /\ UNCHANGED <<chainVars, prev, next>>

Timeout ==
  /\ pc = "future"
  /\ Conclude("none", "stopped")
  /\ UNCHANGED <<chainVars, prev, now, next, cur, since>>

Stopped == pc = "stopped" /\ UNCHANGED vars

-----------------------------------------------------------------------------
Call == Start \/ ScanPrevious \/ PreviousDone \/ Poll \/ Timeout

HeadChange ==
  /\ since < HeadPace \/ pc = "call"
  /\ (height < MaxAhead /\ Produce) \/ Reorg
  /\ since' = IF pc = "call" THEN 0 ELSE since + 1
  /\ UNCHANGED clientVars

Env == HeadChange \/ (Finalize /\ UNCHANGED <<clientVars, since>>)

Next == Call \/ Env \/ Stopped

Spec == Init /\ [][Next]_vars

-----------------------------------------------------------------------------
(* An event that is reported was emitted no earlier than the block the caller
   asked to start from, unless a reorg has removed it. *)
FoundIsReal ==
  out = "found" /\ reorgs = 0 =>
    \E n \in prev .. height : n >= 1 /\ \E w \in Wanted : Holds(chain[n], w)

(* When the head is read at least once per head change and no reorg reaches
   deeper than the head, a call that returns None has missed no event of the
   blocks from block_idx_prev to the head it has last seen. *)
NoneMissed ==
  [][out' = "none" /\ cur = Head =>
       \A n \in prev .. now : n >= 1 => \A w \in Wanted : ~Holds(chain[n], w)]_vars
=============================================================================
