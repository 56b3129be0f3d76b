----------------------------- MODULE AssetWatch -----------------------------
(***************************************************************************)
(* wait_for_account_asset_change_wrap (tools/asset.py) as the XCM tests    *)
(* use it: the caller notes a block number, and perhaps a balance, lets a  *)
(* transfer be sent from another chain, and waits for the balance to       *)
(* change.  The chain is external and only ever credits the account.       *)
(***************************************************************************)
EXTENDS Integers

CONSTANTS Polls,      \* count < 10
          MaxCredits, \* bound: credits of one unit
          MaxBlocks   \* bound: blocks in a behaviour

AssetWatchAssumption == {Polls, MaxCredits, MaxBlocks} \subseteq Nat

VARIABLES balances,  \* balances[n]: the account after block n
          reader,    \* func: which pallet holds the asset
          given,     \* prev_token as passed; 0 is the default
          block_num, \* the block the search starts from
          pc,        \* the step the call is at
          prev_token,
          now_block,
          i,         \* the block of the search
          count,     \* polls made
          out        \* the balance returned, or a step that is no balance

vars == <<balances, reader, given, block_num, pc, prev_token, now_block, i, count, out>>

height == CHOOSE n \in DOMAIN balances : n + 1 \notin DOMAIN balances
None == -1
Raised == -2

TypeOK ==
  /\ balances \in [0 .. height -> 0 .. MaxCredits + 1]
  /\ reader \in {"pallet_assets", "pallet_tokens", "pallet_balances"}
  /\ {given, prev_token, block_num, i} \subseteq Nat
  /\ now_block \in 0 .. height
  /\ pc \in {"note", "sent", "search", "poll", "last", "stopped"}
  /\ count \in 0 .. Polls
  /\ out \in {None, Raised} \cup 0 .. MaxCredits + 1

Init ==
  /\ balances \in [{0} -> {0, 1}]
  /\ reader \in {"pallet_assets", "pallet_tokens", "pallet_balances"}
  /\ given \in {0, balances[0]}
  /\ block_num = 0
  /\ pc = "note"
  /\ prev_token = 0
  /\ now_block = 0
  /\ i = 0
  /\ count = 0
  /\ out = None

-----------------------------------------------------------------------------
Block ==
  /\ height < MaxBlocks
  /\ \E credit \in {0, 1} :
       /\ balances[height] + credit <= balances[0] + MaxCredits
       /\ balances' = [n \in 0 .. height + 1 |->
                         IF n <= height THEN balances[n] ELSE balances[height] + credit]
  /\ UNCHANGED <<reader, given, block_num, pc, prev_token, now_block, i, count, out>>

(* The readers are asked for a block, or for the head when there is no block hash;
   get_tokens_account_from_pallet_tokens has this the wrong way round. *)
AtBlock(n) == IF reader = "pallet_tokens" THEN balances[height] ELSE balances[n]
AtHead == balances[height]

(* get_block_number, before the transfer is sent. *)
NoteBlock ==
  /\ pc = "note"
  /\ block_num' = height
  /\ pc' = "sent"
  /\ UNCHANGED <<balances, reader, given, prev_token, now_block, i, count, out>>

(* A balance of 0 that is passed is taken for none. *)
Start ==
  /\ pc = "sent"
  /\ prev_token' = IF given = 0 THEN AtBlock(block_num) ELSE given
  /\ i' = block_num
  /\ now_block' = height
  /\ pc' = "search"
  /\ UNCHANGED <<balances, reader, given, block_num, count, out>>

Return(balance) == out' = balance /\ pc' = "stopped"

SearchHit ==
  /\ pc = "search"
  /\ i <= now_block
  /\ AtBlock(i) # prev_token
  /\ Return(AtBlock(i))
  /\ UNCHANGED <<balances, reader, given, block_num, prev_token, now_block, i, count>>

SearchMiss ==
  /\ pc = "search"
  /\ i <= now_block
  /\ AtBlock(i) = prev_token
  /\ i' = i + 1
  /\ UNCHANGED <<balances, reader, given, block_num, pc, prev_token, now_block, count, out>>

SearchOver ==
  /\ pc = "search"
  /\ i > now_block
  /\ now_block' = height
  /\ pc' = "poll"
  /\ UNCHANGED <<balances, reader, given, block_num, prev_token, i, count, out>>

(* The head has the balance still: sleep, and look again. *)
Poll ==
  /\ pc = "poll"
  /\ AtHead = prev_token
  /\ count < Polls
  /\ count' = count + 1
  /\ now_block' = height
  /\ UNCHANGED <<balances, reader, given, block_num, pc, prev_token, i, out>>

PollOver ==
  /\ pc = "poll"
  /\ AtHead # prev_token \/ count = Polls
  /\ pc' = "last"
  /\ UNCHANGED <<balances, reader, given, block_num, prev_token, now_block, i, count, out>>

(* Mutant: gives up without a last look. *)
LastLookLeftOut ==
  /\ pc = "last"
  /\ Return(IF count = Polls THEN Raised ELSE AtHead)
  /\ UNCHANGED <<balances, reader, given, block_num, prev_token, now_block, i, count>>

(* The balance is read once more, and decides. *)
LastLook ==
  /\ pc = "last"
  /\ Return(IF AtHead = prev_token THEN Raised ELSE AtHead)
  /\ UNCHANGED <<balances, reader, given, block_num, prev_token, now_block, i, count>>

Stopped == pc = "stopped" /\ UNCHANGED vars

Next ==
  \/ Block \/ NoteBlock \/ Start \/ SearchHit \/ SearchMiss \/ SearchOver
  \/ Poll \/ PollOver \/ LastLook \/ Stopped

Spec == Init /\ [][Next]_vars

-----------------------------------------------------------------------------
(* The wait fails only when nothing was credited since the noted block, however
   soon the credit came and however late the wait began.  The reader that mixes
   up its blocks is excepted unless the balance before was passed. *)
ArrivalNoticed ==
  [][out' = Raised /\ out # Raised /\ (reader # "pallet_tokens" \/ given # 0) =>
       balances[height] = balances[block_num]]_vars
=============================================================================
