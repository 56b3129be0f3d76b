------------------------------ MODULE MCWatch ------------------------------
(***************************************************************************)
(* The tools that only watch a chain, one at a time: wait_for_event        *)
(* (EventWait, extended), the wait for an asset to arrive (A), the session *)
(* times shown to an operator (T), the snapshot of the storage (S) and the *)
(* search for the first block of a runtime version (V).                    *)
(***************************************************************************)
EXTENDS EventWait

CONSTANTS Polls, MaxCredits, MaxBlocks,
          Average, Offsets, Gaps, Length, MaxHeight,
          Keys, PageSize, MaxMoves, MaxVersion, LastBlock

VARIABLES tool,
          balances, reader, given, block_num, pcA, prev_token, now_block, i, count, outA,
          stamps, rounds, forced, step, current, time, round, lines,
          content, always, ever, moves, entry, start_key, paging, read,
          versions

A == INSTANCE AssetWatch WITH pc <- pcA, out <- outA
T == INSTANCE SafeUpgradeTime
S == INSTANCE SnapshotRead
       WITH Kinds <- <<"map", "ignored", "value">>, out <- read
V == INSTANCE VersionSearch WITH MaxBlock <- LastBlock

ASSUME WatchAssumption ==
  /\ A!AssetWatchAssumption /\ T!SafeUpgradeTimeAssumption
  /\ S!SnapshotReadAssumption /\ V!VersionSearchAssumption

assetVars == <<balances, reader, given, block_num, pcA, prev_token, now_block, i, count, outA>>
timeVars == <<stamps, rounds, forced, step, current, time, round, lines>>
snapshotVars == <<content, always, ever, moves, entry, start_key, paging, read>>
MCVars == <<tool, vars, assetVars, timeVars, snapshotVars, versions>>

MCInit ==
  /\ tool \in {"event", "asset", "time", "snapshot", "version"}
  /\ Init
  /\ tool # "event" => prev = 0
  /\ A!Init
  /\ tool # "asset" => reader = "pallet_assets" /\ balances[0] = 0
  /\ T!Init
  /\ S!Init
  /\ tool # "snapshot" => \A e \in S!Entries : content[e] \subseteq {1}
  /\ V!Init
  /\ tool # "version" => versions = <<1>>

MCNext ==
  \/ tool = "event" /\ Next /\ UNCHANGED <<tool, assetVars, timeVars, snapshotVars, versions>>
  \/ tool = "asset" /\ A!Next /\ UNCHANGED <<tool, vars, timeVars, snapshotVars, versions>>
  \/ tool = "time" /\ T!Next /\ UNCHANGED <<tool, vars, assetVars, snapshotVars, versions>>
  \/ tool = "snapshot" /\ S!Next /\ UNCHANGED <<tool, vars, assetVars, timeVars, versions>>
  \/ tool = "version" /\ V!Next /\ UNCHANGED <<tool, vars, assetVars, timeVars, snapshotVars>>

MCSpec == MCInit /\ [][MCNext]_MCVars

-----------------------------------------------------------------------------
(* The variables of all tools keep their types. *)
TypesOK == TypeOK /\ A!TypeOK /\ T!TypeOK /\ S!TypeOK /\ V!TypeOK

(* AssetWatch: the wait fails only when nothing has arrived since the noted
   block. *)
ArrivalNoticed == A!ArrivalNoticed

(* SafeUpgradeTime: undisturbed rounds begin at the printed blocks. *)
PredictionHolds == T!PredictionHolds

(* SafeUpgradeTime: at the average pace no block comes later than printed. *)
EstimateNotEarly == T!EstimateNotEarly

(* SnapshotRead: a map that was read has every key that stayed in it, and no key
   that was never there. *)
SnapshotCovers == S!SnapshotCovers

(* VersionSearch: the reported block is one or two after the first one of the
   version. *)
NearFirst == V!NearFirst
=============================================================================
