--------------------------- MODULE CoretimeLaunch ---------------------------
(***************************************************************************)
(* restart_parachain_launch (tools/restart.py) with setup_coretime         *)
(* (tools/coretime_utils.py): the local network is torn down and started   *)
(* again, and relay cores are given to its two parachains while its nodes  *)
(* come up, drop connections and answer in any order.  An operator may run *)
(* tools/setup_coretime.py afterwards.                                     *)
(***************************************************************************)
EXTENDS Integers, FiniteSets

CONSTANTS CoreMap,   \* PARACHAIN_CORE_MAP: cores of the parachains 1 and 2
          ToolCores, \* CORETIME_CORES, the tool's default
          NumCores,  \* cores of the relay chain
          MaxTries,  \* rounds of the loop: 150 / 5
          MaxLaunches\* bound: runs of restart and tool in a behaviour

Paras == {1, 2}
Free == 0
Core == 0 .. NumCores - 1

CoretimeLaunchAssumption ==
  /\ CoreMap \in [Paras -> Nat \ {0}]
  /\ {ToolCores, NumCores, MaxTries, MaxLaunches} \subseteq Nat

VARIABLES pc,      \* the step that runs
          owner,   \* the parachain each relay core serves
          tries,   \* rounds begun (count_down / 5)
          ids,     \* parachains whose id was read in this round
          missed,  \* some round of this launch has not read the first id
          setup,   \* arguments of the running setup_coretime
          reported,\* what the latest setup_coretime has returned, or NoReport
          runs     \* restarts and tool runs so far

vars == <<pc, owner, tries, ids, missed, setup, reported, runs>>

NoSetup == [para |-> 1, from |-> 0, cores |-> 0, tool |-> FALSE]
NoReport == [para |-> 1, cores |-> 0]

TypeOK ==
  /\ pc \in {"idle", "connect", "first", "second", "setup", "assign", "returned",
             "raised", "timeout"}
  /\ owner \in [Core -> Paras \cup {Free}]
  /\ tries \in 0 .. MaxTries
  /\ ids \subseteq Paras
  /\ missed \in BOOLEAN
  /\ setup \in [para : Paras, from : Nat, cores : Nat, tool : BOOLEAN]
  /\ reported \in [para : Paras, cores : Nat]
  /\ runs \in 0 .. MaxLaunches

Init ==
  /\ pc = "idle"
  /\ owner = [c \in Core |-> Free]
  /\ tries = 0
  /\ ids = {}
  /\ missed = FALSE
  /\ setup = NoSetup
  /\ reported = NoReport
  /\ runs = 0

CoresOf(p) == {c \in Core : owner[c] = p}

-----------------------------------------------------------------------------
Ended == pc \in {"idle", "returned", "raised", "timeout"}

(* docker compose down with its volumes, and up: a fresh relay chain. *)
Restart ==
  /\ Ended
  /\ runs < MaxLaunches
  /\ runs' = runs + 1
  /\ owner' = [c \in Core |-> Free]
  /\ tries' = 0
  /\ ids' = {}
  /\ missed' = FALSE
  /\ reported' = NoReport
  /\ pc' = "connect"
  /\ UNCHANGED setup

(* No project, or more than one, is found. *)
RestartRefused ==
  /\ Ended
  /\ runs < MaxLaunches
  /\ runs' = runs + 1
  /\ pc' = "raised"
  /\ UNCHANGED <<owner, tries, ids, missed, setup, reported>>

(* Mutant: one round more. *)
ConnectOnceMore ==
  /\ pc = "connect"
  /\ ids' = {}
  /\ pc' = "first"
  /\ UNCHANGED <<owner, tries, missed, setup, reported, runs>>

(* A round of the loop, while count_down allows one. *)
Connect ==
  /\ pc = "connect"
  /\ tries < MaxTries
  /\ ids' = {}
  /\ pc' = "first"
  /\ UNCHANGED <<owner, tries, missed, setup, reported, runs>>

OutOfTries ==
  /\ pc = "connect"
  /\ tries = MaxTries
  /\ pc' = "timeout"
  /\ UNCHANGED <<owner, tries, ids, missed, setup, reported, runs>>

(* The connection to the first parachain, to the relay chain, or of a running
   batch is reset: the next round begins. *)
ConnectionReset ==
  /\ \/ pc = "connect" /\ tries < MaxTries
     \/ pc \in {"setup", "assign"} /\ ~setup.tool
  /\ tries' = tries + 1
  /\ pc' = "connect"
  /\ UNCHANGED <<owner, ids, missed, setup, reported, runs>>

(* Any other exception ends the restart, or the tool. *)
OtherError ==
  /\ \/ pc = "connect" /\ tries < MaxTries
     \/ pc \in {"setup", "assign"}
  /\ pc' = "raised"
  /\ UNCHANGED <<owner, tries, ids, missed, setup, reported, runs>>

(* get_parachain_id of the first parachain, which answers None on any error. *)
ReadFirstId ==
  /\ pc = "first"
  /\ ids' = {1}
  /\ setup' = [para |-> 1, from |-> 0, cores |-> CoreMap[1], tool |-> FALSE]
  /\ reported' = NoReport
  /\ pc' = "setup"
  /\ UNCHANGED <<owner, tries, missed, runs>>

MissFirstId ==
  /\ pc = "first"
  /\ missed' = TRUE
  /\ pc' = "second"
  /\ UNCHANGED <<owner, tries, ids, setup, reported, runs>>

(* Mutant: the second parachain starts at core 0 as well. *)
ReadSecondIdOverlapping ==
  /\ pc = "second"
  /\ ids' = ids \cup {2}
  /\ setup' = [para |-> 2, from |-> 0, cores |-> CoreMap[2], tool |-> FALSE]
  /\ reported' = NoReport
  /\ pc' = "setup"
  /\ UNCHANGED <<owner, tries, missed, runs>>

(* The second parachain starts behind the cores the first one should have. *)
ReadSecondId ==
  /\ pc = "second"
  /\ ids' = ids \cup {2}
  /\ setup' = [para |-> 2, from |-> IF 1 \in ids THEN CoreMap[1] ELSE 0,
               cores |-> CoreMap[2], tool |-> FALSE]
  /\ reported' = NoReport
  /\ pc' = "setup"
  /\ UNCHANGED <<owner, tries, missed, runs>>

MissSecondId ==
  /\ pc = "second"
  /\ pc' = IF ids = {} THEN "raised" ELSE "returned"
  /\ UNCHANGED <<owner, tries, ids, missed, setup, reported, runs>>

-----------------------------------------------------------------------------
Continue == pc' = IF setup.para = 1 /\ ~setup.tool THEN "second" ELSE "returned"

(* Mutant: any core that serves somebody counts. *)
ExistingOfAnyone == {c \in Core : owner[c] # Free}

(* _cores_assigned_to *)
Existing == CoresOf(setup.para)

AlreadySetUp ==
  /\ pc = "setup"
  /\ Existing # {}
  /\ IF setup.tool
       THEN pc' = "raised" /\ UNCHANGED reported
       ELSE Continue /\ reported' = [para |-> setup.para, cores |-> Cardinality(Existing)]
  /\ UNCHANGED <<owner, tries, ids, missed, setup, runs>>

NotSetUp ==
  /\ pc = "setup"
  /\ Existing = {}
  /\ pc' = "assign"
  /\ UNCHANGED <<owner, tries, ids, missed, setup, reported, runs>>

(* A storage that cannot be read counts as no core. *)
StorageUnread ==
  /\ pc = "setup"
  /\ Existing # {}
  /\ pc' = "assign"
  /\ UNCHANGED <<owner, tries, ids, missed, setup, reported, runs>>

-----------------------------------------------------------------------------
Wanted == setup.from .. setup.from + setup.cores - 1

Executed == owner' = [c \in Core |-> IF c \in Wanted THEN setup.para ELSE owner[c]]

(* The relay chain executes the calls of the sudo batch all or none; a core that
   serves somebody is taken over or, while its last assignment waits, refused. *)
Executable == Wanted \subseteq Core

Refusable == \E c \in Wanted : c \notin Core \/ owner[c] # Free

Assign ==
  /\ pc = "assign"
  /\ Executable
  /\ Executed
  /\ reported' = [para |-> setup.para, cores |-> setup.cores]
  /\ Continue
  /\ UNCHANGED <<tries, ids, missed, setup, runs>>

(* The batch fails, and its receipt is taken for success all the same. *)
AssignRefused ==
  /\ pc = "assign"
  /\ Refusable
  /\ reported' = [para |-> setup.para, cores |-> setup.cores]
  /\ Continue
  /\ UNCHANGED <<owner, tries, ids, missed, setup, runs>>

(* The batch is executed, and the connection is reset before its receipt. *)
AssignThenReset ==
  /\ pc = "assign"
  /\ ~setup.tool
  /\ Executable
  /\ Executed
  /\ tries' = tries + 1
  /\ pc' = "connect"
  /\ UNCHANGED <<ids, missed, setup, reported, runs>>

(* tools/setup_coretime.py on one of the parachains, from a core of the
   operator's choice. *)
RunTool ==
  /\ Ended
  /\ runs \in 1 .. MaxLaunches - 1
  /\ runs' = runs + 1
  /\ \E p \in Paras, from \in {0, CoreMap[1]} :
       setup' = [para |-> p, from |-> from, cores |-> ToolCores, tool |-> TRUE]
  /\ reported' = NoReport
  /\ pc' = "setup"
  /\ UNCHANGED <<owner, tries, ids, missed>>

Finished == Ended /\ UNCHANGED vars

Next ==
  \/ Restart \/ RestartRefused \/ Connect \/ OutOfTries \/ ConnectionReset \/ OtherError
  \/ ReadFirstId \/ MissFirstId \/ ReadSecondId \/ MissSecondId
  \/ AlreadySetUp \/ NotSetUp \/ StorageUnread
  \/ Assign \/ AssignRefused \/ AssignThenReset \/ RunTool \/ Finished

Spec == Init /\ [][Next]_vars

-----------------------------------------------------------------------------
(* Unless a round has missed the first parachain's id, a restart that returns has
   given every parachain whose id it read exactly its mapped cores, however often
   connections broke on the way. *)
ServedAfterRestart ==
  pc = "returned" /\ ~setup.tool /\ ~missed =>
    \A p \in ids : Cardinality(CoresOf(p)) = CoreMap[p]

(* While no round misses the first parachain's id, setting one parachain up takes
   no core from the other: not after a reset between the two, nor when a batch was
   executed and its receipt lost, nor when the storage cannot be read. *)
NoTakeover ==
  [][~missed /\ ~setup.tool /\ pc = "assign" =>
       \A p \in Paras \ {setup.para} : CoresOf(p) \subseteq CoresOf(p)']_vars

(* "Returns the number of cores assigned (or already serving the parachain)." *)
ReportedCoresServe ==
  Cardinality(CoresOf(reported.para)) >= reported.cores
=============================================================================
