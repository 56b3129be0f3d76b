--------------------------- MODULE RuntimeUpgrade ---------------------------
(***************************************************************************)
(* do_runtime_upgrade_only of tools/runtime_upgrade.py: the new code is    *)
(* handed to the parachain, the script waits for the relay block at which  *)
(* the relay chain lets it upgrade, then for some parachain blocks, and    *)
(* compares the spec versions.  The two chains advance on their own.       *)
(***************************************************************************)
EXTENDS Integers

CONSTANTS Settle,       \* wait_for_n_blocks(15)
          UpgradeDelay, \* relay blocks between announcement and go-ahead
          AnnounceLag,  \* relay blocks until the upgrade is announced
          FinalityLag,  \* relay blocks until the batch's receipt is returned
          Pace,         \* most parachain blocks per relay block (elastic scaling)
          ParentLag,    \* how far behind a parachain block's relay parent is
          OtherUpgrades,\* heights at which other parachains upgrade
          MaxRelay      \* bound: relay blocks in a behaviour

ASSUME RuntimeUpgradeAssumption ==
  /\ {Settle, UpgradeDelay, AnnounceLag, FinalityLag, Pace,
      ParentLag, MaxRelay} \subseteq Nat
  /\ OtherUpgrades \subseteq Nat

VARIABLES relay,     \* height of the relay chain
          para,      \* height of the parachain
          burst,     \* parachain blocks on the current relay block
          code,      \* the new code: "none", "pending", "applied", "aborted"
          enacted,   \* relay height at which the parachain enacted it
          announced, \* relay height of our UpcomingUpgrades entry, or None
          pc,        \* the step the script is at
          goal,      \* the height the script waits for
          outcome    \* "running", "upgraded" or what was raised

vars == <<relay, para, burst, code, enacted, announced, pc, goal, outcome>>
chains == <<relay, para, burst, code, enacted, announced>>

None == -1

TypeOK ==
  /\ relay \in Nat
  /\ para \in Nat
  /\ burst \in 0 .. Pace
  /\ code \in {"none", "pending", "applied", "aborted"}
  /\ enacted \in Nat
  /\ announced \in Nat \cup {None}
  /\ pc \in {"execute", "receipt", "query", "relay_wait", "settle", "compare", "stopped"}
  /\ goal \in Int
  /\ outcome \in {"running", "upgraded", "cannot_upgrade", "upgrade_fails"}

Init ==
  /\ relay = 0
  /\ para = 0
  /\ burst = 0
  /\ code = "none"
  /\ enacted = 0
  /\ announced = None
  /\ pc = "execute"
  /\ goal = 0
  /\ outcome = "running"

-----------------------------------------------------------------------------
(* The chains.  An accepted code is announced within AnnounceLag relay blocks,
   unless the relay chain's checks abort it. *)
Due == code = "pending" /\ announced = None

RelayBlock ==
  /\ relay < MaxRelay
  /\ Due => relay < enacted + AnnounceLag
  /\ relay' = relay + 1
  /\ burst' = 0
  /\ UNCHANGED <<para, code, enacted, announced>>

Announce ==
  /\ Due
  /\ announced' = relay + UpgradeDelay
  /\ UNCHANGED <<relay, para, burst, code, enacted>>

Abort ==
  /\ Due
  /\ code' = "aborted"
  /\ UNCHANGED <<relay, para, burst, enacted, announced>>

(* The first parachain block whose relay parent has reached the announced height
   runs the new code. *)
ParaBlock ==
  /\ burst < Pace
  /\ para' = para + 1
  /\ burst' = burst + 1
  /\ \E parent \in relay - ParentLag .. relay :
       IF code = "pending" /\ announced # None /\ parent >= announced
         THEN code' = "applied" /\ announced' = None
         ELSE UNCHANGED <<code, announced>>
  /\ UNCHANGED <<relay, enacted>>

-----------------------------------------------------------------------------
Raise(how) == outcome' = how /\ pc' = "stopped"

(* authorize_upgrade and enact_authorized_upgrade, in one batch. *)
Execute ==
  /\ pc = "execute"
  /\ code' = "pending"
  /\ enacted' = relay
  /\ pc' = "receipt"
  /\ UNCHANGED <<relay, para, burst, announced, goal, outcome>>

(* batch.execute returns once its block is finalized, or after a backtrace. *)
ReceiptReturned ==
  /\ pc = "receipt"
  /\ relay >= enacted + FinalityLag
  /\ pc' = "query"
  /\ UNCHANGED <<chains, goal, outcome>>

ExecuteFails ==
  /\ pc = "execute"
  /\ Raise("cannot_upgrade")
  /\ UNCHANGED <<chains, goal>>

(* UpcomingUpgrades is ordered by height; the script takes the first entry as its
   own, and waits for the block after it.  The relay chain drops an entry in the
   block that has its height, when it lets the parachain upgrade. *)
Upcoming == {h \in {announced} \cup OtherUpgrades : h > relay}

(* Mutant: the script does not wait for the relay chain. *)
QueryWithoutWait ==
  /\ pc = "query"
  /\ Upcoming # {}
  /\ goal' = para + Settle
  /\ pc' = "settle"
  /\ UNCHANGED <<chains, outcome>>

Query ==
  /\ pc = "query"
  /\ \E first \in Upcoming :
       /\ \A h \in Upcoming : first <= h
       /\ goal' = first + 1
  /\ pc' = "relay_wait"
  /\ UNCHANGED <<chains, outcome>>

NoUpgradeScheduled ==
  /\ pc = "query"
  /\ Upcoming = {}
  /\ goal' = para + Settle
  /\ pc' = "settle"
  /\ UNCHANGED <<chains, outcome>>

RelayReached ==
  /\ pc = "relay_wait"
  /\ relay >= goal
  /\ goal' = para + Settle
  /\ pc' = "settle"
  /\ UNCHANGED <<chains, outcome>>

Settled ==
  /\ pc = "settle"
  /\ para >= goal
  /\ IF code = "applied" THEN outcome' = "upgraded" /\ pc' = "stopped"
                         ELSE Raise("upgrade_fails")
  /\ UNCHANGED <<chains, goal>>

(* The script has ended, or the behaviour has reached its bound. *)
Stopped == (pc = "stopped" \/ relay = MaxRelay) /\ UNCHANGED vars

-----------------------------------------------------------------------------
Script ==
  \/ Execute \/ ExecuteFails \/ ReceiptReturned \/ Query \/ NoUpgradeScheduled
  \/ RelayReached \/ Settled

Chains == (RelayBlock \/ Announce \/ Abort \/ ParaBlock) /\ UNCHANGED <<pc, goal, outcome>>

Next == Script \/ Chains \/ Stopped

Spec == Init /\ [][Next]_vars

-----------------------------------------------------------------------------
(* "Runtime ugprade fails" is raised only for an upgrade the relay chain has
   rejected, never for one that is still on its way. *)
FailureIsReal == outcome = "upgrade_fails" => code = "aborted"
=============================================================================
