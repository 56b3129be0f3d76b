----------------------------- MODULE AssetSetup -----------------------------
(***************************************************************************)
(* The set-up of assets on one chain, by tests with tools/asset.py and by  *)
(* tools/uniswap_test_setup.py, at the same time.  All of them look first  *)
(* and write in a later batch.  The chain is external: a batch is executed *)
(* as a whole or fails as a whole, an id is taken once, and a location is  *)
(* priced only when it is registered.                                      *)
(***************************************************************************)
EXTENDS Integers, Sequences, FiniteSetsExt, Functions

CONSTANTS Callers,     \* tests
          Fixed,       \* ids the tests share, below 16: relay token, ACA
          First, Last, \* ids get_valid_asset_id goes through: 30 .. 129
          NoId,        \* what it returns when all are taken
          Tokens       \* assets of the Uniswap set-up, in order

AssetSetupAssumption ==
  /\ Fixed \subseteq Nat /\ {First, Last} \subseteq Nat
  /\ Fixed \cap First .. Last = {}
  /\ NoId \notin Nat
  /\ Tokens \in Nat \ {0, 1}

VARIABLES assets,   \* existing assets: owner, and whether they have metadata
          located, priced, \* assets with a location, and with units per second
          pc, id,   \* step and asset of every caller
          step, got, made, \* step, id at hand and assets of the Uniswap set-up
          minted, approved \* how many of them the signer has, and has approved

chain == <<assets, located, priced>>
script == <<step, got, made, minted, approved>>
vars == <<chain, pc, id, script>>

Ids == Fixed \cup First .. Last
Owners == Callers \cup {"sudo", "owner"}

TypeOK ==
  /\ DOMAIN assets \subseteq Ids
  /\ assets \in [DOMAIN assets -> [owner : Owners, metadata : BOOLEAN]]
  /\ priced \subseteq located /\ located \subseteq Ids
  /\ minted \in 0 .. Tokens /\ approved \in 0 .. Tokens
  /\ pc \in [Callers -> {"idle", "asset", "create", "location", "register", "ready",
                         "pick", "own", "owned", "failed"}]
  /\ id \in [Callers -> Ids \cup {NoId}]
  /\ step \in {"fund", "pick", "force", "mint", "approve", "end", "raised"}
  /\ got \in Ids \cup {NoId}
  /\ made \in Seq(Ids)

Init ==
  /\ assets = [a \in {} |-> 0] /\ located = {} /\ priced = {} /\ minted = 0 /\ approved = 0
  /\ pc = [c \in Callers |-> "idle"] /\ id = [c \in Callers |-> NoId]
  /\ step = "fund" /\ got = NoId /\ made = <<>>

-----------------------------------------------------------------------------
(* Assets.create and Assets.force_create, of an id no asset has. *)
Creates(a, owner, metadata) ==
  /\ a \in Ids \ DOMAIN assets
  /\ assets' = [x \in DOMAIN assets \cup {a} |->
                  IF x = a THEN [owner |-> owner, metadata |-> metadata] ELSE assets[x]]

At(c, from) == pc[c] = from
Goto(c, to) == pc' = [pc EXCEPT ![c] = to]

(* A failed batch; the caller asserts that it did not fail. *)
Fails(c) == Goto(c, "failed") /\ UNCHANGED <<assets, located, priced>>

Elsewhere == UNCHANGED <<id, script>>

Start(c) ==
  /\ At(c, "idle")
  /\ \/ \E a \in Fixed : id' = [id EXCEPT ![c] = a] /\ Goto(c, "asset")
     \/ Goto(c, "pick") /\ UNCHANGED id
  /\ UNCHANGED <<chain, script>>

(* setup_asset_if_not_exist: AlwaysTrueReceipt for an asset that is there. *)
FindAsset(c) ==
  /\ At(c, "asset")
  /\ Goto(c, IF id[c] \in DOMAIN assets THEN "location" ELSE "create")
  /\ UNCHANGED <<assets, located, priced>> /\ Elsewhere

CreateAsset(c) ==
  /\ At(c, "create")
  /\ \/ Creates(id[c], "sudo", TRUE) /\ Goto(c, "location") /\ UNCHANGED <<located, priced>>
     \/ Fails(c)
  /\ Elsewhere

(* setup_xc_register_if_not_exist *)
FindLocation(c) ==
  /\ At(c, "location")
  /\ Goto(c, IF id[c] \in located THEN "ready" ELSE "register")
  /\ UNCHANGED <<assets, located, priced>> /\ Elsewhere

(* Mutant: the location is registered in a batch, the price set in the next. *)
RegisterTwice(c) ==
  /\ At(c, "register")
  /\ \/ /\ id[c] \notin located /\ located' = located \cup {id[c]}
        /\ UNCHANGED <<assets, priced, pc>>
     \/ /\ id[c] \in located \ priced /\ priced' = priced \cup {id[c]}
        /\ Goto(c, "ready")
        /\ UNCHANGED <<assets, located>>
     \/ Fails(c)
  /\ Elsewhere

Register(c) ==
  /\ At(c, "register")
  /\ \/ /\ id[c] \notin located
        /\ located' = located \cup {id[c]} /\ priced' = priced \cup {id[c]}
        /\ Goto(c, "ready")
        /\ UNCHANGED assets
     \/ Fails(c)
  /\ Elsewhere

(* get_valid_asset_id: no asset goes away, so its queries are one look at the
   last of them. *)
get_valid_asset_id ==
  IF First .. Last \subseteq DOMAIN assets THEN NoId
  ELSE Min(First .. Last \ DOMAIN assets)

Pick(c) ==
  /\ At(c, "pick")
  /\ id' = [id EXCEPT ![c] = get_valid_asset_id]
  /\ Goto(c, IF get_valid_asset_id = NoId THEN "failed" ELSE "own")
  /\ UNCHANGED <<chain, script>>

CreateOwn(c) ==
  /\ At(c, "own")
  /\ \/ Creates(id[c], c, TRUE) /\ Goto(c, "owned") /\ UNCHANGED <<located, priced>>
     \/ Fails(c)
  /\ Elsewhere

(* The next test. *)
Again(c) ==
  /\ pc[c] \in {"ready", "owned", "failed"}
  /\ Goto(c, "idle") /\ id' = [id EXCEPT ![c] = NoId]
  /\ UNCHANGED <<chain, script>>

-----------------------------------------------------------------------------
(* uniswap_test_setup.py *)
Script == UNCHANGED <<located, priced, pc, id>>

FundUsers ==
  /\ step = "fund" /\ step' = "pick"
  /\ UNCHANGED <<assets, minted, approved, got, made>> /\ Script

PickToken ==
  /\ step = "pick"
  /\ got' = get_valid_asset_id
  /\ step' = IF got' = NoId THEN "raised" ELSE "force"
  /\ UNCHANGED <<assets, minted, approved, made>> /\ Script

(* Mutant: the receipt is not looked at. *)
ForceCreateUnchecked ==
  /\ step = "force"
  /\ Creates(got, "owner", FALSE) \/ UNCHANGED assets
  /\ made' = Append(made, got)
  /\ step' = IF Len(made') < Tokens THEN "pick" ELSE "mint"
  /\ UNCHANGED <<minted, approved, got>> /\ Script

(* force_create_asset *)
ForceCreate ==
  /\ step = "force"
  /\ \/ /\ Creates(got, "owner", FALSE)
        /\ made' = Append(made, got)
        /\ step' = IF Len(made') < Tokens THEN "pick" ELSE "mint"
     \/ UNCHANGED <<assets, made>> /\ step' = "raised"
  /\ UNCHANGED <<minted, approved, got>> /\ Script

(* mint_asset: only the owner of an asset may mint it. *)
MintAsset ==
  /\ step = "mint"
  /\ \/ /\ made[minted + 1] \in DOMAIN assets /\ assets[made[minted + 1]].owner = "owner"
        /\ minted' = minted + 1
        /\ step' = IF minted' = Tokens THEN "approve" ELSE "mint"
     \/ UNCHANGED minted /\ step' = "raised"
  /\ UNCHANGED <<assets, approved, got, made>> /\ Script

(* approval_asset, of all assets but the last. *)
ApprovalAsset ==
  /\ step = "approve"
  /\ \/ /\ approved' = approved + 1
        /\ step' = IF approved' < Tokens - 1 THEN "approve" ELSE "end"
     \/ UNCHANGED approved /\ step' = "raised"
  /\ UNCHANGED <<assets, minted, got, made>> /\ Script

Caller(c) ==
  \/ Start(c)
  \/ FindAsset(c) \/ CreateAsset(c) \/ FindLocation(c) \/ Register(c)
  \/ Pick(c) \/ CreateOwn(c)
  \/ Again(c)

Next ==
  \/ \E c \in Callers : Caller(c)
  \/ FundUsers \/ PickToken \/ ForceCreate \/ MintAsset \/ ApprovalAsset

Spec == Init /\ [][Next]_vars

-----------------------------------------------------------------------------
(* Whoever saw nothing but success has what it asked for, whatever the others did
   between its look and its batch: an asset with metadata and a location with a
   price; an asset of its own; and for the pools as many different assets as
   named, all the owner's. *)
SetUpReady ==
  /\ \A c \in Callers :
       /\ pc[c] = "ready" =>
            id[c] \in DOMAIN assets /\ assets[id[c]].metadata /\ id[c] \in priced
       /\ pc[c] = "owned" => assets[id[c]].owner = c
  /\ step = "end" =>
       /\ IsInjective(made) /\ Len(made) = Tokens
       /\ \A k \in DOMAIN made : assets[made[k]].owner = "owner"
=============================================================================
