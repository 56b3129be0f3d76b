---------------------------- MODULE SnapshotRead ----------------------------
(***************************************************************************)
(* tools/snapshot_info.py: every storage entry of the metadata is read, a  *)
(* map in pages that begin after the last key of the page before.  Every   *)
(* request is answered from the head of the moment, and the chain goes on  *)
(* between two of them.                                                    *)
(***************************************************************************)
EXTENDS Integers, FiniteSetsExt

CONSTANTS Kinds,    \* the entries: "ignored", "value" or "map"
          Keys,     \* keys of the maps, in the order of the storage trie
          PageSize, \* batch_size
          MaxMoves  \* bound: changes of the storage

SnapshotReadAssumption ==
  /\ DOMAIN Kinds = 1 .. Cardinality(DOMAIN Kinds)
  /\ \A e \in DOMAIN Kinds : Kinds[e] \in {"ignored", "value", "map"}
  /\ Keys \subseteq Nat \ {0} /\ IsFiniteSet(Keys)
  /\ PageSize \in Nat \ {0}
  /\ MaxMoves \in Nat

VARIABLES content,   \* keys of every map; a value is a map of one key
          always,    \* keys that have never left it, and
          ever,      \* those that have been there, since the tool began
          moves,
          entry,     \* the entry that is read
          start_key, \* 0 is None
          paging,    \* the entry is read as a map
          out        \* what was read

chain == <<content, always, ever, moves>>
vars == <<chain, entry, start_key, paging, out>>

Entries == DOMAIN Kinds

TypeOK ==
  /\ {content, always, ever, out} \subseteq [Entries -> SUBSET Keys]
  /\ moves \in 0 .. MaxMoves
  /\ entry \in 1 .. Cardinality(Entries) + 1
  /\ start_key \in {0} \cup Keys
  /\ paging \in BOOLEAN

Init ==
  /\ content \in [Entries -> SUBSET Keys]
  /\ \A e \in Entries : Kinds[e] # "map" => content[e] = {Min(Keys)}
  /\ always = content /\ ever = content
  /\ moves = 0
  /\ entry = 1 /\ start_key = 0 /\ paging = FALSE
  /\ out = [e \in Entries |-> {}]

(* A block adds a key, removes one, or replaces a value. *)
Move ==
  /\ moves < MaxMoves
  /\ \E e \in Entries, k \in Keys :
       content' = [content EXCEPT ![e] =
         IF Kinds[e] # "map" THEN {k} ELSE IF k \in @ THEN @ \ {k} ELSE @ \cup {k}]
  /\ always' = [e \in Entries |-> always[e] \cap content'[e]]
  /\ ever' = [e \in Entries |-> ever[e] \cup content'[e]]
  /\ moves' = moves + 1
  /\ UNCHANGED <<entry, start_key, paging, out>>

-----------------------------------------------------------------------------
(* get_all_storage: the next entry. *)
Turn == entry' = entry + 1 /\ start_key' = 0 /\ paging' = FALSE

(* is_storage_ignore *)
Ignore ==
  /\ entry \in Entries /\ Kinds[entry] = "ignored"
  /\ Turn
  /\ UNCHANGED <<chain, out>>

(* query_storage: a query without parameters. *)
QueryValue ==
  /\ entry \in Entries /\ Kinds[entry] = "value"
  /\ out' = [out EXCEPT ![entry] = content[entry]]
  /\ Turn
  /\ UNCHANGED chain

(* A map answers it with a ValueError. *)
QueryRefused ==
  /\ entry \in Entries /\ Kinds[entry] = "map" /\ ~paging
  /\ paging' = TRUE
  /\ UNCHANGED <<chain, entry, start_key, out>>

Page ==
  LET after == {k \in content[entry] : k > start_key} IN
  {k \in after : Cardinality({j \in after : j < k}) < PageSize}

(* Mutant: a full page is taken to be the last one. *)
LastPageEarly == Cardinality(Page) <= PageSize

(* len(result.records) < batch_size *)
LastPage == Cardinality(Page) < PageSize

QueryPage ==
  /\ entry \in Entries /\ paging
  /\ out' = [out EXCEPT ![entry] = @ \cup Page]
  /\ IF LastPage THEN Turn
     ELSE start_key' = Max(Page) /\ UNCHANGED <<entry, paging>>
  /\ UNCHANGED chain

Written == entry \notin Entries /\ UNCHANGED vars

Next == Move \/ Ignore \/ QueryValue \/ QueryRefused \/ QueryPage \/ Written

Spec == Init /\ [][Next]_vars

-----------------------------------------------------------------------------
(* Although its pages come from different blocks, a map that was read has every
   key that stayed in it all the time, and no key that was never there. *)
SnapshotCovers ==
  \A e \in Entries :
    e < entry /\ Kinds[e] # "ignored" => always[e] \subseteq out[e] /\ out[e] \subseteq ever[e]
=============================================================================
