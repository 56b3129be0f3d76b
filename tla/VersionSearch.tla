--------------------------- MODULE VersionSearch ---------------------------
(***************************************************************************)
(* find_first_occurrence of tools/get_runtime_version_block.py: a binary   *)
(* search for the block from which on the chain has a runtime version.     *)
(***************************************************************************)
EXTENDS Integers, Sequences

CONSTANTS MaxVersion, MaxBlock \* bounds: versions, and blocks of the chain

VersionSearchAssumption == {MaxVersion, MaxBlock} \subseteq Nat \ {0}

VARIABLE versions \* runtime version of every block; upgrades only raise it

TypeOK == \A b \in DOMAIN versions : versions[b] \in 1 .. MaxVersion

Init == versions \in {<<v>> : v \in 1 .. MaxVersion}

Produce ==
  /\ Len(versions) < MaxBlock
  /\ \E v \in versions[Len(versions)] .. MaxVersion : versions' = Append(versions, v)

Full == Len(versions) = MaxBlock /\ UNCHANGED versions

Next == Produce \/ Full

Spec == Init /\ [][Next]_versions

-----------------------------------------------------------------------------
(* Mutant: every block of the version moves the lower end. *)
find_last_occurrence(version) ==
  LET height == Len(versions)
      result[s \in [low : 1 .. height + 1, high : 0 .. height, found : 0 .. height]] ==
        LET mid == (s.low + s.high) \div 2 IN
        IF s.low >= s.high THEN s.found
        ELSE IF versions[mid] = version THEN result[[s EXCEPT !.low = mid + 1, !.found = mid]]
        ELSE IF versions[mid] < version THEN result[[s EXCEPT !.low = mid + 1]]
        ELSE result[[s EXCEPT !.high = mid - 1]]
  IN  result[[low |-> 1, high |-> height, found |-> 0]] + 1

(* The loop ends without a look at the block at which both ends meet, and one is
   added to what was found. *)
find_first_occurrence(version) ==
  LET height == Len(versions)
      result[s \in [low : 1 .. height + 1, high : 0 .. height, found : 0 .. height]] ==
        LET mid == (s.low + s.high) \div 2 IN
        IF s.low >= s.high THEN s.found
        ELSE IF versions[mid] = version THEN result[[s EXCEPT !.high = mid - 1, !.found = mid]]
        ELSE IF versions[mid] < version THEN result[[s EXCEPT !.low = mid + 1]]
        ELSE result[[s EXCEPT !.high = mid - 1]]
  IN  result[[low |-> 1, high |-> height, found |-> 0]] + 1

Of(version) == {b \in DOMAIN versions : versions[b] = version}

(* The block reported is the one after the first of the version, or the next; a
   version is missed, or absent, when block 1 is reported, and only a version of a
   single block is missed. *)
NearFirst ==
  \A v \in 1 .. MaxVersion :
    LET found == find_first_occurrence(v) IN
    IF found = 1 THEN \A a, b \in Of(v) : a = b
    ELSE \E first \in Of(v) : found - first \in {1, 2} /\ \A b \in Of(v) : first <= b
=============================================================================
