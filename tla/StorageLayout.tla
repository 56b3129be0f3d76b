--------------------------- MODULE StorageLayout ---------------------------
(***************************************************************************)
(* ETH/storagetest/contract.sol and the suite tests/evm_sc/storage.py runs *)
(* on it before and after a runtime upgrade.  Storage is laid out as the   *)
(* compiler does (ETH/storagetest/bytecode): slot1Address and slot2Bool    *)
(* share a slot, so every later variable is one slot below the number the  *)
(* contract's comments and assembly use.  Words have two halves of two hex *)
(* digits each, and a hash of a slot or key is a place of its own.         *)
(***************************************************************************)
EXTENDS Integers, Sequences, Functions

CONSTANTS Half, \* values of half a word (2 ** 128)
          Runs  \* bound: runs of the suite; before and after is 2

StorageLayoutAssumption == Half = 256 /\ Runs \in Nat \ {0}

Word == Half * Half
Slot(n) == <<"slot", 0, n>>
Element(base, i) == <<"array", base, i>>
Entry(base, key) == <<"map", base, key>>
Keys == 1 .. 3
Places ==
  {Slot(n) : n \in 0 .. 9} \cup {Element(b, i) : b \in {4, 5}, i \in {0, 1}}
    \cup {Entry(b, k) : b \in {5, 6}, k \in Keys}

VARIABLES storage, \* the contract's storage, place by place
          reports  \* what the tests made so far have returned

vars == <<storage, reports>>

TypeOK ==
  /\ storage \in [Places -> 0 .. Word - 1]
  /\ Len(reports) <= 6 * Runs

(* The constructor *)
Digits(d) == d * \h1111
Pack(lower, upper) == upper * Half + lower
String == \h5334

Constructed ==
  [p \in Places |->
     CASE p = Slot(0) -> Digits(1)
       [] p = Slot(1) -> Pack(\h22, 1)
       [] p = Slot(2) -> Digits(3)
       [] p = Slot(3) -> Pack(\h44, \h55)
       [] p = Slot(4) -> 2
       [] p = Element(4, 0) -> Digits(6)
       [] p = Element(4, 1) -> Digits(7)
       [] p = Entry(5, 1) -> Digits(9)
       [] p = Slot(6) -> String
       [] p = Slot(7) -> \h0AAA
       [] p = Slot(8) -> Pack(\hBB, 1)
       [] OTHER -> 0]

Init ==
  /\ storage = Constructed
  /\ reports = <<>>

-----------------------------------------------------------------------------
(* The contract's functions, on a storage s *)
writeStorageSlot(s, slot, value) == [s EXCEPT ![Slot(slot)] = value]
readPackedValues(s) == <<s[Slot(4)] % Half, s[Slot(4)] \div Half>>
writePackedValues(s, lower, upper) == writeStorageSlot(s, 4, Pack(lower, upper))
readArrayElement(s, i) == s[Element(5, i)]
readMappingValue(s, key) == s[Entry(6, key)]

writeMappingValue(s, key, value) == [s EXCEPT ![Entry(6, key)] = value]
addressToValue(s, key) == s[Entry(5, key)]
readStorageRange(s, count) == [i \in 1 .. count |-> s[Slot(i - 1)]]

(* The words of the snapshot are written one word too far. *)
getStorageSnapshot(s) == <<0>> \o readStorageRange(s, 9)

(* The bits in which two words differ. *)
Bit(n, k) == (n \div 2 ^ k) % 2
xor(m, n) ==
  SumFunction([k \in 0 .. 15 |-> IF Bit(m, k) = Bit(n, k) THEN 0 ELSE 2 ^ k])

complexStorageTest(s, iterations) ==
  LET after[i \in 0 .. iterations] ==
        IF i = 0 THEN s
        ELSE LET t == after[i - 1] IN
             writeStorageSlot(writeStorageSlot(t, 0, t[Slot(0)] + 1),
                              1, xor(t[Slot(1)], t[Slot(0)]))
  IN after[iterations]

verifyStorageIntegrity(s) ==
  /\ s[Slot(1)] = s[Slot(1)] % Half
  /\ s[Slot(2)] = IF s[Slot(1)] \div Half = 0 THEN 0 ELSE 1
  /\ s[Slot(3)] = s[Slot(2)]
  /\ s[Slot(4)] = s[Slot(3)]
  /\ s[Slot(5)] = s[Slot(4)]

getStorageState(s) ==
  <<getStorageSnapshot(s), s[Slot(4)], addressToValue(s, 1), s[Slot(6)]>>

-----------------------------------------------------------------------------
(* migration_same_behavior: the tests of the suite, one after the other.  The
   upgrade between two runs keeps the storage. *)
Due(test) == Len(reports) < 6 * Runs /\ Len(reports) % 6 = test - 1
Report(result) == reports' = Append(reports, result)


(* "Restore original value": that of the constructor. *)
basic_storage_tests ==
  LET written == writeStorageSlot(storage, 0, \hFE89) IN
  /\ Due(1)
  /\ Report(<<getStorageSnapshot(storage), readStorageRange(storage, 10), written[Slot(0)]>>)
  /\ storage' = writeStorageSlot(written, 0, Digits(1))

assembly_storage_tests ==
  LET written == writePackedValues(storage, \h11, \h22) IN
  /\ Due(2)
  /\ Report(<<readStorageRange(storage, 5), readPackedValues(storage), readPackedValues(written)>>)
  /\ storage' = writePackedValues(written, \h44, \h55)

complex_storage_tests ==
  /\ Due(3)
  /\ Report(<<readArrayElement(storage, 0), readArrayElement(storage, 1),
              readMappingValue(storage, 1)>>)
  /\ storage' = complexStorageTest(storage, 3)

mapping_storage_tests ==
  LET written[k \in {0} \cup Keys] ==
        IF k = 0 THEN storage ELSE writeMappingValue(written[k - 1], k, \h10 * k) IN
  /\ Due(4)
  /\ Report([k \in Keys |-> <<readMappingValue(written[k], k), addressToValue(written[k], k)>>])
  /\ storage' = written[3]

packed_storage_tests ==
  LET initial == readPackedValues(storage)
      cases == <<<<\h78, \h21>>, <<\hFF, 0>>, <<0, \hFF>>, <<\h0A, \h55>>>>
      written[i \in 0 .. 4] ==
        IF i = 0 THEN storage
        ELSE writePackedValues(written[i - 1], cases[i][1], cases[i][2]) IN
  /\ Due(5)
  /\ Report(<<initial, [i \in 1 .. 4 |-> readPackedValues(written[i])]>>)
  /\ storage' = writePackedValues(written[4], initial[1], initial[2])

(* At most five elements are read, through the array's own getter. *)
integrity_tests ==
  LET length == storage[Slot(4)] IN
  /\ Due(6)
  /\ Report(<<verifyStorageIntegrity(storage), getStorageState(storage),
              IF length > 5 THEN 5 ELSE length,
              [i \in {j \in {0, 1} : j < length} |-> storage[Element(4, i)]]>>)
  /\ UNCHANGED storage

Finished == Len(reports) = 6 * Runs /\ UNCHANGED vars

Next ==
  \/ basic_storage_tests \/ assembly_storage_tests \/ complex_storage_tests
  \/ mapping_storage_tests \/ packed_storage_tests \/ integrity_tests
  \/ Finished

Spec == Init /\ [][Next]_vars

-----------------------------------------------------------------------------
(* "Note: we'll make sure the behavior before and after migration should be the
   same": a run reports what the run before it has reported. *)
SameBehavior == \A i \in 7 .. Len(reports) : reports[i] = reports[i - 6]

=============================================================================
