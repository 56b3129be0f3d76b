---------------------------- MODULE Watch_proofs ----------------------------
(***************************************************************************)
(* The tools that watch a chain, proved for all chains, events, keys and   *)
(* paces.  Each tool has an inductive invariant of its own; the last       *)
(* section carries the results over to the composition of MCWatch.         *)
(***************************************************************************)
EXTENDS MCWatch, ReorgChain_proofs, FiniteInduction

-----------------------------------------------------------------------------
(* EventWait *)

(* No event that is waited for is in the block. *)
Clean(b) == \A w \in Wanted : ~Holds(b, w)

(* The scan starts where the caller asked it to, and what it reports is there. *)
WaitInv ==
  /\ TypeOK
  /\ pc = "call" => prev <= 1 /\ out = "searching"
  /\ pc # "call" => prev <= now + 1 /\ (prev <= now \/ prev = 1)
  /\ pc = "previous" => prev <= next
  /\ pc # "stopped" => out # "found"
  /\ FoundIsReal

(* A block that lets the search go on has nothing that is waited for. *)
LEMMA VerdictSearching ==
  ASSUME NEW b, Verdict(b) = "searching" PROVE Clean(b)
<1>1. Deciding(b) = {}
  BY DEF Verdict
<1> QED
  BY <1>1 DEF Deciding, Clean, Holds

(* A block that ends it successfully has it. *)
LEMMA VerdictFound ==
  ASSUME NEW b, IsBlock(b), Verdict(b) = "found"
  PROVE  \E w \in Wanted : Holds(b, w)
<1>1. Deciding(b) # {} /\ b[FirstDeciding(b)] \in Wanted
  BY DEF Verdict
<1>2. Deciding(b) \in SUBSET Nat
  <2>1. PICK len \in 0 .. MaxBlockLen : b \in [1 .. len -> Tx \cup Others]
    BY DEF IsBlock
  <2>2. DOMAIN b = 1 .. len
    BY <2>1
  <2> QED
    BY <2>2 DEF Deciding
<1>3. FirstDeciding(b) \in Deciding(b)
  BY <1>1, <1>2, LeastNumber DEF FirstDeciding
<1> QED
  BY <1>1, <1>3 DEF Deciding, Holds

(* The empty block, which stands for the genesis, decides nothing. *)
LEMMA NothingInGenesis == IsBlock(<<>>) /\ Verdict(<<>>) = "searching"
<1>1. <<>> \in [1 .. 0 -> Tx \cup Others] /\ DOMAIN <<>> = {}
  OBVIOUS
<1>2. 0 \in 0 .. MaxBlockLen
  BY ReorgChainAssumption DEF ReorgChainAssumption
<1> QED
  BY <1>1, <1>2 DEF IsBlock, Verdict, Deciding

(* The blocks the call looks at are blocks. *)
LEMMA HeadIsBlock == ASSUME ChainTypeOK PROVE IsBlock(Head.block) /\ Head.num = height
<1>1. CASE height = 0
  BY <1>1, NothingInGenesis DEF Head
<1>2. CASE height # 0
  BY <1>2 DEF Head, ChainTypeOK
<1> QED
  BY <1>1, <1>2

(* WaitInv holds before the call. *)
LEMMA WaitInitial == Init => WaitInv
<1> SUFFICES ASSUME Init PROVE WaitInv
  OBVIOUS
<1>1. ChainTypeOK
  BY ChainInitTypeOK DEF Init
<1>2. cur.num = 0 /\ IsBlock(cur.block)
  BY NothingInGenesis DEF Init, NoHead
<1>3. TypeOK
  BY <1>1, <1>2, EventWaitAssumption DEF Init, ChainInit, TypeOK, EventWaitAssumption
<1> QED
  BY <1>3 DEF WaitInv, Init, FoundIsReal

(* A verdict on a block of the chain that is not before the one asked for. *)
LEMMA VerdictReal ==
  ASSUME ChainTypeOK, NEW n \in 0 .. height, NEW from \in Nat, from <= n \/ from = 1,
         Verdict(IF n = 0 THEN <<>> ELSE chain[n]) = "found"
  PROVE  \E m \in from .. height : m >= 1 /\ \E w \in Wanted : Holds(chain[m], w)
<1>1. n # 0
  BY NothingInGenesis
<1>2. n \in 1 .. height /\ IsBlock(chain[n]) /\ n \in from .. height
  BY <1>1 DEF ChainTypeOK
<1>3. \E w \in Wanted : Holds(chain[n], w)
  BY <1>1, <1>2, VerdictFound
<1> QED
  BY <1>2, <1>3

(* Every step of the call and of the chain keeps WaitInv. *)
LEMMA WaitStep == WaitInv /\ [Next]_vars => WaitInv'
<1> SUFFICES ASSUME WaitInv, [Next]_vars PROVE WaitInv'
  OBVIOUS
<1>0. TypeOK /\ ChainTypeOK /\ height \in Nat /\ now \in Nat /\ prev \in Nat /\ next \in Nat /\ HeadPace \in Nat
  BY EventWaitAssumption DEF WaitInv, TypeOK, ChainTypeOK, EventWaitAssumption
<1>1. ASSUME UNCHANGED chainVars PROVE ChainTypeOK' /\ height' = height /\ chain' = chain
  BY <1>0, <1>1 DEF ChainTypeOK, chainVars, IsBlock
<1>2. ASSUME NEW verdict, NEW then, Conclude(verdict, then), then \in {"previous", "future"},
             verdict \in {"searching", "found", "none", "KeyError"}
      PROVE  /\ out' = verdict /\ pc' \in {then, "stopped"}
             /\ pc' # "stopped" => out' # "found"
  BY <1>2 DEF Conclude
<1>3. ASSUME NEW b PROVE Verdict(b) \in {"searching", "found", "none", "KeyError"}
  BY DEF Verdict
<1>4. CASE Start
  <2>1. TypeOK'
    BY <1>0, <1>1, <1>4 DEF Start, TypeOK
  <2>2. prev' <= now' + 1 /\ (prev' <= now' \/ prev' = 1) /\ prev' <= next' /\ out' = "searching"
    BY <1>0, <1>4 DEF Start, WaitInv
  <2> QED
    BY <1>4, <2>1, <2>2 DEF Start, WaitInv, FoundIsReal
<1>5. CASE ScanPrevious
  <2> DEFINE b == IF next = 0 THEN <<>> ELSE chain[next]
  <2>1. /\ pc = "previous" /\ next <= now /\ next' = next + 1
        /\ Conclude(Verdict(b), pc)
        /\ UNCHANGED <<prev, now, cur, since>> /\ UNCHANGED chainVars
    BY <1>5 DEF ScanPrevious
  <2>2. /\ out' = Verdict(b) /\ pc' \in {"previous", "stopped"}
        /\ pc' # "stopped" => out' # "found"
    BY <1>2, <1>3, <2>1
  <2>3. TypeOK'
    BY <1>0, <1>1, <1>3, <2>1, <2>2 DEF TypeOK
  <2>4. next \in 0 .. height /\ prev <= next
    BY <1>0, <2>1 DEF WaitInv, TypeOK
  <2>5. FoundIsReal'
    <3>1. Verdict(b) = "found" => \E m \in prev .. height : m >= 1 /\ \E w \in Wanted : Holds(chain[m], w)
      BY <1>0, <2>4, VerdictReal
    <3> QED
      BY <1>1, <2>1, <2>2, <3>1 DEF FoundIsReal, Holds
  <2> QED
    BY <1>0, <2>1, <2>2, <2>3, <2>4, <2>5 DEF WaitInv
<1>6. CASE PreviousDone \/ Poll
  <2>1. /\ pc \in {"previous", "future"} /\ Conclude(Verdict(Head.block), "future")
        /\ cur' = Head /\ now' = height /\ since' = 0
        /\ UNCHANGED chainVars /\ UNCHANGED <<prev, next>>
    BY <1>6 DEF PreviousDone, Poll
  <2>2. /\ out' = Verdict(Head.block) /\ pc' \in {"future", "stopped"}
        /\ pc' # "stopped" => out' # "found"
    BY <1>2, <1>3, <2>1
  <2>3. cur'.num = height /\ IsBlock(cur'.block)
    BY <1>0, <2>1, HeadIsBlock
  <2>4. TypeOK'
    <3>1. (IsBlock(cur.block))'
      BY <2>3 DEF IsBlock
    <3> QED
      BY <1>0, <1>1, <1>3, <2>1, <2>2, <2>3, <3>1 DEF TypeOK
  <2>5. now <= height
    BY <1>0 DEF TypeOK
  <2>6. FoundIsReal'
    <3>1. prev <= height \/ prev = 1
      BY <1>0, <2>1, <2>5 DEF WaitInv
    <3>2. Head.block = IF height = 0 THEN <<>> ELSE chain[height]
      BY DEF Head
    <3>3. Verdict(Head.block) = "found" =>
            \E m \in prev .. height : m >= 1 /\ \E w \in Wanted : Holds(chain[m], w)
      BY <1>0, <3>1, <3>2, VerdictReal
    <3> QED
      BY <1>1, <2>1, <2>2, <3>3 DEF FoundIsReal, Holds
  <2> QED
    BY <1>0, <2>1, <2>2, <2>4, <2>5, <2>6 DEF WaitInv
<1>7. CASE Timeout
  <2>1. /\ pc = "future" /\ out' = "none" /\ pc' = "stopped"
        /\ UNCHANGED chainVars /\ UNCHANGED <<prev, now, next, cur, since>>
    BY <1>7 DEF Timeout, Conclude
  <2>2. TypeOK'
    BY <1>0, <1>1, <2>1 DEF TypeOK
  <2> QED
    BY <2>1, <2>2 DEF WaitInv, FoundIsReal
<1>8. ASSUME Advance, ChainTypeOK', UNCHANGED clientVars, since' \in 0 .. HeadPace PROVE WaitInv'
  <2>1. TypeOK'
    BY <1>0, <1>8 DEF TypeOK, clientVars, Advance, ChainTypeOK, IsBlock
  <2>2. FoundIsReal'
    <3> SUFFICES ASSUME out = "found", reorgs' = 0
                 PROVE  \E n \in prev .. height' : n >= 1 /\ \E w \in Wanted : Holds(chain'[n], w)
      BY <1>8 DEF FoundIsReal, clientVars, Holds
    <3>1. reorgs = 0
      BY <1>0, <1>8 DEF ChainTypeOK, Advance
    <3>2. PICK n \in prev .. height : n >= 1 /\ \E w \in Wanted : Holds(chain[n], w)
      BY <3>1 DEF WaitInv, FoundIsReal
    <3>3. n \in prev .. height' /\ chain'[n] = chain[n]
      BY <1>0, <1>8, <3>1, <3>2 DEF Advance, ChainTypeOK
    <3> QED
      BY <3>2, <3>3
  <2> QED
    BY <1>8, <2>1, <2>2 DEF WaitInv, clientVars
<1>9. CASE HeadChange
  <2>1. Produce \/ Reorg
    BY <1>9 DEF HeadChange
  <2>2. Advance /\ ChainTypeOK'
    BY <1>0, <2>1, ProduceAdvances, ReorgAdvances
  <2>3. UNCHANGED clientVars /\ since' \in 0 .. HeadPace
    BY <1>0, <1>9 DEF HeadChange, TypeOK
  <2> QED
    BY <1>8, <2>2, <2>3
<1>10. CASE Finalize /\ UNCHANGED <<clientVars, since>>
  BY <1>0, <1>8, <1>10, FinalizeAdvances DEF TypeOK
<1>11. CASE UNCHANGED vars
  <2>1. UNCHANGED clientVars /\ UNCHANGED since /\ UNCHANGED chainVars
    BY <1>11 DEF vars
  <2>2. TypeOK'
    BY <1>0, <1>1, <2>1 DEF TypeOK, clientVars, IsBlock
  <2>3. FoundIsReal'
    BY <2>1 DEF WaitInv, FoundIsReal, clientVars, chainVars, Holds
  <2> QED
    BY <2>1, <2>2, <2>3 DEF WaitInv, clientVars
<1> QED
  BY <1>4, <1>5, <1>6, <1>7, <1>9, <1>10, <1>11 DEF Next, Call, Env, Stopped

(* WaitInv is an invariant of the call. *)
LEMMA WaitInvariant == Spec => []WaitInv
BY WaitInitial, WaitStep, PTL DEF Spec

(* The head is read at least once per head change, and only the head is ever
   replaced. *)
ReadInTime == HeadPace <= 1 /\ MaxReorgDepth <= 1

(* What has been searched since the head was last read: all blocks but those that
   came, or changed, after it. *)
SearchedTo(last) ==
  \A n \in prev .. last : n >= 1 /\ (since = 0 \/ n < height) => Clean(chain[n])

SearchedInv ==
  /\ pc # "stopped" => out = "searching"
  /\ pc \in {"previous", "future"} =>
       /\ height \in {now, now + 1} /\ (since = 0 => height = now)
  /\ pc = "previous" => next <= now + 1 /\ SearchedTo(next - 1)
  /\ pc = "future" => SearchedTo(height)
  /\ pc = "future" \/ out = "none" =>
       /\ cur.num = now /\ Clean(cur.block)
       /\ \A n \in prev .. now - 1 : n >= 1 => Clean(chain[n])

(* A shallow reorg replaces the head only. *)
LEMMA ReorgOfHead ==
  ASSUME ChainTypeOK, Reorg, ReadInTime
  PROVE  height' = height /\ \A n \in 1 .. height - 1 : chain'[n] = chain[n]
<1> DEFINE Switched(fork, suffix) ==
             [n \in 1 .. height |-> IF n <= fork THEN chain[n] ELSE suffix[n]]
<1> DEFINE Fresh(fork) == BlocksOver(pool \cup Others \cup Own(chain, fork + 1, height))
<1>1. PICK fork \in finalized .. height - 1 :
        /\ height - fork <= MaxReorgDepth
        /\ \E suffix \in [fork + 1 .. height -> Fresh(fork)] :
             Adopt(Switched(fork, suffix), height, fork + 1)
  BY DEF Reorg
<1> HIDE DEF Fresh
<1>2. PICK suffix \in [fork + 1 .. height -> Fresh(fork)] :
        Adopt(Switched(fork, suffix), height, fork + 1)
  BY <1>1
<1>3. height' = height /\ chain' = Switched(fork, suffix)
  BY <1>2, AdoptPool DEF ChainTypeOK
<1>4. fork \in Int /\ fork >= height - 1
  BY <1>1, ReorgChainAssumption DEF ReadInTime, ChainTypeOK, ReorgChainAssumption
<1> QED
  BY <1>3, <1>4 DEF ChainTypeOK

(* Every step keeps SearchedInv, when the head is read in time. *)
LEMMA SearchedStep ==
  ReadInTime /\ WaitInv /\ SearchedInv /\ [Next]_vars => SearchedInv'
<1> SUFFICES ASSUME ReadInTime, WaitInv, SearchedInv, [Next]_vars PROVE SearchedInv'
  OBVIOUS
<1>0. /\ TypeOK /\ ChainTypeOK
      /\ height \in Nat /\ now \in 0 .. height /\ prev \in Nat /\ next \in Nat
      /\ HeadPace \in 0 .. 1 /\ since \in 0 .. 1
  BY EventWaitAssumption
     DEF WaitInv, TypeOK, ChainTypeOK, EventWaitAssumption, ReadInTime
<1>1. ASSUME NEW b, NEW then \in {"previous", "future"}, Conclude(Verdict(b), then)
      PROVE  /\ out' # "none" /\ pc' \in {then, "stopped"}
             /\ pc' # "stopped" => out' = "searching" /\ Clean(b)
  BY <1>1, VerdictSearching DEF Conclude, Verdict
<1>2. CASE Start
  <2>1. /\ pc = "call" /\ prev' \in {prev, height} /\ next' = prev' /\ now' = height
        /\ pc' = "previous" /\ since' = 0 /\ height' = height /\ out' = out
    BY <1>2 DEF Start, chainVars
  <2>2. prev' \in Nat /\ prev' <= height + 1 /\ out' = "searching" /\ out' # "none"
    BY <1>0, <2>1 DEF WaitInv
  <2>3. (SearchedTo(next - 1))'
    <3>1. \A a \in Nat : a .. a - 1 = {}
      OBVIOUS
    <3>2. prev' .. next' - 1 = {}
      BY <2>1, <2>2, <3>1
    <3> QED
      BY <3>2 DEF SearchedTo
  <2> QED
    BY <1>0, <2>1, <2>2, <2>3 DEF SearchedInv
<1>3. CASE ScanPrevious
  <2> DEFINE b == IF next = 0 THEN <<>> ELSE chain[next]
  <2>1. /\ pc = "previous" /\ next <= now /\ next' = next + 1
        /\ Conclude(Verdict(b), pc)
        /\ UNCHANGED <<prev, now, cur, since>> /\ height' = height /\ chain' = chain
    BY <1>3 DEF ScanPrevious, chainVars
  <2>2. /\ out' # "none" /\ pc' \in {"previous", "stopped"}
        /\ pc' # "stopped" => out' = "searching" /\ Clean(b)
    BY <1>1, <2>1
  <2>3. pc' = "previous" => SearchedTo(next - 1) /\ (next >= 1 => Clean(chain[next]))
    BY <1>0, <2>1, <2>2 DEF SearchedInv
  <2>4. (pc = "previous" => SearchedTo(next - 1))'
    BY <1>0, <2>1, <2>3 DEF SearchedTo, Clean, Holds
  <2> QED
    BY <1>0, <2>1, <2>2, <2>4 DEF SearchedInv
<1>4. CASE PreviousDone \/ Poll
  <2>1. /\ pc \in {"previous", "future"} /\ Conclude(Verdict(Head.block), "future")
        /\ cur' = Head /\ now' = height /\ since' = 0
        /\ height' = height /\ chain' = chain /\ UNCHANGED <<prev, next>>
    BY <1>4 DEF PreviousDone, Poll, chainVars
  <2>2. /\ out' # "none" /\ pc' \in {"future", "stopped"}
        /\ pc' # "stopped" => out' = "searching" /\ Clean(Head.block)
    BY <1>1, <2>1
  <2>3. SearchedTo(height - 1)
    <3>1. CASE PreviousDone
      <4>1. pc = "previous" /\ next = now + 1 /\ SearchedTo(now)
        BY <1>0, <3>1 DEF PreviousDone, SearchedInv
      <4> QED
        BY <1>0, <4>1 DEF SearchedInv, SearchedTo
    <3>2. CASE Poll
      BY <1>0, <3>2 DEF Poll, SearchedInv, SearchedTo
    <3> QED
      BY <1>4, <3>1, <3>2
  <2>4. Clean(Head.block) /\ height >= 1 => Clean(chain[height])
    BY <1>0 DEF Head
  <2>5. \A n \in prev .. height - 1 : n >= 1 => Clean(chain[n])
    BY <1>0, <2>3 DEF SearchedTo
  <2>6. pc' = "future" => \A n \in prev .. height : n >= 1 => Clean(chain[n])
    <3> SUFFICES ASSUME pc' = "future", NEW n \in prev .. height, n >= 1 PROVE Clean(chain[n])
      OBVIOUS
    <3>1. CASE n = height
      BY <1>0, <2>2, <2>4, <3>1
    <3>2. CASE n # height
      BY <1>0, <2>5, <3>2
    <3> QED
      BY <3>1, <3>2
  <2>7. (pc = "future" => SearchedTo(height))'
    BY <2>1, <2>6 DEF SearchedTo, Clean, Holds
  <2>8. (pc = "future" \/ out = "none" =>
           /\ cur.num = now /\ Clean(cur.block)
           /\ \A n \in prev .. now - 1 : n >= 1 => Clean(chain[n]))'
    BY <1>0, <2>1, <2>2, <2>5, HeadIsBlock DEF Clean, Holds
  <2> QED
    BY <1>0, <2>1, <2>2, <2>7, <2>8 DEF SearchedInv
<1>5. CASE Timeout
  BY <1>5 DEF Timeout, Conclude, SearchedInv, SearchedTo, Clean, Holds, chainVars
<1>6. CASE HeadChange
  <2>1. /\ UNCHANGED clientVars
        /\ height' \in {height, height + 1}
        /\ \A n \in 1 .. height - 1 : chain'[n] = chain[n]
        /\ height' = height + 1 => chain'[height] = chain[height] \/ height = 0
    BY <1>0, <1>6, ProduceAdds, ReorgOfHead DEF HeadChange
  <2>2. pc # "call" => since = 0 /\ since' = 1
    BY <1>0, <1>6 DEF HeadChange
  <2>3. ASSUME pc # "call", NEW n \in prev .. now, n >= 1, n < height', Clean(chain[n])
        PROVE  Clean(chain'[n])
    BY <1>0, <2>1, <2>3
  <2>4. ASSUME pc = "previous"
        PROVE  height \in {now} /\ next - 1 <= now /\ \A n \in prev .. next - 1 : n >= 1 => Clean(chain[n])
    BY <1>0, <2>2, <2>4 DEF SearchedInv, SearchedTo
  <2>5. ASSUME pc = "future"
        PROVE  height = now /\ \A n \in prev .. now : n >= 1 => Clean(chain[n])
    BY <1>0, <2>2, <2>5 DEF SearchedInv, SearchedTo
  <2>6. (pc = "previous" => next <= now + 1 /\ SearchedTo(next - 1))'
    <3> SUFFICES ASSUME pc = "previous", NEW n \in prev .. next - 1, n >= 1, n < height'
                 PROVE  next <= now + 1 /\ Clean(chain'[n])
      BY <1>0, <2>1, <2>2, <2>4 DEF SearchedTo, clientVars, Clean, Holds
    <3> QED
      BY <1>0, <2>3, <2>4
  <2>7. (pc = "future" => SearchedTo(height))'
    <3> SUFFICES ASSUME pc = "future", NEW n \in prev .. height', n >= 1, n < height'
                 PROVE  Clean(chain'[n])
      BY <2>1, <2>2 DEF SearchedTo, clientVars, Clean, Holds
    <3>1. n \in prev .. now
      BY <1>0, <2>1, <2>5
    <3> QED
      BY <2>3, <2>5, <3>1
  <2>8. (pc = "future" \/ out = "none" =>
           /\ cur.num = now /\ Clean(cur.block)
           /\ \A n \in prev .. now - 1 : n >= 1 => Clean(chain[n]))'
    <3> SUFFICES ASSUME pc = "future" \/ out = "none"
                 PROVE  /\ cur.num = now /\ Clean(cur.block)
                        /\ \A n \in prev .. now - 1 : n >= 1 => Clean(chain'[n])
      BY <2>1 DEF clientVars, Clean, Holds
    <3>1. pc # "call"
      BY DEF SearchedInv
    <3>2. ASSUME NEW n \in prev .. now - 1, n >= 1 PROVE Clean(chain'[n])
      <4>1. n \in prev .. now /\ n < height' /\ Clean(chain[n])
        BY <1>0, <2>1, <3>2 DEF SearchedInv
      <4> QED
        BY <2>3, <3>1, <3>2, <4>1
    <3> QED
      BY <3>2 DEF SearchedInv
  <2>9. (pc \in {"previous", "future"} => height \in {now, now + 1} /\ (since = 0 => height = now))'
    BY <1>0, <2>1, <2>2, <2>4, <2>5 DEF clientVars
  <2>10. (pc # "stopped" => out = "searching")'
    BY <2>1 DEF clientVars, SearchedInv
  <2> QED
    BY <2>6, <2>7, <2>8, <2>9, <2>10 DEF SearchedInv
<1>7. ASSUME height' = height, chain' = chain, UNCHANGED <<clientVars, since>> PROVE SearchedInv'
  BY <1>7 DEF clientVars, SearchedInv, SearchedTo, Clean, Holds
<1> QED
  BY <1>2, <1>3, <1>4, <1>5, <1>6, <1>7
     DEF Next, Call, Env, Stopped, Finalize, vars, chainVars

(* What NoneMissed says of a step follows from the state it starts in. *)
LEMMA NoneMissedInTime == ASSUME ReadInTime PROVE Spec => NoneMissed
<1>1. Init => SearchedInv
  BY DEF Init, SearchedInv
<1>2. WaitInv /\ SearchedInv /\ [Next]_vars => SearchedInv'
  BY SearchedStep
<1>3. ASSUME WaitInv, SearchedInv, [Next]_vars, out' = "none", cur = Head,
             NEW n \in prev .. now, n >= 1, NEW w \in Wanted
      PROVE  ~Holds(chain[n], w)
  <2>1. pc = "future" \/ out = "none"
    BY <1>3 DEF Next, Call, Env, Start, ScanPrevious, PreviousDone, Poll, Timeout, HeadChange,
                Stopped, Conclude, Verdict, clientVars, vars
  <2>2. /\ cur.num = now /\ Clean(cur.block)
        /\ \A m \in prev .. now - 1 : m >= 1 => Clean(chain[m])
    BY <1>3, <2>1 DEF SearchedInv
  <2>3. height = now /\ height \in Nat /\ prev \in Nat /\ ChainTypeOK
    BY <1>3, <2>2, HeadIsBlock DEF WaitInv, TypeOK, ChainTypeOK
  <2>4. n \in prev .. now - 1 \/ (n = height /\ n # 0)
    BY <1>3, <2>3
  <2>5. Clean(chain[n])
    BY <1>3, <2>2, <2>4 DEF Head
  <2> QED
    BY <2>5 DEF Clean
<1>4. WaitInv /\ SearchedInv /\ [Next]_vars =>
        [out' = "none" /\ cur = Head =>
           \A n \in prev .. now : n >= 1 => \A w \in Wanted : ~Holds(chain[n], w)]_vars
  BY <1>3
<1> QED
  BY <1>1, <1>2, <1>4, WaitInvariant, PTL DEF Spec, NoneMissed

-----------------------------------------------------------------------------
(* AssetWatch *)

(* Balances only grow, and a search that is past the noted block has compared it
   with what it takes for the balance before. *)
ArrivalInv ==
  /\ A!TypeOK /\ A!height \in Nat
  /\ balances[0] \in {0, 1} /\ balances[A!height] <= balances[0] + MaxCredits
  /\ \A m, n \in 0 .. A!height : m <= n => balances[m] <= balances[n]
  /\ given \in {0, balances[0]} /\ block_num \in 0 .. A!height
  /\ pcA = "search" => i >= block_num /\ now_block >= block_num
  /\ pcA \in {"search", "poll", "last"} /\ given # 0 => prev_token = given
  /\ (pcA = "search" /\ i > block_num) \/ pcA \in {"poll", "last"} =>
       (reader # "pallet_tokens" => prev_token = balances[block_num])

(* The number of the last of a sequence of blocks that begins with block 0. *)
LEMMA LastBlockNumber ==
  ASSUME NEW h \in Nat
  PROVE  (CHOOSE n \in 0 .. h : n + 1 \notin 0 .. h) = h
<1>1. h \in 0 .. h /\ h + 1 \notin 0 .. h
  OBVIOUS
<1>2. \A n \in 0 .. h : n + 1 \notin 0 .. h => n = h
  OBVIOUS
<1> QED
  BY <1>1, <1>2

(* The highest block of the balances is the end of their domain. *)
LEMMA HeightIs ==
  ASSUME NEW h \in Nat, DOMAIN balances = 0 .. h PROVE A!height = h
BY LastBlockNumber DEF A!height

(* The same after a step. *)
LEMMA NextHeightIs ==
  ASSUME NEW h \in Nat, DOMAIN balances' = 0 .. h PROVE A!height' = h
BY LastBlockNumber DEF A!height

(* ArrivalInv holds before the first poll. *)
LEMMA ArrivalInitial == A!Init => ArrivalInv
<1> SUFFICES ASSUME A!Init PROVE ArrivalInv
  OBVIOUS
<1>1. balances \in [{0} -> {0, 1}] /\ {0} = 0 .. 0
  BY DEF A!Init
<1>2. A!height = 0
  BY <1>1, HeightIs
<1>3. balances[0] \in {0, 1} /\ MaxCredits \in Nat /\ Polls \in Nat
  BY <1>1, WatchAssumption DEF A!AssetWatchAssumption
<1>4. balances \in [0 .. 0 -> 0 .. MaxCredits + 1]
  <2>1. \A x \in {0, 1} : x \in 0 .. MaxCredits + 1
    BY <1>3
  <2> QED
    BY <1>1, <2>1
<1>5. A!TypeOK
  BY <1>2, <1>3, <1>4 DEF A!Init, A!TypeOK
<1> QED
  BY <1>2, <1>3, <1>5 DEF A!Init, ArrivalInv

(* Every step of the chain and of the wait keeps ArrivalInv. *)
LEMMA ArrivalStep == ArrivalInv /\ [A!Next]_(A!vars) => ArrivalInv'
<1> SUFFICES ASSUME ArrivalInv, [A!Next]_(A!vars) PROVE ArrivalInv'
  OBVIOUS
<1> DEFINE h == A!height
<1>0. /\ h \in Nat /\ balances \in [0 .. h -> 0 .. MaxCredits + 1] /\ MaxCredits \in Nat /\ Polls \in Nat
      /\ given \in Nat /\ prev_token \in Nat /\ block_num \in Nat /\ i \in Nat
      /\ now_block \in 0 .. h /\ count \in 0 .. Polls
  BY WatchAssumption DEF A!AssetWatchAssumption, ArrivalInv, A!TypeOK
<1>1. \A n \in 0 .. h : balances[n] \in Nat
  BY <1>0
<1> HIDE DEF h
<1>2. ASSUME balances' = balances PROVE A!height' = h
  BY <1>2 DEF A!height, h
<1>3. CASE A!Block
  <2>1. PICK credit \in {0, 1} :
          /\ balances[h] + credit <= balances[0] + MaxCredits
          /\ balances' = [n \in 0 .. h + 1 |-> IF n <= h THEN balances[n] ELSE balances[h] + credit]
    BY <1>3 DEF A!Block, h
  <2>2. UNCHANGED <<reader, given, block_num, pcA, prev_token, now_block, i, count, outA>>
    BY <1>3 DEF A!Block
  <2>3. A!height' = h + 1
    BY <1>0, <2>1, NextHeightIs
  <2>4. /\ \A n \in 0 .. h : balances'[n] = balances[n]
        /\ balances'[h + 1] = balances[h] + credit
    BY <1>0, <2>1
  <2>5. balances[0] \in {0, 1} /\ balances[h] \in Nat
    BY <1>0, <1>1 DEF ArrivalInv
  <2>6. balances[h] + credit \in 0 .. MaxCredits + 1
    BY <1>0, <2>1, <2>5
  <2>7. balances' \in [0 .. h + 1 -> 0 .. MaxCredits + 1]
    <3>1. \A n \in 0 .. h + 1 : (IF n <= h THEN balances[n] ELSE balances[h] + credit) \in 0 .. MaxCredits + 1
      BY <1>0, <2>6
    <3> QED
      BY <2>1, <3>1
  <2>8. (A!TypeOK)'
    BY <1>0, <2>2, <2>3, <2>7 DEF ArrivalInv, A!TypeOK, A!None, A!Raised
  <2>9. ASSUME NEW m \in 0 .. h + 1, NEW n \in 0 .. h + 1, m <= n
        PROVE  balances'[m] <= balances'[n]
    <3>1. CASE n \in 0 .. h
      <4>1. m \in 0 .. h
        BY <1>0, <2>9, <3>1
      <4>2. balances[m] <= balances[n]
        BY <2>9, <3>1, <4>1 DEF ArrivalInv, h
      <4> QED
        BY <2>4, <3>1, <4>1, <4>2
    <3>2. CASE n = h + 1 /\ m = h + 1
      BY <2>4, <2>6, <3>2
    <3>3. CASE n = h + 1 /\ m \in 0 .. h
      <4>1. balances[m] <= balances[h] /\ balances[m] \in Nat
        BY <1>0, <1>1, <3>3 DEF ArrivalInv, h
      <4> QED
        BY <2>4, <2>5, <3>3, <4>1
    <3> QED
      BY <1>0, <3>1, <3>2, <3>3
  <2>10. block_num \in 0 .. h /\ 0 \in 0 .. h
    BY <1>0 DEF ArrivalInv, h
  <2>11. balances'[block_num] = balances[block_num] /\ balances'[0] = balances[0]
    BY <2>4, <2>10
  <2>12. balances'[h + 1] <= balances'[0] + MaxCredits
    BY <2>1, <2>4, <2>11
  <2>13. block_num' \in 0 .. h + 1
    BY <1>0, <2>2, <2>10
  <2> QED
    BY <1>0, <2>2, <2>3, <2>8, <2>9, <2>11, <2>12, <2>13 DEF ArrivalInv
<1>4. ASSUME balances' = balances, UNCHANGED <<reader, given>> PROVE
        /\ A!height' = h
        /\ balances'[0] \in {0, 1} /\ balances'[A!height'] <= balances'[0] + MaxCredits
        /\ \A m, n \in 0 .. A!height' : m <= n => balances'[m] <= balances'[n]
        /\ given' \in {0, balances'[0]}
  BY <1>2, <1>4 DEF ArrivalInv, h
<1>5. block_num \in 0 .. h /\ balances[block_num] \in Nat /\ balances[h] \in Nat
  BY <1>0, <1>1 DEF ArrivalInv, h
<1>6. CASE A!NoteBlock
  <2>1. /\ balances' = balances /\ UNCHANGED <<reader, given>>
        /\ block_num' = h /\ pcA' = "sent" /\ UNCHANGED <<prev_token, now_block, i, count, outA>>
    BY <1>6 DEF A!NoteBlock, h
  <2>2. (A!TypeOK)'
    BY <1>0, <1>4, <2>1 DEF ArrivalInv, A!TypeOK, A!None, A!Raised
  <2> QED
    BY <1>0, <1>4, <2>1, <2>2 DEF ArrivalInv
<1>7. CASE A!Start
  <2>1. /\ balances' = balances /\ UNCHANGED <<reader, given>>
        /\ prev_token' = (IF given = 0 THEN A!AtBlock(block_num) ELSE given)
        /\ i' = block_num /\ now_block' = h /\ pcA' = "search"
        /\ UNCHANGED <<block_num, count, outA>>
    BY <1>7 DEF A!Start, h
  <2>2. A!AtBlock(block_num) \in Nat
    BY <1>5 DEF A!AtBlock, h
  <2>3. (A!TypeOK)'
    BY <1>0, <1>4, <2>1, <2>2 DEF ArrivalInv, A!TypeOK, A!None, A!Raised
  <2> QED
    BY <1>0, <1>4, <1>5, <2>1, <2>3 DEF ArrivalInv
<1>8. CASE A!SearchHit
  <2>1. /\ pcA = "search" /\ i <= now_block /\ outA' = A!AtBlock(i) /\ pcA' = "stopped"
        /\ balances' = balances
        /\ UNCHANGED <<reader, given, block_num, prev_token, now_block, i, count>>
    BY <1>8 DEF A!SearchHit, A!Return
  <2>2. A!AtBlock(i) \in 0 .. MaxCredits + 1
    BY <1>0, <2>1 DEF A!AtBlock, h
  <2>3. (A!TypeOK)'
    BY <1>0, <1>4, <2>1, <2>2 DEF ArrivalInv, A!TypeOK
  <2> QED
    BY <1>0, <1>4, <1>5, <2>1, <2>3 DEF ArrivalInv
<1>9. CASE A!SearchMiss
  <2>1. /\ pcA = "search" /\ i <= now_block /\ A!AtBlock(i) = prev_token /\ i' = i + 1
        /\ balances' = balances
        /\ UNCHANGED <<reader, given, block_num, pcA, prev_token, now_block, count, outA>>
    BY <1>9 DEF A!SearchMiss
  <2>2. (A!TypeOK)'
    BY <1>0, <1>4, <2>1 DEF ArrivalInv, A!TypeOK, A!None, A!Raised
  <2>3. i >= block_num /\ now_block >= block_num
    BY <2>1 DEF ArrivalInv
  <2>4. reader # "pallet_tokens" => prev_token = balances[block_num]
    <3>1. CASE i = block_num
      BY <2>1, <3>1 DEF A!AtBlock
    <3>2. CASE i # block_num
      BY <1>0, <2>1, <2>3, <3>2 DEF ArrivalInv
    <3> QED
      BY <3>1, <3>2
  <2>5. (pcA \in {"search", "poll", "last"} /\ given # 0 => prev_token = given)'
    BY <2>1 DEF ArrivalInv
  <2> QED
    BY <1>0, <1>4, <1>5, <2>1, <2>2, <2>3, <2>4, <2>5 DEF ArrivalInv
<1>10. CASE A!SearchOver \/ A!Poll \/ A!PollOver
  <2>1. /\ balances' = balances /\ pcA' \in {"poll", "last"} /\ now_block' \in {now_block, h}
        /\ count' \in 0 .. Polls
        /\ UNCHANGED <<reader, given, block_num, prev_token, i, outA>>
        /\ pcA \in {"poll"} \/ (pcA = "search" /\ i > now_block)
    BY <1>0, <1>10 DEF A!SearchOver, A!Poll, A!PollOver, h
  <2>2. (A!TypeOK)'
    BY <1>0, <1>4, <2>1 DEF ArrivalInv, A!TypeOK, A!None, A!Raised
  <2>3. (pcA = "search" /\ i > block_num) \/ pcA = "poll"
    BY <1>0, <2>1 DEF ArrivalInv
  <2>4. /\ reader # "pallet_tokens" => prev_token = balances[block_num]
        /\ given # 0 => prev_token = given
    BY <2>3 DEF ArrivalInv
  <2> QED
    BY <1>0, <1>4, <1>5, <2>1, <2>2, <2>4 DEF ArrivalInv
<1>11. CASE A!LastLook
  <2>1. /\ outA' \in {A!Raised, balances[h]} /\ pcA' = "stopped" /\ balances' = balances
        /\ UNCHANGED <<reader, given, block_num, prev_token, now_block, i, count>>
    BY <1>11 DEF A!LastLook, A!Return, A!AtHead, h
  <2>2. balances[h] \in 0 .. MaxCredits + 1
    BY <1>0
  <2>3. (A!TypeOK)'
    BY <1>0, <1>4, <2>1, <2>2 DEF ArrivalInv, A!TypeOK
  <2> QED
    BY <1>0, <1>4, <1>5, <2>1, <2>3 DEF ArrivalInv
<1>12. CASE UNCHANGED A!vars
  <2>1. UNCHANGED <<balances, reader, given, block_num, pcA, prev_token, now_block, i, count, outA>>
    BY <1>12 DEF A!vars
  <2>2. (A!TypeOK)'
    BY <1>0, <1>4, <2>1 DEF ArrivalInv, A!TypeOK, A!None, A!Raised
  <2> QED
    BY <1>0, <1>4, <1>5, <2>1, <2>2 DEF ArrivalInv
<1> QED
  BY <1>3, <1>6, <1>7, <1>8, <1>9, <1>10, <1>11, <1>12 DEF A!Next, A!Stopped

(* A wait that gives up has compared the head with the balance before. *)
LEMMA ArrivalInvariant == A!Spec => []ArrivalInv /\ A!ArrivalNoticed
<1>1. ASSUME ArrivalInv, [A!Next]_(A!vars), outA' = A!Raised, outA # A!Raised,
             reader # "pallet_tokens" \/ given # 0
      PROVE  balances[A!height] = balances[block_num]
  <2>0. /\ A!height \in Nat /\ block_num \in 0 .. A!height
        /\ \A n \in 0 .. A!height : balances[n] \in Nat
        /\ 0 \in 0 .. A!height /\ now_block \in 0 .. A!height /\ i \in Nat
    BY <1>1, WatchAssumption DEF ArrivalInv, A!TypeOK, A!AssetWatchAssumption
  <2>1. ASSUME A!SearchHit PROVE FALSE
    <3>1. A!AtBlock(i) = -2 /\ i \in 0 .. A!height
      BY <1>1, <2>0, <2>1 DEF A!SearchHit, A!Return, A!Raised
    <3>2. A!AtBlock(i) \in Nat
      BY <2>0, <3>1 DEF A!AtBlock
    <3> QED
      BY <3>1, <3>2
  <2>2. A!LastLook
    BY <1>1, <2>1 DEF A!Next, A!Block, A!NoteBlock, A!Start, A!SearchMiss, A!SearchOver, A!Poll,
                      A!PollOver, A!Stopped, A!vars
  <2>3. pcA = "last" /\ balances[A!height] = prev_token
    <3>1. balances[A!height] # -2
      BY <2>0
    <3> QED
      BY <1>1, <2>2, <3>1 DEF A!LastLook, A!Return, A!AtHead, A!Raised
  <2>4. CASE reader # "pallet_tokens"
    BY <1>1, <2>3, <2>4 DEF ArrivalInv
  <2>5. CASE given # 0
    <3>1. prev_token = balances[0]
      BY <1>1, <2>3, <2>5 DEF ArrivalInv
    <3>2. balances[0] <= balances[block_num] /\ balances[block_num] <= balances[A!height]
      BY <1>1, <2>0 DEF ArrivalInv
    <3> QED
      BY <2>0, <2>3, <3>1, <3>2
  <2> QED
    BY <1>1, <2>4, <2>5
<1>2. ArrivalInv /\ [A!Next]_(A!vars) =>
        [outA' = A!Raised /\ outA # A!Raised /\ (reader # "pallet_tokens" \/ given # 0) =>
           balances[A!height] = balances[block_num]]_(A!vars)
  BY <1>1
<1> QED
  BY <1>2, ArrivalInitial, ArrivalStep, PTL DEF A!Spec, A!ArrivalNoticed

-----------------------------------------------------------------------------
(* SafeUpgradeTime *)

(* Undisturbed, all rounds have the same length; a block belongs to the round that
   began last, which is on record, and so is the one after. *)
RoundsRegular ==
  /\ \A n \in 0 .. T!head :
       /\ rounds[n].length = Length
       /\ rounds[n].first <= n /\ n < rounds[n].first + Length
       /\ rounds[rounds[n].first] = rounds[n]
  /\ \A m, n \in 0 .. T!head : m <= n /\ n < rounds[m].first + Length => rounds[n] = rounds[m]
  /\ \A n \in 0 .. T!head : rounds[n].first + Length <= T!head =>
       rounds[rounds[n].first + Length].first = rounds[n].first + Length

(* While no block takes longer than the average. *)
InTime == \A n \in 1 .. T!head : stamps[n] - stamps[n - 1] <= Average

StampsBounded ==
  /\ \A m, n \in 0 .. T!head : m <= n => stamps[m] <= stamps[n]
  /\ InTime =>
       \A m, n \in 0 .. T!head : m <= n => stamps[n] <= stamps[m] + (n - m) * Average

(* What has been read was true of some block, and is what the lines are made of. *)
ReadInv ==
  /\ step \in {"round", "print", "stopped"} => stamps[current] <= time
  /\ step \in {"print", "stopped"} =>
       /\ round \in [first : Nat, length : Nat]
       /\ ~forced => \E n \in 0 .. T!head : round = rounds[n]
  /\ step # "stopped" => lines = T!NoLines
  /\ step = "stopped" =>
       lines \in [T!Sessions -> [Offsets -> [block : Nat, time : Nat]]]
  /\ \A s \in DOMAIN lines, o \in Offsets :
       \/ lines[s][o].block <= current /\ lines[s][o].time = stamps[lines[s][o].block]
       \/ /\ lines[s][o].block > current
          /\ lines[s][o].time = time + (lines[s][o].block - current) * Average

TimeInv ==
  /\ T!head \in Nat /\ T!TypeOK
  /\ StampsBounded
  /\ ~forced => RoundsRegular
  /\ ReadInv

(* What the assumption says of the pace and of the rounds. *)
LEMMA TimeConstants ==
  /\ Average \in Nat /\ Length \in Nat \ {0} /\ MaxHeight \in Nat
  /\ Offsets \subseteq Nat /\ Gaps \subseteq Nat
BY WatchAssumption DEF T!SafeUpgradeTimeAssumption

(* One block more is one average more. *)
LEMMA OneMore ==
  ASSUME NEW d \in Int, NEW a \in Int PROVE (d + 1) * a = d * a + a
OBVIOUS

(* A product of natural numbers is one. *)
LEMMA NatProduct ==
  ASSUME NEW a \in Nat, NEW b \in Nat PROVE a * b \in Nat
OBVIOUS

(* The head is the last block that has a time stamp. *)
LEMMA TopIs ==
  ASSUME NEW h \in Nat, DOMAIN stamps = 0 .. h PROVE T!head = h
BY LastBlockNumber DEF T!head

(* The same after a step. *)
LEMMA NextTopIs ==
  ASSUME NEW h \in Nat, DOMAIN stamps' = 0 .. h PROVE T!head' = h
BY LastBlockNumber DEF T!head

(* TimeInv holds when the tool is started. *)
LEMMA TimeInitial == T!Init => TimeInv
<1> SUFFICES ASSUME T!Init PROVE TimeInv
  OBVIOUS
<1>1. stamps = [n \in {0} |-> 0] /\ {0} = 0 .. 0
  BY DEF T!Init
<1>2. T!head = 0 /\ stamps[0] = 0 /\ stamps \in [0 .. 0 -> Nat]
  BY <1>1, TopIs
<1>3. rounds \in [0 .. 0 -> [first : 0 .. 0, length : Nat]] /\ rounds[0] = [first |-> 0, length |-> Length]
  BY <1>1, TimeConstants DEF T!Init
<1>4. T!TypeOK
  BY <1>2, <1>3 DEF T!Init, T!TypeOK, T!NoRound
<1>5. StampsBounded
  <2>1. 0 * Average = 0
    BY TimeConstants
  <2>2. \A m, n \in 0 .. 0 : m = 0 /\ n = 0
    OBVIOUS
  <2> QED
    BY <1>2, <2>1, <2>2 DEF StampsBounded
<1>6. RoundsRegular
  <2>1. \A m, n \in 0 .. 0 : m = 0 /\ n = 0
    OBVIOUS
  <2> QED
    BY <1>2, <1>3, <2>1, TimeConstants DEF RoundsRegular
<1>7. ReadInv
  BY DEF T!Init, ReadInv, T!NoLines
<1> QED
  BY <1>2, <1>4, <1>5, <1>6, <1>7 DEF TimeInv

(* A new block: the stamps stay bounded. *)
LEMMA StampsGrow ==
  ASSUME TimeInv, NEW gap \in Gaps, stamps' = T!Extend(stamps, stamps[T!head] + gap)
  PROVE  /\ T!head' = T!head + 1 /\ stamps' \in [0 .. T!head + 1 -> Nat]
         /\ \A n \in 0 .. T!head : stamps'[n] = stamps[n]
         /\ StampsBounded'
<1> DEFINE h == T!head
<1>0. h \in Nat /\ stamps \in [0 .. h -> Nat] /\ gap \in Nat /\ Average \in Nat
  BY TimeConstants DEF TimeInv, T!TypeOK
<1>1. stamps' = [n \in 0 .. h + 1 |-> IF n <= h THEN stamps[n] ELSE stamps[h] + gap]
  BY DEF T!Extend
<1> HIDE DEF h
<1>2. T!head' = h + 1
  BY <1>0, <1>1, NextTopIs
<1>3. /\ \A n \in 0 .. h : stamps'[n] = stamps[n] /\ stamps[n] \in Nat
      /\ stamps'[h + 1] = stamps[h] + gap
  BY <1>0, <1>1
<1>4. stamps' \in [0 .. h + 1 -> Nat]
  <2>1. \A n \in 0 .. h + 1 : (IF n <= h THEN stamps[n] ELSE stamps[h] + gap) \in Nat
    BY <1>0
  <2> QED
    BY <1>1, <2>1
<1>5. \A m, n \in 0 .. h : m <= n => stamps[m] <= stamps[n]
  BY DEF TimeInv, StampsBounded, h
<1>6. ASSUME NEW m \in 0 .. h + 1, NEW n \in 0 .. h + 1, m <= n
      PROVE  stamps'[m] <= stamps'[n]
  <2>1. CASE n \in 0 .. h
    <3>1. m \in 0 .. h
      BY <1>0, <1>6, <2>1
    <3> QED
      BY <1>3, <1>5, <1>6, <2>1, <3>1
  <2>2. CASE n = h + 1 /\ m = h + 1
    BY <1>0, <1>3, <2>2
  <2>3. CASE n = h + 1 /\ m \in 0 .. h
    <3>1. stamps[m] <= stamps[h] /\ stamps[m] \in Nat /\ stamps[h] \in Nat
      BY <1>0, <1>3, <1>5, <2>3
    <3> QED
      BY <1>0, <1>3, <2>3, <3>1
  <2> QED
    BY <1>0, <2>1, <2>2, <2>3
<1>7. ASSUME InTime'
      PROVE  InTime /\ stamps'[h + 1] - stamps[h] <= Average
  <2>1. ASSUME NEW n \in 1 .. h + 1 PROVE stamps'[n] - stamps'[n - 1] <= Average
    BY <1>2, <1>7, <2>1 DEF InTime
  <2>2. ASSUME NEW n \in 1 .. h PROVE stamps[n] - stamps[n - 1] <= Average
    <3>1. n \in 1 .. h + 1 /\ n \in 0 .. h /\ n - 1 \in 0 .. h
      BY <1>0
    <3> QED
      BY <1>3, <2>1, <3>1
  <2>3. h + 1 \in 1 .. h + 1 /\ h + 1 - 1 = h /\ h \in 0 .. h
    BY <1>0
  <2>4. stamps'[h + 1] - stamps'[h] <= Average
    BY <2>1, <2>3
  <2> QED
    BY <1>3, <2>2, <2>3, <2>4 DEF InTime, h
<1>8. ASSUME InTime', NEW m \in 0 .. h + 1, NEW n \in 0 .. h + 1, m <= n
      PROVE  stamps'[n] <= stamps'[m] + (n - m) * Average
  <2>0. \A k, l \in 0 .. h : k <= l => stamps[l] <= stamps[k] + (l - k) * Average
    BY <1>7, <1>8 DEF TimeInv, StampsBounded, h
  <2>1. CASE n \in 0 .. h
    <3>1. m \in 0 .. h
      BY <1>0, <1>8, <2>1
    <3> QED
      BY <1>3, <1>8, <2>0, <2>1, <3>1
  <2>2. CASE n = h + 1 /\ m = h + 1
    <3>1. (n - m) * Average = 0
      BY <1>0, <2>2
    <3> QED
      BY <1>0, <1>3, <2>2, <3>1
  <2>3. CASE n = h + 1 /\ m \in 0 .. h
    <3>1. h \in 0 .. h /\ m <= h /\ stamps[h] \in Nat /\ stamps[m] \in Nat /\ h - m \in Int
      BY <1>0, <1>3, <2>3
    <3>2. stamps[h] <= stamps[m] + (h - m) * Average
      BY <2>0, <2>3, <3>1
    <3>3. stamps'[n] <= stamps[h] + Average
      BY <1>0, <1>3, <1>7, <1>8, <2>3, <3>1
    <3>4. (n - m) * Average = (h - m) * Average + Average
      <4>1. n - m = (h - m) + 1
        BY <1>0, <2>3
      <4> QED
        BY <1>0, <3>1, <4>1, OneMore
    <3>5. (h - m) * Average \in Int
      BY <1>0, <3>1
    <3>6. stamps'[n] \in Nat /\ stamps'[m] = stamps[m]
      BY <1>0, <1>3, <2>3, <3>1
    <3>7. PICK x \in Int : x = (h - m) * Average
      BY <3>5
    <3>8. PICK a \in Nat, b \in Nat, c \in Nat :
            a = stamps[h] /\ b = stamps[m] /\ c = stamps'[n]
      BY <3>1, <3>6
    <3>9. a <= b + x /\ c <= a + Average
      BY <3>2, <3>3, <3>7, <3>8
    <3>10. c <= b + (x + Average)
      BY <1>0, <3>9
    <3> QED
      BY <3>4, <3>6, <3>7, <3>8, <3>10
  <2> QED
    BY <1>0, <2>1, <2>2, <2>3
<1>9. StampsBounded'
  BY <1>2, <1>6, <1>8 DEF StampsBounded
<1> QED
  BY <1>2, <1>3, <1>4, <1>9 DEF h

(* A new block: undisturbed rounds stay regular. *)
LEMMA RoundsGrow ==
  ASSUME TimeInv, RoundsRegular, T!head' = T!head + 1,
         rounds' = T!Extend(rounds, T!Started(rounds[T!head]))
  PROVE  RoundsRegular'
<1> DEFINE h == T!head
           q == T!Started(rounds[h])
<1>0. h \in Nat /\ Length \in Nat \ {0} /\ rounds \in [0 .. h -> [first : 0 .. h, length : Nat]]
  BY TimeConstants DEF TimeInv, T!TypeOK
<1>1. rounds' = [n \in 0 .. h + 1 |-> IF n <= h THEN rounds[n] ELSE q]
  BY DEF T!Extend
<1>2. h \in 0 .. h /\ rounds[h] \in [first : 0 .. h, length : Nat] /\ rounds[h].length = Length
  BY <1>0 DEF RoundsRegular
<1>3. q = IF h + 1 >= rounds[h].first + Length THEN [first |-> h + 1, length |-> Length] ELSE rounds[h]
  BY <1>2 DEF T!Started
<1> HIDE DEF h, q
<1>4. T!head' = h + 1
  BY DEF h
<1>5. /\ \A n \in 0 .. h : rounds'[n] = rounds[n] /\ rounds[n].first \in 0 .. h
      /\ rounds'[h + 1] = q
  BY <1>0, <1>1
<1>6. /\ \A n \in 0 .. h :
           /\ rounds[n].length = Length
           /\ rounds[n].first <= n /\ n < rounds[n].first + Length
           /\ rounds[rounds[n].first] = rounds[n]
      /\ \A m, n \in 0 .. h : m <= n /\ n < rounds[m].first + Length => rounds[n] = rounds[m]
      /\ \A n \in 0 .. h : rounds[n].first + Length <= h =>
           rounds[rounds[n].first + Length].first = rounds[n].first + Length
  BY DEF RoundsRegular, h
<1>7. /\ q.length = Length /\ q.first \in 0 .. h + 1
      /\ q.first <= h + 1 /\ h + 1 < q.first + Length
      /\ rounds'[q.first] = q
  <2>1. CASE h + 1 >= rounds[h].first + Length
    <3>1. q.length = Length /\ q.first = h + 1
      BY <1>3, <2>1
    <3> QED
      BY <1>0, <1>5, <3>1
  <2>2. CASE ~(h + 1 >= rounds[h].first + Length)
    <3>1. q = rounds[h] /\ rounds[h].first \in 0 .. h
      BY <1>2, <1>3, <1>5, <2>2
    <3>2. rounds'[rounds[h].first] = rounds[h]
      BY <1>2, <1>5, <1>6, <3>1
    <3> QED
      BY <1>0, <1>2, <1>6, <2>2, <3>1, <3>2
  <2> QED
    BY <2>1, <2>2
<1>8. ASSUME NEW n \in 0 .. h + 1
      PROVE  /\ rounds'[n].length = Length
             /\ rounds'[n].first <= n /\ n < rounds'[n].first + Length
             /\ rounds'[rounds'[n].first] = rounds'[n]
  <2>1. CASE n \in 0 .. h
    BY <1>5, <1>6, <2>1
  <2>2. CASE n = h + 1
    BY <1>5, <1>7, <2>2
  <2> QED
    BY <1>0, <2>1, <2>2
<1>9. ASSUME NEW m \in 0 .. h + 1, NEW n \in 0 .. h + 1, m <= n, n < rounds'[m].first + Length
      PROVE  rounds'[n] = rounds'[m]
  <2>1. CASE n \in 0 .. h
    <3>1. m \in 0 .. h
      BY <1>0, <1>9, <2>1
    <3> QED
      BY <1>5, <1>6, <1>9, <2>1, <3>1
  <2>2. CASE m = h + 1
    BY <1>0, <1>9, <2>2
  <2>3. CASE n = h + 1 /\ m \in 0 .. h
    <3>1. rounds'[m] = rounds[m] /\ rounds[m].first \in 0 .. h
      BY <1>5, <2>3
    <3>2. m <= h /\ h < rounds[m].first + Length
      BY <1>0, <1>9, <2>3, <3>1
    <3>3. rounds[h] = rounds[m]
      BY <1>2, <1>6, <2>3, <3>2
    <3>4. q = rounds[h]
      BY <1>0, <1>3, <1>9, <2>3, <3>1, <3>3
    <3> QED
      BY <1>5, <2>3, <3>1, <3>3, <3>4
  <2> QED
    BY <1>0, <2>1, <2>2, <2>3
<1>10. ASSUME NEW n \in 0 .. h + 1, rounds'[n].first + Length <= h + 1
       PROVE  rounds'[rounds'[n].first + Length].first = rounds'[n].first + Length
  <2>1. n \in 0 .. h
    <3>1. ASSUME n = h + 1 PROVE FALSE
      <4>1. PICK f \in 0 .. h + 1 : f = q.first
        BY <1>7
      <4>2. f + Length <= h + 1 /\ h + 1 < f + Length
        BY <1>5, <1>7, <1>10, <3>1, <4>1
      <4> QED
        BY <1>0, <4>2
    <3> QED
      BY <1>0, <3>1
  <2>2. PICK f \in 0 .. h : f = rounds[n].first
    BY <1>5, <2>1
  <2>3. rounds'[n] = rounds[n] /\ f + Length <= h + 1
    BY <1>5, <1>10, <2>1, <2>2
  <2>4. CASE f + Length <= h
    <3>1. f + Length \in 0 .. h
      BY <1>0, <2>4
    <3>2. rounds[f + Length].first = f + Length
      BY <1>6, <2>1, <2>2, <2>4
    <3> QED
      BY <1>5, <2>2, <2>3, <3>1, <3>2
  <2>5. CASE f + Length = h + 1
    <3>1. n <= h /\ h < f + Length
      BY <1>0, <2>1, <2>5
    <3>2. rounds[h] = rounds[n]
      BY <1>2, <1>6, <2>1, <2>2, <3>1
    <3>3. q.first = h + 1
      BY <1>0, <1>3, <2>2, <2>5, <3>2
    <3> QED
      BY <1>5, <2>2, <2>3, <2>5, <3>3
  <2> QED
    BY <1>0, <2>3, <2>4, <2>5
<1> QED
  BY <1>4, <1>8, <1>9, <1>10 DEF RoundsRegular

(* The types of the chain after a block. *)
LEMMA BlockTyped ==
  ASSUME TimeInv, T!Block
  PROVE  /\ T!head' = T!head + 1 /\ stamps' \in [0 .. T!head + 1 -> Nat]
         /\ rounds' \in [0 .. T!head + 1 -> [first : 0 .. T!head + 1, length : Nat]]
         /\ \A n \in 0 .. T!head : stamps'[n] = stamps[n] /\ rounds'[n] = rounds[n]
         /\ StampsBounded' /\ forced' \in BOOLEAN
         /\ ~forced' => ~forced /\ RoundsRegular'
<1> DEFINE h == T!head
<1>0. /\ h \in Nat /\ rounds \in [0 .. h -> [first : 0 .. h, length : Nat]] /\ forced \in BOOLEAN
  BY DEF TimeInv, T!TypeOK
<1>l. Length + 1 \in Nat
  BY TimeConstants
<1>1. PICK gap \in Gaps : stamps' = T!Extend(stamps, stamps[h] + gap)
  BY DEF T!Block
<1>2. /\ T!head' = h + 1 /\ stamps' \in [0 .. h + 1 -> Nat]
      /\ \A n \in 0 .. h : stamps'[n] = stamps[n]
      /\ StampsBounded'
  BY <1>1, StampsGrow
<1>3. ASSUME NEW x \in [first : 0 .. h + 1, length : Nat], rounds' = T!Extend(rounds, x)
      PROVE  /\ rounds' \in [0 .. h + 1 -> [first : 0 .. h + 1, length : Nat]]
             /\ \A n \in 0 .. h : rounds'[n] = rounds[n]
  <2>1. rounds' = [n \in 0 .. h + 1 |-> IF n <= h THEN rounds[n] ELSE x]
    BY <1>3 DEF T!Extend
  <2> HIDE DEF h
  <2>2. \A n \in 0 .. h : rounds[n] \in [first : 0 .. h + 1, length : Nat]
    <3>1. \A f \in 0 .. h : f \in 0 .. h + 1
      BY <1>0
    <3> QED
      BY <1>0, <3>1
  <2> DEFINE R == [first : 0 .. h + 1, length : Nat]
  <2>3. x \in R /\ \A n \in 0 .. h : rounds[n] \in R
    BY <2>2
  <2> HIDE DEF R
  <2>4. \A n \in 0 .. h + 1 : (IF n <= h THEN rounds[n] ELSE x) \in R
    BY <1>0, <2>3
  <2>5. rounds' \in [0 .. h + 1 -> R]
    BY <2>1, <2>4
  <2>6. ASSUME NEW n \in 0 .. h PROVE rounds'[n] = rounds[n]
    <3>1. n \in 0 .. h + 1 /\ n <= h
      BY <1>0
    <3> QED
      BY <2>1, <3>1
  <2> QED
    BY <2>5, <2>6 DEF R
<1>4. rounds[h] \in [first : 0 .. h, length : Nat]
  BY <1>0
<1>5. /\ T!Started(rounds[h]) \in [first : 0 .. h + 1, length : Nat]
      /\ [rounds[h] EXCEPT !.first = h + 1] \in [first : 0 .. h + 1, length : Nat]
  <2> HIDE DEF h
  <2>1. h + 1 \in 0 .. h + 1 /\ \A f \in 0 .. h : f \in 0 .. h + 1
    BY <1>0
  <2>2. [rounds[h] EXCEPT !.first = h + 1] \in [first : 0 .. h + 1, length : Nat]
    BY <1>4, <2>1
  <2>3. rounds[h] \in [first : 0 .. h + 1, length : Nat]
    BY <1>4, <2>1
  <2> QED
    BY <2>2, <2>3 DEF T!Started, h
<1>6. CASE rounds' = T!Extend(rounds, T!Started(rounds[h])) /\ UNCHANGED forced
  <2>1. ~forced => RoundsRegular'
    BY <1>2, <1>6, RoundsGrow DEF TimeInv
  <2> QED
    BY <1>0, <1>2, <1>3, <1>5, <1>6, <2>1
<1>7. CASE T!Interfere
  <2>1. [T!Started(rounds[h]) EXCEPT !.length = Length + 1] \in [first : 0 .. h + 1, length : Nat]
    BY <1>l, <1>5
  <2>2. forced' = TRUE
    BY <1>7 DEF T!Interfere
  <2>3. /\ rounds' \in [0 .. h + 1 -> [first : 0 .. h + 1, length : Nat]]
        /\ \A n \in 0 .. h : rounds'[n] = rounds[n]
    BY <1>3, <1>5, <1>7, <2>1 DEF T!Interfere
  <2> QED
    BY <1>2, <2>2, <2>3
<1> QED
  BY <1>6, <1>7 DEF T!Block

(* The lines a run of the tool prints. *)
LEMMA LinesPrinted ==
  ASSUME TimeInv, T!PrintTimes
  PROVE  /\ lines' \in [T!Sessions -> [Offsets -> [block : Nat, time : Nat]]]
         /\ \A s \in T!Sessions, o \in Offsets :
              \/ lines'[s][o].block <= current /\ lines'[s][o].time = stamps[lines'[s][o].block]
              \/ /\ lines'[s][o].block > current
                 /\ lines'[s][o].time = time + (lines'[s][o].block - current) * Average
<1>0. /\ T!head \in Nat /\ current \in 0 .. T!head /\ time \in Nat /\ stamps \in [0 .. T!head -> Nat]
      /\ round.first \in Nat /\ round.length \in Nat /\ Offsets \subseteq Nat /\ Average \in Nat
  BY TimeConstants DEF T!PrintTimes, TimeInv, T!TypeOK, ReadInv
<1>1. lines' = [s \in T!Sessions |-> [o \in Offsets |->
                  [block |-> T!Base(s) + o, time |-> T!TimeOf(T!Base(s) + o)]]]
  BY DEF T!PrintTimes
<1>2. ASSUME NEW s \in T!Sessions PROVE T!Base(s) \in Nat
  <2>1. T!Base(s) \in {round.first, round.first + round.length, round.first + 2 * round.length}
    BY <1>2 DEF T!Base, T!Sessions
  <2> QED
    BY <1>0, <2>1
<1>3. ASSUME NEW b \in Nat
      PROVE  /\ T!TimeOf(b) \in Nat
             /\ b <= current => T!TimeOf(b) = stamps[b]
             /\ b > current => T!TimeOf(b) = time + (b - current) * Average
  <2>1. CASE b <= current
    BY <1>0, <2>1 DEF T!TimeOf
  <2>2. CASE b > current
    <3>1. b - current \in Nat
      BY <1>0, <2>2
    <3>2. (b - current) * Average \in Nat
      BY <1>0, <3>1, NatProduct
    <3>3. T!TimeOf(b) = time + (b - current) * Average
      BY <1>0, <2>2 DEF T!TimeOf
    <3> QED
      BY <1>0, <2>2, <3>2, <3>3
  <2> QED
    BY <1>0, <2>1, <2>2
<1>4. ASSUME NEW s \in T!Sessions, NEW o \in Offsets
      PROVE  /\ T!Base(s) + o \in Nat
             /\ lines'[s][o].block = T!Base(s) + o /\ lines'[s][o].time = T!TimeOf(T!Base(s) + o)
             /\ [block |-> T!Base(s) + o, time |-> T!TimeOf(T!Base(s) + o)] \in [block : Nat, time : Nat]
  <2>1. T!Base(s) + o \in Nat
    BY <1>0, <1>2
  <2> QED
    BY <1>1, <1>3, <2>1
<1>5. lines' \in [T!Sessions -> [Offsets -> [block : Nat, time : Nat]]]
  BY <1>1, <1>4
<1>6. ASSUME NEW s \in T!Sessions, NEW o \in Offsets
      PROVE  \/ lines'[s][o].block <= current /\ lines'[s][o].time = stamps[lines'[s][o].block]
             \/ /\ lines'[s][o].block > current
                /\ lines'[s][o].time = time + (lines'[s][o].block - current) * Average
  <2>1. PICK b \in Nat : b = T!Base(s) + o
    BY <1>4
  <2>2. b <= current \/ b > current
    BY <1>0
  <2> QED
    BY <1>3, <1>4, <2>1, <2>2
<1> QED
  BY <1>5, <1>6

(* Every step of the tool and of the chain keeps TimeInv. *)
LEMMA TimeStep == TimeInv /\ [T!Next]_(T!vars) => TimeInv'
<1> SUFFICES ASSUME TimeInv, [T!Next]_(T!vars) PROVE TimeInv'
  OBVIOUS
<1>0. /\ T!head \in Nat /\ T!TypeOK /\ ReadInv
      /\ current \in 0 .. T!head
      /\ stamps \in [0 .. T!head -> Nat]
      /\ rounds \in [0 .. T!head -> [first : 0 .. T!head, length : Nat]]
      /\ time \in Nat
  BY DEF TimeInv, T!TypeOK
<1>1. ASSUME UNCHANGED <<stamps, rounds, forced>>
      PROVE  T!head' = T!head /\ StampsBounded' /\ (~forced' => RoundsRegular')
  BY <1>1 DEF T!head, TimeInv, StampsBounded, InTime, RoundsRegular
<1>2. CASE T!Block
  <2>1. /\ T!head' = T!head + 1 /\ stamps' \in [0 .. T!head + 1 -> Nat]
        /\ rounds' \in [0 .. T!head + 1 -> [first : 0 .. T!head + 1, length : Nat]]
        /\ \A n \in 0 .. T!head : stamps'[n] = stamps[n] /\ rounds'[n] = rounds[n]
        /\ StampsBounded' /\ forced' \in BOOLEAN
        /\ ~forced' => ~forced /\ RoundsRegular'
    BY <1>2, BlockTyped
  <2>2. UNCHANGED <<step, current, time, round, lines>>
    BY <1>2 DEF T!Block
  <2>3. current \in 0 .. T!head + 1 /\ 0 .. T!head \subseteq 0 .. T!head + 1 /\ T!head + 1 \in Nat
    BY <1>0
  <2>4. (T!TypeOK)'
    BY <1>0, <2>1, <2>2, <2>3 DEF T!TypeOK, T!NoLines
  <2>5. ReadInv'
    <3>1. step \in {"round", "print", "stopped"} => stamps'[current] <= time
      BY <1>0, <2>1 DEF ReadInv
    <3>2. ~forced' /\ step \in {"print", "stopped"} => \E n \in 0 .. T!head + 1 : round = rounds'[n]
      BY <1>0, <2>1, <2>3 DEF ReadInv
    <3>3. ASSUME NEW s \in DOMAIN lines, NEW o \in Offsets
          PROVE  \/ lines[s][o].block <= current /\ lines[s][o].time = stamps'[lines[s][o].block]
                 \/ /\ lines[s][o].block > current
                    /\ lines[s][o].time = time + (lines[s][o].block - current) * Average
      <4>1. step = "stopped"
        BY <1>0, <3>3 DEF ReadInv, T!NoLines
      <4>2. lines[s][o].block \in Nat
        BY <1>0, <3>3, <4>1 DEF ReadInv
      <4>3. CASE lines[s][o].block <= current /\ lines[s][o].time = stamps[lines[s][o].block]
        <5>1. lines[s][o].block \in 0 .. T!head
          <6>1. PICK b \in Nat : b = lines[s][o].block
            BY <4>2
          <6>2. b <= current
            BY <4>3, <6>1
          <6>3. b \in 0 .. T!head
            BY <1>0, <6>2
          <6> QED
            BY <6>1, <6>3
        <5> QED
          BY <2>1, <4>3, <5>1
      <4>4. CASE /\ lines[s][o].block > current
                 /\ lines[s][o].time = time + (lines[s][o].block - current) * Average
        BY <4>4
      <4> QED
        BY <1>0, <3>3, <4>3, <4>4 DEF ReadInv
    <3> QED
      BY <1>0, <2>1, <2>2, <3>1, <3>2, <3>3 DEF ReadInv, T!NoLines
  <2> QED
    BY <2>1, <2>3, <2>4, <2>5 DEF TimeInv
<1>3. CASE T!ReadNumber
  <2>1. /\ step = "number" /\ current' = T!head /\ step' = "time"
        /\ UNCHANGED <<stamps, rounds, forced>> /\ UNCHANGED <<time, round, lines>>
    BY <1>3 DEF T!ReadNumber
  <2>2. T!head \in 0 .. T!head /\ lines = T!NoLines
    BY <1>0, <2>1 DEF ReadInv
  <2>3. (T!TypeOK)'
    BY <1>0, <1>1, <2>1, <2>2 DEF T!TypeOK, T!NoLines
  <2>4. ReadInv'
    BY <2>1, <2>2 DEF ReadInv, T!NoLines
  <2> QED
    BY <1>0, <1>1, <2>1, <2>3, <2>4 DEF TimeInv
<1>4. CASE T!ReadTime
  <2>1. /\ step = "time" /\ time' = stamps[T!head] /\ step' = "round"
        /\ UNCHANGED <<stamps, rounds, forced>> /\ UNCHANGED <<current, round, lines>>
    BY <1>4 DEF T!ReadTime
  <2>2. T!head \in 0 .. T!head /\ lines = T!NoLines /\ current <= T!head
    BY <1>0, <2>1 DEF ReadInv
  <2>3. stamps[current] <= stamps[T!head] /\ stamps[T!head] \in Nat
    BY <1>0, <2>2 DEF TimeInv, StampsBounded
  <2>4. (T!TypeOK)'
    BY <1>0, <1>1, <2>1, <2>2, <2>3 DEF T!TypeOK, T!NoLines
  <2>5. ReadInv'
    BY <2>1, <2>2, <2>3 DEF ReadInv, T!NoLines
  <2> QED
    BY <1>0, <1>1, <2>1, <2>4, <2>5 DEF TimeInv
<1>5. CASE T!ReadRound
  <2>1. /\ step = "round" /\ round' = rounds[T!head] /\ step' = "print"
        /\ UNCHANGED <<stamps, rounds, forced>> /\ UNCHANGED <<current, time, lines>>
    BY <1>5 DEF T!ReadRound
  <2>2. T!head \in 0 .. T!head /\ lines = T!NoLines /\ stamps[current] <= time
    BY <1>0, <2>1 DEF ReadInv
  <2>3. /\ round' \in [first : Nat, length : Nat] /\ round'.first \in Nat
        /\ \E n \in 0 .. T!head : round' = rounds[n]
    <3>1. PICK r \in [first : 0 .. T!head, length : Nat] : r = rounds[T!head]
      BY <1>0, <2>2
    <3>2. r.first \in Nat /\ r \in [first : Nat, length : Nat]
      BY <1>0, <3>1
    <3> QED
      BY <2>1, <2>2, <3>1, <3>2
  <2>4. (T!TypeOK)'
    BY <1>0, <1>1, <2>1, <2>2, <2>3 DEF T!TypeOK, T!NoLines
  <2>5. ReadInv'
    BY <1>1, <2>1, <2>2, <2>3 DEF ReadInv, T!NoLines
  <2> QED
    BY <1>0, <1>1, <2>1, <2>4, <2>5 DEF TimeInv
<1>6. CASE T!PrintTimes
  <2>1. /\ step = "print" /\ step' = "stopped"
        /\ UNCHANGED <<stamps, rounds, forced>> /\ UNCHANGED <<current, time, round>>
    BY <1>6 DEF T!PrintTimes
  <2>2. /\ lines' \in [T!Sessions -> [Offsets -> [block : Nat, time : Nat]]]
        /\ \A s \in T!Sessions, o \in Offsets :
             \/ lines'[s][o].block <= current /\ lines'[s][o].time = stamps[lines'[s][o].block]
             \/ /\ lines'[s][o].block > current
                /\ lines'[s][o].time = time + (lines'[s][o].block - current) * Average
    BY <1>6, LinesPrinted
  <2>3. DOMAIN lines' = T!Sessions
    BY <2>2
  <2>4. (T!TypeOK)'
    BY <1>0, <1>1, <2>1, <2>2 DEF T!TypeOK
  <2>5. ReadInv'
    BY <1>0, <1>1, <2>1, <2>2, <2>3 DEF ReadInv
  <2> QED
    BY <1>0, <1>1, <2>1, <2>4, <2>5 DEF TimeInv
<1>7. CASE UNCHANGED T!vars
  <2>1. UNCHANGED <<stamps, rounds, forced>> /\ UNCHANGED <<step, current, time, round, lines>>
    BY <1>7 DEF T!vars
  <2>2. (T!TypeOK)'
    BY <1>0, <1>1, <2>1 DEF T!TypeOK, T!NoLines
  <2>3. ReadInv'
    BY <1>0, <1>1, <2>1 DEF ReadInv, T!NoLines
  <2> QED
    BY <1>0, <1>1, <2>1, <2>2, <2>3 DEF TimeInv
<1> QED
  BY <1>2, <1>3, <1>4, <1>5, <1>6, <1>7 DEF T!Next, T!Stopped

(* Two rounds on from a block, and one round on, while both are on record. *)
LEMMA TwoLengths ==
  ASSUME NEW h \in Nat, NEW f \in 0 .. h, NEW L \in Nat, f + 2 * L <= h
  PROVE  /\ f + L \in 0 .. h /\ f + L <= h
         /\ f + 2 * L = (f + L) + L /\ (f + L) + L <= h
<1>1. f \in Nat /\ f + 2 * L = (f + L) + L
  OBVIOUS
<1> QED
  BY <1>1

(* TimeInv is an invariant, and the lines say what the properties say of them. *)
LEMMA TimeInvariant == T!Spec => [](TimeInv /\ T!PredictionHolds /\ T!EstimateNotEarly)
<1>1. TimeInv => T!PredictionHolds
  <2> SUFFICES ASSUME TimeInv, step = "stopped", ~forced,
                      NEW s \in {"Next", "Two Sessions Ahead"}, T!Base(s) <= T!head
               PROVE  rounds[T!Base(s)].first = T!Base(s)
    BY DEF T!PredictionHolds
  <2> DEFINE h == T!head
  <2>0. h \in Nat /\ rounds \in [0 .. h -> [first : 0 .. h, length : Nat]] /\ Length \in Nat \ {0}
    BY TimeConstants DEF TimeInv, T!TypeOK
  <2>1. PICK n \in 0 .. h : round = rounds[n]
    BY DEF TimeInv, ReadInv
  <2>2. PICK f \in 0 .. h : f = rounds[n].first
    BY <2>0, <2>1
  <2>3. round.first = f /\ round.length = Length
    BY <2>1, <2>2 DEF TimeInv, RoundsRegular
  <2>4. CASE s = "Next"
    <3>1. T!Base(s) = f + Length
      BY <2>3, <2>4 DEF T!Base
    <3>2. rounds[f + Length].first = f + Length
      BY <2>1, <2>2, <3>1 DEF TimeInv, RoundsRegular
    <3> QED
      BY <3>1, <3>2
  <2>5. CASE s = "Two Sessions Ahead"
    <3>1. T!Base(s) = f + 2 * Length
      BY <2>3, <2>5 DEF T!Base
    <3>2. PICK L \in Nat : L = Length
      BY <2>0
    <3>3. f + 2 * L <= h
      BY <3>1, <3>2
    <3>4. /\ f + L \in 0 .. h /\ f + L <= h
          /\ f + 2 * L = (f + L) + L /\ (f + L) + L <= h
      BY <2>0, <3>3, TwoLengths
    <3>5. rounds[f + L].first = f + L
      BY <2>1, <2>2, <3>2, <3>4 DEF TimeInv, RoundsRegular
    <3>6. rounds[(f + L) + L].first = (f + L) + L
      BY <3>2, <3>4, <3>5 DEF TimeInv, RoundsRegular
    <3> QED
      BY <3>1, <3>2, <3>4, <3>6
  <2> QED
    BY <2>4, <2>5
<1>2. TimeInv => T!EstimateNotEarly
  <2> SUFFICES ASSUME TimeInv, InTime, NEW s \in DOMAIN lines, NEW o \in Offsets,
                      lines[s][o].block <= T!head
               PROVE  stamps[lines[s][o].block] <= lines[s][o].time
    BY DEF T!EstimateNotEarly, T!Printed, InTime
  <2>0. /\ T!head \in Nat /\ stamps \in [0 .. T!head -> Nat] /\ Average \in Nat
        /\ current \in 0 .. T!head /\ time \in Nat
    BY TimeConstants DEF TimeInv, T!TypeOK
  <2>1. step = "stopped"
    BY DEF TimeInv, ReadInv, T!NoLines
  <2>2. stamps[current] <= time /\ stamps[current] \in Nat
    BY <2>0, <2>1 DEF TimeInv, ReadInv
  <2>3. PICK b \in Nat : b = lines[s][o].block
    BY <2>1 DEF TimeInv, ReadInv
  <2>4. b \in 0 .. T!head /\ stamps[b] \in Nat
    BY <2>0, <2>3
  <2>5. CASE b <= current /\ lines[s][o].time = stamps[b]
    BY <2>3, <2>4, <2>5
  <2>6. CASE b > current /\ lines[s][o].time = time + (b - current) * Average
    <3>1. stamps[b] <= stamps[current] + (b - current) * Average
      BY <2>0, <2>4, <2>6 DEF TimeInv, StampsBounded
    <3>2. PICK x \in Int : x = (b - current) * Average
      BY <2>0
    <3>3. PICK p \in Nat, q \in Nat : p = stamps[b] /\ q = stamps[current]
      BY <2>2, <2>4
    <3>4. p <= q + x /\ q <= time
      BY <2>2, <3>1, <3>2, <3>3
    <3>5. p <= time + x
      BY <2>0, <3>4
    <3> QED
      BY <2>3, <2>6, <3>2, <3>3, <3>5
  <2> QED
    BY <2>3, <2>5, <2>6 DEF TimeInv, ReadInv
<1> QED
  BY <1>1, <1>2, TimeInitial, TimeStep, PTL DEF T!Spec

-----------------------------------------------------------------------------
(* SnapshotRead *)

(* What was read was there once, and of the entry that is read every key that
   stayed is read up to start_key. *)
SnapInv ==
  /\ S!TypeOK
  /\ \A e \in S!Entries :
       always[e] \subseteq content[e] /\ content[e] \subseteq ever[e] /\ read[e] \subseteq ever[e]
  /\ entry \in S!Entries => \A k \in always[entry] : k <= start_key => k \in read[entry]
  /\ S!SnapshotCovers

(* The first of the keys after a key: there are more, or they are all of them, and
   none is left out between two of them. *)
LEMMA FirstOfThem ==
  ASSUME NEW after \in SUBSET Nat, IsFiniteSet(after), NEW size \in Nat \ {0},
         NEW page, page = {k \in after : Cardinality({j \in after : j < k}) < size}
  PROVE  /\ IsFiniteSet(page)
         /\ Cardinality(page) < size => page = after
         /\ \A k \in after, m \in page : k <= m => k \in page
<1> DEFINE Before(k) == {j \in after : j < k}
<1>1. IsFiniteSet(page) /\ Cardinality(page) \in Nat
  BY FS_Subset, FS_CardinalityType
<1>2. ASSUME NEW k \in after PROVE IsFiniteSet(Before(k)) /\ Cardinality(Before(k)) \in Nat
  BY FS_Subset, FS_CardinalityType
<1>3. ASSUME Cardinality(page) < size, page # after PROVE FALSE
  <2>1. after \ page # {} /\ after \ page \in SUBSET Nat
    BY <1>3
  <2>2. PICK k \in after \ page : \A y \in after \ page : k <= y
    BY <2>1, LeastNumber
  <2>3. Before(k) \subseteq page
    <3> SUFFICES ASSUME NEW j \in after, j < k PROVE j \in page
      OBVIOUS
    <3>1. j \in Nat /\ k \in Nat /\ ~(k <= j)
      OBVIOUS
    <3> QED
      BY <2>2, <3>1
  <2>4. Cardinality(Before(k)) <= Cardinality(page)
    BY <1>1, <2>3, FS_Subset
  <2>5. Cardinality(Before(k)) < size
    <3>1. PICK b \in Nat, p \in Nat : b = Cardinality(Before(k)) /\ p = Cardinality(page)
      BY <1>1, <1>2
    <3>2. b <= p /\ p < size
      BY <1>3, <2>4, <3>1
    <3>3. b < size
      BY <3>2
    <3> QED
      BY <3>1, <3>3
  <2> QED
    BY <2>2, <2>5
<1>4. ASSUME NEW k \in after, NEW m \in page, k <= m PROVE k \in page
  <2>1. m \in after /\ Cardinality(Before(m)) < size
    OBVIOUS
  <2>2. Before(k) \subseteq Before(m)
    <3> SUFFICES ASSUME NEW j \in after, j < k PROVE j < m
      OBVIOUS
    <3>1. j \in Nat /\ k \in Nat /\ m \in Nat
      BY <2>1
    <3> QED
      BY <1>4, <3>1
  <2>3. Cardinality(Before(k)) <= Cardinality(Before(m))
    BY <1>2, <2>1, <2>2, FS_Subset
  <2>4. Cardinality(Before(k)) < size
    <3>1. PICK b \in Nat, p \in Nat : b = Cardinality(Before(k)) /\ p = Cardinality(Before(m))
      BY <1>2, <2>1
    <3>2. b <= p /\ p < size
      BY <2>1, <2>3, <3>1
    <3>3. b < size
      BY <3>2
    <3> QED
      BY <3>1, <3>3
  <2> QED
    BY <2>4
<1> QED
  BY <1>1, <1>3, <1>4

(* The counting operators of the module are the library's. *)
LEMMA SnapCount ==
  ASSUME NEW X
  PROVE  S!Cardinality(X) = Cardinality(X) /\ (S!IsFiniteSet(X) <=> IsFiniteSet(X))
BY DEF S!Cardinality, Cardinality, S!IsFiniteSet, IsFiniteSet

(* What the assumption says of the keys, and the three entries of the storage. *)
LEMMA SnapConstants ==
  /\ Keys \subseteq Nat \ {0} /\ IsFiniteSet(Keys) /\ PageSize \in Nat \ {0} /\ MaxMoves \in Nat
  /\ S!Entries = 1 .. 3 /\ S!Cardinality(S!Entries) = 3
<1>1. /\ Keys \subseteq Nat \ {0} /\ IsFiniteSet(Keys) /\ PageSize \in Nat \ {0} /\ MaxMoves \in Nat
  BY WatchAssumption, SnapCount DEF S!SnapshotReadAssumption
<1>2. S!Entries = 1 .. 3
  BY DEF S!Entries
<1>3. Cardinality(1 .. 3) = 3
  <2>1. ASSUME NEW a \in Int, NEW b \in Int, a = 1, b = 3 PROVE Cardinality(a .. b) = 3
    <3>1. Cardinality(a .. b) = IF a > b THEN 0 ELSE b - a + 1
      BY FS_Interval
    <3> QED
      BY <2>1, <3>1
  <2>2. 1 \in Int /\ 3 \in Int
    OBVIOUS
  <2> QED
    BY <2>1, <2>2, Zenon
<1> QED
  BY <1>1, <1>2, <1>3, SnapCount

(* One page of a map: keys of the map beyond start_key, none left out up to the
   last of them, and all of them when the page is not full. *)
LEMMA PageRead ==
  ASSUME SnapInv, entry \in S!Entries
  PROVE  /\ S!Page \subseteq content[entry] /\ S!Page \subseteq Keys
         /\ S!LastPage => \A k \in content[entry] : k > start_key => k \in S!Page
         /\ ~S!LastPage => /\ S!Max(S!Page) \in Keys
                           /\ \A k \in content[entry] :
                                k > start_key /\ k <= S!Max(S!Page) => k \in S!Page
<1> DEFINE after == {k \in content[entry] : k > start_key}
           page == {k \in after : Cardinality({j \in after : j < k}) < PageSize}
<1>1. content[entry] \subseteq Keys /\ Keys \subseteq Nat /\ IsFiniteSet(Keys) /\ PageSize \in Nat \ {0}
  BY SnapConstants DEF SnapInv, S!TypeOK
<1>2. S!Page = page
  BY SnapCount DEF S!Page
<1>3. after \in SUBSET Nat /\ IsFiniteSet(after)
  BY <1>1, FS_Subset
<1>4. /\ IsFiniteSet(page) /\ (Cardinality(page) < PageSize => page = after)
      /\ \A k \in after, m \in page : k <= m => k \in page
  <2> HIDE DEF after
  <2> QED
    BY <1>1, <1>3, FirstOfThem
<1>5. page \subseteq after
  OBVIOUS
<1>6. S!LastPage <=> Cardinality(page) < PageSize
  BY <1>2, SnapCount DEF S!LastPage
<1> HIDE DEF page
<1>7. ASSUME ~S!LastPage
      PROVE  /\ S!Max(page) \in page
  <2>1. page # {}
    BY <1>1, <1>6, <1>7, FS_EmptySet
  <2>2. page \in SUBSET Nat
    BY <1>3, <1>5
  <2>3. \E x \in page : \A y \in page : y <= x
    BY <1>4, <2>1, <2>2, GreatestNumber
  <2>4. \E x \in page : \A y \in page : x >= y
    <3>1. PICK x \in page : \A y \in page : y <= x
      BY <2>3
    <3>2. \A y \in page : x >= y
      BY <2>2, <3>1
    <3> QED
      BY <3>2
  <2> QED
    BY <2>4 DEF S!Max
<1>8. S!Page \subseteq content[entry] /\ S!Page \subseteq Keys
  BY <1>1, <1>2, <1>5
<1>9. S!LastPage => \A k \in content[entry] : k > start_key => k \in S!Page
  BY <1>2, <1>4, <1>6
<1>10. ~S!LastPage => /\ S!Max(S!Page) \in Keys
                      /\ \A k \in content[entry] :
                           k > start_key /\ k <= S!Max(S!Page) => k \in S!Page
  BY <1>2, <1>4, <1>7, <1>8
<1> QED
  BY <1>8, <1>9, <1>10

(* SnapInv holds before the first page is read. *)
LEMMA SnapInitial == S!Init => SnapInv
<1> SUFFICES ASSUME S!Init PROVE SnapInv
  OBVIOUS
<1>1. /\ content \in [S!Entries -> SUBSET Keys] /\ always = content /\ ever = content
      /\ moves = 0 /\ entry = 1 /\ start_key = 0 /\ paging = FALSE
      /\ read = [e \in S!Entries |-> {}]
  BY DEF S!Init
<1>2. read \in [S!Entries -> SUBSET Keys]
  BY <1>1
<1>3. S!TypeOK
  <2>1. 0 \in 0 .. MaxMoves /\ 1 \in 1 .. 3 + 1
    BY SnapConstants
  <2>2. /\ moves \in 0 .. MaxMoves /\ entry \in 1 .. S!Cardinality(S!Entries) + 1
        /\ start_key \in {0} \cup Keys
    BY <1>1, <2>1, SnapConstants
  <2> QED
    BY <1>1, <1>2, <2>2 DEF S!TypeOK
<1>4. \A e \in S!Entries : content[e] \subseteq Keys /\ read[e] = {}
  BY <1>1
<1>5. \A k \in Keys : ~(k <= 0)
  BY SnapConstants
<1>6. S!SnapshotCovers
  BY <1>1, SnapConstants DEF S!SnapshotCovers
<1> QED
  BY <1>1, <1>3, <1>4, <1>5, <1>6 DEF SnapInv

(* Every request and every change of the storage keeps SnapInv. *)
LEMMA SnapStep == SnapInv /\ [S!Next]_(S!vars) => SnapInv'
<1> SUFFICES ASSUME SnapInv, [S!Next]_(S!vars) PROVE SnapInv'
  OBVIOUS
<1>0. /\ content \in [S!Entries -> SUBSET Keys] /\ always \in [S!Entries -> SUBSET Keys]
      /\ ever \in [S!Entries -> SUBSET Keys] /\ read \in [S!Entries -> SUBSET Keys]
      /\ moves \in 0 .. MaxMoves /\ entry \in 1 .. 4 /\ start_key \in {0} \cup Keys
      /\ S!Entries = 1 .. 3 /\ Keys \subseteq Nat \ {0} /\ MaxMoves \in Nat
  BY SnapConstants DEF SnapInv, S!TypeOK
<1>1. paging \in BOOLEAN
  BY DEF SnapInv, S!TypeOK
<1>2. ASSUME content' \in [S!Entries -> SUBSET Keys], always' \in [S!Entries -> SUBSET Keys],
             ever' \in [S!Entries -> SUBSET Keys], read' \in [S!Entries -> SUBSET Keys],
             moves' \in 0 .. MaxMoves, entry' \in 1 .. 4, start_key' \in {0} \cup Keys,
             paging' \in BOOLEAN
      PROVE  S!TypeOK'
  BY <1>2, SnapConstants DEF S!TypeOK
<1>3. ASSUME NEW e \in S!Entries
      PROVE  always[e] \subseteq content[e] /\ content[e] \subseteq ever[e] /\ read[e] \subseteq ever[e]
  BY DEF SnapInv
<1>4. CASE S!Move
  <2>1. PICK e \in S!Entries, k \in Keys :
          content' = [content EXCEPT ![e] =
             IF <<"map", "ignored", "value">>[e] # "map" THEN {k}
             ELSE IF k \in @ THEN @ \ {k} ELSE @ \cup {k}]
    BY <1>4 DEF S!Move
  <2>2. /\ moves < MaxMoves /\ moves' = moves + 1
        /\ always' = [x \in S!Entries |-> always[x] \cap content'[x]]
        /\ ever' = [x \in S!Entries |-> ever[x] \cup content'[x]]
        /\ UNCHANGED <<entry, start_key, paging, read>>
    BY <1>4 DEF S!Move
  <2>3. content' \in [S!Entries -> SUBSET Keys]
    BY <1>0, <2>1
  <2>4. \A x \in S!Entries : content'[x] \subseteq Keys /\ always[x] \subseteq Keys /\ ever[x] \subseteq Keys
    BY <1>0, <2>3
  <2>5. always' \in [S!Entries -> SUBSET Keys] /\ ever' \in [S!Entries -> SUBSET Keys]
    BY <2>2, <2>4
  <2>6. \A x \in S!Entries : always'[x] = always[x] \cap content'[x] /\ ever'[x] = ever[x] \cup content'[x]
    BY <2>2
  <2>7. S!TypeOK'
    BY <1>0, <1>1, <1>2, <2>2, <2>3, <2>5
  <2>8. (\A x \in S!Entries :
           always[x] \subseteq content[x] /\ content[x] \subseteq ever[x] /\ read[x] \subseteq ever[x])'
    BY <1>3, <2>2, <2>6 DEF S!Entries
  <2>9. (entry \in S!Entries => \A x \in always[entry] : x <= start_key => x \in read[entry])'
    BY <2>2, <2>6 DEF SnapInv, S!Entries
  <2>10. S!SnapshotCovers'
    BY <2>2, <2>6 DEF SnapInv, S!SnapshotCovers, S!Entries
  <2> QED
    BY <2>7, <2>8, <2>9, <2>10 DEF SnapInv
<1>5. ASSUME UNCHANGED S!chain, entry \in S!Entries, read' \in [S!Entries -> SUBSET Keys],
             \A e \in S!Entries \ {entry} : read'[e] = read[e],
             read'[entry] \subseteq ever[entry], S!Turn,
             <<"map", "ignored", "value">>[entry] # "ignored" => always[entry] \subseteq read'[entry]
      PROVE  SnapInv'
  <2>1. /\ UNCHANGED <<content, always, ever, moves>>
        /\ entry' = entry + 1 /\ start_key' = 0 /\ paging' = FALSE
    BY <1>5 DEF S!chain, S!Turn
  <2>2. entry' \in 1 .. 4
    BY <1>0, <1>5, <2>1
  <2>3. S!TypeOK'
    BY <1>0, <1>2, <1>5, <2>1, <2>2
  <2>4. (\A x \in S!Entries :
           always[x] \subseteq content[x] /\ content[x] \subseteq ever[x] /\ read[x] \subseteq ever[x])'
    <3> SUFFICES ASSUME NEW x \in S!Entries
                 PROVE  always[x] \subseteq content[x] /\ content[x] \subseteq ever[x] /\ read'[x] \subseteq ever[x]
      BY <2>1 DEF S!Entries
    <3> QED
      BY <1>3, <1>5
  <2>5. (entry \in S!Entries => \A x \in always[entry] : x <= start_key => x \in read[entry])'
    <3> SUFFICES ASSUME entry' \in S!Entries, NEW x \in always[entry'], x <= 0 PROVE FALSE
      BY <2>1 DEF S!Entries
    <3>1. x \in Nat \ {0}
      BY <1>0
    <3> QED
      BY <3>1
  <2>6. S!SnapshotCovers'
    <3> SUFFICES ASSUME NEW e \in S!Entries, e < entry + 1, <<"map", "ignored", "value">>[e] # "ignored"
                 PROVE  always[e] \subseteq read'[e] /\ read'[e] \subseteq ever[e]
      BY <2>1 DEF S!SnapshotCovers, S!Entries
    <3>1. CASE e = entry
      BY <1>5, <3>1
    <3>2. CASE e # entry
      <4>1. e < entry
        BY <1>0, <3>2
      <4> QED
        BY <1>5, <3>2, <4>1 DEF SnapInv, S!SnapshotCovers
    <3> QED
      BY <3>1, <3>2
  <2> QED
    BY <2>3, <2>4, <2>5, <2>6 DEF SnapInv
<1>6. CASE S!Ignore
  BY <1>0, <1>3, <1>5, <1>6 DEF S!Ignore
<1>7. CASE S!QueryValue
  <2>1. /\ entry \in S!Entries /\ read' = [read EXCEPT ![entry] = content[entry]]
        /\ S!Turn /\ UNCHANGED S!chain
    BY <1>7 DEF S!QueryValue
  <2>2. /\ read' \in [S!Entries -> SUBSET Keys] /\ read'[entry] = content[entry]
        /\ \A e \in S!Entries \ {entry} : read'[e] = read[e]
    BY <1>0, <2>1
  <2>3. read'[entry] \subseteq ever[entry] /\ always[entry] \subseteq read'[entry]
    BY <1>3, <2>1, <2>2
  <2> QED
    BY <1>5, <2>1, <2>2, <2>3
<1>8. CASE S!QueryRefused
  <2>1. paging' = TRUE /\ UNCHANGED <<content, always, ever, moves, entry, start_key, read>>
    BY <1>8 DEF S!QueryRefused, S!chain
  <2>2. S!TypeOK'
    BY <1>0, <1>2, <2>1
  <2> QED
    BY <2>1, <2>2 DEF SnapInv, S!SnapshotCovers, S!Entries
<1>9. CASE S!QueryPage
  <2>1. /\ entry \in S!Entries /\ read' = [read EXCEPT ![entry] = @ \cup S!Page]
        /\ UNCHANGED S!chain
        /\ IF S!LastPage THEN S!Turn
           ELSE start_key' = S!Max(S!Page) /\ UNCHANGED <<entry, paging>>
    BY <1>9 DEF S!QueryPage
  <2>2. /\ S!Page \subseteq content[entry] /\ S!Page \subseteq Keys
        /\ S!LastPage => \A k \in content[entry] : k > start_key => k \in S!Page
        /\ ~S!LastPage => /\ S!Max(S!Page) \in Keys
                          /\ \A k \in content[entry] :
                               k > start_key /\ k <= S!Max(S!Page) => k \in S!Page
    BY <2>1, PageRead
  <2>3. /\ read' \in [S!Entries -> SUBSET Keys] /\ read'[entry] = read[entry] \cup S!Page
        /\ \A e \in S!Entries \ {entry} : read'[e] = read[e]
    BY <1>0, <2>1, <2>2
  <2>4. read'[entry] \subseteq ever[entry] /\ always[entry] \subseteq content[entry]
    BY <1>3, <2>1, <2>2, <2>3
  <2>5. \A k \in always[entry] : k <= start_key => k \in read[entry]
    BY <2>1 DEF SnapInv
  <2>6. \A k \in always[entry] : k \in Nat /\ start_key \in Nat /\ (k <= start_key \/ k > start_key)
    BY <1>0, <2>1
  <2>7. CASE S!LastPage
    <3>1. always[entry] \subseteq read'[entry]
      BY <2>2, <2>3, <2>4, <2>5, <2>6, <2>7
    <3> QED
      BY <1>5, <2>1, <2>3, <2>4, <2>7, <3>1
  <2>8. CASE ~S!LastPage
    <3>1. /\ start_key' = S!Max(S!Page) /\ start_key' \in Keys
          /\ UNCHANGED <<content, always, ever, moves, entry, paging>>
      BY <2>1, <2>2, <2>8 DEF S!chain
    <3>2. S!TypeOK'
      BY <1>0, <1>1, <1>2, <2>3, <3>1
    <3>3. \A k \in always[entry] : k <= start_key' => k \in read'[entry]
      BY <2>2, <2>3, <2>4, <2>5, <2>6, <2>8, <3>1
    <3>4. (\A x \in S!Entries :
             always[x] \subseteq content[x] /\ content[x] \subseteq ever[x] /\ read[x] \subseteq ever[x])'
      <4> SUFFICES ASSUME NEW x \in S!Entries
                   PROVE  always[x] \subseteq content[x] /\ content[x] \subseteq ever[x] /\ read'[x] \subseteq ever[x]
        BY <3>1 DEF S!Entries
      <4> QED
        BY <1>3, <2>3, <2>4
    <3>5. S!SnapshotCovers'
      <4> SUFFICES ASSUME NEW e \in S!Entries, e < entry, <<"map", "ignored", "value">>[e] # "ignored"
                   PROVE  always[e] \subseteq read'[e] /\ read'[e] \subseteq ever[e]
        BY <3>1 DEF S!SnapshotCovers, S!Entries
      <4>1. e # entry
        BY <1>0
      <4> QED
        BY <2>3, <4>1 DEF SnapInv, S!SnapshotCovers
    <3> QED
      BY <3>1, <3>2, <3>3, <3>4, <3>5 DEF SnapInv, S!Entries
  <2> QED
    BY <2>7, <2>8
<1>10. CASE UNCHANGED S!vars
  <2>1. UNCHANGED <<content, always, ever, moves, entry, start_key, paging, read>>
    BY <1>10 DEF S!vars, S!chain
  <2>2. S!TypeOK'
    BY <1>0, <1>1, <1>2, <2>1
  <2> QED
    BY <2>1, <2>2 DEF SnapInv, S!SnapshotCovers, S!Entries
<1> QED
  BY <1>4, <1>6, <1>7, <1>8, <1>9, <1>10 DEF S!Next, S!Written

(* SnapInv is an invariant of the snapshot, moves of keys included. *)
LEMMA SnapInvariant == S!Spec => []SnapInv
BY SnapInitial, SnapStep, PTL DEF S!Spec

-----------------------------------------------------------------------------
(* VersionSearch *)

(* What the search still looks at, with the block found so far, in a chain of n
   blocks. *)
Window(n) == [low : 1 .. n + 1, high : 0 .. n, found : 0 .. n]

(* What find_first_occurrence makes of s, when f is what it makes of shorter
   windows. *)
Narrow(f, version, s) ==
  LET mid == (s.low + s.high) \div 2 IN
  IF s.low >= s.high THEN s.found
  ELSE IF versions[mid] = version THEN f[[s EXCEPT !.high = mid - 1, !.found = mid]]
  ELSE IF versions[mid] < version THEN f[[s EXCEPT !.low = mid + 1]]
  ELSE f[[s EXCEPT !.high = mid - 1]]

(* The equations of the search. *)
Searches(f, version, n) == f = [s \in Window(n) |-> Narrow(f, version, s)]

(* The block in the middle of a window that has two is in the chain, and what
   is left on both sides is a window, and shorter. *)
LEMMA MidOfWindow ==
  ASSUME NEW n \in Nat, NEW s \in Window(n), s.low < s.high
  PROVE  LET mid == (s.low + s.high) \div 2
             left == [s EXCEPT !.high = mid - 1]
             hit == [s EXCEPT !.high = mid - 1, !.found = mid]
             right == [s EXCEPT !.low = mid + 1]
         IN  /\ mid \in 1 .. n /\ s.low <= mid /\ mid < s.high
             /\ hit \in Window(n) /\ hit.low = s.low /\ hit.high = mid - 1 /\ hit.found = mid
             /\ right \in Window(n) /\ right.low = mid + 1 /\ right.high = s.high /\ right.found = s.found
             /\ left \in Window(n) /\ left.low = s.low /\ left.high = mid - 1 /\ left.found = s.found
<1> DEFINE mid == (s.low + s.high) \div 2
<1>1. s.low \in 1 .. n + 1 /\ s.high \in 0 .. n /\ s.found \in 0 .. n
  BY DEF Window
<1>2. mid \in 1 .. n /\ s.low <= mid /\ mid < s.high
  BY <1>1
<1>3. mid - 1 \in 0 .. n /\ mid + 1 \in 1 .. n + 1 /\ mid \in 0 .. n
  BY <1>2
<1> HIDE DEF mid
<1>4. /\ [s EXCEPT !.high = mid - 1, !.found = mid] \in Window(n)
      /\ [s EXCEPT !.high = mid - 1, !.found = mid].low = s.low
      /\ [s EXCEPT !.high = mid - 1, !.found = mid].high = mid - 1
      /\ [s EXCEPT !.high = mid - 1, !.found = mid].found = mid
  BY <1>3 DEF Window
<1>5. /\ [s EXCEPT !.low = mid + 1] \in Window(n)
      /\ [s EXCEPT !.low = mid + 1].low = mid + 1
      /\ [s EXCEPT !.low = mid + 1].high = s.high
      /\ [s EXCEPT !.low = mid + 1].found = s.found
  BY <1>3 DEF Window
<1>6. /\ [s EXCEPT !.high = mid - 1] \in Window(n)
      /\ [s EXCEPT !.high = mid - 1].low = s.low
      /\ [s EXCEPT !.high = mid - 1].high = mid - 1
      /\ [s EXCEPT !.high = mid - 1].found = s.found
  BY <1>3 DEF Window
<1> QED
  BY <1>2, <1>4, <1>5, <1>6 DEF mid

(* What is made of a window depends on shorter windows only. *)
LEMMA NarrowsDown ==
  ASSUME NEW version, NEW n \in Nat, NEW s \in Window(n), NEW f, NEW g,
         \A r \in Window(n) : r.high - r.low < s.high - s.low => f[r] = g[r]
  PROVE  Narrow(f, version, s) = Narrow(g, version, s)
<1> DEFINE mid == (s.low + s.high) \div 2
           left == [s EXCEPT !.high = mid - 1]
           hit == [s EXCEPT !.high = mid - 1, !.found = mid]
           right == [s EXCEPT !.low = mid + 1]
<1>1. s.low \in Int /\ s.high \in Int
  BY DEF Window
<1>2. CASE s.low < s.high
  <2>1. /\ mid \in 1 .. n /\ s.low <= mid /\ mid < s.high
        /\ left \in Window(n) /\ left.low = s.low /\ left.high = mid - 1
        /\ hit \in Window(n) /\ hit.low = s.low /\ hit.high = mid - 1
        /\ right \in Window(n) /\ right.low = mid + 1 /\ right.high = s.high
    BY <1>2, MidOfWindow
  <2>2. mid \in Int
    BY <2>1
  <2> HIDE DEF mid, left, hit, right
  <2>3. f[left] = g[left] /\ f[hit] = g[hit] /\ f[right] = g[right]
    BY <1>1, <2>1, <2>2
  <2> QED
    BY <2>3 DEF Narrow, mid, left, hit, right
<1>3. CASE s.low >= s.high
  BY <1>3 DEF Narrow
<1> QED
  BY <1>1, <1>2, <1>3

(* The equations have a solution: by induction on the length of the window. *)
LEMMA SearchExists ==
  ASSUME NEW version, NEW n \in Nat
  PROVE  \E f : Searches(f, version, n)
<1> DEFINE Upto(f, k) == \A s \in Window(n) : s.high - s.low < k => f[s] = Narrow(f, version, s)
           Bad == {k \in Nat : ~ \E f : Upto(f, k)}
<1>0. \A s \in Window(n) : s.low \in Nat /\ s.high \in Nat /\ s.low >= 1 /\ s.high <= n
  BY DEF Window
<1>1. 0 \notin Bad
  <2> DEFINE f == [s \in Window(n) |-> s.found]
  <2>1. Upto(f, 0)
    <3>1. SUFFICES ASSUME NEW s \in Window(n), s.high - s.low < 0
                   PROVE  f[s] = Narrow(f, version, s)
      OBVIOUS
    <3>2. s.low >= s.high
      BY <1>0, <3>1
    <3> QED
      BY <3>2 DEF Narrow
  <2> QED
    BY <2>1
<1>2. ASSUME NEW k \in Nat, k \notin Bad PROVE k + 1 \notin Bad
  <2>1. PICK f : Upto(f, k)
    BY <1>2
  <2> DEFINE g == [s \in Window(n) |-> IF s.high - s.low < k THEN f[s] ELSE Narrow(f, version, s)]
  <2>2. \A s \in Window(n) : s.high - s.low < k => g[s] = f[s]
    OBVIOUS
  <2>3. \A s \in Window(n) : g[s] = Narrow(f, version, s)
    BY <2>1
  <2> HIDE DEF g
  <2>4. ASSUME NEW s \in Window(n), s.high - s.low < k + 1
        PROVE  g[s] = Narrow(g, version, s)
    <3>1. \A r \in Window(n) : r.high - r.low < s.high - s.low => f[r] = g[r]
      <4>1. SUFFICES ASSUME NEW r \in Window(n), r.high - r.low < s.high - s.low
                     PROVE  f[r] = g[r]
        OBVIOUS
      <4>2. r.high - r.low < k
        BY <1>0, <2>4, <4>1
      <4> QED
        BY <2>2, <4>2
    <3>2. Narrow(f, version, s) = Narrow(g, version, s)
      BY <3>1, NarrowsDown
    <3> QED
      BY <2>3, <3>2
  <2>5. Upto(g, k + 1)
    BY <2>4
  <2> QED
    BY <2>5
<1>3. Bad = {}
  <2>1. SUFFICES ASSUME Bad # {} PROVE FALSE
    OBVIOUS
  <2>2. Bad \in SUBSET Nat
    OBVIOUS
  <2> HIDE DEF Bad
  <2>3. PICK k \in Bad : \A j \in Bad : k <= j
    BY <2>1, <2>2, LeastNumber
  <2>4. k \in Nat /\ k # 0
    BY <1>1, <2>2
  <2>5. k - 1 \in Nat /\ k - 1 \notin Bad
    BY <2>2, <2>3, <2>4
  <2> QED
    BY <1>2, <2>4, <2>5
<1>4. PICK f : Upto(f, n + 1)
  BY <1>3
<1> DEFINE g == [s \in Window(n) |-> f[s]]
<1>5. \A s \in Window(n) : g[s] = f[s]
  OBVIOUS
<1>6. \A s \in Window(n) : g[s] = Narrow(f, version, s)
  BY <1>0, <1>4
<1> HIDE DEF g
<1>7. ASSUME NEW s \in Window(n) PROVE g[s] = Narrow(g, version, s)
  BY <1>5, <1>6, NarrowsDown
<1>8. g = [s \in Window(n) |-> g[s]]
  BY DEF g
<1>9. g = [s \in Window(n) |-> Narrow(g, version, s)]
  BY <1>7, <1>8
<1> QED
  BY <1>9 DEF Searches

(* The chain has n blocks, and no block has an older version than one before. *)
Ascending(n) ==
  /\ versions \in [1 .. n -> 1 .. MaxVersion]
  /\ \A a, b \in 1 .. n : a <= b => versions[a] <= versions[b]

(* The loop invariant: blocks below the window are older; above it they are newer,
   or the first of them is the one that was found. *)
Left(s, version, n) ==
  /\ s.low <= s.high + 1
  /\ \A b \in 1 .. n : b < s.low => versions[b] < version
  /\ IF s.found = 0 THEN \A b \in 1 .. n : b > s.high => versions[b] > version
     ELSE s.found = s.high + 1 /\ versions[s.found] = version

(* What the search reports of a version. *)
Result(r, version, n) ==
  /\ r \in 0 .. n
  /\ IF r = 0 THEN \A a, b \in 1 .. n : versions[a] = version /\ versions[b] = version => a = b
     ELSE \E first \in 1 .. n : /\ versions[first] = version
                                /\ r + 1 - first \in {1, 2}
                                /\ \A b \in 1 .. n : versions[b] = version => first <= b

(* Every turn of the loop keeps the loop invariant. *)
LEMMA LoopKeeps ==
  ASSUME NEW n \in Nat, MaxVersion \in Nat, Ascending(n), NEW version \in 1 .. MaxVersion,
         NEW s \in Window(n), s.low < s.high, Left(s, version, n)
  PROVE  LET mid == (s.low + s.high) \div 2 IN
         IF versions[mid] = version
         THEN Left([s EXCEPT !.high = mid - 1, !.found = mid], version, n)
         ELSE IF versions[mid] < version
         THEN Left([s EXCEPT !.low = mid + 1], version, n)
         ELSE Left([s EXCEPT !.high = mid - 1], version, n)
<1> DEFINE mid == (s.low + s.high) \div 2
           left == [s EXCEPT !.high = mid - 1]
           hit == [s EXCEPT !.high = mid - 1, !.found = mid]
           right == [s EXCEPT !.low = mid + 1]
<1>1. s.low \in 1 .. n + 1 /\ s.high \in 0 .. n /\ s.found \in 0 .. n
  BY DEF Window
<1>2. /\ mid \in 1 .. n /\ s.low <= mid /\ mid < s.high
      /\ left.low = s.low /\ left.high = mid - 1 /\ left.found = s.found
      /\ hit.low = s.low /\ hit.high = mid - 1 /\ hit.found = mid
      /\ right.low = mid + 1 /\ right.high = s.high /\ right.found = s.found
  BY MidOfWindow
<1>3. \A b \in 1 .. n : versions[b] \in Int
  BY DEF Ascending
<1>4. version \in Int /\ mid \in Int /\ mid # 0
  BY <1>2
<1> HIDE DEF mid, left, hit, right
<1>5. CASE versions[mid] = version
  <2>1. Left(hit, version, n)
    BY <1>1, <1>2, <1>4, <1>5 DEF Left
  <2> QED
    BY <1>5, <2>1 DEF mid, hit
<1>6. CASE versions[mid] < version
  <2>1. \A b \in 1 .. n : b < mid + 1 => versions[b] < version
    <3>1. \A b \in 1 .. n : b <= mid => versions[b] <= versions[mid]
      BY <1>2 DEF Ascending
    <3> QED
      BY <1>2, <1>3, <1>4, <1>6, <3>1
  <2>2. Left(right, version, n)
    BY <1>1, <1>2, <1>4, <2>1 DEF Left
  <2> QED
    BY <1>3, <1>4, <1>2, <1>6, <2>2 DEF mid, right
<1>7. CASE versions[mid] > version
  <2>1. \A b \in 1 .. n : b > mid - 1 => versions[b] > version
    <3>1. \A b \in 1 .. n : mid <= b => versions[mid] <= versions[b]
      BY <1>2 DEF Ascending
    <3> QED
      BY <1>2, <1>3, <1>4, <1>7, <3>1
  <2>2. s.found = 0
    BY <1>1, <1>2, <1>4, <2>1 DEF Left
  <2>3. Left(left, version, n)
    BY <1>1, <1>2, <1>4, <2>1, <2>2 DEF Left
  <2>4. ~(versions[mid] = version) /\ ~(versions[mid] < version)
    BY <1>2, <1>3, <1>4, <1>7
  <2> QED
    BY <2>3, <2>4 DEF mid, left
<1> QED
  BY <1>2, <1>3, <1>4, <1>5, <1>6, <1>7

(* When both ends have met, the found block is right. *)
LEMMA LoopEnds ==
  ASSUME NEW n \in Nat, MaxVersion \in Nat, Ascending(n), NEW version \in 1 .. MaxVersion,
         NEW s \in Window(n), s.low >= s.high, Left(s, version, n)
  PROVE  Result(s.found, version, n)
<1>1. s.low \in 1 .. n + 1 /\ s.high \in 0 .. n /\ s.found \in 0 .. n /\ s.low <= s.high + 1
  BY DEF Window, Left
<1>2. \A b \in 1 .. n : versions[b] \in Int
  BY DEF Ascending
<1>3. version \in Int
  OBVIOUS
<1>4. \A b \in 1 .. n : versions[b] = version => b >= s.low
  BY <1>1, <1>2, <1>3 DEF Left
<1>5. CASE s.found = 0
  <2>1. \A b \in 1 .. n : versions[b] = version => b <= s.high
    BY <1>1, <1>2, <1>3, <1>5 DEF Left
  <2>2. \A a, b \in 1 .. n : versions[a] = version /\ versions[b] = version => a = b
    BY <1>1, <1>4, <2>1
  <2> QED
    BY <1>5, <2>2 DEF Result
<1>6. CASE s.found # 0
  <2>1. s.found \in 1 .. n /\ s.found = s.high + 1 /\ versions[s.found] = version
    BY <1>1, <1>6 DEF Left
  <2>2. PICK first \in {b \in 1 .. n : versions[b] = version} :
          \A b \in {b \in 1 .. n : versions[b] = version} : first <= b
    <3> DEFINE Them == {b \in 1 .. n : versions[b] = version}
    <3>1. Them \in SUBSET Nat /\ Them # {}
      BY <2>1
    <3> HIDE DEF Them
    <3>2. \E x \in Them : \A y \in Them : x <= y
      BY <3>1, LeastNumber
    <3> QED
      BY <3>2 DEF Them
  <2>3. first >= s.low /\ first <= s.found /\ first \in 1 .. n
    BY <1>4, <2>1, <2>2
  <2>4. s.found + 1 - first \in {1, 2}
    BY <1>1, <2>1, <2>3
  <2> QED
    <3>1. s.found \in 0 .. n /\ ~(s.found = 0)
      BY <1>1, <1>6
    <3> QED
      BY <2>2, <2>4, <3>1 DEF Result
<1> QED
  BY <1>5, <1>6

(* Whatever solves the equations reports the right block: by induction on the length
   of the window. *)
LEMMA SearchFinds ==
  ASSUME NEW n \in Nat, MaxVersion \in Nat, Ascending(n), NEW version \in 1 .. MaxVersion,
         NEW f, Searches(f, version, n), NEW start \in Window(n), Left(start, version, n)
  PROVE  Result(f[start], version, n)
<1> DEFINE Wrong(s) == Left(s, version, n) /\ ~Result(f[s], version, n)
           Bad == {k \in Nat : \E s \in Window(n) : Wrong(s) /\ k = s.high + 1 - s.low}
<1>0. \A s \in Window(n) : s.low \in Nat /\ s.high \in Nat
  BY DEF Window
<1>1. \A s \in Window(n) : f[s] = Narrow(f, version, s)
  BY DEF Searches
<1>2. Bad = {}
  <2>1. SUFFICES ASSUME Bad # {} PROVE FALSE
    OBVIOUS
  <2>2. PICK k \in Bad : \A j \in Bad : k <= j
    <3>1. Bad \in SUBSET Nat
      OBVIOUS
    <3> HIDE DEF Bad
    <3> QED
      BY <2>1, <3>1, LeastNumber
  <2>3. PICK s \in Window(n) : Wrong(s) /\ k = s.high + 1 - s.low
    OBVIOUS
  <2>4. ASSUME NEW r \in Window(n), Left(r, version, n), r.high - r.low < s.high - s.low
        PROVE  Result(f[r], version, n)
    <3>1. r.high + 1 - r.low \in Nat
      BY <1>0, <2>4 DEF Left
    <3>2. r.high + 1 - r.low < k
      BY <1>0, <2>3, <2>4
    <3>3. k \in Nat
      OBVIOUS
    <3>4. r.high + 1 - r.low \notin Bad
      <4> HIDE DEF Bad
      <4> QED
        BY <2>2, <3>1, <3>2, <3>3
    <3> QED
      BY <2>4, <3>1, <3>4
  <2> HIDE DEF Bad
  <2>5. CASE s.low >= s.high
    <3>1. f[s] = s.found
      BY <1>1, <2>5 DEF Narrow
    <3> QED
      BY <2>3, <2>5, <3>1, LoopEnds
  <2>6. CASE s.low < s.high
    <3> DEFINE mid == (s.low + s.high) \div 2
               left == [s EXCEPT !.high = mid - 1]
               hit == [s EXCEPT !.high = mid - 1, !.found = mid]
               right == [s EXCEPT !.low = mid + 1]
    <3>1. /\ mid \in 1 .. n /\ s.low <= mid /\ mid < s.high
          /\ left \in Window(n) /\ left.low = s.low /\ left.high = mid - 1
          /\ hit \in Window(n) /\ hit.low = s.low /\ hit.high = mid - 1
          /\ right \in Window(n) /\ right.low = mid + 1 /\ right.high = s.high
      BY <2>6, MidOfWindow
    <3>2. IF versions[mid] = version THEN Left(hit, version, n)
          ELSE IF versions[mid] < version THEN Left(right, version, n)
          ELSE Left(left, version, n)
      BY <2>3, <2>6, LoopKeeps
    <3>3. f[s] = IF versions[mid] = version THEN f[hit]
                 ELSE IF versions[mid] < version THEN f[right] ELSE f[left]
      <4>1. ~(s.low >= s.high)
        BY <1>0, <2>6
      <4> QED
        BY <1>1, <4>1 DEF Narrow
    <3>4. mid \in Int /\ s.low \in Int /\ s.high \in Int
      BY <1>0, <3>1
    <3> HIDE DEF mid, left, hit, right
    <3>5. /\ left.high - left.low < s.high - s.low
          /\ hit.high - hit.low < s.high - s.low
          /\ right.high - right.low < s.high - s.low
      BY <3>1, <3>4
    <3>6. Result(f[s], version, n)
      BY <2>4, <3>1, <3>2, <3>3, <3>5
    <3> QED
      BY <2>3, <3>6
  <2> QED
    BY <1>0, <2>5, <2>6
<1>3. start.high + 1 - start.low \in Nat
  BY <1>0 DEF Left
<1> QED
  BY <1>2, <1>3

(* An ascending chain is searched rightly. *)
LEMMA SearchIsNear ==
  ASSUME NEW n \in Nat, n >= 1, MaxVersion \in Nat, Ascending(n) PROVE V!NearFirst
<1>1. V!Len(versions) = n /\ DOMAIN versions = 1 .. n
  <2>1. versions \in V!Seq(1 .. MaxVersion) /\ DOMAIN versions = 1 .. n
    BY DEF Ascending
  <2> QED
    BY <2>1
<1>2. SUFFICES ASSUME NEW version \in 1 .. MaxVersion,
                      NEW found, found = V!find_first_occurrence(version)
               PROVE  IF found = 1 THEN \A a, b \in V!Of(version) : a = b
                      ELSE \E first \in V!Of(version) :
                             found - first \in {1, 2} /\ \A b \in V!Of(version) : first <= b
  BY DEF V!NearFirst
<1> DEFINE start == [low |-> 1, high |-> n, found |-> 0]
           f == CHOOSE f : Searches(f, version, n)
<1>3. start \in Window(n)
  BY DEF Window
<1>4. Left(start, version, n)
  BY DEF Left
<1>5. Searches(f, version, n)
  BY SearchExists
<1>6. found = f[start] + 1
  BY <1>1, <1>2 DEF V!find_first_occurrence, Searches, Window, Narrow
<1>7. V!Of(version) = {b \in 1 .. n : versions[b] = version}
  BY <1>1 DEF V!Of
<1> HIDE DEF f, start
<1>8. Result(f[start], version, n)
  BY <1>3, <1>4, <1>5, SearchFinds
<1>9. PICK r \in 0 .. n : r = f[start]
  BY <1>8 DEF Result
<1>10. found = r + 1 /\ (found = 1 <=> r = 0) /\ Result(r, version, n)
  BY <1>6, <1>8, <1>9
<1>11. CASE r = 0
  BY <1>7, <1>10, <1>11 DEF Result
<1>12. CASE r # 0
  <2>1. PICK first \in 1 .. n : /\ versions[first] = version
                                /\ r + 1 - first \in {1, 2}
                                /\ \A b \in 1 .. n : versions[b] = version => first <= b
    BY <1>10, <1>12 DEF Result
  <2>2. first \in V!Of(version) /\ \A b \in V!Of(version) : first <= b
    BY <1>7, <2>1
  <2>3. found - first \in {1, 2} /\ found # 1
    BY <1>10, <1>12, <2>1
  <2> QED
    BY <2>2, <2>3
<1> QED
  BY <1>11, <1>12

(* The versions of the blocks 1 .. n ascend, in reach of MaxVersion. *)
VersionInv == \E n \in Nat : n >= 1 /\ Ascending(n)

(* A function on 1 .. n is a sequence of length n, and one value more makes it one
   on 1 .. n + 1. *)
LEMMA GrownByOne ==
  ASSUME NEW W, NEW n \in Nat, NEW f \in [1 .. n -> W], NEW w \in W
  PROVE  /\ V!Len(f) = n
         /\ V!Append(f, w) \in [1 .. n + 1 -> W]
<1>1. f \in V!Seq(W)
  OBVIOUS
<1>2. V!Len(f) = n
  BY <1>1
<1>3. V!Append(f, w) \in V!Seq(W) /\ V!Len(V!Append(f, w)) = n + 1
  BY <1>1, <1>2
<1>4. \A s \in V!Seq(W) : s \in [1 .. V!Len(s) -> W]
  OBVIOUS
<1> QED
  BY <1>2, <1>3, <1>4

(* A chain starts with its first block, and every block keeps the version of the one
   before or raises it. *)
LEMMA VersionInvariant == V!Spec => []VersionInv
<1>0. MaxVersion \in Nat
  BY WatchAssumption DEF V!VersionSearchAssumption
<1>1. V!Init => VersionInv
  <2>1. SUFFICES ASSUME NEW v \in 1 .. MaxVersion, versions = <<v>> PROVE VersionInv
    BY DEF V!Init
  <2>2. <<v>> \in [1 .. 1 -> 1 .. MaxVersion]
    OBVIOUS
  <2>3. \A a, b \in 1 .. 1 : <<v>>[a] <= <<v>>[b]
    BY <1>0
  <2> QED
    BY <2>1, <2>2, <2>3 DEF VersionInv, Ascending
<1>2. ASSUME VersionInv, [V!Next]_versions PROVE VersionInv'
  <2>0. PICK n \in Nat : n >= 1 /\ Ascending(n)
    BY <1>2 DEF VersionInv
  <2>1. CASE V!Produce
    <3>0. versions \in [1 .. n -> 1 .. MaxVersion] /\ n \in 1 .. n
      BY <2>0 DEF Ascending
    <3>1. PICK v \in versions[V!Len(versions)] .. MaxVersion : versions' = V!Append(versions, v)
      BY <2>1 DEF V!Produce
    <3>2. \A a \in 1 .. n : versions[a] \in 1 .. MaxVersion /\ versions[a] <= versions[n]
      BY <2>0, <3>0 DEF Ascending
    <3>3. V!Len(versions) = n
      BY <3>0, <3>2, GrownByOne
    <3>4. v \in 1 .. MaxVersion /\ versions[n] <= v
      BY <1>0, <3>0, <3>1, <3>2, <3>3
    <3>5. /\ versions' \in [1 .. n + 1 -> 1 .. MaxVersion] /\ versions'[n + 1] = v
          /\ \A a \in 1 .. n : versions'[a] = versions[a]
      <4> DEFINE longer == V!Append(versions, v)
      <4>1. /\ longer \in [1 .. n + 1 -> 1 .. MaxVersion] /\ longer[n + 1] = v
            /\ \A a \in 1 .. n : longer[a] = versions[a]
        <5> DEFINE W == 1 .. MaxVersion
        <5>1. versions \in [1 .. n -> W] /\ v \in W
          BY <3>0, <3>4
        <5> HIDE DEF W
        <5>2. versions \in V!Seq(W) /\ V!Len(versions) = n
          BY <5>1, <3>3
        <5>3. V!Append(versions, v) \in [1 .. n + 1 -> W]
          BY <5>1, GrownByOne
        <5>4. V!Append(versions, v)[n + 1] = v
          BY <5>1, <5>2
        <5>5. \A a \in 1 .. n : V!Append(versions, v)[a] = versions[a]
          BY <5>1, <5>2
        <5> QED
          BY <5>3, <5>4, <5>5 DEF W
      <4> HIDE DEF longer
      <4>2. versions' = longer
        BY <3>1 DEF longer
      <4> QED
        BY <4>1, <4>2
    <3>6. ASSUME NEW a \in 1 .. n + 1, NEW b \in 1 .. n + 1, a <= b
          PROVE  versions'[a] <= versions'[b]
      <4>1. CASE b \in 1 .. n
        <5>1. a \in 1 .. n
          BY <3>6, <4>1
        <5> QED
          BY <2>0, <3>5, <3>6, <4>1, <5>1 DEF Ascending
      <4>2. CASE b = n + 1
        <5>1. a \in 1 .. n \/ a = n + 1
          OBVIOUS
        <5>2. v \in Int
          OBVIOUS
        <5> QED
          BY <1>0, <3>0, <3>2, <3>4, <3>5, <4>2, <5>1, <5>2
      <4> QED
        BY <4>1, <4>2
    <3> QED
      BY <2>0, <3>5, <3>6 DEF VersionInv, Ascending
  <2>2. CASE UNCHANGED versions
    BY <1>2, <2>2 DEF VersionInv, Ascending
  <2> QED
    BY <1>2, <2>1, <2>2 DEF V!Next, V!Full
<1> QED
  BY <1>1, <1>2, PTL DEF V!Spec

(* Every block has a version that exists. *)
LEMMA VersionTyped == VersionInv => V!TypeOK
BY DEF VersionInv, V!TypeOK, Ascending

(* The search reports rightly in every state. *)
LEMMA VersionNear == VersionInv => V!NearFirst
BY SearchIsNear, WatchAssumption DEF VersionInv, V!VersionSearchAssumption

-----------------------------------------------------------------------------
(* The composition *)

(* One tool runs and the others stand still: whatever the composition does is, for
   each tool, a step of its own or none. *)
LEMMA EveryToolRuns == MCSpec => Spec /\ A!Spec /\ T!Spec /\ S!Spec /\ V!Spec
<1>1. MCInit => Init /\ A!Init /\ T!Init /\ S!Init /\ V!Init
  BY DEF MCInit
<1>2. ASSUME [MCNext]_MCVars
      PROVE  /\ [Next]_vars /\ [A!Next]_(A!vars) /\ [T!Next]_(T!vars)
             /\ [S!Next]_(S!vars) /\ [V!Next]_versions
  <2>1. Next \/ UNCHANGED vars
    BY <1>2 DEF MCNext, MCVars
  <2>2. A!Next \/ UNCHANGED assetVars
    BY <1>2 DEF MCNext, MCVars
  <2>3. T!Next \/ UNCHANGED timeVars
    BY <1>2 DEF MCNext, MCVars
  <2>4. S!Next \/ UNCHANGED snapshotVars
    BY <1>2 DEF MCNext, MCVars
  <2>5. V!Next \/ UNCHANGED versions
    BY <1>2 DEF MCNext, MCVars
  <2>6. UNCHANGED assetVars => UNCHANGED A!vars
    BY DEF assetVars, A!vars
  <2>7. UNCHANGED timeVars => UNCHANGED T!vars
    BY DEF timeVars, T!vars
  <2>8. UNCHANGED snapshotVars => UNCHANGED S!vars
    BY DEF snapshotVars, S!vars, S!chain
  <2> QED
    BY <2>1, <2>2, <2>3, <2>4, <2>5, <2>6, <2>7, <2>8
<1> QED
  BY <1>1, <1>2, PTL DEF MCSpec, Spec, A!Spec, T!Spec, S!Spec, V!Spec

(* The variables of every tool keep their types, for all values of the
   constants. *)
THEOREM ToolsTyped == MCSpec => []TypesOK
<1>1. WaitInv /\ ArrivalInv /\ TimeInv /\ SnapInv /\ VersionInv => TypesOK
  BY VersionTyped DEF WaitInv, ArrivalInv, TimeInv, SnapInv, TypesOK
<1> QED
  BY <1>1, EveryToolRuns, WaitInvariant, ArrivalInvariant, TimeInvariant, SnapInvariant,
     VersionInvariant, PTL

(* EventWait: an event that is reported is on the chain, no earlier than asked
   for, whatever the head does during the call and however long it is. *)
THEOREM EventFoundIsReal == MCSpec => []FoundIsReal
<1>1. WaitInv => FoundIsReal
  BY DEF WaitInv
<1> QED
  BY <1>1, EveryToolRuns, WaitInvariant, PTL

(* EventWait: a call that returns None has missed no event up to the head it has
   last seen, if it reads the head at least once per change and reorgs replace no
   more than the head. *)
THEOREM NoEventMissed ==
  ASSUME ReadInTime
  PROVE  MCSpec => NoneMissed
BY EveryToolRuns, NoneMissedInTime, PTL

(* AssetWatch: the wait fails only when nothing has arrived since the noted block,
   for every number of polls, credits and blocks. *)
THEOREM CreditIsNoticed == MCSpec => ArrivalNoticed
<1>1. A!Spec => ArrivalNoticed
  BY ArrivalInvariant, PTL DEF ArrivalNoticed
<1> QED
  BY <1>1, EveryToolRuns, PTL

(* SafeUpgradeTime: undisturbed rounds begin at the printed blocks, whatever their
   length and whenever in a round the tool is run. *)
THEOREM PrintedRoundsBegin == MCSpec => []PredictionHolds
<1>1. T!PredictionHolds => PredictionHolds
  BY DEF PredictionHolds
<1> QED
  BY <1>1, EveryToolRuns, TimeInvariant, PTL

(* SafeUpgradeTime: while no block takes longer than the average, none comes later
   than printed. *)
THEOREM PrintedTimesLast == MCSpec => []EstimateNotEarly
<1>1. T!EstimateNotEarly => EstimateNotEarly
  BY DEF EstimateNotEarly
<1> QED
  BY <1>1, EveryToolRuns, TimeInvariant, PTL

(* SnapshotRead: a map that was read, in pages of any size from different blocks,
   has every key that stayed in it, and no key that was never there. *)
THEOREM SnapshotIsComplete == MCSpec => []SnapshotCovers
<1>1. SnapInv => SnapshotCovers
  BY DEF SnapInv, SnapshotCovers
<1> QED
  BY <1>1, EveryToolRuns, SnapInvariant, PTL

(* VersionSearch: for a chain of any length and any versions, the block reported is
   one or two after the first one of the version, and a version is only missed when
   it has a single block. *)
THEOREM VersionIsNear == MCSpec => []NearFirst
<1>1. VersionInv => NearFirst
  BY VersionNear DEF NearFirst
<1> QED
  BY <1>1, EveryToolRuns, VersionInvariant, PTL
=============================================================================
