--------------------------- MODULE NodeLabelsProofs ---------------------------
(***************************************************************************)
(* Proofs about NodeLabels, for any cards, metrics, amounts of memory and  *)
(* lengths of label values: the file holds the labels of one moment, label *)
(* values can be put together from their chunks, memory.max counts the     *)
(* memory that is left, and every link is named once.                      *)
(***************************************************************************)
EXTENDS NodeLabels, FiniteSetTheorems, SequenceTheorems, WellFoundedInduction, TLAPS

(* The label sets a writer may come to know.                               *)
Moments(w) == IF w = "sidecar" THEN LinkLabels ELSE CardLabels

(* The cards and metrics are those of the node, right is what they make,   *)
(* and what is about to be written is of one moment.                       *)
Known ==
    /\ cards \subseteq Cards /\ metrics \in Metrics \cup {<<>>}
    /\ right = Labels(writer, cards, metrics)
    /\ pc = "write" => labels \in Moments(writer)

IInv == Known /\ OfOneMoment

LEMMA LabelsOfMoment ==
    ASSUME NEW w, NEW S \in SUBSET Cards, NEW ms \in Metrics \cup {<<>>}
    PROVE  Labels(w, S, ms) \in Moments(w)
BY Zenon DEF Labels, Moments, LinkLabels, CardLabels

LEMMA InitIInv == Init => IInv
BY Zenon DEF Init, IInv, Known, OfOneMoment

(* A step that leaves the node and the file alone, and is not about to     *)
(* write or writes what is of one moment.                                  *)
LEMMA ChangeKeeps == IInv /\ Change => IInv'
<1> SUFFICES ASSUME IInv, Change PROVE IInv'
    BY Zenon
<1>1. UNCHANGED <<writer, pc, labels, file, appended, short>>
    BY Zenon DEF Change
<1>2. cards' \subseteq Cards /\ metrics' \in Metrics \cup {<<>>}
    BY Zenon DEF Change, IInv, Known
<1>3. right' = Labels(writer', cards', metrics')
    BY Zenon, <1>1 DEF Change
<1>4. Known'
    BY Zenon, <1>1, <1>2, <1>3 DEF IInv, Known, Moments
<1>5. OfOneMoment'
    BY Zenon, <1>1 DEF IInv, OfOneMoment
<1> QED BY Zenon, <1>4, <1>5 DEF IInv

LEMMA RoundKeeps == IInv /\ (LabelerRound \/ iterate) => IInv'
<1> SUFFICES ASSUME IInv, LabelerRound \/ iterate PROVE IInv'
    BY Zenon
<1>1. UNCHANGED <<writer, cards, metrics, right, file, appended, short>>
    BY Zenon DEF LabelerRound, iterate
<1>2. right \in Moments(writer)
    BY Zenon, LabelsOfMoment DEF IInv, Known
<1>3. pc' = "write" => labels' \in Moments(writer)
  <2>1. CASE LabelerRound
    <3>1. pc = "idle" BY Zenon, <2>1 DEF LabelerRound
    <3> QED BY Zenon, <1>2, <2>1, <3>1 DEF LabelerRound
  <2>2. CASE iterate
    <3>1. createLinkLabels(<<>>) \in Moments(writer)
        BY Zenon, <2>2 DEF iterate, Moments, LinkLabels
    <3> QED BY Zenon, <1>2, <2>2, <3>1 DEF iterate, getMetricsDataFromXPUM
  <2> QED BY Zenon, <2>1, <2>2
<1>4. Known'
    BY Zenon, <1>1, <1>3 DEF IInv, Known, Moments
<1>5. OfOneMoment'
    BY Zenon, <1>1 DEF IInv, OfOneMoment
<1> QED BY Zenon, <1>4, <1>5 DEF IInv

LEMMA WriteKeeps == IInv /\ (LabelerWrite \/ writeLabels) => IInv'
<1> SUFFICES ASSUME IInv, LabelerWrite \/ writeLabels PROVE IInv'
    BY Zenon
<1>1. UNCHANGED <<writer, cards, metrics, right>> /\ pc = "write" /\ pc' = "idle"
    BY Zenon DEF LabelerWrite, writeLabels
<1>2. labels \in Moments(writer)
    BY Zenon, <1>1 DEF IInv, Known
<1>3. Known'
    BY Zenon, <1>1 DEF IInv, Known
<1>4. OfOneMoment'
  <2>1. CASE file' = labels
      BY Zenon, <1>1, <1>2, <2>1 DEF OfOneMoment, Moments
  <2>2. CASE appended' \/ short'
      BY Zenon, <2>2 DEF OfOneMoment
  <2>3. CASE UNCHANGED <<file, appended, short>>
      BY Zenon, <1>1, <2>3 DEF IInv, OfOneMoment
  <2>4. \/ file' = labels \/ appended' \/ short' \/ UNCHANGED <<file, appended, short>>
    <3>1. CASE LabelerWrite
        BY Zenon, <3>1 DEF LabelerWrite, atomicPrintLabelsToFile
    <3>2. CASE writeLabels
        BY Zenon, <3>2 DEF writeLabels
    <3> QED BY Zenon, <3>1, <3>2
  <2> QED BY Zenon, <2>1, <2>2, <2>3, <2>4
<1> QED BY Zenon, <1>3, <1>4 DEF IInv

LEMMA StopKeeps == IInv /\ (Stop \/ Kill \/ Restart) => IInv'
<1> SUFFICES ASSUME IInv, Stop \/ Kill \/ Restart PROVE IInv'
    BY Zenon
<1>1. UNCHANGED <<writer, cards, metrics, right>> /\ pc' # "write"
    BY Zenon DEF Stop, Kill, Restart
<1>2. file' = NoFile \/ UNCHANGED <<file, appended, short>>
    BY Zenon DEF Stop, Kill, Restart
<1>3. Known'
    BY Zenon, <1>1 DEF IInv, Known
<1>4. OfOneMoment'
    BY Zenon, <1>1, <1>2 DEF IInv, OfOneMoment
<1> QED BY Zenon, <1>3, <1>4 DEF IInv

LEMMA NextKeeps == IInv /\ [Next]_vars => IInv'
<1> SUFFICES ASSUME IInv, [Next]_vars PROVE IInv'
    BY Zenon
<1>1. CASE UNCHANGED vars
  <2>1. UNCHANGED <<writer, cards, metrics, right, pc, labels, file, appended, short>>
      BY Zenon, <1>1 DEF vars
  <2>2. Known'
      BY Zenon, <2>1 DEF IInv, Known, Moments
  <2>3. OfOneMoment'
      BY Zenon, <2>1 DEF IInv, OfOneMoment
  <2> QED BY Zenon, <2>2, <2>3 DEF IInv
<1>2. CASE Next
    BY Zenon, <1>2, ChangeKeeps, RoundKeeps, WriteKeeps, StopKeeps DEF Next, Run
<1> QED BY Zenon, <1>1, <1>2

LEMMA Invariant == Spec => []IInv
<1>1. Init => IInv
    BY InitIInv
<1>2. IInv /\ [Next]_vars => IInv'
    BY NextKeeps
<1> QED BY <1>1, <1>2, PTL DEF Spec

(* The file of either writer holds the labels of one moment, whatever it   *)
(* failed to read or to write and however often it was killed, unless it   *)
(* was written in part or appended to (atomicPrintLabelsToFile,            *)
(* writeLabels).                                                           *)
THEOREM FileOfOneMoment == Spec => []OfOneMoment
<1>1. IInv => OfOneMoment
    BY Zenon DEF IInv
<1> QED BY Invariant, <1>1, PTL

-----------------------------------------------------------------------------
(* Memory.                                                                 *)

Left(c) ==
    IF Machine.memory[c] = -1 THEN Override
    ELSE Machine.memory[c] * GetTileCount(c) - Reserved

Some(S) == {c \in S : Left(c) >= 0}

Sum(S) == SumFunction([k \in counted(S) |-> GetMemoryAmount(k)])

LEMMA NoWrap ==
    ASSUME NEW W \in Nat, NEW a \in Int
    PROVE  /\ a \in 0..W - 1 => a % W = a
           /\ a \in -W..-1 => a % W = a + W
<1>1. CASE a \in 0..W - 1
    BY <1>1
<1>2. CASE a \in -W..-1
    BY <1>2
<1> QED BY <1>1, <1>2

(* An amount is what is left of the card's memory, or too large.           *)
LEMMA AmountLeft ==
    ASSUME NEW c \in Cards
    PROVE  /\ GetMemoryAmount(c) < (Word \div 2) - 1 <=> Left(c) >= 0
           /\ Left(c) >= 0 => GetMemoryAmount(c) = Left(c)
<1> DEFINE half == Word \div 2
           own  == Machine.memory[c] * GetTileCount(c)
<1>1. half \in Nat /\ 2 * half <= Word /\ Word \in Nat
    BY MemoryAssumption
<1>2. Reserved \in 0..half /\ Override \in 0..half - 2
    BY Zenon, MemoryAssumption
<1>3. CASE Machine.memory[c] = -1
  <2>1. GetMemoryAmount(c) = Override /\ Left(c) = Override
      BY Zenon, <1>3 DEF GetMemoryAmount, Left
  <2> HIDE DEF half
  <2>2. Override < half - 1 /\ Override >= 0
      BY <1>1, <1>2
  <2> QED BY Zenon, <2>1, <2>2 DEF half
<1>4. CASE Machine.memory[c] # -1
  <2>1. GetMemoryAmount(c) = (own - Reserved) % Word /\ Left(c) = own - Reserved
      BY Zenon, <1>4 DEF GetMemoryAmount, Left
  <2>2. own < half - 1
      BY Zenon, MemoryAssumption
  <2>3. own \in Nat
    <3>1. Machine.memory[c] \in Nat /\ Machine.tiles[c] \in Nat
        BY Zenon, <1>4, MachineAssumption
    <3>2. GetTileCount(c) \in Nat
        BY <3>1 DEF GetTileCount
    <3> QED BY <3>1, <3>2
  <2> HIDE DEF own, half
  <2>4. CASE own >= Reserved
    <3>1. own - Reserved \in 0..Word - 1 /\ own - Reserved < half - 1 /\ own - Reserved >= 0
        BY <1>1, <1>2, <2>2, <2>3, <2>4
    <3>2. (own - Reserved) % Word = own - Reserved
        BY <1>1, <1>2, <2>3, <3>1, NoWrap
    <3> QED BY Zenon, <2>1, <3>1, <3>2 DEF half
  <2>5. CASE own < Reserved
    <3>1. own - Reserved \in -Word..-1 /\ ~(own - Reserved + Word < half - 1)
          /\ ~(own - Reserved >= 0)
        BY <1>1, <1>2, <2>2, <2>3, <2>5
    <3>2. (own - Reserved) % Word = own - Reserved + Word
        BY <1>1, <1>2, <2>3, <3>1, NoWrap
    <3> QED BY Zenon, <2>1, <3>1, <3>2 DEF half
  <2> QED BY <1>2, <2>3, <2>4, <2>5, <1>1
<1> QED BY Zenon, <1>3, <1>4

LEMMA MemoryLines ==
    ASSUME NEW S
    PROVE  {l \in createLabels(S) : l[1] = "memory.max"}
             = {<<"memory.max", 1, Sum(S)>> : c \in counted(S)}
<1> DEFINE M == {<<"memory.max", 1, Sum(S)>> : c \in counted(S)}
           L == {l \in createLabels(S) : l[1] = "memory.max"}
<1>1. M \subseteq createLabels(S)
  <2>1. CASE S = {}
    <3>1. counted(S) = {}
        BY Zenon, <2>1 DEF counted
    <3> QED BY Zenon, <3>1
  <2>2. CASE S # {}
    <3>1. M \subseteq createLabels(S)
        BY SMT, <2>2 DEF createLabels, Sum
    <3> QED BY Zenon, <3>1
  <2> QED BY Zenon, <2>1, <2>2
<1>2. \A l \in M : l[1] = "memory.max"
    BY SMT
<1>3. ASSUME NEW l \in createLabels(S), l \notin M PROVE l[1] # "memory.max"
  <2>1. \A n, s : \A x \in addSplittableString(n, s) : x[1] = n
      BY SMT DEF addSplittableString
  <2> DEFINE T == {<<"tiles", 1, SumFunction([c \in S |-> GetTileCount(c)])>>,
                   <<"millicores", 1, 1000 * Cardinality(S)>>, <<"cards", 1, CardList(S)[1]>>}
             Split(n) == \E s : l \in addSplittableString(n, s)
  <2>2. l \in T \/ Split("gpu-numbers") \/ Split("numa-gpu-map") \/ Split("pci-groups")
    <3>1. CASE S = {}
        BY SMT, <1>3, <3>1 DEF createLabels
    <3>2. CASE S # {}
      <4>1. \/ l \in T
            \/ l \in M
            \/ l \in addSplittableString("gpu-numbers", Names(S))
            \/ l \in addSplittableString("numa-gpu-map", createNumaNodeMappingLabel(S))
            \/ l \in addSplittableString("pci-groups", createPCIGroupLabel(S))
          BY SMT, <1>3, <3>2 DEF createLabels, Sum
      <4>2. l \notin M
          BY Zenon, <1>3
      <4> HIDE DEF M, T
      <4> QED BY Zenon, <4>1, <4>2
    <3> HIDE DEF T, Split
    <3> QED BY Zenon, <3>1, <3>2
  <2>3. l[1] \in {"tiles", "millicores", "cards", "gpu-numbers", "numa-gpu-map", "pci-groups"}
      BY <2>1, <2>2
  <2> QED BY <2>3
<1> QED BY Zenon, <1>1, <1>2, <1>3

(* memory.max is the memory that is left of the cards that have as much as *)
(* is set aside, for any amounts below half of what a word counts          *)
(* (legacyFallback, addNumericLabel, createLabels).                        *)
THEOREM MemoryIsCounted == Spec => []MemoryCounted
<1>1. Known => MemoryCounted
  <2> SUFFICES ASSUME Known, writer = "labeler" 
               PROVE  {l[3] : l \in {l \in right : l[1] = "memory.max"}}
                        = {SumFunction([k \in Some(cards) |-> Left(k)]) : c \in Some(cards)}
      BY Zenon DEF MemoryCounted, Some, Left
  <2>1. right = createLabels(cards)
      BY DEF Known, Labels
  <2>2. counted(cards) = Some(cards)
      BY Zenon, AmountLeft DEF Known, counted, Some
  <2>3. \A k \in Some(cards) : GetMemoryAmount(k) = Left(k)
      BY Zenon, AmountLeft DEF Known, Some
  <2>4. [k \in counted(cards) |-> GetMemoryAmount(k)] = [k \in Some(cards) |-> Left(k)]
      BY Zenon, <2>2, <2>3
  <2>5. Sum(cards) = SumFunction([k \in Some(cards) |-> Left(k)])
      BY Zenon, <2>4 DEF Sum
  <2>6. {l[3] : l \in {<<"memory.max", 1, Sum(cards)>> : c \in counted(cards)}}
          = {Sum(cards) : c \in counted(cards)}
    <3> DEFINE sum == Sum(cards)
    <3>1. <<"memory.max", 1, sum>>[3] = sum
        BY SMT
    <3> QED BY Zenon, <3>1
  <2>7. {l \in right : l[1] = "memory.max"}
          = {<<"memory.max", 1, Sum(cards)>> : c \in counted(cards)}
      BY Zenon, <2>1, MemoryLines
  <2>8. {Sum(cards) : c \in counted(cards)}
          = {SumFunction([k \in Some(cards) |-> Left(k)]) : c \in Some(cards)}
      BY Zenon, <2>2, <2>5
  <2>9. {l[3] : l \in {l \in right : l[1] = "memory.max"}} = {Sum(cards) : c \in counted(cards)}
      BY Zenon, <2>6, <2>7
  <2> QED BY Zenon, <2>8, <2>9
<1>2. IInv => Known
    BY Zenon DEF IInv
<1> QED BY Invariant, <1>1, <1>2, PTL

-----------------------------------------------------------------------------
(* Links.                                                                  *)

LEMMA Least ==
    ASSUME NEW T, T \subseteq Nat, T # {}
    PROVE  \E n \in T : \A m \in T : n <= m
<1> DEFINE R == OpToRel(<, Nat)
<1>1. \A m, n \in Nat : m < n => <<m, n>> \in R
    BY SMT DEF OpToRel
<1>2. IsWellFoundedOn(R, Nat)
    BY Zenon, NatLessThanWellFounded
<1> HIDE DEF R
<1>3. PICK n \in T : \A m \in T : <<m, n>> \notin R
    BY Zenon, <1>2, WFMin
<1>4. \A m \in T : ~(m < n)
    BY Zenon, <1>1, <1>3
<1> QED BY SMT, <1>4

Wide(ms) == {i \in GetTopologyFromXPUMMetrics(ms) : ms[i].lanes >= LaneCount}

Between(m) == m.local[1] # m.remote[1]

Ends(m) == {m.local, m.remote}

LEMMA ListsServed ==
    ASSUME NEW ms \in Metrics \cup {<<>>}
    PROVE  ms \in Seq(Cells)
<1>1. <<>> \in Seq(Cells)
    BY SMT
<1> QED BY Zenon, <1>1, MetricsAssumption

LEMMA ListOf ==
    ASSUME NEW ms \in Seq(Cells), NEW i \in DOMAIN ms
    PROVE  /\ ms[i].local \in Points /\ ms[i].remote \in Points
           /\ ms[i].lanes \in Int /\ i \in Nat
<1>1. i \in Nat /\ ms[i] \in Cells
    BY SMT
<1> QED BY SMT, <1>1 DEF Cells

(* Two metrics between GPUs that have the same ends read the same.         *)
LEMMA SameReading ==
    ASSUME NEW l, NEW m,
           l.local \in Points, l.remote \in Points, m.local \in Points, m.remote \in Points,
           Between(l), Between(m), Ends(l) = Ends(m)
    PROVE  cellToString(l) = cellToString(m)
<1>1. \A p \in Points : p[1] \in Int
    BY SMT DEF Points
<1>2. \/ l.local = m.local /\ l.remote = m.remote
      \/ l.local = m.remote /\ l.remote = m.local
    BY Zenon DEF Ends
<1> QED BY SMT, <1>1, <1>2 DEF cellToString, Between

LEMMA ReadsAs ==
    ASSUME NEW m
    PROVE  {cellToString(m)[1], cellToString(m)[2]} = Ends(m)
BY SMT DEF cellToString, Ends

LEMMA SameEnds ==
    ASSUME NEW l, NEW m, cellToString(l) = cellToString(m)
    PROVE  Ends(l) = Ends(m) /\ (Between(l) <=> Between(m))
BY SMT DEF cellToString, Ends, Between

(* Every link with enough lanes reads as one that is named.                *)
LEMMA FirstNamed ==
    ASSUME NEW ms \in Seq(Cells), NEW j \in Wide(ms)
    PROVE  \E i \in linksOf(ms) : cellToString(ms[i]) = cellToString(ms[j])
<1> DEFINE T == {i \in Wide(ms) : cellToString(ms[i]) = cellToString(ms[j])}
<1>1. T \subseteq Nat /\ T # {}
    BY Zenon, ListOf DEF Wide, GetTopologyFromXPUMMetrics
<1> HIDE DEF T
<1>2. PICK i \in T : \A k \in T : i <= k
    BY Zenon, <1>1, Least
<1>3. i \in Wide(ms) /\ cellToString(ms[i]) = cellToString(ms[j])
    BY Zenon DEF T
<1>4. \A k \in Wide(ms) : cellToString(ms[k]) = cellToString(ms[i]) => i <= k
    BY Zenon, <1>2, <1>3 DEF T
<1>5. i \in linksOf(ms)
    BY Zenon, <1>3, <1>4 DEF linksOf, Wide
<1> QED BY Zenon, <1>3, <1>5

(* The links between GPUs that a list names, and those it reports.         *)
NamedLinks(ms) == {i \in linksOf(ms) : Between(ms[i])}

Reported(ms) == {i \in Wide(ms) : Between(ms[i])}

LEMMA NamedAsReported ==
    ASSUME NEW ms \in Seq(Cells)
    PROVE  {Ends(ms[i]) : i \in NamedLinks(ms)} = {Ends(ms[i]) : i \in Reported(ms)}
<1>1. NamedLinks(ms) \subseteq Reported(ms)
    BY Zenon DEF NamedLinks, Reported, linksOf, Wide
<1>2. ASSUME NEW j \in Reported(ms)
      PROVE  \E i \in NamedLinks(ms) : Ends(ms[i]) = Ends(ms[j])
  <2>1. j \in Wide(ms) /\ Between(ms[j])
      BY Zenon DEF Reported
  <2>2. PICK i \in linksOf(ms) : cellToString(ms[i]) = cellToString(ms[j])
      BY Zenon, <2>1, FirstNamed
  <2>3. Ends(ms[i]) = Ends(ms[j]) /\ Between(ms[i])
      BY Zenon, <2>1, <2>2, SameEnds
  <2> QED BY Zenon, <2>3 DEF NamedLinks
<1> QED BY Zenon, <1>1, <1>2

LEMMA NamedOnce ==
    ASSUME NEW ms \in Seq(Cells)
    PROVE  Cardinality(NamedLinks(ms)) = Cardinality({Ends(ms[i]) : i \in NamedLinks(ms)})
<1> DEFINE N == NamedLinks(ms)
           E == {Ends(ms[i]) : i \in N}
           f == [i \in N |-> Ends(ms[i])]
<1>1. \A i \in N : i \in DOMAIN ms /\ i \in Wide(ms) /\ Between(ms[i])
    BY Zenon DEF NamedLinks, linksOf, Wide, GetTopologyFromXPUMMetrics
<1>2. IsFiniteSet(N)
  <2>1. Len(ms) \in Nat /\ DOMAIN ms = 1..Len(ms)
      BY SMT
  <2>2. IsFiniteSet(1..Len(ms))
      BY SMT, <2>1, FS_Interval
  <2>3. N \in SUBSET (1..Len(ms))
      BY Zenon, <1>1, <2>1
  <2> QED BY Zenon, <2>2, <2>3, FS_Subset
<1>3. ASSUME NEW i \in N, NEW j \in N, Ends(ms[i]) = Ends(ms[j]) PROVE i = j
  <2>1. /\ ms[i].local \in Points /\ ms[i].remote \in Points /\ i \in Nat
        /\ ms[j].local \in Points /\ ms[j].remote \in Points /\ j \in Nat
      BY Zenon, <1>1, ListOf
  <2>2. cellToString(ms[i]) = cellToString(ms[j])
      BY Zenon, <1>1, <1>3, <2>1, SameReading
  <2>3. i <= j /\ j <= i
      BY Zenon, <1>1, <2>2 DEF NamedLinks, linksOf, Wide
  <2> QED BY SMT, <2>1, <2>3
<1>4. f \in Bijection(N, E)
    BY Zenon, <1>3 DEF Bijection, Injection, Surjection, IsInjective
<1>5. ExistsBijection(N, E)
    BY Zenon, <1>4 DEF ExistsBijection
<1> QED BY Zenon, <1>2, <1>5, FS_Bijection

(* The label names every link between two GPUs once, for any metrics XPU   *)
(* manager may serve (cellToString, createLabels of the sidecar).          *)
THEOREM LinksNamedOnce == Spec => []LinksOnce
<1>1. Known => LinksOnce
  <2> SUFFICES ASSUME Known PROVE LinksOnce
      BY Zenon
  <2> DEFINE used == {m \in Range(metrics) : m.xelink /\ processMetricsLabels(m)
                                           /\ m.lanes >= LaneCount /\ m.local[1] # m.remote[1]}
  <2>1. metrics \in Seq(Cells)
      BY Zenon, ListsServed DEF Known
  <2>2. {{m.local, m.remote} : m \in used} = {Ends(metrics[i]) : i \in Reported(metrics)}
    <3>1. \A i \in Reported(metrics) : metrics[i] \in used
        BY Zenon DEF Reported, Wide, Between, GetTopologyFromXPUMMetrics, Range
    <3>2. \A m \in used : \E i \in Reported(metrics) : metrics[i] = m
        BY Zenon DEF Reported, Wide, Between, GetTopologyFromXPUMMetrics, Range
    <3> HIDE DEF used
    <3> QED BY Zenon, <3>1, <3>2 DEF Ends
  <2>3. {i \in linksOf(metrics) : metrics[i].local[1] # metrics[i].remote[1]} = NamedLinks(metrics)
      BY Zenon DEF NamedLinks, Between
  <2>4. {{cellToString(metrics[i])[1], cellToString(metrics[i])[2]} : i \in NamedLinks(metrics)}
          = {Ends(metrics[i]) : i \in NamedLinks(metrics)}
      BY Zenon, ReadsAs
  <2>5. /\ {{cellToString(metrics[i])[1], cellToString(metrics[i])[2]} : i \in NamedLinks(metrics)}
             = {{m.local, m.remote} : m \in used}
        /\ Cardinality(NamedLinks(metrics)) = Cardinality({{m.local, m.remote} : m \in used})
      BY Zenon, <2>1, <2>2, <2>4, NamedAsReported, NamedOnce
  <2> QED BY Zenon, <2>3, <2>5 DEF LinksOnce
<1>2. IInv => Known
    BY Zenon DEF IInv
<1> QED BY Invariant, <1>1, <1>2, PTL

-----------------------------------------------------------------------------
(* Numbers and recursive functions.                                        *)

LEMMA Greatest ==
    ASSUME NEW n \in Nat, NEW S, S \subseteq 0..n, S # {}
    PROVE  MaxOf(S) \in S /\ \A j \in S : j <= MaxOf(S)
<1> DEFINE T == {k \in Nat : n - k \in S}
<1>1. \A j \in S : j \in Int /\ n - j \in T /\ n - (n - j) = j
    BY SMT
<1>2. T \subseteq Nat /\ T # {}
    BY Zenon, <1>1
<1>3. \A k \in T : k \in Nat /\ n - k \in S
    BY Zenon
<1> HIDE DEF T
<1>4. PICK k \in T : \A m \in T : k <= m
    BY Zenon, <1>2, Least
<1>5. \A j \in S : j <= n - k
    BY SMT, <1>1, <1>2, <1>4
<1> QED BY Zenon, <1>3, <1>5 DEF MaxOf

LEMMA Smallest ==
    ASSUME NEW S, S \subseteq Nat, S # {}
    PROVE  MinOf(S) \in S /\ \A j \in S : MinOf(S) <= j
BY Zenon, Least DEF MinOf

(* f[0] is base and each later value is d of the one before and its place. *)
Chain(V, base, d, n, f) ==
    f \in [0..n -> V] /\ f[0] = base /\ \A i \in 1..n : f[i] = d[i][f[i - 1]]

LEMMA ChainGrows ==
    ASSUME NEW V, NEW base \in V, NEW n \in Nat, NEW d \in [1..n -> [V -> V]],
           NEW k \in 1..n, NEW f, Chain(V, base, d, k - 1, f)
    PROVE  Chain(V, base, d, k, [i \in 0..k |-> IF i = k THEN d[k][f[k - 1]] ELSE f[i]])
<1> DEFINE g == [i \in 0..k |-> IF i = k THEN d[k][f[k - 1]] ELSE f[i]]
<1>1. \A i \in 0..k - 1 : f[i] \in V /\ i \in 0..k /\ i # k /\ g[i] = f[i]
    BY SMT DEF Chain
<1>2. k - 1 \in 0..k - 1 /\ k \in 0..k /\ 0 \in 0..k - 1 /\ g[k] = d[k][f[k - 1]]
    BY SMT
<1>3. d[k][f[k - 1]] \in V
  <2>1. d[k] \in [V -> V] /\ f[k - 1] \in V
      BY Zenon, <1>1, <1>2
  <2> QED BY Zenon, <2>1
<1>4. g \in [0..k -> V]
  <2>1. \A i \in 0..k : i # k => i \in 0..k - 1
      BY SMT
  <2> QED BY Zenon, <1>1, <1>3, <2>1
<1>5. ASSUME NEW i \in 1..k PROVE g[i] = d[i][g[i - 1]]
  <2>1. CASE i = k
      BY Zenon, <1>1, <1>2, <2>1
  <2>2. CASE i # k
    <3>1. i \in 1..k - 1 /\ i - 1 \in 0..k - 1 /\ i \in 0..k - 1
        BY SMT, <2>2
    <3> QED BY Zenon, <1>1, <3>1 DEF Chain
  <2> QED BY Zenon, <2>1, <2>2
<1>6. g[0] = base
    BY Zenon, <1>1, <1>2 DEF Chain
<1> QED BY Zenon, <1>4, <1>5, <1>6 DEF Chain

LEMMA ChainExists ==
    ASSUME NEW V, NEW base \in V, NEW n \in Nat, NEW d \in [1..n -> [V -> V]]
    PROVE  \E f : Chain(V, base, d, n, f)
<1> DEFINE T == {k \in 0..n : ~\E f : Chain(V, base, d, k, f)}
<1> SUFFICES ASSUME T # {} PROVE FALSE
  <2>1. n \in 0..n
      BY SMT
  <2> QED BY Zenon, <2>1
<1>1. T \subseteq Nat /\ \A k \in T : k \in 0..n
    BY SMT
<1>2. \A k \in 0..n : k \notin T => \E f : Chain(V, base, d, k, f)
    BY Zenon
<1>3. \A k \in T : ~\E f : Chain(V, base, d, k, f)
    BY Zenon
<1> HIDE DEF T
<1>4. PICK k \in T : \A m \in T : k <= m
    BY Zenon, <1>1, Least
<1>5. CASE k = 0
  <2>1. Chain(V, base, d, 0, [i \in 0..0 |-> base])
      BY SMT DEF Chain
  <2> QED BY Zenon, <1>3, <1>5, <2>1
<1>6. CASE k # 0
  <2>1. k \in 1..n /\ k - 1 \in 0..n /\ ~(k <= k - 1)
      BY SMT, <1>1, <1>6
  <2>2. PICK f : Chain(V, base, d, k - 1, f)
      BY Zenon, <1>2, <1>4, <2>1
  <2> QED BY Zenon, <1>3, <2>1, <2>2, ChainGrows
<1> QED BY Zenon, <1>5, <1>6

-----------------------------------------------------------------------------
(* Strings that are lists: they begin and end with a letter or a digit,    *)
(* and no two separators meet.                                             *)

Spaced(s) ==
    /\ s \in Seq(Chars) /\ s # <<>>
    /\ IsAlphaNum(s[1]) /\ IsAlphaNum(s[Len(s)])
    /\ \A i \in 1..Len(s) - 1 : IsAlphaNum(s[i]) \/ IsAlphaNum(s[i + 1])

LEMMA TextSpaced ==
    ASSUME NEW t \in Seq(AlphaNum) \ {<<>>}
    PROVE  Spaced(t)
<1>1. t \in Seq(Chars) /\ t # <<>> /\ \A i \in 1..Len(t) : IsAlphaNum(t[i])
  <2>1. t \in Seq(AlphaNum) /\ t # <<>>
      BY Zenon
  <2>2. AlphaNum \subseteq Chars
      BY Zenon DEF Chars
  <2>3. t \in Seq(Chars)
      BY Zenon, <2>1, <2>2, SeqMonotonic
  <2>4. \A i \in 1..Len(t) : t[i] \in AlphaNum
      BY Zenon, <2>1, ElementOfSeq
  <2> QED BY Zenon, <2>1, <2>3, <2>4 DEF IsAlphaNum
<1>2. Len(t) \in Nat /\ Len(t) # 0
    BY SMT, <1>1
<1> QED BY SMT, <1>1, <1>2 DEF Spaced

LEMMA OneLetter ==
    ASSUME NEW S, NEW c \in S
    PROVE  <<c>> \in Seq(S) /\ Len(<<c>>) = 1
BY SMT

LEMMA ConcatAt ==
    ASSUME NEW S, NEW x \in Seq(S), NEW y \in Seq(S)
    PROVE  /\ x \o y \in Seq(S) /\ Len(x \o y) = Len(x) + Len(y)
           /\ \A i \in 1..Len(x) : (x \o y)[i] = x[i]
           /\ \A i \in 1..Len(y) : (x \o y)[Len(x) + i] = y[i]
<1>1. Len(x) \in Nat /\ Len(y) \in Nat
    BY SMT
<1>2. x \o y \in Seq(S) /\ Len(x \o y) = Len(x) + Len(y)
    BY SMT
<1>3. ASSUME NEW i \in 1..Len(x) PROVE (x \o y)[i] = x[i]
    BY SMT
<1>4. ASSUME NEW i \in 1..Len(y) PROVE (x \o y)[Len(x) + i] = y[i]
    BY SMT
<1> QED BY <1>2, <1>3, <1>4

LEMMA SpacedConcat ==
    ASSUME NEW a, NEW b, NEW c \in Chars, Spaced(a), Spaced(b)
    PROVE  Spaced(a \o <<c>> \o b)
<1> DEFINE t == a \o <<c>> \o b
           n == Len(a)
           m == Len(b)
<1>1. a \in Seq(Chars) /\ b \in Seq(Chars) /\ a # <<>> /\ b # <<>>
    BY Zenon DEF Spaced
<1>2. n \in Nat \ {0} /\ m \in Nat \ {0}
    BY Zenon, <1>1, EmptySeq
<1>4. /\ t \in Seq(Chars) /\ Len(t) = n + 1 + m
      /\ \A i \in 1..n : t[i] = a[i]
      /\ \A i \in 1..m : t[n + 1 + i] = b[i]
  <2> DEFINE u == a \o <<c>>
  <2>1. <<c>> \in Seq(Chars) /\ Len(<<c>>) = 1
      BY Zenon, OneLetter
  <2>2. u \in Seq(Chars) /\ Len(u) = n + Len(<<c>>) /\ \A i \in 1..n : u[i] = a[i]
    <3> DEFINE v == <<c>>
    <3> HIDE DEF v
    <3> QED BY SMT, <1>1, <2>1, ConcatAt DEF v
  <2> DEFINE k == Len(u)
  <2>3. k = n + 1
      BY Zenon, <2>1, <2>2
  <2>4. \A i \in 1..n : i \in 1..k
      BY SMT, <1>2, <2>3
  <2>5. /\ t \in Seq(Chars) /\ Len(t) = k + m
        /\ \A i \in 1..k : t[i] = u[i]
        /\ \A i \in 1..m : t[k + i] = b[i]
    <3> HIDE DEF u
    <3>1. /\ u \o b \in Seq(Chars) /\ Len(u \o b) = k + m
          /\ \A i \in 1..k : (u \o b)[i] = u[i]
          /\ \A i \in 1..m : (u \o b)[k + i] = b[i]
      <4>1. u \in Seq(Chars) /\ b \in Seq(Chars)
          BY Zenon, <1>1, <2>2
      <4> QED BY SMT, <4>1, ConcatAt
    <3> QED BY Zenon, <3>1 DEF u
  <2> HIDE DEF u, k, t, n, m
  <2> QED BY Zenon, <2>2, <2>3, <2>4, <2>5
<1> HIDE DEF t, n, m
<1>5. t # <<>>
    BY SMT, <1>2, <1>4
<1>6. IsAlphaNum(t[1]) /\ IsAlphaNum(t[Len(t)])
  <2>1. IsAlphaNum(a[1]) /\ IsAlphaNum(b[m])
      BY Zenon DEF Spaced, m
  <2>2. 1 \in 1..n /\ m \in 1..m
      BY SMT, <1>2
  <2> QED BY Zenon, <1>4, <2>1, <2>2
<1>7. ASSUME NEW i \in 1..Len(t) - 1 PROVE IsAlphaNum(t[i]) \/ IsAlphaNum(t[i + 1])
  <2>1. /\ \A j \in 1..n - 1 : IsAlphaNum(a[j]) \/ IsAlphaNum(a[j + 1])
        /\ \A j \in 1..m - 1 : IsAlphaNum(b[j]) \/ IsAlphaNum(b[j + 1])
        /\ IsAlphaNum(a[n]) /\ IsAlphaNum(b[1])
      BY Zenon DEF Spaced, n, m
  <2>2. CASE i < n
    <3>1. i \in 1..n - 1 /\ i \in 1..n /\ i + 1 \in 1..n
        BY SMT, <1>2, <2>2
    <3> QED BY Zenon, <1>4, <2>1, <3>1
  <2>3. CASE i = n
    <3>1. n \in 1..n
        BY SMT, <1>2
    <3> QED BY Zenon, <1>4, <2>1, <2>3, <3>1
  <2>4. CASE i = n + 1
    <3>1. 1 \in 1..m /\ i + 1 = n + 1 + 1
        BY SMT, <1>2, <2>4
    <3> QED BY Zenon, <1>4, <2>1, <3>1
  <2>5. CASE i > n + 1
    <3> DEFINE j == i - n - 1
    <3>1. /\ j \in 1..m - 1 /\ j \in 1..m /\ j + 1 \in 1..m
          /\ i = n + 1 + j /\ i + 1 = n + 1 + (j + 1)
        BY SMT, <1>2, <1>4, <2>5
    <3> HIDE DEF j
    <3> QED BY Zenon, <1>4, <2>1, <3>1
  <2> QED BY SMT, <1>2, <1>4, <2>2, <2>3, <2>4, <2>5
<1> QED BY Zenon, <1>4, <1>5, <1>6, <1>7 DEF Spaced, t

Blank(s) == s = <<>> \/ Spaced(s)

LEMMA WithNextSpaced ==
    ASSUME NEW s, NEW t, NEW sep \in Chars, Blank(s), Spaced(t)
    PROVE  Spaced(WithNext(s, sep, t))
BY Zenon, SpacedConcat DEF WithNext, Blank

(* The function that Join goes through.                                    *)
JoinBody(text, sep, n, s) ==
    [i \in 0..n |-> IF i = 0 THEN <<>>
                    ELSE IF i \in DOMAIN text THEN WithNext(s[i - 1], sep, text[i])
                    ELSE s[i - 1]]

Joins(text, sep, n) == CHOOSE s : s = JoinBody(text, sep, n, s)

LEMMA JoinIsJoins ==
    ASSUME NEW text, NEW sep, NEW n, n = MaxOf({0} \cup DOMAIN text)
    PROVE  Join(text, sep) = Joins(text, sep, n)[n]
BY Zenon DEF Join, Joins, JoinBody

Strings == {<<>>} \cup {s \in Seq(Chars) : Spaced(s)}

LEMMA JoinsSolves ==
    ASSUME NEW text, NEW sep \in Chars, NEW n \in Nat,
           \A i \in DOMAIN text : Spaced(text[i])
    PROVE  Joins(text, sep, n) = JoinBody(text, sep, n, Joins(text, sep, n))
<1> DEFINE d == [i \in 1..n |-> [s \in Strings |->
                   IF i \in DOMAIN text THEN WithNext(s, sep, text[i]) ELSE s]]
<1>1. <<>> \in Strings
    BY Zenon DEF Strings
<1>2. ASSUME NEW i \in 1..n, NEW s \in Strings
      PROVE  (IF i \in DOMAIN text THEN WithNext(s, sep, text[i]) ELSE s) \in Strings
    BY Zenon, WithNextSpaced DEF Strings, Blank, Spaced
<1>3. d \in [1..n -> [Strings -> Strings]]
    BY Zenon, <1>2
<1>4. PICK f : Chain(Strings, <<>>, d, n, f)
    BY Zenon, <1>1, <1>3, ChainExists
<1>5. f = JoinBody(text, sep, n, f)
  <2>1. f = [i \in 0..n |-> f[i]]
      BY Zenon, <1>4 DEF Chain
  <2>2. ASSUME NEW i \in 0..n, i # 0
        PROVE  f[i] = IF i \in DOMAIN text THEN WithNext(f[i - 1], sep, text[i]) ELSE f[i - 1]
    <3>1. i \in 1..n /\ i - 1 \in 0..n
        BY SMT, <2>2
    <3>2. f[i] = d[i][f[i - 1]] /\ f[i - 1] \in Strings
        BY Zenon, <1>4, <3>1 DEF Chain
    <3> QED BY Zenon, <3>1, <3>2
  <2>3. f[0] = <<>>
      BY Zenon, <1>4 DEF Chain
  <2> QED BY Zenon, <2>1, <2>2, <2>3 DEF JoinBody
<1> QED BY Zenon, <1>5 DEF Joins

LEMMA JoinsBlank ==
    ASSUME NEW text, NEW sep \in Chars, NEW n \in Nat,
           \A i \in DOMAIN text : Spaced(text[i])
    PROVE  \A i \in 0..n : Blank(Joins(text, sep, n)[i])
<1> DEFINE s == Joins(text, sep, n)
           T == {i \in 0..n : ~Blank(s[i])}
<1>1. s = JoinBody(text, sep, n, s)
    BY Zenon, JoinsSolves
<1> HIDE DEF s
<1> SUFFICES ASSUME T # {} PROVE FALSE
    BY Zenon DEF s
<1>2. T \subseteq Nat /\ \A i \in T : i \in 0..n
    BY SMT
<1>3. \A i \in 0..n : i \notin T => Blank(s[i])
    BY Zenon
<1>4. \A i \in T : ~Blank(s[i])
    BY Zenon
<1> HIDE DEF T
<1>5. PICK i \in T : \A m \in T : i <= m
    BY Zenon, <1>2, Least
<1>6. CASE i = 0
  <2>1. s[i] = <<>>
      BY Zenon, <1>1, <1>2, <1>6 DEF JoinBody
  <2> QED BY Zenon, <1>4, <2>1 DEF Blank
<1>7. CASE i # 0
  <2>1. i - 1 \in 0..n /\ ~(i <= i - 1)
      BY SMT, <1>2, <1>7
  <2>2. Blank(s[i - 1])
      BY Zenon, <1>3, <1>5, <2>1
  <2>3. s[i] = IF i \in DOMAIN text THEN WithNext(s[i - 1], sep, text[i]) ELSE s[i - 1]
      BY Zenon, <1>1, <1>2, <1>7 DEF JoinBody
  <2>4. Blank(s[i])
      BY Zenon, <2>2, <2>3, WithNextSpaced DEF Blank
  <2> QED BY Zenon, <1>4, <2>4
<1> QED BY Zenon, <1>6, <1>7

(* Lists that are joined make a list, or nothing when there are none.      *)
LEMMA JoinSpaced ==
    ASSUME NEW text, NEW sep \in Chars, NEW n \in Nat, DOMAIN text \subseteq 1..n,
           \A i \in DOMAIN text : Spaced(text[i])
    PROVE  IF DOMAIN text = {} THEN Join(text, sep) = <<>> ELSE Spaced(Join(text, sep))
<1> DEFINE D == {0} \cup DOMAIN text
           last == MaxOf(D)
           s == Joins(text, sep, last)
<1>1. D \subseteq 0..n /\ D # {}
    BY SMT
<1>2. last \in D /\ \A j \in D : j <= last
  <2> HIDE DEF D
  <2> QED BY Zenon, <1>1, Greatest
<1>3. last \in Nat
    BY SMT, <1>1, <1>2
<1>4. Join(text, sep) = s[last]
    BY Zenon, JoinIsJoins
<1>5. s = JoinBody(text, sep, last, s) /\ \A i \in 0..last : Blank(s[i])
  <2> HIDE DEF last
  <2> QED BY Zenon, <1>3, JoinsSolves, JoinsBlank
<1>6. last \in 0..last /\ 0 \in 0..last
  <2> HIDE DEF last
  <2> QED BY SMT, <1>3
<1> HIDE DEF s
<1>7. CASE DOMAIN text = {}
  <2>1. last = 0
      BY Zenon, <1>2, <1>7
  <2>2. s[last] = <<>>
      BY Zenon, <1>5, <1>6, <2>1 DEF JoinBody
  <2> QED BY Zenon, <1>4, <1>7, <2>2
<1>8. CASE DOMAIN text # {}
  <2>1. last # 0 /\ last \in DOMAIN text
    <3>1. PICK j \in DOMAIN text : j \in D /\ j \in 1..n
        BY Zenon, <1>8
    <3>2. j <= last
        BY Zenon, <1>2, <3>1
    <3>3. last # 0
      <4> HIDE DEF last
      <4> QED BY SMT, <1>3, <3>1, <3>2
    <3> QED BY Zenon, <1>2, <3>3
  <2>2. s[last] = WithNext(s[last - 1], sep, text[last])
      BY Zenon, <1>5, <1>6, <2>1 DEF JoinBody
  <2>3. Blank(s[last - 1])
    <3>1. last - 1 \in 0..last
      <4> HIDE DEF last
      <4> QED BY SMT, <1>3, <2>1
    <3> QED BY Zenon, <1>5, <3>1
  <2>4. Spaced(s[last])
      BY Zenon, <2>1, <2>2, <2>3, WithNextSpaced
  <2> QED BY Zenon, <1>4, <1>8, <2>4
<1> QED BY Zenon, <1>7, <1>8

(* The values of labels are lists.                                         *)
LEMMA Separators == "." \in Chars /\ "-" \in Chars /\ "_" \in Chars
BY Zenon DEF Chars

LEMMA NumbersSpaced ==
    /\ Len(Digits) \in Nat /\ Len(Decimal) \in Nat
    /\ \A c \in Cards : Spaced(Digits[c])
    /\ \A n \in 1..Len(Decimal) : Spaced(Decimal[n])
<1> DEFINE Texts == Seq(AlphaNum) \ {<<>>}
<1>1. Digits \in Seq(Texts) /\ Decimal \in Seq(Texts)
    BY Zenon, TextAssumption
<1> HIDE DEF Texts
<1>2. /\ Len(Digits) \in Nat /\ Len(Decimal) \in Nat
      /\ \A c \in 1..Len(Digits) : Digits[c] \in Texts
      /\ \A n \in 1..Len(Decimal) : Decimal[n] \in Texts
    BY SMT, <1>1
<1> QED BY Zenon, <1>2, TextSpaced DEF Cards, Texts

LEMMA NamesSpaced ==
    ASSUME NEW S, S \subseteq Cards
    PROVE  IF S = {} THEN Names(S) = <<>> ELSE Spaced(Names(S))
<1> DEFINE text == [c \in S |-> Digits[c]]
<1>1. DOMAIN text = S /\ \A c \in DOMAIN text : Spaced(text[c])
    BY Zenon, NumbersSpaced
<1>2. DOMAIN text \subseteq 1..Len(Digits) /\ Len(Digits) \in Nat
    BY Zenon, <1>1, NumbersSpaced DEF Cards
<1>3. Names(S) = Join(text, ".")
    BY Zenon DEF Names
<1> HIDE DEF text
<1>4. IF DOMAIN text = {} THEN Join(text, ".") = <<>> ELSE Spaced(Join(text, "."))
    BY Zenon, <1>1, <1>2, Separators, JoinSpaced
<1> QED BY Zenon, <1>1, <1>3, <1>4

LEMMA NumaSpaced ==
    ASSUME NEW S, S \subseteq Cards
    PROVE  Blank(createNumaNodeMappingLabel(S))
<1> DEFINE D == {Machine.numa[c] + 1 : c \in S} \ {0}
           At(n) == {c \in S : Machine.numa[c] + 1 = n}
           text == [n \in D |-> Decimal[n] \o <<"-">> \o Names(At(n))]
<1>1. ASSUME NEW c \in S, Machine.numa[c] + 1 # 0 PROVE Machine.numa[c] + 1 \in 1..Len(Decimal)
  <2>1. Machine.numa[c] \in -1..Len(Decimal) - 1
      BY Zenon, MachineAssumption
  <2> DEFINE x == Machine.numa[c]
  <2> HIDE DEF x
  <2>2. x + 1 \in 1..Len(Decimal)
      BY SMT, <1>1, <2>1, NumbersSpaced DEF x
  <2> QED BY Zenon, <2>2 DEF x
<1>2. D \subseteq 1..Len(Decimal)
    BY Zenon, <1>1
<1>3. ASSUME NEW n \in D PROVE Spaced(Decimal[n] \o <<"-">> \o Names(At(n)))
  <2>1. At(n) # {} /\ At(n) \subseteq Cards
      BY Zenon
  <2>2. Spaced(Names(At(n)))
    <3> HIDE DEF At
    <3> QED BY Zenon, <2>1, NamesSpaced
  <2>3. Spaced(Decimal[n])
      BY Zenon, <1>2, NumbersSpaced
  <2> HIDE DEF At
  <2> QED BY Zenon, <2>2, <2>3, Separators, SpacedConcat
<1>4. DOMAIN text = D /\ \A n \in DOMAIN text : Spaced(text[n])
    BY Zenon, <1>3
<1>5. createNumaNodeMappingLabel(S) = Join(text, "_")
    BY Zenon DEF createNumaNodeMappingLabel
<1> HIDE DEF text, D
<1>6. IF DOMAIN text = {} THEN Join(text, "_") = <<>> ELSE Spaced(Join(text, "_"))
    BY Zenon, <1>2, <1>4, Separators, NumbersSpaced, JoinSpaced
<1> QED BY Zenon, <1>5, <1>6 DEF Blank

LEMMA GroupsSpaced ==
    ASSUME NEW S, S \subseteq Cards
    PROVE  Blank(createPCIGroupLabel(S))
<1> DEFINE D == {Machine.group[c] : c \in S} \ {0}
           At(g) == {c \in S : Machine.group[c] = g}
           text == [g \in D |-> Names(At(g))]
<1>1. D \subseteq 1..Len(Digits)
  <2>1. D \subseteq 0..Len(Digits) /\ 0 \notin D
      BY Zenon, MachineAssumption
  <2> HIDE DEF D
  <2> QED BY SMT, <2>1, NumbersSpaced
<1>2. ASSUME NEW g \in D PROVE Spaced(Names(At(g)))
  <2>1. At(g) # {} /\ At(g) \subseteq Cards
      BY Zenon
  <2> HIDE DEF At
  <2> QED BY Zenon, <2>1, NamesSpaced
<1>3. DOMAIN text = D /\ \A g \in DOMAIN text : Spaced(text[g])
    BY Zenon, <1>2
<1>4. createPCIGroupLabel(S) = Join(text, "_")
    BY Zenon DEF createPCIGroupLabel
<1> HIDE DEF text, D
<1>5. IF DOMAIN text = {} THEN Join(text, "_") = <<>> ELSE Spaced(Join(text, "_"))
    BY Zenon, <1>1, <1>3, Separators, NumbersSpaced, JoinSpaced
<1> QED BY Zenon, <1>4, <1>5 DEF Blank

LEMMA PointSpaced ==
    ASSUME NEW e \in Points, e[1] >= 0, e[2] >= 0
    PROVE  Spaced(Point(e))
<1>1. e[1] + 1 \in 1..Len(Decimal) /\ e[2] + 1 \in 1..Len(Decimal)
    BY SMT, NumbersSpaced DEF Points
<1> DEFINE x == Decimal[e[1] + 1]
           y == Decimal[e[2] + 1]
<1>2. Spaced(x) /\ Spaced(y)
    BY Zenon, <1>1, NumbersSpaced
<1>3. Point(e) = x \o <<".">> \o y
    BY Zenon DEF Point
<1> HIDE DEF x, y
<1> QED BY Zenon, <1>2, <1>3, Separators, SpacedConcat

LEMMA LinksSpaced ==
    ASSUME NEW ms \in Seq(Cells)
    PROVE  Blank(Links(ms))
<1> DEFINE D == linksOf(ms)
           cell(i) == cellToString(ms[i])
           text == [i \in D |-> Point(cell(i)[1]) \o <<"-">> \o Point(cell(i)[2])]
<1>1. D \subseteq 1..Len(ms) /\ Len(ms) \in Nat
  <2>1. D \subseteq DOMAIN ms
      BY Zenon DEF linksOf, GetTopologyFromXPUMMetrics
  <2>2. DOMAIN ms = 1..Len(ms) /\ Len(ms) \in Nat
      BY SMT
  <2> QED BY Zenon, <2>1, <2>2
<1>2. ASSUME NEW i \in D PROVE Spaced(Point(cell(i)[1]) \o <<"-">> \o Point(cell(i)[2]))
  <2>1. i \in DOMAIN ms /\ isValidTopologyCell(ms[i])
      BY Zenon DEF linksOf, GetTopologyFromXPUMMetrics, processMetricsLabels
  <2>2. ms[i].local \in Points /\ ms[i].remote \in Points
      BY Zenon, <2>1, ListOf
  <2>3. 1 \in 1..2 /\ 2 \in 1..2
      BY SMT
  <2>4. Spaced(Point(ms[i].local)) /\ Spaced(Point(ms[i].remote))
      BY Zenon, <2>1, <2>2, <2>3, PointSpaced DEF isValidTopologyCell
  <2>5. \/ cell(i)[1] = ms[i].local /\ cell(i)[2] = ms[i].remote
        \/ cell(i)[1] = ms[i].remote /\ cell(i)[2] = ms[i].local
      BY SMT DEF cellToString
  <2> QED BY Zenon, <2>4, <2>5, Separators, SpacedConcat
<1>3. DOMAIN text = D /\ \A i \in DOMAIN text : Spaced(text[i])
    BY Zenon, <1>2
<1>4. Links(ms) = Join(text, "_")
    BY Zenon DEF Links
<1> HIDE DEF text, D
<1>5. IF DOMAIN text = {} THEN Join(text, "_") = <<>> ELSE Spaced(Join(text, "_"))
    BY Zenon, <1>1, <1>3, Separators, JoinSpaced
<1> QED BY Zenon, <1>4, <1>5 DEF Blank

-----------------------------------------------------------------------------
(* Splitting.                                                              *)

LEMMA RoomIsWide ==
    ASSUME NEW k \in Nat
    PROVE  Room(k) \in Nat /\ Room(k) >= 2 /\ Room(k) <= MaxLength
           /\ (k # 1 => Room(k) + 1 <= MaxLength)
BY SMT, TextAssumption DEF Room

(* A list can be cut wherever there is room for two characters.            *)
LEMMA NextCutEnds ==
    ASSUME NEW s, Spaced(s), NEW p \in 0..Len(s), NEW max \in Nat, max >= 2
    PROVE  /\ NextCut(s, p, max) \in p..Len(s)
           /\ NextCut(s, p, max) - p <= max
           /\ p # Len(s) => NextCut(s, p, max) # p /\ IsAlphaNum(s[NextCut(s, p, max)])
<1> DEFINE n    == Len(s)
           ends == {i \in p + 1..p + max : IsAlphaNum(s[i])}
<1>1. n \in Nat /\ IsAlphaNum(s[n])
  <2>1. s \in Seq(Chars) /\ IsAlphaNum(s[n])
      BY Zenon DEF Spaced
  <2> QED BY SMT, <2>1
<1>2. CASE n - p <= max
  <2>1. NextCut(s, p, max) = n
      BY Zenon, <1>2 DEF NextCut
  <2>2. n \in p..n
    <3> HIDE DEF n
    <3> QED BY SMT, <1>1 DEF n
  <2> QED BY Zenon, <1>1, <1>2, <2>1, <2>2
<1>3. CASE ~(n - p <= max)
  <2>1. p + 1 \in 1..n - 1 /\ p + 1 \in p + 1..p + max /\ p + 1 + 1 \in p + 1..p + max
      BY SMT, <1>1, <1>3
  <2>2. IsAlphaNum(s[p + 1]) \/ IsAlphaNum(s[p + 1 + 1])
      BY Zenon, <2>1 DEF Spaced
  <2>3. ends # {}
      BY Zenon, <2>1, <2>2
  <2>4. ends \subseteq 0..p + max /\ p + max \in Nat
      BY SMT
  <2>5. MaxOf(ends) \in ends
    <3> HIDE DEF ends
    <3> QED BY Zenon, <2>3, <2>4, Greatest
  <2>6. NextCut(s, p, max) = MaxOf(ends)
      BY Zenon, <1>3, <2>3 DEF NextCut
  <2> DEFINE q == MaxOf(ends)
  <2>7. q \in p + 1..p + max /\ IsAlphaNum(s[q])
      BY Zenon, <2>5
  <2> HIDE DEF q, n
  <2>8. q \in p..n /\ q - p <= max /\ q # p
      BY SMT, <1>1, <1>3, <2>7 DEF n
  <2> QED BY Zenon, <2>6, <2>7, <2>8 DEF q, n
<1> QED BY Zenon, <1>2, <1>3

CutBody(s, g) ==
    [k \in 0..Len(s) + 1 |-> IF k = 0 THEN 0 ELSE NextCut(s, g[k - 1], Room(k))]

LEMMA CutsSolve ==
    ASSUME NEW s, Spaced(s)
    PROVE  Cuts(s) = CutBody(s, Cuts(s))
<1> DEFINE n == Len(s)
           V == 0..n
           d == [k \in 1..n + 1 |-> [p \in V |-> NextCut(s, p, Room(k))]]
<1>1. n \in Nat /\ 0 \in V /\ n + 1 \in Nat
  <2>1. s \in Seq(Chars)
      BY Zenon DEF Spaced
  <2> QED BY SMT, <2>1
<1>2. ASSUME NEW k \in 1..n + 1, NEW p \in V PROVE NextCut(s, p, Room(k)) \in V
  <2>1. Room(k) \in Nat /\ Room(k) >= 2
    <3>1. k \in Nat
        BY SMT
    <3> QED BY Zenon, <3>1, RoomIsWide
  <2>2. NextCut(s, p, Room(k)) \in p..n
      BY Zenon, <2>1, NextCutEnds
  <2> DEFINE q == NextCut(s, p, Room(k))
  <2> HIDE DEF q, n
  <2>3. q \in V
      BY SMT, <1>1, <2>2 DEF q
  <2> QED BY Zenon, <2>3 DEF q
<1>3. d \in [1..n + 1 -> [V -> V]]
    BY Zenon, <1>2
<1>4. PICK f : Chain(V, 0, d, n + 1, f)
  <2> HIDE DEF V, d, n
  <2> QED BY Zenon, <1>1, <1>3, ChainExists
<1>5. f = CutBody(s, f)
  <2>1. f = [k \in 0..n + 1 |-> f[k]]
      BY Zenon, <1>4 DEF Chain
  <2>2. ASSUME NEW k \in 0..n + 1, k # 0 PROVE f[k] = NextCut(s, f[k - 1], Room(k))
    <3>1. k \in 1..n + 1 /\ k - 1 \in 0..n + 1
      <4> HIDE DEF n
      <4> QED BY SMT, <1>1, <2>2
    <3>2. f[k] = d[k][f[k - 1]] /\ f[k - 1] \in V
        BY Zenon, <1>4, <3>1 DEF Chain
    <3> QED BY Zenon, <3>1, <3>2
  <2>3. f[0] = 0
      BY Zenon, <1>4 DEF Chain
  <2> QED BY Zenon, <2>1, <2>2, <2>3 DEF CutBody
<1>6. Cuts(s) = CHOOSE g : g = CutBody(s, g)
    BY Zenon DEF Cuts, CutBody
<1> QED BY Zenon, <1>5, <1>6

LEMMA CutsAdvance ==
    ASSUME NEW s, Spaced(s)
    PROVE  /\ Cuts(s)[0] = 0
           /\ \A k \in 0..Len(s) + 1 : Cuts(s)[k] \in 0..Len(s)
                                       /\ (Cuts(s)[k] = Len(s) \/ Cuts(s)[k] >= k)
           /\ \A k \in 1..Len(s) + 1 : Cuts(s)[k] = NextCut(s, Cuts(s)[k - 1], Room(k))
<1> DEFINE n   == Len(s)
           cut == Cuts(s)
           Good(k) == cut[k] \in 0..n /\ (cut[k] = n \/ cut[k] >= k)
           T   == {k \in 0..n + 1 : ~Good(k)}
<1>1. n \in Nat
  <2>1. s \in Seq(Chars)
      BY Zenon DEF Spaced
  <2> QED BY SMT, <2>1
<1>2. cut = CutBody(s, cut)
    BY Zenon, CutsSolve
<1> HIDE DEF cut
<1>3. 0 \in 0..n + 1 /\ \A k \in 1..n + 1 : k \in 0..n + 1 /\ k # 0 /\ k \in Nat
  <2> HIDE DEF n
  <2> QED BY SMT, <1>1
<1>4. cut[0] = 0 /\ \A k \in 1..n + 1 : cut[k] = NextCut(s, cut[k - 1], Room(k))
    BY Zenon, <1>2, <1>3 DEF CutBody
<1>5. T = {}
  <2> SUFFICES ASSUME T # {} PROVE FALSE
      BY Zenon
  <2>1. T \subseteq Nat /\ \A k \in T : k \in 0..n + 1
    <3> HIDE DEF Good
    <3> QED BY SMT, <1>1
  <2>2. \A k \in 0..n + 1 : k \notin T => Good(k)
      BY Zenon
  <2>3. \A k \in T : ~Good(k)
      BY Zenon
  <2> HIDE DEF T
  <2>4. PICK k \in T : \A m \in T : k <= m
      BY Zenon, <2>1, Least
  <2>5. k # 0
    <3>1. Good(0)
      <4> HIDE DEF n
      <4> QED BY SMT, <1>1, <1>4
    <3> QED BY Zenon, <2>3, <3>1
  <2>6. k \in 1..n + 1 /\ k - 1 \in 0..n + 1 /\ ~(k <= k - 1)
    <3> HIDE DEF n
    <3> QED BY SMT, <1>1, <2>1, <2>5
  <2>7. Good(k - 1)
    <3> HIDE DEF Good
    <3> QED BY Zenon, <2>2, <2>4, <2>6
  <2> DEFINE p == cut[k - 1]
             q == cut[k]
  <2>8. p \in 0..n /\ (p = n \/ p >= k - 1) /\ q = NextCut(s, p, Room(k))
      BY Zenon, <1>4, <2>6, <2>7
  <2>9. q \in p..n /\ (p # n => q # p)
    <3>1. Room(k) \in Nat /\ Room(k) >= 2
        BY Zenon, <1>3, <2>6, RoomIsWide
    <3> HIDE DEF p, q
    <3> QED BY Zenon, <2>8, <3>1, NextCutEnds
  <2>10. q \in 0..n /\ (q = n \/ q >= k)
    <3> HIDE DEF p, q, n
    <3> QED BY SMT, <1>1, <2>6, <2>8, <2>9
  <2> QED BY Zenon, <2>3, <2>10
<1>6. \A k \in 0..n + 1 : Good(k)
    BY Zenon, <1>5
<1> QED BY Zenon, <1>4, <1>6 DEF cut

LEMMA CutsStep ==
    ASSUME NEW s, Spaced(s), NEW k \in 1..Len(s) + 1
    PROVE  /\ Cuts(s)[k - 1] \in 0..Len(s)
           /\ Cuts(s)[k] \in Cuts(s)[k - 1]..Len(s)
           /\ Cuts(s)[k] - Cuts(s)[k - 1] <= Room(k)
           /\ Cuts(s)[k - 1] # Len(s) => /\ Cuts(s)[k] # Cuts(s)[k - 1]
                                        /\ IsAlphaNum(s[Cuts(s)[k]])
<1> DEFINE n == Len(s)
           p == Cuts(s)[k - 1]
           q == Cuts(s)[k]
<1>1. n \in Nat
  <2>1. s \in Seq(Chars)
      BY Zenon DEF Spaced
  <2> QED BY SMT, <2>1
<1>2. k \in Nat /\ k - 1 \in 0..n + 1
  <2> HIDE DEF n
  <2> QED BY SMT, <1>1 DEF n
<1>3. p \in 0..n /\ q = NextCut(s, p, Room(k))
    BY Zenon, <1>2, CutsAdvance
<1>4. Room(k) \in Nat /\ Room(k) >= 2
    BY Zenon, <1>2, RoomIsWide
<1> HIDE DEF p, q
<1>5. q \in p..n /\ q - p <= Room(k) /\ (p # n => q # p /\ IsAlphaNum(s[q]))
    BY Zenon, <1>3, <1>4, NextCutEnds
<1> QED BY Zenon, <1>3, <1>5 DEF p, q

(* The chunks of a list: as many as cuts up to its end.                    *)
Done(s) == {k \in 1..Len(s) + 1 : Cuts(s)[k] = Len(s)}

Part(s, k) == SubSeq(s, Cuts(s)[k - 1] + 1, Cuts(s)[k])

Chunk(s, k) == (IF k = 1 THEN <<>> ELSE <<"Z">>) \o Part(s, k)

LEMMA SplitIs ==
    ASSUME NEW s, Spaced(s), NEW m, m = MinOf(Done(s))
    PROVE  /\ m \in 1..Len(s) + 1 /\ Cuts(s)[m] = Len(s)
           /\ \A k \in 1..m : k \in 1..Len(s) + 1 /\ Cuts(s)[k - 1] # Len(s)
           /\ SplitAtLastAlphaNum(s) = [k \in 1..m |-> Chunk(s, k)]
<1> DEFINE n   == Len(s)
           cut == Cuts(s)
<1>1. n \in Nat \ {0}
  <2>1. s \in Seq(Chars) /\ s # <<>>
      BY Zenon DEF Spaced
  <2> QED BY Zenon, <2>1, EmptySeq
<1>2. n + 1 \in Done(s)
  <2>1. n + 1 \in 0..n + 1 /\ n + 1 \in 1..n + 1
    <3> HIDE DEF n
    <3> QED BY SMT, <1>1
  <2>2. cut[n + 1] \in 0..n /\ (cut[n + 1] = n \/ cut[n + 1] >= n + 1)
      BY Zenon, <2>1, CutsAdvance
  <2>3. cut[n + 1] = n
    <3> DEFINE x == cut[n + 1]
    <3> HIDE DEF x, n
    <3>1. x = n
        BY SMT, <1>1, <2>2 DEF x
    <3> QED BY Zenon, <3>1 DEF x
  <2> QED BY Zenon, <2>1, <2>3 DEF Done
<1>3. Done(s) \subseteq Nat
  <2>1. Done(s) \subseteq 1..n + 1
      BY Zenon DEF Done
  <2> HIDE DEF n
  <2> QED BY SMT, <1>1, <2>1
<1>4. m \in Done(s) /\ \A k \in Done(s) : m <= k
    BY Zenon, <1>2, <1>3, Smallest
<1>5. m \in 1..n + 1 /\ cut[m] = n
    BY Zenon, <1>4 DEF Done
<1>6. ASSUME NEW k \in 1..m PROVE k \in 1..n + 1 /\ cut[k - 1] # n
  <2>1. k \in 1..n + 1 /\ ~(m <= k - 1) /\ (k # 1 => k - 1 \in 1..n + 1)
    <3> HIDE DEF n
    <3> QED BY SMT, <1>1, <1>5
  <2>2. CASE k = 1
    <3>1. k - 1 = 0
        BY SMT, <2>2
    <3>2. cut[k - 1] = 0
        BY Zenon, <3>1, CutsAdvance
    <3> QED BY Zenon, <1>1, <2>1, <3>2
  <2>3. CASE k # 1
    <3>1. k - 1 \notin Done(s)
        BY Zenon, <1>4, <2>1
    <3> QED BY Zenon, <2>1, <2>3, <3>1 DEF Done
  <2> QED BY Zenon, <2>2, <2>3
<1>7. SplitAtLastAlphaNum(s) = [k \in 1..m |-> Chunk(s, k)]
  <2>1. ~(MaxLength <= 1)
      BY SMT, TextAssumption
  <2>2. Done(s) # {}
      BY Zenon, <1>2
  <2> QED BY Zenon, <2>1, <2>2 DEF SplitAtLastAlphaNum, Done, Chunk, Part
<1> QED BY Zenon, <1>5, <1>6, <1>7

LEMMA PartOf ==
    ASSUME NEW s \in Seq(Chars), NEW p \in 0..Len(s), NEW q \in p..Len(s), p # q
    PROVE  /\ SubSeq(s, p + 1, q) \in Seq(Chars)
           /\ Len(SubSeq(s, p + 1, q)) = q - p
           /\ SubSeq(s, p + 1, q)[1] = s[p + 1] /\ SubSeq(s, p + 1, q)[q - p] = s[q]
<1>1. /\ Len(s) \in Nat /\ p + 1 \in Int /\ q \in Int /\ p + 1 <= q
      /\ \A i \in p + 1..q : i \in 1..Len(s)
    BY SMT
<1>2. \A i \in p + 1..q : s[i] \in Chars
    BY Zenon, <1>1, ElementOfSeq
<1> DEFINE t == SubSeq(s, p + 1, q)
<1>3. /\ t \in Seq(Chars) /\ Len(t) = IF p + 1 <= q THEN q - (p + 1) + 1 ELSE 0
      /\ \A i \in 1..q - (p + 1) + 1 : t[i] = s[p + 1 + i - 1]
    BY <1>1, <1>2, SubSeqProperties
<1> HIDE DEF t
<1>4. Len(t) = q - p
    BY SMT, <1>1, <1>3
<1>5. t[1] = s[p + 1] /\ t[q - p] = s[q]
  <2>1. /\ 1 \in 1..q - (p + 1) + 1 /\ q - p \in 1..q - (p + 1) + 1
        /\ p + 1 + 1 - 1 = p + 1 /\ p + 1 + (q - p) - 1 = q
      BY SMT, <1>1
  <2> QED BY SMT, <1>3, <2>1
<1> QED BY Zenon, <1>3, <1>4, <1>5 DEF t

LEMMA WithZ ==
    ASSUME NEW t \in Seq(Chars), t # <<>>, "Z" \in Chars
    PROVE  /\ <<"Z">> \o t \in Seq(Chars) /\ <<"Z">> \o t # <<>>
           /\ Len(<<"Z">> \o t) = Len(t) + 1
           /\ (<<"Z">> \o t)[1] = "Z" /\ (<<"Z">> \o t)[Len(t) + 1] = t[Len(t)]
           /\ Tail(<<"Z">> \o t) = t
<1> DEFINE z == <<"Z">>
           u == z \o t
           n == Len(t)
<1>1. z \in Seq(Chars) /\ Len(z) = 1 /\ z[1] = "Z"
  <2>1. z \in Seq(Chars) /\ Len(z) = 1
      BY Zenon, OneLetter
  <2> QED BY SMT, <2>1
<1>2. n \in Nat \ {0}
    BY Zenon, EmptySeq
<1> HIDE DEF z
<1>3. /\ u \in Seq(Chars) /\ Len(u) = 1 + n /\ u[1] = z[1]
      /\ \A i \in 1..n : u[1 + i] = t[i]
  <2>1. /\ u \in Seq(Chars) /\ Len(u) = Len(z) + Len(t)
        /\ \A i \in 1..Len(z) : u[i] = z[i]
        /\ \A i \in 1..Len(t) : u[Len(z) + i] = t[i]
      BY SMT, <1>1, ConcatAt
  <2> HIDE DEF u
  <2> QED BY SMT, <1>1, <2>1
<1> HIDE DEF u
<1>4. u # <<>>
    BY SMT, <1>2, <1>3
<1>5. u[n + 1] = t[n]
    BY SMT, <1>2, <1>3
<1>6. Tail(u) = t
  <2>1. /\ Tail(u) \in Seq(Chars) /\ Len(Tail(u)) = Len(u) - 1
        /\ \A i \in 1..Len(Tail(u)) : Tail(u)[i] = u[i + 1]
      BY Zenon, <1>3, <1>4, HeadTailProperties
  <2> DEFINE v == Tail(u)
  <2> HIDE DEF v, n
  <2>2. Len(v) = n
      BY SMT, <1>2, <1>3, <2>1 DEF v
  <2>3. \A i \in 1..Len(v) : v[i] = t[i]
      BY SMT, <1>2, <1>3, <2>1, <2>2 DEF v
  <2>4. v \in Seq(Chars) /\ Len(t) = n
      BY Zenon, <2>1 DEF v, n
  <2>5. v = t
      BY Zenon, <2>2, <2>3, <2>4, SeqEqual
  <2> QED BY Zenon, <2>5 DEF v
<1>7. Len(u) = n + 1
    BY SMT, <1>2, <1>3
<1> QED BY Zenon, <1>1, <1>3, <1>4, <1>5, <1>6, <1>7 DEF u, z

LEMMA ChunkGood ==
    ASSUME NEW s, Spaced(s), NEW k \in 1..Len(s) + 1, Cuts(s)[k - 1] # Len(s)
    PROVE  /\ Part(s, k) \in Seq(Chars)
           /\ Chunk(s, k) = IF k = 1 THEN Part(s, k) ELSE <<"Z">> \o Part(s, k)
           /\ k # 1 => Tail(Chunk(s, k)) = Part(s, k)
           /\ Chunk(s, k) \in Seq(Chars) /\ Len(Chunk(s, k)) <= MaxLength
           /\ IsAlphaNum(Chunk(s, k)[1]) /\ IsAlphaNum(Chunk(s, k)[Len(Chunk(s, k))])
<1> DEFINE n == Len(s)
           p == Cuts(s)[k - 1]
           q == Cuts(s)[k]
           t == Part(s, k)
<1>1. s \in Seq(Chars) /\ n \in Nat /\ k \in Nat
  <2>1. s \in Seq(Chars)
      BY Zenon DEF Spaced
  <2>2. n \in Nat
      BY SMT, <2>1
  <2> HIDE DEF n
  <2>3. k \in Nat
      BY SMT, <2>2 DEF n
  <2> QED BY Zenon, <2>1, <2>2, <2>3
<1>2. p \in 0..n /\ q \in p..n /\ q - p <= Room(k) /\ p # q /\ IsAlphaNum(s[q])
    BY Zenon, CutsStep
<1>3. t = SubSeq(s, p + 1, q)
    BY Zenon DEF Part
<1>4. t \in Seq(Chars) /\ Len(t) = q - p /\ t[1] = s[p + 1] /\ t[q - p] = s[q]
  <2> HIDE DEF p, q, t
  <2> QED BY Zenon, <1>1, <1>2, <1>3, PartOf
<1>5. t # <<>> /\ IsAlphaNum(t[Len(t)])
  <2>1. IsAlphaNum(t[Len(t)])
      BY Zenon, <1>2, <1>4
  <2>2. t # <<>>
    <3> HIDE DEF p, q, t, n
    <3> QED BY SMT, <1>1, <1>2, <1>4
  <2> QED BY Zenon, <2>1, <2>2
<1>6. /\ Room(k) \in Nat /\ Room(k) <= MaxLength /\ MaxLength \in Nat
      /\ (k # 1 => Room(k) + 1 <= MaxLength)
    BY Zenon, <1>1, RoomIsWide, TextAssumption
<1>7. CASE k = 1
  <2>1. p = 0
    <3>1. k - 1 = 0
        BY SMT, <1>7
    <3> QED BY Zenon, <3>1, CutsAdvance
  <2>2. t[1] = s[1]
    <3>1. p + 1 = 1
        BY SMT, <2>1
    <3> QED BY Zenon, <1>4, <3>1
  <2>3. Chunk(s, k) = t
    <3>1. <<>> \o t = t
      <4> HIDE DEF t
      <4> QED BY Zenon, <1>4, ConcatEmptySeq
    <3> QED BY Zenon, <1>7, <3>1 DEF Chunk
  <2>4. Len(t) <= MaxLength
    <3> HIDE DEF p, q, t, n
    <3> QED BY SMT, <1>1, <1>2, <1>4, <1>6
  <2>5. IsAlphaNum(t[1])
      BY Zenon, <2>2 DEF Spaced
  <2> QED BY Zenon, <1>4, <1>5, <1>7, <2>3, <2>4, <2>5
<1>8. CASE k # 1
  <2> DEFINE u == <<"Z">> \o t
  <2>1. Chunk(s, k) = u
      BY Zenon, <1>8 DEF Chunk
  <2>2. IsAlphaNum("Z") /\ "Z" \in Chars
      BY Zenon, TextAssumption DEF IsAlphaNum, Chars
  <2>3. /\ u \in Seq(Chars) /\ Len(u) = Len(t) + 1
        /\ u[1] = "Z" /\ u[Len(t) + 1] = t[Len(t)] /\ Tail(u) = t
    <3> HIDE DEF t
    <3> QED BY Zenon, <1>4, <1>5, <2>2, WithZ
  <2> HIDE DEF u
  <2>4. Len(u) <= MaxLength
    <3> HIDE DEF p, q, t, n
    <3> QED BY SMT, <1>1, <1>2, <1>4, <1>6, <1>8, <2>3
  <2>5. IsAlphaNum(u[1]) /\ IsAlphaNum(u[Len(u)])
      BY Zenon, <1>5, <2>2, <2>3
  <2> QED BY Zenon, <1>4, <1>8, <2>1, <2>3, <2>4, <2>5 DEF u
<1> QED BY Zenon, <1>7, <1>8

(* The function that ConcatAlphaNumSplitChunks goes through.               *)
ConcatBody(chunks, g) ==
    [i \in 0..Len(chunks) |->
       IF i = 0 THEN <<>> ELSE g[i - 1] \o (IF i = 1 THEN chunks[1] ELSE Tail(chunks[i]))]

Concats(chunks) == CHOOSE g : g = ConcatBody(chunks, g)

LEMMA ConcatIsConcats ==
    ASSUME NEW chunks
    PROVE  ConcatAlphaNumSplitChunks(chunks) = Concats(chunks)[Len(chunks)]
BY Zenon DEF ConcatAlphaNumSplitChunks, Concats, ConcatBody

(* What the chunks hold of the string, and that g puts it together.        *)
Parts(chunks, part) ==
    \A i \in 1..Len(chunks) : /\ part[i] \in Seq(Chars)
                              /\ part[i] = IF i = 1 THEN chunks[1] ELSE Tail(chunks[i])

Adds(g, chunks, part) ==
    g[0] = <<>> /\ \A i \in 1..Len(chunks) : g[i] = g[i - 1] \o part[i]

LEMMA ConcatsSolve ==
    ASSUME NEW chunks, Len(chunks) \in Nat, NEW part, Parts(chunks, part)
    PROVE  Adds(Concats(chunks), chunks, part)
<1> DEFINE n == Len(chunks)
           V == Seq(Chars)
           d == [i \in 1..n |-> [s \in V |-> s \o part[i]]]
           g == Concats(chunks)
<1>1. <<>> \in V
    BY Zenon, EmptySeq
<1>2. ASSUME NEW i \in 1..n, NEW s \in V PROVE s \o part[i] \in V
    BY Zenon, ConcatProperties DEF Parts
<1>3. d \in [1..n -> [V -> V]]
  <2> HIDE DEF V
  <2> QED BY Zenon, <1>2
<1>4. PICK f : Chain(V, <<>>, d, n, f)
  <2> HIDE DEF V, d
  <2> QED BY Zenon, <1>1, <1>3, ChainExists
<1>5. f = ConcatBody(chunks, f)
  <2>1. f = [i \in 0..n |-> f[i]]
      BY Zenon, <1>4 DEF Chain
  <2>2. ASSUME NEW i \in 0..n, i # 0
        PROVE  f[i] = f[i - 1] \o (IF i = 1 THEN chunks[1] ELSE Tail(chunks[i]))
    <3>1. i \in 1..n /\ i - 1 \in 0..n
      <4> HIDE DEF n
      <4> QED BY SMT, <2>2 DEF n
    <3>2. f[i] = d[i][f[i - 1]] /\ f[i - 1] \in V
        BY Zenon, <1>4, <3>1 DEF Chain
    <3>3. f[i] = f[i - 1] \o part[i]
        BY Zenon, <3>1, <3>2
    <3> QED BY Zenon, <3>1, <3>3 DEF Parts
  <2>3. f[0] = <<>>
      BY Zenon, <1>4 DEF Chain
  <2> QED BY Zenon, <2>1, <2>2, <2>3 DEF ConcatBody
<1>6. g = ConcatBody(chunks, g)
    BY Zenon, <1>5 DEF Concats
<1> HIDE DEF g
<1>7. 0 \in 0..n /\ \A i \in 1..n : i \in 0..n /\ i # 0
  <2> HIDE DEF n
  <2> QED BY SMT DEF n
<1>8. g[0] = <<>>
    BY Zenon, <1>6, <1>7 DEF ConcatBody
<1>9. ASSUME NEW i \in 1..n PROVE g[i] = g[i - 1] \o part[i]
  <2>1. g[i] = g[i - 1] \o (IF i = 1 THEN chunks[1] ELSE Tail(chunks[i]))
      BY Zenon, <1>6, <1>7 DEF ConcatBody
  <2> QED BY Zenon, <2>1 DEF Parts
<1> QED BY Zenon, <1>8, <1>9 DEF g, Adds

(* Put together, the chunks up to the k-th are the list up to its cut.     *)
LEMMA ChunksMakeList ==
    ASSUME NEW s, Spaced(s), NEW m, m = MinOf(Done(s)),
           NEW chunks, chunks = [k \in 1..m |-> Chunk(s, k)]
    PROVE  ConcatAlphaNumSplitChunks(chunks) = s
<1> DEFINE n    == Len(s)
           cut  == Cuts(s)
           part == [k \in 1..m |-> Part(s, k)]
           g    == Concats(chunks)
           T    == {k \in 0..m : g[k] # SubSeq(s, 1, cut[k])}
<1>1. s \in Seq(Chars) /\ n \in Nat
  <2>1. s \in Seq(Chars)
      BY Zenon DEF Spaced
  <2> QED BY SMT, <2>1
<1>2. /\ m \in 1..n + 1 /\ cut[m] = n
      /\ \A k \in 1..m : k \in 1..n + 1 /\ cut[k - 1] # n
    BY Zenon, SplitIs
<1>3. m \in Nat /\ m \in 0..m /\ 1 \in 1..m
  <2> HIDE DEF n, cut
  <2> QED BY SMT, <1>1, <1>2
<1>4. Len(chunks) = m
    BY SMT, <1>3
<1>5. ASSUME NEW k \in 1..m
      PROVE  /\ part[k] \in Seq(Chars)
             /\ part[k] = IF k = 1 THEN chunks[1] ELSE Tail(chunks[k])
  <2>1. part[k] = Part(s, k) /\ chunks[k] = Chunk(s, k)
      BY Zenon
  <2>2. /\ Part(s, k) \in Seq(Chars)
        /\ Chunk(s, k) = IF k = 1 THEN Part(s, k) ELSE <<"Z">> \o Part(s, k)
        /\ k # 1 => Tail(Chunk(s, k)) = Part(s, k)
      BY Zenon, <1>2, ChunkGood
  <2> QED BY Zenon, <2>1, <2>2
<1>6. g[0] = <<>> /\ \A k \in 1..m : g[k] = g[k - 1] \o part[k]
  <2> HIDE DEF part, g
  <2>1. Len(chunks) \in Nat
      BY Zenon, <1>3, <1>4
  <2>2. Parts(chunks, part)
      BY Zenon, <1>4, <1>5 DEF Parts
  <2>3. Adds(g, chunks, part)
      BY Zenon, <2>1, <2>2, ConcatsSolve DEF g
  <2> QED BY Zenon, <1>4, <2>3 DEF Adds
<1> HIDE DEF g
<1>7. T = {}
  <2> SUFFICES ASSUME T # {} PROVE FALSE
      BY Zenon
  <2>1. T \subseteq 0..m
      BY Zenon
  <2>2. \A k \in 0..m : k \notin T => g[k] = SubSeq(s, 1, cut[k])
      BY Zenon
  <2>3. \A k \in T : g[k] # SubSeq(s, 1, cut[k])
      BY Zenon
  <2> HIDE DEF T
  <2>4. T \subseteq Nat
      BY SMT, <1>3, <2>1
  <2>5. PICK k \in T : \A j \in T : k <= j
      BY Zenon, <2>4, Least
  <2>6. CASE k = 0
    <3>1. cut[0] = 0
        BY Zenon, CutsAdvance
    <3>2. SubSeq(s, 1, 0) = <<>>
        BY SMT, SubSeqEmpty
    <3> QED BY Zenon, <1>6, <2>3, <2>6, <3>1, <3>2
  <2>7. CASE k # 0
    <3>1. k \in 1..m /\ k - 1 \in 0..m /\ ~(k <= k - 1)
        BY SMT, <1>3, <2>1, <2>7
    <3> DEFINE p == cut[k - 1]
               q == cut[k]
    <3>2. g[k - 1] = SubSeq(s, 1, p)
        BY Zenon, <2>2, <2>5, <3>1
    <3>3. part[k] = SubSeq(s, p + 1, q)
        BY Zenon, <3>1 DEF Part
    <3>4. p \in 0..n /\ q \in p..n
        BY Zenon, <1>2, <3>1, CutsStep
    <3> HIDE DEF p, q, cut, part
    <3>5. SubSeq(s, 1, p) \o SubSeq(s, p + 1, q) = SubSeq(s, 1, q)
      <4>1. 1 \in 1..n + 1 /\ p \in 1 - 1..n
        <5> HIDE DEF n
        <5> QED BY SMT, <1>1, <3>4
      <4> QED BY Zenon, <1>1, <3>4, <4>1, ConcatAdjacentSubSeq
    <3>6. g[k] = SubSeq(s, 1, q)
        BY Zenon, <1>6, <3>1, <3>2, <3>3, <3>5
    <3> QED BY Zenon, <2>3, <3>6 DEF q
  <2> QED BY Zenon, <2>6, <2>7
<1>8. g[m] = SubSeq(s, 1, n)
    BY Zenon, <1>2, <1>3, <1>7
<1>9. SubSeq(s, 1, n) = s
    BY Zenon, <1>1, SubSeqFull
<1> QED BY Zenon, <1>4, <1>8, <1>9, ConcatIsConcats DEF g

(* A list is split into valid label values from which it can be put        *)
(* together again.                                                         *)
LEMMA ListsWellSplit ==
    ASSUME NEW s, Blank(s)
    PROVE  WellSplit(s)
<1> SUFFICES ASSUME s # <<>> PROVE WellSplit(s)
    BY Zenon DEF WellSplit
<1> DEFINE m      == MinOf(Done(s))
           chunks == [k \in 1..m |-> Chunk(s, k)]
<1>1. Spaced(s)
    BY Zenon DEF Blank
<1>2. /\ m \in 1..Len(s) + 1
      /\ \A k \in 1..m : k \in 1..Len(s) + 1 /\ Cuts(s)[k - 1] # Len(s)
      /\ SplitAtLastAlphaNum(s) = chunks
    BY Zenon, <1>1, SplitIs
<1>3. \A k \in DOMAIN chunks : /\ Len(chunks[k]) <= MaxLength
                               /\ IsAlphaNum(chunks[k][1])
                               /\ IsAlphaNum(chunks[k][Len(chunks[k])])
  <2>1. DOMAIN chunks = 1..m /\ \A k \in 1..m : chunks[k] = Chunk(s, k)
      BY Zenon
  <2>2. ASSUME NEW k \in 1..m
        PROVE  /\ Len(Chunk(s, k)) <= MaxLength
               /\ IsAlphaNum(Chunk(s, k)[1]) /\ IsAlphaNum(Chunk(s, k)[Len(Chunk(s, k))])
      BY Zenon, <1>1, <1>2, ChunkGood
  <2> HIDE DEF chunks
  <2> QED BY Zenon, <2>1, <2>2
<1>4. chunks # <<>>
  <2>1. s \in Seq(Chars)
      BY Zenon, <1>1 DEF Spaced
  <2>2. 1 \in 1..m
    <3> HIDE DEF m
    <3> QED BY SMT, <1>2, <2>1
  <2>3. 1 \in DOMAIN chunks
      BY Zenon, <2>2
  <2>4. 1 \notin DOMAIN <<>>
      BY SMT
  <2> QED BY Zenon, <2>3, <2>4
<1>5. ConcatAlphaNumSplitChunks(chunks) = s
    BY Zenon, <1>1, ChunksMakeList
<1> HIDE DEF chunks
<1> QED BY Zenon, <1>2, <1>3, <1>4, <1>5 DEF WellSplit

(* Every chunk of a label is a valid label value and the chunks put        *)
(* together give the value, for any cards and metrics and for values of    *)
(* any length above two (SplitAtLastAlphaNum, ConcatAlphaNumSplitChunks).  *)
THEOREM ChunksGiveValues == Spec => []ChunksJoin
<1>1. Known => ChunksJoin
  <2> SUFFICES ASSUME Known PROVE ChunksJoin
      BY Zenon
  <2>1. Blank(Links(metrics))
      BY Zenon, ListsServed, LinksSpaced DEF Known
  <2>2. Blank(Names(cards))
      BY Zenon, NamesSpaced DEF Known, Blank
  <2>3. Blank(createNumaNodeMappingLabel(cards)) /\ Blank(createPCIGroupLabel(cards))
      BY Zenon, NumaSpaced, GroupsSpaced DEF Known
  <2> QED BY Zenon, <2>1, <2>2, <2>3, ListsWellSplit DEF ChunksJoin
<1>2. IInv => Known
    BY Zenon DEF IInv
<1> QED BY Invariant, <1>1, <1>2, PTL
=============================================================================
