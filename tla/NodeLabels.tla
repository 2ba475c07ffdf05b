------------------------------ MODULE NodeLabels ------------------------------
(***************************************************************************)
(* The two writers of GPU labels for node feature discovery, each a loop   *)
(* that creates labels and keeps a file of them: the XPU manager sidecar,  *)
(* which labels the links between GPUs, and the GPU labeler.               *)
(* Source: cmd/xpumanager_sidecar/main.go, cmd/internal/labeler/labeler.go *)
(* and cmd/internal/pluginutils/labels.go.                                 *)
(* Strings that are split are sequences of characters; a line of the file  *)
(* is <<name, number of the chunk, value>>.                                *)
(***************************************************************************)
EXTENDS Integers, FiniteSets, Sequences, Functions

CONSTANTS
    Writers,      \* subset of {"sidecar", "labeler"}
    AlphaNum,     \* letters and digits
    Digits,       \* names of the cards' numbers, in the order of the directory
    Decimal,      \* Decimal[n + 1] is the text of the number n
    Machine,      \* tiles, NUMA node (-1: none), memory per tile (-1: not
                  \* told) and PCI group (0: none) of each card
    Reserved,     \* bytes of memory set aside (GPU_MEMORY_RESERVED)
    Override,     \* bytes of a card that does not tell (GPU_MEMORY_OVERRIDE)
    Word,         \* 2^64
    Metrics,      \* lists of topology metrics XPU manager may serve
    AllowSubdeviceless,
    LaneCount,    \* minimum number of lanes of a link
    MaxLength,    \* 63
    NoFile,
    MaxEvent,     \* changes of cards and metrics
    MaxFault      \* failing reads and writes, kills

Cards == 1..Len(Digits)

VARIABLES
    writer,
    cards,     \* cards present
    metrics,   \* what XPU manager serves; <<>> when it does not answer
    right,     \* the labels of these cards and metrics
    pc,        \* "down", "idle", "write"
    labels,    \* the labels created last, a set of lines
    file,
    appended,  \* the file was last written without a temporary directory
    short,     \* the file was last written in part
    events, faults

vars == <<writer, cards, metrics, right, pc, labels, file, appended, short,
          events, faults>>

-----------------------------------------------------------------------------
(* Strings.                                                                *)

IsAlphaNum(c) == c \in AlphaNum

Chars == AlphaNum \cup {".", "-", "_"}

(* Numbers are written in digits, and a label value has room for three     *)
(* characters.                                                             *)
ASSUME TextAssumption ==
    /\ Digits \in Seq(Seq(AlphaNum) \ {<<>>}) /\ Decimal \in Seq(Seq(AlphaNum) \ {<<>>})
    /\ "Z" \in AlphaNum /\ MaxLength \in Nat /\ MaxLength >= 3

MaxOf(S) == CHOOSE i \in S : \A j \in S : j <= i

MinOf(S) == CHOOSE i \in S : \A j \in S : i <= j

(* Room in the k-th chunk that is not made for the character it begins     *)
(* with.                                                                   *)
RoomAlike(k) == MaxLength

(* Characters of the string in the k-th chunk: every chunk but the first   *)
(* begins with Z.                                                          *)
Room(k) == IF k = 1 THEN MaxLength ELSE MaxLength - 1

(* Where a chunk that begins after position p ends: at the last letter or  *)
(* digit there is room for; at p when there is none.                       *)
NextCut(s, p, max) ==
    IF Len(s) - p <= max THEN Len(s)
    ELSE LET ends == {i \in p + 1..p + max : IsAlphaNum(s[i])}
         IN IF ends = {} THEN p ELSE MaxOf(ends)

(* Where the k-th chunk ends.                                              *)
Cuts(s) ==
    LET cut[k \in 0..Len(s) + 1] == IF k = 0 THEN 0 ELSE NextCut(s, cut[k - 1], Room(k))
    IN cut

SplitAtLastAlphaNum(s) ==
    LET cut  == Cuts(s)
        done == {k \in 1..Len(s) + 1 : cut[k] = Len(s)}
    IN IF MaxLength <= 1 \/ done = {} THEN <<>>
       ELSE [k \in 1..MinOf(done) |-> (IF k = 1 THEN <<>> ELSE <<"Z">>)
                                       \o SubSeq(s, cut[k - 1] + 1, cut[k])]

ConcatAlphaNumSplitChunks(chunks) ==
    LET s[i \in 0..Len(chunks)] ==
          IF i = 0 THEN <<>> ELSE s[i - 1] \o (IF i = 1 THEN chunks[1] ELSE Tail(chunks[i]))
    IN s[Len(chunks)]

addSplittableString(name, s) ==
    LET chunks == SplitAtLastAlphaNum(s) IN {<<name, i, chunks[i]>> : i \in DOMAIN chunks}

WithNext(s, sep, t) == IF s = <<>> THEN t ELSE s \o <<sep>> \o t

(* The strings of text in the order of their numbers, from 1 on, with a    *)
(* separator between them.                                                 *)
Join(text, sep) ==
    LET last == MaxOf({0} \cup DOMAIN text)
        s[i \in 0..last] ==
          IF i = 0 THEN <<>>
          ELSE IF i \in DOMAIN text THEN WithNext(s[i - 1], sep, text[i]) ELSE s[i - 1]
    IN s[last]

-----------------------------------------------------------------------------
(* The labeler's labels.                                                   *)

Names(S) == Join([c \in S |-> Digits[c]], ".")

GetTileCount(c) == IF Machine.tiles[c] = 0 THEN 1 ELSE Machine.tiles[c]

ASSUME MachineAssumption ==
    \A c \in Cards : /\ Machine.tiles[c] \in Nat /\ Machine.memory[c] \in Nat \cup {-1}
                     /\ Machine.numa[c] \in -1..Len(Decimal) - 1 /\ Machine.group[c] \in 0..Len(Digits)

(* No card has, and nobody sets aside, half of what a word can count.      *)
ASSUME MemoryAssumption ==
    /\ Word \in Nat /\ Reserved \in 0..Word \div 2 /\ Override \in 0..(Word \div 2) - 2
    /\ \A c \in Cards : Machine.memory[c] * GetTileCount(c) < (Word \div 2) - 1

(* Bytes of a card, an unsigned difference that may wrap around.           *)
GetMemoryAmount(c) ==
    IF Machine.memory[c] = -1 THEN Override
    ELSE (Machine.memory[c] * GetTileCount(c) - Reserved) % Word

(* Every card, for want of the check of the amount.                        *)
countedAll(S) == S

(* The cards that memory.max is about: amounts that have wrapped around    *)
(* are left out.                                                           *)
counted(S) == {c \in S : GetMemoryAmount(c) < (Word \div 2) - 1}

(* GPUs by NUMA node, in the order of the nodes.                           *)
createNumaNodeMappingLabel(S) ==
    Join([n \in {Machine.numa[c] + 1 : c \in S} \ {0} |->
            Decimal[n] \o <<"-">> \o Names({c \in S : Machine.numa[c] + 1 = n})], "_")

(* GPUs by PCI folder, "" for a card whose path is too short.              *)
createPCIGroupLabel(S) ==
    Join([g \in {Machine.group[c] : c \in S} \ {0} |->
            Names({c \in S : Machine.group[c] = g})], "_")

CardList(S) ==
    SplitAtLastAlphaNum(Join([c \in S |-> <<"c", "a", "r", "d">> \o Digits[c]], "."))

createLabels(S) ==
    {<<"tiles", 1, SumFunction([c \in S |-> GetTileCount(c)])>>}
    \cup (IF S = {} THEN {} ELSE
            {<<"memory.max", 1, SumFunction([k \in counted(S) |-> GetMemoryAmount(k)])>>
                : c \in counted(S)}
            \cup {<<"millicores", 1, 1000 * Cardinality(S)>>, <<"cards", 1, CardList(S)[1]>>}
            \cup addSplittableString("gpu-numbers", Names(S))
            \cup (IF \A c \in S : Machine.numa[c] = -1 THEN {}
                  ELSE addSplittableString("numa-gpu-map", createNumaNodeMappingLabel(S)))
            \cup (IF \A c \in S : Machine.group[c] = 0 THEN {}
                  ELSE addSplittableString("pci-groups", createPCIGroupLabel(S))))

-----------------------------------------------------------------------------
(* The sidecar's labels.  A metric: ends local and remote, <<device,       *)
(* subdevice>>, lanes, whether it is a pure link and on a subdevice; a     *)
(* label that is missing or no number is -1.                               *)

Points == (-1..Len(Decimal) - 1) \X (-1..Len(Decimal) - 1)

Cells == [local: Points, remote: Points, lanes: Int, xelink: BOOLEAN, onSubdevice: BOOLEAN]

ASSUME MetricsAssumption == LaneCount \in Nat /\ Metrics \subseteq Seq(Cells)

isValidTopologyCell(m) == m.lanes >= 0 /\ \A i \in 1..2 : m.local[i] >= 0 /\ m.remote[i] >= 0

processMetricsLabels(m) == (m.onSubdevice \/ AllowSubdeviceless) /\ isValidTopologyCell(m)

(* The metrics that are links.                                             *)
GetTopologyFromXPUMMetrics(ms) == {i \in DOMAIN ms : ms[i].xelink /\ processMetricsLabels(ms[i])}

(* Each end as it comes.                                                   *)
cellToStringAsIs(m) == <<m.local, m.remote>>

(* The lower device first.                                                 *)
cellToString(m) == IF m.local[1] < m.remote[1] THEN <<m.local, m.remote>> ELSE <<m.remote, m.local>>

(* The metrics whose link goes into the label: of those with enough lanes, *)
(* the first that reads as it does.                                        *)
linksOf(ms) ==
    LET wide == {i \in GetTopologyFromXPUMMetrics(ms) : ms[i].lanes >= LaneCount}
    IN {i \in wide : \A j \in wide : cellToString(ms[j]) = cellToString(ms[i]) => i <= j}

Point(e) == Decimal[e[1] + 1] \o <<".">> \o Decimal[e[2] + 1]

Links(ms) ==
    Join([i \in linksOf(ms) |-> Point(cellToString(ms[i])[1]) \o <<"-">>
                               \o Point(cellToString(ms[i])[2])], "_")

createLinkLabels(ms) == addSplittableString("xe-links", Links(ms))

Labels(w, S, ms) == IF w = "sidecar" THEN createLinkLabels(ms) ELSE createLabels(S)

(* All that the sidecar and the labeler may come to write.                 *)
LinkLabels == {createLinkLabels(ms) : ms \in Metrics \cup {<<>>}}
CardLabels == {createLabels(S) : S \in SUBSET Cards}

-----------------------------------------------------------------------------
Init ==
    /\ writer \in Writers
    /\ cards \in SUBSET Cards /\ metrics \in Metrics
    /\ right = Labels(writer, cards, metrics)
    /\ pc = "idle" /\ labels = {}
    /\ file = NoFile /\ appended = FALSE /\ short = FALSE
    /\ events = 0 /\ faults = 0

Event == events < MaxEvent /\ events' = events + 1
Fault == faults < MaxFault /\ faults' = faults + 1

Change ==
    /\ Event
    /\ \/ writer = "labeler" /\ cards' \in SUBSET Cards \ {cards} /\ UNCHANGED metrics
       \/ writer = "sidecar" /\ metrics' \in (Metrics \cup {<<>>}) \ {metrics} /\ UNCHANGED cards
    /\ right' = Labels(writer, cards', metrics')
    /\ UNCHANGED <<writer, pc, labels, file, appended, short, faults>>

(* A round of the labeler, up to the file.  A scan that fails leaves no    *)
(* labels behind, so that the next round has something to write.           *)
LabelerRound ==
    /\ writer = "labeler" /\ pc = "idle"
    /\ \/ /\ labels' = right
          /\ pc' = IF labels # right THEN "write" ELSE "idle"
          /\ UNCHANGED faults
       \/ Fault /\ labels' = {} /\ UNCHANGED pc
    /\ UNCHANGED <<writer, cards, metrics, right, file, appended, short, events>>

(* A labeler that keeps its labels when they could not be written.         *)
LabelerWriteKeeps ==
    /\ writer = "labeler" /\ pc = "write"
    /\ pc' = "idle"
    /\ \/ file' = labels /\ appended' = FALSE /\ UNCHANGED faults
       \/ Fault /\ UNCHANGED <<file, appended>>
    /\ UNCHANGED <<writer, cards, metrics, right, labels, short, events>>

(* The labels go to a temporary file that is moved into place.  Without a  *)
(* temporary directory they are appended to the file itself, one after the *)
(* other in any order; of the parts that may get there, none and one line  *)
(* stand for all.  After an error the labels are forgotten.                *)
atomicPrintLabelsToFile ==
    \/ file' = labels /\ appended' = FALSE /\ UNCHANGED <<labels, faults>>
    \/ Fault /\ labels' = {} /\ UNCHANGED <<file, appended>>
    \/ /\ Fault /\ appended' = TRUE
       /\ \E W \in {labels, {}} \cup {{l} : l \in labels} :
            /\ file' = (IF file = NoFile THEN {} ELSE file) \cup W
            /\ labels' = IF W = labels THEN labels ELSE {}

LabelerWrite ==
    /\ writer = "labeler" /\ pc = "write"
    /\ pc' = "idle"
    /\ atomicPrintLabelsToFile
    /\ UNCHANGED <<writer, cards, metrics, right, short, events>>

(* The links of what XPU manager serves, or none when it cannot be         *)
(* fetched.                                                                *)
getMetricsDataFromXPUM == {right, createLinkLabels(<<>>)}

(* Whether the file there is has these labels.                             *)
compareLabels(new) == file = new

(* A round of the sidecar.                                                 *)
iterate ==
    /\ writer = "sidecar" /\ pc = "idle"
    /\ \E new \in getMetricsDataFromXPUM :
         /\ IF new = right THEN UNCHANGED faults ELSE Fault
         /\ labels' = new
         /\ pc' = IF compareLabels(new) THEN "idle" ELSE "write"
    /\ UNCHANGED <<writer, cards, metrics, right, file, appended, short, events>>

(* Appends to the file there is.                                           *)
SidecarWriteAppends ==
    /\ writer = "sidecar" /\ pc = "write"
    /\ pc' = "idle"
    /\ file' = (IF file = NoFile THEN {} ELSE file) \cup labels
    /\ UNCHANGED <<writer, cards, metrics, right, labels, appended, short, events, faults>>

(* Errors of writing are ignored and the file is moved all the same; those *)
(* of making a directory and of moving leave the old file.                 *)
writeLabels ==
    /\ writer = "sidecar" /\ pc = "write"
    /\ pc' = "idle"
    /\ \/ file' = labels /\ short' = FALSE /\ UNCHANGED faults
       \/ Fault /\ short' = TRUE /\ \E k \in 0..Cardinality(labels) - 1 :
                                      file' = {l \in labels : l[2] <= k}
       \/ Fault /\ UNCHANGED <<file, short>>
    /\ UNCHANGED <<writer, cards, metrics, right, labels, appended, events>>

(* Both remove the file on a signal, which they see between two rounds.    *)
Stop ==
    /\ Event /\ pc = "idle"
    /\ pc' = "down" /\ labels' = {}
    /\ \/ file' = NoFile /\ appended' = FALSE /\ short' = FALSE /\ UNCHANGED faults
       \/ Fault /\ UNCHANGED <<file, appended, short>>
    /\ UNCHANGED <<writer, cards, metrics, right>>

Kill ==
    /\ Fault /\ pc # "down"
    /\ pc' = "down" /\ labels' = {}
    /\ UNCHANGED <<writer, cards, metrics, right, file, appended, short, events>>

Restart ==
    /\ pc = "down"
    /\ pc' = "idle"
    /\ UNCHANGED <<writer, cards, metrics, right, labels, file, appended, short,
                   events, faults>>

Run == LabelerRound \/ LabelerWrite \/ iterate \/ writeLabels

Next == Change \/ Run \/ Stop \/ Kill \/ Restart

Spec == Init /\ [][Next]_vars

(* The loops go on, and the kubelet starts the writer again.               *)
FairSpec == Spec /\ WF_vars(Run) /\ WF_vars(Restart)

-----------------------------------------------------------------------------
WellSplit(s) ==
    LET chunks == SplitAtLastAlphaNum(s) IN
    s # <<>> =>
      /\ chunks # <<>>
      /\ \A i \in DOMAIN chunks : /\ Len(chunks[i]) <= MaxLength
                                  /\ IsAlphaNum(chunks[i][1]) /\ IsAlphaNum(chunks[i][Len(chunks[i])])
      /\ ConcatAlphaNumSplitChunks(chunks) = s

(* Whatever the cards and links of the node, every chunk of a label is a   *)
(* valid label value and the chunks put together give the value            *)
(* (SplitAtLastAlphaNum, ConcatAlphaNumSplitChunks).                       *)
ChunksJoin ==
    /\ WellSplit(Links(metrics))
    /\ WellSplit(Names(cards))
    /\ WellSplit(createNumaNodeMappingLabel(cards))
    /\ WellSplit(createPCIGroupLabel(cards))

(* memory.max is the memory of the cards that have as much as is reserved, *)
(* less what is reserved of each, although the difference is taken of      *)
(* unsigned numbers; there is no such label when no card has any           *)
(* (legacyFallback, createLabels).                                         *)
MemoryCounted ==
    LET Left(c) == IF Machine.memory[c] = -1 THEN Override
                   ELSE Machine.memory[c] * GetTileCount(c) - Reserved
        some    == {c \in cards : Left(c) >= 0}
    IN writer = "labeler" =>
         {l[3] : l \in {l \in right : l[1] = "memory.max"}}
           = {SumFunction([k \in some |-> Left(k)]) : c \in some}

(* The label names every link with enough lanes once, whichever ends and   *)
(* however often XPU manager reports it, of the links between two GPUs     *)
(* (createLabels of the sidecar).                                          *)
LinksOnce ==
    LET used  == {m \in Range(metrics) : m.xelink /\ processMetricsLabels(m)
                                           /\ m.lanes >= LaneCount /\ m.local[1] # m.remote[1]}
        links == {i \in linksOf(metrics) : metrics[i].local[1] # metrics[i].remote[1]}
        Ends(l) == {l[1], l[2]}
    IN /\ {Ends(cellToString(metrics[i])) : i \in links} = {{m.local, m.remote} : m \in used}
       /\ Cardinality(links) = Cardinality({{m.local, m.remote} : m \in used})

(* The file holds the labels of one moment, never those of two, unless it  *)
(* was written in part (sidecar) or appended to (labeler).                 *)
OfOneMoment ==
    file = NoFile \/ appended \/ short
    \/ file \in IF writer = "sidecar" THEN LinkLabels ELSE CardLabels

(* Whatever failed and however often the writer was stopped, the file      *)
(* comes to hold the labels of the node as it is; a labeler that had to    *)
(* append may leave old lines beside them (Run, iterate, main).            *)
FileSettles == <>[](file = right \/ (appended /\ right \subseteq file))
=============================================================================
