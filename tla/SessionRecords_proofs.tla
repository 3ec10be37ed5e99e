----------------------- MODULE SessionRecords_proofs -----------------------
(* Theorems about SessionRecords, for any number of messages and any       *)
(* limits: types (whichever windows are open, crashes included), growing   *)
(* numbers (until a crash), that what was recorded is kept (until a crash, *)
(* the windows between two calls shut), and that what is stored is read    *)
(* back (crashes included, as long as no number is given twice).           *)
EXTENDS SessionRecords, SequenceTheorems, FiniteSetTheorems, WellFoundedInduction, TLAPS

Lines == [msg : 0..MaxMessages, seq : Int, upTo : Int]

(* What the variables look like while the process has not crashed.  (That  *)
(* a record is a record is stated by rebuilding it from its fields.)       *)
Shapes ==
    /\ file \in Seq(Lines)
    /\ durable \in 0..Len(file)
    /\ indexFile = NoIndex \/ indexFile.lastSeq \in Nat
    /\ \/ session = NoSession
       \/ /\ session = [status |-> session.status, index |-> session.index]
          /\ session.status \in {"open", "flushing", "ending", "breaking", "broken"}
          /\ session.index.lastSeq \in Nat
    /\ op = [m \in Messages |-> op[m]]
    /\ \A m \in Messages : op[m].upTo \in Int /\ op[m].pc \notin {"opening", "inside"}
    /\ compact = [phase |-> compact.phase, index |-> compact.index,
                  lines |-> compact.lines]
    /\ compact.lines \in Seq(Lines)

(* Who holds the conversation while it is compacted.                       *)
Phases ==
    /\ compact.phase \in {"idle", "reading", "closing", "writing", "written", "rebuilding"}
    /\ compact.phase # "idle" =>
           session # NoSession /\ session.status = "open" /\ compact.index = session.index
    /\ compact.phase \in {"written", "rebuilding"} => durable = Len(file)
    /\ compact.phase = "rebuilding" => indexFile = NoIndex
    /\ session = NoSession => ~MustRebuild

(* The number that the next entry follows.                                 *)
LastSeq == IF session # NoSession THEN session.index.lastSeq ELSE IndexAtOpen.lastSeq

(* The numbers grow and the counter is not behind them; what a compaction  *)
(* will write has growing numbers too.                                     *)
Numbers ==
    /\ Increasing(file)
    /\ compact.phase \notin {"written", "rebuilding"} =>
           \A i \in DOMAIN file : file[i].seq <= LastSeq
    /\ Increasing(compact.lines)

GrowInv == /\ crashes \in Nat
           /\ crashes = 0 => Shapes /\ Phases /\ Numbers

LEMMA GrowInit == Init => GrowInv
  <1> SUFFICES ASSUME Init PROVE GrowInv
    OBVIOUS
  <1>1. Shapes
    BY RecordsAssumption DEF Init, Shapes, NoCompaction, Call, NoSession, NoIndex, Messages
  <1>2. Phases
    BY DEF Init, Phases, NoCompaction, NoSession, MustRebuild
  <1>3. Numbers
    BY DEF Init, Numbers, Increasing, NoCompaction
  <1>4. QED
    BY <1>1, <1>2, <1>3 DEF Init, GrowInv

(* What Seq says of a sequence, in the form the provers need.              *)
LEMMA LinesAre ==
    ASSUME NEW lines \in Seq(Lines)
    PROVE  /\ DOMAIN lines = 1..Len(lines)
           /\ Len(lines) \in Nat
           /\ \A i \in 1..Len(lines) : lines[i] \in Lines /\ lines[i].seq \in Int
  <1>1. /\ DOMAIN lines = 1..Len(lines)
        /\ Len(lines) \in Nat
        /\ lines \in [1..Len(lines) -> Lines]
    BY LenProperties
  <1>2. \A e \in Lines : e.seq \in Int
    BY DEF Lines
  <1>3. \A i \in 1..Len(lines) : lines[i] \in Lines
    BY <1>1
  <1>4. QED
    BY <1>1, <1>2, <1>3

(* An entry numbered above a bound of the numbers keeps them growing.      *)
LEMMA AppendGrows ==
    ASSUME NEW lines \in Seq(Lines), Increasing(lines), NEW last \in Int,
           \A i \in DOMAIN lines : lines[i].seq <= last,
           NEW e \in Lines, e.seq > last
    PROVE  /\ Append(lines, e) \in Seq(Lines)
           /\ Len(Append(lines, e)) = Len(lines) + 1
           /\ Increasing(Append(lines, e))
           /\ \A i \in DOMAIN Append(lines, e) : Append(lines, e)[i].seq <= e.seq
  <1> DEFINE longer == Append(lines, e)
  <1>1. longer \in Seq(Lines) /\ Len(longer) = Len(lines) + 1
    OBVIOUS
  <1>2. \A i \in 1..Len(lines) : longer[i] = lines[i]
    OBVIOUS
  <1>3. longer[Len(lines) + 1] = e
    OBVIOUS
  <1>4. /\ DOMAIN lines = 1..Len(lines) /\ Len(lines) \in Nat
        /\ \A i \in 1..Len(lines) : lines[i].seq \in Int
    BY LinesAre
  <1>5. DOMAIN longer = 1..(Len(lines) + 1)
    BY <1>1, LinesAre
  <1>6. e.seq \in Int
    BY DEF Lines
  <1> HIDE DEF longer
  <1>7. \A i \in DOMAIN longer : longer[i].seq <= e.seq
    <2> SUFFICES ASSUME NEW i \in DOMAIN longer
                 PROVE  longer[i].seq <= e.seq
      OBVIOUS
    <2>1. CASE i = Len(lines) + 1
      BY <2>1, <1>3, <1>6
    <2>2. CASE i \in 1..Len(lines)
      <3>1. longer[i].seq = lines[i].seq /\ lines[i].seq \in Int /\ lines[i].seq <= last
        BY <2>2, <1>2, <1>4
      <3>2. QED
        BY <3>1, <1>6
    <2>3. QED
      BY <2>1, <2>2, <1>4, <1>5
  <1>8. Increasing(longer)
    <2> SUFFICES ASSUME NEW i \in DOMAIN longer, NEW j \in DOMAIN longer, i < j
                 PROVE  longer[i].seq < longer[j].seq
      BY DEF Increasing
    <2>1. i \in 1..Len(lines)
      BY <1>4, <1>5
    <2>2. longer[i].seq = lines[i].seq /\ lines[i].seq \in Int /\ lines[i].seq <= last
      BY <2>1, <1>2, <1>4
    <2>3. CASE j = Len(lines) + 1
      BY <2>2, <2>3, <1>3, <1>6
    <2>4. CASE j \in 1..Len(lines)
      <3>1. longer[j].seq = lines[j].seq
        BY <2>4, <1>2
      <3>2. lines[i].seq < lines[j].seq
        BY <2>1, <2>4, <1>4 DEF Increasing
      <3>3. QED
        BY <3>1, <3>2, <2>2
    <2>5. QED
      BY <2>3, <2>4, <1>4, <1>5
  <1>9. QED
    BY <1>1, <1>7, <1>8 DEF longer

(* The highest number of a file whose numbers grow.                        *)
LEMMA RebuiltIsHighest ==
    ASSUME file \in Seq(Lines), Increasing(file)
    PROVE  /\ Rebuilt(Len(file)).lastSeq \in Nat
           /\ \A i \in DOMAIN file : file[i].seq <= Rebuilt(Len(file)).lastSeq
  <1> DEFINE S == {0} \union {file[i].seq : i \in 1..Len(file)}
  <1>1. DOMAIN file = 1..Len(file) /\ Len(file) \in Nat
    BY LinesAre
  <1>2. \A i \in 1..Len(file) : file[i].seq \in Int
    BY LinesAre
  <1>3. \E x \in S : \A y \in S : y <= x
    <2>1. CASE Len(file) = 0
      <3>1. 1..Len(file) = {}
        BY <2>1
      <3>2. \A y \in S : y = 0
        BY <3>1
      <3>3. 0 \in S
        OBVIOUS
      <3>4. QED
        BY <3>2, <3>3
    <2>2. CASE Len(file) # 0
      <3>1. Len(file) \in 1..Len(file)
        BY <1>1, <2>2
      <3>2. \A i \in 1..Len(file) : file[i].seq <= file[Len(file)].seq
        BY <1>1, <1>2, <3>1 DEF Increasing
      <3>3. CASE file[Len(file)].seq >= 0
        <4>1. file[Len(file)].seq \in S
          BY <3>1
        <4>2. \A y \in S : y <= file[Len(file)].seq
          BY <3>2, <3>3, <3>1, <1>2
        <4>3. QED
          BY <4>1, <4>2
      <3>4. CASE ~(file[Len(file)].seq >= 0)
        <4>1. \A y \in S : y <= 0
          BY <3>1, <3>2, <3>4, <1>2
        <4>2. QED
          BY <4>1
      <3>5. QED
        BY <3>3, <3>4
    <2>3. QED
      BY <2>1, <2>2
  <1>4. Highest(S) \in S /\ \A y \in S : y <= Highest(S)
    BY <1>3 DEF Highest
  <1>5. Rebuilt(Len(file)).lastSeq = Highest(S)
    BY DEF Rebuilt
  <1>6. S \subseteq Int /\ 0 \in S
    BY <1>2
  <1>7. \A i \in DOMAIN file : file[i].seq \in S
    BY <1>1
  <1>8. Highest(S) \in Nat
    BY <1>4, <1>6
  <1>9. QED
    BY <1>4, <1>5, <1>7, <1>8

(* A record keeps the invariant, with the transcript the map has or one    *)
(* just opened.                                                            *)
LEMMA RecordKeeps ==
    ASSUME GrowInv, crashes = 0, NEW m \in Messages, NEW transcript,
           transcript.status \in {"open", "flushing", "ending", "breaking", "broken"},
           transcript.index.lastSeq \in Nat,
           \A i \in DOMAIN file : file[i].seq <= transcript.index.lastSeq,
           compact.phase = "idle",
           Record(m, transcript, indexFile)
    PROVE  GrowInv'
  <1> DEFINE applies == Applies(op[m])
             first == CheckpointEntry(NumberOf(transcript.index), op[m].upTo)
             index1 == IF applies THEN Indexed(transcript.index, first) ELSE transcript.index
             second == Entry(m, NumberOf(index1))
             index2 == Indexed(index1, second)
             before == IF applies THEN Append(file, first) ELSE file
             lost == transcript.status \in {"ending", "breaking", "broken"}
  <1>1. Shapes /\ Phases /\ Numbers
    BY DEF GrowInv
  <1>2. first \in Lines /\ first.seq = transcript.index.lastSeq + 1
    BY <1>1, RecordsAssumption DEF CheckpointEntry, NumberOf, Lines, Shapes
  <1>3. /\ index1.lastSeq \in Nat
        /\ index1.lastSeq = IF applies THEN transcript.index.lastSeq + 1
                            ELSE transcript.index.lastSeq
    BY <1>2 DEF Indexed
  <1>4. second \in Lines /\ second.seq = index1.lastSeq + 1
    BY <1>3, RecordsAssumption DEF Entry, NumberOf, Lines, Messages
  <1>5. index2.lastSeq \in Nat /\ index2.lastSeq = second.seq
    BY <1>3, <1>4 DEF Indexed
  <1>6. /\ before \in Seq(Lines)
        /\ Len(file) <= Len(before)
        /\ Increasing(before)
        /\ \A i \in DOMAIN before : before[i].seq <= index1.lastSeq
    <2>0. file \in Seq(Lines) /\ Increasing(file) /\ Len(file) \in Nat
      BY <1>1, LinesAre DEF Shapes, Numbers
    <2>1. CASE applies
      <3>1. before = Append(file, first) /\ index1.lastSeq = first.seq
        BY <2>1, <1>2, <1>3
      <3>2. first.seq > transcript.index.lastSeq
        BY <1>2
      <3> HIDE DEF applies, first, index1, before
      <3>3. transcript.index.lastSeq \in Int
        OBVIOUS
      <3>4. /\ Append(file, first) \in Seq(Lines)
            /\ Len(Append(file, first)) = Len(file) + 1
            /\ Increasing(Append(file, first))
            /\ \A i \in DOMAIN Append(file, first) : Append(file, first)[i].seq <= first.seq
        BY <1>2, <2>0, <3>2, <3>3, AppendGrows
      <3>5. QED
        BY <2>0, <3>1, <3>4
    <2>2. CASE ~applies
      <3>1. before = file /\ index1.lastSeq = transcript.index.lastSeq
        BY <2>2, <1>3
      <3> HIDE DEF applies, first, index1, before
      <3>2. QED
        BY <2>0, <3>1
    <2>3. QED
      BY <2>1, <2>2
  <1>7. /\ file' = IF lost THEN file ELSE Append(before, second)
        /\ session' = [status |-> IF transcript.status = "ending" THEN "breaking"
                                  ELSE transcript.status,
                       index |-> index2]
        /\ indexFile' = SavedBy(index2, IF applies THEN SavedBy(index1, indexFile)
                                        ELSE indexFile)
        /\ op' = [op EXCEPT ![m] = Call("done")]
        /\ durable' = durable /\ compact' = compact /\ crashes' = crashes
    BY DEF Record, bounds
  <1>8. /\ file' \in Seq(Lines)
        /\ Len(file) <= Len(file')
        /\ Increasing(file')
        /\ \A i \in DOMAIN file' : file'[i].seq <= index2.lastSeq
    <2>0. file \in Seq(Lines) /\ Increasing(file) /\ Len(file) \in Nat
      BY <1>1, LinesAre DEF Shapes, Numbers
    <2>1. CASE lost
      <3>1. file' = file
        BY <1>7, <2>1
      <3>2. transcript.index.lastSeq <= index2.lastSeq
        BY <1>3, <1>4, <1>5
      <3>3. \A i \in DOMAIN file : file[i].seq \in Int
        BY <2>0, LinesAre
      <3> HIDE DEF applies, first, index1, index2, second, before
      <3>4. QED
        BY <1>5, <2>0, <3>1, <3>2, <3>3
    <2>2. CASE ~lost
      <3>1. file' = Append(before, second)
        BY <1>7, <2>2
      <3>2. second.seq > index1.lastSeq /\ index1.lastSeq \in Int
        BY <1>3, <1>4
      <3>3. Len(before) \in Nat
        BY <1>6, LinesAre
      <3> HIDE DEF applies, first, index1, index2, second, before
      <3>4. /\ Append(before, second) \in Seq(Lines)
            /\ Len(Append(before, second)) = Len(before) + 1
            /\ Increasing(Append(before, second))
            /\ \A i \in DOMAIN Append(before, second) :
                   Append(before, second)[i].seq <= second.seq
        BY <1>4, <1>6, <3>2, AppendGrows
      <3>5. QED
        BY <1>5, <1>6, <2>0, <3>1, <3>3, <3>4
    <2>3. QED
      BY <2>1, <2>2
  <1>9. indexFile' = NoIndex \/ indexFile'.lastSeq \in Nat
    BY <1>1, <1>3, <1>5, <1>7 DEF SavedBy, Shapes
  <1>10. /\ session'.status \in {"open", "flushing", "breaking", "broken"}
         /\ session' = [status |-> session'.status, index |-> session'.index]
         /\ session'.index = index2
         /\ session' # NoSession
    BY <1>7 DEF NoSession
  <1>11. Shapes'
    <2>1. durable' \in 0..Len(file')
      BY <1>1, <1>7, <1>8 DEF Shapes
    <2>2. op' = [k \in Messages |-> op'[k]]
      BY <1>1, <1>7 DEF Shapes
    <2>3. \A k \in Messages : op'[k].upTo \in Int /\ op'[k].pc \notin {"opening", "inside"}
      BY <1>1, <1>7 DEF Shapes, Call
    <2>4. QED
      BY <1>1, <1>5, <1>7, <1>8, <1>9, <1>10, <2>1, <2>2, <2>3 DEF Shapes
  <1>12. Phases'
    BY <1>7, <1>10 DEF Phases
  <1>13. Numbers'
    BY <1>1, <1>5, <1>7, <1>8, <1>10 DEF Numbers, LastSeq
  <1>14. QED
    BY <1>1, <1>7, <1>11, <1>12, <1>13 DEF GrowInv

(* An order of the positions S in which entries do not go back.            *)
InOrder(order, S) ==
    /\ order \in [1..Cardinality(S) -> S]
    /\ \A i, j \in DOMAIN order : i < j => Precedes(order[i], order[j])

(* Sorted sorts: how many entries precede an entry is its place, because    *)
(* no two entries of a finite set have as many before them.                 *)
LEMMA SortedIsInOrder ==
    ASSUME NEW S, IsFiniteSet(S), S \subseteq Int, \A i \in S : file[i].seq \in Int
    PROVE  InOrder(Sorted(S), S)
  <1> DEFINE n == Cardinality(S)
             Before(i) == {j \in S : Precedes(j, i)}
             rank(i) == Cardinality(Before(i))
  <1>1. n \in Nat
    BY FS_CardinalityType
  <1>2. \A i, j \in S : Precedes(i, j) => ~Precedes(j, i) /\ i # j
    BY DEF Precedes
  <1>3. \A i, j \in S : i # j => Precedes(i, j) \/ Precedes(j, i)
    BY DEF Precedes
  <1>4. \A i, j, k \in S : Precedes(i, j) /\ Precedes(j, k) => Precedes(i, k)
    BY DEF Precedes
  <1>5. \A i \in S : IsFiniteSet(Before(i)) /\ rank(i) \in Nat
    <2> SUFFICES ASSUME NEW i \in S PROVE IsFiniteSet(Before(i)) /\ rank(i) \in Nat
      OBVIOUS
    <2>1. Before(i) \subseteq S
      OBVIOUS
    <2> HIDE DEF Before
    <2>2. IsFiniteSet(Before(i))
      BY <2>1, FS_Subset
    <2>3. QED
      BY <2>2, FS_CardinalityType
  <1>6. \A i, j \in S : Precedes(i, j) => rank(i) < rank(j)
    <2> SUFFICES ASSUME NEW i \in S, NEW j \in S, Precedes(i, j) PROVE rank(i) < rank(j)
      OBVIOUS
    <2>1. Before(i) \union {i} \subseteq Before(j) /\ i \notin Before(i)
      BY <1>2, <1>4
    <2>2. rank(i) \in Nat /\ rank(j) \in Nat /\ IsFiniteSet(Before(i)) /\ IsFiniteSet(Before(j))
      BY <1>5
    <2> HIDE DEF Before
    <2>3. Cardinality(Before(i) \union {i}) = rank(i) + 1
      BY <2>1, <2>2, FS_AddElement
    <2>4. Cardinality(Before(i) \union {i}) <= rank(j)
      BY <2>1, <2>2, FS_Subset
    <2>5. QED
      BY <2>2, <2>3, <2>4
  <1>7. \A i \in S : rank(i) < n
    <2> SUFFICES ASSUME NEW i \in S PROVE rank(i) < n
      OBVIOUS
    <2>1. Before(i) \subseteq S \ {i}
      BY <1>2
    <2>2. IsFiniteSet(S \ {i}) /\ Cardinality(S \ {i}) = n - 1
      BY FS_RemoveElement
    <2> HIDE DEF Before
    <2>3. rank(i) <= Cardinality(S \ {i})
      BY <2>1, <2>2, FS_Subset
    <2>4. QED
      BY <1>1, <1>5, <2>2, <2>3
  <1> HIDE DEF rank, n
  <1> DEFINE place == [i \in S |-> rank(i) + 1]
  <1>8. place \in Injection(S, 1..n)
    <2>1. ASSUME NEW i \in S PROVE rank(i) + 1 \in 1..n
      <3>1. rank(i) \in Nat /\ rank(i) < n
        BY <1>5, <1>7
      <3>2. QED
        BY <1>1, <3>1
    <2>2. ASSUME NEW i \in S, NEW j \in S, place[i] = place[j] PROVE i = j
      <3>1. rank(i) + 1 = rank(j) + 1
        BY <2>2
      <3>2. rank(i) \in Nat /\ rank(j) \in Nat
        BY <1>5
      <3>3. ~(rank(i) < rank(j)) /\ ~(rank(j) < rank(i))
        BY <3>1, <3>2
      <3>4. QED
        BY <1>3, <1>6, <3>3
    <2>3. QED
      BY <2>1, <2>2 DEF Injection, IsInjective
  <1>9. place \in Surjection(S, 1..n)
    <2>1. IsFiniteSet(1..n) /\ Cardinality(1..n) = n
      BY <1>1, FS_Interval
    <2> HIDE DEF place
    <2>2. QED
      BY <1>8, <2>1, FS_Injection DEF n
  <1>10. \A k \in 1..n : \E i \in S : rank(i) = k - 1
    <2> SUFFICES ASSUME NEW k \in 1..n PROVE \E i \in S : rank(i) = k - 1
      OBVIOUS
    <2>1. PICK i \in S : place[i] = k
      BY <1>9 DEF Surjection
    <2>2. rank(i) \in Nat /\ rank(i) + 1 = k
      BY <1>5, <2>1
    <2>3. QED
      BY <1>1, <2>2
  <1>11. Sorted(S) = [k \in 1..n |-> CHOOSE i \in S : rank(i) = k - 1]
    BY DEF Sorted, rank, n
  <1>12. \A k \in 1..n : Sorted(S)[k] \in S /\ rank(Sorted(S)[k]) = k - 1
    BY <1>10, <1>11
  <1>13. Sorted(S) \in [1..n -> S]
    BY <1>11, <1>12
  <1>14. ASSUME NEW k \in 1..n, NEW l \in 1..n, k < l
         PROVE  Precedes(Sorted(S)[k], Sorted(S)[l])
    <2> DEFINE i == Sorted(S)[k]
               j == Sorted(S)[l]
    <2>1. i \in S /\ j \in S /\ rank(i) = k - 1 /\ rank(j) = l - 1
      BY <1>12
    <2> HIDE DEF i, j
    <2>2. i # j /\ ~(rank(j) < rank(i))
      BY <1>1, <1>14, <2>1
    <2>3. Precedes(i, j)
      BY <1>3, <1>6, <2>1, <2>2
    <2>4. QED
      BY <2>3 DEF i, j
  <1>15. QED
    BY <1>13, <1>14 DEF InOrder, n

(* What a compaction finds when it reads.                                  *)
Readable ==
    /\ file \in Seq(Lines) /\ durable \in 0..Len(file) /\ Increasing(file)
    /\ compact.index.lastSeq \in Nat
    /\ compact = [phase |-> compact.phase, index |-> compact.index, lines |-> compact.lines]

(* What a compaction will write has growing numbers: the entries in their  *)
(* order, behind a checkpoint entry numbered just before the first.        *)
LEMMA CompactReadKeeps ==
    ASSUME Readable, CompactRead
    PROVE  /\ compact' = [phase |-> compact'.phase, index |-> compact'.index,
                          lines |-> compact'.lines]
           /\ compact'.phase \in {"idle", "closing"}
           /\ compact'.lines \in Seq(Lines)
           /\ Increasing(compact'.lines)
  <1> DEFINE from == ReplayFrom(compact.index)
             kept == Replay(from, ReplayStart(compact.index, from), durable)
             order == Sorted(kept)
             limit == Limit(order, compact.index)
             body == [i \in DOMAIN order |-> file[order[i]]]
             head == IF checkpoint = 0 THEN <<>> ELSE <<CheckpointEntry(limit, limit)>>
             n == Cardinality(kept)
  <1>2. /\ compact.index.lastSeq \in Nat
        /\ compact = [phase |-> compact.phase, index |-> compact.index,
                      lines |-> compact.lines]
        /\ durable \in 0..Len(file) /\ file \in Seq(Lines) /\ Increasing(file)
    BY DEF Readable
  <1>3. /\ DOMAIN file = 1..Len(file) /\ Len(file) \in Nat
        /\ \A i \in 1..Len(file) : file[i] \in Lines /\ file[i].seq \in Int
    BY <1>2, LinesAre
  <1>4. kept \subseteq 1..Len(file)
    BY <1>2, <1>3 DEF Replay
  <1>5. IsFiniteSet(kept) /\ n \in Nat
    <2>1. IsFiniteSet(1..Len(file))
      BY <1>3, FS_Interval
    <2>2. QED
      BY <2>1, <1>4, FS_Subset, FS_CardinalityType
  <1>6. /\ InOrder(order, kept)
        /\ compact' = IF checkpoint = 0 /\ kept = {} THEN NoCompaction
                      ELSE [compact EXCEPT !.phase = "closing", !.lines = head \o body]
    <2>1. kept \subseteq Int /\ \A i \in kept : file[i].seq \in Int
      BY <1>3, <1>4
    <2>2. InOrder(order, kept)
      BY <1>5, <2>1, SortedIsInOrder
    <2>3. QED
      BY <2>2 DEF CompactRead
  <1> HIDE DEF kept, order, limit, n
  <1>7. /\ DOMAIN order = 1..n
        /\ \A i \in 1..n : order[i] \in 1..Len(file)
        /\ \A i, j \in 1..n : i < j => Precedes(order[i], order[j])
    BY <1>4, <1>6 DEF InOrder, n
  <1>8. /\ body \in Seq(Lines) /\ Len(body) = n
        /\ \A i \in 1..n : body[i] = file[order[i]]
    BY <1>3, <1>5, <1>7
  <1>9. \A i, j \in 1..n : i < j => body[i].seq < body[j].seq
    <2> SUFFICES ASSUME NEW i \in 1..n, NEW j \in 1..n, i < j
                 PROVE  body[i].seq < body[j].seq
      OBVIOUS
    <2>1. /\ order[i] \in DOMAIN file /\ order[j] \in DOMAIN file
          /\ order[i] \in Int /\ order[j] \in Int
          /\ file[order[i]].seq \in Int /\ file[order[j]].seq \in Int
      BY <1>3, <1>7
    <2>2. \/ file[order[i]].seq < file[order[j]].seq
          \/ order[i] < order[j]
      BY <1>7 DEF Precedes
    <2>3. order[i] < order[j] => file[order[i]].seq < file[order[j]].seq
      BY <1>2, <2>1 DEF Increasing
    <2>4. body[i].seq = file[order[i]].seq /\ body[j].seq = file[order[j]].seq
      BY <1>8
    <2>5. QED
      BY <2>2, <2>3, <2>4
  <1>10. /\ limit \in Int
         /\ n > 0 => limit < body[1].seq
    <2>1. CASE n = 0
      <3>1. order = <<>>
        BY <2>1, <1>7, <1>6, <1>5 DEF InOrder, n
      <3>2. limit = (compact.index.lastSeq + 1) - 1
        BY <3>1 DEF limit, Limit
      <3>3. QED
        BY <2>1, <3>2, <1>2
    <2>2. CASE n > 0
      <3>1. 1 \in 1..n
        BY <2>2, <1>5
      <3>2. order # <<>>
        <4>1. DOMAIN <<>> = 1..0
          OBVIOUS
        <4>2. 1 \in DOMAIN order /\ 1 \notin 1..0
          BY <3>1, <1>7
        <4>3. QED
          BY <4>1, <4>2, Zenon
      <3>3. limit = file[order[1]].seq - 1
        BY <3>2 DEF limit, Limit
      <3>4. file[order[1]].seq \in Int /\ body[1] = file[order[1]]
        BY <3>1, <1>3, <1>7, <1>8
      <3>5. QED
        BY <3>3, <3>4
    <2>3. QED
      BY <1>5, <2>1, <2>2
  <1>11. CheckpointEntry(limit, limit) \in Lines /\ CheckpointEntry(limit, limit).seq = limit
    BY <1>10, RecordsAssumption DEF CheckpointEntry, Lines
  <1> DEFINE lines == head \o body
  <1>12. lines \in Seq(Lines) /\ Increasing(lines)
    <2>1. CASE checkpoint = 0
      <3>1. lines = body
        BY <2>1, <1>8, ConcatEmptySeq
      <3>2. DOMAIN body = 1..n
        BY <1>8, <1>7
      <3> HIDE DEF lines, body, head
      <3>3. QED
        BY <3>1, <3>2, <1>8, <1>9 DEF Increasing
    <2>2. CASE checkpoint # 0
      <3>1. head = <<CheckpointEntry(limit, limit)>>
        BY <2>2
      <3> DEFINE e == CheckpointEntry(limit, limit)
      <3> HIDE DEF e, head, body
      <3>2. head \in Seq(Lines) /\ Len(head) = 1 /\ head[1] = e /\ e.seq = limit
        BY <3>1, <1>11 DEF e
      <3>3. /\ lines \in Seq(Lines) /\ Len(lines) = 1 + n
            /\ \A i \in 1..(1 + n) : lines[i] = IF i <= 1 THEN head[i] ELSE body[i - 1]
        <4>1. /\ head \o body \in Seq(Lines) /\ Len(head \o body) = Len(head) + Len(body)
              /\ \A i \in 1..(Len(head) + Len(body)) :
                     (head \o body)[i] = IF i <= Len(head) THEN head[i]
                                        ELSE body[i - Len(head)]
          BY <3>2, <1>8, ConcatProperties
        <4>2. QED
          BY <4>1, <3>2, <1>8
      <3> HIDE DEF lines
      <3>4. lines[1].seq = limit
        BY <3>2, <3>3, <1>5
      <3>5. \A i \in 2..(1 + n) : lines[i].seq = body[i - 1].seq
        BY <3>3, <1>5
      <3>6. DOMAIN lines = 1..(1 + n)
        BY <3>3, LinesAre
      <3>7. \A i \in 1..n : body[i].seq \in Int
        BY <1>3, <1>7, <1>8
      <3>8. \A i \in 1..n : limit < body[i].seq
        <4> SUFFICES ASSUME NEW i \in 1..n PROVE limit < body[i].seq
          OBVIOUS
        <4>1. 1 \in 1..n /\ n > 0
          BY <1>5
        <4>2. i = 1 \/ 1 < i
          BY <1>5
        <4>3. QED
          BY <4>1, <4>2, <1>9, <1>10, <3>7
      <3>9. ASSUME NEW i \in 1..(1 + n), NEW j \in 1..(1 + n), i < j
            PROVE  lines[i].seq < lines[j].seq
        <4>1. j \in 2..(1 + n) /\ j - 1 \in 1..n
          BY <1>5, <3>9
        <4>2. CASE i = 1
          BY <4>1, <4>2, <3>4, <3>5, <3>8
        <4>3. CASE i # 1
          <5>1. i \in 2..(1 + n) /\ i - 1 \in 1..n /\ i - 1 < j - 1
            BY <4>3, <1>5, <3>9
          <5>2. body[i - 1].seq < body[j - 1].seq
            BY <5>1, <4>1, <1>9
          <5>3. QED
            BY <5>1, <5>2, <4>1, <3>5
        <4>4. QED
          BY <4>2, <4>3
      <3>10. QED
        BY <3>3, <3>6, <3>9 DEF Increasing
    <2>3. QED
      BY <2>1, <2>2
  <1> HIDE DEF body, head
  <1>13. CASE checkpoint = 0 /\ kept = {}
    <2>1. compact' = NoCompaction
      BY <1>6, <1>13
    <2>2. QED
      BY <2>1 DEF NoCompaction, Increasing
  <1>14. CASE ~(checkpoint = 0 /\ kept = {})
    <2>1. compact' = [compact EXCEPT !.phase = "closing", !.lines = lines]
      BY <1>6, <1>14
    <2>2. /\ compact'.phase = "closing" /\ compact'.lines = lines
          /\ compact' = [phase |-> compact'.phase, index |-> compact'.index,
                         lines |-> compact'.lines]
      BY <1>2, <2>1
    <2> HIDE DEF lines
    <2>3. QED
      BY <1>12, <2>2
  <1>15. QED
    BY <1>13, <1>14

(* Every step keeps the invariant.                                         *)
LEMMA GrowStep == GrowInv /\ [Next]_vars => GrowInv'
  <1> SUFFICES ASSUME GrowInv, [Next]_vars PROVE GrowInv'
    OBVIOUS
  <1>1. CASE Crash
    BY <1>1 DEF Crash, GrowInv
  <1>2. CASE crashes # 0 /\ ~Crash
    <2>1. crashes' = crashes
      BY <1>2 DEF Next, vars, bounds, StartUser, StartOther, Opened, ReadSince, Enter,
         OpenedInside, Record, WriteOut, Close, Flushed, Ended, CompactBegin, CompactRead,
         CompactClosed, CompactWrite, CompactUnlink, CompactDone
    <2>2. QED
      BY <1>2, <2>1 DEF GrowInv
  <1>3. CASE crashes = 0 /\ ~Crash
    <2>0. Shapes /\ Phases /\ Numbers
      BY <1>3 DEF GrowInv
    <2> USE <1>3
    <2> DEFINE Steady == /\ crashes' = crashes /\ file' = file /\ durable' = durable
                         /\ indexFile' = indexFile
               Named == op' = [k \in Messages |-> op'[k]]
               Calls == \A k \in Messages : /\ op'[k].upTo \in Int
                                            /\ op'[k].pc \notin {"opening", "inside"}
    <2>1. ASSUME NEW m \in Messages, StartUser(m) PROVE GrowInv'
      <3>1. Steady /\ compact' = compact
        BY <2>1 DEF StartUser, disk, bounds
      <3>2. ~(session = NoSession /\ MustRebuild)
        BY <2>0 DEF Phases
      <3>3. /\ \/ session' = session
               \/ /\ session = NoSession
                  /\ session' = [status |-> "open", index |-> IndexAtOpen]
            /\ \E index : op' = [op EXCEPT ![m] = Reading(index)]
        BY <2>1, <3>2 DEF StartUser
      <3>4. Named /\ Calls
        BY <2>0, <3>3 DEF Shapes, Reading, Call
      <3>5. IndexAtOpen.lastSeq \in Nat
        BY <2>0 DEF Shapes, IndexAtOpen, EmptyIndex
      <3>6. Shapes'
        BY <2>0, <3>1, <3>3, <3>4, <3>5 DEF Shapes, NoSession
      <3>7. Phases'
        BY <2>0, <3>1, <3>3 DEF Phases, MustRebuild, NoSession
      <3>8. Numbers'
        <4>1. LastSeq' = LastSeq
          BY <3>1, <3>3 DEF LastSeq, IndexAtOpen, NoSession
        <4>2. QED
          BY <2>0, <3>1, <4>1 DEF Numbers
      <3>9. QED
        BY <3>1, <3>6, <3>7, <3>8 DEF GrowInv
    <2>2. ASSUME NEW m \in Messages, StartOther(m) \/ ReadSince(m) PROVE GrowInv'
      <3>1. Steady /\ session' = session /\ compact' = compact
        BY <2>2 DEF StartOther, ReadSince, disk, bounds
      <3>2. Named /\ Calls
        <4>0. ASSUME NEW call, call.upTo \in Int, call.pc = "waiting",
                     op' = [op EXCEPT ![m] = call]
              PROVE  Named /\ Calls
          <5>1. Named
            BY <2>0, <4>0 DEF Shapes
          <5>2. \A k \in Messages : op'[k] = IF k = m THEN call ELSE op[k]
            BY <2>0, <4>0 DEF Shapes
          <5>3. QED
            BY <2>0, <4>0, <5>1, <5>2 DEF Shapes
        <4>1. CASE StartOther(m)
          <5>1. Call("waiting").upTo \in Int /\ Call("waiting").pc = "waiting"
            BY DEF Call
          <5>2. QED
            BY <4>0, <4>1, <5>1 DEF StartOther
        <4>2. CASE ReadSince(m)
          <5>1. \A i \in 1..durable : file[i].seq \in Int
            <6>1. /\ file \in Seq(Lines) /\ durable \in 0..Len(file)
              BY <2>0 DEF Shapes
            <6>2. Len(file) \in Nat /\ \A i \in 1..Len(file) : file[i].seq \in Int
              BY <6>1, LinesAre
            <6>3. QED
              BY <6>1, <6>2
          <5>2. \A from, start : Replay(from, start, durable) \subseteq 1..durable
            BY DEF Replay
          <5>3. \/ op' = [op EXCEPT ![m] = Call("waiting")]
                \/ \E last \in 1..durable : \E picked :
                       op' = [op EXCEPT ![m] = [Call("waiting") EXCEPT
                                !.upTo = file[last].seq, !.picked = picked]]
            <6> DEFINE talk == {i \in Replay(op[m].from, op[m].start, durable) : file[i].msg # 0}
                       count == Cardinality(talk) - MaxContext
                       older == {i \in talk :
                                    Cardinality({j \in talk : Precedes(j, i)}) < count}
            <6>1. older \subseteq 1..durable
              BY <5>2
            <6>2. \/ op' = [op EXCEPT ![m] = Call("waiting")]
                  \/ \E last \in older :
                        op' = [op EXCEPT ![m] = [Call("waiting") EXCEPT
                                !.upTo = file[last].seq,
                                !.picked = {file[i].msg : i \in older}]]
              BY <4>2, Zenon DEF ReadSince
            <6> HIDE DEF older
            <6>3. QED
              BY <6>1, <6>2, Zenon
          <5>4. \A seq, picked :
                    LET call == [Call("waiting") EXCEPT !.upTo = seq, !.picked = picked]
                    IN  call.upTo = seq /\ call.pc = "waiting"
            BY DEF Call
          <5>5. Call("waiting").upTo \in Int /\ Call("waiting").pc = "waiting"
            BY DEF Call
          <5>6. \E call : /\ call.upTo \in Int /\ call.pc = "waiting"
                          /\ op' = [op EXCEPT ![m] = call]
            BY <5>1, <5>3, <5>4, <5>5
          <5>7. QED
            BY <4>0, <5>6
        <4>3. QED
          BY <2>2, <4>1, <4>2
      <3>3. Shapes'
        BY <2>0, <3>1, <3>2 DEF Shapes
      <3>4. Phases' /\ Numbers'
        BY <2>0, <3>1 DEF Phases, Numbers, MustRebuild, LastSeq, IndexAtOpen
      <3>5. QED
        BY <3>1, <3>3, <3>4 DEF GrowInv
    <2>3. ASSUME NEW m \in Messages, Opened(m) \/ OpenedInside(m) PROVE GrowInv'
      BY <2>0, <2>3 DEF Shapes, Opened, OpenedInside
    <2>4. ASSUME NEW m \in Messages, Enter(m) PROVE GrowInv'
      <3>1. compact.phase = "idle"
        BY <2>4 DEF Enter, MutexFree
      <3>2. CASE session # NoSession /\ Record(m, session, indexFile)
        <4>1. /\ session.status \in {"open", "flushing", "ending", "breaking", "broken"}
              /\ session.index.lastSeq \in Nat
          BY <2>0, <3>1, <3>2 DEF Shapes, Phases
        <4>2. \A i \in DOMAIN file : file[i].seq <= session.index.lastSeq
          BY <2>0, <3>1, <3>2 DEF Numbers, LastSeq
        <4>3. QED
          BY <3>1, <3>2, <4>1, <4>2, RecordKeeps
      <3>3. CASE /\ session = NoSession
                 /\ Record(m, [status |-> "open", index |-> IndexAtOpen], indexFile)
        <4> DEFINE new == [status |-> "open", index |-> IndexAtOpen]
        <4>1. new.status = "open" /\ new.index = IndexAtOpen
          OBVIOUS
        <4>2. IndexAtOpen.lastSeq \in Nat
          BY <2>0 DEF Shapes, IndexAtOpen, EmptyIndex
        <4>3. \A i \in DOMAIN file : file[i].seq <= IndexAtOpen.lastSeq
          BY <2>0, <3>1, <3>3 DEF Numbers, LastSeq
        <4>4. Record(m, new, indexFile)
          BY <3>3
        <4> HIDE DEF new
        <4>5. /\ new.status \in {"open", "flushing", "ending", "breaking", "broken"}
              /\ new.index.lastSeq \in Nat
              /\ \A i \in DOMAIN file : file[i].seq <= new.index.lastSeq
          BY <4>1, <4>2, <4>3
        <4>6. QED
          BY <3>1, <4>4, <4>5, RecordKeeps
      <3>4. QED
        BY <2>0, <2>4, <3>2, <3>3 DEF Enter, Phases
    <2>5. ASSUME WriteOut \/ Close \/ Flushed \/ Ended PROVE GrowInv'
      <3>1. /\ crashes' = crashes /\ file' = file /\ op' = op /\ compact' = compact
            /\ durable' \in {durable, Len(file)}
        BY <2>5 DEF WriteOut, Close, Flushed, Ended, disk, bounds
      <3>2. durable' \in 0..Len(file)
        <4>1. Len(file) \in Nat /\ durable \in 0..Len(file)
          BY <2>0, LinesAre DEF Shapes
        <4>2. QED
          BY <3>1, <4>1
      <3>3. \/ indexFile' = indexFile
            \/ session # NoSession /\ indexFile' = session.index
        BY <2>5 DEF WriteOut, Close, Flushed, Ended, disk
      <3>4. \/ session' = session
            \/ /\ session # NoSession /\ compact.phase \in {"idle", "writing", "written", "rebuilding"}
               /\ \E status \in {"flushing", "ending", "broken"} :
                      session' = [session EXCEPT !.status = status]
            \/ /\ session # NoSession /\ session' = NoSession /\ indexFile' = session.index
               /\ session.status \in {"ending", "breaking"}
        BY <2>0, <2>5 DEF WriteOut, Close, Flushed, Ended, Phases
      <3>5. session' # session => compact.phase = "idle"
        BY <2>0, <2>5 DEF WriteOut, Close, Flushed, Ended, Phases
      <3>6. indexFile' # indexFile => compact.phase = "idle"
        BY <2>0, <2>5 DEF WriteOut, Close, Flushed, Ended, Phases, disk
      <3>7. CASE session' = session
        <4>1. LastSeq' = LastSeq
          BY <2>0, <3>3, <3>7 DEF LastSeq, IndexAtOpen
        <4>2. Shapes'
          BY <2>0, <3>1, <3>2, <3>3, <3>7 DEF Shapes
        <4>3. compact.phase \in {"written", "rebuilding"} => durable' = Len(file)
          BY <2>0, <3>1 DEF Phases
        <4>4. Phases'
          BY <2>0, <3>1, <3>3, <3>6, <3>7, <4>3 DEF Phases, MustRebuild
        <4>5. Numbers'
          BY <2>0, <3>1, <4>1 DEF Numbers
        <4>6. QED
          BY <3>1, <4>2, <4>4, <4>5 DEF GrowInv
      <3>8. CASE /\ session # NoSession
                 /\ \E status \in {"flushing", "ending", "broken"} :
                        session' = [session EXCEPT !.status = status]
                 /\ session' # session
        <4>1. /\ session' # NoSession
              /\ session' = [status |-> session'.status, index |-> session'.index]
              /\ session'.index = session.index
              /\ session'.status \in {"flushing", "ending", "broken"}
          BY <2>0, <3>8 DEF Shapes, NoSession
        <4>2. Shapes'
          BY <2>0, <3>1, <3>2, <3>3, <3>8, <4>1 DEF Shapes
        <4>3. Phases'
          BY <3>1, <3>5, <3>8, <4>1 DEF Phases
        <4>4. Numbers'
          BY <2>0, <3>1, <3>8, <4>1 DEF Numbers, LastSeq
        <4>5. QED
          BY <3>1, <4>2, <4>3, <4>4 DEF GrowInv
      <3>9. CASE /\ session # NoSession /\ session' = NoSession
                 /\ indexFile' = session.index
        <4>1. indexFile' # NoIndex /\ indexFile'.lastSeq \in Nat
          BY <2>0, <3>9 DEF Shapes, NoIndex
        <4>2. LastSeq' = LastSeq
          BY <3>9, <4>1 DEF LastSeq, IndexAtOpen
        <4>3. Shapes'
          BY <2>0, <3>1, <3>2, <3>9, <4>1 DEF Shapes
        <4>4. Phases'
          BY <2>0, <3>1, <3>5, <3>9, <4>1 DEF Phases, MustRebuild
        <4>5. Numbers'
          BY <2>0, <3>1, <4>2 DEF Numbers
        <4>6. QED
          BY <3>1, <4>3, <4>4, <4>5 DEF GrowInv
      <3>10. QED
        BY <3>4, <3>7, <3>8, <3>9
    <2>6. CASE CompactBegin
      <3>1. /\ Steady /\ op' = op /\ compact.phase = "idle"
            /\ session' = IF session = NoSession
                           THEN [status |-> "open", index |-> IndexAtOpen] ELSE session
            /\ session = NoSession \/ session.status = "open"
        BY <2>6 DEF CompactBegin, MutexFree, disk
      <3>2. /\ compact' = [phase |-> compact'.phase, index |-> compact'.index,
                            lines |-> compact'.lines]
            /\ compact'.phase = "reading" /\ compact'.lines = <<>>
        BY <2>6 DEF CompactBegin, NoCompaction
      <3>2a. compact'.index = session'.index
        BY <2>6 DEF CompactBegin, NoCompaction
      <3>3. IndexAtOpen.lastSeq \in Nat
        BY <2>0 DEF Shapes, IndexAtOpen, EmptyIndex
      <3>4. /\ session' # NoSession /\ session'.status = "open"
            /\ session' = [status |-> session'.status, index |-> session'.index]
            /\ session'.index.lastSeq \in Nat
        BY <2>0, <3>1, <3>3 DEF Shapes, NoSession
      <3>5. LastSeq' = LastSeq
        BY <3>1, <3>4 DEF LastSeq
      <3>6. Shapes'
        BY <2>0, <3>1, <3>2, <3>4 DEF Shapes
      <3>7. Phases'
        BY <3>2, <3>2a, <3>4 DEF Phases
      <3>8. Numbers'
        BY <2>0, <3>1, <3>2, <3>5 DEF Numbers, Increasing
      <3>9. QED
        BY <3>1, <3>6, <3>7, <3>8 DEF GrowInv
    <2>7. CASE CompactRead
      <3>1. Steady /\ session' = session /\ op' = op /\ compact.phase = "reading"
        BY <2>7 DEF CompactRead, disk, bounds
      <3>2. /\ compact' = [phase |-> compact'.phase, index |-> compact'.index,
                            lines |-> compact'.lines]
            /\ compact'.phase \in {"idle", "closing"}
            /\ compact'.lines \in Seq(Lines)
            /\ Increasing(compact'.lines)
        <4>1. session.index.lastSeq \in Nat /\ compact.index = session.index
          BY <2>0, <3>1 DEF Shapes, Phases
        <4>2. Readable
          BY <2>0, <4>1 DEF Readable, Shapes, Numbers
        <4>3. QED
          BY <2>7, <4>2, CompactReadKeeps
      <3>2a. compact'.phase # "idle" => compact'.index = compact.index
        <4> DEFINE from == ReplayFrom(compact.index)
                   kept == Replay(from, ReplayStart(compact.index, from), durable)
        <4>1. \/ compact' = NoCompaction
              \/ \E lines : compact' = [compact EXCEPT !.phase = "closing", !.lines = lines]
          BY <2>7, Zenon DEF CompactRead
        <4>2. ASSUME NEW lines, compact' = [compact EXCEPT !.phase = "closing", !.lines = lines]
              PROVE  compact'.index = compact.index
          <5>1. compact = [phase |-> compact.phase, index |-> compact.index,
                           lines |-> compact.lines]
            BY <2>0 DEF Shapes
          <5>2. QED
            BY <4>2, <5>1
        <4>3. NoCompaction.phase = "idle"
          BY DEF NoCompaction
        <4>4. QED
          BY <4>1, <4>2, <4>3
      <3>3. Shapes'
        BY <2>0, <3>1, <3>2 DEF Shapes
      <3>4. Phases'
        BY <2>0, <3>1, <3>2, <3>2a DEF Phases, MustRebuild
      <3>5. Numbers'
        BY <2>0, <3>1, <3>2 DEF Numbers, LastSeq, IndexAtOpen, Increasing
      <3>6. QED
        BY <3>1, <3>3, <3>4, <3>5 DEF GrowInv
    <2>8. CASE CompactClosed
      <3>1. /\ crashes' = crashes /\ file' = file /\ op' = op /\ durable' = Len(file)
            /\ indexFile' = compact.index /\ session' = session
            /\ compact' = [compact EXCEPT !.phase = "writing"]
            /\ compact.phase = "closing"
        BY <2>8 DEF CompactClosed, CompactTo, bounds
      <3>2. /\ session # NoSession /\ session.index.lastSeq \in Nat
            /\ compact.index = session.index
        BY <2>0, <3>1 DEF Phases, Shapes
      <3>3. /\ compact' = [phase |-> compact'.phase, index |-> compact'.index,
                            lines |-> compact'.lines]
            /\ compact'.phase = "writing" /\ compact'.lines = compact.lines
            /\ compact'.index = compact.index
        BY <2>0, <3>1 DEF Shapes
      <3>4. durable' \in 0..Len(file)
        BY <2>0, <3>1, LinesAre DEF Shapes
      <3>5. Shapes'
        BY <2>0, <3>1, <3>2, <3>3, <3>4 DEF Shapes
      <3>6. Phases'
        BY <2>0, <3>1, <3>3 DEF Phases
      <3>7. Numbers'
        BY <2>0, <3>1, <3>2, <3>3 DEF Numbers, LastSeq
      <3>8. QED
        BY <3>1, <3>5, <3>6, <3>7 DEF GrowInv
    <2>9. CASE CompactWrite
      <3>1. /\ crashes' = crashes /\ file' = compact.lines /\ op' = op
            /\ durable' = Len(compact.lines) /\ indexFile' = indexFile /\ session' = session
            /\ compact' = [compact EXCEPT !.phase = "written"]
            /\ compact.phase = "writing"
        BY <2>9 DEF CompactWrite, CompactTo, bounds
      <3>2. /\ compact' = [phase |-> compact'.phase, index |-> compact'.index,
                            lines |-> compact'.lines]
            /\ compact'.phase = "written" /\ compact'.lines = compact.lines
            /\ compact'.index = compact.index
        BY <2>0, <3>1 DEF Shapes
      <3>3. file' \in Seq(Lines) /\ durable' \in 0..Len(file')
        <4>1. compact.lines \in Seq(Lines)
          BY <2>0 DEF Shapes
        <4>2. Len(compact.lines) \in Nat
          BY <4>1, LinesAre
        <4>3. QED
          BY <3>1, <4>1, <4>2
      <3>4. Shapes'
        BY <2>0, <3>1, <3>2, <3>3 DEF Shapes
      <3>5. Phases'
        BY <2>0, <3>1, <3>2 DEF Phases
      <3>6. Numbers'
        BY <2>0, <3>1, <3>2 DEF Numbers
      <3>7. QED
        BY <3>1, <3>4, <3>5, <3>6 DEF GrowInv
    <2>10. CASE CompactUnlink
      <3>1. /\ crashes' = crashes /\ file' = file /\ op' = op /\ durable' = durable
            /\ indexFile' = NoIndex /\ session' = session
            /\ compact' = [compact EXCEPT !.phase = "rebuilding"]
            /\ compact.phase = "written"
        BY <2>10 DEF CompactUnlink, CompactTo, bounds
      <3>2. /\ compact' = [phase |-> compact'.phase, index |-> compact'.index,
                            lines |-> compact'.lines]
            /\ compact'.phase = "rebuilding" /\ compact'.lines = compact.lines
            /\ compact'.index = compact.index
        BY <2>0, <3>1 DEF Shapes
      <3>3. Shapes'
        BY <2>0, <3>1, <3>2 DEF Shapes
      <3>4. Phases'
        BY <2>0, <3>1, <3>2 DEF Phases
      <3>5. Numbers'
        BY <2>0, <3>1, <3>2 DEF Numbers
      <3>6. QED
        BY <3>1, <3>3, <3>4, <3>5 DEF GrowInv
    <2>11. CASE CompactDone
      <3>1. /\ compact.phase = "rebuilding" /\ crashes' = crashes /\ file' = file
            /\ op' = op /\ durable' = durable /\ compact' = NoCompaction
        BY <2>11 DEF CompactDone, bounds
      <3>2. durable = Len(file) /\ indexFile = NoIndex
        BY <2>0, <3>1 DEF Phases
      <3>3. /\ session' = [status |-> "open", index |-> Rebuilt(Len(file))]
            /\ indexFile' = Rebuilt(Len(file))
        BY <2>11, <3>2 DEF CompactDone
      <3>4. /\ Rebuilt(Len(file)).lastSeq \in Nat
            /\ \A i \in DOMAIN file : file[i].seq <= Rebuilt(Len(file)).lastSeq
        BY <2>0, RebuiltIsHighest DEF Shapes, Numbers
      <3>5. /\ session' # NoSession /\ session'.status = "open"
            /\ session' = [status |-> session'.status, index |-> session'.index]
            /\ session'.index = Rebuilt(Len(file))
        BY <3>3 DEF NoSession
      <3>6. /\ compact' = [phase |-> compact'.phase, index |-> compact'.index,
                            lines |-> compact'.lines]
            /\ compact'.phase = "idle" /\ compact'.lines = <<>>
        BY <3>1 DEF NoCompaction
      <3>7. Shapes'
        BY <2>0, <3>1, <3>3, <3>4, <3>5, <3>6 DEF Shapes
      <3>8. Phases'
        BY <3>5, <3>6 DEF Phases
      <3>9. Numbers'
        BY <2>0, <3>1, <3>4, <3>5, <3>6 DEF Numbers, LastSeq, Increasing
      <3>10. QED
        BY <3>1, <3>7, <3>8, <3>9 DEF GrowInv
    <2>12. CASE UNCHANGED vars
      <3>1. /\ Steady /\ session' = session /\ op' = op /\ compact' = compact
        BY <2>12 DEF vars, disk, bounds
      <3>2. Shapes' /\ Phases' /\ Numbers'
        BY <2>0, <3>1 DEF Shapes, Phases, Numbers, MustRebuild, LastSeq, IndexAtOpen
      <3>3. QED
        BY <3>1, <3>2 DEF GrowInv
    <2>13. QED
      BY <2>1, <2>2, <2>3, <2>4, <2>5, <2>6, <2>7, <2>8, <2>9, <2>10, <2>11, <2>12 DEF Next
  <1>4. QED
    BY <1>1, <1>2, <1>3

(* Until the process crashes, the numbers in the file grow from line to    *)
(* line, whatever messages are recorded and however often idle records are *)
(* closed and large ones compacted (appendSync, getOrCreateSession,        *)
(* compactSession).                                                        *)
THEOREM NumbersAlwaysGrow == Spec => []NumbersGrow
  <1>1. GrowInv => NumbersGrow
    BY DEF GrowInv, Numbers, NumbersGrow
  <1>2. QED
    BY <1>1, GrowInit, GrowStep, PTL DEF Spec

-----------------------------------------------------------------------------
(* A set of naturals that is not empty has a least element; and if it is   *)
(* bounded, a greatest one, which is what Highest chooses.                 *)
LEMMA HasLeast ==
    ASSUME NEW S, S \subseteq Nat, S # {}
    PROVE  \E x \in S : \A y \in S : x <= y
  <1>1. \E x \in S : \A y \in S : ~(<<y, x>> \in OpToRel(<, Nat))
    BY NatLessThanWellFounded, WFMin
  <1>2. PICK x \in S : \A y \in S : ~(<<y, x>> \in OpToRel(<, Nat))
    BY <1>1
  <1>3. \A y \in S : ~(y < x)
    BY <1>2 DEF OpToRel
  <1>4. \A y \in S : x <= y
    BY <1>3
  <1>5. QED
    BY <1>4

LEMMA HighestIsGreatest ==
    ASSUME NEW S, S \subseteq Nat, S # {}, NEW b \in Nat, \A x \in S : x <= b
    PROVE  Highest(S) \in S /\ \A y \in S : y <= Highest(S)
  <1> DEFINE T == {b - x : x \in S}
  <1>0. PICK z \in S : TRUE
    OBVIOUS
  <1>1. T \subseteq Nat /\ T # {}
    <2>1. \A x \in S : x \in Nat /\ x <= b
      OBVIOUS
    <2>2. \A x \in S : b - x \in Nat
      BY <2>1
    <2>3. b - z \in T
      OBVIOUS
    <2>4. QED
      BY <2>2, <2>3
  <1> HIDE DEF T
  <1>2. PICK t \in T : \A u \in T : t <= u
    BY <1>1, HasLeast
  <1>3. PICK x \in S : t = b - x
    BY DEF T
  <1>4. \A y \in S : y <= x
    <2> SUFFICES ASSUME NEW y \in S PROVE y <= x
      OBVIOUS
    <2>1. b - y \in T
      BY DEF T
    <2>2. t <= b - y
      BY <1>2, <2>1
    <2>3. x \in Nat /\ y \in Nat
      OBVIOUS
    <2>4. QED
      BY <1>3, <2>2, <2>3
  <1>5. QED
    BY <1>4 DEF Highest

(* Of the elements of a set of positions, one is the k-th.                 *)
LEMMA RankedIn ==
    ASSUME NEW n \in Nat, NEW S, S \subseteq 1..n, NEW k \in 1..Cardinality(S)
    PROVE  \E i \in S : Cardinality({j \in S : j <= i}) = k
  <1> DEFINE Upto(i) == {j \in S : j <= i}
             T == {i \in 0..n : Cardinality(Upto(i)) >= k}
  <1>1. /\ IsFiniteSet(S)
        /\ Cardinality(S) \in Nat
        /\ k \in Nat \ {0}
    <2>1. IsFiniteSet(1..n)
      BY FS_Interval
    <2>2. IsFiniteSet(S)
      BY <2>1, FS_Subset
    <2>3. Cardinality(S) \in Nat
      BY <2>2, FS_CardinalityType
    <2>4. QED
      BY <2>2, <2>3
  <1>2. ASSUME NEW i \in Int
        PROVE  IsFiniteSet(Upto(i)) /\ Cardinality(Upto(i)) \in Nat
    <2>1. Upto(i) \subseteq S
      OBVIOUS
    <2>2. QED
      BY <1>1, <2>1, FS_Subset, FS_CardinalityType
  <1>3. n \in T
    <2>0. \A j \in S : j \in 1..n
      OBVIOUS
    <2>1. Upto(n) = S
      <3>1. \A j \in S : j <= n
        BY <2>0
      <3>2. QED
        BY <3>1
    <2> HIDE DEF Upto
    <2>2. QED
      BY <1>1, <2>1
  <1>4. PICK i \in T : \A u \in T : i <= u
    <2>1. T \subseteq Nat /\ T # {}
      BY <1>3
    <2> HIDE DEF T
    <2>2. QED
      BY <2>1, HasLeast
  <1>5. i \in 0..n /\ Cardinality(Upto(i)) >= k
    OBVIOUS
  <1>6. i # 0
    <2>0. \A j \in S : j \in 1..n
      OBVIOUS
    <2>1. Upto(0) = {}
      <3>1. \A j \in S : ~(j <= 0)
        BY <2>0
      <3>2. QED
        BY <3>1
    <2>2. Cardinality({}) = 0
      BY FS_EmptySet
    <2> HIDE DEF Upto
    <2>3. QED
      BY <1>1, <1>5, <2>1, <2>2
  <1>7. i - 1 \in 0..n /\ Cardinality(Upto(i - 1)) < k
    <2>1. i - 1 \in 0..n
      BY <1>5, <1>6
    <2>2. i - 1 \notin T
      <3> HIDE DEF T
      <3>1. QED
        BY <1>4, <1>5
    <2>3. i - 1 \in Int /\ Cardinality(Upto(i - 1)) \in Nat
      <3>1. i - 1 \in Int
        BY <1>5
      <3> HIDE DEF Upto
      <3>2. QED
        BY <1>2, <3>1
    <2>4. ~(Cardinality(Upto(i - 1)) >= k)
      <3> HIDE DEF Upto
      <3>1. QED
        BY <2>1, <2>2
    <2> HIDE DEF T, Upto
    <2>5. QED
      BY <1>1, <2>1, <2>3, <2>4
  <1>8. i \in S /\ Upto(i) = Upto(i - 1) \union {i}
    <2>0. \A j \in S : j \in Int
      OBVIOUS
    <2>1. CASE i \in S
      <3>1. \A j \in S : j <= i <=> j <= i - 1 \/ j = i
        BY <1>5, <2>0
      <3>2. QED
        BY <2>1, <3>1
    <2>2. CASE i \notin S
      <3>0. \A j \in S : j <= i <=> j <= i - 1
        BY <1>5, <2>0, <2>2
      <3>1. Upto(i) = Upto(i - 1)
        BY <3>0
      <3> HIDE DEF Upto
      <3>2. QED
        BY <1>1, <1>2, <1>5, <1>7, <3>1
    <2>3. QED
      BY <2>1, <2>2
  <1>9. Cardinality(Upto(i)) = Cardinality(Upto(i - 1)) + 1
    <2>1. i \notin Upto(i - 1)
      BY <1>5
    <2>2. IsFiniteSet(Upto(i - 1))
      <3>1. i - 1 \in Int
        BY <1>5
      <3>2. QED
        BY <1>2, <3>1
    <2> HIDE DEF Upto
    <2>3. QED
      BY <1>8, <2>1, <2>2, FS_AddElement
  <1>10. Cardinality(Upto(i)) = k
    <2>0. i \in Int /\ i - 1 \in Int
      BY <1>5
    <2>1. Cardinality(Upto(i)) \in Nat /\ Cardinality(Upto(i - 1)) \in Nat
      BY <1>2, <2>0
    <2> HIDE DEF Upto
    <2>2. QED
      BY <1>1, <1>5, <1>7, <1>9, <2>1
  <1>11. QED
    BY <1>8, <1>10

-----------------------------------------------------------------------------
(* Indexes                                                                 *)

Marks == [offset : Nat, seq : Nat, upTo : Nat]

LEMMA EntriesAre ==
    ASSUME NEW lines \in Seq(Entries)
    PROVE  /\ DOMAIN lines = 1..Len(lines)
           /\ Len(lines) \in Nat
           /\ \A i \in 1..Len(lines) :
                 /\ lines[i] \in Entries
                 /\ lines[i].msg \in 0..MaxMessages
                 /\ lines[i].seq \in Nat /\ lines[i].upTo \in Nat
  <1>1. /\ DOMAIN lines = 1..Len(lines)
        /\ Len(lines) \in Nat
        /\ lines \in [1..Len(lines) -> Entries]
    BY LenProperties
  <1>2. \A e \in Entries : e.msg \in 0..MaxMessages /\ e.seq \in Nat /\ e.upTo \in Nat
    BY DEF Entries
  <1>3. \A i \in 1..Len(lines) : lines[i] \in Entries
    BY <1>1
  <1>4. QED
    BY <1>1, <1>2, <1>3

(* What the numbers of some lines do not exceed.                           *)
LEMMA SeqsAreBounded ==
    ASSUME file \in Seq(Entries), NEW n \in 0..Len(file)
    PROVE  \E b \in Nat : \A i \in 1..n : file[i].seq <= b
  <1> DEFINE Bounded(k) == \E b \in Nat : \A i \in 1..k : file[i].seq <= b
             Bad == {k \in 0..n : ~Bounded(k)}
  <1>1. Len(file) \in Nat /\ \A i \in 1..Len(file) : file[i].seq \in Nat
    BY EntriesAre
  <1>2. Bounded(0)
    OBVIOUS
  <1>3. ASSUME NEW k \in 1..n, Bounded(k - 1) PROVE Bounded(k)
    <2>1. PICK b \in Nat : \A i \in 1..(k - 1) : file[i].seq <= b
      BY <1>3
    <2>2. file[k].seq \in Nat
      BY <1>1
    <2>3. \A i \in 1..k : i \in 1..(k - 1) \/ i = k
      OBVIOUS
    <2>4. CASE file[k].seq <= b
      BY <2>1, <2>3, <2>4
    <2>5. CASE ~(file[k].seq <= b)
      <3>1. \A i \in 1..(k - 1) : file[i].seq \in Nat /\ file[i].seq <= b
        BY <1>1, <2>1
      <3>2. \A i \in 1..k : file[i].seq <= file[k].seq
        BY <2>2, <2>3, <2>5, <3>1
      <3>3. QED
        BY <2>2, <3>2
    <2>6. QED
      BY <2>4, <2>5
  <1>4. Bad = {}
    <2> SUFFICES ASSUME Bad # {} PROVE FALSE
      OBVIOUS
    <2>1. Bad \subseteq Nat
      BY <1>1
    <2> HIDE DEF Bad
    <2>2. PICK k \in Bad : \A u \in Bad : k <= u
      BY <2>1, HasLeast
    <2> HIDE DEF Bounded
    <2>3. k \in 0..n /\ ~Bounded(k)
      BY DEF Bad
    <2>4. k \in 1..n
      BY <1>1, <1>2, <2>3
    <2>5. k - 1 \notin Bad
      BY <1>1, <2>2, <2>4
    <2>6. Bounded(k - 1)
      BY <1>1, <2>4, <2>5 DEF Bad
    <2>7. QED
      BY <1>3, <2>3, <2>4, <2>6
  <1> HIDE DEF Bounded
  <1>5. n \in 0..n
    BY <1>1
  <1>6. Bounded(n)
    BY <1>4, <1>5
  <1>7. QED
    BY <1>6 DEF Bounded

(* An index rebuilt from the first n lines is an index; its marks stand for*)
(* the checkpoint entries among them, its number is the highest.           *)
LEMMA RebuiltIs ==
    ASSUME file \in Seq(Entries), NEW n \in 0..Len(file)
    PROVE  /\ Rebuilt(n) \in Indexes
           /\ Rebuilt(n).lastOffset = n
           /\ Rebuilt(n).lastSeq \in {0} \union {file[i].seq : i \in 1..n}
           /\ \A i \in 1..n : file[i].seq <= Rebuilt(n).lastSeq
           /\ \A k \in DOMAIN Rebuilt(n).checkpoints :
                 LET mark == Rebuilt(n).checkpoints[k]
                 IN  /\ mark.offset + 1 \in 1..n
                     /\ file[mark.offset + 1].msg = 0
                     /\ mark.seq = file[mark.offset + 1].seq
                     /\ mark.upTo = file[mark.offset + 1].upTo
  <1> DEFINE at == {i \in 1..n : file[i].msg = 0}
             nth(k) == CHOOSE i \in at : Cardinality({j \in at : j <= i}) = k
             S == {0} \union {file[i].seq : i \in 1..n}
             marks == CheckpointsOf(n)
  <1>1. /\ n \in Nat /\ Len(file) \in Nat
        /\ \A i \in 1..n : file[i].seq \in Nat /\ file[i].upTo \in Nat
    BY EntriesAre
  <1>2. Highest(S) \in S /\ \A y \in S : y <= Highest(S)
    <2>1. PICK b \in Nat : \A i \in 1..n : file[i].seq <= b
      BY SeqsAreBounded
    <2>2. S \subseteq Nat /\ S # {} /\ \A x \in S : x <= b
      BY <1>1, <2>1
    <2> HIDE DEF S
    <2>3. QED
      BY <2>2, HighestIsGreatest
  <1>3. Highest(S) \in Nat
    BY <1>1, <1>2
  <1>4. Cardinality(at) \in Nat
    <2>1. IsFiniteSet(1..n) /\ at \subseteq 1..n
      BY <1>1, FS_Interval
    <2> HIDE DEF at
    <2>2. IsFiniteSet(at)
      BY <2>1, FS_Subset
    <2>3. QED
      BY <2>2, FS_CardinalityType
  <1>5. \A k \in 1..Cardinality(at) : nth(k) \in at
    <2> SUFFICES ASSUME NEW k \in 1..Cardinality(at) PROVE nth(k) \in at
      OBVIOUS
    <2>1. at \subseteq 1..n
      OBVIOUS
    <2>2. \E i \in at : Cardinality({j \in at : j <= i}) = k
      <3>a. n \in Nat
        BY <1>1
      <3>0. k \in 1..Cardinality(at)
        OBVIOUS
      <3> HIDE DEF at
      <3>1. QED
        BY <3>a, <2>1, <3>0, RankedIn
    <2> HIDE DEF at
    <2>3. QED
      BY <2>2
  <1>6. marks = [k \in 1..Cardinality(at) |->
                    [offset |-> nth(k) - 1, seq |-> file[nth(k)].seq, upTo |-> file[nth(k)].upTo]]
    BY DEF CheckpointsOf
  <1> HIDE DEF marks, nth
  <1>7. \A i \in at : /\ i - 1 \in Nat /\ (i - 1) + 1 = i
                      /\ i \in 1..n /\ file[i].msg = 0
                      /\ file[i].seq \in Nat /\ file[i].upTo \in Nat
    BY <1>1
  <1> HIDE DEF at
  <1>8. DOMAIN marks = 1..Cardinality(at)
    BY <1>6
  <1>9. \A k \in 1..Cardinality(at) :
           /\ marks[k] \in Marks
           /\ marks[k].offset = nth(k) - 1
           /\ marks[k].seq = file[nth(k)].seq
           /\ marks[k].upTo = file[nth(k)].upTo
    BY <1>5, <1>6, <1>7 DEF Marks
  <1>10. marks \in Seq(Marks)
    <2>1. marks \in [1..Cardinality(at) -> Marks]
      BY <1>6, <1>8, <1>9
    <2>2. QED
      BY <1>4, <2>1, SeqDef
  <1>11. Rebuilt(n) = [lastOffset |-> n, lastSeq |-> Highest(S), checkpoints |-> marks]
    BY DEF Rebuilt, marks
  <1>12. Rebuilt(n) \in Indexes
    BY <1>1, <1>3, <1>10, <1>11 DEF Indexes, Marks
  <1>13. /\ Rebuilt(n).lastOffset = n /\ Rebuilt(n).lastSeq = Highest(S)
         /\ Rebuilt(n).checkpoints = marks
    BY <1>11
  <1>14. ASSUME NEW k \in DOMAIN marks
         PROVE  /\ marks[k].offset + 1 \in 1..n
                /\ file[marks[k].offset + 1].msg = 0
                /\ marks[k].seq = file[marks[k].offset + 1].seq
                /\ marks[k].upTo = file[marks[k].offset + 1].upTo
    <2>1. /\ nth(k) \in at /\ marks[k].offset = nth(k) - 1
          /\ marks[k].seq = file[nth(k)].seq /\ marks[k].upTo = file[nth(k)].upTo
      BY <1>5, <1>8, <1>9
    <2>2. marks[k].offset + 1 = nth(k)
      BY <1>7, <2>1
    <2>3. QED
      BY <1>7, <2>1, <2>2
  <1>15. \A i \in 1..n : file[i].seq <= Highest(S)
    BY <1>2
  <1>16. QED
    BY <1>2, <1>12, <1>13, <1>14, <1>15

CallsOf == [pc : {"none", "opening", "reading", "waiting", "inside", "done"},
            from : Nat, start : Nat, seen : Nat, upTo : Nat, picked : SUBSET (0..MaxMessages)]
Transcripts == [status : {"open", "flushing", "ending", "breaking", "broken"},
                index : Indexes]
Compactions == [phase : {"idle", "reading", "closing", "writing", "written", "rebuilding"},
                index : Indexes, lines : Seq(Entries)]

LEMMA CallIsCall ==
    ASSUME NEW pc \in {"none", "opening", "reading", "waiting", "inside", "done"}
    PROVE  /\ Call(pc) \in CallsOf
           /\ \A upTo \in Nat, picked \in SUBSET (0..MaxMessages) :
                 [Call(pc) EXCEPT !.upTo = upTo, !.picked = picked] \in CallsOf
           /\ \A from \in Nat, start \in Nat :
                 [Call(pc) EXCEPT !.from = from, !.start = start] \in CallsOf
           /\ \A seen \in Nat : [Call(pc) EXCEPT !.seen = seen] \in CallsOf
  BY DEF Call, CallsOf

LEMMA IndexesAre ==
    ASSUME NEW index \in Indexes
    PROVE  /\ index.lastOffset \in Nat /\ index.lastSeq \in Nat
           /\ index.checkpoints \in Seq(Marks)
           /\ Len(index.checkpoints) \in Nat
           /\ DOMAIN index.checkpoints = 1..Len(index.checkpoints)
           /\ \A k \in 1..Len(index.checkpoints) :
                 /\ index.checkpoints[k] \in Marks
                 /\ index.checkpoints[k].offset \in Nat
                 /\ index.checkpoints[k].seq \in Nat
                 /\ index.checkpoints[k].upTo \in Nat
           /\ index # NoIndex
  <1>1. /\ index.lastOffset \in Nat /\ index.lastSeq \in Nat
        /\ index.checkpoints \in Seq(Marks)
    BY DEF Indexes, Marks
  <1>2. /\ Len(index.checkpoints) \in Nat
        /\ DOMAIN index.checkpoints = 1..Len(index.checkpoints)
        /\ index.checkpoints \in [1..Len(index.checkpoints) -> Marks]
    BY <1>1, LenProperties
  <1>3. \A mark \in Marks : mark.offset \in Nat /\ mark.seq \in Nat /\ mark.upTo \in Nat
    BY DEF Marks
  <1>4. index # NoIndex
    BY <1>1 DEF NoIndex
  <1>5. QED
    BY <1>1, <1>2, <1>3, <1>4

LEMMA IndexedIsIndex ==
    ASSUME NEW index \in Indexes, NEW entry \in Entries
    PROVE  Indexed(index, entry) \in Indexes
  <1> DEFINE mark == [offset |-> index.lastOffset, seq |-> entry.seq, upTo |-> entry.upTo]
  <1>1. index.lastOffset \in Nat /\ index.checkpoints \in Seq(Marks)
    BY IndexesAre
  <1>2. entry.seq \in Nat /\ entry.upTo \in Nat
    BY DEF Entries
  <1>3. mark \in Marks
    BY <1>1, <1>2 DEF Marks
  <1> HIDE DEF mark
  <1>4. Append(index.checkpoints, mark) \in Seq(Marks)
    BY <1>1, <1>3
  <1> DEFINE marks == IF entry.msg # 0 THEN index.checkpoints ELSE Append(index.checkpoints, mark)
  <1>5. marks \in Seq(Marks)
    BY <1>1, <1>4
  <1>6. Indexed(index, entry) = [lastOffset |-> index.lastOffset + 1, lastSeq |-> entry.seq,
                                 checkpoints |-> marks]
    BY DEF Indexed, mark
  <1> HIDE DEF marks
  <1>7. QED
    BY <1>1, <1>2, <1>5, <1>6 DEF Indexes, Marks

LEMMA ReplayIsTyped ==
    ASSUME NEW index \in Indexes
    PROVE  /\ ReplayFrom(index) \in Nat /\ ReplayFrom(index) >= 1
           /\ ReplayStart(index, ReplayFrom(index)) \in Nat
           /\ Reading(index) \in CallsOf
  <1> DEFINE marks == index.checkpoints
             from == ReplayFrom(index)
             before == {k \in DOMAIN marks : marks[k].seq < from}
  <1>1. /\ marks \in Seq(Marks) /\ Len(marks) \in Nat /\ DOMAIN marks = 1..Len(marks)
        /\ \A k \in 1..Len(marks) : /\ marks[k].offset \in Nat /\ marks[k].seq \in Nat
                                    /\ marks[k].upTo \in Nat
    BY IndexesAre
  <1>2. from \in Nat /\ from >= 1
    <2>1. CASE marks = <<>>
      BY <2>1 DEF ReplayFrom
    <2>2. CASE marks # <<>>
      <3>1. Len(marks) \in 1..Len(marks)
        BY <1>1, <2>2, EmptySeq
      <3> DEFINE last == marks[Len(marks)]
      <3>2. from = (IF last.upTo > last.seq THEN last.seq ELSE last.upTo) + 1
        BY <2>2 DEF ReplayFrom
      <3>3. last.seq \in Nat /\ last.upTo \in Nat
        BY <1>1, <3>1
      <3> HIDE DEF last, from
      <3>4. QED
        BY <3>2, <3>3
    <2>3. QED
      BY <2>1, <2>2
  <1>3. ReplayStart(index, from) \in Nat
    <2>1. CASE from > 1 /\ before # {}
      <3>1. before \subseteq Nat /\ \A k \in before : k <= Len(marks)
        BY <1>1
      <3> HIDE DEF before
      <3>2. Highest(before) \in before
        BY <1>1, <2>1, <3>1, HighestIsGreatest
      <3>3. Highest(before) \in 1..Len(marks)
        BY <1>1, <3>2 DEF before
      <3>4. ReplayStart(index, from) = marks[Highest(before)].offset
        BY <2>1 DEF ReplayStart, before
      <3>5. QED
        BY <1>1, <3>3, <3>4
    <2>2. CASE ~(from > 1 /\ before # {})
      BY <2>2 DEF ReplayStart
    <2>3. QED
      BY <2>1, <2>2
  <1>4. Reading(index) = [Call("reading") EXCEPT !.from = from, !.start = ReplayStart(index, from)]
    BY DEF Reading
  <1> HIDE DEF from
  <1>5. Reading(index) \in CallsOf
    <2>1. \A f \in Nat, s \in Nat :
              [Call("reading") EXCEPT !.from = f, !.start = s] \in CallsOf
      BY CallIsCall
    <2>2. QED
      BY <1>2, <1>3, <1>4, <2>1
  <1>6. QED
    BY <1>2, <1>3, <1>5 DEF from

(* A record keeps the types, with a transcript of the right type.          *)
LEMMA RecordIsTyped ==
    ASSUME TypeOK, NEW m \in Messages, NEW transcript \in Transcripts,
           NEW saved \in Indexes \union {NoIndex}, Record(m, transcript, saved)
    PROVE  TypeOK'
  <1> DEFINE applies == Applies(op[m])
             first == CheckpointEntry(NumberOf(transcript.index), op[m].upTo)
             index1 == IF applies THEN Indexed(transcript.index, first) ELSE transcript.index
             saved1 == IF applies THEN SavedBy(index1, saved) ELSE saved
             second == Entry(m, NumberOf(index1))
             index2 == Indexed(index1, second)
             before == IF applies THEN Append(file, first) ELSE file
             lost == transcript.status \in {"ending", "breaking", "broken"}
  <1>0. TypeOK /\ MaxMessages \in Nat
    BY RecordsAssumption
  <1>1. /\ transcript.index \in Indexes
        /\ transcript.status \in {"open", "flushing", "ending", "breaking", "broken"}
    BY DEF Transcripts
  <1>2. op[m] \in CallsOf
    BY <1>0 DEF TypeOK, CallsOf
  <1>3. op[m].upTo \in Nat /\ op[m].picked \subseteq 0..MaxMessages
    BY <1>2 DEF CallsOf
  <1>4. first \in Entries
    BY <1>0, <1>1, <1>3, IndexesAre DEF CheckpointEntry, NumberOf, Entries
  <1>5. index1 \in Indexes
    BY <1>1, <1>4, IndexedIsIndex
  <1>6. saved1 \in Indexes \union {NoIndex}
    BY <1>0, <1>5 DEF TypeOK, SavedBy
  <1>7. before \in Seq(Entries)
    BY <1>0, <1>4 DEF TypeOK
  <1> HIDE DEF index1, saved1, before, first
  <1>8. second \in Entries
    BY <1>0, <1>5, IndexesAre DEF Entry, NumberOf, Entries, Messages
  <1> HIDE DEF second
  <1>9. index2 \in Indexes
    BY <1>5, <1>8, IndexedIsIndex
  <1> HIDE DEF index2
  <1>10. SavedBy(index2, saved1) \in Indexes \union {NoIndex}
    BY <1>6, <1>9 DEF SavedBy
  <1>11. /\ file' = IF lost THEN file ELSE Append(before, second)
         /\ session' = [status |-> IF transcript.status = "ending" THEN "breaking"
                                   ELSE transcript.status,
                        index |-> index2]
         /\ indexFile' = SavedBy(index2, saved1)
         /\ checkpoint' = IF applies THEN op[m].upTo ELSE checkpoint
         /\ row' = IF applies THEN op[m].upTo ELSE row
         /\ summarised' = IF applies THEN summarised \union op[m].picked ELSE summarised
         /\ acked' = acked \union {m}
         /\ op' = [op EXCEPT ![m] = Call("done")]
         /\ durable' = durable /\ compact' = compact
         /\ crashes' = crashes /\ closes' = closes /\ compactions' = compactions
    BY DEF Record, bounds, before, first, index1, saved1, second, index2
  <1>12. file' \in Seq(Entries) /\ Len(file) <= Len(file')
    <2>1. Len(file) <= Len(before)
      BY <1>0, <1>4, EntriesAre DEF before, TypeOK
    <2>2. QED
      BY <1>0, <1>7, <1>8, <1>11, <2>1, EntriesAre DEF TypeOK
  <1>13. durable' \in 0..Len(file')
    BY <1>0, <1>11, <1>12, EntriesAre DEF TypeOK
  <1>14. session' \in Transcripts
    BY <1>1, <1>9, <1>11 DEF Transcripts
  <1>16. op' \in [Messages -> CallsOf]
    BY <1>0, <1>11, CallIsCall DEF TypeOK, CallsOf
  <1>17. summarised' \subseteq 0..MaxMessages /\ acked' \subseteq Messages
    BY <1>0, <1>3, <1>11 DEF TypeOK
  <1>18. row' \in Nat /\ checkpoint' \in Nat
    BY <1>0, <1>3, <1>11 DEF TypeOK
  <1>19. QED
    BY <1>0, <1>10, <1>11, <1>12, <1>13, <1>14, <1>16, <1>17, <1>18
       DEF TypeOK, CallsOf, Transcripts

LEMMA TypeInit == Init => TypeOK
  <1> SUFFICES ASSUME Init PROVE TypeOK
    OBVIOUS
  <1>1. MaxMessages \in Nat /\ MaxCrashes \in Nat /\ MaxCloses \in Nat /\ MaxCompactions \in Nat
    BY RecordsAssumption
  <1>2. op \in [Messages -> CallsOf]
    BY CallIsCall DEF Init
  <1>3. compact \in Compactions
    BY DEF Init, NoCompaction, EmptyIndex, Indexes, Compactions
  <1>4. QED
    BY <1>1, <1>2, <1>3 DEF Init, TypeOK, CallsOf, Compactions

(* The index a transcript opens with.                                      *)
LEMMA OpensTyped ==
    ASSUME TypeOK
    PROVE  /\ IndexAtOpen \in Indexes
           /\ [status |-> "open", index |-> IndexAtOpen] \in Transcripts
           /\ \A n \in 0..durable : /\ Rebuilt(n) \in Indexes
                                    /\ [status |-> "open", index |-> Rebuilt(n)] \in Transcripts
           /\ \A m \in Messages : op[m] \in CallsOf
           /\ \A m \in Messages : \A n \in op[m].seen..durable : n \in 0..durable
  <1>1. IndexAtOpen \in Indexes
    <2>1. EmptyIndex \in Indexes
      BY DEF EmptyIndex, Indexes
    <2>2. QED
      BY <2>1 DEF TypeOK, IndexAtOpen
  <1>2. \A n \in 0..durable : Rebuilt(n) \in Indexes
    <2> SUFFICES ASSUME NEW n \in 0..durable PROVE Rebuilt(n) \in Indexes
      OBVIOUS
    <2>1. file \in Seq(Entries) /\ n \in 0..Len(file)
      BY EntriesAre DEF TypeOK
    <2>2. QED
      BY <2>1, RebuiltIs
  <1>3. \A m \in Messages : op[m] \in CallsOf
    BY DEF TypeOK, CallsOf
  <1>4. durable \in Nat
    BY EntriesAre DEF TypeOK
  <1>5. \A call \in CallsOf : \A n \in call.seen..durable : n \in 0..durable
    BY <1>4 DEF CallsOf
  <1>6. QED
    BY <1>1, <1>2, <1>3, <1>5 DEF Transcripts

LEMMA StartUserTyped ==
    ASSUME TypeOK, NEW m \in Messages, StartUser(m)
    PROVE  TypeOK'
  <1>0. TypeOK
    OBVIOUS
  <1>1. /\ file' = file /\ durable' = durable /\ indexFile' = indexFile /\ row' = row
        /\ checkpoint' = checkpoint /\ compact' = compact
        /\ summarised' = summarised /\ acked' = acked
        /\ crashes' = crashes /\ closes' = closes /\ compactions' = compactions
    BY DEF StartUser, disk, history, bounds
  <1>2. /\ \E call \in CallsOf : op' = [op EXCEPT ![m] = call]
        /\ \/ session' = session
           \/ session' \in Transcripts
    <2>1. CASE /\ AtHand /\ op' = [op EXCEPT ![m] = Reading(session.index)]
               /\ session' = session
      <3>1. session.index \in Indexes
        BY <1>0, <2>1 DEF AtHand, TypeOK
      <3>2. QED
        BY <2>1, <3>1, ReplayIsTyped
    <2>2. CASE /\ session' = [status |-> "open", index |-> IndexAtOpen]
               /\ op' = [op EXCEPT ![m] = Reading(IndexAtOpen)]
      BY <1>0, <2>2, OpensTyped, ReplayIsTyped
    <2>3. CASE /\ op' = [op EXCEPT ![m] = [Call("opening") EXCEPT !.seen = durable]]
               /\ session' = session
      <3>1. durable \in Nat
        BY <1>0, EntriesAre DEF TypeOK
      <3>2. \A n \in Nat : [Call("opening") EXCEPT !.seen = n] \in CallsOf
        BY CallIsCall
      <3>3. QED
        BY <2>3, <3>1, <3>2
    <2>4. QED
      BY <2>1, <2>2, <2>3 DEF StartUser
  <1>3. op' \in [Messages -> CallsOf]
    BY <1>0, <1>2 DEF TypeOK, CallsOf
  <1>4. QED
    BY <1>0, <1>1, <1>2, <1>3 DEF TypeOK, CallsOf, Transcripts

LEMMA ReadSinceTyped ==
    ASSUME TypeOK, NEW m \in Messages, StartOther(m) \/ ReadSince(m)
    PROVE  TypeOK'
  <1>0. TypeOK
    OBVIOUS
  <1>1. /\ file' = file /\ durable' = durable /\ indexFile' = indexFile /\ row' = row
        /\ session' = session /\ checkpoint' = checkpoint /\ compact' = compact
        /\ summarised' = summarised /\ acked' = acked
        /\ crashes' = crashes /\ closes' = closes /\ compactions' = compactions
    BY DEF StartOther, ReadSince, disk, history, bounds
  <1>2. \E call \in CallsOf : op' = [op EXCEPT ![m] = call]
    <2>1. Call("waiting") \in CallsOf
      BY CallIsCall
    <2>2. CASE op' = [op EXCEPT ![m] = Call("waiting")]
      BY <2>1, <2>2
    <2>3. CASE ReadSince(m) /\ op' # [op EXCEPT ![m] = Call("waiting")]
      <3> DEFINE talk == {i \in Replay(op[m].from, op[m].start, durable) : file[i].msg # 0}
                 count == Cardinality(talk) - MaxContext
                 older == {i \in talk : Cardinality({j \in talk : Precedes(j, i)}) < count}
                 picked == {file[i].msg : i \in older}
      <3>1. older \subseteq 1..durable
        BY DEF Replay
      <3>2. \E last \in older :
               op' = [op EXCEPT ![m] = [Call("waiting") EXCEPT
                        !.upTo = file[last].seq, !.picked = {file[i].msg : i \in older}]]
        BY <2>3, Zenon DEF ReadSince
      <3> HIDE DEF older
      <3>3. \A i \in older : file[i].seq \in Nat /\ file[i].msg \in 0..MaxMessages
        <4>1. durable \in 0..Len(file) /\ Len(file) \in Nat
          BY <1>0, EntriesAre DEF TypeOK
        <4>2. \A i \in 1..Len(file) : file[i].seq \in Nat /\ file[i].msg \in 0..MaxMessages
          BY <1>0, EntriesAre DEF TypeOK
        <4>3. older \subseteq 1..Len(file)
          BY <3>1, <4>1
        <4>4. QED
          BY <4>2, <4>3
      <3>4. picked \in SUBSET (0..MaxMessages)
        BY <3>3
      <3>5. \A n \in Nat, S \in SUBSET (0..MaxMessages) :
               [Call("waiting") EXCEPT !.upTo = n, !.picked = S] \in CallsOf
        BY CallIsCall
      <3>6. PICK last \in older :
               op' = [op EXCEPT ![m] = [Call("waiting") EXCEPT
                        !.upTo = file[last].seq, !.picked = picked]]
        BY <3>2
      <3> HIDE DEF picked
      <3>7. file[last].seq \in Nat
        BY <3>3
      <3>8. [Call("waiting") EXCEPT !.upTo = file[last].seq, !.picked = picked] \in CallsOf
        BY <3>4, <3>5, <3>7
      <3>9. QED
        BY <3>6, <3>8
    <2>4. QED
      BY <2>2, <2>3 DEF StartOther
  <1>3. op' \in [Messages -> CallsOf]
    BY <1>0, <1>2 DEF TypeOK, CallsOf
  <1>4. QED
    BY <1>0, <1>1, <1>3 DEF TypeOK, CallsOf

LEMMA OpenedTyped ==
    ASSUME TypeOK, NEW m \in Messages, Opened(m) \/ OpenedInside(m) \/ Enter(m)
    PROVE  TypeOK'
  <1>0. TypeOK
    OBVIOUS
  <1>1. CASE Opened(m)
    <2>1. PICK n \in (IF op[m].seen <= durable THEN op[m].seen ELSE durable)..durable :
             /\ session' = [status |-> "open", index |-> Rebuilt(n)]
             /\ indexFile' = Rebuilt(n)
             /\ op' = [op EXCEPT ![m] = Reading(Rebuilt(n))]
      BY <1>1 DEF Opened
    <2>2. n \in 0..durable
      <3>1. op[m].seen \in Nat /\ durable \in Nat
        BY <1>0, OpensTyped, EntriesAre DEF TypeOK, CallsOf
      <3>2. QED
        BY <2>1, <3>1
    <2>3. Rebuilt(n) \in Indexes /\ session' \in Transcripts
      BY <1>0, <2>1, <2>2, OpensTyped
    <2>4. Reading(Rebuilt(n)) \in CallsOf
      BY <2>3, ReplayIsTyped
    <2>5. op' \in [Messages -> CallsOf]
      BY <1>0, <2>1, <2>4 DEF TypeOK, CallsOf
    <2>7. /\ file' = file /\ durable' = durable /\ row' = row
          /\ checkpoint' = checkpoint /\ compact' = compact
          /\ summarised' = summarised /\ acked' = acked
          /\ crashes' = crashes /\ closes' = closes /\ compactions' = compactions
      BY <1>1 DEF Opened, history, bounds
    <2>8. QED
      BY <1>0, <2>1, <2>3, <2>5, <2>7 DEF TypeOK, CallsOf, Transcripts
  <1>2. CASE OpenedInside(m)
    <2>1. PICK n \in op[m].seen..durable :
             Record(m, [status |-> "open", index |-> Rebuilt(n)], Rebuilt(n))
      BY <1>2 DEF OpenedInside
    <2>2. [status |-> "open", index |-> Rebuilt(n)] \in Transcripts
      BY <1>0, OpensTyped
    <2>3. /\ [status |-> "open", index |-> Rebuilt(n)].status = "open"
          /\ Rebuilt(n) \in Indexes \union {NoIndex}
      BY <1>0, OpensTyped
    <2>4. QED
      BY <2>1, <2>2, <2>3, RecordIsTyped
  <1>3. CASE Enter(m) /\ session # NoSession /\ Record(m, session, indexFile)
    <2>1. session \in Transcripts
      BY <1>0, <1>3 DEF TypeOK, Transcripts
    <2>2. compact.phase = "idle" /\ indexFile \in Indexes \union {NoIndex}
      BY <1>0, <1>3 DEF Enter, MutexFree, TypeOK
    <2>3. QED
      BY <1>3, <2>1, <2>2, RecordIsTyped
  <1>4. CASE Enter(m) /\ Record(m, [status |-> "open", index |-> IndexAtOpen], indexFile)
    <2>1. compact.phase = "idle" /\ indexFile \in Indexes \union {NoIndex}
      BY <1>0, <1>4 DEF Enter, MutexFree, TypeOK
    <2>2. [status |-> "open", index |-> IndexAtOpen] \in Transcripts
      BY <1>0, OpensTyped
    <2>3. QED
      BY <1>4, <2>1, <2>2, RecordIsTyped
  <1>5. CASE /\ Enter(m)
             /\ op' = [op EXCEPT ![m].pc = "inside", ![m].seen = durable]
             /\ UNCHANGED <<disk, session, checkpoint, compact, history, bounds>>
    <2>1. op[m] \in CallsOf /\ durable \in Nat
      BY <1>0, OpensTyped, EntriesAre DEF TypeOK
    <2>2. op' \in [Messages -> CallsOf]
      BY <1>0, <1>5, <2>1 DEF TypeOK, CallsOf
    <2>3. QED
      BY <1>0, <1>5, <2>2 DEF TypeOK, CallsOf, disk, history, bounds
  <1>6. QED
    BY <1>1, <1>2, <1>3, <1>4, <1>5 DEF Enter

LEMMA ClosingTyped ==
    ASSUME TypeOK, WriteOut \/ Close \/ Flushed \/ Ended
    PROVE  TypeOK'
  <1>0. TypeOK /\ Len(file) \in Nat
    BY EntriesAre DEF TypeOK
  <1>1. /\ file' = file /\ op' = op /\ compact' = compact /\ row' = row
        /\ durable' \in {durable, Len(file)}
        /\ summarised' = summarised /\ acked' = acked
        /\ crashes' = crashes /\ compactions' = compactions
    BY DEF WriteOut, Close, Flushed, Ended, disk, history, bounds
  <1>2. durable' \in 0..Len(file)
    BY <1>0, <1>1 DEF TypeOK
  <1>3. closes' \in 0..MaxCloses
    <2>1. closes' = closes \/ (closes < MaxCloses /\ closes' = closes + 1)
      BY DEF WriteOut, Close, Flushed, Ended, bounds
    <2>2. closes \in 0..MaxCloses /\ MaxCloses \in Nat
      BY <1>0, RecordsAssumption DEF TypeOK
    <2>3. QED
      BY <2>1, <2>2
  <1>4. checkpoint' \in Nat
    <2>1. checkpoint' = checkpoint \/ checkpoint' = 0
      BY DEF WriteOut, Close, Flushed, Ended
    <2>2. QED
      BY <1>0, <2>1 DEF TypeOK
  <1>5. /\ indexFile' \in Indexes \union {NoIndex}
        /\ \/ session' = session
           \/ session' = NoSession /\ session.status \in {"ending", "breaking"}
           \/ session' \in Transcripts
    BY <1>0 DEF TypeOK, Transcripts, WriteOut, Close, Flushed, Ended, disk
  <1>6. QED
    BY <1>0, <1>1, <1>2, <1>3, <1>4, <1>5 DEF TypeOK, Transcripts

LEMMA CompactionIs ==
    ASSUME TypeOK
    PROVE  /\ compact \in Compactions
           /\ compact.index \in Indexes /\ compact.lines \in Seq(Entries)
           /\ NoCompaction \in Compactions
           /\ \A phase \in {"idle", "reading", "closing", "writing", "written", "rebuilding"} :
                 /\ [compact EXCEPT !.phase = phase] \in Compactions
                 /\ [compact EXCEPT !.phase = phase].phase = phase
                 /\ [compact EXCEPT !.phase = phase].index = compact.index
                 /\ [compact EXCEPT !.phase = phase].lines = compact.lines
           /\ \A lines \in Seq(Entries) :
                 LET next == [compact EXCEPT !.phase = "closing", !.lines = lines]
                 IN  /\ next \in Compactions /\ next.index = compact.index
                     /\ next.phase = "closing" /\ next.lines = lines
  <1>1. compact \in Compactions
    BY DEF TypeOK, Compactions
  <1>2. NoCompaction \in Compactions
    BY DEF NoCompaction, EmptyIndex, Indexes, Compactions
  <1>3. QED
    BY <1>1, <1>2 DEF Compactions

LEMMA CompactBeginTyped ==
    ASSUME TypeOK, CompactBegin
    PROVE  TypeOK'
  <1>0. TypeOK
    OBVIOUS
  <1>1. /\ file' = file /\ op' = op /\ indexFile' = indexFile /\ row' = row /\ durable' = durable
        /\ checkpoint' = checkpoint /\ summarised' = summarised /\ acked' = acked
        /\ crashes' = crashes /\ closes' = closes
    BY DEF CompactBegin, disk, history
  <1>2. session' \in Transcripts
    <2>1. CASE session = NoSession
      BY <1>0, <2>1, OpensTyped DEF CompactBegin
    <2>2. CASE session # NoSession
      BY <1>0, <2>2 DEF CompactBegin, TypeOK, Transcripts
    <2>3. QED
      BY <2>1, <2>2
  <1>3. compact' \in Compactions
    <2>1. session'.index \in Indexes
      BY <1>2 DEF Transcripts
    <2>2. compact' = [NoCompaction EXCEPT !.phase = "reading", !.index = session'.index]
      BY DEF CompactBegin
    <2>3. \A index \in Indexes :
              [NoCompaction EXCEPT !.phase = "reading", !.index = index] \in Compactions
      BY CompactionIs DEF Compactions
    <2>4. QED
      BY <2>1, <2>2, <2>3
  <1>4. compactions' \in 0..MaxCompactions
    <2>1. compactions < MaxCompactions /\ compactions' = compactions + 1
      BY DEF CompactBegin
    <2>2. compactions \in 0..MaxCompactions /\ MaxCompactions \in Nat
      BY <1>0, RecordsAssumption DEF TypeOK
    <2>3. QED
      BY <2>1, <2>2
  <1>5. QED
    BY <1>0, <1>1, <1>2, <1>3, <1>4 DEF TypeOK, Transcripts, Compactions

(* What a compaction will write are entries: the numbers that it keeps are *)
(* at least 1, so the checkpoint entry before them has one too.            *)
LEMMA CompactReadTyped ==
    ASSUME TypeOK, CompactRead
    PROVE  TypeOK'
  <1> DEFINE from == ReplayFrom(compact.index)
             kept == Replay(from, ReplayStart(compact.index, from), durable)
             order == Sorted(kept)
             limit == Limit(order, compact.index)
             body == [i \in DOMAIN order |-> file[order[i]]]
             head == IF checkpoint = 0 THEN <<>> ELSE <<CheckpointEntry(limit, limit)>>
             n == Cardinality(kept)
  <1>0. TypeOK /\ compact.index \in Indexes
    BY CompactionIs
  <1>1. /\ file' = file /\ op' = op /\ indexFile' = indexFile /\ row' = row /\ durable' = durable
        /\ checkpoint' = checkpoint /\ summarised' = summarised /\ acked' = acked
        /\ session' = session
        /\ crashes' = crashes /\ closes' = closes /\ compactions' = compactions
    BY DEF CompactRead, disk, history, bounds
  <1>2. /\ durable \in 0..Len(file) /\ Len(file) \in Nat
        /\ \A i \in 1..Len(file) : file[i] \in Entries /\ file[i].seq \in Nat
    BY <1>0, EntriesAre DEF TypeOK
  <1>3. kept \subseteq 1..Len(file) /\ \A i \in kept : file[i].seq >= from
    BY <1>2 DEF Replay
  <1>4. IsFiniteSet(kept) /\ n \in Nat
    <2>1. IsFiniteSet(1..Len(file))
      BY <1>2, FS_Interval
    <2> HIDE DEF kept
    <2>2. IsFiniteSet(kept)
      BY <1>3, <2>1, FS_Subset
    <2>3. QED
      BY <2>2, FS_CardinalityType
  <1>5. order \in [1..n -> kept]
    <2>1. kept \subseteq Int /\ \A i \in kept : file[i].seq \in Int
      BY <1>2, <1>3
    <2>2. InOrder(order, kept)
      BY <1>4, <2>1, SortedIsInOrder
    <2>3. QED
      BY <2>2 DEF InOrder
  <1>6. \/ compact' = NoCompaction
        \/ compact' = [compact EXCEPT !.phase = "closing", !.lines = head \o body]
    BY DEF CompactRead
  <1> HIDE DEF kept, order, from
  <1>7. from \in Nat /\ from >= 1
    BY <1>0, ReplayIsTyped DEF from
  <1>8. limit \in Nat
    <2>1. compact.index.lastSeq \in Nat
      BY <1>0, IndexesAre
    <2>2. CASE order = <<>>
      BY <2>1, <2>2 DEF Limit
    <2>3. CASE order # <<>>
      <3>1. n # 0
        <4>1. CASE n = 0
          <5>1. DOMAIN order = {}
            BY <1>5, <4>1
          <5>2. order = <<>>
            <6>1. order \in Seq(kept) /\ Len(order) = 0
              BY <1>5, <4>1, SeqDef
            <6>2. QED
              BY <6>1, EmptySeq
          <5>3. QED
            BY <2>3, <5>2
        <4>2. QED
          BY <4>1
      <3>2. order[1] \in kept
        BY <1>4, <1>5, <3>1
      <3>3. file[order[1]].seq \in Nat /\ file[order[1]].seq >= from
        BY <1>2, <1>3, <3>2
      <3>4. limit = file[order[1]].seq - 1
        BY <2>3 DEF Limit
      <3>5. QED
        BY <1>7, <3>3, <3>4
    <2>4. QED
      BY <2>2, <2>3
  <1> HIDE DEF limit
  <1>9. head \in Seq(Entries)
    <2>1. CheckpointEntry(limit, limit) \in Entries
      BY <1>8, RecordsAssumption DEF CheckpointEntry, Entries
    <2>2. <<CheckpointEntry(limit, limit)>> \in Seq(Entries) /\ <<>> \in Seq(Entries)
      BY <2>1, EmptySeq
    <2>3. QED
      BY <2>2
  <1>10. body \in Seq(Entries)
    <2>1. DOMAIN order = 1..n /\ \A i \in 1..n : order[i] \in kept
      BY <1>5
    <2>2. body \in [1..n -> Entries]
      BY <1>2, <1>3, <2>1
    <2> HIDE DEF body
    <2>3. QED
      BY <1>4, <2>2, SeqDef
  <1> HIDE DEF head, body
  <1>11. head \o body \in Seq(Entries)
    BY <1>9, <1>10, ConcatProperties
  <1>12. compact' \in Compactions
    <2> DEFINE lines == head \o body
    <2>1. lines \in Seq(Entries)
      BY <1>11
    <2>2. compact' = NoCompaction \/ compact' = [compact EXCEPT !.phase = "closing", !.lines = lines]
      BY <1>6
    <2> HIDE DEF lines
    <2>3. [compact EXCEPT !.phase = "closing", !.lines = lines] \in Compactions
      BY <2>1, CompactionIs
    <2>4. NoCompaction \in Compactions
      BY CompactionIs
    <2>5. QED
      BY <2>2, <2>3, <2>4
  <1>13. QED
    BY <1>0, <1>1, <1>12 DEF TypeOK, Compactions

LEMMA CompactRestTyped ==
    ASSUME TypeOK, CompactClosed \/ CompactWrite \/ CompactUnlink \/ CompactDone
    PROVE  TypeOK'
  <1>0. TypeOK /\ Len(file) \in Nat /\ durable \in 0..Len(file)
    BY EntriesAre DEF TypeOK
  <1>1. /\ row' = row /\ checkpoint' = checkpoint /\ summarised' = summarised /\ acked' = acked
        /\ op' = op /\ crashes' = crashes /\ closes' = closes /\ compactions' = compactions
    BY DEF CompactClosed, CompactWrite, CompactUnlink, CompactDone, disk, history, bounds
  <1>2. session \in Transcripts \union {NoSession}
    BY DEF TypeOK, Transcripts
  <1>3. compact' \in Compactions
    <2>1. \/ compact' = NoCompaction
          \/ \E phase \in {"idle", "reading", "closing", "writing", "written", "rebuilding"} :
                 compact' = [compact EXCEPT !.phase = phase]
      BY DEF CompactTo, CompactClosed, CompactWrite, CompactUnlink, CompactDone
    <2>2. QED
      BY <2>1, CompactionIs
  <1>4. /\ file' \in Seq(Entries) /\ durable' \in 0..Len(file')
    <2>1. CASE CompactWrite
      <3>1. file' = compact.lines /\ durable' = Len(compact.lines)
        BY <2>1 DEF CompactWrite
      <3>2. compact.lines \in Seq(Entries)
        BY CompactionIs
      <3>3. QED
        BY <3>1, <3>2, EntriesAre
    <2>2. CASE ~CompactWrite
      <3>1. file' = file /\ durable' \in {durable, Len(file)}
        BY <2>2 DEF CompactClosed, CompactUnlink, CompactDone
      <3>2. QED
        BY <1>0, <3>1 DEF TypeOK
    <2>3. QED
      BY <2>1, <2>2
  <1>5. /\ indexFile' \in Indexes \union {NoIndex}
        /\ session' \in Transcripts \union {NoSession}
    <2>1. CASE CompactDone
      <3> DEFINE index == IF indexFile = NoIndex THEN Rebuilt(durable) ELSE indexFile
      <3>1. session' = [status |-> "open", index |-> index] /\ indexFile' = index
        BY <2>1 DEF CompactDone
      <3>2. index \in Indexes
        <4>1. durable \in 0..durable
          BY <1>0
        <4>2. Rebuilt(durable) \in Indexes
          BY <1>0, <4>1, OpensTyped
        <4>3. QED
          BY <1>0, <4>2 DEF TypeOK
      <3> HIDE DEF index
      <3>3. QED
        BY <3>1, <3>2 DEF Transcripts
    <2>2. CASE CompactClosed
      BY <1>2, <2>2, CompactionIs DEF CompactClosed
    <2>3. CASE CompactWrite \/ CompactUnlink
      <3>1. session' = session /\ indexFile' \in {indexFile, NoIndex}
        BY <2>3 DEF CompactWrite, CompactUnlink
      <3>2. QED
        BY <1>0, <1>2, <3>1 DEF TypeOK
    <2>4. QED
      BY <2>1, <2>2, <2>3
  <1>6. QED
    BY <1>0, <1>1, <1>3, <1>4, <1>5 DEF TypeOK, Compactions, Transcripts

LEMMA CrashTyped ==
    ASSUME TypeOK, Crash
    PROVE  TypeOK'
  <1>0. TypeOK /\ Len(file) \in Nat /\ durable \in 0..Len(file)
    BY EntriesAre DEF TypeOK
  <1>1. PICK n \in durable..Len(file) : file' = SubSeq(file, 1, n) /\ durable' = n
    BY DEF Crash
  <1>2. file' \in Seq(Entries) /\ Len(file') = n
    <2>1. n \in Nat /\ n <= Len(file)
      BY <1>0
    <2>2. \A i \in 1..n : file[i] \in Entries
      BY <1>0, <2>1, EntriesAre DEF TypeOK
    <2>3. QED
      BY <1>1, <2>1, <2>2, SubSeqProperties
  <1>3. durable' \in 0..Len(file')
    BY <1>0, <1>1, <1>2
  <1>4. crashes' \in 0..MaxCrashes
    <2>1. crashes < MaxCrashes /\ crashes' = crashes + 1
      BY DEF Crash
    <2>2. crashes \in 0..MaxCrashes /\ MaxCrashes \in Nat
      BY <1>0, RecordsAssumption DEF TypeOK
    <2>3. QED
      BY <2>1, <2>2
  <1>5. op' \in [Messages -> CallsOf]
    <2>1. \A m \in Messages : op[m] \in CallsOf
      BY <1>0, OpensTyped
    <2>2. op' = [m \in Messages |-> IF op[m].pc = "none" THEN op[m] ELSE Call("done")]
      BY DEF Crash
    <2>3. QED
      BY <2>1, <2>2, CallIsCall
  <1>6. compact' \in Compactions
    BY CompactionIs DEF Crash
  <1>7. /\ indexFile' \in Indexes \union {NoIndex} /\ row' \in Nat /\ checkpoint' \in Nat
        /\ session' = NoSession /\ summarised' = summarised /\ acked' = acked
        /\ closes' = closes /\ compactions' = compactions
    BY <1>0 DEF Crash, TypeOK, history
  <1>8. QED
    BY <1>0, <1>2, <1>3, <1>4, <1>5, <1>6, <1>7 DEF TypeOK, CallsOf, Compactions

LEMMA TypeStep == TypeOK /\ [Next]_vars => TypeOK'
  <1> SUFFICES ASSUME TypeOK, [Next]_vars PROVE TypeOK'
    OBVIOUS
  <1>1. CASE UNCHANGED vars
    BY <1>1 DEF vars, disk, history, bounds, TypeOK
  <1>2. ASSUME NEW m \in Messages,
               \/ StartUser(m) \/ StartOther(m) \/ Opened(m)
               \/ ReadSince(m) \/ Enter(m) \/ OpenedInside(m)
        PROVE  TypeOK'
    BY <1>2, StartUserTyped, ReadSinceTyped, OpenedTyped
  <1>3. CASE WriteOut \/ Close \/ Flushed \/ Ended
    BY <1>3, ClosingTyped
  <1>4. CASE \/ CompactBegin \/ CompactRead \/ CompactClosed \/ CompactWrite
             \/ CompactUnlink \/ CompactDone \/ Crash
    BY <1>4, CompactBeginTyped, CompactReadTyped, CompactRestTyped, CrashTyped
  <1>5. QED
    BY <1>1, <1>2, <1>3, <1>4 DEF Next

(* Every reachable state is well typed: the index, rebuilt or trusted, and *)
(* what a compaction will write, checkpoint entry included, are what the   *)
(* code that reads them expects (rebuildIndex, compactSession).            *)
THEOREM RecordsTypeCorrect == Spec => []TypeOK
  <1>1. QED
    BY TypeInit, TypeStep, PTL DEF Spec

-----------------------------------------------------------------------------
(* What the lines say, and what an index says of them                      *)

(* The number of the last line.                                            *)
Top(lines) == IF lines = <<>> THEN 0 ELSE lines[Len(lines)].seq

(* The messages of lines numbered n or less are in S.                      *)
Covers(n, lines, S) ==
    \A i \in DOMAIN lines : lines[i].msg # 0 /\ lines[i].seq <= n => lines[i].msg \in S

(* A checkpoint entry comes after what its summary was made of.            *)
Summaries(lines, S) ==
    \A c \in DOMAIN lines : lines[c].msg = 0 =>
        lines[c].upTo <= lines[c].seq /\ Covers(lines[c].upTo, lines, S)
Numbered(lines) == \A i \in DOMAIN lines : lines[i].msg # 0 => lines[i].seq > 0

(* The marks of the index are at their entries.                            *)
Marked(index, lines) ==
    \A k \in DOMAIN index.checkpoints :
       LET mark == index.checkpoints[k]
       IN  /\ mark.offset + 1 \in DOMAIN lines
           /\ lines[mark.offset + 1].msg = 0
           /\ lines[mark.offset + 1].seq = mark.seq
           /\ lines[mark.offset + 1].upTo = mark.upTo

(* The index ends where the lines end,                                     *)
Points(index, lines) ==
    /\ index.lastOffset = Len(lines)
    /\ index.lastSeq = Top(lines)
    /\ Marked(index, lines)

(* or it did when there were fewer of them, and what follows has higher    *)
(* numbers.                                                                *)
At(index, lines) ==
    /\ index.lastOffset <= Len(lines)
    /\ Marked(index, lines)
    /\ \A k \in DOMAIN index.checkpoints : index.checkpoints[k].offset < index.lastOffset
    /\ index.lastSeq = IF index.lastOffset = 0 THEN 0 ELSE lines[index.lastOffset].seq
    /\ \A i \in DOMAIN lines : i > index.lastOffset => lines[i].seq > index.lastSeq

(* A replay with these bounds misses only what is summed up.               *)
ReadsFrom(from, start, lines, S) ==
    /\ Covers(from - 1, lines, S)
    /\ from <= Top(lines) + 1
    /\ start <= Len(lines)
    /\ \A i \in DOMAIN lines : lines[i].seq >= from => i > start

LEMMA TopIsLast ==
    ASSUME NEW lines \in Seq(Entries), Increasing(lines)
    PROVE  /\ Top(lines) \in Nat
           /\ \A i \in DOMAIN lines : lines[i].seq <= Top(lines)
           /\ lines = <<>> \/ (Len(lines) \in DOMAIN lines /\ Top(lines) = lines[Len(lines)].seq)
  <1>1. /\ DOMAIN lines = 1..Len(lines) /\ Len(lines) \in Nat
        /\ \A i \in 1..Len(lines) : lines[i].seq \in Nat
    BY EntriesAre
  <1>2. CASE lines = <<>>
    BY <1>2 DEF Top
  <1>3. CASE lines # <<>>
    <2>1. Len(lines) \in 1..Len(lines)
      BY <1>1, <1>3, EmptySeq
    <2>2. Top(lines) = lines[Len(lines)].seq
      BY <1>3 DEF Top
    <2>3. \A i \in 1..Len(lines) : lines[i].seq <= lines[Len(lines)].seq
      <3> SUFFICES ASSUME NEW i \in 1..Len(lines)
                   PROVE  lines[i].seq <= lines[Len(lines)].seq
        OBVIOUS
      <3>0. Len(lines) \in Nat
        BY <1>1
      <3>1. i = Len(lines) \/ i < Len(lines)
        BY <3>0
      <3>2. lines[i].seq \in Nat /\ lines[Len(lines)].seq \in Nat
        BY <1>1, <2>1
      <3>3. i < Len(lines) => lines[i].seq < lines[Len(lines)].seq
        BY <1>1, <2>1 DEF Increasing
      <3>4. QED
        BY <3>1, <3>2, <3>3
    <2>4. QED
      BY <1>1, <2>1, <2>2, <2>3
  <1>4. QED
    BY <1>2, <1>3

(* Lines with others behind them, whose numbers are higher.                *)
Extends(longer, lines) ==
    /\ Len(lines) <= Len(longer)
    /\ \A i \in 1..Len(lines) : longer[i] = lines[i]
    /\ \A i \in 1..Len(longer) : i > Len(lines) => longer[i].seq > Top(lines)
    /\ Top(lines) <= Top(longer)

LEMMA ExtendsKeeps ==
    ASSUME NEW lines \in Seq(Entries), NEW longer \in Seq(Entries),
           Top(lines) \in Nat, Top(longer) \in Nat, Extends(longer, lines),
           NEW S, NEW T, S \subseteq T
    PROVE  /\ \A n \in Nat : n <= Top(lines) /\ Covers(n, lines, S) => Covers(n, longer, T)
           /\ \A from \in Nat, start \in Nat :
                 from >= 1 /\ ReadsFrom(from, start, lines, S) => ReadsFrom(from, start, longer, T)
  <1>1. /\ DOMAIN lines = 1..Len(lines) /\ Len(lines) \in Nat
        /\ DOMAIN longer = 1..Len(longer) /\ Len(longer) \in Nat
        /\ \A i \in 1..Len(longer) : longer[i].seq \in Nat
    BY EntriesAre
  <1>2. ASSUME NEW n \in Nat, n <= Top(lines), Covers(n, lines, S)
        PROVE  Covers(n, longer, T)
    <2> SUFFICES ASSUME NEW i \in 1..Len(longer), longer[i].msg # 0, longer[i].seq <= n
                 PROVE  longer[i].msg \in T
      BY <1>1 DEF Covers
    <2>1. ~(longer[i].seq > Top(lines))
      BY <1>1, <1>2
    <2>2. i \in 1..Len(lines) /\ longer[i] = lines[i]
      BY <1>1, <2>1 DEF Extends
    <2>3. lines[i].msg \in S
      BY <1>1, <1>2, <2>2 DEF Covers
    <2>4. QED
      BY <2>2, <2>3
  <1>3. ASSUME NEW from \in Nat, NEW start \in Nat, from >= 1, ReadsFrom(from, start, lines, S)
        PROVE  ReadsFrom(from, start, longer, T)
    <2>1. from - 1 \in Nat /\ from - 1 <= Top(lines) /\ Covers(from - 1, lines, S)
      BY <1>3 DEF ReadsFrom
    <2>2. Covers(from - 1, longer, T)
      BY <1>2, <2>1
    <2>3. start <= Len(lines) /\ from <= Top(lines) + 1
      BY <1>3 DEF ReadsFrom
    <2>4. start <= Len(longer) /\ from <= Top(longer) + 1
      BY <1>1, <2>3 DEF Extends
    <2>5. ASSUME NEW i \in 1..Len(longer), longer[i].seq >= from
          PROVE  i > start
      <3>1. CASE i > Len(lines)
        BY <1>1, <2>3, <3>1
      <3>2. CASE ~(i > Len(lines))
        <4>1. i \in 1..Len(lines) /\ longer[i] = lines[i]
          BY <1>1, <3>2 DEF Extends
        <4>2. QED
          BY <1>1, <1>3, <2>5, <4>1 DEF ReadsFrom
      <3>3. QED
        BY <3>1, <3>2
    <2>6. QED
      BY <1>1, <2>2, <2>4, <2>5 DEF ReadsFrom
  <1>4. QED
    BY <1>2, <1>3

(* One line more, with a number above the others.                          *)
LEMMA AddLine ==
    ASSUME NEW lines \in Seq(Entries), Increasing(lines), NEW e \in Entries,
           e.seq = Top(lines) + 1, NEW S, Numbered(lines), Summaries(lines, S),
           e.msg = 0 => e.upTo <= e.seq /\ Covers(e.upTo, lines, S)
    PROVE  LET longer == Append(lines, e)
           IN  /\ longer \in Seq(Entries) /\ Increasing(longer)
               /\ Top(longer) = e.seq
               /\ Len(longer) = Len(lines) + 1 /\ longer[Len(lines) + 1] = e
               /\ Extends(longer, lines)
               /\ Numbered(longer) /\ Summaries(longer, S)
  <1> DEFINE longer == Append(lines, e)
  <1>1. /\ longer \in Seq(Entries) /\ Len(longer) = Len(lines) + 1
        /\ \A i \in 1..Len(lines) : longer[i] = lines[i]
        /\ longer[Len(lines) + 1] = e
    OBVIOUS
  <1> HIDE DEF longer
  <1>2. /\ DOMAIN lines = 1..Len(lines) /\ Len(lines) \in Nat
        /\ DOMAIN longer = 1..(Len(lines) + 1)
        /\ \A i \in 1..Len(lines) : lines[i].seq \in Nat /\ lines[i].upTo \in Nat
        /\ e.seq \in Nat /\ e.upTo \in Nat
    BY <1>1, EntriesAre DEF Entries
  <1>3. Top(lines) \in Nat /\ \A i \in 1..Len(lines) : lines[i].seq <= Top(lines)
    BY <1>2, TopIsLast
  <1>4. longer # <<>>
    <2>1. Len(<<>>) = 0
      OBVIOUS
    <2>2. QED
      BY <1>1, <1>2, <2>1
  <1>5. Top(longer) = e.seq
    BY <1>1, <1>4 DEF Top
  <1>6. \A i \in DOMAIN longer : i \in 1..Len(lines) \/ i = Len(lines) + 1
    BY <1>2
  <1>7. Increasing(longer)
    <2> SUFFICES ASSUME NEW i \in DOMAIN longer, NEW j \in DOMAIN longer, i < j
                 PROVE  longer[i].seq < longer[j].seq
      BY DEF Increasing
    <2>1. i \in 1..Len(lines) /\ longer[i] = lines[i]
      BY <1>1, <1>2
    <2>2. CASE j = Len(lines) + 1
      BY <1>1, <1>2, <1>3, <2>1, <2>2
    <2>3. CASE j \in 1..Len(lines)
      BY <1>1, <1>2, <2>1, <2>3 DEF Increasing
    <2>4. QED
      BY <1>6, <2>2, <2>3
  <1>8. Extends(longer, lines)
    <2>1. \A i \in 1..Len(longer) : i > Len(lines) => i = Len(lines) + 1
      BY <1>1, <1>2
    <2>2. \A i \in 1..Len(longer) : i > Len(lines) => longer[i].seq > Top(lines)
      BY <1>1, <1>2, <1>3, <2>1
    <2>3. Top(lines) <= Top(longer) /\ Len(lines) <= Len(longer)
      BY <1>1, <1>2, <1>3, <1>5
    <2>4. QED
      BY <1>1, <2>2, <2>3 DEF Extends
  <1>9. Numbered(longer)
    BY <1>1, <1>2, <1>3, <1>6 DEF Numbered
  <1>10. Summaries(longer, S)
    <2>0. \A n \in Nat : n <= Top(lines) /\ Covers(n, lines, S) => Covers(n, longer, S)
      <3>1. Top(longer) \in Nat
        BY <1>2, <1>5
      <3>2. QED
        BY <1>1, <1>3, <1>8, <3>1, ExtendsKeeps
    <2> SUFFICES ASSUME NEW c \in DOMAIN longer, longer[c].msg = 0
                 PROVE  longer[c].upTo <= longer[c].seq /\ Covers(longer[c].upTo, longer, S)
      BY DEF Summaries
    <2>1. CASE c \in 1..Len(lines)
      <3>1. longer[c] = lines[c]
        BY <1>1, <2>1
      <3>2. lines[c].upTo <= lines[c].seq /\ Covers(lines[c].upTo, lines, S)
        BY <1>2, <2>1, <3>1 DEF Summaries
      <3>3. lines[c].upTo \in Nat /\ lines[c].upTo <= Top(lines)
        BY <1>2, <1>3, <2>1, <3>2
      <3>4. QED
        BY <2>0, <3>1, <3>2, <3>3
    <2>2. CASE c = Len(lines) + 1
      <3>1. longer[c] = e
        BY <1>1, <2>2
      <3>2. Covers(e.upTo, longer, S)
        <4> SUFFICES ASSUME NEW i \in DOMAIN longer, longer[i].msg # 0, longer[i].seq <= e.upTo
                     PROVE  longer[i].msg \in S
          BY DEF Covers
        <4>1. i \in 1..Len(lines) /\ longer[i] = lines[i]
          BY <1>1, <1>6, <3>1
        <4>2. QED
          BY <1>2, <3>1, <4>1 DEF Covers
      <3>3. QED
        BY <3>1, <3>2
    <2>3. QED
      BY <1>6, <2>1, <2>2
  <1>11. QED
    BY <1>1, <1>5, <1>7, <1>8, <1>9, <1>10 DEF longer

(* The index that goes with it.                                            *)
LEMMA AddMark ==
    ASSUME NEW lines \in Seq(Entries), NEW e \in Entries, NEW index \in Indexes,
           Points(index, lines), Top(Append(lines, e)) = e.seq
    PROVE  Points(Indexed(index, e), Append(lines, e))
  <1> DEFINE longer == Append(lines, e)
             marks == index.checkpoints
             mark == [offset |-> index.lastOffset, seq |-> e.seq, upTo |-> e.upTo]
             new == IF e.msg # 0 THEN marks ELSE Append(marks, mark)
  <1>1. /\ longer \in Seq(Entries) /\ Len(longer) = Len(lines) + 1
        /\ \A i \in 1..Len(lines) : longer[i] = lines[i]
        /\ longer[Len(lines) + 1] = e
    OBVIOUS
  <1> HIDE DEF longer
  <1>2. /\ DOMAIN lines = 1..Len(lines) /\ Len(lines) \in Nat
        /\ DOMAIN longer = 1..(Len(lines) + 1)
    BY <1>1, EntriesAre
  <1>3. /\ marks \in Seq(Marks) /\ Len(marks) \in Nat /\ DOMAIN marks = 1..Len(marks)
        /\ index.lastOffset = Len(lines)
        /\ e.seq \in Nat /\ e.upTo \in Nat
    BY IndexesAre DEF Points, Entries
  <1>4. mark \in Marks
    BY <1>2, <1>3 DEF Marks
  <1>5. Indexed(index, e) = [lastOffset |-> index.lastOffset + 1, lastSeq |-> e.seq,
                             checkpoints |-> new]
    BY DEF Indexed
  <1>6. mark.offset = Len(lines) /\ mark.seq = e.seq /\ mark.upTo = e.upTo
    BY <1>3
  <1> HIDE DEF mark, marks
  <1>7. \A k \in DOMAIN new : \/ new[k] = mark /\ e.msg = 0
                              \/ k \in DOMAIN marks /\ new[k] = marks[k]
    <2>1. CASE e.msg # 0
      BY <2>1
    <2>2. CASE e.msg = 0
      <3>1. /\ Append(marks, mark) \in Seq(Marks) /\ Len(Append(marks, mark)) = Len(marks) + 1
            /\ \A k \in 1..Len(marks) : Append(marks, mark)[k] = marks[k]
            /\ Append(marks, mark)[Len(marks) + 1] = mark
        BY <1>3, <1>4
      <3>2. DOMAIN Append(marks, mark) = 1..(Len(marks) + 1)
        BY <3>1, LenProperties
      <3>3. new = Append(marks, mark)
        BY <2>2
      <3> HIDE DEF new
      <3>4. \A k \in DOMAIN new : k \in 1..Len(marks) \/ k = Len(marks) + 1
        BY <1>3, <3>2, <3>3
      <3>5. ASSUME NEW k \in DOMAIN new
            PROVE  \/ new[k] = mark /\ e.msg = 0
                   \/ k \in DOMAIN marks /\ new[k] = marks[k]
        <4>1. CASE k \in 1..Len(marks)
          <5>1. Append(marks, mark)[k] = marks[k]
            BY <3>1, <4>1
          <5>2. QED
            BY <1>3, <3>3, <4>1, <5>1
        <4>2. CASE k = Len(marks) + 1
          BY <2>2, <3>1, <3>3, <4>2
        <4>3. QED
          BY <3>4, <4>1, <4>2
      <3>6. QED
        BY <3>5
    <2>3. QED
      BY <2>1, <2>2
  <1> HIDE DEF new
  <1>8. ASSUME NEW k \in DOMAIN new
        PROVE  /\ new[k].offset + 1 \in DOMAIN longer
               /\ longer[new[k].offset + 1].msg = 0
               /\ longer[new[k].offset + 1].seq = new[k].seq
               /\ longer[new[k].offset + 1].upTo = new[k].upTo
    <2>1. CASE new[k] = mark /\ e.msg = 0
      BY <1>1, <1>2, <1>6, <2>1
    <2>2. CASE k \in DOMAIN marks /\ new[k] = marks[k]
      <3>1. /\ marks[k].offset + 1 \in 1..Len(lines)
            /\ lines[marks[k].offset + 1].msg = 0
            /\ lines[marks[k].offset + 1].seq = marks[k].seq
            /\ lines[marks[k].offset + 1].upTo = marks[k].upTo
        BY <1>2, <2>2 DEF Points, Marked, marks
      <3>2. longer[marks[k].offset + 1] = lines[marks[k].offset + 1]
        BY <1>1, <3>1
      <3>3. marks[k].offset + 1 \in DOMAIN longer
        BY <1>2, <3>1
      <3>4. QED
        BY <2>2, <3>1, <3>2, <3>3
    <2>3. QED
      BY <1>7, <2>1, <2>2
  <1>9. /\ Indexed(index, e).lastOffset = Len(longer)
        /\ Indexed(index, e).lastSeq = Top(longer)
        /\ Indexed(index, e).checkpoints = new
    BY <1>1, <1>3, <1>5 DEF longer
  <1>10. QED
    BY <1>8, <1>9 DEF Points, Marked, longer

(* Where a replay through an index with its marks at the lines begins.     *)
LEMMA ReplayIsSound ==
    ASSUME NEW lines \in Seq(Entries), Increasing(lines), NEW index \in Indexes, NEW S,
           Marked(index, lines), Numbered(lines), Summaries(lines, S)
    PROVE  ReadsFrom(ReplayFrom(index), ReplayStart(index, ReplayFrom(index)), lines, S)
  <1> DEFINE marks == index.checkpoints
             from == ReplayFrom(index)
             start == ReplayStart(index, ReplayFrom(index))
             before == {k \in DOMAIN marks : marks[k].seq < from}
  <1>1. /\ marks \in Seq(Marks) /\ Len(marks) \in Nat /\ DOMAIN marks = 1..Len(marks)
        /\ \A k \in 1..Len(marks) : /\ marks[k].offset \in Nat /\ marks[k].seq \in Nat
                                    /\ marks[k].upTo \in Nat
    BY IndexesAre
  <1>2. /\ DOMAIN lines = 1..Len(lines) /\ Len(lines) \in Nat
        /\ \A i \in 1..Len(lines) : lines[i].seq \in Nat /\ lines[i].upTo \in Nat
    BY EntriesAre
  <1>3. Top(lines) \in Nat /\ \A i \in 1..Len(lines) : lines[i].seq <= Top(lines)
    BY <1>2, TopIsLast
  <1>4. \A k \in 1..Len(marks) :
           /\ marks[k].offset + 1 \in 1..Len(lines)
           /\ lines[marks[k].offset + 1].msg = 0
           /\ lines[marks[k].offset + 1].seq = marks[k].seq
           /\ lines[marks[k].offset + 1].upTo = marks[k].upTo
    BY <1>1, <1>2 DEF Marked
  <1>5. from \in Nat /\ from >= 1 /\ start \in Nat
    BY ReplayIsTyped
  <1>6. Covers(from - 1, lines, S) /\ from <= Top(lines) + 1
    <2>1. CASE marks = <<>>
      <3>1. from = 1
        BY <2>1 DEF ReplayFrom
      <3>2. Covers(0, lines, S)
        BY <1>2 DEF Covers, Numbered
      <3>3. QED
        BY <1>3, <3>1, <3>2
    <2>2. CASE marks # <<>>
      <3> DEFINE last == marks[Len(marks)]
                 c == last.offset + 1
      <3>1. Len(marks) \in 1..Len(marks)
        BY <1>1, <2>2, EmptySeq
      <3>2. /\ c \in 1..Len(lines) /\ lines[c].msg = 0
            /\ lines[c].seq = last.seq /\ lines[c].upTo = last.upTo
            /\ last.seq \in Nat /\ last.upTo \in Nat
        BY <1>1, <1>4, <3>1
      <3>3. from = (IF last.upTo > last.seq THEN last.seq ELSE last.upTo) + 1
        BY <2>2 DEF ReplayFrom
      <3> HIDE DEF from, last, c
      <3>4. last.upTo <= last.seq /\ Covers(last.upTo, lines, S)
        BY <1>2, <3>2 DEF Summaries
      <3>5. from = last.upTo + 1
        BY <3>2, <3>3, <3>4
      <3>6. last.seq <= Top(lines)
        BY <1>3, <3>2
      <3>7. from - 1 = last.upTo
        BY <3>2, <3>5
      <3>8. QED
        BY <1>3, <3>2, <3>4, <3>5, <3>6, <3>7
    <2>3. QED
      BY <2>1, <2>2
  <1>7. start <= Len(lines) /\ \A i \in 1..Len(lines) : lines[i].seq >= from => i > start
    <2>1. CASE from > 1 /\ before # {}
      <3>1. before \subseteq Nat /\ \A k \in before : k <= Len(marks)
        BY <1>1
      <3> DEFINE h == Highest(before)
      <3> HIDE DEF before
      <3>2. h \in before
        BY <1>1, <2>1, <3>1, HighestIsGreatest
      <3>3. h \in 1..Len(marks) /\ marks[h].seq < from
        BY <1>1, <3>2 DEF before
      <3>4. start = marks[h].offset
        BY <2>1 DEF ReplayStart, before
      <3> HIDE DEF h, from, start
      <3>5. /\ start + 1 \in 1..Len(lines) /\ lines[start + 1].seq = marks[h].seq
        BY <1>4, <3>3, <3>4
      <3>6. start <= Len(lines)
        BY <1>2, <1>5, <3>5
      <3>7. ASSUME NEW i \in 1..Len(lines), lines[i].seq >= from PROVE i > start
        <4>1. lines[start + 1].seq < lines[i].seq
          BY <1>1, <1>2, <1>5, <3>3, <3>5, <3>7
        <4>2. CASE i < start + 1
          <5>1. lines[i].seq < lines[start + 1].seq
            BY <1>2, <3>5, <4>2 DEF Increasing
          <5>2. QED
            BY <1>2, <3>5, <4>1, <5>1
        <4>3. QED
          BY <1>5, <4>2
      <3>8. QED
        BY <3>6, <3>7
    <2>2. CASE ~(from > 1 /\ before # {})
      <3>1. start = 0
        BY <2>2 DEF ReplayStart
      <3>2. QED
        BY <1>2, <3>1
    <2>3. QED
      BY <2>1, <2>2
  <1> HIDE DEF from, start
  <1>8. ReadsFrom(from, start, lines, S)
    BY <1>2, <1>6, <1>7 DEF ReadsFrom
  <1>9. QED
    BY <1>8 DEF from, start

(* An index that ends where the lines end is one that ended there once.    *)
LEMMA PointsAreAt ==
    ASSUME NEW lines \in Seq(Entries), NEW index \in Indexes, Points(index, lines)
    PROVE  At(index, lines)
  <1>1. /\ DOMAIN lines = 1..Len(lines) /\ Len(lines) \in Nat
        /\ DOMAIN index.checkpoints = 1..Len(index.checkpoints)
        /\ \A k \in 1..Len(index.checkpoints) : index.checkpoints[k].offset \in Nat
    BY EntriesAre, IndexesAre
  <1>2. index.lastOffset = Len(lines) /\ Marked(index, lines) /\ index.lastSeq = Top(lines)
    BY DEF Points
  <1>3. \A k \in DOMAIN index.checkpoints : index.checkpoints[k].offset < index.lastOffset
    BY <1>1, <1>2 DEF Marked
  <1>4. index.lastSeq = IF index.lastOffset = 0 THEN 0 ELSE lines[index.lastOffset].seq
    <2>1. lines = <<>> <=> Len(lines) = 0
      BY EmptySeq
    <2>2. QED
      BY <1>2, <2>1 DEF Top
  <1>5. \A i \in DOMAIN lines : ~(i > index.lastOffset)
    BY <1>1, <1>2
  <1>6. QED
    BY <1>1, <1>2, <1>3, <1>4, <1>5 DEF At

(* Such an index says as much of lines that begin with the same ones.      *)
LEMMA AtGoesOn ==
    ASSUME NEW lines \in Seq(Entries), NEW index \in Indexes, At(index, lines),
           NEW other \in Seq(Entries), index.lastOffset <= Len(other),
           \A i \in DOMAIN lines : i <= index.lastOffset => other[i] = lines[i],
           \A i \in DOMAIN other : i > index.lastOffset => other[i].seq > index.lastSeq
    PROVE  At(index, other)
  <1>1. /\ DOMAIN lines = 1..Len(lines) /\ Len(lines) \in Nat
        /\ DOMAIN other = 1..Len(other) /\ Len(other) \in Nat
        /\ DOMAIN index.checkpoints = 1..Len(index.checkpoints)
        /\ index.lastOffset \in Nat
        /\ \A k \in 1..Len(index.checkpoints) : index.checkpoints[k].offset \in Nat
    BY EntriesAre, IndexesAre
  <1>2. ASSUME NEW k \in DOMAIN index.checkpoints
        PROVE  LET mark == index.checkpoints[k]
               IN  /\ mark.offset < index.lastOffset
                   /\ mark.offset + 1 \in DOMAIN other
                   /\ other[mark.offset + 1] = lines[mark.offset + 1]
    <2>1. index.checkpoints[k].offset < index.lastOffset /\ index.checkpoints[k].offset \in Nat
      BY <1>1 DEF At
    <2>2. index.checkpoints[k].offset + 1 \in DOMAIN lines
      BY DEF At, Marked
    <2>3. QED
      BY <1>1, <2>1, <2>2
  <1>3. Marked(index, other)
    BY <1>2 DEF At, Marked
  <1>4. index.lastSeq = IF index.lastOffset = 0 THEN 0 ELSE other[index.lastOffset].seq
    <2>1. index.lastSeq = IF index.lastOffset = 0 THEN 0 ELSE lines[index.lastOffset].seq
      BY DEF At
    <2>2. index.lastOffset # 0 => index.lastOffset \in DOMAIN lines
      BY <1>1 DEF At
    <2>3. index.lastOffset # 0 => other[index.lastOffset] = lines[index.lastOffset]
      BY <1>1, <2>2
    <2>4. QED
      BY <2>1, <2>3
  <1>5. QED
    BY <1>2, <1>3, <1>4 DEF At

LEMMA AtIsBelow ==
    ASSUME NEW lines \in Seq(Entries), Increasing(lines), NEW index \in Indexes,
           At(index, lines)
    PROVE  /\ index.lastOffset \in Nat /\ index.lastSeq \in Nat
           /\ index.lastSeq <= Top(lines)
           /\ ReplayFrom(index) <= index.lastSeq + 1
  <1>1. /\ DOMAIN lines = 1..Len(lines) /\ Len(lines) \in Nat
        /\ index.lastOffset \in Nat /\ index.lastSeq \in Nat
        /\ \A i \in 1..Len(lines) : lines[i].seq \in Nat
        /\ Top(lines) \in Nat /\ \A i \in 1..Len(lines) : lines[i].seq <= Top(lines)
    BY EntriesAre, IndexesAre, TopIsLast
  <1>2. index.lastOffset <= Len(lines)
    BY DEF At
  <1>3. index.lastSeq = IF index.lastOffset = 0 THEN 0 ELSE lines[index.lastOffset].seq
    BY DEF At
  <1>4. index.lastSeq <= Top(lines)
    <2>1. CASE index.lastOffset = 0
      BY <1>1, <1>3, <2>1
    <2>2. CASE index.lastOffset # 0
      <3>1. index.lastOffset \in 1..Len(lines)
        BY <1>1, <1>2, <2>2
      <3>2. QED
        BY <1>1, <1>3, <2>2, <3>1
    <2>3. QED
      BY <2>1, <2>2
  <1>5. ReplayFrom(index) <= index.lastSeq + 1
    <2> DEFINE marks == index.checkpoints
               last == marks[Len(marks)]
    <2>1. CASE marks = <<>>
      <3>1. ReplayFrom(index) = 1
        BY <2>1 DEF ReplayFrom
      <3>2. QED
        BY <1>1, <3>1
    <2>2. CASE marks # <<>>
      <3>1. /\ marks \in Seq(Marks) /\ Len(marks) \in Nat /\ DOMAIN marks = 1..Len(marks)
            /\ \A k \in 1..Len(marks) : /\ marks[k].offset \in Nat /\ marks[k].seq \in Nat
                                        /\ marks[k].upTo \in Nat
        BY IndexesAre
      <3>2. Len(marks) \in DOMAIN marks
        BY <2>2, <3>1, EmptySeq
      <3>3. /\ last.offset < index.lastOffset /\ last.offset \in Nat
            /\ last.seq \in Nat /\ last.upTo \in Nat
            /\ last.offset + 1 \in DOMAIN lines
            /\ lines[last.offset + 1].seq = last.seq
        BY <3>1, <3>2 DEF At, Marked
      <3>4. ReplayFrom(index) = (IF last.upTo > last.seq THEN last.seq ELSE last.upTo) + 1
        BY <2>2 DEF ReplayFrom
      <3> HIDE DEF last, marks
      <3>5. index.lastOffset \in 1..Len(lines) /\ index.lastSeq = lines[index.lastOffset].seq
        BY <1>1, <1>2, <1>3, <3>3
      <3>6. last.seq <= index.lastSeq
        <4>1. CASE last.offset + 1 = index.lastOffset
          BY <1>1, <3>3, <3>5, <4>1
        <4>2. CASE last.offset + 1 # index.lastOffset
          <5>1. last.offset + 1 < index.lastOffset
            BY <1>1, <3>3, <4>2
          <5>2. lines[last.offset + 1].seq < lines[index.lastOffset].seq
            BY <1>1, <3>3, <3>5, <5>1 DEF Increasing
          <5>3. QED
            BY <1>1, <3>3, <3>5, <5>2
        <4>3. QED
          BY <4>1, <4>2
      <3>7. QED
        BY <1>1, <3>3, <3>4, <3>6
    <2>3. QED
      BY <2>1, <2>2
  <1>6. QED
    BY <1>1, <1>4, <1>5

LEMMA AtExtends ==
    ASSUME NEW lines \in Seq(Entries), Increasing(lines), NEW index \in Indexes,
           At(index, lines), NEW longer \in Seq(Entries), Extends(longer, lines)
    PROVE  At(index, longer)
  <1>1. /\ DOMAIN lines = 1..Len(lines) /\ Len(lines) \in Nat
        /\ DOMAIN longer = 1..Len(longer) /\ Len(longer) \in Nat
        /\ index.lastOffset \in Nat /\ index.lastSeq \in Nat
        /\ index.lastSeq <= Top(lines) /\ Top(lines) \in Nat
        /\ \A i \in 1..Len(longer) : longer[i].seq \in Nat
    BY EntriesAre, AtIsBelow, TopIsLast
  <1>2. index.lastOffset <= Len(lines)
    BY DEF At
  <1>3. index.lastOffset <= Len(longer)
    BY <1>1, <1>2 DEF Extends
  <1>4. \A i \in DOMAIN lines : longer[i] = lines[i]
    BY <1>1 DEF Extends
  <1>5. ASSUME NEW i \in DOMAIN longer, i > index.lastOffset
        PROVE  longer[i].seq > index.lastSeq
    <2>1. CASE i > Len(lines)
      <3>1. longer[i].seq > Top(lines)
        BY <1>1, <2>1 DEF Extends
      <3>2. QED
        BY <1>1, <3>1
    <2>2. CASE ~(i > Len(lines))
      <3>1. i \in DOMAIN lines
        BY <1>1, <2>2
      <3>2. lines[i].seq > index.lastSeq
        BY <1>5, <3>1 DEF At
      <3>3. QED
        BY <1>4, <3>1, <3>2
    <2>3. QED
      BY <2>1, <2>2
  <1>6. QED
    BY <1>3, <1>4, <1>5, AtGoesOn

(* Who writes the next line with an index that ended too early repeats a   *)
(* number.                                                                 *)
LEMMA AtTheEnd ==
    ASSUME NEW lines \in Seq(Entries), NEW index \in Indexes, At(index, lines),
           NEW longer \in Seq(Entries), Increasing(longer), Len(lines) < Len(longer),
           \A i \in 1..Len(lines) : longer[i] = lines[i],
           longer[Len(lines) + 1].seq = index.lastSeq + 1
    PROVE  Points(index, lines)
  <1>1. /\ DOMAIN lines = 1..Len(lines) /\ Len(lines) \in Nat
        /\ DOMAIN longer = 1..Len(longer) /\ Len(longer) \in Nat
        /\ index.lastOffset \in Nat /\ index.lastSeq \in Nat
        /\ \A i \in 1..Len(lines) : lines[i].seq \in Nat
    BY EntriesAre, IndexesAre
  <1>2. index.lastOffset = Len(lines)
    <2> SUFFICES ASSUME index.lastOffset < Len(lines) PROVE FALSE
      BY <1>1 DEF At
    <2>1. Len(lines) \in DOMAIN lines /\ Len(lines) \in DOMAIN longer
          /\ Len(lines) + 1 \in DOMAIN longer
      BY <1>1
    <2>2. lines[Len(lines)].seq > index.lastSeq
      BY <2>1 DEF At
    <2>3. longer[Len(lines)].seq < longer[Len(lines) + 1].seq
      BY <1>1, <2>1 DEF Increasing
    <2>4. longer[Len(lines)] = lines[Len(lines)] /\ lines[Len(lines)].seq \in Nat
      BY <1>1, <2>1
    <2>5. QED
      BY <1>1, <2>2, <2>3, <2>4
  <1>3. index.lastSeq = Top(lines)
    <2>1. lines = <<>> <=> Len(lines) = 0
      BY EmptySeq
    <2>2. QED
      BY <1>2, <2>1 DEF At, Top
  <1>4. QED
    BY <1>2, <1>3 DEF At, Points

-----------------------------------------------------------------------------
(* Who holds the conversation, with the windows shut.                      *)
Held ==
    /\ session # NoSession => session.status \in {"open", "flushing", "ending"}
    /\ session # NoSession /\ session.status # "open" =>
           compact.phase = "idle" /\ \A m \in Messages : op[m].pc \notin {"opening", "inside"}
    /\ compact.phase # "idle" =>
           session # NoSession /\ \A m \in Messages : op[m].pc # "inside"
    /\ compact.phase \in {"written", "rebuilding"} =>
           durable = Len(file) /\ \A m \in Messages : op[m].pc \notin {"opening", "reading"}
    /\ compact.phase = "rebuilding" => indexFile = NoIndex
    /\ \A m \in Messages : op[m].pc \in {"opening", "inside"} => op[m].seen \in 1..durable
    /\ session = NoSession => durable = Len(file)

(* The file, with the indexes in use and saved,                            *)
FileFits ==
    /\ Numbered(file) /\ Summaries(file, summarised)
    /\ session # NoSession /\ compact.phase \notin {"written", "rebuilding"} =>
           At(session.index, file)
    /\ indexFile # NoIndex /\ compact.phase # "written" => At(indexFile, file)

(* what those who record have read, or are about to apply,                 *)
CallFits(m) ==
    /\ op[m].pc = "reading" =>
          /\ op[m].from >= 1
          /\ ReadsFrom(op[m].from, op[m].start, file, summarised)
    /\ op[m].pc \in {"waiting", "inside"} =>
          /\ op[m].upTo <= Top(file)
          /\ Covers(op[m].upTo, file, op[m].picked \union summarised)

(* what a compaction reads by, and what it will write.                     *)
SameTalk(lines) ==
    /\ \A i \in DOMAIN lines : lines[i].msg # 0 => \E j \in DOMAIN file : file[j] = lines[i]
    /\ \A j \in DOMAIN file : file[j].msg \notin summarised \union {0} =>
           \E i \in DOMAIN lines : lines[i] = file[j]
CompactionFits ==
    /\ compact.phase \in {"reading", "closing"} => At(compact.index, file)
    /\ compact.phase \in {"closing", "writing"} =>
          /\ Numbered(compact.lines) /\ Summaries(compact.lines, summarised)
          /\ Top(file) <= Top(compact.lines)
          /\ SameTalk(compact.lines)
    /\ Increasing(compact.lines)

Fits == Held /\ FileFits /\ (\A m \in Messages : CallFits(m)) /\ CompactionFits

(* The state of a record whose numbers grow, the windows between two calls *)
(* shut.                                                                   *)
Known == /\ TypeOK /\ Increasing(file) /\ Fits
         /\ Windows \subseteq {"torn", "ahead"}

LEMMA KnownFacts ==
    ASSUME Known
    PROVE  /\ file \in Seq(Entries) /\ Increasing(file)
           /\ DOMAIN file = 1..Len(file) /\ Len(file) \in Nat /\ durable \in 0..Len(file)
           /\ Top(file) \in Nat /\ \A i \in 1..Len(file) : file[i].seq <= Top(file)
           /\ \A i \in 1..Len(file) : file[i].seq \in Nat /\ file[i].upTo \in Nat
           /\ \A m \in Messages : op[m] \in CallsOf
           /\ indexFile \in Indexes \union {NoIndex}
           /\ TypeOK /\ Held /\ FileFits /\ CompactionFits
           /\ \A m \in Messages : CallFits(m)
           /\ IndexAtOpen \in Indexes
  <1>1. TypeOK
    BY DEF Known
  <1>2. /\ file \in Seq(Entries) /\ Increasing(file)
        /\ DOMAIN file = 1..Len(file) /\ Len(file) \in Nat /\ durable \in 0..Len(file)
        /\ \A i \in 1..Len(file) : file[i].seq \in Nat /\ file[i].upTo \in Nat
    BY <1>1, EntriesAre DEF TypeOK, Known
  <1>3. Top(file) \in Nat /\ \A i \in 1..Len(file) : file[i].seq <= Top(file)
    BY <1>2, TopIsLast
  <1>4. IndexAtOpen \in Indexes /\ \A m \in Messages : op[m] \in CallsOf
    BY <1>1, OpensTyped
  <1>5. Held /\ FileFits /\ CompactionFits /\ (\A m \in Messages : CallFits(m))
    BY DEF Known, Fits
  <1>6. indexFile \in Indexes \union {NoIndex}
    BY <1>1 DEF TypeOK
  <1>7. QED
    BY <1>1, <1>2, <1>3, <1>4, <1>5, <1>6

LEMMA CoversMore ==
    ASSUME NEW lines, NEW n, NEW S, NEW T, S \subseteq T, Covers(n, lines, S)
    PROVE  Covers(n, lines, T)
  BY DEF Covers

LEMMA SummariesMore ==
    ASSUME NEW lines, NEW S, NEW T, S \subseteq T, Summaries(lines, S)
    PROVE  Summaries(lines, T)
  BY DEF Summaries, Covers

LEMMA ExtendsTwice ==
    ASSUME NEW a \in Seq(Entries), NEW b \in Seq(Entries), NEW c \in Seq(Entries),
           Top(a) \in Nat, Top(b) \in Nat, Top(c) \in Nat, Extends(b, a), Extends(c, b)
    PROVE  Extends(c, a)
  <1>1. /\ Len(a) \in Nat /\ Len(b) \in Nat /\ Len(c) \in Nat
        /\ \A i \in 1..Len(b) : b[i].seq \in Nat
        /\ \A i \in 1..Len(c) : c[i].seq \in Nat
    BY EntriesAre
  <1>2. Len(a) <= Len(c) /\ Top(a) <= Top(c)
    BY <1>1 DEF Extends
  <1>3. ASSUME NEW i \in 1..Len(a) PROVE c[i] = a[i]
    <2>1. i \in 1..Len(b) /\ b[i] = a[i]
      BY <1>1 DEF Extends
    <2>2. QED
      BY <2>1 DEF Extends
  <1>4. ASSUME NEW i \in 1..Len(c), i > Len(a) PROVE c[i].seq > Top(a)
    <2>1. CASE i > Len(b)
      <3>1. c[i].seq > Top(b) /\ Top(a) <= Top(b)
        BY <2>1 DEF Extends
      <3>2. QED
        BY <1>1, <3>1
    <2>2. CASE ~(i > Len(b))
      <3>1. i \in 1..Len(b)
        BY <1>1, <2>2
      <3>2. c[i] = b[i] /\ b[i].seq > Top(a)
        BY <1>4, <3>1 DEF Extends
      <3>3. QED
        BY <3>2
    <2>3. QED
      BY <2>1, <2>2
  <1>5. QED
    BY <1>2, <1>3, <1>4 DEF Extends

-----------------------------------------------------------------------------
(* Recording                                                               *)

(* A rebuilt index says what the lines are that it was built from.         *)
LEMMA RebuiltIsAt ==
    ASSUME file \in Seq(Entries), Increasing(file), NEW n \in 0..Len(file),
           n = 0 => file = <<>>
    PROVE  At(Rebuilt(n), file)
  <1> DEFINE index == Rebuilt(n)
  <1>1. /\ DOMAIN file = 1..Len(file) /\ Len(file) \in Nat /\ n \in Nat
        /\ \A i \in 1..Len(file) : file[i].seq \in Nat
    BY EntriesAre
  <1>2. /\ index \in Indexes /\ index.lastOffset = n
        /\ index.lastSeq \in {0} \union {file[i].seq : i \in 1..n}
        /\ \A i \in 1..n : file[i].seq <= index.lastSeq
        /\ \A k \in DOMAIN index.checkpoints :
              LET mark == index.checkpoints[k]
              IN  /\ mark.offset + 1 \in 1..n
                  /\ file[mark.offset + 1].msg = 0
                  /\ mark.seq = file[mark.offset + 1].seq
                  /\ mark.upTo = file[mark.offset + 1].upTo
    BY RebuiltIs
  <1> HIDE DEF index
  <1>3. Marked(index, file)
    BY <1>1, <1>2 DEF Marked
  <1>4. \A k \in DOMAIN index.checkpoints : index.checkpoints[k].offset < index.lastOffset
    <2>1. \A k \in DOMAIN index.checkpoints : index.checkpoints[k].offset \in Nat
      BY <1>2, IndexesAre
    <2>2. QED
      BY <1>1, <1>2, <2>1
  <1>5. index.lastSeq = IF n = 0 THEN 0 ELSE file[n].seq
    <2>1. CASE n = 0
      <3>1. 1..n = {}
        BY <2>1
      <3>2. QED
        BY <1>2, <2>1, <3>1
    <2>2. CASE n # 0
      <3>1. n \in 1..n /\ n \in 1..Len(file)
        BY <1>1, <2>2
      <3>2. file[n].seq <= index.lastSeq /\ file[n].seq \in Nat
        BY <1>1, <1>2, <3>1
      <3>3. \A i \in 1..n : file[i].seq <= file[n].seq
        <4> SUFFICES ASSUME NEW i \in 1..n PROVE file[i].seq <= file[n].seq
          OBVIOUS
        <4>1. i \in DOMAIN file /\ n \in DOMAIN file /\ (i = n \/ i < n)
          BY <1>1
        <4>2. i < n => file[i].seq < file[n].seq
          BY <4>1 DEF Increasing
        <4>3. file[i].seq \in Nat
          BY <1>1, <4>1
        <4>4. QED
          BY <3>2, <4>1, <4>2, <4>3
      <3>4. index.lastSeq \in Nat /\ index.lastSeq <= file[n].seq
        <4>1. \A i \in 1..n : file[i].seq \in Nat
          BY <1>1
        <4>2. QED
          BY <1>2, <3>2, <3>3, <4>1
      <3>5. QED
        BY <2>2, <3>2, <3>4
    <2>3. QED
      BY <2>1, <2>2
  <1>6. ASSUME NEW i \in DOMAIN file, i > n PROVE file[i].seq > index.lastSeq
    <2>1. n # 0
      <3>1. file = <<>> => DOMAIN file = {}
        OBVIOUS
      <3>2. QED
        BY <1>6, <3>1
    <2>2. n \in DOMAIN file /\ n < i /\ file[n].seq \in Nat /\ file[i].seq \in Nat
      BY <1>1, <1>6, <2>1
    <2>3. file[n].seq < file[i].seq
      BY <2>2 DEF Increasing
    <2>4. QED
      BY <1>5, <2>1, <2>2, <2>3
  <1>7. At(index, file)
    BY <1>1, <1>2, <1>3, <1>4, <1>5, <1>6 DEF At
  <1>8. QED
    BY <1>7 DEF index

(* What is not summed up is within the bounds.                             *)
LEMMA ReadsTheRest ==
    ASSUME NEW lines \in Seq(Entries), NEW S, NEW from \in Nat, NEW start \in Nat,
           ReadsFrom(from, start, lines, S),
           NEW i \in DOMAIN lines, lines[i].msg \notin S \union {0}
    PROVE  lines[i].seq >= from /\ i > start
  <1>1. lines[i].seq \in Nat
    BY EntriesAre
  <1>2. ~(lines[i].seq <= from - 1)
    BY DEF ReadsFrom, Covers
  <1>3. lines[i].seq >= from
    BY <1>1, <1>2
  <1>4. QED
    BY <1>3 DEF ReadsFrom

LEMMA RecordFits ==
    ASSUME Known, NEW m \in Messages, op[m].pc \in {"waiting", "inside"},
           compact.phase = "idle",
           NEW transcript \in Transcripts,
           transcript.status \in {"open", "flushing", "ending"},
           transcript.status # "open" =>
               \A k \in Messages : op[k].pc \notin {"opening", "inside"},
           At(transcript.index, file),
           NEW saved \in Indexes \union {NoIndex}, saved # NoIndex => At(saved, file),
           Record(m, transcript, saved), TypeOK', Increasing(file')
    PROVE  Fits'
  <1> DEFINE applies == Applies(op[m])
             first == CheckpointEntry(NumberOf(transcript.index), op[m].upTo)
             index1 == IF applies THEN Indexed(transcript.index, first) ELSE transcript.index
             second == Entry(m, NumberOf(index1))
             index2 == Indexed(index1, second)
             before == IF applies THEN Append(file, first) ELSE file
             saved1 == IF applies THEN SavedBy(index1, saved) ELSE saved
             S == IF applies THEN summarised \union op[m].picked ELSE summarised
             after == Append(before, second)
  <1>0. /\ file \in Seq(Entries) /\ Increasing(file) /\ Top(file) \in Nat /\ Len(file) \in Nat
        /\ op[m] \in CallsOf /\ \A k \in Messages : op[k] \in CallsOf
        /\ TypeOK /\ MaxMessages \in Nat
    BY KnownFacts, RecordsAssumption
  <1>1. /\ Held /\ CompactionFits /\ \A k \in Messages : CallFits(k)
        /\ Numbered(file) /\ Summaries(file, summarised)
    BY DEF Known, Fits, FileFits
  <1>1a. transcript.status # "ending"
    BY DEF Known, Record
  <1>1b. transcript.index \in Indexes /\ op[m].upTo \in Nat
    BY <1>0 DEF Transcripts, CallsOf
  <1>1c. Points(transcript.index, file)
    <2>1. /\ first \in Entries /\ first.seq = transcript.index.lastSeq + 1
      BY <1>0, <1>1b, IndexesAre DEF CheckpointEntry, NumberOf, Entries
    <2>2. /\ index1.lastSeq \in Nat
          /\ ~applies => second.seq = transcript.index.lastSeq + 1
      <3>1. index1 \in Indexes
        BY <1>1b, <2>1, IndexedIsIndex
      <3> HIDE DEF first
      <3>2. QED
        BY <3>1, IndexesAre DEF Entry, NumberOf
    <2>3. second \in Entries
      <3> HIDE DEF index1
      <3>1. QED
        BY <1>0, <2>2 DEF Entry, NumberOf, Entries, Messages
    <2>4. file' = after /\ file' \in Seq(Entries)
      BY <1>1a DEF Record, TypeOK
    <2> HIDE DEF first, second, index1
    <2>5. /\ Len(file') > Len(file)
          /\ \A i \in 1..Len(file) : file'[i] = file[i]
          /\ file'[Len(file) + 1] = IF applies THEN first ELSE second
      <3>1. CASE applies
        <4>1. file' = Append(Append(file, first), second)
          BY <2>4, <3>1
        <4>2. QED
          BY <1>0, <2>1, <2>3, <3>1, <4>1
      <3>2. CASE ~applies
        <4>1. file' = Append(file, second)
          BY <2>4, <3>2
        <4>2. QED
          BY <1>0, <2>3, <3>2, <4>1
      <3>3. QED
        BY <3>1, <3>2
    <2>6. file'[Len(file) + 1].seq = transcript.index.lastSeq + 1
      BY <2>1, <2>2, <2>5
    <2> HIDE DEF after
    <2>7. QED
      BY <1>0, <1>1b, <2>4, <2>5, <2>6, AtTheEnd
  <1>2. /\ transcript.index \in Indexes /\ transcript.index.lastSeq = Top(file)
        /\ op[m].upTo \in Nat /\ op[m].upTo <= Top(file)
        /\ Covers(op[m].upTo, file, op[m].picked \union summarised)
    BY <1>0, <1>1, <1>1b, <1>1c DEF Points, CallFits
  <1>3. first \in Entries /\ first.msg = 0 /\ first.seq = Top(file) + 1 /\ first.upTo = op[m].upTo
    BY <1>0, <1>2 DEF CheckpointEntry, NumberOf, Entries
  <1> HIDE DEF first
  <1>4. summarised \subseteq S
    OBVIOUS
  <1>5. Summaries(file, S)
    BY <1>1, <1>4, SummariesMore
  <1>6. /\ before \in Seq(Entries) /\ Increasing(before)
        /\ Extends(before, file)
        /\ Numbered(before) /\ Summaries(before, S)
        /\ index1 \in Indexes /\ Points(index1, before)
        /\ saved1 # NoIndex => saved1 \in Indexes /\ At(saved1, before)
    <2>1. CASE applies
      <3>1. Covers(first.upTo, file, S)
        <4>1. op[m].picked \union summarised \subseteq S
          BY <2>1
        <4> HIDE DEF S, applies
        <4>2. QED
          BY <1>2, <1>3, <4>1, CoversMore
      <3>2. first.upTo <= first.seq
        BY <1>0, <1>2, <1>3
      <3> HIDE DEF S
      <3>3. /\ Append(file, first) \in Seq(Entries) /\ Increasing(Append(file, first))
            /\ Top(Append(file, first)) = first.seq
            /\ Extends(Append(file, first), file)
            /\ Numbered(Append(file, first)) /\ Summaries(Append(file, first), S)
        BY <1>0, <1>1, <1>3, <1>5, <3>1, <3>2, AddLine
      <3>4. /\ Indexed(transcript.index, first) \in Indexes
            /\ Points(Indexed(transcript.index, first), Append(file, first))
        <4>1. Points(transcript.index, file) /\ transcript.index \in Indexes
          BY <1>1c, <1>2
        <4>2. Indexed(transcript.index, first) \in Indexes
          BY <1>3, <4>1, IndexedIsIndex
        <4>3. Points(Indexed(transcript.index, first), Append(file, first))
          BY <1>0, <1>3, <3>3, <4>1, AddMark
        <4>4. QED
          BY <4>2, <4>3
      <3>5. /\ before = Append(file, first) /\ index1 = Indexed(transcript.index, first)
            /\ saved1 = SavedBy(index1, saved)
        BY <2>1
      <3> HIDE DEF before, index1, saved1
      <3>6. At(index1, before)
        BY <3>3, <3>4, <3>5, PointsAreAt
      <3>7. saved # NoIndex => saved \in Indexes /\ At(saved, before)
        BY <1>0, <3>3, <3>5, AtExtends
      <3>8. saved1 # NoIndex => saved1 \in Indexes /\ At(saved1, before)
        BY <3>4, <3>5, <3>6, <3>7 DEF SavedBy
      <3>9. QED
        BY <3>3, <3>4, <3>5, <3>8
    <2>2. CASE ~applies
      <3>1. before = file /\ index1 = transcript.index /\ saved1 = saved
        BY <2>2
      <3>2. Extends(file, file)
        <4>1. Len(file) \in Nat
          BY <1>0, EntriesAre
        <4>2. QED
          BY <1>0, <4>1 DEF Extends
      <3> HIDE DEF before, index1, S, saved1
      <3>3. QED
        BY <1>0, <1>1, <1>1c, <1>2, <1>5, <3>1, <3>2
    <2>3. QED
      BY <2>1, <2>2
  <1>7. Top(before) \in Nat /\ index1.lastSeq = Top(before)
    BY <1>6, TopIsLast DEF Points
  <1> HIDE DEF before, index1, saved1
  <1>8. second \in Entries /\ second.msg = m /\ m # 0 /\ second.seq = Top(before) + 1
    BY <1>0, <1>7 DEF Entry, NumberOf, Entries, Messages
  <1> HIDE DEF second, S
  <1>9. /\ after \in Seq(Entries) /\ Increasing(after)
        /\ Top(after) = second.seq
        /\ Len(after) = Len(before) + 1 /\ after[Len(before) + 1] = second
        /\ Extends(after, before)
        /\ Numbered(after) /\ Summaries(after, S)
    BY <1>6, <1>8, AddLine
  <1>10. index2 \in Indexes /\ Points(index2, after)
    BY <1>6, <1>8, <1>9, AddMark, IndexedIsIndex
  <1>11. Top(after) \in Nat
    BY <1>7, <1>8, <1>9
  <1> HIDE DEF index2, after
  <1>12. Extends(after, file)
    BY <1>0, <1>6, <1>7, <1>9, <1>11, ExtendsTwice
  <1>12a. /\ \A n \in Nat : n <= Top(file) /\ Covers(n, file, summarised) => Covers(n, after, S)
          /\ \A from \in Nat, start \in Nat :
                from >= 1 /\ ReadsFrom(from, start, file, summarised) =>
                    ReadsFrom(from, start, after, S)
    BY <1>0, <1>4, <1>9, <1>11, <1>12, ExtendsKeeps
  <1>13. /\ file' = after
         /\ session' = [status |-> transcript.status, index |-> index2]
         /\ indexFile' = SavedBy(index2, saved1)
         /\ summarised' = S /\ durable' = durable
         /\ op' = [op EXCEPT ![m] = Call("done")]
         /\ compact' = compact
    BY <1>1a DEF Record, after, before, first, index1, saved1, second, index2, S
  <1>14. FileFits' /\ Held'
    <2>1. /\ session' # NoSession /\ session'.index = index2
          /\ session'.status = transcript.status
      BY <1>13 DEF NoSession
    <2>2. At(index2, after)
      BY <1>9, <1>10, PointsAreAt
    <2>3. indexFile' # NoIndex => At(indexFile', after)
      <3>1. saved1 # NoIndex => At(saved1, after)
        BY <1>6, <1>9, AtExtends
      <3>2. QED
        BY <1>13, <2>2, <3>1 DEF SavedBy
    <2>4. FileFits'
      BY <1>9, <1>13, <2>1, <2>2, <2>3 DEF FileFits
    <2>5. \A k \in Messages : op'[k] = IF k = m THEN Call("done") ELSE op[k]
      BY <1>0, <1>13 DEF TypeOK
    <2>6. \A k \in Messages : op'[k].pc \in {"opening", "inside"} => op'[k] = op[k]
      BY <2>5 DEF Call
    <2>7. Held'
      BY <1>1, <1>1a, <1>13, <2>1, <2>6 DEF Held
    <2>8. QED
      BY <2>4, <2>7
  <1>15. ASSUME NEW k \in Messages PROVE CallFits(k)'
    <2>1. CASE k = m
      <3>1. op'[k].pc = "done"
        BY <1>0, <1>13, <2>1 DEF TypeOK, Call
      <3>2. QED
        BY <3>1 DEF CallFits
    <2>2. CASE k # m
      <3>1. op'[k] = op[k] /\ op[k] \in CallsOf /\ CallFits(k)
        BY <1>0, <1>1, <1>13, <2>2 DEF TypeOK
      <3>2. op[k].upTo \in Nat /\ op[k].from \in Nat /\ op[k].start \in Nat
        BY <3>1 DEF CallsOf
      <3>3. ASSUME op[k].pc = "reading", ReadsFrom(op[k].from, op[k].start, file, summarised),
                   op[k].from >= 1
            PROVE  ReadsFrom(op[k].from, op[k].start, after, S)
        BY <1>12a, <3>2, <3>3
      <3>4. ASSUME op[k].upTo <= Top(file),
                   Covers(op[k].upTo, file, op[k].picked \union summarised)
            PROVE  Covers(op[k].upTo, after, op[k].picked \union S)
        <4> DEFINE A == op[k].picked \union summarised
                   B == op[k].picked \union S
        <4>1. A \subseteq B
          BY <1>4
        <4>2. Covers(op[k].upTo, file, A) /\ op[k].upTo \in Nat /\ op[k].upTo <= Top(file)
          BY <3>2, <3>4
        <4> HIDE DEF A, B
        <4>3. Covers(op[k].upTo, after, B)
          BY <1>0, <1>9, <1>11, <1>12, <4>1, <4>2, ExtendsKeeps
        <4>4. QED
          BY <4>3 DEF B
      <3>5. Top(file) <= Top(after)
        BY <1>12 DEF Extends
      <3>6. op[k].upTo <= Top(file) => op[k].upTo <= Top(after)
        BY <1>0, <1>11, <3>2, <3>5
      <3>7. /\ op[k].pc = "reading" =>
                 /\ op[k].from >= 1
                 /\ ReadsFrom(op[k].from, op[k].start, file, summarised)
            /\ op[k].pc \in {"waiting", "inside"} =>
                 /\ op[k].upTo <= Top(file)
                 /\ Covers(op[k].upTo, file, op[k].picked \union summarised)
        BY <3>1 DEF CallFits
      <3>8. QED
        BY <1>13, <3>1, <3>3, <3>4, <3>6, <3>7 DEF CallFits
    <2>3. QED
      BY <2>1, <2>2
  <1>16. CompactionFits'
    BY <1>1, <1>13 DEF CompactionFits
  <1>17. QED
    BY <1>14, <1>15, <1>16 DEF Fits

-----------------------------------------------------------------------------
(* Opening                                                                 *)

(* What a call reads by, through an index with its marks at the lines.     *)
LEMMA ReadingFits ==
    ASSUME Known, NEW index \in Indexes, At(index, file)
    PROVE  /\ Reading(index).pc = "reading" /\ Reading(index).from >= 1
           /\ ReadsFrom(Reading(index).from, Reading(index).start, file, summarised)
  <1>1. /\ Reading(index).pc = "reading" /\ Reading(index).from = ReplayFrom(index)
        /\ Reading(index).start = ReplayStart(index, ReplayFrom(index))
    BY DEF Reading, Call
  <1>2. /\ file \in Seq(Entries) /\ Increasing(file)
        /\ Numbered(file) /\ Summaries(file, summarised) /\ Marked(index, file)
    BY KnownFacts DEF FileFits, At
  <1>3. QED
    BY <1>1, <1>2, ReplayIsSound, ReplayIsTyped

(* The index of a transcript that is opened without a rebuild.             *)
LEMMA OpenIsAt ==
    ASSUME Known, session = NoSession, ~MustRebuild
    PROVE  /\ IndexAtOpen \in Indexes /\ At(IndexAtOpen, file)
           /\ compact.phase = "idle" /\ durable = Len(file)
  <1>0. IndexAtOpen \in Indexes /\ Held /\ FileFits
    BY KnownFacts
  <1>1. compact.phase = "idle" /\ durable = Len(file)
    BY <1>0 DEF Held
  <1>2. CASE indexFile # NoIndex
    BY <1>0, <1>1, <1>2 DEF FileFits, IndexAtOpen
  <1>3. CASE indexFile = NoIndex
    <2>1. file = <<>> /\ IndexAtOpen = EmptyIndex
      BY <1>3 DEF MustRebuild, IndexAtOpen
    <2>2. At(EmptyIndex, file)
      BY <2>1 DEF At, Marked, EmptyIndex
    <2>3. QED
      BY <1>0, <1>1, <2>1, <2>2
  <1>4. QED
    BY <1>2, <1>3

(* One call moves on, nothing is written.                                  *)
LEMMA CallMoves ==
    ASSUME Known, NEW m \in Messages, NEW call, op' = [op EXCEPT ![m] = call],
           file' = file, summarised' = summarised, compact' = compact,
           CallFits(m)', FileFits', Held'
    PROVE  Fits'
  <1>0. TypeOK /\ CompactionFits /\ \A k \in Messages : CallFits(k)
    BY KnownFacts
  <1>1. ASSUME NEW k \in Messages, k # m PROVE CallFits(k)'
    <2>1. op'[k] = op[k]
      BY <1>0, <1>1 DEF TypeOK
    <2>2. QED
      BY <1>0, <2>1 DEF CallFits
  <1>2. CompactionFits'
    BY <1>0 DEF CompactionFits, SameTalk
  <1>3. QED
    BY <1>1, <1>2 DEF Fits

LEMMA StartUserFits ==
    ASSUME Known, NEW m \in Messages, StartUser(m)
    PROVE  Fits'
  <1>0. /\ TypeOK /\ Held /\ FileFits /\ durable \in 0..Len(file) /\ Len(file) \in Nat
    BY KnownFacts
  <1>1. /\ file' = file /\ durable' = durable /\ indexFile' = indexFile
        /\ compact' = compact /\ summarised' = summarised
    BY DEF StartUser, disk, history
  <1>2. ASSUME NEW index \in Indexes, At(index, file), op' = [op EXCEPT ![m] = Reading(index)],
               compact.phase \notin {"written", "rebuilding"},
               \/ session' = session /\ session # NoSession
               \/ /\ session' = [status |-> "open", index |-> index]
                  /\ session = NoSession
        PROVE  Fits'
    <2>1. /\ op'[m] = Reading(index)
          /\ \A k \in Messages : k # m => op'[k] = op[k]
      BY <1>0, <1>2 DEF TypeOK
    <2>2. CallFits(m)'
      BY <1>1, <1>2, <2>1, ReadingFits DEF CallFits
    <2>3. \A k \in Messages : op'[k].pc \in {"opening", "inside"} => op'[k] = op[k]
      BY <1>2, <2>1, ReadingFits
    <2>4. CASE session' = session /\ session # NoSession
      <3>1. FileFits'
        BY <1>0, <1>1, <2>4 DEF FileFits
      <3>2. Held'
        BY <1>0, <1>1, <1>2, <2>3, <2>4 DEF Held
      <3>3. QED
        BY <1>1, <1>2, <2>2, <3>1, <3>2, CallMoves
    <2>5. CASE session' = [status |-> "open", index |-> index] /\ session = NoSession
      <3>1. session' # NoSession /\ session'.status = "open" /\ session'.index = index
        BY <2>5 DEF NoSession
      <3>2. FileFits'
        BY <1>0, <1>1, <1>2, <3>1 DEF FileFits
      <3>3. Held'
        BY <1>0, <1>1, <1>2, <2>3, <2>5, <3>1 DEF Held
      <3>4. QED
        BY <1>1, <1>2, <2>2, <3>2, <3>3, CallMoves
    <2>6. QED
      BY <1>2, <2>4, <2>5
  <1>3. CASE /\ AtHand
             /\ op' = [op EXCEPT ![m] = Reading(session.index)]
             /\ UNCHANGED session
    <2>1. session # NoSession /\ compact.phase \notin {"written", "rebuilding"}
      BY <1>3 DEF AtHand, Known
    <2>2. session.index \in Indexes /\ At(session.index, file)
      BY <1>0, <2>1 DEF TypeOK, FileFits
    <2>3. QED
      BY <1>2, <1>3, <2>1, <2>2
  <1>4. CASE /\ session = NoSession /\ ~MustRebuild
             /\ session' = [status |-> "open", index |-> IndexAtOpen]
             /\ op' = [op EXCEPT ![m] = Reading(IndexAtOpen)]
    BY <1>2, <1>4, OpenIsAt
  <1>5. CASE /\ session = NoSession /\ MustRebuild
             /\ op' = [op EXCEPT ![m] = [Call("opening") EXCEPT !.seen = durable]]
             /\ UNCHANGED session
    <2> DEFINE call == [Call("opening") EXCEPT !.seen = durable]
    <2>1. call.pc = "opening" /\ call.seen = durable
      BY DEF Call
    <2>2. op' = [op EXCEPT ![m] = call]
      BY <1>5
    <2> HIDE DEF call
    <2>3. /\ op'[m] = call
          /\ \A k \in Messages : k # m => op'[k] = op[k]
      BY <1>0, <2>2 DEF TypeOK
    <2>4. durable \in 1..durable /\ compact.phase = "idle"
      <3>1. durable = Len(file) /\ compact.phase = "idle" /\ file # <<>>
        BY <1>0, <1>5 DEF Held, MustRebuild
      <3>2. Len(file) # 0
        BY <1>0, <3>1, EmptySeq DEF TypeOK
      <3>3. QED
        BY <1>0, <3>1, <3>2
    <2>5. CallFits(m)' /\ FileFits'
      BY <1>0, <1>1, <1>5, <2>1, <2>3 DEF CallFits, FileFits
    <2>6. Held'
      BY <1>0, <1>1, <1>5, <2>1, <2>3, <2>4 DEF Held
    <2>7. QED
      BY <1>1, <2>2, <2>5, <2>6, CallMoves
  <1>6. QED
    BY <1>3, <1>4, <1>5 DEF StartUser

LEMMA OpenedFits ==
    ASSUME Known, NEW m \in Messages, Opened(m)
    PROVE  Fits'
  <1>0. /\ TypeOK /\ Held /\ FileFits /\ durable \in 0..Len(file) /\ Len(file) \in Nat
        /\ file \in Seq(Entries) /\ Increasing(file)
    BY KnownFacts
  <1>1. /\ file' = file /\ durable' = durable
        /\ compact' = compact /\ summarised' = summarised /\ op[m].pc = "opening"
    BY DEF Opened, history
  <1>2. op[m].seen \in 1..durable
    BY <1>0, <1>1 DEF Held
  <1>3. op[m].seen <= durable
    BY <1>0, <1>2
  <1>4. PICK n \in op[m].seen..durable :
             /\ session' = [status |-> "open", index |-> Rebuilt(n)]
             /\ indexFile' = Rebuilt(n)
             /\ op' = [op EXCEPT ![m] = Reading(Rebuilt(n))]
    BY <1>3 DEF Opened
  <1>5. n \in 0..Len(file) /\ n # 0
    BY <1>0, <1>2
  <1>6. Rebuilt(n) \in Indexes /\ At(Rebuilt(n), file)
    BY <1>0, <1>5, RebuiltIs, RebuiltIsAt
  <1>7. compact.phase \notin {"written", "rebuilding"}
    BY <1>0, <1>1 DEF Held
  <1>8. /\ op'[m] = Reading(Rebuilt(n))
        /\ \A k \in Messages : k # m => op'[k] = op[k]
    BY <1>0, <1>4 DEF TypeOK
  <1>9. CallFits(m)'
    BY <1>1, <1>6, <1>8, ReadingFits DEF CallFits
  <1>10. \A k \in Messages : op'[k].pc \in {"opening", "inside"} => op'[k] = op[k]
    BY <1>6, <1>8, ReadingFits
  <1>11. session' # NoSession /\ session'.status = "open" /\ session'.index = Rebuilt(n)
    BY <1>4 DEF NoSession
  <1>12. FileFits'
    BY <1>0, <1>1, <1>4, <1>6, <1>11 DEF FileFits
  <1>13. Held'
    BY <1>0, <1>1, <1>7, <1>10, <1>11 DEF Held
  <1>14. QED
    BY <1>1, <1>4, <1>9, <1>12, <1>13, CallMoves

(* A call that leaves its read holds back nothing, or a summary of all that*)
(* it read up to the last message summed up.                               *)
LEMMA ReadSinceReads ==
    ASSUME Known, NEW m \in Messages, StartOther(m) \/ ReadSince(m)
    PROVE  \E call \in CallsOf :
              /\ op' = [op EXCEPT ![m] = call]
              /\ call.pc = "waiting" /\ call.upTo <= Top(file)
              /\ Covers(call.upTo, file, call.picked \union summarised)
  <1>0. /\ file \in Seq(Entries) /\ Increasing(file) /\ TypeOK
        /\ DOMAIN file = 1..Len(file) /\ Len(file) \in Nat /\ durable \in 0..Len(file)
        /\ Top(file) \in Nat /\ \A i \in 1..Len(file) : file[i].seq <= Top(file)
        /\ op[m] \in CallsOf
    BY KnownFacts
  <1>1. /\ Call("waiting") \in CallsOf /\ Call("waiting").pc = "waiting" /\ Call("waiting").upTo = 0
        /\ Call("waiting").picked = {}
    BY CallIsCall DEF Call
  <1>2. Covers(0, file, summarised)
    <2>1. Numbered(file) /\ \A i \in 1..Len(file) : file[i].seq \in Nat
      BY <1>0, EntriesAre DEF Known, Fits, FileFits
    <2>2. QED
      BY <1>0, <2>1 DEF Covers, Numbered
  <1>3. CASE op' = [op EXCEPT ![m] = Call("waiting")]
    <2> DEFINE call == Call("waiting")
    <2>1. call.picked \union summarised = summarised
      BY <1>1
    <2>2. Covers(call.upTo, file, call.picked \union summarised)
      BY <1>1, <1>2, <2>1
    <2>3. /\ call \in CallsOf /\ call.pc = "waiting" /\ call.upTo = 0
          /\ op' = [op EXCEPT ![m] = call]
      BY <1>1, <1>3
    <2> HIDE DEF call
    <2>4. call.upTo <= Top(file)
      BY <1>0, <2>3
    <2>5. QED
      BY <2>2, <2>3, <2>4
  <1>4. CASE ReadSince(m) /\ op' # [op EXCEPT ![m] = Call("waiting")]
    <2> DEFINE read == Replay(op[m].from, op[m].start, durable)
               talk == {i \in read : file[i].msg # 0}
               rank(i) == Cardinality({j \in talk : Precedes(j, i)})
               count == Cardinality(talk) - MaxContext
               older == {i \in talk : rank(i) < count}
               picked == {file[i].msg : i \in older}
    <2>1. \E last \in older :
             /\ \A i \in older : file[i].seq <= file[last].seq
             /\ op' = [op EXCEPT ![m] = [Call("waiting") EXCEPT
                      !.upTo = file[last].seq, !.picked = {file[i].msg : i \in older}]]
      BY <1>4, Zenon DEF ReadSince
    <2>2. PICK last \in older :
             op' = [op EXCEPT ![m] = [Call("waiting") EXCEPT
                      !.upTo = file[last].seq, !.picked = picked]]
      BY <2>1, Zenon
    <2>3. /\ op[m].pc = "reading" /\ CallFits(m)
      BY <1>4 DEF ReadSince, Known, Fits
    <2>4. ReadsFrom(op[m].from, op[m].start, file, summarised) /\ op[m].from \in Nat
      BY <1>0, <2>3 DEF CallFits, CallsOf
    <2>5. /\ talk \subseteq 1..Len(file) /\ older \subseteq talk
          /\ \A i \in talk : i \in 1..durable
      BY <1>0 DEF Replay
    <2>6. IsFiniteSet(talk) /\ Cardinality(talk) \in Nat
      <3>1. IsFiniteSet(1..Len(file))
        BY <1>0, FS_Interval
      <3> HIDE DEF talk
      <3>2. IsFiniteSet(talk)
        BY <2>5, <3>1, FS_Subset
      <3>3. QED
        BY <3>2, FS_CardinalityType
    <2>7. \A i \in 1..Len(file) : file[i].seq \in Nat /\ file[i].msg \in 0..MaxMessages
      BY <1>0, EntriesAre
    <2>8. last \in talk /\ rank(last) < count /\ last \in 1..Len(file) /\ last \in 1..durable
      BY <2>5
    <2> HIDE DEF talk, older, read
    <2>9. ASSUME NEW i \in 1..Len(file), file[i].msg # 0, file[i].seq <= file[last].seq
          PROVE  file[i].msg \in picked \union summarised
      <3>1. i <= last
        <4>1. CASE last < i
          <5>1. file[last].seq < file[i].seq
            BY <1>0, <2>8, <4>1 DEF Increasing
          <5>2. QED
            BY <2>7, <2>8, <2>9, <5>1
        <4>2. QED
          BY <1>0, <2>8, <4>1
      <3>2. CASE file[i].seq < op[m].from
        <4>1. file[i].seq <= op[m].from - 1
          BY <2>4, <2>7, <3>2
        <4>2. file[i].msg \in summarised
          BY <1>0, <2>4, <2>9, <4>1 DEF ReadsFrom, Covers
        <4>3. QED
          BY <4>2
      <3>3. CASE ~(file[i].seq < op[m].from)
        <4>1. file[i].seq >= op[m].from
          BY <2>4, <2>7, <3>3
        <4>2. i > op[m].start
          BY <1>0, <2>4, <4>1 DEF ReadsFrom
        <4>3. i \in 1..durable
          BY <1>0, <2>8, <3>1
        <4>4. i \in talk
          BY <2>9, <4>1, <4>2, <4>3 DEF talk, read, Replay
        <4>5. {j \in talk : Precedes(j, i)} \subseteq {j \in talk : Precedes(j, last)}
          <5> SUFFICES ASSUME NEW j \in talk, Precedes(j, i) PROVE Precedes(j, last)
            OBVIOUS
          <5>1. j \in 1..Len(file)
            BY <2>5
          <5>2. file[j].seq \in Nat /\ file[i].seq \in Nat /\ file[last].seq \in Nat
            BY <2>7, <2>8, <5>1
          <5>3. CASE i = last
            BY <5>3
          <5>4. CASE i # last
            <6>1. i < last
              BY <1>0, <2>8, <3>1, <5>4
            <6>2. file[i].seq < file[last].seq
              BY <1>0, <2>8, <6>1 DEF Increasing
            <6>3. file[j].seq <= file[i].seq
              BY <5>2 DEF Precedes
            <6>4. file[j].seq < file[last].seq
              BY <5>2, <6>2, <6>3
            <6>5. QED
              BY <6>4 DEF Precedes
          <5>5. QED
            BY <5>3, <5>4
        <4>6. rank(i) <= rank(last) /\ rank(i) \in Nat /\ rank(last) \in Nat
          <5> DEFINE A == {j \in talk : Precedes(j, i)}
                     B == {j \in talk : Precedes(j, last)}
          <5>1. A \subseteq talk /\ B \subseteq talk
            OBVIOUS
          <5>2. A \subseteq B
            BY <4>5
          <5> HIDE DEF A, B
          <5>3. IsFiniteSet(A) /\ IsFiniteSet(B)
            BY <2>6, <5>1, FS_Subset
          <5>4. Cardinality(A) <= Cardinality(B)
            BY <5>2, <5>3, FS_Subset
          <5>5. Cardinality(A) \in Nat /\ Cardinality(B) \in Nat
            BY <5>3, FS_CardinalityType
          <5>6. QED
            BY <5>4, <5>5 DEF A, B
        <4>7. count \in Int
          BY <2>6, RecordsAssumption
        <4> HIDE DEF rank, count
        <4>8. rank(i) < count
          BY <2>8, <4>6, <4>7
        <4>9. i \in older
          BY <4>4, <4>8 DEF older
        <4>10. QED
          BY <4>9
      <3>4. QED
        BY <3>2, <3>3
    <2>10. file[last].seq \in Nat /\ file[last].seq <= Top(file)
      BY <1>0, <2>7, <2>8
    <2>11. picked \in SUBSET (0..MaxMessages)
      BY <2>5, <2>7
    <2> HIDE DEF picked
    <2>12. \A n \in Nat, P \in SUBSET (0..MaxMessages) :
              LET call == [Call("waiting") EXCEPT !.upTo = n, !.picked = P]
              IN  /\ call \in CallsOf /\ call.pc = "waiting"
                  /\ call.upTo = n /\ call.picked = P
      BY CallIsCall DEF Call
    <2>13. Covers(file[last].seq, file, picked \union summarised)
      BY <1>0, <2>9 DEF Covers
    <2> DEFINE call == [Call("waiting") EXCEPT !.upTo = file[last].seq, !.picked = picked]
    <2>14. /\ call \in CallsOf /\ call.pc = "waiting"
           /\ call.upTo = file[last].seq /\ call.picked = picked
      BY <2>10, <2>11, <2>12
    <2>15. op' = [op EXCEPT ![m] = call]
      BY <2>2
    <2> HIDE DEF call
    <2>16. QED
      BY <2>10, <2>13, <2>14, <2>15
  <1>5. QED
    BY <1>3, <1>4 DEF StartOther

LEMMA ReadSinceFits ==
    ASSUME Known, NEW m \in Messages, StartOther(m) \/ ReadSince(m)
    PROVE  Fits'
  <1>0. TypeOK /\ FileFits /\ Held
    BY KnownFacts
  <1>1. /\ file' = file /\ durable' = durable /\ indexFile' = indexFile /\ session' = session
        /\ compact' = compact /\ summarised' = summarised
    BY DEF StartOther, ReadSince, disk, history
  <1>2. PICK call \in CallsOf :
              /\ op' = [op EXCEPT ![m] = call]
              /\ call.pc = "waiting" /\ call.upTo <= Top(file)
              /\ Covers(call.upTo, file, call.picked \union summarised)
    BY ReadSinceReads
  <1>3. op'[m] = call /\ \A k \in Messages : k # m => op'[k] = op[k]
    BY <1>0, <1>2 DEF TypeOK
  <1>4. FileFits' /\ CallFits(m)'
    BY <1>0, <1>1, <1>2, <1>3 DEF FileFits, CallFits
  <1>5. \A k \in Messages : op'[k].pc \in {"opening", "reading", "inside"} => op'[k] = op[k]
    BY <1>2, <1>3
  <1>6. Held'
    BY <1>0, <1>1, <1>5 DEF Held
  <1>7. QED
    BY <1>1, <1>2, <1>4, <1>6, CallMoves

LEMMA EnterFits ==
    ASSUME Known, NEW m \in Messages, Enter(m), TypeOK', Increasing(file')
    PROVE  Fits'
  <1>0. /\ TypeOK /\ Held /\ FileFits /\ CallFits(m) /\ indexFile \in Indexes \union {NoIndex}
        /\ durable \in 0..Len(file) /\ Len(file) \in Nat
    BY KnownFacts
  <1>1. /\ op[m].pc = "waiting" /\ compact.phase = "idle"
        /\ \A k \in Messages : op[k].pc # "inside"
    BY DEF Enter, MutexFree
  <1>2. indexFile # NoIndex => At(indexFile, file)
    BY <1>0, <1>1 DEF FileFits
  <1>3. CASE session # NoSession /\ Record(m, session, indexFile)
    <2>1. /\ session \in Transcripts /\ session.status \in {"open", "flushing", "ending"}
          /\ session.status # "open" =>
                 \A k \in Messages : op[k].pc \notin {"opening", "inside"}
      BY <1>0, <1>3 DEF TypeOK, Transcripts, Held
    <2>2. At(session.index, file)
      BY <1>0, <1>1, <1>3 DEF FileFits
    <2>3. QED
      BY <1>0, <1>1, <1>2, <1>3, <2>1, <2>2, RecordFits
  <1>4. CASE /\ session = NoSession /\ ~MustRebuild
             /\ Record(m, [status |-> "open", index |-> IndexAtOpen], indexFile)
    <2> DEFINE new == [status |-> "open", index |-> IndexAtOpen]
    <2>1. new \in Transcripts /\ new.status = "open" /\ new.index = IndexAtOpen
      BY <1>0, OpensTyped
    <2>2. At(new.index, file)
      BY <1>4, <2>1, OpenIsAt
    <2>3. Record(m, new, indexFile)
      BY <1>4
    <2> HIDE DEF new
    <2>4. QED
      BY <1>0, <1>1, <1>2, <2>1, <2>2, <2>3, RecordFits
  <1>5. CASE /\ session = NoSession /\ MustRebuild
             /\ op' = [op EXCEPT ![m].pc = "inside", ![m].seen = durable]
             /\ UNCHANGED <<disk, session, checkpoint, compact, history, bounds>>
    <2> DEFINE call == [op[m] EXCEPT !.pc = "inside", !.seen = durable]
    <2>1. /\ file' = file /\ durable' = durable /\ indexFile' = indexFile /\ session' = session
          /\ compact' = compact /\ summarised' = summarised
      BY <1>5 DEF disk, history
    <2>2. /\ call.pc = "inside" /\ call.seen = durable
          /\ call.upTo = op[m].upTo /\ call.picked = op[m].picked
      <3>1. op[m] \in CallsOf
        BY KnownFacts
      <3>2. QED
        BY <3>1 DEF CallsOf
    <2>3. op' = [op EXCEPT ![m] = call]
      BY <1>0, <1>5 DEF TypeOK
    <2> HIDE DEF call
    <2>4. /\ op'[m] = call
          /\ \A k \in Messages : k # m => op'[k] = op[k]
      BY <1>0, <2>3 DEF TypeOK
    <2>5. durable \in 1..durable
      <3>1. durable = Len(file) /\ file # <<>>
        BY <1>0, <1>5 DEF Held, MustRebuild
      <3>2. Len(file) # 0
        BY <1>0, <3>1, EmptySeq DEF TypeOK
      <3>3. QED
        BY <1>0, <3>1, <3>2
    <2>6. FileFits'
      BY <1>0, <2>1 DEF FileFits
    <2>7. CallFits(m)'
      BY <1>0, <1>1, <2>1, <2>2, <2>4 DEF CallFits
    <2>8. Held'
      BY <1>0, <1>1, <1>5, <2>1, <2>2, <2>4, <2>5 DEF Held
    <2>9. QED
      BY <2>1, <2>3, <2>6, <2>7, <2>8, CallMoves
  <1>6. QED
    BY <1>3, <1>4, <1>5 DEF Enter

LEMMA OpenedInsideFits ==
    ASSUME Known, NEW m \in Messages, OpenedInside(m), TypeOK', Increasing(file')
    PROVE  Fits'
  <1>0. /\ TypeOK /\ Held /\ durable \in 0..Len(file) /\ Len(file) \in Nat
        /\ file \in Seq(Entries) /\ Increasing(file)
    BY KnownFacts
  <1>1. op[m].pc = "inside" /\ compact.phase = "idle" /\ op[m].seen \in 1..durable
    BY <1>0 DEF OpenedInside, Held
  <1>2. PICK n \in op[m].seen..durable :
           Record(m, [status |-> "open", index |-> Rebuilt(n)], Rebuilt(n))
    BY DEF OpenedInside
  <1>3. n \in 0..Len(file) /\ n # 0 /\ n \in 0..durable
    BY <1>0, <1>1
  <1>4. Rebuilt(n) \in Indexes /\ At(Rebuilt(n), file)
    BY <1>0, <1>3, RebuiltIs, RebuiltIsAt
  <1> DEFINE new == [status |-> "open", index |-> Rebuilt(n)]
  <1>5. /\ new \in Transcripts /\ new.status = "open" /\ new.index = Rebuilt(n)
        /\ Record(m, new, Rebuilt(n))
    BY <1>0, <1>2, <1>3, OpensTyped
  <1> HIDE DEF new
  <1>6. QED
    BY <1>1, <1>4, <1>5, RecordFits

LEMMA ClosingFits ==
    ASSUME Known, WriteOut \/ Close \/ Flushed \/ Ended
    PROVE  Fits'
  <1>0. /\ TypeOK /\ Held /\ FileFits /\ CompactionFits /\ \A k \in Messages : CallFits(k)
        /\ durable \in 0..Len(file) /\ Len(file) \in Nat
    BY KnownFacts
  <1>1. /\ file' = file /\ op' = op /\ compact' = compact /\ summarised' = summarised
    BY DEF WriteOut, Close, Flushed, Ended, disk, history
  <1>2. CompactionFits' /\ \A k \in Messages : CallFits(k)'
    BY <1>0, <1>1 DEF CompactionFits, SameTalk, CallFits
  <1>3. CASE WriteOut
    <2>1. durable' = Len(file) /\ indexFile' = indexFile /\ session' = session
      BY <1>3 DEF WriteOut
    <2>2. \A x : x \in 1..durable => x \in 1..durable'
      BY <1>0, <2>1
    <2>3. FileFits'
      BY <1>0, <1>1, <2>1 DEF FileFits
    <2>4. Held'
      BY <1>0, <1>1, <2>1, <2>2 DEF Held
    <2>5. QED
      BY <1>2, <2>3, <2>4 DEF Fits
  <1>4. CASE Close \/ Flushed
    <2>1. /\ session \in Transcripts /\ session # NoSession
          /\ \E status \in {"flushing", "ending"} : session' = [session EXCEPT !.status = status]
      BY <1>0, <1>4 DEF Close, Flushed, TypeOK, Transcripts
    <2>2. /\ session'.index = session.index /\ session'.status \in {"flushing", "ending"}
          /\ session' \in Transcripts
      BY <2>1 DEF Transcripts
    <2>3. session' # NoSession
      BY <2>2 DEF NoSession
    <2>4. compact.phase = "idle" /\ \A k \in Messages : op[k].pc \notin {"opening", "inside"}
      <3>1. CASE Close
        BY <3>1 DEF Close, Recording
      <3>2. CASE Flushed
        BY <1>0, <3>2 DEF Flushed, Held
      <3>3. QED
        BY <1>4, <3>1, <3>2
    <2>5. At(session.index, file)
      BY <1>0, <2>1, <2>4 DEF FileFits
    <2>6. indexFile' = indexFile \/ indexFile' = session.index
      BY <1>4 DEF Close, Flushed, disk
    <2>7. FileFits'
      BY <1>0, <1>1, <2>2, <2>4, <2>5, <2>6 DEF FileFits
    <2>8. Held'
      BY <1>0, <1>1, <2>2, <2>3, <2>4 DEF Held
    <2>9. QED
      BY <1>2, <2>7, <2>8 DEF Fits
  <1>5. CASE Ended
    <2>1. /\ session # NoSession /\ session.status = "ending" /\ compact.phase = "idle"
          /\ \A k \in Messages : op[k].pc \notin {"opening", "inside"}
      BY <1>0, <1>5 DEF Ended, Held
    <2>2. session' = NoSession /\ indexFile' = session.index /\ durable' = Len(file)
      BY <1>5, <2>1 DEF Ended
    <2>3. At(session.index, file)
      BY <1>0, <2>1 DEF FileFits
    <2>4. FileFits'
      BY <1>0, <1>1, <2>2, <2>3 DEF FileFits
    <2>5. Held'
      BY <1>0, <1>1, <2>1, <2>2 DEF Held
    <2>6. QED
      BY <1>2, <2>4, <2>5 DEF Fits
  <1>6. QED
    BY <1>3, <1>4, <1>5

-----------------------------------------------------------------------------
(* Compaction                                                              *)

LEMMA CompactBeginFits ==
    ASSUME Known, CompactBegin
    PROVE  Fits'
  <1>0. TypeOK /\ Held /\ FileFits /\ \A k \in Messages : CallFits(k)
    BY KnownFacts
  <1>1. /\ file' = file /\ durable' = durable /\ indexFile' = indexFile
        /\ op' = op /\ summarised' = summarised
        /\ compact.phase = "idle" /\ \A k \in Messages : op[k].pc # "inside"
    BY DEF CompactBegin, MutexFree, disk, history
  <1>2. /\ session' # NoSession /\ session'.status = "open" /\ At(session'.index, file)
    <2>1. CASE session = NoSession
      <3>1. session' = [status |-> "open", index |-> IndexAtOpen] /\ ~MustRebuild
        BY <2>1 DEF CompactBegin
      <3>2. session' # NoSession /\ session'.status = "open" /\ session'.index = IndexAtOpen
        BY <3>1 DEF NoSession
      <3>3. QED
        BY <2>1, <3>1, <3>2, OpenIsAt
    <2>2. CASE session # NoSession
      BY <1>0, <1>1, <2>2 DEF CompactBegin, FileFits
    <2>3. QED
      BY <2>1, <2>2
  <1>3. compact' = [NoCompaction EXCEPT !.phase = "reading", !.index = session'.index]
    BY DEF CompactBegin
  <1>4. /\ compact'.phase = "reading" /\ compact'.index = session'.index
        /\ compact'.lines = <<>>
    BY <1>3 DEF NoCompaction
  <1>5. CompactionFits'
    BY <1>1, <1>2, <1>4 DEF CompactionFits, Increasing
  <1>6. FileFits' /\ \A k \in Messages : CallFits(k)'
    BY <1>0, <1>1, <1>2, <1>4 DEF FileFits, CallFits
  <1>7. Held'
    BY <1>0, <1>1, <1>2, <1>4 DEF Held
  <1>8. QED
    BY <1>5, <1>6, <1>7 DEF Fits

(* What is sorted is all there: an order without repetitions that is as    *)
(* long as the set is large meets every element.                           *)
LEMMA OrderIsFull ==
    ASSUME NEW S, IsFiniteSet(S), S \subseteq Int,
           NEW order, InOrder(order, S),
           \A i \in S : file[i].seq \in Int
    PROVE  /\ Cardinality(S) \in Nat /\ DOMAIN order = 1..Cardinality(S)
           /\ \A i \in 1..Cardinality(S) : order[i] \in S
           /\ \A j \in S : \E i \in 1..Cardinality(S) : order[i] = j
  <1> DEFINE n == Cardinality(S)
  <1>1. n \in Nat
    BY FS_CardinalityType
  <1>2. order \in [1..n -> S] /\ \A i, j \in 1..n : i < j => Precedes(order[i], order[j])
    BY DEF InOrder
  <1>3. IsFiniteSet(1..n) /\ Cardinality(1..n) = n
    BY <1>1, FS_Interval
  <1> HIDE DEF n
  <1>4. ASSUME NEW i \in 1..n, NEW j \in 1..n, order[i] = order[j] PROVE i = j
    <2>1. order[i] \in S /\ order[i] \in Int /\ file[order[i]].seq \in Int
      BY <1>2
    <2>2. ~Precedes(order[i], order[i])
      BY <2>1 DEF Precedes
    <2>3. ~(i < j) /\ ~(j < i)
      BY <1>2, <1>4, <2>2
    <2>4. QED
      BY <1>1, <2>3
  <1>5. order \in Injection(1..n, S)
    BY <1>2, <1>4 DEF Injection, IsInjective
  <1>6. order \in Surjection(1..n, S)
    BY <1>3, <1>5, FS_Injection DEF n
  <1>7. \A j \in S : \E i \in 1..n : order[i] = j
    BY <1>6 DEF Surjection
  <1>8. DOMAIN order = 1..n /\ \A i \in 1..n : order[i] \in S
    BY <1>2
  <1>9. QED
    BY <1>1, <1>7, <1>8 DEF n

(* What a compaction will write: the checkpoint entry, if there is one, and*)
(* each line that it read.                                                 *)
LEMMA CompactReadIs ==
    ASSUME Known, CompactRead
    PROVE  \E kept \in SUBSET (1..Len(file)) : \E limit \in Int :
             /\ kept = Replay(ReplayFrom(compact.index),
                              ReplayStart(compact.index, ReplayFrom(compact.index)), durable)
             /\ kept = {} => limit = compact.index.lastSeq
             /\ \/ compact' = NoCompaction
                \/ /\ compact'.phase = "closing"
                   /\ checkpoint # 0 \/ kept # {}
                   /\ \A i \in DOMAIN compact'.lines :
                        \/ /\ i = 1 /\ checkpoint # 0
                           /\ compact'.lines[i] = CheckpointEntry(limit, limit)
                        \/ \E j \in kept : compact'.lines[i] = file[j]
                   /\ \A j \in kept : \E i \in DOMAIN compact'.lines : compact'.lines[i] = file[j]
                   /\ checkpoint # 0 => 1 \in DOMAIN compact'.lines
                                        /\ compact'.lines[1] = CheckpointEntry(limit, limit)
  <1> DEFINE from == ReplayFrom(compact.index)
             kept == Replay(from, ReplayStart(compact.index, from), durable)
             order == Sorted(kept)
             limit == Limit(order, compact.index)
             body == [i \in DOMAIN order |-> file[order[i]]]
             head == IF checkpoint = 0 THEN <<>> ELSE <<CheckpointEntry(limit, limit)>>
             n == Cardinality(kept)
             lines == head \o body
  <1>0. /\ file \in Seq(Entries) /\ DOMAIN file = 1..Len(file) /\ Len(file) \in Nat
        /\ durable \in 0..Len(file) /\ TypeOK
        /\ \A i \in 1..Len(file) : file[i] \in Entries /\ file[i].seq \in Nat
    BY KnownFacts, EntriesAre
  <1>1. compact.index.lastSeq \in Nat
    BY <1>0, CompactionIs, IndexesAre
  <1>2. kept \subseteq 1..Len(file)
    BY <1>0 DEF Replay
  <1>3. IsFiniteSet(kept)
    <2>1. IsFiniteSet(1..Len(file))
      BY <1>0, FS_Interval
    <2> HIDE DEF kept
    <2>2. QED
      BY <1>2, <2>1, FS_Subset
  <1>4. kept \subseteq Int /\ \A i \in kept : file[i].seq \in Int
    <2>1. \A i \in 1..Len(file) : file[i].seq \in Int
      BY <1>0
    <2> HIDE DEF kept
    <2>2. QED
      BY <2>1, <1>2
  <1>5. /\ InOrder(order, kept)
        /\ compact' = IF checkpoint = 0 /\ kept = {} THEN NoCompaction
                      ELSE [compact EXCEPT !.phase = "closing", !.lines = lines]
    <2>1. InOrder(Sorted(kept), kept)
      BY <1>3, <1>4, SortedIsInOrder, Zenon
    <2>2. InOrder(order, kept)
      BY <2>1
    <2>3. QED
      BY <2>2 DEF CompactRead
  <1> HIDE DEF kept, order
  <1>6. /\ n \in Nat /\ DOMAIN order = 1..n
        /\ \A i \in 1..n : order[i] \in kept
        /\ \A j \in kept : \E i \in 1..n : order[i] = j
    BY <1>3, <1>4, <1>5, OrderIsFull
  <1>7. limit \in Int /\ (kept = {} => limit = compact.index.lastSeq)
    <2>1. CASE order = <<>>
      BY <1>1, <2>1 DEF Limit
    <2>2. CASE order # <<>>
      <3>1. n # 0
        <4>1. CASE n = 0
          <5>1. order \in [1..n -> kept]
            BY <1>5 DEF InOrder
          <5>2. order \in Seq(kept) /\ Len(order) = 0
            BY <4>1, <5>1, SeqDef
          <5>3. QED
            BY <2>2, <5>2, EmptySeq
        <4>2. QED
          BY <4>1
      <3>2. order[1] \in kept
        BY <1>6, <3>1
      <3>3. file[order[1]].seq \in Nat
        BY <1>0, <1>2, <3>2
      <3>4. limit = file[order[1]].seq - 1
        BY <2>2 DEF Limit
      <3>5. QED
        BY <3>2, <3>3, <3>4
    <2>3. QED
      BY <2>1, <2>2
  <1> HIDE DEF limit
  <1>8. /\ body \in Seq(Entries) /\ Len(body) = n
        /\ \A i \in 1..n : body[i] = file[order[i]]
    <2>1. \A i \in 1..n : file[order[i]] \in Entries
      BY <1>0, <1>2, <1>6
    <2>2. body \in [1..n -> Entries] /\ \A i \in 1..n : body[i] = file[order[i]]
      BY <1>6, <2>1
    <2> HIDE DEF body
    <2>3. body \in Seq(Entries)
      BY <1>6, <2>2, SeqDef
    <2>4. Len(body) \in Nat /\ DOMAIN body = 1..Len(body) /\ DOMAIN body = 1..n
      BY <2>2, <2>3, EntriesAre
    <2>5. Len(body) = n
      BY <1>6, <2>4
    <2>6. QED
      BY <2>2, <2>3, <2>5
  <1> HIDE DEF body, n
  <1>9. SUFFICES ASSUME compact' # NoCompaction
                 PROVE  /\ compact'.phase = "closing"
                        /\ checkpoint # 0 \/ kept # {}
                        /\ \A i \in DOMAIN compact'.lines :
                             \/ /\ i = 1 /\ checkpoint # 0
                                /\ compact'.lines[i] = CheckpointEntry(limit, limit)
                             \/ \E j \in kept : compact'.lines[i] = file[j]
                        /\ \A j \in kept : \E i \in DOMAIN compact'.lines : compact'.lines[i] = file[j]
                        /\ checkpoint # 0 => 1 \in DOMAIN compact'.lines
                                             /\ compact'.lines[1] = CheckpointEntry(limit, limit)
    BY <1>2, <1>7 DEF kept
  <1>10. compact' = [compact EXCEPT !.phase = "closing", !.lines = lines] /\ (checkpoint # 0 \/ kept # {})
    BY <1>5, <1>9
  <1> DEFINE e == CheckpointEntry(limit, limit)
  <1>11. compact'.phase = "closing" /\ compact'.lines = lines
    <2>1. compact \in Compactions
      BY <1>0 DEF TypeOK, Compactions
    <2> HIDE DEF lines
    <2>2. QED
      BY <1>10, <2>1 DEF Compactions
  <1>12. CASE checkpoint = 0
    <2>1. head = <<>>
      BY <1>12
    <2>2. lines = body
      BY <1>8, <2>1, ConcatEmptySeq
    <2>3. DOMAIN body = 1..n
      BY <1>8, EntriesAre
    <2> HIDE DEF lines, head
    <2>4. QED
      BY <1>6, <1>8, <1>10, <1>11, <1>12, <2>2, <2>3
  <1>13. CASE checkpoint # 0
    <2>1. head = <<e>>
      BY <1>13
    <2>2. e = CheckpointEntry(limit, limit)
      OBVIOUS
    <2> DEFINE One == {e} \union Entries
    <2> HIDE DEF e, head
    <2>3. head \in Seq(One) /\ Len(head) = 1 /\ head[1] = e
      <3>1. e \in One
        OBVIOUS
      <3> HIDE DEF One
      <3>2. QED
        BY <2>1, <3>1
    <2>4. body \in Seq(One)
      <3>1. body \in [1..n -> Entries]
        <4>1. DOMAIN body = 1..Len(body) /\ body \in [1..Len(body) -> Entries]
          BY <1>8, LenProperties
        <4>2. QED
          BY <1>8, <4>1
      <3>2. body \in [1..n -> One]
        BY <3>1
      <3> HIDE DEF One
      <3>3. QED
        BY <1>6, <3>2, SeqDef
    <2> HIDE DEF One
    <2>5. /\ lines \in Seq(One) /\ Len(lines) = 1 + n
          /\ \A i \in 1..(1 + n) : lines[i] = IF i <= 1 THEN head[i] ELSE body[i - 1]
      <3>1. /\ head \o body \in Seq(One)
            /\ Len(head \o body) = Len(head) + Len(body)
            /\ \A i \in 1..(Len(head) + Len(body)) :
                  (head \o body)[i] = IF i <= Len(head) THEN head[i] ELSE body[i - Len(head)]
        BY <2>3, <2>4, ConcatProperties
      <3>2. Len(head) = 1 /\ Len(body) = n
        BY <1>8, <2>3
      <3>3. lines = head \o body
        OBVIOUS
      <3> HIDE DEF lines
      <3>4. QED
        BY <3>1, <3>2, <3>3
    <2> HIDE DEF lines
    <2>6. DOMAIN lines = 1..(1 + n)
      BY <2>5, LenProperties
    <2>7. 1 \in DOMAIN lines /\ lines[1] = e
      BY <1>6, <2>3, <2>5, <2>6
    <2>8. ASSUME NEW i \in 1..n PROVE 1 + i \in DOMAIN lines /\ lines[1 + i] = file[order[i]]
      BY <1>6, <1>8, <2>5, <2>6
    <2>9. ASSUME NEW i \in DOMAIN lines, i # 1 PROVE \E j \in kept : lines[i] = file[j]
      <3>1. i - 1 \in 1..n /\ 1 + (i - 1) = i
        BY <1>6, <2>6, <2>9
      <3>2. lines[i] = file[order[i - 1]] /\ order[i - 1] \in kept
        BY <1>6, <2>8, <3>1
      <3>3. QED
        BY <3>2
    <2>10. ASSUME NEW j \in kept PROVE \E i \in DOMAIN lines : lines[i] = file[j]
      <3>1. PICK k \in 1..n : order[k] = j
        BY <1>6
      <3>2. QED
        BY <2>8, <3>1
    <2>11. QED
      BY <1>10, <1>11, <1>13, <2>2, <2>7, <2>9, <2>10
  <1>14. QED
    BY <1>12, <1>13

LEMMA CompactReadFits ==
    ASSUME Known, CompactRead
    PROVE  Fits'
  <1> DEFINE lines == compact'.lines
  <1>0. /\ TypeOK /\ Held /\ file \in Seq(Entries) /\ Increasing(file)
        /\ DOMAIN file = 1..Len(file) /\ Len(file) \in Nat
        /\ Top(file) \in Nat /\ \A i \in 1..Len(file) : file[i].seq <= Top(file)
        /\ FileFits /\ CompactionFits /\ \A k \in Messages : CallFits(k)
        /\ \A i \in 1..Len(file) : file[i].seq \in Nat /\ file[i].upTo \in Nat
    BY KnownFacts
  <1>1. /\ file' = file /\ durable' = durable /\ op' = op /\ summarised' = summarised
        /\ session' = session /\ indexFile' = indexFile
        /\ compact.phase = "reading" /\ durable = Len(file)
    BY DEF CompactRead, Known, disk, history
  <1>2. /\ compact'.phase \in {"idle", "closing"} /\ lines \in Seq(Entries) /\ Increasing(lines)
    <2>1. Readable
      <3>1. file \in Seq(Lines)
        <4>1. \A i \in 1..Len(file) : file[i] \in Lines
          <5>1. \A i \in 1..Len(file) : file[i] \in Entries
            BY <1>0, EntriesAre
          <5>2. Entries \subseteq Lines
            BY DEF Entries, Lines
          <5>3. QED
            BY <5>1, <5>2
        <4>2. file \in [1..Len(file) -> Lines]
          <5>1. file \in [1..Len(file) -> Entries]
            BY <1>0, LenProperties
          <5>2. QED
            BY <4>1, <5>1
        <4>3. QED
          BY <1>0, <4>2, SeqDef
      <3>2. compact \in Compactions /\ compact.index.lastSeq \in Nat
        BY <1>0, CompactionIs, IndexesAre
      <3>3. compact = [phase |-> compact.phase, index |-> compact.index,
                       lines |-> compact.lines]
        BY <3>2 DEF Compactions
      <3>4. durable \in 0..Len(file)
        BY KnownFacts
      <3>5. QED
        BY <1>0, <3>1, <3>2, <3>3, <3>4 DEF Readable
    <2>2. compact'.phase \in {"idle", "closing"} /\ Increasing(lines)
      BY <2>1, CompactReadKeeps
    <2>3. TypeOK'
      BY <1>0, CompactReadTyped
    <2>4. lines \in Seq(Entries)
      BY <2>3 DEF TypeOK
    <2>5. QED
      BY <2>2, <2>4
  <1>3. FileFits' /\ Held'
    BY <1>0, <1>1, <1>2 DEF FileFits, Held
  <1>4. \A k \in Messages : CallFits(k)'
    BY <1>0, <1>1 DEF CallFits
  <1>4a. At(compact.index, file) /\ compact.index \in Indexes
    BY <1>0, <1>1, CompactionIs DEF CompactionFits
  <1>5. CASE compact' = NoCompaction
    <2>1. CompactionFits'
      BY <1>5 DEF CompactionFits, NoCompaction, Increasing
    <2>2. QED
      BY <1>3, <1>4, <2>1 DEF Fits
  <1>6. CASE compact' # NoCompaction
    <2> DEFINE from == ReplayFrom(compact.index)
               start == ReplayStart(compact.index, from)
    <2>1. PICK kept \in SUBSET (1..Len(file)), limit \in Int :
             /\ kept = Replay(from, start, durable)
             /\ kept = {} => limit = compact.index.lastSeq
             /\ checkpoint # 0 \/ kept # {}
             /\ \A i \in DOMAIN lines :
                  \/ i = 1 /\ checkpoint # 0 /\ lines[i] = CheckpointEntry(limit, limit)
                  \/ \E j \in kept : lines[i] = file[j]
             /\ \A j \in kept : \E i \in DOMAIN lines : lines[i] = file[j]
             /\ checkpoint # 0 => 1 \in DOMAIN lines
                                  /\ lines[1] = CheckpointEntry(limit, limit)
      BY <1>6, CompactReadIs
    <2> HIDE DEF lines
    <2>2. /\ from \in Nat /\ from >= 1 /\ start \in Nat
          /\ ReadsFrom(from, start, file, summarised)
          /\ compact.index.lastSeq \in Nat /\ from <= compact.index.lastSeq + 1
      <3>1. from \in Nat /\ from >= 1 /\ start \in Nat
        BY <1>4a, ReplayIsTyped
      <3>2. compact.index.lastSeq \in Nat /\ from <= compact.index.lastSeq + 1
        BY <1>0, <1>4a, AtIsBelow
      <3>3. Marked(compact.index, file) /\ Numbered(file) /\ Summaries(file, summarised)
        BY <1>0, <1>4a DEF At, FileFits
      <3>4. ReadsFrom(from, start, file, summarised)
        BY <1>0, <1>4a, <3>3, ReplayIsSound
      <3>5. QED
        BY <3>1, <3>2, <3>4
    <2> HIDE DEF from, start
    <2>3. \A j \in 1..Len(file) : file[j].seq >= from => j \in kept
      <3> SUFFICES ASSUME NEW j \in 1..Len(file), file[j].seq >= from PROVE j \in kept
        OBVIOUS
      <3>1. j > start
        BY <1>0, <2>2 DEF ReadsFrom
      <3>2. QED
        BY <1>1, <2>1, <3>1 DEF Replay
    <2>4. CheckpointEntry(limit, limit) = [msg |-> 0, seq |-> limit, upTo |-> limit]
      BY DEF CheckpointEntry
    <2>5. /\ DOMAIN lines = 1..Len(lines) /\ Len(lines) \in Nat
          /\ \A i \in 1..Len(lines) : lines[i].seq \in Nat
          /\ Top(lines) \in Nat /\ \A i \in 1..Len(lines) : lines[i].seq <= Top(lines)
      <3>1. /\ DOMAIN lines = 1..Len(lines) /\ Len(lines) \in Nat
            /\ \A i \in 1..Len(lines) : lines[i].seq \in Nat
        BY <1>2, EntriesAre DEF lines
      <3>2. Top(lines) \in Nat /\ \A i \in DOMAIN lines : lines[i].seq <= Top(lines)
        BY <1>2, TopIsLast DEF lines
      <3>3. QED
        BY <3>1, <3>2
    <2>6. \A i \in DOMAIN lines : lines[i].msg # 0 => \E j \in DOMAIN file : file[j] = lines[i]
      BY <1>0, <2>1, <2>4
    <2>7. SameTalk(lines)
      <3> SUFFICES ASSUME NEW j \in DOMAIN file, file[j].msg \notin summarised \union {0}
                   PROVE  \E i \in DOMAIN lines : lines[i] = file[j]
        BY <2>6 DEF SameTalk
      <3>1. j \in 1..Len(file) /\ file[j].seq \in Nat
        BY <1>0
      <3>2. ~(file[j].seq <= from - 1)
        BY <2>2 DEF ReadsFrom, Covers
      <3>3. file[j].seq >= from
        BY <2>2, <3>1, <3>2
      <3>4. QED
        BY <2>1, <2>3, <3>1, <3>3
    <2>8. Numbered(lines)
      BY <1>0, <2>6 DEF Numbered, FileFits
    <2>9. Summaries(lines, summarised)
      <3> SUFFICES ASSUME NEW c \in DOMAIN lines, lines[c].msg = 0
                   PROVE  /\ lines[c].upTo <= lines[c].seq
                          /\ Covers(lines[c].upTo, lines, summarised)
        BY DEF Summaries
      <3>1. CASE c = 1 /\ checkpoint # 0 /\ lines[c] = CheckpointEntry(limit, limit)
        <4>1. lines[c].upTo = limit /\ lines[c].seq = limit
          BY <2>4, <3>1
        <4>2. ASSUME NEW i \in DOMAIN lines, lines[i].msg # 0 PROVE ~(lines[i].seq <= limit)
          <5>1. i # 1
            BY <3>1, <4>2
          <5>2. 1 < i /\ 1 \in DOMAIN lines
            BY <2>5, <5>1
          <5>3. lines[1].seq < lines[i].seq
            BY <1>2, <5>2 DEF Increasing, lines
          <5>4. QED
            BY <2>5, <3>1, <4>1, <5>3
        <4>3. Covers(limit, lines, summarised)
          BY <4>2 DEF Covers
        <4>4. QED
          BY <4>1, <4>3
      <3>2. CASE \E j \in kept : lines[c] = file[j]
        <4>1. PICK j \in kept : lines[c] = file[j]
          BY <3>2
        <4>2. j \in DOMAIN file /\ file[j].msg = 0
          BY <1>0, <4>1
        <4>3. file[j].upTo <= file[j].seq /\ Covers(file[j].upTo, file, summarised)
          BY <1>0, <4>2 DEF FileFits, Summaries
        <4>4. Covers(file[j].upTo, lines, summarised)
          <5> SUFFICES ASSUME NEW i \in DOMAIN lines, lines[i].msg # 0,
                              lines[i].seq <= file[j].upTo
                       PROVE  lines[i].msg \in summarised
            BY DEF Covers
          <5>1. PICK k \in DOMAIN file : file[k] = lines[i]
            BY <2>6
          <5>2. QED
            BY <4>3, <5>1 DEF Covers
        <4>5. QED
          BY <4>1, <4>3, <4>4
      <3>3. QED
        BY <2>1, <3>1, <3>2
    <2>10. Top(file) <= Top(lines)
      <3>1. CASE Top(file) >= from
        <4>1. file # <<>>
          BY <2>2, <3>1 DEF Top
        <4>2. Len(file) \in 1..Len(file) /\ Top(file) = file[Len(file)].seq
          BY <1>0, <4>1, TopIsLast
        <4>3. Len(file) \in kept
          BY <2>3, <3>1, <4>2
        <4>4. PICK i \in DOMAIN lines : lines[i] = file[Len(file)]
          BY <2>1, <4>3
        <4>5. QED
          BY <2>5, <4>2, <4>4
      <3>2. CASE ~(Top(file) >= from)
        <4>1. kept = {}
          <5>1. \A j \in kept : j \in 1..Len(file) /\ file[j].seq >= from
            BY <2>1 DEF Replay
          <5>2. ASSUME NEW j \in kept PROVE FALSE
            BY <1>0, <2>2, <3>2, <5>1
          <5>3. QED
            BY <5>2
        <4>2. limit = compact.index.lastSeq /\ 1 \in DOMAIN lines
              /\ lines[1] = CheckpointEntry(limit, limit)
          BY <2>1, <4>1
        <4>3. Top(file) <= compact.index.lastSeq
          BY <1>0, <2>2, <3>2
        <4>4. Top(file) <= lines[1].seq
          BY <2>4, <4>2, <4>3
        <4>4a. lines[1].seq <= Top(lines) /\ lines[1].seq \in Nat
          BY <2>5, <4>2
        <4>5. QED
          BY <1>0, <2>5, <4>4, <4>4a
      <3>3. QED
        BY <3>1, <3>2
    <2>11. compact'.phase = "closing" /\ compact'.index = compact.index
      <3>1. \E next : compact' = [compact EXCEPT !.phase = "closing", !.lines = next]
        BY <1>6 DEF CompactRead
      <3>2. compact \in Compactions
        BY <1>0, CompactionIs
      <3>3. QED
        BY <3>1, <3>2 DEF Compactions
    <2>11a. CompactionFits'
      BY <1>1, <1>2, <1>4a, <2>7, <2>8, <2>9, <2>10, <2>11 DEF CompactionFits, SameTalk, lines
    <2>12. QED
      BY <1>3, <1>4, <2>11a DEF Fits
  <1>7. QED
    BY <1>5, <1>6

LEMMA CompactClosedFits ==
    ASSUME Known, CompactClosed
    PROVE  Fits'
  <1>0. /\ TypeOK /\ Held /\ FileFits /\ CompactionFits /\ \A k \in Messages : CallFits(k)
        /\ durable \in 0..Len(file) /\ Len(file) \in Nat
    BY KnownFacts
  <1>1. /\ file' = file /\ op' = op /\ summarised' = summarised /\ session' = session
        /\ compact.phase = "closing" /\ compact' = [compact EXCEPT !.phase = "writing"]
        /\ durable' = Len(file) /\ indexFile' = compact.index
    BY DEF CompactClosed, CompactTo, history
  <1>2. compact'.phase = "writing" /\ compact'.lines = compact.lines
    BY <1>0, <1>1, CompactionIs
  <1>3. FileFits'
    BY <1>0, <1>1, <1>2 DEF FileFits, CompactionFits
  <1>4. \A x : x \in 1..durable => x \in 1..durable'
    BY <1>0, <1>1
  <1>5. Held'
    BY <1>0, <1>1, <1>2, <1>4 DEF Held
  <1>6. \A k \in Messages : CallFits(k)'
    BY <1>0, <1>1 DEF CallFits
  <1>7. CompactionFits'
    BY <1>0, <1>1, <1>2 DEF CompactionFits, SameTalk
  <1>8. QED
    BY <1>3, <1>5, <1>6, <1>7 DEF Fits

LEMMA CompactWriteFits ==
    ASSUME Known, CompactWrite
    PROVE  Fits'
  <1> DEFINE lines == compact.lines
  <1>0. /\ TypeOK /\ Held /\ Top(file) \in Nat
        /\ FileFits /\ CompactionFits /\ \A k \in Messages : CallFits(k)
        /\ \A k \in Messages : op[k].upTo \in Nat
    BY KnownFacts DEF CallsOf
  <1>1. /\ file' = lines /\ durable' = Len(lines) /\ op' = op /\ summarised' = summarised
        /\ session' = session
        /\ compact.phase = "writing" /\ compact' = [compact EXCEPT !.phase = "written"]
        /\ \A k \in Messages : op[k].pc \notin {"opening", "reading"}
    BY DEF CompactWrite, CompactTo, history, Known
  <1>2. compact'.phase = "written" /\ compact'.lines = lines
    BY <1>0, <1>1, CompactionIs
  <1>3. /\ Numbered(lines) /\ Summaries(lines, summarised)
        /\ Top(file) <= Top(lines) /\ SameTalk(lines) /\ Increasing(lines)
    BY <1>0, <1>1 DEF CompactionFits
  <1>4. Top(lines) \in Nat
    <2>1. lines \in Seq(Entries)
      BY <1>0, CompactionIs
    <2> HIDE DEF lines
    <2>2. QED
      BY <1>3, <2>1, TopIsLast
  <1> HIDE DEF lines
  <1>5. FileFits'
    BY <1>0, <1>1, <1>2, <1>3 DEF FileFits
  <1>6. ASSUME NEW k \in Messages PROVE CallFits(k)'
    <2>1. ASSUME op[k].pc \in {"waiting", "inside"}
          PROVE  /\ op[k].upTo <= Top(lines)
                 /\ Covers(op[k].upTo, lines, op[k].picked \union summarised)
      <3>1. op[k].upTo <= Top(file) /\ Covers(op[k].upTo, file, op[k].picked \union summarised)
        BY <1>0, <2>1 DEF CallFits
      <3>2. op[k].upTo <= Top(lines)
        BY <1>0, <1>3, <1>4, <3>1
      <3>3. Covers(op[k].upTo, lines, op[k].picked \union summarised)
        BY <1>3, <3>1 DEF Covers, SameTalk
      <3>4. QED
        BY <3>2, <3>3
    <2>2. QED
      BY <1>1, <2>1 DEF CallFits
  <1>7. Held'
    BY <1>0, <1>1, <1>2 DEF Held
  <1>8. CompactionFits'
    BY <1>2, <1>3 DEF CompactionFits
  <1>9. QED
    BY <1>5, <1>6, <1>7, <1>8 DEF Fits

LEMMA CompactUnlinkFits ==
    ASSUME Known, CompactUnlink
    PROVE  Fits'
  <1>0. TypeOK /\ Held /\ FileFits /\ CompactionFits /\ \A k \in Messages : CallFits(k)
    BY KnownFacts
  <1>1. /\ file' = file /\ durable' = durable /\ op' = op /\ summarised' = summarised
        /\ session' = session /\ indexFile' = NoIndex /\ compact.phase = "written"
        /\ compact' = [compact EXCEPT !.phase = "rebuilding"]
    BY DEF CompactUnlink, CompactTo, history
  <1>2. compact'.phase = "rebuilding" /\ compact'.lines = compact.lines
    BY <1>0, <1>1, CompactionIs
  <1>3. FileFits' /\ CompactionFits' /\ Held'
    BY <1>0, <1>1, <1>2 DEF FileFits, CompactionFits, Held
  <1>4. \A k \in Messages : CallFits(k)'
    BY <1>0, <1>1 DEF CallFits
  <1>5. QED
    BY <1>3, <1>4 DEF Fits

LEMMA CompactDoneFits ==
    ASSUME Known, CompactDone
    PROVE  Fits'
  <1> DEFINE index == Rebuilt(Len(file))
  <1>0. /\ Held /\ FileFits /\ (\A k \in Messages : CallFits(k))
        /\ file \in Seq(Entries) /\ Increasing(file) /\ Len(file) \in Nat
    BY KnownFacts
  <1>1. /\ file' = file /\ durable' = durable /\ op' = op /\ summarised' = summarised
        /\ compact' = NoCompaction /\ compact.phase = "rebuilding"
        /\ durable = Len(file) /\ indexFile = NoIndex
        /\ \A k \in Messages : op[k].pc \notin {"opening", "reading", "inside"}
    BY <1>0 DEF CompactDone, history, Held
  <1>2. session' = [status |-> "open", index |-> index] /\ indexFile' = index
    BY <1>1 DEF CompactDone
  <1>3. index \in Indexes /\ At(index, file)
    <2>1. Len(file) \in 0..Len(file) /\ (Len(file) = 0 => file = <<>>)
      BY <1>0, EmptySeq
    <2>2. QED
      BY <1>0, <2>1, RebuiltIs, RebuiltIsAt
  <1> HIDE DEF index
  <1>4. session' # NoSession /\ session'.status = "open" /\ session'.index = index
    BY <1>2 DEF NoSession
  <1>5. compact'.phase = "idle" /\ compact'.lines = <<>>
    BY <1>1 DEF NoCompaction
  <1>6. FileFits' /\ CompactionFits'
    BY <1>0, <1>1, <1>2, <1>3, <1>4, <1>5 DEF FileFits, CompactionFits, Increasing
  <1>7. Held'
    BY <1>1, <1>4, <1>5 DEF Held
  <1>8. \A k \in Messages : CallFits(k)'
    BY <1>0, <1>1 DEF CallFits
  <1>9. QED
    BY <1>6, <1>7, <1>8 DEF Fits

(* A crash that leaves no index of lines that are gone.                    *)
LEMMA CrashFits ==
    ASSUME Known, Windows = {}, Crash
    PROVE  Fits' /\ Increasing(file')
  <1>0. /\ file \in Seq(Entries) /\ Increasing(file) /\ DOMAIN file = 1..Len(file)
        /\ Len(file) \in Nat /\ durable \in 0..Len(file)
        /\ Held /\ FileFits
        /\ indexFile \in Indexes \union {NoIndex}
    BY KnownFacts
  <1>1. PICK n \in 0..Len(file) : file' = SubSeq(file, 1, n) /\ durable' = n
    BY <1>0 DEF Crash
  <1>2. /\ session' = NoSession /\ summarised' = summarised /\ compact' = NoCompaction
        /\ compact.phase # "written"
        /\ indexFile' \in {indexFile, NoIndex}
        /\ indexFile' # NoIndex => ~(indexFile.lastOffset > n)
    BY <1>1 DEF Crash, history
  <1>3. /\ file' \in Seq(Entries) /\ Len(file') = n /\ DOMAIN file' = 1..n /\ n \in Nat
        /\ \A i \in 1..n : i \in 1..Len(file) /\ file'[i] = file[i]
    BY <1>0, <1>1
  <1>4. Increasing(file') /\ Numbered(file') /\ Summaries(file', summarised)
    <2>1. \A i \in DOMAIN file' : i \in DOMAIN file /\ file'[i] = file[i]
      BY <1>0, <1>3
    <2>2. Increasing(file') /\ Numbered(file')
      BY <1>0, <2>1 DEF Increasing, Numbered, FileFits
    <2>3. Summaries(file', summarised)
      BY <1>0, <2>1 DEF Summaries, Covers, FileFits
    <2>4. QED
      BY <2>2, <2>3
  <1>5. indexFile' # NoIndex => At(indexFile', file')
    <2> SUFFICES ASSUME indexFile' # NoIndex
                 PROVE  At(indexFile, file')
      BY <1>2
    <2>1. indexFile \in Indexes /\ At(indexFile, file)
      BY <1>0, <1>2 DEF FileFits
    <2>2. indexFile.lastOffset \in Nat /\ indexFile.lastOffset <= Len(file')
      BY <1>2, <1>3, <2>1, IndexesAre
    <2>3. \A i \in DOMAIN file : i <= indexFile.lastOffset => file'[i] = file[i]
      BY <1>0, <1>3, <2>2
    <2>4. \A i \in DOMAIN file' : i > indexFile.lastOffset => file'[i].seq > indexFile.lastSeq
      BY <1>0, <1>3, <2>1 DEF At
    <2>5. QED
      BY <1>0, <1>3, <2>1, <2>2, <2>3, <2>4, AtGoesOn
  <1>6. compact'.phase = "idle" /\ compact'.lines = <<>>
    BY <1>2 DEF NoCompaction
  <1>7. \A m \in Messages : op'[m].pc \in {"none", "done"}
    BY DEF Crash, Call
  <1>8. FileFits' /\ CompactionFits' /\ \A m \in Messages : CallFits(m)'
    BY <1>2, <1>4, <1>5, <1>6, <1>7 DEF FileFits, CompactionFits, CallFits, Increasing
  <1>9. Held'
    BY <1>1, <1>2, <1>3, <1>6, <1>7 DEF Held
  <1>10. QED
    BY <1>4, <1>8, <1>9 DEF Fits

-----------------------------------------------------------------------------
(* The steps together                                                      *)

LEMMA FitsInit == Init => Fits /\ Increasing(file)
  <1> SUFFICES ASSUME Init PROVE Fits /\ Increasing(file)
    OBVIOUS
  <1>1. /\ file = <<>> /\ DOMAIN file = {} /\ Len(file) = 0 /\ durable = 0
        /\ compact.phase = "idle" /\ compact.lines = <<>> /\ indexFile = NoIndex
        /\ session = NoSession
        /\ \A m \in Messages : op[m].pc = "none"
    BY DEF Init, NoCompaction, Call
  <1>2. Held /\ FileFits
    BY <1>1 DEF Held, FileFits, Numbered, Summaries
  <1>3. QED
    BY <1>1, <1>2 DEF Fits, CallFits, CompactionFits, Increasing

LEMMA FitsStep ==
    ASSUME Known, [Next]_vars, TypeOK', Increasing(file'), Crash => Windows = {}
    PROVE  Fits'
  <1>1. CASE UNCHANGED vars
    <2>1. Fits
      BY DEF Known
    <2>2. QED
      BY <1>1, <2>1 DEF Fits, Held, FileFits, CallFits, CompactionFits, SameTalk,
                        vars, disk, history
  <1>2. ASSUME NEW m \in Messages,
               \/ StartUser(m) \/ StartOther(m) \/ Opened(m)
               \/ ReadSince(m) \/ Enter(m) \/ OpenedInside(m)
        PROVE  Fits'
    BY <1>2, StartUserFits, OpenedFits, ReadSinceFits, EnterFits, OpenedInsideFits
  <1>3. CASE WriteOut \/ Close \/ Flushed \/ Ended
    BY <1>3, ClosingFits
  <1>4. CASE \/ CompactBegin \/ CompactRead \/ CompactClosed \/ CompactWrite
             \/ CompactUnlink \/ CompactDone
    BY <1>4, CompactBeginFits, CompactReadFits, CompactClosedFits, CompactWriteFits,
       CompactUnlinkFits, CompactDoneFits
  <1>5. CASE Crash
    BY <1>5, CrashFits
  <1>6. QED
    BY <1>1, <1>2, <1>3, <1>4, <1>5 DEF Next

(* A message that was recorded stays until it is summed up.                *)
Kept == \A m \in acked : m \in summarised \/ \E i \in DOMAIN file : file[i].msg = m

LEMMA RecordKeepsIt ==
    ASSUME Known, Kept, NEW m \in Messages, NEW transcript, NEW saved,
           transcript.status \in {"open", "flushing", "ending"},
           NumberOf(transcript.index) \in Nat, op[m].upTo \in Nat,
           Record(m, transcript, saved)
    PROVE  Kept'
  <1> DEFINE applies == Applies(op[m])
             first == CheckpointEntry(NumberOf(transcript.index), op[m].upTo)
             index1 == IF applies THEN Indexed(transcript.index, first) ELSE transcript.index
             second == Entry(m, NumberOf(index1))
             before == IF applies THEN Append(file, first) ELSE file
  <1>0. file \in Seq(Entries) /\ Len(file) \in Nat /\ DOMAIN file = 1..Len(file)
    BY KnownFacts
  <1>1. /\ file' = Append(before, second)
        /\ summarised \subseteq summarised' /\ acked' = acked \union {m}
    BY DEF Record, Known
  <1>2. second.msg = m
    BY DEF Entry
  <1>3. first \in Entries
    BY RecordsAssumption DEF CheckpointEntry, Entries
  <1> HIDE DEF first, second
  <1>4. /\ before \in Seq(Entries) /\ Len(before) \in Nat
        /\ \A i \in DOMAIN file : i \in 1..Len(before) /\ before[i] = file[i]
    <2>1. CASE applies
      <3>1. before = Append(file, first)
        BY <2>1
      <3>2. /\ Append(file, first) \in Seq(Entries) /\ Len(Append(file, first)) = Len(file) + 1
            /\ \A i \in 1..Len(file) : Append(file, first)[i] = file[i]
        BY <1>0, <1>3
      <3> HIDE DEF before
      <3>3. QED
        BY <1>0, <3>1, <3>2
    <2>2. CASE ~applies
      <3>1. before = file
        BY <2>2
      <3> HIDE DEF before
      <3>2. QED
        BY <1>0, <3>1
    <2>3. QED
      BY <2>1, <2>2
  <1> HIDE DEF before
  <1>5. /\ DOMAIN file' = 1..(Len(before) + 1)
        /\ \A i \in 1..Len(before) : file'[i] = before[i]
        /\ file'[Len(before) + 1] = second
    <2> DEFINE All == Entries \union {second}
    <2>1. before \in Seq(All)
      <3>1. before \in [1..Len(before) -> Entries]
        BY <1>4, LenProperties
      <3>2. before \in [1..Len(before) -> All]
        BY <3>1
      <3> HIDE DEF All
      <3>3. QED
        BY <1>4, <3>2, SeqDef
    <2>2. second \in All
      OBVIOUS
    <2> HIDE DEF All
    <2>3. /\ file' \in Seq(All) /\ Len(file') = Len(before) + 1
          /\ \A i \in 1..Len(before) : file'[i] = before[i]
          /\ file'[Len(before) + 1] = second
      BY <1>1, <1>4, <2>1, <2>2
    <2>4. DOMAIN file' = 1..Len(file')
      BY <2>3, LenProperties
    <2>5. QED
      BY <2>3, <2>4
  <1>6. ASSUME NEW k \in acked'
        PROVE  k \in summarised' \/ \E i \in DOMAIN file' : file'[i].msg = k
    <2>1. CASE k = m
      <3>1. Len(before) + 1 \in DOMAIN file'
        BY <1>4, <1>5
      <3>2. QED
        BY <1>2, <1>5, <2>1, <3>1
    <2>2. CASE k \in acked
      <3>1. CASE k \in summarised
        BY <1>1, <3>1
      <3>2. CASE \E i \in DOMAIN file : file[i].msg = k
        <4>1. PICK i \in DOMAIN file : file[i].msg = k
          BY <3>2
        <4>2. i \in DOMAIN file' /\ file'[i] = file[i]
          BY <1>4, <1>5
        <4>3. QED
          BY <4>1, <4>2
      <3>3. QED
        BY <2>2, <3>1, <3>2 DEF Kept
    <2>3. QED
      BY <1>1, <2>1, <2>2
  <1>7. QED
    BY <1>6 DEF Kept

LEMMA KeptStep ==
    ASSUME Known, Kept, [Next]_vars, ~Crash
    PROVE  Kept'
  <1>0. /\ TypeOK /\ Held /\ CompactionFits /\ FileFits
        /\ \A m \in Messages : op[m].upTo \in Nat
    BY KnownFacts DEF CallsOf
  <1>1. ASSUME file' = file, summarised' = summarised, acked' = acked PROVE Kept'
    BY <1>1 DEF Kept
  <1>2. CASE UNCHANGED vars
    BY <1>1, <1>2 DEF vars, disk, history
  <1>3. ASSUME NEW m \in Messages, Enter(m) PROVE Kept'
    <2>1. CASE session # NoSession /\ Record(m, session, indexFile)
      <3>1. /\ session.status \in {"open", "flushing", "ending"}
            /\ NumberOf(session.index) \in Nat
        <4>1. session.index \in Indexes
          BY <1>0, <2>1 DEF TypeOK
        <4>2. QED
          BY <1>0, <2>1, <4>1, IndexesAre DEF Held, NumberOf
      <3>2. QED
        BY <1>0, <2>1, <3>1, RecordKeepsIt
    <2>2. CASE Record(m, [status |-> "open", index |-> IndexAtOpen], indexFile)
      <3> DEFINE new == [status |-> "open", index |-> IndexAtOpen]
      <3>1. new.status = "open" /\ NumberOf(new.index) \in Nat
        <4>1. IndexAtOpen \in Indexes
          BY KnownFacts
        <4>2. QED
          BY <4>1, IndexesAre DEF NumberOf
      <3>2. Record(m, new, indexFile)
        BY <2>2
      <3> HIDE DEF new
      <3>3. QED
        BY <1>0, <3>1, <3>2, RecordKeepsIt
    <2>3. CASE UNCHANGED <<disk, session, checkpoint, compact, history, bounds>>
      BY <1>1, <2>3 DEF disk, history
    <2>4. QED
      BY <1>3, <2>1, <2>2, <2>3 DEF Enter
  <1>4. ASSUME NEW m \in Messages, OpenedInside(m) PROVE Kept'
    <2>1. PICK n \in op[m].seen..durable :
             Record(m, [status |-> "open", index |-> Rebuilt(n)], Rebuilt(n))
      BY <1>4 DEF OpenedInside
    <2> DEFINE new == [status |-> "open", index |-> Rebuilt(n)]
    <2>2. new.status = "open" /\ NumberOf(new.index) \in Nat
      <3>1. Rebuilt(n) \in Indexes
        BY <1>0, OpensTyped
      <3>2. QED
        BY <3>1, IndexesAre DEF NumberOf
    <2>3. Record(m, new, Rebuilt(n))
      BY <2>1
    <2> HIDE DEF new
    <2>4. QED
      BY <1>0, <2>2, <2>3, RecordKeepsIt
  <1>5. CASE CompactWrite
    <2>1. /\ file' = compact.lines /\ summarised' = summarised /\ acked' = acked
          /\ SameTalk(compact.lines)
      BY <1>0, <1>5 DEF CompactWrite, history, CompactionFits
    <2> SUFFICES ASSUME NEW m \in acked, m \notin summarised
                 PROVE  \E i \in DOMAIN compact.lines : compact.lines[i].msg = m
      BY <2>1 DEF Kept
    <2>2. PICK j \in DOMAIN file : file[j].msg = m
      BY DEF Kept
    <2>3. m # 0
      BY <1>0 DEF TypeOK, Messages
    <2>4. QED
      BY <2>1, <2>2, <2>3 DEF SameTalk
  <1>6. ASSUME NEW m \in Messages, StartUser(m) \/ StartOther(m) \/ Opened(m) \/ ReadSince(m)
        PROVE  Kept'
    BY <1>1, <1>6 DEF StartUser, StartOther, Opened, ReadSince, disk, history
  <1>7. CASE \/ WriteOut \/ Close \/ Flushed \/ Ended \/ CompactBegin \/ CompactRead
             \/ CompactClosed \/ CompactUnlink \/ CompactDone
    BY <1>1, <1>7 DEF WriteOut, Close, Flushed, Ended, CompactBegin, CompactRead,
                      CompactClosed, CompactUnlink, CompactDone, disk, history
  <1>8. QED
    BY <1>2, <1>3, <1>4, <1>5, <1>6, <1>7 DEF Next

(* Whatever the next process or call reads through, all of it is read.     *)
ReadsWell == Known => NothingHidden

LEMMA ReadsNow == ReadsWell
  <1> SUFFICES ASSUME Known, compact.phase \in {"idle", "reading", "closing"}
               PROVE  NothingHidden
    BY DEF ReadsWell, NothingHidden
  <1> DEFINE index == CASE session # NoSession -> session.index
                        [] session = NoSession /\ MustRebuild -> Rebuilt(durable)
                        [] OTHER -> IndexAtOpen
             from == ReplayFrom(index)
             start == ReplayStart(index, from)
  <1>0. /\ file \in Seq(Entries) /\ Increasing(file) /\ DOMAIN file = 1..Len(file)
        /\ Len(file) \in Nat /\ durable \in 0..Len(file) /\ TypeOK /\ Held /\ FileFits
    BY KnownFacts
  <1>1. index \in Indexes /\ At(index, file)
    <2>1. CASE session # NoSession
      BY <1>0, <2>1 DEF TypeOK, FileFits
    <2>2. CASE session = NoSession /\ MustRebuild
      <3>1. durable = Len(file) /\ file # <<>> /\ Len(file) # 0
        BY <1>0, <2>2, EmptySeq DEF Held, MustRebuild
      <3>2. Rebuilt(durable) \in Indexes /\ At(Rebuilt(durable), file)
        BY <1>0, <3>1, RebuiltIs, RebuiltIsAt
      <3>3. QED
        BY <2>2, <3>2
    <2>3. CASE session = NoSession /\ ~MustRebuild
      BY <2>3, OpenIsAt
    <2>4. QED
      BY <2>1, <2>2, <2>3
  <1> HIDE DEF index
  <1>2. ReadsFrom(from, start, file, summarised) /\ from \in Nat /\ start \in Nat
    BY <1>0, <1>1, ReplayIsSound, ReplayIsTyped DEF At, FileFits
  <1> HIDE DEF from, start
  <1>3. ASSUME NEW i \in DOMAIN file, file[i].msg \notin summarised \union {0}
        PROVE  i \in Replay(from, start, Len(file))
    <2>1. file[i].seq >= from /\ i > start
      BY <1>0, <1>2, <1>3, ReadsTheRest
    <2>2. QED
      BY <1>0, <2>1 DEF Replay
  <1>4. QED
    BY <1>3 DEF NothingHidden, from, start, index

LEMMA ReadsNext == ReadsWell'
  BY ReadsNow, PTL

-----------------------------------------------------------------------------
(* Theorems                                                                *)

KeepInv == crashes = 0 => Fits /\ Kept

LEMMA KnownUntilCrash ==
    ASSUME Windows \subseteq {"torn", "ahead"}, TypeOK, GrowInv, KeepInv, crashes = 0
    PROVE  Known
  BY DEF Known, GrowInv, Numbers, KeepInv

LEMMA KeepInit == Init => KeepInv
  <1> SUFFICES ASSUME Init PROVE Fits /\ Kept
    BY DEF KeepInv
  <1>1. Kept
    BY DEF Init, Kept
  <1>2. QED
    BY <1>1, FitsInit

LEMMA KeepStep ==
    ASSUME Windows \subseteq {"torn", "ahead"}
    PROVE  TypeOK /\ GrowInv /\ KeepInv /\ TypeOK' /\ GrowInv' /\ [Next]_vars => KeepInv'
  <1> SUFFICES ASSUME TypeOK, GrowInv, KeepInv, TypeOK', GrowInv', [Next]_vars, crashes' = 0
               PROVE  Fits' /\ Kept'
    BY DEF KeepInv
  <1>1. ~Crash
    BY DEF Crash, TypeOK
  <1>2. crashes = 0
    BY <1>1 DEF Next, StartUser, StartOther, Opened, ReadSince, Enter, OpenedInside, Record,
                WriteOut, Close, Flushed, Ended, CompactBegin, CompactRead, CompactClosed,
                CompactWrite, CompactUnlink, CompactDone, vars, bounds
  <1>3. Known /\ Kept
    BY <1>2, KnownUntilCrash DEF KeepInv
  <1>4. Increasing(file')
    BY DEF GrowInv, Numbers
  <1>5. QED
    BY <1>1, <1>3, <1>4, FitsStep, KeptStep

(* Until the process crashes, a message whose recording returned is in the *)
(* file or in a summary, through closes, re-opens, compressions and        *)
(* compactions (recordMessage, applyCheckpoint, compactSession), when the  *)
(* three windows between two of them are shut.                             *)
THEOREM RecordedAlwaysKept ==
    ASSUME Windows \subseteq {"torn", "ahead"}
    PROVE  Spec => []RecordedIsKept
  <1>1. KeepInv => RecordedIsKept
    BY DEF KeepInv, Kept, RecordedIsKept
  <1>2. QED
    BY <1>1, TypeInit, TypeStep, GrowInit, GrowStep, KeepInit, KeepStep, PTL DEF Spec

(* Until the process crashes, nothing that is stored and not summed up is  *)
(* hidden from a replay (getSinceCheckpoint), whoever begins one and when. *)
THEOREM NothingHiddenUntilCrash ==
    ASSUME Windows \subseteq {"torn", "ahead"}
    PROVE  Spec => [](crashes = 0 => NothingHidden)
  <1>1. TypeOK /\ GrowInv /\ KeepInv => (crashes = 0 => NothingHidden)
    BY KnownUntilCrash, ReadsNow DEF ReadsWell
  <1>2. QED
    BY <1>1, TypeInit, TypeStep, GrowInit, GrowStep, KeepInit, KeepStep, PTL DEF Spec

(* The process that comes after the first crash hides nothing either: the  *)
(* index it opens (init: a saved one is trusted, a missing one is rebuilt) *)
(* reads back every stored message that no summary was made of, when a     *)
(* crash leaves no index that counts lines the file has not.               *)
THEOREM FirstCrashHidesNothing ==
    ASSUME Windows = {}
    PROVE  Spec => [][crashes = 0 /\ Crash => NothingHidden']_vars
  <1>1. TypeOK /\ GrowInv /\ KeepInv /\ TypeOK' /\ [Next]_vars
        => [crashes = 0 /\ Crash => NothingHidden']_vars
    <2> SUFFICES ASSUME TypeOK, GrowInv, KeepInv, TypeOK', crashes = 0, Crash
                 PROVE  NothingHidden'
      OBVIOUS
    <2>1. Known
      BY KnownUntilCrash
    <2>2. Fits' /\ Increasing(file')
      BY <2>1, CrashFits
    <2>3. Known'
      BY <2>2 DEF Known
    <2>4. QED
      BY <2>3, ReadsNext DEF ReadsWell
  <1>2. TypeOK /\ GrowInv /\ KeepInv /\ TypeOK' /\ GrowInv' /\ [Next]_vars => KeepInv'
    BY KeepStep
  <1>3. QED
    BY <1>1, <1>2, TypeInit, TypeStep, GrowInit, GrowStep, KeepInit, PTL DEF Spec

(* However often the process crashes, and through every re-open, rebuild   *)
(* and compaction after that: as long as no number was given twice,        *)
(* nothing that is stored and not summed up is hidden (init, rebuildIndex, *)
(* getSinceCheckpoint, compactSession).                                    *)
THEOREM NothingHiddenWhileNumbersGrow ==
    ASSUME Windows = {}
    PROVE  Spec /\ []Increasing(file) => []NothingHidden
  <1>1. Init /\ TypeOK /\ Increasing(file) => Known
    BY FitsInit DEF Known
  <1>2. Known /\ [Next]_vars /\ TypeOK' /\ Increasing(file)' => Known'
    <2> SUFFICES ASSUME Known, [Next]_vars, TypeOK', Increasing(file')
                 PROVE  Known'
      BY DEF Increasing
    <2>1. Fits'
      BY FitsStep
    <2>2. QED
      BY <2>1 DEF Known
  <1>3. Known => NothingHidden
    BY ReadsNow DEF ReadsWell
  <1>4. QED
    BY <1>1, <1>2, <1>3, TypeInit, TypeStep, PTL DEF Spec
=============================================================================
