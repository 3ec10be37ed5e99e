-------------------------- MODULE Channels_proofs ---------------------------
(***************************************************************************)
(* How messages come in.  MessageBus, for any number of messages and any   *)
(* limits: type correctness, that no message is handed over twice, that    *)
(* what was discarded never runs, and that no text is lost on the way.     *)
(* TelegramPolling, for any number of lives of the process: type           *)
(* correctness, and that two lives read updates side by side only if one   *)
(* of them was robbed of the lock or told to end.                          *)
(***************************************************************************)
EXTENDS MessageBus, TelegramPolling, TLAPS

-----------------------------------------------------------------------------
(* MessageBus                                                              *)

(* The least that is known of queue entries and of sequences of messages.  *)
Kinds == {"text", "file", "cancel"}
EntriesOf(S) == [n : Nat, head : {0} \union S, texts : Seq(S)]
RunsOf(S) == [phase : {"idle", "prepare", "turn", "goal", "leave", "closing"},
              n : Nat, head : {0} \union S, texts : Seq(S)]

ShapesIn(T) ==
    /\ recent \subseteq T /\ dropped \subseteq T
    /\ refused \subseteq T /\ broken \subseteq T
    /\ handed \in Seq(T) /\ supplements \in Seq(T)
    /\ waiting \in Seq(EntriesOf(T))
    /\ run \in RunsOf(T)
    /\ made \in Nat /\ open \in 0..made /\ acking \subseteq 1..made
    /\ ackSent \in BOOLEAN
    /\ goal \in {"none", "live", "auth", "over"}
    /\ runner \in {"nobody", "turn", "button"}
    /\ run = Idle => waiting = <<>> /\ ackSent = FALSE

Shapes == kind \in Seq(Kinds) /\ ShapesIn(Messages)

-----------------------------------------------------------------------------
(* Sequences of messages and of entries.                                   *)

Distinct(s) == \A i, j \in DOMAIN s : s[i] = s[j] => i = j

LEMMA MoreMessages ==
    ASSUME NEW S, NEW T, S \subseteq T
    PROVE  /\ Seq(S) \subseteq Seq(T) /\ EntriesOf(S) \subseteq EntriesOf(T)
           /\ Seq(EntriesOf(S)) \subseteq Seq(EntriesOf(T)) /\ RunsOf(S) \subseteq RunsOf(T)
  <1>1. Seq(S) \subseteq Seq(T)
    OBVIOUS
  <1>2. EntriesOf(S) \subseteq EntriesOf(T) /\ RunsOf(S) \subseteq RunsOf(T)
    BY <1>1 DEF EntriesOf, RunsOf
  <1>3. Seq(EntriesOf(S)) \subseteq Seq(EntriesOf(T))
    BY <1>2
  <1> QED
    BY <1>1, <1>2, <1>3

LEMMA SetOfOne == ASSUME NEW x PROVE ToSet(<<x>>) = {x} /\ Distinct(<<x>>)
  BY DEF ToSet, Distinct

LEMMA SetOfAppend ==
    ASSUME NEW S, NEW s \in Seq(S), NEW x \in S
    PROVE  /\ Append(s, x) \in Seq(S) /\ ToSet(Append(s, x)) = ToSet(s) \union {x}
           /\ Distinct(s) /\ x \notin ToSet(s) => Distinct(Append(s, x))
  <1>1. /\ Append(s, x) \in Seq(S) /\ DOMAIN Append(s, x) = 1..(Len(s) + 1)
        /\ \A i \in 1..Len(s) : Append(s, x)[i] = s[i]
        /\ Append(s, x)[Len(s) + 1] = x /\ DOMAIN s = 1..Len(s) /\ Len(s) \in Nat
    OBVIOUS
  <1>2. ToSet(Append(s, x)) = ToSet(s) \union {x}
    BY <1>1 DEF ToSet
  <1>3. ASSUME Distinct(s), x \notin ToSet(s) PROVE Distinct(Append(s, x))
    BY <1>1, <1>3 DEF ToSet, Distinct
  <1> QED
    BY <1>1, <1>2, <1>3

LEMMA SetOfConcat ==
    ASSUME NEW S, NEW s \in Seq(S), NEW t \in Seq(S)
    PROVE  /\ s \o t \in Seq(S) /\ ToSet(s \o t) = ToSet(s) \union ToSet(t)
           /\ Distinct(s) /\ Distinct(t) /\ ToSet(s) \intersect ToSet(t) = {} => Distinct(s \o t)
  <1>1. /\ s \o t \in Seq(S) /\ DOMAIN (s \o t) = 1..(Len(s) + Len(t))
        /\ \A i \in 1..Len(s) : (s \o t)[i] = s[i]
        /\ \A i \in 1..(Len(s) + Len(t)) : i > Len(s) => (s \o t)[i] = t[i - Len(s)]
        /\ DOMAIN s = 1..Len(s) /\ DOMAIN t = 1..Len(t) /\ Len(s) \in Nat /\ Len(t) \in Nat
    OBVIOUS
  <1>2. ToSet(s \o t) \subseteq ToSet(s) \union ToSet(t)
    BY <1>1 DEF ToSet
  <1>3. ToSet(s) \subseteq ToSet(s \o t)
    BY <1>1 DEF ToSet
  <1>4. ToSet(t) \subseteq ToSet(s \o t)
    <2> SUFFICES ASSUME NEW i \in 1..Len(t) PROVE t[i] \in ToSet(s \o t)
      BY <1>1 DEF ToSet
    <2>1. i + Len(s) \in 1..(Len(s) + Len(t)) /\ i + Len(s) > Len(s) /\ (i + Len(s)) - Len(s) = i
      BY <1>1
    <2>2. (s \o t)[i + Len(s)] = t[i]
      BY <1>1, <2>1
    <2> QED
      BY <1>1, <2>1, <2>2 DEF ToSet
  <1>5. ASSUME Distinct(s), Distinct(t), ToSet(s) \intersect ToSet(t) = {}
        PROVE  Distinct(s \o t)
    <2> SUFFICES ASSUME NEW i \in 1..(Len(s) + Len(t)), NEW j \in 1..(Len(s) + Len(t)),
                        (s \o t)[i] = (s \o t)[j], i < j
                 PROVE  FALSE
      BY <1>1 DEF Distinct
    <2>1. CASE j <= Len(s)
      BY <2>1, <1>1, <1>5 DEF Distinct
    <2>2. CASE i > Len(s)
      <3>1. i - Len(s) \in 1..Len(t) /\ j - Len(s) \in 1..Len(t) /\ i - Len(s) # j - Len(s)
        BY <2>2, <1>1
      <3>2. t[i - Len(s)] = t[j - Len(s)]
        BY <2>2, <1>1
      <3> QED
        BY <3>1, <3>2, <1>1, <1>5 DEF Distinct
    <2>3. CASE i <= Len(s) /\ j > Len(s)
      <3>1. (s \o t)[i] \in ToSet(s)
        BY <2>3, <1>1 DEF ToSet
      <3>2. j - Len(s) \in 1..Len(t) /\ (s \o t)[j] = t[j - Len(s)]
        BY <2>3, <1>1
      <3>3. (s \o t)[j] \in ToSet(t)
        BY <3>2, <1>1 DEF ToSet
      <3> QED
        BY <3>1, <3>3, <1>5
    <2> QED
      BY <2>1, <2>2, <2>3, <1>1
  <1> QED
    BY <1>1, <1>2, <1>3, <1>4, <1>5

LEMMA SetWithin == ASSUME NEW S, NEW s \in Seq(S) PROVE ToSet(s) \subseteq S
  BY DEF ToSet

(* The texts of different entries are different messages, and so are their *)
(* identities.                                                             *)
Apart(w) ==
    /\ \A i \in DOMAIN w : Distinct(w[i].texts)
    /\ \A i, j \in DOMAIN w : i # j =>
          ToSet(w[i].texts) \intersect ToSet(w[j].texts) = {}
Identified(w, most) ==
    /\ \A i \in DOMAIN w : w[i].n \in 1..most
    /\ \A i, j \in DOMAIN w : i # j => w[i].n # w[j].n
HeadsIn(w) == \A i \in DOMAIN w : w[i].head \in {0} \union ToSet(w[i].texts)

LEMMA IdsAre == ASSUME NEW w, NEW m
                PROVE  m \in Ids(w) <=> \E i \in DOMAIN w : m \in ToSet(w[i].texts)
  BY DEF Ids

LEMMA IdsWithin == ASSUME NEW S, NEW w \in Seq(EntriesOf(S)) PROVE Ids(w) \subseteq S
  <1> SUFFICES ASSUME NEW i \in DOMAIN w PROVE ToSet(w[i].texts) \subseteq S
    BY IdsAre
  <1>0. w[i] \in EntriesOf(S)
    OBVIOUS
  <1>1. w[i].texts \in Seq(S)
    BY <1>0 DEF EntriesOf
  <1> QED
    BY <1>1, SetWithin

LEMMA NoIds == Ids(<<>>) = {} /\ Apart(<<>>) /\ HeadsIn(<<>>)
  BY DEF Ids, Apart, HeadsIn

LEMMA EntryAppended ==
    ASSUME NEW S, NEW w \in Seq(EntriesOf(S)), NEW e \in EntriesOf(S)
    PROVE  /\ Append(w, e) \in Seq(EntriesOf(S))
           /\ Ids(Append(w, e)) = Ids(w) \union ToSet(e.texts)
           /\ Apart(w) /\ Distinct(e.texts) /\ ToSet(e.texts) \intersect Ids(w) = {}
                => Apart(Append(w, e))
           /\ HeadsIn(w) /\ e.head \in {0} \union ToSet(e.texts) => HeadsIn(Append(w, e))
  <1> DEFINE v == Append(w, e)
  <1>1. /\ v \in Seq(EntriesOf(S)) /\ DOMAIN v = 1..(Len(w) + 1)
        /\ \A i \in 1..Len(w) : v[i] = w[i]
        /\ v[Len(w) + 1] = e /\ DOMAIN w = 1..Len(w) /\ Len(w) \in Nat
    OBVIOUS
  <1> HIDE DEF v
  <1>2. Ids(v) \subseteq Ids(w) \union ToSet(e.texts)
    BY <1>1, IdsAre
  <1>3. Ids(w) \union ToSet(e.texts) \subseteq Ids(v)
    BY <1>1, IdsAre
  <1>4. ASSUME Apart(w), Distinct(e.texts), ToSet(e.texts) \intersect Ids(w) = {}
        PROVE  Apart(v)
    <2>1. \A i \in DOMAIN v : Distinct(v[i].texts)
      BY <1>1, <1>4 DEF Apart
    <2>2. \A i \in 1..Len(w) : ToSet(w[i].texts) \intersect ToSet(e.texts) = {}
      BY <1>1, <1>4, IdsAre
    <2>3. ASSUME NEW i \in DOMAIN v, NEW j \in DOMAIN v, i # j
          PROVE  ToSet(v[i].texts) \intersect ToSet(v[j].texts) = {}
      <3>1. CASE i \in 1..Len(w) /\ j \in 1..Len(w)
        BY <3>1, <2>3, <1>1, <1>4 DEF Apart
      <3>2. CASE i = Len(w) + 1
        BY <3>2, <2>2, <2>3, <1>1
      <3>3. CASE j = Len(w) + 1
        BY <3>3, <2>2, <2>3, <1>1
      <3> QED
        BY <3>1, <3>2, <3>3, <1>1
    <2> QED
      BY <2>1, <2>3 DEF Apart
  <1>5. ASSUME HeadsIn(w), e.head \in {0} \union ToSet(e.texts) PROVE HeadsIn(v)
    BY <1>1, <1>5 DEF HeadsIn
  <1> QED
    BY <1>1, <1>2, <1>3, <1>4, <1>5 DEF v

LEMMA EntryTaken ==
    ASSUME NEW S, NEW w \in Seq(EntriesOf(S)), w # <<>>
    PROVE  /\ Tail(w) \in Seq(EntriesOf(S)) /\ Head(w) \in EntriesOf(S)
           /\ Ids(w) = Ids(Tail(w)) \union ToSet(Head(w).texts)
           /\ Apart(w) => /\ Apart(Tail(w)) /\ Distinct(Head(w).texts)
                          /\ Ids(Tail(w)) \intersect ToSet(Head(w).texts) = {}
           /\ \A most : Identified(w, most) => Identified(Tail(w), most)
           /\ HeadsIn(w) => /\ HeadsIn(Tail(w))
                            /\ Head(w).head \in {0} \union ToSet(Head(w).texts)
  <1> DEFINE v == Tail(w)
  <1>1. /\ v \in Seq(EntriesOf(S)) /\ DOMAIN v = 1..(Len(w) - 1) /\ Len(w) \in Nat \ {0}
        /\ \A i \in 1..(Len(w) - 1) : v[i] = w[i + 1]
        /\ DOMAIN w = 1..Len(w) /\ Head(w) = w[1] /\ Head(w) \in EntriesOf(S)
    OBVIOUS
  <1> HIDE DEF v
  <1>2. \A i \in DOMAIN v : v[i] = w[i + 1] /\ i + 1 \in DOMAIN w /\ i + 1 # 1
    BY <1>1
  <1>3. \A i \in DOMAIN w : i # 1 => i - 1 \in DOMAIN v /\ v[i - 1] = w[i]
    <2> SUFFICES ASSUME NEW i \in 1..Len(w), i # 1 PROVE i - 1 \in DOMAIN v /\ v[i - 1] = w[i]
      BY <1>1
    <2>1. i - 1 \in 1..(Len(w) - 1) /\ (i - 1) + 1 = i
      BY <1>1
    <2> QED
      BY <1>1, <2>1
  <1>4. 1 \in DOMAIN w
    BY <1>1
  <1>5. Ids(w) \subseteq Ids(v) \union ToSet(Head(w).texts)
    BY <1>1, <1>3, IdsAre
  <1>6. Ids(v) \union ToSet(Head(w).texts) \subseteq Ids(w)
    BY <1>1, <1>2, <1>4, IdsAre
  <1>7. ASSUME Apart(w)
        PROVE  /\ Apart(v) /\ Distinct(Head(w).texts)
               /\ Ids(v) \intersect ToSet(Head(w).texts) = {}
    <2>1. Distinct(Head(w).texts) /\ \A i \in DOMAIN v : Distinct(v[i].texts)
      BY <1>1, <1>2, <1>4, <1>7 DEF Apart
    <2>2. \A i, j \in DOMAIN v : i # j => i + 1 # j + 1
      BY <1>1
    <2>3. \A i, j \in DOMAIN v : i # j => ToSet(v[i].texts) \intersect ToSet(v[j].texts) = {}
      BY <1>2, <1>7, <2>2 DEF Apart
    <2>4. \A i \in DOMAIN v : ToSet(v[i].texts) \intersect ToSet(Head(w).texts) = {}
      BY <1>1, <1>2, <1>4, <1>7 DEF Apart
    <2> QED
      BY <2>1, <2>3, <2>4, IdsAre DEF Apart
  <1>8. ASSUME NEW most, Identified(w, most) PROVE Identified(v, most)
    <2>1. \A i, j \in DOMAIN v : i # j => i + 1 # j + 1
      BY <1>1
    <2> QED
      BY <1>2, <1>8, <2>1 DEF Identified
  <1>9. ASSUME HeadsIn(w) PROVE HeadsIn(v) /\ Head(w).head \in {0} \union ToSet(Head(w).texts)
    BY <1>1, <1>2, <1>4, <1>9 DEF HeadsIn
  <1> QED
    BY <1>1, <1>5, <1>6, <1>7, <1>8, <1>9 DEF v

(* What Join makes of the queue.                                           *)
Joined(w, k, t) == [i \in DOMAIN w |-> IF w[i].n = k THEN [w[i] EXCEPT !.texts = @ \o t] ELSE w[i]]

LEMMA EntryJoined ==
    ASSUME NEW S, NEW w \in Seq(EntriesOf(S)), NEW k, NEW t \in Seq(S)
    PROVE  /\ Joined(w, k, t) \in Seq(EntriesOf(S))
           /\ Ids(Joined(w, k, t)) \subseteq Ids(w) \union ToSet(t)
           /\ \A most : Identified(w, most) => Identified(Joined(w, k, t), most)
           /\ \A most : /\ Identified(w, most) /\ Apart(w) /\ Distinct(t)
                        /\ ToSet(t) \intersect Ids(w) = {}
                        => Apart(Joined(w, k, t))
           /\ HeadsIn(w) => HeadsIn(Joined(w, k, t))
  <1> DEFINE v == Joined(w, k, t)
  <1>1. DOMAIN v = DOMAIN w /\ DOMAIN w = 1..Len(w) /\ Len(w) \in Nat
    BY DEF Joined
  <1>2. \A i \in DOMAIN w : /\ w[i] \in EntriesOf(S) /\ v[i].n = w[i].n /\ v[i].head = w[i].head
                            /\ v[i].texts = IF w[i].n = k THEN w[i].texts \o t ELSE w[i].texts
                            /\ v[i] \in EntriesOf(S)
    <2> SUFFICES ASSUME NEW i \in DOMAIN w
                 PROVE  /\ w[i] \in EntriesOf(S) /\ v[i].n = w[i].n /\ v[i].head = w[i].head
                        /\ v[i].texts = IF w[i].n = k THEN w[i].texts \o t ELSE w[i].texts
                        /\ v[i] \in EntriesOf(S)
      OBVIOUS
    <2>1. w[i] \in EntriesOf(S)
      OBVIOUS
    <2>2. w[i].texts \o t \in Seq(S)
      BY <2>1, SetOfConcat DEF EntriesOf
    <2>3. v[i] = IF w[i].n = k THEN [w[i] EXCEPT !.texts = w[i].texts \o t] ELSE w[i]
      BY DEF Joined
    <2> QED
      BY <2>1, <2>2, <2>3 DEF EntriesOf
  <1> HIDE DEF v
  <1>3. v \in Seq(EntriesOf(S))
    <2>1. v \in [1..Len(w) -> EntriesOf(S)]
      BY <1>1, <1>2 DEF v, Joined
    <2> QED
      BY <1>1, <2>1
  <1>4. \A i \in DOMAIN w :
            ToSet(v[i].texts) = ToSet(w[i].texts) \union (IF w[i].n = k THEN ToSet(t) ELSE {})
    <2> SUFFICES ASSUME NEW i \in DOMAIN w
                 PROVE  ToSet(v[i].texts)
                          = ToSet(w[i].texts) \union (IF w[i].n = k THEN ToSet(t) ELSE {})
      OBVIOUS
    <2>1. w[i].texts \in Seq(S)
      BY <1>2 DEF EntriesOf
    <2> QED
      BY <1>2, <2>1, SetOfConcat
  <1>5. Ids(v) \subseteq Ids(w) \union ToSet(t)
    BY <1>1, <1>4, IdsAre
  <1>6. ASSUME NEW most, Identified(w, most) PROVE Identified(v, most)
    BY <1>1, <1>2, <1>6 DEF Identified
  <1>7. ASSUME NEW most, Identified(w, most), Apart(w), Distinct(t), ToSet(t) \intersect Ids(w) = {}
        PROVE  Apart(v)
    <2>1. \A i \in DOMAIN w : ToSet(t) \intersect ToSet(w[i].texts) = {}
      BY <1>7, IdsAre
    <2>2. ASSUME NEW i \in DOMAIN w PROVE Distinct(v[i].texts)
      <3>1. w[i].texts \in Seq(S) /\ Distinct(w[i].texts)
        BY <1>2, <1>7 DEF EntriesOf, Apart
      <3> QED
        BY <1>2, <2>1, <3>1, <1>7, SetOfConcat
    <2>3. ASSUME NEW i \in DOMAIN w, NEW j \in DOMAIN w, i # j
          PROVE  ToSet(v[i].texts) \intersect ToSet(v[j].texts) = {}
      <3>1. w[i].n # w[j].n /\ ToSet(w[i].texts) \intersect ToSet(w[j].texts) = {}
        BY <2>3, <1>7 DEF Identified, Apart
      <3> QED
        BY <3>1, <2>1, <1>4
    <2> QED
      BY <1>1, <2>2, <2>3 DEF Apart
  <1>8. ASSUME HeadsIn(w) PROVE HeadsIn(v)
    BY <1>1, <1>2, <1>4, <1>8 DEF HeadsIn
  <1> QED
    BY <1>3, <1>5, <1>6, <1>7, <1>8 DEF v

LEMMA JoinIsJoined == ASSUME NEW t, Join(t) PROVE waiting' = Joined(waiting, open, t)
  BY DEF Join, Joined

-----------------------------------------------------------------------------
(* Types, and the identities of the entries.                               *)

(* Each entry of the queue has an identity of its own, and was made for one*)
(* of its texts or for none.                                               *)
Numbered == Identified(waiting, made) /\ HeadsIn(waiting)

LEMMA ShapesInit == BusInit => Shapes /\ Numbered
  <1> SUFFICES ASSUME BusInit PROVE Shapes /\ Numbered
    OBVIOUS
  <1> USE DEF BusInit
  <1>1. Idle \in RunsOf(Messages)
    BY DEF Idle, RunsOf
  <1>2. kind \in Seq(Kinds) /\ handed \in Seq(Messages) /\ waiting \in Seq(EntriesOf(Messages))
    OBVIOUS
  <1>3. made \in Nat /\ open \in 0..made
    OBVIOUS
  <1>4. Shapes
    BY <1>1, <1>2, <1>3 DEF Shapes, ShapesIn
  <1>5. Numbered
    BY NoIds DEF Numbered, Identified
  <1> QED
    BY <1>4, <1>5

LEMMA BeginShapes ==
    ASSUME NEW T, NEW e \in EntriesOf(T), handed \in Seq(T), BeginTask(e)
    PROVE  run' \in RunsOf(T) /\ handed' \in Seq(T) /\ run' # Idle
  BY SetOfConcat DEF BeginTask, EntriesOf, RunsOf, Idle

LEMMA StartNextShapes ==
    ASSUME NEW T, ShapesIn(T), Numbered, StartNext
    PROVE  /\ run' \in RunsOf(T) /\ handed' \in Seq(T) /\ waiting' \in Seq(EntriesOf(T))
           /\ open' \in {0, open} /\ ackSent' \in BOOLEAN
           /\ run' = Idle => waiting' = <<>> /\ ackSent' = FALSE
           /\ Identified(waiting', made) /\ HeadsIn(waiting')
  <1>0. waiting \in Seq(EntriesOf(T)) /\ handed \in Seq(T) /\ ackSent \in BOOLEAN
    BY DEF ShapesIn
  <1>1. CASE waiting = <<>>
    <2>1. run' = Idle /\ ackSent' = FALSE /\ UNCHANGED <<waiting, open, handed>>
      BY <1>1 DEF StartNext
    <2>2. Idle \in RunsOf(T)
      BY DEF Idle, RunsOf
    <2> QED
      BY <1>0, <1>1, <2>1, <2>2 DEF Numbered
  <1>2. CASE waiting # <<>>
    <2>1. /\ BeginTask(Head(waiting)) /\ waiting' = Tail(waiting)
          /\ open' \in {0, open} /\ ackSent' = ackSent
      BY <1>2 DEF StartNext
    <2>2. /\ Tail(waiting) \in Seq(EntriesOf(T)) /\ Head(waiting) \in EntriesOf(T)
          /\ Identified(Tail(waiting), made) /\ HeadsIn(Tail(waiting))
      BY <1>0, <1>2, EntryTaken DEF Numbered
    <2> QED
      BY <1>0, <2>1, <2>2, BeginShapes
  <1> QED
    BY <1>1, <1>2

LEMMA QueueShapes ==
    ASSUME NEW T, ShapesIn(T), Numbered, NEW joinable \in BOOLEAN,
           NEW head \in {0} \union T, NEW texts \in Seq(T), head \in {0} \union ToSet(texts),
           Queue(Entry(head, texts), joinable)
    PROVE  /\ waiting' \in Seq(EntriesOf(T)) /\ made' = made + 1
           /\ made' \in Nat /\ open' \in 0..made' /\ acking' \subseteq 1..made'
           /\ ackSent' \in BOOLEAN
           /\ Identified(waiting', made') /\ HeadsIn(waiting')
  <1> DEFINE e == Entry(head, texts)
  <1>1. made \in Nat /\ waiting \in Seq(EntriesOf(T)) /\ acking \subseteq 1..made
    BY DEF ShapesIn
  <1>2. e \in EntriesOf(T) /\ e.n = made + 1 /\ e.head = head /\ e.texts = texts
    BY <1>1 DEF Entry, EntriesOf
  <1>3. /\ waiting' = Append(waiting, e) /\ made' = e.n /\ ackSent' = TRUE
        /\ open' \in {0, e.n} /\ acking' \in {acking, acking \union {e.n}}
    BY DEF Queue
  <1> HIDE DEF e
  <1>4. waiting' \in Seq(EntriesOf(T)) /\ HeadsIn(waiting')
    BY <1>1, <1>2, <1>3, EntryAppended DEF Numbered
  <1>5. /\ DOMAIN waiting' = 1..(Len(waiting) + 1) /\ DOMAIN waiting = 1..Len(waiting)
        /\ Len(waiting) \in Nat /\ waiting'[Len(waiting) + 1] = e
        /\ \A i \in 1..Len(waiting) : waiting'[i] = waiting[i]
    BY <1>1, <1>2, <1>3
  <1>6. Identified(waiting', made')
    <2>1. \A i \in 1..Len(waiting) : waiting[i].n \in 1..made
      BY <1>5 DEF Numbered, Identified
    <2>2. \A i \in DOMAIN waiting' : waiting'[i].n \in 1..(made + 1)
      BY <2>1, <1>1, <1>2, <1>5
    <2>3. ASSUME NEW i \in DOMAIN waiting', NEW j \in DOMAIN waiting', i # j,
                 waiting'[i].n = waiting'[j].n
          PROVE  FALSE
      <3>1. CASE i \in 1..Len(waiting) /\ j \in 1..Len(waiting)
        BY <3>1, <2>3, <1>5 DEF Numbered, Identified
      <3>2. CASE i = Len(waiting) + 1 /\ j \in 1..Len(waiting)
        BY <3>2, <2>1, <2>3, <1>1, <1>2, <1>5
      <3>3. CASE j = Len(waiting) + 1 /\ i \in 1..Len(waiting)
        BY <3>3, <2>1, <2>3, <1>1, <1>2, <1>5
      <3> QED
        BY <2>3, <3>1, <3>2, <3>3, <1>5
    <2> QED
      BY <2>2, <2>3, <1>2, <1>3 DEF Identified
  <1> QED
    BY <1>1, <1>2, <1>3, <1>4, <1>6

LEMMA JoinShapes ==
    ASSUME NEW T, ShapesIn(T), Numbered, NEW t \in Seq(T), Join(t)
    PROVE  /\ waiting' \in Seq(EntriesOf(T)) /\ Identified(waiting', made) /\ HeadsIn(waiting')
           /\ waiting = <<>> => waiting' = <<>>
  <1>1. waiting \in Seq(EntriesOf(T)) /\ waiting' = Joined(waiting, open, t)
    BY JoinIsJoined DEF ShapesIn
  <1>2. waiting = <<>> => waiting' = <<>>
    BY <1>1 DEF Joined
  <1> QED
    BY <1>1, <1>2, EntryJoined DEF Numbered

(* The run of a turn that waits for its last ACK.                          *)
LEMMA ClosingRun ==
    ASSUME NEW T, NEW k \in Nat
    PROVE  /\ [Idle EXCEPT !.phase = "closing", !.n = k] \in RunsOf(T) \ {Idle}
           /\ [Idle EXCEPT !.phase = "closing"] \in RunsOf(T) \ {Idle}
           /\ [Idle EXCEPT !.phase = "closing", !.n = k].head = 0
           /\ [Idle EXCEPT !.phase = "closing"].head = 0
  <1> DEFINE v == [Idle EXCEPT !.phase = "closing", !.n = k]
             w == [Idle EXCEPT !.phase = "closing"]
  <1>1. v \in [phase : {"closing"}, n : Nat, head : {0}, texts : {<<>>}]
    BY DEF Idle
  <1>2. w \in [phase : {"closing"}, n : Nat, head : {0}, texts : {<<>>}]
    BY DEF Idle
  <1>3. <<>> \in Seq(T) /\ Idle.phase = "idle"
    BY DEF Idle
  <1> HIDE DEF v, w
  <1>4. v \in RunsOf(T) /\ w \in RunsOf(T) /\ v # Idle /\ w # Idle /\ v.head = 0 /\ w.head = 0
    BY <1>1, <1>2, <1>3 DEF RunsOf
  <1> QED
    BY <1>4 DEF v, w

(* A message that is handled, with what the conversation has seen by then. *)
LEMMA ProcessShapes ==
    ASSUME ShapesIn(Messages'), Numbered, NEW m \in Messages', Process(m)
    PROVE  ShapesIn(Messages)' /\ Numbered'
  <1> DEFINE T == Messages'
  <1>0. ShapesIn(T) /\ m \in T /\ <<m>> \in Seq(T) /\ ToSet(<<m>>) = {m}
    BY SetOfOne
  <1> HIDE DEF T
  <1>1. recent' \in {recent, recent \union {m}} /\ broken' = broken
    BY DEF Process
  <1>2. CASE RouteCancel(m)
    <2>1. /\ waiting' = <<>> /\ open' = 0 /\ ackSent' = FALSE
          /\ dropped' = dropped \union Ids(waiting)
          /\ goal' \in {goal, "over"}
          /\ run' = [run EXCEPT !.phase = IF @ = "turn" THEN "leave" ELSE @]
          /\ UNCHANGED <<made, acking, runner, supplements, handed, refused>>
      BY <1>2 DEF RouteCancel
    <2>2. Ids(waiting) \subseteq T
      BY <1>0, IdsWithin DEF ShapesIn
    <2>3. run' \in RunsOf(T)
      BY <2>1, <1>0 DEF ShapesIn, RunsOf
    <2>4. <<>> \in Seq(EntriesOf(T))
      OBVIOUS
    <2>5. Numbered'
      BY <2>1, NoIds DEF Numbered, Identified
    <2>6. recent' \subseteq T /\ dropped' \subseteq T /\ broken' \subseteq T /\ refused' \subseteq T
      BY <1>0, <1>1, <2>1, <2>2 DEF ShapesIn
    <2>7. made' \in Nat /\ open' \in 0..made' /\ acking' \subseteq 1..made'
      BY <1>0, <2>1 DEF ShapesIn
    <2>8. ShapesIn(Messages)'
      BY <1>0, <2>1, <2>3, <2>4, <2>6, <2>7 DEF ShapesIn, T
    <2> QED
      BY <2>5, <2>8
  <1>3. CASE RouteToGoal(m)
    <2>1. supplements' \in Seq(T)
      BY <1>0, <1>3, SetOfAppend DEF RouteToGoal, ShapesIn
    <2> QED
      BY <1>0, <1>1, <1>3, <2>1 DEF RouteToGoal, queueVars, ShapesIn, Numbered, T
  <1>4. CASE RouteToWaiting(m)
    <2>1. /\ Join(<<m>>)
          /\ UNCHANGED <<made, open, acking, ackSent, run, handed, dropped, refused>>
          /\ UNCHANGED goalVars
      BY <1>4 DEF RouteToWaiting
    <2>2. /\ waiting' \in Seq(EntriesOf(T)) /\ Identified(waiting', made) /\ HeadsIn(waiting')
          /\ waiting = <<>> => waiting' = <<>>
      BY <1>0, <2>1, JoinShapes
    <2> QED
      BY <1>0, <1>1, <2>1, <2>2 DEF goalVars, ShapesIn, Numbered, T
  <1>5. CASE RouteToRun(m)
    <2>1. /\ BeginTask(Entry(m, <<m>>)) /\ made' = made + 1 /\ open' = 0
          /\ UNCHANGED <<waiting, acking, ackSent, dropped, refused>>
          /\ UNCHANGED goalVars
      BY <1>5 DEF RouteToRun
    <2>2. Entry(m, <<m>>) \in EntriesOf(T)
      BY <1>0 DEF Entry, EntriesOf, ShapesIn
    <2>3. run' \in RunsOf(T) /\ handed' \in Seq(T) /\ run' # Idle
      BY <1>0, <2>1, <2>2, BeginShapes DEF ShapesIn
    <2>4. made' \in Nat /\ open' \in 0..made' /\ acking' \subseteq 1..made'
      BY <1>0, <2>1 DEF ShapesIn
    <2>5. Numbered'
      BY <1>0, <2>1 DEF Numbered, Identified, ShapesIn
    <2> QED
      BY <1>0, <1>1, <2>1, <2>3, <2>4, <2>5 DEF goalVars, ShapesIn, T
  <1>6. CASE RouteToQueue(m)
    <2>1. /\ Queue(Entry(m, <<m>>), kind'[m] = "text") /\ run # Idle
          /\ UNCHANGED <<run, handed, dropped, refused>> /\ UNCHANGED goalVars
      BY <1>6 DEF RouteToQueue
    <2>2. (kind'[m] = "text") \in BOOLEAN
      OBVIOUS
    <2>3. /\ waiting' \in Seq(EntriesOf(T))
          /\ made' \in Nat /\ open' \in 0..made' /\ acking' \subseteq 1..made'
          /\ ackSent' \in BOOLEAN /\ Identified(waiting', made') /\ HeadsIn(waiting')
      BY <1>0, <2>1, <2>2, QueueShapes
    <2> QED
      BY <1>0, <1>1, <2>1, <2>3 DEF goalVars, ShapesIn, Numbered, T
  <1>7. CASE RouteRefused(m)
    BY <1>0, <1>1, <1>7 DEF RouteRefused, goalVars, ShapesIn, Numbered, T
  <1> QED
    BY <1>2, <1>3, <1>4, <1>5, <1>6, <1>7 DEF Process

LEMMA SendShapes ==
    ASSUME Shapes, Numbered, NEW k \in Kinds, Send(k)
    PROVE  Shapes' /\ Numbered'
  <1>1. kind' = Append(kind, k) /\ kind \in Seq(Kinds)
    BY DEF Send, Shapes
  <1>2. kind' \in Seq(Kinds) /\ Len(kind') = Len(kind) + 1 /\ Len(kind) \in Nat
    BY <1>1
  <1>3. Messages \subseteq Messages' /\ Len(kind) + 1 \in Messages'
    BY <1>2 DEF Messages
  <1>4. ShapesIn(Messages')
    <2> DEFINE T == Messages'
    <2>1. Messages \subseteq T
      BY <1>3
    <2> HIDE DEF T
    <2>2. ShapesIn(T)
      BY <2>1, MoreMessages DEF Shapes, ShapesIn
    <2> QED
      BY <2>2 DEF T
  <1>5. Process(Len(kind) + 1)
    BY DEF Send
  <1> QED
    BY <1>2, <1>3, <1>4, <1>5, ProcessShapes DEF Shapes

LEMMA RedeliverShapes ==
    ASSUME Shapes, Numbered, NEW m \in Messages, Redeliver(m)
    PROVE  Shapes' /\ Numbered'
  <1>1. kind' = kind /\ Process(m)
    BY DEF Redeliver
  <1>2. Messages' = Messages
    BY <1>1 DEF Messages
  <1>3. ShapesIn(Messages') /\ m \in Messages'
    BY <1>2 DEF Shapes
  <1> QED
    BY <1>1, <1>3, ProcessShapes DEF Shapes

LEMMA EndShapes ==
    ASSUME Shapes, Numbered, TurnEnds \/ TurnCloses \/ TurnBreaks
    PROVE  Shapes' /\ Numbered'
  <1> DEFINE T == Messages
  <1>0. ShapesIn(T) /\ kind \in Seq(Kinds) /\ run.head \in {0} \union T /\ run.texts \in Seq(T)
    BY DEF Shapes, ShapesIn, RunsOf
  <1>1. kind' = kind /\ Messages' = T
    BY DEF TurnEnds, TurnCloses, TurnBreaks, Messages
  <1>2. recent' \subseteq T /\ dropped' \subseteq T /\ broken' \subseteq T
    <2>1. recent \subseteq T /\ dropped \subseteq T /\ broken \subseteq T /\ ToSet(run.texts) \subseteq T
      BY <1>0, SetWithin DEF ShapesIn
    <2> QED
      BY <2>1, <1>0 DEF TurnEnds, TurnCloses, TurnBreaks, Remember
  <1> HIDE DEF T
  <1>3. ASSUME StartNext,
               UNCHANGED <<made, acking, goal, supplements, refused>>, runner' \in {runner, "nobody"}
        PROVE  Shapes' /\ Numbered'
    <2>1. /\ run' \in RunsOf(T) /\ handed' \in Seq(T) /\ waiting' \in Seq(EntriesOf(T))
          /\ open' \in {0, open} /\ ackSent' \in BOOLEAN
          /\ run' = Idle => waiting' = <<>> /\ ackSent' = FALSE
          /\ Identified(waiting', made) /\ HeadsIn(waiting')
      BY <1>0, <1>3, StartNextShapes
    <2>2. made' \in Nat /\ open' \in 0..made' /\ acking' \subseteq 1..made'
      BY <1>0, <1>3, <2>1 DEF ShapesIn
    <2>3. ShapesIn(T)
      BY <1>0
    <2>4. ShapesIn(Messages)'
      BY <1>1, <1>2, <1>3, <2>1, <2>2, <2>3 DEF ShapesIn
    <2> QED
      BY <1>0, <1>1, <1>3, <2>1, <2>4 DEF Shapes, Numbered
  <1>4. CASE TurnEnds /\ LeaveUnread
    BY <1>3, <1>4 DEF LeaveUnread, goalVars
  <1>5. CASE TurnCloses
    BY <1>3, <1>5 DEF TurnCloses, goalVars
  <1>6. CASE TurnBreaks
    BY <1>3, <1>6 DEF TurnBreaks
  <1>7. CASE TurnEnds /\ Reprocess
    <2>1. /\ supplements' = <<>> /\ run' # Idle /\ run' \in RunsOf(T)
          /\ UNCHANGED <<goal, runner, handed>>
      <3>1. run' \in {[Idle EXCEPT !.phase = "closing", !.n = made + 1], [Idle EXCEPT !.phase = "closing"]}
        BY <1>7 DEF Reprocess
      <3>2. made + 1 \in Nat
        BY <1>0 DEF ShapesIn
      <3>3. run' \in RunsOf(T) \ {Idle}
        <4> DEFINE v == [Idle EXCEPT !.phase = "closing", !.n = made + 1]
                   w == [Idle EXCEPT !.phase = "closing"]
        <4>1. v \in RunsOf(T) \ {Idle}
          BY <3>2, ClosingRun
        <4>2. w \in RunsOf(T) \ {Idle}
          BY <3>2, ClosingRun
        <4>3. run' \in {v, w}
          BY <3>1
        <4> HIDE DEF v, w
        <4> QED
          BY <4>1, <4>2, <4>3
      <3>4. supplements' = <<>> /\ UNCHANGED <<goal, runner, handed>>
        BY <1>7 DEF Reprocess
      <3> QED
        BY <3>3, <3>4
    <2>2. supplements \in Seq(T) /\ ToSet(supplements) \subseteq T
      BY <1>0, SetWithin DEF ShapesIn
    <2>3. /\ waiting' \in Seq(EntriesOf(T)) /\ Identified(waiting', made') /\ HeadsIn(waiting')
          /\ made' \in Nat /\ open' \in 0..made' /\ acking' \subseteq 1..made'
          /\ ackSent' \in BOOLEAN /\ refused' \subseteq T
      <3>1. CASE open = 0 /\ ~Full
        <4>1. Queue(Entry(0, supplements), TRUE) /\ refused' = refused
          BY <1>7, <3>1 DEF Reprocess
        <4> QED
          BY <1>0, <2>2, <4>1, QueueShapes DEF ShapesIn
      <3>2. CASE ~(open = 0 /\ ~Full) /\ open # 0
        <4>1. Join(supplements) /\ UNCHANGED <<refused, made, open, acking, ackSent>>
          BY <1>7, <3>2 DEF Reprocess
        <4>2. waiting' \in Seq(EntriesOf(T)) /\ Identified(waiting', made) /\ HeadsIn(waiting')
          BY <1>0, <2>2, <4>1, JoinShapes
        <4> QED
          BY <1>0, <4>1, <4>2 DEF ShapesIn
      <3>3. CASE ~(open = 0 /\ ~Full) /\ open = 0
        <4>1. /\ refused' = refused \union ToSet(supplements)
              /\ UNCHANGED <<waiting, made, open, acking, ackSent>>
          BY <1>7, <3>3 DEF Reprocess
        <4> QED
          BY <1>0, <2>2, <4>1 DEF ShapesIn, Numbered
      <3> QED
        BY <3>1, <3>2, <3>3
    <2>4. <<>> \in Seq(T)
      OBVIOUS
    <2>5. ShapesIn(Messages)'
      BY <1>0, <1>1, <1>2, <2>1, <2>3, <2>4 DEF ShapesIn
    <2> QED
      BY <1>0, <1>1, <2>3, <2>5 DEF Shapes, Numbered
  <1> QED
    BY <1>4, <1>5, <1>6, <1>7 DEF TurnEnds

(* What leaves the queue as it is.                                         *)
Aside ==
    \/ \E m \in Messages : ForgetId(m)
    \/ \E n \in acking : AckReturns(n)
    \/ EnterProcess \/ StartGoal \/ ResumeByText \/ ResumeByButton \/ ReadSupplements \/ GoalStops

LEMMA AsideShapes == ASSUME Shapes, Numbered, Aside PROVE Shapes' /\ Numbered'
  <1>0. ShapesIn(Messages) /\ kind \in Seq(Kinds)
    BY DEF Shapes
  <1>1. UNCHANGED <<kind, waiting, made, ackSent, dropped, refused, broken>> /\ recent' \subseteq recent
    BY DEF Aside, ForgetId, AckReturns, EnterProcess, StartGoal, ResumeByText, ResumeByButton,
           ReadSupplements, GoalStops, GoalStep, queueVars
  <1>2. Messages' = Messages
    BY <1>1 DEF Messages
  <1>3. acking' \subseteq acking /\ open' \in {open} \union acking
    BY DEF Aside, ForgetId, AckReturns, EnterProcess, StartGoal, ResumeByText, ResumeByButton,
           ReadSupplements, GoalStops, GoalStep, queueVars
  <1>4. handed' \in Seq(Messages) /\ supplements' \in Seq(Messages)
    <2>1. handed' \in {handed, handed \o supplements} /\ supplements' \in {supplements, <<>>}
      BY DEF Aside, ForgetId, AckReturns, EnterProcess, StartGoal, ResumeByText, ResumeByButton,
             ReadSupplements, GoalStops, goalVars
    <2>2. handed \in Seq(Messages) /\ supplements \in Seq(Messages)
      BY <1>0 DEF ShapesIn
    <2>3. handed \o supplements \in Seq(Messages) /\ <<>> \in Seq(Messages)
      BY <2>2, SetOfConcat
    <2> QED
      BY <2>1, <2>2, <2>3
  <1>5. run' = run \/ (run # Idle /\ run' # Idle /\ run' \in RunsOf(Messages))
    <2>1. run \in RunsOf(Messages)
      BY <1>0 DEF ShapesIn
    <2>2. run' = run \/ (/\ run.phase \in {"prepare", "turn"}
                         /\ \E p \in {"turn", "goal"} : run' = [run EXCEPT !.phase = p])
      BY DEF Aside, ForgetId, AckReturns, EnterProcess, StartGoal, ResumeByText, ResumeByButton,
             ReadSupplements, GoalStops
    <2> QED
      BY <2>1, <2>2 DEF RunsOf, Idle
  <1>6. goal' \in {"none", "live", "auth", "over"} /\ runner' \in {"nobody", "turn", "button"}
    BY <1>0 DEF Aside, ForgetId, AckReturns, EnterProcess, StartGoal, ResumeByText, ResumeByButton,
             ReadSupplements, GoalStops, goalVars, ShapesIn
  <1>7. open' \in 0..made'
    BY <1>0, <1>1, <1>3 DEF ShapesIn
  <1>8. ShapesIn(Messages)'
    BY <1>0, <1>1, <1>2, <1>3, <1>4, <1>5, <1>6, <1>7 DEF ShapesIn
  <1> QED
    BY <1>0, <1>1, <1>8 DEF Shapes, Numbered

LEMMA ShapesStep == Shapes /\ Numbered /\ [BusNext]_busVars => Shapes' /\ Numbered'
  <1> SUFFICES ASSUME Shapes, Numbered, [BusNext]_busVars PROVE Shapes' /\ Numbered'
    OBVIOUS
  <1>1. CASE UNCHANGED busVars
    BY <1>1 DEF busVars, Shapes, ShapesIn, Numbered, Messages
  <1>2. CASE BusNext
    BY <1>2, SendShapes, RedeliverShapes, EndShapes, AsideShapes
       DEF BusNext, TurnProgress, Aside, Kinds
  <1> QED
    BY <1>1, <1>2

(* BusTypeOK of the bus: in particular, while nothing runs nothing waits, and *)
(* the next burst is acknowledged.                                         *)
THEOREM BusTypeCorrect == BusSpec => []BusTypeOK
  <1>1. Shapes => BusTypeOK
    <2> SUFFICES ASSUME Shapes PROVE BusTypeOK
      OBVIOUS
    <2>1. /\ ToSet(handed) \subseteq Messages /\ ToSet(supplements) \subseteq Messages
          /\ Ids(waiting) \subseteq Messages
      BY SetWithin, IdsWithin DEF Shapes, ShapesIn
    <2>2. run.phase \in {"idle", "prepare", "turn", "goal", "leave", "closing"}
      BY DEF Shapes, ShapesIn, RunsOf
    <2> QED
      BY <2>1, <2>2 DEF Shapes, ShapesIn, BusTypeOK, Kinds
  <1> QED
    BY <1>1, ShapesInit, ShapesStep, PTL DEF BusSpec

-----------------------------------------------------------------------------
(* Each message is in one place, while ids are remembered.                 *)

InHand == Ids(waiting) \union ToSet(supplements)
Once(h, except) == \A i, j \in DOMAIN h : h[i] = h[j] => i = j \/ h[i] \in except

(* A message that waits, in the queue or for the goal, is there once, and  *)
(* its id is known; so is the id of one that was discarded, of the head of *)
(* the turn that runs, and, unless its turn broke, of one that was handed. *)
Placed ==
    /\ Apart(waiting) /\ Distinct(supplements)
    /\ Ids(waiting) \intersect ToSet(supplements) = {}
    /\ InHand \subseteq recent
    /\ dropped \subseteq recent /\ dropped \intersect InHand = {}
    /\ run.head # 0 => /\ run.head \in ToSet(run.texts)
                       /\ run.head \in recent \ (InHand \union dropped)
    /\ ToSet(handed) \subseteq recent \union broken
    /\ (ToSet(handed) \ broken) \intersect InHand = {}
    /\ Once(handed, broken)

Places == Shapes /\ Numbered /\ (~smooth => Placed)

LEMMA OnceMore ==
    ASSUME NEW S, NEW h \in Seq(S), NEW t \in Seq(S), NEW except,
           Once(h, except), Distinct(t), (ToSet(h) \ except) \intersect ToSet(t) = {}
    PROVE  Once(h \o t, except)
  <1>1. /\ DOMAIN (h \o t) = 1..(Len(h) + Len(t))
        /\ \A i \in 1..Len(h) : (h \o t)[i] = h[i]
        /\ \A i \in 1..(Len(h) + Len(t)) : i > Len(h) => (h \o t)[i] = t[i - Len(h)]
        /\ DOMAIN h = 1..Len(h) /\ DOMAIN t = 1..Len(t) /\ Len(h) \in Nat /\ Len(t) \in Nat
    OBVIOUS
  <1> SUFFICES ASSUME NEW i \in 1..(Len(h) + Len(t)), NEW j \in 1..(Len(h) + Len(t)),
                      (h \o t)[i] = (h \o t)[j], i < j, (h \o t)[i] \notin except
               PROVE  FALSE
    BY <1>1 DEF Once
  <1>2. CASE j <= Len(h)
    BY <1>2, <1>1 DEF Once
  <1>3. CASE i > Len(h)
    <2>1. i - Len(h) \in 1..Len(t) /\ j - Len(h) \in 1..Len(t) /\ i - Len(h) # j - Len(h)
      BY <1>3, <1>1
    <2>2. t[i - Len(h)] = t[j - Len(h)]
      BY <1>3, <1>1
    <2> QED
      BY <2>1, <2>2, <1>1 DEF Distinct
  <1>4. CASE i <= Len(h) /\ j > Len(h)
    <2>1. (h \o t)[i] \in ToSet(h) \ except
      BY <1>4, <1>1 DEF ToSet
    <2>2. j - Len(h) \in 1..Len(t) /\ (h \o t)[j] = t[j - Len(h)]
      BY <1>4, <1>1
    <2>3. (h \o t)[j] \in ToSet(t)
      BY <2>2, <1>1 DEF ToSet
    <2> QED
      BY <2>1, <2>3
  <1> QED
    BY <1>1, <1>2, <1>3, <1>4

LEMMA OnceWider == ASSUME NEW h, NEW a, NEW b, Once(h, a), a \subseteq b PROVE Once(h, b)
  BY DEF Once

LEMMA PlacesInit == BusInit => Places
  <1> SUFFICES ASSUME BusInit PROVE Places
    OBVIOUS
  <1>1. ToSet(<<>>) = {} /\ Distinct(<<>>) /\ \A b : Once(<<>>, b)
    BY DEF ToSet, Distinct, Once
  <1>2. run.head = 0 /\ waiting = <<>> /\ supplements = <<>> /\ handed = <<>> /\ dropped = {}
    BY DEF BusInit, Idle
  <1>3. Placed
    BY <1>1, <1>2, NoIds DEF Placed, InHand
  <1> QED
    BY <1>3, ShapesInit DEF Places

(* What the next task takes from the queue.                                *)
LEMMA NextTaken ==
    ASSUME NEW T, ShapesIn(T), Numbered, Placed, StartNext
    PROVE  /\ Apart(waiting') /\ Ids(waiting') \subseteq Ids(waiting)
           /\ ToSet(handed') \subseteq ToSet(handed) \union Ids(waiting)
           /\ ToSet(handed') \intersect (Ids(waiting') \union ToSet(supplements))
                \subseteq ToSet(handed) \intersect InHand
           /\ Once(handed', broken)
           /\ run'.head # 0 => /\ run'.head \in ToSet(run'.texts)
                               /\ run'.head \in Ids(waiting) \ Ids(waiting')
           /\ ToSet(handed') \ ToSet(handed) \subseteq Ids(waiting)
           /\ \A i \in DOMAIN handed' \ DOMAIN handed : handed'[i] \in Ids(waiting)
  <1>0. /\ waiting \in Seq(EntriesOf(T)) /\ handed \in Seq(T) /\ Apart(waiting) /\ HeadsIn(waiting)
        /\ Once(handed, broken) /\ Ids(waiting) \intersect ToSet(supplements) = {}
        /\ (ToSet(handed) \ broken) \intersect Ids(waiting) = {}
    BY DEF ShapesIn, Placed, Numbered, InHand
  <1>1. CASE waiting = <<>>
    <2>1. run' = Idle /\ UNCHANGED <<waiting, handed>>
      BY <1>1 DEF StartNext
    <2>2. run'.head = 0
      BY <2>1 DEF Idle
    <2> QED
      BY <1>0, <2>1, <2>2 DEF InHand
  <1>2. CASE waiting # <<>>
    <2> DEFINE e == Head(waiting)
    <2>1. /\ waiting' = Tail(waiting) /\ handed' = handed \o e.texts
          /\ run' = [phase |-> "prepare", n |-> e.n, head |-> e.head, texts |-> e.texts]
      BY <1>2 DEF StartNext, BeginTask
    <2>2. /\ e \in EntriesOf(T) /\ Ids(waiting) = Ids(Tail(waiting)) \union ToSet(e.texts)
          /\ Apart(Tail(waiting)) /\ Distinct(e.texts)
          /\ Ids(Tail(waiting)) \intersect ToSet(e.texts) = {}
          /\ e.head \in {0} \union ToSet(e.texts)
      BY <1>0, <1>2, EntryTaken
    <2> HIDE DEF e
    <2>3. e.texts \in Seq(T)
      BY <2>2 DEF EntriesOf
    <2>4. ToSet(handed') = ToSet(handed) \union ToSet(e.texts)
      BY <1>0, <2>1, <2>3, SetOfConcat
    <2>5. Once(handed', broken)
      <3>1. (ToSet(handed) \ broken) \intersect ToSet(e.texts) = {}
        BY <1>0, <2>2
      <3> QED
        BY <1>0, <2>1, <2>2, <2>3, <3>1, OnceMore
    <2>6. run'.head = e.head /\ run'.texts = e.texts
      BY <2>1
    <2>7. \A i \in DOMAIN handed' \ DOMAIN handed : handed'[i] \in ToSet(e.texts)
      <3>1. /\ DOMAIN handed' = 1..(Len(handed) + Len(e.texts)) /\ DOMAIN handed = 1..Len(handed)
            /\ Len(handed) \in Nat /\ Len(e.texts) \in Nat /\ DOMAIN e.texts = 1..Len(e.texts)
            /\ \A i \in 1..(Len(handed) + Len(e.texts)) :
                  i > Len(handed) => handed'[i] = e.texts[i - Len(handed)]
        BY <1>0, <2>1, <2>3
      <3> SUFFICES ASSUME NEW i \in DOMAIN handed' \ DOMAIN handed PROVE handed'[i] \in ToSet(e.texts)
        OBVIOUS
      <3>2. i - Len(handed) \in 1..Len(e.texts) /\ handed'[i] = e.texts[i - Len(handed)]
        BY <3>1
      <3> QED
        BY <3>1, <3>2 DEF ToSet
    <2> QED
      BY <1>0, <2>1, <2>2, <2>4, <2>5, <2>6, <2>7 DEF InHand
  <1> QED
    BY <1>1, <1>2

(* A message that is handled was in no place, unless the turn that had it  *)
(* broke; its id is remembered with the place it gets.                     *)
LEMMA ArrivalPlaced ==
    ASSUME NEW T, ShapesIn(T), Numbered, Placed, NEW m \in T, Process(m)
    PROVE  Placed'
  <1>0. /\ handed \in Seq(T) /\ supplements \in Seq(T) /\ waiting \in Seq(EntriesOf(T))
        /\ <<m>> \in Seq(T) /\ ToSet(<<m>>) = {m} /\ Distinct(<<m>>)
    BY SetOfOne DEF ShapesIn
  <1>1. /\ m \notin recent /\ broken' = broken
        /\ m \notin InHand /\ m \notin dropped /\ m \notin ToSet(handed) \ broken
        /\ m \notin Ids(waiting) /\ m \notin ToSet(supplements)
    BY DEF Process, Placed, InHand
  <1>p. /\ Apart(waiting) /\ Distinct(supplements)
        /\ Ids(waiting) \intersect ToSet(supplements) = {}
        /\ Ids(waiting) \subseteq recent /\ ToSet(supplements) \subseteq recent
        /\ dropped \subseteq recent
        /\ dropped \intersect Ids(waiting) = {} /\ dropped \intersect ToSet(supplements) = {}
        /\ run.head # 0 => /\ run.head \in ToSet(run.texts) /\ run.head \in recent
                           /\ run.head \notin Ids(waiting) /\ run.head \notin ToSet(supplements)
                           /\ run.head \notin dropped
        /\ ToSet(handed) \subseteq recent \union broken
        /\ (ToSet(handed) \ broken) \intersect Ids(waiting) = {}
        /\ (ToSet(handed) \ broken) \intersect ToSet(supplements) = {}
        /\ Once(handed, broken)
    BY DEF Placed, InHand
  <1>2. CASE RouteCancel(m) /\ recent' = recent \union {m}
    <2>1. /\ waiting' = <<>> /\ dropped' = dropped \union Ids(waiting)
          /\ UNCHANGED <<supplements, handed>>
          /\ run' = [run EXCEPT !.phase = IF @ = "turn" THEN "leave" ELSE @]
      BY <1>2 DEF RouteCancel
    <2>2. run'.head = run.head /\ run'.texts = run.texts
      BY <2>1 DEF ShapesIn, RunsOf
    <2> QED
      BY <1>p, <1>1, <1>2, <2>1, <2>2, NoIds DEF Placed, InHand
  <1>3. CASE RouteToGoal(m) /\ recent' = recent \union {m}
    <2>1. supplements' = Append(supplements, m) /\ UNCHANGED <<waiting, run, handed, dropped>>
      BY <1>3 DEF RouteToGoal, queueVars
    <2>2. ToSet(supplements') = ToSet(supplements) \union {m} /\ Distinct(supplements')
      BY <1>0, <1>1, <1>p, <2>1, SetOfAppend
    <2> QED
      BY <1>p, <1>1, <1>3, <2>1, <2>2 DEF Placed, InHand
  <1>4. CASE RouteToWaiting(m) /\ recent' = recent \union {m}
    <2>1. Join(<<m>>) /\ UNCHANGED <<supplements, run, handed, dropped>>
      BY <1>4 DEF RouteToWaiting, goalVars
    <2>2. waiting' = Joined(waiting, open, <<m>>)
      BY <2>1, JoinIsJoined
    <2>3. ToSet(<<m>>) \intersect Ids(waiting) = {}
      BY <1>0, <1>1
    <2>4. Ids(waiting') \subseteq Ids(waiting) \union {m} /\ Apart(waiting')
      BY <1>0, <1>p, <2>2, <2>3, EntryJoined DEF Numbered
    <2> QED
      BY <1>p, <1>1, <1>4, <2>1, <2>4 DEF Placed, InHand
  <1>5. CASE RouteToRun(m) /\ recent' = recent \union {m}
    <2>1. /\ handed' = handed \o <<m>> /\ run'.head = m /\ run'.texts = <<m>>
          /\ UNCHANGED <<waiting, supplements, dropped>>
      BY <1>5 DEF RouteToRun, goalVars, BeginTask, Entry
    <2>2. ToSet(handed') = ToSet(handed) \union {m}
      <3>1. ToSet(handed \o <<m>>) = ToSet(handed) \union ToSet(<<m>>)
        BY <1>0, SetOfConcat
      <3> QED
        BY <1>0, <2>1, <3>1
    <2>3. (ToSet(handed) \ broken) \intersect ToSet(<<m>>) = {}
      BY <1>0, <1>1
    <2>4. Once(handed', broken)
      BY <1>0, <1>p, <2>1, <2>3, OnceMore
    <2> QED
      BY <1>0, <1>p, <1>1, <1>5, <2>1, <2>2, <2>4 DEF Placed, InHand
  <1>6. CASE RouteToQueue(m) /\ recent' = recent \union {m}
    <2> DEFINE e == Entry(m, <<m>>)
    <2>1. waiting' = Append(waiting, e) /\ UNCHANGED <<supplements, run, handed, dropped>>
      BY <1>6 DEF RouteToQueue, Queue, goalVars
    <2>2. e \in EntriesOf(T) /\ e.texts = <<m>>
      BY <1>0 DEF Entry, EntriesOf, ShapesIn
    <2> HIDE DEF e
    <2>3. ToSet(e.texts) \intersect Ids(waiting) = {}
      BY <1>0, <1>1, <2>2
    <2>4. Ids(waiting') = Ids(waiting) \union {m} /\ Apart(waiting')
      BY <1>0, <1>p, <2>1, <2>2, <2>3, EntryAppended
    <2> QED
      BY <1>p, <1>1, <1>6, <2>1, <2>4 DEF Placed, InHand
  <1>7. CASE RouteRefused(m) /\ UNCHANGED recent
    <2>1. UNCHANGED <<waiting, supplements, run, handed, dropped>>
      BY <1>7 DEF RouteRefused, goalVars
    <2> QED
      BY <1>p, <1>1, <1>7, <2>1 DEF Placed, InHand
  <1> QED
    BY <1>2, <1>3, <1>4, <1>5, <1>6, <1>7 DEF Process

LEMMA EndPlaced ==
    ASSUME NEW T, 0 \notin T, ShapesIn(T), Numbered, Placed, TurnEnds \/ TurnCloses \/ TurnBreaks
    PROVE  Placed'
  <1>p. /\ Apart(waiting) /\ Distinct(supplements)
        /\ Ids(waiting) \intersect ToSet(supplements) = {}
        /\ Ids(waiting) \subseteq recent /\ ToSet(supplements) \subseteq recent
        /\ dropped \subseteq recent
        /\ dropped \intersect Ids(waiting) = {} /\ dropped \intersect ToSet(supplements) = {}
        /\ run.head # 0 => /\ run.head \in ToSet(run.texts) /\ run.head \in recent
                           /\ run.head \notin Ids(waiting) /\ run.head \notin ToSet(supplements)
                           /\ run.head \notin dropped
        /\ ToSet(handed) \subseteq recent \union broken
        /\ (ToSet(handed) \ broken) \intersect Ids(waiting) = {}
        /\ (ToSet(handed) \ broken) \intersect ToSet(supplements) = {}
        /\ Once(handed, broken)
    BY DEF Placed, InHand
  <1>0. handed \in Seq(T) /\ supplements \in Seq(T) /\ waiting \in Seq(EntriesOf(T))
    BY DEF ShapesIn
  <1>1. ASSUME StartNext, UNCHANGED <<supplements, dropped>>,
               recent \ {run.head} \subseteq recent', broken \subseteq broken',
               run.head \notin recent' => run.head = 0 \/ run.head \in broken',
               run.head = 0 => recent \subseteq recent'
        PROVE  Placed'
    <2>1. /\ Apart(waiting') /\ Ids(waiting') \subseteq Ids(waiting)
          /\ ToSet(handed') \subseteq ToSet(handed) \union Ids(waiting)
          /\ ToSet(handed') \intersect (Ids(waiting') \union ToSet(supplements))
               \subseteq ToSet(handed) \intersect InHand
          /\ Once(handed', broken)
          /\ run'.head # 0 => /\ run'.head \in ToSet(run'.texts)
                              /\ run'.head \in Ids(waiting) \ Ids(waiting')
      BY <1>1, NextTaken
    <2>2. Once(handed', broken')
      BY <1>1, <2>1, OnceWider
    <2>3. Ids(waiting) \subseteq recent' /\ ToSet(supplements) \subseteq recent' /\ dropped \subseteq recent'
      BY <1>1, <1>p
    <2>4. ToSet(handed') \subseteq recent' \union broken'
      BY <1>1, <1>p, <2>1, <2>3
    <2>5. (ToSet(handed') \ broken') \intersect InHand' = {}
      BY <1>1, <1>p, <2>1 DEF InHand
    <2>6. run'.head # 0 => run'.head \in recent' \ (InHand' \union dropped')
      BY <1>1, <1>p, <2>1, <2>3 DEF InHand
    <2>7. InHand' \subseteq recent' /\ dropped' \intersect InHand' = {}
      BY <1>1, <1>p, <2>1, <2>3 DEF InHand
    <2> QED
      BY <1>1, <1>p, <2>1, <2>2, <2>3, <2>4, <2>5, <2>6, <2>7 DEF Placed
  <1>2. CASE TurnEnds /\ LeaveUnread
    BY <1>1, <1>2, <1>p DEF TurnEnds, LeaveUnread, Remember, goalVars
  <1>3. CASE TurnCloses
    BY <1>1, <1>3, <1>p DEF TurnCloses, goalVars
  <1>4. CASE TurnBreaks
    <2>1. /\ StartNext /\ recent' = recent \ {run.head} /\ broken' = broken \union ToSet(run.texts)
          /\ UNCHANGED <<supplements, dropped>>
      BY <1>4 DEF TurnBreaks
    <2>2. run.head = 0 => recent \subseteq recent'
      BY <2>1 DEF ShapesIn
    <2> QED
      BY <1>1, <2>1, <2>2, <1>p
  <1>5. CASE TurnEnds /\ Reprocess
    <2>1. /\ supplements' = <<>> /\ UNCHANGED <<handed, dropped, broken>> /\ recent \subseteq recent'
      BY <1>5 DEF TurnEnds, Reprocess, Remember
    <2>2. run'.head = 0
      <3>1. run' \in {[Idle EXCEPT !.phase = "closing", !.n = made + 1], [Idle EXCEPT !.phase = "closing"]}
        BY <1>5 DEF Reprocess
      <3> DEFINE v == [Idle EXCEPT !.phase = "closing", !.n = made + 1]
                 w == [Idle EXCEPT !.phase = "closing"]
      <3>2. made + 1 \in Nat
        BY DEF ShapesIn
      <3>3. v.head = 0 /\ w.head = 0
        BY <3>2, ClosingRun
      <3>4. run' \in {v, w}
        BY <3>1
      <3> HIDE DEF v, w
      <3> QED
        BY <3>3, <3>4
    <2>3. Apart(waiting') /\ Ids(waiting') \subseteq Ids(waiting) \union ToSet(supplements)
      <3>1. CASE open = 0 /\ ~Full
        <4> DEFINE e == Entry(0, supplements)
        <4>1. waiting' = Append(waiting, e)
          BY <1>5, <3>1 DEF Reprocess, Queue
        <4>2. e \in EntriesOf(T) /\ e.texts = supplements
          BY <1>0 DEF Entry, EntriesOf, ShapesIn
        <4> HIDE DEF e
        <4>3. ToSet(e.texts) \intersect Ids(waiting) = {} /\ Distinct(e.texts)
          BY <1>p, <4>2
        <4> QED
          BY <1>0, <1>p, <4>1, <4>2, <4>3, EntryAppended
      <3>2. CASE ~(open = 0 /\ ~Full) /\ open # 0
        <4>1. waiting' = Joined(waiting, open, supplements)
          BY <1>5, <3>2, JoinIsJoined DEF Reprocess
        <4>2. ToSet(supplements) \intersect Ids(waiting) = {}
          BY <1>p
        <4> QED
          BY <1>0, <1>p, <4>1, <4>2, EntryJoined DEF Numbered
      <3>3. CASE ~(open = 0 /\ ~Full) /\ open = 0
        BY <1>5, <1>p, <3>3 DEF Reprocess
      <3> QED
        BY <3>1, <3>2, <3>3
    <2>4. ToSet(<<>>) = {} /\ Distinct(<<>>)
      BY DEF ToSet, Distinct
    <2> QED
      BY <1>p, <2>1, <2>2, <2>3, <2>4 DEF Placed, InHand
  <1> QED
    BY <1>2, <1>3, <1>4, <1>5 DEF TurnEnds

LEMMA AsidePlaced ==
    ASSUME NEW T, ShapesIn(T), Placed, Aside, ~smooth
    PROVE  Placed'
  <1>0. handed \in Seq(T) /\ supplements \in Seq(T)
    BY DEF ShapesIn
  <1>1. UNCHANGED <<recent, waiting, dropped, broken>> /\ run'.head = run.head /\ run'.texts = run.texts
    <2>1. UNCHANGED <<recent, waiting, dropped, broken>>
      BY DEF Aside, ForgetId, AckReturns, EnterProcess, StartGoal, ResumeByText, ResumeByButton,
             ReadSupplements, GoalStops, GoalStep, queueVars
    <2>2. run' = run \/ \E p \in {"turn", "goal"} : run' = [run EXCEPT !.phase = p]
      BY DEF Aside, ForgetId, AckReturns, EnterProcess, StartGoal, ResumeByText, ResumeByButton,
             ReadSupplements, GoalStops
    <2>3. run \in RunsOf(T)
      BY DEF ShapesIn
    <2> QED
      BY <2>1, <2>2, <2>3 DEF RunsOf
  <1>2. ToSet(<<>>) = {} /\ Distinct(<<>>)
    BY DEF ToSet, Distinct
  <1>3. CASE ReadSupplements
    <2>1. handed' = handed \o supplements /\ supplements' = <<>>
      BY <1>3 DEF ReadSupplements
    <2>2. ToSet(handed') = ToSet(handed) \union ToSet(supplements)
      BY <1>0, <2>1, SetOfConcat
    <2>3. Once(handed', broken)
      <3>1. (ToSet(handed) \ broken) \intersect ToSet(supplements) = {}
        BY DEF Placed, InHand
      <3> QED
        BY <1>0, <2>1, <3>1, OnceMore DEF Placed
    <2> QED
      BY <1>1, <1>2, <2>1, <2>2, <2>3 DEF Placed, InHand
  <1>4. CASE ~ReadSupplements
    <2>1. handed' = handed /\ supplements' \in {supplements, <<>>}
      BY <1>4 DEF Aside, ForgetId, AckReturns, EnterProcess, StartGoal, ResumeByText,
                  ResumeByButton, GoalStops, goalVars
    <2> QED
      BY <1>1, <1>2, <2>1 DEF Placed, InHand
  <1> QED
    BY <1>3, <1>4

LEMMA PlacesStep == Places /\ [BusNext]_busVars => Places'
  <1> SUFFICES ASSUME Places, [BusNext]_busVars, ~smooth PROVE Placed'
    <2>1. BusNext => smooth' = smooth
      BY DEF BusNext
    <2>2. UNCHANGED busVars => smooth' = smooth
      BY DEF busVars
    <2> QED
      BY <2>1, <2>2, ShapesStep DEF Places
  <1>0. Shapes /\ Numbered /\ Placed
    BY DEF Places
  <1>1. CASE UNCHANGED busVars
    BY <1>0, <1>1 DEF busVars, Placed, InHand
  <1>2. ASSUME NEW k \in Kinds, Send(k) PROVE Placed'
    <2>1. kind \in Seq(Kinds) /\ ShapesIn(Messages) /\ Process(Len(kind) + 1)
      BY <1>0, <1>2 DEF Shapes, Send
    <2>2. Messages \subseteq Nat /\ Len(kind) + 1 \in Nat
      BY <2>1 DEF Messages
    <2>3. ShapesIn(Nat)
      BY <2>1, <2>2, MoreMessages DEF ShapesIn
    <2> QED
      BY <1>0, <2>1, <2>2, <2>3, ArrivalPlaced
  <1>3. ASSUME NEW m \in Messages, Redeliver(m) PROVE Placed'
    BY <1>0, <1>3, ArrivalPlaced DEF Redeliver, Shapes
  <1>4. CASE Aside
    BY <1>0, <1>4, AsidePlaced DEF Shapes
  <1>5. CASE TurnEnds \/ TurnCloses \/ TurnBreaks
    <2>1. 0 \notin Messages
      BY DEF Messages
    <2> QED
      BY <1>0, <1>5, <2>1, EndPlaced DEF Shapes
  <1> QED
    BY <1>1, <1>2, <1>3, <1>4, <1>5 DEF BusNext, TurnProgress, Aside, Kinds

(* HandedOnce, for any number of messages and any limits: a message is     *)
(* remembered from the moment it has a place, through queue, joining and   *)
(* supplements, and only the turn that broke with it forgets it.           *)
THEOREM NeverHandedTwice == BusSpec => []HandedOnce
  <1>1. Places => HandedOnce
    BY DEF Places, Placed, Once, HandedOnce
  <1> QED
    BY <1>1, PlacesInit, PlacesStep, PTL DEF BusSpec

(* What a step hands was not discarded before.                             *)
LEMMA NewlyHanded ==
    ASSUME Places, ~smooth, BusNext, NEW i \in DOMAIN handed' \ DOMAIN handed
    PROVE  handed'[i] \notin dropped
  <1>0. Shapes /\ Numbered /\ Placed
    BY DEF Places
  <1>1. ASSUME NEW S, handed \in Seq(S), NEW t \in Seq(S), handed' = handed \o t
        PROVE  handed'[i] \in ToSet(t)
    <2>1. /\ DOMAIN handed' = 1..(Len(handed) + Len(t)) /\ DOMAIN handed = 1..Len(handed)
          /\ Len(handed) \in Nat /\ Len(t) \in Nat /\ DOMAIN t = 1..Len(t)
          /\ \A k \in 1..(Len(handed) + Len(t)) : k > Len(handed) => handed'[k] = t[k - Len(handed)]
      BY <1>1
    <2>2. i - Len(handed) \in 1..Len(t) /\ handed'[i] = t[i - Len(handed)]
      BY <2>1
    <2> QED
      BY <2>1, <2>2 DEF ToSet
  <1>2. ASSUME NEW m, m \in Nat, Process(m) PROVE handed'[i] \notin dropped
    <2>1. handed' = handed \/ handed' = handed \o <<m>>
      BY <1>2 DEF Process, RouteCancel, RouteToGoal, RouteToWaiting, RouteToRun, RouteToQueue,
                  RouteRefused, BeginTask, Entry
    <2>2. handed \in Seq(Nat) /\ <<m>> \in Seq(Nat)
      <3>1. handed \in Seq(Messages) /\ Messages \subseteq Nat
        BY <1>0 DEF Shapes, ShapesIn, Messages
      <3>2. handed \in Seq(Nat)
        BY <3>1, MoreMessages
      <3>3. <<m>> \in Seq(Nat)
        BY <1>2
      <3> QED
        BY <3>2, <3>3
    <2>3. handed'[i] = m
      BY <1>1, <2>1, <2>2, SetOfOne
    <2> QED
      BY <2>3, <1>0, <1>2 DEF Process, Placed
  <1>3. ASSUME NEW k \in Kinds, Send(k) PROVE handed'[i] \notin dropped
    <2>1. Len(kind) + 1 \in Nat
      BY <1>0 DEF Shapes
    <2> QED
      BY <2>1, <1>2, <1>3 DEF Send
  <1>4. ASSUME NEW m \in Messages, Redeliver(m) PROVE handed'[i] \notin dropped
    BY <1>2, <1>4 DEF Redeliver, Messages
  <1>5. ASSUME StartNext PROVE handed'[i] \notin dropped
    <2>1. handed'[i] \in Ids(waiting)
      BY <1>0, <1>5, NextTaken DEF Shapes
    <2> QED
      BY <1>0, <2>1 DEF Placed, InHand
  <1>6. CASE TurnEnds \/ TurnCloses \/ TurnBreaks
    <2>1. ~Reprocess
      BY DEF Reprocess
    <2> QED
      BY <1>5, <1>6, <2>1 DEF TurnEnds, TurnCloses, TurnBreaks, LeaveUnread
  <1>7. CASE ReadSupplements
    <2>1. handed \in Seq(Messages) /\ supplements \in Seq(Messages)
      BY <1>0 DEF Shapes, ShapesIn
    <2>2. handed'[i] \in ToSet(supplements)
      BY <1>1, <1>7, <2>1 DEF ReadSupplements
    <2> QED
      BY <1>0, <2>2 DEF Placed, InHand
  <1>8. ASSUME Aside, ~ReadSupplements PROVE FALSE
    BY <1>8 DEF Aside, ForgetId, AckReturns, EnterProcess, StartGoal, ResumeByText,
                ResumeByButton, GoalStops, goalVars
  <1> QED
    BY <1>3, <1>4, <1>6, <1>7, <1>8 DEF BusNext, TurnProgress, Aside, Kinds

(* DiscardedStaysOut, for any number of messages: what /cancelar discarded *)
(* is known by its id, and is neither waiting nor the head of a turn that  *)
(* could forget it.                                                        *)
THEOREM DiscardedNeverRuns == BusSpec => DiscardedStaysOut
  <1>1. Places /\ [BusNext]_busVars
          => [~smooth => \A i \in DOMAIN handed' \ DOMAIN handed : handed'[i] \notin dropped]_busVars
    BY NewlyHanded
  <1> QED
    BY <1>1, PlacesInit, PlacesStep, PTL DEF BusSpec, DiscardedStaysOut

-----------------------------------------------------------------------------
(* No text is lost on the way, where sends resolve at once and no turn     *)
(* breaks.                                                                 *)

(* Where a message may be.                                                 *)
Accounted == InHand \union ToSet(handed) \union dropped \union refused

(* Nothing waits for a send; a goal that takes supplements, or that left   *)
(* some unread, has a turn that has not ended; and the entry that texts    *)
(* may join is in the queue.                                               *)
Steady ==
    /\ acking = {}
    /\ goal = "live" => run.phase = "goal" /\ runner = "turn"
    /\ supplements # <<>> => run.phase = "goal"
    /\ open # 0 => \E i \in DOMAIN waiting : waiting[i].n = open

AllAccounted == \A m \in Messages : kind[m] # "cancel" => m \in Accounted

LEMMA JoinAdds ==
    ASSUME NEW S, NEW w \in Seq(EntriesOf(S)), NEW k, NEW t \in Seq(S),
           \E i \in DOMAIN w : w[i].n = k
    PROVE  /\ Ids(w) \union ToSet(t) \subseteq Ids(Joined(w, k, t))
           /\ \E i \in DOMAIN Joined(w, k, t) : Joined(w, k, t)[i].n = k
  <1> DEFINE v == Joined(w, k, t)
  <1>1. DOMAIN v = DOMAIN w
    BY DEF Joined
  <1>2. ASSUME NEW i \in DOMAIN w
        PROVE  /\ v[i].n = w[i].n
               /\ ToSet(w[i].texts) \subseteq ToSet(v[i].texts)
               /\ w[i].n = k => ToSet(t) \subseteq ToSet(v[i].texts)
    <2>1. w[i] \in EntriesOf(S)
      OBVIOUS
    <2>2. v[i] = IF w[i].n = k THEN [w[i] EXCEPT !.texts = w[i].texts \o t] ELSE w[i]
      BY DEF Joined
    <2>3. w[i].texts \in Seq(S)
      BY <2>1 DEF EntriesOf
    <2>4. ToSet(w[i].texts \o t) = ToSet(w[i].texts) \union ToSet(t)
      BY <2>3, SetOfConcat
    <2> HIDE DEF v
    <2>5. v[i].n = w[i].n /\ v[i].texts = IF w[i].n = k THEN w[i].texts \o t ELSE w[i].texts
      BY <2>1, <2>2 DEF EntriesOf
    <2> QED
      BY <2>4, <2>5
  <1> HIDE DEF v
  <1>3. Ids(w) \union ToSet(t) \subseteq Ids(v)
    BY <1>1, <1>2, IdsAre
  <1> QED
    BY <1>1, <1>2, <1>3 DEF v

(* The next task takes what it takes from the queue to the turn.           *)
LEMMA NextTakes ==
    ASSUME NEW T, ShapesIn(T), StartNext,
           open # 0 => \E i \in DOMAIN waiting : waiting[i].n = open
    PROVE  /\ Ids(waiting) \union ToSet(handed) \subseteq Ids(waiting') \union ToSet(handed')
           /\ open' # 0 => \E i \in DOMAIN waiting' : waiting'[i].n = open'
  <1>0. waiting \in Seq(EntriesOf(T)) /\ handed \in Seq(T)
    BY DEF ShapesIn
  <1>1. CASE waiting = <<>>
    <2>1. UNCHANGED <<waiting, open, handed>>
      BY <1>1 DEF StartNext
    <2> QED
      BY <2>1
  <1>2. CASE waiting # <<>>
    <2> DEFINE e == Head(waiting)
    <2>1. /\ waiting' = Tail(waiting) /\ handed' = handed \o e.texts
          /\ open' = IF open = e.n THEN 0 ELSE open
      BY <1>2 DEF StartNext, BeginTask
    <2>2. e \in EntriesOf(T) /\ Ids(waiting) = Ids(Tail(waiting)) \union ToSet(e.texts)
      BY <1>0, <1>2, EntryTaken
    <2>3. ASSUME open' # 0 PROVE \E i \in DOMAIN waiting' : waiting'[i].n = open'
      <3>1. PICK i \in DOMAIN waiting : waiting[i].n = open
        BY <2>1, <2>3
      <3>2. open' = open /\ open # e.n
        BY <2>1, <2>3
      <3>3. /\ DOMAIN waiting = 1..Len(waiting) /\ Len(waiting) \in Nat \ {0}
            /\ DOMAIN Tail(waiting) = 1..(Len(waiting) - 1)
            /\ \A j \in 1..(Len(waiting) - 1) : Tail(waiting)[j] = waiting[j + 1]
            /\ e = waiting[1]
        BY <1>0, <1>2
      <3> HIDE DEF e
      <3>4. i # 1
        BY <3>1, <3>2, <3>3
      <3>5. i - 1 \in 1..(Len(waiting) - 1) /\ (i - 1) + 1 = i
        BY <3>1, <3>3, <3>4
      <3> QED
        BY <2>1, <3>1, <3>2, <3>3, <3>5
    <2> HIDE DEF e
    <2>4. e.texts \in Seq(T)
      BY <2>2 DEF EntriesOf
    <2>5. ToSet(handed') = ToSet(handed) \union ToSet(e.texts)
      BY <1>0, <2>1, <2>4, SetOfConcat
    <2> QED
      BY <2>1, <2>2, <2>3, <2>5
  <1> QED
    BY <1>1, <1>2

(* A message that is handled gets a place, and takes none from another.    *)
LEMMA ArrivalSettles ==
    ASSUME NEW T, ShapesIn(T), smooth, Steady, NEW m \in T, Process(m)
    PROVE  /\ Accounted \subseteq Accounted' /\ Steady'
           /\ kind'[m] # "cancel" => m \in Accounted'
  <1>0. /\ handed \in Seq(T) /\ supplements \in Seq(T) /\ waiting \in Seq(EntriesOf(T))
        /\ run \in RunsOf(T) /\ made \in Nat
        /\ <<m>> \in Seq(T) /\ ToSet(<<m>>) = {m}
    BY SetOfOne DEF ShapesIn
  <1>1. CASE RouteCancel(m)
    <2>1. /\ waiting' = <<>> /\ open' = 0 /\ dropped' = dropped \union Ids(waiting)
          /\ goal' # "live" /\ kind'[m] = "cancel"
          /\ UNCHANGED <<acking, runner, supplements, handed, refused>>
          /\ run' = [run EXCEPT !.phase = IF @ = "turn" THEN "leave" ELSE @]
      BY <1>1 DEF RouteCancel
    <2>2. run.phase = "goal" => run'.phase = "goal"
      BY <1>0, <2>1 DEF RunsOf
    <2> QED
      BY <2>1, <2>2 DEF Accounted, InHand, Steady
  <1>2. CASE RouteToGoal(m)
    <2>1. /\ supplements' = Append(supplements, m) /\ goal = "live"
          /\ UNCHANGED <<waiting, made, open, acking, ackSent, run, goal, runner, handed, dropped, refused>>
      BY <1>2 DEF RouteToGoal, queueVars
    <2>2. ToSet(supplements') = ToSet(supplements) \union {m}
      BY <1>0, <2>1, SetOfAppend
    <2> QED
      BY <2>1, <2>2 DEF Accounted, InHand, Steady
  <1>3. CASE RouteToWaiting(m)
    <2>1. /\ open # 0 /\ waiting' = Joined(waiting, open, <<m>>)
          /\ UNCHANGED <<made, open, acking, ackSent, run, goal, runner, supplements,
                         handed, dropped, refused>>
      BY <1>3, JoinIsJoined DEF RouteToWaiting, goalVars
    <2>2. /\ Ids(waiting) \union {m} \subseteq Ids(waiting')
          /\ \E i \in DOMAIN waiting' : waiting'[i].n = open
      <3>1. \E i \in DOMAIN waiting : waiting[i].n = open
        BY <2>1 DEF Steady
      <3> DEFINE t == <<m>>
      <3>2. t \in Seq(T) /\ ToSet(t) = {m}
        BY <1>0
      <3> HIDE DEF t
      <3>3. /\ Ids(waiting) \union ToSet(t) \subseteq Ids(Joined(waiting, open, t))
            /\ \E i \in DOMAIN Joined(waiting, open, t) : Joined(waiting, open, t)[i].n = open
        <4>1. t \in Seq(T) /\ waiting \in Seq(EntriesOf(T))
          BY <1>0, <3>2
        <4> QED
          BY ONLY <3>1, <4>1, JoinAdds
      <3>4. waiting' = Joined(waiting, open, t)
        BY <2>1 DEF t
      <3> QED
        BY <3>2, <3>3, <3>4
    <2> QED
      BY <2>1, <2>2 DEF Accounted, InHand, Steady
  <1>4. CASE RouteToRun(m)
    <2>1. /\ handed' = handed \o <<m>> /\ open' = 0 /\ run = Idle
          /\ UNCHANGED <<waiting, acking, ackSent, goal, runner, supplements, dropped, refused>>
      BY <1>4 DEF RouteToRun, goalVars, BeginTask, Entry
    <2>2. ToSet(handed') = ToSet(handed) \union {m}
      <3> DEFINE t == <<m>>
      <3>1. t \in Seq(T) /\ ToSet(t) = {m}
        BY <1>0
      <3>2. handed' = handed \o t
        BY <2>1
      <3> HIDE DEF t
      <3>3. ToSet(handed \o t) = ToSet(handed) \union ToSet(t)
        BY <1>0, <3>1, SetOfConcat
      <3> QED
        BY <3>1, <3>2, <3>3
    <2>3. run.phase # "goal"
      BY <2>1 DEF Idle
    <2> QED
      BY <2>1, <2>2, <2>3 DEF Accounted, InHand, Steady
  <1>5. CASE RouteToQueue(m)
    <2> DEFINE e == Entry(m, <<m>>)
    <2>1. /\ waiting' = Append(waiting, e) /\ acking' = acking /\ open' \in {0, e.n}
          /\ UNCHANGED <<run, goal, runner, supplements, handed, dropped, refused>>
      BY <1>5 DEF RouteToQueue, Queue, goalVars
    <2>2. e \in EntriesOf(T) /\ e.texts = <<m>>
      BY <1>0 DEF Entry, EntriesOf
    <2> HIDE DEF e
    <2>3. Ids(waiting') = Ids(waiting) \union {m}
      BY <1>0, <2>1, <2>2, EntryAppended
    <2>4. Len(waiting) + 1 \in DOMAIN waiting' /\ waiting'[Len(waiting) + 1] = e
      BY <1>0, <2>1, <2>2
    <2> QED
      BY <2>1, <2>3, <2>4 DEF Accounted, InHand, Steady
  <1>6. CASE RouteRefused(m)
    <2>1. /\ refused' = refused \union {m} /\ open' = 0
          /\ UNCHANGED <<waiting, acking, run, goal, runner, supplements, handed, dropped>>
      BY <1>6 DEF RouteRefused, goalVars
    <2> QED
      BY <2>1 DEF Accounted, InHand, Steady
  <1> QED
    BY <1>1, <1>2, <1>3, <1>4, <1>5, <1>6 DEF Process

(* The end of a task settles what its goal has not read.                   *)
LEMMA EndSettles ==
    ASSUME NEW T, ShapesIn(T), smooth, Steady, TurnEnds \/ TurnCloses
    PROVE  Accounted \subseteq Accounted' /\ Steady'
  <1>0. /\ handed \in Seq(T) /\ supplements \in Seq(T) /\ waiting \in Seq(EntriesOf(T))
        /\ made \in Nat /\ ToSet(<<>>) = {}
    BY DEF ShapesIn, ToSet
  <1>1. goal # "live"
    BY DEF Steady, TurnEnds, TurnCloses
  <1>2. ASSUME StartNext, supplements = <<>>,
               UNCHANGED <<made, acking, goal, runner, supplements, dropped, refused>>
        PROVE  Accounted \subseteq Accounted' /\ Steady'
    <2>1. /\ Ids(waiting) \union ToSet(handed) \subseteq Ids(waiting') \union ToSet(handed')
          /\ open' # 0 => \E i \in DOMAIN waiting' : waiting'[i].n = open'
      BY <1>2, NextTakes DEF Steady
    <2> QED
      BY <1>1, <1>2, <2>1 DEF Accounted, InHand, Steady
  <1>3. CASE TurnEnds /\ LeaveUnread
    BY <1>1, <1>2, <1>3 DEF TurnEnds, LeaveUnread, goalVars
  <1>4. CASE TurnCloses
    BY <1>2, <1>4 DEF TurnCloses, Steady, goalVars
  <1>5. CASE TurnEnds /\ Reprocess
    <2>1. supplements' = <<>> /\ UNCHANGED <<goal, runner, handed, dropped>>
      BY <1>5 DEF TurnEnds, Reprocess
    <2>2. CASE open = 0 /\ ~Full
      <3> DEFINE e == Entry(0, supplements)
      <3>1. waiting' = Append(waiting, e) /\ acking' = acking /\ open' = e.n /\ refused' = refused
        BY <1>5, <2>2 DEF Reprocess, Queue
      <3>2. e \in EntriesOf(T) /\ e.texts = supplements
        BY <1>0 DEF Entry, EntriesOf
      <3> HIDE DEF e
      <3>3. Ids(waiting') = Ids(waiting) \union ToSet(supplements)
        BY <1>0, <3>1, <3>2, EntryAppended
      <3>4. Len(waiting) + 1 \in DOMAIN waiting' /\ waiting'[Len(waiting) + 1] = e
        BY <1>0, <3>1, <3>2
      <3> QED
        BY <1>0, <1>1, <2>1, <3>1, <3>3, <3>4 DEF Accounted, InHand, Steady
    <2>3. CASE open # 0
      <3>1. /\ waiting' = Joined(waiting, open, supplements)
            /\ acking' = acking /\ open' = open /\ refused' = refused
        BY <1>5, <2>3, JoinIsJoined DEF Reprocess
      <3>2. /\ Ids(waiting) \union ToSet(supplements) \subseteq Ids(waiting')
            /\ \E i \in DOMAIN waiting' : waiting'[i].n = open
        BY <1>0, <2>3, <3>1, JoinAdds DEF Steady
      <3> QED
        BY <1>0, <1>1, <2>1, <3>1, <3>2 DEF Accounted, InHand, Steady
    <2>4. CASE open = 0 /\ Full
      <3>1. /\ refused' = refused \union ToSet(supplements)
            /\ UNCHANGED <<waiting, open, acking>>
        BY <1>5, <2>4 DEF Reprocess
      <3> QED
        BY <1>0, <1>1, <2>1, <2>4, <3>1 DEF Accounted, InHand, Steady
    <2> QED
      BY <2>2, <2>3, <2>4
  <1> QED
    BY <1>3, <1>4, <1>5 DEF TurnEnds

(* So does the read of a goal; a new goal finds nothing unread.            *)
LEMMA AsideSettles ==
    ASSUME NEW T, ShapesIn(T), smooth, Steady, Aside
    PROVE  Accounted \subseteq Accounted' /\ Steady'
  <1>0. /\ handed \in Seq(T) /\ supplements \in Seq(T) /\ run \in RunsOf(T)
        /\ ToSet(<<>>) = {}
    BY DEF ShapesIn, ToSet
  <1>1. ~(\E n \in acking : AckReturns(n)) /\ ~ResumeByButton
    BY DEF Steady, ResumeByButton
  <1>2. UNCHANGED <<waiting, open, acking, dropped, refused>>
    BY <1>1 DEF Aside, ForgetId, EnterProcess, StartGoal, ResumeByText, ReadSupplements,
                GoalStops, GoalStep, queueVars
  <1>3. CASE ReadSupplements
    <2>1. /\ handed' = handed \o supplements /\ supplements' = <<>>
          /\ UNCHANGED <<run, goal, runner>>
      BY <1>3 DEF ReadSupplements
    <2>2. ToSet(handed') = ToSet(handed) \union ToSet(supplements)
      BY <1>0, <2>1, SetOfConcat
    <2> QED
      BY <1>0, <1>2, <2>1, <2>2 DEF Accounted, InHand, Steady
  <1>4. CASE StartGoal \/ ResumeByText
    <2>1. /\ run.phase = "turn" /\ run' = [run EXCEPT !.phase = "goal"]
          /\ handed' = handed /\ supplements' \in {supplements, <<>>}
          /\ goal' = "live" => runner' = "turn"
      BY <1>4 DEF StartGoal, ResumeByText
    <2>2. supplements = <<>> /\ run'.phase = "goal"
      BY <1>0, <2>1 DEF Steady, RunsOf
    <2> QED
      BY <1>0, <1>2, <2>1, <2>2 DEF Accounted, InHand, Steady
  <1>5. CASE EnterProcess
    <2>1. /\ run.phase = "prepare" /\ goal' \in {goal, "over"}
          /\ UNCHANGED <<runner, supplements, handed>>
      BY <1>5 DEF EnterProcess
    <2> QED
      BY <1>2, <2>1 DEF Accounted, InHand, Steady
  <1>6. CASE GoalStops \/ \E m \in Messages : ForgetId(m)
    <2>1. ASSUME GoalStops
          PROVE  goal' # "live" /\ UNCHANGED <<run, supplements, handed>>
      BY <2>1 DEF GoalStops
    <2>2. ASSUME NEW m \in Messages, ForgetId(m)
          PROVE  UNCHANGED <<goal, runner, run, supplements, handed>>
      BY <2>2 DEF ForgetId, goalVars
    <2> QED
      BY <1>2, <1>6, <2>1, <2>2 DEF Accounted, InHand, Steady
  <1> QED
    BY <1>1, <1>3, <1>4, <1>5, <1>6 DEF Aside

Settled == Shapes /\ Numbered /\ (smooth => Steady /\ AllAccounted)

LEMMA SettledInit == BusInit => Settled
  <1> SUFFICES ASSUME BusInit PROVE Steady /\ AllAccounted
    BY ShapesInit DEF Settled
  <1>1. Messages = {} /\ acking = {} /\ goal = "none" /\ supplements = <<>> /\ open = 0
    BY DEF BusInit, Messages
  <1> QED
    BY <1>1 DEF Steady, AllAccounted

LEMMA SettledStep == Settled /\ [BusNext]_busVars => Settled'
  <1> SUFFICES ASSUME Settled, [BusNext]_busVars, smooth PROVE Steady' /\ AllAccounted'
    <2>1. BusNext => smooth' = smooth
      BY DEF BusNext
    <2>2. UNCHANGED busVars => smooth' = smooth
      BY DEF busVars
    <2> QED
      BY <2>1, <2>2, ShapesStep DEF Settled
  <1>0. Shapes /\ Numbered /\ Steady /\ AllAccounted /\ ShapesIn(Messages)
    BY DEF Settled, Shapes
  <1>1. CASE UNCHANGED busVars
    BY <1>0, <1>1 DEF busVars, Steady, AllAccounted, Accounted, InHand, Messages
  <1>2. ASSUME NEW k \in Kinds, Send(k) PROVE Steady' /\ AllAccounted'
    <2>1. kind \in Seq(Kinds) /\ Process(Len(kind) + 1) /\ kind' = Append(kind, k)
      BY <1>0, <1>2 DEF Shapes, Send
    <2>2. Messages \subseteq Nat /\ Len(kind) + 1 \in Nat
      BY <2>1 DEF Messages
    <2>3. ShapesIn(Nat)
      BY <1>0, <2>2, MoreMessages DEF ShapesIn
    <2>4. /\ Accounted \subseteq Accounted' /\ Steady'
          /\ kind'[Len(kind) + 1] # "cancel" => Len(kind) + 1 \in Accounted'
      BY <1>0, <2>1, <2>2, <2>3, ArrivalSettles
    <2>5. \A m \in Messages' : m = Len(kind) + 1 \/ (m \in Messages /\ kind'[m] = kind[m])
      BY <1>2, <2>1 DEF Messages
    <2> QED
      BY <1>0, <2>4, <2>5 DEF AllAccounted
  <1>3. ASSUME Accounted \subseteq Accounted', Steady', kind' = kind
        PROVE  Steady' /\ AllAccounted'
    BY <1>0, <1>3 DEF AllAccounted, Messages
  <1>4. ASSUME NEW m \in Messages, Redeliver(m) PROVE Steady' /\ AllAccounted'
    BY <1>0, <1>3, <1>4, ArrivalSettles DEF Redeliver
  <1>5. CASE Aside
    <2>1. kind' = kind
      BY <1>5 DEF Aside, ForgetId, AckReturns, EnterProcess, StartGoal, ResumeByText,
                  ResumeByButton, ReadSupplements, GoalStops, GoalStep
    <2> QED
      BY <1>0, <1>3, <1>5, <2>1, AsideSettles
  <1>6. CASE TurnEnds \/ TurnCloses
    BY <1>0, <1>3, <1>6, EndSettles DEF TurnEnds, TurnCloses
  <1>7. ~TurnBreaks
    BY DEF TurnBreaks
  <1> QED
    BY <1>1, <1>2, <1>4, <1>5, <1>6, <1>7 DEF BusNext, TurnProgress, Aside, Kinds

(* What EveryTextSettles promises, as far as no step can break it: where   *)
(* sends resolve at once and no turn breaks, every text and file that      *)
(* reached processMessage waits (in the queue, joined to an entry of it,   *)
(* or with the goal), or was handed over, discarded or refused.            *)
THEOREM NothingSwallowed ==
    BusSpec => [](smooth =>
                    \A m \in Messages : kind[m] # "cancel" =>
                        m \in Ids(waiting) \union ToSet(supplements)
                                \union ToSet(handed) \union dropped \union refused)
  <1>1. Settled => (smooth =>
                      \A m \in Messages : kind[m] # "cancel" =>
                          m \in Ids(waiting) \union ToSet(supplements)
                                  \union ToSet(handed) \union dropped \union refused)
    BY DEF Settled, AllAccounted, Accounted, InHand
  <1> QED
    BY <1>1, SettledInit, SettledStep, PTL DEF BusSpec

-----------------------------------------------------------------------------
(* TelegramPolling                                                         *)

(* From writing the lock until it stops reading, a life that nobody told to*)
(* end finds its own pid in the file, unless it was robbed of it or never  *)
(* wrote it.                                                               *)
Reading(p) == at[p] \in {"grace", "asking", "starting", "polling", "coolingDown", "circuitOpen"}
HoldsLock == \A p \in Lives : Reading(p) /\ p \notin robbed \union unlocked \union signalled => lock = p

(* The lock names a life that has begun; one that is about to write over   *)
(* another's found that one gone, which it stays.                          *)
NamesBegun == lock \in Lives => at[lock] # "down"
FoundGone ==
    \A p \in Lives : at[p] = "writing" /\ found[p] \in Lives \ {p} => at[found[p]] = "gone"

LockInv == TypeOK /\ HoldsLock /\ NamesBegun /\ FoundGone

LEMMA TypeInit == Init => TypeOK
  <1> SUFFICES ASSUME Init PROVE TypeOK
    OBVIOUS
  <1> USE DEF Init
  <1>1. MaxLives \in Nat /\ MaxRetries \in Nat /\ MaxErrors \in Nat
    BY LimitsAssumption
  <1>2. robbed \subseteq Lives /\ unlocked \subseteq Lives /\ stopped \subseteq Lives /\ signalled \subseteq Lives
    OBVIOUS
  <1>3. found \in [Lives -> 0..MaxLives] /\ lock \in 0..MaxLives /\ errors \in 0..MaxErrors
    BY <1>1
  <1>4. retries \in [Lives -> 0..(MaxRetries + 1)]
    BY <1>1
  <1>5. QED
    BY <1>2, <1>3, <1>4 DEF TypeOK

(* retryAttempt passes MAX_RETRIES by one at most: the head of the loop    *)
(* opens the circuit then.                                                 *)
RetriesFit == \A p \in Lives : at[p] \in {"asking", "starting", "polling"} => retries[p] <= MaxRetries

LEMMA LockInit == Init => LockInv /\ RetriesFit
  BY TypeInit, LimitsAssumption
     DEF Init, LockInv, HoldsLock, Reading, NamesBegun, FoundGone, RetriesFit, Lives

LEMMA TypeStep == TypeOK /\ RetriesFit /\ [Next]_vars => (TypeOK /\ RetriesFit)'
  <1> SUFFICES ASSUME TypeOK, RetriesFit, [Next]_vars PROVE (TypeOK /\ RetriesFit)'
    OBVIOUS
  <1> USE DEF Go, Attempt, Up, lockFile, stopping, telegram
  <1> USE LimitsAssumption DEF Lives
  <1>1. ASSUME NEW p \in Lives, Begin(p) PROVE (TypeOK /\ RetriesFit)'
    BY <1>1 DEF Begin, TypeOK, RetriesFit
  <1>2. ASSUME NEW p \in Lives, Start(p) PROVE (TypeOK /\ RetriesFit)'
    BY <1>2 DEF Start, TypeOK, RetriesFit
  <1>3. ASSUME NEW p \in Lives, ReadLock(p) PROVE (TypeOK /\ RetriesFit)'
    BY <1>3 DEF ReadLock, TypeOK, RetriesFit
  <1>4. ASSUME NEW p \in Lives, WriteLock(p) PROVE (TypeOK /\ RetriesFit)'
    BY <1>4 DEF WriteLock, WritesOver, TypeOK, RetriesFit
  <1>5. ASSUME NEW p \in Lives, GraceEnds(p) PROVE (TypeOK /\ RetriesFit)'
    BY <1>5 DEF GraceEnds, TypeOK, RetriesFit
  <1>6. ASSUME NEW p \in Lives, CooldownEnds(p) PROVE (TypeOK /\ RetriesFit)'
    BY <1>6 DEF CooldownEnds, TypeOK, RetriesFit
  <1>7. ASSUME NEW p \in Lives, CircuitCloses(p) PROVE (TypeOK /\ RetriesFit)'
    BY <1>7 DEF CircuitCloses, TypeOK, RetriesFit
  <1>8. ASSUME NEW p \in Lives, GetMeAnswers(p) PROVE (TypeOK /\ RetriesFit)'
    BY <1>8 DEF GetMeAnswers, TypeOK, RetriesFit
  <1>9. ASSUME NEW p \in Lives, BotStarts(p) PROVE (TypeOK /\ RetriesFit)'
    BY <1>9 DEF BotStarts, TypeOK, RetriesFit
  <1>10. ASSUME NEW p \in Lives, SetupFails(p) PROVE (TypeOK /\ RetriesFit)'
    <2>1. CASE Conflict(p)
      <3>1. retries[p] \in 0..MaxRetries
        BY <1>10 DEF SetupFails, SystemFails, TypeOK, RetriesFit
      <3>2. /\ retries' \in [Lives -> 0..(MaxRetries + 1)]
            /\ \A q \in Lives : q # p => retries'[q] = retries[q]
        BY <2>1, <3>1 DEF Conflict, TypeOK
      <3>3. /\ at' \in [Lives -> {"down", "up", "locking", "writing", "grace", "asking", "starting",
                                   "polling", "coolingDown", "circuitOpen", "off", "gone"}]
            /\ \A q \in Lives : q # p => at'[q] = at[q]
            /\ at'[p] \in {"off", "circuitOpen", "coolingDown"}
        BY <2>1 DEF Conflict, TypeOK
      <3>4. QED
        BY <1>10, <3>2, <3>3 DEF SetupFails, SystemFails, TypeOK, RetriesFit
    <2>2. CASE NetworkError(p)
      BY <1>10, <2>2 DEF SetupFails, SystemFails, NetworkError, TypeOK, RetriesFit
    <2>3. CASE OtherError(p)
      BY <1>10, <2>3 DEF SetupFails, SystemFails, OtherError, TypeOK, RetriesFit
    <2>4. QED
      BY <1>10, <2>1, <2>2, <2>3 DEF SetupFails, SystemFails
  <1>11. ASSUME NEW p \in Lives, PollingFails(p) PROVE (TypeOK /\ RetriesFit)'
    BY <1>11 DEF PollingFails, Conflict, TypeOK, RetriesFit
  <1>12. ASSUME NEW p \in Lives, StopBegins(p) PROVE (TypeOK /\ RetriesFit)'
    BY <1>12 DEF StopBegins, TypeOK, RetriesFit
  <1>13. ASSUME NEW p \in Lives, StopEnds(p) PROVE (TypeOK /\ RetriesFit)'
    BY <1>13 DEF StopEnds, SystemFails, ReleaseLock, TypeOK, RetriesFit
  <1>14. ASSUME NEW p \in Lives, Ends(p) PROVE (TypeOK /\ RetriesFit)'
    BY <1>14 DEF Ends, WritesOver, TypeOK, RetriesFit
  <1>15. CASE ConnectionCloses
    BY <1>15 DEF ConnectionCloses, TypeOK, RetriesFit
  <1>16. CASE UNCHANGED vars
    BY <1>16 DEF vars, TypeOK, RetriesFit
  <1>17. ASSUME NEW p \in Lives, MisreadLock(p) PROVE (TypeOK /\ RetriesFit)'
    BY <1>17 DEF MisreadLock, SystemFails, TypeOK, RetriesFit
  <1>18. ASSUME NEW p \in Lives, ProceedUnlocked(p) PROVE (TypeOK /\ RetriesFit)'
    BY <1>18 DEF ProceedUnlocked, SystemFails, WritesOver, TypeOK, RetriesFit
  <1>19. QED
    BY <1>1, <1>2, <1>3, <1>4, <1>5, <1>6, <1>7, <1>8, <1>9,
       <1>10, <1>11, <1>12, <1>13, <1>14, <1>15, <1>16, <1>17, <1>18 DEF Next, Proceed

(* A writer robs whoever took the lock since it looked, or whom it misread. *)
LEMMA LockStep == LockInv /\ TypeOK' /\ [Next]_vars => LockInv'
  <1> SUFFICES ASSUME LockInv, TypeOK', [Next]_vars PROVE LockInv'
    OBVIOUS
  <1> USE DEF Go, Attempt, Up, lockFile, stopping, telegram, SystemFails, WritesOver
  <1>1. ASSUME NEW p \in Lives, Begin(p) PROVE LockInv'
    <2>1. HoldsLock'
      BY <1>1 DEF Begin, LockInv, TypeOK, HoldsLock, Reading, FoundGone, Lives
    <2>2. (NamesBegun /\ FoundGone)'
      BY <1>1 DEF Begin, LockInv, TypeOK, NamesBegun, FoundGone, Lives
    <2>3. QED
      BY <2>1, <2>2 DEF LockInv
  <1>2. ASSUME NEW p \in Lives, Start(p) PROVE LockInv'
    <2>1. HoldsLock'
      BY <1>2 DEF Start, LockInv, TypeOK, HoldsLock, Reading, FoundGone, Lives
    <2>2. (NamesBegun /\ FoundGone)'
      BY <1>2 DEF Start, LockInv, TypeOK, NamesBegun, FoundGone, Lives
    <2>3. QED
      BY <2>1, <2>2 DEF LockInv
  <1>3. ASSUME NEW p \in Lives, ReadLock(p) PROVE LockInv'
    <2>1. HoldsLock'
      BY <1>3 DEF ReadLock, LockInv, TypeOK, HoldsLock, Reading, FoundGone, Lives
    <2>2. (NamesBegun /\ FoundGone)'
      BY <1>3 DEF ReadLock, LockInv, TypeOK, NamesBegun, FoundGone, Lives
    <2>3. QED
      BY <2>1, <2>2 DEF LockInv
  <1>4. ASSUME NEW p \in Lives, WriteLock(p) PROVE LockInv'
    <2>1. HoldsLock'
      BY <1>4 DEF WriteLock, LockInv, TypeOK, HoldsLock, Reading, FoundGone, Lives
    <2>2. (NamesBegun /\ FoundGone)'
      BY <1>4 DEF WriteLock, LockInv, TypeOK, NamesBegun, FoundGone, Lives
    <2>3. QED
      BY <2>1, <2>2 DEF LockInv
  <1>5. ASSUME NEW p \in Lives, GraceEnds(p) PROVE LockInv'
    <2>1. HoldsLock'
      BY <1>5 DEF GraceEnds, LockInv, TypeOK, HoldsLock, Reading, FoundGone, Lives
    <2>2. (NamesBegun /\ FoundGone)'
      BY <1>5 DEF GraceEnds, LockInv, TypeOK, NamesBegun, FoundGone, Lives
    <2>3. QED
      BY <2>1, <2>2 DEF LockInv
  <1>6. ASSUME NEW p \in Lives, CooldownEnds(p) PROVE LockInv'
    <2>1. HoldsLock'
      BY <1>6 DEF CooldownEnds, LockInv, TypeOK, HoldsLock, Reading, FoundGone, Lives
    <2>2. (NamesBegun /\ FoundGone)'
      BY <1>6 DEF CooldownEnds, LockInv, TypeOK, NamesBegun, FoundGone, Lives
    <2>3. QED
      BY <2>1, <2>2 DEF LockInv
  <1>7. ASSUME NEW p \in Lives, CircuitCloses(p) PROVE LockInv'
    <2>1. HoldsLock'
      BY <1>7 DEF CircuitCloses, LockInv, TypeOK, HoldsLock, Reading, FoundGone, Lives
    <2>2. (NamesBegun /\ FoundGone)'
      BY <1>7 DEF CircuitCloses, LockInv, TypeOK, NamesBegun, FoundGone, Lives
    <2>3. QED
      BY <2>1, <2>2 DEF LockInv
  <1>8. ASSUME NEW p \in Lives, GetMeAnswers(p) PROVE LockInv'
    <2>1. HoldsLock'
      BY <1>8 DEF GetMeAnswers, LockInv, TypeOK, HoldsLock, Reading, FoundGone, Lives
    <2>2. (NamesBegun /\ FoundGone)'
      BY <1>8 DEF GetMeAnswers, LockInv, TypeOK, NamesBegun, FoundGone, Lives
    <2>3. QED
      BY <2>1, <2>2 DEF LockInv
  <1>9. ASSUME NEW p \in Lives, BotStarts(p) PROVE LockInv'
    <2>1. HoldsLock'
      BY <1>9 DEF BotStarts, LockInv, TypeOK, HoldsLock, Reading, FoundGone, Lives
    <2>2. (NamesBegun /\ FoundGone)'
      BY <1>9 DEF BotStarts, LockInv, TypeOK, NamesBegun, FoundGone, Lives
    <2>3. QED
      BY <2>1, <2>2 DEF LockInv
  <1>10. ASSUME NEW p \in Lives, SetupFails(p) PROVE LockInv'
    <2>1. HoldsLock'
      BY <1>10 DEF SetupFails, Conflict, NetworkError, OtherError, LockInv, TypeOK, HoldsLock, Reading, FoundGone, Lives
    <2>2. (NamesBegun /\ FoundGone)'
      BY <1>10 DEF SetupFails, Conflict, NetworkError, OtherError, LockInv, TypeOK, NamesBegun, FoundGone, Lives
    <2>3. QED
      BY <2>1, <2>2 DEF LockInv
  <1>11. ASSUME NEW p \in Lives, PollingFails(p) PROVE LockInv'
    <2>1. HoldsLock'
      BY <1>11 DEF PollingFails, Conflict, LockInv, TypeOK, HoldsLock, Reading, FoundGone, Lives
    <2>2. (NamesBegun /\ FoundGone)'
      BY <1>11 DEF PollingFails, Conflict, LockInv, TypeOK, NamesBegun, FoundGone, Lives
    <2>3. QED
      BY <2>1, <2>2 DEF LockInv
  <1>12. ASSUME NEW p \in Lives, StopBegins(p) PROVE LockInv'
    <2>1. HoldsLock'
      BY <1>12 DEF StopBegins, LockInv, TypeOK, HoldsLock, Reading, FoundGone, Lives
    <2>2. (NamesBegun /\ FoundGone)'
      BY <1>12 DEF StopBegins, LockInv, TypeOK, NamesBegun, FoundGone, Lives
    <2>3. QED
      BY <2>1, <2>2 DEF LockInv
  <1>13. ASSUME NEW p \in Lives, StopEnds(p) PROVE LockInv'
    <2>1. HoldsLock'
      BY <1>13 DEF StopEnds, ReleaseLock, LockInv, TypeOK, HoldsLock, Reading, FoundGone, Lives
    <2>2. (NamesBegun /\ FoundGone)'
      BY <1>13 DEF StopEnds, ReleaseLock, LockInv, TypeOK, NamesBegun, FoundGone, Lives
    <2>3. QED
      BY <2>1, <2>2 DEF LockInv
  <1>14. ASSUME NEW p \in Lives, Ends(p) PROVE LockInv'
    <2>1. HoldsLock'
      BY <1>14 DEF Ends, LockInv, TypeOK, HoldsLock, Reading, FoundGone, Lives
    <2>2. (NamesBegun /\ FoundGone)'
      BY <1>14 DEF Ends, LockInv, TypeOK, NamesBegun, FoundGone, Lives
    <2>3. QED
      BY <2>1, <2>2 DEF LockInv
  <1>15. CASE ConnectionCloses
    <2>1. HoldsLock'
      BY <1>15 DEF ConnectionCloses, LockInv, TypeOK, HoldsLock, Reading, FoundGone, Lives
    <2>2. (NamesBegun /\ FoundGone)'
      BY <1>15 DEF ConnectionCloses, LockInv, TypeOK, NamesBegun, FoundGone, Lives
    <2>3. QED
      BY <2>1, <2>2 DEF LockInv
  <1>16. CASE UNCHANGED vars
    <2>1. HoldsLock'
      BY <1>16 DEF vars, LockInv, TypeOK, HoldsLock, Reading, FoundGone, Lives
    <2>2. (NamesBegun /\ FoundGone)'
      BY <1>16 DEF vars, LockInv, TypeOK, NamesBegun, FoundGone, Lives
    <2>3. QED
      BY <2>1, <2>2 DEF LockInv
  <1>17. ASSUME NEW p \in Lives, MisreadLock(p) PROVE LockInv'
    <2>1. HoldsLock'
      BY <1>17 DEF MisreadLock, LockInv, TypeOK, HoldsLock, Reading, FoundGone, Lives
    <2>2. (NamesBegun /\ FoundGone)'
      BY <1>17 DEF MisreadLock, LockInv, TypeOK, NamesBegun, FoundGone, Lives
    <2>3. QED
      BY <2>1, <2>2 DEF LockInv
  <1>18. ASSUME NEW p \in Lives, ProceedUnlocked(p) PROVE LockInv'
    <2>1. HoldsLock'
      BY <1>18 DEF ProceedUnlocked, LockInv, TypeOK, HoldsLock, Reading, FoundGone, Lives
    <2>2. (NamesBegun /\ FoundGone)'
      BY <1>18 DEF ProceedUnlocked, LockInv, TypeOK, NamesBegun, FoundGone, Lives
    <2>3. QED
      BY <2>1, <2>2 DEF LockInv
  <1>19. QED
    BY <1>1, <1>2, <1>3, <1>4, <1>5, <1>6, <1>7, <1>8, <1>9,
       <1>10, <1>11, <1>12, <1>13, <1>14, <1>15, <1>16, <1>17, <1>18 DEF Next, Proceed

LEMMA Invariance == Spec => [](LockInv /\ RetriesFit)
  <1>1. LockInv /\ RetriesFit /\ [Next]_vars => (LockInv /\ RetriesFit)'
    BY TypeStep, LockStep DEF LockInv
  <1>2. QED
    BY <1>1, LockInit, PTL DEF Spec

(* Every reachable state is well typed; retryAttempt passes MAX_RETRIES by *)
(* one at most.                                                            *)
THEOREM TypeCorrect == Spec => []TypeOK
  <1>1. LockInv => TypeOK
    BY DEF LockInv
  <1>2. QED
    BY <1>1, Invariance, PTL

(* The lock file keeps two lives from reading updates side by side, but for*)
(* the window between a look at it and its writing, for what the catches of*)
(* acquireLock let pass, and for lives that were told to end.              *)
THEOREM OnlyOnePolls == Spec => []OnePoller
  <1>1. LockInv => OnePoller
    BY DEF LockInv, HoldsLock, Reading, OnePoller
  <1>2. QED
    BY <1>1, Invariance, PTL

=============================================================================
