----------------------- MODULE SessionEventLogProofs -----------------------
(***************************************************************************)
(* What SessionEventLog promises, for any viewers, ring, buffer and        *)
(* bounds.                                                                 *)
(***************************************************************************)
EXTENDS SessionEventLog, FiniteSetTheorems, TLAPS

-----------------------------------------------------------------------------
(* The inductive invariant.                                                *)

UpTo(s, b) == \A i \in DOMAIN s : s[i].seq <= b
Above(s, b) == \A i \in DOMAIN s : s[i].seq > b
Climbs(s) == \A i, j \in DOMAIN s : i < j => s[i].seq < s[j].seq
ClimbsAbove(s, b) ==
  \A i, j \in DOMAIN s : i < j /\ s[i].seq > b => s[i].seq < s[j].seq
Ordered(s) == \A i, j \in DOMAIN s : i < j => Before(s[i], s[j])
BufferedOnly(s) == \A i \in DOMAIN s : s[i].kind \in Buffered
Closed(s) ==
  \A i \in DOMAIN s : s[i].kind = "start" => \E j \in DOMAIN s : j > i /\ s[j].kind = "end"

Ahead(l) == UpTo(Full(l), l.seq)

\* What a replay must have, and that memory has it and nothing else.
Owed(x, l) == Occurs(x, Full(l)) /\ Recent(x, Full(l))
Covers(evs, l) ==
  /\ \A x : Occurs(x, evs) => Occurs(x, Full(l))
  /\ \A x : Owed(x, l) => Occurs(x, evs)

\* The log by itself.  n counts the events in the order they were made; what
\* waits in the buffer was made by this process, and is chatter; what is in
\* memory, when it is loaded, is what LoadedIsTail says.
Numbered(l) ==
  /\ \A i, j \in DOMAIN Full(l) : i < j => Full(l)[i].n < Full(l)[j].n
  /\ \A i \in DOMAIN Full(l) : Full(l)[i].n <= l.made
InMemory(l) ==
  /\ Ahead(l)
  /\ UpTo(l.events, l.seq)
  /\ Ordered(l.events)
  /\ l.stale \/ Covers(l.events, l)
Sound(l) ==
  /\ l \in Logs /\ Len(l.events) <= MaxEvents
  /\ Numbered(l)
  /\ BufferedOnly(l.buffer) /\ UpTo(l.buffer, l.seq)
  /\ l.loaded => InMemory(l)

\* What the parser works on is the start of the log, and what came after it
\* was made by this process.
Parsed(l, evs) ==
  /\ Len(evs) <= Len(Full(l))
  /\ \A i \in 1..Len(evs) : evs[i] = Full(l)[i]
  /\ \A i \in DOMAIN Full(l) : i > Len(evs) => Full(l)[i].seq <= l.seq

\* A viewer that has seen the whole log when it looked: above upTo there are
\* only events this process made after that.
Replayed(w, l) ==
  /\ ClimbsAbove(Full(l), w.upTo)
  /\ \A x : Owed(x, l) /\ x.seq > w.since /\ x.seq <= w.upTo => Occurs(x, w.got)
Followed(w, l) ==
  \A x : Owed(x, l) /\ x.seq > w.since => Occurs(x, w.got) \/ Occurs(x, w.deferred)

Served(w, l) ==
  /\ w.phase \in {"off", "loading"} => w.got = <<>>
  /\ w.phase # "catching" => w.deferred = <<>>
  /\ w.upTo <= l.seq
  /\ Ordered(w.got) /\ UpTo(w.got, l.seq)
  /\ w.phase # "live" => UpTo(w.got, w.upTo)
  /\ Climbs(w.deferred) /\ UpTo(w.deferred, l.seq)
  /\ Above(w.deferred, w.upTo)
  /\ w.whole /\ w.phase \notin {"off", "loading"} =>
       /\ Ahead(l)
       /\ w.phase = "replaying" => Replayed(w, l)
       /\ w.phase \in {"catching", "live"} => Followed(w, l)

\* The process.
DownInv ==
  ~up => /\ log.buffer = <<>> /\ ~log.loaded
         /\ run = "none" /\ load = NoLoad
         /\ viewer = [v \in Viewers |-> Gone]
RunInv ==
  /\ up => (index.running <=> run = "running")
  /\ up /\ run # "running" /\ ~torn => Closed(Full(log))
  /\ ~up /\ ~torn => index.running \/ Closed(Full(log))

ServiceInv ==
  /\ Sound(log)
  /\ load.phase = "parsing" => Parsed(log, load.evs)
  /\ \A v \in Viewers : Served(viewer[v], log)

LogInv == TypeOK /\ ServiceInv /\ DownInv /\ RunInv

-----------------------------------------------------------------------------
(* Putting things in order: the members of a finite set under a strict     *)
(* total order are counted by their predecessors.                          *)

\* R[k] holds the members of I that come before k.
IsOrder(I, R) ==
  /\ R \in [I -> SUBSET I]
  /\ \A k \in I : k \notin R[k]
  /\ \A j, k \in I : j # k => j \in R[k] \/ k \in R[j]
  /\ \A h, j, k \in I : h \in R[j] /\ j \in R[k] => h \in R[k]

\* The number of predecessors grows along the order.
LEMMA RankGrows ==
  ASSUME NEW I, IsFiniteSet(I), NEW R, IsOrder(I, R)
  PROVE  /\ \A k \in I : Cardinality(R[k]) \in 0..(Cardinality(I) - 1)
         /\ \A j, k \in I : j \in R[k] =>
              Cardinality(R[j]) < Cardinality(R[k])
<1>1. ASSUME NEW k \in I
      PROVE  /\ IsFiniteSet(R[k]) /\ Cardinality(R[k]) \in Nat
             /\ Cardinality(R[k]) < Cardinality(I)
  <2>1. R[k] \subseteq I /\ k \notin R[k] BY DEF IsOrder
  <2>2. IsFiniteSet(R[k]) /\ R[k] # I BY <1>1, <2>1, FS_Subset
  <2>3. Cardinality(R[k]) \in Nat /\ Cardinality(I) \in Nat
    BY <2>2, FS_CardinalityType
  <2>4. Cardinality(R[k]) < Cardinality(I) BY <2>1, <2>2, <2>3, FS_Subset
  <2> QED BY <2>2, <2>3, <2>4
<1>2. ASSUME NEW j \in I, NEW k \in I, j \in R[k]
      PROVE  Cardinality(R[j]) < Cardinality(R[k])
  <2>1. R[j] \subseteq R[k] /\ R[j] # R[k]
    <3>1. j \in R[k] /\ j \notin R[j] BY <1>2 DEF IsOrder
    <3>2. \A h \in I : h \in R[j] => h \in R[k] BY <1>2 DEF IsOrder
    <3>3. R[j] \subseteq R[k] BY <3>2 DEF IsOrder
    <3> QED BY <3>1, <3>3
  <2> QED BY <1>1, <2>1, FS_Subset
<1>3. \A k \in I : Cardinality(R[k]) \in 0..(Cardinality(I) - 1)
  <2>1. Cardinality(I) \in Nat BY FS_CardinalityType
  <2> QED BY <1>1, <2>1
<1> QED BY <1>2, <1>3

\* Each number below the size is that of one member.
LEMMA RanksAre ==
  ASSUME NEW I, IsFiniteSet(I), NEW R, IsOrder(I, R)
  PROVE  /\ \A i \in 1..Cardinality(I) : \E k \in I : Cardinality(R[k]) = i - 1
         /\ \A j, k \in I :
              Cardinality(R[j]) = Cardinality(R[k]) => j = k
<1> DEFINE n == Cardinality(I)
           rank == [k \in I |-> Cardinality(R[k])]
<1>1. n \in Nat BY FS_CardinalityType
<1>2. rank \in [I -> 0..(n - 1)] BY RankGrows
<1>3. \A j, k \in I : rank[j] = rank[k] => j = k
  <2> SUFFICES ASSUME NEW j \in I, NEW k \in I, rank[j] = rank[k], j # k PROVE FALSE OBVIOUS
  <2>1. j \in R[k] \/ k \in R[j] BY DEF IsOrder
  <2>2. rank[j] \in Int /\ rank[k] \in Int BY <1>1, <1>2
  <2>3. rank[j] < rank[k] \/ rank[k] < rank[j] BY <2>1, RankGrows
  <2> QED BY <2>2, <2>3
<1>4. IsFiniteSet(0..(n - 1)) /\ Cardinality(0..(n - 1)) = n BY <1>1, FS_Interval
<1>5. rank \in Injection(I, 0..(n - 1)) BY <1>2, <1>3 DEF Injection, IsInjective
<1>6. rank \in Surjection(I, 0..(n - 1)) BY <1>4, <1>5, FS_Injection
<1>7. \A i \in 1..n : \E k \in I : rank[k] = i - 1
  <2>1. \A x \in 0..(n - 1) : \E k \in I : rank[k] = x BY <1>6 DEF Surjection
  <2> QED BY <1>1, <2>1
<1> QED BY <1>3, <1>7


\* p lists the members of I in the order R.
Lists(p, I, R) ==
  /\ p \in [1..Cardinality(I) -> I]
  /\ \A i \in 1..Cardinality(I) : Cardinality(R[p[i]]) = i - 1
  /\ \A i, j \in 1..Cardinality(I) : i < j <=> p[i] \in R[p[j]]
  /\ \A k \in I : \E i \in 1..Cardinality(I) : p[i] = k

\* Choosing by number of predecessors lists every member once, in order.
LEMMA ChosenLists ==
  ASSUME NEW I, IsFiniteSet(I), NEW R, IsOrder(I, R), NEW p,
         p = [i \in 1..Cardinality(I) |->
                CHOOSE k \in I : Cardinality(R[k]) = i - 1]
  PROVE  Lists(p, I, R)
<1> DEFINE n == Cardinality(I)
<1>1. n \in Nat BY FS_CardinalityType
<1>2. ASSUME NEW i \in 1..n
      PROVE  p[i] \in I /\ Cardinality(R[p[i]]) = i - 1
  <2>1. \E k \in I : Cardinality(R[k]) = i - 1 BY RanksAre
  <2>2. p[i] = CHOOSE k \in I : Cardinality(R[k]) = i - 1 OBVIOUS
  <2> QED BY <2>1, <2>2
<1>3. p \in [1..n -> I] BY <1>2
<1>4. ASSUME NEW i \in 1..n, NEW j \in 1..n PROVE i < j <=> p[i] \in R[p[j]]
  <2>1. p[i] \in I /\ p[j] \in I
        /\ Cardinality(R[p[i]]) = i - 1 /\ Cardinality(R[p[j]]) = j - 1
    BY <1>2
  <2>2. i \in Int /\ j \in Int BY <1>1
  <2>3. CASE p[i] \in R[p[j]]
    <3>1. Cardinality(R[p[i]]) < Cardinality(R[p[j]])
      BY <2>1, <2>3, RankGrows
    <3> QED BY <2>1, <2>2, <2>3, <3>1
  <2>4. CASE p[j] \in R[p[i]]
    <3>1. Cardinality(R[p[j]]) < Cardinality(R[p[i]])
      BY <2>1, <2>4, RankGrows
    <3>2. p[i] \notin R[p[j]] BY <2>1, <2>4 DEF IsOrder
    <3> QED BY <2>1, <2>2, <3>1, <3>2
  <2>5. CASE p[i] = p[j]
    <3>1. p[i] \notin R[p[j]] BY <2>1, <2>5 DEF IsOrder
    <3> QED BY <2>1, <2>2, <2>5, <3>1
  <2> QED BY <2>1, <2>3, <2>4, <2>5 DEF IsOrder
<1>5. ASSUME NEW k \in I PROVE \E i \in 1..n : p[i] = k
  <2> DEFINE i == Cardinality(R[k]) + 1
  <2>1. Cardinality(R[k]) \in 0..(n - 1) BY RankGrows
  <2>2. i \in 1..n /\ i - 1 = Cardinality(R[k]) BY <1>1, <2>1
  <2> HIDE DEF i
  <2>3. Cardinality(R[p[i]]) = Cardinality(R[k]) /\ p[i] \in I
    BY <1>2, <2>2
  <2>4. p[i] = k BY <2>3, RanksAre
  <2> QED BY <2>2, <2>4
<1> QED BY <1>2, <1>3, <1>4, <1>5 DEF Lists

-----------------------------------------------------------------------------
(* The sort of a log.                                                      *)

Earlier(evs) == [k \in DOMAIN evs |-> {j \in DOMAIN evs : Precedes(evs, j, k)}]

\* Precedes is such an order on the positions of a list.
LEMMA SortOrders ==
  ASSUME NEW evs \in Seq(Events)
  PROVE  /\ IsOrder(DOMAIN evs, Earlier(evs))
         /\ IsFiniteSet(DOMAIN evs) /\ Cardinality(DOMAIN evs) = Len(evs)
         /\ \A k \in DOMAIN evs :
              Earlier(evs)[k] = {j \in DOMAIN evs : Precedes(evs, j, k)}
<1>1. \A k \in DOMAIN evs : evs[k].seq \in Nat /\ k \in Nat
  <2>1. \A k \in DOMAIN evs : evs[k] \in Events /\ k \in Nat OBVIOUS
  <2> QED BY <2>1 DEF Events
<1>2. ASSUME NEW j \in DOMAIN evs, NEW k \in DOMAIN evs
      PROVE  j \in Earlier(evs)[k] <=> Precedes(evs, j, k)
  BY DEF Earlier
<1>3. /\ \A k \in DOMAIN evs : ~Precedes(evs, k, k)
      /\ \A j, k \in DOMAIN evs : j # k => Precedes(evs, j, k) \/ Precedes(evs, k, j)
      /\ \A h, j, k \in DOMAIN evs : Precedes(evs, h, j) /\ Precedes(evs, j, k) => Precedes(evs, h, k)
  BY <1>1 DEF Precedes
<1>4. IsOrder(DOMAIN evs, Earlier(evs))
  <2>1. Earlier(evs) \in [DOMAIN evs -> SUBSET DOMAIN evs] BY DEF Earlier
  <2> QED BY <1>2, <1>3, <2>1 DEF IsOrder
<1>5. IsFiniteSet(DOMAIN evs) /\ Cardinality(DOMAIN evs) = Len(evs)
  <2>1. DOMAIN evs = 1..Len(evs) /\ Len(evs) \in Nat OBVIOUS
  <2> QED BY <2>1, FS_Interval
<1>6. \A k \in DOMAIN evs :
        Earlier(evs)[k] = {j \in DOMAIN evs : Precedes(evs, j, k)}
  BY DEF Earlier
<1> QED BY <1>4, <1>5, <1>6

\* BySeq is the stable sort: each event once, in the order of Precedes.
LEMMA SortIs ==
  ASSUME NEW evs \in Seq(Events)
  PROVE  \E p : /\ Lists(p, DOMAIN evs, Earlier(evs))
                /\ BySeq[evs] = [i \in 1..Len(evs) |-> evs[p[i]]]
<1> DEFINE p == [i \in 1..Len(evs) |->
                   CHOOSE k \in DOMAIN evs :
                     Cardinality(Earlier(evs)[k]) = i - 1]
<1>1. IsOrder(DOMAIN evs, Earlier(evs)) /\ IsFiniteSet(DOMAIN evs)
      /\ Cardinality(DOMAIN evs) = Len(evs)
  BY SortOrders
<1>2. p = [i \in 1..Cardinality(DOMAIN evs) |->
             CHOOSE k \in DOMAIN evs :
               Cardinality(Earlier(evs)[k]) = i - 1]
  BY <1>1
<1>3. Lists(p, DOMAIN evs, Earlier(evs))
  <2> HIDE DEF p
  <2> QED BY <1>1, <1>2, ChosenLists
<1>4. BySeq[evs] = [i \in DOMAIN evs |->
        evs[CHOOSE k \in DOMAIN evs :
              Cardinality({j \in DOMAIN evs : Precedes(evs, j, k)}) = i - 1]]
  BY DEF BySeq
<1>5. ASSUME NEW i \in 1..Len(evs)
      PROVE  (CHOOSE k \in DOMAIN evs :
                Cardinality({j \in DOMAIN evs : Precedes(evs, j, k)}) = i - 1) = p[i]
  <2>1. \A k \in DOMAIN evs :
          Cardinality(Earlier(evs)[k]) =
            Cardinality({j \in DOMAIN evs : Precedes(evs, j, k)})
    BY SortOrders
  <2>2. (CHOOSE k \in DOMAIN evs :
           Cardinality({j \in DOMAIN evs : Precedes(evs, j, k)}) = i - 1)
        = CHOOSE k \in DOMAIN evs :
            Cardinality(Earlier(evs)[k]) = i - 1
    BY <2>1
  <2> QED BY <2>2
<1>6. BySeq[evs] = [i \in 1..Len(evs) |-> evs[p[i]]]
  <2>1. DOMAIN evs = 1..Len(evs) OBVIOUS
  <2> HIDE DEF p
  <2> QED BY <1>4, <1>5, <2>1
<1> HIDE DEF p
<1> QED BY <1>3, <1>6

\* What the sort keeps: the length and the elements, in the order of their seqs.
LEMMA SortType ==
  ASSUME NEW evs \in Seq(Events)
  PROVE  /\ BySeq[evs] \in Seq(Events) /\ Len(BySeq[evs]) = Len(evs)
         /\ \A i, j \in 1..Len(evs) : i < j => BySeq[evs][i].seq <= BySeq[evs][j].seq
         /\ \A k \in 1..Len(evs) : \E i \in 1..Len(evs) : BySeq[evs][i] = evs[k]
         /\ \A i \in 1..Len(evs) : \E k \in 1..Len(evs) : BySeq[evs][i] = evs[k]
<1>1. PICK p : /\ Lists(p, DOMAIN evs, Earlier(evs))
               /\ BySeq[evs] = [i \in 1..Len(evs) |-> evs[p[i]]]
  BY SortIs
<1>2. DOMAIN evs = 1..Len(evs) /\ Len(evs) \in Nat /\ Cardinality(DOMAIN evs) = Len(evs)
  BY SortOrders
<1>3. p \in [1..Len(evs) -> 1..Len(evs)] BY <1>1, <1>2 DEF Lists
<1>4. \A i \in 1..Len(evs) : evs[p[i]] \in Events /\ p[i] \in 1..Len(evs) BY <1>2, <1>3
<1>5. BySeq[evs] \in [1..Len(evs) -> Events] BY <1>1, <1>4
<1>6. BySeq[evs] \in Seq(Events) /\ Len(BySeq[evs]) = Len(evs) BY <1>2, <1>5
<1>7. ASSUME NEW i \in 1..Len(evs), NEW j \in 1..Len(evs), i < j
      PROVE  BySeq[evs][i].seq <= BySeq[evs][j].seq
  <2>1. p[i] \in Earlier(evs)[p[j]] BY <1>1, <1>2, <1>7 DEF Lists
  <2>2. Precedes(evs, p[i], p[j])
    <3>1. p[i] \in DOMAIN evs /\ p[j] \in DOMAIN evs BY <1>2, <1>4
    <3>2. Earlier(evs)[p[j]] = {h \in DOMAIN evs : Precedes(evs, h, p[j])} BY <3>1, SortOrders
    <3> QED BY <2>1, <3>2
  <2>3. evs[p[i]].seq \in Nat /\ evs[p[j]].seq \in Nat BY <1>4 DEF Events
  <2>4. evs[p[i]].seq <= evs[p[j]].seq BY <2>2, <2>3 DEF Precedes
  <2> QED BY <1>1, <2>4
<1>8. \A k \in 1..Len(evs) : \E i \in 1..Len(evs) : p[i] = k BY <1>1, <1>2 DEF Lists
<1>9. \A i \in 1..Len(evs) : BySeq[evs][i] = evs[p[i]] BY <1>1
<1>10. \A k \in 1..Len(evs) : \E i \in 1..Len(evs) : BySeq[evs][i] = evs[k] BY <1>8, <1>9
<1>11. \A i \in 1..Len(evs) : \E k \in 1..Len(evs) : BySeq[evs][i] = evs[k] BY <1>4, <1>9
<1> QED BY <1>6, <1>7, <1>10, <1>11

-----------------------------------------------------------------------------
(* The filter of a list.                                                   *)

\* Select lists what is at the positions, in their order.
LEMMA SelectIs ==
  ASSUME NEW evs \in Seq(Events), NEW I \in SUBSET DOMAIN evs
  PROVE  /\ IsFiniteSet(I) /\ Cardinality(I) \in Nat
         /\ \E p \in [1..Cardinality(I) -> I] :
              /\ \A i, j \in 1..Cardinality(I) : i < j <=> p[i] < p[j]
              /\ \A k \in I : \E i \in 1..Cardinality(I) : p[i] = k
              /\ Select[evs][I] = [i \in 1..Cardinality(I) |-> evs[p[i]]]
<1> DEFINE n == Cardinality(I)
           R == [k \in I |-> {j \in I : j < k}]
           p == [i \in 1..n |-> CHOOSE k \in I : Cardinality(R[k]) = i - 1]
<1>1. DOMAIN evs = 1..Len(evs) /\ Len(evs) \in Nat /\ I \subseteq Nat OBVIOUS
<1>2. IsFiniteSet(I)
  <2>1. IsFiniteSet(1..Len(evs)) BY <1>1, FS_Interval
  <2> QED BY <1>1, <2>1, FS_Subset
<1>3. n \in Nat BY <1>2, FS_CardinalityType
<1>4. IsOrder(I, R)
  <2>1. R \in [I -> SUBSET I] OBVIOUS
  <2>2. \A j, k \in I : j \in R[k] <=> j < k OBVIOUS
  <2>3. I \subseteq Nat BY <1>1
  <2> HIDE DEF R
  <2>4. \A k \in I : k \notin R[k] BY <2>2, <2>3
  <2>5. \A j, k \in I : j # k => j \in R[k] \/ k \in R[j] BY <2>2, <2>3
  <2>6. \A h, j, k \in I : h \in R[j] /\ j \in R[k] => h \in R[k] BY <2>2, <2>3
  <2> QED BY <2>1, <2>4, <2>5, <2>6 DEF IsOrder
<1>5. Lists(p, I, R)
  <2> HIDE DEF R
  <2>1. p = [i \in 1..Cardinality(I) |-> CHOOSE k \in I : Cardinality(R[k]) = i - 1] OBVIOUS
  <2> HIDE DEF p
  <2> QED BY <1>2, <1>4, <2>1, ChosenLists
<1>6. ASSUME NEW i \in 1..n
      PROVE  (CHOOSE k \in I : Cardinality({j \in I : j < k}) = i - 1) = p[i]
  <2>1. \A k \in I : R[k] = {j \in I : j < k} OBVIOUS
  <2>2. p[i] = CHOOSE k \in I : Cardinality(R[k]) = i - 1 OBVIOUS
  <2> HIDE DEF p, R, n
  <2>3. (CHOOSE k \in I : Cardinality({j \in I : j < k}) = i - 1)
          = CHOOSE k \in I : Cardinality(R[k]) = i - 1
    BY <2>1
  <2> QED BY <2>2, <2>3
<1>7. Select[evs][I] = [i \in 1..n |->
        evs[CHOOSE k \in I : Cardinality({j \in I : j < k}) = i - 1]]
  BY <1>1 DEF Select
<1>8. Select[evs][I] = [i \in 1..n |-> evs[p[i]]]
  <2> HIDE DEF p, n
  <2> QED BY <1>6, <1>7
<1>9. /\ p \in [1..n -> I]
      /\ \A i, j \in 1..n : i < j <=> p[i] \in R[p[j]]
      /\ \A k \in I : \E i \in 1..n : p[i] = k
  <2> HIDE DEF p, R
  <2> QED BY <1>5 DEF Lists
<1>10. \A i, j \in 1..n : i < j <=> p[i] < p[j]
  <2>1. \A j, k \in I : j \in R[k] <=> j < k OBVIOUS
  <2> HIDE DEF p, R, n
  <2> QED BY <1>9, <2>1
<1> HIDE DEF p, n
<1> QED BY <1>2, <1>3, <1>8, <1>9, <1>10 DEF n


\* evs.filter keeps events, and their order.
LEMMA SelectType ==
  ASSUME NEW evs \in Seq(Events), NEW I \in SUBSET DOMAIN evs
  PROVE  /\ Select[evs][I] \in Seq(Events)
         /\ Len(Select[evs][I]) = Cardinality(I)
<1>1. PICK p \in [1..Cardinality(I) -> I] :
        Select[evs][I] = [i \in 1..Cardinality(I) |-> evs[p[i]]]
  BY SelectIs
<1>2. Cardinality(I) \in Nat BY SelectIs
<1>3. \A i \in 1..Cardinality(I) : evs[p[i]] \in Events
  <2>1. \A k \in I : evs[k] \in Events OBVIOUS
  <2> QED BY <1>1, <2>1
<1>4. Select[evs][I] \in [1..Cardinality(I) -> Events] BY <1>1, <1>3
<1> HIDE DEF Events
<1> QED BY <1>2, <1>4

-----------------------------------------------------------------------------
(* The ring.                                                               *)

\* The ring is the end of a list, MaxEvents long at most.
LEMMA RingIs ==
  ASSUME NEW s \in Seq(Events)
  PROVE  \E o \in Nat :
           /\ o = IF Len(s) > MaxEvents THEN Len(s) - MaxEvents ELSE 0
           /\ Ring(s) \in Seq(Events)
           /\ Len(Ring(s)) = Len(s) - o /\ Len(Ring(s)) <= MaxEvents
           /\ \A i \in 1..(Len(s) - o) : i + o \in 1..Len(s) /\ Ring(s)[i] = s[i + o]
<1> DEFINE o == IF Len(s) > MaxEvents THEN Len(s) - MaxEvents ELSE 0
<1>1. Len(s) \in Nat /\ MaxEvents \in Nat /\ MaxEvents > 0 BY BoundsAssumption
<1>2. o \in Nat /\ o <= Len(s) /\ Len(s) - o <= MaxEvents BY <1>1
<1>3. Ring(s) = SubSeq(s, o + 1, Len(s)) BY DEF Ring
<1> SUFFICES /\ Ring(s) \in Seq(Events)
             /\ Len(Ring(s)) = Len(s) - o
             /\ \A i \in 1..(Len(s) - o) : i + o \in 1..Len(s) /\ Ring(s)[i] = s[i + o]
  BY <1>2
<1> HIDE DEF o
<1>4. Len(SubSeq(s, o + 1, Len(s))) = Len(s) - o BY <1>1, <1>2
<1>5. SubSeq(s, o + 1, Len(s)) \in Seq(Events) BY <1>1, <1>2
<1>6. \A i \in 1..(Len(s) - o) : i + o \in 1..Len(s) /\ SubSeq(s, o + 1, Len(s))[i] = s[i + o]
  BY <1>1, <1>2
<1> QED BY <1>3, <1>4, <1>5, <1>6

-----------------------------------------------------------------------------
(* The operations on the log, field by field.                              *)

\* Joining to an appended list appends to the join.
LEMMA JoinAppend ==
  ASSUME NEW d \in Seq(Events), NEW b \in Seq(Events), NEW e \in Events
  PROVE  d \o Append(b, e) = Append(d \o b, e)
<1> DEFINE z == Append(b, e)
           c == d \o b
           x == d \o z
           y == Append(c, e)
<1>1. z \in Seq(Events) /\ Len(z) = Len(b) + 1 /\ z[Len(b) + 1] = e
      /\ \A i \in 1..Len(b) : z[i] = b[i]
  OBVIOUS
<1>2. c \in Seq(Events) /\ Len(c) = Len(d) + Len(b)
      /\ \A i \in 1..Len(c) : c[i] = IF i <= Len(d) THEN d[i] ELSE b[i - Len(d)]
  OBVIOUS
<1>3. Len(d) \in Nat /\ Len(b) \in Nat OBVIOUS
<1> HIDE DEF z, c
<1>4. x \in Seq(Events) /\ Len(x) = Len(d) + Len(z)
      /\ \A i \in 1..Len(x) : x[i] = IF i <= Len(d) THEN d[i] ELSE z[i - Len(d)]
  BY <1>1
<1>5. y \in Seq(Events) /\ Len(y) = Len(c) + 1 /\ y[Len(c) + 1] = e
      /\ \A i \in 1..Len(c) : y[i] = c[i]
  BY <1>2
<1> HIDE DEF x, y
<1>6. Len(x) = Len(y) BY <1>1, <1>2, <1>3, <1>4, <1>5
<1>7. ASSUME NEW i \in 1..Len(x) PROVE x[i] = y[i]
  <2>1. i \in Nat /\ i >= 1 /\ i <= Len(d) + Len(b) + 1 BY <1>1, <1>3, <1>4
  <2>2. CASE i <= Len(d)
    <3>1. i \in 1..Len(c) BY <1>2, <1>3, <2>1, <2>2
    <3> QED BY <1>2, <1>4, <1>5, <1>7, <2>2, <3>1
  <2>3. CASE i > Len(d) /\ i <= Len(d) + Len(b)
    <3>1. i \in 1..Len(c) /\ i - Len(d) \in 1..Len(b) /\ ~(i <= Len(d)) BY <1>2, <1>3, <2>1, <2>3
    <3>2. x[i] = z[i - Len(d)] BY <1>4, <3>1
    <3>3. y[i] = b[i - Len(d)] BY <1>2, <1>5, <3>1
    <3> QED BY <1>1, <3>1, <3>2, <3>3
  <2>4. CASE i = Len(d) + Len(b) + 1
    <3>1. i = Len(c) + 1 /\ i - Len(d) = Len(b) + 1 /\ ~(i <= Len(d)) BY <1>2, <1>3, <2>4
    <3>2. x[i] = z[i - Len(d)] BY <1>4, <3>1
    <3> QED BY <1>1, <1>5, <3>1, <3>2
  <2> QED BY <1>3, <2>1, <2>2, <2>3, <2>4
<1>8. x = y BY <1>4, <1>5, <1>6, <1>7
<1> QED BY <1>8 DEF x, y, z, c

\* Full is the disk with the buffer behind it.
LEMMA FullIs ==
  ASSUME NEW l \in Logs
  PROVE  /\ Full(l) \in Seq(Events)
         /\ l.disk \in Seq(Events) /\ l.buffer \in Seq(Events) /\ l.events \in Seq(Events)
         /\ Len(Full(l)) = Len(l.disk) + Len(l.buffer)
         /\ \A i \in 1..Len(l.disk) : Full(l)[i] = l.disk[i]
         /\ \A i \in 1..Len(l.buffer) : Full(l)[Len(l.disk) + i] = l.buffer[i]
<1>1. l.disk \in Seq(Events) /\ l.buffer \in Seq(Events) /\ l.events \in Seq(Events)
  BY DEF Logs
<1> DEFINE d == l.disk
           b == l.buffer
<1>2. d \in Seq(Events) /\ b \in Seq(Events) BY <1>1
<1>3. Full(l) = d \o b BY DEF Full
<1> HIDE DEF d, b
<1>4. /\ d \o b \in Seq(Events) /\ Len(d \o b) = Len(d) + Len(b)
      /\ \A i \in 1..Len(d) : (d \o b)[i] = d[i]
      /\ \A i \in 1..Len(b) : (d \o b)[Len(d) + i] = b[i]
  BY <1>2
<1> QED BY <1>1, <1>3, <1>4 DEF d, b

\* flushSession moves the buffer to the disk.
LEMMA FlushIs ==
  ASSUME NEW l \in Logs, NEW m, m = Flush(l)
  PROVE  /\ m \in Logs
         /\ m.events = l.events /\ m.seq = l.seq /\ m.recSeq = l.recSeq
         /\ m.loaded = l.loaded /\ m.made = l.made /\ m.stale = l.stale
         /\ m.buffer = <<>> /\ m.disk = Full(l) /\ Full(m) = Full(l)
<1>1. Full(l) \in Seq(Events) BY FullIs
<1>2. <<>> \in Seq(Events) OBVIOUS
<1>3. m = [l EXCEPT !.disk = Full(l), !.buffer = <<>>] BY DEF Flush
<1>4. /\ m.events = l.events /\ m.seq = l.seq /\ m.recSeq = l.recSeq
      /\ m.loaded = l.loaded /\ m.made = l.made /\ m.stale = l.stale
      /\ m.buffer = <<>> /\ m.disk = Full(l)
  <2> HIDE DEF Full
  <2> QED BY <1>3 DEF Logs
<1>5. m \in Logs BY <1>1, <1>2, <1>3 DEF Logs
<1>6. Full(m) = Full(l) \o <<>> BY <1>4 DEF Full
<1>7. Full(l) \o <<>> = Full(l) BY <1>1
<1> QED BY <1>4, <1>5, <1>6, <1>7

\* The event a handler appends next.
NextEvent(l, kind) == [seq |-> l.seq + 1, n |-> l.made + 1, kind |-> kind]

\* What appendEvent does, field by field.
LEMMA StoredIs ==
  ASSUME NEW l \in Logs, NEW kind \in Kinds,
         NEW m, m = Stored(l, kind), NEW e, e = NextEvent(l, kind)
  PROVE  /\ m \in Logs /\ e \in Events
         /\ m.events = l.events /\ m.seq = l.seq + 1 /\ m.recSeq = l.seq + 1
         /\ m.loaded = l.loaded /\ m.made = l.made + 1 /\ m.stale = l.stale
         /\ Full(m) = Append(Full(l), e)
         /\ \/ m.buffer = <<>>
            \/ kind \in Buffered /\ m.buffer = Append(l.buffer, e)
<1>1. l.seq \in Nat /\ l.made \in Nat BY DEF Logs
<1>2. e \in Events BY <1>1 DEF Events, NextEvent
<1> DEFINE a == [l EXCEPT !.seq = @ + 1, !.recSeq = l.seq + 1, !.made = @ + 1]
           b == [a EXCEPT !.buffer = Append(@, e)]
<1>3. a = [l EXCEPT !.seq = l.seq + 1, !.recSeq = l.seq + 1, !.made = l.made + 1]
  BY DEF Logs
<1>4. /\ a.events = l.events /\ a.seq = l.seq + 1 /\ a.recSeq = l.seq + 1
      /\ a.loaded = l.loaded /\ a.made = l.made + 1 /\ a.stale = l.stale
      /\ a.disk = l.disk /\ a.buffer = l.buffer
  BY DEF Logs
<1>5. a \in Logs
  <2>1. l.seq + 1 \in Nat /\ l.made + 1 \in Nat BY <1>1
  <2> QED BY <2>1 DEF Logs
<1>6. m = Saved(a, e) BY DEF Stored, NextEvent
<1> HIDE DEF a
<1>7. /\ b.events = a.events /\ b.seq = a.seq /\ b.recSeq = a.recSeq
      /\ b.loaded = a.loaded /\ b.made = a.made /\ b.stale = a.stale
      /\ b.disk = a.disk /\ b.buffer = Append(a.buffer, e)
  BY <1>5 DEF Logs
<1>8. Append(a.buffer, e) \in Seq(Events)
  <2>1. a.buffer \in Seq(Events) BY <1>5 DEF Logs
  <2> QED BY <1>2, <2>1
<1>9. b \in Logs BY <1>5, <1>8 DEF Logs
<1>10. m = IF e.kind \notin Buffered \/ Len(b.buffer) >= FlushLines THEN Flush(b) ELSE b
  BY <1>6 DEF Saved
<1> HIDE DEF b
<1>11. Full(b) = Append(Full(l), e)
  <2>1. l.disk \in Seq(Events) /\ l.buffer \in Seq(Events) BY DEF Logs
  <2>2. Full(b) = l.disk \o Append(l.buffer, e) BY <1>4, <1>7 DEF Full
  <2>3. l.disk \o Append(l.buffer, e) = Append(l.disk \o l.buffer, e)
    BY <1>2, <2>1, JoinAppend
  <2> QED BY <2>2, <2>3 DEF Full
<1>12. e.kind = kind BY DEF NextEvent
<1>13. CASE e.kind \notin Buffered \/ Len(b.buffer) >= FlushLines
  <2>1. m = Flush(b) BY <1>10, <1>13
  <2> QED BY <1>2, <1>4, <1>7, <1>9, <1>11, <2>1, FlushIs
<1>14. CASE ~(e.kind \notin Buffered \/ Len(b.buffer) >= FlushLines)
  <2>1. m = b BY <1>10, <1>14
  <2> QED BY <1>2, <1>4, <1>7, <1>9, <1>11, <1>12, <1>14, <2>1
<1> QED BY <1>13, <1>14

\* What appendRaw does, field by field.
LEMMA PutIs ==
  ASSUME NEW l \in Logs, NEW kind \in Kinds,
         NEW m, m = Put(l, kind), NEW e, e = NextEvent(l, kind)
  PROVE  /\ m \in Logs /\ e \in Events
         /\ m.events = Ring(Append(l.events, e)) /\ Len(m.events) <= MaxEvents
         /\ m.seq = l.seq + 1 /\ m.recSeq = l.seq + 1
         /\ m.loaded = l.loaded /\ m.made = l.made + 1 /\ m.stale = l.stale
         /\ Full(m) = Append(Full(l), e)
         /\ \/ m.buffer = <<>>
            \/ kind \in Buffered /\ m.buffer = Append(l.buffer, e)
<1> DEFINE s == Stored(l, kind)
           r == Ring(Append(l.events, e))
<1>1. /\ s \in Logs /\ e \in Events
      /\ s.events = l.events /\ s.seq = l.seq + 1 /\ s.recSeq = l.seq + 1
      /\ s.loaded = l.loaded /\ s.made = l.made + 1 /\ s.stale = l.stale
      /\ Full(s) = Append(Full(l), e)
      /\ \/ s.buffer = <<>>
         \/ kind \in Buffered /\ s.buffer = Append(l.buffer, e)
  BY StoredIs
<1>2. l.events \in Seq(Events) BY DEF Logs
<1>3. Append(l.events, e) \in Seq(Events) BY <1>1, <1>2
<1>4. r \in Seq(Events) /\ Len(r) <= MaxEvents BY <1>3, RingIs
<1>5. m = [s EXCEPT !.events = r] BY DEF Put, NextEvent
<1> HIDE DEF s
<1>6. m \in Logs
  <2> HIDE DEF r
  <2> QED BY <1>1, <1>4, <1>5 DEF Logs
<1>7. /\ m.events = r /\ m.seq = s.seq /\ m.recSeq = s.recSeq
      /\ m.loaded = s.loaded /\ m.made = s.made /\ m.stale = s.stale
      /\ m.disk = s.disk /\ m.buffer = s.buffer
  <2> HIDE DEF r
  <2> QED BY <1>1, <1>5 DEF Logs
<1>8. Full(m) = Full(s) BY <1>7 DEF Full
<1> QED BY <1>1, <1>4, <1>6, <1>7, <1>8

\* What evictLoadedBeyondCap does, field by field.
LEMMA UnloadedIs ==
  ASSUME NEW l \in Logs, NEW m, m = Unloaded(l)
  PROVE  /\ m \in Logs /\ m.events = <<>> /\ m.loaded = FALSE
         /\ m.seq = l.seq /\ m.recSeq = l.recSeq /\ m.made = l.made /\ m.stale = l.stale
         /\ m.disk = l.disk /\ m.buffer = l.buffer /\ Full(m) = Full(l)
<1>1. <<>> \in Seq(Events) OBVIOUS
<1>2. m \in Logs BY <1>1 DEF Logs, Unloaded
<1>3. /\ m.events = <<>> /\ m.loaded = FALSE
      /\ m.seq = l.seq /\ m.recSeq = l.recSeq /\ m.made = l.made /\ m.stale = l.stale
      /\ m.disk = l.disk /\ m.buffer = l.buffer
  BY DEF Logs, Unloaded
<1> QED BY <1>2, <1>3 DEF Full

\* What adoptLoadedEvents does, field by field.
LEMMA AdoptIs ==
  ASSUME NEW l \in Logs, NEW evs \in Seq(Events), NEW m, m = Adopt(l, evs)
  PROVE  /\ m \in Logs
         /\ m.events = Ring(BySeq[evs]) /\ Len(m.events) <= MaxEvents
         /\ l.seq <= m.seq /\ UpTo(evs, m.seq)
         /\ m.recSeq = l.recSeq /\ m.loaded = TRUE /\ m.made = l.made
         /\ m.stale = (evs # Full(l))
         /\ m.disk = l.disk /\ m.buffer = l.buffer /\ Full(m) = Full(l)
<1> DEFINE b == BySeq[evs]
           h == IF evs = <<>> THEN l.recSeq ELSE b[Len(evs)].seq
           q == IF h > l.seq THEN h ELSE l.seq
           r == Ring(b)
<1>1. /\ b \in Seq(Events) /\ Len(b) = Len(evs)
      /\ \A i, j \in 1..Len(evs) : i < j => b[i].seq <= b[j].seq
      /\ \A k \in 1..Len(evs) : \E i \in 1..Len(evs) : b[i] = evs[k]
  BY SortType
<1>2. r \in Seq(Events) /\ Len(r) <= MaxEvents BY <1>1, RingIs
<1>3. m = [l EXCEPT !.events = r, !.seq = q, !.loaded = TRUE, !.stale = (evs # Full(l))]
  BY DEF Adopt, Logs
<1>4. l.recSeq \in Nat /\ l.seq \in Nat BY DEF Logs
<1> HIDE DEF b
<1>5. \A i \in 1..Len(evs) : b[i].seq \in Nat
  <2>1. \A i \in 1..Len(evs) : b[i] \in Events BY <1>1
  <2> QED BY <2>1 DEF Events
<1>6. evs # <<>> => Len(evs) \in 1..Len(evs) OBVIOUS
<1>7. h \in Nat BY <1>4, <1>5, <1>6
<1>8. q \in Nat /\ l.seq <= q /\ h <= q BY <1>4, <1>7
<1>9. UpTo(evs, q)
  <2> SUFFICES ASSUME NEW k \in 1..Len(evs) PROVE evs[k].seq <= q BY DEF UpTo
  <2>1. PICK i \in 1..Len(evs) : b[i] = evs[k] BY <1>1
  <2>2. b[i].seq <= b[Len(evs)].seq
    <3>1. i < Len(evs) \/ i = Len(evs) OBVIOUS
    <3>2. b[i].seq \in Nat BY <1>5
    <3>3. Len(evs) \in 1..Len(evs) OBVIOUS
    <3>4. i < Len(evs) => b[i].seq <= b[Len(evs)].seq BY <1>1, <3>3
    <3>5. b[i].seq <= b[i].seq BY <3>2
    <3> QED BY <3>1, <3>4, <3>5
  <2>3. h = b[Len(evs)].seq OBVIOUS
  <2>4. b[i].seq \in Nat BY <1>5
  <2> HIDE DEF h, q
  <2> QED BY <1>7, <1>8, <2>1, <2>2, <2>3, <2>4
<1> HIDE DEF q, r
<1>10. m \in Logs
  <2>1. (evs # Full(l)) \in BOOLEAN OBVIOUS
  <2> QED BY <1>2, <1>3, <1>8, <2>1 DEF Logs
<1>11. /\ m.events = r /\ m.seq = q /\ m.recSeq = l.recSeq /\ m.loaded = TRUE
       /\ m.made = l.made /\ m.stale = (evs # Full(l))
       /\ m.disk = l.disk /\ m.buffer = l.buffer
  <2> DEFINE x == evs # Full(l)
  <2>1. m = [l EXCEPT !.events = r, !.seq = q, !.loaded = TRUE, !.stale = x] BY <1>3
  <2> HIDE DEF x
  <2>2. /\ m.events = r /\ m.seq = q /\ m.recSeq = l.recSeq /\ m.loaded = TRUE
        /\ m.made = l.made /\ m.stale = x
        /\ m.disk = l.disk /\ m.buffer = l.buffer
    BY <2>1 DEF Logs
  <2> QED BY <2>2 DEF x
<1>12. Full(m) = Full(l) BY <1>11 DEF Full
<1> QED BY <1>2, <1>8, <1>9, <1>10, <1>11, <1>12 DEF r, b


-----------------------------------------------------------------------------
(* What holds of a log through the operations.                             *)

\* m is l, with events appended whose seqs go on from l's; when l's seq is
\* ahead of its events, so is m's, and what m owes l did, or was appended.
Grown(l, m) ==
  /\ l.seq <= m.seq
  /\ Len(Full(l)) <= Len(Full(m))
  /\ \A i \in 1..Len(Full(l)) : Full(m)[i] = Full(l)[i]
  /\ \A i \in (Len(Full(l)) + 1)..Len(Full(m)) :
       l.seq < Full(m)[i].seq /\ Full(m)[i].seq <= m.seq
  /\ \A i, j \in (Len(Full(l)) + 1)..Len(Full(m)) :
       i < j => Full(m)[i].seq < Full(m)[j].seq
  /\ Ahead(l) =>
       /\ Ahead(m)
       /\ \A x : Owed(x, m) =>
            \/ Owed(x, l)
            \/ \E i \in (Len(Full(l)) + 1)..Len(Full(m)) : Full(m)[i] = x

\* The fields of the events in a list.
LEMMA SeqsAre ==
  ASSUME NEW s \in Seq(Events)
  PROVE  \A i \in 1..Len(s) : s[i] \in Events /\ s[i].seq \in Nat /\ s[i].n \in Nat
<1>1. \A i \in 1..Len(s) : s[i] \in Events OBVIOUS
<1> QED BY <1>1 DEF Events

\* A log with the same events, and no lower seq, has grown by nothing.
LEMMA SameIsGrown ==
  ASSUME NEW l \in Logs, NEW m \in Logs, Full(m) = Full(l), l.seq <= m.seq
  PROVE  Grown(l, m)
<1>0. Full(l) \in Seq(Events) BY FullIs
<1>1. Full(l) \in Seq(Events) /\ Len(Full(l)) \in Nat BY <1>0
<1>2. l.seq \in Nat /\ m.seq \in Nat BY DEF Logs
<1>3. \A x : Owed(x, m) => Owed(x, l) BY DEF Owed
<1>4. Ahead(l) => Ahead(m)
  <2> DEFINE f == Full(l)
  <2>1. \A i \in 1..Len(f) : f[i].seq \in Nat BY <1>1, SeqsAre
  <2>2. DOMAIN f = 1..Len(f) BY <1>1
  <2>3. Ahead(l) <=> UpTo(f, l.seq) BY DEF Ahead
  <2>4. Ahead(m) <=> UpTo(f, m.seq) BY DEF Ahead
  <2> HIDE DEF f
  <2> QED BY <1>2, <2>1, <2>2, <2>3, <2>4 DEF UpTo
<1>5. \A i : i \notin (Len(Full(l)) + 1)..Len(Full(m)) BY <1>1
<1>6. Len(Full(l)) <= Len(Full(m)) /\ \A i \in 1..Len(Full(l)) : Full(m)[i] = Full(l)[i]
  BY <1>1
<1> QED BY <1>3, <1>4, <1>5, <1>6 DEF Grown

\* Growth upon growth is growth.
LEMMA GrownTwice ==
  ASSUME NEW l \in Logs, NEW m \in Logs, NEW p \in Logs, Grown(l, m), Grown(m, p)
  PROVE  Grown(l, p)
<1> DEFINE f == Full(l)
           g == Full(m)
           h == Full(p)
<1>1. f \in Seq(Events) /\ g \in Seq(Events) /\ h \in Seq(Events) BY FullIs
<1>2. l.seq \in Nat /\ m.seq \in Nat /\ p.seq \in Nat BY DEF Logs
<1>3. Len(f) \in Nat /\ Len(g) \in Nat /\ Len(h) \in Nat BY <1>1
<1>4. \A i \in 1..Len(h) : h[i].seq \in Nat BY <1>1, SeqsAre
<1>5. /\ l.seq <= m.seq /\ Len(f) <= Len(g)
      /\ \A i \in 1..Len(f) : g[i] = f[i]
      /\ \A i \in (Len(f) + 1)..Len(g) : l.seq < g[i].seq /\ g[i].seq <= m.seq
      /\ \A i, j \in (Len(f) + 1)..Len(g) : i < j => g[i].seq < g[j].seq
      /\ Ahead(l) =>
           /\ Ahead(m)
           /\ \A x : Owed(x, m) =>
                Owed(x, l) \/ \E i \in (Len(f) + 1)..Len(g) : g[i] = x
  BY DEF Grown
<1>6. /\ m.seq <= p.seq /\ Len(g) <= Len(h)
      /\ \A i \in 1..Len(g) : h[i] = g[i]
      /\ \A i \in (Len(g) + 1)..Len(h) : m.seq < h[i].seq /\ h[i].seq <= p.seq
      /\ \A i, j \in (Len(g) + 1)..Len(h) : i < j => h[i].seq < h[j].seq
      /\ Ahead(m) =>
           /\ Ahead(p)
           /\ \A x : Owed(x, p) =>
                Owed(x, m) \/ \E i \in (Len(g) + 1)..Len(h) : h[i] = x
  BY DEF Grown
<1> HIDE DEF f, g, h
<1>7. \A i : i \in (Len(f) + 1)..Len(h) <=>
               i \in (Len(f) + 1)..Len(g) \/ i \in (Len(g) + 1)..Len(h)
  BY <1>3, <1>5, <1>6
<1>8. \A i \in (Len(f) + 1)..Len(g) : i \in 1..Len(g) /\ i \in 1..Len(h) /\ h[i] = g[i]
  BY <1>3, <1>6
<1>9. \A i \in (Len(g) + 1)..Len(h) : i \in 1..Len(h)
  BY <1>3
<1>10. \A i \in 1..Len(f) : h[i] = f[i]
  <2>1. \A i \in 1..Len(f) : i \in 1..Len(g) BY <1>3, <1>5
  <2> QED BY <1>5, <1>6, <2>1
<1>11. l.seq <= p.seq /\ Len(f) <= Len(h) BY <1>2, <1>3, <1>5, <1>6
<1>12. ASSUME NEW i \in (Len(f) + 1)..Len(h)
       PROVE  l.seq < h[i].seq /\ h[i].seq <= p.seq
  <2>1. CASE i \in (Len(f) + 1)..Len(g)
    <3>1. h[i] = g[i] /\ h[i].seq \in Nat BY <1>4, <1>8, <2>1
    <3>2. l.seq < g[i].seq /\ g[i].seq <= m.seq BY <1>5, <2>1
    <3> QED BY <1>2, <1>6, <3>1, <3>2
  <2>2. CASE i \in (Len(g) + 1)..Len(h)
    <3>1. h[i].seq \in Nat BY <1>4, <1>9, <2>2
    <3>2. m.seq < h[i].seq /\ h[i].seq <= p.seq BY <1>6, <2>2
    <3> QED BY <1>2, <1>5, <3>1, <3>2
  <2> QED BY <1>7, <2>1, <2>2
<1>13. ASSUME NEW i \in (Len(f) + 1)..Len(h), NEW j \in (Len(f) + 1)..Len(h), i < j
       PROVE  h[i].seq < h[j].seq
  <2>1. CASE j \in (Len(f) + 1)..Len(g)
    <3>1. i \in (Len(f) + 1)..Len(g) BY <1>3, <1>13, <2>1
    <3>2. g[i].seq < g[j].seq BY <1>5, <1>13, <2>1, <3>1
    <3> QED BY <1>8, <2>1, <3>1, <3>2
  <2>2. CASE i \in (Len(g) + 1)..Len(h)
    <3>1. j \in (Len(g) + 1)..Len(h) BY <1>3, <1>13, <2>2
    <3> QED BY <1>6, <1>13, <2>2, <3>1
  <2>3. CASE i \in (Len(f) + 1)..Len(g) /\ j \in (Len(g) + 1)..Len(h)
    <3>1. h[i] = g[i] /\ h[i].seq \in Nat /\ h[j].seq \in Nat BY <1>4, <1>8, <1>9, <2>3
    <3>2. g[i].seq <= m.seq /\ m.seq < h[j].seq BY <1>5, <1>6, <2>3
    <3> QED BY <1>2, <3>1, <3>2
  <2> QED BY <1>7, <2>1, <2>2, <2>3
<1>14. ASSUME Ahead(l)
       PROVE  /\ Ahead(p)
              /\ \A x : Owed(x, p) =>
                   Owed(x, l) \/ \E i \in (Len(f) + 1)..Len(h) : h[i] = x
  <2>1. Ahead(m) /\ Ahead(p) BY <1>5, <1>6, <1>14
  <2>2. ASSUME NEW x, Owed(x, p)
        PROVE  Owed(x, l) \/ \E i \in (Len(f) + 1)..Len(h) : h[i] = x
    <3>1. Owed(x, m) \/ \E i \in (Len(g) + 1)..Len(h) : h[i] = x
      BY <1>6, <2>1, <2>2
    <3>2. Owed(x, m) => Owed(x, l) \/ \E i \in (Len(f) + 1)..Len(g) : g[i] = x
      BY <1>5, <1>14
    <3> QED BY <1>7, <1>8, <3>1, <3>2
  <2> QED BY <2>1, <2>2
<1> QED BY <1>10, <1>11, <1>12, <1>13, <1>14 DEF Grown, f, g, h


\* An event above all others keeps a list ordered.
LEMMA AppendOrdered ==
  ASSUME NEW s \in Seq(Events), NEW e \in Events, NEW b \in Nat, UpTo(s, b), b < e.seq
  PROVE  /\ UpTo(Append(s, e), e.seq)
         /\ Ordered(s) => Ordered(Append(s, e))
         /\ Climbs(s) => Climbs(Append(s, e))
<1> DEFINE t == Append(s, e)
           n == Len(s)
<1>1. /\ n \in Nat /\ DOMAIN s = 1..n /\ DOMAIN t = 1..(n + 1) /\ t[n + 1] = e
      /\ \A i \in 1..n : t[i] = s[i]
  OBVIOUS
<1>2. \A i \in 1..n : s[i].seq \in Nat /\ s[i].seq <= b BY <1>1, SeqsAre DEF UpTo
<1>3. e.seq \in Nat BY DEF Events
<1> HIDE DEF t, n
<1>4. \A i \in 1..(n + 1) : i \in 1..n \/ i = n + 1 BY <1>1
<1>5. \A i \in 1..n : t[i].seq < e.seq /\ t[i].seq \in Nat BY <1>1, <1>2, <1>3
<1>6. \A i \in 1..(n + 1) : t[i].seq <= e.seq BY <1>1, <1>3, <1>4, <1>5
<1>7. ASSUME NEW i \in 1..(n + 1), NEW j \in 1..(n + 1), i < j
      PROVE  i \in 1..n /\ (j \in 1..n \/ j = n + 1)
  BY <1>1, <1>7
<1>8. Ordered(s) => Ordered(t)
  <2> SUFFICES ASSUME Ordered(s), NEW i \in 1..(n + 1), NEW j \in 1..(n + 1), i < j
               PROVE  Before(t[i], t[j])
    BY <1>1 DEF Ordered
  <2>1. CASE j \in 1..n
    <3>1. Before(s[i], s[j]) BY <1>1, <1>7, <2>1 DEF Ordered
    <3> QED BY <1>1, <1>7, <2>1, <3>1
  <2>2. CASE j = n + 1 BY <1>1, <1>5, <1>7, <2>2 DEF Before
  <2> QED BY <1>7, <2>1, <2>2
<1>9. Climbs(s) => Climbs(t)
  <2> SUFFICES ASSUME Climbs(s), NEW i \in 1..(n + 1), NEW j \in 1..(n + 1), i < j
               PROVE  t[i].seq < t[j].seq
    BY <1>1 DEF Climbs
  <2>1. CASE j \in 1..n
    <3>1. s[i].seq < s[j].seq BY <1>1, <1>7, <2>1 DEF Climbs
    <3> QED BY <1>1, <1>7, <2>1, <3>1
  <2>2. CASE j = n + 1 BY <1>1, <1>5, <1>7, <2>2
  <2> QED BY <1>7, <2>1, <2>2
<1>10. UpTo(t, e.seq) BY <1>1, <1>6 DEF UpTo
<1> QED BY <1>8, <1>9, <1>10 DEF t

\* What the ring leaves out does not disturb the order.
LEMMA RingKeeps ==
  ASSUME NEW s \in Seq(Events)
  PROVE  /\ Ring(s) \in Seq(Events) /\ Len(Ring(s)) <= MaxEvents
         /\ Ordered(s) => Ordered(Ring(s))
         /\ \A b : UpTo(s, b) => UpTo(Ring(s), b)
         /\ \A x : Occurs(x, Ring(s)) => Occurs(x, s)
<1> DEFINE r == Ring(s)
<1>1. PICK o \in Nat :
        /\ o = IF Len(s) > MaxEvents THEN Len(s) - MaxEvents ELSE 0
        /\ r \in Seq(Events) /\ Len(r) = Len(s) - o /\ Len(r) <= MaxEvents
        /\ \A i \in 1..(Len(s) - o) : i + o \in 1..Len(s) /\ r[i] = s[i + o]
  BY RingIs
<1> HIDE DEF r
<1>2. r \in Seq(Events) /\ Len(r) = Len(s) - o BY <1>1
<1>3. DOMAIN s = 1..Len(s) /\ DOMAIN r = 1..(Len(s) - o) /\ Len(s) \in Nat BY <1>2
<1>4. \A i \in DOMAIN r : i \in Nat /\ i + o \in DOMAIN s /\ r[i] = s[i + o] BY <1>1, <1>3
<1>5. Ordered(s) => Ordered(r)
  <2> SUFFICES ASSUME Ordered(s), NEW i \in DOMAIN r, NEW j \in DOMAIN r, i < j
               PROVE  Before(r[i], r[j])
    BY DEF Ordered
  <2>1. i + o < j + o BY <1>4
  <2>2. Before(s[i + o], s[j + o]) BY <1>4, <2>1 DEF Ordered
  <2> QED BY <1>4, <2>2
<1>6. ASSUME NEW b, UpTo(s, b) PROVE UpTo(r, b) BY <1>4, <1>6 DEF UpTo
<1>7. ASSUME NEW x, Occurs(x, r) PROVE Occurs(x, s) BY <1>4, <1>7 DEF Occurs
<1> QED BY <1>1, <1>5, <1>6, <1>7 DEF r

\* The sort keeps events with one seq in the order they were made.
LEMMA SortOrdered ==
  ASSUME NEW evs \in Seq(Events),
         \A i, j \in 1..Len(evs) : i < j => evs[i].n < evs[j].n
  PROVE  Ordered(BySeq[evs])
<1>1. PICK p : /\ Lists(p, DOMAIN evs, Earlier(evs))
               /\ BySeq[evs] = [i \in 1..Len(evs) |-> evs[p[i]]]
  BY SortIs
<1>2. DOMAIN evs = 1..Len(evs) /\ Len(evs) \in Nat /\ Cardinality(DOMAIN evs) = Len(evs)
  BY SortOrders
<1>3. p \in [1..Len(evs) -> 1..Len(evs)] BY <1>1, <1>2 DEF Lists
<1> SUFFICES ASSUME NEW i \in 1..Len(evs), NEW j \in 1..Len(evs), i < j
             PROVE  Before(BySeq[evs][i], BySeq[evs][j])
  BY <1>1 DEF Ordered
<1>4. p[i] \in 1..Len(evs) /\ p[j] \in 1..Len(evs) BY <1>3
<1>5. p[i] \in Earlier(evs)[p[j]] BY <1>1, <1>2 DEF Lists
<1>6. Precedes(evs, p[i], p[j])
  <2>1. Earlier(evs)[p[j]] = {h \in DOMAIN evs : Precedes(evs, h, p[j])} BY <1>2, <1>4, SortOrders
  <2> QED BY <1>5, <2>1
<1>7. p[i] < p[j] => evs[p[i]].n < evs[p[j]].n BY <1>4
<1>8. Before(evs[p[i]], evs[p[j]]) BY <1>6, <1>7 DEF Precedes, Before
<1> QED BY <1>1, <1>8

\* An append adds its event.
LEMMA OccursAppend ==
  ASSUME NEW s \in Seq(Events), NEW e \in Events
  PROVE  \A x : Occurs(x, Append(s, e)) <=> Occurs(x, s) \/ x = e
<1> DEFINE t == Append(s, e)
           n == Len(s)
<1>1. /\ n \in Nat /\ DOMAIN s = 1..n /\ DOMAIN t = 1..(n + 1) /\ t[n + 1] = e
      /\ \A i \in 1..n : t[i] = s[i]
  OBVIOUS
<1> HIDE DEF t, n
<1>2. \A i \in 1..(n + 1) : i \in 1..n \/ i = n + 1 BY <1>1
<1>3. \A i \in 1..n : i \in 1..(n + 1) BY <1>1
<1>4. n + 1 \in 1..(n + 1) BY <1>1
<1>5. \A x : Occurs(x, t) <=> Occurs(x, s) \/ x = e BY <1>1, <1>2, <1>3, <1>4 DEF Occurs
<1> QED BY <1>5 DEF t

\* The events of a list that come after x.
Later(x, evs) == {y \in {evs[i] : i \in DOMAIN evs} : Before(x, y)}
LaterHooks(x, evs) == {y \in Later(x, evs) : y.kind = "hook"}

\* They are finitely many, and Recent counts them.
LEMMA LaterIs ==
  ASSUME NEW evs \in Seq(Events), NEW x
  PROVE  /\ IsFiniteSet(Later(x, evs)) /\ IsFiniteSet(LaterHooks(x, evs))
         /\ Cardinality(Later(x, evs)) \in Nat /\ Cardinality(LaterHooks(x, evs)) \in Nat
         /\ \A y : y \in Later(x, evs) <=> Occurs(y, evs) /\ Before(x, y)
         /\ Recent(x, evs) <=>
              /\ Cardinality(Later(x, evs)) < MaxEvents
              /\ x.kind = "hook" => Cardinality(LaterHooks(x, evs)) < MaxHooks
<1> DEFINE D == DOMAIN evs
           R == {evs[i] : i \in DOMAIN evs}
           f == [i \in D |-> evs[i]]
<1>1. D = 1..Len(evs) /\ Len(evs) \in Nat OBVIOUS
<1>2. IsFiniteSet(D) BY <1>1, FS_Interval
<1>3. f \in Surjection(D, R) BY DEF Surjection
<1>4. IsFiniteSet(R) BY <1>2, <1>3, FS_Surjection
<1>5. Later(x, evs) \subseteq R /\ LaterHooks(x, evs) \subseteq R BY DEF Later, LaterHooks
<1>6. IsFiniteSet(Later(x, evs)) /\ IsFiniteSet(LaterHooks(x, evs))
  <2> HIDE DEF R
  <2> QED BY <1>4, <1>5, FS_Subset
<1>7. \A y : y \in Later(x, evs) <=> Occurs(y, evs) /\ Before(x, y) BY DEF Later, Occurs
<1>8. Recent(x, evs) <=>
        /\ Cardinality(Later(x, evs)) < MaxEvents
        /\ x.kind = "hook" => Cardinality(LaterHooks(x, evs)) < MaxHooks
  BY DEF Recent, Later, LaterHooks
<1> QED BY <1>6, <1>7, <1>8, FS_CardinalityType

\* What a replay promises of a log, it promised of the log before an append.
LEMMA RecentBefore ==
  ASSUME NEW f \in Seq(Events), NEW e \in Events, NEW g, g = Append(f, e),
         NEW x, Recent(x, g)
  PROVE  Recent(x, f)
<1>1. g \in Seq(Events) OBVIOUS
<1>2. \A y : Occurs(y, f) => Occurs(y, g) BY OccursAppend
<1>3. Later(x, f) \subseteq Later(x, g) BY <1>1, <1>2, LaterIs
<1>4. LaterHooks(x, f) \subseteq LaterHooks(x, g) BY <1>3 DEF LaterHooks
<1>5. /\ Cardinality(Later(x, f)) <= Cardinality(Later(x, g))
      /\ Cardinality(LaterHooks(x, f)) <= Cardinality(LaterHooks(x, g))
  BY <1>1, <1>3, <1>4, LaterIs, FS_Subset
<1>6. MaxEvents \in Nat /\ MaxHooks \in Nat BY BoundsAssumption
<1>7. /\ Cardinality(Later(x, g)) < MaxEvents
      /\ x.kind = "hook" => Cardinality(LaterHooks(x, g)) < MaxHooks
  BY <1>1, LaterIs
<1>8. /\ Cardinality(Later(x, f)) \in Nat /\ Cardinality(LaterHooks(x, f)) \in Nat
      /\ Cardinality(Later(x, g)) \in Nat /\ Cardinality(LaterHooks(x, g)) \in Nat
  BY <1>1, LaterIs
<1>9. /\ Cardinality(Later(x, f)) < MaxEvents
      /\ x.kind = "hook" => Cardinality(LaterHooks(x, f)) < MaxHooks
  BY <1>5, <1>6, <1>7, <1>8
<1> QED BY <1>9, LaterIs

\* An ordered list has no event twice: there are as many as their places.
LEMMA PlacesCount ==
  ASSUME NEW s \in Seq(Events), Ordered(s), NEW J \in SUBSET DOMAIN s,
         NEW Y, IsFiniteSet(Y), \A j \in J : s[j] \in Y
  PROVE  Cardinality(J) <= Cardinality(Y) /\ Cardinality(J) \in Nat
<1> DEFINE f == [j \in J |-> s[j]]
<1>1. \A i \in DOMAIN s : i \in Nat /\ s[i].seq \in Nat /\ s[i].n \in Nat
  <2>1. DOMAIN s = 1..Len(s) OBVIOUS
  <2> QED BY <2>1, SeqsAre
<1>2. ASSUME NEW i \in DOMAIN s, NEW j \in DOMAIN s, s[i] = s[j] PROVE i = j
  <2>1. ~Before(s[i], s[j]) /\ ~Before(s[j], s[i]) BY <1>1, <1>2 DEF Before
  <2>2. ~(i < j) /\ ~(j < i) BY <2>1 DEF Ordered
  <2> QED BY <1>1, <2>2
<1>3. f \in Injection(J, Y) BY <1>2 DEF Injection, IsInjective
<1> HIDE DEF f
<1>4. IsFiniteSet(J) /\ Cardinality(J) <= Cardinality(Y) BY <1>3, FS_Injection
<1> QED BY <1>4, FS_CardinalityType

\* The ring does not drop what a replay promises.
LEMMA RingOwes ==
  ASSUME NEW s \in Seq(Events), Ordered(s), NEW f \in Seq(Events),
         \A y : Occurs(y, s) => Occurs(y, f),
         NEW x, Occurs(x, s), Recent(x, f)
  PROVE  Occurs(x, Ring(s))
<1>1. PICK o \in Nat :
        /\ o = IF Len(s) > MaxEvents THEN Len(s) - MaxEvents ELSE 0
        /\ Ring(s) \in Seq(Events) /\ Len(Ring(s)) = Len(s) - o
        /\ \A i \in 1..(Len(s) - o) : i + o \in 1..Len(s) /\ Ring(s)[i] = s[i + o]
  BY RingIs
<1>2. MaxEvents \in Nat /\ Len(s) \in Nat /\ DOMAIN s = 1..Len(s) BY BoundsAssumption
<1>3. DOMAIN Ring(s) = 1..(Len(s) - o) BY <1>1
<1>4. PICK k \in 1..Len(s) : s[k] = x BY <1>2 DEF Occurs
<1>7. k \in Nat /\ k >= 1 /\ k <= Len(s) BY <1>2
<1>8. o \in Nat /\ o = IF Len(s) > MaxEvents THEN Len(s) - MaxEvents ELSE 0 BY <1>1
<1>9. Len(s) \in Nat /\ MaxEvents \in Nat BY <1>2
<1>5. CASE k > o
  <2>1. k - o \in 1..(Len(s) - o) /\ (k - o) + o = k
    <3> DEFINE L == Len(s)
    <3>1. L \in Nat /\ k \in Nat /\ o \in Nat /\ k <= L /\ k > o
      BY <1>5, <1>7, <1>8, <1>9
    <3> HIDE DEF L
    <3>2. k - o \in 1..(L - o) /\ (k - o) + o = k BY <3>1
    <3> QED BY <3>2 DEF L
  <2>2. Ring(s)[k - o] = x BY <1>1, <1>4, <2>1
  <2> QED BY <1>3, <2>1, <2>2 DEF Occurs
<1>6. CASE k <= o
  <2> DEFINE J == (k + 1)..Len(s)
  <2>1. J \in SUBSET DOMAIN s /\ \A j \in J : j \in Nat /\ k < j BY <1>2
  <2>2. Cardinality(J) = Len(s) - k
    <3>1. k + 1 \in Int /\ Len(s) \in Int /\ k + 1 <= Len(s) + 1 BY <1>2
    <3>2. Cardinality(J) = IF k + 1 > Len(s) THEN 0 ELSE Len(s) - (k + 1) + 1
      BY <3>1, FS_Interval
    <3> QED BY <1>2, <3>1, <3>2
  <2> HIDE DEF J
  <2>3. \A j \in J : s[j] \in Later(x, f)
    <3> SUFFICES ASSUME NEW j \in J PROVE s[j] \in Later(x, f) OBVIOUS
    <3>1. Before(x, s[j]) BY <1>2, <1>4, <2>1 DEF Ordered
    <3>2. Occurs(s[j], s) BY <2>1 DEF Occurs
    <3> QED BY <3>1, <3>2, LaterIs
  <2>4. Cardinality(J) <= Cardinality(Later(x, f)) BY <2>1, <2>3, PlacesCount, LaterIs
  <2>5. Cardinality(Later(x, f)) < MaxEvents /\ Cardinality(Later(x, f)) \in Nat BY LaterIs
  <2>6. Len(s) - k >= MaxEvents
    <3> DEFINE L == Len(s)
    <3>1. /\ L \in Nat /\ MaxEvents \in Nat /\ k \in Nat /\ k >= 1 /\ k <= o
          /\ o = IF L > MaxEvents THEN L - MaxEvents ELSE 0
      BY <1>6, <1>7, <1>8, <1>9
    <3> HIDE DEF L
    <3>2. L - k >= MaxEvents BY <3>1
    <3> QED BY <3>2 DEF L
  <2> QED BY <1>2, <2>2, <2>4, <2>5, <2>6
<1> QED BY <1>2, <1>5, <1>6

\* An append grows the log.
LEMMA PutGrows ==
  ASSUME NEW l \in Logs, NEW kind \in Kinds, NEW m \in Logs, NEW e \in Events,
         e = NextEvent(l, kind), Full(m) = Append(Full(l), e), m.seq = l.seq + 1
  PROVE  Grown(l, m)
<1> DEFINE f == Full(l)
           g == Full(m)
<1>1. f \in Seq(Events) /\ g \in Seq(Events) BY FullIs
<1>2. l.seq \in Nat BY DEF Logs
<1>3. e.seq = l.seq + 1 BY DEF NextEvent
<1>4. g = Append(f, e) OBVIOUS
<1> HIDE DEF f, g
<1>5. /\ Len(f) \in Nat /\ Len(g) = Len(f) + 1 /\ g[Len(f) + 1] = e
      /\ \A i \in 1..Len(f) : g[i] = f[i]
  BY <1>1, <1>4
<1>6. \A i \in (Len(f) + 1)..Len(g) : i = Len(f) + 1 BY <1>5
<1>7. Len(f) + 1 \in (Len(f) + 1)..Len(g) BY <1>5
<1>8. \A i \in (Len(f) + 1)..Len(g) : l.seq < g[i].seq /\ g[i].seq <= m.seq
  BY <1>2, <1>3, <1>5, <1>6
<1>9. \A i, j \in (Len(f) + 1)..Len(g) : ~(i < j) BY <1>5
<1>10. ASSUME Ahead(l) PROVE Ahead(m)
  <2>1. UpTo(f, l.seq) BY <1>10 DEF Ahead, f
  <2>2. UpTo(Append(f, e), e.seq) BY <1>1, <1>2, <1>3, <2>1, AppendOrdered
  <2> QED BY <1>2, <1>3, <1>4, <2>2 DEF Ahead, g
<1>11. ASSUME NEW x, Owed(x, m) PROVE Owed(x, l) \/ g[Len(f) + 1] = x
  <2>1. Occurs(x, g) /\ Recent(x, g) BY <1>11 DEF Owed, g
  <2>2. Occurs(x, f) \/ x = e
    <3>1. DOMAIN g = 1..(Len(f) + 1) /\ DOMAIN f = 1..Len(f) BY <1>1, <1>5
    <3>2. PICK i \in 1..(Len(f) + 1) : g[i] = x BY <2>1, <3>1 DEF Occurs
    <3>3. i \in 1..Len(f) \/ i = Len(f) + 1 BY <1>5
    <3> QED BY <1>5, <3>1, <3>2, <3>3 DEF Occurs
  <2>3. Recent(x, f) BY <1>1, <1>4, <2>1, RecentBefore
  <2> QED BY <1>5, <2>2, <2>3 DEF Owed, f
<1>12. l.seq <= m.seq /\ Len(f) <= Len(g) BY <1>2, <1>5
<1>13. Grown(l, m) BY <1>5, <1>7, <1>8, <1>9, <1>10, <1>11, <1>12 DEF Grown, f, g
<1> QED BY <1>13


\* The next event is numbered after all others.
LEMMA NextNumbered ==
  ASSUME NEW l \in Logs, NEW kind \in Kinds, NEW m \in Logs, NEW e \in Events,
         e = NextEvent(l, kind), Full(m) = Append(Full(l), e),
         m.seq = l.seq + 1, m.made = l.made + 1,
         m.buffer = <<>> \/ (kind \in Buffered /\ m.buffer = Append(l.buffer, e)),
         Numbered(l), BufferedOnly(l.buffer), UpTo(l.buffer, l.seq)
  PROVE  Numbered(m) /\ BufferedOnly(m.buffer) /\ UpTo(m.buffer, m.seq)
<1> DEFINE f == Full(l)
           g == Full(m)
<1>1. f \in Seq(Events) /\ g \in Seq(Events) /\ l.buffer \in Seq(Events) BY FullIs
<1>2. l.seq \in Nat /\ l.made \in Nat BY DEF Logs
<1>3. e.n = l.made + 1 /\ e.seq = l.seq + 1 /\ e.kind = kind BY DEF NextEvent
<1>4. g = Append(f, e) OBVIOUS
<1>5. /\ \A i, j \in DOMAIN f : i < j => f[i].n < f[j].n
      /\ \A i \in DOMAIN f : f[i].n <= l.made
  BY DEF Numbered
<1>6. Numbered(m) <=> /\ \A i, j \in DOMAIN g : i < j => g[i].n < g[j].n
                      /\ \A i \in DOMAIN g : g[i].n <= m.made
  BY DEF Numbered
<1> HIDE DEF f, g
<1>7. /\ Len(f) \in Nat /\ DOMAIN f = 1..Len(f) /\ DOMAIN g = 1..(Len(f) + 1)
      /\ g[Len(f) + 1] = e /\ \A i \in 1..Len(f) : g[i] = f[i]
  BY <1>1, <1>4
<1>8. \A i \in 1..Len(f) : g[i].n \in Nat /\ g[i].n <= l.made BY <1>1, <1>5, <1>7, SeqsAre
<1>9. \A i \in 1..(Len(f) + 1) : i \in 1..Len(f) \/ i = Len(f) + 1 BY <1>7
<1>10. \A i \in 1..(Len(f) + 1) : g[i].n <= m.made BY <1>2, <1>3, <1>7, <1>8, <1>9
<1>11. ASSUME NEW i \in 1..(Len(f) + 1), NEW j \in 1..(Len(f) + 1), i < j
       PROVE  g[i].n < g[j].n
  <2>1. i \in 1..Len(f) BY <1>7, <1>11
  <2>2. CASE j \in 1..Len(f) BY <1>5, <1>7, <1>11, <2>1, <2>2
  <2>3. CASE j = Len(f) + 1 BY <1>2, <1>3, <1>7, <1>8, <2>1, <2>3
  <2> QED BY <1>9, <2>2, <2>3
<1>12. Numbered(m) BY <1>6, <1>7, <1>10, <1>11
<1>13. CASE m.buffer = <<>> BY <1>12, <1>13 DEF BufferedOnly, UpTo
<1>14. CASE kind \in Buffered /\ m.buffer = Append(l.buffer, e)
  <2> DEFINE b == l.buffer
             c == m.buffer
  <2>1. /\ BufferedOnly(b) /\ UpTo(b, l.seq) /\ b \in Seq(Events) /\ c = Append(b, e)
        /\ e.kind \in Buffered
    BY <1>1, <1>3, <1>14
  <2>2. UpTo(c, m.seq)
    <3>1. UpTo(Append(b, e), e.seq) BY <1>2, <1>3, <2>1, AppendOrdered
    <3> QED BY <1>2, <1>3, <2>1, <3>1
  <2> HIDE DEF b, c
  <2>3. /\ DOMAIN b = 1..Len(b) /\ DOMAIN c = 1..(Len(b) + 1)
        /\ Len(b) \in Nat /\ c[Len(b) + 1] = e /\ \A i \in 1..Len(b) : c[i] = b[i]
    BY <2>1
  <2>4. \A i \in 1..(Len(b) + 1) : i \in 1..Len(b) \/ i = Len(b) + 1 BY <2>3
  <2>5. BufferedOnly(c) BY <2>1, <2>3, <2>4 DEF BufferedOnly
  <2> QED BY <1>12, <2>2, <2>5 DEF c
<1> QED BY <1>13, <1>14

\* What a sound log is.
LEMMA SoundIs ==
  ASSUME NEW l, Sound(l)
  PROVE  /\ l \in Logs /\ Len(l.events) <= MaxEvents
         /\ Numbered(l) /\ BufferedOnly(l.buffer) /\ UpTo(l.buffer, l.seq)
         /\ l.loaded => InMemory(l)
BY DEF Sound

\* An append keeps a log sound.
LEMMA PutSound ==
  ASSUME NEW l, Sound(l), NEW kind \in Kinds, NEW m, m = Put(l, kind)
  PROVE  Sound(m) /\ Grown(l, m) /\ Full(m) = Append(Full(l), NextEvent(l, kind))
<1> DEFINE e == NextEvent(l, kind)
<1>1. /\ l \in Logs /\ Numbered(l) /\ BufferedOnly(l.buffer) /\ UpTo(l.buffer, l.seq)
      /\ l.loaded => InMemory(l)
  BY SoundIs
<1>2. /\ m \in Logs /\ e \in Events
      /\ m.events = Ring(Append(l.events, e)) /\ Len(m.events) <= MaxEvents
      /\ m.seq = l.seq + 1
      /\ m.loaded = l.loaded /\ m.made = l.made + 1 /\ m.stale = l.stale
      /\ Full(m) = Append(Full(l), e)
      /\ m.buffer = <<>> \/ (kind \in Buffered /\ m.buffer = Append(l.buffer, e))
  BY <1>1, PutIs
<1>3. e.seq = l.seq + 1 /\ l.seq \in Nat BY <1>1 DEF NextEvent, Logs
<1> HIDE DEF e
<1>4. e = NextEvent(l, kind) BY DEF e
<1>5. Numbered(m) /\ BufferedOnly(m.buffer) /\ UpTo(m.buffer, m.seq)
  BY <1>1, <1>2, <1>4, NextNumbered
<1>6. Grown(l, m)
  BY <1>1, <1>2, <1>4, PutGrows
<1>7. ASSUME m.loaded PROVE InMemory(m)
  <2>1. InMemory(l) BY <1>1, <1>2, <1>7
  <2>2. /\ Ahead(l) /\ UpTo(l.events, l.seq) /\ Ordered(l.events)
        /\ l.stale \/ Covers(l.events, l)
    BY <2>1 DEF InMemory
  <2>3. Ahead(m) BY <1>6, <2>2 DEF Grown
  <2>4. l.events \in Seq(Events) /\ Full(l) \in Seq(Events) BY <1>1, FullIs
  <2>5. /\ UpTo(Append(l.events, e), e.seq) /\ Ordered(Append(l.events, e))
        /\ Append(l.events, e) \in Seq(Events)
    <3>1. l.seq < e.seq BY <1>3
    <3>2. Append(l.events, e) \in Seq(Events) BY <1>2, <2>4
    <3> QED BY <1>2, <1>3, <2>2, <2>4, <3>1, <3>2, AppendOrdered
  <2>6. UpTo(m.events, m.seq) /\ Ordered(m.events)
    <3>1. UpTo(Ring(Append(l.events, e)), e.seq) /\ Ordered(Ring(Append(l.events, e)))
      BY <2>5, RingKeeps
    <3> QED BY <1>2, <1>3, <3>1
  <2>7. m.stale \/ Covers(m.events, m)
    <3> SUFFICES ASSUME Covers(l.events, l) PROVE Covers(m.events, m) BY <1>2, <2>2
    <3> DEFINE s == l.events
               f == Full(l)
               t == Append(s, e)
               g == Full(m)
    <3>1. /\ s \in Seq(Events) /\ f \in Seq(Events) /\ t \in Seq(Events) /\ g \in Seq(Events)
          /\ g = Append(f, e) /\ m.events = Ring(t) /\ Ordered(t)
      BY <1>2, <2>4, <2>5, FullIs
    <3>2. /\ \A x : Occurs(x, s) => Occurs(x, f)
          /\ \A x : Occurs(x, f) /\ Recent(x, f) => Occurs(x, s)
      BY DEF Covers, Owed
    <3>3. Covers(m.events, m) <=>
            /\ \A x : Occurs(x, m.events) => Occurs(x, g)
            /\ \A x : Occurs(x, g) /\ Recent(x, g) => Occurs(x, m.events)
      BY DEF Covers, Owed
    <3>4. /\ \A x : Occurs(x, t) <=> Occurs(x, s) \/ x = e
          /\ \A x : Occurs(x, g) <=> Occurs(x, f) \/ x = e
      BY <1>2, <3>1, OccursAppend
    <3> HIDE DEF s, f, t, g
    <3>5. \A x : Occurs(x, t) => Occurs(x, g) BY <3>2, <3>4
    <3>6. \A x : Occurs(x, m.events) => Occurs(x, g) BY <3>1, <3>5, RingKeeps
    <3>7. ASSUME NEW x, Occurs(x, g), Recent(x, g) PROVE Occurs(x, m.events)
      <4>1. Recent(x, f) BY <1>2, <3>1, <3>7, RecentBefore
      <4>2. Occurs(x, t) BY <3>2, <3>4, <3>7, <4>1
      <4> QED BY <3>1, <3>5, <3>7, <4>2, RingOwes
    <3> QED BY <3>3, <3>6, <3>7
  <2> QED BY <2>3, <2>6, <2>7 DEF InMemory
<1>8. Sound(m) BY <1>2, <1>5, <1>7 DEF Sound
<1> QED BY <1>2, <1>6, <1>8 DEF e

\* The markers of an interrupted run, written while nothing is loaded.
LEMMA StoredSound ==
  ASSUME NEW l, Sound(l), ~l.loaded, NEW kind \in Kinds, NEW m, m = Stored(l, kind)
  PROVE  Sound(m) /\ ~m.loaded /\ Full(m) = Append(Full(l), NextEvent(l, kind))
<1> DEFINE e == NextEvent(l, kind)
<1>1. /\ l \in Logs /\ Len(l.events) <= MaxEvents
      /\ Numbered(l) /\ BufferedOnly(l.buffer) /\ UpTo(l.buffer, l.seq)
  BY SoundIs
<1>2. /\ m \in Logs /\ e \in Events
      /\ m.events = l.events /\ m.seq = l.seq + 1
      /\ m.loaded = l.loaded /\ m.made = l.made + 1
      /\ Full(m) = Append(Full(l), e)
      /\ m.buffer = <<>> \/ (kind \in Buffered /\ m.buffer = Append(l.buffer, e))
  BY <1>1, StoredIs
<1> HIDE DEF e
<1>3. e = NextEvent(l, kind) BY DEF e
<1>4. Numbered(m) /\ BufferedOnly(m.buffer) /\ UpTo(m.buffer, m.seq)
  BY <1>1, <1>2, <1>3, NextNumbered
<1>5. Sound(m) BY <1>1, <1>2, <1>4 DEF Sound
<1> QED BY <1>2, <1>5 DEF e

\* So does a flush,
LEMMA FlushSound ==
  ASSUME NEW l, Sound(l), NEW m, m = Flush(l)
  PROVE  Sound(m) /\ Grown(l, m) /\ Full(m) = Full(l) /\ m.buffer = <<>> /\ m.disk = Full(l)
<1>1. l \in Logs BY SoundIs
<1>2. /\ m \in Logs /\ m.events = l.events /\ m.seq = l.seq
      /\ m.loaded = l.loaded /\ m.made = l.made /\ m.stale = l.stale
      /\ m.buffer = <<>> /\ m.disk = Full(l) /\ Full(m) = Full(l)
  BY <1>1, FlushIs
<1>3. BufferedOnly(m.buffer) /\ UpTo(m.buffer, m.seq) BY <1>2 DEF BufferedOnly, UpTo
<1>4. Numbered(m) BY <1>2 DEF Sound, Numbered
<1>5. m.loaded => InMemory(m) BY <1>2 DEF Sound, InMemory, Ahead, Covers, Owed
<1>6. Sound(m) BY <1>2, <1>3, <1>4, <1>5 DEF Sound
<1>7. l.seq <= m.seq BY <1>1, <1>2 DEF Logs
<1> QED BY <1>1, <1>2, <1>6, <1>7, SameIsGrown

\* an eviction,
LEMMA UnloadedSound ==
  ASSUME NEW l, Sound(l), NEW m, m = Unloaded(l)
  PROVE  /\ Sound(m) /\ Grown(l, m) /\ ~m.loaded
         /\ Full(m) = Full(l) /\ m.seq = l.seq
<1>1. l \in Logs BY SoundIs
<1>2. /\ m \in Logs /\ m.events = <<>> /\ m.loaded = FALSE
      /\ m.seq = l.seq /\ m.made = l.made
      /\ m.buffer = l.buffer /\ Full(m) = Full(l)
  BY <1>1, UnloadedIs
<1>3. Numbered(m) BY <1>2 DEF Sound, Numbered
<1>4. BufferedOnly(m.buffer) /\ UpTo(m.buffer, m.seq) BY <1>2 DEF Sound
<1>5. Len(m.events) <= MaxEvents
  <2>1. Len(<<>>) = 0 OBVIOUS
  <2> QED BY <1>2, <2>1, BoundsAssumption
<1>6. Sound(m) BY <1>2, <1>3, <1>4, <1>5 DEF Sound
<1>7. l.seq <= m.seq BY <1>1, <1>2 DEF Logs
<1>8. Grown(l, m) BY <1>1, <1>2, <1>7, SameIsGrown
<1> QED BY <1>2, <1>6, <1>8

\* the end of a load,
LEMMA AdoptSound ==
  ASSUME NEW l, Sound(l), NEW evs \in Seq(Events), Parsed(l, evs), NEW m, m = Adopt(l, evs)
  PROVE  /\ Sound(m) /\ Grown(l, m) /\ m.loaded /\ m.stale = (evs # Full(l))
         /\ Full(m) = Full(l)
<1>1. l \in Logs /\ Numbered(l) /\ Full(l) \in Seq(Events) BY SoundIs, FullIs
<1>2. /\ m \in Logs
      /\ m.events = Ring(BySeq[evs]) /\ Len(m.events) <= MaxEvents
      /\ l.seq <= m.seq /\ UpTo(evs, m.seq)
      /\ m.loaded = TRUE /\ m.made = l.made
      /\ m.stale = (evs # Full(l))
      /\ m.buffer = l.buffer /\ Full(m) = Full(l)
  <2>1. l \in Logs BY <1>1
  <2>2. m \in Logs /\ m.events = Ring(BySeq[evs]) /\ Len(m.events) <= MaxEvents
    BY <2>1, AdoptIs
  <2>3. l.seq <= m.seq /\ UpTo(evs, m.seq) /\ m.loaded = TRUE /\ m.made = l.made
    BY <2>1, AdoptIs
  <2>4. m.stale = (evs # Full(l)) /\ m.buffer = l.buffer /\ Full(m) = Full(l)
    BY <2>1, AdoptIs
  <2> QED BY <2>2, <2>3, <2>4
<1>3. Grown(l, m) BY <1>1, <1>2, SameIsGrown
<1>4. Numbered(m) BY <1>1, <1>2 DEF Numbered
<1>5. BufferedOnly(m.buffer) BY <1>2 DEF Sound
<1>6. UpTo(m.buffer, m.seq)
  <2>1. UpTo(l.buffer, l.seq) BY SoundIs
  <2>2. l.buffer \in Seq(Events) BY <1>1, FullIs
  <2>3. \A i \in DOMAIN l.buffer : l.buffer[i].seq \in Nat BY <2>2, SeqsAre
  <2>4. l.seq \in Nat /\ m.seq \in Nat BY <1>1, <1>2 DEF Logs
  <2> QED BY <1>2, <2>1, <2>3, <2>4 DEF UpTo
<1>7. InMemory(m)
  <2> DEFINE f == Full(l)
             b == BySeq[evs]
  <2>1. /\ f \in Seq(Events) /\ Len(evs) <= Len(f)
        /\ \A i \in 1..Len(evs) : evs[i] = f[i]
        /\ \A i \in DOMAIN f : i > Len(evs) => f[i].seq <= l.seq
        /\ \A i, j \in DOMAIN f : i < j => f[i].n < f[j].n
    BY <1>1 DEF Parsed, Numbered
  <2>2. l.seq \in Nat /\ m.seq \in Nat BY <1>1, <1>2 DEF Logs
  <2>3. Ahead(m) <=> UpTo(f, m.seq) BY <1>2 DEF Ahead
  <2>4. /\ b \in Seq(Events) /\ Len(b) = Len(evs)
        /\ \A i \in 1..Len(evs) : \E k \in 1..Len(evs) : b[i] = evs[k]
    BY SortType
  <2> HIDE DEF f, b
  <2>5. DOMAIN f = 1..Len(f) /\ DOMAIN evs = 1..Len(evs) /\ DOMAIN b = 1..Len(evs)
        /\ Len(f) \in Nat /\ Len(evs) \in Nat
    BY <2>1, <2>4
  <2>6. \A i \in 1..Len(f) : f[i].seq \in Nat BY <2>1, SeqsAre
  <2>7. UpTo(f, m.seq)
    <3> SUFFICES ASSUME NEW i \in 1..Len(f) PROVE f[i].seq <= m.seq BY <2>5 DEF UpTo
    <3>1. CASE i <= Len(evs)
      <4>1. i \in 1..Len(evs) BY <2>5, <3>1
      <4> QED BY <1>2, <2>1, <2>5, <4>1 DEF UpTo
    <3>2. CASE i > Len(evs) BY <1>2, <2>1, <2>2, <2>5, <2>6, <3>2
    <3> QED BY <2>5, <3>1, <3>2
  <2>8. UpTo(b, m.seq)
    <3> SUFFICES ASSUME NEW i \in 1..Len(evs) PROVE b[i].seq <= m.seq BY <2>5 DEF UpTo
    <3>1. PICK k \in 1..Len(evs) : b[i] = evs[k] BY <2>4
    <3> QED BY <1>2, <2>5, <3>1 DEF UpTo
  <2>9. \A i, j \in 1..Len(evs) : i < j => evs[i].n < evs[j].n
    <3>1. \A i \in 1..Len(evs) : i \in DOMAIN f BY <2>1, <2>5
    <3> QED BY <2>1, <3>1
  <2>10. Ordered(b) BY <2>9, SortOrdered DEF b
  <2>11. UpTo(m.events, m.seq) /\ Ordered(m.events)
    <3>1. m.events = Ring(b) BY <1>2 DEF b
    <3> QED BY <2>4, <2>8, <2>10, <3>1, RingKeeps
  <2>12. m.stale \/ Covers(m.events, m)
    <3> SUFFICES ASSUME evs = Full(l) PROVE Covers(m.events, m) BY <1>2
    <3>1. evs = Full(m) /\ m.events = Ring(b) BY <1>2 DEF b
    <3>2. /\ \A i \in 1..Len(evs) : \E k \in 1..Len(evs) : b[i] = evs[k]
          /\ \A k \in 1..Len(evs) : \E i \in 1..Len(evs) : b[i] = evs[k]
      BY SortType DEF b
    <3>3. \A x : Occurs(x, b) <=> Occurs(x, evs)
      <4>1. ASSUME NEW x, Occurs(x, b) PROVE Occurs(x, evs)
        <5>1. PICK i \in 1..Len(evs) : b[i] = x BY <2>5, <4>1 DEF Occurs
        <5>2. PICK k \in 1..Len(evs) : b[i] = evs[k] BY <3>2
        <5> QED BY <2>5, <5>1, <5>2 DEF Occurs
      <4>2. ASSUME NEW x, Occurs(x, evs) PROVE Occurs(x, b)
        <5>1. PICK k \in 1..Len(evs) : evs[k] = x BY <2>5, <4>2 DEF Occurs
        <5>2. PICK i \in 1..Len(evs) : b[i] = evs[k] BY <3>2
        <5> QED BY <2>5, <5>1, <5>2 DEF Occurs
      <4> QED BY <4>1, <4>2
    <3>4. \A x : Occurs(x, m.events) => Occurs(x, evs) BY <2>4, <3>1, <3>3, RingKeeps
    <3>5. ASSUME NEW x, Occurs(x, evs), Recent(x, evs) PROVE Occurs(x, m.events)
      BY <2>4, <2>10, <3>1, <3>3, <3>5, RingOwes
    <3> QED BY <3>1, <3>4, <3>5 DEF Covers, Owed
  <2> QED BY <2>3, <2>7, <2>11, <2>12 DEF InMemory
<1>8. Sound(m) BY <1>2, <1>4, <1>5, <1>6, <1>7 DEF Sound
<1> QED BY <1>2, <1>3, <1>8


\* a trim of hook results, which takes none that a replay promises,
LEMMA TrimSound ==
  ASSUME NEW l, Sound(l), NEW m, m = Trimmed(l)
  PROVE  Sound(m) /\ Grown(l, m) /\ Full(m) = Full(l)
<1> DEFINE s == l.events
           H == {i \in DOMAIN s : s[i].kind = "hook"}
           I == {i \in DOMAIN s : i \in H => Cardinality({j \in H : j > i}) < MaxHooks}
           t == Select[s][I]
<1>1. /\ l \in Logs /\ Len(s) <= MaxEvents
      /\ Numbered(l) /\ BufferedOnly(l.buffer) /\ UpTo(l.buffer, l.seq)
      /\ l.loaded => InMemory(l)
  BY SoundIs
<1>2. s \in Seq(Events) /\ l.seq \in Nat /\ Full(l) \in Seq(Events)
  <2>1. s \in Seq(Events) /\ l.seq \in Nat BY <1>1 DEF Logs
  <2> QED BY <1>1, <2>1, FullIs
<1>3. m = [l EXCEPT !.events = t] BY DEF Trimmed
<1>4. I \in SUBSET DOMAIN s OBVIOUS
<1>5. \A i \in DOMAIN s : (s[i].kind = "hook" => Cardinality({j \in H : j > i}) < MaxHooks) => i \in I
  OBVIOUS
<1>6. \A j \in H : j \in DOMAIN s /\ s[j].kind = "hook" OBVIOUS
<1> HIDE DEF s, H, I, t
<1>7. PICK p \in [1..Cardinality(I) -> I] :
        /\ \A i, j \in 1..Cardinality(I) : i < j <=> p[i] < p[j]
        /\ \A k \in I : \E i \in 1..Cardinality(I) : p[i] = k
        /\ t = [i \in 1..Cardinality(I) |-> s[p[i]]]
  BY <1>2, <1>4, SelectIs DEF t
<1>8. DOMAIN t = 1..Cardinality(I) /\ \A i \in DOMAIN t : p[i] \in DOMAIN s /\ t[i] = s[p[i]]
  BY <1>4, <1>7
<1>9. t \in Seq(Events) /\ Len(t) <= MaxEvents
  <2>1. t \in Seq(Events) /\ Len(t) = Cardinality(I) BY <1>2, <1>4, SelectType DEF t
  <2>2. IsFiniteSet(DOMAIN s) /\ Cardinality(DOMAIN s) = Len(s) BY <1>2, SortOrders
  <2>3. Cardinality(I) <= Len(s) BY <1>4, <2>2, FS_Subset
  <2>4. Len(s) \in Nat /\ Len(t) \in Nat /\ MaxEvents \in Nat BY <1>2, <2>1, BoundsAssumption
  <2> QED BY <1>1, <2>1, <2>3, <2>4
<1>10. /\ m.events = t /\ m.seq = l.seq /\ m.loaded = l.loaded /\ m.made = l.made
       /\ m.stale = l.stale /\ m.disk = l.disk /\ m.buffer = l.buffer
  BY <1>1, <1>3 DEF Logs
<1>11. m \in Logs BY <1>1, <1>3, <1>9 DEF Logs
<1>12. Full(m) = Full(l) BY <1>10 DEF Full
<1>13. Grown(l, m) BY <1>1, <1>2, <1>10, <1>11, <1>12, SameIsGrown
<1>14. \A x : Occurs(x, t) => Occurs(x, s) BY <1>8 DEF Occurs
<1>15. ASSUME m.loaded PROVE InMemory(m)
  <2>1. /\ Ahead(l) /\ UpTo(s, l.seq) /\ Ordered(s) /\ (l.stale \/ Covers(s, l))
    BY <1>1, <1>10, <1>15 DEF InMemory, s
  <2>2. Ahead(m) BY <1>10, <1>12, <2>1 DEF Ahead
  <2>3. UpTo(t, l.seq) BY <1>8, <2>1 DEF UpTo
  <2>4. Ordered(t) BY <1>7, <1>8, <2>1 DEF Ordered
  <2>5. ASSUME Covers(s, l), NEW x, Owed(x, l) PROVE Occurs(x, t)
    <3>1. Recent(x, Full(l)) BY <2>5 DEF Owed
    <3>2. PICK k \in DOMAIN s : s[k] = x BY <2>5 DEF Covers, Occurs
    <3>3. ASSUME x.kind = "hook" PROVE Cardinality({j \in H : j > k}) < MaxHooks
      <4> DEFINE J == {j \in H : j > k}
      <4>1. J \in SUBSET DOMAIN s /\ \A j \in J : k < j /\ s[j].kind = "hook"
        <5>1. DOMAIN s \subseteq Nat BY <1>2
        <5> QED BY <1>6, <5>1
      <4> HIDE DEF J
      <4>2. \A j \in J : s[j] \in LaterHooks(x, Full(l))
        <5> SUFFICES ASSUME NEW j \in J PROVE s[j] \in LaterHooks(x, Full(l)) OBVIOUS
        <5>1. Before(x, s[j]) BY <2>1, <3>2, <4>1 DEF Ordered
        <5>2. Occurs(s[j], s) BY <4>1 DEF Occurs
        <5>3. Occurs(s[j], Full(l)) BY <2>5, <5>2 DEF Covers
        <5>4. s[j] \in Later(x, Full(l)) BY <1>2, <5>1, <5>3, LaterIs
        <5> QED BY <4>1, <5>4 DEF LaterHooks
      <4>3. /\ Cardinality(J) <= Cardinality(LaterHooks(x, Full(l)))
            /\ Cardinality(J) \in Nat
        BY <1>2, <2>1, <4>1, <4>2, PlacesCount, LaterIs
      <4>4. /\ Cardinality(LaterHooks(x, Full(l))) < MaxHooks
            /\ Cardinality(LaterHooks(x, Full(l))) \in Nat
        BY <1>2, <3>1, <3>3, LaterIs
      <4>5. MaxHooks \in Nat BY BoundsAssumption
      <4>6. Cardinality(J) < MaxHooks BY <4>3, <4>4, <4>5
      <4> QED BY <4>6 DEF J
    <3>4. k \in I BY <1>5, <3>2, <3>3
    <3>5. PICK i \in 1..Cardinality(I) : p[i] = k BY <1>7, <3>4
    <3> QED BY <1>8, <3>2, <3>5 DEF Occurs
  <2>6. m.stale \/ Covers(t, m)
    <3> SUFFICES ASSUME Covers(s, l) PROVE Covers(t, m) BY <1>10, <2>1
    <3>1. \A x : Owed(x, m) <=> Owed(x, l) BY <1>12 DEF Owed
    <3>2. \A x : Occurs(x, t) => Occurs(x, Full(m)) BY <1>12, <1>14 DEF Covers
    <3> QED BY <2>5, <3>1, <3>2 DEF Covers
  <2> QED BY <1>10, <2>2, <2>3, <2>4, <2>6 DEF InMemory
<1>16. Sound(m)
  <2>1. Numbered(m) BY <1>1, <1>10, <1>12 DEF Numbered
  <2> QED BY <1>1, <1>9, <1>10, <1>11, <1>15, <2>1 DEF Sound
<1> QED BY <1>12, <1>13, <1>16

\* touchLoaded,
LEMMA TouchedSound ==
  ASSUME NEW l, Sound(l), NEW crowded \in BOOLEAN, NEW m, m = Touched(l, crowded)
  PROVE  /\ Sound(m) /\ Grown(l, m) /\ Full(m) = Full(l) /\ m.seq = l.seq
         /\ l.loaded => m.loaded \/ m.events = <<>>
<1>1. l \in Logs /\ l.seq \in Nat BY SoundIs DEF Logs
<1>2. CASE m = l BY <1>1, <1>2, SameIsGrown
<1>3. CASE m = Unloaded(l) BY <1>1, <1>3, UnloadedSound, UnloadedIs
<1> QED BY <1>2, <1>3 DEF Touched

\* and ensureEvents.
LEMMA EnsuredSound ==
  ASSUME NEW l, Sound(l), NEW crowded \in BOOLEAN, NEW m, m = Ensured(l, crowded)
  PROVE  /\ Sound(m) /\ Grown(l, m) /\ Full(m) = Full(l)
         /\ ~crowded => m.loaded
<1> DEFINE a == Flush(l)
           b == Adopt(a, Full(l))
           c == IF l.loaded THEN l ELSE b
<1>0. l \in Logs BY SoundIs
<1>1. l \in Logs /\ l.seq \in Nat /\ Full(l) \in Seq(Events)
  <2>1. l.seq \in Nat BY <1>0 DEF Logs
  <2> QED BY <1>0, <2>1, FullIs
<1>2. Sound(a) /\ Grown(l, a) /\ Full(a) = Full(l) BY FlushSound
<1>3. a \in Logs BY <1>2, SoundIs
<1>4. Parsed(a, Full(l))
  <2>1. DOMAIN Full(l) = 1..Len(Full(l)) /\ Len(Full(l)) \in Nat BY <1>1
  <2> HIDE DEF a
  <2>2. Len(Full(l)) <= Len(Full(a)) /\ \A i \in 1..Len(Full(l)) : Full(l)[i] = Full(a)[i]
    BY <1>2, <2>1
  <2>3. \A i \in DOMAIN Full(a) : ~(i > Len(Full(l))) BY <1>2, <2>1
  <2> QED BY <2>2, <2>3 DEF Parsed
<1> HIDE DEF a
<1>5. Sound(b) /\ Grown(a, b) /\ b.loaded /\ Full(b) = Full(a)
  BY <1>1, <1>2, <1>4, AdoptSound
<1>6. b \in Logs BY <1>5, SoundIs
<1> HIDE DEF b
<1>7. Sound(c) /\ Grown(l, c) /\ Full(c) = Full(l) /\ c.loaded
  <2>1. CASE l.loaded
    <3>1. c = l BY <2>1
    <3>2. Grown(l, l) BY <1>1, SameIsGrown
    <3> QED BY <2>1, <3>1, <3>2
  <2>2. CASE ~l.loaded
    <3>1. c = b BY <2>2
    <3>2. Grown(l, b) BY <1>1, <1>2, <1>3, <1>5, <1>6, GrownTwice
    <3> QED BY <1>2, <1>5, <3>1, <3>2
  <2> QED BY <2>1, <2>2
<1>8. c \in Logs BY <1>7, SoundIs
<1>9. m = Touched(c, crowded) BY DEF Ensured, a, b
<1> HIDE DEF c
<1>10. Sound(m) /\ Grown(c, m) /\ Full(m) = Full(c) BY <1>7, <1>9, TouchedSound
<1>11. m \in Logs BY <1>10, SoundIs
<1>12. Grown(l, m) BY <1>1, <1>7, <1>8, <1>10, <1>11, GrownTwice
<1>13. ~crowded => m.loaded BY <1>7, <1>9 DEF Touched
<1> QED BY <1>7, <1>10, <1>12, <1>13

-----------------------------------------------------------------------------
(* What a viewer has been sent.                                            *)

\* What is in a join is in one of its parts.
LEMMA JoinIs ==
  ASSUME NEW s \in Seq(Events), NEW t \in Seq(Events)
  PROVE  /\ s \o t \in Seq(Events)
         /\ \A x : Occurs(x, s \o t) <=> Occurs(x, s) \/ Occurs(x, t)
         /\ \A b \in Nat : UpTo(s, b) /\ UpTo(t, b) => UpTo(s \o t, b)
         /\ \A b \in Nat : Above(s, b) /\ Above(t, b) => Above(s \o t, b)
         /\ \A b \in Nat : Climbs(s) /\ UpTo(s, b) /\ Climbs(t) /\ Above(t, b) => Climbs(s \o t)
         /\ \A b \in Nat : Ordered(s) /\ UpTo(s, b) /\ Climbs(t) /\ Above(t, b) => Ordered(s \o t)
<1> DEFINE u == s \o t
           n == Len(s)
           k == Len(t)
<1>1. /\ u \in Seq(Events) /\ n \in Nat /\ k \in Nat
      /\ DOMAIN s = 1..n /\ DOMAIN t = 1..k /\ DOMAIN u = 1..(n + k)
      /\ \A i \in 1..n : u[i] = s[i]
      /\ \A i \in 1..k : u[n + i] = t[i]
  OBVIOUS
<1>2. /\ \A i \in 1..n : s[i].seq \in Nat
      /\ \A i \in 1..k : t[i].seq \in Nat
  BY SeqsAre
<1> HIDE DEF u, n, k
<1>3. \A i \in 1..(n + k) :
        \/ i \in 1..n /\ u[i] = s[i]
        \/ i - n \in 1..k /\ i > n /\ i \in Nat /\ u[i] = t[i - n]
  <2> SUFFICES ASSUME NEW i \in 1..(n + k), i \notin 1..n
               PROVE  i - n \in 1..k /\ i > n /\ i \in Nat /\ u[i] = t[i - n]
    BY <1>1
  <2>1. i - n \in 1..k /\ i > n /\ i \in Nat /\ n + (i - n) = i BY <1>1
  <2>2. u[n + (i - n)] = t[i - n] BY <1>1, <2>1
  <2> QED BY <2>1, <2>2
<1>4. \A i \in 1..n : i \in 1..(n + k) BY <1>1
<1>5. \A i \in 1..k : n + i \in 1..(n + k) BY <1>1
<1>6. ASSUME NEW x PROVE Occurs(x, u) <=> Occurs(x, s) \/ Occurs(x, t)
  <2>1. Occurs(x, u) => Occurs(x, s) \/ Occurs(x, t) BY <1>1, <1>3 DEF Occurs
  <2>2. Occurs(x, s) => Occurs(x, u) BY <1>1, <1>4 DEF Occurs
  <2>3. Occurs(x, t) => Occurs(x, u) BY <1>1, <1>5 DEF Occurs
  <2> QED BY <2>1, <2>2, <2>3
<1>7. ASSUME NEW b \in Nat, UpTo(s, b), UpTo(t, b) PROVE UpTo(u, b)
  BY <1>1, <1>3, <1>7 DEF UpTo
<1>8. ASSUME NEW b \in Nat, Above(s, b), Above(t, b) PROVE Above(u, b)
  BY <1>1, <1>3, <1>8 DEF Above
<1>9. ASSUME NEW b \in Nat, UpTo(s, b), Climbs(t), Above(t, b),
             NEW i \in 1..(n + k), NEW j \in 1..(n + k), i < j
      PROVE  \/ i \in 1..n /\ j \in 1..n /\ u[i] = s[i] /\ u[j] = s[j]
             \/ u[i].seq < u[j].seq
  <2>1. CASE i \in 1..n /\ j - n \in 1..k /\ u[i] = s[i] /\ u[j] = t[j - n]
    <3>1. s[i].seq <= b /\ t[j - n].seq > b BY <1>1, <1>9, <2>1 DEF UpTo, Above
    <3> QED BY <1>2, <2>1, <3>1
  <2>2. CASE i - n \in 1..k /\ j - n \in 1..k /\ u[i] = t[i - n] /\ u[j] = t[j - n]
    <3>1. i - n < j - n BY <1>1, <1>9
    <3>2. t[i - n].seq < t[j - n].seq BY <1>1, <1>9, <2>2, <3>1 DEF Climbs
    <3> QED BY <2>2, <3>2
  <2>3. CASE i > n /\ j \in 1..n BY <1>1, <1>9, <2>3
  <2> QED BY <1>3, <2>1, <2>2, <2>3
<1>10. ASSUME NEW b \in Nat, Climbs(s), UpTo(s, b), Climbs(t), Above(t, b) PROVE Climbs(u)
  <2> SUFFICES ASSUME NEW i \in 1..(n + k), NEW j \in 1..(n + k), i < j
               PROVE  u[i].seq < u[j].seq
    BY <1>1 DEF Climbs
  <2>1. CASE i \in 1..n /\ j \in 1..n /\ u[i] = s[i] /\ u[j] = s[j]
    <3>1. s[i].seq < s[j].seq BY <1>1, <1>10, <2>1 DEF Climbs
    <3> QED BY <2>1, <3>1
  <2> QED BY <1>9, <1>10, <2>1
<1>11. ASSUME NEW b \in Nat, Ordered(s), UpTo(s, b), Climbs(t), Above(t, b) PROVE Ordered(u)
  <2> SUFFICES ASSUME NEW i \in 1..(n + k), NEW j \in 1..(n + k), i < j
               PROVE  Before(u[i], u[j])
    BY <1>1 DEF Ordered
  <2>1. CASE i \in 1..n /\ j \in 1..n /\ u[i] = s[i] /\ u[j] = s[j]
    <3>1. Before(s[i], s[j]) BY <1>1, <1>11, <2>1 DEF Ordered
    <3> QED BY <2>1, <3>1
  <2>2. CASE u[i].seq < u[j].seq BY <2>2 DEF Before
  <2> QED BY <1>9, <1>11, <2>1, <2>2
<1> QED BY <1>1, <1>6, <1>7, <1>8, <1>10, <1>11 DEF u

\* What the listeners are called with.
LEMMA NewIs ==
  ASSUME NEW l \in Logs, NEW m \in Logs, Grown(l, m),
         NEW new, new = SubSeq(Full(m), Len(Full(l)) + 1, Len(Full(m)))
  PROVE  /\ new \in Seq(Events) /\ Climbs(new)
         /\ UpTo(new, m.seq) /\ Above(new, l.seq)
         /\ \A i \in (Len(Full(l)) + 1)..Len(Full(m)) : Occurs(Full(m)[i], new)
<1> DEFINE f == Full(l)
           g == Full(m)
           n == Len(f)
<1>1. f \in Seq(Events) /\ g \in Seq(Events) BY FullIs
<1>2. /\ Len(f) <= Len(g)
      /\ \A i \in (Len(f) + 1)..Len(g) : l.seq < g[i].seq /\ g[i].seq <= m.seq
      /\ \A i, j \in (Len(f) + 1)..Len(g) : i < j => g[i].seq < g[j].seq
  BY DEF Grown
<1>3. new = SubSeq(g, n + 1, Len(g)) OBVIOUS
<1> HIDE DEF f, g
<1>4. n \in Nat /\ Len(g) \in Nat /\ n <= Len(g) BY <1>1, <1>2
<1>5. /\ SubSeq(g, n + 1, Len(g)) \in Seq(Events)
      /\ Len(SubSeq(g, n + 1, Len(g))) = Len(g) - n
      /\ \A i \in 1..(Len(g) - n) : SubSeq(g, n + 1, Len(g))[i] = g[n + i]
  <2> HIDE DEF n
  <2> QED BY <1>1, <1>4
<1>6. /\ new \in Seq(Events) /\ DOMAIN new = 1..(Len(g) - n)
      /\ \A i \in 1..(Len(g) - n) : new[i] = g[n + i]
  <2>1. new \in Seq(Events) /\ Len(new) = Len(g) - n BY <1>3, <1>5
  <2>2. DOMAIN new = 1..Len(new) BY <2>1
  <2> QED BY <1>3, <1>5, <2>1, <2>2
<1>7. \A i \in 1..(Len(g) - n) : i \in Nat /\ n + i \in (n + 1)..Len(g) BY <1>4
<1>8. UpTo(new, m.seq) BY <1>2, <1>6, <1>7 DEF UpTo
<1>9. l.seq \in Nat /\ \A i \in DOMAIN g : g[i].seq \in Nat
  <2>1. l.seq \in Nat BY DEF Logs
  <2>2. DOMAIN g = 1..Len(g) BY <1>1
  <2> QED BY <1>1, <2>1, <2>2, SeqsAre
<1>10. Above(new, l.seq)
  <2> SUFFICES ASSUME NEW i \in 1..(Len(g) - n) PROVE new[i].seq > l.seq BY <1>6 DEF Above
  <2>1. l.seq < g[n + i].seq BY <1>2, <1>7
  <2>2. n + i \in DOMAIN g BY <1>1, <1>4, <1>7
  <2> QED BY <1>6, <1>9, <2>1, <2>2
<1>11. Climbs(new)
  <2> SUFFICES ASSUME NEW i \in 1..(Len(g) - n), NEW j \in 1..(Len(g) - n), i < j
               PROVE  new[i].seq < new[j].seq
    BY <1>6 DEF Climbs
  <2>1. n + i < n + j BY <1>4
  <2>2. g[n + i].seq < g[n + j].seq BY <1>2, <1>7, <2>1
  <2> QED BY <1>6, <2>2
<1>12. ASSUME NEW i \in (n + 1)..Len(g) PROVE Occurs(g[i], new)
  <2>1. i - n \in 1..(Len(g) - n) /\ n + (i - n) = i BY <1>4
  <2>2. new[i - n] = g[i] BY <1>6, <2>1
  <2> QED BY <1>6, <2>1, <2>2 DEF Occurs
<1> QED BY <1>6, <1>8, <1>10, <1>11, <1>12 DEF f, g, n


\* Bounds on seqs may be loosened.
LEMMA BoundsMove ==
  ASSUME NEW s \in Seq(Events), NEW a \in Nat, NEW b \in Nat, a <= b
  PROVE  (UpTo(s, a) => UpTo(s, b)) /\ (Above(s, b) => Above(s, a))
<1>1. \A i \in DOMAIN s : s[i].seq \in Nat BY SeqsAre
<1> QED BY <1>1 DEF UpTo, Above

\* After gives the events above a seq, in order.
LEMMA AfterIs ==
  ASSUME NEW s \in Seq(Events), NEW b \in Nat
  PROVE  /\ After(s, b) \in Seq(Events)
         /\ \A x : Occurs(x, After(s, b)) <=> Occurs(x, s) /\ x.seq > b
         /\ Ordered(s) => Ordered(After(s, b))
         /\ ClimbsAbove(s, b) => Climbs(After(s, b))
         /\ \A c \in Nat : UpTo(s, c) => UpTo(After(s, b), c)
         /\ Above(After(s, b), b)
<1> DEFINE I == {i \in DOMAIN s : s[i].seq > b}
           t == After(s, b)
<1>1. t = Select[s][I] BY DEF After
<1>2. I \in SUBSET DOMAIN s OBVIOUS
<1>3. \A k \in I : k \in DOMAIN s /\ s[k].seq > b OBVIOUS
<1>4. \A k \in DOMAIN s : s[k].seq > b => k \in I OBVIOUS
<1> HIDE DEF I, t
<1>5. PICK p \in [1..Cardinality(I) -> I] :
        /\ \A i, j \in 1..Cardinality(I) : i < j <=> p[i] < p[j]
        /\ \A k \in I : \E i \in 1..Cardinality(I) : p[i] = k
        /\ Select[s][I] = [i \in 1..Cardinality(I) |-> s[p[i]]]
  BY <1>2, SelectIs
<1>6. t \in Seq(Events) BY <1>1, <1>2, SelectType
<1>7. DOMAIN t = 1..Cardinality(I) /\ \A i \in DOMAIN t : t[i] = s[p[i]] BY <1>1, <1>5
<1>8. \A i \in DOMAIN t : p[i] \in DOMAIN s /\ t[i] = s[p[i]] /\ t[i].seq > b
  BY <1>3, <1>5, <1>7
<1>9. \A i, j \in DOMAIN t : i < j => p[i] < p[j] BY <1>5, <1>7
<1>10. ASSUME NEW x PROVE Occurs(x, t) <=> Occurs(x, s) /\ x.seq > b
  <2>1. Occurs(x, t) => Occurs(x, s) /\ x.seq > b BY <1>8 DEF Occurs
  <2>2. Occurs(x, s) /\ x.seq > b => Occurs(x, t)
    <3> SUFFICES ASSUME NEW k \in DOMAIN s, s[k] = x, x.seq > b PROVE Occurs(x, t) BY DEF Occurs
    <3>1. k \in I BY <1>4
    <3>2. PICK i \in 1..Cardinality(I) : p[i] = k BY <1>5, <3>1
    <3> QED BY <1>7, <3>2 DEF Occurs
  <2> QED BY <2>1, <2>2
<1>11. Ordered(s) => Ordered(t) BY <1>8, <1>9 DEF Ordered
<1>12. ClimbsAbove(s, b) => Climbs(t) BY <1>8, <1>9 DEF ClimbsAbove, Climbs
<1>13. ASSUME NEW c \in Nat, UpTo(s, c) PROVE UpTo(t, c) BY <1>8, <1>13 DEF UpTo
<1>14. Above(t, b) BY <1>8 DEF Above
<1> QED BY <1>6, <1>10, <1>11, <1>12, <1>13, <1>14 DEF t

\* Above a seq that a log climbs from, an ordered part of it climbs too.
LEMMA PartClimbs ==
  ASSUME NEW f \in Seq(Events), NEW s \in Seq(Events), NEW b \in Nat,
         ClimbsAbove(f, b), Ordered(s), \A x : Occurs(x, s) => Occurs(x, f)
  PROVE  ClimbsAbove(s, b)
<1> SUFFICES ASSUME NEW i \in DOMAIN s, NEW j \in DOMAIN s, i < j, s[i].seq > b
             PROVE  s[i].seq < s[j].seq
  BY DEF ClimbsAbove
<1>1. Before(s[i], s[j]) BY DEF Ordered
<1>2. s[i] \in Events /\ s[j] \in Events OBVIOUS
<1>3. s[i].n \in Nat /\ s[j].n \in Nat /\ s[i].seq \in Nat /\ s[j].seq \in Nat
  BY <1>2 DEF Events
<1>4. Occurs(s[i], s) /\ Occurs(s[j], s) BY DEF Occurs
<1>5. PICK p \in DOMAIN f : f[p] = s[i] BY <1>4 DEF Occurs
<1>6. PICK q \in DOMAIN f : f[q] = s[j] BY <1>4 DEF Occurs
<1>7. p \in Nat /\ q \in Nat OBVIOUS
<1> SUFFICES ASSUME s[i].seq = s[j].seq, s[i].n < s[j].n PROVE FALSE BY <1>1, <1>3 DEF Before
<1>8. p # q BY <1>3, <1>5, <1>6
<1>9. CASE p < q
  <2>1. f[p].seq < f[q].seq BY <1>5, <1>9 DEF ClimbsAbove
  <2> QED BY <1>3, <1>5, <1>6, <2>1
<1>10. CASE q < p
  <2>1. f[q].seq < f[p].seq BY <1>6, <1>10 DEF ClimbsAbove
  <2> QED BY <1>3, <1>5, <1>6, <2>1
<1> QED BY <1>7, <1>8, <1>9, <1>10

\* A handler that is sent nothing stays served while the log grows.
LEMMA ServedStays ==
  ASSUME NEW l \in Logs, NEW m \in Logs, Grown(l, m),
         NEW w \in ViewerStates, Served(w, l),
         w.phase \notin {"catching", "live"} \/ Full(m) = Full(l)
  PROVE  Served(w, m)
<1>1. l.seq \in Nat /\ m.seq \in Nat /\ l.seq <= m.seq BY DEF Logs, Grown
<1>2. w.got \in Seq(Events) /\ w.deferred \in Seq(Events) /\ w.upTo \in Nat
  BY DEF ViewerStates
<1>3. w.upTo <= m.seq BY <1>1, <1>2 DEF Served
<1>4. UpTo(w.got, m.seq) /\ UpTo(w.deferred, m.seq) BY <1>1, <1>2, BoundsMove DEF Served
<1>5. ASSUME w.whole, w.phase \notin {"off", "loading"}
      PROVE  /\ Ahead(m)
             /\ w.phase = "replaying" => Replayed(w, m)
             /\ w.phase \in {"catching", "live"} => Followed(w, m)
  <2>1. /\ Ahead(l)
        /\ w.phase = "replaying" => Replayed(w, l)
        /\ w.phase \in {"catching", "live"} => Followed(w, l)
    BY <1>5 DEF Served
  <2>2. Ahead(m) BY <2>1 DEF Grown
  <2>3. ASSUME w.phase = "replaying" PROVE Replayed(w, m)
    <3> DEFINE f == Full(l)
               g == Full(m)
    <3>1. f \in Seq(Events) /\ g \in Seq(Events) BY FullIs
    <3>2. /\ Len(f) <= Len(g)
          /\ \A i \in 1..Len(f) : g[i] = f[i]
          /\ \A i \in (Len(f) + 1)..Len(g) : l.seq < g[i].seq /\ g[i].seq <= m.seq
          /\ \A i, j \in (Len(f) + 1)..Len(g) : i < j => g[i].seq < g[j].seq
      BY DEF Grown
    <3>3. UpTo(f, l.seq) BY <2>1 DEF Ahead
    <3>4. ClimbsAbove(f, w.upTo) BY <2>1, <2>3 DEF Replayed
    <3>5. \A x : Owed(x, m) =>
            Owed(x, l) \/ \E i \in (Len(f) + 1)..Len(g) : g[i] = x
      BY <2>1 DEF Grown
    <3>6. \A x : Owed(x, l) /\ x.seq > w.since /\ x.seq <= w.upTo => Occurs(x, w.got)
      BY <2>1, <2>3 DEF Replayed
    <3>12. Replayed(w, m) <=>
             /\ ClimbsAbove(g, w.upTo)
             /\ \A x : Owed(x, m) /\ x.seq > w.since /\ x.seq <= w.upTo => Occurs(x, w.got)
      BY DEF Replayed
    <3> HIDE DEF f, g
    <3>7. /\ Len(f) \in Nat /\ Len(g) \in Nat /\ DOMAIN f = 1..Len(f) /\ DOMAIN g = 1..Len(g)
      BY <3>1
    <3>8. \A i \in 1..Len(g) : g[i].seq \in Nat BY <3>1, SeqsAre
    <3>9. ASSUME NEW i \in 1..Len(g), NEW j \in 1..Len(g), i < j, g[i].seq > w.upTo
          PROVE  g[i].seq < g[j].seq
      <4>1. CASE j <= Len(f)
        <5>1. i \in 1..Len(f) /\ j \in 1..Len(f) BY <3>7, <3>9, <4>1
        <5>2. f[i].seq < f[j].seq BY <3>2, <3>4, <3>7, <3>9, <5>1 DEF ClimbsAbove
        <5> QED BY <3>2, <5>1, <5>2
      <4>2. CASE i <= Len(f) /\ j > Len(f)
        <5>1. i \in 1..Len(f) /\ j \in (Len(f) + 1)..Len(g) BY <3>7, <4>2
        <5>2. g[i].seq <= l.seq /\ l.seq < g[j].seq BY <3>2, <3>3, <3>7, <5>1 DEF UpTo
        <5> QED BY <1>1, <3>8, <5>2
      <4>3. CASE i > Len(f)
        <5>1. i \in (Len(f) + 1)..Len(g) /\ j \in (Len(f) + 1)..Len(g) BY <3>7, <3>9, <4>3
        <5> QED BY <3>2, <3>9, <5>1
      <4> QED BY <3>7, <4>1, <4>2, <4>3
    <3>10. ClimbsAbove(g, w.upTo) BY <3>7, <3>9 DEF ClimbsAbove
    <3>11. ASSUME NEW x, Owed(x, m), x.seq > w.since, x.seq <= w.upTo
           PROVE  Occurs(x, w.got)
      <4>1. CASE Owed(x, l) BY <3>6, <3>11, <4>1
      <4>2. CASE \E i \in (Len(f) + 1)..Len(g) : g[i] = x
        <5>1. PICK i \in (Len(f) + 1)..Len(g) : g[i] = x BY <4>2
        <5>2. l.seq < x.seq /\ x.seq \in Nat
          <6>1. i \in 1..Len(g) BY <3>7
          <6> QED BY <3>2, <3>8, <5>1, <6>1
        <5>3. w.upTo <= l.seq BY DEF Served
        <5> QED BY <1>1, <1>2, <3>11, <5>2, <5>3
      <4> QED BY <3>5, <3>11, <4>1, <4>2
    <3> QED BY <3>10, <3>11, <3>12
  <2>4. ASSUME w.phase \in {"catching", "live"} PROVE Followed(w, m)
    <3>1. \A x : Owed(x, m) => Owed(x, l) BY <2>4 DEF Owed
    <3> QED BY <2>1, <2>4, <3>1 DEF Followed
  <2> QED BY <2>2, <2>3, <2>4
<1>6. /\ w.phase \in {"off", "loading"} => w.got = <<>>
      /\ w.phase # "catching" => w.deferred = <<>>
      /\ Ordered(w.got)
      /\ w.phase # "live" => UpTo(w.got, w.upTo)
      /\ Climbs(w.deferred) /\ Above(w.deferred, w.upTo)
  BY DEF Served
<1> QED BY <1>3, <1>4, <1>5, <1>6 DEF Served


\* The empty list.
LEMMA NoneIs ==
  /\ <<>> \in Seq(Events) /\ Ordered(<<>>) /\ Climbs(<<>>)
  /\ \A x : ~Occurs(x, <<>>)
  /\ \A b : UpTo(<<>>, b) /\ Above(<<>>, b)
<1>1. <<>> \in Seq(Events) /\ DOMAIN <<>> = {} OBVIOUS
<1> QED BY <1>1 DEF Ordered, Climbs, Occurs, UpTo, Above

\* What is in a joined sequence was in one of the two.
LEMMA InJoin ==
  ASSUME NEW s \in Seq(Events), NEW t \in Seq(Events)
  PROVE  \A x : Occurs(x, s \o t) <=> Occurs(x, s) \/ Occurs(x, t)
BY JoinIs

\* What is appended reaches a viewer that listens.
LEMMA ServedFollows ==
  ASSUME NEW l \in Logs, NEW m \in Logs, Grown(l, m),
         NEW w \in ViewerStates, Served(w, l), w.phase \in {"catching", "live"},
         NEW new \in Seq(Events), Climbs(new), UpTo(new, m.seq), Above(new, l.seq),
         \A i \in (Len(Full(l)) + 1)..Len(Full(m)) : Occurs(Full(m)[i], new),
         NEW c, c = IF w.phase = "live" THEN [w EXCEPT !.got = @ \o new]
                    ELSE [w EXCEPT !.deferred = @ \o new]
  PROVE  c \in ViewerStates /\ Served(c, m)
<1>1. l.seq \in Nat /\ m.seq \in Nat /\ l.seq <= m.seq BY DEF Logs, Grown
<1>2. w.got \in Seq(Events) /\ w.deferred \in Seq(Events) /\ w.upTo \in Nat
  BY DEF ViewerStates
<1>3. /\ new \in Seq(Events) /\ Climbs(new)
      /\ UpTo(new, m.seq) /\ Above(new, l.seq)
      /\ \A i \in (Len(Full(l)) + 1)..Len(Full(m)) : Occurs(Full(m)[i], new)
  OBVIOUS
<1>4. /\ w.phase # "catching" => w.deferred = <<>>
      /\ w.upTo <= l.seq
      /\ Ordered(w.got) /\ UpTo(w.got, l.seq)
      /\ w.phase # "live" => UpTo(w.got, w.upTo)
      /\ Climbs(w.deferred) /\ UpTo(w.deferred, l.seq) /\ Above(w.deferred, w.upTo)
      /\ w.whole => Ahead(l) /\ Followed(w, l)
  BY DEF Served
<1>5. w.upTo <= m.seq BY <1>1, <1>2, <1>4
<1>6. UpTo(w.got, m.seq) /\ UpTo(w.deferred, m.seq) /\ Above(new, w.upTo)
  BY <1>1, <1>2, <1>3, <1>4, BoundsMove
<1> DEFINE g == w.got \o new
           d == w.deferred \o new
<1>7. /\ g \in Seq(Events) /\ UpTo(g, m.seq) /\ Ordered(g)
      /\ \A x : Occurs(x, g) <=> Occurs(x, w.got) \/ Occurs(x, new)
  <2>0. w.got \in Seq(Events) /\ new \in Seq(Events) BY <1>2, <1>3
  <2>1. g \in Seq(Events) /\ \A x : Occurs(x, g) <=> Occurs(x, w.got) \/ Occurs(x, new)
    <3>1. g \in Seq(Events) BY <2>0
    <3>2. ASSUME NEW x PROVE Occurs(x, g) <=> Occurs(x, w.got) \/ Occurs(x, new)
      BY <2>0, InJoin, Zenon
    <3> QED BY <3>1, <3>2
  <2>2. UpTo(g, m.seq) BY <1>1, <1>2, <1>3, <1>6, JoinIs
  <2>3. Ordered(g) BY <1>1, <1>2, <1>3, <1>4, JoinIs
  <2> QED BY <2>1, <2>2, <2>3
<1>8. /\ d \in Seq(Events) /\ UpTo(d, m.seq) /\ Climbs(d) /\ Above(d, w.upTo)
      /\ \A x : Occurs(x, d) <=> Occurs(x, w.deferred) \/ Occurs(x, new)
  <2>0. w.deferred \in Seq(Events) /\ new \in Seq(Events) BY <1>2, <1>3
  <2>1. d \in Seq(Events) /\ \A x : Occurs(x, d) <=> Occurs(x, w.deferred) \/ Occurs(x, new)
    <3>1. d \in Seq(Events) BY <2>0
    <3>2. ASSUME NEW x PROVE Occurs(x, d) <=> Occurs(x, w.deferred) \/ Occurs(x, new)
      BY <2>0, InJoin, Zenon
    <3> QED BY <3>1, <3>2
  <2>2. UpTo(d, m.seq) BY <1>1, <1>2, <1>3, <1>6, JoinIs
  <2>3. Climbs(d) BY <1>1, <1>2, <1>3, <1>4, JoinIs
  <2>4. Above(d, w.upTo) BY <1>2, <1>3, <1>4, <1>6, JoinIs
  <2> QED BY <2>1, <2>2, <2>3, <2>4
<1> HIDE DEF g, d
<1>9. \/ /\ w.phase = "live" /\ c = [w EXCEPT !.got = g]
      \/ /\ w.phase = "catching" /\ c = [w EXCEPT !.deferred = d]
  BY DEF g, d, ViewerStates
<1>10. /\ c.phase = w.phase /\ c.since = w.since /\ c.upTo = w.upTo /\ c.whole = w.whole
       /\ \/ w.phase = "live" /\ c.got = g /\ c.deferred = w.deferred
          \/ w.phase = "catching" /\ c.got = w.got /\ c.deferred = d
  BY <1>9 DEF ViewerStates
<1>11. c \in ViewerStates BY <1>7, <1>8, <1>9 DEF ViewerStates
<1>12. ASSUME w.whole PROVE Ahead(m) /\ Followed(c, m)
  <2>1. /\ Ahead(m)
        /\ \A x : Owed(x, m) =>
             Owed(x, l) \/ \E i \in (Len(Full(l)) + 1)..Len(Full(m)) : Full(m)[i] = x
    BY <1>4, <1>12 DEF Grown
  <2>2. \A x : Owed(x, l) /\ x.seq > w.since => Occurs(x, w.got) \/ Occurs(x, w.deferred)
    BY <1>4, <1>12 DEF Followed
  <2>3. ASSUME NEW x, Owed(x, m), x.seq > c.since PROVE Occurs(x, c.got) \/ Occurs(x, c.deferred)
    <3>1. Owed(x, l) \/ Occurs(x, new) BY <1>3, <2>1, <2>3
    <3>2. Occurs(x, w.got) \/ Occurs(x, w.deferred) \/ Occurs(x, new) BY <1>10, <2>2, <2>3, <3>1
    <3> QED BY <1>7, <1>8, <1>10, <3>2
  <2> QED BY <2>1, <2>3 DEF Followed
<1>13. /\ c.phase \notin {"off", "loading", "replaying"}
       /\ c.phase # "catching" => c.deferred = <<>>
       /\ c.upTo <= m.seq
       /\ Ordered(c.got) /\ UpTo(c.got, m.seq)
       /\ c.phase # "live" => UpTo(c.got, c.upTo)
       /\ Climbs(c.deferred) /\ UpTo(c.deferred, m.seq) /\ Above(c.deferred, c.upTo)
  BY <1>4, <1>5, <1>6, <1>7, <1>8, <1>10
<1> QED BY <1>10, <1>11, <1>12, <1>13 DEF Served

\* The replay.
LEMMA ReplayServes ==
  ASSUME NEW l, Sound(l), l.loaded \/ l.events = <<>>,
         NEW w \in ViewerStates, w.phase = "loading", w.deferred = <<>>,
         NEW c, c = Replay(w, l)
  PROVE  c \in ViewerStates /\ Served(c, l)
<1>1. l \in Logs /\ (l.loaded => InMemory(l)) BY SoundIs
<1>2. l.seq \in Nat /\ l.events \in Seq(Events) /\ l.loaded \in BOOLEAN /\ l.stale \in BOOLEAN
  BY <1>1 DEF Logs
<1>3. w.since \in Nat BY DEF ViewerStates
<1> DEFINE a == After(l.events, w.since)
           y == l.loaded /\ ~l.stale
<1>4. Ordered(l.events) /\ UpTo(l.events, l.seq)
  BY <1>1, NoneIs DEF InMemory
<1>5. /\ a \in Seq(Events) /\ Ordered(a) /\ UpTo(a, l.seq)
      /\ \A x : Occurs(x, a) <=> Occurs(x, l.events) /\ x.seq > w.since
  BY <1>2, <1>3, <1>4, AfterIs
<1>6. y \in BOOLEAN BY <1>2
<1>7. c = [w EXCEPT !.phase = "replaying", !.upTo = l.seq, !.got = a, !.whole = y]
  BY DEF Replay
<1> HIDE DEF a, y
<1>8. c \in ViewerStates BY <1>2, <1>5, <1>6, <1>7 DEF ViewerStates
<1>9. /\ c.phase = "replaying" /\ c.since = w.since /\ c.upTo = l.seq /\ c.got = a
      /\ c.deferred = <<>> /\ c.whole = y
  BY <1>7 DEF ViewerStates
<1>10. ASSUME c.whole PROVE Ahead(l) /\ Replayed(c, l)
  <2>1. InMemory(l) /\ ~l.stale BY <1>1, <1>9, <1>10 DEF y
  <2>2. Ahead(l) /\ Covers(l.events, l) BY <2>1 DEF InMemory
  <2>3. ClimbsAbove(Full(l), c.upTo)
    <3>1. Full(l) \in Seq(Events) BY <1>1, FullIs
    <3>2. DOMAIN Full(l) = 1..Len(Full(l)) BY <3>1
    <3>3. \A i \in DOMAIN Full(l) : Full(l)[i].seq \in Nat BY <3>1, <3>2, SeqsAre
    <3>4. \A i \in DOMAIN Full(l) : Full(l)[i].seq <= l.seq BY <2>2 DEF Ahead, UpTo
    <3>5. \A i \in DOMAIN Full(l) : ~(Full(l)[i].seq > c.upTo) BY <1>2, <1>9, <3>3, <3>4
    <3> QED BY <3>5 DEF ClimbsAbove
  <2>4. ASSUME NEW x, Owed(x, l), x.seq > c.since PROVE Occurs(x, c.got)
    <3>1. Occurs(x, l.events) BY <2>2, <2>4 DEF Covers
    <3> QED BY <1>5, <1>9, <2>4, <3>1
  <2> QED BY <2>2, <2>3, <2>4 DEF Replayed
<1>11. l.seq <= l.seq BY <1>2
<1> QED BY <1>5, <1>8, <1>9, <1>10, <1>11, NoneIs DEF Served

\* What sendCatchup sends.
LEMMA CatchupIs ==
  ASSUME NEW w \in ViewerStates, NEW evs \in Seq(Events), NEW c, c = sendCatchup(w, evs)
  PROVE  \E sent \in Seq(Events) :
           /\ c \in ViewerStates
           /\ c.phase = w.phase /\ c.since = w.since
           /\ c.deferred = w.deferred /\ c.whole = w.whole
           /\ c.got = w.got \o sent
           /\ w.upTo <= c.upTo /\ UpTo(sent, c.upTo)
           /\ Climbs(sent) /\ Above(sent, w.upTo)
           /\ \A b \in Nat : w.upTo <= b /\ UpTo(evs, b) => c.upTo <= b /\ UpTo(sent, b)
           /\ Climbs(evs) /\ Above(evs, w.upTo) => \A x : Occurs(x, evs) => Occurs(x, sent)
<1> DEFINE I == {i \in DOMAIN evs :
                   evs[i].seq > w.upTo /\ \A j \in 1..(i - 1) : evs[j].seq < evs[i].seq}
           sent == Select[evs][I]
           n == Cardinality(I)
           u == IF sent = <<>> THEN w.upTo ELSE sent[Len(sent)].seq
           g == w.got \o sent
<1>1. w.got \in Seq(Events) /\ w.upTo \in Nat BY DEF ViewerStates
<1>2. I \in SUBSET DOMAIN evs OBVIOUS
<1>3. \A i \in I : i \in DOMAIN evs /\ evs[i].seq > w.upTo
                   /\ \A j \in 1..(i - 1) : evs[j].seq < evs[i].seq
  OBVIOUS
<1>4. \A i \in DOMAIN evs :
        evs[i].seq > w.upTo /\ (\A j \in 1..(i - 1) : evs[j].seq < evs[i].seq) => i \in I
  OBVIOUS
<1>5. c = [w EXCEPT !.got = g, !.upTo = u] BY DEF sendCatchup, ViewerStates
<1> HIDE DEF I
<1>6. PICK p \in [1..n -> I] :
        /\ \A i, j \in 1..n : i < j <=> p[i] < p[j]
        /\ \A k \in I : \E i \in 1..n : p[i] = k
        /\ Select[evs][I] = [i \in 1..n |-> evs[p[i]]]
  BY <1>2, SelectIs
<1>7. sent \in Seq(Events) /\ Len(sent) = n BY <1>2, SelectType
<1>8. sent = [i \in 1..n |-> evs[p[i]]] BY <1>6
<1> HIDE DEF sent
<1>9. n \in Nat BY <1>2, SelectIs
<1> HIDE DEF n
<1>10. DOMAIN sent = 1..n /\ DOMAIN evs = 1..Len(evs) /\ Len(evs) \in Nat BY <1>7
<1>11. \A i \in 1..n : p[i] \in I /\ p[i] \in DOMAIN evs /\ sent[i] = evs[p[i]]
  BY <1>3, <1>6, <1>8
<1>12. \A i \in 1..n : sent[i].seq \in Nat BY <1>7, SeqsAre
<1>13. Above(sent, w.upTo) BY <1>3, <1>10, <1>11 DEF Above
<1>14. ASSUME NEW i \in 1..n, NEW j \in 1..n, i < j PROVE sent[i].seq < sent[j].seq
  <2>1. p[i] < p[j] BY <1>6, <1>14
  <2>2. p[i] \in 1..(p[j] - 1) BY <1>10, <1>11, <2>1
  <2>3. evs[p[i]].seq < evs[p[j]].seq BY <1>3, <1>11, <2>2
  <2> QED BY <1>11, <2>3
<1>15. Climbs(sent) BY <1>10, <1>14 DEF Climbs
<1>16. u \in Nat /\ w.upTo <= u /\ UpTo(sent, u)
       /\ (u = w.upTo \/ (n \in 1..n /\ u = sent[n].seq))
  <2>1. CASE sent = <<>>
    <3>1. u = w.upTo BY <2>1
    <3> QED BY <1>1, <2>1, <3>1, NoneIs
  <2>2. CASE sent # <<>>
    <3>1. n \in 1..n
      <4>1. n # 0 BY <1>7, <2>2
      <4> QED BY <1>9, <4>1
    <3>2. u = sent[n].seq BY <1>7, <2>2
    <3>3. u \in Nat /\ w.upTo < u BY <1>1, <1>10, <1>12, <1>13, <3>1, <3>2 DEF Above
    <3>4. \A i \in 1..n : sent[i].seq <= u
      <4> SUFFICES ASSUME NEW i \in 1..n PROVE sent[i].seq <= u OBVIOUS
      <4>1. i = n \/ i < n BY <1>9
      <4> QED BY <1>12, <1>14, <3>1, <3>2, <4>1
    <3> QED BY <1>1, <1>10, <3>1, <3>2, <3>3, <3>4 DEF UpTo
  <2> QED BY <2>1, <2>2
<1>17. g \in Seq(Events) BY <1>1, <1>7
<1> HIDE DEF u, g
<1>18. c \in ViewerStates BY <1>5, <1>16, <1>17 DEF ViewerStates
<1>19. /\ c.phase = w.phase /\ c.since = w.since /\ c.deferred = w.deferred
       /\ c.whole = w.whole /\ c.got = g /\ c.upTo = u
  BY <1>5 DEF ViewerStates
<1>20. ASSUME NEW b \in Nat, w.upTo <= b, UpTo(evs, b) PROVE u <= b /\ UpTo(sent, b)
  <2>1. \A i \in 1..n : sent[i].seq <= b BY <1>11, <1>20 DEF UpTo
  <2> QED BY <1>10, <1>16, <1>20, <2>1 DEF UpTo
<1>21. ASSUME Climbs(evs), Above(evs, w.upTo), NEW x, Occurs(x, evs) PROVE Occurs(x, sent)
  <2>1. PICK k \in DOMAIN evs : evs[k] = x BY <1>21 DEF Occurs
  <2>2. \A j \in 1..(k - 1) : j \in DOMAIN evs /\ j < k BY <1>10
  <2>3. \A j \in 1..(k - 1) : evs[j].seq < evs[k].seq BY <1>21, <2>2 DEF Climbs
  <2>4. k \in I BY <1>4, <1>21, <2>3 DEF Above
  <2>5. PICK i \in 1..n : p[i] = k BY <1>6, <2>4
  <2> QED BY <1>10, <1>11, <2>1, <2>5 DEF Occurs
<1> QED BY <1>7, <1>13, <1>15, <1>16, <1>18, <1>19, <1>20, <1>21 DEF g


\* The gap: what came since the replay was read.
LEMMA SubscribeServes ==
  ASSUME NEW l, Sound(l), l.loaded,
         NEW w \in ViewerStates, Served(w, l), w.phase = "replaying",
         NEW a \in ViewerStates,
         a = [w EXCEPT !.phase = "catching", !.whole = @ /\ ~l.stale],
         NEW c, c = sendCatchup(a, After(l.events, w.upTo))
  PROVE  c \in ViewerStates /\ Served(c, l)
<1> DEFINE evs == After(l.events, w.upTo)
<1>1. l \in Logs /\ InMemory(l) BY SoundIs
<1>2. l.seq \in Nat /\ l.events \in Seq(Events) BY <1>1 DEF Logs
<1>3. w.got \in Seq(Events) /\ w.upTo \in Nat /\ w.since \in Nat BY DEF ViewerStates
<1>4. /\ a.phase = "catching" /\ a.since = w.since /\ a.upTo = w.upTo /\ a.got = w.got
      /\ a.deferred = w.deferred /\ a.whole = (w.whole /\ ~l.stale)
  BY DEF ViewerStates
<1>5. /\ w.deferred = <<>> /\ w.upTo <= l.seq
      /\ Ordered(w.got) /\ UpTo(w.got, l.seq) /\ UpTo(w.got, w.upTo)
      /\ w.whole => Ahead(l) /\ Replayed(w, l)
  BY DEF Served
<1>6. UpTo(l.events, l.seq) BY <1>1 DEF InMemory
<1>7. /\ evs \in Seq(Events) /\ UpTo(evs, l.seq) /\ Above(evs, w.upTo)
      /\ \A x : Occurs(x, evs) <=> Occurs(x, l.events) /\ x.seq > w.upTo
      /\ ClimbsAbove(l.events, w.upTo) => Climbs(evs)
  BY <1>2, <1>3, <1>6, AfterIs
<1>15. c = sendCatchup(a, evs) OBVIOUS
<1> HIDE DEF evs
<1>8. PICK sent \in Seq(Events) :
        /\ c \in ViewerStates
        /\ c.phase = a.phase /\ c.since = a.since
        /\ c.deferred = a.deferred /\ c.whole = a.whole
        /\ c.got = a.got \o sent
        /\ a.upTo <= c.upTo /\ UpTo(sent, c.upTo)
        /\ Climbs(sent) /\ Above(sent, a.upTo)
        /\ \A b \in Nat : a.upTo <= b /\ UpTo(evs, b) => c.upTo <= b /\ UpTo(sent, b)
        /\ Climbs(evs) /\ Above(evs, a.upTo) => \A x : Occurs(x, evs) => Occurs(x, sent)
  BY <1>7, <1>15, CatchupIs
<1>9. c.upTo \in Nat BY <1>8 DEF ViewerStates
<1>10. c.upTo <= l.seq /\ UpTo(sent, l.seq) BY <1>2, <1>4, <1>5, <1>7, <1>8
<1>11. /\ Ordered(c.got) /\ UpTo(c.got, l.seq)
       /\ \A x : Occurs(x, c.got) <=> Occurs(x, w.got) \/ Occurs(x, sent)
  <2>1. c.got = w.got \o sent /\ Climbs(sent) /\ Above(sent, w.upTo) BY <1>4, <1>8
  <2>2. UpTo(w.got \o sent, l.seq) BY <1>2, <1>3, <1>5, <1>10, JoinIs
  <2>3. Ordered(w.got \o sent) BY <1>3, <1>5, <2>1, JoinIs
  <2>4. \A x : Occurs(x, w.got \o sent) <=> Occurs(x, w.got) \/ Occurs(x, sent) BY <1>3, JoinIs
  <2> QED BY <2>1, <2>2, <2>3, <2>4
<1>12. UpTo(c.got, c.upTo)
  <2>1. w.upTo <= c.upTo BY <1>4, <1>8
  <2>2. UpTo(w.got, c.upTo) BY <1>3, <1>5, <1>9, <2>1, BoundsMove
  <2>3. UpTo(w.got \o sent, c.upTo) BY <1>3, <1>8, <1>9, <2>2, JoinIs
  <2> QED BY <1>4, <1>8, <2>3
<1>13. ASSUME c.whole PROVE Ahead(l) /\ Followed(c, l)
  <2>1. w.whole /\ ~l.stale BY <1>4, <1>8, <1>13
  <2>2. Ahead(l) /\ Replayed(w, l) BY <1>5, <2>1
  <2>3. Covers(l.events, l) /\ Ordered(l.events) BY <1>1, <2>1 DEF InMemory
  <2>4. ClimbsAbove(l.events, w.upTo)
    <3>1. ClimbsAbove(Full(l), w.upTo) BY <2>2 DEF Replayed
    <3>2. Full(l) \in Seq(Events) BY <1>1, FullIs
    <3> QED BY <1>2, <1>3, <2>3, <3>1, <3>2, PartClimbs DEF Covers
  <2>5. \A x : Occurs(x, evs) => Occurs(x, sent) BY <1>4, <1>7, <1>8, <2>4
  <2>6. ASSUME NEW x, Owed(x, l), x.seq > c.since PROVE Occurs(x, c.got)
    <3>1. Occurs(x, l.events) BY <2>3, <2>6 DEF Covers
    <3>2. x.seq > w.since BY <1>4, <1>8, <2>6
    <3>3. CASE x.seq <= w.upTo
      <4>1. Occurs(x, w.got) BY <2>2, <2>6, <3>2, <3>3 DEF Replayed
      <4> QED BY <1>11, <4>1
    <3>4. CASE x.seq > w.upTo BY <1>7, <1>11, <2>5, <3>1, <3>4
    <3>5. x.seq \in Nat
      <4>1. PICK i \in DOMAIN l.events : l.events[i] = x BY <3>1 DEF Occurs
      <4>2. x \in Events BY <1>2, <4>1
      <4> QED BY <4>2 DEF Events
    <3> QED BY <1>3, <3>3, <3>4, <3>5
  <2> QED BY <2>2, <2>6 DEF Followed
<1>14. c.phase = "catching" /\ c.deferred = <<>> BY <1>4, <1>5, <1>8
<1> QED BY <1>8, <1>10, <1>11, <1>12, <1>13, <1>14, NoneIs DEF Served

\* What was put aside while the gap was sent.
LEMMA DrainServes ==
  ASSUME NEW l \in Logs, NEW w \in ViewerStates, Served(w, l), w.phase = "catching",
         NEW c,
         c = IF w.deferred = <<>> THEN [w EXCEPT !.phase = "live"]
             ELSE sendCatchup([w EXCEPT !.deferred = <<>>], w.deferred)
  PROVE  c \in ViewerStates /\ Served(c, l)
<1>1. l.seq \in Nat BY DEF Logs
<1>2. w.got \in Seq(Events) /\ w.deferred \in Seq(Events) /\ w.upTo \in Nat
  BY DEF ViewerStates
<1>3. /\ w.upTo <= l.seq
      /\ Ordered(w.got) /\ UpTo(w.got, l.seq) /\ UpTo(w.got, w.upTo)
      /\ Climbs(w.deferred) /\ UpTo(w.deferred, l.seq) /\ Above(w.deferred, w.upTo)
      /\ w.whole => Ahead(l) /\ Followed(w, l)
  BY DEF Served
<1>4. CASE w.deferred = <<>>
  <2>1. c = [w EXCEPT !.phase = "live"] BY <1>4
  <2>2. c \in ViewerStates BY <2>1 DEF ViewerStates
  <2>3. /\ c.phase = "live" /\ c.since = w.since /\ c.upTo = w.upTo /\ c.got = w.got
        /\ c.deferred = w.deferred /\ c.whole = w.whole
    BY <2>1 DEF ViewerStates
  <2>4. w.whole => Followed(c, l) BY <1>3, <2>3 DEF Followed
  <2> QED BY <1>3, <1>4, <2>2, <2>3, <2>4 DEF Served
<1>5. CASE w.deferred # <<>>
  <2> DEFINE a == [w EXCEPT !.deferred = <<>>]
  <2>1. a \in ViewerStates BY NoneIs DEF ViewerStates
  <2>2. /\ a.phase = "catching" /\ a.since = w.since /\ a.upTo = w.upTo /\ a.got = w.got
        /\ a.deferred = <<>> /\ a.whole = w.whole
    BY DEF ViewerStates
  <2>3. c = sendCatchup(a, w.deferred) BY <1>5
  <2> HIDE DEF a
  <2>4. PICK sent \in Seq(Events) :
          /\ c \in ViewerStates
          /\ c.phase = a.phase /\ c.since = a.since
          /\ c.deferred = a.deferred /\ c.whole = a.whole
          /\ c.got = a.got \o sent
          /\ a.upTo <= c.upTo /\ UpTo(sent, c.upTo)
          /\ Climbs(sent) /\ Above(sent, a.upTo)
          /\ \A b \in Nat : a.upTo <= b /\ UpTo(w.deferred, b) => c.upTo <= b /\ UpTo(sent, b)
          /\ Climbs(w.deferred) /\ Above(w.deferred, a.upTo)
               => \A x : Occurs(x, w.deferred) => Occurs(x, sent)
    BY <1>2, <2>1, <2>3, CatchupIs
  <2>5. c.upTo \in Nat BY <2>4 DEF ViewerStates
  <2>6. c.upTo <= l.seq /\ UpTo(sent, l.seq) BY <1>1, <1>3, <2>2, <2>4
  <2>7. /\ Ordered(c.got) /\ UpTo(c.got, l.seq)
        /\ \A x : Occurs(x, c.got) <=> Occurs(x, w.got) \/ Occurs(x, sent)
    <3>1. c.got = w.got \o sent /\ Climbs(sent) /\ Above(sent, w.upTo) BY <2>2, <2>4
    <3>2. UpTo(w.got \o sent, l.seq) BY <1>1, <1>2, <1>3, <2>6, JoinIs
    <3>3. Ordered(w.got \o sent) BY <1>2, <1>3, <3>1, JoinIs
    <3>4. \A x : Occurs(x, w.got \o sent) <=> Occurs(x, w.got) \/ Occurs(x, sent) BY <1>2, JoinIs
    <3> QED BY <3>1, <3>2, <3>3, <3>4
  <2>8. UpTo(c.got, c.upTo)
    <3>1. w.upTo <= c.upTo BY <2>2, <2>4
    <3>2. UpTo(w.got, c.upTo) BY <1>2, <1>3, <2>5, <3>1, BoundsMove
    <3>3. UpTo(w.got \o sent, c.upTo) BY <1>2, <2>4, <2>5, <3>2, JoinIs
    <3> QED BY <2>2, <2>4, <3>3
  <2>9. ASSUME c.whole PROVE Ahead(l) /\ Followed(c, l)
    <3>1. w.whole BY <2>2, <2>4, <2>9
    <3>2. \A x : Occurs(x, w.deferred) => Occurs(x, sent) BY <1>3, <2>2, <2>4
    <3>3. \A x : Owed(x, l) /\ x.seq > w.since => Occurs(x, w.got) \/ Occurs(x, w.deferred)
      BY <1>3, <3>1 DEF Followed
    <3>4. \A x : Owed(x, l) /\ x.seq > c.since => Occurs(x, c.got)
      BY <2>2, <2>4, <2>7, <3>2, <3>3
    <3> QED BY <1>3, <3>1, <3>4 DEF Followed
  <2>10. c.phase = "catching" /\ c.deferred = <<>> BY <2>2, <2>4
  <2> QED BY <2>4, <2>6, <2>7, <2>8, <2>9, <2>10, NoneIs DEF Served
<1> QED BY <1>4, <1>5


-----------------------------------------------------------------------------
(* Runs that are closed.                                                   *)

\* An end closes a timeline, and nothing but a start opens it.
LEMMA ClosedAppend ==
  ASSUME NEW s \in Seq(Events), NEW e \in Events
  PROVE  /\ e.kind = "end" => Closed(Append(s, e))
         /\ Closed(s) /\ e.kind # "start" => Closed(Append(s, e))
<1> DEFINE t == Append(s, e)
           n == Len(s)
<1>1. /\ n \in Nat /\ DOMAIN s = 1..n /\ DOMAIN t = 1..(n + 1) /\ t[n + 1] = e
      /\ \A i \in 1..n : t[i] = s[i]
  OBVIOUS
<1> HIDE DEF t, n
<1>2. \A i \in 1..(n + 1) : (i \in 1..n /\ n + 1 > i) \/ i = n + 1 BY <1>1
<1>3. \A i \in 1..n : i \in 1..(n + 1) BY <1>1
<1>4. n + 1 \in 1..(n + 1) BY <1>1
<1>5. ASSUME e.kind = "end" PROVE Closed(t)
  <2>1. e.kind # "start" BY <1>5
  <2> QED BY <1>1, <1>2, <1>4, <1>5, <2>1 DEF Closed
<1>6. ASSUME Closed(s), e.kind # "start" PROVE Closed(t)
  <2> SUFFICES ASSUME NEW i \in 1..(n + 1), t[i].kind = "start"
               PROVE  \E j \in 1..(n + 1) : j > i /\ t[j].kind = "end"
    BY <1>1 DEF Closed
  <2>1. i \in 1..n BY <1>1, <1>2, <1>6
  <2>2. PICK j \in 1..n : j > i /\ s[j].kind = "end" BY <1>1, <1>6, <2>1 DEF Closed
  <2> QED BY <1>1, <1>3, <2>2
<1> QED BY <1>5, <1>6 DEF t

\* What a crash takes away does not open a run again.
LEMMA ClosedCut ==
  ASSUME NEW l \in Logs, BufferedOnly(l.buffer), Closed(Full(l))
  PROVE  Closed(l.disk)
<1> DEFINE d == l.disk
           b == l.buffer
           f == Full(l)
<1>1. /\ f \in Seq(Events) /\ d \in Seq(Events) /\ b \in Seq(Events)
      /\ Len(f) = Len(d) + Len(b)
      /\ \A i \in 1..Len(d) : f[i] = d[i]
      /\ \A i \in 1..Len(b) : f[Len(d) + i] = b[i]
  BY FullIs
<1>2. BufferedOnly(b) /\ Closed(f) OBVIOUS
<1> HIDE DEF d, b, f
<1>3. /\ DOMAIN d = 1..Len(d) /\ DOMAIN b = 1..Len(b) /\ DOMAIN f = 1..Len(f)
      /\ Len(d) \in Nat /\ Len(b) \in Nat
  BY <1>1
<1>4. \A i \in 1..Len(d) : i \in 1..Len(f) BY <1>1, <1>3
<1>5. ASSUME NEW i \in 1..Len(d), d[i].kind = "start"
      PROVE  \E j \in 1..Len(d) : j > i /\ d[j].kind = "end"
  <2>1. f[i].kind = "start" BY <1>1, <1>5
  <2>2. PICK j \in 1..Len(f) : j > i /\ f[j].kind = "end" BY <1>2, <1>3, <1>4, <2>1 DEF Closed
  <2>3. j \in 1..Len(d)
    <3> SUFFICES ASSUME j > Len(d) PROVE FALSE BY <1>1, <1>3
    <3>1. j - Len(d) \in 1..Len(b) /\ Len(d) + (j - Len(d)) = j BY <1>1, <1>3
    <3>2. f[j] = b[j - Len(d)] BY <1>1, <3>1
    <3>3. f[j].kind \in Buffered BY <1>2, <1>3, <3>1, <3>2 DEF BufferedOnly
    <3> QED BY <2>2, <3>3 DEF Buffered
  <2> QED BY <1>1, <2>2, <2>3
<1>6. Closed(d) BY <1>3, <1>5 DEF Closed
<1> QED BY <1>6 DEF d

-----------------------------------------------------------------------------
(* Steps of the log that the handlers share.                               *)

\* What the parser works on stays the start of a log that grows.
LEMMA ParsedGrows ==
  ASSUME NEW l \in Logs, NEW m \in Logs, Grown(l, m), NEW evs \in Seq(Events), Parsed(l, evs)
  PROVE  Parsed(m, evs)
<1> DEFINE f == Full(l)
           g == Full(m)
<1>0. Len(evs) \in Nat OBVIOUS
<1>1. f \in Seq(Events) /\ g \in Seq(Events) /\ Len(evs) \in Nat BY <1>0, FullIs
<1>2. l.seq \in Nat /\ m.seq \in Nat BY DEF Logs
<1>3. /\ l.seq <= m.seq /\ Len(f) <= Len(g)
      /\ \A i \in 1..Len(f) : g[i] = f[i]
      /\ \A i \in (Len(f) + 1)..Len(g) : l.seq < g[i].seq /\ g[i].seq <= m.seq
  BY DEF Grown
<1>4. /\ Len(evs) <= Len(f)
      /\ \A i \in 1..Len(evs) : evs[i] = f[i]
      /\ \A i \in DOMAIN f : i > Len(evs) => f[i].seq <= l.seq
  BY DEF Parsed
<1> HIDE DEF f, g
<1>5. /\ Len(f) \in Nat /\ Len(g) \in Nat /\ DOMAIN f = 1..Len(f) /\ DOMAIN g = 1..Len(g)
  BY <1>1
<1>6. \A i \in 1..Len(f) : f[i].seq \in Nat BY <1>1, SeqsAre
<1>7. \A i \in 1..Len(evs) : evs[i] = g[i]
  <2>1. \A i \in 1..Len(evs) : i \in 1..Len(f) BY <1>1, <1>4, <1>5
  <2> QED BY <1>3, <1>4, <2>1
<1>8. ASSUME NEW i \in 1..Len(g), i > Len(evs) PROVE g[i].seq <= m.seq
  <2>1. CASE i \in 1..Len(f)
    <3>1. g[i] = f[i] /\ f[i].seq <= l.seq BY <1>3, <1>4, <1>5, <1>8, <2>1
    <3> QED BY <1>2, <1>3, <1>6, <2>1, <3>1
  <2>2. CASE i \in (Len(f) + 1)..Len(g) BY <1>3, <2>2
  <2> QED BY <1>5, <2>1, <2>2
<1>9. Len(evs) <= Len(g) BY <1>1, <1>3, <1>4, <1>5
<1> QED BY <1>5, <1>7, <1>8, <1>9 DEF Parsed, g

\* Each handler has its type.
LEMMA ViewerType ==
  ASSUME TypeOK, NEW v \in Viewers
  PROVE  viewer[v] \in ViewerStates
BY DEF TypeOK

\* An append reaches every handler that listens.
LEMMA AppendsServe ==
  ASSUME LogInv, NEW l, Sound(l), Grown(log, l), Appends(l)
  PROVE  /\ log' = l /\ ServiceInv'
         /\ viewer' \in [Viewers -> ViewerStates]
         /\ UNCHANGED <<load, up, crashes, torn>>
<1>1. log' = l /\ Fanout(l) /\ UNCHANGED <<load, up, crashes, torn>> BY DEF Appends
<1>2. l \in Logs /\ log \in Logs BY SoundIs DEF LogInv, ServiceInv
<1>3. load \in Loads /\ TypeOK BY DEF LogInv, TypeOK
<1> DEFINE new == SubSeq(Full(l), Len(Full(log)) + 1, Len(Full(l)))
<1>4. viewer' = [v \in Viewers |->
        CASE viewer[v].phase = "live"     -> [viewer[v] EXCEPT !.got = @ \o new]
          [] viewer[v].phase = "catching" -> [viewer[v] EXCEPT !.deferred = @ \o new]
          [] OTHER                        -> viewer[v]]
  BY <1>1 DEF Fanout
<1>5. ASSUME NEW v \in Viewers
      PROVE  viewer'[v] \in ViewerStates /\ Served(viewer'[v], l)
  <2> DEFINE w == viewer[v]
             c == viewer'[v]
  <2>1. w \in ViewerStates /\ Served(w, log) BY <1>3, ViewerType DEF LogInv, ServiceInv
  <2>2. c = CASE w.phase = "live"     -> [w EXCEPT !.got = @ \o new]
              [] w.phase = "catching" -> [w EXCEPT !.deferred = @ \o new]
              [] OTHER                -> w
    BY <1>4
  <2>3. new = SubSeq(Full(l), Len(Full(log)) + 1, Len(Full(l))) OBVIOUS
  <2> HIDE DEF w, c, new
  <2>4. CASE w.phase \in {"live", "catching"}
    <3>1. c = IF w.phase = "live" THEN [w EXCEPT !.got = @ \o new]
              ELSE [w EXCEPT !.deferred = @ \o new]
      BY <2>2, <2>4
    <3>2. /\ new \in Seq(Events) /\ Climbs(new) /\ UpTo(new, l.seq) /\ Above(new, log.seq)
          /\ \A i \in (Len(Full(log)) + 1)..Len(Full(l)) : Occurs(Full(l)[i], new)
      BY <1>2, <2>3, NewIs
    <3> QED BY <1>2, <2>1, <2>4, <3>1, <3>2, ServedFollows DEF c
  <2>5. CASE w.phase \notin {"live", "catching"}
    <3>1. c = w BY <2>2, <2>5
    <3>2. Served(w, l) BY <1>2, <2>1, <2>5, ServedStays
    <3> QED BY <2>1, <3>1, <3>2 DEF c
  <2> QED BY <2>4, <2>5
<1>6. viewer' \in [Viewers -> ViewerStates]
  <2>1. viewer' = [v \in Viewers |-> viewer'[v]] BY <1>4
  <2> QED BY <1>5, <2>1
<1>7. load'.phase = "parsing" => Parsed(log', load'.evs)
  <2> SUFFICES ASSUME load.phase = "parsing" PROVE Parsed(l, load.evs) BY <1>1
  <2>1. Parsed(log, load.evs) BY DEF LogInv, ServiceInv
  <2>2. load.evs \in Seq(Events) BY <1>3 DEF Loads
  <2> QED BY <1>2, <2>1, <2>2, ParsedGrows
<1>8. ServiceInv' BY <1>1, <1>5, <1>7 DEF ServiceInv
<1> QED BY <1>1, <1>6, <1>8

\* A step that appends nothing and leaves the viewers and the load alone.
LEMMA QuietServes ==
  ASSUME LogInv, Sound(log'), Grown(log, log'), Full(log') = Full(log), UNCHANGED <<load, viewer>>
  PROVE  ServiceInv'
<1>1. log' \in Logs /\ log \in Logs BY SoundIs DEF LogInv, ServiceInv
<1>2. load \in Loads /\ TypeOK BY DEF LogInv, TypeOK
<1>3. ASSUME NEW v \in Viewers PROVE Served(viewer'[v], log')
  <2>1. viewer[v] \in ViewerStates /\ Served(viewer[v], log)
    BY <1>2, ViewerType DEF LogInv, ServiceInv
  <2>2. Served(viewer[v], log') BY <1>1, <2>1, ServedStays
  <2> QED BY <2>2
<1>4. load'.phase = "parsing" => Parsed(log', load'.evs)
  <2> SUFFICES ASSUME load.phase = "parsing" PROVE Parsed(log', load.evs) OBVIOUS
  <2>1. Parsed(log, load.evs) BY DEF LogInv, ServiceInv
  <2>2. load.evs \in Seq(Events) BY <1>2 DEF Loads
  <2> QED BY <1>1, <2>1, <2>2, ParsedGrows
<1> QED BY <1>3, <1>4 DEF ServiceInv

\* A handler that is gone needs nothing.
LEMMA GoneServed ==
  ASSUME NEW l \in Logs
  PROVE  Gone \in ViewerStates /\ Served(Gone, l)
<1>1. Gone \in ViewerStates BY NoneIs DEF Gone, ViewerStates
<1>2. /\ Gone.phase = "off" /\ Gone.got = <<>> /\ Gone.deferred = <<>> /\ Gone.upTo = 0
  BY DEF Gone
<1>3. 0 <= l.seq BY DEF Logs
<1> QED BY <1>1, <1>2, <1>3, NoneIs DEF Served

\* A process that dies leaves a sound log, as far as it was written, and no handlers.
LEMMA DieServes ==
  ASSUME LogInv, NEW l, Sound(l), Die(l)
  PROVE  /\ ServiceInv' /\ DownInv'
         /\ log' \in Logs /\ Len(log'.events) <= MaxEvents
         /\ run' \in {"none", "running", "aborted"} /\ agent' \in BOOLEAN
         /\ load' \in Loads /\ viewer' \in [Viewers -> ViewerStates]
         /\ up' = FALSE /\ crashes' \in Nat
         /\ Full(log') = l.disk /\ log'.disk = l.disk
         /\ Closed(Full(l)) => Closed(Full(log'))
<1>1. l \in Logs /\ Numbered(l) /\ BufferedOnly(l.buffer) BY SoundIs
<1> DEFINE a == Unloaded(l)
           m == [a EXCEPT !.seq = 0, !.recSeq = 0, !.buffer = <<>>, !.stale = FALSE]
<1>2. /\ a \in Logs /\ a.events = <<>> /\ a.loaded = FALSE
      /\ a.made = l.made /\ a.disk = l.disk
  BY <1>1, UnloadedIs
<1>3. /\ log' = m /\ up' = FALSE /\ run' = "none" /\ agent' = FALSE /\ load' = NoLoad
      /\ viewer' = [v \in Viewers |-> Gone] /\ crashes' = crashes + 1
  BY DEF Die
<1> HIDE DEF a
<1>4. /\ m.events = <<>> /\ m.loaded = FALSE /\ m.made = l.made /\ m.disk = l.disk
      /\ m.seq = 0 /\ m.buffer = <<>>
  BY <1>2 DEF Logs
<1>5. m \in Logs BY <1>2, NoneIs DEF Logs
<1> HIDE DEF m
<1>6. /\ Full(l) \in Seq(Events) /\ l.disk \in Seq(Events)
      /\ Len(Full(l)) = Len(l.disk) + Len(l.buffer)
      /\ l.buffer \in Seq(Events)
      /\ \A i \in 1..Len(l.disk) : Full(l)[i] = l.disk[i]
  BY <1>1, FullIs
<1>7. Full(m) = l.disk
  <2>1. Full(m) = l.disk \o <<>> BY <1>4 DEF Full
  <2> QED BY <1>6, <2>1
<1>8. Numbered(m)
  <2> DEFINE d == l.disk
             f == Full(l)
  <2>1. /\ \A i, j \in DOMAIN f : i < j => f[i].n < f[j].n
        /\ \A i \in DOMAIN f : f[i].n <= l.made
    BY <1>1 DEF Numbered
  <2>2. /\ f \in Seq(Events) /\ d \in Seq(Events) /\ Len(f) >= Len(d)
        /\ \A i \in 1..Len(d) : f[i] = d[i]
    <3>1. Len(l.disk) \in Nat /\ Len(l.buffer) \in Nat BY <1>6
    <3>2. Len(f) >= Len(d)
      <4>1. Len(f) = Len(d) + Len(l.buffer) BY <1>6
      <4>2. Len(d) \in Nat BY <3>1
      <4> HIDE DEF f, d
      <4> QED BY <3>1, <4>1, <4>2
    <3> QED BY <1>6, <3>2
  <2>3. Numbered(m) <=> /\ \A i, j \in DOMAIN d : i < j => d[i].n < d[j].n
                        /\ \A i \in DOMAIN d : d[i].n <= l.made
    BY <1>4, <1>7 DEF Numbered
  <2> HIDE DEF d, f
  <2>4. \A i \in DOMAIN d : i \in DOMAIN f /\ f[i] = d[i] BY <2>2
  <2> QED BY <2>1, <2>3, <2>4
<1>9. Len(m.events) <= MaxEvents
  <2>1. Len(<<>>) = 0 OBVIOUS
  <2> QED BY <1>4, <2>1, BoundsAssumption
<1>10. Sound(m) BY <1>4, <1>5, <1>8, <1>9, NoneIs DEF Sound, BufferedOnly
<1>11. \A v \in Viewers : viewer'[v] \in ViewerStates /\ Served(viewer'[v], m)
  BY <1>3, <1>5, GoneServed
<1>12. viewer' \in [Viewers -> ViewerStates] BY <1>3, <1>11
<1>13. load'.phase # "parsing" /\ load' \in Loads BY <1>3, NoneIs DEF NoLoad, Loads
<1>14. ServiceInv' BY <1>3, <1>10, <1>11, <1>13 DEF ServiceInv
<1>15. DownInv' BY <1>3, <1>4 DEF DownInv
<1>16. crashes' \in Nat
  <2>1. crashes \in Nat BY DEF LogInv, TypeOK
  <2> QED BY <1>3, <2>1
<1>17. Closed(Full(l)) => Closed(l.disk) BY <1>1, ClosedCut
<1> QED BY <1>3, <1>4, <1>5, <1>7, <1>9, <1>12, <1>13, <1>14, <1>15, <1>16, <1>17


-----------------------------------------------------------------------------
(* Every step keeps the invariant.                                         *)

Indexes == [lastSeq : Nat, running : BOOLEAN]

\* What the invariant says, part by part.
LEMMA Facts ==
  ASSUME LogInv
  PROVE  /\ Sound(log) /\ log \in Logs /\ Full(log) \in Seq(Events)
         /\ index \in Indexes /\ run \in {"none", "running", "aborted"} /\ agent \in BOOLEAN
         /\ load \in Loads /\ viewer \in [Viewers -> ViewerStates]
         /\ up \in BOOLEAN /\ crashes \in Nat /\ torn \in BOOLEAN
         /\ \A v \in Viewers : viewer[v] \in ViewerStates /\ Served(viewer[v], log)
         /\ up => (index.running <=> run = "running")
         /\ up /\ run # "running" /\ ~torn => Closed(Full(log))
         /\ ~up /\ ~torn => index.running \/ Closed(Full(log))
<1>1. log \in Logs /\ Sound(log) BY DEF LogInv, ServiceInv, Sound
<1>2. TypeOK BY DEF LogInv
<1>3. \A v \in Viewers : viewer[v] \in ViewerStates /\ Served(viewer[v], log)
  BY <1>2, ViewerType DEF LogInv, ServiceInv
<1>4. /\ up => (index.running <=> run = "running")
      /\ up /\ run # "running" /\ ~torn => Closed(Full(log))
      /\ ~up /\ ~torn => index.running \/ Closed(Full(log))
  BY DEF LogInv, RunInv
<1> QED BY <1>1, <1>2, <1>3, <1>4, FullIs DEF TypeOK, Indexes

\* A step of a process that goes on keeps the invariant when it keeps these.
LEMMA Alive ==
  ASSUME LogInv, up' = TRUE, ServiceInv',
         index' \in Indexes, run' \in {"none", "running", "aborted"}, agent' \in BOOLEAN,
         load' \in Loads, viewer' \in [Viewers -> ViewerStates],
         UNCHANGED <<crashes, torn>>,
         index'.running <=> run' = "running",
         torn \/ run' = "running" \/ Closed(Full(log'))
  PROVE  LogInv'
<1>1. log' \in Logs /\ Len(log'.events) <= MaxEvents
  BY SoundIs DEF ServiceInv
<1>2. TypeOK' BY <1>1, Facts DEF TypeOK, Indexes
<1>3. DownInv' BY DEF DownInv
<1>4. RunInv' BY DEF RunInv
<1> QED BY <1>2, <1>3, <1>4 DEF LogInv

\* So does a death, when the record or the log knows of the run.
LEMMA Dead ==
  ASSUME LogInv, NEW l, Sound(l), Die(l),
         index' \in Indexes, torn' \in BOOLEAN,
         torn' \/ index'.running \/ Closed(Full(l))
  PROVE  LogInv'
<1>1. /\ ServiceInv' /\ DownInv'
      /\ log' \in Logs /\ Len(log'.events) <= MaxEvents
      /\ run' \in {"none", "running", "aborted"} /\ agent' \in BOOLEAN
      /\ load' \in Loads /\ viewer' \in [Viewers -> ViewerStates]
      /\ up' = FALSE /\ crashes' \in Nat
      /\ Closed(Full(l)) => Closed(Full(log'))
  BY DieServes
<1>2. TypeOK' BY <1>1 DEF TypeOK, Indexes
<1>3. RunInv' BY <1>1 DEF RunInv
<1> QED BY <1>1, <1>2, <1>3 DEF LogInv

\* What persistRecord writes.
LEMMA RecordIs ==
  ASSUME NEW l \in Logs, persistRecord(l)
  PROVE  index' \in Indexes /\ (index'.running <=> run' = "running")
<1>1. l.recSeq \in Nat BY DEF Logs
<1>2. index' = [lastSeq |-> l.recSeq, running |-> run' = "running"] BY DEF persistRecord
<1> QED BY <1>1, <1>2 DEF Indexes

\* One event appended, and hook results trimmed or not.
LEMMA OneMore ==
  ASSUME LogInv, NEW kind \in Kinds, NEW l,
         l = Put(log, kind) \/ l = Trimmed(Put(log, kind))
  PROVE  /\ Sound(l) /\ Grown(log, l) /\ l \in Logs
         /\ kind = "end" => Closed(Full(l))
         /\ kind # "start" /\ Closed(Full(log)) => Closed(Full(l))
<1>1. Sound(log) /\ log \in Logs /\ Full(log) \in Seq(Events) BY Facts
<1> DEFINE a == Put(log, kind)
<1>0. Sound(a) /\ Grown(log, a) /\ Full(a) = Append(Full(log), NextEvent(log, kind))
  BY <1>1, PutSound
<1> HIDE DEF a
<1>2. Sound(l) /\ Grown(log, l) /\ Full(l) = Append(Full(log), NextEvent(log, kind))
  <2>1. CASE l = a BY <1>0, <2>1
  <2>2. CASE l = Trimmed(a)
    <3>1. Sound(l) /\ Grown(a, l) /\ Full(l) = Full(a) BY <1>0, <2>2, TrimSound
    <3>2. a \in Logs /\ l \in Logs BY <1>0, <3>1, SoundIs
    <3> QED BY <1>0, <1>1, <3>1, <3>2, GrownTwice
  <2> QED BY <2>1, <2>2 DEF a
<1>3. NextEvent(log, kind) \in Events
  <2>1. log.seq + 1 \in Nat /\ log.made + 1 \in Nat BY <1>1 DEF Logs
  <2> QED BY <2>1 DEF NextEvent, Events
<1>4. NextEvent(log, kind).kind = kind BY DEF NextEvent
<1> QED BY <1>1, <1>2, <1>3, <1>4, ClosedAppend, SoundIs

\* run() keeps the invariant.
LEMMA RunKeeps ==
  ASSUME LogInv, NEW crowded \in BOOLEAN, Run(crowded)
  PROVE  LogInv'
<1> DEFINE a == Ensured(log, crowded)
           b == Put(a, "critical")
           l == Put(b, "start")
<1>1. Sound(log) /\ log \in Logs /\ torn \in BOOLEAN /\ index \in Indexes BY Facts
<1>2. Sound(a) /\ Grown(log, a) BY <1>1, EnsuredSound
<1> HIDE DEF a
<1>3. Sound(b) /\ Grown(a, b) BY <1>2, PutSound DEF Kinds
<1> HIDE DEF b
<1>4. Sound(l) /\ Grown(b, l) BY <1>3, PutSound DEF Kinds
<1> HIDE DEF l
<1>5. a \in Logs /\ b \in Logs /\ l \in Logs BY <1>2, <1>3, <1>4, SoundIs
<1>6. Grown(log, b) BY <1>1, <1>2, <1>3, <1>5, GrownTwice
<1>7. Grown(log, l) BY <1>1, <1>4, <1>5, <1>6, GrownTwice
<1>8. /\ up
      /\ \/ run' = "running" /\ agent' = TRUE /\ Saves(l)
         \/ Die(l) /\ torn' = TRUE /\ UNCHANGED index
  BY DEF Run, l, b, a
<1>9. CASE run' = "running" /\ agent' = TRUE /\ Saves(l)
  <2>1. Appends(l) /\ persistRecord(l) BY <1>9 DEF Saves
  <2>2. /\ log' = l /\ ServiceInv' /\ viewer' \in [Viewers -> ViewerStates]
        /\ UNCHANGED <<load, up, crashes, torn>>
    BY <1>4, <1>7, <2>1, AppendsServe
  <2>3. index' \in Indexes /\ (index'.running <=> run' = "running") BY <1>5, <2>1, RecordIs
  <2>4. load' \in Loads BY <2>2, Facts
  <2>5. up' = TRUE BY <1>8, <2>2, Facts
  <2> QED BY <1>9, <2>2, <2>3, <2>4, <2>5, Alive
<1>10. CASE Die(l) /\ torn' = TRUE /\ UNCHANGED index
  BY <1>1, <1>4, <1>10, Dead
<1> QED BY <1>8, <1>9, <1>10

\* The handlers that append one event and save or do not.
LEMMA AppendsKeeps ==
  ASSUME LogInv, up, NEW kind \in Kinds, NEW l,
         l = Put(log, kind) \/ l = Trimmed(Put(log, kind)), Appends(l),
         run' \in {"none", "running", "aborted"}, UNCHANGED agent,
         persistRecord(l) \/ UNCHANGED <<index, run>>,
         kind = "end" \/ (kind # "start" /\ UNCHANGED run)
  PROVE  LogInv'
<1>1. /\ Sound(l) /\ Grown(log, l) /\ l \in Logs
      /\ kind = "end" => Closed(Full(l))
      /\ kind # "start" /\ Closed(Full(log)) => Closed(Full(l))
  BY OneMore
<1>2. /\ log' = l /\ ServiceInv' /\ viewer' \in [Viewers -> ViewerStates]
      /\ UNCHANGED <<load, up, crashes, torn>>
  BY <1>1, AppendsServe
<1>3. index' \in Indexes /\ (index'.running <=> run' = "running")
  <2>1. CASE persistRecord(l) BY <1>1, <2>1, RecordIs
  <2>2. CASE UNCHANGED <<index, run>> BY <2>2, Facts
  <2> QED BY <2>1, <2>2
<1>4. torn \/ run' = "running" \/ Closed(Full(log')) BY <1>1, <1>2, Facts
<1>5. up' = TRUE /\ load' \in Loads /\ agent' \in BOOLEAN BY <1>2, Facts
<1> QED BY <1>2, <1>3, <1>4, <1>5, Alive

\* A death in a handler that appends one event,
LEMMA DiesKeeps ==
  ASSUME LogInv, up, NEW kind \in Kinds \ {"start"}, Dies(Put(log, kind))
  PROVE  LogInv'
<1> DEFINE l == Put(log, kind)
<1>1. /\ Sound(l)
      /\ Closed(Full(log)) => Closed(Full(l))
  BY OneMore
<1>2. Die(l) /\ UNCHANGED <<index, torn>> BY DEF Dies
<1> HIDE DEF l
<1>3. torn \/ index.running \/ Closed(Full(l)) BY <1>1, Facts
<1>4. index' \in Indexes /\ torn' \in BOOLEAN BY <1>2, Facts
<1> QED BY <1>1, <1>2, <1>3, <1>4, Dead

\* and the handlers that append one.
LEMMA HandlersKeep ==
  ASSUME LogInv,
         \/ \E kind \in {"critical", "chatter"} : emit(kind)
         \/ emitHookResult \/ setDomain \/ abort \/ settle
  PROVE  LogInv'
<1>1. ASSUME NEW kind \in {"critical", "chatter"}, emit(kind) PROVE LogInv'
  <2> DEFINE l == Put(log, kind)
  <2>1. /\ up /\ Appends(l) /\ UNCHANGED <<run, agent>>
        /\ UNCHANGED index \/ persistRecord(log')
    BY <1>1 DEF emit
  <2>2. log' = l BY <2>1 DEF Appends
  <2>3. persistRecord(l) \/ UNCHANGED <<index, run>> BY <2>1, <2>2
  <2>4. kind \in Kinds /\ kind # "start" BY DEF Kinds
  <2>5. run' \in {"none", "running", "aborted"} BY <2>1, Facts
  <2> HIDE DEF l
  <2>6. l = Put(log, kind) BY DEF l
  <2> QED BY <2>1, <2>3, <2>4, <2>5, <2>6, AppendsKeeps
<1>2. ASSUME setDomain PROVE LogInv'
  <2> DEFINE l == Put(log, "chatter")
  <2>1. up /\ ((Saves(l) /\ UNCHANGED <<run, agent>>) \/ Dies(l)) BY <1>2 DEF setDomain
  <2>2. "chatter" \in Kinds \ {"start"} BY DEF Kinds
  <2>3. CASE Dies(l) BY <2>1, <2>2, <2>3, DiesKeeps
  <2>4. CASE Saves(l) /\ UNCHANGED <<run, agent>>
    <3>1. Appends(l) /\ persistRecord(l) BY <2>4 DEF Saves
    <3>2. run' \in {"none", "running", "aborted"} BY <2>4, Facts
    <3> HIDE DEF l
    <3>3. l = Put(log, "chatter") BY DEF l
    <3> QED BY <2>1, <2>2, <2>4, <3>1, <3>2, <3>3, AppendsKeeps
  <2> QED BY <2>1, <2>3, <2>4
<1>3. ASSUME NEW s, s \in {"none", "running", "aborted"}, up,
             run' = s /\ Saves(Put(log, "end")) /\ UNCHANGED agent
      PROVE  LogInv'
  <2> DEFINE l == Put(log, "end")
  <2>1. Appends(l) /\ persistRecord(l) BY <1>3 DEF Saves
  <2>2. "end" \in Kinds BY DEF Kinds
  <2>3. run' \in {"none", "running", "aborted"} BY <1>3
  <2> HIDE DEF l
  <2>4. l = Put(log, "end") BY DEF l
  <2> QED BY <1>3, <2>1, <2>2, <2>3, <2>4, AppendsKeeps
<1>4. ASSUME up, Dies(Put(log, "end")) PROVE LogInv'
  <2>1. "end" \in Kinds \ {"start"} BY DEF Kinds
  <2> QED BY <1>4, <2>1, DiesKeeps
<1>5. ASSUME abort PROVE LogInv'
  <2>1. /\ up
        /\ \/ /\ run' = IF run = "running" THEN "aborted" ELSE run
              /\ Saves(Put(log, "end")) /\ UNCHANGED agent
           \/ Dies(Put(log, "end"))
    BY <1>5 DEF abort
  <2>2. (IF run = "running" THEN "aborted" ELSE run) \in {"none", "running", "aborted"} BY Facts
  <2> QED BY <1>3, <1>4, <2>1, <2>2
<1>6. ASSUME settle PROVE LogInv'
  <2>1. CASE up /\ run' = "none" /\ UNCHANGED agent /\ Saves(Put(log, "end"))
    BY <1>3, <2>1
  <2>2. CASE up /\ Dies(Put(log, "end")) BY <1>4, <2>2
  <2>3. CASE /\ up /\ run = "aborted" /\ run' = "none"
             /\ UNCHANGED <<log, index, agent, load, viewer, up, crashes, torn>>
    <3>1. Grown(log, log)
      <4>1. log \in Logs BY Facts
      <4>2. log.seq <= log.seq BY <4>1 DEF Logs
      <4> QED BY <4>1, <4>2, SameIsGrown
    <3>2. Sound(log) BY Facts
    <3>3. ServiceInv' BY <2>3, <3>1, <3>2, QuietServes
    <3>4. /\ index' \in Indexes /\ agent' \in BOOLEAN /\ load' \in Loads
          /\ viewer' \in [Viewers -> ViewerStates]
          /\ ~index'.running /\ up' = TRUE
          /\ torn \/ Closed(Full(log'))
      BY <2>3, Facts
    <3> QED BY <2>3, <3>3, <3>4, Alive
  <2> QED BY <1>6, <2>1, <2>2, <2>3 DEF settle
<1>7. ASSUME emitHookResult PROVE LogInv'
  <2> DEFINE l == Trimmed(Put(log, "hook"))
  <2>1. up /\ Appends(l) /\ UNCHANGED <<index, run, agent>> BY <1>7 DEF emitHookResult
  <2>2. "hook" \in Kinds BY DEF Kinds
  <2>3. run' \in {"none", "running", "aborted"} BY <2>1, Facts
  <2> HIDE DEF l
  <2>4. l = Trimmed(Put(log, "hook")) BY DEF l
  <2> QED BY <2>1, <2>2, <2>3, <2>4, AppendsKeeps
<1> QED BY <1>1, <1>2, <1>5, <1>6, <1>7


\* The steps that change what is in memory or on disk, and not the log.
LEMMA StillKeeps ==
  ASSUME LogInv, up, Sound(log'), Grown(log, log'), Full(log') = Full(log),
         agent' \in BOOLEAN, UNCHANGED <<index, run, load, viewer, up, crashes, torn>>
  PROVE  LogInv'
<1>1. ServiceInv' BY QuietServes
<1>2. /\ index' \in Indexes /\ run' \in {"none", "running", "aborted"} /\ load' \in Loads
      /\ viewer' \in [Viewers -> ViewerStates]
      /\ index'.running <=> run' = "running"
      /\ up' = TRUE
      /\ torn \/ run' = "running" \/ Closed(Full(log'))
  BY Facts
<1> QED BY <1>1, <1>2, Alive

\* A log has grown from itself.
LEMMA SelfGrown ==
  ASSUME LogInv
  PROVE  Grown(log, log)
<1>1. log \in Logs BY Facts
<1>2. log.seq <= log.seq BY <1>1 DEF Logs
<1> QED BY <1>1, <1>2, SameIsGrown

\* Evictions, flushes and synchronous loads.
LEMMA MemoryKeeps ==
  ASSUME LogInv,
         \/ sweepIdleAgents \/ evictLoadedBeyondCap \/ flushAll
         \/ \E crowded \in BOOLEAN : getEvents(crowded)
  PROVE  LogInv'
<1>1. Sound(log) BY Facts
<1>2. ASSUME sweepIdleAgents PROVE LogInv'
  <2>1. /\ up /\ agent' = FALSE
        /\ UNCHANGED <<log, index, run, load, viewer, up, crashes, torn>>
    BY <1>2 DEF sweepIdleAgents
  <2> QED BY <1>1, <2>1, SelfGrown, StillKeeps
<1>3. ASSUME evictLoadedBeyondCap PROVE LogInv'
  <2>1. /\ up /\ log' = Unloaded(log)
        /\ UNCHANGED <<index, run, agent, load, viewer, up, crashes, torn>>
    BY <1>3 DEF evictLoadedBeyondCap
  <2>2. Sound(log') /\ Grown(log, log') /\ Full(log') = Full(log)
    BY <1>1, <2>1, UnloadedSound
  <2>3. agent' \in BOOLEAN BY <2>1, Facts
  <2> QED BY <2>1, <2>2, <2>3, StillKeeps
<1>4. ASSUME flushAll PROVE LogInv'
  <2>1. /\ up /\ log' = Flush(log)
        /\ UNCHANGED <<index, run, agent, load, viewer, up, crashes, torn>>
    BY <1>4 DEF flushAll
  <2>2. Sound(log') /\ Grown(log, log') /\ Full(log') = Full(log)
    BY <1>1, <2>1, FlushSound
  <2>3. agent' \in BOOLEAN BY <2>1, Facts
  <2> QED BY <2>1, <2>2, <2>3, StillKeeps
<1>5. ASSUME NEW crowded \in BOOLEAN, getEvents(crowded) PROVE LogInv'
  <2>1. /\ up /\ log' = Ensured(log, crowded)
        /\ UNCHANGED <<index, run, agent, load, viewer, up, crashes, torn>>
    BY <1>5 DEF getEvents
  <2>2. Sound(log') /\ Grown(log, log') /\ Full(log') = Full(log)
    BY <1>1, <2>1, EnsuredSound
  <2>3. agent' \in BOOLEAN BY <2>1, Facts
  <2> QED BY <2>1, <2>2, <2>3, StillKeeps
<1> QED BY <1>2, <1>3, <1>4, <1>5

\* The steps of the stream handlers.
LEMMA StreamKeeps ==
  ASSUME LogInv, up, Sound(log'), Full(log') = Full(log),
         load' \in Loads, load'.phase = "parsing" => Parsed(log', load'.evs),
         viewer' \in [Viewers -> ViewerStates],
         \A v \in Viewers : Served(viewer'[v], log'),
         UNCHANGED <<index, run, agent, up, crashes, torn>>
  PROVE  LogInv'
<1>1. ServiceInv' BY DEF ServiceInv
<1>2. /\ index' \in Indexes /\ run' \in {"none", "running", "aborted"} /\ agent' \in BOOLEAN
      /\ index'.running <=> run' = "running"
      /\ up' = TRUE
      /\ torn \/ run' = "running" \/ Closed(Full(log'))
  BY Facts
<1> QED BY <1>1, <1>2, Alive

\* One viewer goes on, the others see the log as it is now.
LEMMA OneViewer ==
  ASSUME LogInv, up, Sound(log'), Grown(log, log'), Full(log') = Full(log),
         load' \in Loads, load'.phase = "parsing" => Parsed(log', load'.evs),
         NEW v \in Viewers, NEW c \in ViewerStates, Served(c, log'),
         viewer' = [viewer EXCEPT ![v] = c],
         UNCHANGED <<index, run, agent, up, crashes, torn>>
  PROVE  LogInv'
<1>1. log \in Logs /\ log' \in Logs BY Facts, SoundIs
<1>2. viewer \in [Viewers -> ViewerStates] BY Facts
<1>3. viewer' \in [Viewers -> ViewerStates] BY <1>2
<1>4. ASSUME NEW x \in Viewers PROVE Served(viewer'[x], log')
  <2>1. CASE x = v
    <3>1. viewer'[x] = c BY <1>2, <2>1
    <3> QED BY <3>1
  <2>2. CASE x # v
    <3>1. viewer'[x] = viewer[x] BY <1>2, <2>2
    <3>2. viewer[x] \in ViewerStates /\ Served(viewer[x], log) BY Facts
    <3>3. Served(viewer[x], log') BY <1>1, <3>2, ServedStays
    <3> QED BY <3>1, <3>3
  <2> QED BY <2>1, <2>2
<1> QED BY <1>3, <1>4, StreamKeeps

\* The parser's text stays the start of the log.
LEMMA ParsedStays ==
  ASSUME LogInv, Sound(log'), Grown(log, log'), load' = load
  PROVE  load' \in Loads /\ (load'.phase = "parsing" => Parsed(log', load'.evs))
<1>1. log \in Logs /\ log' \in Logs /\ load \in Loads BY Facts, SoundIs
<1>2. ASSUME load.phase = "parsing" PROVE Parsed(log', load.evs)
  <2>1. Parsed(log, load.evs) BY <1>2 DEF LogInv, ServiceInv
  <2>2. load.evs \in Seq(Events) BY <1>1 DEF Loads
  <2> QED BY <1>1, <2>1, <2>2, ParsedGrows
<1> QED BY <1>1, <1>2

\* A stream is opened.
LEMMA OpenKeeps ==
  ASSUME LogInv, NEW v \in Viewers, NEW since \in Since, NEW crowded \in BOOLEAN,
         open(v, since, crowded)
  PROVE  LogInv'
<1> DEFINE w == [Gone EXCEPT !.phase = "loading", !.since = since]
           l == Touched(log, crowded)
<1>1. /\ up /\ UNCHANGED <<index, run, agent, up, crashes, torn>>
      /\ \/ /\ log.loaded /\ log' = l
            /\ viewer' = [viewer EXCEPT ![v] = Replay(w, l)]
            /\ UNCHANGED load
         \/ /\ ~log.loaded
            /\ viewer' = [viewer EXCEPT ![v] = w]
            /\ \/ load.phase # "none" /\ UNCHANGED <<log, load>>
               \/ /\ load.phase = "none" /\ log' = Flush(log)
                  /\ load' = [phase |-> "reading", evs |-> <<>>]
  BY DEF open
<1>2. Sound(log) /\ log \in Logs BY Facts
<1>3. since \in Nat BY BoundsAssumption
<1>4. /\ w \in ViewerStates /\ w.phase = "loading" /\ w.deferred = <<>> /\ w.got = <<>>
      /\ w.upTo = 0
  BY <1>3, NoneIs DEF Gone, ViewerStates
<1> HIDE DEF w
<1>5. Sound(l) /\ Grown(log, l) /\ Full(l) = Full(log)
      /\ (log.loaded => l.loaded \/ l.events = <<>>)
  BY <1>2, TouchedSound
<1> HIDE DEF l
<1>6. CASE /\ log.loaded /\ log' = l
           /\ viewer' = [viewer EXCEPT ![v] = Replay(w, l)]
           /\ UNCHANGED load
  <2> DEFINE c == Replay(w, l)
  <2>1. c \in ViewerStates /\ Served(c, log') BY <1>4, <1>5, <1>6, ReplayServes
  <2>2. load' \in Loads /\ (load'.phase = "parsing" => Parsed(log', load'.evs))
    BY <1>5, <1>6, ParsedStays
  <2>3. viewer' = [viewer EXCEPT ![v] = c] BY <1>6
  <2> HIDE DEF c
  <2> QED BY <1>1, <1>5, <1>6, <2>1, <2>2, <2>3, OneViewer
<1>7. ASSUME NEW m \in Logs PROVE Served(w, m)
  <2>1. 0 <= m.seq BY DEF Logs
  <2> QED BY <1>4, <2>1, NoneIs DEF Served
<1>8. CASE /\ viewer' = [viewer EXCEPT ![v] = w]
           /\ load.phase # "none" /\ UNCHANGED <<log, load>>
  <2>1. Sound(log') /\ Grown(log, log') /\ Full(log') = Full(log)
    BY <1>2, <1>8, SelfGrown
  <2>2. load' \in Loads /\ (load'.phase = "parsing" => Parsed(log', load'.evs))
    BY <1>8, <2>1, ParsedStays
  <2>3. Served(w, log') BY <1>2, <1>7, <1>8
  <2> QED BY <1>1, <1>4, <1>8, <2>1, <2>2, <2>3, OneViewer
<1>9. CASE /\ viewer' = [viewer EXCEPT ![v] = w]
           /\ log' = Flush(log) /\ load' = [phase |-> "reading", evs |-> <<>>]
  <2>1. Sound(log') /\ Grown(log, log') /\ Full(log') = Full(log) BY <1>2, <1>9, FlushSound
  <2>2. load' \in Loads /\ load'.phase # "parsing" BY <1>9, NoneIs DEF Loads
  <2>3. Served(w, log') BY <1>7, <2>1, SoundIs
  <2> QED BY <1>1, <1>4, <1>9, <2>1, <2>2, <2>3, OneViewer
<1> QED BY <1>1, <1>6, <1>8, <1>9

\* The file has been read.
LEMMA ReadKeeps ==
  ASSUME LogInv, readFile
  PROVE  LogInv'
<1>1. /\ up /\ load' = [phase |-> "parsing", evs |-> log.disk]
      /\ UNCHANGED <<log, index, run, agent, viewer, up, crashes, torn>>
  BY DEF readFile
<1>2. Sound(log) /\ log \in Logs /\ viewer \in [Viewers -> ViewerStates] BY Facts
<1> DEFINE f == Full(log)
           d == log.disk
           b == log.buffer
<1>3. /\ f \in Seq(Events) /\ d \in Seq(Events) /\ b \in Seq(Events)
      /\ Len(f) = Len(d) + Len(b)
      /\ \A i \in 1..Len(d) : f[i] = d[i]
      /\ \A i \in 1..Len(b) : f[Len(d) + i] = b[i]
  BY <1>2, FullIs
<1>4. UpTo(b, log.seq) BY <1>2, SoundIs
<1>5. load' \in Loads /\ load'.evs = d BY <1>1, <1>3 DEF Loads
<1>6. Parsed(log, d)
  <2>1. Parsed(log, d) <=>
          /\ Len(d) <= Len(f)
          /\ \A i \in 1..Len(d) : d[i] = f[i]
          /\ \A i \in DOMAIN f : i > Len(d) => f[i].seq <= log.seq
    BY DEF Parsed
  <2> HIDE DEF f, d, b
  <2>2. Len(d) \in Nat /\ Len(b) \in Nat /\ DOMAIN f = 1..Len(f) /\ DOMAIN b = 1..Len(b)
    BY <1>3
  <2>3. ASSUME NEW i \in DOMAIN f, i > Len(d) PROVE f[i].seq <= log.seq
    <3>1. i - Len(d) \in 1..Len(b) /\ Len(d) + (i - Len(d)) = i BY <1>3, <2>2, <2>3
    <3>2. f[i] = b[i - Len(d)] BY <1>3, <3>1
    <3> QED BY <1>4, <2>2, <3>1, <3>2 DEF UpTo
  <2>4. Len(d) <= Len(f) BY <1>3, <2>2
  <2> QED BY <1>3, <2>1, <2>3, <2>4
<1>7. /\ load'.phase = "parsing" => Parsed(log', load'.evs)
      /\ Sound(log') /\ Full(log') = Full(log) /\ viewer' \in [Viewers -> ViewerStates]
      /\ \A v \in Viewers : Served(viewer'[v], log')
  BY <1>1, <1>2, <1>5, <1>6, Facts
<1> QED BY <1>1, <1>5, <1>7, StreamKeeps

\* The load ends and its handlers replay.
LEMMA LoadedKeeps ==
  ASSUME LogInv, NEW crowded \in BOOLEAN, Loaded(crowded)
  PROVE  LogInv'
<1> DEFINE a == IF log.loaded THEN log ELSE Adopt(log, load.evs)
<1>1. /\ up /\ load.phase = "parsing" /\ load' = NoLoad
      /\ log' = Touched(a, crowded)
      /\ viewer' = [v \in Viewers |->
           IF viewer[v].phase = "loading" THEN Replay(viewer[v], log') ELSE viewer[v]]
      /\ UNCHANGED <<index, run, agent, up, crashes, torn>>
  BY DEF Loaded
<1>2. Sound(log) /\ log \in Logs /\ load \in Loads BY Facts
<1>3. load.evs \in Seq(Events) BY <1>2 DEF Loads
<1>4. Parsed(log, load.evs) BY <1>1 DEF LogInv, ServiceInv
<1>5. Sound(a) /\ Grown(log, a) /\ Full(a) = Full(log) /\ a.loaded
  <2>1. CASE log.loaded BY <1>2, <2>1, SelfGrown
  <2>2. CASE ~log.loaded
    <3>1. a = Adopt(log, load.evs) BY <2>2
    <3> HIDE DEF a
    <3> QED BY <1>2, <1>3, <1>4, <3>1, AdoptSound
  <2> QED BY <2>1, <2>2
<1> HIDE DEF a
<1>6. /\ Sound(log') /\ Grown(a, log') /\ Full(log') = Full(log)
      /\ log'.loaded \/ log'.events = <<>>
  BY <1>1, <1>5, TouchedSound
<1>7. a \in Logs /\ log' \in Logs BY <1>5, <1>6, SoundIs
<1>8. Grown(log, log') BY <1>2, <1>5, <1>6, <1>7, GrownTwice
<1>9. ASSUME NEW v \in Viewers
      PROVE  viewer'[v] \in ViewerStates /\ Served(viewer'[v], log')
  <2>1. viewer[v] \in ViewerStates /\ Served(viewer[v], log) BY Facts
  <2>2. CASE viewer[v].phase = "loading"
    <3>1. viewer'[v] = Replay(viewer[v], log') BY <1>1, <2>2
    <3>2. viewer[v].deferred = <<>> BY <2>1, <2>2 DEF Served
    <3> QED BY <1>6, <2>1, <2>2, <3>1, <3>2, ReplayServes
  <2>3. CASE viewer[v].phase # "loading"
    <3>1. viewer'[v] = viewer[v] BY <1>1, <2>3
    <3>2. Served(viewer[v], log') BY <1>2, <1>6, <1>7, <1>8, <2>1, ServedStays
    <3> QED BY <2>1, <3>1, <3>2
  <2> QED BY <2>2, <2>3
<1>10. viewer' \in [Viewers -> ViewerStates]
  <2>1. viewer' = [v \in Viewers |-> viewer'[v]] BY <1>1
  <2> QED BY <1>9, <2>1
<1>11. load' \in Loads /\ load'.phase # "parsing" BY <1>1, NoneIs DEF NoLoad, Loads
<1> QED BY <1>1, <1>6, <1>9, <1>10, <1>11, StreamKeeps

\* A handler catches up, forwards, or goes away.
LEMMA ViewerKeeps ==
  ASSUME LogInv, NEW v \in Viewers, subscribe(v) \/ drain(v) \/ leave(v)
  PROVE  LogInv'
<1> DEFINE w == viewer[v]
<1>1. Sound(log) /\ log \in Logs /\ w \in ViewerStates /\ Served(w, log) BY Facts
<1>2. ASSUME subscribe(v) PROVE LogInv'
  <2> DEFINE a == [w EXCEPT !.phase = "catching", !.whole = @ /\ ~log'.stale]
             c == sendCatchup(a, After(log'.events, a.upTo))
  <2>1. /\ up /\ w.phase = "replaying" /\ log' = Ensured(log, FALSE)
        /\ viewer' = [viewer EXCEPT ![v] = c]
        /\ UNCHANGED <<index, run, agent, load, up, crashes, torn>>
    BY <1>2 DEF subscribe
  <2>2. Sound(log') /\ Grown(log, log') /\ Full(log') = Full(log) /\ log'.loaded
    BY <1>1, <2>1, EnsuredSound
  <2>3. log' \in Logs /\ log'.stale \in BOOLEAN
    <3>1. log' \in Logs BY <2>2, SoundIs
    <3> QED BY <3>1 DEF Logs
  <2>4. a \in ViewerStates /\ a.upTo = w.upTo BY <1>1, <2>3 DEF ViewerStates
  <2>5. Served(w, log') BY <1>1, <2>1, <2>2, <2>3, ServedStays
  <2>6. a = [w EXCEPT !.phase = "catching", !.whole = @ /\ ~log'.stale] OBVIOUS
  <2>7. c = sendCatchup(a, After(log'.events, w.upTo)) BY <2>4
  <2> HIDE DEF a, c, w
  <2>8. c \in ViewerStates /\ Served(c, log')
    BY <1>1, <2>1, <2>2, <2>4, <2>5, <2>6, <2>7, SubscribeServes
  <2>9. load' \in Loads /\ (load'.phase = "parsing" => Parsed(log', load'.evs))
    BY <2>1, <2>2, ParsedStays
  <2> QED BY <2>1, <2>2, <2>8, <2>9, OneViewer
<1>3. ASSUME UNCHANGED <<log, index, run, agent, load, up, crashes, torn>>, up,
             NEW c \in ViewerStates, Served(c, log), viewer' = [viewer EXCEPT ![v] = c]
      PROVE  LogInv'
  <2>1. Sound(log') /\ Grown(log, log') /\ Full(log') = Full(log) BY <1>1, <1>3, SelfGrown
  <2>2. load' \in Loads /\ (load'.phase = "parsing" => Parsed(log', load'.evs))
    BY <1>3, <2>1, ParsedStays
  <2> QED BY <1>3, <2>1, <2>2, OneViewer
<1>4. ASSUME drain(v) PROVE LogInv'
  <2> DEFINE c == IF w.deferred = <<>> THEN [w EXCEPT !.phase = "live"]
                  ELSE sendCatchup([w EXCEPT !.deferred = <<>>], w.deferred)
  <2>1. /\ up /\ w.phase = "catching"
        /\ viewer' = [viewer EXCEPT ![v] = c]
        /\ UNCHANGED <<log, index, run, agent, load, up, crashes, torn>>
    BY <1>4 DEF drain
  <2>2. c \in ViewerStates /\ Served(c, log)
    <3>1. c = IF w.deferred = <<>> THEN [w EXCEPT !.phase = "live"]
              ELSE sendCatchup([w EXCEPT !.deferred = <<>>], w.deferred)
      OBVIOUS
    <3> HIDE DEF c, w
    <3> QED BY <1>1, <2>1, <3>1, DrainServes
  <2> HIDE DEF c
  <2> QED BY <1>3, <2>1, <2>2
<1>5. ASSUME leave(v) PROVE LogInv'
  <2>1. /\ w.phase \in {"replaying", "catching", "live"}
        /\ viewer' = [viewer EXCEPT ![v] = Gone]
        /\ UNCHANGED <<log, index, run, agent, load, up, crashes, torn>>
    BY <1>5 DEF leave
  <2>2. up
    <3>1. up \in BOOLEAN BY Facts
    <3>2. ~up => w = Gone BY DEF LogInv, DownInv
    <3> QED BY <2>1, <3>1, <3>2 DEF Gone
  <2>3. Gone \in ViewerStates /\ Served(Gone, log) BY <1>1, GoneServed
  <2> QED BY <1>3, <2>1, <2>2, <2>3
<1> QED BY <1>2, <1>4, <1>5


\* The index gives the next process its seq; it may be behind the log.
LEMMA RestartSound ==
  ASSUME LogInv, ~up, NEW l,
         l = [log EXCEPT !.seq = index.lastSeq, !.recSeq = index.lastSeq]
  PROVE  Sound(l) /\ ~l.loaded /\ Full(l) = Full(log) /\ l \in Logs
<1>1. /\ Sound(log) /\ log \in Logs /\ index \in Indexes BY Facts
<1>2. log.buffer = <<>> /\ ~log.loaded BY DEF LogInv, DownInv
<1>3. index.lastSeq \in Nat BY <1>1 DEF Indexes
<1>4. l \in Logs BY <1>1, <1>3 DEF Logs
<1>5. /\ l.events = log.events /\ l.loaded = log.loaded /\ l.made = log.made
      /\ l.disk = log.disk /\ l.buffer = log.buffer
  BY <1>1 DEF Logs
<1>6. Full(l) = Full(log) BY <1>5 DEF Full
<1>7. Numbered(l) BY <1>1, <1>5, <1>6 DEF Sound, Numbered
<1>8. Len(l.events) <= MaxEvents BY <1>1, <1>5 DEF Sound
<1>9. Sound(l) BY <1>2, <1>4, <1>5, <1>7, <1>8, NoneIs DEF Sound, BufferedOnly
<1> QED BY <1>2, <1>4, <1>5, <1>6, <1>9

\* The markers go to the end of the log.
LEMMA MarkersAre ==
  ASSUME LogInv, ~up, NEW l, NEW m,
         l = [log EXCEPT !.seq = index.lastSeq, !.recSeq = index.lastSeq],
         m = Stored(Stored(l, "end"), "chatter")
  PROVE  /\ Sound(m) /\ ~m.loaded /\ m \in Logs /\ Closed(Full(m))
         /\ Len(Full(log)) <= Len(Full(m))
         /\ \A i \in 1..Len(Full(log)) : Full(m)[i] = Full(log)[i]
<1> DEFINE a == Stored(l, "end")
           f == Full(log)
           d == NextEvent(l, "end")
           e == NextEvent(a, "chatter")
<1>1. Sound(l) /\ ~l.loaded /\ Full(l) = f /\ l \in Logs BY RestartSound
<1>2. Sound(a) /\ ~a.loaded /\ Full(a) = Append(f, d) BY <1>1, StoredSound DEF Kinds
<1>3. a \in Logs BY <1>2, SoundIs
<1>4. d \in Events /\ d.kind = "end"
  <2>1. l \in Logs BY <1>1
  <2>2. l.seq + 1 \in Nat /\ l.made + 1 \in Nat BY ONLY <2>1 DEF Logs
  <2> QED BY <2>2 DEF NextEvent, Events, Kinds
<1>5. e \in Events /\ e.kind = "chatter"
  <2> HIDE DEF a
  <2>1. a.seq + 1 \in Nat /\ a.made + 1 \in Nat BY <1>3 DEF Logs
  <2> QED BY <2>1 DEF NextEvent, Events, Kinds
<1> HIDE DEF d, e
<1>6. m = Stored(a, "chatter") OBVIOUS
<1> HIDE DEF a
<1>7. Sound(m) /\ ~m.loaded /\ Full(m) = Append(Full(a), e)
  BY <1>2, <1>6, StoredSound DEF Kinds, e
<1>8. f \in Seq(Events) BY Facts
<1> HIDE DEF f
<1>9. Full(m) = Append(Append(f, d), e) BY <1>2, <1>7
<1>10. Append(f, d) \in Seq(Events) BY <1>4, <1>8
<1>11. Closed(Append(f, d)) BY <1>4, <1>8, ClosedAppend
<1>12. Closed(Full(m)) BY <1>5, <1>9, <1>10, <1>11, ClosedAppend
<1>13. Len(f) <= Len(Append(Append(f, d), e))
       /\ \A i \in 1..Len(f) : Append(Append(f, d), e)[i] = f[i]
  BY <1>4, <1>5, <1>8
<1> QED BY <1>7, <1>9, <1>12, <1>13, SoundIs DEF f

\* The process dies, closes or comes up.
LEMMA ProcessKeeps ==
  ASSUME LogInv, Crash \/ close \/ rehydrate
  PROVE  LogInv'
<1>1. ASSUME Crash PROVE LogInv'
  <2>1. up /\ Die(log) /\ UNCHANGED <<index, torn>> BY <1>1 DEF Crash, Dies
  <2>2. Sound(log) /\ (torn \/ index.running \/ Closed(Full(log))) BY <2>1, Facts
  <2>3. index' \in Indexes /\ torn' \in BOOLEAN BY <2>1, Facts
  <2> QED BY <2>1, <2>2, <2>3, Dead
<1>2. ASSUME close PROVE LogInv'
  <2> DEFINE l == Put(log, "end")
             m == Flush(l)
  <2>1. Die(m) /\ persistRecord(l) /\ UNCHANGED torn BY <1>2 DEF close
  <2>2. Sound(l) /\ l \in Logs /\ Closed(Full(l)) BY OneMore DEF Kinds
  <2> HIDE DEF l
  <2>3. Sound(m) /\ Full(m) = Full(l) BY <2>2, FlushSound
  <2> HIDE DEF m
  <2>4. index' \in Indexes BY <2>1, <2>2, RecordIs
  <2>5. torn' \in BOOLEAN BY <2>1, Facts
  <2> QED BY <2>1, <2>2, <2>3, <2>4, <2>5, Dead
<1>3. ASSUME rehydrate PROVE LogInv'
  <2> DEFINE l == [log EXCEPT !.seq = index.lastSeq, !.recSeq = index.lastSeq]
             m == Stored(Stored(l, "end"), "chatter")
  <2>1. /\ ~up
        /\ \/ /\ ~index.running /\ up' = TRUE /\ log' = l
              /\ UNCHANGED <<index, run, agent, load, viewer, crashes, torn>>
           \/ /\ up' = TRUE /\ log' = m
              /\ UNCHANGED <<run, agent, load, viewer, crashes, torn>>
              /\ persistRecord(m)
           \/ Dies(m)
    BY <1>3 DEF rehydrate
  <2>2. Sound(l) /\ Full(l) = Full(log) /\ l \in Logs BY <2>1, RestartSound
  <2>3. Sound(m) /\ m \in Logs /\ Closed(Full(m)) BY <2>1, MarkersAre
  <2> HIDE DEF l, m
  <2>4. /\ run = "none" /\ load = NoLoad /\ viewer = [v \in Viewers |-> Gone]
    BY <2>1 DEF LogInv, DownInv
  <2>5. ASSUME NEW k, Sound(k), log' = k, UNCHANGED <<load, viewer>> PROVE ServiceInv'
    <3>1. k \in Logs BY <2>5, SoundIs
    <3>2. \A v \in Viewers : Served(viewer'[v], k)
      <4>1. Served(Gone, k) BY <3>1, GoneServed
      <4> QED BY <2>4, <2>5, <4>1
    <3>3. load'.phase # "parsing" BY <2>4, <2>5 DEF NoLoad
    <3> QED BY <2>5, <3>2, <3>3 DEF ServiceInv
  <2>6. CASE /\ ~index.running /\ up' = TRUE /\ log' = l
             /\ UNCHANGED <<index, run, agent, load, viewer, crashes, torn>>
    <3>1. ServiceInv' BY <2>2, <2>5, <2>6
    <3>2. /\ index' \in Indexes /\ run' = "none" /\ agent' \in BOOLEAN
          /\ load' \in Loads /\ viewer' \in [Viewers -> ViewerStates]
          /\ ~index'.running
          /\ torn \/ Closed(Full(log'))
      BY <2>1, <2>2, <2>4, <2>6, Facts
    <3> QED BY <2>6, <3>1, <3>2, Alive
  <2>7. CASE /\ up' = TRUE /\ log' = m
             /\ UNCHANGED <<run, agent, load, viewer, crashes, torn>>
             /\ persistRecord(m)
    <3>1. ServiceInv' BY <2>3, <2>5, <2>7
    <3>2. index' \in Indexes /\ (index'.running <=> run' = "running") BY <2>3, <2>7, RecordIs
    <3>3. /\ run' = "none" /\ agent' \in BOOLEAN
          /\ load' \in Loads /\ viewer' \in [Viewers -> ViewerStates]
          /\ Closed(Full(log'))
      BY <2>3, <2>4, <2>7, Facts
    <3> QED BY <2>7, <3>1, <3>2, <3>3, Alive
  <2>8. CASE Dies(m)
    <3>1. Die(m) /\ UNCHANGED <<index, torn>> BY <2>8 DEF Dies
    <3>2. index' \in Indexes /\ torn' \in BOOLEAN BY <3>1, Facts
    <3> QED BY <2>3, <3>1, <3>2, Dead
  <2> QED BY <2>1, <2>6, <2>7, <2>8
<1> QED BY <1>1, <1>2, <1>3

\* The invariant holds of the empty log.
LEMMA LogInvInit == Init => LogInv
<1> SUFFICES ASSUME Init PROVE LogInv OBVIOUS
<1>1. /\ log = [events |-> <<>>, seq |-> 0, recSeq |-> 0, loaded |-> TRUE,
                disk |-> <<>>, buffer |-> <<>>, made |-> 0, stale |-> FALSE]
      /\ index = [lastSeq |-> 0, running |-> FALSE]
      /\ run = "none" /\ agent = FALSE /\ load = NoLoad
      /\ viewer = [v \in Viewers |-> Gone]
      /\ up = TRUE /\ crashes = 0 /\ torn = FALSE
  BY DEF Init
<1>2. log \in Logs BY <1>1, NoneIs DEF Logs
<1>3. /\ log.events = <<>> /\ log.seq = 0 /\ log.loaded = TRUE
      /\ log.disk = <<>> /\ log.buffer = <<>> /\ log.made = 0
  BY <1>1
<1>4. Full(log) = <<>> BY <1>3 DEF Full
<1>5. Covers(log.events, log) BY <1>3, <1>4, NoneIs DEF Covers, Owed
<1>6. Len(log.events) <= MaxEvents
  <2>1. Len(<<>>) = 0 OBVIOUS
  <2> QED BY <1>3, <2>1, BoundsAssumption
<1>7. Sound(log)
  <2>1. Numbered(log)
    <3>1. DOMAIN <<>> = {} OBVIOUS
    <3> QED BY <1>4, <3>1 DEF Numbered
  <2>2. BufferedOnly(log.buffer)
    <3>1. DOMAIN <<>> = {} OBVIOUS
    <3> QED BY <1>3, <3>1 DEF BufferedOnly
  <2>3. InMemory(log) BY <1>3, <1>4, <1>5, NoneIs DEF InMemory, Ahead
  <2> QED BY <1>2, <1>3, <1>6, <2>1, <2>2, <2>3, NoneIs DEF Sound
<1>8. \A v \in Viewers : viewer[v] \in ViewerStates /\ Served(viewer[v], log)
  BY <1>1, <1>2, GoneServed
<1>9. viewer \in [Viewers -> ViewerStates] BY <1>1, <1>8
<1>10. load \in Loads /\ load.phase # "parsing" BY <1>1, NoneIs DEF NoLoad, Loads
<1>11. TypeOK BY <1>1, <1>2, <1>6, <1>9, <1>10 DEF TypeOK
<1>12. ServiceInv BY <1>7, <1>8, <1>10 DEF ServiceInv
<1>13. DownInv BY <1>1 DEF DownInv
<1>14. Closed(Full(log))
  <2>1. DOMAIN <<>> = {} OBVIOUS
  <2> QED BY <1>4, <2>1 DEF Closed
<1>15. RunInv BY <1>1, <1>14 DEF RunInv
<1> QED BY <1>11, <1>12, <1>13, <1>15 DEF LogInv

\* Every step keeps it.
LEMMA LogInvNext == LogInv /\ [Next]_vars => LogInv'
<1> SUFFICES ASSUME LogInv, [Next]_vars PROVE LogInv' OBVIOUS
<1>1. CASE UNCHANGED vars
  <2>1. TypeOK' BY <1>1 DEF LogInv, TypeOK, vars
  <2>2. ServiceInv' BY <1>1 DEF LogInv, ServiceInv, vars
  <2>3. DownInv' BY <1>1 DEF LogInv, DownInv, vars
  <2>4. RunInv' BY <1>1 DEF LogInv, RunInv, vars
  <2> QED BY <2>1, <2>2, <2>3, <2>4 DEF LogInv
<1>2. CASE Next
  <2>1. CASE \E crowded \in BOOLEAN : Run(crowded) BY <2>1, RunKeeps
  <2>2. CASE \E crowded \in BOOLEAN : getEvents(crowded) BY <2>2, MemoryKeeps
  <2>3. CASE \E crowded \in BOOLEAN : Loaded(crowded) BY <2>3, LoadedKeeps
  <2>4. CASE \E crowded \in BOOLEAN : \E v \in Viewers, since \in Since : open(v, since, crowded)
    BY <2>4, OpenKeeps
  <2>5. CASE (\E kind \in {"critical", "chatter"} : emit(kind)) \/ emitHookResult \/ setDomain \/ abort \/ settle
    BY <2>5, HandlersKeep
  <2>6. CASE sweepIdleAgents \/ evictLoadedBeyondCap \/ flushAll BY <2>6, MemoryKeeps
  <2>7. CASE readFile BY <2>7, ReadKeeps
  <2>8. CASE \E v \in Viewers : subscribe(v) \/ drain(v) \/ leave(v) BY <2>8, ViewerKeeps
  <2>9. CASE Crash \/ close \/ rehydrate BY <2>9, ProcessKeeps
  <2> QED BY <1>2, <2>1, <2>2, <2>3, <2>4, <2>5, <2>6, <2>7, <2>8, <2>9 DEF Next
<1> QED BY <1>1, <1>2

\* The log, the stream handlers and the process agree as LogInv says after
\* every step: what the theorems below rest on.
THEOREM LogInvHolds == Spec => []LogInv
<1> QED BY LogInvInit, LogInvNext, PTL DEF Spec

-----------------------------------------------------------------------------
(* The theorems.                                                           *)

\* Every variable keeps its type, and memory its bound, through every append,
\* load, eviction, crash and restart.
THEOREM TypeCorrect == Spec => []TypeOK
<1>1. LogInv => TypeOK BY DEF LogInv
<1> QED BY <1>1, LogInvHolds, PTL

\* Memory is a part of the log in order, with all that a replay promises, and
\* seq is ahead of the log, for any ring, buffer and cap on hook results and any
\* number of crashes (ensureEvents, adoptLoadedEvents, trimHookResults).
THEOREM MemoryIsTail == Spec => []LoadedIsTail
<1>1. LogInv => LoadedIsTail
  <2> SUFFICES ASSUME LogInv, log.loaded PROVE LoadedIsTail BY DEF LoadedIsTail
  <2>1. InMemory(log) BY Facts, SoundIs
  <2>2. /\ \A i \in DOMAIN Full(log) : Full(log)[i].seq <= log.seq
        /\ \A i, j \in DOMAIN log.events : i < j => Before(log.events[i], log.events[j])
        /\ log.stale \/ Covers(log.events, log)
    BY <2>1 DEF InMemory, Ahead, UpTo, Ordered
  <2>3. ASSUME Covers(log.events, log)
        PROVE  /\ \A i \in DOMAIN log.events : Occurs(log.events[i], Full(log))
               /\ \A i \in DOMAIN Full(log) :
                    Recent(Full(log)[i], Full(log)) => Occurs(Full(log)[i], log.events)
    <3>1. \A i \in DOMAIN log.events : Occurs(log.events[i], log.events) BY DEF Occurs
    <3>2. \A i \in DOMAIN Full(log) : Occurs(Full(log)[i], Full(log)) BY DEF Occurs
    <3> QED BY <2>3, <3>1, <3>2 DEF Covers, Owed
  <2> QED BY <2>2, <2>3 DEF LoadedIsTail
<1> QED BY <1>1, LogInvHolds, PTL

\* A stream replays, fills the gap and forwards without a repetition or an
\* inversion, and misses nothing a replay promises, for any number of viewers
\* (the stream handler).
THEOREM StreamsAreComplete == Spec => []ViewerComplete
<1>1. LogInv => ViewerComplete
  <2> SUFFICES ASSUME LogInv, NEW v \in Viewers, NEW w, w = viewer[v]
               PROVE  /\ \A i, j \in DOMAIN w.got : i < j => Before(w.got[i], w.got[j])
                      /\ Listening(v) /\ w.whole =>
                           \A i \in DOMAIN Full(log) :
                             Full(log)[i].seq > w.since /\ Recent(Full(log)[i], Full(log)) =>
                               Occurs(Full(log)[i], w.got) \/ Occurs(Full(log)[i], w.deferred)
    BY DEF ViewerComplete
  <2>1. w \in ViewerStates /\ Served(w, log) BY Facts
  <2>2. Ordered(w.got) BY <2>1 DEF Served
  <2>3. ASSUME Listening(v), w.whole PROVE Followed(w, log)
    BY <2>1, <2>3 DEF Served, Listening
  <2>4. \A i \in DOMAIN Full(log) : Occurs(Full(log)[i], Full(log)) BY DEF Occurs
  <2> QED BY <2>2, <2>3, <2>4 DEF Ordered, Followed, Owed
<1> QED BY <1>1, LogInvHolds, PTL

\* The log of a run that is over says so, wherever a crash cut in (rehydrate's
\* markers, and the record saved with each start and end).
THEOREM RunsAreClosed == Spec => []RunIsClosed
<1>1. LogInv => RunIsClosed
  <2> SUFFICES ASSUME LogInv, up, run = "none", ~torn PROVE RunIsClosed BY DEF RunIsClosed
  <2>1. Closed(Full(log)) BY Facts
  <2> QED BY <2>1 DEF RunIsClosed, Closed
<1> QED BY <1>1, LogInvHolds, PTL


-----------------------------------------------------------------------------
(* What a process that dies loses.                                         *)

OnlyBufferedLost ==
  \A i \in DOMAIN Full(log) :
    \/ i \in DOMAIN log'.disk /\ log'.disk[i] = Full(log)[i]
    \/ \A j \in i..Len(Full(log)) : Full(log)[j].kind \in Buffered

\* What was on the way to the disk when the process died is chatter.
LEMMA CutIs ==
  ASSUME log \in Logs, NEW l, Sound(l), log'.disk = l.disk,
         Len(Full(log)) <= Len(Full(l)),
         \A i \in 1..Len(Full(log)) : Full(l)[i] = Full(log)[i]
  PROVE  OnlyBufferedLost
<1>1. l \in Logs /\ BufferedOnly(l.buffer) BY SoundIs
<1> DEFINE f == Full(log)
           g == Full(l)
           d == l.disk
           b == l.buffer
<1>2. f \in Seq(Events) BY FullIs
<1>3. /\ g \in Seq(Events) /\ d \in Seq(Events) /\ b \in Seq(Events)
      /\ Len(g) = Len(d) + Len(b)
      /\ \A i \in 1..Len(d) : g[i] = d[i]
      /\ \A i \in 1..Len(b) : g[Len(d) + i] = b[i]
  BY <1>1, FullIs
<1>4. Len(f) <= Len(g) /\ \A i \in 1..Len(f) : g[i] = f[i] OBVIOUS
<1>5. \A i \in DOMAIN b : b[i].kind \in Buffered BY <1>1 DEF BufferedOnly
<1>6. log'.disk = d OBVIOUS
<1> HIDE DEF f, g, d, b
<1>7. DOMAIN f = 1..Len(f) /\ DOMAIN d = 1..Len(d) /\ DOMAIN b = 1..Len(b) BY <1>2, <1>3
<1>8. Len(f) \in Nat /\ Len(d) \in Nat /\ Len(b) \in Nat BY <1>2, <1>3
<1>9. ASSUME NEW i \in 1..Len(f)
      PROVE  \/ i \in 1..Len(d) /\ d[i] = f[i]
             \/ \A j \in i..Len(f) : f[j].kind \in Buffered
  <2>1. CASE i \in 1..Len(d) BY <1>3, <1>4, <2>1
  <2>2. CASE i \notin 1..Len(d)
    <3> SUFFICES ASSUME NEW j \in i..Len(f) PROVE f[j].kind \in Buffered OBVIOUS
    <3>1. PICK k : k = j - Len(d) OBVIOUS
    <3>2. k \in 1..Len(b) /\ j = Len(d) + k /\ j \in 1..Len(f)
      BY <1>3, <1>4, <1>8, <1>9, <2>2, <3>1
    <3>3. g[j] = b[k] BY <1>3, <3>2
    <3>4. g[j] = f[j] BY <1>4, <3>2
    <3>5. b[k].kind \in Buffered BY <1>5, <1>7, <3>2
    <3> QED BY <3>3, <3>4, <3>5
  <2> QED BY <2>1, <2>2
<1>10. OnlyBufferedLost <=>
         \A i \in DOMAIN f :
           \/ i \in DOMAIN d /\ d[i] = f[i]
           \/ \A j \in i..Len(f) : f[j].kind \in Buffered
  BY <1>6 DEF OnlyBufferedLost, f
<1> QED BY <1>7, <1>9, <1>10

\* A death loses chatter when the log it leaves begins with the log before,
LEMMA DyingLosesChatter ==
  ASSUME LogInv, NEW l, Sound(l), Die(l),
         Len(Full(log)) <= Len(Full(l)),
         \A i \in 1..Len(Full(log)) : Full(l)[i] = Full(log)[i]
  PROVE  OnlyBufferedLost
<1>1. log \in Logs BY Facts
<1>2. log'.disk = l.disk BY DieServes
<1> QED BY <1>1, <1>2, CutIs

\* as it does when it has grown from it,
LEMMA GrownLosesChatter ==
  ASSUME LogInv, NEW l, Sound(l), Grown(log, l), Die(l)
  PROVE  OnlyBufferedLost
<1>1. /\ Len(Full(log)) <= Len(Full(l))
      /\ \A i \in 1..Len(Full(log)) : Full(l)[i] = Full(log)[i]
  BY DEF Grown
<1> QED BY <1>1, DyingLosesChatter

\* which it has in the handlers that append one event.
LEMMA DiesLosesChatter ==
  ASSUME LogInv, NEW kind \in Kinds, Dies(Put(log, kind))
  PROVE  OnlyBufferedLost
<1> DEFINE l == Put(log, kind)
<1>1. Sound(l) /\ Grown(log, l) BY OneMore
<1>2. Die(l) BY DEF Dies
<1> HIDE DEF l
<1> QED BY <1>1, <1>2, GrownLosesChatter

\* The steps that end a process, one by one.
LEMMA StepLosesChatter == LogInv /\ Next /\ ~up' => OnlyBufferedLost
<1> SUFFICES ASSUME LogInv, Next, ~up' PROVE OnlyBufferedLost OBVIOUS
<1>1. ASSUME NEW crowded \in BOOLEAN, Run(crowded) PROVE OnlyBufferedLost
  <2> DEFINE a == Ensured(log, crowded)
             b == Put(a, "critical")
             l == Put(b, "start")
  <2>1. Sound(log) /\ log \in Logs BY Facts
  <2>2. Sound(a) /\ Grown(log, a) BY <2>1, EnsuredSound
  <2> HIDE DEF a
  <2>3. Sound(b) /\ Grown(a, b) BY <2>2, PutSound DEF Kinds
  <2> HIDE DEF b
  <2>4. Sound(l) /\ Grown(b, l) BY <2>3, PutSound DEF Kinds
  <2> HIDE DEF l
  <2>5. a \in Logs /\ b \in Logs /\ l \in Logs BY <2>2, <2>3, <2>4, SoundIs
  <2>6. Grown(log, b) BY <2>1, <2>2, <2>3, <2>5, GrownTwice
  <2>7. Grown(log, l) BY <2>1, <2>4, <2>5, <2>6, GrownTwice
  <2>8. up /\ (UNCHANGED up \/ Die(l)) BY <1>1 DEF Run, Saves, Appends, l, b, a
  <2> QED BY <2>4, <2>7, <2>8, GrownLosesChatter
<1>2. ASSUME \/ \E kind \in {"critical", "chatter"} : emit(kind)
             \/ emitHookResult \/ setDomain \/ abort \/ settle
      PROVE  OnlyBufferedLost
  <2>1. \/ up /\ UNCHANGED up
        \/ Dies(Put(log, "chatter")) \/ Dies(Put(log, "end"))
    BY <1>2 DEF emit, emitHookResult, setDomain, abort, settle, Saves, Appends
  <2> QED BY <2>1, DiesLosesChatter DEF Kinds
<1>3. ASSUME \E v \in Viewers : leave(v) PROVE FALSE
  <2>1. PICK v \in Viewers : leave(v) BY <1>3
  <2>2. viewer[v].phase # "off" /\ ~up BY <2>1 DEF leave
  <2>3. viewer = [u \in Viewers |-> Gone] BY <2>2 DEF LogInv, DownInv
  <2> QED BY <2>2, <2>3 DEF Gone
<1>4. ASSUME Crash PROVE OnlyBufferedLost
  <2>1. Die(log) BY <1>4 DEF Crash, Dies
  <2>2. Sound(log) BY Facts
  <2> QED BY <2>1, <2>2, DyingLosesChatter
<1>5. ASSUME close PROVE OnlyBufferedLost
  <2> DEFINE l == Put(log, "end")
             m == Flush(l)
  <2>1. Die(m) BY <1>5 DEF close
  <2>2. Sound(l) /\ l \in Logs /\ Grown(log, l) BY OneMore DEF Kinds
  <2> HIDE DEF l
  <2>3. Sound(m) /\ Full(m) = Full(l) BY <2>2, FlushSound
  <2> HIDE DEF m
  <2>4. /\ Len(Full(log)) <= Len(Full(m))
        /\ \A i \in 1..Len(Full(log)) : Full(m)[i] = Full(log)[i]
    BY <2>2, <2>3 DEF Grown
  <2> QED BY <2>1, <2>3, <2>4, DyingLosesChatter
<1>6. ASSUME rehydrate PROVE OnlyBufferedLost
  <2> DEFINE l == [log EXCEPT !.seq = index.lastSeq, !.recSeq = index.lastSeq]
             m == Stored(Stored(l, "end"), "chatter")
  <2>1. ~up /\ Dies(m) BY <1>6 DEF rehydrate
  <2>2. /\ Sound(m) /\ Len(Full(log)) <= Len(Full(m))
        /\ \A i \in 1..Len(Full(log)) : Full(m)[i] = Full(log)[i]
    BY <2>1, MarkersAre
  <2>3. Die(m) BY <2>1 DEF Dies
  <2> HIDE DEF m
  <2> QED BY <2>2, <2>3, DyingLosesChatter
<1>7. ASSUME \/ \E crowded \in BOOLEAN : getEvents(crowded) \/ Loaded(crowded)
             \/ \E crowded \in BOOLEAN : \E v \in Viewers, since \in Since : open(v, since, crowded)
             \/ sweepIdleAgents \/ evictLoadedBeyondCap \/ flushAll \/ readFile
             \/ \E v \in Viewers : subscribe(v) \/ drain(v)
      PROVE  FALSE
  <2>1. CASE \E crowded \in BOOLEAN : getEvents(crowded) BY <2>1 DEF getEvents
  <2>2. CASE \E crowded \in BOOLEAN : Loaded(crowded) BY <2>2 DEF Loaded
  <2>3. CASE \E crowded \in BOOLEAN : \E v \in Viewers, since \in Since : open(v, since, crowded)
    BY <2>3 DEF open
  <2>4. CASE sweepIdleAgents BY <2>4 DEF sweepIdleAgents
  <2>5. CASE evictLoadedBeyondCap BY <2>5 DEF evictLoadedBeyondCap
  <2>6. CASE flushAll BY <2>6 DEF flushAll
  <2>7. CASE readFile BY <2>7 DEF readFile
  <2>8. CASE \E v \in Viewers : subscribe(v) BY <2>8 DEF subscribe
  <2>9. CASE \E v \in Viewers : drain(v) BY <2>9 DEF drain
  <2> QED BY <1>7, <2>1, <2>2, <2>3, <2>4, <2>5, <2>6, <2>7, <2>8, <2>9
<1> QED BY <1>1, <1>2, <1>3, <1>4, <1>5, <1>6, <1>7 DEF Next

\* A crash, a shutdown or a restart that fails loses the end of the log at
\* most, and no event of CRITICAL_TYPES, whichever handler it cut in
\* (appendEvent's flush of a critical event).
THEOREM CrashesLoseChatter == Spec => CrashLosesChatter
<1>1. LogInv /\ [Next]_vars => [~up' => OnlyBufferedLost]_vars BY StepLosesChatter
<1>2. CrashLosesChatter <=> [][~up' => OnlyBufferedLost]_vars
  BY DEF CrashLosesChatter, OnlyBufferedLost
<1> QED BY <1>1, <1>2, LogInvHolds, PTL DEF Spec
=============================================================================
