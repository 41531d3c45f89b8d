-------------------------- MODULE SensorsDataProofs --------------------------
(***************************************************************************)
(* Proofs about SensorsData: the order of the items, the lists of the      *)
(* histories, and what a request for the latest records gets.              *)
(*                                                                         *)
(* The operators of History are about one list, so that the first part is  *)
(* about one list too: what AddRecord, Truncate and AfterGet keep of it.   *)
(***************************************************************************)
EXTENDS SensorsData, DataLemmas, SequenceTheorems

Records == [time : 1 .. MAX_TIME, value : Values]

Histories == [records : Seq(Records), last : Nat, count : Nat]

\* The list of a history is sorted, nothing in it is younger than `newest`.
Linked(h, newest) ==
  /\ h \in Histories
  /\ h.last = Len(h.records)
  /\ h.count >= Len(h.records)
  /\ \A i \in 1 .. Len(h.records) : h.records[i].time <= newest
  /\ \A i, j \in 1 .. Len(h.records) : i < j => h.records[i].time <= h.records[j].time

-----------------------------------------------------------------------------
\* The members of a record that is put together.
LEMMA HistoryMade ==
  ASSUME NEW s \in Seq(Records), NEW l \in Nat, NEW c \in Nat,
         NEW h, h = [records |-> s, last |-> l, count |-> c]
  PROVE  /\ h \in Histories
         /\ h.records = s /\ h.last = l /\ h.count = c
  BY DEF Histories

\* What a member of Histories is made of.
LEMMA HistoryType ==
  ASSUME NEW h \in Histories
  PROVE  /\ h.records \in Seq(Records) /\ h.last \in Nat /\ h.count \in Nat
         /\ h = [records |-> h.records, last |-> h.last, count |-> h.count]
         /\ Len(h.records) \in Nat
         /\ \A i \in 1 .. Len(h.records) :
              h.records[i] \in Records /\ h.records[i].time \in Nat
<1>1. /\ h.records \in Seq(Records) /\ h.last \in Nat /\ h.count \in Nat
      /\ h = [records |-> h.records, last |-> h.last, count |-> h.count]
  BY DEF Histories
<1>2. \A r \in Records : r.time \in Nat
  BY StoreAssumption DEF Records
<1>3. Len(h.records) \in Nat /\ \A i \in 1 .. Len(h.records) : h.records[i] \in Records
  BY <1>1
<1> QED
  BY <1>1, <1>2, <1>3

\* The records in front of Outdated, and only these, are too old: deleting them is
\* what History::truncate does.
LEMMA OutdatedBounds ==
  ASSUME NEW h \in Histories, NEW time \in Int,
         NEW n, n = Outdated(h, time)
  PROVE  /\ n \in 0 .. Len(h.records)
         /\ \A i \in 1 .. n : h.records[i].time < time
         /\ n < Len(h.records) => h.records[n + 1].time >= time
<1> DEFINE N == Len(h.records)
           ends == {k \in 1 .. N : ~(h.records[k].time < time)}
           m == CHOOSE k \in ends : \A e \in ends : k <= e
<1>1. n = IF ends = {} THEN N ELSE m - 1
  BY DEF Outdated, PrefixLength
<1>2. N \in Nat /\ \A i \in 1 .. N : h.records[i].time \in Nat
  BY HistoryType
<1>3. ends \in SUBSET Nat /\ ends \subseteq 1 .. N
  BY <1>2
<1>4. CASE ends = {}
  BY <1>1, <1>2, <1>4
<1>5. CASE ends # {}
  <2>1. m \in ends /\ \A e \in ends : m <= e
    <3> HIDE DEF ends
    <3> QED
      BY <1>3, <1>5, LeastIsChosen
  <2> HIDE DEF m, N
  <2>2. m \in 1 .. N /\ n = m - 1 /\ ~(h.records[m].time < time)
    BY <1>1, <1>5, <2>1
  <2>3. ASSUME NEW i \in 1 .. n
        PROVE  h.records[i].time < time
    <3>1. i \in 1 .. N /\ i < m
      BY <1>2, <2>2
    <3>2. i \notin ends
      <4> HIDE DEF ends
      <4> QED BY <1>2, <2>1, <2>2, <3>1
    <3> QED
      BY <3>1, <3>2
  <2>4. n + 1 = m /\ n \in 0 .. N
    BY <1>2, <2>2
  <2> QED
    BY <1>2, <2>2, <2>3, <2>4 DEF N
<1> QED
  BY <1>4, <1>5

\* History::add with a reading that is not older than the others.
LEMMA AddRecordLinked ==
  ASSUME NEW newest \in Nat, NEW h, Linked(h, newest),
         NEW r \in Records, newest <= r.time, NEW g, g = AddRecord(h, r)
  PROVE  /\ Linked(g, r.time)
         /\ g.records # << >>
         /\ Last(g.records) = r
<1> DEFINE N == Len(h.records)
           longer == Append(h.records, r)
<1>1. /\ h \in Histories /\ h.last = N /\ h.count >= N
      /\ \A i \in 1 .. N : h.records[i].time <= newest
      /\ \A i, j \in 1 .. N : i < j => h.records[i].time <= h.records[j].time
  BY DEF Linked
<1>2. /\ h.records \in Seq(Records) /\ N \in Nat /\ h.count \in Nat
      /\ \A i \in 1 .. N : h.records[i].time \in Nat
  BY <1>1, HistoryType
<1>3. g = [records |-> longer, last |-> N + 1, count |-> h.count + 1]
  BY <1>1, <1>2, SubSeqFull DEF AddRecord
<1>4. /\ longer \in Seq(Records)
      /\ Len(longer) = N + 1
      /\ \A i \in 1 .. N : longer[i] = h.records[i]
      /\ longer[N + 1] = r
  BY <1>2
<1> HIDE DEF longer, N
<1>5. /\ g \in Histories /\ g.records = longer
      /\ g.last = N + 1 /\ g.count = h.count + 1
  BY <1>2, <1>3, <1>4, HistoryMade
<1>6. r.time \in Nat
  BY StoreAssumption DEF Records
<1>7. \A i \in 1 .. N + 1 : g.records[i].time <= r.time
  BY <1>1, <1>2, <1>4, <1>5, <1>6
<1>8. \A i, j \in 1 .. N + 1 : i < j => g.records[i].time <= g.records[j].time
  BY <1>1, <1>2, <1>4, <1>5, <1>6, <1>7
<1>9. Linked(g, r.time)
  BY <1>1, <1>2, <1>4, <1>5, <1>7, <1>8 DEF Linked
<1> QED
  BY <1>2, <1>4, <1>5, <1>9 DEF Last

\* The rest of a list after its first n records are deleted.
LEMMA UnlinkLinked ==
  ASSUME NEW newest \in Nat, NEW h, Linked(h, newest), NEW n \in 0 .. Len(h.records),
         NEW g, g = Unlink(h, n)
  PROVE  /\ Linked(g, newest)
         /\ g.count = h.count
         /\ Len(g.records) = Len(h.records) - n
         /\ \A i \in 1 .. Len(h.records) - n : g.records[i] = h.records[n + i]
         /\ g.records # << >> => h.records # << >> /\ Last(g.records) = Last(h.records)
<1> DEFINE N == Len(h.records)
           rest == SubSeq(h.records, n + 1, N)
<1>1. /\ h \in Histories /\ h.last = N /\ h.count >= N
      /\ \A i \in 1 .. N : h.records[i].time <= newest
      /\ \A i, j \in 1 .. N : i < j => h.records[i].time <= h.records[j].time
  BY DEF Linked
<1>2. /\ h.records \in Seq(Records) /\ N \in Nat /\ h.count \in Nat
      /\ \A i \in 1 .. N : h.records[i] \in Records /\ h.records[i].time \in Nat
      /\ h = [records |-> h.records, last |-> h.last, count |-> h.count]
  BY <1>1, HistoryType
<1>3. g = [records |-> rest, last |-> N - n, count |-> h.count]
  <2>1. g = [records |-> rest, last |-> IF n = N THEN 0 ELSE h.last - n, count |-> h.count]
    BY <1>2 DEF Unlink
  <2> QED
    <3> HIDE DEF rest, N
    <3> QED
      BY <1>1, <1>2, <2>1 DEF N
<1>4. /\ rest \in Seq(Records)
      /\ Len(rest) = N - n
      /\ \A i \in 1 .. N - n : rest[i] = h.records[n + i]
  BY <1>2, SubSeqProperties
<1> HIDE DEF rest, N
<1>5. /\ g \in Histories /\ g.records = rest
      /\ g.last = N - n /\ g.count = h.count
  BY <1>2, <1>3, <1>4, HistoryMade DEF N
<1>6. Linked(g, newest)
  <2>1. n \in 0 .. N
    BY DEF N
  <2>2. \A i \in 1 .. N - n : n + i \in 1 .. N /\ g.records[i] = h.records[n + i]
    BY <1>2, <1>4, <1>5, <2>1
  <2>3. \A i \in 1 .. N - n : g.records[i].time <= newest
    BY <1>1, <2>2
  <2>4. \A i, j \in 1 .. N - n : i < j => n + i < n + j
    BY <1>2, <2>1
  <2>5. \A i, j \in 1 .. N - n : i < j => g.records[i].time <= g.records[j].time
    BY <1>1, <2>2, <2>4
  <2>6. g.last = Len(g.records) /\ g.count >= Len(g.records) /\ Len(g.records) = N - n
    BY <1>1, <1>2, <1>4, <1>5, <2>1
  <2> QED
    BY <1>5, <2>3, <2>5, <2>6 DEF Linked
<1>7. g.records # << >> => h.records # << >> /\ Last(g.records) = Last(h.records)
  <2> SUFFICES ASSUME rest # << >>
               PROVE  h.records # << >> /\ Last(rest) = Last(h.records)
    BY <1>5
  <2>1. N - n > 0
    BY <1>2, <1>4 DEF N
  <2> QED
    BY <1>2, <1>4, <2>1 DEF Last, N
<1> QED
  BY <1>4, <1>5, <1>6, <1>7 DEF N

\* History::truncate.
LEMMA TruncateLinked ==
  ASSUME NEW newest \in Nat, NEW h, Linked(h, newest), NEW from \in Int
  PROVE  Linked(Truncate(h, from), newest)
<1> DEFINE n == Outdated(h, from)
           g == Unlink(h, n)
<1>1. n \in 0 .. Len(h.records)
  BY OutdatedBounds DEF Linked
<1>2. Linked(g, newest) /\ g.count = h.count /\ Len(g.records) = Len(h.records) - n
  BY <1>1, UnlinkLinked
<1>3. Truncate(h, from) = [g EXCEPT !.count = h.count - n]
  BY <1>2 DEF Truncate, Linked, Histories
<1>4. Len(h.records) \in Nat /\ h.count \in Nat /\ h.count >= Len(h.records)
  BY DEF Linked, Histories
<1> HIDE DEF n, g
<1> QED
  BY <1>1, <1>2, <1>3, <1>4 DEF Linked, Histories

\* What History::get leaves when it has deleted what is outdated.
LEMMA AfterGetLinked ==
  ASSUME NEW newest \in Nat, NEW h, Linked(h, newest), NEW time \in Nat, HISTORY_DEPTH \in Nat
  PROVE  /\ Linked(AfterGet(h, 0, time), newest)
         /\ AfterGet(h, 0, time).records # << >> =>
              h.records # << >> /\ Last(AfterGet(h, 0, time).records) = Last(h.records)
<1> DEFINE n == Outdated(h, time - HISTORY_DEPTH)
<1>1. n \in 0 .. Len(h.records)
  BY OutdatedBounds DEF Linked
<1> HIDE DEF n
<1>2. AfterGet(h, 0, time) = Unlink(h, n)
  BY DEF AfterGet, n
<1> QED
  BY <1>1, <1>2, UnlinkLinked

-----------------------------------------------------------------------------
(* The array of items.                                                     *)

\* r is q with e at position p.
Inserted(r, q, p, e) ==
  /\ Len(r) = Len(q) + 1
  /\ \A k \in 1 .. Len(q) + 1 :
       r[k] = IF k < p THEN q[k] ELSE IF k = p THEN e ELSE q[k - 1]
  /\ ToSet(r) = ToSet(q) \cup {e}

\* InsertAt shifts the items from a position on by one.
LEMMA InsertedAt ==
  ASSUME NEW S, NEW q \in Seq(S), NEW e \in S, NEW p \in 1 .. Len(q) + 1,
         NEW r, r = InsertAt(q, p, e)
  PROVE  r \in Seq(S) /\ Inserted(r, q, p, e)
<1> DEFINE N == Len(q)
           l == SubSeq(q, 1, p - 1)
           m == SubSeq(q, p, N)
           le == l \o <<e>>
<1>1. N \in Nat /\ \A k \in 1 .. N : q[k] \in S
  OBVIOUS
<1>2. /\ l \in Seq(S) /\ Len(l) = p - 1
      /\ \A k \in 1 .. p - 1 : l[k] = q[k]
  <2>1. \A k \in 1 .. p - 1 : q[k] \in S
    BY <1>1
  <2>2. /\ l \in Seq(S) /\ Len(l) = IF 1 <= p - 1 THEN p - 1 - 1 + 1 ELSE 0
        /\ \A k \in 1 .. p - 1 - 1 + 1 : l[k] = q[1 + k - 1]
    BY <2>1, <1>1, SubSeqProperties
  <2> HIDE DEF l
  <2> QED
    BY <2>2
<1>3. /\ m \in Seq(S) /\ Len(m) = N - p + 1
      /\ \A k \in 1 .. N - p + 1 : m[k] = q[p + k - 1]
  <2>1. \A k \in p .. N : q[k] \in S
    BY <1>1
  <2>2. /\ m \in Seq(S) /\ Len(m) = IF p <= N THEN N - p + 1 ELSE 0
        /\ \A k \in 1 .. N - p + 1 : m[k] = q[p + k - 1]
    BY <2>1, <1>1, SubSeqProperties
  <2> HIDE DEF m
  <2> QED
    BY <2>2, <1>1
<1> HIDE DEF l, m
<1>4. <<e>> \in Seq(S) /\ Len(<<e>>) = 1 /\ <<e>>[1] = e
  OBVIOUS
<1>5. /\ le \in Seq(S) /\ Len(le) = p
      /\ \A k \in 1 .. p : le[k] = IF k < p THEN q[k] ELSE e
  <2>1. /\ le \in Seq(S) /\ Len(le) = Len(l) + Len(<<e>>)
        /\ \A k \in 1 .. Len(l) + Len(<<e>>) :
             le[k] = IF k <= Len(l) THEN l[k] ELSE <<e>>[k - Len(l)]
    BY <1>2, <1>4, ConcatProperties
  <2> HIDE DEF le
  <2>2. \A k \in 1 .. p : k <= p - 1 => le[k] = q[k]
    BY <1>2, <1>4, <2>1
  <2>3. le[p] = e
    BY <1>2, <1>4, <2>1
  <2> QED
    BY <1>2, <1>4, <2>1, <2>2, <2>3
<1> HIDE DEF le
<1>6. r = le \o m
  BY DEF InsertAt, le, l, m
<1>7. /\ r \in Seq(S) /\ Len(r) = p + (N - p + 1)
      /\ \A k \in 1 .. p + (N - p + 1) : r[k] = IF k <= p THEN le[k] ELSE m[k - p]
  BY <1>3, <1>5, <1>6, ConcatProperties
<1>8. Len(r) = N + 1
  BY <1>1, <1>7
<1>9. \A k \in 1 .. N + 1 :
        r[k] = IF k < p THEN q[k] ELSE IF k = p THEN e ELSE q[k - 1]
  <2> TAKE k \in 1 .. N + 1
  <2>1. CASE k <= p
    BY <1>1, <1>5, <1>7, <2>1
  <2>2. CASE k > p
    <3>1. k - p \in 1 .. N - p + 1 /\ p + (k - p) - 1 = k - 1
      BY <1>1, <2>2
    <3> QED
      BY <1>1, <1>3, <1>7, <2>2, <3>1
  <2> QED
    BY <1>1, <2>1, <2>2
<1>10. ToSet(r) = ToSet(q) \cup {e}
  <2>1. DOMAIN r = 1 .. N + 1 /\ DOMAIN q = 1 .. N
    BY <1>1, <1>7, <1>8
  <2>2. r[p] = e /\ p \in 1 .. N + 1
    BY <1>1, <1>9
  <2>3. \A k \in 1 .. N : \E j \in 1 .. N + 1 : r[j] = q[k]
    <3> TAKE k \in 1 .. N
    <3>1. CASE k < p
      BY <1>1, <1>9, <3>1
    <3>2. CASE ~(k < p)
      <4>1. k + 1 \in 1 .. N + 1 /\ k + 1 > p /\ k + 1 - 1 = k
        BY <1>1, <3>2
      <4>2. r[k + 1] = q[k + 1 - 1]
        BY <1>1, <1>9, <4>1
      <4> QED
        BY <4>1, <4>2
    <3> QED
      BY <3>1, <3>2
  <2>4. \A j \in 1 .. N + 1 : r[j] = e \/ \E k \in 1 .. N : r[j] = q[k]
    <3> TAKE j \in 1 .. N + 1
    <3>1. CASE j < p
      BY <1>1, <1>9, <3>1
    <3>2. CASE j > p
      <4>1. j - 1 \in 1 .. N
        BY <1>1, <3>2
      <4> QED
        BY <1>1, <1>9, <3>2, <4>1
    <3> QED
      BY <1>1, <2>2, <3>1, <3>2
  <2>5. /\ ToSet(r) = {r[j] : j \in 1 .. N + 1}
        /\ ToSet(q) = {q[k] : k \in 1 .. N}
    BY <2>1 DEF ToSet
  <2> HIDE DEF N
  <2>6. ToSet(r) \subseteq ToSet(q) \cup {e}
    BY <2>4, <2>5
  <2>7. ToSet(q) \cup {e} \subseteq ToSet(r)
    BY <2>2, <2>3, <2>5
  <2> QED
    BY <2>6, <2>7
<1> HIDE DEF N
<1> QED
  BY <1>7, <1>8, <1>9, <1>10 DEF N, Inserted

\* What is at the positions below p is defined no later than d, the rest is not.
Splits(p, d) ==
  /\ p \in 1 .. Len(items) + 1
  /\ d # 0 => \A k \in 1 .. Len(items) :
                /\ k < p => Defined(items[k]) /\ Definition[items[k]] <= d
                /\ k >= p => ~(Defined(items[k]) /\ Definition[items[k]] <= d)
  /\ d = 0 => p = Len(items) + 1

\* The items before the position of SensorsData::add are those defined before the
\* new one, and all that are not defined come after it.
LEMMA InsertPositionSplits ==
  ASSUME StoreAssumption, items \in Seq(Sensors), SortedByDefinition,
         NEW d \in Nat
  PROVE  Splits(InsertPosition(d), d)
<1> DEFINE N == Len(items)
           before == {k \in 1 .. N : Defined(items[k]) /\ Definition[items[k]] <= d}
           m == CHOOSE k \in before : \A e \in before : e <= k
           p == InsertPosition(d)
<1>1. /\ N \in Nat
      /\ \A k \in 1 .. N : items[k] \in Sensors /\ Definition[items[k]] \in Nat
  BY DEF StoreAssumption
<1>2. p = IF d = 0 THEN N + 1 ELSE IF before = {} THEN 1 ELSE 1 + m
  BY DEF InsertPosition
<1>3. before # {} => m \in before /\ \A e \in before : e <= m
  <2>1. before \in SUBSET (1 .. N)
    OBVIOUS
  <2> HIDE DEF before, N
  <2> QED
    BY <1>1, <2>1, GreatestExists
<1>4. m \in before => m \in 1 .. N
  OBVIOUS
<1>5. p \in 1 .. N + 1
  <2> HIDE DEF before, m, p, N
  <2> QED
    BY <1>1, <1>2, <1>3, <1>4
<1>6. ASSUME d # 0, NEW k \in 1 .. N, k < p
      PROVE  k \in before
  <2>1. before # {} /\ p = 1 + m /\ m \in 1 .. N
    <3> HIDE DEF before, m, p, N
    <3> QED
      BY <1>1, <1>2, <1>3, <1>4, <1>6
  <2>2. CASE k = m
    BY <1>3, <2>1, <2>2
  <2>3. CASE k < m
    <3>1. m \in before
      BY <1>3, <2>1
    <3>2. Defined(items[m]) /\ Definition[items[m]] <= d
      BY <3>1
    <3>3. Defined(items[k]) /\ Definition[items[k]] <= Definition[items[m]]
      BY <2>1, <2>3, <3>2 DEF SortedByDefinition
    <3>4. Definition[items[k]] <= d
      BY <1>1, <2>1, <3>2, <3>3
    <3> QED
      BY <3>3, <3>4
  <2> HIDE DEF m, p
  <2> QED
    BY <1>1, <1>6, <2>1, <2>2, <2>3
<1>7. ASSUME d # 0, NEW k \in 1 .. N, k >= p
      PROVE  k \notin before
  <2> HIDE DEF before, m, p, N
  <2> QED
    BY <1>1, <1>2, <1>3, <1>4, <1>7
<1>8. \A k \in 1 .. N : k \in before <=> Defined(items[k]) /\ Definition[items[k]] <= d
  OBVIOUS
<1>9. d = 0 => p = N + 1
  BY <1>2
<1> HIDE DEF before, m, p
<1> QED
  BY <1>5, <1>6, <1>7, <1>8, <1>9, Zenon DEF Splits, p, N

\* SensorsData::add keeps the items in the order of their definitions.
LEMMA InsertKeepsOrder ==
  ASSUME StoreAssumption, items \in Seq(Sensors), SortedByDefinition,
         NEW s \in Sensors, s \notin Stored,
         items' = InsertAt(items, InsertPosition(Definition[s]), s)
  PROVE  /\ items' \in Seq(Sensors)
         /\ Stored' = Stored \cup {s}
         /\ SortedByDefinition'
<1> DEFINE N == Len(items)
           p == InsertPosition(Definition[s])
<1>1. Definition[s] \in Nat
  BY DEF StoreAssumption
<1>2. /\ p \in 1 .. N + 1
      /\ Defined(s) => \A k \in 1 .. N :
           /\ k < p => Defined(items[k]) /\ Definition[items[k]] <= Definition[s]
           /\ k >= p => ~(Defined(items[k]) /\ Definition[items[k]] <= Definition[s])
      /\ ~Defined(s) => p = N + 1
  <2>1. Splits(p, Definition[s])
    BY <1>1, InsertPositionSplits
  <2> QED
    BY <2>1 DEF Defined, Splits
<1> HIDE DEF p
<1>3. /\ items' \in Seq(Sensors) /\ Len(items') = N + 1
      /\ \A k \in 1 .. N + 1 :
           items'[k] = IF k < p THEN items[k] ELSE IF k = p THEN s ELSE items[k - 1]
      /\ ToSet(items') = ToSet(items) \cup {s}
  <2>1. p \in 1 .. Len(items) + 1 /\ items' = InsertAt(items, p, s)
    BY <1>2 DEF p
  <2>2. items' \in Seq(Sensors) /\ Inserted(items', items, p, s)
    BY <2>1, InsertedAt
  <2> QED
    BY <2>2 DEF Inserted
<1>4. /\ N \in Nat /\ DOMAIN items = 1 .. N /\ DOMAIN items' = 1 .. N + 1
      /\ \A k \in 1 .. N : items[k] # s
      /\ \A k \in 1 .. N : Definition[items[k]] \in Nat
  BY <1>3 DEF Stored, ToSet, StoreAssumption
<1> HIDE DEF N
<1>5. /\ \A a, b \in 1 .. N : items[a] = items[b] => a = b
      /\ \A i, j \in 1 .. N :
           i < j /\ Defined(items[j]) =>
             Defined(items[i]) /\ Definition[items[i]] <= Definition[items[j]]
  BY <1>4 DEF SortedByDefinition, IsInjective, N
\* Where the elements of the new array come from.
<1> DEFINE old(k) == IF k < p THEN k ELSE k - 1
<1>6. \A k \in 1 .. N + 1 : k # p => old(k) \in 1 .. N /\ items'[k] = items[old(k)]
  BY <1>2, <1>3, <1>4
<1>7. items'[p] = s
  BY <1>2, <1>3, <1>4
<1>8. IsInjective(items')
  <2> SUFFICES ASSUME NEW a \in 1 .. N + 1, NEW b \in 1 .. N + 1, items'[a] = items'[b]
               PROVE  a = b
    BY <1>4 DEF IsInjective
  <2>1. a = p <=> b = p
    BY <1>4, <1>6, <1>7
  <2>2. CASE a # p /\ b # p
    <3>1. old(a) = old(b)
      BY <1>5, <1>6, <2>2
    <3> QED
      BY <1>2, <1>4, <2>2, <3>1
  <2> QED
    BY <2>1, <2>2
<1>9. ASSUME NEW i \in 1 .. N + 1, NEW j \in 1 .. N + 1, i < j, Defined(items'[j])
      PROVE  Defined(items'[i]) /\ Definition[items'[i]] <= Definition[items'[j]]
  <2>1. CASE i # p /\ j # p
    <3>1. old(i) < old(j)
      BY <1>2, <1>4, <1>9, <2>1
    <3> HIDE DEF old
    <3> QED
      BY <1>5, <1>6, <1>9, <2>1, <3>1
  <2>2. CASE j = p
    <3>1. i \in 1 .. N /\ i < p /\ items'[i] = items[i]
      BY <1>2, <1>3, <1>4, <1>9, <2>2
    <3> QED
      BY <1>2, <1>7, <1>9, <2>2, <3>1
  <2>3. CASE i = p
    <3>1. j > p /\ j - 1 \in 1 .. N /\ j - 1 >= p /\ items'[j] = items[j - 1]
      BY <1>2, <1>3, <1>4, <1>9, <2>3
    <3>2. Defined(s)
      BY <1>2, <1>4, <3>1
    <3>3. ~(Definition[items[j - 1]] <= Definition[s])
      BY <1>2, <1>9, <3>1, <3>2
    <3> QED
      BY <1>1, <1>4, <1>7, <2>3, <3>1, <3>2, <3>3
  <2> QED
    BY <2>1, <2>2, <2>3
<1> QED
  BY <1>3, <1>4, <1>8, <1>9 DEF SortedByDefinition, Stored

-----------------------------------------------------------------------------
(* The inductive invariant                                                 *)

HistoryInv ==
  /\ history \in [Sensors -> Histories]
  /\ \A s \in Sensors : Linked(history[s], data_time[s])

\* Whatever is stored has been received.
ValueInv ==
  /\ \A s \in Sensors : data_time[s] <= now
  /\ \A s \in Stored : value[s] \in Values /\ data_time[s] \in 1 .. MAX_TIME

\* What main works on between the critical sections.
MainInv ==
  /\ pc = "add" => /\ sensor \in Sensors \ Stored
                   /\ value[sensor] \in Values /\ data_time[sensor] \in 1 .. MAX_TIME
  /\ pc = "first" => item = sensor /\ sensor \in Stored
  /\ pc = "record" => item = NULL \/ (item = sensor /\ sensor \in Stored)

\* The newest record is the stored reading unless main has yet to record it.
CurrentInv ==
  \A s \in Stored :
    Defined(s) /\ history[s].records # << >> =>
      \/ pc # "idle" /\ sensor = s
      \/ Last(history[s].records) = [time |-> data_time[s], value |-> value[s]]

Inv == TypeOK /\ HistoryInv /\ ValueInv /\ MainInv /\ CurrentInv /\ SortedByDefinition

\* The records of a history are no older than the latest reading.
LEMMA LinkedType ==
  ASSUME NEW newest, NEW h, Linked(h, newest)
  PROVE  /\ h \in Histories /\ h.records \in Seq(Records)
         /\ h.last = Len(h.records) /\ h.last \in 0 .. Len(h.records)
         /\ h.count \in Nat /\ h.count >= Len(h.records)
<1>1. h \in Histories /\ h.last = Len(h.records) /\ h.count >= Len(h.records)
  BY DEF Linked
<1> QED
  BY <1>1, HistoryType

\* A list stays linked when time goes on.
LEMMA LinkedLonger ==
  ASSUME NEW old \in Nat, NEW new \in Nat, old <= new, NEW h, Linked(h, old)
  PROVE  Linked(h, new)
<1>1. Len(h.records) \in Nat /\ \A i \in 1 .. Len(h.records) : h.records[i].time \in Nat
  BY HistoryType DEF Linked
<1>2. \A i \in 1 .. Len(h.records) : h.records[i].time <= new
  BY <1>1 DEF Linked
<1> QED
  BY <1>2 DEF Linked

\* The types of the histories follow from HistoryInv.
OthersTypeOK ==
  /\ now \in 1 .. MAX_TIME
  /\ capacity \in Capacities
  /\ items \in Seq(Sensors)
  /\ value \in [Sensors -> Values \cup {NULL}]
  /\ data_time \in [Sensors -> 0 .. MAX_TIME]
  /\ defData \in [Sensors -> BOOLEAN]
  /\ pc \in {"idle", "add", "first", "record", "crashed"}
  /\ sensor \in Sensors \cup {NULL}
  /\ reading \in Values \cup {NULL}
  /\ item \in Sensors \cup {NULL}

\* The type invariant from the types of its parts.
LEMMA HistoryTypeOK ==
  ASSUME OthersTypeOK, HistoryInv
  PROVE  TypeOK
<1>1. ASSUME NEW s \in Sensors
      PROVE  /\ history[s].records \in Seq([time : 1 .. MAX_TIME, value : Values])
             /\ history[s].last \in 0 .. Len(history[s].records)
             /\ history[s].count \in Nat
  BY LinkedType DEF HistoryInv, Records
<1> QED
  BY <1>1 DEF OthersTypeOK, TypeOK

\* The same of the next state.
LEMMA HistoryTypeOKNext == OthersTypeOK' /\ HistoryInv' => TypeOK'
<1>1. OthersTypeOK /\ HistoryInv => TypeOK
  BY HistoryTypeOK
<1> QED
  BY <1>1, PTL

\* An empty store has no history.
LEMMA InitInv ==
  ASSUME StoreAssumption, Init
  PROVE  Inv
<1>1. OthersTypeOK
  BY DEF Init, OthersTypeOK, StoreAssumption
<1>2. HistoryInv
  <2>1. << >> \in Seq(Records) /\ Len(<< >>) = 0
    OBVIOUS
  <2>2. NoHistory \in Histories /\ NoHistory.records = << >> /\ NoHistory.last = 0
        /\ NoHistory.count = 0
    BY <2>1 DEF NoHistory, Histories
  <2>3. Linked(NoHistory, 0)
    BY <2>1, <2>2 DEF Linked
  <2> QED
    BY <2>2, <2>3 DEF Init, HistoryInv
<1>3. Stored = {} /\ SortedByDefinition
  BY DEF Init, Stored, ToSet, SortedByDefinition, IsInjective
<1>4. ValueInv /\ MainInv /\ CurrentInv
  BY <1>3 DEF Init, ValueInv, MainInv, CurrentInv
<1> QED
  BY <1>1, <1>2, <1>3, <1>4, HistoryTypeOK DEF Inv

\* Nothing gets older than it is when time goes on.
LEMMA TickInv ==
  ASSUME StoreAssumption, Inv, Tick
  PROVE  Inv'
<1>1. OthersTypeOK'
  BY DEF Inv, TypeOK, Tick, OthersTypeOK, itemVars, mainVars, StoreAssumption
<1>2. HistoryInv'
  BY DEF Inv, HistoryInv, Tick, itemVars
<1>3. Stored' = Stored /\ SortedByDefinition'
  BY DEF Inv, Tick, itemVars, Stored, SortedByDefinition
<1>4. ValueInv'
  <2>1. \A s \in Sensors : data_time[s] \in Nat /\ data_time[s] <= now /\ now \in Nat
    BY DEF Inv, TypeOK, ValueInv, StoreAssumption
  <2> QED
    BY <1>3, <2>1 DEF Inv, ValueInv, Tick, itemVars
<1>5. MainInv' /\ CurrentInv'
  BY <1>3 DEF Inv, MainInv, CurrentInv, Tick, itemVars, mainVars
<1> QED
  BY <1>1, <1>2, <1>3, <1>4, <1>5, HistoryTypeOKNext DEF Inv

\* A reading changes only the item of its sensor, which main then owns.
LEMMA UpdateInv ==
  ASSUME StoreAssumption, Inv, pc = "idle", NEW s \in Sensors, NEW v \in Values,
         data_time' = [data_time EXCEPT ![s] = now],
         value' = [value EXCEPT ![s] = v],
         sensor' = s, reading' = v,
         \/ s \notin Stored /\ pc' = "add" /\ item' = item
         \/ s \in Stored /\ pc' = "record" /\ item' = s,
         UNCHANGED <<now, capacity, items, history, defData>>
  PROVE  Inv'
<1>1. OthersTypeOK'
  BY DEF Inv, TypeOK, OthersTypeOK, StoreAssumption
<1>2. HistoryInv'
  <2>1. ASSUME NEW x \in Sensors
        PROVE  Linked(history[x], data_time'[x])
    <3>1. /\ data_time[x] \in Nat /\ data_time[x] <= now /\ now \in Nat
          /\ data_time'[x] = IF x = s THEN now ELSE data_time[x]
          /\ Linked(history[x], data_time[x])
      BY DEF Inv, TypeOK, ValueInv, HistoryInv, StoreAssumption
    <3> QED
      BY <3>1, LinkedLonger
  <2> QED
    BY <2>1 DEF Inv, HistoryInv
<1>3. Stored' = Stored /\ SortedByDefinition'
  BY DEF Inv, Stored, SortedByDefinition
<1>4. \A x \in Sensors : data_time'[x] = (IF x = s THEN now ELSE data_time[x])
                        /\ value'[x] = (IF x = s THEN v ELSE value[x])
  BY DEF Inv, TypeOK
<1>5. Stored \subseteq Sensors /\ now \in 1 .. MAX_TIME /\ now \in Nat
  BY DEF Inv, TypeOK, Stored, ToSet, StoreAssumption
<1>6. ValueInv'
  BY <1>3, <1>4, <1>5 DEF Inv, ValueInv
<1>7. MainInv'
  BY <1>3, <1>4, <1>5 DEF MainInv
<1>8. CurrentInv'
  BY <1>3, <1>4, <1>5 DEF Inv, CurrentInv
<1> QED
  BY <1>1, <1>2, <1>3, <1>6, <1>7, <1>8, HistoryTypeOKNext DEF Inv

\* The new item is put where its definition belongs; nothing else moves.
LEMMA AddItemInv ==
  ASSUME StoreAssumption, Inv, AddItem
  PROVE  Inv'
<1>1. /\ items' \in Seq(Sensors) /\ Stored' = Stored \cup {sensor}
      /\ SortedByDefinition'
  BY InsertKeepsOrder DEF Inv, TypeOK, MainInv, AddItem
<1>2. OthersTypeOK'
  BY <1>1 DEF Inv, TypeOK, OthersTypeOK, AddItem
<1>3. HistoryInv'
  BY DEF Inv, HistoryInv, AddItem
<1>4. ValueInv' /\ MainInv' /\ CurrentInv'
  BY <1>1 DEF Inv, ValueInv, MainInv, CurrentInv, AddItem
<1> QED
  BY <1>1, <1>2, <1>3, <1>4, HistoryTypeOKNext DEF Inv

\* When the array is full, no item is added.
LEMMA AddFailsInv ==
  ASSUME StoreAssumption, Inv, AddFails \/ NullItem
  PROVE  Inv'
<1>1. OthersTypeOK'
  BY DEF Inv, TypeOK, OthersTypeOK, AddFails, NullItem, itemVars
<1>2. HistoryInv'
  BY DEF Inv, HistoryInv, AddFails, NullItem, itemVars
<1>3. Stored' = Stored /\ SortedByDefinition'
  BY DEF Inv, Stored, SortedByDefinition, AddFails, NullItem, itemVars
<1>4. ValueInv' /\ MainInv' /\ CurrentInv'
  BY <1>3 DEF Inv, ValueInv, MainInv, CurrentInv, AddFails, NullItem, itemVars
<1> QED
  BY <1>1, <1>2, <1>3, <1>4, HistoryTypeOKNext DEF Inv

\* Main appends the stored reading of its item.
LEMMA RecordInv ==
  ASSUME StoreAssumption, Inv, item \in Stored, data_time' = data_time,
         NEW h, Linked(h, data_time[item]),
         NEW r, r = [time |-> data_time[item], value |-> value[item]],
         history' = [history EXCEPT ![item] = AddRecord(h, r)]
  PROVE  /\ HistoryInv'
         /\ Last(history'[item].records) = r
         /\ \A s \in Sensors \ {item} : history'[s] = history[s]
<1>1. /\ item \in Sensors /\ r \in Records /\ r.time = data_time[item]
      /\ data_time[item] \in Nat
  <2>1. item \in Sensors /\ data_time[item] \in 1 .. MAX_TIME /\ value[item] \in Values
    BY DEF Inv, TypeOK, Stored, ToSet, ValueInv
  <2> QED
    BY <2>1 DEF Records, StoreAssumption
<1> DEFINE g == AddRecord(h, r)
<1>2. Linked(g, data_time[item]) /\ Last(g.records) = r
  BY <1>1, AddRecordLinked
<1>3. g \in Histories
  BY <1>2 DEF Linked
<1>4. history \in [Sensors -> Histories] /\ \A s \in Sensors : Linked(history[s], data_time[s])
  BY DEF Inv, HistoryInv
<1> HIDE DEF g
<1>5. /\ history' \in [Sensors -> Histories]
      /\ \A s \in Sensors : history'[s] = IF s = item THEN g ELSE history[s]
  BY <1>1, <1>3, <1>4 DEF g
<1> QED
  BY <1>1, <1>2, <1>4, <1>5 DEF HistoryInv

\* The first record of a new item.
LEMMA AddFirstRecordInv ==
  ASSUME StoreAssumption, Inv, AddFirstRecord
  PROVE  Inv'
<1>1. item = sensor /\ item \in Stored
  BY DEF Inv, MainInv, AddFirstRecord
<1>2. OthersTypeOK' /\ Stored' = Stored /\ SortedByDefinition'
  BY DEF Inv, TypeOK, OthersTypeOK, Stored, SortedByDefinition, AddFirstRecord, itemVars
<1>3. data_time' = data_time /\ value' = value
  BY DEF AddFirstRecord, itemVars
<1>4. HistoryInv' /\ \A s \in Sensors \ {item} : history'[s] = history[s]
  <2>1. CASE ~Defined(item)
    BY <1>3, <2>1 DEF Inv, HistoryInv, AddFirstRecord
  <2>2. CASE Defined(item)
    <3>1. Linked(history[item], data_time[item])
      BY <1>1 DEF Inv, TypeOK, HistoryInv, Stored, ToSet
    <3>2. history' = [history EXCEPT ![item] =
                        AddRecord(history[item], [time |-> data_time[item], value |-> value[item]])]
      BY <2>2 DEF AddFirstRecord
    <3> QED
      BY <1>1, <1>3, <3>1, <3>2, RecordInv
  <2> QED
    BY <2>1, <2>2
<1>5. ValueInv' /\ MainInv'
  BY <1>1, <1>2, <1>3 DEF Inv, ValueInv, MainInv, AddFirstRecord
<1>6. CurrentInv'
  <2>1. \A s \in Stored : s # item => history'[s] = history[s]
    BY <1>4 DEF Inv, TypeOK, Stored, ToSet
  <2>2. pc' # "idle" /\ sensor' = item
    BY <1>1 DEF AddFirstRecord
  <2> QED
    BY <1>1, <1>2, <1>3, <2>1, <2>2 DEF Inv, CurrentInv
<1> QED
  BY <1>2, <1>4, <1>5, <1>6, HistoryTypeOKNext DEF Inv

\* update deletes what is outdated and adds the new reading.
LEMMA TruncateHistoryInv ==
  ASSUME StoreAssumption, Inv, TruncateHistory
  PROVE  Inv'
<1>1. item = sensor /\ item \in Stored
  BY DEF Inv, MainInv, TruncateHistory
<1>2. OthersTypeOK' /\ Stored' = Stored /\ SortedByDefinition'
  BY DEF Inv, TypeOK, OthersTypeOK, Stored, SortedByDefinition, TruncateHistory, itemVars
<1>3. data_time' = data_time /\ value' = value
  BY DEF TruncateHistory, itemVars
<1> DEFINE r == [time |-> data_time[item], value |-> value[item]]
<1>4. /\ HistoryInv' /\ \A s \in Sensors \ {item} : history'[s] = history[s]
      /\ Defined(item) => Last(history'[item].records) = r
  <2>1. CASE ~Defined(item)
    BY <1>3, <2>1 DEF Inv, HistoryInv, TruncateHistory
  <2>2. CASE Defined(item)
    <3> DEFINE h == Truncate(history[item], now - HISTORY_DEPTH)
    <3>1. Linked(history[item], data_time[item])
      BY <1>1 DEF Inv, TypeOK, HistoryInv, Stored, ToSet
    <3>2. data_time[item] \in Nat /\ now - HISTORY_DEPTH \in Int
      BY <1>1 DEF Inv, TypeOK, ValueInv, StoreAssumption
    <3>3. Linked(h, data_time[item])
      BY <3>1, <3>2, TruncateLinked
    <3>4. history' = [history EXCEPT ![item] = AddRecord(h, r)]
      BY <1>1, <2>2 DEF TruncateHistory, Inv, HistoryInv
    <3> HIDE DEF h
    <3> QED
      BY <1>1, <1>3, <3>3, <3>4, RecordInv
  <2> QED
    BY <2>1, <2>2
<1>5. ValueInv' /\ MainInv'
  BY <1>1, <1>2, <1>3 DEF Inv, ValueInv, MainInv, TruncateHistory
<1>6. CurrentInv'
  <2>1. \A s \in Stored : s # item => history'[s] = history[s]
    BY <1>4 DEF Inv, TypeOK, Stored, ToSet
  <2>2. ASSUME NEW s \in Stored, Defined(s), history'[s].records # << >>
        PROVE  Last(history'[s].records) = [time |-> data_time[s], value |-> value[s]]
    <3>1. CASE s = item
      BY <1>4, <2>2, <3>1
    <3>2. CASE s # item
      BY <1>1, <2>1, <2>2, <3>2 DEF Inv, CurrentInv
    <3> QED
      BY <3>1, <3>2
  <2> HIDE DEF r
  <2> QED
    BY <1>2, <1>3, <2>2 DEF CurrentInv, Defined
<1> QED
  BY <1>2, <1>4, <1>5, <1>6, HistoryTypeOKNext DEF Inv

\* The HTTP server changes the list only by deleting what is outdated.
LEMMA RequestInv ==
  ASSUME StoreAssumption, Inv, NEW s \in Sensors, FindByDefinition(s) \/ GetHistory(s)
  PROVE  Inv'
<1>1. OthersTypeOK' /\ Stored' = Stored /\ SortedByDefinition'
  BY DEF Inv, TypeOK, OthersTypeOK, Stored, SortedByDefinition, FindByDefinition, GetHistory,
         itemVars, mainVars
<1>2. data_time' = data_time /\ value' = value
  BY DEF FindByDefinition, GetHistory, itemVars
<1>3. /\ HistoryInv'
      /\ \A x \in Sensors :
           history'[x].records # << >> =>
             /\ history[x].records # << >>
             /\ Last(history'[x].records) = Last(history[x].records)
  <2>1. CASE FindByDefinition(s)
    BY <1>2, <2>1 DEF Inv, HistoryInv, FindByDefinition
  <2>2. CASE GetHistory(s)
    <3> DEFINE g == AfterGet(history[s], 0, now)
    <3>1. /\ history \in [Sensors -> Histories]
          /\ \A x \in Sensors : Linked(history[x], data_time[x]) /\ data_time[x] \in Nat
          /\ now \in Nat /\ HISTORY_DEPTH \in Nat
      BY DEF Inv, TypeOK, HistoryInv, StoreAssumption
    <3>2. /\ Linked(g, data_time[s])
          /\ g.records # << >> => /\ history[s].records # << >>
                                  /\ Last(g.records) = Last(history[s].records)
      BY <3>1, AfterGetLinked
    <3>3. g \in Histories
      BY <3>2 DEF Linked
    <3>4. history' = [history EXCEPT ![s] = g]
      BY <2>2, <3>1 DEF GetHistory
    <3> HIDE DEF g
    <3>5. /\ history' \in [Sensors -> Histories]
          /\ \A x \in Sensors : history'[x] = IF x = s THEN g ELSE history[x]
      BY <3>1, <3>3, <3>4
    <3> QED
      BY <1>2, <3>1, <3>2, <3>5 DEF HistoryInv
  <2> QED
    BY <2>1, <2>2
<1>4. ValueInv' /\ MainInv'
  BY <1>1, <1>2 DEF Inv, ValueInv, MainInv, FindByDefinition, GetHistory, mainVars, itemVars
<1>5. CurrentInv'
  BY <1>1, <1>2, <1>3 DEF Inv, TypeOK, Stored, ToSet, CurrentInv, FindByDefinition, GetHistory,
         mainVars, itemVars
<1> QED
  BY <1>1, <1>3, <1>4, <1>5, HistoryTypeOKNext DEF Inv

\* No step of the main loop or of a request breaks the invariant.
LEMMA NextInv ==
  ASSUME StoreAssumption, Inv, [Next]_vars
  PROVE  Inv'
<1>1. ASSUME NEW s \in Sensors, NEW v \in Values,
             UpdateUnknown(s, v) \/ UpdateSame(s, v) \/ UpdateChanged(s, v)
      PROVE  Inv'
  <2>1. value[s] = v => value = [value EXCEPT ![s] = v]
    BY DEF Inv, TypeOK
  <2>2. CASE UpdateUnknown(s, v)
    BY <2>2, UpdateInv DEF UpdateUnknown, Receive
  <2>3. CASE UpdateSame(s, v)
    BY <2>1, <2>3, UpdateInv DEF UpdateSame, Receive
  <2>4. CASE UpdateChanged(s, v)
    BY <2>4, UpdateInv DEF UpdateChanged, Receive
  <2> QED
    BY <1>1, <2>2, <2>3, <2>4
<1>2. CASE UNCHANGED vars
  <2>1. UNCHANGED <<now, capacity, items, value, data_time, history, defData, pc, sensor,
                    reading, item>>
    BY <1>2 DEF vars, itemVars, mainVars
  <2>2. Stored' = Stored
    BY <2>1 DEF Stored
  <2>3. HistoryInv' /\ ValueInv' /\ MainInv' /\ CurrentInv' /\ SortedByDefinition'
    BY <2>1, <2>2 DEF Inv, HistoryInv, ValueInv, MainInv, CurrentInv, SortedByDefinition
  <2>4. OthersTypeOK'
    BY <2>1 DEF Inv, TypeOK, OthersTypeOK
  <2> QED
    BY <2>3, <2>4, HistoryTypeOKNext DEF Inv
<1> QED
  BY <1>1, <1>2, TickInv, AddItemInv, AddFailsInv, AddFirstRecordInv, TruncateHistoryInv,
     RequestInv DEF Next

\* The invariant always holds.
LEMMA SpecInv == Spec => []Inv
<1>1. Init => Inv
  BY InitInv, StoreAssumption
<1>2. Inv /\ [Next]_vars => Inv'
  BY NextInv, StoreAssumption
<1> QED
  BY <1>1, <1>2, PTL DEF Spec

\* Records have a time and a value, and `last` is NULL or one of them.
THEOREM TypeCorrect == Spec => []TypeOK
<1>1. Inv => TypeOK
  BY DEF Inv
<1> QED
  BY <1>1, SpecInv, PTL

\* The items stay in the order of the configuration file, each once, however many
\* sensors there are and in whatever order they are heard (SensorsData::add).
THEOREM StaysSorted == Spec => []SortedByDefinition
<1>1. Inv => SortedByDefinition
  BY DEF Inv
<1> QED
  BY <1>1, SpecInv, PTL

\* Between two messages the newest record of a history is the stored temperature
\* (SensorsData::update, Protocol::update).
THEOREM NewestIsStored == Spec => []HistoryIsCurrent
<1>1. Inv => HistoryIsCurrent
  BY DEF Inv, CurrentInv, HistoryIsCurrent
<1> QED
  BY <1>1, SpecInv, PTL

\* The list of records stays ordered and `last` is its end, also when requests delete
\* from it between two updates (History::add, truncate and get).
THEOREM StaysLinked == Spec => []HistoryIsLinked
<1>1. Inv => HistoryIsLinked
  BY DEF Inv, HistoryInv, Linked, HistoryIsLinked
<1> QED
  BY <1>1, SpecInv, PTL

\* The member count is never smaller than the number of records, although get does
\* not decrement it.
THEOREM CountIsNeverTooSmall == Spec => []CountIsEnough
<1>1. Inv => CountIsEnough
  BY DEF Inv, HistoryInv, Linked, CountIsEnough
<1> QED
  BY <1>1, SpecInv, PTL

-----------------------------------------------------------------------------
(* What a request gets                                                     *)

\* The part of q that ends before the first record after `to`.
LEMMA PrefixBounds ==
  ASSUME NEW q \in Seq(Records), NEW to \in Nat,
         NEW k, k = PrefixLength(q, LAMBDA r : to = 0 \/ r.time <= to)
  PROVE  /\ k \in 0 .. Len(q)
         /\ \A i \in 1 .. k : to = 0 \/ q[i].time <= to
         /\ k < Len(q) => ~(to = 0 \/ q[k + 1].time <= to)
<1> DEFINE N == Len(q)
           ends == {i \in 1 .. N : ~(to = 0 \/ q[i].time <= to)}
           m == CHOOSE i \in ends : \A e \in ends : i <= e
<1>1. k = IF ends = {} THEN N ELSE m - 1
  BY DEF PrefixLength
<1>2. N \in Nat
  OBVIOUS
<1>3. ends \in SUBSET Nat /\ ends \subseteq 1 .. N
  BY <1>2
<1>4. ends # {} => m \in ends /\ \A e \in ends : m <= e
  <2> HIDE DEF ends
  <2> QED
    BY <1>3, LeastIsChosen
<1>5. \A i \in 1 .. N : i \in ends <=> ~(to = 0 \/ q[i].time <= to)
  OBVIOUS
<1> HIDE DEF ends, m, N
<1>6. k \in 0 .. N
  BY <1>1, <1>2, <1>3, <1>4
<1>7. \A i \in 1 .. k : i \in 1 .. N /\ i \notin ends
  BY <1>1, <1>2, <1>3, <1>4
<1>8. k < N => k + 1 \in ends /\ k + 1 \in 1 .. N
  BY <1>1, <1>2, <1>3, <1>4
<1> QED
  BY <1>5, <1>6, <1>7, <1>8 DEF N

\* The records that get copies are a part of the list without a gap.
LEMMA CopiedInRange ==
  ASSUME StoreAssumption, NEW newest \in Nat, NEW h, Linked(h, newest),
         NEW to \in Nat, NEW time \in Nat
  PROVE  \E first \in 1 .. Len(h.records) + 1, last \in 0 .. Len(h.records) :
           /\ CopiedByGet(h, 0, to, time) = SubSeq(h.records, first, last)
           /\ \A i \in 1 .. Len(h.records) :
                i \in first .. last <=> InRange(h.records[i], time - HISTORY_DEPTH, to)
<1> DEFINE N == Len(h.records)
           from == time - HISTORY_DEPTH
           n == Outdated(h, from)
           kept == Unlink(h, n).records
           found == SubSeq(kept, 0 + 1, Len(kept))
           k == PrefixLength(found, LAMBDA r : to = 0 \/ r.time <= to)
<1>1. from \in Int
  BY DEF StoreAssumption
<1>2. /\ h \in Histories /\ h.records \in Seq(Records) /\ N \in Nat
      /\ \A i \in 1 .. N : h.records[i] \in Records /\ h.records[i].time \in Nat
      /\ \A i, j \in 1 .. N : i < j => h.records[i].time <= h.records[j].time
  BY HistoryType DEF Linked
<1>3. /\ n \in 0 .. N
      /\ \A i \in 1 .. n : h.records[i].time < from
      /\ n < N => h.records[n + 1].time >= from
  <2> HIDE DEF from
  <2> QED
    BY <1>1, <1>2, OutdatedBounds
<1> HIDE DEF n
<1>4. /\ Len(kept) = N - n /\ kept \in Seq(Records)
      /\ \A i \in 1 .. N - n : kept[i] = h.records[n + i]
  <2> DEFINE g == Unlink(h, n)
  <2>1. /\ Linked(g, newest) /\ Len(g.records) = N - n
        /\ \A i \in 1 .. N - n : g.records[i] = h.records[n + i]
    BY <1>3, UnlinkLinked
  <2>2. g.records \in Seq(Records)
    BY <2>1, LinkedType
  <2> HIDE DEF g
  <2> QED
    BY <2>1, <2>2 DEF g
<1>5. CopiedByGet(h, 0, to, time) = SubSeq(found, 1, k)
  BY DEF CopiedByGet, AfterGet, kept, n
<1> HIDE DEF kept
<1>6. found = kept
  <2>1. SubSeq(kept, 1, Len(kept)) = kept
    BY <1>4, SubSeqFull
  <2> QED
    BY <2>1
<1> HIDE DEF found
<1>7. /\ k \in 0 .. N - n
      /\ \A i \in 1 .. k : to = 0 \/ kept[i].time <= to
      /\ k < N - n => ~(to = 0 \/ kept[k + 1].time <= to)
  <2>1. found \in Seq(Records)
    BY <1>4, <1>6
  <2>2. /\ k \in 0 .. Len(found)
        /\ \A i \in 1 .. k : to = 0 \/ found[i].time <= to
        /\ k < Len(found) => ~(to = 0 \/ found[k + 1].time <= to)
    BY <2>1, PrefixBounds
  <2> HIDE DEF k
  <2> QED
    BY <1>4, <1>6, <2>2
<1> HIDE DEF k, N, from
<1>8. SubSeq(kept, 1, k) = SubSeq(h.records, n + 1, n + k)
  <2>1. \A i \in 1 .. k : kept[i] \in Records /\ kept[i] = h.records[n + i]
    BY <1>2, <1>3, <1>4, <1>7
  <2>2. \A i \in n + 1 .. n + k : h.records[i] \in Records
    BY <1>2, <1>3, <1>7
  <2>3. /\ SubSeq(kept, 1, k) \in Seq(Records)
        /\ Len(SubSeq(kept, 1, k)) = k
        /\ \A i \in 1 .. k : SubSeq(kept, 1, k)[i] = kept[i]
    <3>1. /\ SubSeq(kept, 1, k) \in Seq(Records)
          /\ Len(SubSeq(kept, 1, k)) = IF 1 <= k THEN k - 1 + 1 ELSE 0
          /\ \A i \in 1 .. k - 1 + 1 : SubSeq(kept, 1, k)[i] = kept[1 + i - 1]
      BY <1>3, <1>7, <2>1, SubSeqProperties
    <3> QED
      BY <1>3, <1>7, <3>1
  <2>4. /\ SubSeq(h.records, n + 1, n + k) \in Seq(Records)
        /\ Len(SubSeq(h.records, n + 1, n + k)) = k
        /\ \A i \in 1 .. k : SubSeq(h.records, n + 1, n + k)[i] = h.records[n + i]
    <3>1. /\ SubSeq(h.records, n + 1, n + k) \in Seq(Records)
          /\ Len(SubSeq(h.records, n + 1, n + k)) =
                IF n + 1 <= n + k THEN n + k - (n + 1) + 1 ELSE 0
          /\ \A i \in 1 .. n + k - (n + 1) + 1 :
               SubSeq(h.records, n + 1, n + k)[i] = h.records[n + 1 + i - 1]
      BY <1>3, <1>7, <2>2, SubSeqProperties
    <3> QED
      BY <1>3, <1>7, <3>1
  <2> QED
    BY <2>1, <2>3, <2>4, SeqEqual
<1>9. ASSUME NEW i \in 1 .. N
      PROVE  i \in n + 1 .. n + k <=> InRange(h.records[i], from, to)
  <2>1. CASE i <= n
    BY <1>1, <1>2, <1>3, <2>1 DEF InRange
  <2>2. CASE i > n
    <3>1. h.records[i].time >= from
      <4>1. n + 1 \in 1 .. N /\ n < N /\ (n + 1 = i \/ n + 1 < i)
        BY <1>2, <1>3, <2>2
      <4>2. h.records[n + 1].time <= h.records[i].time
        BY <1>2, <4>1
      <4>3. h.records[n + 1].time >= from
        BY <1>3, <4>1
      <4>4. h.records[n + 1].time \in Nat /\ h.records[i].time \in Nat
        BY <1>2, <4>1
      <4> QED
        BY <1>1, <4>2, <4>3, <4>4
    <3>2. CASE i <= n + k
      <4>1. i - n \in 1 .. k /\ n + (i - n) = i
        BY <1>2, <1>3, <1>7, <2>2, <3>2
      <4>2. i - n \in 1 .. N - n /\ i \in n + 1 .. n + k
        BY <1>2, <1>3, <1>7, <2>2, <3>2, <4>1
      <4>3. kept[i - n] = h.records[i]
        BY <1>4, <4>1, <4>2
      <4>4. to = 0 \/ h.records[i].time <= to
        BY <1>7, <4>1, <4>3
      <4> QED
        BY <3>1, <4>2, <4>4 DEF InRange
    <3>3. CASE i > n + k
      <4>1. k + 1 \in 1 .. N - n /\ n + k + 1 \in 1 .. N /\ n + k + 1 <= i
        BY <1>2, <1>3, <1>7, <2>2, <3>3
      <4>2. ~(to = 0 \/ h.records[n + k + 1].time <= to)
        BY <1>3, <1>4, <1>7, <4>1
      <4>3. h.records[n + k + 1].time <= h.records[i].time
        BY <1>2, <4>1
      <4> QED
        BY <1>2, <1>3, <1>7, <3>3, <4>1, <4>2, <4>3 DEF InRange
    <3> QED
      BY <1>2, <1>3, <1>7, <3>2, <3>3
  <2> QED
    BY <1>2, <1>3, <2>1, <2>2
<1>10. n + 1 \in 1 .. N + 1 /\ n + k \in 0 .. N
  BY <1>2, <1>3, <1>7
<1> QED
  BY <1>5, <1>6, <1>8, <1>9, <1>10 DEF N, from

\* A request for the latest records gets all that are younger than HISTORY_DEPTH, in
\* order, for a history of any length (History::get).
THEOREM RequestIsAnswered == Spec => []LatestIsCopied
<1>1. Inv => LatestIsCopied
  <2> SUFFICES ASSUME Inv, NEW s \in Sensors, NEW to \in 0 .. MAX_TIME
               PROVE  \E first \in 1 .. Len(history[s].records) + 1,
                         last \in 0 .. Len(history[s].records) :
                        /\ CopiedByGet(history[s], 0, to, now) =
                             SubSeq(history[s].records, first, last)
                        /\ \A i \in 1 .. Len(history[s].records) :
                             i \in first .. last <=>
                               InRange(history[s].records[i], now - HISTORY_DEPTH, to)
    BY DEF LatestIsCopied
  <2>1. /\ Linked(history[s], data_time[s]) /\ data_time[s] \in Nat
        /\ now \in Nat /\ to \in Nat
    BY StoreAssumption DEF Inv, TypeOK, HistoryInv, StoreAssumption
  <2> QED
    BY <2>1, StoreAssumption, CopiedInRange
<1> QED
  BY <1>1, SpecInv, PTL
=============================================================================
