------------------------------ MODULE History ------------------------------
(***************************************************************************)
(* The History structure of common/SensorsData.hpp: the readings of one    *)
(* sensor that may be younger than a day, a linked list behind chain_mutex.*)
(* Every operation runs under the mutex, so each is one operator on        *)
(*                                                                         *)
(*   [records |-> the readings from first on, oldest first,                *)
(*    last    |-> position of the record `last` points to, 0 for NULL,     *)
(*    count   |-> the member count]                                        *)
(***************************************************************************)
EXTENDS Integers, Sequences

CONSTANT HISTORY_DEPTH   \* HISTORY_DEPTH_HOURS

NoHistory == [records |-> << >>, last |-> 0, count |-> 0]

\* Mutant for CountIsEnough: count is not incremented.
AddRecordMutant(h, record) ==
  [records |-> Append(SubSeq(h.records, 1, h.last), record),
   last    |-> h.last + 1,
   count   |-> h.count]

\* History::add.  What would follow `last` gets lost.
AddRecord(h, record) ==
  [records |-> Append(SubSeq(h.records, 1, h.last), record),
   last    |-> h.last + 1,
   count   |-> h.count + 1]

\* Length of the longest prefix of records that satisfy Test.
PrefixLength(records, Test(_)) ==
  LET ends == {k \in 1 .. Len(records) : ~Test(records[k])}
  IN  IF ends = {} THEN Len(records) ELSE (CHOOSE k \in ends : \A e \in ends : k <= e) - 1

\* Mutant for LatestIsCopied: a record of exactly this time is removed, too.
OutdatedMutant(h, time) == PrefixLength(h.records, LAMBDA r : r.time <= time)

\* The number of records at the beginning of the list that are older than `time`.
Outdated(h, time) == PrefixLength(h.records, LAMBDA r : r.time < time)

\* Unlinks the first n records; nothing is left to point to after the last one.
Unlink(h, n) ==
  [h EXCEPT !.records = SubSeq(@, n + 1, Len(@)),
            !.last = IF n = Len(h.records) THEN 0 ELSE @ - n]

\* History::truncate(from)
Truncate(h, from) ==
  LET n == Outdated(h, from)
  IN  [Unlink(h, n) EXCEPT !.count = @ - n]

\* Mutant for TypeOK and HistoryIsLinked: a request that empties the list leaves `last`.
AfterGetMutant(h, from, now) ==
  LET n == Outdated(h, now - HISTORY_DEPTH)
  IN  IF from # 0 THEN h
      ELSE IF n = Len(h.records) THEN [h EXCEPT !.records = << >>]
      ELSE Unlink(h, n)

\* The history that History::get leaves.  It decrements its own argument `count`
\* and not the member that the argument hides.
AfterGet(h, from, now) ==
  IF from = 0 THEN Unlink(h, Outdated(h, now - HISTORY_DEPTH)) ELSE h

\* What History::get copies.  0 stands for no limit.
CopiedByGet(h, from, to, now) ==
  LET kept  == AfterGet(h, from, now).records
      skip  == IF from = 0 THEN 0 ELSE PrefixLength(kept, LAMBDA r : r.time >= from)
      found == SubSeq(kept, skip + 1, Len(kept))
  IN  SubSeq(found, 1, PrefixLength(found, LAMBDA r : to = 0 \/ r.time <= to))
=============================================================================
