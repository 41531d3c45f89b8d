---------------------------- MODULE SequencePool ----------------------------
(***************************************************************************)
(* The two ring buffers of common/Receiver.cpp (pigpio build): `pool` with *)
(* the measured intervals and the ring of sequence descriptors.  The       *)
(* interrupt handler (Receiver::handleInterrupt) writes them without any   *)
(* lock while the decoder thread (Receiver::createNewMessage) reads them.  *)
(*                                                                         *)
(* The handler is one thread of control and the decoder another.  Both are *)
(* cut where they touch an index the other one writes: the handler reads   *)
(* iPoolRead when it stores an interval, then iSequenceReady when it ends  *)
(* a sequence, then publishes iSequenceWrite; the decoder reads the        *)
(* descriptor, advances iSequenceReady, copies the intervals one by one    *)
(* and only then advances iPoolRead.                                       *)
(*                                                                         *)
(* Time is abstracted to the interval since the previous edge (an input)   *)
(* and to goodAge, the time since nLastGoodTime.  Memory is sequentially   *)
(* consistent here: `volatile` orders nothing on ARM (see the README).     *)
(***************************************************************************)
EXTENDS Integers, Sequences

CONSTANTS
  POOL_SIZE,            \* number of cells of pool
  MAX_CHAINS,           \* number of sequence descriptors
  MAX_SEQUENCE_LENGTH,  \* a sequence is closed when it gets this long
  IGNORABLE_SKIP,       \* longest spike the noise filter ignores
  MAX_IGNORD_SKIPS,     \* number of spikes the noise filter ignores in a row
  MAX_PERIOD,           \* longest interval the noise filter restores
  min_sequence_length,  \* limits computed by Protocol::setLimits
  min_duration,
  max_duration,
  Durations,            \* the intervals the environment may produce
  MissedInterrupts      \* TRUE: an edge may be lost, so a level may repeat

ASSUME PoolAssumption ==
  /\ POOL_SIZE \in Nat /\ POOL_SIZE > 1
  /\ MAX_CHAINS \in Nat /\ MAX_CHAINS > 1
  /\ min_sequence_length \in Nat \ {0}
  /\ MAX_SEQUENCE_LENGTH \in Nat /\ MAX_SEQUENCE_LENGTH > 1

INT16_MAX == 32767

\* enableReceive limits max_duration to 10000, which fits into the int16_t of pool.
ASSUME FilterAssumption ==
  /\ IGNORABLE_SKIP \in Nat
  /\ MAX_IGNORD_SKIPS \in Nat
  /\ MAX_PERIOD \in Nat
  /\ min_duration \in Nat
  /\ max_duration \in 0 .. INT16_MAX
  /\ Durations \subseteq Nat
  /\ MissedInterrupts \in BOOLEAN

VARIABLES
  pool, iPoolWrite, iPoolRead,
  iSequenceStart, iSequenceSize, iSequenceWrite, iSequenceReady,
  iCurrentSequenceStart, iCurrentSequenceSize,
  lastLevel,            \* level after the last edge, -1 before the first one
  nNoiseFilterCounter,
  goodAge,              \* time - nLastGoodTime while a sequence is open, else 0
  isr,                  \* where the handler is
  dec,                  \* where the decoder is in createNewMessage
  start, size,          \* createNewMessage's copies of the descriptor
  pSequence             \* the intervals copied into the message so far

poolVars == <<pool, iPoolWrite, iCurrentSequenceStart, iCurrentSequenceSize>>
chainVars == <<iSequenceStart, iSequenceSize, iSequenceWrite>>
filterVars == <<lastLevel, nNoiseFilterCounter, goodAge>>
decoderVars == <<iPoolRead, iSequenceReady, dec, start, size, pSequence>>
vars == <<poolVars, chainVars, filterVars, isr, decoderVars>>

Cells == 0 .. POOL_SIZE - 1
Chains == 0 .. MAX_CHAINS - 1

\* index & (n - 1) for a power of two n and 0 <= index < 2n
Wrap(index, n) == IF index < n THEN index ELSE index - n

\* number of steps from a to b around a ring of n
Distance(a, b, n) == IF a <= b THEN b - a ELSE b - a + n

\* the conversion (int16_t)duration
Int16(duration) == ((duration + 32768) % 65536) - 32768

\* Every index stays within its ring and every size within the pool.
TypeOK ==
  /\ pool \in [Cells -> Int]
  /\ iPoolWrite \in Cells
  /\ iPoolRead \in Cells
  /\ iSequenceStart \in [Chains -> Cells]
  /\ iSequenceSize \in [Chains -> 0 .. POOL_SIZE - 1]
  /\ iSequenceWrite \in Chains
  /\ iSequenceReady \in Chains
  /\ iCurrentSequenceStart \in Cells
  /\ iCurrentSequenceSize \in 0 .. POOL_SIZE - 1
  /\ lastLevel \in {-1, 0, 1}
  /\ nNoiseFilterCounter \in Nat
  /\ goodAge \in 0 .. MAX_PERIOD + 1
  /\ isr \in {"idle", "enqueue", "publish"}
  /\ dec \in {"poll", "advance", "copy"}
  /\ start \in Cells
  /\ size \in 0 .. POOL_SIZE - 1
  /\ pSequence \in Seq(Int)

\* Receiver::resetReceiverBuffer, before the threads are started
Init ==
  /\ pool = [i \in Cells |-> 0]
  /\ iPoolWrite = 0
  /\ iPoolRead = 0
  /\ iSequenceStart = [j \in Chains |-> 0]
  /\ iSequenceSize = [j \in Chains |-> 0]
  /\ iSequenceWrite = 0
  /\ iSequenceReady = 0
  /\ iCurrentSequenceStart = 0
  /\ iCurrentSequenceSize = 0
  /\ lastLevel = -1
  /\ nNoiseFilterCounter = 0
  /\ goodAge = 0
  /\ isr = "idle"
  /\ dec = "poll"
  /\ start = 0
  /\ size = 0
  /\ pSequence = << >>

-----------------------------------------------------------------------------
(* The noise filter: what an edge at `level`, d after the previous edge,   *)
(* does to the sequence being recorded.                                    *)

\* goodAge is only compared with values up to MAX_PERIOD, so it stops there.
Age(d) == IF goodAge + d > MAX_PERIOD THEN MAX_PERIOD + 1 ELSE goodAge + d

SkipLimit == 2 * MAX_IGNORD_SKIPS

InSpike == nNoiseFilterCounter % 2 = 1
InGap == nNoiseFilterCounter > 0 /\ ~InSpike
NoNoise == nNoiseFilterCounter = 0

Step(level) == IF InSpike /\ level = lastLevel THEN 2 ELSE 1

\* The edge is counted by the filter.
Counted(level, d) ==
  \/ InSpike /\ d <= IGNORABLE_SKIP
  \/ InGap /\ d >= IGNORABLE_SKIP /\ level # lastLevel /\ Age(d) < min_duration
  \/ NoNoise /\ d < min_duration /\ level # 0 /\ d >= IGNORABLE_SKIP

\* Above the limit only the parity of the counter matters, so it stops there.
NextCounter(level, d) ==
  LET next == nNoiseFilterCounter + Step(level)
  IN  IF ~Counted(level, d) THEN nNoiseFilterCounter
      ELSE IF next > SkipLimit + 2 THEN next - 2 ELSE next

\* The edge ends the sequence.
Ends(level, d) ==
  \/ InSpike /\ ( d > IGNORABLE_SKIP
                  \/ nNoiseFilterCounter + Step(level) > SkipLimit
                  \/ Age(d) > MAX_PERIOD )
  \/ InGap /\ ( d < IGNORABLE_SKIP
                \/ level = lastLevel
                \/ Age(d) > MAX_PERIOD
                \/ (Age(d) < min_duration /\ nNoiseFilterCounter + 1 > SkipLimit) )
  \/ NoNoise /\ d < min_duration /\ (level = 0 \/ d < IGNORABLE_SKIP)

\* The edge is noise that is filtered out: the handler waits for the next one.
Waits(level, d) == Counted(level, d) /\ ~Ends(level, d)

\* Mutant for IntervalsWithinLimits: the filtered noise is not added back.
IntervalMutant(d) == d

\* The interval the edge closes, with the filtered noise restored.
Interval(d) == IF InGap THEN Age(d) ELSE d

-----------------------------------------------------------------------------
(* Receiver::handleInterrupt                                               *)

\* Mutant for TypeOK: the index is not wrapped around.
nextPoolIndexMutant == iPoolWrite + 1

nextPoolIndex == Wrap(iPoolWrite + 1, POOL_SIZE)

PoolFull == iPoolRead = nextPoolIndex

\* No sequence is being recorded and this edge cannot start one.
IgnoreEdge(level, d) ==
  /\ iCurrentSequenceSize = 0
  /\ level = lastLevel \/ level = 1 \/ d <= min_duration \/ PoolFull
  /\ UNCHANGED <<poolVars, nNoiseFilterCounter, goodAge, isr>>

\* Mutant for LevelsAlternate: a sequence may start with an interval of low level.
StartSequenceMutant(level, d) ==
  /\ iCurrentSequenceSize = 0
  /\ level # lastLevel /\ d > min_duration /\ ~PoolFull
  /\ pool' = [pool EXCEPT ![iPoolWrite] = Int16(d)]
  /\ iCurrentSequenceStart' = iPoolWrite
  /\ iPoolWrite' = nextPoolIndex
  /\ iCurrentSequenceSize' = 1
  /\ nNoiseFilterCounter' = 0
  /\ goodAge' = 0
  /\ UNCHANGED isr

\* The first interval: it has a lower bound but no upper one.
StartSequence(level, d) ==
  /\ iCurrentSequenceSize = 0
  /\ level # lastLevel /\ level # 1 /\ d > min_duration /\ ~PoolFull
  /\ pool' = [pool EXCEPT ![iPoolWrite] = Int16(d)]
  /\ iCurrentSequenceStart' = iPoolWrite
  /\ iPoolWrite' = nextPoolIndex
  /\ iCurrentSequenceSize' = 1
  /\ nNoiseFilterCounter' = 0
  /\ goodAge' = 0
  /\ UNCHANGED isr

FilterNoise(level, d) ==
  /\ iCurrentSequenceSize > 0
  /\ Waits(level, d)
  /\ nNoiseFilterCounter' = NextCounter(level, d)
  /\ goodAge' = Age(d)
  /\ UNCHANGED <<poolVars, isr>>

\* A good interval that leaves the sequence open.
StoreInterval(level, d) ==
  /\ iCurrentSequenceSize > 0
  /\ ~Waits(level, d) /\ ~Ends(level, d)
  /\ ~PoolFull
  /\ Interval(d) <= max_duration
  /\ iCurrentSequenceSize + 1 < MAX_SEQUENCE_LENGTH
  /\ pool' = [pool EXCEPT ![iPoolWrite] = Int16(Interval(d))]
  /\ iPoolWrite' = nextPoolIndex
  /\ iCurrentSequenceSize' = iCurrentSequenceSize + 1
  /\ nNoiseFilterCounter' = 0
  /\ goodAge' = 0
  /\ UNCHANGED <<iCurrentSequenceStart, isr>>

\* Mutant for NoOverflow: sequences that are one interval too short are published.
FinishMutant(n, w) ==
  \/ /\ n + 1 < min_sequence_length
     /\ iPoolWrite' = iCurrentSequenceStart
     /\ iCurrentSequenceSize' = 0
     /\ UNCHANGED isr
  \/ /\ n + 1 >= min_sequence_length
     /\ iPoolWrite' = w
     /\ iCurrentSequenceSize' = n
     /\ isr' = "enqueue"

\* end_of_sequence for n intervals when the last cell written is before w
Finish(n, w) ==
  \/ /\ n < min_sequence_length
     /\ iPoolWrite' = iCurrentSequenceStart
     /\ iCurrentSequenceSize' = 0
     /\ UNCHANGED isr
  \/ /\ n >= min_sequence_length
     /\ iPoolWrite' = w
     /\ iCurrentSequenceSize' = n
     /\ isr' = "enqueue"

\* The interval is stored and makes the sequence too long.
StoreLastInterval(level, d) ==
  /\ iCurrentSequenceSize > 0
  /\ ~Waits(level, d) /\ ~Ends(level, d)
  /\ ~PoolFull
  /\ Interval(d) <= max_duration
  /\ iCurrentSequenceSize + 1 >= MAX_SEQUENCE_LENGTH
  /\ pool' = [pool EXCEPT ![iPoolWrite] = Int16(Interval(d))]
  /\ Finish(iCurrentSequenceSize + 1, nextPoolIndex)
  /\ nNoiseFilterCounter' = 0
  /\ goodAge' = 0
  /\ UNCHANGED iCurrentSequenceStart

\* The sequence ends before this interval: the filter says so, or the pool is
\* full, or the interval is too long.
EndBeforeInterval(level, d) ==
  /\ iCurrentSequenceSize > 0
  /\ \/ /\ Ends(level, d) \/ (~Waits(level, d) /\ PoolFull)
        /\ nNoiseFilterCounter' = NextCounter(level, d)
        /\ goodAge' = IF iCurrentSequenceSize < min_sequence_length THEN 0 ELSE Age(d)
     \/ /\ ~Waits(level, d) /\ ~Ends(level, d)
        /\ ~PoolFull
        /\ Interval(d) > max_duration
        /\ nNoiseFilterCounter' = 0
        /\ goodAge' = 0
  /\ Finish(iCurrentSequenceSize, iPoolWrite)
  /\ UNCHANGED <<pool, iCurrentSequenceStart>>

HandleInterrupt(level, d) ==
  /\ isr = "idle"
  /\ level # lastLevel \/ MissedInterrupts
  /\ \/ IgnoreEdge(level, d)
     \/ StartSequence(level, d)
     \/ FilterNoise(level, d)
     \/ StoreInterval(level, d)
     \/ StoreLastInterval(level, d)
     \/ EndBeforeInterval(level, d)
  /\ lastLevel' = level
  /\ UNCHANGED <<chainVars, decoderVars>>

nextSequenceIndex == Wrap(iSequenceWrite + 1, MAX_CHAINS)

\* Mutant for ImplementsChannel: the free descriptors are not checked.
ChainFullMutant == FALSE

ChainFull == iSequenceReady = nextSequenceIndex

\* No free descriptor: the handler returns and keeps the sequence open.
SequencePoolOverflow ==
  /\ isr = "enqueue"
  /\ ChainFull
  /\ isr' = "idle"
  /\ UNCHANGED <<poolVars, chainVars, filterVars, decoderVars>>

FillDescriptor ==
  /\ isr = "enqueue"
  /\ ~ChainFull
  /\ iSequenceSize' = [iSequenceSize EXCEPT ![iSequenceWrite] = iCurrentSequenceSize]
  /\ iSequenceStart' = [iSequenceStart EXCEPT ![iSequenceWrite] = iCurrentSequenceStart]
  /\ isr' = "publish"
  /\ UNCHANGED <<poolVars, iSequenceWrite, filterVars, decoderVars>>

PublishSequence ==
  /\ isr = "publish"
  /\ iSequenceWrite' = nextSequenceIndex
  /\ iCurrentSequenceSize' = 0
  /\ goodAge' = 0
  /\ isr' = "idle"
  /\ UNCHANGED <<pool, iPoolWrite, iCurrentSequenceStart, iSequenceStart,
                 iSequenceSize, lastLevel, nNoiseFilterCounter, decoderVars>>

-----------------------------------------------------------------------------
(* Receiver::createNewMessage in the decoder thread                        *)

ReadDescriptor ==
  /\ dec = "poll"
  /\ iSequenceReady # iSequenceWrite
  /\ size' = iSequenceSize[iSequenceReady]
  /\ start' = iSequenceStart[iSequenceReady]
  /\ dec' = "advance"
  /\ UNCHANGED <<poolVars, chainVars, filterVars, isr,
                 iPoolRead, iSequenceReady, pSequence>>

\* Mutant for RegionsInOrder: the cells are given back together with the descriptor.
AdvanceReadyMutant ==
  /\ dec = "advance"
  /\ iSequenceReady' = Wrap(iSequenceReady + 1, MAX_CHAINS)
  /\ iPoolRead' = Wrap(start + size, POOL_SIZE)
  /\ pSequence' = << >>
  /\ dec' = "copy"
  /\ UNCHANGED <<poolVars, chainVars, filterVars, isr, start, size>>

\* The descriptor is given back before the intervals are copied.
AdvanceReady ==
  /\ dec = "advance"
  /\ iSequenceReady' = Wrap(iSequenceReady + 1, MAX_CHAINS)
  /\ pSequence' = << >>
  /\ dec' = "copy"
  /\ UNCHANGED <<poolVars, chainVars, filterVars, isr, iPoolRead, start, size>>

CopyInterval ==
  /\ dec = "copy"
  /\ Len(pSequence) < size
  /\ pSequence' = Append(pSequence, pool[Wrap(start + Len(pSequence), POOL_SIZE)])
  /\ UNCHANGED <<poolVars, chainVars, filterVars, isr,
                 iPoolRead, iSequenceReady, dec, start, size>>

FreeIntervals ==
  /\ dec = "copy"
  /\ Len(pSequence) = size
  /\ iPoolRead' = Wrap(start + size, POOL_SIZE)
  /\ dec' = "poll"
  /\ UNCHANGED <<poolVars, chainVars, filterVars, isr,
                 iSequenceReady, start, size, pSequence>>

-----------------------------------------------------------------------------
Next ==
  \/ \E level \in {0, 1}, d \in Durations : HandleInterrupt(level, d)
  \/ SequencePoolOverflow
  \/ FillDescriptor
  \/ PublishSequence
  \/ ReadDescriptor
  \/ AdvanceReady
  \/ CopyInterval
  \/ FreeIntervals

Spec == Init /\ [][Next]_vars

-----------------------------------------------------------------------------
(* Properties                                                              *)

PoolDistance(i) == Distance(iPoolRead, i, POOL_SIZE)
ChainDistance(j) == Distance(iSequenceReady, j, MAX_CHAINS)

\* Descriptors published by the handler and not yet given back by the decoder.
Queued == {j \in Chains : ChainDistance(j) < ChainDistance(iSequenceWrite)}

\* The n cells from first on lie before cell `last`, counted from iPoolRead.
Before(first, n, last) == PoolDistance(first) + n <= PoolDistance(last)

\* The cells of every published sequence, of the one being copied and of the
\* one being recorded are disjoint parts of the used part of the pool, in the
\* order in which they were recorded: what handleInterrupt may overwrite
\* (from iPoolWrite to iPoolRead) is never part of a sequence somebody reads,
\* although iSequenceReady is advanced before the copy.
RegionsInOrder ==
  /\ iCurrentSequenceSize > 0 => Before(iCurrentSequenceStart, iCurrentSequenceSize, iPoolWrite)
  /\ \A j \in Queued :
       /\ Before(iSequenceStart[j], iSequenceSize[j], iPoolWrite)
       /\ iCurrentSequenceSize > 0 =>
            Before(iSequenceStart[j], iSequenceSize[j], iCurrentSequenceStart)
       /\ \A k \in Queued :
            ChainDistance(j) < ChainDistance(k) =>
              Before(iSequenceStart[j], iSequenceSize[j], iSequenceStart[k])
       /\ dec = "copy" => Before(start, size, iSequenceStart[j])
  /\ dec = "copy" =>
       /\ Before(start, size, iPoolWrite)
       /\ iCurrentSequenceSize > 0 => Before(start, size, iCurrentSequenceStart)

\* The n intervals recorded from cell `first` on.
Intervals(first, n) == [k \in 1 .. n |-> pool[Wrap(first + k - 1, POOL_SIZE)]]

QueuedSequences ==
  [p \in 1 .. ChainDistance(iSequenceWrite) |->
     LET j == Wrap(iSequenceReady + p - 1, MAX_CHAINS)
     IN  Intervals(iSequenceStart[j], iSequenceSize[j])]

\* What a cell of the pool may hold once it is written.
StoredIntervals == {Int16(d) : d \in Durations \cup 0 .. MAX_PERIOD}

\* The decoder receives the recorded sequences complete, unchanged and in order:
\* the two rings with their interleaved handler and decoder implement
\* SequenceChannel.
Channel == INSTANCE SequenceChannel WITH
  Values  <- StoredIntervals,
  current <- Intervals(iCurrentSequenceStart, iCurrentSequenceSize),
  queue   <- QueuedSequences,
  taken   <- IF dec = "copy" THEN Intervals(start, size) ELSE << >>,
  message <- IF dec = "copy" THEN << >> ELSE pSequence

ImplementsChannel == Channel!Spec

\* When every published sequence needs so much of the pool that MAX_CHAINS of
\* them do not fit, the pool is full before the descriptors are used up, so
\* the branch that counts sequence_pool_overflow is never taken.
NoOverflow ==
  MAX_CHAINS * min_sequence_length > POOL_SIZE - 1 => ~(isr = "enqueue" /\ ChainFull)

\* Every interval but the first of a sequence is within the limits of the
\* protocols, also when the noise filter merged it from several edges.
IntervalsWithinLimits ==
  LET InLimits(s) == \A k \in 2 .. Len(s) : s[k] \in min_duration .. max_duration
  IN  /\ InLimits(Intervals(iCurrentSequenceStart, iCurrentSequenceSize))
      /\ \A p \in DOMAIN QueuedSequences : InLimits(QueuedSequences[p])

\* Decoders take the intervals at even positions for high level and the others
\* for low: while the filter is idle, the number of recorded intervals tells the
\* level the line has now.
LevelsAlternate ==
  (iCurrentSequenceSize > 0 /\ nNoiseFilterCounter = 0 /\ isr = "idle") =>
    (iCurrentSequenceSize % 2 = 1 <=> lastLevel = 0)
=============================================================================
