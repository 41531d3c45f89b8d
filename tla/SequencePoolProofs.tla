------------------------- MODULE SequencePoolProofs -------------------------
(***************************************************************************)
(* The ring buffers of Receiver keep the sequences apart, whole and in     *)
(* order for every size of the pool and of the descriptor ring, every      *)
(* limit and every input.                                                  *)
(*                                                                         *)
(* RegionsInOrder is not inductive as it stands: it says nothing of the    *)
(* descriptor that is filled but not yet published, nor of the decoder's   *)
(* copies of a descriptor it has not yet given back.  Inv adds the two.    *)
(* Inv says where the sequences are; ContentInv, which builds on it, says  *)
(* what the cells hold and how long the sequences are, and LevelInv what   *)
(* their number of intervals tells of the level.  The refinement of        *)
(* SequenceChannel needs the first two.                                    *)
(***************************************************************************)
EXTENDS SequencePool, DataLemmas, SequenceTheorems

\* The handler publishes what it is recording, into a free descriptor.
HandlerInv ==
  /\ isr # "idle" => iCurrentSequenceSize > 0
  /\ isr = "publish" =>
       /\ ~ChainFull
       /\ iSequenceStart[iSequenceWrite] = iCurrentSequenceStart
       /\ iSequenceSize[iSequenceWrite] = iCurrentSequenceSize

\* The decoder works on the oldest published sequence.
DecoderInv ==
  /\ dec = "advance" =>
       /\ iSequenceReady # iSequenceWrite
       /\ start = iSequenceStart[iSequenceReady]
       /\ size = iSequenceSize[iSequenceReady]
  /\ dec = "copy" => Len(pSequence) <= size

Inv == TypeOK /\ RegionsInOrder /\ HandlerInv /\ DecoderInv

-----------------------------------------------------------------------------
(* Arithmetic of the rings.                                                *)

\* A wrapped index is an index of the ring.
LEMMA WrapType ==
  ASSUME NEW n \in Nat, n > 0, NEW i \in 0 .. 2 * n - 1
  PROVE  Wrap(i, n) \in 0 .. n - 1
  BY DEF Wrap

\* A distance is a number of steps that does not close the ring.
LEMMA DistanceType ==
  ASSUME NEW n \in Nat, NEW a \in 0 .. n - 1, NEW b \in 0 .. n - 1
  PROVE  Distance(a, b, n) \in 0 .. n - 1
  BY DEF Distance

\* Only an index is at distance 0 from itself.
LEMMA DistanceZero ==
  ASSUME NEW n \in Nat, NEW a \in 0 .. n - 1, NEW b \in 0 .. n - 1
  PROVE  Distance(a, b, n) = 0 <=> a = b
  BY DEF Distance

\* Two indexes at the same distance are the same index.
LEMMA DistanceInjective ==
  ASSUME NEW n \in Nat, NEW a \in 0 .. n - 1, NEW b \in 0 .. n - 1,
         NEW c \in 0 .. n - 1, Distance(a, b, n) = Distance(a, c, n)
  PROVE  b = c
  BY DEF Distance

\* k steps beyond b is k farther away as long as the ring is not closed.
LEMMA DistanceAhead ==
  ASSUME NEW n \in Nat, NEW a \in 0 .. n - 1, NEW b \in 0 .. n - 1,
         NEW k \in 0 .. n - 1, Distance(a, b, n) + k < n
  PROVE  Distance(a, Wrap(b + k, n), n) = Distance(a, b, n) + k
  BY DEF Distance, Wrap

\* One more step is possible unless it leads back to a.
LEMMA DistanceNext ==
  ASSUME NEW n \in Nat, NEW a \in 0 .. n - 1, NEW b \in 0 .. n - 1,
         a # Wrap(b + 1, n)
  PROVE  Distance(a, b, n) + 1 < n
  BY DEF Distance, Wrap

\* Moving the origin from a to b brings what lies beyond b closer.
LEMMA DistanceFrom ==
  ASSUME NEW n \in Nat, NEW a \in 0 .. n - 1, NEW b \in 0 .. n - 1,
         NEW c \in 0 .. n - 1, Distance(a, b, n) <= Distance(a, c, n)
  PROVE  Distance(b, c, n) = Distance(a, c, n) - Distance(a, b, n)
  BY DEF Distance

-----------------------------------------------------------------------------
(* What the steps of the handler do to the regions.                        *)

\* The pool grows by one cell of the sequence being recorded.
LEMMA ExtendRegion ==
  ASSUME Inv, isr = "idle", ~PoolFull,
         UNCHANGED <<chainVars, decoderVars>>,
         iPoolWrite' = nextPoolIndex,
         \/ /\ iCurrentSequenceSize > 0
            /\ iCurrentSequenceStart' = iCurrentSequenceStart
            /\ iCurrentSequenceSize' = iCurrentSequenceSize + 1
         \/ /\ iCurrentSequenceSize = 0
            /\ iCurrentSequenceStart' = iPoolWrite
            /\ iCurrentSequenceSize' = 1
  PROVE  /\ RegionsInOrder'
         /\ DecoderInv'
         /\ iPoolWrite' \in Cells
         /\ iCurrentSequenceStart' \in Cells
         /\ iCurrentSequenceSize' \in 1 .. POOL_SIZE - 1
<1> USE PoolAssumption
<1>0. /\ UNCHANGED <<iSequenceStart, iSequenceSize, iSequenceWrite>>
      /\ UNCHANGED <<iPoolRead, iSequenceReady, dec, start, size, pSequence>>
  BY DEF chainVars, decoderVars
<1>1. iPoolWrite' \in Cells
  BY DEF Inv, TypeOK, Cells, nextPoolIndex, Wrap
<1>2. iCurrentSequenceStart' \in Cells
  BY DEF Inv, TypeOK
<1>3. /\ PoolDistance(iPoolWrite) + 1 < POOL_SIZE
      /\ PoolDistance(iPoolWrite)' = PoolDistance(iPoolWrite) + 1
  <2>1. iPoolRead \in 0 .. POOL_SIZE - 1 /\ iPoolWrite \in 0 .. POOL_SIZE - 1
    BY DEF Inv, TypeOK, Cells
  <2>2. PoolDistance(iPoolWrite) + 1 < POOL_SIZE
    BY <2>1, DistanceNext DEF PoolDistance, PoolFull, nextPoolIndex
  <2> QED
    BY <2>1, <2>2, DistanceAhead DEF PoolDistance, nextPoolIndex, decoderVars
<1>4. \A i \in Cells : PoolDistance(i) \in 0 .. POOL_SIZE - 1
  BY DistanceType DEF Inv, TypeOK, Cells, PoolDistance
<1>5. /\ iCurrentSequenceSize > 0 =>
           Before(iCurrentSequenceStart, iCurrentSequenceSize, iPoolWrite)
      /\ \A j \in Queued : Before(iSequenceStart[j], iSequenceSize[j], iPoolWrite)
      /\ dec = "copy" => Before(start, size, iPoolWrite)
  BY DEF Inv, RegionsInOrder
<1>6. iCurrentSequenceSize' \in 1 .. POOL_SIZE - 1
  <2>1. POOL_SIZE \in Nat /\ POOL_SIZE > 1
    BY DEF PoolAssumption
  <2>2. /\ iCurrentSequenceStart \in Cells
        /\ iPoolWrite \in Cells
        /\ iCurrentSequenceSize \in 0 .. POOL_SIZE - 1
    BY DEF Inv, TypeOK
  <2>3. CASE iCurrentSequenceSize > 0
    <3>1. PoolDistance(iCurrentSequenceStart) + iCurrentSequenceSize <= PoolDistance(iPoolWrite)
      BY <1>5, <2>3 DEF Before
    <3>2. iCurrentSequenceSize + 1 < POOL_SIZE
      BY <1>3, <1>4, <2>1, <2>2, <3>1
    <3> QED
      BY <2>1, <2>2, <2>3, <3>2
  <2>4. CASE iCurrentSequenceSize = 0
    BY <2>1, <2>4
  <2> QED
    BY <2>2, <2>3, <2>4
<1>7. Queued' = Queued
  BY <1>0 DEF Queued, ChainDistance
<1>8. RegionsInOrder'
  <2>1. /\ \A j \in Queued : /\ j \in Chains
                             /\ iSequenceStart[j] \in Cells
                             /\ iSequenceSize[j] \in 0 .. POOL_SIZE - 1
        /\ start \in Cells /\ size \in 0 .. POOL_SIZE - 1
        /\ iPoolWrite \in Cells
        /\ iCurrentSequenceStart \in Cells
        /\ iCurrentSequenceSize \in 0 .. POOL_SIZE - 1
    BY DEF Inv, TypeOK, Queued
  <2>2. /\ PoolDistance(iCurrentSequenceStart)' =
             IF iCurrentSequenceSize > 0 THEN PoolDistance(iCurrentSequenceStart)
             ELSE PoolDistance(iPoolWrite)
    BY <1>0, <2>1 DEF PoolDistance
  <2>3. (iCurrentSequenceSize > 0 =>
           Before(iCurrentSequenceStart, iCurrentSequenceSize, iPoolWrite))'
    BY <1>3, <1>4, <1>5, <2>1, <2>2 DEF Before
  <2>4. ASSUME NEW j \in Queued
        PROVE  /\ Before(iSequenceStart[j], iSequenceSize[j], iPoolWrite)'
               /\ Before(iSequenceStart[j], iSequenceSize[j], iCurrentSequenceStart)'
    <3>1. PoolDistance(iSequenceStart[j])' = PoolDistance(iSequenceStart[j])
      BY <1>0 DEF PoolDistance
    <3>2. Before(iSequenceStart[j], iSequenceSize[j], iPoolWrite)
      BY <1>5
    <3>3. iCurrentSequenceSize > 0 =>
            Before(iSequenceStart[j], iSequenceSize[j], iCurrentSequenceStart)
      BY DEF Inv, RegionsInOrder
    <3> QED
      BY <1>0, <1>3, <1>4, <2>1, <2>2, <3>1, <3>2, <3>3 DEF Before
  <2>5. ASSUME NEW j \in Queued
        PROVE  /\ (dec = "copy" => Before(start, size, iSequenceStart[j]))'
               /\ \A k \in Queued :
                    (ChainDistance(j) < ChainDistance(k) =>
                       Before(iSequenceStart[j], iSequenceSize[j], iSequenceStart[k]))'
    BY <1>0 DEF Inv, RegionsInOrder, Before, PoolDistance, ChainDistance
  <2>6. (dec = "copy" => /\ Before(start, size, iPoolWrite)
                         /\ Before(start, size, iCurrentSequenceStart))'
    <3>1. PoolDistance(start)' = PoolDistance(start)
      BY <1>0 DEF PoolDistance
    <3>2. dec = "copy" =>
            /\ Before(start, size, iPoolWrite)
            /\ iCurrentSequenceSize > 0 => Before(start, size, iCurrentSequenceStart)
      BY DEF Inv, RegionsInOrder
    <3> QED
      BY <1>0, <1>3, <1>4, <2>1, <2>2, <3>1, <3>2 DEF Before
  <2> QED
    BY <1>7, <2>3, <2>4, <2>5, <2>6 DEF RegionsInOrder
<1>9. DecoderInv'
  BY DEF Inv, DecoderInv, chainVars, decoderVars
<1> QED
  BY <1>1, <1>2, <1>6, <1>8, <1>9

\* A sequence that is too short is dropped and its cells are free again.
LEMMA DropRegion ==
  ASSUME Inv, iCurrentSequenceSize > 0,
         UNCHANGED <<chainVars, decoderVars>>,
         iPoolWrite' = iCurrentSequenceStart,
         iCurrentSequenceSize' = 0
  PROVE  /\ RegionsInOrder'
         /\ DecoderInv'
<1>1. /\ UNCHANGED <<iSequenceStart, iSequenceSize, iSequenceWrite>>
      /\ UNCHANGED <<iPoolRead, iSequenceReady, dec, start, size, pSequence>>
  BY DEF chainVars, decoderVars
<1>2. Queued' = Queued
  BY <1>1 DEF Queued, ChainDistance
<1>3. ASSUME NEW j \in Queued
      PROVE  /\ Before(iSequenceStart[j], iSequenceSize[j], iPoolWrite)'
             /\ (dec = "copy" => Before(start, size, iSequenceStart[j]))'
             /\ \A k \in Queued :
                  (ChainDistance(j) < ChainDistance(k) =>
                     Before(iSequenceStart[j], iSequenceSize[j], iSequenceStart[k]))'
  BY <1>1 DEF Inv, RegionsInOrder, Before, PoolDistance, ChainDistance
<1>4. (dec = "copy" => Before(start, size, iPoolWrite))'
  BY <1>1 DEF Inv, RegionsInOrder, Before, PoolDistance
<1>5. RegionsInOrder'
  BY <1>2, <1>3, <1>4 DEF RegionsInOrder
<1>6. DecoderInv'
  BY <1>1 DEF Inv, DecoderInv
<1> QED
  BY <1>5, <1>6

\* Nothing that the regions depend on changes.
LEMMA SameRegions ==
  ASSUME Inv,
         UNCHANGED <<iPoolWrite, iCurrentSequenceStart, iCurrentSequenceSize>>,
         UNCHANGED <<chainVars, decoderVars>>
  PROVE  /\ RegionsInOrder'
         /\ DecoderInv'
<1>1. /\ UNCHANGED <<iSequenceStart, iSequenceSize, iSequenceWrite>>
      /\ UNCHANGED <<iPoolRead, iSequenceReady, dec, start, size, pSequence>>
  BY DEF chainVars, decoderVars
<1>2. Queued' = Queued
  BY <1>1 DEF Queued, ChainDistance
<1> QED
  BY <1>1, <1>2 DEF Inv, DecoderInv, RegionsInOrder, Before, PoolDistance, ChainDistance

\* Every edge moves the filter's variables within their types.
LEMMA FilterType ==
  ASSUME Inv, NEW level \in {0, 1}, NEW d \in Durations
  PROVE  /\ NextCounter(level, d) \in Nat
         /\ Age(d) \in 0 .. MAX_PERIOD + 1
         /\ Interval(d) \in Nat
         /\ Int16(d) \in Int
         /\ Int16(Interval(d)) \in Int
<1> USE FilterAssumption
<1>1. d \in Nat
  OBVIOUS
<1>2. nNoiseFilterCounter \in Nat /\ goodAge \in 0 .. MAX_PERIOD + 1
  BY DEF Inv, TypeOK
<1>3. Age(d) \in 0 .. MAX_PERIOD + 1
  BY <1>1, <1>2 DEF Age
<1>4. Interval(d) \in Nat
  BY <1>1, <1>3 DEF Interval
<1>5. Step(level) \in {1, 2}
  BY DEF Step
<1>6. NextCounter(level, d) \in Nat
  BY <1>2, <1>5 DEF NextCounter, SkipLimit
<1>7. \A i \in Nat : Int16(i) \in Int
  BY DEF Int16
<1> QED
  BY <1>1, <1>3, <1>4, <1>6, <1>7

-----------------------------------------------------------------------------
(* What the steps do to the ring of descriptors.                           *)

\* The published sequences are those published before and the one just recorded.
LEMMA PublishQueued ==
  ASSUME Inv, PublishSequence
  PROVE  \A j \in Queued' : j \in Queued \/ j = iSequenceWrite
<1>1. /\ iSequenceWrite \in 0 .. MAX_CHAINS - 1
      /\ iSequenceReady \in 0 .. MAX_CHAINS - 1
      /\ MAX_CHAINS \in Nat
      /\ ~ChainFull
      /\ iSequenceReady' = iSequenceReady
      /\ iSequenceWrite' = nextSequenceIndex
  BY PoolAssumption DEF PoolAssumption, Inv, TypeOK, Chains, HandlerInv, PublishSequence, decoderVars
<1>2. ChainDistance(iSequenceWrite)' = ChainDistance(iSequenceWrite) + 1
  <2>1. ChainDistance(iSequenceWrite) + 1 < MAX_CHAINS
    BY <1>1, DistanceNext DEF ChainDistance, ChainFull, nextSequenceIndex
  <2>2. 1 \in 0 .. MAX_CHAINS - 1
    <3>1. ChainDistance(iSequenceWrite) \in Nat
      BY <1>1, DistanceType DEF ChainDistance
    <3> QED
      BY <1>1, <2>1, <3>1
  <2> QED
    BY <1>1, <2>1, <2>2, DistanceAhead DEF ChainDistance, nextSequenceIndex
<1> SUFFICES ASSUME NEW j \in Queued'
             PROVE  j \in Queued \/ j = iSequenceWrite
  OBVIOUS
<1>3. j \in Chains /\ ChainDistance(j) < ChainDistance(iSequenceWrite) + 1
  BY <1>1, <1>2 DEF Queued, ChainDistance
<1>4. /\ ChainDistance(j) \in 0 .. MAX_CHAINS - 1
      /\ ChainDistance(iSequenceWrite) \in 0 .. MAX_CHAINS - 1
  BY <1>1, <1>3, DistanceType DEF Chains, ChainDistance
<1>5. CASE ChainDistance(j) < ChainDistance(iSequenceWrite)
  BY <1>3, <1>5 DEF Queued
<1>6. CASE ChainDistance(j) = ChainDistance(iSequenceWrite)
  BY <1>1, <1>3, <1>6, DistanceInjective DEF Chains, ChainDistance
<1> QED
  BY <1>3, <1>4, <1>5, <1>6

\* The oldest published sequence is that of descriptor iSequenceReady.
LEMMA ReadyIsQueued ==
  ASSUME Inv, iSequenceReady # iSequenceWrite
  PROVE  iSequenceReady \in Queued
<1>1. /\ iSequenceReady \in 0 .. MAX_CHAINS - 1
      /\ iSequenceWrite \in 0 .. MAX_CHAINS - 1
      /\ MAX_CHAINS \in Nat
  BY PoolAssumption DEF PoolAssumption, Inv, TypeOK, Chains
<1>2. ChainDistance(iSequenceReady) = 0 /\ ChainDistance(iSequenceWrite) > 0
  BY <1>1, DistanceZero, DistanceType DEF ChainDistance
<1> QED
  BY <1>1, <1>2 DEF Queued, Chains

\* Giving a descriptor back publishes nothing.
LEMMA AdvanceQueued ==
  ASSUME Inv, AdvanceReady
  PROVE  /\ \A j \in Queued' : /\ j \in Queued
                               /\ ChainDistance(j) > 0
                               /\ ChainDistance(j)' = ChainDistance(j) - 1
         /\ ChainDistance(iSequenceWrite)' = ChainDistance(iSequenceWrite) - 1
<1>1. /\ iSequenceReady \in 0 .. MAX_CHAINS - 1
      /\ iSequenceWrite \in 0 .. MAX_CHAINS - 1
      /\ MAX_CHAINS \in Nat /\ MAX_CHAINS > 1
      /\ iSequenceReady # iSequenceWrite
      /\ iSequenceReady' = Wrap(iSequenceReady + 1, MAX_CHAINS)
      /\ iSequenceWrite' = iSequenceWrite
  BY PoolAssumption DEF PoolAssumption, Inv, TypeOK, Chains, DecoderInv, AdvanceReady, chainVars
<1>2. ASSUME NEW j \in Chains, j # iSequenceReady
      PROVE  /\ ChainDistance(j) \in 1 .. MAX_CHAINS - 1
             /\ ChainDistance(j)' = ChainDistance(j) - 1
  BY <1>1, <1>2 DEF ChainDistance, Distance, Wrap, Chains
<1>3. /\ ChainDistance(iSequenceWrite) \in 1 .. MAX_CHAINS - 1
      /\ ChainDistance(iSequenceWrite)' = ChainDistance(iSequenceWrite) - 1
  BY <1>1, <1>2 DEF Chains, ChainDistance
<1>4. ASSUME NEW j \in Queued'
      PROVE  /\ j \in Queued
             /\ ChainDistance(j) > 0
             /\ ChainDistance(j)' = ChainDistance(j) - 1
  <2>1. j \in Chains /\ ChainDistance(j)' < ChainDistance(iSequenceWrite) - 1
    BY <1>1, <1>3 DEF Queued, ChainDistance
  <2>2. j # iSequenceReady
    BY <1>1, <1>3, <2>1 DEF ChainDistance, Distance, Wrap, Chains
  <2>3. /\ ChainDistance(j) \in 1 .. MAX_CHAINS - 1
        /\ ChainDistance(j)' = ChainDistance(j) - 1
    BY <1>2, <2>1, <2>2
  <2> QED
    BY <1>3, <2>1, <2>3 DEF Queued
<1> QED
  BY <1>3, <1>4

-----------------------------------------------------------------------------
(* Every step preserves the invariant.                                     *)

\* Every edge, whatever the filter makes of it, preserves the invariant.
LEMMA HandleInterruptInv ==
  ASSUME Inv, NEW level \in {0, 1}, NEW d \in Durations, HandleInterrupt(level, d)
  PROVE  Inv'
<1> USE PoolAssumption, FilterAssumption
<1>1. /\ UNCHANGED <<chainVars, decoderVars>>
      /\ UNCHANGED <<iSequenceStart, iSequenceSize, iSequenceWrite>>
      /\ UNCHANGED <<iPoolRead, iSequenceReady, dec, start, size, pSequence>>
      /\ isr = "idle"
      /\ lastLevel' \in {-1, 0, 1}
  BY DEF HandleInterrupt, chainVars, decoderVars
<1>2. /\ NextCounter(level, d) \in Nat
      /\ Age(d) \in 0 .. MAX_PERIOD + 1
      /\ \A i \in Cells : [pool EXCEPT ![i] = Int16(d)] \in [Cells -> Int]
      /\ \A i \in Cells : [pool EXCEPT ![i] = Int16(Interval(d))] \in [Cells -> Int]
  BY FilterType DEF Inv, TypeOK
<1>3. iPoolWrite \in Cells
  BY DEF Inv, TypeOK
\* A conjunct that holds after every step of the handler that is not at its end.
<1>4. ASSUME RegionsInOrder', DecoderInv',
             pool' \in [Cells -> Int],
             iPoolWrite' \in Cells,
             iCurrentSequenceStart' \in Cells,
             iCurrentSequenceSize' \in 0 .. POOL_SIZE - 1,
             nNoiseFilterCounter' \in Nat,
             goodAge' \in 0 .. MAX_PERIOD + 1,
             isr' \in {"idle", "enqueue"},
             isr' = "enqueue" => iCurrentSequenceSize' > 0
      PROVE  Inv'
  <2>1. TypeOK'
    BY <1>1, <1>4 DEF Inv, TypeOK
  <2>2. HandlerInv'
    BY <1>4 DEF HandlerInv
  <2> QED
    BY <1>4, <2>1, <2>2 DEF Inv
<1>5. CASE IgnoreEdge(level, d)
  <2>1. UNCHANGED <<pool, iPoolWrite, iCurrentSequenceStart, iCurrentSequenceSize,
                    nNoiseFilterCounter, goodAge, isr>>
    BY <1>5 DEF IgnoreEdge, poolVars
  <2> QED
    BY <1>1, <1>4, <2>1, SameRegions DEF Inv, TypeOK
<1>6. CASE StartSequence(level, d)
  <2>1. /\ ~PoolFull
        /\ iPoolWrite' = nextPoolIndex
        /\ iCurrentSequenceSize = 0
        /\ iCurrentSequenceStart' = iPoolWrite
        /\ iCurrentSequenceSize' = 1
        /\ pool' = [pool EXCEPT ![iPoolWrite] = Int16(d)]
        /\ nNoiseFilterCounter' = 0 /\ goodAge' = 0 /\ isr' = isr
    BY <1>6 DEF StartSequence
  <2>2. /\ RegionsInOrder' /\ DecoderInv'
        /\ iPoolWrite' \in Cells
        /\ iCurrentSequenceStart' \in Cells
        /\ iCurrentSequenceSize' \in 1 .. POOL_SIZE - 1
    BY <1>1, <2>1, ExtendRegion
  <2> QED
    BY <1>1, <1>2, <1>3, <1>4, <2>1, <2>2
<1>7. CASE FilterNoise(level, d)
  <2>1. /\ UNCHANGED <<pool, iPoolWrite, iCurrentSequenceStart, iCurrentSequenceSize, isr>>
        /\ nNoiseFilterCounter' = NextCounter(level, d)
        /\ goodAge' = Age(d)
    BY <1>7 DEF FilterNoise, poolVars
  <2> QED
    BY <1>1, <1>2, <1>4, <2>1, SameRegions DEF Inv, TypeOK
<1>8. CASE StoreInterval(level, d)
  <2>1. /\ ~PoolFull
        /\ iPoolWrite' = nextPoolIndex
        /\ iCurrentSequenceSize > 0
        /\ iCurrentSequenceStart' = iCurrentSequenceStart
        /\ iCurrentSequenceSize' = iCurrentSequenceSize + 1
        /\ pool' = [pool EXCEPT ![iPoolWrite] = Int16(Interval(d))]
        /\ nNoiseFilterCounter' = 0 /\ goodAge' = 0 /\ isr' = isr
    BY <1>8 DEF StoreInterval
  <2>2. /\ RegionsInOrder' /\ DecoderInv'
        /\ iPoolWrite' \in Cells
        /\ iCurrentSequenceStart' \in Cells
        /\ iCurrentSequenceSize' \in 1 .. POOL_SIZE - 1
    BY <1>1, <2>1, ExtendRegion
  <2> QED
    BY <1>1, <1>2, <1>3, <1>4, <2>1, <2>2
<1>9. CASE StoreLastInterval(level, d)
  <2>1. /\ ~PoolFull
        /\ iCurrentSequenceSize > 0
        /\ iCurrentSequenceStart' = iCurrentSequenceStart
        /\ pool' = [pool EXCEPT ![iPoolWrite] = Int16(Interval(d))]
        /\ nNoiseFilterCounter' = 0 /\ goodAge' = 0
        /\ Finish(iCurrentSequenceSize + 1, nextPoolIndex)
    BY <1>9 DEF StoreLastInterval
  <2>2. CASE iPoolWrite' = iCurrentSequenceStart /\ iCurrentSequenceSize' = 0 /\ isr' = isr
    <3>1. RegionsInOrder' /\ DecoderInv'
      BY <1>1, <2>1, <2>2, DropRegion
    <3>2. /\ iCurrentSequenceStart \in Cells
          /\ 0 \in 0 .. POOL_SIZE - 1 /\ 0 \in 0 .. MAX_PERIOD + 1
      BY DEF Inv, TypeOK
    <3>3. pool' \in [Cells -> Int]
      BY <1>2, <1>3, <2>1
    <3> HIDE PoolAssumption, FilterAssumption
    <3> QED
      BY <1>1, <1>4, <2>1, <2>2, <3>1, <3>2, <3>3
  <2>3. CASE /\ iPoolWrite' = nextPoolIndex
             /\ iCurrentSequenceSize' = iCurrentSequenceSize + 1
             /\ isr' = "enqueue"
    <3>1. /\ RegionsInOrder' /\ DecoderInv'
          /\ iPoolWrite' \in Cells
          /\ iCurrentSequenceStart' \in Cells
          /\ iCurrentSequenceSize' \in 1 .. POOL_SIZE - 1
      BY <1>1, <2>1, <2>3, ExtendRegion
    <3> QED
      BY <1>2, <1>3, <1>4, <2>1, <2>3, <3>1
  <2> QED
    BY <2>1, <2>2, <2>3 DEF Finish
<1>10. CASE EndBeforeInterval(level, d)
  <2>1. /\ iCurrentSequenceSize > 0
        /\ UNCHANGED <<pool, iCurrentSequenceStart>>
        /\ nNoiseFilterCounter' \in Nat
        /\ goodAge' \in 0 .. MAX_PERIOD + 1
        /\ Finish(iCurrentSequenceSize, iPoolWrite)
    BY <1>2, <1>10 DEF EndBeforeInterval
  <2>2. CASE iPoolWrite' = iCurrentSequenceStart /\ iCurrentSequenceSize' = 0 /\ isr' = isr
    BY <1>1, <1>4, <2>1, <2>2, DropRegion DEF Inv, TypeOK
  <2>3. CASE /\ iPoolWrite' = iPoolWrite
             /\ iCurrentSequenceSize' = iCurrentSequenceSize
             /\ isr' = "enqueue"
    BY <1>1, <1>4, <2>1, <2>3, SameRegions DEF Inv, TypeOK
  <2> QED
    BY <2>1, <2>2, <2>3 DEF Finish
<1> QED
  BY <1>5, <1>6, <1>7, <1>8, <1>9, <1>10 DEF HandleInterrupt

\* The descriptor that is filled is a free one.
LEMMA FillDescriptorInv ==
  ASSUME Inv, FillDescriptor
  PROVE  Inv'
<1>1. /\ UNCHANGED <<iPoolWrite, iCurrentSequenceStart, iCurrentSequenceSize, pool>>
      /\ UNCHANGED <<lastLevel, nNoiseFilterCounter, goodAge, iSequenceWrite>>
      /\ UNCHANGED <<iPoolRead, iSequenceReady, dec, start, size, pSequence>>
      /\ isr = "enqueue" /\ isr' = "publish"
      /\ ~ChainFull
      /\ iSequenceSize' = [iSequenceSize EXCEPT ![iSequenceWrite] = iCurrentSequenceSize]
      /\ iSequenceStart' = [iSequenceStart EXCEPT ![iSequenceWrite] = iCurrentSequenceStart]
  BY DEF FillDescriptor, poolVars, filterVars, decoderVars
<1>2. TypeOK'
  BY <1>1 DEF Inv, TypeOK
<1>3. HandlerInv'
  BY <1>1 DEF Inv, TypeOK, HandlerInv, ChainFull, nextSequenceIndex
<1>4. DecoderInv'
  BY <1>1 DEF Inv, TypeOK, DecoderInv
<1>5. RegionsInOrder'
  <2>1. Queued' = Queued
    BY <1>1 DEF Queued, ChainDistance
  <2>2. \A j \in Queued : /\ j \in Chains
                          /\ j # iSequenceWrite
    <3>1. ChainDistance(iSequenceWrite) \in 0 .. MAX_CHAINS - 1
      BY PoolAssumption, DistanceType DEF Inv, TypeOK, Chains, ChainDistance
    <3> QED
      BY <3>1 DEF Queued
  <2>3. \A j \in Queued : /\ iSequenceStart'[j] = iSequenceStart[j]
                          /\ iSequenceSize'[j] = iSequenceSize[j]
    BY <1>1, <2>2 DEF Inv, TypeOK
  <2> QED
    BY <1>1, <2>1, <2>3 DEF Inv, RegionsInOrder, Before, PoolDistance, ChainDistance
<1> QED
  BY <1>2, <1>3, <1>4, <1>5 DEF Inv

\* Publishing appends the recorded sequence to the queue of descriptors.
LEMMA PublishSequenceInv ==
  ASSUME Inv, PublishSequence
  PROVE  Inv'
<1> USE PoolAssumption
<1>1. /\ UNCHANGED <<iPoolWrite, iCurrentSequenceStart, pool>>
      /\ UNCHANGED <<lastLevel, nNoiseFilterCounter, iSequenceStart, iSequenceSize>>
      /\ UNCHANGED <<iPoolRead, iSequenceReady, dec, start, size, pSequence>>
      /\ isr = "publish" /\ isr' = "idle"
      /\ iSequenceWrite' = nextSequenceIndex
      /\ iCurrentSequenceSize' = 0
      /\ goodAge' = 0
  BY DEF PublishSequence, poolVars, decoderVars
<1>2. /\ iSequenceWrite \in 0 .. MAX_CHAINS - 1
      /\ iSequenceReady \in 0 .. MAX_CHAINS - 1
      /\ ~ChainFull
      /\ iCurrentSequenceSize > 0
      /\ iSequenceStart[iSequenceWrite] = iCurrentSequenceStart
      /\ iSequenceSize[iSequenceWrite] = iCurrentSequenceSize
  BY <1>1 DEF Inv, TypeOK, Chains, HandlerInv
<1>3. iSequenceWrite' \in Chains
  BY <1>1, <1>2 DEF nextSequenceIndex, Chains, Wrap
<1>4. TypeOK'
  BY <1>1, <1>3, FilterAssumption DEF Inv, TypeOK
<1>5. HandlerInv'
  BY <1>1 DEF HandlerInv
<1>6. DecoderInv'
  <2>1. dec = "advance" => iSequenceReady # iSequenceWrite'
    BY <1>1, <1>2 DEF ChainFull
  <2> QED
    BY <1>1, <2>1 DEF Inv, DecoderInv
<1>7. RegionsInOrder'
  <2>1. \A j \in Queued' : /\ j \in Chains
                           /\ j \in Queued \/ j = iSequenceWrite
    BY <1>1, PublishQueued DEF Queued
  <2>2. ASSUME NEW j \in Queued'
        PROVE  /\ Before(iSequenceStart[j], iSequenceSize[j], iPoolWrite)
               /\ dec = "copy" => Before(start, size, iSequenceStart[j])
    BY <1>2, <2>1 DEF Inv, RegionsInOrder
  <2>3. ASSUME NEW j \in Queued', NEW k \in Queued',
               ChainDistance(j) < ChainDistance(k)
        PROVE  Before(iSequenceStart[j], iSequenceSize[j], iSequenceStart[k])
    <3>1. /\ ChainDistance(j) \in 0 .. MAX_CHAINS - 1
          /\ ChainDistance(k) \in 0 .. MAX_CHAINS - 1
      BY <1>2, <2>1, DistanceType DEF Chains, ChainDistance
    <3>2. j \in Queued
      BY <2>1, <2>3, <3>1 DEF Queued
    <3>3. CASE k \in Queued
      BY <2>3, <3>2, <3>3 DEF Inv, RegionsInOrder
    <3>4. CASE k = iSequenceWrite
      BY <1>2, <3>2, <3>4 DEF Inv, RegionsInOrder
    <3> QED
      BY <2>1, <3>3, <3>4
  <2>4. dec = "copy" => Before(start, size, iPoolWrite)
    BY DEF Inv, RegionsInOrder
  <2> QED
    BY <1>1, <2>2, <2>3, <2>4 DEF RegionsInOrder, Before, PoolDistance, ChainDistance
<1> QED
  BY <1>4, <1>5, <1>6, <1>7 DEF Inv

\* Reading a descriptor gives nothing back.
LEMMA ReadDescriptorInv ==
  ASSUME Inv, ReadDescriptor
  PROVE  Inv'
<1>1. /\ UNCHANGED <<iPoolWrite, iCurrentSequenceStart, iCurrentSequenceSize, pool>>
      /\ UNCHANGED <<iSequenceStart, iSequenceSize, iSequenceWrite>>
      /\ UNCHANGED <<lastLevel, nNoiseFilterCounter, goodAge, isr>>
      /\ UNCHANGED <<iPoolRead, iSequenceReady, pSequence>>
      /\ iSequenceReady # iSequenceWrite
      /\ dec = "poll" /\ dec' = "advance"
      /\ size' = iSequenceSize[iSequenceReady]
      /\ start' = iSequenceStart[iSequenceReady]
  BY DEF ReadDescriptor, poolVars, chainVars, filterVars
<1>2. TypeOK'
  BY <1>1 DEF Inv, TypeOK
<1>3. HandlerInv'
  BY <1>1 DEF Inv, HandlerInv, ChainFull, nextSequenceIndex
<1>4. DecoderInv'
  BY <1>1 DEF DecoderInv
<1>5. RegionsInOrder'
  <2>1. Queued' = Queued
    BY <1>1 DEF Queued, ChainDistance
  <2> QED
    BY <1>1, <2>1 DEF Inv, RegionsInOrder, Before, PoolDistance, ChainDistance
<1> QED
  BY <1>2, <1>3, <1>4, <1>5 DEF Inv

\* Giving the descriptor back does not give the cells back: they are now those
\* of the decoder.
LEMMA AdvanceReadyInv ==
  ASSUME Inv, AdvanceReady
  PROVE  Inv'
<1> USE PoolAssumption
<1>1. /\ UNCHANGED <<iPoolWrite, iCurrentSequenceStart, iCurrentSequenceSize, pool>>
      /\ UNCHANGED <<iSequenceStart, iSequenceSize, iSequenceWrite>>
      /\ UNCHANGED <<lastLevel, nNoiseFilterCounter, goodAge, isr>>
      /\ UNCHANGED <<iPoolRead, start, size>>
      /\ iSequenceReady' = Wrap(iSequenceReady + 1, MAX_CHAINS)
      /\ pSequence' = << >>
      /\ dec = "advance" /\ dec' = "copy"
  BY DEF AdvanceReady, poolVars, chainVars, filterVars
<1>2. /\ iSequenceReady \in 0 .. MAX_CHAINS - 1
      /\ iSequenceWrite \in 0 .. MAX_CHAINS - 1
      /\ size \in 0 .. POOL_SIZE - 1
      /\ iSequenceReady # iSequenceWrite
      /\ start = iSequenceStart[iSequenceReady]
      /\ size = iSequenceSize[iSequenceReady]
  BY <1>1 DEF Inv, TypeOK, Chains, DecoderInv
<1>3. iSequenceReady' \in 0 .. MAX_CHAINS - 1
  BY <1>1, <1>2 DEF Wrap
<1>4. TypeOK'
  <2>1. pSequence' \in Seq(Int)
    BY <1>1
  <2> QED
    BY <1>1, <1>3, <2>1 DEF Inv, TypeOK, Chains
<1>5. HandlerInv'
  <2>1. ASSUME isr = "publish" PROVE ~ChainFull'
    <3>1. ~ChainFull
      BY <2>1 DEF Inv, HandlerInv
    <3> QED
      BY <1>1, <1>2, <3>1 DEF ChainFull, nextSequenceIndex, Wrap
  <2> QED
    BY <1>1, <2>1 DEF Inv, HandlerInv
<1>6. DecoderInv'
  BY <1>1, <1>2 DEF DecoderInv
<1>7. /\ ChainDistance(iSequenceReady) = 0
      /\ iSequenceReady \in Queued
  BY <1>2, DistanceZero, ReadyIsQueued DEF ChainDistance
<1>8. ASSUME NEW j \in Queued'
      PROVE  /\ j \in Queued
             /\ ChainDistance(j) > 0
             /\ ChainDistance(j)' = ChainDistance(j) - 1
  BY AdvanceQueued
<1>9. RegionsInOrder'
  <2>1. /\ Before(start, size, iPoolWrite)
        /\ iCurrentSequenceSize > 0 => Before(start, size, iCurrentSequenceStart)
    BY <1>2, <1>7 DEF Inv, RegionsInOrder
  <2>2. ASSUME NEW j \in Queued'
        PROVE  /\ Before(start, size, iSequenceStart[j])
               /\ Before(iSequenceStart[j], iSequenceSize[j], iPoolWrite)
               /\ iCurrentSequenceSize > 0 =>
                    Before(iSequenceStart[j], iSequenceSize[j], iCurrentSequenceStart)
    BY <1>2, <1>7, <1>8 DEF Inv, RegionsInOrder
  <2>3. ASSUME NEW j \in Queued', NEW k \in Queued',
               ChainDistance(j)' < ChainDistance(k)'
        PROVE  Before(iSequenceStart[j], iSequenceSize[j], iSequenceStart[k])
    <3>1. /\ j \in Chains /\ k \in Chains
          /\ ChainDistance(j)' = ChainDistance(j) - 1
          /\ ChainDistance(k)' = ChainDistance(k) - 1
      BY <1>8 DEF Queued
    <3>2. /\ ChainDistance(j) \in 0 .. MAX_CHAINS - 1
          /\ ChainDistance(k) \in 0 .. MAX_CHAINS - 1
      BY <1>2, <3>1, DistanceType DEF ChainDistance, Chains
    <3>3. ChainDistance(j) < ChainDistance(k)
      BY <2>3, <3>1, <3>2
    <3> QED
      BY <1>8, <3>3 DEF Inv, RegionsInOrder
  <2>4. iCurrentSequenceSize > 0 => Before(iCurrentSequenceStart, iCurrentSequenceSize, iPoolWrite)
    BY DEF Inv, RegionsInOrder
  <2> QED
    BY <1>1, <2>1, <2>2, <2>3, <2>4 DEF RegionsInOrder, Before, PoolDistance, ChainDistance
<1> QED
  BY <1>4, <1>5, <1>6, <1>9 DEF Inv

\* Every interval is copied from a cell of the pool.
LEMMA CopyIntervalInv ==
  ASSUME Inv, CopyInterval
  PROVE  Inv'
<1> USE PoolAssumption
<1>1. /\ UNCHANGED <<iPoolWrite, iCurrentSequenceStart, iCurrentSequenceSize, pool>>
      /\ UNCHANGED <<chainVars, lastLevel, nNoiseFilterCounter, goodAge, isr>>
      /\ UNCHANGED <<iSequenceStart, iSequenceSize, iSequenceWrite>>
      /\ UNCHANGED <<iPoolRead, iSequenceReady, dec, start, size>>
      /\ dec = "copy"
      /\ Len(pSequence) < size
      /\ pSequence' = Append(pSequence, pool[Wrap(start + Len(pSequence), POOL_SIZE)])
  BY DEF CopyInterval, poolVars, chainVars, filterVars
<1>2. pSequence' \in Seq(Int) /\ Len(pSequence') <= size'
  <2>1. /\ start \in 0 .. POOL_SIZE - 1 /\ size \in 0 .. POOL_SIZE - 1
        /\ pSequence \in Seq(Int) /\ pool \in [Cells -> Int]
    BY DEF Inv, TypeOK, Cells
  <2>2. Len(pSequence) \in 0 .. POOL_SIZE - 1
    BY <1>1, <2>1
  <2>3. start + Len(pSequence) \in 0 .. 2 * POOL_SIZE - 1
    BY <2>1, <2>2
  <2>4. Wrap(start + Len(pSequence), POOL_SIZE) \in Cells
    <3>1. POOL_SIZE \in Nat /\ POOL_SIZE > 0
      OBVIOUS
    <3> HIDE PoolAssumption
    <3> QED
      BY <2>3, <3>1, WrapType DEF Cells
  <2>5. pool[Wrap(start + Len(pSequence), POOL_SIZE)] \in Int
    BY <2>1, <2>4
  <2>6. pSequence' \in Seq(Int) /\ Len(pSequence') = Len(pSequence) + 1
    BY <1>1, <2>1, <2>5
  <2> QED
    BY <1>1, <2>1, <2>2, <2>6
<1>3. TypeOK'
  BY <1>1, <1>2 DEF Inv, TypeOK
<1>4. HandlerInv'
  BY <1>1 DEF Inv, HandlerInv, ChainFull, nextSequenceIndex
<1>5. DecoderInv'
  BY <1>1, <1>2 DEF DecoderInv
<1>6. RegionsInOrder'
  <2>1. Queued' = Queued
    BY <1>1 DEF Queued, ChainDistance
  <2> QED
    BY <1>1, <2>1 DEF Inv, RegionsInOrder, Before, PoolDistance, ChainDistance
<1> QED
  BY <1>3, <1>4, <1>5, <1>6 DEF Inv

\* The cells given back are those before every other region.
LEMMA FreeIntervalsInv ==
  ASSUME Inv, FreeIntervals
  PROVE  Inv'
<1> USE PoolAssumption
<1>1. /\ UNCHANGED <<iPoolWrite, iCurrentSequenceStart, iCurrentSequenceSize, pool>>
      /\ UNCHANGED <<iSequenceStart, iSequenceSize, iSequenceWrite>>
      /\ UNCHANGED <<lastLevel, nNoiseFilterCounter, goodAge, isr>>
      /\ UNCHANGED <<iSequenceReady, start, size, pSequence>>
      /\ iPoolRead' = Wrap(start + size, POOL_SIZE)
      /\ dec = "copy" /\ dec' = "poll"
  BY DEF FreeIntervals, poolVars, chainVars, filterVars
<1>2. /\ iPoolRead \in 0 .. POOL_SIZE - 1
      /\ iPoolWrite \in 0 .. POOL_SIZE - 1
      /\ iCurrentSequenceStart \in 0 .. POOL_SIZE - 1
      /\ start \in 0 .. POOL_SIZE - 1
      /\ size \in 0 .. POOL_SIZE - 1
      /\ \A j \in Queued : iSequenceStart[j] \in 0 .. POOL_SIZE - 1
  BY DEF Inv, TypeOK, Cells, Queued
<1>3. iPoolRead' \in 0 .. POOL_SIZE - 1
  BY <1>1, <1>2 DEF Wrap
<1>4. TypeOK'
  BY <1>1, <1>3 DEF Inv, TypeOK, Cells
<1>5. HandlerInv'
  BY <1>1 DEF Inv, HandlerInv, ChainFull, nextSequenceIndex
<1>6. DecoderInv'
  BY <1>1 DEF DecoderInv
<1>7. Distance(iPoolRead, iPoolRead', POOL_SIZE) = PoolDistance(start) + size
  <2>1. PoolDistance(start) + size <= PoolDistance(iPoolWrite)
    BY <1>1 DEF Inv, RegionsInOrder, Before
  <2>2. /\ PoolDistance(start) \in 0 .. POOL_SIZE - 1
        /\ PoolDistance(iPoolWrite) \in 0 .. POOL_SIZE - 1
    BY <1>2, DistanceType DEF PoolDistance
  <2>3. PoolDistance(start) + size < POOL_SIZE
    BY <1>2, <2>1, <2>2
  <2> QED
    BY <1>1, <1>2, <2>3, DistanceAhead DEF PoolDistance
<1>8. ASSUME NEW i \in 0 .. POOL_SIZE - 1, Before(start, size, i)
      PROVE  Distance(iPoolRead', i, POOL_SIZE) = PoolDistance(i) - (PoolDistance(start) + size)
  BY <1>2, <1>3, <1>7, <1>8, DistanceFrom DEF Before, PoolDistance
<1>9. ASSUME NEW i \in 0 .. POOL_SIZE - 1, NEW n \in Nat, NEW k \in 0 .. POOL_SIZE - 1,
             Before(start, size, i), Before(start, size, k), Before(i, n, k)
      PROVE  Distance(iPoolRead', i, POOL_SIZE) + n <= Distance(iPoolRead', k, POOL_SIZE)
  <2>1. /\ PoolDistance(i) \in Nat /\ PoolDistance(k) \in Nat /\ PoolDistance(start) \in Nat
    BY <1>2, DistanceType DEF PoolDistance
  <2> QED
    BY <1>2, <1>8, <1>9, <2>1 DEF Before
<1>10. RegionsInOrder'
  <2>1. Queued' = Queued
    BY <1>1 DEF Queued, ChainDistance
  <2>2. Before(start, size, iPoolWrite)
    BY <1>1 DEF Inv, RegionsInOrder
  <2>3. iCurrentSequenceSize > 0 =>
          Distance(iPoolRead', iCurrentSequenceStart, POOL_SIZE) + iCurrentSequenceSize
            <= Distance(iPoolRead', iPoolWrite, POOL_SIZE)
    BY <1>1, <1>2, <1>9, <2>2 DEF Inv, TypeOK, RegionsInOrder
  <2>4. ASSUME NEW j \in Queued
        PROVE  /\ Distance(iPoolRead', iSequenceStart[j], POOL_SIZE) + iSequenceSize[j]
                    <= Distance(iPoolRead', iPoolWrite, POOL_SIZE)
               /\ iCurrentSequenceSize > 0 =>
                    Distance(iPoolRead', iSequenceStart[j], POOL_SIZE) + iSequenceSize[j]
                      <= Distance(iPoolRead', iCurrentSequenceStart, POOL_SIZE)
    <3>1. iSequenceSize[j] \in Nat
      BY DEF Inv, TypeOK, Queued
    <3>2. Before(start, size, iSequenceStart[j])
      BY <1>1 DEF Inv, RegionsInOrder
    <3> QED
      BY <1>1, <1>2, <1>9, <2>2, <3>1, <3>2 DEF Inv, RegionsInOrder
  <2>5. ASSUME NEW j \in Queued, NEW k \in Queued, ChainDistance(j) < ChainDistance(k)
        PROVE  Distance(iPoolRead', iSequenceStart[j], POOL_SIZE) + iSequenceSize[j]
                 <= Distance(iPoolRead', iSequenceStart[k], POOL_SIZE)
    <3>1. iSequenceSize[j] \in Nat
      BY DEF Inv, TypeOK, Queued
    <3>2. /\ Before(start, size, iSequenceStart[j])
          /\ Before(start, size, iSequenceStart[k])
          /\ Before(iSequenceStart[j], iSequenceSize[j], iSequenceStart[k])
      BY <1>1, <2>5 DEF Inv, RegionsInOrder
    <3> QED
      BY <1>2, <1>9, <3>1, <3>2
  <2> QED
    BY <1>1, <2>1, <2>3, <2>4, <2>5 DEF RegionsInOrder, Before, PoolDistance, ChainDistance
<1> QED
  BY <1>4, <1>5, <1>6, <1>10 DEF Inv

-----------------------------------------------------------------------------
\* The buffers that resetReceiverBuffer leaves satisfy the invariant.
LEMMA InitInv ==
  ASSUME Init
  PROVE  Inv
<1> USE PoolAssumption, FilterAssumption
<1>1. /\ pool = [i \in Cells |-> 0] /\ pSequence = << >>
      /\ iPoolWrite = 0 /\ iPoolRead = 0
      /\ iSequenceStart = [j \in Chains |-> 0] /\ iSequenceSize = [j \in Chains |-> 0]
      /\ iSequenceWrite = 0 /\ iSequenceReady = 0
      /\ iCurrentSequenceStart = 0 /\ iCurrentSequenceSize = 0
      /\ lastLevel = -1 /\ nNoiseFilterCounter = 0 /\ goodAge = 0
      /\ isr = "idle" /\ dec = "poll" /\ start = 0 /\ size = 0
  BY DEF Init
<1>2. TypeOK
  <2>1. 0 \in Cells /\ 0 \in Chains
    BY DEF Cells, Chains
  <2> QED
    BY <1>1, <2>1 DEF TypeOK
<1>3. Queued = {}
  <2>1. ASSUME NEW j \in Queued PROVE FALSE
    <3>1. j \in Chains /\ ChainDistance(j) < ChainDistance(iSequenceWrite)
      BY DEF Queued
    <3> QED
      BY <1>1, <3>1 DEF ChainDistance, Distance, Chains
  <2> QED
    BY <2>1
<1>4. RegionsInOrder /\ HandlerInv /\ DecoderInv
  BY <1>1, <1>3 DEF RegionsInOrder, HandlerInv, DecoderInv
<1> QED
  BY <1>2, <1>4 DEF Inv

\* No step leaves the invariant.
LEMMA NextInv ==
  ASSUME Inv, [Next]_vars
  PROVE  Inv'
<1>1. CASE SequencePoolOverflow
  <2>1. /\ UNCHANGED <<iPoolWrite, iCurrentSequenceStart, iCurrentSequenceSize, pool>>
        /\ UNCHANGED <<chainVars, decoderVars>>
        /\ UNCHANGED <<iSequenceStart, iSequenceSize, iSequenceWrite>>
        /\ UNCHANGED <<iPoolRead, iSequenceReady, dec, start, size, pSequence>>
        /\ UNCHANGED <<lastLevel, nNoiseFilterCounter, goodAge>>
        /\ isr' = "idle"
    BY <1>1 DEF SequencePoolOverflow, poolVars, chainVars, filterVars, decoderVars
  <2>2. RegionsInOrder' /\ DecoderInv'
    BY <2>1, SameRegions
  <2> QED
    BY <2>1, <2>2 DEF Inv, TypeOK, HandlerInv
<1>2. CASE UNCHANGED vars
  <2>1. /\ UNCHANGED <<iPoolWrite, iCurrentSequenceStart, iCurrentSequenceSize, pool>>
        /\ UNCHANGED <<chainVars, decoderVars>>
        /\ UNCHANGED <<iSequenceStart, iSequenceSize, iSequenceWrite>>
        /\ UNCHANGED <<iPoolRead, iSequenceReady, dec, start, size, pSequence>>
        /\ UNCHANGED <<lastLevel, nNoiseFilterCounter, goodAge, isr>>
    BY <1>2 DEF vars, poolVars, chainVars, filterVars, decoderVars
  <2>2. RegionsInOrder' /\ DecoderInv'
    BY <2>1, SameRegions
  <2> QED
    BY <2>1, <2>2 DEF Inv, TypeOK, HandlerInv, ChainFull, nextSequenceIndex
<1> QED
  BY <1>1, <1>2, HandleInterruptInv, FillDescriptorInv, PublishSequenceInv,
     ReadDescriptorInv, AdvanceReadyInv, CopyIntervalInv, FreeIntervalsInv DEF Next

\* The invariant holds in every reachable state.
LEMMA InvAlways == Spec => []Inv
  BY InitInv, NextInv, PTL DEF Spec

\* The variables of the handler and of the decoder keep their types: no index
\* leaves its ring and no size exceeds the pool, whatever the edges are.
THEOREM TypeCorrect == Spec => []TypeOK
<1>1. Inv => TypeOK
  BY DEF Inv
<1> QED
  BY <1>1, InvAlways, PTL

\* The handler never overwrites an interval of a sequence that is queued, being
\* copied or being recorded, however handler and decoder interleave.
THEOREM RegionsStayInOrder == Spec => []RegionsInOrder
<1>1. Inv => RegionsInOrder
  BY DEF Inv
<1> QED
  BY <1>1, InvAlways, PTL

-----------------------------------------------------------------------------
(* What one interrupt does to the sequence being recorded                  *)

\* A sequence goes to the decoder only if it is long enough.
EndsIfLong == isr' \in {"idle", "enqueue"} /\ (isr' = "enqueue" => iCurrentSequenceSize' >= min_sequence_length)

\* The edge is ignored or filtered out, or it ends the sequence as it is.
Keeps ==
  /\ UNCHANGED <<pool, iPoolWrite, iCurrentSequenceStart, iCurrentSequenceSize>>
  /\ EndsIfLong

\* The edge stores v, which ends the sequence or not.
Stores(v) ==
  /\ ~PoolFull
  /\ pool' = [pool EXCEPT ![iPoolWrite] = v]
  /\ iPoolWrite' = nextPoolIndex
  /\ \/ /\ iCurrentSequenceSize = 0
        /\ iCurrentSequenceStart' = iPoolWrite
        /\ iCurrentSequenceSize' = 1
        /\ isr' = "idle"
     \/ /\ iCurrentSequenceSize > 0
        /\ v \in min_duration .. max_duration
        /\ iCurrentSequenceStart' = iCurrentSequenceStart
        /\ iCurrentSequenceSize' = iCurrentSequenceSize + 1
        /\ EndsIfLong

\* The edge ends a sequence that is too short.
Drops ==
  /\ iCurrentSequenceSize > 0
  /\ pool' = pool \/ \E v \in Int : pool' = [pool EXCEPT ![iPoolWrite] = v]
  /\ iPoolWrite' = iCurrentSequenceStart
  /\ iCurrentSequenceStart' = iCurrentSequenceStart
  /\ iCurrentSequenceSize' = 0
  /\ isr' = "idle"

\* An interval up to max_duration fits into an int16_t.
LEMMA Int16Fits ==
  /\ INT16_MAX \in Nat
  /\ \A d \in 0 .. INT16_MAX : Int16(d) = d
  BY DEF Int16, INT16_MAX

\* What neither waits nor ends the sequence is an interval within the limits, also
\* when the filter has put it together.
LEMMA GoodInterval ==
  ASSUME Inv, NEW level \in {0, 1}, NEW d \in Durations,
         ~Waits(level, d), ~Ends(level, d), Interval(d) <= max_duration
  PROVE  /\ Int16(Interval(d)) \in min_duration .. max_duration
         /\ Int16(Interval(d)) \in StoredIntervals
<1>1. /\ d \in Nat /\ nNoiseFilterCounter \in Nat /\ goodAge \in Nat
      /\ min_duration \in Nat /\ max_duration \in 0 .. INT16_MAX
      /\ Age(d) \in 0 .. MAX_PERIOD + 1 /\ MAX_PERIOD \in Nat
      /\ IGNORABLE_SKIP \in Nat /\ INT16_MAX \in Nat
  BY FilterType, FilterAssumption, Int16Fits DEF FilterAssumption, Inv, TypeOK
<1>2. ~InSpike
  BY <1>1 DEF Waits, Ends, Counted
<1> DEFINE age == Age(d)
<1>3. CASE NoNoise
  <2>1. ~InGap /\ Interval(d) = d
    BY <1>3 DEF NoNoise, InGap, Interval
  <2>2. d >= min_duration
    BY <1>1, <1>3 DEF Waits, Ends, Counted
  <2>3. d \in 0 .. INT16_MAX /\ d \in min_duration .. max_duration
    BY <1>1, <2>1, <2>2
  <2>4. Int16(d) = d
    BY <2>3, Int16Fits
  <2> QED
    BY <2>1, <2>3, <2>4 DEF StoredIntervals
<1>4. CASE InGap
  <2>1. Interval(d) = Age(d)
    BY <1>4 DEF Interval
  <2>2. ~NoNoise
    BY <1>4 DEF NoNoise, InGap
  <2>3. Age(d) >= min_duration /\ Age(d) <= MAX_PERIOD
    BY <1>1, <1>2, <1>4, <2>2 DEF Waits, Ends, Counted
  <2>4. /\ Age(d) \in 0 .. INT16_MAX /\ Age(d) \in min_duration .. max_duration
        /\ Age(d) \in 0 .. MAX_PERIOD
    <3>1. age \in Nat /\ age >= min_duration /\ age <= MAX_PERIOD /\ age <= max_duration
      BY <1>1, <2>1, <2>3
    <3> HIDE DEF age
    <3>2. age \in 0 .. INT16_MAX /\ age \in min_duration .. max_duration /\ age \in 0 .. MAX_PERIOD
      BY <1>1, <3>1
    <3> QED
      BY <3>2 DEF age
  <2>5. Int16(Age(d)) = Age(d)
    BY <2>4, Int16Fits
  <2>6. Int16(Age(d)) \in StoredIntervals
    BY <2>4 DEF StoredIntervals
  <2> QED
    BY <2>1, <2>4, <2>5, <2>6
<1>5. NoNoise \/ InGap
  BY <1>1, <1>2 DEF NoNoise, InGap
<1> QED
  BY <1>3, <1>4, <1>5

\* All branches of the handler come down to these three effects on the sequence
\* being recorded.
LEMMA InterruptEffect ==
  ASSUME Inv, NEW level \in {0, 1}, NEW d \in Durations, HandleInterrupt(level, d)
  PROVE  /\ Keeps \/ (\E v \in StoredIntervals : Stores(v)) \/ Drops
         /\ isr = "idle"
         /\ UNCHANGED <<iSequenceStart, iSequenceSize, iSequenceWrite>>
         /\ UNCHANGED <<iPoolRead, iSequenceReady, dec, start, size, pSequence>>
<1> USE PoolAssumption DEF PoolAssumption
<1>1. /\ isr = "idle"
      /\ UNCHANGED <<iSequenceStart, iSequenceSize, iSequenceWrite>>
      /\ UNCHANGED <<iPoolRead, iSequenceReady, dec, start, size, pSequence>>
  BY DEF HandleInterrupt, chainVars, decoderVars
<1>2. CASE IgnoreEdge(level, d)
  BY <1>1, <1>2 DEF IgnoreEdge, Keeps, EndsIfLong, poolVars
<1>3. CASE StartSequence(level, d)
  <2>1. Int16(d) \in StoredIntervals
    BY DEF StoredIntervals
  <2>2. Stores(Int16(d))
    BY <1>1, <1>3 DEF StartSequence, Stores
  <2> QED
    BY <1>1, <2>1, <2>2
<1>4. CASE FilterNoise(level, d)
  BY <1>1, <1>4 DEF FilterNoise, Keeps, EndsIfLong, poolVars
<1>5. CASE StoreInterval(level, d)
  <2>1. /\ Int16(Interval(d)) \in StoredIntervals
        /\ Int16(Interval(d)) \in min_duration .. max_duration
    BY <1>5, GoodInterval DEF StoreInterval
  <2>2. Stores(Int16(Interval(d)))
    BY <1>1, <1>5, <2>1 DEF StoreInterval, Stores, EndsIfLong
  <2> QED
    BY <1>1, <2>1, <2>2
<1>6. CASE StoreLastInterval(level, d)
  <2>1. /\ Int16(Interval(d)) \in StoredIntervals
        /\ Int16(Interval(d)) \in min_duration .. max_duration
        /\ Int16(Interval(d)) \in Int
    BY <1>6, GoodInterval, FilterType DEF StoreLastInterval
  <2>2. CASE isr' = "enqueue"
    <3>1. Stores(Int16(Interval(d)))
      BY <1>1, <1>6, <2>1, <2>2, PoolAssumption
         DEF StoreLastInterval, Stores, EndsIfLong, Finish, PoolAssumption, Inv, TypeOK
    <3> QED
      BY <1>1, <2>1, <3>1
  <2>3. CASE isr' # "enqueue"
    <3>1. \E v \in Int : pool' = [pool EXCEPT ![iPoolWrite] = v]
      BY <1>6, <2>1 DEF StoreLastInterval
    <3>2. Drops
      BY <1>1, <1>6, <2>3, <3>1 DEF StoreLastInterval, Drops, Finish
    <3> QED
      BY <1>1, <3>2
  <2> QED
    BY <2>2, <2>3
<1>7. CASE EndBeforeInterval(level, d)
  <2>1. CASE isr' = "enqueue"
    BY <1>1, <1>7, <2>1 DEF EndBeforeInterval, Keeps, EndsIfLong, Finish
  <2>2. CASE isr' # "enqueue"
    BY <1>1, <1>7, <2>2 DEF EndBeforeInterval, Drops, Finish
  <2> QED
    BY <2>1, <2>2
<1> QED
  BY <1>1, <1>2, <1>3, <1>4, <1>5, <1>6, <1>7 DEF HandleInterrupt

-----------------------------------------------------------------------------
(* What the cells of the sequences hold                                    *)

\* The k-th cell of a sequence that begins with cell `first`.
Cell(first, k) == Wrap(first + k - 1, POOL_SIZE)

\* All intervals but the first of these n are within the limits.
Limited(first, n) == \A k \in 2 .. n : pool[Cell(first, k)] \in min_duration .. max_duration

\* Only long sequences are published, and the decoder takes only published ones.
LengthInv ==
  /\ isr # "idle" => iCurrentSequenceSize >= min_sequence_length
  /\ \A j \in Queued : iSequenceSize[j] >= min_sequence_length
  /\ dec # "poll" => size >= min_sequence_length

\* The next interval is stored right behind the sequence being recorded.
WriteInv ==
  iCurrentSequenceSize > 0 =>
    iPoolWrite = Wrap(iCurrentSequenceStart + iCurrentSequenceSize, POOL_SIZE)

\* What the decoder has copied is what the cells hold.
CopyInv ==
  dec = "copy" => \A k \in 1 .. Len(pSequence) : pSequence[k] = pool[Cell(start, k)]

\* The limits of IntervalsWithinLimits, said of the cells.
LimitInv ==
  /\ Limited(iCurrentSequenceStart, iCurrentSequenceSize)
  /\ \A j \in Queued : Limited(iSequenceStart[j], iSequenceSize[j])

\* What the other invariants need to know of the contents: by itself Inv says only
\* where the sequences are.
ContentInv == LengthInv /\ WriteInv /\ CopyInv /\ LimitInv

\* Storing an interval changes no cell of a sequence that ends before iPoolWrite.
LEMMA CellsKept ==
  ASSUME Inv, pool' = pool \/ (\E v \in Int : pool' = [pool EXCEPT ![iPoolWrite] = v]),
         NEW first \in Cells, NEW n \in 0 .. POOL_SIZE - 1, Before(first, n, iPoolWrite)
  PROVE  /\ \A k \in 1 .. n : Cell(first, k) \in Cells /\ pool'[Cell(first, k)] = pool[Cell(first, k)]
         /\ Intervals(first, n)' = Intervals(first, n)
<1>1. /\ POOL_SIZE \in Nat /\ POOL_SIZE > 1
      /\ pool \in [Cells -> Int] /\ iPoolWrite \in 0 .. POOL_SIZE - 1
      /\ iPoolRead \in 0 .. POOL_SIZE - 1 /\ first \in 0 .. POOL_SIZE - 1
  BY PoolAssumption DEF PoolAssumption, Inv, TypeOK, Cells
<1>2. ASSUME NEW k \in 1 .. n
      PROVE  Cell(first, k) \in Cells /\ Cell(first, k) # iPoolWrite
  <2>1. /\ PoolDistance(first) \in 0 .. POOL_SIZE - 1
        /\ PoolDistance(iPoolWrite) \in 0 .. POOL_SIZE - 1
    BY <1>1, DistanceType DEF PoolDistance
  <2>2. k - 1 \in 0 .. POOL_SIZE - 1 /\ first + (k - 1) = first + k - 1
    BY <1>1
  <2>3. /\ PoolDistance(first) + (k - 1) < PoolDistance(iPoolWrite)
        /\ PoolDistance(first) + (k - 1) < POOL_SIZE
    BY <1>1, <2>1, <2>2 DEF Before
  <2>4. Distance(iPoolRead, Wrap(first + (k - 1), POOL_SIZE), POOL_SIZE)
          = PoolDistance(first) + (k - 1)
    BY <1>1, <2>2, <2>3, DistanceAhead DEF PoolDistance
  <2>5. Cell(first, k) # iPoolWrite
    BY <2>1, <2>2, <2>3, <2>4 DEF Cell, PoolDistance
  <2>6. Cell(first, k) \in Cells
    <3>1. first + k - 1 \in 0 .. 2 * POOL_SIZE - 1
      BY <1>1
    <3> QED
      BY <1>1, <3>1, WrapType DEF Cell, Cells
  <2> QED
    BY <2>5, <2>6
<1>3. \A k \in 1 .. n : pool'[Cell(first, k)] = pool[Cell(first, k)]
  BY <1>1, <1>2
<1>4. Intervals(first, n)' = Intervals(first, n)
  BY <1>3 DEF Intervals, Cell
<1> QED
  BY <1>2, <1>3, <1>4

\* What is recorded, published and copied is not touched by a step that leaves the
\* rings of descriptors alone.
LEMMA QueuedKept ==
  ASSUME Inv, ContentInv,
         pool' = pool \/ (\E v \in Int : pool' = [pool EXCEPT ![iPoolWrite] = v]),
         UNCHANGED <<iSequenceStart, iSequenceSize, iSequenceWrite>>,
         UNCHANGED <<iSequenceReady, dec, start, size, pSequence>>
  PROVE  /\ Queued' = Queued
         /\ \A j \in Queued : /\ (iSequenceSize[j] >= min_sequence_length)'
                              /\ Limited(iSequenceStart[j], iSequenceSize[j])'
         /\ CopyInv'
<1>1. Queued' = Queued
  BY DEF Queued, ChainDistance
<1>2. ASSUME NEW j \in Queued
      PROVE  /\ (iSequenceSize[j] >= min_sequence_length)'
             /\ Limited(iSequenceStart[j], iSequenceSize[j])'
  <2>1. /\ iSequenceStart[j] \in Cells /\ iSequenceSize[j] \in 0 .. POOL_SIZE - 1
        /\ Before(iSequenceStart[j], iSequenceSize[j], iPoolWrite)
        /\ Limited(iSequenceStart[j], iSequenceSize[j])
        /\ iSequenceSize[j] >= min_sequence_length
    BY DEF Inv, TypeOK, Queued, RegionsInOrder, ContentInv, LimitInv, LengthInv
  <2> DEFINE first == iSequenceStart[j]
             n == iSequenceSize[j]
  <2>2. \A k \in 1 .. n : pool'[Cell(first, k)] = pool[Cell(first, k)]
    <3> HIDE DEF first, n
    <3> QED
      BY <2>1, CellsKept DEF first, n
  <2> QED
    BY <2>1, <2>2 DEF Limited
<1>3. CopyInv'
  <2> SUFFICES ASSUME dec = "copy", NEW k \in 1 .. Len(pSequence)
               PROVE  pSequence[k] = pool'[Cell(start, k)]
    BY DEF CopyInv, Cell
  <2>1. /\ start \in Cells /\ size \in 0 .. POOL_SIZE - 1 /\ Before(start, size, iPoolWrite)
        /\ Len(pSequence) <= size /\ pSequence \in Seq(Int)
    BY DEF Inv, TypeOK, RegionsInOrder, DecoderInv
  <2>2. pool'[Cell(start, k)] = pool[Cell(start, k)]
    BY <2>1, CellsKept
  <2> QED
    BY <2>2 DEF ContentInv, CopyInv
<1> QED
  BY <1>1, <1>2, <1>3

\* The handler keeps the contents right with every edge.
LEMMA InterruptContent ==
  ASSUME Inv, ContentInv, NEW level \in {0, 1}, NEW d \in Durations, HandleInterrupt(level, d)
  PROVE  ContentInv'
<1>1. /\ Keeps \/ (\E v \in StoredIntervals : Stores(v)) \/ Drops
      /\ isr = "idle"
      /\ UNCHANGED <<iSequenceStart, iSequenceSize, iSequenceWrite>>
      /\ UNCHANGED <<iPoolRead, iSequenceReady, dec, start, size, pSequence>>
  BY InterruptEffect
<1>2. StoredIntervals \subseteq Int
  BY FilterAssumption DEF StoredIntervals, Int16, FilterAssumption
<1>3. pool' = pool \/ (\E v \in Int : pool' = [pool EXCEPT ![iPoolWrite] = v])
  BY <1>1, <1>2 DEF Keeps, Stores, Drops
<1>4. /\ Queued' = Queued
      /\ \A j \in Queued : /\ (iSequenceSize[j] >= min_sequence_length)'
                           /\ Limited(iSequenceStart[j], iSequenceSize[j])'
      /\ CopyInv'
  BY <1>1, <1>3, QueuedKept
<1>5. /\ POOL_SIZE \in Nat /\ POOL_SIZE > 1 /\ min_sequence_length \in Nat
      /\ pool \in [Cells -> Int] /\ iPoolWrite \in 0 .. POOL_SIZE - 1 /\ iPoolWrite \in Cells
      /\ iCurrentSequenceStart \in 0 .. POOL_SIZE - 1 /\ iCurrentSequenceStart \in Cells
      /\ iCurrentSequenceSize \in 0 .. POOL_SIZE - 1
      /\ dec # "poll" => size >= min_sequence_length
  BY PoolAssumption DEF PoolAssumption, Inv, TypeOK, Cells, ContentInv, LengthInv
<1>6. CASE Keeps
  <2>1. WriteInv' /\ Limited(iCurrentSequenceStart, iCurrentSequenceSize)'
    BY <1>6 DEF Keeps, ContentInv, WriteInv, LimitInv, Limited
  <2>2. (isr # "idle" => iCurrentSequenceSize >= min_sequence_length)'
    BY <1>6 DEF Keeps, EndsIfLong
  <2> QED
    BY <1>1, <1>4, <1>5, <2>1, <2>2 DEF ContentInv, LengthInv, LimitInv
<1>7. CASE Drops
  <2>1. WriteInv' /\ Limited(iCurrentSequenceStart, iCurrentSequenceSize)'
    BY <1>7 DEF Drops, WriteInv, Limited
  <2>2. (isr # "idle" => iCurrentSequenceSize >= min_sequence_length)'
    BY <1>7 DEF Drops
  <2> QED
    BY <1>1, <1>4, <1>5, <2>1, <2>2 DEF ContentInv, LengthInv, LimitInv
<1>8. CASE \E v \in StoredIntervals : Stores(v)
  <2>1. PICK v \in StoredIntervals : Stores(v)
    BY <1>8
  <2>2. (isr # "idle" => iCurrentSequenceSize >= min_sequence_length)'
    BY <2>1 DEF Stores, EndsIfLong
  <2>3. CASE iCurrentSequenceSize = 0
    <3>1. /\ iCurrentSequenceStart' = iPoolWrite /\ iCurrentSequenceSize' = 1
          /\ iPoolWrite' = Wrap(iPoolWrite + 1, POOL_SIZE)
      BY <2>1, <2>3 DEF Stores, nextPoolIndex
    <3>2. WriteInv' /\ Limited(iCurrentSequenceStart, iCurrentSequenceSize)'
      BY <3>1 DEF WriteInv, Limited
    <3> QED
      BY <1>1, <1>4, <1>5, <2>2, <3>2 DEF ContentInv, LengthInv, LimitInv
  <2>4. CASE iCurrentSequenceSize > 0
    <3> DEFINE first == iCurrentSequenceStart
               n == iCurrentSequenceSize
    <3>1. /\ iCurrentSequenceStart' = first /\ iCurrentSequenceSize' = n + 1
          /\ iPoolWrite' = Wrap(iPoolWrite + 1, POOL_SIZE)
          /\ pool' = [pool EXCEPT ![iPoolWrite] = v] /\ v \in min_duration .. max_duration
          /\ iPoolWrite = Wrap(first + n, POOL_SIZE)
          /\ Before(first, n, iPoolWrite) /\ Limited(first, n)
      BY <2>1, <2>4 DEF Stores, nextPoolIndex, ContentInv, WriteInv, LimitInv, Inv, RegionsInOrder
    <3>2. /\ n + 1 < POOL_SIZE
      <4>1. iCurrentSequenceSize' \in 1 .. POOL_SIZE - 1
        BY <1>1, <2>1, <2>4, ExtendRegion DEF Stores, chainVars, decoderVars
      <4> QED
        BY <1>5, <3>1, <4>1
    <3>3. Wrap(Wrap(first + n, POOL_SIZE) + 1, POOL_SIZE) = Wrap(first + (n + 1), POOL_SIZE)
      BY <1>5, <3>2 DEF Wrap
    <3>4. WriteInv'
      BY <3>1, <3>3 DEF WriteInv
    <3>5. \A k \in 1 .. n : pool'[Cell(first, k)] = pool[Cell(first, k)]
      BY <1>3, <1>5, <3>1, CellsKept
    <3>6. pool'[Cell(first, n + 1)] = v
      <4>1. first + (n + 1) - 1 = first + n
        BY <1>5
      <4> QED
        BY <1>5, <3>1, <4>1 DEF Cell
    <3>7. \A k \in 2 .. n + 1 : (k \in 2 .. n /\ k \in 1 .. n) \/ k = n + 1
      BY <1>5
    <3>8. \A k \in 2 .. n + 1 : pool'[Cell(first, k)] \in min_duration .. max_duration
      <4> HIDE DEF first, n
      <4> QED
        BY <3>1, <3>5, <3>6, <3>7 DEF Limited
    <3>9. Limited(iCurrentSequenceStart, iCurrentSequenceSize)'
      BY <3>1, <3>8 DEF Limited, Cell
    <3> QED
      BY <1>1, <1>4, <1>5, <2>2, <3>4, <3>9 DEF ContentInv, LengthInv, LimitInv
  <2> QED
    BY <1>5, <2>3, <2>4
<1> QED
  BY <1>1, <1>6, <1>7, <1>8

\* Filling a free descriptor changes no published sequence.
LEMMA FillContent ==
  ASSUME Inv, ContentInv, FillDescriptor
  PROVE  ContentInv'
<1>1. /\ UNCHANGED <<iPoolWrite, iCurrentSequenceStart, iCurrentSequenceSize, pool>>
      /\ UNCHANGED <<iSequenceWrite, iSequenceReady, dec, start, size, pSequence>>
      /\ isr = "enqueue"
      /\ iSequenceSize' = [iSequenceSize EXCEPT ![iSequenceWrite] = iCurrentSequenceSize]
      /\ iSequenceStart' = [iSequenceStart EXCEPT ![iSequenceWrite] = iCurrentSequenceStart]
  BY DEF FillDescriptor, poolVars, decoderVars
<1>2. Queued' = Queued
  BY <1>1 DEF Queued, ChainDistance
<1>3. \A j \in Queued : j \in Chains /\ j # iSequenceWrite
  <2>1. ChainDistance(iSequenceWrite) \in 0 .. MAX_CHAINS - 1
    BY PoolAssumption, DistanceType DEF Inv, TypeOK, Chains, ChainDistance
  <2> QED
    BY <2>1 DEF Queued
<1>4. \A j \in Queued : /\ iSequenceStart'[j] = iSequenceStart[j]
                        /\ iSequenceSize'[j] = iSequenceSize[j]
  BY <1>1, <1>3 DEF Inv, TypeOK
<1>5. LengthInv'
  BY <1>1, <1>2, <1>4 DEF ContentInv, LengthInv
<1>6. WriteInv' /\ CopyInv'
  BY <1>1 DEF ContentInv, WriteInv, CopyInv, Cell
<1>7. LimitInv'
  BY <1>1, <1>2, <1>4 DEF ContentInv, LimitInv, Limited
<1> QED
  BY <1>5, <1>6, <1>7 DEF ContentInv

\* The sequence being recorded becomes the last published one.
LEMMA PublishContent ==
  ASSUME Inv, ContentInv, PublishSequence
  PROVE  ContentInv'
<1>1. /\ UNCHANGED <<iPoolWrite, iCurrentSequenceStart, pool, iSequenceStart, iSequenceSize>>
      /\ UNCHANGED <<dec, start, size, pSequence>>
      /\ isr = "publish" /\ isr' = "idle"
      /\ iCurrentSequenceSize' = 0
      /\ iSequenceStart[iSequenceWrite] = iCurrentSequenceStart
      /\ iSequenceSize[iSequenceWrite] = iCurrentSequenceSize
  BY DEF PublishSequence, decoderVars, Inv, HandlerInv
<1>2. \A j \in Queued' : j \in Queued \/ j = iSequenceWrite
  BY PublishQueued
<1>3. LengthInv'
  BY <1>1, <1>2 DEF ContentInv, LengthInv
<1>4. WriteInv' /\ CopyInv'
  BY <1>1 DEF ContentInv, WriteInv, CopyInv, Cell
<1>5. \A j \in Queued' : Limited(iSequenceStart[j], iSequenceSize[j])
  BY <1>1, <1>2 DEF ContentInv, LimitInv
<1>6. LimitInv'
  BY <1>1, <1>5 DEF LimitInv, Limited
<1> QED
  BY <1>3, <1>4, <1>6 DEF ContentInv

\* The decoder takes a sequence that is long enough.
LEMMA ReadContent ==
  ASSUME Inv, ContentInv, ReadDescriptor
  PROVE  ContentInv'
<1>1. /\ UNCHANGED <<iPoolWrite, iCurrentSequenceStart, iCurrentSequenceSize, pool>>
      /\ UNCHANGED <<iSequenceStart, iSequenceSize, iSequenceWrite, isr>>
      /\ UNCHANGED <<iSequenceReady, pSequence>>
      /\ iSequenceReady # iSequenceWrite
      /\ dec = "poll" /\ dec' = "advance"
      /\ size' = iSequenceSize[iSequenceReady]
  BY DEF ReadDescriptor, poolVars, chainVars
<1>2. Queued' = Queued
  BY <1>1 DEF Queued, ChainDistance
<1>3. size' >= min_sequence_length
  BY <1>1, ReadyIsQueued DEF ContentInv, LengthInv
<1>4. LengthInv'
  BY <1>1, <1>2, <1>3 DEF ContentInv, LengthInv
<1>5. WriteInv' /\ CopyInv' /\ LimitInv'
  BY <1>1, <1>2 DEF ContentInv, WriteInv, CopyInv, LimitInv, Limited
<1> QED
  BY <1>4, <1>5 DEF ContentInv

\* The copy begins with nothing copied.
LEMMA AdvanceContent ==
  ASSUME Inv, ContentInv, AdvanceReady
  PROVE  ContentInv'
<1>1. /\ UNCHANGED <<iPoolWrite, iCurrentSequenceStart, iCurrentSequenceSize, pool>>
      /\ UNCHANGED <<iSequenceStart, iSequenceSize, isr, start, size>>
      /\ pSequence' = << >>
      /\ dec = "advance"
  BY DEF AdvanceReady, poolVars, chainVars
<1>2. \A j \in Queued' : j \in Queued
  BY AdvanceQueued
<1>3. LengthInv'
  BY <1>1, <1>2 DEF ContentInv, LengthInv
<1>4. WriteInv' /\ CopyInv'
  BY <1>1 DEF ContentInv, WriteInv, CopyInv
<1>5. LimitInv'
  BY <1>1, <1>2 DEF ContentInv, LimitInv, Limited
<1> QED
  BY <1>3, <1>4, <1>5 DEF ContentInv

\* One more interval is copied.
LEMMA CopyContent ==
  ASSUME Inv, ContentInv, CopyInterval
  PROVE  ContentInv'
<1>1. /\ UNCHANGED <<iPoolWrite, iCurrentSequenceStart, iCurrentSequenceSize, pool>>
      /\ UNCHANGED <<iSequenceStart, iSequenceSize, iSequenceWrite, isr>>
      /\ UNCHANGED <<iSequenceReady, dec, start, size>>
      /\ dec = "copy"
      /\ Len(pSequence) < size
      /\ pSequence' = Append(pSequence, pool[Wrap(start + Len(pSequence), POOL_SIZE)])
  BY DEF CopyInterval, poolVars, chainVars
<1>2. Queued' = Queued
  BY <1>1 DEF Queued, ChainDistance
<1>3. LengthInv' /\ WriteInv' /\ LimitInv'
  BY <1>1, <1>2 DEF ContentInv, LengthInv, WriteInv, LimitInv, Limited
<1>4. CopyInv'
  <2> DEFINE n == Len(pSequence)
             next == pool[Wrap(start + n, POOL_SIZE)]
  <2>1. /\ pSequence \in Seq(Int) /\ n \in Nat /\ start \in Nat
        /\ pSequence' = Append(pSequence, next)
        /\ \A k \in 1 .. n : pSequence[k] = pool[Cell(start, k)]
    BY <1>1 DEF Inv, TypeOK, Cells, ContentInv, CopyInv
  <2>2. next = pool[Cell(start, n + 1)]
    <3>1. start + (n + 1) - 1 = start + n
      BY <2>1
    <3> QED
      BY <3>1 DEF Cell
  <2> HIDE DEF next
  <2>3. Len(pSequence') = n + 1
    BY <2>1
  <2>4. \A k \in 1 .. n + 1 : pSequence'[k] = pool[Cell(start, k)]
    <3>1. \A k \in 1 .. n : pSequence'[k] = pSequence[k]
      BY <2>1
    <3>2. pSequence'[n + 1] = next
      BY <2>1
    <3>3. \A k \in 1 .. n + 1 : k \in 1 .. n \/ k = n + 1
      BY <2>1
    <3> HIDE DEF n
    <3> QED
      BY <2>1, <2>2, <3>1, <3>2, <3>3
  <2>5. \A k \in 1 .. Len(pSequence') : pSequence'[k] = pool'[Cell(start', k)]
    BY <1>1, <2>3, <2>4
  <2> QED
    BY <2>5 DEF CopyInv, Cell
<1> QED
  BY <1>3, <1>4 DEF ContentInv

\* Giving the cells back changes no sequence.
LEMMA FreeContent ==
  ASSUME Inv, ContentInv, FreeIntervals
  PROVE  ContentInv'
<1>1. /\ UNCHANGED <<iPoolWrite, iCurrentSequenceStart, iCurrentSequenceSize, pool>>
      /\ UNCHANGED <<iSequenceStart, iSequenceSize, iSequenceWrite, isr, iSequenceReady>>
      /\ dec' = "poll"
  BY DEF FreeIntervals, poolVars, chainVars
<1>2. Queued' = Queued
  BY <1>1 DEF Queued, ChainDistance
<1> QED
  BY <1>1, <1>2 DEF ContentInv, LengthInv, WriteInv, CopyInv, LimitInv, Limited

\* A full ring of descriptors changes no sequence.
LEMMA StutterContent ==
  ASSUME Inv, ContentInv, SequencePoolOverflow \/ UNCHANGED vars
  PROVE  ContentInv'
<1>1. /\ UNCHANGED <<iPoolWrite, iCurrentSequenceStart, iCurrentSequenceSize, pool>>
      /\ UNCHANGED <<iSequenceStart, iSequenceSize, iSequenceWrite, iSequenceReady>>
      /\ UNCHANGED <<dec, start, size, pSequence>>
      /\ isr' = isr \/ isr' = "idle"
  BY DEF SequencePoolOverflow, vars, poolVars, chainVars, decoderVars
<1>2. Queued' = Queued
  BY <1>1 DEF Queued, ChainDistance
<1>3. LengthInv'
  BY <1>1, <1>2 DEF ContentInv, LengthInv
<1>4. WriteInv' /\ CopyInv' /\ LimitInv'
  BY <1>1, <1>2 DEF ContentInv, WriteInv, CopyInv, Cell, LimitInv, Limited
<1> QED
  BY <1>3, <1>4 DEF ContentInv

\* There are no sequences at the start.
LEMMA InitContent ==
  ASSUME Init
  PROVE  ContentInv
<1>1. /\ iPoolRead = 0 /\ iSequenceWrite = 0 /\ iSequenceReady = 0
      /\ iCurrentSequenceStart = 0 /\ iCurrentSequenceSize = 0
      /\ isr = "idle" /\ dec = "poll"
  BY DEF Init
<1>2. Queued = {}
  <2>1. ASSUME NEW j \in Queued PROVE FALSE
    <3>1. j \in Chains /\ ChainDistance(j) < ChainDistance(iSequenceWrite)
      BY DEF Queued
    <3> QED
      BY <1>1, <3>1, PoolAssumption DEF ChainDistance, Distance, Chains, PoolAssumption
  <2> QED
    BY <2>1
<1>3. WriteInv /\ CopyInv
  BY <1>1 DEF WriteInv, CopyInv
<1>4. Limited(iCurrentSequenceStart, iCurrentSequenceSize)
  BY <1>1 DEF Limited
<1> QED
  BY <1>1, <1>2, <1>3, <1>4 DEF ContentInv, LengthInv, LimitInv

\* No step leaves the two invariants.
LEMMA NextContent ==
  Inv /\ ContentInv /\ [Next]_vars => ContentInv'
<1> SUFFICES ASSUME Inv, ContentInv, [Next]_vars PROVE ContentInv'
  OBVIOUS
<1> QED
  BY InterruptContent, FillContent, PublishContent, ReadContent, AdvanceContent, CopyContent,
     FreeContent, StutterContent DEF Next

\* The two invariants hold in every reachable state.
LEMMA ContentAlways == Spec => [](Inv /\ ContentInv)
<1>1. Init => Inv /\ ContentInv
  BY InitInv, InitContent
<1>2. Inv /\ ContentInv /\ [Next]_vars => (Inv /\ ContentInv)'
  BY NextInv, NextContent
<1> QED
  BY <1>1, <1>2, PTL DEF Spec

-----------------------------------------------------------------------------
(* What ContentInv says of the sequences                                   *)

\* The descriptor at position p of the queue.
Position(p) == Wrap(iSequenceReady + p - 1, MAX_CHAINS)

\* The positions of the queue are the published descriptors, oldest first.
LEMMA PositionQueued ==
  ASSUME Inv, NEW p \in 1 .. ChainDistance(iSequenceWrite)
  PROVE  /\ Position(p) \in Queued
         /\ ChainDistance(Position(p)) = p - 1
<1>1. /\ iSequenceReady \in 0 .. MAX_CHAINS - 1
      /\ iSequenceWrite \in 0 .. MAX_CHAINS - 1
      /\ MAX_CHAINS \in Nat /\ MAX_CHAINS > 1
  BY PoolAssumption DEF PoolAssumption, Inv, TypeOK, Chains
<1>2. ChainDistance(iSequenceWrite) \in 0 .. MAX_CHAINS - 1
  BY <1>1, DistanceType DEF ChainDistance
<1>3. p \in 1 .. MAX_CHAINS - 1
  BY <1>1, <1>2
<1>4. Position(p) \in 0 .. MAX_CHAINS - 1 /\ ChainDistance(Position(p)) = p - 1
  BY <1>1, <1>3 DEF Position, ChainDistance, Distance, Wrap
<1>5. ChainDistance(Position(p)) < ChainDistance(iSequenceWrite)
  BY <1>2, <1>3, <1>4
<1> QED
  BY <1>4, <1>5 DEF Queued, Chains

\* A sequence has as many intervals as the descriptor says.
LEMMA IntervalsType ==
  ASSUME NEW first, NEW n \in Nat
  PROVE  /\ Len(Intervals(first, n)) = n
         /\ \A k \in 1 .. n : Intervals(first, n)[k] = pool[Cell(first, k)]
  BY DEF Intervals, Cell

\* QueuedSequences lists the published sequences.
LEMMA QueuedSequencesValue ==
  ASSUME Inv
  PROVE  /\ DOMAIN QueuedSequences = 1 .. ChainDistance(iSequenceWrite)
         /\ \A p \in DOMAIN QueuedSequences :
              QueuedSequences[p] =
                Intervals(iSequenceStart[Position(p)], iSequenceSize[Position(p)])
  BY DEF QueuedSequences, Position

\* Every interval behind the first of a sequence is within the limits of the
\* protocols, also when the noise filter has merged it from several edges and
\* wherever the sequence lies in the pool.
THEOREM LimitsHold == Spec => []IntervalsWithinLimits
<1>1. Inv /\ ContentInv => IntervalsWithinLimits
  <2> SUFFICES ASSUME Inv, ContentInv PROVE IntervalsWithinLimits
    OBVIOUS
  <2>1. ASSUME NEW first, NEW n \in Nat, Limited(first, n)
        PROVE  \A k \in 2 .. Len(Intervals(first, n)) :
                 Intervals(first, n)[k] \in min_duration .. max_duration
    <3>1. \A k \in 2 .. n : k \in 1 .. n
      BY <2>1
    <3> QED
      BY <2>1, <3>1, IntervalsType DEF Limited
  <2>2. iCurrentSequenceSize \in Nat /\ Limited(iCurrentSequenceStart, iCurrentSequenceSize)
    BY PoolAssumption DEF PoolAssumption, Inv, TypeOK, ContentInv, LimitInv
  <2>3. ASSUME NEW p \in DOMAIN QueuedSequences
        PROVE  \A k \in 2 .. Len(QueuedSequences[p]) :
                 QueuedSequences[p][k] \in min_duration .. max_duration
    <3>1. Position(p) \in Queued
      BY QueuedSequencesValue, PositionQueued
    <3>2. /\ iSequenceSize[Position(p)] \in Nat
          /\ Limited(iSequenceStart[Position(p)], iSequenceSize[Position(p)])
      BY <3>1, PoolAssumption DEF PoolAssumption, Inv, TypeOK, Queued, ContentInv, LimitInv
    <3>3. QueuedSequences[p] = Intervals(iSequenceStart[Position(p)], iSequenceSize[Position(p)])
      BY QueuedSequencesValue
    <3> QED
      BY <2>1, <3>2, <3>3
  <2>4. \A k \in 2 .. Len(Intervals(iCurrentSequenceStart, iCurrentSequenceSize)) :
           Intervals(iCurrentSequenceStart, iCurrentSequenceSize)[k]
             \in min_duration .. max_duration
    BY <2>1, <2>2
  <2> QED
    BY <2>3, <2>4 DEF IntervalsWithinLimits
<1> QED
  BY <1>1, ContentAlways, PTL

-----------------------------------------------------------------------------
(* The pool fills up before the descriptors do                             *)

\* Each published sequence pushes the next one min_sequence_length cells farther.
LEMMA StartIsFar ==
  ASSUME Inv, ContentInv, NEW p \in 1 .. ChainDistance(iSequenceWrite)
  PROVE  PoolDistance(iSequenceStart[Position(p)]) >= (p - 1) * min_sequence_length
<1> DEFINE n == ChainDistance(iSequenceWrite)
           m == min_sequence_length
           far(q) == (q - 1) * m
           at(q) == PoolDistance(iSequenceStart[Position(q)])
           Near == {q \in 1 .. n : at(q) < far(q)}
<1>1. n \in Nat /\ m \in Nat
  BY PoolAssumption, DistanceType DEF PoolAssumption, Inv, TypeOK, Chains, ChainDistance
<1>2. \A q \in 1 .. n : at(q) \in Nat
  <2> SUFFICES ASSUME NEW q \in 1 .. n PROVE at(q) \in Nat
    OBVIOUS
  <2>1. Position(q) \in Queued
    BY PositionQueued
  <2>2. /\ iSequenceStart[Position(q)] \in 0 .. POOL_SIZE - 1
        /\ iPoolRead \in 0 .. POOL_SIZE - 1 /\ POOL_SIZE \in Nat
    BY <2>1, PoolAssumption DEF PoolAssumption, Inv, TypeOK, Queued, Cells
  <2> QED
    BY <2>2, DistanceType DEF PoolDistance
<1>3. ASSUME NEW q \in 1 .. n, q > 1
      PROVE  q - 1 \in 1 .. n /\ at(q) >= at(q - 1) + m
  <2>1. q - 1 \in 1 .. n
    BY <1>1, <1>3
  <2>2. /\ Position(q) \in Queued /\ ChainDistance(Position(q)) = q - 1
        /\ Position(q - 1) \in Queued /\ ChainDistance(Position(q - 1)) = q - 1 - 1
    BY <2>1, PositionQueued
  <2>3. ChainDistance(Position(q - 1)) < ChainDistance(Position(q))
    BY <1>1, <2>2
  <2>4. Before(iSequenceStart[Position(q - 1)], iSequenceSize[Position(q - 1)],
               iSequenceStart[Position(q)])
    BY <2>2, <2>3 DEF Inv, RegionsInOrder
  <2>5. /\ iSequenceSize[Position(q - 1)] >= m
        /\ iSequenceSize[Position(q - 1)] \in Int
    BY <2>2, PoolAssumption DEF PoolAssumption, ContentInv, LengthInv, Inv, TypeOK, Queued
  <2>6. at(q - 1) + iSequenceSize[Position(q - 1)] <= at(q)
    BY <2>4 DEF Before
  <2>7. at(q) \in Nat /\ at(q - 1) \in Nat
    BY <1>2, <2>1
  <2> HIDE DEF at, m
  <2> QED
    BY <1>1, <2>1, <2>5, <2>6, <2>7
<1>4. \A q \in 1 .. n : far(q) \in Int /\ (q > 1 => far(q) = far(q - 1) + m)
  BY <1>1
<1>5. far(1) = 0
  BY <1>1
<1>6. Near = {}
  <2> SUFFICES ASSUME Near # {} PROVE FALSE
    OBVIOUS
  <2> HIDE DEF n, m, far, at
  <2>1. Near \in SUBSET Nat
    BY <1>1
  <2>2. PICK q \in Near : \A e \in Near : q <= e
    <3> HIDE DEF Near
    <3> QED
      BY <2>1, LeastExists
  <2>3. q \in 1 .. n /\ at(q) < far(q)
    BY <2>2
  <2>4. q > 1
    BY <1>1, <1>2, <1>5, <2>3
  <2>5. q - 1 \in 1 .. n /\ at(q) >= at(q - 1) + m
    BY <1>3, <2>3, <2>4
  <2>6. q - 1 \notin Near
    BY <1>1, <2>2, <2>3
  <2>7. at(q - 1) >= far(q - 1)
    BY <1>2, <1>4, <2>5, <2>6
  <2> QED
    BY <1>1, <1>2, <1>4, <2>3, <2>4, <2>5, <2>7
<1>7. at(p) >= far(p)
  <2> HIDE DEF far, at
  <2> QED
    BY <1>2, <1>4, <1>6
<1> QED
  BY <1>7

\* When MAX_CHAINS sequences of the least length do not fit into the pool, the
\* handler finds the pool full before it could use up the descriptors, and the
\* branch that counts sequence_pool_overflow and keeps the sequence is dead.
THEOREM DescriptorsSuffice == Spec => []NoOverflow
<1>1. Inv /\ ContentInv => NoOverflow
  <2> SUFFICES ASSUME Inv, ContentInv, isr = "enqueue", ChainFull
               PROVE  ~(MAX_CHAINS * min_sequence_length > POOL_SIZE - 1)
    BY DEF NoOverflow
  <2> DEFINE m == min_sequence_length
             n == MAX_CHAINS - 1
             last == Position(n)
             far == (n - 1) * m
  <2>1. /\ iSequenceReady \in 0 .. MAX_CHAINS - 1 /\ iSequenceWrite \in 0 .. MAX_CHAINS - 1
        /\ MAX_CHAINS \in Nat /\ MAX_CHAINS > 1 /\ POOL_SIZE \in Nat /\ m \in Nat
        /\ iPoolRead \in 0 .. POOL_SIZE - 1 /\ iPoolWrite \in 0 .. POOL_SIZE - 1
        /\ iCurrentSequenceStart \in 0 .. POOL_SIZE - 1
        /\ iCurrentSequenceSize \in Nat
    BY PoolAssumption DEF PoolAssumption, Inv, TypeOK, Chains, Cells
  <2>2. ChainDistance(iSequenceWrite) = n
    BY <2>1 DEF ChainFull, nextSequenceIndex, ChainDistance, Distance, Wrap
  <2>3. n \in 1 .. ChainDistance(iSequenceWrite)
    BY <2>1, <2>2
  <2>4. PoolDistance(iSequenceStart[last]) >= far
    BY <2>3, StartIsFar
  <2>5. last \in Queued
    BY <2>3, PositionQueued
  <2>6. /\ iSequenceSize[last] \in Nat /\ iSequenceSize[last] >= m
        /\ iSequenceStart[last] \in 0 .. POOL_SIZE - 1
    BY <2>5, PoolAssumption DEF PoolAssumption, Inv, TypeOK, Queued, Cells, ContentInv, LengthInv
  <2>7. iCurrentSequenceSize >= m /\ iCurrentSequenceSize > 0
    BY DEF ContentInv, LengthInv, Inv, HandlerInv
  <2>8. /\ Before(iSequenceStart[last], iSequenceSize[last], iCurrentSequenceStart)
        /\ Before(iCurrentSequenceStart, iCurrentSequenceSize, iPoolWrite)
    BY <2>5, <2>7 DEF Inv, RegionsInOrder
  <2>9. /\ PoolDistance(iPoolWrite) \in 0 .. POOL_SIZE - 1
        /\ PoolDistance(iCurrentSequenceStart) \in Nat
        /\ PoolDistance(iSequenceStart[last]) \in Nat
    <3>1. \A i \in 0 .. POOL_SIZE - 1 : PoolDistance(i) \in 0 .. POOL_SIZE - 1
      BY <2>1, DistanceType DEF PoolDistance
    <3> HIDE DEF last, m, n
    <3> QED
      BY <2>1, <2>6, <3>1
  <2>10. far \in Int /\ far + m + m = MAX_CHAINS * m
    BY <2>1
  <2> HIDE DEF m, n, last, far
  <2>11. far + m + m <= POOL_SIZE - 1
    BY <2>1, <2>4, <2>6, <2>7, <2>8, <2>9, <2>10 DEF Before
  <2>12. MAX_CHAINS * m <= POOL_SIZE - 1 /\ MAX_CHAINS * m \in Int
    BY <2>1, <2>10, <2>11
  <2> QED
    BY <2>1, <2>12 DEF m
<1> QED
  BY <1>1, ContentAlways, PTL

-----------------------------------------------------------------------------
(* The number of intervals tells the level                                 *)

Odd(n) == n % 2 = 1

\* LevelsAlternate says nothing while the filter is active; the counter of the
\* filter then takes part in the parity.
LevelInv ==
  isr = "idle" /\ iCurrentSequenceSize > 0 =>
    /\ lastLevel \in {0, 1}
    /\ lastLevel = 0 => Odd(iCurrentSequenceSize + nNoiseFilterCounter)
    /\ lastLevel = 1 => ~Odd(iCurrentSequenceSize + nNoiseFilterCounter)

\* A step up or down changes the parity.
LEMMA OddNext ==
  \A n \in Nat : /\ Odd(n) => ~Odd(n + 1)
                 /\ ~Odd(n) => Odd(n + 1)
                 /\ n > 0 /\ Odd(n) => ~Odd(n - 1)
                 /\ n > 0 /\ ~Odd(n) => Odd(n - 1)
  BY DEF Odd

\* The filter counts an edge that it waits for: the counter changes its parity.
LEMMA WaitingIsCounted ==
  ASSUME Inv, NEW level \in {0, 1}, NEW d \in Durations, level # lastLevel, Waits(level, d)
  PROVE  \/ nNoiseFilterCounter > 1 /\ NextCounter(level, d) = nNoiseFilterCounter - 1
         \/ NextCounter(level, d) = nNoiseFilterCounter + 1
<1>1. nNoiseFilterCounter \in Nat /\ MAX_IGNORD_SKIPS \in Nat
  BY FilterAssumption DEF FilterAssumption, Inv, TypeOK
<1>2. Step(level) = 1 /\ Counted(level, d)
  BY DEF Step, Waits
<1> QED
  BY <1>1, <1>2 DEF NextCounter, SkipLimit

\* Within a spike every edge is waited for or ends the sequence.
LEMMA StoredIsNoSpike ==
  ASSUME Inv, NEW level \in {0, 1}, NEW d \in Durations, ~Waits(level, d), ~Ends(level, d)
  PROVE  ~Odd(nNoiseFilterCounter)
<1>1. d \in Nat /\ IGNORABLE_SKIP \in Nat
  BY FilterAssumption DEF FilterAssumption
<1> QED
  BY <1>1 DEF Waits, Ends, Counted, InSpike, Odd

\* Every edge changes the level and the parity.
LEMMA InterruptLevel ==
  ASSUME Inv, LevelInv, ~MissedInterrupts,
         NEW level \in {0, 1}, NEW d \in Durations, HandleInterrupt(level, d)
  PROVE  LevelInv'
<1>1. isr = "idle" /\ level # lastLevel /\ lastLevel' = level
  BY DEF HandleInterrupt
<1>2. nNoiseFilterCounter \in Nat /\ iCurrentSequenceSize \in Nat
  BY PoolAssumption DEF PoolAssumption, Inv, TypeOK
<1>3. CASE IgnoreEdge(level, d)
  BY <1>3 DEF IgnoreEdge, poolVars, LevelInv
<1>4. CASE StartSequence(level, d)
  <2>1. iCurrentSequenceSize' = 1 /\ nNoiseFilterCounter' = 0 /\ level = 0
    BY <1>4 DEF StartSequence
  <2>2. Odd(1 + 0)
    BY DEF Odd
  <2> QED
    BY <1>1, <2>1, <2>2 DEF LevelInv
<1>5. CASE FilterNoise(level, d)
  <2> DEFINE n == iCurrentSequenceSize + nNoiseFilterCounter
  <2>1. /\ iCurrentSequenceSize > 0 /\ iCurrentSequenceSize' = iCurrentSequenceSize
        /\ nNoiseFilterCounter' = NextCounter(level, d) /\ Waits(level, d)
    BY <1>5 DEF FilterNoise, poolVars
  <2>2. /\ n \in Nat /\ n > 0
        /\ \/ iCurrentSequenceSize' + nNoiseFilterCounter' = n - 1
           \/ iCurrentSequenceSize' + nNoiseFilterCounter' = n + 1
    BY <1>1, <1>2, <2>1, WaitingIsCounted
  <2>3. /\ lastLevel \in {0, 1}
        /\ lastLevel = 0 => Odd(n)
        /\ lastLevel = 1 => ~Odd(n)
    BY <1>1, <2>1 DEF LevelInv
  <2> HIDE DEF n
  <2>4. /\ Odd(n) => ~Odd(iCurrentSequenceSize' + nNoiseFilterCounter')
        /\ ~Odd(n) => Odd(iCurrentSequenceSize' + nNoiseFilterCounter')
    BY <2>2, OddNext
  <2> QED
    BY <1>1, <2>3, <2>4 DEF LevelInv
<1>6. CASE StoreInterval(level, d)
  <2>1. /\ iCurrentSequenceSize > 0 /\ iCurrentSequenceSize' = iCurrentSequenceSize + 1
        /\ nNoiseFilterCounter' = 0 /\ ~Waits(level, d) /\ ~Ends(level, d)
    BY <1>6 DEF StoreInterval
  <2>2. ~Odd(nNoiseFilterCounter)
    BY <2>1, StoredIsNoSpike
  <2>3. /\ Odd(iCurrentSequenceSize + nNoiseFilterCounter)
             => ~Odd(iCurrentSequenceSize' + nNoiseFilterCounter')
        /\ ~Odd(iCurrentSequenceSize + nNoiseFilterCounter)
             => Odd(iCurrentSequenceSize' + nNoiseFilterCounter')
    BY <1>2, <2>1, <2>2 DEF Odd
  <2> QED
    BY <1>1, <2>1, <2>3 DEF LevelInv
<1>7. CASE StoreLastInterval(level, d) \/ EndBeforeInterval(level, d)
  <2>1. iCurrentSequenceSize' = 0 \/ isr' = "enqueue"
    BY <1>7 DEF StoreLastInterval, EndBeforeInterval, Finish
  <2> QED
    BY <2>1 DEF LevelInv
<1> QED
  BY <1>3, <1>4, <1>5, <1>6, <1>7 DEF HandleInterrupt

\* When no edge is missed and the descriptors suffice, an even position of a
\* sequence is an interval of high level and an odd one an interval of low level:
\* a filtered spike always counts two edges.  Both hypotheses are needed: after a
\* missed edge, and after a sequence that is kept because no descriptor is free,
\* the levels of the recorded intervals no longer alternate.
THEOREM LevelsKeepAlternating ==
  ASSUME ~MissedInterrupts, MAX_CHAINS * min_sequence_length > POOL_SIZE - 1
  PROVE  Spec => []LevelsAlternate
<1>1. Init => LevelInv
  BY DEF Init, LevelInv
<1>2. Inv /\ NoOverflow /\ LevelInv /\ [Next]_vars => LevelInv'
  <2> SUFFICES ASSUME Inv, NoOverflow, LevelInv, [Next]_vars PROVE LevelInv'
    OBVIOUS
  <2>1. ~SequencePoolOverflow
    BY DEF NoOverflow, SequencePoolOverflow
  <2>2. CASE FillDescriptor \/ PublishSequence
    BY <2>2 DEF FillDescriptor, PublishSequence, LevelInv
  <2>3. CASE ReadDescriptor \/ AdvanceReady \/ CopyInterval \/ FreeIntervals \/ UNCHANGED vars
    BY <2>3 DEF ReadDescriptor, AdvanceReady, CopyInterval, FreeIntervals, vars,
                poolVars, filterVars, LevelInv
  <2> QED
    BY <2>1, <2>2, <2>3, InterruptLevel DEF Next
<1>3. Inv /\ LevelInv => LevelsAlternate
  <2> SUFFICES ASSUME Inv, LevelInv, iCurrentSequenceSize > 0, nNoiseFilterCounter = 0,
                      isr = "idle"
               PROVE  iCurrentSequenceSize % 2 = 1 <=> lastLevel = 0
    BY DEF LevelsAlternate
  <2>1. iCurrentSequenceSize \in Nat
    BY PoolAssumption DEF PoolAssumption, Inv, TypeOK
  <2> QED
    BY <2>1 DEF LevelInv, Odd
<1> QED
  BY <1>1, <1>2, <1>3, InvAlways, DescriptorsSuffice, PTL DEF Spec

-----------------------------------------------------------------------------
(* The ring buffers implement SequenceChannel                              *)

\* What SequenceChannel calls current, taken and message.
Current == Intervals(iCurrentSequenceStart, iCurrentSequenceSize)
Taken == IF dec = "copy" THEN Intervals(start, size) ELSE << >>
Message == IF dec = "copy" THEN << >> ELSE pSequence

\* The n intervals from a cell on, as a sequence.
LEMMA IntervalsSeq ==
  ASSUME pool \in [Cells -> Int], NEW first \in Cells, NEW n \in 0 .. POOL_SIZE - 1
  PROVE  /\ Intervals(first, n) \in Seq(Int)
         /\ Len(Intervals(first, n)) = n
         /\ \A k \in 1 .. n : Intervals(first, n)[k] = pool[Cell(first, k)]
<1>1. POOL_SIZE \in Nat /\ POOL_SIZE > 1 /\ first \in 0 .. POOL_SIZE - 1 /\ n \in Nat
  BY PoolAssumption DEF PoolAssumption, Cells
<1>2. ASSUME NEW k \in 1 .. n PROVE pool[Cell(first, k)] \in Int
  <2>1. first + k - 1 \in 0 .. 2 * POOL_SIZE - 1
    BY <1>1
  <2> QED
    BY <1>1, <2>1, WrapType DEF Cell, Cells
<1>3. Intervals(first, n) = [k \in 1 .. n |-> pool[Cell(first, k)]]
  BY DEF Intervals, Cell
<1>4. [k \in 1 .. n |-> pool[Cell(first, k)]] \in Seq(Int)
  <2>1. [k \in 1 .. n |-> pool[Cell(first, k)]] \in [1 .. n -> Int]
    BY <1>2
  <2> QED
    BY <1>1, <2>1, SeqDef
<1> QED
  BY <1>1, <1>3, <1>4, IntervalsType

\* A size of 0 is the empty sequence.
LEMMA NoIntervals ==
  ASSUME NEW first
  PROVE  Intervals(first, 0) = << >>
  BY DEF Intervals

\* The queue is a sequence of sequences of intervals.
LEMMA QueuedSequencesSeq ==
  ASSUME Inv
  PROVE  /\ QueuedSequences \in Seq(Seq(Int))
         /\ Len(QueuedSequences) = ChainDistance(iSequenceWrite)
         /\ ChainDistance(iSequenceWrite) \in 0 .. MAX_CHAINS - 1
<1> DEFINE n == ChainDistance(iSequenceWrite)
<1>1. n \in 0 .. MAX_CHAINS - 1 /\ n \in Nat
  <2>1. /\ iSequenceReady \in 0 .. MAX_CHAINS - 1 /\ iSequenceWrite \in 0 .. MAX_CHAINS - 1
        /\ MAX_CHAINS \in Nat
    BY PoolAssumption DEF PoolAssumption, Inv, TypeOK, Chains
  <2>2. n \in 0 .. MAX_CHAINS - 1
    BY <2>1, DistanceType DEF ChainDistance
  <2> HIDE DEF n
  <2> QED
    BY <2>1, <2>2
<1>2. ASSUME NEW p \in 1 .. n
      PROVE  Intervals(iSequenceStart[Position(p)], iSequenceSize[Position(p)]) \in Seq(Int)
  <2>1. /\ iSequenceStart[Position(p)] \in Cells
        /\ iSequenceSize[Position(p)] \in 0 .. POOL_SIZE - 1
        /\ pool \in [Cells -> Int]
    BY PositionQueued DEF Inv, TypeOK, Queued
  <2> QED
    BY <2>1, IntervalsSeq
<1> HIDE DEF n
<1>3. QueuedSequences \in [1 .. n -> Seq(Int)]
  <2>1. QueuedSequences = [p \in 1 .. n |->
          Intervals(iSequenceStart[Position(p)], iSequenceSize[Position(p)])]
    BY DEF QueuedSequences, Position, n
  <2> QED
    BY <1>2, <2>1
<1>4. QueuedSequences \in Seq(Seq(Int)) /\ Len(QueuedSequences) = n
  <2>1. QueuedSequences \in Seq(Seq(Int))
    BY <1>1, <1>3, SeqDef
  <2> QED
    BY <1>1, <1>3, <2>1
<1> QED
  BY <1>1, <1>4 DEF n

\* What the queue holds before and after a step that leaves its ring alone.
LEMMA SameQueue ==
  ASSUME Inv,
         ChainDistance(iSequenceWrite)' = ChainDistance(iSequenceWrite),
         iSequenceReady' = iSequenceReady,
         \A j \in Queued : Intervals(iSequenceStart[j], iSequenceSize[j])'
                             = Intervals(iSequenceStart[j], iSequenceSize[j])
  PROVE  QueuedSequences' = QueuedSequences
<1>1. \A p \in 1 .. ChainDistance(iSequenceWrite) : Position(p) \in Queued
  BY PositionQueued
<1>2. QueuedSequences = [p \in 1 .. ChainDistance(iSequenceWrite) |->
        Intervals(iSequenceStart[Position(p)], iSequenceSize[Position(p)])]
  BY DEF QueuedSequences, Position
<1>3. QueuedSequences' = [p \in 1 .. ChainDistance(iSequenceWrite) |->
        Intervals(iSequenceStart[Position(p)], iSequenceSize[Position(p)])']
  BY DEF QueuedSequences, Position
<1>4. ASSUME NEW p \in 1 .. ChainDistance(iSequenceWrite)
      PROVE  Intervals(iSequenceStart[Position(p)], iSequenceSize[Position(p)])'
               = Intervals(iSequenceStart[Position(p)], iSequenceSize[Position(p)])
  <2>1. Position(p)' = Position(p)
    BY DEF Position
  <2> QED
    BY <1>1, <2>1
<1> QED
  BY <1>2, <1>3, <1>4

\* Storing an interval changes none of the sequences that the decoder will get.
LEMMA OthersKept ==
  ASSUME Inv, pool' = pool \/ (\E v \in Int : pool' = [pool EXCEPT ![iPoolWrite] = v]),
         UNCHANGED <<iSequenceStart, iSequenceSize, iSequenceWrite>>,
         UNCHANGED <<iSequenceReady, dec, start, size, pSequence>>
  PROVE  UNCHANGED <<QueuedSequences, Taken, Message>>
<1>1. ASSUME NEW j \in Queued
      PROVE  Intervals(iSequenceStart[j], iSequenceSize[j])'
               = Intervals(iSequenceStart[j], iSequenceSize[j])
  <2>1. /\ iSequenceStart[j] \in Cells /\ iSequenceSize[j] \in 0 .. POOL_SIZE - 1
        /\ Before(iSequenceStart[j], iSequenceSize[j], iPoolWrite)
    BY DEF Inv, TypeOK, Queued, RegionsInOrder
  <2>2. \A k \in 1 .. iSequenceSize[j] :
           pool'[Cell(iSequenceStart[j], k)] = pool[Cell(iSequenceStart[j], k)]
    BY <2>1, CellsKept
  <2> QED
    BY <2>2 DEF Intervals, Cell
<1>2. ChainDistance(iSequenceWrite)' = ChainDistance(iSequenceWrite)
  BY DEF ChainDistance
<1>3. QueuedSequences' = QueuedSequences
  BY <1>1, <1>2, SameQueue
<1>4. Taken' = Taken
  <2>1. CASE dec = "copy"
    <3>1. /\ start \in Cells /\ size \in 0 .. POOL_SIZE - 1 /\ Before(start, size, iPoolWrite)
      BY <2>1 DEF Inv, TypeOK, RegionsInOrder
    <3>2. \A k \in 1 .. size : pool'[Cell(start, k)] = pool[Cell(start, k)]
      BY <3>1, CellsKept
    <3> QED
      BY <3>2 DEF Taken, Intervals, Cell
  <2>2. CASE dec # "copy"
    BY <2>2 DEF Taken
  <2> QED
    BY <2>1, <2>2
<1> QED
  BY <1>3, <1>4 DEF Message

\* An interval of the handler extends the recorded sequence.
LEMMA StoreIsExtend ==
  ASSUME Inv, ContentInv, NEW v \in Int, Stores(v)
  PROVE  Current' = Append(Current, v)
<1> DEFINE first == iCurrentSequenceStart
           n == iCurrentSequenceSize
<1>1. /\ POOL_SIZE \in Nat /\ POOL_SIZE > 1
      /\ pool \in [Cells -> Int] /\ iPoolWrite \in 0 .. POOL_SIZE - 1 /\ iPoolWrite \in Cells
      /\ first \in Cells /\ n \in 0 .. POOL_SIZE - 1
      /\ pool' = [pool EXCEPT ![iPoolWrite] = v] /\ pool' \in [Cells -> Int]
      /\ pool'[iPoolWrite] = v
  BY PoolAssumption DEF PoolAssumption, Inv, TypeOK, Cells, Stores
<1>2. CASE n = 0
  <2>1. iCurrentSequenceStart' = iPoolWrite /\ iCurrentSequenceSize' = 1
    BY <1>2 DEF Stores
  <2>2. Current = << >>
    BY <1>2, NoIntervals DEF Current
  <2>3. Cell(iPoolWrite, 1) = iPoolWrite
    BY <1>1 DEF Cell, Wrap
  <2>4. Current' = [k \in 1 .. 1 |-> pool'[Cell(iPoolWrite, k)]]
    BY <2>1 DEF Current, Intervals, Cell
  <2>5. \A k \in 1 .. 1 : pool'[Cell(iPoolWrite, k)] = v
    BY <1>1, <2>3
  <2>6. Current' = << v >>
    BY <2>4, <2>5
  <2> QED
    BY <2>2, <2>6
<1>3. CASE n > 0
  <2>1. /\ iCurrentSequenceStart' = first /\ iCurrentSequenceSize' = n + 1
        /\ iPoolWrite = Wrap(first + n, POOL_SIZE)
        /\ Before(first, n, iPoolWrite)
    BY <1>3 DEF Stores, ContentInv, WriteInv, Inv, RegionsInOrder
  <2>2. \A k \in 1 .. n : pool'[Cell(first, k)] = pool[Cell(first, k)]
    BY <1>1, <2>1, CellsKept
  <2>3. pool'[Cell(first, n + 1)] = v
    <3>1. first + (n + 1) - 1 = first + n
      BY <1>1 DEF Cells
    <3> QED
      BY <1>1, <2>1, <3>1 DEF Cell
  <2>4. Current' = [k \in 1 .. n + 1 |-> pool'[Cell(first, k)]]
    BY <2>1 DEF Current, Intervals, Cell
  <2>5. /\ Current \in Seq(Int) /\ Len(Current) = n
        /\ \A k \in 1 .. n : Current[k] = pool[Cell(first, k)]
    BY <1>1, IntervalsSeq DEF Current
  <2> DEFINE longer == Append(Current, v)
  <2> HIDE DEF first, n
  <2>6. /\ longer \in Seq(Int) /\ Len(longer) = n + 1 /\ n \in Nat
        /\ longer[n + 1] = v
        /\ \A k \in 1 .. n : longer[k] = Current[k]
    BY <1>1, <2>5
  <2>7. longer = [k \in 1 .. n + 1 |-> longer[k]]
    <3>1. longer \in [1 .. n + 1 -> Int]
      BY <2>6, LenProperties
    <3> HIDE DEF longer
    <3> QED
      BY <3>1
  <2> HIDE DEF longer
  <2>8. ASSUME NEW k \in 1 .. n + 1 PROVE longer[k] = pool'[Cell(first, k)]
    <3>1. k \in 1 .. n \/ k = n + 1
      BY <2>6
    <3> QED
      BY <2>2, <2>3, <2>5, <2>6, <3>1
  <2>9. longer = Current'
    BY <2>4, <2>7, <2>8
  <2> QED
    BY <2>9 DEF longer
<1> QED
  BY <1>1, <1>2, <1>3

\* The mapped variables of the channel.
Silent == UNCHANGED <<Current, QueuedSequences, Taken, Message>>

\* A silent step is a stuttering step of the channel.
LEMMA ChannelVars ==
  ASSUME Silent
  PROVE  UNCHANGED Channel!vars
  BY DEF Silent, Current, Taken, Message, Channel!vars

\* An edge extends the recorded sequence, drops it or is silent.
LEMMA InterruptStep ==
  ASSUME Inv, ContentInv, NEW level \in {0, 1}, NEW d \in Durations, HandleInterrupt(level, d)
  PROVE  Silent \/ Channel!Extend \/ Channel!Drop
<1>1. /\ Keeps \/ (\E v \in StoredIntervals : Stores(v)) \/ Drops
      /\ UNCHANGED <<iSequenceStart, iSequenceSize, iSequenceWrite>>
      /\ UNCHANGED <<iSequenceReady, dec, start, size, pSequence>>
  BY InterruptEffect
<1>2. StoredIntervals \subseteq Int
  BY FilterAssumption DEF StoredIntervals, Int16, FilterAssumption
<1>3. pool' = pool \/ (\E v \in Int : pool' = [pool EXCEPT ![iPoolWrite] = v])
  BY <1>1, <1>2 DEF Keeps, Stores, Drops
<1>4. UNCHANGED <<QueuedSequences, Taken, Message>>
  BY <1>1, <1>3, OthersKept
<1>5. CASE Keeps
  <2>1. Current' = Current
    BY <1>5 DEF Keeps, Current, Intervals
  <2> QED
    BY <1>4, <2>1 DEF Silent
<1>6. CASE Drops
  <2>1. Current' = << >>
    BY <1>6, NoIntervals DEF Drops, Current, Intervals
  <2> QED
    BY <1>4, <2>1 DEF Channel!Drop, Current, Taken, Message
<1>7. CASE \E v \in StoredIntervals : Stores(v)
  <2>1. PICK v \in StoredIntervals : Stores(v)
    BY <1>7
  <2>2. Current' = Append(Current, v)
    BY <1>2, <2>1, StoreIsExtend
  <2>3. \E interval \in StoredIntervals : Current' = Append(Current, interval)
    BY <2>2
  <2> QED
    BY <1>4, <2>3 DEF Channel!Extend, Current, Taken, Message
<1> QED
  BY <1>1, <1>5, <1>6, <1>7

\* A descriptor that is filled but not published is not seen.
LEMMA FillIsSilent ==
  ASSUME Inv, FillDescriptor
  PROVE  Silent
<1>1. /\ UNCHANGED <<iPoolWrite, iCurrentSequenceStart, iCurrentSequenceSize, pool>>
      /\ UNCHANGED <<iSequenceWrite, iSequenceReady, dec, start, size, pSequence>>
      /\ iSequenceSize' = [iSequenceSize EXCEPT ![iSequenceWrite] = iCurrentSequenceSize]
      /\ iSequenceStart' = [iSequenceStart EXCEPT ![iSequenceWrite] = iCurrentSequenceStart]
  BY DEF FillDescriptor, poolVars, decoderVars
<1>2. \A j \in Queued : j \in Chains /\ j # iSequenceWrite
  <2>1. ChainDistance(iSequenceWrite) \in 0 .. MAX_CHAINS - 1
    BY PoolAssumption, DistanceType DEF Inv, TypeOK, Chains, ChainDistance
  <2> QED
    BY <2>1 DEF Queued
<1>3. \A j \in Queued : /\ iSequenceStart'[j] = iSequenceStart[j]
                        /\ iSequenceSize'[j] = iSequenceSize[j]
  BY <1>1, <1>2 DEF Inv, TypeOK
<1>4. \A j \in Queued : Intervals(iSequenceStart[j], iSequenceSize[j])'
                          = Intervals(iSequenceStart[j], iSequenceSize[j])
  BY <1>1, <1>3 DEF Intervals
<1>5. ChainDistance(iSequenceWrite)' = ChainDistance(iSequenceWrite)
  BY <1>1 DEF ChainDistance
<1>6. QueuedSequences' = QueuedSequences
  BY <1>1, <1>4, <1>5, SameQueue
<1>7. UNCHANGED <<Current, Taken, Message>>
  BY <1>1 DEF Current, Taken, Message, Intervals
<1> QED
  BY <1>6, <1>7 DEF Silent

\* A step that leaves the pool, the descriptors and the message alone.
LEMMA QuietIsSilent ==
  ASSUME UNCHANGED <<pool, iCurrentSequenceStart, iCurrentSequenceSize>>,
         UNCHANGED <<iSequenceStart, iSequenceSize, iSequenceWrite, iSequenceReady>>,
         \/ dec # "copy" /\ dec' # "copy" /\ pSequence' = pSequence
         \/ dec = "copy" /\ dec' = "copy" /\ start' = start /\ size' = size
  PROVE  Silent
<1>1. UNCHANGED <<Current, Taken, Message>>
  BY DEF Current, Taken, Message, Intervals
<1>2. QueuedSequences' = QueuedSequences
  BY DEF QueuedSequences, ChainDistance, Intervals
<1> QED
  BY <1>1, <1>2 DEF Silent

\* The message that is complete is the sequence that was taken.
LEMMA DeliverStep ==
  ASSUME Inv, ContentInv, FreeIntervals
  PROVE  Channel!Deliver
<1>1. /\ UNCHANGED <<pool, iCurrentSequenceStart, iCurrentSequenceSize>>
      /\ UNCHANGED <<iSequenceStart, iSequenceSize, iSequenceWrite, iSequenceReady>>
      /\ pSequence' = pSequence /\ Len(pSequence) = size
      /\ dec = "copy" /\ dec' = "poll"
  BY DEF FreeIntervals, poolVars, chainVars
<1>2. /\ Taken = Intervals(start, size) /\ Taken' = << >>
      /\ Message' = pSequence
  BY <1>1 DEF Taken, Message
<1>3. /\ pool \in [Cells -> Int] /\ start \in Cells /\ size \in 0 .. POOL_SIZE - 1
      /\ size \in Nat /\ size > 0 /\ pSequence \in Seq(Int)
  BY <1>1, PoolAssumption DEF PoolAssumption, Inv, TypeOK, ContentInv, LengthInv
<1>4. /\ Intervals(start, size) \in Seq(Int)
      /\ Len(Intervals(start, size)) = size
      /\ \A k \in 1 .. size : Intervals(start, size)[k] = pool[Cell(start, k)]
  BY <1>3, IntervalsSeq
<1>5. \A k \in 1 .. size : pSequence[k] = pool[Cell(start, k)]
  BY <1>1 DEF ContentInv, CopyInv
<1>6. pSequence = Intervals(start, size)
  <2> DEFINE t == Intervals(start, size)
  <2>1. /\ t \in Seq(Int) /\ Len(pSequence) = Len(t)
        /\ \A k \in 1 .. Len(pSequence) : pSequence[k] = t[k]
    BY <1>1, <1>4, <1>5
  <2> HIDE DEF t
  <2>2. pSequence = t
    BY <1>3, <2>1, SeqEqual
  <2> QED
    BY <2>2 DEF t
<1>7. Taken # << >>
  BY <1>2, <1>3, <1>4
<1>8. UNCHANGED <<Current, QueuedSequences>>
  BY <1>1 DEF Current, QueuedSequences, ChainDistance, Intervals
<1> QED
  BY <1>2, <1>6, <1>7, <1>8 DEF Channel!Deliver, Current, Taken, Message

\* Publishing a descriptor appends the recorded sequence to the queue.
LEMMA PublishStep ==
  ASSUME Inv, PublishSequence
  PROVE  Channel!Publish
<1> DEFINE n == ChainDistance(iSequenceWrite)
           q == QueuedSequences
<1>1. /\ UNCHANGED <<pool, iCurrentSequenceStart, iSequenceStart, iSequenceSize>>
      /\ UNCHANGED <<iSequenceReady, dec, start, size, pSequence>>
      /\ iCurrentSequenceSize' = 0 /\ iCurrentSequenceSize > 0
      /\ iSequenceWrite' = nextSequenceIndex /\ ~ChainFull
      /\ iSequenceStart[iSequenceWrite] = iCurrentSequenceStart
      /\ iSequenceSize[iSequenceWrite] = iCurrentSequenceSize
  BY DEF PublishSequence, decoderVars, Inv, HandlerInv
<1>2. /\ iSequenceReady \in 0 .. MAX_CHAINS - 1 /\ iSequenceWrite \in 0 .. MAX_CHAINS - 1
      /\ MAX_CHAINS \in Nat /\ MAX_CHAINS > 1
      /\ pool \in [Cells -> Int] /\ iCurrentSequenceStart \in Cells
      /\ iCurrentSequenceSize \in 0 .. POOL_SIZE - 1
  BY PoolAssumption DEF PoolAssumption, Inv, TypeOK, Chains
<1>3. ChainDistance(iSequenceWrite)' = n + 1
  BY <1>1, <1>2 DEF ChainFull, nextSequenceIndex, ChainDistance, Distance, Wrap
<1>4. Position(n + 1) = iSequenceWrite
  BY <1>2 DEF Position, ChainDistance, Distance, Wrap
<1>5. /\ q \in Seq(Seq(Int)) /\ Len(q) = n /\ n \in Nat
      /\ \A p \in 1 .. n :
           q[p] = Intervals(iSequenceStart[Position(p)], iSequenceSize[Position(p)])
  <2>1. q \in Seq(Seq(Int)) /\ Len(q) = n /\ n \in 0 .. MAX_CHAINS - 1
    BY QueuedSequencesSeq
  <2>2. \A p \in 1 .. n :
           q[p] = Intervals(iSequenceStart[Position(p)], iSequenceSize[Position(p)])
    BY QueuedSequencesValue
  <2> HIDE DEF n, q
  <2> QED
    BY <1>2, <2>1, <2>2
<1>6. /\ Current \in Seq(Int) /\ Current # << >>
      /\ Current = Intervals(iSequenceStart[Position(n + 1)], iSequenceSize[Position(n + 1)])
  <2>1. Current \in Seq(Int) /\ Len(Current) = iCurrentSequenceSize
    BY <1>2, IntervalsSeq DEF Current
  <2>2. Current # << >>
    BY <1>1, <2>1
  <2>3. Current = Intervals(iSequenceStart[Position(n + 1)], iSequenceSize[Position(n + 1)])
    BY <1>1, <1>4 DEF Current
  <2> QED
    BY <2>1, <2>2, <2>3
<1>7. q' = [p \in 1 .. n + 1 |->
              Intervals(iSequenceStart[Position(p)], iSequenceSize[Position(p)])]
  BY <1>1, <1>3 DEF QueuedSequences, Position, Intervals
<1>8. q' = Append(q, Current)
  <2> DEFINE longer == Append(q, Current)
  <2> HIDE DEF q, n
  <2>1. /\ longer \in Seq(Seq(Int)) /\ Len(longer) = n + 1
        /\ longer[n + 1] = Current
        /\ \A p \in 1 .. n : longer[p] = q[p]
    BY <1>5, <1>6
  <2>2. longer = [p \in 1 .. n + 1 |-> longer[p]]
    <3>1. longer \in [1 .. n + 1 -> Seq(Int)]
      BY <2>1, LenProperties
    <3> HIDE DEF longer
    <3> QED
      BY <3>1
  <2> HIDE DEF longer
  <2>3. ASSUME NEW p \in 1 .. n + 1
        PROVE  longer[p] = Intervals(iSequenceStart[Position(p)], iSequenceSize[Position(p)])
    <3>1. p \in 1 .. n \/ p = n + 1
      BY <1>5
    <3> QED
      BY <1>5, <1>6, <2>1, <3>1
  <2>4. longer = q'
    BY <1>7, <2>2, <2>3
  <2> QED
    BY <2>4 DEF longer
<1>9. Current' = << >>
  BY <1>1, NoIntervals DEF Current, Intervals
<1>10. UNCHANGED <<Taken, Message>>
  BY <1>1 DEF Taken, Message, Intervals
<1> QED
  BY <1>6, <1>8, <1>9, <1>10 DEF Channel!Publish, Current, Taken, Message

\* Giving back a descriptor takes the oldest sequence from the queue.
LEMMA TakeStep ==
  ASSUME Inv, AdvanceReady
  PROVE  Channel!Take
<1> DEFINE n == ChainDistance(iSequenceWrite)
           q == QueuedSequences
<1>1. /\ UNCHANGED <<pool, iCurrentSequenceStart, iCurrentSequenceSize>>
      /\ UNCHANGED <<iSequenceStart, iSequenceSize, iSequenceWrite, start, size>>
      /\ iSequenceReady' = Wrap(iSequenceReady + 1, MAX_CHAINS)
      /\ iSequenceReady # iSequenceWrite
      /\ start = iSequenceStart[iSequenceReady] /\ size = iSequenceSize[iSequenceReady]
      /\ dec = "advance" /\ dec' = "copy"
  BY DEF AdvanceReady, poolVars, chainVars, Inv, DecoderInv
<1>2. /\ iSequenceReady \in 0 .. MAX_CHAINS - 1 /\ iSequenceWrite \in 0 .. MAX_CHAINS - 1
      /\ MAX_CHAINS \in Nat /\ MAX_CHAINS > 1
  BY PoolAssumption DEF PoolAssumption, Inv, TypeOK, Chains
<1>3. /\ q \in Seq(Seq(Int)) /\ Len(q) = n /\ n \in 0 .. MAX_CHAINS - 1
      /\ \A p \in 1 .. n :
           q[p] = Intervals(iSequenceStart[Position(p)], iSequenceSize[Position(p)])
  BY QueuedSequencesSeq, QueuedSequencesValue
<1>4. ChainDistance(iSequenceWrite)' = n - 1 /\ n > 0
  BY <1>1, <1>2 DEF ChainDistance, Distance, Wrap
<1>5. ASSUME NEW p \in 1 .. n - 1 PROVE Position(p)' = Position(p + 1)
  <2>1. n \in 1 .. MAX_CHAINS - 1 /\ p \in 1 .. MAX_CHAINS - 2
    BY <1>2, <1>3, <1>4
  <2> HIDE DEF n
  <2> QED
    BY <1>1, <1>2, <2>1 DEF Position, Wrap
<1>6. q' = [p \in 1 .. n - 1 |-> q[p + 1]]
  <2>1. q' = [p \in 1 .. n - 1 |->
               Intervals(iSequenceStart[Position(p)'], iSequenceSize[Position(p)'])]
    BY <1>1, <1>4 DEF QueuedSequences, Position, Intervals
  <2> HIDE DEF q, n
  <2>2. \A p \in 1 .. n - 1 : p + 1 \in 1 .. n
    BY <1>3
  <2>3. \A p \in 1 .. n - 1 :
           q[p + 1] = Intervals(iSequenceStart[Position(p)'], iSequenceSize[Position(p)'])
    BY <1>3, <1>5, <2>2
  <2> QED
    BY <2>1, <2>3
<1>7. Taken = << >> /\ Taken' = Intervals(start, size) /\ Message' = << >>
  BY <1>1 DEF Taken, Message, Intervals
<1>8. Intervals(start, size) = q[1]
  <2>1. Position(1) = iSequenceReady
    BY <1>2 DEF Position, Wrap
  <2>2. 1 \in 1 .. n
    <3> HIDE DEF n
    <3> QED
      BY <1>2, <1>3, <1>4
  <2> QED
    BY <1>1, <1>3, <2>1, <2>2
<1>9. q # << >> /\ Head(q) = q[1] /\ Tail(q) = q'
  <2> HIDE DEF q, n
  <2>1. q # << >> /\ Head(q) = q[1]
    BY <1>3, <1>4
  <2>2. /\ Tail(q) \in Seq(Seq(Int)) /\ Len(Tail(q)) = n - 1
        /\ \A p \in 1 .. n - 1 : Tail(q)[p] = q[p + 1]
    BY <1>3, <2>1, HeadTailProperties
  <2> DEFINE t == Tail(q)
  <2> HIDE DEF t
  <2>3. t \in Seq(Seq(Int)) /\ Len(t) = n - 1 /\ \A p \in 1 .. n - 1 : t[p] = q[p + 1]
    BY <2>2 DEF t
  <2>4. t \in [1 .. n - 1 -> Seq(Int)]
    BY <2>3, LenProperties
  <2>5. t = q'
    BY <1>6, <2>3, <2>4
  <2> QED
    BY <2>1, <2>5 DEF t
<1>10. Current' = Current
  BY <1>1 DEF Current, Intervals
<1> QED
  BY <1>7, <1>8, <1>9, <1>10 DEF Channel!Take, Current, Taken, Message

\* The two rings, with the handler interrupting the decoder at any of its steps,
\* are a first-in first-out channel: each step is a step of SequenceChannel or
\* changes nothing that it can see, so that the decoder gets each published
\* sequence once, whole, unchanged and in order.
THEOREM RingsImplementChannel == Spec => ImplementsChannel
<1>1. Init => Channel!Init
  <2> SUFFICES ASSUME Init PROVE Channel!Init
    OBVIOUS
  <2>1. /\ iCurrentSequenceSize = 0 /\ dec = "poll" /\ pSequence = << >>
        /\ iSequenceWrite = 0 /\ iSequenceReady = 0
    BY DEF Init
  <2>2. Current = << >> /\ Taken = << >> /\ Message = << >>
    BY <2>1, NoIntervals DEF Current, Taken, Message
  <2>3. Inv
    BY InitInv
  <2>4. Len(QueuedSequences) = 0 /\ QueuedSequences \in Seq(Seq(Int))
    BY <2>1, <2>3, QueuedSequencesSeq DEF ChainDistance, Distance
  <2>5. QueuedSequences = << >>
    BY <2>4
  <2> QED
    BY <2>2, <2>5 DEF Channel!Init, Current, Taken, Message
<1>2. Inv /\ ContentInv /\ [Next]_vars => [Channel!Next]_(Channel!vars)
  <2> SUFFICES ASSUME Inv, ContentInv, [Next]_vars PROVE [Channel!Next]_(Channel!vars)
    OBVIOUS
  <2>1. CASE \E level \in {0, 1}, d \in Durations : HandleInterrupt(level, d)
    <3>1. Silent \/ Channel!Extend \/ Channel!Drop
      BY <2>1, InterruptStep
    <3> QED
      BY <3>1, ChannelVars DEF Channel!Next
  <2>2. CASE FillDescriptor
    BY <2>2, FillIsSilent, ChannelVars
  <2>3. CASE PublishSequence
    BY <2>3, PublishStep DEF Channel!Next
  <2>4. CASE AdvanceReady
    BY <2>4, TakeStep DEF Channel!Next
  <2>5. CASE FreeIntervals
    BY <2>5, DeliverStep DEF Channel!Next
  <2>6. CASE SequencePoolOverflow \/ ReadDescriptor \/ CopyInterval \/ UNCHANGED vars
    <3>1. Silent
      BY <2>6, QuietIsSilent
         DEF SequencePoolOverflow, ReadDescriptor, CopyInterval, vars,
             poolVars, chainVars, decoderVars
    <3> QED
      BY <3>1, ChannelVars
  <2> QED
    BY <2>1, <2>2, <2>3, <2>4, <2>5, <2>6 DEF Next
<1> QED
  BY <1>1, <1>2, ContentAlways, PTL DEF Spec, ImplementsChannel, Channel!Spec
=============================================================================
