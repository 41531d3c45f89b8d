------------------------- MODULE GpioTsReaderProofs -------------------------
(***************************************************************************)
(* The gpio-ts reader loses no interval of a batch, for every size of the  *)
(* rings and of the batch that the program's sizes are an instance of.     *)
(*                                                                         *)
(* The invariant follows the control flow: outside a batch it only says    *)
(* that the open sequence is short and begins where the last queued one    *)
(* ends; inside a batch, which starts with an empty queue, it counts how   *)
(* much of both rings the items processed so far can have used.            *)
(***************************************************************************)
EXTENDS GpioTsReader, TLAPS

PoolDistance(i) == Distance(iPoolRead, i, POOL_SIZE)
QueueLength == Distance(iSequenceReady, iSequenceWrite, MAX_CHAINS)

\* The open sequence follows the last queued one, or the cells given back.
Contiguous ==
  /\ Wrap(iCurrentSequenceStart + iCurrentSequenceSize, POOL_SIZE) = iPoolWrite
  /\ NoSequence => iPoolRead = iCurrentSequenceStart
  /\ \A j \in Chains :
       ~NoSequence /\ Wrap(j + 1, MAX_CHAINS) = iSequenceWrite =>
         Wrap(iSequenceStart[j] + iSequenceSize[j], POOL_SIZE) = iCurrentSequenceStart

\* Only an overflow leaves a sequence open that has reached the maximum length.
ShortOpenSequence ==
  /\ pc # "batch" => iCurrentSequenceSize <= MAX_SEQUENCE_LENGTH
  /\ pc # "batch" /\ ~overflowed => iCurrentSequenceSize < MAX_SEQUENCE_LENGTH

\* What a batch has used of the rings so far.
BatchUse ==
  pc = "batch" =>
    /\ PoolDistance(iPoolWrite) = PoolDistance(iCurrentSequenceStart) + iCurrentSequenceSize
    /\ PoolDistance(iPoolWrite) + n_items <= MAX_SEQUENCE_LENGTH + N_ITEMS
    /\ ~overflowed => PoolDistance(iPoolWrite) + n_items <= LongestRun
    /\ ~overflowed => QueueLength * min_sequence_length <= PoolDistance(iCurrentSequenceStart)
    /\ iCurrentSequenceSize <= MAX_SEQUENCE_LENGTH
    /\ ~overflowed => iCurrentSequenceSize < MAX_SEQUENCE_LENGTH
    /\ iCurrentSequenceSize = MAX_SEQUENCE_LENGTH => NoSequence

Inv ==
  /\ TypeOK
  /\ Contiguous
  /\ ShortOpenSequence
  /\ BatchUse
  /\ ChainsSuffice => ~overflowed

-----------------------------------------------------------------------------
LEMMA DistanceType ==
  ASSUME NEW n \in Nat, NEW a \in 0 .. n - 1, NEW b \in 0 .. n - 1
  PROVE  Distance(a, b, n) \in 0 .. n - 1
  BY DEF Distance

\* One more step is possible unless it leads back to a.
LEMMA DistanceNext ==
  ASSUME NEW n \in Nat, NEW a \in 0 .. n - 1, NEW b \in 0 .. n - 1,
         a # Wrap(b + 1, n)
  PROVE  Distance(a, Wrap(b + 1, n), n) = Distance(a, b, n) + 1
  BY DEF Distance, Wrap

LEMMA DistanceFull ==
  ASSUME NEW n \in Nat, NEW a \in 0 .. n - 1, NEW b \in 0 .. n - 1,
         a = Wrap(b + 1, n)
  PROVE  Distance(a, b, n) = n - 1
  BY DEF Distance, Wrap

LEMMA WrapInjective ==
  ASSUME NEW n \in Nat, NEW a \in 0 .. n - 1, NEW b \in 0 .. n - 1,
         Wrap(a + 1, n) = Wrap(b + 1, n)
  PROVE  a = b
  BY DEF Wrap

\* The types, written out for the provers.
LEMMA Types ==
  ASSUME TypeOK
  PROVE  /\ POOL_SIZE \in Nat /\ POOL_SIZE > 1
         /\ MAX_CHAINS \in Nat /\ MAX_CHAINS > 1
         /\ MAX_SEQUENCE_LENGTH \in Nat /\ MAX_SEQUENCE_LENGTH > 1
         /\ N_ITEMS \in Nat
         /\ MAX_SEQUENCE_LENGTH + N_ITEMS < POOL_SIZE
         /\ iPoolWrite \in 0 .. POOL_SIZE - 1
         /\ iPoolRead \in 0 .. POOL_SIZE - 1
         /\ iCurrentSequenceStart \in 0 .. POOL_SIZE - 1
         /\ iCurrentSequenceSize \in 0 .. POOL_SIZE - 1
         /\ iSequenceWrite \in 0 .. MAX_CHAINS - 1
         /\ iSequenceReady \in 0 .. MAX_CHAINS - 1
         /\ min_sequence_length \in Nat \ {0}
         /\ n_items \in 0 .. N_ITEMS
         /\ PoolDistance(iPoolWrite) \in 0 .. POOL_SIZE - 1
         /\ PoolDistance(iCurrentSequenceStart) \in 0 .. POOL_SIZE - 1
         /\ QueueLength \in 0 .. MAX_CHAINS - 1
  BY ReaderAssumption, PoolSuffices, DistanceType
     DEF TypeOK, Cells, Chains, PoolDistance, QueueLength

\* The pool is not full while there are items to process.
LEMMA PoolNeverFull ==
  ASSUME Inv, pc = "batch", n_items > 0
  PROVE  ~PoolFull
<1>1. PoolDistance(iPoolWrite) + n_items <= MAX_SEQUENCE_LENGTH + N_ITEMS
  BY DEF Inv, BatchUse
<1>2. ASSUME PoolFull PROVE FALSE
  <2>1. PoolDistance(iPoolWrite) = POOL_SIZE - 1
    BY <1>2, Types, DistanceFull DEF Inv, PoolFull, nextPoolIndex, PoolDistance
  <2> QED
    BY <1>1, <2>1, Types DEF Inv
<1> QED
  BY <1>2

\* k descriptors in use are k * min_sequence_length cells of the pool.
LEMMA NoDescriptorNoRoom ==
  ASSUME Inv, pc = "batch", ChainFull, ~overflowed, ChainsSuffice, NEW n \in Nat,
         n >= min_sequence_length,
         PoolDistance(iCurrentSequenceStart) + n <= LongestRun
  PROVE  FALSE
<1>1. QueueLength = MAX_CHAINS - 1
  BY Types, DistanceFull DEF Inv, ChainFull, nextSequenceIndex, QueueLength
<1>2. QueueLength * min_sequence_length <= PoolDistance(iCurrentSequenceStart)
  BY DEF Inv, BatchUse
<1>3. (MAX_CHAINS - 1) * min_sequence_length + min_sequence_length <= LongestRun
  BY <1>1, <1>2, Types DEF Inv, LongestRun
<1>4. (MAX_CHAINS - 1) * min_sequence_length + min_sequence_length
        = MAX_CHAINS * min_sequence_length
  BY Types DEF Inv
<1> QED
  BY <1>3, <1>4, Types DEF Inv, ChainsSuffice, LongestRun

\* k steps lead from a to b exactly when b is at distance k.
LEMMA WrapDistance ==
  ASSUME NEW n \in Nat, NEW a \in 0 .. n - 1, NEW b \in 0 .. n - 1,
         NEW k \in 0 .. n - 1
  PROVE  Wrap(a + k, n) = b <=> Distance(a, b, n) = k
  BY DEF Distance, Wrap

LEMMA WrapType ==
  ASSUME NEW n \in Nat, NEW a \in 0 .. n - 1, NEW k \in 0 .. n - 1
  PROVE  Wrap(a + k, n) \in 0 .. n - 1
  BY DEF Wrap

LEMMA WrapNext ==
  ASSUME NEW n \in Nat, NEW a \in 0 .. n - 1, NEW k \in 0 .. n - 2
  PROVE  Wrap(a + (k + 1), n) = Wrap(Wrap(a + k, n) + 1, n)
  BY DEF Wrap

LEMMA NextIndexType ==
  ASSUME TypeOK
  PROVE  nextPoolIndex \in Cells /\ nextSequenceIndex \in Chains
  BY ReaderAssumption, WrapType DEF TypeOK, Cells, Chains, nextPoolIndex, nextSequenceIndex

-----------------------------------------------------------------------------
LEMMA InitInv == Init => Inv
<1> SUFFICES ASSUME Init PROVE Inv
  OBVIOUS
<1>1. TypeOK
  <2>1. 0 \in Cells /\ 0 \in Chains /\ 0 \in 0 .. POOL_SIZE - 1 /\ 0 \in 0 .. N_ITEMS
    BY ReaderAssumption DEF Cells, Chains
  <2>2. iSequenceStart \in [Chains -> Cells] /\ iSequenceSize \in [Chains -> 0 .. POOL_SIZE - 1]
    BY <2>1 DEF Init
  <2> QED
    BY <2>1, <2>2 DEF Init, TypeOK
<1>2. Contiguous
  BY ReaderAssumption DEF Init, Contiguous, NoSequence, Wrap
<1>3. ShortOpenSequence /\ BatchUse /\ (ChainsSuffice => ~overflowed)
  BY ReaderAssumption DEF Init, ShortOpenSequence, BatchUse
<1> QED
  BY <1>1, <1>2, <1>3 DEF Inv

\* Steps that move the control only: no ring changes and no batch begins.
LEMMA ControlInv ==
  ASSUME Inv, UNCHANGED <<poolVars, chainVars, readVars, min_sequence_length, n_items, overflowed>>,
         stopDecoder' \in BOOLEAN,
         pc' \in {"decoder", "take", "select", "done"} \/ pc' = pc,
         pc = "batch" => n_items = 0 \/ pc' = pc
  PROVE  Inv'
<1> DEFINE Same == /\ iPoolWrite' = iPoolWrite /\ iPoolRead' = iPoolRead
                   /\ iSequenceStart' = iSequenceStart /\ iSequenceSize' = iSequenceSize
                   /\ iSequenceWrite' = iSequenceWrite /\ iSequenceReady' = iSequenceReady
                   /\ iCurrentSequenceStart' = iCurrentSequenceStart
                   /\ iCurrentSequenceSize' = iCurrentSequenceSize
                   /\ min_sequence_length' = min_sequence_length
                   /\ n_items' = n_items /\ overflowed' = overflowed
<1>0. Same
  BY DEF poolVars, chainVars, readVars
<1>1. TypeOK'
  <2>1. pc' \in {"decoder", "take", "select", "batch", "done"}
    BY DEF Inv, TypeOK
  <2> QED
    BY <1>0, <2>1 DEF Inv, TypeOK, Cells, Chains
<1>2. Contiguous'
  BY <1>0 DEF Inv, Contiguous, NoSequence, Chains
<1>3. ShortOpenSequence'
  <2>1. /\ iCurrentSequenceSize <= MAX_SEQUENCE_LENGTH
        /\ ~overflowed => iCurrentSequenceSize < MAX_SEQUENCE_LENGTH
    BY DEF Inv, ShortOpenSequence, BatchUse
  <2> QED
    BY <1>0, <2>1 DEF ShortOpenSequence
<1>4. BatchUse'
  <2>1. pc' = "batch" => pc = "batch"
    OBVIOUS
  <2> QED
    BY <1>0, <2>1 DEF Inv, BatchUse, PoolDistance, QueueLength, LongestRun, NoSequence
<1>5. (ChainsSuffice => ~overflowed)'
  BY <1>0 DEF Inv, ChainsSuffice, LongestRun
<1> QED
  BY <1>1, <1>2, <1>3, <1>4, <1>5 DEF Inv

LEMMA TakeSequenceInv == Inv /\ TakeSequence => Inv'
<1> SUFFICES ASSUME Inv, TakeSequence PROVE Inv'
  OBVIOUS
<1>0. /\ iPoolWrite' = iPoolWrite /\ iSequenceStart' = iSequenceStart
      /\ iSequenceSize' = iSequenceSize /\ iSequenceWrite' = iSequenceWrite
      /\ iCurrentSequenceStart' = iCurrentSequenceStart
      /\ iCurrentSequenceSize' = iCurrentSequenceSize
      /\ min_sequence_length' = min_sequence_length /\ stopDecoder' = stopDecoder
      /\ n_items' = n_items /\ overflowed' = overflowed
      /\ iPoolRead' = Wrap(iSequenceStart[iSequenceReady] + iSequenceSize[iSequenceReady], POOL_SIZE)
      /\ iSequenceReady' = Wrap(iSequenceReady + 1, MAX_CHAINS)
      /\ pc = "take" /\ pc' = "decoder" /\ ~NoSequence
  BY DEF TakeSequence, poolVars, chainVars
<1>1. TypeOK'
  <2>1. iSequenceStart[iSequenceReady] \in Cells /\ iSequenceSize[iSequenceReady] \in 0 .. POOL_SIZE - 1
    BY DEF Inv, TypeOK
  <2>2. iPoolRead' \in Cells
    BY <1>0, <2>1, ReaderAssumption, WrapType DEF Cells
  <2>3. iSequenceReady' \in Chains
    BY <1>0, ReaderAssumption, WrapType DEF Inv, TypeOK, Chains
  <2> QED
    BY <1>0, <2>2, <2>3 DEF Inv, TypeOK, Cells, Chains
<1>2. Contiguous'
  <2>1. NoSequence' => iPoolRead' = iCurrentSequenceStart
    BY <1>0 DEF Inv, TypeOK, Contiguous, NoSequence
  <2>2. \A j \in Chains : Wrap(j + 1, MAX_CHAINS) = iSequenceWrite =>
          Wrap(iSequenceStart[j] + iSequenceSize[j], POOL_SIZE) = iCurrentSequenceStart
    BY <1>0 DEF Inv, Contiguous
  <2>3. Wrap(iCurrentSequenceStart + iCurrentSequenceSize, POOL_SIZE) = iPoolWrite
    BY DEF Inv, Contiguous
  <2> QED
    BY <1>0, <2>1, <2>2, <2>3 DEF Contiguous, Chains
<1>3. ShortOpenSequence' /\ BatchUse' /\ (ChainsSuffice => ~overflowed)'
  BY <1>0 DEF Inv, ShortOpenSequence, BatchUse, ChainsSuffice, LongestRun
<1> QED
  BY <1>1, <1>2, <1>3 DEF Inv

\* A batch begins when every sequence is taken.
LEMMA ReadBatchInv == Inv /\ ReadBatch => Inv'
<1> SUFFICES ASSUME Inv, ReadBatch PROVE Inv'
  OBVIOUS
<1>0. /\ iPoolWrite' = iPoolWrite /\ iPoolRead' = iPoolRead
      /\ iSequenceStart' = iSequenceStart /\ iSequenceSize' = iSequenceSize
      /\ iSequenceWrite' = iSequenceWrite /\ iSequenceReady' = iSequenceReady
      /\ iCurrentSequenceStart' = iCurrentSequenceStart
      /\ iCurrentSequenceSize' = iCurrentSequenceSize
      /\ min_sequence_length' = min_sequence_length /\ stopDecoder' = stopDecoder
      /\ overflowed' = overflowed
      /\ n_items' \in 1 .. N_ITEMS
      /\ pc = "select" /\ pc' = "batch" /\ NoSequence
  BY DEF ReadBatch, poolVars, chainVars, readVars
<1>1. TypeOK'
  BY <1>0 DEF Inv, TypeOK, Cells, Chains
<1>2. Contiguous' /\ ShortOpenSequence' /\ (ChainsSuffice => ~overflowed)'
  BY <1>0 DEF Inv, Contiguous, ShortOpenSequence, ChainsSuffice, LongestRun, NoSequence, Chains
<1>3. BatchUse'
  <2>1. PoolDistance(iCurrentSequenceStart) = 0 /\ QueueLength = 0
    BY <1>0, Types DEF Inv, Contiguous, NoSequence, PoolDistance, QueueLength, Distance
  <2>2. PoolDistance(iPoolWrite) = iCurrentSequenceSize
    BY <1>0, Types, WrapDistance DEF Inv, Contiguous, PoolDistance
  <2>3. /\ iCurrentSequenceSize <= MAX_SEQUENCE_LENGTH
        /\ ~overflowed => iCurrentSequenceSize < MAX_SEQUENCE_LENGTH
    BY <1>0 DEF Inv, ShortOpenSequence
  <2>4. /\ PoolDistance(iPoolWrite)' = PoolDistance(iPoolWrite)
        /\ PoolDistance(iCurrentSequenceStart)' = PoolDistance(iCurrentSequenceStart)
        /\ QueueLength' = QueueLength /\ NoSequence'
    BY <1>0 DEF PoolDistance, QueueLength, NoSequence
  <2>5. 0 * min_sequence_length = 0
    BY Types DEF Inv
  <2> QED
    BY <1>0, <2>1, <2>2, <2>3, <2>4, <2>5, Types DEF Inv, BatchUse, LongestRun
<1> QED
  BY <1>1, <1>2, <1>3 DEF Inv

LEMMA StoreIntervalInv ==
  ASSUME Inv, NEW status, StoreInterval(status)
  PROVE  Inv'
<1>0. /\ iPoolRead' = iPoolRead
      /\ iSequenceStart' = iSequenceStart /\ iSequenceSize' = iSequenceSize
      /\ iSequenceWrite' = iSequenceWrite /\ iSequenceReady' = iSequenceReady
      /\ iCurrentSequenceStart' = iCurrentSequenceStart
      /\ min_sequence_length' = min_sequence_length /\ stopDecoder' = stopDecoder
      /\ overflowed' = overflowed
      /\ iPoolWrite' = nextPoolIndex
      /\ iCurrentSequenceSize' = iCurrentSequenceSize + 1
      /\ iCurrentSequenceSize + 1 < MAX_SEQUENCE_LENGTH
      /\ n_items' = n_items - 1 /\ n_items > 0
      /\ pc = "batch" /\ pc' = "batch" /\ ~PoolFull
  BY DEF StoreInterval, chainVars, readVars
<1>1. TypeOK'
  <2>1. iCurrentSequenceSize + 1 \in 0 .. POOL_SIZE - 1 /\ n_items - 1 \in 0 .. N_ITEMS
    BY <1>0, Types DEF Inv
  <2> QED
    BY <1>0, <2>1, NextIndexType DEF Inv, TypeOK, Cells, Chains
<1>2. Contiguous'
  <2>1. Wrap(iCurrentSequenceStart + (iCurrentSequenceSize + 1), POOL_SIZE) = nextPoolIndex
    <3>1. iCurrentSequenceSize \in 0 .. POOL_SIZE - 2
      BY <1>0, Types DEF Inv
    <3> QED
      BY <3>1, Types, WrapNext DEF Inv, Contiguous, nextPoolIndex
  <2> QED
    BY <1>0, <2>1 DEF Inv, Contiguous, NoSequence, Chains
<1>3. PoolDistance(iPoolWrite)' = PoolDistance(iPoolWrite) + 1
  BY <1>0, Types, DistanceNext DEF Inv, PoolFull, nextPoolIndex, PoolDistance
<1>4. /\ PoolDistance(iCurrentSequenceStart)' = PoolDistance(iCurrentSequenceStart)
      /\ QueueLength' = QueueLength
  BY <1>0 DEF PoolDistance, QueueLength
<1>5. BatchUse'
  <2>1. /\ PoolDistance(iPoolWrite) = PoolDistance(iCurrentSequenceStart) + iCurrentSequenceSize
        /\ PoolDistance(iPoolWrite) + n_items <= MAX_SEQUENCE_LENGTH + N_ITEMS
        /\ ~overflowed => PoolDistance(iPoolWrite) + n_items <= LongestRun
        /\ ~overflowed => QueueLength * min_sequence_length <= PoolDistance(iCurrentSequenceStart)
    BY <1>0 DEF Inv, BatchUse
  <2>2. PoolDistance(iPoolWrite)' = PoolDistance(iCurrentSequenceStart)' + iCurrentSequenceSize'
    BY <1>0, <1>3, <1>4, <2>1, Types DEF Inv
  <2>3. PoolDistance(iPoolWrite)' + n_items' = PoolDistance(iPoolWrite) + n_items
    BY <1>0, <1>3, Types DEF Inv
  <2>4. LongestRun' = LongestRun
    BY DEF LongestRun
  <2>5. /\ iCurrentSequenceSize' < MAX_SEQUENCE_LENGTH
        /\ iCurrentSequenceSize' <= MAX_SEQUENCE_LENGTH
        /\ iCurrentSequenceSize' # MAX_SEQUENCE_LENGTH
    BY <1>0, Types DEF Inv
  <2> QED
    BY <1>0, <1>4, <2>1, <2>2, <2>3, <2>4, <2>5 DEF BatchUse
<1>6. ShortOpenSequence' /\ (ChainsSuffice => ~overflowed)'
  BY <1>0 DEF Inv, ShortOpenSequence, ChainsSuffice, LongestRun
<1> QED
  BY <1>1, <1>2, <1>5, <1>6 DEF Inv

\* An empty queue has a free descriptor.
LEMMA EmptyNotFull ==
  ASSUME Inv, NoSequence
  PROVE  ~ChainFull
  BY Types DEF Inv, NoSequence, ChainFull, nextSequenceIndex, Wrap

LEMMA EndOfSequenceInv ==
  ASSUME Inv, pc = "batch", n_items > 0, ~PoolFull, NEW n, NEW w,
         \/ n = iCurrentSequenceSize /\ w = iPoolWrite
         \/ n = iCurrentSequenceSize + 1 /\ w = nextPoolIndex,
         EndOfSequence(n, w), UNCHANGED <<readVars, min_sequence_length, stopDecoder>>
  PROVE  Inv'
<1>0. /\ iPoolRead' = iPoolRead /\ iSequenceReady' = iSequenceReady
      /\ min_sequence_length' = min_sequence_length /\ stopDecoder' = stopDecoder
      /\ QueueLength' = Distance(iSequenceReady, iSequenceWrite', MAX_CHAINS)
      /\ PoolDistance(iPoolWrite)' = PoolDistance(iPoolWrite')
      /\ PoolDistance(iCurrentSequenceStart)' = PoolDistance(iCurrentSequenceStart')
      /\ LongestRun' = LongestRun
  BY DEF readVars, QueueLength, PoolDistance, LongestRun
<1>a. /\ PoolDistance(iPoolWrite) = PoolDistance(iCurrentSequenceStart) + iCurrentSequenceSize
      /\ PoolDistance(iPoolWrite) + n_items <= MAX_SEQUENCE_LENGTH + N_ITEMS
      /\ ~overflowed => PoolDistance(iPoolWrite) + n_items <= LongestRun
      /\ ~overflowed => QueueLength * min_sequence_length <= PoolDistance(iCurrentSequenceStart)
      /\ iCurrentSequenceSize <= MAX_SEQUENCE_LENGTH
      /\ ~overflowed => iCurrentSequenceSize < MAX_SEQUENCE_LENGTH
      /\ iCurrentSequenceSize = MAX_SEQUENCE_LENGTH => NoSequence
  BY DEF Inv, BatchUse
<1>b. /\ w \in 0 .. POOL_SIZE - 1
      /\ n \in 0 .. POOL_SIZE - 1
      /\ PoolDistance(w) = PoolDistance(iCurrentSequenceStart) + n
      /\ PoolDistance(w) <= PoolDistance(iPoolWrite) + 1
      /\ Wrap(iCurrentSequenceStart + n, POOL_SIZE) = w
  <2>1. CASE n = iCurrentSequenceSize /\ w = iPoolWrite
    BY <2>1, <1>a, Types DEF Inv, Contiguous
  <2>2. CASE n = iCurrentSequenceSize + 1 /\ w = nextPoolIndex
    <3>1. w \in 0 .. POOL_SIZE - 1
      BY <2>2, NextIndexType DEF Inv, Cells
    <3>2. PoolDistance(w) = PoolDistance(iPoolWrite) + 1
      BY <2>2, Types, DistanceNext DEF Inv, PoolFull, nextPoolIndex, PoolDistance
    <3>3. PoolDistance(w) \in 0 .. POOL_SIZE - 1
      BY <3>1, Types, DistanceType DEF Inv, PoolDistance
    <3>4. n \in 0 .. POOL_SIZE - 1 /\ iCurrentSequenceSize \in 0 .. POOL_SIZE - 2
      BY <2>2, <1>a, <3>2, <3>3, Types DEF Inv
    <3>5. Wrap(iCurrentSequenceStart + n, POOL_SIZE) = w
      BY <2>2, <3>4, Types, WrapNext DEF Inv, Contiguous, nextPoolIndex
    <3> QED
      BY <2>2, <1>a, <3>1, <3>2, <3>4, <3>5, Types DEF Inv
  <2> QED
    BY <2>1, <2>2
<1>c. /\ ~overflowed => PoolDistance(w) <= LongestRun
      /\ PoolDistance(w) + (n_items - 1) <= MAX_SEQUENCE_LENGTH + N_ITEMS
      /\ ~overflowed => PoolDistance(w) + (n_items - 1) <= LongestRun
      /\ n_items - 1 \in 0 .. N_ITEMS
      /\ PoolDistance(w) \in 0 .. POOL_SIZE - 1
  <2>1. PoolDistance(w) \in 0 .. POOL_SIZE - 1
    BY <1>b, Types, DistanceType DEF Inv, PoolDistance
  <2> QED
    BY <1>a, <1>b, <2>1, Types DEF Inv, LongestRun
<1>1. CASE /\ n < min_sequence_length
           /\ iPoolWrite' = iCurrentSequenceStart
           /\ iCurrentSequenceSize' = 0
           /\ n_items' = n_items - 1
           /\ UNCHANGED <<iCurrentSequenceStart, chainVars, pc, overflowed>>
  <2>0. /\ iCurrentSequenceStart' = iCurrentSequenceStart
        /\ iSequenceStart' = iSequenceStart /\ iSequenceSize' = iSequenceSize
        /\ iSequenceWrite' = iSequenceWrite /\ pc' = "batch" /\ overflowed' = overflowed
    BY <1>1 DEF chainVars
  <2>1. TypeOK'
    <3>1. 0 \in 0 .. POOL_SIZE - 1
      BY Types DEF Inv
    <3> QED
      BY <1>0, <1>1, <1>c, <2>0, <3>1 DEF Inv, TypeOK, Cells, Chains
  <2>2. Contiguous'
    <3>1. Wrap(iCurrentSequenceStart + 0, POOL_SIZE) = iCurrentSequenceStart
      BY Types DEF Inv, Wrap
    <3> QED
      BY <1>0, <1>1, <2>0, <3>1 DEF Inv, Contiguous, NoSequence, Chains
  <2>3. BatchUse'
    <3>1. PoolDistance(iCurrentSequenceStart) <= PoolDistance(iPoolWrite)
      BY <1>a, Types DEF Inv
    <3>2. PoolDistance(iCurrentSequenceStart) + (n_items - 1) <= PoolDistance(iPoolWrite) + n_items
      BY <3>1, Types DEF Inv
    <3>3. /\ PoolDistance(iCurrentSequenceStart) + (n_items - 1) <= MAX_SEQUENCE_LENGTH + N_ITEMS
          /\ ~overflowed => PoolDistance(iCurrentSequenceStart) + (n_items - 1) <= LongestRun
      BY <1>a, <3>2, Types DEF Inv, LongestRun
    <3>4. PoolDistance(iCurrentSequenceStart) = PoolDistance(iCurrentSequenceStart) + 0
      BY Types DEF Inv
    <3>5. QueueLength' = QueueLength
      BY <1>0, <2>0 DEF QueueLength
    <3>6. 0 < MAX_SEQUENCE_LENGTH /\ 0 <= MAX_SEQUENCE_LENGTH /\ 0 # MAX_SEQUENCE_LENGTH
      BY Types DEF Inv
    <3> QED
      BY <1>0, <1>1, <1>a, <2>0, <3>3, <3>4, <3>5, <3>6 DEF BatchUse
  <2>4. ShortOpenSequence' /\ (ChainsSuffice => ~overflowed)'
    <3>1. ChainsSuffice' = ChainsSuffice
      BY <1>0 DEF ChainsSuffice
    <3> QED
      BY <2>0, <3>1 DEF Inv, ShortOpenSequence
  <2> QED
    BY <2>1, <2>2, <2>3, <2>4 DEF Inv
<1>2. CASE /\ n >= min_sequence_length
           /\ ChainFull
           /\ overflowed' = TRUE
           /\ n_items' = 0
           /\ pc' = "take"
           /\ iPoolWrite' = w
           /\ iCurrentSequenceSize' = n
           /\ UNCHANGED <<iCurrentSequenceStart, chainVars>>
  <2>0. /\ iCurrentSequenceStart' = iCurrentSequenceStart
        /\ iSequenceStart' = iSequenceStart /\ iSequenceSize' = iSequenceSize
        /\ iSequenceWrite' = iSequenceWrite
    BY <1>2 DEF chainVars
  <2>1. TypeOK'
    <3>1. 0 \in 0 .. N_ITEMS
      BY Types DEF Inv
    <3> QED
      BY <1>0, <1>2, <1>b, <2>0, <3>1 DEF Inv, TypeOK, Cells, Chains
  <2>2. Contiguous'
    BY <1>0, <1>2, <1>b, <2>0 DEF Inv, Contiguous, NoSequence, Chains
  <2>3. ShortOpenSequence'
    <3>1. iCurrentSequenceSize # MAX_SEQUENCE_LENGTH
      BY <1>a, <1>2, EmptyNotFull
    <3>2. n <= MAX_SEQUENCE_LENGTH
      BY <1>a, <3>1, Types DEF Inv
    <3> QED
      BY <1>2, <3>2 DEF ShortOpenSequence
  <2>4. ~ChainsSuffice
    <3>1. ASSUME ChainsSuffice PROVE FALSE
      <4>1. ~overflowed
        BY <3>1 DEF Inv
      <4>2. PoolDistance(iCurrentSequenceStart) + n <= LongestRun
        BY <1>b, <1>c, <4>1
      <4>3. n \in Nat
        BY <1>b, Types DEF Inv
      <4> QED
        BY <1>2, <3>1, <4>1, <4>2, <4>3, NoDescriptorNoRoom
    <3> QED
      BY <3>1
  <2>5. (ChainsSuffice => ~overflowed)' /\ BatchUse'
    BY <1>0, <1>2, <2>4 DEF ChainsSuffice, BatchUse
  <2> QED
    BY <2>1, <2>2, <2>3, <2>5 DEF Inv
<1>3. CASE /\ n >= min_sequence_length
           /\ ~ChainFull
           /\ iSequenceSize' = [iSequenceSize EXCEPT ![iSequenceWrite] = n]
           /\ iSequenceStart' = [iSequenceStart EXCEPT ![iSequenceWrite] = iCurrentSequenceStart]
           /\ iSequenceWrite' = nextSequenceIndex
           /\ iPoolWrite' = w
           /\ iCurrentSequenceStart' = w
           /\ iCurrentSequenceSize' = 0
           /\ n_items' = n_items - 1
           /\ UNCHANGED <<pc, overflowed>>
  <2>0. pc' = "batch" /\ overflowed' = overflowed
    BY <1>3
  <2>1. TypeOK'
    <3>1. /\ iSequenceSize' \in [Chains -> 0 .. POOL_SIZE - 1]
          /\ iSequenceStart' \in [Chains -> Cells]
      BY <1>3, <1>b DEF Inv, TypeOK, Cells
    <3>2. iSequenceWrite' \in Chains
      BY <1>3, NextIndexType DEF Inv
    <3>3. 0 \in 0 .. POOL_SIZE - 1
      BY Types DEF Inv
    <3> QED
      BY <1>0, <1>3, <1>b, <1>c, <2>0, <3>1, <3>2, <3>3 DEF Inv, TypeOK, Cells, Chains
  <2>2. Contiguous'
    <3>1. Wrap(w + 0, POOL_SIZE) = w
      BY <1>b, Types DEF Inv, Wrap
    <3>2. ~NoSequence'
      BY <1>0, <1>3 DEF NoSequence, ChainFull
    <3>3. ASSUME NEW j \in Chains, Wrap(j + 1, MAX_CHAINS) = iSequenceWrite'
          PROVE  Wrap(iSequenceStart'[j] + iSequenceSize'[j], POOL_SIZE) = iCurrentSequenceStart'
      <4>1. j = iSequenceWrite
        BY <1>3, <3>3, Types, WrapInjective DEF Inv, nextSequenceIndex, Chains
      <4>2. iSequenceStart'[j] = iCurrentSequenceStart /\ iSequenceSize'[j] = n
        BY <1>3, <4>1 DEF Inv, TypeOK
      <4> QED
        BY <1>3, <1>b, <4>2
    <3> QED
      BY <1>3, <3>1, <3>2, <3>3 DEF Contiguous, Chains
  <2>3. BatchUse'
    <3>1. QueueLength' = QueueLength + 1
      BY <1>0, <1>3, Types, DistanceNext DEF Inv, ChainFull, nextSequenceIndex, QueueLength
    <3>2. ~overflowed => QueueLength' * min_sequence_length <= PoolDistance(w)
      <4>1. (QueueLength + 1) * min_sequence_length = QueueLength * min_sequence_length + min_sequence_length
        BY Types DEF Inv
      <4>2. QueueLength * min_sequence_length \in Nat
        BY Types DEF Inv
      <4>3. ~overflowed => QueueLength * min_sequence_length + min_sequence_length <= PoolDistance(w)
        BY <1>3, <1>a, <1>b, <4>2, Types DEF Inv
      <4> QED
        BY <3>1, <4>1, <4>3
    <3>3. PoolDistance(w) = PoolDistance(w) + 0
      BY <1>c
    <3>4. 0 < MAX_SEQUENCE_LENGTH /\ 0 <= MAX_SEQUENCE_LENGTH /\ 0 # MAX_SEQUENCE_LENGTH
      BY Types DEF Inv
    <3> QED
      BY <1>0, <1>3, <1>c, <2>0, <3>2, <3>3, <3>4 DEF BatchUse
  <2>4. ShortOpenSequence' /\ (ChainsSuffice => ~overflowed)'
    <3>1. ChainsSuffice' = ChainsSuffice
      BY <1>0 DEF ChainsSuffice
    <3> QED
      BY <2>0, <3>1 DEF Inv, ShortOpenSequence
  <2> QED
    BY <2>1, <2>2, <2>3, <2>4 DEF Inv
<1> QED
  BY <1>1, <1>2, <1>3 DEF EndOfSequence

LEMMA EndAfterIntervalInv ==
  ASSUME Inv, NEW status, EndAfterInterval(status)
  PROVE  Inv'
  BY EndOfSequenceInv DEF EndAfterInterval

LEMMA EndBeforeItemInv ==
  ASSUME Inv, NEW status, EndBeforeItem(status)
  PROVE  Inv'
  BY PoolNeverFull, EndOfSequenceInv DEF EndBeforeItem

LEMMA NextInv == Inv /\ [Next]_vars => Inv'
<1> SUFFICES ASSUME Inv, [Next]_vars PROVE Inv'
  OBVIOUS
<1>1. CASE DecoderLoop
  <2>1. pc' \in {"decoder", "take", "select", "done"} /\ stopDecoder' \in BOOLEAN /\ pc # "batch"
    BY <1>1 DEF DecoderLoop, Inv, TypeOK
  <2> QED
    BY <1>1, <2>1, ControlInv DEF DecoderLoop
<1>2. CASE TakeNothing
  BY <1>2, ControlInv DEF TakeNothing, Inv, TypeOK
<1>3. CASE TakeSequence
  BY <1>3, TakeSequenceInv
<1>4. CASE ReturnReady
  BY <1>4, ControlInv DEF ReturnReady, Inv, TypeOK
<1>5. CASE ReadNothing
  BY <1>5, ControlInv DEF ReadNothing, Inv, TypeOK
<1>6. CASE ReadFails
  BY <1>6, ControlInv DEF ReadFails, Inv, TypeOK
<1>7. CASE ReadBatch
  BY <1>7, ReadBatchInv
<1>8. ASSUME NEW status \in Statuses,
             StoreInterval(status) \/ EndAfterInterval(status) \/ EndBeforeItem(status)
      PROVE  Inv'
  BY <1>8, StoreIntervalInv, EndAfterIntervalInv, EndBeforeItemInv
<1>9. CASE BatchDone
  BY <1>9, ControlInv DEF BatchDone, Inv, TypeOK
<1>10. CASE Stop
  BY <1>10, ControlInv DEF Stop, Inv, TypeOK
<1>11. CASE UNCHANGED vars
  <2>1. stopDecoder' \in BOOLEAN /\ pc' = pc
    BY <1>11 DEF vars, Inv, TypeOK
  <2> QED
    BY <1>11, <2>1, ControlInv DEF vars
<1> QED
  BY <1>1, <1>2, <1>3, <1>4, <1>5, <1>6, <1>7, <1>8, <1>9, <1>10, <1>11 DEF Next

LEMMA InvAlways == Spec => []Inv
  BY InitInv, NextInv, PTL DEF Spec

-----------------------------------------------------------------------------
\* The variables of the gpio-ts reader keep their types: no index leaves its
\* ring and no sequence is longer than the pool.
THEOREM TypeCorrect == Spec => []TypeOK
<1>1. Inv => TypeOK
  BY DEF Inv
<1> QED
  BY <1>1, InvAlways, PTL

\* readSequences never finds the pool full, and finds a free descriptor whenever
\* MAX_CHAINS sequences of the minimal length are longer than what can be
\* recorded between two times when everything is taken.
THEOREM NothingIsLost == Spec => []NothingLost
<1>1. Inv => NothingLost
  BY PoolNeverFull DEF Inv, NothingLost
<1> QED
  BY <1>1, InvAlways, PTL

\* When the decoder has taken everything, both rings are free but for the open
\* sequence.
THEOREM AllIsFreeWhenTaken == Spec => []AllFreeWhenTaken
<1>1. Inv => AllFreeWhenTaken
  BY Types, WrapDistance DEF Inv, Contiguous, AllFreeWhenTaken
<1> QED
  BY <1>1, InvAlways, PTL
=============================================================================
