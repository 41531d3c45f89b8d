---------------------------- MODULE GpioTsReader ----------------------------
(***************************************************************************)
(* The decoder thread of the gpio-ts build: Receiver::decoder calls        *)
(* Receiver::readSequences, which reads a batch of measured intervals from *)
(* the kernel driver and cuts it into sequences, and then takes the        *)
(* sequences with createNewMessage.  The same ring buffers as in           *)
(* SequencePool, but one thread is both the writer and the reader.         *)
(*                                                                         *)
(* What an interval measures is left out: only its status decides the      *)
(* control flow.  The driver is external: it delivers any statuses.        *)
(***************************************************************************)
EXTENDS Integers

CONSTANTS
  POOL_SIZE, MAX_CHAINS, MAX_SEQUENCE_LENGTH,
  N_ITEMS,               \* length of the buffer given to read()
  MinSequenceLengths     \* values the configuration may give min_sequence_length

ASSUME ReaderAssumption ==
  /\ POOL_SIZE \in Nat /\ POOL_SIZE > 1
  /\ MAX_CHAINS \in Nat /\ MAX_CHAINS > 1
  /\ MAX_SEQUENCE_LENGTH \in Nat /\ MAX_SEQUENCE_LENGTH > 1
  /\ N_ITEMS \in Nat
  /\ MinSequenceLengths \subseteq Nat \ {0}

\* In the program 400 + 512 < 4096.
ASSUME PoolSuffices == MAX_SEQUENCE_LENGTH + N_ITEMS < POOL_SIZE

VARIABLES
  iPoolWrite, iPoolRead,
  iSequenceStart, iSequenceSize, iSequenceWrite, iSequenceReady,
  iCurrentSequenceStart, iCurrentSequenceSize,
  min_sequence_length,
  stopDecoder,
  n_items,               \* items of the batch that are not processed yet
  pc,
  overflowed             \* sequence_pool_overflow > 0

poolVars == <<iPoolWrite, iCurrentSequenceStart, iCurrentSequenceSize>>
chainVars == <<iSequenceStart, iSequenceSize, iSequenceWrite>>
readVars == <<iPoolRead, iSequenceReady>>
vars == <<poolVars, chainVars, readVars, min_sequence_length, stopDecoder,
          n_items, pc, overflowed>>

Cells == 0 .. POOL_SIZE - 1
Chains == 0 .. MAX_CHAINS - 1

\* The driver measures high and low level, sees noise and loses data.
Statuses == {"level", "noise", "lost"}

\* index & (n - 1) for a power of two n and 0 <= index < 2n
Wrap(index, n) == IF index < n THEN index ELSE index - n
Distance(a, b, n) == IF a <= b THEN b - a ELSE b - a + n

\* Mutant for TypeOK: the index is not wrapped around.
nextPoolIndexMutant == iPoolWrite + 1

nextPoolIndex == Wrap(iPoolWrite + 1, POOL_SIZE)
nextSequenceIndex == Wrap(iSequenceWrite + 1, MAX_CHAINS)
PoolFull == iPoolRead = nextPoolIndex
ChainFull == iSequenceReady = nextSequenceIndex
NoSequence == iSequenceReady = iSequenceWrite

\* Every index stays within its ring and every size within the pool.
TypeOK ==
  /\ iPoolWrite \in Cells
  /\ iPoolRead \in Cells
  /\ iSequenceStart \in [Chains -> Cells]
  /\ iSequenceSize \in [Chains -> 0 .. POOL_SIZE - 1]
  /\ iSequenceWrite \in Chains
  /\ iSequenceReady \in Chains
  /\ iCurrentSequenceStart \in Cells
  /\ iCurrentSequenceSize \in 0 .. POOL_SIZE - 1
  /\ min_sequence_length \in MinSequenceLengths
  /\ stopDecoder \in BOOLEAN
  /\ n_items \in 0 .. N_ITEMS
  /\ pc \in {"decoder", "take", "select", "batch", "done"}
  /\ overflowed \in BOOLEAN

\* Receiver::resetReceiverBuffer in enableReceive, then startDecoder
Init ==
  /\ iPoolWrite = 0
  /\ iPoolRead = 0
  /\ iSequenceStart = [j \in Chains |-> 0]
  /\ iSequenceSize = [j \in Chains |-> 0]
  /\ iSequenceWrite = 0
  /\ iSequenceReady = 0
  /\ iCurrentSequenceStart = 0
  /\ iCurrentSequenceSize = 0
  /\ min_sequence_length \in MinSequenceLengths
  /\ stopDecoder = FALSE
  /\ n_items = 0
  /\ pc = "decoder"
  /\ overflowed = FALSE

-----------------------------------------------------------------------------
(* Receiver::decoder                                                       *)

DecoderLoop ==
  /\ pc = "decoder"
  /\ pc' = IF stopDecoder THEN "done" ELSE IF NoSequence THEN "select" ELSE "take"
  /\ UNCHANGED <<poolVars, chainVars, readVars, min_sequence_length, stopDecoder,
                 n_items, overflowed>>

\* createNewMessage: NULL when there is no sequence
TakeNothing ==
  /\ pc = "take" /\ NoSequence
  /\ pc' = "decoder"
  /\ UNCHANGED <<poolVars, chainVars, readVars, min_sequence_length, stopDecoder,
                 n_items, overflowed>>

TakeSequence ==
  /\ pc = "take" /\ ~NoSequence
  /\ iPoolRead' = Wrap(iSequenceStart[iSequenceReady] + iSequenceSize[iSequenceReady], POOL_SIZE)
  /\ iSequenceReady' = Wrap(iSequenceReady + 1, MAX_CHAINS)
  /\ pc' = "decoder"
  /\ UNCHANGED <<poolVars, chainVars, min_sequence_length, stopDecoder, n_items, overflowed>>

-----------------------------------------------------------------------------
(* Receiver::readSequences                                                 *)

\* The loop ends: it returns 1.
ReturnReady ==
  /\ pc = "select" /\ (stopDecoder \/ ~NoSequence)
  /\ pc' = "take"
  /\ UNCHANGED <<poolVars, chainVars, readVars, min_sequence_length, stopDecoder,
                 n_items, overflowed>>

\* select() or read() gives nothing: after a timeout the decoder tries again,
\* otherwise readSequences does.
ReadNothing ==
  /\ pc = "select" /\ ~stopDecoder /\ NoSequence
  /\ pc' \in {"decoder", "select"}
  /\ UNCHANGED <<poolVars, chainVars, readVars, min_sequence_length, stopDecoder,
                 n_items, overflowed>>

\* select() or read() fails, an interrupted select() too: the decoder stops the
\* receiver and ends.
ReadFails ==
  /\ pc = "select" /\ ~stopDecoder /\ NoSequence
  /\ stopDecoder' = TRUE
  /\ pc' = "done"
  /\ UNCHANGED <<poolVars, chainVars, readVars, min_sequence_length, n_items, overflowed>>

\* Mutant for NothingLost: the driver is read while sequences wait.
ReadBatchMutant ==
  /\ pc = "select" /\ ~stopDecoder
  /\ n_items' \in 1 .. N_ITEMS
  /\ pc' = "batch"
  /\ UNCHANGED <<poolVars, chainVars, readVars, min_sequence_length, stopDecoder, overflowed>>

ReadBatch ==
  /\ pc = "select" /\ ~stopDecoder /\ NoSequence
  /\ n_items' \in 1 .. N_ITEMS
  /\ pc' = "batch"
  /\ UNCHANGED <<poolVars, chainVars, readVars, min_sequence_length, stopDecoder, overflowed>>

\* An interval that leaves the sequence open.
StoreInterval(status) ==
  /\ pc = "batch" /\ n_items > 0
  /\ status = "level" /\ ~PoolFull
  /\ iCurrentSequenceSize + 1 < MAX_SEQUENCE_LENGTH
  /\ iPoolWrite' = nextPoolIndex
  /\ iCurrentSequenceSize' = iCurrentSequenceSize + 1
  /\ n_items' = n_items - 1
  /\ UNCHANGED <<iCurrentSequenceStart, chainVars, readVars, min_sequence_length,
                 stopDecoder, pc, overflowed>>

\* Mutant for AllFreeWhenTaken: the cells of a sequence that is dropped stay used.
EndOfSequenceMutant(n, w) ==
  \/ /\ n < min_sequence_length
     /\ iPoolWrite' = w
     /\ iCurrentSequenceSize' = 0
     /\ n_items' = n_items - 1
     /\ UNCHANGED <<iCurrentSequenceStart, chainVars, pc, overflowed>>
  \/ /\ n >= min_sequence_length
     /\ ChainFull
     /\ overflowed' = TRUE
     /\ n_items' = 0
     /\ pc' = "take"
     /\ iPoolWrite' = w
     /\ iCurrentSequenceSize' = n
     /\ UNCHANGED <<iCurrentSequenceStart, chainVars>>
  \/ /\ n >= min_sequence_length
     /\ ~ChainFull
     /\ iSequenceSize' = [iSequenceSize EXCEPT ![iSequenceWrite] = n]
     /\ iSequenceStart' = [iSequenceStart EXCEPT ![iSequenceWrite] = iCurrentSequenceStart]
     /\ iSequenceWrite' = nextSequenceIndex
     /\ iPoolWrite' = w
     /\ iCurrentSequenceStart' = w
     /\ iCurrentSequenceSize' = 0
     /\ n_items' = n_items - 1
     /\ UNCHANGED <<pc, overflowed>>

\* The sequence ends after this item and has n intervals, the last before cell w.
EndOfSequence(n, w) ==
  \/ /\ n < min_sequence_length
     /\ iPoolWrite' = iCurrentSequenceStart
     /\ iCurrentSequenceSize' = 0
     /\ n_items' = n_items - 1
     /\ UNCHANGED <<iCurrentSequenceStart, chainVars, pc, overflowed>>
  \/ /\ n >= min_sequence_length
     /\ ChainFull
     \* The rest of the batch is lost and the sequence stays open.
     /\ overflowed' = TRUE
     /\ n_items' = 0
     /\ pc' = "take"
     /\ iPoolWrite' = w
     /\ iCurrentSequenceSize' = n
     /\ UNCHANGED <<iCurrentSequenceStart, chainVars>>
  \/ /\ n >= min_sequence_length
     /\ ~ChainFull
     /\ iSequenceSize' = [iSequenceSize EXCEPT ![iSequenceWrite] = n]
     /\ iSequenceStart' = [iSequenceStart EXCEPT ![iSequenceWrite] = iCurrentSequenceStart]
     /\ iSequenceWrite' = nextSequenceIndex
     /\ iPoolWrite' = w
     /\ iCurrentSequenceStart' = w
     /\ iCurrentSequenceSize' = 0
     /\ n_items' = n_items - 1
     /\ UNCHANGED <<pc, overflowed>>

EndAfterInterval(status) ==
  /\ pc = "batch" /\ n_items > 0
  /\ status = "level" /\ ~PoolFull
  /\ iCurrentSequenceSize + 1 >= MAX_SEQUENCE_LENGTH
  /\ EndOfSequence(iCurrentSequenceSize + 1, nextPoolIndex)
  /\ UNCHANGED <<readVars, min_sequence_length, stopDecoder>>

EndBeforeItem(status) ==
  /\ pc = "batch" /\ n_items > 0
  /\ status # "level" \/ PoolFull
  /\ EndOfSequence(iCurrentSequenceSize, iPoolWrite)
  /\ UNCHANGED <<readVars, min_sequence_length, stopDecoder>>

BatchDone ==
  /\ pc = "batch" /\ n_items = 0
  /\ pc' = "select"
  /\ UNCHANGED <<poolVars, chainVars, readVars, min_sequence_length, stopDecoder,
                 n_items, overflowed>>

\* Receiver::stop in another thread
Stop ==
  /\ ~stopDecoder
  /\ stopDecoder' = TRUE
  /\ UNCHANGED <<poolVars, chainVars, readVars, min_sequence_length, n_items, pc, overflowed>>

Next ==
  \/ DecoderLoop \/ TakeNothing \/ TakeSequence
  \/ ReturnReady \/ ReadNothing \/ ReadFails \/ ReadBatch
  \/ \E status \in Statuses :
       StoreInterval(status) \/ EndAfterInterval(status) \/ EndBeforeItem(status)
  \/ BatchDone
  \/ Stop

Spec == Init /\ [][Next]_vars

-----------------------------------------------------------------------------
(* Properties                                                              *)

\* The longest open sequence and the batch that follows it.
LongestRun == MAX_SEQUENCE_LENGTH - 1 + N_ITEMS

\* In the program 64 * 17 > 399 + 512, and enableReceive allows no less than 17.
ChainsSuffice == MAX_CHAINS * min_sequence_length > LongestRun

\* readSequences never finds the pool full, and finds no free descriptor only if
\* the configuration allows sequences too short for MAX_CHAINS: it reads only when
\* every sequence is taken, and what one batch can add fits into both rings.  So
\* no interval of a batch is lost.
NothingLost ==
  /\ pc = "batch" /\ n_items > 0 => ~PoolFull
  /\ ChainsSuffice => ~overflowed

\* The reader owns the whole pool but the open sequence when it has taken
\* everything: no cell is lost to either side.
AllFreeWhenTaken ==
  NoSequence => /\ iPoolRead = iCurrentSequenceStart
                /\ Distance(iPoolRead, iPoolWrite, POOL_SIZE) = iCurrentSequenceSize
=============================================================================
