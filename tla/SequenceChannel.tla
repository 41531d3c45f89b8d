-------------------------- MODULE SequenceChannel --------------------------
(***************************************************************************)
(* What the ring buffers of Receiver promise: a first-in first-out channel *)
(* from the interrupt handler to the decoder thread.  The handler extends  *)
(* the sequence it is recording, drops it or publishes it; the decoder     *)
(* takes the oldest published sequence and delivers exactly the intervals  *)
(* that were recorded.  Nothing is lost once published, nothing is         *)
(* reordered and no interval of a published sequence ever changes.         *)
(***************************************************************************)
EXTENDS Sequences

CONSTANT Values   \* the intervals that may be recorded

VARIABLES
  current,   \* the intervals of the sequence being recorded
  queue,     \* published sequences, oldest first
  taken,     \* the sequence the decoder is working on, << >> when none
  message    \* the intervals of the last delivered message

vars == <<current, queue, taken, message>>

TypeOK ==
  /\ current \in Seq(Values)
  /\ queue \in Seq(Seq(Values))
  /\ taken \in Seq(Values)
  /\ message \in Seq(Values)

Init ==
  /\ current = << >>
  /\ queue = << >>
  /\ taken = << >>
  /\ message = << >>

\* The handler adds one interval.
Extend ==
  /\ \E interval \in Values : current' = Append(current, interval)
  /\ UNCHANGED <<queue, taken, message>>

\* The handler gives up the sequence it is recording.
Drop ==
  /\ current' = << >>
  /\ UNCHANGED <<queue, taken, message>>

Publish ==
  /\ current # << >>
  /\ queue' = Append(queue, current)
  /\ current' = << >>
  /\ UNCHANGED <<taken, message>>

Take ==
  /\ queue # << >>
  /\ taken = << >>
  /\ taken' = Head(queue)
  /\ queue' = Tail(queue)
  /\ message' = << >>
  /\ UNCHANGED current

Deliver ==
  /\ taken # << >>
  /\ message' = taken
  /\ taken' = << >>
  /\ UNCHANGED <<current, queue>>

Next == Extend \/ Drop \/ Publish \/ Take \/ Deliver

Spec == Init /\ [][Next]_vars
=============================================================================
