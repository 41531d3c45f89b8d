--------------------------- MODULE MessageChannel ---------------------------
(***************************************************************************)
(* What the message queue of Receiver promises to the main loop: whole     *)
(* lists of messages are appended, the oldest message is received, nothing *)
(* is lost, duplicated or reordered, and a message the main loop holds is  *)
(* its own until it lets it go.                                            *)
(***************************************************************************)
EXTENDS Sequences, SequencesExt

CONSTANTS
  Messages,
  NULL,
  MAX_LIST      \* most messages one producer appends at once

VARIABLES
  queue,        \* messages that wait, oldest first
  received      \* the message of the main loop, NULL when it has none

vars == <<queue, received>>

Init ==
  /\ queue = << >>
  /\ received = NULL

Owned == ToSet(queue) \cup {received}

Send ==
  /\ \E n \in 1 .. MAX_LIST : \E list \in [1 .. n -> Messages \ Owned] :
       /\ IsInjective(list)
       /\ queue' = queue \o list
  /\ UNCHANGED received

Receive ==
  /\ queue # << >>
  /\ received' = Head(queue)
  /\ queue' = Tail(queue)

Release ==
  /\ received' = NULL
  /\ UNCHANGED queue

Next == Send \/ Receive \/ Release

Spec == Init /\ [][Next]_vars
=============================================================================
