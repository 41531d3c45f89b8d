---------------------------- MODULE MessageQueue ----------------------------
(***************************************************************************)
(* The queue between the threads that produce messages (the decoder and    *)
(* the pollster of 1-wire sensors) and the main loop, and what ends it:    *)
(* the timer of the statistics and Receiver::stop.                         *)
(*                                                                         *)
(* The queue is the linked list of common/Receiver.cpp: firstMessage is    *)
(* its head and lastMessagePtr the address of the link that ends it, which *)
(* is firstMessage itself or the `next` of a message.  A critical section  *)
(* of messageQueueLock is cut into its assignments, and the flags that are *)
(* written outside of it (stopped, timerEvent) may change in between.      *)
(*                                                                         *)
(* SIGINT and SIGTERM are handled on the main thread, which stands still   *)
(* until Receiver::stop returns; SignalAnywhere = FALSE leaves out the     *)
(* signals that arrive while the main thread holds messageQueueLock.       *)
(*                                                                         *)
(* pollsterLock is the mutex of the pollster's pthread_cond_timedwait and  *)
(* of Receiver::stop.  The pollster itself neither locks nor unlocks it:   *)
(* it gets it from pthread_cond_timedwait and holds it from then on, when  *)
(* it polls and when it ends.                                              *)
(***************************************************************************)
EXTENDS Naturals, FiniteSets, Sequences, SequencesExt

CONSTANTS
  Messages,         \* memory for messages
  NULL,
  FIRST,            \* &firstMessage
  NONE,             \* nobody
  MAX_DEVICES,      \* bound: number of 1-wire sensors
  MAX_TICKS,        \* bound: number of timer events
  SignalAnywhere

Producers == {"decoder", "pollster"}
Threads == Producers \cup {"main", "timer", "signal"}

ASSUME QueueAssumption ==
  /\ IsFiniteSet(Messages)
  /\ NULL \notin Messages /\ FIRST \notin Messages /\ NULL # FIRST
  /\ NONE \notin Threads
  /\ MAX_DEVICES \in Nat \ {0} /\ MAX_TICKS \in Nat
  /\ SignalAnywhere \in BOOLEAN

VARIABLES
  firstMessage, lastMessagePtr,
  next,             \* the link of every message
  allocated,        \* messages that malloc gave out and nobody freed
  list,             \* the messages a producer is about to append
  data,             \* waitForMessage's local variable
  held,             \* the message of main's ReceivedMessage
  timerEvent, ticks,
  stopped, stopDecoder, stopPollster, stopMessageReader, isEnabled,
  pollsterLock, messageQueueLock,
  pc

queueVars == <<firstMessage, lastMessagePtr, next>>
memoryVars == <<allocated, list, data, held>>
timerVars == <<timerEvent, ticks>>
stopVars == <<stopped, stopDecoder, stopPollster, stopMessageReader, isEnabled, pollsterLock>>
vars == <<queueVars, memoryVars, timerVars, stopVars, messageQueueLock, pc>>

\* Every pointer is one to a message, NULL, or for the tail &firstMessage.
TypeOK ==
  /\ firstMessage \in Messages \cup {NULL}
  /\ lastMessagePtr \in Messages \cup {FIRST}
  /\ next \in [Messages -> Messages \cup {NULL}]
  /\ allocated \subseteq Messages
  /\ \A p \in Producers : list[p] \in Seq(Messages)
  /\ data \in Messages \cup {NULL}
  /\ held \in Messages \cup {NULL}
  /\ timerEvent \in {0, 1}
  /\ ticks \in 0 .. MAX_TICKS
  /\ {stopped, stopDecoder, stopPollster, stopMessageReader, isEnabled} \subseteq BOOLEAN
  /\ {pollsterLock, messageQueueLock} \subseteq Threads \cup {NONE}
  /\ pc \in [Threads -> {"enable", "loop", "lock", "check", "sleep", "wait", "popped",
                         "unlock", "got", "process", "exit", "work", "link", "tail",
                         "timedwait", "waiting", "idle", "stop", "lockPollster",
                         "broadcastPollster", "pause", "notify", "broadcast", "done"}]

\* The constructor, initMessageQueue, and the threads that enableReceive starts; the
\* pollster is enabled.
Init ==
  /\ firstMessage = NULL
  /\ lastMessagePtr = FIRST
  /\ next = [m \in Messages |-> NULL]
  /\ allocated = {}
  /\ list = [p \in Producers |-> << >>]
  /\ data = NULL
  /\ held = NULL
  /\ timerEvent = 0
  /\ ticks = 0
  /\ stopped = FALSE
  /\ stopDecoder = FALSE
  /\ stopPollster = FALSE
  /\ stopMessageReader = FALSE
  /\ isEnabled = FALSE
  /\ pollsterLock = NONE
  /\ messageQueueLock = NONE
  /\ pc = [t \in Threads |-> CASE t = "main" -> "enable"
                               [] t \in Producers -> "work"
                               [] OTHER -> "idle"]

Goto(t, label) == pc' = [pc EXCEPT ![t] = label]

\* pthread_cond_broadcast(&messageReady): only main ever waits for it
Broadcast == [pc EXCEPT !["main"] = IF @ = "wait" THEN "lock" ELSE @]

Acquire(t) == messageQueueLock = NONE /\ messageQueueLock' = t

-----------------------------------------------------------------------------
(* The main thread: enableReceive, the loop of main and waitForMessage     *)

\* The signal handler runs on the main thread.
MainAt(label) == pc["main"] = label /\ pc["signal"] \in {"idle", "done"}

\* enableReceive sets isEnabled after it has started the threads.
EnableReceive ==
  /\ MainAt("enable")
  /\ isEnabled' = TRUE
  /\ Goto("main", "loop")
  /\ UNCHANGED <<queueVars, memoryVars, timerVars, stopped, stopDecoder, stopPollster,
                 stopMessageReader, pollsterLock, messageQueueLock>>

MainLoop ==
  /\ MainAt("loop")
  /\ Goto("main", IF stopped THEN "exit" ELSE "lock")
  /\ UNCHANGED <<queueVars, memoryVars, timerVars, stopVars, messageQueueLock>>

MainLock ==
  /\ MainAt("lock")
  /\ Acquire("main")
  /\ Goto("main", "check")
  /\ UNCHANGED <<queueVars, memoryVars, timerVars, stopVars>>

Interrupted == stopped \/ stopMessageReader \/ timerEvent # 0

\* The condition of the loop holds: main is going to wait.
CheckEmpty ==
  /\ MainAt("check")
  /\ ~Interrupted /\ firstMessage = NULL
  /\ Goto("main", "sleep")
  /\ UNCHANGED <<queueVars, memoryVars, timerVars, stopVars, messageQueueLock>>

Sleep ==
  /\ MainAt("sleep")
  /\ messageQueueLock' = NONE
  /\ Goto("main", "wait")
  /\ UNCHANGED <<queueVars, memoryVars, timerVars, stopVars>>

\* pthread_cond_wait may return without a broadcast.
SpuriousWakeup ==
  /\ MainAt("wait")
  /\ Goto("main", "lock")
  /\ UNCHANGED <<queueVars, memoryVars, timerVars, stopVars, messageQueueLock>>

\* firstMessage is not even looked at when there is another reason to return.
CheckInterrupted ==
  /\ MainAt("check")
  /\ Interrupted
  /\ Goto("main", "unlock")
  /\ UNCHANGED <<queueVars, memoryVars, timerVars, stopVars, messageQueueLock>>

PopMessage ==
  /\ MainAt("check")
  /\ ~Interrupted /\ firstMessage # NULL
  /\ data' = firstMessage
  /\ firstMessage' = next[firstMessage]
  /\ Goto("main", "popped")
  /\ UNCHANGED <<lastMessagePtr, next, allocated, list, held, timerVars, stopVars,
                 messageQueueLock>>

\* Mutant for TypeOK: the tail is set to firstMessage and not to its address.
ResetTailMutant ==
  /\ MainAt("popped")
  /\ lastMessagePtr' = IF firstMessage = NULL THEN firstMessage ELSE lastMessagePtr
  /\ Goto("main", "unlock")
  /\ UNCHANGED <<firstMessage, next, memoryVars, timerVars, stopVars, messageQueueLock>>

\* Mutant for MemoryIsOwned: the tail stays where it was when the queue gets empty.
KeepTailMutant ==
  /\ MainAt("popped")
  /\ Goto("main", "unlock")
  /\ UNCHANGED <<queueVars, memoryVars, timerVars, stopVars, messageQueueLock>>

ResetTail ==
  /\ MainAt("popped")
  /\ lastMessagePtr' = IF firstMessage = NULL THEN FIRST ELSE lastMessagePtr
  /\ Goto("main", "unlock")
  /\ UNCHANGED <<firstMessage, next, memoryVars, timerVars, stopVars, messageQueueLock>>

MainUnlock ==
  /\ MainAt("unlock")
  /\ messageQueueLock' = NONE
  /\ Goto("main", "got")
  /\ UNCHANGED <<queueVars, memoryVars, timerVars, stopVars>>

\* The message is cut off the list without the lock, and setData frees the one
\* before it.  A message that was popped while the receiver stops is discarded.
SetData ==
  /\ MainAt("got")
  /\ next' = [m \in Messages |-> IF m = data THEN NULL ELSE next[m]]
  /\ allocated' = allocated \ {held}
  /\ held' = data
  /\ data' = NULL
  /\ Goto("main", IF stopped THEN "exit" ELSE "process")
  /\ UNCHANGED <<firstMessage, lastMessagePtr, list, timerVars, stopVars, messageQueueLock>>

\* checkAndResetTimerEvent, after the message is processed
CheckAndResetTimerEvent ==
  /\ MainAt("process")
  /\ timerEvent' = 0
  /\ Goto("main", "loop")
  /\ UNCHANGED <<queueVars, memoryVars, ticks, stopVars, messageQueueLock>>

Main ==
  \/ EnableReceive \/ MainLoop \/ MainLock \/ CheckEmpty \/ Sleep
  \/ CheckInterrupted \/ PopMessage \/ ResetTail \/ MainUnlock \/ SetData
  \/ CheckAndResetTimerEvent

-----------------------------------------------------------------------------
(* The producers: Receiver::decoder and Receiver::pollster                 *)

MaxList(p) == IF p = "decoder" THEN 1 ELSE MAX_DEVICES

\* Where the thread goes on when its messages are in the queue.
AfterAppend(p) == IF p = "decoder" THEN "work" ELSE "timedwait"

\* createNewMessage and the decoding, or pollW1 with the sensors it finds
NewMessages(p) ==
  /\ pc[p] = "work"
  /\ IF p = "decoder" THEN ~stopDecoder ELSE ~stopPollster
  /\ \E n \in 1 .. MaxList(p) : \E new \in [1 .. n -> Messages \ allocated] :
       /\ IsInjective(new)
       /\ list' = [list EXCEPT ![p] = new]
       /\ allocated' = allocated \cup ToSet(new)
       /\ next' = [m \in Messages |->
                     IF m \notin ToSet(new) THEN next[m]
                     ELSE IF m = new[n] THEN NULL
                     ELSE new[CHOOSE i \in 2 .. n : new[i - 1] = m]]
  /\ Goto(p, "lock")
  /\ UNCHANGED <<firstMessage, lastMessagePtr, data, held, timerVars, stopVars,
                 messageQueueLock>>

\* *lastMessagePtr = messages
LinkMessages(p) ==
  /\ pc[p] = "link"
  /\ IF lastMessagePtr = FIRST
     THEN firstMessage' = Head(list[p]) /\ UNCHANGED next
     ELSE next' = [next EXCEPT ![lastMessagePtr] = Head(list[p])] /\ UNCHANGED firstMessage
  /\ Goto(p, "tail")
  /\ UNCHANGED <<lastMessagePtr, memoryVars, timerVars, stopVars, messageQueueLock>>

\* Mutant for ImplementsChannel: the tail stays, and the next list is linked there.
MoveTailMutant(p) ==
  /\ pc[p] = "tail"
  /\ list' = [list EXCEPT ![p] = << >>]
  /\ pc' = [Broadcast EXCEPT ![p] = AfterAppend(p)]
  /\ messageQueueLock' = NONE
  /\ UNCHANGED <<queueVars, allocated, data, held, timerVars, stopVars>>

\* Mutant for QueuedIsReceived: the main loop is not woken.
SilentTailMutant(p) ==
  /\ pc[p] = "tail"
  /\ lastMessagePtr' = Last(list[p])
  /\ list' = [list EXCEPT ![p] = << >>]
  /\ Goto(p, AfterAppend(p))
  /\ messageQueueLock' = NONE
  /\ UNCHANGED <<firstMessage, next, allocated, data, held, timerVars, stopVars>>

MoveTail(p) ==
  /\ pc[p] = "tail"
  /\ lastMessagePtr' = Last(list[p])
  /\ list' = [list EXCEPT ![p] = << >>]
  /\ pc' = [Broadcast EXCEPT ![p] = AfterAppend(p)]
  /\ messageQueueLock' = NONE
  /\ UNCHANGED <<firstMessage, next, allocated, data, held, timerVars, stopVars>>

\* pollW1 finds no sensor.
NoSensors ==
  /\ pc["pollster"] = "work"
  /\ ~stopPollster
  /\ Goto("pollster", "timedwait")
  /\ UNCHANGED <<queueVars, memoryVars, timerVars, stopVars, messageQueueLock>>

\* pthread_cond_timedwait unlocks pollsterLock, in the first round without holding it.
\* That has no defined outcome: it unlocks the mutex whoever has it, or fails.
TimedWait ==
  /\ pc["pollster"] = "timedwait"
  /\ \/ pollsterLock' = NONE /\ Goto("pollster", "waiting")
     \/ pollsterLock # "pollster" /\ UNCHANGED pollsterLock /\ Goto("pollster", "done")
  /\ UNCHANGED <<queueVars, memoryVars, timerVars, stopped, stopDecoder, stopPollster,
                 stopMessageReader, isEnabled, messageQueueLock>>

\* It returns with pollsterLock, after a timeout, a broadcast, or without a reason.
Wake ==
  /\ pc["pollster"] = "waiting"
  /\ pollsterLock = NONE /\ pollsterLock' = "pollster"
  /\ Goto("pollster", "work")
  /\ UNCHANGED <<queueVars, memoryVars, timerVars, stopped, stopDecoder, stopPollster,
                 stopMessageReader, isEnabled, messageQueueLock>>

\* The loop of the thread ends; pollsterLock stays with the pollster that has it.
EndThread(p) ==
  /\ pc[p] = "work"
  /\ IF p = "decoder" THEN stopDecoder ELSE stopPollster
  /\ Goto(p, "done")
  /\ UNCHANGED <<queueVars, memoryVars, timerVars, stopVars, messageQueueLock>>

-----------------------------------------------------------------------------
(* The timer: Receiver::raiseTimerEvent                                    *)

RaiseTimerEvent ==
  /\ pc["timer"] = "idle"
  /\ ticks < MAX_TICKS
  /\ ~stopMessageReader
  /\ timerEvent' = 1
  /\ ticks' = ticks + 1
  /\ Goto("timer", "notify")
  /\ UNCHANGED <<queueVars, memoryVars, stopVars, messageQueueLock>>

-----------------------------------------------------------------------------
(* Receiver::stop, called by the signal handler, or by the decoder when it *)
(* cannot read                                                             *)

CallStop(t) ==
  /\ \/ t = "decoder" /\ pc[t] = "work" /\ ~stopDecoder
     \/ t = "signal" /\ pc[t] = "idle" /\ (messageQueueLock # "main" \/ SignalAnywhere)
  /\ Goto(t, IF stopped THEN "done" ELSE "stop")
  /\ UNCHANGED <<queueVars, memoryVars, timerVars, stopVars, messageQueueLock>>

SetStopped(t) ==
  /\ pc[t] = "stop"
  /\ stopped' = TRUE
  /\ stopPollster' = TRUE
  /\ Goto(t, "lockPollster")
  /\ UNCHANGED <<queueVars, memoryVars, timerVars, stopDecoder, stopMessageReader,
                 isEnabled, pollsterLock, messageQueueLock>>

LockPollster(t) ==
  /\ pc[t] = "lockPollster"
  /\ pollsterLock = NONE /\ pollsterLock' = t
  /\ Goto(t, "broadcastPollster")
  /\ UNCHANGED <<queueVars, memoryVars, timerVars, stopped, stopDecoder, stopPollster,
                 stopMessageReader, isEnabled, messageQueueLock>>

\* The pollster need not be woken by it: Wake is possible whenever the lock is free.
BroadcastPollster(t) ==
  /\ pc[t] = "broadcastPollster"
  /\ pollsterLock' = NONE
  /\ Goto(t, "pause")
  /\ UNCHANGED <<queueVars, memoryVars, timerVars, stopped, stopDecoder, stopPollster,
                 stopMessageReader, isEnabled, messageQueueLock>>

\* Nothing of this is done before enableReceive has finished.
Pause(t) ==
  /\ pc[t] = "pause"
  /\ isEnabled' = FALSE
  /\ stopDecoder' = (stopDecoder \/ isEnabled)
  /\ stopMessageReader' = (stopMessageReader \/ isEnabled)
  /\ Goto(t, "notify")
  /\ UNCHANGED <<queueVars, memoryVars, timerVars, stopped, stopPollster, pollsterLock,
                 messageQueueLock>>

\* pthread_mutex_lock of the producers, the timer and stop
Lock(t) ==
  /\ pc[t] \in {"lock", "notify"}
  /\ Acquire(t)
  /\ Goto(t, IF pc[t] = "lock" THEN "link" ELSE "broadcast")
  /\ UNCHANGED <<queueVars, memoryVars, timerVars, stopVars>>

\* Mutant for StopEndsMainLoop: the main loop is not woken.
NotifyMutant(t) ==
  /\ pc[t] = "broadcast"
  /\ Goto(t, IF t = "timer" THEN "idle" ELSE "done")
  /\ messageQueueLock' = NONE
  /\ UNCHANGED <<queueVars, memoryVars, timerVars, stopVars>>

\* The end of raiseTimerEvent and of stop
Notify(t) ==
  /\ pc[t] = "broadcast"
  /\ pc' = [Broadcast EXCEPT ![t] = IF t = "timer" THEN "idle" ELSE "done"]
  /\ messageQueueLock' = NONE
  /\ UNCHANGED <<queueVars, memoryVars, timerVars, stopVars>>

-----------------------------------------------------------------------------
Others == Threads \ {"main"}
Stoppers == {"decoder", "signal"}

Pollster == NoSensors \/ TimedWait \/ Wake

Next ==
  \/ Main \/ SpuriousWakeup \/ Pollster
  \/ \E p \in Producers : NewMessages(p) \/ LinkMessages(p) \/ MoveTail(p) \/ EndThread(p)
  \/ RaiseTimerEvent
  \/ \E t \in Stoppers : \/ CallStop(t) \/ SetStopped(t) \/ LockPollster(t)
                       \/ BroadcastPollster(t) \/ Pause(t)
  \/ \E t \in Others : Lock(t) \/ Notify(t)

\* Every thread goes on with what it has begun, and one that waits for messageQueueLock
\* gets it in the end.  pollsterLock is got when it stays free: the pollster is told to
\* stop before stop locks it.  pollW1 ends and so does the pollster's waiting, after
\* 15 s.  Nothing makes the decoder produce, the timer tick or a signal arrive.
Fairness ==
  /\ WF_vars(Main) /\ SF_vars(MainLock)
  /\ \A p \in Producers : WF_vars(LinkMessages(p) \/ MoveTail(p))
  /\ WF_vars(Pollster \/ EndThread("pollster"))
  /\ \A t \in Stoppers :
       WF_vars(SetStopped(t) \/ LockPollster(t) \/ BroadcastPollster(t) \/ Pause(t))
  /\ \A t \in Others \ {"timer"} : SF_vars(Lock(t))
  /\ \A t \in Others : WF_vars(Notify(t))

Spec == Init /\ [][Next]_vars /\ Fairness

-----------------------------------------------------------------------------
(* Properties                                                              *)

\* The messages that can be reached from firstMessage.
Queue ==
  LET n == Cardinality(Messages)
      at[i \in 1 .. n + 1] ==
        IF i = 1 THEN firstMessage
        ELSE IF at[i - 1] = NULL THEN NULL ELSE next[at[i - 1]]
  IN  [i \in 1 .. Cardinality({j \in 1 .. n : at[j] # NULL}) |-> at[i]]

\* The main loop receives the messages of both producers completely, once, and in
\* the order in which they were appended.
Channel == INSTANCE MessageChannel WITH
  MAX_LIST <- MAX_DEVICES,
  queue    <- Queue,
  received <- IF data # NULL THEN data ELSE held

ImplementsChannel == Channel!Spec

\* The message a producer is appending: in list and, once linked, in the queue too.
Appending == UNION {ToSet(list[p]) : p \in Producers}

\* Memory is freed exactly when nobody can reach it any more: every link, and the
\* one lastMessagePtr points to, belongs to a message that is allocated, and every
\* allocated message has an owner.
MemoryIsOwned ==
  /\ allocated = ToSet(Queue) \cup Appending \cup ({data, held} \ {NULL})
  /\ lastMessagePtr \in allocated \cup {FIRST}
  /\ {data, held} \cap ToSet(Queue) \subseteq {NULL}

\* A queued message is received unless the receiver stops: no append happens
\* unnoticed between the check of the queue and the wait.  The memory of messages
\* is interchangeable, so that what holds of one holds of all.
QueuedIsReceived ==
  LET m == CHOOSE m \in Messages : TRUE
  IN  (m \in ToSet(Queue)) ~> (held = m \/ stopped)

\* stop waits for the mutex that the pollster has taken to its end.
PollsterLockLost ==
  /\ pc["pollster"] = "done" /\ pollsterLock = "pollster"
  /\ \E t \in Stoppers : pc[t] = "lockPollster"

\* When the receiver is stopped, the main loop ends, whatever the threads were doing:
\* unless the pollster ended between stopPollster = true and pthread_mutex_lock of
\* stop, and has taken pollsterLock with it.
StopEndsMainLoop == stopped ~> (pc["main"] = "exit" \/ PollsterLockLost)

\* stop notifies all message processors (Receiver.cpp:362), with no exception.
StopNotifiesMainLoop == stopped ~> pc["main"] = "exit"
=============================================================================
