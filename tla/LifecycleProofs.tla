-------------------------- MODULE LifecycleProofs --------------------------
(***************************************************************************)
(* Proofs about Lifecycle, for any number of signals: the types, that      *)
(* nothing is used before it is initialised, and that the flag of the      *)
(* publisher follows its connection.  Both need to know how far main has   *)
(* come: Started says what it has initialised by then and NetworkIsLate    *)
(* that libmosquitto does not call back before its thread is started.      *)
(***************************************************************************)
EXTENDS Lifecycle, TLAPS

\* Where main stands before the thread of libmosquitto is started.
BeforeNetwork ==
  {"initLib", "open", "initQueue", "queueFlag", "startDecoder", "initPollster",
   "pollsterFlag", "startPollster", "enable", "httpd", "connect", "setConnected",
   "loopStart"}

\* What main has initialised; a flag is never ahead of what it stands for.
Started ==
  /\ pc["main"] \notin {"initLib", "open", "exited"} => "fd" \in initialized
  /\ pc["main"] \notin {"initLib", "open", "initQueue", "exited"}
       => "messageQueueLock" \in initialized
  /\ pc["main"] \in {"pollsterFlag", "startPollster"} => "pollsterLock" \in initialized
  /\ isMessageQueueInitialized => "messageQueueLock" \in initialized
  /\ isPollsterStarted => "pollsterLock" \in initialized

\* Before its thread runs, libmosquitto does not call back.
NetworkIsLate ==
  /\ pc["main"] \in BeforeNetwork => pc["network"] = "idle"
  /\ pc["network"] = "idle" => link \in {"none", "connecting"}

Safe == Started /\ UsedIsInitialized /\ NetworkIsLate /\ FlagFollowsLink

\* The inductive invariant
IInv == TypeOK /\ Safe

\* The invariant holds when the receiver has been constructed.
LEMMA InitIInv == Init => IInv
<1> SUFFICES ASSUME Init PROVE IInv
  OBVIOUS
<1>1. FlagsTypeOK
  BY DEF Init, FlagsTypeOK
<1>2. StateTypeOK
  BY LifecycleAssumption DEF Init, StateTypeOK
<1>3. PcTypeOK
  BY DEF Init, PcTypeOK, Threads, Stoppers
<1>4. Safe
  BY DEF Init, Safe, Started, UsedIsInitialized, NetworkIsLate, FlagFollowsLink,
         BeforeNetwork, Threads, Stoppers
<1> QED BY <1>1, <1>2, <1>3, <1>4 DEF IInv, TypeOK

\* What the invariant says of types
LEMMA Types == IInv => FlagsTypeOK /\ StateTypeOK /\ PcTypeOK
BY DEF IInv, TypeOK

-----------------------------------------------------------------------------
(* The main thread                                                         *)

\* enableReceive initialises before it sets flags and starts threads.
LEMMA EnableReceiveStep ==
  ASSUME IInv, EnableReceive PROVE IInv'
<1>1. FlagsTypeOK'
  <2> USE Types DEF chainVars, libVars, initVars, stopVars, receiverVars, mqttVars, FlagsTypeOK
  <2>1. CASE InitLib
    BY <2>1 DEF InitLib
  <2>2. CASE OpenDevice
    BY <2>2 DEF OpenDevice
  <2>3. CASE InitMessageQueue
    <3>1. isDecoderStarted' \in BOOLEAN
      BY <2>3 DEF InitMessageQueue
    <3>2. isMessageQueueInitialized' \in BOOLEAN
      BY <2>3 DEF InitMessageQueue
    <3> QED BY <2>3, <3>1, <3>2 DEF InitMessageQueue
  <2>4. CASE StartDecoder
    BY <2>4 DEF StartDecoder
  <2>5. CASE InitPollster
    <3>1. isPollsterStarted' \in BOOLEAN
      BY <2>5 DEF InitPollster
    <3> QED BY <2>5, <3>1 DEF InitPollster
  <2>6. CASE StartPollster
    BY <2>6 DEF StartPollster
  <2>7. CASE Enable
    BY <2>7 DEF Enable
  <2> QED BY <2>1, <2>2, <2>3, <2>4, <2>5, <2>6, <2>7 DEF EnableReceive
<1> USE DEF At, CanRun, Goto, Start, Exited, Threads, Stoppers, chainVars, libVars,
            initVars, stopVars, receiverVars, mqttVars, EnableReceive, InitLib, OpenDevice,
            InitMessageQueue, StartDecoder, InitPollster, StartPollster, Enable, IInv, TypeOK
<1>2. StateTypeOK'
  BY DEF StateTypeOK
<1>3. PcTypeOK'
  BY DEF PcTypeOK
<1>4. Started' /\ UsedIsInitialized'
  BY DEF PcTypeOK, Safe, Started, UsedIsInitialized
<1>5. NetworkIsLate' /\ FlagFollowsLink'
  BY DEF PcTypeOK, Safe, NetworkIsLate, FlagFollowsLink, BeforeNetwork
<1> QED BY <1>1, <1>2, <1>3, <1>4, <1>5 DEF Safe

\* main makes and destroys the publisher around the life of its thread.
LEMMA MainStep ==
  ASSUME IInv, Main, ~EnableReceive PROVE IInv'
<1>1. FlagsTypeOK'
  <2> USE Types DEF chainVars, libVars, initVars, stopVars, receiverVars, mqttVars, FlagsTypeOK
  <2>1. CASE StartHttpd
    BY <2>1 DEF StartHttpd
  <2>2. CASE StartPublisher
    <3>1. CASE Connect("setConnected")
      BY <3>1 DEF Connect
    <3>2. CASE SetConnected("loopStart")
      BY <3>2 DEF SetConnected
    <3>3. CASE LoopStart("timer")
      BY <3>3 DEF LoopStart
    <3> QED BY <2>2, <3>1, <3>2, <3>3 DEF StartPublisher
  <2>3. CASE SetTimer
    BY <2>3 DEF SetTimer
  <2>4. CASE LeaveLoop
    BY <2>4 DEF LeaveLoop
  <2>5. CASE DestroyPublisher
    BY <2>5 DEF DestroyPublisher
  <2>6. CASE StopPublisher
    BY <2>6 DEF StopPublisher
  <2>7. CASE JoinNetwork
    BY <2>7 DEF JoinNetwork
  <2>8. CASE DeletePublisher
    BY <2>8 DEF DeletePublisher
  <2>9. CASE StopHttpd
    BY <2>9 DEF StopHttpd
  <2> QED BY <2>1, <2>2, <2>3, <2>4, <2>5, <2>6, <2>7, <2>8, <2>9 DEF Main
<1>2. StateTypeOK'
  BY Types
     DEF StateTypeOK, At, CanRun, Goto, Start, Exited, Threads, Stoppers, chainVars, libVars,
         initVars, stopVars, receiverVars, mqttVars, Main, StartHttpd, StartPublisher,
         Connect, SetConnected, LoopStart, SetTimer, LeaveLoop, DestroyPublisher,
         StopPublisher, JoinNetwork, DeletePublisher, StopHttpd
<1>3. PcTypeOK'
  BY Types
     DEF PcTypeOK, At, CanRun, Goto, Start, Exited, Threads, Stoppers, chainVars, libVars,
         initVars, stopVars, receiverVars, mqttVars, Main, StartHttpd, StartPublisher,
         Connect, SetConnected, LoopStart, SetTimer, LeaveLoop, DestroyPublisher,
         StopPublisher, JoinNetwork, DeletePublisher, StopHttpd
<1>4. Started' /\ UsedIsInitialized'
  <2> USE Types DEF At, Goto, Start, Threads, Stoppers, chainVars, libVars, initVars,
                   stopVars, receiverVars, mqttVars, PcTypeOK, IInv, Safe,
                   Started, UsedIsInitialized
  <2>1. CASE StartHttpd
    BY <2>1 DEF StartHttpd
  <2>2. CASE StartPublisher
    BY <2>2 DEF StartPublisher, Connect, SetConnected, LoopStart
  <2>3. CASE SetTimer
    BY <2>3 DEF SetTimer
  <2>4. CASE LeaveLoop
    BY <2>4 DEF LeaveLoop
  <2>5. CASE DestroyPublisher
    BY <2>5 DEF DestroyPublisher
  <2>6. CASE StopPublisher
    BY <2>6 DEF StopPublisher
  <2>7. CASE JoinNetwork
    BY <2>7 DEF JoinNetwork
  <2>8. CASE DeletePublisher
    BY <2>8 DEF DeletePublisher
  <2>9. CASE StopHttpd
    BY <2>9 DEF StopHttpd
  <2> QED BY <2>1, <2>2, <2>3, <2>4, <2>5, <2>6, <2>7, <2>8, <2>9 DEF Main
<1>5. NetworkIsLate' /\ FlagFollowsLink'
  <2> USE Types DEF At, Goto, Start, Threads, Stoppers, chainVars, libVars, initVars,
                   stopVars, receiverVars, mqttVars, PcTypeOK, IInv, Safe,
                   NetworkIsLate, FlagFollowsLink, BeforeNetwork
  <2>1. CASE StartHttpd
    BY <2>1 DEF StartHttpd
  <2>2. CASE StartPublisher
    BY <2>2 DEF StartPublisher, Connect, SetConnected, LoopStart
  <2>3. CASE SetTimer
    BY <2>3 DEF SetTimer
  <2>4. CASE LeaveLoop
    BY <2>4 DEF LeaveLoop
  <2>5. CASE DestroyPublisher
    BY <2>5 DEF DestroyPublisher
  <2>6. CASE StopPublisher
    BY <2>6 DEF StopPublisher
  <2>7. CASE JoinNetwork
    BY <2>7 DEF JoinNetwork
  <2>8. CASE DeletePublisher
    BY <2>8 DEF DeletePublisher
  <2>9. CASE StopHttpd
    BY <2>9 DEF StopHttpd
  <2> QED BY <2>1, <2>2, <2>3, <2>4, <2>5, <2>6, <2>7, <2>8, <2>9 DEF Main
<1> QED BY <1>1, <1>2, <1>3, <1>4, <1>5 DEF IInv, TypeOK, Safe

\* The callbacks run on the thread of libmosquitto only.
LEMMA NetworkStep ==
  ASSUME IInv,
         OnConnect \/ LoseConnection \/ OnDisconnect \/ Reconnect \/ EndNetwork
  PROVE  IInv'
<1>1. FlagsTypeOK'
  <2> USE Types DEF chainVars, libVars, initVars, stopVars, receiverVars, mqttVars, FlagsTypeOK
  <2>1. CASE OnConnect
    BY <2>1 DEF OnConnect
  <2>2. CASE LoseConnection
    BY <2>2 DEF LoseConnection
  <2>3. CASE OnDisconnect
    BY <2>3 DEF OnDisconnect
  <2>4. CASE Reconnect
    BY <2>4 DEF Reconnect
  <2>5. CASE EndNetwork
    BY <2>5 DEF EndNetwork
  <2> QED BY <2>1, <2>2, <2>3, <2>4, <2>5
<1> USE DEF Network, Goto, Exited, Threads, Stoppers, chainVars, libVars, initVars, stopVars,
            receiverVars, mqttVars, OnConnect, LoseConnection, OnDisconnect, Reconnect,
            EndNetwork, IInv, TypeOK
<1>2. StateTypeOK'
  BY DEF StateTypeOK
<1>3. PcTypeOK'
  BY DEF PcTypeOK
<1>4. Started' /\ UsedIsInitialized'
  BY DEF PcTypeOK, Safe, Started, UsedIsInitialized
<1>5. NetworkIsLate' /\ FlagFollowsLink'
  BY DEF PcTypeOK, Safe, NetworkIsLate, FlagFollowsLink, BeforeNetwork
<1> QED BY <1>1, <1>2, <1>3, <1>4, <1>5 DEF Safe

-----------------------------------------------------------------------------
(* Signals, stop and the threads of the receiver                           *)

\* stop trusts the flags, and these are not ahead of what they stand for.
LEMMA StopperStep ==
  ASSUME IInv, NEW t \in Stoppers, StopStep(t) \/ LockPollster(t) PROVE IInv'
<1>1. FlagsTypeOK'
  <2> USE Types DEF chainVars, libVars, initVars, stopVars, receiverVars, mqttVars, FlagsTypeOK
  <2>1. CASE CheckStopped(t)
    BY <2>1 DEF CheckStopped
  <2>2. CASE SetStopped(t)
    BY <2>2 DEF SetStopped
  <2>3. CASE CheckLock(t)
    BY <2>3 DEF CheckLock
  <2>4. CASE LockPollster(t) \/ BroadcastPollster(t) \/ Notify(t)
    BY <2>4 DEF LockPollster, BroadcastPollster, Notify, PollsterFlags
  <2>5. CASE Disable(t)
    BY <2>5 DEF Disable
  <2>6. CASE Unlink(t)
    BY <2>6 DEF Unlink
  <2>7. CASE CloseLib(t)
    BY <2>7 DEF CloseLib
  <2>8. CASE ForgetDecoder(t)
    BY <2>8 DEF ForgetDecoder
  <2> QED BY <2>1, <2>2, <2>3, <2>4, <2>5, <2>6, <2>7, <2>8 DEF StopStep
<1> USE DEF At, CanRun, Goto, Exited, Threads, Stoppers, chainVars, libVars, initVars,
            stopVars, receiverVars, mqttVars, StopStep, AfterStop, CheckStopped, SetStopped,
            CheckLock, LockPollster, BroadcastPollster, Notify, PollsterFlags, Disable, Unlink, CloseLib, ForgetDecoder, IInv, TypeOK
<1>2. StateTypeOK'
  BY DEF StateTypeOK
<1>3. PcTypeOK'
  BY DEF PcTypeOK
<1>4. Started' /\ UsedIsInitialized'
  BY DEF PcTypeOK, Safe, Started, UsedIsInitialized
<1>5. NetworkIsLate' /\ FlagFollowsLink'
  BY DEF PcTypeOK, Safe, NetworkIsLate, FlagFollowsLink, BeforeNetwork
<1> QED BY <1>1, <1>2, <1>3, <1>4, <1>5 DEF Safe

\* The handlers lock and unlock the chain.
LEMMA HandlersStep ==
  ASSUME IInv,
         HandlerStep \/ Locking \/ (\E t \in {"SIGINT", "SIGUSR1"} : Interrupt(t))
  PROVE  IInv'
<1>1. FlagsTypeOK'
  <2> USE Types DEF chainVars, libVars, initVars, stopVars, receiverVars, mqttVars, FlagsTypeOK
  <2>1. CASE PopReceiver
    BY <2>1 DEF PopReceiver
  <2>2. CASE CloseAllReturns
    BY <2>2 DEF CloseAllReturns
  <2>3. CASE PrintStatistics
    BY <2>3 DEF PrintStatistics
  <2>4. CASE Locking
    BY <2>4 DEF Locking, LockChain
  <2>5. CASE \E t \in {"SIGINT", "SIGUSR1"} : Interrupt(t)
    BY <2>5 DEF Interrupt
  <2> QED BY <2>1, <2>2, <2>3, <2>4, <2>5 DEF HandlerStep
<1> USE DEF At, CanRun, Goto, Exited, Threads, Stoppers, chainVars, libVars, initVars,
            stopVars, receiverVars, mqttVars, HandlerStep, PopReceiver, CloseAllReturns,
            PrintStatistics, Locking, LockChain, Interrupt, IInv, TypeOK
<1>2. StateTypeOK'
  <2>1. CASE HandlerStep \/ Locking
    BY <2>1 DEF StateTypeOK
  <2>2. CASE \E t \in {"SIGINT", "SIGUSR1"} : Interrupt(t)
    BY <2>2, LifecycleAssumption DEF StateTypeOK
  <2> QED BY <2>1, <2>2
<1>3. PcTypeOK'
  BY DEF PcTypeOK
<1>4. Started' /\ UsedIsInitialized'
  BY DEF PcTypeOK, Safe, Started, UsedIsInitialized
<1>5. NetworkIsLate' /\ FlagFollowsLink'
  BY DEF PcTypeOK, Safe, NetworkIsLate, FlagFollowsLink, BeforeNetwork
<1> QED BY <1>1, <1>2, <1>3, <1>4, <1>5 DEF Safe

\* The decoder and the pollster end.
LEMMA ThreadsStep ==
  ASSUME IInv, ReadFails \/ EndDecoder \/ Pollster PROVE IInv'
<1>1. FlagsTypeOK'
  <2> USE Types DEF chainVars, libVars, initVars, stopVars, receiverVars, mqttVars, FlagsTypeOK
  <2>1. CASE ReadFails
    BY <2>1 DEF ReadFails
  <2>2. CASE EndDecoder
    BY <2>2 DEF EndDecoder
  <2>3. CASE Pollster
    <3>1. CASE PollW1
      BY <3>1 DEF PollW1
    <3>2. CASE TimedWait
      BY <3>2 DEF TimedWait, PollsterFlags
    <3>3. CASE Wake
      BY <3>3 DEF Wake, PollsterFlags
    <3>4. CASE EndPollster
      BY <3>4 DEF EndPollster
    <3> QED BY <2>3, <3>1, <3>2, <3>3, <3>4 DEF Pollster
  <2> QED BY <2>1, <2>2, <2>3
<1> USE DEF At, CanRun, Goto, Exited, Threads, Stoppers, chainVars, libVars, initVars,
            stopVars, receiverVars, mqttVars, ReadFails, EndDecoder, Pollster, PollW1,
            TimedWait, Wake, EndPollster, PollsterAt, PollsterFlags, IInv, TypeOK
<1>2. StateTypeOK'
  BY DEF StateTypeOK
<1>3. PcTypeOK'
  BY DEF PcTypeOK
<1>4. Started' /\ UsedIsInitialized'
  BY DEF PcTypeOK, Safe, Started, UsedIsInitialized
<1>5. NetworkIsLate' /\ FlagFollowsLink'
  BY DEF PcTypeOK, Safe, NetworkIsLate, FlagFollowsLink, BeforeNetwork
<1> QED BY <1>1, <1>2, <1>3, <1>4, <1>5 DEF Safe

-----------------------------------------------------------------------------
\* No step of any thread breaks the invariant.
LEMMA NextIInv == IInv /\ [Next]_vars => IInv'
<1> SUFFICES ASSUME IInv, [Next]_vars PROVE IInv'
  OBVIOUS
<1>1. CASE EnableReceive
  BY <1>1, EnableReceiveStep
<1>2. CASE Main /\ ~EnableReceive
  BY <1>2, MainStep
<1>3. CASE OnConnect \/ LoseConnection \/ OnDisconnect \/ Reconnect \/ EndNetwork
  BY <1>3, NetworkStep
<1>4. CASE \E t \in Stoppers : StopStep(t) \/ LockPollster(t)
  BY <1>4, StopperStep
<1>5. CASE HandlerStep \/ Locking \/ \E t \in {"SIGINT", "SIGUSR1"} : Interrupt(t)
  BY <1>5, HandlersStep
<1>6. CASE ReadFails \/ EndDecoder \/ Pollster
  BY <1>6, ThreadsStep
<1>7. CASE UNCHANGED vars
  BY <1>7 DEF vars, receiverVars, chainVars, libVars, initVars, stopVars, mqttVars, IInv,
     TypeOK, FlagsTypeOK, StateTypeOK, PcTypeOK, Safe, Started, UsedIsInitialized,
     NetworkIsLate, FlagFollowsLink
<1> QED BY <1>1, <1>2, <1>3, <1>4, <1>5, <1>6, <1>7 DEF Next

\* The invariant always holds.
LEMMA Invariant == Spec => []IInv
BY InitIInv, NextIInv, PTL DEF Spec

\* Flags, chain, connection and threads keep their types, however many signals arrive.
THEOREM TypeCorrect == Spec => []TypeOK
<1>1. IInv => TypeOK
  BY DEF IInv
<1> QED BY <1>1, Invariant, PTL

\* Wherever stop catches enableReceive, no thread locks what is not initialised.
THEOREM NothingUsedEarly == Spec => []UsedIsInitialized
<1>1. IInv => UsedIsInitialized
  BY DEF IInv, Safe
<1> QED BY <1>1, Invariant, PTL

\* The flag of the publisher follows its connection, although two threads write it.
THEOREM FlagCorrect == Spec => []FlagFollowsLink
<1>1. IInv => FlagFollowsLink
  BY DEF IInv, Safe
<1> QED BY <1>1, Invariant, PTL
=============================================================================
