----------------------------- MODULE Lifecycle -----------------------------
(***************************************************************************)
(* How the program starts and how it ends (gpio-ts build): main starts the *)
(* receiver with its threads, the HTTP server and the MQTT publisher, and  *)
(* takes them down again after Receiver::stop, which the handler of SIGINT *)
(* calls on the main thread and the decoder calls when it cannot read.     *)
(*                                                                         *)
(* There is one receiver.  Both handlers of signals run on the main        *)
(* thread, which stands still meanwhile; SIGUSR1 may interrupt the handler *)
(* of SIGINT, the reverse is left out.  waitForMessage is the business of  *)
(* MessageQueue: here main is in its loop until the receiver is stopped.   *)
(*                                                                         *)
(* The pollster neither locks nor unlocks pollsterLock: it gets it from    *)
(* pthread_cond_timedwait and holds it from then on, at its end too.       *)
(*                                                                         *)
(* The thread of libmosquitto is external: it keeps the connection, calls  *)
(* back, and ends only after disconnect was called.                        *)
(***************************************************************************)
EXTENDS Naturals

CONSTANTS
  NONE,                 \* nobody
  MAX_SIGNALS,          \* bound: number of signals
  StatisticsAnywhere    \* FALSE: no SIGUSR1 while the handler of SIGINT holds the mutex

ASSUME LifecycleAssumption ==
  /\ MAX_SIGNALS \in Nat
  /\ StatisticsAnywhere \in BOOLEAN

VARIABLES
  inChain,              \* the receiver is in the chain that begins with `first`
  receivers_chain_mutex,
  isLibInitialized,
  handlers,             \* the handlers of signals are installed
  initialized,          \* the locks and the descriptor that can be used
  isMessageQueueInitialized, isPollsterStarted, isDecoderStarted, isEnabled,
  stopped, stopDecoder, stopPollster,
  pollsterLock,         \* who holds it
  instance,             \* there is an MqttPublisher
  connected,
  link,                 \* the connection of libmosquitto
  disconnecting,        \* disconnect was called
  signals,
  pc

chainVars == <<inChain, receivers_chain_mutex>>
libVars == <<isLibInitialized, handlers>>
initVars == <<initialized, isMessageQueueInitialized, isPollsterStarted>>
stopVars == <<isDecoderStarted, isEnabled, stopped, stopDecoder, stopPollster, pollsterLock>>
receiverVars == <<chainVars, libVars, initVars, stopVars>>
mqttVars == <<instance, connected, link, disconnecting>>
vars == <<receiverVars, mqttVars, signals, pc>>

Stoppers == {"SIGINT", "decoder"}
Threads == Stoppers \cup {"main", "SIGUSR1", "pollster", "network"}

FlagsTypeOK ==
  /\ inChain \in BOOLEAN /\ isLibInitialized \in BOOLEAN /\ handlers \in BOOLEAN
  /\ isMessageQueueInitialized \in BOOLEAN /\ isPollsterStarted \in BOOLEAN
  /\ isDecoderStarted \in BOOLEAN /\ isEnabled \in BOOLEAN /\ stopped \in BOOLEAN
  /\ stopDecoder \in BOOLEAN /\ stopPollster \in BOOLEAN
  /\ instance \in BOOLEAN /\ connected \in BOOLEAN /\ disconnecting \in BOOLEAN

StateTypeOK ==
  /\ receivers_chain_mutex \in Stoppers \cup {"SIGUSR1", NONE}
  /\ pollsterLock \in Stoppers \cup {"pollster", NONE}
  /\ initialized \subseteq {"fd", "messageQueueLock", "pollsterLock"}
  /\ link \in {"none", "connecting", "up", "lost", "down"}
  /\ signals \in 0 .. MAX_SIGNALS

\* The labels of main, of stop and closeAll, and of the other threads
PcTypeOK ==
  /\ DOMAIN pc = Threads
  /\ pc["main"] \in {"initLib", "open", "initQueue", "queueFlag", "startDecoder", "initPollster",
                     "pollsterFlag", "startPollster", "enable", "httpd", "connect",
                     "setConnected", "loopStart", "timer", "loop", "destroy",
                     "stopPublisher", "join", "delete", "stopHttpd", "exited"}
  /\ \A t \in Stoppers :
       pc[t] \in {"idle", "work", "closeAll", "pop", "stop", "mark", "checkPollster",
                  "lockPollster", "broadcastPollster", "disable", "close", "unlink", "closeLib", "endDecoder",
                  "checkQueue", "notify", "return", "done"}
  /\ pc["SIGUSR1"] \in {"idle", "lock", "print"}
  /\ pc["pollster"] \in {"idle", "work", "timedwait", "waiting", "done"}
  /\ pc["network"] \in {"idle", "work", "done"}

\* Every flag, the chain and the connection have their values, every thread its labels.
TypeOK == FlagsTypeOK /\ StateTypeOK /\ PcTypeOK

\* The constructor of Receiver has linked it to the chain.
Init ==
  /\ inChain = TRUE
  /\ receivers_chain_mutex = NONE
  /\ isLibInitialized = FALSE /\ handlers = FALSE
  /\ initialized = {}
  /\ isMessageQueueInitialized = FALSE /\ isPollsterStarted = FALSE
  /\ isDecoderStarted = FALSE /\ isEnabled = FALSE
  /\ stopped = FALSE /\ stopDecoder = FALSE /\ stopPollster = FALSE
  /\ pollsterLock = NONE
  /\ instance = FALSE /\ connected = FALSE /\ link = "none" /\ disconnecting = FALSE
  /\ signals = 0
  /\ pc = [t \in Threads |-> IF t = "main" THEN "initLib" ELSE "idle"]

Exited == pc["main"] = "exited"

\* main goes on unless a handler of signals runs on its thread, the handler of SIGINT
\* unless that of SIGUSR1 does; the exit of main ends all threads.
CanRun(t) ==
  /\ ~Exited
  /\ t = "main" => pc["SIGINT"] = "idle"
  /\ t \in {"main", "SIGINT"} => pc["SIGUSR1"] = "idle"

At(t, label) == CanRun(t) /\ pc[t] = label

Goto(t, label) == pc' = [pc EXCEPT ![t] = label]

\* main creates a thread and goes on.
Start(t, label) == pc' = [pc EXCEPT !["main"] = label, ![t] = "work"]

-----------------------------------------------------------------------------
(* Receiver::enableReceive, on the main thread                             *)

InitLib ==
  /\ At("main", "initLib")
  /\ isLibInitialized' = TRUE /\ handlers' = TRUE
  /\ Goto("main", "open")
  /\ UNCHANGED <<chainVars, initVars, stopVars, mqttVars, signals>>

\* enableReceive exits when the driver does not open.
OpenDevice ==
  /\ At("main", "open")
  /\ \/ initialized' = initialized \cup {"fd"} /\ Goto("main", "initQueue")
     \/ UNCHANGED initialized /\ Goto("main", "exited")
  /\ UNCHANGED <<chainVars, libVars, isMessageQueueInitialized, isPollsterStarted, stopVars,
                 mqttVars, signals>>

\* The lock is initialised before the flag says so.
InitMessageQueue ==
  /\ \/ /\ At("main", "initQueue")
        /\ isDecoderStarted' = TRUE
        /\ initialized' = initialized \cup {"messageQueueLock"}
        /\ UNCHANGED isMessageQueueInitialized
        /\ Goto("main", "queueFlag")
     \/ /\ At("main", "queueFlag")
        /\ isMessageQueueInitialized' = TRUE
        /\ UNCHANGED <<initialized, isDecoderStarted>>
        /\ Goto("main", "startDecoder")
  /\ UNCHANGED <<chainVars, libVars, isPollsterStarted, isEnabled, stopped, stopDecoder,
                 stopPollster, pollsterLock, mqttVars, signals>>

\* There is a pollster if the configuration asks for one.
StartDecoder ==
  /\ At("main", "startDecoder")
  /\ \E label \in {"initPollster", "enable"} : Start("decoder", label)
  /\ UNCHANGED <<receiverVars, mqttVars, signals>>

\* Mutant for UsedIsInitialized: the flag is set before the lock is initialised.
InitPollsterMutant ==
  /\ \/ /\ At("main", "initPollster")
        /\ isPollsterStarted' = TRUE
        /\ UNCHANGED initialized
        /\ Goto("main", "pollsterFlag")
     \/ /\ At("main", "pollsterFlag")
        /\ initialized' = initialized \cup {"pollsterLock"}
        /\ UNCHANGED isPollsterStarted
        /\ Goto("main", "startPollster")
  /\ UNCHANGED <<chainVars, libVars, isMessageQueueInitialized, stopVars, mqttVars, signals>>

InitPollster ==
  /\ \/ /\ At("main", "initPollster")
        /\ initialized' = initialized \cup {"pollsterLock"}
        /\ UNCHANGED isPollsterStarted
        /\ Goto("main", "pollsterFlag")
     \/ /\ At("main", "pollsterFlag")
        /\ isPollsterStarted' = TRUE
        /\ UNCHANGED initialized
        /\ Goto("main", "startPollster")
  /\ UNCHANGED <<chainVars, libVars, isMessageQueueInitialized, stopVars, mqttVars, signals>>

StartPollster ==
  /\ At("main", "startPollster")
  /\ Start("pollster", "enable")
  /\ UNCHANGED <<receiverVars, mqttVars, signals>>

\* isEnabled is set last, also when the receiver has been stopped meanwhile.
Enable ==
  /\ At("main", "enable")
  /\ isEnabled' = TRUE
  /\ Goto("main", "httpd")
  /\ UNCHANGED <<chainVars, libVars, initVars, isDecoderStarted, stopped, stopDecoder,
                 stopPollster, pollsterLock, mqttVars, signals>>

EnableReceive ==
  \/ InitLib \/ OpenDevice \/ InitMessageQueue \/ StartDecoder
  \/ InitPollster \/ StartPollster \/ Enable

-----------------------------------------------------------------------------
(* main: from HTTPD::start to the exit                                     *)

\* HTTPD::start returns an object also when the port cannot be opened, so that main
\* goes on in any case, with the publisher if the configuration has one.
StartHttpd ==
  /\ At("main", "httpd")
  /\ \E label \in {"connect", "timer"} : Goto("main", label)
  /\ UNCHANGED <<receiverVars, mqttVars, signals>>

\* MqttPublisher::start connects before there is a thread that calls back; main exits
\* when the broker cannot be reached.
Connect(label) ==
  /\ At("main", "connect")
  /\ instance' = TRUE
  /\ \/ link' = "connecting" /\ Goto("main", label)
     \/ UNCHANGED link /\ Goto("main", "exited")
  /\ UNCHANGED <<receiverVars, connected, disconnecting, signals>>

SetConnected(label) ==
  /\ At("main", "setConnected")
  /\ connected' = TRUE
  /\ Goto("main", label)
  /\ UNCHANGED <<receiverVars, instance, link, disconnecting, signals>>

LoopStart(label) ==
  /\ At("main", "loopStart")
  /\ Start("network", label)
  /\ UNCHANGED <<receiverVars, mqttVars, signals>>

\* Mutant for FlagFollowsLink: the flag is set when the thread runs already.
StartPublisherMutant ==
  Connect("loopStart") \/ LoopStart("setConnected") \/ SetConnected("timer")

StartPublisher ==
  Connect("setConnected") \/ SetConnected("loopStart") \/ LoopStart("timer")

\* If statistics are wanted, setTimer calls initLib, which opens the library again when
\* stop has closed it.
SetTimer ==
  /\ At("main", "timer")
  /\ isLibInitialized' = TRUE \/ UNCHANGED isLibInitialized
  /\ Goto("main", "loop")
  /\ UNCHANGED <<chainVars, handlers, initVars, stopVars, mqttVars, signals>>

LeaveLoop ==
  /\ At("main", "loop")
  /\ stopped
  /\ Goto("main", "destroy")
  /\ UNCHANGED <<receiverVars, mqttVars, signals>>

\* MqttPublisher::destroy stops the publisher only if it is connected ...
DestroyPublisher ==
  /\ At("main", "destroy")
  /\ instance' = FALSE
  /\ Goto("main", CASE ~instance -> "stopHttpd"
                    [] instance /\ connected -> "stopPublisher"
                    [] OTHER -> "delete")
  /\ UNCHANGED <<receiverVars, connected, link, disconnecting, signals>>

\* ... and stop looks again whether it has to disconnect.
StopPublisher ==
  /\ At("main", "stopPublisher")
  /\ disconnecting' = (disconnecting \/ connected)
  /\ Goto("main", "join")
  /\ UNCHANGED <<receiverVars, instance, connected, link, signals>>

\* loop_stop waits for the thread.
JoinNetwork ==
  /\ At("main", "join")
  /\ pc["network"] = "done"
  /\ Goto("main", "delete")
  /\ UNCHANGED <<receiverVars, mqttVars, signals>>

\* The destructor stops a publisher that has connected meanwhile; that of the base
\* class cancels a thread that is still running.
DeletePublisher ==
  /\ At("main", "delete")
  /\ IF connected
     THEN Goto("main", "stopPublisher") /\ UNCHANGED link
     ELSE pc' = [pc EXCEPT !["main"] = "stopHttpd", !["network"] = "done"] /\ link' = "none"
  /\ UNCHANGED <<receiverVars, instance, connected, disconnecting, signals>>

\* HTTPD::destroy, and the exit that ends all threads that are left
StopHttpd ==
  /\ At("main", "stopHttpd")
  /\ Goto("main", "exited")
  /\ UNCHANGED <<receiverVars, mqttVars, signals>>

Main ==
  \/ EnableReceive \/ StartHttpd \/ StartPublisher \/ SetTimer \/ LeaveLoop
  \/ DestroyPublisher \/ StopPublisher \/ JoinNetwork \/ DeletePublisher \/ StopHttpd

-----------------------------------------------------------------------------
(* The thread of libmosquitto, and the callbacks of MqttPublisher          *)

Network == pc["network"] = "work" /\ ~Exited

\* Mutant for TypeOK: a refusal leaves a state of the connection that nothing goes on from.
OnConnectMutant ==
  /\ Network /\ ~disconnecting
  /\ link = "connecting"
  /\ \/ link' = "up" /\ connected' = TRUE
     \/ link' = "refused" /\ UNCHANGED connected
  /\ UNCHANGED <<receiverVars, instance, disconnecting, signals, pc>>

\* on_connect sets the flag unless the broker has refused.
OnConnect ==
  /\ Network /\ ~disconnecting
  /\ link = "connecting"
  /\ \/ link' = "up" /\ connected' = TRUE
     \/ link' = "lost" /\ UNCHANGED connected
  /\ UNCHANGED <<receiverVars, instance, disconnecting, signals, pc>>

LoseConnection ==
  /\ Network
  /\ link = "up"
  /\ link' = "lost"
  /\ UNCHANGED <<receiverVars, instance, connected, disconnecting, signals, pc>>

OnDisconnect ==
  /\ Network
  /\ \/ link = "lost"
     \/ disconnecting /\ link \in {"connecting", "up"}
  /\ link' = "down"
  /\ connected' = FALSE
  /\ UNCHANGED <<receiverVars, instance, disconnecting, signals, pc>>

Reconnect ==
  /\ Network /\ ~disconnecting
  /\ link = "down"
  /\ link' = "connecting"
  /\ UNCHANGED <<receiverVars, instance, connected, disconnecting, signals, pc>>

EndNetwork ==
  /\ Network /\ disconnecting
  /\ link = "down"
  /\ Goto("network", "done")
  /\ UNCHANGED <<receiverVars, mqttVars, signals>>

-----------------------------------------------------------------------------
(* Receiver::stop, on the main thread for SIGINT and on that of the decoder *)

\* Before the handlers are installed a signal ends the program at once.
Interrupt(t) ==
  /\ handlers
  /\ CanRun(IF t = "SIGINT" THEN "main" ELSE "SIGINT")
  /\ pc[t] = "idle"
  /\ (t = "SIGUSR1" /\ receivers_chain_mutex = "SIGINT") => StatisticsAnywhere
  /\ signals < MAX_SIGNALS
  /\ signals' = signals + 1
  /\ Goto(t, IF t = "SIGINT" THEN "closeAll" ELSE "lock")
  /\ UNCHANGED <<receiverVars, mqttVars>>

\* receivers_chain_mutex.lock in closeAll, close and the handler of SIGUSR1
LockChain(t, at, label) ==
  /\ At(t, at)
  /\ receivers_chain_mutex = NONE
  /\ receivers_chain_mutex' = t
  /\ Goto(t, label)
  /\ UNCHANGED <<inChain, libVars, initVars, stopVars, mqttVars, signals>>

PrintStatistics ==
  /\ At("SIGUSR1", "print")
  /\ receivers_chain_mutex' = NONE
  /\ Goto("SIGUSR1", "idle")
  /\ UNCHANGED <<inChain, libVars, initVars, stopVars, mqttVars, signals>>

\* Mutant for StopEndsProgram: the receiver is stopped with the chain still locked.
PopReceiverMutant ==
  /\ At("SIGINT", "pop")
  /\ inChain' = FALSE
  /\ receivers_chain_mutex' = IF inChain THEN "SIGINT" ELSE NONE
  /\ Goto("SIGINT", IF inChain THEN "stop" ELSE "return")
  /\ UNCHANGED <<libVars, initVars, stopVars, mqttVars, signals>>

\* closeAll takes the receivers out of the chain one by one and stops each.
PopReceiver ==
  /\ At("SIGINT", "pop")
  /\ inChain' = FALSE
  /\ receivers_chain_mutex' = NONE
  /\ Goto("SIGINT", IF inChain THEN "stop" ELSE "return")
  /\ UNCHANGED <<libVars, initVars, stopVars, mqttVars, signals>>

\* closeAll ends with closeLib.
CloseAllReturns ==
  /\ At("SIGINT", "return")
  /\ isLibInitialized' = FALSE
  /\ Goto("SIGINT", "idle")
  /\ UNCHANGED <<chainVars, handlers, initVars, stopVars, mqttVars, signals>>

\* readSequences has failed, or stopDecoder is set.
ReadFails ==
  /\ At("decoder", "work")
  /\ ~stopDecoder
  /\ Goto("decoder", "stop")
  /\ UNCHANGED <<receiverVars, mqttVars, signals>>

EndDecoder ==
  /\ ~Exited
  /\ pc["decoder"] = "return" \/ (pc["decoder"] = "work" /\ stopDecoder)
  /\ isDecoderStarted' = FALSE
  /\ Goto("decoder", "done")
  /\ UNCHANGED <<chainVars, libVars, initVars, isEnabled, stopped, stopDecoder, stopPollster,
                 pollsterLock, mqttVars, signals>>

PollsterAt(label) == ~Exited /\ pc["pollster"] = label

PollsterFlags == <<isDecoderStarted, isEnabled, stopped, stopDecoder, stopPollster>>

PollW1 ==
  /\ PollsterAt("work")
  /\ ~stopPollster
  /\ Goto("pollster", "timedwait")
  /\ UNCHANGED <<receiverVars, mqttVars, signals>>

\* pthread_cond_timedwait unlocks pollsterLock whoever holds it: in the first round
\* that is not the pollster.
TimedWait ==
  /\ PollsterAt("timedwait")
  /\ pollsterLock' = NONE
  /\ Goto("pollster", "waiting")
  /\ UNCHANGED <<chainVars, libVars, initVars, PollsterFlags, mqttVars, signals>>

\* It returns with the lock, after a timeout, a broadcast, or without a reason.
Wake ==
  /\ PollsterAt("waiting")
  /\ pollsterLock = NONE /\ pollsterLock' = "pollster"
  /\ Goto("pollster", "work")
  /\ UNCHANGED <<chainVars, libVars, initVars, PollsterFlags, mqttVars, signals>>

\* pthread_cond_timedwait may fail without the lock.  The flag that is cleared is the
\* decoder's, and the lock is not released.
EndPollster ==
  /\ \/ PollsterAt("work") /\ stopPollster
     \/ PollsterAt("timedwait") /\ pollsterLock # "pollster"
  /\ isDecoderStarted' = FALSE
  /\ Goto("pollster", "done")
  /\ UNCHANGED <<chainVars, libVars, initVars, isEnabled, stopped, stopDecoder, stopPollster,
                 pollsterLock, mqttVars, signals>>

Pollster == PollW1 \/ TimedWait \/ Wake \/ EndPollster

AfterStop(t) == IF t = "SIGINT" THEN "closeAll" ELSE "return"

\* The check and the assignment are two steps: both stoppers may pass.
CheckStopped(t) ==
  /\ At(t, "stop")
  /\ Goto(t, IF stopped THEN AfterStop(t) ELSE "mark")
  /\ UNCHANGED <<receiverVars, mqttVars, signals>>

SetStopped(t) ==
  /\ At(t, "mark")
  /\ stopped' = TRUE /\ stopPollster' = TRUE
  /\ Goto(t, "checkPollster")
  /\ UNCHANGED <<chainVars, libVars, initVars, isDecoderStarted, isEnabled, stopDecoder,
                 pollsterLock, mqttVars, signals>>

\* Wakes the pollster, and at the end of stop the main loop, if their locks are said to
\* be initialised.
CheckLock(t) ==
  /\ \/ /\ At(t, "checkPollster")
        /\ Goto(t, IF isPollsterStarted THEN "lockPollster" ELSE "disable")
     \/ /\ At(t, "checkQueue")
        /\ Goto(t, IF isMessageQueueInitialized THEN "notify" ELSE AfterStop(t))
  /\ UNCHANGED <<receiverVars, mqttVars, signals>>

LockPollster(t) ==
  /\ At(t, "lockPollster")
  /\ pollsterLock = NONE /\ pollsterLock' = t
  /\ Goto(t, "broadcastPollster")
  /\ UNCHANGED <<chainVars, libVars, initVars, PollsterFlags, mqttVars, signals>>

BroadcastPollster(t) ==
  /\ At(t, "broadcastPollster")
  /\ pollsterLock' = NONE
  /\ Goto(t, "disable")
  /\ UNCHANGED <<chainVars, libVars, initVars, PollsterFlags, mqttVars, signals>>

Notify(t) ==
  /\ At(t, "notify")
  /\ Goto(t, AfterStop(t))
  /\ UNCHANGED <<receiverVars, mqttVars, signals>>

\* pause, unless enableReceive has not finished or the library is closed already.  The
\* descriptor is not closed: disableReceive looks at a local variable of the same name.
Disable(t) ==
  /\ At(t, "disable")
  /\ IF isLibInitialized /\ isEnabled
     THEN isEnabled' = FALSE /\ stopDecoder' = TRUE /\ Goto(t, "close")
     ELSE UNCHANGED <<isEnabled, stopDecoder>> /\ Goto(t, "checkQueue")
  /\ UNCHANGED <<chainVars, libVars, initVars, isDecoderStarted, stopped, stopPollster,
                 pollsterLock, mqttVars, signals>>

\* close: the nested stop returns at once
Unlink(t) ==
  /\ At(t, "unlink")
  /\ inChain' = FALSE
  /\ receivers_chain_mutex' = NONE
  /\ Goto(t, IF inChain THEN "closeLib" ELSE "endDecoder")
  /\ UNCHANGED <<libVars, initVars, stopVars, mqttVars, signals>>

CloseLib(t) ==
  /\ At(t, "closeLib")
  /\ isLibInitialized' = FALSE
  /\ Goto(t, "endDecoder")
  /\ UNCHANGED <<chainVars, handlers, initVars, stopVars, mqttVars, signals>>

ForgetDecoder(t) ==
  /\ At(t, "endDecoder")
  /\ isDecoderStarted' = FALSE
  /\ stopDecoder' = (stopDecoder \/ isDecoderStarted)
  /\ Goto(t, "checkQueue")
  /\ UNCHANGED <<chainVars, libVars, initVars, isEnabled, stopped, stopPollster,
                 pollsterLock, mqttVars, signals>>

StopStep(t) ==
  \/ CheckStopped(t) \/ SetStopped(t) \/ CheckLock(t) \/ BroadcastPollster(t)
  \/ Notify(t) \/ Disable(t) \/ Unlink(t) \/ CloseLib(t) \/ ForgetDecoder(t)

HandlerStep == PopReceiver \/ CloseAllReturns \/ PrintStatistics

Locking ==
  \/ LockChain("SIGINT", "closeAll", "pop")
  \/ \E t \in Stoppers : LockChain(t, "close", "unlink")
  \/ LockChain("SIGUSR1", "lock", "print")

-----------------------------------------------------------------------------
Next ==
  \/ Main
  \/ OnConnect \/ LoseConnection \/ OnDisconnect \/ Reconnect \/ EndNetwork
  \/ \E t \in {"SIGINT", "SIGUSR1"} : Interrupt(t)
  \/ \E t \in Stoppers : StopStep(t) \/ LockPollster(t)
  \/ HandlerStep \/ Locking
  \/ ReadFails \/ EndDecoder \/ Pollster

\* Every thread goes on with what it has begun.  That a mutex is got when it stays free
\* is enough: signals are bounded, and the pollster is told to stop before its mutex is
\* locked.  Its waiting ends after 15 s; libmosquitto calls back and ends its loop when
\* asked to.  Nothing makes a read fail, a signal arrive, a connection break or be made
\* again.
Fairness ==
  /\ WF_vars(Main)
  /\ \A t \in Stoppers :
       WF_vars(StopStep(t) \/ LockPollster(t) \/ LockChain(t, "close", "unlink"))
  /\ WF_vars(HandlerStep)
  /\ WF_vars(LockChain("SIGINT", "closeAll", "pop"))
  /\ WF_vars(LockChain("SIGUSR1", "lock", "print"))
  /\ WF_vars(Pollster)
  /\ WF_vars(OnDisconnect \/ EndNetwork)

Spec == Init /\ [][Next]_vars /\ Fairness

-----------------------------------------------------------------------------
(* Properties                                                              *)

\* No thread touches a lock or the descriptor that is not initialised yet, at whatever
\* point of enableReceive the receiver is stopped: the flags that stop relies on are
\* set after, and the threads started after, what they use.
UsedIsInitialized ==
  /\ \A t \in Stoppers :
       /\ pc[t] \in {"lockPollster", "broadcastPollster"} => "pollsterLock" \in initialized
       /\ pc[t] = "notify" => "messageQueueLock" \in initialized
  /\ pc["decoder"] = "work" => {"fd", "messageQueueLock"} \subseteq initialized
  /\ pc["pollster"] \notin {"idle", "done"} => {"pollsterLock", "messageQueueLock"} \subseteq initialized
  /\ pc["main"] = "loop" => "messageQueueLock" \in initialized

\* The flag that decides whether rules publish follows the connection: once the library
\* has called back, it is set with a connection and cleared without one, although
\* MqttPublisher::start sets it on another thread.
FlagFollowsLink ==
  /\ link = "up" => connected
  /\ link = "down" => ~connected

\* A connection that breaks between the check of destroy and the one of stop is not
\* disconnected, and loop_stop waits for a thread that goes on connecting.
LoopStopHangs == pc["main"] = "join" /\ ~disconnecting

\* stop waits for the mutex that the pollster has taken to its end.
PollsterLockLost ==
  /\ pc["pollster"] = "done" /\ pollsterLock = "pollster"
  /\ \E t \in Stoppers : pc[t] = "lockPollster"

\* Receiver::stop ends the program, at whatever point of its start it comes, from the
\* signal, the decoder or both, with the two exceptions just named.
StopEndsProgram == stopped ~> (Exited \/ LoopStopHangs \/ PollsterLockLost)
=============================================================================
