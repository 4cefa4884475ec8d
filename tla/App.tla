-------------------------------- MODULE App --------------------------------
(* The demonstration application: application_start waits for the WiFi     *)
(* station, of which the notification handler tells it, and starts the MQTT *)
(* thread; that thread connects, subscribes, and yields and publishes for  *)
(* ever.  The client is the one of Session, with automatic reconnection and *)
(* its back-off.                                                           *)
EXTENDS Naturals

CONSTANTS
  MinWait, MaxWait  \* MQTT_MIN_ and MQTT_MAX_RECONNECT_WAIT_INTERVAL, ms

ASSUME WaitAssumption == MinWait \in Nat \ {0} /\ MaxWait \in Nat /\ MinWait <= MaxWait

VARIABLES
  main,      \* where application_start is
  wait_sem,  \* null before it is initialised, its value, and deleted
  registered,\* the notification handler is
  notifier,  \* where the thread that notifies is in the handler
  station,   \* the WiFi station is up
  mqtt,      \* where the MQTT thread is
  phase,     \* of its connection, as in Session
  open,      \* its descriptor is open
  currentReconnectWaitInterval

startVars == <<main, wait_sem, registered, notifier, station>>
mqttVars == <<mqtt, phase, open, currentReconnectWaitInterval>>
vars == <<startVars, mqttVars>>

----------------------------------------------------------------------------
(* application_start.  An error goes on with the clean-up.                 *)

InitSemaphore ==
  /\ main = "init"
  /\ wait_sem' = "empty"
  /\ main' = "register"
  /\ UNCHANGED <<registered, notifier, station, mqttVars>>

Register ==
  /\ main = "register"
  /\ \/ registered' = TRUE /\ main' = "system"
     \/ registered' = FALSE /\ main' = "remove"
  /\ UNCHANGED <<wait_sem, notifier, station, mqttVars>>

(* Mutant: the semaphore is made empty once more before the wait.          *)
SystemInitResets ==
  /\ main = "system"
  /\ main' = "wait" /\ wait_sem' = "empty"
  /\ UNCHANGED <<registered, notifier, station, mqttVars>>

(* The station may come up before it returns.                              *)
SystemInit ==
  /\ main = "system"
  /\ main' \in {"wait", "remove"}
  /\ UNCHANGED <<wait_sem, registered, notifier, station, mqttVars>>

Wait ==
  /\ main = "wait" /\ wait_sem = "set"
  /\ wait_sem' = "empty"
  /\ main' = "start"
  /\ UNCHANGED <<registered, notifier, station, mqttVars>>

(* Nobody looks whether there was memory for the thread.                   *)
Start ==
  /\ main = "start"
  /\ mqtt' \in {"connect", "none"}
  /\ main' = "remove"
  /\ UNCHANGED <<wait_sem, registered, notifier, station, phase, open, currentReconnectWaitInterval>>

(* Mutant: the handler is left registered.                                 *)
RemoveForgotten ==
  /\ main = "remove"
  /\ main' = "deinit"
  /\ UNCHANGED <<wait_sem, registered, notifier, station, mqttVars>>

Remove ==
  /\ main = "remove"
  /\ registered' = FALSE
  /\ main' = "deinit"
  /\ UNCHANGED <<wait_sem, notifier, station, mqttVars>>

Deinit ==
  /\ main = "deinit"
  /\ wait_sem' = "deleted"
  /\ main' = "gone"
  /\ UNCHANGED <<registered, notifier, station, mqttVars>>

----------------------------------------------------------------------------
(* The station comes up and goes down once the system is being initialised, *)
(* and the system's thread runs micoNotify_WifiStatusHandler.              *)

StationUp ==
  /\ main \notin {"init", "register"} /\ ~station /\ notifier = "idle"
  /\ station' = TRUE
  /\ notifier' = IF registered THEN "test" ELSE "idle"
  /\ UNCHANGED <<main, wait_sem, registered, mqttVars>>

StationDown ==
  /\ station
  /\ station' = FALSE
  /\ UNCHANGED <<main, wait_sem, registered, notifier, mqttVars>>

NotifyTest ==
  /\ notifier = "test"
  /\ notifier' = IF wait_sem # "null" THEN "set" ELSE "idle"
  /\ UNCHANGED <<main, wait_sem, registered, station, mqttVars>>

(* A deleted semaphore may be set: its effect is taken to be none.         *)
NotifySet ==
  /\ notifier = "set"
  /\ wait_sem' = IF wait_sem = "deleted" THEN "deleted" ELSE "set"
  /\ notifier' = "idle"
  /\ UNCHANGED <<main, registered, station, mqttVars>>

----------------------------------------------------------------------------
(* mqtt_sub_pub_main.  An error before the loop ends the thread; nothing   *)
(* is disconnected then.                                                   *)

Connect ==
  /\ mqtt = "connect"
  /\ \/ mqtt' = "connecting" /\ phase' = "connecting" /\ open' = TRUE
     \/ mqtt' = "exited" /\ phase' = "failed" /\ open' = FALSE
  /\ UNCHANGED <<startVars, currentReconnectWaitInterval>>

ConnectReturns ==
  /\ mqtt = "connecting"
  /\ \/ mqtt' = "subscribe" /\ phase' = "connected" /\ UNCHANGED open
     \/ mqtt' = "exited" /\ phase' = "failed" /\ open' = FALSE
  /\ UNCHANGED <<startVars, currentReconnectWaitInterval>>

Subscribe ==
  /\ mqtt = "subscribe"
  /\ mqtt' \in {"yield", "exited"}
  /\ UNCHANGED <<startVars, phase, open, currentReconnectWaitInterval>>

Yield ==
  /\ mqtt = "yield"
  /\ mqtt' = "yielding"
  /\ UNCHANGED <<startVars, phase, open, currentReconnectWaitInterval>>

(* Its time is up, or it gave up: an error changes nothing in the loop,    *)
(* and the commented-out continue would have skipped the publish.          *)
YieldReturns ==
  /\ mqtt = "yielding"
  /\ mqtt' = "publish"
  /\ UNCHANGED <<startVars, phase, open, currentReconnectWaitInterval>>

(* With QoS0, and only if there is something to publish.                   *)
Publish ==
  /\ mqtt = "publish"
  /\ mqtt' = "yield"
  /\ UNCHANGED <<startVars, phase, open, currentReconnectWaitInterval>>

----------------------------------------------------------------------------
(* What mqtt_yield does meanwhile.                                         *)

Lose ==
  /\ mqtt = "yielding" /\ phase = "connected"
  /\ mqtt' = "handler" /\ phase' = "lost" /\ open' = FALSE
  /\ UNCHANGED <<startVars, currentReconnectWaitInterval>>

(* Mutant: the handler reconnects, whoever else will.                      *)
DisconnectHandlerBlind ==
  /\ mqtt = "handler"
  /\ mqtt' = "connecting" /\ phase' = "connecting" /\ open' = TRUE
  /\ UNCHANGED <<startVars, currentReconnectWaitInterval>>

(* disconnectCallbackHandler leaves the reconnection to the client, which  *)
(* goes on with the first delay.                                           *)
DisconnectHandler ==
  /\ mqtt = "handler"
  /\ mqtt' = "yielding" /\ phase' = "waiting"
  /\ currentReconnectWaitInterval' = MinWait
  /\ UNCHANGED <<startVars, open>>

GaveUp == phase = "waiting" /\ currentReconnectWaitInterval > MaxWait

(* Mutant: the delay is not doubled.                                       *)
LaterConstant == UNCHANGED currentReconnectWaitInterval

Later == currentReconnectWaitInterval' = 2 * currentReconnectWaitInterval

(* Mutant: yield tries again although the client gave up.                  *)
ReconnectAgain ==
  /\ mqtt = "yielding" /\ phase = "waiting" /\ station
  /\ mqtt' = "reconnecting" /\ phase' = "connecting" /\ open' = TRUE
  /\ UNCHANGED <<startVars, currentReconnectWaitInterval>>

(* The delay is over.  Without a station there is no attempt to make.      *)
Reconnect ==
  /\ mqtt = "yielding" /\ phase = "waiting" /\ ~GaveUp
  /\ \/ station /\ mqtt' = "reconnecting" /\ phase' = "connecting" /\ open' = TRUE
                /\ UNCHANGED currentReconnectWaitInterval
     \/ station /\ mqtt' = "later" /\ phase' = "failed"
                /\ UNCHANGED <<open, currentReconnectWaitInterval>>
     \/ ~station /\ Later /\ UNCHANGED <<mqtt, phase, open>>
  /\ UNCHANGED startVars

(* The broker answers, or not.  The delay is doubled too when only the     *)
(* topics could not be subscribed again.                                   *)
ReconnectReturns ==
  /\ mqtt = "reconnecting"
  /\ \/ /\ mqtt' = "yielding" /\ phase' = "connected"
        /\ Later \/ UNCHANGED currentReconnectWaitInterval
        /\ UNCHANGED open
     \/ /\ mqtt' = "later" /\ phase' = "failed" /\ open' = FALSE
        /\ UNCHANGED currentReconnectWaitInterval
  /\ UNCHANGED startVars

ReconnectFailed ==
  /\ mqtt = "later"
  /\ mqtt' = "yielding" /\ phase' = "waiting"
  /\ Later
  /\ UNCHANGED <<startVars, open>>

----------------------------------------------------------------------------
Init ==
  /\ main = "init" /\ wait_sem = "null" /\ registered = FALSE
  /\ notifier = "idle" /\ station = FALSE
  /\ mqtt = "none" /\ phase = "fresh" /\ open = FALSE /\ currentReconnectWaitInterval = MinWait

Main == InitSemaphore \/ Register \/ SystemInit \/ Wait \/ Start \/ Remove \/ Deinit

Notify == NotifyTest \/ NotifySet

Mqtt == \/ Connect \/ ConnectReturns \/ Subscribe \/ Yield \/ YieldReturns \/ Publish
        \/ DisconnectHandler \/ Reconnect \/ ReconnectReturns \/ ReconnectFailed

Next == Main \/ StationUp \/ StationDown \/ Notify \/ Mqtt \/ Lose

Spec == Init /\ [][Next]_vars

(* Threads run, and the loop comes back to yield until the delay is over.  *)
Fairness == WF_vars(Main) /\ WF_vars(Notify) /\ WF_vars(Mqtt) /\ SF_vars(Reconnect)

FairSpec == Spec /\ Fairness

----------------------------------------------------------------------------
(* Correctness.                                                            *)

(* Every variable has its type, and the semaphore lives from before the    *)
(* handler is registered until after it is removed.                        *)
AppTypeOK ==
  /\ main \in {"init", "register", "system", "wait", "start", "remove", "deinit", "gone"}
  /\ wait_sem \in {"null", "empty", "set", "deleted"}
  /\ registered \in BOOLEAN /\ station \in BOOLEAN /\ open \in BOOLEAN
  /\ notifier \in {"idle", "test", "set"}
  /\ mqtt \in {"none", "connect", "connecting", "subscribe", "yield", "yielding", "handler",
               "reconnecting", "later", "publish", "exited"}
  /\ currentReconnectWaitInterval \in Nat
  /\ registered => wait_sem \in {"empty", "set"}

ControlOf ==
  IF mqtt \in {"connecting", "yielding", "reconnecting", "later"} THEN "library" ELSE "application"

Lifecycle == INSTANCE Session WITH auto <- TRUE, control <- ControlOf

(* The application uses the client as Session says: it connects once, and  *)
(* leaves every reconnection, also in its disconnect handler, to yield, so *)
(* that no connection is made over another one.                            *)
AppKeepsSession == Lifecycle!SessionSpec

(* A station that comes up at any time after the start is not missed:      *)
(* application_start gets to its end, the MQTT thread made or not.         *)
StationSeen == station /\ registered ~> main = "gone"

(* A lost connection is made again, or the client gives up.                *)
LossSettled == phase = "lost" ~> phase = "connected" \/ GaveUp

(* No call the loop makes brings back a client that gave up, though the    *)
(* station is there again: the back-off went on while it was not.          *)
GivenUpForGood == [][GaveUp => GaveUp']_vars
=============================================================================
