------------------------------ MODULE AppProofs ------------------------------
(* Proofs about App.                                                       *)
EXTENDS App, TLAPS

(* The semaphore is there before the handler is registered, and nobody     *)
(* registers it after it was removed.                                      *)
SemaphoreInv ==
  /\ main = "register" => wait_sem \in {"empty", "set"}
  /\ main \in {"deinit", "gone"} => ~registered

(* Where the MQTT thread is tells what it may find of the connection.      *)
MqttInv ==
  /\ main \in {"init", "register", "system", "wait", "start"} => mqtt = "none"
  /\ phase = CASE mqtt \in {"none", "connect"}            -> "fresh"
               [] mqtt \in {"connecting", "reconnecting"} -> "connecting"
               [] mqtt = "subscribe"                      -> "connected"
               [] mqtt = "handler"                        -> "lost"
               [] mqtt = "later"                          -> "failed"
               [] OTHER                                   -> phase
  /\ mqtt \in {"yield", "yielding", "publish"} => phase \in {"connected", "waiting"}
  /\ mqtt = "exited" => phase \in {"connected", "failed"}
  /\ open <=> phase \in {"connecting", "connected"}

AppInv == AppTypeOK /\ SemaphoreInv /\ MqttInv

LEMMA MainKeeps ==
  ASSUME AppInv, Main
  PROVE  AppInv'
<1> USE DEF AppInv, AppTypeOK, SemaphoreInv, MqttInv, startVars, mqttVars
<1>1. CASE InitSemaphore BY <1>1 DEF InitSemaphore
<1>2. CASE Register BY <1>2 DEF Register
<1>3. CASE SystemInit BY <1>3 DEF SystemInit
<1>4. CASE Wait BY <1>4 DEF Wait
<1>5. CASE Start BY <1>5 DEF Start
<1>6. CASE Remove BY <1>6 DEF Remove
<1>7. CASE Deinit BY <1>7 DEF Deinit
<1> QED BY <1>1, <1>2, <1>3, <1>4, <1>5, <1>6, <1>7 DEF Main

LEMMA NotifierKeeps ==
  ASSUME AppInv, StationUp \/ StationDown \/ Notify
  PROVE  AppInv'
<1> USE DEF AppInv, AppTypeOK, SemaphoreInv, MqttInv, startVars, mqttVars
<1>1. CASE StationUp BY <1>1 DEF StationUp
<1>2. CASE StationDown
  <2>1. AppTypeOK' /\ SemaphoreInv'
    BY <1>2 DEF StationDown
  <2>2. MqttInv'
    BY <1>2 DEF StationDown
  <2> QED BY <2>1, <2>2
<1>3. CASE NotifyTest BY <1>3 DEF NotifyTest
<1>4. CASE NotifySet BY <1>4 DEF NotifySet
<1> QED BY <1>1, <1>2, <1>3, <1>4 DEF Notify

LEMMA LaterTyped ==
  ASSUME currentReconnectWaitInterval \in Nat, Later
  PROVE  currentReconnectWaitInterval' \in Nat
  BY DEF Later

LEMMA MqttKeeps ==
  ASSUME AppInv, Mqtt \/ Lose
  PROVE  AppInv'
<1>w. MinWait \in Nat BY WaitAssumption
<1> USE DEF AppInv, AppTypeOK, SemaphoreInv, MqttInv, startVars, mqttVars
<1>1. CASE Connect BY <1>1 DEF Connect
<1>2. CASE ConnectReturns BY <1>2 DEF ConnectReturns
<1>3. CASE Subscribe BY <1>3 DEF Subscribe
<1>4. CASE Yield \/ YieldReturns \/ Publish BY <1>4 DEF Yield, YieldReturns, Publish
<1>5. CASE Lose BY <1>5 DEF Lose
<1>6. CASE DisconnectHandler BY <1>6, <1>w DEF DisconnectHandler
<1>7. CASE Reconnect
  <2>1. currentReconnectWaitInterval' \in Nat
    BY <1>7, LaterTyped DEF Reconnect
  <2>2. UNCHANGED startVars /\ mqtt = "yielding" /\ phase = "waiting"
    BY <1>7 DEF Reconnect
  <2>3. \/ mqtt' = "reconnecting" /\ phase' = "connecting" /\ open' = TRUE
        \/ mqtt' = "later" /\ phase' = "failed" /\ open' = open
        \/ mqtt' = mqtt /\ phase' = phase /\ open' = open
    BY <1>7 DEF Reconnect
  <2>4. AppTypeOK' /\ SemaphoreInv'
    BY <2>1, <2>2, <2>3
  <2>5. MqttInv'
    BY <2>2, <2>3
  <2> QED BY <2>4, <2>5
<1>8. CASE ReconnectReturns BY <1>8, LaterTyped DEF ReconnectReturns
<1>9. CASE ReconnectFailed BY <1>9, LaterTyped DEF ReconnectFailed
<1> QED BY <1>1, <1>2, <1>3, <1>4, <1>5, <1>6, <1>7, <1>8, <1>9 DEF Mqtt

LEMMA AppInvariant == Spec => []AppInv
<1>1. Init => AppInv
  BY WaitAssumption DEF Init, AppInv, AppTypeOK, SemaphoreInv, MqttInv
<1>2. AppInv /\ [Next]_vars => AppInv'
  <2> SUFFICES ASSUME AppInv, [Next]_vars PROVE AppInv'
    OBVIOUS
  <2>1. CASE UNCHANGED vars
    BY <2>1 DEF vars, startVars, mqttVars, AppInv, AppTypeOK, SemaphoreInv, MqttInv
  <2>2. CASE Next
    BY <2>2, MainKeeps, NotifierKeeps, MqttKeeps DEF Next
  <2> QED BY <2>1, <2>2
<1> QED BY <1>1, <1>2, PTL DEF Spec

(* The semaphore of application_start lives while the handler is           *)
(* registered, whenever the station comes up (mico_main.c).                *)
THEOREM AppTypeCorrect == Spec => []AppTypeOK
<1>1. AppInv => AppTypeOK
  BY DEF AppInv
<1> QED BY <1>1, AppInvariant, PTL

(* What the calls of the loop and of the back-off do to the connection is  *)
(* what Session allows: the connection is made once by the application and *)
(* every other one by the client (mqtt_main.c).                            *)
THEOREM AppImplementsSession == Spec => AppKeepsSession
<1> USE DEF Lifecycle!Passes, Lifecycle!Actors, ControlOf
<1>1. Init => Lifecycle!SessionInit
  BY DEF Init, Lifecycle!SessionInit
<1>2. AppInv /\ [Next]_vars => [Lifecycle!SessionNext]_(Lifecycle!sessionVars)
  <2> SUFFICES ASSUME AppInv, [Next]_vars
               PROVE  Lifecycle!SessionNext \/ UNCHANGED Lifecycle!sessionVars
    OBVIOUS
  <2>1. ASSUME UNCHANGED <<phase, open>> PROVE Lifecycle!CallOrReturn
    BY <2>1 DEF Lifecycle!CallOrReturn
  <2>2. CASE UNCHANGED vars \/ Main \/ StationUp \/ StationDown \/ Notify
    <3>1. UNCHANGED <<phase, open>>
      BY <2>2 DEF vars, mqttVars, Main, InitSemaphore, Register, SystemInit, Wait, Start, Remove, Deinit,
         StationUp, StationDown, Notify, NotifyTest, NotifySet
    <3> QED BY <3>1, <2>1 DEF Lifecycle!SessionNext
  <2>3. CASE Subscribe \/ Yield \/ YieldReturns \/ Publish
    BY <2>3, <2>1 DEF Subscribe, Yield, YieldReturns, Publish, Lifecycle!SessionNext
  <2> USE DEF AppInv, MqttInv, Lifecycle!SessionNext
  <2>4. CASE Connect
    BY <2>4 DEF Connect, Lifecycle!Attempt
  <2>5. CASE ConnectReturns
    BY <2>5 DEF ConnectReturns, Lifecycle!Establish, Lifecycle!Fail
  <2>6. CASE Lose
    BY <2>6 DEF Lose, Lifecycle!Lose
  <2>7. CASE DisconnectHandler
    BY <2>7 DEF DisconnectHandler, Lifecycle!AfterLoss
  <2>8. CASE Reconnect
    BY <2>8, <2>1 DEF Reconnect, Lifecycle!Attempt
  <2>9. CASE ReconnectReturns
    BY <2>9 DEF ReconnectReturns, Lifecycle!Establish, Lifecycle!Fail
  <2>10. CASE ReconnectFailed
    BY <2>10 DEF ReconnectFailed, Lifecycle!TryLater
  <2> QED BY <2>2, <2>3, <2>4, <2>5, <2>6, <2>7, <2>8, <2>9, <2>10 DEF Next, Mqtt
<1> QED BY <1>1, <1>2, AppInvariant, PTL DEF Spec, AppKeepsSession, Lifecycle!SessionSpec

(* A client whose back-off went past its maximum stays where it is,        *)
(* whatever the loop calls and whether the station comes back or not.      *)
THEOREM GivenUpStays == Spec => GivenUpForGood
<1>1. AppInv /\ [Next]_vars => [GaveUp => GaveUp']_vars
  <2> SUFFICES ASSUME AppInv, Next, GaveUp PROVE GaveUp'
    BY DEF vars, startVars, mqttVars, GaveUp
  <2>1. mqtt \in {"yield", "yielding", "publish", "none", "connect"} /\ phase = "waiting"
    BY DEF AppInv, AppTypeOK, MqttInv, GaveUp
  <2>2. mqtt \notin {"none", "connect"}
    BY <2>1 DEF AppInv, MqttInv
  <2>3. UNCHANGED <<phase, currentReconnectWaitInterval>>
    BY <2>1, <2>2 DEF GaveUp, Next, mqttVars, Main, InitSemaphore, Register, SystemInit, Wait, Start,
       Remove, Deinit, StationUp, StationDown, Notify, NotifyTest, NotifySet, Mqtt, Connect, ConnectReturns,
       Subscribe, Yield, YieldReturns, Publish, Lose, DisconnectHandler, Reconnect, ReconnectReturns,
       ReconnectFailed
  <2> QED BY <2>3 DEF GaveUp
<1> QED BY <1>1, AppInvariant, PTL DEF Spec, GivenUpForGood
=============================================================================
