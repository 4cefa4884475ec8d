----------------------------- MODULE MqttSession -----------------------------
(* MqttClient implements Session.                                          *)
EXTENDS MqttClient

(* The connection is lost, for the application, from the moment its        *)
(* disconnect handler is called until it returns, whatever clientState     *)
(* holds meanwhile.                                                        *)
TellingLoss == \E i \in 1..Len(stack) : stack[i].op = "yield" /\ stack[i].pc = "handler"

PhaseOf ==
  CASE TellingLoss -> "lost"
    [] ~TellingLoss /\ clientState = "INITIALIZED" -> "fresh"
    [] ~TellingLoss /\ clientState = "CONNECTING" -> "connecting"
    [] ~TellingLoss /\ IsConnected -> "connected"
    [] ~TellingLoss /\ clientState = "PENDING_RECONNECT" -> "waiting"
    [] ~TellingLoss /\ clientState = "DISCONNECTED_ERROR" -> "failed"
    [] ~TellingLoss /\ clientState = "DISCONNECTED_MANUALLY" -> "manual"

ControlOf == IF AppLevel THEN "application" ELSE "library"

Lifecycle == INSTANCE Session WITH phase <- PhaseOf,
                                   open <- socket # "closed",
                                   auto <- isAutoReconnectEnabled,
                                   control <- ControlOf

(* Every run of the client is a run of Session: no descriptor is lost, no  *)
(* manual disconnection ended by the library, no reconnection started or   *)
(* forgotten against the setting, on any path through calls and callbacks. *)
SessionImplemented == Lifecycle!SessionSpec
=============================================================================
