---------------------------- MODULE MCMqttClient ----------------------------
(* MqttClient for TLC.  Topics are model values that only equality tells   *)
(* apart, so runs of safety properties with two of them may swap them.     *)
EXTENDS MqttSession, TLC

TopicSymmetry == Permutations(Topics)
=============================================================================
