------------------------------- MODULE Session -------------------------------
(* What the client promises the application about its connection, whatever *)
(* calls, callbacks and answers it is made of: a descriptor is open exactly *)
(* while the client connects or is connected, nobody but the application   *)
(* ends a manual disconnection, and a lost connection is followed by a     *)
(* reconnection of the client's own if and only if it was asked for.       *)
VARIABLES
  phase,    \* of the connection
  open,     \* a descriptor is open
  auto,     \* automatic reconnection is enabled
  control   \* who runs: the application, also in a callback, or the library

sessionVars == <<phase, open, auto, control>>

Phases == {"fresh", "connecting", "connected", "lost", "waiting", "failed", "manual"}

Actors == {"application", "library"}

SessionTypeOK ==
  /\ phase \in Phases
  /\ open \in BOOLEAN /\ auto \in BOOLEAN
  /\ control \in Actors

SessionInit ==
  /\ phase = "fresh" /\ ~open
  /\ auto \in BOOLEAN
  /\ control = "application"

(* Control may pass from one to the other with any step.                   *)
Passes == control' \in Actors

(* A connection is attempted: by the application unless there is one, by   *)
(* the library only when it waits to reconnect.  No descriptor may be open *)
(* then: it would be overwritten.                                          *)
Attempt ==
  /\ \/ control = "application" /\ phase \in {"fresh", "waiting", "failed", "manual"}
     \/ control = "library" /\ phase = "waiting"
  /\ ~open
  /\ \/ phase' = "connecting" /\ open'
     \/ phase' = "failed" /\ ~open'
  /\ UNCHANGED auto /\ Passes

(* The broker accepts, or it does not.                                     *)
Establish ==
  /\ control = "library" /\ phase = "connecting"
  /\ phase' = "connected"
  /\ UNCHANGED <<open, auto>> /\ Passes

Fail ==
  /\ control = "library" /\ phase = "connecting"
  /\ phase' = "failed" /\ ~open'
  /\ UNCHANGED auto /\ Passes

(* A failed attempt to reconnect leaves the client waiting for the next.   *)
TryLater ==
  /\ control = "library" /\ phase = "failed"
  /\ phase' = "waiting"
  /\ UNCHANGED <<open, auto>> /\ Passes

Leave ==
  /\ control = "application" /\ phase = "connected"
  /\ phase' = "manual" /\ ~open'
  /\ UNCHANGED auto /\ Passes

(* The library finds the connection dead, tells the application, and       *)
(* reconnects or does not.                                                 *)
Lose ==
  /\ control = "library" /\ phase = "connected"
  /\ phase' = "lost" /\ ~open'
  /\ UNCHANGED auto /\ Passes

AfterLoss ==
  /\ phase = "lost"
  /\ phase' = IF auto THEN "waiting" ELSE "failed"
  /\ UNCHANGED <<open, auto>> /\ Passes

SetAuto ==
  /\ control = "application"
  /\ auto' = ~auto
  /\ UNCHANGED <<phase, open, control>>

(* A call begins, or returns, and the connection stays as it is.           *)
CallOrReturn == Passes /\ UNCHANGED <<phase, open, auto>>

SessionNext == \/ Attempt \/ Establish \/ Fail \/ TryLater \/ Leave \/ Lose \/ AfterLoss
               \/ SetAuto \/ CallOrReturn

SessionSpec == SessionInit /\ [][SessionNext]_sessionVars

(* The descriptor belongs to a connection, and a connection has one.       *)
OneDescriptor == open <=> phase \in {"connecting", "connected"}
=============================================================================
