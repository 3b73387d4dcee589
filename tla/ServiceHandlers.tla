--------------------------- MODULE ServiceHandlers ---------------------------
(***************************************************************************)
(* pkg/partition/utils/utils.go: the systemd services that hold the GPUs   *)
(* are stopped over D-Bus before a partition attempt and started again     *)
(* after it.  PreStateDB remembers which of them ran before.               *)
(*                                                                         *)
(* A service is named here by the unit it denotes once the code has        *)
(* appended ".service": two spellings of one unit are one member of        *)
(* Services.  systemd itself is external: units[u] is the ActiveState of   *)
(* unit u.  The handlers' loops over the service list live in RetryLoop;   *)
(* this module has one action per loop body.                               *)
(***************************************************************************)
EXTENDS Naturals

CONSTANTS
  Services,     \* the units a config map may name
  DBusMayFail   \* whether a D-Bus call (status, stop, start) may fail

ASSUME DBusMayFailAssumption == DBusMayFail \in BOOLEAN

VARIABLES
  units,        \* ActiveState of every unit
  PreStateDB,   \* what StopServiceHandler recorded, Unrecorded if nothing
  stoppedByDCM, \* history: units DCM stopped that have not run since
  missed,       \* history: units the last attempt to stop them passed by
  mislaid       \* history: units whose state before is lost

serviceVars == <<units, PreStateDB, stoppedByDCM, missed, mislaid>>

\* What CheckUnitStatus answers when D-Bus fails (the code has "").
NoAnswer == "no answer"

UnitStates == {"active", "inactive"}

\* A key that is not in the Go map reads as the zero ServicePreState.
Unrecorded == "unrecorded"

PreStates == UnitStates \union {NoAnswer, Unrecorded}

EmptyDB == [u \in Services |-> Unrecorded]

ServiceTypeOK ==
  /\ units \in [Services -> UnitStates]
  /\ PreStateDB \in [Services -> PreStates]
  /\ {stoppedByDCM, missed, mislaid} \subseteq SUBSET Services

ServiceInit ==
  /\ units \in [Services -> UnitStates]
  /\ PreStateDB = EmptyDB
  /\ stoppedByDCM = {}
  /\ missed = {}
  /\ mislaid = {}

-----------------------------------------------------------------------------
(***************************************************************************)
(* The D-Bus calls.                                                        *)
(***************************************************************************)

\* What CheckUnitStatus(u) may return.
CheckUnitStatus(u) ==
  {units[u]} \union (IF DBusMayFail THEN {NoAnswer} ELSE {})

\* StopUnit on a running unit; UnitExists or the call itself may fail, and
\* StopServiceHandler only logs that.
StopService(u) ==
  \/ /\ units' = [units EXCEPT ![u] = "inactive"]
     /\ stoppedByDCM' = stoppedByDCM \union {u}
     /\ missed' = missed \ {u}
  \/ /\ DBusMayFail
     /\ missed' = missed \union {u}
     /\ UNCHANGED <<units, stoppedByDCM>>

\* StartUnit, which is skipped (or does nothing) when the unit already runs;
\* StartServiceHandler only logs that it failed.
StartService(u) ==
  \/ /\ units' = [units EXCEPT ![u] = "active"]
     /\ stoppedByDCM' = stoppedByDCM \ {u}
     /\ mislaid' = mislaid \ {u}
  \/ /\ DBusMayFail
     /\ mislaid' = mislaid \union {u}
     /\ UNCHANGED <<units, stoppedByDCM>>

-----------------------------------------------------------------------------
(***************************************************************************)
(* The handlers, one list entry at a time.                                 *)
(***************************************************************************)

\* Mutant: the recorded state is overwritten at every attempt.
RecordAlways(u, seen) == [PreStateDB EXCEPT ![u] = seen]

\* "write the previous service state only if it is not already recorded"
RecordPreState(u, seen) ==
  IF PreStateDB[u] = Unrecorded THEN [PreStateDB EXCEPT ![u] = seen]
                                ELSE PreStateDB

\* Body of StopServiceHandler's loop: only the state seen now decides
\* whether the unit is stopped.  What the first look got no answer about is
\* not known to have run.
StopServiceEntry(u) ==
  \E seen \in CheckUnitStatus(u) :
    /\ PreStateDB' = RecordPreState(u, seen)
    /\ mislaid' = IF PreStateDB[u] = Unrecorded /\ seen = NoAnswer
                    THEN mislaid \union {u} ELSE mislaid
    /\ IF seen = "active"
         THEN StopService(u)
         ELSE /\ missed' = IF seen = NoAnswer THEN missed \union {u} ELSE missed \ {u}
              /\ UNCHANGED <<units, stoppedByDCM>>

\* Mutant: what runs now is started again, not what ran before.
StartIfActiveNow(u) ==
  /\ IF units[u] = "active" THEN StartService(u)
                            ELSE UNCHANGED <<units, stoppedByDCM, mislaid>>
  /\ UNCHANGED <<PreStateDB, missed>>

\* Body of StartServiceHandler's loop: only a unit recorded active is started.
StartServiceEntry(u) ==
  /\ IF PreStateDB[u] = "active" THEN StartService(u)
                                 ELSE UNCHANGED <<units, stoppedByDCM, mislaid>>
  /\ UNCHANGED <<PreStateDB, missed>>

\* CleanupPreState ends StartServiceHandler, whatever became of the entries;
\* a unit that runs can be recorded afresh.
CleanupPreState ==
  /\ PreStateDB' = EmptyDB
  /\ mislaid' = mislaid \intersect stoppedByDCM
  /\ UNCHANGED <<units, stoppedByDCM, missed>>

-----------------------------------------------------------------------------
(***************************************************************************)
(* systemd or an operator starts or stops a unit behind DCM's back.  One   *)
(* that is started after it was recorded as not running is stopped by the  *)
(* next attempt and never started again.                                   *)
(***************************************************************************)
UnitFlips(u) ==
  /\ units' = [units EXCEPT ![u] = IF @ = "active" THEN "inactive" ELSE "active"]
  /\ stoppedByDCM' = stoppedByDCM \ {u}
  /\ missed' = missed \union {u}
  /\ mislaid' = IF units[u] = "active" THEN mislaid
                ELSE IF PreStateDB[u] \in {Unrecorded, "active"} THEN mislaid \ {u}
                ELSE mislaid \union {u}
  /\ UNCHANGED PreStateDB

=============================================================================
