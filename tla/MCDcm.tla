-------------------------------- MODULE MCDcm --------------------------------
(***************************************************************************)
(* Instances of Dcm for TLC.                                               *)
(***************************************************************************)
EXTENDS DcmJobs

CONSTANTS p1, p2, s1

Cfg(svcs, profs) ==
  [present |-> TRUE, valid |-> TRUE, services |-> svcs, profiles |-> profs]

NoServiceConfig == {Cfg({}, {p1, p2})}

\* A good file, a bad one, and none.
FileConfigs == {Cfg({s1}, {p1}), BadJSON, Absent}

=============================================================================
