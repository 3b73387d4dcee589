----------------------------- MODULE MCRetryLoop -----------------------------
(***************************************************************************)
(* Instances of RetryLoop for TLC.                                         *)
(***************************************************************************)
EXTENDS RetryLoopJobs

CONSTANTS p1, p2, s1, s2

Cfg(svcs, profs) == 
  [present |-> TRUE, valid |-> TRUE, services |-> svcs, profiles |-> profs]

\* A profile is missing, or the file is bad.
ManyConfigs == {Cfg({s1}, {p1, p2}), Cfg({s1}, {p1}), BadJSON}

\* Two config maps, one of which lists one service less.
TwoLists == {Cfg({s1, s2}, {p1}), Cfg({s1}, {p1})}

=============================================================================
