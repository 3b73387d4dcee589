----------------------------- MODULE MCK8sClient -----------------------------
(***************************************************************************)
(* An instance of K8sClient for TLC.                                       *)
(***************************************************************************)
EXTENDS K8sClient

OneValue == {"failure"}

=============================================================================
