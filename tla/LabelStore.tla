------------------------------ MODULE LabelStore ------------------------------
(***************************************************************************)
(* What the retry loop and main rely on when they write the node label     *)
(* gpu-config-profile-state: a register with numbered calls.               *)
(*                                                                         *)
(* A call that answers "ok" has taken effect before its answer, and may    *)
(* have done so more than once.  A call that answers "error", or whose     *)
(* process died, may have taken effect or may yet do so, but not after a   *)
(* newer call has changed the label.                                       *)
(***************************************************************************)
EXTENDS Naturals

CONSTANTS
  Values,       \* the values the label may be given
  Calls         \* the numbers of the calls, in the order they are made

VARIABLES
  label,        \* the label
  ledger,       \* what became of every call
  writer        \* the call that changed the label last, 0 at first

storeVars == <<label, ledger, writer>>

NoCall == [value |-> "none", status |-> "unmade", applied |-> FALSE]

StoreInit ==
  /\ label \in Values
  /\ ledger = [c \in Calls |-> NoCall]
  /\ writer = 0

\* Calls are made one after the other.
Invoke(c, v) ==
  /\ ledger[c].status = "unmade"
  /\ \A b \in Calls : b < c => ledger[b].status \in {"ok", "error"}
  /\ ledger' = [ledger EXCEPT ![c] = [NoCall EXCEPT !.value = v, !.status = "pending"]]
  /\ UNCHANGED <<label, writer>>

\* The call takes effect.  One that finds the label as it wants it changes
\* nothing, and bars no older call.
Apply(c) ==
  /\ ledger[c].status \in {"pending", "error"}
  /\ ledger' = [ledger EXCEPT ![c].applied = TRUE]
  /\ label' = ledger[c].value
  /\ \/ writer <= c /\ writer' = c
     \/ label' = label /\ UNCHANGED writer

Answer(c, how) ==
  /\ ledger[c].status = "pending"
  /\ how = "ok" => ledger[c].applied
  /\ ledger' = [ledger EXCEPT ![c].status = how]
  /\ UNCHANGED <<label, writer>>

StoreNext ==
  \E c \in Calls :
    \/ \E v \in Values : Invoke(c, v)
    \/ Apply(c)
    \/ \E how \in {"ok", "error"} : Answer(c, how)

StoreSpec == StoreInit /\ [][StoreNext]_storeVars

=============================================================================
