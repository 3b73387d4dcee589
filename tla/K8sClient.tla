------------------------------ MODULE K8sClient ------------------------------
(***************************************************************************)
(* pkg/amdgpu/k8sclient/k8s.go and its callers.                            *)
(*                                                                         *)
(* There are two clients: main's own, which deletes the state label, and   *)
(* the package-level one that main reads the profile with and that the     *)
(* retry goroutine and the watchers share once main is up.  Every method   *)
(* connects if need be, locks the client, and talks to the API server      *)
(* under the lock, for up to ten tries.                                    *)
(*                                                                         *)
(* The API server is external.  The node object has a resourceVersion and  *)
(* two labels here: the state label, which only DCM writes, and one that   *)
(* others write.  An update carries the version it was read at and is      *)
(* refused if the node has changed since; one that changes nothing leaves  *)
(* the version alone.  A request whose answer is lost may still reach the  *)
(* server, even after the process that sent it has died.                   *)
(***************************************************************************)
EXTENDS Naturals, FiniteSets

CONSTANTS
  Watchers,     \* the watchers that read labels
  Values,       \* the values RetryPartition and PartitionGPU write
  ApiMayFail,   \* whether a call to the API server may fail
  InitMayFail,  \* whether the in-cluster config may be unusable
  MaxTries,     \* tries of one call (10)
  MaxAdds,      \* bound: AddNodeLabel calls
  MaxForeign,   \* bound: changes of the node by others
  MaxRestarts   \* bound: restarts of the container

ASSUME K8sBoundsAssumption ==
  MaxTries \in Nat \ {0} /\ {MaxAdds, MaxForeign, MaxRestarts} \subseteq Nat
ASSUME K8sFlagsAssumption == {ApiMayFail, InitMayFail} \subseteq BOOLEAN
ASSUME K8sValuesAssumption == "none" \notin Values
ASSUME K8sWatchersAssumption == Watchers \intersect {"main", "worker", "nobody"} = {}

VARIABLES
  phase,        \* main: "delete", "read", "up", or "down" if the process died
  clientset,    \* whether each client has a clientset
  lock,         \* who holds each client's mutex
  call,         \* the method every goroutine is in
  node,         \* the node object at the API server
  requests,     \* updates the API server has not handled yet
  ledger,       \* history: what became of every label write
  writer,       \* history: the write that changed the node last
  foreign,      \* how often others changed their label
  restarts

vars == <<phase, clientset, lock, call, node, requests, ledger, writer, foreign, restarts>>

Callers == {"main", "worker"} \union Watchers
Clients == {"mainkc", "kc"}
Nobody == "nobody"
StateValues == Values \union {"none"}

\* Main's Delete of every process, and the Adds, numbered.
Writes == 1..(MaxRestarts + 1 + MaxAdds)
Adds == Cardinality({c \in Writes : ledger[c].value # "none"})

Store == INSTANCE LabelStore
           WITH label <- node.state, Values <- StateValues, Calls <- Writes

NoNode == [version |-> 0, state |-> "none", foreign |-> 0]

\* A goroutine in no method; hits counts what disturbs a call under way.
NotCalling ==
  [pc |-> "idle", op |-> "none", kc |-> "kc", write |-> 0, try |-> 1,
   node |-> NoNode, answer |-> "none", hits |-> 0]

PCs == {"idle", "init", "Lock", "get", "update", "await", "sleep", "absent"}

\* One more disturbance; more than MaxTries need not be told apart.
Hit(c) == IF c.hits < MaxTries THEN c.hits + 1 ELSE c.hits

K8sTypeOK ==
  /\ phase \in {"delete", "read", "up", "down"}
  /\ clientset \in [Clients -> BOOLEAN]
  /\ lock \in [Clients -> Callers \union {Nobody}]
  /\ \A p \in Callers :
       /\ call[p].pc \in PCs
       /\ call[p].op \in {"none", "Add", "Delete", "Get", "Once"}
       /\ call[p].try \in 1..MaxTries
       /\ call[p].node.state \in StateValues
  /\ node.state \in StateValues
  /\ Cardinality({c \in Writes : ledger[c].status = "pending"}) <= 1
  /\ writer \in {0} \union Writes

Init ==
  /\ phase = "delete"
  /\ clientset = [k \in Clients |-> FALSE]
  /\ lock = [k \in Clients |-> Nobody]
  /\ call = [p \in Callers |-> NotCalling]
  /\ node \in [version : {0}, state : StateValues, foreign : {0}]
  /\ requests = {}
  /\ ledger = [c \in Writes |-> Store!NoCall]
  /\ writer = 0
  /\ foreign = 0
  /\ restarts = 0

-----------------------------------------------------------------------------
(***************************************************************************)
(* Calling a method, and returning from it.                                *)
(***************************************************************************)
NextWrite == CHOOSE c \in Writes : /\ ledger[c].status = "unmade"
                                   /\ \A b \in Writes : b < c => ledger[b].status # "unmade"

\* reConnect looks at the clientset without the lock.
reConnect(kc) == IF clientset[kc] THEN "Lock" ELSE "init"

Enter(p, op, kc, value) ==
  /\ call[p].pc = "idle"
  /\ call' = [call EXCEPT ![p] =
                [NotCalling EXCEPT !.pc = reConnect(kc), !.op = op, !.kc = kc,
                   !.write = IF op \in {"Add", "Delete"} THEN NextWrite ELSE 0]]
  /\ ledger' = IF op \in {"Add", "Delete"}
                 THEN [ledger EXCEPT ![NextWrite] =
                         [Store!NoCall EXCEPT !.value = value, !.status = "pending"]]
                 ELSE ledger
  /\ UNCHANGED <<phase, clientset, lock, node, requests, writer, foreign, restarts>>

\* Mutant: main starts the goroutines before it has read the profile.
UpBeforeRead == phase \in {"read", "up"}

\* Worker and the watchers run once main has read the profile.
Up == phase = "up"

MainCalls ==
  \/ phase = "delete" /\ Enter("main", "Delete", "mainkc", "none")
  \/ phase = "read" /\ Enter("main", "Get", "kc", "none")

\* The retry goroutine reports, creates an event, lists pods, or deletes the
\* NodeModulesConfig: the last three are one try each.
WorkerCalls ==
  /\ Up
  /\ \/ Adds < MaxAdds /\ \E v \in Values : Enter("worker", "Add", "kc", v)
     \/ Enter("worker", "Once", "kc", "none")

\* GetPartitionProfile, or GetNodeInformer.
WatcherCalls(w) ==
  /\ Up
  /\ \E op \in {"Get", "Once"} : Enter(w, op, "kc", "none")

\* The process dies: nothing but the node and the requests under way is left.
Die ==
  /\ phase' = "down"
  /\ clientset' = [k \in Clients |-> FALSE]
  /\ lock' = [k \in Clients |-> Nobody]
  /\ call' = [p \in Callers |-> NotCalling]
  /\ ledger' = [c \in Writes |-> IF ledger[c].status = "pending"
                                   THEN [ledger[c] EXCEPT !.status = "error"]
                                   ELSE ledger[c]]
  /\ UNCHANGED <<node, requests, writer, foreign, restarts>>

\* defer k.Unlock()
Unlock(p) == lock' = [lock EXCEPT ![call[p].kc] = Nobody]

\* Main logs the error of its Delete, and exits on that of its Get.
Return(p, how) ==
  IF p = "main" /\ call[p].op = "Get" /\ how = "error" THEN Die
  ELSE
    /\ Unlock(p)
    /\ call' = [call EXCEPT ![p] = NotCalling]
    /\ ledger' = IF call[p].write = 0 THEN ledger
                 ELSE [ledger EXCEPT ![call[p].write].status = how]
    /\ phase' = IF p # "main" THEN phase
                ELSE IF call[p].op = "Delete" THEN "read" ELSE "up"
    /\ UNCHANGED <<clientset, node, requests, writer, foreign, restarts>>

-----------------------------------------------------------------------------
(***************************************************************************)
(* The methods, run by goroutine p.                                        *)
(***************************************************************************)
Goto(p, to) == call' = [call EXCEPT ![p].pc = to]

\* init(), whose error every caller of reConnect ignores.
init(p) ==
  /\ call[p].pc = "init"
  /\ lock[call[p].kc] = Nobody
  /\ \/ clientset' = [clientset EXCEPT ![call[p].kc] = TRUE]
     \/ InitMayFail /\ UNCHANGED clientset
  /\ Goto(p, "Lock")
  /\ UNCHANGED <<phase, lock, node, requests, ledger, writer, foreign, restarts>>

\* k.Lock(); a clientset that is nil makes the first use of it panic.
Lock(p) ==
  /\ call[p].pc = "Lock"
  /\ call[p].op # "Once"
  /\ lock[call[p].kc] = Nobody
  /\ IF clientset[call[p].kc]
       THEN /\ lock' = [lock EXCEPT ![call[p].kc] = p]
            /\ Goto(p, "get")
            /\ UNCHANGED <<phase, clientset, node, requests, ledger, writer, foreign, restarts>>
       ELSE Die

\* A method that makes one try, whose error is only logged: from Lock to
\* Unlock it touches nothing that the others see.  Without a clientset it
\* panics (the informer when it first lists).
CallOnce(p) ==
  /\ call[p].pc = "Lock"
  /\ call[p].op = "Once"
  /\ lock[call[p].kc] = Nobody
  /\ IF clientset[call[p].kc] THEN Return(p, "ok") ELSE Die

\* The try has failed; time.Sleep.  Of a conflict, what changed the node was
\* counted when it did.
TryFails(p, hits) ==
  /\ call' = [call EXCEPT ![p].pc = "sleep", ![p].answer = "none", ![p].hits = hits]
  /\ UNCHANGED <<phase, clientset, lock, node, requests, ledger, writer, foreign, restarts>>

\* Nodes().Get.  Without the label there is nothing to delete.
GetNode(p) ==
  /\ call[p].pc = "get"
  /\ \/ call[p].op = "Get" /\ Return(p, "ok")
     \/ /\ call[p].op = "Add" \/ (call[p].op = "Delete" /\ node.state # "none")
        /\ call' = [call EXCEPT ![p].pc = "update", ![p].node = node]
        /\ UNCHANGED <<phase, clientset, lock, node, requests, ledger, writer, foreign, restarts>>
     \/ /\ call[p].op = "Delete" /\ node.state = "none"
        /\ Goto(p, "absent")
        /\ ledger' = [ledger EXCEPT ![call[p].write].applied = TRUE]
        /\ UNCHANGED <<phase, clientset, lock, node, requests, writer, foreign, restarts>>
     \/ ApiMayFail /\ TryFails(p, Hit(call[p]))

\* node.Labels[key] = value, or delete(node.Labels, key); Nodes().Update.
UpdateNode(p) ==
  /\ call[p].pc = "update"
  /\ requests' = requests \union
       {[write |-> call[p].write, try |-> call[p].try,
         node |-> [call[p].node EXCEPT !.state = ledger[call[p].write].value]]}
  /\ Goto(p, "await")
  /\ UNCHANGED <<phase, clientset, lock, node, ledger, writer, foreign, restarts>>

\* The update is answered, or its answer is lost.
UpdateAnswered(p) ==
  /\ call[p].pc = "await"
  /\ \/ call[p].answer = "ok" /\ Return(p, "ok")
     \/ call[p].answer = "conflict" /\ TryFails(p, call[p].hits)
     \/ ApiMayFail /\ TryFails(p, Hit(call[p]))

\* Mutant: the node is fetched before the loop, once.
RetryWithSameNode(p) == IF call[p].node = NoNode THEN "get" ELSE "update"

\* "Fetch the latest node on each retry"
RetryAt(p) == "get"

\* Mutant: the loop does not count.
SameTry(i) == i

NextTry(i) == i + 1

\* Mutant: one try too many.
OneTryMore(p) == call[p].try > MaxTries

LastTry(p) == call[p].try = MaxTries

\* Mutant: the outer err, which the err of the loop shadows, is returned.
ShadowedErr == "ok"

\* fmt.Errorf("failed to add label after %d retries", ...)
GaveUp == "error"

Retry(p) ==
  /\ call[p].pc = "sleep"
  /\ IF LastTry(p)
       THEN Return(p, GaveUp)
       ELSE /\ call' = [call EXCEPT ![p].pc = RetryAt(p), ![p].try = NextTry(@)]
            /\ UNCHANGED <<phase, clientset, lock, node, requests, ledger, writer, foreign, restarts>>

LabelAbsent(p) == call[p].pc = "absent" /\ Return(p, "ok")

Method(p) ==
  \/ init(p) \/ Lock(p) \/ CallOnce(p)
  \/ GetNode(p) \/ LabelAbsent(p) \/ UpdateNode(p) \/ UpdateAnswered(p)
  \/ Retry(p)

-----------------------------------------------------------------------------
(***************************************************************************)
(* The API server, everybody else, and the container.                      *)
(***************************************************************************)

\* A write call that is under way is disturbed when the node changes.
Disturb(c) == IF c.pc # "idle" /\ c.write # 0 THEN [c EXCEPT !.hits = Hit(c)] ELSE c

\* Mutant: an update without the resourceVersion.
AnyVersion(req) == TRUE

UpToDate(req) == req.node.version = node.version

ApiHandles(req) ==
  LET for(p) == /\ call[p].pc = "await"
                /\ call[p].write = req.write /\ call[p].try = req.try
      new == [req.node EXCEPT !.version = node.version]
      changes == UpToDate(req) /\ new # node
  IN  /\ requests' = requests \ {req}
      /\ node' = IF changes THEN [new EXCEPT !.version = @ + 1] ELSE node
      /\ writer' = IF changes THEN req.write ELSE writer
      /\ ledger' = IF UpToDate(req) THEN [ledger EXCEPT ![req.write].applied = TRUE]
                                    ELSE ledger
      /\ call' = [p \in Callers |->
                    IF for(p) THEN [call[p] EXCEPT !.answer =
                                      IF UpToDate(req) THEN "ok" ELSE "conflict"]
                    ELSE IF changes THEN Disturb(call[p]) ELSE call[p]]
      /\ UNCHANGED <<phase, clientset, lock, foreign, restarts>>

\* Somebody else changes a label of the node.
OthersUpdate ==
  /\ foreign < MaxForeign
  /\ foreign' = foreign + 1
  /\ node' = [node EXCEPT !.version = @ + 1, !.foreign = foreign']
  /\ call' = [p \in Callers |-> Disturb(call[p])]
  /\ UNCHANGED <<phase, clientset, lock, requests, ledger, writer, restarts>>

Crash == phase # "down" /\ restarts < MaxRestarts /\ Die

Restart ==
  /\ phase = "down"
  /\ restarts < MaxRestarts
  /\ restarts' = restarts + 1
  /\ phase' = "delete"
  /\ UNCHANGED <<clientset, lock, call, node, requests, ledger, writer, foreign>>

StaysDown == phase = "down" /\ restarts = MaxRestarts /\ UNCHANGED vars

Next ==
  \/ MainCalls \/ WorkerCalls \/ \E w \in Watchers : WatcherCalls(w)
  \/ \E p \in Callers : Method(p)
  \/ \E req \in requests : ApiHandles(req)
  \/ OthersUpdate
  \/ Crash \/ Restart \/ StaysDown

Spec == Init /\ [][Next]_vars

(***************************************************************************)
(* Every goroutine runs on, every request is handled or fails, and a       *)
(* sync.Mutex is handed to a waiter that has starved for a millisecond.    *)
(***************************************************************************)
Fairness ==
  /\ \A p \in Callers : WF_vars(Method(p)) /\ SF_vars(init(p) \/ Lock(p) \/ CallOnce(p))
  /\ WF_vars(\E req \in requests : ApiHandles(req))

FairSpec == Spec /\ Fairness

-----------------------------------------------------------------------------
(***************************************************************************)
(* Properties.                                                             *)
(***************************************************************************)

\* AddNodeLabel and DeleteNodeLabel write the whole node back: what others
\* wrote to it between the Get and the Update, or while a lost update was
\* under way, must not be undone.
ForeignLabelsKept == node.foreign = foreign

\* A write or read that is about to give up has met MaxTries separate
\* disturbances: one change of the node by somebody else costs one try, not
\* all of them.
GivesUpOnlyIfDisturbed ==
  \A p \in Callers : call[p].pc = "sleep" /\ call[p].try = MaxTries =>
                       call[p].hits = MaxTries

\* clientset is read without the lock in reConnect: while one goroutine is
\* in init no other has entered a method of the same client, since main has
\* connected the shared client before it starts them.
NoInitRace ==
  \A p, q \in Callers :
    p # q /\ call[p].pc = "init" => call[q].pc = "idle" \/ call[q].kc # call[p].kc

\* Every method returns, although the lock is held through all the tries of
\* the method before it.
CallsReturn == \A p \in Callers : (call[p].pc # "idle") ~> (call[p].pc = "idle")

\* The state label behaves as LabelStore says: "ok" means written, and a
\* late request of a call that failed, or of a process that died, does not
\* undo the write of a newer one.
ImplementsLabelStore == Store!StoreSpec

=============================================================================
