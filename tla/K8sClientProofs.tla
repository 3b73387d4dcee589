--------------------------- MODULE K8sClientProofs ---------------------------
(***************************************************************************)
(* Proofs about K8sClient, for any number of watchers, tries, label        *)
(* writes, changes of the node by others and restarts: the labels of       *)
(* others are kept, no two goroutines connect the shared client at once,   *)
(* a call gives up only if it was disturbed MaxTries times, and the state  *)
(* label behaves as LabelStore says.                                       *)
(***************************************************************************)
EXTENDS K8sClient, FiniteSetTheorems, TLAPS

NodeType == [version : Nat, state : StateValues, foreign : Nat]

CallType ==
  [pc : PCs, op : {"none", "Add", "Delete", "Get", "Once"}, kc : Clients,
   write : {0} \union Writes, try : 1..MaxTries, node : NodeType,
   answer : {"none", "ok", "conflict"}, hits : 0..MaxTries]

RequestType == [write : Writes, try : 1..MaxTries, node : NodeType]

EntryType ==
  [value : StateValues, status : {"unmade", "pending", "ok", "error"}, applied : BOOLEAN]

Typed ==
  /\ phase \in {"delete", "read", "up", "down"}
  /\ clientset \in [Clients -> BOOLEAN]
  /\ lock \in [Clients -> Callers \union {Nobody}]
  /\ call \in [Callers -> CallType]
  /\ node \in NodeType
  /\ requests \subseteq RequestType
  /\ ledger \in [Writes -> EntryType]
  /\ writer \in {0} \union Writes
  /\ foreign \in Nat
  /\ restarts \in 0..MaxRestarts

(***************************************************************************)
(* The inductive invariant.  First what holds of the method c that         *)
(* goroutine p is in.                                                      *)
(***************************************************************************)

\* Who calls what, and when: main alone until it is up, and not after.
Role(p, c) ==
  \/ p = "main" /\ phase = "delete" /\ c.op = "Delete" /\ c.kc = "mainkc"
  \/ p = "main" /\ phase = "read" /\ c.op = "Get" /\ c.kc = "kc"
  \/ p = "worker" /\ phase = "up" /\ c.op \in {"Add", "Once"} /\ c.kc = "kc"
  \/ p \in Watchers /\ phase = "up" /\ c.op \in {"Get", "Once"} /\ c.kc = "kc"

RoleOK(p, c) ==
  /\ c.pc = "idle" => c = NotCalling
  /\ c.pc # "idle" => Role(p, c) /\ (c.write # 0 <=> c.op \in {"Add", "Delete"})
  /\ c.pc \in {"update", "await", "absent"} => c.write # 0

\* A write under way is pending, and the newest.
WriteOK(c) ==
  c.write # 0 =>
    /\ ledger[c.write].status = "pending"
    /\ c.op = "Delete" => ledger[c.write].value = "none"
    /\ \A b \in Writes : b > c.write => ledger[b].status = "unmade"

\* A copy of the node that is as new as the node agrees with it, and the node
\* was last changed by the write w that holds the copy, or an older one.
CopyOK(copy, w) ==
  /\ copy.version <= node.version
  /\ copy.version = node.version => copy.foreign = node.foreign /\ writer <= w

Succeeded(c) == c.pc = "absent" \/ c.answer = "ok"

\* The requests of a write are those of its tries so far, the one it awaits is
\* the last of them, and once it has succeeded none has an effect.
RequestOK(c) ==
  \A req \in requests : req.write = c.write =>
    /\ req.try <= c.try
    /\ req.try = c.try => c.pc \in {"await", "sleep"}
    /\ c.pc = "await" /\ req.try = c.try =>
         c.answer = "none" /\ req.node.version = c.node.version
    /\ Succeeded(c) /\ req.node.version = node.version => node.state = req.node.state

AppliedOK(c) ==
  /\ c.answer # "none" => c.pc = "await"
  /\ Succeeded(c) => ledger[c.write].applied

\* A call was disturbed once for every try that failed, and once more if the
\* node has changed since it was read for this one.
HitsOK(c) ==
  /\ c.pc \in {"init", "Lock"} => c.try = 1
  /\ c.pc \in {"init", "Lock", "get", "update", "await"} => c.hits >= c.try - 1
  /\ c.pc = "sleep" \/ c.answer = "conflict" => c.hits >= c.try
  /\ /\ c.pc = "update" \/ (c.pc = "await" /\ c.answer = "none")
     /\ c.node.version # node.version
     => c.hits >= c.try

CallOK(p, c) ==
  /\ RoleOK(p, c)
  /\ WriteOK(c)
  /\ c.pc = "update" => CopyOK(c.node, c.write)
  /\ RequestOK(c)
  /\ AppliedOK(c)
  /\ HitsOK(c)

CallInv == \A p \in Callers : CallOK(p, call[p])

(***************************************************************************)
(* And what holds of the clients, the ledger, the node and the requests.   *)
(***************************************************************************)

\* The shared client is connected before the goroutines start, and a client
\* whose lock is taken is connected.
ConnectInv ==
  /\ phase = "up" => clientset["kc"]
  /\ \A p \in Callers :
       /\ call[p].pc \in {"get", "update", "await", "sleep", "absent"} => clientset[call[p].kc]
       /\ call[p].pc = "init" => phase # "up"

Made == {c \in Writes : ledger[c].status # "unmade"}
Added == {c \in Writes : ledger[c].value # "none"}
Deletes == Made \ Added

LastWrite == MaxRestarts + 1 + MaxAdds

\* Writes are made in the order of their numbers, which suffice: one Delete
\* for every process so far, and the Adds.
LedgerInv ==
  /\ \E n \in 0..LastWrite : \A c \in Writes : ledger[c].status # "unmade" <=> c <= n
  /\ \A c \in Writes : ledger[c].status = "unmade" => ledger[c] = Store!NoCall
  /\ Cardinality(Added) <= MaxAdds
  /\ Cardinality(Deletes) <= IF phase = "delete" /\ call["main"].pc = "idle"
                               THEN restarts ELSE restarts + 1

PendingInv ==
  \A c \in Writes : ledger[c].status = "pending" => \E p \in Callers : call[p].write = c

NodeInv ==
  /\ node.foreign = foreign
  /\ writer # 0 => ledger[writer].status # "unmade"

\* A request is of a write that was made, one of a write that has succeeded
\* changes nothing any more, and there is one for every try at most.
RequestInv ==
  /\ \A req \in requests :
       /\ CopyOK(req.node, req.write)
       /\ ledger[req.write].status # "unmade"
       /\ req.node.state = ledger[req.write].value
       /\ ledger[req.write].status = "ok" /\ req.node.version = node.version
            => node.state = req.node.state
       /\ ledger[req.write].status = "ok" => ledger[req.write].applied
  /\ \A req, other \in requests : req.write = other.write /\ req.try = other.try => req = other

IInv ==
  /\ Typed
  /\ CallInv
  /\ ConnectInv
  /\ LedgerInv
  /\ PendingInv
  /\ NodeInv
  /\ RequestInv

-----------------------------------------------------------------------------
\* What the assumptions say of the callers and the bounds.
LEMMA Constants ==
  /\ {"main", "worker"} \subseteq Callers /\ Nobody \notin Callers
  /\ "main" \notin Watchers /\ "worker" \notin Watchers
  /\ MaxTries \in Nat /\ MaxTries > 0
  /\ MaxAdds \in Nat /\ MaxForeign \in Nat /\ MaxRestarts \in Nat
  /\ LastWrite \in Nat /\ Writes = 1..LastWrite
  BY K8sBoundsAssumption, K8sWatchersAssumption DEF Callers, Nobody, LastWrite, Writes

\* Finitely many writes are made.
LEMMA WritesFinite ==
  IsFiniteSet(Writes) /\ IsFiniteSet(Made) /\ IsFiniteSet(Added) /\ IsFiniteSet(Deletes)
  <1>1. IsFiniteSet(Writes)
    <2>1. 1 \in Int /\ LastWrite \in Int /\ Writes = 1..LastWrite
      BY Constants
    <2> QED
      BY <2>1, FS_Interval
  <1>2. Made \subseteq Writes /\ Added \subseteq Writes /\ Deletes \subseteq Writes
    BY DEF Made, Added, Deletes
  <1> QED
    BY <1>1, <1>2, FS_Subset

\* A goroutine in no method satisfies the invariant.
LEMMA NotCallingOK ==
  /\ NotCalling \in CallType
  /\ NotCalling.pc = "idle" /\ NotCalling.write = 0
  /\ \A p : Typed => CallOK(p, NotCalling)
  <1>1. NoNode \in NodeType
    BY DEF NoNode, NodeType, StateValues
  <1>2. NotCalling \in CallType
    BY <1>1, Constants DEF NotCalling, CallType, PCs, Clients
  <1>3. /\ NotCalling.pc = "idle" /\ NotCalling.write = 0 /\ NotCalling.answer = "none"
    BY DEF NotCalling
  <1>4. ASSUME Typed, NEW p PROVE CallOK(p, NotCalling)
    <2>1. \A req \in requests : req.write # 0
      BY <1>4, Constants DEF Typed, RequestType
    <2> QED
      BY <1>3, <2>1 DEF CallOK, RoleOK, WriteOK, RequestOK, AppliedOK, HitsOK, Succeeded
  <1> QED
    BY <1>2, <1>3, <1>4

\* The first state satisfies the invariant.
LEMMA InitIInv == Init => IInv
  <1> SUFFICES ASSUME Init PROVE IInv
    OBVIOUS
  <1> USE DEF Init
  <1>1. Store!NoCall \in EntryType /\ Store!NoCall.status = "unmade" /\ Store!NoCall.value = "none"
    BY DEF Store!NoCall, EntryType, StateValues
  <1>2. Typed
    <2>1. node \in NodeType
      BY DEF NodeType
    <2>2. call \in [Callers -> CallType]
      BY NotCallingOK
    <2>3. ledger \in [Writes -> EntryType]
      BY <1>1
    <2> QED
      BY <2>1, <2>2, <2>3, Constants DEF Typed
  <1>3. \A p \in Callers : call[p] = NotCalling
    OBVIOUS
  <1>4. \A c \in Writes : ledger[c] = Store!NoCall
    OBVIOUS
  <1>5. CallInv
    BY <1>2, <1>3, NotCallingOK DEF CallInv
  <1>6. ConnectInv /\ PendingInv /\ NodeInv /\ RequestInv
    BY <1>1, <1>3, <1>4, NotCallingOK DEF ConnectInv, PendingInv, NodeInv, RequestInv
  <1>7. LedgerInv
    <2>1. Added = {} /\ Deletes = {}
      BY <1>1, <1>4 DEF Added, Made, Deletes
    <2>2. Cardinality({}) = 0
      BY FS_EmptySet
    <2>3. \A c \in Writes : ledger[c].status # "unmade" <=> c <= 0
      BY <1>1, <1>4, Constants
    <2> QED
      BY <1>4, <2>1, <2>2, <2>3, Constants DEF LedgerInv
  <1> QED
    BY <1>2, <1>5, <1>6, <1>7 DEF IInv

-----------------------------------------------------------------------------
(***************************************************************************)
(* The steps of a goroutine in its method.                                 *)
(***************************************************************************)

\* What holds of a method holds on if nothing that it is about changes.
LEMMA CallKept ==
  ASSUME NEW p, NEW c, CallOK(p, c), UNCHANGED <<phase, ledger, node, writer, requests>>
  PROVE  CallOK(p, c)'
  BY DEF CallOK, RoleOK, Role, WriteOK, CopyOK, RequestOK, AppliedOK, Succeeded, HitsOK

\* Goroutine p moves on in its method, and nobody else sees more of it than
\* its lock and its clientset.
LEMMA CallMoves ==
  ASSUME IInv, NEW p \in Callers, NEW new \in CallType,
         call' = [call EXCEPT ![p] = new],
         call[p].pc # "idle", new.pc # "idle", new.pc # "init",
         new.write = call[p].write,
         CallOK(p, new),
         UNCHANGED <<phase, node, requests, ledger, writer, foreign, restarts>>,
         lock' \in [Clients -> Callers \union {Nobody}],
         clientset' \in [Clients -> BOOLEAN],
         \A k \in Clients : clientset[k] => clientset'[k],
         new.pc # "Lock" => clientset'[new.kc]
  PROVE  IInv'
  <1> USE DEF IInv
  <1>1. Typed'
    BY DEF Typed
  <1>2. \A q \in Callers : call'[q] = IF q = p THEN new ELSE call[q]
    BY DEF Typed
  <1>3. CallInv'
    <2>1. \A q \in Callers : CallOK(q, call'[q])
      BY <1>2 DEF CallInv
    <2> SUFFICES ASSUME NEW q \in Callers PROVE CallOK(q, call[q])'
      BY DEF CallInv
    <2>2. PICK c : c = call'[q]
      OBVIOUS
    <2>3. CallOK(q, c)'
      BY <2>1, <2>2, CallKept
    <2> QED
      BY <2>2, <2>3 DEF CallOK, RoleOK, Role, WriteOK, CopyOK, RequestOK, AppliedOK, Succeeded, HitsOK
  <1>4. ConnectInv'
    <2>1. \A q \in Callers : call[q].kc \in Clients
      BY DEF Typed, CallType
    <2>2. phase' = "up" => clientset'["kc"]
      BY DEF ConnectInv, Clients
    <2>3. ASSUME NEW q \in Callers
          PROVE  /\ call'[q].pc \in {"get", "update", "await", "sleep", "absent"} => clientset'[call'[q].kc]
                 /\ call'[q].pc = "init" => phase' # "up"
      BY <1>2, <2>1 DEF ConnectInv
    <2> QED
      BY <2>2, <2>3 DEF ConnectInv
  <1>5. LedgerInv'
    <2>1. call'["main"].pc = "idle" <=> call["main"].pc = "idle"
      BY <1>2, Constants
    <2>2. Made' = Made /\ Added' = Added
      BY DEF Made, Added
    <2> QED
      BY <2>1, <2>2 DEF LedgerInv, Deletes
  <1>6. PendingInv'
    BY <1>2 DEF PendingInv
  <1>7. NodeInv' /\ RequestInv'
    BY DEF NodeInv, RequestInv, CopyOK
  <1> QED
    BY <1>1, <1>3, <1>4, <1>5, <1>6, <1>7

\* The method that goroutine p is in, its type and its client.
LEMMA CallTyped ==
  ASSUME IInv, NEW p \in Callers
  PROVE  /\ call[p] \in CallType /\ call[p].kc \in Clients /\ CallOK(p, call[p])
         /\ call[p].try \in Nat /\ call[p].hits \in Nat /\ call[p].try > 0
         /\ call[p].try <= MaxTries /\ call[p].hits <= MaxTries
  BY Constants DEF IInv, Typed, CallType, CallInv

\* init()
LEMMA InitStep ==
  ASSUME IInv, NEW p \in Callers, init(p)
  PROVE  IInv'
  <1>1. PICK new : new = [call[p] EXCEPT !.pc = "Lock"]
    OBVIOUS
  <1>2. /\ call[p] \in CallType /\ call[p].kc \in Clients /\ CallOK(p, call[p])
        /\ clientset \in [Clients -> BOOLEAN] /\ lock \in [Clients -> Callers \union {Nobody}]
    BY CallTyped DEF IInv, Typed
  <1>3. new \in CallType
    BY <1>1, <1>2 DEF CallType, PCs
  <1>4. /\ new.pc = "Lock" /\ new.op = call[p].op /\ new.kc = call[p].kc
        /\ new.write = call[p].write /\ new.try = call[p].try /\ new.node = call[p].node
        /\ new.answer = call[p].answer /\ new.hits = call[p].hits
    BY <1>1, <1>2 DEF CallType
  <1>5. CallOK(p, new)
    BY <1>2, <1>4 DEF init, CallOK, RoleOK, Role, WriteOK, RequestOK, AppliedOK, Succeeded, HitsOK
  <1>6. clientset' \in [Clients -> BOOLEAN] /\ \A k \in Clients : clientset[k] => clientset'[k]
    BY <1>2 DEF init
  <1>7. call' = [call EXCEPT ![p] = new]
    BY <1>1 DEF init, Goto
  <1>8. call[p].pc # "idle"
    BY DEF init
  <1>9. UNCHANGED <<phase, lock, node, requests, ledger, writer, foreign, restarts>>
    BY DEF init
  <1> QED
    BY <1>2, <1>3, <1>4, <1>5, <1>6, <1>7, <1>8, <1>9, CallMoves

\* Lock, with a clientset.
LEMMA LockStep ==
  ASSUME IInv, NEW p \in Callers, Lock(p), clientset[call[p].kc]
  PROVE  IInv'
  <1>1. PICK new : new = [call[p] EXCEPT !.pc = "get"]
    OBVIOUS
  <1>2. /\ call[p] \in CallType /\ call[p].kc \in Clients /\ CallOK(p, call[p])
        /\ clientset \in [Clients -> BOOLEAN] /\ lock \in [Clients -> Callers \union {Nobody}]
    BY CallTyped DEF IInv, Typed
  <1>3. new \in CallType
    BY <1>1, <1>2 DEF CallType, PCs
  <1>4. /\ new.pc = "get" /\ new.op = call[p].op /\ new.kc = call[p].kc
        /\ new.write = call[p].write /\ new.try = call[p].try /\ new.node = call[p].node
        /\ new.answer = call[p].answer /\ new.hits = call[p].hits
    BY <1>1, <1>2 DEF CallType
  <1>5. CallOK(p, new)
    BY <1>2, <1>4 DEF Lock, CallOK, RoleOK, Role, WriteOK, RequestOK, AppliedOK, Succeeded, HitsOK
  <1>6. /\ lock' = [lock EXCEPT ![call[p].kc] = p] /\ call' = [call EXCEPT ![p] = new]
        /\ call[p].pc # "idle"
        /\ UNCHANGED <<phase, clientset, node, requests, ledger, writer, foreign, restarts>>
    BY <1>1 DEF Lock, Goto
  <1>7. lock' \in [Clients -> Callers \union {Nobody}]
    BY <1>2, <1>6
  <1> QED
    BY <1>2, <1>3, <1>4, <1>5, <1>6, <1>7, CallMoves

\* A try that fails, with as many disturbances as tries.
LEMMA TryFailsStep ==
  ASSUME IInv, NEW p \in Callers, NEW hits \in 0..MaxTries, hits >= call[p].try,
         call[p].pc \in {"get", "await"}, TryFails(p, hits)
  PROVE  IInv'
  <1>1. PICK new : new = [call[p] EXCEPT !.pc = "sleep", !.answer = "none", !.hits = hits]
    OBVIOUS
  <1>2. /\ call[p] \in CallType /\ call[p].kc \in Clients /\ CallOK(p, call[p])
        /\ clientset \in [Clients -> BOOLEAN] /\ lock \in [Clients -> Callers \union {Nobody}]
    BY CallTyped DEF IInv, Typed
  <1>3. new \in CallType
    BY <1>1, <1>2 DEF CallType, PCs
  <1>4. /\ new.pc = "sleep" /\ new.op = call[p].op /\ new.kc = call[p].kc
        /\ new.write = call[p].write /\ new.try = call[p].try /\ new.node = call[p].node
        /\ new.answer = "none" /\ new.hits = hits
    BY <1>1, <1>2 DEF CallType
  <1>5. CallOK(p, new)
    BY <1>2, <1>4 DEF CallOK, RoleOK, Role, WriteOK, RequestOK, AppliedOK, Succeeded, HitsOK
  <1>6. /\ call' = [call EXCEPT ![p] = new] /\ call[p].pc # "idle"
        /\ UNCHANGED <<phase, clientset, lock, node, requests, ledger, writer, foreign, restarts>>
    BY <1>1 DEF TryFails
  <1>7. clientset[new.kc]
    BY <1>4 DEF IInv, ConnectInv
  <1> QED
    BY <1>2, <1>3, <1>4, <1>5, <1>6, <1>7, CallMoves

\* One more disturbance is one more try accounted for.
LEMMA HitCounts ==
  ASSUME IInv, NEW p \in Callers
  PROVE  /\ Hit(call[p]) \in 0..MaxTries
         /\ Hit(call[p]) >= call[p].hits
         /\ call[p].hits >= call[p].try - 1 => Hit(call[p]) >= call[p].try
  BY CallTyped, Constants DEF Hit

\* The next try.
LEMMA NextTryStep ==
  ASSUME IInv, NEW p \in Callers, call[p].pc = "sleep", ~LastTry(p), Retry(p)
  PROVE  IInv'
  <1>1. PICK new : new = [call[p] EXCEPT !.pc = "get", !.try = call[p].try + 1]
    OBVIOUS
  <1>2. /\ call[p] \in CallType /\ call[p].kc \in Clients /\ CallOK(p, call[p])
        /\ clientset \in [Clients -> BOOLEAN] /\ lock \in [Clients -> Callers \union {Nobody}]
        /\ call[p].try \in Nat /\ call[p].hits \in Nat
    BY CallTyped DEF IInv, Typed
  <1>3. call[p].try + 1 \in 1..MaxTries
    BY CallTyped, Constants DEF LastTry
  <1>4. new \in CallType
    BY <1>1, <1>2, <1>3 DEF CallType, PCs
  <1>5. /\ new.pc = "get" /\ new.op = call[p].op /\ new.kc = call[p].kc
        /\ new.write = call[p].write /\ new.try = call[p].try + 1 /\ new.node = call[p].node
        /\ new.answer = call[p].answer /\ new.hits = call[p].hits
    BY <1>1, <1>2 DEF CallType
  <1>6. RequestOK(new)
    <2>1. \A req \in requests : req.try \in Nat
      BY Constants DEF IInv, Typed, RequestType
    <2> QED
      BY <1>2, <1>5, <2>1 DEF CallOK, RequestOK, AppliedOK, Succeeded
  <1>7. CallOK(p, new)
    BY <1>2, <1>5, <1>6 DEF CallOK, RoleOK, Role, WriteOK, AppliedOK, Succeeded, HitsOK
  <1>8. /\ call' = [call EXCEPT ![p] = new]
        /\ UNCHANGED <<phase, clientset, lock, node, requests, ledger, writer, foreign, restarts>>
    BY <1>1, <1>2 DEF Retry, RetryAt, NextTry, CallType, IInv, Typed
  <1>9. clientset[new.kc]
    BY <1>5 DEF IInv, ConnectInv
  <1> QED
    BY <1>2, <1>4, <1>5, <1>7, <1>8, <1>9, CallMoves

\* The node is read, to be changed.
LEMMA ReadStep ==
  ASSUME IInv, NEW p \in Callers, call[p].pc = "get", call[p].op \in {"Add", "Delete"},
         call' = [call EXCEPT ![p].pc = "update", ![p].node = node],
         UNCHANGED <<phase, clientset, lock, node, requests, ledger, writer, foreign, restarts>>
  PROVE  IInv'
  <1>1. PICK new : new = [call[p] EXCEPT !.pc = "update", !.node = node]
    OBVIOUS
  <1>2. /\ call[p] \in CallType /\ call[p].kc \in Clients /\ CallOK(p, call[p])
        /\ clientset \in [Clients -> BOOLEAN] /\ lock \in [Clients -> Callers \union {Nobody}]
        /\ node \in NodeType /\ writer \in {0} \union Writes
    BY CallTyped DEF IInv, Typed
  <1>3. new \in CallType
    BY <1>1, <1>2 DEF CallType, PCs
  <1>4. /\ new.pc = "update" /\ new.op = call[p].op /\ new.kc = call[p].kc
        /\ new.write = call[p].write /\ new.try = call[p].try /\ new.node = node
        /\ new.answer = call[p].answer /\ new.hits = call[p].hits
    BY <1>1, <1>2 DEF CallType
  <1>5. new.write \in Writes
    BY <1>2, <1>4 DEF CallOK, RoleOK, CallType
  <1>6. CopyOK(node, new.write)
    <2>1. writer <= new.write
      <3>1. \A b \in Writes : b > new.write => ledger[b].status = "unmade"
        BY <1>2, <1>4, <1>5, Constants DEF CallOK, WriteOK
      <3> QED
        BY <1>2, <1>5, <3>1, Constants DEF IInv, NodeInv
    <2> QED
      BY <1>2, <2>1 DEF CopyOK, NodeType
  <1>7. CallOK(p, new)
    BY <1>2, <1>4, <1>5, <1>6, Constants
    DEF CallOK, RoleOK, Role, WriteOK, RequestOK, AppliedOK, Succeeded, HitsOK
  <1>8. call' = [call EXCEPT ![p] = new] /\ clientset[new.kc]
    BY <1>1, <1>4 DEF IInv, ConnectInv
  <1> QED
    BY <1>2, <1>3, <1>4, <1>7, <1>8, CallMoves

\* There is one write under way at most: main is done with its Delete when
\* the retry goroutine may Add.
LEMMA OneWriter ==
  ASSUME IInv, NEW p \in Callers, NEW q \in Callers, call[p].write # 0, call[q].write # 0
  PROVE  p = q
  <1>1. call[p].pc # "idle" /\ call[q].pc # "idle"
    BY CallTyped, NotCallingOK DEF CallOK, RoleOK
  <1>2. call[p].op \in {"Add", "Delete"} /\ call[q].op \in {"Add", "Delete"}
    BY <1>1, CallTyped DEF CallOK, RoleOK
  <1> QED
    BY <1>1, <1>2, CallTyped DEF CallOK, RoleOK, Role

\* A goroutine that makes no write does not depend on ledger and requests.
LEMMA ReaderKept ==
  ASSUME NEW p, NEW c, CallOK(p, c), c.write = 0, c.pc # "idle" => phase' = phase,
         UNCHANGED node, requests' \subseteq RequestType
  PROVE  CallOK(p, c)'
  <1>1. \A req \in requests' : req.write # 0
    BY Constants DEF RequestType
  <1> QED
    BY <1>1 DEF CallOK, RoleOK, Role, WriteOK, CopyOK, RequestOK, AppliedOK, Succeeded, HitsOK

\* The process dies.
LEMMA DieStep ==
  ASSUME IInv, Die
  PROVE  IInv'
  <1> USE DEF IInv, Die
  <1>1. \A c \in Writes : /\ ledger'[c].status = (IF ledger[c].status = "pending" THEN "error" ELSE ledger[c].status)
                          /\ ledger'[c].value = ledger[c].value /\ ledger'[c].applied = ledger[c].applied
                          /\ ledger[c].status = "unmade" => ledger'[c] = ledger[c]
    BY DEF Typed, EntryType
  <1>2. Typed'
    <2>1. call' \in [Callers -> CallType]
      BY NotCallingOK
    <2>2. ledger' \in [Writes -> EntryType]
      BY DEF Typed, EntryType
    <2>3. clientset' \in [Clients -> BOOLEAN] /\ lock' \in [Clients -> Callers \union {Nobody}]
      OBVIOUS
    <2> QED
      BY <2>1, <2>2, <2>3 DEF Typed
  <1>3. \A p \in Callers : call'[p] = NotCalling
    OBVIOUS
  <1>4. CallInv'
    <2> SUFFICES ASSUME NEW p \in Callers PROVE CallOK(p, call[p])'
      BY DEF CallInv
    <2>1. CallOK(p, NotCalling)
      BY NotCallingOK
    <2>2. CallOK(p, NotCalling)'
      BY <2>1, NotCallingOK, ReaderKept DEF Typed
    <2> QED
      BY <1>3, <2>2 DEF CallOK, RoleOK, Role, WriteOK, CopyOK, RequestOK, AppliedOK, Succeeded, HitsOK
  <1>5. ConnectInv'
    BY <1>3, NotCallingOK DEF ConnectInv
  <1>6. LedgerInv'
    <2>1. Made' = Made /\ Added' = Added
      BY <1>1 DEF Made, Added
    <2>2. \A c \in Writes : ledger'[c].status = "unmade" <=> ledger[c].status = "unmade"
      BY <1>1
    <2>3. Cardinality(Deletes) <= restarts + 1
      <3>1. restarts <= restarts + 1 /\ restarts \in Nat
        BY Constants DEF Typed
      <3>2. Cardinality(Deletes) <= restarts \/ Cardinality(Deletes) <= restarts + 1
        BY DEF LedgerInv
      <3>3. Cardinality(Deletes) \in Nat
        BY WritesFinite, FS_CardinalityType
      <3> QED
        BY <3>1, <3>2, <3>3
    <2> QED
      BY <1>1, <2>1, <2>2, <2>3 DEF LedgerInv, Deletes
  <1>7. PendingInv'
    BY <1>1 DEF PendingInv
  <1>8. NodeInv' /\ RequestInv'
    <2>1. writer \in {0} \union Writes /\ \A req \in requests : req.write \in Writes
      BY DEF Typed, RequestType
    <2> QED
      BY <1>1, <2>1 DEF NodeInv, RequestInv, CopyOK
  <1> QED
    BY <1>2, <1>4, <1>5, <1>6, <1>7, <1>8

\* A method returns, and a write that returns "ok" has taken effect.
LEMMA ReturnStep ==
  ASSUME IInv, NEW p \in Callers, NEW how \in {"ok", "error"}, Return(p, how),
         call[p].pc \in {"get", "await", "sleep", "absent"} \/ call[p].op = "Once",
         call[p].pc # "idle",
         how = "ok" /\ call[p].write # 0 => Succeeded(call[p])
  PROVE  IInv'
  <1>1. CASE p = "main" /\ call[p].op = "Get" /\ how = "error"
    BY <1>1, DieStep DEF Return
  <1>2. CASE ~(p = "main" /\ call[p].op = "Get" /\ how = "error")
    <2> USE DEF IInv
    <2> DEFINE w == call[p].write
    <2>1. /\ Unlock(p) /\ call' = [call EXCEPT ![p] = NotCalling]
          /\ ledger' = IF w = 0 THEN ledger ELSE [ledger EXCEPT ![w].status = how]
          /\ phase' = IF p # "main" THEN phase ELSE IF call[p].op = "Delete" THEN "read" ELSE "up"
          /\ UNCHANGED <<clientset, node, requests, writer, foreign, restarts>>
      BY <1>2 DEF Return
    <2>2. /\ call[p] \in CallType /\ CallOK(p, call[p]) /\ w \in {0} \union Writes
          /\ Role(p, call[p])
      BY CallTyped DEF CallType, CallOK, RoleOK
    <2>3. \A q \in Callers : call'[q] = IF q = p THEN NotCalling ELSE call[q]
      BY <2>1 DEF Typed
    <2>4. \A c \in Writes : /\ ledger'[c].status = (IF c = w THEN how ELSE ledger[c].status)
                            /\ ledger'[c].value = ledger[c].value
                            /\ ledger'[c].applied = ledger[c].applied
                            /\ ledger[c].status = "unmade" => ledger'[c] = ledger[c]
      <3>1. w # 0 => ledger[w].status = "pending"
        BY <2>2 DEF CallOK, WriteOK
      <3>2. 0 \notin Writes
        BY Constants
      <3> QED
        BY <2>1, <2>2, <3>1, <3>2 DEF Typed, EntryType
    <2>5. w # 0 => ledger[w].status = "pending"
      BY <2>2 DEF CallOK, WriteOK
    <2>6. Typed'
      <3>1. ledger' \in [Writes -> EntryType]
        BY <2>1, <2>2 DEF Typed, EntryType
      <3>2. call' \in [Callers -> CallType]
        BY <2>1, NotCallingOK DEF Typed
      <3>3. lock' \in [Clients -> Callers \union {Nobody}]
        BY <2>1 DEF Typed, Unlock
      <3>4. phase' \in {"delete", "read", "up", "down"}
        BY <2>1 DEF Typed
      <3> QED
        BY <2>1, <3>1, <3>2, <3>3, <3>4 DEF Typed
    <2>7. ASSUME NEW q \in Callers, q # p
          PROVE  /\ w # 0 => call[q].write = 0
                 /\ p = "main" => call[q].pc = "idle"
      <3>1. w # 0 => call[q].write = 0
        BY <2>7, OneWriter
      <3>2. p = "main" => phase # "up"
        BY <2>2, Constants DEF Role
      <3>3. call[q].pc # "idle" => Role(q, call[q])
        BY CallTyped DEF CallOK, RoleOK
      <3>4. p = "main" => call[q].pc = "idle"
        BY <2>7, <3>2, <3>3 DEF Role
      <3> QED
        BY <3>1, <3>4
    <2>8. CallInv'
      <3> SUFFICES ASSUME NEW q \in Callers PROVE CallOK(q, call[q])'
        BY DEF CallInv
      <3>1. PICK c : c = call'[q]
        OBVIOUS
      <3>2. CallOK(q, c)'
        <4>1. CASE q = p
          <5>1. c = NotCalling /\ CallOK(q, NotCalling)
            BY <2>3, <3>1, <4>1, NotCallingOK
          <5> QED
            BY <2>1, <5>1, NotCallingOK, ReaderKept DEF Typed
        <4>2. CASE q # p /\ w = 0
          <5>1. c = call[q] /\ CallOK(q, c) /\ UNCHANGED ledger
            BY <2>1, <2>3, <3>1, <4>2, CallTyped
          <5>2. CASE p # "main"
            BY <2>1, <5>1, <5>2, CallKept
          <5>3. CASE p = "main"
            <6>1. c.pc = "idle" /\ c.write = 0
              BY <2>7, <4>2, <5>1, <5>3, NotCallingOK DEF CallOK, RoleOK
            <6> QED
              BY <2>1, <5>1, <6>1, ReaderKept DEF Typed
          <5> QED
            BY <5>2, <5>3
        <4>3. CASE q # p /\ w # 0
          <5>1. c = call[q] /\ CallOK(q, c) /\ c.write = 0
            BY <2>3, <2>7, <3>1, <4>3, CallTyped
          <5>2. c.pc # "idle" => phase' = phase
            BY <2>1, <2>7, <4>3, <5>1
          <5> QED
            BY <2>1, <5>1, <5>2, ReaderKept DEF Typed
        <4> QED
          BY <4>1, <4>2, <4>3
      <3> QED
        BY <3>1, <3>2 DEF CallOK, RoleOK, Role, WriteOK, CopyOK, RequestOK, AppliedOK, Succeeded, HitsOK
    <2>9. ConnectInv'
      <3>1. phase' = "up" => clientset["kc"]
        BY <2>1, <2>2 DEF ConnectInv, Role
      <3>2. ASSUME NEW q \in Callers
            PROVE  /\ call'[q].pc \in {"get", "update", "await", "sleep", "absent"} => clientset[call'[q].kc]
                   /\ call'[q].pc = "init" => phase' # "up"
        <4>1. CASE q = p
          BY <2>3, <4>1, NotCallingOK
        <4>2. CASE q # p
          BY <2>1, <2>3, <2>7, <4>2 DEF ConnectInv
        <4> QED
          BY <4>1, <4>2
      <3> QED
        BY <2>1, <3>1, <3>2 DEF ConnectInv
    <2>10. LedgerInv'
      <3>1. Made' = Made /\ Added' = Added
        BY <2>4, <2>5 DEF Made, Added
      <3>2. \A c \in Writes : ledger'[c].status = "unmade" <=> ledger[c].status = "unmade"
        BY <2>4, <2>5
      <3>3. phase = "delete" /\ call["main"].pc = "idle" => p # "main" /\ phase = "up"
        BY <2>2 DEF Role
      <3>4. Cardinality(Deletes) <= restarts + 1
        BY <3>3 DEF LedgerInv
      <3>5. ~(phase' = "delete" /\ call'["main"].pc = "idle")
        BY <2>1, <2>2 DEF Role
      <3> QED
        BY <2>1, <2>4, <3>1, <3>2, <3>4, <3>5 DEF LedgerInv, Deletes
    <2>11. PendingInv'
      <3> SUFFICES ASSUME NEW c \in Writes, ledger'[c].status = "pending"
                   PROVE  \E q \in Callers : call'[q].write = c
        BY DEF PendingInv
      <3>1. c # w /\ ledger[c].status = "pending"
        BY <2>4
      <3>2. PICK q \in Callers : call[q].write = c
        BY <3>1 DEF PendingInv
      <3> QED
        BY <2>3, <3>1, <3>2
    <2>12. NodeInv' /\ RequestInv'
      <3>1. writer \in {0} \union Writes /\ \A req \in requests : req.write \in Writes
        BY DEF Typed, RequestType
      <3>2. NodeInv'
        BY <2>1, <2>4, <3>1 DEF NodeInv
      <3>3. ASSUME NEW req \in requests
            PROVE  /\ CopyOK(req.node, req.write)'
                   /\ ledger'[req.write].status # "unmade"
                   /\ req.node.state = ledger'[req.write].value
                   /\ ledger'[req.write].status = "ok" /\ req.node.version = node.version
                        => node.state = req.node.state
                   /\ ledger'[req.write].status = "ok" => ledger'[req.write].applied
        <4>1. CASE req.write # w
          BY <2>1, <2>4, <3>1, <4>1 DEF RequestInv, CopyOK
        <4>2. CASE req.write = w
          <5>1. w # 0
            BY <3>1, <4>2, Constants
          <5>2. how = "ok" => /\ ledger[w].applied
                              /\ req.node.version = node.version => node.state = req.node.state
            BY <2>2, <4>2, <5>1 DEF CallOK, RequestOK, AppliedOK
          <5> QED
            BY <2>1, <2>4, <3>1, <4>2, <5>2 DEF RequestInv, CopyOK
        <4> QED
          BY <4>1, <4>2
      <3> QED
        BY <2>1, <3>2, <3>3 DEF RequestInv
    <2> QED
      BY <2>6, <2>8, <2>9, <2>10, <2>11, <2>12
  <1> QED
    BY <1>1, <1>2

\* There is no label to delete, which is a success.
LEMMA AbsentStep ==
  ASSUME IInv, NEW p \in Callers, call[p].pc = "get", call[p].op = "Delete",
         node.state = "none", Goto(p, "absent"),
         ledger' = [ledger EXCEPT ![call[p].write].applied = TRUE],
         UNCHANGED <<phase, clientset, lock, node, requests, writer, foreign, restarts>>
  PROVE  IInv'
  <1> USE DEF IInv
  <1> DEFINE w == call[p].write
  <1>1. /\ call[p] \in CallType /\ CallOK(p, call[p]) /\ call[p].kc \in Clients
        /\ w \in Writes /\ ledger[w].status = "pending" /\ ledger[w].value = "none"
    BY CallTyped DEF CallType, CallOK, RoleOK, WriteOK
  <1>2. \A c \in Writes : /\ ledger'[c].status = ledger[c].status
                          /\ ledger'[c].value = ledger[c].value
                          /\ ledger'[c].applied = (ledger[c].applied \/ c = w)
                          /\ c # w => ledger'[c] = ledger[c]
    BY <1>1 DEF Typed, EntryType
  <1>3. PICK new : new = [call[p] EXCEPT !.pc = "absent"]
    OBVIOUS
  <1>4. new \in CallType
    BY <1>1, <1>3 DEF CallType, PCs
  <1>5. /\ new.pc = "absent" /\ new.op = call[p].op /\ new.kc = call[p].kc
        /\ new.write = w /\ new.try = call[p].try /\ new.node = call[p].node
        /\ new.answer = call[p].answer /\ new.hits = call[p].hits
    BY <1>1, <1>3 DEF CallType
  <1>6. call' = [call EXCEPT ![p] = new] /\ \A q \in Callers : call'[q] = IF q = p THEN new ELSE call[q]
    BY <1>3 DEF Goto, Typed
  <1>7. Typed'
    <2>1. ledger' \in [Writes -> EntryType]
      BY <1>1 DEF Typed, EntryType
    <2>2. call' \in [Callers -> CallType]
      BY <1>4, <1>6 DEF Typed
    <2> QED
      BY <2>1, <2>2 DEF Typed
  <1>8. CallOK(p, new)'
    <2>1. \A req \in requests : req.write = w => req.node.state = "none"
      BY <1>1 DEF RequestInv
    <2>2. RequestOK(new)'
      BY <1>1, <1>5, <2>1 DEF CallOK, RequestOK, Succeeded
    <2>3. WriteOK(new)'
      BY <1>1, <1>2, <1>5, Constants DEF CallOK, WriteOK
    <2>4. ledger'[w].applied
      BY <1>1 DEF Typed, EntryType
    <2>5. AppliedOK(new)'
      BY <1>1, <1>5, <2>4 DEF CallOK, AppliedOK
    <2> QED
      BY <1>1, <1>5, <2>2, <2>3, <2>5, Constants DEF CallOK, RoleOK, Role, HitsOK
  <1>9. CallInv'
    <2> SUFFICES ASSUME NEW q \in Callers PROVE CallOK(q, call[q])'
      BY DEF CallInv
    <2>1. PICK c : c = call'[q]
      OBVIOUS
    <2>2. CallOK(q, c)'
      <3>1. CASE q = p
        BY <1>6, <1>8, <2>1, <3>1
      <3>2. CASE q # p
        <4>1. c = call[q] /\ CallOK(q, c)
          BY <1>6, <2>1, <3>2, CallTyped
        <4>2. c.write = 0
          BY <1>1, <3>2, <4>1, OneWriter, Constants
        <4> QED
          BY <4>1, <4>2, ReaderKept DEF Typed
      <3> QED
        BY <3>1, <3>2
    <2> QED
      BY <2>1, <2>2 DEF CallOK, RoleOK, Role, WriteOK, CopyOK, RequestOK, AppliedOK, Succeeded, HitsOK
  <1>10. ConnectInv'
    BY <1>5, <1>6 DEF ConnectInv
  <1>11. LedgerInv'
    <2>1. Made' = Made /\ Added' = Added
      BY <1>2 DEF Made, Added
    <2>2. call'["main"].pc = "idle" <=> call["main"].pc = "idle"
      BY <1>5, <1>6, Constants
    <2>3. \A c \in Writes : ledger'[c].status = "unmade" => ledger'[c] = Store!NoCall
      BY <1>1, <1>2 DEF LedgerInv
    <2> QED
      BY <1>2, <2>1, <2>2, <2>3 DEF LedgerInv, Deletes
  <1>12. PendingInv'
    BY <1>2, <1>5, <1>6 DEF PendingInv
  <1>13. NodeInv' /\ RequestInv'
    <2>1. writer \in {0} \union Writes /\ \A req \in requests : req.write \in Writes
      BY DEF Typed, RequestType
    <2> QED
      BY <1>2, <2>1 DEF NodeInv, RequestInv, CopyOK
  <1> QED
    BY <1>7, <1>9, <1>10, <1>11, <1>12, <1>13

\* An update is sent.
LEMMA UpdateStep ==
  ASSUME IInv, NEW p \in Callers, UpdateNode(p)
  PROVE  IInv'
  <1> USE DEF IInv
  <1> DEFINE w == call[p].write
  <1>1. /\ call[p] \in CallType /\ CallOK(p, call[p]) /\ call[p].kc \in Clients
        /\ call[p].pc = "update" /\ w \in Writes /\ ledger[w].status = "pending"
        /\ call[p].node \in NodeType /\ call[p].try \in 1..MaxTries
        /\ ledger[w].value \in StateValues
    BY CallTyped DEF UpdateNode, CallType, CallOK, RoleOK, WriteOK, Typed, EntryType
  <1>2. PICK sent : sent = [write |-> w, try |-> call[p].try,
                            node |-> [call[p].node EXCEPT !.state = ledger[w].value]]
    OBVIOUS
  <1>3. requests' = requests \union {sent}
    BY <1>2 DEF UpdateNode
  <1>4. /\ sent \in RequestType /\ sent.write = w /\ sent.try = call[p].try
        /\ sent.node.version = call[p].node.version
        /\ sent.node.foreign = call[p].node.foreign
        /\ sent.node.state = ledger[w].value
    BY <1>1, <1>2 DEF RequestType, NodeType
  <1>5. PICK new : new = [call[p] EXCEPT !.pc = "await"]
    OBVIOUS
  <1>6. new \in CallType
    BY <1>1, <1>5 DEF CallType, PCs
  <1>7. /\ new.pc = "await" /\ new.op = call[p].op /\ new.kc = call[p].kc
        /\ new.write = w /\ new.try = call[p].try /\ new.node = call[p].node
        /\ new.answer = "none" /\ new.hits = call[p].hits
    BY <1>1, <1>5 DEF CallType, CallOK, AppliedOK
  <1>8. \A q \in Callers : call'[q] = IF q = p THEN new ELSE call[q]
    BY <1>5 DEF UpdateNode, Goto, Typed
  <1>9. UNCHANGED <<phase, clientset, lock, node, ledger, writer, foreign, restarts>>
    BY DEF UpdateNode
  <1>10. Typed'
    <2>1. call' = [call EXCEPT ![p] = new]
      BY <1>5 DEF UpdateNode, Goto
    <2>2. call' \in [Callers -> CallType]
      BY <1>6, <2>1 DEF Typed
    <2> QED
      BY <1>3, <1>4, <1>9, <2>2 DEF Typed
  <1>11. \A req \in requests : req.write = w => req.try < call[p].try
    <2>1. \A req \in requests : req.try \in Nat
      BY Constants DEF Typed, RequestType
    <2> QED
      BY <1>1, <2>1, CallTyped DEF CallOK, RequestOK
  <1>12. CallOK(p, new)'
    <2>1. RequestOK(new)'
      <3> SUFFICES ASSUME NEW req \in requests', req.write = new.write
                   PROVE  /\ req.try <= new.try
                          /\ req.try = new.try => new.pc \in {"await", "sleep"}
                          /\ new.pc = "await" /\ req.try = new.try =>
                               new.answer = "none" /\ req.node.version = new.node.version
                          /\ ~Succeeded(new)
        BY DEF RequestOK, Succeeded
      <3>1. ~Succeeded(new) /\ new.try \in Nat
        BY <1>1, <1>7 DEF Succeeded
      <3>2. CASE req = sent
        BY <1>4, <1>7, <3>1, <3>2
      <3>3. CASE req \in requests
        <4>1. req.try \in Nat /\ req.try < new.try
          BY <1>7, <1>11, <3>3, Constants DEF Typed, RequestType
        <4> QED
          BY <1>7, <3>1, <4>1
      <3> QED
        BY <1>3, <3>2, <3>3
    <2> QED
      BY <1>1, <1>7, <1>9, <2>1 DEF CallOK, RoleOK, Role, WriteOK, AppliedOK, Succeeded, HitsOK
  <1>13. CallInv'
    <2> SUFFICES ASSUME NEW q \in Callers PROVE CallOK(q, call[q])'
      BY DEF CallInv
    <2>1. PICK c : c = call'[q]
      OBVIOUS
    <2>2. CallOK(q, c)'
      <3>1. CASE q = p
        BY <1>8, <1>12, <2>1, <3>1
      <3>2. CASE q # p
        <4>1. c = call[q] /\ CallOK(q, c)
          BY <1>8, <2>1, <3>2, CallTyped
        <4>2. c.write = 0
          BY <1>1, <3>2, <4>1, OneWriter, Constants
        <4> QED
          BY <1>9, <1>10, <4>1, <4>2, ReaderKept DEF Typed
      <3> QED
        BY <3>1, <3>2
    <2> QED
      BY <2>1, <2>2 DEF CallOK, RoleOK, Role, WriteOK, CopyOK, RequestOK, AppliedOK, Succeeded, HitsOK
  <1>14. ConnectInv'
    BY <1>1, <1>7, <1>8, <1>9 DEF ConnectInv
  <1>15. LedgerInv'
    <2>1. Made' = Made /\ Added' = Added
      BY <1>9 DEF Made, Added
    <2>2. call'["main"].pc = "idle" <=> call["main"].pc = "idle"
      BY <1>1, <1>7, <1>8, Constants
    <2> QED
      BY <1>9, <2>1, <2>2 DEF LedgerInv, Deletes
  <1>16. PendingInv'
    BY <1>7, <1>8, <1>9 DEF PendingInv
  <1>17. NodeInv'
    BY <1>9 DEF NodeInv
  <1>18. RequestInv'
    <2>1. CopyOK(sent.node, sent.write)
      BY <1>1, <1>4 DEF CallOK, CopyOK
    <2>2. ASSUME NEW req \in requests'
          PROVE  /\ CopyOK(req.node, req.write)
                 /\ ledger[req.write].status # "unmade"
                 /\ req.node.state = ledger[req.write].value
                 /\ ledger[req.write].status = "ok" /\ req.node.version = node.version
                      => node.state = req.node.state
                 /\ ledger[req.write].status = "ok" => ledger[req.write].applied
      BY <1>1, <1>3, <1>4, <2>1, <2>2 DEF RequestInv
    <2>3. ASSUME NEW req \in requests', NEW other \in requests',
                 req.write = other.write, req.try = other.try
          PROVE  req = other
      BY <1>3, <1>4, <1>11, <2>3, Constants DEF RequestInv, Typed, RequestType
    <2> QED
      BY <1>9, <2>2, <2>3 DEF RequestInv, CopyOK
  <1> QED
    BY <1>10, <1>13, <1>14, <1>15, <1>16, <1>17, <1>18

\* The next write has the next number, if the bounds leave room for it.
LEMMA NextWriteIs ==
  ASSUME IInv, Cardinality(Added) + Cardinality(Deletes) < LastWrite
  PROVE  \E n \in 0..LastWrite :
           /\ n + 1 <= LastWrite /\ NextWrite = n + 1 /\ NextWrite \in Writes
           /\ \A c \in Writes : ledger[c].status # "unmade" <=> c <= n
  <1>1. PICK n \in 0..LastWrite : \A c \in Writes : ledger[c].status # "unmade" <=> c <= n
    BY DEF IInv, LedgerInv
  <1>2. n \in Nat /\ LastWrite \in Nat /\ Writes = 1..LastWrite
    BY Constants
  <1>3. Made = 1..n
    BY <1>1, <1>2 DEF Made
  <1>4. Cardinality(Made) = n
    <2>1. 1 \in Int /\ n \in Int
      BY <1>2
    <2>2. Cardinality(1..n) = IF 1 > n THEN 0 ELSE n - 1 + 1
      BY <2>1, FS_Interval
    <2> QED
      BY <1>2, <1>3, <2>2
  <1>5. Made \intersect Added = Added
    BY DEF IInv, LedgerInv, Made, Added, Store!NoCall
  <1>6. Cardinality(Deletes) = Cardinality(Made) - Cardinality(Added)
    BY <1>5, WritesFinite, FS_Difference DEF Deletes
  <1>7. n < LastWrite
    <2>1. Cardinality(Added) \in Nat /\ Cardinality(Deletes) \in Nat
      BY WritesFinite, FS_CardinalityType
    <2> QED
      BY <1>2, <1>4, <1>6, <2>1
  <1>8. n + 1 \in Writes
    BY <1>2, <1>7
  <1>9. \A c \in Writes : (/\ ledger[c].status = "unmade"
                           /\ \A b \in Writes : b < c => ledger[b].status # "unmade") <=> c = n + 1
    BY <1>1, <1>2, <1>8
  <1>10. NextWrite = n + 1
    BY <1>8, <1>9 DEF NextWrite
  <1> QED
    BY <1>1, <1>2, <1>7, <1>8, <1>10

\* Who calls a writing method at its turn finds no write under way.
LEMMA WriterAlone ==
  ASSUME IInv, NEW p \in Callers, NEW op \in {"Add", "Delete"}, NEW kc \in Clients,
         call[p].pc = "idle",
         \A c : c.op = op /\ c.kc = kc => Role(p, c)
  PROVE  \A q \in Callers : call[q].write = 0
  <1>1. Role(p, [op |-> op, kc |-> kc])
    OBVIOUS
  <1>2. (p = "main" /\ phase = "delete") \/ (p = "worker" /\ phase = "up")
    BY <1>1, Constants DEF Role
  <1> SUFFICES ASSUME NEW q \in Callers, call[q].write # 0 PROVE FALSE
    BY CallTyped
  <1>3. call[q].pc # "idle" /\ call[q].op \in {"Add", "Delete"} /\ Role(q, call[q])
    BY CallTyped, NotCallingOK DEF CallOK, RoleOK
  <1>4. q = p
    BY <1>2, <1>3, Constants DEF Role
  <1> QED
    BY <1>3, <1>4

\* There is a number left for a Delete of main's and an Add within the bound.
LEMMA RoomForWrite ==
  ASSUME IInv, NEW p \in Callers, NEW op \in {"Add", "Delete"}, NEW kc \in Clients,
         call[p].pc = "idle",
         \A c : c.op = op /\ c.kc = kc => Role(p, c),
         op = "Add" => Cardinality(Added) < MaxAdds
  PROVE  Cardinality(Added) + Cardinality(Deletes) < LastWrite
  <1> USE DEF IInv
  <1>1. Role(p, [op |-> op, kc |-> kc])
    OBVIOUS
  <1>2. Cardinality(Added) \in Nat /\ Cardinality(Deletes) \in Nat /\ restarts \in 0..MaxRestarts
    BY WritesFinite, FS_CardinalityType DEF Typed
  <1>3. CASE op = "Delete"
    <2>1. p = "main" /\ phase = "delete"
      BY <1>1, <1>3 DEF Role
    <2>2. Cardinality(Deletes) <= restarts /\ Cardinality(Added) <= MaxAdds
      BY <2>1 DEF LedgerInv
    <2> QED
      BY <1>2, <2>2, Constants DEF LastWrite
  <1>4. CASE op = "Add"
    <2>1. phase # "delete"
      BY <1>1, <1>4 DEF Role
    <2>2. Cardinality(Deletes) <= restarts + 1
      BY <2>1 DEF LedgerInv
    <2> QED
      BY <1>2, <1>4, <2>2, Constants DEF LastWrite
  <1> QED
    BY <1>3, <1>4

\* A method is called by p, at its turn, with room for a write.
LEMMA EnterStep ==
  ASSUME IInv, NEW p \in Callers, NEW op \in {"Add", "Delete", "Get", "Once"},
         NEW kc \in Clients, NEW value \in StateValues,
         Enter(p, op, kc, value),
         \A c : c.op = op /\ c.kc = kc => Role(p, c),
         op = "Add" => value # "none" /\ Cardinality(Added) < MaxAdds,
         op = "Delete" => value = "none"
  PROVE  IInv'
  <1> USE DEF IInv
  <1> DEFINE writes == op \in {"Add", "Delete"}
  <1>1. PICK w : w = IF writes THEN NextWrite ELSE 0
    OBVIOUS
  <1>2. PICK new : new = [NotCalling EXCEPT !.pc = reConnect(kc), !.op = op, !.kc = kc,
                            !.write = IF op \in {"Add", "Delete"} THEN NextWrite ELSE 0]
    OBVIOUS
  <1>3. /\ new.pc = reConnect(kc) /\ new.op = op /\ new.kc = kc /\ new.write = w
        /\ new.try = 1 /\ new.answer = "none" /\ new.hits = 0
    BY <1>1, <1>2 DEF NotCalling
  <1>4. /\ call[p] = NotCalling /\ call[p].pc = "idle"
        /\ call' = [call EXCEPT ![p] = new]
        /\ UNCHANGED <<phase, clientset, lock, node, requests, writer, foreign, restarts>>
        /\ ledger' = IF writes
                       THEN [ledger EXCEPT ![w] = [Store!NoCall EXCEPT !.value = value, !.status = "pending"]]
                       ELSE ledger
    <2>1. call[p] = NotCalling
      BY CallTyped DEF Enter, CallOK, RoleOK
    <2> QED
      BY <1>1, <1>2, <2>1 DEF Enter
  <1>5. \A q \in Callers : call'[q] = IF q = p THEN new ELSE call[q]
    BY <1>4 DEF Typed
  <1>6. ASSUME writes
        PROVE  \A q \in Callers : call[q].write = 0
    BY <1>4, <1>6, WriterAlone
  <1>7. ASSUME writes
        PROVE  Cardinality(Added) + Cardinality(Deletes) < LastWrite
    BY <1>4, <1>7, RoomForWrite
  <1>8. PICK n \in 0..LastWrite :
          /\ writes => n + 1 <= LastWrite /\ w = n + 1 /\ w \in Writes
          /\ \A c \in Writes : ledger[c].status # "unmade" <=> c <= n
    <2>1. CASE writes
      BY <1>1, <1>7, <2>1, NextWriteIs
    <2>2. CASE ~writes
      BY <2>2 DEF LedgerInv
    <2> QED
      BY <2>1, <2>2
  <1>9. /\ ~writes => w = 0
        /\ n \in Nat /\ 0 \notin Writes /\ Writes \subseteq Nat
        /\ writes => ledger[w] = Store!NoCall
    BY <1>1, <1>8, Constants DEF LedgerInv
  <1>10. /\ Store!NoCall.value = "none" /\ Store!NoCall.status = "unmade" /\ Store!NoCall.applied = FALSE
    BY DEF Store!NoCall
  <1>11. \A c \in Writes : /\ c # w => ledger'[c] = ledger[c]
                           /\ c = w => /\ ledger'[c].status = "pending"
                                       /\ ledger'[c].value = value
                                       /\ ledger[c].status = "unmade" /\ ledger[c].value = "none"
    BY <1>4, <1>8, <1>9, <1>10 DEF Typed, Store!NoCall
  <1>12. Typed'
    <2>1. new \in CallType
      <3>1. NotCalling \in CallType
        BY NotCallingOK
      <3>2. reConnect(kc) \in PCs
        BY DEF reConnect, PCs
      <3>3. w \in {0} \union Writes
        BY <1>8, <1>9
      <3> QED
        BY <1>1, <1>2, <3>1, <3>2, <3>3 DEF CallType
    <2>2. call' \in [Callers -> CallType]
      BY <1>4, <2>1 DEF Typed
    <2>3. [Store!NoCall EXCEPT !.value = value, !.status = "pending"] \in EntryType
      BY DEF Store!NoCall, EntryType
    <2>4. ledger' \in [Writes -> EntryType]
      BY <1>4, <2>3 DEF Typed
    <2> QED
      BY <1>4, <2>2, <2>4 DEF Typed
  <1>13. new.pc \in {"init", "Lock"}
    BY <1>3 DEF reConnect
  <1>14. CallOK(p, new)'
    <2>1. Role(p, new)'
      BY <1>3, <1>4 DEF Role
    <2>2. WriteOK(new)'
      BY <1>3, <1>8, <1>9, <1>11, Constants DEF WriteOK
    <2>3. \A req \in requests : req.write # w
      <3>1. CASE writes
        BY <1>9, <1>10, <3>1 DEF RequestInv
      <3>2. CASE ~writes
        BY <1>9, <3>2 DEF Typed, RequestType
      <3> QED
        BY <3>1, <3>2
    <2>4. RequestOK(new)'
      BY <1>3, <1>4, <2>3 DEF RequestOK
    <2>5. new.write # 0 <=> new.op \in {"Add", "Delete"}
      BY <1>3, <1>8, <1>9
    <2> QED
      BY <1>3, <1>13, <2>1, <2>2, <2>4, <2>5 DEF CallOK, RoleOK, AppliedOK, Succeeded, HitsOK
  <1>15. CallInv'
    <2> SUFFICES ASSUME NEW q \in Callers PROVE CallOK(q, call[q])'
      BY DEF CallInv
    <2>1. PICK c : c = call'[q]
      OBVIOUS
    <2>2. CallOK(q, c)'
      <3>1. CASE q = p
        BY <1>5, <1>14, <2>1, <3>1
      <3>2. CASE q # p
        <4>1. c = call[q] /\ CallOK(q, c)
          BY <1>5, <2>1, <3>2, CallTyped
        <4>2. CASE writes
          <5>1. c.write = 0
            BY <1>6, <4>1, <4>2
          <5> QED
            BY <1>4, <1>12, <4>1, <5>1, ReaderKept DEF Typed
        <4>3. CASE ~writes
          BY <1>4, <4>1, <4>3, CallKept
        <4> QED
          BY <4>2, <4>3
      <3> QED
        BY <3>1, <3>2
    <2> QED
      BY <2>1, <2>2 DEF CallOK, RoleOK, Role, WriteOK, CopyOK, RequestOK, AppliedOK, Succeeded, HitsOK
  <1>16. ConnectInv'
    <2>1. \E c : c.op = op /\ c.kc = kc
      BY <1>3
    <2>2. new.pc = "init" => phase # "up"
      BY <1>3, <2>1 DEF reConnect, ConnectInv, Role
    <2> QED
      BY <1>4, <1>5, <1>13, <2>2 DEF ConnectInv
  <1>17. LedgerInv'
    <2>1. CASE ~writes
      <3>1. Made' = Made /\ Added' = Added
        BY <1>4, <2>1 DEF Made, Added
      <3>2. p = "main" => phase # "delete"
        <4>1. Role(p, new)
          BY <1>3
        <4> QED
          BY <1>3, <2>1, <4>1, Constants DEF Role
      <3>3. phase' = "delete" /\ call'["main"].pc = "idle" <=> phase = "delete" /\ call["main"].pc = "idle"
        BY <1>4, <1>5, <3>2, Constants
      <3> QED
        BY <1>4, <2>1, <3>1, <3>3 DEF LedgerInv, Deletes
    <2>2. CASE writes
      <3>1. /\ Made' = Made \union {w} /\ w \notin Made /\ w \notin Added
            /\ Added' = IF value = "none" THEN Added ELSE Added \union {w}
        BY <1>8, <1>11, <2>2 DEF Made, Added
      <3>2. /\ n + 1 \in 0..LastWrite
            /\ \A c \in Writes : ledger'[c].status # "unmade" <=> c <= n + 1
        BY <1>8, <1>9, <1>11, <2>2, Constants
      <3>3. \A c \in Writes : ledger'[c].status = "unmade" => ledger'[c] = Store!NoCall
        BY <1>11 DEF LedgerInv
      <3>4. CASE op = "Delete"
        <4>1. Added' = Added /\ Deletes' = Deletes \union {w} /\ w \notin Deletes
          BY <3>1, <3>4 DEF Deletes
        <4>2. Cardinality(Deletes \union {w}) = Cardinality(Deletes) + 1
          BY <4>1, WritesFinite, FS_AddElement
        <4>3. p = "main" /\ phase = "delete"
          <5>1. Role(p, new)
            BY <1>3
          <5> QED
            BY <1>3, <3>4, <5>1 DEF Role
        <4>4. Cardinality(Deletes) <= restarts /\ call'["main"].pc # "idle"
          BY <1>4, <1>5, <1>13, <4>3 DEF LedgerInv
        <4>5. Cardinality(Deletes) + 1 <= restarts + 1
          <5>1. Cardinality(Deletes) \in Nat /\ restarts \in Nat
            BY WritesFinite, FS_CardinalityType, Constants DEF Typed
          <5> QED
            BY <4>4, <5>1
        <4> QED
          BY <1>4, <3>2, <3>3, <4>1, <4>2, <4>4, <4>5 DEF LedgerInv, LastWrite
      <3>5. CASE op = "Add"
        <4>1. Added' = Added \union {w} /\ Deletes' = Deletes
          BY <3>1, <3>5 DEF Deletes
        <4>2. Cardinality(Added \union {w}) = Cardinality(Added) + 1
          BY <3>1, WritesFinite, FS_AddElement
        <4>3. Cardinality(Added) + 1 <= MaxAdds
          <5>1. Cardinality(Added) \in Nat
            BY WritesFinite, FS_CardinalityType
          <5> QED
            BY <3>5, <5>1, Constants
        <4>4. phase # "delete"
          <5>1. Role(p, new)
            BY <1>3
          <5> QED
            BY <1>3, <3>5, <5>1 DEF Role
        <4> QED
          BY <1>4, <3>2, <3>3, <4>1, <4>2, <4>3, <4>4 DEF LedgerInv, LastWrite
      <3> QED
        BY <2>2, <3>4, <3>5
    <2> QED
      BY <2>1, <2>2
  <1>18. PendingInv'
    <2> SUFFICES ASSUME NEW c \in Writes, ledger'[c].status = "pending"
                 PROVE  \E q \in Callers : call'[q].write = c
      BY DEF PendingInv
    <2>1. CASE c = w
      BY <1>3, <1>5, <2>1
    <2>2. CASE c # w
      <3>1. PICK q \in Callers : call[q].write = c
        BY <1>11, <2>2 DEF PendingInv
      <3>2. q # p
        BY <1>4, <1>9, <3>1, NotCallingOK
      <3> QED
        BY <1>5, <3>1, <3>2
    <2> QED
      BY <2>1, <2>2
  <1>19. NodeInv' /\ RequestInv'
    <2>1. writer \in {0} \union Writes /\ \A req \in requests : req.write \in Writes
      BY DEF Typed, RequestType
    <2>2. \A req \in requests : req.write # w
      BY <1>9, <1>10, <2>1 DEF RequestInv
    <2>3. NodeInv'
      BY <1>4, <1>11, <2>1 DEF NodeInv
    <2>4. RequestInv'
      BY <1>4, <1>11, <2>1, <2>2 DEF RequestInv, CopyOK
    <2> QED
      BY <2>3, <2>4
  <1> QED
    BY <1>12, <1>15, <1>16, <1>17, <1>18, <1>19

-----------------------------------------------------------------------------
(***************************************************************************)
(* The steps of the others.                                                *)
(***************************************************************************)

\* A call is as good after a change of the node, which disturbs it.
LEMMA Disturbed ==
  ASSUME IInv, NEW p \in Callers, NEW new, new = Disturb(call[p]),
         node' \in NodeType, node'.version = node.version + 1,
         phase' = phase, requests' \subseteq requests,
         \A c \in Writes : /\ ledger'[c].status = ledger[c].status
                           /\ ledger'[c].value = ledger[c].value
                           /\ ledger[c].applied => ledger'[c].applied
  PROVE  /\ CallOK(p, new)' /\ new \in CallType
         /\ new.pc = call[p].pc /\ new.write = call[p].write /\ new.kc = call[p].kc
  <1>1. /\ call[p] \in CallType /\ CallOK(p, call[p]) /\ call[p].write \in {0} \union Writes
        /\ call[p].hits \in Nat /\ call[p].try \in Nat
    BY CallTyped DEF CallType
  <1>2. PICK h \in 0..MaxTries :
          /\ h >= call[p].hits
          /\ call[p].write # 0 /\ call[p].hits >= call[p].try - 1 => h >= call[p].try
          /\ new = [call[p] EXCEPT !.hits = h]
          /\ call[p].pc = "idle" => new = call[p]
    <2>1. CASE call[p].pc # "idle" /\ call[p].write # 0
      BY <2>1, HitCounts DEF Disturb
    <2>2. CASE ~(call[p].pc # "idle" /\ call[p].write # 0)
      <3>1. new = call[p] /\ call[p].write = 0
        BY <1>1, <2>2, NotCallingOK DEF Disturb, CallOK, RoleOK
      <3>2. call[p] = [call[p] EXCEPT !.hits = call[p].hits]
        BY <1>1 DEF CallType
      <3> QED
        BY <1>1, <3>1, <3>2 DEF CallType
    <2> QED
      BY <2>1, <2>2
  <1>3. new \in CallType
    BY <1>1, <1>2 DEF CallType
  <1>4. /\ new.pc = call[p].pc /\ new.op = call[p].op /\ new.kc = call[p].kc
        /\ new.write = call[p].write /\ new.try = call[p].try /\ new.node = call[p].node
        /\ new.answer = call[p].answer /\ new.hits = h
    BY <1>1, <1>2 DEF CallType
  <1>5. node.version \in Nat /\ call[p].node.version \in Nat
    BY <1>1 DEF IInv, Typed, NodeType, CallType
  <1>6. RoleOK(p, new)' /\ WriteOK(new)' /\ AppliedOK(new)'
    <2>1. RoleOK(p, new)'
      BY <1>1, <1>2, <1>4 DEF CallOK, RoleOK, Role
    <2>2. WriteOK(new)'
      BY <1>1, <1>4 DEF CallOK, WriteOK
    <2>3. Succeeded(new) => new.write \in Writes
      BY <1>1, <1>4 DEF CallOK, RoleOK, AppliedOK, Succeeded
    <2>4. AppliedOK(new)'
      BY <1>1, <1>4, <2>3 DEF CallOK, AppliedOK, Succeeded
    <2> QED
      BY <2>1, <2>2, <2>4
  <1>7. new.pc = "update" => CopyOK(new.node, new.write)'
    BY <1>1, <1>4, <1>5 DEF CallOK, CopyOK
  <1>8. RequestOK(new)'
    <2>1. \A req \in requests : req.node.version \in Nat /\ req.node.version <= node.version
      BY DEF IInv, Typed, RequestType, NodeType, RequestInv, CopyOK
    <2> QED
      BY <1>1, <1>4, <1>5, <2>1 DEF CallOK, RequestOK, Succeeded
  <1>9. HitsOK(new)'
    <2>1. call[p].pc \in {"update", "await"} => call[p].write # 0
      BY <1>1 DEF CallOK, RoleOK
    <2>2. h \in Nat /\ h >= call[p].hits
      BY <1>2, Constants
    <2> QED
      BY <1>1, <1>2, <1>4, <2>1, <2>2 DEF CallOK, HitsOK, AppliedOK
  <1> QED
    BY <1>3, <1>4, <1>6, <1>7, <1>8, <1>9 DEF CallOK

\* Somebody else changes a label of the node.
LEMMA OthersStep ==
  ASSUME IInv, OthersUpdate
  PROVE  IInv'
  <1> USE DEF IInv, OthersUpdate
  <1>1. /\ node' \in NodeType /\ node'.version = node.version + 1 /\ node'.state = node.state
        /\ node'.foreign = foreign' /\ foreign' \in Nat /\ node.version \in Nat
    <2>1. node \in NodeType /\ foreign' \in Nat
      BY DEF Typed
    <2>2. node' = [node EXCEPT !.version = node.version + 1, !.foreign = foreign']
      OBVIOUS
    <2> HIDE DEF OthersUpdate
    <2>3. node'.version = node.version + 1 /\ node'.foreign = foreign' /\ node'.state = node.state
      BY <2>1, <2>2 DEF NodeType
    <2>4. node' \in NodeType
      <3>1. node' = [version |-> node.version + 1, state |-> node.state, foreign |-> foreign']
        BY <2>1, <2>2 DEF NodeType
      <3>2. node.version + 1 \in Nat /\ node.state \in StateValues
        BY <2>1 DEF NodeType
      <3> QED
        BY <2>1, <3>1, <3>2 DEF NodeType
    <2> QED
      BY <2>1, <2>3, <2>4 DEF NodeType
  <1>2. \A p \in Callers : call'[p] = Disturb(call[p])
    OBVIOUS
  <1>3. ASSUME NEW p \in Callers
        PROVE  /\ CallOK(p, call[p])' /\ call'[p] \in CallType
               /\ call'[p].pc = call[p].pc /\ call'[p].write = call[p].write
               /\ call'[p].kc = call[p].kc
    <2>1. PICK new : new = call'[p]
      OBVIOUS
    <2>2. /\ CallOK(p, new)' /\ new \in CallType
          /\ new.pc = call[p].pc /\ new.write = call[p].write /\ new.kc = call[p].kc
      <3>1. new = Disturb(call[p])
        BY <1>2, <2>1
      <3> QED
        BY <1>1, <3>1, Disturbed
    <2> QED
      BY <2>1, <2>2 DEF CallOK, RoleOK, Role, WriteOK, CopyOK, RequestOK, AppliedOK, Succeeded, HitsOK
  <1>4. Typed'
    <2>1. call' \in [Callers -> CallType]
      BY <1>3
    <2> QED
      BY <1>1, <2>1 DEF Typed
  <1>5. CallInv' /\ ConnectInv' /\ PendingInv'
    BY <1>3 DEF CallInv, ConnectInv, PendingInv
  <1>6. LedgerInv'
    <2>1. Made' = Made /\ Added' = Added
      BY DEF Made, Added
    <2>2. call'["main"].pc = call["main"].pc
      BY <1>3, Constants
    <2> QED
      BY <2>1, <2>2 DEF LedgerInv, Deletes
  <1>7. NodeInv'
    BY <1>1 DEF NodeInv
  <1>8. RequestInv'
    <2>1. \A req \in requests : req.node.version \in Nat
      BY DEF Typed, RequestType, NodeType
    <2> QED
      BY <1>1, <2>1 DEF RequestInv, CopyOK
  <1> QED
    BY <1>4, <1>5, <1>6, <1>7, <1>8

\* A new process, whose goroutines are all to come.
LEMMA RestartStep ==
  ASSUME IInv, Restart
  PROVE  IInv'
  <1> USE DEF IInv, Restart
  <1>1. \A p \in Callers : call[p] = NotCalling
    BY CallTyped DEF CallOK, RoleOK, Role
  <1>2. Typed'
    BY Constants DEF Typed
  <1>3. CallInv'
    <2> SUFFICES ASSUME NEW p \in Callers PROVE CallOK(p, call[p])'
      BY DEF CallInv
    <2>1. CallOK(p, NotCalling)'
      BY NotCallingOK, ReaderKept DEF Typed
    <2> QED
      BY <1>1, <2>1 DEF CallOK, RoleOK, Role, WriteOK, CopyOK, RequestOK, AppliedOK, Succeeded, HitsOK
  <1>4. ConnectInv' /\ PendingInv' /\ NodeInv' /\ RequestInv'
    BY <1>1, NotCallingOK DEF ConnectInv, PendingInv, NodeInv, RequestInv, CopyOK
  <1>5. LedgerInv'
    <2>1. Made' = Made /\ Added' = Added
      BY DEF Made, Added
    <2>2. call'["main"].pc = "idle" /\ phase' = "delete" /\ restarts' = restarts + 1
      BY <1>1, NotCallingOK, Constants
    <2> QED
      BY <2>1, <2>2 DEF LedgerInv, Deletes
  <1> QED
    BY <1>2, <1>3, <1>4, <1>5

\* What the API server does with an update: it changes the node, it finds the
\* node as it would make it, or it refuses.
LEMMA ApiEffect ==
  ASSUME IInv, NEW req \in requests, ApiHandles(req)
  PROVE  /\ req \in RequestType /\ req.write \in Writes /\ req.node.version \in Nat
         /\ ledger[req.write].status # "unmade" /\ req.node.state = ledger[req.write].value
         /\ UpToDate(req) <=> req.node.version = node.version
         /\ UpToDate(req) => writer <= req.write
         /\ requests' = requests \ {req}
         /\ ledger' = IF UpToDate(req) THEN [ledger EXCEPT ![req.write].applied = TRUE] ELSE ledger
         /\ UNCHANGED <<phase, clientset, lock, foreign, restarts>>
         /\ \E changes \in BOOLEAN :
              /\ changes => /\ UpToDate(req) /\ node' \in NodeType
                            /\ node'.version = node.version + 1 /\ node.state # req.node.state
                            /\ node'.state = req.node.state /\ node'.foreign = node.foreign
                            /\ writer' = req.write
              /\ ~changes => /\ node' = node /\ writer' = writer
                             /\ UpToDate(req) => node.state = req.node.state
              /\ call' = [p \in Callers |->
                    IF /\ call[p].pc = "await"
                       /\ call[p].write = req.write /\ call[p].try = req.try
                      THEN [call[p] EXCEPT !.answer = IF UpToDate(req) THEN "ok" ELSE "conflict"]
                    ELSE IF changes THEN Disturb(call[p]) ELSE call[p]]
  <1> DEFINE new == [req.node EXCEPT !.version = node.version]
             changed == UpToDate(req) /\ new # node
  <1>1. /\ req \in RequestType /\ req.write \in Writes /\ req.node \in NodeType
        /\ req.node.version \in Nat /\ node.version \in Nat /\ node \in NodeType
        /\ CopyOK(req.node, req.write) /\ req.node.state = ledger[req.write].value
        /\ ledger[req.write].status # "unmade"
    BY Constants DEF IInv, Typed, RequestType, NodeType, RequestInv
  <1>2. /\ requests' = requests \ {req}
        /\ node' = IF changed THEN [new EXCEPT !.version = @ + 1] ELSE node
        /\ writer' = IF changed THEN req.write ELSE writer
        /\ ledger' = IF UpToDate(req) THEN [ledger EXCEPT ![req.write].applied = TRUE] ELSE ledger
        /\ call' = [p \in Callers |->
                      IF /\ call[p].pc = "await"
                         /\ call[p].write = req.write /\ call[p].try = req.try
                        THEN [call[p] EXCEPT !.answer = IF UpToDate(req) THEN "ok" ELSE "conflict"]
                      ELSE IF changed THEN Disturb(call[p]) ELSE call[p]]
        /\ UNCHANGED <<phase, clientset, lock, foreign, restarts>>
    BY DEF ApiHandles
  <1>3. new \in NodeType /\ new.version = node.version /\ new.state = req.node.state
          /\ new.foreign = req.node.foreign
    BY <1>1 DEF NodeType
  <1>4. UpToDate(req) <=> req.node.version = node.version
    BY DEF UpToDate
  <1>5. UpToDate(req) => req.node.foreign = node.foreign /\ writer <= req.write
    BY <1>1, <1>4 DEF CopyOK
  <1>6. UpToDate(req) => (changed <=> node.state # req.node.state)
    <2> SUFFICES ASSUME UpToDate(req), node.state = req.node.state PROVE new = node
      BY <1>3
    <2>1. new.foreign = node.foreign /\ new.state = node.state /\ new.version = node.version
      BY <1>3, <1>5
    <2> HIDE DEF new
    <2> QED
      BY <1>1, <1>3, <2>1 DEF NodeType
  <1>7. changed => /\ node' \in NodeType /\ node'.version = node.version + 1
                   /\ node'.state = req.node.state /\ node'.foreign = node.foreign
    <2> SUFFICES ASSUME changed
                 PROVE  /\ node' \in NodeType /\ node'.version = node.version + 1
                        /\ node'.state = req.node.state /\ node'.foreign = node.foreign
      OBVIOUS
    <2>1. node' = [new EXCEPT !.version = new.version + 1]
      BY <1>2
    <2> HIDE DEF new
    <2>2. node' = [version |-> new.version + 1, state |-> new.state, foreign |-> new.foreign]
      BY <1>3, <2>1 DEF NodeType
    <2>3. new.version + 1 \in Nat /\ new.state \in StateValues /\ new.foreign \in Nat
      BY <1>3 DEF NodeType
    <2>4. node' \in NodeType
      BY <2>2, <2>3 DEF NodeType
    <2> QED
      BY <1>3, <1>5, <2>2, <2>4
  <1> HIDE DEF new
  <1>8. PICK changes \in BOOLEAN : changes <=> changed
    OBVIOUS
  <1> QED
    BY <1>1, <1>2, <1>4, <1>5, <1>6, <1>7, <1>8

\* The API server handles an update: it takes effect, or is refused, and the
\* call that awaits it is answered.
LEMMA ApiStep ==
  ASSUME IInv, NEW req \in requests, ApiHandles(req)
  PROVE  IInv'
  <1> USE DEF IInv
  <1> DEFINE w == req.write
             handled(p) == /\ call[p].pc = "await"
                           /\ call[p].write = req.write /\ call[p].try = req.try
  <1>1. /\ req \in RequestType /\ w \in Writes /\ req.try \in Nat
        /\ req.node.version \in Nat /\ node.version \in Nat /\ node \in NodeType
        /\ req.node.state = ledger[w].value
        /\ ledger[w].status # "unmade" /\ writer \in {0} \union Writes
    <2>1. /\ req \in RequestType /\ w \in Writes /\ req.node.version \in Nat
          /\ req.node.state = ledger[w].value /\ ledger[w].status # "unmade"
      BY ApiEffect
    <2>2. req.try \in Nat
      BY <2>1, Constants DEF RequestType
    <2>3. node.version \in Nat /\ node \in NodeType /\ writer \in {0} \union Writes
      BY DEF Typed, NodeType
    <2> QED
      BY <2>1, <2>2, <2>3
  <1>2. PICK changes \in BOOLEAN :
        /\ changes => /\ UpToDate(req) /\ node' \in NodeType
                      /\ node'.version = node.version + 1 /\ node.state # req.node.state
                      /\ node'.state = req.node.state /\ node'.foreign = node.foreign
                      /\ writer' = req.write
        /\ ~changes => /\ node' = node /\ writer' = writer
                       /\ UpToDate(req) => node.state = req.node.state
        /\ call' = [p \in Callers |->
              IF /\ call[p].pc = "await"
                 /\ call[p].write = req.write /\ call[p].try = req.try
                THEN [call[p] EXCEPT !.answer = IF UpToDate(req) THEN "ok" ELSE "conflict"]
              ELSE IF changes THEN Disturb(call[p]) ELSE call[p]]
    BY ApiEffect
  <1>3. /\ requests' = requests \ {req}
        /\ ledger' = IF UpToDate(req) THEN [ledger EXCEPT ![w].applied = TRUE] ELSE ledger
        /\ UNCHANGED <<phase, clientset, lock, foreign, restarts>>
    BY ApiEffect
  <1>4. UpToDate(req) <=> req.node.version = node.version
    BY ApiEffect
  <1>5. UpToDate(req) /\ ~changes => node.state = req.node.state
    BY <1>2
  <1>6. /\ changes => /\ node' \in NodeType /\ node'.version = node.version + 1
                      /\ node'.state = req.node.state /\ node'.foreign = node.foreign
        /\ ~changes => node' = node
    BY <1>2
  <1>7. \A c \in Writes : /\ ledger'[c].status = ledger[c].status
                          /\ ledger'[c].value = ledger[c].value
                          /\ ledger[c].applied => ledger'[c].applied
                          /\ c = w /\ UpToDate(req) => ledger'[c].applied
                          /\ c # w => ledger'[c] = ledger[c]
    BY <1>1, <1>2, <1>3 DEF Typed, EntryType
  <1>8. changes => UpToDate(req)
    BY <1>2
  <1>9. ASSUME NEW p \in Callers
        PROVE  /\ CallOK(p, call[p])' /\ call'[p] \in CallType
               /\ call'[p].pc = call[p].pc /\ call'[p].write = call[p].write
               /\ call'[p].kc = call[p].kc
    <2>1. PICK c : c = call'[p]
      OBVIOUS
    <2>2. call[p] \in CallType /\ CallOK(p, call[p]) /\ call[p].write \in {0} \union Writes
      BY CallTyped DEF CallType
    <2>3. CASE handled(p)
      <3>1. c = [call[p] EXCEPT !.answer = IF UpToDate(req) THEN "ok" ELSE "conflict"]
        BY <1>2, <1>3, <2>1, <2>3
      <3>2. c \in CallType
        BY <2>2, <3>1 DEF CallType
      <3>3. /\ c.pc = "await" /\ c.op = call[p].op /\ c.kc = call[p].kc
            /\ c.write = w /\ c.try = req.try /\ c.node = call[p].node
            /\ c.answer = (IF UpToDate(req) THEN "ok" ELSE "conflict") /\ c.hits = call[p].hits
            /\ call[p].write = w /\ call[p].pc = "await" /\ call[p].try = req.try
        BY <2>2, <2>3, <3>1 DEF CallType
      <3>4. call[p].answer = "none" /\ req.node.version = call[p].node.version
        BY <2>2, <2>3 DEF CallOK, RequestOK
      <3>5. RoleOK(p, c)' /\ WriteOK(c)' /\ AppliedOK(c)'
        <4>1. RoleOK(p, c)'
          BY <1>2, <1>3, <2>2, <3>3 DEF CallOK, RoleOK, Role
        <4>2. WriteOK(c)'
          BY <1>1, <1>7, <2>2, <3>3 DEF CallOK, WriteOK
        <4>3. AppliedOK(c)'
          BY <1>1, <1>7, <3>3 DEF AppliedOK, Succeeded
        <4> QED
          BY <4>1, <4>2, <4>3
      <3>6. RequestOK(c)'
        <4> SUFFICES ASSUME NEW other \in requests', other.write = w
                     PROVE  /\ other.try <= c.try
                            /\ other.try # c.try
                            /\ Succeeded(c) /\ other.node.version = node'.version
                                 => node'.state = other.node.state
          BY <3>3 DEF RequestOK
        <4>1. other \in requests /\ other # req
          BY <1>2, <1>3
        <4>2. other.try # c.try
          BY <3>3, <4>1 DEF RequestInv
        <4>3. other.try <= c.try
          BY <2>2, <3>3, <4>1 DEF CallOK, RequestOK
        <4>4. /\ other.node.version \in Nat /\ other.node.version <= node.version
              /\ other.node.state = req.node.state
          BY <1>1, <4>1 DEF Typed, RequestType, NodeType, RequestInv, CopyOK
        <4>5. ASSUME Succeeded(c), other.node.version = node'.version
              PROVE  node'.state = other.node.state
          <5>1. UpToDate(req)
            BY <3>3, <4>5 DEF Succeeded
          <5> QED
            BY <1>1, <1>5, <1>6, <4>4, <4>5, <5>1
        <4> QED
          BY <4>2, <4>3, <4>5
      <3>7. HitsOK(c)'
        <4>1. call[p].hits >= call[p].try - 1
          BY <2>2, <3>3 DEF CallOK, HitsOK
        <4>2. c.answer = "conflict" => call[p].hits >= call[p].try
          BY <1>4, <2>2, <3>3, <3>4 DEF CallOK, HitsOK
        <4> QED
          BY <3>3, <4>1, <4>2 DEF HitsOK
      <3>8. CallOK(p, c)'
        BY <3>3, <3>5, <3>6, <3>7 DEF CallOK
      <3> QED
        BY <2>1, <3>2, <3>3, <3>8
        DEF CallOK, RoleOK, Role, WriteOK, CopyOK, RequestOK, AppliedOK, Succeeded, HitsOK
    <2>4. CASE ~handled(p) /\ changes
      <3>1. c = Disturb(call[p])
        BY <1>2, <1>3, <2>1, <2>4
      <3>2. requests' \subseteq requests
        BY <1>2, <1>3
      <3>3. /\ CallOK(p, c)' /\ c \in CallType
            /\ c.pc = call[p].pc /\ c.write = call[p].write /\ c.kc = call[p].kc
        BY <1>2, <1>3, <1>6, <1>7, <2>4, <3>1, <3>2, Disturbed
      <3> QED
        BY <2>1, <3>3
        DEF CallOK, RoleOK, Role, WriteOK, CopyOK, RequestOK, AppliedOK, Succeeded, HitsOK
    <2>5. CASE ~handled(p) /\ ~changes
      <3>1. c = call[p] /\ node' = node /\ writer' = writer /\ phase' = phase
        BY <1>2, <1>3, <1>6, <2>1, <2>5
      <3>2. RoleOK(p, c)' /\ WriteOK(c)' /\ AppliedOK(c)'
        <4>1. RoleOK(p, c)'
          BY <2>2, <3>1 DEF CallOK, RoleOK, Role
        <4>2. WriteOK(c)'
          BY <1>7, <2>2, <3>1 DEF CallOK, WriteOK
        <4>3. AppliedOK(c)'
          BY <1>7, <2>2, <3>1 DEF CallOK, RoleOK, AppliedOK, Succeeded
        <4> QED
          BY <4>1, <4>2, <4>3
      <3>3. RequestOK(c)'
        BY <1>2, <1>3, <2>2, <3>1 DEF CallOK, RequestOK
      <3>4. HitsOK(c)' /\ (c.pc = "update" => CopyOK(c.node, c.write)')
        BY <2>2, <3>1 DEF CallOK, HitsOK, CopyOK
      <3>5. CallOK(p, c)'
        BY <3>2, <3>3, <3>4 DEF CallOK
      <3> QED
        BY <2>1, <2>2, <3>1, <3>5
        DEF CallOK, RoleOK, Role, WriteOK, CopyOK, RequestOK, AppliedOK, Succeeded, HitsOK
    <2> QED
      BY <2>3, <2>4, <2>5
  <1>10. Typed'
    <2>1. call' \in [Callers -> CallType]
      BY <1>2, <1>3, <1>9
    <2>2. ledger' \in [Writes -> EntryType]
      BY <1>1, <1>2, <1>3 DEF Typed, EntryType
    <2> QED
      BY <1>1, <1>2, <1>3, <1>6, <2>1, <2>2 DEF Typed
  <1>11. CallInv' /\ ConnectInv' /\ PendingInv'
    <2>1. CallInv'
      BY <1>9 DEF CallInv
    <2>2. ConnectInv'
      <3>1. UNCHANGED <<phase, clientset>>
        BY <1>3
      <3>2. \A p \in Callers : call'[p].pc = call[p].pc /\ call'[p].kc = call[p].kc
        BY <1>9
      <3> QED
        BY <3>1, <3>2 DEF ConnectInv
    <2>3. PendingInv'
      BY <1>7, <1>9 DEF PendingInv
    <2> QED
      BY <2>1, <2>2, <2>3
  <1>12. LedgerInv'
    <2>1. Made' = Made /\ Added' = Added
      BY <1>7 DEF Made, Added
    <2>2. call'["main"].pc = call["main"].pc
      BY <1>9, Constants
    <2>3. \A c \in Writes : ledger'[c].status = "unmade" => ledger'[c] = Store!NoCall
      BY <1>1, <1>7 DEF LedgerInv
    <2> QED
      BY <1>2, <1>3, <1>7, <2>1, <2>2, <2>3 DEF LedgerInv, Deletes
  <1>13. NodeInv'
    <2>1. node'.foreign = foreign'
      BY <1>2, <1>3, <1>6 DEF NodeInv
    <2>2. writer' # 0 => ledger'[writer'].status # "unmade"
      BY <1>1, <1>2, <1>3, <1>7 DEF NodeInv
    <2> QED
      BY <2>1, <2>2 DEF NodeInv
  <1>14. RequestInv'
    <2>1. requests' \subseteq requests
      BY <1>2, <1>3
    <2>2. ASSUME NEW other \in requests
          PROVE  /\ CopyOK(other.node, other.write)'
                 /\ ledger'[other.write].status # "unmade"
                 /\ other.node.state = ledger'[other.write].value
                 /\ ledger'[other.write].status = "ok" /\ other.node.version = node'.version
                      => node'.state = other.node.state
                 /\ ledger'[other.write].status = "ok" => ledger'[other.write].applied
      <3>1. /\ other.write \in Writes /\ other.node.version \in Nat
            /\ other.node.version <= node.version
        BY DEF Typed, RequestType, NodeType, RequestInv, CopyOK
      <3>2. CopyOK(other.node, other.write)'
        BY <1>1, <1>2, <1>3, <1>6, <3>1 DEF RequestInv, CopyOK
      <3>3. ledger'[other.write].status = "ok" /\ other.node.version = node'.version
              => node'.state = other.node.state
        BY <1>1, <1>6, <1>7, <3>1 DEF RequestInv
      <3> QED
        BY <1>7, <3>1, <3>2, <3>3 DEF RequestInv
    <2> QED
      BY <2>1, <2>2 DEF RequestInv
  <1> QED
    BY <1>10, <1>11, <1>12, <1>13, <1>14

-----------------------------------------------------------------------------
\* Goroutine p begins a call.
LEMMA BeginStep ==
  ASSUME IInv, MainCalls \/ WorkerCalls \/ \E w \in Watchers : WatcherCalls(w)
  PROVE  IInv'
  <1>1. "none" \in StateValues /\ Values \subseteq StateValues /\ {"kc", "mainkc"} = Clients
    BY DEF StateValues, Clients
  <1>2. {"main", "worker"} \subseteq Callers /\ Watchers \subseteq Callers
    BY DEF Callers
  <1>3. CASE phase = "delete" /\ Enter("main", "Delete", "mainkc", "none")
    BY <1>1, <1>2, <1>3, EnterStep DEF Role
  <1>4. CASE phase = "read" /\ Enter("main", "Get", "kc", "none")
    BY <1>1, <1>2, <1>4, EnterStep DEF Role
  <1>5. ASSUME phase = "up", Adds < MaxAdds, NEW v \in Values, Enter("worker", "Add", "kc", v)
        PROVE  IInv'
    <2>1. v # "none" /\ Cardinality(Added) < MaxAdds /\ v \in StateValues
      BY <1>1, <1>5, K8sValuesAssumption DEF Adds, Added
    <2> QED
      BY <1>1, <1>2, <1>5, <2>1, EnterStep DEF Role
  <1>6. CASE phase = "up" /\ Enter("worker", "Once", "kc", "none")
    BY <1>1, <1>2, <1>6, EnterStep DEF Role
  <1>7. ASSUME phase = "up", NEW w \in Watchers, NEW op \in {"Get", "Once"}, Enter(w, op, "kc", "none")
        PROVE  IInv'
    BY <1>1, <1>2, <1>7, EnterStep DEF Role
  <1> QED
    BY <1>3, <1>4, <1>5, <1>6, <1>7 DEF MainCalls, WorkerCalls, WatcherCalls, Up

\* Goroutine p goes on in its method.
LEMMA MethodStep ==
  ASSUME IInv, NEW p \in Callers, Method(p)
  PROVE  IInv'
  <1>1. CallOK(p, call[p]) /\ RoleOK(p, call[p])
    BY CallTyped DEF CallOK
  <1>2. CASE init(p)
    BY <1>2, InitStep
  <1>3. CASE Lock(p)
    BY <1>3, LockStep, DieStep DEF Lock
  <1>4. CASE CallOnce(p)
    <2>1. CASE clientset[call[p].kc]
      <3>1. call[p].pc = "Lock" /\ call[p].op = "Once" /\ Return(p, "ok")
        BY <1>4, <2>1 DEF CallOnce
      <3>2. call[p].write = 0
        BY <1>1, <3>1 DEF RoleOK
      <3> QED
        BY <3>1, <3>2, ReturnStep
    <2>2. CASE ~clientset[call[p].kc]
      BY <1>4, <2>2, DieStep DEF CallOnce
    <2> QED
      BY <2>1, <2>2
  <1>5. CASE GetNode(p)
    <2>1. call[p].pc = "get"
      BY <1>5 DEF GetNode
    <2>2. CASE call[p].op = "Get" /\ Return(p, "ok")
      <3>1. call[p].write = 0
        BY <1>1, <2>1, <2>2 DEF RoleOK
      <3> QED
        BY <2>1, <2>2, <3>1, ReturnStep
    <2>3. CASE TryFails(p, Hit(call[p]))
      <3>1. Hit(call[p]) \in 0..MaxTries /\ Hit(call[p]) >= call[p].try
        BY <1>1, <2>1, HitCounts DEF CallOK, HitsOK
      <3> QED
        BY <2>1, <2>3, <3>1, TryFailsStep
    <2> QED
      BY <1>5, <2>1, <2>2, <2>3, ReadStep, AbsentStep DEF GetNode
  <1>6. CASE LabelAbsent(p)
    BY <1>6, ReturnStep DEF LabelAbsent, Succeeded
  <1>7. CASE UpdateNode(p)
    BY <1>7, UpdateStep
  <1>8. CASE UpdateAnswered(p)
    <2>1. call[p].pc = "await"
      BY <1>8 DEF UpdateAnswered
    <2>2. CASE call[p].answer = "ok" /\ Return(p, "ok")
      BY <2>1, <2>2, ReturnStep DEF Succeeded
    <2>3. CASE call[p].answer = "conflict" /\ TryFails(p, call[p].hits)
      <3>1. call[p].hits \in 0..MaxTries /\ call[p].hits >= call[p].try
        BY <1>1, <2>3, CallTyped, Constants DEF CallOK, HitsOK
      <3> QED
        BY <2>1, <2>3, <3>1, TryFailsStep
    <2>4. CASE TryFails(p, Hit(call[p]))
      <3>1. Hit(call[p]) \in 0..MaxTries /\ Hit(call[p]) >= call[p].try
        BY <1>1, <2>1, HitCounts DEF CallOK, HitsOK
      <3> QED
        BY <2>1, <2>4, <3>1, TryFailsStep
    <2> QED
      BY <1>8, <2>2, <2>3, <2>4 DEF UpdateAnswered
  <1>9. CASE Retry(p)
    <2>1. call[p].pc = "sleep"
      BY <1>9 DEF Retry
    <2>2. CASE LastTry(p)
      BY <1>9, <2>1, <2>2, ReturnStep DEF Retry, GaveUp
    <2>3. CASE ~LastTry(p)
      BY <1>9, <2>1, <2>3, NextTryStep
    <2> QED
      BY <2>2, <2>3
  <1> QED
    BY <1>2, <1>3, <1>4, <1>5, <1>6, <1>7, <1>8, <1>9 DEF Method

\* Every step preserves the invariant.
LEMMA NextIInv == IInv /\ [Next]_vars => IInv'
  <1> SUFFICES ASSUME IInv, [Next]_vars PROVE IInv'
    OBVIOUS
  <1>1. CASE UNCHANGED vars
    BY <1>1 DEF vars, IInv, Typed, CallInv, CallOK, RoleOK, Role, WriteOK, CopyOK, RequestOK,
         AppliedOK, Succeeded, HitsOK, ConnectInv, LedgerInv, Made, Added, Deletes,
         PendingInv, NodeInv, RequestInv
  <1> QED
    BY <1>1, BeginStep, MethodStep, ApiStep, OthersStep, DieStep, RestartStep
    DEF Next, Crash, StaysDown

-----------------------------------------------------------------------------
\* The inductive invariant holds in every reachable state.
THEOREM Invariance == Spec => []IInv
  BY InitIInv, NextIInv, PTL DEF Spec

\* The types of the client's state, and that one label write is under way at
\* a time.
THEOREM TypeCorrect == Spec => []K8sTypeOK
  <1>1. IInv => K8sTypeOK
    <2> SUFFICES ASSUME IInv PROVE K8sTypeOK
      OBVIOUS
    <2> DEFINE Pending == {c \in Writes : ledger[c].status = "pending"}
    <2>1. \A c, d \in Pending : c = d
      <3> SUFFICES ASSUME NEW c \in Pending, NEW d \in Pending PROVE c = d
        OBVIOUS
      <3>1. PICK p \in Callers : call[p].write = c
        BY DEF IInv, PendingInv
      <3>2. PICK q \in Callers : call[q].write = d
        BY DEF IInv, PendingInv
      <3> QED
        BY <3>1, <3>2, OneWriter, Constants
    <2>2. Cardinality(Pending) <= 1
      <3>1. CASE Pending = {}
        BY <3>1, FS_EmptySet
      <3>2. ASSUME NEW c \in Pending PROVE Cardinality(Pending) <= 1
        <4>1. Pending = {c}
          BY <2>1
        <4>2. Cardinality({c}) = 1
          BY FS_Singleton
        <4> QED
          BY <4>1, <4>2
      <3> QED
        BY <3>1, <3>2
    <2> QED
      BY <2>2 DEF IInv, Typed, CallType, NodeType, K8sTypeOK
  <1> QED
    BY <1>1, Invariance, PTL

\* Nobody's label is undone by the writes of whole nodes, late requests of
\* failed calls and dead processes included.
THEOREM ForeignKept == Spec => []ForeignLabelsKept
  <1>1. IInv => ForeignLabelsKept
    BY DEF IInv, NodeInv, ForeignLabelsKept
  <1> QED
    BY <1>1, Invariance, PTL

\* A call that gives up met a disturbance for each of its tries.
THEOREM GivesUp == Spec => []GivesUpOnlyIfDisturbed
  <1>1. IInv => GivesUpOnlyIfDisturbed
    BY CallTyped, Constants DEF CallOK, HitsOK, GivesUpOnlyIfDisturbed
  <1> QED
    BY <1>1, Invariance, PTL

\* The unlocked clientset is written while nobody else uses the client.
THEOREM InitAlone == Spec => []NoInitRace
  <1>1. IInv => NoInitRace
    <2> SUFFICES ASSUME IInv, NEW p \in Callers, NEW q \in Callers, p # q,
                        call[p].pc = "init", call[q].pc # "idle"
                 PROVE  FALSE
      BY DEF NoInitRace
    <2>1. phase # "up"
      BY DEF IInv, ConnectInv
    <2> QED
      BY <2>1, CallTyped DEF CallOK, RoleOK, Role
  <1> QED
    BY <1>1, Invariance, PTL

-----------------------------------------------------------------------------
(***************************************************************************)
(* The refinement of LabelStore.  A call of AddNodeLabel or                *)
(* DeleteNodeLabel invokes a write, its return or the death of its process *)
(* answers it, and an update that is accepted applies it.                  *)
(***************************************************************************)
StoreUnchanged == UNCHANGED <<node, ledger, writer>>

\* What leaves the node and the history alone is a stutter of LabelStore.
LEMMA StoreStutter == StoreUnchanged => UNCHANGED Store!storeVars
  BY DEF StoreUnchanged, Store!storeVars

\* A call invokes the next write, or none.
LEMMA EnterInvokes ==
  ASSUME IInv, NEW p \in Callers, NEW op \in {"Add", "Delete", "Get", "Once"},
         NEW kc \in Clients, NEW value \in StateValues,
         Enter(p, op, kc, value),
         \A c : c.op = op /\ c.kc = kc => Role(p, c),
         op = "Add" => Cardinality(Added) < MaxAdds
  PROVE  [Store!StoreNext]_(Store!storeVars)
  <1>1. CASE op \in {"Add", "Delete"}
    <2>1. \A q \in Callers : call[q].write = 0
      BY <1>1, WriterAlone DEF Enter
    <2>2. PICK n \in 0..LastWrite :
            /\ NextWrite = n + 1 /\ NextWrite \in Writes
            /\ \A c \in Writes : ledger[c].status # "unmade" <=> c <= n
      BY <1>1, RoomForWrite, NextWriteIs DEF Enter
    <2>3. \A c \in Writes : ledger[c].status # "pending"
      BY <2>1, Constants DEF IInv, PendingInv
    <2>4. \A c \in Writes : ledger[c].status \in {"unmade", "pending", "ok", "error"}
      BY DEF IInv, Typed, EntryType
    <2>5. ledger[NextWrite].status = "unmade"
      BY <2>2, Constants
    <2>6. \A b \in Writes : b < NextWrite => ledger[b].status \in {"ok", "error"}
      BY <2>2, <2>3, <2>4, Constants
    <2>7. UNCHANGED <<node, writer>>
      BY DEF Enter
    <2>8. Store!Invoke(NextWrite, value)
      BY <1>1, <2>5, <2>6, <2>7 DEF Enter, Store!Invoke
    <2> QED
      BY <2>2, <2>8 DEF Store!StoreNext
  <1>2. CASE op \notin {"Add", "Delete"}
    BY <1>2, StoreStutter DEF Enter, StoreUnchanged
  <1> QED
    BY <1>1, <1>2

\* The death of the process answers the write under way, if there is one.
LEMMA DieAnswers ==
  ASSUME IInv, Die
  PROVE  [Store!StoreNext]_(Store!storeVars)
  <1>1. ledger \in [Writes -> EntryType] /\ UNCHANGED <<node, writer>>
    BY DEF IInv, Typed, Die
  <1>2. ledger' = [c \in Writes |-> IF ledger[c].status = "pending"
                                      THEN [ledger[c] EXCEPT !.status = "error"]
                                      ELSE ledger[c]]
    BY DEF Die
  <1>3. CASE \E c \in Writes : ledger[c].status = "pending"
    <2>1. PICK c \in Writes : ledger[c].status = "pending"
      BY <1>3
    <2>2. \A d \in Writes : ledger[d].status = "pending" => d = c
      <3> SUFFICES ASSUME NEW d \in Writes, ledger[d].status = "pending" PROVE d = c
        OBVIOUS
      <3>1. PICK p \in Callers : call[p].write = c
        BY <2>1 DEF IInv, PendingInv
      <3>2. PICK q \in Callers : call[q].write = d
        BY DEF IInv, PendingInv
      <3> QED
        BY <3>1, <3>2, OneWriter, Constants
    <2>3. ledger' = [ledger EXCEPT ![c].status = "error"]
      BY <1>1, <1>2, <2>1, <2>2
    <2>4. Store!Answer(c, "error")
      BY <1>1, <2>1, <2>3 DEF Store!Answer
    <2> QED
      BY <2>1, <2>4 DEF Store!StoreNext
  <1>4. CASE ~\E c \in Writes : ledger[c].status = "pending"
    <2>1. ledger' = ledger
      BY <1>1, <1>2, <1>4
    <2> QED
      BY <1>1, <2>1, StoreStutter DEF StoreUnchanged
  <1> QED
    BY <1>3, <1>4

\* A return answers the write, if the method makes one.
LEMMA ReturnAnswers ==
  ASSUME IInv, NEW p \in Callers, NEW how \in {"ok", "error"}, Return(p, how),
         how = "ok" /\ call[p].write # 0 => Succeeded(call[p])
  PROVE  [Store!StoreNext]_(Store!storeVars)
  <1>1. CASE p = "main" /\ call[p].op = "Get" /\ how = "error"
    BY <1>1, DieAnswers DEF Return
  <1>2. CASE ~(p = "main" /\ call[p].op = "Get" /\ how = "error")
    <2> DEFINE w == call[p].write
    <2>1. /\ ledger' = IF w = 0 THEN ledger ELSE [ledger EXCEPT ![w].status = how]
          /\ UNCHANGED <<node, writer>>
      BY <1>2 DEF Return
    <2>2. CASE w = 0
      BY <2>1, <2>2, StoreStutter DEF StoreUnchanged
    <2>3. CASE w # 0
      <3>1. w \in Writes /\ ledger[w].status = "pending"
        BY <2>3, CallTyped DEF CallType, CallOK, WriteOK
      <3>2. how = "ok" => ledger[w].applied
        BY <2>3, CallTyped DEF CallOK, AppliedOK
      <3>3. Store!Answer(w, how)
        BY <2>1, <2>3, <3>1, <3>2 DEF Store!Answer
      <3> QED
        BY <3>1, <3>3 DEF Store!StoreNext
    <2> QED
      BY <2>2, <2>3
  <1> QED
    BY <1>1, <1>2

\* A Delete that finds no label has taken effect.
LEMMA AbsentApplies ==
  ASSUME IInv, NEW p \in Callers, call[p].pc = "get", call[p].op = "Delete",
         node.state = "none",
         ledger' = [ledger EXCEPT ![call[p].write].applied = TRUE],
         UNCHANGED <<node, writer>>
  PROVE  [Store!StoreNext]_(Store!storeVars)
  <1> DEFINE w == call[p].write
  <1>1. w \in Writes /\ ledger[w].status = "pending" /\ ledger[w].value = "none"
    BY CallTyped DEF CallType, CallOK, RoleOK, WriteOK
  <1>2. Store!Apply(w)
    BY <1>1 DEF Store!Apply
  <1> QED
    BY <1>1, <1>2 DEF Store!StoreNext

\* An update that is accepted applies its write, and one of a write that has
\* succeeded changes nothing.
LEMMA ApiApplies ==
  ASSUME IInv, NEW req \in requests, ApiHandles(req)
  PROVE  [Store!StoreNext]_(Store!storeVars)
  <1> DEFINE w == req.write
  <1>1. /\ w \in Writes /\ ledger[w].status # "unmade" /\ req.node.state = ledger[w].value
        /\ UpToDate(req) <=> req.node.version = node.version
        /\ UpToDate(req) => writer <= w
        /\ ledger' = IF UpToDate(req) THEN [ledger EXCEPT ![w].applied = TRUE] ELSE ledger
    BY ApiEffect
  <1>2. \/ /\ UpToDate(req) /\ node'.state = req.node.state /\ writer' = w
           /\ node.state # req.node.state
        \/ /\ node' = node /\ writer' = writer
           /\ UpToDate(req) => node.state = req.node.state
    BY ApiEffect
  <1>3. ledger \in [Writes -> EntryType] /\ ledger[w] \in EntryType
    BY <1>1 DEF IInv, Typed
  <1>4. CASE ~UpToDate(req)
    BY <1>1, <1>2, <1>4, StoreStutter DEF StoreUnchanged
  <1>5. CASE UpToDate(req) /\ ledger[w].status \in {"pending", "error"}
    <2>1. node'.state = ledger[w].value
      BY <1>1, <1>2, <1>5
    <2>2. \/ writer <= w /\ writer' = w
          \/ node'.state = node.state /\ writer' = writer
      BY <1>1, <1>2, <1>5
    <2>3. Store!Apply(w)
      BY <1>1, <1>5, <2>1, <2>2 DEF Store!Apply
    <2> QED
      BY <1>1, <2>3 DEF Store!StoreNext
  <1>6. CASE UpToDate(req) /\ ledger[w].status = "ok"
    <2>1. node.state = req.node.state /\ ledger[w].applied
      BY <1>1, <1>6 DEF IInv, RequestInv
    <2>2. ledger' = [ledger EXCEPT ![w].applied = TRUE]
      BY <1>1, <1>6
    <2>3. [ledger[w] EXCEPT !.applied = TRUE] = ledger[w]
      BY <1>3, <2>1 DEF EntryType
    <2>4. ledger' = ledger
      <3> HIDE DEF w, EntryType
      <3> QED
        BY <1>1, <1>3, <2>2, <2>3
    <2>5. node'.state = node.state /\ writer' = writer
      BY <1>2, <2>1
    <2> QED
      BY <2>4, <2>5 DEF Store!storeVars
  <1> QED
    BY <1>1, <1>3, <1>4, <1>5, <1>6 DEF EntryType

\* A goroutine that begins a call invokes a write, or none.
LEMMA BeginInvokes ==
  ASSUME IInv, MainCalls \/ WorkerCalls \/ \E w \in Watchers : WatcherCalls(w)
  PROVE  [Store!StoreNext]_(Store!storeVars)
  <1>1. "none" \in StateValues /\ Values \subseteq StateValues /\ {"kc", "mainkc"} = Clients
    BY DEF StateValues, Clients
  <1>2. {"main", "worker"} \subseteq Callers /\ Watchers \subseteq Callers
    BY DEF Callers
  <1>3. CASE phase = "delete" /\ Enter("main", "Delete", "mainkc", "none")
    BY <1>1, <1>2, <1>3, EnterInvokes DEF Role
  <1>4. CASE phase = "read" /\ Enter("main", "Get", "kc", "none")
    BY <1>1, <1>2, <1>4, EnterInvokes DEF Role
  <1>5. ASSUME phase = "up", Adds < MaxAdds, NEW v \in Values, Enter("worker", "Add", "kc", v)
        PROVE  [Store!StoreNext]_(Store!storeVars)
    <2>1. Cardinality(Added) < MaxAdds /\ v \in StateValues
      BY <1>1, <1>5 DEF Adds, Added
    <2> QED
      BY <1>1, <1>2, <1>5, <2>1, EnterInvokes DEF Role
  <1>6. CASE phase = "up" /\ Enter("worker", "Once", "kc", "none")
    BY <1>1, <1>2, <1>6, EnterInvokes DEF Role
  <1>7. ASSUME phase = "up", NEW w \in Watchers, NEW op \in {"Get", "Once"}, Enter(w, op, "kc", "none")
        PROVE  [Store!StoreNext]_(Store!storeVars)
    BY <1>1, <1>2, <1>7, EnterInvokes DEF Role
  <1> QED
    BY <1>3, <1>4, <1>5, <1>6, <1>7 DEF MainCalls, WorkerCalls, WatcherCalls, Up

\* A goroutine that goes on in its method answers its write when it returns,
\* applies it when a Delete finds no label, and leaves it to the API server
\* otherwise.
LEMMA MethodAnswers ==
  ASSUME IInv, NEW p \in Callers, Method(p)
  PROVE  [Store!StoreNext]_(Store!storeVars)
  <1>1. RoleOK(p, call[p])
    BY CallTyped DEF CallOK
  <1>2. CASE init(p) \/ UpdateNode(p)
    BY <1>2, StoreStutter DEF init, UpdateNode, StoreUnchanged
  <1>3. CASE Lock(p)
    BY <1>3, DieAnswers, StoreStutter DEF Lock, StoreUnchanged
  <1>4. CASE CallOnce(p)
    <2>1. CASE clientset[call[p].kc]
      <3>1. call[p].write = 0 /\ Return(p, "ok")
        BY <1>1, <1>4, <2>1 DEF CallOnce, RoleOK
      <3> QED
        BY <3>1, ReturnAnswers
    <2>2. CASE ~clientset[call[p].kc]
      BY <1>4, <2>2, DieAnswers DEF CallOnce
    <2> QED
      BY <2>1, <2>2
  <1>5. CASE GetNode(p)
    <2>1. CASE call[p].op = "Get" /\ Return(p, "ok")
      <3>1. call[p].write = 0
        BY <1>1, <1>5, <2>1 DEF GetNode, RoleOK
      <3> QED
        BY <2>1, <3>1, ReturnAnswers
    <2>2. CASE TryFails(p, Hit(call[p]))
      BY <2>2, StoreStutter DEF TryFails, StoreUnchanged
    <2>3. CASE StoreUnchanged
      BY <2>3, StoreStutter
    <2>4. CASE /\ call[p].op = "Delete" /\ node.state = "none"
               /\ ledger' = [ledger EXCEPT ![call[p].write].applied = TRUE]
               /\ UNCHANGED <<node, writer>>
      BY <1>5, <2>4, AbsentApplies DEF GetNode
    <2> QED
      BY <1>5, <2>1, <2>2, <2>3, <2>4 DEF GetNode, StoreUnchanged
  <1>6. CASE LabelAbsent(p)
    BY <1>6, ReturnAnswers DEF LabelAbsent, Succeeded
  <1>7. CASE UpdateAnswered(p)
    <2>1. CASE call[p].answer = "ok" /\ Return(p, "ok")
      BY <2>1, ReturnAnswers DEF Succeeded
    <2>2. CASE UNCHANGED <<node, ledger, writer>>
      BY <2>2, StoreStutter DEF StoreUnchanged
    <2> QED
      BY <1>7, <2>1, <2>2 DEF UpdateAnswered, TryFails
  <1>8. CASE Retry(p)
    <2>1. CASE LastTry(p)
      BY <1>8, <2>1, ReturnAnswers DEF Retry, GaveUp
    <2>2. CASE ~LastTry(p)
      BY <1>8, <2>2, StoreStutter DEF Retry, StoreUnchanged
    <2> QED
      BY <2>1, <2>2
  <1> QED
    BY <1>2, <1>3, <1>4, <1>5, <1>6, <1>7, <1>8 DEF Method

\* What others write to the node does not touch the state label.
LEMMA OthersStutter ==
  ASSUME IInv, OthersUpdate
  PROVE  UNCHANGED Store!storeVars
  <1>1. node \in NodeType /\ UNCHANGED <<ledger, writer>>
    BY DEF IInv, Typed, OthersUpdate
  <1>2. node' = [node EXCEPT !.version = node.version + 1, !.foreign = foreign']
    BY DEF OthersUpdate
  <1>3. node'.state = node.state
    BY <1>1, <1>2 DEF NodeType
  <1> QED
    BY <1>1, <1>3 DEF Store!storeVars

\* AddNodeLabel and DeleteNodeLabel keep the promise that the state label is a
\* register: a call that answers nil has taken effect, and a late request of
\* a call that failed or died does not undo a newer one.
THEOREM Refinement == Spec => ImplementsLabelStore
  <1>1. Init => Store!StoreInit
    BY DEF Init, Store!StoreInit
  <1>2. IInv /\ [Next]_vars => [Store!StoreNext]_(Store!storeVars)
    <2> SUFFICES ASSUME IInv, [Next]_vars PROVE [Store!StoreNext]_(Store!storeVars)
      OBVIOUS
    <2>1. CASE StoreUnchanged
      BY <2>1, StoreStutter
    <2>2. CASE OthersUpdate
      BY <2>2, OthersStutter
    <2>3. CASE Restart \/ StaysDown \/ UNCHANGED vars
      BY <2>1, <2>3 DEF Restart, StaysDown, vars, StoreUnchanged
    <2>4. CASE Crash
      BY <2>4, DieAnswers DEF Crash
    <2> QED
      BY <2>2, <2>3, <2>4, BeginInvokes, MethodAnswers, ApiApplies DEF Next
  <1> QED
    BY <1>1, <1>2, Invariance, PTL DEF Spec, ImplementsLabelStore, Store!StoreSpec

=============================================================================
