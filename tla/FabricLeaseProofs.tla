-------------------------- MODULE FabricLeaseProofs --------------------------
(***************************************************************************)
(* Proofs about FabricLease: for any number of reservations, endpoints and *)
(* waiting processes, and any crashes of brokers, workers and registry, no *)
(* endpoint is held open for two reservations, and a release that await/2  *)
(* confirms has closed both descriptors.                                   *)
(***************************************************************************)
EXTENDS FabricLease, TLAPS

\* A worker that is done with its descriptor for good.
Done(w) == worker[w] = "exited" /\ w \notin fds

\* The stored reservation still counts on worker w.
Counted(table, w) == table[w[1]] # Nothing /\ w[2] \in table[w[1]].workers

\* Only workers of handed out leases exist, and each is either still counted
\* by the stored reservation or done.
Guarded ==
  /\ \A w \in IoWorker : brokers[w[1]] = "none" => worker[w] = "none" /\ w \notin fds
  /\ \A w \in IoWorker : brokers[w[1]] # "none" => Counted(saved, w) \/ Done(w)
  /\ \A l \in Lease : saved[l] # Nothing => brokers[l] # "none"

\* A descriptor belongs to a worker that has opened it.
Opened == \A w \in fds : worker[w] \in {"running", "exited", "killed"}

\* A good confirmation is true.
Truthful == \A m \in mail : m.result = "ok" => Done(m.worker)

Disjoint ==
  \A k, l \in Lease :
    k # l /\ saved[k] # Nothing /\ saved[l] # Nothing => saved[k].keys \cap saved[l].keys = {}

\* While the registry is up its table is the stored one, but for the status.
Agreement ==
  registry # "down" =>
    \A l \in Lease :
      /\ leases[l] = Nothing <=> saved[l] = Nothing
      /\ leases[l] # Nothing => /\ leases[l].keys = saved[l].keys
                             /\ leases[l].workers = saved[l].workers

\* A confirmed lease is gone and never comes back.
Gone == \A l \in confirmed : brokers[l] # "none" /\ saved[l] = Nothing

\* The registry serves an open only for a lease that exists.
Serving == registry \in Lease => brokers[registry] # "none"

IInv == LeaseTypeOK /\ Guarded /\ Opened /\ Truthful /\ Disjoint /\ Agreement /\ Gone /\ Serving

-----------------------------------------------------------------------------
(* Updates of the table.                                                   *)

\* A change of status keeps the type, the keys and the workers.
LEMMA StatusChange ==
  ASSUME NEW table \in [Lease -> Entry \cup {Nothing}], NEW l \in Lease, table[l] # Nothing,
         NEW status \in {"open", "closing", "registry_restarted", "worker_down", "close_failed"},
         NEW new, new = [table EXCEPT ![l].status = status]
  PROVE  /\ new \in [Lease -> Entry \cup {Nothing}]
         /\ \A k \in Lease :
              /\ new[k] = Nothing <=> table[k] = Nothing
              /\ table[k] # Nothing => /\ new[k].keys = table[k].keys
                                    /\ new[k].workers = table[k].workers
<1>1. table[l] \in Entry
  OBVIOUS
<1>2. [table[l] EXCEPT !.status = status] \in Entry
  BY <1>1 DEF Entry
<1>3. /\ [table[l] EXCEPT !.status = status].keys = table[l].keys
      /\ [table[l] EXCEPT !.status = status].workers = table[l].workers
  BY <1>1 DEF Entry
<1>. DEFINE changed == [table[l] EXCEPT !.status = status]
<1>4. [table EXCEPT ![l].status = status] = [table EXCEPT ![l] = changed]
  OBVIOUS
<1>. QED  BY <1>1, <1>2, <1>3, <1>4, EntryAssumption

\* The shape of a table: which leases it holds, with which keys and workers.
SameShape(old, new) ==
  \A l \in Lease :
    /\ new[l] = Nothing <=> old[l] = Nothing
    /\ old[l] # Nothing => new[l].keys = old[l].keys /\ new[l].workers = old[l].workers

\* A step that leaves the stored shape and the processes alone.
LEMMA ShapeKeeps ==
  ASSUME Guarded, Opened, Disjoint, Gone, SameShape(saved, saved'),
         UNCHANGED <<brokers, worker, fds>>,
         \A l \in confirmed' : l \in confirmed \/ (brokers[l] # "none" /\ saved[l] = Nothing),
         confirmed' \subseteq Lease
  PROVE  Guarded' /\ Opened' /\ Disjoint' /\ Gone'
<1>1. \A w \in IoWorker : w[1] \in Lease
  BY DEF IoWorker
<1>2. Guarded'
  BY <1>1 DEF Guarded, Counted, Done, SameShape
<1>3. Opened'
  BY DEF Opened
<1>4. Disjoint'
  BY DEF Disjoint, SameShape
<1>5. Gone'
  BY DEF Gone, SameShape
<1>. QED  BY <1>2, <1>3, <1>4, <1>5

LEMMA WorkerIsPair ==
  \A w \in IoWorker : w[1] \in Lease /\ w[2] \in Side /\ w = <<w[1], w[2]>>
                   /\ \A l \in Lease : w \in WorkersOf(l) <=> w[1] = l
BY DEF IoWorker, WorkersOf

-----------------------------------------------------------------------------
(* The registry.                                                           *)

LEMMA InitHolds == LeaseInit => IInv
<1>. SUFFICES ASSUME LeaseInit PROVE IInv
  OBVIOUS
<1>1. LeaseTypeOK
  BY DEF LeaseInit, LeaseTypeOK, NoLease
<1>2. \A w \in IoWorker : w[1] \in Lease
  BY DEF IoWorker
<1>. QED
  BY <1>1, <1>2, LeaseAssumption
  DEF LeaseInit, NoLease, IInv, Guarded, Opened, Truthful, Disjoint, Agreement, Gone, Serving

LEMMA RegistryStartsKeeps ==
  ASSUME IInv, RegistryStarts
  PROVE  IInv'
<1>. USE DEF RegistryStarts
<1>1. saved \in [Lease -> Entry \cup {Nothing}]
  BY DEF IInv, LeaseTypeOK
<1>2. ASSUME NEW l \in Lease, saved[l] # Nothing
      PROVE  /\ Restored[l] \in Entry /\ Restored[l] # Nothing
             /\ Restored[l].keys = saved[l].keys /\ Restored[l].workers = saved[l].workers
  <2>1. saved[l] \in Entry /\ Restored[l] = [saved[l] EXCEPT !.status = "registry_restarted"]
    BY <1>1, <1>2 DEF Restored
  <2>. QED  BY <2>1, EntryAssumption DEF Entry
<1>3. \A l \in Lease : saved[l] = Nothing => Restored[l] = Nothing
  BY DEF Restored
<1>4. Restored \in [Lease -> Entry \cup {Nothing}]
  <2>1. \A l \in Lease : Restored[l] \in Entry \cup {Nothing}
    BY <1>2, <1>3
  <2>2. Restored = [l \in Lease |-> Restored[l]]
    BY DEF Restored
  <2>. QED  BY <2>1, <2>2
<1>5. LeaseTypeOK'
  BY <1>4 DEF IInv, LeaseTypeOK
<1>6. Agreement'
  BY <1>2, <1>3 DEF Agreement
<1>7. Guarded' /\ Opened' /\ Disjoint' /\ Gone'
  BY DEF IInv, Guarded, Counted, Done, Opened, Disjoint, Gone
<1>8. Truthful' /\ Serving'
  BY LeaseAssumption DEF IInv, Truthful, Done, Serving
<1>. QED  BY <1>5, <1>6, <1>7, <1>8 DEF IInv

LEMMA RegistryCrashesKeeps ==
  ASSUME IInv, RegistryCrashes
  PROVE  IInv'
<1>. USE DEF RegistryCrashes
<1>1. /\ brokers' \in [Lease -> {"none", "alive", "dead"}]
      /\ \A l \in Lease : brokers'[l] = "none" <=> brokers[l] = "none"
  <2>1. brokers \in [Lease -> {"none", "alive", "dead"}] /\ registry \in {"up", "down"} \cup Lease
    BY DEF IInv, LeaseTypeOK
  <2>2. CASE registry = "up"
    BY <2>1, <2>2
  <2>3. CASE registry # "up"
    <3>1. registry \in Lease /\ brokers[registry] # "none"
      BY <2>1, <2>3 DEF IInv, Serving
    <3>. QED  BY <2>1, <2>3, <3>1
  <2>. QED  BY <2>2, <2>3
<1>2. LeaseTypeOK'
  BY <1>1 DEF IInv, LeaseTypeOK, NoLease
<1>3. Guarded'
  BY <1>1, WorkerIsPair DEF IInv, Guarded, Counted, Done
<1>4. Opened' /\ Truthful' /\ Disjoint' /\ Agreement' /\ Serving'
  BY LeaseAssumption DEF IInv, Opened, Truthful, Disjoint, Agreement, Serving
<1>5. Gone'
  BY <1>1 DEF IInv, Gone, LeaseTypeOK
<1>. QED  BY <1>2, <1>3, <1>4, <1>5 DEF IInv

LEMMA ReserveKeeps ==
  ASSUME IInv, NEW l \in Lease, NEW keys \in (SUBSET Endpoint) \ {{}}, Reserve(l, keys)
  PROVE  IInv'
<1>. DEFINE entry == [keys |-> keys, workers |-> Side, status |-> "open"]
<1>1. entry \in Entry /\ entry # Nothing /\ entry.keys = keys /\ entry.workers = Side
  BY EntryAssumption DEF Entry
<1>2. /\ registry = "up" /\ brokers[l] = "none" /\ Conflicts(keys) = {} /\ registry' = l
      /\ brokers' = [brokers EXCEPT ![l] = "alive"]
      /\ worker' = [w \in IoWorker |-> IF w \in WorkersOf(l) THEN "parked" ELSE worker[w]]
      /\ leases' = [leases EXCEPT ![l] = entry] /\ saved' = leases'
      /\ monitored' = monitored \cup {l}
      /\ UNCHANGED <<waiting, confirmed, go, fds, mail>>
  BY DEF Reserve, Save, Up
<1>. HIDE DEF entry
<1>3. LeaseTypeOK
  BY DEF IInv
<1>4. LeaseTypeOK'
  <2>1. /\ leases' \in [Lease -> Entry \cup {Nothing}] /\ saved' \in [Lease -> Entry \cup {Nothing}]
        /\ registry' \in {"up", "down"} \cup Lease /\ monitored' \subseteq Lease
        /\ brokers' \in [Lease -> {"none", "alive", "dead"}]
    BY <1>1, <1>2, <1>3 DEF LeaseTypeOK
  <2>2. worker' \in [IoWorker -> {"none", "parked", "opening", "running", "exited", "killed"}]
    BY <1>2, <1>3 DEF LeaseTypeOK
  <2>. QED  BY <1>2, <1>3, <2>1, <2>2 DEF LeaseTypeOK
<1>5. leases \in [Lease -> Entry \cup {Nothing}] /\ brokers \in [Lease -> {"none", "alive", "dead"}]
  BY <1>3 DEF LeaseTypeOK
<1>6. SameShape(saved, leases)
  BY <1>2 DEF IInv, Agreement, SameShape
<1>7. leases[l] = Nothing /\ saved[l] = Nothing
  BY <1>2, <1>6 DEF IInv, Guarded, SameShape
<1>8. Guarded'
  <2>1. ASSUME NEW w \in IoWorker, w[1] = l
        PROVE  Counted(saved', w) /\ brokers'[l] # "none"
    BY <1>1, <1>2, <1>5, <2>1, WorkerIsPair DEF Counted
  <2>2. ASSUME NEW w \in IoWorker, w[1] # l
        PROVE  /\ brokers'[w[1]] = brokers[w[1]] /\ worker'[w] = worker[w]
               /\ Counted(saved', w) <=> Counted(saved, w)
    BY <1>2, <1>5, <1>6, <2>2, WorkerIsPair DEF Counted, SameShape
  <2>3. \A k \in Lease : saved'[k] # Nothing => brokers'[k] # "none"
    BY <1>2, <1>5, <1>6 DEF IInv, Guarded, SameShape
  <2>4. fds' = fds
    BY <1>2
  <2>. QED  BY <2>1, <2>2, <2>3, <2>4 DEF IInv, Guarded, Done
<1>9. \A w \in IoWorker : w[1] = l => worker[w] = "none" /\ w \notin fds
  BY <1>2 DEF IInv, Guarded
<1>10. Opened' /\ Truthful'
  <2>1. \A w \in IoWorker : w[1] # l => worker'[w] = worker[w]
    BY <1>2, WorkerIsPair
  <2>2. fds \subseteq IoWorker /\ mail \subseteq Message /\ fds' = fds /\ mail' = mail
    BY <1>2, <1>3 DEF LeaseTypeOK
  <2>3. Opened'
    BY <1>9, <2>1, <2>2 DEF IInv, Opened
  <2>4. \A m \in mail : m.worker \in IoWorker
    BY <2>2 DEF Message
  <2>5. Truthful'
    BY <1>9, <2>1, <2>2, <2>4 DEF IInv, Truthful, Done
  <2>. QED  BY <2>3, <2>5
<1>11. Disjoint'
  <2>1. \A k \in Lease : leases[k] # Nothing => leases[k].keys \cap keys = {}
    BY <1>2 DEF Conflicts, Held
  <2>2. \A k \in Lease \ {l} : saved'[k] = leases[k]
    BY <1>2, <1>5
  <2>3. saved'[l] = entry
    BY <1>2, <1>5
  <2>. QED  BY <1>1, <1>6, <2>1, <2>2, <2>3 DEF IInv, Disjoint, SameShape
<1>12. Agreement' /\ Serving'
  BY <1>2, <1>5 DEF Agreement, Serving
<1>13. Gone'
  BY <1>2, <1>3, <1>5, <1>6 DEF IInv, Gone, LeaseTypeOK, SameShape
<1>. QED  BY <1>4, <1>8, <1>10, <1>11, <1>12, <1>13 DEF IInv

LEMMA SendOpenKeeps ==
  ASSUME IInv, SendOpen
  PROVE  IInv'
<1>1. LeaseTypeOK'
  BY DEF SendOpen, IInv, LeaseTypeOK, WorkersOf, IoWorker
<1>2. Guarded' /\ Opened' /\ Truthful' /\ Disjoint' /\ Gone'
  BY DEF SendOpen, IInv, Guarded, Counted, Done, Opened, Truthful, Disjoint, Gone
<1>3. Agreement' /\ Serving'
  BY LeaseAssumption DEF SendOpen, IInv, Agreement, Serving
<1>. QED  BY <1>1, <1>2, <1>3 DEF IInv

LEMMA AwaitKeeps ==
  ASSUME IInv, NEW c \in Caller, NEW l \in Lease, Await(c, l)
  PROVE  IInv'
<1>1. UNCHANGED <<leases, saved, registry, monitored, brokers, worker, go, fds, mail>>
  BY DEF Await
<1>2. LeaseTypeOK'
  BY <1>1 DEF Await, IInv, LeaseTypeOK
<1>3. Gone'
  BY <1>1, LeaseAssumption DEF Await, Up, IInv, Agreement, Gone
<1>4. Guarded' /\ Opened' /\ Truthful' /\ Disjoint' /\ Agreement' /\ Serving'
  BY <1>1 DEF IInv, Guarded, Counted, Done, Opened, Truthful, Disjoint, Agreement, Serving
<1>. QED  BY <1>2, <1>3, <1>4 DEF IInv

LEMMA WaiterLeavesKeeps ==
  ASSUME IInv, NEW c \in Caller, WaiterLeaves(c)
  PROVE  IInv'
<1>1. LeaseTypeOK'
  BY DEF WaiterLeaves, IInv, LeaseTypeOK
<1>. QED
  BY <1>1 DEF WaiterLeaves, IInv, Guarded, Counted, Done, Opened, Truthful, Disjoint,
              Agreement, Gone, Serving

\* What a change of status leaves true, whatever the new status.
LEMMA StatusKeeps ==
  ASSUME IInv, Up, NEW l \in Lease, leases[l] # Nothing,
         NEW status \in {"closing", "worker_down", "close_failed"},
         Save([leases EXCEPT ![l].status = status]),
         waiting' \in [Caller -> Lease \cup {Nothing}], confirmed' = confirmed,
         mail' \subseteq mail,
         UNCHANGED <<registry, monitored, brokers, worker, go, fds>>
  PROVE  IInv'
<1>1. leases \in [Lease -> Entry \cup {Nothing}] /\ LeaseTypeOK
  BY DEF IInv, LeaseTypeOK
<1>2. leases' = [leases EXCEPT ![l].status = status] /\ saved' = leases'
  BY DEF Save
<1>3. leases' \in [Lease -> Entry \cup {Nothing}] /\ SameShape(leases, leases')
  BY <1>1, <1>2, StatusChange DEF SameShape
<1>4. SameShape(saved, saved')
  BY <1>2, <1>3 DEF Up, IInv, Agreement, SameShape
<1>5. Guarded' /\ Opened' /\ Disjoint' /\ Gone'
  BY <1>1, <1>4, ShapeKeeps DEF IInv, LeaseTypeOK
<1>6. LeaseTypeOK'
  BY <1>1, <1>2, <1>3 DEF LeaseTypeOK
<1>7. Truthful' /\ Agreement' /\ Serving'
  BY <1>2 DEF IInv, Truthful, Done, Agreement, Serving
<1>. QED  BY <1>5, <1>6, <1>7 DEF IInv

LEMMA QuarantineKeeps ==
  ASSUME IInv, Up, NEW l \in Lease, leases[l] # Nothing,
         NEW status \in {"worker_down", "close_failed"}, Quarantine(l, status),
         mail' \subseteq mail, UNCHANGED <<registry, monitored, brokers, worker, go, fds>>
  PROVE  IInv'
<1>1. waiting' \in [Caller -> Lease \cup {Nothing}] /\ confirmed' = confirmed
  BY DEF Quarantine, Notify, IInv, LeaseTypeOK
<1>2. Save([leases EXCEPT ![l].status = status])
  BY DEF Quarantine
<1>. QED  BY <1>1, <1>2, StatusKeeps

LEMMA ClosedKeeps ==
  ASSUME IInv, NEW m \in mail, Closed(m)
  PROVE  IInv'
<1>. DEFINE w == m.worker
<1>. DEFINE l == w[1]
<1>. DEFINE side == w[2]
<1>1. w \in IoWorker /\ l \in Lease /\ side \in Side /\ m.result \in {"ok", "error"}
  <2>1. m \in Message
    BY DEF IInv, LeaseTypeOK
  <2>. QED  BY <2>1 DEF Message, IoWorker
<1>2. Up /\ mail' \subseteq mail /\ UNCHANGED <<registry, monitored, brokers, worker, go, fds>>
  BY DEF Closed
<1>3. LeaseTypeOK /\ leases \in [Lease -> Entry \cup {Nothing}] /\ SameShape(saved, leases)
  BY <1>2 DEF Up, IInv, LeaseTypeOK, Agreement, SameShape
<1>4. Truthful'
  BY <1>2 DEF IInv, Truthful, Done
<1>5. CASE leases[l] # Nothing /\ side \in leases[l].workers /\ m.result = "ok"
  <2>1. Done(w)
    BY <1>5 DEF IInv, Truthful
  <2>2. CASE Remaining(l, side) = {}
    <3>1. /\ leases' = [leases EXCEPT ![l] = Nothing] /\ saved' = leases'
          /\ Notify(l, TRUE)
      BY <1>5, <2>2 DEF Closed, Save
    <3>2. LeaseTypeOK'
      BY <1>1, <1>2, <1>3, <3>1 DEF LeaseTypeOK, Notify
    <3>3. \A v \in IoWorker : v[1] = l => Done(v)
      <4>. SUFFICES ASSUME NEW v \in IoWorker, v[1] = l PROVE Done(v)
        OBVIOUS
      <4>1. CASE v[2] = side
        BY <1>1, <2>1, <4>1, WorkerIsPair
      <4>2. CASE v[2] # side
        <5>1. v[2] \notin saved[l].workers
          BY <1>1, <1>3, <1>5, <2>2, <4>2 DEF Remaining, SameShape
        <5>. QED  BY <1>1, <1>3, <1>5, <5>1 DEF IInv, Guarded, Counted, SameShape
      <4>. QED  BY <4>1, <4>2
    <3>4. Guarded'
      <4>1. \A v \in IoWorker : v[1] # l => (Counted(saved', v) <=> Counted(saved, v))
        BY <1>1, <1>3, <3>1, WorkerIsPair DEF Counted, SameShape
      <4>2. \A k \in Lease : saved'[k] # Nothing => saved[k] # Nothing
        BY <1>1, <1>3, <3>1 DEF SameShape
      <4>. QED  BY <1>2, <3>3, <4>1, <4>2 DEF IInv, Guarded, Done
    <3>5. Disjoint'
      BY <1>1, <1>3, <3>1 DEF IInv, Disjoint, SameShape
    <3>6. Gone'
      <4>1. brokers[l] # "none" /\ confirmed' \subseteq confirmed \cup {l}
        BY <1>1, <1>3, <1>5, <3>1 DEF IInv, Guarded, SameShape, Notify
      <4>. QED  BY <1>1, <1>2, <1>3, <3>1, <4>1 DEF IInv, Gone, LeaseTypeOK, SameShape
    <3>7. Opened' /\ Agreement' /\ Serving'
      BY <1>2, <3>1 DEF IInv, Opened, Agreement, Serving
    <3>. QED  BY <1>4, <3>2, <3>4, <3>5, <3>6, <3>7 DEF IInv
  <2>3. CASE Remaining(l, side) # {}
    <3>. DEFINE rest == [leases[l] EXCEPT !.workers = Remaining(l, side)]
    <3>1. leases[l] \in Entry
      BY <1>1, <1>3, <1>5
    <3>2. /\ rest \in Entry /\ rest # Nothing /\ rest.keys = leases[l].keys
          /\ rest.workers = leases[l].workers \ {side}
      BY <3>1, EntryAssumption DEF Entry, Remaining
    <3>3. /\ leases' = [leases EXCEPT ![l] = rest] /\ saved' = leases'
          /\ UNCHANGED <<waiting, confirmed>>
      BY <1>5, <2>3 DEF Closed, Save
    <3>. HIDE DEF rest
    <3>4. LeaseTypeOK'
      BY <1>1, <1>2, <1>3, <3>2, <3>3 DEF LeaseTypeOK
    <3>5. Guarded'
      <4>1. \A v \in IoWorker : Counted(saved, v) => Counted(saved', v) \/ v = w
        BY <1>1, <1>3, <3>2, <3>3, WorkerIsPair DEF Counted, SameShape
      <4>2. \A k \in Lease : saved'[k] # Nothing => saved[k] # Nothing
        BY <1>1, <1>3, <1>5, <3>3 DEF SameShape
      <4>. QED  BY <1>2, <2>1, <4>1, <4>2 DEF IInv, Guarded, Done
    <3>6. Disjoint'
      BY <1>1, <1>3, <1>5, <3>2, <3>3 DEF IInv, Disjoint, SameShape
    <3>7. Gone'
      BY <1>1, <1>2, <1>3, <1>5, <3>3 DEF IInv, Gone, LeaseTypeOK, SameShape
    <3>8. Opened' /\ Agreement' /\ Serving'
      BY <1>2, <3>3 DEF IInv, Opened, Agreement, Serving
    <3>. QED  BY <1>4, <3>4, <3>5, <3>6, <3>7, <3>8 DEF IInv
  <2>. QED  BY <2>2, <2>3
<1>6. CASE leases[l] # Nothing /\ side \in leases[l].workers /\ m.result = "error"
  <2>1. Quarantine(l, "close_failed")
    BY <1>6 DEF Closed
  <2>. QED  BY <1>1, <1>2, <1>6, <2>1, QuarantineKeeps
<1>7. CASE leases[l] = Nothing \/ (leases[l] # Nothing /\ side \notin leases[l].workers)
  <2>1. UNCHANGED <<leases, saved, waiting, confirmed>>
    BY <1>7 DEF Closed
  <2>2. LeaseTypeOK'
    BY <1>2, <1>3, <2>1 DEF LeaseTypeOK
  <2>. QED
    BY <1>2, <1>4, <2>1, <2>2
    DEF IInv, Guarded, Counted, Done, Opened, Disjoint, Agreement, Gone, Serving
<1>. QED  BY <1>1, <1>5, <1>6, <1>7

LEMMA BrokerDownKeeps ==
  ASSUME IInv, NEW l \in Lease, BrokerDown(l)
  PROVE  IInv'
<1>1. waiting' \in [Caller -> Lease \cup {Nothing}]
  BY DEF BrokerDown, IInv, LeaseTypeOK
<1>. QED  BY <1>1, StatusKeeps DEF BrokerDown, Held

LEMMA WorkerDownKeeps ==
  ASSUME IInv, NEW w \in IoWorker, WorkerDown(w)
  PROVE  IInv'
BY WorkerIsPair, QuarantineKeeps DEF WorkerDown, Held

-----------------------------------------------------------------------------
(* The brokers and the workers.                                            *)

LEMMA BrokerDiesKeeps ==
  ASSUME IInv, NEW l \in Lease, BrokerDies(l)
  PROVE  IInv'
<1>1. /\ brokers' \in [Lease -> {"none", "alive", "dead"}]
      /\ \A k \in Lease : brokers'[k] = "none" <=> brokers[k] = "none"
  BY DEF BrokerDies, IInv, LeaseTypeOK
<1>2. LeaseTypeOK'
  BY <1>1 DEF BrokerDies, IInv, LeaseTypeOK
<1>3. Guarded'
  BY <1>1, WorkerIsPair DEF BrokerDies, IInv, Guarded, Counted, Done
<1>4. Gone' /\ Serving'
  BY <1>1 DEF BrokerDies, IInv, LeaseTypeOK, Gone, Serving
<1>5. Opened' /\ Truthful' /\ Disjoint' /\ Agreement'
  BY DEF BrokerDies, IInv, Opened, Truthful, Done, Disjoint, Agreement
<1>. QED  BY <1>2, <1>3, <1>4, <1>5 DEF IInv

\* A step of worker w, which was not done: it is still counted.
LEMMA WorkerStepKeeps ==
  ASSUME IInv, NEW w \in IoWorker,
         NEW status \in {"opening", "running", "exited", "killed"},
         worker[w] \in {"parked", "opening", "running"},
         worker' = [worker EXCEPT ![w] = status],
         \A v \in IoWorker \ {w} : v \in fds' <=> v \in fds,
         fds' \subseteq IoWorker,
         w \in fds' => status \in {"running", "exited", "killed"},
         mail' \subseteq Message,
         \A m \in mail' : m \in mail \/ (m.worker = w /\ (m.result = "ok" => Done(w)')),
         UNCHANGED <<leases, saved, registry, monitored, waiting, confirmed, brokers, go>>
  PROVE  IInv'
<1>1. /\ worker'[w] = status
      /\ \A v \in IoWorker \ {w} : worker'[v] = worker[v]
  BY DEF IInv, LeaseTypeOK
<1>2. \A v \in IoWorker \ {w} : Done(v) => Done(v)'
  BY <1>1 DEF Done
<1>3. ~Done(w) /\ brokers[w[1]] # "none"
  BY DEF IInv, Guarded, Done
<1>4. LeaseTypeOK'
  BY DEF IInv, LeaseTypeOK
<1>5. Guarded'
  <2>1. ASSUME NEW v \in IoWorker, brokers[v[1]] = "none"
        PROVE  worker'[v] = "none" /\ v \notin fds'
    <3>1. v # w
      BY <1>3, <2>1
    <3>. QED  BY <1>1, <2>1, <3>1 DEF IInv, Guarded
  <2>2. ASSUME NEW v \in IoWorker, brokers[v[1]] # "none"
        PROVE  Counted(saved, v) \/ Done(v)'
    BY <1>2, <1>3, <2>2 DEF IInv, Guarded
  <2>. QED  BY <2>1, <2>2 DEF IInv, Guarded, Counted, Done
<1>6. Opened'
  BY <1>1 DEF IInv, Opened
<1>7. Truthful'
  <2>1. ASSUME NEW m \in mail', m \in mail, m.result = "ok"
        PROVE  Done(m.worker)'
    <3>1. Done(m.worker) /\ m.worker \in IoWorker
      BY <2>1 DEF IInv, Truthful, LeaseTypeOK, Message
    <3>. QED  BY <1>2, <1>3, <3>1
  <2>2. ASSUME NEW m \in mail', m.worker = w, m.result = "ok", Done(w)'
        PROVE  Done(m.worker)'
    BY <2>2 DEF Done
  <2>. QED  BY <2>1, <2>2 DEF Truthful
<1>8. Disjoint' /\ Agreement' /\ Gone' /\ Serving'
  BY DEF IInv, Disjoint, Agreement, Gone, Serving
<1>. QED  BY <1>4, <1>5, <1>6, <1>7, <1>8 DEF IInv

\* What a cast to the registry adds.
LEMMA ConfirmAdds ==
  ASSUME IInv, NEW w \in IoWorker, NEW result \in {"ok", "error"}, Confirm(w, result)
  PROVE  /\ mail' \subseteq Message
         /\ \A m \in mail' : m \in mail \/ (m.worker = w /\ m.result = result)
BY DEF Confirm, IInv, LeaseTypeOK, Message

\* A worker without a descriptor has none to leave open.
LEMMA Descriptorless ==
  ASSUME IInv, NEW w \in IoWorker, worker[w] \in {"none", "parked", "opening"}
  PROVE  w \notin fds
BY DEF IInv, Opened

LEMMA WorkersKeep ==
  ASSUME IInv, NEW w \in IoWorker,
         \/ WorkerOpens(w) \/ OpenSucceeds(w) \/ OpenFails(w) \/ WorkerStops(w)
         \/ WorkerKilled(w) \/ \E result \in {"ok", "error"} : WorkerCloses(w, result)
  PROVE  IInv'
<1>1. fds \subseteq IoWorker /\ mail \subseteq Message
  BY DEF IInv, LeaseTypeOK
<1>2. CASE WorkerOpens(w)
  <2>1. w \notin fds
    BY <1>2, Descriptorless DEF WorkerOpens
  <2>. QED  BY <1>1, <1>2, <2>1, WorkerStepKeeps DEF WorkerOpens
<1>3. CASE OpenSucceeds(w)
  BY <1>1, <1>3, WorkerStepKeeps DEF OpenSucceeds
<1>4. CASE WorkerKilled(w)
  BY <1>1, <1>4, WorkerStepKeeps DEF WorkerKilled
<1>5. CASE OpenFails(w) \/ WorkerStops(w)
  <2>1. /\ worker[w] \in {"parked", "opening"}
        /\ worker' = [worker EXCEPT ![w] = "exited"] /\ Confirm(w, "ok")
        /\ UNCHANGED <<leases, saved, registry, monitored, waiting, confirmed, brokers, go, fds>>
    BY <1>5 DEF OpenFails, WorkerStops
  <2>2. Done(w)'
    BY <2>1, Descriptorless DEF Done, IInv, LeaseTypeOK
  <2>3. /\ mail' \subseteq Message
        /\ \A m \in mail' : m \in mail \/ (m.worker = w /\ m.result = "ok")
    BY <2>1, ConfirmAdds
  <2>. QED  BY <1>1, <2>1, <2>2, <2>3, WorkerStepKeeps
<1>6. ASSUME NEW result \in {"ok", "error"}, WorkerCloses(w, result)
      PROVE  IInv'
  <2>1. /\ worker[w] = "running" /\ worker' = [worker EXCEPT ![w] = "exited"]
        /\ fds' = IF result = "ok" THEN fds \ {w} ELSE fds
        /\ Confirm(w, result)
        /\ UNCHANGED <<leases, saved, registry, monitored, waiting, confirmed, brokers, go>>
    BY <1>6 DEF WorkerCloses
  <2>2. result = "ok" => Done(w)'
    BY <2>1 DEF Done, IInv, LeaseTypeOK
  <2>3. /\ mail' \subseteq Message
        /\ \A m \in mail' : m \in mail \/ (m.worker = w /\ m.result = result)
    BY <2>1, ConfirmAdds
  <2>. QED  BY <1>1, <2>1, <2>2, <2>3, WorkerStepKeeps
<1>. QED  BY <1>2, <1>3, <1>4, <1>5, <1>6

-----------------------------------------------------------------------------
(* The theorems.                                                           *)

LEMMA StepKeeps == IInv /\ [LeaseNext]_lease => IInv'
<1>. SUFFICES ASSUME IInv, [LeaseNext]_lease PROVE IInv'
  OBVIOUS
<1>1. CASE RegistryStarts
  BY <1>1, RegistryStartsKeeps
<1>2. CASE RegistryCrashes
  BY <1>2, RegistryCrashesKeeps
<1>3. CASE SendOpen
  BY <1>3, SendOpenKeeps
<1>4. CASE \E l \in Lease, keys \in (SUBSET Endpoint) \ {{}} : Reserve(l, keys)
  BY <1>4, ReserveKeeps
<1>5. CASE \E c \in Caller, l \in Lease : Await(c, l)
  BY <1>5, AwaitKeeps
<1>6. CASE \E c \in Caller : WaiterLeaves(c)
  BY <1>6, WaiterLeavesKeeps
<1>7. CASE \E m \in mail : Closed(m)
  BY <1>7, ClosedKeeps
<1>8. CASE \E l \in Lease : BrokerDown(l) \/ BrokerDies(l)
  BY <1>8, BrokerDownKeeps, BrokerDiesKeeps
<1>9. CASE \E w \in IoWorker :
             \/ WorkerDown(w) \/ WorkerOpens(w) \/ OpenSucceeds(w) \/ OpenFails(w)
             \/ WorkerStops(w) \/ WorkerKilled(w)
             \/ \E result \in {"ok", "error"} : WorkerCloses(w, result)
  BY <1>9, WorkerDownKeeps, WorkersKeep
<1>10. CASE UNCHANGED lease
  <2>1. LeaseTypeOK'
    BY <1>10 DEF lease, IInv, LeaseTypeOK
  <2>. QED
    BY <1>10, <2>1 DEF lease, IInv, Guarded, Counted, Done, Opened, Truthful, Disjoint,
                       Agreement, Gone, Serving
<1>. QED  BY <1>1, <1>2, <1>3, <1>4, <1>5, <1>6, <1>7, <1>8, <1>9, <1>10 DEF LeaseNext

LEMMA Inductive == LeaseSpec => []IInv
BY InitHolds, StepKeeps, PTL DEF LeaseSpec

\* The tables of hls_fabric_lease and the records of its workers keep their types.
THEOREM TypeCorrect == LeaseSpec => []LeaseTypeOK
<1>1. IInv => LeaseTypeOK
  BY DEF IInv
<1>. QED  BY <1>1, Inductive, PTL

\* Whoever holds a descriptor is counted by the stored reservation, and stored
\* reservations share no key: reserve/5 never lets two brokers open one endpoint.
THEOREM DescriptorsAreExclusive == LeaseSpec => []ExclusiveDescriptors
<1>1. IInv => ExclusiveDescriptors
  <2>. SUFFICES ASSUME IInv, NEW v \in fds, NEW w \in fds, v[1] # w[1]
                PROVE  /\ saved[v[1]] # Nothing /\ saved[w[1]] # Nothing
                       /\ saved[v[1]].keys \cap saved[w[1]].keys = {}
    BY DEF ExclusiveDescriptors
  <2>1. v \in IoWorker /\ w \in IoWorker
    BY DEF IInv, LeaseTypeOK
  <2>2. \A u \in IoWorker : u \in fds => Counted(saved, u)
    BY DEF IInv, Guarded, Done
  <2>. QED  BY <2>1, <2>2, WorkerIsPair DEF IInv, Counted, Disjoint
<1>. QED  BY <1>1, Inductive, PTL

\* When await/2 has answered ok, no worker of the lease holds or can open a
\* descriptor.
THEOREM ConfirmationsAreTrue == LeaseSpec => []ConfirmedIsClosed
<1>1. IInv => ConfirmedIsClosed
  <2>. SUFFICES ASSUME IInv, NEW l \in confirmed, NEW w \in WorkersOf(l)
                PROVE  w \notin fds /\ worker[w] = "exited"
    BY DEF ConfirmedIsClosed
  <2>1. l \in Lease /\ w \in IoWorker /\ w[1] = l
    BY DEF IInv, LeaseTypeOK, WorkersOf, IoWorker
  <2>2. brokers[l] # "none" /\ saved[l] = Nothing
    BY DEF IInv, Gone
  <2>. QED  BY <2>1, <2>2 DEF IInv, Guarded, Counted, Done
<1>. QED  BY <1>1, Inductive, PTL
=============================================================================
