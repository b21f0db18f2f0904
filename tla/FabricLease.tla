---------------------------- MODULE FabricLease ----------------------------
(***************************************************************************)
(* The device reservations of apps/hls_runtime/src/runtime/                *)
(* hls_fabric_lease.erl: the registry, the copy of its table that survives *)
(* a crash, the two descriptor workers of each reservation, and the        *)
(* processes that wait for a release.                                      *)
(*                                                                         *)
(* A broker opens one lease in its init/1, so a lease also stands for its  *)
(* broker.  `fds' is the set of the workers that hold a descriptor: what   *)
(* the registry must never guess wrong.  A worker that is killed may leave *)
(* its descriptor open, and so may a close that fails.                     *)
(*                                                                         *)
(* closed/2 is a cast to a registered name: while the registry is down it  *)
(* is lost.  `mail' holds the casts that were not lost.                    *)
(***************************************************************************)
EXTENDS Integers, FiniteSets

CONSTANTS Lease,     \* leases, each with its broker
          Endpoint,  \* the files behind path names and inodes
          Caller,    \* processes that wait for a release
          Nothing

VARIABLES leases,    \* the registry's table
          saved,     \* the persistent copy
          registry,  \* "up", "down", or the lease being reserved
          monitored, \* leases whose processes this registry monitors
          waiting,   \* the lease each caller waits for
          confirmed, \* history: leases whose release was confirmed to a caller
          brokers, worker,
          go,        \* workers that were sent open
          fds, mail
lease == <<leases, saved, registry, monitored, waiting, confirmed,
          brokers, worker, go, fds, mail>>

Side == {"writer", "reader"}
IoWorker == Lease \X Side
WorkersOf(l) == {l} \X Side

Entry == [keys : SUBSET Endpoint, workers : SUBSET Side,
          status : {"open", "closing", "registry_restarted", "worker_down", "close_failed"}]
Message == [worker : IoWorker, result : {"ok", "error"}]

ASSUME LeaseAssumption == "up" \notin Lease /\ "down" \notin Lease /\ Nothing \notin Lease
ASSUME EntryAssumption == Nothing \notin Entry

NoLease == [l \in Lease |-> Nothing]

LeaseInit ==
  /\ leases = NoLease /\ saved = NoLease
  /\ registry = "down" /\ monitored = {}
  /\ waiting = [c \in Caller |-> Nothing] /\ confirmed = {}
  /\ brokers = [l \in Lease |-> "none"]
  /\ worker = [w \in IoWorker |-> "none"]
  /\ go = {} /\ fds = {} /\ mail = {}

Up == registry = "up"
Held == {l \in Lease : leases[l] # Nothing}

-----------------------------------------------------------------------------
(* The registry.                                                           *)

\* save/1.
Save(table) == leases' = table /\ saved' = table

\* notify/3 and finish_waiter/2.
Notify(l, ok) ==
  /\ waiting' = [c \in Caller |-> IF waiting[c] = l THEN Nothing ELSE waiting[c]]
  /\ confirmed' = IF ok /\ \E c \in Caller : waiting[c] = l THEN confirmed \cup {l}
                                                            ELSE confirmed

\* Mutant: whoever waits is not told.
QuarantineQuietly(l, reason) ==
  /\ Save([leases EXCEPT ![l].status = reason])
  /\ UNCHANGED <<waiting, confirmed>>

Quarantine(l, reason) ==
  /\ Save([leases EXCEPT ![l].status = reason])
  /\ Notify(l, FALSE)

\* Mutant: the restarted registry starts with an empty table.
RestoredEmpty == NoLease

Restored ==
  [l \in Lease |-> IF saved[l] = Nothing THEN Nothing
                   ELSE [saved[l] EXCEPT !.status = "registry_restarted"]]

\* ensure_started/0, called by open/3 and await/2.
RegistryStarts ==
  /\ registry = "down"
  /\ registry' = "up" /\ leases' = Restored
  /\ UNCHANGED <<saved, monitored, waiting, confirmed, brokers, worker, go, fds, mail>>

\* Monitors, waiters and messages go with the process.  A broker whose open
\* was being served dies of the failed call.
RegistryCrashes ==
  /\ registry # "down"
  /\ registry' = "down" /\ leases' = NoLease /\ monitored' = {} /\ mail' = {}
  /\ waiting' = [c \in Caller |-> Nothing]
  /\ brokers' = IF registry = "up" THEN brokers ELSE [brokers EXCEPT ![registry] = "dead"]
  /\ UNCHANGED <<saved, confirmed, worker, go, fds>>

\* Mutant: only reservations that are open conflict.
ConflictsOpen(keys) ==
  {l \in Held : leases[l].status = "open" /\ leases[l].keys \cap keys # {}}

Conflicts(keys) == {l \in Held : leases[l].keys \cap keys # {}}

\* reserve/5: the reservation is stored before the workers may open anything.
\* A conflict is answered {device_owned, ...} and changes nothing.
Reserve(l, keys) ==
  /\ Up /\ brokers[l] = "none" /\ Conflicts(keys) = {}
  /\ brokers' = [brokers EXCEPT ![l] = "alive"]
  /\ worker' = [w \in IoWorker |-> IF w \in WorkersOf(l) THEN "parked" ELSE worker[w]]
  /\ Save([leases EXCEPT ![l] = [keys |-> keys, workers |-> Side, status |-> "open"]])
  /\ monitored' = monitored \cup {l}
  /\ registry' = l
  /\ UNCHANGED <<waiting, confirmed, go, fds, mail>>

SendOpen ==
  /\ registry \in Lease
  /\ go' = go \cup WorkersOf(registry)
  /\ registry' = "up"
  /\ UNCHANGED <<leases, saved, monitored, waiting, confirmed, brokers, worker, fds, mail>>

\* handle_call({await, ...}).  Only leases that were handed out are asked for.
Await(c, l) ==
  /\ Up /\ waiting[c] = Nothing /\ brokers[l] # "none"
  /\ \/ /\ leases[l] = Nothing
        /\ confirmed' = confirmed \cup {l}
        /\ UNCHANGED waiting
     \/ /\ leases[l] # Nothing /\ leases[l].status \in {"open", "closing"}
        /\ waiting' = [waiting EXCEPT ![c] = l]
        /\ UNCHANGED confirmed
     \/ /\ leases[l] # Nothing /\ leases[l].status \notin {"open", "closing"}
        /\ UNCHANGED <<waiting, confirmed>>
  /\ UNCHANGED <<leases, saved, registry, monitored, brokers, worker, go, fds, mail>>

\* The registry handles the waiter's timeout, or the DOWN message of the
\* waiting process.  A timer that fired while a release or a quarantine was
\* handled finds its ID gone from the table and changes nothing; an ID is a
\* reference that no later wait has.
WaiterLeaves(c) ==
  /\ Up /\ waiting[c] # Nothing
  /\ waiting' = [waiting EXCEPT ![c] = Nothing]
  /\ UNCHANGED <<leases, saved, registry, monitored, confirmed, brokers, worker, go, fds, mail>>

\* Mutant: one closed descriptor releases the lease.
RemainingNone(l, side) == {}

Remaining(l, side) == leases[l].workers \ {side}

\* handle_cast({closed, ...}).
Closed(m) ==
  LET l == m.worker[1]
      side == m.worker[2]
  IN
  /\ Up /\ m \in mail
  /\ mail' = mail \ {m}
  /\ \/ /\ leases[l] # Nothing /\ side \in leases[l].workers /\ m.result = "ok"
        /\ IF Remaining(l, side) = {}
           THEN Save([leases EXCEPT ![l] = Nothing]) /\ Notify(l, TRUE)
           ELSE /\ Save([leases EXCEPT ![l].workers = Remaining(l, side)])
                /\ UNCHANGED <<waiting, confirmed>>
     \/ /\ leases[l] # Nothing /\ side \in leases[l].workers /\ m.result = "error"
        /\ Quarantine(l, "close_failed")
     \/ /\ leases[l] = Nothing \/ (leases[l] # Nothing /\ side \notin leases[l].workers)
        /\ UNCHANGED <<leases, saved, waiting, confirmed>>
  /\ UNCHANGED <<registry, monitored, brokers, worker, go, fds>>

\* The DOWN message of a broker.
BrokerDown(l) ==
  /\ Up /\ l \in monitored \cap Held /\ brokers[l] = "dead" /\ leases[l].status = "open"
  /\ Save([leases EXCEPT ![l].status = "closing"])
  /\ UNCHANGED <<registry, monitored, waiting, confirmed, brokers, worker, go, fds, mail>>

\* Mutant: a dead worker is still expected to confirm.
WorkerDownIgnored(w) == FALSE

\* The DOWN message of a worker comes after its closed message.
WorkerDown(w) ==
  LET l == w[1] IN
  /\ Up /\ l \in monitored \cap Held /\ w[2] \in leases[l].workers
  /\ worker[w] \in {"exited", "killed"} /\ \A m \in mail : m.worker # w
  /\ leases[l].status # "worker_down"
  /\ Quarantine(l, "worker_down")
  /\ UNCHANGED <<registry, monitored, brokers, worker, go, fds, mail>>

-----------------------------------------------------------------------------
(* The brokers and the workers (worker/4, and run/4 of hls_fabric_io).     *)

BrokerDies(l) ==
  /\ brokers[l] = "alive" /\ registry # l
  /\ brokers' = [brokers EXCEPT ![l] = "dead"]
  /\ UNCHANGED <<leases, saved, registry, monitored, waiting, confirmed, worker, go, fds, mail>>

\* A cast reaches a registry that is up.
Confirm(w, result) ==
  mail' = IF registry = "down" THEN mail ELSE mail \cup {[worker |-> w, result |-> result]}

WorkerOpens(w) ==
  /\ worker[w] = "parked" /\ w \in go
  /\ worker' = [worker EXCEPT ![w] = "opening"]
  /\ UNCHANGED <<leases, saved, registry, monitored, waiting, confirmed, brokers, go, fds, mail>>

\* file:open/2 returns a descriptor, perhaps long after the broker died.
OpenSucceeds(w) ==
  /\ worker[w] = "opening"
  /\ worker' = [worker EXCEPT ![w] = "running"]
  /\ fds' = fds \cup {w}
  /\ UNCHANGED <<leases, saved, registry, monitored, waiting, confirmed, brokers, go, mail>>

OpenFails(w) ==
  /\ worker[w] = "opening"
  /\ worker' = [worker EXCEPT ![w] = "exited"]
  /\ Confirm(w, "ok")
  /\ UNCHANGED <<leases, saved, registry, monitored, waiting, confirmed, brokers, go, fds>>

\* stop, or the EXIT of the broker, before open.
WorkerStops(w) ==
  /\ worker[w] = "parked" /\ brokers[w[1]] = "dead"
  /\ worker' = [worker EXCEPT ![w] = "exited"]
  /\ Confirm(w, "ok")
  /\ UNCHANGED <<leases, saved, registry, monitored, waiting, confirmed, brokers, go, fds>>

\* The broker is gone, or a read failed: the descriptor is closed, then
\* the registry hears the result.
WorkerCloses(w, result) ==
  /\ worker[w] = "running"
  /\ worker' = [worker EXCEPT ![w] = "exited"]
  /\ fds' = IF result = "ok" THEN fds \ {w} ELSE fds
  /\ Confirm(w, result)
  /\ UNCHANGED <<leases, saved, registry, monitored, waiting, confirmed, brokers, go>>

WorkerKilled(w) ==
  /\ worker[w] \in {"parked", "opening", "running"}
  /\ worker' = [worker EXCEPT ![w] = "killed"]
  /\ UNCHANGED <<leases, saved, registry, monitored, waiting, confirmed, brokers, go, fds, mail>>

-----------------------------------------------------------------------------

LeaseNext ==
  \/ RegistryStarts \/ RegistryCrashes \/ SendOpen
  \/ \E l \in Lease, keys \in (SUBSET Endpoint) \ {{}} : Reserve(l, keys)
  \/ \E c \in Caller, l \in Lease : Await(c, l)
  \/ \E c \in Caller : WaiterLeaves(c)
  \/ \E m \in mail : Closed(m)
  \/ \E l \in Lease : BrokerDown(l) \/ BrokerDies(l)
  \/ \E w \in IoWorker :
       \/ WorkerDown(w) \/ WorkerOpens(w) \/ OpenSucceeds(w) \/ OpenFails(w)
       \/ WorkerStops(w) \/ WorkerKilled(w)
       \/ \E result \in {"ok", "error"} : WorkerCloses(w, result)

LeaseSpec == LeaseInit /\ [][LeaseNext]_lease

\* Processes run, a peer opens the other end of a FIFO, and a close returns.
\* A running worker of a live broker stays.
LeaseFairness ==
  /\ WF_lease(SendOpen)
  /\ \A m \in Message : WF_lease(Closed(m))
  /\ \A l \in Lease : WF_lease(BrokerDown(l))
  /\ \A w \in IoWorker :
       /\ WF_lease(WorkerDown(w)) /\ WF_lease(WorkerOpens(w)) /\ WF_lease(WorkerStops(w))
       /\ WF_lease(OpenSucceeds(w) \/ OpenFails(w))
       /\ WF_lease(brokers[w[1]] = "dead"
                  /\ \E result \in {"ok", "error"} : WorkerCloses(w, result))

-----------------------------------------------------------------------------
(* Properties.                                                             *)

\* Types of the registry's tables.
LeaseTypeOK ==
  /\ leases \in [Lease -> Entry \cup {Nothing}] /\ saved \in [Lease -> Entry \cup {Nothing}]
  /\ registry \in {"up", "down"} \cup Lease
  /\ monitored \subseteq Lease /\ confirmed \subseteq Lease
  /\ waiting \in [Caller -> Lease \cup {Nothing}]
  /\ brokers \in [Lease -> {"none", "alive", "dead"}]
  /\ worker \in [IoWorker -> {"none", "parked", "opening", "running", "exited", "killed"}]
  /\ go \subseteq IoWorker /\ fds \subseteq IoWorker /\ mail \subseteq Message

\* No endpoint is held open by workers of two reservations, whatever brokers,
\* workers and the registry do; this is what a reservation is for.
ExclusiveDescriptors ==
  \A v, w \in fds :
    v[1] # w[1] =>
      /\ saved[v[1]] # Nothing /\ saved[w[1]] # Nothing
      /\ saved[v[1]].keys \cap saved[w[1]].keys = {}

\* await/2 answers ok only if both descriptors are closed, and then no worker
\* of the reservation is left that could still open one.
ConfirmedIsClosed ==
  \A l \in confirmed : \A w \in WorkersOf(l) : w \notin fds /\ worker[w] = "exited"

\* A reservation whose broker has died is released or quarantined, unless the
\* registry that watches it crashes; and a caller that waits for it is answered.
StoppedIsSettled ==
  \A l \in Lease :
    /\ brokers[l] = "dead" /\ l \in monitored ~>
         leases[l] = Nothing \/ ~(leases[l].status \in {"open", "closing"})
    /\ \A c \in Caller : waiting[c] = l /\ brokers[l] = "dead" ~> waiting[c] # l
=============================================================================
