-------------------------- MODULE AgentSupervisor --------------------------
(***************************************************************************)
(* The Agent supervisor (agent_supervisor.py): one process per             *)
(* conversation, started on demand, shared by the requests of the          *)
(* conversation, evicted for another one, retired when idle, ended with    *)
(* the conversation; each works in a directory on disk that cleanup must   *)
(* not take from it.  One event loop runs everything, so a step is what    *)
(* happens between two awaits; `lock` sections are single steps, and the   *)
(* workspace lock is held from `HoldStore` to the step that frees it.      *)
(***************************************************************************)
EXTENDS Integers, FiniteSets, FiniteSetsExt

CONSTANTS
    Keys,              \* conversations
    Requests,          \* completion requests
    Terminals,         \* whether a request may end its conversation
    Limits,            \* settings of `max_workers`
    SpawnConcurrency, MaxWorkspaces, \* settings
    PortCount,         \* ports are 1..PortCount
    MaxSpawns,         \* bound: processes started since the supervisor started
    MaxDeaths, MaxRestarts \* bounds: processes that die, starts of the supervisor

ASSUME SupervisorAssumption ==
    /\ Terminals \subseteq BOOLEAN /\ Terminals # {}
    /\ Limits \subseteq Nat \ {0} /\ Limits # {} /\ SpawnConcurrency \in Nat \ {0}
    /\ MaxWorkspaces \in Nat \ {0} /\ PortCount \in Nat /\ MaxSpawns \in Nat
    /\ MaxDeaths \in Nat /\ MaxRestarts \in Nat

VARIABLES
    workers,    \* the Worker installed for a conversation
    tasks,      \* its spawn task
    retiring, reserved, \* ports of workers being stopped, of spawn tasks
    spawn,      \* spawn tasks and the Worker each makes
    workspace,  \* state of the registered directory of a conversation
    store,      \* who holds the workspace lock, and whom it protects
    request, cleaner, closing,
    maxWorkers, \* `max_workers` of this deployment
    forgotten,  \* workers that were popped to be stopped and that nobody will stop
    deaths, restarts

vars == <<workers, tasks, retiring, reserved, spawn, workspace, store, request,
          cleaner, closing, maxWorkers, forgotten, deaths, restarts>>
pool == <<workers, tasks, retiring, reserved, spawn>>
counters == <<maxWorkers, forgotten, deaths, restarts>>

-----------------------------------------------------------------------------
Ports == 1..PortCount
Spawns == 1..MaxSpawns
None == 0
Cleaner == <<"cleaner", 0>>
Spawner(p) == <<"spawn", p>>
Nobody == <<"nobody", 0>>
Free == [owner |-> Nobody, protected |-> {}]

\* Stages of a spawn task that hold a place of the spawn semaphore.
\* Mutant: the place is taken when the task queues and once more to go on.
WorkingQueued == {"queued", "admitted", "preparing", "launching", "starting", "undoing"}
Working == {"admitted", "preparing", "launching", "starting", "undoing"}
Over == {"done", "failed"}

Unused == [key |-> None, port |-> None, stage |-> "unused",
           evicted |-> None, process |-> "none", active |-> 0,
           ending |-> FALSE]
Created(k, port, victim) ==
    [key |-> k, port |-> port, stage |-> "created", evicted |-> victim, process |-> "none",
     active |-> 0, ending |-> FALSE]
Unasked == [stage |-> "unasked", key |-> None, terminal |-> FALSE,
            worker |-> None, ok |-> FALSE]
Resting == [stage |-> "resting", left |-> {}, now |-> None]

Installed == {workers[k] : k \in Keys} \ {None}
Spawning == {k \in Keys : tasks[k] # None}
\* Mutant: only installed workers are protected.
ProtectedWorkers == {k \in Keys : workers[k] # None}
Protected == {k \in Keys : workers[k] # None \/ tasks[k] # None}
Idle == {p \in Installed : spawn[p].active = 0}
Running(p) == spawn[p].process \in {"up", "asked"}
Present == {k \in Keys : workspace[k] # "absent"}

\* A prune: what is terminal, what the TTL lets go, and then the oldest until the
\* limits are met, except what is protected and what cannot be deleted.  `gone`
\* is what it removed; without room it refuses.
Prunable(protected, gone) == gone \subseteq Present \ protected
RoomLeft(gone, slots) == Cardinality(Present \ gone) + slots <= MaxWorkspaces
Without(gone) == [k \in Keys |-> IF k \in gone THEN "absent" ELSE workspace[k]]

-----------------------------------------------------------------------------
Init ==
    /\ workers = [k \in Keys |-> None]
    /\ tasks = [k \in Keys |-> None]
    /\ retiring = {}
    /\ reserved = {}
    /\ spawn = [p \in Spawns |-> Unused]
    /\ workspace = [k \in Keys |-> "absent"]
    /\ store = Free
    /\ request = [r \in Requests |-> Unasked]
    /\ cleaner = Resting
    /\ closing = "open"
    /\ maxWorkers \in Limits
    /\ forgotten = {}
    /\ deaths = 0
    /\ restarts = 0

-----------------------------------------------------------------------------
\* `_stop`: the process is told to end, ends on its own account within ten
\* seconds or is killed; then its directory is marked under the workspace lock.
\* It may raise once the process is gone, when the configuration cannot be
\* unlinked or the mark not written, and whoever called it fails.
Asked(s, p) == [s EXCEPT ![p].process = IF @ = "up" THEN "asked" ELSE @]
Gone(p) == spawn[p].process \in {"none", "exited"}
MarkedIdle(k) ==
    [workspace EXCEPT ![k] = IF @ = "absent" THEN @ ELSE "idle"]

Exits(p) ==
    /\ spawn[p].process = "asked"
    /\ spawn' = [spawn EXCEPT ![p].process = "exited"]
    /\ UNCHANGED <<workers, tasks, retiring, reserved, workspace, store, request,
                   cleaner, closing, counters>>

\* A process dies on its own.
Dies(p) ==
    /\ spawn[p].process = "up"
    /\ deaths < MaxDeaths
    /\ deaths' = deaths + 1
    /\ spawn' = [spawn EXCEPT ![p].process = "exited"]
    /\ UNCHANGED <<workers, tasks, retiring, reserved, workspace, store, request,
                   cleaner, closing, maxWorkers, forgotten, restarts>>

-----------------------------------------------------------------------------
\* A request arrives.  `_enforce_workspace_capacity` before it is the prune that
\* the cleaner also does and is left to it; it may refuse the request.
Ask(r) ==
    /\ request[r].stage = "unasked"
    /\ \E k \in Keys, t \in Terminals :
          request' = [request EXCEPT ![r] =
              [Unasked EXCEPT !.stage = "getting", !.key = k, !.terminal = t]]
    /\ UNCHANGED <<pool, workspace, store, cleaner, closing, counters>>

Turned(r, stage) == request' = [request EXCEPT ![r].stage = stage]
Getting(r) == request[r].stage = "getting" /\ closing = "open"
Live(k) == workers[k] # None /\ Running(workers[k])

\* `_get`, under the lock.  A worker whose process died is popped first,
\* whatever comes of the request.
Stale(k) == IF workers[k] # None /\ ~Running(workers[k]) THEN {workers[k]} ELSE {}
Kept(k) == IF Stale(k) = {} THEN workers ELSE [workers EXCEPT ![k] = None]
PortsOf(S) == {spawn[p].port : p \in S}
\* Mutant: spawn tasks are not counted.
FullOfWorkers(k) == Cardinality({i \in Keys : Kept(k)[i] # None}) >= maxWorkers
Full(k) == Cardinality({i \in Keys : Kept(k)[i] # None}) + Cardinality(Spawning) >= maxWorkers
Candidates(k) == Idle \ Stale(k)

GetRefused(r) ==
    LET k == request[r].key IN
    /\ request[r].stage = "getting"
    /\ \/ /\ ~request[r].terminal \/ closing # "open" \/ (workers[k] # None /\ spawn[workers[k]].ending)
          /\ UNCHANGED pool
       \/ /\ Getting(r)
          /\ ~Live(k) /\ (workers[k] # None => ~spawn[workers[k]].ending)
          /\ tasks[k] = None /\ Full(k) /\ Candidates(k) = {}
          /\ workers' = Kept(k)
          /\ retiring' = retiring \cup PortsOf(Stale(k))
          /\ UNCHANGED <<tasks, reserved, spawn>>
    /\ Turned(r, "refused")
    /\ UNCHANGED <<workspace, store, cleaner, closing, counters>>

GetReuses(r) ==
    LET w == workers[request[r].key] IN
    /\ Getting(r)
    /\ Live(request[r].key) /\ ~spawn[w].ending
    /\ spawn' = [spawn EXCEPT ![w].active = @ + 1]
    /\ request' = [request EXCEPT ![r].stage = "calling", ![r].worker = w]
    /\ UNCHANGED <<workers, tasks, retiring, reserved, workspace, store, cleaner, closing, counters>>

GetJoins(r) ==
    LET k == request[r].key IN
    /\ Getting(r)
    /\ ~Live(k) /\ (workers[k] # None => ~spawn[workers[k]].ending)
    /\ tasks[k] # None
    /\ workers' = Kept(k)
    /\ retiring' = retiring \cup PortsOf(Stale(k))
    /\ request' = [request EXCEPT ![r].stage = "waiting", ![r].worker = tasks[k]]
    /\ UNCHANGED <<tasks, reserved, spawn, workspace, store, cleaner, closing, counters>>

\* `_next_port` and a new spawn task, which first stops what it replaces.  Without
\* a port the request fails, and what it popped nobody stops.
NextPort(used) == IF Ports \subseteq used THEN None ELSE Min(Ports \ used)
Victims(k) ==
    IF Full(k) THEN Candidates(k) ELSE IF Stale(k) = {} THEN {None} ELSE Stale(k)

GetStarts(r) ==
    LET k == request[r].key IN
    /\ Getting(r)
    /\ ~Live(k) /\ (workers[k] # None => ~spawn[workers[k]].ending)
    /\ tasks[k] = None
    /\ \E victim \in Victims(k) :
        LET left == [i \in Keys |-> IF Kept(k)[i] = victim THEN None ELSE Kept(k)[i]]
            leaving == retiring \cup PortsOf((Stale(k) \cup {victim}) \ {None})
            port == NextPort(PortsOf({left[i] : i \in Keys} \ {None}) \cup leaving \cup reserved)
        IN  /\ workers' = left
            /\ retiring' = leaving
            /\ \/ /\ port = None
                  /\ forgotten' = forgotten \cup ((Stale(k) \cup {victim}) \ {None})
                  /\ Turned(r, "refused")
                  /\ UNCHANGED <<tasks, reserved, spawn>>
               \/ /\ port # None
                  /\ \E p \in Spawns :
                        /\ spawn[p].stage = "unused"
                        /\ \A q \in 1..(p - 1) : spawn[q].stage # "unused"
                        /\ tasks' = [tasks EXCEPT ![k] = p]
                        /\ reserved' = reserved \cup {port}
                        /\ spawn' = [spawn EXCEPT ![p] = Created(k, port, victim)]
                        /\ request' = [request EXCEPT ![r].stage = "waiting", ![r].worker = p]
                  /\ UNCHANGED forgotten
    /\ UNCHANGED <<workspace, store, cleaner, closing, maxWorkers, deaths, restarts>>

\* The spawn task ended: look again, or fail with it.
Wakes(r) ==
    /\ request[r].stage = "waiting"
    /\ spawn[request[r].worker].stage \in Over
    /\ Turned(r, IF spawn[request[r].worker].stage = "done" THEN "getting" ELSE "refused")
    /\ UNCHANGED <<pool, workspace, store, cleaner, closing, counters>>

-----------------------------------------------------------------------------
\* `_spawn_for_key`.
\* Mutant: what the task replaces is not stopped.
BeginsAtOnce(p) ==
    /\ spawn[p].stage = "created"
    /\ spawn' = [spawn EXCEPT ![p].stage = "queued"]
    /\ UNCHANGED <<workers, tasks, retiring, reserved, workspace, store, request,
                   cleaner, closing, counters>>
Begins(p) ==
    /\ spawn[p].stage = "created"
    /\ IF spawn[p].evicted = None
       THEN spawn' = [spawn EXCEPT ![p].stage = "queued"]
       ELSE spawn' = [Asked(spawn, spawn[p].evicted) EXCEPT ![p].stage = "evicting"]
    /\ UNCHANGED <<workers, tasks, retiring, reserved, workspace, store, request,
                   cleaner, closing, counters>>

\* The `finally` of a spawn task: it runs no await, so it ends the step that
\* led to it.
Leaving(p, how) ==
    /\ tasks' = [tasks EXCEPT ![spawn[p].key] = IF @ = p THEN None ELSE @]
    /\ reserved' = reserved \ {spawn[p].port}
    /\ spawn' = [spawn EXCEPT ![p].stage = how]

MayEvict(p) == spawn[p].stage = "evicting" /\ Gone(spawn[p].evicted) /\ store = Free
Evicted(p) ==
    LET w == spawn[p].evicted IN
    /\ MayEvict(p)
    /\ workspace' = MarkedIdle(spawn[w].key)
    /\ retiring' = retiring \ {spawn[w].port}
    /\ spawn' = [spawn EXCEPT ![p].stage = "queued"]
    /\ UNCHANGED <<workers, tasks, reserved, store, request, cleaner, closing, counters>>

EvictFails(p) ==
    LET w == spawn[p].evicted IN
    /\ spawn[p].stage = "evicting" /\ Gone(w)
    /\ retiring' = retiring \ {spawn[w].port}
    /\ Leaving(p, "failed")
    /\ UNCHANGED <<workers, workspace, store, request, cleaner, closing, counters>>

\* A place of the semaphore, then the workspace lock; the protected set is read here.
MayWork(p) ==
    /\ spawn[p].stage = "queued"
    /\ Cardinality({q \in Spawns : spawn[q].stage \in Working}) < SpawnConcurrency
Admitted(p) ==
    /\ MayWork(p)
    /\ spawn' = [spawn EXCEPT ![p].stage = "admitted"]
    /\ UNCHANGED <<workers, tasks, retiring, reserved, workspace, store, request,
                   cleaner, closing, counters>>

MayHold(p) == spawn[p].stage = "admitted" /\ store = Free
HoldsStore(p) ==
    /\ MayHold(p)
    /\ store' = [owner |-> Spawner(p), protected |-> Protected \cup {spawn[p].key}]
    /\ spawn' = [spawn EXCEPT ![p].stage = "preparing"]
    /\ UNCHANGED <<workers, tasks, retiring, reserved, workspace, request, cleaner,
                   closing, counters>>

\* `_prepare_workspace`: the prune for one more directory, the directory, the
\* prune by size, which may take the new directory back.
MayPrepare(p) == spawn[p].stage = "preparing" /\ store.owner = Spawner(p)
Prepares(p) ==
    LET k == spawn[p].key
        slots == IF workspace[k] = "absent" THEN 1 ELSE 0
    IN
    /\ MayPrepare(p)
    /\ \E gone \in SUBSET Keys :
        /\ Prunable(store.protected, gone)
        /\ \/ /\ RoomLeft(gone, slots)
              /\ workspace' = [Without(gone) EXCEPT ![k] = "active"]
              /\ spawn' = [spawn EXCEPT ![p].stage = "launching"]
              /\ UNCHANGED <<tasks, reserved>>
           \/ /\ workspace' = Without(gone)
              /\ Leaving(p, "failed")
    /\ store' = Free
    /\ UNCHANGED <<workers, retiring, request, cleaner, closing, counters>>

Launches(p) ==
    /\ spawn[p].stage = "launching"
    /\ \/ /\ spawn' = [spawn EXCEPT ![p].process = "up", ![p].stage = "starting"]
          /\ UNCHANGED <<tasks, reserved>>
       \/ Leaving(p, "failed")
    /\ UNCHANGED <<workers, retiring, workspace, store, request, cleaner, closing, counters>>

\* It answered its health check, and is installed unless the supervisor closes.
Installs(p) ==
    /\ spawn[p].stage = "starting" /\ closing = "open"
    /\ workers' = [workers EXCEPT ![spawn[p].key] = p]
    /\ Leaving(p, "done")
    /\ UNCHANGED <<retiring, workspace, store, request, cleaner, closing, counters>>

\* It died, never became ready, or the supervisor closes.
Gives(p) ==
    /\ spawn[p].stage = "starting"
    /\ spawn' = [Asked(spawn, p) EXCEPT ![p].stage = "undoing"]
    /\ UNCHANGED <<workers, tasks, retiring, reserved, workspace, store, request,
                   cleaner, closing, counters>>

MayUndo(p) == spawn[p].stage = "undoing" /\ Gone(p) /\ store = Free
Undone(p) ==
    /\ MayUndo(p)
    /\ workspace' = MarkedIdle(spawn[p].key)
    /\ Leaving(p, "failed")
    /\ UNCHANGED <<workers, retiring, store, request, cleaner, closing, counters>>

UndoFails(p) ==
    /\ spawn[p].stage = "undoing" /\ Gone(p)
    /\ Leaving(p, "failed")
    /\ UNCHANGED <<workers, retiring, workspace, store, request, cleaner, closing, counters>>

-----------------------------------------------------------------------------
\* `complete` after the call: the request leaves its worker, and the last one
\* to leave a worker whose conversation ended retires it.
Replies(r) ==
    LET w == request[r].worker
        k == request[r].key
        last == spawn[w].active = 1
    IN
    /\ request[r].stage = "calling"
    /\ \E ok \in IF Running(w) THEN BOOLEAN ELSE {FALSE} :
        LET ended == ok /\ request[r].terminal
            over == spawn[w].ending \/ ended
            retires == over /\ last /\ workers[k] = w
            left == [spawn EXCEPT ![w].active = @ - 1, ![w].ending = over]
        IN  /\ spawn' = IF retires THEN Asked(left, w) ELSE left
            /\ workers' = IF retires THEN [workers EXCEPT ![k] = None] ELSE workers
            /\ retiring' = IF retires THEN retiring \cup {spawn[w].port} ELSE retiring
            /\ request' = [request EXCEPT
                  ![r].ok = ok,
                  ![r].stage = IF retires THEN "retiring"
                               ELSE IF ended THEN "answered" ELSE "touching"]
    /\ UNCHANGED <<tasks, reserved, workspace, store, cleaner, closing, counters>>

Outcome(r) == IF request[r].ok THEN "answered" ELSE "refused"

\* `_stop(delete_workspace=True)`; a directory that cannot be deleted stays terminal.
Retired(r) ==
    LET w == request[r].worker
        k == request[r].key
    IN
    /\ request[r].stage = "retiring" /\ Gone(w) /\ store = Free
    /\ \E rest \in {"absent", "terminal"} :
          workspace' = [workspace EXCEPT ![k] = IF @ = "absent" THEN @ ELSE rest]
    /\ retiring' = retiring \ {spawn[w].port}
    /\ Turned(r, Outcome(r))
    /\ UNCHANGED <<workers, tasks, reserved, spawn, store, cleaner, closing, counters>>

\* It raises before the directory is marked or after.
RetireFails(r) ==
    LET w == request[r].worker
        k == request[r].key
    IN
    /\ request[r].stage = "retiring" /\ Gone(w)
    /\ \/ UNCHANGED workspace
       \/ /\ store = Free
          /\ \E rest \in {"absent", "terminal"} :
                workspace' = [workspace EXCEPT ![k] = IF @ = "absent" THEN @ ELSE rest]
    /\ retiring' = retiring \ {spawn[w].port}
    /\ Turned(r, "refused")
    /\ UNCHANGED <<workers, tasks, reserved, spawn, store, cleaner, closing, counters>>

\* `_touch_workspace` raises when the directory is gone, and the answer with it.
Touches(r) ==
    LET k == request[r].key IN
    /\ request[r].stage = "touching" /\ store = Free
    /\ workspace' = [workspace EXCEPT ![k] = IF @ = "absent" THEN @ ELSE "active"]
    /\ Turned(r, IF workspace[k] = "absent" THEN "refused" ELSE Outcome(r))
    /\ UNCHANGED <<pool, store, cleaner, closing, counters>>

TouchFails(r) ==
    /\ request[r].stage = "touching" /\ store = Free
    /\ Turned(r, "refused")
    /\ UNCHANGED <<pool, workspace, store, cleaner, closing, counters>>

-----------------------------------------------------------------------------
\* `_retire_expired_workers`: some idle workers have been idle for too long;
\* they are taken together and stopped one after the other.
StopsNext(left) ==
    IF left = {}
    THEN /\ cleaner' = [stage |-> "stopping", left |-> {}, now |-> None]
         /\ UNCHANGED spawn
    ELSE \E w \in left :
         /\ cleaner' = [stage |-> "stopping", left |-> left \ {w}, now |-> w]
         /\ spawn' = Asked(spawn, w)

Sweeps ==
    /\ cleaner.stage = "resting" /\ closing = "open"
    /\ \E expired \in SUBSET Idle :
        /\ workers' = [k \in Keys |-> IF workers[k] \in expired THEN None ELSE workers[k]]
        /\ retiring' = retiring \cup PortsOf(expired)
        /\ StopsNext(expired)
    /\ UNCHANGED <<tasks, reserved, workspace, store, request, closing, counters>>

SweepStopped ==
    LET w == cleaner.now IN
    /\ cleaner.stage = "stopping" /\ w # None /\ Gone(w) /\ store = Free
    /\ workspace' = MarkedIdle(spawn[w].key)
    /\ retiring' = retiring \ {spawn[w].port}
    /\ StopsNext(cleaner.left)
    /\ UNCHANGED <<workers, tasks, reserved, store, request, closing, counters>>

\* A `_stop` that raises ends the sweep, and its prune; the workers that were
\* taken with this one nobody stops (`_cleanup_loop` logs it and sleeps).
SweepFails ==
    LET w == cleaner.now IN
    /\ cleaner.stage = "stopping" /\ w # None /\ Gone(w)
    /\ retiring' = retiring \ {spawn[w].port}
    /\ forgotten' = forgotten \cup cleaner.left
    /\ cleaner' = Resting
    /\ UNCHANGED <<workers, tasks, reserved, spawn, workspace, store, request, closing,
                   maxWorkers, deaths, restarts>>

SweepHoldsStore ==
    /\ cleaner.stage = "stopping" /\ cleaner.now = None
    /\ store = Free
    /\ store' = [owner |-> Cleaner, protected |-> Protected]
    /\ cleaner' = [cleaner EXCEPT !.stage = "pruning"]
    /\ UNCHANGED <<pool, workspace, request, closing, counters>>

MayPrune == cleaner.stage = "pruning" /\ store.owner = Cleaner
Prunes ==
    /\ MayPrune
    /\ \E gone \in SUBSET Keys :
          Prunable(store.protected, gone) /\ workspace' = Without(gone)
    /\ store' = Free
    /\ cleaner' = Resting
    /\ UNCHANGED <<pool, request, closing, counters>>

-----------------------------------------------------------------------------
\* `close`: first the flag and the cleanup task, whose current worker is killed
\* and whose remaining ones nobody stops.
Closes ==
    /\ closing = "open"
    /\ closing' = "closing"
    /\ IF cleaner.now = None THEN UNCHANGED <<spawn, retiring>>
       ELSE /\ spawn' = [spawn EXCEPT ![cleaner.now].process = "exited"]
            /\ retiring' = retiring \ {spawn[cleaner.now].port}
    /\ cleaner' = Resting
    /\ store' = IF store.owner = Cleaner THEN Free ELSE store
    /\ UNCHANGED <<workers, tasks, reserved, workspace, request, counters>>

\* Then, under the lock, every spawn task is cancelled where it waits and the
\* installed workers are taken.  A task that never ran runs no cleanup; one
\* with a Worker stops it, one that was stopping a Worker kills it.
Spawners(stages) == {p \in Spawns : spawn[p].stage \in stages}
Takes ==
    LET silent == Spawners({"created"})
        stopping == Spawners({"starting"})
        killed == Spawners({"undoing"}) \cup {spawn[p].evicted : p \in Spawners({"evicting"})}
        ends == Spawners({"created", "evicting", "queued", "admitted", "preparing", "launching", "undoing"})
    IN
    /\ closing = "closing"
    /\ closing' = "stopping"
    /\ workers' = [k \in Keys |-> None]
    /\ tasks' = [k \in Keys |-> IF tasks[k] \in ends \ silent THEN None ELSE tasks[k]]
    /\ reserved' = reserved \ PortsOf(ends \ silent)
    /\ retiring' = retiring \ PortsOf(killed)
    /\ spawn' = [p \in Spawns |->
          [spawn[p] EXCEPT
              !.stage = IF p \in ends THEN "failed" ELSE IF p \in stopping THEN "undoing" ELSE @,
              !.process = IF p \in killed THEN "exited"
                          ELSE IF p \in Installed \cup stopping THEN Asked(spawn, p)[p].process
                          ELSE @]]
    /\ store' = IF \E p \in Spawns : store.owner = Spawner(p) THEN Free ELSE store
    /\ UNCHANGED <<workspace, request, cleaner, counters>>

Closed ==
    /\ closing = "stopping" /\ store = Free
    /\ \A p \in Spawns : spawn[p].stage \in Over \cup {"unused"} /\ spawn[p].process # "asked"
    /\ closing' = "closed"
    /\ workspace' = [k \in Keys |->
          IF \E p \in Spawns : spawn[p].key = k /\ Running(p) THEN workspace[k]
          ELSE MarkedIdle(k)[k]]
    /\ UNCHANGED <<pool, store, request, cleaner, counters>>

\* The supervisor starts again, after `close` or a crash; its workers died with
\* its container.  `_initialize_workspace_store`.
Restarts ==
    /\ restarts < MaxRestarts
    /\ restarts' = restarts + 1
    /\ workers' = [k \in Keys |-> None]
    /\ tasks' = [k \in Keys |-> None]
    /\ retiring' = {}
    /\ reserved' = {}
    /\ spawn' = [p \in Spawns |-> Unused]
    /\ store' = Free
    /\ request' = [r \in Requests |->
          IF request[r].stage \in {"unasked", "answered", "refused"} THEN request[r]
          ELSE [request[r] EXCEPT !.stage = "refused", !.worker = None]]
    /\ cleaner' = Resting
    /\ closing' = "open"
    /\ forgotten' = {}
    /\ \E gone \in SUBSET Keys :
        /\ Prunable({}, gone) /\ RoomLeft(gone, 0)
        /\ workspace' = [k \in Keys |->
              IF Without(gone)[k] = "active" THEN "idle" ELSE Without(gone)[k]]
    /\ UNCHANGED <<maxWorkers, deaths>>

-----------------------------------------------------------------------------
RequestSteps(r) ==
    \/ GetRefused(r) \/ GetReuses(r) \/ GetJoins(r) \/ GetStarts(r)
    \/ Wakes(r) \/ Replies(r) \/ Retired(r) \/ RetireFails(r) \/ Touches(r) \/ TouchFails(r)
SpawnSteps(p) ==
    \/ Begins(p) \/ Evicted(p) \/ EvictFails(p) \/ Admitted(p) \/ HoldsStore(p) \/ Prepares(p)
    \/ Launches(p) \/ Installs(p) \/ Gives(p) \/ Undone(p) \/ UndoFails(p)
CleanerSteps == SweepStopped \/ SweepFails \/ SweepHoldsStore \/ Prunes

Next ==
    \/ \E r \in Requests : Ask(r) \/ RequestSteps(r)
    \/ \E p \in Spawns : SpawnSteps(p) \/ Exits(p) \/ Dies(p)
    \/ Sweeps \/ CleanerSteps
    \/ Closes \/ Takes \/ Closed \/ Restarts

Spec == Init /\ [][Next]_vars

-----------------------------------------------------------------------------
\* No two processes are given the same port, though a port is handed out while
\* other processes are still being stopped by a request, the cleaner or another
\* spawn task; and the conversations that have or are getting a process are at
\* most `max_workers` (`_get`, `_next_port`).
PoolBounded ==
    /\ closing = "open" => Cardinality(Protected) <= maxWorkers
    /\ \A p, q \in Spawns : Running(p) /\ Running(q) /\ p # q => spawn[p].port # spawn[q].port

\* Until the supervisor closes, a process that runs is installed, or being
\* started, or somebody is about to stop it: none is lost between the dictionary
\* it is popped from and the `_stop` that another task runs.  Two steps alone pop
\* workers that then run on unowned: a request that finds no port, and a sweep
\* whose `_stop` of an earlier worker raises.
Owned(p) ==
    \/ p \in Installed \cup cleaner.left \cup {cleaner.now}
    \/ spawn[p].stage \in Working
    \/ \E q \in Spawns : spawn[q].evicted = p /\ spawn[q].stage \in {"created", "evicting"}
    \/ \E r \in Requests : request[r].stage = "retiring" /\ request[r].worker = p
EveryProcessIsOwned ==
    closing = "open" => \A p \in Spawns : Running(p) => Owned(p) \/ p \in forgotten

\* That there is no such worker, which the two steps break (forgotten.cfg).
NoneForgotten == closing = "open" => \A p \in Spawns : Running(p) => Owned(p)

\* Cleanup removes no directory of an installed worker that runs or of one that
\* is starting (docs/operations.md: "Active and starting workers are never cleanup
\* candidates"), although it works on a set it read before it waited.  Only the
\* step of a request that ends its conversation may, with the directory of that
\* conversation.  A worker that was popped is in neither set while it exits.
InUse(k) ==
    \/ workers[k] # None /\ Running(workers[k])
    \/ tasks[k] # None /\ spawn[tasks[k]].stage \in {"launching", "starting"}
EndsConversation(k) == \E r \in Requests :
    request[r].stage = "retiring" /\ request[r].key = k /\ request'[r].stage # "retiring"
CleanupSparesWorkers ==
    [][\A k \in Keys :
          workspace[k] # "absent" /\ workspace'[k] = "absent" /\ restarts' = restarts
          /\ ~EndsConversation(k) => ~InUse(k)]_vars

\* Nobody waits for somebody who waits: a spawn task waits in turn for a
\* process to end, a place of the semaphore and the workspace lock, keeps the
\* second while it waits for the third, and waits for it again to mark the
\* directory of a worker that failed; while one is under way, one of them, a
\* process told to end or the cleaner can go on (`_spawn_for_key`, `_stop`).
UnderWay == {p \in Spawns : spawn[p].stage \in {"created", "evicting", "queued"} \cup Working}
MayGoOn(p) ==
    \/ spawn[p].stage \in {"created", "launching", "starting"}
    \/ MayEvict(p) \/ MayWork(p) \/ MayHold(p) \/ MayPrepare(p) \/ MayUndo(p)
NobodyStuck ==
    UnderWay # {} => MayPrune \/ \E p \in Spawns : MayGoOn(p) \/ spawn[p].process = "asked"

=============================================================================
