----------------------- MODULE AgentSupervisorProofs -----------------------
(***************************************************************************)
(* What the Agent supervisor promises, for any number of conversations,    *)
(* requests, workers and ports: a bounded pool of processes on ports of    *)
(* their own, none that nobody will stop but those two steps forget, a     *)
(* cleanup that takes no directory from an installed or starting worker,   *)
(* and no tasks that wait for each other.                                  *)
(***************************************************************************)
EXTENDS AgentSupervisor, FiniteSetTheorems, TLAPS

-----------------------------------------------------------------------------
(* Types.                                                                  *)

Stages == {"unused", "created", "evicting", "queued", "done", "failed"} \cup Working
Processes == {"none", "up", "asked", "exited"}
SpawnState ==
    [key : Keys \cup {None}, port : Ports \cup {None}, stage : Stages,
     evicted : Spawns \cup {None}, process : Processes,
     active : Int, ending : BOOLEAN]
RequestStages ==
    {"unasked", "getting", "waiting", "calling", "retiring", "touching", "answered", "refused"}
RequestState ==
    [stage : RequestStages, key : Keys \cup {None}, terminal : BOOLEAN,
     worker : Spawns \cup {None}, ok : BOOLEAN]
CleanerState ==
    [stage : {"resting", "stopping", "pruning"}, left : SUBSET Spawns, now : Spawns \cup {None}]
Holders == {Nobody, Cleaner} \cup {Spawner(p) : p \in Spawns}

\* What was started has a conversation and a port; what is installed for a conversation
\* was started for it.
PoolTypes ==
    /\ workers \in [Keys -> Spawns \cup {None}]
    /\ tasks \in [Keys -> Spawns \cup {None}]
    /\ spawn \in [Spawns -> SpawnState]
    /\ retiring \subseteq Ports
    /\ reserved \subseteq Ports
    /\ \A p \in Spawns : spawn[p].stage # "unused" => spawn[p].key \in Keys /\ spawn[p].port \in Ports
    /\ \A k \in Keys : workers[k] # None =>
          spawn[workers[k]].stage = "done" /\ spawn[workers[k]].key = k
\* A request that has arrived has a conversation, and one past `_get` a process.
Served == {"waiting", "calling", "retiring", "touching"}
RequestTypes ==
    /\ request \in [Requests -> RequestState]
    /\ \A r \in Requests : request[r].stage # "unasked" => request[r].key \in Keys
    /\ \A r \in Requests : request[r].stage \in Served => request[r].worker \in Spawns
WorkspaceTypes == workspace \in [Keys -> {"absent", "active", "idle", "terminal"}]
StoreTypes == store \in [owner : Holders, protected : SUBSET Keys]
CleanerTypes ==
    /\ cleaner \in CleanerState
    /\ \A p \in cleaner.left \cup ({cleaner.now} \ {None}) : spawn[p].stage = "done"
RestTypes ==
    /\ closing \in {"open", "closing", "stopping", "closed"}
    /\ maxWorkers \in Limits
    /\ forgotten \subseteq Spawns
    /\ deaths \in Nat
    /\ restarts \in Nat
TypeOK ==
    /\ PoolTypes /\ RequestTypes /\ WorkspaceTypes
    /\ StoreTypes /\ CleanerTypes /\ RestTypes

LEMMA MinIsMember == ASSUME NEW S \in SUBSET Ports, S # {} PROVE Min(S) \in S
<1> DEFINE Upto(n) == {m \in S : m =< n}
           Ups == {Upto(n) : n \in S}
<1>1. IsFiniteSet(S)
  <2>1. PortCount \in Int /\ 1 \in Int
    BY SupervisorAssumption
  <2>2. IsFiniteSet(1..PortCount)
    BY <2>1, FS_Interval
  <2> QED BY <2>2, FS_Subset DEF Ports
<1>2. S \subseteq Nat
  BY SupervisorAssumption DEF Ports
<1>3. FiniteSubsetsOf(S) = SUBSET S
  BY <1>1, FS_FiniteSubsetsOfFinite
<1>4. IsWellFoundedOn(StrictSubsetOrdering(S), SUBSET S)
  BY <1>3, FS_StrictSubsetOrderingWellFounded
<1>5. Ups \subseteq SUBSET S /\ Ups # {}
  OBVIOUS
<1>6. \E U \in Ups : \A V \in Ups : ~ (<<V, U>> \in StrictSubsetOrdering(S))
  <2> HIDE DEF Ups
  <2> QED BY <1>4, <1>5, WFMin
<1>7. PICK n \in S : \A m \in S : ~ (<<Upto(m), Upto(n)>> \in StrictSubsetOrdering(S))
  BY <1>6
<1>8. ASSUME NEW m \in S PROVE n =< m
  <2>1. SUFFICES ASSUME m < n PROVE FALSE
    BY <1>2
  <2>2. ASSUME NEW i \in S, i =< m PROVE i =< n
    <3>1. i \in Nat /\ m \in Nat /\ n \in Nat
      BY <1>2, <1>8, <1>7
    <3> QED BY <2>1, <2>2, <3>1
  <2>5. Upto(m) \subseteq Upto(n)
    BY <2>2
  <2>3. n \in Upto(n) /\ n \notin Upto(m)
    BY <1>2, <1>8, <2>1
  <2>4. <<Upto(m), Upto(n)>> \in StrictSubsetOrdering(S)
    <3> HIDE DEF Upto
    <3>1. Upto(m) \subseteq S /\ Upto(n) \subseteq S
      BY DEF Upto
    <3> QED BY <2>5, <2>3, <3>1 DEF StrictSubsetOrdering
  <2> QED BY <1>7, <1>8, <2>4
<1> QED BY <1>8 DEF Min

LEMMA PortIsFree ==
  ASSUME NEW used, NextPort(used) # None
  PROVE  NextPort(used) \in Ports \ used
<1>1. Ports \ used # {}
  BY DEF NextPort
<1>2. Min(Ports \ used) \in Ports \ used
  BY <1>1, MinIsMember
<1> QED BY <1>2 DEF NextPort

LEMMA TypesInit == Init => TypeOK
<1> SUFFICES ASSUME Init PROVE TypeOK
  OBVIOUS
<1>1. Unused \in SpawnState
  BY DEF Unused, SpawnState, Stages, Processes, None
<1>2. Unasked \in RequestState
  BY DEF Unasked, RequestState, RequestStages, None
<1>3. Resting \in CleanerState /\ Resting.left \cup ({Resting.now} \ {None}) = {}
  BY DEF Resting, CleanerState, None
<1>4. Free \in [owner : Holders, protected : SUBSET Keys]
  BY DEF Free, Holders
<1>5. PoolTypes
  <2> HIDE DEF SpawnState
  <2>1. \A p \in Spawns : spawn[p].stage = "unused"
    BY DEF Init, Unused
  <2> QED BY <1>1, <2>1 DEF Init, PoolTypes
<1>6. RequestTypes
  <2> HIDE DEF RequestState
  <2>1. \A r \in Requests : request[r].stage = "unasked"
    BY DEF Init, Unasked
  <2> QED BY <1>2, <2>1 DEF Init, RequestTypes, Served
<1> QED BY <1>3, <1>4, <1>5, <1>6 DEF Init, TypeOK, WorkspaceTypes, StoreTypes, CleanerTypes, RestTypes

\* What a step leaves of the processes: their conversations, ports and victims; all stages
\* but one (None: all); no process starts to run.
Fixed ==
    /\ spawn' \in [Spawns -> SpawnState]
    /\ \A p \in Spawns : /\ spawn'[p].key = spawn[p].key
                         /\ spawn'[p].port = spawn[p].port
                         /\ spawn'[p].evicted = spawn[p].evicted
Restaged(p, to) ==
    \A q \in Spawns : spawn'[q].stage = IF q = p THEN to ELSE spawn[q].stage
Quieter ==
    \A q \in Spawns : \/ spawn'[q].process = spawn[q].process
                      \/ Running(q) /\ spawn'[q].process \in {"asked", "exited"}
Effect(p, to) == Fixed /\ Restaged(p, to) /\ Quieter

\* `_stop` tells one process to end.
LEMMA AskedType ==
  ASSUME NEW s \in [Spawns -> SpawnState], NEW w
  PROVE  /\ Asked(s, w) \in [Spawns -> SpawnState]
         /\ \A p \in Spawns :
              /\ Asked(s, w)[p].key = s[p].key
              /\ Asked(s, w)[p].port = s[p].port
              /\ Asked(s, w)[p].evicted = s[p].evicted
              /\ Asked(s, w)[p].stage = s[p].stage
              /\ Asked(s, w)[p].active = s[p].active
              /\ Asked(s, w)[p].process =
                   IF p = w /\ s[p].process = "up" THEN "asked" ELSE s[p].process
<1>1. Asked(s, w) \in [Spawns -> SpawnState]
  BY ZenonT(30) DEF Asked, SpawnState, Processes
<1>2. ASSUME NEW p \in Spawns
      PROVE  Asked(s, w)[p] = IF p = w
                THEN [s[p] EXCEPT !.process = IF @ = "up" THEN "asked" ELSE @] ELSE s[p]
  BY DEF Asked
<1>3. \A p \in Spawns : s[p] \in SpawnState
  OBVIOUS
<1>4. ASSUME NEW p \in Spawns
      PROVE  /\ Asked(s, w)[p].key = s[p].key
             /\ Asked(s, w)[p].port = s[p].port
             /\ Asked(s, w)[p].evicted = s[p].evicted
             /\ Asked(s, w)[p].stage = s[p].stage
             /\ Asked(s, w)[p].active = s[p].active
             /\ Asked(s, w)[p].process =
                  IF p = w /\ s[p].process = "up" THEN "asked" ELSE s[p].process
  BY <1>2, <1>3 DEF SpawnState
<1> QED BY <1>1, <1>4

LEMMA StageType ==
  ASSUME NEW s \in [Spawns -> SpawnState], NEW p \in Spawns, NEW to \in Stages
  PROVE  /\ [s EXCEPT ![p].stage = to] \in [Spawns -> SpawnState]
         /\ \A q \in Spawns : [s EXCEPT ![p].stage = to][q] =
                IF q = p THEN [s[q] EXCEPT !.stage = to] ELSE s[q]
  BY DEF SpawnState

LEMMA ActiveType ==
  ASSUME NEW s \in [Spawns -> SpawnState], NEW w, NEW d \in Int
  PROVE  [s EXCEPT ![w].active = @ + d] \in [Spawns -> SpawnState]
<1>1. CASE w \in Spawns
  <2>1. s[w] \in SpawnState
    BY <1>1
  <2>2. s[w].active + d \in Int
    BY <2>1 DEF SpawnState
  <2>3. [s[w] EXCEPT !.active = @ + d] \in SpawnState
    BY <2>1, <2>2 DEF SpawnState
  <2>4. [s EXCEPT ![w].active = @ + d] = [s EXCEPT ![w] = [s[w] EXCEPT !.active = @ + d]]
    OBVIOUS
  <2> HIDE DEF SpawnState
  <2> QED BY <2>3, <2>4
<1>2. CASE w \notin Spawns
  <2>1. [s EXCEPT ![w].active = @ + d] = s
    BY <1>2
  <2> QED BY <2>1
<1> QED BY <1>1, <1>2

\* A step that moves one process to another stage.
LEMMA MovesOne ==
  ASSUME PoolTypes, NEW p \in Spawns, NEW to \in Stages,
         spawn' = [spawn EXCEPT ![p].stage = to]
  PROVE  Effect(p, to) /\ \A q \in Spawns : spawn'[q].process = spawn[q].process
  BY DEF PoolTypes, SpawnState, Effect, Fixed, Restaged, Quieter

\* One that also tells one process to end.
LEMMA AsksAndMoves ==
  ASSUME PoolTypes, NEW p \in Spawns, NEW to \in Stages, NEW w,
         spawn' = [Asked(spawn, w) EXCEPT ![p].stage = to]
  PROVE  Effect(p, to)
<1>1. spawn \in [Spawns -> SpawnState]
  BY DEF PoolTypes
<1> DEFINE s == Asked(spawn, w)
<1>2. s \in [Spawns -> SpawnState]
  BY <1>1, AskedType
<1>3. \A q \in Spawns : spawn'[q] = IF q = p THEN [s[q] EXCEPT !.stage = to] ELSE s[q]
  <2> HIDE DEF s, SpawnState
  <2>1. spawn' = [s EXCEPT ![p].stage = to]
    BY DEF s
  <2> QED BY <1>2, <2>1, StageType
<1>4. spawn' \in [Spawns -> SpawnState]
  <2> HIDE DEF SpawnState
  <2> QED BY <1>2, StageType
<1>5. \A q \in Spawns : /\ s[q].key = spawn[q].key /\ s[q].port = spawn[q].port
                        /\ s[q].evicted = spawn[q].evicted /\ s[q].stage = spawn[q].stage
                        /\ s[q].process = IF q = w /\ spawn[q].process = "up"
                                          THEN "asked" ELSE spawn[q].process
  BY <1>1, AskedType
<1>6. \A q \in Spawns : s[q] \in SpawnState
  BY <1>2
<1> HIDE DEF s
<1>7. \A q \in Spawns : /\ spawn'[q].key = s[q].key /\ spawn'[q].port = s[q].port
                        /\ spawn'[q].evicted = s[q].evicted /\ spawn'[q].process = s[q].process
                        /\ spawn'[q].stage = IF q = p THEN to ELSE s[q].stage
  <2> SUFFICES ASSUME NEW q \in Spawns
               PROVE  /\ spawn'[q].key = s[q].key /\ spawn'[q].port = s[q].port
                      /\ spawn'[q].evicted = s[q].evicted /\ spawn'[q].process = s[q].process
                      /\ spawn'[q].stage = IF q = p THEN to ELSE s[q].stage
    OBVIOUS
  <2>1. s[q] \in SpawnState
    BY <1>6
  <2>2. spawn'[q] = IF q = p THEN [s[q] EXCEPT !.stage = to] ELSE s[q]
    BY <1>3
  <2> QED BY <2>1, <2>2 DEF SpawnState
<1> QED BY <1>4, <1>5, <1>7 DEF Effect, Fixed, Restaged, Quieter, Running

\* One that only tells a process to end.
LEMMA OnlyAsks ==
  ASSUME PoolTypes, NEW w, spawn' = Asked(spawn, w)
  PROVE  Effect(None, "done")
<1>1. spawn \in [Spawns -> SpawnState] /\ None \notin Spawns
  BY DEF PoolTypes, None, Spawns
<1>2. spawn' \in [Spawns -> SpawnState]
  BY <1>1, AskedType
<1>3. \A q \in Spawns : /\ spawn'[q].key = spawn[q].key /\ spawn'[q].port = spawn[q].port
                        /\ spawn'[q].evicted = spawn[q].evicted /\ spawn'[q].stage = spawn[q].stage
                        /\ spawn'[q].process = IF q = w /\ spawn[q].process = "up"
                                               THEN "asked" ELSE spawn[q].process
  BY <1>1, AskedType
<1> QED BY <1>1, <1>2, <1>3 DEF Effect, Fixed, Restaged, Quieter, Running

LEMMA PoolTypesKept ==
  ASSUME PoolTypes, Fixed,
         \A p \in Spawns : /\ spawn[p].stage = "unused" => spawn'[p].stage = "unused"
                           /\ spawn[p].stage = "done" => spawn'[p].stage = "done",
         workers' \in [Keys -> Spawns \cup {None}],
         \A k \in Keys : workers'[k] \in {workers[k], None},
         tasks' \in [Keys -> Spawns \cup {None}],
         retiring' \subseteq Ports, reserved' \subseteq Ports
  PROVE  PoolTypes'
<1>1. \A k \in Keys : workers[k] \in Spawns \cup {None}
  BY DEF PoolTypes
<1> HIDE DEF SpawnState
<1> QED BY <1>1 DEF PoolTypes, Fixed

LEMMA PortsType ==
  ASSUME PoolTypes, NEW S \in SUBSET Spawns, \A p \in S : spawn[p].stage # "unused"
  PROVE  PortsOf(S) \subseteq Ports
  BY DEF PoolTypes, PortsOf

-----------------------------------------------------------------------------
(* What the steps of a spawn task, of a process and of a request leave of the
   processes. *)

LEMMA UnchangedEffect ==
  ASSUME PoolTypes, spawn' = spawn PROVE Effect(None, "done")
  BY DEF PoolTypes, None, Spawns, Effect, Fixed, Restaged, Quieter

LEMMA ProcessEffect ==
  ASSUME PoolTypes, NEW p \in Spawns, Exits(p) \/ Dies(p)
  PROVE  Effect(None, "done")
<1>1. spawn' = [spawn EXCEPT ![p].process = "exited"] /\ Running(p)
  BY DEF Exits, Dies, Running
<1> QED BY <1>1 DEF PoolTypes, None, Spawns, SpawnState, Processes, Effect, Fixed, Restaged, Quieter

\* The stage a spawn task is in before a step and the one it is in after it.
Advances(p, from, to) ==
    spawn[p].stage \in from /\ Effect(p, to) /\ to \in Stages

LEMMA BeginsEffect ==
  ASSUME PoolTypes, NEW p \in Spawns, Begins(p)
  PROVE  \E to \in {"queued", "evicting"} :
            Advances(p, {"created"}, to) /\ (to = "queued" => spawn[p].evicted = None)
<1> HIDE DEF SpawnState
<1>1. CASE spawn[p].evicted = None
  BY <1>1, MovesOne DEF Begins, Advances, Stages
<1>2. CASE spawn[p].evicted # None
  <2>1. "evicting" \in Stages
    BY DEF Stages
  <2>2. spawn' = [Asked(spawn, spawn[p].evicted) EXCEPT ![p].stage = "evicting"]
    BY <1>2 DEF Begins
  <2>3. Effect(p, "evicting")
    BY <2>1, <2>2, AsksAndMoves
  <2> QED BY <1>2, <2>1, <2>3 DEF Begins, Advances
<1> QED BY <1>1, <1>2

LEMMA EvictedEffect ==
  ASSUME PoolTypes, NEW p \in Spawns, Evicted(p)
  PROVE  Advances(p, {"evicting"}, "queued")
  BY MovesOne DEF Evicted, MayEvict, Advances, Stages

LEMMA EvictFailsEffect ==
  ASSUME PoolTypes, NEW p \in Spawns, EvictFails(p)
  PROVE  Advances(p, {"evicting"}, "failed")
  BY MovesOne DEF EvictFails, Leaving, Advances, Stages

LEMMA AdmittedEffect ==
  ASSUME PoolTypes, NEW p \in Spawns, Admitted(p)
  PROVE  Advances(p, {"queued"}, "admitted")
  BY MovesOne DEF Admitted, MayWork, Advances, Stages, Working

LEMMA HoldsStoreEffect ==
  ASSUME PoolTypes, NEW p \in Spawns, HoldsStore(p)
  PROVE  Advances(p, {"admitted"}, "preparing")
  BY MovesOne DEF HoldsStore, MayHold, Advances, Stages, Working

LEMMA PreparesEffect ==
  ASSUME PoolTypes, NEW p \in Spawns, Prepares(p)
  PROVE  \/ Advances(p, {"preparing"}, "launching") /\ UNCHANGED <<tasks, reserved>>
         \/ Advances(p, {"preparing"}, "failed") /\ Leaving(p, "failed")
<1>1. CASE spawn' = [spawn EXCEPT ![p].stage = "launching"] /\ UNCHANGED <<tasks, reserved>>
  BY <1>1, MovesOne DEF Prepares, MayPrepare, Advances, Stages, Working
<1>2. CASE Leaving(p, "failed")
  BY <1>2, MovesOne DEF Prepares, MayPrepare, Leaving, Advances, Stages
<1> QED BY <1>1, <1>2 DEF Prepares, MayPrepare

LEMMA InstallsEffect ==
  ASSUME PoolTypes, NEW p \in Spawns, Installs(p)
  PROVE  Advances(p, {"starting"}, "done")
  BY MovesOne DEF Installs, Leaving, Advances, Stages

LEMMA GivesEffect ==
  ASSUME PoolTypes, NEW p \in Spawns, Gives(p)
  PROVE  Advances(p, {"starting"}, "undoing")
<1> HIDE DEF SpawnState
<1>1. "undoing" \in Stages
  BY DEF Stages, Working
<1>2. Effect(p, "undoing")
  BY <1>1, AsksAndMoves DEF Gives
<1> QED BY <1>1, <1>2 DEF Gives, Advances

LEMMA UndoneEffect ==
  ASSUME PoolTypes, NEW p \in Spawns, Undone(p)
  PROVE  Advances(p, {"undoing"}, "failed")
  BY MovesOne DEF Undone, MayUndo, Leaving, Advances, Stages

LEMMA UndoFailsEffect ==
  ASSUME PoolTypes, NEW p \in Spawns, UndoFails(p)
  PROVE  Advances(p, {"undoing"}, "failed")
  BY MovesOne DEF UndoFails, Leaving, Advances, Stages

\* The one step that makes a process run.
LEMMA LaunchesEffect ==
  ASSUME PoolTypes, NEW p \in Spawns, Launches(p)
  PROVE  /\ spawn[p].stage = "launching"
         /\ \/ /\ UNCHANGED <<tasks, reserved>>
               /\ Fixed /\ Restaged(p, "starting")
               /\ spawn'[p].process = "up"
               /\ \A q \in Spawns : q # p => spawn'[q].process = spawn[q].process
            \/ Advances(p, {"launching"}, "failed") /\ Leaving(p, "failed")
<1>1. CASE /\ spawn' = [spawn EXCEPT ![p].process = "up", ![p].stage = "starting"]
           /\ UNCHANGED <<tasks, reserved>>
  <2>1. spawn' \in [Spawns -> SpawnState]
    <3> DEFINE up == [spawn EXCEPT ![p].process = "up"]
    <3>1. up \in [Spawns -> SpawnState] /\ "starting" \in Stages
      BY DEF PoolTypes, SpawnState, Processes, Stages, Working
    <3>2. spawn' = [up EXCEPT ![p].stage = "starting"]
      BY <1>1
    <3> HIDE DEF up, SpawnState
    <3> QED BY <3>1, <3>2, StageType
  <2>2. \A q \in Spawns : q # p => spawn'[q] = spawn[q]
    BY <1>1 DEF PoolTypes
  <2>3. spawn[p] \in SpawnState
    BY DEF PoolTypes
  <2>4. /\ spawn'[p].key = spawn[p].key /\ spawn'[p].port = spawn[p].port
        /\ spawn'[p].evicted = spawn[p].evicted /\ spawn'[p].stage = "starting"
        /\ spawn'[p].process = "up"
    BY <1>1, <2>3 DEF PoolTypes, SpawnState
  <2> QED BY <1>1, <2>1, <2>2, <2>4 DEF Launches, Fixed, Restaged
<1>2. CASE Leaving(p, "failed")
  BY <1>2, MovesOne DEF Launches, Leaving, Advances, Stages
<1> QED BY <1>1, <1>2 DEF Launches

LEMMA ReusesEffect ==
  ASSUME PoolTypes, NEW r \in Requests, GetReuses(r)
  PROVE  Effect(None, "done")
<1> DEFINE w == workers[request[r].key]
<1>1. spawn' = [spawn EXCEPT ![w].active = @ + 1]
  BY DEF GetReuses
<1> HIDE DEF w
<1>3. spawn' \in [Spawns -> SpawnState]
  <2>1. spawn \in [Spawns -> SpawnState] /\ 1 \in Int
    BY DEF PoolTypes
  <2> HIDE DEF SpawnState
  <2>2. [spawn EXCEPT ![w].active = @ + 1] \in [Spawns -> SpawnState]
    BY <2>1, ActiveType
  <2> QED BY <1>1, <2>2
<1>4. \A q \in Spawns : spawn'[q] = spawn[q] \/ spawn'[q] = [spawn[q] EXCEPT !.active = @ + 1]
  BY <1>1 DEF PoolTypes
<1>5. \A q \in Spawns : spawn[q] \in SpawnState
  BY DEF PoolTypes
<1>6. \A q \in Spawns : /\ spawn'[q].key = spawn[q].key /\ spawn'[q].port = spawn[q].port
                        /\ spawn'[q].evicted = spawn[q].evicted /\ spawn'[q].stage = spawn[q].stage
                        /\ spawn'[q].process = spawn[q].process
  BY <1>4, <1>5 DEF SpawnState
<1> QED BY <1>3, <1>6 DEF None, Spawns, Effect, Fixed, Restaged, Quieter

LEMMA RepliesEffect ==
  ASSUME PoolTypes, NEW r \in Requests, Replies(r)
  PROVE  Effect(None, "done")
<1> DEFINE w == request[r].worker
<1> DEFINE Left(over) == [spawn EXCEPT ![w].active = @ - 1, ![w].ending = over]
<1>0. PICK over \in BOOLEAN : spawn' = Left(over) \/ spawn' = Asked(Left(over), w)
  BY DEF Replies, PoolTypes, SpawnState
<1> DEFINE left == Left(over)
<1>1. /\ left = [spawn EXCEPT ![w].active = @ - 1, ![w].ending = over]
      /\ spawn' = left \/ spawn' = Asked(left, w)
  BY <1>0
<1> HIDE DEF left, Left
<1> HIDE DEF w
<1>2. left \in [Spawns -> SpawnState]
  <2> DEFINE less == [spawn EXCEPT ![w].active = @ - 1]
  <2>1. \A q \in Spawns : spawn[q].active - 1 = spawn[q].active + (-1)
    BY DEF PoolTypes, SpawnState
  <2>2. less \in [Spawns -> SpawnState]
    <3>1. less = [spawn EXCEPT ![w].active = @ + (-1)]
      BY <2>1 DEF PoolTypes
    <3>2. spawn \in [Spawns -> SpawnState] /\ -1 \in Int
      BY DEF PoolTypes
    <3> HIDE DEF SpawnState, less
    <3> QED BY <3>1, <3>2, ActiveType
  <2>3. left = [less EXCEPT ![w].ending = over]
    BY <1>1
  <2> HIDE DEF less
  <2> QED BY <2>2, <2>3 DEF SpawnState
<1>3. \A q \in Spawns : /\ left[q].key = spawn[q].key /\ left[q].port = spawn[q].port
                        /\ left[q].evicted = spawn[q].evicted /\ left[q].stage = spawn[q].stage
                        /\ left[q].process = spawn[q].process
  BY <1>1 DEF PoolTypes, SpawnState
<1>4. None \notin Spawns
  BY DEF None, Spawns
<1>5. CASE spawn' = left
  BY <1>2, <1>3, <1>4, <1>5 DEF Effect, Fixed, Restaged, Quieter
<1>6. CASE spawn' = Asked(left, w)
  <2>1. spawn' \in [Spawns -> SpawnState]
    BY <1>2, <1>6, AskedType
  <2>2. \A q \in Spawns : /\ spawn'[q].key = left[q].key /\ spawn'[q].port = left[q].port
                          /\ spawn'[q].evicted = left[q].evicted /\ spawn'[q].stage = left[q].stage
                          /\ spawn'[q].process = IF q = w /\ left[q].process = "up"
                                                 THEN "asked" ELSE left[q].process
    BY <1>2, <1>6, AskedType
  <2> QED BY <2>1, <2>2, <1>3, <1>4 DEF Effect, Fixed, Restaged, Quieter, Running
<1> QED BY <1>1, <1>5, <1>6

\* A worker whose process died is popped whatever comes of the request.
LEMMA KeptFacts ==
  ASSUME PoolTypes, NEW k \in Keys
  PROVE  /\ Kept(k) \in [Keys -> Spawns \cup {None}]
         /\ \A i \in Keys : Kept(k)[i] = IF i = k /\ workers[k] # None /\ ~Running(workers[k])
                                         THEN None ELSE workers[i]
         /\ Stale(k) = IF workers[k] # None /\ ~Running(workers[k]) THEN {workers[k]} ELSE {}
         /\ PortsOf(Stale(k)) \subseteq Ports
<1>1. Stale(k) = IF workers[k] # None /\ ~Running(workers[k]) THEN {workers[k]} ELSE {}
  BY DEF Stale
<1>2. \A p \in Stale(k) : p \in Spawns /\ spawn[p].stage # "unused"
  BY <1>1 DEF PoolTypes
<1>3. PortsOf(Stale(k)) \subseteq Ports
  BY <1>2, PortsType
<1>4. Kept(k) \in [Keys -> Spawns \cup {None}]
  BY DEF Kept, PoolTypes
<1>5. \A i \in Keys : Kept(k)[i] = IF i = k /\ workers[k] # None /\ ~Running(workers[k])
                                   THEN None ELSE workers[i]
  BY <1>1 DEF Kept, PoolTypes
<1> QED BY <1>1, <1>3, <1>4, <1>5

\* A new process.
LEMMA CreatedType ==
  ASSUME NEW k \in Keys, NEW n \in Ports, NEW v \in Spawns \cup {None}
  PROVE  /\ Created(k, n, v) \in SpawnState
         /\ Created(k, n, v).key = k /\ Created(k, n, v).port = n
         /\ Created(k, n, v).evicted = v
         /\ Created(k, n, v).stage = "created" /\ Created(k, n, v).process = "none"
<1>1. "created" \in Stages /\ "none" \in Processes
  BY DEF Stages, Processes
<1> QED BY <1>1 DEF Created, SpawnState

\* What a start pops, what it gives the ports it hands out to, and what it leaves when
\* it finds none.
Pops(k, victim) ==
    /\ k \in Keys /\ tasks[k] = None /\ closing = "open"
    /\ workers[k] # None => ~Running(workers[k])
    /\ IF Full(k) THEN victim \in Candidates(k) ELSE victim \in {None, workers[k]}
    /\ ~Full(k) /\ victim = None => workers[k] = None
    /\ victim # None => victim \in Installed
    /\ workers' \in [Keys -> Spawns \cup {None}]
    /\ \A i \in Keys : workers'[i] = IF i = k \/ workers[i] = victim THEN None ELSE workers[i]
    /\ retiring' = retiring \cup PortsOf((Stale(k) \cup {victim}) \ {None})
    /\ UNCHANGED <<workspace, store, cleaner, closing, maxWorkers, deaths, restarts>>
NoPort(r, k, victim) ==
    /\ forgotten' = forgotten \cup ((Stale(k) \cup {victim}) \ {None})
    /\ Turned(r, "refused")
    /\ UNCHANGED <<tasks, reserved, spawn>>
Creates(r, k, victim, p, free) ==
    /\ spawn[p].stage = "unused"
    /\ free \in Ports \ (PortsOf({workers'[i] : i \in Keys} \ {None}) \cup retiring' \cup reserved)
    /\ tasks' = [tasks EXCEPT ![k] = p]
    /\ reserved' = reserved \cup {free}
    /\ spawn' = [spawn EXCEPT ![p] = Created(k, free, victim)]
    /\ request' = [request EXCEPT ![r].stage = "waiting", ![r].worker = p]
    /\ UNCHANGED forgotten

LEMMA StartsFacts ==
  ASSUME PoolTypes, RequestTypes, NEW r \in Requests, GetStarts(r)
  PROVE  \E victim \in Spawns \cup {None} :
            /\ Pops(request[r].key, victim)
            /\ \/ NoPort(r, request[r].key, victim)
               \/ \E p \in Spawns, free \in Ports : Creates(r, request[r].key, victim, p, free)
<1> DEFINE k == request[r].key
           left(v) == [i \in Keys |-> IF Kept(k)[i] = v THEN None ELSE Kept(k)[i]]
           leaving(v) == retiring \cup PortsOf((Stale(k) \cup {v}) \ {None})
           used(v) == PortsOf({left(v)[i] : i \in Keys} \ {None}) \cup leaving(v) \cup reserved
<1>1. k \in Keys /\ Getting(r) /\ tasks[k] = None /\ ~Live(k)
  BY DEF GetStarts, RequestTypes, Getting
<1>2. PICK v \in Victims(k) :
         /\ workers' = left(v)
         /\ retiring' = leaving(v)
         /\ \/ NextPort(used(v)) = None /\ NoPort(r, k, v)
            \/ /\ NextPort(used(v)) # None
               /\ \E p \in Spawns :
                     /\ spawn[p].stage = "unused"
                     /\ tasks' = [tasks EXCEPT ![k] = p]
                     /\ reserved' = reserved \cup {NextPort(used(v))}
                     /\ spawn' = [spawn EXCEPT ![p] = Created(k, NextPort(used(v)), v)]
                     /\ request' = [request EXCEPT ![r].stage = "waiting", ![r].worker = p]
               /\ UNCHANGED forgotten
  BY DEF GetStarts, NoPort
<1>3. UNCHANGED <<workspace, store, cleaner, closing, maxWorkers, deaths, restarts>>
  BY DEF GetStarts
<1>4. /\ \A i \in Keys : Kept(k)[i] = IF i = k THEN None ELSE workers[i]
      /\ Stale(k) = IF workers[k] # None THEN {workers[k]} ELSE {}
  BY <1>1, KeptFacts DEF Live
<1>5. \A i \in Keys : workers[i] \in Spawns \cup {None}
  BY DEF PoolTypes
<1>6. v \in Spawns \cup {None} /\ (v # None => v \in Installed)
  BY <1>1, <1>4, <1>5 DEF Victims, Candidates, Idle, Installed
<1>7. /\ workers' \in [Keys -> Spawns \cup {None}]
      /\ \A i \in Keys : workers'[i] = IF i = k \/ workers[i] = v THEN None ELSE workers[i]
  BY <1>2, <1>4, <1>5
<1>8. Pops(k, v)
  <2>1. IF Full(k) THEN v \in Candidates(k) ELSE v \in {None, workers[k]}
    BY <1>2, <1>4 DEF Victims
  <2>2. ~Full(k) /\ v = None => workers[k] = None
    BY <1>2, <1>4 DEF Victims
  <2> QED BY <1>1, <1>2, <1>3, <1>6, <1>7, <2>1, <2>2 DEF Pops, Live, Getting
<1>9. ASSUME NextPort(used(v)) # None
      PROVE  NextPort(used(v)) \in Ports \ (PortsOf({workers'[i] : i \in Keys} \ {None}) \cup retiring' \cup reserved)
  <2>1. NextPort(used(v)) \in Ports \ used(v)
    BY <1>9, PortIsFree
  <2>2. used(v) = PortsOf({workers'[i] : i \in Keys} \ {None}) \cup retiring' \cup reserved
    <3>1. workers' = left(v) /\ retiring' = leaving(v)
      BY <1>2
    <3> HIDE DEF left, leaving
    <3> QED BY <3>1
  <2> QED BY <2>1, <2>2
<1> HIDE DEF used, left, leaving, k
<1>10. \/ NoPort(r, k, v)
       \/ \E p \in Spawns, free \in Ports : Creates(r, k, v, p, free)
  <2>1. CASE NextPort(used(v)) # None /\ ~NoPort(r, k, v)
    <3>1. PICK p \in Spawns :
                     /\ spawn[p].stage = "unused"
                     /\ tasks' = [tasks EXCEPT ![k] = p]
                     /\ reserved' = reserved \cup {NextPort(used(v))}
                     /\ spawn' = [spawn EXCEPT ![p] = Created(k, NextPort(used(v)), v)]
                     /\ request' = [request EXCEPT ![r].stage = "waiting", ![r].worker = p]
      BY <1>2, <2>1
    <3>2. Creates(r, k, v, p, NextPort(used(v)))
      BY <1>2, <1>9, <2>1, <3>1 DEF Creates
    <3> QED BY <1>9, <2>1, <3>2
  <2> QED BY <1>2, <2>1
<1> QED BY <1>6, <1>8, <1>10 DEF k

\* The next worker the cleaner stops.
LEMMA StopsNextEffect ==
  ASSUME PoolTypes, NEW left \in SUBSET Spawns, StopsNext(left)
  PROVE  /\ Effect(None, "done")
         /\ cleaner' \in CleanerState /\ cleaner'.stage = "stopping"
         /\ cleaner'.left \cup ({cleaner'.now} \ {None}) = left
         /\ cleaner'.now \notin cleaner'.left
         /\ cleaner'.now = None => cleaner'.left = {}
<1>1. CASE left = {}
  <2>1. Effect(None, "done")
    BY <1>1, UnchangedEffect DEF StopsNext
  <2> QED BY <1>1, <2>1 DEF StopsNext, CleanerState, None
<1>2. CASE left # {}
  <2>1. PICK w \in left :
          /\ cleaner' = [stage |-> "stopping", left |-> left \ {w}, now |-> w]
          /\ spawn' = Asked(spawn, w)
    BY <1>2 DEF StopsNext
  <2>2. Effect(None, "done")
    BY <2>1, OnlyAsks
  <2>3. w # None
    BY DEF None, Spawns
  <2> QED BY <2>1, <2>2, <2>3 DEF CleanerState
<1> QED BY <1>1, <1>2

\* The processes of a step that only loses installed workers and moves one spawn task on.
LEMMA PoolStep ==
  ASSUME PoolTypes, NEW p, NEW to \in Stages \ {"unused"}, Fixed, Restaged(p, to),
         p \in Spawns => spawn[p].stage \notin {"unused", "done"},
         workers' \in [Keys -> Spawns \cup {None}],
         \A k \in Keys : workers'[k] \in {workers[k], None},
         tasks' \in [Keys -> Spawns \cup {None}],
         retiring' \subseteq Ports, reserved' \subseteq Ports
  PROVE  PoolTypes'
  BY PoolTypesKept DEF Restaged

\* The shutdown moves every spawn task to its end and starts no process.
LEMMA TakesEffect ==
  ASSUME PoolTypes, Takes
  PROVE  /\ Fixed
         /\ \A p \in Spawns :
              /\ spawn[p].stage = "unused" => spawn'[p].stage = "unused"
              /\ spawn[p].stage = "done" => spawn'[p].stage = "done"
              /\ p \in UnderWay' => p \in UnderWay
              /\ spawn'[p].process \in {"up", "asked"} => Running(p)
              /\ spawn'[p].stage \notin {"launching", "starting"}
              /\ p \in UnderWay' => spawn'[p].stage = "undoing" /\ spawn'[p].process # "up"
<1> DEFINE ends == Spawners({"created", "evicting", "queued", "admitted", "preparing", "launching", "undoing"})
           starting == Spawners({"starting"})
           killed == Spawners({"undoing"}) \cup {spawn[p].evicted : p \in Spawners({"evicting"})}
           to(p) == IF p \in ends THEN "failed" ELSE IF p \in starting THEN "undoing" ELSE spawn[p].stage
           so(p) == IF p \in killed THEN "exited"
                    ELSE IF p \in Installed \cup starting THEN Asked(spawn, p)[p].process
                    ELSE spawn[p].process
<1>1. spawn' = [p \in Spawns |-> [spawn[p] EXCEPT !.stage = to(p), !.process = so(p)]]
  BY DEF Takes
<1>2. \A p \in Spawns : spawn[p] \in SpawnState
  BY DEF PoolTypes
<1>3. ASSUME NEW p \in Spawns
      PROVE  /\ to(p) \in Stages
             /\ spawn[p].stage = "unused" => to(p) = "unused"
             /\ spawn[p].stage = "done" => to(p) = "done"
             /\ to(p) \in {"created", "evicting", "queued"} \cup Working => p \in UnderWay
             /\ to(p) \notin {"launching", "starting"}
             /\ to(p) \in {"created", "evicting", "queued"} \cup Working => to(p) = "undoing" /\ p \in starting
  <2>1. spawn[p].stage \in Stages
    BY <1>2 DEF SpawnState
  <2> QED BY <2>1 DEF Spawners, Stages, Working, UnderWay
<1>4. ASSUME NEW p \in Spawns
      PROVE  so(p) \in Processes /\ (so(p) \in {"up", "asked"} => Running(p)) /\ (p \in starting => so(p) # "up")
  <2>1. spawn[p].process \in Processes /\ spawn \in [Spawns -> SpawnState]
    BY <1>2 DEF SpawnState, PoolTypes
  <2>2. Asked(spawn, p)[p].process = IF spawn[p].process = "up" THEN "asked" ELSE spawn[p].process
    BY <2>1, AskedType
  <2> QED BY <2>1, <2>2 DEF Processes, Running
<1> HIDE DEF to, so, starting
<1>5. ASSUME NEW p \in Spawns
      PROVE  /\ spawn'[p] \in SpawnState
             /\ spawn'[p].key = spawn[p].key /\ spawn'[p].port = spawn[p].port
             /\ spawn'[p].evicted = spawn[p].evicted
             /\ spawn'[p].stage = to(p) /\ spawn'[p].process = so(p)
  <2>1. spawn'[p] = [spawn[p] EXCEPT !.stage = to(p), !.process = so(p)]
    BY <1>1
  <2>2. spawn[p] \in SpawnState /\ to(p) \in Stages /\ so(p) \in Processes
    BY <1>2, <1>3, <1>4
  <2> QED BY <2>1, <2>2 DEF SpawnState
<1>6. spawn' \in [Spawns -> SpawnState]
  <2> HIDE DEF SpawnState
  <2> QED BY <1>1, <1>5
<1> QED BY <1>3, <1>4, <1>5, <1>6 DEF Fixed, UnderWay

LEMMA LeavingType ==
  ASSUME PoolTypes, NEW p, NEW how, Leaving(p, how)
  PROVE  tasks' \in [Keys -> Spawns \cup {None}] /\ reserved' \subseteq Ports
  BY DEF PoolTypes, Leaving

LEMMA CleanerKept ==
  ASSUME CleanerTypes, \A p \in Spawns : spawn[p].stage = "done" => spawn'[p].stage = "done",
         UNCHANGED cleaner
  PROVE  CleanerTypes'
  BY DEF CleanerTypes, CleanerState

LEMMA TypesStep == ASSUME TypeOK, [Next]_vars PROVE TypeOK'
<1> USE DEF TypeOK
<1> HIDE DEF SpawnState, RequestState, CleanerState
<1>p. PoolTypes /\ UNCHANGED pool => PoolTypes'
  BY DEF PoolTypes, pool
<1>r. RequestTypes /\ UNCHANGED request => RequestTypes'
  BY DEF RequestTypes
<1>s. StoreTypes /\ UNCHANGED store => StoreTypes'
  BY DEF StoreTypes
<1>w. WorkspaceTypes /\ UNCHANGED workspace => WorkspaceTypes'
  BY DEF WorkspaceTypes
<1>c. CleanerTypes /\ UNCHANGED <<cleaner, spawn>> => CleanerTypes'
  BY DEF CleanerTypes
<1>x. RestTypes /\ UNCHANGED <<closing, counters>> => RestTypes'
  BY DEF RestTypes, counters
<1>e. ASSUME NEW p, NEW to, Restaged(p, to), p \in Spawns => spawn[p].stage # "done",
             UNCHANGED cleaner
      PROVE  CleanerTypes'
  BY <1>e, CleanerKept DEF Restaged
<1>t. ASSUME NEW r \in Requests, NEW s \in RequestStages \ {"unasked"}, Turned(r, s),
             request[r].stage # "unasked", s \in Served => request[r].worker \in Spawns
      PROVE  RequestTypes'
  BY <1>t DEF RequestTypes, Turned, RequestState
<1>q. ASSUME NEW r \in Requests, NEW s \in RequestStages, NEW p \in Spawns, request[r].key \in Keys,
             request' = [request EXCEPT ![r].stage = s, ![r].worker = p]
      PROVE  RequestTypes'
  <2> DEFINE turned == [request EXCEPT ![r].stage = s]
  <2>1. turned \in [Requests -> RequestState] /\ \A u \in Requests :
             turned[u].key = request[u].key /\ turned[u].worker = request[u].worker
             /\ turned[u].stage = IF u = r THEN s ELSE request[u].stage
    BY DEF RequestTypes, RequestState
  <2>2. request' = [turned EXCEPT ![r].worker = p]
    BY <1>q
  <2> HIDE DEF turned
  <2>3. request' \in [Requests -> RequestState] /\ \A u \in Requests :
             request'[u].key = turned[u].key /\ request'[u].stage = turned[u].stage
             /\ request'[u].worker = IF u = r THEN p ELSE turned[u].worker
    BY <2>1, <2>2 DEF RequestState
  <2> QED BY <1>q, <2>1, <2>3 DEF RequestTypes
<1>k. ASSUME NEW p, Fixed, Restaged(p, "done"), p \notin Spawns,
             UNCHANGED <<workers, tasks, retiring, reserved>>
      PROVE  PoolTypes'
  <2>1. "done" \in Stages \ {"unused"}
    BY DEF Stages
  <2> QED BY <1>k, <2>1, PoolStep DEF PoolTypes
<1>m. ASSUME NEW p \in Spawns, NEW from, NEW to, Advances(p, from, to), from \cap {"unused", "done"} = {},
             to # "unused", UNCHANGED workers,
             tasks' \in [Keys -> Spawns \cup {None}], retiring' \subseteq retiring, reserved' \subseteq Ports
      PROVE  PoolTypes' /\ (UNCHANGED cleaner => CleanerTypes')
  <2>1. spawn[p].stage \notin {"unused", "done"} /\ to \in Stages \ {"unused"} /\ Fixed /\ Restaged(p, to)
    BY <1>m DEF Advances, Effect
  <2>2. PoolTypes'
    BY <1>m, <2>1, PoolStep DEF PoolTypes
  <2> QED BY <2>1, <2>2, <1>e
<1>n. None \notin Spawns /\ tasks \in [Keys -> Spawns \cup {None}] /\ reserved \subseteq Ports
      /\ retiring \subseteq Ports /\ workers \in [Keys -> Spawns \cup {None}]
  BY DEF None, Spawns, PoolTypes
<1>i. ASSUME NEW k PROVE WorkspaceTypes /\ workspace' = MarkedIdle(k) => WorkspaceTypes'
  BY DEF WorkspaceTypes, MarkedIdle
<1>1. ASSUME NEW r \in Requests, Ask(r) PROVE TypeOK'
  <2>1. PICK k \in Keys, t \in Terminals : request' = [request EXCEPT ![r] =
              [Unasked EXCEPT !.stage = "getting", !.key = k, !.terminal = t]]
    BY <1>1 DEF Ask
  <2>2. [Unasked EXCEPT !.stage = "getting", !.key = k, !.terminal = t] \in RequestState
    BY SupervisorAssumption DEF Unasked, RequestState, RequestStages, None
  <2>3. RequestTypes'
    BY <2>1, <2>2 DEF RequestTypes, Unasked, Served
  <2> QED BY <1>1, <1>p, <1>s, <1>w, <1>c, <1>x, <2>3 DEF Ask, pool
<1>2. ASSUME NEW r \in Requests, GetRefused(r) PROVE TypeOK'
  <2>1. request[r].key \in Keys
    BY <1>2 DEF GetRefused, RequestTypes
  <2>2. PoolTypes'
    <3>1. CASE UNCHANGED pool
      BY <3>1, <1>p
    <3>2. CASE /\ workers' = Kept(request[r].key)
               /\ retiring' = retiring \cup PortsOf(Stale(request[r].key))
               /\ UNCHANGED <<tasks, reserved, spawn>>
      BY <3>2, <2>1, KeptFacts DEF PoolTypes
    <3> QED BY <1>2, <3>1, <3>2 DEF GetRefused
  <2>3. RequestTypes'
    BY <1>2, <1>t DEF GetRefused, RequestStages, Served
  <2> QED BY <1>2, <1>s, <1>w, <1>c, <1>x, <2>2, <2>3 DEF GetRefused, pool
<1>3. ASSUME NEW r \in Requests, GetReuses(r) PROVE TypeOK'
  <2>1. Effect(None, "done")
    BY <1>3, ReusesEffect
  <2>2. RequestTypes'
    <3>1. request[r].key \in Keys /\ workers[request[r].key] \in Spawns
      BY <1>3, <1>n DEF GetReuses, Getting, RequestTypes, Live
    <3>2. request' = [request EXCEPT ![r].stage = "calling", ![r].worker = workers[request[r].key]]
      BY <1>3 DEF GetReuses
    <3> QED BY <3>1, <3>2, <1>q, <1>n DEF RequestStages
  <2> QED BY <1>3, <1>e, <1>k, <1>n, <1>s, <1>w, <1>x, <2>1, <2>2 DEF GetReuses, Effect
<1>4. ASSUME NEW r \in Requests, GetJoins(r) PROVE TypeOK'
  <2>1. request[r].key \in Keys
    BY <1>4 DEF GetJoins, Getting, RequestTypes
  <2>2. PoolTypes'
    BY <1>4, <2>1, KeptFacts DEF PoolTypes, GetJoins
  <2>3. RequestTypes'
    <3>1. tasks[request[r].key] \in Spawns
      BY <1>4, <1>n, <2>1 DEF GetJoins
    <3>2. request' = [request EXCEPT ![r].stage = "waiting", ![r].worker = tasks[request[r].key]]
      BY <1>4 DEF GetJoins
    <3> QED BY <2>1, <3>1, <3>2, <1>q, <1>n DEF RequestStages
  <2> QED BY <1>4, <1>s, <1>w, <1>c, <1>x, <2>2, <2>3 DEF GetJoins
<1>5. ASSUME NEW r \in Requests, GetStarts(r) PROVE TypeOK'
  <2> DEFINE k == request[r].key
  <2>1. PICK victim \in Spawns \cup {None} :
            /\ Pops(k, victim)
            /\ \/ NoPort(r, k, victim)
               \/ \E p \in Spawns, free \in Ports : Creates(r, k, victim, p, free)
    BY <1>5, StartsFacts
  <2>2. retiring' \subseteq Ports
    <3> DEFINE S == (Stale(k) \cup {victim}) \ {None}
    <3>1. \A p \in S : p \in Spawns /\ spawn[p].stage # "unused"
      BY <2>1, KeptFacts DEF Pops, PoolTypes, Installed
    <3>2. PortsOf(S) \subseteq Ports
      <4> HIDE DEF S
      <4> QED BY <3>1, PortsType
    <3> QED BY <1>n, <2>1, <3>2 DEF Pops
  <2>3. request[r].stage = "getting"
    BY <1>5 DEF GetStarts, Getting
  <2>4. CASE NoPort(r, k, victim)
    <3>1. PoolTypes'
      BY <2>1, <2>2, <2>4 DEF Pops, NoPort, PoolTypes
    <3>2. RequestTypes'
      BY <2>3, <2>4, <1>t DEF NoPort, RequestStages, Served
    <3>3. RestTypes'
      <4>1. k \in Keys /\ Stale(k) \subseteq Spawns
        BY <2>1, <1>n, KeptFacts DEF Pops
      <4> QED BY <2>1, <2>4, <4>1 DEF NoPort, Pops, RestTypes
    <3> QED BY <2>1, <2>4, <1>s, <1>w, <1>c, <3>1, <3>2, <3>3 DEF Pops, NoPort
  <2>5. CASE \E p \in Spawns, free \in Ports : Creates(r, k, victim, p, free)
    <3>1. PICK p \in Spawns, free \in Ports : Creates(r, k, victim, p, free)
      BY <2>5
    <3> DEFINE fresh == Created(k, free, victim)
    <3>0. k \in Keys
      BY <2>1 DEF Pops
    <3>2. fresh \in SpawnState /\ fresh.stage = "created" /\ fresh.key = k /\ fresh.port = free
      BY <2>1, <3>0, <3>1, CreatedType
    <3>3. spawn' = [spawn EXCEPT ![p] = fresh] /\ spawn[p].stage = "unused"
      BY <3>1 DEF Creates
    <3> HIDE DEF fresh
    <3>4. /\ spawn' \in [Spawns -> SpawnState]
          /\ \A q \in Spawns : q # p => spawn'[q] = spawn[q]
          /\ spawn'[p] = fresh
      BY <3>2, <3>3 DEF PoolTypes
    <3>5. PoolTypes'
      <4>1. \A q \in Spawns : spawn'[q].stage # "unused" => spawn'[q].key \in Keys /\ spawn'[q].port \in Ports
        <5>1. free \in Ports
          BY <3>1
        <5>2. spawn'[p].key \in Keys /\ spawn'[p].port \in Ports
          BY <3>0, <3>2, <3>4, <5>1
        <5>3. ASSUME NEW q \in Spawns, q # p, spawn'[q].stage # "unused"
              PROVE  spawn'[q].key \in Keys /\ spawn'[q].port \in Ports
          BY <3>4, <5>3 DEF PoolTypes
        <5> QED BY <5>2, <5>3
      <4>2. \A i \in Keys : workers'[i] # None => workers'[i] = workers[i] /\ workers[i] \in Spawns
        BY <2>1, <1>n DEF Pops
      <4>3. \A i \in Keys : workers'[i] # None =>
               spawn'[workers'[i]].stage = "done" /\ spawn'[workers'[i]].key = i
        BY <4>2, <3>3, <3>4 DEF PoolTypes
      <4>4. tasks' \in [Keys -> Spawns \cup {None}] /\ reserved' \subseteq Ports
        BY <1>n, <3>1 DEF Creates
      <4> QED BY <2>1, <2>2, <3>4, <4>1, <4>3, <4>4 DEF PoolTypes, Pops
    <3>6. RequestTypes'
      <4>1. request' = [request EXCEPT ![r].stage = "waiting", ![r].worker = p]
        BY <3>1 DEF Creates
      <4> QED BY <3>0, <4>1, <1>q DEF RequestStages
    <3>7. CleanerTypes'
      <4>1. \A q \in Spawns : spawn[q].stage = "done" => spawn'[q].stage = "done"
        BY <3>3, <3>4
      <4> QED BY <2>1, <4>1, CleanerKept DEF Pops
    <3> QED BY <2>1, <3>1, <1>s, <1>w, <1>x, <3>5, <3>6, <3>7 DEF Pops, Creates, counters
  <2> QED BY <2>1, <2>4, <2>5
<1>6. ASSUME NEW r \in Requests, Wakes(r) PROVE TypeOK'
  <2>1. RequestTypes'
    BY <1>6, <1>t DEF Wakes, RequestStages, Served
  <2> QED BY <1>6, <1>p, <1>s, <1>w, <1>c, <1>x, <2>1 DEF Wakes, pool
<1>7. ASSUME NEW r \in Requests, Replies(r) PROVE TypeOK'
  <2>1. Effect(None, "done")
    BY <1>7, RepliesEffect
  <2>2. request[r].stage = "calling" /\ request[r].key \in Keys
    BY <1>7 DEF Replies, RequestTypes
  <2>3. PICK ok \in BOOLEAN, s \in {"retiring", "answered", "touching"} :
           request' = [request EXCEPT ![r].ok = ok, ![r].stage = s]
    BY <1>7 DEF Replies
  <2>4. RequestTypes'
    <3> DEFINE said == [request EXCEPT ![r].ok = ok]
    <3>1. said \in [Requests -> RequestState] /\ \A u \in Requests :
             said[u].key = request[u].key /\ said[u].stage = request[u].stage
             /\ said[u].worker = request[u].worker
      BY DEF RequestTypes, RequestState
    <3>2. request' = [said EXCEPT ![r].stage = s]
      BY <2>3
    <3> HIDE DEF said
    <3>3. request' \in [Requests -> RequestState]
      BY <3>1, <3>2 DEF RequestState, RequestStages
    <3>4. \A u \in Requests : request'[u].key = said[u].key /\ request'[u].worker = said[u].worker
             /\ request'[u].stage = IF u = r THEN s ELSE said[u].stage
      BY <3>1, <3>2 DEF RequestState
    <3> QED BY <2>2, <3>1, <3>3, <3>4 DEF RequestTypes, Served
  <2>5. PoolTypes'
    <3>1. workers' \in [Keys -> Spawns \cup {None}] /\ \A k \in Keys : workers'[k] \in {workers[k], None}
      BY <1>7, <1>n DEF Replies
    <3>2. retiring' \subseteq Ports
      <4>1. CASE retiring' = retiring
        BY <4>1, <1>n
      <4>2. CASE retiring' # retiring
        <5>1. workers[request[r].key] = request[r].worker /\ retiring' = retiring \cup {spawn[request[r].worker].port}
          BY <1>7, <4>2 DEF Replies
        <5>2. request[r].worker \in Spawns /\ request[r].worker # None
          BY <1>n, <2>2 DEF RequestTypes, Served
        <5> QED BY <5>1, <5>2, <2>2 DEF PoolTypes
      <4> QED BY <4>1, <4>2
    <3>3. "done" \in Stages \ {"unused"}
      BY DEF Stages
    <3> QED BY <1>7, <1>n, <2>1, <3>1, <3>2, <3>3, PoolStep DEF Replies, Effect
  <2>6. UNCHANGED <<workspace, store, cleaner, closing, counters>>
    BY <1>7 DEF Replies
  <2>7. CleanerTypes'
    BY <1>e, <1>n, <2>1, <2>6 DEF Effect
  <2> QED BY <1>s, <1>w, <1>x, <2>4, <2>5, <2>6, <2>7
<1>8. ASSUME NEW r \in Requests, Retired(r) PROVE TypeOK'
  <2>1. RequestTypes'
    BY <1>8, <1>t DEF Retired, Outcome, RequestStages, Served
  <2>2. PoolTypes'
    BY <1>8, <1>n DEF Retired, PoolTypes
  <2>3. WorkspaceTypes'
    BY <1>8 DEF Retired, WorkspaceTypes
  <2> QED BY <1>8, <1>s, <1>c, <1>x, <2>1, <2>2, <2>3 DEF Retired
<1>9. ASSUME NEW r \in Requests, Touches(r) PROVE TypeOK'
  <2>1. RequestTypes'
    BY <1>9, <1>t DEF Touches, Outcome, RequestStages, Served
  <2>2. WorkspaceTypes'
    BY <1>9 DEF Touches, WorkspaceTypes
  <2> QED BY <1>9, <1>p, <1>s, <1>c, <1>x, <2>1, <2>2 DEF Touches, pool
<1>8f. ASSUME NEW r \in Requests, RetireFails(r) PROVE TypeOK'
  <2>1. RequestTypes'
    BY <1>8f, <1>t DEF RetireFails, RequestStages, Served
  <2>2. PoolTypes'
    BY <1>8f, <1>n DEF RetireFails, PoolTypes
  <2>3. WorkspaceTypes'
    BY <1>8f DEF RetireFails, WorkspaceTypes
  <2> QED BY <1>8f, <1>s, <1>c, <1>x, <2>1, <2>2, <2>3 DEF RetireFails
<1>9f. ASSUME NEW r \in Requests, TouchFails(r) PROVE TypeOK'
  <2>1. RequestTypes'
    BY <1>9f, <1>t DEF TouchFails, RequestStages, Served
  <2> QED BY <1>9f, <1>p, <1>s, <1>w, <1>c, <1>x, <2>1 DEF TouchFails, pool
<1>10. ASSUME NEW p \in Spawns, Exits(p) \/ Dies(p) PROVE TypeOK'
  <2>1. Effect(None, "done")
    BY <1>10, ProcessEffect
  <2>2. UNCHANGED <<workers, tasks, retiring, reserved, workspace, store, request, cleaner, closing>>
        /\ RestTypes'
    BY <1>10 DEF Exits, Dies, RestTypes, counters
  <2> QED BY <1>e, <1>k, <1>n, <1>r, <1>s, <1>w, <2>1, <2>2 DEF Effect
<1>11. ASSUME NEW p \in Spawns, Begins(p) PROVE TypeOK'
  <2>1. PICK to \in {"queued", "evicting"} : Advances(p, {"created"}, to)
    BY <1>11, BeginsEffect
  <2>2. UNCHANGED <<workers, tasks, retiring, reserved, workspace, store, request, cleaner, closing, counters>>
    BY <1>11 DEF Begins
  <2> QED BY <1>m, <1>n, <1>r, <1>s, <1>w, <1>x, <2>1, <2>2
<1>12. ASSUME NEW p \in Spawns, Evicted(p) PROVE TypeOK'
  <2>1. Advances(p, {"evicting"}, "queued")
    BY <1>12, EvictedEffect
  <2>2. /\ UNCHANGED <<workers, tasks, reserved, store, request, cleaner, closing, counters>>
        /\ retiring' \subseteq retiring /\ WorkspaceTypes'
    BY <1>12, <1>i DEF Evicted, MayEvict
  <2> QED BY <1>m, <1>n, <1>r, <1>s, <1>x, <2>1, <2>2
<1>12f. ASSUME NEW p \in Spawns, EvictFails(p) PROVE TypeOK'
  <2>1. Advances(p, {"evicting"}, "failed")
    BY <1>12f, EvictFailsEffect
  <2>2. /\ UNCHANGED <<workers, workspace, store, request, cleaner, closing, counters>>
        /\ retiring' \subseteq retiring /\ Leaving(p, "failed")
    BY <1>12f DEF EvictFails
  <2>3. tasks' \in [Keys -> Spawns \cup {None}] /\ reserved' \subseteq Ports
    BY <2>2, LeavingType
  <2> QED BY <1>m, <1>r, <1>s, <1>w, <1>x, <2>1, <2>2, <2>3
<1>13. ASSUME NEW p \in Spawns, Admitted(p) PROVE TypeOK'
  <2>1. Advances(p, {"queued"}, "admitted")
    BY <1>13, AdmittedEffect
  <2>2. UNCHANGED <<workers, tasks, retiring, reserved, workspace, store, request, cleaner, closing, counters>>
    BY <1>13 DEF Admitted, MayWork
  <2> QED BY <1>m, <1>n, <1>r, <1>s, <1>w, <1>x, <2>1, <2>2
<1>14. ASSUME NEW p \in Spawns, HoldsStore(p) PROVE TypeOK'
  <2>1. Advances(p, {"admitted"}, "preparing")
    BY <1>14, HoldsStoreEffect
  <2>2. UNCHANGED <<workers, tasks, retiring, reserved, workspace, request, cleaner, closing, counters>>
    BY <1>14 DEF HoldsStore, MayHold
  <2>3. StoreTypes'
    <3>1. spawn[p].key \in Keys
      BY <2>1 DEF Advances, PoolTypes
    <3> QED BY <1>14, <3>1 DEF HoldsStore, MayHold, StoreTypes, Holders, Protected
  <2> QED BY <1>m, <1>n, <1>r, <1>w, <1>x, <2>1, <2>2, <2>3
<1>15. ASSUME NEW p \in Spawns, Prepares(p) PROVE TypeOK'
  <2>1. \/ Advances(p, {"preparing"}, "launching") /\ UNCHANGED <<tasks, reserved>>
        \/ Advances(p, {"preparing"}, "failed") /\ Leaving(p, "failed")
    BY <1>15, PreparesEffect
  <2>2. UNCHANGED <<workers, retiring, request, cleaner, closing, counters>> /\ StoreTypes'
    BY <1>15 DEF Prepares, MayPrepare, StoreTypes, Holders, Free
  <2>3. WorkspaceTypes'
    <3>1. ASSUME NEW gone PROVE Without(gone) \in [Keys -> {"absent", "active", "idle", "terminal"}]
      BY DEF WorkspaceTypes, Without
    <3>2. PICK gone \in SUBSET Keys : workspace' = Without(gone)
             \/ workspace' = [Without(gone) EXCEPT ![spawn[p].key] = "active"]
      BY <1>15 DEF Prepares, MayPrepare
    <3> QED BY <3>1, <3>2 DEF WorkspaceTypes
  <2>4. tasks' \in [Keys -> Spawns \cup {None}] /\ reserved' \subseteq Ports
    BY <2>1, <1>n, LeavingType
  <2> QED BY <1>m, <1>r, <1>x, <2>1, <2>2, <2>3, <2>4
<1>16. ASSUME NEW p \in Spawns, Launches(p) PROVE TypeOK'
  <2>1. spawn[p].stage = "launching"
    BY <1>16 DEF Launches
  <2>2. /\ UNCHANGED <<workers, retiring, workspace, store, request, cleaner, closing, counters>>
        /\ tasks' \in [Keys -> Spawns \cup {None}] /\ reserved' \subseteq Ports
    BY <1>16, <1>n, LeavingType DEF Launches
  <2>3. PICK to \in {"starting", "failed"} : Fixed /\ Restaged(p, to)
    BY <1>16, LaunchesEffect DEF Advances, Effect
  <2>4. to \in Stages \ {"unused"}
    BY <2>3 DEF Stages, Working
  <2>5. PoolTypes'
    BY <1>n, <2>1, <2>2, <2>3, <2>4, PoolStep
  <2> QED BY <1>e, <1>r, <1>s, <1>w, <1>x, <2>1, <2>2, <2>3, <2>5
<1>17. ASSUME NEW p \in Spawns, Installs(p) PROVE TypeOK'
  <2>1. spawn[p].stage = "starting" /\ Fixed /\ Restaged(p, "done") /\ spawn[p].key \in Keys
    BY <1>17, InstallsEffect DEF Advances, Effect, PoolTypes
  <2>2. UNCHANGED <<retiring, workspace, store, request, cleaner, closing, counters>>
        /\ workers' = [workers EXCEPT ![spawn[p].key] = p] /\ Leaving(p, "done")
    BY <1>17 DEF Installs
  <2>3. tasks' \in [Keys -> Spawns \cup {None}] /\ reserved' \subseteq Ports
    BY <2>2, LeavingType
  <2>4. \A q \in Spawns : spawn'[q].key = spawn[q].key /\ spawn'[q].port = spawn[q].port
                         /\ (spawn[q].stage = "unused" => spawn'[q].stage = "unused")
                         /\ (spawn[q].stage = "done" => spawn'[q].stage = "done")
    BY <2>1 DEF Fixed, Restaged
  <2>5. workers' \in [Keys -> Spawns \cup {None}]
    BY <1>n, <2>1, <2>2
  <2>6. \A k \in Keys : workers'[k] = IF k = spawn[p].key THEN p ELSE workers[k]
    BY <1>n, <2>1, <2>2
  <2>7. spawn'[p].stage = "done"
    BY <2>1 DEF Restaged
  <2>8. PoolTypes'
    <3>1. \A k \in Keys : workers'[k] # None =>
            spawn'[workers'[k]].stage = "done" /\ spawn'[workers'[k]].key = k
      BY <1>n, <2>4, <2>6, <2>7 DEF PoolTypes
    <3>2. \A q \in Spawns : spawn'[q].stage # "unused" => spawn'[q].key \in Keys /\ spawn'[q].port \in Ports
      BY <2>4 DEF PoolTypes
    <3> QED BY <2>1, <2>2, <2>3, <2>5, <3>1, <3>2 DEF PoolTypes, Fixed
  <2> QED BY <1>e, <1>r, <1>s, <1>w, <1>x, <2>1, <2>2, <2>8
<1>18. ASSUME NEW p \in Spawns, Gives(p) PROVE TypeOK'
  <2>1. Advances(p, {"starting"}, "undoing")
    BY <1>18, GivesEffect
  <2>2. UNCHANGED <<workers, tasks, retiring, reserved, workspace, store, request, cleaner, closing, counters>>
    BY <1>18 DEF Gives
  <2> QED BY <1>m, <1>n, <1>r, <1>s, <1>w, <1>x, <2>1, <2>2
<1>19. ASSUME NEW p \in Spawns, Undone(p) PROVE TypeOK'
  <2>1. Advances(p, {"undoing"}, "failed")
    BY <1>19, UndoneEffect
  <2>2. /\ UNCHANGED <<workers, retiring, store, request, cleaner, closing, counters>>
        /\ WorkspaceTypes' /\ Leaving(p, "failed")
    BY <1>19, <1>i DEF Undone, MayUndo
  <2>3. tasks' \in [Keys -> Spawns \cup {None}] /\ reserved' \subseteq Ports
    BY <2>2, LeavingType
  <2> QED BY <1>m, <1>r, <1>s, <1>x, <2>1, <2>2, <2>3
<1>19f. ASSUME NEW p \in Spawns, UndoFails(p) PROVE TypeOK'
  <2>1. Advances(p, {"undoing"}, "failed")
    BY <1>19f, UndoFailsEffect
  <2>2. /\ UNCHANGED <<workers, retiring, workspace, store, request, cleaner, closing, counters>>
        /\ Leaving(p, "failed")
    BY <1>19f DEF UndoFails
  <2>3. tasks' \in [Keys -> Spawns \cup {None}] /\ reserved' \subseteq Ports
    BY <2>2, LeavingType
  <2> QED BY <1>m, <1>r, <1>s, <1>w, <1>x, <2>1, <2>2, <2>3
<1>20. ASSUME Sweeps PROVE TypeOK'
  <2>1. PICK expired \in SUBSET Idle :
          /\ workers' = [k \in Keys |-> IF workers[k] \in expired THEN None ELSE workers[k]]
          /\ retiring' = retiring \cup PortsOf(expired)
          /\ StopsNext(expired)
    BY <1>20 DEF Sweeps
  <2>2. \A p \in expired : p \in Spawns /\ spawn[p].stage = "done"
    BY <2>1 DEF Idle, Installed, PoolTypes
  <2>3. PortsOf(expired) \subseteq Ports
    BY <2>2, PortsType
  <2>4. /\ Effect(None, "done") /\ cleaner' \in CleanerState
        /\ cleaner'.left \cup ({cleaner'.now} \ {None}) = expired
    BY <2>1, <2>2, StopsNextEffect
  <2>5. UNCHANGED <<tasks, reserved, workspace, store, request, closing, counters>>
    BY <1>20 DEF Sweeps
  <2>6. PoolTypes'
    <3>1. "done" \in Stages \ {"unused"}
      BY DEF Stages
    <3>2. /\ workers' \in [Keys -> Spawns \cup {None}]
          /\ \A k \in Keys : workers'[k] \in {workers[k], None}
      BY <1>n, <2>1
    <3> QED BY <1>n, <2>1, <2>3, <2>4, <2>5, <3>1, <3>2, PoolStep DEF Effect
  <2>7. CleanerTypes'
    BY <1>n, <2>2, <2>4 DEF CleanerTypes, Effect, Restaged
  <2> QED BY <1>r, <1>s, <1>w, <1>x, <2>5, <2>6, <2>7
<1>21. ASSUME SweepStopped PROVE TypeOK'
  <2>1. /\ StopsNext(cleaner.left) /\ cleaner.left \subseteq Spawns
        /\ \A p \in cleaner.left : spawn[p].stage = "done"
    BY <1>21 DEF SweepStopped, CleanerTypes, CleanerState
  <2>2. /\ Effect(None, "done") /\ cleaner' \in CleanerState
        /\ cleaner'.left \cup ({cleaner'.now} \ {None}) = cleaner.left
    BY <2>1, StopsNextEffect
  <2>3. /\ UNCHANGED <<workers, tasks, reserved, store, request, closing, counters>>
        /\ retiring' \subseteq retiring /\ WorkspaceTypes'
    BY <1>21, <1>i DEF SweepStopped
  <2>4. PoolTypes'
    <3>1. "done" \in Stages \ {"unused"}
      BY DEF Stages
    <3> QED BY <1>n, <2>2, <2>3, <3>1, PoolStep DEF Effect
  <2>5. CleanerTypes'
    BY <1>n, <2>1, <2>2 DEF CleanerTypes, Effect, Restaged
  <2> QED BY <1>r, <1>s, <1>x, <2>3, <2>4, <2>5
<1>21f. ASSUME SweepFails PROVE TypeOK'
  <2>1. /\ UNCHANGED <<workers, tasks, reserved, spawn, workspace, store, request, closing>>
        /\ UNCHANGED <<maxWorkers, deaths, restarts>>
        /\ retiring' \subseteq retiring /\ cleaner' = Resting
        /\ forgotten' = forgotten \cup cleaner.left
    BY <1>21f DEF SweepFails
  <2>2. PoolTypes'
    BY <2>1 DEF PoolTypes
  <2>3. CleanerTypes'
    <3>1. Resting \in CleanerState /\ Resting.left \cup ({Resting.now} \ {None}) = {}
      BY DEF Resting, CleanerState, None
    <3> QED BY <2>1, <3>1 DEF CleanerTypes
  <2>4. RestTypes'
    <3>1. cleaner.left \subseteq Spawns
      BY DEF CleanerTypes, CleanerState
    <3> QED BY <2>1, <3>1 DEF RestTypes
  <2> QED BY <1>r, <1>s, <1>w, <2>1, <2>2, <2>3, <2>4
<1>22. ASSUME SweepHoldsStore PROVE TypeOK'
  <2>1. StoreTypes'
    BY <1>22 DEF SweepHoldsStore, StoreTypes, Holders, Protected
  <2>2. CleanerTypes'
    BY <1>22 DEF SweepHoldsStore, CleanerTypes, CleanerState, pool
  <2> QED BY <1>22, <1>p, <1>r, <1>w, <1>x, <2>1, <2>2 DEF SweepHoldsStore, pool
<1>23. ASSUME Prunes PROVE TypeOK'
  <2>1. StoreTypes' /\ WorkspaceTypes'
    BY <1>23 DEF Prunes, MayPrune, StoreTypes, Holders, Free, WorkspaceTypes, Without
  <2>2. CleanerTypes'
    BY <1>23 DEF Prunes, MayPrune, CleanerTypes, CleanerState, pool, Resting, None
  <2> QED BY <1>23, <1>p, <1>r, <1>x, <2>1, <2>2 DEF Prunes, MayPrune, pool
<1>24. ASSUME Closes PROVE TypeOK'
  <2>1. spawn' \in [Spawns -> SpawnState]
    BY <1>24 DEF Closes, PoolTypes, SpawnState, Processes
  <2>2. \A q \in Spawns : /\ spawn'[q].key = spawn[q].key /\ spawn'[q].port = spawn[q].port
                          /\ spawn'[q].evicted = spawn[q].evicted /\ spawn'[q].stage = spawn[q].stage
    BY <1>24 DEF Closes, PoolTypes, SpawnState
  <2>3. UNCHANGED <<workers, tasks, reserved, workspace, request, counters>> /\ retiring' \subseteq retiring
        /\ cleaner' = Resting /\ closing' = "closing" /\ store' \in {Free, store}
    BY <1>24 DEF Closes
  <2>4. PoolTypes'
    <3>1. \A q \in Spawns : spawn'[q].stage # "unused" => spawn'[q].key \in Keys /\ spawn'[q].port \in Ports
      BY <2>2 DEF PoolTypes
    <3>2. \A k \in Keys : workers'[k] # None =>
            spawn'[workers'[k]].stage = "done" /\ spawn'[workers'[k]].key = k
      BY <1>n, <2>2, <2>3 DEF PoolTypes
    <3> QED BY <2>1, <2>3, <3>1, <3>2 DEF PoolTypes
  <2>5. CleanerTypes'
    <3>1. Resting \in CleanerState /\ Resting.left \cup ({Resting.now} \ {None}) = {}
      BY DEF Resting, CleanerState, None
    <3> QED BY <2>3, <3>1 DEF CleanerTypes
  <2>6. StoreTypes'
    BY <2>3 DEF StoreTypes, Holders, Free
  <2>7. RestTypes'
    BY <2>3 DEF RestTypes, counters
  <2> QED BY <1>r, <1>w, <2>3, <2>4, <2>5, <2>6, <2>7
<1>25. ASSUME Takes PROVE TypeOK'
  <2>1. /\ Fixed
        /\ \A p \in Spawns : /\ spawn[p].stage = "unused" => spawn'[p].stage = "unused"
                             /\ spawn[p].stage = "done" => spawn'[p].stage = "done"
    BY <1>25, TakesEffect
  <2>2. /\ workers' = [k \in Keys |-> None] /\ tasks' \in [Keys -> Spawns \cup {None}]
        /\ reserved' \subseteq reserved /\ retiring' \subseteq retiring
        /\ closing' = "stopping" /\ store' \in {Free, store}
        /\ UNCHANGED <<workspace, request, cleaner, counters>>
    BY <1>25, <1>n DEF Takes
  <2>3. PoolTypes'
    BY <1>n, <2>1, <2>2, PoolTypesKept
  <2>4. CleanerTypes'
    BY <2>1, <2>2, CleanerKept
  <2>5. StoreTypes'
    BY <2>2 DEF StoreTypes, Holders, Free
  <2>6. RestTypes'
    BY <2>2 DEF RestTypes, counters
  <2> QED BY <1>r, <1>w, <2>2, <2>3, <2>4, <2>5, <2>6
<1>26. ASSUME Closed PROVE TypeOK'
  <2>1. WorkspaceTypes'
    <3>1. \A k \in Keys : MarkedIdle(k)[k] \in {"absent", "active", "idle", "terminal"}
      BY DEF WorkspaceTypes, MarkedIdle
    <3>2. workspace' = [k \in Keys |->
              IF \E p \in Spawns : spawn[p].key = k /\ Running(p) THEN workspace[k] ELSE MarkedIdle(k)[k]]
      BY <1>26 DEF Closed
    <3> QED BY <3>1, <3>2 DEF WorkspaceTypes
  <2>2. UNCHANGED <<pool, store, request, cleaner, counters>> /\ closing' = "closed"
    BY <1>26 DEF Closed
  <2>3. RestTypes'
    BY <2>2 DEF RestTypes, counters
  <2> QED BY <1>p, <1>r, <1>s, <1>c, <2>1, <2>2, <2>3 DEF pool
<1>27. ASSUME Restarts PROVE TypeOK'
  <2>1. Unused \in SpawnState /\ Unused.stage = "unused"
    BY DEF Unused, SpawnState, Stages, Processes, None
  <2>2. /\ workers' = [k \in Keys |-> None] /\ tasks' = [k \in Keys |-> None]
        /\ spawn' = [p \in Spawns |-> Unused] /\ retiring' = {} /\ reserved' = {}
        /\ store' = Free /\ cleaner' = Resting /\ closing' = "open" /\ forgotten' = {}
        /\ restarts' = restarts + 1 /\ UNCHANGED <<maxWorkers, deaths>>
    BY <1>27 DEF Restarts
  <2>3. PoolTypes'
    BY <2>1, <2>2 DEF PoolTypes
  <2>4. RequestTypes'
    <3>1. request' = [r \in Requests |->
          IF request[r].stage \in {"unasked", "answered", "refused"} THEN request[r]
          ELSE [request[r] EXCEPT !.stage = "refused", !.worker = None]]
      BY <1>27 DEF Restarts
    <3>2. ASSUME NEW r \in Requests
          PROVE  /\ request'[r] \in RequestState /\ request'[r].key = request[r].key
                 /\ request'[r].stage \notin Served
                 /\ request[r].stage = "unasked" => request'[r].stage = "unasked"
      <4>1. request[r] \in RequestState
        BY DEF RequestTypes
      <4>2. request'[r] = IF request[r].stage \in {"unasked", "answered", "refused"} THEN request[r]
                          ELSE [request[r] EXCEPT !.stage = "refused", !.worker = None]
        BY <3>1
      <4> QED BY <4>1, <4>2, ZenonT(30) DEF RequestState, RequestStages, Served
    <3> QED BY <3>1, <3>2 DEF RequestTypes
  <2>5. WorkspaceTypes'
    <3>1. ASSUME NEW gone PROVE Without(gone) \in [Keys -> {"absent", "active", "idle", "terminal"}]
      BY DEF WorkspaceTypes, Without
    <3>2. PICK gone \in SUBSET Keys : workspace' =
            [k \in Keys |-> IF Without(gone)[k] = "active" THEN "idle" ELSE Without(gone)[k]]
      BY <1>27 DEF Restarts
    <3> QED BY <3>1, <3>2 DEF WorkspaceTypes
  <2>6. StoreTypes'
    BY <2>2 DEF StoreTypes, Holders, Free
  <2>7. CleanerTypes'
    <3>1. Resting \in CleanerState /\ Resting.left \cup ({Resting.now} \ {None}) = {}
      BY DEF Resting, CleanerState, None
    <3> QED BY <2>2, <3>1 DEF CleanerTypes
  <2>8. RestTypes'
    <3>1. closing' = "open" /\ forgotten' = {} /\ restarts' = restarts + 1 /\ maxWorkers' = maxWorkers
          /\ deaths' = deaths
      BY <2>2
    <3>2. restarts + 1 \in Nat
      BY DEF RestTypes
    <3> QED BY <3>1, <3>2 DEF RestTypes
  <2> QED BY <2>3, <2>4, <2>5, <2>6, <2>7, <2>8
<1>28. ASSUME UNCHANGED vars PROVE TypeOK'
  BY <1>28, <1>p, <1>r, <1>s, <1>w, <1>c, <1>x DEF vars, pool, counters
<1> QED BY <1>1, <1>2, <1>3, <1>4, <1>5, <1>6, <1>7, <1>8, <1>9, <1>10, <1>11, <1>12, <1>13, <1>14,
           <1>15, <1>16, <1>17, <1>18, <1>19, <1>20, <1>21, <1>22, <1>23, <1>24, <1>25, <1>26, <1>27,
           <1>28, <1>8f, <1>9f, <1>12f, <1>19f, <1>21f DEF Next, RequestSteps, SpawnSteps, CleanerSteps

\* The supervisor's dictionaries hold processes that were started for their conversation.
THEOREM TypeCorrect == Spec => []TypeOK
  BY TypesInit, TypesStep, PTL DEF Spec

-----------------------------------------------------------------------------
(* The pool.                                                               *)

\* Who is about to stop a process: the spawn task that replaces it, the request that
\* ended its conversation, the cleaner.
EvictedBy(q, p) == spawn[q].evicted = p /\ spawn[q].stage \in {"created", "evicting"}
EndedBy(r, p) == request[r].stage = "retiring" /\ request[r].worker = p
Swept(p) == p \in cleaner.left \cup {cleaner.now}
ToStop(p) ==
    \/ \E q \in Spawns : EvictedBy(q, p)
    \/ \E r \in Requests : EndedBy(r, p)
    \/ Swept(p)
\* Who has a port: what runs, is installed, is being started or is about to be stopped.
Claims(p) == Running(p) \/ p \in Installed \/ p \in UnderWay \/ ToStop(p)

\* A conversation has one spawn task, and none while a worker is installed.
Tasked ==
    /\ \A p \in UnderWay : tasks[spawn[p].key] = p
    /\ \A k \in Keys : tasks[k] # None =>
          tasks[k] \in UnderWay /\ spawn[tasks[k]].key = k /\ workers[k] = None
Early == {"unused", "created", "evicting", "queued", "admitted", "preparing", "launching"}
Unlaunched == \A p \in Spawns : spawn[p].stage \in Early => spawn[p].process = "none"
Orderly ==
    /\ cleaner.now \notin cleaner.left
    /\ cleaner.now = None => cleaner.left = {}
    /\ cleaner.stage # "stopping" => cleaner.now = None
\* A process is popped once, by the one that stops it.
StopsOnce ==
    /\ \A p \in Spawns, q \in Spawns, u \in Spawns : EvictedBy(q, p) /\ EvictedBy(u, p) => q = u
    /\ \A p \in Spawns, r \in Requests, u \in Requests : EndedBy(r, p) /\ EndedBy(u, p) => r = u
    /\ \A p \in Spawns, q \in Spawns, r \in Requests : ~(EvictedBy(q, p) /\ EndedBy(r, p))
    /\ \A p \in Spawns, q \in Spawns : ~(EvictedBy(q, p) /\ Swept(p))
    /\ \A p \in Spawns, r \in Requests : ~(EndedBy(r, p) /\ Swept(p))
    /\ \A p \in Spawns : ToStop(p) => spawn[p].stage = "done" /\ p \notin Installed
    /\ \A q \in Spawns : spawn[q].stage = "evicting" => spawn[q].evicted # None
\* A port is reserved for a spawn task, and retiring until its process has been stopped.
Ported ==
    /\ \A p \in UnderWay : spawn[p].port \in reserved
    /\ \A p \in Spawns : Claims(p) /\ p \notin Installed /\ p \notin UnderWay =>
          spawn[p].port \in retiring
Distinct == \A p \in Spawns, q \in Spawns :
    Claims(p) /\ Claims(q) /\ p # q => spawn[p].port # spawn[q].port
Pool == Tasked /\ Unlaunched /\ Orderly /\ StopsOnce /\ Ported /\ Distinct

LEMMA DistinctKept ==
  ASSUME Distinct, Fixed, \A p \in Spawns : Claims(p)' => Claims(p)
  PROVE  Distinct'
  BY DEF Distinct, Fixed

\* Dead workers are popped and processes end; nobody else changes hands.
LEMMA QuietStep ==
  ASSUME PoolTypes, Pool, Effect(None, "done"), UNCHANGED <<tasks, reserved>>,
         cleaner'.left = cleaner.left, cleaner'.now = cleaner.now,
         cleaner'.stage # "stopping" => cleaner.now = None,
         retiring \subseteq retiring',
         \A r \in Requests, p \in Spawns : EndedBy(r, p)' <=> EndedBy(r, p),
         \A k \in Keys : workers'[k] \in {workers[k], None},
         \A k \in Keys, p \in Spawns : workers[k] = p /\ Running(p)' => workers'[k] = p
  PROVE  Pool'
<1>1. \A p \in Spawns : /\ spawn'[p].key = spawn[p].key /\ spawn'[p].port = spawn[p].port
                        /\ spawn'[p].evicted = spawn[p].evicted /\ spawn'[p].stage = spawn[p].stage
                        /\ Running(p)' => Running(p)
                        /\ spawn[p].process = "none" => spawn'[p].process = "none"
  BY DEF Effect, Fixed, Restaged, Quieter, Running, None, Spawns
<1>2. \A p \in Spawns : p \in UnderWay' <=> p \in UnderWay
  BY <1>1 DEF UnderWay
<1>3. UnderWay' = UnderWay
  BY <1>2 DEF UnderWay
<1>4. \A p \in Spawns : Swept(p)' <=> Swept(p)
  BY DEF Swept
<1>5. \A q \in Spawns, p \in Spawns : EvictedBy(q, p)' <=> EvictedBy(q, p)
  BY <1>1 DEF EvictedBy
<1>6. \A p \in Spawns : ToStop(p)' <=> ToStop(p)
  BY <1>4, <1>5 DEF ToStop
<1>7. \A p \in Spawns : p \in Installed' => p \in Installed
  BY DEF Installed
<1>8. \A p \in Spawns : p \in Installed /\ Running(p)' => p \in Installed'
  BY DEF Installed, Spawns, None
<1>9. Tasked'
  BY <1>1, <1>3 DEF Pool, Tasked, UnderWay
<1>10. Unlaunched' /\ Orderly'
  BY <1>1 DEF Pool, Unlaunched, Orderly
<1>11. StopsOnce'
  BY <1>1, <1>4, <1>5, <1>6, <1>7 DEF Pool, StopsOnce
<1>12. \A p \in Spawns : Claims(p)' => Claims(p)
  BY <1>1, <1>2, <1>6, <1>7 DEF Claims
<1>13. Distinct'
  BY <1>12, DistinctKept DEF Pool, Effect
<1>14. Ported'
  <2>1. \A p \in UnderWay' : spawn'[p].port \in reserved'
    BY <1>1, <1>3 DEF Pool, Ported, UnderWay
  <2>2. ASSUME NEW p \in Spawns, Claims(p)', p \notin Installed', p \notin UnderWay'
        PROVE  p \notin Installed
    <3>1. SUFFICES ASSUME p \in Installed PROVE FALSE
      OBVIOUS
    <3>2. ~Running(p)'
      BY <1>8, <2>2, <3>1
    <3>3. ToStop(p)
      BY <1>6, <2>2, <3>2 DEF Claims
    <3> QED BY <3>1, <3>3 DEF Pool, StopsOnce
  <2>3. ASSUME NEW p \in Spawns, Claims(p)', p \notin Installed', p \notin UnderWay'
        PROVE  spawn'[p].port \in retiring'
    BY <1>1, <1>2, <1>12, <2>2, <2>3 DEF Pool, Ported
  <2> QED BY <2>1, <2>3 DEF Ported
<1> QED BY <1>9, <1>10, <1>11, <1>13, <1>14 DEF Pool

\* A spawn task goes on.
LEMMA AdvanceStep ==
  ASSUME PoolTypes, Pool, NEW p \in Spawns, NEW to, Fixed, Restaged(p, to),
         p \in UnderWay, to \in {"created", "evicting", "queued"} \cup Working,
         \A q \in Spawns : Running(q)' => Running(q) \/ q = p,
         \A q \in Spawns : spawn[q].process = "none" => spawn'[q].process = "none" \/ q = p,
         to \in Early => spawn[p].stage \in Early /\ spawn'[p].process = "none",
         to = "evicting" => spawn[p].evicted # None,
         UNCHANGED <<workers, tasks, reserved, cleaner>>,
         \A r \in Requests, q \in Spawns : EndedBy(r, q)' <=> EndedBy(r, q),
         \A q \in Spawns : EvictedBy(p, q)' => EvictedBy(p, q),
         \A q \in Spawns : q # p /\ ToStop(q)' => (spawn[q].port \in retiring => spawn[q].port \in retiring'),
         \A q \in Spawns : Running(q)' => (spawn[q].port \in retiring => spawn[q].port \in retiring')
  PROVE  Pool'
<1>1. \A q \in Spawns : /\ spawn'[q].key = spawn[q].key /\ spawn'[q].port = spawn[q].port
                        /\ spawn'[q].evicted = spawn[q].evicted
                        /\ spawn'[q].stage = IF q = p THEN to ELSE spawn[q].stage
  BY DEF Fixed, Restaged
<1>3. UnderWay' = UnderWay
  BY <1>1 DEF UnderWay
<1>4. \A q \in Spawns : Swept(q)' <=> Swept(q)
  BY DEF Swept
<1>5. \A u \in Spawns, q \in Spawns : EvictedBy(u, q)' => EvictedBy(u, q)
  BY <1>1 DEF EvictedBy
<1>6. \A q \in Spawns : ToStop(q)' => ToStop(q)
  BY <1>4, <1>5 DEF ToStop
<1>7. Installed' = Installed
  BY DEF Installed
<1>8. spawn[p].stage # "done"
  BY DEF UnderWay, Working
<1>9. Tasked'
  BY <1>1, <1>3 DEF Pool, Tasked, UnderWay
<1>10. Unlaunched' /\ Orderly'
  BY <1>1 DEF Pool, Unlaunched, Orderly
<1>11. StopsOnce'
  BY <1>1, <1>4, <1>5, <1>6, <1>7, <1>8 DEF Pool, StopsOnce
<1>12. \A q \in Spawns : Claims(q)' => Claims(q)
  BY <1>3, <1>6, <1>7 DEF Claims
<1>13. Distinct'
  BY <1>12, DistinctKept DEF Pool
<1>14. Ported'
  BY <1>1, <1>3, <1>7, <1>12 DEF Pool, Ported, Claims, UnderWay
<1> QED BY <1>9, <1>10, <1>11, <1>13, <1>14 DEF Pool

\* A spawn task ends: its process is installed, or it fails without one.
LEMMA LeaveStep ==
  ASSUME PoolTypes, Pool, NEW p \in Spawns, NEW how \in {"done", "failed"},
         Fixed, Restaged(p, how), Leaving(p, how), p \in UnderWay,
         \A q \in Spawns : spawn'[q].process = spawn[q].process,
         how = "failed" => UNCHANGED workers /\ ~Running(p),
         how = "done" => workers' = [workers EXCEPT ![spawn[p].key] = p] /\ spawn[p].stage = "starting",
         \A q \in Spawns : ToStop(q)' \/ Running(q)' =>
            (spawn[q].port \in retiring => spawn[q].port \in retiring'),
         UNCHANGED <<cleaner, request>>
  PROVE  Pool'
<1>1. \A q \in Spawns : /\ spawn'[q].key = spawn[q].key /\ spawn'[q].port = spawn[q].port
                        /\ spawn'[q].evicted = spawn[q].evicted
                        /\ spawn'[q].process = spawn[q].process
                        /\ spawn'[q].stage = IF q = p THEN how ELSE spawn[q].stage
  BY DEF Fixed, Restaged
<1>k. spawn[p].key \in Keys /\ spawn[p].stage # "done"
  BY DEF PoolTypes, UnderWay, Working
<1>w. workers \in [Keys -> Spawns \cup {None}] /\ tasks \in [Keys -> Spawns \cup {None}]
  BY DEF PoolTypes
<1>t. tasks[spawn[p].key] = p /\ workers[spawn[p].key] = None
  BY <1>k DEF Pool, Tasked, None, Spawns
<1>2. \A k \in Keys : tasks'[k] = IF k = spawn[p].key THEN None ELSE tasks[k]
  BY <1>t, <1>k, <1>w DEF Leaving
<1>3. UnderWay' = UnderWay \ {p}
  BY <1>1 DEF UnderWay, Working
<1>4. \A q \in Spawns : Swept(q)' <=> Swept(q)
  BY DEF Swept
<1>5. \A u \in Spawns, q \in Spawns : EvictedBy(u, q)' => EvictedBy(u, q)
  BY <1>1 DEF EvictedBy
<1>6. \A q \in Spawns, r \in Requests : EndedBy(r, q)' <=> EndedBy(r, q)
  BY DEF EndedBy
<1>7. \A q \in Spawns : ToStop(q)' => ToStop(q)
  BY <1>4, <1>5, <1>6 DEF ToStop
<1>8. ~ToStop(p)
  BY <1>k DEF Pool, StopsOnce
<1>9. \A q \in Spawns : q \in Installed' <=> q \in Installed \/ (q = p /\ how = "done")
  BY <1>t, <1>k, <1>w DEF Installed, None, Spawns
<1>10. Tasked'
  <2>1. \A q \in UnderWay' : tasks'[spawn'[q].key] = q
    <3> SUFFICES ASSUME NEW q \in UnderWay, q # p PROVE tasks'[spawn'[q].key] = q
      BY <1>3
    <3>1. q \in Spawns /\ tasks[spawn[q].key] = q /\ spawn[q].key \in Keys
      BY DEF Pool, Tasked, UnderWay, PoolTypes, Working
    <3> QED BY <3>1, <1>1, <1>2, <1>t
  <2>2. \A k \in Keys : tasks'[k] # None =>
          tasks'[k] \in UnderWay' /\ spawn'[tasks'[k]].key = k /\ workers'[k] = None
    BY <1>1, <1>2, <1>3, <1>t, <1>k, <1>w DEF Pool, Tasked, UnderWay
  <2> QED BY <2>1, <2>2 DEF Tasked
<1>11. Unlaunched' /\ Orderly'
  BY <1>1 DEF Pool, Unlaunched, Orderly, Early
<1>12. StopsOnce'
  BY <1>1, <1>4, <1>5, <1>6, <1>7, <1>8, <1>9 DEF Pool, StopsOnce
<1>13. \A q \in Spawns : Claims(q)' => Claims(q)
  BY <1>1, <1>3, <1>7, <1>9 DEF Claims, Running
<1>14. Distinct'
  BY <1>13, DistinctKept DEF Pool
<1>15. Ported'
  <2>1. reserved' = reserved \ {spawn[p].port}
    BY DEF Leaving
  <2>2. \A q \in UnderWay' : spawn'[q].port \in reserved'
    BY <1>1, <1>3, <2>1 DEF Pool, Ported, Distinct, UnderWay, Claims
  <2>3. ASSUME NEW q \in Spawns, Claims(q)', q \notin Installed', q \notin UnderWay'
        PROVE  spawn'[q].port \in retiring'
    <3>1. q # p
      BY <1>1, <1>7, <1>8, <1>9, <2>3 DEF Claims, Running
    <3>2. ToStop(q)' \/ Running(q)'
      BY <2>3 DEF Claims
    <3>3. spawn[q].port \in retiring
      BY <1>1, <1>3, <1>9, <1>13, <2>3, <3>1 DEF Pool, Ported
    <3> QED BY <1>1, <3>2, <3>3
  <2> QED BY <2>2, <2>3 DEF Ported
<1> QED BY <1>10, <1>11, <1>12, <1>14, <1>15 DEF Pool

\* What a request pops before it starts a process, whether or not it finds a port.
LEMMA PopFacts ==
  ASSUME PoolTypes, Pool, NEW k, NEW v \in Spawns \cup {None}, Pops(k, v)
  PROVE  /\ \A p \in Spawns : p \in Installed' <=> p \in Installed /\ p # v /\ p # workers[k]
         /\ \A p \in Spawns : p \in Installed /\ p \notin Installed' =>
               ~ToStop(p) /\ spawn[p].stage = "done" /\ (Running(p) => p = v)
                          /\ spawn[p].port \in retiring'
         /\ retiring \subseteq retiring'
         /\ \A p \in UnderWay : spawn[p].key # k
<1>1. \A i \in Keys : workers[i] \in Spawns \cup {None}
  BY DEF PoolTypes
<1>2. \A p \in Spawns : p \in Installed' <=> p \in Installed /\ p # v /\ p # workers[k]
  <2> SUFFICES ASSUME NEW p \in Spawns
               PROVE  p \in Installed' <=> p \in Installed /\ p # v /\ p # workers[k]
    OBVIOUS
  <2>1. p # None
    BY DEF None, Spawns
  <2>2. ASSUME p \in Installed' PROVE p \in Installed /\ p # v /\ p # workers[k]
    <3>1. PICK i \in Keys : workers'[i] = p
      BY <2>2 DEF Installed
    <3>2. workers[i] = p /\ i # k /\ p # v
      BY <2>1, <3>1 DEF Pops
    <3>3. p # workers[k]
      BY <3>2, <2>1 DEF Pops, PoolTypes
    <3> QED BY <2>1, <3>2, <3>3 DEF Installed
  <2>3. ASSUME p \in Installed, p # v, p # workers[k] PROVE p \in Installed'
    <3>1. PICK i \in Keys : workers[i] = p
      BY <2>3 DEF Installed
    <3>2. workers'[i] = p
      BY <2>3, <3>1 DEF Pops
    <3> QED BY <2>1, <3>1, <3>2 DEF Installed
  <2> QED BY <2>2, <2>3
<1>3. retiring' = retiring \cup PortsOf((Stale(k) \cup {v}) \ {None})
  BY DEF Pops
<1>4. Stale(k) = IF workers[k] # None /\ ~Running(workers[k]) THEN {workers[k]} ELSE {}
  BY KeptFacts DEF Pops
<1>5. ASSUME NEW p \in Spawns, p \in Installed, p \notin Installed'
      PROVE  /\ ~ToStop(p) /\ spawn[p].stage = "done" /\ (Running(p) => p = v)
             /\ spawn[p].port \in retiring'
  <2>1. p = v \/ p = workers[k]
    BY <1>2, <1>5
  <2>2. p # None
    BY DEF None, Spawns
  <2>3. p = workers[k] => ~Running(p) /\ p \in Stale(k)
    BY <1>4, <2>2 DEF Pops
  <2>4. p \in (Stale(k) \cup {v}) \ {None}
    BY <2>1, <2>2, <2>3
  <2>5. spawn[p].port \in retiring'
    BY <1>3, <2>4 DEF PortsOf
  <2>6. ~ToStop(p) /\ spawn[p].stage = "done"
    BY <1>5 DEF Pool, StopsOnce, Installed, PoolTypes
  <2> QED BY <2>1, <2>3, <2>5, <2>6
<1>6. \A p \in UnderWay : spawn[p].key # k
  BY DEF Pool, Tasked, Pops, UnderWay, None, Spawns
<1> QED BY <1>2, <1>3, <1>5, <1>6

\* Without a port nobody stops what was popped, but its port stays retiring.
LEMMA NoPortStep ==
  ASSUME PoolTypes, Pool, RequestTypes, NEW r \in Requests, request[r].stage = "getting",
         NEW k, NEW v \in Spawns \cup {None}, Pops(k, v), NoPort(r, k, v)
  PROVE  Pool'
<1>1. spawn' = spawn /\ tasks' = tasks /\ reserved' = reserved /\ cleaner' = cleaner
  BY DEF NoPort, Pops
<1>2. \A q \in Requests, p \in Spawns : EndedBy(q, p)' <=> EndedBy(q, p)
  BY DEF NoPort, Turned, EndedBy, RequestTypes, RequestState
<1>3. /\ \A p \in Spawns : p \in Installed' <=> p \in Installed /\ p # v /\ p # workers[k]
      /\ \A p \in Spawns : p \in Installed /\ p \notin Installed' =>
               ~ToStop(p) /\ spawn[p].stage = "done" /\ (Running(p) => p = v)
                          /\ spawn[p].port \in retiring'
      /\ retiring \subseteq retiring'
  BY PopFacts
<1>4. UnderWay' = UnderWay /\ \A p \in Spawns : Running(p)' <=> Running(p)
  BY <1>1 DEF UnderWay, Running
<1>5. \A p \in Spawns : ToStop(p)' <=> ToStop(p)
  BY <1>1, <1>2 DEF ToStop, EvictedBy, Swept
<1>6. Tasked'
  <2>1. \A i \in Keys : workers[i] = None => workers'[i] = None
    BY DEF Pops
  <2> QED BY <1>1, <1>4, <2>1 DEF Pool, Tasked, UnderWay
<1>7. Unlaunched' /\ Orderly'
  BY <1>1 DEF Pool, Unlaunched, Orderly
<1>8. StopsOnce'
  BY <1>1, <1>2, <1>3, <1>5 DEF Pool, StopsOnce, EvictedBy, Swept
<1>9. \A p \in Spawns : Claims(p)' => Claims(p)
  BY <1>3, <1>4, <1>5 DEF Claims
<1>10. Distinct'
  BY <1>1, <1>9 DEF Pool, Distinct
<1>11. Ported'
  BY <1>1, <1>3, <1>4, <1>9 DEF Pool, Ported
<1> QED BY <1>6, <1>7, <1>8, <1>10, <1>11 DEF Pool

LEMMA CreateStep ==
  ASSUME PoolTypes, Pool, RequestTypes, NEW r \in Requests, request[r].stage = "getting",
         NEW k, NEW v \in Spawns \cup {None}, Pops(k, v), NEW p \in Spawns, NEW n \in Ports,
         Creates(r, k, v, p, n)
  PROVE  Pool'
<1>1. /\ k \in Keys /\ tasks[k] = None /\ cleaner' = cleaner
      /\ tasks' = [tasks EXCEPT ![k] = p] /\ reserved' = reserved \cup {n}
      /\ spawn[p].stage = "unused"
  BY DEF Creates, Pops
<1>s. /\ spawn'[p] = Created(k, n, v)
      /\ \A q \in Spawns : q # p => spawn'[q] = spawn[q]
  BY DEF Creates, PoolTypes
<1>n. spawn'[p].key = k /\ spawn'[p].port = n /\ spawn'[p].stage = "created"
      /\ spawn'[p].evicted = v /\ spawn'[p].process = "none"
  BY <1>1, <1>s, CreatedType
<1>2. \A u \in Requests, q \in Spawns : EndedBy(u, q)' <=> EndedBy(u, q)
  BY DEF Creates, EndedBy, RequestTypes, RequestState
<1>3. /\ \A q \in Spawns : q \in Installed' <=> q \in Installed /\ q # v /\ q # workers[k]
      /\ \A q \in Spawns : q \in Installed /\ q \notin Installed' =>
               ~ToStop(q) /\ spawn[q].stage = "done" /\ (Running(q) => q = v)
                          /\ spawn[q].port \in retiring'
      /\ retiring \subseteq retiring'
      /\ \A q \in UnderWay : spawn[q].key # k
  BY PopFacts
<1>4. UnderWay' = UnderWay \cup {p}
  BY <1>n, <1>s DEF UnderWay, Working
<1>5. ~Running(p) /\ p \notin UnderWay /\ p \notin Installed /\ ~ToStop(p)
  <2>1. spawn[p].process = "none"
    BY <1>1 DEF Pool, Unlaunched, Early
  <2> QED BY <1>1, <2>1 DEF Running, UnderWay, Working, Installed, PoolTypes, Pool, StopsOnce
<1>6. \A u \in Spawns, q \in Spawns : EvictedBy(u, q)' <=> EvictedBy(u, q) \/ (u = p /\ q = v)
  BY <1>1, <1>n, <1>s DEF EvictedBy
<1>7. \A q \in Spawns : Swept(q)' <=> Swept(q)
  BY <1>1 DEF Swept
<1>8. \A q \in Spawns : ToStop(q)' <=> ToStop(q) \/ q = v
  BY <1>2, <1>6, <1>7 DEF ToStop
<1>9. v \in Spawns => v \in Installed /\ ~ToStop(v) /\ spawn[v].stage = "done" /\ v # p
                      /\ v \notin Installed' /\ spawn[v].port \in retiring'
  <2> SUFFICES ASSUME v \in Spawns
               PROVE  v \in Installed /\ ~ToStop(v) /\ spawn[v].stage = "done" /\ v # p
                      /\ v \notin Installed' /\ spawn[v].port \in retiring'
    OBVIOUS
  <2>1. v \in Installed
    BY DEF Pops, None, Spawns
  <2>2. v \notin Installed'
    BY <1>3
  <2>3. spawn[p].stage # "done"
    BY <1>1
  <2>4. ~ToStop(v) /\ spawn[v].stage = "done" /\ spawn[v].port \in retiring'
    BY <1>3, <2>1, <2>2
  <2> QED BY <2>1, <2>2, <2>3, <2>4
<1>10. Tasked'
  <2>1. \A i \in Keys : workers[i] = None \/ i = k => workers'[i] = None
    BY DEF Pops
  <2>2. \A i \in Keys : tasks'[i] = IF i = k THEN p ELSE tasks[i]
    BY <1>1 DEF PoolTypes
  <2>3. \A q \in UnderWay' : tasks'[spawn'[q].key] = q
    <3>1. ASSUME NEW q \in UnderWay PROVE tasks'[spawn'[q].key] = q
      <4>1. q # p /\ q \in Spawns /\ spawn[q].key \in Keys /\ spawn[q].key # k
        BY <1>3, <1>5 DEF UnderWay, PoolTypes, Working
      <4> QED BY <1>s, <2>2, <4>1 DEF Pool, Tasked
    <3>2. tasks'[spawn'[p].key] = p
      BY <1>1, <1>n, <2>2
    <3> QED BY <1>4, <3>1, <3>2
  <2>4. ASSUME NEW i \in Keys, tasks'[i] # None
        PROVE  tasks'[i] \in UnderWay' /\ spawn'[tasks'[i]].key = i /\ workers'[i] = None
    <3>1. CASE i = k
      BY <1>n, <1>4, <2>1, <2>2, <3>1
    <3>2. CASE i # k
      <4>1. tasks[i] \in UnderWay /\ spawn[tasks[i]].key = i /\ workers[i] = None
        BY <2>2, <2>4, <3>2 DEF Pool, Tasked
      <4>2. tasks[i] # p /\ tasks[i] \in Spawns
        BY <1>5, <4>1 DEF UnderWay
      <4> QED BY <1>s, <1>4, <2>1, <2>2, <3>2, <4>1, <4>2
    <3> QED BY <3>1, <3>2
  <2> QED BY <2>3, <2>4 DEF Tasked
<1>11. Unlaunched' /\ Orderly'
  BY <1>1, <1>n, <1>s DEF Pool, Unlaunched, Orderly
<1>12. StopsOnce'
  <2>1. \A q \in Spawns : q \in Installed' => q \in Installed /\ q # v
    BY <1>3
  <2>2. \A q \in Spawns : ToStop(q)' => spawn'[q].stage = "done" /\ q \notin Installed'
    BY <1>5, <1>8, <1>9, <1>s, <2>1 DEF Pool, StopsOnce
  <2>3. \A q \in Spawns, u \in Spawns : EvictedBy(u, q) => ToStop(q)
    BY DEF ToStop
  <2>4. \A q \in Spawns, u \in Requests : EndedBy(u, q) => ToStop(q)
    BY DEF ToStop
  <2>5. \A q \in Spawns : Swept(q) => ToStop(q)
    BY DEF ToStop
  <2>6. \A q \in Spawns : spawn'[q].stage = "evicting" => spawn'[q].evicted # None
    BY <1>n, <1>s DEF Pool, StopsOnce
  <2> QED BY <1>2, <1>6, <1>7, <1>9, <2>2, <2>3, <2>4, <2>5, <2>6 DEF Pool, StopsOnce
<1>13. \A q \in Spawns : q # p => (Running(q)' <=> Running(q)) /\ spawn'[q].port = spawn[q].port
  BY <1>s DEF Running
<1>14. \A q \in Spawns : q # p /\ Claims(q)' => Claims(q)
  BY <1>3, <1>4, <1>8, <1>9, <1>13 DEF Claims
<1>15. Ported'
  <2>1. \A q \in UnderWay' : spawn'[q].port \in reserved'
    BY <1>1, <1>4, <1>n, <1>s DEF Pool, Ported, UnderWay
  <2>2. ASSUME NEW q \in Spawns, Claims(q)', q \notin Installed', q \notin UnderWay'
        PROVE  spawn'[q].port \in retiring'
    BY <1>3, <1>4, <1>13, <1>14, <2>2 DEF Pool, Ported
  <2> QED BY <2>1, <2>2 DEF Ported
<1>16. ASSUME NEW q \in Spawns, q # p, Claims(q)' PROVE spawn'[q].port # n
  <2>1. n \in Ports \ (PortsOf({workers'[i] : i \in Keys} \ {None}) \cup retiring' \cup reserved)
    BY DEF Creates
  <2>2. CASE q \in Installed'
    <3>1. q \in {workers'[i] : i \in Keys} \ {None}
      BY <2>2 DEF Installed
    <3>2. spawn[q].port \in PortsOf({workers'[i] : i \in Keys} \ {None})
      BY <3>1 DEF PortsOf
    <3> QED BY <1>13, <1>16, <2>1, <3>2
  <2>3. CASE q \in UnderWay
    BY <1>13, <1>16, <2>1, <2>3 DEF Pool, Ported
  <2>4. CASE q \notin Installed' /\ q \notin UnderWay
    BY <1>4, <1>15, <1>16, <2>1, <2>4 DEF Ported
  <2> QED BY <2>2, <2>3, <2>4
<1>17. Distinct'
  BY <1>n, <1>13, <1>14, <1>16 DEF Pool, Distinct
<1> QED BY <1>10, <1>11, <1>12, <1>15, <1>17 DEF Pool


\* Workers that are popped are given to somebody who stops them, or those that have been
\* stopped are let go.
LEMMA HandOver ==
  ASSUME PoolTypes, Pool, Effect(None, "done"), UNCHANGED <<tasks, reserved>>,
         \A k \in Keys : workers'[k] \in {workers[k], None},
         \A p \in Spawns : ToStop(p)' => ToStop(p) \/ p \in Installed,
         \A p \in Spawns : p \in Installed /\ p \notin Installed' => spawn[p].port \in retiring',
         \A p \in Spawns : Claims(p)' /\ spawn[p].port \in retiring => spawn[p].port \in retiring'
  PROVE  /\ Tasked' /\ Unlaunched' /\ Ported' /\ Distinct'
         /\ \A p \in Spawns : /\ spawn'[p].stage = spawn[p].stage
                              /\ spawn'[p].evicted = spawn[p].evicted
                              /\ p \in Installed' => p \in Installed
         /\ \A q \in Spawns, p \in Spawns : EvictedBy(q, p)' <=> EvictedBy(q, p)
<1>1. \A p \in Spawns : /\ spawn'[p].key = spawn[p].key /\ spawn'[p].port = spawn[p].port
                        /\ spawn'[p].evicted = spawn[p].evicted /\ spawn'[p].stage = spawn[p].stage
                        /\ Running(p)' => Running(p)
                        /\ spawn[p].process = "none" => spawn'[p].process = "none"
  BY DEF Effect, Fixed, Restaged, Quieter, Running, None, Spawns
<1>2. \A p \in Spawns : p \in UnderWay' <=> p \in UnderWay
  BY <1>1 DEF UnderWay
<1>3. UnderWay' = UnderWay
  BY <1>2 DEF UnderWay
<1>4. \A p \in Spawns : p \in Installed' => p \in Installed
  BY DEF Installed
<1>5. \A q \in Spawns, p \in Spawns : EvictedBy(q, p)' <=> EvictedBy(q, p)
  BY <1>1 DEF EvictedBy
<1>6. Tasked'
  BY <1>1, <1>3 DEF Pool, Tasked, UnderWay
<1>7. Unlaunched'
  BY <1>1 DEF Pool, Unlaunched
<1>8. \A p \in Spawns : Claims(p)' => Claims(p)
  BY <1>1, <1>2, <1>4 DEF Claims
<1>9. Distinct'
  BY <1>8, DistinctKept DEF Pool, Effect
<1>10. Ported'
  <2>1. \A p \in UnderWay' : spawn'[p].port \in reserved'
    BY <1>1, <1>3 DEF Pool, Ported, UnderWay
  <2>2. ASSUME NEW p \in Spawns, Claims(p)', p \notin Installed', p \notin UnderWay'
        PROVE  spawn'[p].port \in retiring'
    BY <1>1, <1>2, <1>8, <2>2 DEF Pool, Ported
  <2> QED BY <2>1, <2>2 DEF Ported
<1> QED BY <1>1, <1>4, <1>5, <1>6, <1>7, <1>9, <1>10

\* The request that ended its conversation takes the worker over.
LEMMA RetiresStep ==
  ASSUME PoolTypes, RequestTypes, Pool, NEW r \in Requests, NEW w \in Spawns, Effect(None, "done"),
         request[r].stage = "calling", workers[request[r].key] = w,
         workers' = [workers EXCEPT ![request[r].key] = None],
         retiring' = retiring \cup {spawn[w].port},
         UNCHANGED <<tasks, reserved, cleaner>>,
         \A u \in Requests, p \in Spawns : EndedBy(u, p)' <=> EndedBy(u, p) \/ (u = r /\ p = w)
  PROVE  Pool'
<1>1. request[r].key \in Keys /\ w # None
  BY DEF RequestTypes, None, Spawns
<1>2. /\ \A k \in Keys : workers'[k] = IF k = request[r].key THEN None ELSE workers[k]
      /\ \A k \in Keys : workers[k] = w => k = request[r].key
  BY <1>1 DEF PoolTypes
<1>3. w \in Installed /\ w \notin Installed'
  BY <1>1, <1>2 DEF Installed
<1>4. \A p \in Spawns : p \in Installed /\ p \notin Installed' => p = w
  BY <1>2 DEF Installed
<1>5. \A p \in Spawns : Swept(p)' <=> Swept(p)
  BY DEF Swept
<1>6. \A q \in Spawns, p \in Spawns : EvictedBy(q, p)' => EvictedBy(q, p)
  BY DEF EvictedBy, Effect, Fixed, Restaged, None, Spawns
<1>7. \A p \in Spawns : ToStop(p)' => ToStop(p) \/ p = w
  BY <1>5, <1>6 DEF ToStop
<1>8. /\ Tasked' /\ Unlaunched' /\ Ported' /\ Distinct'
      /\ \A p \in Spawns : /\ spawn'[p].stage = spawn[p].stage
                           /\ spawn'[p].evicted = spawn[p].evicted
                           /\ p \in Installed' => p \in Installed
      /\ \A q \in Spawns, p \in Spawns : EvictedBy(q, p)' <=> EvictedBy(q, p)
  BY <1>2, <1>3, <1>4, <1>7, HandOver
<1>9. Orderly'
  BY DEF Pool, Orderly
<1>10. ~ToStop(w) /\ spawn[w].stage = "done"
  BY <1>1, <1>3 DEF Pool, StopsOnce, PoolTypes
<1>11. StopsOnce'
  BY <1>3, <1>5, <1>7, <1>8, <1>10 DEF Pool, StopsOnce, ToStop
<1> QED BY <1>8, <1>9, <1>11 DEF Pool

\* A worker that has been stopped is let go by the one that stopped it.
LEMMA StoppedStep ==
  ASSUME PoolTypes, Pool, NEW w \in Spawns, Effect(None, "done"), ToStop(w), Gone(w),
         retiring' = retiring \ {spawn[w].port},
         UNCHANGED <<workers, tasks, reserved>>,
         \A p \in Spawns : Swept(p)' => Swept(p),
         \A u \in Requests, p \in Spawns : EndedBy(u, p)' => EndedBy(u, p),
         ~ToStop(w)', Orderly'
  PROVE  Pool'
<1>1. Installed' = Installed
  BY DEF Installed
<1>2. \A q \in Spawns, p \in Spawns : EvictedBy(q, p)' => EvictedBy(q, p)
  BY DEF EvictedBy, Effect, Fixed, Restaged, None, Spawns
<1>3. \A p \in Spawns : ToStop(p)' => ToStop(p)
  BY <1>2 DEF ToStop
<1>4. ~Claims(w)'
  <2>1. ~Running(w)'
    BY DEF Gone, Running, Effect, Quieter
  <2>2. spawn[w].stage = "done" /\ w \notin Installed
    BY DEF Pool, StopsOnce
  <2>3. w \notin UnderWay'
    BY <2>2 DEF UnderWay, Working, Effect, Restaged, None, Spawns
  <2> QED BY <1>1, <2>1, <2>2, <2>3 DEF Claims
<1>5. \A p \in Spawns : Claims(p)' => Claims(p)
  BY <1>1, <1>3 DEF Claims, UnderWay, Effect, Restaged, Quieter, Running, None, Spawns
<1>6. \A p \in Spawns : Claims(p)' => spawn[p].port # spawn[w].port
  BY <1>4, <1>5 DEF Pool, Distinct, Claims
<1>7. /\ Tasked' /\ Unlaunched' /\ Ported' /\ Distinct'
      /\ \A p \in Spawns : /\ spawn'[p].stage = spawn[p].stage
                           /\ spawn'[p].evicted = spawn[p].evicted
                           /\ p \in Installed' => p \in Installed
  BY <1>1, <1>3, <1>6, HandOver
<1>8. StopsOnce'
  BY <1>1, <1>2, <1>3, <1>7 DEF Pool, StopsOnce
<1> QED BY <1>7, <1>8 DEF Pool

\* The cleaner takes idle workers, when it has none.
LEMMA SweepsStep ==
  ASSUME PoolTypes, CleanerTypes, RequestTypes, Pool, Sweeps
  PROVE  Pool'
<1>1. PICK expired \in SUBSET Idle :
          /\ workers' = [k \in Keys |-> IF workers[k] \in expired THEN None ELSE workers[k]]
          /\ retiring' = retiring \cup PortsOf(expired)
          /\ StopsNext(expired)
  BY DEF Sweeps
<1>2. /\ expired \subseteq Installed
      /\ \A p \in expired : p \in Spawns /\ spawn[p].stage = "done"
  BY DEF Idle, Installed, PoolTypes
<1>3. /\ Effect(None, "done")
      /\ cleaner'.left \cup ({cleaner'.now} \ {None}) = expired
      /\ cleaner'.now \notin cleaner'.left
      /\ cleaner'.now = None => cleaner'.left = {}
      /\ cleaner'.stage = "stopping"
  BY <1>1, <1>2, StopsNextEffect
<1>4. UNCHANGED <<tasks, reserved, request>>
  BY DEF Sweeps
<1>n. None \notin Spawns
  BY DEF None, Spawns
<1>5. \A p \in Spawns : Swept(p)' <=> p \in expired
  BY <1>3, <1>n DEF Swept
<1>6. \A p \in Spawns : ~Swept(p)
  <2>1. cleaner.now = None /\ cleaner.left = {}
    BY DEF Sweeps, Pool, Orderly
  <2> QED BY <2>1, <1>n DEF Swept
<1>7. \A p \in Spawns, u \in Requests : EndedBy(u, p)' <=> EndedBy(u, p)
  BY <1>4 DEF EndedBy
<1>8. \A q \in Spawns, p \in Spawns : EvictedBy(q, p)' => EvictedBy(q, p)
  BY <1>3, <1>n DEF EvictedBy, Effect, Fixed, Restaged
<1>9. \A p \in Spawns : ToStop(p)' => ToStop(p) \/ p \in expired
  BY <1>5, <1>7, <1>8 DEF ToStop
<1>10. \A k \in Keys : workers'[k] = IF workers[k] \in expired THEN None ELSE workers[k]
  BY <1>1
<1>11. \A p \in Spawns : p \in Installed' <=> p \in Installed /\ p \notin expired
  BY <1>10, <1>n DEF Installed
<1>12. \A p \in expired : spawn[p].port \in retiring'
  BY <1>1 DEF PortsOf
<1>13. retiring \subseteq retiring'
  BY <1>1
<1>14. /\ Tasked' /\ Unlaunched' /\ Ported' /\ Distinct'
       /\ \A p \in Spawns : /\ spawn'[p].stage = spawn[p].stage
                            /\ spawn'[p].evicted = spawn[p].evicted
                            /\ p \in Installed' => p \in Installed
       /\ \A q \in Spawns, p \in Spawns : EvictedBy(q, p)' <=> EvictedBy(q, p)
  BY <1>2, <1>3, <1>4, <1>9, <1>10, <1>11, <1>12, <1>13, HandOver
<1>15. Orderly'
  BY <1>3 DEF Orderly
<1>16. \A p \in expired : ~ToStop(p)
  BY <1>2 DEF Pool, StopsOnce
<1>17. StopsOnce'
  BY <1>2, <1>5, <1>7, <1>9, <1>11, <1>14, <1>16 DEF Pool, StopsOnce, ToStop
<1> QED BY <1>14, <1>15, <1>17 DEF Pool

LEMMA SweepStoppedStep ==
  ASSUME PoolTypes, CleanerTypes, RequestTypes, Pool, SweepStopped
  PROVE  Pool'
<1>0. cleaner.now \in Spawns /\ cleaner.left \subseteq Spawns
  BY DEF SweepStopped, CleanerTypes, CleanerState
<1> PICK w \in Spawns : w = cleaner.now
  BY <1>0
<1>1. /\ w # None /\ Gone(w) /\ StopsNext(cleaner.left)
      /\ retiring' = retiring \ {spawn[w].port}
      /\ UNCHANGED <<workers, tasks, reserved, request>>
  BY DEF SweepStopped
<1>2. cleaner.left \subseteq Spawns
  BY <1>0
<1>3. /\ Effect(None, "done")
      /\ cleaner'.left \cup ({cleaner'.now} \ {None}) = cleaner.left
      /\ cleaner'.now \notin cleaner'.left
      /\ cleaner'.now = None => cleaner'.left = {}
      /\ cleaner'.stage = "stopping"
  BY <1>1, <1>2, StopsNextEffect
<1>n. None \notin Spawns
  BY DEF None, Spawns
<1>4. \A p \in Spawns : Swept(p)' <=> p \in cleaner.left
  BY <1>3, <1>n DEF Swept
<1>5. Swept(w) /\ ~Swept(w)' /\ \A p \in Spawns : Swept(p)' => Swept(p)
  BY <1>2, <1>4 DEF Swept, Pool, Orderly
<1>6. \A p \in Spawns, u \in Requests : EndedBy(u, p)' <=> EndedBy(u, p)
  BY <1>1 DEF EndedBy
<1>7. \A q \in Spawns, p \in Spawns : EvictedBy(q, p)' => EvictedBy(q, p)
  BY <1>3, <1>n DEF EvictedBy, Effect, Fixed, Restaged
<1>8. ~ToStop(w)'
  BY <1>2, <1>5, <1>6, <1>7 DEF Pool, StopsOnce, ToStop
<1>9. Orderly'
  BY <1>3 DEF Orderly
<1>10. ToStop(w)
  BY <1>5 DEF ToStop
<1> QED BY <1>1, <1>2, <1>3, <1>5, <1>6, <1>8, <1>9, <1>10, StoppedStep

\* The cleaner lets go of the workers it took; their ports stay retiring.
LEMMA SweepFailsStep ==
  ASSUME PoolTypes, CleanerTypes, RequestTypes, Pool, SweepFails
  PROVE  Pool'
<1>0. cleaner.now \in Spawns /\ cleaner.left \subseteq Spawns
  BY DEF SweepFails, CleanerTypes, CleanerState
<1> PICK w \in Spawns : w = cleaner.now
  BY <1>0
<1>1. /\ Gone(w) /\ cleaner' = Resting
      /\ retiring' = retiring \ {spawn[w].port}
      /\ UNCHANGED <<workers, tasks, reserved, spawn, request>>
  BY DEF SweepFails
<1>2. Effect(None, "done")
  BY <1>1, UnchangedEffect
<1>3. \A p \in Spawns : ~Swept(p)'
  BY <1>1 DEF Swept, Resting, None, Spawns
<1>4. Swept(w)
  BY DEF Swept
<1>5. \A p \in Spawns, u \in Requests : EndedBy(u, p)' <=> EndedBy(u, p)
  BY <1>1 DEF EndedBy
<1>6. \A q \in Spawns, p \in Spawns : EvictedBy(q, p)' <=> EvictedBy(q, p)
  BY <1>1 DEF EvictedBy
<1>7. ToStop(w) /\ ~ToStop(w)'
  BY <1>3, <1>4, <1>5, <1>6 DEF Pool, StopsOnce, ToStop
<1>8. Orderly'
  BY <1>1 DEF Orderly, Resting
<1> QED BY <1>1, <1>2, <1>3, <1>5, <1>7, <1>8, StoppedStep

\* Without a process there is nothing to hand over.
Empty ==
    /\ workers = [k \in Keys |-> None] /\ tasks = [k \in Keys |-> None]
    /\ spawn = [p \in Spawns |-> Unused] /\ cleaner = Resting
    /\ \A r \in Requests : request[r].stage # "retiring"
LEMMA PoolStarts == Empty => Pool
<1> SUFFICES ASSUME Empty PROVE Pool
  OBVIOUS
<1> USE DEF Empty
<1>1. \A p \in Spawns : spawn[p].stage = "unused" /\ spawn[p].process = "none" /\ spawn[p].evicted = None
  BY DEF Unused
<1>2. Installed = {} /\ UnderWay = {}
  BY <1>1 DEF Installed, UnderWay, Working
<1>3. cleaner.left = {} /\ cleaner.now = None /\ cleaner.stage = "resting"
  BY DEF Resting
<1>4. \A p \in Spawns : ~Swept(p) /\ \A q \in Spawns : ~EvictedBy(q, p)
  BY <1>1, <1>3 DEF Swept, EvictedBy, None, Spawns
<1>5. \A p \in Spawns, r \in Requests : ~EndedBy(r, p)
  BY DEF EndedBy
<1>6. \A p \in Spawns : ~Claims(p)
  BY <1>1, <1>2, <1>4, <1>5 DEF Claims, ToStop, Running
<1>7. Tasked /\ Unlaunched /\ Orderly
  BY <1>1, <1>2, <1>3 DEF Tasked, Unlaunched, Orderly
<1>8. StopsOnce
  BY <1>1, <1>4, <1>5 DEF StopsOnce, ToStop
<1>9. Ported /\ Distinct
  BY <1>2, <1>6 DEF Ported, Distinct
<1> QED BY <1>7, <1>8, <1>9 DEF Pool

LEMMA PoolStartsAgain == Empty' => Pool'
  BY PoolStarts, PTL

LEMMA PoolInit == Init => Pool
<1> SUFFICES ASSUME Init PROVE Pool
  OBVIOUS
<1>1. \A r \in Requests : request[r].stage # "retiring"
  BY DEF Init, Unasked
<1> QED BY <1>1, PoolStarts DEF Init, Empty

LEMMA PoolRestarts == ASSUME TypeOK, Restarts PROVE Pool'
<1>1. \A r \in Requests : request'[r].stage # "retiring"
  <2> SUFFICES ASSUME NEW r \in Requests PROVE request'[r].stage # "retiring"
    OBVIOUS
  <2>1. request[r] \in RequestState
    BY DEF TypeOK, RequestTypes
  <2>2. request'[r] = IF request[r].stage \in {"unasked", "answered", "refused"} THEN request[r]
                      ELSE [request[r] EXCEPT !.stage = "refused", !.worker = None]
    BY DEF Restarts
  <2> QED BY <2>1, <2>2 DEF RequestState
<1>2. /\ workers' = [k \in Keys |-> None] /\ tasks' = [k \in Keys |-> None]
      /\ spawn' = [p \in Spawns |-> Unused] /\ cleaner' = Resting
  BY DEF Restarts
<1> QED BY <1>1, <1>2, PoolStartsAgain DEF Empty

LEMMA EndedSame ==
  ASSUME RequestTypes, NEW r \in Requests, request[r].stage # "retiring",
         NEW new, request' = [request EXCEPT ![r] = new], new.stage # "retiring"
  PROVE  \A u \in Requests, p \in Spawns : EndedBy(u, p)' <=> EndedBy(u, p)
  BY DEF RequestTypes, RequestState, EndedBy

LEMMA EndedTurned ==
  ASSUME RequestTypes, NEW r \in Requests, NEW s,
         request' = [request EXCEPT ![r].stage = s]
  PROVE  \A u \in Requests, p \in Spawns :
            EndedBy(u, p)' <=> IF u = r THEN s = "retiring" /\ request[r].worker = p ELSE EndedBy(u, p)
<1>1. \A u \in Requests : request[u] \in RequestState
  BY DEF RequestTypes
<1>2. \A u \in Requests : request'[u] = IF u = r THEN [request[u] EXCEPT !.stage = s] ELSE request[u]
  BY DEF RequestTypes
<1>3. \A u \in Requests : /\ request'[u].stage = IF u = r THEN s ELSE request[u].stage
                          /\ request'[u].worker = request[u].worker
  BY <1>1, <1>2 DEF RequestState
<1> QED BY <1>3 DEF EndedBy

LEMMA PoolKept ==
  ASSUME TypeOK, Pool, closing = "open", closing' = "open", [Next]_vars
  PROVE  Pool' \/ Restarts
<1> USE DEF TypeOK
<1> HIDE DEF SpawnState, RequestState, CleanerState
<1>n. None \notin Spawns
  BY DEF None, Spawns
\* Steps that only turn a request, pop dead workers or change a process.
<1>q. ASSUME Effect(None, "done"), UNCHANGED <<workers, tasks, reserved, retiring, cleaner>>,
             \A u \in Requests, p \in Spawns : EndedBy(u, p)' <=> EndedBy(u, p)
      PROVE  Pool'
  BY <1>q, QuietStep DEF Pool, Orderly
<1>u. ASSUME UNCHANGED <<pool, cleaner>>,
             \A u \in Requests, p \in Spawns : EndedBy(u, p)' <=> EndedBy(u, p)
      PROVE  Pool'
  BY <1>q, <1>u, UnchangedEffect DEF pool
<1>w. ASSUME NEW k \in Keys, workers' = Kept(k), retiring' = retiring \cup PortsOf(Stale(k)),
             UNCHANGED <<tasks, reserved, spawn, cleaner>>,
             \A u \in Requests, p \in Spawns : EndedBy(u, p)' <=> EndedBy(u, p)
      PROVE  Pool'
  <2>1. Effect(None, "done")
    BY <1>w, UnchangedEffect
  <2>2. \A i \in Keys : workers'[i] \in {workers[i], None}
    BY <1>w, KeptFacts
  <2>3. \A i \in Keys, p \in Spawns : workers[i] = p /\ Running(p)' => workers'[i] = p
    BY <1>w, <1>n, KeptFacts DEF Running
  <2> QED BY <1>w, <2>1, <2>2, <2>3, QuietStep DEF Pool, Orderly
<1>1. ASSUME NEW r \in Requests, Ask(r) PROVE Pool'
  <2>1. PICK k \in Keys, t \in Terminals : request' = [request EXCEPT ![r] =
              [Unasked EXCEPT !.stage = "getting", !.key = k, !.terminal = t]]
    BY <1>1 DEF Ask
  <2>2. [Unasked EXCEPT !.stage = "getting", !.key = k, !.terminal = t].stage # "retiring"
        /\ request[r].stage # "retiring"
    BY <1>1 DEF Unasked, Ask
  <2>3. \A u \in Requests, p \in Spawns : EndedBy(u, p)' <=> EndedBy(u, p)
    BY <2>1, <2>2, EndedSame
  <2> QED BY <1>1, <1>u, <2>3 DEF Ask
<1>2. ASSUME NEW r \in Requests, GetRefused(r) PROVE Pool'
  <2>1. \A u \in Requests, p \in Spawns : EndedBy(u, p)' <=> EndedBy(u, p)
    BY <1>2, EndedTurned DEF GetRefused, Turned, EndedBy
  <2>2. request[r].key \in Keys /\ UNCHANGED cleaner
    BY <1>2 DEF GetRefused, RequestTypes
  <2>3. CASE UNCHANGED pool
    BY <1>u, <2>1, <2>2, <2>3
  <2>4. CASE /\ workers' = Kept(request[r].key)
             /\ retiring' = retiring \cup PortsOf(Stale(request[r].key))
             /\ UNCHANGED <<tasks, reserved, spawn>>
    BY <1>w, <2>1, <2>2, <2>4
  <2> QED BY <1>2, <2>3, <2>4 DEF GetRefused
<1>3. ASSUME NEW r \in Requests, NEW s, NEW p, s # "retiring", request[r].stage = "getting",
             request' = [request EXCEPT ![r].stage = s, ![r].worker = p]
      PROVE  \A u \in Requests, q \in Spawns : EndedBy(u, q)' <=> EndedBy(u, q)
  <2> DEFINE new == [request[r] EXCEPT !.stage = s, !.worker = p]
  <2>1. request' = [request EXCEPT ![r] = new]
    BY <1>3 DEF RequestTypes
  <2>2. new.stage = s
    BY DEF RequestTypes, RequestState
  <2> HIDE DEF new
  <2> QED BY <1>3, <2>1, <2>2, EndedSame
<1>4. ASSUME NEW r \in Requests, GetReuses(r) PROVE Pool'
  <2>1. Effect(None, "done")
    BY <1>4, ReusesEffect
  <2>2. \A u \in Requests, q \in Spawns : EndedBy(u, q)' <=> EndedBy(u, q)
    BY <1>3, <1>4 DEF GetReuses, Getting
  <2> QED BY <1>4, <1>q, <2>1, <2>2 DEF GetReuses
<1>5. ASSUME NEW r \in Requests, GetJoins(r) PROVE Pool'
  <2>1. \A u \in Requests, q \in Spawns : EndedBy(u, q)' <=> EndedBy(u, q)
    BY <1>3, <1>5 DEF GetJoins, Getting
  <2>2. request[r].key \in Keys
    BY <1>5 DEF GetJoins, Getting, RequestTypes
  <2> QED BY <1>5, <1>w, <2>1, <2>2 DEF GetJoins
<1>6. ASSUME NEW r \in Requests, GetStarts(r) PROVE Pool'
  <2>1. PICK v \in Spawns \cup {None} :
            /\ Pops(request[r].key, v)
            /\ \/ NoPort(r, request[r].key, v)
               \/ \E p \in Spawns, n \in Ports : Creates(r, request[r].key, v, p, n)
    BY <1>6, StartsFacts
  <2>2. request[r].stage = "getting"
    BY <1>6 DEF GetStarts, Getting
  <2>3. CASE NoPort(r, request[r].key, v)
    BY <2>1, <2>2, <2>3, NoPortStep
  <2>4. CASE \E p \in Spawns, n \in Ports : Creates(r, request[r].key, v, p, n)
    BY <2>1, <2>2, <2>4, CreateStep
  <2> QED BY <2>1, <2>3, <2>4
<1>7. ASSUME NEW r \in Requests, Wakes(r) PROVE Pool'
  <2>1. \A u \in Requests, p \in Spawns : EndedBy(u, p)' <=> EndedBy(u, p)
    BY <1>7, EndedTurned DEF Wakes, Turned, EndedBy
  <2> QED BY <1>7, <1>u, <2>1 DEF Wakes
<1>8. ASSUME NEW r \in Requests, Replies(r) PROVE Pool'
  <2>1. Effect(None, "done") /\ UNCHANGED <<tasks, reserved, cleaner>>
    BY <1>8, RepliesEffect DEF Replies
  <2> DEFINE w == request[r].worker
             k == request[r].key
  <2>2. PICK ok, retires, s :
          /\ ok \in BOOLEAN /\ retires \in BOOLEAN
          /\ retires => workers[k] = w
          /\ workers' = IF retires THEN [workers EXCEPT ![k] = None] ELSE workers
          /\ retiring' = IF retires THEN retiring \cup {spawn[w].port} ELSE retiring
          /\ request' = [request EXCEPT ![r].ok = ok, ![r].stage = s]
          /\ s = "retiring" <=> retires
    <3>1. PICK ok \in BOOLEAN :
            LET ended == ok /\ request[r].terminal
                over == spawn[w].ending \/ ended
                retires == over /\ spawn[w].active = 1 /\ workers[k] = w
            IN  /\ workers' = IF retires THEN [workers EXCEPT ![k] = None] ELSE workers
                /\ retiring' = IF retires THEN retiring \cup {spawn[w].port} ELSE retiring
                /\ request' = [request EXCEPT
                      ![r].ok = ok,
                      ![r].stage = IF retires THEN "retiring"
                                   ELSE IF ended THEN "answered" ELSE "touching"]
      BY <1>8 DEF Replies
    <3> DEFINE ended == ok /\ request[r].terminal
               retires == (spawn[w].ending \/ ended) /\ spawn[w].active = 1 /\ workers[k] = w
               s == IF retires THEN "retiring" ELSE IF ended THEN "answered" ELSE "touching"
    <3>2. /\ retires \in BOOLEAN
          /\ retires => workers[k] = w
          /\ s = "retiring" <=> retires
      OBVIOUS
    <3>3. /\ workers' = IF retires THEN [workers EXCEPT ![k] = None] ELSE workers
          /\ retiring' = IF retires THEN retiring \cup {spawn[w].port} ELSE retiring
          /\ request' = [request EXCEPT ![r].ok = ok, ![r].stage = s]
      BY <3>1
    <3> HIDE DEF retires, s
    <3> QED BY <3>2, <3>3
  <2>3. request[r].stage = "calling" /\ w \in Spawns
    BY <1>8 DEF Replies, RequestTypes, Served
  <2>4. \A u \in Requests, p \in Spawns :
            EndedBy(u, p)' <=> EndedBy(u, p) \/ (retires /\ u = r /\ p = w)
    <3>1. \A u \in Requests : request'[u] = IF u = r THEN [request[u] EXCEPT !.ok = ok, !.stage = s] ELSE request[u]
      BY <2>2 DEF RequestTypes
    <3>2. \A u \in Requests : request[u] \in RequestState
      BY DEF RequestTypes
    <3>3. \A u \in Requests : /\ request'[u].stage = IF u = r THEN s ELSE request[u].stage
                              /\ request'[u].worker = request[u].worker
      BY <3>1, <3>2 DEF RequestState
    <3> QED BY <2>2, <2>3, <3>3 DEF EndedBy
  <2> HIDE DEF w, k
  <2>5. CASE retires
    <3> USE DEF w, k
    <3> QED BY <2>1, <2>2, <2>3, <2>4, <2>5, RetiresStep
  <2>6. CASE ~retires
    BY <1>q, <2>1, <2>2, <2>4, <2>6
  <2> QED BY <2>5, <2>6
<1>9. ASSUME NEW r \in Requests, Retired(r) \/ RetireFails(r) PROVE Pool'
  <2>1. request[r].worker \in Spawns
    BY <1>9 DEF Retired, RetireFails, RequestTypes, Served
  <2> PICK w \in Spawns : w = request[r].worker
    BY <2>1
  <2>2. Gone(w) /\ retiring' = retiring \ {spawn[w].port} /\ EndedBy(r, w)
        /\ UNCHANGED <<workers, tasks, reserved, spawn, cleaner>>
    BY <1>9 DEF Retired, RetireFails, EndedBy
  <2>3. \A u \in Requests, p \in Spawns : EndedBy(u, p)' <=> EndedBy(u, p) /\ u # r
    <3>1. PICK s \in {"answered", "refused"} : request' = [request EXCEPT ![r].stage = s]
      BY <1>9 DEF Retired, RetireFails, Turned, Outcome
    <3> QED BY <3>1, EndedTurned
  <2>4. Effect(None, "done")
    BY <2>2, UnchangedEffect
  <2>5. ToStop(w)
    BY <2>2 DEF ToStop
  <2>6. ~ToStop(w)'
    BY <2>2, <2>3 DEF Pool, StopsOnce, ToStop, EvictedBy, Swept
  <2>7. Orderly' /\ \A p \in Spawns : Swept(p)' => Swept(p)
    BY <2>2 DEF Pool, Orderly, Swept
  <2> QED BY <2>2, <2>3, <2>4, <2>5, <2>6, <2>7, StoppedStep
<1>10. ASSUME NEW r \in Requests, Touches(r) \/ TouchFails(r) PROVE Pool'
  <2>1. \A u \in Requests, p \in Spawns : EndedBy(u, p)' <=> EndedBy(u, p)
    BY <1>10, EndedTurned DEF Touches, TouchFails, Turned, Outcome, EndedBy
  <2> QED BY <1>10, <1>u, <2>1 DEF Touches, TouchFails
<1>11. ASSUME NEW p \in Spawns, Exits(p) \/ Dies(p) PROVE Pool'
  <2>1. Effect(None, "done")
    BY <1>11, ProcessEffect
  <2>2. UNCHANGED <<workers, tasks, retiring, reserved, request, cleaner>>
    BY <1>11 DEF Exits, Dies
  <2>3. \A u \in Requests, q \in Spawns : EndedBy(u, q)' <=> EndedBy(u, q)
    BY <2>2 DEF EndedBy
  <2> QED BY <1>q, <2>1, <2>2, <2>3
\* Steps of a spawn task that let go of nothing.
<1>a. ASSUME NEW p \in Spawns, NEW from, NEW to, Advances(p, from, to),
             from \subseteq {"created", "evicting", "queued"} \cup Working,
             to \in {"evicting", "queued"} \cup Working,
             to \in Early => from \subseteq Early,
             to = "evicting" => from = {"created"} /\ spawn[p].evicted # None,
             UNCHANGED <<workers, tasks, reserved, retiring, cleaner, request>>
      PROVE  Pool'
  <2>1. p \in UnderWay /\ Fixed /\ Restaged(p, to) /\ Quieter /\ spawn[p].stage \in from
    BY <1>a DEF Advances, Effect, UnderWay
  <2>2. \A q \in Spawns : /\ Running(q)' => Running(q)
                          /\ spawn[q].process = "none" => spawn'[q].process = "none"
    BY <2>1 DEF Quieter, Running
  <2>3. to \in Early => spawn[p].stage \in Early /\ spawn'[p].process = "none"
    BY <1>a, <2>1, <2>2 DEF Pool, Unlaunched
  <2>4. \A u \in Requests, q \in Spawns : EndedBy(u, q)' <=> EndedBy(u, q)
    BY <1>a DEF EndedBy
  <2>5. \A q \in Spawns : EvictedBy(p, q)' => EvictedBy(p, q)
    <3>1. spawn'[p].stage = to /\ spawn'[p].evicted = spawn[p].evicted
      BY <2>1 DEF Restaged, Fixed
    <3>2. to = "created" => FALSE
      BY <1>a DEF Working
    <3> QED BY <1>a, <2>1, <3>1, <3>2 DEF EvictedBy
  <2> QED BY <1>a, <2>1, <2>2, <2>3, <2>4, <2>5, AdvanceStep
<1>12. ASSUME NEW p \in Spawns, Begins(p) PROVE Pool'
  <2>1. PICK to \in {"queued", "evicting"} :
           Advances(p, {"created"}, to) /\ (to = "queued" => spawn[p].evicted = None)
    BY <1>12, BeginsEffect
  <2>2. to = "evicting" => spawn[p].evicted # None
    <3> SUFFICES ASSUME spawn[p].evicted = None PROVE spawn'[p].stage = "queued"
      BY <2>1 DEF Advances, Effect, Restaged
    <3>1. spawn' = [spawn EXCEPT ![p].stage = "queued"]
      BY <1>12 DEF Begins
    <3> QED BY <3>1 DEF PoolTypes, SpawnState
  <2>3. UNCHANGED <<workers, tasks, retiring, reserved, request, cleaner>>
    BY <1>12 DEF Begins
  <2> QED BY <1>a, <2>1, <2>2, <2>3 DEF Early, Working
<1>13. ASSUME NEW p \in Spawns, Evicted(p) PROVE Pool'
  <2>1. Advances(p, {"evicting"}, "queued") /\ spawn[p].stage = "evicting"
    BY <1>13, EvictedEffect DEF Advances
  <2>2. spawn[p].evicted \in Spawns
    BY <2>1 DEF Pool, StopsOnce, PoolTypes, SpawnState
  <2> PICK w \in Spawns : w = spawn[p].evicted
    BY <2>2
  <2>3. /\ Gone(w) /\ retiring' = retiring \ {spawn[w].port} /\ EvictedBy(p, w)
        /\ UNCHANGED <<workers, tasks, reserved, request, cleaner>>
    BY <1>13, <2>1 DEF Evicted, MayEvict, EvictedBy
  <2>4. Fixed /\ Restaged(p, "queued") /\ Quieter /\ p \in UnderWay
    BY <2>1 DEF Advances, Effect, UnderWay
  <2>5. \A q \in Spawns : ~EvictedBy(p, q)'
    BY <2>4 DEF EvictedBy, Restaged
  <2>6. \A u \in Spawns, q \in Spawns : EvictedBy(u, q)' => EvictedBy(u, q) /\ u # p
    BY <2>4, <2>5 DEF EvictedBy, Restaged, Fixed
  <2>7. /\ \A u \in Requests, q \in Spawns : EndedBy(u, q)' <=> EndedBy(u, q)
        /\ \A q \in Spawns : Swept(q)' <=> Swept(q)
    BY <2>3 DEF EndedBy, Swept
  <2>8. ~ToStop(w)' /\ ToStop(w)
    BY <2>3, <2>6, <2>7 DEF Pool, StopsOnce, ToStop
  <2>9. \A q \in Spawns : ToStop(q)' => ToStop(q) /\ q # w
    BY <2>6, <2>7, <2>8 DEF ToStop
  <2>10. \A q \in Spawns : Running(q)' => Running(q) /\ q # w
    BY <2>3, <2>4 DEF Quieter, Running, Gone
  <2>11. \A q \in Spawns : ToStop(q)' \/ Running(q)' => spawn[q].port # spawn[w].port
    BY <2>8, <2>9, <2>10 DEF Pool, Distinct, Claims
  <2>12. spawn[p].process = "none" /\ spawn'[p].process = "none"
    BY <2>1, <2>4 DEF Pool, Unlaunched, Early, Quieter, Running
  <2>13. \A q \in Spawns : spawn[q].process = "none" => spawn'[q].process = "none"
    BY <2>4 DEF Quieter, Running
  <2> QED BY <2>1, <2>3, <2>4, <2>5, <2>7, <2>10, <2>11, <2>12, <2>13, AdvanceStep DEF Early
<1>13f. ASSUME NEW p \in Spawns, EvictFails(p) PROVE Pool'
  <2>1. Advances(p, {"evicting"}, "failed") /\ spawn[p].stage = "evicting" /\ Leaving(p, "failed")
    BY <1>13f, EvictFailsEffect DEF EvictFails
  <2>2. spawn[p].evicted \in Spawns
    BY <2>1 DEF Pool, StopsOnce, PoolTypes, SpawnState
  <2> PICK w \in Spawns : w = spawn[p].evicted
    BY <2>2
  <2>3. /\ Gone(w) /\ retiring' = retiring \ {spawn[w].port} /\ EvictedBy(p, w)
        /\ UNCHANGED <<workers, request, cleaner>>
    BY <1>13f, <2>1 DEF EvictFails, EvictedBy
  <2>4. Fixed /\ Restaged(p, "failed") /\ Quieter /\ p \in UnderWay
    BY <2>1 DEF Advances, Effect, UnderWay
  <2>5. \A u \in Spawns, q \in Spawns : EvictedBy(u, q)' => EvictedBy(u, q) /\ u # p
    BY <2>4 DEF EvictedBy, Restaged, Fixed
  <2>6. /\ \A u \in Requests, q \in Spawns : EndedBy(u, q)' <=> EndedBy(u, q)
        /\ \A q \in Spawns : Swept(q)' <=> Swept(q)
    BY <2>3 DEF EndedBy, Swept
  <2>7. ~ToStop(w)' /\ ToStop(w)
    BY <2>3, <2>5, <2>6 DEF Pool, StopsOnce, ToStop
  <2>8. \A q \in Spawns : ToStop(q)' => ToStop(q) /\ q # w
    BY <2>5, <2>6, <2>7 DEF ToStop
  <2>9. \A q \in Spawns : Running(q)' => Running(q) /\ q # w
    BY <2>3, <2>4 DEF Quieter, Running, Gone
  <2>10. \A q \in Spawns : ToStop(q)' \/ Running(q)' => spawn[q].port # spawn[w].port
    BY <2>7, <2>8, <2>9 DEF Pool, Distinct, Claims
  <2>11. ~Running(p)
    BY <2>1 DEF Pool, Unlaunched, Early, Running
  <2>12. \A q \in Spawns : spawn'[q].process = spawn[q].process
    BY <2>1, MovesOne DEF Leaving, Stages
  <2> QED BY <2>1, <2>3, <2>4, <2>10, <2>11, <2>12, LeaveStep
<1>14. ASSUME NEW p \in Spawns, Admitted(p) PROVE Pool'
  <2>1. Advances(p, {"queued"}, "admitted")
    BY <1>14, AdmittedEffect
  <2> QED BY <1>14, <1>a, <2>1 DEF Admitted, MayWork, Working, Early
<1>15. ASSUME NEW p \in Spawns, HoldsStore(p) PROVE Pool'
  <2>1. Advances(p, {"admitted"}, "preparing")
    BY <1>15, HoldsStoreEffect
  <2> QED BY <1>15, <1>a, <2>1 DEF HoldsStore, MayHold, Working, Early
\* A spawn task that fails.
<1>f. ASSUME NEW p \in Spawns, NEW from, Advances(p, from, "failed"), Leaving(p, "failed"),
             from \subseteq {"queued"} \cup Working, ~Running(p),
             spawn' = [spawn EXCEPT ![p].stage = "failed"],
             UNCHANGED <<workers, retiring, cleaner, request>>
      PROVE  Pool'
  <2>1. p \in UnderWay /\ Fixed /\ Restaged(p, "failed") /\ spawn[p].stage \in from
    BY <1>f DEF Advances, Effect, UnderWay
  <2>2. \A q \in Spawns : spawn'[q].process = spawn[q].process
    BY <1>f, MovesOne DEF Stages
  <2> QED BY <1>f, <2>1, <2>2, LeaveStep
<1>16. ASSUME NEW p \in Spawns, Prepares(p) PROVE Pool'
  <2>1. UNCHANGED <<workers, retiring, request, cleaner>>
    BY <1>16 DEF Prepares, MayPrepare
  <2>2. CASE Advances(p, {"preparing"}, "launching") /\ UNCHANGED <<tasks, reserved>>
    BY <1>a, <2>1, <2>2 DEF Working, Early
  <2>3. CASE Advances(p, {"preparing"}, "failed") /\ Leaving(p, "failed")
    <3>1. ~Running(p) /\ spawn' = [spawn EXCEPT ![p].stage = "failed"]
      BY <2>3 DEF Advances, Leaving, Pool, Unlaunched, Early, Running
    <3> QED BY <1>f, <2>1, <2>3, <3>1 DEF Working
  <2> QED BY <1>16, <2>2, <2>3, PreparesEffect
<1>17. ASSUME NEW p \in Spawns, Launches(p) PROVE Pool'
  <2>1. UNCHANGED <<workers, retiring, request, cleaner>>
    BY <1>17 DEF Launches
  <2>2. CASE /\ UNCHANGED <<tasks, reserved>>
             /\ Fixed /\ Restaged(p, "starting")
             /\ spawn'[p].process = "up"
             /\ \A q \in Spawns : q # p => spawn'[q].process = spawn[q].process
    <3>1. spawn[p].stage = "launching" /\ p \in UnderWay
      BY <1>17 DEF Launches, UnderWay, Working
    <3>2. \A q \in Spawns : /\ Running(q)' => Running(q) \/ q = p
                            /\ spawn[q].process = "none" => spawn'[q].process = "none" \/ q = p
      BY <2>2 DEF Running
    <3>3. \A u \in Requests, q \in Spawns : EndedBy(u, q)' <=> EndedBy(u, q)
      BY <2>1 DEF EndedBy
    <3>4. \A q \in Spawns : ~EvictedBy(p, q)'
      BY <2>2 DEF EvictedBy, Restaged
    <3> QED BY <2>1, <2>2, <3>1, <3>2, <3>3, <3>4, AdvanceStep DEF Early, Working
  <2>3. CASE Advances(p, {"launching"}, "failed") /\ Leaving(p, "failed")
    <3>1. ~Running(p) /\ spawn' = [spawn EXCEPT ![p].stage = "failed"]
      BY <2>3 DEF Advances, Leaving, Pool, Unlaunched, Early, Running
    <3> QED BY <1>f, <2>1, <2>3, <3>1 DEF Working
  <2> QED BY <1>17, <2>2, <2>3, LaunchesEffect
<1>18. ASSUME NEW p \in Spawns, Installs(p) PROVE Pool'
  <2>1. Fixed /\ Restaged(p, "done") /\ spawn[p].stage = "starting"
    BY <1>18, InstallsEffect DEF Advances, Effect
  <2>2. Leaving(p, "done") /\ workers' = [workers EXCEPT ![spawn[p].key] = p]
        /\ UNCHANGED <<retiring, cleaner, request>>
    BY <1>18 DEF Installs
  <2>3. \A q \in Spawns : spawn'[q].process = spawn[q].process
    BY <2>2, MovesOne DEF Leaving, Stages
  <2> QED BY <2>1, <2>2, <2>3, LeaveStep DEF UnderWay, Working
<1>19. ASSUME NEW p \in Spawns, Gives(p) PROVE Pool'
  <2>1. Advances(p, {"starting"}, "undoing")
    BY <1>19, GivesEffect
  <2> QED BY <1>19, <1>a, <2>1 DEF Gives, Working, Early
<1>20. ASSUME NEW p \in Spawns, Undone(p) \/ UndoFails(p) PROVE Pool'
  <2>1. Advances(p, {"undoing"}, "failed")
    BY <1>20, UndoneEffect, UndoFailsEffect
  <2>2. /\ Leaving(p, "failed") /\ ~Running(p)
        /\ spawn' = [spawn EXCEPT ![p].stage = "failed"]
        /\ UNCHANGED <<workers, retiring, cleaner, request>>
    BY <1>20 DEF Undone, UndoFails, MayUndo, Leaving, Gone, Running
  <2> QED BY <1>f, <2>1, <2>2 DEF Working
<1>21. ASSUME SweepHoldsStore \/ Prunes PROVE Pool'
  <2>1. cleaner'.left = cleaner.left /\ cleaner'.now = cleaner.now /\ cleaner.now = None
    BY <1>21 DEF SweepHoldsStore, Prunes, MayPrune, Pool, Orderly, Resting, CleanerTypes, CleanerState
  <2>2. UNCHANGED <<pool, request>>
    BY <1>21 DEF SweepHoldsStore, Prunes, MayPrune
  <2>3. Effect(None, "done") /\ UNCHANGED <<workers, tasks, reserved, retiring>>
    BY <2>2, UnchangedEffect DEF pool
  <2>4. \A u \in Requests, q \in Spawns : EndedBy(u, q)' <=> EndedBy(u, q)
    BY <2>2 DEF EndedBy
  <2> QED BY <2>1, <2>3, <2>4, QuietStep
<1>22. ASSUME Closes \/ Takes \/ Closed PROVE FALSE
  BY <1>22 DEF Closes, Takes, Closed
<1>23. ASSUME UNCHANGED vars PROVE Pool'
  <2>1. UNCHANGED <<pool, cleaner, request>>
    BY <1>23 DEF vars, pool
  <2>2. \A u \in Requests, q \in Spawns : EndedBy(u, q)' <=> EndedBy(u, q)
    BY <2>1 DEF EndedBy
  <2> QED BY <1>u, <2>1, <2>2
<1> QED BY <1>1, <1>2, <1>4, <1>5, <1>6, <1>7, <1>8, <1>9, <1>10, <1>11, <1>12, <1>13, <1>14, <1>15,
           <1>16, <1>17, <1>18, <1>19, <1>20, <1>21, <1>22, <1>23, <1>13f, SweepsStep, SweepStoppedStep, SweepFailsStep
        DEF Next, RequestSteps, SpawnSteps, CleanerSteps

\* What every step but a start of a process or of the supervisor leaves: conversations only
\* lose what they have, unless a spawn task installs its own; ports stay; what uses a port
\* did so before.
PoolInv == closing = "open" => Pool
Onset(q) == spawn[q].stage \in {"launching", "starting"}
Shape ==
    /\ \A k \in Keys : tasks'[k] \in {tasks[k], None}
    /\ \A k \in Keys : \/ workers'[k] \in {workers[k], None}
                       \/ \E p \in Spawns : Installs(p) /\ k = spawn[p].key /\ workers'[k] = p
    /\ \A q \in Spawns : /\ spawn'[q].port = spawn[q].port
                         /\ spawn'[q].key = spawn[q].key
                         /\ Running(q)' => Running(q) \/ q \in UnderWay
                         /\ q \in UnderWay' => q \in UnderWay
                         /\ Onset(q)' => Onset(q) \/ Prepares(q)
    /\ \/ store' \in {store, Free}
       \/ SweepHoldsStore
       \/ \E p \in Spawns : HoldsStore(p)
    /\ maxWorkers' = maxWorkers

LEMMA EffectShape ==
  ASSUME TypeOK, NEW p, NEW to, Effect(p, to), p \in Spawns => p \in UnderWay,
         p \in Spawns /\ to \in {"launching", "starting"} => Onset(p) \/ Prepares(p),
         \A k \in Keys : tasks'[k] \in {tasks[k], None},
         \A k \in Keys : \/ workers'[k] \in {workers[k], None}
                         \/ \E q \in Spawns : Installs(q) /\ k = spawn[q].key /\ workers'[k] = q,
         \/ store' \in {store, Free}
         \/ SweepHoldsStore
         \/ \E q \in Spawns : HoldsStore(q),
         maxWorkers' = maxWorkers
  PROVE  Shape
<1> SUFFICES ASSUME NEW q \in Spawns
             PROVE  /\ spawn'[q].port = spawn[q].port /\ spawn'[q].key = spawn[q].key
                    /\ Running(q)' => Running(q) \/ q \in UnderWay
                    /\ q \in UnderWay' => q \in UnderWay
                    /\ Onset(q)' => Onset(q) \/ Prepares(q)
  BY DEF Shape
<1>1. /\ spawn'[q].port = spawn[q].port /\ spawn'[q].key = spawn[q].key
      /\ spawn'[q].stage = IF q = p THEN to ELSE spawn[q].stage
      /\ Running(q)' => Running(q)
  BY DEF Effect, Fixed, Restaged, Quieter, Running
<1>2. q \in UnderWay' => q \in UnderWay
  BY <1>1 DEF UnderWay
<1>3. Onset(q)' => Onset(q) \/ Prepares(q)
  BY <1>1 DEF Onset
<1> QED BY <1>1, <1>2, <1>3

LEMMA Shapes ==
  ASSUME TypeOK, [Next]_vars, \A r \in Requests : ~GetStarts(r), ~Restarts
  PROVE  Shape
<1> USE DEF TypeOK
<1> HIDE DEF SpawnState, RequestState, CleanerState
<1>n. /\ None \notin Spawns /\ tasks \in [Keys -> Spawns \cup {None}]
      /\ workers \in [Keys -> Spawns \cup {None}]
  BY DEF None, Spawns, PoolTypes
<1>c. UNCHANGED counters => maxWorkers' = maxWorkers
  BY DEF counters
<1>e. ASSUME Effect(None, "done"), \A k \in Keys : tasks'[k] \in {tasks[k], None},
             \A k \in Keys : workers'[k] \in {workers[k], None},
             store' \in {store, Free} \/ SweepHoldsStore, maxWorkers' = maxWorkers
      PROVE  Shape
  BY <1>e, <1>n, EffectShape
<1>s. ASSUME UNCHANGED spawn, UNCHANGED <<tasks, maxWorkers>>,
             \A k \in Keys : workers'[k] \in {workers[k], None},
             store' \in {store, Free} \/ SweepHoldsStore
      PROVE  Shape
  BY <1>s, <1>e, UnchangedEffect
<1>m. ASSUME NEW p \in Spawns, NEW from, NEW to, Advances(p, from, to),
             from \subseteq {"created", "evicting", "queued"} \cup Working,
             to \in {"launching", "starting"} => from \subseteq {"launching", "starting"} \/ Prepares(p),
             UNCHANGED <<tasks, reserved>> \/ \E how : Leaving(p, how),
             \/ UNCHANGED workers
             \/ Installs(p),
             store' \in {store, Free} \/ HoldsStore(p), maxWorkers' = maxWorkers
      PROVE  Shape
  <2>1. Effect(p, to) /\ p \in UnderWay /\ spawn[p].stage \in from
    BY <1>m DEF Advances, UnderWay
  <2>2. \A k \in Keys : tasks'[k] \in {tasks[k], None}
    BY <1>m, <1>n DEF Leaving
  <2>3. \A k \in Keys : \/ workers'[k] \in {workers[k], None}
                        \/ \E q \in Spawns : Installs(q) /\ k = spawn[q].key /\ workers'[k] = q
    BY <1>m, <1>n DEF Installs
  <2>4. to \in {"launching", "starting"} => Onset(p) \/ Prepares(p)
    BY <1>m, <2>1 DEF Onset
  <2> QED BY <1>m, <2>1, <2>2, <2>3, <2>4, EffectShape
<1>1. ASSUME NEW r \in Requests, Ask(r) \/ Wakes(r) \/ Touches(r) \/ TouchFails(r) PROVE Shape
  BY <1>1, <1>c, <1>s DEF Ask, Wakes, Touches, TouchFails, pool
<1>2. ASSUME NEW r \in Requests, GetRefused(r) \/ GetJoins(r) PROVE Shape
  <2>1. request[r].key \in Keys
    BY <1>2 DEF GetRefused, GetJoins, Getting, RequestTypes
  <2>2. UNCHANGED workers \/ workers' = Kept(request[r].key)
    BY <1>2 DEF GetRefused, GetJoins, pool
  <2>3. \A k \in Keys : workers'[k] \in {workers[k], None}
    BY <2>1, <2>2, KeptFacts
  <2>4. UNCHANGED <<tasks, spawn, store, counters>>
    BY <1>2 DEF GetRefused, GetJoins, pool
  <2> QED BY <1>c, <1>s, <2>3, <2>4
<1>3. ASSUME NEW r \in Requests, GetReuses(r) PROVE Shape
  BY <1>3, <1>c, <1>e, ReusesEffect DEF GetReuses
<1>4. ASSUME NEW r \in Requests, Replies(r) PROVE Shape
  <2>1. \A k \in Keys : workers'[k] \in {workers[k], None}
    BY <1>4, <1>n DEF Replies
  <2>2. UNCHANGED <<tasks, store, counters>>
    BY <1>4 DEF Replies
  <2> QED BY <1>4, <1>c, <1>e, <2>1, <2>2, RepliesEffect
<1>5. ASSUME NEW r \in Requests, Retired(r) \/ RetireFails(r) PROVE Shape
  BY <1>5, <1>c, <1>s DEF Retired, RetireFails
<1>6. ASSUME NEW p \in Spawns, Exits(p) \/ Dies(p) PROVE Shape
  <2>1. UNCHANGED <<workers, tasks, store, maxWorkers>>
    BY <1>6 DEF Exits, Dies, counters
  <2> QED BY <1>6, <1>e, <2>1, ProcessEffect
<1>7. ASSUME NEW p \in Spawns, Begins(p) PROVE Shape
  <2>1. PICK to \in {"queued", "evicting"} : Advances(p, {"created"}, to)
    BY <1>7, BeginsEffect
  <2> QED BY <1>7, <1>c, <1>m, <2>1 DEF Begins
<1>8. ASSUME NEW p \in Spawns, Evicted(p) PROVE Shape
  BY <1>8, <1>c, <1>m, EvictedEffect DEF Evicted, MayEvict
<1>8f. ASSUME NEW p \in Spawns, EvictFails(p) PROVE Shape
  <2>1. UNCHANGED <<workers, store, counters>> /\ Leaving(p, "failed")
    BY <1>8f DEF EvictFails
  <2> QED BY <1>8f, <1>c, <1>m, <2>1, EvictFailsEffect
<1>9. ASSUME NEW p \in Spawns, Admitted(p) PROVE Shape
  BY <1>9, <1>c, <1>m, AdmittedEffect DEF Admitted, MayWork
<1>10. ASSUME NEW p \in Spawns, HoldsStore(p) PROVE Shape
  <2>1. UNCHANGED <<workers, tasks, reserved, counters>>
    BY <1>10 DEF HoldsStore, MayHold
  <2>2. Advances(p, {"admitted"}, "preparing")
    BY <1>10, HoldsStoreEffect
  <2> QED BY <1>10, <1>c, <1>m, <2>1, <2>2 DEF Working
<1>11. ASSUME NEW p \in Spawns, Prepares(p) PROVE Shape
  <2>1. UNCHANGED <<workers, counters>> /\ store' = Free
    BY <1>11 DEF Prepares, MayPrepare
  <2> QED BY <1>11, <1>c, <1>m, <2>1, PreparesEffect DEF Working
<1>12. ASSUME NEW p \in Spawns, Launches(p) PROVE Shape
  <2>1. UNCHANGED <<workers, store, counters>> /\ spawn[p].stage = "launching"
    BY <1>12 DEF Launches
  <2>2. CASE Advances(p, {"launching"}, "failed") /\ Leaving(p, "failed")
    BY <1>c, <1>m, <2>1, <2>2 DEF Working
  <2>3. CASE /\ UNCHANGED <<tasks, reserved>>
             /\ Fixed /\ Restaged(p, "starting")
             /\ spawn'[p].process = "up"
             /\ \A q \in Spawns : q # p => spawn'[q].process = spawn[q].process
    <3>1. ASSUME NEW q \in Spawns
          PROVE  /\ spawn'[q].port = spawn[q].port /\ spawn'[q].key = spawn[q].key
                 /\ Running(q)' => Running(q) \/ q \in UnderWay
                 /\ q \in UnderWay' => q \in UnderWay
                 /\ Onset(q)' => Onset(q)
      <4>1. spawn'[q].port = spawn[q].port /\ spawn'[q].key = spawn[q].key
            /\ spawn'[q].stage = IF q = p THEN "starting" ELSE spawn[q].stage
        BY <2>3 DEF Fixed, Restaged
      <4>2. p \in UnderWay /\ Onset(p)
        BY <2>1 DEF UnderWay, Working, Onset
      <4>3. Running(q)' => Running(q) \/ q = p
        BY <2>3 DEF Running
      <4>4. q \in UnderWay' => q \in UnderWay
        BY <4>1, <4>2 DEF UnderWay
      <4>5. Onset(q)' => Onset(q)
        BY <4>1, <4>2 DEF Onset
      <4> QED BY <4>1, <4>2, <4>3, <4>4, <4>5
    <3> QED BY <1>c, <2>1, <2>3, <3>1 DEF Shape
  <2> QED BY <1>12, <2>2, <2>3, LaunchesEffect
<1>13. ASSUME NEW p \in Spawns, Installs(p) PROVE Shape
  <2>1. UNCHANGED <<store, counters>> /\ Leaving(p, "done")
    BY <1>13 DEF Installs
  <2> QED BY <1>13, <1>c, <1>m, <2>1, InstallsEffect DEF Working
<1>14. ASSUME NEW p \in Spawns, Gives(p) PROVE Shape
  <2>1. UNCHANGED <<workers, tasks, reserved, store, counters>>
    BY <1>14 DEF Gives
  <2> QED BY <1>14, <1>c, <1>m, <2>1, GivesEffect DEF Working
<1>15. ASSUME NEW p \in Spawns, Undone(p) \/ UndoFails(p) PROVE Shape
  <2>1. UNCHANGED <<workers, store, counters>> /\ Leaving(p, "failed")
    BY <1>15 DEF Undone, UndoFails, MayUndo
  <2> QED BY <1>15, <1>c, <1>m, <2>1, UndoneEffect, UndoFailsEffect DEF Working
<1>16. ASSUME Sweeps PROVE Shape
  <2>1. PICK expired \in SUBSET Idle :
          /\ workers' = [k \in Keys |-> IF workers[k] \in expired THEN None ELSE workers[k]]
          /\ StopsNext(expired)
    BY <1>16 DEF Sweeps
  <2>2. expired \subseteq Spawns
    BY <1>n DEF Idle, Installed
  <2>3. Effect(None, "done")
    BY <2>1, <2>2, StopsNextEffect
  <2>4. UNCHANGED <<tasks, store, counters>>
    BY <1>16 DEF Sweeps
  <2> QED BY <1>c, <1>e, <2>1, <2>3, <2>4
<1>17. ASSUME SweepStopped PROVE Shape
  <2>1. StopsNext(cleaner.left) /\ cleaner.left \subseteq Spawns
    BY <1>17 DEF SweepStopped, CleanerTypes, CleanerState
  <2>2. UNCHANGED <<workers, tasks, store, counters>>
    BY <1>17 DEF SweepStopped
  <2>3. Effect(None, "done")
    BY <2>1, StopsNextEffect
  <2> QED BY <1>c, <1>e, <2>2, <2>3
<1>17f. ASSUME SweepFails PROVE Shape
  <2>1. UNCHANGED <<workers, tasks, spawn, store, maxWorkers>>
    BY <1>17f DEF SweepFails
  <2> QED BY <1>s, <2>1
<1>18. ASSUME SweepHoldsStore \/ Prunes PROVE Shape
  <2>1. UNCHANGED <<pool, counters>> /\ (SweepHoldsStore \/ store' = Free)
    BY <1>18 DEF SweepHoldsStore, Prunes, MayPrune
  <2> QED BY <1>c, <1>s, <2>1 DEF pool
<1>19. ASSUME Closes PROVE Shape
  <2>1. UNCHANGED <<workers, tasks, counters>> /\ store' \in {store, Free}
    BY <1>19 DEF Closes
  <2>2. \A q \in Spawns : \/ spawn'[q] = spawn[q]
                          \/ spawn'[q] = [spawn[q] EXCEPT !.process = "exited"]
    BY <1>19 DEF Closes, PoolTypes
  <2>3. \A q \in Spawns : /\ spawn'[q].port = spawn[q].port /\ spawn'[q].key = spawn[q].key
                          /\ spawn'[q].stage = spawn[q].stage
                          /\ Running(q)' => Running(q)
    <3>1. \A q \in Spawns : spawn[q] \in SpawnState
      BY DEF PoolTypes
    <3> QED BY <2>2, <3>1 DEF SpawnState, Running
  <2>4. \A q \in Spawns : (q \in UnderWay' => q \in UnderWay) /\ (Onset(q)' => Onset(q))
    BY <2>3 DEF UnderWay, Onset
  <2> QED BY <1>c, <2>1, <2>3, <2>4 DEF Shape
<1>20. ASSUME Takes PROVE Shape
  <2>1. /\ \A k \in Keys : workers'[k] = None /\ tasks'[k] \in {tasks[k], None}
        /\ store' \in {store, Free} /\ UNCHANGED counters
    BY <1>20 DEF Takes
  <2>2. /\ Fixed
        /\ \A p \in Spawns : /\ p \in UnderWay' => p \in UnderWay
                             /\ Running(p)' => Running(p)
                             /\ ~Onset(p)'
    BY <1>20, TakesEffect DEF Running, Onset
  <2> QED BY <1>c, <2>1, <2>2 DEF Shape, Fixed
<1>21. ASSUME Closed \/ UNCHANGED vars PROVE Shape
  <2>1. UNCHANGED <<pool, store, counters>>
    BY <1>21 DEF Closed, vars, pool, counters
  <2> QED BY <1>c, <1>s, <2>1 DEF pool
<1> QED BY <1>1, <1>2, <1>3, <1>4, <1>5, <1>6, <1>7, <1>8, <1>9, <1>10, <1>11, <1>12, <1>13, <1>14, <1>15,
           <1>16, <1>17, <1>18, <1>19, <1>20, <1>21, <1>8f, <1>17f
        DEF Next, RequestSteps, SpawnSteps, CleanerSteps

-----------------------------------------------------------------------------
(* At most `max_workers` conversations have or are getting a process.       *)

AtMost == IsFiniteSet(Protected) /\ Cardinality(Protected) <= maxWorkers
AtMostInv == closing = "open" => AtMost

LEMMA LimitIsNat == ASSUME RestTypes PROVE maxWorkers \in Nat \ {0}
  BY SupervisorAssumption DEF RestTypes

LEMMA FewerAreAtMost ==
  ASSUME RestTypes, AtMost, Protected' \subseteq Protected, maxWorkers' = maxWorkers
  PROVE  AtMost'
<1>1. /\ IsFiniteSet(Protected') /\ Cardinality(Protected') <= Cardinality(Protected)
      /\ Cardinality(Protected') \in Nat /\ Cardinality(Protected) \in Nat
  BY FS_Subset, FS_CardinalityType DEF AtMost
<1> QED BY <1>1, LimitIsNat DEF AtMost

LEMMA NoneAreAtMost ==
  ASSUME RestTypes', Protected' = {} PROVE AtMost'
<1>1. maxWorkers' \in Nat
  BY SupervisorAssumption DEF RestTypes
<1>2. IsFiniteSet(Protected') /\ Cardinality(Protected') = 0
  BY FS_EmptySet
<1> QED BY <1>1, <1>2 DEF AtMost

\* A start replaces a conversation when the pool is full, and adds one when it is not.
LEMMA StartsAtMost ==
  ASSUME TypeOK, Pool, AtMost, NEW k \in Keys, NEW v \in Spawns \cup {None}, Pops(k, v),
         \A i \in Keys : tasks'[i] # None => tasks[i] # None \/ i = k
  PROVE  AtMost'
<1> DEFINE had == {i \in Keys : Kept(k)[i] # None}
<1>0. /\ maxWorkers \in Nat \ {0} /\ maxWorkers' = maxWorkers
      /\ \A i \in Keys : workers[i] \in Spawns \cup {None}
      /\ None \notin Spawns
  BY LimitIsNat DEF TypeOK, Pops, PoolTypes, None, Spawns
<1>1. /\ IsFiniteSet(Protected) /\ Cardinality(Protected) \in Nat
      /\ Cardinality(Protected) <= maxWorkers
  BY FS_CardinalityType DEF AtMost
<1>2. Full(k) <=> Cardinality(had) + Cardinality(Spawning) >= maxWorkers
  BY DEF Full
<1>3. \A i \in Keys : Kept(k)[i] # None => workers[i] # None
  BY KeptFacts DEF TypeOK
<1>4. \A i \in Keys : Kept(k)[i] = IF i = k THEN None ELSE workers[i]
  BY KeptFacts DEF TypeOK, Pops
<1>5. had \subseteq Protected /\ Spawning \subseteq Protected
  BY <1>3 DEF Protected, Spawning
<1>6. /\ IsFiniteSet(had) /\ IsFiniteSet(Spawning)
      /\ Cardinality(had) \in Nat /\ Cardinality(Spawning) \in Nat
  BY <1>1, <1>5, FS_Subset, FS_CardinalityType
<1>7. \A i \in Keys : workers'[i] # None => i \in had /\ workers[i] # v
  BY <1>4 DEF Pops
<1>8. Protected' \subseteq (had \cup Spawning) \cup {k}
  BY <1>7 DEF Protected, Spawning
<1>9. CASE ~Full(k)
  <2>1. /\ IsFiniteSet(had \cup Spawning)
        /\ Cardinality(had \cup Spawning) <= Cardinality(had) + Cardinality(Spawning)
    <3>1. /\ IsFiniteSet(had \cap Spawning) /\ Cardinality(had \cap Spawning) \in Nat
      BY <1>6, FS_Intersection, FS_CardinalityType
    <3>2. /\ IsFiniteSet(had \cup Spawning)
          /\ Cardinality(had \cup Spawning) =
               Cardinality(had) + Cardinality(Spawning) - Cardinality(had \cap Spawning)
      BY <1>6, FS_Union
    <3> QED BY <1>6, <3>1, <3>2
  <2> DEFINE all == (had \cup Spawning) \cup {k}
  <2>2. /\ IsFiniteSet(all) /\ Cardinality(all) \in Nat
        /\ Cardinality(all) <= Cardinality(had \cup Spawning) + 1
    <3>1. Cardinality(had \cup Spawning) \in Nat
      BY <2>1, FS_CardinalityType
    <3> HIDE DEF had
    <3>2. /\ IsFiniteSet(all)
          /\ Cardinality(all) = IF k \in had \cup Spawning THEN Cardinality(had \cup Spawning)
                                ELSE Cardinality(had \cup Spawning) + 1
      BY <2>1, FS_AddElement
    <3>3. Cardinality(all) \in Nat
      BY <3>2, FS_CardinalityType
    <3> HIDE DEF all
    <3> QED BY <3>1, <3>2, <3>3
  <2>3. Cardinality(had) + Cardinality(Spawning) < maxWorkers
    BY <1>0, <1>2, <1>6, <1>9
  <2>4. Cardinality(all) <= maxWorkers
    <3> HIDE DEF all, had
    <3>1. Cardinality(had \cup Spawning) \in Nat
      BY <2>1, FS_CardinalityType
    <3> QED BY <1>0, <1>6, <2>1, <2>2, <2>3, <3>1
  <2>5. /\ IsFiniteSet(Protected') /\ Cardinality(Protected') <= Cardinality(all)
        /\ Cardinality(Protected') \in Nat
    <3>1. Protected' \subseteq all
      BY <1>8
    <3> HIDE DEF all
    <3> QED BY <2>2, <3>1, FS_Subset, FS_CardinalityType
  <2> HIDE DEF all
  <2> QED BY <1>0, <2>2, <2>4, <2>5 DEF AtMost
<1>10. CASE Full(k)
  <2>1. v \in Candidates(k)
    BY <1>10 DEF Pops
  <2>2. v # None /\ v # workers[k]
    <3>1. v \in Installed /\ v \notin Stale(k)
      BY <2>1 DEF Candidates, Idle
    <3>2. workers[k] # None => workers[k] \in Stale(k)
      BY DEF Pops, Stale
    <3> QED BY <3>1, <3>2, <1>0 DEF Installed
  <2>3. PICK j \in Keys : workers[j] = v
    BY <2>1 DEF Candidates, Idle, Installed
  <2>4. j # k /\ j \in Protected /\ tasks[j] = None
    BY <2>2, <2>3 DEF Protected, Pool, Tasked
  <2>5. j \notin Protected'
    <3>1. workers'[j] = None
      BY <2>3 DEF Pops
    <3>2. tasks'[j] = None
      BY <2>4
    <3> QED BY <3>1, <3>2 DEF Protected
  <2> DEFINE rest == Protected \ {j}
             all == rest \cup {k}
  <2>6. Protected' \subseteq all
    BY <1>5, <1>8, <2>5
  <2>7. IsFiniteSet(rest) /\ Cardinality(rest) = Cardinality(Protected) - 1
    BY <1>1, <2>4, FS_RemoveElement
  <2>8. IsFiniteSet(all) /\ Cardinality(all) \in Nat /\ Cardinality(all) <= Cardinality(rest) + 1
    <3>1. Cardinality(rest) \in Nat
      BY <2>7, FS_CardinalityType
    <3> HIDE DEF rest
    <3>2. /\ IsFiniteSet(all)
          /\ Cardinality(all) = IF k \in rest THEN Cardinality(rest) ELSE Cardinality(rest) + 1
      BY <2>7, FS_AddElement
    <3>3. Cardinality(all) \in Nat
      BY <3>2, FS_CardinalityType
    <3> HIDE DEF all
    <3> QED BY <3>1, <3>2, <3>3
  <2> HIDE DEF all, rest
  <2>9. /\ IsFiniteSet(Protected') /\ Cardinality(Protected') <= Cardinality(all)
        /\ Cardinality(Protected') \in Nat
    BY <2>6, <2>8, FS_Subset, FS_CardinalityType
  <2> QED BY <1>0, <1>1, <2>7, <2>8, <2>9 DEF AtMost
<1> QED BY <1>9, <1>10

LEMMA AtMostInit == ASSUME TypeOK, Init PROVE AtMost
<1>1. Protected = {}
  BY DEF Init, Protected
<1>2. maxWorkers \in Nat
  BY LimitIsNat DEF TypeOK
<1> QED BY <1>1, <1>2, FS_EmptySet DEF AtMost

LEMMA AtMostStep ==
  ASSUME TypeOK, TypeOK', PoolInv, AtMostInv, [Next]_vars PROVE AtMostInv'
<1> SUFFICES ASSUME closing' = "open" PROVE AtMost'
  BY DEF AtMostInv
<1>1. CASE Restarts
  <2>1. Protected' = {}
    BY <1>1 DEF Restarts, Protected
  <2> QED BY <2>1, NoneAreAtMost DEF TypeOK
<1>2. ASSUME NEW r \in Requests, GetStarts(r) PROVE AtMost'
  <2>1. PICK v \in Spawns \cup {None} :
            /\ Pops(request[r].key, v)
            /\ \/ NoPort(r, request[r].key, v)
               \/ \E p \in Spawns, n \in Ports : Creates(r, request[r].key, v, p, n)
    BY <1>2, StartsFacts DEF TypeOK
  <2>2. \A i \in Keys : tasks'[i] # None => tasks[i] # None \/ i = request[r].key
    BY <2>1, ZenonT(30) DEF NoPort, Creates, TypeOK, PoolTypes
  <2>3. request[r].key \in Keys /\ closing = "open"
    BY <2>1 DEF Pops
  <2> QED BY <2>1, <2>2, <2>3, StartsAtMost DEF PoolInv, AtMostInv
<1>3. CASE ~Restarts /\ \A r \in Requests : ~GetStarts(r)
  <2>1. Shape
    BY <1>3, Shapes
  <2>2. closing = "open"
    BY <1>3 DEF Next, RequestSteps, SpawnSteps, CleanerSteps, Ask, GetRefused, GetReuses, GetJoins,
                Wakes, Replies, Retired, RetireFails, Touches, TouchFails, Begins, Evicted, EvictFails, Admitted, HoldsStore, Prepares,
                Launches, Installs, Gives, Undone, UndoFails, Exits, Dies, Sweeps, SweepStopped, SweepFails, SweepHoldsStore,
                Prunes, Closes, Takes, Closed, vars
  <2>3. \A p \in Spawns : Installs(p) => tasks[spawn[p].key] = p
    BY <2>2 DEF Installs, PoolInv, Pool, Tasked, UnderWay, Working
  <2>4. Protected' \subseteq Protected
    <3> SUFFICES ASSUME NEW i \in Keys, workers'[i] # None \/ tasks'[i] # None
                 PROVE  workers[i] # None \/ tasks[i] # None
      BY DEF Protected
    <3> QED BY <2>1, <2>3 DEF Shape, None, Spawns
  <2> QED BY <2>1, <2>2, <2>4, FewerAreAtMost DEF Shape, TypeOK, AtMostInv
<1> QED BY <1>1, <1>2, <1>3

\* What runs or is being started has a port of its own, also while the supervisor closes.
Using(p) == Running(p) \/ p \in UnderWay
Apart == \A p \in Spawns, q \in Spawns :
            Using(p) /\ Using(q) /\ p # q => spawn[p].port # spawn[q].port

LEMMA OpenIsApart == ASSUME Pool PROVE Apart
  BY DEF Pool, Distinct, Claims, Using, Apart

LEMMA PoolInvStep ==
  ASSUME TypeOK, PoolInv, [Next]_vars PROVE PoolInv'
<1> SUFFICES ASSUME closing' = "open" PROVE Pool'
  BY DEF PoolInv
<1>1. CASE Restarts
  BY <1>1, PoolRestarts
<1>2. CASE ~Restarts
  <2>1. closing = "open"
    BY <1>2, ZenonT(30) DEF Next, RequestSteps, SpawnSteps, CleanerSteps, Ask, GetRefused, GetReuses, GetJoins,
                GetStarts, Getting,
                Wakes, Replies, Retired, RetireFails, Touches, TouchFails, Begins, Evicted, EvictFails, Admitted, HoldsStore, Prepares,
                Launches, Installs, Gives, Undone, UndoFails, Exits, Dies, Sweeps, SweepStopped, SweepFails, SweepHoldsStore,
                Prunes, Closes, Takes, Closed, vars
  <2> QED BY <1>2, <2>1, PoolKept DEF PoolInv
<1> QED BY <1>1, <1>2

LEMMA ApartNext == Pool' => Apart'
  BY OpenIsApart, PTL

LEMMA ApartStep ==
  ASSUME TypeOK, PoolInv, Apart, [Next]_vars PROVE Apart'
<1>1. CASE Restarts \/ \E r \in Requests : GetStarts(r)
  <2>1. closing' = "open"
    BY <1>1 DEF Restarts, GetStarts, Getting
  <2> QED BY <2>1, PoolInvStep, ApartNext DEF PoolInv
<1>2. CASE ~Restarts /\ \A r \in Requests : ~GetStarts(r)
  <2>1. Shape
    BY <1>2, Shapes
  <2>2. \A q \in Spawns : Using(q)' => Using(q)
    BY <2>1 DEF Shape, Using
  <2> QED BY <2>1, <2>2 DEF Apart, Shape
<1> QED BY <1>1, <1>2

PoolInd == TypeOK /\ PoolInv /\ AtMostInv /\ Apart

LEMMA PoolIndCorrect == Spec => []PoolInd
<1>1. Init => PoolInd
  <2> SUFFICES ASSUME Init PROVE PoolInd
    OBVIOUS
  <2> QED BY TypesInit, PoolInit, AtMostInit, OpenIsApart DEF PoolInd, PoolInv, AtMostInv
<1>2. ASSUME PoolInd, [Next]_vars PROVE PoolInd'
  BY <1>2, TypesStep, PoolInvStep, AtMostStep, ApartStep DEF PoolInd
<1> QED BY <1>1, <1>2, PTL DEF Spec

\* At most `max_workers` conversations have or are getting a process, and no two processes
\* that run have the same port, though ports are handed out while workers are being stopped
\* by several tasks and while the supervisor closes.
THEOREM PoolIsBounded == Spec => []PoolBounded
<1>1. PoolInd => PoolBounded
  BY DEF PoolInd, AtMostInv, AtMost, Apart, Using, PoolBounded
<1> QED BY <1>1, PoolIndCorrect, PTL

-----------------------------------------------------------------------------
(* Cleanup and the directories of workers.                                 *)

\* Whoever holds the workspace lock protects every directory in use, though the set was
\* read when the lock was taken.
Covered == store.owner # Nobody => \A k \in Keys : InUse(k) => k \in store.protected

\* Only a spawn task that prepares its directory begins to use one.
LEMMA UseKept ==
  ASSUME TypeOK, PoolInv, Shape, NEW k \in Keys, InUse(k)', \A p \in Spawns : ~Prepares(p)
  PROVE  InUse(k)
<1>1. /\ workers[k] \in Spawns \cup {None} /\ tasks[k] \in Spawns \cup {None}
      /\ workers'[k] # None => workers'[k] \in Spawns
  BY DEF TypeOK, PoolTypes, Shape, None, Spawns
<1>2. CASE tasks'[k] # None /\ spawn'[tasks'[k]].stage \in {"launching", "starting"}
  <2>1. tasks'[k] = tasks[k] /\ tasks[k] \in Spawns
    BY <1>1, <1>2 DEF Shape
  <2>2. Onset(tasks[k])
    <3> PICK q \in Spawns : q = tasks[k]
      BY <2>1
    <3>1. Onset(q)'
      BY <1>2, <2>1 DEF Onset
    <3> QED BY <3>1 DEF Shape
  <2> QED BY <1>2, <2>1, <2>2 DEF InUse, Onset
<1>3. CASE workers'[k] # None /\ spawn'[workers'[k]].process \in {"up", "asked"}
  <2>1. CASE workers'[k] = workers[k]
    <3>1. PICK q \in Spawns : q = workers[k]
      BY <1>1, <1>3, <2>1
    <3>2. Running(q)' /\ spawn[q].stage = "done"
      BY <1>3, <2>1, <3>1 DEF Running, TypeOK, PoolTypes
    <3>3. q \notin UnderWay
      BY <3>2 DEF UnderWay, Working
    <3>4. Running(q)
      BY <3>2, <3>3 DEF Shape
    <3> QED BY <1>3, <2>1, <3>1, <3>4 DEF InUse
  <2>2. CASE \E p \in Spawns : Installs(p) /\ k = spawn[p].key /\ workers'[k] = p
    <3>1. PICK p \in Spawns : Installs(p) /\ k = spawn[p].key
      BY <2>2
    <3>2. tasks[k] = p /\ spawn[p].stage = "starting"
      BY <3>1 DEF Installs, PoolInv, Pool, Tasked, UnderWay, Working
    <3> QED BY <1>1, <3>2 DEF InUse, None, Spawns
  <2> QED BY <1>3, <2>1, <2>2 DEF Shape
<1> QED BY <1>2, <1>3 DEF InUse, Running

LEMMA CoveredStep ==
  ASSUME TypeOK, PoolInv, Covered, [Next]_vars PROVE Covered'
<1>1. CASE store' = Free
  BY <1>1 DEF Covered, Free
<1>2. ASSUME NEW r \in Requests, GetStarts(r) PROVE Covered'
  <2>1. PICK v \in Spawns \cup {None} :
            /\ Pops(request[r].key, v)
            /\ \/ NoPort(r, request[r].key, v)
               \/ \E p \in Spawns, n \in Ports : Creates(r, request[r].key, v, p, n)
    BY <1>2, StartsFacts DEF TypeOK
  <2>2. /\ UNCHANGED store
        /\ \A k \in Keys : workers'[k] \in {workers[k], None}
    BY <2>1 DEF Pops
  <2>3. ASSUME NEW k \in Keys, InUse(k)' PROVE InUse(k)
    <3>1. CASE NoPort(r, request[r].key, v)
      <4>1. UNCHANGED <<tasks, spawn>>
        BY <3>1 DEF NoPort
      <4> QED BY <2>2, <2>3, <4>1 DEF InUse, Running
    <3>2. CASE \E p \in Spawns, n \in Ports : Creates(r, request[r].key, v, p, n)
      <4>1. PICK p \in Spawns, n \in Ports : Creates(r, request[r].key, v, p, n)
        BY <3>2
      <4>2. request[r].key \in Keys
        BY <2>1 DEF Pops
      <4>3. /\ spawn[p].stage = "unused"
            /\ tasks' = [tasks EXCEPT ![request[r].key] = p]
            /\ spawn' = [spawn EXCEPT ![p] = Created(request[r].key, n, v)]
        BY <4>1 DEF Creates
      <4>4. spawn'[p].stage = "created" /\ \A q \in Spawns : q # p => spawn'[q] = spawn[q]
        BY <4>2, <4>3, CreatedType DEF TypeOK, PoolTypes
      <4>5. workers'[k] # None => workers'[k] \in Spawns /\ workers'[k] # p
        BY <2>2, <4>3 DEF TypeOK, PoolTypes
      <4>6. tasks'[k] \in {p, tasks[k]} /\ (tasks'[k] # None => tasks'[k] \in Spawns)
        BY <4>3 DEF TypeOK, PoolTypes
      <4> QED BY <2>2, <2>3, <4>4, <4>5, <4>6 DEF InUse, Running
    <3> QED BY <2>1, <3>1, <3>2
  <2> QED BY <2>2, <2>3 DEF Covered
<1>3. CASE ~Restarts /\ \A r \in Requests : ~GetStarts(r)
  <2>1. Shape
    BY <1>3, Shapes
  <2>2. ASSUME NEW p \in Spawns, Prepares(p) PROVE Covered'
    BY <1>1, <2>2 DEF Prepares, MayPrepare
  <2>3. CASE SweepHoldsStore \/ \E p \in Spawns : HoldsStore(p)
    <3>1. Protected \subseteq store'.protected /\ UNCHANGED <<workers, tasks>>
      BY <2>3 DEF SweepHoldsStore, HoldsStore, MayHold, pool
    <3>2. Protected' = Protected
      BY <3>1 DEF Protected
    <3>3. \A k \in Keys : InUse(k)' => k \in Protected'
      BY DEF InUse, Protected
    <3> QED BY <3>1, <3>2, <3>3 DEF Covered
  <2>4. CASE store' = store /\ \A p \in Spawns : ~Prepares(p)
    BY <2>1, <2>4, UseKept DEF Covered
  <2> QED BY <1>1, <2>1, <2>2, <2>3, <2>4 DEF Shape
<1>4. CASE Restarts
  BY <1>1, <1>4 DEF Restarts
<1> QED BY <1>2, <1>3, <1>4

LEMMA CoveredCorrect == Spec => [](PoolInd /\ Covered)
<1>1. Init => Covered
  BY DEF Init, Covered, Free
<1>2. ASSUME PoolInd, Covered, [Next]_vars PROVE Covered'
  BY <1>2, CoveredStep DEF PoolInd
<1> QED BY <1>1, <1>2, PoolIndCorrect, PTL DEF Spec

\* Cleanup removes no directory in which an installed worker runs or one is being started,
\* whether the cleaner or a spawn task does it, although both work on a set they read before:
\* what is not in it when they remove was not in use when the lock was taken, and nobody
\* begins to use a directory without the lock.  Two things are outside it: a worker that was
\* popped and still exits, and the step that ends a conversation, which removes the
\* directory of that conversation whoever uses it now.
THEOREM CleanupIsSafe == Spec => CleanupSparesWorkers
<1> DEFINE Spared == \A k \in Keys :
          workspace[k] # "absent" /\ workspace'[k] = "absent" /\ restarts' = restarts
          /\ ~EndsConversation(k) => ~InUse(k)
<1>1. ASSUME PoolInd, Covered, [Next]_vars PROVE [Spared]_vars
  <2> SUFFICES ASSUME NEW k \in Keys, workspace[k] # "absent", workspace'[k] = "absent",
                      restarts' = restarts, ~EndsConversation(k)
               PROVE  ~InUse(k)
    OBVIOUS
  <2>0. TypeOK
    BY <1>1 DEF PoolInd
  <2>1. ASSUME NEW gone, Prunable(store.protected, gone), store.owner # Nobody,
               workspace'[k] # "absent" \/ k \in gone
        PROVE  ~InUse(k)
    BY <1>1, <2>1 DEF Prunable, Covered
  <2>w. workspace \in [Keys -> {"absent", "active", "idle", "terminal"}]
    BY <2>0 DEF TypeOK, WorkspaceTypes
  <2>i. ASSUME NEW j, workspace' = MarkedIdle(j) PROVE FALSE
    BY <2>i, <2>w DEF MarkedIdle
  <2>2. ASSUME NEW p \in Spawns, Prepares(p) PROVE ~InUse(k)
    <3>1. PICK gone \in SUBSET Keys :
            /\ Prunable(store.protected, gone)
            /\ \/ workspace' = [Without(gone) EXCEPT ![spawn[p].key] = "active"]
               \/ workspace' = Without(gone)
      BY <2>2 DEF Prepares, MayPrepare
    <3>2. k \in gone
      BY <3>1 DEF Without
    <3>3. store.owner # Nobody
      BY <2>2 DEF Prepares, MayPrepare, Spawner, Nobody
    <3> QED BY <2>1, <3>1, <3>2, <3>3
  <2>3. ASSUME Prunes PROVE ~InUse(k)
    <3>1. PICK gone \in SUBSET Keys : Prunable(store.protected, gone) /\ workspace' = Without(gone)
      BY <2>3 DEF Prunes, MayPrune
    <3>2. k \in gone
      BY <3>1 DEF Without
    <3>3. store.owner # Nobody
      BY <2>3 DEF Prunes, MayPrune, Cleaner, Nobody
    <3> QED BY <2>1, <3>1, <3>2, <3>3
  <2>4. ASSUME NEW r \in Requests, Retired(r) \/ RetireFails(r) PROVE FALSE
    <3>1. request[r].key # k
      <4>1. request[r].stage = "retiring" /\ request'[r].stage # "retiring"
        BY <2>0, <2>4 DEF Retired, RetireFails, Turned, Outcome, TypeOK, RequestTypes, RequestState
      <4> QED BY <4>1 DEF EndsConversation
    <3> QED BY <2>4, <2>w, <3>1 DEF Retired, RetireFails
  <2>5. ASSUME NEW r \in Requests, Touches(r) PROVE FALSE
    BY <2>5, <2>w DEF Touches
  <2>6. ASSUME Closed PROVE FALSE
    BY <2>6, <2>w DEF Closed, MarkedIdle
  <2>7. ASSUME Restarts PROVE FALSE
    <3>1. restarts' = restarts + 1
      BY <2>7 DEF Restarts
    <3>2. restarts \in Nat
      BY <2>0 DEF TypeOK, RestTypes
    <3> QED BY <3>1, <3>2
  <2>8. ASSUME NEW p \in Spawns, Evicted(p) \/ Undone(p) PROVE FALSE
    BY <2>8, <2>i DEF Evicted, MayEvict, Undone, MayUndo
  <2>9. ASSUME SweepStopped PROVE FALSE
    BY <2>9, <2>i DEF SweepStopped
  <2>10. CASE UNCHANGED workspace
    BY <2>10
  <2> QED BY <1>1, <2>2, <2>3, <2>4, <2>5, <2>6, <2>7, <2>8, <2>9, <2>10
      DEF Next, RequestSteps, SpawnSteps, CleanerSteps, Ask, GetRefused, GetReuses, GetJoins, GetStarts,
          Wakes, Replies, Begins, Admitted, HoldsStore, Launches, Installs, Gives, Exits, Dies, Sweeps,
          TouchFails, EvictFails, UndoFails, SweepFails, SweepHoldsStore, Closes, Takes, vars
<1> QED BY <1>1, CoveredCorrect, PTL DEF Spec, CleanupSparesWorkers

-----------------------------------------------------------------------------
(* No process is forgotten.                                                *)

\* A process somebody will stop or uses, or one that is known to be forgotten.
Accounted(p) == Owned(p) \/ p \in forgotten

LEMMA OwnedParts ==
  ASSUME NEW p \in Spawns
  PROVE  Accounted(p) <=> \/ p \in Installed \/ Swept(p) \/ spawn[p].stage \in Working
                          \/ \E q \in Spawns : EvictedBy(q, p)
                          \/ \E r \in Requests : EndedBy(r, p)
                          \/ p \in forgotten
  BY DEF Accounted, Owned, Swept, EvictedBy, EndedBy

LEMMA OwnedPartsNext ==
  \A p \in Spawns :
     Accounted(p)' <=> \/ p \in Installed' \/ Swept(p)' \/ spawn'[p].stage \in Working
                       \/ \E q \in Spawns : EvictedBy(q, p)'
                       \/ \E r \in Requests : EndedBy(r, p)'
                       \/ p \in forgotten'
  BY DEF Accounted, Owned, Swept, EvictedBy, EndedBy

\* A step that moves one spawn task, or none, and pops no running worker.
LEMMA OwnedKept ==
  ASSUME PoolTypes, \A p \in Spawns : Running(p) => Accounted(p), NEW m, NEW to, Effect(m, to),
         m \in Spawns /\ spawn[m].stage \in Working =>
            to \in Working \/ ~Running(m) \/ m \in Installed',
         \A p \in Spawns : m \in Spawns /\ EvictedBy(m, p) =>
                              to \in {"created", "evicting"} \/ ~Running(p)',
         \A p \in Spawns : p \in Installed /\ Running(p)' => p \in Installed' \/ Swept(p)'
                              \/ \E r \in Requests : EndedBy(r, p)',
         \A p \in Spawns : Swept(p) /\ Running(p)' => Swept(p)' \/ p \in forgotten',
         \A p \in Spawns, r \in Requests : EndedBy(r, p) /\ Running(p)' => EndedBy(r, p)',
         forgotten \subseteq forgotten'
  PROVE  \A p \in Spawns : Running(p)' => Accounted(p)'
<1> SUFFICES ASSUME NEW p \in Spawns, Running(p)' PROVE Accounted(p)'
  OBVIOUS
<1>1. /\ \A q \in Spawns : /\ spawn'[q].evicted = spawn[q].evicted
                           /\ spawn'[q].stage = IF q = m THEN to ELSE spawn[q].stage
      /\ Running(p)
  BY DEF Effect, Fixed, Restaged, Quieter, Running
<1>2. Accounted(p)
  BY <1>1
<1>3. CASE p \in Installed
  BY <1>3, OwnedPartsNext
<1>4. CASE Swept(p)
  BY <1>4, OwnedPartsNext
<1>5. CASE spawn[p].stage \in Working
  BY <1>1, <1>5, OwnedPartsNext
<1>6. CASE \E q \in Spawns : EvictedBy(q, p)
  <2>1. PICK q \in Spawns : EvictedBy(q, p)
    BY <1>6
  <2>2. EvictedBy(q, p)'
    BY <1>1, <2>1 DEF EvictedBy
  <2> QED BY <2>2, OwnedPartsNext
<1>7. CASE \E r \in Requests : EndedBy(r, p)
  BY <1>7, OwnedPartsNext
<1>8. CASE p \in forgotten
  BY <1>8, OwnedPartsNext
<1> QED BY <1>2, <1>3, <1>4, <1>5, <1>6, <1>7, <1>8, OwnedParts

LEMMA OwnedStep ==
  ASSUME TypeOK, PoolInv, EveryProcessIsOwned, [Next]_vars PROVE EveryProcessIsOwned'
<1> USE DEF TypeOK
<1> HIDE DEF SpawnState, RequestState, CleanerState
<1> SUFFICES ASSUME closing' = "open" PROVE \A p \in Spawns : Running(p)' => Accounted(p)'
  BY DEF EveryProcessIsOwned, Accounted
<1>0. CASE Restarts
  <2>1. \A p \in Spawns : spawn'[p].process = "none"
    BY <1>0 DEF Restarts, Unused
  <2> QED BY <2>1 DEF Running
<1> SUFFICES ASSUME ~Restarts PROVE \A p \in Spawns : Running(p)' => Accounted(p)'
  BY <1>0
<1>o. closing = "open" /\ forgotten \subseteq forgotten'
  <2>1. ASSUME NEW r \in Requests, GetStarts(r) PROVE closing = "open" /\ forgotten \subseteq forgotten'
    <3>1. \E v \in Spawns \cup {None} :
            /\ Pops(request[r].key, v)
            /\ \/ NoPort(r, request[r].key, v)
               \/ \E p \in Spawns, n \in Ports : Creates(r, request[r].key, v, p, n)
      BY <2>1, StartsFacts
    <3> QED BY <3>1 DEF Pops, NoPort, Creates
  <2>2. CASE SweepFails
    BY <2>2 DEF SweepFails
  <2>3. CASE ~SweepFails /\ \A r \in Requests : ~GetStarts(r)
    <3>1. forgotten' = forgotten /\ closing = "open"
      BY <2>3 DEF Next, RequestSteps, SpawnSteps, CleanerSteps, Ask, GetRefused, GetReuses, GetJoins,
                counters, Wakes, Replies, Retired, RetireFails, Touches, TouchFails, Begins, Evicted,
                EvictFails, Admitted, HoldsStore, Prepares, Launches, Installs, Gives, Undone, UndoFails,
                Exits, Dies, Sweeps, SweepStopped, SweepHoldsStore, Prunes, Closes, Takes, Closed, vars
    <3> QED BY <3>1
  <2> QED BY <2>1, <2>2, <2>3
<1>p. Pool /\ \A p \in Spawns : Running(p) => Accounted(p)
  BY <1>o DEF PoolInv, EveryProcessIsOwned, Accounted
<1>n. None \notin Spawns
  BY DEF None, Spawns
\* Steps that pop no running worker and leave those who stop one to it.
<1>q. ASSUME Effect(None, "done"),
             \A p \in Spawns : p \in Installed /\ Running(p)' => p \in Installed' \/ Swept(p)'
                              \/ \E r \in Requests : EndedBy(r, p)',
             \A p \in Spawns : Swept(p) /\ Running(p)' => Swept(p)' \/ p \in forgotten',
             \A p \in Spawns, r \in Requests : EndedBy(r, p) /\ Running(p)' => EndedBy(r, p)'
      PROVE  \A p \in Spawns : Running(p)' => Accounted(p)'
  BY <1>o, <1>p, <1>q, <1>n, OwnedKept
<1>u. ASSUME Effect(None, "done"), UNCHANGED <<workers, cleaner>>,
             \A p \in Spawns, r \in Requests : EndedBy(r, p) /\ Running(p)' => EndedBy(r, p)'
      PROVE  \A p \in Spawns : Running(p)' => Accounted(p)'
  BY <1>q, <1>u DEF Installed, Swept
<1>t. ASSUME NEW r \in Requests, request[r].stage # "retiring",
             \A u \in Requests : u # r => request'[u] = request[u]
      PROVE  \A p \in Spawns, u \in Requests : EndedBy(u, p) => EndedBy(u, p)'
  BY <1>t DEF EndedBy
<1>e. ASSUME UNCHANGED request
      PROVE  \A p \in Spawns, u \in Requests : EndedBy(u, p) => EndedBy(u, p)'
  BY <1>e DEF EndedBy
<1>1. ASSUME NEW r \in Requests, Ask(r) \/ Wakes(r) \/ Touches(r) \/ TouchFails(r)
      PROVE  \A p \in Spawns : Running(p)' => Accounted(p)'
  <2>1. request[r].stage # "retiring" /\ \A u \in Requests : u # r => request'[u] = request[u]
    BY <1>1 DEF Ask, Wakes, Touches, TouchFails, Turned, RequestTypes
  <2>2. UNCHANGED <<workers, spawn, cleaner>>
    BY <1>1 DEF Ask, Wakes, Touches, TouchFails, pool
  <2> QED BY <1>t, <1>u, <2>1, <2>2, UnchangedEffect
<1>2. ASSUME NEW r \in Requests, GetRefused(r) \/ GetJoins(r) PROVE \A p \in Spawns : Running(p)' => Accounted(p)'
  <2>1. request[r].stage # "retiring" /\ \A u \in Requests : u # r => request'[u] = request[u]
    BY <1>2 DEF GetRefused, GetJoins, Getting, Turned, RequestTypes
  <2>2. UNCHANGED <<spawn, cleaner>> /\ request[r].key \in Keys
        /\ (UNCHANGED workers \/ workers' = Kept(request[r].key))
    BY <1>2 DEF GetRefused, GetJoins, Getting, pool, RequestTypes
  <2>3. \A p \in Spawns : p \in Installed /\ Running(p)' => p \in Installed'
    <3> SUFFICES ASSUME NEW k \in Keys, workers[k] \in Spawns, Running(workers[k])
                 PROVE  workers'[k] = workers[k]
      BY <2>2, <1>n DEF Installed, Running
    <3> QED BY <2>2, KeptFacts
  <2>4. Effect(None, "done") /\ \A p \in Spawns : Swept(p) => Swept(p)'
    BY <2>2, UnchangedEffect DEF Swept
  <2> QED BY <1>q, <1>t, <2>1, <2>3, <2>4
<1>3. ASSUME NEW r \in Requests, GetReuses(r) PROVE \A p \in Spawns : Running(p)' => Accounted(p)'
  <2>1. request[r].stage # "retiring" /\ \A u \in Requests : u # r => request'[u] = request[u]
    BY <1>3 DEF GetReuses, Getting, RequestTypes
  <2>2. UNCHANGED <<workers, cleaner>>
    BY <1>3 DEF GetReuses
  <2> QED BY <1>3, <1>t, <1>u, <2>1, <2>2, ReusesEffect
<1>4. ASSUME NEW r \in Requests, GetStarts(r) PROVE \A p \in Spawns : Running(p)' => Accounted(p)'
  <2>1. PICK v \in Spawns \cup {None} :
            /\ Pops(request[r].key, v)
            /\ \/ NoPort(r, request[r].key, v)
               \/ \E p \in Spawns, n \in Ports : Creates(r, request[r].key, v, p, n)
    BY <1>4, StartsFacts
  <2>0. CASE NoPort(r, request[r].key, v)
    <3>1. /\ UNCHANGED <<spawn, cleaner>> /\ v \in forgotten' \cup {None}
          /\ request[r].stage = "getting" /\ \A u \in Requests : u # r => request'[u] = request[u]
      BY <1>4, <2>0, <2>1 DEF NoPort, Pops, Turned, RequestTypes, GetStarts, Getting
    <3>2. \A p \in Spawns, u \in Requests : EndedBy(u, p) => EndedBy(u, p)'
      BY <1>t, <3>1
    <3>3. \A p \in Spawns : (Swept(p) => Swept(p)') /\ \A q \in Spawns : EvictedBy(q, p) => EvictedBy(q, p)'
      BY <3>1 DEF Swept, EvictedBy
    <3>4. ASSUME NEW p \in Spawns, Running(p), p \in Installed PROVE p \in Installed' \/ p \in forgotten'
      BY <1>p, <1>n, <2>1, <3>1, <3>4, PopFacts
    <3> SUFFICES ASSUME NEW p \in Spawns, Running(p)' PROVE Accounted(p)'
      OBVIOUS
    <3>5. Running(p) /\ Accounted(p) /\ spawn'[p].stage = spawn[p].stage
      BY <1>p, <3>1 DEF Running
    <3> QED BY <1>o, <3>2, <3>3, <3>4, <3>5, OwnedParts, OwnedPartsNext
  <2> SUFFICES ASSUME ~NoPort(r, request[r].key, v) PROVE \A p \in Spawns : Running(p)' => Accounted(p)'
    BY <2>0
  <2>2. PICK m \in Spawns, n \in Ports : Creates(r, request[r].key, v, m, n)
    BY <2>1
  <2>3. /\ spawn[m].stage = "unused" /\ spawn' = [spawn EXCEPT ![m] = Created(request[r].key, n, v)]
        /\ request[r].key \in Keys /\ cleaner' = cleaner
    BY <2>1, <2>2 DEF Creates, Pops
  <2>4. /\ \A q \in Spawns : q # m => spawn'[q] = spawn[q]
        /\ spawn'[m].stage = "created" /\ spawn'[m].evicted = v /\ spawn'[m].process = "none"
    BY <2>3, CreatedType DEF PoolTypes
  <2>5. request[r].stage # "retiring" /\ \A u \in Requests : u # r => request'[u] = request[u]
    BY <1>4, <2>2 DEF GetStarts, Getting, Creates, RequestTypes
  <2>6. \A p \in Spawns, u \in Requests : EndedBy(u, p) => EndedBy(u, p)'
    BY <1>t, <2>5
  <2> SUFFICES ASSUME NEW p \in Spawns, Running(p)' PROVE Accounted(p)'
    OBVIOUS
  <2>7. p # m /\ Running(p) /\ Accounted(p)
    BY <1>p, <2>4 DEF Running
  <2>8. CASE p \in Installed
    <3>1. CASE p = v
      <4>1. EvictedBy(m, p)'
        BY <2>4, <3>1 DEF EvictedBy
      <4> QED BY <4>1, OwnedPartsNext
    <3>2. CASE p # v
      <4>1. p \in Installed'
        BY <1>p, <2>1, <2>7, <2>8, <3>2, PopFacts
      <4> QED BY <4>1, OwnedPartsNext
    <3> QED BY <3>1, <3>2
  <2>9. CASE Swept(p)
    <3>1. Swept(p)'
      BY <2>3, <2>9 DEF Swept
    <3> QED BY <3>1, OwnedPartsNext
  <2>10. CASE spawn[p].stage \in Working
    BY <2>4, <2>7, <2>10, OwnedPartsNext
  <2>11. CASE \E q \in Spawns : EvictedBy(q, p)
    <3>1. PICK q \in Spawns : EvictedBy(q, p)
      BY <2>11
    <3>2. EvictedBy(q, p)'
      BY <2>3, <2>4, <3>1 DEF EvictedBy
    <3> QED BY <3>2, OwnedPartsNext
  <2>12. CASE \E u \in Requests : EndedBy(u, p)
    BY <2>6, <2>12, OwnedPartsNext
  <2>13. CASE p \in forgotten
    BY <1>o, <2>13, OwnedPartsNext
  <2> QED BY <2>7, <2>8, <2>9, <2>10, <2>11, <2>12, <2>13, OwnedParts
<1>5. ASSUME NEW r \in Requests, Replies(r) PROVE \A p \in Spawns : Running(p)' => Accounted(p)'
  <2>1. request[r].stage = "calling" /\ UNCHANGED cleaner
    BY <1>5 DEF Replies
  <2>2. \A u \in Requests : u # r => request'[u] = request[u]
    BY <1>5 DEF Replies, RequestTypes
  <2>3. \/ UNCHANGED workers
        \/ /\ workers[request[r].key] = request[r].worker
           /\ workers' = [workers EXCEPT ![request[r].key] = None]
           /\ request'[r].stage = "retiring" /\ request'[r].worker = request[r].worker
    BY <1>5 DEF Replies, RequestTypes, RequestState
  <2>4. \A p \in Spawns : p \in Installed => p \in Installed' \/ \E u \in Requests : EndedBy(u, p)'
    <3>1. CASE UNCHANGED workers
      BY <3>1 DEF Installed
    <3>2. CASE /\ workers[request[r].key] = request[r].worker
               /\ workers' = [workers EXCEPT ![request[r].key] = None]
               /\ request'[r].stage = "retiring" /\ request'[r].worker = request[r].worker
      <4>1. \A k \in Keys : k # request[r].key => workers'[k] = workers[k]
        BY <3>2 DEF PoolTypes
      <4>2. \A k \in Keys : workers[k] = request[r].worker \/ workers'[k] = workers[k]
        BY <3>2, <4>1
      <4> QED BY <3>2, <4>2 DEF Installed, EndedBy
    <3> QED BY <2>3, <3>1, <3>2
  <2>5. \A p \in Spawns : Swept(p) => Swept(p)'
    BY <2>1 DEF Swept
  <2> QED BY <1>5, <1>q, <1>t, <2>1, <2>2, <2>4, <2>5, RepliesEffect
<1>6. ASSUME NEW r \in Requests, Retired(r) \/ RetireFails(r) PROVE \A p \in Spawns : Running(p)' => Accounted(p)'
  <2>1. UNCHANGED <<workers, spawn, cleaner>> /\ ~Running(request[r].worker)
    BY <1>6 DEF Retired, RetireFails, Gone, Running
  <2>2. \A u \in Requests : u # r => request'[u] = request[u]
    BY <1>6 DEF Retired, RetireFails, Turned, RequestTypes
  <2>3. \A p \in Spawns, u \in Requests : EndedBy(u, p) /\ Running(p)' => EndedBy(u, p)'
    BY <2>1, <2>2 DEF EndedBy, Running
  <2> QED BY <1>u, <2>1, <2>3, UnchangedEffect
<1>7. ASSUME NEW p \in Spawns, Exits(p) \/ Dies(p) PROVE \A q \in Spawns : Running(q)' => Accounted(q)'
  <2>1. UNCHANGED <<workers, request, cleaner>>
    BY <1>7 DEF Exits, Dies
  <2> QED BY <1>7, <1>e, <1>u, <2>1, ProcessEffect
\* Steps of a spawn task.
<1>m. ASSUME NEW p \in Spawns, NEW from, NEW to, Advances(p, from, to), UNCHANGED <<cleaner, request>>,
             from \cap Working = {} \/ to \in Working \/ ~Running(p),
             from \cap {"created", "evicting"} = {} \/ to = "evicting"
               \/ spawn[p].evicted \notin Spawns \/ ~Running(spawn[p].evicted),
             UNCHANGED workers
      PROVE  \A q \in Spawns : Running(q)' => Accounted(q)'
  <2>1. Effect(p, to) /\ spawn[p].stage \in from
    BY <1>m DEF Advances
  <2>2. \A q \in Spawns : Running(q)' => Running(q)
    BY <2>1 DEF Effect, Quieter, Running
  <2>3. \A q \in Spawns : EvictedBy(p, q) => to \in {"created", "evicting"} \/ ~Running(q)'
    BY <1>m, <2>1, <2>2 DEF EvictedBy
  <2>4. spawn[p].stage \in Working => to \in Working \/ ~Running(p)
    BY <1>m, <2>1
  <2>5. /\ Installed' = Installed /\ \A q \in Spawns : Swept(q) => Swept(q)'
        /\ \A q \in Spawns, u \in Requests : EndedBy(u, q) => EndedBy(u, q)'
    BY <1>m, <1>e DEF Installed, Swept
  <2> QED BY <1>o, <1>p, <2>1, <2>3, <2>4, <2>5, OwnedKept
<1>8. ASSUME NEW p \in Spawns, Begins(p) PROVE \A q \in Spawns : Running(q)' => Accounted(q)'
  <2>1. PICK to \in {"queued", "evicting"} :
           Advances(p, {"created"}, to) /\ (to = "queued" => spawn[p].evicted = None)
    BY <1>8, BeginsEffect
  <2>2. UNCHANGED <<workers, request, cleaner>>
    BY <1>8 DEF Begins
  <2> QED BY <1>m, <1>n, <2>1, <2>2 DEF Working
<1>9. ASSUME NEW p \in Spawns, Evicted(p) \/ EvictFails(p) PROVE \A q \in Spawns : Running(q)' => Accounted(q)'
  <2>1. UNCHANGED <<workers, request, cleaner>> /\ ~Running(spawn[p].evicted)
    BY <1>9 DEF Evicted, EvictFails, MayEvict, Gone, Running
  <2> QED BY <1>9, <1>m, <2>1, EvictedEffect, EvictFailsEffect DEF Working
<1>10. ASSUME NEW p \in Spawns, Admitted(p) \/ HoldsStore(p) \/ Gives(p)
       PROVE  \A q \in Spawns : Running(q)' => Accounted(q)'
  <2>1. UNCHANGED <<workers, request, cleaner>>
    BY <1>10 DEF Admitted, HoldsStore, Gives
  <2>2. Advances(p, {"queued"}, "admitted") \/ Advances(p, {"admitted"}, "preparing")
        \/ Advances(p, {"starting"}, "undoing")
    BY <1>10, AdmittedEffect, HoldsStoreEffect, GivesEffect
  <2> QED BY <1>m, <2>1, <2>2 DEF Working
<1>11. ASSUME NEW p \in Spawns, Prepares(p) \/ Undone(p) \/ UndoFails(p)
       PROVE  \A q \in Spawns : Running(q)' => Accounted(q)'
  <2>1. UNCHANGED <<workers, request, cleaner>>
    BY <1>11 DEF Prepares, MayPrepare, Undone, UndoFails, MayUndo
  <2>2. ~Running(p)
    BY <1>11, <1>p DEF Prepares, MayPrepare, Undone, UndoFails, MayUndo, Gone, Running, Pool, Unlaunched, Early
  <2>3. \/ Advances(p, {"preparing"}, "launching") \/ Advances(p, {"preparing"}, "failed")
        \/ Advances(p, {"undoing"}, "failed")
    BY <1>11, PreparesEffect, UndoneEffect, UndoFailsEffect
  <2> QED BY <1>m, <2>1, <2>2, <2>3 DEF Working
<1>12. ASSUME NEW p \in Spawns, Launches(p) PROVE \A q \in Spawns : Running(q)' => Accounted(q)'
  <2>1. UNCHANGED <<workers, request, cleaner>> /\ spawn[p].stage = "launching"
    BY <1>12 DEF Launches
  <2>2. ~Running(p)
    BY <1>p, <2>1 DEF Running, Pool, Unlaunched, Early
  <2>3. CASE Advances(p, {"launching"}, "failed")
    BY <1>m, <2>1, <2>2, <2>3 DEF Working
  <2>4. CASE /\ Fixed /\ Restaged(p, "starting")
             /\ spawn'[p].process = "up"
             /\ \A q \in Spawns : q # p => spawn'[q].process = spawn[q].process
    <3> SUFFICES ASSUME NEW q \in Spawns, Running(q)' PROVE Accounted(q)'
      OBVIOUS
    <3>1. CASE q = p
      <4>1. spawn'[q].stage \in Working
        BY <2>4, <3>1 DEF Restaged, Working
      <4> QED BY <4>1, OwnedPartsNext
    <3>2. CASE q # p
      <4>1. Running(q) /\ Accounted(q)
        BY <1>p, <2>4, <3>2 DEF Running
      <4>2. /\ Installed' = Installed /\ (Swept(q) => Swept(q)')
            /\ \A u \in Requests : EndedBy(u, q) => EndedBy(u, q)'
            /\ \A u \in Spawns : EvictedBy(u, q) => EvictedBy(u, q)'
            /\ spawn'[q].stage = spawn[q].stage
        BY <2>1, <2>4, <3>2 DEF Installed, Swept, EndedBy, EvictedBy, Restaged, Fixed
      <4> QED BY <1>o, <4>1, <4>2, OwnedParts, OwnedPartsNext
    <3> QED BY <3>1, <3>2
  <2> QED BY <1>12, <2>3, <2>4, LaunchesEffect
<1>13. ASSUME NEW p \in Spawns, Installs(p) PROVE \A q \in Spawns : Running(q)' => Accounted(q)'
  <2>1. UNCHANGED <<request, cleaner>> /\ workers' = [workers EXCEPT ![spawn[p].key] = p]
    BY <1>13 DEF Installs
  <2>2. Effect(p, "done") /\ spawn[p].stage = "starting" /\ p \in UnderWay
    BY <1>13, InstallsEffect DEF Advances, UnderWay, Working
  <2>3. spawn[p].key \in Keys /\ workers[spawn[p].key] = None
    BY <1>p, <1>n, <2>2 DEF Pool, Tasked, PoolTypes, UnderWay
  <2>4. p \in Installed' /\ \A q \in Spawns : q \in Installed => q \in Installed'
    BY <1>n, <2>1, <2>3 DEF Installed, PoolTypes
  <2>5. /\ \A q \in Spawns : Swept(q) => Swept(q)'
        /\ \A q \in Spawns : ~EvictedBy(p, q)
    BY <2>1, <2>2 DEF Swept, EvictedBy
  <2> QED BY <1>e, <1>o, <1>p, <2>1, <2>2, <2>4, <2>5, OwnedKept
<1>14. ASSUME Sweeps PROVE \A p \in Spawns : Running(p)' => Accounted(p)'
  <2>1. PICK expired \in SUBSET Idle :
          /\ workers' = [k \in Keys |-> IF workers[k] \in expired THEN None ELSE workers[k]]
          /\ StopsNext(expired)
    BY <1>14 DEF Sweeps
  <2>2. expired \subseteq Spawns
    BY DEF Idle, Installed, PoolTypes
  <2>3. /\ Effect(None, "done")
        /\ cleaner'.left \cup ({cleaner'.now} \ {None}) = expired
    BY <2>1, <2>2, StopsNextEffect
  <2>4. \A p \in Spawns : p \in Installed => p \in Installed' \/ Swept(p)'
    BY <2>1, <2>3 DEF Installed, Swept
  <2>5. \A p \in Spawns : ~Swept(p)
    BY <1>14, <1>p, <1>n DEF Sweeps, Pool, Orderly, Swept
  <2>6. UNCHANGED request
    BY <1>14 DEF Sweeps
  <2> QED BY <1>e, <1>q, <2>3, <2>4, <2>5, <2>6
<1>15. ASSUME SweepStopped PROVE \A p \in Spawns : Running(p)' => Accounted(p)'
  <2>1. /\ StopsNext(cleaner.left) /\ cleaner.left \subseteq Spawns /\ ~Running(cleaner.now)
        /\ UNCHANGED <<workers, request>>
    BY <1>15 DEF SweepStopped, CleanerTypes, CleanerState, Gone, Running
  <2>2. /\ Effect(None, "done")
        /\ cleaner'.left \cup ({cleaner'.now} \ {None}) = cleaner.left
    BY <2>1, StopsNextEffect
  <2>3. \A p \in Spawns : Running(p)' => Running(p)
    BY <2>2 DEF Effect, Quieter, Running
  <2>4. \A p \in Spawns : Swept(p) /\ Running(p)' => Swept(p)'
    BY <2>1, <2>2, <2>3 DEF Swept
  <2>5. Installed' = Installed
    BY <2>1 DEF Installed
  <2> QED BY <1>e, <1>q, <2>1, <2>2, <2>4, <2>5
<1>15f. ASSUME SweepFails PROVE \A p \in Spawns : Running(p)' => Accounted(p)'
  <2>1. /\ UNCHANGED <<workers, spawn, request>> /\ ~Running(cleaner.now)
        /\ cleaner.left \subseteq forgotten'
    BY <1>15f DEF SweepFails, Gone, Running
  <2>2. \A p \in Spawns : Swept(p) /\ Running(p)' => p \in forgotten'
    BY <2>1 DEF Swept, Running
  <2>3. Installed' = Installed
    BY <2>1 DEF Installed
  <2> QED BY <1>e, <1>q, <2>1, <2>2, <2>3, UnchangedEffect
<1>16. ASSUME SweepHoldsStore \/ Prunes PROVE \A p \in Spawns : Running(p)' => Accounted(p)'
  <2>1. UNCHANGED <<workers, spawn, request>> /\ \A p \in Spawns : Swept(p) => Swept(p)'
    BY <1>16, <1>p, <1>n DEF SweepHoldsStore, Prunes, MayPrune, pool, Swept, Pool, Orderly, CleanerTypes, CleanerState
  <2>2. Installed' = Installed
    BY <2>1 DEF Installed
  <2> QED BY <1>e, <1>q, <2>1, <2>2, UnchangedEffect
<1>17. ASSUME Closes \/ Takes \/ Closed PROVE FALSE
  BY <1>17 DEF Closes, Takes, Closed
<1>18. ASSUME UNCHANGED vars PROVE \A p \in Spawns : Running(p)' => Accounted(p)'
  BY <1>18, <1>e, <1>u, UnchangedEffect DEF vars
<1> QED BY <1>1, <1>2, <1>3, <1>4, <1>5, <1>6, <1>7, <1>8, <1>9, <1>10, <1>11, <1>12, <1>13, <1>14, <1>15,
           <1>16, <1>17, <1>18, <1>15f
        DEF Next, RequestSteps, SpawnSteps, CleanerSteps

\* Until the supervisor closes, a process that runs is installed, being started, or about to
\* be stopped by somebody who has not forgotten it: it is handed over without a gap, also
\* when a `_stop` raises.  The exceptions are counted out one by one: a worker popped by a
\* request that then finds no port, and one a sweep has not come to when it fails.
THEOREM NoneIsForgotten == Spec => []EveryProcessIsOwned
<1>1. Init => EveryProcessIsOwned
  <2> SUFFICES ASSUME Init PROVE EveryProcessIsOwned
    OBVIOUS
  <2>1. \A p \in Spawns : spawn[p].process = "none"
    BY DEF Init, Unused
  <2> QED BY <2>1 DEF EveryProcessIsOwned, Running
<1>2. ASSUME PoolInd, EveryProcessIsOwned, [Next]_vars PROVE EveryProcessIsOwned'
  BY <1>2, OwnedStep DEF PoolInd
<1> QED BY <1>1, <1>2, PoolIndCorrect, PTL DEF Spec
-----------------------------------------------------------------------------
(* Who waits for whom.                                                     *)

\* The workspace lock is held by the cleaner while it prunes or by the one spawn task that
\* prepares its directory.
HeldInTurn ==
    /\ \/ store = Free
       \/ store.owner = Cleaner /\ cleaner.stage = "pruning"
       \/ \E p \in Spawns : store.owner = Spawner(p) /\ spawn[p].stage = "preparing"
    /\ \A p \in Spawns : spawn[p].stage = "preparing" => store.owner = Spawner(p)
\* What a spawn task replaces was installed once and never runs again, and a process
\* somebody waits for has been told to end, also while the supervisor closes.
Replaces(p) == spawn[p].stage \in {"created", "evicting"} /\ spawn[p].evicted # None
Told ==
    \A p \in Spawns :
        /\ Replaces(p) => spawn[spawn[p].evicted].stage = "done"
        /\ spawn[p].stage = "evicting" =>
              spawn[p].evicted # None /\ spawn[spawn[p].evicted].process # "up"
        /\ spawn[p].stage = "undoing" => spawn[p].process # "up"

LEMMA HeldKept ==
  ASSUME HeldInTurn, UNCHANGED store, cleaner.stage = "pruning" => cleaner'.stage = "pruning",
         \A p \in Spawns : spawn'[p].stage = "preparing" <=> spawn[p].stage = "preparing"
  PROVE  HeldInTurn'
  BY DEF HeldInTurn, Free

\* Whoever frees the lock was the only one to use it.
LEMMA HeldFreed ==
  ASSUME store' = Free, \A p \in Spawns : spawn'[p].stage # "preparing"
  PROVE  HeldInTurn'
  BY DEF HeldInTurn, Free

LEMMA OwnersDiffer ==
  /\ \A p \in Spawns, q \in Spawns : Spawner(p) = Spawner(q) => p = q
  /\ \A p \in Spawns : Spawner(p) # Cleaner /\ Spawner(p) # Nobody
  /\ Cleaner # Nobody /\ Free.owner = Nobody
  BY DEF Spawner, Cleaner, Nobody, Free

LEMMA ToldKept ==
  ASSUME TypeOK, Told, Fixed,
         \A p \in Spawns : spawn[p].stage = "done" => spawn'[p].stage = "done",
         \A p \in Spawns : spawn'[p].stage = "created" => spawn[p].stage = "created",
         \A p \in Spawns : spawn'[p].stage = "evicting" =>
            \/ spawn[p].stage = "evicting"
            \/ /\ spawn[p].stage = "created" /\ spawn[p].evicted # None
               /\ spawn'[spawn[p].evicted].process # "up",
         \A p \in Spawns : spawn'[p].stage = "undoing" =>
            spawn[p].stage = "undoing" \/ spawn'[p].process # "up",
         \A p \in Spawns : spawn'[p].process = "up" =>
            spawn[p].process = "up" \/ spawn[p].stage \notin {"done", "undoing"}
  PROVE  Told'
<1>1. \A p \in Spawns : spawn[p].evicted \in Spawns \cup {None} /\ spawn'[p].evicted = spawn[p].evicted
  BY DEF TypeOK, PoolTypes, SpawnState, Fixed
<1>2. SUFFICES ASSUME NEW p \in Spawns
               PROVE  /\ Replaces(p)' => spawn'[spawn'[p].evicted].stage = "done"
                      /\ spawn'[p].stage = "evicting" =>
                            spawn'[p].evicted # None /\ spawn'[spawn'[p].evicted].process # "up"
                      /\ spawn'[p].stage = "undoing" => spawn'[p].process # "up"
  BY DEF Told
<1>3. Replaces(p)' => Replaces(p) /\ spawn'[spawn'[p].evicted].stage = "done"
  BY <1>1 DEF Replaces, Told
<1>4. ASSUME spawn'[p].stage = "evicting"
      PROVE  spawn'[p].evicted # None /\ spawn'[spawn'[p].evicted].process # "up"
  <2>1. CASE spawn[p].stage = "evicting"
    <3>1. /\ spawn[p].evicted \in Spawns
          /\ spawn[spawn[p].evicted].process # "up" /\ spawn[spawn[p].evicted].stage = "done"
      BY <1>1, <2>1 DEF Told, Replaces
    <3>2. PICK w \in Spawns : w = spawn[p].evicted
      BY <3>1
    <3>3. spawn'[w].process # "up"
      BY <3>1, <3>2
    <3> QED BY <1>1, <3>2, <3>3 DEF None, Spawns
  <2> QED BY <1>1, <1>4, <2>1
<1>5. spawn'[p].stage = "undoing" => spawn'[p].process # "up"
  BY DEF Told
<1> QED BY <1>3, <1>4, <1>5

LEMMA WaitsStep ==
  ASSUME TypeOK, HeldInTurn, Told, [Next]_vars
  PROVE  HeldInTurn' /\ Told'
<1> HIDE DEF SpawnState
<1>t. PoolTypes /\ RequestTypes /\ CleanerTypes
  BY DEF TypeOK
<1>n. None \notin Spawns
  BY DEF None, Spawns
\* A spawn task or nobody moves on; no process starts to run.
<1>m. ASSUME NEW p, NEW to, Effect(p, to), p \in Spawns => spawn[p].stage # "done",
             p \in Spawns => to \notin {"created", "evicting"},
             p \in Spawns /\ to = "undoing" => spawn'[p].process # "up"
      PROVE  Told'
  BY <1>m, ToldKept DEF Effect, Fixed, Restaged, Quieter, Running
<1>e. ASSUME Effect(None, "done") PROVE Told'
  BY <1>e, <1>m, <1>n
<1>h. ASSUME NEW p, NEW to, Effect(p, to), UNCHANGED store, cleaner.stage = "pruning" => cleaner'.stage = "pruning",
             p \in Spawns => to # "preparing" /\ spawn[p].stage # "preparing"
      PROVE  HeldInTurn'
  BY <1>h, HeldKept DEF Effect, Restaged
<1>q. ASSUME Effect(None, "done"), UNCHANGED store, cleaner.stage = "pruning" => cleaner'.stage = "pruning"
      PROVE  HeldInTurn' /\ Told'
  BY <1>q, <1>e, <1>h, <1>n
<1>o. UNCHANGED spawn => Effect(None, "done")
  BY <1>t, UnchangedEffect
\* Nobody prepares a directory while another holds the lock.
<1>f. \A p \in Spawns : store = Free \/ store.owner = Cleaner => spawn[p].stage # "preparing"
  BY OwnersDiffer DEF HeldInTurn
<1>1. ASSUME NEW r \in Requests, \/ Ask(r) \/ GetRefused(r) \/ GetJoins(r) \/ Wakes(r)
                                 \/ Retired(r) \/ RetireFails(r) \/ Touches(r) \/ TouchFails(r)
      PROVE  HeldInTurn' /\ Told'
  <2>1. UNCHANGED <<spawn, store, cleaner>>
    BY <1>1 DEF Ask, GetRefused, GetJoins, Wakes, Retired, RetireFails, Touches, TouchFails, pool
  <2> QED BY <1>o, <1>q, <2>1
<1>2. ASSUME NEW r \in Requests, GetReuses(r) \/ Replies(r) PROVE HeldInTurn' /\ Told'
  <2>1. UNCHANGED <<store, cleaner>>
    BY <1>2 DEF GetReuses, Replies
  <2> QED BY <1>2, <1>t, <1>q, <2>1, ReusesEffect, RepliesEffect
<1>3. ASSUME NEW r \in Requests, GetStarts(r) PROVE HeldInTurn' /\ Told'
  <2>1. PICK v \in Spawns \cup {None} :
          /\ Pops(request[r].key, v)
          /\ \/ NoPort(r, request[r].key, v)
             \/ \E p \in Spawns, free \in Ports : Creates(r, request[r].key, v, p, free)
    BY <1>3, <1>t, StartsFacts
  <2>2. UNCHANGED <<store, cleaner>> /\ request[r].key \in Keys
    BY <2>1 DEF Pops
  <2>3. CASE NoPort(r, request[r].key, v)
    BY <1>o, <1>q, <2>2, <2>3 DEF NoPort
  <2>4. CASE \E p \in Spawns, free \in Ports : Creates(r, request[r].key, v, p, free)
    <3>1. PICK p \in Spawns, free \in Ports : Creates(r, request[r].key, v, p, free)
      BY <2>4
    <3>2. /\ \A q \in Spawns : q # p => spawn'[q] = spawn[q]
          /\ spawn[p].stage = "unused" /\ spawn'[p] = Created(request[r].key, free, v)
      BY <1>t, <3>1 DEF Creates, PoolTypes
    <3>3. spawn'[p].stage = "created" /\ spawn'[p].evicted = v /\ spawn'[p].process = "none"
      BY <2>2, <3>2, CreatedType
    <3>4. v # None => v \in Spawns /\ v # p /\ spawn[v].stage = "done"
      BY <1>t, <2>1, <3>2 DEF Pops, Installed, PoolTypes
    <3>5. HeldInTurn'
      BY <2>2, <3>2, <3>3, HeldKept
    <3>6. ASSUME NEW q \in Spawns
          PROVE  /\ Replaces(q)' => spawn'[spawn'[q].evicted].stage = "done"
                 /\ spawn'[q].stage = "evicting" =>
                       spawn'[q].evicted # None /\ spawn'[spawn'[q].evicted].process # "up"
                 /\ spawn'[q].stage = "undoing" => spawn'[q].process # "up"
      <4>1. CASE q = p
        BY <3>2, <3>3, <3>4, <4>1 DEF Replaces
      <4>2. CASE q # p
        <5>1. spawn'[q] = spawn[q] /\ (Replaces(q)' <=> Replaces(q))
          BY <3>2, <4>2 DEF Replaces
        <5>2. spawn[q].evicted \in Spawns \cup {None}
          BY <1>t DEF PoolTypes, SpawnState
        <5>3. Replaces(q) => spawn'[spawn[q].evicted] = spawn[spawn[q].evicted]
          BY <3>2, <5>2 DEF Told, Replaces
        <5> QED BY <5>1, <5>3 DEF Told, Replaces
      <4> QED BY <4>1, <4>2
    <3> QED BY <3>5, <3>6 DEF Told
  <2> QED BY <2>1, <2>3, <2>4
<1>4. ASSUME NEW p \in Spawns, Exits(p) \/ Dies(p) PROVE HeldInTurn' /\ Told'
  <2>1. UNCHANGED <<store, cleaner>>
    BY <1>4 DEF Exits, Dies
  <2> QED BY <1>4, <1>t, <1>q, <2>1, ProcessEffect
<1>5. ASSUME NEW p \in Spawns, Begins(p) PROVE HeldInTurn' /\ Told'
  <2>1. PICK to \in {"queued", "evicting"} :
           Advances(p, {"created"}, to) /\ (to = "queued" => spawn[p].evicted = None)
    BY <1>5, <1>t, BeginsEffect
  <2>2. UNCHANGED <<store, cleaner>> /\ Effect(p, to) /\ spawn[p].stage = "created"
    BY <1>5, <2>1 DEF Begins, Advances
  <2>3. HeldInTurn'
    BY <1>h, <2>1, <2>2
  <2>4. CASE to = "queued"
    BY <1>m, <2>2, <2>3, <2>4
  <2>5. CASE to = "evicting"
    <3>1. spawn[p].evicted # None
      <4>1. SUFFICES ASSUME spawn[p].evicted = None PROVE FALSE
        OBVIOUS
      <4>2. spawn' = [spawn EXCEPT ![p].stage = "queued"]
        BY <1>5, <4>1 DEF Begins
      <4>3. spawn'[p].stage = "queued"
        BY <1>t, <4>2 DEF PoolTypes, SpawnState
      <4> QED BY <2>2, <2>5, <4>3 DEF Effect, Restaged
    <3>2. spawn[p].evicted \in Spawns /\ spawn[spawn[p].evicted].stage = "done"
      BY <1>t, <2>2, <3>1 DEF Told, Replaces, PoolTypes, SpawnState
    <3>3. spawn'[spawn[p].evicted].process # "up"
      <4> PICK w \in Spawns : w = spawn[p].evicted
        BY <3>2
      <4>1. spawn' = [Asked(spawn, w) EXCEPT ![p].stage = "evicting"] /\ w # p
        BY <1>5, <2>2, <3>1, <3>2 DEF Begins
      <4>2. spawn'[w].process = Asked(spawn, w)[w].process
        BY <1>t, <4>1 DEF Asked, PoolTypes
      <4>3. Asked(spawn, w)[w].process # "up"
        BY <1>t, AskedType DEF PoolTypes
      <4> QED BY <4>2, <4>3
    <3>4. Told'
      BY <1>n, <2>2, <2>5, <3>1, <3>3, ToldKept DEF Effect, Fixed, Restaged, Quieter, Running
    <3> QED BY <2>3, <3>4
  <2> QED BY <2>1, <2>4, <2>5
<1>6. ASSUME NEW p \in Spawns, \/ Evicted(p) \/ EvictFails(p) \/ Admitted(p) \/ Installs(p)
                                \/ Undone(p) \/ UndoFails(p)
      PROVE  HeldInTurn' /\ Told'
  <2>1. UNCHANGED <<store, cleaner>>
    BY <1>6 DEF Evicted, EvictFails, Admitted, Installs, Undone, UndoFails
  <2>2. \/ Advances(p, {"evicting"}, "queued") \/ Advances(p, {"queued"}, "admitted")
        \/ Advances(p, {"starting"}, "done") \/ Advances(p, {"undoing"}, "failed")
        \/ Advances(p, {"evicting"}, "failed")
    BY <1>6, <1>t, EvictedEffect, EvictFailsEffect, AdmittedEffect, InstallsEffect, UndoneEffect, UndoFailsEffect
  <2> QED BY <1>h, <1>m, <2>1, <2>2 DEF Advances
<1>7. ASSUME NEW p \in Spawns, Gives(p) PROVE HeldInTurn' /\ Told'
  <2>1. UNCHANGED <<store, cleaner>> /\ Effect(p, "undoing") /\ spawn[p].stage = "starting"
    BY <1>7, <1>t, GivesEffect DEF Gives, Advances
  <2>2. spawn'[p].process # "up"
    <3>1. spawn' = [Asked(spawn, p) EXCEPT ![p].stage = "undoing"]
      BY <1>7 DEF Gives
    <3>2. spawn'[p].process = Asked(spawn, p)[p].process
      BY <1>t, <3>1 DEF Asked, PoolTypes
    <3>3. Asked(spawn, p)[p].process # "up"
      BY <1>t, AskedType DEF PoolTypes
    <3> QED BY <3>2, <3>3
  <2> QED BY <1>h, <1>m, <2>1, <2>2
<1>8. ASSUME NEW p \in Spawns, HoldsStore(p) PROVE HeldInTurn' /\ Told'
  <2>1. Effect(p, "preparing") /\ spawn[p].stage = "admitted"
    BY <1>8, <1>t, HoldsStoreEffect DEF Advances
  <2>2. store = Free /\ store'.owner = Spawner(p)
    BY <1>8 DEF HoldsStore, MayHold
  <2>3. \A q \in Spawns : spawn'[q].stage = "preparing" <=> q = p
    BY <1>f, <2>1, <2>2 DEF Effect, Restaged
  <2>4. HeldInTurn'
    BY <2>2, <2>3 DEF HeldInTurn
  <2> QED BY <1>m, <2>1, <2>4
<1>9. ASSUME NEW p \in Spawns, Prepares(p) PROVE HeldInTurn' /\ Told'
  <2>1. PICK to \in {"launching", "failed"} : Effect(p, to) /\ spawn[p].stage = "preparing"
    BY <1>9, <1>t, PreparesEffect DEF Advances
  <2>2. store.owner = Spawner(p) /\ store' = Free
    BY <1>9 DEF Prepares, MayPrepare
  <2>3. \A q \in Spawns : spawn'[q].stage # "preparing"
    BY <2>1, <2>2, OwnersDiffer DEF Effect, Restaged, HeldInTurn
  <2> QED BY <1>m, <2>1, <2>2, <2>3, HeldFreed
<1>10. ASSUME NEW p \in Spawns, Launches(p) PROVE HeldInTurn' /\ Told'
  <2>1. UNCHANGED <<store, cleaner>> /\ spawn[p].stage = "launching"
    BY <1>10 DEF Launches
  <2>2. CASE Advances(p, {"launching"}, "failed")
    BY <1>h, <1>m, <2>1, <2>2 DEF Advances
  <2>3. CASE /\ Fixed /\ Restaged(p, "starting")
             /\ \A q \in Spawns : q # p => spawn'[q].process = spawn[q].process
    <3>1. HeldInTurn'
      BY <2>1, <2>3, HeldKept DEF Restaged
    <3>2. Told'
      BY <2>1, <2>3, ToldKept DEF Restaged
    <3> QED BY <3>1, <3>2
  <2> QED BY <1>10, <1>t, <2>2, <2>3, LaunchesEffect
<1>11. ASSUME Sweeps \/ SweepStopped PROVE HeldInTurn' /\ Told'
  <2>1. PICK left \in SUBSET Spawns : StopsNext(left)
    BY <1>11, <1>t DEF Sweeps, SweepStopped, Idle, Installed, PoolTypes, CleanerTypes, CleanerState
  <2>2. UNCHANGED store /\ cleaner.stage # "pruning"
    BY <1>11 DEF Sweeps, SweepStopped
  <2> QED BY <1>t, <1>q, <2>1, <2>2, StopsNextEffect
<1>11f. ASSUME SweepFails PROVE HeldInTurn' /\ Told'
  <2>1. UNCHANGED <<spawn, store>> /\ cleaner.stage # "pruning"
    BY <1>11f DEF SweepFails
  <2> QED BY <1>o, <1>q, <2>1
<1>12. ASSUME SweepHoldsStore PROVE HeldInTurn' /\ Told'
  <2>1. /\ UNCHANGED spawn /\ store = Free /\ store'.owner = Cleaner
        /\ cleaner' = [cleaner EXCEPT !.stage = "pruning"]
    BY <1>12 DEF SweepHoldsStore, pool
  <2>2. cleaner'.stage = "pruning"
    BY <1>t, <2>1 DEF CleanerTypes, CleanerState
  <2>3. HeldInTurn'
    BY <1>f, <2>1, <2>2 DEF HeldInTurn
  <2> QED BY <1>o, <1>e, <2>1, <2>3
<1>13. ASSUME Prunes PROVE HeldInTurn' /\ Told'
  <2>1. UNCHANGED spawn /\ store.owner = Cleaner /\ store' = Free
    BY <1>13 DEF Prunes, MayPrune, pool
  <2>2. HeldInTurn'
    BY <1>f, <2>1, HeldFreed
  <2> QED BY <1>o, <1>e, <2>1, <2>2
<1>14. ASSUME Closes PROVE HeldInTurn' /\ Told'
  <2>1. /\ Fixed
        /\ \A p \in Spawns : /\ spawn'[p].stage = spawn[p].stage
                             /\ spawn'[p].process \in {spawn[p].process, "exited"}
    <3>1. CASE cleaner.now = None
      BY <1>14, <1>o, <1>n, <3>1 DEF Closes, Effect, Fixed, Restaged
    <3>2. CASE cleaner.now # None
      <4>1. spawn' = [spawn EXCEPT ![cleaner.now].process = "exited"]
        BY <1>14, <3>2 DEF Closes
      <4>2. spawn' \in [Spawns -> SpawnState]
        <5>1. spawn \in [Spawns -> SpawnState] /\ "exited" \in Processes
          BY <1>t DEF PoolTypes, Processes
        <5> QED BY <4>1, <5>1 DEF SpawnState
      <4>3. \A p \in Spawns : /\ spawn'[p].key = spawn[p].key /\ spawn'[p].port = spawn[p].port
                              /\ spawn'[p].evicted = spawn[p].evicted /\ spawn'[p].stage = spawn[p].stage
                              /\ spawn'[p].process \in {spawn[p].process, "exited"}
        BY <1>t, <4>1 DEF PoolTypes, SpawnState
      <4> QED BY <4>2, <4>3 DEF Fixed
    <3> QED BY <3>1, <3>2
  <2>2. store' = Free \/ (UNCHANGED store /\ store.owner # Cleaner)
    BY <1>14 DEF Closes
  <2>3. store' = Free => store = Free \/ store.owner = Cleaner
    BY <1>14 DEF Closes
  <2>4. HeldInTurn'
    <3>1. CASE store' = Free
      BY <1>f, <2>1, <2>3, <3>1, HeldFreed
    <3>2. CASE UNCHANGED store /\ store.owner # Cleaner
      BY <2>1, <3>2 DEF HeldInTurn, Free
    <3> QED BY <2>2, <3>1, <3>2
  <2>5. Told'
    BY <2>1, ToldKept
  <2> QED BY <2>4, <2>5
<1>15. ASSUME Takes PROVE HeldInTurn' /\ Told'
  <2>1. /\ Fixed
        /\ \A p \in Spawns :
             /\ spawn[p].stage = "done" => spawn'[p].stage = "done"
             /\ p \in UnderWay' => spawn'[p].stage = "undoing" /\ spawn'[p].process # "up"
             /\ spawn'[p].process \in {"up", "asked"} => Running(p)
    BY <1>15, <1>t, TakesEffect
  <2>2. \A p \in Spawns :
          /\ spawn'[p].stage \notin {"created", "evicting", "preparing"}
          /\ spawn'[p].stage = "undoing" => spawn'[p].process # "up"
    BY <2>1 DEF UnderWay, Working
  <2>3. UNCHANGED cleaner /\ store' = IF \E p \in Spawns : store.owner = Spawner(p) THEN Free ELSE store
    BY <1>15 DEF Takes
  <2>4. HeldInTurn'
    BY <2>2, <2>3 DEF HeldInTurn, Free
  <2>5. Told'
    BY <2>2 DEF Told, Replaces
  <2> QED BY <2>4, <2>5
<1>16. ASSUME Closed PROVE HeldInTurn' /\ Told'
  <2>1. UNCHANGED <<spawn, store, cleaner>>
    BY <1>16 DEF Closed, pool
  <2> QED BY <1>o, <1>q, <2>1
<1>17. ASSUME Restarts PROVE HeldInTurn' /\ Told'
  <2>1. store' = Free /\ \A p \in Spawns : spawn'[p].stage = "unused"
    BY <1>17 DEF Restarts, Unused
  <2> QED BY <2>1, HeldFreed DEF Told, Replaces
<1>18. ASSUME UNCHANGED vars PROVE HeldInTurn' /\ Told'
  BY <1>18, <1>o, <1>q DEF vars
<1> QED BY <1>1, <1>2, <1>3, <1>4, <1>5, <1>6, <1>7, <1>8, <1>9, <1>10, <1>11, <1>12, <1>13, <1>14, <1>15,
           <1>16, <1>17, <1>18, <1>11f
        DEF Next, RequestSteps, SpawnSteps, CleanerSteps

\* Whoever a spawn task under way waits for goes on: the holder of the workspace lock, a
\* process told to end, a task that has a place of the semaphore.
LEMMA SomebodyGoesOn ==
  ASSUME TypeOK, HeldInTurn, Told, UnderWay # {}
  PROVE  MayPrune \/ \E p \in Spawns : MayGoOn(p) \/ spawn[p].process = "asked"
<1> SUFFICES ASSUME ~MayPrune, \A p \in Spawns : ~MayGoOn(p), \A p \in Spawns : spawn[p].process # "asked"
             PROVE  FALSE
  OBVIOUS
<1>1. store = Free
  BY DEF HeldInTurn, MayPrune, MayGoOn, MayPrepare
<1>2. \A p \in Spawns : spawn[p].stage # "preparing"
  BY <1>1, OwnersDiffer DEF HeldInTurn
<1>3. \A p \in Spawns : spawn[p].process \in Processes
  BY DEF TypeOK, PoolTypes, SpawnState
<1>4. \A p \in Spawns : spawn[p].process # "up" => Gone(p)
  BY <1>3 DEF Processes, Gone
<1>5. \A p \in Spawns : spawn[p].stage # "undoing"
  BY <1>1, <1>4 DEF Told, MayGoOn, MayUndo
<1>6. ASSUME NEW p \in Spawns, spawn[p].stage = "evicting" PROVE FALSE
  <2>1. spawn[p].evicted \in Spawns /\ spawn[spawn[p].evicted].process # "up"
    BY <1>6 DEF Told, TypeOK, PoolTypes, SpawnState
  <2> QED BY <1>1, <1>4, <1>6, <2>1 DEF MayGoOn, MayEvict
<1>7. \A p \in Spawns : spawn[p].stage \notin Working
  BY <1>1, <1>2, <1>5 DEF MayGoOn, MayHold, Working
<1>8. {q \in Spawns : spawn[q].stage \in Working} = {}
  BY <1>7
<1>9. Cardinality({q \in Spawns : spawn[q].stage \in Working}) < SpawnConcurrency
  <2>1. Cardinality({q \in Spawns : spawn[q].stage \in Working}) = 0
    BY <1>8, FS_EmptySet
  <2>2. SpawnConcurrency \in Nat \ {0}
    BY SupervisorAssumption
  <2> QED BY <2>1, <2>2
<1>10. \A p \in Spawns : spawn[p].stage # "queued"
  BY <1>9 DEF MayGoOn, MayWork
<1> QED BY <1>6, <1>7, <1>10 DEF UnderWay, MayGoOn

\* Spawn tasks wait for a process to end, for a place of the semaphore and for the workspace
\* lock, and keep the second while they wait for the third; no number of them brings them,
\* the cleaner and the shutdown to wait for each other.
THEOREM NobodyIsStuck == Spec => []NobodyStuck
<1>1. Init => HeldInTurn /\ Told
  <2> SUFFICES ASSUME Init PROVE HeldInTurn /\ Told
    OBVIOUS
  <2>1. store = Free /\ \A p \in Spawns : spawn[p].stage = "unused"
    BY DEF Init, Unused
  <2> QED BY <2>1 DEF HeldInTurn, Told, Replaces
<1>2. ASSUME TypeOK, HeldInTurn /\ Told, [Next]_vars PROVE (HeldInTurn /\ Told)'
  BY <1>2, WaitsStep
<1>3. TypeOK /\ HeldInTurn /\ Told => NobodyStuck
  BY SomebodyGoesOn DEF NobodyStuck
<1> QED BY <1>1, <1>2, <1>3, TypeCorrect, PTL DEF Spec
=============================================================================
