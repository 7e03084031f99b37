----------------------------- MODULE PackLibrary -----------------------------
(***************************************************************************)
(* The private Packs of one user: their upload under the storage quota that*)
(* Module sources share (api/packs.py, api/modules.py, storage_quota.py),  *)
(* their import into campaigns over the exchange volume of the domain MCP  *)
(* (storage.py), their activation, and the installation of their published *)
(* releases (api/community.py).                                            *)
(* All imports of a Pack copy its archive to one path of the exchange      *)
(* volume, call the MCP with that path, and remove the file afterwards.    *)
(***************************************************************************)
EXTENDS Integers, FiniteSets, FiniteSetsExt

CONSTANTS
    Packs, Presets,    \* the Packs (one version each), those that are imported only
    Campaigns,
    Clients,           \* the Idempotency-Keys installers send
    Import,            \* the key the service derives for an import
    Handlers,          \* requests being handled
    Quota, FileLimit,  \* `user_upload_storage_bytes`, `max_pack_bytes`
    Sizes,             \* bound: sizes of files
    MaxOps,            \* bound: requests that are started
    MaxFaults,         \* bound: lost answers of the authority, handlers that die
    MaxGenerated,      \* bound: bytes of sources the Module worker stores
    Nobody

ASSUME LibraryAssumption ==
    /\ IsFiniteSet(Packs) /\ Presets \subseteq Packs /\ Import \notin Clients /\ Nobody \notin Handlers
    /\ Quota \in Nat /\ FileLimit \in Nat /\ Sizes \subseteq Nat \ {0}
    /\ MaxOps \in Nat /\ MaxFaults \in Nat /\ MaxGenerated \in Nat

VARIABLES
    pack,          \* `PrivatePack.size_bytes`, 0 without a committed row
    inserting,     \* who has inserted the row and not committed
    sources,       \* bytes of the uploaded `ModuleSource` rows
    generated,     \* bytes of those the worker stored
    userLock,      \* the row lock of `upload_allowance`
    exchange,      \* the Pack's file on the exchange volume
    projection,    \* `CampaignPackProjection.status`
    projLock,      \* who has locked it, or inserted it and not committed
    installed,     \* `ArtifactInstallation.status`
    imports,       \* the keys under which the authority imported the Pack
    active,        \* the Packs the authority has activated
    handler,       \* the requests in progress
    abandoned,     \* whether a handler died between its copy and its clean-up
    ops, faults

library == <<pack, inserting, sources, generated, userLock>>
mcp == <<imports, active>>
rows == <<projection, installed>>
count == <<ops, faults, abandoned>>
libraryVars == <<library, exchange, rows, projLock, mcp, handler, count>>

-----------------------------------------------------------------------------
Idle == [pc |-> "idle", op |-> "none", c |-> Nobody, p |-> Nobody, key |-> Nobody,
         activate |-> FALSE, seen |-> "none", bytes |-> 0, limit |-> 0]

LibraryInit ==
    /\ pack = [p \in Packs |-> 0] /\ inserting = [p \in Packs |-> Nobody]
    /\ sources = 0 /\ generated = 0 /\ userLock = Nobody
    /\ exchange = [p \in Packs |-> "none"]
    /\ projection = [c \in Campaigns |-> [p \in Packs |-> "none"]]
    /\ projLock = [c \in Campaigns |-> [p \in Packs |-> Nobody]]
    /\ installed = [c \in Campaigns |-> [p \in Packs |-> "none"]]
    /\ imports = [c \in Campaigns |-> [p \in Packs |-> {}]]
    /\ active = [c \in Campaigns |-> {}]
    /\ handler = [h \in Handlers |-> Idle]
    /\ abandoned = FALSE /\ ops = 0 /\ faults = 0

P(h) == handler[h].p
C(h) == handler[h].c
At(h, pc, op) == handler[h].pc = pc /\ handler[h].op = op
Moves(h, pc) == handler' = [handler EXCEPT ![h].pc = pc]
Opens(h, request) ==
    /\ handler[h].pc = "idle" /\ ops < MaxOps /\ ops' = ops + 1
    /\ handler' = [handler EXCEPT ![h] = request]

\* The session closes: what it did not commit is undone, its locks are free.
Freed(lock, h) == IF lock = h THEN Nobody ELSE lock
Ends(h) ==
    /\ handler' = [handler EXCEPT ![h] = Idle]
    /\ userLock' = Freed(userLock, h)
    /\ inserting' = [p \in Packs |-> Freed(inserting[p], h)]
    /\ projLock' = [c \in Campaigns |-> [p \in Packs |-> Freed(projLock[c][p], h)]]

-----------------------------------------------------------------------------
(* Uploads.                                                                *)
Uploaded == SumFunction(pack) + sources
Remaining == Quota - Uploaded - generated

\* What `validate_pack_archive` lets through.
Archive(size) == size > 0 /\ size <= FileLimit

\* `upload_private_pack` finds no row of the version, ...
UploadStarts(h, p, size) ==
    /\ Archive(size) /\ pack[p] = 0
    /\ Opens(h, [Idle EXCEPT !.pc = "inserting", !.op = "upload", !.p = p, !.bytes = size])
    /\ UNCHANGED <<library, exchange, rows, projLock, mcp, faults, abandoned>>

\* ... inserts one of size 0, which waits for another insert of that version, ...
UploadInserts(h) ==
    /\ At(h, "inserting", "upload") /\ inserting[P(h)] = Nobody
    /\ \/ pack[P(h)] # 0 /\ Ends(h)
       \/ /\ pack[P(h)] = 0 /\ inserting' = [inserting EXCEPT ![P(h)] = h]
          /\ Moves(h, "locking") /\ UNCHANGED <<userLock, projLock>>
    /\ UNCHANGED <<pack, sources, generated, exchange, rows, mcp, count>>

SourceStarts(h, size) ==
    /\ Opens(h, [Idle EXCEPT !.pc = "locking", !.op = "source", !.bytes = size])
    /\ UNCHANGED <<library, exchange, rows, projLock, mcp, faults, abandoned>>

\* Mutant: the sum is read without the lock.
ReadsAllowance(h) == userLock' = userLock

TakesUser(h) == userLock = Nobody /\ userLock' = h

\* `upload_allowance` holds the row of the user until the upload commits.
Allowed(h) ==
    /\ handler[h].pc = "locking" /\ TakesUser(h) /\ Remaining > 0
    /\ handler' = [handler EXCEPT ![h].pc = "storing",
                      ![h].limit = Min({FileLimit, Remaining})]
    /\ UNCHANGED <<pack, inserting, sources, generated, exchange, rows, projLock, mcp, count>>
Exhausted(h) ==
    /\ handler[h].pc = "locking" /\ userLock = Nobody /\ Remaining <= 0 /\ Ends(h)
    /\ UNCHANGED <<pack, sources, generated, exchange, rows, mcp, count>>

\* `put` counts the bytes it copies against the allowance.
Stores(h) ==
    /\ handler[h].pc = "storing" /\ handler[h].bytes <= handler[h].limit /\ Moves(h, "stored")
    /\ UNCHANGED <<library, exchange, rows, projLock, mcp, count>>
TooLarge(h) ==
    /\ handler[h].pc = "storing" /\ handler[h].bytes > handler[h].limit /\ Ends(h)
    /\ UNCHANGED <<pack, sources, generated, exchange, rows, mcp, count>>

UploadCommits(h) ==
    /\ handler[h].pc = "stored" /\ Ends(h)
    /\ \/ /\ handler[h].op = "upload" /\ pack' = [pack EXCEPT ![P(h)] = handler[h].bytes]
          /\ UNCHANGED sources
       \/ /\ handler[h].op = "source" /\ sources' = sources + handler[h].bytes
          /\ UNCHANGED pack
    /\ UNCHANGED <<generated, exchange, rows, mcp, count>>

\* The Module worker stores a generated source without asking for an allowance.
WorkerStores(size) ==
    /\ generated + size <= MaxGenerated /\ generated' = generated + size
    /\ UNCHANGED <<pack, inserting, sources, userLock, exchange, rows, projLock, mcp, handler, count>>

-----------------------------------------------------------------------------
(* The copy on the exchange volume and the import.                         *)
Using(p) == {h \in Handlers : P(h) = p /\ handler[h].pc \in {"copying", "calling", "returned"}}
Copying(p) == {h \in Using(p) : handler[h].pc = "copying"}

\* Without a projection the archive is copied; opening the copy truncates a
\* file that is there.
CopyStarts(h, request) ==
    /\ pack[request.p] # 0 /\ projection[request.c][request.p] = "none"
    /\ Opens(h, [request EXCEPT !.pc = "copying"])
    /\ exchange' = [exchange EXCEPT ![request.p] = "partial"]
    /\ UNCHANGED <<library, rows, projLock, mcp, faults, abandoned>>

ImportStarts(h, c, p) ==
    CopyStarts(h, [Idle EXCEPT !.op = "import", !.c = c, !.p = p, !.key = Import])

\* The file is whole when nobody else is writing it, unless it was removed.
Copies(h) ==
    /\ handler[h].pc = "copying" /\ Moves(h, "calling")
    /\ exchange' = IF exchange[P(h)] = "partial" /\ Copying(P(h)) = {h}
                   THEN [exchange EXCEPT ![P(h)] = "complete"] ELSE exchange
    /\ UNCHANGED <<library, rows, projLock, mcp, count>>
CopyFails(h) ==
    /\ handler[h].pc = "copying" /\ Ends(h)
    /\ exchange' = [exchange EXCEPT ![P(h)] = "none"]
    /\ UNCHANGED <<pack, sources, generated, rows, mcp, count>>

\* `content_pack(import)`: a key that was used answers again, another reads the file.
Importable(h) == handler[h].key \in imports[C(h)][P(h)] \/ exchange[P(h)] = "complete"
Imports(h) ==
    imports' = [imports EXCEPT ![C(h)][P(h)] = @ \cup {handler[h].key}] /\ UNCHANGED active
Returns(h, seen) ==
    handler' = [handler EXCEPT ![h].pc = "returned", ![h].seen = seen]
ImportCalls(h) ==
    /\ handler[h].pc = "calling" /\ Importable(h) /\ Imports(h) /\ Returns(h, "imported")
    /\ UNCHANGED <<library, exchange, rows, projLock, count>>
ImportFails(h) ==
    /\ handler[h].pc = "calling" /\ Returns(h, "none")
    /\ UNCHANGED <<library, exchange, rows, projLock, mcp, count>>
\* The answer is lost, or carries no module id.
ImportLost(h) ==
    /\ handler[h].pc = "calling" /\ Importable(h) /\ Imports(h) /\ Returns(h, "none")
    /\ faults < MaxFaults /\ faults' = faults + 1
    /\ UNCHANGED <<library, exchange, rows, projLock, ops, abandoned>>

\* Mutant: only a successful import removes its file.
CleansSuccess(h) ==
    /\ handler[h].pc = "returned"
    /\ \/ /\ handler[h].seen = "none" /\ Ends(h) /\ UNCHANGED exchange
       \/ /\ handler[h].seen # "none" /\ Moves(h, "inserting")
          /\ exchange' = [exchange EXCEPT ![P(h)] = "none"]
          /\ UNCHANGED <<userLock, inserting, projLock>>
    /\ UNCHANGED <<pack, sources, generated, rows, mcp, count>>

\* `finally: exchange_path.unlink(missing_ok=True)`; a failed call is answered.
Cleans(h) ==
    /\ handler[h].pc = "returned" /\ exchange' = [exchange EXCEPT ![P(h)] = "none"]
    /\ \/ handler[h].seen = "none" /\ Ends(h)
       \/ /\ handler[h].seen # "none" /\ Moves(h, "inserting")
          /\ UNCHANGED <<userLock, inserting, projLock>>
    /\ UNCHANGED <<pack, sources, generated, rows, mcp, count>>

\* The insert waits for an open one of the same Pack and fails after its commit.
Unlocked(h) == projLock[C(h)][P(h)] \in {Nobody, h}
Insertable(h) == Unlocked(h) /\ projection[C(h)][P(h)] = "none"
ImportCommits(h) ==
    /\ At(h, "inserting", "import") /\ Insertable(h)
    /\ projection' = [projection EXCEPT ![C(h)][P(h)] = "imported"] /\ Ends(h)
    /\ UNCHANGED <<pack, sources, generated, exchange, installed, mcp, count>>
AlreadyImported(h) ==
    /\ handler[h].pc = "inserting" /\ handler[h].op \in {"import", "install"}
    /\ Unlocked(h) /\ projection[C(h)][P(h)] # "none" /\ Ends(h)
    /\ UNCHANGED <<pack, sources, generated, exchange, rows, mcp, count>>

-----------------------------------------------------------------------------
(* Activation and installation.                                            *)
Activatable(c, p, seen) == seen = "imported" /\ p \notin Presets

TakesProjection(h, c, p) ==
    /\ projLock[c][p] = Nobody /\ projLock' = [projLock EXCEPT ![c][p] = h]

\* `activate_private_pack` holds the row of the projection across its call.
ActivateStarts(h, c, p) ==
    /\ TakesProjection(h, c, p) /\ Activatable(c, p, projection[c][p])
    /\ Opens(h, [Idle EXCEPT !.pc = "activating", !.op = "activate", !.c = c, !.p = p,
                              !.seen = projection[c][p]])
    /\ UNCHANGED <<library, exchange, rows, mcp, faults, abandoned>>

\* `install_release` of a published Pack: nothing is locked.
Installing(c, p, key, activate) ==
    [Idle EXCEPT !.op = "install", !.c = c, !.p = p, !.key = key, !.activate = activate]
Wanted(request, seen) ==
    IF request.activate /\ seen # "activated" THEN "activating" ELSE "recording"
InstallStarts(h, c, p, key, activate) ==
    LET request == Installing(c, p, key, activate) IN
    /\ installed[c][p] = "none" /\ (activate => p \notin Presets)
    /\ \/ CopyStarts(h, request)
       \/ /\ projection[c][p] # "none"
          /\ Opens(h, [request EXCEPT !.seen = projection[c][p],
                                       !.pc = Wanted(request, projection[c][p])])
          /\ UNCHANGED <<library, exchange, rows, projLock, mcp, faults, abandoned>>

\* The new projection is flushed, and committed with the installation.
InstallInserts(h) ==
    /\ At(h, "inserting", "install") /\ Insertable(h)
    /\ projLock' = [projLock EXCEPT ![C(h)][P(h)] = h]
    /\ Moves(h, Wanted(handler[h], "imported"))
    /\ UNCHANGED <<library, exchange, rows, mcp, count>>

Activates(h) == active' = [active EXCEPT ![C(h)] = @ \cup {P(h)}] /\ UNCHANGED imports
ActivateCalls(h) ==
    /\ handler[h].pc = "activating" /\ Activates(h)
    /\ handler' = [handler EXCEPT ![h].pc = "recording", ![h].seen = "activated"]
    /\ UNCHANGED <<library, exchange, rows, projLock, count>>

\* Mutant: a refused activation is recorded.
RefusedRecords(h) ==
    /\ handler[h].pc = "activating"
    /\ handler' = [handler EXCEPT ![h].pc = "recording", ![h].seen = "activated"]
    /\ UNCHANGED <<library, exchange, rows, projLock, mcp, count>>

ActivateRefused(h) ==
    /\ handler[h].pc = "activating" /\ Ends(h)
    /\ UNCHANGED <<pack, sources, generated, exchange, rows, mcp, count>>
ActivateLost(h) ==
    /\ handler[h].pc = "activating" /\ faults < MaxFaults /\ faults' = faults + 1
    /\ Activates(h) /\ Ends(h)
    /\ UNCHANGED <<pack, sources, generated, exchange, rows, ops, abandoned>>

ActivateCommits(h) ==
    /\ At(h, "recording", "activate") /\ Ends(h)
    /\ projection' = [projection EXCEPT ![C(h)][P(h)] = "activated"]
    /\ UNCHANGED <<pack, sources, generated, exchange, installed, mcp, count>>

\* The projection is written if this request inserted or activated it; the
\* installation refers to it, and waits for its lock in either case.
Changed(h) == projLock[C(h)][P(h)] = h \/ (handler[h].activate /\ handler[h].seen = "activated")
InstallCommits(h) ==
    /\ At(h, "recording", "install") /\ Unlocked(h) /\ installed[C(h)][P(h)] = "none"
    /\ projection' = IF Changed(h) THEN [projection EXCEPT ![C(h)][P(h)] = handler[h].seen]
                     ELSE projection
    /\ installed' = [installed EXCEPT ![C(h)][P(h)] =
                        IF handler[h].seen = "activated" THEN "activated" ELSE "installed"]
    /\ Ends(h) /\ UNCHANGED <<pack, sources, generated, exchange, mcp, count>>
\* Another request has installed it: the unique key fails, all is undone.
InstalledTwice(h) ==
    /\ At(h, "recording", "install") /\ installed[C(h)][P(h)] # "none" /\ Ends(h)
    /\ UNCHANGED <<pack, sources, generated, exchange, rows, mcp, count>>

\* The process of a handler stops; its file stays.
Dies(h) ==
    /\ handler[h].pc # "idle" /\ faults < MaxFaults /\ faults' = faults + 1
    /\ abandoned' = (abandoned \/ h \in Using(P(h)))
    /\ Ends(h) /\ UNCHANGED <<pack, sources, generated, exchange, rows, mcp, ops>>

LibraryNext ==
    \/ \E h \in Handlers :
        \/ \E size \in Sizes : SourceStarts(h, size) \/ \E p \in Packs : UploadStarts(h, p, size)
        \/ UploadInserts(h) \/ Allowed(h) \/ Exhausted(h)
        \/ Stores(h) \/ TooLarge(h) \/ UploadCommits(h)
        \/ \E c \in Campaigns, p \in Packs :
            \/ ImportStarts(h, c, p) \/ ActivateStarts(h, c, p)
            \/ \E k \in Clients, a \in BOOLEAN : InstallStarts(h, c, p, k, a)
        \/ Copies(h) \/ CopyFails(h) \/ ImportCalls(h) \/ ImportFails(h) \/ ImportLost(h)
        \/ Cleans(h) \/ ImportCommits(h) \/ AlreadyImported(h) \/ InstallInserts(h)
        \/ ActivateCalls(h) \/ ActivateRefused(h) \/ ActivateLost(h) \/ ActivateCommits(h)
        \/ InstallCommits(h) \/ InstalledTwice(h) \/ Dies(h)
    \/ \E size \in Sizes : WorkerStores(size)

LibrarySpec == LibraryInit /\ [][LibraryNext]_libraryVars

-----------------------------------------------------------------------------
\* However many uploads of Packs and sources overlap, and whatever the worker
\* adds meanwhile, a user never stores more than the quota (`upload_allowance`).
StorageBounded == Uploaded <= Quota

\* A temporary exchange file is removed when the last call that used it is over,
\* however it ended, unless a process died (`import_private_pack`, `install_release`).
ExchangeIsCleaned == ~abandoned => \A p \in Packs : Using(p) = {} => exchange[p] = "none"

\* Neither a projection nor an installation claims an import or an activation the
\* authority has not made, and an installation never more than its projection.
RowsFollowAuthority == \A c \in Campaigns, p \in Packs :
    /\ projection[c][p] # "none" => imports[c][p] # {}
    /\ projection[c][p] = "activated" => p \in active[c]
    /\ installed[c][p] # "none" => projection[c][p] # "none"
    /\ installed[c][p] = "activated" => projection[c][p] = "activated"

\* "Temporary exchange files are removed after their runtime operation", "so an
\* in-flight source is not removed": the MCP finds the file it is asked to import.
InFlightKeepsItsFile == \A h \in Handlers :
    handler[h].pc = "calling" => exchange[P(h)] = "complete"
=============================================================================
