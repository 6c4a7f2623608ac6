------------------------------- MODULE Session -------------------------------
(***************************************************************************)
(* The session auth store (src/src/session/authStore.ts) together with the *)
(* replica half of its storage context (src/src/storage/storageContext.ts) *)
(* and the persisted session (src/src/identity/appSession.ts).             *)
(*                                                                         *)
(* Two kinds of actor share the state.  The LIFECYCLE CHAIN runs one task  *)
(* at a time (boot, destroy, connectWithGrants, logout, clearLocalData and *)
(* the epilogues of login and reconnect), each a series of steps divided   *)
(* at its awaits.  Everything else runs off the chain and interleaves with *)
(* those steps: wallet popups, access-expired notifications, the sync      *)
(* bootstrap, the expiry watch, the app's writes, time, and a page crash.  *)
(***************************************************************************)
EXTENDS Naturals, Sequences, FiniteSets

CONSTANTS
  Accounts,     \* wallet-derived controller DIDs
  Anons,        \* anonymous controller DIDs, minted in any order
  Spaces,       \* storage locations a wallet may grant
  Writes,       \* the app's insert calls, one document each
  Logins,       \* login() calls that open a popup
  Reconnects,   \* reconnect() calls that open a popup
  None,         \* no value (null / undefined)
  Calls,        \* the chain tasks the app and the provider may enqueue
  Faults,       \* <<task kind, step>> pairs whose storage or network call may fail
  GrantLess,    \* whether a wallet may answer with no storage grant at all
  SeedLocal,    \* whether the app configures the seedLocal hook
  Ttl, Warn,    \* lifetime of a grant, and warningMs, in clock units
  MaxCalls, MaxChain, MaxFaults, MaxCrashes, MaxNow   \* bounds of a model

DIDs     == Accounts \cup Anons
Optional(S) == S \cup {None}
Grants   == [acct : Accounts, space : Optional(Spaces), exp : Nat]
Tasks    ==
  [kind : {"boot", "destroy", "clear"}]
    \cup [kind : {"logout"}, wipe : BOOLEAN]
    \cup [kind : {"connect"}, grants : Grants, merge : BOOLEAN]
    \cup [kind : {"login"}, grants : Grants, merge : BOOLEAN, who : Logins,
          status : {"boot", "local", "connected", "reconnect"}, did : Optional(DIDs)]
    \cup [kind : {"renew"}, grants : Grants, did : Optional(DIDs)]
Sync     == [acct : Accounts, space : Spaces, replica : Optional(DIDs),
             state : {"starting", "running", "failed"}]

ASSUME ConstantsOK ==
  /\ Accounts \cap Anons = {}
  /\ None \notin DIDs \cup Spaces \cup Grants \cup Sync
  /\ Calls \subseteq Tasks
  /\ \A c \in Calls : c.kind \notin {"login", "renew"}
  /\ GrantLess \in BOOLEAN /\ SeedLocal \in BOOLEAN
  /\ {Ttl, Warn, MaxCalls, MaxChain, MaxFaults, MaxCrashes, MaxNow} \subseteq Nat

VARIABLES
  \* AuthState, as the app sees it
  status, phase, did, expires, reconnecting,
  \* StorageContext and the closure variables of createAuthStore
  attached,     \* the DID whose replica is attached
  handles,      \* the DIDs whose replica database is open
  swap,         \* a replica swap is open
  sync,         \* the sync controller and its bootstrap (controller, pendingSync)
  watch,        \* the expiry the near-expiry watch was armed with
  \* what survives a reload
  anonSeed,     \* the DID of the persisted anonymous seed
  used,         \* the anonymous DIDs minted so far
  sessSeed,     \* the account of the persisted session seed
  record,       \* the persisted session record
  docs,         \* the documents each replica database holds
  \* the lifecycle chain
  chain, task, step, frame,
  \* off-chain callers
  login, recon, writes,
  \* time, bounds and history
  now, calls, faults, crashes,
  loggedOut     \* history: a logout or clear completed, and no connect began since

ui      == <<status, phase, did, expires, reconnecting>>
holder  == <<attached, handles, swap, sync, watch>>
disk    == <<anonSeed, used, sessSeed, record, docs>>
popups  == <<login, recon>>
bounds  == <<now, calls, crashes>>
vars    == <<ui, holder, disk, chain, task, step, frame, popups, writes, bounds,
             faults, loggedOut>>

Steps == {"idle", "begin", "prepare", "drain", "collect", "read", "openConn",
          "hydrate", "saveSeed", "saveRecord", "land", "discard", "dropSeed",
          "clearAnon", "forget", "wipe", "anonSeed", "openAnon", "landLocal", "stop"}
Frame == [grants : Optional(Grants), restore : {"login", "live", "expired", "corrupt"},
          falling : BOOLEAN,   \* a failed activation is being undone
          retried : BOOLEAN,   \* boot's own fallback openLocal is running
          minted  : BOOLEAN,   \* this openLocal minted the anonymous seed
          source  : SUBSET Writes,      \* the collected AdoptSource; {} is null
          named   : SUBSET DIDs,        \* the replicas a wipe or a discard names
          closing : Optional(DIDs)]     \* the replica a teardown detached
NoFrame == [grants |-> None, restore |-> "login", falling |-> FALSE, retried |-> FALSE,
            minted |-> FALSE, source |-> {}, named |-> {}, closing |-> None]


Statuses == {"boot", "local", "connected", "reconnect"}
Unopened == [st |-> "new"]
Closed   == [st |-> "closed"]
Queued   == [st |-> "queued"]
Leaving  == [st |-> "leaving"]
LoginCall == {Unopened, Closed, Queued}
  \cup [st : {"open", "verifying"}, status : Statuses, did : Optional(DIDs), merge : BOOLEAN]
ReconnectCall == {Unopened, Closed, Leaving}
  \cup [st : {"open"}, did : Optional(DIDs), acct : Accounts, base : Optional(Grants)]
Write    == [st : {"new", "waiting", "bound", "acked", "rejected", "erased"}, db : Optional(DIDs)]
Fresh    == [st |-> "new", db |-> None]
Rejected == [st |-> "rejected", db |-> None]
Erased   == [st |-> "erased", db |-> None]

TypeUi ==
  /\ status \in Statuses
  /\ phase \in Optional({"connecting", "verifying"})
  /\ did \in Optional(DIDs)
  /\ expires \in Optional(Nat)
  /\ reconnecting \in BOOLEAN
TypeHolder ==
  /\ attached \in Optional(DIDs)
  /\ handles \subseteq DIDs
  /\ swap \in BOOLEAN
  /\ sync \in Optional(Sync)
  /\ watch \in Optional(Nat)
TypeDisk ==
  /\ anonSeed \in Optional(Anons)
  /\ used \subseteq Anons
  /\ sessSeed \in Optional(Accounts)
  /\ record \in Optional(Grants)
  /\ docs \in [DIDs -> SUBSET Writes]
TypeChain ==
  /\ chain \in Seq(Tasks)
  /\ task \in Optional(Tasks)
  /\ step \in Steps
  /\ frame \in Frame
TypeCallers ==
  /\ login \in [Logins -> LoginCall]
  /\ recon \in [Reconnects -> ReconnectCall]
  /\ writes \in [Writes -> Write]
TypeBounds ==
  /\ now \in Nat /\ calls \in Nat /\ faults \in Nat /\ crashes \in Nat
  /\ loggedOut \in BOOLEAN
TypeOK ==
  TypeUi /\ TypeHolder /\ TypeDisk /\ TypeChain /\ TypeCallers /\ TypeBounds

(***************************************************************************)
(* Helpers                                                                 *)
(***************************************************************************)
Running(kinds) == task # None /\ task.kind \in kinds
At(s)          == task # None /\ step = s
Connecting     == Running({"login", "connect"})

\* A teardown that deletes the replica it detaches.
Erasing == Running({"clear"}) \/ (Running({"logout"}) /\ task.wipe)

\* A storage or network call of the current step rejects.
Fail == <<task.kind, step>> \in Faults /\ faults < MaxFaults /\ faults' = faults + 1

NearExpiry(exp) == exp <= now + Warn
Expired(exp)    == exp <= now

Enqueue(t) == Len(chain) < MaxChain /\ chain' = Append(chain, t)
Goto(s)    == step' = s /\ UNCHANGED <<chain, task>>

\* Mutant of EndSwap: the finally that ends the swap is missing.
EndSwapForgotten(replica) == UNCHANGED <<swap, writes>>

\* StorageContext.endSwap: the writes waiting on the swap run against the
\* replica attached now, or reject when none is.
EndSwap(replica) ==
  /\ swap' = FALSE
  /\ writes' = [w \in Writes |->
       IF writes[w].st # "waiting" THEN writes[w]
       ELSE IF replica = None THEN Rejected ELSE [st |-> "bound", db |-> replica]]

\* The current task settles, and with it the login() call it belongs to.
Return(replica) ==
  /\ task' = None /\ step' = "idle" /\ frame' = NoFrame
  /\ EndSwap(replica)
  /\ login' = IF Running({"login"}) THEN [login EXCEPT ![task.who] = Closed] ELSE login
  /\ UNCHANGED <<chain, recon, bounds>>

\* Mutant of Detach: the expiry watch stays armed.
DetachWatched(frm) ==
  /\ UNCHANGED watch
  /\ attached' = None
  /\ frame' = [frm EXCEPT !.closing = attached]
  /\ Goto("drain")

\* The synchronous head of deactivateStore: disarm the watch, detach the
\* replica.  The controller and the open database are dealt with by Drain.
Detach(frm) ==
  /\ watch' = None
  /\ attached' = None
  /\ frame' = [frm EXCEPT !.closing = attached]
  /\ Goto("drain")

\* The catch of activateConnected: tear down, then re-open the anonymous replica.
Fall == Detach([frame EXCEPT !.falling = TRUE])

(***************************************************************************)
(* The chain picks its next task                                           *)
(***************************************************************************)
Begin ==
  /\ task = None /\ chain # <<>>
  /\ task' = Head(chain) /\ chain' = Tail(chain)
  /\ step' = "begin" /\ frame' = NoFrame
  /\ UNCHANGED <<ui, holder, disk, popups, writes, bounds, faults, loggedOut>>

\* Tasks whose own guard makes them a no-op: a boot outside `boot`, a
\* connectWithGrants while connected or while a login is in flight.
TaskIsNoOp ==
  \/ Running({"boot"}) /\ status # "boot"
  \/ Running({"connect"}) /\ (status = "connected" \/ phase # None)
NoOp ==
  /\ At("begin") /\ TaskIsNoOp
  /\ Return(attached)
  /\ UNCHANGED <<ui, attached, handles, sync, watch, disk, faults, loggedOut>>

\* bootImpl: no seed or no record opens the anonymous replica, and so does a
\* record of another identity, which is cleared first.
BootMiss ==
  /\ At("begin") /\ Running({"boot"}) /\ status = "boot"
  /\ \/ sessSeed = None /\ UNCHANGED <<sessSeed, record>>
     \/ record = None /\ UNCHANGED <<sessSeed, record>>
     \/ /\ sessSeed # None /\ record # None /\ record.acct # sessSeed
        /\ sessSeed' = None /\ record' = None
  /\ Goto("anonSeed")
  /\ UNCHANGED <<ui, holder, anonSeed, used, docs, frame, popups, writes, bounds,
                 faults, loggedOut>>

BootRestore ==
  /\ At("begin") /\ Running({"boot"}) /\ status = "boot"
  /\ sessSeed # None /\ record # None /\ record.acct = sessSeed
  /\ frame' = [frame EXCEPT !.grants = record,
                            !.restore = IF Expired(record.exp) THEN "expired" ELSE "live"]
  /\ Goto("prepare")
  /\ UNCHANGED <<ui, holder, disk, popups, writes, bounds, faults, loggedOut>>

\* The epilogue of a login runs only over the session the login started from.
SameSession == status = task.status /\ did = task.did
LoginAbandoned ==
  /\ At("begin") /\ Running({"login"}) /\ ~SameSession
  /\ phase' = None
  /\ Return(attached)
  /\ UNCHANGED <<status, did, expires, reconnecting, attached, handles, sync, watch,
                 disk, faults, loggedOut>>

StartConnect ==
  /\ At("begin") /\ Connecting /\ ~TaskIsNoOp
  /\ Running({"login"}) => SameSession
  /\ frame' = [frame EXCEPT !.grants = task.grants]
  /\ loggedOut' = FALSE
  /\ Goto("prepare")
  /\ UNCHANGED <<ui, holder, disk, popups, writes, bounds, faults>>

\* Mutants of StillToRenew: the account, or the whole session, is not re-checked.
StillToRenewByStatus == status = "reconnect"
StillToRenewUnchecked == TRUE

\* The epilogue of a reconnect renews only the session its popup was opened for.
StillToRenew == status = "reconnect" /\ did = task.did
RenewDiscarded ==
  /\ At("begin") /\ Running({"renew"}) /\ ~StillToRenew
  /\ reconnecting' = FALSE
  /\ Return(attached)
  /\ UNCHANGED <<status, phase, did, expires, attached, handles, sync, watch, disk,
                 faults, loggedOut>>
StartRenew ==
  /\ At("begin") /\ Running({"renew"}) /\ StillToRenew
  /\ frame' = [frame EXCEPT !.grants = task.grants]
  /\ Goto("stop")
  /\ UNCHANGED <<ui, holder, disk, popups, writes, bounds, faults, loggedOut>>

\* Mutants of WipeTargets: a clear forgets the anonymous replica, or names a null one.
WipeTargetsLive ==
  IF Running({"clear"}) \/ (Erasing /\ status \in {"connected", "reconnect"})
  THEN {did} \ {None} ELSE {}
WipeTargetsNull ==
  IF Running({"clear"}) THEN {did, anonSeed} ELSE WipeTargetsLive

\* destroy, logout and clearLocalData open with the teardown.  A wiping logout
\* first names the connected replica, a clear that one and the anonymous one.  What
\* these two hold acknowledged is from here on what a clear has to delete.
WipeTargets ==
  CASE Running({"clear"}) -> {did, anonSeed} \ {None}
    [] Running({"logout"}) /\ task.wipe /\ status \in {"connected", "reconnect"} -> {did} \ {None}
    [] OTHER -> {}
Unwanted(w) == \E d \in {did, anonSeed} \ {None} : w \in docs[d]
StartTeardown ==
  /\ At("begin") /\ Running({"destroy", "logout", "clear"})
  /\ Detach([frame EXCEPT !.named = WipeTargets])
  /\ writes' = IF Running({"clear"})
                 THEN [w \in Writes |-> IF writes[w].st = "acked" /\ Unwanted(w) THEN Erased
                                         ELSE writes[w]]
                 ELSE writes
  /\ UNCHANGED <<ui, handles, swap, sync, disk, popups, bounds, faults, loggedOut>>

(***************************************************************************)
(* Teardown                                                                *)
(***************************************************************************)
\* Deleting replicas loses the writes acknowledged in them, as the user asked.
Delete(replicas) ==
  /\ docs' = [d \in DIDs |-> IF d \in replicas THEN {} ELSE docs[d]]
  /\ writes' = [w \in Writes |->
       IF writes[w].st = "acked" /\ \E d \in replicas : w \in docs[d] THEN Erased
       ELSE IF writes[w].st = "bound" /\ writes[w].db \in replicas THEN Rejected
       ELSE writes[w]]

\* A write still running against a database that closes rejects.
Close(d) ==
  /\ UNCHANGED docs
  /\ writes' = [w \in Writes |->
       IF writes[w].st = "bound" /\ writes[w].db = d THEN Rejected ELSE writes[w]]

\* Mutant of BootstrapSettled: a failed bootstrap does not count as settled.
BootstrapRunning == sync # None => sync.state = "running"

\* The awaited rest of deactivateStore: wait for a bootstrap still running, stop
\* the controller, then close the detached replica, or remove it in the wipe
\* grades (a removal that fails is only logged).
BootstrapSettled == sync # None => sync.state # "starting"
Deletes == Erasing /\ frame.closing # None
StopAndClose ==
  /\ BootstrapSettled
  /\ sync' = None
  /\ handles' = handles \ {frame.closing}
  /\ \/ Deletes /\ Delete({frame.closing}) /\ UNCHANGED faults
     \/ Deletes /\ Close(frame.closing) /\ Fail
     \/ ~Deletes /\ Close(frame.closing) /\ UNCHANGED faults

AfterDrain ==
  IF frame.falling THEN "anonSeed"
  ELSE IF Running({"logout"}) THEN "forget"
  ELSE IF Running({"clear"}) THEN "clearAnon"
  ELSE IF task.merge THEN "collect" ELSE "openConn"

\* An expired restore that failed on its cached roster also clears the record.
Drain ==
  /\ At("drain") /\ ~Running({"destroy"})
  /\ StopAndClose
  /\ \/ UNCHANGED <<sessSeed, record>>
     \/ frame.falling /\ frame.restore = "corrupt" /\ sessSeed' = None /\ record' = None
  /\ frame' = [frame EXCEPT !.closing = None]
  /\ Goto(AfterDrain)
  /\ UNCHANGED <<ui, attached, swap, watch, anonSeed, used, popups, bounds, loggedOut>>

\* Mutant of DrainDestroy: the reset to `boot` is missing.
DrainOnly ==
  /\ At("drain") /\ Running({"destroy"})
  /\ StopAndClose
  /\ task' = None /\ step' = "idle" /\ frame' = NoFrame
  /\ UNCHANGED <<ui, attached, swap, watch, anonSeed, used, sessSeed, record, chain, popups,
                 bounds, loggedOut>>

DrainDestroy ==
  /\ At("drain") /\ Running({"destroy"})
  /\ StopAndClose
  /\ status' = "boot" /\ phase' = None /\ did' = None /\ expires' = None
  /\ reconnecting' = FALSE
  /\ task' = None /\ step' = "idle" /\ frame' = NoFrame
  /\ UNCHANGED <<attached, swap, watch, anonSeed, used, sessSeed, record, chain, popups,
                 bounds, loggedOut>>

ClearAnonSeed ==
  /\ At("clearAnon")
  /\ \/ anonSeed' = None /\ Goto("forget") /\ UNCHANGED <<frame, login, writes, swap, faults>>
     \/ Fail /\ Return(attached) /\ UNCHANGED anonSeed
  /\ UNCHANGED <<ui, attached, handles, sync, watch, used, sessSeed, record, docs,
                 recon, bounds, loggedOut>>

\* clearAppSession of a logout or a clear; a rejection ends the task as it stands.
ForgetSession ==
  /\ At("forget")
  /\ \/ /\ sessSeed' = None /\ record' = None
        /\ Goto(IF Running({"clear"}) \/ frame.named # {} THEN "wipe" ELSE "anonSeed")
        /\ UNCHANGED <<frame, login, writes, swap, faults>>
     \/ Fail /\ Return(attached) /\ UNCHANGED <<sessSeed, record>>
  /\ UNCHANGED <<ui, attached, handles, sync, watch, anonSeed, used, docs,
                 recon, bounds, loggedOut>>

\* executeLocalWipe: the named replicas and, when a clear can enumerate the
\* databases, every other one.  It never rejects; a failed removal is reported.
Wipe ==
  /\ At("wipe")
  /\ \/ Delete(frame.named) /\ UNCHANGED faults
     \/ Running({"clear"}) /\ Delete(DIDs) /\ UNCHANGED faults
     \/ Fail /\ UNCHANGED <<docs, writes>>
  /\ Goto("anonSeed")
  /\ UNCHANGED <<ui, holder, anonSeed, used, sessSeed, record, frame, popups, bounds,
                 loggedOut>>

(***************************************************************************)
(* openLocal                                                               *)
(***************************************************************************)
\* Mutant of LoadOrCreateAnonSeed: a minted seed is not persisted.
CreateAnonSeedUnsaved ==
  /\ At("anonSeed")
  /\ Goto("openAnon")
  /\ UNCHANGED <<ui, holder, disk, frame, popups, writes, bounds, faults, loggedOut>>

LoadOrCreateAnonSeed ==
  /\ At("anonSeed")
  /\ \/ anonSeed # None /\ UNCHANGED <<anonSeed, used, frame>>
     \/ /\ anonSeed = None
        /\ \E n \in Anons \ used : anonSeed' = n /\ used' = used \cup {n}
        /\ frame' = [frame EXCEPT !.minted = TRUE]
  /\ Goto("openAnon")
  /\ UNCHANGED <<ui, holder, sessSeed, record, docs, popups, writes, bounds, faults, loggedOut>>

OpenAnon ==
  /\ At("openAnon")
  /\ attached' = anonSeed
  /\ handles' = handles \cup {anonSeed}
  /\ Goto("landLocal")
  /\ UNCHANGED <<ui, swap, sync, watch, disk, frame, popups, writes, bounds, faults, loggedOut>>

\* Hydrate, run the fixtures hook over a freshly minted replica, write `local`.
\* The hook writes through the entity stores, whose verbs wait on an open swap.
FixturesCanRun == ~(frame.minted /\ SeedLocal /\ swap)
LandLocal ==
  /\ At("landLocal") /\ FixturesCanRun
  /\ status' = "local" /\ did' = anonSeed /\ expires' = None
  /\ phase' = IF Running({"login", "logout", "clear"}) THEN None ELSE phase
  /\ reconnecting' = IF Running({"logout", "clear"}) THEN FALSE ELSE reconnecting
  /\ loggedOut' = (loggedOut \/ Running({"logout", "clear"}))
  /\ Return(attached)
  /\ UNCHANGED <<attached, handles, sync, watch, disk, faults>>

\* openLocal rejects.  boot tries once more and then stays in `boot`; the fallback
\* of a logout or of a failed connect (reopenLocal) lands `local` with nothing
\* attached; a failed collect and clearLocalData pass the rejection on.
OpenLocalFails == At("anonSeed") \/ At("openAnon") \/ At("landLocal")
BootRetriesLocal ==
  /\ OpenLocalFails \/ (At("begin") /\ status = "boot")    \* or the peek rejects
  /\ Running({"boot"}) /\ ~frame.retried
  /\ Fail
  /\ frame' = [frame EXCEPT !.retried = TRUE, !.falling = FALSE, !.minted = FALSE]
  /\ Goto("anonSeed")
  /\ UNCHANGED <<ui, holder, disk, popups, writes, bounds, loggedOut>>
BootGivesUp ==
  /\ OpenLocalFails /\ Running({"boot"}) /\ frame.retried
  /\ Fail
  /\ Return(attached)
  /\ UNCHANGED <<ui, attached, handles, sync, watch, disk, loggedOut>>
\* Mutant of ReopenFails: the status keeps naming the session whose replica is gone.
ReopenFailsUnseen ==
  /\ OpenLocalFails /\ (Running({"logout"}) \/ (Connecting /\ frame.falling))
  /\ Fail
  /\ loggedOut' = (loggedOut \/ Running({"logout"}))
  /\ Return(attached)
  /\ UNCHANGED <<ui, attached, handles, sync, watch, disk>>

ReopenFails ==
  /\ OpenLocalFails /\ (Running({"logout"}) \/ (Connecting /\ frame.falling))
  /\ Fail
  /\ IF status = "boot" THEN UNCHANGED <<status, did, expires>>
     ELSE status' = "local" /\ did' = None /\ expires' = None
  /\ phase' = IF Running({"login", "logout"}) THEN None ELSE phase
  /\ reconnecting' = IF Running({"logout"}) THEN FALSE ELSE reconnecting
  /\ loggedOut' = (loggedOut \/ Running({"logout"}))
  /\ Return(attached)
  /\ UNCHANGED <<attached, handles, sync, watch, disk>>
OpenLocalRejects ==
  /\ OpenLocalFails /\ (Running({"clear"}) \/ (Connecting /\ ~frame.falling))
  /\ Fail
  /\ phase' = IF Running({"login"}) THEN None ELSE phase
  /\ Return(attached)
  /\ UNCHANGED <<status, did, expires, reconnecting, attached, handles, sync, watch,
                 disk, loggedOut>>

(***************************************************************************)
(* The connected activation                                                *)
(***************************************************************************)
\* The network half, with the old replica still attached.  A boot goes on to open
\* the connected replica; a connect opens the swap, if it carries anonymous data
\* over, and tears the old replica down.
CarriesAnonData == task.merge /\ status = "local" /\ did # None
Prepared ==
  /\ At("prepare")
  /\ IF Running({"boot"})
       THEN Goto("openConn") /\ UNCHANGED <<swap, watch, attached, frame>>
       ELSE Detach(frame) /\ swap' = CarriesAnonData
  /\ UNCHANGED <<ui, handles, sync, disk, popups, writes, bounds, faults, loggedOut>>
PrepareFails ==
  /\ At("prepare") /\ Fail
  /\ IF Running({"boot"})
       THEN Fall /\ UNCHANGED <<phase, swap, writes, login, recon, bounds>>
       ELSE /\ phase' = IF Running({"login"}) THEN None ELSE phase
            /\ Return(attached)
            /\ UNCHANGED <<attached, watch>>
  /\ UNCHANGED <<status, did, expires, reconnecting, handles, sync, disk, loggedOut>>

\* collectAdoptable, through a handle of its own on the anonymous database.
FromLocal == status = "local" /\ did # None
NothingToCollect == ~FromLocal \/ anonSeed = None
Collect ==
  /\ At("collect")
  /\ IF NothingToCollect
       THEN Goto("openConn") /\ UNCHANGED handles
       ELSE Goto("read") /\ handles' = handles \cup {did}
  /\ UNCHANGED <<ui, attached, swap, sync, watch, disk, frame, popups, writes, bounds,
                 faults, loggedOut>>
\* Mutants of Read: the collecting handle stays open, or the anonymous seed is dropped
\* before the data it names has landed.
ReadUnclosed ==
  /\ At("read")
  /\ frame' = [frame EXCEPT !.source = IF anonSeed = did THEN docs[did] ELSE {},
                            !.named = {did}]
  /\ Goto("openConn")
  /\ UNCHANGED <<ui, holder, disk, popups, writes, bounds, faults, loggedOut>>
ReadAndDropSeed ==
  /\ At("read")
  /\ handles' = handles \ {did}
  /\ frame' = [frame EXCEPT !.source = docs[did], !.named = {did}]
  /\ anonSeed' = None
  /\ Goto("openConn")
  /\ UNCHANGED <<ui, attached, swap, sync, watch, used, sessSeed, record, docs, popups,
                 writes, bounds, faults, loggedOut>>

\* Only the replica the persisted seed encrypts decrypts; no payload at all is a
\* null source.
Read ==
  /\ At("read")
  /\ handles' = handles \ {did}
  /\ frame' = [frame EXCEPT !.source = IF anonSeed = did THEN docs[did] ELSE {},
                            !.named = {did}]
  /\ Goto("openConn")
  /\ UNCHANGED <<ui, attached, swap, sync, watch, disk, popups, writes, bounds, faults,
                 loggedOut>>
\* Mutant of CollectFails: nothing re-opens the anonymous replica.
CollectFailsStranded ==
  /\ (At("collect") \/ At("read")) /\ FromLocal
  /\ Fail
  /\ handles' = handles \ {did}
  /\ phase' = IF Running({"login"}) THEN None ELSE phase
  /\ Return(attached)
  /\ UNCHANGED <<status, did, expires, reconnecting, attached, sync, watch, disk, loggedOut>>

CollectFails ==
  /\ (At("collect") \/ At("read")) /\ FromLocal
  /\ Fail
  /\ handles' = handles \ {did}
  /\ Goto("anonSeed")
  /\ UNCHANGED <<ui, attached, swap, sync, watch, disk, frame, popups, writes, bounds, loggedOut>>

OpenConnected ==
  /\ At("openConn")
  /\ attached' = frame.grants.acct
  /\ handles' = handles \cup {frame.grants.acct}
  /\ Goto("hydrate")
  /\ UNCHANGED <<ui, swap, sync, watch, disk, frame, popups, writes, bounds, faults, loggedOut>>

\* Mutant of AfterHydrate: nothing is persisted.
AfterHydrateUnsaved == "land"

AfterHydrate ==
  IF frame.restore = "expired" \/ frame.grants.space = None THEN "land" ELSE "saveSeed"
MergeAndHydrate ==
  /\ At("hydrate")
  /\ docs' = [docs EXCEPT ![attached] = @ \cup frame.source]
  /\ Goto(AfterHydrate)
  /\ UNCHANGED <<ui, holder, anonSeed, used, sessSeed, record, frame, popups, writes,
                 bounds, faults, loggedOut>>

\* persistAppSession writes the seed and then the record, two separate writes.
SaveSeed ==
  /\ At("saveSeed")
  /\ sessSeed' = frame.grants.acct
  /\ Goto("saveRecord")
  /\ UNCHANGED <<ui, holder, anonSeed, used, record, docs, frame, popups, writes, bounds,
                 faults, loggedOut>>
SaveRecord ==
  /\ At("saveRecord")
  /\ record' = frame.grants
  /\ Goto("land")
  /\ UNCHANGED <<ui, holder, anonSeed, used, sessSeed, docs, frame, popups, writes,
                 bounds, faults, loggedOut>>

\* A failed merge may have landed part of the source; a failed open of an expired
\* restore may be a cached roster that no longer wraps a key to this app.
Activating == At("openConn") \/ At("hydrate") \/ At("saveSeed") \/ At("saveRecord")
ActivationFails ==
  /\ Activating /\ ~Running({"renew"})
  /\ Fail
  /\ \/ UNCHANGED docs
     \/ At("hydrate") /\ \E part \in SUBSET frame.source :
          docs' = [docs EXCEPT ![attached] = @ \cup part]
  /\ \/ Fall
     \/ /\ At("openConn") /\ frame.restore = "expired"
        /\ Detach([frame EXCEPT !.falling = TRUE, !.restore = "corrupt"])
  /\ UNCHANGED <<ui, handles, swap, sync, anonSeed, used, sessSeed, record, popups,
                 writes, bounds, loggedOut>>

\* Mutant of StartSync: a watch already armed is not re-armed.
StartSyncUnwatched ==
  IF frame.restore = "expired" \/ frame.grants.space = None
  THEN UNCHANGED <<sync, watch>>
  ELSE /\ sync' = [acct |-> frame.grants.acct, space |-> frame.grants.space,
                   replica |-> attached,
                   state |-> IF attached = None THEN "failed" ELSE "starting"]
       /\ watch' = IF watch = None THEN frame.grants.exp ELSE watch

\* The rest of persistAndStartSync.  The bootstrap replicates whatever replica is
\* attached at this point, and fails when there is none.
StartSync ==
  IF frame.restore = "expired" \/ frame.grants.space = None
  THEN UNCHANGED <<sync, watch>>
  ELSE /\ sync' = [acct |-> frame.grants.acct, space |-> frame.grants.space,
                   replica |-> attached,
                   state |-> IF attached = None THEN "failed" ELSE "starting"]
       /\ watch' = frame.grants.exp

\* Grants that no longer cover every configured collection restore as `reconnect`.
LandBoot ==
  /\ At("land") /\ Running({"boot"})
  /\ StartSync
  /\ \/ status' = "reconnect"
     \/ status' = "connected" /\ frame.restore = "live"
  /\ did' = frame.grants.acct /\ expires' = frame.grants.exp
  /\ Return(attached)
  /\ UNCHANGED <<phase, reconnecting, attached, handles, disk, faults, loggedOut>>

LandConnect ==
  /\ At("land") /\ Connecting
  /\ StartSync
  /\ status' = "connected" /\ did' = frame.grants.acct /\ expires' = frame.grants.exp
  /\ phase' = None
  /\ IF frame.source = {}
       THEN Return(attached)
       ELSE EndSwap(attached) /\ Goto("discard") /\ UNCHANGED <<frame, popups, bounds>>
  /\ UNCHANGED <<reconnecting, attached, handles, disk, faults, loggedOut>>

\* discardAnonReplica: the database first, its seed only if that worked.
DiscardAnonReplica ==
  /\ At("discard")
  /\ \/ /\ docs' = [d \in DIDs |-> IF d \in frame.named THEN {} ELSE docs[d]]
        /\ Goto("dropSeed") /\ UNCHANGED <<frame, login, writes, swap, faults>>
     \/ Fail /\ Return(attached) /\ UNCHANGED docs
  /\ UNCHANGED <<ui, attached, handles, sync, watch, anonSeed, used, sessSeed, record,
                 recon, bounds, loggedOut>>
DropAnonSeed ==
  /\ At("dropSeed")
  /\ \/ anonSeed' = None /\ UNCHANGED faults
     \/ Fail /\ UNCHANGED anonSeed
  /\ Return(attached)
  /\ UNCHANGED <<ui, attached, handles, sync, watch, used, sessSeed, record, docs, loggedOut>>

\* The re-grant: stop the old controller, persist, start sync again.
StopForRenew ==
  /\ At("stop") /\ BootstrapSettled
  /\ sync' = None
  /\ Goto(IF frame.grants.space = None THEN "land" ELSE "saveSeed")
  /\ UNCHANGED <<ui, attached, handles, swap, watch, disk, frame, popups, writes, bounds,
                 faults, loggedOut>>
LandRenew ==
  /\ At("land") /\ Running({"renew"})
  /\ StartSync
  /\ status' = "connected" /\ expires' = frame.grants.exp /\ reconnecting' = FALSE
  /\ Return(attached)
  /\ UNCHANGED <<phase, did, attached, handles, disk, faults, loggedOut>>
RenewFails ==
  /\ Running({"renew"}) /\ (At("saveSeed") \/ At("saveRecord"))
  /\ Fail
  /\ reconnecting' = FALSE
  /\ Return(attached)
  /\ UNCHANGED <<status, phase, did, expires, attached, handles, sync, watch, disk, loggedOut>>

(***************************************************************************)
(* Callers of the chain                                                    *)
(***************************************************************************)
\* boot, destroy, logout, clearLocalData or connectWithGrants is called.
Call(t) ==
  /\ calls < MaxCalls /\ calls' = calls + 1
  /\ Enqueue(t)
  /\ UNCHANGED <<ui, holder, disk, task, step, frame, popups, writes, now, crashes, faults,
                 loggedOut>>

\* login: a guard, a snapshot of the session, then the wallet popup.
OpenLogin(l) ==
  /\ login[l].st = "new"
  /\ phase = None /\ status # "connected"
  /\ phase' = "connecting"
  /\ \E merge \in BOOLEAN :
       login' = [login EXCEPT ![l] = [st |-> "open", status |-> status, did |-> did, merge |-> merge]]
  /\ UNCHANGED <<status, did, expires, reconnecting, holder, disk, chain, task, step, frame,
                 recon, writes, bounds, faults, loggedOut>>

\* The wallet answers, and loginWithWallet verifies what it returned.
VerifyLogin(l) ==
  /\ login[l].st = "open"
  /\ phase' = "verifying"
  /\ login' = [login EXCEPT ![l].st = "verifying"]
  /\ UNCHANGED <<status, did, expires, reconnecting, holder, disk, chain, task, step, frame,
                 recon, writes, bounds, faults, loggedOut>>

Answers == IF GrantLess THEN Optional(Spaces) ELSE Spaces
FinishLogin(l) ==
  /\ login[l].st = "verifying"
  /\ \E acct \in Accounts, space \in Answers :
       Enqueue([kind |-> "login", who |-> l, merge |-> login[l].merge,
                status |-> login[l].status, did |-> login[l].did,
                grants |-> [acct |-> acct, space |-> space, exp |-> now + Ttl]])
  /\ login' = [login EXCEPT ![l] = Queued]
  /\ UNCHANGED <<ui, holder, disk, task, step, frame, recon, writes, bounds, faults,
                 loggedOut>>

\* The user cancels, or the wallet's answer does not verify.
CancelLogin(l) ==
  /\ login[l].st \in {"open", "verifying"}
  /\ phase' = None
  /\ login' = [login EXCEPT ![l] = Closed]
  /\ UNCHANGED <<status, did, expires, reconnecting, holder, disk, chain, task, step, frame,
                 recon, writes, bounds, faults, loggedOut>>

\* reconnect: a guard, a snapshot of the session, and peekAppSession, whose reads
\* are issued at once.  They give the popup its baseline; with no seed left the
\* session is unrecoverable and reconnect logs out.
OpenReconnect(r) ==
  /\ recon[r].st = "new"
  /\ ~reconnecting /\ status = "reconnect"
  /\ reconnecting' = TRUE
  /\ \/ /\ sessSeed = None
        /\ Enqueue([kind |-> "logout", wipe |-> FALSE])
        /\ recon' = [recon EXCEPT ![r] = Leaving]
     \/ /\ sessSeed # None
        /\ recon' = [recon EXCEPT ![r] = [st |-> "open", did |-> did,
                                          acct |-> sessSeed, base |-> record]]
        /\ UNCHANGED chain
  /\ UNCHANGED <<status, phase, did, expires, holder, disk, task, step, frame,
                 login, writes, bounds, faults, loggedOut>>

\* The logout that reconnect awaits has settled; had it rejected, the catch
\* lowers the flag it left up.
LogoutPending == Running({"logout"}) \/ \E i \in DOMAIN chain : chain[i].kind = "logout"
LeaveReconnect(r) ==
  /\ recon[r].st = "leaving" /\ ~LogoutPending
  /\ recon' = [recon EXCEPT ![r] = Closed]
  /\ \/ reconnecting' = FALSE
     \/ UNCHANGED reconnecting
  /\ UNCHANGED <<status, phase, did, expires, holder, disk, chain, task, step, frame,
                 login, writes, bounds, faults, loggedOut>>

\* The wallet renews the grants, over the storage location of the baseline.
SameSpace(r, space) ==
  recon[r].base # None /\ space # None => space = recon[r].base.space
AnswerReconnect(r) ==
  /\ recon[r].st = "open"
  /\ \E space \in Answers :
       /\ SameSpace(r, space)
       /\ Enqueue([kind |-> "renew", did |-> recon[r].did,
                   grants |-> [acct |-> recon[r].acct, space |-> space, exp |-> now + Ttl]])
  /\ recon' = [recon EXCEPT ![r] = Closed]
  /\ UNCHANGED <<ui, holder, disk, task, step, frame, login, writes, bounds, faults,
                 loggedOut>>

\* The peek rejects, the user cancels, or the renewed grants are refused.
CancelReconnect(r) ==
  /\ recon[r].st = "open"
  /\ reconnecting' = FALSE
  /\ recon' = [recon EXCEPT ![r] = Closed]
  /\ UNCHANGED <<status, phase, did, expires, holder, disk, chain, task, step, frame,
                 login, writes, bounds, faults, loggedOut>>

(***************************************************************************)
(* Callbacks, the app's writes, time and a page crash                      *)
(***************************************************************************)
\* notifyAccessExpired, from replication (401 / 403) or from the expiry watch.
NotifyAccessExpired ==
  /\ status = "connected"
  /\ status' = "reconnect"
  /\ UNCHANGED <<phase, did, expires, reconnecting, holder, disk, chain, task, step, frame,
                 popups, writes, bounds, faults, loggedOut>>
AuthError   == sync # None /\ NotifyAccessExpired
WatchExpiry == watch # None /\ NearExpiry(watch) /\ NotifyAccessExpired

\* The bootstrap of beginSync succeeds or fails; either settles pendingSync.
BootstrapSettles(state) ==
  /\ sync # None /\ sync.state = "starting"
  /\ sync' = [sync EXCEPT !.state = state]
  /\ UNCHANGED <<ui, attached, handles, swap, watch, disk, chain, task, step, frame, popups,
                 writes, bounds, faults, loggedOut>>
SyncStarts == BootstrapSettles("running")
SyncFails  == BootstrapSettles("failed")

\* A write verb of an entity store: it waits on an open swap, runs against the
\* attached replica, or rejects.
IssueWrite(w) ==
  /\ writes[w].st = "new"
  /\ writes' = [writes EXCEPT ![w] =
       IF swap THEN [st |-> "waiting", db |-> None]
       ELSE IF attached = None THEN Rejected ELSE [st |-> "bound", db |-> attached]]
  /\ UNCHANGED <<ui, holder, disk, chain, task, step, frame, popups, bounds, faults,
                 loggedOut>>
LandWrite(w) ==
  /\ writes[w].st = "bound"
  /\ docs' = [docs EXCEPT ![writes[w].db] = @ \cup {w}]
  /\ writes' = [writes EXCEPT ![w] =
       IF Running({"clear"}) /\ At("drain") THEN Erased ELSE [st |-> "acked", db |-> @.db]]
  /\ UNCHANGED <<ui, holder, anonSeed, used, sessSeed, record, chain, task, step, frame,
                 popups, bounds, faults, loggedOut>>

Advance ==
  /\ now < MaxNow /\ now' = now + 1
  /\ UNCHANGED <<ui, holder, disk, chain, task, step, frame, popups, writes, calls, crashes,
                 faults, loggedOut>>

\* The page goes away between two steps; the reloaded page mounts the session
\* provider, whose first effect calls boot.
Crash ==
  /\ crashes < MaxCrashes /\ crashes' = crashes + 1
  /\ status' = "boot" /\ phase' = None /\ did' = None /\ expires' = None
  /\ reconnecting' = FALSE
  /\ attached' = None /\ handles' = {} /\ swap' = FALSE /\ sync' = None /\ watch' = None
  /\ chain' = <<[kind |-> "boot"]>> /\ task' = None /\ step' = "idle" /\ frame' = NoFrame
  /\ login' = [l \in Logins |-> IF login[l].st = "new" THEN login[l] ELSE Closed]
  /\ recon' = [r \in Reconnects |-> IF recon[r].st = "new" THEN recon[r] ELSE Closed]
  /\ writes' = [w \in Writes |-> IF writes[w].st \in {"waiting", "bound"} THEN Rejected
                                  ELSE writes[w]]
  /\ UNCHANGED <<disk, now, calls, faults, loggedOut>>

(***************************************************************************)
(* The specification                                                       *)
(***************************************************************************)
\* A fresh install, or a session an earlier page persisted, live or expired.
Init ==
  /\ status = "boot" /\ phase = None /\ did = None /\ expires = None
  /\ reconnecting = FALSE
  /\ attached = None /\ handles = {} /\ swap = FALSE /\ sync = None /\ watch = None
  /\ anonSeed = None /\ used = {} /\ docs = [d \in DIDs |-> {}]
  /\ \/ sessSeed = None /\ record = None
     \/ \E a \in Accounts, s \in Spaces, e \in {0, Ttl} :
          sessSeed = a /\ record = [acct |-> a, space |-> s, exp |-> e]
  /\ chain = <<[kind |-> "boot"]>> /\ task = None /\ step = "idle" /\ frame = NoFrame
  /\ login = [l \in Logins |-> Unopened] /\ recon = [r \in Reconnects |-> Unopened]
  /\ writes = [w \in Writes |-> Fresh]
  /\ now = 0 /\ calls = 0 /\ faults = 0 /\ crashes = 0
  /\ loggedOut = FALSE

ChainStep ==
  \/ Begin \/ NoOp
  \/ BootMiss \/ BootRestore \/ BootRetriesLocal \/ BootGivesUp
  \/ LoginAbandoned \/ StartConnect \/ RenewDiscarded \/ StartRenew
  \/ StartTeardown \/ Drain \/ DrainDestroy \/ ClearAnonSeed \/ ForgetSession \/ Wipe
  \/ LoadOrCreateAnonSeed \/ OpenAnon \/ LandLocal \/ ReopenFails \/ OpenLocalRejects
  \/ Prepared \/ PrepareFails \/ Collect \/ Read \/ CollectFails
  \/ OpenConnected \/ MergeAndHydrate \/ SaveSeed \/ SaveRecord \/ ActivationFails
  \/ LandBoot \/ LandConnect \/ DiscardAnonReplica \/ DropAnonSeed
  \/ StopForRenew \/ LandRenew \/ RenewFails

PopupStep ==
  \/ \E l \in Logins : OpenLogin(l) \/ VerifyLogin(l) \/ FinishLogin(l) \/ CancelLogin(l)
  \/ \E r \in Reconnects : \/ OpenReconnect(r) \/ LeaveReconnect(r)
                           \/ AnswerReconnect(r) \/ CancelReconnect(r)

Next ==
  \/ ChainStep \/ PopupStep
  \/ \E t \in Calls : Call(t)
  \/ AuthError \/ WatchExpiry \/ SyncStarts \/ SyncFails
  \/ \E w \in Writes : IssueWrite(w) \/ LandWrite(w)
  \/ Advance \/ Crash

Spec == Init /\ [][Next]_vars

\* The chain runs its next step once the step before it has settled, and a sync
\* bootstrap settles.  Nothing obliges a wallet to answer or an app to call.
FairSpec == Spec /\ WF_vars(ChainStep) /\ WF_vars(SyncStarts \/ SyncFails)

(***************************************************************************)
(* Properties                                                              *)
(***************************************************************************)
\* Data of the anonymous identity is never replicated under the capabilities of a
\* wallet (beginSync: "would replicate whatever replica is attached by then (the
\* anonymous one) into the user's Space under the wallet's zcaps").
NoAnonymousSync == sync # None => sync.replica \in Accounts

\* Nothing that belongs to one session outlives it: a sync controller
\* replicates the replica of the very account whose capabilities it invokes,
\* whatever popup, notification, teardown or failure came in between (the epilogue
\* of reconnect "re-checks the session it is about to renew").
SyncsOwnReplica == sync # None => sync.replica = sync.acct

\* Between two tasks of the chain, a status that names a connected account means
\* that the replica of that account is attached (reopenLocal: "rather than keeping a
\* status that names a connected session whose replica is gone").
ConnectedIsOpen ==
  task = None /\ status \in {"connected", "reconnect"} => attached = did

\* The same of the anonymous session: a connect that fails lands in a `local` whose
\* replica is open (activateConnected: "so the app never dead-ends").
LocalIsOpen == task = None /\ status = "local" /\ did # None => attached = did

\* A sync controller or an expiry watch never outlives the session it serves:
\* between two tasks either exists only while that account is the live one
\* (deactivateStore, stopController).
NothingOutlivesSession ==
  task = None =>
    /\ sync # None \/ watch # None => status \in {"connected", "reconnect"}
    /\ sync # None => did = sync.acct

\* At most one replica is open at any moment of a transition, the collecting
\* handle of a merge login included (detachAndCollect, COL23), and the attached
\* one is open.
OneReplicaOpen ==
  /\ \A d, e \in handles : d = e
  /\ attached # None => attached \in handles

\* Between two tasks, a connected session is one a reload restores: the same
\* account, with the expiry the app shows (persistAppSession, bootImpl).
ReloadRestoresSession ==
  task = None /\ status \in {"connected", "reconnect"} =>
    record # None /\ sessSeed = did /\ record.acct = did /\ record.exp = expires

\* A connected session is replicating, and watches the expiry it shows, so that
\* the reconnect banner rises before a request fails (armExpiryWatch: "re-armed
\* with the fresh expiry after a reconnect").
ConnectedIsWatched ==
  task = None /\ status = "connected" => sync # None /\ watch = expires

\* Once a logout or a clear has completed, no reload restores the session, until
\* the user connects again: no popup opened before it brings the session back
\* ("persisting the record over a completed logout would undo it").
LogoutIsFinal == loggedOut => sessSeed = None \/ record = None

\* A write an entity store acknowledged is in a replica the app can still open:
\* a connected account's, or the anonymous one its persisted seed names.  Only a
\* deletion the user asked for loses it (collect, merge and discard of a merge
\* login; "the order is what keeps a lingering replica reachable").
AckedWriteReachable ==
  \A w \in Writes : writes[w].st = "acked" =>
    \E d \in Accounts \cup ({anonSeed} \ {None}) : w \in docs[d]

\* Once an erasing logout or a clear has completed with nothing failing under it, no
\* replica still holds what was deleted with one, or was in the live or the anonymous
\* replica when the clear began, the ones no session names any more included
\* (snapshotWipe: "exactly the orphan this snapshot prevents").
ErasedIsGone ==
  task = None /\ faults = 0 /\ crashes = 0 =>
    \A w \in Writes, d \in DIDs : writes[w].st = "erased" => w \notin docs[d]

\* The inductive invariants behind the theorems of SessionProofs.  ShapeInv: which
\* tasks may stand at which step.
AtAny(steps) == task # None /\ step \in steps
ShapeInv ==
  /\ At("stop") => Running({"renew"})
  /\ AtAny({"forget", "wipe"}) => Running({"logout", "clear"})
  /\ At("clearAnon") => Running({"clear"})
  /\ AtAny({"collect", "read", "discard", "dropSeed"}) => Connecting
  /\ AtAny({"prepare", "openConn", "hydrate"}) => Running({"boot", "login", "connect"})
  /\ AtAny({"saveSeed", "saveRecord", "land"}) => Running({"boot", "login", "connect", "renew"})
  /\ AtAny({"anonSeed", "openAnon", "landLocal"}) => ~Running({"destroy", "renew"})
  /\ At("drain") => ~Running({"renew"}) /\ (Running({"boot"}) => frame.falling)
  /\ frame.falling => Running({"boot", "login", "connect"})
  /\ AtAny({"prepare", "openConn", "hydrate", "saveSeed", "saveRecord", "land", "stop",
            "collect", "read"}) => frame.grants \in Grants
  /\ Connecting /\ step # "begin" => frame.grants \in Grants
  /\ AtAny({"openAnon", "landLocal"}) => anonSeed # None
  /\ At("read") => did # None

\* A session that was logged out is not live, nothing is about to make it so, and a
\* logout past clearAppSession has left no seed to restore.
LogoutInv ==
  /\ LogoutIsFinal
  /\ loggedOut => status \in {"boot", "local"}
  /\ Connecting /\ step # "begin" => ~loggedOut
  /\ Running({"renew"}) /\ step # "begin" => ~loggedOut
  /\ AtAny({"prepare", "openConn", "hydrate", "saveSeed", "saveRecord", "land"}) => ~loggedOut
  /\ Running({"logout", "clear"}) /\ AtAny({"wipe", "anonSeed", "openAnon", "landLocal"})
       => sessSeed = None

\* No fault in a step whose failure leaves behind a status whose replica is gone:
\* every step of clearLocalData, and the clearAppSession of a logout.
NoStrandingFaults == \A f \in Faults : f[1] # "clear" /\ f # <<"logout", "forget">>

\* The replica of a connected account is attached whenever a task may start or
\* return over it, and the steps of an activation work on the replica it opened.
OpenInv ==
  /\ NoAnonymousSync
  /\ status \in {"connected", "reconnect"} => did \in Accounts
  /\ (task = None \/ step \in {"begin", "prepare", "discard", "dropSeed"})
       /\ status \in {"connected", "reconnect"} => attached = did
  /\ Running({"boot"}) /\ step # "begin" => status = "boot"
  /\ Running({"renew"}) /\ step # "begin" => status = "reconnect" /\ attached = did
  /\ Running({"boot", "login", "connect"}) /\ AtAny({"hydrate", "saveSeed", "saveRecord", "land"})
       => attached = frame.grants.acct
  /\ Connecting /\ ~frame.falling /\ AtAny({"read", "anonSeed", "openAnon", "landLocal"})
       => status = "local"

\* Where the replica is attached and which session the running task stands over,
\* whatever fails: the steps after a teardown have none, those of an activation the
\* one it opened, and only an anonymous identity is ever `local`.
Activated == {"hydrate", "saveSeed", "saveRecord", "land", "discard", "dropSeed"}
AttachInv ==
  /\ frame.closing # None => At("drain")
  /\ AtAny({"drain", "clearAnon", "forget", "wipe", "collect", "read"}) => attached = None
  /\ Connecting /\ At("openConn") => attached = None
  /\ At("landLocal") => attached = anonSeed
  /\ AtAny(Activated) /\ ~Running({"renew"}) => attached = frame.grants.acct
  /\ AtAny({"discard", "dropSeed"}) => status \in {"connected", "reconnect"}
  /\ Running({"boot"}) /\ step # "begin" => status = "boot"
  /\ Running({"renew"}) /\ step # "begin" => status = "reconnect"
  /\ At("read") => FromLocal
  /\ status = "local" => did \in Optional(Anons)
  /\ status = "boot" => did = None

\* No step fails once it has attached the anonymous replica: a boot that gives up
\* there, or a re-open, keeps it open under `boot`.
NoHalfOpenFaults == \A f \in Faults : f[2] # "landLocal"

\* The open handles are the attached replica, the one a teardown has still to close
\* and the one a merge login collects from; a boot starts with none.
HandleInv ==
  /\ handles = ({attached, frame.closing} \cup (IF At("read") THEN {did} ELSE {})) \ {None}
  /\ AtAny({"anonSeed", "openAnon", "openConn"}) => attached = None
  /\ status = "boot" /\ (task = None \/ step \in {"begin", "prepare"}) => attached = None

\* A write runs over a replica that is attached or about to close, and that a session
\* or the anonymous seed names.  What a merge login collected is all the anonymous
\* replica holds until that is deleted, and from the merge on the connected one holds it.
\* A clear that drops the anonymous seed has no acknowledged write left in its replica.
Merged == {"saveSeed", "saveRecord", "land", "discard", "dropSeed"}
AckedInv ==
  /\ AckedWriteReachable
  /\ \A w \in Writes : writes[w].st = "bound" => writes[w].db \in {attached, frame.closing} \ {None}
  /\ {attached, frame.closing} \subseteq Accounts \cup {anonSeed, None}
  /\ AtAny({"begin", "prepare", "collect", "read"}) \/ ~Connecting => frame.source = {}
  /\ At("drain") /\ ~frame.falling => frame.source = {}
  /\ AtAny(Activated \cup {"openConn"}) /\ frame.source # {} =>
       /\ anonSeed # None /\ frame.named = {anonSeed}
       /\ docs[anonSeed] \subseteq frame.source
  /\ AtAny(Merged) => frame.source \subseteq docs[frame.grants.acct]
  /\ At("discard") => frame.source # {}
  /\ At("dropSeed") => frame.source # {} /\ docs[anonSeed] = {}
  /\ Running({"clear"}) /\ AtAny({"drain", "clearAnon"}) =>
       \A w \in Writes, d \in {anonSeed} \ {None} : writes[w].st = "acked" => w \notin docs[d]

\* No failed collect of a merge login is followed by a failed opening of the anonymous
\* replica, whose rejection the login passes on with nothing attached.
NoStrandedCollect ==
  \A f, g \in Faults : f[1] \in {"login", "connect"} /\ f[2] \in {"collect", "read"} /\ g[1] = f[1]
    => g[2] \notin {"anonSeed", "openAnon", "landLocal"}

\* The anonymous replica is attached wherever a task may start or return over it; a
\* connect re-opens it without undoing an activation only after a failed collect.
LocalInv ==
  /\ status = "local" /\ did # None /\ (task = None \/ step \in {"begin", "prepare"})
       => attached = did
  /\ Connecting /\ ~frame.falling /\ AtAny({"anonSeed", "openAnon", "landLocal"})
       => \E f \in Faults : f[1] = task.kind /\ f[2] \in {"collect", "read"}

\* While nothing failed: a write is in one replica, or in two from the merge to the
\* discard, and only once it landed; what a clear erased stays in the replicas it named
\* until it wipes them.
Calm == faults = 0 /\ crashes = 0
ErasedInv == Calm =>
  /\ task = None \/ step \in {"begin", "discard", "dropSeed"} \/ Running({"renew"})
       => attached \in {did, None}
  /\ \A w \in Writes, d \in DIDs : w \in docs[d] => writes[w].st \in {"acked", "erased"}
  /\ \A w \in Writes, d, e \in DIDs : w \in docs[d] /\ w \in docs[e] /\ d # e =>
       AtAny(Merged) /\ frame.source # {} /\ {d, e} = {frame.grants.acct, anonSeed}
  /\ AtAny({"openConn", "hydrate"}) /\ frame.source # {} => frame.source \subseteq docs[anonSeed]
  /\ Running({"clear"}) /\ At("drain") => frame.closing \in frame.named \cup {None}
  /\ \A w \in Writes, d \in DIDs : writes[w].st = "erased" /\ w \in docs[d] =>
       Running({"clear"}) /\ AtAny({"drain", "clearAnon", "forget", "wipe"}) /\ d \in frame.named

\* Every reconnect popup reads the persisted session of the account it is opened for:
\* what finding 1 breaks, where the login of another account has persisted its seed.
PeekedOwn == \A r \in Reconnects : recon[r].st = "open" => recon[r].acct = recon[r].did

\* A renewal is of the account its popup was opened for.
OwnInv ==
  /\ \A i \in DOMAIN chain : chain[i].kind = "renew" => chain[i].grants.acct = chain[i].did
  /\ Running({"renew"}) => task.grants.acct = task.did
  /\ Running({"renew"}) /\ step # "begin" => frame.grants.acct = did

\* A sync controller is of the account the status names until a teardown or a renewal
\* has stopped it, and the expiry watch until a teardown disarms it.
SyncInv ==
  /\ SyncsOwnReplica
  /\ sync # None =>
       /\ status \in {"connected", "reconnect"} /\ did = sync.acct
       /\ task = None \/ step \in {"begin", "prepare", "drain", "stop", "discard", "dropSeed"}
  /\ watch # None =>
       /\ status \in {"connected", "reconnect"}
       /\ task = None \/ step \in {"begin", "prepare", "discard", "dropSeed"} \/ Running({"renew"})

\* No wallet answers without a storage grant, and no connectWithGrants is given none.
AllGranted == ~GrantLess /\ \A c \in Calls : c.kind = "connect" => c.grants.space # None

\* Under AllGranted no grants without a space are queued, in use or persisted, and only a
\* boot restores.
Granting == {"login", "connect", "renew"}
GrantedInv ==
  /\ record # None => record.space # None
  /\ \A i \in DOMAIN chain : chain[i].kind \in Granting => chain[i].grants.space # None
  /\ Running(Granting) => task.grants.space # None
  /\ frame.grants # None => frame.grants.space # None
  /\ ~Running({"boot"}) => frame.restore = "login"

\* A connected status wherever a task may start or return over it is what the disk holds;
\* an activation lands once both of its writes are there, a restore over those it read.
RecordInv ==
  /\ status \in {"connected", "reconnect"}
       /\ (\/ task = None \/ step \in {"begin", "prepare", "discard", "dropSeed"}
           \/ Running({"renew"}) /\ step \in {"stop", "saveSeed", "saveRecord"})
       => record # None /\ sessSeed = did /\ record.acct = did /\ record.exp = expires
  /\ Running({"boot"}) /\ AtAny({"prepare", "openConn", "hydrate", "saveSeed", "saveRecord"})
       => record = frame.grants /\ sessSeed = frame.grants.acct
  /\ At("saveRecord") => sessSeed = frame.grants.acct
  /\ At("land") => record = frame.grants /\ sessSeed = frame.grants.acct

\* The same of the sync controller and the expiry watch of a connected session.
WatchInv ==
  status = "connected" /\ (task = None \/ step \in {"begin", "prepare", "discard", "dropSeed"})
    => sync # None /\ watch = expires

\* Every answered login reaches its end: no step of the chain waits forever on
\* something only a later step would bring (serializeLifecycle: "the chain cannot
\* deadlock").
AnswerSettles ==
  \A l \in Logins : login[l].st = "queued" ~> login[l].st # "queued"

\* A write waiting on a replica swap is always answered (endSwap in the finally of
\* completeConnect).
SwapSettles == \A w \in Writes : writes[w].st = "waiting" ~> writes[w].st # "waiting"

=============================================================================
