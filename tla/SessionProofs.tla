---------------------------- MODULE SessionProofs ----------------------------
(***************************************************************************)
(* What holds of Session for every value of its constants: the type        *)
(* invariant, the finality of a logout, and, when no stranding step fails,  *)
(* that a connected session has its replica attached and that no anonymous *)
(* replica is ever replicated.  The invariants are those of Session:       *)
(* TypeOK with ShapeInv, then LogoutInv, then OpenInv.                      *)
(***************************************************************************)
EXTENDS Session, TLAPS

\* The frame of an idle chain is a frame.
LEMMA NoFrameType == NoFrame \in Frame
BY ConstantsOK DEF NoFrame, Frame, Optional

\* Every update the steps make to the frame yields a frame.
LEMMA FrameUpdates ==
  ASSUME NEW f \in Frame
  PROVE /\ \A g \in Optional(Grants) : [f EXCEPT !.grants = g] \in Frame
        /\ \A d \in Optional(DIDs) : [f EXCEPT !.closing = d] \in Frame
        /\ [f EXCEPT !.falling = TRUE] \in Frame
        /\ [f EXCEPT !.minted = TRUE] \in Frame
        /\ \A N \in SUBSET DIDs : [f EXCEPT !.named = N] \in Frame
        /\ [f EXCEPT !.retried = TRUE, !.falling = FALSE, !.minted = FALSE] \in Frame
        /\ [f EXCEPT !.falling = TRUE, !.restore = "corrupt"] \in Frame
        /\ \A g \in Optional(Grants), r \in {"live", "expired"} :
             [f EXCEPT !.grants = g, !.restore = r] \in Frame
        /\ \A W \in SUBSET Writes, N \in SUBSET DIDs :
             [f EXCEPT !.source = W, !.named = N] \in Frame
BY DEF Frame, Optional

\* The types of the fields of the frame.
LEMMA FrameFields == frame \in Frame =>
  /\ frame.grants \in Optional(Grants)
  /\ frame.source \in SUBSET Writes /\ frame.named \in SUBSET DIDs /\ frame.closing \in Optional(DIDs)
  /\ frame.restore \in {"login", "live", "expired", "corrupt"}
BY DEF Frame

\* The types of the fields of a grant.
LEMMA GrantsFields == ASSUME NEW g \in Grants
  PROVE g.acct \in Accounts /\ g.space \in Optional(Spaces) /\ g.exp \in Nat
BY DEF Grants

\* A task that carries grants carries well-typed ones.
LEMMA TaskFields == ASSUME NEW t \in Tasks
  PROVE /\ t.kind \in {"login", "connect", "renew"} => t.grants \in Grants
        /\ t.kind = "login" => t.who \in Logins
BY DEF Tasks

\* Every task an action enqueues is a task.
LEMMA CalledTasks ==
  /\ [kind |-> "boot"] \in Tasks /\ [kind |-> "logout", wipe |-> FALSE] \in Tasks
  /\ \A c \in Calls : c \in Tasks
  /\ \A g \in Grants, d \in Optional(DIDs) : [kind |-> "renew", did |-> d, grants |-> g] \in Tasks
  /\ \A g \in Grants, d \in Optional(DIDs), l \in Logins, m \in BOOLEAN, s \in Statuses :
       [kind |-> "login", who |-> l, merge |-> m, status |-> s, did |-> d, grants |-> g] \in Tasks
BY ConstantsOK DEF Tasks, Statuses

\* The head and the tail of a non-empty chain are a task and a chain.
LEMMA ChainEnds ==
  ASSUME chain \in Seq(Tasks), chain # <<>>
  PROVE Head(chain) \in Tasks /\ Tail(chain) \in Seq(Tasks)
OBVIOUS

\* Enqueuing a task yields a chain.
LEMMA ChainGrows ==
  ASSUME NEW t \in Tasks, chain \in Seq(Tasks)
  PROVE Append(chain, t) \in Seq(Tasks)
OBVIOUS

\* The constant states of a popup and of a write are well-typed.
LEMMA CallTypes ==
  /\ Closed \in LoginCall /\ Queued \in LoginCall /\ Unopened \in LoginCall
  /\ Closed \in ReconnectCall /\ Leaving \in ReconnectCall /\ Unopened \in ReconnectCall
  /\ Fresh \in Write /\ Rejected \in Write /\ Erased \in Write
BY DEF LoginCall, ReconnectCall, Write, Closed, Queued, Unopened, Leaving, Fresh, Rejected,
       Erased, Optional

\* A write in any state over any replica is well-typed.
LEMMA WriteTypes ==
  ASSUME NEW d \in Optional(DIDs), NEW s \in {"new", "waiting", "bound", "acked", "rejected", "erased"}
  PROVE [st |-> s, db |-> d] \in Write
BY DEF Write

\* A task that settles leaves the chain, the callers and the swap well-typed.
LEMMA ReturnTypes ==
  ASSUME TypeOK, NEW d \in Optional(DIDs), Return(d)
  PROVE TypeChain' /\ TypeCallers' /\ swap' \in BOOLEAN /\ UNCHANGED bounds
<1>1. TypeChain'
  BY NoFrameType DEF Return, TypeOK, TypeChain, Optional, Steps
<1>2. writes' \in [Writes -> Write] /\ swap' \in BOOLEAN
  <2>1. \A w \in Writes : writes[w] \in Write
    BY DEF TypeOK, TypeCallers
  <2>2. d # None => [st |-> "bound", db |-> d] \in Write
    BY WriteTypes
  <2> QED BY <2>1, <2>2, CallTypes DEF Return, EndSwap
<1>3. login' \in [Logins -> LoginCall]
  BY CallTypes DEF Return, TypeOK, TypeCallers
<1> QED BY <1>1, <1>2, <1>3 DEF Return, TypeOK, TypeCallers

\* So does the head of a teardown, with the holder it detaches.
LEMMA DetachTypes ==
  ASSUME TypeOK, NEW f \in Frame, Detach(f)
  PROVE TypeChain' /\ attached' \in Optional(DIDs) /\ watch' \in Optional(Nat)
<1>1. frame' \in Frame
  BY FrameUpdates DEF Detach, TypeOK, TypeHolder
<1> QED BY <1>1 DEF Detach, Goto, TypeOK, TypeChain, Steps, Optional

\* Deleting any set of replicas keeps the writes and the documents well-typed.
LEMMA DeleteTypes ==
  ASSUME TypeOK, NEW R, Delete(R)
  PROVE writes' \in [Writes -> Write] /\ docs' \in [DIDs -> SUBSET Writes]
BY CallTypes DEF Delete, TypeOK, TypeCallers, TypeDisk

\* Closing a database keeps the writes well-typed.
LEMMA CloseTypes ==
  ASSUME TypeOK, NEW d, Close(d)
  PROVE writes' \in [Writes -> Write]
BY CallTypes DEF Close, TypeOK, TypeCallers

\* Starting sync with well-typed grants yields a well-typed controller and watch.
LEMMA SyncTypes ==
  ASSUME TypeOK, frame.grants \in Grants, StartSync
  PROVE sync' \in Optional(Sync) /\ watch' \in Optional(Nat)
BY GrantsFields DEF StartSync, TypeOK, TypeHolder, Sync, Optional

\* The fields of a login whose popup is open.
LEMMA OpenLoginFields ==
  ASSUME TypeOK, NEW l \in Logins, login[l].st \in {"open", "verifying"}
  PROVE /\ login[l].status \in Statuses /\ login[l].did \in Optional(DIDs) /\ login[l].merge \in BOOLEAN
        /\ [login[l] EXCEPT !.st = "verifying"] \in LoginCall
BY DEF TypeOK, TypeCallers, LoginCall, Unopened, Closed, Queued, Statuses

\* The fields of a reconnect whose popup is open.
LEMMA OpenReconnectFields ==
  ASSUME TypeOK, NEW r \in Reconnects, recon[r].st = "open"
  PROVE recon[r].did \in Optional(DIDs) /\ recon[r].acct \in Accounts
BY DEF TypeOK, TypeCallers, ReconnectCall, Unopened, Closed, Leaving

\* A popup opened over any session is well-typed.
LEMMA OpenedCalls ==
  /\ \A s \in Statuses, d \in Optional(DIDs), m \in BOOLEAN :
       [st |-> "open", status |-> s, did |-> d, merge |-> m] \in LoginCall
  /\ \A d \in Optional(DIDs), a \in Accounts, b \in Optional(Grants) :
       [st |-> "open", did |-> d, acct |-> a, base |-> b] \in ReconnectCall
BY DEF LoginCall, ReconnectCall, Statuses

\* The replica a write is bound to, if any.
LEMMA BoundWrite ==
  ASSUME TypeOK, NEW w \in Writes
  PROVE writes[w].db \in Optional(DIDs)
BY DEF TypeOK, TypeCallers, Write

\* The grants a wallet returns now are grants.
LEMMA NewGrants ==
  ASSUME TypeOK, NEW a \in Accounts, NEW s \in Optional(Spaces)
  PROVE [acct |-> a, space |-> s, exp |-> now + Ttl] \in Grants
BY ConstantsOK DEF TypeOK, TypeBounds, Grants

\* Ending a swap keeps the writes well-typed.
LEMMA EndSwapTypes ==
  ASSUME TypeOK, NEW d \in Optional(DIDs), EndSwap(d)
  PROVE writes' \in [Writes -> Write] /\ swap' \in BOOLEAN
<1>1. \A w \in Writes : writes[w] \in Write
  BY DEF TypeOK, TypeCallers
<1>2. d # None => [st |-> "bound", db |-> d] \in Write
  BY WriteTypes
<1> QED BY <1>1, <1>2, CallTypes DEF EndSwap

\* Every task is of one of the seven kinds.
LEMMA TaskKinds == ASSUME NEW t \in Tasks
  PROVE t.kind \in {"boot", "destroy", "clear", "logout", "connect", "login", "renew"}
BY DEF Tasks

\* A teardown that is neither of destroy nor of a failed activation belongs to a
\* logout, a clear or a connect.
LEMMA DrainKinds ==
  ASSUME TypeOK, ShapeInv, At("drain"), ~Running({"destroy"}), ~frame.falling
  PROVE Running({"logout", "clear"}) \/ Connecting
BY TaskKinds DEF ShapeInv, At, Running, Connecting, TypeOK, TypeChain, Optional

\* The type invariant is inductive relative to ShapeInv, which says at which steps the
\* frame holds grants.
LEMMA TypeStep ==
  ASSUME TypeOK, ShapeInv, Next
  PROVE TypeOK'
<1> USE ConstantsOK DEF ui, holder, disk, popups, bounds, Optional, DIDs
<1>1. CASE Begin
  <2>1. TypeChain' BY <1>1, NoFrameType, ChainEnds DEF Begin, TypeOK, TypeChain, Steps
  <2> QED BY <1>1, <2>1 DEF Begin, TypeOK, TypeUi, TypeHolder, TypeDisk, TypeCallers, TypeBounds
<1>2. CASE NoOp
  <2>1. TypeChain' /\ TypeCallers' /\ swap' \in BOOLEAN /\ UNCHANGED bounds
    BY <1>2, ReturnTypes DEF NoOp, TypeOK, TypeHolder
  <2> QED BY <1>2, <2>1 DEF NoOp, Statuses, TypeOK, TypeUi, TypeHolder, TypeDisk, TypeBounds
<1>3. CASE BootMiss
  <2>1. TypeChain' BY <1>3, GrantsFields DEF BootMiss, Goto, TypeOK, TypeChain, Steps
  <2> QED BY <1>3, GrantsFields, <2>1 DEF BootMiss, Goto, TypeOK, TypeUi, TypeHolder,
       TypeCallers, TypeBounds, TypeDisk
<1>4. CASE BootRestore
  <2>1. TypeChain' BY <1>4, FrameUpdates DEF BootRestore, Goto, TypeOK, TypeUi, TypeHolder,
       TypeDisk, TypeChain, TypeCallers, TypeBounds, Statuses, Steps
  <2> QED BY <1>4, <2>1 DEF BootRestore, Goto, TypeOK, TypeUi, TypeHolder, TypeDisk,
       TypeCallers, TypeBounds
<1>5. CASE BootRetriesLocal
  <2>1. TypeChain' BY <1>5, FrameUpdates, FrameFields DEF BootRetriesLocal, Goto, TypeOK,
       TypeChain, Steps
  <2> QED BY <1>5, FrameFields, <2>1 DEF BootRetriesLocal, Goto, Fail, TypeOK, TypeUi,
       TypeHolder, TypeDisk, TypeCallers, TypeBounds
<1>6. CASE BootGivesUp
  <2>1. TypeChain' /\ TypeCallers' /\ swap' \in BOOLEAN /\ UNCHANGED bounds
    BY <1>6, ReturnTypes DEF BootGivesUp, TypeOK, TypeHolder
  <2> QED BY <1>6, <2>1 DEF BootGivesUp, Fail, Statuses, TypeOK, TypeUi, TypeHolder, TypeDisk,
       TypeBounds
<1>7. CASE LoginAbandoned
  <2>1. TypeChain' /\ TypeCallers' /\ swap' \in BOOLEAN /\ UNCHANGED bounds
    BY <1>7, ReturnTypes DEF LoginAbandoned, TypeOK, TypeHolder
  <2> QED BY <1>7, <2>1 DEF LoginAbandoned, Statuses, TypeOK, TypeUi, TypeHolder, TypeDisk,
       TypeBounds
<1>8. CASE StartConnect
  <2>1. TypeChain' BY <1>8, TaskFields, FrameUpdates DEF StartConnect, At, Connecting,
       TaskIsNoOp, Running, SameSession, Goto, TypeOK, TypeChain, Steps, ShapeInv, AtAny
  <2>2. TypeBounds' BY <1>8, TaskFields DEF StartConnect, TypeOK, TypeBounds
  <2> QED BY <1>8, <2>1, <2>2 DEF StartConnect, Goto, TypeOK, TypeUi, TypeHolder, TypeDisk,
       TypeCallers
<1>9. CASE RenewDiscarded
  <2>1. TypeChain' /\ TypeCallers' /\ swap' \in BOOLEAN /\ UNCHANGED bounds
    BY <1>9, ReturnTypes DEF RenewDiscarded, TypeOK, TypeHolder
  <2>2. TypeUi' /\ TypeDisk'
    BY <1>9 DEF RenewDiscarded, Statuses, TypeOK, TypeUi, TypeDisk
  <2>3. TypeHolder' /\ TypeBounds'
    BY <1>9, <2>1 DEF RenewDiscarded, TypeOK, TypeHolder, TypeBounds
  <2> QED BY <2>1, <2>2, <2>3 DEF TypeOK
<1>10. CASE StartRenew
  <2>1. TypeChain' BY <1>10, TaskFields, FrameUpdates DEF StartRenew, At, Running, StillToRenew,
       Goto, TypeOK, TypeChain, Steps, ShapeInv, AtAny
  <2> QED BY <1>10, <2>1 DEF StartRenew, Goto, TypeOK, TypeUi, TypeHolder, TypeDisk,
       TypeCallers, TypeBounds
<1>11. CASE StartTeardown
  <2>1. TypeChain'
    <3>1. WipeTargets \in SUBSET DIDs
      BY DEF WipeTargets, Running, TypeOK, TypeUi, TypeDisk, Statuses
    <3>2. [frame EXCEPT !.named = WipeTargets] \in Frame
      BY <3>1, FrameUpdates DEF TypeOK, TypeChain
    <3> QED BY <3>2, <1>11, DetachTypes DEF StartTeardown
  <2>2. TypeCallers' BY <1>11, CallTypes DEF StartTeardown, At, Detach, WipeTargets, Goto,
       TypeOK, TypeCallers, TypeUi, TypeDisk, TypeHolder
  <2> QED BY <1>11, <2>1, <2>2 DEF StartTeardown, Goto, Detach, Sync, TypeOK, TypeUi, TypeDisk,
       TypeBounds, TypeHolder
<1>12. CASE Drain
  <2>1. TypeChain' BY <1>12, FrameFields, FrameUpdates DEF Drain, At, Running, StopAndClose,
       Goto, AfterDrain, BootstrapSettled, Deletes, Delete, Close, Fail, Rejected, Erased,
       Erasing, TypeOK, TypeChain, Steps, ShapeInv, AtAny
  <2>2. TypeCallers' BY <1>12, FrameFields, CallTypes, DeleteTypes, CloseTypes DEF Drain, At,
       StopAndClose, Goto, AfterDrain, BootstrapSettled, Deletes, Fail, Erasing, TypeOK,
       TypeCallers, TypeUi, TypeDisk, TypeHolder
  <2> QED BY <1>12, FrameFields, <2>1, <2>2 DEF Drain, StopAndClose, Goto, Close, Sync, Delete,
       Fail, TypeOK, TypeUi, TypeHolder, TypeDisk, TypeBounds
<1>13. CASE DrainDestroy
  <2>1. TypeUi' BY <1>13 DEF DrainDestroy, TypeOK, TypeUi, Statuses
  <2>2. TypeHolder' BY <1>13, FrameFields DEF DrainDestroy, StopAndClose, TypeOK, TypeHolder,
       Sync
  <2>3. TypeDisk' BY <1>13, FrameFields DEF DrainDestroy, StopAndClose, Delete, Close, TypeOK,
       TypeDisk
  <2>4. TypeChain' BY <1>13, NoFrameType DEF DrainDestroy, TypeOK, TypeChain, Steps
  <2>5. TypeCallers' BY <1>13, FrameFields, CallTypes, DeleteTypes, CloseTypes DEF DrainDestroy,
       At, StopAndClose, BootstrapSettled, Deletes, Fail, Erasing, TypeOK, TypeCallers, TypeUi,
       TypeDisk, TypeHolder
  <2>6. TypeBounds' BY <1>13, FrameFields DEF DrainDestroy, StopAndClose, Fail, TypeOK,
       TypeBounds
  <2> QED BY <1>13, <2>1, <2>2, <2>3, <2>4, <2>5, <2>6 DEF DrainDestroy, TypeOK
<1>14. CASE ClearAnonSeed
  <2>1. TypeUi' BY <1>14 DEF ClearAnonSeed, Goto, Return, TypeOK, TypeUi
  <2>2. TypeHolder' BY <1>14, TaskFields DEF ClearAnonSeed, Return, EndSwap, TypeOK, TypeHolder,
       Sync
  <2>3. TypeDisk' BY <1>14 DEF ClearAnonSeed, TypeOK, TypeDisk
  <2>4. TypeChain' BY <1>14, NoFrameType, TaskFields DEF ClearAnonSeed, Goto, Return, TypeOK,
       TypeChain, Steps
  <2>5. TypeCallers' BY <1>14, TaskFields, CallTypes, ReturnTypes DEF ClearAnonSeed, At, Goto,
       Fail, TypeOK, TypeCallers, TypeUi, TypeDisk, TypeHolder
  <2>6. TypeBounds' BY <1>14, TaskFields DEF ClearAnonSeed, Fail, TypeOK, TypeBounds
  <2> QED BY <1>14, <2>1, <2>2, <2>3, <2>4, <2>5, <2>6 DEF ClearAnonSeed, TypeOK
<1>15. CASE ForgetSession
  <2>1. TypeUi' BY <1>15 DEF ForgetSession, Goto, Return, TypeOK, TypeUi
  <2>2. TypeHolder' BY <1>15, FrameFields, TaskFields DEF ForgetSession, Return, EndSwap,
       TypeOK, TypeHolder, Sync
  <2>3. TypeDisk' BY <1>15, FrameFields DEF ForgetSession, TypeOK, TypeDisk
  <2>4. TypeChain' BY <1>15, NoFrameType, FrameFields, TaskFields DEF ForgetSession, Goto,
       Return, TypeOK, TypeChain, Steps
  <2>5. TypeCallers' BY <1>15, FrameFields, TaskFields, CallTypes, ReturnTypes DEF
       ForgetSession, At, Goto, Fail, TypeOK, TypeCallers, TypeUi, TypeDisk, TypeHolder
  <2>6. TypeBounds' BY <1>15, FrameFields, TaskFields DEF ForgetSession, Fail, TypeOK,
       TypeBounds
  <2> QED BY <1>15, <2>1, <2>2, <2>3, <2>4, <2>5, <2>6 DEF ForgetSession, TypeOK
<1>16. CASE Wipe
  <2>1. TypeChain' BY <1>16, FrameFields DEF Wipe, Goto, TypeOK, TypeChain, Steps
  <2>2. TypeCallers' BY <1>16, FrameFields, CallTypes, DeleteTypes DEF Wipe, At, Fail, Goto,
       TypeOK, TypeCallers, TypeUi, TypeDisk, TypeHolder
  <2> QED BY <1>16, FrameFields, <2>1, <2>2 DEF Wipe, Goto, Delete, Fail, TypeOK, TypeUi,
       TypeHolder, TypeDisk, TypeBounds
<1>17. CASE LoadOrCreateAnonSeed
  <2>1. TypeChain' BY <1>17, FrameUpdates DEF LoadOrCreateAnonSeed, Goto, TypeOK, TypeChain,
       Steps
  <2> QED BY <1>17, <2>1 DEF LoadOrCreateAnonSeed, Goto, TypeOK, TypeUi, TypeHolder,
       TypeCallers, TypeBounds, TypeDisk
<1>18. CASE OpenAnon
  BY <1>18 DEF OpenAnon, Goto, At, AtAny, ShapeInv, Statuses, Steps, TypeOK, TypeUi, TypeDisk,
     TypeCallers, TypeBounds, TypeHolder, TypeChain
<1>19. CASE LandLocal
  <2>1. TypeChain' /\ TypeCallers' /\ swap' \in BOOLEAN /\ UNCHANGED bounds
    BY <1>19, ReturnTypes DEF LandLocal, TypeOK, TypeHolder
  <2> QED BY <1>19, <2>1 DEF LandLocal, Statuses, TypeOK, TypeUi, TypeHolder, TypeDisk,
       TypeBounds
<1>20. CASE ReopenFails
  <2>1. TypeChain' /\ TypeCallers' /\ swap' \in BOOLEAN /\ UNCHANGED bounds
    BY <1>20, ReturnTypes DEF ReopenFails, TypeOK, TypeHolder
  <2>2. TypeUi' /\ TypeDisk'
    BY <1>20 DEF ReopenFails, Statuses, TypeOK, TypeUi, TypeDisk
  <2>3. TypeHolder' /\ TypeBounds'
    BY <1>20, <2>1 DEF ReopenFails, Fail, TypeOK, TypeHolder, TypeBounds
  <2> QED BY <2>1, <2>2, <2>3 DEF TypeOK
<1>21. CASE OpenLocalRejects
  <2>1. TypeChain' /\ TypeCallers' /\ swap' \in BOOLEAN /\ UNCHANGED bounds
    BY <1>21, ReturnTypes DEF OpenLocalRejects, TypeOK, TypeHolder
  <2> QED BY <1>21, <2>1 DEF OpenLocalRejects, Fail, Statuses, TypeOK, TypeUi, TypeHolder,
       TypeDisk, TypeBounds
<1>22. CASE Prepared
  <2>1. TypeHolder' BY <1>22 DEF Prepared, At, Running, Goto, Detach, CarriesAnonData, TypeOK,
       TypeHolder, Sync, ShapeInv, AtAny
  <2>2. TypeChain' BY <1>22, FrameUpdates, DetachTypes DEF Prepared, At, Running, Goto,
       CarriesAnonData, TypeOK, TypeChain, TypeHolder, Steps
  <2> QED BY <1>22, <2>1, <2>2 DEF Prepared, Goto, TypeOK, TypeUi, TypeDisk, TypeCallers,
       TypeBounds
<1>23. CASE PrepareFails
  <2>1. TypeDisk' BY <1>23 DEF PrepareFails, Return, Goto, TypeOK, TypeDisk
  <2>2. TypeUi' BY <1>23 DEF PrepareFails, TypeOK, TypeUi, Statuses
  <2>3. TypeHolder' BY <1>23, TaskFields DEF PrepareFails, Fall, Return, EndSwap, Detach,
       TypeOK, TypeHolder, Sync
  <2>4. TypeChain' BY <1>23, FrameUpdates, NoFrameType, TaskFields, DetachTypes, ReturnTypes DEF
       PrepareFails, At, Fail, Running, Fall, Closed, Rejected, Goto, TypeOK, TypeChain,
       TypeHolder, Steps
  <2>5. TypeCallers' BY <1>23, TaskFields, CallTypes, ReturnTypes DEF PrepareFails, At, Fail,
       Fall, Detach, Goto, TypeOK, TypeCallers, TypeUi, TypeDisk, TypeHolder
  <2>6. TypeBounds' BY <1>23, TaskFields DEF PrepareFails, At, Fail, Running, Fall, Return,
       EndSwap, Closed, Rejected, Detach, Goto, TypeOK, TypeBounds, ShapeInv, AtAny
  <2> QED BY <1>23, <2>1, <2>2, <2>3, <2>4, <2>5, <2>6 DEF PrepareFails, TypeOK
<1>24. CASE Collect
  BY <1>24 DEF Collect, Goto, NothingToCollect, FromLocal, Statuses, Steps, TypeOK, TypeUi,
     TypeDisk, TypeCallers, TypeBounds, TypeHolder, TypeChain
<1>25. CASE Read
  <2>1. TypeChain' BY <1>25, FrameUpdates DEF Read, At, ShapeInv, Goto, TypeOK, TypeUi,
       TypeHolder, TypeDisk, TypeChain, TypeCallers, TypeBounds, Statuses, Steps
  <2> QED BY <1>25, <2>1 DEF Read, Goto, Sync, TypeOK, TypeUi, TypeDisk, TypeCallers,
       TypeBounds, TypeHolder
<1>26. CASE CollectFails
  BY <1>26 DEF CollectFails, Goto, Sync, Fail, Steps, TypeOK, TypeUi, TypeDisk, TypeCallers,
     TypeHolder, TypeBounds, TypeChain
<1>27. CASE OpenConnected
  <2>1. TypeChain' BY <1>27, FrameFields, GrantsFields DEF OpenConnected, Goto, TypeOK,
       TypeChain, Steps
  <2> QED BY <1>27, FrameFields, GrantsFields, <2>1 DEF OpenConnected, Goto, At, Sync, ShapeInv,
       AtAny, Running, TypeOK, TypeUi, TypeDisk, TypeCallers, TypeBounds, TypeHolder
<1>28. CASE MergeAndHydrate
  <2>1. TypeDisk' BY <1>28, FrameFields DEF MergeAndHydrate, TypeOK, TypeUi, TypeHolder,
       TypeDisk, TypeChain, TypeCallers, TypeBounds, Statuses, Steps
  <2>2. TypeChain' BY <1>28, FrameFields, GrantsFields DEF MergeAndHydrate, At, Goto,
       AfterHydrate, TypeOK, TypeChain, Steps, ShapeInv, AtAny, Running
  <2> QED BY <1>28, <2>1, <2>2 DEF MergeAndHydrate, Goto, TypeOK, TypeUi, TypeHolder,
       TypeCallers, TypeBounds
<1>29. CASE SaveSeed
  <2>1. TypeChain' BY <1>29, FrameFields, GrantsFields DEF SaveSeed, Goto, TypeOK, TypeChain,
       Steps
  <2> QED BY <1>29, FrameFields, GrantsFields, <2>1 DEF SaveSeed, Goto, At, ShapeInv, AtAny,
       Running, TypeOK, TypeUi, TypeHolder, TypeCallers, TypeBounds, TypeDisk
<1>30. CASE SaveRecord
  <2>1. TypeChain' BY <1>30, FrameFields DEF SaveRecord, Goto, TypeOK, TypeChain, Steps
  <2> QED BY <1>30, FrameFields, <2>1 DEF SaveRecord, Goto, At, ShapeInv, AtAny, Running,
       TypeOK, TypeUi, TypeHolder, TypeCallers, TypeBounds, TypeDisk
<1>31. CASE ActivationFails
  <2>1. TypeChain' BY <1>31, FrameUpdates, FrameFields, DetachTypes, ReturnTypes DEF
       ActivationFails, Activating, Running, Fail, At, Fall, Goto, TypeOK, TypeChain,
       TypeHolder, Steps
  <2>2. /\ attached' = None /\ watch' = None /\ UNCHANGED <<ui, handles, swap, sync>>
    BY <1>31 DEF ActivationFails, Fall, Detach
  <2>3. TypeUi' /\ TypeHolder' BY <2>2 DEF TypeOK, TypeUi, TypeHolder, Optional, ui
  <2>4. docs' \in [DIDs -> SUBSET Writes]
    <3>1. CASE UNCHANGED docs BY <3>1 DEF TypeOK, TypeDisk
    <3>2. CASE \E part \in SUBSET frame.source :
                 docs' = [docs EXCEPT ![attached] = docs[attached] \cup part]
      <4>1. PICK part \in SUBSET frame.source :
              docs' = [docs EXCEPT ![attached] = docs[attached] \cup part]
        BY <3>2
      <4>2. part \subseteq Writes BY FrameFields DEF TypeOK, TypeChain
      <4> QED BY <4>1, <4>2 DEF TypeOK, TypeDisk
    <3> QED BY <1>31, <3>1, <3>2 DEF ActivationFails
  <2>5. TypeDisk' BY <1>31, <2>4 DEF ActivationFails, TypeOK, TypeDisk
  <2>6. TypeCallers' /\ TypeBounds'
    BY <1>31 DEF ActivationFails, Fail, TypeOK, TypeCallers, TypeBounds, popups, bounds
  <2> QED BY <2>1, <2>3, <2>5, <2>6 DEF TypeOK
<1>32. CASE LandBoot
  <2>1. TypeChain' /\ TypeCallers' /\ swap' \in BOOLEAN /\ UNCHANGED bounds
    BY <1>32, ReturnTypes DEF LandBoot, TypeOK, TypeHolder
  <2> QED BY <1>32, <2>1, SyncTypes, FrameFields, GrantsFields DEF LandBoot, ShapeInv, At,
       AtAny, Statuses, TypeOK, TypeUi, TypeHolder, TypeDisk, TypeBounds, TypeChain
<1>33. CASE LandConnect
  <2>1. TypeChain' BY <1>33, NoFrameType, FrameFields, GrantsFields, TaskFields DEF LandConnect,
       Return, Goto, TypeOK, TypeChain, Steps
  <2>2. TypeCallers'
    <3>1. CASE frame.source = {}
      BY <1>33, <3>1, ReturnTypes DEF LandConnect, TypeOK, TypeHolder
    <3>2. CASE frame.source # {}
      BY <1>33, <3>2, EndSwapTypes DEF LandConnect, popups, TypeOK, TypeHolder, TypeCallers
    <3> QED BY <3>1, <3>2
  <2> QED BY <1>33, FrameFields, GrantsFields, TaskFields, SyncTypes, <2>1, <2>2 DEF
       LandConnect, StartSync, Return, Goto, At, Connecting, EndSwap, Rejected, Running, Closed,
       Statuses, ShapeInv, AtAny, Sync, TypeOK, TypeDisk, TypeBounds, TypeUi, TypeHolder
<1>34. CASE DiscardAnonReplica
  <2>1. TypeUi' BY <1>34 DEF DiscardAnonReplica, Goto, Return, TypeOK, TypeUi
  <2>2. TypeHolder' BY <1>34, FrameFields, TaskFields DEF DiscardAnonReplica, Return, EndSwap,
       TypeOK, TypeHolder, Sync
  <2>3. TypeDisk' BY <1>34, FrameFields DEF DiscardAnonReplica, TypeOK, TypeDisk
  <2>4. TypeChain' BY <1>34, NoFrameType, FrameFields, TaskFields DEF DiscardAnonReplica, Goto,
       Return, TypeOK, TypeChain, Steps
  <2>5. TypeCallers' BY <1>34, FrameFields, TaskFields, CallTypes, ReturnTypes DEF
       DiscardAnonReplica, At, Goto, Fail, TypeOK, TypeCallers, TypeUi, TypeDisk, TypeHolder
  <2>6. TypeBounds' BY <1>34, FrameFields, TaskFields DEF DiscardAnonReplica, Fail, TypeOK,
       TypeBounds
  <2> QED BY <1>34, <2>1, <2>2, <2>3, <2>4, <2>5, <2>6 DEF DiscardAnonReplica, TypeOK
<1>35. CASE DropAnonSeed
  <2>1. TypeChain' /\ TypeCallers' /\ swap' \in BOOLEAN /\ UNCHANGED bounds
    BY <1>35, ReturnTypes DEF DropAnonSeed, TypeOK, TypeHolder
  <2> QED BY <1>35, <2>1 DEF DropAnonSeed, Fail, Statuses, TypeOK, TypeUi, TypeHolder, TypeDisk,
       TypeBounds
<1>36. CASE StopForRenew
  <2>1. TypeChain' BY <1>36, FrameFields, GrantsFields DEF StopForRenew, Goto, TypeOK,
       TypeChain, Steps
  <2> QED BY <1>36, FrameFields, GrantsFields, <2>1 DEF StopForRenew, Goto, Sync, TypeOK,
       TypeUi, TypeDisk, TypeCallers, TypeBounds, TypeHolder
<1>37. CASE LandRenew
  <2>1. TypeChain' /\ TypeCallers' /\ swap' \in BOOLEAN /\ UNCHANGED bounds
    BY <1>37, ReturnTypes DEF LandRenew, TypeOK, TypeHolder
  <2> QED BY <1>37, <2>1, SyncTypes, FrameFields, GrantsFields DEF LandRenew, ShapeInv, At,
       AtAny, Statuses, TypeOK, TypeUi, TypeHolder, TypeDisk, TypeBounds, TypeChain
<1>38. CASE RenewFails
  <2>1. TypeChain' /\ TypeCallers' /\ swap' \in BOOLEAN /\ UNCHANGED bounds
    BY <1>38, ReturnTypes DEF RenewFails, TypeOK, TypeHolder
  <2>2. TypeUi' /\ TypeDisk'
    BY <1>38 DEF RenewFails, Statuses, TypeOK, TypeUi, TypeDisk
  <2>3. TypeHolder' /\ TypeBounds'
    BY <1>38, <2>1 DEF RenewFails, Fail, TypeOK, TypeHolder, TypeBounds
  <2> QED BY <2>1, <2>2, <2>3 DEF TypeOK
<1>39. CASE AuthError
  BY <1>39 DEF AuthError, NotifyAccessExpired, Statuses, TypeOK, TypeHolder, TypeDisk,
     TypeChain, TypeCallers, TypeBounds, TypeUi
<1>40. CASE WatchExpiry
  BY <1>40 DEF WatchExpiry, NotifyAccessExpired, Statuses, TypeOK, TypeHolder, TypeDisk,
     TypeChain, TypeCallers, TypeBounds, TypeUi
<1>41. CASE SyncStarts
  BY <1>41 DEF SyncStarts, BootstrapSettles, Sync, TypeOK, TypeUi, TypeDisk, TypeChain,
     TypeCallers, TypeBounds, TypeHolder
<1>42. CASE SyncFails
  BY <1>42 DEF SyncFails, BootstrapSettles, Sync, TypeOK, TypeUi, TypeDisk, TypeChain,
     TypeCallers, TypeBounds, TypeHolder
<1>43. CASE Advance
  BY <1>43 DEF Advance, TypeOK, TypeUi, TypeHolder, TypeDisk, TypeChain, TypeCallers, TypeBounds
<1>44. CASE Crash
  <2>1. TypeDisk' BY <1>44 DEF Crash, TypeOK, TypeDisk
  <2>2. TypeUi' BY <1>44 DEF Crash, TypeOK, TypeUi, Statuses
  <2>3. TypeHolder' BY <1>44 DEF Crash, TypeOK, TypeHolder, Sync
  <2>4. TypeChain' BY <1>44, NoFrameType, CalledTasks DEF Crash, TypeOK, TypeUi, TypeHolder,
       TypeDisk, TypeChain, TypeCallers, TypeBounds, Statuses, Steps
  <2>5. TypeCallers' BY <1>44, CallTypes DEF Crash, TypeOK, TypeCallers, TypeUi, TypeDisk,
       TypeHolder
  <2>6. TypeBounds' BY <1>44 DEF Crash, TypeOK, TypeBounds
  <2> QED BY <1>44, <2>1, <2>2, <2>3, <2>4, <2>5, <2>6 DEF Crash, TypeOK
<1>45. ASSUME NEW l \in Logins, OpenLogin(l) PROVE TypeOK'
  <2>1. TypeCallers' BY <1>45, CallTypes, OpenedCalls DEF OpenLogin, TypeOK, TypeCallers,
       TypeUi, TypeDisk, TypeHolder
  <2> QED BY <1>45, <2>1 DEF OpenLogin, Statuses, TypeOK, TypeHolder, TypeDisk, TypeChain,
       TypeBounds, TypeUi
<1>46. ASSUME NEW l \in Logins, VerifyLogin(l) PROVE TypeOK'
  <2>1. TypeCallers' BY <1>46, CallTypes, OpenLoginFields DEF VerifyLogin, TypeOK, TypeCallers,
       TypeUi, TypeDisk, TypeHolder
  <2> QED BY <1>46, <2>1 DEF VerifyLogin, Statuses, TypeOK, TypeHolder, TypeDisk, TypeChain,
       TypeBounds, TypeUi
<1>47. ASSUME NEW l \in Logins, FinishLogin(l) PROVE TypeOK'
  <2>1. TypeChain'
    <3>1. PICK a \in Accounts, s \in Answers :
             Enqueue([kind |-> "login", who |-> l, merge |-> login[l].merge,
                      status |-> login[l].status, did |-> login[l].did,
                      grants |-> [acct |-> a, space |-> s, exp |-> now + Ttl]])
      BY <1>47 DEF FinishLogin
    <3>2. [acct |-> a, space |-> s, exp |-> now + Ttl] \in Grants
      BY NewGrants DEF Answers, Optional
    <3>3. /\ login[l].status \in Statuses /\ login[l].did \in Optional(DIDs)
          /\ login[l].merge \in BOOLEAN
      BY <1>47, OpenLoginFields DEF FinishLogin
    <3>4. [kind |-> "login", who |-> l, merge |-> login[l].merge,
           status |-> login[l].status, did |-> login[l].did,
           grants |-> [acct |-> a, space |-> s, exp |-> now + Ttl]] \in Tasks
      BY <3>2, <3>3, CalledTasks
    <3>5. chain' \in Seq(Tasks)
      BY <3>1, <3>4, ChainGrows DEF Enqueue, TypeOK, TypeChain
    <3> QED BY <1>47, <3>5 DEF FinishLogin, TypeOK, TypeChain
  <2>2. TypeCallers' BY <1>47, CallTypes, OpenLoginFields DEF FinishLogin, Answers, Enqueue,
       Queued, TypeOK, TypeCallers, TypeUi, TypeDisk, TypeHolder
  <2> QED BY <1>47, <2>1, <2>2 DEF FinishLogin, TypeOK, TypeUi, TypeHolder, TypeDisk, TypeBounds
<1>48. ASSUME NEW l \in Logins, CancelLogin(l) PROVE TypeOK'
  <2>1. TypeCallers' BY <1>48, CallTypes DEF CancelLogin, TypeOK, TypeCallers, TypeUi, TypeDisk,
       TypeHolder
  <2> QED BY <1>48, <2>1 DEF CancelLogin, Statuses, TypeOK, TypeHolder, TypeDisk, TypeChain,
       TypeBounds, TypeUi
<1>49. ASSUME NEW r \in Reconnects, OpenReconnect(r) PROVE TypeOK'
  <2>1. TypeChain' BY <1>49, ChainGrows, CalledTasks, NewGrants DEF OpenReconnect, Enqueue,
       TypeOK, TypeChain
  <2>2. TypeCallers' BY <1>49, OpenedCalls, CallTypes DEF OpenReconnect, TypeOK, TypeUi,
       TypeHolder, TypeDisk, TypeChain, TypeCallers, TypeBounds, Statuses, Steps
  <2> QED BY <1>49, <2>1, <2>2 DEF OpenReconnect, Statuses, TypeOK, TypeHolder, TypeDisk,
       TypeBounds, TypeUi
<1>50. ASSUME NEW r \in Reconnects, LeaveReconnect(r) PROVE TypeOK'
  <2>1. TypeUi' BY <1>50 DEF LeaveReconnect, TypeOK, TypeUi, Statuses
  <2>2. TypeCallers' BY <1>50, CallTypes DEF LeaveReconnect, LogoutPending, TypeOK, TypeCallers,
       TypeUi, TypeDisk, TypeHolder
  <2> QED BY <1>50, <2>1, <2>2 DEF LeaveReconnect, TypeOK, TypeHolder, TypeDisk, TypeChain,
       TypeBounds
<1>51. ASSUME NEW r \in Reconnects, AnswerReconnect(r) PROVE TypeOK'
  <2>1. TypeChain'
    <3>1. PICK s \in Answers :
             Enqueue([kind |-> "renew", did |-> recon[r].did,
                      grants |-> [acct |-> recon[r].acct, space |-> s, exp |-> now + Ttl]])
      BY <1>51 DEF AnswerReconnect
    <3>2. recon[r].did \in Optional(DIDs) /\ recon[r].acct \in Accounts
      BY <1>51, OpenReconnectFields DEF AnswerReconnect
    <3>3. [acct |-> recon[r].acct, space |-> s, exp |-> now + Ttl] \in Grants
      BY <3>2, NewGrants DEF Answers, Optional
    <3>4. [kind |-> "renew", did |-> recon[r].did,
           grants |-> [acct |-> recon[r].acct, space |-> s, exp |-> now + Ttl]] \in Tasks
      BY <3>2, <3>3, CalledTasks
    <3>5. chain' \in Seq(Tasks)
      BY <3>1, <3>4, ChainGrows DEF Enqueue, TypeOK, TypeChain
    <3> QED BY <1>51, <3>5 DEF AnswerReconnect, TypeOK, TypeChain
  <2>2. TypeCallers' BY <1>51, CallTypes DEF AnswerReconnect, Answers, SameSpace, Enqueue,
       TypeOK, TypeCallers, TypeUi, TypeDisk, TypeHolder
  <2> QED BY <1>51, <2>1, <2>2 DEF AnswerReconnect, TypeOK, TypeUi, TypeHolder, TypeDisk,
       TypeBounds
<1>52. ASSUME NEW r \in Reconnects, CancelReconnect(r) PROVE TypeOK'
  <2>1. TypeUi' BY <1>52 DEF CancelReconnect, TypeOK, TypeUi, Statuses
  <2>2. TypeCallers' BY <1>52, CallTypes DEF CancelReconnect, TypeOK, TypeCallers, TypeUi,
       TypeDisk, TypeHolder
  <2> QED BY <1>52, <2>1, <2>2 DEF CancelReconnect, TypeOK, TypeHolder, TypeDisk, TypeChain,
       TypeBounds
<1>53. ASSUME NEW t \in Calls, Call(t) PROVE TypeOK'
  <2>1. TypeChain' BY <1>53, ChainGrows, CalledTasks, NewGrants DEF Call, Enqueue, TypeOK,
       TypeChain
  <2> QED BY <1>53, <2>1 DEF Call, TypeOK, TypeUi, TypeHolder, TypeDisk, TypeCallers, TypeBounds
<1>54. ASSUME NEW w \in Writes, IssueWrite(w) PROVE TypeOK'
  <2>1. TypeCallers' BY <1>54, CallTypes, WriteTypes DEF IssueWrite, TypeOK, TypeUi, TypeHolder,
       TypeDisk, TypeChain, TypeCallers, TypeBounds, Statuses, Steps
  <2> QED BY <1>54, <2>1 DEF IssueWrite, TypeOK, TypeUi, TypeHolder, TypeDisk, TypeChain,
       TypeBounds
<1>55. ASSUME NEW w \in Writes, LandWrite(w) PROVE TypeOK'
  <2>1. TypeDisk' BY <1>55 DEF LandWrite, TypeOK, TypeDisk
  <2>2. TypeCallers' BY <1>55, CallTypes, WriteTypes, BoundWrite DEF LandWrite, At, TypeOK,
       TypeCallers, TypeUi, TypeDisk, TypeHolder
  <2> QED BY <1>55, <2>1, <2>2 DEF LandWrite, TypeOK, TypeUi, TypeHolder, TypeChain, TypeBounds
<1> QED BY <1>1, <1>2, <1>3, <1>4, <1>5, <1>6, <1>7, <1>8, <1>9, <1>10, <1>11, <1>12, <1>13,
       <1>14, <1>15, <1>16, <1>17, <1>18, <1>19, <1>20, <1>21, <1>22, <1>23, <1>24, <1>25,
       <1>26, <1>27, <1>28, <1>29, <1>30, <1>31, <1>32, <1>33, <1>34, <1>35, <1>36, <1>37,
       <1>38, <1>39, <1>40, <1>41, <1>42, <1>43, <1>44, <1>45, <1>46, <1>47, <1>48, <1>49,
       <1>50, <1>51, <1>52, <1>53, <1>54, <1>55 DEF Next, ChainStep, PopupStep

\* A task only ever stands at a step its kind reaches, with the data that step needs.
LEMMA ShapeInvStep ==
  ASSUME TypeOK, ShapeInv, Next
  PROVE ShapeInv'
<1>1. CASE Begin
  BY <1>1 DEF Begin, ui, holder, disk, bounds, ShapeInv, At, AtAny, Running, Connecting,
        NoFrame, TypeOK, TypeDisk, Optional
<1>2. CASE NoOp
  BY <1>2 DEF NoOp, At, TaskIsNoOp, Return, ui, disk, EndSwap, Running, bounds, ShapeInv,
        AtAny, Connecting, NoFrame, TypeOK, TypeDisk, Optional
<1>3. CASE BootMiss
  BY <1>3 DEF BootMiss, At, Running, Goto, ui, holder, bounds, ShapeInv, AtAny, Connecting,
        TypeOK, TypeDisk, Optional
<1>4. CASE BootRestore
  BY <1>4, FrameFields DEF BootRestore, At, Running, Expired, Goto, ui, holder, disk,
        bounds, ShapeInv, AtAny, Connecting, TypeOK, TypeChain, TypeDisk, Optional
<1>5. CASE BootRetriesLocal
  BY <1>5, FrameFields DEF BootRetriesLocal, OpenLocalFails, At, Running, Fail, Goto, ui,
        holder, disk, bounds, ShapeInv, AtAny, Connecting, TypeOK, TypeChain, TypeDisk,
        Optional
<1>6. CASE BootGivesUp
  BY <1>6 DEF BootGivesUp, OpenLocalFails, Running, Fail, Return, ui, disk, EndSwap, bounds,
        At, ShapeInv, AtAny, Connecting, NoFrame, TypeOK, TypeDisk, Optional
<1>7. CASE LoginAbandoned
  BY <1>7 DEF LoginAbandoned, At, Running, SameSession, Return, disk, EndSwap, bounds,
        ShapeInv, AtAny, Connecting, NoFrame, TypeOK, TypeDisk, Optional
<1>8. CASE StartConnect
  BY <1>8, FrameFields, TaskFields DEF StartConnect, At, Connecting, TaskIsNoOp, Running,
        SameSession, Goto, ui, holder, disk, bounds, ShapeInv, AtAny, TypeOK, TypeChain,
        TypeDisk, Optional
<1>9. CASE RenewDiscarded
  BY <1>9 DEF RenewDiscarded, At, Running, StillToRenew, Return, disk, EndSwap, bounds,
        ShapeInv, AtAny, Connecting, NoFrame, TypeOK, TypeDisk, Optional
<1>10. CASE StartRenew
  BY <1>10, FrameFields, TaskFields DEF StartRenew, At, Running, StillToRenew, Goto, ui,
        holder, disk, bounds, ShapeInv, AtAny, Connecting, TypeOK, TypeChain, TypeDisk,
        Optional
<1>11. CASE StartTeardown
  BY <1>11, FrameFields DEF StartTeardown, At, Running, Detach, WipeTargets, ui, disk,
        bounds, Goto, ShapeInv, AtAny, Connecting, TypeOK, TypeChain, TypeDisk, Optional
<1>12. CASE Drain
  <2>1. /\ step' = AfterDrain /\ task' = task /\ anonSeed' = anonSeed
        /\ frame'.falling = frame.falling /\ frame'.grants = frame.grants
    BY <1>12 DEF Drain, Goto, TypeOK, TypeChain, Frame
  <2>2. Running({"boot"}) => frame.falling
    BY <1>12 DEF Drain, ShapeInv, At
  <2>3. AfterDrain \in {"anonSeed", "forget", "clearAnon", "collect", "openConn"}
    BY DEF AfterDrain
  <2>4. AfterDrain \in {"anonSeed"} => ~Running({"destroy", "renew"})
    BY <1>12 DEF Drain, ShapeInv, At, AfterDrain, Running
  <2>5. AfterDrain = "forget" => Running({"logout"})
    BY DEF AfterDrain
  <2>6. AfterDrain = "clearAnon" => Running({"clear"})
    BY DEF AfterDrain
  <2>7. AfterDrain \in {"collect", "openConn"} => Connecting
    BY <2>2, TaskKinds, <1>12 DEF AfterDrain, Drain, ShapeInv, At, Running, Connecting, TypeOK,
       TypeChain, Optional
  <2>8. Connecting => frame.grants \in Grants
    BY <1>12 DEF Drain, ShapeInv, At
  <2> QED BY <2>1, <2>2, <2>3, <2>4, <2>5, <2>6, <2>7, <2>8, <1>12
          DEF Drain, ShapeInv, At, AtAny, Running, Connecting
<1>13. CASE DrainDestroy
  BY <1>13 DEF DrainDestroy, At, Running, StopAndClose, bounds, BootstrapSettled, Deletes,
        Fail, Erasing, ShapeInv, AtAny, Connecting, NoFrame, TypeOK, TypeDisk, Optional
<1>14. CASE ClearAnonSeed
  BY <1>14 DEF ClearAnonSeed, At, Goto, Fail, Return, ui, bounds, EndSwap, Running,
        ShapeInv, AtAny, Connecting, NoFrame, TypeOK, TypeDisk, Optional
<1>15. CASE ForgetSession
  BY <1>15 DEF ForgetSession, At, Goto, Running, Fail, Return, ui, bounds, EndSwap,
        ShapeInv, AtAny, Connecting, NoFrame, TypeOK, TypeDisk, Optional
<1>16. CASE Wipe
  BY <1>16 DEF Wipe, At, Running, Fail, Goto, ui, holder, bounds, ShapeInv, AtAny,
        Connecting, TypeOK, TypeDisk, Optional
<1>17. CASE LoadOrCreateAnonSeed
  <2>1. frame'.falling = frame.falling /\ frame'.grants = frame.grants
    BY <1>17 DEF LoadOrCreateAnonSeed, TypeOK, TypeChain, Frame
  <2>2. anonSeed' # None
    BY <1>17, ConstantsOK DEF LoadOrCreateAnonSeed, DIDs
  <2> QED BY <2>1, <2>2, <1>17
          DEF LoadOrCreateAnonSeed, Goto, ui, ShapeInv, At, AtAny, Running, Connecting
<1>18. CASE OpenAnon
  BY <1>18 DEF OpenAnon, At, Goto, ui, disk, bounds, ShapeInv, AtAny, Running, Connecting,
        TypeOK, TypeDisk, Optional
<1>19. CASE LandLocal
  BY <1>19 DEF LandLocal, At, FixturesCanRun, Running, Return, disk, EndSwap, bounds,
        ShapeInv, AtAny, Connecting, NoFrame, TypeOK, TypeDisk, Optional
<1>20. CASE ReopenFails
  BY <1>20 DEF ReopenFails, OpenLocalFails, Running, Connecting, Fail, Return, disk,
        EndSwap, bounds, At, ShapeInv, AtAny, NoFrame, TypeOK, TypeDisk, Optional
<1>21. CASE OpenLocalRejects
  BY <1>21 DEF OpenLocalRejects, OpenLocalFails, Running, Connecting, Fail, Return, disk,
        EndSwap, bounds, At, ShapeInv, AtAny, NoFrame, TypeOK, TypeDisk, Optional
<1>22. CASE Prepared
  <2>1. frame'.falling = frame.falling /\ frame'.grants = frame.grants
    BY <1>22 DEF Prepared, Detach, TypeOK, TypeChain, Frame
  <2>2. frame.grants \in Grants /\ ~Running({"renew"})
    BY <1>22 DEF Prepared, ShapeInv, At, AtAny, Running
  <2> QED BY <2>1, <2>2, <1>22
          DEF Prepared, Detach, Goto, ui, disk, ShapeInv, At, AtAny, Running, Connecting
<1>23. CASE PrepareFails
  <2>1. frame.grants \in Grants /\ Running({"boot", "login", "connect"})
    BY <1>23 DEF PrepareFails, ShapeInv, At, AtAny
  <2>2. CASE Running({"boot"})
    <3>1. frame'.falling /\ frame'.grants = frame.grants
      BY <1>23, <2>2 DEF PrepareFails, Fall, Detach, TypeOK, TypeChain, Frame
    <3> QED BY <3>1, <2>1, <2>2, <1>23
            DEF PrepareFails, Fall, Detach, Goto, ShapeInv, At, AtAny, Running, Connecting
  <2>3. CASE ~Running({"boot"})
    BY <2>3, <1>23 DEF PrepareFails, Return, NoFrame, ShapeInv, At, AtAny, Running, Connecting
  <2> QED BY <2>2, <2>3
<1>24. CASE Collect
  BY <1>24 DEF Collect, At, NothingToCollect, Goto, ui, disk, bounds, FromLocal, ShapeInv,
        AtAny, Running, Connecting, TypeOK, TypeDisk, Optional
<1>25. CASE Read
  BY <1>25, FrameFields DEF Read, At, Goto, ui, disk, bounds, ShapeInv, AtAny, Running,
        Connecting, TypeOK, TypeChain, TypeDisk, Optional
<1>26. CASE CollectFails
  BY <1>26 DEF CollectFails, At, FromLocal, Fail, Goto, ui, disk, bounds, ShapeInv, AtAny,
        Running, Connecting, TypeOK, TypeDisk, Optional
<1>27. CASE OpenConnected
  BY <1>27 DEF OpenConnected, At, Goto, ui, disk, bounds, ShapeInv, AtAny, Running,
        Connecting, TypeOK, TypeDisk, Optional
<1>28. CASE MergeAndHydrate
  BY <1>28 DEF MergeAndHydrate, At, Goto, AfterHydrate, ui, holder, bounds, ShapeInv, AtAny,
        Running, Connecting, TypeOK, TypeDisk, Optional
<1>29. CASE SaveSeed
  BY <1>29 DEF SaveSeed, At, Goto, ui, holder, bounds, ShapeInv, AtAny, Running, Connecting,
        TypeOK, TypeDisk, Optional
<1>30. CASE SaveRecord
  BY <1>30 DEF SaveRecord, At, Goto, ui, holder, bounds, ShapeInv, AtAny, Running,
        Connecting, TypeOK, TypeDisk, Optional
<1>31. CASE ActivationFails
  <2>1. /\ task # None /\ ~Running({"renew"})
        /\ step \in {"openConn", "hydrate", "saveSeed", "saveRecord"}
    BY <1>31 DEF ActivationFails, Activating, At
  <2>2. frame.grants \in Grants /\ Running({"boot", "login", "connect"})
    BY <2>1 DEF ShapeInv, AtAny, Running
  <2>3. frame'.falling /\ frame'.grants = frame.grants /\ task' = task /\ step' = "drain"
    BY <1>31 DEF ActivationFails, Fall, Detach, Goto, TypeOK, TypeChain, Frame
  <2> QED BY <2>1, <2>2, <2>3 DEF ShapeInv, At, AtAny, Running, Connecting
<1>32. CASE LandBoot
  BY <1>32 DEF LandBoot, At, Running, StartSync, Return, disk, EndSwap, bounds, ShapeInv,
        AtAny, Connecting, NoFrame, TypeOK, TypeDisk, Optional
<1>33. CASE LandConnect
  BY <1>33 DEF LandConnect, At, Connecting, StartSync, Return, EndSwap, Goto, bounds, disk,
        Running, ShapeInv, AtAny, NoFrame, TypeOK, TypeDisk, Optional
<1>34. CASE DiscardAnonReplica
  BY <1>34 DEF DiscardAnonReplica, At, Goto, Fail, Return, ui, bounds, EndSwap, Running,
        ShapeInv, AtAny, Connecting, NoFrame, TypeOK, TypeDisk, Optional
<1>35. CASE DropAnonSeed
  BY <1>35 DEF DropAnonSeed, At, Fail, Return, ui, EndSwap, Running, bounds, ShapeInv,
        AtAny, Connecting, NoFrame, TypeOK, TypeDisk, Optional
<1>36. CASE StopForRenew
  BY <1>36 DEF StopForRenew, At, BootstrapSettled, Goto, ui, disk, bounds, ShapeInv, AtAny,
        Running, Connecting, TypeOK, TypeDisk, Optional
<1>37. CASE LandRenew
  BY <1>37 DEF LandRenew, At, Running, StartSync, Return, disk, EndSwap, bounds, ShapeInv,
        AtAny, Connecting, NoFrame, TypeOK, TypeDisk, Optional
<1>38. CASE RenewFails
  BY <1>38 DEF RenewFails, Running, At, Fail, Return, disk, EndSwap, bounds, ShapeInv,
        AtAny, Connecting, NoFrame, TypeOK, TypeDisk, Optional
<1>39. CASE AuthError
  BY <1>39 DEF AuthError, NotifyAccessExpired, holder, disk, bounds, ShapeInv, At, AtAny,
        Running, Connecting, TypeOK, TypeDisk, Optional
<1>40. CASE WatchExpiry
  BY <1>40 DEF WatchExpiry, NearExpiry, NotifyAccessExpired, holder, disk, bounds, ShapeInv,
        At, AtAny, Running, Connecting, TypeOK, TypeDisk, Optional
<1>41. CASE SyncStarts
  BY <1>41 DEF SyncStarts, BootstrapSettles, ui, disk, bounds, ShapeInv, At, AtAny, Running,
        Connecting, TypeOK, TypeDisk, Optional
<1>42. CASE SyncFails
  BY <1>42 DEF SyncFails, BootstrapSettles, ui, disk, bounds, ShapeInv, At, AtAny, Running,
        Connecting, TypeOK, TypeDisk, Optional
<1>43. CASE Advance
  BY <1>43 DEF Advance, ui, holder, disk, ShapeInv, At, AtAny, Running, Connecting, TypeOK,
        TypeDisk, Optional
<1>44. CASE Crash
  BY <1>44 DEF Crash, disk, ShapeInv, At, AtAny, Running, Connecting, NoFrame, TypeOK,
        TypeDisk, Optional
<1>45. ASSUME NEW l \in Logins, OpenLogin(l) PROVE ShapeInv'
  BY <1>45 DEF OpenLogin, holder, disk, bounds, ShapeInv, At, AtAny, Running, Connecting,
        TypeOK, TypeDisk, Optional
<1>46. ASSUME NEW l \in Logins, VerifyLogin(l) PROVE ShapeInv'
  BY <1>46 DEF VerifyLogin, holder, disk, bounds, ShapeInv, At, AtAny, Running, Connecting,
        TypeOK, TypeDisk, Optional
<1>47. ASSUME NEW l \in Logins, FinishLogin(l) PROVE ShapeInv'
  BY <1>47 DEF FinishLogin, Answers, Enqueue, ui, holder, disk, bounds, ShapeInv, At, AtAny,
        Running, Connecting, TypeOK, TypeDisk, Optional
<1>48. ASSUME NEW l \in Logins, CancelLogin(l) PROVE ShapeInv'
  BY <1>48 DEF CancelLogin, holder, disk, bounds, ShapeInv, At, AtAny, Running, Connecting,
        TypeOK, TypeDisk, Optional
<1>49. ASSUME NEW r \in Reconnects, OpenReconnect(r) PROVE ShapeInv'
  BY <1>49 DEF OpenReconnect, Enqueue, holder, disk, bounds, ShapeInv, At, AtAny, Running,
        Connecting, TypeOK, TypeDisk, Optional
<1>50. ASSUME NEW r \in Reconnects, LeaveReconnect(r) PROVE ShapeInv'
  BY <1>50 DEF LeaveReconnect, LogoutPending, holder, disk, bounds, Running, ShapeInv, At,
        AtAny, Connecting, TypeOK, TypeDisk, Optional
<1>51. ASSUME NEW r \in Reconnects, AnswerReconnect(r) PROVE ShapeInv'
  BY <1>51 DEF AnswerReconnect, Answers, SameSpace, Enqueue, ui, holder, disk, bounds,
        ShapeInv, At, AtAny, Running, Connecting, TypeOK, TypeDisk, Optional
<1>52. ASSUME NEW r \in Reconnects, CancelReconnect(r) PROVE ShapeInv'
  BY <1>52 DEF CancelReconnect, holder, disk, bounds, ShapeInv, At, AtAny, Running,
        Connecting, TypeOK, TypeDisk, Optional
<1>53. ASSUME NEW t \in Calls, Call(t) PROVE ShapeInv'
  BY <1>53 DEF Call, Enqueue, ui, holder, disk, ShapeInv, At, AtAny, Running, Connecting,
        TypeOK, TypeDisk, Optional
<1>54. ASSUME NEW w \in Writes, IssueWrite(w) PROVE ShapeInv'
  BY <1>54 DEF IssueWrite, ui, holder, disk, bounds, ShapeInv, At, AtAny, Running,
        Connecting, TypeOK, TypeDisk, Optional
<1>55. ASSUME NEW w \in Writes, LandWrite(w) PROVE ShapeInv'
  BY <1>55 DEF LandWrite, Running, At, ui, holder, bounds, ShapeInv, AtAny, Connecting,
        TypeOK, TypeDisk, Optional
<1> QED BY <1>1, <1>2, <1>3, <1>4, <1>5, <1>6, <1>7, <1>8, <1>9, <1>10, <1>11, <1>12, <1>13,
       <1>14, <1>15, <1>16, <1>17, <1>18, <1>19, <1>20, <1>21, <1>22, <1>23, <1>24, <1>25,
       <1>26, <1>27, <1>28, <1>29, <1>30, <1>31, <1>32, <1>33, <1>34, <1>35, <1>36, <1>37,
       <1>38, <1>39, <1>40, <1>41, <1>42, <1>43, <1>44, <1>45, <1>46, <1>47, <1>48, <1>49,
       <1>50, <1>51, <1>52, <1>53, <1>54, <1>55 DEF Next, ChainStep, PopupStep

\* The logout invariant needs no assumption on the faults.
LEMMA LogoutInvStep ==
  ASSUME TypeOK, ShapeInv, LogoutInv, Next
  PROVE LogoutInv'
<1>1. CASE Begin
  BY <1>1 DEF Begin, ui, disk, LogoutInv, LogoutIsFinal, ShapeInv, At, AtAny, Running,
        Connecting
<1>2. CASE NoOp
  BY <1>2 DEF NoOp, At, TaskIsNoOp, Return, ui, disk, EndSwap, Running, LogoutInv,
        LogoutIsFinal, ShapeInv, AtAny, Connecting
<1>3. CASE BootMiss
  BY <1>3 DEF BootMiss, At, Running, Goto, ui, LogoutInv, LogoutIsFinal, ShapeInv, AtAny,
        Connecting
<1>4. CASE BootRestore
  BY <1>4 DEF BootRestore, At, Running, Expired, Goto, ui, disk, LogoutInv, LogoutIsFinal,
        ShapeInv, AtAny, Connecting
<1>5. CASE BootRetriesLocal
  BY <1>5 DEF BootRetriesLocal, OpenLocalFails, At, Running, Fail, Goto, ui, disk,
        LogoutInv, LogoutIsFinal, ShapeInv, AtAny, Connecting
<1>6. CASE BootGivesUp
  BY <1>6 DEF BootGivesUp, OpenLocalFails, Running, Fail, Return, ui, disk, EndSwap, At,
        LogoutInv, LogoutIsFinal, ShapeInv, AtAny, Connecting
<1>7. CASE LoginAbandoned
  BY <1>7 DEF LoginAbandoned, At, Running, SameSession, Return, disk, EndSwap, LogoutInv,
        LogoutIsFinal, ShapeInv, AtAny, Connecting
<1>8. CASE StartConnect
  BY <1>8 DEF StartConnect, At, Connecting, TaskIsNoOp, Running, SameSession, Goto, ui,
        disk, LogoutInv, LogoutIsFinal, ShapeInv, AtAny
<1>9. CASE RenewDiscarded
  BY <1>9 DEF RenewDiscarded, At, Running, StillToRenew, Return, disk, EndSwap, LogoutInv,
        LogoutIsFinal, ShapeInv, AtAny, Connecting
<1>10. CASE StartRenew
  BY <1>10 DEF StartRenew, At, Running, StillToRenew, Goto, ui, disk, LogoutInv,
        LogoutIsFinal, ShapeInv, AtAny, Connecting
<1>11. CASE StartTeardown
  BY <1>11 DEF StartTeardown, At, Running, Detach, WipeTargets, ui, disk, Goto, LogoutInv,
        LogoutIsFinal, ShapeInv, AtAny, Connecting
<1>12. CASE Drain
  <2>1. step' = AfterDrain /\ task' = task /\ loggedOut' = loggedOut /\ status' = status
    BY <1>12 DEF Drain, Goto, ui
  <2>2. (sessSeed' = sessSeed /\ record' = record) \/ sessSeed' = None
    BY <1>12 DEF Drain
  <2>3. AfterDrain \in {"collect", "openConn"} => Connecting
    <3>1. frame.falling \/ Running({"logout", "clear"}) \/ Connecting
      BY DrainKinds, <1>12 DEF Drain
    <3> QED BY <3>1 DEF AfterDrain, Running
  <2>4. AfterDrain = "anonSeed" => ~Running({"logout", "clear"})
    BY <1>12 DEF AfterDrain, Drain, ShapeInv, At, Running
  <2>5. AfterDrain \in {"anonSeed", "forget", "clearAnon", "collect", "openConn"}
    BY DEF AfterDrain
  <2> QED BY <2>1, <2>2, <2>3, <2>4, <2>5, <1>12
          DEF Drain, LogoutInv, LogoutIsFinal, At, AtAny, Running, Connecting
<1>13. CASE DrainDestroy
  BY <1>13 DEF DrainDestroy, At, Running, StopAndClose, BootstrapSettled, Deletes, Fail,
        Erasing, LogoutInv, LogoutIsFinal, ShapeInv, AtAny, Connecting
<1>14. CASE ClearAnonSeed
  BY <1>14 DEF ClearAnonSeed, At, Goto, Fail, Return, ui, EndSwap, Running, LogoutInv,
        LogoutIsFinal, ShapeInv, AtAny, Connecting
<1>15. CASE ForgetSession
  BY <1>15 DEF ForgetSession, At, Goto, Running, Fail, Return, ui, EndSwap, LogoutInv,
        LogoutIsFinal, ShapeInv, AtAny, Connecting
<1>16. CASE Wipe
  BY <1>16 DEF Wipe, At, Running, Fail, Goto, ui, LogoutInv, LogoutIsFinal, ShapeInv, AtAny,
        Connecting
<1>17. CASE LoadOrCreateAnonSeed
  BY <1>17 DEF LoadOrCreateAnonSeed, At, Goto, ui, LogoutInv, LogoutIsFinal, ShapeInv,
        AtAny, Running, Connecting
<1>18. CASE OpenAnon
  BY <1>18 DEF OpenAnon, At, Goto, ui, disk, LogoutInv, LogoutIsFinal, ShapeInv, AtAny,
        Running, Connecting
<1>19. CASE LandLocal
  BY <1>19 DEF LandLocal, At, FixturesCanRun, Running, Return, disk, EndSwap, LogoutInv,
        LogoutIsFinal, ShapeInv, AtAny, Connecting
<1>20. CASE ReopenFails
  BY <1>20 DEF ReopenFails, OpenLocalFails, Running, Connecting, Fail, Return, disk,
        EndSwap, At, LogoutInv, LogoutIsFinal, ShapeInv, AtAny
<1>21. CASE OpenLocalRejects
  BY <1>21 DEF OpenLocalRejects, OpenLocalFails, Running, Connecting, Fail, Return, disk,
        EndSwap, At, LogoutInv, LogoutIsFinal, ShapeInv, AtAny
<1>22. CASE Prepared
  BY <1>22 DEF Prepared, At, Running, Goto, Detach, CarriesAnonData, ui, disk, LogoutInv,
        LogoutIsFinal, ShapeInv, AtAny, Connecting
<1>23. CASE PrepareFails
  BY <1>23 DEF PrepareFails, At, Fail, Running, Fall, Return, disk, EndSwap, Detach, Goto,
        LogoutInv, LogoutIsFinal, ShapeInv, AtAny, Connecting
<1>24. CASE Collect
  BY <1>24 DEF Collect, At, NothingToCollect, Goto, ui, disk, FromLocal, LogoutInv,
        LogoutIsFinal, ShapeInv, AtAny, Running, Connecting
<1>25. CASE Read
  BY <1>25 DEF Read, At, Goto, ui, disk, LogoutInv, LogoutIsFinal, ShapeInv, AtAny, Running,
        Connecting
<1>26. CASE CollectFails
  BY <1>26 DEF CollectFails, At, FromLocal, Fail, Goto, ui, disk, LogoutInv, LogoutIsFinal,
        ShapeInv, AtAny, Running, Connecting
<1>27. CASE OpenConnected
  BY <1>27 DEF OpenConnected, At, Goto, ui, disk, LogoutInv, LogoutIsFinal, ShapeInv, AtAny,
        Running, Connecting
<1>28. CASE MergeAndHydrate
  BY <1>28 DEF MergeAndHydrate, At, Goto, AfterHydrate, ui, LogoutInv, LogoutIsFinal,
        ShapeInv, AtAny, Running, Connecting
<1>29. CASE SaveSeed
  BY <1>29 DEF SaveSeed, At, Goto, ui, LogoutInv, LogoutIsFinal, ShapeInv, AtAny, Running,
        Connecting
<1>30. CASE SaveRecord
  BY <1>30 DEF SaveRecord, At, Goto, ui, LogoutInv, LogoutIsFinal, ShapeInv, AtAny, Running,
        Connecting
<1>31. CASE ActivationFails
  BY <1>31 DEF ActivationFails, Activating, Running, Fail, At, Fall, Detach, ui, Goto,
        LogoutInv, LogoutIsFinal, ShapeInv, AtAny, Connecting
<1>32. CASE LandBoot
  BY <1>32 DEF LandBoot, At, Running, StartSync, Return, disk, EndSwap, LogoutInv,
        LogoutIsFinal, ShapeInv, AtAny, Connecting
<1>33. CASE LandConnect
  BY <1>33 DEF LandConnect, At, Connecting, StartSync, Return, EndSwap, Goto, disk, Running,
        LogoutInv, LogoutIsFinal, ShapeInv, AtAny
<1>34. CASE DiscardAnonReplica
  BY <1>34 DEF DiscardAnonReplica, At, Goto, Fail, Return, ui, EndSwap, Running, LogoutInv,
        LogoutIsFinal, ShapeInv, AtAny, Connecting
<1>35. CASE DropAnonSeed
  BY <1>35 DEF DropAnonSeed, At, Fail, Return, ui, EndSwap, Running, LogoutInv,
        LogoutIsFinal, ShapeInv, AtAny, Connecting
<1>36. CASE StopForRenew
  BY <1>36 DEF StopForRenew, At, BootstrapSettled, Goto, ui, disk, LogoutInv, LogoutIsFinal,
        ShapeInv, AtAny, Running, Connecting
<1>37. CASE LandRenew
  BY <1>37 DEF LandRenew, At, Running, StartSync, Return, disk, EndSwap, LogoutInv,
        LogoutIsFinal, ShapeInv, AtAny, Connecting
<1>38. CASE RenewFails
  BY <1>38 DEF RenewFails, Running, At, Fail, Return, disk, EndSwap, LogoutInv,
        LogoutIsFinal, ShapeInv, AtAny, Connecting
<1>39. CASE AuthError
  BY <1>39 DEF AuthError, NotifyAccessExpired, disk, LogoutInv, LogoutIsFinal, ShapeInv, At,
        AtAny, Running, Connecting
<1>40. CASE WatchExpiry
  BY <1>40 DEF WatchExpiry, NearExpiry, NotifyAccessExpired, disk, LogoutInv, LogoutIsFinal,
        ShapeInv, At, AtAny, Running, Connecting
<1>41. CASE SyncStarts
  BY <1>41 DEF SyncStarts, BootstrapSettles, ui, disk, LogoutInv, LogoutIsFinal, ShapeInv,
        At, AtAny, Running, Connecting
<1>42. CASE SyncFails
  BY <1>42 DEF SyncFails, BootstrapSettles, ui, disk, LogoutInv, LogoutIsFinal, ShapeInv,
        At, AtAny, Running, Connecting
<1>43. CASE Advance
  BY <1>43 DEF Advance, ui, disk, LogoutInv, LogoutIsFinal, ShapeInv, At, AtAny, Running,
        Connecting
<1>44. CASE Crash
  BY <1>44 DEF Crash, disk, LogoutInv, LogoutIsFinal, ShapeInv, At, AtAny, Running,
        Connecting
<1>45. ASSUME NEW l \in Logins, OpenLogin(l) PROVE LogoutInv'
  BY <1>45 DEF OpenLogin, disk, LogoutInv, LogoutIsFinal, ShapeInv, At, AtAny, Running,
        Connecting
<1>46. ASSUME NEW l \in Logins, VerifyLogin(l) PROVE LogoutInv'
  BY <1>46 DEF VerifyLogin, disk, LogoutInv, LogoutIsFinal, ShapeInv, At, AtAny, Running,
        Connecting
<1>47. ASSUME NEW l \in Logins, FinishLogin(l) PROVE LogoutInv'
  BY <1>47 DEF FinishLogin, Answers, Enqueue, ui, disk, LogoutInv, LogoutIsFinal, ShapeInv,
        At, AtAny, Running, Connecting
<1>48. ASSUME NEW l \in Logins, CancelLogin(l) PROVE LogoutInv'
  BY <1>48 DEF CancelLogin, disk, LogoutInv, LogoutIsFinal, ShapeInv, At, AtAny, Running,
        Connecting
<1>49. ASSUME NEW r \in Reconnects, OpenReconnect(r) PROVE LogoutInv'
  BY <1>49 DEF OpenReconnect, Enqueue, disk, LogoutInv, LogoutIsFinal, ShapeInv, At, AtAny,
        Running, Connecting
<1>50. ASSUME NEW r \in Reconnects, LeaveReconnect(r) PROVE LogoutInv'
  BY <1>50 DEF LeaveReconnect, LogoutPending, disk, Running, LogoutInv, LogoutIsFinal,
        ShapeInv, At, AtAny, Connecting
<1>51. ASSUME NEW r \in Reconnects, AnswerReconnect(r) PROVE LogoutInv'
  BY <1>51 DEF AnswerReconnect, Answers, SameSpace, Enqueue, ui, disk, LogoutInv,
        LogoutIsFinal, ShapeInv, At, AtAny, Running, Connecting
<1>52. ASSUME NEW r \in Reconnects, CancelReconnect(r) PROVE LogoutInv'
  BY <1>52 DEF CancelReconnect, disk, LogoutInv, LogoutIsFinal, ShapeInv, At, AtAny,
        Running, Connecting
<1>53. ASSUME NEW t \in Calls, Call(t) PROVE LogoutInv'
  BY <1>53 DEF Call, Enqueue, ui, disk, LogoutInv, LogoutIsFinal, ShapeInv, At, AtAny,
        Running, Connecting
<1>54. ASSUME NEW w \in Writes, IssueWrite(w) PROVE LogoutInv'
  BY <1>54 DEF IssueWrite, ui, disk, LogoutInv, LogoutIsFinal, ShapeInv, At, AtAny, Running,
        Connecting
<1>55. ASSUME NEW w \in Writes, LandWrite(w) PROVE LogoutInv'
  BY <1>55 DEF LandWrite, Running, At, ui, LogoutInv, LogoutIsFinal, ShapeInv, AtAny,
        Connecting
<1> QED BY <1>1, <1>2, <1>3, <1>4, <1>5, <1>6, <1>7, <1>8, <1>9, <1>10, <1>11, <1>12, <1>13,
       <1>14, <1>15, <1>16, <1>17, <1>18, <1>19, <1>20, <1>21, <1>22, <1>23, <1>24, <1>25,
       <1>26, <1>27, <1>28, <1>29, <1>30, <1>31, <1>32, <1>33, <1>34, <1>35, <1>36, <1>37,
       <1>38, <1>39, <1>40, <1>41, <1>42, <1>43, <1>44, <1>45, <1>46, <1>47, <1>48, <1>49,
       <1>50, <1>51, <1>52, <1>53, <1>54, <1>55 DEF Next, ChainStep, PopupStep

\* The replica invariant, when no stranding step fails.
LEMMA OpenInvStep ==
  ASSUME NoStrandingFaults, TypeOK, ShapeInv, OpenInv, Next
  PROVE OpenInv'
<1>1. CASE Begin
  BY <1>1, FrameFields, GrantsFields DEF Begin, ui, holder, disk, OpenInv, NoAnonymousSync,
        ShapeInv, At, AtAny, Running, Connecting, TypeOK, TypeChain, TypeUi, TypeHolder,
        Optional
<1>2. CASE NoOp
  BY <1>2, FrameFields, GrantsFields DEF NoOp, At, TaskIsNoOp, Return, ui, disk, EndSwap,
        Running, OpenInv, NoAnonymousSync, ShapeInv, AtAny, Connecting, TypeOK, TypeChain,
        TypeUi, TypeHolder, Optional
<1>3. CASE BootMiss
  BY <1>3, FrameFields, GrantsFields DEF BootMiss, At, Running, Goto, ui, holder, OpenInv,
        NoAnonymousSync, ShapeInv, AtAny, Connecting, TypeOK, TypeChain, TypeUi, TypeHolder,
        Optional
<1>4. CASE BootRestore
  BY <1>4, FrameFields, GrantsFields DEF BootRestore, At, Running, Expired, Goto, ui,
        holder, disk, OpenInv, NoAnonymousSync, ShapeInv, AtAny, Connecting, TypeOK,
        TypeChain, TypeUi, TypeHolder, Optional
<1>5. CASE BootRetriesLocal
  BY <1>5, FrameFields, GrantsFields DEF BootRetriesLocal, OpenLocalFails, At, Running,
        Fail, Goto, ui, holder, disk, OpenInv, NoAnonymousSync, ShapeInv, AtAny, Connecting,
        NoStrandingFaults, TypeOK, TypeChain, TypeUi, TypeHolder, Optional
<1>6. CASE BootGivesUp
  BY <1>6, FrameFields, GrantsFields DEF BootGivesUp, OpenLocalFails, Running, Fail, Return,
        ui, disk, EndSwap, At, OpenInv, NoAnonymousSync, ShapeInv, AtAny, Connecting,
        NoStrandingFaults, TypeOK, TypeChain, TypeUi, TypeHolder, Optional
<1>7. CASE LoginAbandoned
  BY <1>7, FrameFields, GrantsFields DEF LoginAbandoned, At, Running, SameSession, Return,
        disk, EndSwap, OpenInv, NoAnonymousSync, ShapeInv, AtAny, Connecting, TypeOK,
        TypeChain, TypeUi, TypeHolder, Optional
<1>8. CASE StartConnect
  BY <1>8, FrameFields, GrantsFields, TaskFields DEF StartConnect, At, Connecting,
        TaskIsNoOp, Running, SameSession, Goto, ui, holder, disk, OpenInv, NoAnonymousSync,
        ShapeInv, AtAny, TypeOK, TypeChain, TypeUi, TypeHolder, Optional
<1>9. CASE RenewDiscarded
  BY <1>9, FrameFields, GrantsFields DEF RenewDiscarded, At, Running, StillToRenew, Return,
        disk, EndSwap, OpenInv, NoAnonymousSync, ShapeInv, AtAny, Connecting, TypeOK,
        TypeChain, TypeUi, TypeHolder, Optional
<1>10. CASE StartRenew
  BY <1>10, FrameFields, GrantsFields, TaskFields DEF StartRenew, At, Running, StillToRenew,
        Goto, ui, holder, disk, OpenInv, NoAnonymousSync, ShapeInv, AtAny, Connecting,
        TypeOK, TypeChain, TypeUi, TypeHolder, Optional
<1>11. CASE StartTeardown
  BY <1>11, FrameFields, GrantsFields DEF StartTeardown, At, Running, Detach, WipeTargets,
        ui, disk, Goto, OpenInv, NoAnonymousSync, ShapeInv, AtAny, Connecting, TypeOK,
        TypeChain, TypeUi, TypeHolder, Optional
<1>12. CASE Drain
  BY <1>12, FrameFields, GrantsFields DEF Drain, At, Running, StopAndClose, Goto,
        AfterDrain, ui, BootstrapSettled, Deletes, Fail, Erasing, OpenInv, NoAnonymousSync,
        ShapeInv, AtAny, Connecting, NoStrandingFaults, TypeOK, TypeChain, TypeUi,
        TypeHolder, Optional
<1>13. CASE DrainDestroy
  BY <1>13, FrameFields, GrantsFields DEF DrainDestroy, At, Running, StopAndClose,
        BootstrapSettled, Deletes, Fail, Erasing, OpenInv, NoAnonymousSync, ShapeInv, AtAny,
        Connecting, NoStrandingFaults, TypeOK, TypeChain, TypeUi, TypeHolder, Optional
<1>14. CASE ClearAnonSeed
  BY <1>14, FrameFields, GrantsFields DEF ClearAnonSeed, At, Goto, Fail, Return, ui,
        EndSwap, Running, OpenInv, NoAnonymousSync, ShapeInv, AtAny, Connecting,
        NoStrandingFaults, TypeOK, TypeChain, TypeUi, TypeHolder, Optional
<1>15. CASE ForgetSession
  BY <1>15, FrameFields, GrantsFields DEF ForgetSession, At, Goto, Running, Fail, Return,
        ui, EndSwap, OpenInv, NoAnonymousSync, ShapeInv, AtAny, Connecting,
        NoStrandingFaults, TypeOK, TypeChain, TypeUi, TypeHolder, Optional
<1>16. CASE Wipe
  BY <1>16, FrameFields, GrantsFields DEF Wipe, At, Running, Fail, Goto, ui, holder,
        OpenInv, NoAnonymousSync, ShapeInv, AtAny, Connecting, NoStrandingFaults, TypeOK,
        TypeChain, TypeUi, TypeHolder, Optional
<1>17. CASE LoadOrCreateAnonSeed
  <2>1. frame'.falling = frame.falling /\ frame'.grants = frame.grants
    BY <1>17 DEF LoadOrCreateAnonSeed, TypeOK, TypeChain, Frame
  <2> QED BY <2>1, <1>17
          DEF LoadOrCreateAnonSeed, Goto, ui, holder, OpenInv, NoAnonymousSync, At, AtAny,
              Running, Connecting
<1>18. CASE OpenAnon
  BY <1>18, FrameFields, GrantsFields DEF OpenAnon, At, Goto, ui, disk, OpenInv,
        NoAnonymousSync, ShapeInv, AtAny, Running, Connecting, TypeOK, TypeChain, TypeUi,
        TypeHolder, Optional
<1>19. CASE LandLocal
  BY <1>19, FrameFields, GrantsFields DEF LandLocal, At, FixturesCanRun, Running, Return,
        disk, EndSwap, OpenInv, NoAnonymousSync, ShapeInv, AtAny, Connecting, TypeOK,
        TypeChain, TypeUi, TypeHolder, Optional
<1>20. CASE ReopenFails
  BY <1>20, FrameFields, GrantsFields DEF ReopenFails, OpenLocalFails, Running, Connecting,
        Fail, Return, disk, EndSwap, At, OpenInv, NoAnonymousSync, ShapeInv, AtAny,
        NoStrandingFaults, TypeOK, TypeChain, TypeUi, TypeHolder, Optional
<1>21. CASE OpenLocalRejects
  BY <1>21, FrameFields, GrantsFields DEF OpenLocalRejects, OpenLocalFails, Running,
        Connecting, Fail, Return, disk, EndSwap, At, OpenInv, NoAnonymousSync, ShapeInv,
        AtAny, NoStrandingFaults, TypeOK, TypeChain, TypeUi, TypeHolder, Optional
<1>22. CASE Prepared
  BY <1>22, FrameFields, GrantsFields DEF Prepared, At, Running, Goto, Detach,
        CarriesAnonData, ui, disk, OpenInv, NoAnonymousSync, ShapeInv, AtAny, Connecting,
        TypeOK, TypeChain, TypeUi, TypeHolder, Optional
<1>23. CASE PrepareFails
  BY <1>23, FrameFields, GrantsFields DEF PrepareFails, At, Fail, Running, Fall, Return,
        disk, EndSwap, Detach, Goto, OpenInv, NoAnonymousSync, ShapeInv, AtAny, Connecting,
        NoStrandingFaults, TypeOK, TypeChain, TypeUi, TypeHolder, Optional
<1>24. CASE Collect
  BY <1>24, FrameFields, GrantsFields DEF Collect, At, NothingToCollect, Goto, ui, disk,
        FromLocal, OpenInv, NoAnonymousSync, ShapeInv, AtAny, Running, Connecting, TypeOK,
        TypeChain, TypeUi, TypeHolder, Optional
<1>25. CASE Read
  BY <1>25, FrameFields, GrantsFields DEF Read, At, Goto, ui, disk, OpenInv,
        NoAnonymousSync, ShapeInv, AtAny, Running, Connecting, TypeOK, TypeChain, TypeUi,
        TypeHolder, Optional
<1>26. CASE CollectFails
  BY <1>26, FrameFields, GrantsFields DEF CollectFails, At, FromLocal, Fail, Goto, ui, disk,
        OpenInv, NoAnonymousSync, ShapeInv, AtAny, Running, Connecting, NoStrandingFaults,
        TypeOK, TypeChain, TypeUi, TypeHolder, Optional
<1>27. CASE OpenConnected
  BY <1>27, FrameFields, GrantsFields DEF OpenConnected, At, Goto, ui, disk, OpenInv,
        NoAnonymousSync, ShapeInv, AtAny, Running, Connecting, TypeOK, TypeChain, TypeUi,
        TypeHolder, Optional
<1>28. CASE MergeAndHydrate
  BY <1>28, FrameFields, GrantsFields DEF MergeAndHydrate, At, Goto, AfterHydrate, ui,
        holder, OpenInv, NoAnonymousSync, ShapeInv, AtAny, Running, Connecting, TypeOK,
        TypeChain, TypeUi, TypeHolder, Optional
<1>29. CASE SaveSeed
  BY <1>29, FrameFields, GrantsFields DEF SaveSeed, At, Goto, ui, holder, OpenInv,
        NoAnonymousSync, ShapeInv, AtAny, Running, Connecting, TypeOK, TypeChain, TypeUi,
        TypeHolder, Optional
<1>30. CASE SaveRecord
  BY <1>30, FrameFields, GrantsFields DEF SaveRecord, At, Goto, ui, holder, OpenInv,
        NoAnonymousSync, ShapeInv, AtAny, Running, Connecting, TypeOK, TypeChain, TypeUi,
        TypeHolder, Optional
<1>31. CASE ActivationFails
  BY <1>31, FrameFields, GrantsFields DEF ActivationFails, Activating, Running, Fail, At,
        Fall, Detach, ui, Goto, OpenInv, NoAnonymousSync, ShapeInv, AtAny, Connecting,
        NoStrandingFaults, TypeOK, TypeChain, TypeUi, TypeHolder, Optional
<1>32. CASE LandBoot
  BY <1>32, FrameFields, GrantsFields DEF LandBoot, At, Running, StartSync, Return, disk,
        EndSwap, OpenInv, NoAnonymousSync, ShapeInv, AtAny, Connecting, TypeOK, TypeChain,
        TypeUi, TypeHolder, Optional
<1>33. CASE LandConnect
  BY <1>33, FrameFields, GrantsFields DEF LandConnect, At, Connecting, StartSync, Return,
        EndSwap, Goto, disk, Running, OpenInv, NoAnonymousSync, ShapeInv, AtAny, TypeOK,
        TypeChain, TypeUi, TypeHolder, Optional
<1>34. CASE DiscardAnonReplica
  BY <1>34, FrameFields, GrantsFields DEF DiscardAnonReplica, At, Goto, Fail, Return, ui,
        EndSwap, Running, OpenInv, NoAnonymousSync, ShapeInv, AtAny, Connecting,
        NoStrandingFaults, TypeOK, TypeChain, TypeUi, TypeHolder, Optional
<1>35. CASE DropAnonSeed
  BY <1>35, FrameFields, GrantsFields DEF DropAnonSeed, At, Fail, Return, ui, EndSwap,
        Running, OpenInv, NoAnonymousSync, ShapeInv, AtAny, Connecting, NoStrandingFaults,
        TypeOK, TypeChain, TypeUi, TypeHolder, Optional
<1>36. CASE StopForRenew
  BY <1>36, FrameFields, GrantsFields DEF StopForRenew, At, BootstrapSettled, Goto, ui,
        disk, OpenInv, NoAnonymousSync, ShapeInv, AtAny, Running, Connecting, TypeOK,
        TypeChain, TypeUi, TypeHolder, Optional
<1>37. CASE LandRenew
  BY <1>37, FrameFields, GrantsFields DEF LandRenew, At, Running, StartSync, Return, disk,
        EndSwap, OpenInv, NoAnonymousSync, ShapeInv, AtAny, Connecting, TypeOK, TypeChain,
        TypeUi, TypeHolder, Optional
<1>38. CASE RenewFails
  BY <1>38, FrameFields, GrantsFields DEF RenewFails, Running, At, Fail, Return, disk,
        EndSwap, OpenInv, NoAnonymousSync, ShapeInv, AtAny, Connecting, NoStrandingFaults,
        TypeOK, TypeChain, TypeUi, TypeHolder, Optional
<1>39. CASE AuthError
  BY <1>39, FrameFields, GrantsFields DEF AuthError, NotifyAccessExpired, holder, disk,
        OpenInv, NoAnonymousSync, ShapeInv, At, AtAny, Running, Connecting, TypeOK,
        TypeChain, TypeUi, TypeHolder, Optional
<1>40. CASE WatchExpiry
  BY <1>40, FrameFields, GrantsFields DEF WatchExpiry, NearExpiry, NotifyAccessExpired,
        holder, disk, OpenInv, NoAnonymousSync, ShapeInv, At, AtAny, Running, Connecting,
        TypeOK, TypeChain, TypeUi, TypeHolder, Optional
<1>41. CASE SyncStarts
  BY <1>41, FrameFields, GrantsFields DEF SyncStarts, BootstrapSettles, ui, disk, OpenInv,
        NoAnonymousSync, ShapeInv, At, AtAny, Running, Connecting, TypeOK, TypeChain,
        TypeUi, TypeHolder, Optional
<1>42. CASE SyncFails
  BY <1>42, FrameFields, GrantsFields DEF SyncFails, BootstrapSettles, ui, disk, OpenInv,
        NoAnonymousSync, ShapeInv, At, AtAny, Running, Connecting, TypeOK, TypeChain,
        TypeUi, TypeHolder, Optional
<1>43. CASE Advance
  BY <1>43, FrameFields, GrantsFields DEF Advance, ui, holder, disk, OpenInv,
        NoAnonymousSync, ShapeInv, At, AtAny, Running, Connecting, TypeOK, TypeChain,
        TypeUi, TypeHolder, Optional
<1>44. CASE Crash
  BY <1>44, FrameFields, GrantsFields DEF Crash, disk, OpenInv, NoAnonymousSync, ShapeInv,
        At, AtAny, Running, Connecting, TypeOK, TypeChain, TypeUi, TypeHolder, Optional
<1>45. ASSUME NEW l \in Logins, OpenLogin(l) PROVE OpenInv'
  BY <1>45, FrameFields, GrantsFields DEF OpenLogin, holder, disk, OpenInv, NoAnonymousSync,
        ShapeInv, At, AtAny, Running, Connecting, TypeOK, TypeChain, TypeUi, TypeHolder,
        Optional
<1>46. ASSUME NEW l \in Logins, VerifyLogin(l) PROVE OpenInv'
  BY <1>46, FrameFields, GrantsFields DEF VerifyLogin, holder, disk, OpenInv,
        NoAnonymousSync, ShapeInv, At, AtAny, Running, Connecting, TypeOK, TypeChain,
        TypeUi, TypeHolder, Optional
<1>47. ASSUME NEW l \in Logins, FinishLogin(l) PROVE OpenInv'
  BY <1>47, FrameFields, GrantsFields DEF FinishLogin, Answers, Enqueue, ui, holder, disk,
        OpenInv, NoAnonymousSync, ShapeInv, At, AtAny, Running, Connecting, TypeOK,
        TypeChain, TypeUi, TypeHolder, Optional
<1>48. ASSUME NEW l \in Logins, CancelLogin(l) PROVE OpenInv'
  BY <1>48, FrameFields, GrantsFields DEF CancelLogin, holder, disk, OpenInv,
        NoAnonymousSync, ShapeInv, At, AtAny, Running, Connecting, TypeOK, TypeChain,
        TypeUi, TypeHolder, Optional
<1>49. ASSUME NEW r \in Reconnects, OpenReconnect(r) PROVE OpenInv'
  BY <1>49, FrameFields, GrantsFields DEF OpenReconnect, Enqueue, holder, disk, OpenInv,
        NoAnonymousSync, ShapeInv, At, AtAny, Running, Connecting, TypeOK, TypeChain,
        TypeUi, TypeHolder, Optional
<1>50. ASSUME NEW r \in Reconnects, LeaveReconnect(r) PROVE OpenInv'
  BY <1>50, FrameFields, GrantsFields DEF LeaveReconnect, LogoutPending, holder, disk,
        Running, OpenInv, NoAnonymousSync, ShapeInv, At, AtAny, Connecting, TypeOK,
        TypeChain, TypeUi, TypeHolder, Optional
<1>51. ASSUME NEW r \in Reconnects, AnswerReconnect(r) PROVE OpenInv'
  BY <1>51, FrameFields, GrantsFields DEF AnswerReconnect, Answers, SameSpace, Enqueue, ui,
        holder, disk, OpenInv, NoAnonymousSync, ShapeInv, At, AtAny, Running, Connecting,
        TypeOK, TypeChain, TypeUi, TypeHolder, Optional
<1>52. ASSUME NEW r \in Reconnects, CancelReconnect(r) PROVE OpenInv'
  BY <1>52, FrameFields, GrantsFields DEF CancelReconnect, holder, disk, OpenInv,
        NoAnonymousSync, ShapeInv, At, AtAny, Running, Connecting, TypeOK, TypeChain,
        TypeUi, TypeHolder, Optional
<1>53. ASSUME NEW t \in Calls, Call(t) PROVE OpenInv'
  BY <1>53, FrameFields, GrantsFields DEF Call, Enqueue, ui, holder, disk, OpenInv,
        NoAnonymousSync, ShapeInv, At, AtAny, Running, Connecting, TypeOK, TypeChain,
        TypeUi, TypeHolder, Optional
<1>54. ASSUME NEW w \in Writes, IssueWrite(w) PROVE OpenInv'
  BY <1>54, FrameFields, GrantsFields DEF IssueWrite, ui, holder, disk, OpenInv,
        NoAnonymousSync, ShapeInv, At, AtAny, Running, Connecting, TypeOK, TypeChain,
        TypeUi, TypeHolder, Optional
<1>55. ASSUME NEW w \in Writes, LandWrite(w) PROVE OpenInv'
  BY <1>55, FrameFields, GrantsFields DEF LandWrite, Running, At, ui, holder, OpenInv,
        NoAnonymousSync, ShapeInv, AtAny, Connecting, TypeOK, TypeChain, TypeUi, TypeHolder,
        Optional
<1> QED BY <1>1, <1>2, <1>3, <1>4, <1>5, <1>6, <1>7, <1>8, <1>9, <1>10, <1>11, <1>12, <1>13,
       <1>14, <1>15, <1>16, <1>17, <1>18, <1>19, <1>20, <1>21, <1>22, <1>23, <1>24, <1>25,
       <1>26, <1>27, <1>28, <1>29, <1>30, <1>31, <1>32, <1>33, <1>34, <1>35, <1>36, <1>37,
       <1>38, <1>39, <1>40, <1>41, <1>42, <1>43, <1>44, <1>45, <1>46, <1>47, <1>48, <1>49,
       <1>50, <1>51, <1>52, <1>53, <1>54, <1>55 DEF Next, ChainStep, PopupStep

LEMMA InitInvs == Init => TypeOK /\ ShapeInv /\ LogoutInv /\ OpenInv
<1> SUFFICES ASSUME Init PROVE TypeOK /\ ShapeInv /\ LogoutInv /\ OpenInv
  OBVIOUS
<1>1. TypeUi /\ TypeHolder /\ TypeBounds
  BY ConstantsOK DEF Init, TypeUi, TypeHolder, TypeBounds, Statuses, Optional
<1>2. TypeDisk
  BY ConstantsOK DEF Init, TypeDisk, Grants, Optional
<1>3. TypeChain
  BY CalledTasks, NoFrameType DEF Init, TypeChain, Steps, Optional
<1>4. TypeCallers
  BY CallTypes DEF Init, TypeCallers
<1>5. ShapeInv
  BY DEF Init, ShapeInv, At, AtAny, Running, Connecting, NoFrame
<1>6. LogoutInv
  BY DEF Init, LogoutInv, LogoutIsFinal, AtAny, Running, Connecting
<1>7. OpenInv
  BY DEF Init, OpenInv, NoAnonymousSync, AtAny, Running, Connecting
<1> QED BY <1>1, <1>2, <1>3, <1>4, <1>5, <1>6, <1>7 DEF TypeOK

\* A stutter preserves every invariant.
LEMMA Stutter ==
  UNCHANGED vars =>
    /\ TypeOK => TypeOK'
    /\ ShapeInv => ShapeInv'
    /\ LogoutInv => LogoutInv'
    /\ OpenInv => OpenInv'
<1> SUFFICES ASSUME UNCHANGED vars
             PROVE /\ TypeOK => TypeOK'
                   /\ ShapeInv => ShapeInv'
                   /\ LogoutInv => LogoutInv'
                   /\ OpenInv => OpenInv'
  OBVIOUS
<1>1. TypeOK => TypeOK'
  BY DEF vars, ui, holder, disk, popups, bounds, TypeOK, TypeUi, TypeHolder, TypeDisk,
         TypeChain, TypeCallers, TypeBounds
<1>2. ShapeInv => ShapeInv'
  BY DEF vars, ui, disk, ShapeInv, At, AtAny, Running, Connecting
<1>3. LogoutInv => LogoutInv'
  BY DEF vars, ui, disk, LogoutInv, LogoutIsFinal, AtAny, Running, Connecting
<1>4. OpenInv => OpenInv'
  BY DEF vars, ui, holder, OpenInv, NoAnonymousSync, AtAny, Running, Connecting
<1> QED BY <1>1, <1>2, <1>3, <1>4

\* The state of the auth store, its storage context, its disk and its callers keeps
\* its type, and every task of the chain stands at a step of its own: prerequisite of
\* the theorems below (createAuthStore).
THEOREM TypeCorrect == Spec => [](TypeOK /\ ShapeInv)
<1>1. Init => TypeOK /\ ShapeInv
  BY InitInvs
<1>2. TypeOK /\ ShapeInv /\ [Next]_vars => (TypeOK /\ ShapeInv)'
  BY TypeStep, ShapeInvStep, Stutter
<1> QED BY <1>1, <1>2, PTL DEF Spec

\* After a completed logout or clear no reload restores the session until the user
\* connects again, whatever popups were open, whatever failed and wherever the page
\* crashed (the epilogues of logout, clearLocalData and reconnect).
THEOREM LogoutFinal == Spec => []LogoutIsFinal
<1>1. Init => LogoutInv
  BY InitInvs
<1>2. TypeOK /\ ShapeInv /\ LogoutInv /\ [Next]_vars => LogoutInv'
  BY LogoutInvStep, Stutter
<1>3. LogoutInv => LogoutIsFinal
  BY DEF LogoutInv
<1> QED BY <1>1, <1>2, <1>3, TypeCorrect, PTL DEF Spec

\* Unless a step of clearLocalData or the clearAppSession of a logout fails, what the
\* bootstrap replicates under a wallet's capabilities is always the replica of a
\* wallet identity (persistAndStartSync, the epilogue of reconnect).
THEOREM NoAnonymousReplication ==
  ASSUME NoStrandingFaults
  PROVE  Spec => []NoAnonymousSync
<1>1. Init => OpenInv
  BY InitInvs
<1>2. TypeOK /\ ShapeInv /\ OpenInv /\ [Next]_vars => OpenInv'
  BY OpenInvStep, Stutter, NoStrandingFaults
<1>3. OpenInv => NoAnonymousSync
  BY DEF OpenInv
<1> QED BY <1>1, <1>2, <1>3, TypeCorrect, PTL DEF Spec

\* Under the same assumption, whenever no task is running a status that names a
\* connected account means that the replica of that account is attached
\* (completeConnect, activateConnected, reopenLocal).
THEOREM ConnectedHasReplica ==
  ASSUME NoStrandingFaults
  PROVE  Spec => []ConnectedIsOpen
<1>1. Init => OpenInv
  BY InitInvs
<1>2. TypeOK /\ ShapeInv /\ OpenInv /\ [Next]_vars => OpenInv'
  BY OpenInvStep, Stutter, NoStrandingFaults
<1>3. OpenInv => ConnectedIsOpen
  BY DEF OpenInv, ConnectedIsOpen
<1> QED BY <1>1, <1>2, <1>3, TypeCorrect, PTL DEF Spec

=============================================================================
