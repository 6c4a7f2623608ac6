------------------------ MODULE SessionReplicaProofs ------------------------
(***************************************************************************)
(* What holds of Session's replicas, documents and grants for every value  *)
(* of its constants: at most one replica is open, an acknowledged write    *)
(* stays reachable, an erased one is gone, and a local session has its     *)
(* replica attached; sync replicates the account whose capabilities it     *)
(* invokes and ends with its session, and a connected session is persisted,*)
(* replicating and watched.                                                *)
(***************************************************************************)
EXTENDS SessionProofs

(***************************************************************************)
(* The replicas and their documents                                        *)
(***************************************************************************)
\* Where the replica is attached, whatever fails.
LEMMA AttachInvStep ==
  ASSUME TypeOK, ShapeInv, AttachInv, Next
  PROVE AttachInv'
<1> USE ConstantsOK
<1>1. CASE Begin
  BY <1>1, FrameFields, GrantsFields DEF Begin, ui, holder, disk, At, AtAny, Running,
     Connecting, AttachInv, FromLocal, Activated, ShapeInv, TypeOK, TypeChain, TypeDisk, TypeUi,
     TypeHolder, Frame, NoFrame, Optional
<1>2. CASE NoOp
  BY <1>2, FrameFields, GrantsFields DEF NoOp, TaskIsNoOp, Return, ui, disk, EndSwap, At, AtAny,
     Running, Connecting, AttachInv, FromLocal, Activated, ShapeInv, TypeOK, TypeChain, TypeDisk,
     TypeUi, TypeHolder, Frame, NoFrame, Optional
<1>3. CASE BootMiss
  BY <1>3, FrameFields, GrantsFields DEF BootMiss, Goto, ui, holder, At, AtAny, Running,
     Connecting, AttachInv, FromLocal, Activated, ShapeInv, TypeOK, TypeChain, TypeDisk, TypeUi,
     TypeHolder, Frame, NoFrame, Optional
<1>4. CASE BootRestore
  BY <1>4, FrameFields, GrantsFields DEF BootRestore, Expired, Goto, ui, holder, disk, At,
     AtAny, Running, Connecting, AttachInv, FromLocal, Activated, ShapeInv, TypeOK, TypeChain,
     TypeDisk, TypeUi, TypeHolder, Frame, NoFrame, Optional
<1>5. CASE BootRetriesLocal
  BY <1>5, FrameFields, GrantsFields DEF BootRetriesLocal, OpenLocalFails, Fail, Goto, ui,
     holder, disk, At, AtAny, Running, Connecting, AttachInv, FromLocal, Activated, ShapeInv,
     TypeOK, TypeChain, TypeDisk, TypeUi, TypeHolder, Frame, NoFrame, Optional
<1>6. CASE BootGivesUp
  BY <1>6, FrameFields, GrantsFields DEF BootGivesUp, OpenLocalFails, Fail, Return, ui, disk,
     EndSwap, At, AtAny, Running, Connecting, AttachInv, FromLocal, Activated, ShapeInv, TypeOK,
     TypeChain, TypeDisk, TypeUi, TypeHolder, Frame, NoFrame, Optional
<1>7. CASE LoginAbandoned
  BY <1>7, FrameFields, GrantsFields DEF LoginAbandoned, SameSession, Return, disk, EndSwap, At,
     AtAny, Running, Connecting, AttachInv, FromLocal, Activated, ShapeInv, TypeOK, TypeChain,
     TypeDisk, TypeUi, TypeHolder, Frame, NoFrame, Optional
<1>8. CASE StartConnect
  BY <1>8, FrameFields, GrantsFields DEF StartConnect, TaskIsNoOp, SameSession, Goto, ui,
     holder, disk, At, AtAny, Running, Connecting, AttachInv, FromLocal, Activated, ShapeInv,
     TypeOK, TypeChain, TypeDisk, TypeUi, TypeHolder, Frame, NoFrame, Optional
<1>9. CASE RenewDiscarded
  BY <1>9, FrameFields, GrantsFields DEF RenewDiscarded, StillToRenew, Return, disk, EndSwap,
     At, AtAny, Running, Connecting, AttachInv, FromLocal, Activated, ShapeInv, TypeOK, TypeChain,
     TypeDisk, TypeUi, TypeHolder, Frame, NoFrame, Optional
<1>10. CASE StartRenew
  BY <1>10, FrameFields, GrantsFields DEF StartRenew, StillToRenew, Goto, ui, holder, disk, At,
     AtAny, Running, Connecting, AttachInv, FromLocal, Activated, ShapeInv, TypeOK, TypeChain,
     TypeDisk, TypeUi, TypeHolder, Frame, NoFrame, Optional
<1>11. CASE StartTeardown
  BY <1>11, FrameFields, GrantsFields DEF StartTeardown, Detach, WipeTargets, ui, disk, Goto,
     At, AtAny, Running, Connecting, AttachInv, FromLocal, Activated, ShapeInv, TypeOK, TypeChain,
     TypeDisk, TypeUi, TypeHolder, Frame, NoFrame, Optional
<1>12. CASE Drain
  BY <1>12, FrameFields, GrantsFields DEF Drain, StopAndClose, Goto, AfterDrain, ui,
     BootstrapSettled, Deletes, Fail, Erasing, At, AtAny, Running, Connecting, AttachInv,
     FromLocal, Activated, ShapeInv, TypeOK, TypeChain, TypeDisk, TypeUi, TypeHolder, Frame,
     NoFrame, Optional
<1>13. CASE DrainDestroy
  BY <1>13, FrameFields, GrantsFields DEF DrainDestroy, StopAndClose, BootstrapSettled, Deletes,
     Fail, Erasing, At, AtAny, Running, Connecting, AttachInv, FromLocal, Activated, ShapeInv,
     TypeOK, TypeChain, TypeDisk, TypeUi, TypeHolder, Frame, NoFrame, Optional
<1>14. CASE ClearAnonSeed
  BY <1>14, FrameFields, GrantsFields DEF ClearAnonSeed, Goto, Fail, Return, ui, EndSwap, At,
     AtAny, Running, Connecting, AttachInv, FromLocal, Activated, ShapeInv, TypeOK, TypeChain,
     TypeDisk, TypeUi, TypeHolder, Frame, NoFrame, Optional
<1>15. CASE ForgetSession
  BY <1>15, FrameFields, GrantsFields DEF ForgetSession, Goto, Fail, Return, ui, EndSwap, At,
     AtAny, Running, Connecting, AttachInv, FromLocal, Activated, ShapeInv, TypeOK, TypeChain,
     TypeDisk, TypeUi, TypeHolder, Frame, NoFrame, Optional
<1>16. CASE Wipe
  BY <1>16, FrameFields, GrantsFields DEF Wipe, Fail, Goto, ui, holder, At, AtAny, Running,
     Connecting, AttachInv, FromLocal, Activated, ShapeInv, TypeOK, TypeChain, TypeDisk, TypeUi,
     TypeHolder, Frame, NoFrame, Optional
<1>17. CASE LoadOrCreateAnonSeed
  BY <1>17, FrameFields, GrantsFields DEF LoadOrCreateAnonSeed, Goto, ui, holder, At, AtAny,
     Running, Connecting, AttachInv, FromLocal, Activated, ShapeInv, TypeOK, TypeChain, TypeDisk,
     TypeUi, TypeHolder, Frame, NoFrame, Optional
<1>18. CASE OpenAnon
  BY <1>18, FrameFields, GrantsFields DEF OpenAnon, Goto, ui, disk, At, AtAny, Running,
     Connecting, AttachInv, FromLocal, Activated, ShapeInv, TypeOK, TypeChain, TypeDisk, TypeUi,
     TypeHolder, Frame, NoFrame, Optional
<1>19. CASE LandLocal
  BY <1>19, FrameFields, GrantsFields DEF LandLocal, FixturesCanRun, Return, disk, EndSwap, At,
     AtAny, Running, Connecting, AttachInv, FromLocal, Activated, ShapeInv, TypeOK, TypeChain,
     TypeDisk, TypeUi, TypeHolder, Frame, NoFrame, Optional
<1>20. CASE ReopenFails
  BY <1>20, FrameFields, GrantsFields DEF ReopenFails, OpenLocalFails, Fail, Return, disk,
     EndSwap, At, AtAny, Running, Connecting, AttachInv, FromLocal, Activated, ShapeInv, TypeOK,
     TypeChain, TypeDisk, TypeUi, TypeHolder, Frame, NoFrame, Optional
<1>21. CASE OpenLocalRejects
  BY <1>21, FrameFields, GrantsFields DEF OpenLocalRejects, OpenLocalFails, Fail, Return, disk,
     EndSwap, At, AtAny, Running, Connecting, AttachInv, FromLocal, Activated, ShapeInv, TypeOK,
     TypeChain, TypeDisk, TypeUi, TypeHolder, Frame, NoFrame, Optional
<1>22. CASE Prepared
  BY <1>22, FrameFields, GrantsFields DEF Prepared, Goto, Detach, CarriesAnonData, ui, disk, At,
     AtAny, Running, Connecting, AttachInv, FromLocal, Activated, ShapeInv, TypeOK, TypeChain,
     TypeDisk, TypeUi, TypeHolder, Frame, NoFrame, Optional
<1>23. CASE PrepareFails
  BY <1>23, FrameFields, GrantsFields DEF PrepareFails, Fail, Fall, Return, disk, EndSwap,
     Detach, Goto, At, AtAny, Running, Connecting, AttachInv, FromLocal, Activated, ShapeInv,
     TypeOK, TypeChain, TypeDisk, TypeUi, TypeHolder, Frame, NoFrame, Optional
<1>24. CASE Collect
  BY <1>24, FrameFields, GrantsFields DEF Collect, NothingToCollect, Goto, ui, disk, FromLocal,
     At, AtAny, Running, Connecting, AttachInv, Activated, ShapeInv, TypeOK, TypeChain, TypeDisk,
     TypeUi, TypeHolder, Frame, NoFrame, Optional
<1>25. CASE Read
  BY <1>25, FrameFields, GrantsFields DEF Read, Goto, ui, disk, At, AtAny, Running, Connecting,
     AttachInv, FromLocal, Activated, ShapeInv, TypeOK, TypeChain, TypeDisk, TypeUi, TypeHolder,
     Frame, NoFrame, Optional
<1>26. CASE CollectFails
  BY <1>26, FrameFields, GrantsFields DEF CollectFails, FromLocal, Fail, Goto, ui, disk, At,
     AtAny, Running, Connecting, AttachInv, Activated, ShapeInv, TypeOK, TypeChain, TypeDisk,
     TypeUi, TypeHolder, Frame, NoFrame, Optional
<1>27. CASE OpenConnected
  BY <1>27, FrameFields, GrantsFields DEF OpenConnected, Goto, ui, disk, At, AtAny, Running,
     Connecting, AttachInv, FromLocal, Activated, ShapeInv, TypeOK, TypeChain, TypeDisk, TypeUi,
     TypeHolder, Frame, NoFrame, Optional
<1>28. CASE MergeAndHydrate
  BY <1>28, FrameFields, GrantsFields DEF MergeAndHydrate, Goto, AfterHydrate, ui, holder, At,
     AtAny, Running, Connecting, AttachInv, FromLocal, Activated, ShapeInv, TypeOK, TypeChain,
     TypeDisk, TypeUi, TypeHolder, Frame, NoFrame, Optional
<1>29. CASE SaveSeed
  BY <1>29, FrameFields, GrantsFields DEF SaveSeed, Goto, ui, holder, At, AtAny, Running,
     Connecting, AttachInv, FromLocal, Activated, ShapeInv, TypeOK, TypeChain, TypeDisk, TypeUi,
     TypeHolder, Frame, NoFrame, Optional
<1>30. CASE SaveRecord
  BY <1>30, FrameFields, GrantsFields DEF SaveRecord, Goto, ui, holder, At, AtAny, Running,
     Connecting, AttachInv, FromLocal, Activated, ShapeInv, TypeOK, TypeChain, TypeDisk, TypeUi,
     TypeHolder, Frame, NoFrame, Optional
<1>31. CASE ActivationFails
  BY <1>31, FrameFields, GrantsFields DEF ActivationFails, Activating, Fail, Fall, Detach, ui,
     Goto, At, AtAny, Running, Connecting, AttachInv, FromLocal, Activated, ShapeInv, TypeOK,
     TypeChain, TypeDisk, TypeUi, TypeHolder, Frame, NoFrame, Optional
<1>32. CASE LandBoot
  BY <1>32, FrameFields, GrantsFields DEF LandBoot, StartSync, Return, disk, EndSwap, At, AtAny,
     Running, Connecting, AttachInv, FromLocal, Activated, ShapeInv, TypeOK, TypeChain, TypeDisk,
     TypeUi, TypeHolder, Frame, NoFrame, Optional
<1>33. CASE LandConnect
  BY <1>33, FrameFields, GrantsFields DEF LandConnect, StartSync, Return, EndSwap, Goto, disk,
     At, AtAny, Running, Connecting, AttachInv, FromLocal, Activated, ShapeInv, TypeOK, TypeChain,
     TypeDisk, TypeUi, TypeHolder, Frame, NoFrame, Optional
<1>34. CASE DiscardAnonReplica
  BY <1>34, FrameFields, GrantsFields DEF DiscardAnonReplica, Goto, Fail, Return, ui, EndSwap,
     At, AtAny, Running, Connecting, AttachInv, FromLocal, Activated, ShapeInv, TypeOK, TypeChain,
     TypeDisk, TypeUi, TypeHolder, Frame, NoFrame, Optional
<1>35. CASE DropAnonSeed
  BY <1>35, FrameFields, GrantsFields DEF DropAnonSeed, Fail, Return, ui, EndSwap, At, AtAny,
     Running, Connecting, AttachInv, FromLocal, Activated, ShapeInv, TypeOK, TypeChain, TypeDisk,
     TypeUi, TypeHolder, Frame, NoFrame, Optional
<1>36. CASE StopForRenew
  BY <1>36, FrameFields, GrantsFields DEF StopForRenew, BootstrapSettled, Goto, ui, disk, At,
     AtAny, Running, Connecting, AttachInv, FromLocal, Activated, ShapeInv, TypeOK, TypeChain,
     TypeDisk, TypeUi, TypeHolder, Frame, NoFrame, Optional
<1>37. CASE LandRenew
  BY <1>37, FrameFields, GrantsFields DEF LandRenew, StartSync, Return, disk, EndSwap, At,
     AtAny, Running, Connecting, AttachInv, FromLocal, Activated, ShapeInv, TypeOK, TypeChain,
     TypeDisk, TypeUi, TypeHolder, Frame, NoFrame, Optional
<1>38. CASE RenewFails
  BY <1>38, FrameFields, GrantsFields DEF RenewFails, Fail, Return, disk, EndSwap, At, AtAny,
     Running, Connecting, AttachInv, FromLocal, Activated, ShapeInv, TypeOK, TypeChain, TypeDisk,
     TypeUi, TypeHolder, Frame, NoFrame, Optional
<1>39. CASE AuthError
  BY <1>39, FrameFields, GrantsFields DEF AuthError, NotifyAccessExpired, holder, disk, At,
     AtAny, Running, Connecting, AttachInv, FromLocal, Activated, ShapeInv, TypeOK, TypeChain,
     TypeDisk, TypeUi, TypeHolder, Frame, NoFrame, Optional
<1>40. CASE WatchExpiry
  BY <1>40, FrameFields, GrantsFields DEF WatchExpiry, NearExpiry, NotifyAccessExpired, holder,
     disk, At, AtAny, Running, Connecting, AttachInv, FromLocal, Activated, ShapeInv, TypeOK,
     TypeChain, TypeDisk, TypeUi, TypeHolder, Frame, NoFrame, Optional
<1>41. CASE SyncStarts
  BY <1>41, FrameFields, GrantsFields DEF SyncStarts, BootstrapSettles, ui, disk, At, AtAny,
     Running, Connecting, AttachInv, FromLocal, Activated, ShapeInv, TypeOK, TypeChain, TypeDisk,
     TypeUi, TypeHolder, Frame, NoFrame, Optional
<1>42. CASE SyncFails
  BY <1>42, FrameFields, GrantsFields DEF SyncFails, BootstrapSettles, ui, disk, At, AtAny,
     Running, Connecting, AttachInv, FromLocal, Activated, ShapeInv, TypeOK, TypeChain, TypeDisk,
     TypeUi, TypeHolder, Frame, NoFrame, Optional
<1>43. CASE Advance
  BY <1>43, FrameFields, GrantsFields DEF Advance, ui, holder, disk, At, AtAny, Running,
     Connecting, AttachInv, FromLocal, Activated, ShapeInv, TypeOK, TypeChain, TypeDisk, TypeUi,
     TypeHolder, Frame, NoFrame, Optional
<1>44. CASE Crash
  BY <1>44, FrameFields, GrantsFields DEF Crash, disk, At, AtAny, Running, Connecting,
     AttachInv, FromLocal, Activated, ShapeInv, TypeOK, TypeChain, TypeDisk, TypeUi, TypeHolder,
     Frame, NoFrame, Optional
<1>45. ASSUME NEW l \in Logins, OpenLogin(l) PROVE AttachInv'
  BY <1>45, FrameFields, GrantsFields DEF OpenLogin, holder, disk, At, AtAny, Running,
     Connecting, AttachInv, FromLocal, Activated, ShapeInv, TypeOK, TypeChain, TypeDisk, TypeUi,
     TypeHolder, Frame, NoFrame, Optional
<1>46. ASSUME NEW l \in Logins, VerifyLogin(l) PROVE AttachInv'
  BY <1>46, FrameFields, GrantsFields DEF VerifyLogin, holder, disk, At, AtAny, Running,
     Connecting, AttachInv, FromLocal, Activated, ShapeInv, TypeOK, TypeChain, TypeDisk, TypeUi,
     TypeHolder, Frame, NoFrame, Optional
<1>47. ASSUME NEW l \in Logins, FinishLogin(l) PROVE AttachInv'
  BY <1>47, FrameFields, GrantsFields DEF FinishLogin, Answers, Enqueue, ui, holder, disk, At,
     AtAny, Running, Connecting, AttachInv, FromLocal, Activated, ShapeInv, TypeOK, TypeChain,
     TypeDisk, TypeUi, TypeHolder, Frame, NoFrame, Optional
<1>48. ASSUME NEW l \in Logins, CancelLogin(l) PROVE AttachInv'
  BY <1>48, FrameFields, GrantsFields DEF CancelLogin, holder, disk, At, AtAny, Running,
     Connecting, AttachInv, FromLocal, Activated, ShapeInv, TypeOK, TypeChain, TypeDisk, TypeUi,
     TypeHolder, Frame, NoFrame, Optional
<1>49. ASSUME NEW r \in Reconnects, OpenReconnect(r) PROVE AttachInv'
  BY <1>49, FrameFields, GrantsFields DEF OpenReconnect, Enqueue, holder, disk, At, AtAny,
     Running, Connecting, AttachInv, FromLocal, Activated, ShapeInv, TypeOK, TypeChain, TypeDisk,
     TypeUi, TypeHolder, Frame, NoFrame, Optional
<1>50. ASSUME NEW r \in Reconnects, LeaveReconnect(r) PROVE AttachInv'
  BY <1>50, FrameFields, GrantsFields DEF LeaveReconnect, LogoutPending, holder, disk, At,
     AtAny, Running, Connecting, AttachInv, FromLocal, Activated, ShapeInv, TypeOK, TypeChain,
     TypeDisk, TypeUi, TypeHolder, Frame, NoFrame, Optional
<1>51. ASSUME NEW r \in Reconnects, AnswerReconnect(r) PROVE AttachInv'
  BY <1>51, FrameFields, GrantsFields DEF AnswerReconnect, Answers, SameSpace, Enqueue, ui,
     holder, disk, At, AtAny, Running, Connecting, AttachInv, FromLocal, Activated, ShapeInv,
     TypeOK, TypeChain, TypeDisk, TypeUi, TypeHolder, Frame, NoFrame, Optional
<1>52. ASSUME NEW r \in Reconnects, CancelReconnect(r) PROVE AttachInv'
  BY <1>52, FrameFields, GrantsFields DEF CancelReconnect, holder, disk, At, AtAny, Running,
     Connecting, AttachInv, FromLocal, Activated, ShapeInv, TypeOK, TypeChain, TypeDisk, TypeUi,
     TypeHolder, Frame, NoFrame, Optional
<1>53. ASSUME NEW t \in Calls, Call(t) PROVE AttachInv'
  BY <1>53, FrameFields, GrantsFields DEF Call, Enqueue, ui, holder, disk, At, AtAny, Running,
     Connecting, AttachInv, FromLocal, Activated, ShapeInv, TypeOK, TypeChain, TypeDisk, TypeUi,
     TypeHolder, Frame, NoFrame, Optional
<1>54. ASSUME NEW w \in Writes, IssueWrite(w) PROVE AttachInv'
  BY <1>54, FrameFields, GrantsFields DEF IssueWrite, ui, holder, disk, At, AtAny, Running,
     Connecting, AttachInv, FromLocal, Activated, ShapeInv, TypeOK, TypeChain, TypeDisk, TypeUi,
     TypeHolder, Frame, NoFrame, Optional
<1>55. ASSUME NEW w \in Writes, LandWrite(w) PROVE AttachInv'
  BY <1>55, FrameFields, GrantsFields DEF LandWrite, ui, holder, At, AtAny, Running, Connecting,
     AttachInv, FromLocal, Activated, ShapeInv, TypeOK, TypeChain, TypeDisk, TypeUi, TypeHolder,
     Frame, NoFrame, Optional
<1> QED BY <1>1, <1>2, <1>3, <1>4, <1>5, <1>6, <1>7, <1>8, <1>9, <1>10, <1>11, <1>12, <1>13,
       <1>14, <1>15, <1>16, <1>17, <1>18, <1>19, <1>20, <1>21, <1>22, <1>23, <1>24, <1>25, <1>26,
       <1>27, <1>28, <1>29, <1>30, <1>31, <1>32, <1>33, <1>34, <1>35, <1>36, <1>37, <1>38, <1>39,
       <1>40, <1>41, <1>42, <1>43, <1>44, <1>45, <1>46, <1>47, <1>48, <1>49, <1>50, <1>51, <1>52,
       <1>53, <1>54, <1>55 DEF Next, ChainStep, PopupStep

\* Under NoHalfOpenFaults, or while nothing failed, no step fails with the anonymous
\* replica attached.
LEMMA NotHalfOpen ==
  ASSUME TypeOK, NoHalfOpenFaults \/ faults' = 0, Fail
  PROVE  step # "landLocal"
BY DEF NoHalfOpenFaults, Fail, TypeOK, TypeBounds

\* A teardown detaches the replica, which it has still to close.
LEMMA Detaches ==
  ASSUME NEW f \in Frame, Detach(f)
  PROVE  /\ attached' = None /\ frame'.closing = attached
         /\ frame'.grants = f.grants /\ frame'.source = f.source /\ frame'.named = f.named
         /\ frame'.falling = f.falling
         /\ step' = "drain" /\ task' = task /\ chain' = chain
BY DEF Detach, Goto, Frame

\* What a teardown names to wipe are replicas.
LEMMA WipeTargetsType == TypeOK => WipeTargets \in SUBSET DIDs
BY ConstantsOK DEF WipeTargets, Running, TypeOK, TypeUi, TypeDisk, Statuses, Optional, DIDs

\* So it does at the head of destroy, logout and clearLocalData.
LEMMA TearsDown ==
  ASSUME TypeOK, StartTeardown
  PROVE  /\ attached' = None /\ frame'.closing = attached
         /\ frame'.grants = frame.grants /\ frame'.source = frame.source
         /\ frame'.named = WipeTargets /\ frame'.falling = frame.falling
         /\ step' = "drain" /\ task' = task /\ chain' = chain
<1> DEFINE f == [frame EXCEPT !.named = WipeTargets]
<1>1. frame \in Frame
  BY DEF TypeOK, TypeChain
<1>2. f \in Frame
  BY <1>1, WipeTargetsType, FrameUpdates
<1>3. f.grants = frame.grants /\ f.source = frame.source /\ f.named = WipeTargets /\ f.falling = frame.falling
  BY <1>1 DEF Frame
<1>4. Detach(f)
  BY DEF StartTeardown
<1> HIDE DEF f
<1> QED BY <1>2, <1>3, <1>4, Detaches

\* So it does when an activation is undone.
LEMMA Falls ==
  ASSUME TypeOK, ActivationFails \/ (PrepareFails /\ Running({"boot"}))
  PROVE  /\ attached' = None /\ frame'.closing = attached
         /\ frame'.grants = frame.grants /\ frame'.source = frame.source
         /\ frame'.named = frame.named /\ frame'.falling
         /\ step' = "drain" /\ task' = task /\ chain' = chain
<1> DEFINE fall    == [frame EXCEPT !.falling = TRUE]
           corrupt == [frame EXCEPT !.falling = TRUE, !.restore = "corrupt"]
<1>1. frame \in Frame
  BY DEF TypeOK, TypeChain
<1>2. fall \in Frame /\ corrupt \in Frame
  BY <1>1, FrameUpdates
<1>3. /\ fall.grants = frame.grants /\ fall.source = frame.source /\ fall.named = frame.named /\ fall.falling
      /\ corrupt.grants = frame.grants /\ corrupt.source = frame.source
      /\ corrupt.named = frame.named /\ corrupt.falling
  BY <1>1 DEF Frame
<1>4. Detach(fall) \/ Detach(corrupt)
  BY DEF ActivationFails, PrepareFails, Fall
<1> HIDE DEF fall, corrupt
<1> QED BY <1>2, <1>3, <1>4, Detaches

\* Under the same condition the open handles are those the running task accounts for.
LEMMA HandleInvStep ==
  ASSUME TypeOK, ShapeInv, AttachInv, HandleInv, NoHalfOpenFaults \/ faults' = 0, Next
  PROVE HandleInv'
<1> USE ConstantsOK
<1>1. CASE Begin
  BY <1>1, FrameFields, GrantsFields, NotHalfOpen DEF Begin, ui, holder, disk, At, AtAny,
     Running, Connecting, HandleInv, AttachInv, FromLocal, Activated, ShapeInv, TypeOK, TypeChain,
     TypeDisk, TypeUi, TypeHolder, Frame, NoFrame, Optional
<1>2. CASE NoOp
  BY <1>2, FrameFields, GrantsFields, NotHalfOpen DEF NoOp, TaskIsNoOp, Return, ui, disk,
     EndSwap, At, AtAny, Running, Connecting, HandleInv, AttachInv, FromLocal, Activated, ShapeInv,
     TypeOK, TypeChain, TypeDisk, TypeUi, TypeHolder, Frame, NoFrame, Optional
<1>3. CASE BootMiss
  BY <1>3, FrameFields, GrantsFields, NotHalfOpen DEF BootMiss, Goto, ui, holder, At, AtAny,
     Running, Connecting, HandleInv, AttachInv, FromLocal, Activated, ShapeInv, TypeOK, TypeChain,
     TypeDisk, TypeUi, TypeHolder, Frame, NoFrame, Optional
<1>4. CASE BootRestore
  BY <1>4, FrameFields, GrantsFields, NotHalfOpen DEF BootRestore, Expired, Goto, ui, holder,
     disk, At, AtAny, Running, Connecting, HandleInv, AttachInv, FromLocal, Activated, ShapeInv,
     TypeOK, TypeChain, TypeDisk, TypeUi, TypeHolder, Frame, NoFrame, Optional
<1>5. CASE BootRetriesLocal
  BY <1>5, FrameFields, GrantsFields, NotHalfOpen DEF BootRetriesLocal, OpenLocalFails, Goto,
     ui, holder, disk, At, AtAny, Running, Connecting, HandleInv, AttachInv, FromLocal, Activated,
     ShapeInv, TypeOK, TypeChain, TypeDisk, TypeUi, TypeHolder, Frame, NoFrame, Optional
<1>6. CASE BootGivesUp
  BY <1>6, FrameFields, GrantsFields, NotHalfOpen DEF BootGivesUp, OpenLocalFails, Return, ui,
     disk, EndSwap, At, AtAny, Running, Connecting, HandleInv, AttachInv, FromLocal, Activated,
     ShapeInv, TypeOK, TypeChain, TypeDisk, TypeUi, TypeHolder, Frame, NoFrame, Optional
<1>7. CASE LoginAbandoned
  BY <1>7, FrameFields, GrantsFields, NotHalfOpen DEF LoginAbandoned, SameSession, Return, disk,
     EndSwap, At, AtAny, Running, Connecting, HandleInv, AttachInv, FromLocal, Activated, ShapeInv,
     TypeOK, TypeChain, TypeDisk, TypeUi, TypeHolder, Frame, NoFrame, Optional
<1>8. CASE StartConnect
  BY <1>8, FrameFields, GrantsFields, NotHalfOpen DEF StartConnect, TaskIsNoOp, SameSession,
     Goto, ui, holder, disk, At, AtAny, Running, Connecting, HandleInv, AttachInv, FromLocal,
     Activated, ShapeInv, TypeOK, TypeChain, TypeDisk, TypeUi, TypeHolder, Frame, NoFrame, Optional
<1>9. CASE RenewDiscarded
  BY <1>9, FrameFields, GrantsFields, NotHalfOpen DEF RenewDiscarded, StillToRenew, Return,
     disk, EndSwap, At, AtAny, Running, Connecting, HandleInv, AttachInv, FromLocal, Activated,
     ShapeInv, TypeOK, TypeChain, TypeDisk, TypeUi, TypeHolder, Frame, NoFrame, Optional
<1>10. CASE StartRenew
  BY <1>10, FrameFields, GrantsFields, NotHalfOpen DEF StartRenew, StillToRenew, Goto, ui,
     holder, disk, At, AtAny, Running, Connecting, HandleInv, AttachInv, FromLocal, Activated,
     ShapeInv, TypeOK, TypeChain, TypeDisk, TypeUi, TypeHolder, Frame, NoFrame, Optional
<1>11. CASE StartTeardown
  BY <1>11, FrameFields, GrantsFields, NotHalfOpen DEF StartTeardown, Detach, WipeTargets, ui,
     disk, Goto, At, AtAny, Running, Connecting, HandleInv, AttachInv, FromLocal, Activated,
     ShapeInv, TypeOK, TypeChain, TypeDisk, TypeUi, TypeHolder, Frame, NoFrame, Optional
<1>12. CASE Drain
  BY <1>12, FrameFields, GrantsFields, NotHalfOpen DEF Drain, StopAndClose, Goto, AfterDrain,
     ui, BootstrapSettled, Deletes, Erasing, At, AtAny, Running, Connecting, HandleInv, AttachInv,
     FromLocal, Activated, ShapeInv, TypeOK, TypeChain, TypeDisk, TypeUi, TypeHolder, Frame,
     NoFrame, Optional
<1>13. CASE DrainDestroy
  BY <1>13, FrameFields, GrantsFields, NotHalfOpen DEF DrainDestroy, StopAndClose,
     BootstrapSettled, Deletes, Erasing, At, AtAny, Running, Connecting, HandleInv, AttachInv,
     FromLocal, Activated, ShapeInv, TypeOK, TypeChain, TypeDisk, TypeUi, TypeHolder, Frame,
     NoFrame, Optional
<1>14. CASE ClearAnonSeed
  BY <1>14, FrameFields, GrantsFields, NotHalfOpen DEF ClearAnonSeed, Goto, Return, ui, EndSwap,
     At, AtAny, Running, Connecting, HandleInv, AttachInv, FromLocal, Activated, ShapeInv, TypeOK,
     TypeChain, TypeDisk, TypeUi, TypeHolder, Frame, NoFrame, Optional
<1>15. CASE ForgetSession
  BY <1>15, FrameFields, GrantsFields, NotHalfOpen DEF ForgetSession, Goto, Return, ui, EndSwap,
     At, AtAny, Running, Connecting, HandleInv, AttachInv, FromLocal, Activated, ShapeInv, TypeOK,
     TypeChain, TypeDisk, TypeUi, TypeHolder, Frame, NoFrame, Optional
<1>16. CASE Wipe
  BY <1>16, FrameFields, GrantsFields, NotHalfOpen DEF Wipe, Goto, ui, holder, At, AtAny,
     Running, Connecting, HandleInv, AttachInv, FromLocal, Activated, ShapeInv, TypeOK, TypeChain,
     TypeDisk, TypeUi, TypeHolder, Frame, NoFrame, Optional
<1>17. CASE LoadOrCreateAnonSeed
  BY <1>17, FrameFields, GrantsFields, NotHalfOpen DEF LoadOrCreateAnonSeed, Goto, ui, holder,
     At, AtAny, Running, Connecting, HandleInv, AttachInv, FromLocal, Activated, ShapeInv, TypeOK,
     TypeChain, TypeDisk, TypeUi, TypeHolder, Frame, NoFrame, Optional
<1>18. CASE OpenAnon
  BY <1>18, FrameFields, GrantsFields, NotHalfOpen DEF OpenAnon, Goto, ui, disk, At, AtAny,
     Running, Connecting, HandleInv, AttachInv, FromLocal, Activated, ShapeInv, TypeOK, TypeChain,
     TypeDisk, TypeUi, TypeHolder, Frame, NoFrame, Optional
<1>19. CASE LandLocal
  BY <1>19, FrameFields, GrantsFields, NotHalfOpen DEF LandLocal, FixturesCanRun, Return, disk,
     EndSwap, At, AtAny, Running, Connecting, HandleInv, AttachInv, FromLocal, Activated, ShapeInv,
     TypeOK, TypeChain, TypeDisk, TypeUi, TypeHolder, Frame, NoFrame, Optional
<1>20. CASE ReopenFails
  BY <1>20, FrameFields, GrantsFields, NotHalfOpen DEF ReopenFails, OpenLocalFails, Return,
     disk, EndSwap, At, AtAny, Running, Connecting, HandleInv, AttachInv, FromLocal, Activated,
     ShapeInv, TypeOK, TypeChain, TypeDisk, TypeUi, TypeHolder, Frame, NoFrame, Optional
<1>21. CASE OpenLocalRejects
  BY <1>21, FrameFields, GrantsFields, NotHalfOpen DEF OpenLocalRejects, OpenLocalFails, Return,
     disk, EndSwap, At, AtAny, Running, Connecting, HandleInv, AttachInv, FromLocal, Activated,
     ShapeInv, TypeOK, TypeChain, TypeDisk, TypeUi, TypeHolder, Frame, NoFrame, Optional
<1>22. CASE Prepared
  BY <1>22, FrameFields, GrantsFields, NotHalfOpen DEF Prepared, Goto, Detach, CarriesAnonData,
     ui, disk, At, AtAny, Running, Connecting, HandleInv, AttachInv, FromLocal, Activated,
     ShapeInv, TypeOK, TypeChain, TypeDisk, TypeUi, TypeHolder, Frame, NoFrame, Optional
<1>23. CASE PrepareFails
  <2>1. CASE Running({"boot"})
    <3>1. /\ attached' = None /\ frame'.closing = attached /\ step' = "drain" /\ task' = task
          /\ handles' = handles /\ status' = status /\ At("drain")'
      BY <1>23, <2>1, Falls DEF PrepareFails, At
    <3>2. frame.closing = None /\ ~At("read")
      BY <1>23 DEF PrepareFails, At, AttachInv
    <3> QED BY <3>1, <3>2 DEF HandleInv, At, AtAny
  <2>2. CASE ~Running({"boot"})
    <3>1. /\ attached' = attached /\ frame' = NoFrame /\ task' = None /\ handles' = handles
          /\ status' = status
      BY <1>23, <2>2 DEF PrepareFails, Return
    <3>2. frame.closing = None /\ step = "prepare"
      BY <1>23 DEF PrepareFails, At, AttachInv
    <3> QED BY <3>1, <3>2 DEF HandleInv, At, AtAny, NoFrame
  <2> QED BY <2>1, <2>2
<1>24. CASE Collect
  BY <1>24, FrameFields, GrantsFields, NotHalfOpen DEF Collect, NothingToCollect, Goto, ui,
     disk, FromLocal, At, AtAny, Running, Connecting, HandleInv, AttachInv, Activated, ShapeInv,
     TypeOK, TypeChain, TypeDisk, TypeUi, TypeHolder, Frame, NoFrame, Optional
<1>25. CASE Read
  BY <1>25, FrameFields, GrantsFields, NotHalfOpen DEF Read, Goto, ui, disk, At, AtAny, Running,
     Connecting, HandleInv, AttachInv, FromLocal, Activated, ShapeInv, TypeOK, TypeChain, TypeDisk,
     TypeUi, TypeHolder, Frame, NoFrame, Optional
<1>26. CASE CollectFails
  BY <1>26, FrameFields, GrantsFields, NotHalfOpen DEF CollectFails, FromLocal, Goto, ui, disk,
     At, AtAny, Running, Connecting, HandleInv, AttachInv, Activated, ShapeInv, TypeOK, TypeChain,
     TypeDisk, TypeUi, TypeHolder, Frame, NoFrame, Optional
<1>27. CASE OpenConnected
  <2>1. frame.grants.acct # None
    BY <1>27, GrantsFields DEF OpenConnected, At, AtAny, ShapeInv, DIDs
  <2> QED BY <1>27, <2>1 DEF OpenConnected, Goto, ui, HandleInv, AttachInv, At, AtAny, Running
<1>28. CASE MergeAndHydrate
  BY <1>28, FrameFields, GrantsFields, NotHalfOpen DEF MergeAndHydrate, Goto, AfterHydrate, ui,
     holder, At, AtAny, Running, Connecting, HandleInv, AttachInv, FromLocal, Activated, ShapeInv,
     TypeOK, TypeChain, TypeDisk, TypeUi, TypeHolder, Frame, NoFrame, Optional
<1>29. CASE SaveSeed
  BY <1>29, FrameFields, GrantsFields, NotHalfOpen DEF SaveSeed, Goto, ui, holder, At, AtAny,
     Running, Connecting, HandleInv, AttachInv, FromLocal, Activated, ShapeInv, TypeOK, TypeChain,
     TypeDisk, TypeUi, TypeHolder, Frame, NoFrame, Optional
<1>30. CASE SaveRecord
  BY <1>30, FrameFields, GrantsFields, NotHalfOpen DEF SaveRecord, Goto, ui, holder, At, AtAny,
     Running, Connecting, HandleInv, AttachInv, FromLocal, Activated, ShapeInv, TypeOK, TypeChain,
     TypeDisk, TypeUi, TypeHolder, Frame, NoFrame, Optional
<1>31. CASE ActivationFails
  <2>1. /\ attached' = None /\ frame'.closing = attached /\ step' = "drain" /\ task' = task
        /\ handles' = handles /\ status' = status /\ At("drain")'
    <3>1. handles' = handles /\ status' = status /\ task # None
      BY <1>31 DEF ActivationFails, Activating, At, ui
    <3> QED BY <1>31, <3>1, Falls DEF At
  <2>2. frame.closing = None /\ ~At("read")
    BY <1>31 DEF ActivationFails, Activating, At, AttachInv
  <2> QED BY <1>31, <2>1, <2>2 DEF HandleInv, At, AtAny
<1>32. CASE LandBoot
  BY <1>32, FrameFields, GrantsFields, NotHalfOpen DEF LandBoot, StartSync, Return, disk,
     EndSwap, At, AtAny, Running, Connecting, HandleInv, AttachInv, FromLocal, Activated, ShapeInv,
     TypeOK, TypeChain, TypeDisk, TypeUi, TypeHolder, Frame, NoFrame, Optional
<1>33. CASE LandConnect
  BY <1>33, FrameFields, GrantsFields, NotHalfOpen DEF LandConnect, StartSync, Return, EndSwap,
     Goto, disk, At, AtAny, Running, Connecting, HandleInv, AttachInv, FromLocal, Activated,
     ShapeInv, TypeOK, TypeChain, TypeDisk, TypeUi, TypeHolder, Frame, NoFrame, Optional
<1>34. CASE DiscardAnonReplica
  BY <1>34, FrameFields, GrantsFields, NotHalfOpen DEF DiscardAnonReplica, Goto, Return, ui,
     EndSwap, At, AtAny, Running, Connecting, HandleInv, AttachInv, FromLocal, Activated, ShapeInv,
     TypeOK, TypeChain, TypeDisk, TypeUi, TypeHolder, Frame, NoFrame, Optional
<1>35. CASE DropAnonSeed
  BY <1>35, FrameFields, GrantsFields, NotHalfOpen DEF DropAnonSeed, Return, ui, EndSwap, At,
     AtAny, Running, Connecting, HandleInv, AttachInv, FromLocal, Activated, ShapeInv, TypeOK,
     TypeChain, TypeDisk, TypeUi, TypeHolder, Frame, NoFrame, Optional
<1>36. CASE StopForRenew
  BY <1>36, FrameFields, GrantsFields, NotHalfOpen DEF StopForRenew, BootstrapSettled, Goto, ui,
     disk, At, AtAny, Running, Connecting, HandleInv, AttachInv, FromLocal, Activated, ShapeInv,
     TypeOK, TypeChain, TypeDisk, TypeUi, TypeHolder, Frame, NoFrame, Optional
<1>37. CASE LandRenew
  BY <1>37, FrameFields, GrantsFields, NotHalfOpen DEF LandRenew, StartSync, Return, disk,
     EndSwap, At, AtAny, Running, Connecting, HandleInv, AttachInv, FromLocal, Activated, ShapeInv,
     TypeOK, TypeChain, TypeDisk, TypeUi, TypeHolder, Frame, NoFrame, Optional
<1>38. CASE RenewFails
  BY <1>38, FrameFields, GrantsFields, NotHalfOpen DEF RenewFails, Return, disk, EndSwap, At,
     AtAny, Running, Connecting, HandleInv, AttachInv, FromLocal, Activated, ShapeInv, TypeOK,
     TypeChain, TypeDisk, TypeUi, TypeHolder, Frame, NoFrame, Optional
<1>39. CASE AuthError
  BY <1>39, FrameFields, GrantsFields, NotHalfOpen DEF AuthError, NotifyAccessExpired, holder,
     disk, At, AtAny, Running, Connecting, HandleInv, AttachInv, FromLocal, Activated, ShapeInv,
     TypeOK, TypeChain, TypeDisk, TypeUi, TypeHolder, Frame, NoFrame, Optional
<1>40. CASE WatchExpiry
  BY <1>40, FrameFields, GrantsFields, NotHalfOpen DEF WatchExpiry, NearExpiry,
     NotifyAccessExpired, holder, disk, At, AtAny, Running, Connecting, HandleInv, AttachInv,
     FromLocal, Activated, ShapeInv, TypeOK, TypeChain, TypeDisk, TypeUi, TypeHolder, Frame,
     NoFrame, Optional
<1>41. CASE SyncStarts
  BY <1>41, FrameFields, GrantsFields, NotHalfOpen DEF SyncStarts, BootstrapSettles, ui, disk,
     At, AtAny, Running, Connecting, HandleInv, AttachInv, FromLocal, Activated, ShapeInv, TypeOK,
     TypeChain, TypeDisk, TypeUi, TypeHolder, Frame, NoFrame, Optional
<1>42. CASE SyncFails
  BY <1>42, FrameFields, GrantsFields, NotHalfOpen DEF SyncFails, BootstrapSettles, ui, disk,
     At, AtAny, Running, Connecting, HandleInv, AttachInv, FromLocal, Activated, ShapeInv, TypeOK,
     TypeChain, TypeDisk, TypeUi, TypeHolder, Frame, NoFrame, Optional
<1>43. CASE Advance
  BY <1>43, FrameFields, GrantsFields, NotHalfOpen DEF Advance, ui, holder, disk, At, AtAny,
     Running, Connecting, HandleInv, AttachInv, FromLocal, Activated, ShapeInv, TypeOK, TypeChain,
     TypeDisk, TypeUi, TypeHolder, Frame, NoFrame, Optional
<1>44. CASE Crash
  BY <1>44, FrameFields, GrantsFields, NotHalfOpen DEF Crash, disk, At, AtAny, Running,
     Connecting, HandleInv, AttachInv, FromLocal, Activated, ShapeInv, TypeOK, TypeChain, TypeDisk,
     TypeUi, TypeHolder, Frame, NoFrame, Optional
<1>45. ASSUME NEW l \in Logins, OpenLogin(l) PROVE HandleInv'
  BY <1>45, FrameFields, GrantsFields, NotHalfOpen DEF OpenLogin, holder, disk, At, AtAny,
     Running, Connecting, HandleInv, AttachInv, FromLocal, Activated, ShapeInv, TypeOK, TypeChain,
     TypeDisk, TypeUi, TypeHolder, Frame, NoFrame, Optional
<1>46. ASSUME NEW l \in Logins, VerifyLogin(l) PROVE HandleInv'
  BY <1>46, FrameFields, GrantsFields, NotHalfOpen DEF VerifyLogin, holder, disk, At, AtAny,
     Running, Connecting, HandleInv, AttachInv, FromLocal, Activated, ShapeInv, TypeOK, TypeChain,
     TypeDisk, TypeUi, TypeHolder, Frame, NoFrame, Optional
<1>47. ASSUME NEW l \in Logins, FinishLogin(l) PROVE HandleInv'
  BY <1>47, FrameFields, GrantsFields, NotHalfOpen DEF FinishLogin, Answers, Enqueue, ui,
     holder, disk, At, AtAny, Running, Connecting, HandleInv, AttachInv, FromLocal, Activated,
     ShapeInv, TypeOK, TypeChain, TypeDisk, TypeUi, TypeHolder, Frame, NoFrame, Optional
<1>48. ASSUME NEW l \in Logins, CancelLogin(l) PROVE HandleInv'
  BY <1>48, FrameFields, GrantsFields, NotHalfOpen DEF CancelLogin, holder, disk, At, AtAny,
     Running, Connecting, HandleInv, AttachInv, FromLocal, Activated, ShapeInv, TypeOK, TypeChain,
     TypeDisk, TypeUi, TypeHolder, Frame, NoFrame, Optional
<1>49. ASSUME NEW r \in Reconnects, OpenReconnect(r) PROVE HandleInv'
  BY <1>49, FrameFields, GrantsFields, NotHalfOpen DEF OpenReconnect, Enqueue, holder, disk, At,
     AtAny, Running, Connecting, HandleInv, AttachInv, FromLocal, Activated, ShapeInv, TypeOK,
     TypeChain, TypeDisk, TypeUi, TypeHolder, Frame, NoFrame, Optional
<1>50. ASSUME NEW r \in Reconnects, LeaveReconnect(r) PROVE HandleInv'
  BY <1>50, FrameFields, GrantsFields, NotHalfOpen DEF LeaveReconnect, LogoutPending, holder,
     disk, At, AtAny, Running, Connecting, HandleInv, AttachInv, FromLocal, Activated, ShapeInv,
     TypeOK, TypeChain, TypeDisk, TypeUi, TypeHolder, Frame, NoFrame, Optional
<1>51. ASSUME NEW r \in Reconnects, AnswerReconnect(r) PROVE HandleInv'
  BY <1>51, FrameFields, GrantsFields, NotHalfOpen DEF AnswerReconnect, Answers, SameSpace,
     Enqueue, ui, holder, disk, At, AtAny, Running, Connecting, HandleInv, AttachInv, FromLocal,
     Activated, ShapeInv, TypeOK, TypeChain, TypeDisk, TypeUi, TypeHolder, Frame, NoFrame, Optional
<1>52. ASSUME NEW r \in Reconnects, CancelReconnect(r) PROVE HandleInv'
  BY <1>52, FrameFields, GrantsFields, NotHalfOpen DEF CancelReconnect, holder, disk, At, AtAny,
     Running, Connecting, HandleInv, AttachInv, FromLocal, Activated, ShapeInv, TypeOK, TypeChain,
     TypeDisk, TypeUi, TypeHolder, Frame, NoFrame, Optional
<1>53. ASSUME NEW t \in Calls, Call(t) PROVE HandleInv'
  BY <1>53, FrameFields, GrantsFields, NotHalfOpen DEF Call, Enqueue, ui, holder, disk, At,
     AtAny, Running, Connecting, HandleInv, AttachInv, FromLocal, Activated, ShapeInv, TypeOK,
     TypeChain, TypeDisk, TypeUi, TypeHolder, Frame, NoFrame, Optional
<1>54. ASSUME NEW w \in Writes, IssueWrite(w) PROVE HandleInv'
  BY <1>54, FrameFields, GrantsFields, NotHalfOpen DEF IssueWrite, ui, holder, disk, At, AtAny,
     Running, Connecting, HandleInv, AttachInv, FromLocal, Activated, ShapeInv, TypeOK, TypeChain,
     TypeDisk, TypeUi, TypeHolder, Frame, NoFrame, Optional
<1>55. ASSUME NEW w \in Writes, LandWrite(w) PROVE HandleInv'
  BY <1>55, FrameFields, GrantsFields, NotHalfOpen DEF LandWrite, ui, holder, At, AtAny,
     Running, Connecting, HandleInv, AttachInv, FromLocal, Activated, ShapeInv, TypeOK, TypeChain,
     TypeDisk, TypeUi, TypeHolder, Frame, NoFrame, Optional
<1> QED BY <1>1, <1>2, <1>3, <1>4, <1>5, <1>6, <1>7, <1>8, <1>9, <1>10, <1>11, <1>12, <1>13,
       <1>14, <1>15, <1>16, <1>17, <1>18, <1>19, <1>20, <1>21, <1>22, <1>23, <1>24, <1>25, <1>26,
       <1>27, <1>28, <1>29, <1>30, <1>31, <1>32, <1>33, <1>34, <1>35, <1>36, <1>37, <1>38, <1>39,
       <1>40, <1>41, <1>42, <1>43, <1>44, <1>45, <1>46, <1>47, <1>48, <1>49, <1>50, <1>51, <1>52,
       <1>53, <1>54, <1>55 DEF Next, ChainStep, PopupStep

\* The state of a write outside a deletion or a close is its own, or that it is lost.
LEMMA DeleteKeeps ==
  ASSUME NEW R, Delete(R), NEW w \in Writes
  PROVE  /\ writes'[w].st = "acked" =>
              writes[w].st = "acked" /\ (\A d \in R : w \notin docs[d])
         /\ writes'[w].st = "bound" =>
              writes[w].st = "bound" /\ writes'[w] = writes[w] /\ writes[w].db \notin R
         /\ \A d \in DIDs : docs'[d] = IF d \in R THEN {} ELSE docs[d]
BY DEF Delete, Rejected, Erased

\* A close keeps the documents, and what is not running against the closed replica.
LEMMA CloseKeeps ==
  ASSUME NEW r, Close(r), NEW w \in Writes
  PROVE  /\ docs' = docs
         /\ writes'[w].st = "acked" => writes[w].st = "acked"
         /\ writes'[w].st = "bound" =>
              writes[w].st = "bound" /\ writes'[w] = writes[w] /\ writes[w].db # r
BY DEF Close, Rejected

\* The end of a teardown keeps what it does not erase, and leaves nothing running
\* against the replica it detached.
LEMMA StopKeeps ==
  ASSUME StopAndClose, NEW w \in Writes
  PROVE  /\ writes'[w].st = "acked" => writes[w].st = "acked"
         /\ writes'[w].st = "bound" =>
              writes[w].st = "bound" /\ writes'[w] = writes[w] /\ writes[w].db # frame.closing
         /\ writes'[w].st = "acked" => \A d \in DIDs : w \in docs[d] => w \in docs'[d]
<1>1. CASE Delete({frame.closing})
  BY <1>1, DeleteKeeps
<1>2. CASE Close(frame.closing)
  BY <1>2, CloseKeeps
<1> QED BY <1>1, <1>2 DEF StopAndClose

\* Unless a step fails with the anonymous replica attached, a write is at every moment in
\* a replica that a session or the anonymous seed names.
LEMMA AckedInvStep ==
  ASSUME TypeOK, ShapeInv, AttachInv, HandleInv, AckedInv, NoHalfOpenFaults \/ faults' = 0, Next
  PROVE AckedInv'
<1> USE ConstantsOK
<1>1. CASE Begin
  BY <1>1, FrameFields, GrantsFields, NotHalfOpen DEF Begin, ui, holder, disk, At, AtAny,
     Running, Connecting, AckedInv, AckedWriteReachable, Merged, HandleInv, AttachInv, FromLocal,
     Activated, ShapeInv, TypeOK, TypeChain, TypeDisk, TypeUi, TypeHolder, TypeCallers, Frame,
     NoFrame, Rejected, Erased, Optional, DIDs
<1>2. CASE NoOp
  BY <1>2, FrameFields, GrantsFields, NotHalfOpen DEF NoOp, TaskIsNoOp, Return, ui, disk,
     EndSwap, At, AtAny, Running, Connecting, AckedInv, AckedWriteReachable, Merged, HandleInv,
     AttachInv, FromLocal, Activated, ShapeInv, TypeOK, TypeChain, TypeDisk, TypeUi, TypeHolder,
     TypeCallers, Frame, NoFrame, Rejected, Erased, Optional, DIDs
<1>3. CASE BootMiss
  BY <1>3, FrameFields, GrantsFields, NotHalfOpen DEF BootMiss, Goto, ui, holder, At, AtAny,
     Running, Connecting, AckedInv, AckedWriteReachable, Merged, HandleInv, AttachInv, FromLocal,
     Activated, ShapeInv, TypeOK, TypeChain, TypeDisk, TypeUi, TypeHolder, TypeCallers, Frame,
     NoFrame, Rejected, Erased, Optional, DIDs
<1>4. CASE BootRestore
  BY <1>4, FrameFields, GrantsFields, NotHalfOpen DEF BootRestore, Expired, Goto, ui, holder,
     disk, At, AtAny, Running, Connecting, AckedInv, AckedWriteReachable, Merged, HandleInv,
     AttachInv, FromLocal, Activated, ShapeInv, TypeOK, TypeChain, TypeDisk, TypeUi, TypeHolder,
     TypeCallers, Frame, NoFrame, Rejected, Erased, Optional, DIDs
<1>5. CASE BootRetriesLocal
  BY <1>5, FrameFields, GrantsFields, NotHalfOpen DEF BootRetriesLocal, OpenLocalFails, Goto,
     ui, holder, disk, At, AtAny, Running, Connecting, AckedInv, AckedWriteReachable, Merged,
     HandleInv, AttachInv, FromLocal, Activated, ShapeInv, TypeOK, TypeChain, TypeDisk, TypeUi,
     TypeHolder, TypeCallers, Frame, NoFrame, Rejected, Erased, Optional, DIDs
<1>6. CASE BootGivesUp
  BY <1>6, FrameFields, GrantsFields, NotHalfOpen DEF BootGivesUp, OpenLocalFails, Return, ui,
     disk, EndSwap, At, AtAny, Running, Connecting, AckedInv, AckedWriteReachable, Merged,
     HandleInv, AttachInv, FromLocal, Activated, ShapeInv, TypeOK, TypeChain, TypeDisk, TypeUi,
     TypeHolder, TypeCallers, Frame, NoFrame, Rejected, Erased, Optional, DIDs
<1>7. CASE LoginAbandoned
  BY <1>7, FrameFields, GrantsFields, NotHalfOpen DEF LoginAbandoned, SameSession, Return, disk,
     EndSwap, At, AtAny, Running, Connecting, AckedInv, AckedWriteReachable, Merged, HandleInv,
     AttachInv, FromLocal, Activated, ShapeInv, TypeOK, TypeChain, TypeDisk, TypeUi, TypeHolder,
     TypeCallers, Frame, NoFrame, Rejected, Erased, Optional, DIDs
<1>8. CASE StartConnect
  BY <1>8, FrameFields, GrantsFields, NotHalfOpen DEF StartConnect, TaskIsNoOp, SameSession,
     Goto, ui, holder, disk, At, AtAny, Running, Connecting, AckedInv, AckedWriteReachable, Merged,
     HandleInv, AttachInv, FromLocal, Activated, ShapeInv, TypeOK, TypeChain, TypeDisk, TypeUi,
     TypeHolder, TypeCallers, Frame, NoFrame, Rejected, Erased, Optional, DIDs
<1>9. CASE RenewDiscarded
  BY <1>9, FrameFields, GrantsFields, NotHalfOpen DEF RenewDiscarded, StillToRenew, Return,
     disk, EndSwap, At, AtAny, Running, Connecting, AckedInv, AckedWriteReachable, Merged,
     HandleInv, AttachInv, FromLocal, Activated, ShapeInv, TypeOK, TypeChain, TypeDisk, TypeUi,
     TypeHolder, TypeCallers, Frame, NoFrame, Rejected, Erased, Optional, DIDs
<1>10. CASE StartRenew
  BY <1>10, FrameFields, GrantsFields, NotHalfOpen DEF StartRenew, StillToRenew, Goto, ui,
     holder, disk, At, AtAny, Running, Connecting, AckedInv, AckedWriteReachable, Merged,
     HandleInv, AttachInv, FromLocal, Activated, ShapeInv, TypeOK, TypeChain, TypeDisk, TypeUi,
     TypeHolder, TypeCallers, Frame, NoFrame, Rejected, Erased, Optional, DIDs
<1>11. CASE StartTeardown
  <2>1. /\ attached' = None /\ frame'.closing = attached /\ frame'.source = frame.source
        /\ step' = "drain" /\ task' = task
    BY <1>11, TearsDown
  <2>2. /\ anonSeed' = anonSeed /\ docs' = docs /\ frame.closing = None /\ frame.source = {}
        /\ step = "begin" /\ task # None
    BY <1>11 DEF StartTeardown, disk, AttachInv, AckedInv, At, AtAny
  <2>3. \A w \in Writes : /\ writes'[w].st = "acked" => writes[w].st = "acked"
                          /\ writes'[w].st = "bound" => writes'[w] = writes[w]
    BY <1>11 DEF StartTeardown, Erased
  <2>4. Running({"clear"}) => \A w \in Writes, d \in {anonSeed} \ {None} :
                                 writes'[w].st = "acked" => w \notin docs[d]
    BY <1>11 DEF StartTeardown, Erased, Unwanted
  <2>5. AckedWriteReachable'
    BY <2>2, <2>3 DEF AckedInv, AckedWriteReachable
  <2>6. \A w \in Writes : writes'[w].st = "bound" => writes'[w].db \in {attached', frame'.closing} \ {None}
    BY <2>1, <2>2, <2>3 DEF AckedInv
  <2> QED BY <2>1, <2>2, <2>4, <2>5, <2>6 DEF AckedInv, Connecting, Running, At, AtAny, Activated, Merged
<1>12. CASE Drain
  <2>1. frame' = [frame EXCEPT !.closing = None] /\ step' = AfterDrain /\ task' = task
    BY <1>12 DEF Drain, Goto
  <2>2. /\ frame'.closing = None /\ frame'.source = frame.source /\ frame'.falling = frame.falling
    BY <2>1 DEF TypeOK, TypeChain, Frame
  <2>3. attached' = attached /\ attached = None /\ anonSeed' = anonSeed /\ StopAndClose
    BY <1>12 DEF Drain, AttachInv, At, AtAny
  <2>4. AckedWriteReachable'
    BY <2>3, StopKeeps DEF AckedInv, AckedWriteReachable, DIDs, TypeOK, TypeDisk, Optional
  <2>5. \A w \in Writes : writes'[w].st # "bound"
    BY <2>3, StopKeeps DEF AckedInv
  <2>6. ~frame.falling => frame.source = {}
    BY <1>12 DEF Drain, AckedInv
  <2>7. /\ AfterDrain \in {"anonSeed", "forget", "clearAnon", "collect", "openConn"}
        /\ frame.falling => AfterDrain = "anonSeed"
        /\ AfterDrain = "clearAnon" => Running({"clear"})
    BY DEF AfterDrain
  <2>8. Running({"clear"}) => \A w \in Writes, d \in {anonSeed} \ {None} :
                                 writes'[w].st = "acked" => w \notin docs'[d]
    <3> SUFFICES ASSUME Running({"clear"}), NEW w \in Writes, anonSeed # None, writes'[w].st = "acked"
                 PROVE w \notin docs'[anonSeed]
      OBVIOUS
    <3>1. w \notin docs[anonSeed] /\ anonSeed \in DIDs
      BY <1>12, <2>3, StopKeeps DEF Drain, At, AtAny, AckedInv, TypeOK, TypeDisk, Optional, DIDs
    <3>2. CASE Delete({frame.closing})
      BY <3>1, <3>2, DeleteKeeps
    <3>3. CASE Close(frame.closing)
      BY <3>1, <3>3, CloseKeeps
    <3> QED BY <2>3, <3>2, <3>3 DEF StopAndClose
  <2> QED BY <2>1, <2>2, <2>3, <2>4, <2>5, <2>6, <2>7, <2>8
          DEF AckedInv, Connecting, Running, At, AtAny, Activated, Merged
<1>13. CASE DrainDestroy
  <2>1. /\ attached' = attached /\ attached = None /\ anonSeed' = anonSeed /\ StopAndClose
        /\ frame' = NoFrame /\ task' = None
    BY <1>13 DEF DrainDestroy, AttachInv, At, AtAny
  <2>2. AckedWriteReachable'
    BY <2>1, StopKeeps DEF AckedInv, AckedWriteReachable, DIDs, TypeOK, TypeDisk, Optional
  <2>3. \A w \in Writes : writes'[w].st # "bound"
    BY <2>1, StopKeeps DEF AckedInv
  <2> QED BY <2>1, <2>2, <2>3 DEF AckedInv, NoFrame, At, AtAny, Running
<1>14. CASE ClearAnonSeed
  <2>1. /\ At("clearAnon") /\ Running({"clear"}) /\ ~Connecting
        /\ attached = None /\ attached' = None /\ docs' = docs
        /\ frame.closing = None /\ frame.source = {}
    BY <1>14 DEF ClearAnonSeed, ShapeInv, Connecting, Running, At, AtAny, AttachInv, AckedInv
  <2>2. \A w \in Writes : writes[w].st # "bound"
    BY <2>1 DEF AckedInv
  <2>3. CASE anonSeed' = None /\ Goto("forget") /\ UNCHANGED <<frame, login, writes, swap, faults>>
    <3>1. AckedWriteReachable'
      BY <2>1, <2>3 DEF AckedInv, AckedWriteReachable, AtAny, At
    <3> QED BY <2>1, <2>2, <2>3, <3>1 DEF Goto, AckedInv, Connecting, Running, At, AtAny, Activated, Merged
  <2>4. CASE Fail /\ Return(attached) /\ UNCHANGED anonSeed
    <3>1. /\ frame' = NoFrame /\ task' = None /\ step' = "idle" /\ EndSwap(None)
      BY <2>1, <2>4 DEF Return
    <3>2. \A w \in Writes : writes'[w].st # "bound" /\ (writes'[w].st = "acked" <=> writes[w].st = "acked")
      BY <2>2, <3>1 DEF EndSwap, Rejected, TypeOK, TypeCallers
    <3>3. AckedWriteReachable'
      BY <2>1, <2>4, <3>2 DEF AckedInv, AckedWriteReachable
    <3> QED BY <2>1, <3>1, <3>2, <3>3 DEF NoFrame, AckedInv, Connecting, Running, At, AtAny, Activated, Merged
  <2> QED BY <1>14, <2>3, <2>4 DEF ClearAnonSeed
<1>15. CASE ForgetSession
  BY <1>15, FrameFields, GrantsFields, NotHalfOpen DEF ForgetSession, Goto, Return, ui, EndSwap,
     At, AtAny, Running, Connecting, AckedInv, AckedWriteReachable, Merged, HandleInv, AttachInv,
     FromLocal, Activated, ShapeInv, TypeOK, TypeChain, TypeDisk, TypeUi, TypeHolder, TypeCallers,
     Frame, NoFrame, Rejected, Erased, Optional, DIDs
<1>16. CASE Wipe
  <2>1. /\ attached' = attached /\ attached = None /\ anonSeed' = anonSeed /\ step' = "anonSeed"
        /\ frame' = frame /\ frame.closing = None
    BY <1>16 DEF Wipe, holder, Goto, AttachInv, At, AtAny
  <2>2. \A w \in Writes :
          /\ writes'[w].st = "acked" => writes[w].st = "acked"
          /\ writes'[w].st = "bound" => writes[w].st = "bound"
          /\ writes'[w].st = "acked" => \A d \in DIDs : w \in docs[d] => w \in docs'[d]
    BY <1>16, DeleteKeeps DEF Wipe
  <2>3. AckedWriteReachable'
    BY <2>1, <2>2 DEF AckedInv, AckedWriteReachable, DIDs, TypeOK, TypeDisk, Optional
  <2>4. \A w \in Writes : writes'[w].st # "bound"
    BY <2>1, <2>2 DEF AckedInv
  <2>5. ~Running({"renew", "clear"})' \/ task'.kind = "clear"
    BY <1>16 DEF Wipe, Goto, ShapeInv, At, AtAny, Running
  <2>6. task' = task /\ ~Connecting /\ frame.source = {}
    BY <1>16 DEF Wipe, Goto, ShapeInv, AckedInv, At, AtAny, Connecting, Running
  <2> QED BY <2>1, <2>3, <2>4, <2>5, <2>6 DEF AckedInv, Connecting, Running, At, AtAny, Activated, Merged
<1>17. CASE LoadOrCreateAnonSeed
  BY <1>17, FrameFields, GrantsFields, NotHalfOpen DEF LoadOrCreateAnonSeed, Goto, ui, holder,
     At, AtAny, Running, Connecting, AckedInv, AckedWriteReachable, Merged, HandleInv, AttachInv,
     FromLocal, Activated, ShapeInv, TypeOK, TypeChain, TypeDisk, TypeUi, TypeHolder, TypeCallers,
     Frame, NoFrame, Rejected, Erased, Optional, DIDs
<1>18. CASE OpenAnon
  BY <1>18, FrameFields, GrantsFields, NotHalfOpen DEF OpenAnon, Goto, ui, disk, At, AtAny,
     Running, Connecting, AckedInv, AckedWriteReachable, Merged, HandleInv, AttachInv, FromLocal,
     Activated, ShapeInv, TypeOK, TypeChain, TypeDisk, TypeUi, TypeHolder, TypeCallers, Frame,
     NoFrame, Rejected, Erased, Optional, DIDs
<1>19. CASE LandLocal
  BY <1>19, FrameFields, GrantsFields, NotHalfOpen DEF LandLocal, FixturesCanRun, Return, disk,
     EndSwap, At, AtAny, Running, Connecting, AckedInv, AckedWriteReachable, Merged, HandleInv,
     AttachInv, FromLocal, Activated, ShapeInv, TypeOK, TypeChain, TypeDisk, TypeUi, TypeHolder,
     TypeCallers, Frame, NoFrame, Rejected, Erased, Optional, DIDs
<1>20. CASE ReopenFails
  BY <1>20, FrameFields, GrantsFields, NotHalfOpen DEF ReopenFails, OpenLocalFails, Return,
     disk, EndSwap, At, AtAny, Running, Connecting, AckedInv, AckedWriteReachable, Merged,
     HandleInv, AttachInv, FromLocal, Activated, ShapeInv, TypeOK, TypeChain, TypeDisk, TypeUi,
     TypeHolder, TypeCallers, Frame, NoFrame, Rejected, Erased, Optional, DIDs
<1>21. CASE OpenLocalRejects
  BY <1>21, FrameFields, GrantsFields, NotHalfOpen DEF OpenLocalRejects, OpenLocalFails, Return,
     disk, EndSwap, At, AtAny, Running, Connecting, AckedInv, AckedWriteReachable, Merged,
     HandleInv, AttachInv, FromLocal, Activated, ShapeInv, TypeOK, TypeChain, TypeDisk, TypeUi,
     TypeHolder, TypeCallers, Frame, NoFrame, Rejected, Erased, Optional, DIDs
<1>22. CASE Prepared
  BY <1>22, FrameFields, GrantsFields, NotHalfOpen DEF Prepared, Goto, Detach, CarriesAnonData,
     ui, disk, At, AtAny, Running, Connecting, AckedInv, AckedWriteReachable, Merged, HandleInv,
     AttachInv, FromLocal, Activated, ShapeInv, TypeOK, TypeChain, TypeDisk, TypeUi, TypeHolder,
     TypeCallers, Frame, NoFrame, Rejected, Erased, Optional, DIDs
<1>23. CASE PrepareFails
  <2>1. docs' = docs /\ anonSeed' = anonSeed /\ frame.closing = None /\ frame.source = {}
    BY <1>23 DEF PrepareFails, disk, AttachInv, AckedInv, At, AtAny
  <2>2. CASE Running({"boot"})
    <3>1. /\ attached' = None /\ frame'.closing = attached /\ frame'.source = frame.source
          /\ step' = "drain" /\ task' = task /\ writes' = writes
      BY <1>23, <2>2, Falls DEF PrepareFails
    <3>2. AckedWriteReachable'
      BY <2>1, <3>1 DEF AckedInv, AckedWriteReachable
    <3>3. ~Running({"clear"})'
      BY <2>2, <3>1 DEF Running
    <3> QED BY <2>1, <3>1, <3>2, <3>3 DEF AckedInv, Connecting, Running, At, AtAny, Activated, Merged
  <2>3. CASE ~Running({"boot"})
    <3>1. attached' = attached /\ frame' = NoFrame /\ task' = None /\ EndSwap(attached)
      BY <1>23, <2>3 DEF PrepareFails, Return
    <3>2. \A w \in Writes : /\ writes'[w].st = "acked" => writes[w].st = "acked"
                            /\ writes'[w].st = "bound" =>
                                 \/ writes'[w].db = attached /\ attached # None
                                 \/ writes'[w] = writes[w]
      BY <3>1 DEF EndSwap, Rejected
    <3>3. AckedWriteReachable'
      BY <2>1, <3>2 DEF AckedInv, AckedWriteReachable
    <3>4. \A w \in Writes : writes'[w].st = "bound" => writes'[w].db \in {attached', frame'.closing} \ {None}
      BY <2>1, <3>1, <3>2 DEF AckedInv, NoFrame
    <3> QED BY <2>1, <3>1, <3>3, <3>4 DEF AckedInv, NoFrame, At, AtAny, Running
  <2> QED BY <2>2, <2>3
<1>24. CASE Collect
  BY <1>24, FrameFields, GrantsFields, NotHalfOpen DEF Collect, NothingToCollect, Goto, ui,
     disk, FromLocal, At, AtAny, Running, Connecting, AckedInv, AckedWriteReachable, Merged,
     HandleInv, AttachInv, Activated, ShapeInv, TypeOK, TypeChain, TypeDisk, TypeUi, TypeHolder,
     TypeCallers, Frame, NoFrame, Rejected, Erased, Optional, DIDs
<1>25. CASE Read
  BY <1>25, FrameFields, GrantsFields, NotHalfOpen DEF Read, Goto, ui, disk, At, AtAny, Running,
     Connecting, AckedInv, AckedWriteReachable, Merged, HandleInv, AttachInv, FromLocal, Activated,
     ShapeInv, TypeOK, TypeChain, TypeDisk, TypeUi, TypeHolder, TypeCallers, Frame, NoFrame,
     Rejected, Erased, Optional, DIDs
<1>26. CASE CollectFails
  BY <1>26, FrameFields, GrantsFields, NotHalfOpen DEF CollectFails, FromLocal, Goto, ui, disk,
     At, AtAny, Running, Connecting, AckedInv, AckedWriteReachable, Merged, HandleInv, AttachInv,
     Activated, ShapeInv, TypeOK, TypeChain, TypeDisk, TypeUi, TypeHolder, TypeCallers, Frame,
     NoFrame, Rejected, Erased, Optional, DIDs
<1>27. CASE OpenConnected
  BY <1>27, FrameFields, GrantsFields, NotHalfOpen DEF OpenConnected, Goto, ui, disk, At, AtAny,
     Running, Connecting, AckedInv, AckedWriteReachable, Merged, HandleInv, AttachInv, FromLocal,
     Activated, ShapeInv, TypeOK, TypeChain, TypeDisk, TypeUi, TypeHolder, TypeCallers, Frame,
     NoFrame, Rejected, Erased, Optional, DIDs
<1>28. CASE MergeAndHydrate
  BY <1>28, FrameFields, GrantsFields, NotHalfOpen DEF MergeAndHydrate, Goto, AfterHydrate, ui,
     holder, At, AtAny, Running, Connecting, AckedInv, AckedWriteReachable, Merged, HandleInv,
     AttachInv, FromLocal, Activated, ShapeInv, TypeOK, TypeChain, TypeDisk, TypeUi, TypeHolder,
     TypeCallers, Frame, NoFrame, Rejected, Erased, Optional, DIDs
<1>29. CASE SaveSeed
  BY <1>29, FrameFields, GrantsFields, NotHalfOpen DEF SaveSeed, Goto, ui, holder, At, AtAny,
     Running, Connecting, AckedInv, AckedWriteReachable, Merged, HandleInv, AttachInv, FromLocal,
     Activated, ShapeInv, TypeOK, TypeChain, TypeDisk, TypeUi, TypeHolder, TypeCallers, Frame,
     NoFrame, Rejected, Erased, Optional, DIDs
<1>30. CASE SaveRecord
  BY <1>30, FrameFields, GrantsFields, NotHalfOpen DEF SaveRecord, Goto, ui, holder, At, AtAny,
     Running, Connecting, AckedInv, AckedWriteReachable, Merged, HandleInv, AttachInv, FromLocal,
     Activated, ShapeInv, TypeOK, TypeChain, TypeDisk, TypeUi, TypeHolder, TypeCallers, Frame,
     NoFrame, Rejected, Erased, Optional, DIDs
<1>31. CASE ActivationFails
  <2>2. /\ attached' = None /\ frame'.closing = attached /\ frame'.falling
        /\ frame'.source = frame.source /\ step' = "drain" /\ task' = task /\ ~Running({"renew"})
    BY <1>31, Falls DEF ActivationFails
  <2>3. /\ anonSeed' = anonSeed /\ frame.closing = None /\ writes' = writes
        /\ \A d \in DIDs : docs[d] \subseteq docs'[d]
    BY <1>31 DEF ActivationFails, Activating, At, AttachInv, TypeOK, TypeDisk
  <2>4. AckedWriteReachable'
    BY <2>3 DEF AckedInv, AckedWriteReachable, DIDs, TypeOK, TypeDisk, Optional
  <2>5. ~Running({"clear"})'
    BY <1>31, <2>2 DEF ActivationFails, Activating, At, AtAny, ShapeInv, Running
  <2>6. ~Running({"renew"})' /\ ~AtAny({"begin", "prepare", "collect", "read"})'
    BY <2>2 DEF AtAny, Running
  <2>7. \A w \in Writes : writes'[w].st = "bound" => writes'[w].db \in {attached', frame'.closing} \ {None}
    BY <2>2, <2>3 DEF AckedInv
  <2> QED BY <2>2, <2>3, <2>4, <2>5, <2>6, <2>7 DEF AckedInv, Connecting, Running, At, AtAny, Activated, Merged
<1>32. CASE LandBoot
  BY <1>32, FrameFields, GrantsFields, NotHalfOpen DEF LandBoot, StartSync, Return, disk,
     EndSwap, At, AtAny, Running, Connecting, AckedInv, AckedWriteReachable, Merged, HandleInv,
     AttachInv, FromLocal, Activated, ShapeInv, TypeOK, TypeChain, TypeDisk, TypeUi, TypeHolder,
     TypeCallers, Frame, NoFrame, Rejected, Erased, Optional, DIDs
<1>33. CASE LandConnect
  BY <1>33, FrameFields, GrantsFields, NotHalfOpen DEF LandConnect, StartSync, Return, EndSwap,
     Goto, disk, At, AtAny, Running, Connecting, AckedInv, AckedWriteReachable, Merged, HandleInv,
     AttachInv, FromLocal, Activated, ShapeInv, TypeOK, TypeChain, TypeDisk, TypeUi, TypeHolder,
     TypeCallers, Frame, NoFrame, Rejected, Erased, Optional, DIDs
<1>34. CASE DiscardAnonReplica
  <2>1. /\ frame.source # {} /\ anonSeed # None /\ frame.named = {anonSeed} /\ task # None
        /\ docs[anonSeed] \subseteq frame.source /\ frame.source \subseteq docs[frame.grants.acct]
        /\ attached = frame.grants.acct /\ frame.closing = None /\ ~Running({"clear"})
    BY <1>34 DEF DiscardAnonReplica, At, AtAny, AckedInv, AttachInv, Activated, Merged, ShapeInv,
       Connecting, Running
  <2>2. frame.grants.acct \in Accounts /\ anonSeed \in Anons /\ anonSeed \notin Accounts
    BY <1>34, <2>1, GrantsFields, ConstantsOK
       DEF DiscardAnonReplica, At, AtAny, ShapeInv, TypeOK, TypeDisk, Optional
  <2>3. CASE Goto("dropSeed") /\ docs' = [d \in DIDs |-> IF d \in frame.named THEN {} ELSE docs[d]]
                              /\ UNCHANGED <<frame, writes, attached, anonSeed>>
    <3>1. docs'[anonSeed] = {} /\ \A d \in DIDs : d # anonSeed => docs'[d] = docs[d]
      BY <2>1, <2>2, <2>3 DEF DIDs
    <3>2. AckedWriteReachable'
      BY <2>1, <2>2, <2>3, <3>1 DEF AckedInv, AckedWriteReachable, DIDs
    <3> QED BY <2>1, <2>2, <2>3, <3>1, <3>2
            DEF AckedInv, Goto, At, AtAny, Connecting, Running, Activated, Merged, DIDs
  <2>4. CASE Return(attached) /\ UNCHANGED <<docs, attached, anonSeed>>
    BY <2>1, <2>4 DEF Return, EndSwap, Rejected, NoFrame, AckedInv, AckedWriteReachable, At, AtAny,
       Running
  <2> QED BY <1>34, <2>3, <2>4 DEF DiscardAnonReplica
<1>35. CASE DropAnonSeed
  BY <1>35, FrameFields, GrantsFields, NotHalfOpen DEF DropAnonSeed, Return, ui, EndSwap, At,
     AtAny, Running, Connecting, AckedInv, AckedWriteReachable, Merged, HandleInv, AttachInv,
     FromLocal, Activated, ShapeInv, TypeOK, TypeChain, TypeDisk, TypeUi, TypeHolder, TypeCallers,
     Frame, NoFrame, Rejected, Erased, Optional, DIDs
<1>36. CASE StopForRenew
  BY <1>36, FrameFields, GrantsFields, NotHalfOpen DEF StopForRenew, BootstrapSettled, Goto, ui,
     disk, At, AtAny, Running, Connecting, AckedInv, AckedWriteReachable, Merged, HandleInv,
     AttachInv, FromLocal, Activated, ShapeInv, TypeOK, TypeChain, TypeDisk, TypeUi, TypeHolder,
     TypeCallers, Frame, NoFrame, Rejected, Erased, Optional, DIDs
<1>37. CASE LandRenew
  BY <1>37, FrameFields, GrantsFields, NotHalfOpen DEF LandRenew, StartSync, Return, disk,
     EndSwap, At, AtAny, Running, Connecting, AckedInv, AckedWriteReachable, Merged, HandleInv,
     AttachInv, FromLocal, Activated, ShapeInv, TypeOK, TypeChain, TypeDisk, TypeUi, TypeHolder,
     TypeCallers, Frame, NoFrame, Rejected, Erased, Optional, DIDs
<1>38. CASE RenewFails
  BY <1>38, FrameFields, GrantsFields, NotHalfOpen DEF RenewFails, Return, disk, EndSwap, At,
     AtAny, Running, Connecting, AckedInv, AckedWriteReachable, Merged, HandleInv, AttachInv,
     FromLocal, Activated, ShapeInv, TypeOK, TypeChain, TypeDisk, TypeUi, TypeHolder, TypeCallers,
     Frame, NoFrame, Rejected, Erased, Optional, DIDs
<1>39. CASE AuthError
  BY <1>39, FrameFields, GrantsFields, NotHalfOpen DEF AuthError, NotifyAccessExpired, holder,
     disk, At, AtAny, Running, Connecting, AckedInv, AckedWriteReachable, Merged, HandleInv,
     AttachInv, FromLocal, Activated, ShapeInv, TypeOK, TypeChain, TypeDisk, TypeUi, TypeHolder,
     TypeCallers, Frame, NoFrame, Rejected, Erased, Optional, DIDs
<1>40. CASE WatchExpiry
  BY <1>40, FrameFields, GrantsFields, NotHalfOpen DEF WatchExpiry, NearExpiry,
     NotifyAccessExpired, holder, disk, At, AtAny, Running, Connecting, AckedInv,
     AckedWriteReachable, Merged, HandleInv, AttachInv, FromLocal, Activated, ShapeInv, TypeOK,
     TypeChain, TypeDisk, TypeUi, TypeHolder, TypeCallers, Frame, NoFrame, Rejected, Erased,
     Optional, DIDs
<1>41. CASE SyncStarts
  BY <1>41, FrameFields, GrantsFields, NotHalfOpen DEF SyncStarts, BootstrapSettles, ui, disk,
     At, AtAny, Running, Connecting, AckedInv, AckedWriteReachable, Merged, HandleInv, AttachInv,
     FromLocal, Activated, ShapeInv, TypeOK, TypeChain, TypeDisk, TypeUi, TypeHolder, TypeCallers,
     Frame, NoFrame, Rejected, Erased, Optional, DIDs
<1>42. CASE SyncFails
  BY <1>42, FrameFields, GrantsFields, NotHalfOpen DEF SyncFails, BootstrapSettles, ui, disk,
     At, AtAny, Running, Connecting, AckedInv, AckedWriteReachable, Merged, HandleInv, AttachInv,
     FromLocal, Activated, ShapeInv, TypeOK, TypeChain, TypeDisk, TypeUi, TypeHolder, TypeCallers,
     Frame, NoFrame, Rejected, Erased, Optional, DIDs
<1>43. CASE Advance
  BY <1>43, FrameFields, GrantsFields, NotHalfOpen DEF Advance, ui, holder, disk, At, AtAny,
     Running, Connecting, AckedInv, AckedWriteReachable, Merged, HandleInv, AttachInv, FromLocal,
     Activated, ShapeInv, TypeOK, TypeChain, TypeDisk, TypeUi, TypeHolder, TypeCallers, Frame,
     NoFrame, Rejected, Erased, Optional, DIDs
<1>44. CASE Crash
  BY <1>44, FrameFields, GrantsFields, NotHalfOpen DEF Crash, disk, At, AtAny, Running,
     Connecting, AckedInv, AckedWriteReachable, Merged, HandleInv, AttachInv, FromLocal, Activated,
     ShapeInv, TypeOK, TypeChain, TypeDisk, TypeUi, TypeHolder, TypeCallers, Frame, NoFrame,
     Rejected, Erased, Optional, DIDs
<1>45. ASSUME NEW l \in Logins, OpenLogin(l) PROVE AckedInv'
  BY <1>45, FrameFields, GrantsFields, NotHalfOpen DEF OpenLogin, holder, disk, At, AtAny,
     Running, Connecting, AckedInv, AckedWriteReachable, Merged, HandleInv, AttachInv, FromLocal,
     Activated, ShapeInv, TypeOK, TypeChain, TypeDisk, TypeUi, TypeHolder, TypeCallers, Frame,
     NoFrame, Rejected, Erased, Optional, DIDs
<1>46. ASSUME NEW l \in Logins, VerifyLogin(l) PROVE AckedInv'
  BY <1>46, FrameFields, GrantsFields, NotHalfOpen DEF VerifyLogin, holder, disk, At, AtAny,
     Running, Connecting, AckedInv, AckedWriteReachable, Merged, HandleInv, AttachInv, FromLocal,
     Activated, ShapeInv, TypeOK, TypeChain, TypeDisk, TypeUi, TypeHolder, TypeCallers, Frame,
     NoFrame, Rejected, Erased, Optional, DIDs
<1>47. ASSUME NEW l \in Logins, FinishLogin(l) PROVE AckedInv'
  BY <1>47, FrameFields, GrantsFields, NotHalfOpen DEF FinishLogin, Answers, Enqueue, ui,
     holder, disk, At, AtAny, Running, Connecting, AckedInv, AckedWriteReachable, Merged,
     HandleInv, AttachInv, FromLocal, Activated, ShapeInv, TypeOK, TypeChain, TypeDisk, TypeUi,
     TypeHolder, TypeCallers, Frame, NoFrame, Rejected, Erased, Optional, DIDs
<1>48. ASSUME NEW l \in Logins, CancelLogin(l) PROVE AckedInv'
  BY <1>48, FrameFields, GrantsFields, NotHalfOpen DEF CancelLogin, holder, disk, At, AtAny,
     Running, Connecting, AckedInv, AckedWriteReachable, Merged, HandleInv, AttachInv, FromLocal,
     Activated, ShapeInv, TypeOK, TypeChain, TypeDisk, TypeUi, TypeHolder, TypeCallers, Frame,
     NoFrame, Rejected, Erased, Optional, DIDs
<1>49. ASSUME NEW r \in Reconnects, OpenReconnect(r) PROVE AckedInv'
  BY <1>49, FrameFields, GrantsFields, NotHalfOpen DEF OpenReconnect, Enqueue, holder, disk, At,
     AtAny, Running, Connecting, AckedInv, AckedWriteReachable, Merged, HandleInv, AttachInv,
     FromLocal, Activated, ShapeInv, TypeOK, TypeChain, TypeDisk, TypeUi, TypeHolder, TypeCallers,
     Frame, NoFrame, Rejected, Erased, Optional, DIDs
<1>50. ASSUME NEW r \in Reconnects, LeaveReconnect(r) PROVE AckedInv'
  BY <1>50, FrameFields, GrantsFields, NotHalfOpen DEF LeaveReconnect, LogoutPending, holder,
     disk, At, AtAny, Running, Connecting, AckedInv, AckedWriteReachable, Merged, HandleInv,
     AttachInv, FromLocal, Activated, ShapeInv, TypeOK, TypeChain, TypeDisk, TypeUi, TypeHolder,
     TypeCallers, Frame, NoFrame, Rejected, Erased, Optional, DIDs
<1>51. ASSUME NEW r \in Reconnects, AnswerReconnect(r) PROVE AckedInv'
  BY <1>51, FrameFields, GrantsFields, NotHalfOpen DEF AnswerReconnect, Answers, SameSpace,
     Enqueue, ui, holder, disk, At, AtAny, Running, Connecting, AckedInv, AckedWriteReachable,
     Merged, HandleInv, AttachInv, FromLocal, Activated, ShapeInv, TypeOK, TypeChain, TypeDisk,
     TypeUi, TypeHolder, TypeCallers, Frame, NoFrame, Rejected, Erased, Optional, DIDs
<1>52. ASSUME NEW r \in Reconnects, CancelReconnect(r) PROVE AckedInv'
  BY <1>52, FrameFields, GrantsFields, NotHalfOpen DEF CancelReconnect, holder, disk, At, AtAny,
     Running, Connecting, AckedInv, AckedWriteReachable, Merged, HandleInv, AttachInv, FromLocal,
     Activated, ShapeInv, TypeOK, TypeChain, TypeDisk, TypeUi, TypeHolder, TypeCallers, Frame,
     NoFrame, Rejected, Erased, Optional, DIDs
<1>53. ASSUME NEW t \in Calls, Call(t) PROVE AckedInv'
  BY <1>53, FrameFields, GrantsFields, NotHalfOpen DEF Call, Enqueue, ui, holder, disk, At,
     AtAny, Running, Connecting, AckedInv, AckedWriteReachable, Merged, HandleInv, AttachInv,
     FromLocal, Activated, ShapeInv, TypeOK, TypeChain, TypeDisk, TypeUi, TypeHolder, TypeCallers,
     Frame, NoFrame, Rejected, Erased, Optional, DIDs
<1>54. ASSUME NEW w \in Writes, IssueWrite(w) PROVE AckedInv'
  BY <1>54, FrameFields, GrantsFields, NotHalfOpen DEF IssueWrite, ui, holder, disk, At, AtAny,
     Running, Connecting, AckedInv, AckedWriteReachable, Merged, HandleInv, AttachInv, FromLocal,
     Activated, ShapeInv, TypeOK, TypeChain, TypeDisk, TypeUi, TypeHolder, TypeCallers, Frame,
     NoFrame, Rejected, Erased, Optional, DIDs
<1>55. ASSUME NEW w \in Writes, LandWrite(w) PROVE AckedInv'
  <2>1. /\ writes[w].st = "bound" /\ UNCHANGED <<attached, frame, anonSeed, step, task>>
        /\ docs' = [docs EXCEPT ![writes[w].db] = @ \cup {w}]
        /\ \A v \in Writes \ {w} : writes'[v] = writes[v]
        /\ writes'[w].st \in {"acked", "erased"}
    BY <1>55 DEF LandWrite, holder, Erased, TypeOK, TypeCallers
  <2> DEFINE d == writes[w].db
  <2>2. d \in {attached, frame.closing} \ {None} /\ d \in Accounts \cup ({anonSeed} \ {None})
    BY <2>1 DEF AckedInv
  <2>3. /\ d \in DIDs /\ docs'[d] = docs[d] \cup {w}
        /\ \A e \in DIDs : e # d => docs'[e] = docs[e]
    BY <2>1, <2>2 DEF TypeOK, TypeDisk, Optional, DIDs
  <2> HIDE DEF d
  <2>4. AckedWriteReachable'
    BY <2>1, <2>2, <2>3 DEF AckedInv, AckedWriteReachable, DIDs, TypeOK, TypeDisk, Optional
  <2>5. \A v \in Writes : writes'[v].st = "bound" => writes'[v].db \in {attached', frame'.closing} \ {None}
    BY <2>1 DEF AckedInv
  <2>6. AtAny(Activated \cup {"openConn"}) /\ frame.source # {} => d # anonSeed
    <3> SUFFICES ASSUME AtAny(Activated \cup {"openConn"}), frame.source # {} PROVE d # anonSeed
      OBVIOUS
    <3>1. frame.closing = None
      BY DEF AttachInv, At, AtAny, Activated
    <3>2. CASE step = "openConn"
      BY <2>2, <3>1, <3>2 DEF HandleInv, AtAny
    <3>3. CASE step \in Activated /\ ~Running({"renew"})
      BY <2>2, <3>1, <3>3, ConstantsOK, GrantsFields
         DEF AttachInv, AtAny, Activated, ShapeInv, Connecting, Running, TypeOK, TypeDisk, Optional
    <3>4. CASE Running({"renew"})
      BY <3>4 DEF AckedInv, Connecting, Running
    <3> QED BY <3>2, <3>3, <3>4 DEF AtAny
  <2>7. AtAny(Merged) => frame.source \subseteq docs'[frame.grants.acct]
    BY <2>3, GrantsFields DEF AckedInv, AtAny, Merged, ShapeInv, DIDs, Connecting
  <2>8. Running({"clear"}) /\ AtAny({"drain", "clearAnon"}) => writes'[w].st # "acked"
    <3>1. Running({"clear"}) /\ At("drain") => writes'[w].st = "erased"
      BY <1>55 DEF LandWrite, Erased, TypeOK, TypeCallers
    <3>2. ~At("clearAnon")
      BY <2>2 DEF AttachInv, At, AtAny
    <3> QED BY <3>1, <3>2 DEF At, AtAny
  <2>9. Running({"clear"})' /\ AtAny({"drain", "clearAnon"})' =>
          \A v \in Writes, e \in {anonSeed} \ {None} : writes'[v].st = "acked" => v \notin docs'[e]
    BY <2>1, <2>2, <2>3, <2>8 DEF AckedInv, AtAny, Running, TypeOK, TypeDisk, Optional, DIDs
  <2>10. AtAny(Activated \cup {"openConn"})' /\ frame'.source # {} =>
           /\ anonSeed' # None /\ frame'.named = {anonSeed'}
           /\ docs'[anonSeed'] = docs[anonSeed] /\ docs[anonSeed] \subseteq frame'.source
    BY <2>1, <2>3, <2>6 DEF AckedInv, AtAny, TypeOK, TypeDisk, Optional, DIDs
  <2>11. At("dropSeed")' => frame'.source # {} /\ docs'[anonSeed'] = {}
    BY <2>1, <2>10 DEF AckedInv, At, AtAny, Activated
  <2> QED BY <2>1, <2>4, <2>5, <2>7, <2>9, <2>10, <2>11
          DEF AckedInv, Connecting, Running, At, AtAny, Activated, Merged
<1> QED BY <1>1, <1>2, <1>3, <1>4, <1>5, <1>6, <1>7, <1>8, <1>9, <1>10, <1>11, <1>12, <1>13,
       <1>14, <1>15, <1>16, <1>17, <1>18, <1>19, <1>20, <1>21, <1>22, <1>23, <1>24, <1>25, <1>26,
       <1>27, <1>28, <1>29, <1>30, <1>31, <1>32, <1>33, <1>34, <1>35, <1>36, <1>37, <1>38, <1>39,
       <1>40, <1>41, <1>42, <1>43, <1>44, <1>45, <1>46, <1>47, <1>48, <1>49, <1>50, <1>51, <1>52,
       <1>53, <1>54, <1>55 DEF Next, ChainStep, PopupStep

\* The anonymous replica stays attached, or is re-opened, however a task ends.
LEMMA LocalInvStep ==
  ASSUME NoStrandingFaults, NoStrandedCollect, TypeOK, ShapeInv, AttachInv, LocalInv, Next
  PROVE LocalInv'
<1> USE ConstantsOK
<1>1. CASE Begin
  BY <1>1, FrameFields, GrantsFields DEF Begin, ui, holder, disk, At, AtAny, Running,
     Connecting, LocalInv, NoStrandingFaults, NoStrandedCollect, AttachInv, FromLocal, Activated,
     ShapeInv, TypeOK, TypeChain, TypeDisk, TypeUi, TypeHolder, Frame, NoFrame, Optional
<1>2. CASE NoOp
  BY <1>2, FrameFields, GrantsFields DEF NoOp, TaskIsNoOp, Return, ui, disk, EndSwap, At, AtAny,
     Running, Connecting, LocalInv, NoStrandingFaults, NoStrandedCollect, AttachInv, FromLocal,
     Activated, ShapeInv, TypeOK, TypeChain, TypeDisk, TypeUi, TypeHolder, Frame, NoFrame, Optional
<1>3. CASE BootMiss
  BY <1>3, FrameFields, GrantsFields DEF BootMiss, Goto, ui, holder, At, AtAny, Running,
     Connecting, LocalInv, NoStrandingFaults, NoStrandedCollect, AttachInv, FromLocal, Activated,
     ShapeInv, TypeOK, TypeChain, TypeDisk, TypeUi, TypeHolder, Frame, NoFrame, Optional
<1>4. CASE BootRestore
  BY <1>4, FrameFields, GrantsFields DEF BootRestore, Expired, Goto, ui, holder, disk, At,
     AtAny, Running, Connecting, LocalInv, NoStrandingFaults, NoStrandedCollect, AttachInv,
     FromLocal, Activated, ShapeInv, TypeOK, TypeChain, TypeDisk, TypeUi, TypeHolder, Frame,
     NoFrame, Optional
<1>5. CASE BootRetriesLocal
  BY <1>5, FrameFields, GrantsFields DEF BootRetriesLocal, OpenLocalFails, Fail, Goto, ui,
     holder, disk, At, AtAny, Running, Connecting, LocalInv, NoStrandingFaults, NoStrandedCollect,
     AttachInv, FromLocal, Activated, ShapeInv, TypeOK, TypeChain, TypeDisk, TypeUi, TypeHolder,
     Frame, NoFrame, Optional
<1>6. CASE BootGivesUp
  BY <1>6, FrameFields, GrantsFields DEF BootGivesUp, OpenLocalFails, Fail, Return, ui, disk,
     EndSwap, At, AtAny, Running, Connecting, LocalInv, NoStrandingFaults, NoStrandedCollect,
     AttachInv, FromLocal, Activated, ShapeInv, TypeOK, TypeChain, TypeDisk, TypeUi, TypeHolder,
     Frame, NoFrame, Optional
<1>7. CASE LoginAbandoned
  BY <1>7, FrameFields, GrantsFields DEF LoginAbandoned, SameSession, Return, disk, EndSwap, At,
     AtAny, Running, Connecting, LocalInv, NoStrandingFaults, NoStrandedCollect, AttachInv,
     FromLocal, Activated, ShapeInv, TypeOK, TypeChain, TypeDisk, TypeUi, TypeHolder, Frame,
     NoFrame, Optional
<1>8. CASE StartConnect
  BY <1>8, FrameFields, GrantsFields DEF StartConnect, TaskIsNoOp, SameSession, Goto, ui,
     holder, disk, At, AtAny, Running, Connecting, LocalInv, NoStrandingFaults, NoStrandedCollect,
     AttachInv, FromLocal, Activated, ShapeInv, TypeOK, TypeChain, TypeDisk, TypeUi, TypeHolder,
     Frame, NoFrame, Optional
<1>9. CASE RenewDiscarded
  BY <1>9, FrameFields, GrantsFields DEF RenewDiscarded, StillToRenew, Return, disk, EndSwap,
     At, AtAny, Running, Connecting, LocalInv, NoStrandingFaults, NoStrandedCollect, AttachInv,
     FromLocal, Activated, ShapeInv, TypeOK, TypeChain, TypeDisk, TypeUi, TypeHolder, Frame,
     NoFrame, Optional
<1>10. CASE StartRenew
  BY <1>10, FrameFields, GrantsFields DEF StartRenew, StillToRenew, Goto, ui, holder, disk, At,
     AtAny, Running, Connecting, LocalInv, NoStrandingFaults, NoStrandedCollect, AttachInv,
     FromLocal, Activated, ShapeInv, TypeOK, TypeChain, TypeDisk, TypeUi, TypeHolder, Frame,
     NoFrame, Optional
<1>11. CASE StartTeardown
  BY <1>11, FrameFields, GrantsFields DEF StartTeardown, Detach, WipeTargets, ui, disk, Goto,
     At, AtAny, Running, Connecting, LocalInv, NoStrandingFaults, NoStrandedCollect, AttachInv,
     FromLocal, Activated, ShapeInv, TypeOK, TypeChain, TypeDisk, TypeUi, TypeHolder, Frame,
     NoFrame, Optional
<1>12. CASE Drain
  BY <1>12, FrameFields, GrantsFields DEF Drain, StopAndClose, Goto, AfterDrain, ui,
     BootstrapSettled, Deletes, Fail, Erasing, At, AtAny, Running, Connecting, LocalInv,
     NoStrandingFaults, NoStrandedCollect, AttachInv, FromLocal, Activated, ShapeInv, TypeOK,
     TypeChain, TypeDisk, TypeUi, TypeHolder, Frame, NoFrame, Optional
<1>13. CASE DrainDestroy
  BY <1>13, FrameFields, GrantsFields DEF DrainDestroy, StopAndClose, BootstrapSettled, Deletes,
     Fail, Erasing, At, AtAny, Running, Connecting, LocalInv, NoStrandingFaults, NoStrandedCollect,
     AttachInv, FromLocal, Activated, ShapeInv, TypeOK, TypeChain, TypeDisk, TypeUi, TypeHolder,
     Frame, NoFrame, Optional
<1>14. CASE ClearAnonSeed
  BY <1>14, FrameFields, GrantsFields DEF ClearAnonSeed, Goto, Fail, Return, ui, EndSwap, At,
     AtAny, Running, Connecting, LocalInv, NoStrandingFaults, NoStrandedCollect, AttachInv,
     FromLocal, Activated, ShapeInv, TypeOK, TypeChain, TypeDisk, TypeUi, TypeHolder, Frame,
     NoFrame, Optional
<1>15. CASE ForgetSession
  BY <1>15, FrameFields, GrantsFields DEF ForgetSession, Goto, Fail, Return, ui, EndSwap, At,
     AtAny, Running, Connecting, LocalInv, NoStrandingFaults, NoStrandedCollect, AttachInv,
     FromLocal, Activated, ShapeInv, TypeOK, TypeChain, TypeDisk, TypeUi, TypeHolder, Frame,
     NoFrame, Optional
<1>16. CASE Wipe
  BY <1>16, FrameFields, GrantsFields DEF Wipe, Fail, Goto, ui, holder, At, AtAny, Running,
     Connecting, LocalInv, NoStrandingFaults, NoStrandedCollect, AttachInv, FromLocal, Activated,
     ShapeInv, TypeOK, TypeChain, TypeDisk, TypeUi, TypeHolder, Frame, NoFrame, Optional
<1>17. CASE LoadOrCreateAnonSeed
  BY <1>17, FrameFields, GrantsFields DEF LoadOrCreateAnonSeed, Goto, ui, holder, At, AtAny,
     Running, Connecting, LocalInv, NoStrandingFaults, NoStrandedCollect, AttachInv, FromLocal,
     Activated, ShapeInv, TypeOK, TypeChain, TypeDisk, TypeUi, TypeHolder, Frame, NoFrame, Optional
<1>18. CASE OpenAnon
  BY <1>18, FrameFields, GrantsFields DEF OpenAnon, Goto, ui, disk, At, AtAny, Running,
     Connecting, LocalInv, NoStrandingFaults, NoStrandedCollect, AttachInv, FromLocal, Activated,
     ShapeInv, TypeOK, TypeChain, TypeDisk, TypeUi, TypeHolder, Frame, NoFrame, Optional
<1>19. CASE LandLocal
  BY <1>19, FrameFields, GrantsFields DEF LandLocal, FixturesCanRun, Return, disk, EndSwap, At,
     AtAny, Running, Connecting, LocalInv, NoStrandingFaults, NoStrandedCollect, AttachInv,
     FromLocal, Activated, ShapeInv, TypeOK, TypeChain, TypeDisk, TypeUi, TypeHolder, Frame,
     NoFrame, Optional
<1>20. CASE ReopenFails
  BY <1>20, FrameFields, GrantsFields DEF ReopenFails, OpenLocalFails, Fail, Return, disk,
     EndSwap, At, AtAny, Running, Connecting, LocalInv, NoStrandingFaults, NoStrandedCollect,
     AttachInv, FromLocal, Activated, ShapeInv, TypeOK, TypeChain, TypeDisk, TypeUi, TypeHolder,
     Frame, NoFrame, Optional
<1>21. CASE OpenLocalRejects
  BY <1>21, FrameFields, GrantsFields DEF OpenLocalRejects, OpenLocalFails, Fail, Return, disk,
     EndSwap, At, AtAny, Running, Connecting, LocalInv, NoStrandingFaults, NoStrandedCollect,
     AttachInv, FromLocal, Activated, ShapeInv, TypeOK, TypeChain, TypeDisk, TypeUi, TypeHolder,
     Frame, NoFrame, Optional
<1>22. CASE Prepared
  BY <1>22, FrameFields, GrantsFields DEF Prepared, Goto, Detach, CarriesAnonData, ui, disk, At,
     AtAny, Running, Connecting, LocalInv, NoStrandingFaults, NoStrandedCollect, AttachInv,
     FromLocal, Activated, ShapeInv, TypeOK, TypeChain, TypeDisk, TypeUi, TypeHolder, Frame,
     NoFrame, Optional
<1>23. CASE PrepareFails
  BY <1>23, FrameFields, GrantsFields DEF PrepareFails, Fail, Fall, Return, disk, EndSwap,
     Detach, Goto, At, AtAny, Running, Connecting, LocalInv, NoStrandingFaults, NoStrandedCollect,
     AttachInv, FromLocal, Activated, ShapeInv, TypeOK, TypeChain, TypeDisk, TypeUi, TypeHolder,
     Frame, NoFrame, Optional
<1>24. CASE Collect
  BY <1>24, FrameFields, GrantsFields DEF Collect, NothingToCollect, Goto, ui, disk, FromLocal,
     At, AtAny, Running, Connecting, LocalInv, NoStrandingFaults, NoStrandedCollect, AttachInv,
     Activated, ShapeInv, TypeOK, TypeChain, TypeDisk, TypeUi, TypeHolder, Frame, NoFrame, Optional
<1>25. CASE Read
  BY <1>25, FrameFields, GrantsFields DEF Read, Goto, ui, disk, At, AtAny, Running, Connecting,
     LocalInv, NoStrandingFaults, NoStrandedCollect, AttachInv, FromLocal, Activated, ShapeInv,
     TypeOK, TypeChain, TypeDisk, TypeUi, TypeHolder, Frame, NoFrame, Optional
<1>26. CASE CollectFails
  BY <1>26, FrameFields, GrantsFields DEF CollectFails, FromLocal, Fail, Goto, ui, disk, At,
     AtAny, Running, Connecting, LocalInv, NoStrandingFaults, NoStrandedCollect, AttachInv,
     Activated, ShapeInv, TypeOK, TypeChain, TypeDisk, TypeUi, TypeHolder, Frame, NoFrame, Optional
<1>27. CASE OpenConnected
  BY <1>27, FrameFields, GrantsFields DEF OpenConnected, Goto, ui, disk, At, AtAny, Running,
     Connecting, LocalInv, NoStrandingFaults, NoStrandedCollect, AttachInv, FromLocal, Activated,
     ShapeInv, TypeOK, TypeChain, TypeDisk, TypeUi, TypeHolder, Frame, NoFrame, Optional
<1>28. CASE MergeAndHydrate
  BY <1>28, FrameFields, GrantsFields DEF MergeAndHydrate, Goto, AfterHydrate, ui, holder, At,
     AtAny, Running, Connecting, LocalInv, NoStrandingFaults, NoStrandedCollect, AttachInv,
     FromLocal, Activated, ShapeInv, TypeOK, TypeChain, TypeDisk, TypeUi, TypeHolder, Frame,
     NoFrame, Optional
<1>29. CASE SaveSeed
  BY <1>29, FrameFields, GrantsFields DEF SaveSeed, Goto, ui, holder, At, AtAny, Running,
     Connecting, LocalInv, NoStrandingFaults, NoStrandedCollect, AttachInv, FromLocal, Activated,
     ShapeInv, TypeOK, TypeChain, TypeDisk, TypeUi, TypeHolder, Frame, NoFrame, Optional
<1>30. CASE SaveRecord
  BY <1>30, FrameFields, GrantsFields DEF SaveRecord, Goto, ui, holder, At, AtAny, Running,
     Connecting, LocalInv, NoStrandingFaults, NoStrandedCollect, AttachInv, FromLocal, Activated,
     ShapeInv, TypeOK, TypeChain, TypeDisk, TypeUi, TypeHolder, Frame, NoFrame, Optional
<1>31. CASE ActivationFails
  BY <1>31, FrameFields, GrantsFields DEF ActivationFails, Activating, Fail, Fall, Detach, ui,
     Goto, At, AtAny, Running, Connecting, LocalInv, NoStrandingFaults, NoStrandedCollect,
     AttachInv, FromLocal, Activated, ShapeInv, TypeOK, TypeChain, TypeDisk, TypeUi, TypeHolder,
     Frame, NoFrame, Optional
<1>32. CASE LandBoot
  BY <1>32, FrameFields, GrantsFields DEF LandBoot, StartSync, Return, disk, EndSwap, At, AtAny,
     Running, Connecting, LocalInv, NoStrandingFaults, NoStrandedCollect, AttachInv, FromLocal,
     Activated, ShapeInv, TypeOK, TypeChain, TypeDisk, TypeUi, TypeHolder, Frame, NoFrame, Optional
<1>33. CASE LandConnect
  BY <1>33, FrameFields, GrantsFields DEF LandConnect, StartSync, Return, EndSwap, Goto, disk,
     At, AtAny, Running, Connecting, LocalInv, NoStrandingFaults, NoStrandedCollect, AttachInv,
     FromLocal, Activated, ShapeInv, TypeOK, TypeChain, TypeDisk, TypeUi, TypeHolder, Frame,
     NoFrame, Optional
<1>34. CASE DiscardAnonReplica
  BY <1>34, FrameFields, GrantsFields DEF DiscardAnonReplica, Goto, Fail, Return, ui, EndSwap,
     At, AtAny, Running, Connecting, LocalInv, NoStrandingFaults, NoStrandedCollect, AttachInv,
     FromLocal, Activated, ShapeInv, TypeOK, TypeChain, TypeDisk, TypeUi, TypeHolder, Frame,
     NoFrame, Optional
<1>35. CASE DropAnonSeed
  BY <1>35, FrameFields, GrantsFields DEF DropAnonSeed, Fail, Return, ui, EndSwap, At, AtAny,
     Running, Connecting, LocalInv, NoStrandingFaults, NoStrandedCollect, AttachInv, FromLocal,
     Activated, ShapeInv, TypeOK, TypeChain, TypeDisk, TypeUi, TypeHolder, Frame, NoFrame, Optional
<1>36. CASE StopForRenew
  BY <1>36, FrameFields, GrantsFields DEF StopForRenew, BootstrapSettled, Goto, ui, disk, At,
     AtAny, Running, Connecting, LocalInv, NoStrandingFaults, NoStrandedCollect, AttachInv,
     FromLocal, Activated, ShapeInv, TypeOK, TypeChain, TypeDisk, TypeUi, TypeHolder, Frame,
     NoFrame, Optional
<1>37. CASE LandRenew
  BY <1>37, FrameFields, GrantsFields DEF LandRenew, StartSync, Return, disk, EndSwap, At,
     AtAny, Running, Connecting, LocalInv, NoStrandingFaults, NoStrandedCollect, AttachInv,
     FromLocal, Activated, ShapeInv, TypeOK, TypeChain, TypeDisk, TypeUi, TypeHolder, Frame,
     NoFrame, Optional
<1>38. CASE RenewFails
  BY <1>38, FrameFields, GrantsFields DEF RenewFails, Fail, Return, disk, EndSwap, At, AtAny,
     Running, Connecting, LocalInv, NoStrandingFaults, NoStrandedCollect, AttachInv, FromLocal,
     Activated, ShapeInv, TypeOK, TypeChain, TypeDisk, TypeUi, TypeHolder, Frame, NoFrame, Optional
<1>39. CASE AuthError
  BY <1>39, FrameFields, GrantsFields DEF AuthError, NotifyAccessExpired, holder, disk, At,
     AtAny, Running, Connecting, LocalInv, NoStrandingFaults, NoStrandedCollect, AttachInv,
     FromLocal, Activated, ShapeInv, TypeOK, TypeChain, TypeDisk, TypeUi, TypeHolder, Frame,
     NoFrame, Optional
<1>40. CASE WatchExpiry
  BY <1>40, FrameFields, GrantsFields DEF WatchExpiry, NearExpiry, NotifyAccessExpired, holder,
     disk, At, AtAny, Running, Connecting, LocalInv, NoStrandingFaults, NoStrandedCollect,
     AttachInv, FromLocal, Activated, ShapeInv, TypeOK, TypeChain, TypeDisk, TypeUi, TypeHolder,
     Frame, NoFrame, Optional
<1>41. CASE SyncStarts
  BY <1>41, FrameFields, GrantsFields DEF SyncStarts, BootstrapSettles, ui, disk, At, AtAny,
     Running, Connecting, LocalInv, NoStrandingFaults, NoStrandedCollect, AttachInv, FromLocal,
     Activated, ShapeInv, TypeOK, TypeChain, TypeDisk, TypeUi, TypeHolder, Frame, NoFrame, Optional
<1>42. CASE SyncFails
  BY <1>42, FrameFields, GrantsFields DEF SyncFails, BootstrapSettles, ui, disk, At, AtAny,
     Running, Connecting, LocalInv, NoStrandingFaults, NoStrandedCollect, AttachInv, FromLocal,
     Activated, ShapeInv, TypeOK, TypeChain, TypeDisk, TypeUi, TypeHolder, Frame, NoFrame, Optional
<1>43. CASE Advance
  BY <1>43, FrameFields, GrantsFields DEF Advance, ui, holder, disk, At, AtAny, Running,
     Connecting, LocalInv, NoStrandingFaults, NoStrandedCollect, AttachInv, FromLocal, Activated,
     ShapeInv, TypeOK, TypeChain, TypeDisk, TypeUi, TypeHolder, Frame, NoFrame, Optional
<1>44. CASE Crash
  BY <1>44, FrameFields, GrantsFields DEF Crash, disk, At, AtAny, Running, Connecting, LocalInv,
     NoStrandingFaults, NoStrandedCollect, AttachInv, FromLocal, Activated, ShapeInv, TypeOK,
     TypeChain, TypeDisk, TypeUi, TypeHolder, Frame, NoFrame, Optional
<1>45. ASSUME NEW l \in Logins, OpenLogin(l) PROVE LocalInv'
  BY <1>45, FrameFields, GrantsFields DEF OpenLogin, holder, disk, At, AtAny, Running,
     Connecting, LocalInv, NoStrandingFaults, NoStrandedCollect, AttachInv, FromLocal, Activated,
     ShapeInv, TypeOK, TypeChain, TypeDisk, TypeUi, TypeHolder, Frame, NoFrame, Optional
<1>46. ASSUME NEW l \in Logins, VerifyLogin(l) PROVE LocalInv'
  BY <1>46, FrameFields, GrantsFields DEF VerifyLogin, holder, disk, At, AtAny, Running,
     Connecting, LocalInv, NoStrandingFaults, NoStrandedCollect, AttachInv, FromLocal, Activated,
     ShapeInv, TypeOK, TypeChain, TypeDisk, TypeUi, TypeHolder, Frame, NoFrame, Optional
<1>47. ASSUME NEW l \in Logins, FinishLogin(l) PROVE LocalInv'
  BY <1>47, FrameFields, GrantsFields DEF FinishLogin, Answers, Enqueue, ui, holder, disk, At,
     AtAny, Running, Connecting, LocalInv, NoStrandingFaults, NoStrandedCollect, AttachInv,
     FromLocal, Activated, ShapeInv, TypeOK, TypeChain, TypeDisk, TypeUi, TypeHolder, Frame,
     NoFrame, Optional
<1>48. ASSUME NEW l \in Logins, CancelLogin(l) PROVE LocalInv'
  BY <1>48, FrameFields, GrantsFields DEF CancelLogin, holder, disk, At, AtAny, Running,
     Connecting, LocalInv, NoStrandingFaults, NoStrandedCollect, AttachInv, FromLocal, Activated,
     ShapeInv, TypeOK, TypeChain, TypeDisk, TypeUi, TypeHolder, Frame, NoFrame, Optional
<1>49. ASSUME NEW r \in Reconnects, OpenReconnect(r) PROVE LocalInv'
  BY <1>49, FrameFields, GrantsFields DEF OpenReconnect, Enqueue, holder, disk, At, AtAny,
     Running, Connecting, LocalInv, NoStrandingFaults, NoStrandedCollect, AttachInv, FromLocal,
     Activated, ShapeInv, TypeOK, TypeChain, TypeDisk, TypeUi, TypeHolder, Frame, NoFrame, Optional
<1>50. ASSUME NEW r \in Reconnects, LeaveReconnect(r) PROVE LocalInv'
  BY <1>50, FrameFields, GrantsFields DEF LeaveReconnect, LogoutPending, holder, disk, At,
     AtAny, Running, Connecting, LocalInv, NoStrandingFaults, NoStrandedCollect, AttachInv,
     FromLocal, Activated, ShapeInv, TypeOK, TypeChain, TypeDisk, TypeUi, TypeHolder, Frame,
     NoFrame, Optional
<1>51. ASSUME NEW r \in Reconnects, AnswerReconnect(r) PROVE LocalInv'
  BY <1>51, FrameFields, GrantsFields DEF AnswerReconnect, Answers, SameSpace, Enqueue, ui,
     holder, disk, At, AtAny, Running, Connecting, LocalInv, NoStrandingFaults, NoStrandedCollect,
     AttachInv, FromLocal, Activated, ShapeInv, TypeOK, TypeChain, TypeDisk, TypeUi, TypeHolder,
     Frame, NoFrame, Optional
<1>52. ASSUME NEW r \in Reconnects, CancelReconnect(r) PROVE LocalInv'
  BY <1>52, FrameFields, GrantsFields DEF CancelReconnect, holder, disk, At, AtAny, Running,
     Connecting, LocalInv, NoStrandingFaults, NoStrandedCollect, AttachInv, FromLocal, Activated,
     ShapeInv, TypeOK, TypeChain, TypeDisk, TypeUi, TypeHolder, Frame, NoFrame, Optional
<1>53. ASSUME NEW t \in Calls, Call(t) PROVE LocalInv'
  BY <1>53, FrameFields, GrantsFields DEF Call, Enqueue, ui, holder, disk, At, AtAny, Running,
     Connecting, LocalInv, NoStrandingFaults, NoStrandedCollect, AttachInv, FromLocal, Activated,
     ShapeInv, TypeOK, TypeChain, TypeDisk, TypeUi, TypeHolder, Frame, NoFrame, Optional
<1>54. ASSUME NEW w \in Writes, IssueWrite(w) PROVE LocalInv'
  BY <1>54, FrameFields, GrantsFields DEF IssueWrite, ui, holder, disk, At, AtAny, Running,
     Connecting, LocalInv, NoStrandingFaults, NoStrandedCollect, AttachInv, FromLocal, Activated,
     ShapeInv, TypeOK, TypeChain, TypeDisk, TypeUi, TypeHolder, Frame, NoFrame, Optional
<1>55. ASSUME NEW w \in Writes, LandWrite(w) PROVE LocalInv'
  BY <1>55, FrameFields, GrantsFields DEF LandWrite, ui, holder, At, AtAny, Running, Connecting,
     LocalInv, NoStrandingFaults, NoStrandedCollect, AttachInv, FromLocal, Activated, ShapeInv,
     TypeOK, TypeChain, TypeDisk, TypeUi, TypeHolder, Frame, NoFrame, Optional
<1> QED BY <1>1, <1>2, <1>3, <1>4, <1>5, <1>6, <1>7, <1>8, <1>9, <1>10, <1>11, <1>12, <1>13,
       <1>14, <1>15, <1>16, <1>17, <1>18, <1>19, <1>20, <1>21, <1>22, <1>23, <1>24, <1>25, <1>26,
       <1>27, <1>28, <1>29, <1>30, <1>31, <1>32, <1>33, <1>34, <1>35, <1>36, <1>37, <1>38, <1>39,
       <1>40, <1>41, <1>42, <1>43, <1>44, <1>45, <1>46, <1>47, <1>48, <1>49, <1>50, <1>51, <1>52,
       <1>53, <1>54, <1>55 DEF Next, ChainStep, PopupStep

\* What ErasedInv says is about the replicas, the writes and the task over them alone.
LEMMA ErasedKept ==
  ASSUME ErasedInv, Calm' => Calm,
         UNCHANGED <<did, attached, anonSeed, docs, task, step, frame, writes>>
  PROVE  ErasedInv'
BY DEF ErasedInv, At, AtAny, Running

\* While nothing fails, a write stays in its one replica from its landing to its merge
\* or its deletion, and what a clear erased stays named until it is wiped.
LEMMA ErasedInvStep ==
  ASSUME TypeOK, ShapeInv, AttachInv, HandleInv, AckedInv, ErasedInv, Next
  PROVE ErasedInv'
<1> USE ConstantsOK
<1> SUFFICES ASSUME Calm' PROVE ErasedInv'
  BY DEF ErasedInv
<1>1. CASE Begin
  BY <1>1, FrameFields, GrantsFields DEF Begin, ui, holder, disk, bounds, At, AtAny, Running,
     Connecting, ErasedInv, Calm, AckedInv, HandleInv, AttachInv, Merged, FromLocal, Activated,
     ShapeInv, TypeOK, TypeChain, TypeDisk, TypeUi, TypeHolder, TypeCallers, TypeBounds, Frame,
     NoFrame, Rejected, Erased, Optional, DIDs
<1>2. CASE NoOp
  BY <1>2, FrameFields, GrantsFields DEF NoOp, TaskIsNoOp, Return, ui, disk, EndSwap, bounds,
     At, AtAny, Running, Connecting, ErasedInv, Calm, AckedInv, HandleInv, AttachInv, Merged,
     FromLocal, Activated, ShapeInv, TypeOK, TypeChain, TypeDisk, TypeUi, TypeHolder, TypeCallers,
     TypeBounds, Frame, NoFrame, Rejected, Erased, Optional, DIDs
<1>3. CASE BootMiss
  BY <1>3, FrameFields, GrantsFields DEF BootMiss, Goto, ui, holder, bounds, At, AtAny, Running,
     Connecting, ErasedInv, Calm, AckedInv, HandleInv, AttachInv, Merged, FromLocal, Activated,
     ShapeInv, TypeOK, TypeChain, TypeDisk, TypeUi, TypeHolder, TypeCallers, TypeBounds, Frame,
     NoFrame, Rejected, Erased, Optional, DIDs
<1>4. CASE BootRestore
  BY <1>4, FrameFields, GrantsFields DEF BootRestore, Expired, Goto, ui, holder, disk, bounds,
     At, AtAny, Running, Connecting, ErasedInv, Calm, AckedInv, HandleInv, AttachInv, Merged,
     FromLocal, Activated, ShapeInv, TypeOK, TypeChain, TypeDisk, TypeUi, TypeHolder, TypeCallers,
     TypeBounds, Frame, NoFrame, Rejected, Erased, Optional, DIDs
<1>5. CASE BootRetriesLocal
  BY <1>5, FrameFields, GrantsFields DEF BootRetriesLocal, OpenLocalFails, Fail, Goto, ui,
     holder, disk, bounds, At, AtAny, Running, Connecting, ErasedInv, Calm, AckedInv, HandleInv,
     AttachInv, Merged, FromLocal, Activated, ShapeInv, TypeOK, TypeChain, TypeDisk, TypeUi,
     TypeHolder, TypeCallers, TypeBounds, Frame, NoFrame, Rejected, Erased, Optional, DIDs
<1>6. CASE BootGivesUp
  BY <1>6, FrameFields, GrantsFields DEF BootGivesUp, OpenLocalFails, Fail, Return, ui, disk,
     EndSwap, bounds, At, AtAny, Running, Connecting, ErasedInv, Calm, AckedInv, HandleInv,
     AttachInv, Merged, FromLocal, Activated, ShapeInv, TypeOK, TypeChain, TypeDisk, TypeUi,
     TypeHolder, TypeCallers, TypeBounds, Frame, NoFrame, Rejected, Erased, Optional, DIDs
<1>7. CASE LoginAbandoned
  BY <1>7, FrameFields, GrantsFields DEF LoginAbandoned, SameSession, Return, disk, EndSwap,
     bounds, At, AtAny, Running, Connecting, ErasedInv, Calm, AckedInv, HandleInv, AttachInv,
     Merged, FromLocal, Activated, ShapeInv, TypeOK, TypeChain, TypeDisk, TypeUi, TypeHolder,
     TypeCallers, TypeBounds, Frame, NoFrame, Rejected, Erased, Optional, DIDs
<1>8. CASE StartConnect
  BY <1>8, FrameFields, GrantsFields DEF StartConnect, TaskIsNoOp, SameSession, Goto, ui,
     holder, disk, bounds, At, AtAny, Running, Connecting, ErasedInv, Calm, AckedInv, HandleInv,
     AttachInv, Merged, FromLocal, Activated, ShapeInv, TypeOK, TypeChain, TypeDisk, TypeUi,
     TypeHolder, TypeCallers, TypeBounds, Frame, NoFrame, Rejected, Erased, Optional, DIDs
<1>9. CASE RenewDiscarded
  BY <1>9, FrameFields, GrantsFields DEF RenewDiscarded, StillToRenew, Return, disk, EndSwap,
     bounds, At, AtAny, Running, Connecting, ErasedInv, Calm, AckedInv, HandleInv, AttachInv,
     Merged, FromLocal, Activated, ShapeInv, TypeOK, TypeChain, TypeDisk, TypeUi, TypeHolder,
     TypeCallers, TypeBounds, Frame, NoFrame, Rejected, Erased, Optional, DIDs
<1>10. CASE StartRenew
  BY <1>10, FrameFields, GrantsFields DEF StartRenew, StillToRenew, Goto, ui, holder, disk,
     bounds, At, AtAny, Running, Connecting, ErasedInv, Calm, AckedInv, HandleInv, AttachInv,
     Merged, FromLocal, Activated, ShapeInv, TypeOK, TypeChain, TypeDisk, TypeUi, TypeHolder,
     TypeCallers, TypeBounds, Frame, NoFrame, Rejected, Erased, Optional, DIDs
<1>11. CASE StartTeardown
  <2>1. /\ attached' = None /\ frame'.closing = attached /\ frame'.source = frame.source
        /\ frame'.named = WipeTargets /\ step' = "drain" /\ task' = task
    BY <1>11, TearsDown
  <2>2. /\ anonSeed' = anonSeed /\ did' = did /\ docs' = docs /\ step = "begin" /\ task # None
        /\ Calm /\ Running({"destroy", "logout", "clear"})
    BY <1>11 DEF StartTeardown, ui, disk, bounds, Calm, At
  <2>3. attached \in {did, None} /\ ~AtAny(Merged)
    BY <2>2 DEF ErasedInv, AtAny, Merged
  <2>4. \A w \in Writes : \/ writes'[w] = writes[w]
                          \/ /\ Running({"clear"}) /\ writes[w].st = "acked" /\ Unwanted(w)
                             /\ writes'[w].st = "erased"
    BY <1>11 DEF StartTeardown, Erased
  <2>5. \A w \in Writes, d \in DIDs : w \in docs'[d] => writes'[w].st \in {"acked", "erased"}
    BY <2>2, <2>4 DEF ErasedInv
  <2>6. \A w \in Writes, d, e \in DIDs : w \in docs'[d] /\ w \in docs'[e] => d = e
    BY <2>2, <2>3 DEF ErasedInv
  <2>7. Running({"clear"}) => /\ WipeTargets = {did, anonSeed} \ {None}
                              /\ frame'.closing \in frame'.named \cup {None}
    BY <2>1, <2>3 DEF WipeTargets, Running
  <2>8. \A w \in Writes, d \in DIDs : writes'[w].st = "erased" /\ w \in docs'[d] =>
          Running({"clear"}) /\ d \in frame'.named
    <3> SUFFICES ASSUME NEW w \in Writes, NEW d \in DIDs, writes'[w].st = "erased", w \in docs'[d]
                 PROVE Running({"clear"}) /\ d \in frame'.named
      OBVIOUS
    <3>1. writes[w].st # "erased"
      BY <2>2 DEF ErasedInv, AtAny
    <3>2. Running({"clear"}) /\ Unwanted(w)
      BY <2>4, <3>1
    <3>3. PICK e \in {did, anonSeed} \ {None} : w \in docs[e]
      BY <3>2 DEF Unwanted
    <3>4. e \in DIDs
      BY <3>3 DEF TypeOK, TypeUi, TypeDisk, Optional, DIDs
    <3> QED BY <2>1, <2>2, <2>6, <2>7, <3>2, <3>3, <3>4
  <2> QED BY <2>1, <2>2, <2>5, <2>6, <2>7, <2>8 DEF ErasedInv, At, AtAny, Running
<1>12. CASE Drain
  <2>1. frame' = [frame EXCEPT !.closing = None] /\ step' = AfterDrain /\ task' = task
    BY <1>12 DEF Drain, Goto
  <2>2. frame'.source = frame.source /\ frame'.named = frame.named /\ frame'.falling = frame.falling
    BY <2>1 DEF TypeOK, TypeChain, Frame
  <2>3. /\ attached' = attached /\ attached = None /\ anonSeed' = anonSeed /\ did' = did
        /\ At("drain") /\ ~AtAny(Merged) /\ ~Running({"renew"})
    BY <1>12 DEF Drain, ui, AttachInv, ShapeInv, At, AtAny, Merged
  <2>4. Calm /\ ~Fail /\ StopAndClose
    BY <1>12 DEF Drain, StopAndClose, Calm, Fail, bounds, TypeOK, TypeBounds
  <2>5. AfterDrain \in {"anonSeed", "openConn", "collect", "forget", "clearAnon"}
    BY DEF AfterDrain
  <2>6. \A w \in Writes, d, e \in DIDs : w \in docs[d] /\ w \in docs[e] => d = e
    BY <2>3, <2>4 DEF ErasedInv
  <2>7. CASE Deletes /\ Delete({frame.closing})
    <3>1. \A d \in DIDs : docs'[d] = IF d = frame.closing THEN {} ELSE docs[d]
      BY <2>7 DEF Delete
    <3>2. \A w \in Writes : writes[w].st \in {"acked", "erased"} => writes'[w].st \in {"acked", "erased"}
      BY <2>7 DEF Delete, Erased
    <3>3. \A w \in Writes : writes'[w].st = "erased" /\ writes[w].st # "erased" => w \in docs[frame.closing]
      BY <2>7 DEF Delete, Rejected
    <3>4. frame.closing \in DIDs
      BY <2>7, FrameFields DEF Deletes, TypeOK, TypeChain, Optional
    <3>5. \A w \in Writes, d \in DIDs : w \in docs'[d] => w \in docs[d] /\ writes'[w].st \in {"acked", "erased"}
      BY <2>4, <3>1, <3>2 DEF ErasedInv
    <3>6. \A w \in Writes, d \in DIDs : writes'[w].st = "erased" /\ w \in docs'[d] => writes[w].st = "erased"
      BY <2>6, <3>1, <3>3, <3>4
    <3>7. \A w \in Writes, d \in DIDs : writes'[w].st = "erased" /\ w \in docs'[d] =>
            Running({"clear"}) /\ d \in frame'.named
      BY <2>2, <2>4, <3>5, <3>6 DEF ErasedInv
    <3>8. Running({"clear"}) => AfterDrain = "clearAnon"
      BY DEF AfterDrain, ShapeInv, Running
    <3>9. ~frame.falling => frame.source = {}
      BY <2>3 DEF AckedInv
    <3>10. AfterDrain = "openConn" => ~frame.falling
      BY DEF AfterDrain
    <3> QED BY <2>1, <2>2, <2>3, <2>5, <2>6, <3>5, <3>7, <3>8, <3>9, <3>10
            DEF ErasedInv, At, AtAny, Running
  <2>8. CASE ~Deletes /\ Close(frame.closing)
    <3>1. /\ docs' = docs
          /\ \A w \in Writes : writes[w].st \in {"acked", "erased"} => writes'[w] = writes[w]
          /\ \A w \in Writes : writes'[w].st = "erased" => writes[w].st = "erased"
      BY <2>8 DEF Close, Rejected
    <3>2. Running({"clear"}) => AfterDrain = "clearAnon"
      BY DEF AfterDrain, ShapeInv, Running
    <3>3. ~frame.falling => frame.source = {}
      BY <2>3 DEF AckedInv
    <3>4. AfterDrain = "openConn" => ~frame.falling
      BY DEF AfterDrain
    <3>5. \A w \in Writes, d \in DIDs : w \in docs'[d] => writes'[w].st \in {"acked", "erased"}
      BY <2>4, <3>1 DEF ErasedInv
    <3>6. \A w \in Writes, d \in DIDs : writes'[w].st = "erased" /\ w \in docs'[d] =>
            Running({"clear"}) /\ d \in frame'.named
      BY <2>2, <2>4, <3>1 DEF ErasedInv
    <3> QED BY <2>1, <2>2, <2>3, <2>5, <2>6, <3>1, <3>2, <3>3, <3>4, <3>5, <3>6
            DEF ErasedInv, At, AtAny, Running
  <2> QED BY <2>4, <2>7, <2>8 DEF StopAndClose
<1>13. CASE DrainDestroy
  <2>1. /\ attached' = attached /\ attached = None /\ task' = None /\ step' = "idle"
        /\ At("drain") /\ ~AtAny(Merged) /\ ~Running({"clear"})
    BY <1>13 DEF DrainDestroy, AttachInv, At, AtAny, Merged, Running
  <2>2. Calm /\ ~Fail
    BY <1>13 DEF DrainDestroy, StopAndClose, Calm, Fail, bounds, TypeOK, TypeBounds
  <2>3. Close(frame.closing)
    BY <1>13, <2>2 DEF DrainDestroy, StopAndClose, Deletes, Erasing, Running
  <2>4. /\ docs' = docs
        /\ \A w \in Writes : writes[w].st \in {"acked", "erased"} => writes'[w] = writes[w]
        /\ \A w \in Writes : writes'[w].st = "erased" => writes[w].st = "erased"
    BY <2>3 DEF Close, Rejected
  <2> QED BY <2>1, <2>2, <2>4 DEF ErasedInv, At, AtAny, Running
<1>14. CASE ClearAnonSeed
  BY <1>14, FrameFields, GrantsFields DEF ClearAnonSeed, Goto, Fail, Return, ui, EndSwap,
     bounds, At, AtAny, Running, Connecting, ErasedInv, Calm, AckedInv, HandleInv, AttachInv,
     Merged, FromLocal, Activated, ShapeInv, TypeOK, TypeChain, TypeDisk, TypeUi, TypeHolder,
     TypeCallers, TypeBounds, Frame, NoFrame, Rejected, Erased, Optional, DIDs
<1>15. CASE ForgetSession
  BY <1>15, FrameFields, GrantsFields DEF ForgetSession, Goto, Fail, Return, ui, EndSwap,
     bounds, At, AtAny, Running, Connecting, ErasedInv, Calm, AckedInv, HandleInv, AttachInv,
     Merged, FromLocal, Activated, ShapeInv, TypeOK, TypeChain, TypeDisk, TypeUi, TypeHolder,
     TypeCallers, TypeBounds, Frame, NoFrame, Rejected, Erased, Optional, DIDs
<1>16. CASE Wipe
  <2>1. /\ attached' = attached /\ attached = None /\ anonSeed' = anonSeed /\ did' = did
        /\ step' = "anonSeed" /\ task' = task /\ frame' = frame
        /\ ~AtAny(Merged) /\ ~Running({"renew"})
    BY <1>16 DEF Wipe, holder, ui, Goto, AttachInv, ShapeInv, At, AtAny, Running, Merged
  <2>2. Calm /\ ~Fail
    BY <1>16 DEF Wipe, Calm, Fail, bounds, TypeOK, TypeBounds
  <2>3. PICK R \in {frame.named, DIDs} : Delete(R)
    BY <1>16, <2>2 DEF Wipe
  <2>4. R \subseteq DIDs /\ frame.named \subseteq R
    BY FrameFields DEF TypeOK, TypeChain
  <2>5. /\ \A d \in DIDs : docs'[d] = IF d \in R THEN {} ELSE docs[d]
        /\ \A w \in Writes : writes[w].st \in {"acked", "erased"} => writes'[w].st \in {"acked", "erased"}
        /\ \A w \in Writes : writes'[w].st = "erased" /\ writes[w].st # "erased" =>
             \E d \in R : w \in docs[d]
    BY <2>3 DEF Delete, Erased, Rejected
  <2>6. \A w \in Writes, d, e \in DIDs : w \in docs[d] /\ w \in docs[e] => d = e
    BY <2>1, <2>2 DEF ErasedInv
  <2>7. \A w \in Writes, d \in DIDs : w \in docs'[d] => w \in docs[d] /\ writes'[w].st \in {"acked", "erased"}
    BY <2>2, <2>5 DEF ErasedInv
  <2>8. \A w \in Writes, d \in DIDs : writes'[w].st = "erased" => w \notin docs'[d]
    <3> SUFFICES ASSUME NEW w \in Writes, NEW d \in DIDs, writes'[w].st = "erased", w \in docs'[d]
                 PROVE FALSE
      OBVIOUS
    <3>1. w \in docs[d] /\ d \notin R
      BY <2>5, <2>7
    <3>2. CASE writes[w].st = "erased"
      BY <2>2, <2>4, <3>1, <3>2 DEF ErasedInv
    <3>3. CASE writes[w].st # "erased"
      BY <2>4, <2>5, <2>6, <3>1, <3>3
    <3> QED BY <3>2, <3>3
  <2> QED BY <2>1, <2>6, <2>7, <2>8 DEF ErasedInv, At, AtAny, Running
<1>17. CASE LoadOrCreateAnonSeed
  BY <1>17, FrameFields, GrantsFields DEF LoadOrCreateAnonSeed, Goto, ui, holder, bounds, At,
     AtAny, Running, Connecting, ErasedInv, Calm, AckedInv, HandleInv, AttachInv, Merged,
     FromLocal, Activated, ShapeInv, TypeOK, TypeChain, TypeDisk, TypeUi, TypeHolder, TypeCallers,
     TypeBounds, Frame, NoFrame, Rejected, Erased, Optional, DIDs
<1>18. CASE OpenAnon
  BY <1>18, FrameFields, GrantsFields DEF OpenAnon, Goto, ui, disk, bounds, At, AtAny, Running,
     Connecting, ErasedInv, Calm, AckedInv, HandleInv, AttachInv, Merged, FromLocal, Activated,
     ShapeInv, TypeOK, TypeChain, TypeDisk, TypeUi, TypeHolder, TypeCallers, TypeBounds, Frame,
     NoFrame, Rejected, Erased, Optional, DIDs
<1>19. CASE LandLocal
  BY <1>19, FrameFields, GrantsFields DEF LandLocal, FixturesCanRun, Return, disk, EndSwap,
     bounds, At, AtAny, Running, Connecting, ErasedInv, Calm, AckedInv, HandleInv, AttachInv,
     Merged, FromLocal, Activated, ShapeInv, TypeOK, TypeChain, TypeDisk, TypeUi, TypeHolder,
     TypeCallers, TypeBounds, Frame, NoFrame, Rejected, Erased, Optional, DIDs
<1>20. CASE ReopenFails
  BY <1>20, FrameFields, GrantsFields DEF ReopenFails, OpenLocalFails, Fail, Return, disk,
     EndSwap, bounds, At, AtAny, Running, Connecting, ErasedInv, Calm, AckedInv, HandleInv,
     AttachInv, Merged, FromLocal, Activated, ShapeInv, TypeOK, TypeChain, TypeDisk, TypeUi,
     TypeHolder, TypeCallers, TypeBounds, Frame, NoFrame, Rejected, Erased, Optional, DIDs
<1>21. CASE OpenLocalRejects
  BY <1>21, FrameFields, GrantsFields DEF OpenLocalRejects, OpenLocalFails, Fail, Return, disk,
     EndSwap, bounds, At, AtAny, Running, Connecting, ErasedInv, Calm, AckedInv, HandleInv,
     AttachInv, Merged, FromLocal, Activated, ShapeInv, TypeOK, TypeChain, TypeDisk, TypeUi,
     TypeHolder, TypeCallers, TypeBounds, Frame, NoFrame, Rejected, Erased, Optional, DIDs
<1>22. CASE Prepared
  BY <1>22, FrameFields, GrantsFields DEF Prepared, Goto, Detach, CarriesAnonData, ui, disk,
     bounds, At, AtAny, Running, Connecting, ErasedInv, Calm, AckedInv, HandleInv, AttachInv,
     Merged, FromLocal, Activated, ShapeInv, TypeOK, TypeChain, TypeDisk, TypeUi, TypeHolder,
     TypeCallers, TypeBounds, Frame, NoFrame, Rejected, Erased, Optional, DIDs
<1>23. CASE PrepareFails
  BY <1>23, FrameFields, GrantsFields DEF PrepareFails, Fail, Fall, Return, disk, EndSwap,
     Detach, Goto, bounds, At, AtAny, Running, Connecting, ErasedInv, Calm, AckedInv, HandleInv,
     AttachInv, Merged, FromLocal, Activated, ShapeInv, TypeOK, TypeChain, TypeDisk, TypeUi,
     TypeHolder, TypeCallers, TypeBounds, Frame, NoFrame, Rejected, Erased, Optional, DIDs
<1>24. CASE Collect
  BY <1>24, FrameFields, GrantsFields DEF Collect, NothingToCollect, Goto, ui, disk, FromLocal,
     bounds, At, AtAny, Running, Connecting, ErasedInv, Calm, AckedInv, HandleInv, AttachInv,
     Merged, Activated, ShapeInv, TypeOK, TypeChain, TypeDisk, TypeUi, TypeHolder, TypeCallers,
     TypeBounds, Frame, NoFrame, Rejected, Erased, Optional, DIDs
<1>25. CASE Read
  BY <1>25, FrameFields, GrantsFields DEF Read, Goto, ui, disk, bounds, At, AtAny, Running,
     Connecting, ErasedInv, Calm, AckedInv, HandleInv, AttachInv, Merged, FromLocal, Activated,
     ShapeInv, TypeOK, TypeChain, TypeDisk, TypeUi, TypeHolder, TypeCallers, TypeBounds, Frame,
     NoFrame, Rejected, Erased, Optional, DIDs
<1>26. CASE CollectFails
  BY <1>26, FrameFields, GrantsFields DEF CollectFails, FromLocal, Fail, Goto, ui, disk, bounds,
     At, AtAny, Running, Connecting, ErasedInv, Calm, AckedInv, HandleInv, AttachInv, Merged,
     Activated, ShapeInv, TypeOK, TypeChain, TypeDisk, TypeUi, TypeHolder, TypeCallers, TypeBounds,
     Frame, NoFrame, Rejected, Erased, Optional, DIDs
<1>27. CASE OpenConnected
  BY <1>27, FrameFields, GrantsFields DEF OpenConnected, Goto, ui, disk, bounds, At, AtAny,
     Running, Connecting, ErasedInv, Calm, AckedInv, HandleInv, AttachInv, Merged, FromLocal,
     Activated, ShapeInv, TypeOK, TypeChain, TypeDisk, TypeUi, TypeHolder, TypeCallers, TypeBounds,
     Frame, NoFrame, Rejected, Erased, Optional, DIDs
<1>28. CASE MergeAndHydrate
  BY <1>28, FrameFields, GrantsFields DEF MergeAndHydrate, Goto, AfterHydrate, ui, holder,
     bounds, At, AtAny, Running, Connecting, ErasedInv, Calm, AckedInv, HandleInv, AttachInv,
     Merged, FromLocal, Activated, ShapeInv, TypeOK, TypeChain, TypeDisk, TypeUi, TypeHolder,
     TypeCallers, TypeBounds, Frame, NoFrame, Rejected, Erased, Optional, DIDs
<1>29. CASE SaveSeed
  <2>1. /\ UNCHANGED <<did, attached, anonSeed, docs, task, frame, writes>> /\ Calm
        /\ task # None /\ step \in Merged /\ step' \in Merged \ {"discard", "dropSeed"}
    BY <1>29 DEF SaveSeed, Goto, ui, holder, bounds, At, Merged, Calm
  <2> QED BY <2>1 DEF ErasedInv, At, AtAny, Running, Merged
<1>30. CASE SaveRecord
  <2>1. /\ UNCHANGED <<did, attached, anonSeed, docs, task, frame, writes>> /\ Calm
        /\ task # None /\ step \in Merged /\ step' \in Merged \ {"discard", "dropSeed"}
    BY <1>30 DEF SaveRecord, Goto, ui, holder, bounds, At, Merged, Calm
  <2> QED BY <2>1 DEF ErasedInv, At, AtAny, Running, Merged
<1>31. CASE ActivationFails
  BY <1>31, FrameFields, GrantsFields DEF ActivationFails, Activating, Fail, Fall, Detach, ui,
     Goto, bounds, At, AtAny, Running, Connecting, ErasedInv, Calm, AckedInv, HandleInv, AttachInv,
     Merged, FromLocal, Activated, ShapeInv, TypeOK, TypeChain, TypeDisk, TypeUi, TypeHolder,
     TypeCallers, TypeBounds, Frame, NoFrame, Rejected, Erased, Optional, DIDs
<1>32. CASE LandBoot
  <2>1. /\ attached' = attached /\ did' = frame.grants.acct /\ task' = None /\ step' = "idle"
        /\ docs' = docs /\ EndSwap(attached) /\ Calm /\ step = "land" /\ Running({"boot"})
    BY <1>32 DEF LandBoot, Return, disk, bounds, At, Calm
  <2>2. attached = frame.grants.acct /\ frame.source = {}
    BY <2>1 DEF AttachInv, AckedInv, AtAny, Activated, Connecting, Running
  <2>3. /\ \A w \in Writes : writes[w].st \in {"acked", "erased"} => writes'[w] = writes[w]
        /\ \A w \in Writes : writes'[w].st = "erased" => writes[w].st = "erased"
    BY <2>1 DEF EndSwap, Rejected
  <2> QED BY <2>1, <2>2, <2>3 DEF ErasedInv, At, AtAny, Running
<1>33. CASE LandConnect
  <2>1. /\ attached' = attached /\ did' = frame.grants.acct /\ docs' = docs /\ EndSwap(attached)
        /\ Calm /\ step = "land" /\ Connecting /\ anonSeed' = anonSeed
    BY <1>33 DEF LandConnect, Return, disk, bounds, At, Calm
  <2>2. attached = frame.grants.acct
    BY <2>1 DEF AttachInv, AtAny, Activated, Connecting, Running
  <2>3. /\ \A w \in Writes : writes[w].st \in {"acked", "erased"} => writes'[w] = writes[w]
        /\ \A w \in Writes : writes'[w].st = "erased" => writes[w].st = "erased"
    BY <2>1 DEF EndSwap, Rejected
  <2>4. CASE frame.source = {} /\ Return(attached)
    BY <2>1, <2>2, <2>3, <2>4 DEF Return, ErasedInv, AtAny, Running
  <2>5. CASE frame.source # {} /\ Goto("discard") /\ frame' = frame
    BY <2>1, <2>2, <2>3, <2>5 DEF Goto, ErasedInv, AtAny, Running, Connecting, Merged
  <2> QED BY <1>33, <2>4, <2>5 DEF LandConnect
<1>34. CASE DiscardAnonReplica
  <2>1. /\ docs' = [d \in DIDs |-> IF d \in frame.named THEN {} ELSE docs[d]]
        /\ UNCHANGED <<did, attached, anonSeed, task, frame, writes>>
        /\ step = "discard" /\ step' = "dropSeed" /\ Calm /\ Connecting
    BY <1>34 DEF DiscardAnonReplica, Goto, Fail, ui, bounds, At, AtAny, ShapeInv, Calm, TypeOK, TypeBounds
  <2>2. frame.named = {anonSeed} /\ anonSeed \in DIDs
    BY <2>1 DEF AckedInv, AtAny, At, Activated, Connecting, Running, TypeOK, TypeDisk, Optional, DIDs
  <2>3. \A d \in DIDs : docs'[d] = IF d = anonSeed THEN {} ELSE docs[d]
    BY <2>1, <2>2
  <2> QED BY <2>1, <2>2, <2>3 DEF ErasedInv, At, AtAny, Running, Connecting
<1>35. CASE DropAnonSeed
  <2>1. /\ docs' = docs /\ did' = did /\ attached' = attached /\ task' = None /\ step' = "idle"
        /\ EndSwap(attached) /\ step = "dropSeed" /\ Calm /\ Connecting
    BY <1>35 DEF DropAnonSeed, Return, Fail, ui, bounds, At, AtAny, ShapeInv, Calm, TypeOK, TypeBounds
  <2>2. docs[anonSeed] = {}
    BY <2>1 DEF AckedInv, At, Connecting, Running
  <2>3. /\ \A w \in Writes : writes[w].st \in {"acked", "erased"} => writes'[w] = writes[w]
        /\ \A w \in Writes : writes'[w].st = "erased" => writes[w].st = "erased"
    BY <2>1 DEF EndSwap, Rejected
  <2> QED BY <2>1, <2>2, <2>3 DEF ErasedInv, At, AtAny, Running, Connecting
<1>36. CASE StopForRenew
  BY <1>36, FrameFields, GrantsFields DEF StopForRenew, BootstrapSettled, Goto, ui, disk,
     bounds, At, AtAny, Running, Connecting, ErasedInv, Calm, AckedInv, HandleInv, AttachInv,
     Merged, FromLocal, Activated, ShapeInv, TypeOK, TypeChain, TypeDisk, TypeUi, TypeHolder,
     TypeCallers, TypeBounds, Frame, NoFrame, Rejected, Erased, Optional, DIDs
<1>37. CASE LandRenew
  BY <1>37, FrameFields, GrantsFields DEF LandRenew, StartSync, Return, disk, EndSwap, bounds,
     At, AtAny, Running, Connecting, ErasedInv, Calm, AckedInv, HandleInv, AttachInv, Merged,
     FromLocal, Activated, ShapeInv, TypeOK, TypeChain, TypeDisk, TypeUi, TypeHolder, TypeCallers,
     TypeBounds, Frame, NoFrame, Rejected, Erased, Optional, DIDs
<1>38. CASE RenewFails
  BY <1>38, FrameFields, GrantsFields DEF RenewFails, Fail, Return, disk, EndSwap, bounds, At,
     AtAny, Running, Connecting, ErasedInv, Calm, AckedInv, HandleInv, AttachInv, Merged,
     FromLocal, Activated, ShapeInv, TypeOK, TypeChain, TypeDisk, TypeUi, TypeHolder, TypeCallers,
     TypeBounds, Frame, NoFrame, Rejected, Erased, Optional, DIDs
<1>39. CASE AuthError
  BY <1>39, ErasedKept DEF AuthError, NotifyAccessExpired, holder, disk, Calm, bounds
<1>40. CASE WatchExpiry
  BY <1>40, ErasedKept DEF WatchExpiry, NotifyAccessExpired, holder, disk, Calm, bounds
<1>41. CASE SyncStarts
  BY <1>41, ErasedKept DEF SyncStarts, BootstrapSettles, ui, disk, Calm, bounds
<1>42. CASE SyncFails
  BY <1>42, ErasedKept DEF SyncFails, BootstrapSettles, ui, disk, Calm, bounds
<1>43. CASE Advance
  BY <1>43, ErasedKept DEF Advance, ui, holder, disk, Calm, bounds
<1>44. CASE Crash
  BY <1>44, FrameFields, GrantsFields DEF Crash, disk, bounds, At, AtAny, Running, Connecting,
     ErasedInv, Calm, AckedInv, HandleInv, AttachInv, Merged, FromLocal, Activated, ShapeInv,
     TypeOK, TypeChain, TypeDisk, TypeUi, TypeHolder, TypeCallers, TypeBounds, Frame, NoFrame,
     Rejected, Erased, Optional, DIDs
<1>45. ASSUME NEW l \in Logins, OpenLogin(l) PROVE ErasedInv'
  BY <1>45, ErasedKept DEF OpenLogin, holder, disk, Calm, bounds
<1>46. ASSUME NEW l \in Logins, VerifyLogin(l) PROVE ErasedInv'
  BY <1>46, ErasedKept DEF VerifyLogin, holder, disk, Calm, bounds
<1>47. ASSUME NEW l \in Logins, FinishLogin(l) PROVE ErasedInv'
  BY <1>47, ErasedKept DEF FinishLogin, ui, holder, disk, Calm, bounds
<1>48. ASSUME NEW l \in Logins, CancelLogin(l) PROVE ErasedInv'
  BY <1>48, ErasedKept DEF CancelLogin, holder, disk, Calm, bounds
<1>49. ASSUME NEW r \in Reconnects, OpenReconnect(r) PROVE ErasedInv'
  BY <1>49, ErasedKept DEF OpenReconnect, holder, disk, Calm, bounds
<1>50. ASSUME NEW r \in Reconnects, LeaveReconnect(r) PROVE ErasedInv'
  BY <1>50, ErasedKept DEF LeaveReconnect, holder, disk, Calm, bounds
<1>51. ASSUME NEW r \in Reconnects, AnswerReconnect(r) PROVE ErasedInv'
  BY <1>51, ErasedKept DEF AnswerReconnect, ui, holder, disk, Calm, bounds
<1>52. ASSUME NEW r \in Reconnects, CancelReconnect(r) PROVE ErasedInv'
  BY <1>52, ErasedKept DEF CancelReconnect, holder, disk, Calm, bounds
<1>53. ASSUME NEW t \in Calls, Call(t) PROVE ErasedInv'
  BY <1>53, ErasedKept DEF Call, ui, holder, disk, Calm, bounds
<1>54. ASSUME NEW w \in Writes, IssueWrite(w) PROVE ErasedInv'
  <2>1. /\ writes[w].st = "new" /\ UNCHANGED <<did, attached, anonSeed, docs, task, step, frame>>
        /\ \A v \in Writes \ {w} : writes'[v] = writes[v]
        /\ writes'[w].st \notin {"acked", "erased"} /\ Calm
    BY <1>54 DEF IssueWrite, ui, holder, disk, bounds, Rejected, Calm, TypeOK, TypeCallers
  <2>2. \A d \in DIDs : w \notin docs[d]
    BY <2>1 DEF ErasedInv
  <2>3. \A v \in Writes, d \in DIDs : v \in docs'[d] => v \in docs[d] /\ writes'[v] = writes[v]
    BY <2>1, <2>2
  <2> QED BY <2>1, <2>3 DEF ErasedInv, At, AtAny, Running
<1>55. ASSUME NEW w \in Writes, LandWrite(w) PROVE ErasedInv'
  <2>1. /\ writes[w].st = "bound" /\ UNCHANGED <<did, attached, frame, anonSeed, step, task>>
        /\ docs' = [docs EXCEPT ![writes[w].db] = @ \cup {w}] /\ Calm
        /\ \A v \in Writes \ {w} : writes'[v] = writes[v]
        /\ writes'[w].st = IF Running({"clear"}) /\ At("drain") THEN "erased" ELSE "acked"
    BY <1>55 DEF LandWrite, ui, holder, bounds, Erased, Calm, TypeOK, TypeCallers
  <2> DEFINE d == writes[w].db
  <2>2. d \in {attached, frame.closing} \ {None} /\ d \in DIDs
    BY <2>1 DEF AckedInv, TypeOK, TypeDisk, Optional, DIDs
  <2>3. \A e \in DIDs : docs'[e] = IF e = d THEN docs[e] \cup {w} ELSE docs[e]
    BY <2>1, <2>2 DEF TypeOK, TypeDisk
  <2> HIDE DEF d
  <2>4. \A e \in DIDs : w \notin docs[e]
    BY <2>1 DEF ErasedInv
  <2>5. \A v \in Writes, e \in DIDs : v \in docs'[e] =>
          \/ v = w /\ e = d
          \/ v # w /\ v \in docs[e] /\ writes'[v] = writes[v]
    <3> SUFFICES ASSUME NEW v \in Writes, NEW e \in DIDs, v \in docs'[e]
                 PROVE \/ v = w /\ e = d
                       \/ v # w /\ v \in docs[e] /\ writes'[v] = writes[v]
      OBVIOUS
    <3>1. v \in docs[e] \/ (v = w /\ e = d)
      BY <2>3
    <3>2. v # w => writes'[v] = writes[v]
      BY <2>1
    <3> QED BY <2>4, <3>1, <3>2
  <2>6. Running({"clear"}) /\ At("drain") => d \in frame.named
    BY <2>1, <2>2 DEF ErasedInv, AttachInv, At, AtAny
  <2>7. \A v \in Writes, e \in DIDs : v \in docs'[e] => writes'[v].st \in {"acked", "erased"}
    BY <2>1, <2>5 DEF ErasedInv
  <2>8. \A v \in Writes, e, f \in DIDs : v \in docs'[e] /\ v \in docs'[f] /\ e # f =>
          AtAny(Merged) /\ frame.source # {} /\ {e, f} = {frame.grants.acct, anonSeed}
    BY <2>1, <2>5 DEF ErasedInv
  <2>9. AtAny({"openConn", "hydrate"}) /\ frame.source # {} => frame.source \subseteq docs'[anonSeed]
    BY <2>1, <2>3 DEF ErasedInv, AckedInv, AtAny, Activated, TypeOK, TypeDisk, Optional, DIDs
  <2>10. \A v \in Writes, e \in DIDs : writes'[v].st = "erased" /\ v \in docs'[e] =>
           Running({"clear"}) /\ AtAny({"drain", "clearAnon", "forget", "wipe"}) /\ e \in frame.named
    BY <2>1, <2>5, <2>6 DEF ErasedInv, At, AtAny
  <2>11. Running({"clear"}) /\ At("drain") => frame.closing \in frame.named \cup {None}
    BY <2>1 DEF ErasedInv
  <2>12. task = None \/ step \in {"begin", "discard", "dropSeed"} \/ Running({"renew"})
           => attached \in {did, None}
    BY <2>1 DEF ErasedInv
  <2> QED BY <2>1, <2>7, <2>8, <2>9, <2>10, <2>11, <2>12 DEF ErasedInv, At, AtAny, Running
<1> QED BY <1>1, <1>2, <1>3, <1>4, <1>5, <1>6, <1>7, <1>8, <1>9, <1>10, <1>11, <1>12, <1>13,
       <1>14, <1>15, <1>16, <1>17, <1>18, <1>19, <1>20, <1>21, <1>22, <1>23, <1>24, <1>25, <1>26,
       <1>27, <1>28, <1>29, <1>30, <1>31, <1>32, <1>33, <1>34, <1>35, <1>36, <1>37, <1>38, <1>39,
       <1>40, <1>41, <1>42, <1>43, <1>44, <1>45, <1>46, <1>47, <1>48, <1>49, <1>50, <1>51, <1>52,
       <1>53, <1>54, <1>55 DEF Next, ChainStep, PopupStep

\* Faults only ever grow in number: a model that reached no fault had none before.
LEMMA FaultsGrow ==
  ASSUME TypeOK, Next, faults' = 0
  PROVE  faults = 0
<1>1. ASSUME Fail PROVE FALSE
  BY <1>1 DEF Fail, TypeOK, TypeBounds
<1>2. CASE \/ Begin \/ NoOp \/ BootMiss \/ BootRestore \/ LoginAbandoned \/ StartConnect
           \/ RenewDiscarded \/ StartRenew \/ StartTeardown \/ LoadOrCreateAnonSeed \/ OpenAnon
           \/ LandLocal \/ Prepared \/ Collect \/ Read \/ OpenConnected \/ MergeAndHydrate
  BY <1>2 DEF Begin, NoOp, BootMiss, BootRestore, LoginAbandoned, StartConnect, RenewDiscarded,
     StartRenew, StartTeardown, LoadOrCreateAnonSeed, OpenAnon, LandLocal, Prepared, Collect,
     Read, OpenConnected, MergeAndHydrate
<1>3. CASE \/ SaveSeed \/ SaveRecord \/ LandBoot \/ LandConnect \/ StopForRenew \/ LandRenew
           \/ AuthError \/ WatchExpiry \/ SyncStarts \/ SyncFails \/ Advance \/ Crash
  BY <1>3 DEF SaveSeed, SaveRecord, LandBoot, LandConnect, StopForRenew, LandRenew, AuthError,
     WatchExpiry, NotifyAccessExpired, SyncStarts, SyncFails, BootstrapSettles, Advance, Crash
<1>4. CASE \/ BootRetriesLocal \/ BootGivesUp \/ Drain \/ DrainDestroy \/ ClearAnonSeed
           \/ ForgetSession \/ Wipe \/ ReopenFails \/ OpenLocalRejects \/ PrepareFails
           \/ CollectFails \/ ActivationFails \/ DiscardAnonReplica \/ DropAnonSeed \/ RenewFails
  BY <1>1, <1>4 DEF BootRetriesLocal, BootGivesUp, Drain, DrainDestroy, StopAndClose,
     ClearAnonSeed, ForgetSession, Wipe, ReopenFails, OpenLocalRejects, PrepareFails,
     CollectFails, ActivationFails, DiscardAnonReplica, DropAnonSeed, RenewFails
<1>5. CASE PopupStep
  BY <1>5 DEF PopupStep, OpenLogin, VerifyLogin, FinishLogin, CancelLogin, OpenReconnect,
     LeaveReconnect, AnswerReconnect, CancelReconnect
<1>6. CASE (\E t \in Calls : Call(t)) \/ (\E w \in Writes : IssueWrite(w) \/ LandWrite(w))
  BY <1>6 DEF Call, IssueWrite, LandWrite
<1> QED BY <1>2, <1>3, <1>4, <1>5, <1>6 DEF Next, ChainStep

\* The states a page starts in satisfy the invariants.
LEMMA InitReplicaInvs == Init => AttachInv /\ HandleInv /\ AckedInv /\ LocalInv /\ ErasedInv
<1> SUFFICES ASSUME Init PROVE AttachInv /\ HandleInv /\ AckedInv /\ LocalInv /\ ErasedInv
  OBVIOUS
<1>1. AttachInv
  BY DEF Init, AttachInv, At, AtAny, Running, Connecting, NoFrame
<1>2. HandleInv
  BY DEF Init, HandleInv, At, AtAny, NoFrame
<1>3. AckedInv
  BY DEF Init, AckedInv, AckedWriteReachable, At, AtAny, Running, Connecting, NoFrame, Fresh
<1>4. LocalInv
  BY DEF Init, LocalInv, AtAny, Connecting, Running
<1>5. ErasedInv
  BY DEF Init, ErasedInv, At, AtAny, Running, Fresh
<1> QED BY <1>1, <1>2, <1>3, <1>4, <1>5

\* A stutter preserves them.
LEMMA ReplicaStutter ==
  UNCHANGED vars =>
    /\ AttachInv => AttachInv'
    /\ HandleInv => HandleInv'
    /\ AckedInv => AckedInv'
    /\ LocalInv => LocalInv'
    /\ ErasedInv => ErasedInv'
    /\ faults' = faults
<1> SUFFICES ASSUME UNCHANGED vars
             PROVE /\ AttachInv => AttachInv'
                   /\ HandleInv => HandleInv'
                   /\ AckedInv => AckedInv'
                   /\ LocalInv => LocalInv'
                   /\ ErasedInv => ErasedInv'
                   /\ faults' = faults
  OBVIOUS
<1>1. UNCHANGED <<ui, holder, disk, chain, task, step, frame, writes, bounds, faults>>
  BY DEF vars
<1>2. AttachInv => AttachInv'
  BY <1>1 DEF ui, holder, disk, AttachInv, FromLocal, At, AtAny, Running, Connecting
<1>3. HandleInv => HandleInv'
  BY <1>1 DEF ui, holder, HandleInv, At, AtAny
<1>4. AckedInv => AckedInv'
  BY <1>1 DEF holder, disk, AckedInv, AckedWriteReachable, At, AtAny, Running, Connecting
<1>5. LocalInv => LocalInv'
  BY <1>1 DEF ui, holder, LocalInv, AtAny, Running, Connecting
<1>6. ErasedInv => ErasedInv'
  BY <1>1 DEF ui, holder, disk, bounds, ErasedInv, Calm, At, AtAny, Running
<1> QED BY <1>1, <1>2, <1>3, <1>4, <1>5, <1>6

\* Where the replica is attached is settled by the step the chain stands at, whatever
\* fails: prerequisite of the theorems below.
THEOREM AttachCorrect == Spec => [](TypeOK /\ ShapeInv /\ AttachInv)
<1>1. Init => AttachInv
  BY InitReplicaInvs
<1>2. TypeOK /\ ShapeInv /\ AttachInv /\ [Next]_vars => AttachInv'
  BY AttachInvStep, ReplicaStutter
<1> QED BY <1>1, <1>2, TypeCorrect, PTL DEF Spec

\* Unless a step can fail with the anonymous replica attached, at most one replica
\* database is open at any moment of a boot, a login, a logout or a clear, through
\* failed activations and crashes, the collecting handle of a merge login included
\* (detachAndCollect, activateConnected, openLocal).
THEOREM OneReplica ==
  ASSUME NoHalfOpenFaults
  PROVE  Spec => []OneReplicaOpen
<1>1. Init => HandleInv
  BY InitReplicaInvs
<1>2. TypeOK /\ ShapeInv /\ AttachInv /\ HandleInv /\ [Next]_vars => HandleInv'
  BY HandleInvStep, ReplicaStutter, NoHalfOpenFaults
<1>3. TypeOK /\ ShapeInv /\ AttachInv /\ HandleInv => OneReplicaOpen
  BY DEF HandleInv, OneReplicaOpen, AttachInv, At, AtAny
<1> QED BY <1>1, <1>2, <1>3, AttachCorrect, PTL DEF Spec

\* Under the same assumption no write an entity store acknowledged is ever lost but to
\* a deletion the user asked for: the merge, the discard and the dropping of the seed
\* keep it in a replica a session or the persisted seed names, whatever fails between
\* them and wherever the page crashes (completeConnect, discardAnonReplica).
THEOREM AckedStaysReachable ==
  ASSUME NoHalfOpenFaults
  PROVE  Spec => []AckedWriteReachable
<1>1. Init => HandleInv /\ AckedInv
  BY InitReplicaInvs
<1>2. TypeOK /\ ShapeInv /\ AttachInv /\ HandleInv /\ AckedInv /\ [Next]_vars => (HandleInv /\ AckedInv)'
  BY HandleInvStep, AckedInvStep, ReplicaStutter, NoHalfOpenFaults
<1>3. AckedInv => AckedWriteReachable
  BY DEF AckedInv
<1> QED BY <1>1, <1>2, <1>3, AttachCorrect, PTL DEF Spec

\* Unless a step of clearLocalData, the clearAppSession of a logout, or the re-open after
\* a failed collect fails, a local session between two tasks has its replica attached
\* (openLocal, reopenLocal, activateConnected).
THEOREM LocalHasReplica ==
  ASSUME NoStrandingFaults, NoStrandedCollect
  PROVE  Spec => []LocalIsOpen
<1>1. Init => LocalInv
  BY InitReplicaInvs
<1>2. TypeOK /\ ShapeInv /\ AttachInv /\ LocalInv /\ [Next]_vars => LocalInv'
  BY LocalInvStep, ReplicaStutter, NoStrandingFaults, NoStrandedCollect
<1>3. LocalInv => LocalIsOpen
  BY DEF LocalInv, LocalIsOpen
<1> QED BY <1>1, <1>2, <1>3, AttachCorrect, PTL DEF Spec

\* Whatever may fail, in a run in which nothing did, what an erasing logout or a clear
\* set out to delete is in no replica once the task has ended, however the writes, the
\* popups and the tasks of the chain were interleaved (deactivateStore, executeLocalWipe).
THEOREM ErasedStaysGone == Spec => []ErasedIsGone
<1> DEFINE Faultless == faults = 0 => HandleInv /\ AckedInv
<1>1. Init => Faultless /\ ErasedInv
  BY InitReplicaInvs
<1>2. TypeOK /\ ShapeInv /\ AttachInv /\ Faultless /\ [Next]_vars => Faultless'
  BY HandleInvStep, AckedInvStep, FaultsGrow, ReplicaStutter
<1>3. TypeOK /\ ShapeInv /\ AttachInv /\ Faultless /\ ErasedInv /\ [Next]_vars => ErasedInv'
  <2> SUFFICES ASSUME TypeOK, ShapeInv, AttachInv, Faultless, ErasedInv, [Next]_vars
               PROVE ErasedInv'
    OBVIOUS
  <2>1. CASE UNCHANGED vars
    BY <2>1, ReplicaStutter
  <2>2. CASE Next /\ faults' = 0
    BY <2>2, FaultsGrow, ErasedInvStep
  <2>3. CASE faults' # 0
    BY <2>3 DEF ErasedInv, Calm
  <2> QED BY <2>1, <2>2, <2>3
<1>4. ErasedInv => ErasedIsGone
  BY DEF ErasedInv, ErasedIsGone, Calm, AtAny, Running
<1> HIDE DEF Faultless
<1> QED BY <1>1, <1>2, <1>3, <1>4, AttachCorrect, PTL DEF Spec

(***************************************************************************)
(* The grants, and the sync and the watch over them                        *)
(***************************************************************************)
\* The chain hands out its oldest task and keeps the others.
LEMMA ChainPicks ==
  ASSUME chain \in Seq(Tasks), chain # <<>>
  PROVE  /\ 1 \in DOMAIN chain /\ Head(chain) = chain[1]
         /\ \A i \in DOMAIN Tail(chain) : i + 1 \in DOMAIN chain /\ Tail(chain)[i] = chain[i + 1]
OBVIOUS

\* Enqueuing adds one task and keeps the others.
LEMMA ChainTakes ==
  ASSUME NEW t, chain \in Seq(Tasks)
  PROVE  \A i \in DOMAIN Append(chain, t) :
           Append(chain, t)[i] = t \/ (i \in DOMAIN chain /\ Append(chain, t)[i] = chain[i])
OBVIOUS

\* A renewal answers for the account its popup read, and renews the session it stands over.
LEMMA OwnInvStep ==
  ASSUME TypeOK, ShapeInv, AttachInv, PeekedOwn, OwnInv, Next
  PROVE OwnInv'
<1> USE ConstantsOK
<1>1. CASE Begin
  BY <1>1, FrameFields DEF Begin, ui, holder, disk, At, AtAny, Running, Connecting, OwnInv,
     ShapeInv, TypeOK, TypeChain, TypeUi, TypeDisk, Frame, NoFrame, Optional
<1>2. CASE NoOp
  BY <1>2, FrameFields DEF NoOp, TaskIsNoOp, Return, ui, disk, EndSwap, At, AtAny, Running,
     Connecting, OwnInv, ShapeInv, TypeOK, TypeChain, TypeUi, TypeDisk, Frame, NoFrame, Optional
<1>3. CASE BootMiss
  BY <1>3, FrameFields DEF BootMiss, Goto, ui, holder, At, AtAny, Running, Connecting, OwnInv,
     ShapeInv, TypeOK, TypeChain, TypeUi, TypeDisk, Frame, NoFrame, Optional
<1>4. CASE BootRestore
  BY <1>4, FrameFields DEF BootRestore, Expired, Goto, ui, holder, disk, At, AtAny, Running,
     Connecting, OwnInv, ShapeInv, TypeOK, TypeChain, TypeUi, TypeDisk, Frame, NoFrame, Optional
<1>5. CASE BootRetriesLocal
  BY <1>5, FrameFields DEF BootRetriesLocal, OpenLocalFails, Goto, ui, holder, disk, At, AtAny,
     Running, Connecting, OwnInv, ShapeInv, TypeOK, TypeChain, TypeUi, TypeDisk, Frame, NoFrame,
     Optional
<1>6. CASE BootGivesUp
  BY <1>6, FrameFields DEF BootGivesUp, OpenLocalFails, Return, ui, disk, EndSwap, At, AtAny,
     Running, Connecting, OwnInv, ShapeInv, TypeOK, TypeChain, TypeUi, TypeDisk, Frame, NoFrame,
     Optional
<1>7. CASE LoginAbandoned
  BY <1>7, FrameFields DEF LoginAbandoned, SameSession, Return, disk, EndSwap, At, AtAny,
     Running, Connecting, OwnInv, ShapeInv, TypeOK, TypeChain, TypeUi, TypeDisk, Frame, NoFrame,
     Optional
<1>8. CASE StartConnect
  BY <1>8, FrameFields DEF StartConnect, TaskIsNoOp, SameSession, Goto, ui, holder, disk, At,
     AtAny, Running, Connecting, OwnInv, ShapeInv, TypeOK, TypeChain, TypeUi, TypeDisk, Frame,
     NoFrame, Optional
<1>9. CASE RenewDiscarded
  BY <1>9, FrameFields DEF RenewDiscarded, StillToRenew, Return, disk, EndSwap, At, AtAny,
     Running, Connecting, OwnInv, ShapeInv, TypeOK, TypeChain, TypeUi, TypeDisk, Frame, NoFrame,
     Optional
<1>10. CASE StartRenew
  BY <1>10, FrameFields DEF StartRenew, StillToRenew, Goto, ui, holder, disk, At, AtAny,
     Running, Connecting, OwnInv, ShapeInv, TypeOK, TypeChain, TypeUi, TypeDisk, Frame, NoFrame,
     Optional
<1>11. CASE StartTeardown
  BY <1>11, FrameFields DEF StartTeardown, Detach, WipeTargets, ui, disk, Goto, At, AtAny,
     Running, Connecting, OwnInv, ShapeInv, TypeOK, TypeChain, TypeUi, TypeDisk, Frame, NoFrame,
     Optional
<1>12. CASE Drain
  BY <1>12, FrameFields DEF Drain, StopAndClose, Goto, AfterDrain, ui, BootstrapSettled,
     Deletes, Erasing, At, AtAny, Running, Connecting, OwnInv, ShapeInv, TypeOK, TypeChain, TypeUi,
     TypeDisk, Frame, NoFrame, Optional
<1>13. CASE DrainDestroy
  BY <1>13, FrameFields DEF DrainDestroy, StopAndClose, BootstrapSettled, Deletes, Erasing, At,
     AtAny, Running, Connecting, OwnInv, ShapeInv, TypeOK, TypeChain, TypeUi, TypeDisk, Frame,
     NoFrame, Optional
<1>14. CASE ClearAnonSeed
  BY <1>14, FrameFields DEF ClearAnonSeed, Goto, Return, ui, EndSwap, At, AtAny, Running,
     Connecting, OwnInv, ShapeInv, TypeOK, TypeChain, TypeUi, TypeDisk, Frame, NoFrame, Optional
<1>15. CASE ForgetSession
  BY <1>15, FrameFields DEF ForgetSession, Goto, Return, ui, EndSwap, At, AtAny, Running,
     Connecting, OwnInv, ShapeInv, TypeOK, TypeChain, TypeUi, TypeDisk, Frame, NoFrame, Optional
<1>16. CASE Wipe
  BY <1>16, FrameFields DEF Wipe, Goto, ui, holder, At, AtAny, Running, Connecting, OwnInv,
     ShapeInv, TypeOK, TypeChain, TypeUi, TypeDisk, Frame, NoFrame, Optional
<1>17. CASE LoadOrCreateAnonSeed
  BY <1>17, FrameFields DEF LoadOrCreateAnonSeed, Goto, ui, holder, At, AtAny, Running,
     Connecting, OwnInv, ShapeInv, TypeOK, TypeChain, TypeUi, TypeDisk, Frame, NoFrame, Optional
<1>18. CASE OpenAnon
  BY <1>18, FrameFields DEF OpenAnon, Goto, ui, disk, At, AtAny, Running, Connecting, OwnInv,
     ShapeInv, TypeOK, TypeChain, TypeUi, TypeDisk, Frame, NoFrame, Optional
<1>19. CASE LandLocal
  BY <1>19, FrameFields DEF LandLocal, FixturesCanRun, Return, disk, EndSwap, At, AtAny,
     Running, Connecting, OwnInv, ShapeInv, TypeOK, TypeChain, TypeUi, TypeDisk, Frame, NoFrame,
     Optional
<1>20. CASE ReopenFails
  BY <1>20, FrameFields DEF ReopenFails, OpenLocalFails, Return, disk, EndSwap, At, AtAny,
     Running, Connecting, OwnInv, ShapeInv, TypeOK, TypeChain, TypeUi, TypeDisk, Frame, NoFrame,
     Optional
<1>21. CASE OpenLocalRejects
  BY <1>21, FrameFields DEF OpenLocalRejects, OpenLocalFails, Return, disk, EndSwap, At, AtAny,
     Running, Connecting, OwnInv, ShapeInv, TypeOK, TypeChain, TypeUi, TypeDisk, Frame, NoFrame,
     Optional
<1>22. CASE Prepared
  BY <1>22, FrameFields DEF Prepared, Goto, Detach, CarriesAnonData, ui, disk, At, AtAny,
     Running, Connecting, OwnInv, ShapeInv, TypeOK, TypeChain, TypeUi, TypeDisk, Frame, NoFrame,
     Optional
<1>23. CASE PrepareFails
  BY <1>23, FrameFields DEF PrepareFails, Fall, Return, disk, EndSwap, Detach, Goto, At, AtAny,
     Running, Connecting, OwnInv, ShapeInv, TypeOK, TypeChain, TypeUi, TypeDisk, Frame, NoFrame,
     Optional
<1>24. CASE Collect
  BY <1>24, FrameFields DEF Collect, NothingToCollect, Goto, ui, disk, FromLocal, At, AtAny,
     Running, Connecting, OwnInv, ShapeInv, TypeOK, TypeChain, TypeUi, TypeDisk, Frame, NoFrame,
     Optional
<1>25. CASE Read
  BY <1>25, FrameFields DEF Read, Goto, ui, disk, At, AtAny, Running, Connecting, OwnInv,
     ShapeInv, TypeOK, TypeChain, TypeUi, TypeDisk, Frame, NoFrame, Optional
<1>26. CASE CollectFails
  BY <1>26, FrameFields DEF CollectFails, FromLocal, Goto, ui, disk, At, AtAny, Running,
     Connecting, OwnInv, ShapeInv, TypeOK, TypeChain, TypeUi, TypeDisk, Frame, NoFrame, Optional
<1>27. CASE OpenConnected
  BY <1>27, FrameFields DEF OpenConnected, Goto, ui, disk, At, AtAny, Running, Connecting,
     OwnInv, ShapeInv, TypeOK, TypeChain, TypeUi, TypeDisk, Frame, NoFrame, Optional
<1>28. CASE MergeAndHydrate
  BY <1>28, FrameFields DEF MergeAndHydrate, Goto, AfterHydrate, ui, holder, At, AtAny, Running,
     Connecting, OwnInv, ShapeInv, TypeOK, TypeChain, TypeUi, TypeDisk, Frame, NoFrame, Optional
<1>29. CASE SaveSeed
  BY <1>29, FrameFields DEF SaveSeed, Goto, ui, holder, At, AtAny, Running, Connecting, OwnInv,
     ShapeInv, TypeOK, TypeChain, TypeUi, TypeDisk, Frame, NoFrame, Optional
<1>30. CASE SaveRecord
  BY <1>30, FrameFields DEF SaveRecord, Goto, ui, holder, At, AtAny, Running, Connecting,
     OwnInv, ShapeInv, TypeOK, TypeChain, TypeUi, TypeDisk, Frame, NoFrame, Optional
<1>31. CASE ActivationFails
  BY <1>31, FrameFields DEF ActivationFails, Activating, Fall, Detach, ui, Goto, At, AtAny,
     Running, Connecting, OwnInv, ShapeInv, TypeOK, TypeChain, TypeUi, TypeDisk, Frame, NoFrame,
     Optional
<1>32. CASE LandBoot
  BY <1>32, FrameFields DEF LandBoot, StartSync, Return, disk, EndSwap, At, AtAny, Running,
     Connecting, OwnInv, ShapeInv, TypeOK, TypeChain, TypeUi, TypeDisk, Frame, NoFrame, Optional
<1>33. CASE LandConnect
  BY <1>33, FrameFields DEF LandConnect, StartSync, Return, EndSwap, Goto, disk, At, AtAny,
     Running, Connecting, OwnInv, ShapeInv, TypeOK, TypeChain, TypeUi, TypeDisk, Frame, NoFrame,
     Optional
<1>34. CASE DiscardAnonReplica
  BY <1>34, FrameFields DEF DiscardAnonReplica, Goto, Return, ui, EndSwap, At, AtAny, Running,
     Connecting, OwnInv, ShapeInv, TypeOK, TypeChain, TypeUi, TypeDisk, Frame, NoFrame, Optional
<1>35. CASE DropAnonSeed
  BY <1>35, FrameFields DEF DropAnonSeed, Return, ui, EndSwap, At, AtAny, Running, Connecting,
     OwnInv, ShapeInv, TypeOK, TypeChain, TypeUi, TypeDisk, Frame, NoFrame, Optional
<1>36. CASE StopForRenew
  BY <1>36, FrameFields DEF StopForRenew, BootstrapSettled, Goto, ui, disk, At, AtAny, Running,
     Connecting, OwnInv, ShapeInv, TypeOK, TypeChain, TypeUi, TypeDisk, Frame, NoFrame, Optional
<1>37. CASE LandRenew
  BY <1>37, FrameFields DEF LandRenew, StartSync, Return, disk, EndSwap, At, AtAny, Running,
     Connecting, OwnInv, ShapeInv, TypeOK, TypeChain, TypeUi, TypeDisk, Frame, NoFrame, Optional
<1>38. CASE RenewFails
  BY <1>38, FrameFields DEF RenewFails, Return, disk, EndSwap, At, AtAny, Running, Connecting,
     OwnInv, ShapeInv, TypeOK, TypeChain, TypeUi, TypeDisk, Frame, NoFrame, Optional
<1>39. CASE AuthError
  BY <1>39, FrameFields DEF AuthError, NotifyAccessExpired, holder, disk, At, AtAny, Running,
     Connecting, OwnInv, ShapeInv, TypeOK, TypeChain, TypeUi, TypeDisk, Frame, NoFrame, Optional
<1>40. CASE WatchExpiry
  BY <1>40, FrameFields DEF WatchExpiry, NearExpiry, NotifyAccessExpired, holder, disk, At,
     AtAny, Running, Connecting, OwnInv, ShapeInv, TypeOK, TypeChain, TypeUi, TypeDisk, Frame,
     NoFrame, Optional
<1>41. CASE SyncStarts
  BY <1>41, FrameFields DEF SyncStarts, BootstrapSettles, ui, disk, At, AtAny, Running,
     Connecting, OwnInv, ShapeInv, TypeOK, TypeChain, TypeUi, TypeDisk, Frame, NoFrame, Optional
<1>42. CASE SyncFails
  BY <1>42, FrameFields DEF SyncFails, BootstrapSettles, ui, disk, At, AtAny, Running,
     Connecting, OwnInv, ShapeInv, TypeOK, TypeChain, TypeUi, TypeDisk, Frame, NoFrame, Optional
<1>43. CASE Advance
  BY <1>43, FrameFields DEF Advance, ui, holder, disk, At, AtAny, Running, Connecting, OwnInv,
     ShapeInv, TypeOK, TypeChain, TypeUi, TypeDisk, Frame, NoFrame, Optional
<1>44. CASE Crash
  BY <1>44, FrameFields DEF Crash, disk, At, AtAny, Running, Connecting, OwnInv, ShapeInv,
     TypeOK, TypeChain, TypeUi, TypeDisk, Frame, NoFrame, Optional
<1>45. ASSUME NEW l \in Logins, OpenLogin(l) PROVE OwnInv'
  BY <1>45, FrameFields DEF OpenLogin, holder, disk, At, AtAny, Running, Connecting, OwnInv,
     ShapeInv, TypeOK, TypeChain, TypeUi, TypeDisk, Frame, NoFrame, Optional
<1>46. ASSUME NEW l \in Logins, VerifyLogin(l) PROVE OwnInv'
  BY <1>46, FrameFields DEF VerifyLogin, holder, disk, At, AtAny, Running, Connecting, OwnInv,
     ShapeInv, TypeOK, TypeChain, TypeUi, TypeDisk, Frame, NoFrame, Optional
<1>47. ASSUME NEW l \in Logins, FinishLogin(l) PROVE OwnInv'
  BY <1>47, FrameFields DEF FinishLogin, Answers, Enqueue, ui, holder, disk, At, AtAny, Running,
     Connecting, OwnInv, ShapeInv, TypeOK, TypeChain, TypeUi, TypeDisk, Frame, NoFrame, Optional
<1>48. ASSUME NEW l \in Logins, CancelLogin(l) PROVE OwnInv'
  BY <1>48, FrameFields DEF CancelLogin, holder, disk, At, AtAny, Running, Connecting, OwnInv,
     ShapeInv, TypeOK, TypeChain, TypeUi, TypeDisk, Frame, NoFrame, Optional
<1>49. ASSUME NEW r \in Reconnects, OpenReconnect(r) PROVE OwnInv'
  BY <1>49, FrameFields DEF OpenReconnect, Enqueue, holder, disk, At, AtAny, Running,
     Connecting, OwnInv, ShapeInv, TypeOK, TypeChain, TypeUi, TypeDisk, Frame, NoFrame, Optional
<1>50. ASSUME NEW r \in Reconnects, LeaveReconnect(r) PROVE OwnInv'
  BY <1>50, FrameFields DEF LeaveReconnect, LogoutPending, holder, disk, At, AtAny, Running,
     Connecting, OwnInv, ShapeInv, TypeOK, TypeChain, TypeUi, TypeDisk, Frame, NoFrame, Optional
<1>51. ASSUME NEW r \in Reconnects, AnswerReconnect(r) PROVE OwnInv'
  <2>1. PICK space \in Answers : chain' = Append(chain, [kind |-> "renew", did |-> recon[r].did,
             grants |-> [acct |-> recon[r].acct, space |-> space, exp |-> now + Ttl]])
    BY <1>51 DEF AnswerReconnect, Enqueue
  <2>2. recon[r].acct = recon[r].did /\ UNCHANGED <<task, step, frame, did>>
    BY <1>51 DEF AnswerReconnect, PeekedOwn, ui
  <2>3. \A i \in DOMAIN chain' : \/ i \in DOMAIN chain /\ chain'[i] = chain[i]
                                 \/ chain'[i].grants.acct = chain'[i].did
    BY <2>1, <2>2, ChainTakes DEF TypeOK, TypeChain
  <2> QED BY <2>2, <2>3 DEF OwnInv, Running
<1>52. ASSUME NEW r \in Reconnects, CancelReconnect(r) PROVE OwnInv'
  BY <1>52, FrameFields DEF CancelReconnect, holder, disk, At, AtAny, Running, Connecting,
     OwnInv, ShapeInv, TypeOK, TypeChain, TypeUi, TypeDisk, Frame, NoFrame, Optional
<1>53. ASSUME NEW t \in Calls, Call(t) PROVE OwnInv'
  BY <1>53, FrameFields DEF Call, Enqueue, ui, holder, disk, At, AtAny, Running, Connecting,
     OwnInv, ShapeInv, TypeOK, TypeChain, TypeUi, TypeDisk, Frame, NoFrame, Optional
<1>54. ASSUME NEW w \in Writes, IssueWrite(w) PROVE OwnInv'
  BY <1>54, FrameFields DEF IssueWrite, ui, holder, disk, At, AtAny, Running, Connecting,
     OwnInv, ShapeInv, TypeOK, TypeChain, TypeUi, TypeDisk, Frame, NoFrame, Optional
<1>55. ASSUME NEW w \in Writes, LandWrite(w) PROVE OwnInv'
  BY <1>55, FrameFields DEF LandWrite, ui, holder, At, AtAny, Running, Connecting, OwnInv,
     ShapeInv, TypeOK, TypeChain, TypeUi, TypeDisk, Frame, NoFrame, Optional
<1> QED BY <1>1, <1>2, <1>3, <1>4, <1>5, <1>6, <1>7, <1>8, <1>9, <1>10, <1>11, <1>12, <1>13,
       <1>14, <1>15, <1>16, <1>17, <1>18, <1>19, <1>20, <1>21, <1>22, <1>23, <1>24, <1>25, <1>26,
       <1>27, <1>28, <1>29, <1>30, <1>31, <1>32, <1>33, <1>34, <1>35, <1>36, <1>37, <1>38, <1>39,
       <1>40, <1>41, <1>42, <1>43, <1>44, <1>45, <1>46, <1>47, <1>48, <1>49, <1>50, <1>51, <1>52,
       <1>53, <1>54, <1>55 DEF Next, ChainStep, PopupStep

\* A controller and a watch live from the landing of their session to its teardown.
LEMMA SyncInvStep ==
  ASSUME NoStrandingFaults, TypeOK, ShapeInv, OpenInv, AttachInv, OwnInv, SyncInv, Next
  PROVE SyncInv'
<1> USE ConstantsOK
<1>1. CASE Begin
  BY <1>1, FrameFields, GrantsFields DEF Begin, ui, holder, disk, At, AtAny, Running,
     Connecting, SyncInv, SyncsOwnReplica, OwnInv, OpenInv, NoAnonymousSync, AttachInv, Activated,
     ShapeInv, TypeOK, TypeChain, TypeDisk, TypeUi, TypeHolder, Frame, NoFrame, Optional
<1>2. CASE NoOp
  BY <1>2, FrameFields, GrantsFields DEF NoOp, TaskIsNoOp, Return, ui, disk, EndSwap, At, AtAny,
     Running, Connecting, SyncInv, SyncsOwnReplica, OwnInv, OpenInv, NoAnonymousSync, AttachInv,
     Activated, ShapeInv, TypeOK, TypeChain, TypeDisk, TypeUi, TypeHolder, Frame, NoFrame, Optional
<1>3. CASE BootMiss
  BY <1>3, FrameFields, GrantsFields DEF BootMiss, Goto, ui, holder, At, AtAny, Running,
     Connecting, SyncInv, SyncsOwnReplica, OwnInv, OpenInv, NoAnonymousSync, AttachInv, Activated,
     ShapeInv, TypeOK, TypeChain, TypeDisk, TypeUi, TypeHolder, Frame, NoFrame, Optional
<1>4. CASE BootRestore
  BY <1>4, FrameFields, GrantsFields DEF BootRestore, Expired, Goto, ui, holder, disk, At,
     AtAny, Running, Connecting, SyncInv, SyncsOwnReplica, OwnInv, OpenInv, NoAnonymousSync,
     AttachInv, Activated, ShapeInv, TypeOK, TypeChain, TypeDisk, TypeUi, TypeHolder, Frame,
     NoFrame, Optional
<1>5. CASE BootRetriesLocal
  BY <1>5, FrameFields, GrantsFields DEF BootRetriesLocal, OpenLocalFails, Goto, ui, holder,
     disk, At, AtAny, Running, Connecting, SyncInv, SyncsOwnReplica, OwnInv, OpenInv,
     NoAnonymousSync, AttachInv, Activated, ShapeInv, TypeOK, TypeChain, TypeDisk, TypeUi,
     TypeHolder, Frame, NoFrame, Optional
<1>6. CASE BootGivesUp
  BY <1>6, FrameFields, GrantsFields DEF BootGivesUp, OpenLocalFails, Return, ui, disk, EndSwap,
     At, AtAny, Running, Connecting, SyncInv, SyncsOwnReplica, OwnInv, OpenInv, NoAnonymousSync,
     AttachInv, Activated, ShapeInv, TypeOK, TypeChain, TypeDisk, TypeUi, TypeHolder, Frame,
     NoFrame, Optional
<1>7. CASE LoginAbandoned
  BY <1>7, FrameFields, GrantsFields DEF LoginAbandoned, SameSession, Return, disk, EndSwap, At,
     AtAny, Running, Connecting, SyncInv, SyncsOwnReplica, OwnInv, OpenInv, NoAnonymousSync,
     AttachInv, Activated, ShapeInv, TypeOK, TypeChain, TypeDisk, TypeUi, TypeHolder, Frame,
     NoFrame, Optional
<1>8. CASE StartConnect
  BY <1>8, FrameFields, GrantsFields DEF StartConnect, TaskIsNoOp, SameSession, Goto, ui,
     holder, disk, At, AtAny, Running, Connecting, SyncInv, SyncsOwnReplica, OwnInv, OpenInv,
     NoAnonymousSync, AttachInv, Activated, ShapeInv, TypeOK, TypeChain, TypeDisk, TypeUi,
     TypeHolder, Frame, NoFrame, Optional
<1>9. CASE RenewDiscarded
  BY <1>9, FrameFields, GrantsFields DEF RenewDiscarded, StillToRenew, Return, disk, EndSwap,
     At, AtAny, Running, Connecting, SyncInv, SyncsOwnReplica, OwnInv, OpenInv, NoAnonymousSync,
     AttachInv, Activated, ShapeInv, TypeOK, TypeChain, TypeDisk, TypeUi, TypeHolder, Frame,
     NoFrame, Optional
<1>10. CASE StartRenew
  BY <1>10, FrameFields, GrantsFields DEF StartRenew, StillToRenew, Goto, ui, holder, disk, At,
     AtAny, Running, Connecting, SyncInv, SyncsOwnReplica, OwnInv, OpenInv, NoAnonymousSync,
     AttachInv, Activated, ShapeInv, TypeOK, TypeChain, TypeDisk, TypeUi, TypeHolder, Frame,
     NoFrame, Optional
<1>11. CASE StartTeardown
  BY <1>11, FrameFields, GrantsFields DEF StartTeardown, Detach, WipeTargets, ui, disk, Goto,
     At, AtAny, Running, Connecting, SyncInv, SyncsOwnReplica, OwnInv, OpenInv, NoAnonymousSync,
     AttachInv, Activated, ShapeInv, TypeOK, TypeChain, TypeDisk, TypeUi, TypeHolder, Frame,
     NoFrame, Optional
<1>12. CASE Drain
  BY <1>12, FrameFields, GrantsFields DEF Drain, StopAndClose, Goto, AfterDrain, ui,
     BootstrapSettled, Deletes, Erasing, At, AtAny, Running, Connecting, SyncInv, SyncsOwnReplica,
     OwnInv, OpenInv, NoAnonymousSync, AttachInv, Activated, ShapeInv, TypeOK, TypeChain, TypeDisk,
     TypeUi, TypeHolder, Frame, NoFrame, Optional
<1>13. CASE DrainDestroy
  BY <1>13, FrameFields, GrantsFields DEF DrainDestroy, StopAndClose, BootstrapSettled, Deletes,
     Erasing, At, AtAny, Running, Connecting, SyncInv, SyncsOwnReplica, OwnInv, OpenInv,
     NoAnonymousSync, AttachInv, Activated, ShapeInv, TypeOK, TypeChain, TypeDisk, TypeUi,
     TypeHolder, Frame, NoFrame, Optional
<1>14. CASE ClearAnonSeed
  BY <1>14, FrameFields, GrantsFields DEF ClearAnonSeed, Goto, Return, ui, EndSwap, At, AtAny,
     Running, Connecting, SyncInv, SyncsOwnReplica, OwnInv, OpenInv, NoAnonymousSync, AttachInv,
     Activated, ShapeInv, TypeOK, TypeChain, TypeDisk, TypeUi, TypeHolder, Frame, NoFrame, Optional
<1>15. CASE ForgetSession
  BY <1>15, FrameFields, GrantsFields DEF ForgetSession, Goto, Return, ui, EndSwap, At, AtAny,
     Running, Connecting, SyncInv, SyncsOwnReplica, OwnInv, OpenInv, NoAnonymousSync, AttachInv,
     Activated, ShapeInv, TypeOK, TypeChain, TypeDisk, TypeUi, TypeHolder, Frame, NoFrame, Optional
<1>16. CASE Wipe
  BY <1>16, FrameFields, GrantsFields DEF Wipe, Goto, ui, holder, At, AtAny, Running,
     Connecting, SyncInv, SyncsOwnReplica, OwnInv, OpenInv, NoAnonymousSync, AttachInv, Activated,
     ShapeInv, TypeOK, TypeChain, TypeDisk, TypeUi, TypeHolder, Frame, NoFrame, Optional
<1>17. CASE LoadOrCreateAnonSeed
  BY <1>17, FrameFields, GrantsFields DEF LoadOrCreateAnonSeed, Goto, ui, holder, At, AtAny,
     Running, Connecting, SyncInv, SyncsOwnReplica, OwnInv, OpenInv, NoAnonymousSync, AttachInv,
     Activated, ShapeInv, TypeOK, TypeChain, TypeDisk, TypeUi, TypeHolder, Frame, NoFrame, Optional
<1>18. CASE OpenAnon
  BY <1>18, FrameFields, GrantsFields DEF OpenAnon, Goto, ui, disk, At, AtAny, Running,
     Connecting, SyncInv, SyncsOwnReplica, OwnInv, OpenInv, NoAnonymousSync, AttachInv, Activated,
     ShapeInv, TypeOK, TypeChain, TypeDisk, TypeUi, TypeHolder, Frame, NoFrame, Optional
<1>19. CASE LandLocal
  BY <1>19, FrameFields, GrantsFields DEF LandLocal, FixturesCanRun, Return, disk, EndSwap, At,
     AtAny, Running, Connecting, SyncInv, SyncsOwnReplica, OwnInv, OpenInv, NoAnonymousSync,
     AttachInv, Activated, ShapeInv, TypeOK, TypeChain, TypeDisk, TypeUi, TypeHolder, Frame,
     NoFrame, Optional
<1>20. CASE ReopenFails
  BY <1>20, FrameFields, GrantsFields DEF ReopenFails, OpenLocalFails, Return, disk, EndSwap,
     At, AtAny, Running, Connecting, SyncInv, SyncsOwnReplica, OwnInv, OpenInv, NoAnonymousSync,
     AttachInv, Activated, ShapeInv, TypeOK, TypeChain, TypeDisk, TypeUi, TypeHolder, Frame,
     NoFrame, Optional
<1>21. CASE OpenLocalRejects
  BY <1>21, FrameFields, GrantsFields DEF OpenLocalRejects, OpenLocalFails, Return, disk,
     EndSwap, At, AtAny, Running, Connecting, SyncInv, SyncsOwnReplica, OwnInv, OpenInv,
     NoAnonymousSync, AttachInv, Activated, ShapeInv, TypeOK, TypeChain, TypeDisk, TypeUi,
     TypeHolder, Frame, NoFrame, Optional
<1>22. CASE Prepared
  BY <1>22, FrameFields, GrantsFields DEF Prepared, Goto, Detach, CarriesAnonData, ui, disk, At,
     AtAny, Running, Connecting, SyncInv, SyncsOwnReplica, OwnInv, OpenInv, NoAnonymousSync,
     AttachInv, Activated, ShapeInv, TypeOK, TypeChain, TypeDisk, TypeUi, TypeHolder, Frame,
     NoFrame, Optional
<1>23. CASE PrepareFails
  <2>1. /\ UNCHANGED <<sync, did, status>> /\ step = "prepare" /\ task # None
    BY <1>23 DEF PrepareFails, At
  <2>2. CASE Running({"boot"})
    <3>1. status = "boot" /\ sync = None /\ watch = None
      BY <2>1, <2>2 DEF AttachInv, SyncInv
    <3>2. watch' = None
      BY <1>23, <2>2 DEF PrepareFails, Fall, Detach
    <3> QED BY <2>1, <3>1, <3>2 DEF SyncInv, SyncsOwnReplica
  <2>3. CASE ~Running({"boot"})
    <3>1. watch' = watch /\ task' = None
      BY <1>23, <2>3 DEF PrepareFails, Return
    <3> QED BY <2>1, <3>1 DEF SyncInv, SyncsOwnReplica, Running, ShapeInv, AtAny
  <2> QED BY <2>2, <2>3
<1>24. CASE Collect
  BY <1>24, FrameFields, GrantsFields DEF Collect, NothingToCollect, Goto, ui, disk, FromLocal,
     At, AtAny, Running, Connecting, SyncInv, SyncsOwnReplica, OwnInv, OpenInv, NoAnonymousSync,
     AttachInv, Activated, ShapeInv, TypeOK, TypeChain, TypeDisk, TypeUi, TypeHolder, Frame,
     NoFrame, Optional
<1>25. CASE Read
  BY <1>25, FrameFields, GrantsFields DEF Read, Goto, ui, disk, At, AtAny, Running, Connecting,
     SyncInv, SyncsOwnReplica, OwnInv, OpenInv, NoAnonymousSync, AttachInv, Activated, ShapeInv,
     TypeOK, TypeChain, TypeDisk, TypeUi, TypeHolder, Frame, NoFrame, Optional
<1>26. CASE CollectFails
  BY <1>26, FrameFields, GrantsFields DEF CollectFails, FromLocal, Goto, ui, disk, At, AtAny,
     Running, Connecting, SyncInv, SyncsOwnReplica, OwnInv, OpenInv, NoAnonymousSync, AttachInv,
     Activated, ShapeInv, TypeOK, TypeChain, TypeDisk, TypeUi, TypeHolder, Frame, NoFrame, Optional
<1>27. CASE OpenConnected
  BY <1>27, FrameFields, GrantsFields DEF OpenConnected, Goto, ui, disk, At, AtAny, Running,
     Connecting, SyncInv, SyncsOwnReplica, OwnInv, OpenInv, NoAnonymousSync, AttachInv, Activated,
     ShapeInv, TypeOK, TypeChain, TypeDisk, TypeUi, TypeHolder, Frame, NoFrame, Optional
<1>28. CASE MergeAndHydrate
  BY <1>28, FrameFields, GrantsFields DEF MergeAndHydrate, Goto, AfterHydrate, ui, holder, At,
     AtAny, Running, Connecting, SyncInv, SyncsOwnReplica, OwnInv, OpenInv, NoAnonymousSync,
     AttachInv, Activated, ShapeInv, TypeOK, TypeChain, TypeDisk, TypeUi, TypeHolder, Frame,
     NoFrame, Optional
<1>29. CASE SaveSeed
  BY <1>29, FrameFields, GrantsFields DEF SaveSeed, Goto, ui, holder, At, AtAny, Running,
     Connecting, SyncInv, SyncsOwnReplica, OwnInv, OpenInv, NoAnonymousSync, AttachInv, Activated,
     ShapeInv, TypeOK, TypeChain, TypeDisk, TypeUi, TypeHolder, Frame, NoFrame, Optional
<1>30. CASE SaveRecord
  BY <1>30, FrameFields, GrantsFields DEF SaveRecord, Goto, ui, holder, At, AtAny, Running,
     Connecting, SyncInv, SyncsOwnReplica, OwnInv, OpenInv, NoAnonymousSync, AttachInv, Activated,
     ShapeInv, TypeOK, TypeChain, TypeDisk, TypeUi, TypeHolder, Frame, NoFrame, Optional
<1>31. CASE ActivationFails
  BY <1>31, FrameFields, GrantsFields DEF ActivationFails, Activating, Fall, Detach, ui, Goto,
     At, AtAny, Running, Connecting, SyncInv, SyncsOwnReplica, OwnInv, OpenInv, NoAnonymousSync,
     AttachInv, Activated, ShapeInv, TypeOK, TypeChain, TypeDisk, TypeUi, TypeHolder, Frame,
     NoFrame, Optional
<1>32. CASE LandBoot
  BY <1>32, FrameFields, GrantsFields DEF LandBoot, StartSync, Return, disk, EndSwap, At, AtAny,
     Running, Connecting, SyncInv, SyncsOwnReplica, OwnInv, OpenInv, NoAnonymousSync, AttachInv,
     Activated, ShapeInv, TypeOK, TypeChain, TypeDisk, TypeUi, TypeHolder, Frame, NoFrame, Optional
<1>33. CASE LandConnect
  BY <1>33, FrameFields, GrantsFields DEF LandConnect, StartSync, Return, EndSwap, Goto, disk,
     At, AtAny, Running, Connecting, SyncInv, SyncsOwnReplica, OwnInv, OpenInv, NoAnonymousSync,
     AttachInv, Activated, ShapeInv, TypeOK, TypeChain, TypeDisk, TypeUi, TypeHolder, Frame,
     NoFrame, Optional
<1>34. CASE DiscardAnonReplica
  BY <1>34, FrameFields, GrantsFields DEF DiscardAnonReplica, Goto, Return, ui, EndSwap, At,
     AtAny, Running, Connecting, SyncInv, SyncsOwnReplica, OwnInv, OpenInv, NoAnonymousSync,
     AttachInv, Activated, ShapeInv, TypeOK, TypeChain, TypeDisk, TypeUi, TypeHolder, Frame,
     NoFrame, Optional
<1>35. CASE DropAnonSeed
  BY <1>35, FrameFields, GrantsFields DEF DropAnonSeed, Return, ui, EndSwap, At, AtAny, Running,
     Connecting, SyncInv, SyncsOwnReplica, OwnInv, OpenInv, NoAnonymousSync, AttachInv, Activated,
     ShapeInv, TypeOK, TypeChain, TypeDisk, TypeUi, TypeHolder, Frame, NoFrame, Optional
<1>36. CASE StopForRenew
  BY <1>36, FrameFields, GrantsFields DEF StopForRenew, BootstrapSettled, Goto, ui, disk, At,
     AtAny, Running, Connecting, SyncInv, SyncsOwnReplica, OwnInv, OpenInv, NoAnonymousSync,
     AttachInv, Activated, ShapeInv, TypeOK, TypeChain, TypeDisk, TypeUi, TypeHolder, Frame,
     NoFrame, Optional
<1>37. CASE LandRenew
  BY <1>37, FrameFields, GrantsFields DEF LandRenew, StartSync, Return, disk, EndSwap, At,
     AtAny, Running, Connecting, SyncInv, SyncsOwnReplica, OwnInv, OpenInv, NoAnonymousSync,
     AttachInv, Activated, ShapeInv, TypeOK, TypeChain, TypeDisk, TypeUi, TypeHolder, Frame,
     NoFrame, Optional
<1>38. CASE RenewFails
  BY <1>38, FrameFields, GrantsFields DEF RenewFails, Return, disk, EndSwap, At, AtAny, Running,
     Connecting, SyncInv, SyncsOwnReplica, OwnInv, OpenInv, NoAnonymousSync, AttachInv, Activated,
     ShapeInv, TypeOK, TypeChain, TypeDisk, TypeUi, TypeHolder, Frame, NoFrame, Optional
<1>39. CASE AuthError
  BY <1>39, FrameFields, GrantsFields DEF AuthError, NotifyAccessExpired, holder, disk, At,
     AtAny, Running, Connecting, SyncInv, SyncsOwnReplica, OwnInv, OpenInv, NoAnonymousSync,
     AttachInv, Activated, ShapeInv, TypeOK, TypeChain, TypeDisk, TypeUi, TypeHolder, Frame,
     NoFrame, Optional
<1>40. CASE WatchExpiry
  BY <1>40, FrameFields, GrantsFields DEF WatchExpiry, NearExpiry, NotifyAccessExpired, holder,
     disk, At, AtAny, Running, Connecting, SyncInv, SyncsOwnReplica, OwnInv, OpenInv,
     NoAnonymousSync, AttachInv, Activated, ShapeInv, TypeOK, TypeChain, TypeDisk, TypeUi,
     TypeHolder, Frame, NoFrame, Optional
<1>41. CASE SyncStarts
  BY <1>41, FrameFields, GrantsFields DEF SyncStarts, BootstrapSettles, ui, disk, At, AtAny,
     Running, Connecting, SyncInv, SyncsOwnReplica, OwnInv, OpenInv, NoAnonymousSync, AttachInv,
     Activated, ShapeInv, TypeOK, TypeChain, TypeDisk, TypeUi, TypeHolder, Frame, NoFrame, Optional
<1>42. CASE SyncFails
  BY <1>42, FrameFields, GrantsFields DEF SyncFails, BootstrapSettles, ui, disk, At, AtAny,
     Running, Connecting, SyncInv, SyncsOwnReplica, OwnInv, OpenInv, NoAnonymousSync, AttachInv,
     Activated, ShapeInv, TypeOK, TypeChain, TypeDisk, TypeUi, TypeHolder, Frame, NoFrame, Optional
<1>43. CASE Advance
  BY <1>43, FrameFields, GrantsFields DEF Advance, ui, holder, disk, At, AtAny, Running,
     Connecting, SyncInv, SyncsOwnReplica, OwnInv, OpenInv, NoAnonymousSync, AttachInv, Activated,
     ShapeInv, TypeOK, TypeChain, TypeDisk, TypeUi, TypeHolder, Frame, NoFrame, Optional
<1>44. CASE Crash
  BY <1>44, FrameFields, GrantsFields DEF Crash, disk, At, AtAny, Running, Connecting, SyncInv,
     SyncsOwnReplica, OwnInv, OpenInv, NoAnonymousSync, AttachInv, Activated, ShapeInv, TypeOK,
     TypeChain, TypeDisk, TypeUi, TypeHolder, Frame, NoFrame, Optional
<1>45. ASSUME NEW l \in Logins, OpenLogin(l) PROVE SyncInv'
  BY <1>45, FrameFields, GrantsFields DEF OpenLogin, holder, disk, At, AtAny, Running,
     Connecting, SyncInv, SyncsOwnReplica, OwnInv, OpenInv, NoAnonymousSync, AttachInv, Activated,
     ShapeInv, TypeOK, TypeChain, TypeDisk, TypeUi, TypeHolder, Frame, NoFrame, Optional
<1>46. ASSUME NEW l \in Logins, VerifyLogin(l) PROVE SyncInv'
  BY <1>46, FrameFields, GrantsFields DEF VerifyLogin, holder, disk, At, AtAny, Running,
     Connecting, SyncInv, SyncsOwnReplica, OwnInv, OpenInv, NoAnonymousSync, AttachInv, Activated,
     ShapeInv, TypeOK, TypeChain, TypeDisk, TypeUi, TypeHolder, Frame, NoFrame, Optional
<1>47. ASSUME NEW l \in Logins, FinishLogin(l) PROVE SyncInv'
  BY <1>47, FrameFields, GrantsFields DEF FinishLogin, Answers, Enqueue, ui, holder, disk, At,
     AtAny, Running, Connecting, SyncInv, SyncsOwnReplica, OwnInv, OpenInv, NoAnonymousSync,
     AttachInv, Activated, ShapeInv, TypeOK, TypeChain, TypeDisk, TypeUi, TypeHolder, Frame,
     NoFrame, Optional
<1>48. ASSUME NEW l \in Logins, CancelLogin(l) PROVE SyncInv'
  BY <1>48, FrameFields, GrantsFields DEF CancelLogin, holder, disk, At, AtAny, Running,
     Connecting, SyncInv, SyncsOwnReplica, OwnInv, OpenInv, NoAnonymousSync, AttachInv, Activated,
     ShapeInv, TypeOK, TypeChain, TypeDisk, TypeUi, TypeHolder, Frame, NoFrame, Optional
<1>49. ASSUME NEW r \in Reconnects, OpenReconnect(r) PROVE SyncInv'
  BY <1>49, FrameFields, GrantsFields DEF OpenReconnect, Enqueue, holder, disk, At, AtAny,
     Running, Connecting, SyncInv, SyncsOwnReplica, OwnInv, OpenInv, NoAnonymousSync, AttachInv,
     Activated, ShapeInv, TypeOK, TypeChain, TypeDisk, TypeUi, TypeHolder, Frame, NoFrame, Optional
<1>50. ASSUME NEW r \in Reconnects, LeaveReconnect(r) PROVE SyncInv'
  BY <1>50, FrameFields, GrantsFields DEF LeaveReconnect, LogoutPending, holder, disk, At,
     AtAny, Running, Connecting, SyncInv, SyncsOwnReplica, OwnInv, OpenInv, NoAnonymousSync,
     AttachInv, Activated, ShapeInv, TypeOK, TypeChain, TypeDisk, TypeUi, TypeHolder, Frame,
     NoFrame, Optional
<1>51. ASSUME NEW r \in Reconnects, AnswerReconnect(r) PROVE SyncInv'
  BY <1>51, FrameFields, GrantsFields DEF AnswerReconnect, Answers, SameSpace, Enqueue, ui,
     holder, disk, At, AtAny, Running, Connecting, SyncInv, SyncsOwnReplica, OwnInv, OpenInv,
     NoAnonymousSync, AttachInv, Activated, ShapeInv, TypeOK, TypeChain, TypeDisk, TypeUi,
     TypeHolder, Frame, NoFrame, Optional
<1>52. ASSUME NEW r \in Reconnects, CancelReconnect(r) PROVE SyncInv'
  BY <1>52, FrameFields, GrantsFields DEF CancelReconnect, holder, disk, At, AtAny, Running,
     Connecting, SyncInv, SyncsOwnReplica, OwnInv, OpenInv, NoAnonymousSync, AttachInv, Activated,
     ShapeInv, TypeOK, TypeChain, TypeDisk, TypeUi, TypeHolder, Frame, NoFrame, Optional
<1>53. ASSUME NEW t \in Calls, Call(t) PROVE SyncInv'
  BY <1>53, FrameFields, GrantsFields DEF Call, Enqueue, ui, holder, disk, At, AtAny, Running,
     Connecting, SyncInv, SyncsOwnReplica, OwnInv, OpenInv, NoAnonymousSync, AttachInv, Activated,
     ShapeInv, TypeOK, TypeChain, TypeDisk, TypeUi, TypeHolder, Frame, NoFrame, Optional
<1>54. ASSUME NEW w \in Writes, IssueWrite(w) PROVE SyncInv'
  BY <1>54, FrameFields, GrantsFields DEF IssueWrite, ui, holder, disk, At, AtAny, Running,
     Connecting, SyncInv, SyncsOwnReplica, OwnInv, OpenInv, NoAnonymousSync, AttachInv, Activated,
     ShapeInv, TypeOK, TypeChain, TypeDisk, TypeUi, TypeHolder, Frame, NoFrame, Optional
<1>55. ASSUME NEW w \in Writes, LandWrite(w) PROVE SyncInv'
  BY <1>55, FrameFields, GrantsFields DEF LandWrite, ui, holder, At, AtAny, Running, Connecting,
     SyncInv, SyncsOwnReplica, OwnInv, OpenInv, NoAnonymousSync, AttachInv, Activated, ShapeInv,
     TypeOK, TypeChain, TypeDisk, TypeUi, TypeHolder, Frame, NoFrame, Optional
<1> QED BY <1>1, <1>2, <1>3, <1>4, <1>5, <1>6, <1>7, <1>8, <1>9, <1>10, <1>11, <1>12, <1>13,
       <1>14, <1>15, <1>16, <1>17, <1>18, <1>19, <1>20, <1>21, <1>22, <1>23, <1>24, <1>25, <1>26,
       <1>27, <1>28, <1>29, <1>30, <1>31, <1>32, <1>33, <1>34, <1>35, <1>36, <1>37, <1>38, <1>39,
       <1>40, <1>41, <1>42, <1>43, <1>44, <1>45, <1>46, <1>47, <1>48, <1>49, <1>50, <1>51, <1>52,
       <1>53, <1>54, <1>55 DEF Next, ChainStep, PopupStep

\* Grants without a space enter neither the chain nor the disk.
LEMMA GrantedInvStep ==
  ASSUME AllGranted, TypeOK, ShapeInv, GrantedInv, Next
  PROVE GrantedInv'
<1> USE ConstantsOK
<1>1. CASE Begin
  BY <1>1, FrameFields, GrantsFields DEF Begin, ui, holder, disk, At, AtAny, Running,
     Connecting, GrantedInv, Granting, ShapeInv, TypeOK, TypeChain, TypeDisk, Frame, NoFrame,
     Optional
<1>2. CASE NoOp
  BY <1>2, FrameFields, GrantsFields DEF NoOp, TaskIsNoOp, Return, ui, disk, EndSwap, At, AtAny,
     Running, Connecting, GrantedInv, Granting, ShapeInv, TypeOK, TypeChain, TypeDisk, Frame,
     NoFrame, Optional
<1>3. CASE BootMiss
  BY <1>3, FrameFields, GrantsFields DEF BootMiss, Goto, ui, holder, At, AtAny, Running,
     Connecting, GrantedInv, Granting, ShapeInv, TypeOK, TypeChain, TypeDisk, Frame, NoFrame,
     Optional
<1>4. CASE BootRestore
  BY <1>4, FrameFields, GrantsFields DEF BootRestore, Expired, Goto, ui, holder, disk, At,
     AtAny, Running, Connecting, GrantedInv, Granting, ShapeInv, TypeOK, TypeChain, TypeDisk,
     Frame, NoFrame, Optional
<1>5. CASE BootRetriesLocal
  BY <1>5, FrameFields, GrantsFields DEF BootRetriesLocal, OpenLocalFails, Goto, ui, holder,
     disk, At, AtAny, Running, Connecting, GrantedInv, Granting, ShapeInv, TypeOK, TypeChain,
     TypeDisk, Frame, NoFrame, Optional
<1>6. CASE BootGivesUp
  BY <1>6, FrameFields, GrantsFields DEF BootGivesUp, OpenLocalFails, Return, ui, disk, EndSwap,
     At, AtAny, Running, Connecting, GrantedInv, Granting, ShapeInv, TypeOK, TypeChain, TypeDisk,
     Frame, NoFrame, Optional
<1>7. CASE LoginAbandoned
  BY <1>7, FrameFields, GrantsFields DEF LoginAbandoned, SameSession, Return, disk, EndSwap, At,
     AtAny, Running, Connecting, GrantedInv, Granting, ShapeInv, TypeOK, TypeChain, TypeDisk,
     Frame, NoFrame, Optional
<1>8. CASE StartConnect
  BY <1>8, FrameFields, GrantsFields DEF StartConnect, TaskIsNoOp, SameSession, Goto, ui,
     holder, disk, At, AtAny, Running, Connecting, GrantedInv, Granting, ShapeInv, TypeOK,
     TypeChain, TypeDisk, Frame, NoFrame, Optional
<1>9. CASE RenewDiscarded
  BY <1>9, FrameFields, GrantsFields DEF RenewDiscarded, StillToRenew, Return, disk, EndSwap,
     At, AtAny, Running, Connecting, GrantedInv, Granting, ShapeInv, TypeOK, TypeChain, TypeDisk,
     Frame, NoFrame, Optional
<1>10. CASE StartRenew
  BY <1>10, FrameFields, GrantsFields DEF StartRenew, StillToRenew, Goto, ui, holder, disk, At,
     AtAny, Running, Connecting, GrantedInv, Granting, ShapeInv, TypeOK, TypeChain, TypeDisk,
     Frame, NoFrame, Optional
<1>11. CASE StartTeardown
  BY <1>11, FrameFields, GrantsFields DEF StartTeardown, Detach, WipeTargets, ui, disk, Goto,
     At, AtAny, Running, Connecting, GrantedInv, Granting, ShapeInv, TypeOK, TypeChain, TypeDisk,
     Frame, NoFrame, Optional
<1>12. CASE Drain
  BY <1>12, FrameFields, GrantsFields DEF Drain, StopAndClose, Goto, AfterDrain, ui,
     BootstrapSettled, Deletes, Erasing, At, AtAny, Running, Connecting, GrantedInv, Granting,
     ShapeInv, TypeOK, TypeChain, TypeDisk, Frame, NoFrame, Optional
<1>13. CASE DrainDestroy
  BY <1>13, FrameFields, GrantsFields DEF DrainDestroy, StopAndClose, BootstrapSettled, Deletes,
     Erasing, At, AtAny, Running, Connecting, GrantedInv, Granting, ShapeInv, TypeOK, TypeChain,
     TypeDisk, Frame, NoFrame, Optional
<1>14. CASE ClearAnonSeed
  BY <1>14, FrameFields, GrantsFields DEF ClearAnonSeed, Goto, Return, ui, EndSwap, At, AtAny,
     Running, Connecting, GrantedInv, Granting, ShapeInv, TypeOK, TypeChain, TypeDisk, Frame,
     NoFrame, Optional
<1>15. CASE ForgetSession
  BY <1>15, FrameFields, GrantsFields DEF ForgetSession, Goto, Return, ui, EndSwap, At, AtAny,
     Running, Connecting, GrantedInv, Granting, ShapeInv, TypeOK, TypeChain, TypeDisk, Frame,
     NoFrame, Optional
<1>16. CASE Wipe
  BY <1>16, FrameFields, GrantsFields DEF Wipe, Goto, ui, holder, At, AtAny, Running,
     Connecting, GrantedInv, Granting, ShapeInv, TypeOK, TypeChain, TypeDisk, Frame, NoFrame,
     Optional
<1>17. CASE LoadOrCreateAnonSeed
  BY <1>17, FrameFields, GrantsFields DEF LoadOrCreateAnonSeed, Goto, ui, holder, At, AtAny,
     Running, Connecting, GrantedInv, Granting, ShapeInv, TypeOK, TypeChain, TypeDisk, Frame,
     NoFrame, Optional
<1>18. CASE OpenAnon
  BY <1>18, FrameFields, GrantsFields DEF OpenAnon, Goto, ui, disk, At, AtAny, Running,
     Connecting, GrantedInv, Granting, ShapeInv, TypeOK, TypeChain, TypeDisk, Frame, NoFrame,
     Optional
<1>19. CASE LandLocal
  BY <1>19, FrameFields, GrantsFields DEF LandLocal, FixturesCanRun, Return, disk, EndSwap, At,
     AtAny, Running, Connecting, GrantedInv, Granting, ShapeInv, TypeOK, TypeChain, TypeDisk,
     Frame, NoFrame, Optional
<1>20. CASE ReopenFails
  BY <1>20, FrameFields, GrantsFields DEF ReopenFails, OpenLocalFails, Return, disk, EndSwap,
     At, AtAny, Running, Connecting, GrantedInv, Granting, ShapeInv, TypeOK, TypeChain, TypeDisk,
     Frame, NoFrame, Optional
<1>21. CASE OpenLocalRejects
  BY <1>21, FrameFields, GrantsFields DEF OpenLocalRejects, OpenLocalFails, Return, disk,
     EndSwap, At, AtAny, Running, Connecting, GrantedInv, Granting, ShapeInv, TypeOK, TypeChain,
     TypeDisk, Frame, NoFrame, Optional
<1>22. CASE Prepared
  BY <1>22, FrameFields, GrantsFields DEF Prepared, Goto, Detach, CarriesAnonData, ui, disk, At,
     AtAny, Running, Connecting, GrantedInv, Granting, ShapeInv, TypeOK, TypeChain, TypeDisk,
     Frame, NoFrame, Optional
<1>23. CASE PrepareFails
  <2>1. UNCHANGED <<record, chain>>
    BY <1>23 DEF PrepareFails, Fall, Detach, Goto, Return, disk
  <2>2. CASE Running({"boot"})
    <3>1. frame'.grants = frame.grants /\ task' = task
      BY <1>23, <2>2, Falls
    <3> QED BY <2>1, <2>2, <3>1 DEF GrantedInv, Granting, Running
  <2>3. CASE ~Running({"boot"})
    <3>1. frame' = NoFrame /\ task' = None
      BY <1>23, <2>3 DEF PrepareFails, Return
    <3> QED BY <2>1, <3>1 DEF GrantedInv, NoFrame, Running
  <2> QED BY <2>2, <2>3
<1>24. CASE Collect
  BY <1>24, FrameFields, GrantsFields DEF Collect, NothingToCollect, Goto, ui, disk, FromLocal,
     At, AtAny, Running, Connecting, GrantedInv, Granting, ShapeInv, TypeOK, TypeChain, TypeDisk,
     Frame, NoFrame, Optional
<1>25. CASE Read
  BY <1>25, FrameFields, GrantsFields DEF Read, Goto, ui, disk, At, AtAny, Running, Connecting,
     GrantedInv, Granting, ShapeInv, TypeOK, TypeChain, TypeDisk, Frame, NoFrame, Optional
<1>26. CASE CollectFails
  BY <1>26, FrameFields, GrantsFields DEF CollectFails, FromLocal, Goto, ui, disk, At, AtAny,
     Running, Connecting, GrantedInv, Granting, ShapeInv, TypeOK, TypeChain, TypeDisk, Frame,
     NoFrame, Optional
<1>27. CASE OpenConnected
  BY <1>27, FrameFields, GrantsFields DEF OpenConnected, Goto, ui, disk, At, AtAny, Running,
     Connecting, GrantedInv, Granting, ShapeInv, TypeOK, TypeChain, TypeDisk, Frame, NoFrame,
     Optional
<1>28. CASE MergeAndHydrate
  BY <1>28, FrameFields, GrantsFields DEF MergeAndHydrate, Goto, AfterHydrate, ui, holder, At,
     AtAny, Running, Connecting, GrantedInv, Granting, ShapeInv, TypeOK, TypeChain, TypeDisk,
     Frame, NoFrame, Optional
<1>29. CASE SaveSeed
  BY <1>29, FrameFields, GrantsFields DEF SaveSeed, Goto, ui, holder, At, AtAny, Running,
     Connecting, GrantedInv, Granting, ShapeInv, TypeOK, TypeChain, TypeDisk, Frame, NoFrame,
     Optional
<1>30. CASE SaveRecord
  BY <1>30, FrameFields, GrantsFields DEF SaveRecord, Goto, ui, holder, At, AtAny, Running,
     Connecting, GrantedInv, Granting, ShapeInv, TypeOK, TypeChain, TypeDisk, Frame, NoFrame,
     Optional
<1>31. CASE ActivationFails
  BY <1>31, FrameFields, GrantsFields DEF ActivationFails, Activating, Fall, Detach, ui, Goto,
     At, AtAny, Running, Connecting, GrantedInv, Granting, ShapeInv, TypeOK, TypeChain, TypeDisk,
     Frame, NoFrame, Optional
<1>32. CASE LandBoot
  BY <1>32, FrameFields, GrantsFields DEF LandBoot, StartSync, Return, disk, EndSwap, At, AtAny,
     Running, Connecting, GrantedInv, Granting, ShapeInv, TypeOK, TypeChain, TypeDisk, Frame,
     NoFrame, Optional
<1>33. CASE LandConnect
  BY <1>33, FrameFields, GrantsFields DEF LandConnect, StartSync, Return, EndSwap, Goto, disk,
     At, AtAny, Running, Connecting, GrantedInv, Granting, ShapeInv, TypeOK, TypeChain, TypeDisk,
     Frame, NoFrame, Optional
<1>34. CASE DiscardAnonReplica
  BY <1>34, FrameFields, GrantsFields DEF DiscardAnonReplica, Goto, Return, ui, EndSwap, At,
     AtAny, Running, Connecting, GrantedInv, Granting, ShapeInv, TypeOK, TypeChain, TypeDisk,
     Frame, NoFrame, Optional
<1>35. CASE DropAnonSeed
  BY <1>35, FrameFields, GrantsFields DEF DropAnonSeed, Return, ui, EndSwap, At, AtAny, Running,
     Connecting, GrantedInv, Granting, ShapeInv, TypeOK, TypeChain, TypeDisk, Frame, NoFrame,
     Optional
<1>36. CASE StopForRenew
  BY <1>36, FrameFields, GrantsFields DEF StopForRenew, BootstrapSettled, Goto, ui, disk, At,
     AtAny, Running, Connecting, GrantedInv, Granting, ShapeInv, TypeOK, TypeChain, TypeDisk,
     Frame, NoFrame, Optional
<1>37. CASE LandRenew
  BY <1>37, FrameFields, GrantsFields DEF LandRenew, StartSync, Return, disk, EndSwap, At,
     AtAny, Running, Connecting, GrantedInv, Granting, ShapeInv, TypeOK, TypeChain, TypeDisk,
     Frame, NoFrame, Optional
<1>38. CASE RenewFails
  BY <1>38, FrameFields, GrantsFields DEF RenewFails, Return, disk, EndSwap, At, AtAny, Running,
     Connecting, GrantedInv, Granting, ShapeInv, TypeOK, TypeChain, TypeDisk, Frame, NoFrame,
     Optional
<1>39. CASE AuthError
  BY <1>39, FrameFields, GrantsFields DEF AuthError, NotifyAccessExpired, holder, disk, At,
     AtAny, Running, Connecting, GrantedInv, Granting, ShapeInv, TypeOK, TypeChain, TypeDisk,
     Frame, NoFrame, Optional
<1>40. CASE WatchExpiry
  BY <1>40, FrameFields, GrantsFields DEF WatchExpiry, NearExpiry, NotifyAccessExpired, holder,
     disk, At, AtAny, Running, Connecting, GrantedInv, Granting, ShapeInv, TypeOK, TypeChain,
     TypeDisk, Frame, NoFrame, Optional
<1>41. CASE SyncStarts
  BY <1>41, FrameFields, GrantsFields DEF SyncStarts, BootstrapSettles, ui, disk, At, AtAny,
     Running, Connecting, GrantedInv, Granting, ShapeInv, TypeOK, TypeChain, TypeDisk, Frame,
     NoFrame, Optional
<1>42. CASE SyncFails
  BY <1>42, FrameFields, GrantsFields DEF SyncFails, BootstrapSettles, ui, disk, At, AtAny,
     Running, Connecting, GrantedInv, Granting, ShapeInv, TypeOK, TypeChain, TypeDisk, Frame,
     NoFrame, Optional
<1>43. CASE Advance
  BY <1>43, FrameFields, GrantsFields DEF Advance, ui, holder, disk, At, AtAny, Running,
     Connecting, GrantedInv, Granting, ShapeInv, TypeOK, TypeChain, TypeDisk, Frame, NoFrame,
     Optional
<1>44. CASE Crash
  BY <1>44, FrameFields, GrantsFields DEF Crash, disk, At, AtAny, Running, Connecting,
     GrantedInv, Granting, ShapeInv, TypeOK, TypeChain, TypeDisk, Frame, NoFrame, Optional
<1>45. ASSUME NEW l \in Logins, OpenLogin(l) PROVE GrantedInv'
  BY <1>45, FrameFields, GrantsFields DEF OpenLogin, holder, disk, At, AtAny, Running,
     Connecting, GrantedInv, Granting, ShapeInv, TypeOK, TypeChain, TypeDisk, Frame, NoFrame,
     Optional
<1>46. ASSUME NEW l \in Logins, VerifyLogin(l) PROVE GrantedInv'
  BY <1>46, FrameFields, GrantsFields DEF VerifyLogin, holder, disk, At, AtAny, Running,
     Connecting, GrantedInv, Granting, ShapeInv, TypeOK, TypeChain, TypeDisk, Frame, NoFrame,
     Optional
<1>47. ASSUME NEW l \in Logins, FinishLogin(l) PROVE GrantedInv'
  <2>1. PICK acct \in Accounts, space \in Answers : chain' = Append(chain, [kind |-> "login", who |-> l, merge |-> login[l].merge,
             status |-> login[l].status, did |-> login[l].did,
             grants |-> [acct |-> acct, space |-> space, exp |-> now + Ttl]])
    BY <1>47 DEF FinishLogin, Enqueue
  <2>2. UNCHANGED <<task, step, frame, record>>
    BY <1>47 DEF FinishLogin, disk
  <2>3. space # None
    BY ConstantsOK DEF AllGranted, Answers
  <2>4. \A i \in DOMAIN chain' : \/ i \in DOMAIN chain /\ chain'[i] = chain[i]
                                 \/ chain'[i].grants.space # None
    BY <2>1, <2>3, ChainTakes DEF TypeOK, TypeChain
  <2> QED BY <2>2, <2>4 DEF GrantedInv, Running
<1>48. ASSUME NEW l \in Logins, CancelLogin(l) PROVE GrantedInv'
  BY <1>48, FrameFields, GrantsFields DEF CancelLogin, holder, disk, At, AtAny, Running,
     Connecting, GrantedInv, Granting, ShapeInv, TypeOK, TypeChain, TypeDisk, Frame, NoFrame,
     Optional
<1>49. ASSUME NEW r \in Reconnects, OpenReconnect(r) PROVE GrantedInv'
  BY <1>49, FrameFields, GrantsFields DEF OpenReconnect, Enqueue, holder, disk, At, AtAny,
     Running, Connecting, GrantedInv, Granting, ShapeInv, TypeOK, TypeChain, TypeDisk, Frame,
     NoFrame, Optional
<1>50. ASSUME NEW r \in Reconnects, LeaveReconnect(r) PROVE GrantedInv'
  BY <1>50, FrameFields, GrantsFields DEF LeaveReconnect, LogoutPending, holder, disk, At,
     AtAny, Running, Connecting, GrantedInv, Granting, ShapeInv, TypeOK, TypeChain, TypeDisk,
     Frame, NoFrame, Optional
<1>51. ASSUME NEW r \in Reconnects, AnswerReconnect(r) PROVE GrantedInv'
  <2>1. PICK space \in Answers : chain' = Append(chain, [kind |-> "renew", did |-> recon[r].did,
             grants |-> [acct |-> recon[r].acct, space |-> space, exp |-> now + Ttl]])
    BY <1>51 DEF AnswerReconnect, Enqueue
  <2>2. UNCHANGED <<task, step, frame, record>>
    BY <1>51 DEF AnswerReconnect, disk
  <2>3. space # None
    BY ConstantsOK DEF AllGranted, Answers
  <2>4. \A i \in DOMAIN chain' : \/ i \in DOMAIN chain /\ chain'[i] = chain[i]
                                 \/ chain'[i].grants.space # None
    BY <2>1, <2>3, ChainTakes DEF TypeOK, TypeChain
  <2> QED BY <2>2, <2>4 DEF GrantedInv, Running
<1>52. ASSUME NEW r \in Reconnects, CancelReconnect(r) PROVE GrantedInv'
  BY <1>52, FrameFields, GrantsFields DEF CancelReconnect, holder, disk, At, AtAny, Running,
     Connecting, GrantedInv, Granting, ShapeInv, TypeOK, TypeChain, TypeDisk, Frame, NoFrame,
     Optional
<1>53. ASSUME NEW t \in Calls, Call(t) PROVE GrantedInv'
  <2>1. chain' = Append(chain, t) /\ UNCHANGED <<task, step, frame, record>>
    BY <1>53 DEF Call, Enqueue, disk
  <2>2. t.kind \in Granting => t.grants.space # None
    BY <1>53, ConstantsOK DEF AllGranted, Granting
  <2>3. \A i \in DOMAIN chain' : chain'[i] = t \/ (i \in DOMAIN chain /\ chain'[i] = chain[i])
    BY <2>1, ChainTakes DEF TypeOK, TypeChain
  <2> QED BY <2>1, <2>2, <2>3 DEF GrantedInv, Running
<1>54. ASSUME NEW w \in Writes, IssueWrite(w) PROVE GrantedInv'
  BY <1>54, FrameFields, GrantsFields DEF IssueWrite, ui, holder, disk, At, AtAny, Running,
     Connecting, GrantedInv, Granting, ShapeInv, TypeOK, TypeChain, TypeDisk, Frame, NoFrame,
     Optional
<1>55. ASSUME NEW w \in Writes, LandWrite(w) PROVE GrantedInv'
  BY <1>55, FrameFields, GrantsFields DEF LandWrite, ui, holder, At, AtAny, Running, Connecting,
     GrantedInv, Granting, ShapeInv, TypeOK, TypeChain, TypeDisk, Frame, NoFrame, Optional
<1> QED BY <1>1, <1>2, <1>3, <1>4, <1>5, <1>6, <1>7, <1>8, <1>9, <1>10, <1>11, <1>12, <1>13,
       <1>14, <1>15, <1>16, <1>17, <1>18, <1>19, <1>20, <1>21, <1>22, <1>23, <1>24, <1>25, <1>26,
       <1>27, <1>28, <1>29, <1>30, <1>31, <1>32, <1>33, <1>34, <1>35, <1>36, <1>37, <1>38, <1>39,
       <1>40, <1>41, <1>42, <1>43, <1>44, <1>45, <1>46, <1>47, <1>48, <1>49, <1>50, <1>51, <1>52,
       <1>53, <1>54, <1>55 DEF Next, ChainStep, PopupStep

\* The persisted session is the connected one, or the one an activation is about to land.
LEMMA RecordInvStep ==
  ASSUME NoStrandingFaults, TypeOK, ShapeInv, OpenInv, AttachInv, OwnInv, GrantedInv, RecordInv, Next
  PROVE RecordInv'
<1> USE ConstantsOK
<1>1. CASE Begin
  BY <1>1, FrameFields, GrantsFields DEF Begin, ui, holder, disk, At, AtAny, Running,
     Connecting, RecordInv, NoStrandingFaults, OwnInv, GrantedInv, Granting, OpenInv, AttachInv,
     Activated, ShapeInv, TypeOK, TypeChain, TypeDisk, TypeUi, Frame, NoFrame, Optional
<1>2. CASE NoOp
  BY <1>2, FrameFields, GrantsFields DEF NoOp, TaskIsNoOp, Return, ui, disk, EndSwap, At, AtAny,
     Running, Connecting, RecordInv, NoStrandingFaults, OwnInv, GrantedInv, Granting, OpenInv,
     AttachInv, Activated, ShapeInv, TypeOK, TypeChain, TypeDisk, TypeUi, Frame, NoFrame, Optional
<1>3. CASE BootMiss
  BY <1>3, FrameFields, GrantsFields DEF BootMiss, Goto, ui, holder, At, AtAny, Running,
     Connecting, RecordInv, NoStrandingFaults, OwnInv, GrantedInv, Granting, OpenInv, AttachInv,
     Activated, ShapeInv, TypeOK, TypeChain, TypeDisk, TypeUi, Frame, NoFrame, Optional
<1>4. CASE BootRestore
  BY <1>4, FrameFields, GrantsFields DEF BootRestore, Expired, Goto, ui, holder, disk, At,
     AtAny, Running, Connecting, RecordInv, NoStrandingFaults, OwnInv, GrantedInv, Granting,
     OpenInv, AttachInv, Activated, ShapeInv, TypeOK, TypeChain, TypeDisk, TypeUi, Frame, NoFrame,
     Optional
<1>5. CASE BootRetriesLocal
  BY <1>5, FrameFields, GrantsFields DEF BootRetriesLocal, OpenLocalFails, Fail, Goto, ui,
     holder, disk, At, AtAny, Running, Connecting, RecordInv, NoStrandingFaults, OwnInv,
     GrantedInv, Granting, OpenInv, AttachInv, Activated, ShapeInv, TypeOK, TypeChain, TypeDisk,
     TypeUi, Frame, NoFrame, Optional
<1>6. CASE BootGivesUp
  BY <1>6, FrameFields, GrantsFields DEF BootGivesUp, OpenLocalFails, Fail, Return, ui, disk,
     EndSwap, At, AtAny, Running, Connecting, RecordInv, NoStrandingFaults, OwnInv, GrantedInv,
     Granting, OpenInv, AttachInv, Activated, ShapeInv, TypeOK, TypeChain, TypeDisk, TypeUi, Frame,
     NoFrame, Optional
<1>7. CASE LoginAbandoned
  BY <1>7, FrameFields, GrantsFields DEF LoginAbandoned, SameSession, Return, disk, EndSwap, At,
     AtAny, Running, Connecting, RecordInv, NoStrandingFaults, OwnInv, GrantedInv, Granting,
     OpenInv, AttachInv, Activated, ShapeInv, TypeOK, TypeChain, TypeDisk, TypeUi, Frame, NoFrame,
     Optional
<1>8. CASE StartConnect
  BY <1>8, FrameFields, GrantsFields DEF StartConnect, TaskIsNoOp, SameSession, Goto, ui,
     holder, disk, At, AtAny, Running, Connecting, RecordInv, NoStrandingFaults, OwnInv,
     GrantedInv, Granting, OpenInv, AttachInv, Activated, ShapeInv, TypeOK, TypeChain, TypeDisk,
     TypeUi, Frame, NoFrame, Optional
<1>9. CASE RenewDiscarded
  BY <1>9, FrameFields, GrantsFields DEF RenewDiscarded, StillToRenew, Return, disk, EndSwap,
     At, AtAny, Running, Connecting, RecordInv, NoStrandingFaults, OwnInv, GrantedInv, Granting,
     OpenInv, AttachInv, Activated, ShapeInv, TypeOK, TypeChain, TypeDisk, TypeUi, Frame, NoFrame,
     Optional
<1>10. CASE StartRenew
  BY <1>10, FrameFields, GrantsFields DEF StartRenew, StillToRenew, Goto, ui, holder, disk, At,
     AtAny, Running, Connecting, RecordInv, NoStrandingFaults, OwnInv, GrantedInv, Granting,
     OpenInv, AttachInv, Activated, ShapeInv, TypeOK, TypeChain, TypeDisk, TypeUi, Frame, NoFrame,
     Optional
<1>11. CASE StartTeardown
  BY <1>11, FrameFields, GrantsFields DEF StartTeardown, Detach, WipeTargets, ui, disk, Goto,
     At, AtAny, Running, Connecting, RecordInv, NoStrandingFaults, OwnInv, GrantedInv, Granting,
     OpenInv, AttachInv, Activated, ShapeInv, TypeOK, TypeChain, TypeDisk, TypeUi, Frame, NoFrame,
     Optional
<1>12. CASE Drain
  BY <1>12, FrameFields, GrantsFields DEF Drain, StopAndClose, Goto, AfterDrain, ui,
     BootstrapSettled, Deletes, Fail, Erasing, At, AtAny, Running, Connecting, RecordInv,
     NoStrandingFaults, OwnInv, GrantedInv, Granting, OpenInv, AttachInv, Activated, ShapeInv,
     TypeOK, TypeChain, TypeDisk, TypeUi, Frame, NoFrame, Optional
<1>13. CASE DrainDestroy
  BY <1>13, FrameFields, GrantsFields DEF DrainDestroy, StopAndClose, BootstrapSettled, Deletes,
     Fail, Erasing, At, AtAny, Running, Connecting, RecordInv, NoStrandingFaults, OwnInv,
     GrantedInv, Granting, OpenInv, AttachInv, Activated, ShapeInv, TypeOK, TypeChain, TypeDisk,
     TypeUi, Frame, NoFrame, Optional
<1>14. CASE ClearAnonSeed
  BY <1>14, FrameFields, GrantsFields DEF ClearAnonSeed, Goto, Fail, Return, ui, EndSwap, At,
     AtAny, Running, Connecting, RecordInv, NoStrandingFaults, OwnInv, GrantedInv, Granting,
     OpenInv, AttachInv, Activated, ShapeInv, TypeOK, TypeChain, TypeDisk, TypeUi, Frame, NoFrame,
     Optional
<1>15. CASE ForgetSession
  BY <1>15, FrameFields, GrantsFields DEF ForgetSession, Goto, Fail, Return, ui, EndSwap, At,
     AtAny, Running, Connecting, RecordInv, NoStrandingFaults, OwnInv, GrantedInv, Granting,
     OpenInv, AttachInv, Activated, ShapeInv, TypeOK, TypeChain, TypeDisk, TypeUi, Frame, NoFrame,
     Optional
<1>16. CASE Wipe
  BY <1>16, FrameFields, GrantsFields DEF Wipe, Fail, Goto, ui, holder, At, AtAny, Running,
     Connecting, RecordInv, NoStrandingFaults, OwnInv, GrantedInv, Granting, OpenInv, AttachInv,
     Activated, ShapeInv, TypeOK, TypeChain, TypeDisk, TypeUi, Frame, NoFrame, Optional
<1>17. CASE LoadOrCreateAnonSeed
  BY <1>17, FrameFields, GrantsFields DEF LoadOrCreateAnonSeed, Goto, ui, holder, At, AtAny,
     Running, Connecting, RecordInv, NoStrandingFaults, OwnInv, GrantedInv, Granting, OpenInv,
     AttachInv, Activated, ShapeInv, TypeOK, TypeChain, TypeDisk, TypeUi, Frame, NoFrame, Optional
<1>18. CASE OpenAnon
  BY <1>18, FrameFields, GrantsFields DEF OpenAnon, Goto, ui, disk, At, AtAny, Running,
     Connecting, RecordInv, NoStrandingFaults, OwnInv, GrantedInv, Granting, OpenInv, AttachInv,
     Activated, ShapeInv, TypeOK, TypeChain, TypeDisk, TypeUi, Frame, NoFrame, Optional
<1>19. CASE LandLocal
  BY <1>19, FrameFields, GrantsFields DEF LandLocal, FixturesCanRun, Return, disk, EndSwap, At,
     AtAny, Running, Connecting, RecordInv, NoStrandingFaults, OwnInv, GrantedInv, Granting,
     OpenInv, AttachInv, Activated, ShapeInv, TypeOK, TypeChain, TypeDisk, TypeUi, Frame, NoFrame,
     Optional
<1>20. CASE ReopenFails
  BY <1>20, FrameFields, GrantsFields DEF ReopenFails, OpenLocalFails, Fail, Return, disk,
     EndSwap, At, AtAny, Running, Connecting, RecordInv, NoStrandingFaults, OwnInv, GrantedInv,
     Granting, OpenInv, AttachInv, Activated, ShapeInv, TypeOK, TypeChain, TypeDisk, TypeUi, Frame,
     NoFrame, Optional
<1>21. CASE OpenLocalRejects
  BY <1>21, FrameFields, GrantsFields DEF OpenLocalRejects, OpenLocalFails, Fail, Return, disk,
     EndSwap, At, AtAny, Running, Connecting, RecordInv, NoStrandingFaults, OwnInv, GrantedInv,
     Granting, OpenInv, AttachInv, Activated, ShapeInv, TypeOK, TypeChain, TypeDisk, TypeUi, Frame,
     NoFrame, Optional
<1>22. CASE Prepared
  BY <1>22, FrameFields, GrantsFields DEF Prepared, Goto, Detach, CarriesAnonData, ui, disk, At,
     AtAny, Running, Connecting, RecordInv, NoStrandingFaults, OwnInv, GrantedInv, Granting,
     OpenInv, AttachInv, Activated, ShapeInv, TypeOK, TypeChain, TypeDisk, TypeUi, Frame, NoFrame,
     Optional
<1>23. CASE PrepareFails
  BY <1>23, FrameFields, GrantsFields DEF PrepareFails, Fail, Fall, Return, disk, EndSwap,
     Detach, Goto, At, AtAny, Running, Connecting, RecordInv, NoStrandingFaults, OwnInv,
     GrantedInv, Granting, OpenInv, AttachInv, Activated, ShapeInv, TypeOK, TypeChain, TypeDisk,
     TypeUi, Frame, NoFrame, Optional
<1>24. CASE Collect
  BY <1>24, FrameFields, GrantsFields DEF Collect, NothingToCollect, Goto, ui, disk, FromLocal,
     At, AtAny, Running, Connecting, RecordInv, NoStrandingFaults, OwnInv, GrantedInv, Granting,
     OpenInv, AttachInv, Activated, ShapeInv, TypeOK, TypeChain, TypeDisk, TypeUi, Frame, NoFrame,
     Optional
<1>25. CASE Read
  BY <1>25, FrameFields, GrantsFields DEF Read, Goto, ui, disk, At, AtAny, Running, Connecting,
     RecordInv, NoStrandingFaults, OwnInv, GrantedInv, Granting, OpenInv, AttachInv, Activated,
     ShapeInv, TypeOK, TypeChain, TypeDisk, TypeUi, Frame, NoFrame, Optional
<1>26. CASE CollectFails
  BY <1>26, FrameFields, GrantsFields DEF CollectFails, FromLocal, Fail, Goto, ui, disk, At,
     AtAny, Running, Connecting, RecordInv, NoStrandingFaults, OwnInv, GrantedInv, Granting,
     OpenInv, AttachInv, Activated, ShapeInv, TypeOK, TypeChain, TypeDisk, TypeUi, Frame, NoFrame,
     Optional
<1>27. CASE OpenConnected
  BY <1>27, FrameFields, GrantsFields DEF OpenConnected, Goto, ui, disk, At, AtAny, Running,
     Connecting, RecordInv, NoStrandingFaults, OwnInv, GrantedInv, Granting, OpenInv, AttachInv,
     Activated, ShapeInv, TypeOK, TypeChain, TypeDisk, TypeUi, Frame, NoFrame, Optional
<1>28. CASE MergeAndHydrate
  <2>1. /\ UNCHANGED <<status, did, expires, record, sessSeed, task, frame>> /\ step = "hydrate"
        /\ task # None /\ step' = AfterHydrate
    BY <1>28 DEF MergeAndHydrate, Goto, ui, At
  <2>2. Running({"boot"}) => record = frame.grants /\ sessSeed = frame.grants.acct
    BY <2>1 DEF RecordInv, AtAny
  <2>3. ~Running({"boot"}) => AfterHydrate = "saveSeed"
    BY <2>1 DEF AfterHydrate, GrantedInv, ShapeInv, At, AtAny, Grants
  <2>4. AfterHydrate \in {"land", "saveSeed"} /\ ~Running({"renew"})
    BY <2>1 DEF AfterHydrate, ShapeInv, AtAny, Running
  <2> QED BY <2>1, <2>2, <2>3, <2>4 DEF RecordInv, At, AtAny, Running
<1>29. CASE SaveSeed
  BY <1>29, FrameFields, GrantsFields DEF SaveSeed, Goto, ui, holder, At, AtAny, Running,
     Connecting, RecordInv, NoStrandingFaults, OwnInv, GrantedInv, Granting, OpenInv, AttachInv,
     Activated, ShapeInv, TypeOK, TypeChain, TypeDisk, TypeUi, Frame, NoFrame, Optional
<1>30. CASE SaveRecord
  BY <1>30, FrameFields, GrantsFields DEF SaveRecord, Goto, ui, holder, At, AtAny, Running,
     Connecting, RecordInv, NoStrandingFaults, OwnInv, GrantedInv, Granting, OpenInv, AttachInv,
     Activated, ShapeInv, TypeOK, TypeChain, TypeDisk, TypeUi, Frame, NoFrame, Optional
<1>31. CASE ActivationFails
  BY <1>31, FrameFields, GrantsFields DEF ActivationFails, Activating, Fail, Fall, Detach, ui,
     Goto, At, AtAny, Running, Connecting, RecordInv, NoStrandingFaults, OwnInv, GrantedInv,
     Granting, OpenInv, AttachInv, Activated, ShapeInv, TypeOK, TypeChain, TypeDisk, TypeUi, Frame,
     NoFrame, Optional
<1>32. CASE LandBoot
  <2>1. /\ UNCHANGED <<record, sessSeed>> /\ task' = None /\ step = "land" /\ task # None
        /\ did' = frame.grants.acct /\ expires' = frame.grants.exp
    BY <1>32 DEF LandBoot, Return, disk, At
  <2>2. record = frame.grants /\ sessSeed = frame.grants.acct /\ frame.grants # None
    BY <2>1, GrantsFields DEF RecordInv, ShapeInv, At, AtAny, TypeOK, TypeDisk
  <2> QED BY <2>1, <2>2 DEF RecordInv, At, AtAny, Running
<1>33. CASE LandConnect
  <2>1. /\ UNCHANGED <<record, sessSeed>> /\ step = "land" /\ task # None
        /\ did' = frame.grants.acct /\ expires' = frame.grants.exp /\ Connecting
        /\ task' = None \/ (task' = task /\ step' = "discard")
    BY <1>33 DEF LandConnect, Return, Goto, disk, At
  <2>2. record = frame.grants /\ sessSeed = frame.grants.acct /\ frame.grants # None
    BY <2>1 DEF RecordInv, ShapeInv, At, AtAny
  <2> QED BY <2>1, <2>2 DEF RecordInv, At, AtAny, Running, Connecting
<1>34. CASE DiscardAnonReplica
  BY <1>34, FrameFields, GrantsFields DEF DiscardAnonReplica, Goto, Fail, Return, ui, EndSwap,
     At, AtAny, Running, Connecting, RecordInv, NoStrandingFaults, OwnInv, GrantedInv, Granting,
     OpenInv, AttachInv, Activated, ShapeInv, TypeOK, TypeChain, TypeDisk, TypeUi, Frame, NoFrame,
     Optional
<1>35. CASE DropAnonSeed
  BY <1>35, FrameFields, GrantsFields DEF DropAnonSeed, Fail, Return, ui, EndSwap, At, AtAny,
     Running, Connecting, RecordInv, NoStrandingFaults, OwnInv, GrantedInv, Granting, OpenInv,
     AttachInv, Activated, ShapeInv, TypeOK, TypeChain, TypeDisk, TypeUi, Frame, NoFrame, Optional
<1>36. CASE StopForRenew
  <2>1. /\ UNCHANGED <<status, did, expires, record, sessSeed, task, frame>> /\ step = "stop"
        /\ task # None /\ step' = "saveSeed"
    BY <1>36 DEF StopForRenew, Goto, ui, disk, At, AtAny, GrantedInv, ShapeInv, Grants
  <2>2. Running({"renew"})
    BY <2>1 DEF ShapeInv, At
  <2> QED BY <2>1, <2>2 DEF RecordInv, At, AtAny, Running
<1>37. CASE LandRenew
  <2>1. /\ UNCHANGED <<record, sessSeed, did>> /\ task' = None /\ step = "land" /\ task # None
        /\ expires' = frame.grants.exp /\ Running({"renew"})
    BY <1>37 DEF LandRenew, Return, disk, At
  <2>2. record = frame.grants /\ sessSeed = frame.grants.acct /\ frame.grants # None
    BY <2>1 DEF RecordInv, ShapeInv, At, AtAny
  <2>3. frame.grants.acct = did
    BY <2>1 DEF OwnInv
  <2> QED BY <2>1, <2>2, <2>3 DEF RecordInv, At, AtAny, Running
<1>38. CASE RenewFails
  BY <1>38, FrameFields, GrantsFields DEF RenewFails, Fail, Return, disk, EndSwap, At, AtAny,
     Running, Connecting, RecordInv, NoStrandingFaults, OwnInv, GrantedInv, Granting, OpenInv,
     AttachInv, Activated, ShapeInv, TypeOK, TypeChain, TypeDisk, TypeUi, Frame, NoFrame, Optional
<1>39. CASE AuthError
  BY <1>39, FrameFields, GrantsFields DEF AuthError, NotifyAccessExpired, holder, disk, At,
     AtAny, Running, Connecting, RecordInv, NoStrandingFaults, OwnInv, GrantedInv, Granting,
     OpenInv, AttachInv, Activated, ShapeInv, TypeOK, TypeChain, TypeDisk, TypeUi, Frame, NoFrame,
     Optional
<1>40. CASE WatchExpiry
  BY <1>40, FrameFields, GrantsFields DEF WatchExpiry, NearExpiry, NotifyAccessExpired, holder,
     disk, At, AtAny, Running, Connecting, RecordInv, NoStrandingFaults, OwnInv, GrantedInv,
     Granting, OpenInv, AttachInv, Activated, ShapeInv, TypeOK, TypeChain, TypeDisk, TypeUi, Frame,
     NoFrame, Optional
<1>41. CASE SyncStarts
  BY <1>41, FrameFields, GrantsFields DEF SyncStarts, BootstrapSettles, ui, disk, At, AtAny,
     Running, Connecting, RecordInv, NoStrandingFaults, OwnInv, GrantedInv, Granting, OpenInv,
     AttachInv, Activated, ShapeInv, TypeOK, TypeChain, TypeDisk, TypeUi, Frame, NoFrame, Optional
<1>42. CASE SyncFails
  BY <1>42, FrameFields, GrantsFields DEF SyncFails, BootstrapSettles, ui, disk, At, AtAny,
     Running, Connecting, RecordInv, NoStrandingFaults, OwnInv, GrantedInv, Granting, OpenInv,
     AttachInv, Activated, ShapeInv, TypeOK, TypeChain, TypeDisk, TypeUi, Frame, NoFrame, Optional
<1>43. CASE Advance
  BY <1>43, FrameFields, GrantsFields DEF Advance, ui, holder, disk, At, AtAny, Running,
     Connecting, RecordInv, NoStrandingFaults, OwnInv, GrantedInv, Granting, OpenInv, AttachInv,
     Activated, ShapeInv, TypeOK, TypeChain, TypeDisk, TypeUi, Frame, NoFrame, Optional
<1>44. CASE Crash
  BY <1>44, FrameFields, GrantsFields DEF Crash, disk, At, AtAny, Running, Connecting,
     RecordInv, NoStrandingFaults, OwnInv, GrantedInv, Granting, OpenInv, AttachInv, Activated,
     ShapeInv, TypeOK, TypeChain, TypeDisk, TypeUi, Frame, NoFrame, Optional
<1>45. ASSUME NEW l \in Logins, OpenLogin(l) PROVE RecordInv'
  BY <1>45, FrameFields, GrantsFields DEF OpenLogin, holder, disk, At, AtAny, Running,
     Connecting, RecordInv, NoStrandingFaults, OwnInv, GrantedInv, Granting, OpenInv, AttachInv,
     Activated, ShapeInv, TypeOK, TypeChain, TypeDisk, TypeUi, Frame, NoFrame, Optional
<1>46. ASSUME NEW l \in Logins, VerifyLogin(l) PROVE RecordInv'
  BY <1>46, FrameFields, GrantsFields DEF VerifyLogin, holder, disk, At, AtAny, Running,
     Connecting, RecordInv, NoStrandingFaults, OwnInv, GrantedInv, Granting, OpenInv, AttachInv,
     Activated, ShapeInv, TypeOK, TypeChain, TypeDisk, TypeUi, Frame, NoFrame, Optional
<1>47. ASSUME NEW l \in Logins, FinishLogin(l) PROVE RecordInv'
  BY <1>47, FrameFields, GrantsFields DEF FinishLogin, Answers, Enqueue, ui, holder, disk, At,
     AtAny, Running, Connecting, RecordInv, NoStrandingFaults, OwnInv, GrantedInv, Granting,
     OpenInv, AttachInv, Activated, ShapeInv, TypeOK, TypeChain, TypeDisk, TypeUi, Frame, NoFrame,
     Optional
<1>48. ASSUME NEW l \in Logins, CancelLogin(l) PROVE RecordInv'
  BY <1>48, FrameFields, GrantsFields DEF CancelLogin, holder, disk, At, AtAny, Running,
     Connecting, RecordInv, NoStrandingFaults, OwnInv, GrantedInv, Granting, OpenInv, AttachInv,
     Activated, ShapeInv, TypeOK, TypeChain, TypeDisk, TypeUi, Frame, NoFrame, Optional
<1>49. ASSUME NEW r \in Reconnects, OpenReconnect(r) PROVE RecordInv'
  BY <1>49, FrameFields, GrantsFields DEF OpenReconnect, Enqueue, holder, disk, At, AtAny,
     Running, Connecting, RecordInv, NoStrandingFaults, OwnInv, GrantedInv, Granting, OpenInv,
     AttachInv, Activated, ShapeInv, TypeOK, TypeChain, TypeDisk, TypeUi, Frame, NoFrame, Optional
<1>50. ASSUME NEW r \in Reconnects, LeaveReconnect(r) PROVE RecordInv'
  BY <1>50, FrameFields, GrantsFields DEF LeaveReconnect, LogoutPending, holder, disk, At,
     AtAny, Running, Connecting, RecordInv, NoStrandingFaults, OwnInv, GrantedInv, Granting,
     OpenInv, AttachInv, Activated, ShapeInv, TypeOK, TypeChain, TypeDisk, TypeUi, Frame, NoFrame,
     Optional
<1>51. ASSUME NEW r \in Reconnects, AnswerReconnect(r) PROVE RecordInv'
  BY <1>51, FrameFields, GrantsFields DEF AnswerReconnect, Answers, SameSpace, Enqueue, ui,
     holder, disk, At, AtAny, Running, Connecting, RecordInv, NoStrandingFaults, OwnInv,
     GrantedInv, Granting, OpenInv, AttachInv, Activated, ShapeInv, TypeOK, TypeChain, TypeDisk,
     TypeUi, Frame, NoFrame, Optional
<1>52. ASSUME NEW r \in Reconnects, CancelReconnect(r) PROVE RecordInv'
  BY <1>52, FrameFields, GrantsFields DEF CancelReconnect, holder, disk, At, AtAny, Running,
     Connecting, RecordInv, NoStrandingFaults, OwnInv, GrantedInv, Granting, OpenInv, AttachInv,
     Activated, ShapeInv, TypeOK, TypeChain, TypeDisk, TypeUi, Frame, NoFrame, Optional
<1>53. ASSUME NEW t \in Calls, Call(t) PROVE RecordInv'
  BY <1>53, FrameFields, GrantsFields DEF Call, Enqueue, ui, holder, disk, At, AtAny, Running,
     Connecting, RecordInv, NoStrandingFaults, OwnInv, GrantedInv, Granting, OpenInv, AttachInv,
     Activated, ShapeInv, TypeOK, TypeChain, TypeDisk, TypeUi, Frame, NoFrame, Optional
<1>54. ASSUME NEW w \in Writes, IssueWrite(w) PROVE RecordInv'
  BY <1>54, FrameFields, GrantsFields DEF IssueWrite, ui, holder, disk, At, AtAny, Running,
     Connecting, RecordInv, NoStrandingFaults, OwnInv, GrantedInv, Granting, OpenInv, AttachInv,
     Activated, ShapeInv, TypeOK, TypeChain, TypeDisk, TypeUi, Frame, NoFrame, Optional
<1>55. ASSUME NEW w \in Writes, LandWrite(w) PROVE RecordInv'
  BY <1>55, FrameFields, GrantsFields DEF LandWrite, ui, holder, At, AtAny, Running, Connecting,
     RecordInv, NoStrandingFaults, OwnInv, GrantedInv, Granting, OpenInv, AttachInv, Activated,
     ShapeInv, TypeOK, TypeChain, TypeDisk, TypeUi, Frame, NoFrame, Optional
<1> QED BY <1>1, <1>2, <1>3, <1>4, <1>5, <1>6, <1>7, <1>8, <1>9, <1>10, <1>11, <1>12, <1>13,
       <1>14, <1>15, <1>16, <1>17, <1>18, <1>19, <1>20, <1>21, <1>22, <1>23, <1>24, <1>25, <1>26,
       <1>27, <1>28, <1>29, <1>30, <1>31, <1>32, <1>33, <1>34, <1>35, <1>36, <1>37, <1>38, <1>39,
       <1>40, <1>41, <1>42, <1>43, <1>44, <1>45, <1>46, <1>47, <1>48, <1>49, <1>50, <1>51, <1>52,
       <1>53, <1>54, <1>55 DEF Next, ChainStep, PopupStep

\* Over grants with a space that have not expired, sync starts and the watch is armed.
LEMMA SyncBegins ==
  ASSUME TypeOK, frame.grants \in Grants, frame.grants.space # None, frame.restore # "expired",
         StartSync
  PROVE  sync' # None /\ watch' = frame.grants.exp
<1>1. sync' \in Sync /\ watch' = frame.grants.exp
  BY GrantsFields DEF StartSync, Sync, TypeOK, TypeHolder, Optional
<1> QED BY <1>1, ConstantsOK

\* A connected session replicates and watches its expiry.
LEMMA WatchInvStep ==
  ASSUME NoStrandingFaults, TypeOK, ShapeInv, OpenInv, AttachInv, GrantedInv, WatchInv, Next
  PROVE WatchInv'
<1> USE ConstantsOK
<1>1. CASE Begin
  BY <1>1, FrameFields, GrantsFields DEF Begin, ui, holder, disk, At, AtAny, Running,
     Connecting, WatchInv, NoStrandingFaults, GrantedInv, Granting, AttachInv, Activated, ShapeInv,
     TypeOK, TypeChain, TypeUi, TypeHolder, Frame, NoFrame, Optional
<1>2. CASE NoOp
  BY <1>2, FrameFields, GrantsFields DEF NoOp, TaskIsNoOp, Return, ui, disk, EndSwap, At, AtAny,
     Running, Connecting, WatchInv, NoStrandingFaults, GrantedInv, Granting, AttachInv, Activated,
     ShapeInv, TypeOK, TypeChain, TypeUi, TypeHolder, Frame, NoFrame, Optional
<1>3. CASE BootMiss
  BY <1>3, FrameFields, GrantsFields DEF BootMiss, Goto, ui, holder, At, AtAny, Running,
     Connecting, WatchInv, NoStrandingFaults, GrantedInv, Granting, AttachInv, Activated, ShapeInv,
     TypeOK, TypeChain, TypeUi, TypeHolder, Frame, NoFrame, Optional
<1>4. CASE BootRestore
  BY <1>4, FrameFields, GrantsFields DEF BootRestore, Expired, Goto, ui, holder, disk, At,
     AtAny, Running, Connecting, WatchInv, NoStrandingFaults, GrantedInv, Granting, AttachInv,
     Activated, ShapeInv, TypeOK, TypeChain, TypeUi, TypeHolder, Frame, NoFrame, Optional
<1>5. CASE BootRetriesLocal
  BY <1>5, FrameFields, GrantsFields DEF BootRetriesLocal, OpenLocalFails, Fail, Goto, ui,
     holder, disk, At, AtAny, Running, Connecting, WatchInv, NoStrandingFaults, GrantedInv,
     Granting, AttachInv, Activated, ShapeInv, TypeOK, TypeChain, TypeUi, TypeHolder, Frame,
     NoFrame, Optional
<1>6. CASE BootGivesUp
  BY <1>6, FrameFields, GrantsFields DEF BootGivesUp, OpenLocalFails, Fail, Return, ui, disk,
     EndSwap, At, AtAny, Running, Connecting, WatchInv, NoStrandingFaults, GrantedInv, Granting,
     AttachInv, Activated, ShapeInv, TypeOK, TypeChain, TypeUi, TypeHolder, Frame, NoFrame,
     Optional
<1>7. CASE LoginAbandoned
  BY <1>7, FrameFields, GrantsFields DEF LoginAbandoned, SameSession, Return, disk, EndSwap, At,
     AtAny, Running, Connecting, WatchInv, NoStrandingFaults, GrantedInv, Granting, AttachInv,
     Activated, ShapeInv, TypeOK, TypeChain, TypeUi, TypeHolder, Frame, NoFrame, Optional
<1>8. CASE StartConnect
  BY <1>8, FrameFields, GrantsFields DEF StartConnect, TaskIsNoOp, SameSession, Goto, ui,
     holder, disk, At, AtAny, Running, Connecting, WatchInv, NoStrandingFaults, GrantedInv,
     Granting, AttachInv, Activated, ShapeInv, TypeOK, TypeChain, TypeUi, TypeHolder, Frame,
     NoFrame, Optional
<1>9. CASE RenewDiscarded
  BY <1>9, FrameFields, GrantsFields DEF RenewDiscarded, StillToRenew, Return, disk, EndSwap,
     At, AtAny, Running, Connecting, WatchInv, NoStrandingFaults, GrantedInv, Granting, AttachInv,
     Activated, ShapeInv, TypeOK, TypeChain, TypeUi, TypeHolder, Frame, NoFrame, Optional
<1>10. CASE StartRenew
  BY <1>10, FrameFields, GrantsFields DEF StartRenew, StillToRenew, Goto, ui, holder, disk, At,
     AtAny, Running, Connecting, WatchInv, NoStrandingFaults, GrantedInv, Granting, AttachInv,
     Activated, ShapeInv, TypeOK, TypeChain, TypeUi, TypeHolder, Frame, NoFrame, Optional
<1>11. CASE StartTeardown
  BY <1>11, FrameFields, GrantsFields DEF StartTeardown, Detach, WipeTargets, ui, disk, Goto,
     At, AtAny, Running, Connecting, WatchInv, NoStrandingFaults, GrantedInv, Granting, AttachInv,
     Activated, ShapeInv, TypeOK, TypeChain, TypeUi, TypeHolder, Frame, NoFrame, Optional
<1>12. CASE Drain
  BY <1>12, FrameFields, GrantsFields DEF Drain, StopAndClose, Goto, AfterDrain, ui,
     BootstrapSettled, Deletes, Fail, Erasing, At, AtAny, Running, Connecting, WatchInv,
     NoStrandingFaults, GrantedInv, Granting, AttachInv, Activated, ShapeInv, TypeOK, TypeChain,
     TypeUi, TypeHolder, Frame, NoFrame, Optional
<1>13. CASE DrainDestroy
  BY <1>13, FrameFields, GrantsFields DEF DrainDestroy, StopAndClose, BootstrapSettled, Deletes,
     Fail, Erasing, At, AtAny, Running, Connecting, WatchInv, NoStrandingFaults, GrantedInv,
     Granting, AttachInv, Activated, ShapeInv, TypeOK, TypeChain, TypeUi, TypeHolder, Frame,
     NoFrame, Optional
<1>14. CASE ClearAnonSeed
  BY <1>14, FrameFields, GrantsFields DEF ClearAnonSeed, Goto, Fail, Return, ui, EndSwap, At,
     AtAny, Running, Connecting, WatchInv, NoStrandingFaults, GrantedInv, Granting, AttachInv,
     Activated, ShapeInv, TypeOK, TypeChain, TypeUi, TypeHolder, Frame, NoFrame, Optional
<1>15. CASE ForgetSession
  BY <1>15, FrameFields, GrantsFields DEF ForgetSession, Goto, Fail, Return, ui, EndSwap, At,
     AtAny, Running, Connecting, WatchInv, NoStrandingFaults, GrantedInv, Granting, AttachInv,
     Activated, ShapeInv, TypeOK, TypeChain, TypeUi, TypeHolder, Frame, NoFrame, Optional
<1>16. CASE Wipe
  BY <1>16, FrameFields, GrantsFields DEF Wipe, Fail, Goto, ui, holder, At, AtAny, Running,
     Connecting, WatchInv, NoStrandingFaults, GrantedInv, Granting, AttachInv, Activated, ShapeInv,
     TypeOK, TypeChain, TypeUi, TypeHolder, Frame, NoFrame, Optional
<1>17. CASE LoadOrCreateAnonSeed
  BY <1>17, FrameFields, GrantsFields DEF LoadOrCreateAnonSeed, Goto, ui, holder, At, AtAny,
     Running, Connecting, WatchInv, NoStrandingFaults, GrantedInv, Granting, AttachInv, Activated,
     ShapeInv, TypeOK, TypeChain, TypeUi, TypeHolder, Frame, NoFrame, Optional
<1>18. CASE OpenAnon
  BY <1>18, FrameFields, GrantsFields DEF OpenAnon, Goto, ui, disk, At, AtAny, Running,
     Connecting, WatchInv, NoStrandingFaults, GrantedInv, Granting, AttachInv, Activated, ShapeInv,
     TypeOK, TypeChain, TypeUi, TypeHolder, Frame, NoFrame, Optional
<1>19. CASE LandLocal
  BY <1>19, FrameFields, GrantsFields DEF LandLocal, FixturesCanRun, Return, disk, EndSwap, At,
     AtAny, Running, Connecting, WatchInv, NoStrandingFaults, GrantedInv, Granting, AttachInv,
     Activated, ShapeInv, TypeOK, TypeChain, TypeUi, TypeHolder, Frame, NoFrame, Optional
<1>20. CASE ReopenFails
  BY <1>20, FrameFields, GrantsFields DEF ReopenFails, OpenLocalFails, Fail, Return, disk,
     EndSwap, At, AtAny, Running, Connecting, WatchInv, NoStrandingFaults, GrantedInv, Granting,
     AttachInv, Activated, ShapeInv, TypeOK, TypeChain, TypeUi, TypeHolder, Frame, NoFrame,
     Optional
<1>21. CASE OpenLocalRejects
  <2>1. Connecting /\ ~frame.falling /\ status = "local"
    BY <1>21 DEF OpenLocalRejects, OpenLocalFails, Fail, NoStrandingFaults, OpenInv, At, AtAny,
       Running, Connecting
  <2> QED BY <1>21, <2>1 DEF OpenLocalRejects, WatchInv
<1>22. CASE Prepared
  BY <1>22, FrameFields, GrantsFields DEF Prepared, Goto, Detach, CarriesAnonData, ui, disk, At,
     AtAny, Running, Connecting, WatchInv, NoStrandingFaults, GrantedInv, Granting, AttachInv,
     Activated, ShapeInv, TypeOK, TypeChain, TypeUi, TypeHolder, Frame, NoFrame, Optional
<1>23. CASE PrepareFails
  BY <1>23, FrameFields, GrantsFields DEF PrepareFails, Fail, Fall, Return, disk, EndSwap,
     Detach, Goto, At, AtAny, Running, Connecting, WatchInv, NoStrandingFaults, GrantedInv,
     Granting, AttachInv, Activated, ShapeInv, TypeOK, TypeChain, TypeUi, TypeHolder, Frame,
     NoFrame, Optional
<1>24. CASE Collect
  BY <1>24, FrameFields, GrantsFields DEF Collect, NothingToCollect, Goto, ui, disk, FromLocal,
     At, AtAny, Running, Connecting, WatchInv, NoStrandingFaults, GrantedInv, Granting, AttachInv,
     Activated, ShapeInv, TypeOK, TypeChain, TypeUi, TypeHolder, Frame, NoFrame, Optional
<1>25. CASE Read
  BY <1>25, FrameFields, GrantsFields DEF Read, Goto, ui, disk, At, AtAny, Running, Connecting,
     WatchInv, NoStrandingFaults, GrantedInv, Granting, AttachInv, Activated, ShapeInv, TypeOK,
     TypeChain, TypeUi, TypeHolder, Frame, NoFrame, Optional
<1>26. CASE CollectFails
  BY <1>26, FrameFields, GrantsFields DEF CollectFails, FromLocal, Fail, Goto, ui, disk, At,
     AtAny, Running, Connecting, WatchInv, NoStrandingFaults, GrantedInv, Granting, AttachInv,
     Activated, ShapeInv, TypeOK, TypeChain, TypeUi, TypeHolder, Frame, NoFrame, Optional
<1>27. CASE OpenConnected
  BY <1>27, FrameFields, GrantsFields DEF OpenConnected, Goto, ui, disk, At, AtAny, Running,
     Connecting, WatchInv, NoStrandingFaults, GrantedInv, Granting, AttachInv, Activated, ShapeInv,
     TypeOK, TypeChain, TypeUi, TypeHolder, Frame, NoFrame, Optional
<1>28. CASE MergeAndHydrate
  BY <1>28, FrameFields, GrantsFields DEF MergeAndHydrate, Goto, AfterHydrate, ui, holder, At,
     AtAny, Running, Connecting, WatchInv, NoStrandingFaults, GrantedInv, Granting, AttachInv,
     Activated, ShapeInv, TypeOK, TypeChain, TypeUi, TypeHolder, Frame, NoFrame, Optional
<1>29. CASE SaveSeed
  BY <1>29, FrameFields, GrantsFields DEF SaveSeed, Goto, ui, holder, At, AtAny, Running,
     Connecting, WatchInv, NoStrandingFaults, GrantedInv, Granting, AttachInv, Activated, ShapeInv,
     TypeOK, TypeChain, TypeUi, TypeHolder, Frame, NoFrame, Optional
<1>30. CASE SaveRecord
  BY <1>30, FrameFields, GrantsFields DEF SaveRecord, Goto, ui, holder, At, AtAny, Running,
     Connecting, WatchInv, NoStrandingFaults, GrantedInv, Granting, AttachInv, Activated, ShapeInv,
     TypeOK, TypeChain, TypeUi, TypeHolder, Frame, NoFrame, Optional
<1>31. CASE ActivationFails
  BY <1>31, FrameFields, GrantsFields DEF ActivationFails, Activating, Fail, Fall, Detach, ui,
     Goto, At, AtAny, Running, Connecting, WatchInv, NoStrandingFaults, GrantedInv, Granting,
     AttachInv, Activated, ShapeInv, TypeOK, TypeChain, TypeUi, TypeHolder, Frame, NoFrame,
     Optional
<1>32. CASE LandBoot
  <2>1. /\ status' = "connected" => frame.restore = "live"
        /\ expires' = frame.grants.exp /\ step = "land" /\ task # None /\ task' = None /\ StartSync
    BY <1>32 DEF LandBoot, Return, At
  <2>2. frame.grants \in Grants /\ frame.grants.space # None
    BY <2>1 DEF ShapeInv, AtAny, GrantedInv
  <2> QED BY <2>1, <2>2, SyncBegins DEF WatchInv
<1>33. CASE LandConnect
  <2>1. frame.restore = "login" /\ step = "land" /\ task # None /\ StartSync /\ expires' = frame.grants.exp
    BY <1>33 DEF LandConnect, At, GrantedInv, Connecting, Running
  <2>2. frame.grants \in Grants /\ frame.grants.space # None
    BY <2>1 DEF ShapeInv, AtAny, GrantedInv
  <2> QED BY <2>1, <2>2, SyncBegins DEF WatchInv
<1>34. CASE DiscardAnonReplica
  BY <1>34, FrameFields, GrantsFields DEF DiscardAnonReplica, Goto, Fail, Return, ui, EndSwap,
     At, AtAny, Running, Connecting, WatchInv, NoStrandingFaults, GrantedInv, Granting, AttachInv,
     Activated, ShapeInv, TypeOK, TypeChain, TypeUi, TypeHolder, Frame, NoFrame, Optional
<1>35. CASE DropAnonSeed
  BY <1>35, FrameFields, GrantsFields DEF DropAnonSeed, Fail, Return, ui, EndSwap, At, AtAny,
     Running, Connecting, WatchInv, NoStrandingFaults, GrantedInv, Granting, AttachInv, Activated,
     ShapeInv, TypeOK, TypeChain, TypeUi, TypeHolder, Frame, NoFrame, Optional
<1>36. CASE StopForRenew
  BY <1>36, FrameFields, GrantsFields DEF StopForRenew, BootstrapSettled, Goto, ui, disk, At,
     AtAny, Running, Connecting, WatchInv, NoStrandingFaults, GrantedInv, Granting, AttachInv,
     Activated, ShapeInv, TypeOK, TypeChain, TypeUi, TypeHolder, Frame, NoFrame, Optional
<1>37. CASE LandRenew
  <2>1. frame.restore = "login" /\ step = "land" /\ task # None /\ StartSync /\ expires' = frame.grants.exp
    BY <1>37 DEF LandRenew, At, GrantedInv, Running
  <2>2. frame.grants \in Grants /\ frame.grants.space # None
    BY <2>1 DEF ShapeInv, AtAny, GrantedInv
  <2> QED BY <2>1, <2>2, SyncBegins DEF WatchInv
<1>38. CASE RenewFails
  BY <1>38, FrameFields, GrantsFields DEF RenewFails, Fail, Return, disk, EndSwap, At, AtAny,
     Running, Connecting, WatchInv, NoStrandingFaults, GrantedInv, Granting, AttachInv, Activated,
     ShapeInv, TypeOK, TypeChain, TypeUi, TypeHolder, Frame, NoFrame, Optional
<1>39. CASE AuthError
  BY <1>39, FrameFields, GrantsFields DEF AuthError, NotifyAccessExpired, holder, disk, At,
     AtAny, Running, Connecting, WatchInv, NoStrandingFaults, GrantedInv, Granting, AttachInv,
     Activated, ShapeInv, TypeOK, TypeChain, TypeUi, TypeHolder, Frame, NoFrame, Optional
<1>40. CASE WatchExpiry
  BY <1>40, FrameFields, GrantsFields DEF WatchExpiry, NearExpiry, NotifyAccessExpired, holder,
     disk, At, AtAny, Running, Connecting, WatchInv, NoStrandingFaults, GrantedInv, Granting,
     AttachInv, Activated, ShapeInv, TypeOK, TypeChain, TypeUi, TypeHolder, Frame, NoFrame,
     Optional
<1>41. CASE SyncStarts
  <2>1. UNCHANGED <<status, expires, task, step, watch>> /\ sync # None /\ sync' = [sync EXCEPT !.state = "running"]
    BY <1>41 DEF SyncStarts, BootstrapSettles, ui
  <2>2. sync' \in Sync
    BY <2>1 DEF TypeOK, TypeHolder, Optional, Sync
  <2> QED BY <2>1, <2>2 DEF WatchInv
<1>42. CASE SyncFails
  <2>1. UNCHANGED <<status, expires, task, step, watch>> /\ sync # None /\ sync' = [sync EXCEPT !.state = "failed"]
    BY <1>42 DEF SyncFails, BootstrapSettles, ui
  <2>2. sync' \in Sync
    BY <2>1 DEF TypeOK, TypeHolder, Optional, Sync
  <2> QED BY <2>1, <2>2 DEF WatchInv
<1>43. CASE Advance
  BY <1>43, FrameFields, GrantsFields DEF Advance, ui, holder, disk, At, AtAny, Running,
     Connecting, WatchInv, NoStrandingFaults, GrantedInv, Granting, AttachInv, Activated, ShapeInv,
     TypeOK, TypeChain, TypeUi, TypeHolder, Frame, NoFrame, Optional
<1>44. CASE Crash
  BY <1>44, FrameFields, GrantsFields DEF Crash, disk, At, AtAny, Running, Connecting, WatchInv,
     NoStrandingFaults, GrantedInv, Granting, AttachInv, Activated, ShapeInv, TypeOK, TypeChain,
     TypeUi, TypeHolder, Frame, NoFrame, Optional
<1>45. ASSUME NEW l \in Logins, OpenLogin(l) PROVE WatchInv'
  BY <1>45, FrameFields, GrantsFields DEF OpenLogin, holder, disk, At, AtAny, Running,
     Connecting, WatchInv, NoStrandingFaults, GrantedInv, Granting, AttachInv, Activated, ShapeInv,
     TypeOK, TypeChain, TypeUi, TypeHolder, Frame, NoFrame, Optional
<1>46. ASSUME NEW l \in Logins, VerifyLogin(l) PROVE WatchInv'
  BY <1>46, FrameFields, GrantsFields DEF VerifyLogin, holder, disk, At, AtAny, Running,
     Connecting, WatchInv, NoStrandingFaults, GrantedInv, Granting, AttachInv, Activated, ShapeInv,
     TypeOK, TypeChain, TypeUi, TypeHolder, Frame, NoFrame, Optional
<1>47. ASSUME NEW l \in Logins, FinishLogin(l) PROVE WatchInv'
  BY <1>47, FrameFields, GrantsFields DEF FinishLogin, Answers, Enqueue, ui, holder, disk, At,
     AtAny, Running, Connecting, WatchInv, NoStrandingFaults, GrantedInv, Granting, AttachInv,
     Activated, ShapeInv, TypeOK, TypeChain, TypeUi, TypeHolder, Frame, NoFrame, Optional
<1>48. ASSUME NEW l \in Logins, CancelLogin(l) PROVE WatchInv'
  BY <1>48, FrameFields, GrantsFields DEF CancelLogin, holder, disk, At, AtAny, Running,
     Connecting, WatchInv, NoStrandingFaults, GrantedInv, Granting, AttachInv, Activated, ShapeInv,
     TypeOK, TypeChain, TypeUi, TypeHolder, Frame, NoFrame, Optional
<1>49. ASSUME NEW r \in Reconnects, OpenReconnect(r) PROVE WatchInv'
  BY <1>49, FrameFields, GrantsFields DEF OpenReconnect, Enqueue, holder, disk, At, AtAny,
     Running, Connecting, WatchInv, NoStrandingFaults, GrantedInv, Granting, AttachInv, Activated,
     ShapeInv, TypeOK, TypeChain, TypeUi, TypeHolder, Frame, NoFrame, Optional
<1>50. ASSUME NEW r \in Reconnects, LeaveReconnect(r) PROVE WatchInv'
  BY <1>50, FrameFields, GrantsFields DEF LeaveReconnect, LogoutPending, holder, disk, At,
     AtAny, Running, Connecting, WatchInv, NoStrandingFaults, GrantedInv, Granting, AttachInv,
     Activated, ShapeInv, TypeOK, TypeChain, TypeUi, TypeHolder, Frame, NoFrame, Optional
<1>51. ASSUME NEW r \in Reconnects, AnswerReconnect(r) PROVE WatchInv'
  BY <1>51, FrameFields, GrantsFields DEF AnswerReconnect, Answers, SameSpace, Enqueue, ui,
     holder, disk, At, AtAny, Running, Connecting, WatchInv, NoStrandingFaults, GrantedInv,
     Granting, AttachInv, Activated, ShapeInv, TypeOK, TypeChain, TypeUi, TypeHolder, Frame,
     NoFrame, Optional
<1>52. ASSUME NEW r \in Reconnects, CancelReconnect(r) PROVE WatchInv'
  BY <1>52, FrameFields, GrantsFields DEF CancelReconnect, holder, disk, At, AtAny, Running,
     Connecting, WatchInv, NoStrandingFaults, GrantedInv, Granting, AttachInv, Activated, ShapeInv,
     TypeOK, TypeChain, TypeUi, TypeHolder, Frame, NoFrame, Optional
<1>53. ASSUME NEW t \in Calls, Call(t) PROVE WatchInv'
  BY <1>53, FrameFields, GrantsFields DEF Call, Enqueue, ui, holder, disk, At, AtAny, Running,
     Connecting, WatchInv, NoStrandingFaults, GrantedInv, Granting, AttachInv, Activated, ShapeInv,
     TypeOK, TypeChain, TypeUi, TypeHolder, Frame, NoFrame, Optional
<1>54. ASSUME NEW w \in Writes, IssueWrite(w) PROVE WatchInv'
  BY <1>54, FrameFields, GrantsFields DEF IssueWrite, ui, holder, disk, At, AtAny, Running,
     Connecting, WatchInv, NoStrandingFaults, GrantedInv, Granting, AttachInv, Activated, ShapeInv,
     TypeOK, TypeChain, TypeUi, TypeHolder, Frame, NoFrame, Optional
<1>55. ASSUME NEW w \in Writes, LandWrite(w) PROVE WatchInv'
  BY <1>55, FrameFields, GrantsFields DEF LandWrite, ui, holder, At, AtAny, Running, Connecting,
     WatchInv, NoStrandingFaults, GrantedInv, Granting, AttachInv, Activated, ShapeInv, TypeOK,
     TypeChain, TypeUi, TypeHolder, Frame, NoFrame, Optional
<1> QED BY <1>1, <1>2, <1>3, <1>4, <1>5, <1>6, <1>7, <1>8, <1>9, <1>10, <1>11, <1>12, <1>13,
       <1>14, <1>15, <1>16, <1>17, <1>18, <1>19, <1>20, <1>21, <1>22, <1>23, <1>24, <1>25, <1>26,
       <1>27, <1>28, <1>29, <1>30, <1>31, <1>32, <1>33, <1>34, <1>35, <1>36, <1>37, <1>38, <1>39,
       <1>40, <1>41, <1>42, <1>43, <1>44, <1>45, <1>46, <1>47, <1>48, <1>49, <1>50, <1>51, <1>52,
       <1>53, <1>54, <1>55 DEF Next, ChainStep, PopupStep

\* The states a page starts in satisfy the invariants; a persisted session has a space.
LEMMA InitGrantInvs == Init => OwnInv /\ SyncInv /\ GrantedInv /\ RecordInv /\ WatchInv
<1> SUFFICES ASSUME Init PROVE OwnInv /\ SyncInv /\ GrantedInv /\ RecordInv /\ WatchInv
  OBVIOUS
<1>1. OwnInv
  BY DEF Init, OwnInv, Running
<1>2. SyncInv
  BY DEF Init, SyncInv, SyncsOwnReplica
<1>3. GrantedInv
  BY ConstantsOK DEF Init, GrantedInv, Granting, Running, NoFrame
<1>4. RecordInv
  BY DEF Init, RecordInv, At, AtAny, Running
<1>5. WatchInv
  BY DEF Init, WatchInv
<1> QED BY <1>1, <1>2, <1>3, <1>4, <1>5

\* A stutter preserves them.
LEMMA GrantStutter ==
  UNCHANGED vars =>
    /\ OwnInv => OwnInv'
    /\ SyncInv => SyncInv'
    /\ GrantedInv => GrantedInv'
    /\ RecordInv => RecordInv'
    /\ WatchInv => WatchInv'
<1> SUFFICES ASSUME UNCHANGED vars
             PROVE /\ OwnInv => OwnInv'
                   /\ SyncInv => SyncInv'
                   /\ GrantedInv => GrantedInv'
                   /\ RecordInv => RecordInv'
                   /\ WatchInv => WatchInv'
  OBVIOUS
<1>1. UNCHANGED <<ui, holder, disk, chain, task, step, frame>>
  BY DEF vars
<1>2. OwnInv => OwnInv'
  BY <1>1 DEF ui, OwnInv, Running
<1>3. SyncInv => SyncInv'
  BY <1>1 DEF ui, holder, SyncInv, SyncsOwnReplica, Running
<1>4. GrantedInv => GrantedInv'
  BY <1>1 DEF disk, GrantedInv, Running
<1>5. RecordInv => RecordInv'
  BY <1>1 DEF ui, disk, RecordInv, At, AtAny, Running
<1>6. WatchInv => WatchInv'
  BY <1>1 DEF ui, holder, WatchInv
<1> QED BY <1>2, <1>3, <1>4, <1>5, <1>6

\* When no stranding step fails the replica invariant holds beside the others:
\* prerequisite of the theorems below.
THEOREM ReplicaCorrect ==
  ASSUME NoStrandingFaults
  PROVE  Spec => [](TypeOK /\ ShapeInv /\ AttachInv /\ OpenInv)
<1>1. Init => OpenInv
  BY InitInvs
<1>2. TypeOK /\ ShapeInv /\ OpenInv /\ [Next]_vars => OpenInv'
  BY OpenInvStep, Stutter, NoStrandingFaults
<1> QED BY <1>1, <1>2, AttachCorrect, PTL DEF Spec

\* While every reconnect popup is opened over the account the disk holds, a renewal is of
\* the account that is live, and what belongs to a session follows it: prerequisite too.
THEOREM OwnCorrect ==
  ASSUME NoStrandingFaults
  PROVE  Spec /\ []PeekedOwn => [](OwnInv /\ SyncInv)
<1>1. Init => OwnInv /\ SyncInv
  BY InitGrantInvs
<1>2. TypeOK /\ ShapeInv /\ AttachInv /\ PeekedOwn /\ OwnInv /\ [Next]_vars => OwnInv'
  BY OwnInvStep, GrantStutter
<1>3. TypeOK /\ ShapeInv /\ AttachInv /\ OpenInv /\ OwnInv /\ SyncInv /\ [Next]_vars => SyncInv'
  BY SyncInvStep, GrantStutter, NoStrandingFaults
<1> QED BY <1>1, <1>2, <1>3, ReplicaCorrect, PTL DEF Spec

\* The mixed reconnect of finding 1 is the only way, stranding steps aside, in which a
\* sync controller comes to replicate one account's replica under another's capabilities,
\* with any number of popups, accounts, tasks and crashes (persistAndStartSync, beginSync).
THEOREM SyncIsOwn ==
  ASSUME NoStrandingFaults
  PROVE  Spec /\ []PeekedOwn => []SyncsOwnReplica
<1>1. SyncInv => SyncsOwnReplica
  BY DEF SyncInv
<1> QED BY <1>1, OwnCorrect, PTL

\* Under the same assumptions neither a sync controller nor an expiry watch outlives the
\* session it serves (deactivateStore, stopController).
THEOREM SyncEndsWithSession ==
  ASSUME NoStrandingFaults
  PROVE  Spec /\ []PeekedOwn => []NothingOutlivesSession
<1>1. SyncInv => NothingOutlivesSession
  BY DEF SyncInv, NothingOutlivesSession
<1> QED BY <1>1, OwnCorrect, PTL

\* If moreover every wallet answer comes with a storage grant (finding 4 is what happens
\* without), a reload at any moment between two tasks restores the connected session, with
\* the expiry the app shows (persistAppSession, bootImpl, the epilogue of reconnect).
THEOREM ReloadRestores ==
  ASSUME NoStrandingFaults, AllGranted
  PROVE  Spec /\ []PeekedOwn => []ReloadRestoresSession
<1>1. Init => GrantedInv /\ RecordInv
  BY InitGrantInvs
<1>2. TypeOK /\ ShapeInv /\ GrantedInv /\ [Next]_vars => GrantedInv'
  BY GrantedInvStep, GrantStutter, AllGranted
<1>3. /\ TypeOK /\ ShapeInv /\ AttachInv /\ OpenInv /\ OwnInv /\ GrantedInv /\ RecordInv
      /\ [Next]_vars
      => RecordInv'
  BY RecordInvStep, GrantStutter, NoStrandingFaults
<1>4. RecordInv => ReloadRestoresSession
  BY DEF RecordInv, ReloadRestoresSession
<1> QED BY <1>1, <1>2, <1>3, <1>4, ReplicaCorrect, OwnCorrect, PTL DEF Spec

\* Under the same assumptions, whatever the reconnect popups were opened over, a connected
\* session is replicating and watches the expiry it shows (armExpiryWatch, beginSync).
THEOREM ConnectedWatches ==
  ASSUME NoStrandingFaults, AllGranted
  PROVE  Spec => []ConnectedIsWatched
<1>1. Init => GrantedInv /\ WatchInv
  BY InitGrantInvs
<1>2. TypeOK /\ ShapeInv /\ GrantedInv /\ [Next]_vars => GrantedInv'
  BY GrantedInvStep, GrantStutter, AllGranted
<1>3. TypeOK /\ ShapeInv /\ AttachInv /\ OpenInv /\ GrantedInv /\ WatchInv /\ [Next]_vars => WatchInv'
  BY WatchInvStep, GrantStutter, NoStrandingFaults
<1>4. WatchInv => ConnectedIsWatched
  BY DEF WatchInv, ConnectedIsWatched
<1> QED BY <1>1, <1>2, <1>3, <1>4, ReplicaCorrect, PTL DEF Spec

=============================================================================
