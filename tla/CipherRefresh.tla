---------------------------- MODULE CipherRefresh ----------------------------
(***************************************************************************)
(* The cipher of one private collection (src/src/storage/localStore.ts):   *)
(* decrypts that meet an unknown key epoch share one rationed re-read of   *)
(* the encryption descriptor, the sync bootstrap                           *)
(* (src/src/storage/pwsSync.ts) installs descriptors, the index schema and *)
(* the descriptor source, and every change of the cipher rides one chain.  *)
(*                                                                         *)
(* The descriptor is the head of a governing log that other devices append *)
(* to: a rotation adds an epoch, a re-wrap changes who may open the last.  *)
(***************************************************************************)
EXTENDS Naturals, Sequences

CONSTANTS
  Decrypts,     \* calls of decryptWithRefresh
  None,         \* no value
  MaxHeads, MaxBoots, MaxFaults   \* bounds: heads of the log, bootstraps, failing reads

ASSUME ConstantsOK ==
  /\ None \notin Decrypts /\ None \notin [head : Nat, meta : Nat]
  /\ MaxHeads \in Nat \ {0} /\ MaxBoots \in Nat /\ MaxFaults \in Nat

VARIABLES
  \* the Space
  log,        \* the heads of the governing log: how many epochs, the last wrapped to us
  custom,     \* the epoch the stored index schema is sealed under, 0 for none
  \* the local store
  held,       \* the head the cipher was built from, 0 for the placeholder
  schema,     \* the schema installed on the cipher, 0 for none
  meta,       \* the schema remembered for the next rebuild
  chain,      \* the cipher operations queued, the first one running
  build,      \* what the running operation awaits: a cipher, or a schema install
  source,     \* how many descriptor sources were installed
  spent,      \* the guard of DescriptorRefreshPolicy
  memo,       \* the refresh that concurrent decrypts share
  refusal,    \* the refresh whose refusal is recorded
  refresh,    \* the refreshes, each named for the decrypt that spent it
  \* its callers
  reads,      \* the decrypts, each with the locals it holds
  boot,       \* the bootstrap running
  boots, faults,      \* bounds
  asked, allowed      \* history: refreshes asked of this source, and what it allows

remote == <<log, custom>>
cipher == <<held, schema, meta>>
queue  == <<chain, build>>
guard  == <<source, spent, memo, refusal>>
bounds == <<boots, faults>>
ration == <<asked, allowed>>
vars   == <<remote, cipher, queue, guard, refresh, reads, boot, bounds, ration>>

Head0     == [epochs : Nat, mine : BOOLEAN]
Operation == [kind : {"refresh", "apply", "meta"}, by : Decrypts \cup {None}]
Refresh   == [st : {"none", "asked", "served", "queued", "done", "refused", "failed"},
              source : Nat, head : Nat]
Read      == [st : {"new", "waiting", "ok", "unknown", "refused"}, epoch : Nat,
              memo : Decrypts \cup {None}]
Bootstrap == [st : {"idle", "read", "applying", "meta", "installing", "source"}, head : Nat, custom : Nat]
NoBoot    == [st |-> "idle", head |-> 0, custom |-> 0]
Building  == [head : Nat, meta : Nat]

TypeOK ==
  /\ log \in Seq(Head0) /\ log # <<>> /\ custom \in Nat
  /\ held \in 0..Len(log) /\ schema \in Nat /\ meta \in Nat
  /\ chain \in Seq(Operation) /\ build \in Building \cup {None}
  /\ source \in Nat /\ spent \in BOOLEAN
  /\ memo \in Decrypts \cup {None} /\ refusal \in Decrypts \cup {None}
  /\ refresh \in [Decrypts -> Refresh] /\ boot \in Bootstrap
  /\ \A d \in Decrypts : refresh[d].head <= Len(log)
  /\ boot.head <= Len(log)
  /\ reads \in [Decrypts -> Read]
  /\ boots \in Nat /\ faults \in Nat
  /\ asked \in Nat /\ allowed \in Nat

(***************************************************************************)
(* Helpers                                                                 *)
(***************************************************************************)
Epochs(h)    == IF h = 0 THEN 0 ELSE log[h].epochs
Lists(h, e)  == e \in 1..Epochs(h)
Newest       == Len(log)
Stands(d)    == refresh[d].source = source          \* sourceStands
Settled(d)   == refresh[d].st \in {"done", "refused", "failed"}

\* Mutant of HoldsOrPostdates: every roster that differs counts as new.
HoldsSame(h) == held # 0 /\ log[held] = log[h]
\* The held cipher was built from this roster, or from a later head of the log.
HoldsOrPostdates(h) ==
  /\ held # 0
  /\ \/ log[held] = log[h]
     \/ Lists(held, Epochs(h)) /\ ~Lists(h, Epochs(held))

Roster(op) == IF op.kind = "refresh" THEN refresh[op.by].head ELSE boot.head

(***************************************************************************)
(* The Space                                                               *)
(***************************************************************************)
Append1(epochs, mine) ==
  /\ Len(log) < MaxHeads
  /\ log' = Append(log, [epochs |-> epochs, mine |-> mine])
  /\ UNCHANGED <<custom, cipher, queue, guard, refresh, reads, boot, bounds, ration>>
Rotate(mine) == Append1(log[Newest].epochs + 1, mine)
Rewrap       == Append1(log[Newest].epochs, ~log[Newest].mine)
WriteSchema  ==
  /\ custom' = log[Newest].epochs /\ custom' # custom
  /\ UNCHANGED <<log, cipher, queue, guard, refresh, reads, boot, bounds, ration>>

(***************************************************************************)
(* Decrypts and their refresh                                              *)
(***************************************************************************)
\* #decryptWithRefresh of an envelope sealed under epoch e: the cipher opens it, or there
\* is no source to ask.
Decrypt(d, e) ==
  /\ reads[d].st = "new" /\ e \in 1..Epochs(Newest)
  /\ Lists(held, e) \/ source = 0
  /\ reads' = [reads EXCEPT ![d].epoch = e,
                            ![d].st = IF Lists(held, e) THEN "ok" ELSE "unknown"]
  /\ UNCHANGED <<remote, cipher, queue, guard, refresh, boot, bounds, ration>>

\* #spendRefresh: the decrypt waits on the refresh under way or already spent, or is the
\* one to spend it.
Waits(d, e, m) ==
  /\ reads[d].st = "new" /\ e \in 1..Epochs(Newest)
  /\ ~Lists(held, e) /\ source # 0
  /\ reads' = [reads EXCEPT ![d] = [st |-> "waiting", epoch |-> e, memo |-> m]]
Join(d, e) ==
  /\ memo # None /\ Waits(d, e, memo)
  /\ UNCHANGED <<remote, cipher, queue, guard, refresh, boot, bounds, ration>>
Spend(d, e) ==
  /\ memo = None /\ ~spent /\ Waits(d, e, d)
  /\ memo' = d /\ spent' = TRUE
  /\ refresh' = [refresh EXCEPT ![d] = [st |-> "asked", source |-> source, head |-> 0]]
  /\ asked' = asked + 1
  /\ UNCHANGED <<remote, cipher, queue, source, refusal, boot, bounds, allowed>>

\* The source reads the log; its answer arrives later.  (Mutant ServeAhead: one head too far.)
ServeAhead(d) ==
  /\ refresh[d].st = "asked"
  /\ refresh' = [refresh EXCEPT ![d].st = "served", ![d].head = Newest + 1]
  /\ UNCHANGED <<remote, cipher, queue, guard, reads, boot, bounds, ration>>
Serve(d) ==
  /\ refresh[d].st = "asked"
  /\ refresh' = [refresh EXCEPT ![d].st = "served", ![d].head = Newest]
  /\ UNCHANGED <<remote, cipher, queue, guard, reads, boot, bounds, ration>>

\* acquireGovernedDescriptor answers: a roster that queues its rebuild, a refusal of
\* the log, which is recorded, or a failure, which gives the refresh back.
Answer(d) ==
  /\ refresh[d].st = "served"
  /\ refresh' = [refresh EXCEPT ![d].st = "queued"]
  /\ chain' = Append(chain, [kind |-> "refresh", by |-> d])
  /\ UNCHANGED <<remote, cipher, build, guard, reads, boot, bounds, ration>>
\* Mutant of Record: a refusal of an old source's refresh is held against the new one.
RecordAlways(d) == refusal' = d
Record(d) == refusal' = IF Stands(d) THEN d ELSE refusal
Refuse(d) ==
  /\ refresh[d].st = "served" /\ faults < MaxFaults
  /\ refresh' = [refresh EXCEPT ![d].st = "refused"]
  /\ Record(d) /\ faults' = faults + 1
  /\ UNCHANGED <<remote, cipher, queue, source, spent, memo, reads, boot, boots, ration>>
\* Mutant of Fail: the failure of an old source's refresh drops the new one's memo.
FailAlways(d) ==
  /\ refresh[d].st = "served" /\ faults < MaxFaults
  /\ refresh' = [refresh EXCEPT ![d].st = "failed"]
  /\ spent' = FALSE /\ faults' = faults + 1 /\ memo' = None
  /\ allowed' = IF Stands(d) THEN allowed + 1 ELSE allowed
  /\ UNCHANGED <<remote, cipher, queue, source, refusal, reads, boot, boots, asked>>
Fail(d) ==
  /\ refresh[d].st = "served" /\ faults < MaxFaults
  /\ refresh' = [refresh EXCEPT ![d].st = "failed"]
  /\ spent' = FALSE /\ faults' = faults + 1
  /\ memo' = IF Stands(d) THEN None ELSE memo
  /\ allowed' = IF Stands(d) THEN allowed + 1 ELSE allowed
  /\ UNCHANGED <<remote, cipher, queue, source, refusal, reads, boot, boots, asked>>

\* The refresh has settled: a recorded refusal surfaces as itself, and otherwise the
\* cipher held now gets the one retry.
Retry(d) ==
  /\ reads[d].st = "waiting" /\ Settled(reads[d].memo)
  /\ reads' = [reads EXCEPT ![d].st = IF refusal # None THEN "refused"
                                      ELSE IF Lists(held, reads[d].epoch) THEN "ok" ELSE "unknown"]
  /\ UNCHANGED <<remote, cipher, queue, guard, refresh, boot, bounds, ration>>

(***************************************************************************)
(* The chain of cipher operations                                          *)
(***************************************************************************)
Runs(kinds) == chain # <<>> /\ Head(chain).kind \in kinds
Rebuilds    == {"refresh", "apply"}

\* The operation that ends tells its caller: a refresh settles, a bootstrap goes on with
\* the schema, or gives the collection up.
Told(op, ok) ==
  IF op.kind = "refresh"
  THEN /\ refresh' = [refresh EXCEPT ![op.by].st = IF ok THEN "done" ELSE "refused"]
       /\ UNCHANGED boot
  ELSE /\ boot' = [boot EXCEPT !.st = IF ok THEN "meta" ELSE "source"]
       /\ UNCHANGED refresh

\* A roster the cipher holds or postdates changes nothing.
SkipRebuild ==
  /\ Runs(Rebuilds) /\ build = None /\ HoldsOrPostdates(Roster(Head(chain)))
  /\ chain' = Tail(chain) /\ Told(Head(chain), TRUE)
  /\ UNCHANGED <<remote, cipher, build, guard, reads, bounds, ration>>
\* Mutant of StartRebuild: the schema remembered is left out of the new cipher.
StartRebuildBare ==
  /\ Runs(Rebuilds) /\ build = None /\ ~HoldsOrPostdates(Roster(Head(chain)))
  /\ build' = [head |-> Roster(Head(chain)), meta |-> 0]
  /\ UNCHANGED <<remote, cipher, chain, guard, refresh, reads, boot, bounds, ration>>
StartRebuild ==
  /\ Runs(Rebuilds) /\ build = None /\ ~HoldsOrPostdates(Roster(Head(chain)))
  /\ build' = [head |-> Roster(Head(chain)), meta |-> meta]
  /\ UNCHANGED <<remote, cipher, chain, guard, refresh, reads, boot, bounds, ration>>

\* The cipher is built: it takes the place of the held one, and a descriptor of the
\* bootstrap re-arms the refresh.
Rebuilt ==
  /\ Runs(Rebuilds) /\ build # None /\ log[build.head].mine
  /\ held' = build.head /\ schema' = build.meta
  /\ chain' = Tail(chain) /\ build' = None /\ Told(Head(chain), TRUE)
  /\ IF Head(chain).kind = "apply"
     THEN spent' = FALSE /\ memo' = None /\ refusal' = None /\ allowed' = allowed + 1
     ELSE UNCHANGED <<spent, memo, refusal, allowed>>
  /\ UNCHANGED <<remote, meta, source, reads, bounds, asked>>

\* Mutant of RebuildFails: the operation that failed stays on the chain.
RebuildBlocks ==
  /\ Runs(Rebuilds) /\ build # None /\ ~log[build.head].mine
  /\ Told(Head(chain), FALSE)
  /\ IF Head(chain).kind = "refresh" THEN Record(Head(chain).by) ELSE UNCHANGED refusal
  /\ UNCHANGED <<remote, cipher, queue, source, spent, memo, reads, bounds, ration>>
\* The roster wraps no key to this app: a refresh records the refusal.
RebuildFails ==
  /\ Runs(Rebuilds) /\ build # None /\ ~log[build.head].mine
  /\ chain' = Tail(chain) /\ build' = None /\ Told(Head(chain), FALSE)
  /\ IF Head(chain).kind = "refresh" THEN Record(Head(chain).by) ELSE UNCHANGED refusal
  /\ UNCHANGED <<remote, cipher, source, spent, memo, reads, bounds, ration>>

\* applyCollectionMeta: the value is remembered, then installed on the cipher held now;
\* one it cannot decode is forgotten.  The bootstrap installs one only after a roster, so
\* the placeholder never meets one.
StartInstall ==
  /\ Runs({"meta"}) /\ build = None
  /\ meta' = boot.custom
  /\ build' = [head |-> 0, meta |-> boot.custom]
  /\ UNCHANGED <<remote, held, schema, chain, guard, refresh, reads, boot, bounds, ration>>
Decodes(m) == m = 0 \/ Lists(held, m)
Install ==
  /\ Runs({"meta"}) /\ build # None
  /\ \/ Decodes(build.meta) /\ schema' = build.meta /\ UNCHANGED meta
     \/ ~Decodes(build.meta) /\ meta' = 0 /\ UNCHANGED schema
  /\ chain' = Tail(chain) /\ build' = None
  /\ boot' = [boot EXCEPT !.st = "source"]
  /\ UNCHANGED <<remote, held, guard, refresh, reads, bounds, ration>>

(***************************************************************************)
(* The sync bootstrap                                                      *)
(***************************************************************************)
BootRead ==
  /\ boot.st = "idle" /\ boots < MaxBoots
  /\ boots' = boots + 1
  /\ boot' = [st |-> "read", head |-> Newest, custom |-> custom]
  /\ UNCHANGED <<remote, cipher, queue, guard, refresh, reads, faults, ration>>
Enqueue(kind) == chain' = Append(chain, [kind |-> kind, by |-> None])
BootApply ==
  /\ boot.st = "read" /\ boot' = [boot EXCEPT !.st = "applying"]
  /\ Enqueue("apply")
  /\ UNCHANGED <<remote, cipher, build, guard, refresh, reads, bounds, ration>>
\* The schema envelope the pass read, or the one read again after a declaration; a
\* read that fails, or a descriptor with no blinding key, skips the install.
BootSchema ==
  /\ boot.st = "meta"
  /\ \/ \E c \in {boot.custom, custom} :
          /\ boot' = [boot EXCEPT !.st = "installing", !.custom = c]
          /\ Enqueue("meta")
     \/ boot' = [boot EXCEPT !.st = "source"] /\ UNCHANGED chain
  /\ UNCHANGED <<remote, cipher, build, guard, refresh, reads, bounds, ration>>
\* setDescriptorSource re-arms the refresh as a whole.
SetSource ==
  /\ boot.st = "source" /\ boot' = NoBoot
  /\ source' = source + 1
  /\ spent' = FALSE /\ memo' = None /\ refusal' = None
  /\ asked' = 0 /\ allowed' = 1
  /\ UNCHANGED <<remote, cipher, queue, refresh, reads, bounds>>

(***************************************************************************)
(* The specification                                                       *)
(***************************************************************************)
\* The store opens on the cached descriptor, or on the placeholder.
Init ==
  /\ log = <<[epochs |-> 1, mine |-> TRUE]>> /\ custom = 0
  /\ held \in {0, 1} /\ schema = 0 /\ meta = 0
  /\ chain = <<>> /\ build = None
  /\ source = 0 /\ spent = FALSE /\ memo = None /\ refusal = None
  /\ refresh = [d \in Decrypts |-> [st |-> "none", source |-> 0, head |-> 0]]
  /\ reads = [d \in Decrypts |-> [st |-> "new", epoch |-> 0, memo |-> None]]
  /\ boot = NoBoot
  /\ boots = 0 /\ faults = 0 /\ asked = 0 /\ allowed = 0

Space     == \/ \E mine \in BOOLEAN : Rotate(mine)
             \/ Rewrap \/ WriteSchema
Answers(d) == Answer(d) \/ Refuse(d) \/ Fail(d)
Step(d)   == Serve(d) \/ Answers(d) \/ Retry(d)
Chain     == SkipRebuild \/ StartRebuild \/ Rebuilt \/ RebuildFails \/ StartInstall \/ Install
Boot      == BootRead \/ BootApply \/ BootSchema \/ SetSource

Next ==
  \/ Space \/ Chain \/ Boot
  \/ \E d \in Decrypts : Step(d) \/ \E e \in 1..Epochs(Newest) :
                                     Decrypt(d, e) \/ Join(d, e) \/ Spend(d, e)

Spec == Init /\ [][Next]_vars

\* Reads of the log are answered, and every queued operation of the cipher settles.
FairSpec ==
  /\ Spec /\ WF_vars(Chain)
  /\ \A d \in Decrypts : WF_vars(Serve(d)) /\ WF_vars(Answers(d)) /\ WF_vars(Retry(d))

(***************************************************************************)
(* Properties                                                              *)
(***************************************************************************)
\* The cipher never goes back to a roster with fewer epochs, however the refresh and the
\* bootstrap order their reads and their rebuilds (applyRemoteDescriptor: "the chain
\* never swaps an older roster back in").
NeverGoesBack == [][Epochs(held) <= Epochs(held)']_vars

\* A decrypt that fails with an unknown epoch after a refresh that succeeded asked for an
\* epoch the log did not list when that refresh read it: no rebuild that crossed it on
\* the chain has undone what it installed.
RefreshServes ==
  \A d \in Decrypts :
    LET m == reads[d].memo
    IN reads[d].st = "unknown" /\ m # None =>
         (refresh[m].st = "done" => reads[d].epoch > Epochs(refresh[m].head))

\* One source is asked once, and once more for each descriptor the bootstrap installs and
\* for each read of it that fails (setDescriptorSource: "at most once per collection per
\* source").
RefreshRationed == asked <= allowed

\* A refusal held against a source was given by that source, not by one replaced while
\* it answered ("a refusal the new source never gave").
RefusalStands == refusal # None => refresh[refusal].source = source

\* While no rebuild or install is under way the cipher carries the schema remembered
\* ("a schema install cannot land on a cipher a concurrent rebuild then replaces").
SchemaInstalled == build = None /\ meta # 0 => schema = meta

\* A schema the cipher carries survives every rebuild (rebuildCipher: "the blinded-index
\* schema survives an epoch-rotation rebuild and the unknown-epoch refresh").  Violated:
\* an install that fails forgets the schema installed before it.
SchemaSurvives == [][schema # 0 => schema' # 0]_vars

\* A decrypt is refused only for an epoch the cipher cannot open.  Violated: a refresh that
\* the bootstrap has overtaken records its refusal after the re-arm.
RefusedForCause ==
  [][\A d \in Decrypts : reads[d].st = "waiting" /\ reads'[d].st = "refused" =>
        ~Lists(held, reads[d].epoch)]_vars

\* Every decrypt settles: no failed operation blocks the chain or the shared refresh.
DecryptsSettle ==
  \A d \in Decrypts : reads[d].st = "waiting" ~> reads[d].st \in {"ok", "unknown", "refused"}

(***************************************************************************)
(* The invariants behind the properties, inductive together                *)
(***************************************************************************)
\* A roster that was read names a head of the log, and every head lists an epoch.
HeadsInv ==
  /\ \A i \in 1..Len(log) : log[i].epochs >= 1
  /\ \A d \in Decrypts : refresh[d].st \in {"served", "queued", "done"} => refresh[d].head >= 1
  /\ boot.st # "idle" => boot.head >= 1

\* An operation is queued once, by a caller that waits for it.
Caller(op) ==
  \/ op.kind = "refresh" /\ op.by \in Decrypts /\ refresh[op.by].st = "queued"
  \/ op.kind = "apply" /\ op.by = None /\ boot.st = "applying"
  \/ op.kind = "meta" /\ op.by = None /\ boot.st = "installing"
QueueInv ==
  /\ \A i \in 1..Len(chain) : Caller(chain[i])
  /\ \A i, j \in 1..Len(chain) : chain[i] = chain[j] => i = j

\* The running operation builds from its caller's roster, no older than the one held,
\* with the schema remembered.
BuildInv ==
  build # None =>
    /\ chain # <<>> /\ build.meta = meta
    /\ Runs(Rebuilds) => /\ build.head = Roster(Head(chain)) /\ build.head >= 1
                         /\ Epochs(held) <= Epochs(build.head)

\* Only an install under way parts the schema remembered from the one installed.
SchemaInv == meta # 0 /\ ~(build # None /\ Runs({"meta"})) => schema = meta

\* A refresh is left to ask whenever no refresh is shared.
RationInv ==
  /\ memo = None => ~spent
  /\ asked <= allowed
  /\ source # 0 /\ memo = None => asked < allowed

\* A decrypt shares a refresh that was spent, and ends when that refresh has settled.
SharedInv ==
  /\ \A m \in {memo, refusal} : m # None => refresh[m].st # "none"
  /\ \A d \in Decrypts :
       /\ reads[d].st = "new" => refresh[d].st = "none" /\ reads[d].memo = None
       /\ reads[d].memo # None => refresh[reads[d].memo].st # "none"
       /\ reads[d].st = "waiting" => reads[d].epoch >= 1
       /\ reads[d].st = "unknown" /\ reads[d].memo # None => Settled(reads[d].memo)

\* What a refresh that succeeded read is held, or an older roster than the one held.
DoneInv == \A d \in Decrypts : refresh[d].st = "done" => Epochs(refresh[d].head) <= Epochs(held)

CipherInv ==
  /\ HeadsInv /\ QueueInv /\ BuildInv /\ SchemaInv
  /\ RationInv /\ RefusalStands /\ SharedInv /\ DoneInv /\ RefreshServes
=============================================================================
