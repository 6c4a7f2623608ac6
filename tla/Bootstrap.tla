------------------------------ MODULE Bootstrap ------------------------------
(***************************************************************************)
(* How a connected session brings up encryption and replication:           *)
(* prepareActivation and beginSync of src/session/authStore.ts over        *)
(* descriptorManager, the descriptor cache of seedStore, spaceTrust,       *)
(* pwsRemoteStore, pwsSync, sharedCollectionReader and syncController      *)
(* (src/src/storage, src/src/identity).                                    *)
(*                                                                         *)
(* The Space is external: each governed collection has a log; a head lists *)
(* the epochs so far and wraps the last to accounts, and a rotation adds   *)
(* an epoch where a re-wrap adds none.  Each registered collection has a   *)
(* Metadata object that other apps edit too.  A descriptor is the head it  *)
(* was read from, 0 for none.  One action is the code from one await to    *)
(* the next; requests to the Space are answered in any order.              *)
(***************************************************************************)
EXTENDS Naturals, Sequences, FiniteSets

CONSTANTS
  Private, Public,   \* the app's registry: encrypted and plaintext collections
  Shared,            \* wallet-owned collections read through a reader
  Late,              \* registered by an app version newer than the grants of a reload
  Accounts, None,
  MaxHeads,          \* bound: heads of a log
  MaxEvents,         \* bound: failing requests, storage calls and replications, reads the host
                     \* answers with an earlier head, starts and stops of a controller by the
                     \* app, and changes by the Space's other clients, in all
  MaxPasses          \* bound: logins, restores and reconnects

\* validateCollections and validateSharedCollections of src/config.ts: no collection is
\* registered twice, none is both registered and shared.
Registry    == Private \cup Public
Governed    == Private \cup Shared
Collections == Registry \cup Shared

VARIABLES
  \* the Space
  log,       \* of each governed collection, its heads: how many epochs, whom the last is wrapped to
  meta,      \* of each registered collection, its Metadata object
  \* persisted on the device
  store,     \* the session store: the record's account, and the descriptor cache with its stamp
  \* the session
  act,       \* the activation or reconnect under way, or the session it left
  trust,     \* its SpaceTrust: the owner promise and the pinned heads
  col,       \* how far each collection's bring-up is
  got,       \* the descriptors read live in this bring-up
  cipher,    \* the head the open replica's private ciphers are built from, 0 for the placeholder
  schema,    \* the private ciphers that carry the declared index schema
  reader,    \* the shared readers
  puts,      \* cache writes under way
  ctl,       \* the session's SyncController
  spent,     \* what is spent of the bounds
  unopened   \* history: heads a completion cached before its replica was opened

space   == <<log, meta>>
replica == <<cipher, schema>>
session == <<act, trust, col, got, replica, reader>>
vars    == <<space, store, session, puts, ctl, spent, unopened>>

Heads   == 0..MaxHeads
NoHeads == [c \in Private |-> 0]
\* A Metadata object: its index list (of a public collection the member `plaintext.indexes`, of
\* a private one the schema in `custom`), and how often other apps changed the rest of its
\* `plaintext` member, and the members beside it.
Objects == [indexes : {"none", "ours", "theirs"}, plain : 0..MaxEvents, edits : 0..MaxEvents]
Blank   == [indexes |-> "none", plain |-> 0, edits |-> 0]
Head0   == [epochs : Nat \ {0}, to : SUBSET Accounts]
Calls   == {"session", "app"}

ASSUME ConstantsOK ==
  /\ Private \cap Public = {} /\ Registry \cap Shared = {} /\ Late \subseteq Registry
  /\ None \notin Accounts \cup Calls /\ None \notin Objects
  /\ {MaxEvents, MaxPasses} \subseteq Nat /\ MaxHeads \in Nat \ {0}

Session == [at : {"out", "prepare", "caching", "open", "pass", "shared", "start", "up", "failed", "expired"},
            acct : Accounts \cup {None}, kind : {"login", "live", "expired"},
            granted : SUBSET Collections, cached : [Private -> Heads]]
Bring   == [at : {"idle", "read", "hook", "applied", "declared", "done", "failed"},
            wants : SUBSET {"head", "meta"},
            cur  : Objects \cup {None},   \* the object the pass read
            base : Objects \cup {None},   \* the one its declaration is pinned to
            wrote : BOOLEAN, hit : BOOLEAN]
Put     == [acct : Accounts, kind : {"login", "boot"}, heads : [Private -> Heads],
            base : [Private -> Heads] \cup {None}]
Reader  == [head : Heads, refreshed : BOOLEAN, missed : SUBSET Nat]

Working == {"read", "hook", "applied", "declared"}
Settled == \A c \in Collections : col[c].at \notin Working

TypeOK ==
  /\ log \in [Governed -> Seq(Head0)] /\ \A c \in Governed : Len(log[c]) <= MaxHeads
  /\ meta \in [Registry -> Objects \cup {None}]
  /\ store \in [record : Accounts \cup {None}, owner : Accounts \cup {None}, heads : [Private -> Heads]]
  /\ act \in Session /\ col \in [Collections -> Bring] /\ got \in [Private -> Heads]
  /\ trust \in [owner : {"none", "pending", "known"}, pins : [Governed -> Heads]]
  /\ cipher \in [Private -> Heads] /\ schema \subseteq Private
  /\ reader \in [Shared -> Reader] /\ puts \subseteq Put
  /\ ctl \in [stopped : BOOLEAN, imports : SUBSET Calls, held : Calls \cup {None},
              starting : SUBSET Calls, live : 0..2]
  /\ \A c \in Governed : trust.pins[c] <= Len(log[c])
  /\ act.at \in {"out", "caching", "open", "start", "up", "failed", "expired"} =>
       Settled

Idle     == [at |-> "idle", wants |-> {}, cur |-> None, base |-> None, wrote |-> FALSE, hit |-> FALSE]
NewTrust == [owner |-> "none", pins |-> [c \in Governed |-> 0]]
NoCtl    == [stopped |-> TRUE, imports |-> {}, held |-> None, starting |-> {}, live |-> 0]
NewCtl   == [NoCtl EXCEPT !.stopped = FALSE]
Unread   == [head |-> 0, refreshed |-> FALSE, missed |-> {}]
Out      == [at |-> "out", acct |-> None, kind |-> "login", granted |-> {}, cached |-> NoHeads]
Empty    == [record |-> None, owner |-> None, heads |-> NoHeads]

Init ==
  \* not provisioned, or opened to every account
  /\ \/ log = [c \in Governed |-> << >>] /\ meta = [c \in Registry |-> None]
     \/ /\ log = [c \in Governed |-> <<[epochs |-> 1, to |-> Accounts]>>]
        /\ meta = [c \in Registry |-> Blank]
  /\ store = Empty /\ act = Out /\ trust = NewTrust /\ got = NoHeads
  /\ cipher = NoHeads /\ schema = {} /\ col = [c \in Collections |-> Idle]
  /\ reader = [c \in Shared |-> Unread] /\ puts = {} /\ ctl = NoCtl /\ unopened = {}
  /\ spent = [events |-> 0, passes |-> 0]

Event == spent.events < MaxEvents /\ spent' = [spent EXCEPT !.events = @ + 1]
\* What a wallet grants: checkGrants asks for the whole registry, a shared collection it may
\* decline.  parseGrants routes what a record kept, by an older app version's registry.
WalletGrants == {Registry \cup shared : shared \in SUBSET Shared}
StoredGrants == {granted \ late : granted \in WalletGrants, late \in SUBSET Late}
\* Whether head k of c's log wraps its write epoch to this session's account: a cipher unwraps
\* that one when it is built.
Opens(c, k)    == k # 0 /\ act.acct \in log[c][k].to
Epochs(c, k)   == IF k = 0 THEN 0 ELSE log[c][k].epochs
Lists(c, k, e) == e \in 1..Epochs(c, k)

\* The reads of `cs` begin: the wanted parts of each, and the owner's log if no one asked yet.
Begin(was, cs, wanted) ==
  [c \in Collections |-> IF c \notin cs THEN was[c] ELSE
     [Idle EXCEPT !.at = IF wanted[c] = {} THEN "hook" ELSE "read", !.wants = wanted[c]]]
Asking(t, cs, wanted) ==
  IF t.owner = "none" /\ \E c \in cs : "head" \in wanted[c] THEN [t EXCEPT !.owner = "pending"] ELSE t
AllIdle == [c \in Collections |-> Idle]
\* Nothing of a bring-up outlives it.
Closed == act' = Out /\ trust' = NewTrust /\ got' = NoHeads /\ cipher' = NoHeads /\ schema' = {}
          /\ col' = AllIdle /\ reader' = [c \in Shared |-> Unread]

(***************************************************************************)
(* The network half of an activation: the cached descriptors, completed    *)
(* by live reads of the granted private collections the cache misses       *)
(***************************************************************************)
\* mutant: the stamp is not looked at
ReadAllUnstamped(a) == store.heads
\* createDescriptorCache.readAll: another account's entries read as none.
ReadAll(a) == IF store.owner = a THEN store.heads ELSE NoHeads

Prepare(a, kind, granted) ==
  \E unread \in BOOLEAN :       \* a cache that cannot be read counts as empty
    LET cached  == IF unread THEN NoHeads ELSE ReadAll(a)
        missing == IF kind = "expired" THEN {} ELSE {c \in Private \cap granted : cached[c] = 0}
        wanted  == [c \in Collections |-> {"head"}]
    IN /\ spent.passes < MaxPasses /\ (unread => spent.events < MaxEvents)
       /\ spent' = [spent EXCEPT !.passes = @ + 1, !.events = IF unread THEN @ + 1 ELSE @]
       /\ act' = [at |-> IF missing = {} THEN "open" ELSE "prepare",
                  acct |-> a, kind |-> kind, granted |-> granted, cached |-> cached]
       /\ col' = Begin(AllIdle, missing, wanted)
       /\ trust' = Asking(NewTrust, missing, wanted)
       /\ got' = NoHeads
       /\ UNCHANGED <<space, store, replica, reader, puts, ctl, unopened>>

Login(a) == act.at = "out" /\ \E granted \in WalletGrants : Prepare(a, "login", granted)
Restore  ==
  /\ act.at = "out" /\ store.record # None
  /\ \E kind \in {"live", "expired"}, granted \in StoredGrants : Prepare(store.record, kind, granted)

(***************************************************************************)
(* The reads of one pass                                                   *)
(***************************************************************************)
Done(c, hit) == [col EXCEPT ![c] = [Idle EXCEPT !.at = "done", !.hit = hit]]
Fail(c) == [col EXCEPT ![c] = [Idle EXCEPT !.at = "failed", !.hit = TRUE]]
\* mutant: the roster the app cannot open stays in the set to cache
WithdrawnNot(c) == got
\* A collection that failed leaves nothing in the fetched set.
Withdrawn(c) == [got EXCEPT ![c] = 0]
Waits(c) == col[c].at = "read" /\ "head" \in col[c].wants
\* Part w of c's reads is answered; the hook runs when all are, except before the replica is open.
Answered(c, w) ==
  LET rest == col[c].wants \ {w} IN
  [col[c] EXCEPT !.wants = rest,
     !.at = IF rest # {} THEN "read" ELSE IF act.at = "pass" THEN "hook" ELSE "done"]

\* SpaceTrust.owner: one resolution shared by all; a failed one is forgotten.
OwnerKnown ==
  /\ trust.owner = "pending" /\ trust' = [trust EXCEPT !.owner = "known"]
  /\ UNCHANGED <<space, store, act, col, got, replica, reader, puts, ctl, spent, unopened>>
OwnerFails ==
  /\ trust.owner = "pending" /\ Event
  /\ trust' = [trust EXCEPT !.owner = "none"]
  /\ col' = [c \in Collections |-> IF Waits(c) THEN Fail(c)[c] ELSE col[c]]
  /\ UNCHANGED <<space, store, act, got, replica, reader, puts, ctl, unopened>>

\* buildSharedCipher: no roster, or one that leaves the app out, builds no cipher.
SharedBuilds(c, k) == Opens(c, k)
\* SharedCollectionReader.open, which the bootstrap survives.
SharedOpened(c, k) ==
  IF SharedBuilds(c, k)
  THEN reader' = [reader EXCEPT ![c].head = k] /\ col' = [col EXCEPT ![c] = Answered(c, "head")]
  ELSE UNCHANGED reader /\ col' = Fail(c)

\* The verified head a host may serve: the last, or an earlier one where no pin forbids it.
Serves(c, k) == k \in trust.pins[c]..Len(log[c]) /\ (k < Len(log[c]) => spent.events < MaxEvents)
SpendHead(c, k) == IF k = Len(log[c]) THEN UNCHANGED spent ELSE Event
Served(c) ==
  /\ Waits(c) /\ trust.owner = "known"
  /\ \E k \in Heads :
       /\ Serves(c, k) /\ SpendHead(c, k)
       /\ trust' = [trust EXCEPT !.pins[c] = k]
       /\ IF c \in Shared THEN UNCHANGED got /\ SharedOpened(c, k)
          ELSE /\ got' = [got EXCEPT ![c] = k] /\ UNCHANGED reader
               /\ col' = [col EXCEPT ![c] = Answered(c, "head")]
  /\ UNCHANGED <<space, store, act, replica, puts, ctl, unopened>>
ReadFails(c) ==
  /\ col[c].at = "read" /\ Event /\ col' = Fail(c)
  /\ got' = IF c \in Private THEN Withdrawn(c) ELSE got
  /\ UNCHANGED <<space, store, act, trust, replica, reader, puts, ctl, unopened>>
\* readCollectionMeta: a missing object, and a refusal the host masks as one, answer no object.
MetaRead(c) ==
  /\ col[c].at = "read" /\ "meta" \in col[c].wants
  /\ \E cur \in {meta[c], None} :
       /\ IF cur = meta[c] THEN UNCHANGED spent ELSE Event
       /\ col' = [col EXCEPT ![c] = [Answered(c, "meta") EXCEPT !.cur = cur, !.base = cur, !.hit = cur # meta[c]]]
  /\ UNCHANGED <<space, store, act, trust, got, replica, reader, puts, ctl, unopened>>

\* completeDescriptors: a login gives up on a failed read, a restore skips the collection.
Completed ==
  LET failures == {c \in Private : col[c].at = "failed"}
      fetched  == {c \in Private : got[c] # 0} IN
  /\ act.at = "prepare" /\ Settled
  /\ IF act.kind = "login" /\ failures # {}
     THEN Closed /\ UNCHANGED puts
     ELSE /\ act' = [act EXCEPT !.at = IF fetched = {} THEN "open" ELSE "caching"]
          /\ puts' = IF fetched = {} THEN puts ELSE
               puts \cup {[acct |-> act.acct, kind |-> "login", heads |-> got, base |-> None]}
          /\ UNCHANGED <<trust, col, got, replica, reader>>
  /\ unopened' = unopened \cup {<<act.acct, c, got[c]>> : c \in fetched}
  /\ UNCHANGED <<space, store, ctl, spent>>

(***************************************************************************)
(* The descriptor cache: one read-modify-write per put, serialized only    *)
(* within the cache instance, and an instance is built per put             *)
(***************************************************************************)
Awaited(p) == act' = IF p.kind = "login" THEN [act EXCEPT !.at = "open"] ELSE act
PutReads(p) ==
  /\ p.base = None /\ puts' = (puts \ {p}) \cup {[p EXCEPT !.base = ReadAll(p.acct)]}
  /\ UNCHANGED <<space, store, session, ctl, spent, unopened>>
PutSaves(p) ==
  /\ p.base # None /\ puts' = puts \ {p}
  /\ store' = [store EXCEPT !.owner = p.acct,
       !.heads = [c \in Private |-> IF p.heads[c] # 0 THEN p.heads[c] ELSE p.base[c]]]
  /\ Awaited(p)
  /\ UNCHANGED <<space, trust, col, got, replica, reader, ctl, spent, unopened>>
PutFails(p) ==
  /\ Event /\ puts' = puts \ {p} /\ Awaited(p)
  /\ UNCHANGED <<space, store, trust, col, got, replica, reader, ctl, unopened>>

(***************************************************************************)
(* The replica opens, and the bootstrap's pass over the registry           *)
(***************************************************************************)
\* startPwsSync's pass: what it wants of each granted collection, given what is known.
StartPass(a, kind, granted, known, t) ==
  LET cs     == Registry \cap granted
      wanted == [c \in Collections |-> IF c \in Public THEN {"meta"}
                                       ELSE IF known[c] = 0 THEN {"head", "meta"} ELSE {}] IN
  /\ act' = [act EXCEPT !.at = "pass", !.acct = a, !.kind = kind, !.granted = granted]
  /\ store' = [store EXCEPT !.record = a]
  /\ col' = Begin(AllIdle, cs, [c \in Collections |-> IF c \in Shared THEN {} ELSE wanted[c]])
  /\ trust' = Asking(t, cs, [c \in Collections |-> IF c \in Shared THEN {} ELSE wanted[c]])
  /\ got' = known /\ ctl' = NewCtl

\* LocalStore.init: every cipher is built, or the replica does not open.
Open ==
  LET with == [c \in Private |-> IF act.cached[c] # 0 THEN act.cached[c] ELSE got[c]] IN
  /\ act.at = "open" /\ \A c \in Private : with[c] # 0 => Opens(c, with[c])
  /\ cipher' = with /\ schema' = {}
  /\ IF act.kind = "expired"
     THEN act' = [act EXCEPT !.at = "expired"] /\ UNCHANGED <<store, trust, col, got, ctl>>
     ELSE StartPass(act.acct, act.kind, act.granted, got, trust)
  /\ UNCHANGED <<space, reader, puts, spent, unopened>>
\* activateConnected: a roster that leaves the app out costs an expired session its record.
OpenFails ==
  /\ act.at = "open"
  /\ \E c \in Private : LET k == IF act.cached[c] # 0 THEN act.cached[c] ELSE got[c] IN k # 0 /\ ~Opens(c, k)
  /\ Closed /\ store' = IF act.kind = "expired" THEN Empty ELSE store
  /\ UNCHANGED <<space, puts, ctl, spent, unopened>>

\* mutant: a hook's failure rejects the whole pass
EscapesPass == [act EXCEPT !.at = "failed"]
Escapes == act

\* mutant: every roster that differs counts as new
HoldsSame(c, k) == cipher[c] # 0 /\ log[c][cipher[c]] = log[c][k]
\* The cipher's head has epochs that head k lacks.  Of two heads with the same epochs neither is
\* known to be the earlier.
Postdates(c, k) == Lists(c, cipher[c], Epochs(c, k)) /\ ~Lists(c, k, Epochs(c, cipher[c]))
HoldsOrPostdates(c, k) == cipher[c] # 0 /\ (log[c][cipher[c]] = log[c][k] \/ Postdates(c, k))
\* applyRemoteDescriptor: any other roster replaces the cipher.
Replaces(c) == got[c] # 0 /\ ~HoldsOrPostdates(c, got[c])
Apply(c) ==
  /\ c \in Private /\ col[c].at = "hook"
  /\ IF Replaces(c) /\ ~Opens(c, got[c])
     THEN col' = Fail(c) /\ got' = Withdrawn(c) /\ act' = Escapes /\ UNCHANGED cipher
     ELSE /\ cipher' = IF Replaces(c) THEN [cipher EXCEPT ![c] = got[c]] ELSE cipher
          /\ UNCHANGED <<act, got>>
          /\ col' = IF got[c] = 0 THEN Done(c, col[c].hit) ELSE [col EXCEPT ![c].at = "applied"]
  /\ UNCHANGED <<space, store, trust, schema, reader, puts, ctl, spent, unopened>>

\* declareBlindedIndexes: a compare-and-swap of its own, after its own read.
DeclareBlinded(c) ==
  /\ c \in Private /\ col[c].at = "applied"
  /\ \/ /\ meta[c] # None
        /\ meta' = [meta EXCEPT ![c].indexes = "ours"] /\ UNCHANGED spent
        /\ col' = [col EXCEPT ![c] = [@ EXCEPT !.at = "declared", !.wrote = meta[c].indexes # "ours"]]
     \/ /\ \/ meta[c] = None /\ UNCHANGED spent
           \/ Event
        /\ UNCHANGED meta
        /\ col' = [col EXCEPT ![c] = [@ EXCEPT !.at = "declared", !.hit = TRUE]]
  /\ UNCHANGED <<log, store, act, trust, got, replica, reader, puts, ctl, unopened>>
\* mutant: the object the pass read serves whatever the declaration did
ReadAgainNever(c) == col[c].cur = None
\* The schema install takes the object the pass read unless the declaration wrote a new one.
ReadAgain(c) == col[c].cur = None \/ col[c].wrote
Install(c) ==
  /\ col[c].at = "declared"
  /\ \/ LET read == IF ReadAgain(c) THEN meta[c] ELSE col[c].cur IN
        /\ schema' = IF read # None /\ read.indexes = "ours" THEN schema \cup {c} ELSE schema
        /\ col' = Done(c, col[c].hit) /\ UNCHANGED spent
     \/ /\ ReadAgain(c) /\ Event /\ UNCHANGED schema
        /\ col' = Done(c, TRUE)
  /\ UNCHANGED <<space, store, act, trust, got, cipher, reader, puts, ctl, unopened>>

\* mutant: the object the pass read is written back whole
MergedWhole(c) == [col[c].cur EXCEPT !.indexes = "ours"]
\* declareCollectionIndexes: the `plaintext` member as the pass read it, with its index list
\* replaced, over the other members of the object the write is pinned to.
Merged(c) == [col[c].base EXCEPT !.plain = col[c].cur.plain, !.indexes = "ours"]
\* With no object read nothing is written, and nothing if the list read is the app's own.  A write
\* that lost its race is rebased on the object read again; lost repeatedly, it is reported.
DeclareIndexes(c) ==
  /\ c \in Public /\ col[c].at = "hook"
  /\ LET cur    == col[c].cur
         writes == cur # None /\ cur.indexes # "ours"
         pinned == col[c].base = meta[c] IN
     \/ /\ ~writes /\ col' = Done(c, cur = None \/ col[c].hit) /\ UNCHANGED <<meta, spent>>
     \/ /\ writes /\ pinned /\ meta' = [meta EXCEPT ![c] = Merged(c)]
        /\ col' = Done(c, FALSE) /\ UNCHANGED spent
     \/ /\ writes /\ ~pinned /\ UNCHANGED <<meta, spent>>
        /\ \/ col' = [col EXCEPT ![c].base = meta[c]]
           \/ col[c].base # cur /\ col' = Done(c, TRUE)
     \/ /\ writes /\ Event /\ UNCHANGED meta /\ col' = Done(c, TRUE)
  /\ UNCHANGED <<log, store, act, trust, got, replica, reader, puts, ctl, unopened>>

\* The fetched set goes to the cache, not awaited; the shared readers open.
AfterPass ==
  LET cs     == Shared \cap act.granted
      wanted == [c \in Collections |-> {"head"}] IN
  /\ act.at = "pass" /\ Settled
  /\ act' = [act EXCEPT !.at = "shared"]
  /\ puts' = puts \cup {[acct |-> act.acct, kind |-> "boot", heads |-> got, base |-> None]}
  /\ col' = Begin(col, cs, wanted) /\ trust' = Asking(trust, cs, wanted)
  /\ unopened' = unopened \cup {<<act.acct, c, got[c]>> : c \in {d \in Private : Postdates(d, got[d])}}
  /\ UNCHANGED <<space, store, got, replica, reader, ctl, spent>>

(***************************************************************************)
(* SyncController: start suspends on the import of the driver              *)
(***************************************************************************)
Startable == ctl.held = None /\ ~ctl.stopped
\* start, called by the bootstrap or by the app that holds the controller.
StartCall(who) ==
  /\ IF who = "session"
     THEN /\ act.at = "shared" /\ Settled /\ UNCHANGED spent
          /\ act' = [act EXCEPT !.at = IF Startable THEN "start" ELSE "up"]
     ELSE /\ act.at \in {"pass", "shared", "start", "up"} /\ who \notin ctl.imports \cup ctl.starting
          /\ Event /\ UNCHANGED act
  /\ ctl' = IF Startable THEN [ctl EXCEPT !.imports = @ \cup {who}] ELSE ctl
  /\ UNCHANGED <<space, store, trust, col, got, replica, reader, puts, unopened>>
Returns(who) == act' = IF who = "session" THEN [act EXCEPT !.at = "up"] ELSE act
\* mutant: the guard before the import is trusted
StillStartableThen == TRUE
\* After the import the guard is checked again.
StillStartable == ctl.held = None /\ ~ctl.stopped
ImportLands(who) ==
  /\ who \in ctl.imports
  /\ IF StillStartable
     THEN /\ ctl' = [ctl EXCEPT !.imports = @ \ {who}, !.held = who, !.live = @ + 1, !.starting = @ \cup {who}]
          /\ UNCHANGED act
     ELSE ctl' = [ctl EXCEPT !.imports = @ \ {who}] /\ Returns(who)
  /\ UNCHANGED <<space, store, trust, col, got, replica, reader, puts, spent, unopened>>
CoreStarted(who) ==
  /\ who \in ctl.starting /\ ctl' = [ctl EXCEPT !.starting = @ \ {who}] /\ Returns(who)
  /\ UNCHANGED <<space, store, trust, col, got, replica, reader, puts, spent, unopened>>
\* The core unwinds itself, the controller drops it, and the bootstrap publishes no reader.
CoreFails(who) ==
  /\ who \in ctl.starting /\ Event
  /\ ctl' = [ctl EXCEPT !.starting = @ \ {who}, !.held = None,
                        !.live = IF ctl.held = who THEN @ - 1 ELSE @]
  /\ IF who = "session"
     THEN act' = [act EXCEPT !.at = "failed"] /\ reader' = [c \in Shared |-> Unread]
     ELSE UNCHANGED <<act, reader>>
  /\ UNCHANGED <<space, store, trust, col, got, replica, puts, unopened>>
\* stop is terminal, and drops the core it stops.
Stopped(k) == [k EXCEPT !.stopped = TRUE, !.held = None, !.live = IF k.held = None THEN @ ELSE @ - 1]
Stop ==
  /\ act.at \in {"pass", "shared", "start", "up"} /\ Event
  /\ ctl' = Stopped(ctl)
  /\ UNCHANGED <<space, store, session, puts, unopened>>

(***************************************************************************)
(* A listing of a shared collection                                        *)
(***************************************************************************)
\* A body sealed under an epoch the cipher's roster does not list is left out.  (So is one of an
\* epoch listed and not wrapped to the app, which changes nothing here.)
Unlisted(c, head, shelf) == {e \in shelf : ~Lists(c, head, e)}
\* mutant: the cipher the reader opened with is never refreshed
RefreshesNever(c, shelf) == FALSE
\* Such a body spends the reader's one refresh.
Refreshes(c, shelf) == ~reader[c].refreshed /\ Unlisted(c, reader[c].head, shelf) # {}
List(c) ==
  /\ act.at = "up" /\ c \in Shared /\ reader[c].head # 0
  /\ \E shelf \in SUBSET (1..Epochs(c, Len(log[c]))) :
     IF Refreshes(c, shelf)
     THEN \E k \in Heads, failed \in BOOLEAN :
            /\ Serves(c, k) /\ (failed => k = Len(log[c]))
            /\ IF failed THEN Event ELSE SpendHead(c, k)
            /\ LET head == IF ~failed /\ Opens(c, k) THEN k ELSE reader[c].head IN
               /\ reader' = [reader EXCEPT ![c] = [head |-> head, refreshed |-> TRUE,
                               missed |-> Unlisted(c, head, shelf)]]
               /\ trust' = IF failed THEN trust ELSE [trust EXCEPT !.pins[c] = k]
     ELSE /\ reader' = [reader EXCEPT ![c].missed = Unlisted(c, reader[c].head, shelf)]
          /\ UNCHANGED <<trust, spent>>
  /\ UNCHANGED <<space, store, act, col, got, replica, puts, ctl, unopened>>

(***************************************************************************)
(* Leaving the session                                                     *)
(***************************************************************************)
Resting == act.at \in {"up", "failed", "expired"}
\* reconnect: the controller stops, and beginSync runs with a trust of its own and nothing known.
Reconnect ==
  /\ Resting /\ store.record = act.acct /\ spent.passes < MaxPasses /\ spent' = [spent EXCEPT !.passes = @ + 1]
  /\ \E granted \in WalletGrants : StartPass(act.acct, "live", granted, NoHeads, NewTrust)
  /\ reader' = [c \in Shared |-> Unread]
  /\ UNCHANGED <<space, replica, puts, unopened>>
\* logout and clearLocalData: the bring-up is awaited, the session store is cleared.
Logout ==
  /\ Resting \/ (act.at = "out" /\ store # Empty)
  /\ Closed /\ store' = Empty /\ ctl' = NoCtl
  /\ UNCHANGED <<space, puts, spent, unopened>>
\* A reload at any moment.
Crash ==
  /\ act.at # "out"
  /\ Closed /\ puts' = {} /\ ctl' = NoCtl
  /\ UNCHANGED <<space, store, spent, unopened>>

(***************************************************************************)
(* The Space's other clients                                               *)
(***************************************************************************)
Governs(c, epochs, to) ==
  /\ Len(log[c]) < MaxHeads /\ Event
  /\ log' = [log EXCEPT ![c] = Append(@, [epochs |-> epochs, to |-> to])]
  /\ UNCHANGED <<meta, store, session, puts, ctl, unopened>>
Rotate(c) == \E to \in SUBSET Accounts \ {{}} : Governs(c, Epochs(c, Len(log[c])) + 1, to)
\* A share escrows its recipient into the epochs there are.
Rewrap(c) ==
  /\ log[c] # << >>
  /\ \E to \in SUBSET Accounts \ {{}, log[c][Len(log[c])].to} : Governs(c, Epochs(c, Len(log[c])), to)
\* Another app changes a member beside `plaintext`, one inside it, or declares a list of its own
\* there, which takes this app's away.
Edit(c) ==
  /\ Event
  /\ LET now == IF meta[c] = None THEN Blank ELSE meta[c] IN
     \/ meta' = [meta EXCEPT ![c] = [now EXCEPT !.edits = @ + 1]] /\ UNCHANGED col
     \/ c \in Public /\ meta' = [meta EXCEPT ![c] = [now EXCEPT !.plain = @ + 1]] /\ UNCHANGED col
     \/ /\ c \in Public /\ now.indexes # "theirs"
        /\ meta' = [meta EXCEPT ![c] = [now EXCEPT !.indexes = "theirs"]]
        /\ col' = [col EXCEPT ![c].hit = col[c].at # "idle"]
  /\ UNCHANGED <<log, store, act, trust, got, replica, reader, puts, ctl, unopened>>

Bringing ==
  \/ OwnerKnown \/ OwnerFails \/ Completed \/ Open \/ OpenFails \/ AfterPass
  \/ \E c \in Collections : Served(c) \/ ReadFails(c)
  \/ \E c \in Registry : MetaRead(c)
  \/ \E c \in Private : Apply(c) \/ DeclareBlinded(c) \/ Install(c)
  \/ \E c \in Public : DeclareIndexes(c)
  \/ \E p \in puts : PutReads(p) \/ PutSaves(p) \/ PutFails(p)
  \/ StartCall("session")
  \/ \E who \in Calls : ImportLands(who) \/ CoreStarted(who) \/ CoreFails(who)
Next ==
  \/ Bringing \/ Restore \/ Reconnect \/ Logout \/ Crash \/ Stop \/ StartCall("app")
  \/ \E a \in Accounts : Login(a)
  \/ \E c \in Shared : List(c)
  \/ \E c \in Governed : Rotate(c) \/ Rewrap(c)
  \/ \E c \in Registry : Edit(c)

Spec == Init /\ [][Next]_vars
-----------------------------------------------------------------------------
(***************************************************************************)
(* Properties                                                              *)
(***************************************************************************)
\* Every descriptor in the offline cache opens for the account the cache is stamped with
\* (createDescriptorCache, readGrantedEncryption), but for the heads no cipher was built from:
\* those a completion cached before its replica opened, and one the cipher was found to postdate.
CacheOpens ==
  \A c \in Private : LET k == store.heads[c] IN
    k # 0 => store.owner \in log[c][k].to \/ <<store.owner, c, k>> \in unopened
CacheOpensAll ==
  \A c \in Private : LET k == store.heads[c] IN k # 0 => store.owner \in log[c][k].to

\* While a replica is open no cipher is rebuilt from a head with fewer epochs, across reconnects too
\* (#holdsOrPostdates), and while its readers are no reader goes back to an earlier head (the
\* trust's pins).  An earlier head with the same epochs may replace a later one after a reload or
\* a reconnect, whose pins are fresh.
Rests == {"pass", "shared", "start", "up", "failed", "expired"}
EpochsAdvance == [][
  /\ act.at \in Rests /\ act'.at \in Rests =>
       \A c \in Private : Epochs(c, cipher'[c]) >= Epochs(c, cipher[c])
  /\ act.at = "up" /\ act'.at = "up" => \A c \in Shared : reader'[c].head >= reader[c].head]_vars

\* No write drops what another app put beside the `plaintext` member, whenever it did; what one
\* put inside is dropped only by a declaration that lost a race, and only if it was put there
\* after the pass had read the object (declareCollectionIndexes, #configure).
CarriesForward == [][\A c \in Registry : meta[c] # None =>
  /\ meta'[c] # None /\ meta'[c].edits >= meta[c].edits
  /\ meta'[c].plain < meta[c].plain =>
       col[c].base # col[c].cur /\ meta'[c].plain >= col[c].cur.plain]_vars

\* When a bootstrap is over, a collection is short of its cipher, its schema, its declaration
\* or its reader only for a read or write of its own that failed or a list another app put in place
\* of its own, never for another's (readGrantedEncryption, startPwsSync, spaceTrust); a bootstrap
\* fails only once all are settled, and a listing leaves out a body of an epoch new to its reader
\* only with the reader's refresh spent.
Complete(c) ==
  CASE c \in Private -> ~Replaces(c) /\ (got[c] # 0 /\ meta[c] # None /\ meta[c].indexes = "ours" => c \in schema)
    [] c \in Public  -> meta[c] # None /\ meta[c].indexes = "ours"
    [] c \in Shared  -> reader[c].head # 0
DegradesForCause ==
  /\ act.at = "failed" => Settled
  /\ act.at = "up" => \A c \in act.granted : col[c].hit \/ Complete(c)
  /\ \A c \in Shared : reader[c].missed # {} => reader[c].refreshed

\* One controller runs one core, and none once it was stopped (SyncController).
OneCore ==
  /\ ctl.live = IF ctl.held = None THEN 0 ELSE 1
  /\ ctl.stopped => ctl.held = None
-----------------------------------------------------------------------------
(***************************************************************************)
(* The invariants that make those inductive                                *)
(***************************************************************************)
\* The start under way is the one the controller waits for, and the bring-up waits for its own.
CtlInv ==
  /\ OneCore
  /\ ~ctl.stopped => ctl.starting \subseteq {ctl.held}
  /\ "session" \in ctl.imports \cup ctl.starting => act.at = "start"
  /\ "session" \notin ctl.imports \cap ctl.starting

\* A login waits for the one put it made.
PutInv ==
  \A p, q \in puts : p.kind = "login" => act.at = "caching" /\ (q.kind = "login" => p = q)

\* Every head held anywhere is one of the log.
LogInv ==
  \A c \in Private :
    /\ {got[c], cipher[c], store.heads[c], act.cached[c]} \subseteq 0..Len(log[c])
    /\ \A p \in puts : p.heads[c] <= Len(log[c]) /\ (p.base # None => p.base[c] <= Len(log[c]))

\* A session has an account.
AcctInv == act.at # "out" => act.acct # None

\* The bounds hold, and no object was edited more often than the other clients acted.
SpentInv ==
  /\ spent \in [events : 0..MaxEvents, passes : 0..MaxPasses]
  /\ \A c \in Registry : meta[c] # None => meta[c].edits <= spent.events /\ meta[c].plain <= spent.events

\* A completion reads live only what the cache misses.
PrepareInv ==
  act.at \in {"prepare", "caching", "open"} =>
    \A c \in Private : col[c].at = "read" \/ got[c] # 0 => act.cached[c] = 0

\* A declaration reads an object there is, no newer than it is now, and is pinned to one; the app's
\* own list goes only for another app's.
MetaInv ==
  \A c \in Registry :
    /\ col[c].cur # None => /\ meta[c] # None /\ col[c].base # None /\ col[c].at # "idle"
                            /\ col[c].cur.plain <= meta[c].plain
    /\ c \in Private /\ col[c].cur # None /\ col[c].at \in {"read", "hook", "applied"} =>
         col[c].cur.indexes = meta[c].indexes
    /\ c \in Public /\ col[c].cur # None /\ col[c].cur.indexes = "ours" =>
         meta[c].indexes = "ours" \/ col[c].hit
    /\ c \in Private /\ col[c].at = "declared" /\ ~col[c].hit =>
         meta[c] # None /\ meta[c].indexes = "ours"
         /\ (col[c].cur = None \/ col[c].wrote \/ col[c].cur.indexes = "ours")

\* A collection of the pass has still to be brought up, was hit, or is complete; a descriptor read
\* live is applied, or about to be.
BringInv ==
  act.at \in {"pass", "shared", "start", "up"} =>
    /\ \A c \in act.granted : c \in Registry \/ act.at # "pass" => col[c].at # "idle"
    /\ act.at = "pass" => \A c \in Shared : col[c].at = "idle"
    /\ act.at = "shared" => \A c \in Registry : col[c].at \notin Working
    /\ \A c \in Collections :
         /\ col[c].at = "failed" => col[c].hit
         /\ col[c].at = "done" => col[c].hit \/ Complete(c)
    /\ \A c \in Private :
         /\ Waits(c) => got[c] = 0
         /\ col[c].at \in {"applied", "declared"} => ~Replaces(c)
         /\ Replaces(c) => col[c].at \in {"read", "hook"}

\* What a replica is built from opens for its account.
CipherInv ==
  act.at \in Rests => \A c \in Private : cipher[c] # 0 => Opens(c, cipher[c])

\* So does what the cache holds, or is about to, but for the excused heads.
Keeps(a, heads) ==
  \A c \in Private : heads[c] # 0 => a \in log[c][heads[c]].to \/ <<a, c, heads[c]>> \in unopened
CacheInv ==
  /\ Keeps(store.owner, store.heads)
  /\ \A p \in puts : Keeps(p.acct, p.heads) /\ (p.base # None => Keeps(p.acct, p.base))

\* A body a listing leaves out is past the one refresh, and a reader is no later than the pins.
ReaderInv ==
  \A c \in Shared :
    /\ reader[c].missed # {} => reader[c].refreshed
    /\ reader[c].head <= trust.pins[c]
    /\ act.at = "out" => reader[c].head = 0

BringUpInv ==
  /\ CtlInv /\ PutInv /\ LogInv /\ AcctInv /\ SpentInv /\ PrepareInv
  /\ MetaInv /\ BringInv /\ CipherInv /\ CacheInv /\ ReaderInv
=============================================================================
