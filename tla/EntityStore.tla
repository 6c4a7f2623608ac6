----------------------------- MODULE EntityStore -----------------------------
(***************************************************************************)
(* One entity store (src/src/storage/entityStore.ts) over its collection   *)
(* of the local replica (src/src/storage/localStore.ts), and the change    *)
(* feed and sessions of the storage context                                *)
(* (src/src/storage/storageContext.ts).                                    *)
(*                                                                         *)
(* The app's verbs show a document at once and persist it behind the other *)
(* writes of its id; pulls rewrite the replica and patch the store through *)
(* a buffer, out of order; a re-hydrate lists the replica and replaces     *)
(* what the store shows; the session may change under all of them.         *)
(***************************************************************************)
EXTENDS Naturals, Sequences, FiniteSets, SequencesExt

CONSTANTS
  Ids,          \* logical document ids (uuids)
  Ops,          \* calls of insert, update, upsert and remove
  Pulls,        \* changes other devices make
  Kinds,        \* the verbs the app calls
  None,         \* no value
  MaxStores, MaxFaults, MaxLists   \* bounds: replicas opened, failing writes, re-hydrates

VARIABLES
  \* the entity store
  byId,       \* the document shown for each id
  inFlight,   \* the persist queue of each id that has one
  pending,    \* the pull patches buffered for the next flush
  ops,        \* the verb calls, each with the locals it holds
  \* the replicas and the storage context
  rows,       \* the row of each envelope, of each replica
  index,      \* the hydration index of each replica
  attached,   \* the replica attached, 0 for none
  stores,     \* how many replicas have been opened
  closing,    \* the replica detached but not yet closed, 0 for none
  swap,       \* a replica swap is open
  listing,    \* the hydrate under way
  timer,      \* a re-hydrate is scheduled
  \* the change feed
  events,     \* change events whose decrypt has not finished
  pulled,     \* the pulls made so far
  \* bounds and history
  clock, faults, lists,
  clashes     \* history: the crossings met so far that the code does not guard

store  == <<byId, inFlight, pending>>
held   == <<rows, index>>
lives  == <<attached, stores, closing, swap>>
feed   == <<events, pulled>>
vars   == <<store, ops, held, lives, listing, timer, feed, clock, faults, lists, clashes>>

Optional(S) == S \cup {None}
Envelopes   == Ops \cup Pulls       \* an envelope is named for the call that minted it
Docs        == [id : Ids, ts : Nat, src : Ops \cup Pulls]
Rows        == [doc : Docs, dead : BOOLEAN]
Listing     == [Envelopes -> Optional(Rows)]
Index       == [at : Nat, of : [Ids -> Optional(Envelopes)]]
Change      == [store : Nat, env : Envelopes, doc : Docs, dead : BOOLEAN]
Entry       == [queue : Seq(Ops), latest : Optional(Docs), confirmed : Optional(Docs),
                moved : BOOLEAN]      \* history: a pull or a listing came in meanwhile
Call        == [st : {"new", "queued", "look", "put", "map", "patch", "bury", "done", "acked",
                      "rejected"},
                kind : Optional(Kinds), id : Optional(Ids), doc : Optional(Docs), store : Nat,
                env : Optional(Envelopes), seen : Optional(Listing), at : Nat]
NewCall     == [st |-> "new", kind |-> None, id |-> None, doc |-> None, store |-> 0,
                env |-> None, seen |-> None, at |-> 0]
NoRows      == [e \in Envelopes |-> None]
Listed      == [store : Nat, seen : Listing]

ASSUME ConstantsOK ==
  /\ Ops \cap Pulls = {}
  /\ None \notin Kinds \cup Ids \cup Envelopes \cup Docs \cup Rows \cup Listing \cup Index \cup Entry
           \cup Listed
  /\ Kinds \subseteq {"insert", "update", "upsert", "remove"}
  /\ {MaxStores, MaxFaults, MaxLists} \subseteq Nat

\* What the code leaves unguarded.  A behaviour records the crossings it meets, and the
\* properties claim that nothing else parts a store from its replica:
\*   rewrite    a write is issued while a remove of the same document is queued
\*   list       a listing read the replica before a change it then overwrites, or the
\*              other way round
\*   rollback   a persist rejects after a pull or a listing moved the document, or after
\*              its row was written
\*   overtaken  a pull races a queued verb, or two pulls of a document each other, with
\*              a tombstone or a winning document among them
\*   outlived   a verb or a listing of one session ends in the next
\*   twin       an insert of a document the replica already holds
Crossings == {"rewrite", "list", "rollback", "overtaken", "outlived", "twin"}

TypeOK ==
  /\ byId \in [Ids -> Optional(Docs)]
  /\ inFlight \in [Ids -> Optional(Entry)]
  /\ pending \in Seq(Change)
  /\ ops \in [Ops -> Call]
  /\ rows \in [1..MaxStores -> Listing]
  /\ index \in [1..MaxStores -> Optional(Index)]
  /\ attached \in 0..stores /\ stores \in 0..MaxStores /\ closing \in 0..stores
  /\ swap \in BOOLEAN /\ timer \in BOOLEAN
  /\ listing \in Optional(Listed)
  /\ events \subseteq Change /\ pulled \subseteq Pulls
  /\ clock \in Nat /\ faults \in Nat /\ lists \in Nat
  /\ clashes \subseteq Crossings

(***************************************************************************)
(* Helpers                                                                 *)
(***************************************************************************)
\* remotePayloadWins: the later stamp, then the greater writer id.
Wins(incoming, current) ==
  \/ incoming.ts > current.ts
  \/ incoming.ts = current.ts /\ incoming.src \in Pulls /\ current.src \in Ops

Live(seen)      == {e \in Envelopes : seen[e] # None /\ ~seen[e].dead}
LiveOf(seen, i) == {e \in Live(seen) : seen[e].doc.id = i}
OneOf(S)        == IF S = {} THEN None ELSE CHOOSE e \in S : TRUE
DocIn(seen, i)  == IF LiveOf(seen, i) = {} THEN None ELSE seen[OneOf(LiveOf(seen, i))].doc
IndexOf(seen)   == [i \in Ids |-> OneOf(LiveOf(seen, i))]
ListIndex(s, seen) ==
  [at |-> IF index[s] = None THEN 1 ELSE index[s].at + 1, of |-> IndexOf(seen)]

Busy(o)    == ops[o].st \notin {"new", "acked", "rejected"}
Open(s)    == s # 0 /\ s \in {attached, closing}
Outstanding(i) == {c \in events \cup Range(pending) : c.doc.id = i}
Moved(entry) == IF entry = None THEN None ELSE [entry EXCEPT !.moved = TRUE]
\* Flush is a microtask: it runs before a timer, a storage read or the network gets a turn.
Flushed     == pending = <<>>
Crossed(c, happens) == IF happens THEN {c} ELSE {}

\* The index of replica s maps id i to envelope e, on the Map object that was current
\* at version at: one replaced meanwhile takes the change and is forgotten.
Mapped(s, at, i, e) ==
  IF index[s] # None /\ index[s].at = at
  THEN [index EXCEPT ![s].of[i] = e] ELSE index

(***************************************************************************)
(* The verbs                                                               *)
(***************************************************************************)
\* enqueue and, for a write, stampLww and commitDoc, in the caller's own turn.  With
\* no replica attached and no swap open the call rejects and leaves nothing behind.
\* The app inserts what it does not see and updates what it sees.
Entered(i) ==
  IF inFlight[i] # None THEN inFlight[i]
  ELSE [queue |-> <<>>, latest |-> byId[i], confirmed |-> byId[i],
        moved |-> Outstanding(i) # {}]
Issue(o, kind, i) ==
  /\ ops[o].st = "new"
  /\ attached # 0 \/ swap
  /\ (kind = "insert" => byId[i] = None) /\ (kind = "update" => byId[i] # None)
  /\ LET doc   == IF kind = "remove" THEN None ELSE [id |-> i, ts |-> clock + 1, src |-> o]
         entry == [Entered(i) EXCEPT !.queue = Append(@, o)]
     IN /\ ops' = [ops EXCEPT ![o] = [NewCall EXCEPT !.st = "queued", !.kind = kind,
                                                     !.id = i, !.doc = doc]]
        /\ IF kind = "remove"
             THEN inFlight' = [inFlight EXCEPT ![i] = entry] /\ UNCHANGED byId
             ELSE /\ inFlight' = [inFlight EXCEPT ![i] = [entry EXCEPT !.latest = doc]]
                  /\ byId' = [byId EXCEPT ![i] = doc]
        /\ clashes' = clashes
             \cup Crossed("rewrite", kind # "remove" /\ \E b \in Range(entry.queue) :
                                                            ops[b].kind = "remove")
             \cup Crossed("outlived", closing # 0)
             \cup Crossed("overtaken", \E c \in Outstanding(i) : kind = "remove" \/ c.dead)
  /\ clock' = clock + 1
  /\ UNCHANGED <<pending, held, lives, listing, timer, feed, faults, lists>>

\* The op at the head of its id's queue starts: awaitStore waits out a swap, and
\* resolves the replica attached when its turn comes, or rejects.
\* Mutant of Turn: the persists of one id run side by side.
TurnUnqueued(o) == ops[o].st = "queued" /\ ~swap
Turn(o) == ops[o].st = "queued" /\ Head(inFlight[ops[o].id].queue) = o /\ ~swap
Start(o) ==
  /\ Turn(o) /\ attached # 0
  /\ ops' = [ops EXCEPT ![o].st = IF ops[o].kind = "insert" THEN "put" ELSE "look",
                        ![o].store = attached]
  /\ UNCHANGED <<store, held, lives, listing, timer, feed, clock, faults, lists, clashes>>

\* ensureIndex on a replica that has not been hydrated lists it first.
NeedsIndex(o) == ops[o].st \in {"look", "map"} /\ index[ops[o].store] = None
ListForIndex(o) ==
  /\ NeedsIndex(o) /\ ops[o].seen = None /\ Open(ops[o].store)
  /\ ops' = [ops EXCEPT ![o].seen = rows[ops[o].store]]
  /\ UNCHANGED <<store, held, lives, listing, timer, feed, clock, faults, lists, clashes>>
\* A listing that knows less of replica s than the index, or more than there is.
Outdated(s, seen) ==
  \/ index[s] # None /\ \E e \in Live(rows[s]) : seen[e] = None /\ index[s].of[rows[s][e].doc.id] = e
  \/ \E e \in Live(seen) : rows[s][e].dead
SetIndex(o) ==
  /\ ops[o].seen # None
  /\ index' = [index EXCEPT ![ops[o].store] = ListIndex(ops[o].store, ops[o].seen)]
  /\ ops' = [ops EXCEPT ![o].seen = None]
  /\ clashes' = clashes \cup Crossed("list", Outdated(ops[o].store, ops[o].seen))
  /\ UNCHANGED <<store, rows, lives, listing, timer, feed, clock, faults, lists>>

\* updateEntity, upsertEntity and deleteEntity look the envelope up.  An envelope that
\* is gone makes an update a fresh create, and a delete a no-op.
Ready(o, step) == ops[o].st = step /\ ops[o].seen = None /\ index[ops[o].store] # None
Look(o) ==
  /\ Ready(o, "look") /\ Open(ops[o].store)
  /\ LET s == ops[o].store
         i == ops[o].id
         e == index[s].of[i]
         found == e # None /\ rows[s][e] # None /\ ~rows[s][e].dead
     IN /\ ops' = [ops EXCEPT ![o].env = IF found THEN e ELSE None, ![o].at = index[s].at,
             ![o].st = CASE ops[o].kind = "remove" -> IF found THEN "bury" ELSE "done"
                         [] OTHER -> IF found THEN "patch" ELSE "put"]
        /\ index' = IF found THEN index ELSE [index EXCEPT ![s].of[i] = None]
  /\ UNCHANGED <<store, rows, lives, listing, timer, feed, clock, faults, lists, clashes>>

\* insertEntity: a new row under a fresh envelope, then its place in the index.
Put(o) ==
  /\ ops[o].st = "put" /\ Open(ops[o].store)
  /\ rows' = [rows EXCEPT ![ops[o].store][o] = [doc |-> ops[o].doc, dead |-> FALSE]]
  /\ ops' = [ops EXCEPT ![o].st = "map", ![o].env = o]
  /\ clashes' = clashes \cup Crossed("twin",
       LET there == LiveOf(rows[ops[o].store], ops[o].id)
       IN there \cap Pulls # {} \/ (ops[o].kind = "insert" /\ there # {}))
  /\ UNCHANGED <<store, index, lives, listing, timer, feed, clock, faults, lists>>

MapEnvelope(o) ==
  /\ Ready(o, "map")
  /\ index' = [index EXCEPT ![ops[o].store].of[ops[o].id] = ops[o].env]
  /\ ops' = [ops EXCEPT ![o].st = "done"]
  /\ clashes' = clashes \cup Crossed("list",
       listing # None /\ listing.store = ops[o].store /\ listing.seen[ops[o].env] = None)
  /\ UNCHANGED <<store, rows, lives, listing, timer, feed, clock, faults, lists>>

\* The incremental write of updateEntity: the row as it stands now takes the payload.
Patch(o) ==
  /\ ops[o].st = "patch" /\ Open(ops[o].store)
  /\ rows' = [rows EXCEPT ![ops[o].store][ops[o].env].doc = ops[o].doc]
  /\ ops' = [ops EXCEPT ![o].st = "done"]
  /\ UNCHANGED <<store, index, lives, listing, timer, feed, clock, faults, lists, clashes>>

\* deleteEntity tombstones the row, and forgets it in the index it looked up.
Bury(o) ==
  /\ ops[o].st = "bury" /\ Open(ops[o].store)
  /\ rows' = [rows EXCEPT ![ops[o].store][ops[o].env].dead = TRUE]
  /\ index' = Mapped(ops[o].store, ops[o].at, ops[o].id, None)
  /\ ops' = [ops EXCEPT ![o].st = "done"]
  /\ UNCHANGED <<store, lives, listing, timer, feed, clock, faults, lists, clashes>>

\* A listing that read the rows before this one was written.
Predates(o) ==
  /\ listing # None /\ listing.store = ops[o].store /\ ops[o].env # None
  /\ IF ops[o].kind = "remove" THEN ops[o].env \in Live(listing.seen)
     ELSE listing.seen[ops[o].env] = None \/ listing.seen[ops[o].env].doc # ops[o].doc

\* settle: the op leaves the queue, and the last one takes the entry with it.
Settled(entry) ==
  IF Len(entry.queue) = 1 THEN None ELSE [entry EXCEPT !.queue = Tail(@)]
Finish(o) ==
  /\ ops[o].st = "done"
  /\ LET i == ops[o].id
         e == inFlight[i]
     IN IF ops[o].kind = "remove"
          THEN /\ inFlight' = [inFlight EXCEPT ![i] =
                    Settled([e EXCEPT !.latest = None, !.confirmed = None])]
               /\ byId' = [byId EXCEPT ![i] = None]
          ELSE /\ inFlight' = [inFlight EXCEPT ![i] = Settled([e EXCEPT !.confirmed = ops[o].doc])]
               /\ UNCHANGED byId
  /\ ops' = [ops EXCEPT ![o].st = "acked"]
  /\ clashes' = clashes \cup Crossed("list", Predates(o))
  /\ UNCHANGED <<pending, held, lives, listing, timer, feed, clock, faults, lists>>

\* The persist rejects: no replica when its turn comes, a replica closed under it, or
\* a failing storage call.  What the store shows falls back to the last persisted
\* document while no later write of the id stands on top of it.
Rejects(o) ==
  /\ \/ Turn(o) /\ attached = 0 /\ UNCHANGED faults
     \/ /\ ops[o].st \in {"look", "put", "patch", "bury"} \/ NeedsIndex(o)
        /\ IF Open(ops[o].store) THEN faults < MaxFaults /\ faults' = faults + 1
           ELSE UNCHANGED faults
  /\ LET i == ops[o].id
         e == inFlight[i]
         back == ops[o].kind # "remove" /\ e.latest = ops[o].doc
     IN /\ inFlight' = [inFlight EXCEPT ![i] =
             Settled(IF back THEN [e EXCEPT !.latest = e.confirmed] ELSE e)]
        /\ byId' = IF back THEN [byId EXCEPT ![i] = e.confirmed] ELSE byId
        /\ clashes' = clashes \cup Crossed("rollback", e.moved \/ ops[o].st = "map")
  /\ ops' = [ops EXCEPT ![o].st = "rejected", ![o].seen = None]
  /\ UNCHANGED <<pending, held, lives, listing, timer, feed, clock, lists>>

(***************************************************************************)
(* Pulls and the change feed                                               *)
(***************************************************************************)
\* Replication installs a change of another device: a new row, a newer payload of
\* a row, or a tombstone.  Its event starts to decrypt.
Install(e, doc, dead) ==
  /\ rows' = [rows EXCEPT ![attached][e] = [doc |-> doc, dead |-> dead]]
  /\ events' = events \cup {[store |-> attached, env |-> e, doc |-> doc, dead |-> dead]}
  /\ inFlight' = [inFlight EXCEPT ![doc.id] = Moved(@)]
  /\ clashes' = clashes \cup Crossed("overtaken",
       \/ \E c \in Outstanding(doc.id) : dead \/ c.dead
       \/ dead /\ inFlight[doc.id] # None
       \/ /\ inFlight[doc.id] # None
          /\ \/ \E o \in Range(inFlight[doc.id].queue) : ops[o].kind = "remove"
             \/ inFlight[doc.id].latest # None /\ Wins(doc, inFlight[doc.id].latest))
Pull(p) ==
  /\ Flushed /\ p \notin pulled /\ attached # 0 /\ index[attached] # None
  /\ pulled' = pulled \cup {p}
  /\ \/ \E i \in Ids, ts \in 0..clock :
          /\ LiveOf(rows[attached], i) = {} /\ inFlight[i] = None
          /\ Install(p, [id |-> i, ts |-> ts, src |-> p], FALSE)
     \/ \E e \in Live(rows[attached]), ts \in 0..clock :
          LET doc == [rows[attached][e].doc EXCEPT !.ts = ts, !.src = p]
          IN Wins(doc, rows[attached][e].doc) /\ Install(e, doc, FALSE)
     \/ \E e \in Live(rows[attached]) : Install(e, rows[attached][e].doc, TRUE)
  /\ UNCHANGED <<byId, pending, ops, index, lives, listing, timer, clock, faults, lists>>

\* patchFromChange, its decrypt done: an event of a replica no longer attached is
\* dropped, and so is a tombstone of an envelope the id does not live in.
StaleTombstone(c) ==
  c.dead /\ index[c.store] # None /\ index[c.store].of[c.doc.id] \notin {None, c.env}
\* Mutant of Deliver: the event is not bound to the replica it came from.
DeliverUnbound(c) ==
  /\ c \in events /\ events' = events \ {c}
  /\ IF StaleTombstone(c) THEN UNCHANGED <<index, pending>>
     ELSE /\ index' = IF index[c.store] = None THEN index
                      ELSE [index EXCEPT ![c.store].of[c.doc.id] = IF c.dead THEN None ELSE c.env]
          /\ pending' = Append(pending, c)
  /\ clashes' = clashes \cup Crossed("list", c.store = attached /\ listing # None)
  /\ UNCHANGED <<byId, inFlight, ops, rows, lives, listing, timer, pulled, clock, faults, lists>>
Deliver(c) ==
  /\ c \in events /\ events' = events \ {c}
  /\ IF c.store # attached \/ StaleTombstone(c) THEN UNCHANGED <<index, pending>>
     ELSE /\ index' = IF index[c.store] = None THEN index
                      ELSE [index EXCEPT ![c.store].of[c.doc.id] = IF c.dead THEN None ELSE c.env]
          /\ pending' = Append(pending, c)
  /\ clashes' = clashes \cup Crossed("list", c.store = attached /\ listing # None)
  /\ UNCHANGED <<byId, inFlight, ops, rows, lives, listing, timer, pulled, clock, faults, lists>>

\* The decrypt failed: the whole collection is scheduled for a re-hydrate.
Undecodable(c) ==
  /\ c \in events /\ c.store = attached /\ lists < MaxLists
  /\ events' = events \ {c}
  /\ timer' = TRUE
  /\ UNCHANGED <<store, ops, held, lives, listing, pulled, clock, faults, lists, clashes>>

\* flushPending: the burst in order, a stale document losing to the one shown.
\* Mutants of Applied: the last event wins whatever its stamp; a buffered change is shown
\* in place of its document.
AppliedBlindly(shown, c) == [shown EXCEPT ![c.doc.id] = IF c.dead THEN None ELSE c.doc]
AppliedWhole(shown, c)   == [shown EXCEPT ![c.doc.id] = IF c.dead THEN None ELSE c]
Applied(shown, c) ==
  IF c.dead THEN [shown EXCEPT ![c.doc.id] = None]
  ELSE IF shown[c.doc.id] # None /\ ~Wins(c.doc, shown[c.doc.id]) THEN shown
  ELSE [shown EXCEPT ![c.doc.id] = c.doc]
Burst(shown, changes) == FoldLeft(Applied, shown, changes)
Flush ==
  /\ pending # <<>> /\ pending' = <<>>
  /\ byId' = Burst(byId, pending)
  /\ clashes' = clashes \cup Crossed("list", listing # None)
  /\ UNCHANGED <<inFlight, ops, held, lives, listing, timer, feed, clock, faults, lists>>

(***************************************************************************)
(* Hydration and the session                                               *)
(***************************************************************************)
\* The scheduled re-hydrate fires; its timer died with the replica, had that gone.
Rehydrate ==
  /\ Flushed /\ timer /\ attached # 0 /\ listing = None
  /\ timer' = FALSE /\ lists' = lists + 1
  /\ listing' = [store |-> attached, seen |-> rows[attached]]
  /\ UNCHANGED <<store, ops, held, lives, feed, clock, faults, clashes>>

\* The listing has decrypted: it replaces the index and what the store shows, the
\* documents whose writes are still in flight excepted.
Hydrated ==
  /\ Flushed /\ listing # None /\ listing' = None
  /\ LET s == listing.store
     IN /\ index' = [index EXCEPT ![s] = ListIndex(s, listing.seen)]
        /\ byId' = [i \in Ids |-> IF inFlight[i] # None THEN inFlight[i].latest
                                  ELSE DocIn(listing.seen, i)]
  /\ inFlight' = [i \in Ids |-> Moved(inFlight[i])]
  /\ clashes' = clashes \cup Crossed("list", \E o \in Ops :
       ops[o].st = "done" /\ ops[o].kind = "remove" /\ LiveOf(listing.seen, ops[o].id) # {})
  /\ UNCHANGED <<pending, ops, rows, lives, timer, feed, clock, faults, lists>>

\* A session lets its replica go, inside a replica swap or for good.
Detach(swaps) ==
  /\ attached # 0 /\ index[attached] # None /\ ~swap
  /\ stores < MaxStores
  /\ attached' = 0 /\ closing' = attached /\ swap' = swaps /\ timer' = FALSE
  /\ UNCHANGED <<store, ops, held, stores, listing, feed, clock, faults, lists, clashes>>

\* The detached replica is closed, then every entity store is cleared.
Outlives(o) == Busy(o) /\ (~swap \/ ops[o].store = closing)
CloseAndClear ==
  /\ closing # 0 /\ closing' = 0
  /\ byId' = [i \in Ids |-> None] /\ pending' = <<>>
  /\ clashes' = clashes \cup Crossed("outlived",
       (\E o \in Ops : Outlives(o)) \/ (listing # None /\ listing.store = closing))
  /\ UNCHANGED <<inFlight, ops, held, attached, stores, swap, listing, timer, feed, clock,
                 faults, lists>>

\* The next replica is opened and attached, and its hydrate lists it.  A swap has merged
\* the documents of the last one into it first (each keeps its envelope's name here).
Attach ==
  /\ attached = 0 /\ closing = 0 /\ stores < MaxStores /\ listing = None
  /\ attached' = stores + 1 /\ stores' = stores + 1
  /\ \/ /\ swap /\ UNCHANGED pulled
        /\ rows' = [rows EXCEPT ![stores + 1] = [e \in Envelopes |->
                      IF e \in Live(rows[stores]) THEN rows[stores][e] ELSE None]]
     \/ /\ ~swap /\ UNCHANGED <<rows, pulled>>
     \/ /\ ~swap /\ \E p \in Pulls \ pulled, i \in Ids :
             /\ pulled' = pulled \cup {p}
             /\ rows' = [rows EXCEPT ![stores + 1][p] =
                           [doc |-> [id |-> i, ts |-> 0, src |-> p], dead |-> FALSE]]
  /\ listing' = [store |-> stores + 1, seen |-> rows'[stores + 1]]
  /\ UNCHANGED <<store, ops, index, closing, swap, timer, events, clock, faults, lists, clashes>>
\* Mutant of EndSwap: the swap waits for the verbs that wait for the swap.
EndSwapDrained ==
  /\ swap /\ attached # 0 /\ index[attached] # None /\ listing = None
  /\ \A o \in Ops : ~Busy(o)
  /\ swap' = FALSE
  /\ UNCHANGED <<store, ops, held, attached, stores, closing, listing, timer, feed, clock,
                 faults, lists, clashes>>
EndSwap ==
  /\ swap /\ attached # 0 /\ index[attached] # None /\ listing = None
  /\ swap' = FALSE
  /\ UNCHANGED <<store, ops, held, attached, stores, closing, listing, timer, feed, clock,
                 faults, lists, clashes>>

(***************************************************************************)
(* The specification                                                       *)
(***************************************************************************)
Init ==
  /\ byId = [i \in Ids |-> None] /\ inFlight = [i \in Ids |-> None] /\ pending = <<>>
  /\ ops = [o \in Ops |-> NewCall]
  /\ rows = [s \in 1..MaxStores |-> NoRows] /\ index = [s \in 1..MaxStores |-> None]
  /\ attached = 0 /\ stores = 0 /\ closing = 0 /\ swap = FALSE
  /\ listing = None /\ timer = FALSE
  /\ events = {} /\ pulled = {}
  /\ clock = 0 /\ faults = 0 /\ lists = 0 /\ clashes = {}

Persist(o) ==
  \/ Start(o) \/ ListForIndex(o) \/ SetIndex(o) \/ Look(o) \/ Put(o) \/ MapEnvelope(o)
  \/ Patch(o) \/ Bury(o) \/ Finish(o) \/ Rejects(o)

Next ==
  \/ \E o \in Ops, kind \in Kinds, i \in Ids : Issue(o, kind, i)
  \/ \E o \in Ops : Persist(o)
  \/ \E p \in Pulls : Pull(p)
  \/ \E c \in events : Deliver(c) \/ Undecodable(c)
  \/ Flush \/ Rehydrate \/ Hydrated
  \/ \E swaps \in BOOLEAN : Detach(swaps)
  \/ CloseAndClear \/ Attach \/ EndSwap

Spec == Init /\ [][Next]_vars

\* Storage calls settle, and a lifecycle task that detached a replica for a swap
\* goes on to attach the next one.
FairSpec ==
  /\ Spec
  /\ \A o \in Ops : WF_vars(Persist(o))
  /\ WF_vars(Flush) /\ WF_vars(Hydrated) /\ WF_vars(CloseAndClear)
  /\ WF_vars(swap /\ Attach) /\ WF_vars(EndSwap)

(***************************************************************************)
(* Properties                                                              *)
(***************************************************************************)
\* Nothing is under way on id i.
Quiet(i) ==
  /\ attached # 0 /\ index[attached] # None /\ ~swap
  /\ inFlight[i] = None /\ Outstanding(i) = {} /\ listing = None /\ ~timer

\* What a store shows of a document is what its replica holds, once the writes, the
\* pulls and the listings of the document have settled (entityStore.ts: "the Map holds
\* exactly what is persisted").
MapShowsReplica ==
  \A i \in Ids : Quiet(i) =>
    IF LiveOf(rows[attached], i) = {} THEN byId[i] = None
    ELSE \E e \in LiveOf(rows[attached], i) : byId[i] = rows[attached][e].doc

\* The same in every behaviour without one of the Crossings: writes and pulls in any
\* order, failing persists, swaps and new sessions keep store and replica together.
MapShowsReplicaUncrossed == clashes = {} => MapShowsReplica

\* The writes of one document never leave it in two rows of a replica (inFlight: "two
\* unawaited upserts on a fresh id cannot both take the replica's insert path and
\* mint two rows"), and the hydration index finds the one there is.
OneRowPerDocument ==
  clashes = {} => \A s \in 1..stores, i \in Ids :
    /\ \A d, e \in LiveOf(rows[s], i) : d = e
    /\ s = attached /\ Quiet(i) /\ LiveOf(rows[s], i) # {} => index[s].of[i] \in LiveOf(rows[s], i)

\* A write that was acknowledged is never overwritten by an earlier one: its document,
\* or one that wins over it, stays in the replica it was acknowledged in.
NewestWriteStands ==
  clashes = {} => \A o \in Ops : ops[o].st = "acked" /\ ops[o].kind # "remove" =>
    \E e \in Envelopes : /\ rows[ops[o].store][e] # None
                         /\ rows[ops[o].store][e].doc.id = ops[o].id
                         /\ ~Wins(ops[o].doc, rows[ops[o].store][e].doc)

\* A change pulled into one session's replica is never shown in a later session: what a
\* store shows, no write of the document outstanding, is in the attached replica or was
\* superseded there (whileAttached: "a write into the NEXT session's replica").
ShowsNoForeignPull ==
  clashes = {} => \A i \in Ids :
    attached # 0 /\ inFlight[i] = None /\ byId[i] # None /\ byId[i].src \in Pulls =>
      \E e \in Envelopes : /\ rows[attached][e] # None /\ rows[attached][e].doc.id = i
                           /\ ~Wins(byId[i], rows[attached][e].doc)

\* While the persist of a document's last write is queued, what is shown is that write
\* or a document that wins over it (inFlight: "`latest` is the doc the Map shows for the
\* id while the queue runs").  Violated where a remove ahead of it settles.
ShowsLastWrite ==
  \A i \in Ids : inFlight[i] # None /\ ops[Last(inFlight[i].queue)].kind # "remove" =>
    byId[i] # None /\ ~Wins(ops[Last(inFlight[i].queue)].doc, byId[i])

\* Every call of a verb settles: a failed persist does not block the queue behind it,
\* and a swap that opens ends.
CallsSettle == \A o \in Ops : ops[o].st = "queued" ~> ops[o].st \in {"acked", "rejected"}

(***************************************************************************)
(* The inductive invariant: what store, calls, replica and feed may rely   *)
(* on while no crossing was met                                            *)
(***************************************************************************)
Uncrossed  == clashes = {}
InUse      == attached # 0 \/ closing # 0
Running(o) == ops[o].st \in {"look", "put", "map", "patch", "bury", "done"}
Writes(o)  == ops[o].kind # "remove"
Queue(i)   == inFlight[i].queue
Alive(i)    == LiveOf(rows[stores], i)
Shown(i)   == DocIn(rows[stores], i)
Out(i)     == {c \in Outstanding(i) : c.store = stores}
\* The event of the change that made row e is still to be delivered.
Announced(e)  == \E c \in events : c.store = stores /\ c.env = e /\ ~c.dead
\* Some row of the document is at least as new as d.
Backed(d)     == \E e \in Envelopes : /\ rows[stores][e] # None /\ rows[stores][e].doc.id = d.id
                                      /\ ~Wins(d, rows[stores][e].doc)

\* A call holds what its step needs, and runs at the head of its queue.
CallShape(o) ==
  /\ ops[o].st = "new" => ops[o] = NewCall
  /\ ops[o].st # "new" => ops[o].kind # None /\ ops[o].id # None
  /\ ops[o].st # "new" /\ Writes(o) => /\ ops[o].doc # None /\ ops[o].doc.id = ops[o].id
                                       /\ ops[o].doc.src = o /\ ops[o].doc.ts <= clock
  /\ ~Writes(o) => ops[o].doc = None
  /\ ops[o].st = "queued" => ops[o].store = 0 /\ ops[o].env = None /\ ops[o].seen = None
  /\ Busy(o) => inFlight[ops[o].id] # None /\ o \in Range(Queue(ops[o].id))
  /\ Running(o) => Head(Queue(ops[o].id)) = o /\ ops[o].store \in 1..stores
  /\ ops[o].seen # None => ops[o].st \in {"look", "map"}
  /\ ops[o].st = "look" => ops[o].kind # "insert" /\ ops[o].env = None
  /\ ops[o].st = "put" => Writes(o) /\ ops[o].env = None
  /\ ops[o].st = "map" => Writes(o) /\ ops[o].env = o
  /\ ops[o].st = "patch" => Writes(o) /\ ops[o].kind # "insert"
  /\ ops[o].st = "bury" => ~Writes(o)
  /\ ops[o].st \in {"patch", "bury"} => ops[o].env # None
  /\ ops[o].st \in {"done", "acked"} /\ Writes(o) => ops[o].env # None /\ ops[o].store \in 1..stores
  /\ Running(o) /\ ops[o].env # None => rows[ops[o].store][ops[o].env] # None
QueueShape(i) == inFlight[i] # None =>
  /\ Queue(i) # <<>>
  /\ \A k \in DOMAIN Queue(i) : /\ Busy(Queue(i)[k]) /\ ops[Queue(i)[k]].id = i
                                /\ k > 1 => ops[Queue(i)[k]].st = "queued"
  /\ \A j, k \in DOMAIN Queue(i) : j # k => Queue(i)[j] # Queue(i)[k]
ShapeInv ==
  /\ \A o \in Ops : CallShape(o)
  /\ \A i \in Ids : QueueShape(i)
  /\ swap => stores # 0

\* One replica is in use; a listing and the pull burst are of it.
SessionInv ==
  /\ attached \in {0, stores} /\ closing \in {0, stores} /\ (attached = 0 \/ closing = 0)
  /\ timer => attached # 0
  /\ \A s \in 1..MaxStores : s > stores => index[s] = None /\ rows[s] = NoRows
  /\ \A k \in DOMAIN pending : pending[k].store = stores /\ InUse
  /\ \A c \in events : c.store \in 1..stores
  /\ listing # None => listing.store = stores /\ stores # 0
  /\ InUse /\ index[stores] = None => attached # 0 /\ listing # None
  /\ Uncrossed /\ listing # None => InUse /\ pending = <<>>

\* No stamp is of the future.
StampInv ==
  /\ \A s \in 1..MaxStores, e \in Envelopes : rows[s][e] # None => rows[s][e].doc.ts <= clock
  /\ \A c \in events \cup Range(pending) : c.doc.ts <= clock
  /\ listing # None => \A e \in Envelopes : listing.seen[e] # None => listing.seen[e].doc.ts <= clock

\* A document is filed under its own id.
IdInv == \A i \in Ids :
  /\ byId[i] # None => byId[i].id = i
  /\ inFlight[i] # None => /\ inFlight[i].latest # None => inFlight[i].latest.id = i
                           /\ inFlight[i].confirmed # None => inFlight[i].confirmed.id = i

\* A call under way runs over the replica in use, and none runs into a swap's next one.
CallHolds(o) ==
  /\ Running(o) => /\ ops[o].store = stores /\ InUse
                   /\ attached # 0 => ~swap
  /\ ops[o].st = "put" /\ ops[o].kind # "insert" => Alive(ops[o].id) \cap Ops = {}
  /\ ops[o].st = "map" => o \in Alive(ops[o].id)
  /\ ops[o].st \in {"patch", "bury"} => ops[o].env \in Alive(ops[o].id) /\ index[stores] # None
  /\ ops[o].st = "done" => /\ Writes(o) => ops[o].env \in Alive(ops[o].id)
                           /\ ~Writes(o) /\ ops[o].env # None => Alive(ops[o].id) = {}
  /\ ops[o].st \in {"map", "done"} /\ Writes(o) => ~Wins(ops[o].doc, rows[stores][ops[o].env].doc)
CallInv == \A o \in Ops : CallHolds(o)

\* The calls of a document write in the order issued, none behind a remove.
QueueInv ==
  /\ \A i \in Ids : inFlight[i] # None => \A j, k \in DOMAIN Queue(i) :
       j < k /\ Writes(Queue(i)[k]) =>
         Writes(Queue(i)[j]) /\ ops[Queue(i)[j]].doc.ts < ops[Queue(i)[k]].doc.ts
  /\ \A a, b \in Ops :
       ops[a].st = "acked" /\ Busy(b) /\ ops[a].id = ops[b].id /\ Writes(a) /\ Writes(b)
         => ops[a].doc.ts < ops[b].doc.ts
  /\ ~InUse /\ ~swap => \A o \in Ops : ~Busy(o)

\* A row keeps its document; no document has two live rows, in a replica or in what a
\* listing read of it.
ReadOf(seen) ==
  /\ \A e \in Envelopes : seen[e] # None =>
       /\ rows[stores][e] # None /\ rows[stores][e].doc.id = seen[e].doc.id
       /\ seen[e].dead => rows[stores][e].dead
  /\ \A i \in Ids : \A d, e \in LiveOf(seen, i) : d = e
RowInv ==
  /\ \A s \in 1..MaxStores, e \in Envelopes : rows[s][e] # None =>
       /\ e \in Ops => /\ ops[e].st \in {"map", "done", "acked"} /\ Writes(e)
                       /\ ops[e].id = rows[s][e].doc.id
       /\ e \in Pulls => e \in pulled
  /\ \A s \in 1..MaxStores, i \in Ids : \A d, e \in LiveOf(rows[s], i) : d = e
  /\ \A o \in Ops : ops[o].seen # None => ReadOf(ops[o].seen)
  /\ listing # None => ReadOf(listing.seen)

\* The index finds the live row of a document, but for one about to be mapped, announced
\* or listed; and no listing under way misses one it would then forget.
Coming(e)   == e \in Ops /\ ops[e].st = "map"
Unlisted(e) == e \in Pulls /\ (attached = 0 \/ timer \/ Announced(e))
Found(e)    == index[stores] # None /\ index[stores].of[rows[stores][e].doc.id] = e
InListing(e)   == e \in Pulls /\ listing # None /\ listing.seen[e] # None
IndexInv == InUse =>
  /\ index[stores] # None => \A i \in Ids : index[stores].of[i] # None =>
       rows[stores][index[stores].of[i]] # None /\ rows[stores][index[stores].of[i]].doc.id = i
  /\ \A e \in Live(rows[stores]) :
       /\ index[stores] # None => Found(e) \/ Coming(e) \/ Unlisted(e) \/ InListing(e)
       /\ listing # None => listing.seen[e] # None \/ Coming(e) \/ Unlisted(e)
       /\ \A o \in Ops : ops[o].seen # None =>
            ops[o].seen[e] # None \/ Found(e) \/ Coming(e) \/ Unlisted(e) \/ InListing(e)

\* Events outstanding on a document: one tombstone and nothing else, or changes of its
\* live row that no later one, and no write in flight, lost to.
EventHolds(i) ==
  /\ \A c \in Out(i) : rows[stores][c.env] # None /\ rows[stores][c.env].doc.id = i
  /\ \A c \in Out(i) : c.dead => Alive(i) = {} /\ inFlight[i] = None /\ Out(i) = {c}
  /\ \A c \in Out(i) : ~c.dead => c.env \in Alive(i) /\ c.doc.src \in Pulls
  /\ inFlight[i] # None =>
       /\ (\E k \in DOMAIN Queue(i) : ~Writes(Queue(i)[k])) => Out(i) = {}
       /\ ~inFlight[i].moved => Out(i) = {}
       /\ \A c \in Out(i) : inFlight[i].latest # None /\ ~Wins(c.doc, inFlight[i].latest)
  /\ inFlight[i] = None => \A c \in Out(i), e \in Alive(i) :
       c.doc = rows[stores][e].doc \/ Wins(rows[stores][e].doc, c.doc)
EventInv == InUse => \A i \in Ids : EventHolds(i)

\* The entry of a queue: `latest` is its last write, or what is persisted when only
\* removes are left; nothing in the replica is newer.
LastWrite(i, o) == \E k \in DOMAIN Queue(i) :
  /\ Queue(i)[k] = o /\ Writes(o) /\ \A j \in DOMAIN Queue(i) : j > k => ~Writes(Queue(i)[j])
Tracked(i) == attached # 0 /\ (~swap \/ listing = None) /\ inFlight[i] # None
EntryHolds(i) ==
  /\ \A o \in Ops : LastWrite(i, o) =>
       /\ inFlight[i].latest = ops[o].doc
       /\ \A e \in Envelopes : rows[stores][e] # None /\ rows[stores][e].doc.id = i =>
            ~Wins(rows[stores][e].doc, ops[o].doc)
       /\ InUse /\ ops[o].st \in {"map", "done"} => Shown(i) = ops[o].doc
  /\ ~inFlight[i].moved =>
       /\ (\A k \in DOMAIN Queue(i) : ~Writes(Queue(i)[k]))
            => inFlight[i].latest = inFlight[i].confirmed
       /\ \A k \in DOMAIN Queue(i), e \in Envelopes :
            Writes(Queue(i)[k]) /\ rows[stores][e] # None /\ rows[stores][e].doc.id = i =>
              ~Wins(rows[stores][e].doc, ops[Queue(i)[k]].doc)
       /\ InUse /\ Writes(Head(Queue(i))) /\ ops[Head(Queue(i))].st \in {"map", "done"}
            => Shown(i) = ops[Head(Queue(i))].doc
  /\ Tracked(i) => byId[i] = inFlight[i].latest
  /\ Tracked(i) /\ ~inFlight[i].moved /\ inFlight[i].confirmed # None
       /\ inFlight[i].confirmed.src \in Pulls => Backed(inFlight[i].confirmed)
EntryInv == \A i \in Ids : inFlight[i] # None => EntryHolds(i)

\* What is shown, or will be once the listing under way ends, is what the replica holds, or
\* will be once the events outstanding are delivered.
Agrees(i, doc, env) ==
  /\ Out(i) = {} => doc = Shown(i)
  /\ (\E c \in Out(i) : ~c.dead) =>
       /\ doc \in {None, Shown(i)} \/ Wins(Shown(i), doc)
       /\ doc = Shown(i) \/ \E c \in Out(i) : c.doc = Shown(i)
  /\ \A c \in Out(i) \cap events : c.dead => env \in {None, c.env}
Same(seen, i) == LiveOf(seen, i) = Alive(i) /\ DocIn(seen, i) = Shown(i)
Unwritten(i) ==
  LET o == Head(Queue(i)) IN
  ~(ops[o].st \in {"map", "done"} /\ (Writes(o) \/ ops[o].env # None))
ViewHolds(i) ==
  /\ listing = None /\ inFlight[i] = None => Agrees(i, byId[i], index[stores].of[i])
  /\ listing = None /\ inFlight[i] # None =>
       /\ ~inFlight[i].moved /\ Unwritten(i) => inFlight[i].confirmed = Shown(i)
       /\ ops[Head(Queue(i))].st = "done" /\ ~Writes(Head(Queue(i))) => Alive(i) = {}
  /\ listing # None /\ inFlight[i] = None =>
       /\ Agrees(i, DocIn(listing.seen, i), IndexOf(listing.seen)[i])
       /\ Out(i) = {} => Same(listing.seen, i)
  /\ listing # None /\ inFlight[i] # None =>
       /\ Unwritten(i) /\ Out(i) = {} => Same(listing.seen, i)
       /\ ~Unwritten(i) =>
            LET o == Head(Queue(i)) IN
            IF Writes(o) THEN Out(i) = {} /\ listing.seen[ops[o].env] # None
                                /\ listing.seen[ops[o].env].doc = ops[o].doc
                              => Shown(i) = ops[o].doc
            ELSE LiveOf(listing.seen, i) \subseteq {ops[o].env}
ViewInv == attached # 0 /\ ~timer => \A i \in Ids : ViewHolds(i)

\* What is shown or listed of another device's documents is in the replica in use.
OriginHolds(i) ==
  /\ ~InUse /\ byId[i] # None => byId[i].src \in Ops
  /\ attached # 0 /\ inFlight[i] = None /\ byId[i] # None /\ byId[i].src \in Pulls => Backed(byId[i])
  /\ attached # 0 /\ listing # None => \A e \in LiveOf(listing.seen, i) :
       \/ Backed(listing.seen[e].doc)
       \/ inFlight[i] # None /\ inFlight[i].moved
          /\ \E o \in Ops : LastWrite(i, o) /\ ~Wins(listing.seen[e].doc, ops[o].doc)
OriginInv == \A i \in Ids : OriginHolds(i)

\* An acknowledged write stands.
StandInv == \A o \in Ops : ops[o].st = "acked" /\ Writes(o) =>
  \E e \in Envelopes :
    /\ rows[ops[o].store][e] # None /\ rows[ops[o].store][e].doc.id = ops[o].id
    /\ ~Wins(ops[o].doc, rows[ops[o].store][e].doc)

\* All of it.
InStep ==
  CallInv /\ QueueInv /\ RowInv /\ IndexInv /\ EventInv /\ EntryInv /\ ViewInv /\ OriginInv /\ StandInv
StoreInv == Uncrossed => InStep
=============================================================================
