----------------------- MODULE EntityStoreSyncProofs ------------------------
(***************************************************************************)
(* A store stays in step with its replica, for every value of the constants*)
(* of EntityStore: while no crossing was met, what is shown is what the    *)
(* replica holds, in one row that the index finds, acknowledged writes stand*)
(* and no session shows what another pulled.  The inductive invariant is   *)
(* BaseInv with StoreInv; the proof takes its nine parts one by one, a lemma*)
(* for each kind of step, and what a step leaves alone by frame lemmas.    *)
(***************************************************************************)
EXTENDS EntityStoreProofs

(***************************************************************************)
(* What the steps of the larger invariant have in common                   *)
(***************************************************************************)
\* Wins is a strict order in which a pull and a write always compare.
LEMMA WinsOrder ==
  ASSUME NEW a \in Docs, NEW b \in Docs, NEW c \in Docs
  PROVE  /\ ~Wins(a, a)
         /\ Wins(a, b) => ~Wins(b, a)
         /\ Wins(a, b) /\ Wins(b, c) => Wins(a, c)
         /\ ~Wins(a, b) /\ ~Wins(b, c) => ~Wins(a, c)
         /\ ~Wins(a, b) /\ Wins(c, b) => ~Wins(a, c)
         /\ a.ts < b.ts => ~Wins(a, b) /\ Wins(b, a)
         /\ a.src \in Pulls /\ b.src \in Ops /\ ~Wins(a, b) => Wins(b, a)
<1>1. a.ts \in Nat /\ b.ts \in Nat /\ c.ts \in Nat /\ a.src \in Ops \cup Pulls /\ b.src \in Ops \cup Pulls /\ c.src \in Ops \cup Pulls
  BY DEF Docs
<1>2. Ops \cap Pulls = {}
  BY ConstantsOK DEF ConstantsOK
<1> QED BY <1>1, <1>2 DEF Wins

\* A document with at most one live row is in that row.
LEMMA OnlyRow ==
  ASSUME NEW seen, NEW i, \A d, e \in LiveOf(seen, i) : d = e
  PROVE  /\ \A e \in LiveOf(seen, i) : OneOf(LiveOf(seen, i)) = e /\ DocIn(seen, i) = seen[e].doc /\ LiveOf(seen, i) = {e}
         /\ LiveOf(seen, i) = {} => OneOf(LiveOf(seen, i)) = None /\ DocIn(seen, i) = None
<1> PICK S : S = LiveOf(seen, i)
  OBVIOUS
<1>1. \A e \in S : (CHOOSE d \in S : TRUE) = e
  OBVIOUS
<1> QED BY <1>1 DEF OneOf, DocIn

\* Which rows are live, and which events are outstanding.
LEMMA AliveIs ==
  ASSUME NEW i
  PROVE  /\ \A e : e \in Alive(i) <=> e \in Envelopes /\ rows[stores][e] # None /\ ~rows[stores][e].dead /\ rows[stores][e].doc.id = i
         /\ \A seen, e : e \in LiveOf(seen, i) <=> e \in Envelopes /\ seen[e] # None /\ ~seen[e].dead /\ seen[e].doc.id = i
         /\ \A seen, e : e \in Live(seen) <=> e \in Envelopes /\ seen[e] # None /\ ~seen[e].dead
         /\ \A c : c \in Out(i) <=> (c \in events \/ c \in Range(pending)) /\ c.doc.id = i /\ c.store = stores
BY DEF Alive, LiveOf, Live, Out, Outstanding

\* A document's one live row is what the replica shows of it.
LEMMA Alone ==
  ASSUME TypeOK, RowInv, stores \in 1..MaxStores, NEW i \in Ids
  PROVE  /\ \A e \in Alive(i) : Alive(i) = {e} /\ Shown(i) = rows[stores][e].doc
         /\ Alive(i) = {} => Shown(i) = None
         /\ Alive(i) # {} => Shown(i) \in Docs /\ Shown(i) # None
<1>1. \A d, e \in LiveOf(rows[stores], i) : d = e
  BY DEF RowInv
<1>2. \A e \in Alive(i) : Alive(i) = {e} /\ Shown(i) = rows[stores][e].doc /\ rows[stores][e].doc \in Docs
  BY <1>1, OnlyRow, AliveIs, RowFields DEF Alive, Shown
<1>3. Alive(i) = {} => Shown(i) = None
  BY <1>1, OnlyRow DEF Alive, Shown
<1> QED BY <1>2, <1>3, NoneIsApart

\* Two calls under way on one document are one.
LEMMA OneHead ==
  ASSUME TypeOK, ShapeInv, NEW a \in Ops, NEW b \in Ops, Running(a), Running(b), ops[a].id = ops[b].id
  PROVE  a = b
BY RunningCall

\* Nothing is in flight before the first session.
LEMMA QueueHasReplica ==
  ASSUME BaseInv, QueueInv, NEW i \in Ids, inFlight[i] # None
  PROVE  stores \in 1..MaxStores /\ (InUse \/ swap)
<1>1. Busy(Head(Queue(i))) /\ Head(Queue(i)) \in Ops
  BY EntryAt DEF BaseInv
<1>2. InUse \/ swap
  BY <1>1 DEF QueueInv
<1>3. stores # 0
  <2>1. InUse => stores # 0
    BY DEF InUse, BaseInv, SessionInv
  <2> QED BY <1>2, <2>1 DEF BaseInv, ShapeInv
<1>4. stores \in 0..MaxStores /\ MaxStores \in Nat
  BY ConstantsOK DEF BaseInv, TypeOK, ConstantsOK
<1> QED BY <1>2, <1>3, <1>4

\* The replica in use has been opened.
LEMMA InUseHasReplica ==
  ASSUME BaseInv, InUse
  PROVE  stores \in 1..MaxStores
<1>1. stores # 0
  BY DEF InUse, BaseInv, SessionInv
<1>2. stores \in 0..MaxStores /\ MaxStores \in Nat
  BY ConstantsOK DEF BaseInv, TypeOK, ConstantsOK
<1> QED BY <1>1, <1>2

\* A queue with a write has a last one.
LEMMA LastWriteExists ==
  ASSUME TypeOK, ShapeInv, NEW i \in Ids, inFlight[i] # None, NEW k \in DOMAIN Queue(i), Writes(Queue(i)[k])
  PROVE  \E o \in Ops : LastWrite(i, o)
<1> DEFINE n == Len(Queue(i))
           T == {m \in 1..n : Writes(Queue(i)[m])}
<1>1. n \in Nat /\ DOMAIN Queue(i) = 1..n /\ \A m \in 1..n : Queue(i)[m] \in Ops
  BY EntryAt
<1>2. T \in SUBSET (1..n) /\ T # {}
  BY <1>1
<1>3. Max(T) \in T /\ \A x \in T : x <= Max(T)
  <2> HIDE DEF T, n
  <2> QED BY <1>1, <1>2, LastPosition
<1>4. PICK m \in 1..n : m = Max(T) /\ Writes(Queue(i)[m]) /\ \A x \in T : x <= m
  BY <1>3
<1>5. \A j \in 1..n : j > m => ~Writes(Queue(i)[j])
  BY <1>1, <1>4
<1> QED BY <1>1, <1>4, <1>5 DEF LastWrite

\* A document a step leaves alone in the replica in use.
Untouched(j) ==
  /\ stores' = stores
  /\ \A e \in Envelopes :
       (rows[stores][e] # None /\ rows[stores][e].doc.id = j) \/ (rows'[stores][e] # None /\ rows'[stores][e].doc.id = j)
         => rows'[stores][e] = rows[stores][e]

\* A document whose rows a step leaves alone keeps its live row.
LEMMA UntouchedAlive ==
  ASSUME NEW j \in Ids, Untouched(j)
  PROVE  Alive(j)' = Alive(j) /\ Shown(j)' = Shown(j) /\ \A e \in Alive(j) : rows'[stores][e] = rows[stores][e]
<1>1. ASSUME NEW e PROVE e \in Alive(j)' <=> e \in Alive(j)
  <2>1. e \in Alive(j)' <=> e \in Envelopes /\ rows'[stores'][e] # None /\ ~rows'[stores'][e].dead /\ rows'[stores'][e].doc.id = j
    BY DEF Alive, LiveOf, Live
  <2>2. e \in Alive(j) <=> e \in Envelopes /\ rows[stores][e] # None /\ ~rows[stores][e].dead /\ rows[stores][e].doc.id = j
    BY AliveIs
  <2> QED BY <2>1, <2>2 DEF Untouched
<1>2. Alive(j)' = Alive(j)
  BY <1>1
<1>3. \A e \in Alive(j) : rows'[stores][e] = rows[stores][e]
  BY AliveIs DEF Untouched
<1>4. LiveOf(rows'[stores'], j) = LiveOf(rows[stores], j)
  BY <1>2 DEF Alive
<1>5. LiveOf(rows[stores], j) # {} => OneOf(LiveOf(rows[stores], j)) \in LiveOf(rows[stores], j)
  BY DEF OneOf
<1>6. Shown(j)' = Shown(j)
  <2>1. Shown(j)' = DocIn(rows'[stores'], j)
    BY DEF Shown
  <2> QED BY <1>3, <1>4, <1>5, <2>1 DEF Shown, DocIn, Alive, Untouched
<1> QED BY <1>2, <1>3, <1>6

\* The behaviours the larger invariant is about.
Calm == BaseInv /\ InStep /\ Uncrossed

\* The parts of the invariant, where no crossing was met.
LEMMA CalmParts ==
  ASSUME Calm
  PROVE  /\ TypeOK /\ ShapeInv /\ SessionInv /\ StampInv /\ IdInv /\ clashes = {}
         /\ CallInv /\ QueueInv /\ RowInv /\ IndexInv /\ EventInv /\ EntryInv /\ ViewInv /\ OriginInv /\ StandInv
BY DEF Calm, BaseInv, InStep, Uncrossed

\* A running persist is at the head of its queue, over the replica in use.
LEMMA RunsHere ==
  ASSUME Calm, NEW o \in Ops, Running(o)
  PROVE  /\ ops[o].store = stores /\ InUse /\ stores \in 1..MaxStores /\ (attached # 0 => ~swap) /\ Busy(o)
         /\ ops[o].id \in Ids /\ inFlight[ops[o].id] # None
         /\ Head(Queue(ops[o].id)) = o /\ Queue(ops[o].id)[1] = o /\ 1 \in DOMAIN Queue(ops[o].id)
         /\ Writes(o) => ops[o].doc \in Docs /\ ops[o].doc.id = ops[o].id /\ ops[o].doc.src = o
<1>1. ops[o].store = stores /\ InUse /\ (attached # 0 => ~swap) /\ stores \in 1..MaxStores
  BY CalmParts, InUseHasReplica DEF CallInv, CallHolds, Calm
<1>3. Busy(o) /\ ops[o].id \in Ids /\ inFlight[ops[o].id] # None /\ Head(Queue(ops[o].id)) = o /\ Queue(ops[o].id)[1] = o
      /\ (Writes(o) => ops[o].doc \in Docs)
  BY CalmParts, RunningCall, BusyCall
<1>4. Writes(o) => ops[o].doc.id = ops[o].id /\ ops[o].doc.src = o
  BY CalmParts DEF ShapeInv, CallShape, Running
<1>5. 1 \in DOMAIN Queue(ops[o].id)
  BY <1>3, CalmParts, EntryAt
<1> QED BY <1>1, <1>3, <1>4, <1>5

\* A verb writes the row of its document.
WriteEffect(o, i, e) ==
  /\ i = ops[o].id /\ i \in Ids /\ e \in Envelopes /\ Running(o) /\ Writes(o) /\ ops[o].store = stores
  /\ ops[o].st \in {"put", "patch"}
  /\ stores \in 1..MaxStores /\ InUse /\ inFlight[i] # None /\ ops[o].doc \in Docs /\ ops[o].doc.id = i
  /\ rows'[stores][e] = [doc |-> ops[o].doc, dead |-> FALSE] /\ rows'[stores][e] # None
  /\ \A d \in Envelopes : d # e => rows'[stores][d] = rows[stores][d]
  /\ \A s \in 1..MaxStores : s # stores => rows'[s] = rows[s]
  /\ rows[stores][e] # None => rows[stores][e].doc.id = i /\ ~rows[stores][e].dead
  /\ Alive(i) \subseteq {e} /\ Alive(i)' = {e} /\ Shown(i)' = ops[o].doc
  /\ \A j \in Ids : j # i => Untouched(j)
  /\ MoveEffect(o) /\ UNCHANGED index /\ ops'[o].store = stores /\ ops'[o].env = e /\ ops'[o].seen = None
  /\ ops'[o].st \in {"map", "done"}

\* A row written over the document's live row, or its first, is now its live row.
LEMMA Writings ==
  ASSUME Calm, NEW o \in Ops, NEW i \in Ids, i = ops[o].id, NEW e \in Envelopes,
         Running(o), Writes(o), ops[o].st \in {"put", "patch"},
         rows'[stores][e] = [doc |-> ops[o].doc, dead |-> FALSE], rows'[stores][e] # None,
         \A d \in Envelopes : d # e => rows'[stores][d] = rows[stores][d],
         \A s \in 1..MaxStores : s # stores => rows'[s] = rows[s],
         rows[stores][e] # None => rows[stores][e].doc.id = i /\ ~rows[stores][e].dead,
         Alive(i) \subseteq {e},
         MoveEffect(o), UNCHANGED index, ops'[o].store = stores, ops'[o].env = e, ops'[o].seen = None,
         ops'[o].st \in {"map", "done"}
  PROVE  WriteEffect(o, i, e)
<1>1. /\ ops[o].store = stores /\ stores \in 1..MaxStores /\ InUse /\ inFlight[i] # None /\ ops[o].doc \in Docs
      /\ ops[o].doc.id = i /\ stores' = stores
  BY RunsHere DEF MoveEffect
<1>2. \A d : d \in Alive(i)' <=> d \in Envelopes /\ rows'[stores][d] # None /\ ~rows'[stores][d].dead /\ rows'[stores][d].doc.id = i
  BY <1>1 DEF Alive, LiveOf, Live
<1>3. e \in Alive(i)'
  BY <1>1, <1>2
<1>4. ASSUME NEW d, d \in Alive(i)', d # e PROVE FALSE
  <2>1. d \in Envelopes /\ rows[stores][d] # None /\ ~rows[stores][d].dead /\ rows[stores][d].doc.id = i
    BY <1>2, <1>4
  <2>2. d \in Alive(i)
    BY <2>1, AliveIs
  <2> QED BY <1>4, <2>2
<1>5. Alive(i)' = {e}
  BY <1>3, <1>4
<1>6. Shown(i)' = ops[o].doc
  <2>1. LiveOf(rows'[stores], i) = {e}
    BY <1>1, <1>5 DEF Alive
  <2>2. DocIn(rows'[stores], i) = rows'[stores][e].doc
    BY <2>1, OnlyRow
  <2>3. rows'[stores][e].doc = ops[o].doc
    OBVIOUS
  <2> QED BY <1>1, <2>2, <2>3 DEF Shown
<1>7. ASSUME NEW j \in Ids, j # i PROVE Untouched(j)
  <2>1. rows'[stores][e].doc.id = i
    BY <1>1
  <2> QED BY <1>1, <1>7, <2>1 DEF Untouched
<1> QED BY <1>1, <1>5, <1>6, <1>7 DEF WriteEffect

\* What Put does to the document: its first live row.
LEMMA PutEffect ==
  ASSUME Calm, Uncrossed', NEW o \in Ops, Put(o), NEW i \in Ids, i = ops[o].id
  PROVE  WriteEffect(o, i, o) /\ rows[stores][o] = None /\ Alive(i) = {} /\ ops'[o].st = "map" /\ ops[o].st = "put"
<1>1. Running(o) /\ ops[o].st = "put" /\ ops[o].kind # "remove" /\ Writes(o)
  BY CalmParts DEF Put, Running, ShapeInv, CallShape, Writes
<1>2. ops[o].store = stores /\ stores \in 1..MaxStores /\ ops[o].id \in Ids
  BY <1>1, RunsHere
<1>3. o \in Envelopes
  BY DEF Envelopes
<1>4. rows[stores][o] = None
  BY <1>1, <1>2, <1>3, CalmParts DEF RowInv
<1>5. Alive(ops[o].id) = {}
  <2>1. Alive(ops[o].id) \cap Pulls = {} /\ (ops[o].kind = "insert" => Alive(ops[o].id) = {})
    BY <1>2 DEF Put, Crossed, Uncrossed, Alive
  <2>2. ops[o].kind # "insert" => Alive(ops[o].id) \cap Ops = {}
    BY <1>1, CalmParts DEF CallInv, CallHolds
  <2>3. Alive(ops[o].id) \subseteq Ops \cup Pulls
    BY AliveIs DEF Envelopes
  <2> QED BY <2>1, <2>2, <2>3
<1>6. MoveEffect(o) /\ UNCHANGED index /\ ops'[o].st = "map" /\ ops'[o].store = stores /\ ops'[o].env = o /\ ops'[o].seen = None
  BY <1>2, MoveDoes, CalmParts
<1>7. /\ rows'[stores][o] = [doc |-> ops[o].doc, dead |-> FALSE] /\ rows'[stores][o] # None
      /\ \A d \in Envelopes : d # o => rows'[stores][d] = rows[stores][d]
      /\ \A s \in 1..MaxStores : s # stores => rows'[s] = rows[s]
  BY <1>2, PutWrites, CalmParts
<1> QED BY <1>1, <1>2, <1>3, <1>4, <1>5, <1>6, <1>7, Writings

\* What Patch does to the document: the same row, with the call's document.
LEMMA PatchEffect ==
  ASSUME Calm, NEW o \in Ops, Patch(o), NEW i \in Ids, i = ops[o].id, NEW e \in Envelopes, e = ops[o].env
  PROVE  WriteEffect(o, i, e) /\ Alive(i) = {e} /\ ops'[o].st = "done" /\ ops[o].st = "patch" /\ rows[stores][e] # None
<1>1. Running(o) /\ ops[o].st = "patch" /\ Writes(o)
  BY CalmParts DEF Patch, Running, ShapeInv, CallShape, Writes
<1>2. ops[o].store = stores /\ stores \in 1..MaxStores /\ ops[o].id \in Ids
  BY <1>1, RunsHere
<1>3. ops[o].env \in Alive(ops[o].id) /\ Alive(ops[o].id) = {ops[o].env}
  BY <1>1, <1>2, CalmParts, Alone DEF CallInv, CallHolds
<1>4. ops[o].env \in Envelopes /\ rows[stores][ops[o].env] # None /\ ~rows[stores][ops[o].env].dead
      /\ rows[stores][ops[o].env].doc.id = ops[o].id /\ rows[stores][ops[o].env].dead \in BOOLEAN
  BY <1>2, <1>3, AliveIs, RowFields, CalmParts
<1>5. rows[stores][ops[o].env].dead = FALSE
  BY <1>4
<1>6. MoveEffect(o) /\ UNCHANGED index /\ ops'[o].st = "done" /\ ops'[o].store = stores /\ ops'[o].env = ops[o].env /\ ops'[o].seen = None
  BY <1>2, MoveDoes, CalmParts
<1>7. /\ rows'[stores][ops[o].env] = [doc |-> ops[o].doc, dead |-> rows[stores][ops[o].env].dead] /\ rows'[stores][ops[o].env] # None
      /\ \A d \in Envelopes : d # ops[o].env => rows'[stores][d] = rows[stores][d]
      /\ \A s \in 1..MaxStores : s # stores => rows'[s] = rows[s]
  BY <1>2, PatchWrites, CalmParts
<1>8. rows'[stores][ops[o].env] = [doc |-> ops[o].doc, dead |-> FALSE]
  BY <1>5, <1>7
<1> QED BY <1>1, <1>2, <1>3, <1>4, <1>6, <1>7, <1>8, Writings

\* A verb tombstones the row of its document.
BuryEffect(o, i, e) ==
  /\ i = ops[o].id /\ i \in Ids /\ e = ops[o].env /\ e \in Envelopes /\ Running(o) /\ ~Writes(o) /\ ops[o].store = stores
  /\ ops[o].st = "bury" /\ stores \in 1..MaxStores /\ InUse /\ inFlight[i] # None
  /\ rows[stores][e] # None /\ rows[stores][e].doc.id = i
  /\ rows'[stores][e] = [doc |-> rows[stores][e].doc, dead |-> TRUE] /\ rows'[stores][e] # None
  /\ \A d \in Envelopes : d # e => rows'[stores][d] = rows[stores][d]
  /\ \A s \in 1..MaxStores : s # stores => rows'[s] = rows[s]
  /\ Alive(i) = {e} /\ Alive(i)' = {} /\ Shown(i)' = None
  /\ \A j \in Ids : j # i => Untouched(j)
  /\ MoveEffect(o) /\ ops'[o].store = stores /\ ops'[o].env = e /\ ops'[o].seen = None /\ ops'[o].st = "done"
  /\ index[stores] # None /\ index'[stores] # None
  /\ index'[stores].of[i] \in {None, index[stores].of[i]}
  /\ \A j \in Ids : j # i => index'[stores].of[j] = index[stores].of[j]
  /\ \A s \in 1..MaxStores : s # stores => index'[s] = index[s]

\* What Bury does to the document: no live row is left.
LEMMA BuryDoes ==
  ASSUME Calm, NEW o \in Ops, Bury(o), NEW i \in Ids, i = ops[o].id, NEW e \in Envelopes, e = ops[o].env
  PROVE  BuryEffect(o, i, e)
<1>1. Running(o) /\ ops[o].st = "bury" /\ ~Writes(o)
  BY CalmParts DEF Bury, Running, ShapeInv, CallShape, Writes
<1>2. ops[o].store = stores /\ stores \in 1..MaxStores /\ ops[o].id \in Ids /\ InUse /\ inFlight[ops[o].id] # None
  BY <1>1, RunsHere
<1>3. ops[o].env \in Alive(ops[o].id) /\ Alive(ops[o].id) = {ops[o].env} /\ index[stores] # None
  BY <1>1, <1>2, CalmParts, Alone DEF CallInv, CallHolds
<1>4. ops[o].env \in Envelopes /\ rows[stores][ops[o].env] # None /\ rows[stores][ops[o].env].doc.id = ops[o].id
  BY <1>2, <1>3, AliveIs
<1>6. MoveEffect(o) /\ ops'[o].st = "done" /\ ops'[o].store = stores /\ ops'[o].env = ops[o].env /\ ops'[o].seen = None
      /\ stores' = stores
  BY <1>2, MoveDoes, CalmParts DEF MoveEffect
<1>7. /\ rows'[stores][ops[o].env] = [doc |-> rows[stores][ops[o].env].doc, dead |-> TRUE] /\ rows'[stores][ops[o].env] # None
      /\ \A d \in Envelopes : d # ops[o].env => rows'[stores][d] = rows[stores][d]
      /\ \A s \in 1..MaxStores : s # stores => rows'[s] = rows[s]
  BY <1>2, BuryWrites, CalmParts
<1>8. \A d : d \in Alive(i)' <=> d \in Envelopes /\ rows'[stores][d] # None /\ ~rows'[stores][d].dead /\ rows'[stores][d].doc.id = i
  BY <1>6 DEF Alive, LiveOf, Live
<1>9. ASSUME NEW d, d \in Alive(i)' PROVE FALSE
  <2>2. CASE d = ops[o].env
    <3>1. rows'[stores][d].dead = TRUE
      BY <1>7, <2>2
    <3> QED BY <1>8, <1>9, <3>1
  <2>3. CASE d # ops[o].env
    <3>1. d \in Alive(ops[o].id)
      BY <1>7, <1>8, <1>9, <2>3, AliveIs
    <3> QED BY <1>3, <2>3, <3>1
  <2> QED BY <2>2, <2>3
<1>10. Alive(i)' = {}
  BY <1>9
<1>11. Shown(i)' = None
  <2>1. LiveOf(rows'[stores], i) = {}
    BY <1>6, <1>10 DEF Alive
  <2> QED BY <1>6, <2>1 DEF Shown, DocIn
<1>12. ASSUME NEW j \in Ids, j # i PROVE Untouched(j)
  <2>1. rows'[stores][ops[o].env].doc.id = i
    BY <1>4, <1>7
  <2> QED BY <1>4, <1>6, <1>7, <1>12, <2>1 DEF Untouched
<1>13. /\ index'[stores] # None
       /\ index'[stores].of[i] \in {None, index[stores].of[i]}
       /\ \A j \in Ids : j # i => index'[stores].of[j] = index[stores].of[j]
       /\ \A s \in 1..MaxStores : s # stores => index'[s] = index[s]
  <2>1. index' = index \/ index' = [index EXCEPT ![stores] = [index[stores] EXCEPT !.of[i] = None]]
    BY <1>2 DEF Bury, Mapped
  <2>2. None \in Optional(Envelopes)
    BY DEF Optional
  <2> QED BY <1>2, <1>3, <2>1, <2>2, IndexWrites, CalmParts
<1> QED BY <1>1, <1>2, <1>3, <1>4, <1>6, <1>7, <1>10, <1>11, <1>12, <1>13 DEF BuryEffect

(***************************************************************************)
(* What a step leaves alone keeps its part of the invariant                *)
(***************************************************************************)
\* A call that was issued keeps its verb, its document's id and its payload.
CallsKeep == \A b \in Ops : ops[b].st # "new" =>
  ops'[b].kind = ops[b].kind /\ ops'[b].id = ops[b].id /\ ops'[b].doc = ops[b].doc

\* A queue and what stands in its entry, as a step leaves them alone.
SameEntry(i) ==
  /\ inFlight'[i] = None <=> inFlight[i] = None
  /\ inFlight[i] # None => /\ Queue(i)' = Queue(i) /\ inFlight'[i].latest = inFlight[i].latest
                           /\ inFlight'[i].confirmed = inFlight[i].confirmed
                           /\ ~inFlight'[i].moved => ~inFlight[i].moved

\* The steps of the calls of a document stay on their side of the write.
Wrote(b) == ops[b].st \in {"map", "done"} /\ (Writes(b) \/ ops[b].env # None)
SameSteps(i) == \A b \in Ops : Busy(b) /\ ops[b].id = i =>
  /\ Wrote(b)' <=> Wrote(b)
  /\ Wrote(b) => ops'[b].env = ops[b].env

\* A queue a step leaves alone has the same calls and the same last write.
LEMMA SameQueue ==
  ASSUME TypeOK, ShapeInv, CallsKeep, NEW i \in Ids, inFlight[i] # None, Queue(i)' = Queue(i)
  PROVE  /\ \A k \in DOMAIN Queue(i) : LET q == Queue(i)[k]
               IN q \in Ops /\ ops'[q].kind = ops[q].kind /\ ops'[q].doc = ops[q].doc
         /\ \A o \in Ops : LastWrite(i, o)' <=> LastWrite(i, o)
         /\ \A o \in Ops : LastWrite(i, o) => Busy(o) /\ ops[o].id = i /\ Writes(o) /\ ops'[o].doc = ops[o].doc
<1>1. \A k \in DOMAIN Queue(i) : Queue(i)[k] \in Ops /\ Busy(Queue(i)[k]) /\ ops[Queue(i)[k]].id = i
  BY EntryAt
<1>2. \A k \in DOMAIN Queue(i) : LET q == Queue(i)[k]
               IN q \in Ops /\ ops'[q].kind = ops[q].kind /\ ops'[q].doc = ops[q].doc
  BY <1>1 DEF CallsKeep, Busy
<1>3. ASSUME NEW o \in Ops PROVE LastWrite(i, o)' <=> LastWrite(i, o)
  <2>1. LastWrite(i, o)' <=> \E k \in DOMAIN Queue(i) :
          /\ Queue(i)[k] = o /\ ops'[o].kind # "remove"
          /\ \A j \in DOMAIN Queue(i) : j > k => ~(ops'[Queue(i)[j]].kind # "remove")
    BY DEF LastWrite, Writes
  <2> QED BY <1>2, <2>1 DEF LastWrite, Writes
<1>4. ASSUME NEW o \in Ops, LastWrite(i, o) PROVE Busy(o) /\ ops[o].id = i /\ Writes(o) /\ ops'[o].doc = ops[o].doc
  BY <1>1, <1>2, <1>4 DEF LastWrite
<1> QED BY <1>2, <1>3, <1>4

\* An event outstanding on a document.
LEMMA OutIs ==
  ASSUME TypeOK, NEW i, NEW c \in Out(i)
  PROVE  /\ c.env \in Envelopes /\ c.doc \in Docs /\ c.doc.id = i /\ c.store = stores /\ c.dead \in BOOLEAN
         /\ c \in events \/ c \in Range(pending)
<1>1. (c \in events \/ c \in Range(pending)) /\ c.doc.id = i /\ c.store = stores
  BY AliveIs
<1>2. c \in Change
  <2>1. \A d \in Range(pending) : d \in Change
    BY DEF TypeOK, Range
  <2> QED BY <1>1, <2>1 DEF TypeOK
<1> QED BY <1>1, <1>2 DEF Change

\* A step that leaves a document alone keeps what its events rely on.
LEMMA EventFrame ==
  ASSUME TypeOK, ShapeInv, CallsKeep, NEW i \in Ids, EventHolds(i), Out(i)' \subseteq Out(i), Untouched(i), SameEntry(i)
  PROVE  EventHolds(i)'
<1>1. Alive(i)' = Alive(i) /\ \A e \in Alive(i) : rows'[stores][e] = rows[stores][e]
  BY UntouchedAlive
<1>2. \A c \in Out(i)' : c \in Out(i) /\ rows'[stores'][c.env] # None /\ rows'[stores'][c.env].doc.id = i
  <2>1. \A c \in Out(i) : c.env \in Envelopes
    BY OutIs
  <2> QED BY <2>1 DEF EventHolds, Untouched
<1>3. inFlight[i] # None => \A k \in DOMAIN Queue(i) : Queue(i)[k] \in Ops /\ ops'[Queue(i)[k]].kind = ops[Queue(i)[k]].kind
  BY SameQueue DEF SameEntry
<1>4. inFlight[i] # None /\ (\E k \in DOMAIN Queue(i)' : ~(ops'[Queue(i)'[k]].kind # "remove")) => Out(i)' = {}
  BY <1>3 DEF EventHolds, SameEntry, Writes
<1>5. \A c \in Out(i)' : c.dead => Alive(i)' = {} /\ inFlight'[i] = None /\ Out(i)' = {c}
  BY <1>1 DEF EventHolds, SameEntry
<1>6. \A c \in Out(i)' : ~c.dead => c.env \in Alive(i)' /\ c.doc.src \in Pulls
  BY <1>1 DEF EventHolds
<1>7. inFlight'[i] # None =>
       /\ ~inFlight'[i].moved => Out(i)' = {}
       /\ \A c \in Out(i)' : inFlight'[i].latest # None /\ ~Wins(c.doc, inFlight'[i].latest)
  BY DEF EventHolds, SameEntry
<1>8. inFlight'[i] = None => \A c \in Out(i)', e \in Alive(i)' :
       c.doc = rows'[stores'][e].doc \/ Wins(rows'[stores'][e].doc, c.doc)
  BY <1>1 DEF EventHolds, SameEntry, Untouched
<1> QED BY <1>2, <1>4, <1>5, <1>6, <1>7, <1>8 DEF EventHolds, SameEntry, Writes, Wins

\* A step that leaves a document alone keeps what its entry relies on.
LEMMA EntryFrame ==
  ASSUME TypeOK, ShapeInv, IdInv, CallsKeep, NEW i \in Ids, inFlight[i] # None, EntryHolds(i), Untouched(i), SameEntry(i), SameSteps(i),
         InUse' => InUse, Tracked(i)' => Tracked(i) /\ byId'[i] = byId[i]
  PROVE  EntryHolds(i)'
<1>1. Alive(i)' = Alive(i) /\ Shown(i)' = Shown(i)
  BY UntouchedAlive
<1>2. \A e \in Envelopes : rows'[stores'][e] # None /\ rows'[stores'][e].doc.id = i =>
         rows[stores][e] # None /\ rows[stores][e].doc.id = i /\ rows'[stores'][e] = rows[stores][e]
  BY DEF Untouched
<1>3. \A k \in DOMAIN Queue(i) : LET q == Queue(i)[k]
               IN /\ q \in Ops /\ ops'[q].kind = ops[q].kind /\ ops'[q].doc = ops[q].doc
                  /\ (ops'[q].kind # "remove" => (ops'[q].st \in {"map", "done"} <=> ops[q].st \in {"map", "done"}))
  BY SameQueue, EntryAt DEF SameEntry, SameSteps, Wrote, Writes
<1>4. 1 \in DOMAIN Queue(i) /\ Head(Queue(i)) = Queue(i)[1]
  BY EntryAt
<1>5. inFlight'[i] # None /\ Queue(i)' = Queue(i) /\ inFlight'[i].latest = inFlight[i].latest
        /\ inFlight'[i].confirmed = inFlight[i].confirmed /\ (~inFlight'[i].moved => ~inFlight[i].moved)
  BY DEF SameEntry
<1>6. ASSUME NEW o \in Ops, LastWrite(i, o)'
      PROVE  /\ inFlight'[i].latest = ops'[o].doc
             /\ \A e \in Envelopes : rows'[stores'][e] # None /\ rows'[stores'][e].doc.id = i =>
                  ~Wins(rows'[stores'][e].doc, ops'[o].doc)
             /\ InUse' /\ ops'[o].st \in {"map", "done"} => Shown(i)' = ops'[o].doc
  <2>1. LastWrite(i, o) /\ Busy(o) /\ ops[o].id = i /\ ops'[o].doc = ops[o].doc /\ Writes(o)
    BY <1>5, <1>6, SameQueue
  <2>2. ops'[o].st \in {"map", "done"} => ops[o].st \in {"map", "done"}
    BY <2>1 DEF SameSteps, Wrote, Writes, CallsKeep, Busy
  <2> QED BY <1>1, <1>2, <1>5, <2>1, <2>2 DEF EntryHolds
<1>7. ~inFlight'[i].moved =>
       /\ (\A k \in DOMAIN Queue(i) : ~(ops'[Queue(i)[k]].kind # "remove"))
            => inFlight'[i].latest = inFlight'[i].confirmed
       /\ \A k \in DOMAIN Queue(i), e \in Envelopes :
            ops'[Queue(i)[k]].kind # "remove" /\ rows'[stores'][e] # None /\ rows'[stores'][e].doc.id = i =>
              ~Wins(rows'[stores'][e].doc, ops'[Queue(i)[k]].doc)
       /\ InUse' /\ ops'[Head(Queue(i))].kind # "remove" /\ ops'[Head(Queue(i))].st \in {"map", "done"}
            => Shown(i)' = ops'[Head(Queue(i))].doc
  BY <1>1, <1>2, <1>3, <1>4, <1>5 DEF EntryHolds, Writes
<1>8. Tracked(i)' => byId'[i] = inFlight'[i].latest
  BY <1>5 DEF EntryHolds
<1>9. Tracked(i)' /\ ~inFlight'[i].moved /\ inFlight'[i].confirmed # None /\ inFlight'[i].confirmed.src \in Pulls
        => \E e \in Envelopes : /\ rows'[stores'][e] # None /\ rows'[stores'][e].doc.id = inFlight'[i].confirmed.id
                               /\ ~Wins(inFlight'[i].confirmed, rows'[stores'][e].doc)
  <2>1. \A e \in Envelopes : rows[stores][e] # None /\ rows[stores][e].doc.id = i => rows'[stores'][e] = rows[stores][e]
    BY DEF Untouched
  <2>2. SUFFICES ASSUME Tracked(i)', ~inFlight'[i].moved, inFlight'[i].confirmed # None, inFlight'[i].confirmed.src \in Pulls
                 PROVE \E e \in Envelopes : /\ rows'[stores'][e] # None /\ rows'[stores'][e].doc.id = inFlight'[i].confirmed.id
                               /\ ~Wins(inFlight'[i].confirmed, rows'[stores'][e].doc)
    OBVIOUS
  <2>3. Backed(inFlight[i].confirmed)
    BY <1>5, <2>2 DEF EntryHolds
  <2>4. PICK e \in Envelopes : /\ rows[stores][e] # None /\ rows[stores][e].doc.id = inFlight[i].confirmed.id
                               /\ ~Wins(inFlight[i].confirmed, rows[stores][e].doc)
    BY <2>3 DEF Backed
  <2>5. inFlight[i].confirmed.id = i
    BY <1>5, <2>2 DEF IdInv
  <2> QED BY <1>5, <2>1, <2>4, <2>5
<1> QED BY <1>5, <1>6, <1>7, <1>8, <1>9 DEF EntryHolds, Writes, Backed

\* The steps of the call that runs at the head of a queue.
LEMMA SameHead ==
  ASSUME TypeOK, ShapeInv, CallsKeep, NEW i \in Ids, inFlight[i] # None, SameEntry(i), SameSteps(i), NEW o, o = Head(Queue(i))
  PROVE  /\ o \in Ops /\ Busy(o) /\ ops[o].id = i /\ ops'[o].kind = ops[o].kind /\ ops'[o].doc = ops[o].doc
         /\ ~Unwritten(i) => ops'[o].env = ops[o].env
         /\ Head(Queue(i)') = o
         /\ ~(ops'[o].st \in {"map", "done"} /\ (ops'[o].kind # "remove" \/ ops'[o].env # None)) <=> Unwritten(i)
<1>1. o \in Ops /\ Busy(o) /\ ops[o].id = i
  BY EntryAt
<1> QED BY <1>1 DEF SameEntry, SameSteps, Wrote, CallsKeep, Busy, Unwritten, Writes

\* A step that leaves a document and its events alone keeps a view's agreement with it.
LEMMA AgreesFrame ==
  ASSUME NEW i \in Ids, NEW doc, NEW env, Agrees(i, doc, env), Shown(i)' = Shown(i), Out(i)' = Out(i),
         Out(i)' \cap events' = Out(i) \cap events
  PROVE  /\ Out(i)' = {} => doc = Shown(i)'
         /\ (\E c \in Out(i)' : ~c.dead) =>
              /\ doc \in {None, Shown(i)'} \/ Wins(Shown(i)', doc)
              /\ doc = Shown(i)' \/ \E c \in Out(i)' : c.doc = Shown(i)'
         /\ \A c \in Out(i)' \cap events' : c.dead => env \in {None, c.env}
BY DEF Agrees

\* A step that leaves a document alone keeps what its view relies on.
LEMMA ViewFrame ==
  ASSUME TypeOK, ShapeInv, CallsKeep, NEW i \in Ids, ViewHolds(i), Untouched(i), SameEntry(i), SameSteps(i),
         byId'[i] = byId[i], listing' = listing, index'[stores].of[i] = index[stores].of[i],
         \A b \in Ops : Busy(b) /\ ops[b].id = i /\ ops'[b].kind = "remove" => (ops'[b].st = "done" => ops[b].st = "done"),
         Out(i)' = Out(i), Out(i)' \cap events' = Out(i) \cap events
  PROVE  ViewHolds(i)'
<1>1. Alive(i)' = Alive(i) /\ Shown(i)' = Shown(i) /\ stores' = stores
  BY UntouchedAlive DEF Untouched
<1>2. listing' = None /\ inFlight'[i] = None => Agrees(i, byId[i], index[stores].of[i])'
  <2>1. SUFFICES ASSUME listing' = None, inFlight'[i] = None PROVE Agrees(i, byId[i], index[stores].of[i])'
    OBVIOUS
  <2>2. Agrees(i, byId[i], index[stores].of[i])
    BY <2>1 DEF ViewHolds, SameEntry
  <2>3. PICK doc, env : doc = byId[i] /\ env = index[stores].of[i]
    OBVIOUS
  <2>4. byId'[i] = doc /\ index'[stores'].of[i] = env
    BY <1>1, <2>3
  <2> QED BY <1>1, <2>2, <2>3, <2>4, AgreesFrame DEF Agrees
<1>3. listing' = None /\ inFlight'[i] # None =>
       /\ ~inFlight'[i].moved /\ Unwritten(i)' => inFlight'[i].confirmed = Shown(i)'
       /\ ops'[Head(Queue(i)')].st = "done" /\ ops'[Head(Queue(i)')].kind = "remove" => Alive(i)' = {}
  <2>1. SUFFICES ASSUME listing' = None, inFlight'[i] # None
                 PROVE  /\ ~inFlight'[i].moved /\ Unwritten(i)' => inFlight'[i].confirmed = Shown(i)'
                        /\ ops'[Head(Queue(i)')].st = "done" /\ ops'[Head(Queue(i)')].kind = "remove" => Alive(i)' = {}
    OBVIOUS
  <2>2. inFlight[i] # None
    BY <2>1 DEF SameEntry
  <2>3. PICK o : o = Head(Queue(i))
    OBVIOUS
  <2>4. Unwritten(i)' <=> Unwritten(i)
    BY <2>2, <2>3, SameHead DEF Unwritten, Writes
  <2>5. o \in Ops /\ Busy(o) /\ ops[o].id = i /\ Head(Queue(i)') = o /\ ops'[o].kind = ops[o].kind
    BY <2>2, <2>3, SameHead
  <2> QED BY <1>1, <2>1, <2>2, <2>3, <2>4, <2>5 DEF ViewHolds, SameEntry, Writes
<1>4. listing' # None /\ inFlight'[i] = None =>
       /\ Agrees(i, DocIn(listing.seen, i), IndexOf(listing.seen)[i])'
       /\ Out(i)' = {} => Same(listing.seen, i)'
  <2>1. SUFFICES ASSUME listing' # None, inFlight'[i] = None
                 PROVE  /\ Agrees(i, DocIn(listing.seen, i), IndexOf(listing.seen)[i])'
                        /\ Out(i)' = {} => Same(listing.seen, i)'
    OBVIOUS
  <2>2. Agrees(i, DocIn(listing.seen, i), IndexOf(listing.seen)[i]) /\ (Out(i) = {} => Same(listing.seen, i))
    BY <2>1 DEF ViewHolds, SameEntry
  <2>3. PICK doc, env : doc = DocIn(listing.seen, i) /\ env = IndexOf(listing.seen)[i]
    OBVIOUS
  <2>4. DocIn(listing.seen, i)' = doc /\ IndexOf(listing.seen)[i]' = env
    BY <2>3 DEF DocIn, IndexOf, LiveOf, Live
  <2>5. Agrees(i, DocIn(listing.seen, i), IndexOf(listing.seen)[i])'
    BY <1>1, <2>2, <2>3, <2>4, AgreesFrame DEF Agrees
  <2>6. Out(i)' = {} => Same(listing.seen, i)'
    BY <1>1, <2>2 DEF Same, DocIn, LiveOf, Live
  <2> QED BY <2>5, <2>6
<1>5. listing' # None /\ inFlight'[i] # None =>
       /\ Unwritten(i)' /\ Out(i)' = {} => Same(listing.seen, i)'
       /\ ~Unwritten(i)' =>
            LET o == Head(Queue(i)') IN
            IF ops'[o].kind # "remove"
            THEN Out(i)' = {} /\ listing'.seen[ops'[o].env] # None
                                /\ listing'.seen[ops'[o].env].doc = ops'[o].doc
                              => Shown(i)' = ops'[o].doc
            ELSE LiveOf(listing'.seen, i) \subseteq {ops'[o].env}
  <2>1. SUFFICES ASSUME listing' # None, inFlight'[i] # None
                 PROVE  /\ Unwritten(i)' /\ Out(i)' = {} => Same(listing.seen, i)'
                        /\ ~Unwritten(i)' =>
                           LET o == Head(Queue(i)') IN
                           IF ops'[o].kind # "remove"
                           THEN Out(i)' = {} /\ listing'.seen[ops'[o].env] # None
                                  /\ listing'.seen[ops'[o].env].doc = ops'[o].doc
                                => Shown(i)' = ops'[o].doc
                           ELSE LiveOf(listing'.seen, i) \subseteq {ops'[o].env}
    OBVIOUS
  <2>2. inFlight[i] # None
    BY <2>1 DEF SameEntry
  <2>3. PICK o : o = Head(Queue(i))
    OBVIOUS
  <2>4. Unwritten(i)' <=> Unwritten(i)
    BY <2>2, <2>3, SameHead DEF Unwritten, Writes
  <2>5. o \in Ops /\ Head(Queue(i)') = o /\ ops'[o].kind = ops[o].kind /\ ops'[o].doc = ops[o].doc
        /\ (~Unwritten(i) => ops'[o].env = ops[o].env)
    BY <2>2, <2>3, SameHead
  <2>6. Unwritten(i)' /\ Out(i)' = {} => Same(listing.seen, i)'
    <3>1. Unwritten(i) /\ Out(i) = {} => Same(listing.seen, i)
      BY <2>1, <2>2 DEF ViewHolds
    <3> QED BY <1>1, <2>4, <3>1 DEF Same, DocIn, LiveOf, Live
  <2>7. ~Unwritten(i) => IF ops[o].kind # "remove"
                            THEN Out(i) = {} /\ listing.seen[ops[o].env] # None /\ listing.seen[ops[o].env].doc = ops[o].doc
                                   => Shown(i) = ops[o].doc
                            ELSE LiveOf(listing.seen, i) \subseteq {ops[o].env}
    BY <2>1, <2>2, <2>3 DEF ViewHolds, Unwritten, Writes
  <2> QED BY <1>1, <2>4, <2>5, <2>6, <2>7
<1> QED BY <1>2, <1>3, <1>4, <1>5 DEF ViewHolds, Writes

\* A step that leaves a document alone keeps where its view comes from.
LEMMA OriginFrame ==
  ASSUME TypeOK, ShapeInv, IdInv, CallsKeep, NEW i \in Ids, OriginHolds(i), Untouched(i), SameEntry(i),
         byId'[i] = byId[i], InUse => InUse', attached' # 0 => attached # 0, listing' # None => listing' = listing,
         inFlight[i] # None /\ inFlight[i].moved => inFlight'[i].moved
  PROVE  OriginHolds(i)'
<1>1. \A d : d.id = i => (Backed(d) => \E e \in Envelopes : /\ rows'[stores'][e] # None /\ rows'[stores'][e].doc.id = i
                                                         /\ ~Wins(d, rows'[stores'][e].doc))
  BY DEF Backed, Untouched
<1>2. ~InUse' /\ byId'[i] # None => byId'[i].src \in Ops
  BY DEF OriginHolds
<1>3. attached' # 0 /\ inFlight'[i] = None /\ byId'[i] # None /\ byId'[i].src \in Pulls =>
        \E e \in Envelopes : /\ rows'[stores'][e] # None /\ rows'[stores'][e].doc.id = i
                             /\ ~Wins(byId[i], rows'[stores'][e].doc)
  BY <1>1 DEF OriginHolds, SameEntry, IdInv
<1>4. ASSUME attached' # 0, listing' # None, NEW e \in LiveOf(listing.seen, i)
      PROVE  \/ \E d \in Envelopes : /\ rows'[stores'][d] # None /\ rows'[stores'][d].doc.id = i
                                     /\ ~Wins(listing.seen[e].doc, rows'[stores'][d].doc)
             \/ inFlight'[i] # None /\ inFlight'[i].moved
                /\ \E o \in Ops : LastWrite(i, o)' /\ ~Wins(listing.seen[e].doc, ops'[o].doc)
  <2>1. listing.seen[e].doc.id = i
    BY <1>4 DEF LiveOf
  <2>2. \/ Backed(listing.seen[e].doc)
        \/ inFlight[i] # None /\ inFlight[i].moved
           /\ \E o \in Ops : LastWrite(i, o) /\ ~Wins(listing.seen[e].doc, ops[o].doc)
    BY <1>4 DEF OriginHolds
  <2>3. CASE Backed(listing.seen[e].doc)
    BY <1>1, <2>1, <2>3
  <2>4. CASE inFlight[i] # None /\ inFlight[i].moved
           /\ \E o \in Ops : LastWrite(i, o) /\ ~Wins(listing.seen[e].doc, ops[o].doc)
    <3>1. inFlight'[i] # None /\ Queue(i)' = Queue(i) /\ inFlight'[i].moved
      BY <2>4 DEF SameEntry
    <3>2. PICK o \in Ops : LastWrite(i, o) /\ ~Wins(listing.seen[e].doc, ops[o].doc)
      BY <2>4
    <3>3. LastWrite(i, o)' /\ ops'[o].doc = ops[o].doc
      BY <2>4, <3>1, <3>2, SameQueue
    <3> QED BY <3>1, <3>2, <3>3
  <2> QED BY <2>2, <2>3, <2>4
<1>5. attached' # 0 /\ listing' # None => \A e \in LiveOf(listing'.seen, i) :
             \/ \E d \in Envelopes : /\ rows'[stores'][d] # None /\ rows'[stores'][d].doc.id = i
                                     /\ ~Wins(listing'.seen[e].doc, rows'[stores'][d].doc)
             \/ inFlight'[i] # None /\ inFlight'[i].moved
                /\ \E o \in Ops : LastWrite(i, o)' /\ ~Wins(listing'.seen[e].doc, ops'[o].doc)
  BY <1>4
<1>6. \A e : e \in LiveOf(listing'.seen, i) => listing'.seen[e].doc.id = i
  BY DEF LiveOf
<1>7. byId[i] # None => byId[i].id = i
  BY DEF IdInv
<1> QED BY <1>2, <1>3, <1>5, <1>6, <1>7 DEF OriginHolds, Backed, Wins, LiveOf, Live

\* A step that leaves a call and its document alone keeps what the call relies on.
LEMMA CallFrame ==
  ASSUME TypeOK, ShapeInv, NEW b \in Ops, CallHolds(b), ops'[b] = ops[b], Running(b) => Untouched(ops[b].id),
         Running(b) => stores' = stores /\ InUse' /\ (attached' # 0 => ~swap'), 
         Running(b) /\ index[stores] # None => index'[stores] # None
  PROVE  CallHolds(b)'
<1>1. CASE ~Running(b)
  <2>1. ops'[b].st \notin {"look", "put", "map", "patch", "bury", "done"}
    BY <1>1 DEF Running
  <2> QED BY <2>1 DEF CallHolds, Running
<1>2. CASE Running(b)
  <2>1. PICK i \in Ids : i = ops[b].id
    BY <1>2, RunningCall, BusyCall
  <2>2. Alive(i)' = Alive(i) /\ stores' = stores /\ \A e \in Alive(i) : rows'[stores][e] = rows[stores][e]
    BY <1>2, <2>1, UntouchedAlive
  <2>3. Alive(ops[b].id)' = Alive(i)'
    BY <2>1
  <2>4. ops[b].st \in {"map", "done"} /\ Writes(b) => ops[b].env \in Alive(i)
    BY <2>1 DEF CallHolds, Writes, ShapeInv, CallShape
  <2> QED BY <1>2, <2>1, <2>2, <2>3, <2>4 DEF CallHolds, Running, Writes
<1> QED BY <1>1, <1>2

(***************************************************************************)
(* The step of one call                                                    *)
(***************************************************************************)
\* A step of call o, of document i: the calls and the documents it is not about stay.
OpStep(o, i) ==
  /\ o \in Ops /\ i \in Ids /\ \A b \in Ops : b # o => ops'[b] = ops[b]
  /\ ops[o].st # "new" => /\ ops[o].id = i /\ ops'[o].id = i
                          /\ ops'[o].kind = ops[o].kind /\ ops'[o].doc = ops[o].doc
  /\ \A j \in Ids : j # i => Untouched(j) /\ inFlight'[j] = inFlight[j] /\ byId'[j] = byId[j]
  /\ \A b \in Ops : b # o => ~Running(b) \/ ops[b].id # i \/ rows' = rows
  /\ UNCHANGED <<pending, attached, stores, closing, swap, listing, timer, events, pulled>>

\* A step of a persist touches its own document and no other.
LEMMA MoveIsStep ==
  ASSUME Calm, NEW o \in Ops, Busy(o), NEW i \in Ids, i = ops[o].id, MoveEffect(o),
         \/ Running(o) /\ \A j \in Ids : j # i => Untouched(j)
         \/ rows' = rows
  PROVE  OpStep(o, i)
<1>1. \A b \in Ops : b # o => ~Running(b) \/ ops[b].id # i \/ rows' = rows
  BY OneHead, CalmParts
<1>2. rows' = rows => \A j \in Ids : Untouched(j)
  BY DEF Untouched, MoveEffect
<1> QED BY <1>1, <1>2 DEF MoveEffect, OpStep

\* A call that settles touches its own document's entry and no row.
LEMMA SettleIsStep ==
  ASSUME NEW o \in Ops, NEW i \in Ids, NEW st, NEW latest, NEW confirmed, NEW shown,
         SettleEffect(o, i, st, latest, confirmed, shown)
  PROVE  OpStep(o, i) /\ Untouched(i)
BY DEF SettleEffect, OpStep, Untouched

\* A call that is issued touches its own document's entry and no row.
LEMMA IssueIsStep ==
  ASSUME NEW o \in Ops, NEW kind \in Kinds, NEW i \in Ids, IssueEffect(o, kind, i)
  PROVE  OpStep(o, i) /\ Untouched(i)
BY DEF IssueEffect, OpStep, Untouched

\* The step of one document's call leaves the other documents alone.
LEMMA Aside ==
  ASSUME Calm, NEW o \in Ops, NEW i \in Ids, OpStep(o, i)
  PROVE  /\ CallsKeep /\ \A j \in Ids : Out(j)' = Out(j) /\ Out(j)' \cap events' = Out(j) \cap events
         /\ InUse' <=> InUse
         /\ \A j \in Ids : j # i => SameEntry(j) /\ SameSteps(j) /\ (Tracked(j)' <=> Tracked(j))
<1>1. CallsKeep
  BY DEF OpStep, CallsKeep
<1>2. \A j \in Ids : Out(j)' = Out(j) /\ Out(j)' \cap events' = Out(j) \cap events
  BY DEF OpStep, Out, Outstanding
<1>3. InUse' <=> InUse
  BY DEF OpStep, InUse
<1>4. ASSUME NEW j \in Ids, j # i PROVE SameEntry(j) /\ SameSteps(j) /\ (Tracked(j)' <=> Tracked(j))
  <2>1. inFlight'[j] = inFlight[j] /\ Queue(j)' = Queue(j)
    BY <1>4 DEF OpStep, Queue
  <2>2. ASSUME NEW b \in Ops, Busy(b), ops[b].id = j PROVE ops'[b] = ops[b]
    BY <1>4, <2>2 DEF OpStep, Busy
  <2> QED BY <2>1, <2>2 DEF SameEntry, SameSteps, Wrote, Writes, Tracked, OpStep
<1> QED BY <1>1, <1>2, <1>3, <1>4

\* The invariant of the documents and the calls a step of a call is not about.
LEMMA AsideHolds ==
  ASSUME Calm, NEW o \in Ops, NEW i \in Ids, OpStep(o, i), NEW j \in Ids, j # i
  PROVE  /\ InUse' => EventHolds(j)'
         /\ inFlight'[j] # None => EntryHolds(j)'
         /\ OriginHolds(j)'
         /\ attached' # 0 /\ ~timer' /\ index'[stores].of[j] = index[stores].of[j] => ViewHolds(j)'
<1>1. /\ CallsKeep /\ Out(j)' = Out(j) /\ Out(j)' \cap events' = Out(j) \cap events
      /\ (InUse' <=> InUse) /\ SameEntry(j) /\ SameSteps(j) /\ (Tracked(j)' <=> Tracked(j))
  BY Aside
<1>2. /\ Untouched(j) /\ inFlight'[j] = inFlight[j] /\ byId'[j] = byId[j]
      /\ UNCHANGED <<attached, stores, closing, swap, listing, timer, events, pulled>>
  BY DEF OpStep
<1>3. InUse' => EventHolds(j)'
  BY <1>1, <1>2, CalmParts, EventFrame DEF EventInv
<1>4. inFlight'[j] # None => EntryHolds(j)'
  BY <1>1, <1>2, CalmParts, EntryFrame DEF EntryInv
<1>5. OriginHolds(j)'
  BY <1>1, <1>2, CalmParts, OriginFrame DEF OriginInv
<1>6. ASSUME attached' # 0, ~timer', index'[stores].of[j] = index[stores].of[j] PROVE ViewHolds(j)'
  <2>1. ViewHolds(j)
    BY <1>2, <1>6, CalmParts DEF ViewInv
  <2>2. \A b \in Ops : Busy(b) /\ ops[b].id = j /\ ops'[b].kind = "remove" => (ops'[b].st = "done" => ops[b].st = "done")
    BY DEF OpStep, Busy
  <2> QED BY <1>1, <1>2, <1>6, <2>1, <2>2, CalmParts, ViewFrame
<1> QED BY <1>3, <1>4, <1>5, <1>6

\* The step of one call keeps what the other calls rely on.
LEMMA AsideCalls ==
  ASSUME Calm, NEW o \in Ops, NEW i \in Ids, OpStep(o, i), NEW b \in Ops, b # o,
         InUse /\ index[stores] # None => index'[stores] # None
  PROVE  CallHolds(b)'
<1>1. CallHolds(b) /\ ops'[b] = ops[b]
  BY CalmParts DEF CallInv, OpStep
<1>2. Running(b) => Untouched(ops[b].id)
  <2>1. rows' = rows => \A j : Untouched(j)
    BY DEF Untouched, OpStep
  <2>2. Running(b) => ops[b].id \in Ids
    BY RunsHere
  <2> QED BY <2>1, <2>2 DEF OpStep
<1>3. Running(b) => stores' = stores /\ InUse' /\ InUse /\ (attached' # 0 => ~swap')
  BY RunsHere DEF OpStep, InUse
<1> QED BY <1>1, <1>2, <1>3, CallFrame, CalmParts

(***************************************************************************)
(* What becomes of a row                                                   *)
(***************************************************************************)
\* A row of a replica keeps its document and stays dead; its payload only moves on.
RowsGo(s, e) ==
  /\ rows'[s][e] # None /\ rows'[s][e].doc.id = rows[s][e].doc.id
  /\ rows[s][e].dead => rows'[s][e].dead
  /\ \/ rows'[s][e].doc = rows[s][e].doc
     \/ s = stores /\ Wins(rows'[s][e].doc, rows[s][e].doc)
     \/ \E o \in Ops : /\ s = stores /\ ops[o].st = "patch" /\ Writes(o) /\ rows'[s][e].doc = ops[o].doc
                       /\ ops[o].id = rows[s][e].doc.id

\* A row is never lost: it keeps its document or takes one that wins, and stays dead.
LEMMA RowsAdvance ==
  ASSUME Calm, Uncrossed', [Next]_vars
  PROVE  \A s \in 1..stores, e \in Envelopes : rows[s][e] # None => RowsGo(s, e)
<1> SUFFICES ASSUME NEW s \in 1..stores, NEW e \in Envelopes, rows[s][e] # None PROVE RowsGo(s, e)
  OBVIOUS
<1>0. s \in 1..MaxStores /\ stores \in Nat /\ s # stores + 1 /\ stores + 1 \in Nat /\ TypeOK /\ ShapeInv
  BY ConstantsOK, CalmParts DEF ConstantsOK, TypeOK
<1>1. CASE rows'[s][e] = rows[s][e]
  BY <1>1 DEF RowsGo
<1>2. ASSUME NEW o \in Ops, Put(o) PROVE RowsGo(s, e)
  <2>1. PICK i : i = ops[o].id
    OBVIOUS
  <2>2. Running(o)
    BY <1>2 DEF Put, Running
  <2>3. WriteEffect(o, i, o) /\ rows[stores][o] = None
    BY <1>2, <2>1, <2>2, PutEffect, RunsHere
  <2>4. rows'[s][e] = rows[s][e]
    BY <1>0, <2>3 DEF WriteEffect
  <2> QED BY <2>4, <1>1
<1>3. ASSUME NEW o \in Ops, Patch(o) PROVE RowsGo(s, e)
  <2>1. PICK i, d : i = ops[o].id /\ d = ops[o].env
    OBVIOUS
  <2>2. Running(o)
    BY <1>3 DEF Patch, Running
  <2>3. WriteEffect(o, i, d) /\ ops[o].st = "patch"
    <3>1. d \in Envelopes
      BY <1>3, <2>1, <1>0, PatchWrites
    <3> QED BY <1>3, <2>1, <2>2, <3>1, PatchEffect, RunsHere
  <2>4. CASE s = stores /\ e = d
    BY <2>1, <2>3, <2>4 DEF WriteEffect, RowsGo
  <2>5. CASE ~(s = stores /\ e = d)
    BY <1>0, <1>1, <2>3, <2>5 DEF WriteEffect
  <2> QED BY <2>4, <2>5
<1>4. ASSUME NEW o \in Ops, Bury(o) PROVE RowsGo(s, e)
  <2>1. PICK i, d : i = ops[o].id /\ d = ops[o].env
    OBVIOUS
  <2>2. Running(o)
    BY <1>4 DEF Bury, Running
  <2>3. BuryEffect(o, i, d)
    <3>1. d \in Envelopes
      BY <1>4, <2>1, <1>0, BuryWrites
    <3> QED BY <1>4, <2>1, <2>2, <3>1, BuryDoes, RunsHere
  <2>4. CASE s = stores /\ e = d
    BY <2>1, <2>3, <2>4 DEF BuryEffect, RowsGo
  <2>5. CASE ~(s = stores /\ e = d)
    BY <1>0, <1>1, <2>3, <2>5 DEF BuryEffect
  <2> QED BY <2>4, <2>5
<1>5. ASSUME NEW p \in Pulls, Pull(p) PROVE RowsGo(s, e)
  <2>1. PICK d \in Envelopes, doc \in Docs, dead \in BOOLEAN : Installed(p, d, doc, dead)
    BY <1>0, <1>5, PullInstalls
  <2>2. attached = stores
    BY <2>1, CalmParts DEF Installed, SessionInv
  <2>3. CASE s = stores /\ e = d
    <3>1. d # p
      <4>1. d = p => e \in pulled
        BY <1>0, <2>3, CalmParts DEF RowInv
      <4> QED BY <1>5, <2>3, <4>1 DEF Pull
    <3>2. ~rows[s][e].dead /\ doc.id = rows[s][e].doc.id /\ (doc = rows[s][e].doc \/ Wins(doc, rows[s][e].doc))
      BY <2>1, <2>2, <2>3, <3>1 DEF Installed, Live
    <3>3. rows'[s][e] = [doc |-> doc, dead |-> dead] /\ rows'[s][e] # None
      BY <2>1, <2>2, <2>3 DEF Installed
    <3> QED BY <2>3, <3>2, <3>3 DEF RowsGo
  <2>4. CASE ~(s = stores /\ e = d)
    BY <1>0, <1>1, <2>1, <2>2, <2>4 DEF Installed
  <2> QED BY <2>3, <2>4
<1>6. CASE Attach
  <2>1. rows'[s] = rows[s]
    BY <1>0, <1>6, CalmParts DEF Attach, TypeOK
  <2> QED BY <1>1, <2>1
<1>7. CASE Flush \/ Rehydrate \/ Hydrated \/ CloseAndClear \/ EndSwap \/ UNCHANGED vars
  BY <1>7, <1>1 DEF Flush, Rehydrate, Hydrated, CloseAndClear, EndSwap, vars, held
<1>8. ASSUME NEW swaps \in BOOLEAN, Detach(swaps) PROVE RowsGo(s, e)
  BY <1>8, <1>1 DEF Detach, held
<1>9. ASSUME NEW c \in events, Deliver(c) \/ Undecodable(c) PROVE RowsGo(s, e)
  BY <1>9, <1>1 DEF Deliver, Undecodable, held
<1>10. ASSUME NEW o \in Ops, Start(o) \/ ListForIndex(o) \/ SetIndex(o) \/ Look(o) \/ MapEnvelope(o) \/ Finish(o) \/ Rejects(o)
       PROVE RowsGo(s, e)
  BY <1>10, <1>1 DEF Start, ListForIndex, SetIndex, Look, MapEnvelope, Finish, Rejects, held
<1>11. ASSUME NEW o \in Ops, NEW kind \in Kinds, NEW i \in Ids, Issue(o, kind, i) PROVE RowsGo(s, e)
  BY <1>11, <1>1 DEF Issue, held
<1> QED BY <1>2, <1>3, <1>4, <1>5, <1>6, <1>7, <1>8, <1>9, <1>10, <1>11 DEF Next, Persist

(***************************************************************************)
(* What becomes of a call                                                  *)
(***************************************************************************)
CallGoes(b) ==
  /\ ops[b].st = "acked" => ops'[b] = ops[b]
  /\ ops[b].st # "new" => ops'[b].kind = ops[b].kind /\ ops'[b].id = ops[b].id /\ ops'[b].doc = ops[b].doc
  /\ ops'[b].st = "acked" => ops[b].st = "acked" \/ (Finish(b) /\ ops'[b].store = ops[b].store)
  /\ ops[b].st \in {"map", "done", "acked"} => ops'[b].st \in {"map", "done", "acked"}
  /\ ops'[b].seen # None => \/ ops'[b].seen = ops[b].seen
                            \/ Running(b) /\ ops'[b].seen = rows[stores] /\ UNCHANGED <<rows, stores>>

\* How a step moves each call: kept, one step on, or issued.
LEMMA CallsGo ==
  ASSUME Calm, Uncrossed', [Next]_vars
  PROVE  \A b \in Ops : CallGoes(b)
<1> SUFFICES ASSUME NEW b \in Ops PROVE CallGoes(b)
  OBVIOUS
<1>0. TypeOK /\ ShapeInv
  BY CalmParts
<1>1. CASE ops'[b] = ops[b]
  BY <1>1 DEF CallGoes
<1>2. ASSUME NEW o \in Ops, Start(o) \/ MapEnvelope(o) \/ Patch(o) \/ Bury(o) \/ Put(o) \/ SetIndex(o) PROVE CallGoes(b)
  <2>1. MoveEffect(o) /\ ops[o].st # "acked" /\ ops'[o].st # "acked" /\ ops'[o].seen = None
        /\ (ops[o].st \in {"map", "done", "acked"} => ops'[o].st \in {"map", "done", "acked"})
    <3>1. SetIndex(o) => ops[o].st \in {"look", "map"}
      BY <1>0 DEF SetIndex, ShapeInv, CallShape
    <3>2. MoveEffect(o) /\ ops'[o].seen = None
      BY <1>0, <1>2, MoveDoes
    <3>3. CASE SetIndex(o)
      BY <1>0, <3>1, <3>2, <3>3, MoveDoes
    <3>4. CASE Start(o)
      BY <1>0, <3>2, <3>4, MoveDoes
    <3>5. CASE Put(o)
      BY <1>0, <3>2, <3>5, MoveDoes DEF Put
    <3>6. CASE MapEnvelope(o) \/ Patch(o) \/ Bury(o)
      BY <1>0, <3>2, <3>6, MoveDoes DEF MapEnvelope, Ready, Patch, Bury
    <3> QED BY <1>2, <3>3, <3>4, <3>5, <3>6
  <2>2. CASE b = o
    BY <2>1, <2>2 DEF MoveEffect, CallGoes
  <2>3. CASE b # o
    BY <1>1, <2>1, <2>3 DEF MoveEffect
  <2> QED BY <2>2, <2>3
<1>3. ASSUME NEW o \in Ops, Look(o) PROVE CallGoes(b)
  <2>1. PICK s, i, e : LookEffect(o, s, i, e)
    BY <1>0, <1>3, LookDoes
  <2>2. CASE b = o
    BY <2>1, <2>2 DEF MoveEffect, CallGoes, LookEffect
  <2>3. CASE b # o
    BY <1>1, <2>1, <2>3 DEF MoveEffect, LookEffect
  <2> QED BY <2>2, <2>3
<1>4. ASSUME NEW o \in Ops, ListForIndex(o) PROVE CallGoes(b)
  <2>1. MoveEffect(o) /\ ops'[o].st = ops[o].st /\ ops'[o].seen = rows[ops[o].store] /\ UNCHANGED rows
    BY <1>0, <1>4, MoveDoes
  <2>2. ops[o].st \in {"look", "map"} /\ Running(o)
    BY <1>4 DEF ListForIndex, NeedsIndex, Running
  <2>3. ops[o].store = stores
    BY <2>2, RunsHere
  <2>4. CASE b = o
    BY <2>1, <2>2, <2>3, <2>4 DEF MoveEffect, CallGoes
  <2>5. CASE b # o
    BY <1>1, <2>1, <2>5 DEF MoveEffect
  <2> QED BY <2>4, <2>5
<1>5. ASSUME NEW o \in Ops, Finish(o) PROVE CallGoes(b)
  <2>1. PICK i : i = ops[o].id
    OBVIOUS
  <2>2. Running(o) /\ ops[o].st = "done"
    BY <1>5 DEF Finish, Running
  <2>3. i \in Ids
    BY <2>1, <2>2, RunsHere
  <2>4. FinishEffect(o, i)
    BY <1>0, <1>5, <2>1, <2>3, FinishDoes
  <2>5. PICK latest, confirmed, shown : SettleEffect(o, i, "acked", latest, confirmed, shown)
    BY <2>4 DEF FinishEffect
  <2>6. CASE b = o
    BY <1>5, <2>2, <2>5, <2>6 DEF SettleEffect, CallGoes
  <2>7. CASE b # o
    BY <1>1, <2>5, <2>7 DEF SettleEffect
  <2> QED BY <2>6, <2>7
<1>6. ASSUME NEW o \in Ops, Rejects(o) PROVE CallGoes(b)
  <2>1. PICK i : i = ops[o].id
    OBVIOUS
  <2>2. Busy(o)
    BY <1>6 DEF Rejects, Turn, NeedsIndex, Busy
  <2>3. i \in Ids
    BY <1>0, <2>1, <2>2, BusyCall
  <2>4. RejectEffect(o, i)
    BY <1>0, <1>6, <2>1, <2>3, RejectsDoes
  <2>5. PICK latest, confirmed, shown : SettleEffect(o, i, "rejected", latest, confirmed, shown)
    BY <2>4 DEF RejectEffect
  <2>5a. ops[o].st \notin {"map", "done", "acked"}
    BY <2>4 DEF RejectEffect, Uncrossed
  <2>6. CASE b = o
    BY <2>5, <2>5a, <2>6 DEF SettleEffect, CallGoes
  <2>7. CASE b # o
    BY <1>1, <2>5, <2>7 DEF SettleEffect
  <2> QED BY <2>6, <2>7
<1>7. ASSUME NEW o \in Ops, NEW kind \in Kinds, NEW i \in Ids, Issue(o, kind, i) PROVE CallGoes(b)
  <2>1. IssueEffect(o, kind, i)
    BY <1>0, <1>7, IssueDoes
  <2>2. CASE b = o
    BY <2>1, <2>2 DEF IssueEffect, CallGoes
  <2>3. CASE b # o
    BY <1>1, <2>1, <2>3 DEF IssueEffect
  <2> QED BY <2>2, <2>3
<1>8. CASE Flush \/ Rehydrate \/ Hydrated \/ CloseAndClear \/ EndSwap \/ Attach \/ UNCHANGED vars
  BY <1>8, <1>1 DEF Flush, Rehydrate, Hydrated, CloseAndClear, EndSwap, Attach, vars
<1>9. ASSUME NEW swaps \in BOOLEAN, Detach(swaps) PROVE CallGoes(b)
  BY <1>9, <1>1 DEF Detach
<1>10. ASSUME NEW c \in events, Deliver(c) \/ Undecodable(c) PROVE CallGoes(b)
  BY <1>10, <1>1 DEF Deliver, Undecodable
<1>11. ASSUME NEW p \in Pulls, Pull(p) PROVE CallGoes(b)
  BY <1>11, <1>1 DEF Pull
<1> QED BY <1>2, <1>3, <1>4, <1>5, <1>6, <1>7, <1>8, <1>9, <1>10, <1>11 DEF Next, Persist

(***************************************************************************)
(* An acknowledged write stands                                            *)
(***************************************************************************)
LEMMA StandStep ==
  ASSUME Calm, BaseInv', Uncrossed', [Next]_vars
  PROVE  StandInv'
<1> SUFFICES ASSUME NEW o \in Ops, ops'[o].st = "acked", ops'[o].kind # "remove"
             PROVE \E e \in Envelopes :
                /\ rows'[ops'[o].store][e] # None /\ rows'[ops'[o].store][e].doc.id = ops'[o].id
                /\ ~Wins(ops'[o].doc, rows'[ops'[o].store][e].doc)
  BY DEF StandInv, Writes, Wins
<1>0. TypeOK /\ ShapeInv /\ stores \in 0..MaxStores /\ MaxStores \in Nat
  BY CalmParts, ConstantsOK DEF ConstantsOK, TypeOK
<1>1. CallGoes(o) /\ ops[o].st \in {"done", "acked"} /\ Writes(o)
  <2>1. CallGoes(o)
    BY CallsGo
  <2>2. ops[o].st \in {"done", "acked"}
    BY <2>1 DEF CallGoes, Finish
  <2> QED BY <2>1, <2>2 DEF CallGoes, Writes
<1>2. ops'[o].store = ops[o].store /\ ops'[o].doc = ops[o].doc /\ ops'[o].id = ops[o].id /\ ops[o].store \in 1..stores
  BY <1>0, <1>1 DEF CallGoes, ShapeInv, CallShape
<1>3. PICK s : s = ops[o].store /\ s \in 1..stores
  BY <1>2
<1>4. ops[o].doc \in Docs /\ ops[o] \in Call
  BY <1>0, <1>1, CallFields, NoneIsApart DEF ShapeInv, CallShape, TypeOK, Optional
<1>5. \E e \in Envelopes : rows[s][e] # None /\ rows[s][e].doc.id = ops[o].id /\ ~Wins(ops[o].doc, rows[s][e].doc)
  <2>1. CASE ops[o].st = "acked"
    BY <1>1, <1>3, <2>1, CalmParts DEF StandInv
  <2>2. CASE ops[o].st = "done"
    <3>1. Running(o)
      BY <2>2 DEF Running
    <3>2. ops[o].store = stores /\ ops[o].env \in Alive(ops[o].id) /\ ~Wins(ops[o].doc, rows[stores][ops[o].env].doc)
      BY <1>1, <2>2, <3>1, RunsHere, CalmParts DEF CallInv, CallHolds
    <3> QED BY <1>3, <3>2, AliveIs
  <2> QED BY <1>1, <2>1, <2>2
<1>6. PICK e \in Envelopes : rows[s][e] # None /\ rows[s][e].doc.id = ops[o].id /\ ~Wins(ops[o].doc, rows[s][e].doc)
  BY <1>5
<1>7. RowsGo(s, e)
  BY <1>3, <1>6, RowsAdvance
<1>8. s \in 1..MaxStores
  BY <1>0, <1>3
<1>9. rows[s][e].doc \in Docs /\ rows'[s][e].doc \in Docs
  <2>1. rows'[s][e] # None /\ TypeOK'
    BY <1>7 DEF RowsGo, BaseInv
  <2>2. rows' \in [1..MaxStores -> Listing]
    BY <2>1 DEF TypeOK
  <2>3. rows'[s][e] \in Rows
    BY <1>8, <2>1, <2>2, NoneIsApart DEF Listing, Optional
  <2> QED BY <1>0, <1>6, <1>8, <2>3, RowFields DEF Rows
<1>10. ~Wins(ops[o].doc, rows'[s][e].doc)
  <2>1. CASE rows'[s][e].doc = rows[s][e].doc
    BY <1>6, <2>1
  <2>2. CASE Wins(rows'[s][e].doc, rows[s][e].doc)
    BY <1>4, <1>6, <1>9, <2>2, WinsOrder
  <2>3. ASSUME NEW p \in Ops, s = stores, ops[p].st = "patch", Writes(p), rows'[s][e].doc = ops[p].doc, ops[p].id = rows[s][e].doc.id
        PROVE ~Wins(ops[o].doc, rows'[s][e].doc)
    <3>1. Running(p) /\ Busy(p) /\ ops[p].id = ops[o].id
      BY <1>6, <2>3 DEF Running, Busy
    <3>2. CASE ops[o].st = "acked"
      <4>1. ops[o].doc.ts < ops[p].doc.ts
        BY <1>1, <2>3, <3>1, <3>2, CalmParts DEF QueueInv
      <4> QED BY <1>4, <1>9, <2>3, <4>1, WinsOrder
    <3>3. CASE ops[o].st = "done"
      <4>1. Running(o)
        BY <3>3 DEF Running
      <4>2. o = p
        BY <3>1, <4>1, <1>0, OneHead
      <4> QED BY <2>3, <3>3, <4>2
    <3> QED BY <1>1, <3>2, <3>3
  <2> QED BY <1>7, <2>1, <2>2, <2>3 DEF RowsGo
<1> QED BY <1>2, <1>3, <1>6, <1>7, <1>10 DEF RowsGo

(***************************************************************************)
(* The rows                                                                *)
(***************************************************************************)
\* Where a row comes from.
RowFrom(s, e) ==
  \/ s \in 1..stores /\ rows[s][e] # None
  \/ /\ s = stores /\ e \in Ops /\ rows[s][e] = None /\ ops'[e].st = "map" /\ ops'[e].kind # "remove"
     /\ ops'[e].id = rows'[s][e].doc.id
  \/ e \in Pulls /\ e \in pulled' /\ s \in {stores, stores'}
  \/ s = stores' /\ stores' = stores + 1 /\ s > stores /\ stores # 0 /\ e \in Live(rows[stores]) /\ rows'[s][e] = rows[stores][e]

\* Where a row comes from: it was there, a call minted it, or a pull did.
LEMMA RowsCome ==
  ASSUME Calm, Uncrossed', [Next]_vars, NEW s \in 1..MaxStores, NEW e \in Envelopes, rows'[s][e] # None
  PROVE  RowFrom(s, e)
<1>0. TypeOK /\ ShapeInv /\ SessionInv /\ stores \in 0..MaxStores /\ MaxStores \in Nat
  BY CalmParts, ConstantsOK DEF ConstantsOK, TypeOK
<1>1. CASE rows[s][e] # None
  <2>1. s <= stores
    BY <1>0, <1>1 DEF SessionInv, NoRows
  <2> QED BY <1>0, <1>1, <2>1 DEF RowFrom
<1>2. CASE rows[s][e] = None
  <2>1. ASSUME NEW o \in Ops, Put(o) PROVE RowFrom(s, e)
    <3>1. PICK i : i = ops[o].id
      OBVIOUS
    <3>2. Running(o)
      BY <2>1 DEF Put, Running
    <3>3. WriteEffect(o, i, o) /\ ops'[o].st = "map"
      BY <2>1, <3>1, <3>2, PutEffect, RunsHere
    <3>4. s = stores /\ e = o
      BY <1>2, <3>3 DEF WriteEffect
    <3>5. rows'[s][e].doc.id = i /\ ops'[o].id = i /\ ops'[o].kind # "remove"
      BY <3>1, <3>3, <3>4 DEF WriteEffect, MoveEffect, Writes
    <3> QED BY <1>2, <3>3, <3>4, <3>5 DEF RowFrom
  <2>2. ASSUME NEW o \in Ops, Patch(o) \/ Bury(o) PROVE FALSE
    BY <1>0, <1>2, <2>2, PatchWrites, BuryWrites
  <2>3. ASSUME NEW p \in Pulls, Pull(p) PROVE RowFrom(s, e)
    <3>1. PICK d \in Envelopes, doc \in Docs, dead \in BOOLEAN : Installed(p, d, doc, dead)
      BY <1>0, <2>3, PullInstalls
    <3>2. s = attached /\ e = d /\ attached = stores
      BY <1>0, <1>2, <3>1 DEF Installed, SessionInv
    <3>3. d = p
      BY <1>2, <3>1, <3>2 DEF Installed, Live
    <3> QED BY <2>3, <3>2, <3>3 DEF RowFrom, Pull
  <2>4. CASE Attach
    <3>1. stores' = stores + 1 /\ stores + 1 \in 1..MaxStores
      BY <1>0, <2>4 DEF Attach
    <3>2. CASE swap /\ rows' = [rows EXCEPT ![stores + 1] = [x \in Envelopes |-> IF x \in Live(rows[stores]) THEN rows[stores][x] ELSE None]]
      <4>1. s = stores + 1 /\ e \in Live(rows[stores]) /\ rows'[s][e] = rows[stores][e]
        BY <1>0, <1>2, <3>1, <3>2 DEF TypeOK
      <4>2. stores # 0
        BY <1>0, <3>2 DEF ShapeInv
      <4> QED BY <1>0, <3>1, <4>1, <4>2 DEF RowFrom
    <3>3. CASE rows' = rows
      BY <1>2, <3>3
    <3>4. ASSUME NEW p \in Pulls, NEW i \in Ids, pulled' = pulled \cup {p},
                 rows' = [rows EXCEPT ![stores + 1][p] = [doc |-> [id |-> i, ts |-> 0, src |-> p], dead |-> FALSE]]
          PROVE RowFrom(s, e)
      <4>1. s = stores + 1 /\ e = p
        BY <1>0, <1>2, <3>4 DEF TypeOK, Listing
      <4> QED BY <3>1, <3>4, <4>1 DEF RowFrom
    <3> QED BY <2>4, <3>2, <3>3, <3>4 DEF Attach
  <2>5. rows' = rows => FALSE
    BY <1>2
  <2>6. CASE Flush \/ Rehydrate \/ Hydrated \/ CloseAndClear \/ EndSwap \/ UNCHANGED vars
    BY <2>6, <2>5 DEF Flush, Rehydrate, Hydrated, CloseAndClear, EndSwap, vars, held
  <2>7. ASSUME NEW swaps \in BOOLEAN, Detach(swaps) PROVE FALSE
    BY <2>7, <2>5 DEF Detach, held
  <2>8. ASSUME NEW c \in events, Deliver(c) \/ Undecodable(c) PROVE FALSE
    BY <2>8, <2>5 DEF Deliver, Undecodable, held
  <2>9. ASSUME NEW o \in Ops, Start(o) \/ ListForIndex(o) \/ SetIndex(o) \/ Look(o) \/ MapEnvelope(o) \/ Finish(o) \/ Rejects(o)
        PROVE FALSE
    BY <2>9, <2>5 DEF Start, ListForIndex, SetIndex, Look, MapEnvelope, Finish, Rejects, held
  <2>10. ASSUME NEW o \in Ops, NEW kind \in Kinds, NEW i \in Ids, Issue(o, kind, i) PROVE FALSE
    BY <2>10, <2>5 DEF Issue, held
  <2> QED BY <2>1, <2>2, <2>3, <2>4, <2>5, <2>6, <2>7, <2>8, <2>9, <2>10 DEF Next, Persist
<1> QED BY <1>1, <1>2

\* A pull brings a document, a newer payload of it, or its end.
PullNew(p, e, i, doc, dead) ==
  /\ ~dead /\ e = p /\ doc.src = p /\ Alive(i) = {} /\ Alive(i)' = {p} /\ Out(i) = {} /\ inFlight[i] = None
  /\ rows[stores][p] = None /\ Shown(i)' = doc /\ Shown(i) = None
PullLive(p, e, i, doc, dead) ==
  /\ ~dead /\ doc.src = p /\ Alive(i) = {e} /\ Alive(i)' = {e} /\ Wins(doc, rows[stores][e].doc)
  /\ Shown(i) = rows[stores][e].doc /\ Shown(i)' = doc /\ rows[stores][e] # None /\ rows[stores][e].doc.id = i
  /\ \A x \in Out(i) : ~x.dead
  /\ inFlight[i] # None => /\ \A k \in DOMAIN Queue(i) : Writes(Queue(i)[k])
                           /\ inFlight[i].latest = None \/ ~Wins(doc, inFlight[i].latest)
PullDead(e, i, doc, dead) ==
  /\ dead /\ Alive(i) = {e} /\ Alive(i)' = {} /\ doc = rows[stores][e].doc /\ Shown(i)' = None
  /\ Shown(i) = doc /\ Out(i) = {} /\ inFlight[i] = None /\ rows[stores][e] # None /\ rows[stores][e].doc.id = i
\* What a pull does to its document.
PullEffect(p, e, i, doc, dead, c) ==
  /\ p \in Pulls /\ e \in Envelopes /\ i \in Ids /\ i = doc.id /\ doc \in Docs /\ dead \in BOOLEAN /\ doc.ts \in 0..clock
  /\ attached = stores /\ stores \in 1..MaxStores /\ InUse /\ attached # 0 /\ index[stores] # None /\ pending = <<>>
  /\ p \notin pulled /\ pulled' = pulled \cup {p}
  /\ \A j \in Ids : j # i => Untouched(j) /\ inFlight'[j] = inFlight[j]
  /\ rows'[stores][e] = [doc |-> doc, dead |-> dead] /\ rows'[stores][e] # None
  /\ \A d \in Envelopes : d # e => rows'[stores][d] = rows[stores][d]
  /\ \A s \in 1..MaxStores : s # stores => rows'[s] = rows[s]
  /\ c = [store |-> stores, env |-> e, doc |-> doc, dead |-> dead]
  /\ events' = events \cup {c}
  /\ \A j \in Ids : j # i => Out(j)' = Out(j) /\ Out(j)' \cap events' = Out(j) \cap events
  /\ Out(i)' = Out(i) \cup {c}
  /\ PullNew(p, e, i, doc, dead) \/ PullLive(p, e, i, doc, dead) \/ PullDead(e, i, doc, dead)
  /\ inFlight'[i] = None <=> inFlight[i] = None
  /\ inFlight[i] # None => /\ Queue(i)' = Queue(i) /\ inFlight'[i].latest = inFlight[i].latest
                           /\ inFlight'[i].confirmed = inFlight[i].confirmed /\ inFlight'[i].moved = TRUE
  /\ UNCHANGED <<byId, pending, ops, index, attached, stores, closing, swap, listing, timer, clock>>

\* What a pull that crosses nothing does to the replica and to the feed.
LEMMA PullDoes ==
  ASSUME Calm, Uncrossed', NEW p \in Pulls, Pull(p)
  PROVE  \E e \in Envelopes, i \in Ids, doc \in Docs, dead \in BOOLEAN, c \in Change : PullEffect(p, e, i, doc, dead, c)
<1>0. TypeOK /\ ShapeInv /\ SessionInv
  BY CalmParts
<1>1. PICK e \in Envelopes, doc \in Docs, dead \in BOOLEAN : Installed(p, e, doc, dead)
  BY <1>0, PullInstalls
<1>2. PICK i \in Ids : i = doc.id
  BY <1>1 DEF Installed
<1>3. PICK c \in Change : c = [store |-> attached, env |-> e, doc |-> doc, dead |-> dead]
  BY <1>1 DEF Installed
<1>4. attached = stores /\ stores \in 1..MaxStores /\ InUse /\ attached # 0 /\ index[stores] # None /\ pending = <<>>
      /\ p \notin pulled /\ pulled' = pulled \cup {p}
      /\ UNCHANGED <<byId, pending, ops, index, attached, stores, closing, swap, listing, timer, clock>>
  BY <1>0, <1>1 DEF Installed, SessionInv, Pull, Flushed, InUse, lives
<1>5. /\ rows'[stores][e] = [doc |-> doc, dead |-> dead] /\ rows'[stores][e] # None
      /\ \A d \in Envelopes : d # e => rows'[stores][d] = rows[stores][d]
      /\ \A s \in 1..MaxStores : s # stores => rows'[s] = rows[s]
  BY <1>1, <1>4 DEF Installed
<1>6. events' = events \cup {c} /\ inFlight' = [inFlight EXCEPT ![i] = Moved(@)]
  BY <1>1, <1>2, <1>3 DEF Installed, Install
<1>7. \A j \in Ids : j # i => inFlight'[j] = inFlight[j]
  BY <1>0, <1>6 DEF TypeOK
<1>8. inFlight'[i] = Moved(inFlight[i])
  BY <1>0, <1>6 DEF TypeOK
<1>9. /\ inFlight'[i] = None <=> inFlight[i] = None
      /\ inFlight[i] # None => /\ Queue(i)' = Queue(i) /\ inFlight'[i].latest = inFlight[i].latest
                               /\ inFlight'[i].confirmed = inFlight[i].confirmed /\ inFlight'[i].moved = TRUE
  BY <1>0, <1>8, MovedDoes
<1>10. c.store = stores /\ c.env = e /\ c.doc = doc /\ c.dead = dead /\ c.doc.id = i
  BY <1>2, <1>3, <1>4
<1>11. \A j \in Ids : Out(j)' = {x \in events' \cup Range(pending) : x.doc.id = j /\ x.store = stores}
  BY <1>4 DEF Out, Outstanding
<1>12. \A j \in Ids : Out(j) = {x \in events \cup Range(pending) : x.doc.id = j /\ x.store = stores}
  BY DEF Out, Outstanding
<1>13. Out(i)' = Out(i) \cup {c}
  BY <1>6, <1>10, <1>11, <1>12
<1>14. \A j \in Ids : j # i => Out(j)' = Out(j) /\ Out(j)' \cap events' = Out(j) \cap events
  <2> SUFFICES ASSUME NEW j \in Ids, j # i PROVE Out(j)' = Out(j) /\ Out(j)' \cap events' = Out(j) \cap events
    OBVIOUS
  <2>1. c \notin Out(j)'
    BY <1>10, <1>11
  <2>2. Out(j)' = Out(j)
    BY <1>6, <1>10, <1>11, <1>12
  <2> QED BY <1>6, <2>1, <2>2
<1>15. /\ \A x \in Out(i) : ~dead /\ ~x.dead
       /\ dead => inFlight[i] = None
       /\ inFlight[i] # None => /\ ~\E o \in Range(Queue(i)) : ops[o].kind = "remove"
                                /\ ~(inFlight[i].latest # None /\ Wins(doc, inFlight[i].latest))
  <2>1. clashes' = clashes \cup Crossed("overtaken",
       \/ \E x \in Outstanding(i) : dead \/ x.dead
       \/ dead /\ inFlight[i] # None
       \/ /\ inFlight[i] # None
          /\ \/ \E o \in Range(inFlight[i].queue) : ops[o].kind = "remove"
             \/ inFlight[i].latest # None /\ Wins(doc, inFlight[i].latest))
    BY <1>1, <1>2 DEF Installed, Install
  <2>2. ~(\/ \E x \in Outstanding(i) : dead \/ x.dead
          \/ dead /\ inFlight[i] # None
          \/ /\ inFlight[i] # None
             /\ \/ \E o \in Range(inFlight[i].queue) : ops[o].kind = "remove"
                \/ inFlight[i].latest # None /\ Wins(doc, inFlight[i].latest))
    BY <2>1 DEF Crossed, Uncrossed
  <2> QED BY <2>2 DEF Out, Queue
<1>16. inFlight[i] # None => /\ \A k \in DOMAIN Queue(i) : Writes(Queue(i)[k])
                             /\ inFlight[i].latest = None \/ ~Wins(doc, inFlight[i].latest)
  BY <1>15 DEF Writes, Range
<1>17. \A x : x \in Alive(i) <=> x \in Envelopes /\ rows[stores][x] # None /\ ~rows[stores][x].dead /\ rows[stores][x].doc.id = i
  BY AliveIs
<1>18. \A x : x \in Alive(i)' <=> x \in Envelopes /\ rows'[stores][x] # None /\ ~rows'[stores][x].dead /\ rows'[stores][x].doc.id = i
  BY <1>4 DEF Alive, LiveOf, Live
<1>19. rows'[stores][e].doc = doc /\ rows'[stores][e].dead = dead
  BY <1>5
<1>20. EventHolds(i)
  BY <1>4, CalmParts DEF EventInv
<1>21. Shown(i)' = DocIn(rows'[stores], i) /\ Alive(i)' = LiveOf(rows'[stores], i)
  BY <1>4 DEF Shown, Alive
<1>22. CASE e = p /\ ~dead /\ doc.src = p /\ LiveOf(rows[attached], doc.id) = {} /\ inFlight[doc.id] = None
  <2>1. Alive(i) = {} /\ inFlight[i] = None /\ Shown(i) = None
    BY <1>2, <1>4, <1>22 DEF Alive, Shown, DocIn
  <2>2. Alive(i)' = {p}
    BY <1>2, <1>5, <1>17, <1>18, <1>19, <1>22, <2>1
  <2>3. Out(i) = {}
    BY <1>15, <1>20, <2>1 DEF EventHolds
  <2>4. rows[stores][p] = None
    <3>1. p \in Envelopes
      BY DEF Envelopes
    <3> QED BY <1>4, <3>1, CalmParts DEF RowInv
  <2>5. Shown(i)' = doc
    <3>1. LiveOf(rows'[stores], i) = {p}
      BY <1>21, <2>2
    <3>2. DocIn(rows'[stores], i) = rows'[stores][p].doc
      BY <3>1, OnlyRow
    <3> QED BY <1>19, <1>21, <1>22, <3>2
  <2>6. \A j \in Ids : j # i => Untouched(j)
    BY <1>2, <1>4, <1>5, <1>19, <1>22, <2>4 DEF Untouched
  <2>7. doc.ts \in 0..clock
    BY <1>0, <1>1, <1>22 DEF Installed, Docs, TypeOK
  <2>8. PullNew(p, e, i, doc, dead)
    BY <1>22, <2>1, <2>2, <2>3, <2>4, <2>5 DEF PullNew
  <2> QED BY <1>2, <1>3, <1>4, <1>5, <1>6, <1>7, <1>9, <1>13, <1>14, <2>6, <2>7, <2>8 DEF PullEffect
<1>23. CASE e \in Live(rows[attached]) /\ doc.id = rows[attached][e].doc.id
  <2>1. e \in Alive(i) /\ Alive(i) = {e} /\ Shown(i) = rows[stores][e].doc /\ rows[stores][e] # None /\ rows[stores][e].doc.id = i
    BY <1>0, <1>2, <1>4, <1>17, <1>23, Alone, CalmParts DEF Live
  <2>2. \A j \in Ids : j # i => Untouched(j)
    BY <1>2, <1>4, <1>5, <1>19, <2>1 DEF Untouched
  <2>3. CASE ~dead /\ doc.src = p /\ Wins(doc, rows[attached][e].doc)
    <3>1. Alive(i)' = {e}
      BY <1>2, <1>5, <1>17, <1>18, <1>19, <2>1, <2>3
    <3>2. Shown(i)' = doc
      <4>1. LiveOf(rows'[stores], i) = {e}
        BY <1>21, <3>1
      <4>2. DocIn(rows'[stores], i) = rows'[stores][e].doc
        BY <4>1, OnlyRow
      <4> QED BY <1>19, <1>21, <4>2
    <3>3. doc.ts \in 0..clock
      BY <1>0, <1>1, <2>3 DEF Installed, Docs, TypeOK
    <3>4. \A x \in Out(i) : ~x.dead
      BY <1>15
    <3>5. PullLive(p, e, i, doc, dead)
      BY <1>4, <1>16, <2>1, <2>3, <3>1, <3>2, <3>4 DEF PullLive
    <3> QED BY <1>2, <1>3, <1>4, <1>5, <1>6, <1>7, <1>9, <1>13, <1>14, <2>2, <3>3, <3>5 DEF PullEffect
  <2>4. CASE dead /\ doc = rows[attached][e].doc
    <3>1. Alive(i)' = {}
      BY <1>2, <1>5, <1>17, <1>18, <1>19, <2>1, <2>4
    <3>2. Shown(i)' = None
      BY <1>21, <3>1 DEF DocIn
    <3>3. doc.ts \in 0..clock
      <4>1. doc.ts <= clock
        BY <1>4, <2>1, <2>4, CalmParts DEF StampInv
      <4> QED BY <1>0, <4>1 DEF Docs, TypeOK
    <3>4. Out(i) = {} /\ inFlight[i] = None
      BY <1>15, <2>4
    <3>5. Shown(i) = doc
      BY <1>4, <2>1, <2>4
    <3>6. PullDead(e, i, doc, dead)
      BY <1>4, <2>1, <2>4, <3>1, <3>2, <3>4, <3>5 DEF PullDead
    <3> QED BY <1>2, <1>3, <1>4, <1>5, <1>6, <1>7, <1>9, <1>13, <1>14, <2>2, <3>3, <3>6 DEF PullEffect
  <2>5. e # p
    <3>1. e = p => e \in pulled
      BY <1>4, <2>1, CalmParts DEF RowInv
    <3> QED BY <1>4, <3>1
  <2>6. (~dead /\ doc.src = p /\ Wins(doc, rows[attached][e].doc)) \/ (dead /\ doc = rows[attached][e].doc)
    BY <1>1, <2>5 DEF Installed
  <2> QED BY <2>3, <2>4, <2>6
<1>24. \/ e = p /\ ~dead /\ doc.src = p /\ LiveOf(rows[attached], doc.id) = {} /\ inFlight[doc.id] = None
       \/ e \in Live(rows[attached]) /\ doc.id = rows[attached][e].doc.id
  BY <1>1 DEF Installed
<1> QED BY <1>22, <1>23, <1>24

\* A pull made is never unmade.
LEMMA PulledGrows == [Next]_vars => pulled \subseteq pulled'
<1> SUFFICES ASSUME [Next]_vars PROVE pulled \subseteq pulled'
  OBVIOUS
<1>1. ASSUME NEW o \in Ops, Persist(o) PROVE pulled \subseteq pulled'
  <2>1. Start(o) \/ ListForIndex(o) \/ SetIndex(o) \/ Look(o) \/ Put(o) => pulled' = pulled
    BY DEF Start, ListForIndex, SetIndex, Look, Put, feed
  <2>2. MapEnvelope(o) \/ Patch(o) \/ Bury(o) \/ Finish(o) \/ Rejects(o) => pulled' = pulled
    BY DEF MapEnvelope, Patch, Bury, Finish, Rejects, feed
  <2> QED BY <1>1, <2>1, <2>2 DEF Persist
<1>2. ASSUME NEW o \in Ops, NEW kind \in Kinds, NEW i \in Ids, Issue(o, kind, i) PROVE pulled \subseteq pulled'
  BY <1>2 DEF Issue, feed
<1>3. ASSUME NEW p \in Pulls, Pull(p) PROVE pulled \subseteq pulled'
  BY <1>3 DEF Pull
<1>4. ASSUME NEW c \in events, Deliver(c) \/ Undecodable(c) PROVE pulled \subseteq pulled'
  BY <1>4 DEF Deliver, Undecodable
<1>5. CASE Flush \/ Rehydrate \/ Hydrated \/ CloseAndClear \/ EndSwap \/ UNCHANGED vars
  BY <1>5 DEF Flush, Rehydrate, Hydrated, CloseAndClear, EndSwap, vars, feed
<1>6. CASE Attach
  BY <1>6 DEF Attach
<1>7. ASSUME NEW swaps \in BOOLEAN, Detach(swaps) PROVE pulled \subseteq pulled'
  BY <1>7 DEF Detach, feed
<1> QED BY <1>1, <1>2, <1>3, <1>4, <1>5, <1>6, <1>7 DEF Next

\* What a listing read stays readable.
LEMMA ReadStays ==
  ASSUME Calm, BaseInv', Uncrossed', [Next]_vars, NEW seen, ReadOf(seen), stores' = stores, stores \in 1..MaxStores
  PROVE  ReadOf(seen)'
<1>1. \A e \in Envelopes : rows[stores][e] # None =>
        /\ rows'[stores][e] # None /\ rows'[stores][e].doc.id = rows[stores][e].doc.id
        /\ rows[stores][e].dead => rows'[stores][e].dead
  BY RowsAdvance DEF RowsGo
<1> QED BY <1>1 DEF ReadOf, LiveOf, Live

\* No document gets a second live row.
LEMMA OneRowStep ==
  ASSUME Calm, Uncrossed', [Next]_vars, NEW s \in 1..MaxStores, NEW i \in Ids
  PROVE  \A d, e \in LiveOf(rows'[s], i) : d = e
<1>0. TypeOK /\ ShapeInv /\ SessionInv /\ stores \in 0..MaxStores /\ MaxStores \in Nat
  BY CalmParts, ConstantsOK DEF ConstantsOK, TypeOK
<1>1. CASE LiveOf(rows'[s], i) \subseteq LiveOf(rows[s], i)
  <2>1. \A d, e \in LiveOf(rows[s], i) : d = e
    BY CalmParts DEF RowInv
  <2> QED BY <1>1, <2>1
<1>2. CASE rows'[s] = rows[s]
  BY <1>1, <1>2
<1>3. CASE s = stores /\ Untouched(i)
  <2>1. LiveOf(rows'[s], i) = LiveOf(rows[s], i)
    BY <1>3, UntouchedAlive DEF Alive, Untouched
  <2> QED BY <1>1, <2>1
<1>4. ASSUME NEW o \in Ops, Put(o) \/ Patch(o) \/ Bury(o) PROVE \A d, e \in LiveOf(rows'[s], i) : d = e
  <2>1. PICK j, d : j = ops[o].id /\ d = ops[o].env
    OBVIOUS
  <2>2. Running(o)
    BY <1>4 DEF Put, Patch, Bury, Running
  <2>3. (\E e : WriteEffect(o, j, e)) \/ BuryEffect(o, j, d)
    <3>1. Patch(o) \/ Bury(o) => d \in Envelopes
      BY <2>1, <1>0, PatchWrites, BuryWrites
    <3> QED BY <1>4, <2>1, <2>2, <3>1, PutEffect, PatchEffect, BuryDoes, RunsHere
  <2>4. CASE s # stores
    BY <1>2, <2>3, <2>4 DEF WriteEffect, BuryEffect
  <2>5. CASE s = stores /\ i # j
    BY <1>3, <2>3, <2>5 DEF WriteEffect, BuryEffect
  <2>6. CASE s = stores /\ i = j
    <3>1. stores' = stores
      BY <2>3 DEF WriteEffect, BuryEffect, MoveEffect
    <3>2. LiveOf(rows'[s], i) = Alive(i)'
      BY <2>6, <3>1 DEF Alive
    <3>3. Alive(i)' = {} \/ \E e : Alive(i)' = {e}
      BY <2>3, <2>6 DEF WriteEffect, BuryEffect
    <3> QED BY <3>2, <3>3
  <2> QED BY <2>4, <2>5, <2>6
<1>5. ASSUME NEW p \in Pulls, Pull(p) PROVE \A d, e \in LiveOf(rows'[s], i) : d = e
  <2>1. PICK e \in Envelopes, j \in Ids, doc \in Docs, dead \in BOOLEAN, c \in Change : PullEffect(p, e, j, doc, dead, c)
    BY <1>5, PullDoes
  <2>2. CASE s # stores
    BY <1>2, <2>1, <2>2 DEF PullEffect
  <2>3. CASE s = stores /\ i # j
    BY <1>3, <2>1, <2>3 DEF PullEffect
  <2>4. CASE s = stores /\ i = j
    <3>1. LiveOf(rows'[s], i) = Alive(i)'
      BY <2>1, <2>4 DEF Alive, PullEffect
    <3>2. Alive(i)' = {} \/ \E x : Alive(i)' = {x}
      BY <2>1, <2>4 DEF PullEffect, PullNew, PullLive, PullDead
    <3> QED BY <3>1, <3>2
  <2> QED BY <2>2, <2>3, <2>4
<1>6. CASE Attach
  <2>1. CASE s # stores + 1
    BY <1>0, <1>2, <1>6, <2>1 DEF Attach, TypeOK
  <2>2. CASE s = stores + 1
    <3>1. rows[s] = NoRows /\ stores + 1 \in 1..MaxStores
      BY <1>0, <1>6, <2>2 DEF SessionInv, Attach
    <3>2. CASE swap /\ rows' = [rows EXCEPT ![stores + 1] = [x \in Envelopes |-> IF x \in Live(rows[stores]) THEN rows[stores][x] ELSE None]]
      <4>1. \A x \in Envelopes : rows'[s][x] # None => x \in Live(rows[stores]) /\ rows'[s][x] = rows[stores][x]
        BY <1>0, <2>2, <3>1, <3>2 DEF TypeOK
      <4>2. LiveOf(rows'[s], i) \subseteq LiveOf(rows[stores], i)
        BY <4>1 DEF LiveOf, Live
      <4>3. stores \in 1..MaxStores
        BY <1>0, <3>2 DEF ShapeInv
      <4>4. \A d, e \in LiveOf(rows[stores], i) : d = e
        BY <4>3, CalmParts DEF RowInv
      <4> QED BY <4>2, <4>4
    <3>3. CASE rows' = rows
      BY <1>2, <3>3
    <3>4. ASSUME NEW p \in Pulls, NEW j \in Ids,
                 rows' = [rows EXCEPT ![stores + 1][p] = [doc |-> [id |-> j, ts |-> 0, src |-> p], dead |-> FALSE]]
          PROVE \A d, e \in LiveOf(rows'[s], i) : d = e
      <4>1. \A x \in Envelopes : x # p => rows'[s][x] = None
        BY <1>0, <2>2, <3>1, <3>4 DEF TypeOK, NoRows, Listing
      <4> QED BY <4>1 DEF LiveOf, Live
    <3> QED BY <1>6, <3>2, <3>3, <3>4 DEF Attach
  <2> QED BY <2>1, <2>2
<1>7. CASE rows' = rows
  BY <1>2, <1>7
<1>8. CASE Flush \/ Rehydrate \/ Hydrated \/ CloseAndClear \/ EndSwap \/ UNCHANGED vars
  BY <1>7, <1>8 DEF Flush, Rehydrate, Hydrated, CloseAndClear, EndSwap, vars, held
<1>9. ASSUME NEW swaps \in BOOLEAN, Detach(swaps) PROVE rows' = rows
  BY <1>9 DEF Detach, held
<1>10. ASSUME NEW c \in events, Deliver(c) \/ Undecodable(c) PROVE rows' = rows
  BY <1>10 DEF Deliver, Undecodable, held
<1>11. ASSUME NEW o \in Ops, Start(o) \/ ListForIndex(o) \/ SetIndex(o) \/ Look(o) \/ MapEnvelope(o) \/ Finish(o) \/ Rejects(o)
       PROVE rows' = rows
  BY <1>11 DEF Start, ListForIndex, SetIndex, Look, MapEnvelope, Finish, Rejects, held
<1>12. ASSUME NEW o \in Ops, NEW kind \in Kinds, NEW j \in Ids, Issue(o, kind, j) PROVE rows' = rows
  BY <1>12 DEF Issue, held
<1> QED BY <1>4, <1>5, <1>6, <1>7, <1>8, <1>9, <1>10, <1>11, <1>12 DEF Next, Persist

\* The listing under way, if any, is the last one or reads the replica in use as it stands.
LEMMA ListingFrom ==
  ASSUME Calm, [Next]_vars
  PROVE  listing' # None => \/ listing' = listing
                            \/ listing'.seen = rows'[stores'] /\ listing = None
<1>0. SessionInv /\ InUse => stores \in 1..MaxStores
  BY CalmParts, InUseHasReplica DEF Calm
<1>1. ASSUME NEW o \in Ops, Persist(o) PROVE listing' = listing
  <2>1. Start(o) \/ ListForIndex(o) \/ SetIndex(o) \/ Look(o) \/ Put(o) => listing' = listing
    BY DEF Start, ListForIndex, SetIndex, Look, Put
  <2>2. MapEnvelope(o) \/ Patch(o) \/ Bury(o) \/ Finish(o) \/ Rejects(o) => listing' = listing
    BY DEF MapEnvelope, Patch, Bury, Finish, Rejects
  <2> QED BY <1>1, <2>1, <2>2 DEF Persist
<1>2. ASSUME NEW o \in Ops, NEW kind \in Kinds, NEW i \in Ids, Issue(o, kind, i) PROVE listing' = listing
  BY <1>2 DEF Issue
<1>3. ASSUME NEW p \in Pulls, Pull(p) PROVE listing' = listing
  BY <1>3 DEF Pull
<1>4. ASSUME NEW c \in events, Deliver(c) \/ Undecodable(c) PROVE listing' = listing
  BY <1>4 DEF Deliver, Undecodable
<1>5. CASE Flush \/ Hydrated \/ CloseAndClear \/ EndSwap \/ UNCHANGED vars
  BY <1>5 DEF Flush, Hydrated, CloseAndClear, EndSwap, vars
<1>6. CASE Attach
  BY <1>6 DEF Attach
<1>7. ASSUME NEW swaps \in BOOLEAN, Detach(swaps) PROVE listing' = listing
  BY <1>7 DEF Detach
<1>8. CASE Rehydrate
  <2>1. attached = stores
    BY <1>8, CalmParts DEF Rehydrate, SessionInv
  <2> QED BY <1>8, <2>1 DEF Rehydrate, held, lives
<1> QED BY <1>1, <1>2, <1>3, <1>4, <1>5, <1>6, <1>7, <1>8 DEF Next

\* The replica in use changes where none is.
LEMMA StoresStay ==
  ASSUME Calm, [Next]_vars
  PROVE  stores' = stores \/ (Attach /\ ~InUse /\ listing = None /\ \A o \in Ops : ~Running(o))
<1>1. ASSUME NEW o \in Ops, Persist(o) PROVE stores' = stores
  <2>1. Start(o) \/ ListForIndex(o) \/ SetIndex(o) \/ Look(o) \/ Put(o) => stores' = stores
    BY DEF Start, ListForIndex, SetIndex, Look, Put, lives
  <2>2. MapEnvelope(o) \/ Patch(o) \/ Bury(o) \/ Finish(o) \/ Rejects(o) => stores' = stores
    BY DEF MapEnvelope, Patch, Bury, Finish, Rejects, lives
  <2> QED BY <1>1, <2>1, <2>2 DEF Persist
<1>2. ASSUME NEW o \in Ops, NEW kind \in Kinds, NEW i \in Ids, Issue(o, kind, i) PROVE stores' = stores
  BY <1>2 DEF Issue, lives
<1>3. ASSUME NEW p \in Pulls, Pull(p) PROVE stores' = stores
  BY <1>3 DEF Pull, lives
<1>4. ASSUME NEW c \in events, Deliver(c) \/ Undecodable(c) PROVE stores' = stores
  BY <1>4 DEF Deliver, Undecodable, lives
<1>5. CASE Flush \/ Rehydrate \/ Hydrated \/ CloseAndClear \/ EndSwap \/ UNCHANGED vars
  BY <1>5 DEF Flush, Rehydrate, Hydrated, CloseAndClear, EndSwap, vars, lives
<1>6. CASE Attach
  <2>1. ~InUse /\ listing = None
    BY <1>6 DEF Attach, InUse
  <2>2. \A o \in Ops : ~Running(o)
    BY <2>1, RunsHere
  <2> QED BY <1>6, <2>1, <2>2
<1>7. ASSUME NEW swaps \in BOOLEAN, Detach(swaps) PROVE stores' = stores
  BY <1>7 DEF Detach
<1> QED BY <1>1, <1>2, <1>3, <1>4, <1>5, <1>6, <1>7 DEF Next

\* Every step that crosses nothing keeps RowInv.
LEMMA RowStep ==
  ASSUME Calm, BaseInv', Uncrossed', [Next]_vars
  PROVE  RowInv'
<1>0. TypeOK /\ ShapeInv /\ SessionInv /\ stores \in 0..MaxStores /\ MaxStores \in Nat /\ pulled \subseteq pulled' /\ Ops \cap Pulls = {}
  BY CalmParts, PulledGrows, ConstantsOK DEF ConstantsOK, TypeOK
<1>1. ASSUME NEW s \in 1..MaxStores, NEW e \in Envelopes, rows'[s][e] # None
      PROVE /\ e \in Ops => ops'[e].st \in {"map", "done", "acked"} /\ ops'[e].kind # "remove" /\ ops'[e].id = rows'[s][e].doc.id
            /\ e \in Pulls => e \in pulled'
  <2>1. RowFrom(s, e)
    BY <1>1, RowsCome
  <2>2. CASE s \in 1..stores /\ rows[s][e] # None
    <3>1. rows'[s][e].doc.id = rows[s][e].doc.id
      BY <2>2, RowsAdvance DEF RowsGo
    <3>2. /\ e \in Ops => ops[e].st \in {"map", "done", "acked"} /\ Writes(e) /\ ops[e].id = rows[s][e].doc.id
          /\ e \in Pulls => e \in pulled
      BY <2>2, CalmParts DEF RowInv
    <3>3. e \in Ops => CallGoes(e)
      BY CallsGo
    <3> QED BY <1>0, <3>1, <3>2, <3>3 DEF CallGoes, Writes
  <2>3. CASE s = stores' /\ stores' = stores + 1 /\ s > stores /\ stores # 0 /\ e \in Live(rows[stores]) /\ rows'[s][e] = rows[stores][e]
    <3>1. stores \in 1..MaxStores /\ rows[stores][e] # None
      BY <1>0, <2>3 DEF Live
    <3>2. /\ e \in Ops => ops[e].st \in {"map", "done", "acked"} /\ Writes(e) /\ ops[e].id = rows[stores][e].doc.id
          /\ e \in Pulls => e \in pulled
      BY <3>1, CalmParts DEF RowInv
    <3>3. e \in Ops => CallGoes(e)
      BY CallsGo
    <3> QED BY <1>0, <2>3, <3>2, <3>3 DEF CallGoes, Writes
  <2> QED BY <1>0, <2>1, <2>2, <2>3 DEF RowFrom
<1>2. \A s \in 1..MaxStores, i \in Ids : \A d, e \in LiveOf(rows'[s], i) : d = e
  BY OneRowStep
<1>3. ASSUME NEW seen, seen = rows'[stores'], stores' \in 1..MaxStores PROVE ReadOf(seen)'
  <2>1. \A i \in Ids : \A d, e \in LiveOf(seen, i) : d = e
    BY <1>2, <1>3
  <2> QED BY <1>3, <2>1 DEF ReadOf, LiveOf, Live
<1>4. ASSUME NEW o \in Ops, ops'[o].seen # None PROVE ReadOf(ops[o].seen)'
  <2>1. PICK z : z = ops'[o].seen
    OBVIOUS
  <2>2. CallGoes(o)
    BY CallsGo
  <2>3. CASE ops'[o].seen = ops[o].seen
    <3>1. ReadOf(z) /\ z = ops[o].seen
      BY <1>4, <2>1, <2>3, CalmParts DEF RowInv
    <3>2. Running(o)
      BY <1>0, <1>4, <2>3 DEF ShapeInv, CallShape, Running
    <3>3. stores' = stores /\ stores \in 1..MaxStores
      BY <3>2, StoresStay, RunsHere
    <3>4. ReadOf(z)'
      BY <3>1, <3>3, ReadStays
    <3> QED BY <2>1, <3>4 DEF ReadOf, LiveOf, Live
  <2>4. CASE Running(o) /\ ops'[o].seen = rows[stores] /\ UNCHANGED <<rows, stores>>
    <3>1. stores' \in 1..MaxStores /\ z = rows'[stores']
      BY <2>1, <2>4, RunsHere
    <3>2. ReadOf(z)'
      BY <3>1, <1>3
    <3> QED BY <2>1, <3>2 DEF ReadOf, LiveOf, Live
  <2> QED BY <1>4, <2>2, <2>3, <2>4 DEF CallGoes
<1>5. ASSUME listing' # None PROVE ReadOf(listing.seen)'
  <2>1. PICK z : z = listing'.seen
    OBVIOUS
  <2>0. stores' \in 1..MaxStores
    BY <1>5, ConstantsOK DEF BaseInv, SessionInv, TypeOK, ConstantsOK
  <2>2. CASE listing' = listing
    <3>1. ReadOf(z)
      BY <1>5, <2>1, <2>2, CalmParts DEF RowInv
    <3>2. stores' = stores
      BY <1>5, <2>2, StoresStay
    <3>3. ReadOf(z)'
      BY <2>0, <3>1, <3>2, ReadStays
    <3> QED BY <2>1, <3>3 DEF ReadOf, LiveOf, Live
  <2>3. CASE listing'.seen = rows'[stores']
    <3>1. ReadOf(z)'
      BY <2>0, <2>1, <2>3, <1>3
    <3> QED BY <2>1, <3>1 DEF ReadOf, LiveOf, Live
  <2> QED BY <1>5, <2>2, <2>3, ListingFrom
<1> QED BY <1>1, <1>2, <1>4, <1>5 DEF RowInv, Writes

\* A listing that became the index of a replica, and an index with one place rewritten.
LEMMA ListsAt ==
  ASSUME TypeOK, NEW s \in 1..MaxStores, NEW seen, index'[s] = ListIndex(s, seen)
  PROVE  index'[s] # None /\ \A i \in Ids : index'[s].of[i] = OneOf(LiveOf(seen, i))
<1>2. \A i \in Ids : OneOf(LiveOf(seen, i)) \in Optional(Envelopes)
  BY DEF OneOf, LiveOf, Live, Optional
<1>3. IndexOf(seen) \in [Ids -> Optional(Envelopes)] /\ \A i \in Ids : IndexOf(seen)[i] = OneOf(LiveOf(seen, i))
  BY <1>2 DEF IndexOf
<1>4. index[s] # None => index[s].at \in Nat
  BY IndexFields
<1>5. ListIndex(s, seen) \in Index /\ ListIndex(s, seen).of = IndexOf(seen)
  BY <1>3, <1>4 DEF ListIndex, Index
<1> QED BY <1>3, <1>5, NoneIsApart

\* An index entry written changes no other entry.
LEMMA WritesAt ==
  ASSUME TypeOK, NEW s \in 1..MaxStores, index[s] # None, NEW i \in Ids, NEW e \in Optional(Envelopes),
         NEW x, x = [index[s] EXCEPT !.of[i] = e]
  PROVE  x # None /\ x.of[i] = e /\ \A j \in Ids : j # i => x.of[j] = index[s].of[j]
<1>1. PICK r \in Index : r = index[s]
  BY IndexFields
<1>2. x = [r EXCEPT !.of[i] = e]
  BY <1>1
<1>3. x \in Index /\ x.of[i] = e /\ \A j \in Ids : j # i => x.of[j] = r.of[j]
  BY <1>1, <1>2 DEF Index
<1> QED BY <1>1, <1>3, NoneIsApart

\* Every step of a persist touches its own document and no other.
LEMMA StepOf ==
  ASSUME Calm, Uncrossed', NEW o \in Ops, Persist(o), NEW i, i = ops[o].id
  PROVE  OpStep(o, i)
<1>0. TypeOK /\ ShapeInv
  BY CalmParts
<1>1. Busy(o) /\ i \in Ids
  <2>1. Start(o) \/ ListForIndex(o) \/ Look(o) \/ Put(o) => Busy(o)
    BY DEF Start, Turn, ListForIndex, NeedsIndex, Look, Ready, Put, Busy
  <2>2. SetIndex(o) => Busy(o)
    BY <1>0 DEF SetIndex, Busy, ShapeInv, CallShape
  <2>3. MapEnvelope(o) \/ Patch(o) \/ Bury(o) \/ Finish(o) \/ Rejects(o) => Busy(o)
    BY DEF MapEnvelope, Ready, Patch, Bury, Finish, Rejects, Turn, NeedsIndex, Busy
  <2>4. Busy(o)
    BY <2>1, <2>2, <2>3 DEF Persist
  <2> QED BY <1>0, <2>4, BusyCall
<1>2. CASE Start(o) \/ ListForIndex(o) \/ SetIndex(o) \/ MapEnvelope(o)
  <2>1. MoveEffect(o) /\ UNCHANGED rows
    BY <1>0, <1>2, MoveDoes
  <2> QED BY <1>1, <2>1, MoveIsStep
<1>3. CASE Look(o)
  <2>1. PICK s, e : LookEffect(o, s, i, e)
    BY <1>0, <1>3, LookDoes
  <2> QED BY <1>1, <2>1, MoveIsStep DEF LookEffect
<1>4. CASE Put(o) \/ Patch(o) \/ Bury(o)
  <2>1. PICK d : d = ops[o].env
    OBVIOUS
  <2>2. Running(o)
    BY <1>4 DEF Put, Patch, Bury, Running
  <2>3. (\E e : WriteEffect(o, i, e)) \/ BuryEffect(o, i, d)
    <3>1. Patch(o) \/ Bury(o) => d \in Envelopes
      BY <2>1, <1>0, PatchWrites, BuryWrites
    <3> QED BY <1>1, <1>4, <2>1, <2>2, <3>1, PutEffect, PatchEffect, BuryDoes
  <2> QED BY <1>1, <2>2, <2>3, MoveIsStep DEF WriteEffect, BuryEffect
<1>5. CASE Finish(o)
  <2>1. FinishEffect(o, i)
    BY <1>0, <1>1, <1>5, FinishDoes
  <2>2. PICK latest, confirmed, shown : SettleEffect(o, i, "acked", latest, confirmed, shown)
    BY <2>1 DEF FinishEffect
  <2> QED BY <1>1, <2>2, SettleIsStep
<1>6. CASE Rejects(o)
  <2>1. RejectEffect(o, i)
    BY <1>0, <1>1, <1>6, RejectsDoes
  <2>2. PICK latest, confirmed, shown : SettleEffect(o, i, "rejected", latest, confirmed, shown)
    BY <2>1 DEF RejectEffect
  <2> QED BY <1>1, <2>2, SettleIsStep
<1> QED BY <1>2, <1>3, <1>4, <1>5, <1>6 DEF Persist

\* A call makes its listing the index of the replica.
SetEffect(o, seen) ==
  /\ ops[o].seen # None /\ seen = ops[o].seen /\ Running(o) /\ ops[o].store = stores
  /\ MoveEffect(o) /\ UNCHANGED rows
  /\ ops'[o].st = ops[o].st /\ ops'[o].store = ops[o].store /\ ops'[o].env = ops[o].env /\ ops'[o].seen = None
  /\ index'[stores] # None /\ \A i \in Ids : index'[stores].of[i] = OneOf(LiveOf(seen, i))
  /\ \A s \in 1..MaxStores : s # stores => index'[s] = index[s]
  /\ index[stores] # None => \A e \in Live(rows[stores]) : seen[e] = None => index[stores].of[rows[stores][e].doc.id] # e
  /\ \A e \in Live(seen) : ~rows[stores][e].dead

\* What replacing the index by a listing does, where the listing crossed no change.
LEMMA SetDoes ==
  ASSUME Calm, Uncrossed', NEW o \in Ops, SetIndex(o), NEW seen, seen = ops[o].seen
  PROVE  SetEffect(o, seen)
<1>0. TypeOK /\ ShapeInv
  BY CalmParts
<1>1. ops[o].seen # None /\ Running(o)
  BY <1>0 DEF SetIndex, Running, ShapeInv, CallShape
<1>2. ops[o].store = stores /\ stores \in 1..MaxStores
  BY <1>1, RunsHere
<1>3. /\ index'[stores] # None /\ \A i \in Ids : index'[stores].of[i] = OneOf(LiveOf(seen, i))
      /\ \A t \in 1..MaxStores : t # stores => index'[t] = index[t]
  <2>1. PICK s \in 1..MaxStores : s = stores
    BY <1>2
  <2>2. index'[s] = ListIndex(s, seen) /\ \A t \in 1..MaxStores : t # s => index'[t] = index[t]
    BY <1>0, <1>2, <2>1 DEF SetIndex, TypeOK
  <2>3. index'[s] # None /\ \A i \in Ids : index'[s].of[i] = OneOf(LiveOf(seen, i))
    BY <1>0, <2>1, <2>2, ListsAt
  <2> QED BY <2>1, <2>2, <2>3
<1>4. ~Outdated(stores, seen)
  BY <1>2 DEF SetIndex, Crossed, Uncrossed
<1>5. /\ MoveEffect(o) /\ UNCHANGED rows
      /\ ops'[o].st = ops[o].st /\ ops'[o].store = ops[o].store /\ ops'[o].env = ops[o].env /\ ops'[o].seen = None
  BY <1>0, MoveDoes
<1> QED BY <1>1, <1>2, <1>3, <1>4, <1>5 DEF SetEffect, Outdated

\* A call maps the document it put.
MapEffect(o, i) ==
  /\ ops[o].st = "map" /\ Running(o) /\ ops[o].store = stores /\ i = ops[o].id /\ i \in Ids /\ Writes(o) /\ ops[o].env = o
  /\ ops[o].seen = None /\ index[stores] # None
  /\ MoveEffect(o) /\ UNCHANGED rows
  /\ ops'[o].st = "done" /\ ops'[o].store = ops[o].store /\ ops'[o].env = ops[o].env /\ ops'[o].seen = None
  /\ index'[stores] # None /\ index'[stores].of[i] = o /\ \A j \in Ids : j # i => index'[stores].of[j] = index[stores].of[j]
  /\ \A s \in 1..MaxStores : s # stores => index'[s] = index[s]
  /\ listing # None => listing.seen[o] # None

\* What mapping a new envelope does to the index.
LEMMA MapDoes ==
  ASSUME Calm, Uncrossed', NEW o \in Ops, MapEnvelope(o), NEW i, i = ops[o].id
  PROVE  MapEffect(o, i)
<1>0. TypeOK /\ ShapeInv /\ SessionInv
  BY CalmParts
<1>1. ops[o].st = "map" /\ Running(o) /\ Writes(o) /\ ops[o].env = o /\ ops[o].seen = None /\ index[ops[o].store] # None
  BY <1>0 DEF MapEnvelope, Ready, Running, ShapeInv, CallShape
<1>2. ops[o].store = stores /\ stores \in 1..MaxStores /\ i \in Ids
  BY <1>1, RunsHere
<1>3. /\ index'[stores] # None /\ index'[stores].of[i] = o /\ \A j \in Ids : j # i => index'[stores].of[j] = index[stores].of[j]
      /\ \A s \in 1..MaxStores : s # stores => index'[s] = index[s]
  <2>1. index' = [index EXCEPT ![stores] = [index[stores] EXCEPT !.of[i] = o]]
    BY <1>1, <1>2 DEF MapEnvelope
  <2>2. o \in Optional(Envelopes)
    BY DEF Optional, Envelopes
  <2>3. PICK s \in 1..MaxStores : s = stores
    BY <1>2
  <2>4. PICK v : v = o
    OBVIOUS
  <2>5. PICK x : x = [index[s] EXCEPT !.of[i] = v]
    OBVIOUS
  <2>6. index'[s] = x /\ \A t \in 1..MaxStores : t # s => index'[t] = index[t]
    BY <1>0, <2>1, <2>3, <2>4, <2>5 DEF TypeOK
  <2>7. x # None /\ x.of[i] = v /\ \A j \in Ids : j # i => x.of[j] = index[s].of[j]
    <3>1. index[s] # None /\ v \in Optional(Envelopes) /\ i \in Ids
      BY <1>1, <1>2, <2>2, <2>3, <2>4
    <3>2. PICK r \in Index : r = index[s]
      BY <1>0, <2>3, <3>1, IndexFields
    <3>3. x = [r EXCEPT !.of[i] = v]
      BY <2>5, <3>2
    <3>4. x \in Index /\ x.of[i] = v /\ \A j \in Ids : j # i => x.of[j] = r.of[j]
      BY <3>1, <3>2, <3>3 DEF Index
    <3> QED BY <3>2, <3>4, NoneIsApart
  <2> QED BY <2>3, <2>4, <2>6, <2>7
<1>4. listing # None => listing.seen[o] # None
  BY <1>0, <1>1, <1>2 DEF MapEnvelope, Crossed, Uncrossed, SessionInv
<1>5. /\ MoveEffect(o) /\ UNCHANGED rows
      /\ ops'[o].st = "done" /\ ops'[o].store = ops[o].store /\ ops'[o].env = ops[o].env /\ ops'[o].seen = None
  BY <1>0, MoveDoes
<1> QED BY <1>1, <1>2, <1>3, <1>4, <1>5 DEF MapEffect

\* A call looks its document up in the index of the replica in use.
LookHere(o, i, e) ==
  /\ LookEffect(o, stores, i, e) /\ Running(o) /\ ops[o].store = stores /\ i = ops[o].id /\ i \in Ids
  /\ index[stores] # None /\ index'[stores] # None /\ e = index[stores].of[i]
  /\ \A s \in 1..MaxStores : s # stores => index'[s] = index[s]
  /\ \A j \in Ids : j # i => index'[stores].of[j] = index[stores].of[j]
  /\ \/ /\ e \in Alive(i) /\ index' = index /\ ops'[o].env = e /\ ops'[o].st = (IF Writes(o) THEN "patch" ELSE "bury")
     \/ /\ e \notin Alive(i) /\ index'[stores].of[i] = None /\ ops'[o].env = None
        /\ ops'[o].st = (IF Writes(o) THEN "put" ELSE "done")

\* What looking up in the replica in use finds and forgets.
LEMMA LooksHere ==
  ASSUME Calm, NEW o \in Ops, Look(o), NEW i, i = ops[o].id, NEW e, e = index[stores].of[i]
  PROVE  LookHere(o, i, e)
<1>0. TypeOK /\ ShapeInv
  BY CalmParts
<1>1. Running(o)
  BY DEF Look, Ready, Running
<1>2. ops[o].store = stores /\ stores \in 1..MaxStores /\ i \in Ids /\ InUse
  BY <1>1, RunsHere
<1>3. LookEffect(o, stores, i, e)
  <2>1. PICK s, d : s = ops[o].store /\ d = index[ops[o].store].of[ops[o].id]
    OBVIOUS
  <2>2. LookEffect(o, s, i, d)
    BY <1>0, <2>1, LookDoes
  <2> QED BY <1>2, <2>1, <2>2
<1>4. index[stores] # None /\ None \in Optional(Envelopes) /\ e \in Optional(Envelopes)
  BY <1>0, <1>2, <1>3, IndexFields DEF LookEffect, Optional
<1>5. e # None => rows[stores][e] # None /\ rows[stores][e].doc.id = i
  BY <1>2, <1>4, CalmParts DEF IndexInv
<1>6. CASE e # None /\ rows[stores][e] # None /\ ~rows[stores][e].dead
  <2>1. e \in Alive(i)
    BY <1>4, <1>5, <1>6, AliveIs DEF Optional
  <2>2. index' = index /\ ops'[o].env = e /\ ops'[o].st = (IF Writes(o) THEN "patch" ELSE "bury")
    BY <1>3, <1>6 DEF LookEffect
  <2> QED BY <1>1, <1>2, <1>3, <1>4, <2>1, <2>2 DEF LookHere
<1>7. CASE ~(e # None /\ rows[stores][e] # None /\ ~rows[stores][e].dead)
  <2>1. e \notin Alive(i)
    BY <1>7, AliveIs, NoneIsApart
  <2>2. /\ index' = [index EXCEPT ![stores] = [index[stores] EXCEPT !.of[i] = None]] /\ ops'[o].env = None
        /\ ops'[o].st = (IF Writes(o) THEN "put" ELSE "done")
    BY <1>3, <1>7 DEF LookEffect
  <2>3. /\ index'[stores] # None /\ index'[stores].of[i] = None /\ \A j \in Ids : j # i => index'[stores].of[j] = index[stores].of[j]
        /\ \A t \in 1..MaxStores : t # stores => index'[t] = index[t]
    <3>1. PICK s \in 1..MaxStores : s = stores
      BY <1>2
    <3>2. PICK x : x = [index[s] EXCEPT !.of[i] = None]
      OBVIOUS
    <3>3. index'[s] = x /\ \A t \in 1..MaxStores : t # s => index'[t] = index[t]
      BY <1>0, <2>2, <3>1, <3>2 DEF TypeOK
    <3>4. x # None /\ x.of[i] = None /\ \A j \in Ids : j # i => x.of[j] = index[s].of[j]
      BY <1>0, <1>2, <1>4, <3>1, <3>2, WritesAt
    <3> QED BY <3>1, <3>3, <3>4
  <2> QED BY <1>1, <1>2, <1>3, <1>4, <2>1, <2>2, <2>3 DEF LookHere
<1> QED BY <1>6, <1>7

\* Appending adds one element to the range.
LEMMA RangeAppend ==
  ASSUME NEW S, NEW q \in Seq(S), NEW c \in S
  PROVE  Range(Append(q, c)) = Range(q) \cup {c}
<1>1. DOMAIN Append(q, c) = 1..(Len(q) + 1) /\ DOMAIN q = 1..Len(q) /\ Len(q) \in Nat
      /\ Append(q, c)[Len(q) + 1] = c /\ \A k \in 1..Len(q) : Append(q, c)[k] = q[k]
  OBVIOUS
<1>2. \A k \in 1..(Len(q) + 1) : k \in 1..Len(q) \/ k = Len(q) + 1
  BY <1>1
<1>3. 1..Len(q) \subseteq 1..(Len(q) + 1) /\ Len(q) + 1 \in 1..(Len(q) + 1)
  BY <1>1
<1>4. ASSUME NEW x PROVE x \in Range(Append(q, c)) <=> x \in Range(q) \cup {c}
  BY <1>1, <1>2, <1>3 DEF Range
<1> QED BY <1>4

\* An event is dropped, found stale, or applied to the index and buffered.
DeliverEffect(c, i) ==
  /\ c \in events /\ events' = events \ {c} /\ i = c.doc.id /\ i \in Ids /\ c \in Change
  /\ UNCHANGED <<byId, inFlight, ops, rows, attached, stores, closing, swap, listing, timer, pulled, clock>>
  /\ \A j \in Ids : Out(j)' \subseteq Out(j) /\ Out(j)' \cap events' \subseteq Out(j) \cap events
  /\ \A j \in Ids : j # i => Out(j)' = Out(j) /\ Out(j)' \cap events' = Out(j) \cap events
  /\ \/ /\ c.store # attached /\ UNCHANGED <<index, pending>>
        /\ attached # 0 => \A j \in Ids : Out(j)' = Out(j) /\ Out(j)' \cap events' = Out(j) \cap events
     \/ /\ c.store = attached /\ attached = stores /\ stores \in 1..MaxStores /\ InUse /\ listing = None
        /\ StaleTombstone(c) /\ UNCHANGED <<index, pending>>
     \/ /\ c.store = attached /\ attached = stores /\ stores \in 1..MaxStores /\ InUse /\ listing = None
        /\ ~StaleTombstone(c) /\ index[stores] # None /\ index'[stores] # None
        /\ index'[stores].of[i] = (IF c.dead THEN None ELSE c.env)
        /\ \A j \in Ids : j # i => index'[stores].of[j] = index[stores].of[j]
        /\ \A s \in 1..MaxStores : s # stores => index'[s] = index[s]
        /\ pending' = Append(pending, c) /\ Out(i)' = Out(i) /\ c \in Out(i)

\* What delivering an event does to the index, the burst and the document.
LEMMA DeliverDoes ==
  ASSUME Calm, Uncrossed', NEW c \in events, Deliver(c), NEW i, i = c.doc.id
  PROVE  DeliverEffect(c, i)
<1>0. TypeOK /\ ShapeInv /\ SessionInv /\ pending \in Seq(Change)
  BY CalmParts DEF TypeOK
<1>1. c \in Change /\ i \in Ids /\ c.env \in Envelopes
  BY <1>0, Events
<1>2. events' = events \ {c} /\ UNCHANGED <<byId, inFlight, ops, rows, attached, stores, closing, swap, listing, timer, pulled, clock>>
  BY DEF Deliver, lives
<1>3. /\ \A j : Out(j) = {x \in events \cup Range(pending) : x.doc.id = j /\ x.store = stores}
      /\ \A j \in Ids : Out(j)' = {x \in events' \cup Range(pending') : x.doc.id = j /\ x.store = stores}
  BY <1>2 DEF Out, Outstanding
<1>4. Range(Append(pending, c)) = Range(pending) \cup {c}
  BY <1>0, <1>1, RangeAppend
<1>5. pending' = pending \/ pending' = Append(pending, c)
  BY DEF Deliver
<1>6. \A j \in Ids : Out(j)' \subseteq Out(j) /\ Out(j)' \cap events' \subseteq Out(j) \cap events
  BY <1>2, <1>3, <1>4, <1>5
<1>7. \A j \in Ids : j # i => Out(j)' = Out(j) /\ Out(j)' \cap events' = Out(j) \cap events
  BY <1>2, <1>3, <1>4, <1>5
<1>8. CASE c.store # attached
  <2>1. UNCHANGED <<index, pending>>
    BY <1>8 DEF Deliver
  <2>2. attached # 0 => \A j \in Ids : Out(j)' = Out(j) /\ Out(j)' \cap events' = Out(j) \cap events
    <3>1. attached # 0 => c.store # stores
      BY <1>0, <1>8 DEF SessionInv
    <3> QED BY <1>2, <1>3, <2>1, <3>1
  <2> QED BY <1>1, <1>2, <1>6, <1>7, <1>8, <2>1, <2>2 DEF DeliverEffect
<1>9. CASE c.store = attached
  <2>1. c.store \in 1..stores
    BY <1>0 DEF SessionInv
  <2>2. attached = stores /\ InUse /\ stores \in 1..MaxStores
    <3>1. c.store # 0
      BY <1>0, <2>1 DEF TypeOK
    <3>2. InUse
      BY <1>9, <3>1 DEF InUse
    <3> QED BY <1>0, <1>9, <3>1, <3>2, InUseHasReplica DEF SessionInv, Calm
  <2>3. listing = None
    BY <1>9 DEF Deliver, Crossed, Uncrossed
  <2>4. index[stores] # None
    BY <1>0, <2>2, <2>3 DEF SessionInv
  <2>5. CASE StaleTombstone(c)
    <3>1. UNCHANGED <<index, pending>>
      BY <1>9, <2>5 DEF Deliver
    <3> QED BY <1>1, <1>2, <1>6, <1>7, <1>9, <2>2, <2>3, <2>5, <3>1 DEF DeliverEffect
  <2>6. CASE ~StaleTombstone(c)
    <3>1. pending' = Append(pending, c)
      BY <1>9, <2>6 DEF Deliver
    <3>2. PICK v : v = IF c.dead THEN None ELSE c.env
      OBVIOUS
    <3>3. v \in Optional(Envelopes)
      BY <1>1, <3>2 DEF Optional
    <3>4. index' = [index EXCEPT ![stores] = [index[stores] EXCEPT !.of[i] = v]]
      BY <1>9, <2>2, <2>4, <2>6, <3>2 DEF Deliver
    <3>5. /\ index'[stores] # None /\ index'[stores].of[i] = v /\ \A j \in Ids : j # i => index'[stores].of[j] = index[stores].of[j]
          /\ \A s \in 1..MaxStores : s # stores => index'[s] = index[s]
      <4>1. PICK s \in 1..MaxStores : s = stores
        BY <2>2
      <4>2. PICK x : x = [index[s] EXCEPT !.of[i] = v]
        OBVIOUS
      <4>3. index'[s] = x /\ \A t \in 1..MaxStores : t # s => index'[t] = index[t]
        BY <1>0, <3>4, <4>1, <4>2 DEF TypeOK
      <4>4. x # None /\ x.of[i] = v /\ \A j \in Ids : j # i => x.of[j] = index[s].of[j]
        <5>1. index[s] # None
          BY <2>4, <4>1
        <5>2. PICK r \in Index : r = index[s]
          BY <1>0, <4>1, <5>1, IndexFields
        <5>3. x = [r EXCEPT !.of[i] = v]
          BY <4>2, <5>2
        <5>4. x \in Index /\ x.of[i] = v /\ \A j \in Ids : j # i => x.of[j] = r.of[j]
          BY <1>1, <3>3, <5>2, <5>3 DEF Index
        <5> QED BY <5>2, <5>4, NoneIsApart
      <4> QED BY <4>1, <4>3, <4>4
    <3>6. c \in Out(i)
      BY <1>3, <1>9, <2>2
    <3>7. Out(i)' = Out(i)
      <4>1. events' \cup Range(pending') = events \cup Range(pending)
        BY <1>2, <1>4, <3>1
      <4> QED BY <1>1, <1>3, <4>1
    <3> QED BY <1>1, <1>2, <1>6, <1>7, <1>9, <2>2, <2>3, <2>4, <2>6, <3>1, <3>2, <3>5, <3>6, <3>7 DEF DeliverEffect
  <2> QED BY <2>5, <2>6
<1> QED BY <1>8, <1>9

\* A listing ends: it becomes the index, and what is shown of every quiet document.
HydrateEffect(seen) ==
  /\ listing # None /\ seen = listing.seen /\ listing' = None /\ pending = <<>> /\ stores \in 1..MaxStores /\ InUse
  /\ index'[stores] # None /\ \A i \in Ids : index'[stores].of[i] = OneOf(LiveOf(seen, i))
  /\ \A s \in 1..MaxStores : s # stores => index'[s] = index[s]
  /\ \A i \in Ids : inFlight[i] = None => inFlight'[i] = None /\ byId'[i] = DocIn(seen, i)
  /\ \A i \in Ids : inFlight[i] # None =>
       /\ inFlight'[i] # None /\ byId'[i] = inFlight[i].latest
       /\ Queue(i)' = Queue(i) /\ inFlight'[i].latest = inFlight[i].latest
       /\ inFlight'[i].confirmed = inFlight[i].confirmed /\ inFlight'[i].moved = TRUE
  /\ \A o \in Ops : ops[o].st = "done" /\ ~Writes(o) => LiveOf(seen, ops[o].id) = {}
  /\ UNCHANGED <<pending, ops, rows, attached, stores, closing, swap, timer, events, pulled, clock>>

\* What a listing that crossed no change does to index and view when it ends.
LEMMA HydrateDoes ==
  ASSUME Calm, Uncrossed', Hydrated, NEW seen, seen = listing.seen
  PROVE  HydrateEffect(seen)
<1>0. TypeOK /\ ShapeInv /\ SessionInv
  BY CalmParts
<1>1. listing # None /\ listing' = None /\ listing.store = stores /\ pending = <<>> /\ InUse
      /\ UNCHANGED <<pending, ops, rows, attached, stores, closing, swap, timer, events, pulled, clock>>
  BY <1>0 DEF Hydrated, SessionInv, Flushed, Calm, lives, feed
<1>2. stores \in 1..MaxStores
  BY <1>1, InUseHasReplica DEF Calm
<1>3. /\ index'[stores] # None /\ \A i \in Ids : index'[stores].of[i] = OneOf(LiveOf(seen, i))
      /\ \A s \in 1..MaxStores : s # stores => index'[s] = index[s]
  <2>1. PICK s \in 1..MaxStores : s = stores
    BY <1>2
  <2>2. index'[s] = ListIndex(s, seen) /\ \A t \in 1..MaxStores : t # s => index'[t] = index[t]
    BY <1>0, <1>1, <2>1 DEF Hydrated, TypeOK
  <2>3. index'[s] # None /\ \A i \in Ids : index'[s].of[i] = OneOf(LiveOf(seen, i))
    BY <1>0, <2>1, <2>2, ListsAt
  <2> QED BY <2>1, <2>2, <2>3
<1>4. \A i \in Ids : byId'[i] = IF inFlight[i] # None THEN inFlight[i].latest ELSE DocIn(seen, i)
  BY DEF Hydrated
<1>5. \A i \in Ids : inFlight'[i] = Moved(inFlight[i])
  BY DEF Hydrated
<1>6. \A o \in Ops : ops[o].st = "done" /\ ~Writes(o) => LiveOf(seen, ops[o].id) = {}
  BY DEF Hydrated, Crossed, Uncrossed, Writes
<1>7. ASSUME NEW i \in Ids
      PROVE  /\ inFlight'[i] = None <=> inFlight[i] = None
             /\ inFlight[i] # None => /\ Queue(i)' = Queue(i) /\ inFlight'[i].latest = inFlight[i].latest
                                      /\ inFlight'[i].confirmed = inFlight[i].confirmed /\ inFlight'[i].moved = TRUE
  BY <1>0, <1>5, MovedDoes
<1> QED BY <1>1, <1>2, <1>3, <1>4, <1>6, <1>7 DEF HydrateEffect

\* A replica that has been listed keeps an index.
LEMMA IndexStays ==
  ASSUME Calm, Uncrossed', [Next]_vars, stores \in 1..MaxStores, index[stores] # None
  PROVE  index'[stores] # None
<1>1. ASSUME NEW o \in Ops, Persist(o) PROVE index'[stores] # None
  <2>1. Start(o) \/ ListForIndex(o) \/ Put(o) \/ Patch(o) \/ Finish(o) \/ Rejects(o) => index' = index
    BY DEF Start, ListForIndex, Put, Patch, Finish, Rejects, held
  <2>2. CASE SetIndex(o)
    BY <2>2, SetDoes DEF SetEffect
  <2>3. CASE Look(o)
    BY <2>3, LooksHere DEF LookHere
  <2>4. CASE MapEnvelope(o)
    BY <2>4, MapDoes DEF MapEffect
  <2>5. CASE Bury(o)
    <3>1. Running(o)
      BY <2>5 DEF Bury, Running
    <3>2. PICK i, e : i = ops[o].id /\ e = ops[o].env
      OBVIOUS
    <3>3. e \in Envelopes /\ i \in Ids
      BY <2>5, <3>1, <3>2, CalmParts, BuryWrites, RunsHere
    <3> QED BY <2>5, <3>2, <3>3, BuryDoes DEF BuryEffect
  <2> QED BY <1>1, <2>1, <2>2, <2>3, <2>4, <2>5 DEF Persist
<1>2. ASSUME NEW o \in Ops, NEW kind \in Kinds, NEW i \in Ids, Issue(o, kind, i) PROVE index' = index
  BY <1>2 DEF Issue, held
<1>3. ASSUME NEW p \in Pulls, Pull(p) PROVE index' = index
  BY <1>3 DEF Pull
<1>4. ASSUME NEW c \in events, Deliver(c) PROVE index'[stores] # None
  BY <1>4, DeliverDoes DEF DeliverEffect
<1>5. ASSUME NEW c \in events, Undecodable(c) PROVE index' = index
  BY <1>5 DEF Undecodable, held
<1>6. CASE Flush \/ Rehydrate \/ CloseAndClear \/ EndSwap \/ Attach \/ UNCHANGED vars
  BY <1>6 DEF Flush, Rehydrate, CloseAndClear, EndSwap, Attach, vars, held
<1>7. CASE Hydrated
  BY <1>7, HydrateDoes DEF HydrateEffect
<1>8. ASSUME NEW swaps \in BOOLEAN, Detach(swaps) PROVE index' = index
  BY <1>8 DEF Detach, held
<1> QED BY <1>1, <1>2, <1>3, <1>4, <1>5, <1>6, <1>7, <1>8 DEF Next

(***************************************************************************)
(* The calls                                                               *)
(***************************************************************************)
\* What a call must satisfy after a step, read part by part.
LEMMA CallIs ==
  ASSUME NEW o \in Ops, NEW i \in Ids, ops'[o].id = i, stores' = stores,
         ops'[o].st \in {"look", "put", "map", "patch", "bury", "done"} =>
           ops'[o].store = stores /\ InUse' /\ (attached' # 0 => ~swap'),
         ops'[o].st = "put" /\ ops'[o].kind # "insert" => Alive(i)' \cap Ops = {},
         ops'[o].st = "map" => o \in Alive(i)',
         ops'[o].st \in {"patch", "bury"} => ops'[o].env \in Alive(i)' /\ index'[stores] # None,
         ops'[o].st = "done" => /\ ops'[o].kind # "remove" => ops'[o].env \in Alive(i)'
                                /\ ops'[o].kind = "remove" /\ ops'[o].env # None => Alive(i)' = {},
         ops'[o].st \in {"map", "done"} /\ ops'[o].kind # "remove" => ~Wins(ops'[o].doc, rows'[stores][ops'[o].env].doc)
  PROVE  CallHolds(o)'
<1>1. Alive(ops[o].id)' = Alive(i)'
  BY DEF Alive
<1>2. Wins(ops[o].doc, rows[stores][ops[o].env].doc)' <=> Wins(ops'[o].doc, rows'[stores][ops'[o].env].doc)
  BY DEF Wins
<1> QED BY <1>1, <1>2 DEF CallHolds, Running, Writes

\* The invariant of a call after its own step.
LEMMA OwnCall ==
  ASSUME Calm, BaseInv', Uncrossed', NEW o \in Ops, Persist(o)
  PROVE  CallHolds(o)'
<1>0. TypeOK /\ ShapeInv /\ SessionInv /\ Ops \cap Pulls = {}
  BY CalmParts, ConstantsOK DEF ConstantsOK
<1>1. PICK i : i = ops[o].id
  OBVIOUS
<1>2. OpStep(o, i)
  BY <1>1, StepOf
<1>3. i \in Ids /\ stores' = stores /\ attached' = attached /\ swap' = swap /\ (InUse' <=> InUse)
  BY <1>2 DEF OpStep, InUse
<1>4. CASE Start(o)
  <2>1. MoveEffect(o) /\ ops'[o].st = (IF ops[o].kind = "insert" THEN "put" ELSE "look") /\ ops'[o].store = attached /\ ~swap /\ attached # 0
    BY <1>0, <1>4, MoveDoes
  <2>2. attached = stores /\ InUse
    BY <1>0, <2>1 DEF SessionInv, InUse
  <2>3. ops'[o].id = i /\ ops'[o].kind = ops[o].kind
    BY <1>1, <2>1 DEF MoveEffect
  <2> QED BY <1>3, <2>1, <2>2, <2>3, CallIs
<1>5. CASE ListForIndex(o) \/ SetIndex(o)
  <2>1. MoveEffect(o) /\ rows' = rows /\ ops'[o].st = ops[o].st /\ ops'[o].store = ops[o].store /\ ops'[o].env = ops[o].env
        /\ ops[o].st \in {"look", "map"}
    BY <1>0, <1>5, MoveDoes DEF ListForIndex, NeedsIndex, SetIndex, ShapeInv, CallShape
  <2>2. Alive(i)' = Alive(i)
    BY <1>3, <2>1 DEF Alive
  <2>3. Running(o)
    BY <2>1 DEF Running
  <2>4. CallHolds(o) /\ ops[o].store = stores /\ InUse /\ (attached # 0 => ~swap)
    BY <2>3, RunsHere, CalmParts DEF CallInv
  <2>5. ops'[o].id = i /\ ops'[o].kind = ops[o].kind /\ ops'[o].doc = ops[o].doc
    BY <1>1, <2>1 DEF MoveEffect
  <2>6. /\ ops[o].st = "map" => o \in Alive(i)
        /\ ops[o].st = "map" /\ ops[o].kind # "remove" => ~Wins(ops[o].doc, rows[stores][ops[o].env].doc)
    BY <1>1, <2>4 DEF CallHolds, Writes
  <2> QED BY <1>3, <2>1, <2>2, <2>4, <2>5, <2>6, CallIs
<1>6. CASE Look(o)
  <2>1. PICK e : e = index[stores].of[i]
    OBVIOUS
  <2>2. LookHere(o, i, e)
    BY <1>1, <1>6, <2>1, LooksHere
  <2>3. LookEffect(o, stores, i, e) /\ MoveEffect(o) /\ rows' = rows /\ ops'[o].store = stores /\ ops[o].st = "look"
    BY <2>2 DEF LookHere, LookEffect
  <2>4. Alive(i)' = Alive(i) /\ InUse /\ (attached # 0 => ~swap)
    BY <1>3, <2>2, <2>3, RunsHere DEF Alive, LookHere
  <2>5. ops'[o].id = i /\ ops'[o].kind = ops[o].kind /\ (Writes(o) <=> ops'[o].kind # "remove")
    BY <1>1, <2>3 DEF MoveEffect, Writes
  <2>6. CASE e \in Alive(i) /\ index' = index /\ ops'[o].env = e /\ ops'[o].st = (IF Writes(o) THEN "patch" ELSE "bury")
    <3>1. index'[stores] # None
      BY <2>2 DEF LookHere
    <3> QED BY <1>3, <2>3, <2>4, <2>5, <2>6, <3>1, CallIs
  <2>7. CASE e \notin Alive(i) /\ ops'[o].env = None /\ ops'[o].st = (IF Writes(o) THEN "put" ELSE "done")
    <3>1. ASSUME NEW d \in Alive(i), d \in Ops PROVE FALSE
      <4>1. d \in Live(rows[stores]) /\ rows[stores][d] # None /\ rows[stores][d].doc.id = i /\ d \in Envelopes
        BY AliveIs
      <4>2. Found(d) \/ Coming(d)
        BY <1>0, <2>2, <2>4, <3>1, <4>1, CalmParts DEF IndexInv, Unlisted, InListing, LookHere
      <4>3. ~Found(d)
        BY <2>1, <2>7, <4>1 DEF Found
      <4>4. Running(d) /\ ops[d].st = "map"
        BY <4>2, <4>3 DEF Coming, Running
      <4>5. ops[d].id = i
        BY <1>0, <2>2, <3>1, <4>1, CalmParts, RunsHere DEF RowInv, LookHere
      <4>6. d = o
        BY <1>0, <1>1, <2>2, <3>1, <4>4, <4>5, OneHead DEF LookHere
      <4> QED BY <2>3, <4>4, <4>6
    <3>2. Alive(i)' \cap Ops = {}
      BY <2>4, <3>1
    <3> QED BY <1>3, <2>3, <2>4, <2>5, <2>7, <3>2, CallIs
  <2> QED BY <2>2, <2>6, <2>7 DEF LookHere
<1>7. CASE Put(o) \/ Patch(o)
  <2>1. PICK d : d = ops[o].env
    OBVIOUS
  <2>2. Running(o)
    BY <1>7 DEF Put, Patch, Running
  <2>3. PICK e : WriteEffect(o, i, e) /\ (ops'[o].st = "map" => e = o)
    <3>1. Patch(o) => d \in Envelopes
      BY <2>1, <1>0, PatchWrites
    <3> QED BY <1>1, <1>3, <1>7, <2>1, <2>2, <3>1, PutEffect, PatchEffect
  <2>4. /\ ops'[o].id = i /\ ops'[o].kind = ops[o].kind /\ ops'[o].doc = ops[o].doc /\ ops'[o].store = stores
        /\ ops'[o].env = e /\ ops'[o].st \in {"map", "done"} /\ Alive(i)' = {e} /\ ops[o].doc \in Docs
        /\ rows'[stores][e].doc = ops[o].doc /\ ops'[o].kind # "remove"
    BY <1>1, <2>3 DEF WriteEffect, MoveEffect, Writes
  <2>5. InUse /\ (attached # 0 => ~swap)
    BY <2>2, RunsHere
  <2>6. ~Wins(ops'[o].doc, rows'[stores][e].doc)
    BY <2>4, WinsOrder
  <2> QED BY <1>3, <2>3, <2>4, <2>5, <2>6, CallIs
<1>8. CASE MapEnvelope(o)
  <2>1. MapEffect(o, i) /\ MoveEffect(o) /\ rows' = rows
    BY <1>1, <1>8, MapDoes DEF MapEffect
  <2>2. Alive(i)' = Alive(i) /\ Running(o)
    BY <1>3, <2>1 DEF Alive, MapEffect
  <2>3. CallHolds(o) /\ InUse /\ (attached # 0 => ~swap)
    BY <2>2, RunsHere, CalmParts DEF CallInv
  <2>4. o \in Alive(i) /\ ~Wins(ops[o].doc, rows[stores][o].doc)
    BY <1>1, <2>1, <2>3 DEF CallHolds, Writes, MapEffect
  <2>5. /\ ops'[o].id = i /\ ops'[o].kind = ops[o].kind /\ ops'[o].doc = ops[o].doc /\ ops'[o].store = stores
        /\ ops'[o].env = o /\ ops'[o].st = "done" /\ ops'[o].kind # "remove"
    BY <1>1, <2>1 DEF MoveEffect, MapEffect, Writes
  <2> QED BY <1>3, <2>1, <2>2, <2>3, <2>4, <2>5, CallIs
<1>9. CASE Bury(o)
  <2>1. PICK e : e = ops[o].env
    OBVIOUS
  <2>2. BuryEffect(o, i, e)
    BY <1>0, <1>1, <1>3, <1>9, <2>1, BuryWrites, BuryDoes
  <2>3. /\ ops'[o].id = i /\ ops'[o].kind = "remove" /\ ops'[o].store = stores /\ ops'[o].st = "done" /\ Alive(i)' = {}
        /\ Running(o)
    BY <1>1, <2>2 DEF BuryEffect, MoveEffect, Writes
  <2>4. InUse /\ (attached # 0 => ~swap)
    BY <2>3, RunsHere
  <2> QED BY <1>3, <2>3, <2>4, CallIs
<1>10. CASE Finish(o)
  <2>1. FinishEffect(o, i)
    BY <1>0, <1>1, <1>3, <1>10, FinishDoes
  <2>2. ops'[o].st = "acked" /\ ops'[o].id = i
    BY <1>1, <2>1 DEF FinishEffect, SettleEffect
  <2> QED BY <1>3, <2>2, CallIs
<1>11. CASE Rejects(o)
  <2>1. RejectEffect(o, i)
    BY <1>0, <1>1, <1>3, <1>11, RejectsDoes
  <2>2. ops'[o].st = "rejected" /\ ops'[o].id = i
    BY <1>1, <2>1 DEF RejectEffect, SettleEffect
  <2> QED BY <1>3, <2>2, CallIs
<1> QED BY <1>4, <1>5, <1>6, <1>7, <1>8, <1>9, <1>10, <1>11 DEF Persist

\* Every step that crosses nothing keeps CallInv.
LEMMA CallStep ==
  ASSUME Calm, BaseInv', Uncrossed', [Next]_vars
  PROVE  CallInv'
<1> SUFFICES ASSUME NEW b \in Ops PROVE CallHolds(b)'
  BY DEF CallInv
<1>0. TypeOK /\ ShapeInv /\ SessionInv /\ CallHolds(b)
  BY CalmParts DEF CallInv
<1>1. Running(b) /\ index[stores] # None => index'[stores] # None
  BY IndexStays, RunsHere
<1>2. ASSUME NEW o \in Ops, Persist(o) PROVE CallHolds(b)'
  <2>1. PICK i : i = ops[o].id
    OBVIOUS
  <2>2. OpStep(o, i) /\ i \in Ids
    BY <1>2, <2>1, StepOf DEF OpStep
  <2>3. InUse /\ index[stores] # None => index'[stores] # None
    BY IndexStays, InUseHasReplica DEF Calm
  <2> QED BY <1>2, <2>2, <2>3, OwnCall, AsideCalls
<1>3. ASSUME NEW o \in Ops, NEW kind \in Kinds, NEW i \in Ids, Issue(o, kind, i) PROVE CallHolds(b)'
  <2>1. IssueEffect(o, kind, i)
    BY <1>0, <1>3, IssueDoes
  <2>2. OpStep(o, i)
    BY <2>1, IssueIsStep
  <2>3. InUse /\ index[stores] # None => index'[stores] # None
    BY IndexStays, InUseHasReplica DEF Calm
  <2>4. CASE b = o
    <3>1. ops'[b].st = "queued" /\ ops'[b].id = i /\ stores' = stores
      BY <2>1, <2>4 DEF IssueEffect
    <3> QED BY <3>1, CallIs
  <2> QED BY <2>2, <2>3, <2>4, AsideCalls
<1>4. ASSUME NEW p \in Pulls, Pull(p) PROVE CallHolds(b)'
  <2>1. PICK e \in Envelopes, i \in Ids, doc \in Docs, dead \in BOOLEAN, c \in Change : PullEffect(p, e, i, doc, dead, c)
    BY <1>4, PullDoes
  <2>2. /\ ops' = ops /\ stores' = stores /\ attached' = attached /\ swap' = swap /\ index' = index /\ (InUse' <=> InUse)
        /\ stores \in 1..MaxStores
    BY <2>1 DEF PullEffect, InUse
  <2>3. Running(b) => InUse /\ (attached # 0 => ~swap) /\ ops[b].id \in Ids /\ ops[b].store = stores /\ inFlight[ops[b].id] # None
    BY RunsHere
  <2>4. CASE ~Running(b) \/ ops[b].id # i
    <3>1. Running(b) => Untouched(ops[b].id)
      BY <2>1, <2>3, <2>4 DEF PullEffect
    <3> QED BY <1>0, <1>1, <2>2, <2>3, <3>1, CallFrame
  <2>5. CASE Running(b) /\ ops[b].id = i
    <3>1. PullLive(p, e, i, doc, dead)
      BY <2>1, <2>3, <2>5 DEF PullEffect, PullNew, PullDead
    <3>2. /\ Alive(i)' = Alive(i) /\ Alive(i) = {e} /\ Wins(doc, rows[stores][e].doc) /\ rows'[stores][e].doc = doc
          /\ rows[stores][e] # None
      BY <2>1, <3>1 DEF PullLive, PullEffect
    <3>3. ops[b].st \in {"map", "done"} /\ Writes(b) => ops[b].env = e /\ ops[b].doc \in Docs /\ rows[stores][e].doc \in Docs
      <4>1. ops[b].st \in {"map", "done"} /\ Writes(b) => ops[b].env \in Alive(i)
        BY <1>0, <2>5 DEF CallHolds, ShapeInv, CallShape
      <4>2. rows[stores][e].doc \in Docs
        BY <1>0, <2>2, <3>2, RowFields DEF Rows
      <4> QED BY <2>5, <3>2, <4>1, <4>2, RunsHere
    <3>4. ops[b].st \in {"map", "done"} /\ Writes(b) => ~Wins(ops[b].doc, doc)
      <4>1. ops[b].st \in {"map", "done"} /\ Writes(b) => ~Wins(ops[b].doc, rows[stores][e].doc)
        BY <1>0, <3>3 DEF CallHolds
      <4> QED BY <3>2, <3>3, <4>1, WinsOrder
    <3>5. /\ ops[b].st = "put" /\ ops[b].kind # "insert" => Alive(i) \cap Ops = {}
          /\ ops[b].st = "map" => b \in Alive(i)
          /\ ops[b].st \in {"patch", "bury"} => ops[b].env \in Alive(i) /\ index[stores] # None
          /\ ops[b].st = "done" => /\ ops[b].kind # "remove" => ops[b].env \in Alive(i)
                                   /\ ops[b].kind = "remove" /\ ops[b].env # None => Alive(i) = {}
      BY <1>0, <2>5 DEF CallHolds, Writes
    <3> QED BY <2>2, <2>3, <2>5, <3>2, <3>3, <3>4, <3>5, CallIs DEF Writes
  <2> QED BY <2>4, <2>5
<1>5. ASSUME UNCHANGED <<ops, rows, stores, attached, closing>>, swap' \in {swap, FALSE} PROVE CallHolds(b)'
  <2>1. \A j : Untouched(j)
    BY <1>5 DEF Untouched
  <2>2. Running(b) => stores' = stores /\ InUse' /\ (attached' # 0 => ~swap')
    BY <1>5, RunsHere DEF InUse
  <2> QED BY <1>0, <1>1, <1>5, <2>1, <2>2, CallFrame
<1>6. CASE Flush \/ Rehydrate \/ Hydrated \/ UNCHANGED vars
  BY <1>6, <1>5 DEF Flush, Rehydrate, Hydrated, vars, held, lives
<1>7. CASE EndSwap
  BY <1>7, <1>5 DEF EndSwap, held
<1>8. ASSUME NEW c \in events, Deliver(c) \/ Undecodable(c) PROVE CallHolds(b)'
  BY <1>8, <1>5 DEF Deliver, Undecodable, held, lives
<1>9. ASSUME NEW swaps \in BOOLEAN, Detach(swaps) PROVE CallHolds(b)'
  <2>1. attached # 0 /\ attached' = 0 /\ closing' = attached /\ UNCHANGED <<ops, rows, stores>>
    BY <1>9 DEF Detach, held
  <2>2. \A j : Untouched(j)
    BY <2>1 DEF Untouched
  <2>3. Running(b) => stores' = stores /\ InUse' /\ (attached' # 0 => ~swap')
    BY <2>1 DEF InUse
  <2> QED BY <1>0, <1>1, <2>1, <2>2, <2>3, CallFrame
<1>10. ASSUME ops' = ops, ~Running(b) PROVE CallHolds(b)'
  BY <1>10 DEF CallHolds, Running
<1>11. CASE CloseAndClear
  <2>1. ~Running(b)
    <3>1. ~Outlives(b)
      BY <1>11 DEF CloseAndClear, Crossed, Uncrossed
    <3>2. closing = stores
      BY <1>0, <1>11 DEF CloseAndClear, SessionInv
    <3> QED BY <3>1, <3>2, RunsHere DEF Outlives
  <2> QED BY <1>10, <1>11, <2>1 DEF CloseAndClear
<1>12. CASE Attach
  <2>1. ~Running(b)
    BY <1>12, RunsHere DEF Attach, InUse
  <2> QED BY <1>10, <1>12, <2>1 DEF Attach
<1> QED BY <1>2, <1>3, <1>4, <1>6, <1>7, <1>8, <1>9, <1>11, <1>12 DEF Next

(***************************************************************************)
(* The queues                                                              *)
(***************************************************************************)
\* A verb called without a crossing.
LEMMA IssueCrosses ==
  ASSUME Calm, Uncrossed', NEW o \in Ops, NEW kind \in Kinds, NEW i \in Ids, Issue(o, kind, i)
  PROVE  /\ closing = 0 /\ (attached # 0 \/ swap)
         /\ kind = "insert" => byId[i] = None
         /\ kind = "update" => byId[i] # None
         /\ kind = "remove" => Outstanding(i) = {}
         /\ \A c \in Outstanding(i) : ~c.dead
         /\ kind # "remove" /\ inFlight[i] # None => \A k \in DOMAIN Queue(i) : Writes(Queue(i)[k])
<1>1. /\ closing = 0 /\ (attached # 0 \/ swap)
      /\ kind = "insert" => byId[i] = None
      /\ kind = "update" => byId[i] # None
      /\ ~\E c \in Outstanding(i) : kind = "remove" \/ c.dead
  BY DEF Issue, Crossed, Uncrossed
<1>2. PICK q : q = [Entered(i) EXCEPT !.queue = Append(@, o)]
  OBVIOUS
<1>3. kind # "remove" => ~\E b \in Range(q.queue) : ops[b].kind = "remove"
  BY <1>2 DEF Issue, Crossed, Uncrossed
<1>4. ASSUME inFlight[i] # None, kind # "remove", NEW k \in DOMAIN Queue(i) PROVE Writes(Queue(i)[k])
  <2>1. inFlight[i] \in Entry /\ Queue(i) \in Seq(Ops) /\ Queue(i) = inFlight[i].queue
    BY <1>4, CalmParts, EntryAt DEF Queue
  <2>2. PICK f \in Entry : f = inFlight[i]
    BY <2>1
  <2>3. q = [f EXCEPT !.queue = Append(f.queue, o)]
    BY <1>2, <1>4, <2>2 DEF Entered
  <2>4. q.queue = Append(Queue(i), o)
    BY <2>1, <2>2, <2>3 DEF Entry
  <2>5. Range(q.queue) = Range(Queue(i)) \cup {o}
    BY <2>1, <2>4, RangeAppend
  <2>6. Queue(i)[k] \in Range(Queue(i))
    BY <1>4 DEF Range
  <2> QED BY <1>3, <1>4, <2>5, <2>6 DEF Writes
<1> QED BY <1>1, <1>4

\* The order of the calls in one queue.
Ordered(i) == \A j, k \in DOMAIN Queue(i) :
  j < k /\ Writes(Queue(i)[k]) => Writes(Queue(i)[j]) /\ ops[Queue(i)[j]].doc.ts < ops[Queue(i)[k]].doc.ts

\* The parts of QueueInv.
LEMMA QueueParted ==
  ASSUME Calm
  PROVE  /\ \A i \in Ids : inFlight[i] # None => Ordered(i)
         /\ \A a, b \in Ops : ops[a].st = "acked" /\ Busy(b) /\ ops[a].id = ops[b].id /\ Writes(a) /\ Writes(b)
              => ops[a].doc.ts < ops[b].doc.ts
         /\ ~InUse /\ ~swap => \A o \in Ops : ~Busy(o)
BY CalmParts DEF QueueInv, Ordered

\* A queue left alone keeps its order.
LEMMA OrderKept ==
  ASSUME TypeOK, ShapeInv, CallsKeep, NEW i \in Ids, inFlight[i] # None, Ordered(i), Queue(i)' = Queue(i)
  PROVE  Ordered(i)'
<1>1. \A k \in DOMAIN Queue(i) : LET q == Queue(i)[k] IN q \in Ops /\ ops'[q].kind = ops[q].kind /\ ops'[q].doc = ops[q].doc
  BY SameQueue
<1> QED BY <1>1 DEF Ordered, Writes

\* A step that issues and settles no call keeps QueueInv.
LEMMA QueueKeeps ==
  ASSUME Calm, CallsKeep,
         \A i \in Ids : inFlight'[i] # None => inFlight[i] # None /\ Queue(i)' = Queue(i),
         \A b \in Ops : ops'[b].st \notin {"new", "acked", "rejected"} => Busy(b),
         \A b \in Ops : ops'[b].st = "acked" => ops[b].st = "acked",
         ~InUse' /\ ~swap' => \A b \in Ops : ops'[b].st \in {"new", "acked", "rejected"}
  PROVE  QueueInv'
<1>1. ASSUME NEW i \in Ids, inFlight'[i] # None PROVE Ordered(i)'
  BY <1>1, CalmParts, QueueParted, OrderKept
<1>2. ASSUME NEW a \in Ops, NEW b \in Ops, ops'[a].st = "acked", ops'[b].st \notin {"new", "acked", "rejected"},
             ops'[a].id = ops'[b].id, ops'[a].kind # "remove", ops'[b].kind # "remove"
      PROVE  ops'[a].doc.ts < ops'[b].doc.ts
  <2>1. ops[a].st = "acked" /\ Busy(b)
    BY <1>2
  <2> QED BY <1>2, <2>1, QueueParted DEF CallsKeep, Busy, Writes
<1>3. QueueInv' <=> /\ \A i \in Ids : inFlight'[i] # None => Ordered(i)'
                    /\ \A a, b \in Ops : ops'[a].st = "acked" /\ ops'[b].st \notin {"new", "acked", "rejected"} /\ ops'[a].id = ops'[b].id
                          /\ ops'[a].kind # "remove" /\ ops'[b].kind # "remove" => ops'[a].doc.ts < ops'[b].doc.ts
                    /\ ~InUse' /\ ~swap' => \A b \in Ops : ops'[b].st \in {"new", "acked", "rejected"}
  BY DEF QueueInv, Ordered, Busy, Writes
<1> QED BY <1>1, <1>2, <1>3

\* A call that settles keeps QueueInv.
LEMMA QueueSettles ==
  ASSUME Calm, NEW o \in Ops, NEW i \in Ids, NEW st \in {"acked", "rejected"}, NEW latest, NEW confirmed, NEW shown,
         SettleEffect(o, i, st, latest, confirmed, shown)
  PROVE  QueueInv'
<1>0. TypeOK /\ ShapeInv
  BY CalmParts
<1>1. /\ i = ops[o].id /\ Queue(i)[1] = o /\ inFlight[i] # None /\ \A b \in Ops : b # o => ops'[b] = ops[b]
      /\ ops'[o].st = st /\ ops'[o].kind = ops[o].kind /\ ops'[o].id = ops[o].id /\ ops'[o].doc = ops[o].doc
      /\ \A j \in Ids : j # i => inFlight'[j] = inFlight[j]
      /\ inFlight'[i] # None => Queue(i)' = Tail(Queue(i))
      /\ UNCHANGED <<attached, closing, swap>>
  BY DEF SettleEffect
<1>2. CallsKeep
  BY <1>1 DEF CallsKeep
<1>3. ASSUME NEW j \in Ids, inFlight'[j] # None PROVE Ordered(j)'
  <2>1. CASE j # i
    <3>1. inFlight[j] # None /\ Queue(j)' = Queue(j)
      BY <1>1, <1>3, <2>1 DEF Queue
    <3> QED BY <1>0, <1>2, <3>1, QueueParted, OrderKept
  <2>2. CASE j = i
    <3>1. /\ Queue(i) \in Seq(Ops) /\ Queue(i) # <<>> /\ Len(Queue(i)) \in Nat /\ DOMAIN Queue(i) = 1..Len(Queue(i))
          /\ \A k \in DOMAIN Queue(i) : Queue(i)[k] \in Ops /\ Busy(Queue(i)[k])
      BY <1>0, <1>1, EntryAt
    <3>2. Queue(i)' = Tail(Queue(i))
      BY <1>1, <1>3, <2>2
    <3>3. /\ DOMAIN Tail(Queue(i)) = 1..(Len(Queue(i)) - 1)
          /\ \A k \in 1..(Len(Queue(i)) - 1) : k + 1 \in DOMAIN Queue(i) /\ Tail(Queue(i))[k] = Queue(i)[k + 1]
      BY <3>1
    <3>4. Ordered(i)
      BY <1>1, QueueParted
    <3>5. \A k \in DOMAIN Queue(i) : ops'[Queue(i)[k]].kind = ops[Queue(i)[k]].kind /\ ops'[Queue(i)[k]].doc = ops[Queue(i)[k]].doc
      BY <1>2, <3>1 DEF CallsKeep, Busy
    <3>6. ASSUME NEW a \in DOMAIN Tail(Queue(i)), NEW k \in DOMAIN Tail(Queue(i)), a < k, ops'[Tail(Queue(i))[k]].kind # "remove"
          PROVE /\ ops'[Tail(Queue(i))[a]].kind # "remove"
                /\ ops'[Tail(Queue(i))[a]].doc.ts < ops'[Tail(Queue(i))[k]].doc.ts
      <4>1. a + 1 \in DOMAIN Queue(i) /\ k + 1 \in DOMAIN Queue(i) /\ a + 1 < k + 1
            /\ Tail(Queue(i))[a] = Queue(i)[a + 1] /\ Tail(Queue(i))[k] = Queue(i)[k + 1]
        BY <3>1, <3>3, <3>6
      <4> QED BY <3>4, <3>5, <3>6, <4>1 DEF Ordered, Writes
    <3> QED BY <2>2, <3>2, <3>6 DEF Ordered, Writes
  <2> QED BY <2>1, <2>2
<1>4. ASSUME NEW a \in Ops, NEW b \in Ops, ops'[a].st = "acked", ops'[b].st \notin {"new", "acked", "rejected"},
             ops'[a].id = ops'[b].id, ops'[a].kind # "remove", ops'[b].kind # "remove"
      PROVE  ops'[a].doc.ts < ops'[b].doc.ts
  <2>1. b # o /\ Busy(b) /\ ops'[b] = ops[b] /\ ops[b].kind # "remove"
    BY <1>1, <1>4 DEF Busy
  <2>2. CASE a # o
    BY <1>1, <1>4, <2>1, <2>2, QueueParted DEF Writes
  <2>3. CASE a = o
    <3>1. ops[b].id = i /\ b \in Range(Queue(i))
      BY <1>0, <1>1, <1>4, <2>1, <2>3 DEF ShapeInv, CallShape
    <3>2. Ordered(i) /\ DOMAIN Queue(i) = 1..Len(Queue(i)) /\ Len(Queue(i)) \in Nat /\ 1 \in DOMAIN Queue(i)
      BY <1>0, <1>1, QueueParted, EntryAt
    <3>3. PICK k \in DOMAIN Queue(i) : Queue(i)[k] = b
      BY <3>1 DEF Range
    <3>4. 1 < k
      BY <1>1, <2>1, <3>2, <3>3
    <3> QED BY <1>1, <2>1, <2>3, <3>2, <3>3, <3>4 DEF Ordered, Writes
  <2> QED BY <2>2, <2>3
<1>5. ~InUse' /\ ~swap' => \A b \in Ops : ops'[b].st \in {"new", "acked", "rejected"}
  BY <1>1, QueueParted DEF InUse, Busy
<1>6. QueueInv' <=> /\ \A j \in Ids : inFlight'[j] # None => Ordered(j)'
                    /\ \A a, b \in Ops : ops'[a].st = "acked" /\ ops'[b].st \notin {"new", "acked", "rejected"} /\ ops'[a].id = ops'[b].id
                          /\ ops'[a].kind # "remove" /\ ops'[b].kind # "remove" => ops'[a].doc.ts < ops'[b].doc.ts
                    /\ ~InUse' /\ ~swap' => \A b \in Ops : ops'[b].st \in {"new", "acked", "rejected"}
  BY DEF QueueInv, Ordered, Busy, Writes
<1> QED BY <1>3, <1>4, <1>5, <1>6

\* A call that is issued keeps QueueInv: its stamp is later than every other.
LEMMA QueueIssued ==
  ASSUME Calm, Uncrossed', NEW o \in Ops, NEW kind \in Kinds, NEW i \in Ids, Issue(o, kind, i)
  PROVE  QueueInv'
<1>0. TypeOK /\ ShapeInv
  BY CalmParts
<1>1. IssueEffect(o, kind, i) /\ (attached # 0 \/ swap)
      /\ (kind # "remove" /\ inFlight[i] # None => \A k \in DOMAIN Queue(i) : Writes(Queue(i)[k]))
  BY <1>0, IssueDoes, IssueCrosses
<1>2. /\ ops[o].st = "new" /\ ops'[o].st = "queued" /\ ops'[o].kind = kind /\ ops'[o].id = i
      /\ \A b \in Ops : b # o => ops'[b] = ops[b]
      /\ kind # "remove" => ops'[o].doc.ts = clock + 1
      /\ \A j \in Ids : j # i => inFlight'[j] = inFlight[j]
      /\ inFlight[i] # None => Queue(i)' = Append(Queue(i), o)
      /\ inFlight[i] = None => Queue(i)' = <<o>> /\ DOMAIN Queue(i)' = {1}
      /\ UNCHANGED <<attached, closing, swap>>
  BY <1>1 DEF IssueEffect
<1>3. CallsKeep
  BY <1>2 DEF CallsKeep
<1>4. \A b \in Ops : ops[b].st # "new" /\ Writes(b) => ops[b].doc.ts < clock + 1
  <2> SUFFICES ASSUME NEW b \in Ops, ops[b].st # "new", Writes(b) PROVE ops[b].doc.ts < clock + 1
    OBVIOUS
  <2>1. ops[b].doc # None /\ ops[b].doc.ts <= clock
    BY <1>0 DEF ShapeInv, CallShape
  <2>2. ops[b].doc \in Docs /\ clock \in Nat
    BY <1>0, <2>1, CallFields DEF TypeOK, Optional
  <2>3. ops[b].doc.ts \in Nat
    BY <2>2 DEF Docs
  <2> QED BY <2>1, <2>2, <2>3
<1>5. ASSUME NEW j \in Ids, inFlight'[j] # None PROVE Ordered(j)'
  <2>1. CASE j # i
    <3>1. inFlight[j] # None /\ Queue(j)' = Queue(j)
      BY <1>2, <1>5, <2>1 DEF Queue
    <3> QED BY <1>0, <1>3, <3>1, QueueParted, OrderKept
  <2>2. CASE j = i /\ inFlight[i] = None
    <3>1. \A a, k \in DOMAIN Queue(i)' : ~(a < k)
      BY <1>2, <2>2
    <3> QED BY <2>2, <3>1 DEF Ordered
  <2>3. CASE j = i /\ inFlight[i] # None
    <3>1. /\ Queue(i) \in Seq(Ops) /\ Len(Queue(i)) \in Nat /\ DOMAIN Queue(i) = 1..Len(Queue(i))
          /\ \A k \in DOMAIN Queue(i) : Queue(i)[k] \in Ops /\ Busy(Queue(i)[k]) /\ Queue(i)[k] # o
      <4>1. ~Busy(o)
        BY <1>2 DEF Busy
      <4> QED BY <1>0, <2>3, <4>1, EntryAt
    <3>2. Queue(i)' = Append(Queue(i), o) /\ Ordered(i)
      BY <1>2, <2>3, QueueParted
    <3>3. /\ DOMAIN Append(Queue(i), o) = 1..(Len(Queue(i)) + 1) /\ Append(Queue(i), o)[Len(Queue(i)) + 1] = o
          /\ \A k \in 1..Len(Queue(i)) : Append(Queue(i), o)[k] = Queue(i)[k]
      BY <3>1
    <3>4. \A k \in DOMAIN Queue(i) : ops'[Queue(i)[k]] = ops[Queue(i)[k]]
      BY <1>2, <3>1
    <3>5. ASSUME NEW a \in DOMAIN Append(Queue(i), o), NEW k \in DOMAIN Append(Queue(i), o), a < k,
                 ops'[Append(Queue(i), o)[k]].kind # "remove"
          PROVE /\ ops'[Append(Queue(i), o)[a]].kind # "remove"
                /\ ops'[Append(Queue(i), o)[a]].doc.ts < ops'[Append(Queue(i), o)[k]].doc.ts
      <4>1. a \in DOMAIN Queue(i) /\ Append(Queue(i), o)[a] = Queue(i)[a]
        BY <3>1, <3>3, <3>5
      <4>2. CASE k \in DOMAIN Queue(i)
        BY <3>1, <3>2, <3>3, <3>4, <3>5, <4>1, <4>2 DEF Ordered, Writes
      <4>3. CASE k = Len(Queue(i)) + 1
        <5>1. Append(Queue(i), o)[k] = o /\ kind # "remove"
          BY <1>2, <3>3, <3>5, <4>3
        <5>2. Writes(Queue(i)[a]) /\ Busy(Queue(i)[a])
          BY <1>1, <2>3, <3>1, <4>1, <5>1
        <5>3. ops[Queue(i)[a]].doc.ts < clock + 1
          BY <1>4, <3>1, <4>1, <5>2 DEF Busy
        <5> QED BY <1>2, <3>4, <4>1, <5>1, <5>2, <5>3 DEF Writes
      <4>4. k \in DOMAIN Queue(i) \/ k = Len(Queue(i)) + 1
        BY <3>1, <3>3, <3>5
      <4> QED BY <4>2, <4>3, <4>4
    <3> QED BY <2>3, <3>2, <3>5 DEF Ordered, Writes
  <2> QED BY <2>1, <2>2, <2>3
<1>6. ASSUME NEW a \in Ops, NEW b \in Ops, ops'[a].st = "acked", ops'[b].st \notin {"new", "acked", "rejected"},
             ops'[a].id = ops'[b].id, ops'[a].kind # "remove", ops'[b].kind # "remove"
      PROVE  ops'[a].doc.ts < ops'[b].doc.ts
  <2>1. a # o /\ ops[a].st = "acked" /\ ops'[a] = ops[a] /\ Writes(a)
    BY <1>2, <1>6 DEF Writes
  <2>2. CASE b # o
    BY <1>2, <1>6, <2>1, <2>2, QueueParted DEF Busy, Writes
  <2>3. CASE b = o
    BY <1>2, <1>4, <1>6, <2>1, <2>3
  <2> QED BY <2>2, <2>3
<1>7. InUse' \/ swap'
  BY <1>1, <1>2 DEF InUse
<1>8. QueueInv' <=> /\ \A j \in Ids : inFlight'[j] # None => Ordered(j)'
                    /\ \A a, b \in Ops : ops'[a].st = "acked" /\ ops'[b].st \notin {"new", "acked", "rejected"} /\ ops'[a].id = ops'[b].id
                          /\ ops'[a].kind # "remove" /\ ops'[b].kind # "remove" => ops'[a].doc.ts < ops'[b].doc.ts
                    /\ ~InUse' /\ ~swap' => \A b \in Ops : ops'[b].st \in {"new", "acked", "rejected"}
  BY DEF QueueInv, Ordered, Busy, Writes
<1> QED BY <1>5, <1>6, <1>7, <1>8

\* Every step that crosses nothing keeps QueueInv.
LEMMA QueueStep ==
  ASSUME Calm, BaseInv', Uncrossed', [Next]_vars
  PROVE  QueueInv'
<1>0. TypeOK /\ ShapeInv /\ SessionInv
  BY CalmParts
<1>1. ASSUME NEW o \in Ops, Start(o) \/ ListForIndex(o) \/ SetIndex(o) \/ Look(o) \/ Put(o) \/ MapEnvelope(o) \/ Patch(o) \/ Bury(o)
      PROVE QueueInv'
  <2>1. Busy(o) /\ ops'[o].st # "acked"
    <3>1. Start(o) \/ ListForIndex(o) \/ SetIndex(o) => Busy(o) /\ ops'[o].st # "acked"
      BY <1>0, MoveDoes DEF Start, Turn, ListForIndex, NeedsIndex, SetIndex, Busy, ShapeInv, CallShape
    <3>2. Put(o) \/ MapEnvelope(o) \/ Patch(o) \/ Bury(o) => Busy(o) /\ ops'[o].st # "acked"
      BY <1>0, MoveDoes DEF Put, MapEnvelope, Ready, Patch, Bury, Busy
    <3>3. Look(o) => Busy(o) /\ ops'[o].st # "acked"
      BY <1>0, LookDoes DEF LookEffect, Busy
    <3> QED BY <1>1, <3>1, <3>2, <3>3
  <2>2. MoveEffect(o)
    BY <1>0, <1>1, MoveDoes, LookDoes DEF LookEffect
  <2>3. CallsKeep
    BY <2>2 DEF MoveEffect, CallsKeep
  <2>4. \A i \in Ids : inFlight'[i] # None => inFlight[i] # None /\ Queue(i)' = Queue(i)
    BY <2>2 DEF MoveEffect, Queue
  <2>5. \A b \in Ops : ops'[b].st \notin {"new", "acked", "rejected"} => Busy(b)
    BY <2>1, <2>2 DEF MoveEffect, Busy
  <2>6. \A b \in Ops : ops'[b].st = "acked" => ops[b].st = "acked"
    BY <2>1, <2>2 DEF MoveEffect
  <2>7. InUse' \/ swap'
    BY <2>1, <2>2, QueueParted DEF MoveEffect, InUse
  <2> QED BY <2>3, <2>4, <2>5, <2>6, <2>7, QueueKeeps
<1>2. ASSUME NEW o \in Ops, Finish(o) PROVE QueueInv'
  <2>1. PICK i : i = ops[o].id
    OBVIOUS
  <2>2. i \in Ids
    BY <1>0, <1>2, <2>1, BusyCall DEF Finish, Busy
  <2>3. FinishEffect(o, i)
    BY <1>0, <1>2, <2>1, <2>2, FinishDoes
  <2> QED BY <2>2, <2>3, QueueSettles DEF FinishEffect
<1>3. ASSUME NEW o \in Ops, Rejects(o) PROVE QueueInv'
  <2>1. PICK i : i = ops[o].id
    OBVIOUS
  <2>2. i \in Ids
    BY <1>0, <1>3, <2>1, BusyCall DEF Rejects, Turn, NeedsIndex, Busy
  <2>3. RejectEffect(o, i)
    BY <1>0, <1>3, <2>1, <2>2, RejectsDoes
  <2> QED BY <2>2, <2>3, QueueSettles DEF RejectEffect
<1>4. ASSUME ops' = ops, \A i \in Ids : inFlight'[i] # None => inFlight[i] # None /\ Queue(i)' = Queue(i),
             ~InUse' /\ ~swap' => \A b \in Ops : ~Busy(b)
      PROVE QueueInv'
  <2>1. CallsKeep /\ \A b \in Ops : (ops'[b].st \notin {"new", "acked", "rejected"} => Busy(b))
                                    /\ (ops'[b].st = "acked" => ops[b].st = "acked")
    BY <1>4 DEF CallsKeep, Busy
  <2>2. ~InUse' /\ ~swap' => \A b \in Ops : ops'[b].st \in {"new", "acked", "rejected"}
    BY <1>4 DEF Busy
  <2> QED BY <1>4, <2>1, <2>2, QueueKeeps
<1>5. ASSUME UNCHANGED <<ops, inFlight, attached, closing, swap>> PROVE QueueInv'
  <2>1. \A i \in Ids : Queue(i)' = Queue(i)
    BY <1>5 DEF Queue
  <2>2. ~InUse' /\ ~swap' => \A b \in Ops : ~Busy(b)
    BY <1>5, QueueParted DEF InUse
  <2> QED BY <1>4, <1>5, <2>1, <2>2
<1>6. CASE Flush \/ Rehydrate \/ UNCHANGED vars
  BY <1>5, <1>6 DEF Flush, Rehydrate, vars, store, lives
<1>7. ASSUME NEW c \in events, Deliver(c) \/ Undecodable(c) PROVE QueueInv'
  BY <1>5, <1>7 DEF Deliver, Undecodable, store, lives
<1>8. CASE Hydrated
  <2>1. PICK seen : seen = listing.seen
    OBVIOUS
  <2>2. HydrateEffect(seen)
    BY <1>8, <2>1, HydrateDoes
  <2>3. \A i \in Ids : inFlight'[i] # None => inFlight[i] # None /\ Queue(i)' = Queue(i)
    BY <2>2 DEF HydrateEffect
  <2>4. ops' = ops /\ (~InUse' /\ ~swap' => \A b \in Ops : ~Busy(b))
    BY <2>2, QueueParted DEF HydrateEffect, InUse
  <2> QED BY <1>4, <2>3, <2>4
<1>9. ASSUME NEW p \in Pulls, Pull(p) PROVE QueueInv'
  <2>1. PICK e \in Envelopes, i \in Ids, doc \in Docs, dead \in BOOLEAN, c \in Change : PullEffect(p, e, i, doc, dead, c)
    BY <1>9, PullDoes
  <2>2. \A j \in Ids : inFlight'[j] # None => inFlight[j] # None /\ Queue(j)' = Queue(j)
    BY <2>1 DEF PullEffect, Queue
  <2>3. ops' = ops /\ (~InUse' /\ ~swap' => \A b \in Ops : ~Busy(b))
    BY <2>1 DEF PullEffect, InUse
  <2> QED BY <1>4, <2>2, <2>3
<1>10. ASSUME UNCHANGED <<ops, inFlight>>, ~InUse' /\ ~swap' => \A b \in Ops : ~Busy(b) PROVE QueueInv'
  <2>1. \A i \in Ids : Queue(i)' = Queue(i)
    BY <1>10 DEF Queue
  <2> QED BY <1>4, <1>10, <2>1
<1>11. ASSUME NEW swaps \in BOOLEAN, Detach(swaps) PROVE QueueInv'
  BY <1>10, <1>11 DEF Detach, store, InUse
<1>12. CASE CloseAndClear
  <2>1. ~InUse' /\ ~swap' => \A b \in Ops : ~Busy(b)
    BY <1>12 DEF CloseAndClear, Outlives, Crossed, Uncrossed
  <2> QED BY <1>10, <1>12, <2>1 DEF CloseAndClear
<1>13. CASE Attach
  <2>1. InUse'
    BY <1>0, <1>13 DEF Attach, InUse, TypeOK
  <2> QED BY <1>10, <1>13, <2>1 DEF Attach, store
<1>14. CASE EndSwap
  <2>1. InUse'
    BY <1>14 DEF EndSwap, InUse
  <2> QED BY <1>10, <1>14, <2>1 DEF EndSwap, store
<1>15. ASSUME NEW o \in Ops, NEW kind \in Kinds, NEW i \in Ids, Issue(o, kind, i) PROVE QueueInv'
  BY <1>15, QueueIssued
<1> QED BY <1>1, <1>2, <1>3, <1>6, <1>7, <1>8, <1>9, <1>11, <1>12, <1>13, <1>14, <1>15 DEF Next, Persist

(***************************************************************************)
(* The index                                                               *)
(***************************************************************************)
\* The index files a document under its id; it finds a live row, or will.
Filed(j)    == index[stores].of[j] # None =>
  rows[stores][index[stores].of[j]] # None /\ rows[stores][index[stores].of[j]].doc.id = j
Placed(e)   == Found(e) \/ Coming(e) \/ Unlisted(e) \/ InListing(e)
IndexRow(e) ==
  /\ index[stores] # None => Placed(e)
  /\ listing # None => listing.seen[e] # None \/ Coming(e) \/ Unlisted(e)
  /\ \A o \in Ops : ops[o].seen # None => ops[o].seen[e] # None \/ Placed(e)

\* The parts of IndexInv.
LEMMA IndexParted ==
  ASSUME Calm, InUse
  PROVE  /\ index[stores] # None => \A j \in Ids : Filed(j)
         /\ \A e \in Live(rows[stores]) : IndexRow(e)
         /\ stores \in 1..MaxStores /\ stores \in 1..stores
<1>1. stores \in 1..MaxStores /\ stores \in 1..stores
  BY InUseHasReplica, ConstantsOK DEF Calm, ConstantsOK
<1> QED BY <1>1, CalmParts DEF IndexInv, Filed, IndexRow, Placed

\* What IndexInv asks of the next state.
LEMMA IndexIs ==
  ASSUME InUse' => /\ index'[stores'] # None => \A j \in Ids : Filed(j)'
                   /\ \A e \in Live(rows'[stores']) : IndexRow(e)'
  PROVE  IndexInv'
<1>1. \A e : e \in Live(rows[stores])' <=> e \in Live(rows'[stores'])
  BY DEF Live
<1> QED BY <1>1 DEF IndexInv, Filed, IndexRow, Placed

\* A place in the index that a step leaves alone.
LEMMA FiledKept ==
  ASSUME Calm, Uncrossed', [Next]_vars, InUse, stores' = stores, NEW j \in Ids, index[stores] # None,
         index'[stores].of[j] \in {None, index[stores].of[j]}
  PROVE  Filed(j)'
<1>1. stores \in 1..stores /\ stores \in 1..MaxStores /\ Filed(j)
  BY IndexParted
<1>2. PICK v : v = index[stores].of[j]
  OBVIOUS
<1>3. v \in Optional(Envelopes)
  BY <1>1, <1>2, IndexFields, CalmParts
<1>4. v # None => rows'[stores][v] # None /\ rows'[stores][v].doc.id = j
  <2>1. v # None => v \in Envelopes /\ rows[stores][v] # None /\ rows[stores][v].doc.id = j
    BY <1>1, <1>2, <1>3 DEF Filed, Optional
  <2>2. v # None => RowsGo(stores, v)
    BY <1>1, <2>1, RowsAdvance
  <2> QED BY <2>1, <2>2 DEF RowsGo
<1> QED BY <1>2, <1>4 DEF Filed

\* A live row that a step leaves where it is.
LEMMA RowKept ==
  ASSUME Calm, InUse, stores' = stores, NEW e \in Live(rows[stores]),
         Found(e) /\ index'[stores] # None => Placed(e)',
         Coming(e) => Coming(e)', Unlisted(e) => Unlisted(e)', UNCHANGED listing,
         index'[stores] # None => index[stores] # None,
         \A b \in Ops : ops'[b].seen # None => \/ ops'[b].seen = ops[b].seen /\ (Found(e) => Placed(e)')
                                               \/ ops'[b].seen[e] # None
  PROVE  IndexRow(e)'
<1>1. IndexRow(e)
  BY IndexParted
<1>2. InListing(e) => InListing(e)'
  BY DEF InListing
<1> QED BY <1>1, <1>2 DEF IndexRow, Placed

\* The same for the step of one call.
LEMMA RowAside ==
  ASSUME Calm, Uncrossed', [Next]_vars, InUse, NEW o \in Ops, NEW i \in Ids, OpStep(o, i), NEW e \in Live(rows[stores]),
         e = o /\ ops[o].st = "map" => ops'[o].st = "map",
         index'[stores] # None <=> index[stores] # None,
         index'[stores].of[rows[stores][e].doc.id] = index[stores].of[rows[stores][e].doc.id],
         ops'[o].seen # None => ops'[o].seen = ops[o].seen \/ ops'[o].seen[e] # None
  PROVE  IndexRow(e)'
<1>1. stores' = stores /\ UNCHANGED <<listing, attached, timer, events>> /\ \A b \in Ops : b # o => ops'[b] = ops[b]
  BY DEF OpStep
<1>2. e \in Envelopes /\ rows[stores][e] # None
  BY DEF Live
<1>3. rows'[stores][e].doc.id = rows[stores][e].doc.id
  BY <1>2, IndexParted, RowsAdvance DEF RowsGo
<1>4. Found(e) => Found(e)'
  BY <1>1, <1>3 DEF Found
<1>5. Unlisted(e) => Unlisted(e)'
  BY <1>1 DEF Unlisted, Announced
<1>6. Coming(e) => Coming(e)'
  BY <1>1 DEF Coming
<1>7. Found(e) => Placed(e)'
  BY <1>4 DEF Placed
<1>8. \A b \in Ops : ops'[b].seen # None => ops'[b].seen = ops[b].seen \/ ops'[b].seen[e] # None
  BY <1>1
<1> QED BY <1>1, <1>5, <1>6, <1>7, <1>8, RowKept

\* A listing is made the index of the replica.
LEMMA IndexListed ==
  ASSUME Calm, InUse, NEW seen, ReadOf(seen), stores' = stores, rows' = rows,
         index'[stores] # None, \A j \in Ids : index'[stores].of[j] = OneOf(LiveOf(seen, j))
  PROVE  /\ \A j \in Ids : Filed(j)'
         /\ \A e \in Live(rows[stores]) : seen[e] # None => Found(e)'
<1>0. stores \in 1..MaxStores /\ TypeOK
  BY IndexParted, CalmParts
<1>1. ASSUME NEW j \in Ids PROVE Filed(j)'
  <2>1. PICK v : v = OneOf(LiveOf(seen, j))
    OBVIOUS
  <2>2. v # None => v \in LiveOf(seen, j)
    BY <2>1 DEF OneOf
  <2>3. v # None => rows[stores][v] # None /\ rows[stores][v].doc.id = j
    BY <2>2 DEF ReadOf, LiveOf, Live
  <2> QED BY <2>1, <2>3 DEF Filed
<1>2. ASSUME NEW e \in Live(rows[stores]), seen[e] # None PROVE Found(e)'
  <2>1. e \in Envelopes /\ rows[stores][e] # None /\ ~rows[stores][e].dead
    BY DEF Live
  <2>2. PICK j : j = rows[stores][e].doc.id
    OBVIOUS
  <2>3. j \in Ids
    BY <1>0, <2>1, <2>2, RowFields DEF Rows, Docs
  <2>4. e \in LiveOf(seen, j)
    BY <1>2, <2>1, <2>2 DEF ReadOf, LiveOf, Live
  <2>5. OneOf(LiveOf(seen, j)) = e
    BY <2>3, <2>4, OnlyRow DEF ReadOf
  <2> QED BY <2>2, <2>3, <2>5 DEF Found
<1> QED BY <1>1, <1>2

\* The index after the step of a call.
LEMMA IndexOwn ==
  ASSUME Calm, Uncrossed', [Next]_vars, InUse, NEW o \in Ops, Persist(o)
  PROVE  /\ index'[stores] # None => \A j \in Ids : Filed(j)'
         /\ \A e \in Live(rows'[stores]) : IndexRow(e)'
<1>0. TypeOK /\ ShapeInv /\ stores \in 1..MaxStores /\ stores \in 1..stores
  BY CalmParts, IndexParted
<1>1. PICK i : i = ops[o].id
  OBVIOUS
<1>2. OpStep(o, i) /\ stores' = stores /\ i \in Ids /\ UNCHANGED <<listing, attached, timer, events>> /\ \A b \in Ops : b # o => ops'[b] = ops[b]
  BY <1>1, StepOf DEF OpStep
<1>3. ASSUME index' = index, index[stores] # None, NEW j \in Ids PROVE Filed(j)'
  BY <1>2, <1>3, FiledKept
<1>4. rows' = rows => \A e \in Live(rows'[stores]) : e \in Live(rows[stores])
  OBVIOUS
<1>5. CASE Start(o) \/ ListForIndex(o)
  <2>1. UNCHANGED <<rows, index>> /\ (ops[o].st = "map" => ops'[o].st = "map")
    BY <1>0, <1>5, MoveDoes
  <2>2. ops'[o].seen # None => ops'[o].seen = rows[ops[o].store] /\ ListForIndex(o)
    BY <1>0, <1>5, MoveDoes
  <2>3. ops'[o].seen # None => ops'[o].seen = rows[stores]
    <3>1. ListForIndex(o) => Running(o)
      BY DEF ListForIndex, NeedsIndex, Running
    <3> QED BY <2>2, <3>1, RunsHere
  <2>4. ASSUME NEW e \in Live(rows[stores]) PROVE IndexRow(e)'
    <3>1. ops'[o].seen # None => ops'[o].seen[e] # None
      BY <2>3 DEF Live
    <3> QED BY <1>2, <2>1, <3>1, RowAside
  <2> QED BY <1>3, <2>1, <2>4
<1>6. CASE SetIndex(o)
  <2>1. PICK seen : seen = ops[o].seen
    OBVIOUS
  <2>2. SetEffect(o, seen) /\ rows' = rows /\ index'[stores] # None
    BY <1>6, <2>1, SetDoes DEF SetEffect
  <2>3. ReadOf(seen)
    BY <2>1, <2>2, CalmParts DEF RowInv, SetEffect
  <2>4. (\A j \in Ids : Filed(j)') /\ \A e \in Live(rows[stores]) : seen[e] # None => Found(e)'
    BY <1>2, <2>2, <2>3, IndexListed DEF SetEffect
  <2>5. ASSUME NEW e \in Live(rows[stores]) PROVE IndexRow(e)'
    <3>1. Coming(e) => Coming(e)'
      BY <1>2, <2>2 DEF Coming, SetEffect
    <3>2. Unlisted(e) => Unlisted(e)'
      BY <1>2 DEF Unlisted, Announced
    <3>3. InListing(e) => InListing(e)'
      BY <1>2 DEF InListing
    <3>4. Found(e) => seen[e] # None
      BY <2>2 DEF SetEffect, Found
    <3>5. IndexRow(e)
      BY IndexParted
    <3>6. seen[e] # None \/ Placed(e)
      BY <2>1, <2>2, <3>5 DEF IndexRow, SetEffect
    <3>7. Placed(e)'
      BY <2>4, <3>1, <3>2, <3>3, <3>4, <3>6 DEF Placed
    <3> QED BY <1>2, <3>1, <3>2, <3>5, <3>7 DEF IndexRow
  <2> QED BY <2>2, <2>4, <2>5
<1>7. CASE Look(o)
  <2>1. PICK x : x = index[stores].of[i]
    OBVIOUS
  <2>2. LookHere(o, i, x) /\ LookEffect(o, stores, i, x)
    BY <1>1, <1>7, <2>1, LooksHere DEF LookHere
  <2>3. rows' = rows /\ index[stores] # None /\ index'[stores] # None /\ ops[o].st = "look" /\ ops'[o].seen = None
    BY <2>2 DEF LookHere, LookEffect
  <2>4. ASSUME NEW j \in Ids PROVE Filed(j)'
    <3>1. index'[stores].of[j] \in {None, index[stores].of[j]}
      BY <2>2 DEF LookHere
    <3> QED BY <1>2, <2>3, <3>1, FiledKept
  <2>5. ASSUME NEW e \in Live(rows[stores]) PROVE IndexRow(e)'
    <3>1. PICK j \in Ids : j = rows[stores][e].doc.id
      BY <1>0, RowFields DEF Live
    <3>2. CASE index'[stores].of[j] = index[stores].of[j]
      BY <1>2, <2>3, <3>1, <3>2, RowAside
    <3>3. CASE index'[stores].of[j] # index[stores].of[j]
      <4>1. j = i /\ x \notin Alive(i)
        BY <2>2, <3>3 DEF LookHere
      <4>2. ~Found(e)
        <5>1. e \in Alive(i)
          BY <3>1, <4>1 DEF Alive, LiveOf
        <5> QED BY <2>1, <3>1, <4>1, <5>1 DEF Found
      <4>3. Coming(e) => Coming(e)'
        BY <1>2, <2>3 DEF Coming
      <4>4. Unlisted(e) => Unlisted(e)'
        BY <1>2 DEF Unlisted, Announced
      <4>5. \A b \in Ops : ops'[b].seen # None => ops'[b].seen = ops[b].seen
        BY <1>2, <2>3
      <4> QED BY <1>2, <2>3, <4>2, <4>3, <4>4, <4>5, RowKept
    <3> QED BY <3>2, <3>3
  <2> QED BY <2>3, <2>4, <2>5
<1>8. CASE Put(o) \/ Patch(o)
  <2>1. PICK d : d = ops[o].env
    OBVIOUS
  <2>2. Running(o)
    BY <1>8 DEF Put, Patch, Running
  <2>3. PICK e : /\ WriteEffect(o, i, e)
                 /\ \/ rows[stores][e] # None
                    \/ e = o /\ ops'[o].st = "map"
                 /\ ops[o].st # "map"
    <3>1. Patch(o) => d \in Envelopes
      BY <2>1, <1>0, PatchWrites
    <3> QED BY <1>1, <1>2, <1>8, <2>1, <2>2, <3>1, PutEffect, PatchEffect
  <2>4. /\ \A f \in Envelopes : f # e => rows'[stores][f] = rows[stores][f]
        /\ rows[stores][e] # None => ~rows[stores][e].dead
        /\ ops'[o].seen = None /\ index' = index
    BY <2>3 DEF WriteEffect
  <2>5. ASSUME NEW f \in Live(rows'[stores]) PROVE IndexRow(f)'
    <3>1. CASE f \in Live(rows[stores])
      BY <1>2, <2>3, <2>4, <3>1, RowAside
    <3>2. CASE f \notin Live(rows[stores])
      <4>1. f = e /\ rows[stores][e] = None
        BY <2>4, <3>2 DEF Live
      <4>2. Coming(f)'
        BY <2>3, <4>1 DEF Coming
      <4> QED BY <4>2 DEF IndexRow, Placed
    <3> QED BY <3>1, <3>2
  <2> QED BY <1>3, <2>4, <2>5
<1>9. CASE MapEnvelope(o)
  <2>1. MapEffect(o, i) /\ rows' = rows
    BY <1>1, <1>9, MapDoes DEF MapEffect
  <2>2. /\ ops[o].st = "map" /\ Running(o) /\ ops'[o].st = "done" /\ ops'[o].seen = None /\ index[stores] # None
        /\ index'[stores] # None /\ index'[stores].of[i] = o /\ \A j \in Ids : j # i => index'[stores].of[j] = index[stores].of[j]
        /\ listing # None => listing.seen[o] # None
    BY <2>1 DEF MapEffect
  <2>3. o \in Alive(i) /\ Alive(i) = {o}
    <3>1. o \in Alive(i)
      BY <1>1, <2>2, CalmParts DEF CallInv, CallHolds
    <3> QED BY <1>0, <1>2, <3>1, Alone, CalmParts
  <2>4. o \in Envelopes /\ rows[stores][o] # None /\ rows[stores][o].doc.id = i
    BY <2>3, AliveIs
  <2>5. ASSUME NEW j \in Ids PROVE Filed(j)'
    <3>1. CASE j = i
      BY <1>2, <2>1, <2>2, <2>4, <3>1 DEF Filed
    <3>2. CASE j # i
      BY <1>2, <2>2, <3>2, FiledKept
    <3> QED BY <3>1, <3>2
  <2>6. ASSUME NEW e \in Live(rows[stores]) PROVE IndexRow(e)'
    <3>1. PICK j \in Ids : j = rows[stores][e].doc.id
      BY <1>0, RowFields DEF Live
    <3>2. CASE j = i
      <4>1. e = o
        <5>1. e \in Alive(i)
          BY <3>1, <3>2 DEF Alive, LiveOf
        <5> QED BY <2>3, <5>1
      <4>2. Found(e)'
        BY <1>2, <2>1, <2>2, <2>4, <4>1 DEF Found
      <4> QED BY <1>2, <2>2, <4>1, <4>2 DEF IndexRow, Placed
    <3>3. CASE j # i
      <4>1. e # o
        BY <2>4, <3>1, <3>3
      <4> QED BY <1>2, <2>2, <3>1, <3>3, <4>1, RowAside
    <3> QED BY <3>2, <3>3
  <2> QED BY <2>1, <2>5, <2>6
<1>10. CASE Bury(o)
  <2>1. PICK d : d = ops[o].env
    OBVIOUS
  <2>2. BuryEffect(o, i, d)
    BY <1>0, <1>1, <1>2, <1>10, <2>1, BuryWrites, BuryDoes
  <2>3. /\ ops[o].st = "bury" /\ ops'[o].seen = None /\ index[stores] # None /\ index'[stores] # None /\ Alive(i)' = {}
        /\ index'[stores].of[i] \in {None, index[stores].of[i]}
        /\ \A j \in Ids : j # i => index'[stores].of[j] = index[stores].of[j]
        /\ \A f \in Envelopes : f # d => rows'[stores][f] = rows[stores][f]
        /\ rows'[stores][d].dead
    BY <2>2 DEF BuryEffect
  <2>4. ASSUME NEW j \in Ids PROVE Filed(j)'
    BY <1>2, <2>3, FiledKept
  <2>5. ASSUME NEW e \in Live(rows'[stores]) PROVE IndexRow(e)'
    <3>1. e # d /\ e \in Live(rows[stores]) /\ rows'[stores][e] = rows[stores][e]
      BY <2>3 DEF Live
    <3>2. PICK j \in Ids : j = rows[stores][e].doc.id
      BY <1>0, <3>1, RowFields DEF Live
    <3>3. j # i
      <4>1. j = i => e \in Alive(i)'
        BY <1>2, <3>1, <3>2 DEF Alive, LiveOf
      <4> QED BY <2>3, <4>1
    <3> QED BY <1>2, <2>3, <3>1, <3>2, <3>3, RowAside
  <2> QED BY <2>4, <2>5
<1>11. CASE Finish(o) \/ Rejects(o)
  <2>1. rows' = rows /\ index' = index
    BY <1>11 DEF Finish, Rejects, held
  <2>2. ops[o].st # "map" /\ ops'[o].seen = None
    <3>1. CASE Finish(o)
      <4>1. FinishEffect(o, i)
        BY <1>0, <1>1, <1>2, <3>1, FinishDoes
      <4> QED BY <4>1 DEF FinishEffect, SettleEffect
    <3>2. CASE Rejects(o)
      <4>1. RejectEffect(o, i)
        BY <1>0, <1>1, <1>2, <3>2, RejectsDoes
      <4> QED BY <4>1 DEF RejectEffect, SettleEffect, Uncrossed
    <3> QED BY <1>11, <3>1, <3>2
  <2>3. ASSUME NEW e \in Live(rows[stores]) PROVE IndexRow(e)'
    BY <1>2, <2>1, <2>2, RowAside
  <2> QED BY <1>3, <2>1, <2>3
<1> QED BY <1>5, <1>6, <1>7, <1>8, <1>9, <1>10, <1>11 DEF Persist

\* Every step that crosses nothing keeps IndexInv.
LEMMA IndexStep ==
  ASSUME Calm, BaseInv', Uncrossed', [Next]_vars
  PROVE  IndexInv'
<1> SUFFICES ASSUME InUse'
             PROVE  /\ index'[stores'] # None => \A j \in Ids : Filed(j)'
                    /\ \A e \in Live(rows'[stores']) : IndexRow(e)'
  BY IndexIs
<1> DEFINE Goal == /\ index'[stores'] # None => \A j \in Ids : Filed(j)'
                   /\ \A e \in Live(rows'[stores']) : IndexRow(e)'
<1>0. TypeOK /\ ShapeInv /\ SessionInv
  BY CalmParts
<1>1. ASSUME NEW o \in Ops, Persist(o) PROVE Goal
  <2>1. PICK i : i = ops[o].id
    OBVIOUS
  <2>2. InUse /\ stores' = stores
    BY <1>1, <2>1, StepOf DEF OpStep, InUse
  <2> QED BY <1>1, <2>2, IndexOwn
<1>2. ASSUME NEW o \in Ops, NEW kind \in Kinds, NEW i \in Ids, Issue(o, kind, i) PROVE Goal
  <2>1. IssueEffect(o, kind, i)
    BY <1>0, <1>2, IssueDoes
  <2>2. OpStep(o, i) /\ UNCHANGED <<rows, index>> /\ ops[o].st # "map" /\ ops'[o].seen = None
    BY <2>1, IssueIsStep DEF IssueEffect
  <2>3. InUse /\ stores' = stores
    BY <2>2 DEF OpStep, InUse
  <2>4. ASSUME NEW j \in Ids, index'[stores] # None PROVE Filed(j)'
    BY <2>2, <2>3, <2>4, FiledKept
  <2>5. ASSUME NEW e \in Live(rows[stores]) PROVE IndexRow(e)'
    BY <2>2, <2>3, RowAside
  <2> QED BY <2>2, <2>3, <2>4, <2>5
\* The steps that leave the calls, the index and the replica alone.
<1>3. ASSUME UNCHANGED <<ops, rows, index, stores, listing>>, InUse, \A e \in Pulls : Unlisted(e) => Unlisted(e)' PROVE Goal
  <2>1. ASSUME NEW j \in Ids, index'[stores] # None PROVE Filed(j)'
    BY <1>3, <2>1, FiledKept
  <2>2. ASSUME NEW e \in Live(rows[stores]) PROVE IndexRow(e)'
    <3>1. Found(e) => Found(e)'
      BY <1>3 DEF Found
    <3>2. Found(e) => Placed(e)'
      BY <3>1 DEF Placed
    <3>3. Coming(e) => Coming(e)'
      BY <1>3 DEF Coming
    <3>4. Unlisted(e) => Unlisted(e)'
      BY <1>3 DEF Unlisted
    <3>5. \A b \in Ops : ops'[b].seen = ops[b].seen
      BY <1>3
    <3> QED BY <1>3, <3>2, <3>3, <3>4, <3>5, RowKept
  <2> QED BY <1>3, <2>1, <2>2
<1>4. CASE Flush \/ EndSwap \/ UNCHANGED vars
  <2>1. UNCHANGED <<ops, rows, index, stores, listing, attached, closing, timer, events>>
    BY <1>4 DEF Flush, EndSwap, vars, held, lives, feed
  <2>2. InUse /\ \A e \in Pulls : Unlisted(e) => Unlisted(e)'
    BY <2>1 DEF InUse, Unlisted, Announced
  <2> QED BY <1>3, <2>1, <2>2
<1>5. ASSUME NEW c \in events, Undecodable(c) PROVE Goal
  <2>1. UNCHANGED <<ops, rows, index, stores, listing, attached, closing>> /\ timer' = TRUE
    BY <1>5 DEF Undecodable, held, lives
  <2>2. InUse /\ \A e \in Pulls : Unlisted(e) => Unlisted(e)'
    BY <2>1 DEF InUse, Unlisted
  <2> QED BY <1>3, <2>1, <2>2
<1>6. ASSUME NEW swaps \in BOOLEAN, Detach(swaps) PROVE Goal
  <2>1. UNCHANGED <<ops, rows, index, stores, listing>> /\ attached # 0 /\ attached' = 0
    BY <1>6 DEF Detach, held
  <2>2. InUse /\ \A e \in Pulls : Unlisted(e) => Unlisted(e)'
    BY <2>1 DEF InUse, Unlisted
  <2> QED BY <1>3, <2>1, <2>2
<1>7. CASE CloseAndClear
  <2>1. ~InUse'
    BY <1>0, <1>7 DEF CloseAndClear, InUse, SessionInv
  <2> QED BY <2>1
<1>8. CASE Rehydrate
  <2>1. UNCHANGED <<ops, rows, index, stores, attached, closing, events>> /\ attached # 0 /\ listing = None /\ listing' # None
        /\ listing'.seen = rows[stores]
    <3>1. UNCHANGED <<ops, rows, index, stores, attached, closing, events>> /\ attached # 0 /\ listing = None
          /\ listing' = [store |-> attached, seen |-> rows[attached]]
      BY <1>8 DEF Rehydrate, held, lives, feed
    <3>2. attached = stores
      BY <1>0, <3>1 DEF SessionInv
    <3>3. stores \in Nat /\ rows[stores] \in Listing
      <4>1. InUse
        BY <3>1 DEF InUse
      <4> QED BY <1>0, <4>1, InUseHasReplica DEF Calm, TypeOK
    <3>4. listing' \in Listed
      BY <3>1, <3>2, <3>3 DEF Listed
    <3> QED BY <3>1, <3>2, <3>4, NoneIsApart
  <2>2. InUse
    BY <2>1 DEF InUse
  <2>3. ASSUME NEW j \in Ids, index'[stores] # None PROVE Filed(j)'
    BY <2>1, <2>2, <2>3, FiledKept
  <2>4. ASSUME NEW e \in Live(rows[stores]) PROVE IndexRow(e)'
    <3>1. IndexRow(e)
      BY <2>2, IndexParted
    <3>2. listing'.seen[e] # None
      BY <2>1 DEF Live
    <3>3. Placed(e) => Placed(e)'
      <4>1. Found(e) => Found(e)'
        BY <2>1 DEF Found
      <4>2. Coming(e) => Coming(e)'
        BY <2>1 DEF Coming
      <4>3. Unlisted(e) => InListing(e)'
        BY <2>1, <3>2 DEF Unlisted, InListing
      <4>4. ~InListing(e)
        BY <2>1 DEF InListing
      <4> QED BY <4>1, <4>2, <4>3, <4>4 DEF Placed
    <3> QED BY <2>1, <3>1, <3>2, <3>3 DEF IndexRow
  <2> QED BY <2>1, <2>3, <2>4
<1>9. CASE Hydrated
  <2>1. PICK seen : seen = listing.seen
    OBVIOUS
  <2>2. HydrateEffect(seen)
    BY <1>9, <2>1, HydrateDoes
  <2>3. /\ UNCHANGED <<ops, rows, stores, attached, closing, timer, events>> /\ listing # None /\ listing' = None /\ InUse
        /\ index'[stores] # None
    BY <2>2 DEF HydrateEffect
  <2>4. ReadOf(seen)
    BY <2>1, <2>3, CalmParts DEF RowInv
  <2>5. (\A j \in Ids : Filed(j)') /\ \A e \in Live(rows[stores]) : seen[e] # None => Found(e)'
    BY <2>2, <2>3, <2>4, IndexListed DEF HydrateEffect
  <2>6. ASSUME NEW e \in Live(rows[stores]) PROVE IndexRow(e)'
    <3>1. IndexRow(e)
      BY <2>3, IndexParted
    <3>2. Placed(e)'
      <4>1. Coming(e) => Coming(e)'
        BY <2>3 DEF Coming
      <4>2. Unlisted(e) => Unlisted(e)'
        BY <2>3 DEF Unlisted, Announced
      <4> QED BY <2>1, <2>3, <2>5, <3>1, <4>1, <4>2 DEF IndexRow, Placed
    <3> QED BY <2>3, <3>2 DEF IndexRow
  <2> QED BY <2>3, <2>5, <2>6
<1>10. CASE Attach
  <2>1. stores' = stores + 1 /\ stores + 1 \in 1..MaxStores /\ index' = index /\ ops' = ops /\ listing'.seen = rows'[stores'] /\ stores + 1 > stores
    BY <1>0, <1>10, ConstantsOK DEF Attach, held, ConstantsOK, TypeOK
  <2>2. index'[stores'] = None
    BY <1>0, <2>1 DEF SessionInv
  <2>3. \A b \in Ops : ops'[b].seen = None
    <3>1. \A b \in Ops : ~Running(b)
      BY <1>10, RunsHere DEF Attach, InUse
    <3> QED BY <1>0, <2>1, <3>1 DEF ShapeInv, CallShape, Running
  <2>4. ASSUME NEW e \in Live(rows'[stores']) PROVE IndexRow(e)'
    BY <2>1, <2>2, <2>3 DEF IndexRow, Live
  <2> QED BY <2>2, <2>4
<1>11. ASSUME NEW p \in Pulls, Pull(p) PROVE Goal
  <2>1. PICK x \in Envelopes, i \in Ids, doc \in Docs, dead \in BOOLEAN, c \in Change : PullEffect(p, x, i, doc, dead, c)
    BY <1>11, PullDoes
  <2>2. /\ UNCHANGED <<ops, index, stores, listing, attached, closing, timer>> /\ InUse /\ stores \in 1..MaxStores
        /\ events' = events \cup {c} /\ c = [store |-> stores, env |-> x, doc |-> doc, dead |-> dead]
        /\ \A d \in Envelopes : d # x => rows'[stores][d] = rows[stores][d]
        /\ index[stores] # None
    BY <2>1 DEF PullEffect
  <2>3. ASSUME NEW j \in Ids PROVE Filed(j)'
    BY <2>2, FiledKept
  <2>4. ASSUME NEW e \in Live(rows'[stores]) PROVE IndexRow(e)'
    <3>1. CASE e \in Live(rows[stores])
      <4>1. rows'[stores][e].doc.id = rows[stores][e].doc.id
        BY <2>2, <3>1, IndexParted, RowsAdvance DEF RowsGo, Live
      <4>2. Found(e) => Placed(e)'
        BY <2>2, <4>1 DEF Found, Placed
      <4>3. Coming(e) => Coming(e)'
        BY <2>2 DEF Coming
      <4>4. Unlisted(e) => Unlisted(e)'
        BY <2>2 DEF Unlisted, Announced
      <4>5. \A b \in Ops : ops'[b].seen = ops[b].seen
        BY <2>2
      <4> QED BY <2>2, <3>1, <4>2, <4>3, <4>4, <4>5, RowKept
    <3>2. CASE e \notin Live(rows[stores])
      <4>1. e = x
        BY <2>2, <3>2 DEF Live
      <4>2. x \notin Alive(i)
        BY <3>2, <4>1, AliveIs DEF Live
      <4>3. x = p /\ ~dead
        BY <2>1, <4>2 DEF PullEffect, PullNew, PullLive, PullDead
      <4>4. c \in events' /\ c.store = stores /\ c.env = e /\ ~c.dead /\ stores' = stores
        BY <2>2, <4>1, <4>3
      <4>5. Announced(e)'
        BY <4>4 DEF Announced
      <4>6. Unlisted(e)'
        BY <4>1, <4>3, <4>5 DEF Unlisted
      <4> QED BY <4>6 DEF IndexRow, Placed
    <3> QED BY <3>1, <3>2
  <2> QED BY <2>2, <2>3, <2>4
<1>12. ASSUME NEW c \in events, Deliver(c) PROVE Goal
  <2>1. PICK i : i = c.doc.id
    OBVIOUS
  <2>2. DeliverEffect(c, i)
    BY <1>12, <2>1, DeliverDoes
  <2>3. UNCHANGED <<ops, rows, stores, attached, closing, listing, timer>> /\ events' = events \ {c} /\ i \in Ids /\ c \in Change
    BY <2>2 DEF DeliverEffect
  <2>4. InUse
    BY <2>3 DEF InUse
  <2>5. CASE c.store # attached /\ UNCHANGED <<index, pending>>
    <3>1. \A e \in Pulls : Unlisted(e) => Unlisted(e)'
      <4>1. attached # 0 => c.store # stores
        BY <1>0, <2>5 DEF SessionInv
      <4> QED BY <2>3, <4>1 DEF Unlisted, Announced
    <3> QED BY <1>3, <2>3, <2>4, <2>5, <3>1
  <2>6. CASE StaleTombstone(c) /\ UNCHANGED <<index, pending>>
    <3>1. \A e \in Pulls : Unlisted(e) => Unlisted(e)'
      BY <2>3, <2>6 DEF Unlisted, Announced, StaleTombstone
    <3> QED BY <1>3, <2>3, <2>4, <2>6, <3>1
  <2>7. CASE /\ c.store = attached /\ attached = stores /\ stores \in 1..MaxStores /\ listing = None
             /\ index[stores] # None /\ index'[stores] # None
             /\ index'[stores].of[i] = (IF c.dead THEN None ELSE c.env)
             /\ \A j \in Ids : j # i => index'[stores].of[j] = index[stores].of[j]
             /\ c \in Out(i)
    <3>1. EventHolds(i) /\ c.env \in Envelopes
      BY <1>0, <2>3, <2>4, CalmParts, Events DEF EventInv
    <3>2. rows[stores][c.env] # None /\ rows[stores][c.env].doc.id = i /\ (c.dead => Alive(i) = {}) /\ (~c.dead => c.env \in Alive(i))
      BY <2>7, <3>1 DEF EventHolds
    <3>3. ASSUME NEW j \in Ids PROVE Filed(j)'
      <4>1. CASE j = i /\ ~c.dead
        BY <2>3, <2>7, <3>2, <4>1 DEF Filed
      <4>2. CASE j # i \/ c.dead
        BY <2>3, <2>4, <2>7, <4>2, FiledKept
      <4> QED BY <4>1, <4>2
    <3>4. ASSUME NEW e \in Live(rows[stores]) PROVE IndexRow(e)'
      <4>1. PICK j \in Ids : j = rows[stores][e].doc.id
        BY <1>0, <2>7, RowFields DEF Live
      <4>2. CASE j = i
        <5>1. e \in Alive(i)
          BY <4>1, <4>2, AliveIs DEF Live
        <5>2. e = c.env /\ ~c.dead
          BY <1>0, <2>3, <2>7, <3>2, <5>1, Alone, CalmParts
        <5>3. Found(e)'
          BY <2>3, <2>7, <4>1, <4>2, <5>2 DEF Found
        <5> QED BY <2>3, <2>7, <5>3 DEF IndexRow, Placed
      <4>3. CASE j # i
        <5>1. c.env # e
          BY <3>2, <4>1, <4>3
        <5>2. Unlisted(e) => Unlisted(e)'
          BY <2>3, <5>1 DEF Unlisted, Announced
        <5>3. Found(e) => Placed(e)'
          BY <2>3, <2>7, <4>1, <4>3 DEF Found, Placed
        <5>4. Coming(e) => Coming(e)'
          BY <2>3 DEF Coming
        <5>5. \A b \in Ops : ops'[b].seen = ops[b].seen
          BY <2>3
        <5> QED BY <2>3, <2>4, <2>7, <5>2, <5>3, <5>4, <5>5, RowKept
      <4> QED BY <4>2, <4>3
    <3> QED BY <2>3, <3>3, <3>4
  <2> QED BY <2>2, <2>5, <2>6, <2>7 DEF DeliverEffect
<1> QED BY <1>1, <1>2, <1>4, <1>5, <1>6, <1>7, <1>8, <1>9, <1>10, <1>11, <1>12 DEF Next

(***************************************************************************)
(* The events outstanding                                                  *)
(***************************************************************************)
\* What the events of a document must satisfy after a step, read part by part.
LEMMA EventIs ==
  ASSUME NEW i \in Ids,
         \A c \in Out(i)' : rows'[stores'][c.env] # None /\ rows'[stores'][c.env].doc.id = i,
         \A c \in Out(i)' : c.dead => Alive(i)' = {} /\ inFlight'[i] = None /\ Out(i)' = {c},
         \A c \in Out(i)' : ~c.dead => c.env \in Alive(i)' /\ c.doc.src \in Pulls,
         inFlight'[i] # None => /\ (\E k \in DOMAIN Queue(i)' : ops'[Queue(i)'[k]].kind = "remove") => Out(i)' = {}
                                /\ ~inFlight'[i].moved => Out(i)' = {}
                                /\ \A c \in Out(i)' : inFlight'[i].latest # None /\ ~Wins(c.doc, inFlight'[i].latest),
         inFlight'[i] = None => \A c \in Out(i)', e \in Alive(i)' :
            c.doc = rows'[stores'][e].doc \/ Wins(rows'[stores'][e].doc, c.doc)
  PROVE  EventHolds(i)'
<1>1. \A c : Wins(c.doc, inFlight[i].latest)' <=> Wins(c.doc, inFlight'[i].latest)
  BY DEF Wins
<1>2. \A c, e : Wins(rows[stores][e].doc, c.doc)' <=> Wins(rows'[stores'][e].doc, c.doc)
  BY DEF Wins
<1> QED BY <1>1, <1>2 DEF EventHolds, Writes

\* A document with no event outstanding relies on none.
LEMMA EventVoid ==
  ASSUME NEW i \in Ids, Out(i)' = {}
  PROVE  EventHolds(i)'
BY EventIs

\* A step that leaves the calls and a document alone, and adds no event.
LEMMA EventStill ==
  ASSUME Calm, InUse, UNCHANGED <<ops, rows, stores>>, NEW i \in Ids, Out(i)' \subseteq Out(i),
         SameEntry(i)
  PROVE  EventHolds(i)'
<1>1. CallsKeep /\ Untouched(i)
  BY DEF CallsKeep, Untouched
<1>2. EventHolds(i)
  BY CalmParts DEF EventInv
<1> QED BY <1>1, <1>2, EventFrame, CalmParts

\* The events of the document of a call, after its own step.
LEMMA EventOwn ==
  ASSUME Calm, BaseInv', Uncrossed', InUse, NEW o \in Ops, Persist(o), NEW i, i = ops[o].id
  PROVE  EventHolds(i)'
<1>0. TypeOK /\ ShapeInv
  BY CalmParts
<1>1. OpStep(o, i) /\ i \in Ids /\ stores' = stores
  BY StepOf DEF OpStep
<1>2. CallsKeep /\ Out(i)' = Out(i)
  BY <1>1, Aside
<1>3. EventHolds(i)
  BY <1>1, CalmParts DEF EventInv
<1>4. CASE rows' = rows /\ inFlight' = inFlight
  <2>1. SameEntry(i)
    BY <1>4 DEF SameEntry, Queue
  <2>2. Untouched(i)
    BY <1>1, <1>4 DEF Untouched
  <2> QED BY <1>0, <1>1, <1>2, <1>3, <2>1, <2>2, EventFrame
<1>5. CASE Start(o) \/ ListForIndex(o) \/ SetIndex(o) \/ MapEnvelope(o)
  BY <1>0, <1>4, <1>5, MoveDoes DEF MoveEffect
<1>6. CASE Look(o)
  BY <1>0, <1>4, <1>6, LookDoes DEF MoveEffect, LookEffect
<1>7. CASE Put(o) \/ Patch(o)
  <2>1. PICK d : d = ops[o].env
    OBVIOUS
  <2>2. Running(o)
    BY <1>7 DEF Put, Patch, Running
  <2>3. PICK e : WriteEffect(o, i, e)
    <3>1. Patch(o) => d \in Envelopes
      BY <2>1, <1>0, PatchWrites
    <3> QED BY <1>1, <1>7, <2>1, <2>2, <3>1, PutEffect, PatchEffect
  <2>4. /\ inFlight' = inFlight /\ inFlight[i] # None /\ Alive(i) \subseteq {e} /\ Alive(i)' = {e} /\ e \in Envelopes
        /\ rows'[stores][e] # None /\ rows'[stores][e].doc.id = i
    BY <2>3 DEF WriteEffect, MoveEffect
  <2>5. \A c \in Out(i) : ~c.dead /\ c.env = e /\ c.doc.src \in Pulls
    BY <1>3, <2>4 DEF EventHolds
  <2>6. \A k \in DOMAIN Queue(i) : ops'[Queue(i)[k]].kind = ops[Queue(i)[k]].kind
    BY <1>0, <1>1, <1>2, <2>4, EntryAt DEF CallsKeep, Busy
  <2>7. Queue(i)' = Queue(i)
    BY <2>4 DEF Queue
  <2>8. /\ (\E k \in DOMAIN Queue(i)' : ops'[Queue(i)'[k]].kind = "remove") => Out(i)' = {}
        /\ ~inFlight'[i].moved => Out(i)' = {}
        /\ \A c \in Out(i)' : inFlight'[i].latest # None /\ ~Wins(c.doc, inFlight'[i].latest)
    BY <1>2, <1>3, <2>4, <2>6, <2>7 DEF EventHolds, Writes
  <2> QED BY <1>1, <1>2, <2>4, <2>5, <2>8, EventIs
<1>8. CASE Bury(o)
  <2>1. Running(o) /\ ~Writes(o)
    BY <1>0, <1>8 DEF Bury, Running, ShapeInv, CallShape
  <2>2. 1 \in DOMAIN Queue(i) /\ Queue(i)[1] = o /\ inFlight[i] # None
    BY <2>1, RunsHere
  <2>3. Out(i) = {}
    BY <1>3, <2>1, <2>2 DEF EventHolds
  <2> QED BY <1>1, <1>2, <2>3, EventVoid
<1>9. CASE Finish(o)
  <2>1. FinishEffect(o, i)
    BY <1>0, <1>1, <1>9, FinishDoes
  <2>2. Running(o) /\ ops[o].st = "done"
    BY <2>1 DEF FinishEffect, Running
  <2>3. 1 \in DOMAIN Queue(i) /\ Queue(i)[1] = o /\ inFlight[i] # None
    BY <2>2, RunsHere
  <2>4. CASE ~Writes(o)
    <3>1. Out(i) = {}
      BY <1>3, <2>3, <2>4 DEF EventHolds
    <3> QED BY <1>1, <1>2, <3>1, EventVoid
  <2>5. CASE Writes(o)
    <3>1. SettleEffect(o, i, "acked", inFlight[i].latest, ops[o].doc, byId[i])
      BY <2>1, <2>5 DEF FinishEffect
    <3>2. /\ rows' = rows /\ (inFlight'[i] = None <=> Len(Queue(i)) = 1)
          /\ inFlight'[i] # None => /\ Queue(i)' = Tail(Queue(i)) /\ inFlight'[i].moved = inFlight[i].moved
                                    /\ inFlight'[i].latest = inFlight[i].latest
      BY <3>1 DEF SettleEffect
    <3>3. Alive(i)' = Alive(i)
      BY <1>1, <3>2 DEF Alive
    <3>4. \A c \in Out(i) : /\ ~c.dead /\ c.env \in Alive(i) /\ c.doc.src \in Pulls /\ rows[stores][c.env] # None
                            /\ rows[stores][c.env].doc.id = i /\ inFlight[i].latest # None /\ ~Wins(c.doc, inFlight[i].latest)
      BY <1>3, <2>3 DEF EventHolds
    <3>5. /\ Queue(i) \in Seq(Ops) /\ Queue(i) # <<>> /\ Len(Queue(i)) \in Nat /\ DOMAIN Queue(i) = 1..Len(Queue(i))
          /\ \A k \in DOMAIN Queue(i) : Queue(i)[k] \in Ops /\ Busy(Queue(i)[k])
      BY <1>0, <1>1, <2>3, EntryAt
    <3>6. ASSUME inFlight'[i] # None
          PROVE  /\ (\E k \in DOMAIN Queue(i)' : ops'[Queue(i)'[k]].kind = "remove") => Out(i)' = {}
                 /\ ~inFlight'[i].moved => Out(i)' = {}
                 /\ \A c \in Out(i)' : inFlight'[i].latest # None /\ ~Wins(c.doc, inFlight'[i].latest)
      <4>1. \A k \in DOMAIN Tail(Queue(i)) : k + 1 \in DOMAIN Queue(i) /\ Tail(Queue(i))[k] = Queue(i)[k + 1]
        BY <3>5
      <4>2. \A k \in DOMAIN Queue(i) : ops'[Queue(i)[k]].kind = ops[Queue(i)[k]].kind
        BY <1>2, <3>5 DEF CallsKeep, Busy
      <4>3. ASSUME NEW k \in DOMAIN Queue(i)', ops'[Queue(i)'[k]].kind = "remove" PROVE Out(i)' = {}
        <5>1. k + 1 \in DOMAIN Queue(i) /\ Queue(i)'[k] = Queue(i)[k + 1]
          BY <3>2, <3>6, <4>1, <4>3
        <5>2. ~Writes(Queue(i)[k + 1])
          BY <4>2, <4>3, <5>1 DEF Writes
        <5> QED BY <1>2, <1>3, <2>3, <5>1, <5>2 DEF EventHolds
      <4>4. ~inFlight'[i].moved => Out(i)' = {}
        BY <1>2, <1>3, <2>3, <3>2, <3>6 DEF EventHolds
      <4> QED BY <1>2, <3>2, <3>4, <3>6, <4>3, <4>4
    <3>7. ASSUME inFlight'[i] = None, NEW c \in Out(i)', NEW e \in Alive(i)'
          PROVE  c.doc = rows'[stores'][e].doc \/ Wins(rows'[stores'][e].doc, c.doc)
      <4>1. Len(Queue(i)) = 1
        BY <3>2, <3>7
      <4>2. LastWrite(i, o)
        <5>1. \A j \in DOMAIN Queue(i) : ~(j > 1)
          BY <3>5, <4>1
        <5> QED BY <2>3, <2>5, <5>1 DEF LastWrite
      <4>3. inFlight[i].latest = ops[o].doc /\ Shown(i) = ops[o].doc
        <5>1. EntryHolds(i)
          BY <1>1, <2>3, CalmParts DEF EntryInv
        <5> QED BY <2>2, <4>2, <5>1 DEF EntryHolds
      <4>4. e \in Alive(i) /\ c \in Out(i) /\ stores \in 1..MaxStores
        BY <1>2, <2>2, <3>3, <3>7, RunsHere
      <4>5. rows[stores][e].doc = ops[o].doc
        BY <1>0, <1>1, <4>3, <4>4, Alone, CalmParts
      <4>6. c.doc \in Docs /\ c.doc.src \in Pulls /\ ~Wins(c.doc, ops[o].doc)
        BY <1>0, <1>1, <3>4, <4>3, <4>4, OutIs
      <4>7. ops[o].doc \in Docs /\ ops[o].doc.src \in Ops
        BY <2>2, <2>5, RunsHere
      <4>8. Wins(ops[o].doc, c.doc)
        BY <4>6, <4>7, WinsOrder
      <4> QED BY <1>1, <3>2, <4>5, <4>8
    <3>8. \A c \in Out(i)' : /\ rows'[stores'][c.env] # None /\ rows'[stores'][c.env].doc.id = i /\ ~c.dead
                             /\ c.env \in Alive(i)' /\ c.doc.src \in Pulls
      BY <1>1, <1>2, <3>2, <3>3, <3>4
    <3> QED BY <1>1, <3>6, <3>7, <3>8, EventIs
  <2> QED BY <2>4, <2>5
<1>10. CASE Rejects(o)
  <2>1. RejectEffect(o, i)
    BY <1>0, <1>1, <1>10, RejectsDoes
  <2>2. ~inFlight[i].moved /\ inFlight[i] # None
    BY <2>1 DEF RejectEffect, SettleEffect, Uncrossed
  <2>3. Out(i) = {}
    BY <1>3, <2>2 DEF EventHolds
  <2> QED BY <1>1, <1>2, <2>3, EventVoid
<1> QED BY <1>5, <1>6, <1>7, <1>8, <1>9, <1>10 DEF Persist

\* Issuing a call keeps EventHolds of its document.
LEMMA EventIssued ==
  ASSUME Calm, BaseInv', Uncrossed', InUse, NEW o \in Ops, NEW kind \in Kinds, NEW i \in Ids, Issue(o, kind, i)
  PROVE  EventHolds(i)'
<1>0. TypeOK /\ ShapeInv /\ EventHolds(i)
  BY CalmParts DEF EventInv
<1>1. IssueEffect(o, kind, i)
  BY <1>0, IssueDoes
<1>2. OpStep(o, i) /\ UNCHANGED rows /\ stores' = stores
  BY <1>1, IssueIsStep DEF IssueEffect
<1>3. Out(i)' = Out(i) /\ CallsKeep /\ Alive(i)' = Alive(i)
  BY <1>2, Aside DEF Alive
<1>4. (kind = "remove" => Outstanding(i) = {}) /\ (\A c \in Outstanding(i) : ~c.dead) /\ Out(i) \subseteq Outstanding(i)
  BY IssueCrosses DEF Out
<1>5. CASE kind = "remove"
  BY <1>3, <1>4, <1>5, EventVoid
<1>6. CASE kind # "remove"
  <2>1. /\ ops'[o].kind = kind /\ ops'[o].doc \in Docs /\ ops'[o].doc.ts = clock + 1 /\ inFlight'[i].latest = ops'[o].doc /\ inFlight'[i] # None
        /\ inFlight[i] # None => Queue(i)' = Append(Queue(i), o) /\ inFlight'[i].moved = inFlight[i].moved
        /\ inFlight[i] = None => /\ DOMAIN Queue(i)' = {1} /\ Queue(i)'[1] = o
                                 /\ inFlight'[i].moved = (Outstanding(i) # {})
    BY <1>1, <1>6 DEF IssueEffect
  <2>2. \A c \in Out(i) : ~Wins(c.doc, ops'[o].doc)
    <3> SUFFICES ASSUME NEW c \in Out(i) PROVE ~Wins(c.doc, ops'[o].doc)
      OBVIOUS
    <3>1. c.doc \in Docs /\ c.doc.ts <= clock
      BY <1>0, OutIs, CalmParts DEF StampInv, Out, Outstanding
    <3>2. c.doc.ts < ops'[o].doc.ts
      BY <1>0, <2>1, <3>1 DEF TypeOK, Docs
    <3> QED BY <2>1, <3>1, <3>2, WinsOrder
  <2>3. \A c \in Out(i) : ~c.dead /\ c.env \in Alive(i) /\ c.doc.src \in Pulls /\ rows[stores][c.env] # None /\ rows[stores][c.env].doc.id = i
    BY <1>0, <1>4 DEF EventHolds
  <2>4. ASSUME NEW k \in DOMAIN Queue(i)', ops'[Queue(i)'[k]].kind = "remove" PROVE Out(i)' = {}
    <3>1. CASE inFlight[i] = None
      BY <1>6, <2>1, <2>4, <3>1
    <3>2. CASE inFlight[i] # None
      <4>1. /\ Queue(i) \in Seq(Ops) /\ Len(Queue(i)) \in Nat /\ DOMAIN Queue(i) = 1..Len(Queue(i))
            /\ \A n \in DOMAIN Queue(i) : Queue(i)[n] \in Ops /\ Busy(Queue(i)[n])
        BY <1>0, <3>2, EntryAt
      <4>2. k \in DOMAIN Queue(i) /\ Queue(i)'[k] = Queue(i)[k]
        BY <1>6, <2>1, <2>4, <3>2, <4>1
      <4>3. ~Writes(Queue(i)[k])
        BY <1>3, <2>4, <4>1, <4>2 DEF CallsKeep, Busy, Writes
      <4> QED BY <1>0, <1>3, <3>2, <4>2, <4>3 DEF EventHolds
    <3> QED BY <3>1, <3>2
  <2>5. ~inFlight'[i].moved => Out(i)' = {}
    <3>1. CASE inFlight[i] = None
      BY <1>3, <1>4, <2>1, <3>1
    <3>2. CASE inFlight[i] # None
      BY <1>0, <1>3, <2>1, <3>2 DEF EventHolds
    <3> QED BY <3>1, <3>2
  <2>6. \A c \in Out(i)' : inFlight'[i].latest # None /\ ~Wins(c.doc, inFlight'[i].latest)
    BY <1>3, <2>1, <2>2, NoneIsApart
  <2>7. \A c \in Out(i)' : /\ rows'[stores'][c.env] # None /\ rows'[stores'][c.env].doc.id = i /\ ~c.dead
                           /\ c.env \in Alive(i)' /\ c.doc.src \in Pulls
    BY <1>2, <1>3, <2>3
  <2> QED BY <2>1, <2>4, <2>5, <2>6, <2>7, EventIs
<1> QED BY <1>5, <1>6

\* A pull keeps EventHolds of its document.
LEMMA EventPulled ==
  ASSUME Calm, BaseInv', InUse, NEW p, NEW e, NEW i, NEW doc, NEW dead, NEW c, PullEffect(p, e, i, doc, dead, c)
  PROVE  EventHolds(i)'
<1>0. TypeOK /\ ShapeInv
  BY CalmParts
<1>1. /\ i \in Ids /\ e \in Envelopes /\ stores \in 1..MaxStores /\ Out(i)' = Out(i) \cup {c} /\ ops' = ops /\ stores' = stores /\ p \in Pulls
      /\ rows'[stores][e].doc = doc /\ rows'[stores][e] # None /\ rows'[stores][e].doc.id = i /\ doc \in Docs
      /\ c.env = e /\ c.doc = doc /\ c.dead = dead
      /\ inFlight'[i] = None <=> inFlight[i] = None
      /\ inFlight[i] # None => /\ Queue(i)' = Queue(i) /\ inFlight'[i].latest = inFlight[i].latest /\ inFlight'[i].moved = TRUE
  BY DEF PullEffect
<1>2. EventHolds(i)
  BY <1>1, CalmParts DEF EventInv
<1>3. CASE PullNew(p, e, i, doc, dead)
  <2>1. ~dead /\ e = p /\ doc.src = p /\ Alive(i)' = {e} /\ Out(i)' = {c} /\ inFlight'[i] = None
    BY <1>1, <1>3 DEF PullNew
  <2> QED BY <1>1, <2>1, EventIs
<1>4. CASE PullDead(e, i, doc, dead)
  <2>1. dead /\ Alive(i)' = {} /\ Out(i)' = {c} /\ inFlight'[i] = None
    BY <1>1, <1>4 DEF PullDead
  <2> QED BY <1>1, <2>1, EventIs
<1>5. CASE PullLive(p, e, i, doc, dead)
  <2>1. /\ ~dead /\ doc.src = p /\ Alive(i) = {e} /\ Alive(i)' = {e} /\ Wins(doc, rows[stores][e].doc) /\ rows[stores][e] # None
        /\ \A x \in Out(i) : ~x.dead
        /\ inFlight[i] # None => /\ \A k \in DOMAIN Queue(i) : Writes(Queue(i)[k])
                                 /\ inFlight[i].latest = None \/ ~Wins(doc, inFlight[i].latest)
    BY <1>5 DEF PullLive
  <2>2. \A x \in Out(i) : x.env = e /\ x.doc.src \in Pulls
    BY <1>2, <2>1 DEF EventHolds
  <2>3. inFlight[i] # None => inFlight[i].latest # None
    <3> SUFFICES ASSUME inFlight[i] # None PROVE inFlight[i].latest # None
      OBVIOUS
    <3>1. 1 \in DOMAIN Queue(i) /\ Writes(Queue(i)[1])
      BY <1>0, <1>1, <2>1, EntryAt
    <3>2. PICK o \in Ops : LastWrite(i, o)
      BY <1>0, <1>1, <3>1, LastWriteExists
    <3>3. inFlight[i].latest = ops[o].doc /\ Writes(o)
      BY <1>1, <3>2, CalmParts DEF EntryInv, EntryHolds, LastWrite
    <3>4. Busy(o)
      BY <1>0, <1>1, <3>2, EntryAt DEF LastWrite
    <3> QED BY <1>0, <3>3, <3>4 DEF ShapeInv, CallShape, Busy
  <2>4. inFlight'[i] # None =>
          /\ (\E k \in DOMAIN Queue(i)' : ops'[Queue(i)'[k]].kind = "remove") => Out(i)' = {}
          /\ ~inFlight'[i].moved => Out(i)' = {}
          /\ \A x \in Out(i)' : inFlight'[i].latest # None /\ ~Wins(x.doc, inFlight'[i].latest)
    BY <1>1, <1>2, <2>1, <2>3 DEF EventHolds, Writes
  <2>5. ASSUME inFlight'[i] = None, NEW x \in Out(i)', NEW y \in Alive(i)'
        PROVE  x.doc = rows'[stores'][y].doc \/ Wins(rows'[stores'][y].doc, x.doc)
    <3>1. CASE x = c
      BY <1>1, <2>1, <2>5, <3>1
    <3>2. CASE x \in Out(i)
      <4>1. x.doc = rows[stores][e].doc \/ Wins(rows[stores][e].doc, x.doc)
        BY <1>1, <1>2, <2>1, <2>5, <3>2 DEF EventHolds
      <4>2. x.doc \in Docs /\ rows[stores][e].doc \in Docs
        BY <1>0, <1>1, <2>1, <3>2, OutIs, RowFields
      <4>3. Wins(doc, x.doc)
        BY <1>1, <2>1, <4>1, <4>2, WinsOrder
      <4> QED BY <1>1, <2>1, <2>5, <4>3
    <3> QED BY <1>1, <2>5, <3>1, <3>2
  <2>6. \A x \in Out(i)' : x.env = e /\ x.doc.src \in Pulls /\ ~x.dead
    BY <1>1, <2>1, <2>2
  <2> QED BY <1>1, <2>1, <2>4, <2>5, <2>6, EventIs
<1> QED BY <1>3, <1>4, <1>5 DEF PullEffect

\* Every step that crosses nothing keeps EventInv.
LEMMA EventStep ==
  ASSUME Calm, BaseInv', Uncrossed', [Next]_vars
  PROVE  EventInv'
<1> SUFFICES ASSUME InUse', NEW j \in Ids PROVE EventHolds(j)'
  BY DEF EventInv
<1>0. TypeOK /\ ShapeInv /\ SessionInv
  BY CalmParts
<1>1. ASSUME NEW o \in Ops, Persist(o) PROVE EventHolds(j)'
  <2>1. PICK i : i = ops[o].id
    OBVIOUS
  <2>2. OpStep(o, i) /\ i \in Ids
    BY <1>1, <2>1, StepOf DEF OpStep
  <2>3. InUse
    BY <2>2, Aside
  <2>4. j # i => EventHolds(j)'
    BY <2>2, AsideHolds
  <2> QED BY <1>1, <2>1, <2>3, <2>4, EventOwn
<1>2. ASSUME NEW o \in Ops, NEW kind \in Kinds, NEW i \in Ids, Issue(o, kind, i) PROVE EventHolds(j)'
  <2>1. OpStep(o, i)
    BY <1>0, <1>2, IssueDoes, IssueIsStep
  <2>2. InUse
    BY <2>1, Aside
  <2>3. j # i => EventHolds(j)'
    BY <2>1, AsideHolds
  <2> QED BY <1>2, <2>2, <2>3, EventIssued
<1>3. ASSUME NEW p \in Pulls, Pull(p) PROVE EventHolds(j)'
  <2>1. PICK e \in Envelopes, i \in Ids, doc \in Docs, dead \in BOOLEAN, c \in Change : PullEffect(p, e, i, doc, dead, c)
    BY <1>3, PullDoes
  <2>2. InUse
    BY <2>1 DEF PullEffect
  <2>3. CASE j # i
    <3>1. Out(j)' = Out(j) /\ Untouched(j) /\ inFlight'[j] = inFlight[j] /\ ops' = ops
      BY <2>1, <2>3 DEF PullEffect
    <3>2. CallsKeep /\ SameEntry(j)
      BY <3>1 DEF CallsKeep, SameEntry, Queue
    <3>3. EventHolds(j)
      BY <2>2, CalmParts DEF EventInv
    <3> QED BY <1>0, <3>1, <3>2, <3>3, EventFrame
  <2> QED BY <2>1, <2>2, <2>3, EventPulled
<1>4. ASSUME UNCHANGED <<ops, rows, stores, inFlight>>, InUse, Out(j)' \subseteq Out(j) PROVE EventHolds(j)'
  <2>1. SameEntry(j)
    BY <1>4 DEF SameEntry, Queue
  <2> QED BY <1>4, <2>1, EventStill
<1>5. CASE Rehydrate \/ EndSwap \/ UNCHANGED vars
  <2>1. UNCHANGED <<ops, rows, stores, inFlight, events, pending, attached, closing>>
    BY <1>5 DEF Rehydrate, EndSwap, vars, store, held, lives, feed
  <2>2. InUse /\ Out(j)' = Out(j)
    BY <2>1 DEF InUse, Out, Outstanding
  <2> QED BY <1>4, <2>1, <2>2
<1>6. ASSUME NEW swaps \in BOOLEAN, Detach(swaps) PROVE EventHolds(j)'
  <2>1. UNCHANGED <<ops, rows, stores, inFlight, events, pending>> /\ InUse
    BY <1>6 DEF Detach, store, held, feed, InUse
  <2>2. Out(j)' = Out(j)
    BY <2>1 DEF Out, Outstanding
  <2> QED BY <1>4, <2>1, <2>2
<1>7. CASE Flush
  <2>1. UNCHANGED <<ops, rows, stores, inFlight, events, attached, closing>> /\ pending' = <<>>
    BY <1>7 DEF Flush, held, lives, feed
  <2>2. InUse /\ Out(j)' \subseteq Out(j)
    <3>1. Range(<<>>) = {}
      BY DEF Range
    <3> QED BY <2>1, <3>1 DEF InUse, Out, Outstanding
  <2> QED BY <1>4, <2>1, <2>2
<1>8. ASSUME NEW c \in events, Undecodable(c) PROVE EventHolds(j)'
  <2>1. UNCHANGED <<ops, rows, stores, inFlight, pending, attached, closing>> /\ events' \subseteq events
    BY <1>8 DEF Undecodable, store, held, lives
  <2>2. InUse /\ Out(j)' \subseteq Out(j)
    BY <2>1 DEF InUse, Out, Outstanding
  <2> QED BY <1>4, <2>1, <2>2
<1>9. ASSUME NEW c \in events, Deliver(c) PROVE EventHolds(j)'
  <2>1. PICK i : i = c.doc.id
    OBVIOUS
  <2>2. DeliverEffect(c, i)
    BY <1>9, <2>1, DeliverDoes
  <2>3. UNCHANGED <<ops, rows, stores, inFlight>> /\ InUse /\ Out(j)' \subseteq Out(j)
    BY <2>2 DEF DeliverEffect, InUse
  <2> QED BY <1>4, <2>3
<1>10. CASE Hydrated
  <2>1. PICK seen : seen = listing.seen
    OBVIOUS
  <2>2. HydrateEffect(seen)
    BY <1>10, <2>1, HydrateDoes
  <2>3. SameEntry(j) /\ UNCHANGED <<ops, rows, stores, events, pending>> /\ InUse
    BY <2>2 DEF HydrateEffect, SameEntry
  <2>4. Out(j)' = Out(j)
    BY <2>3 DEF Out, Outstanding
  <2> QED BY <2>3, <2>4, EventStill
<1>11. CASE CloseAndClear
  BY <1>0, <1>11 DEF CloseAndClear, InUse, SessionInv
<1>12. CASE Attach
  <2>1. stores' = stores + 1 /\ UNCHANGED <<pending, events>> /\ ~InUse /\ stores \in Nat
    BY <1>0, <1>12, ConstantsOK DEF Attach, store, InUse, TypeOK, ConstantsOK
  <2>2. \A c \in events \cup Range(pending) : c.store \in 1..stores
    BY <1>0, <2>1 DEF SessionInv, Range
  <2>3. Out(j)' = {}
    BY <2>1, <2>2 DEF Out, Outstanding
  <2> QED BY <2>3, EventVoid
<1> QED BY <1>1, <1>2, <1>3, <1>5, <1>6, <1>7, <1>8, <1>9, <1>10, <1>11, <1>12 DEF Next

(***************************************************************************)
(* The entries of the queues                                               *)
(***************************************************************************)
\* What the entry of a document must satisfy after a step, read part by part.
LEMMA EntryIs ==
  ASSUME NEW i \in Ids,
         \A p \in Ops : LastWrite(i, p)' =>
           /\ inFlight'[i].latest = ops'[p].doc
           /\ \A e \in Envelopes : rows'[stores'][e] # None /\ rows'[stores'][e].doc.id = i =>
                ~Wins(rows'[stores'][e].doc, ops'[p].doc)
           /\ InUse' /\ ops'[p].st \in {"map", "done"} => Shown(i)' = ops'[p].doc,
         ~inFlight'[i].moved =>
           /\ (\A k \in DOMAIN Queue(i)' : ops'[Queue(i)'[k]].kind = "remove") => inFlight'[i].latest = inFlight'[i].confirmed
           /\ \A k \in DOMAIN Queue(i)', e \in Envelopes :
                ops'[Queue(i)'[k]].kind # "remove" /\ rows'[stores'][e] # None /\ rows'[stores'][e].doc.id = i =>
                  ~Wins(rows'[stores'][e].doc, ops'[Queue(i)'[k]].doc)
           /\ InUse' /\ ops'[Head(Queue(i)')].kind # "remove" /\ ops'[Head(Queue(i)')].st \in {"map", "done"}
                => Shown(i)' = ops'[Head(Queue(i)')].doc,
         Tracked(i)' => byId'[i] = inFlight'[i].latest,
         Tracked(i)' /\ ~inFlight'[i].moved /\ inFlight'[i].confirmed # None /\ inFlight'[i].confirmed.src \in Pulls =>
           \E e \in Envelopes : /\ rows'[stores'][e] # None /\ rows'[stores'][e].doc.id = inFlight'[i].confirmed.id
                                /\ ~Wins(inFlight'[i].confirmed, rows'[stores'][e].doc)
  PROVE  EntryHolds(i)'
<1>1. \A p, e : Wins(rows[stores][e].doc, ops[p].doc)' <=> Wins(rows'[stores'][e].doc, ops'[p].doc)
  BY DEF Wins
<1>2. Backed(inFlight[i].confirmed)' <=>
        \E e \in Envelopes : /\ rows'[stores'][e] # None /\ rows'[stores'][e].doc.id = inFlight'[i].confirmed.id
                             /\ ~Wins(inFlight'[i].confirmed, rows'[stores'][e].doc)
  BY DEF Backed, Wins
<1> QED BY <1>1, <1>2 DEF EntryHolds, Writes

\* What the last write of a queue is in the next state.
LEMMA LastWriteIs ==
  ASSUME NEW i \in Ids, NEW p \in Ops
  PROVE  LastWrite(i, p)' <=> \E k \in DOMAIN Queue(i)' :
           /\ Queue(i)'[k] = p /\ ops'[p].kind # "remove"
           /\ \A j \in DOMAIN Queue(i)' : j > k => ops'[Queue(i)'[j]].kind = "remove"
BY DEF LastWrite, Writes

\* The calls queued on a document, in the order they write.
LEMMA QueuedCalls ==
  ASSUME Calm, NEW i \in Ids, inFlight[i] # None
  PROVE  /\ EntryHolds(i) /\ Ordered(i) /\ 1 \in DOMAIN Queue(i) /\ Queue(i)[1] = Head(Queue(i))
         /\ stores \in 1..MaxStores
         /\ Len(Queue(i)) \in Nat /\ DOMAIN Queue(i) = 1..Len(Queue(i))
         /\ \A k \in DOMAIN Queue(i) : Queue(i)[k] \in Ops /\ Busy(Queue(i)[k]) /\ ops[Queue(i)[k]].id = i
         /\ \A k \in DOMAIN Queue(i) : k > 1 => ops[Queue(i)[k]].st = "queued"
         /\ \A k \in DOMAIN Queue(i) : Writes(Queue(i)[k]) =>
              /\ ops[Queue(i)[k]].doc \in Docs /\ ops[Queue(i)[k]].doc # None
              /\ ops[Queue(i)[k]].doc.src = Queue(i)[k]
         /\ \A k \in DOMAIN Queue(i) : Writes(Queue(i)[k]) => Writes(Queue(i)[1])
         /\ \A k \in DOMAIN Queue(i) : Writes(Queue(i)[k]) => ~Wins(ops[Queue(i)[1]].doc, ops[Queue(i)[k]].doc)
<1>0. TypeOK /\ ShapeInv /\ EntryHolds(i) /\ Ordered(i)
  BY CalmParts, QueueParted DEF EntryInv
<1>1. /\ 1 \in DOMAIN Queue(i) /\ Queue(i)[1] = Head(Queue(i)) /\ Len(Queue(i)) \in Nat /\ DOMAIN Queue(i) = 1..Len(Queue(i))
      /\ \A k \in DOMAIN Queue(i) : /\ Queue(i)[k] \in Ops /\ Busy(Queue(i)[k]) /\ ops[Queue(i)[k]].id = i
                                    /\ k > 1 => ops[Queue(i)[k]].st = "queued"
  BY <1>0, EntryAt
<1>2. \A k \in DOMAIN Queue(i) : Writes(Queue(i)[k]) =>
              /\ ops[Queue(i)[k]].doc \in Docs /\ ops[Queue(i)[k]].doc # None
              /\ ops[Queue(i)[k]].doc.src = Queue(i)[k]
  BY <1>0, <1>1, BusyCall DEF ShapeInv, CallShape, Busy
<1>3. ASSUME NEW k \in DOMAIN Queue(i), Writes(Queue(i)[k])
      PROVE  Writes(Queue(i)[1]) /\ ~Wins(ops[Queue(i)[1]].doc, ops[Queue(i)[k]].doc)
  <2>1. CASE k = 1
    BY <1>1, <1>2, <1>3, <2>1, WinsOrder
  <2>2. CASE k # 1
    <3>1. 1 < k
      BY <1>1, <2>2
    <3>2. Writes(Queue(i)[1]) /\ ops[Queue(i)[1]].doc.ts < ops[Queue(i)[k]].doc.ts
      BY <1>0, <1>1, <1>3, <3>1 DEF Ordered
    <3>3. ops[Queue(i)[1]].doc \in Docs /\ ops[Queue(i)[k]].doc \in Docs
      BY <1>1, <1>2, <1>3, <3>2
    <3> QED BY <3>2, <3>3, WinsOrder
  <2> QED BY <2>1, <2>2
<1>4. stores \in 1..MaxStores
  BY QueueHasReplica, CalmParts DEF Calm
<1> QED BY <1>0, <1>1, <1>2, <1>3, <1>4

\* The entry of a document whose row a call writes.
LEMMA EntryWritten ==
  ASSUME Calm, NEW o \in Ops, NEW i, NEW e, WriteEffect(o, i, e)
  PROVE  EntryHolds(i)'
<1>0. TypeOK /\ ShapeInv
  BY CalmParts
<1>1. /\ i \in Ids /\ i = ops[o].id /\ e \in Envelopes /\ Running(o) /\ Writes(o) /\ stores \in 1..MaxStores
      /\ inFlight[i] # None /\ ops[o].doc \in Docs /\ ops[o].doc.id = i
      /\ rows'[stores][e].doc = ops[o].doc /\ rows'[stores][e] # None
      /\ \A d \in Envelopes : d # e => rows'[stores][d] = rows[stores][d]
      /\ rows[stores][e] # None => rows[stores][e].doc.id = i
      /\ Shown(i)' = ops[o].doc
  BY DEF WriteEffect
<1>2. /\ \A b \in Ops : b # o => ops'[b] = ops[b]
      /\ ops'[o].kind = ops[o].kind /\ ops'[o].doc = ops[o].doc /\ ops'[o].id = ops[o].id
      /\ UNCHANGED <<byId, inFlight, attached, stores, swap, listing>>
  BY DEF WriteEffect, MoveEffect
<1>3. CallsKeep
  BY <1>2 DEF CallsKeep
<1>4. Queue(i)' = Queue(i) /\ (Tracked(i)' <=> Tracked(i))
  BY <1>2 DEF Queue, Tracked
<1>5. /\ EntryHolds(i) /\ 1 \in DOMAIN Queue(i) /\ Queue(i)[1] = o /\ Head(Queue(i)) = o
      /\ \A k \in DOMAIN Queue(i) : Queue(i)[k] \in Ops /\ Busy(Queue(i)[k])
      /\ \A k \in DOMAIN Queue(i) : Writes(Queue(i)[k]) => ~Wins(ops[o].doc, ops[Queue(i)[k]].doc)
  BY <1>1, QueuedCalls, RunsHere
<1>6. \A k \in DOMAIN Queue(i) : ops'[Queue(i)[k]].kind = ops[Queue(i)[k]].kind /\ ops'[Queue(i)[k]].doc = ops[Queue(i)[k]].doc
  BY <1>3, <1>5 DEF CallsKeep, Busy
<1>7. ASSUME NEW p \in Ops, LastWrite(i, p)'
      PROVE  /\ inFlight'[i].latest = ops'[p].doc
             /\ \A d \in Envelopes : rows'[stores'][d] # None /\ rows'[stores'][d].doc.id = i =>
                  ~Wins(rows'[stores'][d].doc, ops'[p].doc)
             /\ InUse' /\ ops'[p].st \in {"map", "done"} => Shown(i)' = ops'[p].doc
  <2>1. LastWrite(i, p) /\ Busy(p) /\ ops[p].id = i /\ Writes(p) /\ ops'[p].doc = ops[p].doc
    BY <1>0, <1>1, <1>3, <1>4, <1>7, SameQueue
  <2>2. ~Wins(ops[o].doc, ops[p].doc)
    BY <1>5, <2>1 DEF LastWrite
  <2>3. ops'[p].st \in {"map", "done"} => p = o
    <3>1. p # o /\ ops[p].st \in {"map", "done"} => Running(p)
      BY DEF Running
    <3> QED BY <1>0, <1>1, <1>2, <2>1, <3>1, OneHead
  <2>4. inFlight[i].latest = ops[p].doc
        /\ \A d \in Envelopes : rows[stores][d] # None /\ rows[stores][d].doc.id = i => ~Wins(rows[stores][d].doc, ops[p].doc)
    BY <1>5, <2>1 DEF EntryHolds
  <2> QED BY <1>1, <1>2, <2>1, <2>2, <2>3, <2>4
<1>8. ASSUME ~inFlight'[i].moved
      PROVE  /\ (\A k \in DOMAIN Queue(i)' : ops'[Queue(i)'[k]].kind = "remove") => inFlight'[i].latest = inFlight'[i].confirmed
             /\ \A k \in DOMAIN Queue(i)', d \in Envelopes :
                  ops'[Queue(i)'[k]].kind # "remove" /\ rows'[stores'][d] # None /\ rows'[stores'][d].doc.id = i =>
                    ~Wins(rows'[stores'][d].doc, ops'[Queue(i)'[k]].doc)
             /\ InUse' /\ ops'[Head(Queue(i)')].kind # "remove" /\ ops'[Head(Queue(i)')].st \in {"map", "done"}
                  => Shown(i)' = ops'[Head(Queue(i)')].doc
  <2>1. \A k \in DOMAIN Queue(i), d \in Envelopes :
          Writes(Queue(i)[k]) /\ rows[stores][d] # None /\ rows[stores][d].doc.id = i => ~Wins(rows[stores][d].doc, ops[Queue(i)[k]].doc)
    BY <1>2, <1>5, <1>8 DEF EntryHolds
  <2>2. ops'[Queue(i)[1]].kind # "remove"
    BY <1>1, <1>2, <1>5 DEF Writes
  <2>3. \A k \in DOMAIN Queue(i), d \in Envelopes :
          ops'[Queue(i)[k]].kind # "remove" /\ rows'[stores][d] # None /\ rows'[stores][d].doc.id = i =>
            ~Wins(rows'[stores][d].doc, ops'[Queue(i)[k]].doc)
    BY <1>1, <1>5, <1>6, <2>1 DEF Writes
  <2> QED BY <1>1, <1>2, <1>4, <1>5, <2>2, <2>3
<1>9. Tracked(i)' => byId'[i] = inFlight'[i].latest
  BY <1>2, <1>4, <1>5 DEF EntryHolds
<1>10. ASSUME Tracked(i)', ~inFlight'[i].moved, inFlight'[i].confirmed # None, inFlight'[i].confirmed.src \in Pulls
       PROVE  \E d \in Envelopes : /\ rows'[stores'][d] # None /\ rows'[stores'][d].doc.id = inFlight'[i].confirmed.id
                                   /\ ~Wins(inFlight'[i].confirmed, rows'[stores'][d].doc)
  <2>1. Backed(inFlight[i].confirmed)
    BY <1>2, <1>4, <1>5, <1>10 DEF EntryHolds
  <2>2. PICK d \in Envelopes : /\ rows[stores][d] # None /\ rows[stores][d].doc.id = inFlight[i].confirmed.id
                               /\ ~Wins(inFlight[i].confirmed, rows[stores][d].doc)
    BY <2>1 DEF Backed
  <2>3. CASE d # e
    BY <1>1, <1>2, <2>2, <2>3
  <2>4. CASE d = e
    <3>1. rows[stores][e].doc.id = i /\ rows[stores][e].doc \in Docs /\ inFlight[i].confirmed \in Docs
      BY <1>0, <1>1, <1>2, <1>10, <2>2, <2>4, RowFields, EntryAt DEF Optional
    <3>2. ~Wins(rows[stores][e].doc, ops[o].doc)
      BY <1>1, <1>2, <1>5, <1>10, <2>2, <2>4, <3>1 DEF EntryHolds
    <3>3. ~Wins(inFlight[i].confirmed, ops[o].doc)
      BY <1>1, <2>2, <2>4, <3>1, <3>2, WinsOrder
    <3> QED BY <1>1, <1>2, <2>2, <2>4, <3>1, <3>3
  <2> QED BY <2>3, <2>4
<1> QED BY <1>1, <1>7, <1>8, <1>9, <1>10, EntryIs

\* The entry of a document whose row a call tombstones.
LEMMA EntryBuried ==
  ASSUME Calm, NEW o \in Ops, NEW i, NEW e, BuryEffect(o, i, e)
  PROVE  EntryHolds(i)'
<1>0. TypeOK /\ ShapeInv
  BY CalmParts
<1>1. /\ i \in Ids /\ i = ops[o].id /\ e \in Envelopes /\ Running(o) /\ ~Writes(o) /\ stores \in 1..MaxStores /\ inFlight[i] # None
      /\ \A d \in Envelopes : d # e => rows'[stores][d] = rows[stores][d]
      /\ rows'[stores][e].doc = rows[stores][e].doc /\ rows'[stores][e] # None
  BY DEF BuryEffect
<1>2. /\ \A b \in Ops : b # o => ops'[b] = ops[b]
      /\ ops'[o].kind = ops[o].kind /\ ops'[o].doc = ops[o].doc /\ ops'[o].id = ops[o].id
      /\ UNCHANGED <<byId, inFlight, attached, stores, swap, listing>>
  BY DEF BuryEffect, MoveEffect
<1>3. CallsKeep
  BY <1>2 DEF CallsKeep
<1>4. Queue(i)' = Queue(i) /\ (Tracked(i)' <=> Tracked(i))
  BY <1>2 DEF Queue, Tracked
<1>5. /\ EntryHolds(i) /\ 1 \in DOMAIN Queue(i) /\ Head(Queue(i)) = Queue(i)[1]
      /\ \A k \in DOMAIN Queue(i) : Queue(i)[k] \in Ops /\ Busy(Queue(i)[k]) /\ ~Writes(Queue(i)[k])
  BY <1>1, QueuedCalls, RunsHere
<1>6. \A k \in DOMAIN Queue(i) : ops'[Queue(i)[k]].kind = "remove"
  BY <1>3, <1>5 DEF CallsKeep, Busy, Writes
<1>7. \A p \in Ops : ~LastWrite(i, p)'
  BY <1>1, <1>4, <1>6, LastWriteIs
<1>8. ~inFlight'[i].moved => inFlight'[i].latest = inFlight'[i].confirmed
  BY <1>2, <1>5 DEF EntryHolds
<1>9. Tracked(i)' => byId'[i] = inFlight'[i].latest
  BY <1>2, <1>4, <1>5 DEF EntryHolds
<1>10. ASSUME Tracked(i)', ~inFlight'[i].moved, inFlight'[i].confirmed # None, inFlight'[i].confirmed.src \in Pulls
       PROVE  \E d \in Envelopes : /\ rows'[stores'][d] # None /\ rows'[stores'][d].doc.id = inFlight'[i].confirmed.id
                                   /\ ~Wins(inFlight'[i].confirmed, rows'[stores'][d].doc)
  <2>1. Backed(inFlight[i].confirmed)
    BY <1>2, <1>4, <1>5, <1>10 DEF EntryHolds
  <2> QED BY <1>1, <1>2, <2>1 DEF Backed
<1> QED BY <1>1, <1>4, <1>5, <1>6, <1>7, <1>8, <1>9, <1>10, EntryIs

\* The entry of a document whose first call leaves its queue.
LEMMA EntrySettles ==
  ASSUME Calm, NEW o \in Ops, NEW i, NEW st, NEW latest, NEW confirmed, NEW shown,
         SettleEffect(o, i, st, latest, confirmed, shown), inFlight'[i] # None,
         (\E k \in DOMAIN Queue(i) : k > 1 /\ Writes(Queue(i)[k])) => latest = inFlight[i].latest,
         ~inFlight[i].moved /\ (\A k \in DOMAIN Queue(i) : k > 1 => ~Writes(Queue(i)[k])) => latest = confirmed,
         Tracked(i) => shown = latest,
         Tracked(i) /\ ~inFlight[i].moved /\ confirmed # None /\ confirmed.src \in Pulls => Backed(confirmed)
  PROVE  EntryHolds(i)'
<1>0. TypeOK /\ ShapeInv
  BY CalmParts
<1>1. /\ i \in Ids /\ i = ops[o].id /\ Queue(i)[1] = o /\ inFlight[i] # None /\ Len(Queue(i)) # 1
      /\ Queue(i)' = Tail(Queue(i)) /\ inFlight'[i].moved = inFlight[i].moved
      /\ inFlight'[i].latest = latest /\ inFlight'[i].confirmed = confirmed /\ byId'[i] = shown
      /\ \A b \in Ops : b # o => ops'[b] = ops[b]
      /\ UNCHANGED <<rows, stores, attached, swap, listing>>
  BY DEF SettleEffect
<1>2. /\ EntryHolds(i) /\ Len(Queue(i)) \in Nat /\ DOMAIN Queue(i) = 1..Len(Queue(i))
      /\ \A k \in DOMAIN Queue(i) : Queue(i)[k] \in Ops /\ (k > 1 => ops[Queue(i)[k]].st = "queued")
  BY <1>1, QueuedCalls
<1>3. /\ DOMAIN Queue(i)' = 1..(Len(Queue(i)) - 1) /\ 1 \in DOMAIN Queue(i)' /\ Head(Queue(i)') = Queue(i)'[1]
      /\ \A k \in DOMAIN Queue(i)' : k + 1 \in DOMAIN Queue(i) /\ Queue(i)'[k] = Queue(i)[k + 1] /\ k + 1 > 1 /\ k \in Nat
  <2>1. Queue(i) \in Seq(Ops) /\ Queue(i) # <<>>
    BY <1>0, <1>1, EntryAt
  <2>2. Tail(Queue(i)) \in Seq(Ops) /\ Tail(Queue(i)) # <<>> /\ DOMAIN Tail(Queue(i)) = 1..(Len(Queue(i)) - 1)
        /\ (\A k \in 1..(Len(Queue(i)) - 1) : Tail(Queue(i))[k] = Queue(i)[k + 1] /\ k + 1 \in DOMAIN Queue(i)) /\ Len(Queue(i)) >= 1
    BY <1>1, <2>1, QueueParts
  <2>3. Head(Tail(Queue(i))) = Tail(Queue(i))[1]
    BY <2>2, QueueParts
  <2> QED BY <1>1, <1>2, <2>2, <2>3
<1>4. \A k \in DOMAIN Queue(i) : k > 1 => ops'[Queue(i)[k]] = ops[Queue(i)[k]]
  <2>1. \A j, k \in DOMAIN Queue(i) : j # k => Queue(i)[j] # Queue(i)[k]
    BY <1>0, <1>1, EntryAt
  <2>2. 1 \in DOMAIN Queue(i)
    BY <1>0, <1>1, EntryAt
  <2> QED BY <1>1, <1>2, <2>1, <2>2
<1>5. \A k \in DOMAIN Queue(i)' : ops'[Queue(i)'[k]] = ops[Queue(i)[k + 1]] /\ ops'[Queue(i)'[k]].st = "queued"
  BY <1>2, <1>3, <1>4
<1>6. ASSUME NEW p \in Ops, LastWrite(i, p)'
      PROVE  LastWrite(i, p) /\ ops'[p] = ops[p] /\ ops'[p].st = "queued" /\ latest = inFlight[i].latest
  <2>1. PICK k \in DOMAIN Queue(i)' : /\ Queue(i)'[k] = p /\ ops'[p].kind # "remove"
           /\ \A j \in DOMAIN Queue(i)' : j > k => ops'[Queue(i)'[j]].kind = "remove"
    BY <1>1, <1>6, LastWriteIs
  <2>2. k + 1 \in DOMAIN Queue(i) /\ Queue(i)[k + 1] = p /\ ops'[p] = ops[p] /\ ops'[p].st = "queued" /\ k + 1 > 1 /\ k \in Nat
    BY <1>3, <1>5, <2>1
  <2>3. Writes(p)
    BY <2>1, <2>2 DEF Writes
  <2>4. ASSUME NEW j \in DOMAIN Queue(i), j > k + 1 PROVE ~Writes(Queue(i)[j])
    <3>1. PICK n \in DOMAIN Queue(i)' : j = n + 1 /\ n > k
      <4>1. j - 1 \in 1..(Len(Queue(i)) - 1) /\ j = (j - 1) + 1 /\ j - 1 > k
        BY <1>2, <2>2, <2>4
      <4> QED BY <1>3, <4>1
    <3>2. ops'[Queue(i)'[n]].kind = "remove" /\ ops'[Queue(i)'[n]] = ops[Queue(i)[j]]
      BY <1>5, <2>1, <3>1
    <3> QED BY <3>2 DEF Writes
  <2>5. LastWrite(i, p)
    BY <2>2, <2>3, <2>4 DEF LastWrite
  <2>6. latest = inFlight[i].latest
    BY <2>2, <2>3
  <2> QED BY <2>2, <2>5, <2>6
<1>7. ASSUME NEW p \in Ops, LastWrite(i, p)'
      PROVE  /\ inFlight'[i].latest = ops'[p].doc
             /\ \A d \in Envelopes : rows'[stores'][d] # None /\ rows'[stores'][d].doc.id = i =>
                  ~Wins(rows'[stores'][d].doc, ops'[p].doc)
             /\ InUse' /\ ops'[p].st \in {"map", "done"} => Shown(i)' = ops'[p].doc
  BY <1>1, <1>2, <1>6, <1>7 DEF EntryHolds
<1>8. ASSUME ~inFlight'[i].moved
      PROVE  /\ (\A k \in DOMAIN Queue(i)' : ops'[Queue(i)'[k]].kind = "remove") => inFlight'[i].latest = inFlight'[i].confirmed
             /\ \A k \in DOMAIN Queue(i)', d \in Envelopes :
                  ops'[Queue(i)'[k]].kind # "remove" /\ rows'[stores'][d] # None /\ rows'[stores'][d].doc.id = i =>
                    ~Wins(rows'[stores'][d].doc, ops'[Queue(i)'[k]].doc)
             /\ InUse' /\ ops'[Head(Queue(i)')].kind # "remove" /\ ops'[Head(Queue(i)')].st \in {"map", "done"}
                  => Shown(i)' = ops'[Head(Queue(i)')].doc
  <2>1. (\A k \in DOMAIN Queue(i)' : ops'[Queue(i)'[k]].kind = "remove") => inFlight'[i].latest = inFlight'[i].confirmed
    <3>1. SUFFICES ASSUME \A k \in DOMAIN Queue(i)' : ops'[Queue(i)'[k]].kind = "remove"
                   PROVE  latest = confirmed
      BY <1>1
    <3>2. ASSUME NEW k \in DOMAIN Queue(i), k > 1 PROVE ~Writes(Queue(i)[k])
      <4>1. k - 1 \in DOMAIN Queue(i)' /\ k = (k - 1) + 1
        BY <1>2, <1>3, <3>2
      <4>2. ops[Queue(i)[k]].kind = "remove"
        BY <1>5, <3>1, <4>1
      <4> QED BY <4>2 DEF Writes
    <3> QED BY <1>1, <1>8, <3>2
  <2>2. \A k \in DOMAIN Queue(i), d \in Envelopes :
          Writes(Queue(i)[k]) /\ rows[stores][d] # None /\ rows[stores][d].doc.id = i => ~Wins(rows[stores][d].doc, ops[Queue(i)[k]].doc)
    BY <1>1, <1>2, <1>8 DEF EntryHolds
  <2>3. \A k \in DOMAIN Queue(i)', d \in Envelopes :
          ops'[Queue(i)'[k]].kind # "remove" /\ rows'[stores'][d] # None /\ rows'[stores'][d].doc.id = i =>
            ~Wins(rows'[stores'][d].doc, ops'[Queue(i)'[k]].doc)
    BY <1>1, <1>3, <1>5, <2>2 DEF Writes
  <2>4. ops'[Head(Queue(i)')].st = "queued"
    BY <1>3, <1>5
  <2> QED BY <2>1, <2>3, <2>4
<1>9. Tracked(i)' => Tracked(i)
  BY <1>1 DEF Tracked
<1>10. Tracked(i)' /\ ~inFlight'[i].moved /\ inFlight'[i].confirmed # None /\ inFlight'[i].confirmed.src \in Pulls =>
           \E d \in Envelopes : /\ rows'[stores'][d] # None /\ rows'[stores'][d].doc.id = inFlight'[i].confirmed.id
                                /\ ~Wins(inFlight'[i].confirmed, rows'[stores'][d].doc)
  BY <1>1, <1>9 DEF Backed
<1> QED BY <1>1, <1>7, <1>8, <1>9, <1>10, EntryIs

\* Acknowledging a call keeps EntryHolds of its document.
LEMMA EntryFinished ==
  ASSUME Calm, NEW o \in Ops, Finish(o), NEW i \in Ids, i = ops[o].id, inFlight'[i] # None
  PROVE  EntryHolds(i)'
<1>1. FinishEffect(o, i)
  BY FinishDoes, CalmParts
<1>2. Running(o) /\ inFlight[i] # None /\ Queue(i)[1] = o
  BY <1>1, RunsHere DEF FinishEffect, Running
<1>3. /\ EntryHolds(i) /\ 1 \in DOMAIN Queue(i)
      /\ Len(Queue(i)) \in Nat /\ DOMAIN Queue(i) = 1..Len(Queue(i))
      /\ \A k \in DOMAIN Queue(i) : Writes(Queue(i)[k]) => Writes(o)
  BY <1>2, QueuedCalls
<1>4. CASE Writes(o)
  <2>1. SettleEffect(o, i, "acked", inFlight[i].latest, ops[o].doc, byId[i])
    BY <1>1, <1>4 DEF FinishEffect
  <2>2. (\A k \in DOMAIN Queue(i) : k > 1 => ~Writes(Queue(i)[k])) => inFlight[i].latest = ops[o].doc
    <3>1. (\A k \in DOMAIN Queue(i) : k > 1 => ~Writes(Queue(i)[k])) => LastWrite(i, o)
      BY <1>2, <1>3, <1>4 DEF LastWrite
    <3> QED BY <1>3, <3>1 DEF EntryHolds
  <2>3. Tracked(i) => byId[i] = inFlight[i].latest
    BY <1>3 DEF EntryHolds
  <2>4. ops[o].doc.src \notin Pulls
    BY <1>2, <1>4, RunsHere, ConstantsOK DEF ConstantsOK
  <2> QED BY <2>1, <2>2, <2>3, <2>4, EntrySettles
<1>5. CASE ~Writes(o)
  <2>1. SettleEffect(o, i, "acked", None, None, None)
    BY <1>1, <1>5 DEF FinishEffect
  <2> QED BY <1>3, <1>5, <2>1, EntrySettles
<1> QED BY <1>4, <1>5

\* Rejecting a call that rolls nothing back keeps EntryHolds of its document.
LEMMA EntryRejected ==
  ASSUME Calm, Uncrossed', NEW o \in Ops, Rejects(o), NEW i \in Ids, i = ops[o].id, inFlight'[i] # None
  PROVE  EntryHolds(i)'
<1>0. TypeOK /\ ShapeInv
  BY CalmParts
<1>1. RejectEffect(o, i) /\ ~inFlight[i].moved
  BY <1>0, RejectsDoes DEF RejectEffect, Uncrossed
<1>2. inFlight[i] # None /\ Queue(i)[1] = o
  BY <1>1 DEF RejectEffect, SettleEffect
<1>3. /\ EntryHolds(i) /\ 1 \in DOMAIN Queue(i)
      /\ Len(Queue(i)) \in Nat /\ DOMAIN Queue(i) = 1..Len(Queue(i))
      /\ \A k \in DOMAIN Queue(i) : Writes(Queue(i)[k]) => /\ Writes(o) /\ ops[Queue(i)[k]].doc.src = Queue(i)[k]
      /\ \A k \in DOMAIN Queue(i) : Queue(i)[k] \in Ops
  BY <1>2, QueuedCalls
<1>4. CASE Writes(o) /\ inFlight[i].latest = ops[o].doc
  <2>1. SettleEffect(o, i, "rejected", inFlight[i].confirmed, inFlight[i].confirmed, inFlight[i].confirmed)
    BY <1>1, <1>4 DEF RejectEffect
  <2>2. ASSUME NEW k \in DOMAIN Queue(i), k > 1, Writes(Queue(i)[k]) PROVE FALSE
    <3>1. PICK p \in Ops : LastWrite(i, p)
      BY <1>0, <1>2, <2>2, LastWriteExists
    <3>2. PICK n \in DOMAIN Queue(i) : Queue(i)[n] = p /\ Writes(p) /\ \A j \in DOMAIN Queue(i) : j > n => ~Writes(Queue(i)[j])
      BY <3>1 DEF LastWrite
    <3>3. ops[p].doc = ops[o].doc
      BY <1>3, <1>4, <3>1 DEF EntryHolds
    <3>4. ops[p].doc.src = p /\ ops[o].doc.src = o
      BY <1>2, <1>3, <1>4, <3>2
    <3>5. n > 1
      BY <1>3, <2>2, <3>2
    <3>6. \A a, b \in DOMAIN Queue(i) : a # b => Queue(i)[a] # Queue(i)[b]
      BY <1>0, <1>2, EntryAt
    <3> QED BY <1>2, <1>3, <3>2, <3>3, <3>4, <3>5, <3>6
  <2>3. Tracked(i) /\ ~inFlight[i].moved /\ inFlight[i].confirmed # None /\ inFlight[i].confirmed.src \in Pulls
          => Backed(inFlight[i].confirmed)
    BY <1>3 DEF EntryHolds
  <2> QED BY <2>1, <2>2, <2>3, EntrySettles
<1>5. CASE ~(Writes(o) /\ inFlight[i].latest = ops[o].doc)
  <2>1. SettleEffect(o, i, "rejected", inFlight[i].latest, inFlight[i].confirmed, byId[i])
    BY <1>1, <1>5 DEF RejectEffect
  <2>2. ASSUME \A k \in DOMAIN Queue(i) : k > 1 => ~Writes(Queue(i)[k])
        PROVE  inFlight[i].latest = inFlight[i].confirmed
    <3>1. Writes(o) => LastWrite(i, o)
      BY <1>2, <1>3, <2>2 DEF LastWrite
    <3>2. ~Writes(o)
      BY <1>3, <1>5, <3>1 DEF EntryHolds
    <3> QED BY <1>1, <1>3, <3>2 DEF EntryHolds
  <2>3. (Tracked(i) => byId[i] = inFlight[i].latest)
        /\ (Tracked(i) /\ ~inFlight[i].moved /\ inFlight[i].confirmed # None /\ inFlight[i].confirmed.src \in Pulls
              => Backed(inFlight[i].confirmed))
    BY <1>3 DEF EntryHolds
  <2> QED BY <2>1, <2>2, <2>3, EntrySettles
<1> QED BY <1>4, <1>5

\* The entry of a document a call is issued on.
LEMMA EntryIssued ==
  ASSUME Calm, Uncrossed', NEW o \in Ops, NEW kind \in Kinds, NEW i \in Ids, Issue(o, kind, i)
  PROVE  EntryHolds(i)'
<1>0. TypeOK /\ ShapeInv
  BY CalmParts
<1>1. IssueEffect(o, kind, i)
  BY <1>0, IssueDoes
<1>2. /\ ops'[o].kind = kind /\ ops'[o].st = "queued" /\ ops[o].st = "new" /\ inFlight'[i] # None
      /\ \A b \in Ops : b # o => ops'[b] = ops[b]
      /\ UNCHANGED <<rows, stores, attached, closing, swap, listing>>
      /\ kind # "remove" => /\ ops'[o].doc \in Docs /\ ops'[o].doc.ts = clock + 1 /\ ops'[o].doc # None
                            /\ inFlight'[i].latest = ops'[o].doc /\ byId'[i] = ops'[o].doc
      /\ kind = "remove" => byId'[i] = byId[i]
  BY <1>1 DEF IssueEffect
<1>3. Shown(i)' = Shown(i) /\ (InUse' <=> InUse)
  BY <1>2 DEF Shown, InUse
<1>4. (attached # 0 \/ swap)
  BY IssueCrosses
<1>5. ASSUME kind # "remove", NEW d \in Envelopes, rows'[stores'][d] # None, attached # 0 \/ closing # 0 \/ swap
      PROVE  ~Wins(rows'[stores'][d].doc, ops'[o].doc)
  <2>1. stores \in 1..MaxStores
    <3>1. stores # 0
      BY <1>0, <1>5, CalmParts DEF SessionInv, ShapeInv
    <3> QED BY <1>0, <3>1, ConstantsOK DEF TypeOK, ConstantsOK
  <2>2. rows[stores][d].doc \in Docs /\ rows[stores][d].doc.ts <= clock
    BY <1>0, <1>2, <1>5, <2>1, RowFields, CalmParts DEF StampInv
  <2>3. rows[stores][d].doc.ts < ops'[o].doc.ts
    BY <1>0, <1>2, <1>5, <2>2 DEF TypeOK, Docs
  <2> QED BY <1>2, <1>5, <2>2, <2>3, WinsOrder
<1>6. CASE inFlight[i] = None
  <2>1. /\ DOMAIN Queue(i)' = {1} /\ Queue(i)'[1] = o /\ Head(Queue(i)') = o
        /\ inFlight'[i].confirmed = byId[i]
        /\ inFlight'[i].moved = (Outstanding(i) # {})
        /\ kind = "remove" => inFlight'[i].latest = byId[i]
    BY <1>1, <1>6 DEF IssueEffect
  <2>2. \A p \in Ops : LastWrite(i, p)' => p = o /\ kind # "remove"
    BY <1>2, <2>1, LastWriteIs
  <2>3. \A p \in Ops : LastWrite(i, p)' =>
           /\ inFlight'[i].latest = ops'[p].doc
           /\ \A e \in Envelopes : rows'[stores'][e] # None /\ rows'[stores'][e].doc.id = i =>
                ~Wins(rows'[stores'][e].doc, ops'[p].doc)
           /\ InUse' /\ ops'[p].st \in {"map", "done"} => Shown(i)' = ops'[p].doc
    BY <1>2, <1>4, <1>5, <2>2
  <2>4. Tracked(i)' => byId'[i] = inFlight'[i].latest
    BY <1>2, <2>1
  <2>5. ASSUME attached' # 0, inFlight'[i].confirmed # None, inFlight'[i].confirmed.src \in Pulls
        PROVE  \E e \in Envelopes : /\ rows'[stores'][e] # None /\ rows'[stores'][e].doc.id = inFlight'[i].confirmed.id
                                    /\ ~Wins(inFlight'[i].confirmed, rows'[stores'][e].doc)
    <3>1. Backed(byId[i])
      BY <1>2, <1>6, <2>1, <2>5, CalmParts DEF OriginInv, OriginHolds
    <3> QED BY <1>2, <2>1, <3>1 DEF Backed
  <2>6. ~inFlight'[i].moved =>
           /\ (\A k \in DOMAIN Queue(i)' : ops'[Queue(i)'[k]].kind = "remove") => inFlight'[i].latest = inFlight'[i].confirmed
           /\ \A k \in DOMAIN Queue(i)', e \in Envelopes :
                ops'[Queue(i)'[k]].kind # "remove" /\ rows'[stores'][e] # None /\ rows'[stores'][e].doc.id = i =>
                  ~Wins(rows'[stores'][e].doc, ops'[Queue(i)'[k]].doc)
           /\ InUse' /\ ops'[Head(Queue(i)')].kind # "remove" /\ ops'[Head(Queue(i)')].st \in {"map", "done"}
                => Shown(i)' = ops'[Head(Queue(i)')].doc
    BY <1>2, <1>4, <1>5, <2>1
  <2> QED BY <2>3, <2>4, <2>5, <2>6, EntryIs DEF Tracked
<1>7. CASE inFlight[i] # None
  <2>1. /\ Queue(i)' = Append(Queue(i), o)
        /\ inFlight'[i].confirmed = inFlight[i].confirmed /\ inFlight'[i].moved = inFlight[i].moved
        /\ kind = "remove" => inFlight'[i].latest = inFlight[i].latest
    BY <1>1, <1>7 DEF IssueEffect
  <2>2. /\ EntryHolds(i) /\ 1 \in DOMAIN Queue(i) /\ Queue(i)[1] = Head(Queue(i))
        /\ Len(Queue(i)) \in Nat /\ DOMAIN Queue(i) = 1..Len(Queue(i))
        /\ \A k \in DOMAIN Queue(i) : Queue(i)[k] \in Ops /\ Busy(Queue(i)[k])
    BY <1>7, QueuedCalls
  <2>3. /\ DOMAIN Queue(i)' = 1..(Len(Queue(i)) + 1) /\ Len(Queue(i)) + 1 \in DOMAIN Queue(i)' /\ Queue(i)'[Len(Queue(i)) + 1] = o
        /\ \A k \in DOMAIN Queue(i) : k \in DOMAIN Queue(i)' /\ Queue(i)'[k] = Queue(i)[k]
        /\ \A k \in DOMAIN Queue(i)' : k \in DOMAIN Queue(i) \/ k = Len(Queue(i)) + 1
        /\ Head(Queue(i)') = Head(Queue(i))
    <3>1. Queue(i) \in Seq(Ops) /\ Queue(i) # <<>>
      BY <1>0, <1>7, EntryAt
    <3> QED BY <2>1, <2>2, <3>1, QueueAppend
  <2>4. \A k \in DOMAIN Queue(i) : ops'[Queue(i)[k]] = ops[Queue(i)[k]]
    BY <1>2, <2>2 DEF Busy
  <2>5. ASSUME NEW p \in Ops, LastWrite(i, p)', kind # "remove" PROVE p = o
    <3>1. PICK k \in DOMAIN Queue(i)' : /\ Queue(i)'[k] = p
             /\ \A j \in DOMAIN Queue(i)' : j > k => ops'[Queue(i)'[j]].kind = "remove"
      BY <2>5, LastWriteIs
    <3>2. k = Len(Queue(i)) + 1
      BY <1>2, <2>2, <2>3, <2>5, <3>1
    <3> QED BY <2>3, <3>1, <3>2
  <2>6. ASSUME NEW p \in Ops, LastWrite(i, p)', kind = "remove" PROVE LastWrite(i, p) /\ ops'[p] = ops[p]
    <3>1. PICK k \in DOMAIN Queue(i)' : /\ Queue(i)'[k] = p /\ ops'[p].kind # "remove"
             /\ \A j \in DOMAIN Queue(i)' : j > k => ops'[Queue(i)'[j]].kind = "remove"
      BY <2>6, LastWriteIs
    <3>2. k \in DOMAIN Queue(i)
      BY <1>2, <2>3, <2>6, <3>1
    <3>3. Queue(i)[k] = p /\ ops'[p] = ops[p]
      BY <2>3, <2>4, <3>1, <3>2
    <3>4. \A j \in DOMAIN Queue(i) : j > k => ops[Queue(i)[j]].kind = "remove"
      BY <2>3, <2>4, <3>1
    <3> QED BY <3>1, <3>2, <3>3, <3>4 DEF LastWrite, Writes
  <2>7. ASSUME NEW p \in Ops, LastWrite(i, p)'
        PROVE  /\ inFlight'[i].latest = ops'[p].doc
               /\ \A e \in Envelopes : rows'[stores'][e] # None /\ rows'[stores'][e].doc.id = i =>
                    ~Wins(rows'[stores'][e].doc, ops'[p].doc)
               /\ InUse' /\ ops'[p].st \in {"map", "done"} => Shown(i)' = ops'[p].doc
    <3>1. CASE kind # "remove"
      BY <1>2, <1>4, <1>5, <2>5, <2>7, <3>1
    <3>2. CASE kind = "remove"
      BY <1>2, <1>3, <2>1, <2>2, <2>6, <2>7, <3>2 DEF EntryHolds
    <3> QED BY <3>1, <3>2
  <2>8. ASSUME ~inFlight'[i].moved
        PROVE  /\ (\A k \in DOMAIN Queue(i)' : ops'[Queue(i)'[k]].kind = "remove") => inFlight'[i].latest = inFlight'[i].confirmed
               /\ \A k \in DOMAIN Queue(i)', e \in Envelopes :
                    ops'[Queue(i)'[k]].kind # "remove" /\ rows'[stores'][e] # None /\ rows'[stores'][e].doc.id = i =>
                      ~Wins(rows'[stores'][e].doc, ops'[Queue(i)'[k]].doc)
               /\ InUse' /\ ops'[Head(Queue(i)')].kind # "remove" /\ ops'[Head(Queue(i)')].st \in {"map", "done"}
                    => Shown(i)' = ops'[Head(Queue(i)')].doc
    <3>0. /\ (\A k \in DOMAIN Queue(i) : ~Writes(Queue(i)[k])) => inFlight[i].latest = inFlight[i].confirmed
          /\ \A k \in DOMAIN Queue(i), e \in Envelopes :
               Writes(Queue(i)[k]) /\ rows[stores][e] # None /\ rows[stores][e].doc.id = i =>
                 ~Wins(rows[stores][e].doc, ops[Queue(i)[k]].doc)
          /\ InUse /\ Writes(Head(Queue(i))) /\ ops[Head(Queue(i))].st \in {"map", "done"} => Shown(i) = ops[Head(Queue(i))].doc
      BY <2>1, <2>2, <2>8 DEF EntryHolds
    <3>1. (\A k \in DOMAIN Queue(i)' : ops'[Queue(i)'[k]].kind = "remove") => inFlight'[i].latest = inFlight'[i].confirmed
      BY <1>2, <2>1, <2>3, <2>4, <3>0 DEF Writes
    <3>2. ASSUME NEW k \in DOMAIN Queue(i)', NEW e \in Envelopes,
                 ops'[Queue(i)'[k]].kind # "remove", rows'[stores'][e] # None, rows'[stores'][e].doc.id = i
          PROVE  ~Wins(rows'[stores'][e].doc, ops'[Queue(i)'[k]].doc)
      <4>1. CASE k \in DOMAIN Queue(i)
        BY <1>2, <2>3, <2>4, <3>0, <3>2, <4>1 DEF Writes
      <4>2. CASE k = Len(Queue(i)) + 1
        BY <1>2, <1>4, <1>5, <2>3, <3>2, <4>2
      <4> QED BY <2>3, <3>2, <4>1, <4>2
    <3>3. InUse' /\ ops'[Head(Queue(i)')].kind # "remove" /\ ops'[Head(Queue(i)')].st \in {"map", "done"}
            => Shown(i)' = ops'[Head(Queue(i)')].doc
      BY <1>3, <2>2, <2>3, <2>4, <3>0 DEF Writes
    <3> QED BY <3>1, <3>2, <3>3
  <2>9. Tracked(i)' => Tracked(i)
    BY <1>2, <1>7 DEF Tracked
  <2>10. Tracked(i)' => byId'[i] = inFlight'[i].latest
    BY <1>2, <2>1, <2>2, <2>9 DEF EntryHolds
  <2>11. ASSUME Tracked(i)', ~inFlight'[i].moved, inFlight'[i].confirmed # None, inFlight'[i].confirmed.src \in Pulls
         PROVE  \E e \in Envelopes : /\ rows'[stores'][e] # None /\ rows'[stores'][e].doc.id = inFlight'[i].confirmed.id
                                     /\ ~Wins(inFlight'[i].confirmed, rows'[stores'][e].doc)
    <3>1. Backed(inFlight[i].confirmed)
      BY <2>1, <2>2, <2>9, <2>11 DEF EntryHolds
    <3> QED BY <1>2, <2>1, <3>1 DEF Backed
  <2> QED BY <2>7, <2>8, <2>10, <2>11, EntryIs
<1> QED BY <1>6, <1>7

\* The entry of a document a pull rewrites.
LEMMA EntryPulled ==
  ASSUME Calm, NEW p, NEW e, NEW i, NEW doc, NEW dead, NEW c, PullEffect(p, e, i, doc, dead, c), inFlight'[i] # None
  PROVE  EntryHolds(i)'
<1>0. TypeOK /\ ShapeInv
  BY CalmParts
<1>1. /\ i \in Ids /\ e \in Envelopes /\ inFlight[i] # None
      /\ rows'[stores][e].doc = doc /\ rows'[stores][e] # None
      /\ \A d \in Envelopes : d # e => rows'[stores][d] = rows[stores][d]
      /\ Queue(i)' = Queue(i) /\ inFlight'[i].latest = inFlight[i].latest /\ inFlight'[i].moved = TRUE
      /\ UNCHANGED <<byId, ops, attached, closing, swap, listing, stores>>
  BY DEF PullEffect
<1>2. PullLive(p, e, i, doc, dead)
  BY <1>1 DEF PullEffect, PullNew, PullDead
<1>3. /\ Wins(doc, rows[stores][e].doc) /\ Shown(i) = rows[stores][e].doc
      /\ inFlight[i].latest = None \/ ~Wins(doc, inFlight[i].latest)
  BY <1>1, <1>2 DEF PullLive
<1>4. EntryHolds(i) /\ CallsKeep /\ (InUse' <=> InUse) /\ (Tracked(i)' => Tracked(i))
  BY <1>1, QueuedCalls DEF CallsKeep, InUse, Tracked
<1>5. ASSUME NEW q \in Ops, LastWrite(i, q)'
      PROVE  /\ inFlight'[i].latest = ops'[q].doc
             /\ \A d \in Envelopes : rows'[stores'][d] # None /\ rows'[stores'][d].doc.id = i =>
                  ~Wins(rows'[stores'][d].doc, ops'[q].doc)
             /\ InUse' /\ ops'[q].st \in {"map", "done"} => Shown(i)' = ops'[q].doc
  <2>1. LastWrite(i, q) /\ Busy(q) /\ ops[q].id = i /\ Writes(q)
    BY <1>0, <1>1, <1>4, <1>5, SameQueue
  <2>2. /\ inFlight[i].latest = ops[q].doc
        /\ \A d \in Envelopes : rows[stores][d] # None /\ rows[stores][d].doc.id = i => ~Wins(rows[stores][d].doc, ops[q].doc)
        /\ InUse /\ ops[q].st \in {"map", "done"} => Shown(i) = ops[q].doc
    BY <1>4, <2>1 DEF EntryHolds
  <2>3. ops[q].doc # None
    BY <1>0, <2>1, BusyCall, NoneIsApart
  <2>4. ~Wins(doc, ops[q].doc)
    BY <1>3, <2>2, <2>3
  <2>5. ~(InUse /\ ops[q].st \in {"map", "done"})
    BY <1>3, <2>2, <2>4
  <2> QED BY <1>1, <1>4, <2>2, <2>4, <2>5
<1>6. Tracked(i)' => byId'[i] = inFlight'[i].latest
  BY <1>1, <1>4 DEF EntryHolds
<1> QED BY <1>1, <1>5, <1>6, EntryIs

\* The entry of a document over which a listing ends.
LEMMA EntryHydrated ==
  ASSUME Calm, NEW seen, HydrateEffect(seen), NEW i \in Ids, inFlight'[i] # None
  PROVE  EntryHolds(i)'
<1>0. TypeOK /\ ShapeInv
  BY CalmParts
<1>1. /\ inFlight[i] # None /\ Queue(i)' = Queue(i) /\ inFlight'[i].latest = inFlight[i].latest /\ inFlight'[i].moved = TRUE
      /\ byId'[i] = inFlight[i].latest
      /\ UNCHANGED <<ops, rows, stores, attached, closing>>
  BY DEF HydrateEffect
<1>2. CallsKeep /\ EntryHolds(i) /\ (InUse' <=> InUse) /\ Shown(i)' = Shown(i)
  BY <1>1, QueuedCalls DEF CallsKeep, InUse, Shown
<1>3. \A q \in Ops : LastWrite(i, q)' => LastWrite(i, q)
  BY <1>0, <1>1, <1>2, SameQueue
<1>4. \A q \in Ops : LastWrite(i, q)' =>
             /\ inFlight'[i].latest = ops'[q].doc
             /\ \A d \in Envelopes : rows'[stores'][d] # None /\ rows'[stores'][d].doc.id = i =>
                  ~Wins(rows'[stores'][d].doc, ops'[q].doc)
             /\ InUse' /\ ops'[q].st \in {"map", "done"} => Shown(i)' = ops'[q].doc
  BY <1>1, <1>2, <1>3 DEF EntryHolds
<1> QED BY <1>1, <1>4, EntryIs

\* A burst of changes that no event of the document is in, or loses to what is shown, shows
\* the document as before.
LEMMA BurstLeaves ==
  ASSUME TypeOK, NEW i \in Ids,
         \A c \in Range(pending) : c.doc.id = i => ~c.dead /\ byId[i] # None /\ ~Wins(c.doc, byId[i])
  PROVE  Burst(byId, pending)[i] = byId[i]
<1> DEFINE B == {x \in [Ids -> Optional(Docs)] : x[i] = byId[i]}
           n == Len(pending)
<1>1. pending \in [1..n -> Change] /\ n \in Nat /\ DOMAIN pending = 1..n
  BY DEF TypeOK
<1>2. ASSUME NEW x \in B, NEW k \in 1..n PROVE Applied(x, pending[k]) \in B
  <2>1. pending[k] \in Change /\ pending[k] \in Range(pending)
    BY <1>1 DEF Range
  <2>2. pending[k].doc \in Docs
    BY <2>1 DEF Change
  <2>3. x \in [Ids -> Optional(Docs)] /\ x[i] = byId[i]
    OBVIOUS
  <2>4. Applied(x, pending[k]) \in [Ids -> Optional(Docs)]
    BY <2>2, <2>3 DEF Applied, Optional
  <2>5. Applied(x, pending[k])[i] = byId[i]
    <3>1. CASE pending[k].doc.id = i
      <4>1. ~pending[k].dead /\ byId[i] # None /\ ~Wins(pending[k].doc, byId[i])
        BY <2>1, <3>1
      <4>2. x[pending[k].doc.id] = byId[i]
        BY <2>3, <3>1
      <4>3. Applied(x, pending[k]) = x
        BY <4>1, <4>2 DEF Applied
      <4> QED BY <2>3, <4>3
    <3>2. CASE pending[k].doc.id # i
      BY <2>3, <3>2 DEF Applied
    <3> QED BY <3>1, <3>2
  <2> QED BY <2>4, <2>5
<1>3. byId \in B
  BY DEF TypeOK
<1> HIDE DEF B, n
<1>4. PICK h \in [0..n -> B] : Burst(byId, pending) = h[n]
  BY <1>1, <1>2, <1>3, FoldIsLoop DEF Loops
<1>5. n \in 0..n
  BY <1>1
<1>6. Burst(byId, pending) \in B
  BY <1>4, <1>5
<1> QED BY <1>6 DEF B

\* What waits in the buffer is of the replica in use.
LEMMA Buffered ==
  ASSUME Calm, NEW i, NEW c \in Range(pending), c.doc.id = i
  PROVE  c \in Out(i) /\ InUse
<1>1. c.store = stores /\ InUse
  BY CalmParts DEF SessionInv, Range
<1> QED BY <1>1, AliveIs

\* A burst leaves alone what is shown of a document whose persists are queued.
LEMMA FlushLeaves ==
  ASSUME Calm, NEW i \in Ids, Tracked(i)
  PROVE  Burst(byId, pending)[i] = byId[i]
<1>1. TypeOK /\ inFlight[i] # None /\ InUse
  BY CalmParts DEF Tracked, InUse
<1>2. byId[i] = inFlight[i].latest
  BY <1>1, CalmParts DEF EntryInv, EntryHolds
<1>3. EventHolds(i)
  BY <1>1, CalmParts DEF EventInv
<1>4. \A c \in Out(i) : ~c.dead /\ inFlight[i].latest # None /\ ~Wins(c.doc, inFlight[i].latest)
  BY <1>1, <1>3 DEF EventHolds
<1>5. \A c \in Range(pending) : c.doc.id = i => c \in Out(i)
  BY Buffered
<1> QED BY <1>1, <1>2, <1>4, <1>5, BurstLeaves

\* A step that leaves queues, calls and rows alone.
LEMMA EntryStill ==
  ASSUME Calm, UNCHANGED <<ops, rows, stores>>, NEW i \in Ids, SameEntry(i), inFlight'[i] # None, InUse' => InUse,
         Tracked(i)' => Tracked(i) /\ byId'[i] = byId[i]
  PROVE  EntryHolds(i)'
<1>1. CallsKeep /\ Untouched(i)
  BY DEF CallsKeep, Untouched
<1>2. SameSteps(i)
  BY DEF SameSteps, Wrote, Writes
<1>3. inFlight[i] # None /\ EntryHolds(i)
  BY CalmParts DEF SameEntry, EntryInv
<1> QED BY <1>1, <1>2, <1>3, EntryFrame, CalmParts

\* The step of a call that neither writes a row nor leaves its queue.
LEMMA EntryMoved ==
  ASSUME Calm, NEW o \in Ops, Start(o) \/ ListForIndex(o) \/ SetIndex(o) \/ Look(o) \/ MapEnvelope(o),
         NEW i \in Ids, i = ops[o].id, OpStep(o, i), inFlight'[i] # None
  PROVE  EntryHolds(i)' /\ SameEntry(i) /\ SameSteps(i) /\ Untouched(i)
<1>0. TypeOK /\ ShapeInv /\ IdInv
  BY CalmParts
<1>1. MoveEffect(o) /\ rows' = rows
  BY <1>0, MoveDoes, LookDoes DEF LookEffect
<1>2. /\ ops'[o].kind = ops[o].kind /\ \A b \in Ops : b # o => ops'[b] = ops[b]
      /\ UNCHANGED <<byId, inFlight, attached, stores, closing, swap, listing>>
  BY <1>1 DEF MoveEffect
<1>3. CallsKeep /\ (InUse' => InUse)
  BY Aside
<1>4. SameEntry(i) /\ Untouched(i) /\ (Tracked(i)' => Tracked(i) /\ byId'[i] = byId[i])
  BY <1>1, <1>2 DEF SameEntry, Queue, Untouched, Tracked
<1>5. (ops'[o].st \in {"map", "done"} /\ (ops'[o].kind # "remove" \/ ops'[o].env # None) <=> Wrote(o))
      /\ (Wrote(o) => ops'[o].env = ops[o].env)
  <2>1. CASE Start(o)
    BY <1>0, <2>1, MoveDoes DEF Wrote
  <2>2. CASE ListForIndex(o) \/ SetIndex(o)
    BY <1>0, <1>2, <2>2, MoveDoes DEF Wrote, Writes
  <2>3. CASE Look(o)
    BY <1>0, <1>2, <2>3, LookDoes DEF LookEffect, Wrote, Writes
  <2>4. CASE MapEnvelope(o)
    <3>1. ops[o].st = "map" /\ Writes(o)
      BY <1>0, <2>4 DEF MapEnvelope, Ready, ShapeInv, CallShape
    <3> QED BY <1>0, <1>2, <2>4, <3>1, MoveDoes DEF Wrote, Writes
  <2> QED BY <2>1, <2>2, <2>3, <2>4
<1>6. SameSteps(i)
  BY <1>2, <1>5 DEF SameSteps, Wrote, Writes
<1>7. EntryHolds(i) /\ inFlight[i] # None
  BY <1>2, CalmParts DEF EntryInv
<1> QED BY <1>0, <1>3, <1>4, <1>6, <1>7, EntryFrame

\* A step of a persist keeps EntryHolds of its own document.
LEMMA EntryOwn ==
  ASSUME Calm, Uncrossed', NEW o \in Ops, Persist(o), NEW i \in Ids, i = ops[o].id, inFlight'[i] # None
  PROVE  EntryHolds(i)'
<1>0. TypeOK /\ ShapeInv
  BY CalmParts
<1>1. OpStep(o, i)
  BY StepOf
<1>2. CASE Start(o) \/ ListForIndex(o) \/ SetIndex(o) \/ Look(o) \/ MapEnvelope(o)
  BY <1>1, <1>2, EntryMoved
<1>3. CASE Put(o)
  BY <1>3, PutEffect, EntryWritten
<1>4. PICK d : d = ops[o].env
  OBVIOUS
<1>5. CASE Patch(o)
  <2>1. d \in Envelopes
    BY <1>0, <1>4, <1>5, PatchWrites
  <2> QED BY <1>4, <1>5, <2>1, PatchEffect, EntryWritten
<1>6. CASE Bury(o)
  <2>1. d \in Envelopes
    BY <1>0, <1>4, <1>6, BuryWrites
  <2> QED BY <1>4, <1>6, <2>1, BuryDoes, EntryBuried
<1> QED BY <1>2, <1>3, <1>5, <1>6, EntryFinished, EntryRejected DEF Persist

\* The entry of a document that waits through a swap, in the replica that is attached.
LEMMA EntryAttached ==
  ASSUME Calm, BaseInv', Attach, NEW i \in Ids, inFlight'[i] # None
  PROVE  EntryHolds(i)'
<1>0. TypeOK /\ ShapeInv /\ TypeOK'
  BY CalmParts DEF BaseInv
<1>1. UNCHANGED <<ops, inFlight, swap>> /\ stores' = stores + 1 /\ ~InUse
  BY DEF Attach, store, InUse
<1>2. inFlight[i] # None /\ Queue(i)' = Queue(i)
  BY <1>1 DEF Queue
<1>3. stores \in 1..MaxStores /\ swap /\ EntryHolds(i)
  BY <1>1, <1>2, QueueHasReplica, CalmParts DEF Calm, EntryInv
<1>4. stores + 1 \in 1..MaxStores
  BY <1>3, ConstantsOK DEF Attach, ConstantsOK
<1>5. \A e \in Envelopes : rows'[stores'][e] # None => rows'[stores'][e] = rows[stores][e]
  <2>1. rows'[stores + 1] = [e \in Envelopes |-> IF e \in Live(rows[stores]) THEN rows[stores][e] ELSE None]
    BY <1>0, <1>3, <1>4 DEF Attach, TypeOK
  <2> QED BY <1>1, <2>1
<1>6. listing' # None
  <2>1. listing' = [store |-> stores + 1, seen |-> rows'[stores + 1]]
    BY DEF Attach
  <2>2. rows'[stores + 1] \in Listing /\ stores + 1 \in Nat
    BY <1>0, <1>4 DEF TypeOK
  <2>3. listing' \in Listed
    BY <2>1, <2>2 DEF Listed
  <2> QED BY <2>3, NoneIsApart
<1>7. \A q \in Ops : ops[q].st \notin {"map", "done"}
  BY <1>1, CalmParts DEF CallInv, CallHolds, Running
<1>8. CallsKeep
  BY <1>1 DEF CallsKeep
<1>9. \A q \in Ops : LastWrite(i, q)' => LastWrite(i, q)
  BY <1>0, <1>2, <1>8, SameQueue
<1>10. \A q \in Ops : LastWrite(i, q)' =>
             /\ inFlight'[i].latest = ops'[q].doc
             /\ \A d \in Envelopes : rows'[stores'][d] # None /\ rows'[stores'][d].doc.id = i =>
                  ~Wins(rows'[stores'][d].doc, ops'[q].doc)
             /\ ops'[q].st \notin {"map", "done"}
  BY <1>1, <1>2, <1>3, <1>5, <1>7, <1>9 DEF EntryHolds
<1>11. /\ 1 \in DOMAIN Queue(i) /\ Head(Queue(i)) = Queue(i)[1]
       /\ \A k \in DOMAIN Queue(i) : Queue(i)[k] \in Ops
  BY <1>2, QueuedCalls
<1>12. ~inFlight'[i].moved =>
         /\ (\A k \in DOMAIN Queue(i)' : ops'[Queue(i)'[k]].kind = "remove") => inFlight'[i].latest = inFlight'[i].confirmed
         /\ \A k \in DOMAIN Queue(i)', d \in Envelopes :
              ops'[Queue(i)'[k]].kind # "remove" /\ rows'[stores'][d] # None /\ rows'[stores'][d].doc.id = i =>
                ~Wins(rows'[stores'][d].doc, ops'[Queue(i)'[k]].doc)
         /\ ops'[Head(Queue(i)')].st \notin {"map", "done"}
  BY <1>1, <1>2, <1>3, <1>5, <1>7, <1>11 DEF EntryHolds, Writes
<1>13. ~Tracked(i)'
  BY <1>1, <1>3, <1>6 DEF Tracked
<1> QED BY <1>10, <1>12, <1>13, EntryIs

\* Every step that crosses nothing keeps EntryInv.
LEMMA EntryStep ==
  ASSUME Calm, BaseInv', Uncrossed', [Next]_vars
  PROVE  EntryInv'
<1> SUFFICES ASSUME NEW j \in Ids, inFlight'[j] # None PROVE EntryHolds(j)'
  BY DEF EntryInv
<1>0. TypeOK /\ ShapeInv /\ SessionInv /\ IdInv
  BY CalmParts
<1>1. ASSUME NEW o \in Ops, Persist(o) PROVE EntryHolds(j)'
  <2>1. PICK i : i = ops[o].id
    OBVIOUS
  <2>2. OpStep(o, i) /\ i \in Ids
    BY <1>1, <2>1, StepOf DEF OpStep
  <2>3. j # i => EntryHolds(j)'
    BY <2>2, AsideHolds
  <2> QED BY <1>1, <2>1, <2>2, <2>3, EntryOwn
<1>2. ASSUME NEW o \in Ops, NEW kind \in Kinds, NEW i \in Ids, Issue(o, kind, i) PROVE EntryHolds(j)'
  <2>1. OpStep(o, i)
    BY <1>0, <1>2, IssueDoes, IssueIsStep
  <2>2. j # i => EntryHolds(j)'
    BY <2>1, AsideHolds
  <2> QED BY <1>2, <2>2, EntryIssued
<1>3. ASSUME NEW p \in Pulls, Pull(p) PROVE EntryHolds(j)'
  <2>1. PICK e \in Envelopes, i \in Ids, doc \in Docs, dead \in BOOLEAN, c \in Change : PullEffect(p, e, i, doc, dead, c)
    BY <1>3, PullDoes
  <2>2. CASE j # i
    <3>1. /\ Untouched(j) /\ inFlight'[j] = inFlight[j]
          /\ UNCHANGED <<ops, byId, attached, closing, swap, listing>>
      BY <2>1, <2>2 DEF PullEffect
    <3>2. CallsKeep /\ SameEntry(j) /\ SameSteps(j) /\ (InUse' => InUse) /\ (Tracked(j)' => Tracked(j))
      BY <3>1 DEF CallsKeep, SameEntry, Queue, SameSteps, Wrote, Writes, InUse, Tracked
    <3>3. EntryHolds(j) /\ inFlight[j] # None
      BY <3>1, CalmParts DEF EntryInv
    <3> QED BY <1>0, <3>1, <3>2, <3>3, EntryFrame
  <2> QED BY <2>1, <2>2, EntryPulled
<1>4. ASSUME UNCHANGED <<ops, rows, stores, inFlight>>, InUse' => InUse, Tracked(j)' => Tracked(j) /\ byId'[j] = byId[j]
      PROVE EntryHolds(j)'
  <2>1. SameEntry(j)
    BY <1>4 DEF SameEntry, Queue
  <2> QED BY <1>4, <2>1, EntryStill
<1>5. ASSUME UNCHANGED <<byId, inFlight, ops, rows, attached, stores, closing, swap>>,
             listing' = None => listing = None
      PROVE EntryHolds(j)'
  BY <1>4, <1>5 DEF InUse, Tracked
<1>6. CASE Rehydrate \/ UNCHANGED vars
  BY <1>5, <1>6 DEF Rehydrate, vars, store, held, lives
<1>7. ASSUME NEW c \in events, Deliver(c) \/ Undecodable(c) PROVE EntryHolds(j)'
  BY <1>5, <1>7 DEF Deliver, Undecodable, store, held, lives
<1>8. CASE EndSwap
  BY <1>4, <1>8 DEF EndSwap, store, held, InUse, Tracked
<1>9. ASSUME NEW swaps \in BOOLEAN, Detach(swaps) PROVE EntryHolds(j)'
  BY <1>4, <1>9 DEF Detach, store, held, InUse, Tracked
<1>10. CASE CloseAndClear
  <2>1. ~Tracked(j)' /\ (InUse' => InUse)
    BY <1>0, <1>10 DEF CloseAndClear, Tracked, InUse, SessionInv
  <2> QED BY <1>4, <1>10, <2>1 DEF CloseAndClear, held
<1>11. CASE Flush
  <2>1. UNCHANGED <<ops, rows, stores, inFlight, attached, closing, swap, listing>> /\ byId' = Burst(byId, pending)
    BY <1>11 DEF Flush, held, lives
  <2>2. (InUse' => InUse) /\ (Tracked(j)' => Tracked(j))
    BY <2>1 DEF InUse, Tracked
  <2>3. Tracked(j) => byId'[j] = byId[j]
    BY <2>1, FlushLeaves
  <2> QED BY <1>4, <2>1, <2>2, <2>3
<1>12. CASE Hydrated
  <2>1. PICK seen : seen = listing.seen
    OBVIOUS
  <2>2. HydrateEffect(seen)
    BY <1>12, <2>1, HydrateDoes
  <2> QED BY <2>2, EntryHydrated
<1>13. CASE Attach
  BY <1>13, EntryAttached
<1> QED BY <1>1, <1>2, <1>3, <1>6, <1>7, <1>8, <1>9, <1>10, <1>11, <1>12, <1>13 DEF Next

(***************************************************************************)
(* Where what is shown or listed comes from                                *)
(***************************************************************************)
\* What a document's origin must satisfy after a step, read part by part.
LEMMA OriginIs ==
  ASSUME NEW i \in Ids,
         ~InUse' /\ byId'[i] # None => byId'[i].src \in Ops,
         \A d : d = byId'[i] /\ d # None /\ d.src \in Pulls /\ attached' # 0 /\ inFlight'[i] = None => Backed(d)',
         \A d, e : attached' # 0 /\ listing' # None /\ e \in LiveOf(listing'.seen, i) /\ d = listing'.seen[e].doc =>
           \/ Backed(d)'
           \/ inFlight'[i] # None /\ inFlight'[i].moved /\ \E o \in Ops : LastWrite(i, o)' /\ ~Wins(d, ops'[o].doc)
  PROVE  OriginHolds(i)'
<1>1. ASSUME attached' # 0, inFlight'[i] = None, byId'[i] # None, byId'[i].src \in Pulls PROVE Backed(byId[i])'
  <2>1. PICK d : d = byId'[i]
    OBVIOUS
  <2>2. Backed(d)'
    BY <1>1, <2>1
  <2> QED BY <2>1, <2>2 DEF Backed, Wins
<1>2. ASSUME attached' # 0, listing' # None, NEW e \in LiveOf(listing'.seen, i)
      PROVE  \/ Backed(listing.seen[e].doc)'
             \/ inFlight'[i] # None /\ inFlight'[i].moved
                /\ \E o \in Ops : LastWrite(i, o)' /\ ~Wins(listing.seen[e].doc, ops[o].doc)'
  <2>1. PICK d : d = listing'.seen[e].doc
    OBVIOUS
  <2>2. \/ Backed(d)'
        \/ inFlight'[i] # None /\ inFlight'[i].moved /\ \E o \in Ops : LastWrite(i, o)' /\ ~Wins(d, ops'[o].doc)
    BY <1>2, <2>1
  <2>3. Backed(d)' => Backed(listing.seen[e].doc)'
    BY <2>1 DEF Backed, Wins
  <2>4. \A o : Wins(listing.seen[e].doc, ops[o].doc)' <=> Wins(d, ops'[o].doc)
    BY <2>1 DEF Wins
  <2> QED BY <2>2, <2>3, <2>4
<1>3. \A e : e \in LiveOf(listing.seen, i)' <=> e \in LiveOf(listing'.seen, i)
  BY DEF LiveOf, Live
<1> QED BY <1>1, <1>2, <1>3 DEF OriginHolds

\* A row that only gives way to a newer document backs what it backed.
LEMMA BackedStays ==
  ASSUME TypeOK, stores \in 1..MaxStores, stores' = stores, NEW i \in Ids, NEW d \in Docs, d.id = i, Backed(d),
         \A e \in Envelopes : rows[stores][e] # None /\ rows[stores][e].doc.id = i =>
            /\ rows'[stores][e] # None /\ rows'[stores][e].doc.id = i /\ rows'[stores][e].doc \in Docs
            /\ ~Wins(rows[stores][e].doc, rows'[stores][e].doc)
  PROVE  Backed(d)'
<1>1. PICK e \in Envelopes : rows[stores][e] # None /\ rows[stores][e].doc.id = d.id /\ ~Wins(d, rows[stores][e].doc)
  BY DEF Backed
<1>2. rows[stores][e].doc \in Docs
  BY <1>1, RowFields
<1>3. ~Wins(d, rows'[stores][e].doc)
  BY <1>1, <1>2, WinsOrder
<1>4. Backed(d)' <=> \E f \in Envelopes : rows'[stores'][f] # None /\ rows'[stores'][f].doc.id = d.id /\ ~Wins(d, rows'[stores'][f].doc)
  BY DEF Backed, Wins
<1> QED BY <1>1, <1>3, <1>4

\* Rows left alone back the same documents.
LEMMA BackedSame ==
  ASSUME rows' = rows, stores' = stores, NEW d
  PROVE  Backed(d)' <=> Backed(d)
BY DEF Backed, Wins

\* A live row backs its own document.
LEMMA RowBacks ==
  ASSUME TypeOK, stores \in 1..MaxStores, NEW i, NEW e \in Alive(i), NEW d, d \in Docs, d.id = i,
         d = rows[stores][e].doc \/ ~Wins(d, rows[stores][e].doc)
  PROVE  Backed(d)
BY AliveIs, WinsOrder DEF Backed

\* A document of the listing under way.
LEMMA ListedDoc ==
  ASSUME Calm, attached # 0, listing # None, NEW i \in Ids, NEW e \in LiveOf(listing.seen, i), NEW d, d = listing.seen[e].doc
  PROVE  /\ d \in Docs /\ d.id = i /\ d.ts <= clock
         /\ \/ Backed(d)
            \/ inFlight[i] # None /\ inFlight[i].moved /\ \E o \in Ops : LastWrite(i, o) /\ ~Wins(d, ops[o].doc)
<1>1. e \in Envelopes /\ listing.seen[e] # None /\ d.id = i
  BY DEF LiveOf, Live
<1>2. listing.seen[e] \in Rows
  BY <1>1, CalmParts DEF TypeOK, Listed, Listing, Optional
<1>3. d.ts <= clock
  BY <1>1, CalmParts DEF StampInv
<1> QED BY <1>1, <1>2, <1>3, CalmParts DEF Rows, OriginInv, OriginHolds

\* A row of the document of a call is written.
LEMMA OriginWritten ==
  ASSUME Calm, NEW o \in Ops, NEW i, NEW e, WriteEffect(o, i, e)
  PROVE  OriginHolds(i)'
<1>0. TypeOK /\ ShapeInv
  BY CalmParts
<1>1. /\ i \in Ids /\ i = ops[o].id /\ e \in Envelopes /\ Running(o) /\ Writes(o) /\ stores \in 1..MaxStores
      /\ inFlight[i] # None /\ ops[o].doc \in Docs /\ ops[o].doc.id = i /\ InUse
      /\ rows'[stores][e].doc = ops[o].doc /\ rows'[stores][e] # None
      /\ \A d \in Envelopes : d # e => rows'[stores][d] = rows[stores][d]
  BY DEF WriteEffect
<1>2. /\ \A b \in Ops : b # o => ops'[b] = ops[b]
      /\ ops'[o].kind = ops[o].kind /\ ops'[o].doc = ops[o].doc /\ ops'[o].id = ops[o].id
      /\ UNCHANGED <<byId, inFlight, attached, closing, stores, listing>>
  BY DEF WriteEffect, MoveEffect
<1>3. CallsKeep /\ Queue(i)' = Queue(i) /\ InUse'
  BY <1>1, <1>2 DEF CallsKeep, Queue, InUse
<1>4. \A p \in Ops : LastWrite(i, p) => LastWrite(i, p)' /\ ops'[p].doc = ops[p].doc /\ Busy(p)
  BY <1>0, <1>1, <1>3, SameQueue
<1>5. EntryHolds(i) /\ 1 \in DOMAIN Queue(i) /\ Queue(i)[1] = o
  BY <1>1, QueuedCalls, RunsHere
<1>6. ASSUME NEW d, NEW x, attached' # 0, listing' # None, x \in LiveOf(listing'.seen, i), d = listing'.seen[x].doc
      PROVE  \/ Backed(d)'
             \/ inFlight'[i] # None /\ inFlight'[i].moved /\ \E p \in Ops : LastWrite(i, p)' /\ ~Wins(d, ops'[p].doc)
  <2>1. /\ d \in Docs /\ d.id = i
        /\ \/ Backed(d)
           \/ inFlight[i] # None /\ inFlight[i].moved /\ \E p \in Ops : LastWrite(i, p) /\ ~Wins(d, ops[p].doc)
    BY <1>1, <1>2, <1>6, ListedDoc
  <2>2. CASE ~Backed(d)
    BY <1>2, <1>4, <2>1, <2>2
  <2>3. CASE Backed(d) /\ ~inFlight[i].moved
    <3>1. \A f \in Envelopes : rows[stores][f] # None /\ rows[stores][f].doc.id = i => ~Wins(rows[stores][f].doc, ops[o].doc)
      BY <1>1, <1>5, <2>3 DEF EntryHolds
    <3>2. ASSUME NEW f \in Envelopes, rows[stores][f] # None, rows[stores][f].doc.id = i
          PROVE  /\ rows'[stores][f] # None /\ rows'[stores][f].doc.id = i /\ rows'[stores][f].doc \in Docs
                 /\ ~Wins(rows[stores][f].doc, rows'[stores][f].doc)
      <4>1. rows[stores][f].doc \in Docs
        BY <1>0, <1>1, <3>2, RowFields
      <4> QED BY <1>1, <3>1, <3>2, <4>1, WinsOrder
    <3> QED BY <1>0, <1>1, <1>2, <2>1, <2>3, <3>2, BackedStays
  <2>4. CASE Backed(d) /\ inFlight[i].moved
    <3>1. PICK p \in Ops : LastWrite(i, p)
      BY <1>0, <1>1, <1>5, LastWriteExists
    <3>2. PICK f \in Envelopes : rows[stores][f] # None /\ rows[stores][f].doc.id = d.id /\ ~Wins(d, rows[stores][f].doc)
      BY <2>4 DEF Backed
    <3>3. ~Wins(rows[stores][f].doc, ops[p].doc)
      BY <1>5, <2>1, <3>1, <3>2 DEF EntryHolds
    <3>4. rows[stores][f].doc \in Docs /\ ops[p].doc \in Docs
      BY <1>0, <1>1, <1>4, <3>1, <3>2, RowFields, BusyCall DEF LastWrite
    <3>5. ~Wins(d, ops[p].doc)
      BY <2>1, <3>2, <3>3, <3>4, WinsOrder
    <3> QED BY <1>1, <1>2, <1>4, <2>4, <3>1, <3>5
  <2> QED BY <2>2, <2>3, <2>4
<1>20. ~InUse' /\ byId'[i] # None => byId'[i].src \in Ops
  BY <1>3
<1>21. \A d : d = byId'[i] /\ d # None /\ d.src \in Pulls /\ attached' # 0 /\ inFlight'[i] = None => Backed(d)'
  BY <1>1, <1>2
<1>22. \A d, x : attached' # 0 /\ listing' # None /\ x \in LiveOf(listing'.seen, i) /\ d = listing'.seen[x].doc =>
         \/ Backed(d)'
         \/ inFlight'[i] # None /\ inFlight'[i].moved /\ \E p \in Ops : LastWrite(i, p)' /\ ~Wins(d, ops'[p].doc)
  BY <1>6
<1> QED BY <1>1, <1>20, <1>21, <1>22, OriginIs

\* Bury keeps OriginHolds of its document.
LEMMA OriginBuried ==
  ASSUME Calm, NEW o \in Ops, NEW i, NEW e, BuryEffect(o, i, e)
  PROVE  OriginHolds(i)'
<1>0. TypeOK /\ ShapeInv
  BY CalmParts
<1>1. /\ i \in Ids /\ i = ops[o].id /\ e \in Envelopes /\ stores \in 1..MaxStores /\ inFlight[i] # None /\ InUse
      /\ \A d \in Envelopes : d # e => rows'[stores][d] = rows[stores][d]
      /\ rows'[stores][e].doc = rows[stores][e].doc /\ rows'[stores][e] # None
  BY DEF BuryEffect
<1>2. /\ \A b \in Ops : b # o => ops'[b] = ops[b]
      /\ ops'[o].kind = ops[o].kind /\ ops'[o].doc = ops[o].doc /\ ops'[o].id = ops[o].id
      /\ UNCHANGED <<byId, inFlight, attached, closing, stores, listing>>
  BY DEF BuryEffect, MoveEffect
<1>3. CallsKeep /\ Queue(i)' = Queue(i) /\ InUse'
  BY <1>1, <1>2 DEF CallsKeep, Queue, InUse
<1>4. \A p \in Ops : LastWrite(i, p) => LastWrite(i, p)' /\ ops'[p].doc = ops[p].doc
  BY <1>0, <1>1, <1>3, SameQueue
<1>6. ASSUME NEW d, NEW x, attached' # 0, listing' # None, x \in LiveOf(listing'.seen, i), d = listing'.seen[x].doc
      PROVE  \/ Backed(d)'
             \/ inFlight'[i] # None /\ inFlight'[i].moved /\ \E p \in Ops : LastWrite(i, p)' /\ ~Wins(d, ops'[p].doc)
  <2>1. /\ d \in Docs /\ d.id = i
        /\ \/ Backed(d)
           \/ inFlight[i] # None /\ inFlight[i].moved /\ \E p \in Ops : LastWrite(i, p) /\ ~Wins(d, ops[p].doc)
    BY <1>1, <1>2, <1>6, ListedDoc
  <2>2. \A f \in Envelopes : rows[stores][f] # None /\ rows[stores][f].doc.id = i =>
            /\ rows'[stores][f] # None /\ rows'[stores][f].doc.id = i /\ rows'[stores][f].doc \in Docs
            /\ ~Wins(rows[stores][f].doc, rows'[stores][f].doc)
    BY <1>0, <1>1, RowFields, WinsOrder
  <2>3. Backed(d) => Backed(d)'
    BY <1>0, <1>1, <1>2, <2>1, <2>2, BackedStays
  <2> QED BY <1>2, <1>4, <2>1, <2>3
<1>20. ~InUse' /\ byId'[i] # None => byId'[i].src \in Ops
  BY <1>3
<1>21. \A d : d = byId'[i] /\ d # None /\ d.src \in Pulls /\ attached' # 0 /\ inFlight'[i] = None => Backed(d)'
  BY <1>1, <1>2
<1>22. \A d, x : attached' # 0 /\ listing' # None /\ x \in LiveOf(listing'.seen, i) /\ d = listing'.seen[x].doc =>
         \/ Backed(d)'
         \/ inFlight'[i] # None /\ inFlight'[i].moved /\ \E p \in Ops : LastWrite(i, p)' /\ ~Wins(d, ops'[p].doc)
  BY <1>6
<1> QED BY <1>1, <1>20, <1>21, <1>22, OriginIs

\* A call settles.
LEMMA OriginFinished ==
  ASSUME Calm, NEW o \in Ops, Finish(o), NEW i \in Ids, i = ops[o].id
  PROVE  OriginHolds(i)'
<1>0. TypeOK /\ ShapeInv
  BY CalmParts
<1>1. FinishEffect(o, i) /\ ops[o].st = "done"
  BY <1>0, FinishDoes DEF FinishEffect
<1>2. Running(o) /\ inFlight[i] # None /\ Queue(i)[1] = o /\ InUse /\ (attached # 0 => ~swap) /\ stores \in 1..MaxStores
      /\ (Writes(o) => ops[o].doc \in Docs /\ ops[o].doc.src = o)
  BY <1>1, RunsHere DEF Running
<1>3. /\ EntryHolds(i) /\ 1 \in DOMAIN Queue(i) /\ Len(Queue(i)) \in Nat /\ DOMAIN Queue(i) = 1..Len(Queue(i))
      /\ \A k \in DOMAIN Queue(i) : Queue(i)[k] \in Ops /\ Busy(Queue(i)[k]) /\ ops[Queue(i)[k]].id = i
  BY <1>2, QueuedCalls
<1>4. /\ UNCHANGED <<rows, stores, attached, closing, listing>>
      /\ \A b \in Ops : b # o => ops'[b] = ops[b]
      /\ ops'[o].kind = ops[o].kind /\ ops'[o].doc = ops[o].doc
      /\ inFlight'[i] = None <=> Len(Queue(i)) = 1
      /\ inFlight'[i] # None => Queue(i)' = Tail(Queue(i)) /\ inFlight'[i].moved = inFlight[i].moved
      /\ Writes(o) => byId'[i] = byId[i]
      /\ ~Writes(o) => byId'[i] = None
  BY <1>1 DEF FinishEffect, SettleEffect
<1>5. InUse'
  BY <1>2, <1>4 DEF InUse
<1>6. ASSUME attached' # 0, inFlight'[i] = None, byId'[i] # None PROVE byId'[i].src \notin Pulls
  <2>1. Writes(o) /\ byId'[i] = byId[i] /\ Len(Queue(i)) = 1
    BY <1>4, <1>6
  <2>2. LastWrite(i, o)
    BY <1>2, <1>3, <2>1 DEF LastWrite
  <2>3. byId[i] = ops[o].doc
    BY <1>2, <1>3, <1>4, <1>6, <2>2 DEF EntryHolds, Tracked
  <2> QED BY <1>2, <2>1, <2>3, ConstantsOK DEF ConstantsOK
<1>7. ASSUME NEW d, NEW x, attached' # 0, listing' # None, x \in LiveOf(listing'.seen, i), d = listing'.seen[x].doc
      PROVE  \/ Backed(d)'
             \/ inFlight'[i] # None /\ inFlight'[i].moved /\ \E p \in Ops : LastWrite(i, p)' /\ ~Wins(d, ops'[p].doc)
  <2>1. /\ d \in Docs /\ d.id = i
        /\ \/ Backed(d)
           \/ inFlight[i] # None /\ inFlight[i].moved /\ \E p \in Ops : LastWrite(i, p) /\ ~Wins(d, ops[p].doc)
    BY <1>4, <1>7, ListedDoc
  <2>2. CASE Backed(d)
    BY <1>4, <2>2, BackedSame
  <2>3. CASE ~Backed(d)
    <3>1. PICK p \in Ops : LastWrite(i, p) /\ ~Wins(d, ops[p].doc)
      BY <2>1, <2>3
    <3>2. PICK k \in DOMAIN Queue(i) : Queue(i)[k] = p /\ Writes(p) /\ \A j \in DOMAIN Queue(i) : j > k => ~Writes(Queue(i)[j])
      BY <3>1 DEF LastWrite
    <3>3. CASE p = o
      <4>1. Shown(i) = ops[o].doc /\ ops[o].doc # None
        BY <1>1, <1>2, <1>3, <3>1, <3>2, <3>3, NoneIsApart DEF EntryHolds
      <4>2. PICK e : e \in Alive(i) /\ rows[stores][e].doc = ops[o].doc
        BY <1>0, <1>2, <4>1, Alone, CalmParts
      <4>3. Backed(d)
        BY <1>0, <1>2, <2>1, <3>1, <3>3, <4>2, RowBacks
      <4> QED BY <2>3, <4>3
    <3>4. CASE p # o
      <4>1. k > 1
        BY <1>2, <1>3, <3>2, <3>4
      <4>2. inFlight'[i] # None /\ Queue(i)' = Tail(Queue(i)) /\ inFlight'[i].moved
        BY <1>3, <1>4, <2>1, <2>3, <3>2, <4>1
      <4>3. Queue(i) \in Seq(Ops) /\ Queue(i) # <<>>
        BY <1>0, <1>2, EntryAt
      <4>4. /\ DOMAIN Queue(i)' = 1..(Len(Queue(i)) - 1)
            /\ \A j \in DOMAIN Queue(i)' : Queue(i)'[j] = Queue(i)[j + 1] /\ j + 1 \in DOMAIN Queue(i)
        BY <4>2, <4>3, QueueParts
      <4>5. k - 1 \in DOMAIN Queue(i)' /\ Queue(i)'[k - 1] = p
        BY <1>3, <3>2, <4>1, <4>4
      <4>6. ASSUME NEW j \in DOMAIN Queue(i)', j > k - 1 PROVE ops'[Queue(i)'[j]].kind = "remove"
        <5>1. j + 1 \in DOMAIN Queue(i) /\ j + 1 > k /\ Queue(i)'[j] = Queue(i)[j + 1]
          BY <1>3, <4>4, <4>6
        <5>2. ops[Queue(i)[j + 1]].kind = "remove" /\ Queue(i)[j + 1] \in Ops
          BY <1>3, <3>2, <5>1 DEF Writes
        <5>3. ops'[Queue(i)[j + 1]].kind = ops[Queue(i)[j + 1]].kind
          BY <1>4, <5>2
        <5> QED BY <5>1, <5>2, <5>3
      <4>7. LastWrite(i, p)'
        <5>1. ops'[p].kind # "remove"
          BY <1>4, <3>2, <3>4 DEF Writes
        <5> QED BY <4>5, <4>6, <5>1, LastWriteIs
      <4>8. ops'[p].doc = ops[p].doc
        BY <1>4, <3>4
      <4> QED BY <3>1, <4>2, <4>7, <4>8
    <3> QED BY <3>3, <3>4
  <2> QED BY <2>2, <2>3
<1>20. ~InUse' /\ byId'[i] # None => byId'[i].src \in Ops
  BY <1>5
<1>21. \A d : d = byId'[i] /\ d # None /\ d.src \in Pulls /\ attached' # 0 /\ inFlight'[i] = None => Backed(d)'
  BY <1>6
<1>22. \A d, x : attached' # 0 /\ listing' # None /\ x \in LiveOf(listing'.seen, i) /\ d = listing'.seen[x].doc =>
         \/ Backed(d)'
         \/ inFlight'[i] # None /\ inFlight'[i].moved /\ \E p \in Ops : LastWrite(i, p)' /\ ~Wins(d, ops'[p].doc)
  BY <1>7
<1> QED BY <1>1, <1>20, <1>21, <1>22, OriginIs

\* Rejecting a call keeps OriginHolds of its document.
LEMMA OriginRejected ==
  ASSUME Calm, Uncrossed', NEW o \in Ops, Rejects(o), NEW i \in Ids, i = ops[o].id
  PROVE  OriginHolds(i)'
<1>0. TypeOK /\ ShapeInv
  BY CalmParts
<1>1. RejectEffect(o, i) /\ ~inFlight[i].moved
  BY <1>0, RejectsDoes DEF RejectEffect, Uncrossed
<1>2. inFlight[i] # None /\ Queue(i)[1] = o
  BY <1>1 DEF RejectEffect, SettleEffect
<1>3. /\ EntryHolds(i) /\ 1 \in DOMAIN Queue(i) /\ Len(Queue(i)) \in Nat /\ DOMAIN Queue(i) = 1..Len(Queue(i))
      /\ \A k \in DOMAIN Queue(i) : Queue(i)[k] \in Ops
  BY <1>2, QueuedCalls
<1>4. /\ UNCHANGED <<rows, stores, attached, closing, listing>>
      /\ inFlight'[i] = None <=> Len(Queue(i)) = 1
      /\ byId'[i] = (IF Writes(o) /\ inFlight[i].latest = ops[o].doc THEN inFlight[i].confirmed ELSE byId[i])
  BY <1>1 DEF RejectEffect, SettleEffect
<1>5. InUse /\ (attached # 0 => Tracked(i))
  <2>1. CASE ops[o].st = "queued" /\ ~swap /\ attached = 0
    BY <2>1, QueueParted DEF Busy
  <2>2. CASE Running(o)
    BY <1>2, <2>2, RunsHere DEF Tracked
  <2> QED BY <1>1, <2>1, <2>2 DEF RejectEffect, Running
<1>6. InUse'
  BY <1>4, <1>5 DEF InUse
<1>7. ASSUME NEW d, d = byId'[i], d # None, d.src \in Pulls, attached' # 0, inFlight'[i] = None PROVE Backed(d)'
  <2>1. d = inFlight[i].confirmed
    <3>1. CASE Writes(o) /\ inFlight[i].latest = ops[o].doc
      BY <1>4, <1>7, <3>1
    <3>2. CASE ~(Writes(o) /\ inFlight[i].latest = ops[o].doc)
      <4>1. d = inFlight[i].latest
        BY <1>3, <1>4, <1>5, <1>7, <3>2 DEF EntryHolds
      <4>2. Writes(o) => LastWrite(i, o)
        BY <1>2, <1>3, <1>4, <1>7 DEF LastWrite
      <4>3. ~Writes(o)
        BY <1>3, <3>2, <4>2 DEF EntryHolds
      <4>4. \A k \in DOMAIN Queue(i) : ~Writes(Queue(i)[k])
        BY <1>2, <1>3, <1>4, <1>7, <4>3
      <4> QED BY <1>1, <1>3, <4>1, <4>4 DEF EntryHolds
    <3> QED BY <3>1, <3>2
  <2>2. Backed(inFlight[i].confirmed)
    BY <1>1, <1>3, <1>4, <1>5, <1>7, <2>1 DEF EntryHolds
  <2>3. Backed(d)
    BY <2>1, <2>2 DEF Backed
  <2> QED BY <1>4, <2>3, BackedSame
<1>8. ASSUME NEW d, NEW x, attached' # 0, listing' # None, x \in LiveOf(listing'.seen, i), d = listing'.seen[x].doc
      PROVE  Backed(d)'
  <2>1. Backed(d)
    BY <1>1, <1>4, <1>8, ListedDoc
  <2> QED BY <1>4, <2>1, BackedSame
<1>20. ~InUse' /\ byId'[i] # None => byId'[i].src \in Ops
  BY <1>6
<1>21. \A d : d = byId'[i] /\ d # None /\ d.src \in Pulls /\ attached' # 0 /\ inFlight'[i] = None => Backed(d)'
  BY <1>7
<1>22. \A d, x : attached' # 0 /\ listing' # None /\ x \in LiveOf(listing'.seen, i) /\ d = listing'.seen[x].doc =>
         \/ Backed(d)'
         \/ inFlight'[i] # None /\ inFlight'[i].moved /\ \E p \in Ops : LastWrite(i, p)' /\ ~Wins(d, ops'[p].doc)
  BY <1>8
<1> QED BY <1>1, <1>20, <1>21, <1>22, OriginIs

\* Issuing a call keeps OriginHolds of its document.
LEMMA OriginIssued ==
  ASSUME Calm, Uncrossed', NEW o \in Ops, NEW kind \in Kinds, NEW i \in Ids, Issue(o, kind, i)
  PROVE  OriginHolds(i)'
<1>0. TypeOK /\ ShapeInv
  BY CalmParts
<1>1. IssueEffect(o, kind, i)
  BY <1>0, IssueDoes
<1>2. /\ ops'[o].kind = kind /\ inFlight'[i] # None
      /\ \A b \in Ops : b # o => ops'[b] = ops[b]
      /\ UNCHANGED <<rows, stores, attached, closing, swap, listing>>
      /\ kind # "remove" => /\ ops'[o].doc \in Docs /\ ops'[o].doc.ts = clock + 1 /\ ops'[o].doc.src = o
                            /\ byId'[i] = ops'[o].doc
      /\ kind = "remove" => byId'[i] = byId[i]
      /\ inFlight[i] # None => Queue(i)' = Append(Queue(i), o) /\ inFlight'[i].moved = inFlight[i].moved
      /\ ops[o].st = "new"
  BY <1>1 DEF IssueEffect
<1>3. ~InUse' /\ byId'[i] # None => byId'[i].src \in Ops
  <2>1. ~InUse' => ~InUse
    BY <1>2 DEF InUse
  <2> QED BY <1>2, <2>1, CalmParts DEF OriginInv, OriginHolds
<1>4. ASSUME NEW d, NEW x, attached' # 0, listing' # None, x \in LiveOf(listing'.seen, i), d = listing'.seen[x].doc
      PROVE  \/ Backed(d)'
             \/ inFlight'[i] # None /\ inFlight'[i].moved /\ \E p \in Ops : LastWrite(i, p)' /\ ~Wins(d, ops'[p].doc)
  <2>1. /\ d \in Docs /\ d.id = i /\ d.ts <= clock
        /\ \/ Backed(d)
           \/ inFlight[i] # None /\ inFlight[i].moved /\ \E p \in Ops : LastWrite(i, p) /\ ~Wins(d, ops[p].doc)
    BY <1>2, <1>4, ListedDoc
  <2>2. CASE Backed(d)
    BY <1>2, <2>2, BackedSame
  <2>3. CASE ~Backed(d)
    <3>1. /\ inFlight[i] # None /\ inFlight'[i].moved /\ Queue(i)' = Append(Queue(i), o)
      BY <1>2, <2>1, <2>3
    <3>2. /\ Queue(i) \in Seq(Ops) /\ Len(Queue(i)) \in Nat /\ DOMAIN Queue(i) = 1..Len(Queue(i))
          /\ \A k \in DOMAIN Queue(i) : Queue(i)[k] \in Ops /\ Busy(Queue(i)[k])
      BY <1>0, <3>1, EntryAt
    <3>3. /\ DOMAIN Queue(i)' = 1..(Len(Queue(i)) + 1) /\ Queue(i)'[Len(Queue(i)) + 1] = o
          /\ Len(Queue(i)) + 1 \in DOMAIN Queue(i)'
          /\ \A k \in DOMAIN Queue(i) : k \in DOMAIN Queue(i)' /\ Queue(i)'[k] = Queue(i)[k]
          /\ \A k \in DOMAIN Queue(i)' : k \in DOMAIN Queue(i) \/ k = Len(Queue(i)) + 1
      BY <3>1, <3>2, QueueAppend
    <3>4. CASE kind # "remove"
      <4>1. LastWrite(i, o)'
        <5>1. \A j \in DOMAIN Queue(i)' : ~(j > Len(Queue(i)) + 1)
          BY <3>2, <3>3
        <5> QED BY <1>2, <3>3, <3>4, <5>1, LastWriteIs
      <4>2. d.ts < ops'[o].doc.ts
        BY <1>0, <1>2, <2>1, <3>4 DEF TypeOK, Docs
      <4>3. ~Wins(d, ops'[o].doc)
        BY <1>2, <2>1, <3>4, <4>2, WinsOrder
      <4> QED BY <1>2, <3>1, <4>1, <4>3
    <3>5. CASE kind = "remove"
      <4>1. PICK p \in Ops : LastWrite(i, p) /\ ~Wins(d, ops[p].doc)
        BY <2>1, <2>3
      <4>2. PICK k \in DOMAIN Queue(i) : Queue(i)[k] = p /\ Writes(p) /\ \A j \in DOMAIN Queue(i) : j > k => ~Writes(Queue(i)[j])
        BY <4>1 DEF LastWrite
      <4>3. \A n \in DOMAIN Queue(i) : ops'[Queue(i)[n]] = ops[Queue(i)[n]]
        BY <1>2, <3>2 DEF Busy
      <4>4. \A j \in DOMAIN Queue(i)' : j > k => ops'[Queue(i)'[j]].kind = "remove"
        BY <1>2, <3>3, <3>5, <4>2, <4>3 DEF Writes
      <4>5. ops'[p] = ops[p] /\ ops'[p].kind # "remove" /\ Queue(i)'[k] = p /\ k \in DOMAIN Queue(i)'
        BY <3>3, <4>2, <4>3 DEF Writes
      <4>6. LastWrite(i, p)'
        BY <4>4, <4>5, LastWriteIs
      <4> QED BY <1>2, <3>1, <4>1, <4>5, <4>6
    <3> QED BY <3>4, <3>5
  <2> QED BY <2>2, <2>3
<1>5. \A d : d = byId'[i] /\ d # None /\ d.src \in Pulls /\ attached' # 0 /\ inFlight'[i] = None => Backed(d)'
  BY <1>2
<1>6. \A d, e : attached' # 0 /\ listing' # None /\ e \in LiveOf(listing'.seen, i) /\ d = listing'.seen[e].doc =>
         \/ Backed(d)'
         \/ inFlight'[i] # None /\ inFlight'[i].moved /\ \E p \in Ops : LastWrite(i, p)' /\ ~Wins(d, ops'[p].doc)
  BY <1>4
<1> QED BY <1>3, <1>5, <1>6, OriginIs

\* A pull keeps OriginHolds of its document.
LEMMA OriginPulled ==
  ASSUME Calm, NEW p, NEW e, NEW i, NEW doc, NEW dead, NEW c, PullEffect(p, e, i, doc, dead, c)
  PROVE  OriginHolds(i)'
<1>0. TypeOK /\ ShapeInv /\ IdInv
  BY CalmParts
<1>1. /\ i \in Ids /\ e \in Envelopes /\ doc \in Docs /\ doc.id = i /\ stores \in 1..MaxStores /\ InUse
      /\ rows'[stores][e].doc = doc /\ rows'[stores][e] # None
      /\ \A d \in Envelopes : d # e => rows'[stores][d] = rows[stores][d]
      /\ inFlight'[i] = None <=> inFlight[i] = None
      /\ inFlight[i] # None => Queue(i)' = Queue(i) /\ inFlight'[i].moved = TRUE
      /\ UNCHANGED <<byId, ops, attached, closing, swap, listing, stores>>
  BY DEF PullEffect
<1>2. rows[stores][e] # None => rows[stores][e].doc \in Docs /\ ~Wins(rows[stores][e].doc, doc)
  <2>1. rows[stores][e] = None \/ Wins(doc, rows[stores][e].doc) \/ doc = rows[stores][e].doc
    BY DEF PullEffect, PullNew, PullLive, PullDead
  <2>2. rows[stores][e] # None => rows[stores][e].doc \in Docs
    BY <1>0, <1>1, RowFields
  <2> QED BY <1>1, <2>1, <2>2, WinsOrder
<1>3. ASSUME NEW f \in Envelopes, rows[stores][f] # None, rows[stores][f].doc.id = i
      PROVE  /\ rows'[stores][f] # None /\ rows'[stores][f].doc.id = i /\ rows'[stores][f].doc \in Docs
             /\ ~Wins(rows[stores][f].doc, rows'[stores][f].doc)
  <2>1. rows[stores][f].doc \in Docs
    BY <1>0, <1>1, <1>3, RowFields
  <2> QED BY <1>1, <1>2, <1>3, <2>1, WinsOrder
<1>4. ASSUME NEW d \in Docs, d.id = i, Backed(d) PROVE Backed(d)'
  BY <1>0, <1>1, <1>3, <1>4, BackedStays
<1>5. InUse' /\ CallsKeep
  BY <1>1 DEF InUse, CallsKeep
<1>6. ASSUME NEW d, d = byId'[i], d # None, d.src \in Pulls, attached' # 0, inFlight'[i] = None PROVE Backed(d)'
  <2>1. d \in Docs /\ d.id = i
    BY <1>0, <1>1, <1>6 DEF TypeOK, Optional, IdInv
  <2>2. Backed(d)
    BY <1>1, <1>6, CalmParts DEF OriginInv, OriginHolds
  <2> QED BY <1>4, <2>1, <2>2
<1>7. ASSUME NEW d, NEW x, attached' # 0, listing' # None, x \in LiveOf(listing'.seen, i), d = listing'.seen[x].doc
      PROVE  \/ Backed(d)'
             \/ inFlight'[i] # None /\ inFlight'[i].moved /\ \E q \in Ops : LastWrite(i, q)' /\ ~Wins(d, ops'[q].doc)
  <2>1. /\ d \in Docs /\ d.id = i
        /\ \/ Backed(d)
           \/ inFlight[i] # None /\ inFlight[i].moved /\ \E q \in Ops : LastWrite(i, q) /\ ~Wins(d, ops[q].doc)
    BY <1>1, <1>7, ListedDoc
  <2>2. inFlight[i] # None => \A q \in Ops : LastWrite(i, q) => LastWrite(i, q)'
    BY <1>0, <1>1, <1>5, SameQueue
  <2> QED BY <1>1, <1>4, <2>1, <2>2
<1>8. \A d : d = byId'[i] /\ d # None /\ d.src \in Pulls /\ attached' # 0 /\ inFlight'[i] = None => Backed(d)'
  BY <1>6
<1>9. \A d, x : attached' # 0 /\ listing' # None /\ x \in LiveOf(listing'.seen, i) /\ d = listing'.seen[x].doc =>
         \/ Backed(d)'
         \/ inFlight'[i] # None /\ inFlight'[i].moved /\ \E q \in Ops : LastWrite(i, q)' /\ ~Wins(d, ops'[q].doc)
  BY <1>7
<1>10. ~InUse' /\ byId'[i] # None => byId'[i].src \in Ops
  BY <1>5
<1> QED BY <1>1, <1>8, <1>9, <1>10, OriginIs

\* A burst shows of a document what was shown, nothing, or what one of its events brings.
LEMMA BurstFrom ==
  ASSUME TypeOK, NEW i \in Ids
  PROVE  \/ Burst(byId, pending)[i] \in {byId[i], None}
         \/ \E c \in Range(pending) : ~c.dead /\ c.doc.id = i /\ Burst(byId, pending)[i] = c.doc
<1> DEFINE V == {byId[i], None} \cup {c.doc : c \in {d \in Range(pending) : ~d.dead /\ d.doc.id = i}}
           B == {x \in [Ids -> Optional(Docs)] : x[i] \in V}
           n == Len(pending)
<1>1. pending \in [1..n -> Change] /\ n \in Nat /\ DOMAIN pending = 1..n
  BY DEF TypeOK
<1>2. ASSUME NEW x \in B, NEW k \in 1..n PROVE Applied(x, pending[k]) \in B
  <2>1. pending[k] \in Change /\ pending[k] \in Range(pending)
    BY <1>1 DEF Range
  <2>2. pending[k].doc \in Docs
    BY <2>1 DEF Change
  <2>3. x \in [Ids -> Optional(Docs)] /\ x[i] \in V
    OBVIOUS
  <2>4. Applied(x, pending[k]) \in [Ids -> Optional(Docs)]
    BY <2>2, <2>3 DEF Applied, Optional
  <2>5. Applied(x, pending[k])[i] \in V
    <3>1. CASE pending[k].doc.id = i /\ ~pending[k].dead
      <4>1. Applied(x, pending[k])[i] \in {x[i], pending[k].doc}
        BY <2>3, <3>1 DEF Applied
      <4> QED BY <2>1, <2>3, <3>1, <4>1
    <3>2. CASE pending[k].doc.id = i /\ pending[k].dead
      BY <2>3, <3>2 DEF Applied
    <3>3. CASE pending[k].doc.id # i
      <4>1. Applied(x, pending[k])[i] = x[i]
        BY <2>3, <3>3 DEF Applied
      <4> QED BY <2>3, <4>1
    <3> QED BY <3>1, <3>2, <3>3
  <2> QED BY <2>4, <2>5
<1>3. byId \in B
  BY DEF TypeOK
<1> HIDE DEF B, n
<1>4. PICK h \in [0..n -> B] : Burst(byId, pending) = h[n]
  BY <1>1, <1>2, <1>3, FoldIsLoop DEF Loops
<1>5. n \in 0..n
  BY <1>1
<1>6. Burst(byId, pending) \in B
  BY <1>4, <1>5
<1> QED BY <1>6 DEF B

\* A step that leaves queues, calls, rows, and what is shown and listed, alone.
LEMMA OriginStill ==
  ASSUME Calm, UNCHANGED <<ops, rows, stores, inFlight, byId, attached>>, NEW i \in Ids, InUse => InUse',
         listing' # None => listing' = listing
  PROVE  OriginHolds(i)'
<1>1. CallsKeep /\ Untouched(i) /\ SameEntry(i)
  BY DEF CallsKeep, Untouched, SameEntry, Queue
<1>2. OriginHolds(i)
  BY CalmParts DEF OriginInv
<1> QED BY <1>1, <1>2, OriginFrame, CalmParts

\* A step of a persist keeps OriginHolds of its own document.
LEMMA OriginOwn ==
  ASSUME Calm, Uncrossed', NEW o \in Ops, Persist(o), NEW i \in Ids, i = ops[o].id
  PROVE  OriginHolds(i)'
<1>0. TypeOK /\ ShapeInv /\ IdInv
  BY CalmParts
<1>1. CASE Start(o) \/ ListForIndex(o) \/ SetIndex(o) \/ Look(o) \/ MapEnvelope(o)
  <2>1. MoveEffect(o) /\ rows' = rows
    BY <1>0, <1>1, MoveDoes, LookDoes DEF LookEffect
  <2>2. UNCHANGED <<byId, inFlight, attached, stores, closing, listing>>
    BY <2>1 DEF MoveEffect
  <2>3. CallsKeep
    BY <2>1 DEF MoveEffect, CallsKeep
  <2>4. Untouched(i) /\ SameEntry(i) /\ (InUse => InUse')
    BY <2>1, <2>2 DEF Untouched, SameEntry, Queue, InUse
  <2>5. OriginHolds(i)
    BY CalmParts DEF OriginInv
  <2> QED BY <1>0, <2>2, <2>3, <2>4, <2>5, OriginFrame
<1>2. CASE Put(o)
  BY <1>2, PutEffect, OriginWritten
<1>3. PICK d : d = ops[o].env
  OBVIOUS
<1>4. CASE Patch(o)
  <2>1. d \in Envelopes
    BY <1>0, <1>3, <1>4, PatchWrites
  <2> QED BY <1>3, <1>4, <2>1, PatchEffect, OriginWritten
<1>5. CASE Bury(o)
  <2>1. d \in Envelopes
    BY <1>0, <1>3, <1>5, BuryWrites
  <2> QED BY <1>3, <1>5, <2>1, BuryDoes, OriginBuried
<1> QED BY <1>1, <1>2, <1>4, <1>5, OriginFinished, OriginRejected DEF Persist

\* What a burst leaves shown is in the replica.
LEMMA OriginFlushed ==
  ASSUME Calm, Flush, NEW i \in Ids
  PROVE  OriginHolds(i)'
<1>0. TypeOK /\ ShapeInv /\ IdInv /\ SessionInv
  BY CalmParts
<1>1. UNCHANGED <<ops, rows, stores, inFlight, attached, closing, listing>> /\ byId' = Burst(byId, pending) /\ pending # <<>>
  BY DEF Flush, held, lives
<1>2. InUse /\ stores \in 1..MaxStores
  <2>1. 1 \in DOMAIN pending
    BY <1>0, <1>1 DEF TypeOK
  <2>2. InUse
    BY <1>0, <2>1 DEF SessionInv
  <2> QED BY <2>2, InUseHasReplica DEF Calm
<1>3. OriginHolds(i)
  BY CalmParts DEF OriginInv
<1>4. ASSUME NEW d, d = byId'[i], d # None, d.src \in Pulls, attached' # 0, inFlight'[i] = None PROVE Backed(d)'
  <2>1. CASE d = byId[i]
    <3>1. Backed(d)
      BY <1>1, <1>3, <1>4, <2>1 DEF OriginHolds
    <3> QED BY <1>1, <3>1, BackedSame
  <2>2. CASE \E c \in Range(pending) : ~c.dead /\ c.doc.id = i /\ d = c.doc
    <3>1. PICK c \in Range(pending) : ~c.dead /\ c.doc.id = i /\ d = c.doc
      BY <2>2
    <3>2. c \in Out(i) /\ EventHolds(i)
      BY <1>2, <3>1, Buffered, CalmParts DEF EventInv
    <3>3. c.env \in Alive(i) /\ d \in Docs
      BY <1>0, <3>1, <3>2, OutIs DEF EventHolds
    <3>4. d = rows[stores][c.env].doc \/ Wins(rows[stores][c.env].doc, d)
      BY <1>1, <1>4, <3>1, <3>2, <3>3 DEF EventHolds
    <3>5. rows[stores][c.env].doc \in Docs
      BY <1>0, <1>2, <3>3, AliveIs, RowFields
    <3>6. d = rows[stores][c.env].doc \/ ~Wins(d, rows[stores][c.env].doc)
      BY <3>3, <3>4, <3>5, WinsOrder
    <3>7. Backed(d)
      BY <1>0, <1>2, <3>1, <3>3, <3>6, RowBacks
    <3> QED BY <1>1, <3>7, BackedSame
  <2> QED BY <1>0, <1>1, <1>4, <2>1, <2>2, BurstFrom
<1>5. ASSUME NEW d, NEW x, attached' # 0, listing' # None, x \in LiveOf(listing'.seen, i), d = listing'.seen[x].doc
      PROVE  \/ Backed(d)'
             \/ inFlight'[i] # None /\ inFlight'[i].moved /\ \E q \in Ops : LastWrite(i, q)' /\ ~Wins(d, ops'[q].doc)
  <2>1. \/ Backed(d)
        \/ inFlight[i] # None /\ inFlight[i].moved /\ \E q \in Ops : LastWrite(i, q) /\ ~Wins(d, ops[q].doc)
    BY <1>1, <1>5, ListedDoc
  <2>2. CallsKeep /\ Queue(i)' = Queue(i)
    BY <1>1 DEF CallsKeep, Queue
  <2>3. inFlight[i] # None => \A q \in Ops : LastWrite(i, q) => LastWrite(i, q)'
    BY <1>0, <2>2, SameQueue
  <2>4. Backed(d)' <=> Backed(d)
    BY <1>1, BackedSame
  <2> QED BY <1>1, <2>1, <2>3, <2>4
<1>6. InUse'
  BY <1>1, <1>2 DEF InUse
<1>7. \A d : d = byId'[i] /\ d # None /\ d.src \in Pulls /\ attached' # 0 /\ inFlight'[i] = None => Backed(d)'
  BY <1>4
<1>8. \A d, x : attached' # 0 /\ listing' # None /\ x \in LiveOf(listing'.seen, i) /\ d = listing'.seen[x].doc =>
         \/ Backed(d)'
         \/ inFlight'[i] # None /\ inFlight'[i].moved /\ \E q \in Ops : LastWrite(i, q)' /\ ~Wins(d, ops'[q].doc)
  BY <1>5
<1> QED BY <1>6, <1>7, <1>8, OriginIs

\* Every step that crosses nothing keeps OriginInv.
LEMMA OriginStep ==
  ASSUME Calm, BaseInv', Uncrossed', [Next]_vars
  PROVE  OriginInv'
<1> SUFFICES ASSUME NEW j \in Ids PROVE OriginHolds(j)'
  BY DEF OriginInv
<1>0. TypeOK /\ ShapeInv /\ SessionInv /\ IdInv /\ TypeOK'
  BY CalmParts DEF BaseInv
<1>1. ASSUME NEW o \in Ops, Persist(o) PROVE OriginHolds(j)'
  <2>1. PICK i : i = ops[o].id
    OBVIOUS
  <2>2. OpStep(o, i) /\ i \in Ids
    BY <1>1, <2>1, StepOf DEF OpStep
  <2>3. j # i => OriginHolds(j)'
    BY <2>2, AsideHolds
  <2> QED BY <1>1, <2>1, <2>2, <2>3, OriginOwn
<1>2. ASSUME NEW o \in Ops, NEW kind \in Kinds, NEW i \in Ids, Issue(o, kind, i) PROVE OriginHolds(j)'
  <2>1. OpStep(o, i)
    BY <1>0, <1>2, IssueDoes, IssueIsStep
  <2>2. j # i => OriginHolds(j)'
    BY <2>1, AsideHolds
  <2> QED BY <1>2, <2>2, OriginIssued
<1>3. ASSUME NEW p \in Pulls, Pull(p) PROVE OriginHolds(j)'
  <2>1. PICK e \in Envelopes, i \in Ids, doc \in Docs, dead \in BOOLEAN, c \in Change : PullEffect(p, e, i, doc, dead, c)
    BY <1>3, PullDoes
  <2>2. CASE j # i
    <3>1. /\ Untouched(j) /\ inFlight'[j] = inFlight[j]
          /\ UNCHANGED <<ops, byId, attached, closing, listing>>
      BY <2>1, <2>2 DEF PullEffect
    <3>2. CallsKeep /\ SameEntry(j) /\ (InUse => InUse')
      BY <3>1 DEF CallsKeep, SameEntry, Queue, InUse
    <3>3. OriginHolds(j)
      BY CalmParts DEF OriginInv
    <3> QED BY <1>0, <3>1, <3>2, <3>3, OriginFrame
  <2> QED BY <2>1, <2>2, OriginPulled
<1>4. ASSUME UNCHANGED <<ops, rows, stores, inFlight, byId, attached, closing, listing>> PROVE OriginHolds(j)'
  BY <1>4, OriginStill DEF InUse
<1>5. CASE EndSwap \/ UNCHANGED vars
  BY <1>4, <1>5 DEF EndSwap, vars, store, held, lives
<1>6. ASSUME NEW c \in events, Deliver(c) \/ Undecodable(c) PROVE OriginHolds(j)'
  BY <1>4, <1>6 DEF Deliver, Undecodable, store, held, lives
<1>7. ASSUME stores' \in 1..MaxStores, InUse', listing' # None, listing'.seen = rows'[stores'],
             \A d : d = byId'[j] /\ d # None /\ d.src \in Pulls /\ attached' # 0 /\ inFlight'[j] = None => Backed(d)'
      PROVE OriginHolds(j)'
  <2>1. ASSUME NEW d, NEW x, x \in LiveOf(listing'.seen, j), d = listing'.seen[x].doc PROVE Backed(d)'
    <3>1. x \in Envelopes /\ rows'[stores'][x] # None /\ d = rows'[stores'][x].doc
      BY <1>7, <2>1 DEF LiveOf, Live
    <3>2. d \in Docs
      <4>1. rows'[stores'] \in Listing
        BY <1>0, <1>7 DEF TypeOK
      <4>2. rows'[stores'][x] \in Rows
        BY <3>1, <4>1 DEF Listing, Optional
      <4> QED BY <3>1, <4>2 DEF Rows
    <3>3. ~Wins(d, d)
      BY <3>2, WinsOrder
    <3>4. Backed(d)' <=> \E f \in Envelopes : rows'[stores'][f] # None /\ rows'[stores'][f].doc.id = d.id /\ ~Wins(d, rows'[stores'][f].doc)
      BY DEF Backed, Wins
    <3> QED BY <3>1, <3>3, <3>4
  <2>2. \A d, x : attached' # 0 /\ listing' # None /\ x \in LiveOf(listing'.seen, j) /\ d = listing'.seen[x].doc =>
         \/ Backed(d)'
         \/ inFlight'[j] # None /\ inFlight'[j].moved /\ \E q \in Ops : LastWrite(j, q)' /\ ~Wins(d, ops'[q].doc)
    BY <2>1
  <2> QED BY <1>7, <2>2, OriginIs
<1>8. CASE Rehydrate
  <2>1. /\ UNCHANGED <<byId, inFlight, rows, stores, attached, closing>> /\ attached # 0
        /\ listing' = [store |-> attached, seen |-> rows[attached]]
    BY <1>8 DEF Rehydrate, store, held, lives
  <2>2. attached = stores /\ InUse /\ InUse'
    BY <1>0, <2>1 DEF SessionInv, InUse
  <2>3. stores \in 1..MaxStores
    BY <2>2, InUseHasReplica DEF Calm
  <2>4. rows[stores] \in Listing /\ stores \in Nat
    <3>1. rows[stores] \in Listing /\ stores \in 0..MaxStores
      BY <1>0, <2>3 DEF TypeOK
    <3> QED BY <3>1
  <2>5. listing' \in Listed /\ listing'.seen = rows'[stores']
    BY <2>1, <2>2, <2>4 DEF Listed
  <2>6. ASSUME NEW d, d = byId'[j], d # None, d.src \in Pulls, attached' # 0, inFlight'[j] = None PROVE Backed(d)'
    <3>1. Backed(d)
      BY <2>1, <2>6, CalmParts DEF OriginInv, OriginHolds
    <3> QED BY <2>1, <3>1, BackedSame
  <2>7. \A d : d = byId'[j] /\ d # None /\ d.src \in Pulls /\ attached' # 0 /\ inFlight'[j] = None => Backed(d)'
    BY <2>6
  <2>8. stores' \in 1..MaxStores /\ listing' # None
    BY <2>1, <2>3, <2>5, NoneIsApart
  <2> QED BY <1>7, <2>2, <2>5, <2>7, <2>8
<1>9. CASE Attach
  <2>1. /\ UNCHANGED <<byId, inFlight>> /\ ~InUse /\ stores' = stores + 1 /\ attached' = stores'
        /\ listing' = [store |-> stores + 1, seen |-> rows'[stores + 1]] /\ stores < MaxStores
    BY <1>9 DEF Attach, store, InUse
  <2>2. stores' \in 1..MaxStores /\ attached' # 0
    BY <1>0, <2>1, ConstantsOK DEF TypeOK, ConstantsOK
  <2>3. rows'[stores'] \in Listing /\ stores' \in Nat
    BY <1>0, <2>2 DEF TypeOK
  <2>4. listing' \in Listed /\ listing'.seen = rows'[stores']
    BY <2>1, <2>3 DEF Listed
  <2>5. byId[j] # None => byId[j].src \in Ops
    BY <2>1, CalmParts DEF OriginInv, OriginHolds
  <2>6. \A d : d = byId'[j] /\ d # None /\ d.src \in Pulls /\ attached' # 0 /\ inFlight'[j] = None => Backed(d)'
    BY <2>1, <2>5, ConstantsOK DEF ConstantsOK
  <2>7. InUse' /\ listing' # None
    BY <2>2, <2>4, NoneIsApart DEF InUse
  <2> QED BY <1>7, <2>2, <2>4, <2>6, <2>7
<1>10. ASSUME ~InUse' => byId'[j] = None, attached' = 0 PROVE OriginHolds(j)'
  BY <1>10, OriginIs
<1>11. ASSUME NEW swaps \in BOOLEAN, Detach(swaps) PROVE OriginHolds(j)'
  <2>1. attached' = 0 /\ InUse'
    BY <1>11 DEF Detach, InUse
  <2> QED BY <1>10, <2>1
<1>12. CASE CloseAndClear
  <2>1. attached' = 0 /\ byId'[j] = None
    BY <1>0, <1>12 DEF CloseAndClear, SessionInv
  <2> QED BY <1>10, <2>1
<1>13. CASE Hydrated
  <2>1. PICK seen : seen = listing.seen
    OBVIOUS
  <2>2. HydrateEffect(seen)
    BY <1>13, <2>1, HydrateDoes
  <2>3. /\ listing # None /\ listing' = None /\ InUse' /\ UNCHANGED <<rows, stores, attached>>
        /\ inFlight[j] = None => byId'[j] = DocIn(seen, j)
        /\ inFlight'[j] = None => inFlight[j] = None
    BY <2>2 DEF HydrateEffect, InUse
  <2>4. ASSUME NEW d, d = byId'[j], d # None, attached' # 0, inFlight'[j] = None PROVE Backed(d)'
    <3>1. PICK e : e \in LiveOf(seen, j) /\ d = seen[e].doc
      BY <2>3, <2>4 DEF DocIn, OneOf
    <3>2. Backed(d)
      BY <2>1, <2>3, <2>4, <3>1, ListedDoc
    <3> QED BY <2>3, <3>2, BackedSame
  <2>5. \A d : d = byId'[j] /\ d # None /\ d.src \in Pulls /\ attached' # 0 /\ inFlight'[j] = None => Backed(d)'
    BY <2>4
  <2> QED BY <2>3, <2>5, OriginIs
<1> QED BY <1>1, <1>2, <1>3, <1>5, <1>6, <1>8, <1>9, <1>11, <1>12, <1>13, OriginFlushed DEF Next

(***************************************************************************)
(* What is shown, and what a listing will show                             *)
(***************************************************************************)
\* Agrees, of what is outstanding, to be delivered and shown.
AgreesOn(out, evs, shown, doc, env) ==
  /\ out = {} => doc = shown
  /\ (\E c \in out : ~c.dead) =>
       /\ doc \in {None, shown} \/ Wins(shown, doc)
       /\ doc = shown \/ \E c \in out : c.doc = shown
  /\ \A c \in out \cap evs : c.dead => env \in {None, c.env}

\* The parts of ViewHolds, of the listing and of the call at the head of the queue.
LEMMA ViewOf ==
  ASSUME Calm, attached # 0, ~timer, NEW i \in Ids
  PROVE  /\ ViewHolds(i)
         /\ listing = None /\ inFlight[i] = None => AgreesOn(Out(i), events, Shown(i), byId[i], index[stores].of[i])
         /\ \A o : listing = None /\ inFlight[i] # None /\ o = Head(Queue(i)) =>
              /\ ~inFlight[i].moved /\ ~Wrote(o) => inFlight[i].confirmed = Shown(i)
              /\ ops[o].st = "done" /\ ~Writes(o) => Alive(i) = {}
         /\ \A seen : listing # None /\ seen = listing.seen /\ inFlight[i] = None =>
              /\ AgreesOn(Out(i), events, Shown(i), DocIn(seen, i), OneOf(LiveOf(seen, i)))
              /\ Out(i) = {} => Same(seen, i)
         /\ \A seen, o : listing # None /\ seen = listing.seen /\ inFlight[i] # None /\ o = Head(Queue(i)) =>
              /\ ~Wrote(o) /\ Out(i) = {} => Same(seen, i)
              /\ Wrote(o) /\ Writes(o) /\ Out(i) = {} /\ seen[ops[o].env] # None /\ seen[ops[o].env].doc = ops[o].doc
                   => Shown(i) = ops[o].doc
              /\ Wrote(o) /\ ~Writes(o) => LiveOf(seen, i) \subseteq {ops[o].env}
<1>1. ViewHolds(i)
  BY CalmParts DEF ViewInv
<1>2. listing = None /\ inFlight[i] = None => AgreesOn(Out(i), events, Shown(i), byId[i], index[stores].of[i])
  BY <1>1 DEF ViewHolds, Agrees, AgreesOn
<1>3. ASSUME NEW o, listing = None, inFlight[i] # None, o = Head(Queue(i))
      PROVE  /\ ~inFlight[i].moved /\ ~Wrote(o) => inFlight[i].confirmed = Shown(i)
             /\ ops[o].st = "done" /\ ~Writes(o) => Alive(i) = {}
  BY <1>1, <1>3 DEF ViewHolds, Unwritten, Wrote
<1>4. ASSUME NEW seen, listing # None, seen = listing.seen, inFlight[i] = None
      PROVE  /\ AgreesOn(Out(i), events, Shown(i), DocIn(seen, i), OneOf(LiveOf(seen, i)))
             /\ Out(i) = {} => Same(seen, i)
  <2>1. Agrees(i, DocIn(seen, i), IndexOf(seen)[i]) /\ (Out(i) = {} => Same(seen, i))
    BY <1>1, <1>4 DEF ViewHolds
  <2>2. IndexOf(seen)[i] = OneOf(LiveOf(seen, i))
    BY DEF IndexOf
  <2> QED BY <2>1, <2>2 DEF Agrees, AgreesOn
<1>5. ASSUME NEW seen, NEW o, listing # None, seen = listing.seen, inFlight[i] # None, o = Head(Queue(i))
      PROVE  /\ ~Wrote(o) /\ Out(i) = {} => Same(seen, i)
             /\ Wrote(o) /\ Writes(o) /\ Out(i) = {} /\ seen[ops[o].env] # None /\ seen[ops[o].env].doc = ops[o].doc
                  => Shown(i) = ops[o].doc
             /\ Wrote(o) /\ ~Writes(o) => LiveOf(seen, i) \subseteq {ops[o].env}
  BY <1>1, <1>5 DEF ViewHolds, Unwritten, Wrote
<1> QED BY <1>1, <1>2, <1>3, <1>4, <1>5

\* The same of the next state.
LEMMA ViewIs ==
  ASSUME NEW i \in Ids,
         listing' = None /\ inFlight'[i] = None =>
           AgreesOn(Out(i)', events', Shown(i)', byId'[i], index'[stores'].of[i]),
         \A o : listing' = None /\ inFlight'[i] # None /\ o = Head(Queue(i)') =>
           /\ ~inFlight'[i].moved /\ ~Wrote(o)' => inFlight'[i].confirmed = Shown(i)'
           /\ ops'[o].st = "done" /\ ops'[o].kind = "remove" => Alive(i)' = {},
         \A seen : listing' # None /\ seen = listing'.seen /\ inFlight'[i] = None =>
           /\ AgreesOn(Out(i)', events', Shown(i)', DocIn(seen, i), OneOf(LiveOf(seen, i)))
           /\ Out(i)' = {} => Same(seen, i)',
         \A seen, o : listing' # None /\ seen = listing'.seen /\ inFlight'[i] # None /\ o = Head(Queue(i)') =>
           /\ ~Wrote(o)' /\ Out(i)' = {} => Same(seen, i)'
           /\ Wrote(o)' /\ ops'[o].kind # "remove" /\ Out(i)' = {} /\ seen[ops'[o].env] # None
                /\ seen[ops'[o].env].doc = ops'[o].doc => Shown(i)' = ops'[o].doc
           /\ Wrote(o)' /\ ops'[o].kind = "remove" => LiveOf(seen, i) \subseteq {ops'[o].env}
  PROVE  ViewHolds(i)'
<1>1. ASSUME listing' = None, inFlight'[i] = None PROVE Agrees(i, byId[i], index[stores].of[i])'
  BY <1>1 DEF Agrees, AgreesOn, Wins
<1>2. ASSUME listing' = None, inFlight'[i] # None
      PROVE  /\ ~inFlight'[i].moved /\ Unwritten(i)' => inFlight'[i].confirmed = Shown(i)'
             /\ (ops[Head(Queue(i))].st = "done" /\ ~Writes(Head(Queue(i))) => Alive(i) = {})'
  BY <1>2 DEF Unwritten, Wrote, Writes
<1>3. ASSUME listing' # None, inFlight'[i] = None
      PROVE  /\ Agrees(i, DocIn(listing.seen, i), IndexOf(listing.seen)[i])'
             /\ Out(i)' = {} => Same(listing.seen, i)'
  <2>1. PICK seen : seen = listing'.seen
    OBVIOUS
  <2>2. AgreesOn(Out(i)', events', Shown(i)', DocIn(seen, i), OneOf(LiveOf(seen, i))) /\ (Out(i)' = {} => Same(seen, i)')
    BY <1>3, <2>1
  <2>3. IndexOf(seen)[i] = OneOf(LiveOf(seen, i))
    BY DEF IndexOf
  <2>4. DocIn(listing.seen, i)' = DocIn(seen, i) /\ IndexOf(listing.seen)[i]' = IndexOf(seen)[i]
    BY <2>1 DEF DocIn, IndexOf, LiveOf, Live
  <2>5. Agrees(i, DocIn(listing.seen, i), IndexOf(listing.seen)[i])'
    BY <2>2, <2>3, <2>4 DEF Agrees, AgreesOn, Wins
  <2>6. Same(listing.seen, i)' <=> Same(seen, i)'
    BY <2>1 DEF Same, DocIn, LiveOf, Live
  <2> QED BY <2>2, <2>5, <2>6
<1>4. ASSUME listing' # None, inFlight'[i] # None
      PROVE  /\ Unwritten(i)' /\ Out(i)' = {} => Same(listing.seen, i)'
             /\ (~Unwritten(i) =>
                   LET o == Head(Queue(i)) IN
                   IF Writes(o) THEN Out(i) = {} /\ listing.seen[ops[o].env] # None
                                       /\ listing.seen[ops[o].env].doc = ops[o].doc
                                     => Shown(i) = ops[o].doc
                   ELSE LiveOf(listing.seen, i) \subseteq {ops[o].env})'
  <2>1. PICK seen, o : seen = listing'.seen /\ o = Head(Queue(i)')
    OBVIOUS
  <2>2. /\ ~Wrote(o)' /\ Out(i)' = {} => Same(seen, i)'
        /\ Wrote(o)' /\ ops'[o].kind # "remove" /\ Out(i)' = {} /\ seen[ops'[o].env] # None
             /\ seen[ops'[o].env].doc = ops'[o].doc => Shown(i)' = ops'[o].doc
        /\ Wrote(o)' /\ ops'[o].kind = "remove" => LiveOf(seen, i) \subseteq {ops'[o].env}
    BY <1>4, <2>1
  <2>3. Same(listing.seen, i)' <=> Same(seen, i)'
    BY <2>1 DEF Same, DocIn, LiveOf, Live
  <2>4. LiveOf(listing.seen, i)' = LiveOf(seen, i)
    BY <2>1 DEF LiveOf, Live
  <2>5. Unwritten(i)' <=> ~Wrote(o)'
    BY <2>1 DEF Unwritten, Wrote, Writes
  <2> QED BY <2>1, <2>2, <2>3, <2>4, <2>5 DEF Writes
<1> QED BY <1>1, <1>2, <1>3, <1>4 DEF ViewHolds

\* A step that leaves the document's rows, entry and head call as they are.
LEMMA ViewKept ==
  ASSUME Calm, attached # 0, ~timer, CallsKeep, NEW i \in Ids, Untouched(i), SameEntry(i), SameSteps(i),
         inFlight[i] = None => byId'[i] = byId[i], listing' = listing,
         listing = None => \A b \in Ops : Busy(b) /\ ops[b].id = i /\ ~Writes(b) /\ ops'[b].st = "done" =>
                             ops[b].st = "done" \/ Alive(i) = {},
         Out(i)' = Out(i),
         listing = None /\ inFlight[i] = None =>
            \A c \in Out(i) \cap events' : c.dead => index'[stores].of[i] \in {None, c.env},
         events' \subseteq events
  PROVE  ViewHolds(i)'
<1>0. TypeOK /\ ShapeInv
  BY CalmParts
<1>1. Alive(i)' = Alive(i) /\ Shown(i)' = Shown(i) /\ stores' = stores
  BY UntouchedAlive DEF Untouched
<1>2. listing' = None /\ inFlight'[i] = None =>
        AgreesOn(Out(i)', events', Shown(i)', byId'[i], index'[stores'].of[i])
  <2>1. SUFFICES ASSUME listing' = None, inFlight'[i] = None
                 PROVE  AgreesOn(Out(i)', events', Shown(i)', byId'[i], index'[stores'].of[i])
    OBVIOUS
  <2>2. listing = None /\ inFlight[i] = None
    BY <2>1 DEF SameEntry
  <2>3. AgreesOn(Out(i), events, Shown(i), byId[i], index[stores].of[i])
    BY <2>2, ViewOf
  <2> QED BY <1>1, <2>2, <2>3 DEF AgreesOn
<1>3. ASSUME inFlight'[i] # None, NEW o, o = Head(Queue(i)')
      PROVE  /\ inFlight[i] # None /\ o = Head(Queue(i)) /\ o \in Ops /\ Busy(o) /\ ops[o].id = i
             /\ ops'[o].kind = ops[o].kind /\ ops'[o].doc = ops[o].doc
             /\ (Wrote(o)' <=> Wrote(o))
             /\ Wrote(o) => ops'[o].env = ops[o].env
  <2>1. inFlight[i] # None
    BY <1>3 DEF SameEntry
  <2>2. PICK p : p = Head(Queue(i))
    OBVIOUS
  <2>3. p \in Ops /\ Busy(p) /\ ops[p].id = i /\ ops'[p].kind = ops[p].kind /\ ops'[p].doc = ops[p].doc /\ Head(Queue(i)') = p
    BY <1>0, <2>1, <2>2, SameHead
  <2> QED BY <1>3, <2>1, <2>2, <2>3 DEF SameSteps
<1>4. \A o : listing' = None /\ inFlight'[i] # None /\ o = Head(Queue(i)') =>
        /\ ~inFlight'[i].moved /\ ~Wrote(o)' => inFlight'[i].confirmed = Shown(i)'
        /\ ops'[o].st = "done" /\ ops'[o].kind = "remove" => Alive(i)' = {}
  BY <1>1, <1>3, ViewOf DEF SameEntry, Writes
<1>5. \A seen : listing' # None /\ seen = listing'.seen /\ inFlight'[i] = None =>
        /\ AgreesOn(Out(i)', events', Shown(i)', DocIn(seen, i), OneOf(LiveOf(seen, i)))
        /\ Out(i)' = {} => Same(seen, i)'
  <2>1. TAKE seen
  <2>2. SUFFICES ASSUME listing' # None, seen = listing'.seen, inFlight'[i] = None
                 PROVE  /\ AgreesOn(Out(i)', events', Shown(i)', DocIn(seen, i), OneOf(LiveOf(seen, i)))
                        /\ Out(i)' = {} => Same(seen, i)'
    OBVIOUS
  <2>3. listing # None /\ seen = listing.seen /\ inFlight[i] = None
    BY <2>2 DEF SameEntry
  <2>4. AgreesOn(Out(i), events, Shown(i), DocIn(seen, i), OneOf(LiveOf(seen, i))) /\ (Out(i) = {} => Same(seen, i))
    BY <2>3, ViewOf
  <2>5. Same(seen, i)' <=> Same(seen, i)
    BY <1>1 DEF Same
  <2> QED BY <1>1, <2>4, <2>5 DEF AgreesOn
<1>6. \A seen, o : listing' # None /\ seen = listing'.seen /\ inFlight'[i] # None /\ o = Head(Queue(i)') =>
        /\ ~Wrote(o)' /\ Out(i)' = {} => Same(seen, i)'
        /\ Wrote(o)' /\ ops'[o].kind # "remove" /\ Out(i)' = {} /\ seen[ops'[o].env] # None
             /\ seen[ops'[o].env].doc = ops'[o].doc => Shown(i)' = ops'[o].doc
        /\ Wrote(o)' /\ ops'[o].kind = "remove" => LiveOf(seen, i) \subseteq {ops'[o].env}
  <2>1. TAKE seen, o
  <2>2. SUFFICES ASSUME listing' # None, seen = listing'.seen, inFlight'[i] # None, o = Head(Queue(i)')
                 PROVE  /\ ~Wrote(o)' /\ Out(i)' = {} => Same(seen, i)'
                        /\ Wrote(o)' /\ ops'[o].kind # "remove" /\ Out(i)' = {} /\ seen[ops'[o].env] # None
                             /\ seen[ops'[o].env].doc = ops'[o].doc => Shown(i)' = ops'[o].doc
                        /\ Wrote(o)' /\ ops'[o].kind = "remove" => LiveOf(seen, i) \subseteq {ops'[o].env}
    OBVIOUS
  <2>3. /\ inFlight[i] # None /\ o = Head(Queue(i)) /\ listing # None /\ seen = listing.seen
        /\ ops'[o].kind = ops[o].kind /\ ops'[o].doc = ops[o].doc
    BY <1>3, <2>2
  <2>3a. Wrote(o) => ops'[o].env = ops[o].env
    BY <1>3, <2>2
  <2>3b. Wrote(o)' <=> Wrote(o)
    BY <1>3, <2>2
  <2>4. /\ ~Wrote(o) /\ Out(i) = {} => Same(seen, i)
        /\ Wrote(o) /\ Writes(o) /\ Out(i) = {} /\ seen[ops[o].env] # None /\ seen[ops[o].env].doc = ops[o].doc
             => Shown(i) = ops[o].doc
        /\ Wrote(o) /\ ~Writes(o) => LiveOf(seen, i) \subseteq {ops[o].env}
    BY <2>3, ViewOf
  <2>5. Same(seen, i)' <=> Same(seen, i)
    BY <1>1 DEF Same
  <2> QED BY <1>1, <2>3, <2>3a, <2>3b, <2>4, <2>5 DEF Writes
<1> QED BY <1>2, <1>4, <1>5, <1>6, ViewIs

\* A live row that was put shows.
LEMMA ViewWritten ==
  ASSUME Calm, attached # 0, ~timer, NEW o \in Ops, NEW i, NEW e, WriteEffect(o, i, e)
  PROVE  ViewHolds(i)'
<1>0. TypeOK /\ ShapeInv
  BY CalmParts
<1>1. /\ i \in Ids /\ inFlight[i] # None /\ Running(o) /\ i = ops[o].id /\ Writes(o)
      /\ Shown(i)' = ops[o].doc /\ ops'[o].st \in {"map", "done"}
      /\ ops'[o].kind = ops[o].kind /\ ops'[o].doc = ops[o].doc
      /\ UNCHANGED <<inFlight, listing, stores>>
  BY DEF WriteEffect, MoveEffect
<1>2. Head(Queue(i)') = o
  BY <1>1, RunsHere DEF Queue
<1>3. Wrote(o)' /\ ops'[o].kind # "remove"
  BY <1>1 DEF Wrote, Writes
<1>4. \A p : listing' = None /\ inFlight'[i] # None /\ p = Head(Queue(i)') =>
        /\ ~inFlight'[i].moved /\ ~Wrote(p)' => inFlight'[i].confirmed = Shown(i)'
        /\ ops'[p].st = "done" /\ ops'[p].kind = "remove" => Alive(i)' = {}
  BY <1>2, <1>3
<1>5. \A seen, p : listing' # None /\ seen = listing'.seen /\ inFlight'[i] # None /\ p = Head(Queue(i)') =>
        /\ ~Wrote(p)' /\ Out(i)' = {} => Same(seen, i)'
        /\ Wrote(p)' /\ ops'[p].kind # "remove" /\ Out(i)' = {} /\ seen[ops'[p].env] # None
             /\ seen[ops'[p].env].doc = ops'[p].doc => Shown(i)' = ops'[p].doc
        /\ Wrote(p)' /\ ops'[p].kind = "remove" => LiveOf(seen, i) \subseteq {ops'[p].env}
  BY <1>1, <1>2, <1>3
<1>6. inFlight'[i] # None
  BY <1>1
<1> QED BY <1>1, <1>4, <1>5, <1>6, ViewIs

\* What a queued remove may rely on: nothing is outstanding.
LEMMA RemoveAlone ==
  ASSUME Calm, NEW o \in Ops, Running(o), ~Writes(o), NEW i \in Ids, i = ops[o].id
  PROVE  Out(i) = {}
<1>1. /\ InUse /\ inFlight[i] # None /\ 1 \in DOMAIN Queue(i) /\ Queue(i)[1] = o
  BY RunsHere
<1>2. EventHolds(i)
  BY <1>1, CalmParts DEF EventInv
<1> QED BY <1>1, <1>2 DEF EventHolds

\* Bury keeps ViewHolds of its document.
LEMMA ViewBuried ==
  ASSUME Calm, attached # 0, ~timer, NEW o \in Ops, NEW i, NEW e, BuryEffect(o, i, e)
  PROVE  ViewHolds(i)'
<1>0. TypeOK /\ ShapeInv
  BY CalmParts
<1>1. /\ i \in Ids /\ inFlight[i] # None /\ Running(o) /\ i = ops[o].id /\ ~Writes(o) /\ ops[o].st = "bury"
      /\ Alive(i) = {e} /\ Alive(i)' = {} /\ e \in Envelopes /\ ops'[o].st = "done" /\ ops'[o].env = e
      /\ ops'[o].kind = ops[o].kind
      /\ UNCHANGED <<inFlight, listing, stores>>
  BY DEF BuryEffect, MoveEffect
<1>2. Head(Queue(i)') = o /\ Head(Queue(i)) = o
  BY <1>1, RunsHere DEF Queue
<1>3. Wrote(o)' /\ ops'[o].kind = "remove" /\ ~Wrote(o)
  BY <1>1, NoneIsApart DEF Wrote, Writes
<1>4. \A p : listing' = None /\ inFlight'[i] # None /\ p = Head(Queue(i)') =>
        /\ ~inFlight'[i].moved /\ ~Wrote(p)' => inFlight'[i].confirmed = Shown(i)'
        /\ ops'[p].st = "done" /\ ops'[p].kind = "remove" => Alive(i)' = {}
  BY <1>1, <1>2, <1>3
<1>5. \A seen, p : listing' # None /\ seen = listing'.seen /\ inFlight'[i] # None /\ p = Head(Queue(i)') =>
        /\ ~Wrote(p)' /\ Out(i)' = {} => Same(seen, i)'
        /\ Wrote(p)' /\ ops'[p].kind # "remove" /\ Out(i)' = {} /\ seen[ops'[p].env] # None
             /\ seen[ops'[p].env].doc = ops'[p].doc => Shown(i)' = ops'[p].doc
        /\ Wrote(p)' /\ ops'[p].kind = "remove" => LiveOf(seen, i) \subseteq {ops'[p].env}
  <2>1. ASSUME NEW seen, listing # None, seen = listing.seen PROVE LiveOf(seen, i) \subseteq {e}
    <3>1. Out(i) = {}
      BY <1>1, RemoveAlone
    <3>2. Same(seen, i)
      BY <1>1, <1>2, <1>3, <2>1, <3>1, ViewOf
    <3> QED BY <1>1, <3>2 DEF Same
  <2> QED BY <1>1, <1>2, <1>3, <2>1
<1>6. inFlight'[i] # None
  BY <1>1
<1> QED BY <1>1, <1>4, <1>5, <1>6, ViewIs

\* A row that no event is to announce, and that no listing is to find, is in the index.
LEMMA RowIsFound ==
  ASSUME Calm, attached # 0, ~timer, listing = None, index[stores] # None, NEW i \in Ids, NEW e \in Alive(i),
         ~Coming(e), \A c \in Out(i) : c.dead
  PROVE  index[stores].of[i] = e
<1>1. InUse /\ e \in Live(rows[stores]) /\ rows[stores][e].doc.id = i
  BY DEF InUse, Alive, LiveOf
<1>2. Placed(e)
  BY <1>1, IndexParted DEF IndexRow
<1>3. ~Announced(e)
  <2>1. SUFFICES ASSUME NEW c \in events, c.store = stores, c.env = e, ~c.dead PROVE FALSE
    BY DEF Announced
  <2>2. c \in Change
    BY CalmParts DEF TypeOK
  <2>3. c.doc.id \in Ids
    BY <2>2 DEF Change, Docs
  <2>4. PICK k \in Ids : k = c.doc.id
    BY <2>3
  <2>5. c \in Out(k)
    BY <2>1, <2>4, AliveIs
  <2>6. rows[stores][c.env].doc.id = k
    BY <1>1, <2>5, CalmParts DEF EventInv, EventHolds
  <2> QED BY <1>1, <2>1, <2>5, <2>6
<1> QED BY <1>1, <1>2, <1>3 DEF Placed, Found, Unlisted, InListing

\* A look that finds no row: there is none, if no listing is to bring it.
LEMMA LooksInVain ==
  ASSUME Calm, attached # 0, ~timer, listing = None, NEW o \in Ops, ~Writes(o), NEW i, NEW e, LookHere(o, i, e),
         e \notin Alive(i)
  PROVE  Alive(i) = {}
<1>0. TypeOK /\ ShapeInv
  BY CalmParts
<1>1. /\ i \in Ids /\ Running(o) /\ i = ops[o].id /\ index[stores] # None /\ e = index[stores].of[i] /\ ops[o].st = "look"
  BY DEF LookHere, LookEffect
<1>2. SUFFICES ASSUME NEW x \in Alive(i) PROVE FALSE
  OBVIOUS
<1>3. Out(i) = {}
  BY <1>1, RemoveAlone
<1>4. ~Coming(x)
  <2>1. SUFFICES ASSUME x \in Ops, ops[x].st = "map" PROVE FALSE
    BY DEF Coming
  <2>2. Running(x)
    BY <2>1 DEF Running
  <2>3. rows[stores][x] # None /\ rows[stores][x].doc.id = i /\ stores \in 1..MaxStores
    BY <1>1, <1>2, AliveIs, RunsHere
  <2>4. ops[x].id = i
    BY <2>1, <2>3, CalmParts DEF RowInv, Envelopes
  <2>5. x = o
    BY <1>0, <1>1, <2>1, <2>2, <2>4, OneHead
  <2> QED BY <1>1, <2>1, <2>5
<1>5. index[stores].of[i] = x
  BY <1>1, <1>3, <1>4, RowIsFound
<1> QED BY <1>1, <1>5

\* The steps of a persist that write no row keep ViewHolds of its document.
LEMMA ViewMoved ==
  ASSUME Calm, Uncrossed', attached # 0, ~timer, NEW o \in Ops,
         Start(o) \/ ListForIndex(o) \/ SetIndex(o) \/ Look(o) \/ MapEnvelope(o),
         NEW i \in Ids, i = ops[o].id
  PROVE  ViewHolds(i)'
<1>0. TypeOK /\ ShapeInv
  BY CalmParts
<1>1. MoveEffect(o) /\ rows' = rows
  BY <1>0, MoveDoes, LookDoes DEF LookEffect
<1>2. Busy(o)
  <2>1. SetIndex(o) => Busy(o)
    BY <1>0 DEF SetIndex, ShapeInv, CallShape, Busy
  <2>2. Start(o) => Busy(o)
    BY DEF Start, Turn, Busy
  <2>3. ListForIndex(o) => Busy(o)
    BY DEF ListForIndex, NeedsIndex, Busy
  <2>4. Look(o) \/ MapEnvelope(o) => Busy(o)
    BY DEF Look, MapEnvelope, Ready, Busy
  <2> QED BY <2>1, <2>2, <2>3, <2>4
<1>3. inFlight[i] # None /\ inFlight' = inFlight
  BY <1>0, <1>1, <1>2, BusyCall DEF MoveEffect
<1>4. OpStep(o, i)
  BY <1>1, <1>2, MoveIsStep
<1>5. SameEntry(i) /\ SameSteps(i) /\ Untouched(i)
  BY <1>3, <1>4, EntryMoved
<1>6. CallsKeep /\ Out(i)' = Out(i)
  BY <1>4, Aside
<1>7. ASSUME listing = None, NEW b \in Ops, Busy(b), ops[b].id = i, ~Writes(b), ops'[b].st = "done", ops[b].st # "done"
      PROVE  Alive(i) = {}
  <2>1. b = o
    BY <1>1, <1>7 DEF MoveEffect
  <2>2. Look(o)
    <3>1. ~Start(o)
      BY <1>0, <1>7, <2>1, MoveDoes
    <3>2. ~ListForIndex(o) /\ ~SetIndex(o)
      BY <1>0, <1>7, <2>1, MoveDoes
    <3>3. ~MapEnvelope(o)
      BY <1>0, <1>7, <2>1 DEF MapEnvelope, Ready, ShapeInv, CallShape
    <3> QED BY <3>1, <3>2, <3>3
  <2>3. PICK e : e = index[stores].of[i]
    OBVIOUS
  <2>4. LookHere(o, i, e)
    BY <2>2, <2>3, LooksHere
  <2>5. e \notin Alive(i)
    BY <1>7, <2>1, <2>4 DEF LookHere
  <2> QED BY <1>7, <2>1, <2>4, <2>5, LooksInVain
<1>8. listing' = listing /\ events' = events
  BY <1>1 DEF MoveEffect
<1> QED BY <1>3, <1>5, <1>6, <1>7, <1>8, ViewKept

\* A listing that read the rows as they are.
LEMMA SameAgrees ==
  ASSUME Calm, InUse, NEW i \in Ids, NEW seen, Same(seen, i)
  PROVE  AgreesOn(Out(i), events, Shown(i), DocIn(seen, i), OneOf(LiveOf(seen, i)))
<1>1. EventHolds(i)
  BY CalmParts DEF EventInv
<1>2. \A c \in Out(i) : c.dead => OneOf(LiveOf(seen, i)) = None
  BY <1>1 DEF EventHolds, Same, OneOf
<1> QED BY <1>2 DEF AgreesOn, Same

\* When the call at the head of its queue has settled, the listing under way has read what
\* it left, if nothing is outstanding or its write is what the row shows.
LEMMA SettledSame ==
  ASSUME Calm, attached # 0, ~timer, listing # None, NEW seen, seen = listing.seen, NEW o \in Ops, Running(o),
         ops[o].st = "done", ~Predates(o), NEW i \in Ids, i = ops[o].id,
         Out(i) = {} \/ (Writes(o) /\ Shown(i) = ops[o].doc)
  PROVE  Same(seen, i)
<1>0. TypeOK /\ ShapeInv /\ RowInv
  BY CalmParts
<1>1. /\ inFlight[i] # None /\ Head(Queue(i)) = o /\ ops[o].store = stores /\ stores \in 1..MaxStores
  BY RunsHere
<1>2. listing.store = stores
  BY CalmParts DEF SessionInv
<1>3. ReadOf(seen)
  BY <1>0 DEF RowInv
<1>4. \A d, e \in LiveOf(seen, i) : d = e
  BY <1>3 DEF ReadOf
<1>5. CallHolds(o) /\ CallShape(o)
  BY CalmParts DEF CallInv, ShapeInv
<1>6. CASE Writes(o)
  <2>1. Wrote(o) /\ ops[o].env # None
    BY <1>5, <1>6 DEF Wrote, CallShape
  <2>2. PICK e : e = ops[o].env
    OBVIOUS
  <2>3. e \in Alive(i)
    BY <1>5, <1>6, <2>2 DEF CallHolds
  <2>4. seen[e] # None /\ seen[e].doc = ops[o].doc
    BY <1>1, <1>2, <1>6, <2>1, <2>2 DEF Predates, Writes
  <2>5. Shown(i) = ops[o].doc
    BY <1>1, <1>6, <2>1, <2>2, <2>4, ViewOf
  <2>6. e \in Envelopes /\ rows[stores][e] # None /\ ~rows[stores][e].dead /\ rows[stores][e].doc.id = i
    BY <2>3, AliveIs
  <2>7. ~seen[e].dead /\ seen[e].doc.id = i
    BY <1>3, <2>4, <2>6 DEF ReadOf
  <2>8. e \in LiveOf(seen, i)
    BY <2>4, <2>6, <2>7, AliveIs
  <2>9. LiveOf(seen, i) = {e} /\ DocIn(seen, i) = seen[e].doc
    BY <1>4, <2>8, OnlyRow
  <2>10. Alive(i) = {e}
    BY <1>0, <1>1, <2>3, Alone
  <2> QED BY <2>4, <2>5, <2>9, <2>10 DEF Same
<1>7. CASE ~Writes(o) /\ ops[o].env # None
  <2>1. Wrote(o)
    BY <1>7 DEF Wrote
  <2>2. LiveOf(seen, i) \subseteq {ops[o].env}
    BY <1>1, <1>7, <2>1, ViewOf
  <2>3. ops[o].env \notin Live(seen)
    BY <1>1, <1>2, <1>7 DEF Predates, Writes
  <2>4. LiveOf(seen, i) = {}
    BY <2>2, <2>3 DEF LiveOf
  <2>5. Alive(i) = {}
    BY <1>5, <1>7 DEF CallHolds
  <2> QED BY <2>4, <2>5 DEF Same, DocIn, Shown, Alive
<1>8. CASE ~Writes(o) /\ ops[o].env = None
  <2>1. ~Wrote(o)
    BY <1>8 DEF Wrote
  <2> QED BY <1>1, <1>8, <2>1, ViewOf
<1> QED BY <1>6, <1>7, <1>8

\* The head call of a queue leaves it: what the next one, or none, finds.
LEMMA ViewSettles ==
  ASSUME Calm, BaseInv', attached # 0, ~timer, NEW o \in Ops, NEW i, NEW st, st \in {"acked", "rejected"}, NEW latest, NEW confirmed, NEW shown,
         SettleEffect(o, i, st, latest, confirmed, shown), Busy(o),
         listing = None /\ Len(Queue(i)) = 1 => shown = Shown(i),
         listing = None /\ ~inFlight[i].moved => confirmed = Shown(i),
         \A seen : listing # None /\ seen = listing.seen /\ Out(i) = {} => Same(seen, i),
         listing # None /\ Len(Queue(i)) = 1 => \A seen : seen = listing.seen =>
            AgreesOn(Out(i), events, Shown(i), DocIn(seen, i), OneOf(LiveOf(seen, i)))
  PROVE  ViewHolds(i)'
<1>0. TypeOK /\ ShapeInv
  BY CalmParts
<1>1. /\ i \in Ids /\ inFlight[i] # None /\ Head(Queue(i)) = o
      /\ UNCHANGED <<pending, rows, index, attached, stores, listing, timer, events>>
      /\ \A b \in Ops : b # o => ops'[b] = ops[b]
  BY DEF SettleEffect
<1>1a. inFlight'[i] = None <=> Len(Queue(i)) = 1
  BY DEF SettleEffect
<1>2. Untouched(i) /\ OpStep(o, i)
  BY <1>1, SettleIsStep
<1>3. Alive(i)' = Alive(i) /\ Shown(i)' = Shown(i) /\ Out(i)' = Out(i)
  BY <1>1, <1>2, UntouchedAlive, Aside
<1>4. InUse /\ EventHolds(i)
  BY <1>1, CalmParts DEF EventInv, InUse
<1>5. \A c \in Out(i) : ~c.dead
  BY <1>1, <1>4 DEF EventHolds
<1>6. ASSUME inFlight'[i] # None, NEW b, b = Head(Queue(i)')
      PROVE  ~Wrote(b)' /\ ops'[b].st # "done" /\ inFlight'[i].moved = inFlight[i].moved /\ inFlight'[i].confirmed = confirmed
  <2>1. Queue(i)' = Tail(Queue(i)) /\ inFlight'[i].moved = inFlight[i].moved /\ inFlight'[i].confirmed = confirmed
    BY <1>6 DEF SettleEffect
  <2>2. Queue(i) \in Seq(Ops) /\ Queue(i) # <<>> /\ Len(Queue(i)) # 1 /\ Len(Queue(i)) \in Nat /\ Len(Queue(i)) >= 1
    BY <1>0, <1>1, <1>1a, <1>6, EntryAt
  <2>3. Tail(Queue(i)) \in Seq(Ops) /\ Tail(Queue(i)) # <<>>
    BY <2>2, QueueParts
  <2>4. 1 \in 1..(Len(Queue(i)) - 1)
    <3>1. PICK n \in Nat : n = Len(Queue(i))
      BY <2>2
    <3>2. n >= 1 /\ n # 1
      BY <2>2, <3>1
    <3>3. 1 \in 1..(n - 1)
      BY <3>2
    <3> QED BY <3>1, <3>3
  <2>5. b = Tail(Queue(i))[1] /\ Tail(Queue(i))[1] = Queue(i)[1 + 1] /\ 1 + 1 \in DOMAIN Queue(i)
    BY <1>6, <2>1, <2>2, <2>3, <2>4, QueueParts
  <2>6. b = Queue(i)[2] /\ 2 \in DOMAIN Queue(i) /\ 2 > 1
    BY <2>5
  <2>7. b \in Ops /\ ops[b].st = "queued" /\ b # o
    <3>1. b \in Ops /\ ops[b].st = "queued"
      BY <1>0, <1>1, <2>6, EntryAt
    <3>2. Queue(i)[1] # Queue(i)[2] /\ Queue(i)[1] = o
      BY <1>0, <1>1, <2>6, EntryAt
    <3> QED BY <2>6, <3>1, <3>2
  <2>8. ops'[b].st = "queued"
    BY <1>1, <2>7
  <2> QED BY <2>1, <2>8 DEF Wrote
<1>7. listing' = None /\ inFlight'[i] = None =>
        AgreesOn(Out(i)', events', Shown(i)', byId'[i], index'[stores'].of[i])
  <2>1. SUFFICES ASSUME listing' = None, inFlight'[i] = None
                 PROVE  AgreesOn(Out(i)', events', Shown(i)', byId'[i], index'[stores'].of[i])
    OBVIOUS
  <2>2. byId'[i] = shown /\ shown = Shown(i)
    BY <1>1, <1>1a, <2>1 DEF SettleEffect
  <2> QED BY <1>3, <1>5, <2>2 DEF AgreesOn
<1>8. \A b : listing' = None /\ inFlight'[i] # None /\ b = Head(Queue(i)') =>
        /\ ~inFlight'[i].moved /\ ~Wrote(b)' => inFlight'[i].confirmed = Shown(i)'
        /\ ops'[b].st = "done" /\ ops'[b].kind = "remove" => Alive(i)' = {}
  BY <1>1, <1>3, <1>6
<1>9. \A seen : listing' # None /\ seen = listing'.seen /\ inFlight'[i] = None =>
        /\ AgreesOn(Out(i)', events', Shown(i)', DocIn(seen, i), OneOf(LiveOf(seen, i)))
        /\ Out(i)' = {} => Same(seen, i)'
  BY <1>1, <1>1a, <1>3 DEF Same
<1>10. \A seen, b : listing' # None /\ seen = listing'.seen /\ inFlight'[i] # None /\ b = Head(Queue(i)') =>
        /\ ~Wrote(b)' /\ Out(i)' = {} => Same(seen, i)'
        /\ Wrote(b)' /\ ops'[b].kind # "remove" /\ Out(i)' = {} /\ seen[ops'[b].env] # None
             /\ seen[ops'[b].env].doc = ops'[b].doc => Shown(i)' = ops'[b].doc
        /\ Wrote(b)' /\ ops'[b].kind = "remove" => LiveOf(seen, i) \subseteq {ops'[b].env}
  BY <1>1, <1>3, <1>6 DEF Same
<1> QED BY <1>1, <1>7, <1>8, <1>9, <1>10, ViewIs

\* The last write of a queue is the only call in it: what its row and its entry say.
LEMMA OnlyCall ==
  ASSUME Calm, NEW o \in Ops, Running(o), NEW i \in Ids, i = ops[o].id, Len(Queue(i)) = 1
  PROVE  /\ Writes(o) => LastWrite(i, o)
         /\ ~Writes(o) => \A k \in DOMAIN Queue(i) : ~Writes(Queue(i)[k])
<1>1. inFlight[i] # None /\ Queue(i)[1] = o
  BY RunsHere
<1>2. DOMAIN Queue(i) = 1..Len(Queue(i)) /\ 1 \in DOMAIN Queue(i)
  BY <1>1, CalmParts, EntryAt
<1>3. \A k \in DOMAIN Queue(i) : k = 1
  BY <1>2
<1> QED BY <1>1, <1>2, <1>3 DEF LastWrite

\* Acknowledging a call keeps ViewHolds of its document.
LEMMA ViewFinished ==
  ASSUME Calm, BaseInv', Uncrossed', attached # 0, ~timer, NEW o \in Ops, Finish(o), NEW i \in Ids, i = ops[o].id
  PROVE  ViewHolds(i)'
<1>0. TypeOK /\ ShapeInv
  BY CalmParts
<1>1. FinishEffect(o, i) /\ ops[o].st = "done" /\ Running(o)
  BY <1>0, FinishDoes DEF Finish, Running
<1>2. ~Predates(o)
  BY DEF Finish, Crossed, Uncrossed
<1>3. /\ inFlight[i] # None /\ Busy(o) /\ stores \in 1..MaxStores /\ InUse /\ Head(Queue(i)) = o
      /\ ~swap
  BY <1>1, RunsHere
<1>4. EntryHolds(i)
  BY <1>3, CalmParts DEF EntryInv
<1>5. CallHolds(o)
  BY CalmParts DEF CallInv
<1>6. Len(Queue(i)) = 1 /\ Writes(o) => Shown(i) = ops[o].doc /\ inFlight[i].latest = ops[o].doc
  BY <1>1, <1>3, <1>4, OnlyCall DEF EntryHolds
<1>7. ~Writes(o) => Out(i) = {}
  BY <1>1, RemoveAlone
<1>8. listing = None /\ ~Writes(o) => Alive(i) = {} /\ Shown(i) = None
  <2>1. SUFFICES ASSUME listing = None, ~Writes(o) PROVE Alive(i) = {} /\ Shown(i) = None
    OBVIOUS
  <2>2. Alive(i) = {}
    BY <1>1, <1>3, <2>1, ViewOf
  <2> QED BY <2>2 DEF Shown, Alive, DocIn
<1>9. \A seen : listing # None /\ seen = listing.seen /\ Out(i) = {} => Same(seen, i)
  BY <1>1, <1>2, SettledSame
<1>10. listing # None /\ Len(Queue(i)) = 1 => \A seen : seen = listing.seen =>
         AgreesOn(Out(i), events, Shown(i), DocIn(seen, i), OneOf(LiveOf(seen, i)))
  <2>1. SUFFICES ASSUME listing # None, Len(Queue(i)) = 1, NEW seen, seen = listing.seen
                 PROVE  AgreesOn(Out(i), events, Shown(i), DocIn(seen, i), OneOf(LiveOf(seen, i)))
    OBVIOUS
  <2>2. Same(seen, i)
    BY <1>1, <1>2, <1>6, <1>7, <2>1, SettledSame
  <2> QED BY <1>3, <2>2, SameAgrees
<1>11. CASE Writes(o)
  <2>1. SettleEffect(o, i, "acked", inFlight[i].latest, ops[o].doc, byId[i])
    BY <1>1, <1>11 DEF FinishEffect
  <2>2. listing = None /\ Len(Queue(i)) = 1 => byId[i] = Shown(i)
    <3>1. Tracked(i)
      BY <1>3 DEF Tracked
    <3>2. byId[i] = inFlight[i].latest
      BY <1>4, <3>1 DEF EntryHolds
    <3> QED BY <1>6, <1>11, <3>2
  <2>3. listing = None /\ ~inFlight[i].moved => ops[o].doc = Shown(i)
    BY <1>1, <1>3, <1>4, <1>11 DEF EntryHolds
  <2>4. PICK latest, confirmed, shown : latest = inFlight[i].latest /\ confirmed = ops[o].doc /\ shown = byId[i]
    OBVIOUS
  <2>5. SettleEffect(o, i, "acked", latest, confirmed, shown) /\ "acked" \in {"acked", "rejected"}
    BY <2>1, <2>4
  <2> QED BY <1>3, <1>9, <1>10, <2>2, <2>3, <2>4, <2>5, ViewSettles
<1>12. CASE ~Writes(o)
  <2>1. SettleEffect(o, i, "acked", None, None, None) /\ "acked" \in {"acked", "rejected"}
    BY <1>1, <1>12 DEF FinishEffect
  <2> QED BY <1>3, <1>8, <1>9, <1>10, <1>12, <2>1, ViewSettles
<1> QED BY <1>11, <1>12

\* Rejecting a call, its document rolled back, keeps ViewHolds of it.
LEMMA ViewRejected ==
  ASSUME Calm, BaseInv', Uncrossed', attached # 0, ~timer, NEW o \in Ops, Rejects(o), NEW i \in Ids, i = ops[o].id
  PROVE  ViewHolds(i)'
<1>0. TypeOK /\ ShapeInv
  BY CalmParts
<1>1. RejectEffect(o, i)
  BY <1>0, RejectsDoes
<1>2. ~inFlight[i].moved /\ ops[o].st \in {"look", "put", "patch", "bury"} /\ Running(o)
  <2>1. clashes' = {}
    BY DEF Uncrossed
  <2> QED BY <1>1, <2>1 DEF RejectEffect, Running
<1>3. /\ inFlight[i] # None /\ Busy(o) /\ stores \in 1..MaxStores /\ InUse /\ Head(Queue(i)) = o
      /\ ~swap /\ ~Wrote(o)
  BY <1>2, RunsHere DEF Wrote
<1>4. EntryHolds(i) /\ EventHolds(i)
  BY <1>3, CalmParts DEF EntryInv, EventInv
<1>5. Out(i) = {}
  BY <1>2, <1>3, <1>4 DEF EventHolds
<1>6. listing = None => inFlight[i].confirmed = Shown(i)
  BY <1>2, <1>3, ViewOf
<1>7. \A seen : listing # None /\ seen = listing.seen => Same(seen, i)
  BY <1>3, <1>5, ViewOf
<1>8. \A seen : listing # None /\ seen = listing.seen =>
         AgreesOn(Out(i), events, Shown(i), DocIn(seen, i), OneOf(LiveOf(seen, i)))
  BY <1>3, <1>7, SameAgrees
<1>9. listing = None /\ Len(Queue(i)) = 1 /\ ~(Writes(o) /\ inFlight[i].latest = ops[o].doc) => byId[i] = Shown(i)
  <2>1. SUFFICES ASSUME listing = None, Len(Queue(i)) = 1, ~(Writes(o) /\ inFlight[i].latest = ops[o].doc)
                 PROVE  byId[i] = Shown(i)
    OBVIOUS
  <2>2. Tracked(i)
    BY <1>3, <2>1 DEF Tracked
  <2>3. byId[i] = inFlight[i].latest
    BY <1>4, <2>2 DEF EntryHolds
  <2>4. ~Writes(o)
    BY <1>2, <1>4, <2>1, OnlyCall DEF EntryHolds
  <2>5. inFlight[i].latest = inFlight[i].confirmed
    BY <1>2, <1>4, <2>1, <2>4, OnlyCall DEF EntryHolds
  <2> QED BY <1>6, <2>1, <2>3, <2>5
<1>10. PICK latest, confirmed, shown :
         /\ SettleEffect(o, i, "rejected", latest, confirmed, shown) /\ confirmed = inFlight[i].confirmed
         /\ (Writes(o) /\ inFlight[i].latest = ops[o].doc) => shown = inFlight[i].confirmed
         /\ ~(Writes(o) /\ inFlight[i].latest = ops[o].doc) => shown = byId[i]
  BY <1>1 DEF RejectEffect
<1>11. listing = None /\ Len(Queue(i)) = 1 => shown = Shown(i)
  BY <1>6, <1>9, <1>10
<1>12. "rejected" \in {"acked", "rejected"}
  OBVIOUS
<1> QED BY <1>3, <1>6, <1>7, <1>8, <1>10, <1>11, <1>12, ViewSettles

\* Issuing a call keeps ViewHolds of its document.
LEMMA ViewIssued ==
  ASSUME Calm, Uncrossed', attached # 0, ~timer, NEW o \in Ops, NEW kind \in Kinds, NEW i \in Ids, Issue(o, kind, i)
  PROVE  ViewHolds(i)'
<1>0. TypeOK /\ ShapeInv
  BY CalmParts
<1>1. IssueEffect(o, kind, i)
  BY <1>0, IssueDoes
<1>2. Untouched(i) /\ OpStep(o, i)
  BY <1>1, IssueIsStep
<1>3. Alive(i)' = Alive(i) /\ Shown(i)' = Shown(i) /\ Out(i)' = Out(i)
  BY <1>2, UntouchedAlive, Aside
<1>4. /\ inFlight'[i] # None /\ listing' = listing
      /\ ops'[o].st = "queued" /\ \A b \in Ops : b # o => ops'[b] = ops[b]
      /\ ops[o].st = "new"
  BY <1>1 DEF IssueEffect
<1>5. CASE inFlight[i] = None
  <2>1. /\ Head(Queue(i)') = o /\ inFlight'[i].confirmed = byId[i]
        /\ inFlight'[i].moved = (Outstanding(i) # {})
    BY <1>1, <1>5 DEF IssueEffect
  <2>2. ~Wrote(o)' /\ ops'[o].st # "done"
    BY <1>4 DEF Wrote
  <2>3. listing = None /\ ~inFlight'[i].moved => byId[i] = Shown(i)
    <3>1. ~inFlight'[i].moved => Out(i) = {}
      BY <2>1 DEF Out
    <3> QED BY <1>5, <3>1, ViewOf DEF AgreesOn
  <2>4. \A p : listing' = None /\ inFlight'[i] # None /\ p = Head(Queue(i)') =>
          /\ ~inFlight'[i].moved /\ ~Wrote(p)' => inFlight'[i].confirmed = Shown(i)'
          /\ ops'[p].st = "done" /\ ops'[p].kind = "remove" => Alive(i)' = {}
    BY <1>3, <1>4, <2>1, <2>2, <2>3
  <2>5. \A seen : listing # None /\ seen = listing.seen /\ Out(i) = {} => Same(seen, i)
    BY <1>5, ViewOf
  <2>6. \A seen, p : listing' # None /\ seen = listing'.seen /\ inFlight'[i] # None /\ p = Head(Queue(i)') =>
          /\ ~Wrote(p)' /\ Out(i)' = {} => Same(seen, i)'
          /\ Wrote(p)' /\ ops'[p].kind # "remove" /\ Out(i)' = {} /\ seen[ops'[p].env] # None
               /\ seen[ops'[p].env].doc = ops'[p].doc => Shown(i)' = ops'[p].doc
          /\ Wrote(p)' /\ ops'[p].kind = "remove" => LiveOf(seen, i) \subseteq {ops'[p].env}
    BY <1>3, <1>4, <2>1, <2>2, <2>5 DEF Same
  <2> QED BY <1>4, <2>4, <2>6, ViewIs
<1>6. CASE inFlight[i] # None
  <2>1. /\ Queue(i)' = Append(Queue(i), o)
        /\ inFlight'[i].confirmed = inFlight[i].confirmed /\ inFlight'[i].moved = inFlight[i].moved
    BY <1>1, <1>6 DEF IssueEffect
  <2>2. PICK h : h = Head(Queue(i))
    OBVIOUS
  <2>3. Queue(i) \in Seq(Ops) /\ Queue(i) # <<>> /\ h \in Ops /\ Busy(h)
    BY <1>0, <1>6, <2>2, EntryAt
  <2>4. Head(Queue(i)') = h /\ h # o
    BY <1>4, <2>1, <2>2, <2>3, QueueAppend DEF Busy
  <2>5. ops'[h] = ops[h] /\ (Wrote(h)' <=> Wrote(h))
    BY <1>4, <2>3, <2>4 DEF Wrote, Writes
  <2>6. \A p : listing' = None /\ inFlight'[i] # None /\ p = Head(Queue(i)') =>
          /\ ~inFlight'[i].moved /\ ~Wrote(p)' => inFlight'[i].confirmed = Shown(i)'
          /\ ops'[p].st = "done" /\ ops'[p].kind = "remove" => Alive(i)' = {}
    BY <1>3, <1>4, <1>6, <2>1, <2>2, <2>4, <2>5, ViewOf DEF Writes
  <2>7. \A seen : listing # None /\ seen = listing.seen =>
          /\ ~Wrote(h) /\ Out(i) = {} => Same(seen, i)
          /\ Wrote(h) /\ Writes(h) /\ Out(i) = {} /\ seen[ops[h].env] # None /\ seen[ops[h].env].doc = ops[h].doc
               => Shown(i) = ops[h].doc
          /\ Wrote(h) /\ ~Writes(h) => LiveOf(seen, i) \subseteq {ops[h].env}
    BY <1>6, <2>2, ViewOf
  <2>8. \A seen, p : listing' # None /\ seen = listing'.seen /\ inFlight'[i] # None /\ p = Head(Queue(i)') =>
          /\ ~Wrote(p)' /\ Out(i)' = {} => Same(seen, i)'
          /\ Wrote(p)' /\ ops'[p].kind # "remove" /\ Out(i)' = {} /\ seen[ops'[p].env] # None
               /\ seen[ops'[p].env].doc = ops'[p].doc => Shown(i)' = ops'[p].doc
          /\ Wrote(p)' /\ ops'[p].kind = "remove" => LiveOf(seen, i) \subseteq {ops'[p].env}
    BY <1>3, <1>4, <2>4, <2>5, <2>7 DEF Same, Writes
  <2> QED BY <1>4, <2>6, <2>8, ViewIs
<1> QED BY <1>5, <1>6

\* A step of a persist keeps ViewHolds of its own document.
LEMMA ViewOwn ==
  ASSUME Calm, BaseInv', Uncrossed', attached # 0, ~timer, NEW o \in Ops, Persist(o), NEW i \in Ids, i = ops[o].id
  PROVE  ViewHolds(i)'
<1>0. TypeOK /\ ShapeInv
  BY CalmParts
<1>1. CASE Start(o) \/ ListForIndex(o) \/ SetIndex(o) \/ Look(o) \/ MapEnvelope(o)
  BY <1>1, ViewMoved
<1>2. CASE Put(o)
  BY <1>2, PutEffect, ViewWritten
<1>3. PICK d : d = ops[o].env
  OBVIOUS
<1>4. CASE Patch(o)
  <2>1. d \in Envelopes
    BY <1>0, <1>3, <1>4, PatchWrites
  <2> QED BY <1>3, <1>4, <2>1, PatchEffect, ViewWritten
<1>5. CASE Bury(o)
  <2>1. d \in Envelopes
    BY <1>0, <1>3, <1>5, BuryWrites
  <2> QED BY <1>3, <1>5, <2>1, BuryDoes, ViewBuried
<1> QED BY <1>1, <1>2, <1>4, <1>5, ViewFinished, ViewRejected DEF Persist

\* The index of another document, as the steps of a persist leave it.
LEMMA ViewBeside ==
  ASSUME Calm, Uncrossed', attached # 0, ~timer, NEW o \in Ops, Persist(o), NEW i \in Ids, i = ops[o].id, OpStep(o, i),
         NEW j \in Ids, j # i
  PROVE  ViewHolds(j)'
<1>0. TypeOK /\ ShapeInv
  BY CalmParts
<1>1. attached' # 0 /\ ~timer'
  BY DEF OpStep
<1>2. ASSUME index'[stores].of[j] = index[stores].of[j] PROVE ViewHolds(j)'
  BY <1>1, <1>2, AsideHolds
<1>3. CASE Start(o) \/ ListForIndex(o) \/ Patch(o) \/ Put(o)
  <2>1. index' = index
    BY <1>0, <1>3, MoveDoes
  <2> QED BY <1>2, <2>1
<1>4. CASE Finish(o) \/ Rejects(o)
  BY <1>2, <1>4 DEF Finish, Rejects, held
<1>5. CASE Look(o)
  <2>1. PICK e : e = index[stores].of[i]
    OBVIOUS
  <2>2. LookHere(o, i, e)
    BY <1>5, <2>1, LooksHere
  <2> QED BY <1>2, <2>2 DEF LookHere
<1>6. CASE MapEnvelope(o)
  <2>1. MapEffect(o, i)
    BY <1>6, MapDoes
  <2> QED BY <1>2, <2>1 DEF MapEffect
<1>7. CASE Bury(o)
  <2>1. PICK e : e = ops[o].env
    OBVIOUS
  <2>2. e \in Envelopes
    BY <1>0, <1>7, <2>1, BuryWrites
  <2>3. BuryEffect(o, i, e)
    BY <1>7, <2>1, <2>2, BuryDoes
  <2> QED BY <1>2, <2>3 DEF BuryEffect
<1>8. CASE SetIndex(o)
  <2>1. PICK seen : seen = ops[o].seen
    OBVIOUS
  <2>2. SetEffect(o, seen)
    BY <1>8, <2>1, SetDoes
  <2>3. ReadOf(seen) /\ InUse /\ EventHolds(j)
    BY <2>2, CalmParts DEF SetEffect, RowInv, EventInv, InUse
  <2>4. index'[stores].of[j] = OneOf(LiveOf(seen, j))
    BY <2>2 DEF SetEffect
  <2>5. Alive(j) = {} => LiveOf(seen, j) = {}
    BY <2>2, <2>3, AliveIs DEF SetEffect, ReadOf
  <2>6. \A c \in Out(j) \cap events' : c.dead => index'[stores].of[j] \in {None, c.env}
    BY <2>3, <2>4, <2>5 DEF EventHolds, OneOf
  <2>7. CallsKeep /\ Untouched(j) /\ SameEntry(j) /\ SameSteps(j) /\ Out(j)' = Out(j)
    BY Aside DEF OpStep
  <2>8. byId'[j] = byId[j] /\ listing' = listing /\ events' = events
    BY DEF OpStep
  <2>9. \A b \in Ops : Busy(b) /\ ops[b].id = j /\ ~Writes(b) /\ ops'[b].st = "done" => ops[b].st = "done" \/ Alive(j) = {}
    <3>1. ASSUME NEW b \in Ops, ops[b].id = j, b = o PROVE FALSE
      BY <3>1
    <3>2. \A b \in Ops : b # o => ops'[b] = ops[b]
      BY DEF OpStep
    <3> QED BY <3>1, <3>2
  <2> QED BY <2>6, <2>7, <2>8, <2>9, ViewKept
<1> QED BY <1>3, <1>4, <1>5, <1>6, <1>7, <1>8 DEF Persist

\* A document the replica and the feed do not touch, in a step that leaves the calls alone.
LEMMA ViewStill ==
  ASSUME Calm, attached # 0, ~timer, UNCHANGED <<ops, listing, index>>, NEW i \in Ids, Untouched(i),
         SameEntry(i), byId'[i] = byId[i], Out(i)' = Out(i), Out(i) \cap events' \subseteq Out(i) \cap events, events' \subseteq events
  PROVE  ViewHolds(i)'
<1>1. CallsKeep /\ SameSteps(i)
  BY DEF CallsKeep, SameSteps, Wrote, Writes
<1>2. listing = None /\ inFlight[i] = None =>
        \A c \in Out(i) \cap events' : c.dead => index'[stores].of[i] \in {None, c.env}
  BY ViewOf DEF AgreesOn
<1> QED BY <1>1, <1>2, ViewKept

\* A pull keeps ViewHolds of its document.
LEMMA ViewPulled ==
  ASSUME Calm, ~timer, NEW p, NEW e, NEW i, NEW doc, NEW dead, NEW c, PullEffect(p, e, i, doc, dead, c)
  PROVE  ViewHolds(i)'
<1>0. TypeOK /\ ShapeInv /\ RowInv /\ i \in Ids /\ attached # 0 /\ InUse
  BY CalmParts DEF PullEffect
<1>1. /\ Out(i)' = Out(i) \cup {c} /\ c.env = e /\ c.doc = doc /\ c.dead = dead /\ Out(i)' # {}
      /\ stores' = stores /\ stores \in 1..MaxStores /\ index[stores] # None /\ events' = events \cup {c}
      /\ UNCHANGED <<byId, ops, index, listing, pending>> /\ doc \in Docs /\ pending = <<>>
  BY DEF PullEffect
<1>2. PullNew(p, e, i, doc, dead) \/ PullLive(p, e, i, doc, dead) \/ PullDead(e, i, doc, dead)
  BY DEF PullEffect
<1>3. EventHolds(i)
  BY <1>0, CalmParts DEF EventInv
<1>4. ASSUME NEW d, NEW env, d \in Optional(Docs), AgreesOn(Out(i), events, Shown(i), d, env),
             PullDead(e, i, doc, dead) => env \in {None, e}
      PROVE  AgreesOn(Out(i)', events', Shown(i)', d, env)
  <2>1. CASE PullNew(p, e, i, doc, dead)
    BY <1>1, <1>4, <2>1 DEF PullNew, AgreesOn
  <2>2. CASE PullLive(p, e, i, doc, dead)
    <3>1. Shown(i)' = doc /\ Wins(doc, Shown(i)) /\ ~dead /\ Shown(i) \in Docs /\ \A x \in Out(i) : ~x.dead
      <4>1. e \in Alive(i)
        BY <2>2 DEF PullLive
      <4>2. Shown(i) \in Docs
        BY <1>0, <1>1, <4>1, Alone
      <4> QED BY <2>2, <4>2 DEF PullLive
    <3>2. d \in {None, Shown(i)} \/ Wins(Shown(i), d)
      <4>1. Out(i) = {} \/ \E x \in Out(i) : ~x.dead
        BY <3>1
      <4> QED BY <1>4, <4>1 DEF AgreesOn
    <3>3. d = None \/ Wins(doc, d)
      <4>1. CASE d = None
        BY <4>1
      <4>2. CASE d = Shown(i)
        BY <3>1, <4>2
      <4>3. CASE d # None /\ Wins(Shown(i), d)
        <5>1. d \in Docs
          BY <1>4, <4>3 DEF Optional
        <5> QED BY <1>1, <3>1, <4>3, <5>1, WinsOrder
      <4> QED BY <3>2, <4>1, <4>2, <4>3
    <3>4. \A x \in Out(i)' : ~x.dead
      BY <1>1, <3>1
    <3>5. \E x \in Out(i)' : x.doc = doc
      BY <1>1
    <3> QED BY <1>1, <3>1, <3>3, <3>4, <3>5 DEF AgreesOn
  <2>3. CASE PullDead(e, i, doc, dead)
    <3>1. Out(i)' = {c} /\ c.dead
      BY <1>1, <2>3 DEF PullDead
    <3> QED BY <1>1, <1>4, <2>3, <3>1 DEF AgreesOn
  <2> QED BY <1>2, <2>1, <2>2, <2>3
<1>5. listing' = None /\ inFlight'[i] = None =>
        AgreesOn(Out(i)', events', Shown(i)', byId'[i], index'[stores'].of[i])
  <2>1. SUFFICES ASSUME listing = None, inFlight[i] = None
                 PROVE  AgreesOn(Out(i)', events', Shown(i)', byId[i], index[stores].of[i])
    BY <1>1 DEF PullEffect
  <2>2. AgreesOn(Out(i), events, Shown(i), byId[i], index[stores].of[i])
    BY <1>0, <2>1, ViewOf
  <2>3. ASSUME PullDead(e, i, doc, dead) PROVE index[stores].of[i] = e
    <3>1. e \in Alive(i) /\ Out(i) = {}
      BY <2>3 DEF PullDead
    <3>2. ~Coming(e)
      <4>1. SUFFICES ASSUME e \in Ops, ops[e].st = "map" PROVE FALSE
        BY DEF Coming
      <4>2. Running(e)
        BY <4>1 DEF Running
      <4>3. rows[stores][e] # None /\ rows[stores][e].doc.id = i
        BY <3>1, AliveIs
      <4>4. ops[e].id = i
        BY <1>1, <4>1, <4>3, CalmParts DEF RowInv, Envelopes
      <4> QED BY <2>1, <4>1, <4>2, <4>4, RunsHere
    <3> QED BY <1>0, <1>1, <2>1, <3>1, <3>2, RowIsFound
  <2>4. byId[i] \in Optional(Docs)
    BY <1>0 DEF TypeOK
  <2> QED BY <1>4, <2>2, <2>3, <2>4
<1>6. \A seen : listing' # None /\ seen = listing'.seen /\ inFlight'[i] = None =>
        /\ AgreesOn(Out(i)', events', Shown(i)', DocIn(seen, i), OneOf(LiveOf(seen, i)))
        /\ Out(i)' = {} => Same(seen, i)'
  <2>1. TAKE seen
  <2>2. SUFFICES ASSUME listing # None, seen = listing.seen, inFlight[i] = None
                 PROVE  AgreesOn(Out(i)', events', Shown(i)', DocIn(seen, i), OneOf(LiveOf(seen, i)))
    BY <1>1 DEF PullEffect
  <2>3. AgreesOn(Out(i), events, Shown(i), DocIn(seen, i), OneOf(LiveOf(seen, i))) /\ (Out(i) = {} => Same(seen, i))
    BY <1>0, <2>2, ViewOf
  <2>4. DocIn(seen, i) \in Optional(Docs)
    <3>1. seen \in Listing
      BY <1>0, <2>2 DEF TypeOK, Optional, Listed
    <3>2. \A x \in LiveOf(seen, i) : seen[x].doc \in Docs
      <4>1. SUFFICES ASSUME NEW x \in LiveOf(seen, i) PROVE seen[x].doc \in Docs
        OBVIOUS
      <4>2. x \in Envelopes /\ seen[x] # None
        BY <4>1, AliveIs
      <4>3. seen[x] \in Rows
        BY <3>1, <4>2 DEF Listing, Optional
      <4> QED BY <4>3 DEF Rows
    <3> QED BY <3>2 DEF DocIn, OneOf, Optional
  <2>5. ASSUME PullDead(e, i, doc, dead) PROVE OneOf(LiveOf(seen, i)) \in {None, e}
    <3>1. LiveOf(seen, i) = {e}
      BY <2>3, <2>5 DEF PullDead, Same
    <3> QED BY <3>1 DEF OneOf
  <2> QED BY <1>4, <2>3, <2>4, <2>5
<1>7. ASSUME inFlight'[i] # None, NEW o, o = Head(Queue(i)')
      PROVE  inFlight'[i].moved = TRUE /\ ops'[o].kind # "remove"
  <2>1. inFlight[i] # None
    BY <1>7 DEF PullEffect
  <2>2. PullLive(p, e, i, doc, dead)
    BY <1>2, <2>1 DEF PullNew, PullDead
  <2>3. 1 \in DOMAIN Queue(i) /\ Head(Queue(i)) = Queue(i)[1]
    BY <1>0, <2>1, EntryAt
  <2>4. Queue(i)' = Queue(i) /\ inFlight'[i].moved = TRUE
    BY <2>1 DEF PullEffect
  <2> QED BY <1>1, <1>7, <2>1, <2>2, <2>3, <2>4 DEF PullLive, Writes
<1>8. \A o : listing' = None /\ inFlight'[i] # None /\ o = Head(Queue(i)') =>
        /\ ~inFlight'[i].moved /\ ~Wrote(o)' => inFlight'[i].confirmed = Shown(i)'
        /\ ops'[o].st = "done" /\ ops'[o].kind = "remove" => Alive(i)' = {}
  BY <1>7
<1>9. \A seen, o : listing' # None /\ seen = listing'.seen /\ inFlight'[i] # None /\ o = Head(Queue(i)') =>
        /\ ~Wrote(o)' /\ Out(i)' = {} => Same(seen, i)'
        /\ Wrote(o)' /\ ops'[o].kind # "remove" /\ Out(i)' = {} /\ seen[ops'[o].env] # None
             /\ seen[ops'[o].env].doc = ops'[o].doc => Shown(i)' = ops'[o].doc
        /\ Wrote(o)' /\ ops'[o].kind = "remove" => LiveOf(seen, i) \subseteq {ops'[o].env}
  BY <1>1, <1>7
<1> QED BY <1>0, <1>5, <1>6, <1>8, <1>9, ViewIs

\* Delivering an event keeps ViewHolds: the flush to come shows it.
LEMMA ViewDelivered ==
  ASSUME Calm, Uncrossed', attached # 0, ~timer, NEW c \in events, Deliver(c), NEW j \in Ids
  PROVE  ViewHolds(j)'
<1>0. TypeOK /\ ShapeInv
  BY CalmParts
<1>1. PICK i : i = c.doc.id
  OBVIOUS
<1>2. DeliverEffect(c, i)
  BY <1>1, DeliverDoes
<1>3. /\ UNCHANGED <<byId, inFlight, ops, rows, stores, listing>> /\ events' = events \ {c} /\ i \in Ids
      /\ events' \subseteq events
  BY <1>2 DEF DeliverEffect
<1>4. CallsKeep /\ SameSteps(j) /\ SameEntry(j) /\ Untouched(j)
  BY <1>3 DEF CallsKeep, SameSteps, SameEntry, Queue, Untouched, Wrote, Writes
<1>5. ASSUME Out(j)' = Out(j),
             listing = None /\ inFlight[j] = None =>
               \A x \in Out(j) \cap events' : x.dead => index'[stores].of[j] \in {None, x.env}
      PROVE  ViewHolds(j)'
  <2>1. listing = None => \A b \in Ops : Busy(b) /\ ops[b].id = j /\ ~Writes(b) /\ ops'[b].st = "done" =>
                             ops[b].st = "done" \/ Alive(j) = {}
    BY <1>3
  <2> QED BY <1>3, <1>4, <1>5, <2>1, ViewKept
<1>6. CASE c.store # attached
  <2>1. Out(j)' = Out(j) /\ index' = index
    BY <1>2, <1>6 DEF DeliverEffect
  <2>2. listing = None /\ inFlight[j] = None =>
               \A x \in Out(j) \cap events' : x.dead => index'[stores].of[j] \in {None, x.env}
    BY <1>3, <2>1, ViewOf DEF AgreesOn
  <2> QED BY <1>5, <2>1, <2>2
<1>7. CASE c.store = attached
  <2>1. attached = stores /\ stores \in 1..MaxStores /\ InUse /\ listing = None
    BY <1>2, <1>7 DEF DeliverEffect
  <2>2. c \in Out(i)
    BY <1>1, <1>7, <2>1, AliveIs
  <2>3. EventHolds(i)
    BY <1>3, <2>1, CalmParts DEF EventInv
  <2>4. ~StaleTombstone(c)
    <3>1. SUFFICES ASSUME StaleTombstone(c) PROVE FALSE
      OBVIOUS
    <3>2. c.dead /\ index[stores].of[i] \notin {None, c.env}
      BY <1>1, <1>7, <2>1, <3>1 DEF StaleTombstone
    <3>3. inFlight[i] = None
      BY <2>2, <2>3, <3>2 DEF EventHolds
    <3>4. AgreesOn(Out(i), events, Shown(i), byId[i], index[stores].of[i])
      BY <1>3, <2>1, <3>3, ViewOf
    <3> QED BY <2>2, <3>2, <3>4 DEF AgreesOn
  <2>5. /\ \A k \in Ids : k # i => index'[stores].of[k] = index[stores].of[k]
        /\ Out(i)' = Out(i) /\ \A k \in Ids : k # i => Out(k)' = Out(k)
    BY <1>2, <1>7, <2>4 DEF DeliverEffect
  <2>6. CASE j # i
    <3>1. listing = None /\ inFlight[j] = None =>
               \A x \in Out(j) \cap events' : x.dead => index'[stores].of[j] \in {None, x.env}
      BY <1>3, <2>5, <2>6, ViewOf DEF AgreesOn
    <3> QED BY <1>5, <2>5, <2>6, <3>1
  <2>7. CASE j = i
    <3>1. \A x \in Out(i) \cap events' : ~x.dead
      <4>1. SUFFICES ASSUME NEW x \in Out(i), x \in events', x.dead PROVE FALSE
        OBVIOUS
      <4>2. Out(i) = {x}
        BY <2>3, <4>1 DEF EventHolds
      <4>3. x = c
        BY <2>2, <4>2
      <4> QED BY <1>3, <4>1, <4>3
    <3> QED BY <1>5, <2>5, <2>7, <3>1
  <2> QED BY <2>6, <2>7
<1> QED BY <1>6, <1>7

\* A burst of one tombstone shows nothing.
LEMMA BurstBuries ==
  ASSUME TypeOK, NEW i \in Ids, \A c \in Range(pending) : c.doc.id = i => c.dead,
         \E c \in Range(pending) : c.doc.id = i
  PROVE  Burst(byId, pending)[i] = None
<1> DEFINE n == Len(pending)
           B == [Ids -> Optional(Docs)]
<1>1. pending \in [1..n -> Change] /\ n \in Nat /\ DOMAIN pending = 1..n
  BY DEF TypeOK
<1>2. ASSUME NEW x \in B, NEW k \in 1..n
      PROVE  /\ Applied(x, pending[k]) \in B
             /\ pending[k].doc.id = i => Applied(x, pending[k])[i] = None
             /\ pending[k].doc.id # i => Applied(x, pending[k])[i] = x[i]
  <2>1. pending[k] \in Change /\ pending[k] \in Range(pending)
    BY <1>1 DEF Range
  <2>2. pending[k].doc \in Docs
    BY <2>1 DEF Change
  <2>3. Applied(x, pending[k]) \in B
    BY <2>2 DEF Applied, Optional
  <2>4. pending[k].doc.id = i => Applied(x, pending[k])[i] = None
    BY <2>1 DEF Applied
  <2>5. pending[k].doc.id # i => Applied(x, pending[k])[i] = x[i]
    BY DEF Applied
  <2> QED BY <2>3, <2>4, <2>5
<1>3. byId \in B
  BY DEF TypeOK
<1> HIDE DEF B, n
<1>3a. \A x \in B, k \in 1..n : Applied(x, pending[k]) \in B
  BY <1>2
<1>4. PICK h \in [0..n -> B] : Loops(h, byId, n, pending)
  BY <1>1, <1>3, <1>3a, FoldIsLoop
<1>4a. (\A k \in 1..n : h[k] = Applied(h[k-1], pending[k])) /\ Burst(byId, pending) = h[n]
  BY <1>4 DEF Loops
<1>5. PICK m \in 1..n : pending[m].doc.id = i
  BY <1>1 DEF Range
<1> DEFINE S == {k \in 0..n : k >= m => h[k][i] = None}
<1>6. 0 \in S
  BY <1>1, <1>5
<1>7. ASSUME NEW k \in 0..(n-1), k \in S PROVE k + 1 \in S
  <2>1. k + 1 \in 1..n /\ k \in 0..n /\ (k + 1) - 1 = k /\ k + 1 \in 0..n
    BY <1>1
  <2>2. h[k] \in B /\ h[k + 1] = Applied(h[k], pending[k + 1])
    BY <1>4a, <2>1
  <2>3. CASE pending[k + 1].doc.id = i
    <3>1. h[k + 1][i] = None
      BY <1>2, <2>1, <2>2, <2>3
    <3> QED BY <2>1, <3>1
  <2>4. CASE pending[k + 1].doc.id # i
    <3>1. h[k + 1][i] = h[k][i]
      BY <1>2, <2>1, <2>2, <2>4
    <3>2. k + 1 # m
      BY <1>5, <2>4
    <3>3. k + 1 >= m => k >= m
      BY <1>1, <1>5, <2>1, <3>2
    <3> QED BY <1>7, <2>1, <3>1, <3>3
  <2> QED BY <2>3, <2>4
<1>8. 0..n \subseteq S
  <2> HIDE DEF S
  <2> QED BY <1>1, <1>6, <1>7, UpTo
<1>9. n \in S /\ n >= m
  BY <1>1, <1>5, <1>8
<1> QED BY <1>4a, <1>9

\* A burst of changes that no row lost to ends at the row shown, where one of them is of
\* the row, or where that was shown before.
LEMMA BurstShows ==
  ASSUME TypeOK, NEW i \in Ids, NEW d \in Docs,
         \A c \in Range(pending) : c.doc.id = i => ~c.dead /\ (c.doc = d \/ Wins(d, c.doc)),
         byId[i] \in {None, d} \/ Wins(d, byId[i])
  PROVE  /\ Burst(byId, pending)[i] \in {None, d} \/ Wins(d, Burst(byId, pending)[i])
         /\ byId[i] = d \/ (\E c \in Range(pending) : c.doc.id = i /\ c.doc = d) => Burst(byId, pending)[i] = d
<1> DEFINE n == Len(pending)
           B == {x \in [Ids -> Optional(Docs)] : x[i] \in {None, d} \/ Wins(d, x[i])}
<1>1. pending \in [1..n -> Change] /\ n \in Nat /\ DOMAIN pending = 1..n
  BY DEF TypeOK
<1>2. ASSUME NEW x \in B, NEW k \in 1..n
      PROVE  /\ Applied(x, pending[k]) \in B
             /\ pending[k].doc.id = i /\ pending[k].doc = d => Applied(x, pending[k])[i] = d
             /\ x[i] = d => Applied(x, pending[k])[i] = d
  <2>1. pending[k] \in Change /\ pending[k] \in Range(pending)
    BY <1>1 DEF Range
  <2>2. PICK a \in Docs : a = pending[k].doc
    BY <2>1 DEF Change
  <2>3. x \in [Ids -> Optional(Docs)] /\ x[i] \in Optional(Docs) /\ (x[i] \in {None, d} \/ Wins(d, x[i]))
    OBVIOUS
  <2>4. Applied(x, pending[k]) \in [Ids -> Optional(Docs)]
    BY <2>2, <2>3 DEF Applied, Optional
  <2>5. CASE a.id = i
    <3>1. ~pending[k].dead /\ (a = d \/ Wins(d, a))
      BY <2>1, <2>2, <2>5
    <3>2. d # None /\ a # None
      BY NoneIsApart
    <3>3. ~Wins(d, d) /\ (Wins(d, a) => ~Wins(a, d))
      BY WinsOrder
    <3>4. ASSUME a = d PROVE Applied(x, pending[k])[i] = d
      <4>1. CASE x[i] = d
        <5>1. Applied(x, pending[k]) = x
          BY <2>2, <2>5, <3>1, <3>2, <3>3, <3>4, <4>1 DEF Applied
        <5> QED BY <4>1, <5>1
      <4>2. CASE x[i] # d
        <5>1. x[i] = None \/ Wins(d, x[i])
          BY <2>3, <4>2
        <5> QED BY <2>2, <2>3, <2>5, <3>1, <3>4, <5>1 DEF Applied
      <4> QED BY <4>1, <4>2
    <3>5. ASSUME x[i] = d PROVE Applied(x, pending[k])[i] = d
      <4>1. ~Wins(a, d)
        BY <3>1, <3>3
      <4>2. Applied(x, pending[k]) = x
        BY <2>2, <2>5, <3>1, <3>2, <3>5, <4>1 DEF Applied
      <4> QED BY <3>5, <4>2
    <3>6. Applied(x, pending[k])[i] \in {x[i], a}
      BY <2>2, <2>3, <2>5, <3>1 DEF Applied
    <3>7. Applied(x, pending[k])[i] \in {None, d} \/ Wins(d, Applied(x, pending[k])[i])
      BY <2>3, <3>1, <3>6
    <3> QED BY <2>2, <2>4, <3>4, <3>5, <3>7
  <2>6. CASE a.id # i
    <3>1. Applied(x, pending[k])[i] = x[i]
      BY <2>2, <2>3, <2>6 DEF Applied
    <3> QED BY <2>2, <2>3, <2>4, <2>6, <3>1
  <2> QED BY <2>5, <2>6
<1>3. byId \in B
  BY DEF TypeOK
<1>4. \A x \in B, k \in 1..n : Applied(x, pending[k]) \in B
  BY <1>2
<1>5. \A x \in B : x[i] \in {None, d} \/ Wins(d, x[i])
  OBVIOUS
<1> HIDE DEF B, n
<1>6. PICK h \in [0..n -> B] : Loops(h, byId, n, pending)
  BY <1>1, <1>3, <1>4, FoldIsLoop
<1>6a. h[0] = byId /\ (\A k \in 1..n : h[k] = Applied(h[k-1], pending[k])) /\ Burst(byId, pending) = h[n]
  BY <1>6 DEF Loops
<1>7. n \in 0..n
  BY <1>1
<1>8. Burst(byId, pending)[i] \in {None, d} \/ Wins(d, Burst(byId, pending)[i])
  BY <1>5, <1>6, <1>6a, <1>7
<1>9. ASSUME NEW m \in 0..n, h[m][i] = d PROVE h[n][i] = d
  <2> DEFINE S == {k \in 0..n : k >= m => h[k][i] = d}
  <2>1. 0 \in S
    BY <1>1, <1>9
  <2>2. ASSUME NEW k \in 0..(n-1), k \in S PROVE k + 1 \in S
    <3>1. k + 1 \in 1..n /\ k \in 0..n /\ (k + 1) - 1 = k /\ k + 1 \in 0..n
      BY <1>1
    <3>2. h[k] \in B /\ h[k + 1] = Applied(h[k], pending[k + 1])
      BY <1>6, <1>6a, <3>1
    <3>3. CASE k >= m
      <4>1. h[k + 1][i] = d
        BY <1>2, <2>2, <3>1, <3>2, <3>3
      <4> QED BY <3>1, <4>1
    <3>4. CASE ~(k >= m)
      <4>1. k + 1 >= m => k + 1 = m
        BY <1>1, <3>1, <3>4
      <4> QED BY <1>9, <3>1, <4>1
    <3> QED BY <3>3, <3>4
  <2>3. 0..n \subseteq S
    <3> HIDE DEF S
    <3> QED BY <1>1, <2>1, <2>2, UpTo
  <2>4. n \in S /\ n >= m
    BY <1>1, <2>3
  <2> QED BY <2>4
<1>10. ASSUME byId[i] = d PROVE Burst(byId, pending)[i] = d
  <2>1. 0 \in 0..n
    BY <1>1
  <2> QED BY <1>6, <1>6a, <1>9, <1>10, <2>1
<1>11. ASSUME NEW c \in Range(pending), c.doc.id = i, c.doc = d PROVE Burst(byId, pending)[i] = d
  <2>1. PICK m \in 1..n : pending[m] = c
    BY <1>1 DEF Range
  <2>2. m \in 0..n /\ m - 1 \in 0..n
    BY <1>1
  <2>3. h[m] = Applied(h[m - 1], pending[m]) /\ h[m - 1] \in B
    BY <1>6, <1>6a, <2>2
  <2>4. h[m][i] = d
    BY <1>2, <1>11, <2>1, <2>3
  <2> QED BY <1>6, <1>6a, <1>9, <2>2, <2>4
<1> QED BY <1>8, <1>10, <1>11

\* A flush applies what of the buffer is outstanding on the document.
LEMMA ViewFlushed ==
  ASSUME Calm, BaseInv', Uncrossed', attached # 0, ~timer, Flush, NEW i \in Ids
  PROVE  ViewHolds(i)'
<1>0. TypeOK /\ ShapeInv /\ RowInv
  BY CalmParts
<1>1. /\ UNCHANGED <<ops, rows, stores, inFlight, attached, closing, index, events, listing>>
      /\ byId' = Burst(byId, pending) /\ pending # <<>> /\ pending' = <<>>
  BY DEF Flush, held, lives, feed
<1>2. listing = None
  BY DEF Flush, Crossed, Uncrossed
<1>3. InUse /\ stores \in 1..MaxStores /\ EventHolds(i)
  <2>1. InUse
    BY DEF InUse
  <2> QED BY <2>1, InUseHasReplica, CalmParts DEF Calm, EventInv
<1>4. CallsKeep /\ SameSteps(i) /\ SameEntry(i) /\ Untouched(i)
  BY <1>1 DEF CallsKeep, SameSteps, SameEntry, Queue, Untouched, Wrote, Writes
<1>5. Alive(i)' = Alive(i) /\ Shown(i)' = Shown(i)
  BY <1>4, UntouchedAlive
<1>6. Out(i)' = Out(i) \cap events
  <2>1. Range(pending') = {}
    BY <1>1 DEF Range
  <2> QED BY <1>1, <2>1 DEF Out, Outstanding
<1>7. \A c \in Range(pending) : c.doc.id = i => c \in Out(i)
  BY Buffered
<1>8. \A c \in Out(i) : c \in events \/ (c \in Range(pending) /\ c.doc.id = i)
  BY AliveIs
<1>9. ASSUME inFlight[i] = None PROVE AgreesOn(Out(i) \cap events, events, Shown(i), Burst(byId, pending)[i], index[stores].of[i])
  <2>1. AgreesOn(Out(i), events, Shown(i), byId[i], index[stores].of[i])
    BY <1>2, <1>9, ViewOf
  <2>2. CASE \A c \in Range(pending) : c.doc.id # i
    <3>1. Out(i) \cap events = Out(i)
      BY <1>8, <2>2
    <3>2. Burst(byId, pending)[i] = byId[i]
      BY <1>0, <2>2, BurstLeaves
    <3> QED BY <2>1, <3>1, <3>2
  <2>3. CASE \E c \in Range(pending) : c.doc.id = i /\ c.dead
    <3>1. PICK c \in Range(pending) : c.doc.id = i /\ c.dead
      BY <2>3
    <3>2. Out(i) = {c} /\ Alive(i) = {}
      BY <1>3, <1>7, <3>1 DEF EventHolds
    <3>3. \A x \in Range(pending) : x.doc.id = i => x.dead
      BY <1>7, <3>1, <3>2
    <3>4. Burst(byId, pending)[i] = None
      BY <1>0, <3>1, <3>3, BurstBuries
    <3>5. Shown(i) = None
      BY <3>2 DEF Shown, Alive, DocIn
    <3> QED BY <2>1, <3>1, <3>2, <3>4, <3>5 DEF AgreesOn
  <2>4. CASE (\E c \in Range(pending) : c.doc.id = i) /\ \A c \in Range(pending) : c.doc.id = i => ~c.dead
    <3>1. PICK b \in Range(pending) : b.doc.id = i
      BY <2>4
    <3>2. b \in Out(i) /\ ~b.dead
      BY <1>7, <2>4, <3>1
    <3>3. \A c \in Out(i) : ~c.dead
      BY <1>3, <3>2 DEF EventHolds
    <3>4. PICK e \in Alive(i) : e = b.env
      BY <1>3, <3>2 DEF EventHolds
    <3>5. PICK d \in Docs : d = Shown(i)
      BY <1>0, <1>3, <3>4, Alone
    <3>6. d = rows[stores][e].doc
      BY <1>0, <1>3, <3>4, <3>5, Alone
    <3>7. \A c \in Out(i) : c.doc = d \/ Wins(d, c.doc)
      BY <1>3, <1>9, <3>4, <3>6 DEF EventHolds
    <3>8. byId[i] \in {None, d} \/ Wins(d, byId[i])
      BY <2>1, <3>2, <3>5 DEF AgreesOn
    <3>9. byId[i] = d \/ \E c \in Out(i) : c.doc = d
      BY <2>1, <3>2, <3>5 DEF AgreesOn
    <3>10. \A c \in Range(pending) : c.doc.id = i => ~c.dead /\ (c.doc = d \/ Wins(d, c.doc))
      BY <1>7, <3>3, <3>7
    <3>11. /\ Burst(byId, pending)[i] \in {None, d} \/ Wins(d, Burst(byId, pending)[i])
           /\ byId[i] = d \/ (\E c \in Range(pending) : c.doc.id = i /\ c.doc = d) => Burst(byId, pending)[i] = d
      BY <1>0, <3>8, <3>10, BurstShows
    <3>12. Burst(byId, pending)[i] = d \/ \E c \in Out(i) \cap events : c.doc = d
      BY <1>8, <3>9, <3>11
    <3> QED BY <3>3, <3>5, <3>11, <3>12 DEF AgreesOn
  <2> QED BY <2>2, <2>3, <2>4
<1>10. listing' = None /\ inFlight'[i] = None =>
        AgreesOn(Out(i)', events', Shown(i)', byId'[i], index'[stores'].of[i])
  BY <1>1, <1>5, <1>6, <1>9
<1>11. \A o : listing' = None /\ inFlight'[i] # None /\ o = Head(Queue(i)') =>
        /\ ~inFlight'[i].moved /\ ~Wrote(o)' => inFlight'[i].confirmed = Shown(i)'
        /\ ops'[o].st = "done" /\ ops'[o].kind = "remove" => Alive(i)' = {}
  <2>1. TAKE o
  <2>2. Queue(i)' = Queue(i) /\ inFlight'[i] = inFlight[i] /\ ops'[o] = ops[o]
    BY <1>1 DEF Queue
  <2>3. Wrote(o)' <=> Wrote(o)
    BY <1>1 DEF Wrote, Writes
  <2> QED BY <1>2, <1>5, <2>2, <2>3, ViewOf DEF Writes
<1> QED BY <1>1, <1>2, <1>10, <1>11, ViewIs

\* A listing that reads the rows as they are.
LEMMA ViewListed ==
  ASSUME NEW i \in Ids, listing' # None, listing'.seen = rows'[stores'],
         \A c \in Out(i)' : c.dead => Alive(i)' = {},
         \A o : inFlight'[i] # None /\ o = Head(Queue(i)') /\ Wrote(o)' =>
            /\ ops'[o].kind # "remove" => Shown(i)' = rows'[stores'][ops'[o].env].doc
            /\ ops'[o].kind = "remove" => Alive(i)' = {}
  PROVE  ViewHolds(i)'
<1>1. ASSUME NEW seen, seen = listing'.seen
      PROVE  Same(seen, i)' /\ LiveOf(seen, i) = Alive(i)' /\ DocIn(seen, i) = Shown(i)'
  BY <1>1 DEF Same, Alive, Shown, LiveOf, Live, DocIn
<1>2. \A seen : listing' # None /\ seen = listing'.seen /\ inFlight'[i] = None =>
        /\ AgreesOn(Out(i)', events', Shown(i)', DocIn(seen, i), OneOf(LiveOf(seen, i)))
        /\ Out(i)' = {} => Same(seen, i)'
  <2>1. TAKE seen
  <2>2. SUFFICES ASSUME seen = listing'.seen
                 PROVE  /\ AgreesOn(Out(i)', events', Shown(i)', DocIn(seen, i), OneOf(LiveOf(seen, i)))
                        /\ Out(i)' = {} => Same(seen, i)'
    OBVIOUS
  <2>3. Same(seen, i)' /\ LiveOf(seen, i) = Alive(i)' /\ DocIn(seen, i) = Shown(i)'
    BY <1>1, <2>2
  <2>4. \A c \in Out(i)' : c.dead => OneOf(LiveOf(seen, i)) = None
    BY <2>3 DEF OneOf
  <2> QED BY <2>3, <2>4 DEF AgreesOn
<1>3. \A seen, o : listing' # None /\ seen = listing'.seen /\ inFlight'[i] # None /\ o = Head(Queue(i)') =>
        /\ ~Wrote(o)' /\ Out(i)' = {} => Same(seen, i)'
        /\ Wrote(o)' /\ ops'[o].kind # "remove" /\ Out(i)' = {} /\ seen[ops'[o].env] # None
             /\ seen[ops'[o].env].doc = ops'[o].doc => Shown(i)' = ops'[o].doc
        /\ Wrote(o)' /\ ops'[o].kind = "remove" => LiveOf(seen, i) \subseteq {ops'[o].env}
  BY <1>1
<1> QED BY <1>2, <1>3, ViewIs

\* A listing that starts keeps ViewHolds: what it read is the replica.
LEMMA ViewRelisted ==
  ASSUME Calm, BaseInv', Rehydrate, NEW i \in Ids
  PROVE  ViewHolds(i)'
<1>0. TypeOK /\ ShapeInv /\ RowInv /\ SessionInv
  BY CalmParts
<1>1. /\ UNCHANGED <<byId, inFlight, rows, stores, attached, closing, pending, events, ops>> /\ attached # 0
      /\ listing' = [store |-> attached, seen |-> rows[attached]]
  BY DEF Rehydrate, store, held, lives, feed
<1>2. attached = stores /\ InUse
  BY <1>0, <1>1 DEF SessionInv, InUse
<1>3. stores \in 1..MaxStores /\ EventHolds(i)
  BY <1>2, InUseHasReplica, CalmParts DEF Calm, EventInv
<1>4. rows[stores] \in Listing /\ stores \in Nat
  <2>1. rows[stores] \in Listing /\ stores \in 0..MaxStores
    BY <1>0, <1>3 DEF TypeOK
  <2> QED BY <2>1
<1>5. listing' # None /\ listing'.seen = rows'[stores']
  <2>1. listing' \in Listed
    BY <1>1, <1>2, <1>4 DEF Listed
  <2> QED BY <1>1, <1>2, <2>1, NoneIsApart
<1>6. Untouched(i)
  BY <1>1 DEF Untouched
<1>7. Alive(i)' = Alive(i) /\ Shown(i)' = Shown(i)
  BY <1>6, UntouchedAlive
<1>8. \A c \in Out(i)' : c.dead => Alive(i)' = {}
  <2>1. Out(i)' = Out(i)
    BY <1>1 DEF Out, Outstanding
  <2> QED BY <1>3, <1>7, <2>1 DEF EventHolds
<1>9. ASSUME NEW o, inFlight'[i] # None, o = Head(Queue(i)'), Wrote(o)'
      PROVE  /\ ops'[o].kind # "remove" => Shown(i)' = rows'[stores'][ops'[o].env].doc
             /\ ops'[o].kind = "remove" => Alive(i)' = {}
  <2>1. /\ inFlight[i] # None /\ o = Head(Queue(i)) /\ ops'[o] = ops[o] /\ Wrote(o)
    BY <1>1, <1>9 DEF Queue, Wrote, Writes
  <2>2. o \in Ops /\ ops[o].id = i
    BY <1>0, <2>1, EntryAt
  <2>3. CallHolds(o) /\ CallShape(o)
    BY <1>0, <2>2, CalmParts DEF CallInv, ShapeInv
  <2>4. ops[o].st \in {"map", "done"} /\ (Writes(o) \/ ops[o].env # None)
    BY <2>1 DEF Wrote
  <2>5. Writes(o) => ops[o].env \in Alive(i)
    BY <2>2, <2>3, <2>4 DEF CallHolds, CallShape
  <2>6. ~Writes(o) => Alive(i) = {}
    BY <2>2, <2>3, <2>4 DEF CallHolds, CallShape
  <2>7. Writes(o) => Shown(i) = rows[stores][ops[o].env].doc
    BY <1>0, <1>3, <2>5, Alone
  <2> QED BY <1>1, <1>7, <2>1, <2>6, <2>7 DEF Writes
<1>10. \A o : inFlight'[i] # None /\ o = Head(Queue(i)') /\ Wrote(o)' =>
            /\ ops'[o].kind # "remove" => Shown(i)' = rows'[stores'][ops'[o].env].doc
            /\ ops'[o].kind = "remove" => Alive(i)' = {}
  BY <1>9
<1> QED BY <1>5, <1>8, <1>10, ViewListed

\* A replica attached is being listed, and keeps ViewHolds.
LEMMA ViewAttached ==
  ASSUME Calm, BaseInv', Attach, NEW i \in Ids
  PROVE  ViewHolds(i)'
<1>0. TypeOK /\ ShapeInv /\ SessionInv /\ TypeOK'
  BY CalmParts DEF BaseInv
<1>1. /\ UNCHANGED <<byId, inFlight, pending, events, ops>> /\ ~InUse /\ stores' = stores + 1
      /\ listing' = [store |-> stores + 1, seen |-> rows'[stores + 1]] /\ stores < MaxStores
  BY DEF Attach, store, InUse
<1>2. stores \in 0..MaxStores /\ MaxStores \in Nat
  BY <1>0, ConstantsOK DEF TypeOK, ConstantsOK
<1>3. stores' \in 1..MaxStores /\ stores + 1 \in Nat
  BY <1>1, <1>2
<1>4. listing' # None /\ listing'.seen = rows'[stores']
  <2>1. rows'[stores'] \in Listing
    BY <1>0, <1>3 DEF TypeOK
  <2>2. listing' \in Listed
    BY <1>1, <1>3, <2>1 DEF Listed
  <2> QED BY <1>1, <2>2, NoneIsApart
<1>5. Out(i)' = {}
  <2>1. SUFFICES ASSUME NEW c \in Out(i)' PROVE FALSE
    OBVIOUS
  <2>2. (c \in events \/ c \in Range(pending)) /\ c.store = stores + 1
    BY <1>1, <2>1 DEF Out, Outstanding
  <2>3. c \notin events
    <3>1. c \in events => c.store \in 1..stores
      BY <1>0 DEF SessionInv
    <3> QED BY <1>2, <2>2, <3>1
  <2>4. c \notin Range(pending)
    BY <1>0, <1>1 DEF SessionInv, Range
  <2> QED BY <2>2, <2>3, <2>4
<1>6. \A o : inFlight'[i] # None /\ o = Head(Queue(i)') => ~Wrote(o)'
  <2>1. SUFFICES ASSUME NEW o, inFlight'[i] # None, o = Head(Queue(i)'), Wrote(o)' PROVE FALSE
    OBVIOUS
  <2>2. inFlight[i] # None /\ o = Head(Queue(i)) /\ Wrote(o)
    BY <1>1, <2>1 DEF Queue, Wrote, Writes
  <2>3. o \in Ops /\ Running(o)
    BY <1>0, <2>2, EntryAt DEF Wrote, Running
  <2> QED BY <1>1, <2>3, RunsHere
<1> QED BY <1>4, <1>5, <1>6, ViewListed

\* A listing that ends shows what the replica holds of each quiet document.
LEMMA ViewHydrated ==
  ASSUME Calm, Uncrossed', attached # 0, ~timer, Hydrated, NEW i \in Ids
  PROVE  ViewHolds(i)'
<1>0. TypeOK /\ ShapeInv
  BY CalmParts
<1>1. PICK seen : seen = listing.seen
  OBVIOUS
<1>2. HydrateEffect(seen)
  BY <1>1, HydrateDoes
<1>3. /\ UNCHANGED <<pending, ops, rows, attached, stores, events>> /\ listing # None /\ listing' = None /\ InUse
      /\ index'[stores].of[i] = OneOf(LiveOf(seen, i))
  BY <1>2 DEF HydrateEffect
<1>4. Untouched(i) /\ Out(i)' = Out(i)
  BY <1>3 DEF Untouched, Out, Outstanding
<1>5. Alive(i)' = Alive(i) /\ Shown(i)' = Shown(i)
  BY <1>4, UntouchedAlive
<1>6. ASSUME inFlight'[i] = None
      PROVE  AgreesOn(Out(i)', events', Shown(i)', byId'[i], index'[stores'].of[i])
  <2>1. inFlight[i] = None
    BY <1>2, <1>6 DEF HydrateEffect
  <2>2. byId'[i] = DocIn(seen, i)
    BY <1>2, <2>1 DEF HydrateEffect
  <2>3. AgreesOn(Out(i), events, Shown(i), DocIn(seen, i), OneOf(LiveOf(seen, i)))
    BY <1>1, <1>3, <2>1, ViewOf
  <2> QED BY <1>3, <1>4, <1>5, <2>2, <2>3
<1>7. ASSUME NEW o, inFlight'[i] # None, o = Head(Queue(i)')
      PROVE  /\ inFlight'[i].moved = TRUE
             /\ ops'[o].st = "done" /\ ops'[o].kind = "remove" => Alive(i)' = {}
  <2>1. inFlight[i] # None
    BY <1>2, <1>7 DEF HydrateEffect
  <2>2. inFlight'[i].moved = TRUE /\ o = Head(Queue(i))
    BY <1>2, <1>7, <2>1 DEF HydrateEffect
  <2>3. ASSUME ops[o].st = "done", ~Writes(o) PROVE Alive(i) = {}
    <3>1. o \in Ops /\ ops[o].id = i /\ Running(o)
      BY <1>0, <2>1, <2>2, <2>3, EntryAt DEF Running
    <3>2. LiveOf(seen, i) = {}
      BY <1>2, <2>3, <3>1 DEF HydrateEffect
    <3>3. CASE ops[o].env # None
      BY <2>3, <3>1, <3>3, CalmParts DEF CallInv, CallHolds
    <3>4. CASE ops[o].env = None
      <4>1. ~Wrote(o) /\ Out(i) = {}
        BY <2>3, <3>1, <3>4, RemoveAlone DEF Wrote
      <4>2. Same(seen, i)
        BY <1>1, <1>3, <2>1, <2>2, <4>1, ViewOf
      <4> QED BY <3>2, <4>2 DEF Same
    <3> QED BY <3>3, <3>4
  <2> QED BY <1>3, <1>5, <2>2, <2>3 DEF Writes
<1>8. \A o : listing' = None /\ inFlight'[i] # None /\ o = Head(Queue(i)') =>
        /\ ~inFlight'[i].moved /\ ~Wrote(o)' => inFlight'[i].confirmed = Shown(i)'
        /\ ops'[o].st = "done" /\ ops'[o].kind = "remove" => Alive(i)' = {}
  BY <1>7
<1> QED BY <1>3, <1>6, <1>8, ViewIs

\* Every step that crosses nothing keeps ViewInv.
LEMMA ViewStep ==
  ASSUME Calm, BaseInv', Uncrossed', [Next]_vars
  PROVE  ViewInv'
<1> SUFFICES ASSUME attached' # 0, ~timer', NEW j \in Ids PROVE ViewHolds(j)'
  BY DEF ViewInv
<1>0. TypeOK /\ ShapeInv /\ SessionInv
  BY CalmParts
<1>1. ASSUME NEW o \in Ops, Persist(o) PROVE ViewHolds(j)'
  <2>1. PICK i : i = ops[o].id
    OBVIOUS
  <2>2. OpStep(o, i) /\ i \in Ids
    BY <1>1, <2>1, StepOf DEF OpStep
  <2>3. attached # 0 /\ ~timer
    BY <2>2 DEF OpStep
  <2> QED BY <1>1, <2>1, <2>2, <2>3, ViewBeside, ViewOwn
<1>2. ASSUME NEW o \in Ops, NEW kind \in Kinds, NEW i \in Ids, Issue(o, kind, i) PROVE ViewHolds(j)'
  <2>0. IssueEffect(o, kind, i)
    BY <1>0, <1>2, IssueDoes
  <2>1. OpStep(o, i) /\ index' = index
    BY <2>0, IssueIsStep DEF IssueEffect
  <2>2. attached # 0 /\ ~timer
    BY <2>1 DEF OpStep
  <2>3. j # i => ViewHolds(j)'
    BY <2>1, AsideHolds
  <2> QED BY <1>2, <2>2, <2>3, ViewIssued
<1>3. ASSUME NEW p \in Pulls, Pull(p) PROVE ViewHolds(j)'
  <2>1. PICK e \in Envelopes, i \in Ids, doc \in Docs, dead \in BOOLEAN, c \in Change : PullEffect(p, e, i, doc, dead, c)
    BY <1>3, PullDoes
  <2>2. attached # 0 /\ ~timer
    BY <2>1 DEF PullEffect
  <2>3. CASE j # i
    <3>1. /\ Untouched(j) /\ inFlight'[j] = inFlight[j] /\ Out(j)' = Out(j) /\ Out(j)' \cap events' = Out(j) \cap events
          /\ UNCHANGED <<ops, byId, attached, closing, listing, index>>
      BY <2>1, <2>3 DEF PullEffect
    <3>2. CallsKeep /\ SameEntry(j) /\ SameSteps(j)
      BY <3>1 DEF CallsKeep, SameEntry, Queue, SameSteps, Wrote, Writes
    <3>3. ViewHolds(j)
      BY <2>2, ViewOf
    <3>4. \A b \in Ops : Busy(b) /\ ops[b].id = j /\ ops'[b].kind = "remove" => (ops'[b].st = "done" => ops[b].st = "done")
      BY <3>1
    <3> QED BY <1>0, <3>1, <3>2, <3>3, <3>4, ViewFrame
  <2> QED BY <2>1, <2>2, <2>3, ViewPulled
<1>4. ASSUME NEW c \in events, Deliver(c) PROVE ViewHolds(j)'
  BY <1>4, ViewDelivered DEF Deliver, lives
<1>5. ASSUME NEW c \in events, Undecodable(c) PROVE FALSE
  BY <1>5 DEF Undecodable
<1>6. CASE Flush
  BY <1>6, ViewFlushed DEF Flush, lives
<1>7. CASE Hydrated
  BY <1>7, ViewHydrated DEF Hydrated, lives
<1>8. CASE EndSwap \/ UNCHANGED vars
  <2>1. UNCHANGED <<byId, inFlight, pending, ops, rows, index, attached, stores, listing, timer, events>>
    BY <1>8 DEF EndSwap, vars, store, held, lives, feed
  <2>2. Untouched(j) /\ SameEntry(j) /\ Out(j)' = Out(j) /\ Out(j) \cap events' \subseteq Out(j) \cap events
    BY <2>1 DEF Untouched, SameEntry, Queue, Out, Outstanding
  <2> QED BY <2>1, <2>2, ViewStill
<1>9. ASSUME NEW swaps \in BOOLEAN, Detach(swaps) PROVE FALSE
  BY <1>9 DEF Detach
<1>10. CloseAndClear => FALSE
  BY <1>0 DEF CloseAndClear, SessionInv
<1> QED BY <1>1, <1>2, <1>3, <1>4, <1>5, <1>6, <1>7, <1>8, <1>9, <1>10, ViewRelisted, ViewAttached DEF Next

(***************************************************************************)
(* The invariant                                                           *)
(***************************************************************************)
\* The first state, with no replica open, no call made and nothing pulled, is in step.
LEMMA InStepInit == Init => InStep
<1> SUFFICES ASSUME Init PROVE InStep
  OBVIOUS
<1>1. /\ \A i \in Ids : inFlight[i] = None /\ byId[i] = None
      /\ \A o \in Ops : ops[o].st = "new" /\ ops[o].seen = None
      /\ \A s \in 1..MaxStores, e \in Envelopes : rows[s][e] = None
      /\ attached = 0 /\ closing = 0 /\ ~swap /\ listing = None
  BY DEF Init, NewCall, NoRows
<1>2. ~InUse /\ \A o \in Ops : ~Running(o) /\ ~Busy(o)
  BY <1>1 DEF InUse, Running, Busy
<1>3. CallInv /\ QueueInv
  BY <1>1, <1>2 DEF CallInv, CallHolds, QueueInv
<1>4. RowInv
  BY <1>1 DEF RowInv, LiveOf, Live
<1>5. IndexInv /\ EventInv /\ EntryInv /\ ViewInv
  BY <1>1, <1>2 DEF IndexInv, EventInv, EntryInv, ViewInv
<1>6. OriginInv /\ StandInv
  BY <1>1 DEF OriginInv, OriginHolds, StandInv
<1> QED BY <1>3, <1>4, <1>5, <1>6 DEF InStep

\* No step that crosses nothing puts store, calls, replica and feed out of step.
LEMMA StoreStep == BaseInv /\ StoreInv /\ BaseInv' /\ [Next]_vars => StoreInv'
<1> SUFFICES ASSUME BaseInv, StoreInv, BaseInv', [Next]_vars, Uncrossed' PROVE InStep'
  BY DEF StoreInv
<1>1. Calm
  BY ClashesGrow DEF Calm, StoreInv, Uncrossed
<1>2. CallInv' /\ QueueInv' /\ RowInv'
  BY <1>1, CallStep, QueueStep, RowStep
<1>3. IndexInv' /\ EventInv' /\ EntryInv'
  BY <1>1, IndexStep, EventStep, EntryStep
<1>4. ViewInv' /\ OriginInv' /\ StandInv'
  BY <1>1, ViewStep, OriginStep, StandStep
<1> QED BY <1>2, <1>3, <1>4 DEF InStep

\* Where a document is quiet the store shows the one live row of it, which the index finds.
LEMMA QuietShows ==
  ASSUME Calm, NEW i \in Ids, Quiet(i)
  PROVE  /\ attached = stores /\ stores \in 1..MaxStores
         /\ Alive(i) = {} => byId[i] = None
         /\ \A e \in Alive(i) : byId[i] = rows[stores][e].doc /\ index[stores].of[i] = e
<1>1. /\ attached # 0 /\ attached = stores /\ index[stores] # None
      /\ inFlight[i] = None /\ Out(i) = {} /\ listing = None /\ ~timer
  BY CalmParts DEF Quiet, SessionInv, Out
<1>2. stores \in 1..MaxStores /\ TypeOK /\ RowInv /\ ShapeInv
  BY <1>1, CalmParts, ConstantsOK DEF TypeOK, ConstantsOK
<1>3. byId[i] = Shown(i)
  BY <1>1, ViewOf DEF AgreesOn
<1>4. ASSUME NEW e \in Alive(i) PROVE byId[i] = rows[stores][e].doc /\ index[stores].of[i] = e
  <2>1. e \in Envelopes /\ rows[stores][e] # None /\ rows[stores][e].doc.id = i
    BY AliveIs
  <2>2. ~Coming(e)
    <3> SUFFICES ASSUME e \in Ops, ops[e].st = "map" PROVE FALSE
      BY DEF Coming
    <3>1. Busy(e) /\ ops[e].id = i
      BY <1>2, <2>1 DEF Busy, RowInv
    <3>2. CallShape(e)
      BY <1>2 DEF ShapeInv
    <3> QED BY <1>1, <3>1, <3>2 DEF CallShape
  <2>3. index[stores].of[i] = e
    BY <1>1, <2>2, RowIsFound
  <2>4. Shown(i) = rows[stores][e].doc
    BY <1>2, Alone
  <2> QED BY <1>3, <2>3, <2>4
<1>5. Alive(i) = {} => Shown(i) = None
  BY <1>2, Alone
<1> QED BY <1>1, <1>2, <1>3, <1>4, <1>5

(***************************************************************************)
(* What a store, its replicas and its feed guarantee while nothing crosses *)
(***************************************************************************)
\* While no crossing was met, store, calls, replica, index and feed are in step: the
\* inductive invariant behind the four theorems that follow.
THEOREM StoreInStep == Spec => [](BaseInv /\ StoreInv)
<1>1. Init => BaseInv /\ StoreInv
  BY BaseInit, InStepInit DEF StoreInv
<1>2. BaseInv /\ StoreInv /\ [Next]_vars => (BaseInv /\ StoreInv)'
  BY BaseStep, StoreStep
<1> QED BY <1>1, <1>2, PTL DEF Spec

\* Without a crossing, what a store shows of a document is what its replica holds, once the
\* writes, pulls and listings of the document have settled (commit, settle, flush, hydrate).
THEOREM StoreMapShowsReplica == Spec => []MapShowsReplicaUncrossed
<1>1. BaseInv /\ StoreInv => MapShowsReplicaUncrossed
  <2> SUFFICES ASSUME BaseInv, StoreInv, clashes = {}, NEW i \in Ids, Quiet(i)
               PROVE  IF LiveOf(rows[attached], i) = {} THEN byId[i] = None
                      ELSE \E e \in LiveOf(rows[attached], i) : byId[i] = rows[attached][e].doc
    BY DEF MapShowsReplicaUncrossed, MapShowsReplica
  <2>1. Calm
    BY DEF Calm, StoreInv, Uncrossed
  <2>2. /\ attached = stores
        /\ Alive(i) = {} => byId[i] = None
        /\ \A e \in Alive(i) : byId[i] = rows[stores][e].doc
    BY <2>1, QuietShows
  <2> QED BY <2>2 DEF Alive
<1> QED BY <1>1, StoreInStep, PTL

\* Without a crossing, no document has two live rows in a replica, and the hydration index
\* finds the one of a quiet document (the persist queue, insertEntity, upsertEntity).
THEOREM StoreOneRow == Spec => []OneRowPerDocument
<1>1. BaseInv /\ StoreInv => OneRowPerDocument
  <2> SUFFICES ASSUME BaseInv, StoreInv, clashes = {}, NEW s \in 1..stores, NEW i \in Ids
               PROVE  /\ \A d, e \in LiveOf(rows[s], i) : d = e
                      /\ s = attached /\ Quiet(i) /\ LiveOf(rows[s], i) # {} => index[s].of[i] \in LiveOf(rows[s], i)
    BY DEF OneRowPerDocument
  <2>1. Calm
    BY DEF Calm, StoreInv, Uncrossed
  <2>2. s \in 1..MaxStores
    BY <2>1, CalmParts, ConstantsOK DEF TypeOK, ConstantsOK
  <2>3. \A d, e \in LiveOf(rows[s], i) : d = e
    BY <2>1, <2>2, CalmParts DEF RowInv
  <2>4. s = attached /\ Quiet(i) /\ LiveOf(rows[s], i) # {} => index[s].of[i] \in LiveOf(rows[s], i)
    <3> SUFFICES ASSUME s = attached, Quiet(i), LiveOf(rows[s], i) # {} PROVE index[s].of[i] \in LiveOf(rows[s], i)
      OBVIOUS
    <3>1. attached = stores /\ \A e \in Alive(i) : index[stores].of[i] = e
      BY <2>1, QuietShows
    <3> QED BY <3>1 DEF Alive
  <2> QED BY <2>3, <2>4
<1> QED BY <1>1, StoreInStep, PTL

\* Without a crossing, the document of an acknowledged write, or one that wins over it,
\* stays in the replica it was acknowledged in (patch, adoptPulled, deleteEntity).
THEOREM StoreNewestStands == Spec => []NewestWriteStands
<1>1. BaseInv /\ StoreInv => NewestWriteStands
  BY DEF StoreInv, InStep, StandInv, Writes, Uncrossed, NewestWriteStands
<1> QED BY <1>1, StoreInStep, PTL

\* Without a crossing, what a store shows of another device's writes is in the replica it
\* is attached to, or was superseded there (whileAttached, deactivateStore).
THEOREM StoreShowsOwnPulls == Spec => []ShowsNoForeignPull
<1>1. BaseInv /\ StoreInv => ShowsNoForeignPull
  <2> SUFFICES ASSUME BaseInv, StoreInv, clashes = {}, NEW i \in Ids,
                      attached # 0, inFlight[i] = None, byId[i] # None, byId[i].src \in Pulls
               PROVE  \E e \in Envelopes : /\ rows[attached][e] # None /\ rows[attached][e].doc.id = i
                                           /\ ~Wins(byId[i], rows[attached][e].doc)
    BY DEF ShowsNoForeignPull
  <2>1. OriginHolds(i) /\ attached = stores /\ byId[i].id = i
    BY DEF StoreInv, Uncrossed, InStep, OriginInv, BaseInv, SessionInv, IdInv
  <2> QED BY <2>1 DEF OriginHolds, Backed
<1> QED BY <1>1, StoreInStep, PTL
=============================================================================
