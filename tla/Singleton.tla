------------------------------ MODULE Singleton -------------------------------
(***************************************************************************)
(* One logical document on several devices: the document app               *)
(* (src/react/documentApp.ts) over the replica's singleton operations      *)
(* (hydrateSingleton, #tombstoneUnlessChanged and upsertEntity of          *)
(* src/storage/localStore.ts), the change events of patchFromChange, and   *)
(* the adoption of the anonymous document (src/storage/adopt.ts).  RxDB's  *)
(* replication and the Space are external: each device holds the master    *)
(* state it last saw of a row (base) and pushes a row that differs from it.*)
(*                                                                         *)
(* Two devices that created the document apart hold two rows for it, which *)
(* no per-row conflict handler ever joins; hydrateSingleton does.  A row   *)
(* is named for the document that minted it.                               *)
(*                                                                         *)
(* A persist is one step here; EntityStore has its interleavings.  What a  *)
(* document says is its stamp and its writer: nothing else decides.        *)
(***************************************************************************)
EXTENDS Naturals, Sequences, FiniteSets

CONSTANTS
  N,             \* devices
  None,
  MaxAt,         \* bound: instants a document may be stamped with
  MaxLogouts,    \* bound: sessions ended
  MaxIdle,       \* bound: hydrates of a replica without duplicates
  PullsOverUpdates  \* whether the Space's state may land while an update waits

Devices  == 1..N
Payloads == [at : 1..MaxAt, by : Devices]
Rows     == [doc : Payloads, gone : BOOLEAN]
Envs     == Payloads
Replica  == [Envs -> Rows \cup {None}]
Steps    == {"decrypt", "remove"}
Hydrates == [at : Steps, seen : [Envs -> Payloads \cup {None}], winner : Envs \cup {None},
             left : SUBSET Envs]

ASSUME ConstantsOK ==
  /\ {N, MaxAt, MaxLogouts, MaxIdle} \subseteq Nat /\ N > 0 /\ PullsOverUpdates \in BOOLEAN
  /\ None \notin Payloads /\ None \notin Rows /\ None \notin Hydrates

VARIABLES
  master,        \* the Space's rows
  rows, base,    \* of each device: its rows, and the master states it last saw
  index,         \* the row its hydration index maps the document to
  shown,         \* the document the app shows
  queue,         \* documents written and not persisted
  hyd,           \* the hydrate under way
  open,          \* whether a session is open over the replica
  last,          \* the last instant the device stamped
  spent,         \* what is spent of the bounds
  newest         \* history: the newest document persisted so far

vars == <<master, rows, base, index, shown, queue, hyd, open, last, spent, newest>>

(* One type invariant; a winner and its losers are rows the hydrate read. *)
Picked(h) ==
  h.at = "remove" =>
    h.winner # None /\ h.seen[h.winner] # None /\ \A e \in h.left : h.seen[e] # None
TypeOK ==
  /\ master \in Replica
  /\ rows \in [Devices -> Replica] /\ base \in [Devices -> Replica]
  /\ index \in [Devices -> Envs \cup {None}]
  /\ shown \in [Devices -> Payloads \cup {None}]
  /\ queue \in [Devices -> Seq(Payloads)]
  /\ hyd \in [Devices -> Hydrates \cup {None}]
  /\ open \in [Devices -> BOOLEAN]
  /\ last \in [Devices -> 0..MaxAt]
  /\ spent \in [logouts : 0..MaxLogouts, idle : 0..MaxIdle]
  /\ newest \in Payloads \cup {None}
  /\ \A d \in Devices : hyd[d] # None => Picked(hyd[d])
------------------------------------------------------------------------------
(* Last write wins, the writer id breaking a tie. *)
Wins(a, b) == a.at > b.at \/ (a.at = b.at /\ a.by > b.by)

Newer(doc)    == IF newest = None \/ Wins(doc, newest) THEN doc ELSE newest

IsLive(row)   == row # None /\ ~row.gone
Live(replica) == {e \in Envs : IsLive(replica[e])}
Alive(doc)    == [doc |-> doc, gone |-> FALSE]
Dead(row)     == [row EXCEPT !.gone = TRUE]

(* What makeLwwConflictHandler makes of a rejected push: a tombstone has   *)
(* no stamp and loses. *)
Resolve(mine, theirs) ==
  IF theirs = None \/ (IsLive(mine) /\ ~IsLive(theirs)) THEN mine
  ELSE IF IsLive(mine) /\ Wins(mine.doc, theirs.doc) THEN mine ELSE theirs

(* patchFromChange: a live row is remembered, and shown unless a newer     *)
(* document is; the tombstone of the row the index maps the document to    *)
(* drops it, any other is a duplicate's. *)
Remembered(d, e, row) ==
  IF IsLive(row) THEN e ELSE IF index[d] \in {e, None} THEN None ELSE index[d]
Patched(d, e, row) ==
  IF IsLive(row)
    THEN IF shown[d] # None /\ ~Wins(row.doc, shown[d]) THEN shown[d] ELSE row.doc
    ELSE IF index[d] \in {e, None} THEN None ELSE shown[d]
Patch(d, e, row) ==
  /\ index' = [index EXCEPT ![d] = Remembered(d, e, row)]
  /\ shown' = [shown EXCEPT ![d] = Patched(d, e, row)]

(* The stamp of a write comes after what its device has seen. *)
Stamps(d) ==
  {at \in 1..MaxAt : at > last[d] /\ \A e \in Live(rows[d]) : at > rows[d][e].doc.at}
------------------------------------------------------------------------------
(* The document app. *)

(* update(): composed over the document shown and shown in its place; it   *)
(* waits its turn in the document's persist queue. *)
Update(d) ==
  /\ open[d]
  /\ \E at \in Stamps(d) :
       LET doc == [at |-> at, by |-> d] IN
       /\ last' = [last EXCEPT ![d] = at]
       /\ shown' = [shown EXCEPT ![d] = doc]
       /\ queue' = [queue EXCEPT ![d] = Append(@, doc)]
  /\ UNCHANGED <<master, rows, base, index, hyd, open, spent, newest>>

(* upsertEntity: in place when the index maps the document to a live row,  *)
(* else as a row of its own. *)
Target(d, doc) == IF index[d] # None /\ IsLive(rows[d][index[d]]) THEN index[d] ELSE doc
Persist(d) ==
  /\ queue[d] # <<>>
  /\ LET doc == Head(queue[d])
         e == Target(d, doc) IN
       /\ rows' = [rows EXCEPT ![d][e] = Alive(doc)]
       /\ index' = [index EXCEPT ![d] = e]
       /\ newest' = Newer(doc)
  /\ queue' = [queue EXCEPT ![d] = Tail(@)]
  /\ UNCHANGED <<master, base, shown, hyd, open, last, spent>>

(* The registry's hydrate: hydrateSingleton reads the live rows, *)
Reading(replica) ==
  [at |-> "decrypt", winner |-> None, left |-> {},
   seen |-> [e \in Envs |-> IF IsLive(replica[e]) THEN replica[e].doc ELSE None]]

Hydrate(d) ==
  /\ open[d] /\ hyd[d] = None
  /\ IF Cardinality(Live(rows[d])) > 1 THEN UNCHANGED spent
     ELSE spent.idle < MaxIdle /\ spent' = [spent EXCEPT !.idle = @ + 1]
  /\ hyd' = [hyd EXCEPT ![d] = Reading(rows[d])]
  /\ UNCHANGED <<master, rows, base, index, shown, queue, open, last, newest>>

Seen(d)          == {e \in Envs : hyd[d].seen[e] # None}
Winner(d)        == CHOOSE e \in Seen(d) : \A f \in Seen(d) \ {e} :
                      ~Wins(hyd[d].seen[f], hyd[d].seen[e])
RowChanged(d, e) == rows[d][e] # Alive(hyd[d].seen[e])

(* replaceAll with the winner; the first hydrate opens the session. *)
Replace(d, e) ==
  /\ open' = [open EXCEPT ![d] = TRUE]
  /\ hyd' = [hyd EXCEPT ![d] = None]
  /\ index' = [index EXCEPT ![d] = e]
  /\ shown' = [shown EXCEPT ![d] = IF e = None THEN None ELSE hyd[d].seen[e]]

(* Mutant: the losers are removed before the winner is known. *)
WeighUnpicked(d) ==
  /\ hyd[d] # None /\ hyd[d].at = "decrypt"
  /\ hyd' = [hyd EXCEPT ![d].at = "remove", ![d].left = Seen(d)]
  /\ index' = [index EXCEPT ![d] = None]
  /\ UNCHANGED <<master, rows, base, shown, queue, open, last, spent, newest>>

(* weighs them once they are decrypted, over an index made empty, *)
Weigh(d) ==
  /\ hyd[d] # None /\ hyd[d].at = "decrypt"
  /\ IF Seen(d) = {} THEN Replace(d, None)
     ELSE IF Seen(d) = {Winner(d)} \/ RowChanged(d, Winner(d)) THEN Replace(d, Winner(d))
     ELSE /\ hyd' = [hyd EXCEPT ![d].at = "remove", ![d].winner = Winner(d),
                                ![d].left = Seen(d) \ {Winner(d)}]
          /\ index' = [index EXCEPT ![d] = None]
          /\ UNCHANGED <<shown, open>>
  /\ UNCHANGED <<master, rows, base, queue, last, spent, newest>>

Removing(d) == hyd[d] # None /\ hyd[d].at = "remove"

(* Mutants of RemoveLoser: incrementalRemove, whatever the row is by now;  *)
(* a loser left to the next hydrate, always. *)
RemoveLoserBlindly(d, e) ==
  /\ Removing(d) /\ e \in hyd[d].left
  /\ hyd' = [hyd EXCEPT ![d].left = @ \ {e}]
  /\ rows' = [rows EXCEPT ![d][e] = Dead(@)]
  /\ UNCHANGED <<master, base, index, shown, queue, open, last, spent, newest>>
RemoveLoserLater(d, e) ==
  /\ Removing(d) /\ e \in hyd[d].left
  /\ hyd' = [hyd EXCEPT ![d].left = @ \ {e}]
  /\ UNCHANGED <<master, rows, base, index, shown, queue, open, last, spent, newest>>

(* removes each loser that stands as it was read, *)
RemoveLoser(d, e) ==
  /\ Removing(d) /\ e \in hyd[d].left
  /\ hyd' = [hyd EXCEPT ![d].left = @ \ {e}]
  /\ rows' = IF RowChanged(d, e) THEN rows ELSE [rows EXCEPT ![d][e] = Dead(@)]
  /\ UNCHANGED <<master, base, index, shown, queue, open, last, spent, newest>>

(* and answers the winner. *)
Hydrated(d) ==
  /\ Removing(d) /\ hyd[d].left = {}
  /\ Replace(d, hyd[d].winner)
  /\ UNCHANGED <<master, rows, base, queue, last, spent, newest>>
------------------------------------------------------------------------------
(* Sessions. *)

(* The session ends once its writes are persisted. *)
Logout(d) ==
  /\ open[d] /\ spent.logouts < MaxLogouts
  /\ queue[d] = <<>> /\ hyd[d] = None
  /\ spent' = [spent EXCEPT !.logouts = @ + 1]
  /\ open' = [open EXCEPT ![d] = FALSE]
  /\ index' = [index EXCEPT ![d] = None] /\ shown' = [shown EXCEPT ![d] = None]
  /\ UNCHANGED <<master, rows, base, queue, hyd, last, newest>>

(* A login opens the replica and hydrates.  One that adopts first merges   *)
(* the anonymous document: mergeAdopted lists the replica, which maps the  *)
(* document to one of its rows, and writes over that row when the adopted  *)
(* document wins, or mints a row when there is none. *)
Login(d) ==
  /\ ~open[d] /\ hyd[d] = None
  /\ hyd' = [hyd EXCEPT ![d] = Reading(rows[d])]
  /\ UNCHANGED <<master, rows, base, index, shown, queue, open, last, spent, newest>>

Listed(d, e) == IF Live(rows[d]) = {} THEN e = None ELSE e \in Live(rows[d])
Adopted(d, doc, e) ==
  IF e = None THEN [rows[d] EXCEPT ![doc] = Alive(doc)]
  ELSE IF Wins(doc, rows[d][e].doc) THEN [rows[d] EXCEPT ![e] = Alive(doc)]
  ELSE rows[d]

LoginAdopting(d) ==
  /\ ~open[d] /\ hyd[d] = None
  /\ \E at \in {a \in 1..MaxAt : a > last[d]}, e \in Envs \cup {None} :
       LET doc     == [at |-> at, by |-> d]
           replica == Adopted(d, doc, e) IN
       /\ Listed(d, e)
       /\ last' = [last EXCEPT ![d] = at]
       /\ rows' = [rows EXCEPT ![d] = replica]
       /\ hyd' = [hyd EXCEPT ![d] = Reading(replica)]
       /\ newest' = IF replica = rows[d] THEN newest ELSE Newer(doc)
  /\ UNCHANGED <<master, base, index, shown, queue, open, spent>>
------------------------------------------------------------------------------
(* Replication. *)

Lands(d) == queue[d] = <<>> \/ PullsOverUpdates

(* A push is conditional on the master state last seen; a rejected one is  *)
(* settled by the conflict handler. *)
Push(d, e) ==
  /\ open[d] /\ rows[d][e] # base[d][e]
  /\ IF master[e] = base[d][e]
       THEN /\ master' = [master EXCEPT ![e] = rows[d][e]]
            /\ base' = [base EXCEPT ![d][e] = rows[d][e]]
            /\ UNCHANGED <<rows, index, shown>>
       ELSE LET row == Resolve(rows[d][e], master[e]) IN
            /\ base' = [base EXCEPT ![d][e] = master[e]]
            /\ rows' = [rows EXCEPT ![d][e] = row]
            /\ IF row = rows[d][e] THEN UNCHANGED <<index, shown>>
                                  ELSE Lands(d) /\ Patch(d, e, row)
            /\ UNCHANGED master
  /\ UNCHANGED <<queue, hyd, open, last, spent, newest>>

(* A pull leaves a row with local changes to the push. *)
Pull(d, e) ==
  /\ open[d] /\ Lands(d)
  /\ rows[d][e] = base[d][e] /\ master[e] # base[d][e]
  /\ base' = [base EXCEPT ![d][e] = master[e]]
  /\ rows' = [rows EXCEPT ![d][e] = master[e]]
  /\ Patch(d, e, master[e])
  /\ UNCHANGED <<master, queue, hyd, open, last, spent, newest>>
------------------------------------------------------------------------------
Init ==
  LET empty == [e \in Envs |-> None] IN
  /\ master = empty
  /\ rows = [d \in Devices |-> empty] /\ base = [d \in Devices |-> empty]
  /\ index = [d \in Devices |-> None] /\ shown = [d \in Devices |-> None]
  /\ queue = [d \in Devices |-> <<>>] /\ hyd = [d \in Devices |-> None]
  /\ open = [d \in Devices |-> FALSE] /\ last = [d \in Devices |-> 0]
  /\ spent = [logouts |-> 0, idle |-> 0] /\ newest = None

Step(d) ==
  \/ Persist(d) \/ Weigh(d) \/ Hydrated(d)
  \/ \E e \in Envs : RemoveLoser(d, e) \/ Push(d, e) \/ Pull(d, e)

Next == \E d \in Devices :
  \/ Step(d)
  \/ Update(d) \/ Hydrate(d) \/ Logout(d) \/ Login(d) \/ LoginAdopting(d)

Spec == Init /\ [][Next]_vars

(* Storage and network calls settle; a device whose replica holds          *)
(* duplicates is opened, or re-hydrated, again. *)
FairSpec ==
  /\ Spec
  /\ \A d \in Devices :
       /\ WF_vars(Persist(d)) /\ WF_vars(Weigh(d)) /\ WF_vars(Hydrated(d))
       /\ \A e \in Envs : WF_vars(RemoveLoser(d, e)) /\ WF_vars(Push(d, e)) /\ WF_vars(Pull(d, e))
       /\ WF_vars(Cardinality(Live(rows[d])) > 1 /\ Hydrate(d))
       /\ WF_vars(Login(d) \/ LoginAdopting(d))
------------------------------------------------------------------------------
(* The newest document persisted on any device is the Space's, or on its   *)
(* way there in a replica: no reconciliation, conflict, adoption or pull   *)
(* tombstones it or lets an older one stand over it, whatever edits cross  *)
(* (localStore.ts:1124-1140, "a pulled edit of a loser may outrank the     *)
(* winner, and removing it blind would lose it"). *)
NewestStands ==
  newest # None => \E e \in Envs :
    \/ master[e] = Alive(newest)
    \/ \E d \in Devices : rows[d][e] = Alive(newest) /\ base[d][e] # rows[d][e]

(* The Space and every device end up with one row, of the same document    *)
(* (localStore.ts:1245-1253, "the space converges on one row"). *)
Converges ==
  <>[](\A d \in Devices : Cardinality(Live(rows[d])) <= 1 /\ rows[d] = master)

(* An update not persisted yet is shown, or something newer is: the next   *)
(* update is composed over it (documentApp.ts:95-97, "each call reads    *)
(* the document as the previous call left it, whether or not that call was *)
(* awaited"). *)
UpdatesCompose ==
  \A d \in Devices : queue[d] # <<>> =>
    shown[d] # None /\ ~Wins(queue[d][Len(queue[d])], shown[d])
------------------------------------------------------------------------------
(* The invariants that make NewestStands inductive. *)

(* The copies of a row anywhere, and the documents they, or a hydrate that *)
(* read them, hold. *)
Copy(e, row) ==
  row # None /\ (master[e] = row \/ \E d \in Devices : rows[d][e] = row \/ base[d][e] = row)
Holds(e, doc) ==
  \/ \E row \in Rows : Copy(e, row) /\ row.doc = doc
  \/ \E d \in Devices : hyd[d] # None /\ hyd[d].seen[e] = doc

(* A document held was stamped, as was the one its row is named for, and   *)
(* it does not win over the newest; it is held of one row only, and no     *)
(* tombstone is the newest's. *)
HeldInv ==
  /\ \A e \in Envs, doc \in Payloads : Holds(e, doc) =>
       /\ doc.at <= last[doc.by] /\ e.at <= last[e.by]
       /\ newest # None /\ ~Wins(doc, newest)
       /\ \A f \in Envs : Holds(f, doc) => f = e
  /\ \A e \in Envs, row \in Rows : Copy(e, row) /\ row.gone => row.doc # newest

(* A document that waits for its persist is its device's, in an open       *)
(* session; it is held nowhere yet, names no row, wins over every document *)
(* of its replica, and is later than those before it in the queue.         *)
Waits(d, doc) ==
  /\ open[d] /\ doc.by = d /\ doc.at <= last[d]
  /\ \A e \in Envs : ~Holds(e, doc)
  /\ \A other \in Payloads : ~Holds(doc, other)
  /\ \A e \in Live(rows[d]) : Wins(doc, rows[d][e].doc)
QueueInv ==
  \A d \in Devices : \A i \in 1..Len(queue[d]) :
    /\ Waits(d, queue[d][i])
    /\ \A j \in 1..Len(queue[d]) : j < i => queue[d][j].at < queue[d][i].at

(* A row that differs from the live master state it was made from holds a  *)
(* later document, or is a tombstone no older. *)
LaterInv ==
  \A d \in Devices, e \in Envs : IsLive(base[d][e]) /\ rows[d][e] # base[d][e] =>
    /\ rows[d][e] # None
    /\ Wins(rows[d][e].doc, base[d][e].doc) \/ (rows[d][e].gone /\ rows[d][e].doc = base[d][e].doc)

(* A loser read is older than the winner read. *)
LoserInv ==
  \A d \in Devices : hyd[d] # None /\ hyd[d].at = "remove" =>
    \A e \in hyd[d].left : Wins(hyd[d].seen[hyd[d].winner], hyd[d].seen[e])

SingletonInv == HeldInv /\ QueueInv /\ LaterInv /\ LoserInv
==============================================================================
