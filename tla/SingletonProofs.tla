--------------------------- MODULE SingletonProofs ---------------------------
(***************************************************************************)
(* What holds of Singleton for every number of devices, instants, sessions *)
(* and hydrates: the type invariant and, while no pulled state lands under *)
(* a waiting update, that the newest document persisted is never lost.     *)
(***************************************************************************)
EXTENDS Singleton, SequenceTheorems, WellFoundedInduction, TLAPS

(***************************************************************************)
(* Documents, rows and their order                                         *)
(***************************************************************************)
\* The bounds are natural numbers.
LEMMA Bounds ==
  /\ N \in Nat /\ N > 0 /\ MaxAt \in Nat /\ MaxLogouts \in Nat /\ MaxIdle \in Nat
  /\ None \notin Payloads /\ None \notin Rows /\ None \notin Hydrates
BY ConstantsOK

\* A document is its stamp and its writer.
LEMMA SameStamp ==
  ASSUME NEW a \in Payloads, NEW b \in Payloads, a.at = b.at, a.by = b.by
  PROVE  a = b
BY DEF Payloads

LEMMA PayloadFields ==
  ASSUME NEW a \in Payloads
  PROVE  a.at \in 1..MaxAt /\ a.at \in Nat /\ a.by \in Devices /\ a.by \in Nat
BY Bounds DEF Payloads, Devices

\* Last write wins is a strict total order.
LEMMA WinsOrders ==
  ASSUME NEW a \in Payloads, NEW b \in Payloads
  PROVE  /\ ~Wins(a, a)
         /\ Wins(a, b) => ~Wins(b, a)
         /\ a # b => Wins(a, b) \/ Wins(b, a)
BY PayloadFields, SameStamp DEF Wins

LEMMA WinsChains ==
  ASSUME NEW a \in Payloads, NEW b \in Payloads, NEW c \in Payloads, Wins(a, b), Wins(b, c)
  PROVE  Wins(a, c)
BY PayloadFields DEF Wins

\* A document stamped by a device is one.
LEMMA Stamped ==
  ASSUME NEW d \in Devices, NEW at \in 1..MaxAt
  PROVE  /\ [at |-> at, by |-> d] \in Payloads
         /\ [at |-> at, by |-> d].at = at /\ [at |-> at, by |-> d].by = d
BY DEF Payloads

LEMMA RowFields ==
  ASSUME NEW row \in Rows
  PROVE  /\ row.doc \in Payloads /\ row.gone \in BOOLEAN /\ row # None
         /\ IsLive(row) <=> ~row.gone
         /\ Dead(row) \in Rows /\ Dead(row).doc = row.doc /\ Dead(row).gone
         /\ ~IsLive(Dead(row)) /\ Dead(row) # None
BY Bounds DEF Rows, IsLive, Dead

LEMMA NoRow == ~IsLive(None)
BY DEF IsLive

LEMMA AliveFields ==
  ASSUME NEW doc \in Payloads
  PROVE  /\ Alive(doc) \in Rows /\ Alive(doc).doc = doc /\ ~Alive(doc).gone
         /\ IsLive(Alive(doc)) /\ Alive(doc) # None
<1>1. Alive(doc) \in Rows
  BY DEF Rows, Alive
<1>2. Alive(doc).doc = doc /\ ~Alive(doc).gone
  BY DEF Alive
<1> QED BY <1>1, <1>2, Bounds DEF IsLive

\* A live row is its document.
LEMMA LiveRow ==
  ASSUME NEW row \in Rows, ~row.gone
  PROVE  row = Alive(row.doc)
BY DEF Rows, Alive

LEMMA AliveIsOne ==
  ASSUME NEW a \in Payloads, NEW b \in Payloads, Alive(a) = Alive(b)
  PROVE  a = b
BY AliveFields

\* A bounded set of naturals has a greatest element.
LEMMA Greatest ==
  ASSUME NEW m \in Nat, NEW S \in SUBSET (0..m), S # {}
  PROVE  \E x \in S : \A y \in S : y <= x
<1> DEFINE T == {m - x : x \in S}
<1>1. T \subseteq Nat /\ T # {}
  <2>1. \A x \in S : x \in 0..m
    OBVIOUS
  <2>2. \A x \in S : m - x \in Nat
    BY <2>1
  <2>3. T # {}
    OBVIOUS
  <2> QED BY <2>2, <2>3
<1>2. PICK t \in T : \A u \in T : ~(<<u, t>> \in OpToRel(<, Nat))
  BY <1>1, NatLessThanWellFounded, WFMin
<1>3. \A u \in T : ~(u < t)
  BY <1>1, <1>2 DEF OpToRel
<1>4. PICK x \in S : t = m - x
  OBVIOUS
<1>5. ASSUME NEW y \in S PROVE y <= x
  <2>1. m - y \in T
    OBVIOUS
  <2>2. ~(m - y < m - x)
    BY <2>1, <1>3, <1>4
  <2>3. x \in 0..m /\ y \in 0..m
    OBVIOUS
  <2> QED BY <2>2, <2>3
<1> QED BY <1>5

\* Among documents read there is one no other wins over.
LEMMA WinnerExists ==
  ASSUME NEW seen \in [Envs -> Payloads \cup {None}],
         NEW S \in SUBSET {e \in Envs : seen[e] # None}, S # {}
  PROVE  \E e \in S : \A f \in S \ {e} : ~Wins(seen[f], seen[e])
<1>1. \A e \in S : seen[e] \in Payloads
  OBVIOUS
<1> DEFINE Ats == {seen[e].at : e \in S}
<1>2. Ats \in SUBSET (0..MaxAt) /\ Ats # {}
  BY <1>1, PayloadFields
<1>3. PICK at \in Ats : \A other \in Ats : other <= at
  BY <1>2, Greatest, Bounds
<1> DEFINE Latest == {e \in S : seen[e].at = at}
           Bys    == {seen[e].by : e \in Latest}
<1>4. Bys \in SUBSET (0..N) /\ Bys # {}
  BY <1>1, PayloadFields DEF Devices
<1>5. PICK by \in Bys : \A other \in Bys : other <= by
  BY <1>4, Greatest, Bounds
<1>6. PICK e \in Latest : seen[e].by = by
  OBVIOUS
<1>7. ASSUME NEW f \in S \ {e} PROVE ~Wins(seen[f], seen[e])
  <2>1. seen[f] \in Payloads /\ seen[e] \in Payloads /\ seen[f].at <= seen[e].at
    BY <1>1, <1>3
  <2>2. seen[f].at = seen[e].at => seen[f].by <= seen[e].by
    BY <1>5, <1>6
  <2> QED BY <2>1, <2>2, PayloadFields DEF Wins
<1> QED BY <1>6, <1>7

(***************************************************************************)
(* The type invariant                                                      *)
(***************************************************************************)
\* What is in a replica, a hydrate and a queue.
LEMMA Typed ==
  ASSUME TypeOK, NEW d \in Devices
  PROVE  /\ rows[d] \in Replica /\ base[d] \in Replica
         /\ \A e \in Envs : /\ rows[d][e] \in Rows \cup {None} /\ base[d][e] \in Rows \cup {None}
                            /\ master[e] \in Rows \cup {None}
         /\ queue[d] \in Seq(Payloads) /\ last[d] \in 0..MaxAt
         /\ hyd[d] # None => /\ hyd[d] \in Hydrates
                             /\ \A e \in Envs : hyd[d].seen[e] \in Payloads \cup {None}
BY DEF TypeOK, Replica, Hydrates

LEMMA ReadingType ==
  ASSUME NEW replica \in Replica
  PROVE  /\ Reading(replica) \in Hydrates /\ Picked(Reading(replica))
         /\ Reading(replica).at = "decrypt"
         /\ \A e \in Envs : Reading(replica).seen[e] =
              IF IsLive(replica[e]) THEN replica[e].doc ELSE None
<1>1. \A e \in Envs : (IF IsLive(replica[e]) THEN replica[e].doc ELSE None) \in Payloads \cup {None}
  BY RowFields, NoRow DEF Replica
<1> QED BY <1>1 DEF Reading, Hydrates, Steps, Picked

\* The winner of a hydrate that read something was read, and none read wins over it.
LEMMA WinnerRead ==
  ASSUME TypeOK, NEW d \in Devices, hyd[d] # None, Seen(d) # {}
  PROVE  /\ Winner(d) \in Seen(d)
         /\ \A f \in Seen(d) \ {Winner(d)} : ~Wins(hyd[d].seen[f], hyd[d].seen[Winner(d)])
<1>1. hyd[d].seen \in [Envs -> Payloads \cup {None}]
  BY Typed DEF Hydrates
<1>2. \E e \in Seen(d) : \A f \in Seen(d) \ {e} : ~Wins(hyd[d].seen[f], hyd[d].seen[e])
  BY <1>1, WinnerExists DEF Seen
<1> QED BY <1>2 DEF Winner

LEMMA ResolveType ==
  ASSUME NEW mine \in Rows \cup {None}, NEW theirs \in Rows \cup {None}
  PROVE  Resolve(mine, theirs) \in {mine, theirs}
BY DEF Resolve

LEMMA PatchType ==
  ASSUME TypeOK, NEW d \in Devices, NEW e \in Envs, NEW row \in Rows \cup {None}, Patch(d, e, row)
  PROVE  /\ index' \in [Devices -> Envs \cup {None}]
         /\ shown' \in [Devices -> Payloads \cup {None}]
<1>1. Remembered(d, e, row) \in Envs \cup {None}
  BY DEF TypeOK, Remembered
<1>2. Patched(d, e, row) \in Payloads \cup {None}
  BY RowFields, NoRow DEF TypeOK, Patched
<1> QED BY <1>1, <1>2 DEF Patch, TypeOK

\* A hydrate that is over shows what it read of its winner.
LEMMA ReplaceType ==
  ASSUME TypeOK, NEW d \in Devices, hyd[d] # None, NEW e \in Envs \cup {None}, Replace(d, e)
  PROVE  /\ open' \in [Devices -> BOOLEAN] /\ hyd' \in [Devices -> Hydrates \cup {None}]
         /\ index' \in [Devices -> Envs \cup {None}]
         /\ shown' \in [Devices -> Payloads \cup {None}]
         /\ hyd'[d] = None /\ \A c \in Devices : c # d => hyd'[c] = hyd[c]
<1>1. (IF e = None THEN None ELSE hyd[d].seen[e]) \in Payloads \cup {None}
  BY Typed
<1> QED BY <1>1 DEF Replace, TypeOK

LEMMA InitType == Init => TypeOK
<1> SUFFICES ASSUME Init PROVE TypeOK
  OBVIOUS
<1>1. [e \in Envs |-> None] \in Replica
  BY DEF Replica
<1>2. queue \in [Devices -> Seq(Payloads)]
  BY EmptySeq DEF Init
<1>3. spent \in [logouts : 0..MaxLogouts, idle : 0..MaxIdle]
  BY Bounds DEF Init
<1>4. last \in [Devices -> 0..MaxAt]
  BY Bounds DEF Init
<1> QED BY <1>1, <1>2, <1>3, <1>4 DEF Init, TypeOK

LEMMA UpdateTypes == ASSUME TypeOK, NEW d \in Devices, Update(d) PROVE TypeOK'
<1>1. PICK at \in Stamps(d) :
        /\ last' = [last EXCEPT ![d] = at]
        /\ shown' = [shown EXCEPT ![d] = [at |-> at, by |-> d]]
        /\ queue' = [queue EXCEPT ![d] = Append(@, [at |-> at, by |-> d])]
  BY DEF Update
<1>2. at \in 1..MaxAt /\ at \in 0..MaxAt /\ [at |-> at, by |-> d] \in Payloads
  BY Stamped, Bounds DEF Stamps
<1>3. queue' \in [Devices -> Seq(Payloads)]
  BY <1>1, <1>2, AppendProperties DEF TypeOK
<1>4. last' \in [Devices -> 0..MaxAt] /\ shown' \in [Devices -> Payloads \cup {None}]
  BY <1>1, <1>2 DEF TypeOK
<1> QED BY <1>3, <1>4 DEF Update, TypeOK

LEMMA TargetType ==
  ASSUME TypeOK, NEW d \in Devices, NEW doc \in Payloads
  PROVE  Target(d, doc) \in Envs
BY DEF Target, TypeOK, Envs

LEMMA NewerType ==
  ASSUME TypeOK, NEW doc \in Payloads
  PROVE  Newer(doc) \in Payloads
BY DEF Newer, TypeOK

LEMMA PersistTypes == ASSUME TypeOK, NEW d \in Devices, Persist(d) PROVE TypeOK'
<1> DEFINE doc == Head(queue[d])
           e   == Target(d, doc)
<1>1. doc \in Payloads /\ Tail(queue[d]) \in Seq(Payloads)
  BY Typed, HeadTailProperties DEF Persist
<1>2. e \in Envs /\ Alive(doc) \in Rows /\ Newer(doc) \in Payloads
  BY <1>1, TargetType, AliveFields, NewerType
<1>3. /\ rows' = [rows EXCEPT ![d][e] = Alive(doc)] /\ index' = [index EXCEPT ![d] = e]
      /\ newest' = Newer(doc) /\ queue' = [queue EXCEPT ![d] = Tail(@)]
      /\ UNCHANGED <<master, base, shown, hyd, open, last, spent>>
  BY DEF Persist
<1> HIDE DEF doc, e
<1>4. rows' \in [Devices -> Replica]
  BY <1>2, <1>3 DEF TypeOK, Replica
<1>5. queue' \in [Devices -> Seq(Payloads)] /\ index' \in [Devices -> Envs \cup {None}]
  BY <1>1, <1>2, <1>3 DEF TypeOK
<1> QED BY <1>2, <1>3, <1>4, <1>5 DEF TypeOK

LEMMA HydrateTypes == ASSUME TypeOK, NEW d \in Devices, Hydrate(d) PROVE TypeOK'
<1>1. Reading(rows[d]) \in Hydrates /\ Picked(Reading(rows[d]))
  BY Typed, ReadingType
<1>2. spent' \in [logouts : 0..MaxLogouts, idle : 0..MaxIdle]
  BY Bounds DEF Hydrate, TypeOK
<1>3. hyd' \in [Devices -> Hydrates \cup {None}]
  BY <1>1 DEF Hydrate, TypeOK
<1> QED BY <1>1, <1>2, <1>3 DEF Hydrate, TypeOK

LEMMA WeighTypes == ASSUME TypeOK, NEW d \in Devices, Weigh(d) PROVE TypeOK'
<1>1. hyd[d] # None /\ hyd[d] \in Hydrates
  BY Typed DEF Weigh
<1>2. UNCHANGED <<master, rows, base, queue, last, spent, newest>>
  BY DEF Weigh
<1>3. ASSUME NEW e \in Envs \cup {None}, Replace(d, e) PROVE TypeOK'
  BY <1>1, <1>2, <1>3, ReplaceType DEF TypeOK
<1>4. CASE Seen(d) = {}
  BY <1>3, <1>4 DEF Weigh
<1>5. CASE Seen(d) # {}
  <2>1. Winner(d) \in Seen(d) /\ Winner(d) \in Envs /\ hyd[d].seen[Winner(d)] # None
    BY <1>1, <1>5, WinnerRead DEF Seen
  <2>2. CASE Replace(d, Winner(d))
    BY <1>3, <2>1, <2>2
  <2>3. CASE /\ hyd' = [hyd EXCEPT ![d].at = "remove", ![d].winner = Winner(d),
                                   ![d].left = Seen(d) \ {Winner(d)}]
             /\ index' = [index EXCEPT ![d] = None]
             /\ UNCHANGED <<shown, open>>
    <3> DEFINE w    == Winner(d)
               left == Seen(d) \ {w}
               p    == [hyd[d] EXCEPT !.at = "remove", !.winner = w, !.left = left]
    <3>1. hyd' = [hyd EXCEPT ![d] = p]
      BY <2>3
    <3>2. /\ w \in Envs /\ hyd[d].seen[w] # None
          /\ left \in SUBSET Envs /\ \A e \in left : hyd[d].seen[e] # None
      BY <2>1 DEF Seen
    <3> HIDE DEF w, left
    <3>3. p \in Hydrates /\ p.seen = hyd[d].seen /\ p.winner = w /\ p.left = left
      BY <1>1, <3>2 DEF Hydrates, Steps
    <3> HIDE DEF p
    <3>4. hyd' \in [Devices -> Hydrates \cup {None}] /\ hyd'[d] = p
          /\ \A c \in Devices : c # d => hyd'[c] = hyd[c]
      BY <3>1, <3>3 DEF TypeOK
    <3>5. Picked(p)
      BY <3>2, <3>3, Bounds DEF Envs, Picked
    <3>6. index' \in [Devices -> Envs \cup {None}]
      BY <2>3 DEF TypeOK
    <3> QED BY <1>2, <2>3, <3>4, <3>5, <3>6 DEF TypeOK
  <2> QED BY <1>5, <2>2, <2>3 DEF Weigh
<1> QED BY <1>4, <1>5

\* A hydrate with one loser less.
LEMMA LeftType ==
  ASSUME NEW h \in Hydrates, NEW e
  PROVE  LET p == [h EXCEPT !.left = @ \ {e}] IN
         /\ p \in Hydrates /\ p.seen = h.seen /\ p.at = h.at /\ p.winner = h.winner
         /\ p.left = h.left \ {e}
BY DEF Hydrates

LEMMA RemoveLoserTypes ==
  ASSUME TypeOK, NEW d \in Devices, NEW e \in Envs, RemoveLoser(d, e)
  PROVE  TypeOK'
<1> DEFINE p == [hyd[d] EXCEPT !.left = @ \ {e}]
<1>1. hyd[d] # None /\ hyd[d] \in Hydrates
  BY Typed DEF RemoveLoser, Removing
<1>2. /\ p \in Hydrates /\ p.seen = hyd[d].seen /\ p.at = hyd[d].at /\ p.winner = hyd[d].winner
      /\ p.left = hyd[d].left \ {e}
  BY <1>1, LeftType
<1>3. hyd' = [hyd EXCEPT ![d] = p]
  BY DEF RemoveLoser
<1> HIDE DEF p
<1>4. hyd' \in [Devices -> Hydrates \cup {None}]
      /\ \A c \in Devices : hyd'[c] = IF c = d THEN p ELSE hyd[c]
  BY <1>2, <1>3 DEF TypeOK
<1>5. rows' \in [Devices -> Replica]
  <2>1. CASE RowChanged(d, e)
    BY <2>1 DEF RemoveLoser, TypeOK
  <2>2. CASE ~RowChanged(d, e)
    <3>1. rows[d][e] \in Rows
      <4>1. hyd[d].seen[e] \in Payloads
        BY <1>1, Typed DEF RemoveLoser, Removing, TypeOK, Picked
      <4> QED BY <2>2, <4>1, AliveFields DEF RowChanged
    <3>2. Dead(rows[d][e]) \in Rows
      BY <3>1, RowFields
    <3>3. rows' = [rows EXCEPT ![d] = [rows[d] EXCEPT ![e] = Dead(rows[d][e])]]
      BY <2>2 DEF RemoveLoser
    <3> QED BY <3>2, <3>3 DEF TypeOK, Replica
  <2> QED BY <2>1, <2>2
<1>6. Picked(hyd[d]) => Picked(p)
  BY <1>2 DEF Picked
<1> QED BY <1>1, <1>2, <1>4, <1>5, <1>6 DEF RemoveLoser, TypeOK

LEMMA HydratedTypes == ASSUME TypeOK, NEW d \in Devices, Hydrated(d) PROVE TypeOK'
<1>1. hyd[d] # None /\ hyd[d].winner \in Envs \cup {None} /\ Replace(d, hyd[d].winner)
  BY Typed DEF Hydrated, Removing, Hydrates
<1> QED BY <1>1, ReplaceType DEF Hydrated, TypeOK

LEMMA LogoutTypes == ASSUME TypeOK, NEW d \in Devices, Logout(d) PROVE TypeOK'
<1>1. spent \in [logouts : 0..MaxLogouts, idle : 0..MaxIdle] /\ spent.logouts < MaxLogouts
      /\ spent' = [spent EXCEPT !.logouts = spent.logouts + 1]
  BY DEF Logout, TypeOK
<1>2. spent.logouts + 1 \in 0..MaxLogouts
  BY <1>1, Bounds
<1>3. spent' \in [logouts : 0..MaxLogouts, idle : 0..MaxIdle]
  BY <1>1, <1>2
<1> QED BY <1>3 DEF Logout, TypeOK

LEMMA LoginTypes == ASSUME TypeOK, NEW d \in Devices, Login(d) PROVE TypeOK'
<1>1. Reading(rows[d]) \in Hydrates /\ Picked(Reading(rows[d]))
  BY Typed, ReadingType
<1>2. hyd' \in [Devices -> Hydrates \cup {None}]
  BY <1>1 DEF Login, TypeOK
<1> QED BY <1>1, <1>2 DEF Login, TypeOK

LEMMA AdoptedType ==
  ASSUME TypeOK, NEW d \in Devices, NEW doc \in Payloads, NEW e \in Envs \cup {None}
  PROVE  Adopted(d, doc, e) \in Replica
BY Typed, AliveFields DEF Adopted, Replica, Envs

LEMMA LoginAdoptingTypes == ASSUME TypeOK, NEW d \in Devices, LoginAdopting(d) PROVE TypeOK'
<1>1. PICK at \in 1..MaxAt, e \in Envs \cup {None} :
        LET doc     == [at |-> at, by |-> d]
            replica == Adopted(d, doc, e) IN
        /\ last' = [last EXCEPT ![d] = at]
        /\ rows' = [rows EXCEPT ![d] = replica]
        /\ hyd' = [hyd EXCEPT ![d] = Reading(replica)]
        /\ newest' = IF replica = rows[d] THEN newest ELSE Newer(doc)
  BY DEF LoginAdopting
<1> DEFINE doc     == [at |-> at, by |-> d]
           replica == Adopted(d, doc, e)
<1>2. doc \in Payloads /\ replica \in Replica
  BY Stamped, AdoptedType
<1>3. Reading(replica) \in Hydrates /\ Picked(Reading(replica)) /\ Newer(doc) \in Payloads
  BY <1>2, ReadingType, NewerType
<1> HIDE DEF doc, replica
<1>4. /\ last' = [last EXCEPT ![d] = at]
      /\ rows' = [rows EXCEPT ![d] = replica]
      /\ hyd' = [hyd EXCEPT ![d] = Reading(replica)]
      /\ newest' \in {newest, Newer(doc)}
  BY <1>1 DEF doc, replica
<1>5. /\ last' \in [Devices -> 0..MaxAt] /\ rows' \in [Devices -> Replica]
      /\ hyd' \in [Devices -> Hydrates \cup {None}] /\ newest' \in Payloads \cup {None}
      /\ Picked(hyd'[d]) /\ \A c \in Devices : c # d => hyd'[c] = hyd[c]
  BY <1>2, <1>3, <1>4, Bounds DEF TypeOK
<1> QED BY <1>5 DEF LoginAdopting, TypeOK

LEMMA PushTypes ==
  ASSUME TypeOK, NEW d \in Devices, NEW e \in Envs, Push(d, e) PROVE TypeOK'
<1>1. rows[d][e] \in Rows \cup {None} /\ master[e] \in Rows \cup {None}
  BY Typed
<1>2. master' \in Replica /\ base' \in [Devices -> Replica]
  <2>1. \/ master' = master
        \/ master' = [master EXCEPT ![e] = rows[d][e]]
    BY DEF Push
  <2>2. PICK row \in Rows \cup {None} : base' = [base EXCEPT ![d][e] = row]
    BY <1>1 DEF Push
  <2> QED BY <1>1, <2>1, <2>2 DEF TypeOK, Replica
<1>3. CASE master[e] = base[d][e]
  BY <1>2, <1>3 DEF Push, TypeOK
<1>4. CASE master[e] # base[d][e]
  <2> DEFINE row == Resolve(rows[d][e], master[e])
  <2>1. row \in Rows \cup {None}
    BY <1>1, ResolveType
  <2>2. /\ rows' = [rows EXCEPT ![d][e] = row]
        /\ (row = rows[d][e] /\ UNCHANGED <<index, shown>>) \/ Patch(d, e, row)
    BY <1>4 DEF Push
  <2> HIDE DEF row
  <2>3. rows' \in [Devices -> Replica]
    BY <2>1, <2>2 DEF TypeOK, Replica
  <2>4. index' \in [Devices -> Envs \cup {None}] /\ shown' \in [Devices -> Payloads \cup {None}]
    BY <2>1, <2>2, PatchType DEF TypeOK
  <2> QED BY <1>2, <2>3, <2>4 DEF Push, TypeOK
<1> QED BY <1>3, <1>4

LEMMA PullTypes ==
  ASSUME TypeOK, NEW d \in Devices, NEW e \in Envs, Pull(d, e) PROVE TypeOK'
<1>1. master[e] \in Rows \cup {None}
  BY Typed
<1>2. base' \in [Devices -> Replica] /\ rows' \in [Devices -> Replica]
  BY <1>1 DEF Pull, TypeOK, Replica
<1>3. index' \in [Devices -> Envs \cup {None}] /\ shown' \in [Devices -> Payloads \cup {None}]
  BY <1>1, PatchType DEF Pull
<1> QED BY <1>2, <1>3 DEF Pull, TypeOK

LEMMA TypeStep == TypeOK /\ [Next]_vars => TypeOK'
<1>1. CASE UNCHANGED vars
  BY <1>1 DEF vars, TypeOK
<1>2. ASSUME TypeOK, NEW d \in Devices, Step(d) PROVE TypeOK'
  BY <1>2, PersistTypes, WeighTypes, HydratedTypes, RemoveLoserTypes, PushTypes, PullTypes DEF Step
<1> QED BY <1>1, <1>2, UpdateTypes, HydrateTypes, LogoutTypes, LoginTypes, LoginAdoptingTypes DEF Next

\* The state of every device, its hydrates and its queue are of their types, and a hydrate that
\* removes duplicates has read the one it keeps (hydrateSingleton).
THEOREM SingletonTypeCorrect == Spec => []TypeOK
BY InitType, TypeStep, PTL DEF Spec

(***************************************************************************)
(* What an action changes of the copies                                    *)
(***************************************************************************)
\* Nothing is held that was not.
Narrows == \A e \in Envs, doc \in Payloads : Holds(e, doc)' => Holds(e, doc)

\* A row anywhere holds its document.
LEMMA CopyHolds ==
  ASSUME NEW e \in Envs, NEW row \in Rows, Copy(e, row)
  PROVE  row.doc \in Payloads /\ Holds(e, row.doc)
BY RowFields DEF Holds

LEMMA RowHeld ==
  ASSUME TypeOK, NEW d \in Devices, NEW e \in Envs
  PROVE  /\ rows[d][e] # None => /\ rows[d][e] \in Rows /\ Copy(e, rows[d][e])
                                 /\ rows[d][e].doc \in Payloads /\ Holds(e, rows[d][e].doc)
         /\ base[d][e] # None => /\ base[d][e] \in Rows /\ Copy(e, base[d][e])
                                 /\ base[d][e].doc \in Payloads /\ Holds(e, base[d][e].doc)
         /\ master[e] # None => /\ master[e] \in Rows /\ Copy(e, master[e])
                                /\ master[e].doc \in Payloads /\ Holds(e, master[e].doc)
<1>1. rows[d][e] # None => rows[d][e] \in Rows /\ Copy(e, rows[d][e])
  BY Typed DEF Copy
<1>2. base[d][e] # None => base[d][e] \in Rows /\ Copy(e, base[d][e])
  BY Typed DEF Copy
<1>3. master[e] # None => master[e] \in Rows /\ Copy(e, master[e])
  BY Typed DEF Copy
<1> QED BY <1>1, <1>2, <1>3, CopyHolds

\* A live row is held as it stands.
LEMMA LiveHeld ==
  ASSUME TypeOK, NEW d \in Devices, NEW e \in Envs, IsLive(rows[d][e])
  PROVE  /\ rows[d][e] \in Rows /\ rows[d][e].doc \in Payloads
         /\ rows[d][e] = Alive(rows[d][e].doc) /\ Holds(e, rows[d][e].doc)
BY RowHeld, LiveRow DEF IsLive

LEMMA SeenHeld ==
  ASSUME NEW d \in Devices, NEW e \in Envs, hyd[d] # None, hyd[d].seen[e] # None
  PROVE  Holds(e, hyd[d].seen[e])
BY DEF Holds

LEMMA NarrowsFrom ==
  ASSUME \A e \in Envs, row \in Rows :
           Copy(e, row)' => \E old \in Rows : Copy(e, old) /\ old.doc = row.doc,
         \A d \in Devices, e \in Envs, doc \in Payloads :
           hyd'[d] # None /\ hyd'[d].seen[e] = doc => Holds(e, doc)
  PROVE  Narrows
BY DEF Narrows, Holds

\* Frames of the parts of the invariant.
LEMMA LastStands ==
  ASSUME TypeOK, last' = last
  PROVE  \A d \in Devices : last[d] <= last'[d]
BY Bounds DEF TypeOK

LEMMA HeldFrame ==
  ASSUME TypeOK, TypeOK', HeldInv, Narrows, newest' = newest,
         \A d \in Devices : last[d] <= last'[d],
         \A e \in Envs, row \in Rows : Copy(e, row)' /\ row.gone => Copy(e, row) \/ row.doc # newest
  PROVE  HeldInv'
<1>1. ASSUME NEW e \in Envs, NEW doc \in Payloads, Holds(e, doc)'
      PROVE  /\ doc.at <= last'[doc.by] /\ e.at <= last'[e.by]
             /\ newest # None /\ ~Wins(doc, newest)
             /\ \A f \in Envs : Holds(f, doc)' => f = e
  <2>1. Holds(e, doc) /\ \A f \in Envs : Holds(f, doc)' => Holds(f, doc)
    BY <1>1 DEF Narrows
  <2>2. doc.at <= last[doc.by] /\ e.at <= last[e.by] /\ newest # None /\ ~Wins(doc, newest)
    BY <2>1 DEF HeldInv
  <2>3. \A f \in Envs : Holds(f, doc)' => f = e
    BY <2>1 DEF HeldInv
  <2>4. doc.by \in Devices /\ e.by \in Devices /\ doc.at \in Nat /\ e.at \in Nat
    BY PayloadFields DEF Envs
  <2>5. \A d \in Devices : last[d] \in Nat /\ last'[d] \in Nat
    BY Bounds DEF TypeOK
  <2> QED BY <2>2, <2>3, <2>4, <2>5
<1>2. ASSUME NEW e \in Envs, NEW row \in Rows, Copy(e, row)', row.gone PROVE row.doc # newest
  BY <1>2 DEF HeldInv
<1> QED BY <1>1, <1>2 DEF HeldInv

\* What stands in the queues.
LEMMA Queued ==
  ASSUME TypeOK, NEW d \in Devices, NEW i \in 1..Len(queue[d])
  PROVE  /\ queue[d] \in Seq(Payloads) /\ queue[d] # <<>> /\ Len(queue[d]) \in Nat
         /\ queue[d][i] \in Payloads /\ queue[d][i] \in Envs
BY Typed, ElementOfSeq, EmptySeq, LenProperties DEF Envs

LEMMA QueueFrame ==
  ASSUME TypeOK, TypeOK', QueueInv, Narrows, queue' = queue,
         \A d \in Devices : last[d] <= last'[d],
         \A d \in Devices : queue[d] # <<>> =>
           /\ open[d] => open'[d]
           /\ \A e \in Envs : IsLive(rows'[d][e]) => rows'[d][e] = rows[d][e]
  PROVE  QueueInv'
<1>1. ASSUME NEW d \in Devices, NEW i \in 1..Len(queue[d]) PROVE Waits(d, queue[d][i])'
  <2>1. PICK q \in Payloads : q = queue[d][i]
    BY Queued
  <2>2. Waits(d, q) /\ q \in Envs /\ queue[d] # <<>>
    BY <2>1, Queued DEF QueueInv
  <2>3. Waits(d, q)'
    <3>1. q.at <= last'[d]
      BY <2>2, PayloadFields, Bounds DEF Waits, TypeOK
    <3> QED BY <2>2, <3>1 DEF Waits, Narrows, Live
  <2> QED BY <2>1, <2>3 DEF Waits
<1> QED BY <1>1 DEF QueueInv

\* No hydrate sees what it did not, or what is not held.
LEMMA LoserFrame ==
  ASSUME LoserInv,
         \A d \in Devices : hyd'[d] # None /\ hyd'[d].at = "remove" =>
           /\ hyd[d] # None /\ hyd[d].at = "remove" /\ hyd'[d].left \subseteq hyd[d].left
           /\ hyd'[d].seen = hyd[d].seen /\ hyd'[d].winner = hyd[d].winner
  PROVE  LoserInv'
BY DEF LoserInv

\* An action of the hydrates and sessions alone.
LEMMA RowsStand ==
  ASSUME TypeOK, TypeOK', SingletonInv, UNCHANGED <<master, rows, base, queue, newest>>, LoserInv',
         \A d \in Devices : last[d] <= last'[d],
         \A d \in Devices : queue[d] # <<>> /\ open[d] => open'[d],
         \A d \in Devices, e \in Envs, doc \in Payloads :
           hyd'[d] # None /\ hyd'[d].seen[e] = doc => Holds(e, doc)
  PROVE  SingletonInv' /\ (NewestStands => NewestStands')
<1>1. Narrows
  BY NarrowsFrom DEF Copy
<1>2. HeldInv'
  BY <1>1, HeldFrame, Bounds DEF SingletonInv, Copy, TypeOK
<1>3. QueueInv'
  BY <1>1, QueueFrame, LastStands DEF SingletonInv
<1>4. LaterInv'
  BY DEF SingletonInv, LaterInv
<1>5. NewestStands => NewestStands'
  BY DEF NewestStands
<1> QED BY <1>2, <1>3, <1>4, <1>5 DEF SingletonInv

(***************************************************************************)
(* The actions                                                             *)
(***************************************************************************)
LEMMA InitHolds == Init => SingletonInv /\ NewestStands
<1> SUFFICES ASSUME Init PROVE SingletonInv /\ NewestStands
  OBVIOUS
<1>1. \A e \in Envs, row \in Rows : ~Copy(e, row)
  BY Bounds DEF Init, Copy
<1>2. \A e \in Envs, doc \in Payloads : ~Holds(e, doc)
  BY <1>1 DEF Init, Holds
<1>3. HeldInv
  BY <1>1, <1>2 DEF HeldInv
<1>4. QueueInv
  BY DEF Init, QueueInv
<1>5. LaterInv /\ LoserInv
  BY NoRow DEF Init, LaterInv, LoserInv
<1> QED BY <1>3, <1>4, <1>5 DEF SingletonInv, Init, NewestStands

\* A hydrate reads live rows.
LEMMA ReadingHeld ==
  ASSUME TypeOK, NEW d \in Devices, NEW e \in Envs, NEW doc \in Payloads,
         Reading(rows[d]).seen[e] = doc
  PROVE  Holds(e, doc)
<1>1. Reading(rows[d]).seen[e] = IF IsLive(rows[d][e]) THEN rows[d][e].doc ELSE None
  BY Typed, ReadingType
<1>2. IsLive(rows[d][e]) /\ doc = rows[d][e].doc
  BY <1>1, Bounds
<1> QED BY <1>2, LiveHeld

\* What a hydrate that changes nothing of what it has seen sees is held.
LEMMA StartsReading ==
  ASSUME TypeOK, NEW d \in Devices, hyd' = [hyd EXCEPT ![d] = Reading(rows[d])]
  PROVE  /\ \A c \in Devices, e \in Envs, doc \in Payloads :
              hyd'[c] # None /\ hyd'[c].seen[e] = doc => Holds(e, doc)
         /\ LoserInv => LoserInv'
<1>1. Reading(rows[d]).at = "decrypt"
  BY Typed, ReadingType
<1>2. hyd'[d] = Reading(rows[d]) /\ \A c \in Devices : c # d => hyd'[c] = hyd[c]
  BY DEF TypeOK
<1>3. LoserInv => LoserInv'
  BY <1>1, <1>2, LoserFrame
<1>4. ASSUME NEW c \in Devices, NEW e \in Envs, NEW doc \in Payloads,
             hyd'[c] # None, hyd'[c].seen[e] = doc
      PROVE  Holds(e, doc)
  <2>1. CASE c = d
    BY <2>1, <1>2, <1>4, ReadingHeld
  <2>2. CASE c # d
    BY <2>2, <1>2, <1>4 DEF Holds
  <2> QED BY <2>1, <2>2
<1> QED BY <1>3, <1>4

LEMMA HydrateKeeps ==
  ASSUME TypeOK, TypeOK', SingletonInv, NEW d \in Devices, Hydrate(d) \/ Login(d)
  PROVE  SingletonInv' /\ (NewestStands => NewestStands')
<1>1. hyd' = [hyd EXCEPT ![d] = Reading(rows[d])] /\ UNCHANGED open
      /\ UNCHANGED <<master, rows, base, queue, last, newest>>
  BY DEF Hydrate, Login
<1> QED BY <1>1, StartsReading, RowsStand, LastStands DEF SingletonInv

\* A hydrate is over.
LEMMA ReplaceKeeps ==
  ASSUME TypeOK, TypeOK', SingletonInv, NEW d \in Devices, hyd[d] # None,
         NEW e \in Envs \cup {None}, Replace(d, e),
         UNCHANGED <<master, rows, base, queue, last, newest>>
  PROVE  SingletonInv' /\ (NewestStands => NewestStands')
<1>1. hyd'[d] = None /\ \A c \in Devices : c # d => hyd'[c] = hyd[c]
  BY ReplaceType
<1>2. \A c \in Devices : open[c] => open'[c]
  BY DEF Replace, TypeOK
<1>3. LoserInv'
  BY <1>1, LoserFrame DEF SingletonInv
<1>4. \A c \in Devices, f \in Envs, doc \in Payloads :
        hyd'[c] # None /\ hyd'[c].seen[f] = doc => Holds(f, doc)
  BY <1>1 DEF Holds
<1> QED BY <1>2, <1>3, <1>4, RowsStand, LastStands

\* The losers were read older than the winner: no two rows hold one document.
LEMMA LosersLose ==
  ASSUME TypeOK, HeldInv, NEW d \in Devices, hyd[d] # None, NEW e \in Seen(d), e # Winner(d)
  PROVE  Wins(hyd[d].seen[Winner(d)], hyd[d].seen[e])
<1> DEFINE w == Winner(d)
<1>1. w \in Seen(d) /\ ~Wins(hyd[d].seen[e], hyd[d].seen[w])
  BY WinnerRead
<1> HIDE DEF w
<1>2. /\ w \in Envs /\ e \in Envs
      /\ hyd[d].seen[w] \in Payloads /\ hyd[d].seen[e] \in Payloads
      /\ Holds(w, hyd[d].seen[w]) /\ Holds(e, hyd[d].seen[e])
  BY <1>1, Typed, SeenHeld DEF Seen
<1>3. hyd[d].seen[w] # hyd[d].seen[e]
  BY <1>2 DEF HeldInv, w
<1> QED BY <1>1, <1>2, <1>3, WinsOrders DEF w

LEMMA WeighKeeps ==
  ASSUME TypeOK, TypeOK', SingletonInv, NEW d \in Devices, Weigh(d)
  PROVE  SingletonInv' /\ (NewestStands => NewestStands')
<1>1. hyd[d] # None /\ hyd[d] \in Hydrates /\ UNCHANGED <<master, rows, base, queue, last, newest>>
  BY Typed DEF Weigh
<1>2. CASE Replace(d, None)
  BY <1>1, <1>2, ReplaceKeeps
<1>3. CASE Seen(d) # {} /\ Replace(d, Winner(d))
  BY <1>1, <1>3, WinnerRead, ReplaceKeeps DEF Seen
<1>4. CASE /\ Seen(d) # {}
           /\ hyd' = [hyd EXCEPT ![d].at = "remove", ![d].winner = Winner(d),
                                 ![d].left = Seen(d) \ {Winner(d)}]
           /\ UNCHANGED open
  <2> DEFINE w    == Winner(d)
             left == Seen(d) \ {w}
             p    == [hyd[d] EXCEPT !.at = "remove", !.winner = w, !.left = left]
  <2>1. hyd' = [hyd EXCEPT ![d] = p]
    BY <1>4
  <2>2. \A e \in left : Wins(hyd[d].seen[w], hyd[d].seen[e])
    BY <1>1, LosersLose DEF SingletonInv
  <2> HIDE DEF w, left
  <2>3. p.seen = hyd[d].seen /\ p.winner = w /\ p.left = left
    BY <1>1 DEF Hydrates
  <2> HIDE DEF p
  <2>4. hyd'[d] = p /\ \A c \in Devices : c # d => hyd'[c] = hyd[c]
    BY <2>1 DEF TypeOK
  <2>5. LoserInv'
    BY <2>2, <2>3, <2>4 DEF SingletonInv, LoserInv
  <2>6. \A c \in Devices, f \in Envs, doc \in Payloads :
          hyd'[c] # None /\ hyd'[c].seen[f] = doc => Holds(f, doc)
    BY <1>1, <2>3, <2>4 DEF Holds
  <2> QED BY <1>1, <1>4, <2>5, <2>6, RowsStand, LastStands
<1> QED BY <1>2, <1>3, <1>4 DEF Weigh

LEMMA HydratedKeeps ==
  ASSUME TypeOK, TypeOK', SingletonInv, NEW d \in Devices, Hydrated(d)
  PROVE  SingletonInv' /\ (NewestStands => NewestStands')
<1>1. /\ hyd[d] # None /\ hyd[d].winner \in Envs \cup {None} /\ Replace(d, hyd[d].winner)
      /\ UNCHANGED <<master, rows, base, queue, last, newest>>
  BY Typed DEF Hydrated, Removing, Hydrates
<1> QED BY <1>1, ReplaceKeeps

LEMMA LogoutKeeps ==
  ASSUME TypeOK, TypeOK', SingletonInv, NEW d \in Devices, Logout(d)
  PROVE  SingletonInv' /\ (NewestStands => NewestStands')
<1>1. /\ UNCHANGED <<master, rows, base, queue, last, newest>> /\ UNCHANGED hyd
      /\ queue[d] = <<>> /\ open' = [open EXCEPT ![d] = FALSE]
  BY DEF Logout
<1>2. \A c \in Devices : queue[c] # <<>> /\ open[c] => open'[c]
  BY <1>1 DEF TypeOK
<1>3. LoserInv'
  BY <1>1, LoserFrame DEF SingletonInv
<1>4. \A c \in Devices, e \in Envs, doc \in Payloads :
        hyd'[c] # None /\ hyd'[c].seen[e] = doc => Holds(e, doc)
  BY <1>1 DEF Holds
<1> QED BY <1>1, <1>2, <1>3, <1>4, RowsStand, LastStands

\* An action that leaves the hydrates what they saw, and makes no copy but of a copy's document.
LEMMA SeesOn ==
  ASSUME TypeOK,
         \A d \in Devices : hyd'[d] # None => hyd[d] # None /\ hyd'[d].seen = hyd[d].seen,
         \A e \in Envs, row \in Rows :
           Copy(e, row)' => \E old \in Rows : Copy(e, old) /\ old.doc = row.doc
  PROVE  Narrows
<1>1. \A d \in Devices, e \in Envs, doc \in Payloads :
        hyd'[d] # None /\ hyd'[d].seen[e] = doc => Holds(e, doc)
  BY DEF Holds
<1> QED BY <1>1, NarrowsFrom

\* A loser's tombstone is not the newest's.
LEMMA RemoveLoserKeeps ==
  ASSUME TypeOK, TypeOK', SingletonInv, NEW d \in Devices, NEW e \in Envs, RemoveLoser(d, e)
  PROVE  SingletonInv' /\ (NewestStands => NewestStands')
<1> DEFINE p    == [hyd[d] EXCEPT !.left = @ \ {e}]
           seen == hyd[d].seen[e]
           w    == hyd[d].winner
<1>1. /\ hyd[d] # None /\ hyd[d].at = "remove" /\ hyd[d] \in Hydrates /\ e \in hyd[d].left
      /\ UNCHANGED <<master, base, queue, open, last, newest>>
  BY Typed DEF RemoveLoser, Removing
<1>2. p.seen = hyd[d].seen /\ p.at = hyd[d].at /\ p.winner = hyd[d].winner
      /\ p.left = hyd[d].left \ {e}
  BY <1>1, LeftType
<1>3. hyd' = [hyd EXCEPT ![d] = p]
  BY DEF RemoveLoser
<1> HIDE DEF p
<1>4. \A c \in Devices : hyd'[c] = IF c = d THEN p ELSE hyd[c]
  BY <1>3 DEF TypeOK
<1>5. LoserInv'
  BY <1>1, <1>2, <1>4, LoserFrame DEF SingletonInv
<1>6. /\ seen \in Payloads /\ w \in Envs /\ hyd[d].seen[w] \in Payloads
      /\ Holds(w, hyd[d].seen[w]) /\ Wins(hyd[d].seen[w], seen)
  <2>1. seen # None /\ w # None /\ hyd[d].seen[w] # None
    BY <1>1 DEF TypeOK, Picked
  <2>2. w \in Envs
    BY <1>1, <2>1 DEF Hydrates
  <2> QED BY <1>1, <2>1, <2>2, Typed, SeenHeld DEF SingletonInv, LoserInv
<1>7. seen # newest
  BY <1>6, WinsOrders DEF SingletonInv, HeldInv
<1> HIDE DEF seen, w
<1>8. \A c \in Devices, f \in Envs :
        \/ rows'[c][f] = rows[c][f]
        \/ /\ c = d /\ f = e /\ rows[c][f] = Alive(seen) /\ rows'[c][f] = Dead(Alive(seen))
  BY DEF RemoveLoser, RowChanged, seen, TypeOK, Replica
<1>9. /\ Alive(seen) \in Rows /\ Alive(seen).doc = seen /\ ~Alive(seen).gone /\ Alive(seen) # None
      /\ Dead(Alive(seen)) \in Rows /\ Dead(Alive(seen)).doc = seen /\ Dead(Alive(seen)).gone
      /\ ~IsLive(Dead(Alive(seen))) /\ Dead(Alive(seen)) # None
  BY <1>6, AliveFields, RowFields
<1>10. ASSUME NEW f \in Envs, NEW row \in Rows, Copy(f, row)'
       PROVE  Copy(f, row) \/ (row.doc = seen /\ Copy(f, Alive(seen)))
  <2>1. CASE master[f] = row \/ \E c \in Devices : rows[c][f] = row \/ base[c][f] = row
    BY <1>10, <2>1 DEF Copy
  <2>2. CASE \E c \in Devices : rows'[c][f] = row /\ rows[c][f] # row
    <3>1. row = Dead(Alive(seen)) /\ rows[d][f] = Alive(seen)
      <4>1. PICK c \in Devices : rows'[c][f] = row /\ rows[c][f] # row
        BY <2>2
      <4> QED BY <1>8, <4>1
    <3> QED BY <1>9, <3>1 DEF Copy
  <2>3. row # None /\ (master[f] = row \/ \E c \in Devices : rows'[c][f] = row \/ base[c][f] = row)
    BY <1>1, <1>10 DEF Copy
  <2> QED BY <2>1, <2>2, <2>3
<1>11. Narrows
  <2>1. \A c \in Devices : hyd'[c] # None => hyd[c] # None /\ hyd'[c].seen = hyd[c].seen
    BY <1>1, <1>2, <1>4
  <2>2. \A f \in Envs, row \in Rows :
          Copy(f, row)' => \E old \in Rows : Copy(f, old) /\ old.doc = row.doc
    BY <1>9, <1>10
  <2> QED BY <2>1, <2>2, SeesOn
<1>12. HeldInv'
  <2>1. \A c \in Devices : last[c] <= last'[c]
    BY <1>1, Bounds DEF TypeOK
  <2>2. \A f \in Envs, row \in Rows : Copy(f, row)' /\ row.gone => Copy(f, row) \/ row.doc # newest
    BY <1>7, <1>10
  <2> QED BY <1>1, <1>11, <2>1, <2>2, HeldFrame DEF SingletonInv
<1>13. QueueInv'
  <2>1. \A c \in Devices, f \in Envs : IsLive(rows'[c][f]) => rows'[c][f] = rows[c][f]
    BY <1>8, <1>9
  <2> QED BY <1>1, <1>11, <2>1, QueueFrame, LastStands DEF SingletonInv
<1>14. LaterInv'
  <2> SUFFICES ASSUME NEW c \in Devices, NEW f \in Envs,
                      IsLive(base[c][f]), rows'[c][f] # base[c][f]
               PROVE  /\ rows'[c][f] # None
                      /\ \/ Wins(rows'[c][f].doc, base[c][f].doc)
                         \/ rows'[c][f].gone /\ rows'[c][f].doc = base[c][f].doc
    BY <1>1 DEF LaterInv
  <2>1. CASE rows'[c][f] = rows[c][f]
    BY <2>1 DEF SingletonInv, LaterInv
  <2>2. CASE rows[c][f] = Alive(seen) /\ rows'[c][f] = Dead(Alive(seen))
    BY <1>9, <2>2 DEF SingletonInv, LaterInv
  <2> QED BY <1>8, <2>1, <2>2
<1>15. ASSUME NewestStands PROVE NewestStands'
  <2>1. newest # None => newest \in Payloads
    BY DEF TypeOK
  <2>2. \A c \in Devices, f \in Envs :
          newest # None /\ rows[c][f] = Alive(newest) => rows'[c][f] = rows[c][f]
    BY <1>6, <1>7, <1>8, <2>1, AliveIsOne
  <2>3. CASE newest = None
    BY <1>1, <2>3 DEF NewestStands
  <2>4. CASE newest # None
    <3>1. PICK f \in Envs : \/ master[f] = Alive(newest)
                            \/ \E c \in Devices : rows[c][f] = Alive(newest) /\ base[c][f] # rows[c][f]
      BY <1>15, <2>4 DEF NewestStands
    <3> QED BY <1>1, <2>2, <2>4, <3>1 DEF NewestStands
  <2> QED BY <2>3, <2>4
<1> QED BY <1>5, <1>12, <1>13, <1>14, <1>15 DEF SingletonInv

\* Replication copies rows.
LEMMA CopiesKeep ==
  ASSUME TypeOK, TypeOK', SingletonInv, UNCHANGED <<queue, hyd, open, last, newest>>,
         \A e \in Envs, row \in Rows : Copy(e, row)' => Copy(e, row),
         \A d \in Devices : queue[d] # <<>> => \A e \in Envs : rows'[d][e] = rows[d][e]
  PROVE  HeldInv' /\ QueueInv' /\ LoserInv'
<1>1. Narrows
  BY SeesOn
<1>2. HeldInv'
  <2>1. \A d \in Devices : last[d] <= last'[d]
    BY Bounds DEF TypeOK
  <2> QED BY <1>1, <2>1, HeldFrame DEF SingletonInv
<1>3. QueueInv'
  BY <1>1, QueueFrame, LastStands DEF SingletonInv
<1>4. LoserInv'
  BY LoserFrame DEF SingletonInv
<1> QED BY <1>2, <1>3, <1>4

\* A conflict keeps the later of two live documents.
LEMMA Resolved ==
  ASSUME NEW mine \in Rows \cup {None}, NEW theirs \in Rows \cup {None}
  PROVE  LET row == Resolve(mine, theirs) IN
         /\ row \in {mine, theirs}
         /\ IsLive(theirs) /\ row # theirs => IsLive(mine) /\ Wins(mine.doc, theirs.doc)
         /\ IsLive(mine) /\ row # mine => IsLive(theirs) /\ ~Wins(mine.doc, theirs.doc)
BY RowFields, NoRow DEF Resolve, IsLive

LEMMA PullKeeps ==
  ASSUME TypeOK, TypeOK', SingletonInv, ~PullsOverUpdates,
         NEW d \in Devices, NEW e \in Envs, Pull(d, e)
  PROVE  SingletonInv' /\ (NewestStands => NewestStands')
<1>1. /\ UNCHANGED <<master, queue, hyd, open, last, newest>> /\ queue[d] = <<>>
      /\ rows[d][e] = base[d][e]
  BY DEF Pull, Lands
<1>2. \A c \in Devices, f \in Envs :
        IF c = d /\ f = e THEN rows'[c][f] = master[e] /\ base'[c][f] = master[e]
        ELSE rows'[c][f] = rows[c][f] /\ base'[c][f] = base[c][f]
  BY DEF Pull, TypeOK, Replica
<1>3. \A f \in Envs, row \in Rows : Copy(f, row)' => Copy(f, row)
  BY <1>1, <1>2 DEF Copy
<1>4. HeldInv' /\ QueueInv' /\ LoserInv'
  BY <1>1, <1>2, <1>3, CopiesKeep
<1>5. LaterInv'
  BY <1>2 DEF SingletonInv, LaterInv
<1>6. ASSUME NewestStands PROVE NewestStands'
  <2>1. CASE newest = None
    BY <1>1, <2>1 DEF NewestStands
  <2>2. CASE newest # None
    <3>1. PICK f \in Envs : \/ master[f] = Alive(newest)
                            \/ \E c \in Devices : rows[c][f] = Alive(newest) /\ base[c][f] # rows[c][f]
      BY <1>6, <2>2 DEF NewestStands
    <3>2. \A c \in Devices : base[c][f] # rows[c][f] =>
            rows'[c][f] = rows[c][f] /\ base'[c][f] = base[c][f]
      BY <1>1, <1>2
    <3> QED BY <1>1, <3>1, <3>2 DEF NewestStands
  <2> QED BY <2>1, <2>2
<1> QED BY <1>4, <1>5, <1>6 DEF SingletonInv

\* A push writes over a state its row is later than, or settles the conflict.
LEMMA PushKeeps ==
  ASSUME TypeOK, TypeOK', SingletonInv, ~PullsOverUpdates,
         NEW d \in Devices, NEW e \in Envs, Push(d, e)
  PROVE  SingletonInv' /\ (NewestStands => NewestStands')
<1>1. UNCHANGED <<queue, hyd, open, last, newest>> /\ rows[d][e] # base[d][e]
  BY DEF Push
<1>2. newest # None => newest \in Payloads /\ Alive(newest) \in Rows /\ IsLive(Alive(newest))
                       /\ Alive(newest).doc = newest
  BY AliveFields DEF TypeOK
<1>3. CASE master[e] = base[d][e]
  <2>1. /\ master' = [master EXCEPT ![e] = rows[d][e]]
        /\ base' = [base EXCEPT ![d][e] = rows[d][e]]
        /\ UNCHANGED rows
    BY <1>3 DEF Push
  <2>2. \A c \in Devices, f \in Envs :
          /\ base'[c][f] = IF c = d /\ f = e THEN rows[d][e] ELSE base[c][f]
          /\ master'[f] = IF f = e THEN rows[d][e] ELSE master[f]
    BY <2>1 DEF TypeOK, Replica
  <2>3. \A f \in Envs, row \in Rows : Copy(f, row)' => Copy(f, row)
    BY <2>1, <2>2 DEF Copy
  <2>4. HeldInv' /\ QueueInv' /\ LoserInv'
    BY <1>1, <2>1, <2>3, CopiesKeep
  <2>5. LaterInv'
    BY <2>1, <2>2 DEF SingletonInv, LaterInv
  <2>6. ASSUME newest # None PROVE master[e] # Alive(newest)
    <3> SUFFICES ASSUME master[e] = Alive(newest) PROVE FALSE
      OBVIOUS
    <3>1. IsLive(base[d][e]) /\ base[d][e].doc = newest
      BY <1>2, <1>3, <2>6
    <3>2. /\ rows[d][e] # None
          /\ Wins(rows[d][e].doc, newest) \/ (rows[d][e].gone /\ rows[d][e].doc = newest)
      BY <1>1, <3>1 DEF SingletonInv, LaterInv
    <3>3. rows[d][e] \in Rows /\ Copy(e, rows[d][e]) /\ rows[d][e].doc \in Payloads
          /\ Holds(e, rows[d][e].doc)
      BY <3>2, RowHeld
    <3> QED BY <3>2, <3>3 DEF SingletonInv, HeldInv
  <2>7. ASSUME NewestStands PROVE NewestStands'
    <3>1. CASE newest = None
      BY <1>1, <3>1 DEF NewestStands
    <3>2. CASE newest # None
      <4>1. PICK f \in Envs : \/ master[f] = Alive(newest)
                              \/ \E c \in Devices : rows[c][f] = Alive(newest) /\ base[c][f] # rows[c][f]
        BY <2>7, <3>2 DEF NewestStands
      <4>2. CASE master[f] = Alive(newest)
        BY <1>1, <2>2, <2>6, <3>2, <4>2 DEF NewestStands
      <4>3. ASSUME NEW c \in Devices, rows[c][f] = Alive(newest), base[c][f] # rows[c][f]
            PROVE  NewestStands'
        <5>1. CASE c = d /\ f = e
          BY <1>1, <2>2, <4>3, <5>1 DEF NewestStands
        <5>2. CASE ~(c = d /\ f = e)
          <6>1. base'[c][f] = base[c][f] /\ rows'[c][f] = rows[c][f]
            BY <2>1, <2>2, <5>2
          <6> QED BY <1>1, <4>3, <6>1 DEF NewestStands
        <5> QED BY <5>1, <5>2
      <4> QED BY <4>1, <4>2, <4>3
    <3> QED BY <3>1, <3>2
  <2> QED BY <2>4, <2>5, <2>7 DEF SingletonInv
<1>4. CASE master[e] # base[d][e]
  <2> DEFINE row == Resolve(rows[d][e], master[e])
  <2>1. /\ UNCHANGED master
        /\ base' = [base EXCEPT ![d][e] = master[e]]
        /\ rows' = [rows EXCEPT ![d][e] = row]
        /\ row # rows[d][e] => queue[d] = <<>>
    BY <1>4 DEF Push, Lands
  <2>2. /\ row \in {rows[d][e], master[e]}
        /\ IsLive(master[e]) /\ row # master[e] =>
             IsLive(rows[d][e]) /\ Wins(rows[d][e].doc, master[e].doc)
        /\ IsLive(rows[d][e]) /\ row # rows[d][e] =>
             IsLive(master[e]) /\ ~Wins(rows[d][e].doc, master[e].doc)
    BY Typed, Resolved
  <2> HIDE DEF row
  <2>3. \A c \in Devices, f \in Envs :
          IF c = d /\ f = e THEN rows'[c][f] = row /\ base'[c][f] = master[e]
          ELSE rows'[c][f] = rows[c][f] /\ base'[c][f] = base[c][f]
    BY <2>1 DEF TypeOK, Replica
  <2>4. \A f \in Envs, r \in Rows : Copy(f, r)' => Copy(f, r)
    BY <2>1, <2>2, <2>3 DEF Copy
  <2>5. HeldInv' /\ QueueInv' /\ LoserInv'
    <3>1. \A c \in Devices : queue[c] # <<>> => \A f \in Envs : rows'[c][f] = rows[c][f]
      BY <2>1, <2>3
    <3> QED BY <1>1, <2>4, <3>1, CopiesKeep
  <2>6. LaterInv'
    BY <2>2, <2>3, NoRow DEF SingletonInv, LaterInv
  <2>7. ASSUME newest # None, rows[d][e] = Alive(newest)
        PROVE  master[e] = Alive(newest) \/ (row = Alive(newest) /\ master[e] # row)
    <3>1. CASE row = rows[d][e]
      BY <2>7, <3>1
    <3>2. CASE row # rows[d][e]
      <4>1. IsLive(master[e]) /\ ~Wins(newest, master[e].doc)
        BY <1>2, <2>2, <2>7, <3>2
      <4>2. master[e] \in Rows /\ master[e].doc \in Payloads /\ Holds(e, master[e].doc)
        BY <4>1, RowHeld DEF IsLive
      <4>3. ~Wins(master[e].doc, newest)
        BY <4>2 DEF SingletonInv, HeldInv
      <4>4. master[e].doc = newest
        BY <1>2, <2>7, <4>1, <4>2, <4>3, WinsOrders
      <4> QED BY <4>1, <4>2, <4>4, LiveRow DEF IsLive
    <3> QED BY <3>1, <3>2
  <2>8. ASSUME NewestStands PROVE NewestStands'
    <3>1. CASE newest = None
      BY <1>1, <3>1 DEF NewestStands
    <3>2. CASE newest # None
      <4>1. PICK f \in Envs : \/ master[f] = Alive(newest)
                              \/ \E c \in Devices : rows[c][f] = Alive(newest) /\ base[c][f] # rows[c][f]
        BY <2>8, <3>2 DEF NewestStands
      <4>2. CASE master[f] = Alive(newest)
        BY <1>1, <2>1, <4>2 DEF NewestStands
      <4>3. ASSUME NEW c \in Devices, rows[c][f] = Alive(newest), base[c][f] # rows[c][f]
            PROVE  NewestStands'
        <5>1. CASE c = d /\ f = e
          BY <1>1, <2>1, <2>3, <2>7, <3>2, <4>3, <5>1 DEF NewestStands
        <5>2. CASE ~(c = d /\ f = e)
          <6>1. base'[c][f] = base[c][f] /\ rows'[c][f] = rows[c][f]
            BY <2>3, <5>2
          <6> QED BY <1>1, <4>3, <6>1 DEF NewestStands
        <5> QED BY <5>1, <5>2
      <4> QED BY <4>1, <4>2, <4>3
    <3> QED BY <3>1, <3>2
  <2> QED BY <2>5, <2>6, <2>8 DEF SingletonInv
<1> QED BY <1>3, <1>4

(***************************************************************************)
(* The writes                                                              *)
(***************************************************************************)
\* A document stamped after what its device stamped is held nowhere, and names no row.
LEMMA Unheld ==
  ASSUME TypeOK, HeldInv, NEW d \in Devices, NEW doc \in Payloads, doc.by = d, doc.at > last[d]
  PROVE  /\ \A e \in Envs : ~Holds(e, doc)
         /\ \A other \in Payloads : ~Holds(doc, other)
<1>1. last[d] \in Nat /\ doc.at \in Nat
  BY PayloadFields, Bounds DEF TypeOK
<1>2. doc \in Envs
  BY DEF Envs
<1> QED BY <1>1, <1>2 DEF HeldInv

LEMMA UpdateKeeps ==
  ASSUME TypeOK, TypeOK', SingletonInv, NEW d \in Devices, Update(d)
  PROVE  SingletonInv' /\ (NewestStands => NewestStands')
<1>1. PICK at \in Stamps(d) :
        /\ last' = [last EXCEPT ![d] = at]
        /\ queue' = [queue EXCEPT ![d] = Append(@, [at |-> at, by |-> d])]
  BY DEF Update
<1>2. UNCHANGED <<master, rows, base, index, hyd, open, spent, newest>> /\ open[d]
  BY DEF Update
<1> DEFINE doc == [at |-> at, by |-> d]
<1>3. /\ doc \in Payloads /\ doc.at = at /\ doc.by = d
      /\ at \in Nat /\ last[d] \in Nat /\ at > last[d]
      /\ \A e \in Live(rows[d]) : at > rows[d][e].doc.at
  BY Stamped, Bounds DEF Stamps, TypeOK
<1> HIDE DEF doc
<1>4. (\A e \in Envs : ~Holds(e, doc)) /\ \A other \in Payloads : ~Holds(doc, other)
  BY <1>3, Unheld DEF SingletonInv
<1>5. \A c \in Devices : /\ last'[c] = IF c = d THEN at ELSE last[c]
                         /\ last[c] \in Nat /\ last[c] <= last'[c]
                         /\ queue'[c] = IF c = d THEN Append(queue[d], doc) ELSE queue[c]
  BY <1>1, <1>3, Bounds DEF TypeOK, doc
<1>6. \A e \in Envs, x \in Payloads : Holds(e, x)' <=> Holds(e, x)
  BY <1>2 DEF Holds, Copy
<1>7. HeldInv'
  BY <1>2, <1>5, <1>6, HeldFrame DEF SingletonInv, Narrows, Copy
<1>8. QueueInv'
  <2>1. ASSUME NEW c \in Devices, NEW q \in Payloads, Waits(c, q) PROVE Waits(c, q)'
    <3>1. q.at <= last'[c]
      BY <1>5, <2>1, PayloadFields DEF Waits, TypeOK
    <3>2. (\A e \in Envs : ~Holds(e, q)') /\ \A other \in Payloads : ~Holds(q, other)'
      BY <1>6, <2>1 DEF Waits, Envs
    <3> QED BY <1>2, <2>1, <3>1, <3>2 DEF Waits
  <2>2. Waits(d, doc)'
    <3>1. \A e \in Live(rows[d]) : Wins(doc, rows[d][e].doc)
      BY <1>3 DEF Wins
    <3>2. (\A e \in Envs : ~Holds(e, doc)') /\ \A other \in Payloads : ~Holds(doc, other)'
      BY <1>3, <1>4, <1>6 DEF Envs
    <3> QED BY <1>2, <1>3, <1>5, <3>1, <3>2 DEF Waits
  <2>3. ASSUME NEW c \in Devices, c # d, NEW i \in 1..Len(queue'[c])
        PROVE  /\ Waits(c, queue[c][i])'
               /\ \A j \in 1..Len(queue'[c]) : j < i => queue'[c][j].at < queue'[c][i].at
    <3>1. queue'[c] = queue[c] /\ queue[c][i] \in Payloads
      BY <1>5, <2>3, Queued
    <3>2. Waits(c, queue[c][i])
      BY <2>3, <3>1 DEF SingletonInv, QueueInv
    <3>3. PICK q \in Payloads : Waits(c, q) /\ queue'[c][i] = q
      BY <3>1, <3>2
    <3>4. Waits(c, q)'
      BY <2>1, <3>3
    <3>5. Waits(c, queue[c][i])'
      BY <3>3, <3>4 DEF Waits
    <3> QED BY <2>3, <3>1, <3>5 DEF SingletonInv, QueueInv
  <2>4. ASSUME NEW i \in 1..Len(queue'[d])
        PROVE  /\ Waits(d, queue[d][i])'
               /\ \A j \in 1..Len(queue'[d]) : j < i => queue'[d][j].at < queue'[d][i].at
    <3> DEFINE old == queue[d]
    <3>1. old \in Seq(Payloads) /\ Len(old) \in Nat /\ queue'[d] = Append(old, doc)
      BY <1>5, Typed, LenProperties
    <3>2. \A j \in 1..Len(old) :
            old[j] \in Payloads /\ Waits(d, old[j]) /\ old[j].at \in Nat /\ old[j].at < at
      <4> SUFFICES ASSUME NEW j \in 1..Len(old)
                   PROVE  old[j] \in Payloads /\ Waits(d, old[j]) /\ old[j].at \in Nat /\ old[j].at < at
        OBVIOUS
      <4>1. old[j] \in Payloads /\ Waits(d, old[j])
        BY Queued DEF SingletonInv, QueueInv
      <4>2. old[j].at \in Nat /\ old[j].at <= last[d]
        BY <4>1, PayloadFields DEF Waits
      <4> QED BY <1>3, <4>1, <4>2
    <3>3. \A j, k \in 1..Len(old) : j < k => old[j].at < old[k].at
      BY DEF SingletonInv, QueueInv
    <3> HIDE DEF old
    <3>4. /\ Len(queue'[d]) = Len(old) + 1
          /\ \A j \in 1..Len(old) : queue'[d][j] = old[j]
          /\ queue'[d][Len(old) + 1] = doc
      BY <1>3, <3>1, AppendProperties
    <3>5. CASE i = Len(old) + 1
      <4>1. queue'[d][i] = doc
        BY <3>4, <3>5
      <4>2. Waits(d, queue[d][i])'
        BY <2>2, <4>1 DEF Waits
      <4> QED BY <1>3, <3>1, <3>2, <3>4, <3>5, <4>1, <4>2
    <3>6. CASE i \in 1..Len(old)
      <4>1. queue'[d][i] = old[i] /\ old[i] \in Payloads /\ Waits(d, old[i])
        BY <3>2, <3>4, <3>6
      <4>2. PICK q \in Payloads : Waits(d, q) /\ queue'[d][i] = q
        BY <4>1
      <4>3. Waits(d, q)'
        BY <2>1, <4>2
      <4>4. Waits(d, queue[d][i])'
        BY <4>2, <4>3 DEF Waits
      <4>5. \A j \in 1..Len(queue'[d]) : j < i => queue'[d][j].at < queue'[d][i].at
        BY <3>1, <3>3, <3>4, <3>6
      <4> QED BY <4>4, <4>5
    <3> QED BY <3>1, <3>4, <3>5, <3>6
  <2>5. ASSUME NEW c \in Devices, NEW i \in 1..Len(queue'[c])
        PROVE  /\ Waits(c, queue[c][i])'
               /\ \A j \in 1..Len(queue'[c]) : j < i => queue'[c][j].at < queue'[c][i].at
    BY <2>3, <2>4, <2>5
  <2> QED BY <2>5 DEF QueueInv
<1>9. LaterInv' /\ LoserInv' /\ (NewestStands => NewestStands')
  BY <1>2 DEF SingletonInv, LaterInv, LoserInv, NewestStands
<1> QED BY <1>7, <1>8, <1>9 DEF SingletonInv

\* The write of a document held nowhere, in place over an older one or as a row of its own.
Writes(d, e, doc) ==
  /\ rows' = [rows EXCEPT ![d][e] = Alive(doc)]
  /\ UNCHANGED <<master, base>> /\ newest' = Newer(doc)
  /\ doc.by = d /\ doc.at <= last'[d] /\ \A c \in Devices : last[c] <= last'[c]
  /\ \A f \in Envs : ~Holds(f, doc)
  /\ \/ e = doc /\ \A other \in Payloads : ~Holds(doc, other)
     \/ IsLive(rows[d][e]) /\ Wins(doc, rows[d][e].doc)
  /\ \A c \in Devices, f \in Envs, other \in Payloads :
       hyd'[c] # None /\ hyd'[c].seen[f] = other => Holds(f, other) \/ (f = e /\ other = doc)

\* It makes one copy more.
LEMMA WriteCopies ==
  ASSUME TypeOK, NEW d \in Devices, NEW e \in Envs, NEW doc \in Payloads, Writes(d, e, doc)
  PROVE  /\ \A c \in Devices, f \in Envs :
              rows'[c][f] = IF c = d /\ f = e THEN Alive(doc) ELSE rows[c][f]
         /\ \A f \in Envs, row \in Rows :
              Copy(f, row)' => Copy(f, row) \/ (f = e /\ row = Alive(doc))
         /\ \A f \in Envs, other \in Payloads :
              Holds(f, other)' => Holds(f, other) \/ (f = e /\ other = doc)
<1>1. \A c \in Devices, f \in Envs :
        rows'[c][f] = IF c = d /\ f = e THEN Alive(doc) ELSE rows[c][f]
  BY DEF Writes, TypeOK, Replica
<1>2. \A f \in Envs, row \in Rows : Copy(f, row)' => Copy(f, row) \/ (f = e /\ row = Alive(doc))
  BY <1>1 DEF Writes, Copy
<1>3. \A f \in Envs, other \in Payloads :
        Holds(f, other)' => Holds(f, other) \/ (f = e /\ other = doc)
  <2> SUFFICES ASSUME NEW f \in Envs, NEW other \in Payloads, Holds(f, other)'
               PROVE  Holds(f, other) \/ (f = e /\ other = doc)
    OBVIOUS
  <2>1. CASE \E row \in Rows : Copy(f, row)' /\ row.doc = other
    BY <1>2, <2>1, AliveFields DEF Holds
  <2>2. CASE \E c \in Devices : hyd'[c] # None /\ hyd'[c].seen[f] = other
    BY <2>2 DEF Writes
  <2> QED BY <2>1, <2>2 DEF Holds
<1> QED BY <1>1, <1>2, <1>3

\* The newest after a write.
LEMMA NewerIs ==
  ASSUME TypeOK, NEW doc \in Payloads
  PROVE  /\ Newer(doc) \in {doc, newest} /\ Newer(doc) # None /\ ~Wins(doc, Newer(doc))
         /\ \A other \in Payloads : newest # None /\ ~Wins(other, newest) => ~Wins(other, Newer(doc))
<1>1. Newer(doc) \in {doc, newest} /\ Newer(doc) # None /\ ~Wins(doc, Newer(doc))
  BY Bounds, WinsOrders DEF Newer
<1>2. ASSUME NEW other \in Payloads, newest # None, ~Wins(other, newest)
      PROVE  ~Wins(other, Newer(doc))
  <2>1. newest \in Payloads
    BY <1>2 DEF TypeOK
  <2> QED BY <1>2, <2>1, WinsChains, WinsOrders DEF Newer
<1> QED BY <1>1, <1>2

LEMMA WriteKeeps ==
  ASSUME TypeOK, TypeOK', SingletonInv,
         NEW d \in Devices, NEW e \in Envs, NEW doc \in Payloads, Writes(d, e, doc)
  PROVE  HeldInv' /\ LaterInv' /\ (NewestStands => NewestStands')
<1>1. /\ \A c \in Devices, f \in Envs :
           rows'[c][f] = IF c = d /\ f = e THEN Alive(doc) ELSE rows[c][f]
      /\ \A f \in Envs, row \in Rows : Copy(f, row)' => Copy(f, row) \/ (f = e /\ row = Alive(doc))
      /\ \A f \in Envs, other \in Payloads :
           Holds(f, other)' => Holds(f, other) \/ (f = e /\ other = doc)
  BY WriteCopies
<1>2. /\ Newer(doc) \in {doc, newest} /\ Newer(doc) # None /\ ~Wins(doc, Newer(doc))
      /\ \A other \in Payloads : newest # None /\ ~Wins(other, newest) => ~Wins(other, Newer(doc))
      /\ newest' = Newer(doc)
  BY NewerIs DEF Writes
<1>3. Alive(doc) \in Rows /\ Alive(doc).doc = doc /\ ~Alive(doc).gone /\ IsLive(Alive(doc))
      /\ Alive(doc) # None
  BY AliveFields
<1>4. /\ \A c \in Devices : last[c] \in Nat /\ last'[c] \in Nat /\ last[c] <= last'[c]
      /\ \A x \in Payloads : x.at \in Nat /\ x.by \in Devices
      /\ \A f \in Envs : f \in Payloads
  BY PayloadFields, Bounds DEF Writes, TypeOK, Envs
<1>5. ASSUME NEW f \in Envs, NEW x \in Payloads, Holds(f, x)'
      PROVE  /\ x.at <= last'[x.by] /\ f.at <= last'[f.by]
             /\ newest' # None /\ ~Wins(x, newest')
             /\ \A g \in Envs : Holds(g, x)' => g = f
  <2>1. CASE Holds(f, x)
    <3>1. /\ x.at <= last[x.by] /\ f.at <= last[f.by] /\ newest # None /\ ~Wins(x, newest)
          /\ \A g \in Envs : Holds(g, x) => g = f
      BY <2>1 DEF SingletonInv, HeldInv
    <3>2. x # doc
      BY <2>1 DEF Writes
    <3>3. x.at <= last'[x.by] /\ f.at <= last'[f.by]
      BY <1>4, <3>1
    <3> QED BY <1>1, <1>2, <3>1, <3>2, <3>3
  <2>2. CASE ~Holds(f, x)
    <3>1. f = e /\ x = doc
      BY <1>1, <1>5, <2>2
    <3>2. x.at <= last'[x.by]
      BY <3>1 DEF Writes
    <3>3. f.at <= last'[f.by]
      <4>1. CASE e = doc
        BY <3>1, <3>2, <4>1
      <4>2. CASE IsLive(rows[d][e])
        <5>1. rows[d][e].doc \in Payloads /\ Holds(e, rows[d][e].doc)
          BY <4>2, LiveHeld
        <5>2. f.at <= last[f.by]
          BY <3>1, <5>1 DEF SingletonInv, HeldInv
        <5> QED BY <1>4, <5>2
      <4> QED BY <4>1, <4>2 DEF Writes
    <3>4. \A g \in Envs : Holds(g, x)' => g = f
      BY <1>1, <3>1 DEF Writes
    <3> QED BY <1>2, <3>1, <3>2, <3>3, <3>4
  <2> QED BY <2>1, <2>2
<1>6. ASSUME NEW f \in Envs, NEW row \in Rows, Copy(f, row)', row.gone PROVE row.doc # newest'
  <2>1. Copy(f, row)
    BY <1>1, <1>3, <1>6
  <2>2. row.doc # newest /\ Holds(f, row.doc)
    BY <1>6, <2>1, CopyHolds DEF SingletonInv, HeldInv
  <2>3. row.doc # doc
    BY <2>2 DEF Writes
  <2> QED BY <1>2, <2>2, <2>3
<1>7. HeldInv'
  BY <1>5, <1>6 DEF HeldInv
<1>8. LaterInv'
  <2> SUFFICES ASSUME NEW c \in Devices, NEW f \in Envs,
                      IsLive(base[c][f]), rows'[c][f] # base[c][f]
               PROVE  /\ rows'[c][f] # None
                      /\ \/ Wins(rows'[c][f].doc, base[c][f].doc)
                         \/ rows'[c][f].gone /\ rows'[c][f].doc = base[c][f].doc
    BY DEF Writes, LaterInv
  <2>1. CASE ~(c = d /\ f = e)
    BY <1>1, <2>1 DEF SingletonInv, LaterInv
  <2>2. CASE c = d /\ f = e
    <3>1. base[d][e].doc \in Payloads /\ Holds(e, base[d][e].doc)
      BY <2>2, RowHeld DEF IsLive
    <3>2. IsLive(rows[d][e]) /\ Wins(doc, rows[d][e].doc)
      BY <3>1 DEF Writes
    <3>3. rows[d][e].doc \in Payloads
      BY <3>2, LiveHeld
    <3>4. rows[d][e] = base[d][e] \/ Wins(rows[d][e].doc, base[d][e].doc)
      BY <2>2, <3>2 DEF SingletonInv, LaterInv, IsLive
    <3>5. Wins(doc, base[d][e].doc)
      BY <3>1, <3>2, <3>3, <3>4, WinsChains
    <3> QED BY <1>1, <1>3, <2>2, <3>5
  <2> QED BY <2>1, <2>2
<1>9. ASSUME NewestStands PROVE NewestStands'
  <2>1. CASE newest' = doc
    <3>1. rows'[d][e] = Alive(doc)
      BY <1>1
    <3>2. base[d][e] # Alive(doc)
      <4> SUFFICES ASSUME base[d][e] = Alive(doc) PROVE FALSE
        OBVIOUS
      <4>1. Holds(e, base[d][e].doc)
        BY <1>3, RowHeld
      <4> QED BY <1>3, <4>1 DEF Writes
    <3>3. base' = base
      BY DEF Writes
    <3> QED BY <2>1, <3>1, <3>2, <3>3 DEF NewestStands
  <2>2. CASE newest' # doc
    <3>1. newest' = newest /\ newest # None /\ newest \in Payloads
      BY <1>2, <2>2 DEF TypeOK
    <3>2. ~Wins(doc, newest)
      BY <1>2, <3>1
    <3>3. rows[d][e] # Alive(newest)
      <4> SUFFICES ASSUME rows[d][e] = Alive(newest) PROVE FALSE
        OBVIOUS
      <4>1. /\ IsLive(rows[d][e]) /\ rows[d][e].doc = newest /\ rows[d][e] # None
            /\ Holds(e, rows[d][e].doc)
        BY <3>1, AliveFields, LiveHeld
      <4> QED BY <3>1, <3>2, <4>1 DEF Writes
    <3>4. PICK f \in Envs : \/ master[f] = Alive(newest)
                            \/ \E c \in Devices : rows[c][f] = Alive(newest) /\ base[c][f] # rows[c][f]
      BY <1>9, <3>1 DEF NewestStands
    <3>5. master' = master /\ base' = base
      BY DEF Writes
    <3>6. \A c \in Devices : rows[c][f] = Alive(newest) => rows'[c][f] = rows[c][f]
      BY <1>1, <3>3
    <3> QED BY <3>1, <3>4, <3>5, <3>6 DEF NewestStands
  <2> QED BY <2>1, <2>2
<1> QED BY <1>7, <1>8, <1>9

\* What waits elsewhere, or is later, goes on waiting.
LEMMA WaitsOn ==
  ASSUME TypeOK, TypeOK', SingletonInv,
         NEW d \in Devices, NEW e \in Envs, NEW doc \in Payloads, Writes(d, e, doc),
         NEW c \in Devices, NEW q \in Payloads, Waits(c, q), open'[c], q # doc,
         c = d => Wins(q, doc)
  PROVE  Waits(c, q)'
<1>1. /\ \A b \in Devices, f \in Envs :
           rows'[b][f] = IF b = d /\ f = e THEN Alive(doc) ELSE rows[b][f]
      /\ \A f \in Envs, other \in Payloads :
           Holds(f, other)' => Holds(f, other) \/ (f = e /\ other = doc)
  BY WriteCopies
<1>2. q.at <= last'[c]
  BY PayloadFields, Bounds DEF Writes, Waits, TypeOK
<1>3. \A f \in Envs : ~Holds(f, q)'
  BY <1>1 DEF Waits
<1>4. q # e
  <2>1. CASE e = doc
    BY <2>1
  <2>2. CASE IsLive(rows[d][e])
    BY <2>2, LiveHeld DEF Waits
  <2> QED BY <2>1, <2>2 DEF Writes
<1>5. \A other \in Payloads : ~Holds(q, other)'
  BY <1>1, <1>4 DEF Waits, Envs
<1>6. \A f \in Live(rows'[c]) : Wins(q, rows'[c][f].doc)
  <2> SUFFICES ASSUME NEW f \in Live(rows'[c]) PROVE Wins(q, rows'[c][f].doc)
    OBVIOUS
  <2>1. CASE c = d /\ f = e
    BY <1>1, <2>1, AliveFields
  <2>2. CASE ~(c = d /\ f = e)
    BY <1>1, <2>2 DEF Waits, Live
  <2> QED BY <2>1, <2>2
<1> QED BY <1>2, <1>3, <1>5, <1>6 DEF Waits

LEMMA PersistKeeps ==
  ASSUME TypeOK, TypeOK', SingletonInv, NEW d \in Devices, Persist(d)
  PROVE  SingletonInv' /\ (NewestStands => NewestStands')
<1> DEFINE old == queue[d]
<1>1. /\ old \in Seq(Payloads) /\ old # <<>> /\ Len(old) \in Nat \ {0} /\ Head(old) = old[1]
      /\ Tail(old) \in Seq(Payloads) /\ Len(Tail(old)) = Len(old) - 1
      /\ \A i \in 1..Len(Tail(old)) : Tail(old)[i] = old[i + 1]
  BY Typed, HeadTailProperties, EmptySeq DEF Persist
<1>2. PICK doc \in Payloads : doc = old[1]
  BY <1>1, Queued
<1>3. /\ Waits(d, doc)
      /\ \A i \in 2..Len(old) : old[i] \in Payloads /\ Waits(d, old[i]) /\ doc.at < old[i].at
  BY <1>1, <1>2, Queued DEF SingletonInv, QueueInv
<1>4. PICK e \in Envs : e = Target(d, doc)
  BY TargetType
<1>5. /\ rows' = [rows EXCEPT ![d][e] = Alive(doc)] /\ newest' = Newer(doc)
      /\ queue' = [queue EXCEPT ![d] = Tail(old)]
      /\ UNCHANGED <<master, base, shown, hyd, open, last, spent>>
  BY <1>1, <1>2, <1>4 DEF Persist
<1>6. Writes(d, e, doc)
  <2>1. e = doc \/ (IsLive(rows[d][e]) /\ Wins(doc, rows[d][e].doc))
    BY <1>3, <1>4 DEF Target, Waits, Live
  <2>2. \A c \in Devices, f \in Envs, other \in Payloads :
          hyd'[c] # None /\ hyd'[c].seen[f] = other => Holds(f, other)
    BY <1>5 DEF Holds
  <2> QED BY <1>3, <1>5, <2>1, <2>2, LastStands DEF Writes, Waits
<1>7. HeldInv' /\ LaterInv' /\ (NewestStands => NewestStands')
  BY <1>6, WriteKeeps
<1>8. LoserInv'
  BY <1>5, LoserFrame DEF SingletonInv
<1>9. /\ queue'[d] = Tail(old) /\ \A c \in Devices : c # d => queue'[c] = queue[c]
  BY <1>5 DEF TypeOK
<1>10. ASSUME NEW c \in Devices, NEW i \in 1..Len(queue'[c])
       PROVE  /\ Waits(c, queue[c][i])'
              /\ \A j \in 1..Len(queue'[c]) : j < i => queue'[c][j].at < queue'[c][i].at
  <2>1. CASE c # d
    <3>1. queue'[c] = queue[c] /\ i \in 1..Len(queue[c])
      BY <1>9, <2>1
    <3>2. PICK q \in Payloads : q = queue[c][i]
      BY <3>1, Queued
    <3>3. Waits(c, q)
      BY <3>1, <3>2 DEF SingletonInv, QueueInv
    <3>4. q # doc /\ open'[c]
      BY <1>3, <1>5, <2>1, <3>3 DEF Waits
    <3>5. Waits(c, q)'
      BY <1>6, <2>1, <3>3, <3>4, WaitsOn
    <3>6. q = queue'[c][i] /\ \A j \in 1..Len(queue'[c]) : j < i => queue'[c][j].at < queue'[c][i].at
      BY <3>1, <3>2 DEF SingletonInv, QueueInv
    <3> QED BY <3>5, <3>6 DEF Waits
  <2>2. CASE c = d
    <3>0. /\ queue'[c] = Tail(old) /\ Len(queue'[c]) = Len(old) - 1 /\ Len(old) - 1 \in Nat
          /\ \A k \in 1..Len(queue'[c]) : queue'[c][k] = old[k + 1]
      <4>1. queue'[c] = Tail(old)
        BY <1>9, <2>2
      <4>2. Len(old) - 1 \in Nat
        BY <1>1
      <4> HIDE DEF old
      <4> QED BY <1>1, <4>1, <4>2
    <3> HIDE DEF old
    <3>1. queue'[c][i] = old[i + 1] /\ i + 1 \in 2..Len(old) /\ i + 1 \in 1..Len(old)
      <4>1. queue'[c][i] = old[i + 1]
        BY <3>0
      <4>2. i \in 1..(Len(old) - 1)
        BY <3>0
      <4> QED BY <3>0, <4>1, <4>2
    <3>2. PICK q \in Payloads : q = old[i + 1]
      BY <1>3, <3>1
    <3>3. Waits(c, q) /\ doc.at < q.at
      BY <1>3, <2>2, <3>1, <3>2
    <3>4. q # doc /\ open'[c] /\ Wins(q, doc)
      BY <1>5, <3>3, PayloadFields DEF Waits, Wins
    <3>5. Waits(c, q)'
      BY <1>6, <3>3, <3>4, WaitsOn
    <3>6. \A j \in 1..Len(queue'[c]) : j < i => queue'[c][j].at < queue'[c][i].at
      <4> SUFFICES ASSUME NEW j \in 1..Len(queue'[c]), j < i
                   PROVE  queue'[c][j].at < queue'[c][i].at
        OBVIOUS
      <4>1. queue'[c][j] = old[j + 1] /\ j + 1 \in 1..Len(old) /\ j + 1 < i + 1
        BY <3>0
      <4> QED BY <2>2, <3>1, <4>1 DEF SingletonInv, QueueInv, old
    <3>7. q = queue'[c][i]
      BY <3>1, <3>2
    <3> QED BY <3>5, <3>6, <3>7 DEF Waits
  <2> QED BY <2>1, <2>2
<1> QED BY <1>7, <1>8, <1>10 DEF SingletonInv, QueueInv

LEMMA LoginAdoptingKeeps ==
  ASSUME TypeOK, TypeOK', SingletonInv, NEW d \in Devices, LoginAdopting(d)
  PROVE  SingletonInv' /\ (NewestStands => NewestStands')
<1>1. PICK at \in 1..MaxAt, e \in Envs \cup {None} :
        /\ at > last[d] /\ Listed(d, e) /\ last' = [last EXCEPT ![d] = at]
        /\ rows' = [rows EXCEPT ![d] = Adopted(d, [at |-> at, by |-> d], e)]
        /\ hyd' = [hyd EXCEPT ![d] = Reading(Adopted(d, [at |-> at, by |-> d], e))]
        /\ newest' = IF Adopted(d, [at |-> at, by |-> d], e) = rows[d] THEN newest
                     ELSE Newer([at |-> at, by |-> d])
  BY DEF LoginAdopting
<1>2. PICK doc \in Payloads : doc = [at |-> at, by |-> d] /\ doc.at = at /\ doc.by = d
  BY Stamped
<1>3. PICK replica \in Replica : replica = Adopted(d, doc, e)
  BY AdoptedType
<1>4. /\ rows' = [rows EXCEPT ![d] = replica] /\ hyd' = [hyd EXCEPT ![d] = Reading(replica)]
      /\ newest' = IF replica = rows[d] THEN newest ELSE Newer(doc)
      /\ UNCHANGED <<master, base, index, shown, queue, open, spent>> /\ ~open[d]
  BY <1>1, <1>2, <1>3 DEF LoginAdopting
<1>5. last'[d] = at /\ \A c \in Devices : last[c] <= last'[c]
  BY <1>1, Bounds DEF TypeOK
<1>6. (\A f \in Envs : ~Holds(f, doc)) /\ \A other \in Payloads : ~Holds(doc, other)
  BY <1>1, <1>2, Unheld DEF SingletonInv
<1>7. /\ hyd'[d] = Reading(replica) /\ hyd'[d].at = "decrypt"
      /\ \A f \in Envs : hyd'[d].seen[f] = IF IsLive(replica[f]) THEN replica[f].doc ELSE None
      /\ \A c \in Devices : c # d => hyd'[c] = hyd[c]
  BY <1>4, ReadingType DEF TypeOK
<1>8. LoserInv'
  BY <1>7, LoserFrame DEF SingletonInv
<1>9. CASE replica = rows[d]
  <2>1. rows' = rows /\ newest' = newest
    BY <1>4, <1>9 DEF TypeOK
  <2>2. \A c \in Devices, f \in Envs, other \in Payloads :
          hyd'[c] # None /\ hyd'[c].seen[f] = other => Holds(f, other)
    <3>1. hyd' = [hyd EXCEPT ![d] = Reading(rows[d])]
      BY <1>4, <1>9
    <3> QED BY <3>1, StartsReading
  <2> QED BY <1>4, <1>5, <1>8, <2>1, <2>2, RowsStand
<1>10. CASE replica # rows[d]
  <2>1. PICK env \in Envs : /\ replica = [rows[d] EXCEPT ![env] = Alive(doc)]
                            /\ \/ env = doc
                               \/ IsLive(rows[d][env]) /\ Wins(doc, rows[d][env].doc)
    BY <1>1, <1>3, <1>10 DEF Adopted, Listed, Live, Envs
  <2>2. rows' = [rows EXCEPT ![d][env] = Alive(doc)]
    BY <1>4, <2>1
  <2>3. \A f \in Envs : replica[f] = IF f = env THEN Alive(doc) ELSE rows[d][f]
    BY <2>1 DEF TypeOK, Replica
  <2>4. \A c \in Devices, f \in Envs, other \in Payloads :
          hyd'[c] # None /\ hyd'[c].seen[f] = other => Holds(f, other) \/ (f = env /\ other = doc)
    <3> SUFFICES ASSUME NEW c \in Devices, NEW f \in Envs, NEW other \in Payloads,
                        hyd'[c] # None, hyd'[c].seen[f] = other
                 PROVE  Holds(f, other) \/ (f = env /\ other = doc)
      OBVIOUS
    <3>1. CASE c # d
      BY <1>7, <3>1 DEF Holds
    <3>2. CASE c = d
      <4>1. IsLive(replica[f]) /\ other = replica[f].doc
        BY <1>7, <3>2, Bounds
      <4>2. CASE f = env
        BY <2>3, <4>1, <4>2, AliveFields
      <4>3. CASE f # env
        BY <2>3, <4>1, <4>3, LiveHeld
      <4> QED BY <4>2, <4>3
    <3> QED BY <3>1, <3>2
  <2>5. Writes(d, env, doc)
    <3>1. newest' = Newer(doc) /\ UNCHANGED <<master, base>>
      BY <1>4, <1>10
    <3>2. doc.by = d /\ doc.at <= last'[d]
      BY <1>2, <1>5
    <3> QED BY <1>5, <1>6, <2>1, <2>2, <2>4, <3>1, <3>2 DEF Writes
  <2>6. HeldInv' /\ LaterInv' /\ (NewestStands => NewestStands')
    BY <2>5, WriteKeeps
  <2>7. ASSUME NEW c \in Devices, NEW i \in 1..Len(queue[c])
        PROVE  Waits(c, queue[c][i])'
    <3>1. PICK q \in Payloads : q = queue[c][i]
      BY Queued
    <3>2. Waits(c, q)
      BY <3>1 DEF SingletonInv, QueueInv
    <3>3. c # d /\ q # doc /\ open'[c]
      BY <1>2, <1>4, <3>2 DEF Waits
    <3>4. Waits(c, q)'
      BY <2>5, <3>2, <3>3, WaitsOn
    <3> QED BY <1>4, <3>1, <3>4 DEF Waits
  <2>8. QueueInv'
    BY <1>4, <2>7 DEF SingletonInv, QueueInv
  <2> QED BY <1>8, <2>6, <2>8 DEF SingletonInv
<1> QED BY <1>9, <1>10

(***************************************************************************)
(* The theorem                                                             *)
(***************************************************************************)
LEMMA SingletonStep ==
  ASSUME ~PullsOverUpdates
  PROVE  TypeOK /\ TypeOK' /\ SingletonInv /\ NewestStands /\ [Next]_vars
           => SingletonInv' /\ NewestStands'
<1> SUFFICES ASSUME TypeOK, TypeOK', SingletonInv, NewestStands, [Next]_vars
             PROVE  SingletonInv' /\ NewestStands'
  OBVIOUS
<1>1. CASE UNCHANGED vars
  <2>1. UNCHANGED <<master, rows, base, queue, newest>> /\ UNCHANGED <<hyd, open, last>>
    BY <1>1 DEF vars
  <2>2. LoserInv'
    BY <2>1, LoserFrame DEF SingletonInv
  <2>3. \A c \in Devices, f \in Envs, doc \in Payloads :
          hyd'[c] # None /\ hyd'[c].seen[f] = doc => Holds(f, doc)
    BY <2>1 DEF Holds
  <2> QED BY <2>1, <2>2, <2>3, RowsStand, LastStands
<1>2. ASSUME NEW d \in Devices, Step(d) PROVE SingletonInv' /\ NewestStands'
  BY <1>2, PersistKeeps, WeighKeeps, HydratedKeeps, RemoveLoserKeeps, PushKeeps, PullKeeps DEF Step
<1> QED BY <1>1, <1>2, UpdateKeeps, HydrateKeeps, LogoutKeeps, LoginAdoptingKeeps DEF Next

\* While no pulled state lands under a waiting update, the newest document persisted on any device
\* is the Space's or on its way there: neither the removal of duplicates, nor a conflict, nor an
\* adoption, nor a pull loses it, however they cross with edits (hydrateSingleton).
THEOREM NewestAlwaysStands ==
  ASSUME ~PullsOverUpdates
  PROVE  Spec => []NewestStands
<1>1. Init => TypeOK /\ SingletonInv /\ NewestStands
  BY InitType, InitHolds
<1>2. TypeOK /\ SingletonInv /\ NewestStands /\ [Next]_vars
        => TypeOK' /\ SingletonInv' /\ NewestStands'
  BY TypeStep, SingletonStep
<1> QED BY <1>1, <1>2, PTL DEF Spec
==============================================================================
