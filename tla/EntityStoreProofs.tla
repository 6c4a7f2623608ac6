------------------------- MODULE EntityStoreProofs -------------------------
(***************************************************************************)
(* What holds of EntityStore for every value of its constants, whatever    *)
(* crosses: types, the shape of calls and queues, the session, stamps and  *)
(* ids.  The invariant that holds while nothing crosses is proved in       *)
(* EntityStoreSyncProofs, from the lemmas on each step given here.         *)
(***************************************************************************)
EXTENDS EntityStore, FiniteSetTheorems, WellFoundedInduction, SequenceTheorems, TLAPS

\* Induction up to a bound, over a set of naturals.
LEMMA UpTo ==
  ASSUME NEW n \in Nat, NEW S, 0 \in S, \A k \in 0..(n-1) : k \in S => k + 1 \in S
  PROVE  0..n \subseteq S
<1> SUFFICES ASSUME (0..n) \ S # {} PROVE FALSE
  OBVIOUS
<1> DEFINE T == (0..n) \ S
<1>0. T \subseteq Nat /\ T # {}
  OBVIOUS
<1>1. PICK x \in T : \A y \in T : ~(<<y, x>> \in OpToRel(<, Nat))
  BY <1>0, NatLessThanWellFounded, WFMin
<1>2. \A y \in T : ~(y < x)
  BY <1>0, <1>1 DEF OpToRel
<1>3. x \in 0..n /\ x \notin S /\ x # 0
  OBVIOUS
<1>4. x - 1 \in 0..(n-1) /\ x - 1 \in 0..n /\ x - 1 < x
  BY <1>3
<1>5. x - 1 \in S
  BY <1>2, <1>4
<1>6. (x - 1) + 1 \in S
  BY <1>4, <1>5
<1> QED BY <1>3, <1>6

\* A non-empty set of positions has a last one.
LEMMA LastPosition ==
  ASSUME NEW n \in Nat, NEW T \in SUBSET (1..n), T # {}
  PROVE  Max(T) \in T /\ \A x \in T : x <= Max(T)
<1> DEFINE U == {n - x : x \in T}
<1>1. U \subseteq Nat /\ U # {}
  <2>1. \A x \in T : x \in 1..n
    OBVIOUS
  <2>2. \A x \in T : n - x \in Nat
    BY <2>1
  <2>3. U # {}
    OBVIOUS
  <2> QED BY <2>2, <2>3
<1>2. PICK u \in U : \A v \in U : ~(<<v, u>> \in OpToRel(<, Nat))
  BY <1>1, NatLessThanWellFounded, WFMin
<1>3. \A v \in U : ~(v < u)
  BY <1>1, <1>2 DEF OpToRel
<1>4. PICK x \in T : u = n - x
  OBVIOUS
<1>5. \A y \in T : x >= y
  <2> TAKE y \in T
  <2>1. n - y \in U
    OBVIOUS
  <2>2. ~(n - y < n - x)
    BY <2>1, <1>3, <1>4
  <2>3. x \in 1..n /\ y \in 1..n
    OBVIOUS
  <2> QED BY <2>2, <2>3
<1>6. \E m \in T : \A y \in T : m >= y
  BY <1>5
<1>7. Max(T) \in T /\ \A y \in T : Max(T) >= y
  BY <1>6 DEF Max
<1>8. \A y \in T : y \in 1..n
  OBVIOUS
<1> QED BY <1>7, <1>8

\* The values h of the fold of b over s, patch by patch.
Loops(h, b, n, s) ==
  /\ h[0] = b
  /\ \A k \in 1..n : h[k] = Applied(h[k-1], s[k])
  /\ Burst(b, s) = h[n]

\* The fold of a burst, patch by patch: the recursion FoldLeft is defined by has a
\* solution, and its values on the prefixes of the burst are what a loop computes.
LEMMA FoldIsLoop ==
  ASSUME NEW B, NEW b \in B, NEW n \in Nat, NEW s, DOMAIN s = 1..n,
         \A x \in B, k \in 1..n : Applied(x, s[k]) \in B
  PROVE  \E h \in [0..n -> B] : Loops(h, b, n, s)
<1> DEFINE Solves(g, m) ==
      g = [T \in SUBSET (1..m) |->
             IF T = {} THEN b ELSE Applied(g[T \ {Max(T)}], s[Max(T)])]
<1>1. FoldLeft(Applied, b, s) = (CHOOSE g : Solves(g, n))[1..n]
  BY DEF FoldLeft, MapThenFoldSet
<1>2. \E g : Solves(g, n)
  <2> DEFINE Good == {m \in 0..n : \E g : Solves(g, m)}
  <2>1. 0 \in Good
    <3>1. Solves([T \in SUBSET (1..0) |-> b], 0)
      <4>1. \A T \in SUBSET (1..0) : T = {}
        OBVIOUS
      <4> QED BY <4>1
    <3> QED BY <3>1
  <2>2. ASSUME NEW m \in 0..(n-1), m \in Good PROVE m + 1 \in Good
    <3>1. PICK g : Solves(g, m)
      BY <2>2
    <3> DEFINE f == [T \in SUBSET (1..(m+1)) |->
                       IF m + 1 \in T THEN Applied(g[T \ {m+1}], s[m+1]) ELSE g[T]]
    <3>2. ASSUME NEW T \in SUBSET (1..(m+1))
          PROVE f[T] = IF T = {} THEN b ELSE Applied(f[T \ {Max(T)}], s[Max(T)])
      <4>1. CASE T = {}
        <5>1. f[T] = g[T]
          BY <4>1
        <5>2. T \in SUBSET (1..m)
          BY <4>1
        <5> QED BY <3>1, <4>1, <5>1, <5>2
      <4>2. CASE m + 1 \in T
        <5>1. Max(T) = m + 1
          <6>1. m + 1 \in Nat /\ T # {}
            BY <4>2
          <6>2. Max(T) \in T /\ \A x \in T : x <= Max(T)
            BY <6>1, LastPosition
          <6>3. Max(T) \in 1..(m+1) /\ m + 1 <= Max(T)
            BY <6>2, <4>2
          <6> QED BY <6>3
        <5>2. T \ {m+1} \in SUBSET (1..(m+1)) /\ m + 1 \notin T \ {m+1}
          OBVIOUS
        <5>3. f[T] = Applied(g[T \ {m+1}], s[m+1])
          BY <4>2
        <5>4. f[T \ {m+1}] = g[T \ {m+1}]
          BY <5>2
        <5> QED BY <4>2, <5>1, <5>3, <5>4
      <4>3. CASE T # {} /\ m + 1 \notin T
        <5>1. T \in SUBSET (1..m)
          <6>1. \A x \in T : x \in 1..(m+1) /\ x # m + 1
            BY <4>3
          <6> QED BY <6>1
        <5>2. Max(T) \in T
          <6>1. m + 1 \in Nat
            OBVIOUS
          <6> QED BY <6>1, <4>3, LastPosition
        <5>3. f[T] = g[T] /\ f[T \ {Max(T)}] = g[T \ {Max(T)}]
          <6>1. T \ {Max(T)} \in SUBSET (1..(m+1)) /\ m + 1 \notin T \ {Max(T)}
            BY <4>3
          <6>2. f[T] = g[T]
            BY <4>3
          <6>3. f[T \ {Max(T)}] = g[T \ {Max(T)}]
            BY <6>1
          <6> QED BY <6>2, <6>3
        <5> HIDE DEF f
        <5> QED BY <3>1, <4>3, <5>1, <5>3
      <4> QED BY <4>1, <4>2, <4>3
    <3>3. Solves(f, m + 1)
      <4>1. f = [T \in SUBSET (1..(m+1)) |-> f[T]]
        OBVIOUS
      <4> HIDE DEF f
      <4> QED BY <3>2, <4>1
    <3>4. m + 1 \in 0..n
      OBVIOUS
    <3> HIDE DEF f
    <3> QED BY <3>3, <3>4
  <2>3. 0..n \subseteq Good
    <3> HIDE DEF Good
    <3> QED BY <2>1, <2>2, UpTo
  <2>4. n \in Good
    <3> HIDE DEF Good
    <3> QED BY <2>3
  <2> HIDE DEF Solves
  <2> QED BY <2>4
<1> DEFINE iter == CHOOSE g : Solves(g, n)
           h    == [k \in 0..n |-> iter[1..k]]
<1>3. Solves(iter, n)
  BY <1>2
<1> HIDE DEF iter
<1>4. h[0] = b
  <2>1. 1..0 = {} /\ 1..0 \in SUBSET (1..n) /\ 0 \in 0..n
    <3>1. 1..0 = {}
      OBVIOUS
    <3> QED BY <3>1
  <2>2. h[0] = iter[1..0]
    BY <2>1
  <2> QED BY <1>3, <2>1, <2>2
<1>5. ASSUME NEW k \in 1..n PROVE h[k] = Applied(h[k-1], s[k])
  <2>1. 1..k \in SUBSET (1..n) /\ 1..k # {} /\ k \in 1..k /\ k \in Nat
    <3>1. k \in 1..k /\ k \in Nat /\ \A x \in 1..k : x \in 1..n
      OBVIOUS
    <3> QED BY <3>1
  <2>2. Max(1..k) = k
    <3>1. Max(1..k) \in 1..k /\ \A x \in 1..k : x <= Max(1..k)
      BY <2>1, LastPosition
    <3> QED BY <2>1, <3>1
  <2>3. (1..k) \ {k} = 1..(k-1)
    OBVIOUS
  <2>4. h[k] = iter[1..k] /\ h[k-1] = iter[1..(k-1)]
    OBVIOUS
  <2>5. iter[1..k] = Applied(iter[(1..k) \ {Max(1..k)}], s[Max(1..k)])
    BY <1>3, <2>1
  <2> QED BY <2>2, <2>3, <2>4, <2>5
<1>6. \A k \in 0..n : h[k] \in B
  <2> DEFINE S == {k \in 0..n : h[k] \in B}
  <2>1. 0 \in S
    BY <1>4
  <2>2. \A k \in 0..(n-1) : k \in S => k + 1 \in S
    <3> SUFFICES ASSUME NEW k \in 0..(n-1), h[k] \in B PROVE k + 1 \in S
      OBVIOUS
    <3>1. k + 1 \in 1..n /\ (k + 1) - 1 = k /\ k + 1 \in 0..n
      OBVIOUS
    <3>2. h[k+1] = Applied(h[k], s[k+1])
      BY <1>5, <3>1
    <3> HIDE DEF h
    <3> QED BY <3>1, <3>2
  <2> HIDE DEF S
  <2>3. 0..n \subseteq S
    BY <2>1, <2>2, UpTo
  <2> QED BY <2>3 DEF S
<1>7. h \in [0..n -> B]
  <2>1. h = [k \in 0..n |-> h[k]]
    OBVIOUS
  <2> HIDE DEF h
  <2> QED BY <1>6, <2>1
<1>8. Burst(b, s) = h[n]
  <2>1. h[n] = iter[1..n]
    OBVIOUS
  <2> QED BY <1>1, <2>1 DEF iter, Burst
<1> HIDE DEF h
<1> QED BY <1>4, <1>5, <1>7, <1>8 DEF Loops

(***************************************************************************)
(* The type invariant                                                      *)
(***************************************************************************)
\* The values of the optional fields.
LEMMA NoneIsApart ==
  /\ None \notin Kinds /\ None \notin Ids /\ None \notin Ops /\ None \notin Pulls /\ None \notin Envelopes
  /\ None \notin Docs /\ None \notin Rows /\ None \notin Listing /\ None \notin Index
  /\ None \notin Entry /\ None \notin Listed
BY ConstantsOK DEF ConstantsOK, Envelopes

\* A burst of pull patches leaves documents, or none, in what is shown.
LEMMA BurstTyped ==
  ASSUME TypeOK
  PROVE  Burst(byId, pending) \in [Ids -> Optional(Docs)]
<1>1. pending \in [1..Len(pending) -> Change] /\ Len(pending) \in Nat
  BY DEF TypeOK
<1>2. ASSUME NEW x \in [Ids -> Optional(Docs)], NEW k \in 1..Len(pending)
      PROVE Applied(x, pending[k]) \in [Ids -> Optional(Docs)]
  <2>1. pending[k] \in Change
    BY <1>1
  <2>2. pending[k].doc \in Docs
    BY <2>1 DEF Change
  <2> QED BY <2>2 DEF Applied, Optional
<1> DEFINE B == [Ids -> Optional(Docs)]
           n == Len(pending)
<1>3. n \in Nat /\ DOMAIN pending = 1..n
  BY <1>1
<1>6. byId \in B
  BY DEF TypeOK
<1>7. \A x \in B, k \in 1..n : Applied(x, pending[k]) \in B
  BY <1>2
<1> HIDE DEF B, n
<1>4. PICK h \in [0..n -> B] : Burst(byId, pending) = h[n]
  BY <1>3, <1>6, <1>7, FoldIsLoop DEF Loops
<1>5. n \in 0..n
  BY <1>3
<1> QED BY <1>4, <1>5 DEF B

\* The parts of a well-typed record.
LEMMA CallFields ==
  ASSUME NEW c \in Call
  PROVE  /\ c.st \in {"new", "queued", "look", "put", "map", "patch", "bury", "done", "acked", "rejected"}
         /\ c.kind \in Optional(Kinds) /\ c.id \in Optional(Ids) /\ c.doc \in Optional(Docs)
         /\ c.store \in Nat /\ c.env \in Optional(Envelopes) /\ c.seen \in Optional(Listing)
         /\ c.at \in Nat
BY DEF Call

\* The parts of a queue's entry.
LEMMA EntryFields ==
  ASSUME NEW e \in Entry
  PROVE  /\ e.queue \in Seq(Ops) /\ e.latest \in Optional(Docs) /\ e.confirmed \in Optional(Docs)
         /\ e.moved \in BOOLEAN
BY DEF Entry

\* An entry a persist leaves is gone with its last call, else it keeps all but the head.
LEMMA SettledTyped ==
  ASSUME NEW e \in Entry, e.queue # <<>>
  PROVE  /\ Settled(e) \in Optional(Entry)
         /\ Settled(e) = None <=> Len(e.queue) = 1
         /\ Settled(e) # None => /\ Settled(e).queue = Tail(e.queue) /\ Settled(e).latest = e.latest
                                 /\ Settled(e).confirmed = e.confirmed /\ Settled(e).moved = e.moved
                                 /\ Settled(e) \in Entry
<1> DEFINE r == [e EXCEPT !.queue = Tail(@)]
<1>1. Tail(e.queue) \in Seq(Ops)
  BY EntryFields
<1>2. r \in Entry /\ r.queue = Tail(e.queue) /\ r.latest = e.latest /\ r.confirmed = e.confirmed
      /\ r.moved = e.moved
  BY <1>1 DEF Entry
<1>3. r # None
  BY <1>2, NoneIsApart
<1> QED BY <1>2, <1>3 DEF Settled, Optional

\* The queues of calls.
LEMMA QueueParts ==
  ASSUME NEW q \in Seq(Ops), q # <<>>
  PROVE  /\ Len(q) \in Nat /\ Len(q) >= 1 /\ DOMAIN q = 1..Len(q) /\ Head(q) = q[1] /\ Head(q) \in Ops
         /\ Tail(q) \in Seq(Ops) /\ Len(Tail(q)) = Len(q) - 1 /\ DOMAIN Tail(q) = 1..(Len(q) - 1)
         /\ \A k \in 1..(Len(q) - 1) : Tail(q)[k] = q[k + 1] /\ k + 1 \in DOMAIN q
         /\ Tail(q) = <<>> <=> Len(q) = 1
         /\ \A k \in DOMAIN q : q[k] \in Ops
<1>1. Len(q) \in Nat /\ Len(q) >= 1 /\ DOMAIN q = 1..Len(q) /\ Head(q) = q[1]
  OBVIOUS
<1>2. \A k \in DOMAIN q : q[k] \in Ops
  OBVIOUS
<1>3. Tail(q) \in Seq(Ops) /\ Len(Tail(q)) = Len(q) - 1
  OBVIOUS
<1>4. DOMAIN Tail(q) = 1..(Len(q) - 1)
  BY <1>3
<1>5. \A k \in 1..(Len(q) - 1) : Tail(q)[k] = q[k + 1]
  BY <1>3
<1>6. \A k \in 1..(Len(q) - 1) : k + 1 \in DOMAIN q
  BY <1>1
<1>7. Tail(q) = <<>> <=> Len(q) = 1
  <2>1. \A s \in Seq(Ops) : s = <<>> <=> Len(s) = 0
    OBVIOUS
  <2> QED BY <1>1, <1>3, <2>1
<1>8. Head(q) \in Ops
  BY <1>1, <1>2
<1> QED BY <1>1, <1>2, <1>3, <1>4, <1>5, <1>6, <1>7, <1>8

\* A call enqueued goes behind the calls queued.
LEMMA QueueAppend ==
  ASSUME NEW q \in Seq(Ops), NEW o \in Ops
  PROVE  /\ Append(q, o) \in Seq(Ops) /\ Append(q, o) # <<>> /\ Len(q) \in Nat
         /\ Len(Append(q, o)) = Len(q) + 1 /\ DOMAIN Append(q, o) = 1..(Len(q) + 1) /\ DOMAIN q = 1..Len(q)
         /\ \A k \in DOMAIN q : Append(q, o)[k] = q[k] /\ q[k] \in Ops
         /\ Append(q, o)[Len(q) + 1] = o
         /\ q # <<>> => Head(Append(q, o)) = Head(q)
         /\ q = <<>> => Head(Append(q, o)) = o
<1>1. Append(q, o) \in Seq(Ops) /\ Len(q) \in Nat /\ Len(Append(q, o)) = Len(q) + 1 /\ DOMAIN q = 1..Len(q)
      /\ Append(q, o)[Len(q) + 1] = o /\ DOMAIN Append(q, o) = 1..(Len(q) + 1)
  OBVIOUS
<1>2. \A k \in DOMAIN q : Append(q, o)[k] = q[k] /\ q[k] \in Ops
  OBVIOUS
<1>3. Append(q, o) # <<>> /\ Head(Append(q, o)) = Append(q, o)[1]
  BY <1>1
<1>4. q # <<>> => Head(Append(q, o)) = Head(q)
  <2> HAVE q # <<>>
  <2>1. 1 \in DOMAIN q /\ Head(q) = q[1]
    OBVIOUS
  <2> QED BY <1>2, <1>3, <2>1
<1>5. q = <<>> => Head(Append(q, o)) = o
  <2> HAVE q = <<>>
  <2>1. Len(q) = 0
    OBVIOUS
  <2> QED BY <1>1, <1>3, <2>1
<1> QED BY <1>1, <1>2, <1>3, <1>4, <1>5

\* The calls under way, and the entries they wait in.
LEMMA BusyCall ==
  ASSUME TypeOK, ShapeInv, NEW o \in Ops, Busy(o)
  PROVE  /\ ops[o] \in Call /\ ops[o].id \in Ids /\ ops[o].kind \in Kinds
         /\ inFlight[ops[o].id] \in Entry /\ inFlight[ops[o].id] # None
         /\ Queue(ops[o].id) \in Seq(Ops) /\ Queue(ops[o].id) # <<>>
         /\ Writes(o) => ops[o].doc \in Docs
         /\ ~Writes(o) => ops[o].doc = None
         /\ \E k \in DOMAIN Queue(ops[o].id) : Queue(ops[o].id)[k] = o
<1>1. CallShape(o)
  BY DEF ShapeInv
<1>2. ops[o] \in Call
  BY DEF TypeOK
<1>3. ops[o].st # "new"
  BY DEF Busy
<1>4. ops[o].id \in Ids /\ ops[o].kind \in Kinds /\ (Writes(o) => ops[o].doc \in Docs) /\ (~Writes(o) => ops[o].doc = None)
  BY <1>1, <1>2, <1>3, CallFields DEF CallShape, Optional
<1>5. inFlight[ops[o].id] \in Entry /\ inFlight[ops[o].id] # None
  BY <1>1, <1>4 DEF CallShape, TypeOK, Optional
<1>6. Queue(ops[o].id) \in Seq(Ops)
  BY <1>5, EntryFields DEF Queue
<1>7. Queue(ops[o].id) # <<>>
  BY <1>4, <1>5 DEF ShapeInv, QueueShape
<1>8. \E k \in DOMAIN Queue(ops[o].id) : Queue(ops[o].id)[k] = o
  <2>1. o \in Range(Queue(ops[o].id))
    BY <1>1 DEF CallShape
  <2> QED BY <2>1 DEF Range
<1> QED BY <1>2, <1>4, <1>5, <1>6, <1>7, <1>8

\* A call past its turn is the head of its queue.
LEMMA RunningCall ==
  ASSUME TypeOK, ShapeInv, NEW o \in Ops, Running(o)
  PROVE  /\ Busy(o) /\ Head(Queue(ops[o].id)) = o /\ Queue(ops[o].id)[1] = o
         /\ ops[o].store \in 1..stores /\ ops[o].store \in 1..MaxStores
<1>1. CallShape(o)
  BY DEF ShapeInv
<1>2. Busy(o)
  BY DEF Running, Busy
<1>3. stores \in Nat /\ MaxStores \in Nat /\ stores <= MaxStores
  BY ConstantsOK DEF ConstantsOK, TypeOK
<1> QED BY <1>1, <1>2, <1>3, BusyCall, QueueParts DEF CallShape

\* Every step keeps the state well typed.
LEMMA TypeStep == TypeOK /\ ShapeInv /\ [Next]_vars => TypeOK'
<1> SUFFICES ASSUME TypeOK, ShapeInv, [Next]_vars PROVE TypeOK'
  OBVIOUS
<1>a. MaxStores \in Nat /\ stores \in Nat /\ stores <= MaxStores /\ ops \in [Ops -> Call]
      /\ inFlight \in [Ids -> Optional(Entry)] /\ byId \in [Ids -> Optional(Docs)]
      /\ index \in [1..MaxStores -> Optional(Index)] /\ rows \in [1..MaxStores -> Listing]
      /\ clock \in Nat /\ clashes \subseteq Crossings
  BY ConstantsOK DEF ConstantsOK, TypeOK
<1>b. \A s : Open(s) => s \in 1..MaxStores
  BY <1>a DEF Open, TypeOK
<1>c. \A c, happens : c \in Crossings => Crossed(c, happens) \subseteq Crossings
  BY DEF Crossed
<1>d. {"rewrite", "list", "rollback", "overtaken", "outlived", "twin"} = Crossings
  BY DEF Crossings
<1>e. \A S, e : e \in Optional(S) <=> e \in S \/ e = None
  BY DEF Optional
<1>f. ASSUME NEW o \in Ops, NEW r \in Call, ops' = [ops EXCEPT ![o] = r] PROVE ops' \in [Ops -> Call]
  BY <1>a, <1>f
<1>g. \A o \in Ops : ops[o] \in Call
  BY <1>a
<1>1. ASSUME NEW o \in Ops, NEW kind \in Kinds, NEW i \in Ids, Issue(o, kind, i) PROVE TypeOK'
  <2> DEFINE doc == IF kind = "remove" THEN None ELSE [id |-> i, ts |-> clock + 1, src |-> o]
             entry == [Entered(i) EXCEPT !.queue = Append(@, o)]
             r == [NewCall EXCEPT !.st = "queued", !.kind = kind, !.id = i, !.doc = doc]
  <2>1. doc \in Optional(Docs)
    BY <1>a DEF Docs, Optional
  <2>2. Entered(i) \in Entry
    <3>1. byId[i] \in Optional(Docs) /\ (Outstanding(i) # {}) \in BOOLEAN /\ <<>> \in Seq(Ops)
      BY <1>a
    <3>2. [queue |-> <<>>, latest |-> byId[i], confirmed |-> byId[i], moved |-> Outstanding(i) # {}] \in Entry
      BY <3>1 DEF Entry
    <3>3. inFlight[i] # None => inFlight[i] \in Entry
      BY <1>a DEF Optional
    <3> QED BY <3>2, <3>3 DEF Entered
  <2>3. entry \in Entry
    <3>1. Append(Entered(i).queue, o) \in Seq(Ops)
      BY <2>2, EntryFields, QueueAppend
    <3> QED BY <2>2, <3>1 DEF Entry
  <2>4. [entry EXCEPT !.latest = doc] \in Entry
    BY <2>1, <2>3 DEF Entry
  <2>5. r \in Call
    BY <2>1 DEF NewCall, Call, Optional
  <2>6. ops' = [ops EXCEPT ![o] = r]
    BY <1>1 DEF Issue
  <2>7. \/ inFlight' = [inFlight EXCEPT ![i] = entry] /\ byId' = byId
        \/ inFlight' = [inFlight EXCEPT ![i] = [entry EXCEPT !.latest = doc]] /\ byId' = [byId EXCEPT ![i] = doc]
    BY <1>1 DEF Issue
  <2>8. clashes' \subseteq Crossings
    BY <1>1, <1>a, <1>c, <1>d DEF Issue
  <2>9. clock' = clock + 1 /\ UNCHANGED <<pending, rows, index, attached, stores, closing, swap, listing, timer,
                                        events, pulled, faults, lists>>
    BY <1>1 DEF Issue, held, lives, feed
  <2> HIDE DEF doc, entry, r
  <2>10. ops' \in [Ops -> Call] /\ inFlight' \in [Ids -> Optional(Entry)] /\ byId' \in [Ids -> Optional(Docs)]
    BY <1>a, <1>e, <2>1, <2>3, <2>4, <2>5, <2>6, <2>7
  <2> QED BY <1>a, <2>8, <2>9, <2>10 DEF TypeOK
<1>2. ASSUME NEW o \in Ops, Start(o) PROVE TypeOK'
  <2>1. attached \in Nat
    BY DEF TypeOK
  <2>2. ops' \in [Ops -> Call]
    <3> DEFINE r == [ops[o] EXCEPT !.st = IF ops[o].kind = "insert" THEN "put" ELSE "look", !.store = attached]
    <3>1. r \in Call
      BY <1>g, <2>1 DEF Call, Optional
    <3>2. ops' = [ops EXCEPT ![o] = r]
      BY <1>2 DEF Start
    <3> HIDE DEF r
    <3> QED BY <1>f, <3>1, <3>2
  <2> QED BY <1>2, <2>2 DEF Start, TypeOK, store, held, lives, feed
<1>3. ASSUME NEW o \in Ops, ListForIndex(o) PROVE TypeOK'
  <2>1. rows[ops[o].store] \in Listing
    BY <1>3, <1>a, <1>b DEF ListForIndex
  <2>2. ops' \in [Ops -> Call]
    <3> DEFINE r == [ops[o] EXCEPT !.seen = rows[ops[o].store]]
    <3>1. r \in Call
      BY <1>g, <2>1 DEF Call, Optional
    <3>2. ops' = [ops EXCEPT ![o] = r]
      BY <1>3 DEF ListForIndex
    <3> HIDE DEF r
    <3> QED BY <1>f, <3>1, <3>2
  <2> QED BY <1>3, <2>2 DEF ListForIndex, TypeOK, store, held, lives, feed
<1>4. ASSUME NEW seen, seen \in Listing, NEW s \in 1..MaxStores PROVE ListIndex(s, seen) \in Index
  <2>1. \A i \in Ids : OneOf(LiveOf(seen, i)) \in Optional(Envelopes)
    BY DEF OneOf, LiveOf, Live, Optional
  <2>2. IndexOf(seen) \in [Ids -> Optional(Envelopes)]
    BY <2>1 DEF IndexOf
  <2>3. index[s] = None \/ index[s].at \in Nat
    <3>1. index[s] = None \/ index[s] \in Index
      BY <1>a DEF Optional
    <3> QED BY <3>1 DEF Index
  <2>4. [at |-> IF index[s] = None THEN 1 ELSE index[s].at + 1, of |-> IndexOf(seen)] \in Index
    BY <2>2, <2>3 DEF Index
  <2> QED BY <2>4 DEF ListIndex
<1>5. ASSUME NEW o \in Ops, SetIndex(o) PROVE TypeOK'
  <2>1. ops[o].seen \in Listing
    BY <1>5, <1>a, <1>e, CallFields DEF SetIndex
  <2>2. index' \in [1..MaxStores -> Optional(Index)]
    BY <1>5, <1>a, <1>e, <1>4, <2>1 DEF SetIndex
  <2>3. ops' \in [Ops -> Call]
    <3> DEFINE r == [ops[o] EXCEPT !.seen = None]
    <3>1. r \in Call
      BY <1>g DEF Call, Optional
    <3>2. ops' = [ops EXCEPT ![o] = r]
      BY <1>5 DEF SetIndex
    <3> HIDE DEF r
    <3> QED BY <1>f, <3>1, <3>2
  <2>4. clashes' \subseteq Crossings
    <3>1. clashes' = clashes \cup Crossed("list", Outdated(ops[o].store, ops[o].seen))
      BY <1>5 DEF SetIndex
    <3>2. Crossed("list", Outdated(ops[o].store, ops[o].seen)) \subseteq Crossings
      BY <1>c, <1>d
    <3> QED BY <1>a, <3>1, <3>2
  <2> QED BY <1>5, <2>2, <2>3, <2>4 DEF SetIndex, TypeOK, store, lives, feed
<1>6. ASSUME NEW o \in Ops, Look(o) PROVE TypeOK'
  <2> DEFINE s == ops[o].store
             i == ops[o].id
             e == index[s].of[i]
             found == e # None /\ rows[s][e] # None /\ ~rows[s][e].dead
             env == IF found THEN e ELSE None
             st == CASE ops[o].kind = "remove" -> IF found THEN "bury" ELSE "done"
                     [] OTHER -> IF found THEN "patch" ELSE "put"
  <2>1. s \in 1..MaxStores /\ index[s] # None
    BY <1>6, <1>b DEF Look, Ready
  <2>2. index[s] \in Index
    BY <1>a, <1>e, <2>1
  <2>3. i \in Ids
    BY <1>6, BusyCall DEF Look, Ready, Busy
  <2>4. env \in Optional(Envelopes) /\ index[s].at \in Nat
    BY <1>e, <2>2, <2>3 DEF Index
  <2>5. st \in {"bury", "done", "patch", "put"}
    OBVIOUS
  <2>6. ops' = [ops EXCEPT ![o].env = env, ![o].at = index[s].at, ![o].st = st]
    BY <1>6 DEF Look
  <2>7. index' = index \/ index' = [index EXCEPT ![s].of[i] = None]
    BY <1>6 DEF Look
  <2> HIDE DEF s, i, env, st, found
  <2>8. ops' \in [Ops -> Call]
    <3> DEFINE r == [ops[o] EXCEPT !.env = env, !.at = index[s].at, !.st = st]
    <3>1. r \in Call
      BY <1>g, <2>4, <2>5 DEF Call
    <3>2. ops' = [ops EXCEPT ![o] = r]
      BY <2>6
    <3> HIDE DEF r
    <3> QED BY <1>f, <3>1, <3>2
  <2>9. index' \in [1..MaxStores -> Optional(Index)]
    <3>1. [index[s] EXCEPT !.of[i] = None] \in Index
      BY <2>2, <1>e DEF Index
    <3> QED BY <1>a, <1>e, <2>7, <3>1
  <2> QED BY <1>6, <2>8, <2>9 DEF Look, TypeOK, store, lives, feed
<1>7. ASSUME NEW o \in Ops, Put(o) PROVE TypeOK'
  <2> DEFINE s == ops[o].store
             r == [doc |-> ops[o].doc, dead |-> FALSE]
  <2>1. s \in 1..MaxStores /\ rows[s] \in Listing
    BY <1>7, <1>a, <1>b DEF Put
  <2>2. ops[o].doc \in Docs /\ o \in Envelopes
    BY <1>7, BusyCall DEF Put, Busy, ShapeInv, CallShape, Envelopes
  <2>3. r \in Rows
    BY <2>2 DEF Rows
  <2>4. [rows[s] EXCEPT ![o] = r] \in Listing
    BY <1>e, <2>1, <2>2, <2>3 DEF Listing
  <2>5. rows' \in [1..MaxStores -> Listing]
    <3>1. rows' = [rows EXCEPT ![s] = [rows[s] EXCEPT ![o] = r]]
      BY <1>7 DEF Put
    <3> HIDE DEF s, r
    <3> QED BY <1>a, <2>4, <3>1
  <2>6. ops' \in [Ops -> Call]
    <3> DEFINE c == [ops[o] EXCEPT !.st = "map", !.env = o]
    <3>1. c \in Call
      BY <1>g, <2>2 DEF Call, Optional
    <3>2. ops' = [ops EXCEPT ![o] = c]
      BY <1>7 DEF Put
    <3> HIDE DEF c
    <3> QED BY <1>f, <3>1, <3>2
  <2>7. clashes' \subseteq Crossings
    BY <1>7, <1>a, <1>c, <1>d DEF Put
  <2> QED BY <1>7, <2>5, <2>6, <2>7 DEF Put, TypeOK, store, lives, feed
<1>8. ASSUME NEW o \in Ops, MapEnvelope(o) PROVE TypeOK'
  <2> DEFINE s == ops[o].store
             i == ops[o].id
  <2>1. Running(o) /\ index[s] # None
    BY <1>8 DEF MapEnvelope, Ready, Running
  <2>2. s \in 1..MaxStores /\ i \in Ids /\ index[s] \in Index
    BY <1>a, <1>e, <2>1, RunningCall, BusyCall
  <2>3. ops[o].env \in Optional(Envelopes)
    BY <1>a, CallFields
  <2>4. [index[s] EXCEPT !.of[i] = ops[o].env] \in Index
    BY <2>2, <2>3 DEF Index
  <2>5. index' \in [1..MaxStores -> Optional(Index)]
    BY <1>8, <1>a, <1>e, <2>4 DEF MapEnvelope
  <2>6. ops' \in [Ops -> Call]
    <3> DEFINE r == [ops[o] EXCEPT !.st = "done"]
    <3>1. r \in Call
      BY <1>g DEF Call, Optional
    <3>2. ops' = [ops EXCEPT ![o] = r]
      BY <1>8 DEF MapEnvelope
    <3> HIDE DEF r
    <3> QED BY <1>f, <3>1, <3>2
  <2>7. clashes' \subseteq Crossings
    BY <1>8, <1>a, <1>c, <1>d DEF MapEnvelope
  <2> QED BY <1>8, <2>5, <2>6, <2>7 DEF MapEnvelope, TypeOK, store, lives, feed
<1>9. ASSUME NEW o \in Ops, NEW s \in 1..MaxStores, s = ops[o].store, NEW e \in Envelopes, e = ops[o].env,
             ops[o].st \in {"patch", "bury"}
      PROVE  /\ rows[s][e] \in Rows /\ rows[s] \in Listing
             /\ [rows[s] EXCEPT ![e].dead = TRUE] \in Listing
             /\ ops[o].doc \in Docs => [rows[s] EXCEPT ![e].doc = ops[o].doc] \in Listing
  <2>1. rows[s][e] # None
    BY <1>9, NoneIsApart DEF ShapeInv, CallShape, Running
  <2>2. rows[s] \in Listing /\ rows[s][e] \in Rows
    BY <1>a, <1>e, <2>1 DEF Listing
  <2>3. [rows[s][e] EXCEPT !.dead = TRUE] \in Rows
    BY <2>2 DEF Rows
  <2>4. ops[o].doc \in Docs => [rows[s][e] EXCEPT !.doc = ops[o].doc] \in Rows
    BY <2>2 DEF Rows
  <2> QED BY <1>e, <2>2, <2>3, <2>4 DEF Listing
<1>10. ASSUME NEW o \in Ops, Patch(o) PROVE TypeOK'
  <2> DEFINE s == ops[o].store
             e == ops[o].env
  <2>1. s \in 1..MaxStores /\ e \in Envelopes /\ ops[o].doc \in Docs
    <3>1. e \in Envelopes
      BY <1>10, <1>a, <1>e, CallFields DEF Patch, ShapeInv, CallShape
    <3>2. ops[o].doc \in Docs
      BY <1>10, BusyCall DEF Patch, Busy, ShapeInv, CallShape
    <3> QED BY <1>10, <1>b, <3>1, <3>2 DEF Patch
  <2>2. [rows[s] EXCEPT ![e].doc = ops[o].doc] \in Listing
    BY <1>9, <1>10, <2>1 DEF Patch
  <2>3. rows' = [rows EXCEPT ![s] = [rows[s] EXCEPT ![e].doc = ops[o].doc]]
    BY <1>10 DEF Patch
  <2> HIDE DEF s, e
  <2>4. rows' \in [1..MaxStores -> Listing]
    BY <1>a, <2>2, <2>3
  <2>5. ops' \in [Ops -> Call]
    <3> DEFINE r == [ops[o] EXCEPT !.st = "done"]
    <3>1. r \in Call
      BY <1>g DEF Call, Optional
    <3>2. ops' = [ops EXCEPT ![o] = r]
      BY <1>10 DEF Patch
    <3> HIDE DEF r
    <3> QED BY <1>f, <3>1, <3>2
  <2> QED BY <1>10, <2>4, <2>5 DEF Patch, TypeOK, store, lives, feed
<1>11. ASSUME NEW o \in Ops, Bury(o) PROVE TypeOK'
  <2> DEFINE s == ops[o].store
             e == ops[o].env
  <2>1. s \in 1..MaxStores /\ e \in Envelopes
    <3>1. e \in Envelopes
      BY <1>11, <1>a, <1>e, CallFields DEF Bury, ShapeInv, CallShape
    <3> QED BY <1>11, <1>b, <3>1 DEF Bury
  <2>2. [rows[s] EXCEPT ![e].dead = TRUE] \in Listing
    BY <1>9, <1>11, <2>1 DEF Bury
  <2>3. rows' = [rows EXCEPT ![s] = [rows[s] EXCEPT ![e].dead = TRUE]]
    BY <1>11 DEF Bury
  <2>4. index' \in [1..MaxStores -> Optional(Index)]
    <3>1. index' = index \/ (index[s] # None /\ index' = [index EXCEPT ![s].of[ops[o].id] = None])
      BY <1>11 DEF Bury, Mapped
    <3>2. index[s] # None => [index[s] EXCEPT !.of[ops[o].id] = None] \in Index
      <4>1. index[s] # None => index[s] \in Index
        BY <1>a, <2>1 DEF Optional
      <4> QED BY <4>1 DEF Index, Optional
    <3> HIDE DEF s
    <3> QED BY <1>a, <1>e, <3>1, <3>2
  <2>5. ops' \in [Ops -> Call]
    <3> DEFINE r == [ops[o] EXCEPT !.st = "done"]
    <3>1. r \in Call
      BY <1>g DEF Call, Optional
    <3>2. ops' = [ops EXCEPT ![o] = r]
      BY <1>11 DEF Bury
    <3> HIDE DEF r
    <3> QED BY <1>f, <3>1, <3>2
  <2> HIDE DEF s, e
  <2>6. rows' \in [1..MaxStores -> Listing]
    BY <1>a, <2>2, <2>3
  <2> QED BY <1>11, <2>4, <2>5, <2>6 DEF Bury, TypeOK, store, lives, feed
<1>12. ASSUME NEW o \in Ops, Finish(o) PROVE TypeOK'
  <2> DEFINE i == ops[o].id
             e == inFlight[i]
  <2>1. i \in Ids /\ e \in Entry /\ e.queue # <<>> /\ (ops[o].kind # "remove" => ops[o].doc \in Docs)
    BY <1>12, BusyCall DEF Finish, Busy, Queue, Writes
  <2>2. [e EXCEPT !.latest = None, !.confirmed = None] \in Entry
    BY <1>e, <2>1 DEF Entry
  <2>3. ops[o].kind # "remove" => [e EXCEPT !.confirmed = ops[o].doc] \in Entry
    BY <1>e, <2>1 DEF Entry
  <2>4. \/ /\ inFlight' = [inFlight EXCEPT ![i] = Settled([e EXCEPT !.latest = None, !.confirmed = None])]
           /\ byId' = [byId EXCEPT ![i] = None]
        \/ /\ inFlight' = [inFlight EXCEPT ![i] = Settled([e EXCEPT !.confirmed = ops[o].doc])]
           /\ byId' = byId /\ ops[o].kind # "remove"
    BY <1>12 DEF Finish
  <2>5. /\ [e EXCEPT !.latest = None, !.confirmed = None].queue # <<>>
        /\ [e EXCEPT !.confirmed = ops[o].doc].queue # <<>>
    BY <2>1 DEF Entry
  <2>6. /\ Settled([e EXCEPT !.latest = None, !.confirmed = None]) \in Optional(Entry)
        /\ ops[o].kind # "remove" => Settled([e EXCEPT !.confirmed = ops[o].doc]) \in Optional(Entry)
    BY <2>2, <2>3, <2>5, SettledTyped
  <2> HIDE DEF i, e
  <2>7. inFlight' \in [Ids -> Optional(Entry)] /\ byId' \in [Ids -> Optional(Docs)]
    BY <1>a, <1>e, <2>4, <2>6
  <2>8. ops' \in [Ops -> Call]
    <3> DEFINE r == [ops[o] EXCEPT !.st = "acked"]
    <3>1. r \in Call
      BY <1>g DEF Call, Optional
    <3>2. ops' = [ops EXCEPT ![o] = r]
      BY <1>12 DEF Finish
    <3> HIDE DEF r
    <3> QED BY <1>f, <3>1, <3>2
  <2>9. clashes' \subseteq Crossings
    BY <1>12, <1>a, <1>c, <1>d DEF Finish
  <2> QED BY <1>12, <2>7, <2>8, <2>9 DEF Finish, TypeOK, held, lives, feed
<1>13. ASSUME NEW o \in Ops, Rejects(o) PROVE TypeOK'
  <2> DEFINE i == ops[o].id
             e == inFlight[i]
             back == ops[o].kind # "remove" /\ e.latest = ops[o].doc
             f == IF back THEN [e EXCEPT !.latest = e.confirmed] ELSE e
  <2>1. i \in Ids /\ e \in Entry /\ e.queue # <<>>
    BY <1>13, BusyCall DEF Rejects, Turn, NeedsIndex, Busy, Queue
  <2>2. f \in Entry /\ f.queue # <<>> /\ e.confirmed \in Optional(Docs)
    BY <2>1 DEF Entry
  <2>3. Settled(f) \in Optional(Entry)
    BY <2>2, SettledTyped
  <2>4. inFlight' = [inFlight EXCEPT ![i] = Settled(f)] /\ (byId' = [byId EXCEPT ![i] = e.confirmed] \/ byId' = byId)
    BY <1>13 DEF Rejects
  <2>5. faults' \in Nat
    BY <1>13 DEF Rejects, TypeOK
  <2>6. ops' \in [Ops -> Call]
    <3> DEFINE r == [ops[o] EXCEPT !.st = "rejected", !.seen = None]
    <3>1. r \in Call
      BY <1>g DEF Call, Optional
    <3>2. ops' = [ops EXCEPT ![o] = r]
      BY <1>13 DEF Rejects
    <3> HIDE DEF r
    <3> QED BY <1>f, <3>1, <3>2
  <2>7. clashes' \subseteq Crossings
    BY <1>13, <1>a, <1>c, <1>d DEF Rejects
  <2> HIDE DEF i, e, f
  <2>8. inFlight' \in [Ids -> Optional(Entry)] /\ byId' \in [Ids -> Optional(Docs)]
    BY <1>a, <1>e, <2>2, <2>3, <2>4
  <2> QED BY <1>13, <2>5, <2>6, <2>7, <2>8 DEF Rejects, TypeOK, held, lives, feed
<1>14. ASSUME NEW e \in Envelopes, NEW doc \in Docs, NEW dead \in BOOLEAN, attached # 0, Install(e, doc, dead)
       PROVE  /\ rows' \in [1..MaxStores -> Listing] /\ events' \subseteq Change
              /\ inFlight' \in [Ids -> Optional(Entry)] /\ clashes' \subseteq Crossings
  <2> DEFINE r == [doc |-> doc, dead |-> dead]
             c == [store |-> attached, env |-> e, doc |-> doc, dead |-> dead]
  <2>1. r \in Rows /\ attached \in 1..MaxStores
    BY <1>14, <1>a DEF Rows, TypeOK
  <2>2. c \in Change
    BY <2>1 DEF Change
  <2>3. [rows[attached] EXCEPT ![e] = r] \in Listing
    BY <1>a, <1>e, <2>1 DEF Listing
  <2>4. \A entry \in Optional(Entry) : Moved(entry) \in Optional(Entry)
    BY DEF Moved, Entry, Optional
  <2>5. rows' = [rows EXCEPT ![attached] = [rows[attached] EXCEPT ![e] = r]] /\ events' = events \cup {c}
        /\ inFlight' = [inFlight EXCEPT ![doc.id] = Moved(@)]
    BY <1>14 DEF Install
  <2>6. clashes' \subseteq Crossings
    BY <1>14, <1>a, <1>c, <1>d DEF Install
  <2> HIDE DEF r, c
  <2> QED BY <1>a, <2>2, <2>3, <2>4, <2>5, <2>6 DEF TypeOK
<1>15. ASSUME NEW p \in Pulls, Pull(p) PROVE TypeOK'
  <2>1. attached # 0 /\ attached \in 1..MaxStores /\ rows[attached] \in Listing
    <3>1. attached # 0 /\ attached \in 0..stores
      BY <1>15 DEF Pull, TypeOK
    <3>2. attached \in 1..MaxStores
      BY <1>a, <3>1
    <3> QED BY <1>a, <3>1, <3>2
  <2>2. \A e \in Live(rows[attached]) : e \in Envelopes /\ rows[attached][e].doc \in Docs
    <3> SUFFICES ASSUME NEW e \in Live(rows[attached]) PROVE e \in Envelopes /\ rows[attached][e].doc \in Docs
      OBVIOUS
    <3>1. e \in Envelopes /\ rows[attached][e] # None
      BY DEF Live
    <3>2. rows[attached][e] \in Rows
      BY <1>e, <2>1, <3>1 DEF Listing
    <3> QED BY <3>1, <3>2 DEF Rows
  <2>3. \E e \in Envelopes, doc \in Docs, dead \in BOOLEAN : Install(e, doc, dead)
    <3>1. CASE \E i \in Ids, ts \in 0..clock : Install(p, [id |-> i, ts |-> ts, src |-> p], FALSE)
      <4>1. PICK i \in Ids, ts \in 0..clock : Install(p, [id |-> i, ts |-> ts, src |-> p], FALSE)
        BY <3>1
      <4>2. [id |-> i, ts |-> ts, src |-> p] \in Docs /\ p \in Envelopes
        BY <1>a DEF Docs, Envelopes
      <4> HIDE DEF Install
      <4> QED BY <4>1, <4>2
    <3>2. CASE \E e \in Live(rows[attached]), ts \in 0..clock :
                  Install(e, [rows[attached][e].doc EXCEPT !.ts = ts, !.src = p], FALSE)
      <4>1. PICK e \in Live(rows[attached]), ts \in 0..clock :
                Install(e, [rows[attached][e].doc EXCEPT !.ts = ts, !.src = p], FALSE)
        BY <3>2
      <4>2. [rows[attached][e].doc EXCEPT !.ts = ts, !.src = p] \in Docs
        <5>1. rows[attached][e].doc \in Docs /\ ts \in Nat /\ p \in Ops \cup Pulls
          BY <1>a, <2>2
        <5> QED BY <5>1 DEF Docs
      <4> QED BY <2>2, <4>1, <4>2
    <3>3. CASE \E e \in Live(rows[attached]) : Install(e, rows[attached][e].doc, TRUE)
      BY <2>2, <3>3
    <3> QED BY <1>15, <3>1, <3>2, <3>3 DEF Pull
  <2>4. /\ rows' \in [1..MaxStores -> Listing] /\ events' \subseteq Change
        /\ inFlight' \in [Ids -> Optional(Entry)] /\ clashes' \subseteq Crossings
    BY <1>14, <2>1, <2>3
  <2>5. pulled' \subseteq Pulls
    BY <1>15 DEF Pull, TypeOK
  <2> QED BY <1>15, <2>4, <2>5 DEF Pull, TypeOK, lives
<1>16. ASSUME NEW c \in events, Deliver(c) PROVE TypeOK'
  <2>1. c \in Change /\ c.env \in Envelopes
    BY DEF TypeOK, Change
  <2>2. pending' \in Seq(Change)
    <3>1. pending' = pending \/ pending' = Append(pending, c)
      BY <1>16 DEF Deliver
    <3> QED BY <2>1, <3>1 DEF TypeOK
  <2>3. index' \in [1..MaxStores -> Optional(Index)]
    <3> DEFINE v == IF c.dead THEN None ELSE c.env
    <3>1. index' = index \/ (index[c.store] # None /\ index' = [index EXCEPT ![c.store].of[c.doc.id] = v])
      BY <1>16 DEF Deliver
    <3>2. ASSUME NEW x \in Index PROVE [x EXCEPT !.of[c.doc.id] = v] \in Index
      <4>1. v \in Optional(Envelopes)
        BY <1>e, <2>1
      <4> HIDE DEF v
      <4> QED BY <4>1 DEF Index
    <3>3. index' = index \/ (index[c.store] # None /\ index' = [index EXCEPT ![c.store] = [index[c.store] EXCEPT !.of[c.doc.id] = v]])
      BY <3>1
    <3>4. c.store \in 1..MaxStores /\ index[c.store] # None => index[c.store] \in Index
      BY <1>a DEF Optional
    <3> HIDE DEF v
    <3> QED BY <1>a, <1>e, <3>2, <3>3, <3>4
  <2>4. clashes' \subseteq Crossings
    BY <1>16, <1>a, <1>c, <1>d DEF Deliver
  <2> QED BY <1>16, <2>2, <2>3, <2>4 DEF Deliver, TypeOK, lives
<1>17. ASSUME NEW c \in events, Undecodable(c) PROVE TypeOK'
  BY <1>17 DEF Undecodable, TypeOK, store, held, lives
<1>18. CASE Flush
  <2>1. pending' \in Seq(Change) /\ byId' \in [Ids -> Optional(Docs)]
    BY <1>18, BurstTyped DEF Flush
  <2>2. clashes' \subseteq Crossings
    BY <1>18, <1>a, <1>c, <1>d DEF Flush
  <2> QED BY <1>18, <2>1, <2>2 DEF Flush, TypeOK, held, lives, feed
<1>19. CASE Rehydrate
  <2>1. listing' \in Optional(Listed)
    <3>1. attached # 0 /\ attached \in 0..stores
      BY <1>19 DEF Rehydrate, TypeOK
    <3>2. rows[attached] \in Listing /\ attached \in Nat
      BY <1>a, <3>1
    <3>3. [store |-> attached, seen |-> rows[attached]] \in Listed
      BY <3>2 DEF Listed
    <3> QED BY <1>19, <3>3 DEF Rehydrate, Optional
  <2>2. lists' \in Nat
    BY <1>19 DEF Rehydrate, TypeOK
  <2> QED BY <1>19, <2>1, <2>2 DEF Rehydrate, TypeOK, store, held, lives, feed
<1>20. CASE Hydrated
  <2>1. listing \in Listed /\ listing.seen \in Listing
    <3>1. listing \in Listed
      BY <1>20 DEF Hydrated, TypeOK, Optional
    <3> QED BY <3>1 DEF Listed
  <2>2. \A i \in Ids : DocIn(listing.seen, i) \in Optional(Docs)
    <3> SUFFICES ASSUME NEW i \in Ids, LiveOf(listing.seen, i) # {} PROVE DocIn(listing.seen, i) \in Docs
      BY <1>e DEF DocIn
    <3>1. OneOf(LiveOf(listing.seen, i)) \in LiveOf(listing.seen, i)
      BY DEF OneOf
    <3>2. ASSUME NEW e \in LiveOf(listing.seen, i) PROVE listing.seen[e].doc \in Docs
      <4>1. e \in Envelopes /\ listing.seen[e] # None
        BY DEF LiveOf, Live
      <4>2. listing.seen[e] \in Rows
        BY <1>e, <2>1, <4>1 DEF Listing
      <4> QED BY <4>2 DEF Rows
    <3> QED BY <3>1, <3>2 DEF DocIn
  <2>3. \A i \in Ids : inFlight[i] # None => inFlight[i].latest \in Optional(Docs)
    <3>1. \A i \in Ids : inFlight[i] # None => inFlight[i] \in Entry
      BY <1>a DEF Optional
    <3> QED BY <3>1, EntryFields
  <2>4. byId' \in [Ids -> Optional(Docs)]
    BY <1>20, <2>2, <2>3 DEF Hydrated
  <2>5. \A entry \in Optional(Entry) : Moved(entry) \in Optional(Entry)
    BY DEF Moved, Entry, Optional
  <2>6. inFlight' \in [Ids -> Optional(Entry)]
    BY <1>20, <1>a, <2>5 DEF Hydrated
  <2>7. index' \in [1..MaxStores -> Optional(Index)]
    BY <1>20, <1>a, <1>e, <1>4, <2>1 DEF Hydrated
  <2>8. clashes' \subseteq Crossings
    BY <1>20, <1>a, <1>c, <1>d DEF Hydrated
  <2> QED BY <1>20, <1>e, <2>4, <2>6, <2>7, <2>8 DEF Hydrated, TypeOK, lives, feed
<1>21. ASSUME NEW swaps \in BOOLEAN, Detach(swaps) PROVE TypeOK'
  <2>1. attached' \in 0..stores' /\ closing' \in 0..stores' /\ stores' \in 0..MaxStores
    BY <1>21, <1>a DEF Detach, TypeOK
  <2> QED BY <1>21, <2>1 DEF Detach, TypeOK, store, held, feed
<1>22. CASE CloseAndClear
  <2>1. byId' \in [Ids -> Optional(Docs)] /\ pending' \in Seq(Change) /\ clashes' \subseteq Crossings
    BY <1>22, <1>a, <1>c, <1>d, <1>e DEF CloseAndClear
  <2> QED BY <1>22, <1>a, <2>1 DEF CloseAndClear, TypeOK, held, feed
<1>23. CASE Attach
  <2>1. stores + 1 \in 1..MaxStores
    BY <1>23, <1>a DEF Attach
  <2>2. rows' \in [1..MaxStores -> Listing]
    <3>1. CASE swap /\ rows' = [rows EXCEPT ![stores + 1] = [e \in Envelopes |->
                                   IF e \in Live(rows[stores]) THEN rows[stores][e] ELSE None]]
      <4>1. rows[stores] \in Listing
        BY <1>a, <3>1 DEF ShapeInv
      <4>2. [e \in Envelopes |-> IF e \in Live(rows[stores]) THEN rows[stores][e] ELSE None] \in Listing
        BY <1>e, <4>1 DEF Listing
      <4> QED BY <1>a, <3>1, <4>2
    <3>2. CASE rows' = rows
      BY <1>a, <3>2
    <3>3. CASE \E p \in Pulls \ pulled, i \in Ids :
                 rows' = [rows EXCEPT ![stores + 1][p] = [doc |-> [id |-> i, ts |-> 0, src |-> p], dead |-> FALSE]]
      <4>1. PICK p \in Pulls \ pulled, i \in Ids :
                 rows' = [rows EXCEPT ![stores + 1][p] = [doc |-> [id |-> i, ts |-> 0, src |-> p], dead |-> FALSE]]
        BY <3>3
      <4> DEFINE r == [doc |-> [id |-> i, ts |-> 0, src |-> p], dead |-> FALSE]
      <4>2. r \in Rows /\ p \in Envelopes
        BY DEF Rows, Docs, Envelopes
      <4>3. rows' = [rows EXCEPT ![stores + 1] = [rows[stores + 1] EXCEPT ![p] = r]]
        BY <4>1
      <4> HIDE DEF r
      <4>4. [rows[stores + 1] EXCEPT ![p] = r] \in Listing
        BY <1>a, <1>e, <2>1, <4>2 DEF Listing
      <4> QED BY <1>a, <4>3, <4>4
    <3> QED BY <1>23, <3>1, <3>2, <3>3 DEF Attach
  <2>3. listing' \in Optional(Listed)
    <3>1. rows'[stores + 1] \in Listing /\ stores + 1 \in Nat
      BY <1>a, <2>1, <2>2
    <3>2. [store |-> stores + 1, seen |-> rows'[stores + 1]] \in Listed
      BY <3>1 DEF Listed
    <3> QED BY <1>23, <3>2 DEF Attach, Optional
  <2>4. pulled' \subseteq Pulls
    BY <1>23 DEF Attach, TypeOK
  <2>5. attached' \in 0..stores' /\ stores' \in 0..MaxStores /\ closing' \in 0..stores'
    BY <1>23, <2>1 DEF Attach, TypeOK
  <2> QED BY <1>23, <2>2, <2>3, <2>4, <2>5 DEF Attach, TypeOK, store
<1>24. CASE EndSwap
  BY <1>24 DEF EndSwap, TypeOK, store, held, feed
<1>25. CASE UNCHANGED vars
  BY <1>25 DEF TypeOK, vars, store, held, lives, feed
<1> QED BY <1>1, <1>2, <1>3, <1>5, <1>6, <1>7, <1>8, <1>10, <1>11, <1>12, <1>13,
  <1>15, <1>16, <1>17, <1>18, <1>19, <1>20, <1>21, <1>22, <1>23, <1>24, <1>25 DEF Next, Persist

(***************************************************************************)
(* The shape of calls and queues                                           *)
(***************************************************************************)
\* What a step may do to a call it does not take: its queue keeps it, rows stay.
LEMMA ShapeFrame ==
  ASSUME TypeOK, TypeOK', ShapeInv, NEW b \in Ops, ops'[b] = ops[b], clock' >= clock, stores' >= stores,
         Busy(b) => inFlight'[ops[b].id] # None /\ b \in Range(inFlight'[ops[b].id].queue),
         Running(b) => Head(inFlight'[ops[b].id].queue) = b,
         \A s \in 1..stores, e \in Envelopes : rows[s][e] # None => rows'[s][e] # None
  PROVE  CallShape(b)'
<1>1. CallShape(b)
  BY DEF ShapeInv
<1>2. clock \in Nat /\ clock' \in Nat /\ stores \in Nat /\ stores' \in Nat /\ ops[b] \in Call
  BY DEF TypeOK
<1>3. ops[b].st # "new" /\ Writes(b) => ops[b].doc.ts \in Nat
  <2> HAVE ops[b].st # "new" /\ Writes(b)
  <2>1. ops[b].doc \in Docs
    BY <1>1, <1>2, CallFields DEF CallShape, Optional
  <2> QED BY <2>1 DEF Docs
<1>4. ops[b].st # "new" /\ Writes(b) => /\ ops[b].doc # None /\ ops[b].doc.id = ops[b].id
                                        /\ ops[b].doc.src = b /\ ops[b].doc.ts <= clock'
  BY <1>1, <1>2, <1>3 DEF CallShape
<1>5. Running(b) => ops[b].store \in 1..stores' /\ ops[b].store \in 1..stores
  BY <1>1, <1>2 DEF CallShape
<1>6. ops[b].st \in {"done", "acked"} /\ Writes(b) => ops[b].env # None /\ ops[b].store \in 1..stores'
  BY <1>1, <1>2 DEF CallShape
<1>7. Running(b) /\ ops[b].env # None => rows'[ops[b].store][ops[b].env] # None
  BY <1>1, <1>2, <1>5, CallFields DEF CallShape, Optional
<1> QED BY <1>1, <1>4, <1>5, <1>6, <1>7 DEF CallShape, Busy, Running, Writes, Queue

\* The queues are kept, and at most the head of one of them moved on.
LEMMA ShapeSteps ==
  ASSUME TypeOK, TypeOK', ShapeInv, clock' >= clock, stores' >= stores, swap' => stores' # 0,
         \A i \in Ids : (inFlight'[i] = None <=> inFlight[i] = None)
                        /\ (inFlight[i] # None => inFlight'[i].queue = inFlight[i].queue),
         \A s \in 1..stores, e \in Envelopes : rows[s][e] # None => rows'[s][e] # None,
         \A b \in Ops : \/ ops'[b] = ops[b]
                        \/ /\ Busy(b) /\ Busy(b)' /\ Head(Queue(ops[b].id)) = b
                           /\ ops'[b].id = ops[b].id /\ CallShape(b)'
  PROVE  ShapeInv'
<1>1. ASSUME NEW b \in Ops PROVE CallShape(b)'
  <2>1. CASE ops'[b] = ops[b]
    <3>1. Busy(b) => inFlight'[ops[b].id] # None /\ inFlight'[ops[b].id].queue = Queue(ops[b].id)
      BY BusyCall DEF Queue
    <3>2. Busy(b) => b \in Range(Queue(ops[b].id))
      BY DEF ShapeInv, CallShape
    <3>3. Running(b) => Head(Queue(ops[b].id)) = b /\ Busy(b)
      BY RunningCall
    <3> QED BY <2>1, <3>1, <3>2, <3>3, ShapeFrame
  <2> QED BY <2>1
<1>2. ASSUME NEW i \in Ids PROVE QueueShape(i)'
  <2> DEFINE q == Queue(i)
  <2> SUFFICES ASSUME inFlight'[i] # None
               PROVE  /\ q # <<>>
                      /\ \A k \in DOMAIN q : /\ ops'[q[k]].st \notin {"new", "acked", "rejected"} /\ ops'[q[k]].id = i
                                             /\ k > 1 => ops'[q[k]].st = "queued"
                      /\ \A j, k \in DOMAIN q : j # k => q[j] # q[k]
    BY DEF QueueShape, Queue, Busy
  <2>1. inFlight[i] # None /\ Queue(i)' = q
    BY DEF Queue
  <2>2. inFlight[i] \in Entry
    BY <2>1 DEF TypeOK, Optional
  <2>3. q \in Seq(Ops)
    BY <2>2, EntryFields DEF Queue
  <2>4. /\ q # <<>>
        /\ \A k \in DOMAIN q : Busy(q[k]) /\ ops[q[k]].id = i /\ (k > 1 => ops[q[k]].st = "queued")
        /\ \A j, k \in DOMAIN q : j # k => q[j] # q[k]
    BY <2>1 DEF ShapeInv, QueueShape, Queue
  <2> HIDE DEF q
  <2>5. DOMAIN q = 1..Len(q) /\ Len(q) \in Nat /\ Head(q) = q[1] /\ 1 \in DOMAIN q
    BY <2>3, <2>4, QueueParts
  <2>6. ASSUME NEW k \in DOMAIN q
        PROVE  ops'[q[k]].st \notin {"new", "acked", "rejected"} /\ ops'[q[k]].id = i /\ (k > 1 => ops'[q[k]].st = "queued")
    <3>1. q[k] \in Ops
      BY <2>3, <2>4, QueueParts
    <3>2. CASE ops'[q[k]] = ops[q[k]]
      BY <2>4, <3>2 DEF Busy
    <3>3. CASE ops'[q[k]].st \notin {"new", "acked", "rejected"} /\ Head(Queue(ops[q[k]].id)) = q[k] /\ ops'[q[k]].id = ops[q[k]].id
      <4>1. q[1] = q[k]
        BY <2>4, <2>5, <3>3 DEF q
      <4>2. k = 1
        BY <2>4, <2>5, <4>1
      <4> QED BY <2>4, <3>3, <4>2
    <3> QED BY <3>1, <3>2, <3>3 DEF Busy
  <2> QED BY <2>1, <2>4, <2>6
<1> QED BY <1>1, <1>2 DEF ShapeInv

\* The call at the head of a queue settles.
LEMMA ShapeSettles ==
  ASSUME TypeOK, TypeOK', ShapeInv, NEW o \in Ops, Busy(o), Head(Queue(ops[o].id)) = o,
         NEW f \in Entry, f.queue = Queue(ops[o].id),
         inFlight' = [inFlight EXCEPT ![ops[o].id] = Settled(f)],
         \A b \in Ops : b # o => ops'[b] = ops[b],
         ~Busy(o)', CallShape(o)',
         UNCHANGED <<clock, stores, swap, rows>>
  PROVE  ShapeInv'
<1>i. PICK i \in Ids : i = ops[o].id
  BY BusyCall
<1>q. PICK q : q = Queue(i)
  OBVIOUS
<1>1. /\ inFlight[i] \in Entry /\ inFlight[i] # None /\ q \in Seq(Ops) /\ q # <<>>
      /\ f.queue = q /\ Head(q) = o /\ inFlight' = [inFlight EXCEPT ![i] = Settled(f)]
  BY <1>i, <1>q, BusyCall
<1>2. /\ \A k \in DOMAIN q : Busy(q[k]) /\ ops[q[k]].id = i /\ (k > 1 => ops[q[k]].st = "queued")
      /\ \A j, k \in DOMAIN q : j # k => q[j] # q[k]
  BY <1>1, <1>q DEF ShapeInv, QueueShape, Queue
<1>3. /\ inFlight'[i] = Settled(f) /\ (inFlight'[i] = None <=> Len(q) = 1)
      /\ inFlight'[i] # None => inFlight'[i].queue = Tail(q)
  <2>1. inFlight'[i] = Settled(f)
    BY <1>1 DEF TypeOK
  <2> QED BY <1>1, <2>1, SettledTyped
<1>4. \A j \in Ids : j # i => inFlight'[j] = inFlight[j]
  BY <1>1 DEF TypeOK
<1>5. /\ Len(q) \in Nat /\ Len(q) >= 1 /\ DOMAIN q = 1..Len(q) /\ q[1] = o
      /\ Tail(q) \in Seq(Ops) /\ DOMAIN Tail(q) = 1..(Len(q) - 1)
      /\ \A k \in 1..(Len(q) - 1) : Tail(q)[k] = q[k + 1] /\ k + 1 \in DOMAIN q
      /\ Tail(q) = <<>> <=> Len(q) = 1
      /\ \A k \in DOMAIN q : q[k] \in Ops
  BY <1>1, QueueParts
<1>9. clock' >= clock /\ stores' >= stores /\ \A s \in 1..stores, e \in Envelopes : rows[s][e] # None => rows'[s][e] # None
  BY DEF TypeOK
<1>6. ASSUME NEW b \in Ops, b # o PROVE CallShape(b)'
  <2>1. ops'[b] = ops[b]
    BY <1>6
  <2>2. CASE Busy(b) /\ ops[b].id = i
    <3>1. PICK k \in DOMAIN q : q[k] = b
      BY <2>2, BusyCall, <1>i, <1>q
    <3>2. k > 1 /\ k - 1 \in 1..(Len(q) - 1) /\ Tail(q)[k - 1] = b /\ ops[b].st = "queued"
      <4>1. k > 1
        BY <1>5, <1>6, <3>1
      <4>2. k - 1 \in 1..(Len(q) - 1) /\ (k - 1) + 1 = k
        BY <1>5, <3>1, <4>1
      <4> QED BY <1>2, <1>5, <3>1, <4>1, <4>2
    <3>3. inFlight'[i] # None /\ inFlight'[i].queue = Tail(q)
      BY <1>3, <1>5, <3>2
    <3>4. b \in Range(inFlight'[ops[b].id].queue)
      BY <1>5, <2>2, <3>2, <3>3 DEF Range
    <3>5. ~Running(b)
      BY <3>2 DEF Running
    <3> QED BY <1>5, <2>1, <2>2, <3>3, <3>4, <3>5, <1>9, ShapeFrame
  <2>3. CASE Busy(b) /\ ops[b].id # i
    <3>1. inFlight'[ops[b].id] = inFlight[ops[b].id] /\ inFlight[ops[b].id] # None
      BY <1>4, <2>3, BusyCall
    <3>2. b \in Range(Queue(ops[b].id))
      BY <2>3 DEF ShapeInv, CallShape
    <3>3. Running(b) => Head(Queue(ops[b].id)) = b
      BY RunningCall
    <3> QED BY <2>1, <3>1, <3>2, <3>3, <1>9, ShapeFrame DEF Queue
  <2>4. CASE ~Busy(b)
    <3>1. ~Running(b)
      BY <2>4 DEF Running, Busy
    <3> QED BY <2>1, <2>4, <3>1, <1>9, ShapeFrame
  <2> QED BY <2>2, <2>3, <2>4
<1>7. ASSUME NEW j \in Ids, j # i PROVE QueueShape(j)'
  <2>1. inFlight'[j] = inFlight[j] /\ QueueShape(j)
    BY <1>4, <1>7 DEF ShapeInv
  <2>2. inFlight[j] # None => \A k \in DOMAIN Queue(j) : Queue(j)[k] \in Ops /\ Queue(j)[k] # o
    <3> HAVE inFlight[j] # None
    <3>1. Queue(j) \in Seq(Ops) /\ Queue(j) # <<>>
      BY <2>1, EntryFields DEF TypeOK, Optional, Queue, QueueShape
    <3> QED BY <1>7, <2>1, <3>1, QueueParts, <1>i, <1>1 DEF QueueShape
  <2> QED BY <2>1, <2>2 DEF QueueShape, Queue, Busy
<1>8. QueueShape(i)'
  <2>0. inFlight'[i] # None => Queue(i)' = Tail(q)
    BY <1>3 DEF Queue
  <2> SUFFICES ASSUME inFlight'[i] # None
               PROVE  /\ Tail(q) # <<>>
                      /\ \A k \in DOMAIN Tail(q) : /\ ops'[Tail(q)[k]].st \notin {"new", "acked", "rejected"} /\ ops'[Tail(q)[k]].id = i
                                                   /\ k > 1 => ops'[Tail(q)[k]].st = "queued"
                      /\ \A j, k \in DOMAIN Tail(q) : j # k => Tail(q)[j] # Tail(q)[k]
    BY <2>0 DEF QueueShape, Busy
  <2>1. Tail(q) # <<>>
    BY <1>3, <1>5
  <2>2. ASSUME NEW k \in DOMAIN Tail(q)
        PROVE  k \in Nat /\ k + 1 \in DOMAIN q /\ Tail(q)[k] = q[k + 1] /\ k + 1 > 1 /\ q[k + 1] # o /\ q[k + 1] \in Ops
    <3>1. k \in 1..(Len(q) - 1)
      BY <1>5
    <3>2. k + 1 \in DOMAIN q /\ Tail(q)[k] = q[k + 1] /\ k + 1 > 1 /\ 1 \in DOMAIN q /\ k + 1 # 1
      BY <1>5, <3>1
    <3> QED BY <1>2, <1>5, <3>1, <3>2
  <2>3. ASSUME NEW k \in DOMAIN Tail(q)
        PROVE  ops'[Tail(q)[k]].st \notin {"new", "acked", "rejected"} /\ ops'[Tail(q)[k]].id = i /\ ops'[Tail(q)[k]].st = "queued"
    BY <1>2, <2>2 DEF Busy
  <2>4. ASSUME NEW j \in DOMAIN Tail(q), NEW k \in DOMAIN Tail(q), j # k
        PROVE  Tail(q)[j] # Tail(q)[k]
    BY <1>2, <2>2, <2>4
  <2> QED BY <2>1, <2>3, <2>4
<1> QED BY <1>6, <1>7, <1>8 DEF ShapeInv

\* A call under way takes its next step.
LEMMA ShapeMoves ==
  ASSUME TypeOK, TypeOK', ShapeInv, NEW o \in Ops, Busy(o), Head(Queue(ops[o].id)) = o,
         UNCHANGED <<inFlight, clock, stores, swap>>,
         \A s \in 1..stores, e \in Envelopes : rows[s][e] # None => rows'[s][e] # None,
         NEW r \in Call, ops' = [ops EXCEPT ![o] = r],
         r.id = ops[o].id, r.kind = ops[o].kind, r.doc = ops[o].doc, r.store \in 1..stores,
         \/ r.st = "look" /\ r.kind # "insert" /\ r.env = None
         \/ r.st = "put" /\ r.kind # "remove" /\ r.env = None /\ r.seen = None
         \/ r.st = "map" /\ r.kind # "remove" /\ r.env = o
         \/ r.st = "patch" /\ r.kind \notin {"remove", "insert"} /\ r.env # None /\ r.seen = None
         \/ r.st = "bury" /\ r.kind = "remove" /\ r.env # None /\ r.seen = None
         \/ r.st = "done" /\ (r.kind # "remove" => r.env # None) /\ r.seen = None,
         r.env # None => rows'[r.store][r.env] # None
  PROVE  ShapeInv'
<1>1. ops'[o] = r /\ \A b \in Ops : b # o => ops'[b] = ops[b]
  BY DEF TypeOK
<1>2. CallShape(o)
  BY DEF ShapeInv
<1>3. CallShape(o)' /\ Busy(o)'
  BY <1>1, <1>2 DEF CallShape, Busy, Running, Writes, Queue
<1>4. clock' >= clock /\ stores' >= stores /\ (swap' => stores' # 0)
  BY DEF TypeOK, ShapeInv
<1> QED BY <1>1, <1>3, <1>4, ShapeSteps

\* The rows of a replica, written.
LEMMA RowFields ==
  ASSUME TypeOK, NEW s \in 1..MaxStores, NEW e \in Envelopes, rows[s][e] # None
  PROVE  /\ rows[s][e] \in Rows /\ rows[s][e].doc \in Docs /\ rows[s][e].dead \in BOOLEAN
         /\ rows[s][e].doc.id \in Ids /\ rows[s][e].doc.ts \in Nat /\ rows[s][e].doc.src \in Envelopes
<1>1. rows[s] \in Listing
  BY DEF TypeOK
<1>2. rows[s][e] \in Rows
  BY <1>1 DEF Listing, Optional
<1>3. rows[s][e].doc \in Docs
  BY <1>2 DEF Rows
<1> QED BY <1>2, <1>3 DEF Rows, Docs, Envelopes

\* The three writes of the verbs, each to a row of its replica.
LEMMA PutWrites ==
  ASSUME TypeOK, ShapeInv, NEW o \in Ops, Put(o)
  PROVE  /\ ops[o].store \in 1..MaxStores /\ ops[o].doc \in Docs /\ o \in Envelopes
         /\ [doc |-> ops[o].doc, dead |-> FALSE] \in Rows
         /\ rows'[ops[o].store] = [rows[ops[o].store] EXCEPT ![o] = [doc |-> ops[o].doc, dead |-> FALSE]]
         /\ rows'[ops[o].store][o] = [doc |-> ops[o].doc, dead |-> FALSE] /\ rows'[ops[o].store][o] # None
         /\ \A e \in Envelopes : e # o => rows'[ops[o].store][e] = rows[ops[o].store][e]
         /\ \A s \in 1..MaxStores : s # ops[o].store => rows'[s] = rows[s]
<1>1. Running(o) /\ ops[o].kind # "remove"
  BY DEF Put, Running, ShapeInv, CallShape, Writes
<1>2. ops[o].store \in 1..MaxStores /\ ops[o].doc \in Docs /\ o \in Envelopes
  BY <1>1, RunningCall, BusyCall DEF Writes, Envelopes
<1>3. [doc |-> ops[o].doc, dead |-> FALSE] \in Rows
  BY <1>2 DEF Rows
<1>4. rows[ops[o].store] \in Listing /\ rows \in [1..MaxStores -> Listing]
  BY <1>2 DEF TypeOK
<1>5. rows' = [rows EXCEPT ![ops[o].store] = [rows[ops[o].store] EXCEPT ![o] = [doc |-> ops[o].doc, dead |-> FALSE]]]
  BY DEF Put
<1> QED BY <1>2, <1>3, <1>4, <1>5, NoneIsApart DEF Listing

\* Patch writes the call's document to the row it found, and no other row.
LEMMA PatchWrites ==
  ASSUME TypeOK, ShapeInv, NEW o \in Ops, Patch(o)
  PROVE  /\ ops[o].store \in 1..MaxStores /\ ops[o].doc \in Docs /\ ops[o].env \in Envelopes
         /\ rows[ops[o].store][ops[o].env] # None
         /\ rows'[ops[o].store][ops[o].env] = [doc |-> ops[o].doc, dead |-> rows[ops[o].store][ops[o].env].dead]
         /\ rows'[ops[o].store][ops[o].env] # None
         /\ \A e \in Envelopes : e # ops[o].env => rows'[ops[o].store][e] = rows[ops[o].store][e]
         /\ \A s \in 1..MaxStores : s # ops[o].store => rows'[s] = rows[s]
<1>1. Running(o) /\ ops[o].kind # "remove" /\ ops[o].env # None /\ rows[ops[o].store][ops[o].env] # None
  BY DEF Patch, Running, ShapeInv, CallShape, Writes
<1>2. ops[o].store \in 1..MaxStores /\ ops[o].doc \in Docs /\ ops[o].env \in Envelopes
  BY <1>1, RunningCall, BusyCall, CallFields DEF Writes, Optional
<1>3. rows[ops[o].store][ops[o].env] \in Rows
  BY <1>1, <1>2, RowFields
<1> DEFINE x == rows[ops[o].store][ops[o].env]
<1>4. [x EXCEPT !.doc = ops[o].doc] \in Rows /\ [x EXCEPT !.doc = ops[o].doc] = [doc |-> ops[o].doc, dead |-> x.dead]
  BY <1>2, <1>3 DEF Rows
<1>5. rows[ops[o].store] \in Listing /\ rows \in [1..MaxStores -> Listing]
  BY <1>2 DEF TypeOK
<1>6. rows' = [rows EXCEPT ![ops[o].store] = [rows[ops[o].store] EXCEPT ![ops[o].env] = [x EXCEPT !.doc = ops[o].doc]]]
  BY DEF Patch
<1> QED BY <1>1, <1>2, <1>4, <1>5, <1>6, NoneIsApart DEF Listing

\* Bury tombstones the row the call found, and no other row.
LEMMA BuryWrites ==
  ASSUME TypeOK, ShapeInv, NEW o \in Ops, Bury(o)
  PROVE  /\ ops[o].store \in 1..MaxStores /\ ops[o].env \in Envelopes
         /\ rows[ops[o].store][ops[o].env] # None
         /\ rows'[ops[o].store][ops[o].env] = [doc |-> rows[ops[o].store][ops[o].env].doc, dead |-> TRUE]
         /\ rows'[ops[o].store][ops[o].env] # None
         /\ \A e \in Envelopes : e # ops[o].env => rows'[ops[o].store][e] = rows[ops[o].store][e]
         /\ \A s \in 1..MaxStores : s # ops[o].store => rows'[s] = rows[s]
<1>1. Running(o) /\ ops[o].env # None /\ rows[ops[o].store][ops[o].env] # None
  BY DEF Bury, Running, ShapeInv, CallShape, Writes
<1>2. ops[o].store \in 1..MaxStores /\ ops[o].env \in Envelopes
  BY <1>1, RunningCall, BusyCall, CallFields DEF Optional
<1>3. rows[ops[o].store][ops[o].env] \in Rows
  BY <1>1, <1>2, RowFields
<1>7. PICK x \in Rows : x = rows[ops[o].store][ops[o].env]
  BY <1>3
<1>4. [x EXCEPT !.dead = TRUE] \in Rows /\ [x EXCEPT !.dead = TRUE] = [doc |-> x.doc, dead |-> TRUE]
  <2>1. x = [doc |-> x.doc, dead |-> x.dead] /\ x.doc \in Docs
    BY DEF Rows
  <2>2. [x EXCEPT !.dead = TRUE] = [doc |-> x.doc, dead |-> TRUE]
    <3>1. PICK d, b : x = [doc |-> d, dead |-> b]
      BY <2>1
    <3>2. [[doc |-> d, dead |-> b] EXCEPT !.dead = TRUE] = [doc |-> d, dead |-> TRUE]
      <4>1. \A t : [[doc |-> d, dead |-> b] EXCEPT !.dead = t] = [doc |-> d, dead |-> t]
        OBVIOUS
      <4> QED BY <4>1, Zenon
    <3> QED BY <3>1, <3>2
  <2>3. [doc |-> x.doc, dead |-> TRUE] \in Rows
    BY <2>1 DEF Rows
  <2> QED BY <2>2, <2>3
<1>5. rows[ops[o].store] \in Listing /\ rows \in [1..MaxStores -> Listing]
  BY <1>2 DEF TypeOK
<1>6. rows' = [rows EXCEPT ![ops[o].store] = [rows[ops[o].store] EXCEPT ![ops[o].env] = [x EXCEPT !.dead = TRUE]]]
  BY <1>7 DEF Bury
<1> QED BY <1>1, <1>2, <1>4, <1>7, <1>5, <1>6, NoneIsApart DEF Listing

\* A pull: the row it installs, and the change it announces.
Installed(p, e, doc, dead) ==
  /\ \/ e = p /\ ~dead /\ doc.src = p /\ LiveOf(rows[attached], doc.id) = {} /\ inFlight[doc.id] = None
     \/ /\ e \in Live(rows[attached]) /\ doc.id = rows[attached][e].doc.id
        /\ ~dead /\ doc.src = p /\ Wins(doc, rows[attached][e].doc)
     \/ e \in Live(rows[attached]) /\ dead /\ doc = rows[attached][e].doc
  /\ attached # 0 /\ attached \in 1..MaxStores /\ doc.id \in Ids
  /\ ~dead => doc.ts <= clock
  /\ Install(e, doc, dead)
  /\ [doc |-> doc, dead |-> dead] \in Rows
  /\ [store |-> attached, env |-> e, doc |-> doc, dead |-> dead] \in Change
  /\ rows'[attached][e] = [doc |-> doc, dead |-> dead] /\ rows'[attached][e] # None
  /\ \A d \in Envelopes : d # e => rows'[attached][d] = rows[attached][d]
  /\ \A s \in 1..MaxStores : s # attached => rows'[s] = rows[s]

\* A pull writes one row of the replica it is applied to.
LEMMA PullInstalls ==
  ASSUME TypeOK, NEW p \in Pulls, Pull(p)
  PROVE  \E e \in Envelopes, doc \in Docs, dead \in BOOLEAN : Installed(p, e, doc, dead)
<1>1. attached # 0 /\ attached \in 1..MaxStores /\ clock \in Nat /\ attached \in Nat
  <2>1. attached # 0 /\ attached \in 0..stores /\ stores \in 0..MaxStores /\ MaxStores \in Nat
    BY ConstantsOK DEF Pull, TypeOK, ConstantsOK
  <2> QED BY <2>1 DEF TypeOK
<1>2. \A e \in Live(rows[attached]) : e \in Envelopes /\ rows[attached][e].doc \in Docs
  BY <1>1, RowFields DEF Live
<1>3. ASSUME NEW e \in Envelopes, NEW doc \in Docs, NEW dead \in BOOLEAN, Install(e, doc, dead)
      PROVE  /\ attached # 0 /\ attached \in 1..MaxStores /\ doc.id \in Ids
             /\ [doc |-> doc, dead |-> dead] \in Rows
             /\ [store |-> attached, env |-> e, doc |-> doc, dead |-> dead] \in Change
             /\ rows'[attached][e] = [doc |-> doc, dead |-> dead] /\ rows'[attached][e] # None
             /\ \A d \in Envelopes : d # e => rows'[attached][d] = rows[attached][d]
             /\ \A s \in 1..MaxStores : s # attached => rows'[s] = rows[s]
  <2>1. [doc |-> doc, dead |-> dead] \in Rows /\ doc.id \in Ids
    BY DEF Rows, Docs
  <2>2. [store |-> attached, env |-> e, doc |-> doc, dead |-> dead] \in Change
    BY <1>1 DEF Change
  <2>3. rows[attached] \in Listing /\ rows \in [1..MaxStores -> Listing]
    BY <1>1 DEF TypeOK
  <2>4. rows' = [rows EXCEPT ![attached] = [rows[attached] EXCEPT ![e] = [doc |-> doc, dead |-> dead]]]
    BY <1>3 DEF Install
  <2> QED BY <1>1, <2>1, <2>2, <2>3, <2>4, NoneIsApart DEF Listing
<1>4. CASE \E i \in Ids, ts \in 0..clock :
             /\ LiveOf(rows[attached], i) = {} /\ inFlight[i] = None
             /\ Install(p, [id |-> i, ts |-> ts, src |-> p], FALSE)
  <2>1. PICK i \in Ids, ts \in 0..clock : /\ LiveOf(rows[attached], i) = {} /\ inFlight[i] = None
                                          /\ Install(p, [id |-> i, ts |-> ts, src |-> p], FALSE)
    BY <1>4
  <2>2. PICK doc \in Docs : doc = [id |-> i, ts |-> ts, src |-> p]
    <3>1. ts \in Nat /\ p \in Ops \cup Pulls
      BY <1>1
    <3> QED BY <3>1 DEF Docs
  <2>4. ts <= clock
    BY <1>1
  <2>3. p \in Envelopes /\ Install(p, doc, FALSE) /\ doc.id = i /\ doc.src = p /\ doc.ts <= clock
    BY <2>1, <2>2, <2>4 DEF Envelopes
  <2> QED BY <1>3, <2>1, <2>3 DEF Installed
<1>5. CASE \E e \in Live(rows[attached]), ts \in 0..clock :
             LET doc == [rows[attached][e].doc EXCEPT !.ts = ts, !.src = p]
             IN Wins(doc, rows[attached][e].doc) /\ Install(e, doc, FALSE)
  <2>1. PICK e \in Live(rows[attached]), ts \in 0..clock :
          /\ Wins([rows[attached][e].doc EXCEPT !.ts = ts, !.src = p], rows[attached][e].doc)
          /\ Install(e, [rows[attached][e].doc EXCEPT !.ts = ts, !.src = p], FALSE)
    BY <1>5
  <2>2. PICK doc \in Docs : doc = [rows[attached][e].doc EXCEPT !.ts = ts, !.src = p]
                            /\ doc.id = rows[attached][e].doc.id /\ doc.src = p /\ doc.ts <= clock
    <3>1. PICK d \in Docs : d = rows[attached][e].doc
      BY <1>2
    <3>2. ts \in Nat /\ ts <= clock /\ p \in Ops \cup Pulls
      BY <1>1
    <3>3. [d EXCEPT !.ts = ts, !.src = p] \in Docs /\ [d EXCEPT !.ts = ts, !.src = p].id = d.id
          /\ [d EXCEPT !.ts = ts, !.src = p].src = p /\ [d EXCEPT !.ts = ts, !.src = p].ts <= clock
      BY <3>2 DEF Docs
    <3> QED BY <3>1, <3>3
  <2>3. e \in Envelopes /\ Install(e, doc, FALSE) /\ Wins(doc, rows[attached][e].doc)
    BY <1>2, <2>1, <2>2
  <2> QED BY <1>3, <2>1, <2>2, <2>3 DEF Installed
<1>6. CASE \E e \in Live(rows[attached]) : Install(e, rows[attached][e].doc, TRUE)
  <2>1. PICK e \in Live(rows[attached]) : Install(e, rows[attached][e].doc, TRUE)
    BY <1>6
  <2> QED BY <1>2, <1>3, <2>1 DEF Installed
<1> QED BY <1>4, <1>5, <1>6 DEF Pull

\* No row is ever removed from a replica in use.
LEMMA RowsStay ==
  ASSUME TypeOK, ShapeInv, [Next]_vars
  PROVE  \A s \in 1..stores, e \in Envelopes : rows[s][e] # None => rows'[s][e] # None
<1> SUFFICES ASSUME NEW s \in 1..stores, NEW e \in Envelopes, rows[s][e] # None PROVE rows'[s][e] # None
  OBVIOUS
<1>0. s \in 1..MaxStores /\ stores \in Nat /\ s # stores + 1 /\ stores + 1 \in Nat
  BY ConstantsOK DEF ConstantsOK, TypeOK
<1>1. CASE rows' = rows
  BY <1>1
<1>2. ASSUME NEW o \in Ops, Put(o) PROVE rows'[s][e] # None
  BY <1>0, <1>2, PutWrites
<1>3. ASSUME NEW o \in Ops, Patch(o) PROVE rows'[s][e] # None
  BY <1>0, <1>3, PatchWrites
<1>4. ASSUME NEW o \in Ops, Bury(o) PROVE rows'[s][e] # None
  BY <1>0, <1>4, BuryWrites
<1>5. ASSUME NEW p \in Pulls, Pull(p) PROVE rows'[s][e] # None
  <2>1. PICK d \in Envelopes, doc \in Docs, dead \in BOOLEAN : Installed(p, d, doc, dead)
    BY <1>5, PullInstalls
  <2> QED BY <1>0, <2>1 DEF Installed
<1>6. CASE Attach
  <2>1. rows'[s] = rows[s]
    BY <1>0, <1>6 DEF Attach, TypeOK
  <2> QED BY <2>1
<1>7. \/ rows' = rows \/ (\E o \in Ops : Put(o) \/ Patch(o) \/ Bury(o)) \/ (\E p \in Pulls : Pull(p)) \/ Attach
  BY DEF Next, Persist, Issue, Start, ListForIndex, SetIndex, Look, MapEnvelope, Finish, Rejects,
         Deliver, Undecodable, Flush, Rehydrate, Hydrated, Detach, CloseAndClear, EndSwap, vars, held
<1> QED BY <1>1, <1>2, <1>3, <1>4, <1>5, <1>6, <1>7

\* Every step keeps the shape of the calls and of their queues.
LEMMA ShapeStep == TypeOK /\ TypeOK' /\ ShapeInv /\ [Next]_vars => ShapeInv'
<1> SUFFICES ASSUME TypeOK, TypeOK', ShapeInv, [Next]_vars PROVE ShapeInv'
  OBVIOUS
<1>a. \A s \in 1..stores, e \in Envelopes : rows[s][e] # None => rows'[s][e] # None
  BY RowsStay
<1>b. /\ clock \in Nat /\ stores \in Nat /\ MaxStores \in Nat /\ stores <= MaxStores
      /\ attached \in 0..stores /\ closing \in 0..stores
  BY ConstantsOK DEF ConstantsOK, TypeOK
<1>c. \A o \in Ops : ops[o] \in Call /\ CallShape(o)
  BY DEF TypeOK, ShapeInv
<1>d. \A s : Open(s) => s \in 1..stores
  BY <1>b DEF Open
<1>e. ASSUME NEW o \in Ops, Running(o)
      PROVE  /\ Busy(o) /\ Head(Queue(ops[o].id)) = o /\ ops[o].store \in 1..stores
             /\ ops[o].env # None => /\ ops[o].env \in Envelopes /\ rows[ops[o].store][ops[o].env] # None
                                     /\ rows'[ops[o].store][ops[o].env] # None
  <2>1. Busy(o) /\ Head(Queue(ops[o].id)) = o /\ ops[o].store \in 1..stores
    BY <1>e, RunningCall
  <2>2. ops[o].env # None => ops[o].env \in Envelopes /\ rows[ops[o].store][ops[o].env] # None
    BY <1>c, <1>e, CallFields DEF CallShape, Optional
  <2> QED BY <1>a, <2>1, <2>2
<1>1. ASSUME NEW o \in Ops, NEW kind \in Kinds, NEW i \in Ids, Issue(o, kind, i) PROVE ShapeInv'
  <2> DEFINE x == Entered(i).queue
  <2>q. PICK q : q = Entered(i).queue
    OBVIOUS
  <2>1. q \in Seq(Ops) /\ (inFlight[i] # None => q = Queue(i) /\ q # <<>>) /\ (inFlight[i] = None => q = <<>>)
    <3>1. inFlight[i] # None => inFlight[i] \in Entry /\ Queue(i) # <<>>
      BY DEF TypeOK, Optional, ShapeInv, QueueShape
    <3>2. CASE inFlight[i] # None
      BY <2>q, <3>1, <3>2, EntryFields DEF Entered, Queue
    <3>3. CASE inFlight[i] = None
      BY <2>q, <3>3 DEF Entered
    <3> QED BY <3>2, <3>3
  <2>2. inFlight'[i].queue = Append(q, o) /\ inFlight'[i] # None /\ \A j \in Ids : j # i => inFlight'[j] = inFlight[j]
    <3>1. Entered(i) \in Entry
      <4>1. byId[i] \in Optional(Docs) /\ (Outstanding(i) # {}) \in BOOLEAN /\ <<>> \in Seq(Ops)
        BY DEF TypeOK
      <4>2. [queue |-> <<>>, latest |-> byId[i], confirmed |-> byId[i], moved |-> Outstanding(i) # {}] \in Entry
        BY <4>1 DEF Entry
      <4> QED BY <4>2 DEF Entered, TypeOK, Optional
    <3>2. PICK en \in Entry : en = Entered(i)
      BY <3>1
    <3>3. [en EXCEPT !.queue = Append(@, o)] \in Entry /\ [en EXCEPT !.queue = Append(@, o)].queue = Append(en.queue, o)
      <4>1. Append(en.queue, o) \in Seq(Ops)
        BY EntryFields, QueueAppend
      <4> QED BY <4>1 DEF Entry
    <3>4. PICK fe \in Entry : fe = [en EXCEPT !.queue = Append(@, o)] /\ fe.queue = Append(q, o)
      BY <2>q, <3>2, <3>3
    <3>5. \/ inFlight' = [inFlight EXCEPT ![i] = fe]
          \/ \E d : inFlight' = [inFlight EXCEPT ![i] = [fe EXCEPT !.latest = d]]
      BY <1>1, <3>2, <3>4 DEF Issue
    <3>6. \A d : [fe EXCEPT !.latest = d].queue = fe.queue
      BY DEF Entry
    <3>7. inFlight'[i].queue = Append(q, o) /\ \A j \in Ids : j # i => inFlight'[j] = inFlight[j]
      BY <3>4, <3>5, <3>6 DEF TypeOK
    <3>8. inFlight'[i] # None
      <4>1. \/ inFlight' = [inFlight EXCEPT ![i] = fe]
            \/ \E d \in Optional(Docs) : inFlight' = [inFlight EXCEPT ![i] = [fe EXCEPT !.latest = d]]
        <5>1. (IF kind = "remove" THEN None ELSE [id |-> i, ts |-> clock + 1, src |-> o]) \in Optional(Docs)
          BY <1>b DEF Docs, Optional
        <5> QED BY <1>1, <3>2, <3>4, <5>1 DEF Issue
      <4>2. \A d \in Optional(Docs) : [fe EXCEPT !.latest = d] \in Entry
        BY DEF Entry
      <4> QED BY <4>1, <4>2, NoneIsApart DEF TypeOK
    <3> QED BY <3>7, <3>8
  <2>3. PICK r \in Call : /\ ops' = [ops EXCEPT ![o] = r] /\ r.st = "queued" /\ r.kind = kind /\ r.id = i /\ r.store = 0
                          /\ r.env = None /\ r.seen = None
                          /\ IF kind = "remove" THEN r.doc = None
                             ELSE r.doc # None /\ r.doc.id = i /\ r.doc.src = o /\ r.doc.ts = clock + 1
    <3>1. PICK d \in Optional(Docs) : d = IF kind = "remove" THEN None ELSE [id |-> i, ts |-> clock + 1, src |-> o]
      <4>1. [id |-> i, ts |-> clock + 1, src |-> o] \in Docs
        BY <1>b DEF Docs
      <4> QED BY <4>1 DEF Optional
    <3>2. d # None => d \in Docs
      BY DEF Optional
    <3>3. IF kind = "remove" THEN d = None
          ELSE d # None /\ d.id = i /\ d.src = o /\ d.ts = clock + 1
      <4>1. [id |-> i, ts |-> clock + 1, src |-> o] \in Docs
        BY <1>b DEF Docs
      <4> QED BY <3>1, <4>1, NoneIsApart
    <3>4. PICK r : r = [NewCall EXCEPT !.st = "queued", !.kind = kind, !.id = i, !.doc = d]
      OBVIOUS
    <3>5. r \in Call /\ r.st = "queued" /\ r.kind = kind /\ r.id = i /\ r.doc = d /\ r.store = 0 /\ r.env = None /\ r.seen = None
      BY <3>4 DEF NewCall, Call, Optional
    <3>6. ops' = [ops EXCEPT ![o] = r]
      BY <1>1, <3>1, <3>4 DEF Issue
    <3> QED BY <3>3, <3>5, <3>6
  <2>4. ops[o].st = "new" /\ ops'[o] = r /\ \A b \in Ops : b # o => ops'[b] = ops[b]
    BY <1>1, <2>3 DEF Issue, TypeOK
  <2>5. clock' = clock + 1 /\ stores' = stores /\ swap' = swap /\ rows' = rows
    BY <1>1 DEF Issue, lives, held
  <2>6. i # None /\ kind # None
    BY NoneIsApart
  <2>7. /\ Append(q, o) \in Seq(Ops) /\ Append(q, o) # <<>> /\ Len(q) \in Nat
        /\ Len(Append(q, o)) = Len(q) + 1 /\ DOMAIN Append(q, o) = 1..(Len(q) + 1) /\ DOMAIN q = 1..Len(q)
        /\ \A k \in DOMAIN q : Append(q, o)[k] = q[k] /\ q[k] \in Ops
        /\ Append(q, o)[Len(q) + 1] = o
        /\ q # <<>> => Head(Append(q, o)) = Head(q)
    BY <2>1, QueueAppend
  <2>8. CallShape(o)'
    <3>1. o \in Range(Append(q, o))
      BY <2>7 DEF Range
    <3>2. clock + 1 <= clock' /\ ops'[o].st = "queued"
      BY <1>b, <2>3, <2>4, <2>5
    <3> QED BY <2>2, <2>3, <2>4, <2>6, <3>1, <3>2 DEF CallShape, Busy, Running, Writes, Queue
  <2>9. ASSUME NEW b \in Ops, b # o PROVE CallShape(b)'
    <3>1. Busy(b) => inFlight'[ops[b].id] # None /\ b \in Range(inFlight'[ops[b].id].queue)
      <4> HAVE Busy(b)
      <4>1. PICK k \in DOMAIN Queue(ops[b].id) : Queue(ops[b].id)[k] = b
        BY BusyCall
      <4>2. CASE ops[b].id = i
        <5>1. q = Queue(i)
          BY <2>1, <4>2, BusyCall
        <5>2. Append(q, o)[k] = b /\ k \in DOMAIN Append(q, o)
          BY <2>7, <4>1, <4>2, <5>1
        <5> QED BY <2>2, <4>2, <5>2 DEF Range
      <4>3. CASE ops[b].id # i
        <5>1. inFlight'[ops[b].id] = inFlight[ops[b].id] /\ inFlight[ops[b].id] # None
          BY <2>2, <4>3, BusyCall
        <5> QED BY <4>1, <5>1 DEF Range, Queue
      <4> QED BY <4>2, <4>3
    <3>2. Running(b) => Head(inFlight'[ops[b].id].queue) = b
      <4> HAVE Running(b)
      <4>1. Busy(b) /\ Head(Queue(ops[b].id)) = b /\ ops[b].id \in Ids /\ inFlight[ops[b].id] # None
        BY RunningCall, BusyCall
      <4> QED BY <2>1, <2>2, <2>7, <4>1 DEF Queue
    <3>3. clock' >= clock /\ stores' >= stores
      BY <1>b, <2>5
    <3> QED BY <1>a, <2>4, <2>9, <3>1, <3>2, <3>3, ShapeFrame
  <2>10. QueueShape(i)'
    <3>1. inFlight[i] # None => /\ \A k \in DOMAIN q : Busy(q[k]) /\ ops[q[k]].id = i /\ (k > 1 => ops[q[k]].st = "queued")
                                /\ \A j, k \in DOMAIN q : j # k => q[j] # q[k]
      BY <2>1 DEF ShapeInv, QueueShape, Queue
    <3>2. inFlight[i] = None => DOMAIN q = {}
      BY <2>1
    <3>3. \A k \in DOMAIN q : q[k] # o
      BY <2>4, <3>1, <3>2 DEF Busy
    <3>4. PICK z : z = Append(q, o)
      OBVIOUS
    <3>5. ASSUME NEW k \in DOMAIN z
          PROVE  ops'[z[k]].st \notin {"new", "acked", "rejected"} /\ ops'[z[k]].id = i /\ (k > 1 => ops'[z[k]].st = "queued")
      <4>1. CASE k \in DOMAIN q
        <5>1. z[k] = q[k] /\ q[k] \in Ops /\ ops'[q[k]] = ops[q[k]]
          BY <2>4, <2>7, <3>3, <3>4, <4>1
        <5> QED BY <3>1, <3>2, <4>1, <5>1 DEF Busy
      <4>2. CASE k \notin DOMAIN q
        <5>1. z[k] = o
          <6>1. k = Len(q) + 1
            BY <2>7, <3>4, <4>2
          <6> QED BY <2>7, <3>4, <6>1
        <5> QED BY <2>3, <2>4, <5>1
      <4> QED BY <4>1, <4>2
    <3>6. ASSUME NEW j \in DOMAIN z, NEW k \in DOMAIN z, j # k PROVE z[j] # z[k]
      <4>1. \A n \in DOMAIN z : n \in DOMAIN q \/ n = Len(q) + 1
        BY <2>7, <3>4
      <4>2. inFlight[i] # None => \A m, n \in DOMAIN q : m # n => q[m] # q[n]
        BY <3>1
      <4> QED BY <2>7, <3>2, <3>3, <3>4, <3>6, <4>1, <4>2
    <3>7. Queue(i)' = z
      BY <2>2, <3>4 DEF Queue
    <3> QED BY <2>7, <3>4, <3>5, <3>6, <3>7 DEF QueueShape, Busy
  <2>11. ASSUME NEW j \in Ids, j # i PROVE QueueShape(j)'
    <3>1. inFlight'[j] = inFlight[j] /\ QueueShape(j)
      BY <2>2, <2>11 DEF ShapeInv
    <3>2. inFlight[j] # None => \A k \in DOMAIN Queue(j) : Queue(j)[k] \in Ops /\ Queue(j)[k] # o
      <4> HAVE inFlight[j] # None
      <4>1. Queue(j) \in Seq(Ops) /\ Queue(j) # <<>>
        BY <3>1, EntryFields DEF TypeOK, Optional, Queue, QueueShape
      <4> QED BY <2>4, <3>1, <4>1, QueueParts DEF QueueShape, Busy
    <3> QED BY <2>4, <3>1, <3>2 DEF QueueShape, Queue, Busy
  <2> QED BY <2>5, <2>8, <2>9, <2>10, <2>11 DEF ShapeInv
<1>2. ASSUME NEW o \in Ops, Start(o) PROVE ShapeInv'
  <2>1. Busy(o) /\ Head(Queue(ops[o].id)) = o /\ ops[o].st = "queued" /\ attached \in 1..stores
    BY <1>2, <1>b DEF Start, Turn, Busy, Queue
  <2>2. PICK r : r = [ops[o] EXCEPT !.st = IF ops[o].kind = "insert" THEN "put" ELSE "look", !.store = attached]
    OBVIOUS
  <2>3. /\ r \in Call /\ r.id = ops[o].id /\ r.kind = ops[o].kind /\ r.doc = ops[o].doc /\ r.store = attached
        /\ r.env = ops[o].env /\ r.seen = ops[o].seen
        /\ r.st = IF ops[o].kind = "insert" THEN "put" ELSE "look"
    <3>1. attached \in Nat
      BY <1>b
    <3>2. PICK st \in {"put", "look"} : st = IF ops[o].kind = "insert" THEN "put" ELSE "look"
      OBVIOUS
    <3>3. r = [ops[o] EXCEPT !.st = st, !.store = attached]
      BY <2>2, <3>2
    <3> QED BY <1>c, <3>1, <3>2, <3>3 DEF Call
  <2>4. ops' = [ops EXCEPT ![o] = r]
    BY <1>2, <2>2 DEF Start
  <2>5. r.env = None /\ r.seen = None
    BY <1>c, <2>1, <2>3 DEF CallShape
  <2>6. UNCHANGED <<inFlight, clock, stores, swap>>
    BY <1>2 DEF Start, store, lives
  <2> QED BY <1>a, <2>1, <2>3, <2>4, <2>5, <2>6, ShapeMoves
<1>3. ASSUME NEW o \in Ops, ListForIndex(o) PROVE ShapeInv'
  <2>1. Running(o) /\ ops[o].st \in {"look", "map"}
    BY <1>3 DEF ListForIndex, NeedsIndex, Running
  <2>2. PICK r : r = [ops[o] EXCEPT !.seen = rows[ops[o].store]]
    OBVIOUS
  <2>3. /\ r \in Call /\ r.id = ops[o].id /\ r.kind = ops[o].kind /\ r.doc = ops[o].doc /\ r.store = ops[o].store
        /\ r.env = ops[o].env /\ r.st = ops[o].st
    <3>1. rows[ops[o].store] \in Listing
      BY <1>b, <1>e, <2>1 DEF TypeOK
    <3> QED BY <1>c, <2>2, <3>1 DEF Call, Optional
  <2>4. ops' = [ops EXCEPT ![o] = r] /\ UNCHANGED <<inFlight, clock, stores, swap>>
    BY <1>3, <2>2 DEF ListForIndex, store, lives
  <2>5. \/ r.st = "look" /\ r.kind # "insert" /\ r.env = None
        \/ r.st = "map" /\ r.kind # "remove" /\ r.env = o
    BY <1>c, <2>1, <2>3 DEF CallShape, Writes
  <2>6. /\ Busy(o) /\ Head(Queue(ops[o].id)) = o /\ r.store \in 1..stores
        /\ r.env # None => rows'[r.store][r.env] # None
    BY <1>e, <2>1, <2>3
  <2> QED BY <1>a, <2>3, <2>4, <2>5, <2>6, ShapeMoves
<1>4. ASSUME NEW o \in Ops, SetIndex(o) PROVE ShapeInv'
  <2>1. Running(o) /\ ops[o].st \in {"look", "map"}
    BY <1>4, <1>c DEF SetIndex, Running, CallShape
  <2>2. PICK r : r = [ops[o] EXCEPT !.seen = None]
    OBVIOUS
  <2>3. /\ r \in Call /\ r.id = ops[o].id /\ r.kind = ops[o].kind /\ r.doc = ops[o].doc /\ r.store = ops[o].store
        /\ r.env = ops[o].env /\ r.st = ops[o].st
    BY <1>c, <2>2 DEF Call, Optional
  <2>4. ops' = [ops EXCEPT ![o] = r] /\ UNCHANGED <<inFlight, clock, stores, swap>>
    BY <1>4, <2>2 DEF SetIndex, store, lives
  <2>5. \/ r.st = "look" /\ r.kind # "insert" /\ r.env = None
        \/ r.st = "map" /\ r.kind # "remove" /\ r.env = o
    BY <1>c, <2>1, <2>3 DEF CallShape, Writes
  <2>6. /\ Busy(o) /\ Head(Queue(ops[o].id)) = o /\ r.store \in 1..stores
        /\ r.env # None => rows'[r.store][r.env] # None
    BY <1>e, <2>1, <2>3
  <2> QED BY <1>a, <2>3, <2>4, <2>5, <2>6, ShapeMoves
<1>5. ASSUME NEW o \in Ops, Look(o) PROVE ShapeInv'
  <2>1. Running(o) /\ ops[o].st = "look" /\ ops[o].seen = None
    BY <1>5 DEF Look, Ready, Running
  <2>s. ops[o].store \in 1..stores /\ ops[o].store \in 1..MaxStores /\ ops[o].id \in Ids
    BY <1>b, <1>e, <2>1, BusyCall
  <2>e. PICK e : e = index[ops[o].store].of[ops[o].id]
    OBVIOUS
  <2>i. index[ops[o].store] \in Index /\ e \in Optional(Envelopes)
    <3>1. index[ops[o].store] \in Index
      BY <1>5, <2>s DEF Look, Ready, TypeOK, Optional
    <3> QED BY <2>e, <2>s, <3>1 DEF Index
  <2>f. PICK found \in BOOLEAN : found <=> e # None /\ rows[ops[o].store][e] # None /\ ~rows[ops[o].store][e].dead
    OBVIOUS
  <2>t. PICK st : st = CASE ops[o].kind = "remove" -> IF found THEN "bury" ELSE "done"
                         [] OTHER -> IF found THEN "patch" ELSE "put"
    OBVIOUS
  <2>2. PICK r : r = [ops[o] EXCEPT !.env = IF found THEN e ELSE None, !.at = index[ops[o].store].at, !.st = st]
    OBVIOUS
  <2>3. /\ r \in Call /\ r.id = ops[o].id /\ r.kind = ops[o].kind /\ r.doc = ops[o].doc /\ r.store = ops[o].store
        /\ r.env = (IF found THEN e ELSE None) /\ r.st = st /\ r.seen = ops[o].seen
    <3>1. index[ops[o].store].at \in Nat /\ (IF found THEN e ELSE None) \in Optional(Envelopes)
      BY <2>i DEF Index, Optional
    <3>2. st \in {"bury", "done", "patch", "put"}
      BY <2>t
    <3> QED BY <1>c, <2>2, <3>1, <3>2 DEF Call
  <2>4. ops' = [ops EXCEPT ![o] = r]
    BY <1>5, <2>2, <2>e, <2>f, <2>t DEF Look
  <2>5. UNCHANGED <<inFlight, clock, stores, swap>>
    BY <1>5 DEF Look, store, lives
  <2>6. r.env # None => rows'[r.store][r.env] # None
    BY <1>a, <2>3, <2>f, <2>i, <2>s DEF Optional
  <2>7. ops[o].kind # "insert"
    BY <1>c, <2>1 DEF CallShape
  <2>8. \/ r.st = "put" /\ r.kind # "remove" /\ r.env = None /\ r.seen = None
        \/ r.st = "patch" /\ r.kind \notin {"remove", "insert"} /\ r.env # None /\ r.seen = None
        \/ r.st = "bury" /\ r.kind = "remove" /\ r.env # None /\ r.seen = None
        \/ r.st = "done" /\ (r.kind # "remove" => r.env # None) /\ r.seen = None
    BY <2>1, <2>3, <2>7, <2>f, <2>t
  <2> QED BY <1>a, <1>e, <2>1, <2>3, <2>4, <2>5, <2>6, <2>8, ShapeMoves
<1>6. ASSUME NEW o \in Ops, Put(o) PROVE ShapeInv'
  <2>1. Running(o) /\ ops[o].st = "put" /\ ops[o].kind # "remove" /\ ops[o].seen = None
    BY <1>6, <1>c DEF Put, Running, CallShape, Writes
  <2>2. PICK r : r = [ops[o] EXCEPT !.st = "map", !.env = o]
    OBVIOUS
  <2>3. /\ r \in Call /\ r.id = ops[o].id /\ r.kind = ops[o].kind /\ r.doc = ops[o].doc /\ r.store = ops[o].store
        /\ r.env = o /\ r.st = "map" /\ r.seen = ops[o].seen
    BY <1>c, <2>2 DEF Call, Optional, Envelopes
  <2>4. ops' = [ops EXCEPT ![o] = r] /\ UNCHANGED <<inFlight, clock, stores, swap>>
    BY <1>6, <2>2 DEF Put, store, lives
  <2>5. rows'[r.store][r.env] # None
    BY <1>6, <2>3, PutWrites
  <2> QED BY <1>a, <1>e, <2>1, <2>3, <2>4, <2>5, ShapeMoves
<1>7. ASSUME NEW o \in Ops, ops[o].st \in {"map", "patch", "bury"}, ops' = [ops EXCEPT ![o].st = "done"],
             ops[o].seen = None, UNCHANGED <<inFlight, clock, stores, swap>>
      PROVE  ShapeInv'
  <2>1. Running(o) /\ ops[o].env # None
    BY <1>7, <1>c, NoneIsApart DEF Running, CallShape
  <2>2. PICK r : r = [ops[o] EXCEPT !.st = "done"]
    OBVIOUS
  <2>3. /\ r \in Call /\ r.id = ops[o].id /\ r.kind = ops[o].kind /\ r.doc = ops[o].doc /\ r.store = ops[o].store
        /\ r.env = ops[o].env /\ r.st = "done" /\ r.seen = ops[o].seen
    BY <1>c, <2>2 DEF Call
  <2>4. ops' = [ops EXCEPT ![o] = r]
    BY <1>7, <2>2
  <2>5. /\ Busy(o) /\ Head(Queue(ops[o].id)) = o /\ r.store \in 1..stores
        /\ r.env # None /\ rows'[r.store][r.env] # None /\ r.seen = None
    BY <1>e, <1>7, <2>1, <2>3
  <2>6. UNCHANGED <<inFlight, clock, stores, swap>>
    BY <1>7
  <2> QED BY <1>a, <2>3, <2>4, <2>5, <2>6, ShapeMoves
<1>8. ASSUME NEW o \in Ops, MapEnvelope(o) PROVE ShapeInv'
  BY <1>8, <1>7 DEF MapEnvelope, Ready, store, lives
<1>9. ASSUME NEW o \in Ops, Patch(o) \/ Bury(o) PROVE ShapeInv'
  <2>1. ops[o].seen = None
    BY <1>9, <1>c DEF Patch, Bury, CallShape
  <2> QED BY <1>9, <1>7, <2>1 DEF Patch, Bury, store, lives
<1>10. ASSUME NEW o \in Ops, Finish(o) PROVE ShapeInv'
  <2>1. Running(o) /\ ops[o].st = "done" /\ Busy(o) /\ Head(Queue(ops[o].id)) = o
    BY <1>10, <1>e DEF Finish, Running
  <2>2. PICK en \in Entry : en = inFlight[ops[o].id] /\ en.queue = Queue(ops[o].id)
    BY <2>1, BusyCall DEF Queue
  <2>3. PICK f \in Entry : f.queue = Queue(ops[o].id) /\ inFlight' = [inFlight EXCEPT ![ops[o].id] = Settled(f)]
    <3>1. [en EXCEPT !.latest = None, !.confirmed = None] \in Entry
          /\ [en EXCEPT !.latest = None, !.confirmed = None].queue = en.queue
      BY DEF Entry, Optional
    <3>2. ops[o].doc \in Optional(Docs)
      BY <1>c, CallFields
    <3>3. [en EXCEPT !.confirmed = ops[o].doc] \in Entry /\ [en EXCEPT !.confirmed = ops[o].doc].queue = en.queue
      BY <3>2 DEF Entry
    <3> QED BY <1>10, <2>2, <3>1, <3>3 DEF Finish
  <2>4. PICK r : r = [ops[o] EXCEPT !.st = "acked"]
    OBVIOUS
  <2>5. /\ r.id = ops[o].id /\ r.kind = ops[o].kind /\ r.doc = ops[o].doc /\ r.store = ops[o].store
        /\ r.env = ops[o].env /\ r.st = "acked" /\ r.seen = ops[o].seen
    BY <1>c, <2>4 DEF Call
  <2>6. ops'[o] = r /\ \A b \in Ops : b # o => ops'[b] = ops[b]
    BY <1>10, <2>4 DEF Finish, TypeOK
  <2>7. UNCHANGED <<clock, stores, swap, rows>>
    BY <1>10 DEF Finish, held, lives
  <2>8. CallShape(o)' /\ ~Busy(o)'
    BY <1>c, <2>1, <2>5, <2>6, <2>7 DEF CallShape, Busy, Running, Writes
  <2> QED BY <2>1, <2>3, <2>6, <2>7, <2>8, ShapeSettles
<1>11. ASSUME NEW o \in Ops, Rejects(o) PROVE ShapeInv'
  <2>1. Busy(o) /\ Head(Queue(ops[o].id)) = o /\ ops[o].st # "new"
    <3>1. CASE Turn(o)
      BY <3>1 DEF Turn, Busy, Queue
    <3>2. CASE ops[o].st \in {"look", "put", "patch", "bury"} \/ NeedsIndex(o)
      <4>1. Running(o)
        BY <3>2 DEF Running, NeedsIndex
      <4> QED BY <1>e, <4>1 DEF Busy
    <3> QED BY <1>11, <3>1, <3>2 DEF Rejects
  <2>2. PICK en \in Entry : en = inFlight[ops[o].id] /\ en.queue = Queue(ops[o].id)
    BY <2>1, BusyCall DEF Queue
  <2>3. PICK f \in Entry : f.queue = Queue(ops[o].id) /\ inFlight' = [inFlight EXCEPT ![ops[o].id] = Settled(f)]
    <3>1. [en EXCEPT !.latest = en.confirmed] \in Entry /\ [en EXCEPT !.latest = en.confirmed].queue = en.queue
      BY DEF Entry
    <3>2. \/ inFlight' = [inFlight EXCEPT ![ops[o].id] = Settled([en EXCEPT !.latest = en.confirmed])]
          \/ inFlight' = [inFlight EXCEPT ![ops[o].id] = Settled(en)]
      BY <1>11, <2>2 DEF Rejects
    <3> QED BY <2>2, <3>1, <3>2
  <2>4. PICK r : r = [ops[o] EXCEPT !.st = "rejected", !.seen = None]
    OBVIOUS
  <2>5. /\ r.id = ops[o].id /\ r.kind = ops[o].kind /\ r.doc = ops[o].doc /\ r.store = ops[o].store
        /\ r.env = ops[o].env /\ r.st = "rejected" /\ r.seen = None
    BY <1>c, <2>4 DEF Call
  <2>6. ops'[o] = r /\ \A b \in Ops : b # o => ops'[b] = ops[b]
    BY <1>11, <2>4 DEF Rejects, TypeOK
  <2>7. UNCHANGED <<clock, stores, swap, rows>>
    BY <1>11 DEF Rejects, held, lives
  <2>8. CallShape(o)' /\ ~Busy(o)'
    BY <1>c, <2>1, <2>5, <2>6, <2>7 DEF CallShape, Busy, Running, Writes
  <2> QED BY <2>1, <2>3, <2>6, <2>7, <2>8, ShapeSettles
<1>12. ASSUME UNCHANGED <<ops, clock>>, stores' >= stores, swap' => stores' # 0,
              \A i \in Ids : \/ inFlight'[i] = inFlight[i] 
                             \/ inFlight'[i] = Moved(inFlight[i])
       PROVE  ShapeInv'
  <2>1. \A i \in Ids : /\ inFlight'[i] = None <=> inFlight[i] = None
                       /\ inFlight[i] # None => inFlight'[i].queue = inFlight[i].queue
    <3> SUFFICES ASSUME NEW i \in Ids, inFlight'[i] = Moved(inFlight[i])
                 PROVE  /\ inFlight'[i] = None <=> inFlight[i] = None
                        /\ inFlight[i] # None => inFlight'[i].queue = inFlight[i].queue
      BY <1>12
    <3>1. CASE inFlight[i] = None
      BY <3>1 DEF Moved
    <3>2. CASE inFlight[i] # None
      <4>1. PICK en \in Entry : en = inFlight[i]
        BY <3>2 DEF TypeOK, Optional
      <4>2. [en EXCEPT !.moved = TRUE] \in Entry /\ [en EXCEPT !.moved = TRUE].queue = en.queue
        BY DEF Entry
      <4>3. inFlight'[i] = [en EXCEPT !.moved = TRUE]
        BY <3>2, <4>1 DEF Moved
      <4> QED BY <3>2, <4>1, <4>2, <4>3, NoneIsApart
    <3> QED BY <3>1, <3>2
  <2>2. clock' >= clock
    BY <1>12, <1>b
  <2> QED BY <1>a, <1>12, <2>1, <2>2, ShapeSteps
<1>13. ASSUME NEW p \in Pulls, Pull(p) PROVE ShapeInv'
  <2>1. \E doc \in Docs : inFlight' = [inFlight EXCEPT ![doc.id] = Moved(@)]
    BY <1>13, PullInstalls DEF Installed, Install
  <2>2. \A i \in Ids : inFlight'[i] = inFlight[i] \/ inFlight'[i] = Moved(inFlight[i])
    BY <2>1 DEF TypeOK
  <2>3. UNCHANGED <<ops, clock, stores, swap>>
    BY <1>13 DEF Pull, lives
  <2> QED BY <1>12, <1>b, <2>2, <2>3 DEF ShapeInv
<1>14. CASE Hydrated
  <2>1. \A i \in Ids : inFlight'[i] = Moved(inFlight[i])
    BY <1>14 DEF Hydrated
  <2>2. UNCHANGED <<ops, clock, stores, swap>>
    BY <1>14 DEF Hydrated, lives
  <2> QED BY <1>12, <1>b, <2>1, <2>2 DEF ShapeInv
<1>15. CASE Attach
  <2>1. UNCHANGED <<ops, clock, inFlight>> /\ stores' = stores + 1
    BY <1>15 DEF Attach, store
  <2> QED BY <1>12, <1>b, <2>1
<1>16. ASSUME NEW swaps \in BOOLEAN, Detach(swaps) PROVE ShapeInv'
  <2>1. UNCHANGED <<ops, clock, inFlight, stores>> /\ stores # 0
    BY <1>16, <1>b DEF Detach, store
  <2> QED BY <1>12, <1>b, <2>1
<1>17. CASE UNCHANGED <<ops, clock, inFlight, stores>> /\ (swap' => swap)
  BY <1>12, <1>17, <1>b DEF ShapeInv
<1>18. ASSUME NEW c \in events, Deliver(c) \/ Undecodable(c) PROVE ShapeInv'
  BY <1>17, <1>18 DEF Deliver, Undecodable, store, lives
<1>19. CASE Flush \/ Rehydrate \/ CloseAndClear \/ EndSwap \/ UNCHANGED vars
  BY <1>17, <1>19 DEF Flush, Rehydrate, CloseAndClear, EndSwap, vars, store, lives
<1> QED BY <1>1, <1>2, <1>3, <1>4, <1>5, <1>6, <1>8, <1>9, <1>10, <1>11, <1>13, <1>14, <1>15, <1>16, <1>18, <1>19 DEF Next, Persist

(***************************************************************************)
(* The session                                                             *)
(***************************************************************************)
\* A crossing is never forgotten.
LEMMA ClashesGrow == [Next]_vars => clashes \subseteq clashes'
<1> SUFFICES ASSUME [Next]_vars PROVE clashes \subseteq clashes'
  OBVIOUS
<1>1. ASSUME NEW o \in Ops, NEW kind \in Kinds, NEW i \in Ids, Issue(o, kind, i) PROVE clashes \subseteq clashes'
  BY <1>1 DEF Issue
<1>2. ASSUME NEW o \in Ops, Start(o) PROVE clashes \subseteq clashes'
  BY <1>2 DEF Start
<1>3. ASSUME NEW o \in Ops, ListForIndex(o) PROVE clashes \subseteq clashes'
  BY <1>3 DEF ListForIndex
<1>4. ASSUME NEW o \in Ops, SetIndex(o) PROVE clashes \subseteq clashes'
  BY <1>4 DEF SetIndex
<1>5. ASSUME NEW o \in Ops, Look(o) PROVE clashes \subseteq clashes'
  BY <1>5 DEF Look
<1>6. ASSUME NEW o \in Ops, Put(o) PROVE clashes \subseteq clashes'
  BY <1>6 DEF Put
<1>7. ASSUME NEW o \in Ops, MapEnvelope(o) PROVE clashes \subseteq clashes'
  BY <1>7 DEF MapEnvelope
<1>8. ASSUME NEW o \in Ops, Patch(o) PROVE clashes \subseteq clashes'
  BY <1>8 DEF Patch
<1>9. ASSUME NEW o \in Ops, Bury(o) PROVE clashes \subseteq clashes'
  BY <1>9 DEF Bury
<1>10. ASSUME NEW o \in Ops, Finish(o) PROVE clashes \subseteq clashes'
  BY <1>10 DEF Finish
<1>11. ASSUME NEW o \in Ops, Rejects(o) PROVE clashes \subseteq clashes'
  BY <1>11 DEF Rejects
<1>12. ASSUME NEW p \in Pulls, Pull(p) PROVE clashes \subseteq clashes'
  BY <1>12 DEF Pull, Install
<1>13. ASSUME NEW c \in events, Deliver(c) PROVE clashes \subseteq clashes'
  BY <1>13 DEF Deliver
<1>14. ASSUME NEW c \in events, Undecodable(c) PROVE clashes \subseteq clashes'
  BY <1>14 DEF Undecodable
<1>15. CASE Flush \/ Rehydrate \/ Hydrated \/ CloseAndClear \/ Attach \/ EndSwap \/ UNCHANGED vars
  BY <1>15 DEF Flush, Rehydrate, Hydrated, CloseAndClear, Attach, EndSwap, vars
<1>16. ASSUME NEW swaps \in BOOLEAN, Detach(swaps) PROVE clashes \subseteq clashes'
  BY <1>16 DEF Detach
<1> QED BY <1>1, <1>2, <1>3, <1>4, <1>5, <1>6, <1>7, <1>8, <1>9, <1>10, <1>11, <1>12, <1>13, <1>14, <1>15, <1>16 DEF Next, Persist

\* The event of a change is recorded with its replica.
LEMMA Events ==
  ASSUME TypeOK, NEW c \in events
  PROVE  /\ c \in Change /\ c.store \in Nat /\ c.env \in Envelopes /\ c.doc \in Docs /\ c.dead \in BOOLEAN
         /\ c.doc.id \in Ids /\ c.doc.ts \in Nat /\ c.doc.src \in Envelopes
<1>1. c \in Change
  BY DEF TypeOK
<1>2. c.doc \in Docs
  BY <1>1 DEF Change
<1> QED BY <1>1, <1>2 DEF Change, Docs, Envelopes

\* Every step keeps listing, timer and pull burst of the replica in use.
LEMMA SessionStep == TypeOK /\ TypeOK' /\ ShapeInv /\ SessionInv /\ [Next]_vars => SessionInv'
<1> SUFFICES ASSUME TypeOK, TypeOK', ShapeInv, SessionInv, [Next]_vars PROVE SessionInv'
  OBVIOUS
<1>a. /\ stores \in Nat /\ MaxStores \in Nat /\ stores <= MaxStores /\ stores' \in Nat /\ stores' <= MaxStores
      /\ attached \in 0..stores /\ closing \in 0..stores
      /\ index \in [1..MaxStores -> Optional(Index)] /\ rows \in [1..MaxStores -> Listing]
      /\ ops \in [Ops -> Call]
  BY ConstantsOK DEF ConstantsOK, TypeOK
<1>b. Uncrossed' => Uncrossed
  BY ClashesGrow DEF Uncrossed
<1>c. \A o \in Ops : Running(o) => ops[o].store \in 1..stores
  BY RunningCall
<1>d. \A s : Open(s) => s \in 1..stores
  BY <1>a DEF Open
\* A step of a call writes the index of its replica, and forgets none.
<1>1. ASSUME UNCHANGED <<attached, stores, closing, timer, listing, pending>>, clashes \subseteq clashes',
             events' \subseteq events,
             NEW s \in 1..stores, \A t \in 1..MaxStores : t # s => index'[t] = index[t] /\ rows'[t] = rows[t],
             index[s] # None => index'[s] # None
      PROVE  SessionInv'
  <2>1. \A t \in 1..MaxStores : t > stores' => index'[t] = None /\ rows'[t] = NoRows
    <3> SUFFICES ASSUME NEW t \in 1..MaxStores, t > stores PROVE index'[t] = None /\ rows'[t] = NoRows
      BY <1>1
    <3>1. t # s
      BY <1>a
    <3> QED BY <1>1, <3>1 DEF SessionInv
  <2>2. InUse' /\ index'[stores'] = None => attached' # 0 /\ listing' # None
    <3>1. InUse => stores \in 1..MaxStores
      BY <1>a DEF InUse, SessionInv
    <3> QED BY <1>1, <3>1 DEF SessionInv, InUse
  <2> QED BY <1>1, <1>b, <2>1, <2>2 DEF SessionInv, InUse
<1>2. ASSUME UNCHANGED <<attached, stores, closing, timer, listing, pending, index, rows>>, events' \subseteq events
      PROVE  SessionInv'
  BY <1>2, <1>b DEF SessionInv, InUse
<1>3. ASSUME NEW o \in Ops, NEW kind \in Kinds, NEW i \in Ids, Issue(o, kind, i) PROVE SessionInv'
  BY <1>3, <1>2 DEF Issue, held, lives, feed
<1>4. ASSUME NEW o \in Ops, Start(o) \/ ListForIndex(o) \/ Finish(o) \/ Rejects(o) PROVE SessionInv'
  BY <1>4, <1>2 DEF Start, ListForIndex, Finish, Rejects, store, held, lives, feed
<1>5. ASSUME NEW o \in Ops, SetIndex(o) PROVE SessionInv'
  <2>1. ops[o].store \in 1..stores
    BY <1>5, <1>c DEF SetIndex, Running, ShapeInv, CallShape
  <2>2. ListIndex(ops[o].store, ops[o].seen) # None
    <3>1. ops[o].seen \in Listing
      BY <1>5, <1>a, CallFields DEF SetIndex, Optional
    <3>2. \A i \in Ids : OneOf(LiveOf(ops[o].seen, i)) \in Optional(Envelopes)
      BY DEF OneOf, LiveOf, Live, Optional
    <3>3. IndexOf(ops[o].seen) \in [Ids -> Optional(Envelopes)]
      BY <3>2 DEF IndexOf
    <3>4. index[ops[o].store] = None \/ index[ops[o].store] \in Index
      BY <1>a, <2>1 DEF Optional
    <3>5. index[ops[o].store] = None \/ index[ops[o].store].at \in Nat
      BY <3>4 DEF Index
    <3>6. ListIndex(ops[o].store, ops[o].seen) \in Index
      BY <3>3, <3>5 DEF ListIndex, Index
    <3> QED BY <3>6, NoneIsApart
  <2>3. index' = [index EXCEPT ![ops[o].store] = ListIndex(ops[o].store, ops[o].seen)]
    BY <1>5 DEF SetIndex
  <2>4. ops[o].store \in 1..MaxStores
    BY <1>a, <2>1
  <2>5. index'[ops[o].store] # None /\ \A t \in 1..MaxStores : t # ops[o].store => index'[t] = index[t]
    BY <1>a, <2>2, <2>3, <2>4
  <2>6. UNCHANGED <<attached, stores, closing, timer, listing, pending, events, rows>> /\ clashes \subseteq clashes'
    BY <1>5, ClashesGrow DEF SetIndex, store, lives, feed
  <2> QED BY <1>1, <2>1, <2>5, <2>6
<1>6. ASSUME NEW s \in 1..stores, NEW v, index' = [index EXCEPT ![s] = v], v # None
      PROVE  index'[s] # None /\ \A t \in 1..MaxStores : t # s => index'[t] = index[t]
  <2>1. s \in 1..MaxStores
    BY <1>a
  <2> QED BY <1>a, <1>6, <2>1
<1>7. ASSUME NEW s \in 1..stores, NEW i, NEW e, index[s] # None, e \in Optional(Envelopes)
      PROVE  [index[s] EXCEPT !.of[i] = e] # None
  <2>1. s \in 1..MaxStores
    BY <1>a
  <2>2. index[s] \in Index
    BY <1>a, <1>7, <2>1 DEF Optional
  <2>3. [index[s] EXCEPT !.of[i] = e] \in Index
    BY <1>7, <2>2 DEF Index
  <2> QED BY <2>3, NoneIsApart
<1>8. ASSUME NEW o \in Ops, Look(o) PROVE SessionInv'
  <2>1. ops[o].store \in 1..stores /\ index[ops[o].store] # None
    BY <1>8, <1>d DEF Look, Ready
  <2>2. \/ index' = index
        \/ index' = [index EXCEPT ![ops[o].store] = [index[ops[o].store] EXCEPT !.of[ops[o].id] = None]]
    BY <1>8 DEF Look
  <2>3. [index[ops[o].store] EXCEPT !.of[ops[o].id] = None] # None
    BY <1>7, <2>1 DEF Optional
  <2>4. UNCHANGED <<attached, stores, closing, timer, listing, pending, events, clashes, rows>>
    BY <1>8 DEF Look, store, lives, feed
  <2>5. CASE index' = index
    BY <1>2, <2>4, <2>5
  <2>6. CASE index' = [index EXCEPT ![ops[o].store] = [index[ops[o].store] EXCEPT !.of[ops[o].id] = None]]
    <3>1. index'[ops[o].store] # None /\ \A t \in 1..MaxStores : t # ops[o].store => index'[t] = index[t]
      BY <1>6, <2>1, <2>3, <2>6
    <3> QED BY <1>1, <2>1, <2>4, <3>1
  <2> QED BY <2>2, <2>5, <2>6
<1>9. ASSUME NEW o \in Ops, Put(o) PROVE SessionInv'
  <2>1. ops[o].store \in 1..stores /\ \A t \in 1..MaxStores : t # ops[o].store => rows'[t] = rows[t]
    BY <1>9, <1>d, PutWrites DEF Put
  <2>2. UNCHANGED <<attached, stores, closing, timer, listing, pending, events, index>> /\ clashes \subseteq clashes'
    BY <1>9, ClashesGrow DEF Put, store, lives, feed
  <2> QED BY <1>1, <2>1, <2>2
<1>10. ASSUME NEW o \in Ops, MapEnvelope(o) PROVE SessionInv'
  <2>1. ops[o].store \in 1..stores /\ index[ops[o].store] # None
    BY <1>10, <1>c DEF MapEnvelope, Ready, Running
  <2>2. [index[ops[o].store] EXCEPT !.of[ops[o].id] = ops[o].env] # None
    BY <1>7, <1>a, <2>1, CallFields
  <2>3. index' = [index EXCEPT ![ops[o].store] = [index[ops[o].store] EXCEPT !.of[ops[o].id] = ops[o].env]]
    BY <1>10 DEF MapEnvelope
  <2>4. UNCHANGED <<attached, stores, closing, timer, listing, pending, events, rows>> /\ clashes \subseteq clashes'
    BY <1>10, ClashesGrow DEF MapEnvelope, store, lives, feed
  <2>5. index'[ops[o].store] # None /\ \A t \in 1..MaxStores : t # ops[o].store => index'[t] = index[t]
    BY <1>6, <2>1, <2>2, <2>3
  <2> QED BY <1>1, <2>1, <2>4, <2>5
<1>11. ASSUME NEW o \in Ops, Patch(o) PROVE SessionInv'
  <2>1. ops[o].store \in 1..stores /\ \A t \in 1..MaxStores : t # ops[o].store => rows'[t] = rows[t]
    BY <1>11, <1>d, PatchWrites DEF Patch
  <2>2. UNCHANGED <<attached, stores, closing, timer, listing, pending, events, index, clashes>>
    BY <1>11 DEF Patch, store, lives, feed
  <2> QED BY <1>1, <2>1, <2>2
<1>12. ASSUME NEW o \in Ops, Bury(o) PROVE SessionInv'
  <2>1. ops[o].store \in 1..stores /\ \A t \in 1..MaxStores : t # ops[o].store => rows'[t] = rows[t]
    BY <1>12, <1>d, BuryWrites DEF Bury
  <2>2. UNCHANGED <<attached, stores, closing, timer, listing, pending, events, clashes>>
    BY <1>12 DEF Bury, store, lives, feed
  <2>3. /\ \A t \in 1..MaxStores : t # ops[o].store => index'[t] = index[t]
        /\ index[ops[o].store] # None => index'[ops[o].store] # None
    <3>1. \/ index' = index
          \/ /\ index[ops[o].store] # None
             /\ index' = [index EXCEPT ![ops[o].store] = [index[ops[o].store] EXCEPT !.of[ops[o].id] = None]]
      BY <1>12 DEF Bury, Mapped
    <3>2. index[ops[o].store] # None => [index[ops[o].store] EXCEPT !.of[ops[o].id] = None] # None
      <4> HAVE index[ops[o].store] # None
      <4> QED BY <1>7, <2>1 DEF Optional
    <3> QED BY <1>6, <2>1, <3>1, <3>2
  <2> QED BY <1>1, <2>1, <2>2, <2>3
<1>13. ASSUME NEW p \in Pulls, Pull(p) PROVE SessionInv'
  <2>1. PICK e \in Envelopes, doc \in Docs, dead \in BOOLEAN :
          Installed(p, e, doc, dead)
    BY <1>13, PullInstalls
  <2>2. UNCHANGED <<attached, stores, closing, timer, listing, pending, index>>
    BY <1>13 DEF Pull, lives
  <2>3. \A c \in events' : c.store \in 1..stores'
    <3>1. events' = events \cup {[store |-> attached, env |-> e, doc |-> doc, dead |-> dead]}
      BY <2>1 DEF Install, Installed
    <3>2. attached \in 1..stores
      BY <1>a, <2>1 DEF Installed
    <3> QED BY <2>2, <3>1, <3>2 DEF SessionInv
  <2>4. \A t \in 1..MaxStores : t > stores' => index'[t] = None /\ rows'[t] = NoRows
    <3> SUFFICES ASSUME NEW t \in 1..MaxStores, t > stores PROVE rows'[t] = NoRows /\ index[t] = None
      BY <2>2
    <3>1. t # attached
      BY <1>a
    <3> QED BY <2>1, <3>1 DEF SessionInv, Installed
  <2> QED BY <1>b, <2>1, <2>2, <2>3, <2>4 DEF SessionInv, InUse, Installed
<1>14. ASSUME NEW c \in events, Deliver(c) PROVE SessionInv'
  <2>1. c.store \in 1..stores /\ c \in Change
    BY Events DEF SessionInv
  <2>2. UNCHANGED <<attached, stores, closing, timer, listing, rows>> /\ events' \subseteq events
    BY <1>14 DEF Deliver, lives
  <2>3. CASE c.store # attached \/ StaleTombstone(c)
    BY <1>2, <1>14, <2>2, <2>3 DEF Deliver
  <2>4. CASE ~(c.store # attached \/ StaleTombstone(c))
    <3>1. attached # 0 /\ c.store = stores /\ attached = stores
      BY <2>1, <2>4 DEF SessionInv
    <3>2. pending' = Append(pending, c)
      BY <1>14, <2>4 DEF Deliver
    <3>3. \A k \in DOMAIN pending' : pending'[k].store = stores' /\ InUse'
      <4> SUFFICES ASSUME NEW k \in DOMAIN pending' PROVE pending'[k].store = stores
        BY <2>2, <3>1 DEF InUse
      <4>1. pending \in Seq(Change)
        BY DEF TypeOK
      <4>2. k \in DOMAIN pending \/ pending'[k] = c
        BY <2>1, <3>2, <4>1
      <4>3. k \in DOMAIN pending => pending'[k] = pending[k]
        BY <2>1, <3>2, <4>1
      <4> QED BY <3>1, <4>2, <4>3 DEF SessionInv
    <3>4. Uncrossed' => listing = None
      <4> SUFFICES ASSUME listing # None PROVE "list" \in clashes'
        BY DEF Uncrossed
      <4> QED BY <1>14, <3>1 DEF Deliver, Crossed
    <3>5. /\ \A t \in 1..MaxStores : t # c.store => index'[t] = index[t]
          /\ index[c.store] # None => index'[c.store] # None
      <4>1. \/ index' = index
            \/ /\ index[c.store] # None
               /\ index' = [index EXCEPT ![c.store] = [index[c.store] EXCEPT !.of[c.doc.id] = IF c.dead THEN None ELSE c.env]]
        BY <1>14 DEF Deliver
      <4>2. (IF c.dead THEN None ELSE c.env) \in Optional(Envelopes)
        BY Events DEF Optional
      <4>3. index[c.store] # None => [index[c.store] EXCEPT !.of[c.doc.id] = IF c.dead THEN None ELSE c.env] # None
        BY <1>7, <2>1, <4>2
      <4> QED BY <1>6, <2>1, <4>1, <4>3
    <3>6. \A t \in 1..MaxStores : t > stores' => index'[t] = None /\ rows'[t] = NoRows
      <4> SUFFICES ASSUME NEW t \in 1..MaxStores, t > stores PROVE rows[t] = NoRows /\ index'[t] = None
        BY <2>2
      <4>1. t # c.store
        BY <1>a, <3>1
      <4> QED BY <3>5, <4>1 DEF SessionInv
    <3>7. InUse' /\ index'[stores'] = None => attached' # 0 /\ listing' # None
      BY <2>2, <3>1, <3>5 DEF SessionInv, InUse
    <3> QED BY <1>b, <2>2, <3>3, <3>4, <3>6, <3>7 DEF SessionInv
  <2> QED BY <2>3, <2>4
<1>15. ASSUME NEW c \in events, Undecodable(c) PROVE SessionInv'
  <2>1. attached # 0
    <3>1. c.store \in 1..stores /\ c.store = attached
      BY <1>15 DEF SessionInv, Undecodable
    <3> QED BY <1>a, <3>1
  <2> QED BY <1>15, <1>b, <2>1 DEF Undecodable, SessionInv, InUse, store, held, lives
<1>16. CASE Flush
  <2>1. DOMAIN pending' = {} /\ pending' = <<>>
    BY <1>16 DEF Flush
  <2>2. UNCHANGED <<attached, stores, closing, timer, listing, index, rows, events>>
    BY <1>16 DEF Flush, held, lives, feed
  <2> QED BY <1>b, <2>1, <2>2 DEF SessionInv, InUse
<1>17. CASE Rehydrate
  <2>1. attached # 0 /\ attached = stores /\ pending = <<>>
    BY <1>17 DEF Rehydrate, Flushed, SessionInv
  <2>2. listing'.store = stores /\ timer' = FALSE /\ listing' = [store |-> attached, seen |-> rows[attached]]
    BY <1>17, <2>1 DEF Rehydrate
  <2>3. listing' # None
    <3>1. rows[attached] \in Listing /\ attached \in Nat
      BY <1>a, <2>1
    <3>2. [store |-> attached, seen |-> rows[attached]] \in Listed
      BY <3>1 DEF Listed
    <3> QED BY <2>2, <3>2, NoneIsApart
  <2>4. UNCHANGED <<attached, stores, closing, pending, index, rows, events>>
    BY <1>17 DEF Rehydrate, store, held, lives, feed
  <2> QED BY <1>a, <1>b, <2>1, <2>2, <2>3, <2>4 DEF SessionInv, InUse
<1>18. CASE Hydrated
  <2>1. listing # None /\ listing' = None /\ listing.store = stores /\ stores \in 1..MaxStores
    BY <1>18, <1>a DEF Hydrated, SessionInv
  <2>2. index' = [index EXCEPT ![stores] = ListIndex(stores, listing.seen)]
    BY <1>18, <2>1 DEF Hydrated
  <2>3. ListIndex(stores, listing.seen) # None
    <3>1. \A i \in Ids : OneOf(LiveOf(listing.seen, i)) \in Optional(Envelopes)
      BY DEF OneOf, LiveOf, Live, Optional
    <3>2. IndexOf(listing.seen) \in [Ids -> Optional(Envelopes)]
      BY <3>1 DEF IndexOf
    <3>3. index[stores] = None \/ index[stores] \in Index
      BY <1>a, <2>1 DEF Optional
    <3>4. index[stores] = None \/ index[stores].at \in Nat
      BY <3>3 DEF Index
    <3>5. ListIndex(stores, listing.seen) \in Index
      BY <3>2, <3>4 DEF ListIndex, Index
    <3> QED BY <3>5, NoneIsApart
  <2>4. UNCHANGED <<attached, stores, closing, pending, rows, timer, events>>
    BY <1>18 DEF Hydrated, lives, feed
  <2>5. stores \in 1..stores
    BY <1>a, <2>1
  <2>6. index'[stores] # None /\ \A t \in 1..MaxStores : t # stores => index'[t] = index[t]
    BY <1>6, <2>2, <2>3, <2>5
  <2>7. \A t \in 1..MaxStores : t > stores' => index'[t] = None /\ rows'[t] = NoRows
    <3> SUFFICES ASSUME NEW t \in 1..MaxStores, t > stores PROVE rows[t] = NoRows /\ index'[t] = None
      BY <2>4
    <3>1. t # stores
      BY <1>a
    <3> QED BY <2>6, <3>1 DEF SessionInv
  <2> QED BY <1>b, <2>1, <2>4, <2>6, <2>7 DEF SessionInv, InUse
<1>19. ASSUME NEW swaps \in BOOLEAN, Detach(swaps) PROVE SessionInv'
  <2>1. attached' = 0 /\ closing' = attached /\ ~timer' /\ attached # 0 /\ index[attached] # None
    BY <1>19 DEF Detach
  <2>2. UNCHANGED <<stores, listing, pending, index, rows, events, clashes>>
    BY <1>19 DEF Detach, store, held, feed
  <2>3. attached = stores
    BY <2>1 DEF SessionInv
  <2> QED BY <2>1, <2>2, <2>3 DEF SessionInv, InUse, Uncrossed
<1>20. CASE CloseAndClear
  <2>1. closing # 0 /\ closing' = 0 /\ pending' = <<>> /\ DOMAIN pending' = {} /\ attached = 0 /\ closing = stores
    BY <1>20 DEF CloseAndClear, SessionInv
  <2>2. UNCHANGED <<attached, stores, listing, timer, index, rows, events>>
    BY <1>20 DEF CloseAndClear, held, feed
  <2>3. Uncrossed' => listing = None
    <3> SUFFICES ASSUME listing # None PROVE "outlived" \in clashes'
      BY DEF Uncrossed
    <3>1. listing.store = closing
      BY <2>1 DEF SessionInv
    <3> QED BY <1>20, <3>1 DEF CloseAndClear, Crossed
  <2> QED BY <2>1, <2>2, <2>3 DEF SessionInv, InUse
<1>21. CASE Attach
  <2>1. attached = 0 /\ closing = 0 /\ attached' = stores + 1 /\ stores' = stores + 1 /\ closing' = closing
        /\ stores + 1 \in 1..MaxStores
    BY <1>21, <1>a DEF Attach
  <2>2. UNCHANGED <<pending, index, events, timer>> /\ listing' = [store |-> stores + 1, seen |-> rows'[stores + 1]]
    BY <1>21 DEF Attach, store
  <2>3. listing'.store = stores' /\ listing' # None
    <3>1. rows'[stores + 1] \in Listing /\ stores + 1 \in Nat
      BY <1>a, <2>1 DEF TypeOK
    <3>2. [store |-> stores + 1, seen |-> rows'[stores + 1]] \in Listed
      BY <3>1 DEF Listed
    <3> QED BY <2>1, <2>2, <3>2, NoneIsApart
  <2>4. pending = <<>> /\ DOMAIN pending = {}
    <3>1. DOMAIN pending = {}
      BY <2>1 DEF SessionInv, InUse
    <3>2. pending \in Seq(Change)
      BY DEF TypeOK
    <3> QED BY <3>1, <3>2, EmptySeq
  <2>5. \A t \in 1..MaxStores : t > stores' => index'[t] = None /\ rows'[t] = NoRows
    <3> SUFFICES ASSUME NEW t \in 1..MaxStores, t > stores + 1 PROVE rows'[t] = NoRows /\ index[t] = None
      BY <2>1, <2>2
    <3>1. t > stores /\ t # stores + 1
      BY <1>a
    <3>2. rows'[t] = rows[t]
      BY <1>21, <1>a, <3>1 DEF Attach
    <3> QED BY <3>1, <3>2 DEF SessionInv
  <2>6. \A c \in events' : c.store \in 1..stores'
    <3>1. \A c \in events : c.store \in 1..stores
      BY DEF SessionInv
    <3> QED BY <1>a, <2>1, <2>2, <3>1
  <2>7. stores' # 0 /\ attached' # 0
    BY <1>a, <2>1
  <2> QED BY <2>1, <2>2, <2>3, <2>4, <2>5, <2>6, <2>7 DEF SessionInv, InUse
<1>22. CASE EndSwap \/ UNCHANGED vars
  BY <1>2, <1>22 DEF EndSwap, vars, store, held, lives, feed
<1> QED BY <1>3, <1>4, <1>5, <1>8, <1>9, <1>10, <1>11, <1>12, <1>13, <1>14, <1>15, <1>16, <1>17, <1>18, <1>19,
  <1>20, <1>21, <1>22 DEF Next, Persist

(***************************************************************************)
(* What each kind of step does, call by call and document by document      *)
(***************************************************************************)
\* The entry of a queue, read field by field.
LEMMA EntryAt ==
  ASSUME TypeOK, ShapeInv, NEW i \in Ids, inFlight[i] # None
  PROVE  /\ inFlight[i] \in Entry /\ Queue(i) \in Seq(Ops) /\ Queue(i) # <<>>
         /\ Len(Queue(i)) \in Nat /\ Len(Queue(i)) >= 1 /\ DOMAIN Queue(i) = 1..Len(Queue(i))
         /\ 1 \in DOMAIN Queue(i) /\ Head(Queue(i)) = Queue(i)[1] /\ Head(Queue(i)) \in Ops
         /\ inFlight[i].latest \in Optional(Docs) /\ inFlight[i].confirmed \in Optional(Docs)
         /\ inFlight[i].moved \in BOOLEAN
         /\ \A k \in DOMAIN Queue(i) : /\ Queue(i)[k] \in Ops /\ Busy(Queue(i)[k]) /\ ops[Queue(i)[k]].id = i
                                       /\ k > 1 => ops[Queue(i)[k]].st = "queued"
         /\ \A j, k \in DOMAIN Queue(i) : j # k => Queue(i)[j] # Queue(i)[k]
<1>1. inFlight[i] \in Entry
  BY DEF TypeOK, Optional
<1>2. Queue(i) # <<>>
  BY DEF ShapeInv, QueueShape
<1>3. Queue(i) \in Seq(Ops)
  BY <1>1, EntryFields DEF Queue
<1>4. Len(Queue(i)) \in Nat /\ Len(Queue(i)) >= 1 /\ DOMAIN Queue(i) = 1..Len(Queue(i)) /\ 1 \in DOMAIN Queue(i)
      /\ Head(Queue(i)) = Queue(i)[1] /\ Head(Queue(i)) \in Ops /\ \A k \in DOMAIN Queue(i) : Queue(i)[k] \in Ops
  BY <1>2, <1>3, QueueParts
<1> QED BY <1>1, <1>2, <1>3, <1>4, EntryFields DEF ShapeInv, QueueShape

\* A verb is called.
IssueEffect(o, kind, i) ==
  /\ ops[o].st = "new" /\ ops'[o].st = "queued" /\ ops'[o].kind = kind /\ ops'[o].id = i /\ ops'[o].store = 0
  /\ ops'[o].env = None /\ ops'[o].seen = None
  /\ kind = "remove" => ops'[o].doc = None
  /\ kind # "remove" => /\ ops'[o].doc \in Docs /\ ops'[o].doc # None /\ ops'[o].doc.id = i
                        /\ ops'[o].doc.ts = clock + 1 /\ ops'[o].doc.src = o
  /\ \A b \in Ops : b # o => ops'[b] = ops[b]
  /\ \A j \in Ids : j # i => inFlight'[j] = inFlight[j] /\ byId'[j] = byId[j]
  /\ inFlight'[i] # None
  /\ inFlight[i] # None =>
       /\ Queue(i)' = Append(Queue(i), o)
       /\ inFlight'[i].confirmed = inFlight[i].confirmed /\ inFlight'[i].moved = inFlight[i].moved
       /\ kind = "remove" => inFlight'[i].latest = inFlight[i].latest
  /\ inFlight[i] = None =>
       /\ Queue(i)' = <<o>> /\ Len(Queue(i)') = 1 /\ DOMAIN Queue(i)' = {1} /\ Queue(i)'[1] = o /\ Head(Queue(i)') = o
       /\ inFlight'[i].confirmed = byId[i] /\ inFlight'[i].moved = (Outstanding(i) # {})
       /\ kind = "remove" => inFlight'[i].latest = byId[i]
  /\ kind # "remove" => inFlight'[i].latest = ops'[o].doc /\ byId'[i] = ops'[o].doc
  /\ kind = "remove" => byId'[i] = byId[i]
  /\ clock' = clock + 1
  /\ UNCHANGED <<pending, rows, index, attached, stores, closing, swap, listing, timer, events, pulled>>

\* What issuing a call does to the call, its queue and what is shown.
LEMMA IssueDoes ==
  ASSUME TypeOK, ShapeInv, NEW o \in Ops, NEW kind \in Kinds, NEW i \in Ids, Issue(o, kind, i)
  PROVE  IssueEffect(o, kind, i)
<1>1. clock \in Nat /\ ops \in [Ops -> Call] /\ inFlight \in [Ids -> Optional(Entry)] /\ byId \in [Ids -> Optional(Docs)]
  BY DEF TypeOK
<1>2. PICK doc \in Optional(Docs) : doc = IF kind = "remove" THEN None ELSE [id |-> i, ts |-> clock + 1, src |-> o]
  <2>1. [id |-> i, ts |-> clock + 1, src |-> o] \in Docs
    BY <1>1 DEF Docs
  <2> QED BY <2>1 DEF Optional
<1>3. /\ kind = "remove" => doc = None
      /\ kind # "remove" => doc \in Docs /\ doc # None /\ doc.id = i /\ doc.ts = clock + 1 /\ doc.src = o
  <2>1. [id |-> i, ts |-> clock + 1, src |-> o] \in Docs
    BY <1>1 DEF Docs
  <2> QED BY <1>2, <2>1, NoneIsApart
<1>4. PICK r : r = [NewCall EXCEPT !.st = "queued", !.kind = kind, !.id = i, !.doc = doc]
  OBVIOUS
<1>5. r.st = "queued" /\ r.kind = kind /\ r.id = i /\ r.doc = doc /\ r.store = 0 /\ r.env = None /\ r.seen = None
  BY <1>4 DEF NewCall
<1>6. ops' = [ops EXCEPT ![o] = r] /\ ops[o].st = "new"
  BY <1>2, <1>4 DEF Issue
<1>7. ops'[o] = r /\ \A b \in Ops : b # o => ops'[b] = ops[b]
  BY <1>1, <1>6
<1>8. PICK en \in Entry : /\ en = Entered(i)
                          /\ inFlight[i] # None => en = inFlight[i]
                          /\ inFlight[i] = None => /\ en.queue = <<>> /\ en.latest = byId[i] /\ en.confirmed = byId[i]
                                                   /\ en.moved = (Outstanding(i) # {})
  <2>1. byId[i] \in Optional(Docs) /\ (Outstanding(i) # {}) \in BOOLEAN /\ <<>> \in Seq(Ops)
    BY <1>1
  <2>2. [queue |-> <<>>, latest |-> byId[i], confirmed |-> byId[i], moved |-> Outstanding(i) # {}] \in Entry
    BY <2>1 DEF Entry
  <2>3. inFlight[i] # None => inFlight[i] \in Entry
    BY <1>1 DEF Optional
  <2> QED BY <2>2, <2>3 DEF Entered
<1>9. PICK fe : fe = [en EXCEPT !.queue = Append(@, o)]
  OBVIOUS
<1>9a. /\ fe \in Entry /\ fe.queue = Append(en.queue, o)
       /\ fe.latest = en.latest /\ fe.confirmed = en.confirmed /\ fe.moved = en.moved
  <2>1. Append(en.queue, o) \in Seq(Ops)
    BY EntryFields, QueueAppend
  <2> QED BY <1>9, <2>1 DEF Entry
<1>10. PICK ge : ge = [fe EXCEPT !.latest = doc]
  OBVIOUS
<1>10a. /\ ge \in Entry /\ ge.queue = fe.queue
        /\ ge.latest = doc /\ ge.confirmed = fe.confirmed /\ ge.moved = fe.moved
  BY <1>9a, <1>10 DEF Entry
<1>11. IF kind = "remove" THEN inFlight' = [inFlight EXCEPT ![i] = fe] /\ UNCHANGED byId
       ELSE inFlight' = [inFlight EXCEPT ![i] = ge] /\ byId' = [byId EXCEPT ![i] = doc]
  BY <1>2, <1>8, <1>9, <1>10 DEF Issue
<1>12. /\ inFlight'[i] = IF kind = "remove" THEN fe ELSE ge
       /\ \A j \in Ids : j # i => inFlight'[j] = inFlight[j] /\ byId'[j] = byId[j]
       /\ kind # "remove" => byId'[i] = doc
       /\ kind = "remove" => byId'[i] = byId[i]
  BY <1>1, <1>11
<1>13. inFlight'[i] # None /\ inFlight'[i].queue = fe.queue
  BY <1>9a, <1>10a, <1>12, NoneIsApart
<1>14. inFlight[i] # None => Queue(i)' = Append(Queue(i), o)
  BY <1>8, <1>9a, <1>13 DEF Queue
<1>15. inFlight[i] = None => /\ Queue(i)' = <<o>> /\ Len(Queue(i)') = 1 /\ DOMAIN Queue(i)' = {1} /\ Queue(i)'[1] = o
                             /\ Head(Queue(i)') = o
  <2> HAVE inFlight[i] = None
  <2>1. Queue(i)' = Append(<<>>, o)
    BY <1>8, <1>9a, <1>13 DEF Queue
  <2>2. PICK z : z = Append(<<>>, o)
    OBVIOUS
  <2>3. z = <<o>> /\ Len(z) = 1 /\ DOMAIN z = {1} /\ z[1] = o /\ Head(z) = o
    BY <2>2
  <2> QED BY <2>1, <2>2, <2>3
<1>16. /\ clock' = clock + 1
       /\ UNCHANGED <<pending, rows, index, attached, stores, closing, swap, listing, timer, events, pulled>>
  BY DEF Issue, held, lives, feed
<1> QED BY <1>3, <1>5, <1>6, <1>7, <1>8, <1>9a, <1>10a, <1>12, <1>13, <1>14, <1>15, <1>16 DEF IssueEffect

\* A call under way takes a step that settles nothing.
MoveEffect(o) ==
  /\ ops'[o].kind = ops[o].kind /\ ops'[o].id = ops[o].id /\ ops'[o].doc = ops[o].doc
  /\ \A b \in Ops : b # o => ops'[b] = ops[b]
  /\ UNCHANGED <<byId, inFlight, pending, attached, stores, closing, swap, listing, timer, events, pulled, clock>>

\* What the steps of a persist do to the call that takes them.
LEMMA MoveDoes ==
  ASSUME TypeOK, ShapeInv, NEW o \in Ops
  PROVE  /\ Start(o) => /\ MoveEffect(o) /\ UNCHANGED <<rows, index>>
                        /\ ops'[o].st = (IF ops[o].kind = "insert" THEN "put" ELSE "look")
                        /\ ops'[o].store = attached /\ ops'[o].env = None /\ ops'[o].seen = None
                        /\ ops[o].st = "queued" /\ Head(Queue(ops[o].id)) = o /\ ~swap /\ attached # 0
         /\ ListForIndex(o) => /\ MoveEffect(o) /\ UNCHANGED <<rows, index>>
                        /\ ops'[o].st = ops[o].st /\ ops'[o].store = ops[o].store /\ ops'[o].env = ops[o].env
                        /\ ops'[o].seen = rows[ops[o].store]
         /\ SetIndex(o) => /\ MoveEffect(o) /\ UNCHANGED rows
                        /\ ops'[o].st = ops[o].st /\ ops'[o].store = ops[o].store /\ ops'[o].env = ops[o].env
                        /\ ops'[o].seen = None
         /\ MapEnvelope(o) \/ Patch(o) \/ Bury(o) =>
                        /\ MoveEffect(o) /\ ops'[o].st = "done" /\ ops'[o].store = ops[o].store
                        /\ ops'[o].env = ops[o].env /\ ops'[o].seen = None /\ ops[o].seen = None
         /\ MapEnvelope(o) => UNCHANGED rows
         /\ Patch(o) => UNCHANGED index
         /\ Put(o) => /\ MoveEffect(o) /\ UNCHANGED index /\ ops'[o].st = "map" /\ ops'[o].store = ops[o].store
                      /\ ops'[o].env = o /\ ops'[o].seen = None
<1>1. ops[o] \in Call /\ CallShape(o) /\ ops \in [Ops -> Call] /\ attached \in Nat /\ rows \in [1..MaxStores -> Listing]
  BY DEF TypeOK, ShapeInv
<1>2. PICK c \in Call : c = ops[o]
  BY <1>1
<1>3. \A r : ops' = [ops EXCEPT ![o] = r] => ops'[o] = r /\ \A b \in Ops : b # o => ops'[b] = ops[b]
  BY <1>1
<1>4. ASSUME Start(o)
      PROVE  /\ MoveEffect(o) /\ UNCHANGED <<rows, index>>
             /\ ops'[o].st = (IF ops[o].kind = "insert" THEN "put" ELSE "look")
             /\ ops'[o].store = attached /\ ops'[o].env = None /\ ops'[o].seen = None
             /\ ops[o].st = "queued" /\ Head(Queue(ops[o].id)) = o /\ ~swap /\ attached # 0
  <2>1. ops[o].st = "queued" /\ Head(Queue(ops[o].id)) = o /\ ~swap /\ attached # 0
    BY <1>4 DEF Start, Turn, Queue
  <2>2. PICK st : st = IF c.kind = "insert" THEN "put" ELSE "look"
    OBVIOUS
  <2>3. PICK r : r = [c EXCEPT !.st = st, !.store = attached]
    OBVIOUS
  <2>3a. /\ r.kind = c.kind /\ r.id = c.id /\ r.doc = c.doc /\ r.st = st /\ r.store = attached
        /\ r.env = c.env /\ r.seen = c.seen
    BY <2>3 DEF Call
  <2>4. ops' = [ops EXCEPT ![o] = r]
    BY <1>2, <1>4, <2>2, <2>3 DEF Start
  <2>5. UNCHANGED <<byId, inFlight, pending, attached, stores, closing, swap, listing, timer, events, pulled, clock, rows, index>>
    BY <1>4 DEF Start, store, held, lives, feed
  <2> QED BY <1>1, <1>2, <1>3, <2>1, <2>2, <2>3, <2>3a, <2>4, <2>5 DEF MoveEffect, CallShape
<1>5. ASSUME ListForIndex(o) \/ SetIndex(o)
      PROVE  /\ MoveEffect(o) /\ UNCHANGED rows /\ (ListForIndex(o) => UNCHANGED index /\ ops'[o].seen = rows[ops[o].store])
             /\ ops'[o].st = ops[o].st /\ ops'[o].store = ops[o].store /\ ops'[o].env = ops[o].env
             /\ SetIndex(o) => ops'[o].seen = None
  <2>1. PICK seen : ops' = [ops EXCEPT ![o] = [c EXCEPT !.seen = seen]]
                    /\ (ListForIndex(o) => seen = rows[ops[o].store]) /\ (SetIndex(o) => seen = None)
    <3>1. ListForIndex(o) => ops[o].seen = None
      BY DEF ListForIndex
    <3>2. SetIndex(o) => ops[o].seen # None
      BY DEF SetIndex
    <3> QED BY <1>2, <1>5, <3>1, <3>2 DEF ListForIndex, SetIndex
  <2>2. PICK r : r = [c EXCEPT !.seen = seen]
    OBVIOUS
  <2>2a. /\ r.kind = c.kind /\ r.id = c.id /\ r.doc = c.doc /\ r.st = c.st /\ r.store = c.store
        /\ r.env = c.env /\ r.seen = seen
    BY <2>2 DEF Call
  <2>3. UNCHANGED <<byId, inFlight, pending, attached, stores, closing, swap, listing, timer, events, pulled, clock, rows>>
    BY <1>5 DEF ListForIndex, SetIndex, store, held, lives, feed
  <2>4. ListForIndex(o) => UNCHANGED index
    BY DEF ListForIndex, held
  <2> QED BY <1>2, <1>3, <2>1, <2>2, <2>2a, <2>3, <2>4 DEF MoveEffect
<1>6. ASSUME MapEnvelope(o) \/ Patch(o) \/ Bury(o)
      PROVE  /\ MoveEffect(o) /\ ops'[o].st = "done" /\ ops'[o].store = ops[o].store
             /\ ops'[o].env = ops[o].env /\ ops'[o].seen = None /\ ops[o].seen = None
  <2>1. ops' = [ops EXCEPT ![o] = [c EXCEPT !.st = "done"]] /\ c.seen = None
    BY <1>1, <1>2, <1>6 DEF MapEnvelope, Patch, Bury, Ready, CallShape
  <2>2. PICK r : r = [c EXCEPT !.st = "done"]
    OBVIOUS
  <2>2a. /\ r.kind = c.kind /\ r.id = c.id /\ r.doc = c.doc /\ r.st = "done" /\ r.store = c.store
        /\ r.env = c.env /\ r.seen = c.seen
    BY <2>2 DEF Call
  <2>3. UNCHANGED <<byId, inFlight, pending, attached, stores, closing, swap, listing, timer, events, pulled, clock>>
    BY <1>6 DEF MapEnvelope, Patch, Bury, store, lives, feed
  <2> QED BY <1>2, <1>3, <2>1, <2>2, <2>2a, <2>3 DEF MoveEffect
<1>7. ASSUME Put(o)
      PROVE  /\ MoveEffect(o) /\ UNCHANGED index /\ ops'[o].st = "map" /\ ops'[o].store = ops[o].store
             /\ ops'[o].env = o /\ ops'[o].seen = None
  <2>1. ops' = [ops EXCEPT ![o] = [c EXCEPT !.st = "map", !.env = o]] /\ c.seen = None
    BY <1>1, <1>2, <1>7 DEF Put, CallShape
  <2>2. PICK r : r = [c EXCEPT !.st = "map", !.env = o]
    OBVIOUS
  <2>2a. /\ r.kind = c.kind /\ r.id = c.id /\ r.doc = c.doc /\ r.st = "map" /\ r.store = c.store
        /\ r.env = o /\ r.seen = c.seen
    BY <2>2 DEF Call
  <2>3. UNCHANGED <<byId, inFlight, pending, attached, stores, closing, swap, listing, timer, events, pulled, clock, index>>
    BY <1>7 DEF Put, store, lives, feed
  <2> QED BY <1>2, <1>3, <2>1, <2>2, <2>2a, <2>3 DEF MoveEffect
<1>8. (MapEnvelope(o) => UNCHANGED rows) /\ (Patch(o) => UNCHANGED index)
  BY DEF MapEnvelope, Patch
<1> QED BY <1>4, <1>5, <1>6, <1>7, <1>8

\* One document's place in an index, rewritten.
LEMMA IndexWrites ==
  ASSUME TypeOK, NEW s \in 1..MaxStores, index[s] # None, NEW i \in Ids, NEW e \in Optional(Envelopes),
         index' = [index EXCEPT ![s] = [index[s] EXCEPT !.of[i] = e]]
  PROVE  /\ index'[s] # None /\ index'[s].of[i] = e /\ index'[s].at = index[s].at
         /\ \A j \in Ids : j # i => index'[s].of[j] = index[s].of[j]
         /\ \A t \in 1..MaxStores : t # s => index'[t] = index[t]
<1>1. index \in [1..MaxStores -> Optional(Index)]
  BY DEF TypeOK
<1>2. PICK x \in Index : x = index[s]
  BY <1>1 DEF Optional
<1>3. PICK y : y = [x EXCEPT !.of[i] = e]
  OBVIOUS
<1>4. /\ y \in Index /\ y.of[i] = e /\ y.at = x.at /\ \A j \in Ids : j # i => y.of[j] = x.of[j]
  BY <1>3 DEF Index
<1>5. index' = [index EXCEPT ![s] = y]
  BY <1>2, <1>3
<1>6. index'[s] = y /\ \A t \in 1..MaxStores : t # s => index'[t] = index[t]
  BY <1>1, <1>5
<1> QED BY <1>2, <1>4, <1>6, NoneIsApart

\* An index maps each document to an envelope or to none.
LEMMA IndexFields ==
  ASSUME TypeOK, NEW s \in 1..MaxStores, index[s] # None
  PROVE  index[s] \in Index /\ index[s].at \in Nat /\ \A i \in Ids : index[s].of[i] \in Optional(Envelopes)
<1>1. index[s] \in Index
  BY DEF TypeOK, Optional
<1> QED BY <1>1 DEF Index

LookEffect(o, s, i, e) ==
  /\ ops[o].st = "look" /\ ops[o].seen = None /\ index[s] # None /\ ops[o].kind # "insert" /\ ops[o].env = None
  /\ MoveEffect(o) /\ UNCHANGED rows /\ ops'[o].store = s /\ ops'[o].seen = None
  /\ \/ /\ e # None /\ rows[s][e] # None /\ ~rows[s][e].dead
        /\ ops'[o].env = e /\ index' = index
        /\ ops'[o].st = (IF Writes(o) THEN "patch" ELSE "bury")
     \/ /\ e = None \/ rows[s][e] = None \/ rows[s][e].dead
        /\ ops'[o].env = None /\ index' = [index EXCEPT ![s] = [index[s] EXCEPT !.of[i] = None]]
        /\ ops'[o].st = (IF Writes(o) THEN "put" ELSE "done")

\* What looking the envelope up does to the call and to the index.
LEMMA LookDoes ==
  ASSUME TypeOK, ShapeInv, NEW o \in Ops, Look(o)
  PROVE  LookEffect(o, ops[o].store, ops[o].id, index[ops[o].store].of[ops[o].id])
<1>1. ops[o] \in Call /\ CallShape(o) /\ ops \in [Ops -> Call]
  BY DEF TypeOK, ShapeInv
<1>2. PICK c \in Call : c = ops[o]
  BY <1>1
<1>e. PICK e : e = index[c.store].of[c.id]
  OBVIOUS
<1>f. PICK found \in BOOLEAN : found <=> e # None /\ rows[c.store][e] # None /\ ~rows[c.store][e].dead
  OBVIOUS
<1>t. PICK st : st = CASE c.kind = "remove" -> IF found THEN "bury" ELSE "done"
                       [] OTHER -> IF found THEN "patch" ELSE "put"
  OBVIOUS
<1>v. PICK env : env = IF found THEN e ELSE None
  OBVIOUS
<1>3. PICK r : r = [c EXCEPT !.env = env, !.at = index[c.store].at, !.st = st]
  OBVIOUS
<1>4. /\ r.id = c.id /\ r.kind = c.kind /\ r.doc = c.doc /\ r.store = c.store /\ r.seen = c.seen
      /\ r.env = env /\ r.st = st
  BY <1>3 DEF Call
<1>5. ops' = [ops EXCEPT ![o] = r]
  BY <1>2, <1>e, <1>f, <1>t, <1>v, <1>3 DEF Look
<1>6. ops'[o] = r /\ \A b \in Ops : b # o => ops'[b] = ops[b]
  BY <1>1, <1>5
<1>7. UNCHANGED <<byId, inFlight, pending, attached, stores, closing, swap, listing, timer, events, pulled, clock, rows>>
  BY DEF Look, store, lives, feed
<1>8. c.st = "look" /\ c.seen = None /\ index[c.store] # None /\ c.kind # "insert" /\ c.env = None
  BY <1>1, <1>2 DEF Look, Ready, CallShape
<1>9. IF found THEN index' = index ELSE index' = [index EXCEPT ![c.store] = [index[c.store] EXCEPT !.of[c.id] = None]]
  BY <1>2, <1>e, <1>f DEF Look
<1> QED BY <1>2, <1>e, <1>f, <1>t, <1>v, <1>4, <1>6, <1>7, <1>8, <1>9 DEF LookEffect, MoveEffect, Writes

\* A call settles: its entry loses its head, or goes with it.
SettleEffect(o, i, st, latest, confirmed, shown) ==
  /\ i = ops[o].id /\ i \in Ids /\ Head(Queue(i)) = o /\ Queue(i)[1] = o /\ inFlight[i] # None
  /\ ops'[o].st = st /\ ops'[o].kind = ops[o].kind /\ ops'[o].id = ops[o].id /\ ops'[o].doc = ops[o].doc
  /\ ops'[o].store = ops[o].store /\ ops'[o].env = ops[o].env /\ ops'[o].seen = None
  /\ \A b \in Ops : b # o => ops'[b] = ops[b]
  /\ \A j \in Ids : j # i => inFlight'[j] = inFlight[j] /\ byId'[j] = byId[j]
  /\ inFlight'[i] = None <=> Len(Queue(i)) = 1
  /\ inFlight'[i] # None =>
       /\ Queue(i)' = Tail(Queue(i)) /\ inFlight'[i].moved = inFlight[i].moved
       /\ inFlight'[i].latest = latest /\ inFlight'[i].confirmed = confirmed
  /\ byId'[i] = shown
  /\ UNCHANGED <<pending, rows, index, attached, stores, closing, swap, listing, timer, events, pulled, clock>>

\* A call that settles leaves its queue, and nothing but its document's entry changes.
LEMMA SettleFacts ==
  ASSUME TypeOK, NEW o \in Ops, NEW i \in Ids, i = ops[o].id, Head(Queue(i)) = o, Queue(i)[1] = o, inFlight[i] # None,
         NEW f \in Entry, f.queue = Queue(i), f.queue # <<>>, NEW st, NEW r, NEW shown,
         r.st = st, r.kind = ops[o].kind, r.id = ops[o].id, r.doc = ops[o].doc, r.store = ops[o].store,
         r.env = ops[o].env, r.seen = None,
         ops'[o] = r, \A b \in Ops : b # o => ops'[b] = ops[b],
         f.moved = inFlight[i].moved,
         inFlight'[i] = Settled(f), \A j \in Ids : j # i => inFlight'[j] = inFlight[j] /\ byId'[j] = byId[j],
         byId'[i] = shown,
         UNCHANGED <<pending, rows, index, attached, stores, closing, swap, listing, timer, events, pulled, clock>>
  PROVE  SettleEffect(o, i, st, f.latest, f.confirmed, shown)
<1>1. /\ inFlight'[i] = None <=> Len(Queue(i)) = 1
      /\ inFlight'[i] # None => /\ inFlight'[i].queue = Tail(Queue(i)) /\ inFlight'[i].moved = inFlight[i].moved
                                /\ inFlight'[i].latest = f.latest /\ inFlight'[i].confirmed = f.confirmed
  <2>1. PICK z : z = Settled(f)
    OBVIOUS
  <2>2. PICK q : q = f.queue
    OBVIOUS
  <2>3. /\ z = None <=> Len(q) = 1
        /\ z # None => z.queue = Tail(q) /\ z.latest = f.latest /\ z.confirmed = f.confirmed /\ z.moved = f.moved
    BY <2>1, <2>2, SettledTyped
  <2>4. q = Queue(i) /\ inFlight'[i] = z
    BY <2>1, <2>2
  <2> QED BY <2>3, <2>4
<1>2. Queue(i)' = inFlight'[i].queue
  BY DEF Queue
<1> QED BY <1>1, <1>2 DEF SettleEffect

FinishEffect(o, i) ==
  /\ ops[o].st = "done"
  /\ Writes(o) => SettleEffect(o, i, "acked", inFlight[i].latest, ops[o].doc, byId[i])
  /\ ~Writes(o) => SettleEffect(o, i, "acked", None, None, None)
\* What settling an acknowledged call does.
LEMMA FinishDoes ==
  ASSUME TypeOK, ShapeInv, NEW o \in Ops, Finish(o), NEW i \in Ids, i = ops[o].id
  PROVE  FinishEffect(o, i)
<1>1. ops[o] \in Call /\ CallShape(o) /\ ops \in [Ops -> Call] /\ inFlight \in [Ids -> Optional(Entry)]
      /\ byId \in [Ids -> Optional(Docs)]
  BY DEF TypeOK, ShapeInv
<1>2. ops[o].st = "done" /\ ops[o].seen = None /\ Running(o)
  BY <1>1 DEF Finish, CallShape, Running
<1>3. Head(Queue(i)) = o /\ Queue(i)[1] = o /\ inFlight[i] # None /\ Queue(i) # <<>>
  BY <1>2, RunningCall, BusyCall
<1>4. PICK en \in Entry : en = inFlight[i] /\ en.queue = Queue(i) /\ en.queue # <<>>
  BY <1>1, <1>3 DEF Optional, Queue
<1>5. PICK c \in Call : c = ops[o]
  BY <1>1
<1>6. PICK r : r = [c EXCEPT !.st = "acked"]
  OBVIOUS
<1>7. r.st = "acked" /\ r.kind = c.kind /\ r.id = c.id /\ r.doc = c.doc /\ r.store = c.store /\ r.env = c.env /\ r.seen = c.seen
  BY <1>6 DEF Call
<1>8. ops'[o] = r /\ \A b \in Ops : b # o => ops'[b] = ops[b]
  <2>1. ops' = [ops EXCEPT ![o] = r]
    BY <1>5, <1>6 DEF Finish
  <2> QED BY <1>1, <2>1
<1>9. UNCHANGED <<pending, rows, index, attached, stores, closing, swap, listing, timer, events, pulled, clock>>
  BY DEF Finish, held, lives, feed
<1>10. ASSUME Writes(o) PROVE SettleEffect(o, i, "acked", inFlight[i].latest, ops[o].doc, byId[i])
  <2>1. PICK f : f = [en EXCEPT !.confirmed = c.doc]
    OBVIOUS
  <2>2. f \in Entry /\ f.queue = en.queue /\ f.latest = en.latest /\ f.confirmed = c.doc /\ f.moved = en.moved
    BY <2>1, CallFields DEF Entry
  <2>3. inFlight' = [inFlight EXCEPT ![i] = Settled(f)] /\ byId' = byId
    BY <1>4, <1>5, <1>10, <2>1 DEF Finish, Writes
  <2>4. inFlight'[i] = Settled(f) /\ \A j \in Ids : j # i => inFlight'[j] = inFlight[j]
    BY <1>1, <2>3
  <2>5. Queue(i)' = inFlight'[i].queue
    BY DEF Queue
  <2> QED BY <1>2, <1>3, <1>4, <1>5, <1>7, <1>8, <1>9, <2>2, <2>3, <2>4, <2>5, SettleFacts
<1>11. ASSUME ~Writes(o) PROVE SettleEffect(o, i, "acked", None, None, None)
  <2>1. PICK f : f = [en EXCEPT !.latest = None, !.confirmed = None]
    OBVIOUS
  <2>2. f \in Entry /\ f.queue = en.queue /\ f.latest = None /\ f.confirmed = None /\ f.moved = en.moved
    BY <2>1 DEF Entry, Optional
  <2>3. inFlight' = [inFlight EXCEPT ![i] = Settled(f)] /\ byId' = [byId EXCEPT ![i] = None]
    BY <1>4, <1>5, <1>11, <2>1 DEF Finish, Writes
  <2>4. inFlight'[i] = Settled(f) /\ byId'[i] = None /\ \A j \in Ids : j # i => inFlight'[j] = inFlight[j] /\ byId'[j] = byId[j]
    BY <1>1, <2>3
  <2>5. Queue(i)' = inFlight'[i].queue
    BY DEF Queue
  <2> QED BY <1>2, <1>3, <1>4, <1>5, <1>7, <1>8, <1>9, <2>2, <2>4, <2>5, SettleFacts
<1> QED BY <1>2, <1>10, <1>11 DEF FinishEffect

RejectEffect(o, i) ==
  /\ \/ ops[o].st = "queued" /\ ~swap /\ attached = 0
     \/ ops[o].st \in {"look", "put", "map", "patch", "bury"}
  /\ IF Writes(o) /\ inFlight[i].latest = ops[o].doc
     THEN SettleEffect(o, i, "rejected", inFlight[i].confirmed, inFlight[i].confirmed, inFlight[i].confirmed)
     ELSE SettleEffect(o, i, "rejected", inFlight[i].latest, inFlight[i].confirmed, byId[i])
  /\ "rollback" \notin clashes' => ~inFlight[i].moved /\ ops[o].st # "map"
\* What settling a rejected call does.
LEMMA RejectsDoes ==
  ASSUME TypeOK, ShapeInv, NEW o \in Ops, Rejects(o), NEW i \in Ids, i = ops[o].id
  PROVE  RejectEffect(o, i)
<1>1. ops[o] \in Call /\ CallShape(o) /\ ops \in [Ops -> Call] /\ inFlight \in [Ids -> Optional(Entry)]
      /\ byId \in [Ids -> Optional(Docs)]
  BY DEF TypeOK, ShapeInv
<1>2. \/ Turn(o) /\ attached = 0
      \/ ops[o].st \in {"look", "put", "map", "patch", "bury"}
  BY DEF Rejects, NeedsIndex
<1>3. Busy(o) /\ Head(Queue(ops[o].id)) = o
  <2>1. CASE Turn(o)
    BY <2>1 DEF Turn, Busy, Queue
  <2>2. CASE ops[o].st \in {"look", "put", "map", "patch", "bury"}
    <3>1. Running(o)
      BY <2>2 DEF Running
    <3> QED BY <3>1, RunningCall
  <2> QED BY <1>2, <2>1, <2>2
<1>4. PICK en \in Entry : en = inFlight[i] /\ en.queue = Queue(i) /\ en.queue # <<>>
  BY <1>1, <1>3, BusyCall DEF Optional, Queue
<1>4a. Queue(i)[1] = o /\ inFlight[i] # None
  BY <1>3, BusyCall, QueueParts
<1>5. PICK c \in Call : c = ops[o]
  BY <1>1
<1>6. PICK r : r = [c EXCEPT !.st = "rejected", !.seen = None]
  OBVIOUS
<1>7. r.st = "rejected" /\ r.kind = c.kind /\ r.id = c.id /\ r.doc = c.doc /\ r.store = c.store /\ r.env = c.env /\ r.seen = None
  BY <1>6 DEF Call
<1>8. ops'[o] = r /\ \A b \in Ops : b # o => ops'[b] = ops[b]
  <2>1. ops' = [ops EXCEPT ![o] = r]
    BY <1>5, <1>6 DEF Rejects
  <2> QED BY <1>1, <2>1
<1>9. UNCHANGED <<pending, rows, index, attached, stores, closing, swap, listing, timer, events, pulled, clock>>
  BY DEF Rejects, held, lives, feed
<1>10. ASSUME Writes(o) /\ inFlight[i].latest = ops[o].doc
       PROVE  SettleEffect(o, i, "rejected", inFlight[i].confirmed, inFlight[i].confirmed, inFlight[i].confirmed)
  <2>1. PICK f : f = [en EXCEPT !.latest = en.confirmed]
    OBVIOUS
  <2>2. f \in Entry /\ f.queue = en.queue /\ f.latest = en.confirmed /\ f.confirmed = en.confirmed /\ f.moved = en.moved
    BY <2>1, EntryFields DEF Entry
  <2>3. inFlight' = [inFlight EXCEPT ![i] = Settled(f)] /\ byId' = [byId EXCEPT ![i] = en.confirmed]
    BY <1>4, <1>5, <1>10, <2>1 DEF Rejects, Writes
  <2>4. inFlight'[i] = Settled(f) /\ byId'[i] = en.confirmed
        /\ \A j \in Ids : j # i => inFlight'[j] = inFlight[j] /\ byId'[j] = byId[j]
    BY <1>1, <2>3
  <2>5. Queue(i)' = inFlight'[i].queue
    BY DEF Queue
  <2> QED BY <1>3, <1>4, <1>4a, <1>5, <1>7, <1>8, <1>9, <2>2, <2>4, <2>5, SettleFacts
<1>11. ASSUME ~(Writes(o) /\ inFlight[i].latest = ops[o].doc)
       PROVE  SettleEffect(o, i, "rejected", inFlight[i].latest, inFlight[i].confirmed, byId[i])
  <2>3. inFlight' = [inFlight EXCEPT ![i] = Settled(en)] /\ byId' = byId
    BY <1>4, <1>5, <1>11 DEF Rejects, Writes
  <2>4. inFlight'[i] = Settled(en) /\ byId'[i] = byId[i]
        /\ \A j \in Ids : j # i => inFlight'[j] = inFlight[j] /\ byId'[j] = byId[j]
    BY <1>1, <2>3
  <2>5. Queue(i)' = inFlight'[i].queue
    BY DEF Queue
  <2> QED BY <1>3, <1>4, <1>4a, <1>5, <1>7, <1>8, <1>9, <2>4, <2>5, SettleFacts
<1>12. "rollback" \notin clashes' => ~inFlight[i].moved /\ ops[o].st # "map"
  BY DEF Rejects, Crossed
<1> QED BY <1>2, <1>10, <1>11, <1>12 DEF RejectEffect, Turn

\* An entry is marked as moved, and nothing else of it changes.
LEMMA MovedDoes ==
  ASSUME TypeOK, NEW i \in Ids, inFlight'[i] = Moved(inFlight[i])
  PROVE  /\ inFlight'[i] = None <=> inFlight[i] = None
         /\ inFlight[i] # None => /\ Queue(i)' = Queue(i) /\ inFlight'[i].latest = inFlight[i].latest
                                  /\ inFlight'[i].confirmed = inFlight[i].confirmed /\ inFlight'[i].moved = TRUE
<1>1. CASE inFlight[i] = None
  BY <1>1 DEF Moved
<1>2. CASE inFlight[i] # None
  <2>1. PICK en \in Entry : en = inFlight[i]
    BY <1>2 DEF TypeOK, Optional
  <2>2. PICK f : f = [en EXCEPT !.moved = TRUE]
    OBVIOUS
  <2>3. f \in Entry /\ f.queue = en.queue /\ f.latest = en.latest /\ f.confirmed = en.confirmed
    BY <2>2 DEF Entry
  <2>4. f.moved = TRUE
    BY <2>2 DEF Entry
  <2>5. inFlight'[i] = f
    BY <1>2, <2>1, <2>2 DEF Moved
  <2> QED BY <1>2, <2>1, <2>3, <2>4, <2>5, NoneIsApart DEF Queue
<1> QED BY <1>1, <1>2

(***************************************************************************)
(* Stamps and ids                                                          *)
(***************************************************************************)
\* Where the document of a row comes from.
LEMMA RowSources ==
  ASSUME TypeOK, ShapeInv, StampInv, [Next]_vars
  PROVE  \A s \in 1..MaxStores, e \in Envelopes : rows'[s][e] # None => rows'[s][e].doc.ts <= clock
<1> SUFFICES ASSUME NEW s \in 1..MaxStores, NEW e \in Envelopes, rows'[s][e] # None PROVE rows'[s][e].doc.ts <= clock
  OBVIOUS
<1>a. clock \in Nat /\ stores \in Nat /\ rows \in [1..MaxStores -> Listing] /\ \A o \in Ops : CallShape(o)
  BY DEF TypeOK, ShapeInv
<1>b. \A d \in Envelopes : rows[s][d] # None => rows[s][d].doc.ts <= clock
  BY DEF StampInv
<1>1. CASE rows' = rows
  BY <1>b, <1>1
<1>2. ASSUME NEW o \in Ops, Put(o) PROVE rows'[s][e].doc.ts <= clock
  <2>1. ops[o].doc.ts <= clock
    BY <1>2, <1>a DEF Put, CallShape
  <2>2. rows'[s][e] = rows[s][e] \/ rows'[s][e] = [doc |-> ops[o].doc, dead |-> FALSE]
    BY <1>2, PutWrites
  <2> QED BY <1>b, <1>2, <2>1, <2>2
<1>3. ASSUME NEW o \in Ops, Patch(o) PROVE rows'[s][e].doc.ts <= clock
  <2>1. ops[o].doc.ts <= clock
    BY <1>3, <1>a DEF Patch, CallShape
  <2>2. rows'[s][e] = rows[s][e] \/ rows'[s][e] = [doc |-> ops[o].doc, dead |-> rows[ops[o].store][ops[o].env].dead]
    BY <1>3, PatchWrites
  <2> QED BY <1>b, <1>3, <2>1, <2>2
<1>4. ASSUME NEW o \in Ops, Bury(o) PROVE rows'[s][e].doc.ts <= clock
  <2>1. \/ rows'[s][e] = rows[s][e]
        \/ /\ rows'[s][e] = [doc |-> rows[ops[o].store][ops[o].env].doc, dead |-> TRUE]
           /\ s = ops[o].store /\ e = ops[o].env /\ rows[s][e] # None
    BY <1>4, BuryWrites
  <2> QED BY <1>b, <2>1
<1>5. ASSUME NEW p \in Pulls, Pull(p) PROVE rows'[s][e].doc.ts <= clock
  <2>1. PICK d \in Envelopes, doc \in Docs, dead \in BOOLEAN : Installed(p, d, doc, dead)
    BY <1>5, PullInstalls
  <2>2. attached \in 1..MaxStores /\ \A x \in Live(rows[attached]) : rows[attached][x].doc.ts <= clock
    BY <2>1 DEF Installed, Live, StampInv
  <2>3. doc.ts <= clock
    BY <2>1, <2>2 DEF Installed
  <2>4. rows'[s][e] = rows[s][e] \/ rows'[s][e] = [doc |-> doc, dead |-> dead]
    BY <2>1 DEF Installed
  <2> QED BY <1>b, <2>3, <2>4
<1>6. CASE Attach
  <2>1. CASE swap /\ rows' = [rows EXCEPT ![stores + 1] = [d \in Envelopes |->
                       IF d \in Live(rows[stores]) THEN rows[stores][d] ELSE None]]
    <3>1. CASE s = stores + 1
      <4>1. rows'[s][e] = rows[stores][e] /\ e \in Live(rows[stores])
        BY <1>a, <2>1, <3>1
      <4>2. stores \in 1..MaxStores
        BY <1>a, <2>1, <3>1, ConstantsOK DEF ConstantsOK, ShapeInv
      <4> QED BY <4>1, <4>2 DEF Live, StampInv
    <3>2. CASE s # stores + 1
      BY <1>a, <1>b, <2>1, <3>2
    <3> QED BY <3>1, <3>2
  <2>2. CASE \E p \in Pulls \ pulled, i \in Ids :
               rows' = [rows EXCEPT ![stores + 1][p] = [doc |-> [id |-> i, ts |-> 0, src |-> p], dead |-> FALSE]]
    <3>1. PICK p, i : rows' = [rows EXCEPT ![stores + 1][p] = [doc |-> [id |-> i, ts |-> 0, src |-> p], dead |-> FALSE]]
      BY <2>2
    <3>2. rows[s] \in [Envelopes -> Optional(Rows)]
      BY <1>a DEF Listing
    <3>3. rows'[s][e] = rows[s][e] \/ rows'[s][e] = [doc |-> [id |-> i, ts |-> 0, src |-> p], dead |-> FALSE]
      BY <1>a, <3>1, <3>2
    <3> QED BY <1>a, <1>b, <3>3
  <2> QED BY <1>1, <1>6, <2>1, <2>2 DEF Attach
<1>7. \/ rows' = rows \/ (\E o \in Ops : Put(o) \/ Patch(o) \/ Bury(o)) \/ (\E p \in Pulls : Pull(p)) \/ Attach
  BY DEF Next, Persist, Issue, Start, ListForIndex, SetIndex, Look, MapEnvelope, Finish, Rejects,
         Deliver, Undecodable, Flush, Rehydrate, Hydrated, Detach, CloseAndClear, EndSwap, vars, held
<1> QED BY <1>1, <1>2, <1>3, <1>4, <1>5, <1>6, <1>7

\* Where a change of the feed comes from.
LEMMA FeedSources ==
  ASSUME TypeOK, ShapeInv, [Next]_vars
  PROVE  \/ events' \cup Range(pending') \subseteq events \cup Range(pending)
         \/ \E p \in Pulls, e \in Envelopes, doc \in Docs, dead \in BOOLEAN :
              /\ Pull(p) /\ Installed(p, e, doc, dead)
              /\ events' = events \cup {[store |-> attached, env |-> e, doc |-> doc, dead |-> dead]} /\ pending' = pending
<1>1. CASE UNCHANGED pending /\ events' \subseteq events
  BY <1>1
<1>2. ASSUME NEW c \in events, Deliver(c) PROVE events' \cup Range(pending') \subseteq events \cup Range(pending)
  <2>1. pending \in Seq(Change) /\ c \in Change
    BY DEF TypeOK
  <2>2. Range(Append(pending, c)) = Range(pending) \cup {c}
    <3>1. DOMAIN Append(pending, c) = 1..(Len(pending) + 1) /\ DOMAIN pending = 1..Len(pending) /\ Len(pending) \in Nat
          /\ Append(pending, c)[Len(pending) + 1] = c /\ \A k \in 1..Len(pending) : Append(pending, c)[k] = pending[k]
      BY <2>1
    <3>2. \A k \in 1..(Len(pending) + 1) : k \in 1..Len(pending) \/ k = Len(pending) + 1
      BY <3>1
    <3>3. 1..Len(pending) \subseteq 1..(Len(pending) + 1) /\ Len(pending) + 1 \in 1..(Len(pending) + 1)
      BY <3>1
    <3>4. ASSUME NEW x PROVE x \in Range(Append(pending, c)) <=> x \in Range(pending) \cup {c}
      BY <3>1, <3>2, <3>3 DEF Range
    <3> QED BY <3>4
  <2>3. pending' = pending \/ pending' = Append(pending, c)
    BY <1>2 DEF Deliver
  <2>4. events' \subseteq events
    BY <1>2 DEF Deliver
  <2> QED BY <2>2, <2>3, <2>4
<1>3. CASE Flush \/ CloseAndClear
  <2>1. pending' = <<>> /\ events' = events
    BY <1>3 DEF Flush, CloseAndClear, feed
  <2>2. Range(<<>>) = {}
    BY DEF Range
  <2> QED BY <2>1, <2>2
<1>4. ASSUME NEW p \in Pulls, Pull(p)
      PROVE  \E e \in Envelopes, doc \in Docs, dead \in BOOLEAN :
              /\ Pull(p) /\ Installed(p, e, doc, dead)
              /\ events' = events \cup {[store |-> attached, env |-> e, doc |-> doc, dead |-> dead]} /\ pending' = pending
  <2>1. PICK e \in Envelopes, doc \in Docs, dead \in BOOLEAN : Installed(p, e, doc, dead)
    BY <1>4, PullInstalls
  <2>2. events' = events \cup {[store |-> attached, env |-> e, doc |-> doc, dead |-> dead]}
    BY <2>1 DEF Installed, Install
  <2>3. pending' = pending
    BY <1>4 DEF Pull
  <2> QED BY <1>4, <2>1, <2>2, <2>3
<1>5. \/ UNCHANGED pending /\ events' \subseteq events
      \/ (\E c \in events : Deliver(c)) \/ Flush \/ CloseAndClear \/ (\E p \in Pulls : Pull(p))
  <2>1. ASSUME NEW o \in Ops, NEW kind \in Kinds, NEW i \in Ids, Issue(o, kind, i) PROVE UNCHANGED pending /\ events' \subseteq events
    BY <2>1 DEF Issue, feed
  <2>2. ASSUME NEW o \in Ops, Persist(o) PROVE UNCHANGED pending /\ events' \subseteq events
    BY <2>2 DEF Persist, Start, ListForIndex, SetIndex, Look, Put, MapEnvelope, Patch, Bury, Finish, Rejects, store, feed
  <2>3. ASSUME NEW c \in events, Undecodable(c) PROVE UNCHANGED pending /\ events' \subseteq events
    BY <2>3 DEF Undecodable, store
  <2>4. ASSUME Rehydrate \/ Hydrated \/ (\E swaps \in BOOLEAN : Detach(swaps)) \/ Attach \/ EndSwap \/ UNCHANGED vars
        PROVE  UNCHANGED pending /\ events' \subseteq events
    BY <2>4 DEF Rehydrate, Hydrated, Detach, Attach, EndSwap, vars, store, feed
  <2> QED BY <2>1, <2>2, <2>3, <2>4 DEF Next
<1> QED BY <1>1, <1>2, <1>3, <1>4, <1>5

\* No step lets a stamp run ahead of the clock.
LEMMA StampStep == TypeOK /\ TypeOK' /\ ShapeInv /\ StampInv /\ [Next]_vars => StampInv'
<1> SUFFICES ASSUME TypeOK, TypeOK', ShapeInv, StampInv, [Next]_vars PROVE StampInv'
  OBVIOUS
<1>1. clock \in Nat /\ clock' \in Nat /\ clock <= clock'
  <2>1. clock' = clock \/ clock' = clock + 1
    <3>1. ASSUME NEW o \in Ops, NEW kind \in Kinds, NEW i \in Ids, Issue(o, kind, i) PROVE clock' = clock + 1
      BY <3>1 DEF Issue
    <3>2. ASSUME NEW o \in Ops, Persist(o) PROVE clock' = clock
      BY <3>2 DEF Persist, Start, ListForIndex, SetIndex, Look, Put, MapEnvelope, Patch, Bury, Finish, Rejects
    <3>3. (\E p \in Pulls : Pull(p)) \/ (\E c \in events : Deliver(c) \/ Undecodable(c)) => clock' = clock
      BY DEF Pull, Deliver, Undecodable
    <3>4. Flush \/ Rehydrate \/ Hydrated \/ (\E swaps \in BOOLEAN : Detach(swaps)) \/ CloseAndClear \/ Attach
          \/ EndSwap \/ UNCHANGED vars => clock' = clock
      BY DEF Flush, Rehydrate, Hydrated, Detach, CloseAndClear, Attach, EndSwap, vars
    <3> QED BY <3>1, <3>2, <3>3, <3>4 DEF Next
  <2> QED BY <2>1 DEF TypeOK
<1>2. ASSUME NEW s \in 1..MaxStores, NEW e \in Envelopes, rows'[s][e] # None PROVE rows'[s][e].doc.ts <= clock'
  <2>1. rows'[s][e].doc.ts <= clock /\ rows'[s][e].doc.ts \in Nat
    BY <1>2, RowSources, RowFields DEF TypeOK, Listing, Optional, Rows, Docs
  <2> QED BY <1>1, <2>1
<1>3. ASSUME NEW c \in (events \cup Range(pending))' PROVE c.doc.ts <= clock'
  <2>1. CASE c \in events \cup Range(pending)
    <3>1. c \in Change
      BY <2>1 DEF TypeOK, Range
    <3>2. c.doc \in Docs
      BY <3>1 DEF Change
    <3>3. c.doc.ts \in Nat /\ c.doc.ts <= clock
      BY <2>1, <3>2 DEF Docs, StampInv
    <3> QED BY <1>1, <3>3
  <2>2. CASE c \notin events \cup Range(pending)
    <3>1. PICK p \in Pulls, e \in Envelopes, doc \in Docs, dead \in BOOLEAN :
            /\ Pull(p) /\ Installed(p, e, doc, dead)
            /\ events' = events \cup {[store |-> attached, env |-> e, doc |-> doc, dead |-> dead]} /\ pending' = pending
      BY <1>3, <2>2, FeedSources
    <3>2. c.doc = doc
      BY <1>3, <2>2, <3>1
    <3>3. doc.ts \in Nat /\ doc.ts <= clock
      <4>1. attached \in 1..MaxStores /\ \A x \in Live(rows[attached]) : rows[attached][x].doc.ts <= clock
        BY <3>1 DEF Installed, Live, StampInv
      <4> QED BY <3>1, <4>1 DEF Installed, Docs
    <3> QED BY <1>1, <3>2, <3>3
  <2> QED BY <2>1, <2>2
<1>4. ASSUME listing' # None, NEW e \in Envelopes, listing'.seen[e] # None PROVE listing'.seen[e].doc.ts <= clock'
  <2>1. CASE listing' = listing
    <3>1. listing.seen \in Listing
      BY <1>4, <2>1 DEF TypeOK, Optional, Listed
    <3>2. listing.seen[e] \in Rows
      BY <1>4, <2>1, <3>1 DEF Listing, Optional
    <3>3. listing.seen[e].doc.ts \in Nat /\ listing.seen[e].doc.ts <= clock
      BY <1>4, <2>1, <3>2 DEF Rows, Docs, StampInv
    <3> QED BY <1>1, <2>1, <3>3
  <2>2. CASE Rehydrate
    <3>1. attached \in 1..MaxStores /\ listing'.seen = rows[attached] /\ rows' = rows
      BY <2>2, ConstantsOK DEF Rehydrate, held, TypeOK, ConstantsOK
    <3> QED BY <1>2, <1>4, <3>1
  <2>3. CASE Attach
    <3>1. stores + 1 \in 1..MaxStores /\ listing'.seen = rows'[stores + 1]
      BY <2>3, ConstantsOK DEF Attach, TypeOK, ConstantsOK
    <3> QED BY <1>2, <1>4, <3>1
  <2>4. listing' = listing \/ Rehydrate \/ Attach
    BY <1>4 DEF Next, Persist, Issue, Start, ListForIndex, SetIndex, Look, Put, MapEnvelope, Patch, Bury, Finish, Rejects,
           Pull, Deliver, Undecodable, Flush, Hydrated, Detach, CloseAndClear, EndSwap, vars
  <2> QED BY <2>1, <2>2, <2>3, <2>4
<1> QED BY <1>2, <1>3, <1>4 DEF StampInv

\* Every step files a document under its own id.
LEMMA IdStep == TypeOK /\ TypeOK' /\ ShapeInv /\ IdInv /\ [Next]_vars => IdInv'
<1> SUFFICES ASSUME TypeOK, TypeOK', ShapeInv, IdInv, [Next]_vars PROVE IdInv'
  OBVIOUS
<1>1. ASSUME NEW o \in Ops, NEW kind \in Kinds, NEW i \in Ids, Issue(o, kind, i) PROVE IdInv'
  <2>1. IssueEffect(o, kind, i)
    BY <1>1, IssueDoes
  <2> QED BY <2>1 DEF IssueEffect, IdInv
<1>2. ASSUME NEW o \in Ops, Finish(o) PROVE IdInv'
  <2>0. PICK i \in Ids : i = ops[o].id
    BY <1>2, BusyCall DEF Finish, Busy
  <2>1. FinishEffect(o, i)
    BY <1>2, <2>0, FinishDoes
  <2>2. Writes(o) => ops[o].doc.id = i
    BY <2>0, <2>1 DEF FinishEffect, ShapeInv, CallShape
  <2> QED BY <2>1, <2>2 DEF FinishEffect, SettleEffect, IdInv
<1>3. ASSUME NEW o \in Ops, Rejects(o) PROVE IdInv'
  <2>0. PICK i \in Ids : i = ops[o].id
    BY <1>3, BusyCall DEF Rejects, Turn, NeedsIndex, Busy
  <2>1. RejectEffect(o, i)
    BY <1>3, <2>0, RejectsDoes
  <2> QED BY <2>1 DEF RejectEffect, SettleEffect, IdInv
<1>4. ASSUME \A i \in Ids : byId'[i] # None => byId'[i].id = i,
             \A i \in Ids : inFlight'[i] = inFlight[i] \/ inFlight'[i] = Moved(inFlight[i])
      PROVE  IdInv'
  <2> SUFFICES ASSUME NEW i \in Ids, inFlight'[i] # None
               PROVE  /\ inFlight'[i].latest # None => inFlight'[i].latest.id = i
                      /\ inFlight'[i].confirmed # None => inFlight'[i].confirmed.id = i
    BY <1>4 DEF IdInv
  <2>1. CASE inFlight'[i] = inFlight[i]
    BY <2>1 DEF IdInv
  <2>2. CASE inFlight'[i] = Moved(inFlight[i])
    <3>1. inFlight[i] # None /\ inFlight'[i].latest = inFlight[i].latest /\ inFlight'[i].confirmed = inFlight[i].confirmed
      BY <2>2, MovedDoes
    <3> QED BY <3>1 DEF IdInv
  <2> QED BY <1>4, <2>1, <2>2
<1>5. ASSUME NEW p \in Pulls, Pull(p) PROVE IdInv'
  <2>1. \E doc \in Docs : inFlight' = [inFlight EXCEPT ![doc.id] = Moved(@)]
    BY <1>5, PullInstalls DEF Installed, Install
  <2>2. \A i \in Ids : inFlight'[i] = inFlight[i] \/ inFlight'[i] = Moved(inFlight[i])
    BY <2>1 DEF TypeOK
  <2> QED BY <1>4, <1>5, <2>2 DEF Pull, IdInv
<1>6. CASE Flush
  <2>1. \A i \in Ids : byId'[i] # None => byId'[i].id = i
    <3> DEFINE B == {x \in [Ids -> Optional(Docs)] : \A i \in Ids : x[i] # None => x[i].id = i}
               n == Len(pending)
    <3>1. pending \in [1..n -> Change] /\ n \in Nat /\ DOMAIN pending = 1..n
      BY DEF TypeOK
    <3>2. ASSUME NEW x \in B, NEW k \in 1..n PROVE Applied(x, pending[k]) \in B
      <4>1. pending[k] \in Change
        BY <3>1
      <4>2. pending[k].doc \in Docs
        BY <4>1 DEF Change
      <4>3. Applied(x, pending[k]) \in [Ids -> Optional(Docs)]
        BY <4>2 DEF Applied, Optional
      <4>4. \A i \in Ids : Applied(x, pending[k])[i] # None => Applied(x, pending[k])[i].id = i
        BY <4>2 DEF Applied, Docs
      <4> QED BY <4>3, <4>4
    <3>3. byId \in B
      BY DEF TypeOK, IdInv
    <3> HIDE DEF B, n
    <3>4. PICK h \in [0..n -> B] : Burst(byId, pending) = h[n]
      BY <3>1, <3>2, <3>3, FoldIsLoop DEF Loops
    <3>5. byId' \in B
      BY <1>6, <3>1, <3>4 DEF Flush
    <3> QED BY <3>5 DEF B
  <2> QED BY <1>4, <1>6, <2>1 DEF Flush
<1>7. CASE Hydrated
  <2>1. \A i \in Ids : DocIn(listing.seen, i) # None => DocIn(listing.seen, i).id = i
    BY DEF DocIn, OneOf, LiveOf
  <2>2. \A i \in Ids : byId'[i] = IF inFlight[i] # None THEN inFlight[i].latest ELSE DocIn(listing.seen, i)
    BY <1>7 DEF Hydrated
  <2>3. \A i \in Ids : byId'[i] # None => byId'[i].id = i
    BY <2>1, <2>2 DEF IdInv
  <2> QED BY <1>4, <1>7, <2>3 DEF Hydrated
<1>8. CASE CloseAndClear
  BY <1>4, <1>8 DEF CloseAndClear
<1>9. CASE UNCHANGED <<byId, inFlight>>
  BY <1>9 DEF IdInv
<1>10. \/ UNCHANGED <<byId, inFlight>> \/ Flush \/ Hydrated \/ CloseAndClear
       \/ \E o \in Ops, kind \in Kinds, i \in Ids : Issue(o, kind, i)
       \/ \E o \in Ops : Finish(o) \/ Rejects(o)
       \/ \E p \in Pulls : Pull(p)
  BY DEF Next, Persist, Start, ListForIndex, SetIndex, Look, Put, MapEnvelope, Patch, Bury,
         Deliver, Undecodable, Rehydrate, Detach, Attach, EndSwap, vars, store
<1> QED BY <1>1, <1>2, <1>3, <1>5, <1>6, <1>7, <1>8, <1>9, <1>10

(***************************************************************************)
(* The part of the invariant that every behaviour keeps                    *)
(***************************************************************************)
BaseInv == TypeOK /\ ShapeInv /\ SessionInv /\ StampInv /\ IdInv

\* The base invariant holds in the first state.
LEMMA BaseInit == Init => BaseInv
<1> SUFFICES ASSUME Init PROVE BaseInv
  OBVIOUS
<1>1. NewCall \in Call /\ NoRows \in Listing /\ MaxStores \in Nat
  BY ConstantsOK DEF ConstantsOK, NewCall, Call, NoRows, Listing, Optional
<1>2. TypeOK
  <2>1. byId \in [Ids -> Optional(Docs)] /\ inFlight \in [Ids -> Optional(Entry)] /\ pending \in Seq(Change)
    BY DEF Init, Optional
  <2>2. ops \in [Ops -> Call] /\ rows \in [1..MaxStores -> Listing] /\ index \in [1..MaxStores -> Optional(Index)]
    BY <1>1 DEF Init, Optional
  <2>3. /\ attached \in 0..stores /\ stores \in 0..MaxStores /\ closing \in 0..stores
        /\ swap \in BOOLEAN /\ timer \in BOOLEAN /\ listing \in Optional(Listed) /\ events \subseteq Change /\ pulled \subseteq Pulls
        /\ clock \in Nat /\ faults \in Nat /\ lists \in Nat /\ clashes \subseteq Crossings
    <3>1. attached \in 0..stores /\ stores \in 0..MaxStores /\ closing \in 0..stores
      BY <1>1 DEF Init
    <3>2. swap \in BOOLEAN /\ timer \in BOOLEAN /\ listing \in Optional(Listed) /\ events \subseteq Change /\ pulled \subseteq Pulls
      BY DEF Init, Optional
    <3> QED BY <3>1, <3>2 DEF Init
  <2> QED BY <2>1, <2>2, <2>3 DEF TypeOK
<1>3. ShapeInv
  <2>1. \A o \in Ops : ops[o] = NewCall /\ ops[o].st = "new" /\ ops[o].doc = None /\ ops[o].seen = None /\ ops[o].kind = None
    BY DEF Init, NewCall
  <2>2. \A o \in Ops : CallShape(o)
    <3>1. \A o \in Ops : ops[o].st = "new" => ~Busy(o) /\ ~Running(o)
      BY DEF Busy, Running
    <3> QED BY <2>1, <3>1 DEF CallShape
  <2> QED BY <2>2 DEF Init, ShapeInv, QueueShape
<1>4. SessionInv
  <2>1. DOMAIN pending = {}
    BY DEF Init
  <2> QED BY <1>1, <2>1 DEF Init, SessionInv, InUse, NoRows
<1>5. StampInv /\ IdInv
  <2>1. Range(pending) = {}
    BY DEF Init, Range
  <2> QED BY <2>1 DEF Init, StampInv, IdInv, NoRows
<1> QED BY <1>2, <1>3, <1>4, <1>5 DEF BaseInv

\* Every step keeps the base invariant, crossings or none.
LEMMA BaseStep == BaseInv /\ [Next]_vars => BaseInv'
BY TypeStep, ShapeStep, SessionStep, StampStep, IdStep DEF BaseInv

(***************************************************************************)
(* What holds in every reachable state                                     *)
(***************************************************************************)
\* Every call holds what its step needs and runs at the head of its document's queue; one
\* replica is in use, and a listing, a re-hydrate timer and the pull burst are of it; no
\* stamp is of the future and every document is filed under its own id.
THEOREM StoreBase == Spec => []BaseInv
<1>1. Init => BaseInv
  BY BaseInit
<1>2. BaseInv /\ [Next]_vars => BaseInv'
  BY BaseStep
<1> QED BY <1>1, <1>2, PTL DEF Spec

\* Every reachable state of a store, its replicas and its change feed is well typed.
THEOREM StoreTypeCorrect == Spec => []TypeOK
<1>1. BaseInv => TypeOK
  BY DEF BaseInv
<1> QED BY <1>1, StoreBase, PTL

\* A listing, a re-hydrate timer and the pull burst are of the replica in use, which has an
\* index or is being listed (detach clears the timers, deactivateStore the store).
THEOREM StoreSession == Spec => []SessionInv
<1>1. BaseInv => SessionInv
  BY DEF BaseInv
<1> QED BY <1>1, StoreBase, PTL
=============================================================================
